--------------------- MODULE ExtensionReaderRefinement ---------------------
(***************************************************************************)
(* The C Reader implements ReaderAPI, for every set of threads, every      *)
(* search tree and every bound.  Most steps touch the phase of one thread  *)
(* only: Moves lists the ways that may happen, LocalStep shows that each   *)
(* is a step of ReaderAPI or none, and the proof for an action says which  *)
(* one it is.  The steps that touch the abstract state are Reader_init and *)
(* close_flag; the second is where Exclusion is needed.                    *)
(***************************************************************************)
EXTENDS ExtensionReaderProofs

\* What a call has to hand back at each step.
ResInv ==
  \A t \in Threads :
    /\ pc[t] \in UsingDatabase \cup {"rdlock", "check"} => res[t] = "nothing"
    /\ pc[t] = "network" => res[t] \in {"nothing", "done", "RuntimeError", "SystemError"}
    /\ pc[t] \in {"rdunlock", "free"} => res[t] \in Successes \cup
         {"closed", "lookup_error", "network_error", "InvalidDatabaseError", "MemoryError"}
    /\ pc[t] = "build" => res[t] = "metadata"
    /\ pc[t] = "alloc" => res[t] = "iterator"

\* Every step keeps the result that goes with the step the call is at.
LEMMA ResStep == TypeOK /\ CallInv /\ ResInv /\ [Next]_vars => ResInv'
<1> SUFFICES ASSUME TypeOK, CallInv, ResInv, [Next]_vars PROVE ResInv'
  OBVIOUS
<1> USE DEF ResInv, TypeOK, CallTypes, LocalTypes, CallInv,
        objVars, lockVars, interp, iterVars, locals, callVars, history,
        UsingDatabase, MappedSteps, ReadSteps, WriteSteps, ReadOps, Successes, Running, At, Goto
<1>1. ASSUME NEW t \in Threads, TakeGil(t) PROVE ResInv'
  BY <1>1 DEF TakeGil
<1>2. ASSUME NEW t \in Threads, Yield(t) PROVE ResInv'
  BY <1>2 DEF Yield
<1>3. ASSUME NEW t \in Threads, Reader_init(t) PROVE ResInv'
  <2>1. CASE obj' = "live"
    BY <1>3, <2>1 DEF Reader_init
  <2>2. CASE obj' = "failed"
    BY <1>3, <2>2 DEF Reader_init
  <2>3. QED
    BY <1>3, <2>1, <2>2 DEF Reader_init
<1>4. ASSUME NEW t \in Threads, DropReader(t) PROVE ResInv'
  <2>1. CASE Goto(t, "dealloc") /\ op' = [op EXCEPT ![t] = "dealloc"]
    BY <1>4, <2>1 DEF DropReader
  <2>2. CASE UNCHANGED <<pc, op>>
    BY <1>4, <2>2 DEF DropReader
  <2>3. QED
    BY <1>4, <2>1, <2>2 DEF DropReader
<1>5. ASSUME NEW t \in Threads, Reader_get(t) PROVE ResInv'
  <2>1. CASE CallReader(t, "get", "rdlock")
    BY <1>5, <2>1 DEF Reader_get, CallReader, Call
  <2>2. CASE ~CallReader(t, "get", "rdlock")
    BY <1>5, <2>2 DEF Reader_get, CallReader, Call
  <2>3. QED
    BY <1>5, <2>1, <2>2 DEF Reader_get
<1>6. ASSUME NEW t \in Threads, Reader_metadata(t) PROVE ResInv'
  BY <1>6 DEF Reader_metadata, CallReader, Call
<1>7. ASSUME NEW t \in Threads, Reader__enter__(t) PROVE ResInv'
  BY <1>7 DEF Reader__enter__, CallReader, Call
<1>8. ASSUME NEW t \in Threads, Reader_iter(t) PROVE ResInv'
  BY <1>8 DEF Reader_iter, CallReader, Call
<1>9. ASSUME NEW t \in Threads, Reader_close(t) PROVE ResInv'
  BY <1>9 DEF Reader_close, CallReader, Call
<1>10. ASSUME NEW t \in Threads, Reader__exit__(t) PROVE ResInv'
  BY <1>10 DEF Reader__exit__, CallReader, Call
<1>11. ASSUME NEW t \in Threads, ReadClosedMember(t) PROVE ResInv'
  BY <1>11 DEF ReadClosedMember
<1>12. ASSUME NEW t \in Threads, reader_acquire_read_lock(t) PROVE ResInv'
  BY <1>12 DEF reader_acquire_read_lock
<1>13. ASSUME NEW t \in Threads, read_lock_fails(t) PROVE ResInv'
  BY <1>13 DEF read_lock_fails
<1>14. ASSUME NEW t \in Threads, reader_release_read_lock(t) PROVE ResInv'
  BY <1>14 DEF reader_release_read_lock, AfterRead
<1>15. ASSUME NEW t \in Threads, reader_acquire_write_lock(t) PROVE ResInv'
  BY <1>15 DEF reader_acquire_write_lock
<1>16. ASSUME NEW t \in Threads, write_lock_fails(t) PROVE ResInv'
  BY <1>16 DEF write_lock_fails, Return
<1>17. ASSUME NEW t \in Threads, reader_release_write_lock(t) PROVE ResInv'
  <2>1. CASE op[t] = "dealloc"
    BY <1>17, <2>1 DEF reader_release_write_lock
  <2>2. CASE op[t] # "dealloc"
    <3>1. res' = [res EXCEPT ![t] = "done"] /\ (Goto(t, "network") \/ Goto(t, "idle"))
      BY <1>17, <2>2 DEF reader_release_write_lock, Return
    <3>2. QED
      BY <3>1
  <2>3. QED
    BY <2>1, <2>2
<1>18. ASSUME NEW t \in Threads, Reader_dealloc(t) PROVE ResInv'
  BY <1>18 DEF Reader_dealloc
<1>19. ASSUME NEW t \in Threads, reader_lock_destroy(t) PROVE ResInv'
  BY <1>19 DEF reader_lock_destroy
<1>20. ASSUME NEW t \in Threads, close_unmap(t) PROVE ResInv'
  BY <1>20 DEF close_unmap
<1>21. ASSUME NEW t \in Threads, close_clear(t) PROVE ResInv'
  BY <1>21 DEF close_clear
<1>22. ASSUME NEW t \in Threads, check_closed(t) PROVE ResInv'
  BY <1>22 DEF check_closed, SeesClosed
<1>23. ASSUME NEW t \in Threads, get_record(t) PROVE ResInv'
  <2>1. CASE Goto(t, "decode") /\ UNCHANGED res
    BY <1>23, <2>1 DEF get_record
  <2>2. ASSUME NEW r \in {"lookup_error", "notfound"}, Goto(t, "rdunlock"), res' = [res EXCEPT ![t] = r] PROVE ResInv'
    BY <1>23, <2>2 DEF get_record
  <2>3. QED
    BY <1>23, <2>1, <2>2 DEF get_record
<1>24. ASSUME NEW t \in Threads, get_entry_data_list(t) PROVE ResInv'
  <2>1. CASE Goto(t, "convert") /\ UNCHANGED res
    BY <1>24, <2>1 DEF get_entry_data_list
  <2>2. CASE Goto(t, "rdunlock") /\ res' = [res EXCEPT ![t] = "InvalidDatabaseError"]
    BY <1>24, <2>2 DEF get_entry_data_list
  <2>3. QED
    BY <1>24, <2>1, <2>2 DEF get_entry_data_list
<1>25. ASSUME NEW t \in Threads, from_entry_data_list(t) PROVE ResInv'
  <2>1. CASE Goto(t, "rdunlock") /\ res' = [res EXCEPT ![t] = "InvalidDatabaseError"]
    BY <1>25, <2>1 DEF from_entry_data_list
  <2>2. CASE op[t] = "next" /\ Goto(t, "network") /\ UNCHANGED res
    BY <1>25, <2>2 DEF from_entry_data_list
  <2>3. CASE op[t] # "next" /\ Goto(t, "rdunlock") /\ res' = [res EXCEPT ![t] = IF op[t] = "get" THEN "record" ELSE "metadata"]
    BY <1>25, <2>3 DEF from_entry_data_list
  <2>4. QED
    BY <1>25, <2>1, <2>2, <2>3 DEF from_entry_data_list
<1>26. ASSUME NEW t \in Threads, build_metadata(t) PROVE ResInv'
  BY <1>26 DEF build_metadata
<1>27. ASSUME NEW t \in Threads, alloc_iterator(t) PROVE ResInv'
  <2>1. CASE UNCHANGED res
    BY <1>27, <2>1 DEF alloc_iterator
  <2>2. CASE UNCHANGED iterVars
    BY <1>27, <2>2 DEF alloc_iterator
  <2>3. QED
    BY <1>27, <2>1, <2>2 DEF alloc_iterator
<1>28. ASSUME NEW t \in Threads, next_load(t) PROVE ResInv'
  <2>1. CASE work[on[t]] = <<>>
    BY <1>28, <2>1 DEF next_load
  <2>2. CASE work[on[t]] # <<>>
    BY <1>28, <2>2 DEF next_load
  <2>3. QED
    BY <1>28, <2>1, <2>2 DEF next_load
<1>29. ASSUME NEW t \in Threads, next_store(t) PROVE ResInv'
  <2>1. pc[t] = "advance" /\ res[t] = "nothing" /\ cur[t] \in Records
    BY <1>29 DEF next_store
  <2>2. Kind[cur[t]] \in RecordKinds
    BY <2>1, TreeAssumption
  <2>3. CASE Kind[cur[t]] = "invalid"
    BY <1>29, <2>3 DEF next_store
  <2>4. CASE Kind[cur[t]] # "invalid"
    <3>1. PICK step \in {"expand", "freeloop", "decode"} : Goto(t, step)
      BY <1>29, <2>2, <2>4 DEF next_store, RecordKinds
    <3>2. \A u \in Threads : res'[u] = res[u]
      BY <1>29, <2>4 DEF next_store
    <3>3. QED
      BY <2>1, <3>1, <3>2
  <2>5. QED
    BY <2>3, <2>4
<1>30. ASSUME NEW t \in Threads, next_expand(t) PROVE ResInv'
  <2>1. res[t] = "nothing"
    BY <1>30 DEF next_expand
  <2>2. CASE Goto(t, "freeloop") /\ UNCHANGED res
    BY <2>1, <2>2
  <2>3. ASSUME NEW r \in {"InvalidDatabaseError", "MemoryError"},
               Goto(t, "rdunlock"), res' = [res EXCEPT ![t] = r]
        PROVE  ResInv'
    BY <2>3
  <2>4. QED
    BY <1>30, <2>2, <2>3 DEF next_expand
<1>31. ASSUME NEW t \in Threads, next_free_loop(t) PROVE ResInv'
  BY <1>31 DEF next_free_loop
<1>32. ASSUME NEW t \in Threads, call_ip_network(t) PROVE ResInv'
  BY <1>32 DEF call_ip_network
<1>33. ASSUME NEW t \in Threads, next_free(t) PROVE ResInv'
  BY <1>33 DEF next_free
<1>34. ASSUME NEW t \in Threads, free_records(t) PROVE ResInv'
  BY <1>34 DEF free_records
<1>35. ASSUME NEW t \in Threads, CloseInsideNext(t) PROVE ResInv'
  BY <1>35 DEF CloseInsideNext
<1>36. ASSUME NEW t \in Threads, NEW i \in Threads, ReaderIter_next(t, i) PROVE ResInv'
  BY <1>36 DEF ReaderIter_next, Call
<1>37. ASSUME NEW t \in Threads, NEW i \in Threads, ReaderIter_dealloc(t, i) PROVE ResInv'
  <2>1. CASE UNCHANGED <<iter, pc, op, on>>
    BY <1>37, <2>1 DEF ReaderIter_dealloc
  <2>2. CASE op' = [op EXCEPT ![t] = "dealloc"]
    BY <1>37, <2>2 DEF ReaderIter_dealloc
  <2>3. QED
    BY <1>37, <2>1, <2>2 DEF ReaderIter_dealloc
<1>38. CASE UNCHANGED vars
  BY <1>38 DEF vars
<1>39. ASSUME NEW t \in Threads, StopTheWorld(t) PROVE ResInv'
  BY <1>39 DEF StopTheWorld
<1>40. ASSUME NEW t \in Threads, StartTheWorld(t) PROVE ResInv'
  BY <1>40 DEF StartTheWorld
<1>41. ASSUME NEW t \in Threads, close_flag(t) PROVE ResInv'
  BY <1>41 DEF close_flag
<1>42. QED
  BY <1>1, <1>2, <1>3, <1>4, <1>5, <1>6, <1>7, <1>8, <1>9, <1>10, <1>11, <1>12, <1>13, <1>14, <1>15,
     <1>16, <1>17, <1>18, <1>19, <1>20, <1>21, <1>22, <1>23, <1>24, <1>25, <1>26, <1>27, <1>28, <1>29, <1>30,
     <1>31, <1>32, <1>33, <1>34, <1>35, <1>36, <1>37, <1>38, <1>39, <1>40, <1>41
  DEF Next, Request, Step, Finished

\* CallPhase by the step a thread is at.
PhaseTable(t) ==
  /\ pc[t] = "idle" \/ op[t] = "dealloc" => CallPhase(t) = "idle"
  /\ op[t] # "dealloc" =>
       /\ pc[t] \in {"wrlock", "unmap", "clear", "flag"} => CallPhase(t) = "closing"
       /\ pc[t] = "wrunlock" => CallPhase(t) = "finished"
       /\ pc[t] \in {"rdlock", "check"} => CallPhase(t) = "called"
       /\ pc[t] \in UsingDatabase => CallPhase(t) = "reading"
       /\ pc[t] \in {"rdunlock", "network", "build", "alloc", "free"} =>
            CallPhase(t) = IF res[t] = "closed" THEN "refused" ELSE "answered"

\* PhaseTable is what the definition of CallPhase says, before and after a step.
LEMMA Phases == ASSUME NEW t \in Threads PROVE PhaseTable(t) /\ PhaseTable(t)'
<1>1. PhaseTable(t)
  BY DEF PhaseTable, CallPhase, UsingDatabase, MappedSteps
<1>2. PhaseTable(t)'
  BY DEF PhaseTable, CallPhase, UsingDatabase, MappedSteps
<1>3. QED
  BY <1>1, <1>2

\* The threads of which a step changes neither pc, op nor res stay as they are.
OthersKeep(t) ==
  \A u \in Threads \ {t} : pc'[u] = pc[u] /\ op'[u] = op[u] /\ res'[u] = res[u]

\* A thread whose pc, op and res stay has the same phase and outcome.
LEMMA SamePhase ==
  ASSUME TypeOK, CallInv, NEW u \in Threads, pc'[u] = pc[u], op'[u] = op[u], res'[u] = res[u]
  PROVE  CallPhase(u)' = CallPhase(u) /\ CallOutcome(u)' = CallOutcome(u)
<1>1. CASE op[u] = "dealloc"
  BY <1>1, Phases DEF PhaseTable, CallOutcome
<1>2. CASE op[u] # "dealloc"
  <2>1. pc[u] \in Steps \ {"dealloc", "destroy", "freerecs"}
    BY <1>2 DEF TypeOK, CallTypes, CallInv
  <2>2. CallPhase(u)' = CallPhase(u)
    BY <1>2, <2>1, Phases DEF PhaseTable, Steps, ReadSteps, WriteSteps, UsingDatabase, MappedSteps
  <2>3. QED
    BY <2>2 DEF CallOutcome
<1>3. QED
  BY <1>1, <1>2

\* `closed` and the abstract state stay.
StateKeeps == closed' = closed /\ (obj' = "new" <=> obj = "new")

\* A step that changes nobody's pc, op or res does not show.
LEMMA HiddenStep ==
  ASSUME TypeOK, CallInv, UNCHANGED <<pc, op, res>>, StateKeeps
  PROVE  [API!Next]_(API!vars)
<1>1. \A u \in Threads : CallPhase(u)' = CallPhase(u) /\ CallOutcome(u)' = CallOutcome(u)
  BY SamePhase
<1>2. QED
  BY <1>1 DEF API!vars, StateKeeps

\* How one thread's step may look to the users of the Reader.
Moves(t) ==
  \/ CallPhase(t)' = CallPhase(t) /\ CallOutcome(t)' = CallOutcome(t)
  \/ CallPhase(t) = "idle" /\ CallPhase(t)' \in {"called", "closing"}
  \/ CallPhase(t) = "answered" /\ CallPhase(t)' = "closing"
  \/ CallPhase(t) = "called" /\ CallPhase(t)' \in {"reading", "answered"} /\ closed = "False"
  \/ CallPhase(t) = "called" /\ CallPhase(t)' = "refused" /\ closed = "True"
  \/ CallPhase(t) = "reading" /\ CallPhase(t)' = "answered"
  \/ CallPhase(t) \in {"closing", "finished"} /\ CallPhase(t)' = "answered"
  \/ CallPhase(t) \in {"called", "closing"} /\ CallPhase(t)' = "idle" /\ CallOutcome(t)' = "error"
  \/ CallPhase(t) = "answered" /\ CallPhase(t)' = "idle" /\ CallOutcome(t)' \in {"value", "error"}
  \/ CallPhase(t) = "refused" /\ CallPhase(t)' = "idle" /\ CallOutcome(t)' = "closed"
  \/ CallPhase(t) = "finished" /\ CallPhase(t)' = "idle" /\ CallOutcome(t)' = "done"
  \/ CallPhase(t) = "idle" /\ CallPhase(t)' = "idle" /\ CallOutcome(t)' = "error"

\* Each of them is a step of ReaderAPI, or none.
LEMMA LocalStep ==
  ASSUME TypeOK, CallInv, NEW t \in Threads, OthersKeep(t), StateKeeps, Moves(t)
  PROVE  [API!Next]_(API!vars)
<1>1. \A u \in Threads \ {t} : CallPhase(u)' = CallPhase(u) /\ CallOutcome(u)' = CallOutcome(u)
  BY SamePhase DEF OthersKeep
<1> USE DEF StateKeeps
<1>2. CallPhase(t) # "idle" => CallOutcome(t) = "none"
  BY DEF CallOutcome
<1>3. CallPhase(t)' # "idle" => CallOutcome(t)' = "none"
  BY DEF CallOutcome
<1>4. CASE CallPhase(t)' = CallPhase(t) /\ CallOutcome(t)' = CallOutcome(t)
  BY <1>1, <1>4 DEF API!vars
<1>5. CASE CallPhase(t) = "idle" /\ CallPhase(t)' \in {"called", "closing"}
  <2>1. API!Begin(t)
    BY <1>1, <1>3, <1>5 DEF API!Begin, API!Move
  <2>2. QED
    BY <2>1 DEF API!Next
<1>6. CASE CallPhase(t) = "answered" /\ CallPhase(t)' = "closing"
  <2>1. API!BeginNested(t)
    BY <1>1, <1>2, <1>3, <1>6 DEF API!BeginNested, API!Move
  <2>2. QED
    BY <2>1 DEF API!Next
<1>7. CASE CallPhase(t) = "called" /\ CallPhase(t)' \in {"reading", "answered"} /\ closed = "False"
  <2>1. API!Admit(t)
    BY <1>1, <1>2, <1>3, <1>7 DEF API!Admit, API!Move
  <2>2. QED
    BY <2>1 DEF API!Next
<1>8. CASE CallPhase(t) = "called" /\ CallPhase(t)' = "refused" /\ closed = "True"
  <2>1. API!Refuse(t)
    BY <1>1, <1>2, <1>3, <1>8 DEF API!Refuse, API!Move
  <2>2. QED
    BY <2>1 DEF API!Next
<1>9. CASE CallPhase(t) = "reading" /\ CallPhase(t)' = "answered"
  <2>1. API!Answer(t)
    BY <1>1, <1>2, <1>3, <1>9 DEF API!Answer, API!Move
  <2>2. QED
    BY <2>1 DEF API!Next
<1>10. CASE CallPhase(t) \in {"closing", "finished"} /\ CallPhase(t)' = "answered"
  <2>1. API!ReturnNested(t)
    BY <1>1, <1>2, <1>3, <1>10 DEF API!ReturnNested, API!Move
  <2>2. QED
    BY <2>1 DEF API!Next
<1>11. ASSUME CallPhase(t) \in DOMAIN API!Results, CallPhase(t)' = "idle",
              CallOutcome(t)' \in API!Results[CallPhase(t)]
       PROVE  [API!Next]_(API!vars)
  <2>1. API!Return(t)
    BY <1>1, <1>11 DEF API!Return
  <2>2. QED
    BY <2>1 DEF API!Next
<1>12. CASE CallPhase(t) = "idle" /\ CallPhase(t)' = "idle" /\ CallOutcome(t)' = "error"
  <2>1. API!BadArgument(t)
    BY <1>1, <1>12 DEF API!BadArgument
  <2>2. QED
    BY <2>1 DEF API!Next
<1>13. QED
  BY <1>4, <1>5, <1>6, <1>7, <1>8, <1>9, <1>10, <1>11, <1>12 DEF Moves, API!Results

\* close_flag is the step at which a close() takes effect; the destructor of a
\* Reader may close it too, and its thread is not in a call.
LEMMA CloseStep ==
  ASSUME NEW t \in Threads, closed \in {"True", "False"}, closed' = "True",
         \A u \in Threads : CallPhase(u) # "reading",
         \A u \in Threads \ {t} : CallPhase(u)' = CallPhase(u) /\ CallOutcome(u)' = CallOutcome(u),
         CallOutcome(t)' = CallOutcome(t),
         \/ CallPhase(t) = "closing" /\ CallPhase(t)' = "finished"
         \/ CallPhase(t) = "idle" /\ CallPhase(t)' = "idle"
  PROVE  [API!Next]_(API!vars)
<1>1. CASE CallPhase(t) = "closing" /\ CallPhase(t)' = "finished"
  <2>1. API!Close(t)
    BY <1>1 DEF API!Close, API!Move
  <2>2. QED
    BY <2>1 DEF API!Next
<1>2. CASE CallPhase(t) = "idle" /\ CallPhase(t)' = "idle"
  <2>1. API!Close(t)
    BY <1>2 DEF API!Close
  <2>2. QED
    BY <2>1 DEF API!Next
<1>3. QED
  BY <1>1, <1>2

\* The attribute `closed` is the abstract state.
LEMMA ReadClosedStep ==
  ASSUME NEW t \in Threads, closed \in {"True", "False"}, StateKeeps,
         \A u \in Threads \ {t} : CallPhase(u)' = CallPhase(u) /\ CallOutcome(u)' = CallOutcome(u),
         CallPhase(t) = "idle", CallPhase(t)' = "idle", CallOutcome(t)' = closed
  PROVE  [API!Next]_(API!vars)
<1>1. API!ReadClosed(t)
  BY DEF API!ReadClosed, StateKeeps
<1>2. QED
  BY <1>1 DEF API!Next

\* The inductive invariant of the refinement.
RefInv == IndInv /\ OwnInv /\ ResInv

\* Every step of the C Reader is a step of ReaderAPI or leaves it alone.
LEMMA RefStep ==
  (UseGil => ~GcInAlloc) /\ RefInv /\ RefInv' /\ [Next]_vars => [API!Next]_(API!vars)
<1> SUFFICES ASSUME UseGil => ~GcInAlloc, RefInv, RefInv', [Next]_vars PROVE [API!Next]_(API!vars)
  OBVIOUS
<1> TypeOK /\ CallInv /\ ResInv /\ TypeOK' /\ CallInv' /\ ResInv'
  BY DEF RefInv, IndInv
<1> USE DEF OthersKeep, StateKeeps, TypeOK, CallTypes, LocalTypes, CallInv, ResInv, PhaseTable,
        objVars, lockVars, interp, iterVars, locals, callVars, history,
        UsingDatabase, MappedSteps, ReadSteps, WriteSteps, ReadOps, Successes, Running, At, Goto
<1>1. ASSUME NEW t \in Threads, TakeGil(t) PROVE [API!Next]_(API!vars)
  BY <1>1, HiddenStep DEF TakeGil
<1>2. ASSUME NEW t \in Threads, Yield(t) PROVE [API!Next]_(API!vars)
  BY <1>2, HiddenStep DEF Yield
<1>3. ASSUME NEW t \in Threads, Reader_init(t) PROVE [API!Next]_(API!vars)
  <2>1. /\ CallPhase(t) = "idle" /\ CallPhase(t)' = "idle" /\ CallOutcome(t)' = CallOutcome(t)
        /\ OthersKeep(t)
    BY <1>3, Phases DEF Reader_init, CallOutcome
  <2>2. \A u \in Threads : CallPhase(u)' = CallPhase(u) /\ CallOutcome(u)' = CallOutcome(u)
    BY <2>1, SamePhase
  <2>3. closed = "unset" /\ obj = "new"
    BY <1>3 DEF Reader_init, RefInv, IndInv, HandleInv
  <2>4. closed' = "False" \/ (closed' = "unset" /\ obj' = "failed")
    BY <1>3, <2>3 DEF Reader_init
  <2>5. API!Open
    BY <2>2, <2>3, <2>4 DEF API!Open
  <2>6. QED
    BY <2>5 DEF API!Next
<1>4. ASSUME NEW t \in Threads, DropReader(t) PROVE [API!Next]_(API!vars)
  <2>1. OthersKeep(t) /\ StateKeeps /\ res' = res
    BY <1>4 DEF DropReader
  <2>2. CallPhase(t) = "idle" /\ CallPhase(t)' = "idle" /\ CallOutcome(t)' = CallOutcome(t)
    BY <1>4, <2>1, Phases DEF DropReader, CallOutcome
  <2>3. QED
    BY <2>1, <2>2, LocalStep DEF Moves
<1>5. ASSUME NEW t \in Threads, Reader_get(t) PROVE [API!Next]_(API!vars)
  <2>1. OthersKeep(t) /\ StateKeeps
    BY <1>5 DEF Reader_get, CallReader, Call
  <2>2. CASE CallReader(t, "get", "rdlock")
    <3>1. CallPhase(t) = "idle" /\ CallPhase(t)' = "called"
      BY <2>2, Phases DEF CallReader, Call
    <3>2. QED
      BY <2>1, <3>1, LocalStep DEF Moves
  <2>3. CASE pc[t] = "idle" /\ pc' = pc /\ res' = [res EXCEPT ![t] = "bad_argument"]
    <3>1. CallPhase(t) = "idle" /\ CallPhase(t)' = "idle" /\ CallOutcome(t)' = "error"
      BY <2>3, Phases DEF CallOutcome
    <3>2. QED
      BY <2>1, <3>1, LocalStep DEF Moves
  <2>4. QED
    BY <1>5, <2>2, <2>3 DEF Reader_get
<1>6. ASSUME NEW t \in Threads, Reader_metadata(t) PROVE [API!Next]_(API!vars)
  <2>1. OthersKeep(t) /\ StateKeeps
    BY <1>6 DEF Reader_metadata, CallReader, Call
  <2>2. Moves(t)
    BY <1>6, Phases DEF Reader_metadata, CallReader, Call, Moves, CallOutcome
  <2>3. QED
    BY <2>1, <2>2, LocalStep
<1>7. ASSUME NEW t \in Threads, Reader__enter__(t) PROVE [API!Next]_(API!vars)
  <2>1. OthersKeep(t) /\ StateKeeps
    BY <1>7 DEF Reader__enter__, CallReader, Call
  <2>2. Moves(t)
    BY <1>7, Phases DEF Reader__enter__, CallReader, Call, Moves, CallOutcome
  <2>3. QED
    BY <2>1, <2>2, LocalStep
<1>8. ASSUME NEW t \in Threads, Reader_iter(t) PROVE [API!Next]_(API!vars)
  <2>1. OthersKeep(t) /\ StateKeeps
    BY <1>8 DEF Reader_iter, CallReader, Call
  <2>2. Moves(t)
    BY <1>8, Phases DEF Reader_iter, CallReader, Call, Moves, CallOutcome
  <2>3. QED
    BY <2>1, <2>2, LocalStep
<1>9. ASSUME NEW t \in Threads, Reader_close(t) PROVE [API!Next]_(API!vars)
  <2>1. OthersKeep(t) /\ StateKeeps
    BY <1>9 DEF Reader_close, CallReader, Call
  <2>2. Moves(t)
    BY <1>9, Phases DEF Reader_close, CallReader, Call, Moves, CallOutcome
  <2>3. QED
    BY <2>1, <2>2, LocalStep
<1>10. ASSUME NEW t \in Threads, Reader__exit__(t) PROVE [API!Next]_(API!vars)
  <2>1. OthersKeep(t) /\ StateKeeps
    BY <1>10 DEF Reader__exit__, CallReader, Call
  <2>2. Moves(t)
    BY <1>10, Phases DEF Reader__exit__, CallReader, Call, Moves, CallOutcome
  <2>3. QED
    BY <2>1, <2>2, LocalStep
<1>11. ASSUME NEW t \in Threads, ReadClosedMember(t) PROVE [API!Next]_(API!vars)
  <2>1. /\ OthersKeep(t) /\ StateKeeps /\ pc[t] = "idle" /\ pc' = pc /\ res'[t] = closed
    BY <1>11 DEF ReadClosedMember
  <2>2. closed \in {"True", "False"}
    BY <1>11 DEF ReadClosedMember, RefInv, IndInv, HandleInv, ObjectTypes
  <2>3. CallPhase(t) = "idle" /\ CallPhase(t)' = "idle" /\ CallOutcome(t)' = closed
    BY <2>1, <2>2, Phases DEF CallOutcome
  <2>4. \A u \in Threads \ {t} : CallPhase(u)' = CallPhase(u) /\ CallOutcome(u)' = CallOutcome(u)
    BY <2>1, SamePhase
  <2>5. QED
    BY <2>1, <2>2, <2>3, <2>4, ReadClosedStep
<1>12. ASSUME NEW t \in Threads, reader_acquire_read_lock(t) PROVE [API!Next]_(API!vars)
  <2>1. OthersKeep(t) /\ StateKeeps
    BY <1>12 DEF reader_acquire_read_lock
  <2>2. Moves(t)
    BY <1>12, Phases DEF reader_acquire_read_lock, Moves, CallOutcome
  <2>3. QED
    BY <2>1, <2>2, LocalStep
<1>13. ASSUME NEW t \in Threads, read_lock_fails(t) PROVE [API!Next]_(API!vars)
  <2>1. OthersKeep(t) /\ StateKeeps
    BY <1>13 DEF read_lock_fails
  <2>2. Moves(t)
    BY <1>13, Phases DEF read_lock_fails, Moves, CallOutcome
  <2>3. QED
    BY <2>1, <2>2, LocalStep
<1>14. ASSUME NEW t \in Threads, reader_release_read_lock(t) PROVE [API!Next]_(API!vars)
  <2>1. /\ OthersKeep(t) /\ StateKeeps /\ UNCHANGED <<op, res>>
        /\ pc[t] = "rdunlock" /\ pc'[t] \in {"free", "build", "alloc", "idle"}
    BY <1>14 DEF reader_release_read_lock, AfterRead
  <2>2. op[t] # "dealloc" /\ op'[t] # "dealloc"
    BY <2>1
  <2>3. CASE pc'[t] # "idle"
    <3>1. CallPhase(t) = IF res[t] = "closed" THEN "refused" ELSE "answered"
      BY <2>1, <2>2, Phases
    <3>2. CallPhase(t)' = IF res[t] = "closed" THEN "refused" ELSE "answered"
      BY <2>1, <2>2, <2>3, Phases
    <3>3. CallOutcome(t) = "none" /\ CallOutcome(t)' = "none"
      BY <3>1, <3>2 DEF CallOutcome
    <3>4. QED
      BY <2>1, <3>1, <3>2, <3>3, LocalStep DEF Moves
  <2>4. CASE pc'[t] = "idle"
    <3>1. /\ CallPhase(t) = IF res[t] = "closed" THEN "refused" ELSE "answered"
          /\ CallPhase(t)' = "idle"
      BY <2>1, <2>2, <2>4, Phases
    <3>2. /\ res[t] = "closed" => CallOutcome(t)' = "closed"
          /\ res[t] # "closed" => CallOutcome(t)' \in {"value", "error"}
      BY <2>1, <3>1 DEF CallOutcome
    <3>3. QED
      BY <2>1, <3>1, <3>2, LocalStep DEF Moves
  <2>5. QED
    BY <2>3, <2>4
<1>15. ASSUME NEW t \in Threads, reader_acquire_write_lock(t) PROVE [API!Next]_(API!vars)
  <2>1. OthersKeep(t) /\ StateKeeps
    BY <1>15 DEF reader_acquire_write_lock
  <2>2. Moves(t)
    BY <1>15, Phases DEF reader_acquire_write_lock, Moves, CallOutcome
  <2>3. QED
    BY <2>1, <2>2, LocalStep
<1>16. ASSUME NEW t \in Threads, write_lock_fails(t) PROVE [API!Next]_(API!vars)
  <2>1. OthersKeep(t) /\ StateKeeps
    BY <1>16 DEF write_lock_fails, Return
  <2>2. Moves(t)
    BY <1>16, Phases DEF write_lock_fails, Return, Moves, CallOutcome
  <2>3. QED
    BY <2>1, <2>2, LocalStep
<1>17. ASSUME NEW t \in Threads, reader_release_write_lock(t) PROVE [API!Next]_(API!vars)
  <2>1. OthersKeep(t) /\ StateKeeps
    BY <1>17 DEF reader_release_write_lock, Return
  <2>2. Moves(t)
    BY <1>17, Phases DEF reader_release_write_lock, Return, Moves, CallOutcome
  <2>3. QED
    BY <2>1, <2>2, LocalStep
<1>18. ASSUME NEW t \in Threads, Reader_dealloc(t) PROVE [API!Next]_(API!vars)
  <2>1. OthersKeep(t) /\ StateKeeps
    BY <1>18 DEF Reader_dealloc
  <2>2. Moves(t)
    BY <1>18, Phases DEF Reader_dealloc, Moves, CallOutcome
  <2>3. QED
    BY <2>1, <2>2, LocalStep
<1>19. ASSUME NEW t \in Threads, reader_lock_destroy(t) PROVE [API!Next]_(API!vars)
  <2>1. op[t] = "dealloc" /\ OthersKeep(t) /\ UNCHANGED <<op, res, closed>> /\ obj' = "freed"
    BY <1>19 DEF reader_lock_destroy
  <2>2. obj # "new"
    BY <1>19 DEF reader_lock_destroy, RefInv, OwnInv, Destroying
  <2>3. CallPhase(t) = "idle" /\ CallPhase(t)' = "idle" /\ CallOutcome(t)' = CallOutcome(t)
    BY <2>1, Phases DEF CallOutcome
  <2>4. QED
    BY <2>1, <2>2, <2>3, LocalStep DEF Moves
<1>20. ASSUME NEW t \in Threads, close_unmap(t) PROVE [API!Next]_(API!vars)
  <2>1. OthersKeep(t) /\ StateKeeps
    BY <1>20 DEF close_unmap
  <2>2. Moves(t)
    BY <1>20, Phases DEF close_unmap, Moves, CallOutcome
  <2>3. QED
    BY <2>1, <2>2, LocalStep
<1>21. ASSUME NEW t \in Threads, close_clear(t) PROVE [API!Next]_(API!vars)
  <2>1. OthersKeep(t) /\ StateKeeps
    BY <1>21 DEF close_clear
  <2>2. Moves(t)
    BY <1>21, Phases DEF close_clear, Moves, CallOutcome
  <2>3. QED
    BY <2>1, <2>2, LocalStep
<1>22. ASSUME NEW t \in Threads, check_closed(t) PROVE [API!Next]_(API!vars)
  <2>1. /\ OthersKeep(t) /\ StateKeeps /\ op' = op
        /\ pc[t] = "check" /\ op[t] \in ReadOps
    BY <1>22 DEF check_closed
  <2>2. closed \in {"True", "False"} /\ (closed = "False" <=> mmdb = "handle") /\ mmdb \in {"NULL", "handle"}
    <3>1. \A u \in Threads : pc[u] # "flag"
      BY <2>1, Exclusion DEF RefInv, IndInv, WriteSteps
    <3>2. QED
      BY <2>1, <3>1 DEF RefInv, IndInv, HandleInv, ObjectTypes
  <2>3. CallPhase(t) = "called"
    BY <2>1, Phases
  <2>4. CASE SeesClosed(t)
    <3>1. pc'[t] = "rdunlock" /\ res'[t] = "closed" /\ closed = "True"
      BY <1>22, <2>2, <2>4 DEF check_closed, SeesClosed
    <3>2. CallPhase(t)' = "refused"
      BY <2>1, <3>1, Phases
    <3>3. QED
      BY <2>1, <2>3, <3>1, <3>2, LocalStep DEF Moves
  <2>5. CASE ~SeesClosed(t)
    <3>1. closed = "False"
      BY <2>2, <2>5 DEF SeesClosed
    <3>2. \/ pc'[t] \in {"lookup", "decode", "pop"}
          \/ pc'[t] = "rdunlock" /\ res'[t] \in {"self", "iterator"}
      BY <1>22, <2>1, <2>5 DEF check_closed
    <3>3. CallPhase(t)' \in {"reading", "answered"}
      BY <2>1, <3>2, Phases
    <3>4. QED
      BY <2>1, <2>3, <3>1, <3>3, LocalStep DEF Moves
  <2>6. QED
    BY <2>4, <2>5
<1>23. ASSUME NEW t \in Threads, get_record(t) PROVE [API!Next]_(API!vars)
  <2>1. OthersKeep(t) /\ StateKeeps
    BY <1>23 DEF get_record
  <2>2. Moves(t)
    BY <1>23, Phases DEF get_record, Moves, CallOutcome
  <2>3. QED
    BY <2>1, <2>2, LocalStep
<1>24. ASSUME NEW t \in Threads, get_entry_data_list(t) PROVE [API!Next]_(API!vars)
  <2>1. OthersKeep(t) /\ StateKeeps
    BY <1>24 DEF get_entry_data_list
  <2>2. Moves(t)
    BY <1>24, Phases DEF get_entry_data_list, Moves, CallOutcome
  <2>3. QED
    BY <2>1, <2>2, LocalStep
<1>25. ASSUME NEW t \in Threads, from_entry_data_list(t) PROVE [API!Next]_(API!vars)
  <2>1. OthersKeep(t) /\ StateKeeps
    BY <1>25 DEF from_entry_data_list
  <2>2. Moves(t)
    BY <1>25, Phases DEF from_entry_data_list, Moves, CallOutcome
  <2>3. QED
    BY <2>1, <2>2, LocalStep
<1>26. ASSUME NEW t \in Threads, build_metadata(t) PROVE [API!Next]_(API!vars)
  <2>1. OthersKeep(t) /\ StateKeeps
    BY <1>26 DEF build_metadata
  <2>2. Moves(t)
    BY <1>26, Phases DEF build_metadata, Moves, CallOutcome
  <2>3. QED
    BY <2>1, <2>2, LocalStep
<1>27. ASSUME NEW t \in Threads, alloc_iterator(t) PROVE [API!Next]_(API!vars)
  <2>1. OthersKeep(t) /\ StateKeeps
    BY <1>27 DEF alloc_iterator
  <2>2. Moves(t)
    BY <1>27, Phases DEF alloc_iterator, Moves, CallOutcome
  <2>3. QED
    BY <2>1, <2>2, LocalStep
<1>28. ASSUME NEW t \in Threads, next_load(t) PROVE [API!Next]_(API!vars)
  <2>1. OthersKeep(t) /\ StateKeeps
    BY <1>28 DEF next_load
  <2>2. Moves(t)
    BY <1>28, Phases DEF next_load, Moves, CallOutcome
  <2>3. QED
    BY <2>1, <2>2, LocalStep
<1>29. ASSUME NEW t \in Threads, next_store(t) PROVE [API!Next]_(API!vars)
  <2>1. OthersKeep(t) /\ StateKeeps /\ op' = op /\ pc[t] = "advance" /\ cur[t] \in Records
    BY <1>29 DEF next_store
  <2>2. Kind[cur[t]] \in RecordKinds
    BY <2>1, TreeAssumption
  <2>3. CallPhase(t) = "reading"
    BY <2>1, Phases
  <2>4. \/ pc'[t] \in {"expand", "freeloop", "decode"}
        \/ pc'[t] = "rdunlock" /\ res'[t] = "InvalidDatabaseError"
    BY <1>29, <2>2 DEF next_store, RecordKinds
  <2>5. CallPhase(t)' \in {"reading", "answered"}
    BY <2>1, <2>4, Phases
  <2>6. CallOutcome(t) = "none" /\ CallOutcome(t)' = "none"
    BY <2>3, <2>5 DEF CallOutcome
  <2>7. QED
    BY <2>1, <2>3, <2>5, <2>6, LocalStep DEF Moves
<1>30. ASSUME NEW t \in Threads, next_expand(t) PROVE [API!Next]_(API!vars)
  <2>1. StateKeeps /\ op' = op /\ pc[t] = "expand"
    BY <1>30 DEF next_expand
  <2>2. ASSUME NEW step \in {"freeloop", "rdunlock"}, Goto(t, step), OthersKeep(t), res'[t] # "closed"
        PROVE  [API!Next]_(API!vars)
    <3>1. CallPhase(t) = "reading" /\ CallPhase(t)' \in {"reading", "answered"}
      BY <2>1, <2>2, Phases
    <3>2. CallOutcome(t) = "none" /\ CallOutcome(t)' = "none"
      BY <3>1 DEF CallOutcome
    <3>3. QED
      BY <2>1, <2>2, <3>1, <3>2, LocalStep DEF Moves
  <2>3. CASE Goto(t, "freeloop") /\ UNCHANGED res
    BY <2>1, <2>2, <2>3
  <2>4. ASSUME NEW r \in {"InvalidDatabaseError", "MemoryError"},
               Goto(t, "rdunlock"), res' = [res EXCEPT ![t] = r]
        PROVE  [API!Next]_(API!vars)
    BY <2>1, <2>2, <2>4
  <2>5. QED
    BY <1>30, <2>3, <2>4 DEF next_expand
<1>31. ASSUME NEW t \in Threads, next_free_loop(t) PROVE [API!Next]_(API!vars)
  <2>1. OthersKeep(t) /\ StateKeeps
    BY <1>31 DEF next_free_loop
  <2>2. Moves(t)
    BY <1>31, Phases DEF next_free_loop, Moves, CallOutcome
  <2>3. QED
    BY <2>1, <2>2, LocalStep
<1>32. ASSUME NEW t \in Threads, call_ip_network(t) PROVE [API!Next]_(API!vars)
  <2>1. /\ OthersKeep(t) /\ StateKeeps /\ op' = op /\ pc[t] = "network"
        /\ pc'[t] = "rdunlock" /\ res'[t] \in {"item", "network_error"}
    BY <1>32 DEF call_ip_network
  <2>2. /\ CallPhase(t) = "answered" /\ CallPhase(t)' = "answered"
        /\ CallOutcome(t) = "none" /\ CallOutcome(t)' = "none"
    BY <2>1, Phases DEF CallOutcome
  <2>3. QED
    BY <2>1, <2>2, LocalStep DEF Moves
<1>33. ASSUME NEW t \in Threads, next_free(t) PROVE [API!Next]_(API!vars)
  <2>1. /\ OthersKeep(t) /\ StateKeeps /\ UNCHANGED <<op, res>> /\ pc[t] = "free" /\ pc'[t] = "idle"
    BY <1>33 DEF next_free
  <2>2. /\ CallPhase(t) = IF res[t] = "closed" THEN "refused" ELSE "answered"
        /\ CallPhase(t)' = "idle"
    BY <2>1, Phases
  <2>3. /\ res[t] = "closed" => CallOutcome(t)' = "closed"
        /\ res[t] # "closed" => CallOutcome(t)' \in {"value", "error"}
    BY <2>1, <2>2 DEF CallOutcome
  <2>4. QED
    BY <2>1, <2>2, <2>3, LocalStep DEF Moves
<1>34. ASSUME NEW t \in Threads, free_records(t) PROVE [API!Next]_(API!vars)
  <2>1. OthersKeep(t) /\ StateKeeps
    BY <1>34 DEF free_records
  <2>2. Moves(t)
    BY <1>34, Phases DEF free_records, Moves, CallOutcome
  <2>3. QED
    BY <2>1, <2>2, LocalStep
<1>35. ASSUME NEW t \in Threads, CloseInsideNext(t) PROVE [API!Next]_(API!vars)
  <2>1. /\ OthersKeep(t) /\ StateKeeps /\ res' = res /\ pc[t] = "network"
        /\ pc'[t] = "wrlock" /\ op'[t] \in {"close", "exit"}
    BY <1>35 DEF CloseInsideNext
  <2>2. CallPhase(t) = "answered" /\ CallPhase(t)' = "closing"
    BY <2>1, Phases
  <2>3. QED
    BY <2>1, <2>2, LocalStep DEF Moves
<1>36. ASSUME NEW t \in Threads, NEW i \in Threads, ReaderIter_next(t, i) PROVE [API!Next]_(API!vars)
  <2>1. OthersKeep(t) /\ StateKeeps
    BY <1>36 DEF ReaderIter_next, Call
  <2>2. Moves(t)
    BY <1>36, Phases DEF ReaderIter_next, Call, Moves, CallOutcome
  <2>3. QED
    BY <2>1, <2>2, LocalStep
<1>37. ASSUME NEW t \in Threads, NEW i \in Threads, ReaderIter_dealloc(t, i) PROVE [API!Next]_(API!vars)
  <2>1. OthersKeep(t) /\ StateKeeps
    BY <1>37 DEF ReaderIter_dealloc
  <2>2. Moves(t)
    BY <1>37, Phases DEF ReaderIter_dealloc, Moves, CallOutcome
  <2>3. QED
    BY <2>1, <2>2, LocalStep
<1>38. CASE UNCHANGED vars
  BY <1>38, HiddenStep DEF vars
<1>39. ASSUME NEW t \in Threads, StopTheWorld(t) PROVE [API!Next]_(API!vars)
  BY <1>39, HiddenStep DEF StopTheWorld
<1>40. ASSUME NEW t \in Threads, StartTheWorld(t) PROVE [API!Next]_(API!vars)
  BY <1>40, HiddenStep DEF StartTheWorld
<1>41. ASSUME NEW t \in Threads, close_flag(t) PROVE [API!Next]_(API!vars)
  <2>1. /\ OthersKeep(t) /\ UNCHANGED <<op, res, obj>> /\ closed' = "True"
        /\ pc[t] = "flag" /\ pc'[t] = "wrunlock"
    BY <1>41 DEF close_flag
  <2>2. closed \in {"True", "False"}
    BY <2>1 DEF RefInv, IndInv, HandleInv, ObjectTypes
  <2>3. \A u \in Threads : CallPhase(u) # "reading"
    <3> SUFFICES ASSUME NEW u \in Threads PROVE CallPhase(u) # "reading"
      OBVIOUS
    <3>1. pc[u] \in Steps \ UsingDatabase
      BY <2>1, Exclusion DEF RefInv, IndInv, CheckedSteps
    <3>2. CASE op[u] = "dealloc"
      BY <3>2, Phases
    <3>3. CASE op[u] # "dealloc"
      BY <3>1, <3>3, Phases DEF Steps
    <3>4. QED
      BY <3>2, <3>3
  <2>4. \A u \in Threads \ {t} : CallPhase(u)' = CallPhase(u) /\ CallOutcome(u)' = CallOutcome(u)
    BY <2>1, SamePhase
  <2>5. \/ CallPhase(t) = "closing" /\ CallPhase(t)' = "finished" /\ CallOutcome(t)' = CallOutcome(t)
        \/ CallPhase(t) = "idle" /\ CallPhase(t)' = "idle" /\ CallOutcome(t)' = CallOutcome(t)
    BY <2>1, Phases DEF CallOutcome
  <2>6. QED
    BY <2>1, <2>2, <2>3, <2>4, <2>5, CloseStep
<1>42. QED
  BY <1>1, <1>2, <1>3, <1>4, <1>5, <1>6, <1>7, <1>8, <1>9, <1>10, <1>11, <1>12, <1>13, <1>14, <1>15,
     <1>16, <1>17, <1>18, <1>19, <1>20, <1>21, <1>22, <1>23, <1>24, <1>25, <1>26, <1>27, <1>28, <1>29, <1>30,
     <1>31, <1>32, <1>33, <1>34, <1>35, <1>36, <1>37, <1>38, <1>39, <1>40, <1>41
  DEF Next, Request, Step, Finished

\* The inductive invariant holds, under the assumption Exclusion needs.
LEMMA RefInvariance == (UseGil => ~GcInAlloc) => (Spec => []RefInv)
<1> SUFFICES ASSUME UseGil => ~GcInAlloc PROVE Spec => []RefInv
  OBVIOUS
<1>1. Init => ResInv
  BY DEF Init, ResInv, UsingDatabase, MappedSteps
<1>2. IndInv => TypeOK /\ CallInv
  BY DEF IndInv
<1>3. OwnershipInv => OwnInv
  BY DEF OwnershipInv
<1>4. RefInv <=> IndInv /\ OwnInv /\ ResInv
  BY DEF RefInv
<1>5. QED
  BY <1>1, <1>2, <1>3, <1>4, Invariance, OwnershipInvariance, ResStep, PTL DEF Spec

\* A fresh object is a new Reader nobody has called.
LEMMA RefInit == Init => API!Init
<1> SUFFICES ASSUME Init PROVE API!Init
  OBVIOUS
<1>1. \A t \in Threads : CallPhase(t) = "idle" /\ CallOutcome(t) = "none"
  BY DEF Init, CallPhase, CallOutcome
<1>2. QED
  BY <1>1 DEF Init, API!Init

\* The C Reader, with its lock or under the GIL, with its iterators and its
\* destructor, is linearizable: it implements ReaderAPI.
THEOREM Refinement == (UseGil => ~GcInAlloc) => (Spec => ImplementsReaderAPI)
<1> SUFFICES ASSUME UseGil => ~GcInAlloc PROVE Spec => ImplementsReaderAPI
  OBVIOUS
<1>1. Init => API!Init
  BY RefInit
<1>2. RefInv /\ RefInv' /\ [Next]_vars => [API!Next]_(API!vars)
  BY RefStep
<1>3. Spec => []RefInv
  BY RefInvariance
<1>4. QED
  BY <1>1, <1>2, <1>3, PTL DEF Spec, ImplementsReaderAPI, API!Spec

=============================================================================
