----------------------- MODULE ExtensionReaderProofs -----------------------
(***************************************************************************)
(* Proofs about ExtensionReader, for every set of threads, every search    *)
(* tree, every build option and every bound.  The inductive invariant is   *)
(*                                                                         *)
(*   TypeOK     the types,                                                 *)
(*   CallInv    what the locals of a call are at each step,                *)
(*   LockInv    who holds the read-write lock (free-threaded build),       *)
(*   GilInv     who holds the GIL (GIL build),                             *)
(*   HandleInv  how mmdb, closed and the mapped file are related.          *)
(*                                                                         *)
(* LockInv and GilInv are two mechanisms for the one fact the argument     *)
(* needs, Exclusion: nobody is between the check of the handle and its     *)
(* last use while a closer is between MMDB_close and mmdb = NULL.          *)
(***************************************************************************)
EXTENDS ExtensionReader, TLAPS

\* Which method a step belongs to, and the locals it relies on.
CallInv ==
  \A t \in Threads :
    /\ pc[t] \in ReadSteps \cup {"rdlock"} => op[t] \in ReadOps
    /\ pc[t] \in {"pop", "advance", "expand", "freeloop", "network", "free"} => op[t] = "next"
    /\ pc[t] = "lookup" => op[t] = "get"
    /\ pc[t] \in {"decode", "convert"} => op[t] \in {"get", "metadata", "next"}
    /\ pc[t] \in WriteSteps \cup {"wrlock"} => op[t] \in {"close", "exit", "dealloc"}
    /\ pc[t] \in {"dealloc", "destroy", "freerecs"} => op[t] = "dealloc"
    /\ op[t] = "next" /\ pc[t] # "idle" => on[t] \in Threads
    /\ pc[t] = "freerecs" => on[t] \in Threads
    /\ \/ pc[t] \in {"advance", "expand", "freeloop", "network", "free"}
       \/ pc[t] \in {"decode", "convert"} /\ op[t] = "next"
       => cur[t] \in Records
    /\ nested[t] => /\ pc[t] \in WriteSteps \cup {"wrlock"} /\ op[t] \in {"close", "exit"}
                    /\ on[t] \in Threads /\ cur[t] \in Records

\* The lock is held exactly by the threads inside a locked region, and a
\* writer excludes everybody else.
LockInv ==
  /\ UseGil => readers = {} /\ writer = {}
  /\ ~UseGil => \A t \in Threads :
       /\ t \in readers <=> pc[t] \in ReadSteps \/ nested[t]
       /\ t \in writer <=> pc[t] \in WriteSteps
       /\ t \in writer => readers = {} /\ writer = {t}

\* A thread that is not where CPython may switch threads holds the GIL.
GilInv == UseGil => \A t \in Threads : pc[t] \notin YieldPoints => gil = t

\* Steps of the reading methods that rely on an earlier check of mmdb/closed.
CheckedSteps == MappedSteps \cup {"pop", "advance", "freeloop"}

\* The handle, the flag and the mapping agree, except between MMDB_close and
\* the two assignments that follow it.
HandleInv ==
  /\ obj = "new" => closed = "unset"
  /\ closed = "False" => mmdb = "handle" \/ \E t \in Threads : pc[t] = "flag"
  /\ mmdb = "handle" => closed = "False"
  /\ mmdb = "handle" => mapping = "mapped" \/ \E t \in Threads : pc[t] = "clear"
  /\ \A t \in Threads : pc[t] = "flag" => mmdb = "NULL"
  /\ closed = "unset" =>
       /\ refs = {} /\ \A i \in Threads : iter[i] # "live"
       /\ \A t \in Threads : pc[t] \in {"idle", "dealloc", "destroy", "freerecs"}
  /\ \A t \in Threads : pc[t] \in CheckedSteps => mmdb = "handle" /\ mapping = "mapped"

\* A pair of elements of S is a sequence over S.
LEMMA PairIsSeq ==
  ASSUME NEW S, NEW p \in S \X S
  PROVE  p \in Seq(S) /\ p[1] \in S /\ p[2] \in S
<1>1. PICK a \in S, b \in S : p = <<a, b>>
  OBVIOUS
<1>2. QED
  BY <1>1

\* Every step of every method keeps the types.
LEMMA TypeStep == TypeOK /\ CallInv /\ [Next]_vars => TypeOK'
<1> SUFFICES ASSUME TypeOK, CallInv, [Next]_vars PROVE TypeOK'
  OBVIOUS
<1> USE ThreadsAssumption, BuildAssumption, TreeAssumption
    DEF TypeOK, ObjectTypes, IteratorTypes, CallTypes, LocalTypes, HistoryTypes, CallInv,
        objVars, lockVars, interp, iterVars, locals, callVars, history,
        MappedSteps, ReadSteps, WriteSteps, Steps, ReadOps, Ops, Successes, Outcomes,
        Running, At, Goto, RecordKinds
<1>1. ASSUME NEW t \in Threads, TakeGil(t) PROVE TypeOK'
  BY <1>1 DEF TakeGil
<1>2. ASSUME NEW t \in Threads, Yield(t) PROVE TypeOK'
  BY <1>2 DEF Yield
<1>3. ASSUME NEW t \in Threads, Reader_init(t) PROVE TypeOK'
  <2>1. ObjectTypes' /\ IteratorTypes' /\ LocalTypes' /\ HistoryTypes'
    BY <1>3 DEF Reader_init
  <2>2. CASE UNCHANGED <<pc, op>>
    BY <1>3, <2>1, <2>2 DEF Reader_init
  <2>3. CASE Goto(t, "dealloc") /\ op' = [op EXCEPT ![t] = "dealloc"]
    BY <1>3, <2>1, <2>3 DEF Reader_init
  <2>4. QED
    BY <1>3, <2>2, <2>3 DEF Reader_init
<1>4. ASSUME NEW t \in Threads, DropReader(t) PROVE TypeOK'
  <2>1. CASE Goto(t, "dealloc") /\ op' = [op EXCEPT ![t] = "dealloc"]
    BY <1>4, <2>1 DEF DropReader
  <2>2. CASE UNCHANGED <<pc, op>>
    BY <1>4, <2>2 DEF DropReader
  <2>3. QED
    BY <1>4, <2>1, <2>2 DEF DropReader
<1>5. ASSUME NEW t \in Threads, Reader_get(t) PROVE TypeOK'
  <2>1. CASE CallReader(t, "get", "rdlock")
    BY <2>1 DEF CallReader, Call
  <2>2. CASE /\ UNCHANGED <<objVars, lockVars, interp, iterVars, locals, pc, closeSeen>>
             /\ calls' = calls + 1
             /\ op' = [op EXCEPT ![t] = "get"]
             /\ res' = [res EXCEPT ![t] = "bad_argument"]
             /\ late' = [late EXCEPT ![t] = closeSeen]
    BY <2>2
  <2>3. QED
    BY <1>5, <2>1, <2>2 DEF Reader_get
<1>6. ASSUME NEW t \in Threads, Reader_metadata(t) PROVE TypeOK'
  BY <1>6 DEF Reader_metadata, CallReader, Call
<1>7. ASSUME NEW t \in Threads, Reader__enter__(t) PROVE TypeOK'
  BY <1>7 DEF Reader__enter__, CallReader, Call
<1>8. ASSUME NEW t \in Threads, Reader_iter(t) PROVE TypeOK'
  BY <1>8 DEF Reader_iter, CallReader, Call
<1>9. ASSUME NEW t \in Threads, Reader_close(t) PROVE TypeOK'
  BY <1>9 DEF Reader_close, CallReader, Call
<1>10. ASSUME NEW t \in Threads, Reader__exit__(t) PROVE TypeOK'
  BY <1>10 DEF Reader__exit__, CallReader, Call
<1>11. ASSUME NEW t \in Threads, ReadClosedMember(t) PROVE TypeOK'
  BY <1>11 DEF ReadClosedMember
<1>12. ASSUME NEW t \in Threads, reader_acquire_read_lock(t) PROVE TypeOK'
  BY <1>12 DEF reader_acquire_read_lock
<1>13. ASSUME NEW t \in Threads, read_lock_fails(t) PROVE TypeOK'
  BY <1>13 DEF read_lock_fails
<1>14. ASSUME NEW t \in Threads, reader_release_read_lock(t) PROVE TypeOK'
  BY <1>14 DEF reader_release_read_lock, AfterRead
<1>15. ASSUME NEW t \in Threads, reader_acquire_write_lock(t) PROVE TypeOK'
  BY <1>15 DEF reader_acquire_write_lock
<1>16. ASSUME NEW t \in Threads, write_lock_fails(t) PROVE TypeOK'
  BY <1>16 DEF write_lock_fails, Return
<1>17. ASSUME NEW t \in Threads, reader_release_write_lock(t) PROVE TypeOK'
  <2>1. ObjectTypes' /\ IteratorTypes' /\ HistoryTypes'
    BY <1>17 DEF reader_release_write_lock
  <2>2. CASE Goto(t, "destroy") /\ UNCHANGED <<op, res, nested>>
    BY <1>17, <2>1, <2>2 DEF reader_release_write_lock
  <2>3. CASE Return(t) /\ res' = [res EXCEPT ![t] = "done"]
    BY <1>17, <2>1, <2>3 DEF reader_release_write_lock, Return
  <2>4. QED
    BY <1>17, <2>2, <2>3 DEF reader_release_write_lock
<1>18. ASSUME NEW t \in Threads, Reader_dealloc(t) PROVE TypeOK'
  BY <1>18 DEF Reader_dealloc
<1>19. ASSUME NEW t \in Threads, reader_lock_destroy(t) PROVE TypeOK'
  BY <1>19 DEF reader_lock_destroy
<1>20. ASSUME NEW t \in Threads, close_unmap(t) PROVE TypeOK'
  BY <1>20 DEF close_unmap
<1>21. ASSUME NEW t \in Threads, close_clear(t) PROVE TypeOK'
  BY <1>21 DEF close_clear
<1>22. ASSUME NEW t \in Threads, check_closed(t) PROVE TypeOK'
  BY <1>22 DEF check_closed, SeesClosed
<1>23. ASSUME NEW t \in Threads, get_record(t) PROVE TypeOK'
  <2>1. CASE Goto(t, "decode") /\ UNCHANGED res
    BY <1>23, <2>1 DEF get_record
  <2>2. ASSUME NEW r \in {"lookup_error", "notfound"}, Goto(t, "rdunlock"), res' = [res EXCEPT ![t] = r] PROVE TypeOK'
    BY <1>23, <2>2 DEF get_record
  <2>3. QED
    BY <1>23, <2>1, <2>2 DEF get_record
<1>24. ASSUME NEW t \in Threads, get_entry_data_list(t) PROVE TypeOK'
  <2>1. CASE Goto(t, "convert") /\ UNCHANGED res
    BY <1>24, <2>1 DEF get_entry_data_list
  <2>2. CASE Goto(t, "rdunlock") /\ res' = [res EXCEPT ![t] = "InvalidDatabaseError"]
    BY <1>24, <2>2 DEF get_entry_data_list
  <2>3. QED
    BY <1>24, <2>1, <2>2 DEF get_entry_data_list
<1>25. ASSUME NEW t \in Threads, from_entry_data_list(t) PROVE TypeOK'
  <2>1. CASE Goto(t, "rdunlock") /\ res' = [res EXCEPT ![t] = "InvalidDatabaseError"]
    BY <1>25, <2>1 DEF from_entry_data_list
  <2>2. CASE op[t] = "next" /\ Goto(t, "network") /\ UNCHANGED res
    BY <1>25, <2>2 DEF from_entry_data_list
  <2>3. CASE op[t] # "next" /\ Goto(t, "rdunlock") /\ res' = [res EXCEPT ![t] = IF op[t] = "get" THEN "record" ELSE "metadata"]
    BY <1>25, <2>3 DEF from_entry_data_list
  <2>4. QED
    BY <1>25, <2>1, <2>2, <2>3 DEF from_entry_data_list
<1>26. ASSUME NEW t \in Threads, build_metadata(t) PROVE TypeOK'
  BY <1>26 DEF build_metadata
<1>27. ASSUME NEW t \in Threads, alloc_iterator(t) PROVE TypeOK'
  <2>1. ObjectTypes' /\ LocalTypes' /\ HistoryTypes' /\ pc' \in [Threads -> Steps] /\ op' = op
    BY <1>27 DEF alloc_iterator
  <2>2. CASE UNCHANGED iterVars /\ res' = [res EXCEPT ![t] = "MemoryError"]
    BY <2>1, <2>2
  <2>3. CASE /\ iter' = [iter EXCEPT ![t] = "live"]
             /\ iterRefs' = [iterRefs EXCEPT ![t] = IF ShareIterators THEN Threads ELSE {t}]
             /\ work' = [work EXCEPT ![t] = <<Root>>]
             /\ heap' = [heap EXCEPT ![t] = {Root}]
             /\ UNCHANGED res
    BY <2>1, <2>3
  <2>4. QED
    BY <1>27, <2>2, <2>3 DEF alloc_iterator
<1>28. ASSUME NEW t \in Threads, next_load(t) PROVE TypeOK'
  <2>1. /\ ObjectTypes' /\ IteratorTypes' /\ HistoryTypes'
        /\ on' = on /\ nested' = nested /\ left' = left /\ op' = op
    BY <1>28 DEF next_load
  <2>2. on[t] \in Threads /\ work[on[t]] \in Seq(Records)
    BY <1>28 DEF next_load
  <2>3. CASE /\ Goto(t, "rdunlock")
             /\ res' = [res EXCEPT ![t] = "StopIteration"]
             /\ cur' = [cur EXCEPT ![t] = NoRecord]
             /\ UNCHANGED rest
    BY <2>1, <2>3
  <2>4. CASE /\ work[on[t]] # <<>>
             /\ Goto(t, "advance")
             /\ cur' = [cur EXCEPT ![t] = Head(work[on[t]])]
             /\ rest' = [rest EXCEPT ![t] = Tail(work[on[t]])]
             /\ UNCHANGED res
    <3>1. Head(work[on[t]]) \in Records /\ Tail(work[on[t]]) \in Seq(Records)
      BY <2>2, <2>4
    <3>2. QED
      BY <2>1, <2>4, <3>1
  <2>5. QED
    BY <1>28, <2>3, <2>4 DEF next_load
<1>29. ASSUME NEW t \in Threads, next_store(t) PROVE TypeOK'
  BY <1>29 DEF next_store
<1>30. ASSUME NEW t \in Threads, next_expand(t) PROVE TypeOK'
  <2>0. cur[t] \in Records /\ on[t] \in Threads
    BY <1>30 DEF next_expand
  <2>1. /\ ObjectTypes' /\ HistoryTypes'
        /\ on' = on /\ nested' = nested /\ cur' = cur /\ rest' = rest
    BY <1>30 DEF next_expand
  <2>2. CallTypes'
    <3>1. CASE Goto(t, "freeloop") /\ UNCHANGED res
      BY <1>30, <3>1 DEF next_expand
    <3>2. ASSUME NEW r \in {"InvalidDatabaseError", "MemoryError"},
                 Goto(t, "rdunlock"), res' = [res EXCEPT ![t] = r]
          PROVE  CallTypes'
      BY <1>30, <3>2 DEF next_expand
    <3>3. QED
      BY <1>30, <3>1, <3>2 DEF next_expand
  <2>3. CASE UNCHANGED <<iterVars, left>>
    BY <2>1, <2>2, <2>3
  <2>4. CASE /\ Kind[cur[t]] = "node"
             /\ UNCHANGED <<iter, iterRefs, left>>
             /\ work' = [work EXCEPT ![on[t]] = Children[cur[t]] \o @]
             /\ heap' = [heap EXCEPT ![on[t]] = @ \cup {Children[cur[t]][1], Children[cur[t]][2]}]
    <3>1. /\ cur[t] \in Records /\ on[t] \in Threads
      BY <2>0
    <3>2. Children[cur[t]] \in Records \X Records
      BY <2>4, <3>1
    <3>3. /\ Children[cur[t]][1] \in Records /\ Children[cur[t]][2] \in Records
          /\ Children[cur[t]] \in Seq(Records)
      BY <3>2, PairIsSeq
    <3>4. Children[cur[t]] \o work[on[t]] \in Seq(Records)
      BY <3>1, <3>3
    <3>5. IteratorTypes'
      BY <2>4, <3>1, <3>3, <3>4
    <3>6. QED
      BY <2>1, <2>2, <2>4, <3>5
  <2>5. CASE /\ Kind[cur[t]] = "node"
             /\ UNCHANGED <<iter, iterRefs, work>>
             /\ left' = [left EXCEPT ![t] = Children[cur[t]][1]]
             /\ heap' = [heap EXCEPT ![on[t]] = @ \cup {Children[cur[t]][1]}]
    <3>1. Children[cur[t]] \in Records \X Records
      BY <2>0, <2>5
    <3>2. Children[cur[t]][1] \in Records
      BY <3>1, PairIsSeq
    <3>3. QED
      BY <2>0, <2>1, <2>2, <2>5, <3>2
  <2>6. QED
    BY <1>30, <2>3, <2>4, <2>5 DEF next_expand
<1>31. ASSUME NEW t \in Threads, next_free_loop(t) PROVE TypeOK'
  BY <1>31 DEF next_free_loop
<1>32. ASSUME NEW t \in Threads, call_ip_network(t) PROVE TypeOK'
  BY <1>32 DEF call_ip_network
<1>33. ASSUME NEW t \in Threads, next_free(t) PROVE TypeOK'
  BY <1>33 DEF next_free
<1>34. ASSUME NEW t \in Threads, free_records(t) PROVE TypeOK'
  BY <1>34 DEF free_records
<1>35. ASSUME NEW t \in Threads, CloseInsideNext(t) PROVE TypeOK'
  BY <1>35 DEF CloseInsideNext
<1>36. ASSUME NEW t \in Threads, NEW i \in Threads, ReaderIter_next(t, i) PROVE TypeOK'
  BY <1>36 DEF ReaderIter_next, Call
<1>37. ASSUME NEW t \in Threads, NEW i \in Threads, ReaderIter_dealloc(t, i) PROVE TypeOK'
  <2>1. ObjectTypes' /\ HistoryTypes' /\ iterRefs' \in [Threads -> SUBSET Threads]
    BY <1>37 DEF ReaderIter_dealloc
  <2>2. CASE UNCHANGED <<iter, pc, op, on>>
    BY <1>37, <2>1, <2>2 DEF ReaderIter_dealloc
  <2>3. ASSUME NEW step \in {"dealloc", "freerecs"}, Goto(t, step),
               iter' = [iter EXCEPT ![i] = "dying"], on' = [on EXCEPT ![t] = i],
               op' = [op EXCEPT ![t] = "dealloc"]
        PROVE  TypeOK'
    <3>1. /\ res' = res /\ nested' = nested /\ cur' = cur /\ rest' = rest /\ left' = left
          /\ work' = work /\ heap' = heap
      BY <1>37 DEF ReaderIter_dealloc
    <3>2. QED
      BY <2>1, <2>3, <3>1
  <2>4. QED
    BY <1>37, <2>2, <2>3 DEF ReaderIter_dealloc
<1>38. CASE UNCHANGED vars
  BY <1>38 DEF vars
<1>39. ASSUME NEW t \in Threads, StopTheWorld(t) PROVE TypeOK'
  BY <1>39 DEF StopTheWorld
<1>40. ASSUME NEW t \in Threads, StartTheWorld(t) PROVE TypeOK'
  BY <1>40 DEF StartTheWorld
<1>41. ASSUME NEW t \in Threads, close_flag(t) PROVE TypeOK'
  BY <1>41 DEF close_flag
<1>42. QED
  BY <1>1, <1>2, <1>3, <1>4, <1>5, <1>6, <1>7, <1>8, <1>9, <1>10, <1>11, <1>12, <1>13, <1>14, <1>15,
     <1>16, <1>17, <1>18, <1>19, <1>20, <1>21, <1>22, <1>23, <1>24, <1>25, <1>26, <1>27, <1>28, <1>29, <1>30,
     <1>31, <1>32, <1>33, <1>34, <1>35, <1>36, <1>37, <1>38, <1>39, <1>40, <1>41
  DEF Next, Request, Step, Finished

\* Every step keeps the relation between pc, op and the locals of the call.
LEMMA CallStep == TypeOK /\ CallInv /\ [Next]_vars => CallInv'
<1> SUFFICES ASSUME TypeOK, CallInv, [Next]_vars PROVE CallInv'
  OBVIOUS
<1> USE ThreadsAssumption, BuildAssumption, TreeAssumption
    DEF TypeOK, ObjectTypes, IteratorTypes, CallTypes, LocalTypes, HistoryTypes, CallInv,
        objVars, lockVars, interp, iterVars, locals, callVars, history,
        MappedSteps, ReadSteps, WriteSteps, Steps, ReadOps, Ops, Successes, Outcomes,
        Running, At, Goto, RecordKinds
<1>1. ASSUME NEW t \in Threads, TakeGil(t) PROVE CallInv'
  BY <1>1 DEF TakeGil
<1>2. ASSUME NEW t \in Threads, Yield(t) PROVE CallInv'
  BY <1>2 DEF Yield
<1>3. ASSUME NEW t \in Threads, Reader_init(t) PROVE CallInv'
  <2>1. UNCHANGED <<on, nested, cur>> /\ pc[t] = "idle"
    BY <1>3 DEF Reader_init
  <2>2. CASE UNCHANGED <<pc, op>>
    BY <2>1, <2>2
  <2>3. CASE Goto(t, "dealloc") /\ op' = [op EXCEPT ![t] = "dealloc"]
    BY <2>1, <2>3
  <2>4. QED
    BY <1>3, <2>2, <2>3 DEF Reader_init
<1>4. ASSUME NEW t \in Threads, DropReader(t) PROVE CallInv'
  <2>1. CASE Goto(t, "dealloc") /\ op' = [op EXCEPT ![t] = "dealloc"]
    BY <1>4, <2>1 DEF DropReader
  <2>2. CASE UNCHANGED <<pc, op>>
    BY <1>4, <2>2 DEF DropReader
  <2>3. QED
    BY <1>4, <2>1, <2>2 DEF DropReader
<1>5. ASSUME NEW t \in Threads, Reader_get(t) PROVE CallInv'
  <2>1. CASE CallReader(t, "get", "rdlock")
    BY <2>1 DEF CallReader, Call
  <2>2. CASE pc[t] = "idle" /\ op' = [op EXCEPT ![t] = "get"] /\ UNCHANGED <<locals, pc>>
    BY <2>2
  <2>3. QED
    BY <1>5, <2>1, <2>2 DEF Reader_get
<1>6. ASSUME NEW t \in Threads, Reader_metadata(t) PROVE CallInv'
  BY <1>6 DEF Reader_metadata, CallReader, Call
<1>7. ASSUME NEW t \in Threads, Reader__enter__(t) PROVE CallInv'
  BY <1>7 DEF Reader__enter__, CallReader, Call
<1>8. ASSUME NEW t \in Threads, Reader_iter(t) PROVE CallInv'
  BY <1>8 DEF Reader_iter, CallReader, Call
<1>9. ASSUME NEW t \in Threads, Reader_close(t) PROVE CallInv'
  BY <1>9 DEF Reader_close, CallReader, Call
<1>10. ASSUME NEW t \in Threads, Reader__exit__(t) PROVE CallInv'
  BY <1>10 DEF Reader__exit__, CallReader, Call
<1>11. ASSUME NEW t \in Threads, ReadClosedMember(t) PROVE CallInv'
  BY <1>11 DEF ReadClosedMember
<1>12. ASSUME NEW t \in Threads, reader_acquire_read_lock(t) PROVE CallInv'
  BY <1>12 DEF reader_acquire_read_lock
<1>13. ASSUME NEW t \in Threads, read_lock_fails(t) PROVE CallInv'
  BY <1>13 DEF read_lock_fails
<1>14. ASSUME NEW t \in Threads, reader_release_read_lock(t) PROVE CallInv'
  BY <1>14 DEF reader_release_read_lock, AfterRead
<1>15. ASSUME NEW t \in Threads, reader_acquire_write_lock(t) PROVE CallInv'
  BY <1>15 DEF reader_acquire_write_lock
<1>16. ASSUME NEW t \in Threads, write_lock_fails(t) PROVE CallInv'
  BY <1>16 DEF write_lock_fails, Return
<1>17. ASSUME NEW t \in Threads, reader_release_write_lock(t) PROVE CallInv'
  <2>1. UNCHANGED <<on, cur>> /\ pc[t] = "wrunlock"
    BY <1>17 DEF reader_release_write_lock
  <2>2. CASE op[t] = "dealloc" /\ Goto(t, "destroy") /\ UNCHANGED <<op, nested>>
    BY <2>1, <2>2
  <2>3. CASE Return(t)
    BY <2>1, <2>3 DEF Return
  <2>4. QED
    BY <1>17, <2>2, <2>3 DEF reader_release_write_lock
<1>18. ASSUME NEW t \in Threads, Reader_dealloc(t) PROVE CallInv'
  BY <1>18 DEF Reader_dealloc
<1>19. ASSUME NEW t \in Threads, reader_lock_destroy(t) PROVE CallInv'
  BY <1>19 DEF reader_lock_destroy
<1>20. ASSUME NEW t \in Threads, close_unmap(t) PROVE CallInv'
  BY <1>20 DEF close_unmap
<1>21. ASSUME NEW t \in Threads, close_clear(t) PROVE CallInv'
  BY <1>21 DEF close_clear
<1>22. ASSUME NEW t \in Threads, check_closed(t) PROVE CallInv'
  BY <1>22 DEF check_closed, SeesClosed
<1>23. ASSUME NEW t \in Threads, get_record(t) PROVE CallInv'
  <2>1. CASE Goto(t, "decode") /\ UNCHANGED res
    BY <1>23, <2>1 DEF get_record
  <2>2. ASSUME NEW r \in {"lookup_error", "notfound"}, Goto(t, "rdunlock"), res' = [res EXCEPT ![t] = r] PROVE CallInv'
    BY <1>23, <2>2 DEF get_record
  <2>3. QED
    BY <1>23, <2>1, <2>2 DEF get_record
<1>24. ASSUME NEW t \in Threads, get_entry_data_list(t) PROVE CallInv'
  <2>1. CASE Goto(t, "convert") /\ UNCHANGED res
    BY <1>24, <2>1 DEF get_entry_data_list
  <2>2. CASE Goto(t, "rdunlock") /\ res' = [res EXCEPT ![t] = "InvalidDatabaseError"]
    BY <1>24, <2>2 DEF get_entry_data_list
  <2>3. QED
    BY <1>24, <2>1, <2>2 DEF get_entry_data_list
<1>25. ASSUME NEW t \in Threads, from_entry_data_list(t) PROVE CallInv'
  <2>1. CASE Goto(t, "rdunlock") /\ res' = [res EXCEPT ![t] = "InvalidDatabaseError"]
    BY <1>25, <2>1 DEF from_entry_data_list
  <2>2. CASE op[t] = "next" /\ Goto(t, "network") /\ UNCHANGED res
    BY <1>25, <2>2 DEF from_entry_data_list
  <2>3. CASE op[t] # "next" /\ Goto(t, "rdunlock") /\ res' = [res EXCEPT ![t] = IF op[t] = "get" THEN "record" ELSE "metadata"]
    BY <1>25, <2>3 DEF from_entry_data_list
  <2>4. QED
    BY <1>25, <2>1, <2>2, <2>3 DEF from_entry_data_list
<1>26. ASSUME NEW t \in Threads, build_metadata(t) PROVE CallInv'
  BY <1>26 DEF build_metadata
<1>27. ASSUME NEW t \in Threads, alloc_iterator(t) PROVE CallInv'
  <2>1. CASE UNCHANGED res
    BY <1>27, <2>1 DEF alloc_iterator
  <2>2. CASE UNCHANGED iterVars
    BY <1>27, <2>2 DEF alloc_iterator
  <2>3. QED
    BY <1>27, <2>1, <2>2 DEF alloc_iterator
<1>28. ASSUME NEW t \in Threads, next_load(t) PROVE CallInv'
  <2>1. UNCHANGED <<on, nested, op>> /\ pc[t] = "pop" /\ on[t] \in Threads
    BY <1>28 DEF next_load
  <2>2. CASE Goto(t, "rdunlock") /\ cur' = [cur EXCEPT ![t] = NoRecord]
    BY <2>1, <2>2
  <2>3. CASE /\ work[on[t]] # <<>>
             /\ Goto(t, "advance")
             /\ cur' = [cur EXCEPT ![t] = Head(work[on[t]])]
    <3>1. Head(work[on[t]]) \in Records
      BY <2>1, <2>3
    <3>2. QED
      BY <2>1, <2>3, <3>1
  <2>4. QED
    BY <1>28, <2>2, <2>3 DEF next_load
<1>29. ASSUME NEW t \in Threads, next_store(t) PROVE CallInv'
  BY <1>29 DEF next_store
<1>30. ASSUME NEW t \in Threads, next_expand(t) PROVE CallInv'
  <2>1. UNCHANGED <<on, nested, op, cur>> /\ pc[t] = "expand"
    BY <1>30 DEF next_expand
  <2>2. CASE Goto(t, "freeloop")
    BY <2>1, <2>2
  <2>3. CASE Goto(t, "rdunlock")
    BY <2>1, <2>3
  <2>4. QED
    BY <1>30, <2>2, <2>3 DEF next_expand
<1>31. ASSUME NEW t \in Threads, next_free_loop(t) PROVE CallInv'
  BY <1>31 DEF next_free_loop
<1>32. ASSUME NEW t \in Threads, call_ip_network(t) PROVE CallInv'
  BY <1>32 DEF call_ip_network
<1>33. ASSUME NEW t \in Threads, next_free(t) PROVE CallInv'
  BY <1>33 DEF next_free
<1>34. ASSUME NEW t \in Threads, free_records(t) PROVE CallInv'
  BY <1>34 DEF free_records
<1>35. ASSUME NEW t \in Threads, CloseInsideNext(t) PROVE CallInv'
  BY <1>35 DEF CloseInsideNext
<1>36. ASSUME NEW t \in Threads, NEW i \in Threads, ReaderIter_next(t, i) PROVE CallInv'
  BY <1>36 DEF ReaderIter_next, Call
<1>37. ASSUME NEW t \in Threads, NEW i \in Threads, ReaderIter_dealloc(t, i) PROVE CallInv'
  <2>1. CASE UNCHANGED <<iter, pc, op, on>>
    BY <1>37, <2>1 DEF ReaderIter_dealloc
  <2>2. CASE /\ op' = [op EXCEPT ![t] = "dealloc"]
             /\ on' = [on EXCEPT ![t] = i]
             /\ Goto(t, "dealloc") \/ Goto(t, "freerecs")
    <3>1. pc[t] = "idle" /\ UNCHANGED <<nested, cur>>
      BY <1>37 DEF ReaderIter_dealloc
    <3>2. CASE Goto(t, "dealloc")
      BY <2>2, <3>1, <3>2
    <3>3. CASE Goto(t, "freerecs")
      BY <2>2, <3>1, <3>3
    <3>4. QED
      BY <2>2, <3>2, <3>3
  <2>3. QED
    BY <1>37, <2>1, <2>2 DEF ReaderIter_dealloc
<1>38. CASE UNCHANGED vars
  BY <1>38 DEF vars
<1>39. ASSUME NEW t \in Threads, StopTheWorld(t) PROVE CallInv'
  BY <1>39 DEF StopTheWorld
<1>40. ASSUME NEW t \in Threads, StartTheWorld(t) PROVE CallInv'
  BY <1>40 DEF StartTheWorld
<1>41. ASSUME NEW t \in Threads, close_flag(t) PROVE CallInv'
  BY <1>41 DEF close_flag
<1>42. QED
  BY <1>1, <1>2, <1>3, <1>4, <1>5, <1>6, <1>7, <1>8, <1>9, <1>10, <1>11, <1>12, <1>13, <1>14, <1>15,
     <1>16, <1>17, <1>18, <1>19, <1>20, <1>21, <1>22, <1>23, <1>24, <1>25, <1>26, <1>27, <1>28, <1>29, <1>30,
     <1>31, <1>32, <1>33, <1>34, <1>35, <1>36, <1>37, <1>38, <1>39, <1>40, <1>41
  DEF Next, Request, Step, Finished

\* The lock is acquired and released in pairs on every path through a method.
LEMMA LockStep == TypeOK /\ CallInv /\ LockInv /\ [Next]_vars => LockInv'
<1> SUFFICES ASSUME TypeOK, CallInv, LockInv, [Next]_vars PROVE LockInv'
  OBVIOUS
<1> USE DEF LockInv, TypeOK, ObjectTypes, CallTypes, LocalTypes, CallInv,
        objVars, lockVars, interp, iterVars, locals, callVars, history,
        MappedSteps, ReadSteps, WriteSteps, Running, At, Goto
<1>1. ASSUME NEW t \in Threads, TakeGil(t) PROVE LockInv'
  BY <1>1 DEF TakeGil
<1>2. ASSUME NEW t \in Threads, Yield(t) PROVE LockInv'
  BY <1>2 DEF Yield
<1>3. ASSUME NEW t \in Threads, Reader_init(t) PROVE LockInv'
  <2>1. CASE obj' = "live"
    BY <1>3, <2>1 DEF Reader_init
  <2>2. CASE obj' = "failed"
    <3>1. Goto(t, "dealloc") /\ pc[t] = "idle" /\ UNCHANGED <<readers, writer, nested>>
      BY <1>3, <2>2 DEF Reader_init
    <3>2. QED
      BY <3>1
  <2>3. QED
    BY <1>3, <2>1, <2>2 DEF Reader_init
<1>4. ASSUME NEW t \in Threads, DropReader(t) PROVE LockInv'
  <2>1. CASE Goto(t, "dealloc") /\ op' = [op EXCEPT ![t] = "dealloc"]
    BY <1>4, <2>1 DEF DropReader
  <2>2. CASE UNCHANGED <<pc, op>>
    BY <1>4, <2>2 DEF DropReader
  <2>3. QED
    BY <1>4, <2>1, <2>2 DEF DropReader
<1>5. ASSUME NEW t \in Threads, Reader_get(t) PROVE LockInv'
  <2>1. CASE CallReader(t, "get", "rdlock")
    BY <1>5, <2>1 DEF Reader_get, CallReader, Call
  <2>2. CASE ~CallReader(t, "get", "rdlock")
    BY <1>5, <2>2 DEF Reader_get, CallReader, Call
  <2>3. QED
    BY <1>5, <2>1, <2>2 DEF Reader_get
<1>6. ASSUME NEW t \in Threads, Reader_metadata(t) PROVE LockInv'
  BY <1>6 DEF Reader_metadata, CallReader, Call
<1>7. ASSUME NEW t \in Threads, Reader__enter__(t) PROVE LockInv'
  BY <1>7 DEF Reader__enter__, CallReader, Call
<1>8. ASSUME NEW t \in Threads, Reader_iter(t) PROVE LockInv'
  BY <1>8 DEF Reader_iter, CallReader, Call
<1>9. ASSUME NEW t \in Threads, Reader_close(t) PROVE LockInv'
  BY <1>9 DEF Reader_close, CallReader, Call
<1>10. ASSUME NEW t \in Threads, Reader__exit__(t) PROVE LockInv'
  BY <1>10 DEF Reader__exit__, CallReader, Call
<1>11. ASSUME NEW t \in Threads, ReadClosedMember(t) PROVE LockInv'
  BY <1>11 DEF ReadClosedMember
<1>12. ASSUME NEW t \in Threads, reader_acquire_read_lock(t) PROVE LockInv'
  BY <1>12 DEF reader_acquire_read_lock
<1>13. ASSUME NEW t \in Threads, read_lock_fails(t) PROVE LockInv'
  BY <1>13 DEF read_lock_fails
<1>14. ASSUME NEW t \in Threads, reader_release_read_lock(t) PROVE LockInv'
  BY <1>14 DEF reader_release_read_lock, AfterRead
<1>15. ASSUME NEW t \in Threads, reader_acquire_write_lock(t) PROVE LockInv'
  BY <1>15 DEF reader_acquire_write_lock
<1>16. ASSUME NEW t \in Threads, write_lock_fails(t) PROVE LockInv'
  BY <1>16 DEF write_lock_fails, Return
<1>17. ASSUME NEW t \in Threads, reader_release_write_lock(t) PROVE LockInv'
  <2>1. CASE op[t] = "dealloc"
    BY <1>17, <2>1 DEF reader_release_write_lock, Return
  <2>2. CASE op[t] # "dealloc"
    BY <1>17, <2>2 DEF reader_release_write_lock, Return
  <2>3. QED
    BY <1>17, <2>1, <2>2 DEF reader_release_write_lock
<1>18. ASSUME NEW t \in Threads, Reader_dealloc(t) PROVE LockInv'
  BY <1>18 DEF Reader_dealloc
<1>19. ASSUME NEW t \in Threads, reader_lock_destroy(t) PROVE LockInv'
  BY <1>19 DEF reader_lock_destroy
<1>20. ASSUME NEW t \in Threads, close_unmap(t) PROVE LockInv'
  BY <1>20 DEF close_unmap
<1>21. ASSUME NEW t \in Threads, close_clear(t) PROVE LockInv'
  BY <1>21 DEF close_clear
<1>22. ASSUME NEW t \in Threads, check_closed(t) PROVE LockInv'
  <2>1. PICK step \in {"lookup", "decode", "rdunlock", "pop"} : Goto(t, step)
    BY <1>22 DEF check_closed, ReadOps
  <2>2. QED
    BY <1>22, <2>1 DEF check_closed
<1>23. ASSUME NEW t \in Threads, get_record(t) PROVE LockInv'
  <2>1. CASE Goto(t, "decode") /\ UNCHANGED res
    BY <1>23, <2>1 DEF get_record
  <2>2. ASSUME NEW r \in {"lookup_error", "notfound"}, Goto(t, "rdunlock"), res' = [res EXCEPT ![t] = r] PROVE LockInv'
    BY <1>23, <2>2 DEF get_record
  <2>3. QED
    BY <1>23, <2>1, <2>2 DEF get_record
<1>24. ASSUME NEW t \in Threads, get_entry_data_list(t) PROVE LockInv'
  <2>1. CASE Goto(t, "convert") /\ UNCHANGED res
    BY <1>24, <2>1 DEF get_entry_data_list
  <2>2. CASE Goto(t, "rdunlock") /\ res' = [res EXCEPT ![t] = "InvalidDatabaseError"]
    BY <1>24, <2>2 DEF get_entry_data_list
  <2>3. QED
    BY <1>24, <2>1, <2>2 DEF get_entry_data_list
<1>25. ASSUME NEW t \in Threads, from_entry_data_list(t) PROVE LockInv'
  <2>1. CASE Goto(t, "rdunlock") /\ res' = [res EXCEPT ![t] = "InvalidDatabaseError"]
    BY <1>25, <2>1 DEF from_entry_data_list
  <2>2. CASE op[t] = "next" /\ Goto(t, "network") /\ UNCHANGED res
    BY <1>25, <2>2 DEF from_entry_data_list
  <2>3. CASE op[t] # "next" /\ Goto(t, "rdunlock") /\ res' = [res EXCEPT ![t] = IF op[t] = "get" THEN "record" ELSE "metadata"]
    BY <1>25, <2>3 DEF from_entry_data_list
  <2>4. QED
    BY <1>25, <2>1, <2>2, <2>3 DEF from_entry_data_list
<1>26. ASSUME NEW t \in Threads, build_metadata(t) PROVE LockInv'
  BY <1>26 DEF build_metadata
<1>27. ASSUME NEW t \in Threads, alloc_iterator(t) PROVE LockInv'
  <2>1. CASE UNCHANGED res
    BY <1>27, <2>1 DEF alloc_iterator
  <2>2. CASE UNCHANGED iterVars
    BY <1>27, <2>2 DEF alloc_iterator
  <2>3. QED
    BY <1>27, <2>1, <2>2 DEF alloc_iterator
<1>28. ASSUME NEW t \in Threads, next_load(t) PROVE LockInv'
  <2>1. CASE work[on[t]] = <<>>
    BY <1>28, <2>1 DEF next_load
  <2>2. CASE work[on[t]] # <<>>
    BY <1>28, <2>2 DEF next_load
  <2>3. QED
    BY <1>28, <2>1, <2>2 DEF next_load
<1>29. ASSUME NEW t \in Threads, next_store(t) PROVE LockInv'
  <2>1. Kind[cur[t]] \in RecordKinds
    BY <1>29, TreeAssumption DEF next_store
  <2>2. PICK step \in {"expand", "freeloop", "decode", "rdunlock"} : Goto(t, step)
    BY <1>29, <2>1 DEF next_store, RecordKinds
  <2>3. QED
    BY <1>29, <2>2 DEF next_store
<1>30. ASSUME NEW t \in Threads, next_expand(t) PROVE LockInv'
  <2>1. CASE Goto(t, "freeloop")
    BY <1>30, <2>1 DEF next_expand
  <2>2. CASE Goto(t, "rdunlock")
    BY <1>30, <2>2 DEF next_expand
  <2>3. QED
    BY <1>30, <2>1, <2>2 DEF next_expand
<1>31. ASSUME NEW t \in Threads, next_free_loop(t) PROVE LockInv'
  BY <1>31 DEF next_free_loop
<1>32. ASSUME NEW t \in Threads, call_ip_network(t) PROVE LockInv'
  BY <1>32 DEF call_ip_network
<1>33. ASSUME NEW t \in Threads, next_free(t) PROVE LockInv'
  BY <1>33 DEF next_free
<1>34. ASSUME NEW t \in Threads, free_records(t) PROVE LockInv'
  BY <1>34 DEF free_records
<1>35. ASSUME NEW t \in Threads, CloseInsideNext(t) PROVE LockInv'
  BY <1>35 DEF CloseInsideNext
<1>36. ASSUME NEW t \in Threads, NEW i \in Threads, ReaderIter_next(t, i) PROVE LockInv'
  BY <1>36 DEF ReaderIter_next, Call
<1>37. ASSUME NEW t \in Threads, NEW i \in Threads, ReaderIter_dealloc(t, i) PROVE LockInv'
  <2>1. CASE UNCHANGED <<iter, pc, op, on>>
    BY <1>37, <2>1 DEF ReaderIter_dealloc
  <2>2. CASE op' = [op EXCEPT ![t] = "dealloc"]
    BY <1>37, <2>2 DEF ReaderIter_dealloc
  <2>3. QED
    BY <1>37, <2>1, <2>2 DEF ReaderIter_dealloc
<1>38. CASE UNCHANGED vars
  BY <1>38 DEF vars
<1>39. ASSUME NEW t \in Threads, StopTheWorld(t) PROVE LockInv'
  BY <1>39 DEF StopTheWorld
<1>40. ASSUME NEW t \in Threads, StartTheWorld(t) PROVE LockInv'
  BY <1>40 DEF StartTheWorld
<1>41. ASSUME NEW t \in Threads, close_flag(t) PROVE LockInv'
  BY <1>41 DEF close_flag
<1>42. QED
  BY <1>1, <1>2, <1>3, <1>4, <1>5, <1>6, <1>7, <1>8, <1>9, <1>10, <1>11, <1>12, <1>13, <1>14, <1>15,
     <1>16, <1>17, <1>18, <1>19, <1>20, <1>21, <1>22, <1>23, <1>24, <1>25, <1>26, <1>27, <1>28, <1>29, <1>30,
     <1>31, <1>32, <1>33, <1>34, <1>35, <1>36, <1>37, <1>38, <1>39, <1>40, <1>41
  DEF Next, Request, Step, Finished

\* The GIL changes hands only where CPython may switch threads.
LEMMA GilStep == TypeOK /\ CallInv /\ GilInv /\ [Next]_vars => GilInv'
<1> SUFFICES ASSUME TypeOK, CallInv, GilInv, [Next]_vars PROVE GilInv'
  OBVIOUS
<1> USE DEF GilInv, YieldPoints, TypeOK, ObjectTypes, CallTypes, LocalTypes, CallInv,
        objVars, lockVars, interp, iterVars, locals, callVars, history,
        Running, At, Goto
<1>1. ASSUME NEW t \in Threads, TakeGil(t) PROVE GilInv'
  BY <1>1, ThreadsAssumption DEF TakeGil
<1>2. ASSUME NEW t \in Threads, Yield(t) PROVE GilInv'
  BY <1>2 DEF Yield
<1>3. ASSUME NEW t \in Threads, Reader_init(t) PROVE GilInv'
  <2>1. CASE obj' = "live"
    BY <1>3, <2>1 DEF Reader_init
  <2>2. CASE obj' = "failed"
    BY <1>3, <2>2 DEF Reader_init
  <2>3. QED
    BY <1>3, <2>1, <2>2 DEF Reader_init
<1>4. ASSUME NEW t \in Threads, DropReader(t) PROVE GilInv'
  <2>1. CASE Goto(t, "dealloc") /\ op' = [op EXCEPT ![t] = "dealloc"]
    BY <1>4, <2>1 DEF DropReader
  <2>2. CASE UNCHANGED <<pc, op>>
    BY <1>4, <2>2 DEF DropReader
  <2>3. QED
    BY <1>4, <2>1, <2>2 DEF DropReader
<1>5. ASSUME NEW t \in Threads, Reader_get(t) PROVE GilInv'
  <2>1. CASE CallReader(t, "get", "rdlock")
    BY <1>5, <2>1 DEF Reader_get, CallReader, Call
  <2>2. CASE ~CallReader(t, "get", "rdlock")
    BY <1>5, <2>2 DEF Reader_get, CallReader, Call
  <2>3. QED
    BY <1>5, <2>1, <2>2 DEF Reader_get
<1>6. ASSUME NEW t \in Threads, Reader_metadata(t) PROVE GilInv'
  BY <1>6 DEF Reader_metadata, CallReader, Call
<1>7. ASSUME NEW t \in Threads, Reader__enter__(t) PROVE GilInv'
  BY <1>7 DEF Reader__enter__, CallReader, Call
<1>8. ASSUME NEW t \in Threads, Reader_iter(t) PROVE GilInv'
  BY <1>8 DEF Reader_iter, CallReader, Call
<1>9. ASSUME NEW t \in Threads, Reader_close(t) PROVE GilInv'
  BY <1>9 DEF Reader_close, CallReader, Call
<1>10. ASSUME NEW t \in Threads, Reader__exit__(t) PROVE GilInv'
  BY <1>10 DEF Reader__exit__, CallReader, Call
<1>11. ASSUME NEW t \in Threads, ReadClosedMember(t) PROVE GilInv'
  BY <1>11 DEF ReadClosedMember
<1>12. ASSUME NEW t \in Threads, reader_acquire_read_lock(t) PROVE GilInv'
  BY <1>12 DEF reader_acquire_read_lock
<1>13. ASSUME NEW t \in Threads, read_lock_fails(t) PROVE GilInv'
  BY <1>13 DEF read_lock_fails
<1>14. ASSUME NEW t \in Threads, reader_release_read_lock(t) PROVE GilInv'
  BY <1>14 DEF reader_release_read_lock, AfterRead
<1>15. ASSUME NEW t \in Threads, reader_acquire_write_lock(t) PROVE GilInv'
  BY <1>15 DEF reader_acquire_write_lock
<1>16. ASSUME NEW t \in Threads, write_lock_fails(t) PROVE GilInv'
  BY <1>16 DEF write_lock_fails, Return
<1>17. ASSUME NEW t \in Threads, reader_release_write_lock(t) PROVE GilInv'
  <2>1. CASE op[t] = "dealloc"
    BY <1>17, <2>1 DEF reader_release_write_lock, Return
  <2>2. CASE op[t] # "dealloc"
    BY <1>17, <2>2 DEF reader_release_write_lock, Return
  <2>3. QED
    BY <1>17, <2>1, <2>2 DEF reader_release_write_lock
<1>18. ASSUME NEW t \in Threads, Reader_dealloc(t) PROVE GilInv'
  BY <1>18 DEF Reader_dealloc
<1>19. ASSUME NEW t \in Threads, reader_lock_destroy(t) PROVE GilInv'
  BY <1>19 DEF reader_lock_destroy
<1>20. ASSUME NEW t \in Threads, close_unmap(t) PROVE GilInv'
  BY <1>20 DEF close_unmap
<1>21. ASSUME NEW t \in Threads, close_clear(t) PROVE GilInv'
  BY <1>21 DEF close_clear
<1>22. ASSUME NEW t \in Threads, check_closed(t) PROVE GilInv'
  BY <1>22 DEF check_closed, SeesClosed
<1>23. ASSUME NEW t \in Threads, get_record(t) PROVE GilInv'
  <2>1. CASE Goto(t, "decode") /\ UNCHANGED res
    BY <1>23, <2>1 DEF get_record
  <2>2. ASSUME NEW r \in {"lookup_error", "notfound"}, Goto(t, "rdunlock"), res' = [res EXCEPT ![t] = r] PROVE GilInv'
    BY <1>23, <2>2 DEF get_record
  <2>3. QED
    BY <1>23, <2>1, <2>2 DEF get_record
<1>24. ASSUME NEW t \in Threads, get_entry_data_list(t) PROVE GilInv'
  <2>1. CASE Goto(t, "convert") /\ UNCHANGED res
    BY <1>24, <2>1 DEF get_entry_data_list
  <2>2. CASE Goto(t, "rdunlock") /\ res' = [res EXCEPT ![t] = "InvalidDatabaseError"]
    BY <1>24, <2>2 DEF get_entry_data_list
  <2>3. QED
    BY <1>24, <2>1, <2>2 DEF get_entry_data_list
<1>25. ASSUME NEW t \in Threads, from_entry_data_list(t) PROVE GilInv'
  <2>1. CASE Goto(t, "rdunlock") /\ res' = [res EXCEPT ![t] = "InvalidDatabaseError"]
    BY <1>25, <2>1 DEF from_entry_data_list
  <2>2. CASE op[t] = "next" /\ Goto(t, "network") /\ UNCHANGED res
    BY <1>25, <2>2 DEF from_entry_data_list
  <2>3. CASE op[t] # "next" /\ Goto(t, "rdunlock") /\ res' = [res EXCEPT ![t] = IF op[t] = "get" THEN "record" ELSE "metadata"]
    BY <1>25, <2>3 DEF from_entry_data_list
  <2>4. QED
    BY <1>25, <2>1, <2>2, <2>3 DEF from_entry_data_list
<1>26. ASSUME NEW t \in Threads, build_metadata(t) PROVE GilInv'
  BY <1>26 DEF build_metadata
<1>27. ASSUME NEW t \in Threads, alloc_iterator(t) PROVE GilInv'
  <2>1. CASE UNCHANGED res
    BY <1>27, <2>1 DEF alloc_iterator
  <2>2. CASE UNCHANGED iterVars
    BY <1>27, <2>2 DEF alloc_iterator
  <2>3. QED
    BY <1>27, <2>1, <2>2 DEF alloc_iterator
<1>28. ASSUME NEW t \in Threads, next_load(t) PROVE GilInv'
  <2>1. CASE work[on[t]] = <<>>
    BY <1>28, <2>1 DEF next_load
  <2>2. CASE work[on[t]] # <<>>
    BY <1>28, <2>2 DEF next_load
  <2>3. QED
    BY <1>28, <2>1, <2>2 DEF next_load
<1>29. ASSUME NEW t \in Threads, next_store(t) PROVE GilInv'
  BY <1>29 DEF next_store
<1>30. ASSUME NEW t \in Threads, next_expand(t) PROVE GilInv'
  <2>1. CASE Goto(t, "freeloop") /\ UNCHANGED <<iterVars, res>>
    BY <1>30, <2>1 DEF next_expand
  <2>2. CASE work' = [work EXCEPT ![on[t]] = Children[cur[t]] \o @]
    BY <1>30, <2>2 DEF next_expand
  <2>3. CASE Goto(t, "rdunlock")
    BY <1>30, <2>3 DEF next_expand
  <2>4. QED
    BY <1>30, <2>1, <2>2, <2>3 DEF next_expand
<1>31. ASSUME NEW t \in Threads, next_free_loop(t) PROVE GilInv'
  BY <1>31 DEF next_free_loop
<1>32. ASSUME NEW t \in Threads, call_ip_network(t) PROVE GilInv'
  BY <1>32 DEF call_ip_network
<1>33. ASSUME NEW t \in Threads, next_free(t) PROVE GilInv'
  BY <1>33 DEF next_free
<1>34. ASSUME NEW t \in Threads, free_records(t) PROVE GilInv'
  BY <1>34 DEF free_records
<1>35. ASSUME NEW t \in Threads, CloseInsideNext(t) PROVE GilInv'
  BY <1>35 DEF CloseInsideNext
<1>36. ASSUME NEW t \in Threads, NEW i \in Threads, ReaderIter_next(t, i) PROVE GilInv'
  BY <1>36 DEF ReaderIter_next, Call
<1>37. ASSUME NEW t \in Threads, NEW i \in Threads, ReaderIter_dealloc(t, i) PROVE GilInv'
  <2>1. CASE UNCHANGED <<iter, pc, op, on>>
    BY <1>37, <2>1 DEF ReaderIter_dealloc
  <2>2. CASE op' = [op EXCEPT ![t] = "dealloc"]
    BY <1>37, <2>2 DEF ReaderIter_dealloc
  <2>3. QED
    BY <1>37, <2>1, <2>2 DEF ReaderIter_dealloc
<1>38. CASE UNCHANGED vars
  BY <1>38 DEF vars
<1>39. ASSUME NEW t \in Threads, StopTheWorld(t) PROVE GilInv'
  BY <1>39 DEF StopTheWorld
<1>40. ASSUME NEW t \in Threads, StartTheWorld(t) PROVE GilInv'
  BY <1>40 DEF StartTheWorld
<1>41. ASSUME NEW t \in Threads, close_flag(t) PROVE GilInv'
  BY <1>41 DEF close_flag
<1>42. QED
  BY <1>1, <1>2, <1>3, <1>4, <1>5, <1>6, <1>7, <1>8, <1>9, <1>10, <1>11, <1>12, <1>13, <1>14, <1>15,
     <1>16, <1>17, <1>18, <1>19, <1>20, <1>21, <1>22, <1>23, <1>24, <1>25, <1>26, <1>27, <1>28, <1>29, <1>30,
     <1>31, <1>32, <1>33, <1>34, <1>35, <1>36, <1>37, <1>38, <1>39, <1>40, <1>41
  DEF Next, Request, Step, Finished

\* No thread is between the check and the last use of the handle while another
\* is between MMDB_close and the end of Reader_close, and there is one closer.
LEMMA Exclusion ==
  ASSUME TypeOK, LockInv, GilInv, UseGil => ~GcInAlloc,
         NEW t \in Threads, NEW u \in Threads, pc[u] \in WriteSteps
  PROVE  /\ pc[t] \notin CheckedSteps \cup {"check"}
         /\ pc[t] \in WriteSteps => t = u
<1>1. CASE UseGil
  BY <1>1 DEF GilInv, YieldPoints, CheckedSteps, MappedSteps, WriteSteps
<1>2. CASE ~UseGil
  BY <1>2 DEF LockInv, CheckedSteps, MappedSteps, ReadSteps, WriteSteps
<1>3. QED
  BY <1>1, <1>2

\* Every step keeps the handle, the flag and the mapping consistent.  The steps
\* that matter are close_unmap, close_clear, close_flag and check_closed; they use
\* Exclusion.
LEMMA HandleStep ==
  (UseGil => ~GcInAlloc) /\ TypeOK /\ CallInv /\ LockInv /\ GilInv /\ HandleInv /\ [Next]_vars
    => HandleInv'
<1> SUFFICES ASSUME UseGil => ~GcInAlloc, TypeOK, CallInv, LockInv, GilInv, HandleInv, [Next]_vars
             PROVE  HandleInv'
  OBVIOUS
<1> USE DEF HandleInv, CheckedSteps, TypeOK, ObjectTypes, IteratorTypes, CallTypes,
        objVars, lockVars, interp, iterVars, locals, callVars, history,
        MappedSteps, WriteSteps, Running, At, Goto
<1>1. ASSUME NEW t \in Threads, TakeGil(t) PROVE HandleInv'
  BY <1>1 DEF TakeGil
<1>2. ASSUME NEW t \in Threads, Yield(t) PROVE HandleInv'
  BY <1>2 DEF Yield
<1>3. ASSUME NEW t \in Threads, Reader_init(t) PROVE HandleInv'
  <2>1. CASE obj' = "live"
    BY <1>3, <2>1 DEF Reader_init
  <2>2. CASE obj' = "failed"
    BY <1>3, <2>2 DEF Reader_init
  <2>3. QED
    BY <1>3, <2>1, <2>2 DEF Reader_init
<1>4. ASSUME NEW t \in Threads, DropReader(t) PROVE HandleInv'
  <2>1. CASE Goto(t, "dealloc") /\ op' = [op EXCEPT ![t] = "dealloc"]
    BY <1>4, <2>1 DEF DropReader
  <2>2. CASE UNCHANGED <<pc, op>>
    BY <1>4, <2>2 DEF DropReader
  <2>3. QED
    BY <1>4, <2>1, <2>2 DEF DropReader
<1>5. ASSUME NEW t \in Threads, Reader_get(t) PROVE HandleInv'
  <2>1. CASE CallReader(t, "get", "rdlock")
    BY <1>5, <2>1 DEF Reader_get, CallReader, Call
  <2>2. CASE ~CallReader(t, "get", "rdlock")
    BY <1>5, <2>2 DEF Reader_get, CallReader, Call
  <2>3. QED
    BY <1>5, <2>1, <2>2 DEF Reader_get
<1>6. ASSUME NEW t \in Threads, Reader_metadata(t) PROVE HandleInv'
  BY <1>6 DEF Reader_metadata, CallReader, Call
<1>7. ASSUME NEW t \in Threads, Reader__enter__(t) PROVE HandleInv'
  BY <1>7 DEF Reader__enter__, CallReader, Call
<1>8. ASSUME NEW t \in Threads, Reader_iter(t) PROVE HandleInv'
  BY <1>8 DEF Reader_iter, CallReader, Call
<1>9. ASSUME NEW t \in Threads, Reader_close(t) PROVE HandleInv'
  BY <1>9 DEF Reader_close, CallReader, Call
<1>10. ASSUME NEW t \in Threads, Reader__exit__(t) PROVE HandleInv'
  BY <1>10 DEF Reader__exit__, CallReader, Call
<1>11. ASSUME NEW t \in Threads, ReadClosedMember(t) PROVE HandleInv'
  BY <1>11 DEF ReadClosedMember
<1>12. ASSUME NEW t \in Threads, reader_acquire_read_lock(t) PROVE HandleInv'
  BY <1>12 DEF reader_acquire_read_lock
<1>13. ASSUME NEW t \in Threads, read_lock_fails(t) PROVE HandleInv'
  BY <1>13 DEF read_lock_fails
<1>14. ASSUME NEW t \in Threads, reader_release_read_lock(t) PROVE HandleInv'
  BY <1>14 DEF reader_release_read_lock, AfterRead
<1>15. ASSUME NEW t \in Threads, reader_acquire_write_lock(t) PROVE HandleInv'
  BY <1>15 DEF reader_acquire_write_lock
<1>16. ASSUME NEW t \in Threads, write_lock_fails(t) PROVE HandleInv'
  BY <1>16 DEF write_lock_fails, Return
<1>17. ASSUME NEW t \in Threads, reader_release_write_lock(t) PROVE HandleInv'
  <2>1. pc[t] = "wrunlock" /\ UNCHANGED <<objVars, iter>>
    BY <1>17 DEF reader_release_write_lock
  <2>2. PICK step \in {"destroy", "network", "idle"} : Goto(t, step)
    BY <1>17 DEF reader_release_write_lock, Return
  <2>3. QED
    BY <2>1, <2>2
<1>18. ASSUME NEW t \in Threads, Reader_dealloc(t) PROVE HandleInv'
  BY <1>18 DEF Reader_dealloc
<1>19. ASSUME NEW t \in Threads, reader_lock_destroy(t) PROVE HandleInv'
  BY <1>19 DEF reader_lock_destroy
<1>20. ASSUME NEW t \in Threads, close_unmap(t) PROVE HandleInv'
  <2>1. \A u \in Threads : pc[u] \notin CheckedSteps
    BY <1>20, Exclusion DEF close_unmap
  <2>2. QED
    BY <1>20, <2>1 DEF close_unmap
<1>21. ASSUME NEW t \in Threads, close_clear(t) PROVE HandleInv'
  <2>1. \A u \in Threads : pc[u] \notin CheckedSteps
    BY <1>21, Exclusion DEF close_clear
  <2>2. QED
    BY <1>21, <2>1 DEF close_clear
<1>22. ASSUME NEW t \in Threads, check_closed(t) PROVE HandleInv'
  <2>1. \A u \in Threads : pc[u] \notin {"clear", "flag"}
    BY <1>22, Exclusion DEF check_closed
  <2>2. CASE SeesClosed(t)
    <3>1. Goto(t, "rdunlock")
      BY <1>22, <2>2 DEF check_closed
    <3>2. QED
      BY <1>22, <2>1, <3>1 DEF check_closed
  <2>3. CASE ~SeesClosed(t)
    <3>1. mmdb = "handle" /\ mapping = "mapped"
      BY <1>22, <2>1, <2>3 DEF check_closed, SeesClosed
    <3>2. PICK step \in {"lookup", "decode", "rdunlock", "pop"} : Goto(t, step)
      BY <1>22, <2>3 DEF check_closed, CallInv, ReadSteps, ReadOps
    <3>3. QED
      BY <1>22, <3>1, <3>2 DEF check_closed
  <2>4. QED
    BY <2>2, <2>3
<1>23. ASSUME NEW t \in Threads, get_record(t) PROVE HandleInv'
  <2>1. CASE Goto(t, "decode") /\ UNCHANGED res
    BY <1>23, <2>1 DEF get_record
  <2>2. ASSUME NEW r \in {"lookup_error", "notfound"}, Goto(t, "rdunlock"), res' = [res EXCEPT ![t] = r] PROVE HandleInv'
    BY <1>23, <2>2 DEF get_record
  <2>3. QED
    BY <1>23, <2>1, <2>2 DEF get_record
<1>24. ASSUME NEW t \in Threads, get_entry_data_list(t) PROVE HandleInv'
  <2>1. CASE Goto(t, "convert") /\ UNCHANGED res
    BY <1>24, <2>1 DEF get_entry_data_list
  <2>2. CASE Goto(t, "rdunlock") /\ res' = [res EXCEPT ![t] = "InvalidDatabaseError"]
    BY <1>24, <2>2 DEF get_entry_data_list
  <2>3. QED
    BY <1>24, <2>1, <2>2 DEF get_entry_data_list
<1>25. ASSUME NEW t \in Threads, from_entry_data_list(t) PROVE HandleInv'
  <2>1. CASE Goto(t, "rdunlock") /\ res' = [res EXCEPT ![t] = "InvalidDatabaseError"]
    BY <1>25, <2>1 DEF from_entry_data_list
  <2>2. CASE op[t] = "next" /\ Goto(t, "network") /\ UNCHANGED res
    BY <1>25, <2>2 DEF from_entry_data_list
  <2>3. CASE op[t] # "next" /\ Goto(t, "rdunlock") /\ res' = [res EXCEPT ![t] = IF op[t] = "get" THEN "record" ELSE "metadata"]
    BY <1>25, <2>3 DEF from_entry_data_list
  <2>4. QED
    BY <1>25, <2>1, <2>2, <2>3 DEF from_entry_data_list
<1>26. ASSUME NEW t \in Threads, build_metadata(t) PROVE HandleInv'
  BY <1>26 DEF build_metadata
<1>27. ASSUME NEW t \in Threads, alloc_iterator(t) PROVE HandleInv'
  <2>1. CASE UNCHANGED res
    BY <1>27, <2>1 DEF alloc_iterator
  <2>2. CASE UNCHANGED iterVars
    BY <1>27, <2>2 DEF alloc_iterator
  <2>3. QED
    BY <1>27, <2>1, <2>2 DEF alloc_iterator
<1>28. ASSUME NEW t \in Threads, next_load(t) PROVE HandleInv'
  <2>1. CASE work[on[t]] = <<>>
    BY <1>28, <2>1 DEF next_load
  <2>2. CASE work[on[t]] # <<>>
    BY <1>28, <2>2 DEF next_load
  <2>3. QED
    BY <1>28, <2>1, <2>2 DEF next_load
<1>29. ASSUME NEW t \in Threads, next_store(t) PROVE HandleInv'
  <2>1. /\ pc[t] = "advance" /\ UNCHANGED <<objVars, iter>>
        /\ \A u \in Threads \ {t} : pc'[u] = pc[u]
    BY <1>29 DEF next_store
  <2>2. pc'[t] \notin {"clear", "flag"}
    <3>1. Kind[cur[t]] \in RecordKinds
      BY <2>1, TreeAssumption DEF CallInv
    <3>2. QED
      BY <1>29, <3>1 DEF next_store, RecordKinds
  <2>3. QED
    BY <2>1, <2>2
<1>30. ASSUME NEW t \in Threads, next_expand(t) PROVE HandleInv'
  <2>1. pc[t] = "expand" /\ UNCHANGED <<objVars, iter>>
    BY <1>30 DEF next_expand
  <2>2. PICK step \in {"freeloop", "rdunlock"} : Goto(t, step)
    BY <1>30 DEF next_expand
  <2>3. QED
    BY <2>1, <2>2
<1>31. ASSUME NEW t \in Threads, next_free_loop(t) PROVE HandleInv'
  BY <1>31 DEF next_free_loop
<1>32. ASSUME NEW t \in Threads, call_ip_network(t) PROVE HandleInv'
  BY <1>32 DEF call_ip_network
<1>33. ASSUME NEW t \in Threads, next_free(t) PROVE HandleInv'
  BY <1>33 DEF next_free
<1>34. ASSUME NEW t \in Threads, free_records(t) PROVE HandleInv'
  BY <1>34 DEF free_records
<1>35. ASSUME NEW t \in Threads, CloseInsideNext(t) PROVE HandleInv'
  BY <1>35 DEF CloseInsideNext
<1>36. ASSUME NEW t \in Threads, NEW i \in Threads, ReaderIter_next(t, i) PROVE HandleInv'
  BY <1>36 DEF ReaderIter_next, Call
<1>37. ASSUME NEW t \in Threads, NEW i \in Threads, ReaderIter_dealloc(t, i) PROVE HandleInv'
  <2>1. CASE UNCHANGED <<iter, pc, op, on>>
    BY <1>37, <2>1 DEF ReaderIter_dealloc
  <2>2. CASE op' = [op EXCEPT ![t] = "dealloc"]
    BY <1>37, <2>2 DEF ReaderIter_dealloc
  <2>3. QED
    BY <1>37, <2>1, <2>2 DEF ReaderIter_dealloc
<1>38. CASE UNCHANGED vars
  BY <1>38 DEF vars
<1>39. ASSUME NEW t \in Threads, StopTheWorld(t) PROVE HandleInv'
  BY <1>39 DEF StopTheWorld
<1>40. ASSUME NEW t \in Threads, StartTheWorld(t) PROVE HandleInv'
  BY <1>40 DEF StartTheWorld
<1>41. ASSUME NEW t \in Threads, close_flag(t) PROVE HandleInv'
  <2>1. \A u \in Threads : pc[u] \notin CheckedSteps
    BY <1>41, Exclusion DEF close_flag
  <2>2. QED
    BY <1>41, <2>1 DEF close_flag
<1>42. QED
  BY <1>1, <1>2, <1>3, <1>4, <1>5, <1>6, <1>7, <1>8, <1>9, <1>10, <1>11, <1>12, <1>13, <1>14, <1>15,
     <1>16, <1>17, <1>18, <1>19, <1>20, <1>21, <1>22, <1>23, <1>24, <1>25, <1>26, <1>27, <1>28, <1>29, <1>30,
     <1>31, <1>32, <1>33, <1>34, <1>35, <1>36, <1>37, <1>38, <1>39, <1>40, <1>41
  DEF Next, Request, Step, Finished

\* The inductive invariant.
IndInv == TypeOK /\ CallInv /\ LockInv /\ GilInv /\ HandleInv

\* A fresh Reader object satisfies the inductive invariant.
LEMMA InitInv == Init => IndInv
<1> SUFFICES ASSUME Init PROVE IndInv
  OBVIOUS
<1> USE DEF Init
<1>1. TypeOK
  <2>1. ObjectTypes /\ HistoryTypes
    BY DEF ObjectTypes, HistoryTypes
  <2>2. IteratorTypes /\ LocalTypes
    BY DEF IteratorTypes, LocalTypes
  <2>3. CallTypes
    BY DEF CallTypes, Steps, Ops, Outcomes
  <2>4. QED
    BY <2>1, <2>2, <2>3 DEF TypeOK
<1>2. CallInv
  BY DEF CallInv, ReadSteps, MappedSteps, WriteSteps
<1>3. LockInv /\ GilInv
  BY DEF LockInv, GilInv, YieldPoints, ReadSteps, MappedSteps, WriteSteps
<1>4. HandleInv
  BY DEF HandleInv, CheckedSteps, MappedSteps
<1>5. QED
  BY <1>1, <1>2, <1>3, <1>4 DEF IndInv

\* The type invariant holds for every number of threads and every search tree.
THEOREM TypeCorrect == Spec => []TypeOK
<1>1. Init => TypeOK /\ CallInv
  BY InitInv DEF IndInv
<1>2. TypeOK /\ CallInv /\ [Next]_vars => TypeOK' /\ CallInv'
  BY TypeStep, CallStep
<1>3. QED
  BY <1>1, <1>2, PTL DEF Spec

\* The inductive invariant holds, in a free-threaded build always, in a GIL
\* build if container allocation runs no finalizers.
THEOREM Invariance == (UseGil => ~GcInAlloc) => (Spec => []IndInv)
<1> SUFFICES ASSUME UseGil => ~GcInAlloc PROVE Spec => []IndInv
  OBVIOUS
<1>1. Init => IndInv
  BY InitInv
<1>2. IndInv /\ [Next]_vars => IndInv'
  BY TypeStep, CallStep, LockStep, GilStep, HandleStep DEF IndInv
<1>3. QED
  BY <1>1, <1>2, PTL DEF Spec

\* get, metadata and iteration never touch the handle or the mapped file after
\* a concurrent close() has unmapped it.
THEOREM UseAfterUnmapSafety == (UseGil => ~GcInAlloc) => (Spec => []NoUseAfterUnmap)
<1>1. IndInv => NoUseAfterUnmap
  BY DEF IndInv, HandleInv, CheckedSteps, NoUseAfterUnmap
<1>2. QED
  BY <1>1, Invariance, PTL

\* However many threads race in close(), __exit__ and the deallocator, the
\* handle is given to MMDB_close at most once.
THEOREM UnmapOnceSafety == (UseGil => ~GcInAlloc) => (Spec => []UnmapOnce)
<1> SUFFICES ASSUME UseGil => ~GcInAlloc PROVE Spec => []UnmapOnce
  OBVIOUS
<1>1. IndInv => UnmapOnce
  <2> SUFFICES ASSUME IndInv, NEW t \in Threads, pc[t] = "unmap", mmdb = "handle"
               PROVE  mapping = "mapped"
    BY DEF UnmapOnce
  <2>1. \A u \in Threads : pc[u] # "clear"
    BY Exclusion DEF IndInv, WriteSteps
  <2>2. QED
    BY <2>1 DEF IndInv, HandleInv
<1>2. QED
  BY <1>1, Invariance, PTL

-----------------------------------------------------------------------------
(* Who keeps the Reader alive, what its flag and its handle say, and what a *)
(* late call returns.  The inductive invariant is extended by               *)
(*                                                                          *)
(*   OwnInv   every running call rests on a reference, directly or through  *)
(*            a live iterator, and the thread that destroys the Reader is   *)
(*            alone,                                                        *)
(*   FlagInv  how obj, closed, mmdb and mapping are related,                *)
(*   LateInv  how far a call that began after close() can get.              *)
(*                                                                          *)
(* None of this depends on the lock or on the GIL: it is reference counting *)
(* and the check of the flag, so it also holds where Exclusion does not (a  *)
(* GIL build that runs finalizers inside allocation).                       *)

\* The thread that dropped the last reference, until reader_lock_destroy.
Destroying(t) ==
  \/ pc[t] \in {"dealloc", "destroy"}
  \/ op[t] = "dealloc" /\ pc[t] \in WriteSteps \cup {"wrlock"}

\* The thread that runs ReaderIter_dealloc for the iterator on[t].
Freeing(t) == op[t] = "dealloc" /\ pc[t] # "idle" /\ on[t] # NoThread

\* A call of a Reader method holds a reference to the Reader; ReaderIter_next
\* holds one to its iterator, and a live iterator holds one to the Reader.
OwnInv ==
  /\ \A t \in Threads :
       /\ pc[t] # "idle" => op[t] # "closed"
       /\ pc[t] = "build" => op[t] = "metadata"
       /\ pc[t] = "alloc" => op[t] = "iter"
       /\ pc[t] # "idle" /\ op[t] \notin {"next", "dealloc"} /\ ~nested[t] => t \in refs
       /\ (pc[t] # "idle" /\ op[t] = "next") \/ nested[t]
            => iter[on[t]] = "live" /\ t \in iterRefs[on[t]]
       /\ pc[t] # "idle" /\ op[t] = "iter" => iter[t] = "none"
       /\ Destroying(t) => /\ refs = {} /\ \A i \in Threads : iter[i] # "live"
                           /\ obj \in {"live", "failed"}
                           /\ \A u \in Threads : Destroying(u) => u = t
       /\ Freeing(t) => /\ iter[on[t]] = "dying"
                        /\ \A u \in Threads : Freeing(u) /\ on[u] = on[t] => u = t
  /\ obj # "live" => refs = {} /\ \A i \in Threads : iter[i] # "live"
  /\ obj = "new" => \A t \in Threads : on[t] = NoThread

\* The handle and the flag agree, nobody keeps a mapping without a handle, and
\* a Reader is destroyed only after its handle is gone.
FlagInv ==
  /\ obj = "new" => closed = "unset" /\ mapping = "none"
  /\ mmdb = "handle" => closed = "False"
  /\ mmdb = "NULL" => mapping # "mapped"
  /\ obj = "freed" => mmdb = "NULL"
  /\ \A t \in Threads :
       /\ pc[t] = "clear" => mapping # "mapped"
       /\ pc[t] = "flag" => mmdb = "NULL"
       /\ pc[t] = "wrunlock" => closed = "True"
       /\ pc[t] = "destroy" => mmdb = "NULL"

\* A call that began after close() gets no further than the check of the flag,
\* and it is never one that Python code inside ip_network() interrupts.
LateInv ==
  /\ closeSeen => closed = "True"
  /\ \A t \in Threads : late[t] =>
       /\ closed = "True" /\ ~nested[t]
       /\ op[t] \in ReadOps => /\ res[t] \notin Successes
                               /\ pc[t] \in {"idle", "rdlock", "check", "rdunlock", "free"}

\* Every step keeps the references that running calls and iterators rest on.
LEMMA OwnStep == TypeOK /\ CallInv /\ OwnInv /\ [Next]_vars => OwnInv'
<1> SUFFICES ASSUME TypeOK, CallInv, OwnInv, [Next]_vars PROVE OwnInv'
  OBVIOUS
<1> USE ThreadsAssumption
    DEF OwnInv, Destroying, Freeing, TypeOK, ObjectTypes, IteratorTypes, CallTypes, LocalTypes, CallInv,
        objVars, lockVars, interp, iterVars, locals, callVars, history,
        MappedSteps, ReadSteps, WriteSteps, ReadOps, HoldsReader, Running, At, Goto
<1>1. ASSUME NEW t \in Threads, TakeGil(t) PROVE OwnInv'
  BY <1>1 DEF TakeGil
<1>2. ASSUME NEW t \in Threads, Yield(t) PROVE OwnInv'
  BY <1>2 DEF Yield
<1>3. ASSUME NEW t \in Threads, Reader_init(t) PROVE OwnInv'
  <2>1. pc[t] = "idle" /\ UNCHANGED <<iter, iterRefs, on, nested>> /\ obj = "new"
    BY <1>3 DEF Reader_init
  <2>2. \A u \in Threads : /\ ~Destroying(u) /\ ~Freeing(u) /\ ~nested[u]
                           /\ pc[u] # "idle" => op[u] = "dealloc"
    BY <2>1
  <2>3. CASE obj' = "live"
    BY <1>3, <2>1, <2>2, <2>3 DEF Reader_init
  <2>4. CASE obj' = "failed" /\ Goto(t, "dealloc") /\ op' = [op EXCEPT ![t] = "dealloc"] /\ UNCHANGED refs
    BY <2>1, <2>2, <2>4
  <2>5. QED
    BY <1>3, <2>3, <2>4 DEF Reader_init
<1>4. ASSUME NEW t \in Threads, DropReader(t) PROVE OwnInv'
  <2>1. CASE Goto(t, "dealloc") /\ op' = [op EXCEPT ![t] = "dealloc"]
    BY <1>4, <2>1 DEF DropReader
  <2>2. CASE UNCHANGED <<pc, op>>
    BY <1>4, <2>2 DEF DropReader
  <2>3. QED
    BY <1>4, <2>1, <2>2 DEF DropReader
<1>5. ASSUME NEW t \in Threads, Reader_get(t) PROVE OwnInv'
  <2>1. CASE CallReader(t, "get", "rdlock")
    BY <1>5, <2>1 DEF Reader_get, CallReader, Call
  <2>2. CASE /\ pc[t] = "idle" /\ op' = [op EXCEPT ![t] = "get"]
             /\ UNCHANGED <<objVars, iterVars, locals, pc>>
    BY <2>2
  <2>3. QED
    BY <1>5, <2>1, <2>2 DEF Reader_get
<1>6. ASSUME NEW t \in Threads, Reader_metadata(t) PROVE OwnInv'
  BY <1>6 DEF Reader_metadata, CallReader, Call
<1>7. ASSUME NEW t \in Threads, Reader__enter__(t) PROVE OwnInv'
  BY <1>7 DEF Reader__enter__, CallReader, Call
<1>8. ASSUME NEW t \in Threads, Reader_iter(t) PROVE OwnInv'
  BY <1>8 DEF Reader_iter, CallReader, Call
<1>9. ASSUME NEW t \in Threads, Reader_close(t) PROVE OwnInv'
  BY <1>9 DEF Reader_close, CallReader, Call
<1>10. ASSUME NEW t \in Threads, Reader__exit__(t) PROVE OwnInv'
  BY <1>10 DEF Reader__exit__, CallReader, Call
<1>11. ASSUME NEW t \in Threads, ReadClosedMember(t) PROVE OwnInv'
  BY <1>11 DEF ReadClosedMember
<1>12. ASSUME NEW t \in Threads, reader_acquire_read_lock(t) PROVE OwnInv'
  BY <1>12 DEF reader_acquire_read_lock
<1>13. ASSUME NEW t \in Threads, read_lock_fails(t) PROVE OwnInv'
  BY <1>13 DEF read_lock_fails
<1>14. ASSUME NEW t \in Threads, reader_release_read_lock(t) PROVE OwnInv'
  BY <1>14 DEF reader_release_read_lock, AfterRead
<1>15. ASSUME NEW t \in Threads, reader_acquire_write_lock(t) PROVE OwnInv'
  BY <1>15 DEF reader_acquire_write_lock
<1>16. ASSUME NEW t \in Threads, write_lock_fails(t) PROVE OwnInv'
  BY <1>16 DEF write_lock_fails, Return
<1>17. ASSUME NEW t \in Threads, reader_release_write_lock(t) PROVE OwnInv'
  <2>1. pc[t] = "wrunlock" /\ UNCHANGED <<obj, refs, iter, iterRefs, on>>
    BY <1>17 DEF reader_release_write_lock
  <2>2. CASE op[t] = "dealloc"
    <3>1. Goto(t, "destroy") /\ UNCHANGED <<op, nested>>
      BY <1>17, <2>2 DEF reader_release_write_lock
    <3>2. QED
      BY <2>1, <2>2, <3>1
  <2>3. CASE op[t] # "dealloc" /\ ~nested[t]
    <3>1. /\ Goto(t, "idle") /\ op' = [op EXCEPT ![t] = op[t]]
          /\ nested' = [nested EXCEPT ![t] = FALSE]
      BY <1>17, <2>3 DEF reader_release_write_lock, Return
    <3>2. QED
      BY <2>1, <2>3, <3>1
  <2>4. CASE op[t] # "dealloc" /\ nested[t]
    <3>1. /\ Goto(t, "network") /\ op' = [op EXCEPT ![t] = "next"]
          /\ nested' = [nested EXCEPT ![t] = FALSE]
      BY <1>17, <2>4 DEF reader_release_write_lock, Return
    <3>2. QED
      BY <2>1, <2>4, <3>1
  <2>5. QED
    BY <2>2, <2>3, <2>4
<1>18. ASSUME NEW t \in Threads, Reader_dealloc(t) PROVE OwnInv'
  BY <1>18 DEF Reader_dealloc
<1>19. ASSUME NEW t \in Threads, reader_lock_destroy(t) PROVE OwnInv'
  BY <1>19 DEF reader_lock_destroy
<1>20. ASSUME NEW t \in Threads, close_unmap(t) PROVE OwnInv'
  BY <1>20 DEF close_unmap
<1>21. ASSUME NEW t \in Threads, close_clear(t) PROVE OwnInv'
  BY <1>21 DEF close_clear
<1>22. ASSUME NEW t \in Threads, check_closed(t) PROVE OwnInv'
  BY <1>22 DEF check_closed, SeesClosed
<1>23. ASSUME NEW t \in Threads, get_record(t) PROVE OwnInv'
  <2>1. CASE Goto(t, "decode") /\ UNCHANGED res
    BY <1>23, <2>1 DEF get_record
  <2>2. ASSUME NEW r \in {"lookup_error", "notfound"}, Goto(t, "rdunlock"), res' = [res EXCEPT ![t] = r] PROVE OwnInv'
    BY <1>23, <2>2 DEF get_record
  <2>3. QED
    BY <1>23, <2>1, <2>2 DEF get_record
<1>24. ASSUME NEW t \in Threads, get_entry_data_list(t) PROVE OwnInv'
  <2>1. CASE Goto(t, "convert") /\ UNCHANGED res
    BY <1>24, <2>1 DEF get_entry_data_list
  <2>2. CASE Goto(t, "rdunlock") /\ res' = [res EXCEPT ![t] = "InvalidDatabaseError"]
    BY <1>24, <2>2 DEF get_entry_data_list
  <2>3. QED
    BY <1>24, <2>1, <2>2 DEF get_entry_data_list
<1>25. ASSUME NEW t \in Threads, from_entry_data_list(t) PROVE OwnInv'
  <2>1. CASE Goto(t, "rdunlock") /\ res' = [res EXCEPT ![t] = "InvalidDatabaseError"]
    BY <1>25, <2>1 DEF from_entry_data_list
  <2>2. CASE op[t] = "next" /\ Goto(t, "network") /\ UNCHANGED res
    BY <1>25, <2>2 DEF from_entry_data_list
  <2>3. CASE op[t] # "next" /\ Goto(t, "rdunlock") /\ res' = [res EXCEPT ![t] = IF op[t] = "get" THEN "record" ELSE "metadata"]
    BY <1>25, <2>3 DEF from_entry_data_list
  <2>4. QED
    BY <1>25, <2>1, <2>2, <2>3 DEF from_entry_data_list
<1>26. ASSUME NEW t \in Threads, build_metadata(t) PROVE OwnInv'
  BY <1>26 DEF build_metadata
<1>27. ASSUME NEW t \in Threads, alloc_iterator(t) PROVE OwnInv'
  <2>1. /\ pc[t] = "alloc" /\ op[t] = "iter" /\ iter[t] = "none" /\ t \in refs /\ Goto(t, "idle")
        /\ UNCHANGED <<obj, refs, op, on, nested>>
    BY <1>27 DEF alloc_iterator
  <2>2. CASE UNCHANGED iterVars
    BY <2>1, <2>2
  <2>3. CASE /\ iter' = [iter EXCEPT ![t] = "live"]
             /\ iterRefs' = [iterRefs EXCEPT ![t] = IF ShareIterators THEN Threads ELSE {t}]
    <3>1. \A u \in Threads : /\ ~Destroying(u)
                             /\ Freeing(u) => on[u] # t
                             /\ (pc[u] # "idle" /\ op[u] = "next") \/ nested[u] => on[u] # t
      BY <2>1
    <3>2. obj = "live"
      BY <2>1
    <3>3. QED
      BY <2>1, <2>3, <3>1, <3>2
  <2>4. QED
    BY <1>27, <2>2, <2>3 DEF alloc_iterator
<1>28. ASSUME NEW t \in Threads, next_load(t) PROVE OwnInv'
  <2>1. CASE work[on[t]] = <<>>
    BY <1>28, <2>1 DEF next_load
  <2>2. CASE work[on[t]] # <<>>
    BY <1>28, <2>2 DEF next_load
  <2>3. QED
    BY <1>28, <2>1, <2>2 DEF next_load
<1>29. ASSUME NEW t \in Threads, next_store(t) PROVE OwnInv'
  <2>1. /\ pc[t] = "advance" /\ op[t] = "next"
        /\ UNCHANGED <<obj, refs, iter, iterRefs, op, on, nested>>
    BY <1>29 DEF next_store
  <2>2. Kind[cur[t]] \in RecordKinds
    BY <2>1, TreeAssumption
  <2>3. PICK step \in {"expand", "freeloop", "decode", "rdunlock"} : Goto(t, step)
    BY <1>29, <2>2 DEF next_store, RecordKinds
  <2>4. QED
    BY <2>1, <2>3
<1>30. ASSUME NEW t \in Threads, next_expand(t) PROVE OwnInv'
  <2>1. /\ pc[t] = "expand" /\ op[t] = "next"
        /\ UNCHANGED <<obj, refs, iter, iterRefs, op, on, nested>>
    BY <1>30 DEF next_expand
  <2>2. PICK step \in {"freeloop", "rdunlock"} : Goto(t, step)
    BY <1>30 DEF next_expand
  <2>3. QED
    BY <2>1, <2>2
<1>31. ASSUME NEW t \in Threads, next_free_loop(t) PROVE OwnInv'
  BY <1>31 DEF next_free_loop
<1>32. ASSUME NEW t \in Threads, call_ip_network(t) PROVE OwnInv'
  BY <1>32 DEF call_ip_network
<1>33. ASSUME NEW t \in Threads, next_free(t) PROVE OwnInv'
  BY <1>33 DEF next_free
<1>34. ASSUME NEW t \in Threads, free_records(t) PROVE OwnInv'
  <2>1. /\ pc[t] = "freerecs" /\ Freeing(t) /\ Goto(t, "idle")
        /\ iter' = [iter EXCEPT ![on[t]] = "none"] /\ on' = [on EXCEPT ![t] = NoThread]
        /\ UNCHANGED <<obj, refs, iterRefs, op, nested>>
    BY <1>34 DEF free_records
  <2>2. iter[on[t]] = "dying"
    BY <2>1
  <2>3. QED
    BY <2>1, <2>2
<1>35. ASSUME NEW t \in Threads, CloseInsideNext(t) PROVE OwnInv'
  BY <1>35 DEF CloseInsideNext
<1>36. ASSUME NEW t \in Threads, NEW i \in Threads, ReaderIter_next(t, i) PROVE OwnInv'
  BY <1>36 DEF ReaderIter_next, Call
<1>37. ASSUME NEW t \in Threads, NEW i \in Threads, ReaderIter_dealloc(t, i) PROVE OwnInv'
  <2>1. CASE UNCHANGED <<iter, pc, op, on>>
    BY <1>37, <2>1 DEF ReaderIter_dealloc
  <2>2. CASE op' = [op EXCEPT ![t] = "dealloc"]
    BY <1>37, <2>2 DEF ReaderIter_dealloc
  <2>3. QED
    BY <1>37, <2>1, <2>2 DEF ReaderIter_dealloc
<1>38. CASE UNCHANGED vars
  BY <1>38 DEF vars
<1>39. ASSUME NEW t \in Threads, StopTheWorld(t) PROVE OwnInv'
  BY <1>39 DEF StopTheWorld
<1>40. ASSUME NEW t \in Threads, StartTheWorld(t) PROVE OwnInv'
  BY <1>40 DEF StartTheWorld
<1>41. ASSUME NEW t \in Threads, close_flag(t) PROVE OwnInv'
  BY <1>41 DEF close_flag
<1>42. QED
  BY <1>1, <1>2, <1>3, <1>4, <1>5, <1>6, <1>7, <1>8, <1>9, <1>10, <1>11, <1>12, <1>13, <1>14, <1>15,
     <1>16, <1>17, <1>18, <1>19, <1>20, <1>21, <1>22, <1>23, <1>24, <1>25, <1>26, <1>27, <1>28, <1>29, <1>30,
     <1>31, <1>32, <1>33, <1>34, <1>35, <1>36, <1>37, <1>38, <1>39, <1>40, <1>41
  DEF Next, Request, Step, Finished

\* Every step keeps handle, flag and mapping in agreement.
LEMMA FlagStep == TypeOK /\ CallInv /\ OwnInv /\ FlagInv /\ [Next]_vars => FlagInv'
<1> SUFFICES ASSUME TypeOK, CallInv, OwnInv, FlagInv, [Next]_vars PROVE FlagInv'
  OBVIOUS
<1> USE DEF FlagInv, TypeOK, ObjectTypes, CallTypes,
        objVars, lockVars, interp, iterVars, locals, callVars, history, Running, At, Goto
<1>1. ASSUME NEW t \in Threads, TakeGil(t) PROVE FlagInv'
  BY <1>1 DEF TakeGil
<1>2. ASSUME NEW t \in Threads, Yield(t) PROVE FlagInv'
  BY <1>2 DEF Yield
<1>3. ASSUME NEW t \in Threads, Reader_init(t) PROVE FlagInv'
  <2>1. \A u \in Threads : pc[u] \notin WriteSteps \cup {"destroy"}
    BY <1>3 DEF Reader_init, OwnInv, CallInv, Destroying, WriteSteps
  <2>2. CASE obj' = "live"
    BY <1>3, <2>1, <2>2 DEF Reader_init, WriteSteps
  <2>3. CASE obj' = "failed"
    BY <1>3, <2>1, <2>3 DEF Reader_init, WriteSteps
  <2>4. QED
    BY <1>3, <2>2, <2>3 DEF Reader_init
<1>4. ASSUME NEW t \in Threads, DropReader(t) PROVE FlagInv'
  <2>1. CASE Goto(t, "dealloc") /\ op' = [op EXCEPT ![t] = "dealloc"]
    BY <1>4, <2>1 DEF DropReader
  <2>2. CASE UNCHANGED <<pc, op>>
    BY <1>4, <2>2 DEF DropReader
  <2>3. QED
    BY <1>4, <2>1, <2>2 DEF DropReader
<1>5. ASSUME NEW t \in Threads, Reader_get(t) PROVE FlagInv'
  <2>1. CASE CallReader(t, "get", "rdlock")
    BY <1>5, <2>1 DEF Reader_get, CallReader, Call
  <2>2. CASE ~CallReader(t, "get", "rdlock")
    BY <1>5, <2>2 DEF Reader_get, CallReader, Call
  <2>3. QED
    BY <1>5, <2>1, <2>2 DEF Reader_get
<1>6. ASSUME NEW t \in Threads, Reader_metadata(t) PROVE FlagInv'
  BY <1>6 DEF Reader_metadata, CallReader, Call
<1>7. ASSUME NEW t \in Threads, Reader__enter__(t) PROVE FlagInv'
  BY <1>7 DEF Reader__enter__, CallReader, Call
<1>8. ASSUME NEW t \in Threads, Reader_iter(t) PROVE FlagInv'
  BY <1>8 DEF Reader_iter, CallReader, Call
<1>9. ASSUME NEW t \in Threads, Reader_close(t) PROVE FlagInv'
  BY <1>9 DEF Reader_close, CallReader, Call
<1>10. ASSUME NEW t \in Threads, Reader__exit__(t) PROVE FlagInv'
  BY <1>10 DEF Reader__exit__, CallReader, Call
<1>11. ASSUME NEW t \in Threads, ReadClosedMember(t) PROVE FlagInv'
  BY <1>11 DEF ReadClosedMember
<1>12. ASSUME NEW t \in Threads, reader_acquire_read_lock(t) PROVE FlagInv'
  BY <1>12 DEF reader_acquire_read_lock
<1>13. ASSUME NEW t \in Threads, read_lock_fails(t) PROVE FlagInv'
  BY <1>13 DEF read_lock_fails
<1>14. ASSUME NEW t \in Threads, reader_release_read_lock(t) PROVE FlagInv'
  BY <1>14 DEF reader_release_read_lock, AfterRead
<1>15. ASSUME NEW t \in Threads, reader_acquire_write_lock(t) PROVE FlagInv'
  BY <1>15 DEF reader_acquire_write_lock
<1>16. ASSUME NEW t \in Threads, write_lock_fails(t) PROVE FlagInv'
  BY <1>16 DEF write_lock_fails, Return
<1>17. ASSUME NEW t \in Threads, reader_release_write_lock(t) PROVE FlagInv'
  <2>1. CASE op[t] = "dealloc"
    BY <1>17, <2>1 DEF reader_release_write_lock, Return
  <2>2. CASE op[t] # "dealloc"
    BY <1>17, <2>2 DEF reader_release_write_lock, Return
  <2>3. QED
    BY <1>17, <2>1, <2>2 DEF reader_release_write_lock
<1>18. ASSUME NEW t \in Threads, Reader_dealloc(t) PROVE FlagInv'
  BY <1>18 DEF Reader_dealloc
<1>19. ASSUME NEW t \in Threads, reader_lock_destroy(t) PROVE FlagInv'
  BY <1>19 DEF reader_lock_destroy
<1>20. ASSUME NEW t \in Threads, close_unmap(t) PROVE FlagInv'
  BY <1>20 DEF close_unmap
<1>21. ASSUME NEW t \in Threads, close_clear(t) PROVE FlagInv'
  <2>1. obj # "new"
    BY <1>21 DEF close_clear, OwnInv, CallInv, Destroying, WriteSteps
  <2>2. QED
    BY <1>21, <2>1 DEF close_clear
<1>22. ASSUME NEW t \in Threads, check_closed(t) PROVE FlagInv'
  <2>1. PICK step \in {"lookup", "decode", "rdunlock", "pop"} : Goto(t, step)
    BY <1>22 DEF check_closed, CallInv, ReadSteps, MappedSteps, ReadOps
  <2>2. QED
    BY <1>22, <2>1 DEF check_closed
<1>23. ASSUME NEW t \in Threads, get_record(t) PROVE FlagInv'
  <2>1. CASE Goto(t, "decode") /\ UNCHANGED res
    BY <1>23, <2>1 DEF get_record
  <2>2. ASSUME NEW r \in {"lookup_error", "notfound"}, Goto(t, "rdunlock"), res' = [res EXCEPT ![t] = r] PROVE FlagInv'
    BY <1>23, <2>2 DEF get_record
  <2>3. QED
    BY <1>23, <2>1, <2>2 DEF get_record
<1>24. ASSUME NEW t \in Threads, get_entry_data_list(t) PROVE FlagInv'
  <2>1. CASE Goto(t, "convert") /\ UNCHANGED res
    BY <1>24, <2>1 DEF get_entry_data_list
  <2>2. CASE Goto(t, "rdunlock") /\ res' = [res EXCEPT ![t] = "InvalidDatabaseError"]
    BY <1>24, <2>2 DEF get_entry_data_list
  <2>3. QED
    BY <1>24, <2>1, <2>2 DEF get_entry_data_list
<1>25. ASSUME NEW t \in Threads, from_entry_data_list(t) PROVE FlagInv'
  <2>1. CASE Goto(t, "rdunlock") /\ res' = [res EXCEPT ![t] = "InvalidDatabaseError"]
    BY <1>25, <2>1 DEF from_entry_data_list
  <2>2. CASE op[t] = "next" /\ Goto(t, "network") /\ UNCHANGED res
    BY <1>25, <2>2 DEF from_entry_data_list
  <2>3. CASE op[t] # "next" /\ Goto(t, "rdunlock") /\ res' = [res EXCEPT ![t] = IF op[t] = "get" THEN "record" ELSE "metadata"]
    BY <1>25, <2>3 DEF from_entry_data_list
  <2>4. QED
    BY <1>25, <2>1, <2>2, <2>3 DEF from_entry_data_list
<1>26. ASSUME NEW t \in Threads, build_metadata(t) PROVE FlagInv'
  BY <1>26 DEF build_metadata
<1>27. ASSUME NEW t \in Threads, alloc_iterator(t) PROVE FlagInv'
  <2>1. CASE UNCHANGED res
    BY <1>27, <2>1 DEF alloc_iterator
  <2>2. CASE UNCHANGED iterVars
    BY <1>27, <2>2 DEF alloc_iterator
  <2>3. QED
    BY <1>27, <2>1, <2>2 DEF alloc_iterator
<1>28. ASSUME NEW t \in Threads, next_load(t) PROVE FlagInv'
  <2>1. CASE work[on[t]] = <<>>
    BY <1>28, <2>1 DEF next_load
  <2>2. CASE work[on[t]] # <<>>
    BY <1>28, <2>2 DEF next_load
  <2>3. QED
    BY <1>28, <2>1, <2>2 DEF next_load
<1>29. ASSUME NEW t \in Threads, next_store(t) PROVE FlagInv'
  <2>1. Kind[cur[t]] \in RecordKinds
    BY <1>29, TreeAssumption DEF next_store, CallInv
  <2>2. PICK step \in {"expand", "freeloop", "decode", "rdunlock"} : Goto(t, step)
    BY <1>29, <2>1 DEF next_store, RecordKinds
  <2>3. QED
    BY <1>29, <2>2 DEF next_store
<1>30. ASSUME NEW t \in Threads, next_expand(t) PROVE FlagInv'
  <2>1. CASE Goto(t, "freeloop") /\ UNCHANGED <<iterVars, res>>
    BY <1>30, <2>1 DEF next_expand
  <2>2. CASE work' = [work EXCEPT ![on[t]] = Children[cur[t]] \o @]
    BY <1>30, <2>2 DEF next_expand
  <2>3. CASE Goto(t, "rdunlock")
    BY <1>30, <2>3 DEF next_expand
  <2>4. QED
    BY <1>30, <2>1, <2>2, <2>3 DEF next_expand
<1>31. ASSUME NEW t \in Threads, next_free_loop(t) PROVE FlagInv'
  BY <1>31 DEF next_free_loop
<1>32. ASSUME NEW t \in Threads, call_ip_network(t) PROVE FlagInv'
  BY <1>32 DEF call_ip_network
<1>33. ASSUME NEW t \in Threads, next_free(t) PROVE FlagInv'
  BY <1>33 DEF next_free
<1>34. ASSUME NEW t \in Threads, free_records(t) PROVE FlagInv'
  BY <1>34 DEF free_records
<1>35. ASSUME NEW t \in Threads, CloseInsideNext(t) PROVE FlagInv'
  BY <1>35 DEF CloseInsideNext
<1>36. ASSUME NEW t \in Threads, NEW i \in Threads, ReaderIter_next(t, i) PROVE FlagInv'
  BY <1>36 DEF ReaderIter_next, Call
<1>37. ASSUME NEW t \in Threads, NEW i \in Threads, ReaderIter_dealloc(t, i) PROVE FlagInv'
  <2>1. CASE UNCHANGED <<iter, pc, op, on>>
    BY <1>37, <2>1 DEF ReaderIter_dealloc
  <2>2. CASE op' = [op EXCEPT ![t] = "dealloc"]
    BY <1>37, <2>2 DEF ReaderIter_dealloc
  <2>3. QED
    BY <1>37, <2>1, <2>2 DEF ReaderIter_dealloc
<1>38. CASE UNCHANGED vars
  BY <1>38 DEF vars
<1>39. ASSUME NEW t \in Threads, StopTheWorld(t) PROVE FlagInv'
  BY <1>39 DEF StopTheWorld
<1>40. ASSUME NEW t \in Threads, StartTheWorld(t) PROVE FlagInv'
  BY <1>40 DEF StartTheWorld
<1>41. ASSUME NEW t \in Threads, close_flag(t) PROVE FlagInv'
  <2>1. obj # "new"
    BY <1>41 DEF close_flag, OwnInv, CallInv, Destroying, WriteSteps
  <2>2. QED
    BY <1>41, <2>1 DEF close_flag
<1>42. QED
  BY <1>1, <1>2, <1>3, <1>4, <1>5, <1>6, <1>7, <1>8, <1>9, <1>10, <1>11, <1>12, <1>13, <1>14, <1>15,
     <1>16, <1>17, <1>18, <1>19, <1>20, <1>21, <1>22, <1>23, <1>24, <1>25, <1>26, <1>27, <1>28, <1>29, <1>30,
     <1>31, <1>32, <1>33, <1>34, <1>35, <1>36, <1>37, <1>38, <1>39, <1>40, <1>41
  DEF Next, Request, Step, Finished

\* A call inherits closeSeen, begins with no result and has read nothing.
LEMMA LateCall ==
  ASSUME TypeOK, CallInv, LateInv, NEW t \in Threads, NEW o \in Ops,
         NEW step, step = "rdlock" \/ (step = "wrlock" /\ o \notin ReadOps),
         Call(t, o, step), nested' = nested
  PROVE  LateInv'
<1>1. ~nested[t]
  BY DEF Call, At, CallInv, WriteSteps
<1>2. /\ closed' = closed /\ closeSeen' = closeSeen
      /\ (late'[t] <=> closeSeen) /\ op'[t] = o /\ pc'[t] = step /\ res'[t] = "nothing"
  BY DEF Call, Goto, objVars, TypeOK, CallTypes, HistoryTypes
<1>3. \A u \in Threads \ {t} :
        (late'[u] <=> late[u]) /\ op'[u] = op[u] /\ pc'[u] = pc[u] /\ res'[u] = res[u]
  BY DEF Call, Goto, TypeOK, CallTypes, HistoryTypes
<1>4. ASSUME NEW u \in Threads, late'[u]
      PROVE  /\ closed' = "True" /\ ~nested'[u]
             /\ op'[u] \in ReadOps =>
                  /\ res'[u] \notin Successes
                  /\ pc'[u] \in {"idle", "rdlock", "check", "rdunlock", "free"}
  <2>1. CASE u = t
    <3>1. step = "wrlock" => o \notin ReadOps
      OBVIOUS
    <3>2. QED
      BY <1>1, <1>2, <1>4, <2>1, <3>1 DEF LateInv, Successes
  <2>2. CASE u # t
    BY <1>2, <1>3, <1>4, <2>2 DEF LateInv
  <2>3. QED
    BY <2>1, <2>2
<1>5. QED
  BY <1>2, <1>4 DEF LateInv

\* Every step keeps a late call away from the database.
LEMMA LateStep == TypeOK /\ CallInv /\ OwnInv /\ FlagInv /\ LateInv /\ [Next]_vars => LateInv'
<1> SUFFICES ASSUME TypeOK, CallInv, OwnInv, FlagInv, LateInv, [Next]_vars PROVE LateInv'
  OBVIOUS
<1> USE DEF LateInv, FlagInv, CallInv, TypeOK, ObjectTypes, CallTypes, LocalTypes, HistoryTypes,
        objVars, lockVars, interp, iterVars, locals, callVars, history,
        MappedSteps, ReadSteps, WriteSteps, ReadOps, Successes, Running, At, Goto
<1>1. ASSUME NEW t \in Threads, TakeGil(t) PROVE LateInv'
  BY <1>1 DEF TakeGil
<1>2. ASSUME NEW t \in Threads, Yield(t) PROVE LateInv'
  BY <1>2 DEF Yield
<1>3. ASSUME NEW t \in Threads, Reader_init(t) PROVE LateInv'
  <2>1. CASE obj' = "live"
    BY <1>3, <2>1 DEF Reader_init
  <2>2. CASE obj' = "failed"
    BY <1>3, <2>2 DEF Reader_init
  <2>3. QED
    BY <1>3, <2>1, <2>2 DEF Reader_init
<1>4. ASSUME NEW t \in Threads, DropReader(t) PROVE LateInv'
  <2>1. CASE Goto(t, "dealloc") /\ op' = [op EXCEPT ![t] = "dealloc"]
    BY <1>4, <2>1 DEF DropReader
  <2>2. CASE UNCHANGED <<pc, op>>
    BY <1>4, <2>2 DEF DropReader
  <2>3. QED
    BY <1>4, <2>1, <2>2 DEF DropReader
<1>5. ASSUME NEW t \in Threads, Reader_get(t) PROVE LateInv'
  <2>1. CASE CallReader(t, "get", "rdlock")
    BY <2>1, LateCall DEF CallReader, Ops
  <2>2. CASE /\ pc[t] = "idle" /\ op' = [op EXCEPT ![t] = "get"]
             /\ res' = [res EXCEPT ![t] = "bad_argument"] /\ late' = [late EXCEPT ![t] = closeSeen]
             /\ UNCHANGED <<objVars, locals, pc, closeSeen>>
    <3>1. ~nested[t]
      BY <2>2
    <3>2. QED
      BY <2>2, <3>1
  <2>3. QED
    BY <1>5, <2>1, <2>2 DEF Reader_get
<1>6. ASSUME NEW t \in Threads, Reader_metadata(t) PROVE LateInv'
  BY <1>6, LateCall DEF Reader_metadata, CallReader, Ops, ReadOps
<1>7. ASSUME NEW t \in Threads, Reader__enter__(t) PROVE LateInv'
  BY <1>7, LateCall DEF Reader__enter__, CallReader, Ops, ReadOps
<1>8. ASSUME NEW t \in Threads, Reader_iter(t) PROVE LateInv'
  BY <1>8, LateCall DEF Reader_iter, CallReader, Ops, ReadOps
<1>9. ASSUME NEW t \in Threads, Reader_close(t) PROVE LateInv'
  BY <1>9, LateCall DEF Reader_close, CallReader, Ops, ReadOps
<1>10. ASSUME NEW t \in Threads, Reader__exit__(t) PROVE LateInv'
  BY <1>10, LateCall DEF Reader__exit__, CallReader, Ops, ReadOps
<1>11. ASSUME NEW t \in Threads, ReadClosedMember(t) PROVE LateInv'
  BY <1>11 DEF ReadClosedMember
<1>12. ASSUME NEW t \in Threads, reader_acquire_read_lock(t) PROVE LateInv'
  BY <1>12 DEF reader_acquire_read_lock
<1>13. ASSUME NEW t \in Threads, read_lock_fails(t) PROVE LateInv'
  BY <1>13 DEF read_lock_fails
<1>14. ASSUME NEW t \in Threads, reader_release_read_lock(t) PROVE LateInv'
  BY <1>14 DEF reader_release_read_lock, AfterRead
<1>15. ASSUME NEW t \in Threads, reader_acquire_write_lock(t) PROVE LateInv'
  BY <1>15 DEF reader_acquire_write_lock
<1>16. ASSUME NEW t \in Threads, write_lock_fails(t) PROVE LateInv'
  BY <1>16 DEF write_lock_fails, Return
<1>17. ASSUME NEW t \in Threads, reader_release_write_lock(t) PROVE LateInv'
  <2>1. pc[t] = "wrunlock" /\ closed = "True" /\ UNCHANGED <<closed, late>>
    BY <1>17 DEF reader_release_write_lock
  <2>2. CASE op[t] = "dealloc"
    <3>1. Goto(t, "destroy") /\ UNCHANGED <<op, res, nested, closeSeen>>
      BY <1>17, <2>2 DEF reader_release_write_lock
    <3>2. QED
      BY <2>1, <2>2, <3>1
  <2>3. CASE op[t] # "dealloc"
    <3>1. /\ res' = [res EXCEPT ![t] = "done"] /\ Return(t)
      BY <1>17, <2>3 DEF reader_release_write_lock
    <3>2. ~nested'[t] /\ (~nested[t] => op'[t] = op[t] /\ pc'[t] = "idle")
      BY <3>1 DEF Return
    <3>3. \A u \in Threads \ {t} :
            (nested'[u] <=> nested[u]) /\ op'[u] = op[u] /\ pc'[u] = pc[u] /\ res'[u] = res[u]
      BY <3>1 DEF Return
    <3>4. res'[t] = "done"
      BY <3>1
    <3>5. QED
      BY <2>1, <3>2, <3>3, <3>4
  <2>4. QED
    BY <2>2, <2>3
<1>18. ASSUME NEW t \in Threads, Reader_dealloc(t) PROVE LateInv'
  BY <1>18 DEF Reader_dealloc
<1>19. ASSUME NEW t \in Threads, reader_lock_destroy(t) PROVE LateInv'
  BY <1>19 DEF reader_lock_destroy
<1>20. ASSUME NEW t \in Threads, close_unmap(t) PROVE LateInv'
  BY <1>20 DEF close_unmap
<1>21. ASSUME NEW t \in Threads, close_clear(t) PROVE LateInv'
  BY <1>21 DEF close_clear
<1>22. ASSUME NEW t \in Threads, check_closed(t) PROVE LateInv'
  BY <1>22 DEF check_closed, SeesClosed
<1>23. ASSUME NEW t \in Threads, get_record(t) PROVE LateInv'
  <2>1. CASE Goto(t, "decode") /\ UNCHANGED res
    BY <1>23, <2>1 DEF get_record
  <2>2. ASSUME NEW r \in {"lookup_error", "notfound"}, Goto(t, "rdunlock"), res' = [res EXCEPT ![t] = r] PROVE LateInv'
    BY <1>23, <2>2 DEF get_record
  <2>3. QED
    BY <1>23, <2>1, <2>2 DEF get_record
<1>24. ASSUME NEW t \in Threads, get_entry_data_list(t) PROVE LateInv'
  <2>1. CASE Goto(t, "convert") /\ UNCHANGED res
    BY <1>24, <2>1 DEF get_entry_data_list
  <2>2. CASE Goto(t, "rdunlock") /\ res' = [res EXCEPT ![t] = "InvalidDatabaseError"]
    BY <1>24, <2>2 DEF get_entry_data_list
  <2>3. QED
    BY <1>24, <2>1, <2>2 DEF get_entry_data_list
<1>25. ASSUME NEW t \in Threads, from_entry_data_list(t) PROVE LateInv'
  <2>1. CASE Goto(t, "rdunlock") /\ res' = [res EXCEPT ![t] = "InvalidDatabaseError"]
    BY <1>25, <2>1 DEF from_entry_data_list
  <2>2. CASE op[t] = "next" /\ Goto(t, "network") /\ UNCHANGED res
    BY <1>25, <2>2 DEF from_entry_data_list
  <2>3. CASE op[t] # "next" /\ Goto(t, "rdunlock") /\ res' = [res EXCEPT ![t] = IF op[t] = "get" THEN "record" ELSE "metadata"]
    BY <1>25, <2>3 DEF from_entry_data_list
  <2>4. QED
    BY <1>25, <2>1, <2>2, <2>3 DEF from_entry_data_list
<1>26. ASSUME NEW t \in Threads, build_metadata(t) PROVE LateInv'
  BY <1>26 DEF build_metadata
<1>27. ASSUME NEW t \in Threads, alloc_iterator(t) PROVE LateInv'
  <2>1. CASE UNCHANGED res
    BY <1>27, <2>1 DEF alloc_iterator
  <2>2. CASE UNCHANGED iterVars
    BY <1>27, <2>2 DEF alloc_iterator
  <2>3. QED
    BY <1>27, <2>1, <2>2 DEF alloc_iterator
<1>28. ASSUME NEW t \in Threads, next_load(t) PROVE LateInv'
  <2>1. ~late[t] /\ UNCHANGED <<closed, closeSeen, late, op, nested>>
    BY <1>28 DEF next_load
  <2>2. /\ \A u \in Threads \ {t} : pc'[u] = pc[u] /\ res'[u] = res[u]
    BY <1>28 DEF next_load
  <2>3. QED
    BY <2>1, <2>2
<1>29. ASSUME NEW t \in Threads, next_store(t) PROVE LateInv'
  BY <1>29 DEF next_store
<1>30. ASSUME NEW t \in Threads, next_expand(t) PROVE LateInv'
  <2>1. ~late[t] /\ UNCHANGED <<closed, closeSeen, late, op, nested>>
    BY <1>30 DEF next_expand
  <2>2. /\ \A u \in Threads \ {t} : pc'[u] = pc[u] /\ res'[u] = res[u]
    BY <1>30 DEF next_expand
  <2>3. QED
    BY <2>1, <2>2
<1>31. ASSUME NEW t \in Threads, next_free_loop(t) PROVE LateInv'
  BY <1>31 DEF next_free_loop
<1>32. ASSUME NEW t \in Threads, call_ip_network(t) PROVE LateInv'
  BY <1>32 DEF call_ip_network
<1>33. ASSUME NEW t \in Threads, next_free(t) PROVE LateInv'
  BY <1>33 DEF next_free
<1>34. ASSUME NEW t \in Threads, free_records(t) PROVE LateInv'
  BY <1>34 DEF free_records
<1>35. ASSUME NEW t \in Threads, CloseInsideNext(t) PROVE LateInv'
  BY <1>35 DEF CloseInsideNext
<1>36. ASSUME NEW t \in Threads, NEW i \in Threads, ReaderIter_next(t, i) PROVE LateInv'
  BY <1>36, LateCall DEF ReaderIter_next, Ops
<1>37. ASSUME NEW t \in Threads, NEW i \in Threads, ReaderIter_dealloc(t, i) PROVE LateInv'
  <2>1. CASE UNCHANGED <<iter, pc, op, on>>
    BY <1>37, <2>1 DEF ReaderIter_dealloc
  <2>2. CASE op' = [op EXCEPT ![t] = "dealloc"]
    BY <1>37, <2>2 DEF ReaderIter_dealloc
  <2>3. QED
    BY <1>37, <2>1, <2>2 DEF ReaderIter_dealloc
<1>38. CASE UNCHANGED vars
  BY <1>38 DEF vars
<1>39. ASSUME NEW t \in Threads, StopTheWorld(t) PROVE LateInv'
  BY <1>39 DEF StopTheWorld
<1>40. ASSUME NEW t \in Threads, StartTheWorld(t) PROVE LateInv'
  BY <1>40 DEF StartTheWorld
<1>41. ASSUME NEW t \in Threads, close_flag(t) PROVE LateInv'
  BY <1>41 DEF close_flag
<1>42. QED
  BY <1>1, <1>2, <1>3, <1>4, <1>5, <1>6, <1>7, <1>8, <1>9, <1>10, <1>11, <1>12, <1>13, <1>14, <1>15,
     <1>16, <1>17, <1>18, <1>19, <1>20, <1>21, <1>22, <1>23, <1>24, <1>25, <1>26, <1>27, <1>28, <1>29, <1>30,
     <1>31, <1>32, <1>33, <1>34, <1>35, <1>36, <1>37, <1>38, <1>39, <1>40, <1>41
  DEF Next, Request, Step, Finished

\* The inductive invariant of this module; no assumption about the build.
OwnershipInv == TypeOK /\ CallInv /\ LockInv /\ OwnInv /\ FlagInv /\ LateInv

\* The ownership invariant holds in every build.
THEOREM OwnershipInvariance == Spec => []OwnershipInv
<1>1. Init => OwnershipInv
  <2> SUFFICES ASSUME Init PROVE OwnershipInv
    OBVIOUS
  <2>1. TypeOK /\ CallInv /\ LockInv
    BY InitInv DEF IndInv
  <2>2. OwnInv
    BY DEF Init, OwnInv, Destroying, Freeing, WriteSteps
  <2>3. FlagInv /\ LateInv
    BY DEF Init, FlagInv, LateInv
  <2>4. QED
    BY <2>1, <2>2, <2>3 DEF OwnershipInv
<1>2. OwnershipInv /\ [Next]_vars => OwnershipInv'
  BY TypeStep, CallStep, LockStep, OwnStep, FlagStep, LateStep DEF OwnershipInv
<1>3. QED
  BY <1>1, <1>2, PTL DEF Spec

\* The Reader_obj is alive as long as a method runs on it or an iterator of it
\* is alive, whatever order references are dropped in.
THEOREM AliveWhileUsedSafety == Spec => []AliveWhileUsed
<1>1. OwnershipInv => AliveWhileUsed
  <2> SUFFICES ASSUME OwnershipInv, NEW t \in Threads
               PROVE  /\ pc[t] # "idle" /\ op[t] \in Ops \ {"dealloc"} => obj = "live"
                      /\ iter[t] = "live" => obj = "live"
    BY DEF AliveWhileUsed
  <2>1. iter[t] = "live" => obj = "live"
    BY DEF OwnershipInv, OwnInv
  <2>2. ASSUME pc[t] # "idle", op[t] \in Ops \ {"dealloc"} PROVE obj = "live"
    <3>1. CASE op[t] = "next" \/ nested[t]
      <4>1. on[t] \in Threads /\ iter[on[t]] = "live"
        BY <2>2, <3>1 DEF OwnershipInv, OwnInv, CallInv
      <4>2. QED
        BY <4>1 DEF OwnershipInv, OwnInv
    <3>2. CASE op[t] # "next" /\ ~nested[t]
      BY <2>2, <3>2 DEF OwnershipInv, OwnInv
    <3>3. QED
      BY <3>1, <3>2
  <2>3. QED
    BY <2>1, <2>2
<1>2. QED
  BY <1>1, OwnershipInvariance, PTL

\* Every path through a method unlocks what it locked, and the lock is free
\* when reader_lock_destroy runs: whoever could hold it has a reference.
THEOREM LockBalancedSafety == Spec => []LockBalanced
<1>1. OwnershipInv => LockBalanced
  <2> SUFFICES ASSUME OwnershipInv, ~UseGil, NEW t \in Threads
               PROVE  /\ pc[t] = "rdunlock" => t \in readers
                      /\ pc[t] = "wrunlock" => t \in writer
                      /\ pc[t] = "idle" => t \notin readers \cup writer
                      /\ pc[t] = "destroy" => readers = {} /\ writer = {}
    BY DEF LockBalanced
  <2>1. /\ pc[t] = "rdunlock" => t \in readers
        /\ pc[t] = "wrunlock" => t \in writer
        /\ pc[t] = "idle" => t \notin readers \cup writer
    BY DEF OwnershipInv, LockInv, CallInv, ReadSteps, MappedSteps, WriteSteps
  <2>2. ASSUME pc[t] = "destroy", NEW u \in Threads PROVE u \notin readers \cup writer
    <3>1. Destroying(t)
      BY <2>2 DEF Destroying
    <3>2. /\ refs = {} /\ \A i \in Threads : iter[i] # "live"
          /\ Destroying(u) => u = t
      BY <3>1 DEF OwnershipInv, OwnInv
    <3>3. ~nested[u] /\ (pc[u] # "idle" => op[u] = "dealloc")
      BY <3>2 DEF OwnershipInv, OwnInv, CallInv
    <3>4. pc[u] \notin ReadSteps
      BY <3>3 DEF OwnershipInv, CallInv, ReadSteps, MappedSteps, ReadOps
    <3>5. pc[u] \notin WriteSteps
      BY <2>2, <3>2, <3>3 DEF Destroying, WriteSteps
    <3>6. QED
      BY <3>3, <3>4, <3>5 DEF OwnershipInv, LockInv
  <2>3. readers \subseteq Threads /\ writer \subseteq Threads
    BY DEF OwnershipInv, TypeOK, ObjectTypes
  <2>4. QED
    BY <2>1, <2>2, <2>3
<1>2. QED
  BY <1>1, OwnershipInvariance, PTL

\* A call that begins after close() has returned, or after the attribute closed
\* was seen True, fails in every build.
THEOREM ReadsAfterCloseFailSafety == Spec => []ReadsAfterCloseFail
<1>1. OwnershipInv => ReadsAfterCloseFail
  BY DEF OwnershipInv, LateInv, ReadsAfterCloseFail
<1>2. QED
  BY <1>1, OwnershipInvariance, PTL

=============================================================================
