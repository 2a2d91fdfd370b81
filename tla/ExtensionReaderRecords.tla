----------------------- MODULE ExtensionReaderRecords -----------------------
(***************************************************************************)
(* The records that iterators calloc: each is freed once and none is lost. *)
(* The inductive invariant of ExtensionReaderProofs is extended by         *)
(*                                                                         *)
(*   UserInv      what a ReaderIter_next may hold in cur, rest and left,   *)
(*   RecInv       the parts of the tree that the records in an iterator's  *)
(*                list and in its users' hands still stand for are         *)
(*                pairwise disjoint.                                       *)
(*                                                                         *)
(* The second is about the whole subtrees, because next_expand must not    *)
(* put a record on the list that is there already; it needs the search     *)
(* tree to be a tree (IsTree).  Both need the list to have one user at a   *)
(* time, which the GIL gives, and otherwise an iterator that is not        *)
(* shared: reader_acquire_read_lock admits two readers.                    *)
(***************************************************************************)
EXTENDS ExtensionReaderProofs

\* The list of an iterator that is gone is empty; cur is a record only inside
\* ReaderIter_next; and between cur = ri->next and ri->next = cur->next nobody
\* else touches the list.
UserInv ==
  /\ ~ShareIterators => \A i \in Threads : iterRefs[i] \subseteq {i}
  /\ \A i \in Threads : iter[i] = "none" => work[i] = <<>>
  /\ \A t \in Threads :
       /\ cur[t] # NoRecord =>
            \/ nested[t]
            \/ op[t] = "next" /\ pc[t] \notin {"idle", "rdlock", "check"}
       /\ left[t] # NoRecord =>
            cur[t] # NoRecord /\ op[t] = "next" /\ pc[t] \in {"rdunlock", "free"}
       /\ pc[t] = "advance" =>
            /\ work[on[t]] # <<>>
            /\ cur[t] = Head(work[on[t]]) /\ rest[t] = Tail(work[on[t]])

\* Two threads do not work on the list of the same iterator.
LEMMA OneUser ==
  ASSUME UseGil \/ ~ShareIterators, TypeOK, CallInv, GilInv, OwnInv, UserInv,
         NEW t \in Threads, NEW u \in Threads, u # t,
         pc[t] = "advance", op[u] = "next", pc[u] # "idle", Running(u)
  PROVE  on[u] # on[t]
<1>1. CASE UseGil
  BY <1>1 DEF GilInv, YieldPoints, Running
<1>2. CASE ~ShareIterators
  <2>1. on[t] \in Threads /\ on[u] \in Threads /\ op[t] = "next"
    BY DEF CallInv
  <2>2. t \in iterRefs[on[t]] /\ u \in iterRefs[on[u]]
    BY <2>1 DEF OwnInv
  <2>3. QED
    BY <1>2, <2>1, <2>2 DEF UserInv
<1>3. QED
  BY <1>1, <1>2

\* Every step keeps the hands and the list of a user in agreement.
LEMMA UserStep ==
  (UseGil \/ ~ShareIterators) /\ TypeOK /\ CallInv /\ GilInv /\ OwnInv /\ UserInv /\ [Next]_vars
    => UserInv'
<1> SUFFICES ASSUME UseGil \/ ~ShareIterators, TypeOK, CallInv, GilInv, OwnInv, UserInv, [Next]_vars
             PROVE  UserInv'
  OBVIOUS
<1> \A u \in Threads : (pc[u] = "build" => op[u] = "metadata") /\ (pc[u] = "alloc" => op[u] = "iter")
  BY DEF OwnInv
<1> USE ThreadsAssumption
    DEF UserInv, TypeOK, IteratorTypes, CallTypes, LocalTypes, CallInv,
        objVars, lockVars, interp, iterVars, locals, callVars, history,
        MappedSteps, ReadSteps, WriteSteps, ReadOps, At, Goto
<1>1. ASSUME NEW t \in Threads, TakeGil(t) PROVE UserInv'
  BY <1>1 DEF TakeGil
<1>2. ASSUME NEW t \in Threads, Yield(t) PROVE UserInv'
  BY <1>2 DEF Yield
<1>3. ASSUME NEW t \in Threads, Reader_init(t) PROVE UserInv'
  <2>1. CASE obj' = "live"
    BY <1>3, <2>1 DEF Reader_init
  <2>2. CASE obj' = "failed"
    BY <1>3, <2>2 DEF Reader_init
  <2>3. QED
    BY <1>3, <2>1, <2>2 DEF Reader_init
<1>4. ASSUME NEW t \in Threads, DropReader(t) PROVE UserInv'
  <2>1. CASE Goto(t, "dealloc") /\ op' = [op EXCEPT ![t] = "dealloc"]
    BY <1>4, <2>1 DEF DropReader
  <2>2. CASE UNCHANGED <<pc, op>>
    BY <1>4, <2>2 DEF DropReader
  <2>3. QED
    BY <1>4, <2>1, <2>2 DEF DropReader
<1>5. ASSUME NEW t \in Threads, Reader_get(t) PROVE UserInv'
  <2>1. CASE CallReader(t, "get", "rdlock")
    BY <1>5, <2>1 DEF Reader_get, CallReader, Call
  <2>2. CASE /\ pc[t] = "idle" /\ op' = [op EXCEPT ![t] = "get"]
             /\ UNCHANGED <<iterVars, locals, pc>>
    BY <2>2
  <2>3. QED
    BY <1>5, <2>1, <2>2 DEF Reader_get
<1>6. ASSUME NEW t \in Threads, Reader_metadata(t) PROVE UserInv'
  BY <1>6 DEF Reader_metadata, CallReader, Call
<1>7. ASSUME NEW t \in Threads, Reader__enter__(t) PROVE UserInv'
  BY <1>7 DEF Reader__enter__, CallReader, Call
<1>8. ASSUME NEW t \in Threads, Reader_iter(t) PROVE UserInv'
  BY <1>8 DEF Reader_iter, CallReader, Call
<1>9. ASSUME NEW t \in Threads, Reader_close(t) PROVE UserInv'
  BY <1>9 DEF Reader_close, CallReader, Call
<1>10. ASSUME NEW t \in Threads, Reader__exit__(t) PROVE UserInv'
  BY <1>10 DEF Reader__exit__, CallReader, Call
<1>11. ASSUME NEW t \in Threads, ReadClosedMember(t) PROVE UserInv'
  BY <1>11 DEF ReadClosedMember
<1>12. ASSUME NEW t \in Threads, reader_acquire_read_lock(t) PROVE UserInv'
  BY <1>12 DEF reader_acquire_read_lock
<1>13. ASSUME NEW t \in Threads, read_lock_fails(t) PROVE UserInv'
  BY <1>13 DEF read_lock_fails
<1>14. ASSUME NEW t \in Threads, reader_release_read_lock(t) PROVE UserInv'
  BY <1>14 DEF reader_release_read_lock, AfterRead
<1>15. ASSUME NEW t \in Threads, reader_acquire_write_lock(t) PROVE UserInv'
  BY <1>15 DEF reader_acquire_write_lock
<1>16. ASSUME NEW t \in Threads, write_lock_fails(t) PROVE UserInv'
  BY <1>16 DEF write_lock_fails, Return
<1>17. ASSUME NEW t \in Threads, reader_release_write_lock(t) PROVE UserInv'
  <2>1. UNCHANGED <<iterVars, on, cur, rest, left>> /\ pc[t] = "wrunlock"
    BY <1>17 DEF reader_release_write_lock
  <2>2. CASE op[t] = "dealloc"
    BY <1>17, <2>2 DEF reader_release_write_lock
  <2>3. CASE op[t] # "dealloc" /\ nested[t]
    <3>1. /\ Goto(t, "network") /\ op' = [op EXCEPT ![t] = "next"]
          /\ nested' = [nested EXCEPT ![t] = FALSE]
      BY <1>17, <2>3 DEF reader_release_write_lock, Return
    <3>2. QED
      BY <2>1, <2>3, <3>1
  <2>4. CASE op[t] # "dealloc" /\ ~nested[t]
    <3>1. /\ Goto(t, "idle")
          /\ \A u \in Threads : op'[u] = op[u] /\ (nested'[u] <=> nested[u])
      BY <1>17, <2>4 DEF reader_release_write_lock, Return
    <3>2. cur[t] = NoRecord
      BY <2>1, <2>4
    <3>3. QED
      BY <2>1, <3>1, <3>2
  <2>5. QED
    BY <2>2, <2>3, <2>4
<1>18. ASSUME NEW t \in Threads, Reader_dealloc(t) PROVE UserInv'
  BY <1>18 DEF Reader_dealloc
<1>19. ASSUME NEW t \in Threads, reader_lock_destroy(t) PROVE UserInv'
  BY <1>19 DEF reader_lock_destroy
<1>20. ASSUME NEW t \in Threads, close_unmap(t) PROVE UserInv'
  BY <1>20 DEF close_unmap
<1>21. ASSUME NEW t \in Threads, close_clear(t) PROVE UserInv'
  BY <1>21 DEF close_clear
<1>22. ASSUME NEW t \in Threads, check_closed(t) PROVE UserInv'
  BY <1>22 DEF check_closed, SeesClosed
<1>23. ASSUME NEW t \in Threads, get_record(t) PROVE UserInv'
  <2>1. CASE Goto(t, "decode") /\ UNCHANGED res
    BY <1>23, <2>1 DEF get_record
  <2>2. ASSUME NEW r \in {"lookup_error", "notfound"}, Goto(t, "rdunlock"), res' = [res EXCEPT ![t] = r] PROVE UserInv'
    BY <1>23, <2>2 DEF get_record
  <2>3. QED
    BY <1>23, <2>1, <2>2 DEF get_record
<1>24. ASSUME NEW t \in Threads, get_entry_data_list(t) PROVE UserInv'
  <2>1. CASE Goto(t, "convert") /\ UNCHANGED res
    BY <1>24, <2>1 DEF get_entry_data_list
  <2>2. CASE Goto(t, "rdunlock") /\ res' = [res EXCEPT ![t] = "InvalidDatabaseError"]
    BY <1>24, <2>2 DEF get_entry_data_list
  <2>3. QED
    BY <1>24, <2>1, <2>2 DEF get_entry_data_list
<1>25. ASSUME NEW t \in Threads, from_entry_data_list(t) PROVE UserInv'
  <2>1. CASE Goto(t, "rdunlock") /\ res' = [res EXCEPT ![t] = "InvalidDatabaseError"]
    BY <1>25, <2>1 DEF from_entry_data_list
  <2>2. CASE op[t] = "next" /\ Goto(t, "network") /\ UNCHANGED res
    BY <1>25, <2>2 DEF from_entry_data_list
  <2>3. CASE op[t] # "next" /\ Goto(t, "rdunlock") /\ res' = [res EXCEPT ![t] = IF op[t] = "get" THEN "record" ELSE "metadata"]
    BY <1>25, <2>3 DEF from_entry_data_list
  <2>4. QED
    BY <1>25, <2>1, <2>2, <2>3 DEF from_entry_data_list
<1>26. ASSUME NEW t \in Threads, build_metadata(t) PROVE UserInv'
  BY <1>26 DEF build_metadata
<1>27. ASSUME NEW t \in Threads, alloc_iterator(t) PROVE UserInv'
  <2>1. /\ pc[t] = "alloc" /\ cur[t] = NoRecord /\ iter[t] = "none" /\ Goto(t, "idle")
        /\ UNCHANGED <<locals, op>>
    BY <1>27 DEF alloc_iterator, OwnInv
  <2>2. CASE UNCHANGED iterVars
    BY <2>1, <2>2
  <2>3. CASE /\ iter' = [iter EXCEPT ![t] = "live"]
             /\ iterRefs' = [iterRefs EXCEPT ![t] = IF ShareIterators THEN Threads ELSE {t}]
             /\ work' = [work EXCEPT ![t] = <<Root>>]
    <3>1. \A u \in Threads : pc[u] = "advance" => on[u] # t
      BY <2>1 DEF OwnInv
    <3>2. QED
      BY <2>1, <2>3, <3>1
  <2>4. QED
    BY <1>27, <2>2, <2>3 DEF alloc_iterator
<1>28. ASSUME NEW t \in Threads, next_load(t) PROVE UserInv'
  <2>1. CASE work[on[t]] = <<>>
    BY <1>28, <2>1 DEF next_load
  <2>2. CASE work[on[t]] # <<>>
    <3>1. /\ pc[t] = "pop" /\ op[t] = "next" /\ Goto(t, "advance")
          /\ cur' = [cur EXCEPT ![t] = Head(work[on[t]])]
          /\ rest' = [rest EXCEPT ![t] = Tail(work[on[t]])]
          /\ UNCHANGED <<iterVars, on, nested, left, op>>
      BY <1>28, <2>2 DEF next_load
    <3>2. left[t] = NoRecord
      BY <3>1
    <3>3. QED
      BY <2>2, <3>1, <3>2
  <2>3. QED
    BY <1>28, <2>1, <2>2 DEF next_load
<1>29. ASSUME NEW t \in Threads, next_store(t) PROVE UserInv'
  <2>1. /\ pc[t] = "advance" /\ op[t] = "next" /\ Running(t) /\ iter[on[t]] = "live"
        /\ work' = [work EXCEPT ![on[t]] = rest[t]]
        /\ UNCHANGED <<iter, iterRefs, locals, op>>
    BY <1>29 DEF next_store, OwnInv
  <2>2. Kind[cur[t]] \in RecordKinds
    BY <2>1, TreeAssumption
  <2>3. PICK step \in {"expand", "freeloop", "decode", "rdunlock"} : Goto(t, step)
    BY <1>29, <2>2 DEF next_store, RecordKinds
  <2>4. \A u \in Threads \ {t} : pc[u] = "advance" => on[u] # on[t]
    BY <2>1, OneUser
  <2>5. QED
    BY <2>1, <2>3, <2>4
<1>30. ASSUME NEW t \in Threads, next_expand(t) PROVE UserInv'
  <2>1. /\ pc[t] = "expand" /\ op[t] = "next" /\ Running(t) /\ iter[on[t]] = "live"
        /\ UNCHANGED <<iter, iterRefs, on, nested, cur, rest, op>> /\ cur[t] \in Records
    BY <1>30 DEF next_expand, OwnInv
  <2>2. PICK step \in {"freeloop", "rdunlock"} : Goto(t, step)
    BY <1>30 DEF next_expand
  <2>3. \A i \in Threads : i # on[t] => work'[i] = work[i]
    <3>1. CASE work' = work
      BY <3>1
    <3>2. CASE work' = [work EXCEPT ![on[t]] = Children[cur[t]] \o work[on[t]]]
      BY <3>2
    <3>3. QED
      BY <1>30, <3>1, <3>2 DEF next_expand
  <2>4. \A u \in Threads \ {t} : pc[u] = "advance" => on[u] # on[t]
    BY <2>1, OneUser
  <2>5. \A u \in Threads : pc'[u] = "advance" =>
          /\ work'[on'[u]] # <<>>
          /\ cur'[u] = Head(work'[on'[u]]) /\ rest'[u] = Tail(work'[on'[u]])
    <3> SUFFICES ASSUME NEW u \in Threads, pc'[u] = "advance"
                 PROVE  /\ work'[on'[u]] # <<>>
                        /\ cur'[u] = Head(work'[on'[u]]) /\ rest'[u] = Tail(work'[on'[u]])
      OBVIOUS
    <3>1. u # t /\ pc[u] = "advance" /\ on[u] \in Threads /\ on[u] # on[t]
      BY <2>2, <2>4
    <3>2. work'[on[u]] = work[on[u]]
      BY <2>1, <2>3, <3>1
    <3>3. QED
      BY <2>1, <3>1, <3>2
  <2>6. \A i \in Threads : iter'[i] = "none" => work'[i] = <<>>
    BY <2>1, <2>3
  <2>7. \A u \in Threads : left'[u] # NoRecord =>
          cur'[u] # NoRecord /\ op'[u] = "next" /\ pc'[u] \in {"rdunlock", "free"}
    <3>1. left[t] = NoRecord
      BY <2>1
    <3>2. left' = left \/ (Goto(t, "rdunlock") /\ \A u \in Threads \ {t} : left'[u] = left[u])
      <4>1. CASE left' = left
        BY <4>1
      <4>2. CASE Goto(t, "rdunlock") /\ left' = [left EXCEPT ![t] = Children[cur[t]][1]]
        BY <4>2
      <4>3. QED
        BY <1>30, <4>1, <4>2 DEF next_expand
    <3>3. QED
      BY <2>1, <2>2, <3>1, <3>2
  <2>8. QED
    BY <2>1, <2>2, <2>5, <2>6, <2>7
<1>31. ASSUME NEW t \in Threads, next_free_loop(t) PROVE UserInv'
  BY <1>31 DEF next_free_loop
<1>32. ASSUME NEW t \in Threads, call_ip_network(t) PROVE UserInv'
  BY <1>32 DEF call_ip_network
<1>33. ASSUME NEW t \in Threads, next_free(t) PROVE UserInv'
  BY <1>33 DEF next_free
<1>34. ASSUME NEW t \in Threads, free_records(t) PROVE UserInv'
  <2>1. /\ pc[t] = "freerecs" /\ op[t] = "dealloc" /\ on[t] \in Threads
        /\ work' = [work EXCEPT ![on[t]] = <<>>] /\ iter' = [iter EXCEPT ![on[t]] = "none"]
        /\ on' = [on EXCEPT ![t] = NoThread] /\ Goto(t, "idle")
        /\ UNCHANGED <<iterRefs, op, nested, cur, rest, left>>
    BY <1>34 DEF free_records
  <2>2. Freeing(t)
    BY <2>1 DEF Freeing
  <2>3. iter[on[t]] = "dying"
    BY <2>2 DEF OwnInv
  <2>4. cur[t] = NoRecord /\ \A u \in Threads : pc[u] = "advance" => on[u] # on[t]
    BY <2>1, <2>3 DEF OwnInv
  <2>5. QED
    BY <2>1, <2>4
<1>35. ASSUME NEW t \in Threads, CloseInsideNext(t) PROVE UserInv'
  BY <1>35 DEF CloseInsideNext
<1>36. ASSUME NEW t \in Threads, NEW i \in Threads, ReaderIter_next(t, i) PROVE UserInv'
  BY <1>36 DEF ReaderIter_next, Call
<1>37. ASSUME NEW t \in Threads, NEW i \in Threads, ReaderIter_dealloc(t, i) PROVE UserInv'
  <2>1. /\ pc[t] = "idle" /\ UNCHANGED <<work, nested, cur, rest, left>>
        /\ iterRefs' = [iterRefs EXCEPT ![i] = @ \ {t}]
    BY <1>37 DEF ReaderIter_dealloc
  <2>2. CASE UNCHANGED <<iter, pc, op, on>>
    BY <2>1, <2>2
  <2>3. CASE /\ iter' = [iter EXCEPT ![i] = "dying"]
             /\ on' = [on EXCEPT ![t] = i] /\ op' = [op EXCEPT ![t] = "dealloc"]
             /\ Goto(t, "dealloc") \/ Goto(t, "freerecs")
    <3>1. cur[t] = NoRecord
      BY <2>1
    <3>2. /\ \A j \in Threads : iterRefs'[j] \subseteq iterRefs[j]
          /\ \A j \in Threads : iter'[j] = "none" => iter[j] = "none"
      BY <2>1, <2>3
    <3>3. /\ pc'[t] \in {"dealloc", "freerecs"}
          /\ \A u \in Threads \ {t} : pc'[u] = pc[u] /\ op'[u] = op[u] /\ on'[u] = on[u]
      BY <2>3
    <3>4. \A u \in Threads : cur'[u] # NoRecord =>
            \/ nested'[u]
            \/ op'[u] = "next" /\ pc'[u] \notin {"idle", "rdlock", "check"}
      BY <2>1, <3>1, <3>3
    <3>5. \A u \in Threads : pc'[u] = "advance" =>
            /\ work'[on'[u]] # <<>>
            /\ cur'[u] = Head(work'[on'[u]]) /\ rest'[u] = Tail(work'[on'[u]])
      <4> SUFFICES ASSUME NEW u \in Threads, pc'[u] = "advance"
                   PROVE  /\ work'[on'[u]] # <<>>
                          /\ cur'[u] = Head(work'[on'[u]]) /\ rest'[u] = Tail(work'[on'[u]])
        OBVIOUS
      <4>1. pc[u] = "advance" /\ on'[u] = on[u]
        BY <3>3
      <4>2. QED
        BY <2>1, <4>1
    <3>6. ~ShareIterators => \A j \in Threads : iterRefs'[j] \subseteq {j}
      BY <3>2
    <3>7. \A u \in Threads : left'[u] # NoRecord =>
            cur'[u] # NoRecord /\ op'[u] = "next" /\ pc'[u] \in {"rdunlock", "free"}
      BY <2>1, <3>3
    <3>8. QED
      BY <2>1, <3>2, <3>4, <3>5, <3>6, <3>7
  <2>4. QED
    BY <1>37, <2>2, <2>3 DEF ReaderIter_dealloc
<1>38. CASE UNCHANGED vars
  BY <1>38 DEF vars
<1>39. ASSUME NEW t \in Threads, StopTheWorld(t) PROVE UserInv'
  BY <1>39 DEF StopTheWorld
<1>40. ASSUME NEW t \in Threads, StartTheWorld(t) PROVE UserInv'
  BY <1>40 DEF StartTheWorld
<1>41. ASSUME NEW t \in Threads, close_flag(t) PROVE UserInv'
  BY <1>41 DEF close_flag
<1>42. QED
  BY <1>1, <1>2, <1>3, <1>4, <1>5, <1>6, <1>7, <1>8, <1>9, <1>10, <1>11, <1>12, <1>13, <1>14, <1>15,
     <1>16, <1>17, <1>18, <1>19, <1>20, <1>21, <1>22, <1>23, <1>24, <1>25, <1>26, <1>27, <1>28, <1>29, <1>30,
     <1>31, <1>32, <1>33, <1>34, <1>35, <1>36, <1>37, <1>38, <1>39, <1>40, <1>41
  DEF Next, Request, Step, Finished

\* A thread has taken cur off the list and not freed it yet.
Hand(t) == cur[t] # NoRecord /\ pc[t] \notin {"advance", "pop"}

\* The positions that these records stand for: the subtree of cur until
\* next_expand, and themselves afterwards.
Region(t, Below) == IF pc[t] = "expand" THEN Below[cur[t]] ELSE Held(t)

\* What is allocated is on the list or in a hand.
HeapExact ==
  \A i \in Threads : \A r \in Records :
    r \in heap[i] <=> \/ \E k \in DOMAIN work[i] : work[i][k] = r
                      \/ \E t \in Threads : Hand(t) /\ on[t] = i /\ r \in Held(t)

\* The subtrees on a list are disjoint,
ListApart(Below) ==
  \A i \in Threads : \A j, k \in DOMAIN work[i] :
    j # k => Below[work[i][j]] \cap Below[work[i][k]] = {}

\* ... from what its users have in hand as well,
HandsOffList(Below) ==
  \A t \in Threads : Hand(t) =>
    \A k \in DOMAIN work[on[t]] : Region(t, Below) \cap Below[work[on[t]][k]] = {}

\* ... and so is what they have in hand.
HandsApart(Below) ==
  \A t, u \in Threads : Hand(t) /\ Hand(u) /\ on[t] = on[u] /\ t # u =>
    Region(t, Below) \cap Region(u, Below) = {}

RecInv(Below) == HeapExact /\ ListApart(Below) /\ HandsOffList(Below) /\ HandsApart(Below)

\* A thread that stays where it is, with the same records in hand.
Keeps(u) == pc'[u] = pc[u] /\ cur'[u] = cur[u] /\ on'[u] = on[u] /\ left'[u] = left[u]

\* A step of thread t that touches no list and no allocation, and after which t
\* has the same in hand, or nothing as before.
QuietFor(t) ==
  /\ UNCHANGED <<work, heap>>
  /\ \A u \in Threads \ {t} : Keeps(u)
  /\ \/ ~Hand(t) /\ ~Hand(t)'
     \/ /\ Hand(t) /\ Hand(t)' /\ cur'[t] = cur[t] /\ on'[t] = on[t] /\ left'[t] = left[t]
        /\ pc'[t] = "expand" => pc[t] = "expand"

\* What is in hand was calloc'ed by the iterator on[t]; before next_expand it is
\* cur alone.
LEMMA HandTypes ==
  ASSUME NEW Below, IsTree(Below), TypeOK, CallInv, UserInv, NEW t \in Threads, Hand(t)
  PROVE  /\ on[t] \in Threads /\ cur[t] \in Records
         /\ cur[t] \in Held(t) /\ Held(t) \subseteq Records /\ Held(t) \subseteq Region(t, Below)
         /\ pc[t] = "expand" => Held(t) = {cur[t]}
         /\ (nested[t] \/ (op[t] = "next" /\ pc[t] # "idle"))
<1>1. cur[t] \in Records
  BY DEF Hand, TypeOK, LocalTypes
<1>2. (nested[t] \/ (op[t] = "next" /\ pc[t] # "idle"))
  BY DEF Hand, UserInv
<1>3. on[t] \in Threads
  BY <1>2 DEF CallInv
<1>4. cur[t] \in Held(t) /\ Held(t) \subseteq Records
  BY <1>1, ThreadsAssumption DEF Held, TypeOK, LocalTypes
<1>5. pc[t] = "expand" => Held(t) = {cur[t]}
  BY <1>1, ThreadsAssumption DEF Held, UserInv
<1>6. Held(t) \subseteq Region(t, Below)
  BY <1>1, <1>5 DEF Region, IsTree
<1>7. QED
  BY <1>1, <1>2, <1>3, <1>4, <1>5, <1>6

\* Such a step keeps the records accounted for.
LEMMA QuietRecords ==
  ASSUME NEW Below, IsTree(Below), TypeOK, CallInv, UserInv, RecInv(Below),
         NEW t \in Threads, QuietFor(t)
  PROVE  RecInv(Below)'
<1>1. \A u \in Threads :
        /\ Hand(u)' <=> Hand(u)
        /\ Hand(u) => /\ cur'[u] = cur[u] /\ on'[u] = on[u] /\ Held(u)' = Held(u)
                      /\ pc'[u] = "expand" => pc[u] = "expand"
  BY DEF QuietFor, Keeps, Hand, Held
<1>2. \A u \in Threads : Hand(u) => Region(u, Below)' \subseteq Region(u, Below)
  <2> SUFFICES ASSUME NEW u \in Threads, Hand(u)
               PROVE  Region(u, Below)' \subseteq Region(u, Below)
    OBVIOUS
  <2>1. Held(u) \subseteq Region(u, Below) /\ Held(u)' = Held(u) /\ cur'[u] = cur[u]
    BY <1>1, HandTypes
  <2>2. QED
    BY <1>1, <2>1 DEF Region
<1>3. work' = work /\ heap' = heap
  BY DEF QuietFor
<1>4. HeapExact'
  <2> SUFFICES ASSUME NEW i \in Threads, NEW r \in Records
               PROVE  r \in heap'[i] <=>
                        \/ \E k \in DOMAIN work'[i] : work'[i][k] = r
                        \/ \E u \in Threads : Hand(u)' /\ on'[u] = i /\ r \in Held(u)'
    BY DEF HeapExact
  <2>1. (\E u \in Threads : Hand(u)' /\ on'[u] = i /\ r \in Held(u)')
          <=> (\E u \in Threads : Hand(u) /\ on[u] = i /\ r \in Held(u))
    BY <1>1
  <2>2. QED
    BY <1>3, <2>1 DEF RecInv, HeapExact
<1>5. ListApart(Below)'
  BY <1>3 DEF RecInv, ListApart
<1>6. HandsOffList(Below)'
  <2> SUFFICES ASSUME NEW u \in Threads, Hand(u)', NEW k \in DOMAIN work'[on'[u]]
               PROVE  Region(u, Below)' \cap Below[work'[on'[u]][k]] = {}
    BY DEF HandsOffList
  <2>1. Region(u, Below) \cap Below[work[on[u]][k]] = {}
    BY <1>1, <1>3 DEF RecInv, HandsOffList
  <2>2. QED
    BY <1>1, <1>2, <1>3, <2>1
<1>7. HandsApart(Below)'
  <2> SUFFICES ASSUME NEW u \in Threads, NEW v \in Threads, Hand(u)', Hand(v)',
                      on'[u] = on'[v], u # v
               PROVE  Region(u, Below)' \cap Region(v, Below)' = {}
    BY DEF HandsApart
  <2>1. Region(u, Below) \cap Region(v, Below) = {}
    BY <1>1 DEF RecInv, HandsApart
  <2>2. QED
    BY <1>1, <1>2, <2>1
<1>8. QED
  BY <1>4, <1>5, <1>6, <1>7 DEF RecInv

\* free(cur) and free(left), which are off the list and in no other hand.
LEMMA FreeCurRecords ==
  ASSUME NEW Below, IsTree(Below), TypeOK, CallInv, UserInv, RecInv(Below), NEW t \in Threads,
         Hand(t), ~Hand(t)', work' = work, heap' = [heap EXCEPT ![on[t]] = @ \ Held(t)],
         \A u \in Threads \ {t} : Keeps(u)
  PROVE  RecInv(Below)'
<1>1. on[t] \in Threads /\ Held(t) \subseteq Region(t, Below)
  BY HandTypes
<1>2. \A u \in Threads \ {t} : /\ Hand(u)' <=> Hand(u)
                               /\ Held(u)' = Held(u) /\ on'[u] = on[u]
                               /\ Region(u, Below)' = Region(u, Below)
  BY DEF Keeps, Hand, Held, Region
<1>3. HeapExact'
  <2> SUFFICES ASSUME NEW i \in Threads, NEW r \in Records
               PROVE  r \in heap'[i] <=>
                        \/ \E k \in DOMAIN work'[i] : work'[i][k] = r
                        \/ \E u \in Threads : Hand(u)' /\ on'[u] = i /\ r \in Held(u)'
    BY DEF HeapExact
  <2>1. (\E u \in Threads : Hand(u)' /\ on'[u] = i /\ r \in Held(u)')
          <=> (\E u \in Threads \ {t} : Hand(u) /\ on[u] = i /\ r \in Held(u))
    BY <1>2
  <2>2. r \in heap[i] <=> \/ \E k \in DOMAIN work[i] : work[i][k] = r
                          \/ \E u \in Threads : Hand(u) /\ on[u] = i /\ r \in Held(u)
    BY DEF RecInv, HeapExact
  <2>3. CASE i = on[t] /\ r \in Held(t)
    <3>1. r \notin heap'[i]
      BY <2>3, <1>1 DEF TypeOK, IteratorTypes
    <3>2. \A k \in DOMAIN work[i] : work[i][k] # r
      <4> SUFFICES ASSUME NEW k \in DOMAIN work[i], work[i][k] = r PROVE FALSE
        OBVIOUS
      <4>1. r \in Below[r] /\ r \in Region(t, Below)
        BY <1>1, <2>3 DEF IsTree
      <4>2. Region(t, Below) \cap Below[work[i][k]] = {}
        BY <2>3 DEF RecInv, HandsOffList
      <4>3. QED
        BY <4>1, <4>2
    <3>3. \A u \in Threads \ {t} : ~(Hand(u) /\ on[u] = i /\ r \in Held(u))
      <4> SUFFICES ASSUME NEW u \in Threads \ {t}, Hand(u), on[u] = i, r \in Held(u) PROVE FALSE
        OBVIOUS
      <4>1. r \in Region(u, Below) /\ r \in Region(t, Below)
        BY <1>1, <2>3, HandTypes
      <4>2. Region(t, Below) \cap Region(u, Below) = {}
        BY <2>3 DEF RecInv, HandsApart
      <4>3. QED
        BY <4>1, <4>2
    <3>4. QED
      BY <2>1, <3>1, <3>2, <3>3
  <2>4. CASE ~(i = on[t] /\ r \in Held(t))
    <3>1. r \in heap'[i] <=> r \in heap[i]
      BY <1>1, <2>4 DEF TypeOK, IteratorTypes
    <3>2. (\E u \in Threads : Hand(u) /\ on[u] = i /\ r \in Held(u))
            <=> (\E u \in Threads \ {t} : Hand(u) /\ on[u] = i /\ r \in Held(u))
      BY <2>4
    <3>3. QED
      BY <2>1, <2>2, <3>1, <3>2
  <2>5. QED
    BY <2>3, <2>4
<1>4. ListApart(Below)'
  BY DEF RecInv, ListApart
<1>5. HandsOffList(Below)'
  BY <1>2 DEF RecInv, HandsOffList
<1>6. HandsApart(Below)'
  BY <1>2 DEF RecInv, HandsApart
<1>7. QED
  BY <1>3, <1>4, <1>5, <1>6 DEF RecInv

\* A step that replaces the whole list of iterator i, which nobody has in hand.
LEMMA NewListRecords ==
  ASSUME NEW Below, IsTree(Below), TypeOK, RecInv(Below), NEW i \in Threads,
         \A u \in Threads : Hand(u) => on[u] \in Threads \ {i},
         \A u \in Threads : /\ Hand(u)' <=> Hand(u)
                            /\ Hand(u) => Keeps(u),
         \/ /\ work' = [work EXCEPT ![i] = <<>>] /\ heap' = [heap EXCEPT ![i] = {}]
         \/ /\ work' = [work EXCEPT ![i] = <<Root>>] /\ heap' = [heap EXCEPT ![i] = {Root}]
  PROVE  RecInv(Below)'
<1>1. \A j \in Threads \ {i} : work'[j] = work[j] /\ heap'[j] = heap[j]
  BY DEF TypeOK, IteratorTypes
<1>2. \/ work'[i] = <<>> /\ heap'[i] = {}
      \/ work'[i] = <<Root>> /\ heap'[i] = {Root}
  BY DEF TypeOK, IteratorTypes
<1>3. \A u \in Threads : Hand(u) =>
        Region(u, Below)' = Region(u, Below) /\ Held(u)' = Held(u) /\ on'[u] = on[u]
  BY DEF Keeps, Held, Region
<1>4. HeapExact'
  <2> SUFFICES ASSUME NEW j \in Threads, NEW r \in Records
               PROVE  r \in heap'[j] <=>
                        \/ \E k \in DOMAIN work'[j] : work'[j][k] = r
                        \/ \E u \in Threads : Hand(u)' /\ on'[u] = j /\ r \in Held(u)'
    BY DEF HeapExact
  <2>1. (\E u \in Threads : Hand(u)' /\ on'[u] = j /\ r \in Held(u)')
          <=> (\E u \in Threads : Hand(u) /\ on[u] = j /\ r \in Held(u))
    BY <1>3
  <2>2. CASE j = i
    BY <1>2, <2>1, <2>2
  <2>3. CASE j # i
    BY <1>1, <2>1, <2>3 DEF RecInv, HeapExact
  <2>4. QED
    BY <2>2, <2>3
<1>5. ListApart(Below)'
  <2> SUFFICES ASSUME NEW j \in Threads, NEW k \in DOMAIN work'[j], NEW m \in DOMAIN work'[j], k # m
               PROVE  Below[work'[j][k]] \cap Below[work'[j][m]] = {}
    BY DEF ListApart
  <2>1. CASE j = i
    BY <1>2, <2>1
  <2>2. CASE j # i
    BY <1>1, <2>2 DEF RecInv, ListApart
  <2>3. QED
    BY <2>1, <2>2
<1>6. HandsOffList(Below)'
  <2> SUFFICES ASSUME NEW u \in Threads, Hand(u), NEW k \in DOMAIN work'[on[u]]
               PROVE  Region(u, Below) \cap Below[work'[on[u]][k]] = {}
    BY <1>3 DEF HandsOffList
  <2>1. work'[on[u]] = work[on[u]]
    BY DEF TypeOK, IteratorTypes
  <2>2. QED
    BY <2>1 DEF RecInv, HandsOffList
<1>7. HandsApart(Below)'
  BY <1>3 DEF RecInv, HandsApart
<1>8. QED
  BY <1>4, <1>5, <1>6, <1>7 DEF RecInv

\* ri->next = cur->next: the head of the list passes to the hand of t.
LEMMA StoreRecords ==
  ASSUME NEW Below, IsTree(Below), TypeOK, CallInv, UserInv, RecInv(Below), NEW t \in Threads,
         pc[t] = "advance", op[t] = "next", pc'[t] \notin {"advance", "pop"},
         work' = [work EXCEPT ![on[t]] = rest[t]], UNCHANGED <<heap, cur, on, left>>,
         \A u \in Threads \ {t} : pc'[u] = pc[u]
  PROVE  RecInv(Below)'
<1> DEFINE i == on[t]
           L == work[i]
<1>1. i \in Threads /\ cur[t] \in Records
  BY DEF CallInv
<1>2. L \in Seq(Records) /\ L # <<>> /\ cur[t] = Head(L) /\ rest[t] = Tail(L)
  BY <1>1 DEF UserInv, TypeOK, IteratorTypes
<1>3. /\ 1 \in DOMAIN L /\ cur[t] = L[1]
      /\ \A k \in DOMAIN Tail(L) : k + 1 \in DOMAIN L /\ k + 1 # 1 /\ Tail(L)[k] = L[k + 1]
      /\ \A k \in DOMAIN L : k # 1 => k - 1 \in DOMAIN Tail(L) /\ Tail(L)[k - 1] = L[k]
  BY <1>2
<1>4. /\ work'[i] = Tail(L)
      /\ \A j \in Threads \ {i} : work'[j] = work[j]
  BY <1>1, <1>2 DEF TypeOK, IteratorTypes
<1>5. ~Hand(t) /\ Hand(t)' /\ Held(t)' = {L[1]} /\ Region(t, Below)' \subseteq Below[L[1]]
  <2>1. ~Hand(t) /\ Hand(t)'
    BY <1>1, ThreadsAssumption DEF Hand
  <2>2. Held(t)' = {cur[t]}
    BY <1>1, ThreadsAssumption DEF Held, UserInv
  <2>3. Region(t, Below)' \subseteq Below[cur[t]]
    BY <1>1, <2>2 DEF Region, IsTree
  <2>4. QED
    BY <2>1, <2>2, <2>3, <1>3
<1>6. \A u \in Threads \ {t} : /\ Hand(u)' <=> Hand(u)
                               /\ Held(u)' = Held(u) /\ Region(u, Below)' = Region(u, Below)
  BY DEF Hand, Held, Region
<1>7. \A u \in Threads : Hand(u) => on[u] \in Threads
  BY HandTypes
<1>8. HeapExact'
  <2> SUFFICES ASSUME NEW j \in Threads, NEW r \in Records
               PROVE  r \in heap[j] <=>
                        \/ \E k \in DOMAIN work'[j] : work'[j][k] = r
                        \/ \E u \in Threads : Hand(u)' /\ on[u] = j /\ r \in Held(u)'
    BY DEF HeapExact
  <2>1. r \in heap[j] <=> \/ \E k \in DOMAIN work[j] : work[j][k] = r
                          \/ \E u \in Threads : Hand(u) /\ on[u] = j /\ r \in Held(u)
    BY DEF RecInv, HeapExact
  <2>2. (\E u \in Threads : Hand(u)' /\ on[u] = j /\ r \in Held(u)')
          <=> \/ \E u \in Threads : Hand(u) /\ on[u] = j /\ r \in Held(u)
              \/ i = j /\ L[1] = r
    BY <1>3, <1>5, <1>6
  <2>3. CASE j = i
    <3>1. (\E k \in DOMAIN L : L[k] = r) <=> L[1] = r \/ \E k \in DOMAIN Tail(L) : Tail(L)[k] = r
      BY <1>3
    <3>2. work[j] = L /\ work'[j] = Tail(L)
      BY <1>4, <2>3
    <3>3. (\E k \in DOMAIN work[j] : work[j][k] = r)
            <=> L[1] = r \/ \E k \in DOMAIN work'[j] : work'[j][k] = r
      BY <3>1, <3>2
    <3>4. QED
      BY <2>1, <2>2, <2>3, <3>3
  <2>4. CASE j # i
    BY <1>4, <2>1, <2>2, <2>4
  <2>5. QED
    BY <2>3, <2>4
<1>9. ListApart(Below)'
  <2> SUFFICES ASSUME NEW j \in Threads, NEW k \in DOMAIN work'[j], NEW m \in DOMAIN work'[j], k # m
               PROVE  Below[work'[j][k]] \cap Below[work'[j][m]] = {}
    BY DEF ListApart
  <2>1. CASE j = i
    <3>1. /\ k + 1 \in DOMAIN L /\ m + 1 \in DOMAIN L /\ k + 1 # m + 1
          /\ work'[j][k] = L[k + 1] /\ work'[j][m] = L[m + 1]
      <4>1. work'[j] = Tail(L) /\ k \in DOMAIN Tail(L) /\ m \in DOMAIN Tail(L)
        BY <1>4, <2>1
      <4>2. k \in Nat /\ m \in Nat
        BY <1>2, <4>1
      <4>3. k + 1 # m + 1
        BY <4>2
      <4>4. k + 1 \in DOMAIN L /\ Tail(L)[k] = L[k + 1]
        BY <1>3, <4>1
      <4>5. m + 1 \in DOMAIN L /\ Tail(L)[m] = L[m + 1]
        BY <1>3, <4>1
      <4>6. QED
        BY <4>1, <4>3, <4>4, <4>5
    <3>2. QED
      BY <1>1, <3>1 DEF RecInv, ListApart
  <2>2. CASE j # i
    BY <1>4, <2>2 DEF RecInv, ListApart
  <2>3. QED
    BY <2>1, <2>2
<1>10. HandsOffList(Below)'
  <2> SUFFICES ASSUME NEW u \in Threads, Hand(u)', NEW k \in DOMAIN work'[on[u]]
               PROVE  Region(u, Below)' \cap Below[work'[on[u]][k]] = {}
    BY DEF HandsOffList
  <2>1. CASE u = t
    <3>1. k + 1 \in DOMAIN L /\ 1 \in DOMAIN L /\ k + 1 # 1 /\ work'[on[u]][k] = L[k + 1]
      <4>1. work'[on[u]] = Tail(L) /\ k \in DOMAIN Tail(L)
        BY <1>4, <2>1, <1>1
      <4>2. QED
        BY <1>3, <4>1
    <3>2. Below[L[1]] \cap Below[L[k + 1]] = {}
      BY <1>1, <3>1 DEF RecInv, ListApart
    <3>3. QED
      BY <1>5, <2>1, <3>1, <3>2
  <2>2. CASE u # t /\ on[u] = i
    <3>1. k + 1 \in DOMAIN L /\ work'[on[u]][k] = L[k + 1]
      <4>1. work'[on[u]] = Tail(L) /\ k \in DOMAIN Tail(L)
        BY <1>4, <2>2, <1>1
      <4>2. QED
        BY <1>3, <4>1
    <3>2. Region(u, Below) \cap Below[L[k + 1]] = {}
      BY <1>6, <2>2, <3>1 DEF RecInv, HandsOffList
    <3>3. QED
      BY <1>6, <2>2, <3>1, <3>2
  <2>3. CASE u # t /\ on[u] # i
    BY <1>4, <1>6, <1>7, <2>3 DEF RecInv, HandsOffList
  <2>4. QED
    BY <2>1, <2>2, <2>3
<1>11. HandsApart(Below)'
  <2>1. ASSUME NEW u \in Threads \ {t}, Hand(u), on[u] = i
        PROVE  Region(u, Below) \cap Region(t, Below)' = {}
    <3>1. Region(u, Below) \cap Below[L[1]] = {}
      BY <1>3, <2>1 DEF RecInv, HandsOffList
    <3>2. QED
      BY <1>5, <3>1
  <2> SUFFICES ASSUME NEW u \in Threads, NEW v \in Threads, Hand(u)', Hand(v)', on[u] = on[v], u # v
               PROVE  Region(u, Below)' \cap Region(v, Below)' = {}
    BY DEF HandsApart
  <2>2. CASE u # t /\ v # t
    BY <1>6, <2>2 DEF RecInv, HandsApart
  <2>3. CASE u = t
    BY <1>6, <2>1, <2>3
  <2>4. CASE v = t
    BY <1>6, <2>1, <2>4
  <2>5. QED
    BY <2>2, <2>3, <2>4
<1>12. QED
  BY <1>8, <1>9, <1>10, <1>11 DEF RecInv

\* The positions of a list with two records put in front.
LEMMA FrontPair ==
  ASSUME NEW S, NEW L \in Seq(S), NEW a \in S, NEW b \in S, NEW M, M = <<a, b>> \o L
  PROVE  /\ 1 \in DOMAIN M /\ 2 \in DOMAIN M /\ M[1] = a /\ M[2] = b
         /\ \A k \in DOMAIN M : k = 1 \/ k = 2 \/ (k - 2 \in DOMAIN L /\ M[k] = L[k - 2])
         /\ \A k \in DOMAIN L : k + 2 \in DOMAIN M /\ M[k + 2] = L[k]
         /\ DOMAIN M \subseteq Nat
<1>1. /\ Len(M) = Len(L) + 2 /\ Len(L) \in Nat
      /\ DOMAIN M = 1..Len(M) /\ DOMAIN L = 1..Len(L)
  OBVIOUS
<1>2. M[1] = a /\ M[2] = b
  OBVIOUS
<1>3. \A k \in 1..Len(L) : M[k + 2] = L[k]
  OBVIOUS
<1>4. \A k \in DOMAIN M : k = 1 \/ k = 2 \/ (k - 2 \in DOMAIN L /\ M[k] = L[k - 2])
  <2> SUFFICES ASSUME NEW k \in DOMAIN M, k # 1, k # 2
               PROVE  k - 2 \in DOMAIN L /\ M[k] = L[k - 2]
    OBVIOUS
  <2>1. k \in Nat /\ k - 2 \in 1..Len(L) /\ (k - 2) + 2 = k
    BY <1>1
  <2>2. QED
    BY <1>1, <1>3, <2>1
<1>5. QED
  BY <1>1, <1>2, <1>3, <1>4

\* The children of the node in hand go to the front of the list, and the node
\* stands for itself only.
LEMMA ExpandRecords ==
  ASSUME NEW Below, IsTree(Below), TypeOK, CallInv, UserInv, RecInv(Below), NEW t \in Threads,
         pc[t] = "expand", op[t] = "next", Kind[cur[t]] = "node", pc'[t] = "freeloop",
         work' = [work EXCEPT ![on[t]] = Children[cur[t]] \o @],
         heap' = [heap EXCEPT ![on[t]] = @ \cup {Children[cur[t]][1], Children[cur[t]][2]}],
         UNCHANGED <<cur, on, left>>,
         \A u \in Threads \ {t} : pc'[u] = pc[u]
  PROVE  RecInv(Below)'
<1> DEFINE i == on[t]
           c == cur[t]
           a == Children[cur[t]][1]
           b == Children[cur[t]][2]
           L == work[i]
           M == work'[i]
<1>1. i \in Threads /\ c \in Records
  BY DEF CallInv
<1>2. /\ a \in Records /\ b \in Records /\ Children[c] = <<a, b>>
  BY <1>1, TreeAssumption
<1>3. /\ Below[a] \subseteq Below[c] \ {c} /\ Below[b] \subseteq Below[c] \ {c}
      /\ Below[a] \cap Below[b] = {}
  BY <1>1, <1>2 DEF IsTree
<1>4. /\ L \in Seq(Records) /\ M = <<a, b>> \o L
      /\ \A j \in Threads \ {i} : work'[j] = work[j] /\ heap'[j] = heap[j]
      /\ heap'[i] = heap[i] \cup {a, b}
  BY <1>1, <1>2 DEF TypeOK, IteratorTypes
<1>5. /\ 1 \in DOMAIN M /\ 2 \in DOMAIN M /\ M[1] = a /\ M[2] = b
      /\ \A k \in DOMAIN M : k = 1 \/ k = 2 \/ (k - 2 \in DOMAIN L /\ M[k] = L[k - 2])
      /\ \A k \in DOMAIN L : k + 2 \in DOMAIN M /\ M[k + 2] = L[k]
      /\ DOMAIN M \subseteq Nat
  <2> HIDE DEF L, M, a, b
  <2> QED
    BY <1>2, <1>4, FrontPair
<1>6. /\ Hand(t) /\ Hand(t)' /\ Region(t, Below) = Below[c]
      /\ Held(t) = {c} /\ Held(t)' = {c} /\ Region(t, Below)' = {c}
  <2>1. Hand(t) /\ Hand(t)'
    BY <1>1, ThreadsAssumption DEF Hand
  <2>2. Held(t) = {c} /\ Held(t)' = {c}
    BY <1>1, ThreadsAssumption DEF Held, UserInv
  <2>3. QED
    BY <2>1, <2>2 DEF Region
<1>7. \A u \in Threads \ {t} : /\ Hand(u)' <=> Hand(u)
                               /\ Held(u)' = Held(u) /\ Region(u, Below)' = Region(u, Below)
  BY DEF Hand, Held, Region
<1>8. \A u \in Threads : Hand(u) => on[u] \in Threads
  BY HandTypes
<1>9. \A k \in DOMAIN L : Below[c] \cap Below[L[k]] = {}
  BY <1>1, <1>6 DEF RecInv, HandsOffList
<1>10. c \in Below[c]
  BY <1>1 DEF IsTree
<1>11. HeapExact'
  <2> SUFFICES ASSUME NEW j \in Threads, NEW r \in Records
               PROVE  r \in heap'[j] <=>
                        \/ \E k \in DOMAIN work'[j] : work'[j][k] = r
                        \/ \E u \in Threads : Hand(u)' /\ on'[u] = j /\ r \in Held(u)'
    BY DEF HeapExact
  <2>1. r \in heap[j] <=> \/ \E k \in DOMAIN work[j] : work[j][k] = r
                          \/ \E u \in Threads : Hand(u) /\ on[u] = j /\ r \in Held(u)
    BY DEF RecInv, HeapExact
  <2>2. (\E u \in Threads : Hand(u)' /\ on'[u] = j /\ r \in Held(u)')
          <=> \E u \in Threads : Hand(u) /\ on[u] = j /\ r \in Held(u)
    BY <1>6, <1>7
  <2>3. CASE j = i
    <3>1. (\E k \in DOMAIN M : M[k] = r) <=> a = r \/ b = r \/ \E k \in DOMAIN L : L[k] = r
      <4> HIDE DEF L, M, a, b
      <4> QED
        BY <1>5
    <3>2. r \in heap'[j] <=> r \in heap[j] \/ r = a \/ r = b
      BY <1>4, <2>3
    <3>3. (\E k \in DOMAIN work'[j] : work'[j][k] = r)
            <=> a = r \/ b = r \/ \E k \in DOMAIN work[j] : work[j][k] = r
      BY <2>3, <3>1
    <3>4. QED
      BY <2>1, <2>2, <3>2, <3>3
  <2>4. CASE j # i
    BY <1>4, <2>1, <2>2, <2>4
  <2>5. QED
    BY <2>3, <2>4
<1>12. ASSUME NEW k \in DOMAIN M
       PROVE  M[k] \in {a, b} \/ \E m \in DOMAIN L : M[k] = L[m]
  BY <1>5
<1>13. ListApart(Below)'
  <2> SUFFICES ASSUME NEW j \in Threads, NEW k \in DOMAIN work'[j], NEW m \in DOMAIN work'[j], k # m
               PROVE  Below[work'[j][k]] \cap Below[work'[j][m]] = {}
    BY DEF ListApart
  <2>1. CASE j = i
    <3>1. k \in DOMAIN M /\ m \in DOMAIN M /\ k \in Nat /\ m \in Nat
      BY <1>5, <2>1
    <3>2. CASE k \in {1, 2} /\ m \in {1, 2}
      <4>1. \/ M[k] = a /\ M[m] = b
            \/ M[k] = b /\ M[m] = a
        <5> HIDE DEF L, M, a, b
        <5>1. (k = 1 /\ m = 2) \/ (k = 2 /\ m = 1)
          BY <3>2
        <5> QED
          BY <1>5, <5>1
      <4>2. QED
        BY <1>3, <2>1, <4>1
    <3>3. CASE k \in {1, 2} /\ m \notin {1, 2}
      <4>1. m - 2 \in DOMAIN L /\ M[m] = L[m - 2]
        BY <1>5, <3>1, <3>3
      <4>2. M[k] \in {a, b}
        BY <1>5, <3>3
      <4>3. Below[M[k]] \subseteq Below[c]
        BY <1>3, <4>2
      <4>4. QED
        BY <1>9, <2>1, <4>1, <4>3
    <3>4. CASE k \notin {1, 2} /\ m \in {1, 2}
      <4>1. k - 2 \in DOMAIN L /\ M[k] = L[k - 2]
        BY <1>5, <3>1, <3>4
      <4>2. M[m] \in {a, b}
        BY <1>5, <3>4
      <4>3. Below[M[m]] \subseteq Below[c]
        BY <1>3, <4>2
      <4>4. QED
        BY <1>9, <2>1, <4>1, <4>3
    <3>5. CASE k \notin {1, 2} /\ m \notin {1, 2}
      <4>1. k - 2 \in DOMAIN L /\ M[k] = L[k - 2]
        BY <1>5, <3>1, <3>5
      <4>2. m - 2 \in DOMAIN L /\ M[m] = L[m - 2]
        BY <1>5, <3>1, <3>5
      <4>3. k - 2 # m - 2
        BY <3>1
      <4>4. Below[L[k - 2]] \cap Below[L[m - 2]] = {}
        BY <1>1, <4>1, <4>2, <4>3 DEF RecInv, ListApart
      <4>5. QED
        BY <2>1, <4>1, <4>2, <4>4
    <3>6. QED
      BY <3>2, <3>3, <3>4, <3>5
  <2>2. CASE j # i
    BY <1>4, <2>2 DEF RecInv, ListApart
  <2>3. QED
    BY <2>1, <2>2
<1>14. HandsOffList(Below)'
  <2> SUFFICES ASSUME NEW u \in Threads, Hand(u)', NEW k \in DOMAIN work'[on[u]]
               PROVE  Region(u, Below)' \cap Below[work'[on[u]][k]] = {}
    BY DEF HandsOffList
  <2>1. CASE u = t
    <3>1. k \in DOMAIN M /\ work'[on[u]][k] = M[k]
      BY <2>1
    <3>2. c \notin Below[M[k]]
      BY <1>3, <1>9, <1>10, <1>12, <3>1
    <3>3. QED
      BY <1>6, <2>1, <3>1, <3>2
  <2>2. CASE u # t /\ on[u] = i
    <3>1. k \in DOMAIN M /\ work'[on[u]][k] = M[k]
      BY <2>2
    <3>2. Hand(u) /\ Region(u, Below)' = Region(u, Below)
      BY <1>7, <2>2
    <3>3. Region(u, Below) \cap Below[c] = {}
      BY <1>6, <2>2, <3>2 DEF RecInv, HandsApart
    <3>4. \A m \in DOMAIN L : Region(u, Below) \cap Below[L[m]] = {}
      BY <2>2, <3>2 DEF RecInv, HandsOffList
    <3>5. CASE M[k] \in {a, b}
      BY <1>3, <3>1, <3>2, <3>3, <3>5
    <3>6. CASE \E m \in DOMAIN L : M[k] = L[m]
      BY <3>1, <3>2, <3>4, <3>6
    <3>7. QED
      BY <1>12, <3>1, <3>5, <3>6
  <2>3. CASE u # t /\ on[u] # i
    BY <1>4, <1>7, <1>8, <2>3 DEF RecInv, HandsOffList
  <2>4. QED
    BY <2>1, <2>2, <2>3
<1>15. HandsApart(Below)'
  <2>1. Region(t, Below)' \subseteq Region(t, Below)
    BY <1>6, <1>10
  <2>2. \A u \in Threads : /\ Hand(u)' <=> Hand(u)
                           /\ Region(u, Below)' \subseteq Region(u, Below)
    BY <1>6, <1>7, <2>1
  <2> SUFFICES ASSUME NEW u \in Threads, NEW v \in Threads, Hand(u)', Hand(v)', on[u] = on[v], u # v
               PROVE  Region(u, Below)' \cap Region(v, Below)' = {}
    BY DEF HandsApart
  <2>3. Region(u, Below) \cap Region(v, Below) = {}
    BY <2>2 DEF RecInv, HandsApart
  <2>4. QED
    BY <2>2, <2>3
<1>16. QED
  BY <1>11, <1>13, <1>14, <1>15 DEF RecInv

\* When the second allocation of next_expand fails, the node and its left child
\* are in hand, which the node alone stood for.
LEMMA ExpandFailRecords ==
  ASSUME NEW Below, IsTree(Below), TypeOK, CallInv, UserInv, RecInv(Below), NEW t \in Threads,
         pc[t] = "expand", op[t] = "next", Kind[cur[t]] = "node", pc'[t] = "rdunlock",
         left' = [left EXCEPT ![t] = Children[cur[t]][1]],
         heap' = [heap EXCEPT ![on[t]] = @ \cup {Children[cur[t]][1]}],
         UNCHANGED <<work, cur, on>>,
         \A u \in Threads \ {t} : pc'[u] = pc[u]
  PROVE  RecInv(Below)'
<1> DEFINE i == on[t]
           c == cur[t]
           a == Children[cur[t]][1]
<1>1. i \in Threads /\ c \in Records /\ a \in Records
  <2>1. i \in Threads /\ c \in Records
    BY DEF CallInv
  <2>2. QED
    BY <2>1, TreeAssumption
<1>2. a \in Below[a] /\ Below[a] \subseteq Below[c]
  BY <1>1 DEF IsTree
<1>3. /\ Hand(t) /\ Hand(t)' /\ Region(t, Below) = Below[c]
      /\ Held(t) = {c} /\ Held(t)' = {c, a} /\ Region(t, Below)' = {c, a}
  <2>1. Hand(t) /\ Hand(t)'
    BY <1>1, ThreadsAssumption DEF Hand
  <2>2. Held(t) = {c}
    BY <1>1, ThreadsAssumption DEF Held, UserInv
  <2>3. left'[t] = a
    BY <1>1 DEF TypeOK, LocalTypes
  <2>4. Held(t)' = {c, a}
    BY <1>1, <2>3, ThreadsAssumption DEF Held
  <2>5. QED
    BY <2>1, <2>2, <2>4 DEF Region
<1>4. \A u \in Threads \ {t} : /\ Hand(u)' <=> Hand(u)
                               /\ Held(u)' = Held(u) /\ Region(u, Below)' = Region(u, Below)
  <2>1. \A u \in Threads \ {t} : left'[u] = left[u]
    BY DEF TypeOK, LocalTypes
  <2>2. QED
    BY <2>1 DEF Hand, Held, Region
<1>5. HeapExact'
  <2> SUFFICES ASSUME NEW j \in Threads, NEW r \in Records
               PROVE  r \in heap'[j] <=>
                        \/ \E k \in DOMAIN work[j] : work[j][k] = r
                        \/ \E u \in Threads : Hand(u)' /\ on[u] = j /\ r \in Held(u)'
    BY DEF HeapExact
  <2>1. r \in heap[j] <=> \/ \E k \in DOMAIN work[j] : work[j][k] = r
                          \/ \E u \in Threads : Hand(u) /\ on[u] = j /\ r \in Held(u)
    BY DEF RecInv, HeapExact
  <2>2. r \in heap'[j] <=> r \in heap[j] \/ (j = i /\ r = a)
    BY <1>1 DEF TypeOK, IteratorTypes
  <2>3. (\E u \in Threads : Hand(u)' /\ on[u] = j /\ r \in Held(u)')
          <=> (\E u \in Threads : Hand(u) /\ on[u] = j /\ r \in Held(u)) \/ (j = i /\ r = a)
    BY <1>3, <1>4
  <2>4. QED
    BY <2>1, <2>2, <2>3
<1>6. \A u \in Threads : /\ Hand(u)' <=> Hand(u)
                         /\ Hand(u) => Region(u, Below)' \subseteq Region(u, Below)
  <2>1. c \in Below[c]
    BY <1>1 DEF IsTree
  <2>2. QED
    BY <1>2, <1>3, <1>4, <2>1
<1>7. ListApart(Below)'
  BY DEF RecInv, ListApart
<1>8. HandsOffList(Below)'
  <2> SUFFICES ASSUME NEW u \in Threads, Hand(u)', NEW k \in DOMAIN work[on[u]]
               PROVE  Region(u, Below)' \cap Below[work[on[u]][k]] = {}
    BY DEF HandsOffList
  <2>1. Region(u, Below) \cap Below[work[on[u]][k]] = {}
    BY <1>6 DEF RecInv, HandsOffList
  <2>2. QED
    BY <1>6, <2>1
<1>9. HandsApart(Below)'
  <2> SUFFICES ASSUME NEW u \in Threads, NEW v \in Threads, Hand(u)', Hand(v)', on[u] = on[v], u # v
               PROVE  Region(u, Below)' \cap Region(v, Below)' = {}
    BY DEF HandsApart
  <2>1. Region(u, Below) \cap Region(v, Below) = {}
    BY <1>6 DEF RecInv, HandsApart
  <2>2. QED
    BY <1>6, <2>1
<1>10. QED
  BY <1>5, <1>7, <1>8, <1>9 DEF RecInv

\* Every step keeps the records of every iterator accounted for.
LEMMA RecStep ==
  ASSUME NEW Below, IsTree(Below), UseGil \/ ~ShareIterators,
         TypeOK, CallInv, GilInv, OwnInv, UserInv, RecInv(Below), [Next]_vars
  PROVE  RecInv(Below)'
<1>0. UNCHANGED <<work, heap, pc, cur, on, left>> => RecInv(Below)'
  <2> SUFFICES ASSUME UNCHANGED <<work, heap, pc, cur, on, left>> PROVE RecInv(Below)'
    OBVIOUS
  <2>1. \A u \in Threads : /\ Hand(u)' <=> Hand(u)
                           /\ Held(u)' = Held(u) /\ Region(u, Below)' = Region(u, Below)
    BY DEF Hand, Held, Region
  <2>2. HeapExact'
    <3> SUFFICES ASSUME NEW i \in Threads, NEW r \in Records
                 PROVE  r \in heap'[i] <=>
                          \/ \E k \in DOMAIN work'[i] : work'[i][k] = r
                          \/ \E u \in Threads : Hand(u)' /\ on'[u] = i /\ r \in Held(u)'
      BY DEF HeapExact
    <3>1. r \in heap[i] <=> \/ \E k \in DOMAIN work[i] : work[i][k] = r
                            \/ \E u \in Threads : Hand(u) /\ on[u] = i /\ r \in Held(u)
      BY DEF RecInv, HeapExact
    <3>2. QED
      BY <2>1, <3>1
  <2>3. HandsOffList(Below)' /\ HandsApart(Below)'
    BY <2>1 DEF RecInv, HandsOffList, HandsApart
  <2>4. ListApart(Below)'
    BY DEF RecInv, ListApart
  <2>5. QED
    BY <2>2, <2>3, <2>4 DEF RecInv
<1> \A u \in Threads : (pc[u] = "build" => op[u] = "metadata") /\ (pc[u] = "alloc" => op[u] = "iter")
  BY DEF OwnInv
<1> USE ThreadsAssumption
    DEF UserInv, TypeOK, IteratorTypes, CallTypes, LocalTypes, CallInv, QuietFor, Keeps, Hand,
        objVars, lockVars, interp, iterVars, locals, callVars, history,
        MappedSteps, ReadSteps, WriteSteps, ReadOps, At, Goto
<1>1. ASSUME NEW t \in Threads, TakeGil(t) PROVE RecInv(Below)'
  BY <1>1, <1>0 DEF TakeGil
<1>2. ASSUME NEW t \in Threads, Yield(t) PROVE RecInv(Below)'
  BY <1>2, <1>0 DEF Yield
<1>3. ASSUME NEW t \in Threads, Reader_init(t) PROVE RecInv(Below)'
  <2>1. QuietFor(t)
    BY <1>3 DEF Reader_init
  <2>2. QED
    BY <2>1, QuietRecords
<1>4. ASSUME NEW t \in Threads, DropReader(t) PROVE RecInv(Below)'
  <2>1. pc[t] = "idle" /\ UNCHANGED <<work, heap, cur, left>>
        /\ on' = [on EXCEPT ![t] = NoThread]
    BY <1>4 DEF DropReader
  <2>2. \A u \in Threads \ {t} : pc'[u] = pc[u]
    BY <1>4 DEF DropReader
  <2>3. cur[t] = NoRecord
    BY <2>1
  <2>4. QuietFor(t)
    BY <2>1, <2>2, <2>3
  <2>5. QED
    BY <2>4, QuietRecords
<1>5. ASSUME NEW t \in Threads, Reader_get(t) PROVE RecInv(Below)'
  <2>1. CASE CallReader(t, "get", "rdlock")
    <3>1. QuietFor(t)
      BY <2>1 DEF CallReader, Call
    <3>2. QED
      BY <3>1, QuietRecords
  <2>2. CASE UNCHANGED <<iterVars, locals, pc>>
    BY <2>2, <1>0
  <2>3. QED
    BY <1>5, <2>1, <2>2 DEF Reader_get
<1>6. ASSUME NEW t \in Threads, Reader_metadata(t) PROVE RecInv(Below)'
  <2>1. QuietFor(t)
    BY <1>6 DEF Reader_metadata, CallReader, Call
  <2>2. QED
    BY <2>1, QuietRecords
<1>7. ASSUME NEW t \in Threads, Reader__enter__(t) PROVE RecInv(Below)'
  <2>1. QuietFor(t)
    BY <1>7 DEF Reader__enter__, CallReader, Call
  <2>2. QED
    BY <2>1, QuietRecords
<1>8. ASSUME NEW t \in Threads, Reader_iter(t) PROVE RecInv(Below)'
  <2>1. QuietFor(t)
    BY <1>8 DEF Reader_iter, CallReader, Call
  <2>2. QED
    BY <2>1, QuietRecords
<1>9. ASSUME NEW t \in Threads, Reader_close(t) PROVE RecInv(Below)'
  <2>1. QuietFor(t)
    BY <1>9 DEF Reader_close, CallReader, Call
  <2>2. QED
    BY <2>1, QuietRecords
<1>10. ASSUME NEW t \in Threads, Reader__exit__(t) PROVE RecInv(Below)'
  <2>1. QuietFor(t)
    BY <1>10 DEF Reader__exit__, CallReader, Call
  <2>2. QED
    BY <2>1, QuietRecords
<1>11. ASSUME NEW t \in Threads, ReadClosedMember(t) PROVE RecInv(Below)'
  BY <1>11, <1>0 DEF ReadClosedMember
<1>12. ASSUME NEW t \in Threads, reader_acquire_read_lock(t) PROVE RecInv(Below)'
  <2>1. QuietFor(t)
    BY <1>12 DEF reader_acquire_read_lock
  <2>2. QED
    BY <2>1, QuietRecords
<1>13. ASSUME NEW t \in Threads, read_lock_fails(t) PROVE RecInv(Below)'
  <2>1. QuietFor(t)
    BY <1>13 DEF read_lock_fails
  <2>2. QED
    BY <2>1, QuietRecords
<1>14. ASSUME NEW t \in Threads, reader_release_read_lock(t) PROVE RecInv(Below)'
  <2>1. QuietFor(t)
    BY <1>14 DEF reader_release_read_lock, AfterRead
  <2>2. QED
    BY <2>1, QuietRecords
<1>15. ASSUME NEW t \in Threads, reader_acquire_write_lock(t) PROVE RecInv(Below)'
  <2>1. QuietFor(t)
    BY <1>15 DEF reader_acquire_write_lock
  <2>2. QED
    BY <2>1, QuietRecords
<1>16. ASSUME NEW t \in Threads, write_lock_fails(t) PROVE RecInv(Below)'
  <2>1. UNCHANGED <<work, heap, cur, on, left>> /\ pc[t] = "wrlock" /\ Return(t)
    BY <1>16 DEF write_lock_fails
  <2>2. QuietFor(t)
    BY <2>1 DEF Return
  <2>3. QED
    BY <2>2, QuietRecords
<1>17. ASSUME NEW t \in Threads, reader_release_write_lock(t) PROVE RecInv(Below)'
  <2>1. UNCHANGED <<work, heap, cur, on, left>> /\ pc[t] = "wrunlock"
    BY <1>17 DEF reader_release_write_lock
  <2>2. CASE Goto(t, "destroy")
    <3>1. QuietFor(t)
      BY <2>1, <2>2
    <3>2. QED
      BY <3>1, QuietRecords
  <2>3. CASE Return(t)
    <3>1. QuietFor(t)
      BY <2>1, <2>3 DEF Return
    <3>2. QED
      BY <3>1, QuietRecords
  <2>4. QED
    BY <1>17, <2>2, <2>3 DEF reader_release_write_lock
<1>18. ASSUME NEW t \in Threads, Reader_dealloc(t) PROVE RecInv(Below)'
  <2>1. QuietFor(t)
    BY <1>18 DEF Reader_dealloc
  <2>2. QED
    BY <2>1, QuietRecords
<1>19. ASSUME NEW t \in Threads, reader_lock_destroy(t) PROVE RecInv(Below)'
  <2>1. QuietFor(t)
    BY <1>19 DEF reader_lock_destroy
  <2>2. QED
    BY <2>1, QuietRecords
<1>20. ASSUME NEW t \in Threads, close_unmap(t) PROVE RecInv(Below)'
  <2>1. QuietFor(t)
    BY <1>20 DEF close_unmap
  <2>2. QED
    BY <2>1, QuietRecords
<1>21. ASSUME NEW t \in Threads, close_clear(t) PROVE RecInv(Below)'
  <2>1. QuietFor(t)
    BY <1>21 DEF close_clear
  <2>2. QED
    BY <2>1, QuietRecords
<1>22. ASSUME NEW t \in Threads, check_closed(t) PROVE RecInv(Below)'
  <2>1. pc[t] = "check" /\ UNCHANGED <<iterVars, locals>>
    BY <1>22 DEF check_closed
  <2>2. cur[t] = NoRecord
    BY <2>1
  <2>3. \A u \in Threads \ {t} : pc'[u] = pc[u]
    BY <1>22 DEF check_closed
  <2>4. QuietFor(t)
    BY <2>1, <2>2, <2>3
  <2>5. QED
    BY <2>4, QuietRecords
<1>23. ASSUME NEW t \in Threads, get_record(t) PROVE RecInv(Below)'
  <2>1. QuietFor(t)
    BY <1>23 DEF get_record
  <2>2. QED
    BY <2>1, QuietRecords
<1>24. ASSUME NEW t \in Threads, get_entry_data_list(t) PROVE RecInv(Below)'
  <2>1. QuietFor(t)
    BY <1>24 DEF get_entry_data_list
  <2>2. QED
    BY <2>1, QuietRecords
<1>25. ASSUME NEW t \in Threads, from_entry_data_list(t) PROVE RecInv(Below)'
  <2>1. QuietFor(t)
    BY <1>25 DEF from_entry_data_list
  <2>2. QED
    BY <2>1, QuietRecords
<1>26. ASSUME NEW t \in Threads, build_metadata(t) PROVE RecInv(Below)'
  <2>1. QuietFor(t)
    BY <1>26 DEF build_metadata
  <2>2. QED
    BY <2>1, QuietRecords
<1>27. ASSUME NEW t \in Threads, alloc_iterator(t) PROVE RecInv(Below)'
  <2>1. /\ pc[t] = "alloc" /\ cur[t] = NoRecord /\ iter[t] = "none" /\ Goto(t, "idle")
        /\ UNCHANGED locals
    BY <1>27 DEF alloc_iterator, OwnInv
  <2>2. CASE UNCHANGED iterVars
    <3>1. QuietFor(t)
      BY <2>1, <2>2
    <3>2. QED
      BY <3>1, QuietRecords
  <2>3. CASE /\ work' = [work EXCEPT ![t] = <<Root>>]
             /\ heap' = [heap EXCEPT ![t] = {Root}]
    <3>1. \A u \in Threads : Hand(u) => on[u] \in Threads \ {t}
      BY <2>1, HandTypes DEF OwnInv
    <3>2. \A u \in Threads : /\ Hand(u)' <=> Hand(u)
                             /\ Hand(u) => Keeps(u)
      BY <2>1
    <3>3. QED
      BY <2>3, <3>1, <3>2, NewListRecords
  <2>4. QED
    BY <1>27, <2>2, <2>3 DEF alloc_iterator
<1>28. ASSUME NEW t \in Threads, next_load(t) PROVE RecInv(Below)'
  <2>1. QuietFor(t)
    BY <1>28 DEF next_load
  <2>2. QED
    BY <2>1, QuietRecords
<1>29. ASSUME NEW t \in Threads, next_store(t) PROVE RecInv(Below)'
  <2>1. /\ pc[t] = "advance" /\ op[t] = "next"
        /\ work' = [work EXCEPT ![on[t]] = rest[t]]
        /\ UNCHANGED <<heap, cur, on, left>>
    BY <1>29 DEF next_store
  <2>2. Kind[cur[t]] \in RecordKinds
    BY <2>1, TreeAssumption
  <2>3. PICK step \in {"expand", "freeloop", "decode", "rdunlock"} : Goto(t, step)
    BY <1>29, <2>2 DEF next_store, RecordKinds
  <2>4. pc'[t] \notin {"advance", "pop"} /\ \A u \in Threads \ {t} : pc'[u] = pc[u]
    BY <2>3
  <2>5. QED
    BY <2>1, <2>4, StoreRecords
<1>30. ASSUME NEW t \in Threads, next_expand(t) PROVE RecInv(Below)'
  <2>1. pc[t] = "expand" /\ op[t] = "next" /\ UNCHANGED <<on, nested, cur>>
    BY <1>30 DEF next_expand
  <2>2. ASSUME NEW step \in {"freeloop", "rdunlock"}, Goto(t, step), UNCHANGED <<iterVars, left>>
        PROVE  RecInv(Below)'
    <3>1. QuietFor(t)
      BY <2>1, <2>2
    <3>2. QED
      BY <3>1, QuietRecords
  <2>3. CASE /\ Kind[cur[t]] = "node" /\ Goto(t, "freeloop") /\ left' = left
             /\ work' = [work EXCEPT ![on[t]] = Children[cur[t]] \o @]
             /\ heap' = [heap EXCEPT ![on[t]] = @ \cup {Children[cur[t]][1], Children[cur[t]][2]}]
    <3>1. pc'[t] = "freeloop" /\ \A u \in Threads \ {t} : pc'[u] = pc[u]
      BY <2>3
    <3>2. QED
      BY <2>1, <2>3, <3>1, ExpandRecords
  <2>4. CASE /\ Kind[cur[t]] = "node" /\ Goto(t, "rdunlock") /\ work' = work
             /\ left' = [left EXCEPT ![t] = Children[cur[t]][1]]
             /\ heap' = [heap EXCEPT ![on[t]] = @ \cup {Children[cur[t]][1]}]
    <3>1. pc'[t] = "rdunlock" /\ \A u \in Threads \ {t} : pc'[u] = pc[u]
      BY <2>4
    <3>2. QED
      BY <2>1, <2>4, <3>1, ExpandFailRecords
  <2>5. QED
    BY <1>30, <2>2, <2>3, <2>4 DEF next_expand
<1>31. ASSUME NEW t \in Threads, next_free_loop(t) PROVE RecInv(Below)'
  <2>0. cur[t] \in Records /\ left[t] = NoRecord
    BY <1>31 DEF next_free_loop
  <2>1. /\ Hand(t) /\ ~Hand(t)' /\ work' = work
        /\ heap' = [heap EXCEPT ![on[t]] = @ \ Held(t)]
        /\ \A u \in Threads \ {t} : Keeps(u)
    <3>1. Held(t) = {cur[t]}
      BY <2>0 DEF Held
    <3>2. QED
      BY <1>31, <2>0, <3>1 DEF next_free_loop
  <2>2. QED
    BY <2>1, FreeCurRecords
<1>32. ASSUME NEW t \in Threads, call_ip_network(t) PROVE RecInv(Below)'
  <2>1. QuietFor(t)
    BY <1>32 DEF call_ip_network
  <2>2. QED
    BY <2>1, QuietRecords
<1>33. ASSUME NEW t \in Threads, next_free(t) PROVE RecInv(Below)'
  <2>1. /\ Hand(t) /\ ~Hand(t)' /\ work' = work
        /\ heap' = [heap EXCEPT ![on[t]] = @ \ Held(t)]
        /\ \A u \in Threads \ {t} : Keeps(u)
    BY <1>33 DEF next_free
  <2>2. QED
    BY <2>1, FreeCurRecords
<1>34. ASSUME NEW t \in Threads, free_records(t) PROVE RecInv(Below)'
  <2>1. /\ pc[t] = "freerecs" /\ op[t] = "dealloc" /\ on[t] \in Threads /\ Goto(t, "idle")
        /\ work' = [work EXCEPT ![on[t]] = <<>>]
        /\ heap' = [heap EXCEPT ![on[t]] = @ \ {work[on[t]][k] : k \in DOMAIN work[on[t]]}]
        /\ on' = [on EXCEPT ![t] = NoThread] /\ cur' = cur /\ left' = left
    BY <1>34 DEF free_records
  <2>2. iter[on[t]] = "dying"
    <3>1. Freeing(t)
      BY <2>1 DEF Freeing
    <3>2. QED
      BY <3>1 DEF OwnInv
  <2>3. cur[t] = NoRecord
    BY <2>1
  <2>4. \A u \in Threads : Hand(u) => on[u] \in Threads \ {on[t]}
    BY <2>2, HandTypes DEF OwnInv
  <2>5. heap[on[t]] \ {work[on[t]][k] : k \in DOMAIN work[on[t]]} = {}
    <3> SUFFICES ASSUME NEW r \in heap[on[t]]
                 PROVE  \E k \in DOMAIN work[on[t]] : work[on[t]][k] = r
      OBVIOUS
    <3>1. r \in Records
      BY <2>1
    <3>2. \/ \E k \in DOMAIN work[on[t]] : work[on[t]][k] = r
          \/ \E u \in Threads : Hand(u) /\ on[u] = on[t] /\ r \in Held(u)
      <4> HIDE DEF Hand
      <4>1. \A i \in Threads : \A q \in Records :
              q \in heap[i] <=> \/ \E k \in DOMAIN work[i] : work[i][k] = q
                                \/ \E u \in Threads : Hand(u) /\ on[u] = i /\ q \in Held(u)
        BY DEF RecInv, HeapExact
      <4> QED
        BY ONLY <4>1, <2>1, <3>1, r \in heap[on[t]]
    <3>3. QED
      BY <2>4, <3>2
  <2>6. heap' = [heap EXCEPT ![on[t]] = {}]
    BY <2>1, <2>5
  <2>7. \A u \in Threads : /\ Hand(u)' <=> Hand(u)
                           /\ Hand(u) => Keeps(u)
    BY <2>1, <2>3
  <2>8. QED
    BY <2>1, <2>4, <2>6, <2>7, NewListRecords
<1>35. ASSUME NEW t \in Threads, CloseInsideNext(t) PROVE RecInv(Below)'
  <2>1. QuietFor(t)
    BY <1>35 DEF CloseInsideNext
  <2>2. QED
    BY <2>1, QuietRecords
<1>36. ASSUME NEW t \in Threads, NEW i \in Threads, ReaderIter_next(t, i) PROVE RecInv(Below)'
  <2>1. pc[t] = "idle" /\ cur[t] = NoRecord /\ UNCHANGED <<work, heap>>
    BY <1>36 DEF ReaderIter_next, Call
  <2>2. /\ cur'[t] = NoRecord
        /\ \A u \in Threads \ {t} : Keeps(u)
    BY <1>36 DEF ReaderIter_next, Call
  <2>3. QuietFor(t)
    BY <2>1, <2>2
  <2>4. QED
    BY <2>3, QuietRecords
<1>37. ASSUME NEW t \in Threads, NEW i \in Threads, ReaderIter_dealloc(t, i) PROVE RecInv(Below)'
  <2>1. pc[t] = "idle" /\ cur[t] = NoRecord /\ UNCHANGED <<work, heap, cur, left>>
    BY <1>37 DEF ReaderIter_dealloc
  <2>2. \A u \in Threads \ {t} : pc'[u] = pc[u] /\ on'[u] = on[u]
    BY <1>37 DEF ReaderIter_dealloc
  <2>3. QuietFor(t)
    BY <2>1, <2>2
  <2>4. QED
    BY <2>3, QuietRecords
<1>38. CASE UNCHANGED vars
  BY <1>38, <1>0 DEF vars
<1>39. ASSUME NEW t \in Threads, StopTheWorld(t) PROVE RecInv(Below)'
  BY <1>39, <1>0 DEF StopTheWorld
<1>40. ASSUME NEW t \in Threads, StartTheWorld(t) PROVE RecInv(Below)'
  BY <1>40, <1>0 DEF StartTheWorld
<1>41. ASSUME NEW t \in Threads, close_flag(t) PROVE RecInv(Below)'
  <2>1. QuietFor(t)
    BY <1>41 DEF close_flag
  <2>2. QED
    BY <2>1, QuietRecords
<1>42. QED
  BY <1>1, <1>2, <1>3, <1>4, <1>5, <1>6, <1>7, <1>8, <1>9, <1>10, <1>11, <1>12, <1>13, <1>14, <1>15,
     <1>16, <1>17, <1>18, <1>19, <1>20, <1>21, <1>22, <1>23, <1>24, <1>25, <1>26, <1>27, <1>28, <1>29, <1>30,
     <1>31, <1>32, <1>33, <1>34, <1>35, <1>36, <1>37, <1>38, <1>39, <1>40, <1>41
  DEF Next, Request, Step, Finished

\* The inductive invariant about records, for the positions Below of a tree.
RecordsInv(Below) ==
  TypeOK /\ CallInv /\ LockInv /\ GilInv /\ OwnInv /\ FlagInv /\ UserInv /\ RecInv(Below)

\* It holds in every reachable state.
LEMMA RecordsInvariance ==
  ASSUME NEW CONSTANT Below, IsTree(Below), UseGil \/ ~ShareIterators
  PROVE  Spec => []RecordsInv(Below)
<1>1. Init => RecordsInv(Below)
  <2> SUFFICES ASSUME Init PROVE RecordsInv(Below)
    OBVIOUS
  <2>1. TypeOK /\ CallInv /\ LockInv /\ GilInv
    BY InitInv DEF IndInv
  <2>2. OwnInv
    BY DEF Init, OwnInv, Destroying, Freeing, WriteSteps
  <2>3. FlagInv /\ UserInv
    BY DEF Init, FlagInv, UserInv
  <2>4. \A t \in Threads : ~Hand(t) /\ work[t] = <<>> /\ heap[t] = {}
    BY DEF Init, Hand
  <2>5. HeapExact
    BY <2>4 DEF HeapExact
  <2>6. ListApart(Below)
    BY <2>4 DEF ListApart
  <2>7. HandsOffList(Below) /\ HandsApart(Below)
    BY <2>4 DEF HandsOffList, HandsApart
  <2>8. QED
    BY <2>1, <2>2, <2>3, <2>5, <2>6, <2>7 DEF RecordsInv, RecInv
<1>2. RecordsInv(Below) /\ [Next]_vars => RecordsInv(Below)'
  BY TypeStep, CallStep, LockStep, GilStep, OwnStep, FlagStep, UserStep, RecStep DEF RecordsInv
<1>3. QED
  BY <1>1, <1>2, PTL DEF Spec

\* Every record that an iterator has calloc'ed and not freed is on its list or
\* in one ReaderIter_next's hand, never in two places: a record is freed once,
\* and not used afterwards.  The lock alone does not give this (two readers may
\* hold it), hence the GIL or an iterator that stays on its thread.
THEOREM RecordsAccountedSafety ==
  (\E Below : IsTree(Below)) /\ (UseGil \/ ~ShareIterators) => (Spec => []RecordsAccounted)
<1> SUFFICES ASSUME NEW CONSTANT Below, IsTree(Below), UseGil \/ ~ShareIterators
             PROVE  Spec => []RecordsAccounted
  OBVIOUS
<1>1. RecordsInv(Below) => RecordsAccounted
  <2> SUFFICES ASSUME RecordsInv(Below), NEW i \in Threads
               PROVE  /\ heap[i] = OnList(i) \cup UNION {Held(t) : t \in InHand(i)}
                      /\ \A t \in InHand(i) : Held(t) \cap OnList(i) = {}
                      /\ \A t, u \in InHand(i) : t # u => Held(t) \cap Held(u) = {}
    BY DEF RecordsAccounted
  <2>1. TypeOK /\ CallInv /\ UserInv /\ RecInv(Below)
    BY DEF RecordsInv
  <2>2. \A t \in Threads : t \in InHand(i) <=> Hand(t) /\ on[t] = i
    BY DEF InHand, Hand
  <2>3. \A t \in InHand(i) : /\ t \in Threads /\ Hand(t) /\ on[t] = i
                             /\ Held(t) \subseteq Records /\ Held(t) \subseteq Region(t, Below)
    BY <2>1, <2>2, HandTypes DEF InHand
  <2>4. \A r : r \in OnList(i) <=> \E k \in DOMAIN work[i] : work[i][k] = r
    BY DEF OnList
  <2>5. OnList(i) \subseteq Records
    BY <2>1, <2>4 DEF TypeOK, IteratorTypes
  <2>6. heap[i] \subseteq Records
    BY <2>1 DEF TypeOK, IteratorTypes
  <2>7. \A r \in Records : r \in heap[i] <=> r \in OnList(i) \/ \E t \in InHand(i) : r \in Held(t)
    <3> SUFFICES ASSUME NEW r \in Records
                 PROVE  r \in heap[i] <=> r \in OnList(i) \/ \E t \in InHand(i) : r \in Held(t)
      OBVIOUS
    <3>1. r \in heap[i] <=> \/ \E k \in DOMAIN work[i] : work[i][k] = r
                            \/ \E t \in Threads : Hand(t) /\ on[t] = i /\ r \in Held(t)
      BY <2>1 DEF RecInv, HeapExact
    <3>2. (\E t \in InHand(i) : r \in Held(t)) <=> \E t \in Threads : Hand(t) /\ on[t] = i /\ r \in Held(t)
      BY <2>2, <2>3
    <3>3. QED
      BY <2>4, <3>1, <3>2
  <2>8. \A t \in InHand(i) : Held(t) \cap OnList(i) = {}
    <3> SUFFICES ASSUME NEW t \in InHand(i), NEW k \in DOMAIN work[i], work[i][k] \in Held(t) PROVE FALSE
      BY <2>4
    <3>1. work[i][k] \in Below[work[i][k]]
      BY <2>3 DEF IsTree
    <3>2. Region(t, Below) \cap Below[work[i][k]] = {}
      BY <2>1, <2>3 DEF RecInv, HandsOffList
    <3>3. QED
      BY <2>3, <3>1, <3>2
  <2>9. \A t, u \in InHand(i) : t # u => Held(t) \cap Held(u) = {}
    <3> SUFFICES ASSUME NEW t \in InHand(i), NEW u \in InHand(i), t # u
                 PROVE  Held(t) \cap Held(u) = {}
      OBVIOUS
    <3>1. Region(t, Below) \cap Region(u, Below) = {}
      BY <2>1, <2>3 DEF RecInv, HandsApart
    <3>2. QED
      BY <2>3, <3>1
  <2>10. heap[i] = OnList(i) \cup UNION {Held(t) : t \in InHand(i)}
    <3>1. \A r : r \in UNION {Held(t) : t \in InHand(i)} <=> \E t \in InHand(i) : r \in Held(t)
      OBVIOUS
    <3>2. QED
      BY <2>3, <2>5, <2>6, <2>7, <3>1
  <2>11. QED
    BY <2>8, <2>9, <2>10
<1>2. QED
  BY <1>1, RecordsInvariance, PTL

\* When the Reader and its iterators are gone and no call is running, the file
\* is unmapped and every record that was calloc'ed has been freed.
THEOREM NothingLeakedSafety ==
  (\E Below : IsTree(Below)) /\ (UseGil \/ ~ShareIterators) => (Spec => []NothingLeaked)
<1> SUFFICES ASSUME NEW CONSTANT Below, IsTree(Below), UseGil \/ ~ShareIterators
             PROVE  Spec => []NothingLeaked
  OBVIOUS
<1>1. RecordsInv(Below) => NothingLeaked
  <2> SUFFICES ASSUME RecordsInv(Below), obj = "freed",
                      \A t \in Threads : pc[t] = "idle" /\ iter[t] = "none"
               PROVE  mapping # "mapped" /\ \A i \in Threads : heap[i] = {}
    BY DEF NothingLeaked
  <2>1. mapping # "mapped"
    BY DEF RecordsInv, FlagInv
  <2>2. TypeOK /\ CallInv /\ UserInv /\ RecInv(Below)
    BY DEF RecordsInv
  <2>3. \A t \in Threads : ~Hand(t) /\ work[t] = <<>>
    BY <2>2 DEF Hand, UserInv, CallInv, WriteSteps
  <2>4. \A i \in Threads : \A r \in Records : r \notin heap[i]
    BY <2>2, <2>3 DEF RecInv, HeapExact
  <2>5. QED
    BY <2>1, <2>2, <2>4 DEF TypeOK, IteratorTypes
<1>2. QED
  BY <1>1, RecordsInvariance, PTL

=============================================================================
