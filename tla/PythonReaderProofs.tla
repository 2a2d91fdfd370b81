------------------------- MODULE PythonReaderProofs --------------------------
(***************************************************************************)
(* Proofs about PythonReader, for every number of threads, every size of   *)
(* the file and every bound.  The inductive invariant is                   *)
(*                                                                         *)
(*   TypeInv    the types,                                                 *)
(*   CallInv    what a thread may be doing at each step, and that nothing  *)
(*              runs in a child that was not forked,                       *)
(*   LockInv    FileBuffer._lock is held exactly between seek and read,    *)
(*   HandleInv  what the file object, its descriptor's number and the flag *)
(*              closed say of each other, in each process,                 *)
(*   CacheInv   as long as there is one process, the file's offset is      *)
(*              where io.BufferedReader takes it to be,                    *)
(*   LateInv    how far a call that began after close() can get,           *)
(*                                                                         *)
(* and ReadsRightBytes itself, which is inductive relative to these.       *)
(***************************************************************************)
EXTENDS PythonReader, TLAPS

ReaderTypes ==
  /\ pread \in BOOLEAN /\ shared \in BOOLEAN /\ obj \in {"new", "live", "failed", "extension"}
  /\ kind \in Buffers \cup {"none"} /\ forked \in BOOLEAN
  /\ handle \in [Processes -> {"none", "open", "closed"}]
  /\ closed \in [Processes -> {"unset", "False", "True"}]
  /\ fd \in [Processes -> {"database", "other", "free"}]

FileTypes ==
  /\ offset \in 0..Blocks /\ lock \in [Processes -> Threads \cup {NoThread}]
  /\ cache = [p \in Processes |-> cache[p]]

CallTypes ==
  /\ pc \in [Threads -> {"idle", "access", "pread", "seek", "read", "close_buffer", "set_closed"}]
  /\ op = [t \in Threads |-> op[t]]
  /\ res = [t \in Threads |-> res[t]]
  /\ left \in [Threads -> 0..MaxReads]
  /\ want \in [Threads -> (0..(Blocks - 1)) \X (0..(Blocks - 1))]
  /\ foreign \in [Threads -> BOOLEAN]
  /\ closeSeen \in [Processes -> BOOLEAN] /\ late \in [Threads -> BOOLEAN]

TypeInv == ReaderTypes /\ FileTypes /\ CallTypes

\* The method and the buffer that a step belongs to; the child runs, and has
\* run, nothing before it is forked.
CallInv ==
  \A t \in Threads :
    /\ pc[t] # "idle" \/ late[t] \/ foreign[t] => obj = "live" /\ (t = Child => forked)
    /\ pc[t] \in {"access", "pread", "seek", "read"} => op[t] = "get" /\ left[t] > 0
    /\ pc[t] \in {"close_buffer", "set_closed"} => op[t] = "close"
    /\ pc[t] = "pread" => kind = "FileBuffer" /\ pread
    /\ pc[t] \in {"seek", "read"} => kind = "FileBuffer" /\ ~pread
    /\ pc[t] = "read" => want[t][2] \in {want[t][1], want[t][1] + 1}

\* The lock is held from _read_lock to the end of the with statement; a
\* threading.Lock of the parent is never held by a thread of the child.
LockInv ==
  /\ \A t \in Threads : pc[t] \in {"seek", "read"} <=> lock[LockOf(Process(t))] = t
  /\ ~shared => lock["parent"] # Child

\* A number means the database as long as the file object is open, a file that
\* was opened is open or closed, and a flag that is set means closed.
HandleInv ==
  /\ obj = "new" => kind = "none"
  /\ forked => obj = "live"
  /\ obj = "live" => kind \in Buffers
  /\ kind = "none" => handle["parent"] = "none"
  /\ \A p \in Processes :
       /\ p = "child" /\ ~forked => handle[p] = "none" /\ closed[p] = "unset" /\ ~closeSeen[p]
       /\ fd[p] = "database" <=> handle[p] = "open"
       /\ fd[p] = "other" => handle[p] = "closed"
       /\ kind # "bytes" /\ closed[p] = "True" => handle[p] = "closed"
       /\ closeSeen[p] => closed[p] = "True"
       /\ obj = "live" /\ kind # "bytes" /\ (p = "child" => forked) => handle[p] # "none"
  /\ \A t \in Threads : pc[t] = "set_closed" /\ kind # "bytes" => handle[Process(t)] = "closed"

\* What BufferedReader holds is the block before the offset; between seek and
\* read it holds the first block asked for, or nothing and the offset is there.
CacheInv ==
  ~forked /\ ~pread =>
    /\ \/ cache["parent"] = <<>>
       \/ offset > 0 /\ cache["parent"] = <<offset - 1, offset - 1>>
    /\ \A t \in Threads : pc[t] = "read" =>
         \/ cache["parent"] = <<>> /\ offset = want[t][1]
         \/ cache["parent"] = <<want[t][1], want[t][1]>> /\ offset = want[t][1] + 1

\* A call that began after close() gets as far as the check of the file object.
LateInv ==
  \A t \in Threads : late[t] =>
    /\ closed[Process(t)] = "True"
    /\ kind # "bytes" /\ op[t] \in {"get", "__enter__"} =>
         res[t] # "value" /\ ~foreign[t] /\ pc[t] \in {"idle", "access", "seek"}

\* What the constructor does to the object.
Opens ==
  /\ obj = "new" /\ UNCHANGED <<pread, shared, forked, offset, cache, lock, locals, history>>
  /\ \/ obj' \in {"extension", "failed"} /\ UNCHANGED <<kind, handle, fd, closed>>
     \/ /\ obj' \in {"live", "failed"} /\ kind' \in Buffers
        /\ \E h \in {"open", "closed"}, c \in {"False", "True", "unset"} :
             /\ obj' = "live" => h = "open"
             /\ c = "True" => h = "closed"
             /\ handle' = InParent(IF kind' = "bytes" THEN "none" ELSE h, "none")
             /\ fd' = InParent(IF kind' # "bytes" /\ h = "open" THEN "database" ELSE "free", "free")
             /\ closed' = InParent(c, "unset")

\* Whatever the mode and the platform.
LEMMA OpenEffect ==
  ASSUME NEW mode \in Modes, NEW e \in BOOLEAN, NEW m \in BOOLEAN, Open(mode, e, m)
  PROVE  Opens
<1>1. /\ obj = "new" /\ UNCHANGED <<pread, shared, forked, offset, cache, lock, locals, history>>
      /\ \/ __init__(_load_buffer(mode, m))
         \/ obj' \in {"extension", "failed"} /\ UNCHANGED <<kind, handle, fd, closed>>
  BY DEF Open
<1>2. ASSUME __init__(_load_buffer(mode, m)) PROVE Opens
  <2> DEFINE buffer == _load_buffer(mode, m)
  <2> HIDE DEF buffer
  <2>1. __init__(buffer)
    BY <1>2 DEF buffer
  <2>2. CASE obj' = "failed" /\ UNCHANGED <<kind, handle, fd, closed>>
    BY <1>1, <2>2 DEF Opens
  <2>3. ASSUME NEW h \in {"open", "closed"}, NEW c \in {"False", "True", "unset"},
               obj' = "live" => h = "open", c = "True" => h = "closed",
               obj' \in {"live", "failed"}, buffer \in Buffers, kind' = buffer,
               handle' = InParent(IF buffer = "bytes" THEN "none" ELSE h, "none"),
               fd' = InParent(IF buffer # "bytes" /\ h = "open" THEN "database" ELSE "free", "free"),
               closed' = InParent(c, "unset")
        PROVE  Opens
    BY <1>1, <2>3 DEF Opens
  <2>4. QED
    BY <2>1, <2>2, <2>3 DEF __init__
<1>3. QED
  BY <1>1, <1>2 DEF Opens

\* What a read does to the call, the lock and the file.
Reads(t) ==
  /\ pc[t] = "read" /\ lock' = [lock EXCEPT ![LockOf(Process(t))] = NoThread]
  /\ want' = [want EXCEPT ![t] = <<0, 0>>]
  /\ UNCHANGED <<reader, fd, op, history>>
  /\ \/ /\ handle[Process(t)] = "closed" /\ Raise(t, "ValueError")
        /\ UNCHANGED <<offset, cache>>
     \/ /\ handle[Process(t)] = "open"
        /\ Got(t, TRUE) \/ Got(t, FALSE) \/ Raise(t, "InvalidDatabaseError")
        /\ offset' \in 0..Blocks
        /\ \E entry : cache' = [cache EXCEPT ![Process(t)] = entry]

\* Wherever the offset is.
LEMMA ReadEffect ==
  ASSUME TypeInv, CallInv, NEW t \in Threads, _read_read(t)
  PROVE  Reads(t)
<1> DEFINE p     == Process(t)
           first == want[t][1]
           last  == want[t][2]
           hit   == cache[p] # <<>> /\ cache[p][1] = first
           raw   == FromOffset(IF hit THEN last - first ELSE last - first + 1)
           data  == (IF hit THEN <<cache[p][2]>> ELSE <<>>) \o raw
           right == data = [k \in 1..(last - first + 1) |-> first + k - 1]
<1>1. /\ pc[t] = "read" /\ want' = [want EXCEPT ![t] = <<0, 0>>]
      /\ UNCHANGED <<reader, fd, op, history>>
      /\ \/ /\ handle[p] = "closed" /\ Raise(t, "ValueError")
            /\ leave_lock(t, TRUE)
            /\ UNCHANGED <<offset, cache>>
         \/ /\ handle[p] = "open"
            /\ leave_lock(t, FALSE)
            /\ Got(t, right) \/ (~right /\ Raise(t, "InvalidDatabaseError"))
            /\ offset' = IF offset + Len(raw) > Blocks THEN Blocks ELSE offset + Len(raw)
            /\ cache' = [cache EXCEPT ![p] = <<last, data[Len(data)]>>]
  BY DEF _read_read, At
<1>2. last - first \in {0, 1}
  <2>1. first \in 0..(Blocks - 1) /\ last \in 0..(Blocks - 1) /\ last \in {first, first + 1}
    BY <1>1 DEF TypeInv, CallTypes, CallInv
  <2>2. QED
    BY <2>1, PythonAssumption
<1>3. Len(raw) \in Nat
  <2>1. ASSUME NEW n \in 0..2 PROVE Len(FromOffset(n)) = n
    BY DEF FromOffset, TypeInv, FileTypes
  <2>2. (IF hit THEN last - first ELSE last - first + 1) \in 0..2
    BY <1>2
  <2>3. QED
    BY <2>1, <2>2
<1>4. (IF offset + Len(raw) > Blocks THEN Blocks ELSE offset + Len(raw)) \in 0..Blocks
  BY <1>3, PythonAssumption DEF TypeInv, FileTypes
<1> HIDE DEF right, raw, data
<1>5. right \in BOOLEAN
  BY DEF right
<1>6. Got(t, right) => Got(t, TRUE) \/ Got(t, FALSE)
  BY <1>5
<1> QED
  BY <1>1, <1>4, <1>6 DEF Reads, leave_lock

\* One block and the blocks that follow it.
LEMMA Blockwise ==
  ASSUME NEW a \in Nat
  PROVE  /\ <<a>> \o [k \in 1..0 |-> (a + 1) + k - 1] = [k \in 1..1 |-> a + k - 1]
         /\ <<a>> \o [k \in 1..1 |-> (a + 1) + k - 1] = [k \in 1..2 |-> a + k - 1]
         /\ <<>> \o [k \in 1..1 |-> a + k - 1] = [k \in 1..1 |-> a + k - 1]
         /\ <<>> \o [k \in 1..2 |-> a + k - 1] = [k \in 1..2 |-> a + k - 1]
<1> DEFINE S(n) == [k \in 1..n |-> a + k - 1]
           R(n) == [k \in 1..n |-> (a + 1) + k - 1]
<1>1. ASSUME NEW n \in 0..2
      PROVE  S(n) \in Seq(Nat) /\ Len(S(n)) = n /\ R(n) \in Seq(Nat) /\ Len(R(n)) = n
  OBVIOUS
<1>2. <<a>> \o R(0) = S(1)
  <2>1. R(0) = <<>>
    BY <1>1
  <2>2. S(1) = <<a>>
    OBVIOUS
  <2>3. QED
    BY <2>1, <2>2
<1>3. <<a>> \o R(1) = S(2)
  <2>1. R(1) = <<a + 1>>
    OBVIOUS
  <2>2. S(2) = <<a, a + 1>>
    OBVIOUS
  <2>3. QED
    BY <2>1, <2>2
<1>4. <<>> \o S(1) = S(1) /\ <<>> \o S(2) = S(2)
  BY <1>1
<1>5. QED
  BY <1>2, <1>3, <1>4

\* In one process the read is right, and the buffer and the offset then agree.
LEMMA ReadRight ==
  ASSUME TypeInv, CallInv, CacheInv, ~forked, NEW t \in Threads, _read_read(t)
  PROVE  \/ /\ Raise(t, "ValueError") /\ UNCHANGED <<offset, cache>>
         \/ /\ Got(t, TRUE) /\ offset' = want[t][2] + 1
            /\ cache'["parent"] = <<want[t][2], want[t][2]>>
<1> DEFINE first == want[t][1]
           last  == want[t][2]
           hit   == cache["parent"] # <<>> /\ cache["parent"][1] = first
           raw   == FromOffset(IF hit THEN last - first ELSE last - first + 1)
           data  == (IF hit THEN <<cache["parent"][2]>> ELSE <<>>) \o raw
           right == data = [k \in 1..(last - first + 1) |-> first + k - 1]
<1>1. Process(t) = "parent"
  BY DEF _read_read, At, Process
<1>2. /\ pc[t] = "read"
      /\ \/ Raise(t, "ValueError") /\ UNCHANGED <<offset, cache>>
         \/ /\ Got(t, right) \/ (~right /\ Raise(t, "InvalidDatabaseError"))
            /\ offset' = IF offset + Len(raw) > Blocks THEN Blocks ELSE offset + Len(raw)
            /\ cache' = [cache EXCEPT !["parent"] = <<last, data[Len(data)]>>]
  BY <1>1 DEF _read_read, At
<1>3. /\ first \in Nat /\ last \in Nat /\ last \in {first, first + 1} /\ last < Blocks
  <2>1. first \in 0..(Blocks - 1) /\ last \in 0..(Blocks - 1) /\ last \in {first, first + 1}
    BY <1>2 DEF TypeInv, CallTypes, CallInv
  <2>2. QED
    BY <2>1, PythonAssumption
<1>4. \/ cache["parent"] = <<>> /\ offset = first
      \/ cache["parent"] = <<first, first>> /\ offset = first + 1
  BY <1>2 DEF CacheInv, CallInv
<1>5. right /\ Len(raw) = last + 1 - offset /\ data[Len(data)] = last
  <2>1. \/ ~hit /\ offset = first
        \/ hit /\ cache["parent"][2] = first /\ offset = first + 1
    BY <1>3, <1>4
  <2>2. CASE ~hit /\ offset = first /\ last = first
    <3>1. raw = [k \in 1..1 |-> first + k - 1] /\ data = <<>> \o raw
      BY <1>3, <2>2 DEF FromOffset
    <3>2. data = [k \in 1..1 |-> first + k - 1]
      BY <1>3, <3>1, Blockwise
    <3>3. last - first + 1 = 1 /\ last + 1 - offset = 1
      BY <1>3, <2>2
    <3>4. right
      BY <3>2, <3>3
    <3>5. Len(raw) = 1
      BY <1>3, <3>1
    <3>6. Len(data) = 1 /\ data[1] = first
      <4> HIDE DEF data, first
      <4> QED
        BY <1>3, <3>2
    <3>7. QED
      BY <2>2, <3>3, <3>4, <3>5, <3>6
  <2>3. CASE ~hit /\ offset = first /\ last = first + 1
    <3>1. raw = [k \in 1..2 |-> first + k - 1] /\ data = <<>> \o raw
      BY <1>3, <2>3 DEF FromOffset
    <3>2. data = [k \in 1..2 |-> first + k - 1]
      BY <1>3, <3>1, Blockwise
    <3>3. last - first + 1 = 2 /\ last + 1 - offset = 2
      BY <1>3, <2>3
    <3>4. right
      BY <3>2, <3>3
    <3>5. Len(raw) = 2
      BY <1>3, <3>1
    <3>6. Len(data) = 2 /\ data[2] = first + 1
      <4> HIDE DEF data, first
      <4> QED
        BY <1>3, <3>2
    <3>7. QED
      BY <2>3, <3>3, <3>4, <3>5, <3>6
  <2>4. CASE hit /\ cache["parent"][2] = first /\ offset = first + 1 /\ last = first
    <3>1. raw = [k \in 1..0 |-> (first + 1) + k - 1] /\ data = <<first>> \o raw
      BY <1>3, <2>4 DEF FromOffset
    <3>2. data = [k \in 1..1 |-> first + k - 1]
      BY <1>3, <3>1, Blockwise
    <3>3. last - first + 1 = 1 /\ last + 1 - offset = 0
      BY <1>3, <2>4
    <3>4. right
      BY <3>2, <3>3
    <3>5. Len(raw) = 0
      BY <1>3, <3>1
    <3>6. Len(data) = 1 /\ data[1] = first
      <4> HIDE DEF data, first
      <4> QED
        BY <1>3, <3>2
    <3>7. QED
      BY <2>4, <3>3, <3>4, <3>5, <3>6
  <2>5. CASE hit /\ cache["parent"][2] = first /\ offset = first + 1 /\ last = first + 1
    <3>1. raw = [k \in 1..1 |-> (first + 1) + k - 1] /\ data = <<first>> \o raw
      BY <1>3, <2>5 DEF FromOffset
    <3>2. data = [k \in 1..2 |-> first + k - 1]
      BY <1>3, <3>1, Blockwise
    <3>3. last - first + 1 = 2 /\ last + 1 - offset = 1
      BY <1>3, <2>5
    <3>4. right
      BY <3>2, <3>3
    <3>5. Len(raw) = 1
      BY <1>3, <3>1
    <3>6. Len(data) = 2 /\ data[2] = first + 1
      <4> HIDE DEF data, first
      <4> QED
        BY <1>3, <3>2
    <3>7. QED
      BY <2>5, <3>3, <3>4, <3>5, <3>6
  <2>6. QED
    BY <1>3, <2>1, <2>2, <2>3, <2>4, <2>5
<1> HIDE DEF right, raw, data
<1>6. offset + Len(raw) = last + 1 /\ ~(offset + Len(raw) > Blocks)
  BY <1>3, <1>5, PythonAssumption DEF TypeInv, FileTypes
<1>7. cache["parent"] = cache["parent"] /\ "parent" \in DOMAIN cache
  BY DEF TypeInv, FileTypes, Processes
<1>8. right = TRUE
  BY <1>5 DEF right
<1>9. QED
  BY <1>2, <1>5, <1>6, <1>7, <1>8

\* Every step keeps the types.
LEMMA TypeStep == TypeInv /\ CallInv /\ [Next]_vars => TypeInv'
<1> SUFFICES ASSUME TypeInv, CallInv, [Next]_vars PROVE TypeInv'
  OBVIOUS
<1> USE PythonAssumption
    DEF TypeInv, ReaderTypes, FileTypes, CallTypes, CallInv, Processes, Process, LockOf, Buffers, InParent,
        reader, file, locals, history, At, Goto
<1>1. ASSUME NEW mode \in Modes, NEW e \in BOOLEAN, NEW m \in BOOLEAN, Open(mode, e, m) PROVE TypeInv'
  BY <1>1, OpenEffect DEF Opens
<1>2. ASSUME Finalize PROVE TypeInv'
  BY <1>2 DEF Finalize
<1>3. ASSUME Fork PROVE TypeInv'
  <2>1. lock' \in [Processes -> Threads \cup {NoThread}]
    BY <1>3 DEF Fork
  <2>2. ReaderTypes'
    BY <1>3 DEF Fork
  <2>3. CallTypes'
    BY <1>3 DEF Fork
  <2>4. offset' \in 0..Blocks /\ cache' = [p \in Processes |-> cache'[p]]
    BY <1>3 DEF Fork
  <2>5. QED
    BY <2>1, <2>2, <2>3, <2>4
<1>4. ASSUME NEW p \in Processes, OtherFile(p) PROVE TypeInv'
  BY <1>4 DEF OtherFile
<1>5. ASSUME NEW t \in Threads, NEW n \in 1..MaxReads, get(t, n) PROVE TypeInv'
  <2>1. ReaderTypes' /\ FileTypes'
    BY <1>5 DEF get, Begin
  <2>2. CallTypes'
    <3>1. left' \in [Threads -> 0..MaxReads]
      BY <1>5 DEF get, Begin
    <3>2. QED
      BY <1>5, <3>1 DEF get, Begin
  <2>3. QED
    BY <2>1, <2>2
<1>6. ASSUME NEW t \in Threads, get_without_access(t) PROVE TypeInv'
  <2>1. ASSUME NEW r \in {"value", "ValueError", "TypeError"}, AtOnce(t, "get_without_access", r),
               UNCHANGED closeSeen
        PROVE  TypeInv'
    BY <2>1 DEF AtOnce, Begin
  <2>2. QED
    BY <1>6, <2>1 DEF get_without_access
<1>7. ASSUME NEW t \in Threads, metadata(t) PROVE TypeInv'
  BY <1>7 DEF metadata, AtOnce, Begin
<1>8. ASSUME NEW t \in Threads, __enter__(t) PROVE TypeInv'
  BY <1>8 DEF __enter__, AtOnce, Begin
<1>9. ASSUME NEW t \in Threads, read_closed(t) PROVE TypeInv'
  BY <1>9 DEF read_closed, AtOnce, Begin
<1>10. ASSUME NEW t \in Threads, close(t) PROVE TypeInv'
  BY <1>10 DEF close, Begin
<1>11. ASSUME NEW t \in Threads, close_buffer(t) PROVE TypeInv'
  BY <1>11 DEF close_buffer
<1>12. ASSUME NEW t \in Threads, set_closed(t) PROVE TypeInv'
  BY <1>12 DEF set_closed
<1>13. ASSUME NEW t \in Threads, __getitem__(t) PROVE TypeInv'
  <2>1. ReaderTypes' /\ FileTypes'
    BY <1>13 DEF __getitem__, Got, Raise
  <2>2. CallTypes'
    <3>1. left' \in [Threads -> 0..MaxReads]
      BY <1>13 DEF __getitem__, Got, Raise
    <3>2. pc' \in [Threads -> {"idle", "access", "pread", "seek", "read", "close_buffer", "set_closed"}]
      BY <1>13 DEF __getitem__, Got, Raise
    <3>3. res' = [u \in Threads |-> res'[u]]
      BY <1>13 DEF __getitem__, Got, Raise
    <3>4. foreign' \in [Threads -> BOOLEAN] /\ UNCHANGED <<op, want, closeSeen, late>>
      BY <1>13 DEF __getitem__, Got, Raise
    <3>5. QED
      BY <3>1, <3>2, <3>3, <3>4
  <2>3. QED
    BY <2>1, <2>2
<1>14. ASSUME NEW t \in Threads, _read_fileno(t) PROVE TypeInv'
  <2>1. ReaderTypes' /\ FileTypes'
    BY <1>14 DEF _read_fileno, Raise
  <2>2. CallTypes'
    <3>1. left' \in [Threads -> 0..MaxReads]
      BY <1>14 DEF _read_fileno, Raise
    <3>2. pc' \in [Threads -> {"idle", "access", "pread", "seek", "read", "close_buffer", "set_closed"}]
      BY <1>14 DEF _read_fileno, Raise
    <3>3. res' = [u \in Threads |-> res'[u]]
      BY <1>14 DEF _read_fileno, Raise
    <3>4. foreign' \in [Threads -> BOOLEAN] /\ UNCHANGED <<op, want, closeSeen, late>>
      BY <1>14 DEF _read_fileno, Raise
    <3>5. QED
      BY <3>1, <3>2, <3>3, <3>4
  <2>3. QED
    BY <2>1, <2>2
<1>15. ASSUME NEW t \in Threads, _read_pread(t) PROVE TypeInv'
  <2>1. ReaderTypes' /\ FileTypes'
    BY <1>15 DEF _read_pread, Got, Raise
  <2>2. /\ left' = left \/ left' = [left EXCEPT ![t] = @ - 1]
        /\ \/ foreign' = foreign
           \/ foreign' = [foreign EXCEPT ![t] = @ \/ ~TRUE]
           \/ foreign' = [foreign EXCEPT ![t] = @ \/ ~FALSE]
        /\ pc[t] = "pread" /\ (Goto(t, "idle") \/ Goto(t, "access"))
        /\ res' = res \/ \E r \in {"value", "ValueError", "OSError", "InvalidDatabaseError"} :
                            res' = [res EXCEPT ![t] = r]
        /\ UNCHANGED <<op, want, closeSeen, late>>
    BY <1>15 DEF _read_pread, Got, Raise
  <2>3. CallTypes'
    <3>1. left' \in [Threads -> 0..MaxReads]
      BY <2>2
    <3>2. foreign' \in [Threads -> BOOLEAN]
      BY <2>2
    <3>3. DOMAIN res' = Threads /\ res' = [u \in Threads |-> res'[u]]
      <4>1. CASE res' = res
        BY <4>1
      <4>2. ASSUME NEW r, res' = [res EXCEPT ![t] = r]
            PROVE  DOMAIN res' = Threads /\ res' = [u \in Threads |-> res'[u]]
        BY <4>2
      <4>3. QED
        BY <2>2, <4>1, <4>2
    <3>4. pc' \in [Threads -> {"idle", "access", "pread", "seek", "read", "close_buffer", "set_closed"}]
      BY <2>2
    <3>5. QED
      BY <2>2, <3>1, <3>2, <3>3, <3>4
  <2>4. QED
    BY <2>1, <2>3
<1>16. ASSUME NEW t \in Threads, _read_lock(t) PROVE TypeInv'
  BY <1>16 DEF _read_lock
<1>17. ASSUME NEW t \in Threads, _read_seek(t) PROVE TypeInv'
  <2>1. CASE /\ handle[Process(t)] = "closed" /\ Raise(t, "ValueError") /\ leave_lock(t, TRUE)
             /\ UNCHANGED <<offset, cache, want>>
    BY <1>17, <2>1 DEF _read_seek, Raise, leave_lock
  <2>2. ASSUME NEW first \in 0..(Blocks - 1), NEW last \in {first, first + 1}, last < Blocks,
               want' = [want EXCEPT ![t] = <<first, last>>], Goto(t, "read"),
               handle[Process(t)] = "open", UNCHANGED <<lock, left, foreign, res>>,
               \/ cache[Process(t)] # <<>> /\ cache[Process(t)][1] = first /\ UNCHANGED <<offset, cache>>
               \/ /\ ~(cache[Process(t)] # <<>> /\ cache[Process(t)][1] = first)
                  /\ offset' = first /\ cache' = [cache EXCEPT ![Process(t)] = <<>>]
        PROVE  TypeInv'
    <3>1. ReaderTypes' /\ FileTypes'
      BY <1>17, <2>2, SMTT(30) DEF _read_seek
    <3>2. CallTypes'
      BY <1>17, <2>2, SMTT(30) DEF _read_seek
    <3>3. QED
      BY <3>1, <3>2
  <2>3. CASE handle[Process(t)] = "open"
    <3>1. PICK first \in 0..(Blocks - 1) : \E last \in {first, first + 1} :
            /\ last < Blocks
            /\ want' = [want EXCEPT ![t] = <<first, last>>]
            /\ IF cache[Process(t)] # <<>> /\ cache[Process(t)][1] = first
                 THEN UNCHANGED <<offset, cache>>
                 ELSE offset' = first /\ cache' = [cache EXCEPT ![Process(t)] = <<>>]
      BY <1>17, <2>3 DEF _read_seek
    <3>2. PICK last \in {first, first + 1} :
            /\ last < Blocks
            /\ want' = [want EXCEPT ![t] = <<first, last>>]
            /\ IF cache[Process(t)] # <<>> /\ cache[Process(t)][1] = first
                 THEN UNCHANGED <<offset, cache>>
                 ELSE offset' = first /\ cache' = [cache EXCEPT ![Process(t)] = <<>>]
      BY <3>1
    <3>3. Goto(t, "read") /\ UNCHANGED <<lock, left, foreign, res>>
      BY <1>17, <2>3 DEF _read_seek
    <3>4. \/ cache[Process(t)] # <<>> /\ cache[Process(t)][1] = first /\ UNCHANGED <<offset, cache>>
          \/ /\ ~(cache[Process(t)] # <<>> /\ cache[Process(t)][1] = first)
             /\ offset' = first /\ cache' = [cache EXCEPT ![Process(t)] = <<>>]
      BY <3>2
    <3> HIDE DEF TypeInv
    <3>5. QED
      BY ONLY <2>2, <2>3, <3>1, <3>2, <3>3, <3>4
  <2>4. CASE handle[Process(t)] # "open"
    BY <1>17, <2>1, <2>4 DEF _read_seek
  <2>5. QED
    BY <2>3, <2>4
<1>18. ASSUME NEW t \in Threads, _read_read(t) PROVE TypeInv'
  <2>1. Reads(t)
    BY <1>18, ReadEffect
  <2>2. ReaderTypes'
    BY <2>1 DEF Reads
  <2>3. FileTypes'
    BY <2>1 DEF Reads
  <2>4. /\ left' = left \/ left' = [left EXCEPT ![t] = @ - 1]
        /\ \/ foreign' = foreign
           \/ foreign' = [foreign EXCEPT ![t] = @ \/ ~TRUE]
           \/ foreign' = [foreign EXCEPT ![t] = @ \/ ~FALSE]
        /\ pc[t] = "read" /\ (Goto(t, "idle") \/ Goto(t, "access"))
        /\ res' = res \/ \E r \in {"value", "ValueError", "OSError", "InvalidDatabaseError"} :
                            res' = [res EXCEPT ![t] = r]
        /\ want' = [want EXCEPT ![t] = <<0, 0>>] /\ UNCHANGED <<op, closeSeen, late>>
    BY <2>1 DEF Reads, Got, Raise
  <2>5. CallTypes'
    <3>1. left' \in [Threads -> 0..MaxReads]
      BY <2>4
    <3>2. foreign' \in [Threads -> BOOLEAN]
      BY <2>4
    <3>3. DOMAIN res' = Threads /\ res' = [u \in Threads |-> res'[u]]
      <4>1. CASE res' = res
        BY <4>1
      <4>2. ASSUME NEW r, res' = [res EXCEPT ![t] = r]
            PROVE  DOMAIN res' = Threads /\ res' = [u \in Threads |-> res'[u]]
        BY <4>2
      <4>3. QED
        BY <2>4, <4>1, <4>2
    <3>4. pc' \in [Threads -> {"idle", "access", "pread", "seek", "read", "close_buffer", "set_closed"}]
      BY <2>4
    <3>5. want' \in [Threads -> (0..(Blocks - 1)) \X (0..(Blocks - 1))]
      BY <2>4
    <3>6. QED
      BY <2>4, <3>1, <3>2, <3>3, <3>4, <3>5
  <2>6. QED
    BY <2>2, <2>3, <2>5
<1>19. CASE UNCHANGED vars
  BY <1>19 DEF vars
<1> HIDE DEF CallInv, TypeInv
<1>20. QED
  BY <1>1, <1>2, <1>3, <1>4, <1>5, <1>6, <1>7, <1>8, <1>9, <1>10, <1>11, <1>12, <1>13, <1>14, <1>15, <1>16, <1>17, <1>18, <1>19 DEF Next, Request, Step

\* Every step keeps what calls rest on.
LEMMA CallStep == TypeInv /\ CallInv /\ HandleInv /\ [Next]_vars => CallInv'
<1> SUFFICES ASSUME TypeInv, CallInv, HandleInv, [Next]_vars PROVE CallInv'
  OBVIOUS
<1> USE PythonAssumption
    DEF TypeInv, ReaderTypes, FileTypes, CallTypes, CallInv, Processes, Process, LockOf, Buffers, InParent, HandleInv,
        reader, file, locals, history, At, Goto
<1>1. ASSUME NEW mode \in Modes, NEW e \in BOOLEAN, NEW m \in BOOLEAN, Open(mode, e, m) PROVE CallInv'
  BY <1>1, OpenEffect DEF Opens
<1>2. ASSUME Finalize PROVE CallInv'
  BY <1>2 DEF Finalize
<1>3. ASSUME Fork PROVE CallInv'
  BY <1>3 DEF Fork
<1>4. ASSUME NEW p \in Processes, OtherFile(p) PROVE CallInv'
  BY <1>4 DEF OtherFile
<1>5. ASSUME NEW t \in Threads, NEW n \in 1..MaxReads, get(t, n) PROVE CallInv'
  BY <1>5 DEF get, Begin
<1>6. ASSUME NEW t \in Threads, get_without_access(t) PROVE CallInv'
  BY <1>6 DEF get_without_access, AtOnce, Begin
<1>7. ASSUME NEW t \in Threads, metadata(t) PROVE CallInv'
  BY <1>7 DEF metadata, AtOnce, Begin
<1>8. ASSUME NEW t \in Threads, __enter__(t) PROVE CallInv'
  BY <1>8 DEF __enter__, AtOnce, Begin
<1>9. ASSUME NEW t \in Threads, read_closed(t) PROVE CallInv'
  BY <1>9 DEF read_closed, AtOnce, Begin
<1>10. ASSUME NEW t \in Threads, close(t) PROVE CallInv'
  BY <1>10 DEF close, Begin
<1>11. ASSUME NEW t \in Threads, close_buffer(t) PROVE CallInv'
  BY <1>11 DEF close_buffer
<1>12. ASSUME NEW t \in Threads, set_closed(t) PROVE CallInv'
  BY <1>12 DEF set_closed
<1>13. ASSUME NEW t \in Threads, __getitem__(t) PROVE CallInv'
  BY <1>13 DEF __getitem__, Got, Raise
<1>14. ASSUME NEW t \in Threads, _read_fileno(t) PROVE CallInv'
  BY <1>14 DEF _read_fileno, Raise
<1>15. ASSUME NEW t \in Threads, _read_pread(t) PROVE CallInv'
  BY <1>15 DEF _read_pread, Got, Raise
<1>16. ASSUME NEW t \in Threads, _read_lock(t) PROVE CallInv'
  BY <1>16 DEF _read_lock
<1>17. ASSUME NEW t \in Threads, _read_seek(t) PROVE CallInv'
  <2>1. CASE /\ handle[Process(t)] = "closed" /\ Raise(t, "ValueError") /\ leave_lock(t, TRUE)
             /\ UNCHANGED <<offset, cache, want>>
    BY <1>17, <2>1 DEF _read_seek, Raise, leave_lock
  <2>2. ASSUME NEW first \in 0..(Blocks - 1), NEW last \in {first, first + 1}, last < Blocks,
               want' = [want EXCEPT ![t] = <<first, last>>], Goto(t, "read"),
               handle[Process(t)] = "open", UNCHANGED <<lock, left, foreign, res>>,
               \/ cache[Process(t)] # <<>> /\ cache[Process(t)][1] = first /\ UNCHANGED <<offset, cache>>
               \/ /\ ~(cache[Process(t)] # <<>> /\ cache[Process(t)][1] = first)
                  /\ offset' = first /\ cache' = [cache EXCEPT ![Process(t)] = <<>>]
        PROVE  CallInv'
    BY <1>17, <2>2 DEF _read_seek
  <2>3. CASE handle[Process(t)] = "open"
    <3>1. PICK first \in 0..(Blocks - 1) : \E last \in {first, first + 1} :
            /\ last < Blocks
            /\ want' = [want EXCEPT ![t] = <<first, last>>]
            /\ IF cache[Process(t)] # <<>> /\ cache[Process(t)][1] = first
                 THEN UNCHANGED <<offset, cache>>
                 ELSE offset' = first /\ cache' = [cache EXCEPT ![Process(t)] = <<>>]
      BY <1>17, <2>3 DEF _read_seek
    <3>2. PICK last \in {first, first + 1} :
            /\ last < Blocks
            /\ want' = [want EXCEPT ![t] = <<first, last>>]
            /\ IF cache[Process(t)] # <<>> /\ cache[Process(t)][1] = first
                 THEN UNCHANGED <<offset, cache>>
                 ELSE offset' = first /\ cache' = [cache EXCEPT ![Process(t)] = <<>>]
      BY <3>1
    <3>3. Goto(t, "read") /\ UNCHANGED <<lock, left, foreign, res>>
      BY <1>17, <2>3 DEF _read_seek
    <3>4. \/ cache[Process(t)] # <<>> /\ cache[Process(t)][1] = first /\ UNCHANGED <<offset, cache>>
          \/ /\ ~(cache[Process(t)] # <<>> /\ cache[Process(t)][1] = first)
             /\ offset' = first /\ cache' = [cache EXCEPT ![Process(t)] = <<>>]
      BY <3>2
    <3> HIDE DEF CallInv
    <3>5. QED
      BY ONLY <2>2, <2>3, <3>1, <3>2, <3>3, <3>4
  <2>4. CASE handle[Process(t)] # "open"
    BY <1>17, <2>1, <2>4 DEF _read_seek
  <2>5. QED
    BY <2>3, <2>4
<1>18. ASSUME NEW t \in Threads, _read_read(t) PROVE CallInv'
  <2>1. Reads(t)
    BY <1>18, ReadEffect
  <2>2. QED
    BY <2>1 DEF Reads, Got, Raise
<1>19. CASE UNCHANGED vars
  BY <1>19 DEF vars
<1> HIDE DEF CallInv, TypeInv
<1>20. QED
  BY <1>1, <1>2, <1>3, <1>4, <1>5, <1>6, <1>7, <1>8, <1>9, <1>10, <1>11, <1>12, <1>13, <1>14, <1>15, <1>16, <1>17, <1>18, <1>19 DEF Next, Request, Step

\* Nobody holds the lock outside the with statement.
LEMMA LockStep == TypeInv /\ CallInv /\ LockInv /\ [Next]_vars => LockInv'
<1> SUFFICES ASSUME TypeInv, CallInv, LockInv, [Next]_vars PROVE LockInv'
  OBVIOUS
<1> USE PythonAssumption
    DEF TypeInv, ReaderTypes, FileTypes, CallTypes, CallInv, Processes, Process, LockOf, Buffers, InParent, LockInv,
        reader, file, locals, history, At, Goto
<1>1. ASSUME NEW mode \in Modes, NEW e \in BOOLEAN, NEW m \in BOOLEAN, Open(mode, e, m) PROVE LockInv'
  BY <1>1, OpenEffect DEF Opens
<1>2. ASSUME Finalize PROVE LockInv'
  BY <1>2 DEF Finalize
<1>3. ASSUME Fork PROVE LockInv'
  BY <1>3 DEF Fork
<1>4. ASSUME NEW p \in Processes, OtherFile(p) PROVE LockInv'
  BY <1>4 DEF OtherFile
<1>5. ASSUME NEW t \in Threads, NEW n \in 1..MaxReads, get(t, n) PROVE LockInv'
  BY <1>5 DEF get, Begin
<1>6. ASSUME NEW t \in Threads, get_without_access(t) PROVE LockInv'
  BY <1>6 DEF get_without_access, AtOnce, Begin
<1>7. ASSUME NEW t \in Threads, metadata(t) PROVE LockInv'
  BY <1>7 DEF metadata, AtOnce, Begin
<1>8. ASSUME NEW t \in Threads, __enter__(t) PROVE LockInv'
  BY <1>8 DEF __enter__, AtOnce, Begin
<1>9. ASSUME NEW t \in Threads, read_closed(t) PROVE LockInv'
  BY <1>9 DEF read_closed, AtOnce, Begin
<1>10. ASSUME NEW t \in Threads, close(t) PROVE LockInv'
  BY <1>10 DEF close, Begin
<1>11. ASSUME NEW t \in Threads, close_buffer(t) PROVE LockInv'
  BY <1>11 DEF close_buffer
<1>12. ASSUME NEW t \in Threads, set_closed(t) PROVE LockInv'
  BY <1>12 DEF set_closed
<1>13. ASSUME NEW t \in Threads, __getitem__(t) PROVE LockInv'
  BY <1>13 DEF __getitem__, Got, Raise
<1>14. ASSUME NEW t \in Threads, _read_fileno(t) PROVE LockInv'
  BY <1>14 DEF _read_fileno, Raise
<1>15. ASSUME NEW t \in Threads, _read_pread(t) PROVE LockInv'
  BY <1>15 DEF _read_pread, Got, Raise
<1>16. ASSUME NEW t \in Threads, _read_lock(t) PROVE LockInv'
  BY <1>16 DEF _read_lock
<1>17. ASSUME NEW t \in Threads, _read_seek(t) PROVE LockInv'
  <2>1. CASE Goto(t, "idle") /\ leave_lock(t, TRUE)
    <3>1. /\ pc[t] = "seek" /\ pc' = [pc EXCEPT ![t] = "idle"] /\ UNCHANGED shared
          /\ lock' = [lock EXCEPT ![LockOf(Process(t))] = NoThread]
      BY <1>17, <2>1 DEF _read_seek, leave_lock
    <3>2. \A u \in Threads \ {t} :
            pc'[u] = pc[u] /\ (lock'[LockOf(Process(u))] = u <=> lock[LockOf(Process(u))] = u)
      BY <3>1
    <3>3. pc'[t] = "idle" /\ lock'[LockOf(Process(t))] = NoThread
      BY <3>1
    <3>4. ~shared => lock'["parent"] # Child
      BY <3>1
    <3>5. QED
      BY <3>1, <3>2, <3>3, <3>4
  <2>2. CASE Goto(t, "read") /\ UNCHANGED lock
    BY <1>17, <2>2 DEF _read_seek
  <2>3. QED
    BY <1>17, <2>1, <2>2 DEF _read_seek, Raise
<1>18. ASSUME NEW t \in Threads, _read_read(t) PROVE LockInv'
  <2>1. Reads(t)
    BY <1>18, ReadEffect
  <2>2. QED
    BY <2>1 DEF Reads, Got, Raise
<1>19. CASE UNCHANGED vars
  BY <1>19 DEF vars
<1> HIDE DEF CallInv, LockInv, TypeInv
<1>20. QED
  BY <1>1, <1>2, <1>3, <1>4, <1>5, <1>6, <1>7, <1>8, <1>9, <1>10, <1>11, <1>12, <1>13, <1>14, <1>15, <1>16, <1>17, <1>18, <1>19 DEF Next, Request, Step

\* Every step keeps file object, number and flag in agreement.
LEMMA HandleStep == TypeInv /\ CallInv /\ HandleInv /\ [Next]_vars => HandleInv'
<1> SUFFICES ASSUME TypeInv, CallInv, HandleInv, [Next]_vars PROVE HandleInv'
  OBVIOUS
<1> USE PythonAssumption
    DEF TypeInv, ReaderTypes, FileTypes, CallTypes, CallInv, Processes, Process, LockOf, Buffers, InParent, HandleInv,
        reader, file, locals, history, At, Goto
<1>1. ASSUME NEW mode \in Modes, NEW e \in BOOLEAN, NEW m \in BOOLEAN, Open(mode, e, m) PROVE HandleInv'
  BY <1>1, OpenEffect DEF Opens
<1>2. ASSUME Finalize PROVE HandleInv'
  BY <1>2 DEF Finalize
<1>3. ASSUME Fork PROVE HandleInv'
  BY <1>3 DEF Fork
<1>4. ASSUME NEW p \in Processes, OtherFile(p) PROVE HandleInv'
  BY <1>4 DEF OtherFile
<1>5. ASSUME NEW t \in Threads, NEW n \in 1..MaxReads, get(t, n) PROVE HandleInv'
  BY <1>5 DEF get, Begin
<1>6. ASSUME NEW t \in Threads, get_without_access(t) PROVE HandleInv'
  BY <1>6 DEF get_without_access, AtOnce, Begin
<1>7. ASSUME NEW t \in Threads, metadata(t) PROVE HandleInv'
  BY <1>7 DEF metadata, AtOnce, Begin
<1>8. ASSUME NEW t \in Threads, __enter__(t) PROVE HandleInv'
  BY <1>8 DEF __enter__, AtOnce, Begin
<1>9. ASSUME NEW t \in Threads, read_closed(t) PROVE HandleInv'
  BY <1>9 DEF read_closed, AtOnce, Begin
<1>10. ASSUME NEW t \in Threads, close(t) PROVE HandleInv'
  BY <1>10 DEF close, Begin
<1>11. ASSUME NEW t \in Threads, close_buffer(t) PROVE HandleInv'
  BY <1>11 DEF close_buffer
<1>12. ASSUME NEW t \in Threads, set_closed(t) PROVE HandleInv'
  BY <1>12 DEF set_closed
<1>13. ASSUME NEW t \in Threads, __getitem__(t) PROVE HandleInv'
  BY <1>13 DEF __getitem__, Got, Raise
<1>14. ASSUME NEW t \in Threads, _read_fileno(t) PROVE HandleInv'
  BY <1>14 DEF _read_fileno, Raise
<1>15. ASSUME NEW t \in Threads, _read_pread(t) PROVE HandleInv'
  BY <1>15 DEF _read_pread, Got, Raise
<1>16. ASSUME NEW t \in Threads, _read_lock(t) PROVE HandleInv'
  BY <1>16 DEF _read_lock
<1>17. ASSUME NEW t \in Threads, _read_seek(t) PROVE HandleInv'
  BY <1>17 DEF _read_seek, Raise, leave_lock
<1>18. ASSUME NEW t \in Threads, _read_read(t) PROVE HandleInv'
  <2>1. Reads(t)
    BY <1>18, ReadEffect
  <2>2. QED
    BY <2>1 DEF Reads, Got, Raise
<1>19. CASE UNCHANGED vars
  BY <1>19 DEF vars
<1> HIDE DEF CallInv, HandleInv, TypeInv
<1>20. QED
  BY <1>1, <1>2, <1>3, <1>4, <1>5, <1>6, <1>7, <1>8, <1>9, <1>10, <1>11, <1>12, <1>13, <1>14, <1>15, <1>16, <1>17, <1>18, <1>19 DEF Next, Request, Step

\* In one process the buffered file stays in step with its offset.
LEMMA CacheStep == TypeInv /\ CallInv /\ LockInv /\ HandleInv /\ CacheInv /\ [Next]_vars => CacheInv'
<1> SUFFICES ASSUME TypeInv, CallInv, LockInv, HandleInv, CacheInv, [Next]_vars PROVE CacheInv'
  OBVIOUS
<1> USE PythonAssumption
    DEF TypeInv, ReaderTypes, FileTypes, CallTypes, CallInv, Processes, Process, LockOf, Buffers, InParent, LockInv, HandleInv, CacheInv,
        reader, file, locals, history, At, Goto
<1>1. ASSUME NEW mode \in Modes, NEW e \in BOOLEAN, NEW m \in BOOLEAN, Open(mode, e, m) PROVE CacheInv'
  BY <1>1, OpenEffect DEF Opens
<1>2. ASSUME Finalize PROVE CacheInv'
  BY <1>2 DEF Finalize
<1>3. ASSUME Fork PROVE CacheInv'
  BY <1>3 DEF Fork
<1>4. ASSUME NEW p \in Processes, OtherFile(p) PROVE CacheInv'
  BY <1>4 DEF OtherFile
<1>5. ASSUME NEW t \in Threads, NEW n \in 1..MaxReads, get(t, n) PROVE CacheInv'
  BY <1>5 DEF get, Begin
<1>6. ASSUME NEW t \in Threads, get_without_access(t) PROVE CacheInv'
  BY <1>6 DEF get_without_access, AtOnce, Begin
<1>7. ASSUME NEW t \in Threads, metadata(t) PROVE CacheInv'
  BY <1>7 DEF metadata, AtOnce, Begin
<1>8. ASSUME NEW t \in Threads, __enter__(t) PROVE CacheInv'
  BY <1>8 DEF __enter__, AtOnce, Begin
<1>9. ASSUME NEW t \in Threads, read_closed(t) PROVE CacheInv'
  BY <1>9 DEF read_closed, AtOnce, Begin
<1>10. ASSUME NEW t \in Threads, close(t) PROVE CacheInv'
  BY <1>10 DEF close, Begin
<1>11. ASSUME NEW t \in Threads, close_buffer(t) PROVE CacheInv'
  BY <1>11 DEF close_buffer
<1>12. ASSUME NEW t \in Threads, set_closed(t) PROVE CacheInv'
  BY <1>12 DEF set_closed
<1>13. ASSUME NEW t \in Threads, __getitem__(t) PROVE CacheInv'
  <2>1. \A u \in Threads : pc'[u] = "read" => pc[u] = "read"
    BY <1>13 DEF __getitem__, Got, Raise
  <2>2. UNCHANGED <<pread, forked, offset, cache, want>>
    BY <1>13 DEF __getitem__
  <2>3. QED
    BY <2>1, <2>2
<1>14. ASSUME NEW t \in Threads, _read_fileno(t) PROVE CacheInv'
  BY <1>14 DEF _read_fileno, Raise
<1>15. ASSUME NEW t \in Threads, _read_pread(t) PROVE CacheInv'
  BY <1>15 DEF _read_pread, Got, Raise
<1>16. ASSUME NEW t \in Threads, _read_lock(t) PROVE CacheInv'
  BY <1>16 DEF _read_lock
<1>17. ASSUME NEW t \in Threads, _read_seek(t) PROVE CacheInv'
  <2>1. CASE /\ handle[Process(t)] = "closed" /\ Raise(t, "ValueError") /\ leave_lock(t, TRUE)
             /\ UNCHANGED <<offset, cache, want>>
    BY <1>17, <2>1 DEF _read_seek, Raise, leave_lock
  <2>2. ASSUME NEW first \in 0..(Blocks - 1), NEW last \in {first, first + 1}, last < Blocks,
               want' = [want EXCEPT ![t] = <<first, last>>], Goto(t, "read"),
               handle[Process(t)] = "open", UNCHANGED <<lock, left, foreign, res>>,
               \/ cache[Process(t)] # <<>> /\ cache[Process(t)][1] = first /\ UNCHANGED <<offset, cache>>
               \/ /\ ~(cache[Process(t)] # <<>> /\ cache[Process(t)][1] = first)
                  /\ offset' = first /\ cache' = [cache EXCEPT ![Process(t)] = <<>>]
        PROVE  CacheInv'
    <3> SUFFICES ASSUME ~forked, ~pread PROVE CacheInv'
      BY <1>17 DEF _read_seek
    <3>1. Process(t) = "parent" /\ pc[t] = "seek" /\ first \in Nat
      BY <1>17, PythonAssumption DEF _read_seek
    <3>2. want'[t][1] = first /\ \A u \in Threads \ {t} : pc'[u] = pc[u] /\ pc[u] # "read"
      BY <1>17, <2>2, <3>1 DEF _read_seek
    <3>3. \/ cache'["parent"] = <<>> /\ offset' = first
          \/ cache'["parent"] = <<first, first>> /\ offset' = first + 1
      BY <2>2, <3>1
    <3>4. \/ cache'["parent"] = <<>>
          \/ offset' > 0 /\ cache'["parent"] = <<offset' - 1, offset' - 1>>
      BY <2>2, <3>1
    <3>5. \A u \in Threads : pc'[u] = "read" => u = t
      BY <3>2
    <3>6. QED
      BY <3>2, <3>3, <3>4, <3>5
  <2>3. CASE handle[Process(t)] = "open"
    <3>1. PICK first \in 0..(Blocks - 1) : \E last \in {first, first + 1} :
            /\ last < Blocks
            /\ want' = [want EXCEPT ![t] = <<first, last>>]
            /\ IF cache[Process(t)] # <<>> /\ cache[Process(t)][1] = first
                 THEN UNCHANGED <<offset, cache>>
                 ELSE offset' = first /\ cache' = [cache EXCEPT ![Process(t)] = <<>>]
      BY <1>17, <2>3 DEF _read_seek
    <3>2. PICK last \in {first, first + 1} :
            /\ last < Blocks
            /\ want' = [want EXCEPT ![t] = <<first, last>>]
            /\ IF cache[Process(t)] # <<>> /\ cache[Process(t)][1] = first
                 THEN UNCHANGED <<offset, cache>>
                 ELSE offset' = first /\ cache' = [cache EXCEPT ![Process(t)] = <<>>]
      BY <3>1
    <3>3. Goto(t, "read") /\ UNCHANGED <<lock, left, foreign, res>>
      BY <1>17, <2>3 DEF _read_seek
    <3>4. \/ cache[Process(t)] # <<>> /\ cache[Process(t)][1] = first /\ UNCHANGED <<offset, cache>>
          \/ /\ ~(cache[Process(t)] # <<>> /\ cache[Process(t)][1] = first)
             /\ offset' = first /\ cache' = [cache EXCEPT ![Process(t)] = <<>>]
      BY <3>2
    <3> HIDE DEF CacheInv
    <3>5. QED
      BY ONLY <2>2, <2>3, <3>1, <3>2, <3>3, <3>4
  <2>4. CASE handle[Process(t)] # "open"
    BY <1>17, <2>1, <2>4 DEF _read_seek
  <2>5. QED
    BY <2>3, <2>4
<1>18. ASSUME NEW t \in Threads, _read_read(t) PROVE CacheInv'
  <2>1. Reads(t)
    BY <1>18, ReadEffect
  <2>2. pc'[t] # "read" /\ \A u \in Threads \ {t} : pc'[u] = pc[u]
    <3>1. Goto(t, "idle") \/ Goto(t, "access")
      BY <2>1 DEF Reads, Got, Raise
    <3>2. QED
      BY <3>1
  <2>3. CASE ~forked /\ ~pread
    <3>0. \A u \in Threads \ {t} : pc[u] # "read"
      <4>1. \A u \in Threads : pc[u] = "read" => Process(u) = "parent"
        BY <2>3
      <4>2. \A u \in Threads : pc[u] = "read" => lock["parent"] = u
        BY <4>1
      <4>3. QED
        BY <2>1, <4>2 DEF Reads
    <3>1. \/ UNCHANGED <<offset, cache>>
          \/ /\ offset' = want[t][2] + 1 /\ cache'["parent"] = <<want[t][2], want[t][2]>>
      BY <1>18, <2>3, ReadRight
    <3>2. want[t][2] \in Nat
      BY DEF CacheInv
    <3>3. QED
      <4>1. UNCHANGED <<forked, pread>> /\ pc[t] = "read"
        BY <2>1 DEF Reads
      <4>2. \A u \in Threads : pc'[u] # "read"
        BY <2>2, <3>0
      <4>3. \/ cache'["parent"] = <<>>
            \/ offset' > 0 /\ cache'["parent"] = <<offset' - 1, offset' - 1>>
        <5>1. CASE UNCHANGED <<offset, cache>>
          BY <2>3, <5>1
        <5>2. CASE offset' = want[t][2] + 1 /\ cache'["parent"] = <<want[t][2], want[t][2]>>
          <6>1. offset' - 1 = want[t][2] /\ offset' > 0
            BY ONLY <3>2, <5>2
          <6>2. QED
            BY ONLY <5>2, <6>1
        <5>3. QED
          BY <3>1, <5>1, <5>2
      <4>4. QED
        BY <2>3, <4>1, <4>2, <4>3
  <2>4. CASE forked \/ pread
    BY <2>1, <2>4 DEF Reads
  <2>5. QED
    BY <2>3, <2>4
<1>19. CASE UNCHANGED vars
  BY <1>19 DEF vars
<1> HIDE DEF CacheInv, CallInv, TypeInv
<1>20. QED
  BY <1>1, <1>2, <1>3, <1>4, <1>5, <1>6, <1>7, <1>8, <1>9, <1>10, <1>11, <1>12, <1>13, <1>14, <1>15, <1>16, <1>17, <1>18, <1>19 DEF Next, Request, Step

\* Every access gives the bytes asked for, or one of the two exceptions holds.
LEMMA RightStep == TypeInv /\ CallInv /\ HandleInv /\ CacheInv /\ ReadsRightBytes /\ [Next]_vars => ReadsRightBytes'
<1> SUFFICES ASSUME TypeInv, CallInv, HandleInv, CacheInv, ReadsRightBytes, [Next]_vars PROVE ReadsRightBytes'
  OBVIOUS
<1> USE PythonAssumption
    DEF TypeInv, ReaderTypes, FileTypes, CallTypes, CallInv, Processes, Process, LockOf, Buffers, InParent, HandleInv, ReadsRightBytes,
        reader, file, locals, history, At, Goto
<1>1. ASSUME NEW mode \in Modes, NEW e \in BOOLEAN, NEW m \in BOOLEAN, Open(mode, e, m) PROVE ReadsRightBytes'
  BY <1>1, OpenEffect DEF Opens
<1>2. ASSUME Finalize PROVE ReadsRightBytes'
  BY <1>2 DEF Finalize
<1>3. ASSUME Fork PROVE ReadsRightBytes'
  BY <1>3 DEF Fork
<1>4. ASSUME NEW p \in Processes, OtherFile(p) PROVE ReadsRightBytes'
  BY <1>4 DEF OtherFile
<1>5. ASSUME NEW t \in Threads, NEW n \in 1..MaxReads, get(t, n) PROVE ReadsRightBytes'
  BY <1>5 DEF get, Begin
<1>6. ASSUME NEW t \in Threads, get_without_access(t) PROVE ReadsRightBytes'
  BY <1>6 DEF get_without_access, AtOnce, Begin
<1>7. ASSUME NEW t \in Threads, metadata(t) PROVE ReadsRightBytes'
  BY <1>7 DEF metadata, AtOnce, Begin
<1>8. ASSUME NEW t \in Threads, __enter__(t) PROVE ReadsRightBytes'
  BY <1>8 DEF __enter__, AtOnce, Begin
<1>9. ASSUME NEW t \in Threads, read_closed(t) PROVE ReadsRightBytes'
  BY <1>9 DEF read_closed, AtOnce, Begin
<1>10. ASSUME NEW t \in Threads, close(t) PROVE ReadsRightBytes'
  BY <1>10 DEF close, Begin
<1>11. ASSUME NEW t \in Threads, close_buffer(t) PROVE ReadsRightBytes'
  BY <1>11 DEF close_buffer
<1>12. ASSUME NEW t \in Threads, set_closed(t) PROVE ReadsRightBytes'
  BY <1>12 DEF set_closed
<1>13. ASSUME NEW t \in Threads, __getitem__(t) PROVE ReadsRightBytes'
  BY <1>13 DEF __getitem__, Got, Raise
<1>14. ASSUME NEW t \in Threads, _read_fileno(t) PROVE ReadsRightBytes'
  BY <1>14 DEF _read_fileno, Raise
<1>15. ASSUME NEW t \in Threads, _read_pread(t) PROVE ReadsRightBytes'
  BY <1>15 DEF _read_pread, Got, Raise
<1>16. ASSUME NEW t \in Threads, _read_lock(t) PROVE ReadsRightBytes'
  BY <1>16 DEF _read_lock
<1>17. ASSUME NEW t \in Threads, _read_seek(t) PROVE ReadsRightBytes'
  BY <1>17 DEF _read_seek, Raise, leave_lock
<1>18. ASSUME NEW t \in Threads, _read_read(t) PROVE ReadsRightBytes'
  <2>1. Reads(t)
    BY <1>18, ReadEffect
  <2>2. ~forked => (foreign'[t] <=> foreign[t])
    BY <1>18, <2>1, ReadRight DEF Got, Raise, Reads
  <2>3. \A u \in Threads \ {t} : foreign'[u] <=> foreign[u]
    BY <2>1 DEF Reads, Got, Raise
  <2>4. pc[t] = "read" /\ kind = "FileBuffer" /\ ~pread /\ UNCHANGED reader
    BY <2>1 DEF Reads
  <2>5. QED
    BY <2>2, <2>3, <2>4
<1>19. CASE UNCHANGED vars
  BY <1>19 DEF vars
<1> HIDE DEF CallInv, ReadsRightBytes, TypeInv
<1>20. QED
  BY <1>1, <1>2, <1>3, <1>4, <1>5, <1>6, <1>7, <1>8, <1>9, <1>10, <1>11, <1>12, <1>13, <1>14, <1>15, <1>16, <1>17, <1>18, <1>19 DEF Next, Request, Step

\* A late call gets no further.
LEMMA LateStep == TypeInv /\ CallInv /\ HandleInv /\ LateInv /\ [Next]_vars => LateInv'
<1> SUFFICES ASSUME TypeInv, CallInv, HandleInv, LateInv, [Next]_vars PROVE LateInv'
  OBVIOUS
<1> USE PythonAssumption
    DEF TypeInv, ReaderTypes, FileTypes, CallTypes, CallInv, Processes, Process, LockOf, Buffers, InParent, HandleInv, LateInv,
        reader, file, locals, history, At, Goto
<1>1. ASSUME NEW mode \in Modes, NEW e \in BOOLEAN, NEW m \in BOOLEAN, Open(mode, e, m) PROVE LateInv'
  BY <1>1, OpenEffect DEF Opens
<1>2. ASSUME Finalize PROVE LateInv'
  BY <1>2 DEF Finalize
<1>3. ASSUME Fork PROVE LateInv'
  BY <1>3 DEF Fork
<1>4. ASSUME NEW p \in Processes, OtherFile(p) PROVE LateInv'
  BY <1>4 DEF OtherFile
<1>5. ASSUME NEW t \in Threads, NEW n \in 1..MaxReads, get(t, n) PROVE LateInv'
  BY <1>5 DEF get, Begin
<1>6. ASSUME NEW t \in Threads, get_without_access(t) PROVE LateInv'
  BY <1>6 DEF get_without_access, AtOnce, Begin
<1>7. ASSUME NEW t \in Threads, metadata(t) PROVE LateInv'
  BY <1>7 DEF metadata, AtOnce, Begin
<1>8. ASSUME NEW t \in Threads, __enter__(t) PROVE LateInv'
  BY <1>8 DEF __enter__, AtOnce, Begin
<1>9. ASSUME NEW t \in Threads, read_closed(t) PROVE LateInv'
  BY <1>9 DEF read_closed, AtOnce, Begin
<1>10. ASSUME NEW t \in Threads, close(t) PROVE LateInv'
  BY <1>10 DEF close, Begin
<1>11. ASSUME NEW t \in Threads, close_buffer(t) PROVE LateInv'
  BY <1>11 DEF close_buffer
<1>12. ASSUME NEW t \in Threads, set_closed(t) PROVE LateInv'
  BY <1>12 DEF set_closed
<1>13. ASSUME NEW t \in Threads, __getitem__(t) PROVE LateInv'
  BY <1>13 DEF __getitem__, Got, Raise
<1>14. ASSUME NEW t \in Threads, _read_fileno(t) PROVE LateInv'
  BY <1>14 DEF _read_fileno, Raise
<1>15. ASSUME NEW t \in Threads, _read_pread(t) PROVE LateInv'
  BY <1>15 DEF _read_pread, Got, Raise
<1>16. ASSUME NEW t \in Threads, _read_lock(t) PROVE LateInv'
  BY <1>16 DEF _read_lock
<1>17. ASSUME NEW t \in Threads, _read_seek(t) PROVE LateInv'
  <2>1. CASE /\ handle[Process(t)] = "closed" /\ Raise(t, "ValueError") /\ leave_lock(t, TRUE)
             /\ UNCHANGED <<offset, cache, want>>
    BY <1>17, <2>1 DEF _read_seek, Raise, leave_lock
  <2>2. ASSUME NEW first \in 0..(Blocks - 1), NEW last \in {first, first + 1}, last < Blocks,
               want' = [want EXCEPT ![t] = <<first, last>>], Goto(t, "read"),
               handle[Process(t)] = "open", UNCHANGED <<lock, left, foreign, res>>,
               \/ cache[Process(t)] # <<>> /\ cache[Process(t)][1] = first /\ UNCHANGED <<offset, cache>>
               \/ /\ ~(cache[Process(t)] # <<>> /\ cache[Process(t)][1] = first)
                  /\ offset' = first /\ cache' = [cache EXCEPT ![Process(t)] = <<>>]
        PROVE  LateInv'
    BY <1>17, <2>2 DEF _read_seek
  <2>3. CASE handle[Process(t)] = "open"
    <3>1. PICK first \in 0..(Blocks - 1) : \E last \in {first, first + 1} :
            /\ last < Blocks
            /\ want' = [want EXCEPT ![t] = <<first, last>>]
            /\ IF cache[Process(t)] # <<>> /\ cache[Process(t)][1] = first
                 THEN UNCHANGED <<offset, cache>>
                 ELSE offset' = first /\ cache' = [cache EXCEPT ![Process(t)] = <<>>]
      BY <1>17, <2>3 DEF _read_seek
    <3>2. PICK last \in {first, first + 1} :
            /\ last < Blocks
            /\ want' = [want EXCEPT ![t] = <<first, last>>]
            /\ IF cache[Process(t)] # <<>> /\ cache[Process(t)][1] = first
                 THEN UNCHANGED <<offset, cache>>
                 ELSE offset' = first /\ cache' = [cache EXCEPT ![Process(t)] = <<>>]
      BY <3>1
    <3>3. Goto(t, "read") /\ UNCHANGED <<lock, left, foreign, res>>
      BY <1>17, <2>3 DEF _read_seek
    <3>4. \/ cache[Process(t)] # <<>> /\ cache[Process(t)][1] = first /\ UNCHANGED <<offset, cache>>
          \/ /\ ~(cache[Process(t)] # <<>> /\ cache[Process(t)][1] = first)
             /\ offset' = first /\ cache' = [cache EXCEPT ![Process(t)] = <<>>]
      BY <3>2
    <3> HIDE DEF LateInv
    <3>5. QED
      BY ONLY <2>2, <2>3, <3>1, <3>2, <3>3, <3>4
  <2>4. CASE handle[Process(t)] # "open"
    BY <1>17, <2>1, <2>4 DEF _read_seek
  <2>5. QED
    BY <2>3, <2>4
<1>18. ASSUME NEW t \in Threads, _read_read(t) PROVE LateInv'
  <2>1. Reads(t)
    BY <1>18, ReadEffect
  <2>2. QED
    BY <2>1 DEF Reads, Got, Raise
<1>19. CASE UNCHANGED vars
  BY <1>19 DEF vars
<1> HIDE DEF CallInv, LateInv, TypeInv
<1>20. QED
  BY <1>1, <1>2, <1>3, <1>4, <1>5, <1>6, <1>7, <1>8, <1>9, <1>10, <1>11, <1>12, <1>13, <1>14, <1>15, <1>16, <1>17, <1>18, <1>19 DEF Next, Request, Step

PyInv ==
  TypeInv /\ CallInv /\ LockInv /\ HandleInv /\ CacheInv /\ ReadsRightBytes /\ LateInv

\* The invariant holds in every reachable state.
THEOREM PythonInvariance == Spec => []PyInv
<1>1. Init => PyInv
  <2> SUFFICES ASSUME Init PROVE PyInv
    OBVIOUS
  <2> USE PythonAssumption DEF Init, Processes
  <2>1. ReaderTypes /\ FileTypes
    <3>1. offset \in 0..Blocks /\ lock \in [Processes -> Threads \cup {NoThread}]
      OBVIOUS
    <3>2. cache = [p \in Processes |-> cache[p]]
      OBVIOUS
    <3>3. QED
      BY <3>1, <3>2 DEF ReaderTypes, FileTypes
  <2>2. CallTypes
    BY DEF CallTypes
  <2>3. CallInv /\ HandleInv
    BY DEF CallInv, HandleInv
  <2>6. LockInv
    BY DEF LockInv, LockOf, Process
  <2>4. CacheInv /\ ReadsRightBytes /\ LateInv
    BY DEF CacheInv, ReadsRightBytes, LateInv
  <2>5. QED
    BY <2>1, <2>2, <2>3, <2>4, <2>6 DEF PyInv, TypeInv
<1>2. PyInv /\ [Next]_vars => PyInv'
  BY TypeStep, CallStep, LockStep, HandleStep, CacheStep, RightStep, LateStep DEF PyInv
<1>3. QED
  BY <1>1, <1>2, PTL DEF Spec

\* Every variable has its type.
THEOREM PythonTypeCorrect == Spec => []TypeOK
<1>1. PyInv => TypeOK
  BY DEF PyInv, TypeInv, ReaderTypes, FileTypes, CallTypes, TypeOK
<1>2. QED
  BY <1>1, PythonInvariance, PTL

\* However reads, close(), fork and the process's other files interleave, a read
\* is wrong only where ReadsRightBytes says that it may be.
THEOREM ReadsRightBytesSafety == Spec => []ReadsRightBytes
<1>1. PyInv => ReadsRightBytes
  BY DEF PyInv
<1>2. QED
  BY <1>1, PythonInvariance, PTL

\* A call that began after close() and needs the file fails without reading.
THEOREM LateReadsFailSafety == Spec => []LateReadsFail
<1>1. PyInv => LateReadsFail
  BY DEF PyInv, LateInv, LateReadsFail
<1>2. QED
  BY <1>1, PythonInvariance, PTL

\* A Reader that says it is closed has given its file back.
THEOREM ReleasedWhenClosedSafety == Spec => []ReleasedWhenClosed
<1>1. PyInv => ReleasedWhenClosed
  BY DEF PyInv, HandleInv, ReleasedWhenClosed
<1>2. QED
  BY <1>1, PythonInvariance, PTL

==============================================================================
