--------------------------- MODULE ExtensionReader ---------------------------
(***************************************************************************)
(* One maxminddb.extension.Reader object (extension/maxminddb.c), the      *)
(* iterators created from it, and the threads that call their methods.     *)
(*                                                                         *)
(* The C struct Reader_obj has three fields: the handle mmdb (NULL once    *)
(* closed), the Python-visible flag closed, and a read-write lock that is  *)
(* a real lock in a free-threaded build and a no-op in a GIL build.  Every *)
(* method is a sequence of steps, told apart by pc; in the free-threaded   *)
(* build any two threads interleave between any two steps, in the GIL      *)
(* build only where CPython can switch threads (YieldPoints).              *)
(***************************************************************************)
EXTENDS Naturals, Sequences

CONSTANTS
  Threads,        \* the Python threads that share the Reader
  NoThread,       \* nobody holds the GIL / no iterator is meant
  UseGil,         \* TRUE: MAXMINDDB_USE_GIL_ONLY, every lock call is a no-op
  GcInAlloc,      \* TRUE: an interpreter that runs finalizers inside container
                  \* allocation (CPython 3.10, 3.11), so that PyDict_New in
                  \* from_map may run Python code and switch threads
  Reentrant,      \* TRUE: Python code run inside ip_network() (a signal
                  \* handler, a finalizer) may call close() on the same thread
  StopsTheWorld,  \* TRUE: a free-threaded interpreter that stops all threads for
                  \* a garbage collection
  DetectDeadlock, \* TRUE: pthread_rwlock_wrlock answers EDEADLK to a caller
                  \* that holds the read lock; FALSE: it blocks
  ShareIterators, \* TRUE: a ReaderIter object is handed to every thread
  Records,        \* the positions of the search tree an iterator visits
  NoRecord,
  Root,           \* the record Reader_iter starts from
  Kind,           \* Kind[r]: the record type libmaxminddb reports for r
  Children,       \* Children[r] = <<left, right>> for a search node r
  MaxCalls        \* bound: method calls started in one behaviour

RecordKinds == {"node", "alias", "empty", "data", "invalid"}

ASSUME ThreadsAssumption ==
  /\ NoThread \notin Threads
  /\ NoRecord \notin Records

ASSUME BuildAssumption ==
  /\ {UseGil, GcInAlloc, Reentrant, StopsTheWorld, DetectDeadlock, ShareIterators}
       \subseteq BOOLEAN
  /\ MaxCalls \in Nat

ASSUME TreeAssumption ==
  /\ Root \in Records
  /\ Kind \in [Records -> RecordKinds]
  /\ \A r \in Records : Kind[r] = "node" => Children[r] \in Records \X Records

\* A record stands for a position of the tree, a path of bits and not a node
\* number, so the records form a tree: Below[r] is the set of positions under r,
\* r included, and the two children of a node have nothing under both.
IsTree(Below) ==
  /\ Below \in [Records -> SUBSET Records]
  /\ \A r \in Records : r \in Below[r]
  /\ \A r \in Records : Kind[r] = "node" =>
       /\ Below[Children[r][1]] \cup Below[Children[r][2]] \subseteq Below[r] \ {r}
       /\ Below[Children[r][1]] \cap Below[Children[r][2]] = {}

VARIABLES
  obj,        \* the Reader_obj itself: "new", "live", "failed" or "freed"
  refs,       \* the threads that hold a strong reference to the Reader
  mmdb,       \* Reader_obj.mmdb
  mapping,    \* the MMDB_s that mmdb was set to, and its mmap'ed file
  closed,     \* Reader_obj.closed; "unset" is the NULL of a fresh object
  lock,       \* Reader_obj.rwlock as an object: "raw", "ready", "destroyed"
  readers,    \* the threads that hold rwlock for reading
  writer,     \* the threads that hold rwlock for writing
  gil,        \* the thread that holds the GIL, or NoThread
  stop,       \* the thread that is stopping the world, or NoThread
  iter,       \* iter[i]: the ReaderIter created by thread i, "none"/"live"/"dying"
  iterRefs,   \* iterRefs[i]: the threads that hold a reference to that iterator
  work,       \* work[i]: the list of records at ReaderIter_obj.next
  heap,       \* heap[i]: the records of iterator i calloc'ed and not freed
  pc,         \* the step each thread takes next
  op,         \* the method each thread is in (or was in last)
  on,         \* the iterator a ReaderIter_next or ReaderIter_dealloc works on
  nested,     \* the thread runs close() inside its own ReaderIter_next
  cur,        \* local of ReaderIter_next: the record taken off the list
  rest,       \* local of ReaderIter_next: cur->next
  left,       \* local of ReaderIter_next: the left child, until it is on the list
  res,        \* the outcome the current or last call returns
  calls,      \* number of calls started
  closeSeen,  \* history: some close() has returned, or closed was seen True
  late        \* history: the thread's call began when closeSeen was TRUE

objVars  == <<obj, refs, mmdb, mapping, closed>>
lockVars == <<lock, readers, writer>>
interp   == <<gil, stop>>
iterVars == <<iter, iterRefs, work, heap>>
locals   == <<on, nested, cur, rest, left>>
callVars == <<pc, op, res>>
history  == <<calls, closeSeen, late>>
vars == <<objVars, lockVars, interp, iterVars, locals, callVars, history>>

\* Steps at which the thread dereferences mmdb or bytes of the mapped file.
MappedSteps == {"lookup", "decode", "convert", "expand"}

\* Steps between a successful reader_acquire_read_lock and the release.
ReadSteps == MappedSteps \cup {"check", "pop", "advance", "freeloop", "network", "rdunlock"}

\* Steps between a successful reader_acquire_write_lock and the release.
WriteSteps == {"unmap", "clear", "flag", "wrunlock"}

Steps == ReadSteps \cup WriteSteps \cup
         {"idle", "rdlock", "wrlock", "build", "alloc", "free", "dealloc", "destroy", "freerecs"}

ReadOps == {"get", "metadata", "enter", "iter", "next"}
Ops     == ReadOps \cup {"close", "exit", "dealloc", "closed"}

\* What a call hands back when the database was usable.
Successes == {"record", "notfound", "metadata", "self", "iterator", "item", "StopIteration"}

Outcomes == Successes \cup
  {"nothing", "closed", "lookup_error", "network_error", "InvalidDatabaseError", "MemoryError",
   "RuntimeError", "SystemError", "bad_argument", "TypeError", "done", "True", "False", "unset"}

-----------------------------------------------------------------------------
(* The interpreter: who may run, and how a call begins and ends.            *)

\* CPython can switch threads between bytecodes; of the steps below only these
\* execute any, or (GcInAlloc, in PyDict_New and PyList_New) run finalizers.
YieldPoints == {"idle", "network"} \cup (IF GcInAlloc THEN {"convert"} ELSE {})

\* A thread answers a request to stop the world between bytecodes only; it is
\* not detached from the interpreter while it waits for rwlock.
SafePoints == {"idle", "network"}

Running(t) ==
  /\ UseGil => gil = t
  /\ stop = NoThread \/ pc[t] \notin SafePoints

At(t, step) == Running(t) /\ pc[t] = step

Goto(t, step) == pc' = [pc EXCEPT ![t] = step]

TakeGil(t) ==
  /\ UseGil /\ gil = NoThread
  /\ gil' = t
  /\ UNCHANGED <<stop, objVars, lockVars, iterVars, locals, callVars, history>>

Yield(t) ==
  /\ UseGil /\ gil = t
  /\ pc[t] \in YieldPoints
  /\ gil' = NoThread
  /\ UNCHANGED <<stop, objVars, lockVars, iterVars, locals, callVars, history>>

\* A garbage collection begins.  It counts as a call for the bound, and may
\* still come when all the calls have been made.
StopTheWorld(t) ==
  /\ StopsTheWorld /\ ~UseGil
  /\ At(t, "idle") \/ At(t, "network")
  /\ calls <= MaxCalls
  /\ stop' = t
  /\ calls' = calls + 1
  /\ UNCHANGED <<gil, objVars, lockVars, iterVars, locals, callVars, closeSeen, late>>

\* Everybody has stopped; the collection is made and the threads go on.
StartTheWorld(t) ==
  /\ stop = t
  /\ \A u \in Threads : pc[u] \in SafePoints
  /\ stop' = NoThread
  /\ UNCHANGED <<gil, objVars, lockVars, iterVars, locals, callVars, history>>

\* A Python-level call of method o, whose first step is `step`.
Call(t, o, step) ==
  /\ At(t, "idle") /\ calls < MaxCalls
  /\ op' = [op EXCEPT ![t] = o]
  /\ Goto(t, step)
  /\ res' = [res EXCEPT ![t] = "nothing"]
  /\ calls' = calls + 1
  /\ late' = [late EXCEPT ![t] = closeSeen]
  /\ UNCHANGED <<objVars, lockVars, interp, iterVars, closeSeen>>

CallReader(t, o, step) ==
  /\ t \in refs
  /\ Call(t, o, step)
  /\ UNCHANGED locals

\* Where control goes when a method returns: to the caller, which for a close()
\* made from inside ip_network() is the suspended ReaderIter_next.
Return(t) ==
  /\ Goto(t, IF nested[t] THEN "network" ELSE "idle")
  /\ op' = [op EXCEPT ![t] = IF nested[t] THEN "next" ELSE @]
  /\ nested' = [nested EXCEPT ![t] = FALSE]

-----------------------------------------------------------------------------
(* The read-write lock.                                                     *)

\* Mutant: a reader is admitted while a writer holds the lock.
reader_acquire_read_lock_ignores_writer(t) ==
  /\ At(t, "rdlock")
  /\ readers' = IF UseGil THEN readers ELSE readers \cup {t}
  /\ Goto(t, "check")
  /\ UNCHANGED <<objVars, lock, writer, interp, iterVars, locals, op, res, history>>

\* A reader is admitted unless a writer holds the lock.
reader_acquire_read_lock(t) ==
  /\ At(t, "rdlock")
  /\ UseGil \/ writer = {}
  /\ readers' = IF UseGil THEN readers ELSE readers \cup {t}
  /\ Goto(t, "check")
  /\ UNCHANGED <<objVars, lock, writer, interp, iterVars, locals, op, res, history>>

\* EAGAIN: pthread_rwlock_rdlock may refuse one more reader.
read_lock_fails(t) ==
  /\ At(t, "rdlock")
  /\ ~UseGil /\ readers # {}
  /\ Goto(t, "idle")
  /\ res' = [res EXCEPT ![t] = "RuntimeError"]
  /\ UNCHANGED <<objVars, lockVars, interp, iterVars, locals, op, history>>

\* What is left of each method after the read lock is released.
AfterRead(t) ==
  CASE op[t] = "next" /\ cur[t] # NoRecord          -> "free"
    [] op[t] = "metadata" /\ res[t] = "metadata"    -> "build"
    [] op[t] = "iter" /\ res[t] = "iterator"        -> "alloc"
    [] OTHER                                        -> "idle"

\* Mutant: the unlock is forgotten.
reader_release_read_lock_missing(t) ==
  /\ At(t, "rdunlock")
  /\ Goto(t, AfterRead(t))
  /\ UNCHANGED <<objVars, lockVars, interp, iterVars, locals, op, res, history>>

reader_release_read_lock(t) ==
  /\ At(t, "rdunlock")
  /\ readers' = readers \ {t}
  /\ Goto(t, AfterRead(t))
  /\ UNCHANGED <<objVars, lock, writer, interp, iterVars, locals, op, res, history>>

\* Mutant: close() takes the lock without waiting for readers.
reader_acquire_write_lock_ignores_readers(t) ==
  /\ At(t, "wrlock")
  /\ UseGil \/ writer = {}
  /\ writer' = IF UseGil THEN writer ELSE {t}
  /\ Goto(t, "unmap")
  /\ UNCHANGED <<objVars, lock, readers, interp, iterVars, locals, op, res, history>>

reader_acquire_write_lock(t) ==
  /\ At(t, "wrlock")
  /\ UseGil \/ (readers = {} /\ writer = {})
  /\ writer' = IF UseGil THEN writer ELSE {t}
  /\ Goto(t, "unmap")
  /\ UNCHANGED <<objVars, lock, readers, interp, iterVars, locals, op, res, history>>

\* EDEADLK: Reader_close returns NULL with RuntimeError set.  Reader__exit__
\* ignores that and returns None with the exception still set, which the
\* interpreter turns into SystemError.
write_lock_fails(t) ==
  /\ At(t, "wrlock")
  /\ ~UseGil /\ DetectDeadlock /\ t \in readers
  /\ res' = [res EXCEPT ![t] = IF op[t] = "exit" THEN "SystemError" ELSE "RuntimeError"]
  /\ Return(t)
  /\ UNCHANGED <<objVars, lockVars, interp, iterVars, on, cur, rest, left, history>>

reader_release_write_lock(t) ==
  /\ At(t, "wrunlock")
  /\ writer' = writer \ {t}
  /\ IF op[t] = "dealloc"
       THEN Goto(t, "destroy") /\ UNCHANGED <<op, res, nested, closeSeen>>
       ELSE /\ res' = [res EXCEPT ![t] = "done"]
            /\ closeSeen' = TRUE
            /\ Return(t)
  /\ UNCHANGED <<objVars, lock, readers, interp, iterVars, on, cur, rest, left, calls, late>>

-----------------------------------------------------------------------------
(* Construction and destruction of the Reader.                              *)

\* Reader(path): tp_new has zeroed the object, Reader_init fills it.  On
\* failure the type call drops the only reference, which runs Reader_dealloc.
Reader_init(t) ==
  /\ At(t, "idle") /\ obj = "new"
  /\ \/ /\ mmdb' = "handle" /\ mapping' = "mapped"
        /\ closed' = "False"
        /\ lock' = "ready"
        /\ obj' = "live" /\ refs' = Threads
        /\ UNCHANGED <<pc, op>>
     \/ \* bad arguments or mode, unreadable file, malloc or lock init failure
        \* leave the lock untouched; a failing MMDB_open destroys it
        /\ lock' \in {"raw", "destroyed"}
        /\ obj' = "failed"
        /\ Goto(t, "dealloc") /\ op' = [op EXCEPT ![t] = "dealloc"]
        /\ UNCHANGED <<refs, mmdb, mapping, closed>>
  /\ UNCHANGED <<readers, writer, interp, iterVars, locals, res, history>>

\* Mutant of HoldsReader: Reader_iter without its Py_INCREF(reader).
HoldsReader_borrowed(state) == FALSE

\* A live iterator has a strong reference to the Reader (ri->reader).
HoldsReader(state) == state = "live"

\* Py_DECREF of the Reader from Python code.
DropReader(t) ==
  /\ At(t, "idle") /\ t \in refs
  /\ refs' = refs \ {t}
  /\ on' = [on EXCEPT ![t] = NoThread]
  /\ IF refs' = {} /\ \A i \in Threads : ~HoldsReader(iter[i])
       THEN Goto(t, "dealloc") /\ op' = [op EXCEPT ![t] = "dealloc"]
       ELSE UNCHANGED <<pc, op>>
  /\ UNCHANGED <<obj, mmdb, mapping, closed, lockVars, interp, iterVars, nested, cur, rest, left, res, history>>

\* Mutant: the deallocator does not close.
Reader_dealloc_without_close(t) ==
  /\ At(t, "dealloc")
  /\ Goto(t, "destroy")
  /\ UNCHANGED <<objVars, lockVars, interp, iterVars, locals, op, res, history>>

Reader_dealloc(t) ==
  /\ At(t, "dealloc")
  /\ Goto(t, IF mmdb = "NULL" THEN "destroy" ELSE "wrlock")
  /\ UNCHANGED <<objVars, lockVars, interp, iterVars, locals, op, res, history>>

reader_lock_destroy(t) ==
  /\ At(t, "destroy")
  /\ lock' = "destroyed"
  /\ obj' = "freed"
  /\ Goto(t, IF on[t] = NoThread THEN "idle" ELSE "freerecs")
  /\ UNCHANGED <<refs, mmdb, mapping, closed, readers, writer, interp, iterVars, locals, op, res, history>>

-----------------------------------------------------------------------------
(* Reader_close, reached from close(), __exit__() and Reader_dealloc.       *)

Reader_close(t) == CallReader(t, "close", "wrlock")

Reader__exit__(t) == CallReader(t, "exit", "wrlock")

\* Python code that the interpreter runs inside ip_network(...), while
\* ReaderIter_next is suspended, closes the same Reader.
CloseInsideNext(t) ==
  /\ At(t, "network") /\ Reentrant /\ calls < MaxCalls
  /\ nested' = [nested EXCEPT ![t] = TRUE]
  /\ \E o \in {"close", "exit"} : op' = [op EXCEPT ![t] = o]
  /\ Goto(t, "wrlock")
  /\ calls' = calls + 1
  /\ UNCHANGED <<objVars, lockVars, interp, iterVars, on, cur, rest, left, res, closeSeen, late>>

\* MMDB_close and free, skipped when the handle is NULL already.
close_unmap(t) ==
  /\ At(t, "unmap")
  /\ mapping' = IF mmdb = "NULL" THEN mapping ELSE "unmapped"
  /\ Goto(t, "clear")
  /\ UNCHANGED <<obj, refs, mmdb, closed, lockVars, interp, iterVars, locals, op, res, history>>

\* Mutant: mmdb_obj->mmdb = NULL is forgotten.
close_clear_forgotten(t) ==
  /\ At(t, "clear")
  /\ Goto(t, "flag")
  /\ UNCHANGED <<objVars, lockVars, interp, iterVars, locals, op, res, history>>

\* mmdb_obj->mmdb = NULL
close_clear(t) ==
  /\ At(t, "clear")
  /\ mmdb' = "NULL"
  /\ Goto(t, "flag")
  /\ UNCHANGED <<obj, refs, closed, mapping, lockVars, interp, iterVars, locals, op, res, history>>

\* Mutant: mmdb_obj->closed = Py_True is forgotten.
close_flag_forgotten(t) ==
  /\ At(t, "flag")
  /\ Goto(t, "wrunlock")
  /\ UNCHANGED <<objVars, lockVars, interp, iterVars, locals, op, res, history>>

\* mmdb_obj->closed = Py_True, which ReadClosedMember may see before the unlock
close_flag(t) ==
  /\ At(t, "flag")
  /\ closed' = "True"
  /\ Goto(t, "wrunlock")
  /\ UNCHANGED <<obj, refs, mmdb, mapping, lockVars, interp, iterVars, locals, op, res, history>>

-----------------------------------------------------------------------------
(* The reading methods up to the point where they look at the object.       *)

\* get and get_with_prefix_len: ip_converter runs before the lock is taken.
Reader_get(t) ==
  \/ CallReader(t, "get", "rdlock")
  \/ /\ At(t, "idle") /\ t \in refs /\ calls < MaxCalls
     /\ op' = [op EXCEPT ![t] = "get"]
     /\ res' = [res EXCEPT ![t] = "bad_argument"]
     /\ late' = [late EXCEPT ![t] = closeSeen]
     /\ calls' = calls + 1
     /\ UNCHANGED <<objVars, lockVars, interp, iterVars, locals, pc, closeSeen>>

Reader_metadata(t) == CallReader(t, "metadata", "rdlock")

Reader__enter__(t) == CallReader(t, "enter", "rdlock")

\* Bound: one live iterator per creating thread.
Reader_iter(t) == iter[t] = "none" /\ CallReader(t, "iter", "rdlock")

ReaderIter_next(t, i) ==
  /\ iter[i] = "live" /\ t \in iterRefs[i]
  /\ Call(t, "next", "rdlock")
  /\ on' = [on EXCEPT ![t] = i]
  /\ cur' = [cur EXCEPT ![t] = NoRecord]
  /\ rest' = [rest EXCEPT ![t] = <<>>]
  /\ UNCHANGED <<nested, left>>

\* Mutant: the member descriptor names the wrong field of Reader_obj.
ReadClosedMember_wrong_offset(t) ==
  /\ At(t, "idle") /\ t \in refs /\ calls < MaxCalls
  /\ op' = [op EXCEPT ![t] = "closed"]
  /\ res' = [res EXCEPT ![t] = mmdb]
  /\ calls' = calls + 1
  /\ UNCHANGED <<objVars, lockVars, interp, iterVars, locals, pc, closeSeen, late>>

\* The READONLY member `closed` is read without the lock.
ReadClosedMember(t) ==
  /\ At(t, "idle") /\ t \in refs /\ calls < MaxCalls
  /\ op' = [op EXCEPT ![t] = "closed"]
  /\ res' = [res EXCEPT ![t] = closed]
  /\ closeSeen' = (closeSeen \/ closed = "True")
  /\ calls' = calls + 1
  /\ UNCHANGED <<objVars, lockVars, interp, iterVars, locals, pc, late>>

\* Mutant: ReaderIter_next does not test the flag.
SeesClosed_not_in_next(t) ==
  IF op[t] \in {"get", "metadata"} THEN mmdb = "NULL" ELSE op[t] # "next" /\ closed = "True"

\* get and metadata test the handle, the others test the flag.
SeesClosed(t) == IF op[t] \in {"get", "metadata"} THEN mmdb = "NULL" ELSE closed = "True"

check_closed(t) ==
  /\ At(t, "check")
  /\ LET go == CASE op[t] = "get"      -> <<"lookup", "nothing">>
                 [] op[t] = "metadata" -> <<"decode", "nothing">>
                 [] op[t] = "enter"    -> <<"rdunlock", "self">>
                 [] op[t] = "iter"     -> <<"rdunlock", "iterator">>
                 [] op[t] = "next"     -> <<"pop", "nothing">>
         to == IF SeesClosed(t) THEN <<"rdunlock", "closed">> ELSE go
     IN  Goto(t, to[1]) /\ res' = [res EXCEPT ![t] = to[2]]
  /\ UNCHANGED <<objVars, lockVars, interp, iterVars, locals, op, history>>

-----------------------------------------------------------------------------
(* Reading the mapped file.  libmaxminddb's answers are nondeterministic.   *)

\* MMDB_lookup_sockaddr: an error, no entry, or an entry to decode.
get_record(t) ==
  /\ At(t, "lookup")
  /\ \/ Goto(t, "decode") /\ UNCHANGED res
     \/ /\ Goto(t, "rdunlock")
        /\ \E r \in {"lookup_error", "notfound"} : res' = [res EXCEPT ![t] = r]
  /\ UNCHANGED <<objVars, lockVars, interp, iterVars, locals, op, history>>

\* Mutant: the error return does not release the lock.
get_entry_data_list_keeps_lock(t) ==
  /\ At(t, "decode")
  /\ \/ Goto(t, "convert") /\ UNCHANGED res
     \/ Goto(t, "idle") /\ res' = [res EXCEPT ![t] = "InvalidDatabaseError"]
  /\ UNCHANGED <<objVars, lockVars, interp, iterVars, locals, op, history>>

\* MMDB_get_entry_data_list / MMDB_get_metadata_as_entry_data_list.
get_entry_data_list(t) ==
  /\ At(t, "decode")
  /\ \/ Goto(t, "convert") /\ UNCHANGED res
     \/ Goto(t, "rdunlock") /\ res' = [res EXCEPT ![t] = "InvalidDatabaseError"]
  /\ UNCHANGED <<objVars, lockVars, interp, iterVars, locals, op, history>>

\* from_entry_data_list copies strings and numbers out of the mapped file;
\* ReaderIter_next then also reads mmdb->depth before it builds the network.
from_entry_data_list(t) ==
  /\ At(t, "convert")
  /\ \/ Goto(t, "rdunlock") /\ res' = [res EXCEPT ![t] = "InvalidDatabaseError"]
     \/ IF op[t] = "next"
          THEN Goto(t, "network") /\ UNCHANGED res
          ELSE /\ Goto(t, "rdunlock")
               /\ res' = [res EXCEPT ![t] = IF op[t] = "get" THEN "record" ELSE "metadata"]
  /\ UNCHANGED <<objVars, lockVars, interp, iterVars, locals, op, history>>

\* PyObject_Call(Metadata_Type, ...), after the release.
build_metadata(t) ==
  /\ At(t, "build")
  /\ Goto(t, "idle")
  /\ \E r \in {"metadata", "TypeError"} : res' = [res EXCEPT ![t] = r]
  /\ UNCHANGED <<objVars, lockVars, interp, iterVars, locals, op, history>>

-----------------------------------------------------------------------------
(* Iterators.                                                               *)

\* The tail of Reader_iter, after the release: allocate the iterator and its
\* first record (type 0 is a search node, node 0, depth 0).
alloc_iterator(t) ==
  /\ At(t, "alloc")
  /\ Goto(t, "idle")
  /\ \/ /\ iter' = [iter EXCEPT ![t] = "live"]
        /\ iterRefs' = [iterRefs EXCEPT ![t] = IF ShareIterators THEN Threads ELSE {t}]
        /\ work' = [work EXCEPT ![t] = <<Root>>]
        /\ heap' = [heap EXCEPT ![t] = {Root}]
        /\ UNCHANGED res
     \/ /\ res' = [res EXCEPT ![t] = "MemoryError"]
        /\ UNCHANGED iterVars
  /\ UNCHANGED <<objVars, lockVars, interp, locals, op, history>>

\* cur = ri->next
next_load(t) ==
  /\ At(t, "pop")
  /\ LET list == work[on[t]] IN
     IF list = <<>>
       THEN /\ Goto(t, "rdunlock")
            /\ res' = [res EXCEPT ![t] = "StopIteration"]
            /\ cur' = [cur EXCEPT ![t] = NoRecord]
            /\ UNCHANGED rest
       ELSE /\ Goto(t, "advance")
            /\ cur' = [cur EXCEPT ![t] = Head(list)]
            /\ rest' = [rest EXCEPT ![t] = Tail(list)]
            /\ UNCHANGED res
  /\ UNCHANGED <<objVars, lockVars, interp, iterVars, on, nested, left, op, history>>

\* ri->next = cur->next, and the switch on cur->type
next_store(t) ==
  /\ At(t, "advance")
  /\ work' = [work EXCEPT ![on[t]] = rest[t]]
  /\ Goto(t, CASE Kind[cur[t]] \in {"node", "alias"} -> "expand"
               [] Kind[cur[t]] = "empty"             -> "freeloop"
               [] Kind[cur[t]] = "data"              -> "decode"
               [] Kind[cur[t]] = "invalid"           -> "rdunlock")
  /\ res' = [res EXCEPT ![t] = IF Kind[cur[t]] = "invalid" THEN "InvalidDatabaseError" ELSE @]
  /\ UNCHANGED <<objVars, lockVars, interp, iter, iterRefs, heap, locals, op, history>>

\* A search node: skip an alias of the IPv4 subtree, otherwise put its two
\* children in front of the list; on a read or allocation error, neither, and
\* when it is the second allocation that fails the left child is in hand.
next_expand(t) ==
  /\ At(t, "expand")
  /\ \/ /\ Kind[cur[t]] = "alias"
        /\ Goto(t, "freeloop")
        /\ UNCHANGED <<iterVars, left, res>>
     \/ /\ Kind[cur[t]] = "node"
        /\ work' = [work EXCEPT ![on[t]] = Children[cur[t]] \o @]
        /\ heap' = [heap EXCEPT ![on[t]] = @ \cup {Children[cur[t]][1], Children[cur[t]][2]}]
        /\ Goto(t, "freeloop")
        /\ UNCHANGED <<iter, iterRefs, left, res>>
     \/ /\ Kind[cur[t]] = "node"
        /\ Goto(t, "rdunlock")
        /\ \E r \in {"InvalidDatabaseError", "MemoryError"} : res' = [res EXCEPT ![t] = r]
        /\ UNCHANGED <<iterVars, left>>
     \/ /\ Kind[cur[t]] = "node"
        /\ left' = [left EXCEPT ![t] = Children[cur[t]][1]]
        /\ heap' = [heap EXCEPT ![on[t]] = @ \cup {Children[cur[t]][1]}]
        /\ Goto(t, "rdunlock")
        /\ res' = [res EXCEPT ![t] = "MemoryError"]
        /\ UNCHANGED <<iter, iterRefs, work>>
  /\ UNCHANGED <<objVars, lockVars, interp, on, nested, cur, rest, op, history>>

\* Mutant: no free(cur) at the bottom of the loop.
next_free_loop_missing(t) ==
  /\ At(t, "freeloop")
  /\ Goto(t, "pop")
  /\ UNCHANGED <<objVars, lockVars, interp, iterVars, locals, op, res, history>>

\* free(cur) at the bottom of the loop
next_free_loop(t) ==
  /\ At(t, "freeloop")
  /\ heap' = [heap EXCEPT ![on[t]] = @ \ {cur[t]}]
  /\ Goto(t, "pop")
  /\ UNCHANGED <<objVars, lockVars, interp, iter, iterRefs, work, locals, op, res, history>>

\* ipaddress.ip_network(...) runs Python code, with the read lock held.
call_ip_network(t) ==
  /\ At(t, "network")
  /\ Goto(t, "rdunlock")
  /\ \E r \in {"item", "network_error"} : res' = [res EXCEPT ![t] = r]
  /\ UNCHANGED <<objVars, lockVars, interp, iterVars, locals, op, history>>

\* The records that a ReaderIter_next has in hand.
Held(t) == {cur[t], left[t]} \ {NoRecord}

\* Mutant: free(left) is forgotten.
next_free_leaks_left(t) ==
  /\ At(t, "free")
  /\ heap' = [heap EXCEPT ![on[t]] = @ \ {cur[t]}]
  /\ cur' = [cur EXCEPT ![t] = NoRecord]
  /\ left' = [left EXCEPT ![t] = NoRecord]
  /\ Goto(t, "idle")
  /\ UNCHANGED <<objVars, lockVars, interp, iter, iterRefs, work, on, nested, rest, op, res, history>>

\* free(cur) after the release, on every path that returns, and free(left)
next_free(t) ==
  /\ At(t, "free")
  /\ heap' = [heap EXCEPT ![on[t]] = @ \ Held(t)]
  /\ cur' = [cur EXCEPT ![t] = NoRecord]
  /\ left' = [left EXCEPT ![t] = NoRecord]
  /\ Goto(t, "idle")
  /\ UNCHANGED <<objVars, lockVars, interp, iter, iterRefs, work, on, nested, rest, op, res, history>>

\* Py_DECREF of an iterator; the last one runs ReaderIter_dealloc, which
\* drops the iterator's reference to the Reader before it frees the list.
ReaderIter_dealloc(t, i) ==
  /\ At(t, "idle") /\ iter[i] = "live" /\ t \in iterRefs[i]
  /\ iterRefs' = [iterRefs EXCEPT ![i] = @ \ {t}]
  /\ IF iterRefs'[i] # {}
       THEN UNCHANGED <<iter, pc, op, on>>
       ELSE /\ iter' = [iter EXCEPT ![i] = "dying"]
            /\ on' = [on EXCEPT ![t] = i]
            /\ op' = [op EXCEPT ![t] = "dealloc"]
            /\ Goto(t, IF refs = {} /\ \A j \in Threads : ~HoldsReader(iter'[j])
                         THEN "dealloc" ELSE "freerecs")
  /\ UNCHANGED <<objVars, lockVars, interp, work, heap, nested, cur, rest, left, res, history>>

free_records(t) ==
  /\ At(t, "freerecs")
  /\ LET i == on[t] IN
       /\ heap' = [heap EXCEPT ![i] = @ \ {work[i][k] : k \in DOMAIN work[i]}]
       /\ work' = [work EXCEPT ![i] = <<>>]
       /\ iter' = [iter EXCEPT ![i] = "none"]
  /\ on' = [on EXCEPT ![t] = NoThread]
  /\ Goto(t, "idle")
  /\ UNCHANGED <<objVars, lockVars, interp, iterRefs, nested, cur, rest, left, op, res, history>>

-----------------------------------------------------------------------------

Init ==
  /\ obj = "new" /\ refs = {} /\ mmdb = "NULL" /\ mapping = "none" /\ closed = "unset"
  /\ lock = "raw" /\ readers = {} /\ writer = {}
  /\ gil = NoThread /\ stop = NoThread
  /\ iter = [i \in Threads |-> "none"]
  /\ iterRefs = [i \in Threads |-> {}]
  /\ work = [i \in Threads |-> <<>>]
  /\ heap = [i \in Threads |-> {}]
  /\ pc = [t \in Threads |-> "idle"]
  /\ op = [t \in Threads |-> "closed"]
  /\ on = [t \in Threads |-> NoThread]
  /\ nested = [t \in Threads |-> FALSE]
  /\ cur = [t \in Threads |-> NoRecord]
  /\ rest = [t \in Threads |-> <<>>]
  /\ left = [t \in Threads |-> NoRecord]
  /\ res = [t \in Threads |-> "nothing"]
  /\ calls = 0 /\ closeSeen = FALSE
  /\ late = [t \in Threads |-> FALSE]

\* What Python code may ask for, while it is not inside a call.
Request(t) ==
  \/ Reader_init(t) \/ DropReader(t)
  \/ Reader_get(t) \/ Reader_metadata(t) \/ Reader__enter__(t) \/ Reader_iter(t)
  \/ Reader_close(t) \/ Reader__exit__(t) \/ ReadClosedMember(t)
  \/ \E i \in Threads : ReaderIter_next(t, i) \/ ReaderIter_dealloc(t, i)

\* The steps of a call that is under way.
Step(t) ==
  \/ reader_acquire_read_lock(t) \/ read_lock_fails(t) \/ reader_release_read_lock(t)
  \/ reader_acquire_write_lock(t) \/ write_lock_fails(t) \/ reader_release_write_lock(t)
  \/ Reader_dealloc(t) \/ reader_lock_destroy(t)
  \/ close_unmap(t) \/ close_clear(t) \/ close_flag(t) \/ check_closed(t)
  \/ get_record(t) \/ get_entry_data_list(t) \/ from_entry_data_list(t) \/ build_metadata(t)
  \/ alloc_iterator(t) \/ next_load(t) \/ next_store(t) \/ next_expand(t)
  \/ next_free_loop(t) \/ call_ip_network(t) \/ next_free(t) \/ free_records(t)

\* The Reader is gone and nobody is inside a call: the behaviour may end here.
Finished ==
  /\ obj = "freed" /\ \A t \in Threads : pc[t] = "idle" /\ iter[t] = "none"
  /\ UNCHANGED vars

Next ==
  \/ \E t \in Threads :
       \/ TakeGil(t) \/ Yield(t) \/ StopTheWorld(t) \/ StartTheWorld(t)
       \/ Request(t) \/ CloseInsideNext(t) \/ Step(t)
  \/ Finished

Spec == Init /\ [][Next]_vars

\* A thread inside a call keeps running (the operating system schedules it), a
\* holder of the GIL gives it up within the switch interval, and a thread that
\* waits for the GIL gets it in the end (CPython forces the switch).  A
\* collection goes on once every thread has stopped.
Fairness ==
  \A t \in Threads :
    WF_vars(Step(t)) /\ WF_vars(StartTheWorld(t)) /\ WF_vars(Yield(t)) /\ SF_vars(TakeGil(t))

FairSpec == Spec /\ Fairness

-----------------------------------------------------------------------------
(* Properties.                                                              *)

ObjectTypes ==
  /\ obj \in {"new", "live", "failed", "freed"} /\ refs \subseteq Threads
  /\ mmdb \in {"NULL", "handle"} /\ mapping \in {"none", "mapped", "unmapped"}
  /\ closed \in {"unset", "False", "True"}
  /\ lock \in {"raw", "ready", "destroyed"}
  /\ readers \subseteq Threads /\ writer \subseteq Threads
  /\ gil \in Threads \cup {NoThread} /\ stop \in Threads \cup {NoThread}

IteratorTypes ==
  /\ iter \in [Threads -> {"none", "live", "dying"}]
  /\ iterRefs \in [Threads -> SUBSET Threads]
  /\ work \in [Threads -> Seq(Records)]
  /\ heap \in [Threads -> SUBSET Records]

CallTypes ==
  /\ pc \in [Threads -> Steps] /\ op \in [Threads -> Ops] /\ res \in [Threads -> Outcomes]

LocalTypes ==
  /\ on \in [Threads -> Threads \cup {NoThread}]
  /\ nested \in [Threads -> BOOLEAN]
  /\ cur \in [Threads -> Records \cup {NoRecord}]
  /\ rest \in [Threads -> Seq(Records)]
  /\ left \in [Threads -> Records \cup {NoRecord}]

HistoryTypes == calls \in Nat /\ closeSeen \in BOOLEAN /\ late \in [Threads -> BOOLEAN]

\* Every variable has its type.
TypeOK == ObjectTypes /\ IteratorTypes /\ CallTypes /\ LocalTypes /\ HistoryTypes

\* No method reads the handle or the mapped file after a close() on another
\* thread has unmapped it: the file stays mapped from the check of mmdb/closed
\* to the last read (get_record, Reader_metadata, ReaderIter_next).
NoUseAfterUnmap ==
  \A t \in Threads : pc[t] \in MappedSteps => mmdb = "handle" /\ mapping = "mapped"

\* Two close() calls, or a close() and Reader_dealloc, never both pass the same
\* handle to MMDB_close: a closer that sees a handle sees a mapped one.
UnmapOnce ==
  \A t \in Threads : pc[t] = "unmap" /\ mmdb = "handle" => mapping = "mapped"

\* On every path, error paths included, a thread unlocks only what it locked,
\* and nobody holds the lock when reader_lock_destroy runs (the EBUSY warning
\* "bug: lock not properly released" is never issued).
LockBalanced ==
  ~UseGil => \A t \in Threads :
    /\ pc[t] = "rdunlock" => t \in readers
    /\ pc[t] = "wrunlock" => t \in writer
    /\ pc[t] = "idle" => t \notin readers \cup writer
    /\ pc[t] = "destroy" => readers = {} /\ writer = {}

\* The Reader_obj outlives every method call on it and every iterator: the
\* reference an iterator takes keeps it alive after the caller's own is gone.
AliveWhileUsed ==
  \A t \in Threads :
    /\ pc[t] # "idle" /\ op[t] \in Ops \ {"dealloc"} => obj = "live"
    /\ iter[t] = "live" => obj = "live"

\* The records calloc'ed by an iterator are exactly those on its list and those
\* a ReaderIter_next has in hand: none is leaked, freed twice or used after free.
InHand(i) == {t \in Threads : on[t] = i /\ cur[t] # NoRecord /\ pc[t] \notin {"advance", "pop"}}

OnList(i) == {work[i][k] : k \in DOMAIN work[i]}

RecordsAccounted ==
  \A i \in Threads :
    /\ heap[i] = OnList(i) \cup UNION {Held(t) : t \in InHand(i)}
    /\ \A t \in InHand(i) : Held(t) \cap OnList(i) = {}
    /\ \A t, u \in InHand(i) : t # u => Held(t) \cap Held(u) = {}

\* A call that begins after some close() has returned, or after `closed` was
\* seen True (a read without the lock), never succeeds.
ReadsAfterCloseFail ==
  \A t \in Threads : late[t] /\ op[t] \in ReadOps => res[t] \notin Successes

\* Once the last reference is gone the file is unmapped and every record freed.
NothingLeaked ==
  obj = "freed" /\ (\A t \in Threads : pc[t] = "idle" /\ iter[t] = "none")
    => mapping # "mapped" /\ \A i \in Threads : heap[i] = {}

-----------------------------------------------------------------------------
(* What the object's users see of it.                                       *)

\* The steps of a reading call that has been admitted and has not yet taken
\* everything it needs out of the database.
UsingDatabase == MappedSteps \cup {"pop", "advance", "freeloop"}

\* A destructor is not a call: its thread counts as idle.
CallPhase(t) ==
  IF pc[t] = "idle" \/ op[t] = "dealloc" THEN "idle"
  ELSE CASE pc[t] \in {"wrlock", "unmap", "clear", "flag"} -> "closing"
         [] pc[t] = "wrunlock"                     -> "finished"
         [] pc[t] \in {"rdlock", "check"}          -> "called"
         [] pc[t] \in UsingDatabase                -> "reading"
         [] pc[t] \in {"rdunlock", "network", "build", "alloc", "free"} ->
              IF res[t] = "closed" THEN "refused" ELSE "answered"

CallOutcome(t) ==
  IF CallPhase(t) # "idle" \/ res[t] = "nothing" THEN "none"
  ELSE IF res[t] \in Successes THEN "value"
  ELSE IF res[t] \in {"closed", "done", "True", "False"} THEN res[t] ELSE "error"

\* `closed` is the abstract state once the constructor has set it.
API == INSTANCE ReaderAPI WITH
  state   <- CASE closed = "False" -> "open"
               [] closed = "True"  -> "closed"
               [] closed = "unset" -> IF obj = "new" THEN "new" ELSE "failed",
  phase   <- [t \in Threads |-> CallPhase(t)],
  outcome <- [t \in Threads |-> CallOutcome(t)]

\* The C Reader is a Reader: every step of its methods, its lock and its
\* destructor is a step of ReaderAPI or none.  A call takes effect at its check
\* of mmdb or closed, a close() when it sets closed, and between the two no
\* admitted call still needs the database.
ImplementsReaderAPI == API!Spec

\* Every method call returns: no call waits for the lock for ever.
CallsReturn == \A t \in Threads : pc[t] # "idle" ~> pc[t] = "idle"

\* A collection stops a thread in ip_network(), where ReaderIter_next holds the
\* read lock, and waits for a thread that waits for that lock to close.
CollectionKnot ==
  stop # NoThread /\ \E u, v \in Threads : pc[u] = "network" /\ pc[v] = "wrlock"

\* A close() made inside ip_network() waits for the read lock of its own thread.
ReentrantKnot ==
  \E u \in readers : nested[u] /\ pc[u] = "wrlock"

\* A call returns, unless it is caught in one of these two knots around the
\* Python code that ReaderIter_next runs with the read lock held: nothing else
\* makes a call wait for the lock without end.
HangsOnlyInKnots ==
  \A t \in Threads : pc[t] # "idle" ~> pc[t] = "idle" \/ CollectionKnot \/ ReentrantKnot

=============================================================================
