---------------------------- MODULE PythonReader ----------------------------
(***************************************************************************)
(* The pure Python Reader (maxminddb/reader.py) on its buffer: a mmap      *)
(* object, a FileBuffer (maxminddb/file.py) or a bytes object.  Threads    *)
(* read while another closes, the process opens other files, and it may    *)
(* fork: the child has its own copy of every object and descriptor, and    *)
(* shares with the parent the offset of the open file and, where there is  *)
(* multiprocessing, the lock.                                              *)
(*                                                                         *)
(* A lookup or a step of an iteration is a sequence of buffer accesses.    *)
(* What it reads is abstracted to whether it is what the database file has *)
(* at the place asked for.  The file is Blocks blocks long, a block being  *)
(* what io.BufferedReader keeps in its buffer.                             *)
(***************************************************************************)
EXTENDS Integers, Sequences

CONSTANTS
  Threads,
  Child,     \* the one of them that runs in the forked process
  NoThread,
  Blocks,    \* size of the file
  MaxReads,  \* bound: buffer accesses of one call
  MaxCalls   \* bound: calls started in one behaviour

ASSUME PythonAssumption ==
  /\ Child \in Threads /\ NoThread \notin Threads
  /\ Blocks \in Nat \ {0} /\ MaxReads \in Nat \ {0} /\ MaxCalls \in Nat

Processes == {"parent", "child"}

Process(t) == IF t = Child THEN "child" ELSE "parent"

VARIABLES
  pread,      \* the platform has os.pread
  obj,        \* the Reader: "new", "live", "failed", or "extension" (the C one)
  kind,       \* the type of Reader._buffer
  handle,     \* handle[p]: that mmap or file object, "none", "open" or "closed"
  closed,     \* closed[p]: Reader.closed, "unset", "False" or "True"
  fd,         \* fd[p]: what the descriptor's number means: "database", "other", "free"
  forked,     \* the child process exists
  offset,     \* the open file's offset, shared by the two processes
  cache,      \* cache[p]: BufferedReader's buffer: the block it takes itself to
              \* hold, and the block it holds; <<>> when it is empty
  shared,     \* FileBuffer._lock is a multiprocessing.Lock, not a threading.Lock
  lock,       \* lock[p]: the holder of FileBuffer._lock, of the parent's where it is shared
  pc, op,     \* each thread's next step and its method
  left,       \* accesses the call still makes
  want,       \* the blocks asked for, first and last, until they are read
  foreign,    \* the call has read something that is not the database's
  res,        \* what the call returned or raised
  calls,
  closeSeen,  \* history: closeSeen[p]: a close() returned, or closed was seen True
  late        \* history: the call began after that

reader  == <<pread, shared, obj, kind, handle, closed, forked>>
file    == <<fd, offset, cache>>
locals  == <<pc, op, left, want, foreign, res>>
history == <<calls, closeSeen, late>>
vars == <<reader, file, lock, locals, history>>

At(t, step) == pc[t] = step /\ (t = Child => forked)

Goto(t, step) == pc' = [pc EXCEPT ![t] = step]

-----------------------------------------------------------------------------
(* Opening.                                                                 *)

Modes == {"AUTO", "MMAP_EXT", "MMAP", "FILE", "MEMORY", "FD"}

\* Which implementation open_database takes for a mode.
open_database(mode, has_extension) ==
  CASE mode = "AUTO"     -> IF has_extension THEN "extension" ELSE "Reader"
    [] mode = "MMAP_EXT" -> IF has_extension THEN "extension" ELSE "ValueError"
    [] OTHER             -> "Reader"

\* The buffer _load_buffer makes, or the exception it raises.
_load_buffer(mode, has_mmap) ==
  CASE mode = "MMAP" \/ (mode = "AUTO" /\ has_mmap) ->
         IF has_mmap THEN "mmap" ELSE "AttributeError"
    [] mode = "FILE" \/ (mode = "AUTO" /\ ~has_mmap) -> "FileBuffer"
    [] mode \in {"MEMORY", "FD"} -> "bytes"

Buffers == {"mmap", "FileBuffer", "bytes"}

InParent(value, rest) == [p \in Processes |-> IF p = "parent" THEN value ELSE rest]

\* Reader.__init__ up to its return: nothing else can use the object before.
\* A failure to open the file leaves nothing; a file without the marker is
\* closed again; metadata that cannot be decoded, or a search tree that
\* _ipv4_start cannot be found in, leave the buffer open.
__init__(buffer) ==
  LET Opened(state, h, c) ==
        /\ obj' = state /\ kind' = buffer
        /\ handle' = InParent(IF buffer = "bytes" THEN "none" ELSE h, "none")
        /\ fd' = InParent(IF buffer # "bytes" /\ h = "open" THEN "database" ELSE "free", "free")
        /\ closed' = InParent(c, "unset")
  IN  \/ obj' = "failed" /\ UNCHANGED <<kind, handle, fd, closed>>
      \/ /\ buffer \in Buffers
         /\ \/ Opened("live", "open", "False")
            \/ Opened("failed", "closed", "True")
            \/ \E c \in {"unset", "False"} : Opened("failed", "open", c)

\* maxminddb.open_database(...) on a platform with or without the extension and
\* the mmap module.  A failure is final: no other mode is tried.
Open(mode, has_extension, has_mmap) ==
  /\ obj = "new"
  /\ LET which == open_database(mode, has_extension) IN
     \/ which = "Reader" /\ __init__(_load_buffer(mode, has_mmap))
     \/ which # "Reader" /\ obj' = (IF which = "extension" THEN which ELSE "failed")
                         /\ UNCHANGED <<kind, handle, fd, closed>>
  /\ UNCHANGED <<pread, shared, forked, offset, cache, lock, locals, history>>

\* The exception that left __init__ is dropped, and with it the object: a buffer
\* that was left open is closed by its own finalizer.
Finalize ==
  /\ obj = "failed" /\ handle["parent"] = "open"
  /\ handle' = [handle EXCEPT !["parent"] = "closed"]
  /\ fd' = [fd EXCEPT !["parent"] = "free"]
  /\ UNCHANGED <<pread, shared, obj, kind, closed, forked, offset, cache, lock, locals, history>>

\* os.fork(), by a thread that is not inside a call.  A threading.Lock is copied
\* as it is, held by a thread that the child does not have.
Fork ==
  /\ obj = "live" /\ ~forked
  /\ \E t \in Threads \ {Child} : pc[t] = "idle"
  /\ forked' = TRUE
  /\ LET Copy(f) == [f EXCEPT !["child"] = f["parent"]] IN
       /\ handle' = Copy(handle) /\ closed' = Copy(closed)
       /\ fd' = Copy(fd) /\ cache' = Copy(cache) /\ closeSeen' = Copy(closeSeen)
       /\ IF shared THEN UNCHANGED lock ELSE lock' = Copy(lock)
  /\ UNCHANGED <<pread, shared, obj, kind, offset, locals, calls, late>>

\* The rest of the process opens and closes files of its own; open() takes the
\* lowest free number, the one that FileBuffer.close gave back.
OtherFile(p) ==
  /\ \/ fd[p] = "free"  /\ handle[p] = "closed" /\ fd' = [fd EXCEPT ![p] = "other"]
     \/ fd[p] = "other" /\ fd' = [fd EXCEPT ![p] = "free"]
  /\ UNCHANGED <<reader, offset, cache, lock, locals, history>>

-----------------------------------------------------------------------------
(* Calls.                                                                   *)

Begin(t, o, step) ==
  /\ At(t, "idle") /\ obj = "live" /\ calls < MaxCalls
  /\ Goto(t, step)
  /\ op' = [op EXCEPT ![t] = o]
  /\ foreign' = [foreign EXCEPT ![t] = FALSE]
  /\ late' = [late EXCEPT ![t] = closeSeen[Process(t)]]
  /\ calls' = calls + 1

\* A lookup or a step of an iteration that reads the buffer n times.  None of
\* them looks at `closed`.
get(t, n) ==
  /\ Begin(t, "get", "access")
  /\ left' = [left EXCEPT ![t] = n]
  /\ res' = [res EXCEPT ![t] = "nothing"]
  /\ UNCHANGED <<reader, file, lock, want, closeSeen>>

\* Calls that do not touch the buffer return at once: metadata(), a lookup that
\* is decided by _ipv4_start or refused for its argument, `closed`, __enter__.
AtOnce(t, o, result) ==
  /\ Begin(t, o, "idle")
  /\ res' = [res EXCEPT ![t] = result]
  /\ UNCHANGED <<reader, file, lock, left, want>>

get_without_access(t) ==
  /\ \E r \in {"value", "ValueError", "TypeError"} : AtOnce(t, "get_without_access", r)
  /\ UNCHANGED closeSeen

metadata(t) == AtOnce(t, "metadata", "value") /\ UNCHANGED closeSeen

__enter__(t) ==
  /\ AtOnce(t, "__enter__", IF closed[Process(t)] = "True" THEN "ValueError" ELSE "value")
  /\ UNCHANGED closeSeen

read_closed(t) ==
  /\ AtOnce(t, "closed", closed[Process(t)])
  /\ closeSeen' = [closeSeen EXCEPT ![Process(t)] = @ \/ closed[Process(t)] = "True"]

\* close() and __exit__()
close(t) ==
  /\ Begin(t, "close", "close_buffer")
  /\ res' = [res EXCEPT ![t] = "nothing"]
  /\ UNCHANGED <<reader, file, lock, left, want, closeSeen>>

\* Mutant: self.closed = True comes first.
close_buffer_flag_first(t) ==
  /\ At(t, "close_buffer")
  /\ closed' = [closed EXCEPT ![Process(t)] = "True"]
  /\ Goto(t, "set_closed")
  /\ UNCHANGED <<pread, shared, obj, kind, handle, forked, file, lock, op, left, want, foreign, res, history>>

\* self._buffer.close(); bytes has no such method, and the AttributeError is
\* suppressed.  A second close of the same object does nothing.
close_buffer(t) ==
  /\ At(t, "close_buffer")
  /\ LET p == Process(t) IN
       IF handle[p] = "open"
         THEN handle' = [handle EXCEPT ![p] = "closed"] /\ fd' = [fd EXCEPT ![p] = "free"]
         ELSE UNCHANGED <<handle, fd>>
  /\ Goto(t, "set_closed")
  /\ UNCHANGED <<pread, shared, obj, kind, closed, forked, offset, cache, lock,
                 op, left, want, foreign, res, history>>

set_closed(t) ==
  /\ At(t, "set_closed")
  /\ closed' = [closed EXCEPT ![Process(t)] = "True"]
  /\ closeSeen' = [closeSeen EXCEPT ![Process(t)] = TRUE]
  /\ Goto(t, "idle")
  /\ res' = [res EXCEPT ![t] = "done"]
  /\ UNCHANGED <<pread, shared, obj, kind, handle, forked, file, lock, op, left, want, foreign, calls, late>>

-----------------------------------------------------------------------------
(* Buffer accesses.                                                         *)

\* Mutant: one access too many.
Got_once_more(t, right) ==
  /\ foreign' = [foreign EXCEPT ![t] = @ \/ ~right]
  /\ left' = [left EXCEPT ![t] = @ - 1]
  /\ IF left[t] = 0
       THEN Goto(t, "idle") /\ res' = [res EXCEPT ![t] = "value"]
       ELSE Goto(t, "access") /\ UNCHANGED res

\* The access gave what the file has at the place asked for, or something else.
Got(t, right) ==
  /\ foreign' = [foreign EXCEPT ![t] = @ \/ ~right]
  /\ left' = [left EXCEPT ![t] = @ - 1]
  /\ IF left[t] = 1
       THEN Goto(t, "idle") /\ res' = [res EXCEPT ![t] = "value"]
       ELSE Goto(t, "access") /\ UNCHANGED res

Raise(t, exception) ==
  /\ Goto(t, "idle")
  /\ res' = [res EXCEPT ![t] = exception]
  /\ UNCHANGED <<left, foreign>>

\* A slice or an index of the mmap or bytes object is one step.
__getitem__(t) ==
  /\ At(t, "access") /\ kind \in {"mmap", "bytes"}
  /\ IF handle[Process(t)] = "closed" THEN Raise(t, "ValueError") ELSE Got(t, TRUE)
  /\ UNCHANGED <<reader, file, lock, op, want, history>>

\* Mutant: the number is taken once, in __init__.
_read_fileno_once(t) ==
  /\ At(t, "access") /\ kind = "FileBuffer" /\ pread
  /\ Goto(t, "pread") /\ UNCHANGED <<left, foreign, res>>
  /\ UNCHANGED <<reader, file, lock, op, want, history>>

\* FileBuffer._read with pread, first half: self._handle.fileno()
_read_fileno(t) ==
  /\ At(t, "access") /\ kind = "FileBuffer" /\ pread
  /\ IF handle[Process(t)] = "closed"
       THEN Raise(t, "ValueError")
       ELSE Goto(t, "pread") /\ UNCHANGED <<left, foreign, res>>
  /\ UNCHANGED <<reader, file, lock, op, want, history>>

\* Second half: os.pread with that number, whatever it means by now.  What
\* another file has there may be taken for data or be found invalid.
_read_pread(t) ==
  /\ At(t, "pread")
  /\ \/ fd[Process(t)] = "database" /\ Got(t, TRUE)
     \/ fd[Process(t)] = "free"     /\ Raise(t, "OSError")
     \/ fd[Process(t)] = "other"    /\ (Got(t, FALSE) \/ Raise(t, "InvalidDatabaseError"))
  /\ UNCHANGED <<reader, file, lock, op, want, history>>

\* The process whose lock a process takes.
LockOf(p) == IF shared THEN "parent" ELSE p

\* Mutant: no lock.
_read_lock_ignored(t) ==
  /\ At(t, "access") /\ kind = "FileBuffer" /\ ~pread
  /\ lock' = [lock EXCEPT ![LockOf(Process(t))] = t]
  /\ Goto(t, "seek")
  /\ UNCHANGED <<reader, file, op, left, want, foreign, res, history>>

\* FileBuffer._read without pread: with self._lock
_read_lock(t) ==
  /\ At(t, "access") /\ kind = "FileBuffer" /\ ~pread
  /\ lock[LockOf(Process(t))] = NoThread
  /\ lock' = [lock EXCEPT ![LockOf(Process(t))] = t]
  /\ Goto(t, "seek")
  /\ UNCHANGED <<reader, file, op, left, want, foreign, res, history>>

\* Mutant: released by hand after the read instead of by the with statement.
leave_lock_unless_raised(t, raised) ==
  lock' = IF raised THEN lock ELSE [lock EXCEPT ![LockOf(Process(t))] = NoThread]

\* The end of the with statement, reached by a return or by an exception.
leave_lock(t, raised) == lock' = [lock EXCEPT ![LockOf(Process(t))] = NoThread]

\* io.BufferedReader.seek stays inside its buffer when the place is there, and
\* moves the file's offset only when it is not.
_read_seek(t) ==
  /\ At(t, "seek")
  /\ LET p == Process(t) IN
     \/ /\ handle[p] = "closed" /\ Raise(t, "ValueError")
        /\ leave_lock(t, TRUE)
        /\ UNCHANGED <<offset, cache, want>>
     \/ /\ handle[p] = "open"
        /\ \E first \in 0..(Blocks - 1) : \E last \in {first, first + 1} :
             /\ last < Blocks
             /\ want' = [want EXCEPT ![t] = <<first, last>>]
             /\ IF cache[p] # <<>> /\ cache[p][1] = first
                  THEN UNCHANGED <<offset, cache>>
                  ELSE offset' = first /\ cache' = [cache EXCEPT ![p] = <<>>]
        /\ Goto(t, "read")
        /\ UNCHANGED <<lock, left, foreign, res>>
  /\ UNCHANGED <<reader, fd, op, history>>

\* The blocks a read from the file's offset gives, n of them.
FromOffset(n) == [k \in 1..n |-> offset + k - 1]

\* io.BufferedReader.read takes what is in its buffer and the rest from the
\* file's offset, where it takes the file to be; then the lock is released.
_read_read(t) ==
  /\ At(t, "read")
  /\ LET p     == Process(t)
         first == want[t][1]
         last  == want[t][2]
         hit   == cache[p] # <<>> /\ cache[p][1] = first
         raw   == FromOffset(IF hit THEN last - first ELSE last - first + 1)
         data  == (IF hit THEN <<cache[p][2]>> ELSE <<>>) \o raw
         right == data = [k \in 1..(last - first + 1) |-> first + k - 1]
     IN  \/ /\ handle[p] = "closed" /\ Raise(t, "ValueError")
            /\ leave_lock(t, TRUE)
            /\ UNCHANGED <<offset, cache>>
         \/ /\ handle[p] = "open"
            /\ leave_lock(t, FALSE)
            /\ Got(t, right) \/ (~right /\ Raise(t, "InvalidDatabaseError"))
            /\ offset' = IF offset + Len(raw) > Blocks THEN Blocks ELSE offset + Len(raw)
            /\ cache' = [cache EXCEPT ![p] = <<last, data[Len(data)]>>]
  /\ want' = [want EXCEPT ![t] = <<0, 0>>]
  /\ UNCHANGED <<reader, fd, op, history>>

-----------------------------------------------------------------------------

Init ==
  /\ pread \in BOOLEAN /\ shared \in BOOLEAN /\ (pread => shared)
  /\ obj = "new" /\ kind = "none" /\ forked = FALSE
  /\ handle = [p \in Processes |-> "none"]
  /\ closed = [p \in Processes |-> "unset"]
  /\ fd = [p \in Processes |-> "free"]
  /\ offset = 0 /\ cache = [p \in Processes |-> <<>>]
  /\ lock = [p \in Processes |-> NoThread]
  /\ pc = [t \in Threads |-> "idle"] /\ op = [t \in Threads |-> "none"]
  /\ left = [t \in Threads |-> 0] /\ want = [t \in Threads |-> <<0, 0>>]
  /\ foreign = [t \in Threads |-> FALSE] /\ res = [t \in Threads |-> "nothing"]
  /\ calls = 0
  /\ closeSeen = [p \in Processes |-> FALSE] /\ late = [t \in Threads |-> FALSE]

Request(t) ==
  \/ \E n \in 1..MaxReads : get(t, n)
  \/ get_without_access(t) \/ metadata(t) \/ __enter__(t) \/ read_closed(t) \/ close(t)

Step(t) ==
  \/ close_buffer(t) \/ set_closed(t)
  \/ __getitem__(t) \/ _read_fileno(t) \/ _read_pread(t)
  \/ _read_lock(t) \/ _read_seek(t) \/ _read_read(t)

Next ==
  \/ \E mode \in Modes, has_extension, has_mmap \in BOOLEAN : Open(mode, has_extension, has_mmap)
  \/ Finalize \/ Fork
  \/ \E p \in Processes : OtherFile(p)
  \/ \E t \in Threads : Request(t) \/ Step(t)

Spec == Init /\ [][Next]_vars

\* A thread inside a call is scheduled.
FairSpec == Spec /\ \A t \in Threads : WF_vars(Step(t))

-----------------------------------------------------------------------------
(* Properties.                                                              *)

\* Every variable has its type.
TypeOK ==
  /\ pread \in BOOLEAN /\ shared \in BOOLEAN /\ obj \in {"new", "live", "failed", "extension"}
  /\ kind \in Buffers \cup {"none"} /\ forked \in BOOLEAN
  /\ handle \in [Processes -> {"none", "open", "closed"}]
  /\ closed \in [Processes -> {"unset", "False", "True"}]
  /\ fd \in [Processes -> {"database", "other", "free"}]
  /\ offset \in 0..Blocks /\ lock \in [Processes -> Threads \cup {NoThread}]
  /\ pc \in [Threads -> {"idle", "access", "pread", "seek", "read", "close_buffer", "set_closed"}]
  /\ left \in [Threads -> 0..MaxReads]

\* A read answers with the database's bytes at the place asked for, whatever the
\* other threads read, except in two cases: with pread, when a close() came between
\* fileno() and pread and the number was given to another file; without pread,
\* after a fork.  Neither is what the repository promises: AnswersComeFromDatabase
\* is the claim without the exceptions, and the code breaks it in both.
ReadsRightBytes ==
  \A t \in Threads : foreign[t] =>
    /\ kind = "FileBuffer"
    /\ IF pread THEN handle[Process(t)] = "closed" ELSE forked

\* A call that begins after close() has returned, or after `closed` was seen
\* True, and that needs the file, raises, and reads nothing from any file.  (The
\* bytes of MODE_MEMORY and MODE_FD remain readable, and get(), unlike
\* __enter__(), never looks at `closed`.)
LateReadsFail ==
  \A t \in Threads :
    late[t] /\ kind # "bytes" /\ op[t] \in {"get", "__enter__"} => res[t] # "value" /\ ~foreign[t]

\* A Reader that says it is closed has given the file back, in this process, and
\* the descriptor's number is never the database's again.
ReleasedWhenClosed ==
  \A p \in Processes :
    closed[p] = "True" /\ kind # "bytes" => handle[p] = "closed" /\ fd[p] # "database"

\* The lock of a forked process is held by a thread that only the parent has.
Orphaned(p) == ~shared /\ p = "child" /\ lock[p] \in Threads \ {Child}

\* Every call returns: no thread waits for ever for FileBuffer._lock, not even
\* when a read fails on a file that was closed, or in a process that was forked
\* while another thread held the lock.  Only where the lock is a threading.Lock
\* does the last of these keep it for good (see CallsReturn).
OnlyOrphanedLockHangs ==
  \A t \in Threads : pc[t] # "idle" ~> pc[t] = "idle" \/ Orphaned(Process(t))

\* The comment in FileBuffer._read: "This lock is necessary as after a fork, the
\* different processes will share the same file table entry [...] and as such the
\* same offsets"; HISTORY.rst on 1.2.0 has the errors of reads after a fork gone
\* with it.  So with a lock that the two processes share no read is wrong.
ForkedReadsAreRight == ~pread /\ shared => \A t \in Threads : ~foreign[t]

\* HISTORY.rst on 1.2.0: with the lock, opening the database before forking only
\* costs "resource contention".  So every call returns, in the child as well.
CallsReturn == \A t \in Threads : pc[t] # "idle" ~> pc[t] = "idle"

\* README.rst: the pure Python implementation is "safe for concurrent reads" and
\* a close() in the middle of one "may cause exceptions": never another answer.
\* Nor is one to be had after a fork (see ForkedReadsAreRight).
AnswersComeFromDatabase ==
  \A t \in Threads : op[t] = "get" /\ res[t] = "value" => ~foreign[t]

=============================================================================
