# A TLA+ verification of MaxMind-DB-Reader-python

The repository reads MaxMind DB files (a binary search tree over IP addresses
whose leaves point into a data section) and offers two implementations of one
interface: a C extension on top of libmaxminddb (`extension/maxminddb.c`) and a
pure Python one (`maxminddb/reader.py`, `decoder.py`, `file.py`). This directory
holds TLA+ models of the two, the TLC runs that check them and the TLAPS proofs
about them. `PROJECT.json` maps every definition to the lines it models.

## Inventory

| Component | State | Operations | What is hard |
|---|---|---|---|
| C `Reader` | `mmdb` (handle or NULL), `closed`, `rwlock`, refcount | `Reader_init`, `get`, `get_with_prefix_len`, `metadata`, `close`, `__enter__`, `__exit__`, `__iter__`, member `closed`, `Reader_dealloc` | `close()` unmaps the file while other threads read it; error paths and locks; destruction |
| C `ReaderIter` | a reference to the Reader, a linked list of records still to visit | `ReaderIter_next`, `ReaderIter_dealloc` | the list is changed under a *read* lock; Python code runs with that lock held |
| Lock layer | pthread rwlock, SRWLOCK or nothing, chosen at build time | acquire/release read/write, init, destroy | EAGAIN, EDEADLK; with a GIL it is a no-op |
| Search tree, Python | the buffer, `_ipv4_start`, metadata | `_read_node`, `_find_address_in_tree`, `get_with_prefix_len`, `_generate_children` | 28 bit records, the IPv4 subtree of an IPv6 tree and its aliases, prefix lengths |
| Search tree, C | libmaxminddb's `MMDB_s` | `get_record`, the loop of `ReaderIter_next` | the same, with other arithmetic |
| Python `Reader` life cycle | `_buffer`, `closed` | `__init__`, `_load_buffer`, `close`, `__enter__`, `__exit__` | close while reading, partial construction, fork |
| `FileBuffer` | a file handle, a lock without `pread` | `__getitem__`, `rfind`, `close` | descriptor reuse between `fileno()` and `pread`; an offset shared by forked processes |
| `Decoder` | none (pure) | one decoder per type | widths at boundaries, pointers |
| `from_entry_data_list` | a cursor in libmaxminddb's list; references | `from_map`, `from_array`, `from_uint128` | one allocation of many fails; integer widths |
| `open_database` | none | mode dispatch | MODE_AUTO does not fall back after an error |
| C `Metadata` | nine fields | `Metadata_init`, `Metadata_dealloc` | uninitialised locals when a key is missing |
| Module state | five references | exec, traverse, clear, free | a failed import; what keeps a module alive |

The components meet in few places. Python threads call the Reader and the
iterators; an iterator holds a reference to its Reader and takes the Reader's
lock; `ReaderIter_next` calls back into Python (`ipaddress.ip_network`) with the
read lock held; the interpreter may switch threads (GIL build), run a finalizer
or signal handler, or stop all threads for a garbage collection (free-threaded
build) at points the extension does not choose. Both implementations read the
same tree and are to give the same answers.

What makes each correct: no read of an unmapped file, one unmapping, locks
released on all paths, no leak and no double free, calls after `close()` fail,
calls return (C Reader and iterator); a read answers with the database's bytes or
raises, and a closed Reader holds no file (Python Reader); the stored value comes
out, and every object made on the way is released (conversion); iteration lists exactly the records, and
lookups agree with it, with each other and between implementations (tree).
The hazards behind these, each at its line, are in `PROJECT.json`.

## Modules

| Module | Contents |
|---|---|
| `ReaderAPI` | abstract specification: what a Reader promises its threads |
| `ExtensionReader` | state machine of one C Reader, its iterators and the threads |
| `MCExtensionReader` | small trees and the symmetry set for TLC |
| `ExtensionReaderProofs` | its inductive invariants (handle, lock, GIL; references, flag, late calls) and theorems |
| `ExtensionReaderRefinement` | proof that `ExtensionReader` implements `ReaderAPI` |
| `ExtensionReaderRecords` | proofs about the records of the iterators |
| `SearchTree` | file layout and lookups of both implementations, as operators |
| `SearchTreeProofs` | theorems about them |
| `TreeIteration` | state machine of both iterators, reference definitions, properties |
| `TreeIterationProofs` | the inductive invariants of an iteration, and theorems |
| `MCTreeIteration` | all search trees of given sizes, with and without cycles |
| `PythonReader` | state machine of the pure Python Reader, its buffer and a forked child |
| `PythonReaderProofs` | its inductive invariant and theorems |
| `Bytes` | byte strings |
| `DataSection` | what a file stores: the values, the bytes a writer may choose, libmaxminddb's list of it |
| `Decoder` | the Python decoder and `rfind`, as operators |
| `EntryData` | both readers' conversions with the C side's references, and Metadata |
| `EntryDataProofs` | theorems about sizes, pointers and the search for the marker |
| `MCEntryData` | the data and the short files of the run |
| `ModuleState` | state machine of the extension module in one interpreter |
| `ModuleStateProofs` | its inductive invariant and theorems |

### ExtensionReader

A thread is at a step `pc[t]` of a method `op[t]`; every lock operation, check,
access to the handle or mapped file, list operation and `free` of the C code is
a step of its own, so in the free-threaded build (`UseGil = FALSE`) two threads
interleave between any two of them. With `UseGil = TRUE` only the holder of
`gil` moves and gives it up at `YieldPoints`: where bytecode runs (between calls
and inside `ip_network()`) and, with `GcInAlloc`, where a container allocation
can run finalizers (CPython 3.10 and 3.11 collect inside the allocation; later
versions collect between bytecodes only).

- `obj`, `refs`, `mmdb`, `closed`, `lock`, `readers`, `writer` are the object,
  its owners and its fields; `mapping` is the mapped file.
- `iter`, `iterRefs`, `work`, `heap` are the iterators, their owners, the list at
  `ri->next` and the records allocated for it. One iterator per creating thread.
- `nested` says that a thread runs `close()` inside its own `ReaderIter_next`
  (`Reentrant`), from a signal handler or finalizer.
- `stop` is a pending stop-the-world request. A thread answers it at `SafePoints`
  only; a thread blocked on the rwlock is still attached and does not.
- `closeSeen` and `late` are history: some `close()` returned (or `closed` was
  seen `True`) before this call began.

The lock is the POSIX one: readers are admitted unless a writer holds it; EAGAIN
may come to a reader, EDEADLK to a writer that is a reader (`DetectDeadlock`; the
alternative is to block). Two failures of the code are kept as they are:
`__exit__` ignores a failed close and returns with an exception set, and a failed
constructor destroys the lock a second time in `Reader_dealloc`.

What libmaxminddb answers is a free choice. `ip_converter` is here the choice
between an address and `bad_argument`, before the lock is taken; `SearchTree` has
its conversions.

`ImplementsReaderAPI` is the refinement. `ReaderAPI` knows an open, then closed
database and calls that are admitted or refused; `close()` takes effect in one
step, when no admitted call still needs the database. The mapping takes the
abstract state from `closed`, and each thread's phase from its step (`CallPhase`):
a call takes effect at its check, a close at the assignment of `closed`, which comes
after that of `mmdb` and can be seen without the lock. The thread that runs a destructor counts as idle.

### SearchTree and TreeIteration

The bytes are real (24, 28, 32 bit records as the format packs them), and so are
the offsets of `_read_node`, the alias tests and the prefix arithmetic. Address
widths are scaled: `Gap` stands for 96 and `V4Bits` for 32. `Gap > V4Bits` is
assumed as it holds for the real widths: with it an IPv4 prefix length is never
a valid length of the wider part. libmaxminddb's walk and `ipaddress.ip_network`
are external, modelled from their use. libmaxminddb's exact bound for a data
pointer is not visible in the repository; the runs use pointers that are well
inside or well outside the file.

An iteration is a list of pending calls (the suspended frames of the Python
generator; the linked list of the C iterator). The reference, `Items`, is
computed from the writer's view of the tree by walking all prefixes.

Two things happen below the last bit of an address, where only a tree with a cycle
or one that is too deep has nodes. The Python generator goes on and its shift by a
negative count raises. The C loop sets a bit at `ip_packed[depth / 8]`, after the end of
the array: the byte belongs to the members of the record that are assigned next, so
the bit is lost (`BitValue`). `MaxDepth` is where an iteration is no longer followed;
beyond depth 511 the bit would leave the record, which is undefined behaviour, so what
is said of a `MaxDepth` above that is not said of the code.

`Arguments` is what a caller may pass. Text: an address in the notation both readers
take, in one of the older spellings, with a zone, no address, with a NUL, with a lone
surrogate. Objects: an `ipaddress` object or anything with a `packed` attribute of any
number of bits (up to one more than an IPv6 address), a `bytes` or something else, with
`version` 4, 6 or without one; objects whose `packed` is of no use; objects without
it. `ReadersAgree` compares the two readers on all of them. They do not always agree,
and the property says exactly where they part: both answer alike for text in the
usual notation, `ipaddress` objects and useless ones; `ObjectsDiffer` is the rest. The
Python reader walks a `packed` of any length, fails with AttributeError without a
`version` and believes it otherwise; C looks at the length only.

### PythonReader

A lookup or a step of an iteration is a sequence of buffer accesses; each is one
step on `mmap` and `bytes`, two with `pread` (`fileno()`, then the call) and three
without (lock, seek, read), and the threads interleave between them. `handle`,
`closed`, `fd` and `cache` exist once per process: `Fork` copies them to the child.
The offset of the open file is shared. So is the lock where it is a
`multiprocessing.Lock` (`shared`); the `threading.Lock` that `file.py` falls back on is
copied as it is, held or not, and excludes nobody in the other process (`LockOf`).
`fd` says what the descriptor's number means by now, since `OtherFile` may take a
number that was given back. `cache` is `io.BufferedReader`'s buffer: its `seek`
does nothing when the place is in the buffer already.

`Open` is `open_database` down to `Reader.__init__`, on platforms with and without
the extension and `mmap`. The failures of `__init__` leave different states: nothing
open, everything closed (no marker), the buffer open until the object is finalized
(metadata that cannot be decoded, `closed` not set yet; a path to the IPv4 subtree that
cannot be read, `closed` already False).

### DataSection, Decoder and EntryData

A datum is stored by any of three writers (all inline, keys by pointer, everything
by pointer) at any of several offsets. `Value` says what it stands for; `Decoder`
reads the bytes back, `from_entry_data_list` the list. Text is valid UTF-8 or it
is not; a float is its bytes; an integer is its sign and bytes.

On the C side every object made is named by its place in the list, so leaks and
premature releases are visible. One allocation, or one `PyDict_SetItem`, may fail.
The latter is not checked in the code: the conversion goes on with an exception
set, and the interpreter turns the result into a `SystemError`. A Metadata whose
dict lacks a key, or has an unknown one, is undefined behaviour in
`Metadata_init` or `Metadata_dealloc` and has the outcome `<<"undefined">>`;
`MetadataExact` says that nothing else has.

### ModuleState

`count` holds the references the extension takes on its types and on the two
objects it imports. `exec_fails` may come at every step of `maxminddb_exec`. An
instance takes a reference to its type and its deallocator, which ends in
`PyObject_Del`, does not return it. The collector frees the module when all
references to its types come from the module itself.

## Runs

| Run | Checks | Instance |
|---|---|---|
| `ext_rwlock` | eight invariants, `ImplementsReaderAPI`, deadlock | free-threaded, 2 threads, 5 calls, nested close with EDEADLK |
| `ext_gil` | six invariants, `ImplementsReaderAPI`, deadlock | GIL, 2 threads, 4 calls, shared iterators, nested close |
| `ext_live` | `HangsOnlyInKnots` under `FairSpec` | free-threaded, 2 threads, 3 calls, a collection, nested close where the rwlock blocks |
| `tree_all` | seven invariants | all trees of 3 nodes without and of 2 nodes with cycles, followed to depth 5, two more than an address has bits; both versions, three record sizes, both implementations, all arguments |
| `py_reader` | four invariants, `OnlyOrphanedLockHangs` under `FairSpec` | all modes, platforms and locks, 2 threads and a child, 3 calls of up to 2 accesses |
| `entry_data` | six invariants | 281 data, 3 writers, 4 offsets, every single failure; all files of up to 6 bytes |
| `module_state` | three invariants, `FreedUnlessPinned` | up to 4 instances |
| `ext_shared_iterator` | `RecordsAccounted` violated | as `ext_rwlock`, iterators shared |
| `ext_gil_gc` | `NoUseAfterUnmap` violated | GIL, collection inside allocation |
| `ext_stop_the_world` | `CallsReturn` violated | a collection, an iterator, a closer |
| `tree_whole` | `WholeDatabase` violated | 28 bit records |
| `py_fd_reuse` | `AnswersComeFromDatabase` violated | as `py_reader` |

**Bounds.** `MaxCalls` bounds the calls of one behaviour (a collection counts as
one). Two threads and five calls are enough for a lookup, an iteration with two
`next()` and two closes to overlap with destruction; the locks do not tell a
third thread from the second, and the proofs cover any number. The tree of the
`ext_*` runs has every record type on the way. For the trees, three nodes with
`Gap = 2`, `V4Bits = 1` reach every depth of an address and one bit more than an
IPv4 address; there are IPv4 subtrees, aliases of them, data and empty records
at and above the place of the IPv4 subtree. Records of 28 and 32 bits use a
pointer above 2^24, those of 24 bits one past the end of the file. There record
pointers go forward only, and `MaxDepth` is never reached; in the trees of two nodes they
go anywhere, which is enough for a node that points to itself, to the root, or to
another that points back. (Of the theorems only the two about whole iterations are
confined to some trees, see below.)

For `py_reader`, two blocks and reads of one or two of them are enough for a read
that is served from the buffer, from the file, or from both, at an offset that the
other process has moved; three calls for a read, a close and a late read, or for
two readers and a closer; two accesses for a close or a fork between them. For `entry_data` the data have every type, integers of
every length, text at the sizes where the header changes (28/29, 284/285,
65820/65821), containers in containers with a bad key, a bad value or an unknown
type at each place, and repeated keys; the offsets put pointers on both sides of
2048, 526336 and 134744064. `Window = 4` stands for 128 KiB: files are shorter
and longer than it, and the marker lies across its edge, at the end, more than
once or nowhere. In `module_state` four instances allow each type to have had one
while another is alive.

**Deadlock checking** is off where a behaviour ends (an iteration, a conversion,
the last call of the Python Reader, a freed module) and in the liveness runs, where a deadlock shows as a call that does not return.

**Symmetry** (threads) is used in the safety runs only.

**Fairness** (`FairSpec`). A thread inside a call keeps running: weak fairness
of `Step(t)`, the operating system's scheduling. A waiting thread gets the GIL:
CPython forces a switch after the switch interval, hence weak fairness of `Yield`
and strong fairness of `TakeGil`. A collection goes on once every thread has
stopped. Nothing is assumed about Python code making calls, nor about the
rwlock's choice between waiting threads: calls are bounded, so a closer is not
overtaken for ever. On a rwlock that prefers readers it could be by endless new ones,
and `ext_live` does not claim otherwise. In `PythonReader` a thread inside a call keeps running, and
with the calls bounded that is enough for everyone to get the lock in turn, whatever
order it is handed on in. In
`ModuleState` the collector runs sooner or later, at the latest when the
interpreter ends.

## What the violations show

A run stops at its first counterexample, and three of the claims have more than one, or
one that a passing property names as an exception. Four more configurations, outside the
table because each repeats a run with a narrower instance or a narrower claim, show
those: `tree_2_32.cfg` and `tree_bad_text.cfg` of `MCTreeIteration`, `py_fork.cfg` and
`py_fork_lock.cfg` of `PythonReader` (`tlc -config py_fork.cfg PythonReader`). In each
TLC reports the property as violated.

- *Shared iterator.* In a free-threaded build two threads in `next()` of one
  iterator both hold the read lock, load the same `ri->next` and free it twice.
  `tests/threading_test.py` gives each thread its own iterator. With the GIL the
  same sharing is safe (`ext_gil`).
- *Collection inside allocation.* "No locks needed" in GIL builds relies on no
  Python code between the check and the last read. `PyDict_New` breaks that on
  CPython 3.10 and 3.11.
- *Stop the world.* A collection stops an iterating thread inside `ip_network()`,
  which holds the read lock, and waits for a closer that is blocked in
  `pthread_rwlock_wrlock` without having detached from the interpreter.
- *2^32.* `ip_acc <= 2**32` takes ::1:0:0 for an IPv4 address; the Python
  iterator raises at a network that starts there, and the database is not listed
  to its end. The C iterator compares correctly. (`WholeDatabase`; `tree_2_32.cfg`
  takes the trees with an IPv4 part.)
- *No IPv4 search tree.* In an IPv6 database whose path to ::/96 ends in a data record
  lookups work and are tested, but an iteration ends there: both readers subtract 96 from
  a shorter prefix length, and `ip_network()` raises. (`WholeDatabase`, in `tree_whole`.
  The record has no IPv4 network, so all that is asked is that it is yielded.)
- *Bad text.* The README promises a ValueError for an invalid address. Of text with a
  NUL or a lone surrogate the C reader makes a TypeError. (`BadTextIsValueError`, in
  `tree_bad_text.cfg`; `ReadersAgree` says that it does so for every database.)
- *Descriptor reuse.* In MODE_FILE a `close()` between `fileno()` and `pread` lets
  another file have the number: the lookup answers from that file.
- *Fork without pread.* The lock that is there for forked processes does not do what its
  comment says: `BufferedReader` relies on an offset that the other process has moved, and
  the read gives wrong bytes although it is alone. (`AnswersComeFromDatabase`; and
  `ForkedReadsAreRight`, the same of this case only, in `py_fork.cfg`.)
- *Fork with a threading.Lock.* A fork while another thread reads copies its lock in the
  held state. The child has no thread to release it, and its first read waits for ever. (`CallsReturn`, in `py_fork_lock.cfg`.)

Passing properties state other departures of the code where they are, and that
there are no more:

- `HangsOnlyInKnots`: beside the stop-the-world knot, a `close()` from inside the
  iterator blocks its own thread where the rwlock does not report EDEADLK (SRWLOCK
  never does, glibc only to a thread that holds the lock for writing).
- `IterationExact`: if the path to ::/96 ends in a data record, the Python iterator
  skips all other networks with the same record as if they were aliases.
- `RaisesOnlyAt`: beside the two departures above, a record that points past the end of
  the file or lies deeper than an address. In a tree with a cycle through the root
  the C iterator raises at the record that points there, since libmaxminddb takes
  the value 0 for invalid; the Python iterator goes round.
- `ReadersAgree`: the C reader alone takes the older spellings of IPv4 addresses, the
  Python reader alone a zone that the system does not know. Of objects that merely have
  a `packed`, C refuses what is not a `bytes` (TypeError) or has another length
  (ValueError) and asks for nothing else; Python walks any length, but wants a `version`
  (AttributeError) and takes its word for it in an IPv4 database. No document says what
  is to happen to such objects.
- `ReadsRightBytes`: wrong bytes come only from the two forms of `_read` in the
  situations that *Descriptor reuse* and *Fork without pread* describe.
- `OnlyOrphanedLockHangs`: a call hangs only in the situation of *Fork with a threading.Lock*.
- `LateReadsFail`: in MODE_MEMORY and MODE_FD a closed Reader still answers.
- `ConversionExact`: a uint32 above 2^31 - 1 turns negative where `long` has 32 bits.
- `ReferencesExact`: a map with a bad key, and metadata that is not a map, leak.
- `MarkerFound`: `FileBuffer.rfind` does not see the file's last byte, which
  matters only for a marker that nothing follows.
- `FreedUnlessPinned`: a module of which one Reader was ever made is never freed.

## Proofs

Every theorem is about all values of the constants: any set of threads, build
option, search tree, address width, number of instances, file size and bound.

### The C Reader

`ExtensionReaderProofs`:

- `TypeCorrect`: `Spec => []TypeOK`;
- `UseAfterUnmapSafety` and `UnmapOnceSafety`: `NoUseAfterUnmap` and `UnmapOnce`,
  assuming `UseGil => ~GcInAlloc`. The assumption is needed: `ext_gil_gc` shows
  the violation without it.

`NoUseAfterUnmap` is not inductive: it says nothing about who may unmap. The
inductive invariant `IndInv` adds `CallInv` (which method a step belongs to and
what its locals hold), `LockInv` (the lock is held exactly by the threads inside a
locked region, and a writer excludes all others; a nested close keeps the read
lock of the suspended call), `GilInv` (a thread between two yield points holds the
GIL) and `HandleInv` (`closed` is `False` exactly when there is a handle, except between
the two assignments of a close, and the handle is mapped except between `MMDB_close` and
the first of them). The
lock and the GIL enter the argument only through the lemma `Exclusion`: nobody is
between check and last use while a closer is between unmapping and clearing.

The second part of the module, in every build: `AliveWhileUsed`, `LockBalanced` and
`ReadsAfterCloseFail`. `OwnInv` says that every running call rests on a reference
to the object, directly or through a live iterator, and that the thread that runs
a destructor is alone with it; `FlagInv` relates the object, the flag and the
handle; `LateInv` bounds how far a call that began after a close can get. The
lock's balance needs `OwnInv`: that the lock is free when it is destroyed follows
from there being nobody who could hold it.

`ExtensionReaderRefinement`: `Spec => ImplementsReaderAPI`, assuming again
`UseGil => ~GcInAlloc`. Most steps change the phase of one thread; `LocalStep`
shows that each of the ways to do so is a step of `ReaderAPI` or a stutter. A close
takes effect at the assignment of `close_flag`, and `Exclusion` is why no
admitted call still needs the database then.

`ExtensionReaderRecords`: `RecordsAccounted` and `NothingLeaked`, assuming
`UseGil \/ ~ShareIterators` and that the records form a tree. The first is needed:
`ext_shared_iterator` shows the violation. The second, `\E Below : IsTree(Below)`,
is what a record of the model is: a position in the tree (a path of bits), not a
node number, so the positions below two children are disjoint; `MCExtensionReader`
has TLC check that the instance is one. `RecInv` is about whole subtrees: the
positions that the records on the list and in a caller's hand stand for are
disjoint, which is what keeps `next_expand` from putting a record on the list
twice. A caller whose second allocation failed has two in hand, the node and its left
child (`Held`): the child's positions are among the node's, and the child itself is not
(`ExpandFailRecords`).

### The pure Python Reader and the module

`PythonReaderProofs`: `TypeOK`, `ReadsRightBytes`, `LateReadsFail` and
`ReleasedWhenClosed`. `ReadsRightBytes` needs three facts: `LockInv` (without
`pread` the lock is held exactly between seek and read), `HandleInv` (what the
file object and the number of its descriptor say of each other in each process) and
`CacheInv` (as long as nothing was forked, the file's offset is where
`io.BufferedReader` takes it to be). All of it holds with either kind of lock, since
before a fork both belong to the parent.

`ModuleStateProofs`: `TypeOK`, `StateWhileUsed` and `FreedKeepsNothing`. The
invariant says who holds each reference that was taken (`CountExact`); a module
whose types' references all come from the module itself has then no instances.

### The search tree

`SearchTreeProofs` has four theorems about operators. `LookupsAgree`: the C
extension's `get_record` and the Python reader's `get_with_prefix_len` return the
same for every tree, a corrupt one with cycles included, although they walk from
different depths and count prefixes differently. `ShortcutFinds`: so do a lookup
from `_ipv4_start` and one from the root. `PrefixSpeaks`: all addresses with the
reported prefix get that answer. `DatabaseReadsNodes`: `_read_node` gets back from
the packed bytes what the writer stored, nibbles of 28 bit records included.

The loops are recursive functions, of which TLA+ knows only that each is the chosen
solution of its equation. That there is one is proved by induction, used in the
form "a set of numbers that is not empty has a least element" (`LeastElement`, from
the library's well-founded induction for one set), since the induction theorems
with an operator parameter cannot be applied by the provers installed. `Walk` states
the equation; two solutions are equal, and two walks with the same records in front
of them go the same way. `PowersAssumption` states the recursion of `2^k` up to the
address width, which the provers do not know, and `DeepPowersAssumption` up to the number of
nodes, as far as `RecordAt` goes; TLC evaluates both. `TreesOf` are the
trees that fit the record size.

`TreeIterationProofs`: `ReadersAgree`, `V4StartIsShortcut` and `PrefixLenCovers`
from those theorems, and four about the iteration. For `ReadersAgree`, `LookupsAgree`
covers the arguments that are addresses; `ObjectsAgree` covers the objects that merely
have a `packed`, of every length: which exception each reader raises for which of them,
and that two answers are the same answer, a wrong `version` included. `YieldsMatchLookups` and
`RaisesOnlyAt` hold for every tree, cyclic ones included. A yielded network is confirmed by lookups because of where the
pending calls are: `IterationInvariant` says of each that the walk of every address
with its prefix is at its record after that many steps and was at nodes before,
and that its `ip` is the prefix (`ip_acc`), respectively its first address
(`ip_packed`). The invariant is silent about calls deeper than an address is long,
for which neither implementation makes a network. `NetworkOfPython` and `NetworkOfC`
show that the two computations of the network, with the wrong comparison at 2^32 in
Python and the negative prefix lengths above ::/96, either give the network of the
prefix or raise in a case that `RaisesOnlyAt` names.

`IterationExact`, and here `TypeOK`, speak of shallow trees (`Shallow(db.tree)`): the
nodes can be given ranks below the length of an IPv6 address that grow along every
path. Every tree of the file format is one, where a record stands for a prefix of an
address; `MCTreeIteration` has TLC check that all trees of its run without a cycle are. The
hypothesis is needed: in an IPv4 database `_ipv4_start` is 0, so the Python iterator
takes a record that points back to the root for an alias, skips it and stops early.
The argument compares a running iteration with `RecordAt`, the writer's view:

- `RecordAtFollows`: the recursion that defines `RecordAt` has a solution, so its
  equations hold. `PathMeets`: above a prefix that has not ended are only nodes that
  are no aliases, of falling rank; hence `PathIsShort`, that no path comes back to the
  root or is longer than an address.
- `AliasSkipped`: the alias of the reference, an occurrence of the IPv4 subtree
  outside ::/96, is what Python recognises by `ip_acc != 0` and C by `is_ipv6`. The
  ranks make this true: below the subtree there is no second occurrence of it. Of a
  data record there may be, and Python drops it (`DataAliasNotListed`), the departure
  that `Listed` states.
- `ListingInvariant`: each pending call is at the record of its prefix; the calls are
  in address order and do not overlap; what was yielded is to be listed, in address
  order, and lies before every call; and what is to be listed has been yielded or lies
  below a call. A node's children share its addresses between them
  (`ChildAddresses`, `LiesBelowChild`), below a dropped call nothing is left to be
  listed (`PythonDrops`, `CDrops`), and the network of a data record is the one to be
  listed (`NetworkListed`). When no call is left, what was yielded is `Listed`, and
  being in order it has nothing twice.

`TreesAssumption` (records fit their size, a tree has a root) holds for any file
whose metadata is right. The other assumptions on the constants
(`ThreadsAssumption`, `BuildAssumption`, `TreeAssumption`, `WidthAssumption`,
`PythonAssumption`, `InstancesAssumption`) say that model values are distinct,
options Boolean, children records and bounds numbers; TLC evaluates them in every
run.

### The data section

`EntryDataProofs` takes from the conversions what is not recursion over data.

- `SizesInvert`: from a header of any type with any size up to 65821 + 2^24 - 1,
  `decode` reads that type and that size and goes on at the byte after it.
  `PointersInvert`: `_decode_pointer` finds the place that was written, for every
  offset below 2^32 and each of the four forms. `DecoderInverts` tries both at the
  edges of the encodings, as parts of whole data; these theorems leave no size and no
  offset out. They are about `DatumSize` and `_decode_pointer`, the operators that
  `decode` is built from, and a buffer that `Holds` the bytes of `Header` or
  `Pointer` at the offset. `BytesInvert` is the arithmetic (up to four bytes put
  together again), `SliceHeld` the position of the bytes in the buffer.
- `MarkerFoundSafety`: `MarkerFound`, for every file that is not empty, every marker
  and every window. `FileBufferFinds` shows that the search in what `FileBuffer`
  reads, moved by `start`, is the search in the file without its last byte:
  `PlacesInWhatIsRead` matches the places one by one, `MaxOfBounded` (again a least
  element) and `LastPlaceUnique` say that `rfind` is the last of them. The
  invariant `FileInv` then follows the one step of the search. `EntryDataAssumption`
  excludes the empty file, on which `os.pread` is asked for -1 bytes and raises, and
  the empty marker.

### Only model-checked

- Liveness (`HangsOnlyInKnots`, `OnlyOrphanedLockHangs`, `FreedUnlessPinned`): fairness is out
  of the prover's reach.
- The conversions (`TypeOK`, `ConversionExact`, `ReferencesExact`, `DecoderInverts`
  and `MetadataExact` of `EntryData`): recursion over nested data, where what a
  decoder does to a value is known only through the same for its parts.
- The builds that the two hypotheses leave out, which have their own runs.

## Not modelled

- A second `__init__` on one object: undefined for a lock in use, and no caller.
- Corrupt files beyond bad text, unknown types and wrong float sizes: truncated
  data, pointer loops, map keys that are not text, integers longer than their type.
  The Python reader then ends in whatever exception `struct` or the
  recursion limit raises; the C reader in what libmaxminddb decides, which is not in
  the repository. What becomes of an iteration of a cyclic tree beyond `MaxDepth`:
  RecursionError in Python, no end in C.
- Text that `ipaddress` and `getaddrinfo` take differently in ways other than those of
  `Texts`, and the failures of `getaddrinfo` that have nothing to do with the text.
- Writer-preferring locks; reads made from inside `ip_network()`.
- What `getaddrinfo`, `ipaddress` and libmaxminddb do, beyond the way they are used.
- `format_sockaddr`, messages, method tables, packaging, type stubs, tests.

## Plan

All that the plan named for proof is proved. The conversions would need induction
over data. In trees that are not shallow, the iterators' behaviour is known only as far as
`YieldsMatchLookups` and `RaisesOnlyAt` go.

## Running

    tlc -workers 2 -config ext_rwlock.cfg MCExtensionReader
    tlc -workers 2 -config tree_all.cfg MCTreeIteration
    tlc -workers 2 -config py_reader.cfg PythonReader
    tlc -workers 2 -config entry_data.cfg MCEntryData
    tlc -workers 2 -config module_state.cfg ModuleState
    for m in ExtensionReaderProofs ExtensionReaderRefinement ExtensionReaderRecords \
             ModuleStateProofs PythonReaderProofs EntryDataProofs SearchTreeProofs \
             TreeIterationProofs; do tlapm $m.tla; done

The mutants in `PROJECT.json` are the definitions marked `Mutant` in the modules:
plausible bugs, each of which breaks the property it is listed with.
