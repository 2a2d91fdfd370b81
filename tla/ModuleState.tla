----------------------------- MODULE ModuleState -----------------------------
(***************************************************************************)
(* The extension module in one interpreter: maxminddb_exec fills the       *)
(* module state and the module's dictionary, any of its steps may fail,    *)
(* instances of the heap types come and go, the module is unloaded, and    *)
(* the garbage collector frees it when only its own cycle holds it (state  *)
(* and dictionary refer to the types, each type to the module).            *)
(*                                                                         *)
(* count[o] are the strong references to o that the extension has taken    *)
(* and not given back.                                                     *)
(***************************************************************************)
EXTENDS Naturals, Sequences

CONSTANT MaxInstances  \* bound: instances made in one behaviour

ASSUME InstancesAssumption == MaxInstances \in Nat

Types == {"Reader_Type", "Metadata_Type", "ReaderIter_Type"}

Slots == Types \cup {"MaxMindDB_error", "ipaddress_ip_network"}

VARIABLES
  phase,     \* "exec", "loaded", "failed" or "freed"
  step,      \* the step of maxminddb_exec that is next
  imported,  \* the import system or a program refers to the module
  slot,      \* the fields of maxminddb_state that are not NULL
  dict,      \* what the module's dictionary refers to
  count,
  live,      \* live[t]: instances of type t
  dead       \* history: dead[t]: instances that were deallocated

vars == <<phase, step, imported, slot, dict, count, live, dead>>

\* Mutant: the exception class is exposed before it was looked up.
Program_exposes_early ==
  <<<<"slot", "Reader_Type">>, <<"add", "Reader_Type">>,
    <<"slot", "Metadata_Type">>, <<"add", "Metadata_Type">>,
    <<"slot", "ReaderIter_Type">>, <<"add", "MaxMindDB_error">>,
    <<"slot", "MaxMindDB_error">>, <<"slot", "ipaddress_ip_network">>>>

\* What maxminddb_exec does in turn: fill a slot, or add it to the module.
Program ==
  <<<<"slot", "Reader_Type">>, <<"add", "Reader_Type">>,
    <<"slot", "Metadata_Type">>, <<"add", "Metadata_Type">>,
    <<"slot", "ReaderIter_Type">>,
    <<"slot", "MaxMindDB_error">>, <<"slot", "ipaddress_ip_network">>,
    <<"add", "MaxMindDB_error">>>>

One(condition) == IF condition THEN 1 ELSE 0

Take(o) == count' = [count EXCEPT ![o] = @ + 1]

exec_step ==
  /\ phase = "exec"
  /\ LET o == Program[step][2] IN
     /\ Take(o)
     /\ IF Program[step][1] = "slot"
          THEN slot' = slot \cup {o} /\ UNCHANGED dict
          ELSE dict' = dict \cup {o} /\ UNCHANGED slot
  /\ step' = step + 1
  /\ phase' = IF step = Len(Program) THEN "loaded" ELSE "exec"
  /\ UNCHANGED <<imported, live, dead>>

\* Every step returns -1 when it fails.  PyModule_AddObject takes over the
\* reference made by Py_NewRef only when it succeeds.
exec_fails ==
  /\ phase = "exec"
  /\ IF Program[step][1] = "add" THEN Take(Program[step][2]) ELSE UNCHANGED count
  /\ phase' = "failed" /\ imported' = FALSE
  /\ UNCHANGED <<step, slot, dict, live, dead>>

\* A type makes an instance (of ReaderIter_Type only through a Reader) and
\* PyType_GenericAlloc takes a reference to it.
Make(t) ==
  /\ phase = "loaded"
  /\ live["Reader_Type"] > 0 \/ (t # "ReaderIter_Type" /\ (imported \/ live[t] > 0))
  /\ live["Reader_Type"] + live["Metadata_Type"] + live["ReaderIter_Type"]
       + dead["Reader_Type"] + dead["Metadata_Type"] + dead["ReaderIter_Type"] < MaxInstances
  /\ live' = [live EXCEPT ![t] = @ + 1]
  /\ count' = [count EXCEPT ![t] = @ + 1]
  /\ UNCHANGED <<phase, step, imported, slot, dict, dead>>

\* Mutant: the reference to the type is given back, twice.
dealloc_twice(t) ==
  /\ live[t] > 0
  /\ live' = [live EXCEPT ![t] = @ - 1] /\ dead' = [dead EXCEPT ![t] = @ + 1]
  /\ count' = [count EXCEPT ![t] = @ - 2]
  /\ UNCHANGED <<phase, step, imported, slot, dict>>

\* Reader_dealloc, ReaderIter_dealloc and Metadata_dealloc end in PyObject_Del,
\* which does not give back the reference to the type.
dealloc(t) ==
  /\ live[t] > 0
  /\ t = "Reader_Type" => live[t] > 1 \/ live["ReaderIter_Type"] = 0
  /\ live' = [live EXCEPT ![t] = @ - 1] /\ dead' = [dead EXCEPT ![t] = @ + 1]
  /\ UNCHANGED <<phase, step, imported, slot, dict, count>>

\* The interpreter ends, or the module is dropped from sys.modules.
Unload ==
  /\ phase = "loaded" /\ imported
  /\ imported' = FALSE
  /\ UNCHANGED <<phase, step, slot, dict, count, live, dead>>

\* Mutant: ReaderIter_Type is not visited.
maxminddb_traverse_incomplete(o) == One(o \in slot \ {"ReaderIter_Type"})

\* The references of the module state that the collector is told of.
maxminddb_traverse(o) == One(o \in slot)

\* Mutant: ip_network is forgotten.
maxminddb_clear_incomplete(o) == One(o \in slot \ {"ipaddress_ip_network"})

\* The references maxminddb_clear gives back.
maxminddb_clear(o) == One(o \in slot)

\* No type is referred to from outside the cycle, so nor is the module.
Unreachable ==
  ~imported /\ \A t \in Types : count[t] = maxminddb_traverse(t) + One(t \in dict)

\* maxminddb_free, by the collector.
maxminddb_free ==
  /\ phase \in {"loaded", "failed"} /\ Unreachable
  /\ phase' = "freed" /\ slot' = {} /\ dict' = {}
  /\ count' = [o \in Slots |-> count[o] - maxminddb_clear(o) - One(o \in dict)]
  /\ UNCHANGED <<step, imported, live, dead>>

Init ==
  /\ phase = "exec" /\ step = 1 /\ imported = TRUE
  /\ slot = {} /\ dict = {} /\ count = [o \in Slots |-> 0]
  /\ live = [t \in Types |-> 0] /\ dead = [t \in Types |-> 0]

Next ==
  \/ exec_step \/ exec_fails \/ Unload \/ maxminddb_free
  \/ \E t \in Types : Make(t) \/ dealloc(t)

\* The interpreter collects garbage, at the latest when it ends.
Spec == Init /\ [][Next]_vars /\ WF_vars(maxminddb_free)

-----------------------------------------------------------------------------
(* Properties.                                                              *)

\* Every variable has its type.
TypeOK ==
  /\ phase \in {"exec", "loaded", "failed", "freed"} /\ step \in 1..(Len(Program) + 1)
  /\ imported \in BOOLEAN /\ slot \subseteq Slots /\ dict \subseteq slot
  /\ count \in [Slots -> Nat] /\ live \in [Types -> Nat] /\ dead \in [Types -> Nat]

\* The call of PyModule_AddObject that failed left a reference behind.
AddFailed(o) == phase \in {"failed", "freed"} /\ step <= Len(Program) /\ Program[step] = <<"add", o>>

\* While an instance exists every field of the module state is set, unloaded
\* module or not: get_maxminddb_state_from_self never finds a cleared one.
StateWhileUsed == (\E t \in Types : live[t] > 0) => phase = "loaded" /\ slot = Slots

\* A module that was freed has given back every reference it took, but for the
\* one to InvalidDatabaseError when adding it to the module failed.
FreedKeepsNothing ==
  phase = "freed" => \A o \in Slots : count[o] = One(AddFailed(o))

\* A module that is not referred to is freed, unless an instance was made of one
\* of its types or one of them could not be added to it: the reference left
\* behind then keeps the type, and with it the module, for ever.
FreedUnlessPinned ==
  ~imported ~> (phase = "freed" \/ \E t \in Types : live[t] + dead[t] > 0 \/ AddFailed(t))

=============================================================================
