-------------------------- MODULE ModuleStateProofs --------------------------
(***************************************************************************)
(* Proofs about ModuleState, for every number of instances.  The inductive *)
(* invariant says exactly who holds each reference that was taken:         *)
(*                                                                         *)
(*   SlotsFilled   slot and dict are what the steps so far have filled,    *)
(*   UsedLoaded    instances were made only of a loaded module, and a      *)
(*                 module that was freed never had one,                    *)
(*   CountExact    the references to an object are the module state's, the *)
(*                 dictionary's, the one lost by a failed                  *)
(*                 PyModule_AddObject, and, for a type, one for each       *)
(*                 instance ever made.                                     *)
(*                                                                         *)
(* The last clause is why the collector may free the module: that a type's *)
(* count is what traversal explains rules instances out.                   *)
(***************************************************************************)
EXTENDS ModuleState, TLAPS

\* The objects that an instruction before `step` put where `place` says.
Done(place) == {o \in Slots : \E k \in 1..(step - 1) : Program[k] = <<place, o>>}

SlotsFilled ==
  /\ phase = "freed" => slot = {} /\ dict = {}
  /\ phase # "freed" => slot = Done("slot") /\ dict = Done("add")
  /\ phase = "exec" => step \in 1..8
  /\ phase = "loaded" => step = 9

UsedLoaded ==
  phase # "loaded" => \A t \in Types : live[t] = 0 /\ dead[t] = 0

CountExact ==
  \A o \in Slots :
    count[o] = One(o \in slot) + One(o \in dict) + One(AddFailed(o))
                 + (IF o \in Types THEN live[o] + dead[o] ELSE 0)

Variables ==
  /\ phase \in {"exec", "loaded", "failed", "freed"} /\ step \in 1..9
  /\ imported \in BOOLEAN /\ slot \subseteq Slots /\ dict \subseteq Slots
  /\ count \in [Slots -> Nat] /\ live \in [Types -> Nat] /\ dead \in [Types -> Nat]

StateInv == Variables /\ SlotsFilled /\ UsedLoaded /\ CountExact

\* The program, step by step.
LEMMA ProgramSteps ==
  /\ Len(Program) = 8
  /\ Program[1] = <<"slot", "Reader_Type">> /\ Program[2] = <<"add", "Reader_Type">>
  /\ Program[3] = <<"slot", "Metadata_Type">> /\ Program[4] = <<"add", "Metadata_Type">>
  /\ Program[5] = <<"slot", "ReaderIter_Type">>
  /\ Program[6] = <<"slot", "MaxMindDB_error">>
  /\ Program[7] = <<"slot", "ipaddress_ip_network">>
  /\ Program[8] = <<"add", "MaxMindDB_error">>
  BY DEF Program

\* Each instruction has a place and an object, and comes once.
LEMMA ProgramTypes ==
  ASSUME NEW k \in 1..8
  PROVE  /\ Program[k][1] \in {"slot", "add"} /\ Program[k][2] \in Slots
         /\ Program[k] = <<Program[k][1], Program[k][2]>>
         /\ \A j \in 1..8 : j # k => Program[j] # Program[k]
<1>1. k = 1 \/ k = 2 \/ k = 3 \/ k = 4 \/ k = 5 \/ k = 6 \/ k = 7 \/ k = 8
  OBVIOUS
<1>2. /\ Program[k][1] \in {"slot", "add"} /\ Program[k][2] \in Slots
      /\ Program[k] = <<Program[k][1], Program[k][2]>>
  BY <1>1, ProgramSteps DEF Slots, Types
<1>3. ASSUME NEW j \in 1..8, j # k PROVE Program[j] # Program[k]
  <2>1. j = 1 \/ j = 2 \/ j = 3 \/ j = 4 \/ j = 5 \/ j = 6 \/ j = 7 \/ j = 8
    OBVIOUS
  <2>2. QED
    BY <1>1, <1>3, <2>1, ProgramSteps
<1>4. QED
  BY <1>2, <1>3

\* The dictionary refers to nothing that the module state does not.
LEMMA AddedAfterFilled == ASSUME step \in 1..9 PROVE Done("add") \subseteq Done("slot")
<1> SUFFICES ASSUME NEW o \in Slots, NEW k \in 1..(step - 1), Program[k] = <<"add", o>>
             PROVE  \E j \in 1..(step - 1) : Program[j] = <<"slot", o>>
  BY DEF Done
<1>1. k \in 1..8
  OBVIOUS
<1>2. k = 2 \/ k = 4 \/ k = 8
  BY <1>1, ProgramSteps
<1>3. Program[k - 1] = <<"slot", o>> \/ (k = 8 /\ Program[6] = <<"slot", o>>)
  BY <1>2, ProgramSteps
<1>4. QED
  BY <1>1, <1>2, <1>3

\* Every step of the module keeps the accounts.
LEMMA StateStep == StateInv /\ [Next]_vars => StateInv'
<1> SUFFICES ASSUME StateInv, [Next]_vars PROVE StateInv'
  OBVIOUS
<1> USE InstancesAssumption DEF StateInv, Variables, vars
<1>0. /\ \A t \in Types : t \in Slots
      /\ Len(Program) = 8
  BY ProgramSteps DEF Slots
<1>1. ASSUME exec_step PROVE StateInv'
  <2> DEFINE place == Program[step][1]
             x == Program[step][2]
  <2>1. /\ phase = "exec" /\ step \in 1..8 /\ step' = step + 1
        /\ UNCHANGED <<imported, live, dead>>
        /\ count' = [count EXCEPT ![x] = @ + 1]
        /\ place = "slot" => slot' = slot \cup {x} /\ dict' = dict
        /\ place # "slot" => dict' = dict \cup {x} /\ slot' = slot
        /\ phase' = IF step = 8 THEN "loaded" ELSE "exec"
    BY <1>0, <1>1 DEF exec_step, Take, SlotsFilled
  <2>2. /\ place \in {"slot", "add"} /\ x \in Slots /\ Program[step] = <<place, x>>
        /\ \A j \in 1..8 : j # step => Program[j] # <<place, x>>
    <3>1. /\ place \in {"slot", "add"} /\ x \in Slots /\ Program[step] = <<place, x>>
          /\ \A j \in 1..8 : j # step => Program[j] # Program[step]
      BY <2>1, ProgramTypes
    <3>2. QED
      BY <3>1
  <2> HIDE DEF place, x
  <2>3. ASSUME NEW p \in {"slot", "add"}
        PROVE  Done(p)' = IF p = place THEN Done(p) \cup {x} ELSE Done(p)
    <3>1. \A o \in Slots : Program[step] = <<p, o>> <=> p = place /\ o = x
      BY <2>2
    <3>2. \A k : k \in 1..(step' - 1) <=> k \in 1..(step - 1) \/ k = step
      BY <2>1
    <3>3. QED
      BY <2>2, <3>1, <3>2 DEF Done
  <2>4. SlotsFilled'
    <3>1. slot = Done("slot") /\ dict = Done("add")
      BY <2>1 DEF SlotsFilled
    <3>2. slot' = Done("slot")' /\ dict' = Done("add")'
      <4>1. CASE place = "slot"
        BY <2>1, <2>3, <3>1, <4>1
      <4>2. CASE place = "add"
        BY <2>1, <2>3, <3>1, <4>2
      <4>3. QED
        BY <2>2, <4>1, <4>2
    <3>3. /\ phase' # "freed" /\ (phase' = "exec" => step' \in 1..8)
          /\ (phase' = "loaded" => step' = 9)
      BY <2>1
    <3>4. QED
      BY <3>2, <3>3 DEF SlotsFilled
  <2>5. Variables'
    BY <2>1, <2>2
  <2>6. UsedLoaded'
    BY <2>1 DEF UsedLoaded
  <2>7. (place = "slot" => x \notin slot) /\ (place = "add" => x \notin dict)
    <3>1. \A j \in 1..(step - 1) : Program[j] # <<place, x>>
      BY <2>1, <2>2
    <3>2. QED
      BY <2>1, <3>1 DEF SlotsFilled, Done
  <2>8. CountExact'
    <3> SUFFICES ASSUME NEW o \in Slots
                 PROVE  count'[o] = One(o \in slot') + One(o \in dict') + One(AddFailed(o)')
                                      + (IF o \in Types THEN live[o] + dead[o] ELSE 0)
      BY <2>1 DEF CountExact
    <3>1. ~AddFailed(o) /\ ~AddFailed(o)'
      BY <2>1 DEF AddFailed
    <3>2. count'[o] = IF o = x THEN count[o] + 1 ELSE count[o]
      BY <2>1, <2>2
    <3>3. count[o] = One(o \in slot) + One(o \in dict) + 0
                       + (IF o \in Types THEN live[o] + dead[o] ELSE 0)
      BY <3>1 DEF CountExact, One
    <3>4. One(o \in slot') + One(o \in dict')
            = One(o \in slot) + One(o \in dict) + (IF o = x THEN 1 ELSE 0)
      BY <2>1, <2>2, <2>7 DEF One
    <3>5. One(AddFailed(o)') = 0
      BY <3>1 DEF One
    <3>6. live \in [Types -> Nat] /\ dead \in [Types -> Nat] /\ One(o \in slot) \in Nat
          /\ One(o \in dict) \in Nat /\ One(o \in slot') \in Nat /\ One(o \in dict') \in Nat
      BY DEF One
    <3>7. QED
      BY <3>2, <3>3, <3>4, <3>5, <3>6
  <2>9. QED
    BY <2>4, <2>5, <2>6, <2>8
<1>2. ASSUME exec_fails PROVE StateInv'
  <2> DEFINE x == Program[step][2]
  <2>1. /\ phase = "exec" /\ step \in 1..8 /\ phase' = "failed" /\ imported' = FALSE
        /\ UNCHANGED <<step, slot, dict, live, dead>>
        /\ count' = IF Program[step][1] = "add" THEN [count EXCEPT ![x] = @ + 1] ELSE count
    BY <1>2 DEF exec_fails, Take, SlotsFilled
  <2>2. Program[step][1] \in {"slot", "add"} /\ x \in Slots /\ Program[step] = <<Program[step][1], x>>
    BY <2>1, ProgramTypes
  <2>3. Variables' /\ UsedLoaded'
    <3>1. count' \in [Slots -> Nat]
      BY <2>1, <2>2
    <3>2. \A t \in Types : live[t] = 0 /\ dead[t] = 0
      BY <2>1 DEF UsedLoaded
    <3>3. QED
      BY <2>1, <3>1, <3>2 DEF UsedLoaded
  <2>4. SlotsFilled'
    BY <2>1 DEF SlotsFilled, Done
  <2>5. CountExact'
    <3> SUFFICES ASSUME NEW o \in Slots
                 PROVE  count'[o] = One(o \in slot) + One(o \in dict) + One(AddFailed(o)')
                                      + (IF o \in Types THEN live[o] + dead[o] ELSE 0)
      BY <2>1 DEF CountExact
    <3>1. ~AddFailed(o)
      BY <2>1 DEF AddFailed
    <3>2. AddFailed(o)' <=> (Program[step][1] = "add" /\ o = x)
      BY <1>0, <2>1, <2>2 DEF AddFailed
    <3>3. count'[o] = count[o] + One(AddFailed(o)')
      BY <2>1, <2>2, <3>2 DEF One
    <3>4. count[o] = One(o \in slot) + One(o \in dict) + 0
                       + (IF o \in Types THEN live[o] + dead[o] ELSE 0)
      BY <3>1 DEF CountExact, One
    <3>5. live \in [Types -> Nat] /\ dead \in [Types -> Nat] /\ One(o \in slot) \in Nat
          /\ One(o \in dict) \in Nat /\ One(AddFailed(o)') \in Nat
      BY DEF One
    <3>6. QED
      BY <3>3, <3>4, <3>5
  <2>6. QED
    BY <2>3, <2>4, <2>5
<1>3. ASSUME NEW t \in Types, Make(t) PROVE StateInv'
  <2>1. /\ phase = "loaded" /\ UNCHANGED <<phase, step, imported, slot, dict, dead>>
        /\ live' = [live EXCEPT ![t] = @ + 1] /\ count' = [count EXCEPT ![t] = @ + 1]
    BY <1>3 DEF Make
  <2>2. Variables' /\ UsedLoaded'
    BY <1>0, <2>1 DEF UsedLoaded
  <2>3. SlotsFilled'
    BY <2>1 DEF SlotsFilled, Done
  <2>4. CountExact'
    BY <1>0, <2>1 DEF CountExact, One, AddFailed
  <2>5. QED
    BY <2>2, <2>3, <2>4
<1>4. ASSUME NEW t \in Types, dealloc(t) PROVE StateInv'
  <2>1. /\ live[t] > 0 /\ UNCHANGED <<phase, step, imported, slot, dict, count>>
        /\ live' = [live EXCEPT ![t] = @ - 1] /\ dead' = [dead EXCEPT ![t] = @ + 1]
    BY <1>4 DEF dealloc
  <2>2. phase = "loaded"
    BY <2>1 DEF UsedLoaded
  <2>3. Variables' /\ UsedLoaded'
    BY <2>1, <2>2 DEF UsedLoaded
  <2>4. SlotsFilled'
    BY <2>1 DEF SlotsFilled, Done
  <2>5. CountExact'
    BY <1>0, <2>1 DEF CountExact, One, AddFailed
  <2>6. QED
    BY <2>3, <2>4, <2>5
<1>5. ASSUME Unload PROVE StateInv'
  BY <1>5 DEF Unload, SlotsFilled, Done, UsedLoaded, CountExact, AddFailed
<1>6. ASSUME maxminddb_free PROVE StateInv'
  <2>1. /\ phase \in {"loaded", "failed"} /\ phase' = "freed" /\ slot' = {} /\ dict' = {}
        /\ UNCHANGED <<step, imported, live, dead>>
        /\ count' = [o \in Slots |-> count[o] - One(o \in slot) - One(o \in dict)]
        /\ \A t \in Types : count[t] = One(t \in slot) + One(t \in dict)
    BY <1>6 DEF maxminddb_free, Unreachable, maxminddb_traverse, maxminddb_clear
  <2>2. \A o \in Slots : /\ One(o \in slot) \in Nat /\ One(o \in dict) \in Nat
                         /\ One(AddFailed(o)) \in Nat
    BY DEF One
  <2>3. \A t \in Types : One(AddFailed(t)) = 0 /\ live[t] = 0 /\ dead[t] = 0
    <3> SUFFICES ASSUME NEW t \in Types PROVE One(AddFailed(t)) = 0 /\ live[t] = 0 /\ dead[t] = 0
      OBVIOUS
    <3>1. count[t] = One(t \in slot) + One(t \in dict) + One(AddFailed(t)) + (live[t] + dead[t])
      BY <1>0 DEF CountExact
    <3>2. count[t] = One(t \in slot) + One(t \in dict)
      BY <2>1
    <3>3. /\ live[t] \in Nat /\ dead[t] \in Nat
          /\ One(t \in slot) \in Nat /\ One(t \in dict) \in Nat /\ One(AddFailed(t)) \in Nat
      BY DEF One
    <3>4. QED
      BY <3>1, <3>2, <3>3 DEF One
  <2>4. \A o \in Slots : AddFailed(o)' <=> AddFailed(o)
    BY <1>0, <2>1 DEF AddFailed, SlotsFilled
  <2>5. \A o \in Slots : count'[o] = One(AddFailed(o))
    BY <2>1, <2>2, <2>3 DEF CountExact
  <2>6. Variables' /\ UsedLoaded' /\ SlotsFilled'
    BY <2>1, <2>2, <2>3, <2>5 DEF UsedLoaded, SlotsFilled
  <2>7. CountExact'
    BY <2>1, <2>2, <2>3, <2>4, <2>5 DEF CountExact, One
  <2>8. QED
    BY <2>6, <2>7
<1>7. ASSUME UNCHANGED vars PROVE StateInv'
  BY <1>7 DEF SlotsFilled, Done, UsedLoaded, CountExact, AddFailed
<1>8. QED
  BY <1>1, <1>2, <1>3, <1>4, <1>5, <1>6, <1>7 DEF Next

\* The invariant holds in every reachable state.
THEOREM StateInvariance == Spec => []StateInv
<1>1. Init => StateInv
  <2> SUFFICES ASSUME Init PROVE StateInv
    OBVIOUS
  <2>1. Variables /\ UsedLoaded
    BY DEF Init, Variables, UsedLoaded
  <2>2. SlotsFilled
    BY DEF Init, SlotsFilled, Done
  <2>3. CountExact
    BY DEF Init, CountExact, One, AddFailed, Slots
  <2>4. QED
    BY <2>1, <2>2, <2>3 DEF StateInv
<1>2. QED
  BY <1>1, StateStep, PTL DEF Spec

\* The types, and nothing is in the dictionary that the module state lacks.
THEOREM ModuleTypeCorrect == Spec => []TypeOK
<1>1. StateInv => TypeOK
  <2> SUFFICES ASSUME StateInv PROVE TypeOK
    OBVIOUS
  <2>1. Len(Program) + 1 = 9
    BY ProgramSteps
  <2>2. dict \subseteq slot
    <3>1. CASE phase = "freed"
      BY <3>1 DEF StateInv, SlotsFilled
    <3>2. CASE phase # "freed"
      BY <3>2, AddedAfterFilled DEF StateInv, Variables, SlotsFilled
    <3>3. QED
      BY <3>1, <3>2
  <2>3. QED
    BY <2>1, <2>2 DEF StateInv, Variables, TypeOK
<1>2. QED
  BY <1>1, StateInvariance, PTL

\* As long as an instance is alive the module state is complete, whenever the
\* module is unloaded.
THEOREM StateWhileUsedSafety == Spec => []StateWhileUsed
<1>1. StateInv => StateWhileUsed
  <2> SUFFICES ASSUME StateInv, NEW t \in Types, live[t] > 0
               PROVE  phase = "loaded" /\ slot = Slots
    BY DEF StateWhileUsed
  <2>1. phase = "loaded" /\ step = 9
    BY DEF StateInv, UsedLoaded, SlotsFilled
  <2>2. slot = {o \in Slots : \E k \in 1..8 : Program[k] = <<"slot", o>>}
    BY <2>1 DEF StateInv, SlotsFilled, Done
  <2>3. \A o \in Slots : \E k \in 1..8 : Program[k] = <<"slot", o>>
    <3> SUFFICES ASSUME NEW o \in Slots PROVE \E k \in 1..8 : Program[k] = <<"slot", o>>
      OBVIOUS
    <3>1. o = "Reader_Type" \/ o = "Metadata_Type" \/ o = "ReaderIter_Type"
            \/ o = "MaxMindDB_error" \/ o = "ipaddress_ip_network"
      BY DEF Slots, Types
    <3>2. \/ Program[1] = <<"slot", o>> \/ Program[3] = <<"slot", o>> \/ Program[5] = <<"slot", o>>
          \/ Program[6] = <<"slot", o>> \/ Program[7] = <<"slot", o>>
      BY <3>1, ProgramSteps
    <3>3. QED
      BY <3>2
  <2>4. QED
    BY <2>1, <2>2, <2>3
<1>2. QED
  BY <1>1, StateInvariance, PTL

\* maxminddb_free gives back every reference there is, but for the one that a
\* failed PyModule_AddObject lost.
THEOREM FreedKeepsNothingSafety == Spec => []FreedKeepsNothing
<1>1. StateInv => FreedKeepsNothing
  <2> SUFFICES ASSUME StateInv, phase = "freed", NEW o \in Slots
               PROVE  count[o] = One(AddFailed(o))
    BY DEF FreedKeepsNothing
  <2>1. o \notin slot /\ o \notin dict /\ (o \in Types => live[o] = 0 /\ dead[o] = 0)
    BY DEF StateInv, SlotsFilled, UsedLoaded
  <2>2. One(AddFailed(o)) \in Nat
    BY DEF One
  <2>3. QED
    BY <2>1, <2>2 DEF StateInv, CountExact, One
<1>2. QED
  BY <1>1, StateInvariance, PTL

=============================================================================
