------------------------------ MODULE ReaderAPI ------------------------------
(***************************************************************************)
(* What a Reader promises to the threads that share it: it is open, then   *)
(* closed for good; a call that reads is admitted while it is open and     *)
(* refused once it is closed; and close() takes effect only when no        *)
(* admitted call still needs the database.  There are no locks, iterators, *)
(* handles or mapped files here.                                           *)
(***************************************************************************)
CONSTANT Threads

VARIABLES
  state,    \* "new", "open", "closed" or "failed" (the constructor raised)
  phase,    \* where each thread's call is
  outcome   \* what each thread's last call came to

vars == <<state, phase, outcome>>

Phases == {"idle",
           "called",    \* a reading call, not yet decided
           "reading",   \* admitted, and it still needs the database
           "answered",  \* admitted, and it no longer needs it
           "refused",   \* the database was closed
           "closing",   \* a close() that has had no effect yet
           "finished"}  \* a close() that has

Outcomes == {"none", "value", "closed", "error", "done", "True", "False"}

Init ==
  /\ state = "new"
  /\ phase = [t \in Threads |-> "idle"]
  /\ outcome = [t \in Threads |-> "none"]

Move(t, from, to) == phase[t] = from /\ phase' = [phase EXCEPT ![t] = to]

Open ==
  /\ state = "new" /\ state' \in {"open", "failed"}
  /\ UNCHANGED <<phase, outcome>>

Begin(t) ==
  /\ Move(t, "idle", "called") \/ Move(t, "idle", "closing")
  /\ outcome' = [outcome EXCEPT ![t] = "none"]
  /\ UNCHANGED state

\* Python code that runs before an answer is handed over may close as well.
BeginNested(t) == Move(t, "answered", "closing") /\ UNCHANGED <<state, outcome>>

Admit(t) ==
  /\ state = "open"
  /\ Move(t, "called", "reading") \/ Move(t, "called", "answered")
  /\ UNCHANGED <<state, outcome>>

Refuse(t) == state = "closed" /\ Move(t, "called", "refused") /\ UNCHANGED <<state, outcome>>

Answer(t) == Move(t, "reading", "answered") /\ UNCHANGED <<state, outcome>>

\* By a close(), or by the destructor of a Reader that nobody is using.
Close(t) ==
  /\ state \in {"open", "closed"} /\ state' = "closed"
  /\ \A u \in Threads : phase[u] # "reading"
  /\ Move(t, "closing", "finished") \/ (phase[t] = "idle" /\ UNCHANGED phase)
  /\ UNCHANGED outcome

\* What a phase may come to when its call returns.
Results ==
  [called   |-> {"error"},
   answered |-> {"value", "error"},
   refused  |-> {"closed"},
   closing  |-> {"error"},
   finished |-> {"done"}]

Return(t) ==
  /\ phase[t] \in DOMAIN Results
  /\ phase' = [phase EXCEPT ![t] = "idle"]
  /\ \E r \in Results[phase[t]] : outcome' = [outcome EXCEPT ![t] = r]
  /\ UNCHANGED state

ReturnNested(t) ==
  /\ Move(t, "closing", "answered") \/ Move(t, "finished", "answered")
  /\ UNCHANGED <<state, outcome>>

\* The argument is refused before the database is looked at.
BadArgument(t) ==
  /\ phase[t] = "idle"
  /\ outcome' = [outcome EXCEPT ![t] = "error"]
  /\ UNCHANGED <<state, phase>>

\* The attribute `closed`.
ReadClosed(t) ==
  /\ phase[t] = "idle" /\ state \in {"open", "closed"}
  /\ outcome' = [outcome EXCEPT ![t] = IF state = "closed" THEN "True" ELSE "False"]
  /\ UNCHANGED <<state, phase>>

Next ==
  \/ Open
  \/ \E t \in Threads :
       \/ Begin(t) \/ BeginNested(t) \/ Admit(t) \/ Refuse(t) \/ Answer(t) \/ Close(t)
       \/ Return(t) \/ ReturnNested(t) \/ BadArgument(t) \/ ReadClosed(t)

Spec == Init /\ [][Next]_vars

=============================================================================
