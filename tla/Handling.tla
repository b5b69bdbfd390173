------------------------------ MODULE Handling ------------------------------
(***************************************************************************)
(* Handlers as module Worker takes them to be: a thread that has begun to  *)
(* handle a request answers it in one step, whatever other threads do, and *)
(* no more descriptors are left open than the process may have.            *)
(***************************************************************************)
EXTENDS Naturals, HandlerOutcome

CONSTANTS Threads, FdLimit

VARIABLES
  phase,   \* of each thread: "idle", "busy" or "answered"
  code,    \* the status it answered with, 0 unless it has
  files    \* descriptors left open by the requests answered so far

vars == <<phase, code, files>>

Init ==
  /\ phase = [t \in Threads |-> "idle"]
  /\ code = [t \in Threads |-> 0]
  /\ files = 0

Begin(t) ==
  /\ phase[t] = "idle"
  /\ phase' = [phase EXCEPT ![t] = "busy"]
  /\ UNCHANGED <<code, files>>

Answer(t) ==
  /\ phase[t] = "busy"
  /\ phase' = [phase EXCEPT ![t] = "answered"]
  /\ \E h \in HandlerOutcomes :
       /\ files + h.opened =< FdLimit
       /\ files' = files + h.opened
       /\ code' = [code EXCEPT ![t] = h.code]

Finish(t) ==
  /\ phase[t] = "answered"
  /\ phase' = [phase EXCEPT ![t] = "idle"]
  /\ code' = [code EXCEPT ![t] = 0]
  /\ UNCHANGED files

Next == \E t \in Threads : Begin(t) \/ Answer(t) \/ Finish(t)

Spec == Init /\ [][Next]_vars
=============================================================================
