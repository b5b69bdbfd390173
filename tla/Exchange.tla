------------------------------ MODULE Exchange ------------------------------
(***************************************************************************)
(* What a worker promises its clients, without libuv, parsers, registries  *)
(* or descriptors.  On each connection the worker sends replies: any       *)
(* number of 400s and then at most one other.  The kernel takes them in    *)
(* the order they were sent.  The worker hangs up when a reply has gone    *)
(* out or the client has gone, and a connection that it has finished       *)
(* closing has lost no reply.  The worker may stop for good at any moment, *)
(* even with a last reply just sent; then nothing happens any more.        *)
(*                                                                         *)
(* The promises are those the code keeps (module Worker is shown to        *)
(* implement this module); no document of the project states them.         *)
(***************************************************************************)
EXTENDS Naturals, Sequences

CONSTANT Conns

VARIABLES
  phase,      \* "none", "open", "closing" or "closed"
  gone,       \* the client has hung up or reset the connection
  sent,       \* status codes of the replies sent
  delivered,  \* how many of them the kernel has taken
  up          \* the worker has not stopped

vars == <<phase, gone, sent, delivered, up>>

Answered(c) == \E i \in 1..Len(sent[c]) : sent[c][i] # 400

Init ==
  /\ phase = [c \in Conns |-> "none"]
  /\ gone = [c \in Conns |-> FALSE]
  /\ sent = [c \in Conns |-> <<>>]
  /\ delivered = [c \in Conns |-> 0]
  /\ up = TRUE

Accept(c) ==
  /\ phase[c] = "none"
  /\ phase' = [phase EXCEPT ![c] = "open"]
  /\ UNCHANGED <<gone, sent, delivered, up>>

ClientGoes(c) ==
  /\ phase[c] = "open"
  /\ gone' = [gone EXCEPT ![c] = TRUE]
  /\ UNCHANGED <<phase, sent, delivered, up>>

Reply(c, code) ==
  /\ phase[c] = "open"
  /\ ~Answered(c)
  /\ sent' = [sent EXCEPT ![c] = Append(@, code)]
  /\ UNCHANGED <<phase, gone, delivered>>

Deliver(c) ==
  /\ phase[c] = "open"
  /\ delivered[c] < Len(sent[c])
  /\ delivered' = [delivered EXCEPT ![c] = @ + 1]
  /\ UNCHANGED <<phase, gone, sent, up>>

HangUp(c) ==
  /\ phase[c] = "open"
  /\ delivered[c] > 0 \/ gone[c]
  /\ phase' = [phase EXCEPT ![c] = "closing"]
  /\ UNCHANGED <<gone, sent, delivered, up>>

Finish(c) ==
  /\ phase[c] = "closing"
  /\ delivered[c] = Len(sent[c])
  /\ phase' = [phase EXCEPT ![c] = "closed"]
  /\ UNCHANGED <<gone, sent, delivered, up>>

Stop ==
  /\ up' = FALSE
  /\ UNCHANGED <<phase, gone, sent, delivered>>

Next ==
  /\ up
  /\ \/ Stop
     \/ \E c \in Conns :
          \/ Accept(c)
          \/ ClientGoes(c)
          \/ \E code \in {200, 400, 404, 405} : Reply(c, code) /\ up' \in BOOLEAN
          \/ Deliver(c)
          \/ HangUp(c)
          \/ Finish(c)

Spec == Init /\ [][Next]_vars

==============================================================================
