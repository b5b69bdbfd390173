------------------------------- MODULE Worker -------------------------------
(***************************************************************************)
(* One worker thread of the server once it listens: the accepted           *)
(* connections (Tcp), the HTTP exchange on each of them (Downstream), the  *)
(* replies handed to libuv (SendPack) and the registries that lead libuv's *)
(* callbacks back to these objects.                                        *)
(*                                                                         *)
(* The worker is single threaded: one action is one libuv callback with    *)
(* everything it calls, or a step of the world outside (the peer, the      *)
(* kernel).  A connection accepts bytes through RequestParser::Exec, whose *)
(* outcomes are those of module ExecOutcome, and answers requests through  *)
(* handlers, whose outcomes are those of module HandlerOutcome.  The i-th  *)
(* reply sent on a connection is its pack i.                               *)
(***************************************************************************)
EXTENDS Naturals, Sequences, FiniteSets, ExecOutcome, HandlerOutcome

CONSTANTS
  Conns,       \* connections, each accepted at most once
  MaxReplies,  \* bound: replies sent on one connection
  FdLimit      \* descriptors left to the worker for connections and files

ASSUME WorkerAssumption ==
  /\ IsFiniteSet(Conns)
  /\ MaxReplies \in Nat
  /\ FdLimit \in Nat

VARIABLES
  \* the world outside
  peer,         \* "up", "fin" (has sent FIN) or "reset"
  uv,           \* the uv_tcp_t: "none", "open", "closing" or "closed"
  written,      \* how many replies the kernel has taken, in order
  broken,       \* the kernel has refused the next one
  called,       \* how many uv_write callbacks have been made, in order
  \* the worker
  closed,       \* Tcp::closed_
  tcpMap,       \* keys of gTcpMap (tcp.cpp)
  holders,      \* who holds a reference to the Downstream, and so to its Tcp
  parser,       \* Downstream::parser_
  replies,      \* status codes of the replies passed to Tcp::Send
  sendPacks,    \* Tcp::send_packs_
  packMap,      \* the connection's packs in gSendPackMap (send_pack.cpp)
  files,        \* descriptors opened by the static handlers and not closed
  term          \* "running", or the message std::terminate was reached with

VARIABLE closes  \* history: uv_close calls on each handle

network  == <<peer, written, broken, called>>
registry == <<closed, tcpMap, holders>>
packs    == <<replies, sendPacks, packMap>>
vars == <<peer, uv, written, broken, called, closed, tcpMap, holders, parser,
          replies, sendPacks, packMap, files, term, closes>>

PeerStates == {"up", "fin", "reset"}
UvStates == {"none", "open", "closing", "closed"}
Codes == {200, 400, 404, 405}
Aborts == {"should call Reset()", "uv_write failed", "uv_tcp_read failed",
           "uv_accept failed", "Tcp must be closed before destruction"}

Running == term = "running"
Open == {c \in Conns : uv[c] = "open"}
FdsInUse == Cardinality(Open) + files
Pending(c) == called[c] + 1 .. Len(replies[c])   \* callbacks libuv still owes

------------------------------------------------------------------------------
(***************************************************************************)
(* Tcp::OnConn: Accept constructs the Tcp and registers it, reading starts,*)
(* and Worker::OnListerAccept puts a new Downstream into downstreams_.     *)
(* The on_close_ callback installed there keeps the Downstream as well.    *)
(***************************************************************************)
Accept(c) ==
  /\ uv' = [uv EXCEPT ![c] = "open"]
  /\ closed' = [closed EXCEPT ![c] = FALSE]
  /\ tcpMap' = tcpMap \cup {c}

OnListerAccept(c) == holders' = [holders EXCEPT ![c] = {"downstreams_", "on_close_"}]

OnConn(c) ==
  /\ Running
  /\ uv[c] = "none"
  /\ FdsInUse < FdLimit
  /\ Accept(c)
  /\ OnListerAccept(c)
  /\ UNCHANGED <<network, parser, packs, files, term, closes>>

\* Without a descriptor OnConn is called with an error it does not look at,
\* and uv_accept finds no connection.
AcceptFails == term' = "uv_accept failed"

OnConnError(c) ==
  /\ Running
  /\ uv[c] = "none"
  /\ FdsInUse >= FdLimit
  /\ AcceptFails
  /\ UNCHANGED <<network, uv, registry, parser, packs, files, closes>>

------------------------------------------------------------------------------
(***************************************************************************)
(* Tcp::Close and Tcp::Send.  The closure given to set_on_finish holds the *)
(* pack itself, so a pack that has left send_packs_ still exists and stays *)
(* in gSendPackMap.                                                        *)
(***************************************************************************)
\* Mutant: Close does not look whether the handle is closing already.
CloseUnguarded(c) ==
  /\ uv' = [uv EXCEPT ![c] = "closing"]
  /\ closes' = [closes EXCEPT ![c] = @ + 1]

Close(c) ==
  IF closed[c] \/ uv[c] # "open"
    THEN UNCHANGED <<uv, closes>>
    ELSE /\ uv' = [uv EXCEPT ![c] = "closing"]
         /\ closes' = [closes EXCEPT ![c] = @ + 1]

Send(c, code) ==
  LET pack == Len(replies[c]) + 1 IN
  /\ pack <= MaxReplies
  /\ replies' = [replies EXCEPT ![c] = Append(@, code)]
  /\ sendPacks' = [sendPacks EXCEPT ![c] = @ \cup {pack}]
  /\ packMap' = [packMap EXCEPT ![c] = @ \cup {pack}]

------------------------------------------------------------------------------
(***************************************************************************)
(* Tcp::OnRecv.  A read of nothing (EAGAIN) is dropped.                    *)
(***************************************************************************)
Readable(c) == Running /\ uv[c] = "open"

\* Mutant: an empty read is taken for the end of the stream.
OnRecvNothingCloses(c) ==
  /\ Readable(c)
  /\ Close(c)
  /\ UNCHANGED <<network, registry, parser, packs, files, term>>

OnRecvNothing(c) ==
  /\ Readable(c)
  /\ UNCHANGED vars

\* Mutant: the end of the stream is ignored.
OnRecvEofIgnored(c) ==
  /\ Readable(c)
  /\ peer[c] = "fin"
  /\ UNCHANGED vars

OnRecvEof(c) ==
  /\ Readable(c)
  /\ peer[c] = "fin"
  /\ Close(c)
  /\ UNCHANGED <<network, registry, parser, packs, files, term>>

OnRecvError(c) ==
  /\ Readable(c)
  /\ peer[c] = "reset"
  /\ term' = "uv_tcp_read failed"
  /\ UNCHANGED <<network, uv, registry, parser, packs, files, closes>>

(***************************************************************************)
(* Downstream::OnRecv and HandleRecv on one buffer.  Every HttpExcept      *)
(* leaves the loop, drops the rest of the buffer and is answered.  After a *)
(* reply that came from a handler the loop goes on with the rest of the    *)
(* buffer, and RequestParser::Step terminates: parser_ is never Reset.     *)
(***************************************************************************)
HasData(c) == Readable(c) /\ peer[c] # "reset"

HandleAfterDone(c) ==
  /\ parser[c].st = "kDone"
  /\ term' = "should call Reset()"
  /\ UNCHANGED <<parser, packs, files>>

HandleIncomplete(c) ==
  /\ \E q \in Incomplete(parser[c]) : parser' = [parser EXCEPT ![c] = q]
  /\ UNCHANGED <<packs, files, term>>

HandleRejected(c) ==
  /\ \E q \in Rejected(parser[c]) : parser' = [parser EXCEPT ![c] = q]
  /\ Send(c, 400)
  /\ UNCHANGED <<files, term>>

\* Mutant: the parser is reset after the reply and the connection goes on.
HandleCompletedResets(c) ==
  \E q \in Completed(parser[c]), h \in HandlerOutcomes :
    /\ FdsInUse + h.opened <= FdLimit
    /\ parser' = [parser EXCEPT ![c] = FreshParser]
    /\ files' = files + h.opened
    /\ Send(c, h.code)
    /\ UNCHANGED term

HandleCompleted(c) ==
  \E q \in Completed(parser[c]), h \in HandlerOutcomes, rest \in BOOLEAN :
    /\ FdsInUse + h.opened <= FdLimit
    /\ parser' = [parser EXCEPT ![c] = q]
    /\ files' = files + h.opened
    /\ Send(c, h.code)
    /\ term' = IF h.code = 200 /\ rest THEN "should call Reset()" ELSE term

OnRecvData(c) ==
  /\ HasData(c)
  /\ \/ HandleAfterDone(c)
     \/ HandleIncomplete(c)
     \/ HandleRejected(c)
     \/ HandleCompleted(c)
  /\ UNCHANGED <<network, uv, registry, closes>>

------------------------------------------------------------------------------
(***************************************************************************)
(* SendPack::UvOnWrite and Tcp::OnSendFinish.  libuv makes the callbacks   *)
(* in order; those of replies still unwritten when the handle is closed    *)
(* get UV_ECANCELED, before the close callback.  A status other than 0     *)
(* logs a critical error, which terminates.  Otherwise the on_finish of    *)
(* Downstream::Send closes the connection.                                 *)
(***************************************************************************)
WriteStatus(c) ==
  IF called[c] < written[c] THEN {"ok"}
  ELSE IF broken[c] \/ uv[c] = "closing" THEN {"failed"}
  ELSE {}

\* Mutant: send_packs_ is cleared, not just the finished pack erased.
OnSendFinishClears(c, pack, status) ==
  IF status = "ok"
    THEN /\ Close(c)
         /\ sendPacks' = [sendPacks EXCEPT ![c] = {}]
         /\ UNCHANGED term
    ELSE /\ term' = "uv_write failed"
         /\ UNCHANGED <<uv, closes, sendPacks>>

\* Mutant: on_finish is erased without being called.
OnSendFinishSilent(c, pack, status) ==
  IF status = "ok"
    THEN /\ sendPacks' = [sendPacks EXCEPT ![c] = @ \ {pack}]
         /\ UNCHANGED <<uv, closes, term>>
    ELSE /\ term' = "uv_write failed"
         /\ UNCHANGED <<uv, closes, sendPacks>>

\* Mutant: a failed write closes the connection, as the unreachable line
\* after the critical log would.
OnSendFinishTolerant(c, pack, status) ==
  /\ Close(c)
  /\ sendPacks' = IF status = "ok" THEN [sendPacks EXCEPT ![c] = @ \ {pack}]
                                   ELSE sendPacks
  /\ UNCHANGED term

OnSendFinish(c, pack, status) ==
  IF status = "ok"
    THEN /\ Close(c)
         /\ sendPacks' = [sendPacks EXCEPT ![c] = @ \ {pack}]
         /\ UNCHANGED term
    ELSE /\ term' = "uv_write failed"
         /\ UNCHANGED <<uv, closes, sendPacks>>

UvOnWrite(c) ==
  /\ Running
  /\ called[c] < Len(replies[c])
  /\ called' = [called EXCEPT ![c] = @ + 1]
  /\ \E status \in WriteStatus(c) : OnSendFinish(c, called[c] + 1, status)
  /\ UNCHANGED <<peer, written, broken, registry, parser, replies, packMap,
                 files>>

(***************************************************************************)
(* Tcp::OnClose: on_close_ erases the Downstream from downstreams_.  Only  *)
(* when its last holder is gone are Downstream and Tcp destroyed.          *)
(***************************************************************************)
\* Mutant: on_close_ does not erase the Downstream.
OnCloseKeeps(c) ==
  /\ Running
  /\ uv[c] = "closing"
  /\ called[c] = Len(replies[c])
  /\ uv' = [uv EXCEPT ![c] = "closed"]
  /\ closed' = [closed EXCEPT ![c] = TRUE]
  /\ UNCHANGED <<network, tcpMap, holders, parser, packs, files, term,
                 closes>>

OnClose(c) ==
  LET left == holders[c] \ {"downstreams_"} IN
  /\ Running
  /\ uv[c] = "closing"
  /\ called[c] = Len(replies[c])
  /\ uv' = [uv EXCEPT ![c] = "closed"]
  /\ closed' = [closed EXCEPT ![c] = TRUE]
  /\ holders' = [holders EXCEPT ![c] = left]
  /\ tcpMap' = IF left = {} THEN tcpMap \ {c} ELSE tcpMap
  /\ UNCHANGED <<network, parser, packs, files, term, closes>>

------------------------------------------------------------------------------
(***************************************************************************)
(* The world outside: the peer hangs up or resets the connection; the      *)
(* kernel takes the next reply or, once the peer is gone, refuses it.      *)
(* After uv_close nothing of this reaches the worker any more.             *)
(***************************************************************************)
PeerGoes(c, how) ==
  /\ Running
  /\ uv[c] = "open"
  /\ how = "fin" => peer[c] = "up"
  /\ peer[c] # "reset"
  /\ peer' = [peer EXCEPT ![c] = how]
  /\ UNCHANGED <<written, broken, called, uv, registry, parser, packs, files,
                 term, closes>>

CanWrite(c) ==
  Running /\ uv[c] = "open" /\ ~broken[c] /\ written[c] < Len(replies[c])

KernelWrites(c) ==
  /\ CanWrite(c)
  /\ written' = [written EXCEPT ![c] = @ + 1]
  /\ UNCHANGED <<peer, broken, called, uv, registry, parser, packs, files,
                 term, closes>>

KernelRefuses(c) ==
  /\ CanWrite(c)
  /\ peer[c] # "up"
  /\ broken' = [broken EXCEPT ![c] = TRUE]
  /\ UNCHANGED <<peer, written, called, uv, registry, parser, packs, files,
                 term, closes>>

------------------------------------------------------------------------------
Init ==
  /\ peer = [c \in Conns |-> "up"]
  /\ uv = [c \in Conns |-> "none"]
  /\ written = [c \in Conns |-> 0]
  /\ broken = [c \in Conns |-> FALSE]
  /\ called = [c \in Conns |-> 0]
  /\ closed = [c \in Conns |-> TRUE]
  /\ tcpMap = {}
  /\ holders = [c \in Conns |-> {}]
  /\ parser = [c \in Conns |-> FreshParser]
  /\ replies = [c \in Conns |-> <<>>]
  /\ sendPacks = [c \in Conns |-> {}]
  /\ packMap = [c \in Conns |-> {}]
  /\ files = 0
  /\ term = "running"
  /\ closes = [c \in Conns |-> 0]

World(c) ==
  \/ \E how \in {"fin", "reset"} : PeerGoes(c, how)
  \/ KernelWrites(c)
  \/ KernelRefuses(c)

Callback(c) ==
  \/ OnConn(c)
  \/ OnConnError(c)
  \/ OnRecvNothing(c)
  \/ OnRecvEof(c)
  \/ OnRecvError(c)
  \/ OnRecvData(c)
  \/ UvOnWrite(c)
  \/ OnClose(c)

Next == \E c \in Conns : World(c) \/ Callback(c)

Spec == Init /\ [][Next]_vars

(***************************************************************************)
(* The loop (uv_run) polls every handle and makes every callback it owes;  *)
(* the kernel takes or refuses every reply, that is, a peer that never     *)
(* reads and never goes away is left out.  Nothing is assumed of the peer  *)
(* otherwise: it need not send or hang up.                                 *)
(***************************************************************************)
Fairness ==
  \A c \in Conns :
    /\ WF_vars(UvOnWrite(c))
    /\ WF_vars(OnClose(c))
    /\ WF_vars(OnRecvEof(c) \/ OnRecvError(c))
    /\ WF_vars(KernelWrites(c) \/ KernelRefuses(c))

FairSpec == Spec /\ Fairness

------------------------------------------------------------------------------
TypeOK ==
  /\ peer \in [Conns -> PeerStates]
  /\ uv \in [Conns -> UvStates]
  /\ written \in [Conns -> Nat]
  /\ broken \in [Conns -> BOOLEAN]
  /\ called \in [Conns -> Nat]
  /\ closed \in [Conns -> BOOLEAN]
  /\ tcpMap \subseteq Conns
  /\ holders \in [Conns -> SUBSET {"downstreams_", "on_close_"}]
  /\ parser \in [Conns -> ParserState]
  /\ replies \in [Conns -> Seq(Codes)]
  /\ sendPacks \in [Conns -> SUBSET Nat]
  /\ packMap \in [Conns -> SUBSET Nat]
  /\ files \in Nat
  /\ term \in Aborts \cup {"running"}
  /\ closes \in [Conns -> Nat]

(***************************************************************************)
(* Every callback libuv may still make finds what it looks up: the Tcp of  *)
(* a handle that is not fully closed is in gTcpMap and exists, and a pack  *)
(* whose write callback is outstanding is in gSendPackMap and in           *)
(* send_packs_.  The at() calls of tcp.cpp and send_pack.cpp never throw   *)
(* into libuv and no callback reaches a destroyed object, whatever the     *)
(* order of replies, write callbacks, hang-ups and the close callback.     *)
(***************************************************************************)
HandleTargetsAlive ==
  \A c \in Conns : uv[c] \in {"open", "closing"} =>
    c \in tcpMap /\ holders[c] # {}

PackTargetsAlive ==
  \A c \in Conns : Pending(c) \subseteq packMap[c] \cap sendPacks[c]

CallbackTargetsAlive == HandleTargetsAlive /\ PackTargetsAlive

(***************************************************************************)
(* downstreams_ and closed_ follow the handles: a connection is in         *)
(* downstreams_ from its accept to its close callback, and exactly then    *)
(* its Tcp counts as not closed (worker.cpp, tcp.cpp OnConn and OnClose).  *)
(***************************************************************************)
RegistryFollowsHandles ==
  \A c \in Conns :
    LET connected == uv[c] \in {"open", "closing"} IN
    /\ "downstreams_" \in holders[c] <=> connected
    /\ closed[c] <=> ~connected

(***************************************************************************)
(* While the worker runs, a connection one of whose replies has been sent  *)
(* completely is being closed or closed: no reply is left behind on an     *)
(* open connection, and the connection is not kept for a second request    *)
(* (Downstream::Send, Tcp::OnSendFinish).                                  *)
(***************************************************************************)
SentThenClosing ==
  \A c \in Conns : Running /\ called[c] > 0 => uv[c] \in {"closing", "closed"}

(***************************************************************************)
(* The worker closes a connection only after a reply went out on it or the *)
(* peer hung up, never under a peer that still waits for its first reply.  *)
(***************************************************************************)
NoUnansweredClose ==
  \A c \in Conns :
    uv[c] \in {"closing", "closed"} => called[c] > 0 \/ peer[c] # "up"

(***************************************************************************)
(* A handler answers at most one request of a connection and nothing       *)
(* follows its reply: only 400s may come before it, one per buffer that    *)
(* held a malformed byte (Downstream::HandleRecv).                         *)
(***************************************************************************)
HandledReplyIsLast ==
  \A c \in Conns : \A i \in 1..Len(replies[c]) :
    replies[c][i] # 400 => i = Len(replies[c])

(***************************************************************************)
(* uv_close is called at most once on a handle, though the write callbacks *)
(* of several replies and an end of file may all ask for it (Tcp::Close;   *)
(* tcp.hpp, line 85: further calls have no effect).                        *)
(***************************************************************************)
ClosedOnce == \A c \in Conns : closes[c] <= 1

(***************************************************************************)
(* A worker that still runs has lost no reply: when the close callback of  *)
(* a connection has been made, the kernel has taken every reply that was   *)
(* passed to Send, and each had its callback.  (A lost one terminates.)    *)
(***************************************************************************)
NoReplyLost ==
  \A c \in Conns : uv[c] = "closed" =>
    written[c] = Len(replies[c]) /\ called[c] = Len(replies[c])

(***************************************************************************)
(* A connection on which a reply was sent is closed in the end, and so is  *)
(* one whose peer hung up (TcpTest Hup2), unless the worker terminates.    *)
(***************************************************************************)
RepliedIsClosed ==
  \A c \in Conns : replies[c] # <<>> ~> uv[c] = "closed" \/ ~Running

HungUpIsClosed ==
  \A c \in Conns : peer[c] # "up" ~> uv[c] = "closed" \/ ~Running

(***************************************************************************)
(* The worker implements Exchange.                                         *)
(***************************************************************************)
E == INSTANCE Exchange WITH
       phase <- uv,
       gone <- [c \in Conns |-> peer[c] # "up"],
       sent <- replies,
       delivered <- written,
       up <- Running

ImplementsExchange == E!Spec

------------------------------------------------------------------------------
(***************************************************************************)
(* What comments, assertions and tests say and the code does not do: each  *)
(* of these is violated, see README.md.                                    *)
(***************************************************************************)

\* http_parser.cpp, line 227: whoever feeds a parser that is done "should
\* call Reset()" first.  HandleRecv never does.
ParserResetAfterRequest == term # "should call Reset()"

\* tcp.cpp, line 137, and TcpTest Hup3: a write that fails closes the
\* connection.  The critical log on the line before terminates instead.
FailedWriteCloses == term # "uv_write failed"

\* tcp.hpp, line 68: on_close serves to release the resources of a closed
\* connection.  The callback itself keeps Downstream and Tcp alive.
ReleasedWhenClosed == \A c \in Conns : uv[c] = "closed" => holders[c] = {}

==============================================================================
