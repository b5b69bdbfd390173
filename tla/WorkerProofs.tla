----------------------------- MODULE WorkerProofs -----------------------------
(***************************************************************************)
(* Proofs about Worker, for any finite set of connections, any number of   *)
(* replies per connection and any descriptor limit.                        *)
(***************************************************************************)
EXTENDS Worker, TLAPS

(***************************************************************************)
(* Type correctness, one lemma per group of variables that are written     *)
(* together.                                                               *)
(***************************************************************************)
LEMMA CloseType ==
  ASSUME TypeOK, NEW c \in Conns, Close(c)
  PROVE  /\ uv' \in [Conns -> UvStates]
         /\ closes' \in [Conns -> Nat]
<1>1. uv \in [Conns -> UvStates] /\ closes \in [Conns -> Nat]
  BY DEF TypeOK
<1>2. uv' \in [Conns -> UvStates]
  BY <1>1 DEF Close, UvStates
<1>3. closes' \in [Conns -> Nat]
  BY <1>1 DEF Close
<1> QED
  BY <1>2, <1>3

LEMMA SendType ==
  ASSUME TypeOK, NEW c \in Conns, NEW code \in Codes, Send(c, code)
  PROVE  /\ replies' \in [Conns -> Seq(Codes)]
         /\ sendPacks' \in [Conns -> SUBSET Nat]
         /\ packMap' \in [Conns -> SUBSET Nat]
<1>1. /\ replies[c] \in Seq(Codes)
      /\ Len(replies[c]) + 1 \in Nat
      /\ sendPacks[c] \in SUBSET Nat
      /\ packMap[c] \in SUBSET Nat
  BY DEF TypeOK
<1>2. Append(replies[c], code) \in Seq(Codes)
  BY <1>1
<1> QED
  BY <1>1, <1>2 DEF TypeOK, Send

LEMMA OnRecvDataType ==
  ASSUME TypeOK, NEW c \in Conns, OnRecvData(c)
  PROVE  TypeOK'
<1>1. parser' \in [Conns -> ParserState]
  <2>1. parser \in [Conns -> ParserState]
    BY DEF TypeOK
  <2>2. \/ parser' = parser
        \/ \E q \in ParserState : parser' = [parser EXCEPT ![c] = q]
    BY DEF OnRecvData, HandleAfterDone, HandleIncomplete, HandleRejected,
           HandleCompleted, Incomplete, Rejected, Completed
  <2> QED
    BY <2>1, <2>2
<1>2. term' \in Aborts \cup {"running"}
  <2>1. term' \in {term, "should call Reset()"}
    BY DEF OnRecvData, HandleAfterDone, HandleIncomplete, HandleRejected,
           HandleCompleted
  <2> QED
    BY <2>1 DEF TypeOK, Aborts
<1>3. /\ replies' \in [Conns -> Seq(Codes)]
      /\ sendPacks' \in [Conns -> SUBSET Nat]
      /\ packMap' \in [Conns -> SUBSET Nat]
  <2>1. CASE UNCHANGED packs
    BY <2>1 DEF packs, TypeOK
  <2>2. CASE \E code \in Codes : Send(c, code)
    BY <2>2, SendType
  <2>3. UNCHANGED packs \/ \E code \in Codes : Send(c, code)
    <3>1. 400 \in Codes /\ \A h \in HandlerOutcomes : h.code \in Codes
      BY DEF HandlerOutcomes, Codes
    <3> QED
      BY <3>1 DEF OnRecvData, HandleAfterDone, HandleIncomplete,
                  HandleRejected, HandleCompleted
  <2> QED
    BY <2>1, <2>2, <2>3
<1>4. files' \in Nat
  <2>1. files' = files \/ \E h \in HandlerOutcomes : files' = files + h.opened
    BY DEF OnRecvData, HandleAfterDone, HandleIncomplete, HandleRejected,
           HandleCompleted
  <2>2. \A h \in HandlerOutcomes : h.opened \in Nat
    BY DEF HandlerOutcomes
  <2> QED
    BY <2>1, <2>2 DEF TypeOK
<1> QED
  BY <1>1, <1>2, <1>3, <1>4 DEF OnRecvData, network, registry, TypeOK

LEMMA UvOnWriteType ==
  ASSUME TypeOK, NEW c \in Conns, UvOnWrite(c)
  PROVE  TypeOK'
<1>1. PICK status \in WriteStatus(c) : OnSendFinish(c, called[c] + 1, status)
  BY DEF UvOnWrite
<1>2. /\ uv' \in [Conns -> UvStates]
      /\ closes' \in [Conns -> Nat]
  BY <1>1, CloseType DEF OnSendFinish, TypeOK
<1>3. /\ sendPacks' \in [Conns -> SUBSET Nat]
      /\ term' \in Aborts \cup {"running"}
  <2>1. sendPacks \in [Conns -> SUBSET Nat] /\ term \in Aborts \cup {"running"}
    BY DEF TypeOK
  <2>2. sendPacks' \in [Conns -> SUBSET Nat]
    BY <1>1, <2>1 DEF OnSendFinish
  <2>3. term' \in Aborts \cup {"running"}
    BY <1>1, <2>1 DEF OnSendFinish, Aborts
  <2> QED
    BY <2>2, <2>3
<1>4. called' \in [Conns -> Nat]
  BY DEF UvOnWrite, TypeOK
<1> QED
  BY <1>2, <1>3, <1>4 DEF UvOnWrite, registry, TypeOK

LEMMA InitType == Init => TypeOK
<1> SUFFICES ASSUME Init PROVE TypeOK
  OBVIOUS
<1>1. peer \in [Conns -> PeerStates] /\ uv \in [Conns -> UvStates]
  BY DEF Init, PeerStates, UvStates
<1>2. parser \in [Conns -> ParserState] /\ term \in Aborts \cup {"running"}
  BY DEF Init, FreshParser, ParserState, RpStates
<1>3. replies \in [Conns -> Seq(Codes)]
  BY DEF Init
<1>4. broken \in [Conns -> BOOLEAN] /\ closed \in [Conns -> BOOLEAN]
  BY DEF Init
<1>5. /\ written \in [Conns -> Nat]
      /\ called \in [Conns -> Nat]
      /\ closes \in [Conns -> Nat]
      /\ files \in Nat
  BY DEF Init
<1>6. /\ sendPacks \in [Conns -> SUBSET Nat]
      /\ packMap \in [Conns -> SUBSET Nat]
      /\ holders \in [Conns -> SUBSET {"downstreams_", "on_close_"}]
  BY DEF Init
<1> QED
  BY <1>1, <1>2, <1>3, <1>4, <1>5, <1>6 DEF Init, TypeOK

LEMMA NextType == TypeOK /\ [Next]_vars => TypeOK'
<1> SUFFICES ASSUME TypeOK, [Next]_vars PROVE TypeOK'
  OBVIOUS
<1>1. ASSUME NEW c \in Conns, OnConn(c) PROVE TypeOK'
  <2>1. uv' \in [Conns -> UvStates]
    BY <1>1 DEF OnConn, Accept, UvStates, TypeOK
  <2>2. holders' \in [Conns -> SUBSET {"downstreams_", "on_close_"}]
    BY <1>1 DEF OnConn, Accept, OnListerAccept, TypeOK
  <2>3. closed' \in [Conns -> BOOLEAN]
    BY <1>1 DEF OnConn, Accept, TypeOK
  <2> QED
    BY <1>1, <2>1, <2>2, <2>3 DEF OnConn, Accept, network, packs, TypeOK
<1>2. ASSUME NEW c \in Conns, OnConnError(c) PROVE TypeOK'
  BY <1>2 DEF OnConnError, AcceptFails, network, registry, packs, TypeOK, Aborts
<1>3. ASSUME NEW c \in Conns, OnRecvNothing(c) PROVE TypeOK'
  BY <1>3 DEF OnRecvNothing, vars, network, registry, packs, TypeOK
<1>4. ASSUME NEW c \in Conns, OnRecvEof(c) PROVE TypeOK'
  BY <1>4, CloseType DEF OnRecvEof, network, registry, packs, TypeOK
<1>5. ASSUME NEW c \in Conns, OnRecvError(c) PROVE TypeOK'
  BY <1>5 DEF OnRecvError, network, registry, packs, TypeOK, Aborts
<1>6. ASSUME NEW c \in Conns, OnClose(c) PROVE TypeOK'
  <2>1. uv' \in [Conns -> UvStates]
    BY <1>6 DEF OnClose, UvStates, TypeOK
  <2>2. holders' \in [Conns -> SUBSET {"downstreams_", "on_close_"}]
    BY <1>6 DEF OnClose, TypeOK
  <2>3. closed' \in [Conns -> BOOLEAN]
    BY <1>6 DEF OnClose, TypeOK
  <2>4. tcpMap' \subseteq Conns
    BY <1>6 DEF OnClose, TypeOK
  <2> QED
    BY <1>6, <2>1, <2>2, <2>3, <2>4 DEF OnClose, network, packs, TypeOK
<1>7. ASSUME NEW c \in Conns, World(c) PROVE TypeOK'
  <2>1. CASE KernelWrites(c)
    BY <2>1 DEF KernelWrites, registry, packs, TypeOK
  <2>2. CASE KernelRefuses(c)
    BY <2>2 DEF KernelRefuses, registry, packs, TypeOK
  <2>3. ASSUME NEW how \in {"fin", "reset"}, PeerGoes(c, how) PROVE TypeOK'
    BY <2>3 DEF PeerGoes, PeerStates, registry, packs, TypeOK
  <2> QED
    BY <1>7, <2>1, <2>2, <2>3 DEF World
<1>8. CASE UNCHANGED vars
  BY <1>8 DEF vars, TypeOK
<1> QED
  BY <1>1, <1>2, <1>3, <1>4, <1>5, <1>6, <1>7, <1>8, OnRecvDataType,
     UvOnWriteType DEF Next, Callback

(***************************************************************************)
(* The worker's state keeps its types in every interleaving of callbacks.  *)
(***************************************************************************)
THEOREM TypeCorrect == Spec => []TypeOK
BY InitType, NextType, PTL DEF Spec

------------------------------------------------------------------------------
(***************************************************************************)
(* The inductive invariant, one connection at a time.                      *)
(***************************************************************************)
Connected(c) == uv[c] \in {"open", "closing"}
Hung(c) == uv[c] \in {"closing", "closed"}

\* Callbacks trail writes, which trail replies; a finished close leaves none.
Counts(c) ==
  /\ called[c] <= Len(replies[c])
  /\ written[c] <= Len(replies[c])
  /\ Running => called[c] <= written[c]
  /\ uv[c] = "none" => Len(replies[c]) = 0
  /\ uv[c] = "closed" =>
       written[c] = Len(replies[c]) /\ called[c] = Len(replies[c])

Targets(c) == Pending(c) \subseteq packMap[c] \cap sendPacks[c]

Registered(c) ==
  /\ Connected(c) => c \in tcpMap
  /\ "downstreams_" \in holders[c] <=> Connected(c)
  /\ closed[c] <=> ~Connected(c)

\* Closing starts with the first successful callback or with the peer.
ClosingStarts(c) ==
  /\ Running /\ called[c] > 0 => Hung(c)
  /\ Hung(c) => called[c] > 0 \/ peer[c] # "up"
  /\ closes[c] = IF Hung(c) THEN 1 ELSE 0

\* A reply of a handler finds the parser done, and done it stays.
Final(c) ==
  \A i \in 1..Len(replies[c]) :
    replies[c][i] # 400 => i = Len(replies[c]) /\ parser[c].st = "kDone"

ConnInv(c) ==
  Counts(c) /\ Targets(c) /\ Registered(c) /\ ClosingStarts(c) /\ Final(c)

IInv == TypeOK /\ \A c \in Conns : ConnInv(c)

(***************************************************************************)
(* A step on one connection leaves the others as they are.                 *)
(***************************************************************************)
Same(d) ==
  /\ peer'[d] = peer[d]
  /\ uv'[d] = uv[d]
  /\ written'[d] = written[d]
  /\ called'[d] = called[d]
  /\ closed'[d] = closed[d]
  /\ d \in tcpMap' <=> d \in tcpMap
  /\ holders'[d] = holders[d]
  /\ parser'[d] = parser[d]
  /\ replies'[d] = replies[d]
  /\ sendPacks'[d] = sendPacks[d]
  /\ packMap'[d] = packMap[d]
  /\ closes'[d] = closes[d]

LEMMA SameConnInv ==
  ASSUME NEW d \in Conns, ConnInv(d), Same(d), Running' => Running
  PROVE  ConnInv(d)'
<1>1. Counts(d)'
  BY DEF ConnInv, Same, Counts
<1>2. Targets(d)'
  BY DEF ConnInv, Same, Targets, Pending
<1>3. Registered(d)'
  BY DEF ConnInv, Same, Registered, Connected
<1>4. ClosingStarts(d)'
  BY DEF ConnInv, Same, ClosingStarts, Hung
<1>5. Final(d)'
  BY DEF ConnInv, Same, Final
<1> QED
  BY <1>1, <1>2, <1>3, <1>4, <1>5 DEF ConnInv

LEMMA OthersSame ==
  ASSUME TypeOK, NEW c \in Conns, World(c) \/ Callback(c),
         NEW d \in Conns, d # c
  PROVE  Same(d)
<1>1. CASE World(c)
  BY <1>1 DEF World, PeerGoes, KernelWrites, KernelRefuses, registry, packs,
              Same, TypeOK
<1>2. CASE OnConn(c)
  BY <1>2 DEF OnConn, Accept, OnListerAccept, network, packs, Same, TypeOK
<1>3. CASE OnConnError(c) \/ OnRecvNothing(c) \/ OnRecvError(c)
  BY <1>3 DEF OnConnError, AcceptFails, OnRecvNothing, vars, OnRecvError, network, registry,
              packs, Same
<1>4. CASE OnRecvEof(c)
  BY <1>4 DEF OnRecvEof, Close, network, registry, packs, Same, TypeOK
<1>5. CASE OnRecvData(c)
  <2>1. UNCHANGED packs \/ \E code : Send(c, code)
    BY <1>5 DEF OnRecvData, HandleAfterDone, HandleIncomplete, HandleRejected,
                HandleCompleted
  <2>2. /\ replies'[d] = replies[d]
        /\ sendPacks'[d] = sendPacks[d]
        /\ packMap'[d] = packMap[d]
    BY <2>1 DEF Send, packs, TypeOK
  <2>3. parser' = parser \/ \E q : parser' = [parser EXCEPT ![c] = q]
    BY <1>5 DEF OnRecvData, HandleAfterDone, HandleIncomplete, HandleRejected,
                HandleCompleted
  <2>4. parser'[d] = parser[d]
    BY <2>3 DEF TypeOK
  <2> QED
    BY <1>5, <2>2, <2>4 DEF OnRecvData, network, registry, Same
<1>6. CASE UvOnWrite(c)
  BY <1>6 DEF UvOnWrite, OnSendFinish, Close, registry, Same, TypeOK
<1>7. CASE OnClose(c)
  BY <1>7 DEF OnClose, network, packs, Same, TypeOK
<1> QED
  BY <1>1, <1>2, <1>3, <1>4, <1>5, <1>6, <1>7 DEF Callback

\* Once stopped, the worker stays stopped.
LEMMA StaysStopped ==
  ASSUME NEW c \in Conns, World(c) \/ Callback(c)
  PROVE  Running
BY DEF World, PeerGoes, KernelWrites, KernelRefuses, CanWrite, Callback, OnConn, Accept,
       OnConnError, AcceptFails, OnRecvNothing, vars, OnRecvEof, OnRecvError, OnRecvData, HasData,
       Readable, UvOnWrite, OnClose

------------------------------------------------------------------------------
(***************************************************************************)
(* The connection a step is about, one lemma per kind of step.             *)
(***************************************************************************)
LEMMA Typed ==
  ASSUME TypeOK, NEW c \in Conns
  PROVE  /\ called[c] \in Nat /\ written[c] \in Nat /\ closes[c] \in Nat
         /\ replies[c] \in Seq(Codes)
         /\ Len(replies[c]) \in Nat
         /\ uv[c] \in UvStates
<1>1. replies[c] \in Seq(Codes)
  BY DEF TypeOK
<1> QED
  BY <1>1 DEF TypeOK

LEMMA WorldConnInv ==
  ASSUME TypeOK, NEW c \in Conns, ConnInv(c), World(c)
  PROVE  ConnInv(c)'
<1>1. Running /\ Running' /\ uv[c] = "open"
  BY DEF World, PeerGoes, KernelWrites, KernelRefuses, CanWrite, Running
<1>2. /\ UNCHANGED <<called, uv, registry, parser, packs, closes, term>>
      /\ peer[c] # "up" => peer'[c] # "up"
  BY DEF World, PeerGoes, KernelWrites, KernelRefuses, TypeOK
<1>3. written'[c] = written[c]
        \/ (written'[c] = written[c] + 1 /\ written[c] < Len(replies[c]))
  BY DEF World, PeerGoes, KernelWrites, KernelRefuses, CanWrite, TypeOK
<1>4. Counts(c)'
  BY <1>1, <1>2, <1>3, Typed DEF ConnInv, Counts, packs
<1>5. Targets(c)' /\ Registered(c)' /\ Final(c)'
  BY <1>2 DEF ConnInv, Targets, Pending, Registered, Connected, Final, packs,
              registry
<1>6. ClosingStarts(c)'
  BY <1>1, <1>2 DEF ConnInv, ClosingStarts, Hung
<1> QED
  BY <1>4, <1>5, <1>6 DEF ConnInv

LEMMA OnConnConnInv ==
  ASSUME TypeOK, NEW c \in Conns, ConnInv(c), OnConn(c)
  PROVE  ConnInv(c)'
<1>1. /\ uv[c] = "none" /\ uv'[c] = "open" /\ Running
      /\ closed'[c] = FALSE
      /\ c \in tcpMap'
      /\ holders'[c] = {"downstreams_", "on_close_"}
      /\ UNCHANGED <<network, parser, packs, term, closes>>
  BY DEF OnConn, Accept, OnListerAccept, TypeOK
<1>2. Counts(c)' /\ Targets(c)' /\ Final(c)'
  BY <1>1, Typed DEF ConnInv, Counts, Targets, Pending, Final, network, packs,
                     Running
<1>3. Registered(c)'
  BY <1>1 DEF Registered, Connected
<1>4. ClosingStarts(c)'
  <2>1. called[c] = 0 /\ called'[c] = 0 /\ closes[c] = 0 /\ closes'[c] = 0
    BY <1>1, Typed DEF ConnInv, Counts, ClosingStarts, Hung, network
  <2> QED
    BY <1>1, <2>1 DEF ClosingStarts, Hung
<1> QED
  BY <1>2, <1>3, <1>4 DEF ConnInv

LEMMA CloseEffect ==
  ASSUME TypeOK, NEW c \in Conns, ConnInv(c), uv[c] # "none", Close(c)
  PROVE  /\ uv'[c] \in {"closing", "closed"}
         /\ Connected(c)' <=> Connected(c)
         /\ closes'[c] = 1
         /\ uv'[c] = "closed" => uv[c] = "closed"
<1>1. CASE uv[c] = "open"
  <2>1. ~closed[c] /\ closes[c] = 0
    BY <1>1 DEF ConnInv, Registered, Connected, ClosingStarts, Hung
  <2>2. uv'[c] = "closing" /\ closes'[c] = 1
    BY <1>1, <2>1 DEF Close, TypeOK
  <2> QED
    BY <1>1, <2>2 DEF Connected
<1>2. CASE uv[c] \in {"closing", "closed"}
  BY <1>2 DEF Close, Connected, ConnInv, ClosingStarts, Hung
<1> QED
  BY <1>1, <1>2, Typed DEF UvStates

LEMMA OnRecvEofConnInv ==
  ASSUME TypeOK, NEW c \in Conns, ConnInv(c), OnRecvEof(c)
  PROVE  ConnInv(c)'
<1>1. /\ uv[c] = "open" /\ Running /\ peer'[c] = "fin" /\ Close(c)
      /\ UNCHANGED <<network, registry, parser, packs, term>>
  BY DEF OnRecvEof, Readable, network
<1>2. /\ uv'[c] = "closing"
      /\ Connected(c)' <=> Connected(c)
      /\ closes'[c] = 1
  BY <1>1, CloseEffect
<1>3. Counts(c)' /\ Targets(c)' /\ Final(c)'
  BY <1>1, <1>2 DEF ConnInv, Counts, Targets, Pending, Final, network, packs,
                    Running
<1>4. Registered(c)'
  BY <1>1, <1>2 DEF ConnInv, Registered, registry
<1>5. ClosingStarts(c)'
  BY <1>1, <1>2 DEF ClosingStarts, Hung
<1> QED
  BY <1>3, <1>4, <1>5 DEF ConnInv

\* A reply is sent only while the parser is not done.
LEMMA SendFinal ==
  ASSUME TypeOK, NEW c \in Conns, ConnInv(c), NEW code \in Codes,
         Send(c, code), parser[c].st # "kDone",
         code # 400 => parser'[c].st = "kDone"
  PROVE  Final(c)'
<1>1. /\ replies'[c] = Append(replies[c], code)
      /\ replies[c] \in Seq(Codes)
  BY DEF Send, TypeOK
<1>2. \A i \in 1..Len(replies[c]) : replies[c][i] = 400
  BY DEF ConnInv, Final
<1>3. \A i \in 1..Len(replies'[c]) :
        replies'[c][i] # 400 => i = Len(replies'[c]) /\ code # 400
  BY <1>1, <1>2
<1> QED
  BY <1>3 DEF Final

LEMMA SendTargets ==
  ASSUME TypeOK, NEW c \in Conns, ConnInv(c), NEW code \in Codes,
         Send(c, code), called' = called
  PROVE  Targets(c)' /\ Len(replies'[c]) = Len(replies[c]) + 1
<1>1. /\ replies'[c] = Append(replies[c], code)
      /\ sendPacks'[c] = sendPacks[c] \cup {Len(replies[c]) + 1}
      /\ packMap'[c] = packMap[c] \cup {Len(replies[c]) + 1}
  BY DEF Send, TypeOK
<1>2. Len(replies'[c]) = Len(replies[c]) + 1
  BY <1>1, Typed
<1>3. \A i \in Nat : i \in called[c] + 1 .. Len(replies[c]) + 1 =>
        i \in called[c] + 1 .. Len(replies[c]) \/ i = Len(replies[c]) + 1
  BY Typed
<1>4. Pending(c)' \subseteq Pending(c) \cup {Len(replies[c]) + 1}
  BY <1>2, <1>3, Typed DEF Pending
<1> QED
  BY <1>1, <1>2, <1>4 DEF ConnInv, Targets

LEMMA OnRecvDataConnInv ==
  ASSUME TypeOK, NEW c \in Conns, ConnInv(c), OnRecvData(c)
  PROVE  ConnInv(c)'
<1>1. /\ uv[c] = "open" /\ Running
      /\ UNCHANGED <<network, uv, registry, closes>>
  BY DEF OnRecvData, HasData, Readable
<1>2. Registered(c)' /\ ClosingStarts(c)'
  BY <1>1 DEF ConnInv, Registered, Connected, ClosingStarts, Hung, network,
              registry
<1>3. CASE HandleAfterDone(c) \/ HandleIncomplete(c)
  <2>1. UNCHANGED packs
    BY <1>3 DEF HandleAfterDone, HandleIncomplete
  <2>2. parser'[c].st = "kDone" \/ parser[c].st # "kDone"
    BY <1>3 DEF HandleAfterDone, HandleIncomplete, Incomplete
  <2>3. Counts(c)' /\ Targets(c)' /\ Final(c)'
    BY <1>1, <2>1, <2>2 DEF ConnInv, Counts, Targets, Pending, Final, network,
                            packs
  <2> QED
    BY <1>2, <2>3 DEF ConnInv
<1>4. CASE HandleRejected(c) \/ HandleCompleted(c)
  <2>1. PICK code \in Codes : /\ Send(c, code)
                              /\ parser[c].st # "kDone"
                              /\ code # 400 => parser'[c].st = "kDone"
    <3>1. CASE HandleRejected(c)
      BY <3>1 DEF HandleRejected, Rejected, Codes
    <3>2. CASE HandleCompleted(c)
      <4>1. \A h \in HandlerOutcomes : h.code \in Codes
        BY DEF HandlerOutcomes, Codes
      <4>2. PICK q \in Completed(parser[c]), h \in HandlerOutcomes :
              Send(c, h.code) /\ parser' = [parser EXCEPT ![c] = q]
        BY <3>2 DEF HandleCompleted
      <4>3. parser[c].st # "kDone" /\ q.st = "kDone"
        BY <4>2 DEF Completed
      <4>4. parser'[c] = q
        BY <4>2 DEF TypeOK
      <4> QED
        BY <4>1, <4>2, <4>3, <4>4
    <3> QED
      BY <1>4, <3>1, <3>2
  <2>2. Targets(c)' /\ Final(c)' /\ Len(replies'[c]) = Len(replies[c]) + 1
    BY <1>1, <2>1, SendFinal, SendTargets DEF network
  <2>3. Counts(c)'
    BY <1>1, <2>2, Typed DEF ConnInv, Counts, network
  <2> QED
    BY <1>2, <2>2, <2>3 DEF ConnInv
<1> QED
  BY <1>3, <1>4 DEF OnRecvData

LEMMA UvOnWriteConnInv ==
  ASSUME TypeOK, NEW c \in Conns, ConnInv(c), UvOnWrite(c)
  PROVE  ConnInv(c)'
<1>1. /\ Running /\ called[c] < Len(replies[c])
      /\ called'[c] = called[c] + 1
      /\ UNCHANGED <<peer, written, registry, parser, replies, packMap>>
  BY DEF UvOnWrite, TypeOK
<1>2. uv[c] # "none" /\ uv[c] # "closed"
  BY <1>1, Typed DEF ConnInv, Counts
<1>3. Final(c)'
  BY <1>1 DEF ConnInv, Final
<1>4. PICK status \in WriteStatus(c) : OnSendFinish(c, called[c] + 1, status)
  BY DEF UvOnWrite
<1>5. Pending(c)' \subseteq Pending(c) \ {called[c] + 1}
  BY <1>1, Typed DEF Pending
<1>6. CASE status = "ok"
  <2>1. /\ Close(c) /\ UNCHANGED term
        /\ sendPacks'[c] = sendPacks[c] \ {called[c] + 1}
    BY <1>4, <1>6 DEF OnSendFinish, TypeOK
  <2>2. /\ uv'[c] = "closing"
        /\ Connected(c)' <=> Connected(c)
        /\ closes'[c] = 1
    BY <1>2, <2>1, CloseEffect
  <2>3. called[c] < written[c]
    BY <1>4, <1>6 DEF WriteStatus
  <2>4. Counts(c)'
    BY <1>1, <2>1, <2>2, <2>3, Typed DEF ConnInv, Counts
  <2>5. Targets(c)'
    BY <1>1, <1>5, <2>1 DEF ConnInv, Targets
  <2>6. Registered(c)'
    BY <1>1, <2>2 DEF ConnInv, Registered, registry
  <2>7. ClosingStarts(c)'
    BY <1>1, <2>2, Typed DEF ClosingStarts, Hung
  <2> QED
    BY <1>3, <2>4, <2>5, <2>6, <2>7 DEF ConnInv
<1>7. CASE status # "ok"
  <2>1. /\ ~Running'
        /\ UNCHANGED <<uv, closes, sendPacks>>
    BY <1>4, <1>7 DEF OnSendFinish, Running
  <2>2. Counts(c)'
    BY <1>1, <1>2, <2>1, Typed DEF ConnInv, Counts
  <2>3. Targets(c)'
    BY <1>1, <1>5, <2>1 DEF ConnInv, Targets
  <2>4. Registered(c)'
    BY <1>1, <2>1 DEF ConnInv, Registered, Connected, registry
  <2>5. ClosingStarts(c)'
    BY <1>1, <2>1, Typed DEF ConnInv, ClosingStarts, Hung
  <2> QED
    BY <1>3, <2>2, <2>3, <2>4, <2>5 DEF ConnInv
<1> QED
  BY <1>6, <1>7

LEMMA OnCloseConnInv ==
  ASSUME TypeOK, NEW c \in Conns, ConnInv(c), OnClose(c)
  PROVE  ConnInv(c)'
<1>1. /\ Running /\ uv[c] = "closing" /\ called[c] = Len(replies[c])
      /\ uv'[c] = "closed" /\ closed'[c] = TRUE
      /\ holders'[c] = holders[c] \ {"downstreams_"}
      /\ UNCHANGED <<network, parser, packs, term, closes>>
  BY DEF OnClose, TypeOK
<1>2. written[c] = Len(replies[c])
  BY <1>1, Typed DEF ConnInv, Counts
<1>3. Counts(c)' /\ Targets(c)' /\ Final(c)'
  BY <1>1, <1>2 DEF ConnInv, Counts, Targets, Pending, Final, network, packs,
                    Running
<1>4. Registered(c)'
  BY <1>1 DEF Registered, Connected
<1>5. ClosingStarts(c)'
  BY <1>1 DEF ConnInv, ClosingStarts, Hung, network
<1> QED
  BY <1>3, <1>4, <1>5 DEF ConnInv

------------------------------------------------------------------------------
(***************************************************************************)
(* The invariant is inductive, and with it every safety invariant.         *)
(***************************************************************************)
LEMMA InitIInv == Init => IInv
<1> SUFFICES ASSUME Init PROVE IInv
  OBVIOUS
<1>1. TypeOK
  BY InitType
<1>2. ASSUME NEW c \in Conns PROVE ConnInv(c)
  <2>1. /\ uv[c] = "none" /\ called[c] = 0 /\ written[c] = 0 /\ closes[c] = 0
        /\ replies[c] = <<>> /\ closed[c] = TRUE /\ holders[c] = {}
    BY DEF Init
  <2>2. Counts(c) /\ Targets(c) /\ Final(c)
    BY <2>1 DEF Counts, Targets, Pending, Final
  <2>3. Registered(c) /\ ClosingStarts(c)
    BY <2>1 DEF Registered, Connected, ClosingStarts, Hung
  <2> QED
    BY <2>2, <2>3 DEF ConnInv
<1> QED
  BY <1>1, <1>2 DEF IInv

LEMMA NextIInv == IInv /\ [Next]_vars => IInv'
<1> SUFFICES ASSUME IInv, [Next]_vars PROVE IInv'
  OBVIOUS
<1>1. TypeOK /\ TypeOK' /\ \A d \in Conns : ConnInv(d)
  BY NextType DEF IInv
<1>2. ASSUME NEW c \in Conns, World(c) \/ Callback(c), NEW d \in Conns
      PROVE  ConnInv(d)'
  <2>1. CASE d # c
    BY <1>1, <1>2, <2>1, OthersSame, StaysStopped, SameConnInv
  <2>2. CASE d = c
    <3>1. CASE OnConnError(c) \/ OnRecvNothing(c) \/ OnRecvError(c)
      <4>1. Same(c)
        BY <3>1 DEF OnConnError, AcceptFails, OnRecvNothing, vars, OnRecvError, network, registry,
                    packs, Same
      <4> QED
        BY <1>1, <1>2, <2>2, <4>1, StaysStopped, SameConnInv
    <3> QED
      BY <1>1, <1>2, <2>2, <3>1, WorldConnInv, OnConnConnInv, OnRecvEofConnInv,
         OnRecvDataConnInv, UvOnWriteConnInv, OnCloseConnInv DEF Callback
  <2> QED
    BY <2>1, <2>2
<1>3. ASSUME UNCHANGED vars, NEW d \in Conns PROVE ConnInv(d)'
  <2>1. Same(d) /\ (Running' => Running)
    BY <1>3 DEF vars, Same, Running
  <2> QED
    BY <1>1, <2>1, SameConnInv
<1> QED
  BY <1>1, <1>2, <1>3 DEF IInv, Next

THEOREM Inductive == Spec => []IInv
BY InitIInv, NextIInv, PTL DEF Spec

(***************************************************************************)
(* No callback of libuv ever misses its object: the at() look-ups in       *)
(* gTcpMap, gSendPackMap and send_packs_ cannot fail, for any number of    *)
(* connections and replies.                                                *)
(***************************************************************************)
THEOREM CallbacksFindTargets == Spec => []CallbackTargetsAlive
<1>1. IInv => CallbackTargetsAlive
  BY DEF IInv, ConnInv, Targets, Registered, Connected, CallbackTargetsAlive,
         HandleTargetsAlive, PackTargetsAlive
<1> QED
  BY <1>1, Inductive, PTL

(***************************************************************************)
(* downstreams_ and closed_ agree with the state of the handles.           *)
(***************************************************************************)
THEOREM RegistryCorrect == Spec => []RegistryFollowsHandles
<1>1. IInv => RegistryFollowsHandles
  BY DEF IInv, ConnInv, Registered, Connected, RegistryFollowsHandles
<1> QED
  BY <1>1, Inductive, PTL

(***************************************************************************)
(* A running worker starts to close a connection as soon as a reply is     *)
(* out.                                                                    *)
(***************************************************************************)
THEOREM ClosesAfterReply == Spec => []SentThenClosing
<1>1. IInv => SentThenClosing
  BY DEF IInv, ConnInv, ClosingStarts, Hung, SentThenClosing
<1> QED
  BY <1>1, Inductive, PTL

(***************************************************************************)
(* It never closes one that still waits for its first reply.               *)
(***************************************************************************)
THEOREM NeverClosesUnanswered == Spec => []NoUnansweredClose
<1>1. IInv => NoUnansweredClose
  BY DEF IInv, ConnInv, ClosingStarts, Hung, NoUnansweredClose
<1> QED
  BY <1>1, Inductive, PTL

(***************************************************************************)
(* uv_close is called at most once on a handle.                            *)
(***************************************************************************)
THEOREM ClosesOnce == Spec => []ClosedOnce
<1>1. IInv => ClosedOnce
  <2> SUFFICES ASSUME IInv, NEW c \in Conns PROVE closes[c] <= 1
    BY DEF ClosedOnce
  <2>1. closes[c] \in {0, 1}
    BY DEF IInv, ConnInv, ClosingStarts
  <2> QED
    BY <2>1
<1> QED
  BY <1>1, Inductive, PTL

(***************************************************************************)
(* Nothing follows the reply of a handler.                                 *)
(***************************************************************************)
THEOREM OneHandledReply == Spec => []HandledReplyIsLast
<1>1. IInv => HandledReplyIsLast
  BY DEF IInv, ConnInv, Final, HandledReplyIsLast
<1> QED
  BY <1>1, Inductive, PTL

(***************************************************************************)
(* A connection that has been closed has lost none of its replies.         *)
(***************************************************************************)
THEOREM RepliesKept == Spec => []NoReplyLost
<1>1. IInv => NoReplyLost
  BY DEF IInv, ConnInv, Counts, NoReplyLost
<1> QED
  BY <1>1, Inductive, PTL

------------------------------------------------------------------------------
(***************************************************************************)
(* Worker implements Exchange: every step of the event loop is a step of   *)
(* the abstract exchange or leaves it unchanged.                           *)
(***************************************************************************)

Gone == [c \in Conns |-> peer[c] # "up"]

LEMMA InitRefines == Init => E!Init
BY DEF Init, Running, E!Init

\* What a step that stops the worker, or changes nothing Exchange sees, is.
LEMMA StopRefines ==
  ASSUME Running, UNCHANGED <<peer, uv, replies, written>>
  PROVE  [E!Next]_(E!vars)
<1>1. CASE Running'
  BY <1>1 DEF E!vars
<1>2. CASE ~Running'
  BY <1>2 DEF E!Next, E!Stop
<1> QED
  BY <1>1, <1>2

LEMMA OnConnRefines ==
  ASSUME TypeOK, NEW c \in Conns, OnConn(c)
  PROVE  E!Next
<1>1. E!Accept(c)
  BY DEF OnConn, Accept, network, packs, Running, E!Accept
<1> QED
  BY <1>1 DEF OnConn, Accept, E!Next

LEMMA PeerGoesRefines ==
  ASSUME TypeOK, NEW c \in Conns, NEW how \in {"fin", "reset"}, PeerGoes(c, how)
  PROVE  E!Next
<1>1. peer' = [peer EXCEPT ![c] = how] /\ how # "up"
  BY DEF PeerGoes
<1>2. Gone' = [Gone EXCEPT ![c] = TRUE]
  BY <1>1 DEF Gone, TypeOK
<1>3. E!ClientGoes(c)
  BY <1>2 DEF PeerGoes, packs, Running, Gone, E!ClientGoes
<1> QED
  BY <1>3 DEF PeerGoes, E!Next

LEMMA KernelWritesRefines ==
  ASSUME TypeOK, NEW c \in Conns, KernelWrites(c)
  PROVE  E!Next
<1>1. E!Deliver(c)
  BY DEF KernelWrites, CanWrite, packs, Running, E!Deliver
<1> QED
  BY <1>1 DEF KernelWrites, CanWrite, E!Next

\* Tcp::Close, when it has the right to hang up.
LEMMA CloseRefines ==
  ASSUME TypeOK, NEW c \in Conns, Close(c), Running,
         written[c] > 0 \/ peer[c] # "up",
         UNCHANGED <<peer, written, replies, term>>
  PROVE  [E!Next]_(E!vars)
<1>1. CASE uv' = uv
  BY <1>1 DEF E!vars, Running
<1>2. CASE uv' # uv
  <2>1. uv[c] = "open" /\ uv' = [uv EXCEPT ![c] = "closing"]
    BY <1>2 DEF Close
  <2>2. E!HangUp(c)
    BY <2>1 DEF Running, E!HangUp
  <2> QED
    BY <2>2 DEF E!Next
<1> QED
  BY <1>1, <1>2

LEMMA OnRecvDataRefines ==
  ASSUME IInv, NEW c \in Conns, OnRecvData(c)
  PROVE  [E!Next]_(E!vars)
<1>1. /\ Running /\ uv[c] = "open"
      /\ UNCHANGED <<peer, written, uv>>
  BY DEF OnRecvData, HasData, Readable, network
<1>2. CASE HandleAfterDone(c) \/ HandleIncomplete(c)
  BY <1>1, <1>2, StopRefines DEF HandleAfterDone, HandleIncomplete, packs
<1>3. CASE HandleRejected(c) \/ HandleCompleted(c)
  <2>1. PICK code \in Codes : Send(c, code) /\ parser[c].st # "kDone"
    <3>1. CASE HandleRejected(c)
      BY <3>1 DEF HandleRejected, Rejected, Codes
    <3>2. CASE HandleCompleted(c)
      <4>1. \A h \in HandlerOutcomes : h.code \in Codes
        BY DEF HandlerOutcomes, Codes
      <4> QED
        BY <3>2, <4>1 DEF HandleCompleted, Completed
    <3> QED
      BY <1>3, <3>1, <3>2
  <2>2. \A i \in 1..Len(replies[c]) : replies[c][i] = 400
    BY <2>1 DEF IInv, ConnInv, Final
  <2>3. replies' = [replies EXCEPT ![c] = Append(@, code)]
    BY <2>1 DEF Send
  <2>4. E!Reply(c, code) /\ Running' \in BOOLEAN
    BY <1>1, <2>2, <2>3 DEF Running, E!Reply, E!Answered
  <2> QED
    BY <1>1, <2>4 DEF E!Next, Codes
<1> QED
  BY <1>2, <1>3 DEF OnRecvData

LEMMA UvOnWriteRefines ==
  ASSUME IInv, NEW c \in Conns, UvOnWrite(c)
  PROVE  [E!Next]_(E!vars)
<1>1. /\ Running
      /\ UNCHANGED <<peer, written, replies>>
  BY DEF UvOnWrite
<1>2. PICK status \in WriteStatus(c) : OnSendFinish(c, called[c] + 1, status)
  BY DEF UvOnWrite
<1>3. CASE status = "ok"
  <2>1. Close(c) /\ UNCHANGED term /\ called[c] < written[c]
    BY <1>2, <1>3 DEF OnSendFinish, WriteStatus
  <2>2. written[c] > 0
    BY <2>1, Typed DEF IInv
  <2> QED
    BY <1>1, <2>1, <2>2, CloseRefines DEF IInv
<1>4. CASE status # "ok"
  BY <1>1, <1>2, <1>4, StopRefines DEF OnSendFinish
<1> QED
  BY <1>3, <1>4

LEMMA OnCloseRefines ==
  ASSUME IInv, NEW c \in Conns, OnClose(c)
  PROVE  E!Next
<1>1. written[c] = Len(replies[c])
  BY Typed DEF IInv, ConnInv, Counts, OnClose
<1>2. E!Finish(c)
  BY <1>1 DEF OnClose, network, packs, Running, E!Finish
<1> QED
  BY <1>2 DEF OnClose, E!Next

LEMMA NextRefines == IInv /\ [Next]_vars => [E!Next]_(E!vars)
<1> SUFFICES ASSUME IInv, [Next]_vars PROVE [E!Next]_(E!vars)
  OBVIOUS
<1>1. TypeOK
  BY DEF IInv
<1>2. ASSUME NEW c \in Conns, World(c) PROVE [E!Next]_(E!vars)
  <2>1. CASE KernelRefuses(c)
    BY <2>1, StopRefines DEF KernelRefuses, CanWrite, packs
  <2> QED
    BY <1>1, <1>2, <2>1, PeerGoesRefines, KernelWritesRefines DEF World
<1>3. ASSUME NEW c \in Conns, Callback(c) PROVE [E!Next]_(E!vars)
  <2>1. CASE OnConnError(c) \/ OnRecvNothing(c) \/ OnRecvError(c)
    BY <2>1, StopRefines DEF OnConnError, AcceptFails, OnRecvNothing, vars, OnRecvError, Readable,
                             network, packs
  <2>2. CASE OnRecvEof(c)
    BY <1>1, <2>2, CloseRefines DEF OnRecvEof, Readable, network, packs
  <2> QED
    BY <1>1, <1>3, <2>1, <2>2, OnConnRefines, OnRecvDataRefines,
       UvOnWriteRefines, OnCloseRefines DEF Callback
<1>4. CASE UNCHANGED vars
  BY <1>4 DEF vars, Running, E!vars
<1> QED
  BY <1>2, <1>3, <1>4 DEF Next

(***************************************************************************)
(* Everything Exchange promises holds of the event loop, for any number of *)
(* connections: 400s and then at most one other reply, hanging up only     *)
(* after a delivered reply or a client's departure, no reply lost on a     *)
(* connection that was closed.                                             *)
(***************************************************************************)
THEOREM WorkerImplementsExchange == Spec => ImplementsExchange
<1>1. Spec => E!Spec
  BY InitRefines, NextRefines, Inductive, PTL DEF Spec, E!Spec
<1> QED
  BY <1>1 DEF ImplementsExchange

==============================================================================
