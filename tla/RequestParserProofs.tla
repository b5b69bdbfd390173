------------------------- MODULE RequestParserProofs -------------------------
(***************************************************************************)
(* Proofs of the invariants of RequestParser, for every set of names,      *)
(* every buffer size and every number of header lines.                     *)
(***************************************************************************)
EXTENDS RequestParser, TLAPS

(***************************************************************************)
(* The inductive invariant.  The automata advance in step (Sequencing),    *)
(* the byte history explains the states that wait for LF (History), the    *)
(* header map matches the completed lines (HeaderMap) and the current      *)
(* buffer has so far stayed within one outcome of Exec (Outcome).          *)
(***************************************************************************)
Sequencing ==
  /\ rp = "kStartLine" =>
       rslp # "kDone" /\ hp = "kLineStart" /\ lines = <<>> /\ headers = NoHeaders
  /\ rp = "kHeader" => hp # "kDone"

History ==
  ~rejected =>
    /\ rp = "kStartLine" /\ rslp = "kNewLine" => crlf \in {1, 3}
    /\ rp = "kHeader" /\ hp = "kLineStart" => crlf \in {2, 4}
    /\ rp = "kHeader" /\ hp = "kEmptyNewLine" => crlf = 3
    /\ rp = "kHeader" /\ hp = "kNewLine" => crlf \in {1, 3}
    /\ rp = "kDone" => crlf = 4

HeaderMap ==
  /\ rp = "kHeader" => LastLineWins(headers)
  /\ rp = "kDone" => LastLineWins(reqHeaders)

Outcome ==
  /\ thrown => left = 0
  /\ ExecWithinOutcomes

IInv == TypeOK /\ Sequencing /\ History /\ HeaderMap /\ Outcome

------------------------------------------------------------------------------
(***************************************************************************)
(* TypeOK is inductive on its own: one lemma per step of the system.       *)
(***************************************************************************)
LEMMA InitType == Init => TypeOK
<1> SUFFICES ASSUME Init PROVE TypeOK
  OBVIOUS
<1>1. /\ left \in 0..MaxBuf
      /\ crlf \in 0..4
      /\ headers \in [Names -> Nat]
      /\ reqHeaders \in [Names -> Nat]
      /\ lines \in Seq(Names)
  BY ParserAssumption DEF Init, NoHeaders
<1>2. /\ terminated \in BOOLEAN
      /\ rejected \in BOOLEAN
      /\ thrown \in BOOLEAN
      /\ valid \in BOOLEAN
      /\ start \in ParserState
  BY DEF Init, ParserState, RpStates, FreshParser
<1> QED
  BY <1>1, <1>2 DEF Init, TypeOK, RslpStates, HpStates, RpStates

LEMMA RslpStepType ==
  ASSUME TypeOK, NEW b \in Bytes, RslpStep(b)
  PROVE  rslp' \in RslpStates
BY DEF TypeOK, RslpStep, RslpStates

LEMMA HpStepType ==
  ASSUME TypeOK, NEW b \in Bytes, HpStep(b)
  PROVE  /\ hp' \in HpStates
         /\ name' \in Names
         /\ headers' \in [Names -> Nat]
         /\ lines' \in Seq(Names)
<1>1. CASE StoreHeader
  <2> lines \in Seq(Names) /\ name \in Names /\ headers \in [Names -> Nat]
    BY DEF TypeOK
  <2>1. lines' \in Seq(Names)
    BY <1>1 DEF StoreHeader
  <2>2. Len(lines) + 1 \in Nat
    OBVIOUS
  <2>3. headers' \in [Names -> Nat]
    BY <1>1, <2>2 DEF StoreHeader
  <2> QED
    BY <2>1, <2>3 DEF HpStep, TypeOK, HpStates, fields
<1>2. CASE ~StoreHeader
  BY <1>2 DEF HpStep, TypeOK, HpStates, fields
<1> QED
  BY <1>1, <1>2

LEMMA ExecByteType ==
  ASSUME TypeOK, NEW b \in Bytes, ExecByte(b)
  PROVE  TypeOK'
<1>1. crlf' \in 0..4
  BY DEF TypeOK, ExecByte, Observe
<1>2. /\ left' \in 0..MaxBuf
      /\ thrown' \in BOOLEAN
      /\ rejected' \in BOOLEAN
  <2>1. Consume \/ Throw400
    BY DEF ExecByte, StartLineByte, StartLineBadByte, StartLineEnd,
           HeaderByte, HeaderBadByte, HeaderEnd
  <2>2. left' \in 0..MaxBuf
    <3>1. left > 0 /\ (left' = left - 1 \/ left' = 0)
      BY <2>1 DEF ExecByte, Consume, Throw400
    <3> QED
      BY <3>1, ParserAssumption DEF TypeOK
  <2>3. thrown' \in BOOLEAN /\ rejected' \in BOOLEAN
    BY <2>1 DEF Consume, Throw400, TypeOK
  <2> QED
    BY <2>2, <2>3
<1>3. /\ rp' \in RpStates
      /\ valid' \in BOOLEAN
  BY DEF TypeOK, ExecByte, StartLineByte, StartLineBadByte, StartLineEnd,
         HeaderByte, HeaderBadByte, HeaderEnd, RpStates
<1>4. rslp' \in RslpStates
  BY RslpStepType
     DEF TypeOK, ExecByte, StartLineByte, StartLineBadByte, StartLineEnd
<1>5. /\ hp' \in HpStates
      /\ name' \in Names
      /\ headers' \in [Names -> Nat]
      /\ lines' \in Seq(Names)
      /\ reqHeaders' \in [Names -> Nat]
  BY HpStepType
     DEF TypeOK, ExecByte, HeaderByte, HeaderBadByte, HeaderEnd, HpStates,
         NoHeaders
<1> QED
  BY <1>1, <1>2, <1>3, <1>4, <1>5 DEF TypeOK, ExecByte

LEMMA NextType == TypeOK /\ [Next]_vars => TypeOK'
<1> SUFFICES ASSUME TypeOK, [Next]_vars PROVE TypeOK'
  OBVIOUS
<1>1. CASE Recv
  <2>1. left' \in 0..MaxBuf
    BY <1>1, ParserAssumption DEF Recv
  <2> QED
    BY <1>1, <2>1 DEF Recv, TypeOK, Parser, ParserState
<1>2. ASSUME NEW b \in Bytes, ExecByte(b) PROVE TypeOK'
  BY <1>2, ExecByteType
<1>3. CASE ExecWhenDone
  BY <1>3 DEF ExecWhenDone, TypeOK, history
<1>4. CASE Reset
  <2>1. /\ headers' \in [Names -> Nat]
        /\ reqHeaders' \in [Names -> Nat]
        /\ lines' \in Seq(Names)
    BY <1>4 DEF Reset, NoHeaders
  <2>2. /\ valid' \in BOOLEAN
        /\ rejected' \in BOOLEAN
        /\ thrown' \in BOOLEAN
        /\ terminated' \in BOOLEAN
        /\ start' \in ParserState
    BY <1>4 DEF Reset, TypeOK, ParserState, RpStates, FreshParser
  <2> QED
    BY <1>4, <2>1, <2>2 DEF Reset, TypeOK, RslpStates, HpStates, RpStates
<1>5. CASE UNCHANGED vars
  BY <1>5 DEF vars, TypeOK
<1> QED
  BY <1>1, <1>2, <1>3, <1>4, <1>5 DEF Next

(***************************************************************************)
(* The automata and the texts they collect keep their types, however the   *)
(* bytes are cut into buffers.                                             *)
(***************************************************************************)
THEOREM TypeCorrect == Spec => []TypeOK
BY InitType, NextType, PTL DEF Spec

------------------------------------------------------------------------------
(***************************************************************************)
(* One byte, each part of the invariant in turn.                           *)
(***************************************************************************)
LEMMA ExecByteSequencing ==
  ASSUME TypeOK, Sequencing, NEW b \in Bytes, ExecByte(b)
  PROVE  Sequencing'
<1>1. CASE StartLineByte(b) \/ StartLineBadByte(b)
  BY <1>1 DEF ExecByte, StartLineByte, StartLineBadByte, HeaderByte,
              HeaderBadByte, HeaderEnd, Sequencing, NoHeaders
<1>2. CASE StartLineEnd(b)
  BY <1>2 DEF ExecByte, StartLineEnd, HeaderByte, HeaderBadByte, HeaderEnd,
              Sequencing
<1>3. CASE HeaderByte(b) \/ HeaderBadByte(b) \/ HeaderEnd(b)
  BY <1>3 DEF HeaderByte, HeaderBadByte, HeaderEnd, Sequencing
<1> QED
  BY <1>1, <1>2, <1>3 DEF ExecByte

LEMMA ExecByteHistory ==
  ASSUME TypeOK, Sequencing, History, NEW b \in Bytes, ExecByte(b)
  PROVE  History'
<1> SUFFICES ASSUME ~rejected' PROVE History'
  BY DEF History
<1>1. ~rejected
  BY DEF ExecByte, StartLineByte, StartLineBadByte, StartLineEnd, HeaderByte,
         HeaderBadByte, HeaderEnd, Consume, Throw400, TypeOK
<1>2. /\ b = "cr" => crlf' = IF crlf \in {2, 4} THEN 3 ELSE 1
      /\ b = "lf" /\ crlf \in {1, 3} => crlf' = crlf + 1
  BY DEF ExecByte, Observe
<1>3. CASE StartLineByte(b)
  <2>1. rp' = "kStartLine" /\ (rslp' = "kNewLine" => b = "cr")
    BY <1>3 DEF StartLineByte, RslpStep
  <2> QED
    BY <1>2, <2>1 DEF History
<1>4. CASE StartLineEnd(b)
  <2>1. /\ rslp = "kNewLine" /\ b = "lf" /\ rp' = "kHeader"
        /\ rp = "kStartLine" /\ hp' = hp
    BY <1>4 DEF StartLineEnd, RslpStep, Sequencing, ExecByte, HeaderByte,
                HeaderBadByte, HeaderEnd
  <2>2. hp' = "kLineStart" /\ crlf \in {1, 3}
    BY <1>1, <2>1 DEF Sequencing, History
  <2> QED
    BY <1>2, <2>1, <2>2 DEF History
<1>5. CASE HeaderByte(b)
  <2>1. /\ rp = "kHeader" /\ rp' = "kHeader"
        /\ hp' = "kLineStart" => hp = "kNewLine" /\ b = "lf"
        /\ hp' = "kEmptyNewLine" => hp = "kLineStart" /\ b = "cr"
        /\ hp' = "kNewLine" => b = "cr"
    BY <1>5 DEF HeaderByte, HpStep
  <2> QED
    BY <1>1, <1>2, <2>1 DEF History
<1>6. CASE HeaderEnd(b)
  <2>1. rp = "kHeader" /\ hp = "kEmptyNewLine" /\ b = "lf" /\ rp' = "kDone"
    BY <1>6 DEF HeaderEnd
  <2> QED
    BY <1>1, <1>2, <2>1 DEF History
<1>7. ~StartLineBadByte(b) /\ ~HeaderBadByte(b)
  BY DEF StartLineBadByte, HeaderBadByte, Throw400
<1> QED
  BY <1>3, <1>4, <1>5, <1>6, <1>7 DEF ExecByte

(***************************************************************************)
(* Completing a header line keeps LastLineWins: the new line is the last   *)
(* one of its own name and of no other.                                    *)
(***************************************************************************)
LEMMA StoreHeaderLastLineWins ==
  ASSUME TypeOK, LastLineWins(headers), StoreHeader
  PROVE  LastLineWins(headers)'
<1>1. /\ lines \in Seq(Names) /\ name \in Names /\ headers \in [Names -> Nat]
      /\ lines' = Append(lines, name)
      /\ headers' = [headers EXCEPT ![Lower[name]] = Len(lines) + 1]
      /\ Lower \in [Names -> Names]
  BY ParserAssumption DEF TypeOK, StoreHeader
<1>2. /\ Len(lines) \in Nat
      /\ Len(lines') = Len(lines) + 1
      /\ lines'[Len(lines) + 1] = name
      /\ \A i \in 1..Len(lines) : lines'[i] = lines[i]
  BY <1>1
<1> SUFFICES ASSUME NEW n \in Names
             PROVE  /\ headers'[n] \in 0..Len(lines')
                    /\ headers'[n] # 0 => Lower[lines'[headers'[n]]] = n
                    /\ \A i \in 1..Len(lines') :
                         Lower[lines'[i]] = n => i <= headers'[n]
  BY DEF LastLineWins
<1>3. CASE n = Lower[name]
  <2>1. headers'[n] = Len(lines) + 1
    BY <1>1, <1>3
  <2> QED
    BY <1>2, <1>3, <2>1
<1>4. CASE n # Lower[name]
  <2>1. headers'[n] = headers[n]
    BY <1>1, <1>4
  <2>2. /\ headers[n] \in 0..Len(lines)
        /\ headers[n] # 0 => Lower[lines[headers[n]]] = n
        /\ \A i \in 1..Len(lines) : Lower[lines[i]] = n => i <= headers[n]
    BY DEF LastLineWins
  <2>3. \A i \in 1..Len(lines') :
          Lower[lines'[i]] = n => i \in 1..Len(lines) /\ lines'[i] = lines[i]
    BY <1>2, <1>4
  <2> QED
    BY <1>2, <2>1, <2>2, <2>3
<1> QED
  BY <1>3, <1>4

LEMMA ExecByteHeaderMap ==
  ASSUME TypeOK, Sequencing, HeaderMap, NEW b \in Bytes, ExecByte(b)
  PROVE  HeaderMap'
<1>1. CASE StartLineByte(b) \/ StartLineBadByte(b)
  BY <1>1 DEF StartLineByte, StartLineBadByte, HeaderMap
<1>2. CASE StartLineEnd(b)
  <2>1. lines = <<>> /\ headers = NoHeaders /\ rp' = "kHeader"
    BY <1>2 DEF StartLineEnd, Sequencing
  <2>2. lines' = lines /\ headers' = headers
    BY <1>2 DEF ExecByte, StartLineEnd, HeaderByte, HeaderBadByte, HeaderEnd
  <2>3. LastLineWins(headers)'
    BY <2>1, <2>2 DEF LastLineWins, NoHeaders
  <2> QED
    BY <2>1, <2>3 DEF HeaderMap
<1>3. CASE HeaderByte(b)
  <2>1. rp = "kHeader" /\ rp' = "kHeader" /\ LastLineWins(headers)
    BY <1>3 DEF HeaderByte, HeaderMap
  <2>2. StoreHeader \/ (headers' = headers /\ lines' = lines)
    BY <1>3 DEF HeaderByte, HpStep, fields
  <2>3. LastLineWins(headers)'
    BY <2>1, <2>2, StoreHeaderLastLineWins DEF LastLineWins
  <2> QED
    BY <2>1, <2>3 DEF HeaderMap
<1>4. CASE HeaderBadByte(b)
  BY <1>4 DEF HeaderBadByte, HeaderMap, LastLineWins
<1>5. CASE HeaderEnd(b)
  BY <1>5 DEF HeaderEnd, HeaderMap, LastLineWins
<1> QED
  BY <1>1, <1>2, <1>3, <1>4, <1>5 DEF ExecByte

LEMMA ExecByteOutcome ==
  ASSUME TypeOK, Sequencing, Outcome, NEW b \in Bytes, ExecByte(b)
  PROVE  Outcome'
<1>1. ~terminated /\ ~terminated' /\ ~thrown /\ start' = start
  BY DEF ExecByte, Outcome, TypeOK
<1>2. /\ start \in ParserState
      /\ [st |-> rp, valid |-> valid] \in ParserState
      /\ [st |-> rp, valid |-> valid]' \in ParserState
  BY ExecByteType DEF TypeOK, ParserState
<1>3. start.st # "kDone" => Parser \in Incomplete(start) \cup Completed(start)
  BY <1>1 DEF Outcome, ExecWithinOutcomes
<1>4. CASE StartLineByte(b)
  <2>1. Parser' = Parser /\ ~thrown'
    BY <1>1, <1>4 DEF StartLineByte, Consume, Parser
  <2> QED
    BY <1>1, <1>3, <2>1 DEF Outcome, ExecWithinOutcomes
<1>5. CASE StartLineBadByte(b) \/ HeaderBadByte(b)
  <2>1. Parser' = Parser /\ thrown' /\ left' = 0 /\ rp # "kDone"
    BY <1>5 DEF StartLineBadByte, HeaderBadByte, Throw400, Parser, ExecByte,
                StartLineByte, StartLineEnd
  <2>2. start.st # "kDone" => Parser \in Rejected(start)
    BY <1>2, <1>3, <2>1 DEF Incomplete, Completed, Rejected, Parser
  <2> QED
    BY <1>1, <2>1, <2>2 DEF Outcome, ExecWithinOutcomes
<1>6. CASE StartLineEnd(b)
  <2>1. /\ rp = "kStartLine" /\ rp' = "kHeader"
        /\ thrown' => left' = 0 /\ ~valid'
        /\ ~thrown' => valid'
    BY <1>1, <1>6 DEF StartLineEnd, Consume, Throw400
  <2> QED
    BY <1>1, <1>2, <1>3, <2>1
       DEF Outcome, ExecWithinOutcomes, Incomplete, Completed, Rejected, Parser
<1>7. CASE HeaderByte(b)
  <2>1. Parser' = Parser /\ ~thrown'
    BY <1>1, <1>7 DEF HeaderByte, Consume, Parser, ExecByte, StartLineByte,
                      StartLineBadByte, StartLineEnd
  <2> QED
    BY <1>1, <1>3, <2>1 DEF Outcome, ExecWithinOutcomes
<1>8. CASE HeaderEnd(b)
  <2>1. /\ rp = "kHeader" /\ rp' = "kDone" /\ valid' = valid
        /\ thrown' => left' = 0 /\ ~valid
        /\ ~thrown' => valid
    BY <1>1, <1>8 DEF HeaderEnd, Consume, Throw400, ExecByte, StartLineByte,
                      StartLineBadByte, StartLineEnd
  <2> QED
    BY <1>1, <1>2, <1>3, <2>1
       DEF Outcome, ExecWithinOutcomes, Incomplete, Completed, Rejected, Parser
<1> QED
  BY <1>4, <1>5, <1>6, <1>7, <1>8 DEF ExecByte

------------------------------------------------------------------------------
(***************************************************************************)
(* The invariant is inductive.                                             *)
(***************************************************************************)
LEMMA InitIInv == Init => IInv
<1> SUFFICES ASSUME Init PROVE IInv
  OBVIOUS
<1>1. TypeOK
  BY InitType
<1>2. Sequencing /\ History /\ HeaderMap
  BY DEF Init, Sequencing, History, HeaderMap
<1>3. Parser = FreshParser /\ start = FreshParser /\ ~thrown
  BY DEF Init, Parser, FreshParser
<1>4. FreshParser \in Incomplete(FreshParser)
  BY DEF Incomplete, FreshParser, ParserState, RpStates
<1>5. Outcome
  BY <1>3, <1>4 DEF Outcome, ExecWithinOutcomes
<1> QED
  BY <1>1, <1>2, <1>5 DEF IInv

LEMMA NextIInv == IInv /\ [Next]_vars => IInv'
<1> SUFFICES ASSUME IInv, [Next]_vars PROVE IInv'
  OBVIOUS
<1>1. TypeOK /\ Sequencing /\ History /\ HeaderMap /\ Outcome
  BY DEF IInv
<1>2. TypeOK'
  BY <1>1, NextType
<1>3. CASE Recv
  <2>1. Sequencing' /\ History' /\ HeaderMap'
    BY <1>1, <1>3 DEF Recv, Sequencing, History, HeaderMap, LastLineWins,
                      NoHeaders
  <2>2. Parser' = start' /\ ~thrown' /\ start' \in ParserState
    BY <1>2, <1>3 DEF Recv, Parser, TypeOK
  <2>3. start'.st # "kDone" => start' \in Incomplete(start')
    BY <2>2 DEF Incomplete
  <2>4. Outcome'
    BY <2>2, <2>3 DEF Outcome, ExecWithinOutcomes, Incomplete, Completed,
                      Rejected
  <2> QED
    BY <1>2, <2>1, <2>4 DEF IInv
<1>4. ASSUME NEW b \in Bytes, ExecByte(b) PROVE IInv'
  BY <1>1, <1>2, <1>4, ExecByteSequencing, ExecByteHistory, ExecByteHeaderMap,
     ExecByteOutcome DEF IInv
<1>5. CASE ExecWhenDone
  <2>1. Sequencing' /\ History' /\ HeaderMap'
    BY <1>1, <1>5 DEF ExecWhenDone, history, Sequencing, History, HeaderMap,
                      LastLineWins, NoHeaders
  <2>2. Outcome'
    BY <1>1, <1>5 DEF ExecWhenDone, history, Outcome, ExecWithinOutcomes
  <2> QED
    BY <1>2, <2>1, <2>2 DEF IInv
<1>6. CASE Reset
  <2>1. Sequencing' /\ History' /\ HeaderMap'
    BY <1>6 DEF Reset, Sequencing, History, HeaderMap, NoHeaders
  <2>2. Parser' = FreshParser /\ start' = FreshParser /\ ~thrown'
    BY <1>6 DEF Reset, Parser, FreshParser
  <2>3. FreshParser \in Incomplete(FreshParser)
    BY DEF Incomplete, FreshParser, ParserState, RpStates
  <2>4. Outcome'
    BY <2>2, <2>3 DEF Outcome, ExecWithinOutcomes, Incomplete, Completed,
                      Rejected
  <2> QED
    BY <1>2, <2>1, <2>4 DEF IInv
<1>7. CASE UNCHANGED vars
  <2>1. Sequencing' /\ History' /\ HeaderMap' /\ Outcome'
    BY <1>1, <1>7 DEF vars, Sequencing, History, HeaderMap, LastLineWins,
                      NoHeaders, Outcome, ExecWithinOutcomes, Parser
  <2> QED
    BY <1>2, <2>1 DEF IInv
<1> QED
  BY <1>3, <1>4, <1>5, <1>6, <1>7 DEF Next

THEOREM Inductive == Spec => []IInv
BY InitIInv, NextIInv, PTL DEF Spec

(***************************************************************************)
(* The "should call Reset()" terminations of the two inner automata are    *)
(* unreachable, for every input.                                           *)
(***************************************************************************)
THEOREM InnerParsersSafe == Spec => []InnerParsersNotDone
<1>1. IInv => InnerParsersNotDone
  BY DEF IInv, Sequencing, InnerParsersNotDone
<1> QED
  BY <1>1, Inductive, PTL

(***************************************************************************)
(* Exec stops at a blank line and nowhere else, unless it has rejected the *)
(* request.                                                                *)
(***************************************************************************)
THEOREM StopsAtBlankLine == Spec => []DoneAtBlankLine
<1>1. IInv => DoneAtBlankLine
  BY DEF IInv, History, DoneAtBlankLine
<1> QED
  BY <1>1, Inductive, PTL

(***************************************************************************)
(* A finished request carries exactly the last value of each header name.  *)
(***************************************************************************)
THEOREM HeadersComplete == Spec => []RequestHeadersComplete
<1>1. IInv => RequestHeadersComplete
  BY DEF IInv, HeaderMap, RequestHeadersComplete
<1> QED
  BY <1>1, Inductive, PTL

(***************************************************************************)
(* Every buffer ends in one of the outcomes module Worker is built on.     *)
(***************************************************************************)
THEOREM OutcomesCovered == Spec => []ExecWithinOutcomes
<1>1. IInv => ExecWithinOutcomes
  BY DEF IInv, Outcome
<1> QED
  BY <1>1, Inductive, PTL

==============================================================================
