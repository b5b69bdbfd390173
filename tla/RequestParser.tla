---------------------------- MODULE RequestParser ----------------------------
(***************************************************************************)
(* The request parser of src/http_parser.cpp, byte by byte: the start-line *)
(* automaton (RequestStartLineParser), the header automaton (HeaderParser) *)
(* and the automaton that sequences them (RequestParser), driven by a      *)
(* caller that hands it buffers of any length (Exec) and may start a new   *)
(* request between buffers (Reset).                                        *)
(*                                                                         *)
(* Bytes are reduced to the classes the automata tell apart.  The texts    *)
(* they collect are reduced to what the properties need: a header name is  *)
(* a member of Names, a header value is the number of the line it came     *)
(* from, and of the URL only its validity is kept.                         *)
(***************************************************************************)
EXTENDS Naturals, Sequences, ExecOutcome

CONSTANTS
  Names,     \* header names as they appear on the wire
  Lower,     \* StrLower (case.cpp) on those names
  MaxBuf,    \* bound: bytes in one receive buffer (kDefaultBufSize in tcp.hpp)
  MaxLines   \* bound: header lines in one request

ASSUME ParserAssumption ==
  /\ Lower \in [Names -> Names]
  /\ \A n \in Names : Lower[Lower[n]] = Lower[n]
  /\ MaxBuf \in Nat
  /\ MaxLines \in Nat

Bytes == {"sp", "cr", "lf", "colon", "other"}   \* "sp" is ' ' or '\t'

RslpStates == {"kMethod", "kMethodSpace", "kUrl", "kUrlSpace", "kVersion",
               "kNewLine", "kDone"}
HpStates == {"kLineStart", "kEmptyNewLine", "kName", "kNameSpace", "kValue",
             "kNewLine", "kDone"}

VARIABLES
  rslp,        \* RequestStartLineParser::state_
  hp,          \* HeaderParser::state_
  name,        \* HeaderParser::name_, meaningful from kName to kNewLine
  headers,     \* HeaderParser::headers_: line that gave the value, 0 if absent
  rp,          \* RequestParser::state_
  valid,       \* req_->url().valid()
  reqHeaders,  \* req_->headers()
  left,        \* bytes of the current buffer Exec has not seen yet
  terminated   \* std::terminate was reached

(***************************************************************************)
(* History variables, read by the properties only.                         *)
(***************************************************************************)
VARIABLES
  lines,       \* the names of the header lines completed in this request
  crlf,        \* how much of CR LF CR LF the byte stream ends with
  rejected,    \* some byte of this request has raised Http400Except
  start,       \* the parser as the current buffer found it
  thrown       \* the current buffer has raised Http400Except

fields  == <<name, headers, lines>>
history == <<lines, crlf, rejected, start, thrown>>
vars == <<rslp, hp, name, headers, rp, valid, reqHeaders, left, terminated,
          lines, crlf, rejected, start, thrown>>

NoHeaders == [n \in Names |-> 0]

Parser == [st |-> rp, valid |-> valid]

------------------------------------------------------------------------------
(***************************************************************************)
(* RequestStartLineParser::Step.  In kNewLine any byte but LF throws and   *)
(* leaves the automaton where it is.                                       *)
(***************************************************************************)
RslpThrows(b) == rslp = "kNewLine" /\ b # "lf"

RslpStep(b) ==
  \/ rslp = "kMethod"      /\ rslp' = IF b = "sp" THEN "kMethodSpace" ELSE rslp
  \/ rslp = "kMethodSpace" /\ rslp' = IF b = "sp" THEN rslp ELSE "kUrl"
  \/ rslp = "kUrl"         /\ rslp' = IF b = "sp" THEN "kUrlSpace" ELSE rslp
  \/ rslp = "kUrlSpace"    /\ rslp' = IF b = "sp" THEN rslp ELSE "kVersion"
  \/ rslp = "kVersion"     /\ rslp' = IF b = "cr" THEN "kNewLine" ELSE rslp
  \/ rslp = "kNewLine"     /\ b = "lf" /\ rslp' = "kDone"

(***************************************************************************)
(* HeaderParser::Step.  The LF of a header line stores the lower-cased     *)
(* name, replacing an earlier value of the same name.  A CR right after    *)
(* the colon starts the value: kNameSpace skips blanks only.               *)
(***************************************************************************)
HpThrows(b) == hp \in {"kEmptyNewLine", "kNewLine"} /\ b # "lf"

\* Mutant: the name is stored as it was sent.
StoreHeaderAsSent ==
  /\ lines' = Append(lines, name)
  /\ headers' = [headers EXCEPT ![name] = Len(lines) + 1]

StoreHeader ==
  /\ lines' = Append(lines, name)
  /\ headers' = [headers EXCEPT ![Lower[name]] = Len(lines) + 1]

HpStep(b) ==
  \/ /\ hp = "kLineStart"
     /\ b = "cr"
     /\ hp' = "kEmptyNewLine"
     /\ UNCHANGED fields
  \/ /\ hp = "kLineStart"
     /\ b # "cr"
     /\ Len(lines) < MaxLines
     /\ hp' = "kName"
     /\ name' \in Names
     /\ UNCHANGED <<headers, lines>>
  \/ /\ hp = "kEmptyNewLine"
     /\ b = "lf"
     /\ hp' = "kDone"
     /\ UNCHANGED fields
  \/ /\ hp = "kName"
     /\ hp' = IF b = "colon" THEN "kNameSpace" ELSE hp
     /\ UNCHANGED fields
  \/ /\ hp = "kNameSpace"
     /\ hp' = IF b = "sp" THEN hp ELSE "kValue"
     /\ UNCHANGED fields
  \/ /\ hp = "kValue"
     /\ hp' = IF b = "cr" THEN "kNewLine" ELSE hp
     /\ UNCHANGED fields
  \/ /\ hp = "kNewLine"
     /\ b = "lf"
     /\ hp' = "kLineStart"
     /\ StoreHeader
     /\ UNCHANGED name

------------------------------------------------------------------------------
(***************************************************************************)
(* RequestParser::Step and the loop of RequestParser::Exec around it: one  *)
(* action per byte.  Exec gives the rest of the buffer up when Step        *)
(* throws, because the exception leaves HandleRecv too (downstream.cpp).   *)
(***************************************************************************)
Observe(b) ==
  crlf' = CASE b = "cr" -> IF crlf \in {2, 4} THEN 3 ELSE 1
            [] b = "lf" -> IF crlf \in {1, 3} THEN crlf + 1 ELSE 0
            [] OTHER    -> 0

Consume ==
  /\ left' = left - 1
  /\ UNCHANGED <<thrown, rejected>>

Throw400 ==
  /\ left' = 0
  /\ thrown' = TRUE
  /\ rejected' = TRUE

StartLineByte(b) ==
  /\ rp = "kStartLine"
  /\ RslpStep(b)
  /\ rslp' # "kDone"
  /\ Consume
  /\ UNCHANGED <<rp, valid>>

StartLineBadByte(b) ==
  /\ rp = "kStartLine"
  /\ RslpThrows(b)
  /\ Throw400
  /\ UNCHANGED <<rslp, rp, valid>>

\* Mutant: the URL is checked before state_ moves on.
StartLineEndChecksFirst(b) ==
  /\ rp = "kStartLine"
  /\ RslpStep(b)
  /\ rslp' = "kDone"
  /\ valid' \in BOOLEAN
  /\ rp' = IF valid' THEN "kHeader" ELSE rp
  /\ IF valid' THEN Consume ELSE Throw400

StartLineEnd(b) ==
  /\ rp = "kStartLine"
  /\ RslpStep(b)
  /\ rslp' = "kDone"
  /\ rp' = "kHeader"
  /\ valid' \in BOOLEAN
  /\ IF valid' THEN Consume ELSE Throw400

HeaderByte(b) ==
  /\ rp = "kHeader"
  /\ HpStep(b)
  /\ hp' # "kDone"
  /\ Consume
  /\ UNCHANGED <<rp, reqHeaders>>

HeaderBadByte(b) ==
  /\ rp = "kHeader"
  /\ HpThrows(b)
  /\ Throw400
  /\ UNCHANGED <<hp, name, headers, lines, rp, reqHeaders>>

\* Mutant: any byte ends the empty line.
HeaderEndAnyByte(b) ==
  /\ rp = "kHeader"
  /\ hp = "kEmptyNewLine"
  /\ hp' = "kDone"
  /\ rp' = "kDone"
  /\ reqHeaders' = headers
  /\ headers' = NoHeaders
  /\ IF valid THEN Consume ELSE Throw400
  /\ UNCHANGED <<name, lines>>

\* Mutant: Exec does not look at the URL again when the request is done.
HeaderEndUnchecked(b) ==
  /\ rp = "kHeader"
  /\ hp = "kEmptyNewLine"
  /\ b = "lf"
  /\ hp' = "kDone"
  /\ rp' = "kDone"
  /\ reqHeaders' = headers
  /\ headers' = NoHeaders
  /\ Consume
  /\ UNCHANGED <<name, lines>>

\* set_headers(hp_.headers()) moves the map out of the header parser.
HeaderEnd(b) ==
  /\ rp = "kHeader"
  /\ hp = "kEmptyNewLine"
  /\ b = "lf"
  /\ hp' = "kDone"
  /\ rp' = "kDone"
  /\ reqHeaders' = headers
  /\ headers' = NoHeaders
  /\ IF valid THEN Consume ELSE Throw400
  /\ UNCHANGED <<name, lines>>

\* Mutant: the loop of Exec runs to i <= len.
ExecBytePastEnd(b) ==
  /\ ~terminated
  /\ left >= 0
  /\ Observe(b)
  /\ \/ /\ StartLineByte(b) \/ StartLineBadByte(b) \/ StartLineEnd(b)
        /\ UNCHANGED <<hp, name, headers, lines, reqHeaders>>
     \/ /\ HeaderByte(b) \/ HeaderBadByte(b) \/ HeaderEnd(b)
        /\ UNCHANGED <<rslp, valid>>
  /\ UNCHANGED <<start, terminated>>

ExecByte(b) ==
  /\ ~terminated
  /\ left > 0
  /\ Observe(b)
  /\ \/ /\ StartLineByte(b) \/ StartLineBadByte(b) \/ StartLineEnd(b)
        /\ UNCHANGED <<hp, name, headers, lines, reqHeaders>>
     \/ /\ HeaderByte(b) \/ HeaderBadByte(b) \/ HeaderEnd(b)
        /\ UNCHANGED <<rslp, valid>>
  /\ UNCHANGED <<start, terminated>>

\* RequestParser::Step in kDone logs "should call Reset()" and terminates.
ExecWhenDone ==
  /\ ~terminated
  /\ left > 0
  /\ rp = "kDone"
  /\ terminated' = TRUE
  /\ UNCHANGED <<rslp, hp, name, headers, rp, valid, reqHeaders, left, history>>

------------------------------------------------------------------------------
(***************************************************************************)
(* The caller: a buffer arrives, or the parser is reset between buffers.   *)
(***************************************************************************)
Recv ==
  /\ ~terminated
  /\ left = 0
  /\ left' \in 1..MaxBuf
  /\ start' = Parser
  /\ thrown' = FALSE
  /\ UNCHANGED <<rslp, hp, name, headers, rp, valid, reqHeaders, terminated,
                 lines, crlf, rejected>>

Reset ==
  /\ ~terminated
  /\ left = 0
  /\ rslp' = "kMethod"
  /\ hp' = "kLineStart"
  /\ headers' = NoHeaders
  /\ rp' = "kStartLine"
  /\ valid' = TRUE
  /\ reqHeaders' = NoHeaders
  /\ lines' = <<>>
  /\ rejected' = FALSE
  /\ start' = FreshParser
  /\ thrown' = FALSE
  /\ UNCHANGED <<name, left, terminated, crlf>>

Init ==
  /\ rslp = "kMethod"
  /\ hp = "kLineStart"
  /\ name \in Names
  /\ headers = NoHeaders
  /\ rp = "kStartLine"
  /\ valid = TRUE
  /\ reqHeaders = NoHeaders
  /\ left = 0
  /\ terminated = FALSE
  /\ lines = <<>>
  /\ crlf = 0
  /\ rejected = FALSE
  /\ start = FreshParser
  /\ thrown = FALSE

Next ==
  \/ Recv
  \/ \E b \in Bytes : ExecByte(b)
  \/ ExecWhenDone
  \/ Reset

Spec == Init /\ [][Next]_vars

------------------------------------------------------------------------------
TypeOK ==
  /\ rslp \in RslpStates
  /\ hp \in HpStates
  /\ name \in Names
  /\ headers \in [Names -> Nat]
  /\ rp \in RpStates
  /\ valid \in BOOLEAN
  /\ reqHeaders \in [Names -> Nat]
  /\ left \in 0..MaxBuf
  /\ terminated \in BOOLEAN
  /\ lines \in Seq(Names)
  /\ crlf \in 0..4
  /\ rejected \in BOOLEAN
  /\ start \in ParserState
  /\ thrown \in BOOLEAN

(***************************************************************************)
(* RequestParser::Step only ever hands a byte to an inner automaton that   *)
(* still accepts one: the "should call Reset()" terminations of            *)
(* RequestStartLineParser::Step and HeaderParser::Step (http_parser.cpp,   *)
(* lines 92 and 172) are out of reach, whatever was rejected before and    *)
(* however Exec and Reset are mixed.                                       *)
(***************************************************************************)
InnerParsersNotDone ==
  /\ rp = "kStartLine" => rslp # "kDone"
  /\ rp = "kHeader" => hp # "kDone"

(***************************************************************************)
(* A request none of whose bytes was rejected is complete only right after *)
(* a blank line: Exec never stops in the middle of a header block, however *)
(* the bytes are cut into buffers.                                         *)
(***************************************************************************)
DoneAtBlankLine == rp = "kDone" /\ ~rejected => crlf = 4

(***************************************************************************)
(* The finished request has, for each name, the value of the last line     *)
(* with that name in any letter case, under the lower-cased name           *)
(* (http_parser.hpp, line 71), and no other headers.                       *)
(***************************************************************************)
LastLineWins(h) ==
  \A n \in Names :
    /\ h[n] \in 0..Len(lines)
    /\ h[n] # 0 => Lower[lines[h[n]]] = n
    /\ \A i \in 1..Len(lines) : Lower[lines[i]] = n => i <= h[n]

RequestHeadersComplete == rp = "kDone" => LastLineWins(reqHeaders)

(***************************************************************************)
(* Whatever the bytes, one buffer takes the parser to one of the outcomes  *)
(* the caller is written for (module ExecOutcome).                         *)
(***************************************************************************)
ExecWithinOutcomes ==
  ~terminated /\ start.st # "kDone" =>
    IF thrown THEN Parser \in Rejected(start)
              ELSE Parser \in Incomplete(start) \cup Completed(start)

==============================================================================
