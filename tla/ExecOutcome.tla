----------------------------- MODULE ExecOutcome -----------------------------
(***************************************************************************)
(* What one call of RequestParser::Exec can do to a request parser, seen   *)
(* from its caller Downstream::HandleRecv.  The bytes of the buffer are    *)
(* abstracted away; what is kept of the parser is the part its caller      *)
(* depends on:                                                             *)
(*                                                                         *)
(*   st     RequestParser::state_ (kMoved is left out: the server never    *)
(*          moves a parser);                                               *)
(*   valid  req_->url().valid(), TRUE in a default-constructed Request.    *)
(*                                                                         *)
(* Module RequestParser shows that the byte-level parser stays inside      *)
(* these outcomes; module Worker is built on them.                         *)
(***************************************************************************)

RpStates == {"kStartLine", "kHeader", "kDone"}

ParserState == [st : RpStates, valid : BOOLEAN]

FreshParser == [st |-> "kStartLine", valid |-> TRUE]

(***************************************************************************)
(* Exec returns len and the request is still incomplete: the parser stays  *)
(* where it was or passes the end of a start line with a valid URL.        *)
(***************************************************************************)
Incomplete(p) ==
  {q \in ParserState :
     /\ p.st # "kDone"
     /\ \/ q = p
        \/ p.st = "kStartLine" /\ q = [st |-> "kHeader", valid |-> TRUE]}

(***************************************************************************)
(* Exec throws Http400Except.  Either a CR was not followed by LF (the     *)
(* parser keeps its state), or the start line ended with an invalid URL    *)
(* (it has already moved on to kHeader), or the header block of such a     *)
(* request ended (it has already moved on to kDone).                       *)
(***************************************************************************)
Rejected(p) ==
  {q \in ParserState :
     /\ p.st # "kDone"
     /\ \/ q = p
        \/ p.st = "kStartLine" /\ q.st = "kHeader"
        \/ p.st = "kHeader" /\ ~p.valid /\ q = [st |-> "kDone", valid |-> FALSE]}

(***************************************************************************)
(* Exec returns at the last byte of the header block of a valid request.   *)
(***************************************************************************)
Completed(p) ==
  {q \in ParserState :
     /\ p.st # "kDone"
     /\ p.st = "kHeader" => p.valid
     /\ q = [st |-> "kDone", valid |-> TRUE]}

==============================================================================
