------------------------------- MODULE Reply -------------------------------
(***************************************************************************)
(* A Response and the buffers a SendRespPack makes of it.                  *)
(*                                                                         *)
(* Of a response only status, media type and body vary; version, date and  *)
(* the other headers are those of Response::Default.  Every text that has  *)
(* a buffer of its own is one token here, the body is a sequence of them,  *)
(* and CRLF may be one of the body's tokens too.                           *)
(***************************************************************************)
EXTENDS Integers, Sequences, SequencesExt

CRLF == "CRLF"
NoType == "none"

\* HttpStatus: the code and the message of a status.
Status(code) ==
  CASE code = 200 -> <<"200", "OK">>
    [] code = 400 -> <<"400", "Bad Request">>
    [] code = 404 -> <<"404", "Not Found">>
    [] code = 405 -> <<"405", "Method Not Allowed">>

\* Response::Default.
Default == [code |-> 200, type |-> NoType, body |-> <<>>]

\* HttpExcept::SetUp with the page of its status.
Page(code) == <<"page", Status(code)[1]>>
SetUp(resp, code) == [resp EXCEPT !.code = code, !.body = Page(code)]

Headers(resp) ==
  {<<"Connection", "close">>, <<"Date", "now">>, <<"Server", "Ayaka">>}
    \cup (IF resp.type = NoType THEN {} ELSE {<<"Content-Type", resp.type>>})

\* AddVersionBufs, AddStatusCodeBufs and AddStatusMsgBufs.
StatusLine(code) == <<"HTTP/1.1", " ", Status(code)[1], " ", Status(code)[2], CRLF>>

\* AddHeadersBufs, four buffers for each header; order is the one in which the
\* unordered_map of the headers happens to be walked.
HeaderLine(header) == <<header[1], ": ", header[2], CRLF>>
HeaderLines(order) ==
  [k \in 1 .. 4 * Len(order) |-> HeaderLine(order[(k + 3) \div 4])[((k - 1) % 4) + 1]]

StatusAndHeaders(resp, order) == StatusLine(resp.code) \o HeaderLines(order)

\* Mutant: the empty line is taken for a part of the body.
SetUpBufsBlankWithBody(resp, order) ==
  StatusAndHeaders(resp, order) \o (IF resp.body = <<>> THEN <<>> ELSE <<CRLF>> \o resp.body)

SetUpBufs(resp, order) ==
  StatusAndHeaders(resp, order) \o <<CRLF>> \o resp.body

\* What a client understands that reads up to the end of the connection.
Understood(bufs) ==
  LET lineEnds == {i \in DOMAIN bufs : bufs[i] = CRLF}
      headEnds == {i \in lineEnds : i - 1 \in lineEnds}
      headEnd == CHOOSE i \in headEnds : \A j \in headEnds : i =< j
  IN IF headEnds = {} THEN {}
     ELSE {[status |-> <<bufs[3], bufs[5]>>,
            headers |-> {<<bufs[i + 1], bufs[i + 3]>> : i \in {j \in lineEnds : j < headEnd - 1}},
            body |-> SubSeq(bufs, headEnd + 1, Len(bufs))]}

\* However the headers are ordered, the client understands what was said.
ReadBack(resp) ==
  \A order \in SetToSeqs(Headers(resp)) :
    Understood(SetUpBufs(resp, order)) =
      {[status |-> Status(resp.code), headers |-> Headers(resp), body |-> resp.body]}
=============================================================================
