--------------------------- MODULE HandlerOutcome ---------------------------
(***************************************************************************)
(* What Route and Handle can come to, seen from Downstream::HandleRecv:    *)
(* the status of the reply and the descriptors the handler leaves open.  A *)
(* static file is opened and read (200), is not there (404) or is opened   *)
(* and cannot be read (404); the method has no handler (405).  No path     *)
(* closes the file.                                                        *)
(*                                                                         *)
(* Module StaticFile shows that the handlers, which run step by step next  *)
(* to those of other workers, come to one of these outcomes as if they     *)
(* took a single step; module Worker is built on them.                     *)
(***************************************************************************)

\* Mutant: a file that cannot be read is answered with a status of its own.
HandlerOutcomes500 ==
  {[code |-> 200, opened |-> 1], [code |-> 404, opened |-> 0],
   [code |-> 500, opened |-> 1], [code |-> 405, opened |-> 0]}

HandlerOutcomes ==
  {[code |-> 200, opened |-> 1], [code |-> 404, opened |-> 0],
   [code |-> 404, opened |-> 1], [code |-> 405, opened |-> 0]}
=============================================================================
