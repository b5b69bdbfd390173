------------------------------ MODULE MCWorker ------------------------------
(***************************************************************************)
(* A finite instance of Worker: two connections, or one where the run only *)
(* looks for a violation.                                                  *)
(***************************************************************************)
EXTENDS Worker

CONSTANTS c1, c2

MCConns == {c1, c2}

MCOneConn == {c1}

==============================================================================
