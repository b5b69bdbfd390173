--------------------------- MODULE MCRequestParser ---------------------------
(***************************************************************************)
(* A finite instance of RequestParser: two spellings of one header name    *)
(* and an unrelated name.                                                  *)
(***************************************************************************)
EXTENDS RequestParser

MCNames == {"Host", "host", "via"}

MCLower == [n \in MCNames |-> IF n = "Host" THEN "host" ELSE n]

==============================================================================
