---------------------------- MODULE MCStaticFile ----------------------------
(***************************************************************************)
(* Two threads, a directory with its index.html, two files and room for    *)
(* two descriptors.                                                        *)
(***************************************************************************)
EXTENDS StaticFile, TLC

CONSTANTS t1, t2, f1, f2

MCThreads == {t1, t2}
MCPaths == {"d", "d/index.html"}
MCIndexOf == "d" :> "d/index.html"
MCTypeOf == ("d" :> "plain") @@ ("d/index.html" :> "html")
MCFiles == {f1, f2}
MCUnreadable == {f2}
MCTypes == {"plain", "html"}
MCBytes == {"0", "a", "b", CRLF, "page", "404", "405"}
MCTexts == {<<>>, <<"a">>, <<CRLF, "b">>}
Request(handler, method, path) == [handler |-> handler, method |-> method, path |-> path]
MCRequests == {Request("404", "GET", "d"), Request("path", "POST", "d"),
               Request("dir", "GET", "d"), Request("path", "GET", "d/index.html")}
MCSymmetry == Permutations(MCThreads)
=============================================================================
