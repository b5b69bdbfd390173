------------------------------ MODULE MCServer ------------------------------
(***************************************************************************)
(* Configurations for TLC: the defaults, the example of README.md, and one *)
(* of each kind that the checks of ServerConf::Valid are about.            *)
(***************************************************************************)
EXTENDS Server, TLC

Path == [type |-> "path", path |-> "index.html"]
Dir == [type |-> "dir", root |-> "html"]
ReadmeDir == [type |-> "dir", path |-> "html"]
NoKeys == [k \in {} |-> 0]

\* The mime file: the first words of three entries, an extension named twice.
Types == <<[type |-> "text/plain", exts |-> <<"html", "txt">>],
           [type |-> "text/html", exts |-> <<"htm", "html">>],
           [type |-> "text/none", exts |-> <<"none">>]>>
MimeFile(words, newline) ==
  [opens |-> TRUE, entries |-> Types, kept |-> words, newline |-> newline]
FirstEntry == MimeFile(3, TRUE)
MimeFiles ==
  {MimeFile(n, newline) : n \in 0 .. 8, newline \in BOOLEAN} \cup {[FirstEntry EXCEPT !.opens = FALSE]}

Doc(listen, threads, route) ==
  [file |-> "ok", mime |-> FirstEntry, listen |-> listen,
   server |-> [worker_threads |-> threads], route |-> route]

Listens == {NoKeys} \cup {[ip |-> ip, port |-> p] : ip \in {"127.0.0.1", "12345"},
                                                  p \in {0, 80, -1, 65536 + 80}}
             \cup {[type |-> "ipv6", port |-> 80], [family |-> "ipv6", ip |-> "::"],
                   [family |-> "unix"]}

MCDocuments ==
  {Doc(l, n, <<Path, Dir>>) : l \in Listens, n \in {0, 1, 3}}
    \cup {Doc([port |-> 80], 2, r) : r \in {<<>>, <<Dir, [type |-> "proxy"]>>, <<Path, ReadmeDir>>}}
    \cup {[Doc(NoKeys, 1, <<Path>>) EXCEPT !.file = f, !.mime = m] :
            f \in {"ok", "missing", "malformed"}, m \in MimeFiles}

MCTexts == STRING
MCParses(family, ip) ==
  ip \in IF family = "ipv4" THEN {"127.0.0.1", "0.0.0.0"} ELSE {"::"}
MCExtension(path) == IF path = "index.html" THEN "html" ELSE NoText

\* As many ports as there can be workers.
MCEphemeral == 40001 .. 40003
=============================================================================
