-------------------------------- MODULE Mime --------------------------------
(***************************************************************************)
(* Class Mime: the table from extensions to media types, and the loop that *)
(* reads it from a file of words, "type ext ... ext;" over and over.       *)
(*                                                                         *)
(* A file is written from entries; it may be cut off behind any word, and  *)
(* need not end in a line feed.                                            *)
(***************************************************************************)
EXTENDS Integers, Sequences, SequencesExt

DefaultMime == "application/octet-stream"
NoMime == ""
NoTypes == [ext \in {} |-> NoMime]

GetMime(table, ext) ==
  IF ext # "" /\ ext \in DOMAIN table THEN table[ext] ELSE DefaultMime

\* The words of an entry; the last one ends in a semicolon.
EntryWords(entry) ==
  <<[text |-> entry.type, ends |-> FALSE]>>
    \o [i \in DOMAIN entry.exts |-> [text |-> entry.exts[i], ends |-> i = Len(entry.exts)]]

AllWords(entries) == FlattenSeq([i \in DOMAIN entries |-> EntryWords(entries[i])])

\* The words of a file.  A word that touches the end of the file is cut: peek()
\* finds EOF behind it.
Words(file) ==
  LET all == AllWords(file.entries)
  IN [i \in 1 .. file.kept |->
        [text |-> all[i].text, ends |-> all[i].ends, cut |-> i = file.kept /\ ~file.newline]]

Reading == [mime |-> NoMime, table |-> NoTypes, failed |-> FALSE]

ReadType(scan, word) == IF word.cut THEN scan ELSE [scan EXCEPT !.mime = word.text]

Stored(table, ext, mime) ==
  [e \in {ext} \cup DOMAIN table |-> IF e = ext THEN mime ELSE table[e]]

ReadExt(scan, word) ==
  IF word.cut THEN [scan EXCEPT !.failed = TRUE]
  ELSE [scan EXCEPT !.table = Stored(@, word.text, scan.mime),
                    !.mime = IF word.ends THEN NoMime ELSE @]

ReadWord(scan, word) ==
  IF scan.mime = NoMime THEN ReadType(scan, word) ELSE ReadExt(scan, word)

\* Mutant: the end of the file is just the end of the table.
ReadLenient(file) ==
  LET Read(scan, word) == IF word.cut THEN [scan EXCEPT !.mime = NoMime] ELSE ReadWord(scan, word)
  IN FoldLeft(Read, Reading, Words(file))

\* The loops of Mime::Load, a word at a time.
ReadWords(file) == FoldLeft(ReadWord, Reading, Words(file))

\* The file ends within an entry, or right behind one.
LoadFails(file) == ReadWords(file).failed \/ ReadWords(file).mime # NoMime

Table(file) == ReadWords(file).table
=============================================================================
