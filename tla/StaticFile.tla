----------------------------- MODULE StaticFile -----------------------------
(***************************************************************************)
(* The handlers of requests (HttpHandler and its subclasses), call by call *)
(* on several worker threads, while the files they serve change under them *)
(* and connections compete with them for the descriptors of the process.   *)
(*                                                                         *)
(* DoGet makes up to four system calls: is the path a directory (location  *)
(* of type dir only), how long is the file, open it, read it.  Anything    *)
(* may happen between two of them.  A path leads to a file as in a file    *)
(* system: what is at the path can be replaced, and the content of a file  *)
(* can be rewritten in place, also after it was opened.                    *)
(***************************************************************************)
EXTENDS Naturals, FiniteSets, Reply

CONSTANTS
  Threads,     \* worker threads
  Paths,       \* paths of the file system
  IndexOf,     \* of a path that may be served as a directory: its index.html
  Types,       \* media types
  TypeOf,      \* the media type of each path, by its extension
  Files,       \* files (inodes)
  Unreadable,  \* those the process may not open
  Missing,     \* what is at a path where nothing is
  Directory,   \* what is at the path of a directory
  Bytes,       \* what files and replies are made of
  Texts,       \* contents of files
  Zero,        \* the value a vector<char> is filled with
  Requests,    \* the handler Route chose, the method, the path of the file
  MaxRead,     \* the most one read() returns
  FdLimit      \* RLIMIT_NOFILE

Handlers == {"path", "dir", "404"}
Methods == {"GET", "POST", "PUT", "DELETE", "HEAD", "OPTIONS", "CONNECT", "TRACE", "PATCH",
            "UNKNOWN"}
Objects == Files \cup {Missing, Directory}

ASSUME StaticFileAssumption ==
  /\ IsFiniteSet(Threads)
  /\ DOMAIN IndexOf \subseteq Paths /\ IndexOf \in [DOMAIN IndexOf -> Paths]
  /\ Paths # {} /\ TypeOf \in [Paths -> Types] /\ CRLF \notin Types
  /\ Missing \notin Files /\ Directory \notin Files /\ Missing # Directory
  /\ Unreadable \subseteq Files
  /\ Texts # {} /\ Texts \subseteq Seq(Bytes)
  /\ Zero \in Bytes /\ Page(404) \in Seq(Bytes) /\ Page(405) \in Seq(Bytes)
  /\ \A req \in Requests :
       /\ req.handler \in Handlers /\ req.method \in Methods /\ req.path \in Paths
       /\ req.handler = "dir" => req.path \in DOMAIN IndexOf
  /\ MaxRead \in Nat
  /\ FdLimit \in Nat

VARIABLES
  \* the world outside
  entry,     \* what is at each path
  content,   \* of each file
  sockets,   \* descriptors of connections, listeners and loops
  \* the process
  files,     \* descriptors of files that were opened
  job,       \* what each thread is doing
  \* history of each thread's request
  versions,  \* contents, from file_size on, of the file at the path or then opened
  hindered   \* at some moment what is at the path could not be opened and read

world == <<entry, content, sockets>>
vars == <<entry, content, sockets, files, job, versions, hindered>>

AnyPath == CHOOSE p \in Paths : TRUE
AnyText == CHOOSE text \in Texts : TRUE
Idle == [at |-> "idle", handler |-> "404", method |-> "GET", path |-> AnyPath,
         fd |-> Missing, resp |-> Default]

------------------------------------------------------------------------------
(***************************************************************************)
(* History.                                                                *)
(***************************************************************************)
Seen(t) ==
  {content[f] : f \in {IF job[t].at = "open" THEN entry[job[t].path] ELSE job[t].fd} \cap Files}

Hindrance(t) ==
  \/ entry[job[t].path] \notin Files \ Unreadable
  \/ job[t].at = "open" /\ sockets + files >= FdLimit

Watch ==
  /\ versions' = [t \in Threads |->
       IF job'[t].at \in {"open", "read"} THEN versions[t] \cup Seen(t)' ELSE {}]
  /\ hindered' = [t \in Threads |->
       CASE job'[t].at \in {"check", "measure", "open"} ->
              Hindrance(t)' \/ (hindered[t] /\ job'[t].path = job[t].path)
         [] job'[t].at = "read" -> hindered[t]
         [] OTHER -> FALSE]

------------------------------------------------------------------------------
(***************************************************************************)
(* A thread's steps.  An HttpExcept thrown on the way makes OnRecv start a *)
(* new response; what the handler had put into its own is gone with it.    *)
(***************************************************************************)
Goes(t, j) == job' = [job EXCEPT ![t] = j]

Returns(t, resp) ==
  Goes(t, [Idle EXCEPT !.at = "answered", !.resp = resp])

\* Mutant: the handler's own response is set up.
ThrowKeepsResponse(t, code) == Returns(t, SetUp(job[t].resp, code))

Throw(t, code) == Returns(t, SetUp(Default, code))

\* HandleRecv has a request complete and Route has found its handler.
Begin(t, req) ==
  /\ job[t].at = "idle"
  /\ Goes(t, [Idle EXCEPT !.at = "handle", !.handler = req.handler,
                          !.method = req.method, !.path = req.path])
  /\ UNCHANGED <<world, files>>
  /\ Watch

\* Of the functions Handle dispatches to, the one the static handlers override;
\* the others, like an unknown method, throw Http405Except.
Overridden == {"GET"}

\* HttpHandler::Handle and Http404Handler::Handle.  A StaticPathHandler has
\* looked up its media type when it was made.
Handle(t) ==
  LET j == job[t] IN
  /\ j.at = "handle"
  /\ CASE j.handler = "404" -> Throw(t, 404)
       [] j.handler # "404" /\ j.method \notin Overridden -> Throw(t, 405)
       [] j.handler = "path" /\ j.method \in Overridden ->
            Goes(t, [j EXCEPT !.at = "measure", !.resp.type = TypeOf[j.path]])
       [] j.handler = "dir" /\ j.method \in Overridden -> Goes(t, [j EXCEPT !.at = "check"])
  /\ UNCHANGED <<world, files>>
  /\ Watch

\* is_directory.  It throws when the status of the path cannot be had, and is
\* false when the path does not exist.
IsDirectory(t) ==
  LET j == job[t]
      path == IF entry[j.path] = Directory THEN IndexOf[j.path] ELSE j.path
  IN /\ j.at = "check"
     /\ \/ entry[j.path] = Missing /\ Throw(t, 404)
        \/ Goes(t, [j EXCEPT !.at = "measure", !.path = path, !.resp.type = TypeOf[path]])
     /\ UNCHANGED <<world, files>>
     /\ Watch

Zeros(n) == [i \in 1 .. n |-> Zero]

\* Mutant: room for a terminating zero.
BodyForPlusOne(text) == Zeros(Len(text) + 1)

\* The body before the file is read into it.
BodyFor(text) == Zeros(Len(text))

\* file_size, which throws for anything but a file.
FileSize(t) ==
  LET object == entry[job[t].path] IN
  /\ job[t].at = "measure"
  /\ IF object \in Files
       THEN Goes(t, [job[t] EXCEPT !.at = "open", !.resp.body = BodyFor(content[object])])
       ELSE Throw(t, 404)
  /\ UNCHANGED <<world, files>>
  /\ Watch

\* The call of open, the condition of its success, and a number of descriptors
\* given back after a failure.
OpensIf(t, opens, closed) ==
  /\ job[t].at = "open"
  /\ IF opens
       THEN /\ files' = files + 1
            /\ Goes(t, [job[t] EXCEPT !.at = "read", !.fd = entry[job[t].path]])
       ELSE Throw(t, 404) /\ files' = files - closed
  /\ UNCHANGED world
  /\ Watch

\* Directories can be opened for reading too.
CanOpen(object) == object \notin {Missing} \cup Unreadable /\ sockets + files < FdLimit

\* Mutant: what open returned is closed even when it is no descriptor.
OpenFileClosesOnError(t) == OpensIf(t, CanOpen(entry[job[t].path]), 1)

\* Mutant: the size is checked again before the file is opened.
OpenFileSameSize(t) ==
  LET object == entry[job[t].path] IN
  OpensIf(t, /\ CanOpen(object)
             /\ object \in Files => Len(content[object]) = Len(job[t].resp.body), 0)

OpenFile(t) == OpensIf(t, CanOpen(entry[job[t].path]), 0)

\* The buffer after read() of a file with the given content.
Filled(buffer, text) ==
  [i \in DOMAIN buffer |-> IF i =< Len(text) /\ i =< MaxRead THEN text[i] ELSE buffer[i]]

\* read, which fails on a directory, and the descriptors given back after it.
ReadsAndCloses(t, closed) ==
  LET j == job[t] IN
  /\ j.at = "read"
  /\ IF j.fd \in Files
       THEN Returns(t, [j.resp EXCEPT !.body = Filled(@, content[j.fd])])
       ELSE Throw(t, 404)
  /\ files' = files - closed
  /\ UNCHANGED world
  /\ Watch

\* Mutant: the file is closed.
ReadFileCloses(t) == ReadsAndCloses(t, 1)

ReadFile(t) == ReadsAndCloses(t, 0)

\* The reply has been handed to Tcp::Send.
Finish(t) ==
  /\ job[t].at = "answered"
  /\ Goes(t, Idle)
  /\ UNCHANGED <<world, files>>
  /\ Watch

------------------------------------------------------------------------------
(***************************************************************************)
(* The world outside: an entry is made, removed or replaced, a file is     *)
(* rewritten in place, a connection comes or goes.                         *)
(***************************************************************************)
IsTree(e) == \A d \in DOMAIN IndexOf : e[IndexOf[d]] # Missing => e[d] = Directory

Relink(p, object) ==
  /\ entry' = [entry EXCEPT ![p] = object]
  /\ IsTree(entry')
  /\ UNCHANGED <<content, sockets, files, job>>
  /\ Watch

Rewrite(f, text) ==
  /\ content' = [content EXCEPT ![f] = text]
  /\ UNCHANGED <<entry, sockets, files, job>>
  /\ Watch

Connect ==
  /\ sockets + files < FdLimit
  /\ sockets' = sockets + 1
  /\ UNCHANGED <<entry, content, files, job>>
  /\ Watch

Disconnect ==
  /\ sockets > 0
  /\ sockets' = sockets - 1
  /\ UNCHANGED <<entry, content, files, job>>
  /\ Watch

Init ==
  /\ entry \in [Paths -> Objects] /\ IsTree(entry)
  /\ content = [f \in Files |-> AnyText]
  /\ sockets = 0
  /\ files = 0
  /\ job = [t \in Threads |-> Idle]
  /\ versions = [t \in Threads |-> {}]
  /\ hindered = [t \in Threads |-> FALSE]

Step(t) ==
  \/ \E req \in Requests : Begin(t, req)
  \/ Handle(t) \/ IsDirectory(t) \/ FileSize(t) \/ OpenFile(t) \/ ReadFile(t) \/ Finish(t)

World ==
  \/ \E p \in Paths, object \in Objects : Relink(p, object)
  \/ \E f \in Files \ Unreadable, text \in Texts : Rewrite(f, text)
  \/ Connect \/ Disconnect

Next == World \/ \E t \in Threads : Step(t)

Spec == Init /\ [][Next]_vars

------------------------------------------------------------------------------
(***************************************************************************)
(* Properties.                                                             *)
(***************************************************************************)
Responses == [code : {200, 404, 405}, type : Types \cup {NoType}, body : Seq(Bytes)]

Jobs == [at : {"idle", "handle", "check", "measure", "open", "read", "answered"},
         handler : Handlers, method : Methods, path : Paths, fd : Objects, resp : Responses]

\* The variables have their types, and there are no more descriptors than there
\* may be.
TypeOK ==
  /\ entry \in [Paths -> Objects]
  /\ content \in [Files -> Texts]
  /\ sockets \in Nat /\ files \in Nat /\ sockets + files =< FdLimit
  /\ job \in [Threads -> Jobs]
  /\ versions \in [Threads -> SUBSET Texts]
  /\ hindered \in [Threads -> BOOLEAN]

Answers(t) == job[t].at # "answered" /\ job'[t].at = "answered"
Serves(t) == Answers(t) /\ job'[t].resp.code = 200

\* Whatever happens to the file between file_size, open and read, a body served
\* is one content the file has had since, cut off or filled up with zeros to the
\* length of one it has had; so a file nobody touches meanwhile is served whole
\* if one read can return it (static_handler.cpp:50-64, 86-95).
BodyIsOneVersion ==
  [][\A t \in Threads : Serves(t) =>
       \E text, measured \in versions[t] :
         job'[t].resp.body = Filled(Zeros(Len(measured)), text)]_vars

\* A file that could have been opened and read all the time is served: a GET
\* that a location matches is answered 404 only if something else was at the
\* path, or no descriptor was left, at some moment (static_handler.cpp:47-99).
NotFoundHasCause ==
  [][\A t \in Threads :
       Answers(t) /\ job'[t].resp.code = 404 => job[t].handler = "404" \/ hindered[t]]_vars

\* An error says nothing of the attempt it ended, neither media type nor body;
\* a file served has the type of the path it was read from (downstream.cpp:34-37,
\* http_except.cpp.in:33-49, static_handler.cpp:79-84).
ErrorsAreClean ==
  [][\A t \in Threads : Answers(t) =>
       IF Serves(t) THEN job'[t].resp.type = TypeOf[job[t].path]
                    ELSE job'[t].resp = SetUp(Default, job'[t].resp.code)]_vars

\* A client that reads the buffers of a reply to their end gets its status, its
\* headers and its body, in whatever order the headers come and whatever bytes
\* the body holds, empty files included (send_pack.cpp:67-135).
RepliesReadBack ==
  \A t \in Threads : job[t].at = "answered" => ReadBack(job[t].resp)

\* The threads' calls, interleaved with each other and with the world, have the
\* effect of handlers that answer in one step with an outcome of HandlerOutcome,
\* as module Worker takes them to do.
Reading == {t \in Threads : job[t].at = "read"}

H == INSTANCE Handling WITH
  phase <- [t \in Threads |-> IF job[t].at \in {"idle", "answered"} THEN job[t].at ELSE "busy"],
  code <- [t \in Threads |-> IF job[t].at = "answered" THEN job[t].resp.code ELSE 0],
  files <- files - Cardinality(Reading)

ImplementsHandling == H!Spec
=============================================================================
