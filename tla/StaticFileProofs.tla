-------------------------- MODULE StaticFileProofs --------------------------
(***************************************************************************)
(* The static file handlers keep their promises for every file system, any *)
(* number of threads and any number of descriptors, however the calls      *)
(* interleave; and they implement the handlers module Worker is built on.  *)
(***************************************************************************)
EXTENDS StaticFile, ReplyProofs

\* What is true of a thread's request between two of its calls.
JobInv(t) ==
  /\ job[t].at = "check" => job[t].handler = "dir"
  /\ job[t].at \in {"handle", "check"} /\ job[t].handler = "dir" => job[t].path \in DOMAIN IndexOf
  /\ job[t].at \in {"handle", "check"} => job[t].resp = Default
  /\ job[t].at \in {"check", "measure", "open"} /\ Hindrance(t) => hindered[t]
  /\ job[t].at = "read" /\ job[t].fd \notin Files => hindered[t]
  /\ job[t].at \in {"measure", "open", "read"} =>
       job[t].resp.type = TypeOf[job[t].path] /\ job[t].resp.code = 200
  /\ job[t].at \in {"open", "read"} =>
       /\ Seen(t) \subseteq versions[t]
       /\ \E measured \in versions[t] : job[t].resp.body = Zeros(Len(measured))

IInv == TypeOK /\ \A t \in Threads : JobInv(t)

------------------------------------------------------------------------------
\* The body made for a file is a sequence of bytes.
LEMMA ZerosTyped == \A n \in Nat : Zeros(n) \in Seq(Bytes) /\ DOMAIN Zeros(n) = 1 .. n
<1>1. Zero \in Bytes
  BY StaticFileAssumption
<1> QED
  BY <1>1 DEF Zeros

\* read() leaves it one.
LEMMA FilledTyped ==
  ASSUME NEW buffer \in Seq(Bytes), NEW text \in Seq(Bytes)
  PROVE  Filled(buffer, text) \in Seq(Bytes)
<1>1. Len(buffer) \in Nat /\ DOMAIN buffer = 1 .. Len(buffer)
  BY LenProperties
<1>2. ASSUME NEW i \in 1 .. Len(buffer)
      PROVE  (IF i =< Len(text) /\ i =< MaxRead THEN text[i] ELSE buffer[i]) \in Bytes
  <2>1. buffer[i] \in Bytes
    BY <1>2, ElementOfSeq
  <2>2. i =< Len(text) => text[i] \in Bytes
    BY <1>1, <1>2, ElementOfSeq, LenProperties
  <2> QED
    BY <2>1, <2>2
<1>3. Filled(buffer, text) \in [1 .. Len(buffer) -> Bytes]
  BY <1>1, <1>2 DEF Filled
<1> QED
  BY <1>1, <1>3

\* A response that is set up for an error is still one.
LEMMA SetUpTyped ==
  ASSUME NEW C, NEW T, NEW B, NEW resp \in [code : C, type : T, body : B],
         NEW code \in C, Page(code) \in B
  PROVE  SetUp(resp, code) \in [code : C, type : T, body : B]
  BY ZenonT(30) DEF SetUp

\* The responses that are made from nothing.
LEMMA FreshTyped ==
  /\ Default \in Responses
  /\ \A code \in {404, 405} : SetUp(Default, code) \in Responses
<1>1. PICK none \in Seq(Bytes) : none = <<>>
  BY EmptySeq
<1>2. Default \in Responses
  BY <1>1 DEF Default, Responses
<1>3. ASSUME NEW code \in {404, 405} PROVE SetUp(Default, code) \in Responses
  <2>1. Page(code) \in Seq(Bytes)
    <3>1. Page(404) \in Seq(Bytes) /\ Page(405) \in Seq(Bytes)
      BY StaticFileAssumption
    <3> QED
      BY <1>3, <3>1
  <2> DEFINE C == {200, 404, 405}
             T == Types \cup {NoType}
             B == Seq(Bytes)
  <2>2. code \in C /\ Page(code) \in B /\ Default \in [code : C, type : T, body : B]
    BY <1>2, <1>3, <2>1 DEF Responses
  <2> HIDE DEF C, T, B
  <2>3. SetUp(Default, code) \in [code : C, type : T, body : B]
    BY <2>2, SetUpTyped
  <2> QED
    BY <2>3 DEF Responses, C, T, B
<1> QED
  BY <1>2, <1>3

\* An idle thread, and one that has answered, have the type of a job.
LEMMA IdleTyped ==
  /\ Idle \in Jobs
  /\ \A r \in Responses : [Idle EXCEPT !.at = "answered", !.resp = r] \in Jobs
<1>1. AnyPath \in Paths
  BY StaticFileAssumption DEF AnyPath
<1>2. Idle \in Jobs
  BY <1>1, FreshTyped DEF Idle, Jobs, Handlers, Methods, Objects
<1> HIDE DEF Idle
<1>3. ASSUME NEW r \in Responses
      PROVE  [Idle EXCEPT !.at = "answered", !.resp = r] \in Jobs
  BY <1>2 DEF Jobs
<1> QED
  BY <1>2, <1>3

\* A response stays one when the handler fills it in.
LEMMA SetTyped ==
  ASSUME NEW j \in Jobs, NEW p \in Paths, NEW body \in Seq(Bytes)
  PROVE  /\ [j EXCEPT !.at = "measure", !.path = p, !.resp.type = TypeOf[p]] \in Jobs
         /\ [j EXCEPT !.at = "measure", !.resp.type = TypeOf[p]] \in Jobs
         /\ [j EXCEPT !.at = "open", !.resp.body = body] \in Jobs
         /\ [j.resp EXCEPT !.body = body] \in Responses
<1>1. j.resp \in Responses /\ TypeOf[p] \in Types
  BY StaticFileAssumption DEF Jobs
<1>2. /\ [j.resp EXCEPT !.type = TypeOf[p]] \in Responses
      /\ [j.resp EXCEPT !.body = body] \in Responses
  BY <1>1 DEF Responses
<1>3. \A r \in Responses :
        /\ [j EXCEPT !.at = "measure", !.path = p, !.resp = r] \in Jobs
        /\ [j EXCEPT !.at = "measure", !.resp = r] \in Jobs
        /\ [j EXCEPT !.at = "open", !.resp = r] \in Jobs
  BY DEF Jobs
<1>4. /\ [j EXCEPT !.at = "measure", !.path = p, !.resp.type = TypeOf[p]]
           = [j EXCEPT !.at = "measure", !.path = p, !.resp = [j.resp EXCEPT !.type = TypeOf[p]]]
      /\ [j EXCEPT !.at = "measure", !.resp.type = TypeOf[p]]
           = [j EXCEPT !.at = "measure", !.resp = [j.resp EXCEPT !.type = TypeOf[p]]]
      /\ [j EXCEPT !.at = "open", !.resp.body = body]
           = [j EXCEPT !.at = "open", !.resp = [j.resp EXCEPT !.body = body]]
  BY DEF Jobs
<1> QED
  BY <1>2, <1>3, <1>4

LEMMA BodySetTyped ==
  \A j \in Jobs, body \in Seq(Bytes) : [j EXCEPT !.at = "open", !.resp.body = body] \in Jobs
<1>1. ASSUME NEW j \in Jobs, NEW body \in Seq(Bytes)
      PROVE  [j EXCEPT !.at = "open", !.resp.body = body] \in Jobs
  <2>1. j.path \in Paths
    BY DEF Jobs
  <2> QED
    BY <2>1, SetTyped
<1> QED
  BY <1>1

\* The history has its types whatever step is watched.
LEMMA WatchTyped ==
  ASSUME TypeOK, Watch, content' \in [Files -> Texts]
  PROVE  versions' \in [Threads -> SUBSET Texts] /\ hindered' \in [Threads -> BOOLEAN]
<1>1. \A t \in Threads : Seen(t)' \subseteq Texts
  BY DEF Seen
<1>2. ASSUME NEW t \in Threads
      PROVE  (IF job'[t].at \in {"open", "read"} THEN versions[t] \cup Seen(t)' ELSE {})
               \in SUBSET Texts
  BY <1>1 DEF TypeOK
<1>3. versions' \in [Threads -> SUBSET Texts]
  BY <1>2 DEF Watch
<1>4. ASSUME NEW t \in Threads
      PROVE  (CASE job'[t].at \in {"check", "measure", "open"} ->
                     Hindrance(t)' \/ (hindered[t] /\ job'[t].path = job[t].path)
                [] job'[t].at = "read" -> hindered[t]
                [] OTHER -> FALSE) \in BOOLEAN
  BY DEF TypeOK
<1>5. hindered' \in [Threads -> BOOLEAN]
  BY <1>4 DEF Watch
<1> QED
  BY <1>3, <1>5

\* What others do to a thread's request is seen by its history.
LEMMA SameJob ==
  ASSUME TypeOK, NEW t \in Threads, JobInv(t), job'[t] = job[t], Watch
  PROVE  JobInv(t)'
<1>1. job'[t].at \in {"check", "measure", "open"} /\ Hindrance(t)' => hindered'[t]
  BY DEF Watch
<1>2. job'[t].at = "read" /\ hindered[t] => hindered'[t]
  BY DEF Watch
<1>3. job'[t].at \in {"open", "read"} =>
        Seen(t)' \subseteq versions'[t] /\ versions[t] \subseteq versions'[t]
  BY DEF Watch
<1>4. job'[t].at = "read" /\ job'[t].fd \notin Files => hindered'[t]
  BY <1>2 DEF JobInv
<1>5. ASSUME job'[t].at \in {"open", "read"}
      PROVE  \E measured \in versions'[t] : job'[t].resp.body = Zeros(Len(measured))
  <2>1. PICK measured \in versions[t] : job[t].resp.body = Zeros(Len(measured))
    BY <1>5 DEF JobInv
  <2> QED
    BY <1>3, <1>5, <2>1
<1> QED
  BY <1>1, <1>3, <1>4, <1>5 DEF JobInv

\* A step of one thread keeps the invariant if it does for that thread.
LEMMA StepInv ==
  ASSUME IInv, NEW t \in Threads, NEW j \in Jobs, Goes(t, j), UNCHANGED world, Watch,
         files' \in Nat, sockets + files' =< FdLimit, JobInv(t)'
  PROVE  IInv'
<1>1. job' \in [Threads -> Jobs] /\ \A u \in Threads \ {t} : job'[u] = job[u]
  BY DEF Goes, IInv, TypeOK
<1>2. TypeOK'
  BY <1>1, WatchTyped DEF IInv, TypeOK, world
<1>3. \A u \in Threads : JobInv(u)'
  BY <1>1, SameJob DEF IInv
<1> QED
  BY <1>2, <1>3 DEF IInv
------------------------------------------------------------------------------
\* A request that is answered is done with.
LEMMA ReturnsInv ==
  ASSUME IInv, NEW t \in Threads, NEW r \in Responses, Returns(t, r), UNCHANGED world,
         Watch, files' = files
  PROVE  IInv'
<1> DEFINE j == [Idle EXCEPT !.at = "answered", !.resp = r]
<1>1. j \in Jobs /\ Goes(t, j)
  BY IdleTyped DEF Returns
<1>2. job'[t].at = "answered"
  BY <1>1 DEF Goes, IInv, TypeOK, Idle
<1>3. JobInv(t)'
  BY <1>2 DEF JobInv
<1> QED
  BY <1>1, <1>3, StepInv DEF IInv, TypeOK

LEMMA ThrowInv ==
  ASSUME IInv, NEW t \in Threads, NEW code \in {404, 405}, Throw(t, code), UNCHANGED world,
         Watch, files' = files
  PROVE  IInv'
  BY FreshTyped, ReturnsInv DEF Throw

LEMMA BeginInv ==
  ASSUME IInv, NEW t \in Threads, NEW req \in Requests, Begin(t, req)
  PROVE  IInv'
<1> DEFINE j == [Idle EXCEPT !.at = "handle", !.handler = req.handler,
                             !.method = req.method, !.path = req.path]
<1>1. /\ req.handler \in Handlers /\ req.method \in Methods /\ req.path \in Paths
      /\ req.handler = "dir" => req.path \in DOMAIN IndexOf
  BY StaticFileAssumption
<1>2. j \in Jobs /\ Goes(t, j)
  BY <1>1, IdleTyped DEF Begin, Jobs, Idle
<1>3. job'[t] = j
  BY <1>2 DEF Goes, IInv, TypeOK
<1>4. JobInv(t)'
  BY <1>1, <1>3 DEF JobInv, Idle
<1> QED
  BY <1>2, <1>4, StepInv DEF Begin, IInv, TypeOK

LEMMA HandleInv ==
  ASSUME IInv, NEW t \in Threads, Handle(t)
  PROVE  IInv'
<1>1. job[t] \in Jobs /\ JobInv(t) /\ job[t].at = "handle" /\ job[t].resp = Default
  BY DEF Handle, Overridden, IInv, TypeOK, JobInv
<1>2. CASE Throw(t, 404) \/ Throw(t, 405)
  BY <1>2, ThrowInv DEF Handle, Overridden
<1>3. CASE job[t].handler = "path" /\ job[t].method = "GET"
  <2> DEFINE j == [job[t] EXCEPT !.at = "measure", !.resp.type = TypeOf[job[t].path]]
  <2>1. j \in Jobs /\ Goes(t, j) /\ j.at = "measure"
    <3>1. job[t].path \in Paths
      BY <1>1 DEF Jobs
    <3>2. j \in Jobs
      BY <1>1, <3>1, EmptySeq, SetTyped
    <3> QED
      BY <1>1, <1>3, <3>2 DEF Handle, Overridden, Jobs
  <2>2. job'[t] = j
    BY <2>1 DEF Goes, IInv, TypeOK
  <2>3. j.resp.type = TypeOf[j.path] /\ j.resp.code = 200
    BY <1>1 DEF Jobs, Responses, Default
  <2>4. Hindrance(t)' => hindered'[t]
    BY <2>1, <2>2 DEF Handle, Overridden, Watch
  <2>5. JobInv(t)'
    BY <2>1, <2>2, <2>3, <2>4 DEF JobInv
  <2> QED
    BY <2>1, <2>5, StepInv DEF Handle, Overridden, IInv, TypeOK
<1>4. CASE job[t].handler = "dir" /\ job[t].method = "GET"
  <2> DEFINE j == [job[t] EXCEPT !.at = "check"]
  <2>1. j \in Jobs /\ Goes(t, j)
    BY <1>1, <1>4 DEF Handle, Overridden, Jobs
  <2>2. /\ job'[t] = j /\ j.at = "check" /\ j.handler = "dir" /\ j.resp = Default
        /\ j.path \in DOMAIN IndexOf
    BY <1>1, <1>4, <2>1 DEF Goes, IInv, TypeOK, Jobs, JobInv
  <2>3. Hindrance(t)' => hindered'[t]
    BY <2>2 DEF Handle, Overridden, Watch
  <2>4. JobInv(t)'
    BY <2>2, <2>3 DEF JobInv
  <2> QED
    BY <2>1, <2>4, StepInv DEF Handle, Overridden, IInv, TypeOK
<1>5. job[t].handler \in Handlers
  BY <1>1 DEF Jobs
<1> QED
  BY <1>2, <1>3, <1>4, <1>5 DEF Handle, Overridden, Handlers

LEMMA IsDirectoryInv ==
  ASSUME IInv, NEW t \in Threads, IsDirectory(t)
  PROVE  IInv'
<1> DEFINE path == IF entry[job[t].path] = Directory THEN IndexOf[job[t].path] ELSE job[t].path
           j == [job[t] EXCEPT !.at = "measure", !.path = path, !.resp.type = TypeOf[path]]
<1>1. /\ job[t] \in Jobs /\ job[t].at = "check" /\ job[t].resp = Default
      /\ job[t].path \in DOMAIN IndexOf
  BY DEF IsDirectory, IInv, TypeOK, JobInv
<1>2. CASE Throw(t, 404)
  BY <1>2, ThrowInv DEF IsDirectory
<1>3. CASE Goes(t, j)
  <2>1. path \in Paths
    BY <1>1, StaticFileAssumption DEF Jobs
  <2>2. j \in Jobs
    BY <1>1, <2>1, EmptySeq, SetTyped
  <2>3. job'[t] = j
    BY <1>3 DEF Goes, IInv, TypeOK
  <2>4. j.at = "measure" /\ j.resp.type = TypeOf[j.path] /\ j.resp.code = 200
    BY <1>1 DEF Jobs, Responses, Default
  <2>5. Hindrance(t)' => hindered'[t]
    BY <2>3, <2>4 DEF IsDirectory, Watch
  <2>6. JobInv(t)'
    BY <2>3, <2>4, <2>5 DEF JobInv
  <2> QED
    BY <1>3, <2>2, <2>6, StepInv DEF IsDirectory, IInv, TypeOK
<1> QED
  BY <1>2, <1>3 DEF IsDirectory

LEMMA FileSizeInv ==
  ASSUME IInv, NEW t \in Threads, FileSize(t)
  PROVE  IInv'
<1> DEFINE object == entry[job[t].path]
           body == BodyFor(content[object])
           j == [job[t] EXCEPT !.at = "open", !.resp.body = body]
<1>1. /\ job[t] \in Jobs /\ job[t].at = "measure"
      /\ job[t].resp.type = TypeOf[job[t].path] /\ job[t].resp.code = 200
      /\ Watch /\ UNCHANGED <<entry, content, sockets, files>>
  BY DEF FileSize, world, IInv, TypeOK, JobInv
<1>2. CASE object \notin Files
  BY <1>2, ThrowInv DEF FileSize
<1>3. CASE object \in Files
  <2>1. content[object] \in Texts /\ content[object] \in Seq(Bytes)
    BY <1>3, StaticFileAssumption DEF IInv, TypeOK
  <2>2. body \in Seq(Bytes)
    BY <2>1, ZerosTyped, LenProperties DEF BodyFor
  <2>3. j \in Jobs
    BY <1>1, <2>2, BodySetTyped
  <2>4. Goes(t, j)
    BY <1>3 DEF FileSize
  <2>5. job'[t] = j
    BY <2>4 DEF Goes, IInv, TypeOK
  <2>6. /\ j.at = "open" /\ j.path = job[t].path /\ j.resp.type = TypeOf[j.path]
        /\ j.resp.code = 200 /\ j.resp.body = body
    BY <1>1 DEF Jobs, Responses
  <2>7. Seen(t)' = {content[object]}
    BY <1>1, <1>3, <2>5, <2>6 DEF Seen
  <2>8. Seen(t)' \subseteq versions'[t] /\ (Hindrance(t)' => hindered'[t])
    BY <1>1, <2>5, <2>6 DEF Watch
  <2>9. JobInv(t)'
    BY <2>5, <2>6, <2>7, <2>8 DEF JobInv, BodyFor
  <2> QED
    BY <1>1, <2>3, <2>4, <2>9, StepInv DEF world, IInv, TypeOK
<1> QED
  BY <1>2, <1>3

LEMMA OpenFileInv ==
  ASSUME IInv, NEW t \in Threads, OpenFile(t)
  PROVE  IInv'
<1> DEFINE object == entry[job[t].path]
           j == [job[t] EXCEPT !.at = "read", !.fd = object]
<1>1. /\ job[t] \in Jobs /\ job[t].at = "open" /\ JobInv(t)
      /\ object \in Objects /\ files \in Nat /\ sockets \in Nat
      /\ Watch /\ UNCHANGED <<entry, content, sockets>>
  BY DEF OpenFile, OpensIf, world, IInv, TypeOK, Jobs
<1>2. CASE ~CanOpen(object)
  <2>1. files' = files /\ Throw(t, 404)
    BY <1>1, <1>2 DEF OpenFile, OpensIf
  <2> QED
    BY <2>1, ThrowInv DEF OpenFile, OpensIf
<1>3. CASE CanOpen(object)
  <2>1. files' = files + 1 /\ Goes(t, j) /\ sockets + files < FdLimit
    BY <1>3 DEF OpenFile, OpensIf, CanOpen
  <2>2. j \in Jobs
    BY <1>1 DEF Jobs
  <2>3. job'[t] = j
    BY <2>1 DEF Goes, IInv, TypeOK
  <2>4. /\ j.at = "read" /\ j.fd = object /\ j.path = job[t].path /\ j.resp = job[t].resp
    BY <1>1 DEF Jobs
  <2>5. Seen(t)' = Seen(t)
    BY <1>1, <2>3, <2>4 DEF Seen
  <2>6. versions'[t] = versions[t] \cup Seen(t)'
    BY <1>1, <2>3, <2>4 DEF Watch
  <2>7. hindered[t] => hindered'[t]
    BY <1>1, <2>3, <2>4 DEF Watch
  <2>8. j.fd \notin Files => hindered'[t]
    BY <1>1, <2>4, <2>7 DEF JobInv, Hindrance
  <2>9. \E measured \in versions'[t] : j.resp.body = Zeros(Len(measured))
    BY <1>1, <2>4, <2>6 DEF JobInv
  <2>10. j.resp.type = TypeOf[j.path] /\ j.resp.code = 200
    BY <1>1, <2>4 DEF JobInv
  <2>11. JobInv(t)'
    BY <2>3, <2>4, <2>6, <2>8, <2>9, <2>10 DEF JobInv
  <2>12. files' \in Nat /\ sockets + files' =< FdLimit
    BY <1>1, <2>1, StaticFileAssumption
  <2> QED
    BY <1>1, <2>1, <2>2, <2>11, <2>12, StepInv DEF world
<1> QED
  BY <1>2, <1>3

LEMMA ReadFileInv ==
  ASSUME IInv, NEW t \in Threads, ReadFile(t)
  PROVE  IInv'
<1> DEFINE r == [job[t].resp EXCEPT !.body = Filled(@, content[job[t].fd])]
<1>1. job[t] \in Jobs /\ job[t].resp.body \in Seq(Bytes) /\ job[t].path \in Paths
  BY DEF IInv, TypeOK, Jobs, Responses
<1>2. files' = files
  BY DEF ReadFile, ReadsAndCloses, IInv, TypeOK
<1>3. CASE job[t].fd \notin Files
  BY <1>2, <1>3, ThrowInv DEF ReadFile, ReadsAndCloses
<1>4. CASE job[t].fd \in Files
  <2>1. content[job[t].fd] \in Seq(Bytes)
    BY <1>4, StaticFileAssumption DEF IInv, TypeOK
  <2>2. r \in Responses
    BY <1>1, <2>1, FilledTyped, SetTyped
  <2> QED
    BY <1>2, <1>4, <2>2, ReturnsInv DEF ReadFile, ReadsAndCloses
<1> QED
  BY <1>3, <1>4

LEMMA FinishInv ==
  ASSUME IInv, NEW t \in Threads, Finish(t)
  PROVE  IInv'
<1>1. Idle \in Jobs /\ Goes(t, Idle)
  BY IdleTyped DEF Finish
<1>2. job'[t].at = "idle"
  BY <1>1 DEF Goes, IInv, TypeOK, Idle
<1>3. JobInv(t)'
  BY <1>2 DEF JobInv
<1> QED
  BY <1>1, <1>3, StepInv DEF Finish, IInv, TypeOK

\* The world changes nothing but what the history sees.
LEMMA WorldInv ==
  ASSUME IInv, World
  PROVE  IInv'
<1>1. job' = job /\ files' = files /\ Watch
  BY DEF World, Relink, Rewrite, Connect, Disconnect
<1>2. /\ entry' \in [Paths -> Objects] /\ content' \in [Files -> Texts]
      /\ sockets' \in Nat /\ sockets' + files =< FdLimit
  <2>1. ASSUME NEW p \in Paths, NEW object \in Objects, Relink(p, object)
        PROVE  entry' \in [Paths -> Objects] /\ content' = content /\ sockets' = sockets
    BY <2>1 DEF Relink, IInv, TypeOK
  <2>2. ASSUME NEW f \in Files, NEW text \in Texts, Rewrite(f, text)
        PROVE  content' \in [Files -> Texts] /\ entry' = entry /\ sockets' = sockets
    BY <2>2 DEF Rewrite, IInv, TypeOK
  <2>3. CASE Connect \/ Disconnect
    <3>1. FdLimit \in Nat
      BY StaticFileAssumption
    <3> QED
      BY <2>3, <3>1 DEF Connect, Disconnect, IInv, TypeOK
  <2> QED
    BY <2>1, <2>2, <2>3 DEF World, IInv, TypeOK
<1>3. TypeOK'
  BY <1>1, <1>2, WatchTyped DEF IInv, TypeOK
<1>4. \A t \in Threads : JobInv(t)'
  BY <1>1, SameJob DEF IInv
<1> QED
  BY <1>3, <1>4 DEF IInv

LEMMA InitInv == Init => IInv
<1> SUFFICES ASSUME Init PROVE IInv
  OBVIOUS
<1>1. AnyText \in Texts
  BY StaticFileAssumption DEF AnyText
<1>2. TypeOK
  <2>1. /\ entry \in [Paths -> Objects] /\ content \in [Files -> Texts]
        /\ sockets \in Nat /\ files \in Nat /\ sockets + files =< FdLimit
    BY <1>1, StaticFileAssumption DEF Init
  <2>2. job \in [Threads -> Jobs]
    BY IdleTyped DEF Init
  <2>3. versions \in [Threads -> SUBSET Texts] /\ hindered \in [Threads -> BOOLEAN]
    BY DEF Init
  <2> QED
    BY <2>1, <2>2, <2>3 DEF TypeOK
<1>3. \A t \in Threads : JobInv(t)
  BY DEF Init, JobInv, Idle
<1> QED
  BY <1>2, <1>3 DEF IInv

LEMMA NextInv == IInv /\ [Next]_vars => IInv'
<1> SUFFICES ASSUME IInv, [Next]_vars PROVE IInv'
  OBVIOUS
<1>1. CASE World
  BY <1>1, WorldInv
<1>2. ASSUME NEW t \in Threads, Step(t) PROVE IInv'
  BY <1>2, BeginInv, HandleInv, IsDirectoryInv, FileSizeInv, OpenFileInv, ReadFileInv,
     FinishInv DEF Step
<1>3. CASE UNCHANGED vars
  BY <1>3 DEF vars, IInv, TypeOK, JobInv, Seen, Hindrance
<1> QED
  BY <1>1, <1>2, <1>3 DEF Next

LEMMA Inductive == Spec => []IInv
  BY InitInv, NextInv, PTL DEF Spec

------------------------------------------------------------------------------
(***************************************************************************)
(* The variables keep their types, and open descriptors their limit.       *)
(***************************************************************************)
THEOREM TypeCorrect == Spec => []TypeOK
<1>1. IInv => TypeOK
  BY DEF IInv
<1> QED
  BY <1>1, Inductive, PTL

(***************************************************************************)
(* Whatever a thread answers, a client reads it back: its body is one that *)
(* EveryReplyReadsBack speaks of, whatever the files hold.                 *)
(***************************************************************************)
THEOREM RepliesReadable == Spec => []RepliesReadBack
<1>1. TypeOK => RepliesReadBack
  <2> SUFFICES ASSUME TypeOK, NEW t \in Threads PROVE ReadBack(job[t].resp)
    BY DEF RepliesReadBack
  <2>1. job[t].resp \in Replies(Bytes, Types)
    BY DEF TypeOK, Jobs, Responses, Replies
  <2>2. CRLF \notin Types
    BY StaticFileAssumption
  <2> QED
    BY <2>1, <2>2, EveryReplyReadsBack
<1> QED
  BY <1>1, TypeCorrect, PTL

(***************************************************************************)
(* How a request can be answered.                                          *)
(***************************************************************************)
ServesFile(t) ==
  /\ job[t].at = "read" /\ job[t].fd \in Files
  /\ job'[t].resp = [job[t].resp EXCEPT !.body = Filled(@, content[job[t].fd])]

RefusesFile(t) ==
  /\ job[t].handler = "404" \/ hindered[t]
  /\ job'[t].resp = SetUp(Default, 404)

RefusesMethod(t) == job'[t].resp = SetUp(Default, 405)

\* What is thrown becomes the reply.
LEMMA ThrowAnswers ==
  ASSUME TypeOK, NEW t \in Threads, NEW code \in {404, 405}, Throw(t, code)
  PROVE  job'[t].resp = SetUp(Default, code)
<1>1. job'[t] = [Idle EXCEPT !.at = "answered", !.resp = SetUp(Default, code)]
  BY DEF Throw, Returns, Goes, TypeOK
<1> QED
  BY <1>1 DEF Idle

\* A step of one thread leaves the others' requests alone.
LEMMA OthersSame ==
  ASSUME TypeOK, NEW u \in Threads, Step(u), NEW t \in Threads \ {u}
  PROVE  job'[t] = job[t]
<1>1. \A j : Goes(u, j) => job'[t] = job[t]
  BY DEF Goes, TypeOK
<1>2. \A code : Throw(u, code) => job'[t] = job[t]
  BY <1>1 DEF Throw, Returns
<1>3. \A req \in Requests : Begin(u, req) => job'[t] = job[t]
  BY <1>1 DEF Begin
<1>4. Handle(u) => job'[t] = job[t]
  <2>1. Handle(u) => \/ Throw(u, 404) \/ Throw(u, 405) \/ job[u].handler \notin Handlers
                     \/ Goes(u, [job[u] EXCEPT !.at = "measure",
                                               !.resp.type = TypeOf[job[u].path]])
                     \/ Goes(u, [job[u] EXCEPT !.at = "check"])
    BY DEF Handle, Overridden, Handlers
  <2>2. job[u].handler \in Handlers
    BY DEF TypeOK, Jobs
  <2> QED
    BY <1>1, <1>2, <2>1, <2>2
<1>5. IsDirectory(u) => job'[t] = job[t]
  BY <1>1, <1>2 DEF IsDirectory
<1>6. FileSize(u) => job'[t] = job[t]
  BY <1>1, <1>2 DEF FileSize
<1>7. OpenFile(u) => job'[t] = job[t]
  BY <1>1, <1>2 DEF OpenFile, OpensIf
<1>8. ReadFile(u) => job'[t] = job[t]
  BY <1>1, <1>2 DEF ReadFile, ReadsAndCloses, Returns
<1>9. Finish(u) => job'[t] = job[t]
  BY <1>1 DEF Finish
<1> QED
  BY <1>3, <1>4, <1>5, <1>6, <1>7, <1>8, <1>9 DEF Step

\* A request is answered in one of these ways.
LEMMA Answering ==
  ASSUME IInv, [Next]_vars, NEW t \in Threads, Answers(t)
  PROVE  ServesFile(t) \/ RefusesFile(t) \/ RefusesMethod(t)
<1>1. job' # job /\ ~World
  BY DEF Answers, World, Relink, Rewrite, Connect, Disconnect
<1>2. PICK u \in Threads : Step(u)
  BY <1>1 DEF Next, vars
<1>3. u = t
  BY <1>2, OthersSame DEF Answers, IInv
<1>4. /\ job[t] \in Jobs /\ JobInv(t) /\ job[t].at # "answered" /\ job'[t].at = "answered"
      /\ \A j : Goes(t, j) => job'[t] = j
  BY DEF Goes, Answers, IInv, TypeOK
<1>5. ASSUME NEW req \in Requests, Begin(t, req) PROVE FALSE
  BY <1>4, <1>5, IdleTyped DEF Begin, Idle
<1>6. CASE Handle(t)
  <2>1. CASE Throw(t, 404) /\ job[t].handler = "404"
    BY <2>1, ThrowAnswers DEF RefusesFile, IInv
  <2>2. CASE Throw(t, 405)
    BY <2>2, ThrowAnswers DEF RefusesMethod, IInv
  <2>3. ASSUME Goes(t, [job[t] EXCEPT !.at = "measure", !.resp.type = TypeOf[job[t].path]])
        PROVE  FALSE
    BY <1>4, <2>3 DEF Jobs
  <2>4. ASSUME Goes(t, [job[t] EXCEPT !.at = "check"]) PROVE FALSE
    BY <1>4, <2>4 DEF Jobs
  <2>5. job[t].handler = "404" \/ job[t].handler = "path" \/ job[t].handler = "dir"
    BY <1>4 DEF Jobs, Handlers
  <2>6. \/ Throw(t, 404) /\ job[t].handler = "404"
        \/ Throw(t, 405)
        \/ Goes(t, [job[t] EXCEPT !.at = "measure", !.resp.type = TypeOf[job[t].path]])
        \/ Goes(t, [job[t] EXCEPT !.at = "check"])
    BY <1>6, <2>5 DEF Handle
  <2> QED
    BY <2>1, <2>2, <2>3, <2>4, <2>6
<1>7. CASE IsDirectory(t)
  <2>1. job[t].at = "check" /\ entry[job[t].path] = Missing /\ Throw(t, 404)
    BY <1>4, <1>7 DEF IsDirectory, Jobs
  <2>2. hindered[t]
    BY <1>4, <2>1, StaticFileAssumption DEF JobInv, Hindrance
  <2> QED
    BY <2>1, <2>2, ThrowAnswers DEF RefusesFile, IInv
<1>8. CASE FileSize(t)
  <2>1. job[t].at = "measure" /\ entry[job[t].path] \notin Files /\ Throw(t, 404)
    BY <1>4, <1>8 DEF FileSize, Jobs
  <2>2. hindered[t]
    BY <1>4, <2>1 DEF JobInv, Hindrance
  <2> QED
    BY <2>1, <2>2, ThrowAnswers DEF RefusesFile, IInv
<1>9. CASE OpenFile(t)
  <2>1. job[t].at = "open" /\ ~CanOpen(entry[job[t].path]) /\ Throw(t, 404)
    BY <1>4, <1>9 DEF OpenFile, OpensIf, Jobs
  <2>2. hindered[t]
    <3>1. Hindrance(t)
      BY <2>1, StaticFileAssumption DEF CanOpen, Hindrance, IInv, TypeOK
    <3> QED
      BY <1>4, <2>1, <3>1 DEF JobInv
  <2> QED
    BY <2>1, <2>2, ThrowAnswers DEF RefusesFile, IInv
<1>10. CASE ReadFile(t)
  <2>1. CASE job[t].fd \in Files
    <3>1. job'[t] = [Idle EXCEPT !.at = "answered",
                       !.resp = [job[t].resp EXCEPT !.body = Filled(@, content[job[t].fd])]]
      BY <1>4, <1>10, <2>1 DEF ReadFile, ReadsAndCloses, Returns
    <3> QED
      BY <1>10, <2>1, <3>1 DEF ReadFile, ReadsAndCloses, Idle, ServesFile
  <2>2. CASE job[t].fd \notin Files
    <3>1. hindered[t] /\ Throw(t, 404)
      BY <1>4, <1>10, <2>2 DEF ReadFile, ReadsAndCloses, JobInv
    <3> QED
      BY <3>1, ThrowAnswers DEF RefusesFile, IInv
  <2> QED
    BY <2>1, <2>2
<1>11. ASSUME Finish(t) PROVE FALSE
  BY <1>4, <1>11 DEF Finish
<1> QED
  BY <1>2, <1>3, <1>5, <1>6, <1>7, <1>8, <1>9, <1>10, <1>11 DEF Step

\* The three kinds of answers have these statuses.
LEMMA AnswerCodes ==
  ASSUME IInv, NEW t \in Threads
  PROVE  /\ ServesFile(t) => /\ job'[t].resp.code = 200
                              /\ job'[t].resp.type = TypeOf[job[t].path]
         /\ RefusesFile(t) => job'[t].resp.code = 404
         /\ RefusesMethod(t) => job'[t].resp.code = 405
<1>1. \A code : SetUp(Default, code).code = code
  BY DEF SetUp, Default
<1>2. ASSUME ServesFile(t)
      PROVE  job'[t].resp.code = 200 /\ job'[t].resp.type = TypeOf[job[t].path]
  <2>1. /\ job[t].resp \in Responses /\ job[t].resp.code = 200
        /\ job[t].resp.type = TypeOf[job[t].path]
    BY <1>2 DEF ServesFile, IInv, TypeOK, Jobs, JobInv
  <2> QED
    BY <1>2, <2>1 DEF ServesFile, Responses
<1> QED
  BY <1>1, <1>2 DEF RefusesFile, RefusesMethod

(***************************************************************************)
(* A body is one version of the file, fitted to the length of another.     *)
(***************************************************************************)
LEMMA BodyStep ==
  ASSUME IInv, [Next]_vars, NEW t \in Threads, Serves(t)
  PROVE  \E text, measured \in versions[t] :
           job'[t].resp.body = Filled(Zeros(Len(measured)), text)
<1>1. ServesFile(t)
  BY Answering, AnswerCodes DEF Serves
<1>2. PICK measured \in versions[t] : job[t].resp.body = Zeros(Len(measured))
  BY <1>1 DEF ServesFile, IInv, JobInv
<1>3. content[job[t].fd] \in versions[t]
  BY <1>1 DEF ServesFile, IInv, JobInv, Seen
<1>4. job'[t].resp.body = Filled(job[t].resp.body, content[job[t].fd])
  BY <1>1 DEF ServesFile, IInv, TypeOK, Jobs, Responses
<1> QED
  BY <1>2, <1>3, <1>4

THEOREM BodiesAreVersions == Spec => BodyIsOneVersion
<1>1. IInv /\ [Next]_vars =>
        \A t \in Threads : Serves(t) =>
          \E text, measured \in versions[t] :
            job'[t].resp.body = Filled(Zeros(Len(measured)), text)
  BY BodyStep
<1> QED
  BY <1>1, Inductive, PTL DEF Spec, BodyIsOneVersion

(***************************************************************************)
(* A matched GET is answered 404 only for a cause.                         *)
(***************************************************************************)
THEOREM CausesOf404 == Spec => NotFoundHasCause
<1>1. IInv /\ [Next]_vars =>
        \A t \in Threads :
          Answers(t) /\ job'[t].resp.code = 404 => job[t].handler = "404" \/ hindered[t]
  BY Answering, AnswerCodes DEF RefusesFile
<1> QED
  BY <1>1, Inductive, PTL DEF Spec, NotFoundHasCause

(***************************************************************************)
(* An error reply is made afresh; a served file has its own type.          *)
(***************************************************************************)
THEOREM CleanErrors == Spec => ErrorsAreClean
<1>1. IInv /\ [Next]_vars =>
        \A t \in Threads : Answers(t) =>
          IF Serves(t) THEN job'[t].resp.type = TypeOf[job[t].path]
                       ELSE job'[t].resp = SetUp(Default, job'[t].resp.code)
  BY Answering, AnswerCodes DEF Serves, RefusesFile, RefusesMethod
<1> QED
  BY <1>1, Inductive, PTL DEF Spec, ErrorsAreClean

------------------------------------------------------------------------------
(***************************************************************************)
(* What Handling sees of the threads.                                      *)
(***************************************************************************)
PhaseOf(j) == IF j.at \in {"idle", "answered"} THEN j.at ELSE "busy"
CodeOf(j) == IF j.at = "answered" THEN j.resp.code ELSE 0
Phase == [t \in Threads |-> PhaseOf(job[t])]
Code == [t \in Threads |-> CodeOf(job[t])]
Left == files - Cardinality(Reading)

\* A step changes them at one thread.
LEMMA Abstracted ==
  ASSUME TypeOK, NEW t \in Threads, NEW j, Goes(t, j)
  PROVE  /\ Phase' = [Phase EXCEPT ![t] = PhaseOf(j)]
         /\ Code' = [Code EXCEPT ![t] = CodeOf(j)]
<1>1. job'[t] = j /\ \A u \in Threads \ {t} : job'[u] = job[u]
  BY DEF Goes, TypeOK
<1>2. \A u \in Threads : Phase'[u] = PhaseOf(job'[u]) /\ Code'[u] = CodeOf(job'[u])
  BY DEF Phase, Code, PhaseOf, CodeOf
<1>3. \A u \in Threads \ {t} : Phase'[u] = Phase[u] /\ Code'[u] = Code[u]
  BY <1>1 DEF Phase, Code, PhaseOf, CodeOf
<1> QED
  BY <1>1, <1>2, <1>3 DEF Phase, Code

\* The descriptors of files that are being read are in use, the others are left.
LEMMA Counted ==
  ASSUME TypeOK, NEW t \in Threads, NEW j, Goes(t, j)
  PROVE  /\ Cardinality(Reading) \in Nat
         /\ Cardinality(Reading)' =
              CASE j.at = "read" /\ job[t].at # "read" -> Cardinality(Reading) + 1
                [] j.at # "read" /\ job[t].at = "read" -> Cardinality(Reading) - 1
                [] OTHER -> Cardinality(Reading)
<1>1. job'[t] = j /\ \A u \in Threads \ {t} : job'[u] = job[u]
  BY DEF Goes, TypeOK
<1>2. IsFiniteSet(Reading)
  <2>1. Reading \subseteq Threads
    BY DEF Reading
  <2> QED
    BY <2>1, StaticFileAssumption, FS_Subset
<1>3. Cardinality(Reading) \in Nat
  BY <1>2, FS_CardinalityType
<1>4. CASE j.at = "read" /\ job[t].at # "read"
  <2>1. Reading' = Reading \cup {t} /\ t \notin Reading
    BY <1>1, <1>4 DEF Reading
  <2> QED
    BY <1>2, <1>3, <1>4, <2>1, FS_AddElement
<1>5. CASE j.at # "read" /\ job[t].at = "read"
  <2>1. Reading' = Reading \ {t} /\ t \in Reading
    BY <1>1, <1>5 DEF Reading
  <2> QED
    BY <1>2, <1>3, <1>5, <2>1, FS_RemoveElement
<1>6. CASE (j.at = "read") = (job[t].at = "read")
  <2>1. Reading' = Reading
    BY <1>1, <1>6 DEF Reading
  <2> QED
    BY <1>3, <1>6, <2>1
<1> QED
  BY <1>4, <1>5, <1>6

\* A call that does not answer yet is not seen.
LEMMA WorkHides ==
  ASSUME IInv, NEW t \in Threads, NEW j, Goes(t, j),
         PhaseOf(job[t]) = "busy", PhaseOf(j) = "busy", job[t].at # "read",
         files' = files + (IF j.at = "read" THEN 1 ELSE 0)
  PROVE  UNCHANGED <<Phase, Code, Left>>
<1>1. TypeOK
  BY DEF IInv
<1>2. /\ Phase' = [Phase EXCEPT ![t] = PhaseOf(j)]
      /\ Code' = [Code EXCEPT ![t] = CodeOf(j)]
  BY <1>1, Abstracted
<1>3. Phase[t] = "busy" /\ Code[t] = 0 /\ CodeOf(j) = 0
  BY DEF Phase, Code, PhaseOf, CodeOf
<1>4. Phase' = Phase /\ Code' = Code
  BY <1>2, <1>3 DEF Phase, Code
<1>5. Left' = Left
  BY <1>1, Counted DEF Left, TypeOK
<1> QED
  BY <1>4, <1>5

\* What answers is one of the outcomes.
LEMMA ReturnsRefines ==
  ASSUME IInv, NEW t \in Threads, NEW r \in Responses, Returns(t, r), PhaseOf(job[t]) = "busy",
         files' = files, UNCHANGED world,
         [code |-> r.code, opened |-> IF job[t].at = "read" THEN 1 ELSE 0] \in H!HandlerOutcomes
  PROVE  H!Answer(t)
<1> DEFINE j == [Idle EXCEPT !.at = "answered", !.resp = r]
           opened == IF job[t].at = "read" THEN 1 ELSE 0
<1>1. TypeOK /\ Goes(t, j)
  BY DEF IInv, Returns
<1>2. j.at = "answered" /\ j.resp = r
  BY DEF Idle
<1>3. /\ Phase' = [Phase EXCEPT ![t] = "answered"]
      /\ Code' = [Code EXCEPT ![t] = r.code]
  BY <1>1, <1>2, Abstracted DEF PhaseOf, CodeOf
<1>4. Phase[t] = "busy"
  BY DEF Phase
<1>5. /\ Cardinality(Reading) \in Nat
      /\ Cardinality(Reading)' = Cardinality(Reading) - opened
  <2>1. \A k : Goes(t, k) /\ k.at # "read" =>
          /\ Cardinality(Reading) \in Nat
          /\ job[t].at = "read" => Cardinality(Reading)' = Cardinality(Reading) - 1
          /\ job[t].at # "read" => Cardinality(Reading)' = Cardinality(Reading)
    BY <1>1, Counted
  <2>2. j.at # "read"
    BY <1>2
  <2>3. /\ Cardinality(Reading) \in Nat
        /\ job[t].at = "read" => Cardinality(Reading)' = Cardinality(Reading) - 1
        /\ job[t].at # "read" => Cardinality(Reading)' = Cardinality(Reading)
    BY <1>1, <2>1, <2>2
  <2> QED
    BY <2>3
<1>6. Cardinality(Reading)' \in Nat
  <2>1. Reading' \subseteq Threads
    BY DEF Reading
  <2> QED
    BY <2>1, StaticFileAssumption, FS_Subset, FS_CardinalityType
<1>7. Left' = Left + opened /\ Left + opened =< FdLimit
  <2>1. FdLimit \in Nat
    BY StaticFileAssumption
  <2> QED
    BY <1>1, <1>5, <1>6, <2>1 DEF Left, TypeOK
<1> QED
  BY <1>3, <1>4, <1>7 DEF H!Answer, Phase, Code, Left, PhaseOf, CodeOf

LEMMA ThrowRefines ==
  ASSUME IInv, NEW t \in Threads, NEW code \in {404, 405}, Throw(t, code),
         PhaseOf(job[t]) = "busy", files' = files, UNCHANGED world,
         job[t].at = "read" => code = 404
  PROVE  H!Answer(t)
<1>1. SetUp(Default, code) \in Responses
  BY FreshTyped
<1>2. SetUp(Default, code).code = code
  BY DEF SetUp, Default
<1>3. [code |-> code, opened |-> IF job[t].at = "read" THEN 1 ELSE 0] \in H!HandlerOutcomes
  BY DEF H!HandlerOutcomes
<1> QED
  BY <1>1, <1>2, <1>3, ReturnsRefines DEF Throw

\* Each call is a step of Handling or is not seen.
LEMMA StepRefines ==
  ASSUME IInv, NEW t \in Threads, Step(t)
  PROVE  H!Begin(t) \/ H!Answer(t) \/ H!Finish(t) \/ UNCHANGED <<Phase, Code, Left>>
<1>1. TypeOK /\ job[t] \in Jobs /\ files \in Nat /\ JobInv(t)
  BY DEF IInv, TypeOK
<1>2. ASSUME NEW req \in Requests, Begin(t, req) PROVE H!Begin(t)
  <2> DEFINE j == [Idle EXCEPT !.at = "handle", !.handler = req.handler,
                               !.method = req.method, !.path = req.path]
  <2>1. job[t].at = "idle" /\ Goes(t, j) /\ files' = files /\ j.at = "handle"
    BY <1>2 DEF Begin, Idle
  <2>2. Phase' = [Phase EXCEPT ![t] = "busy"] /\ Code' = [Code EXCEPT ![t] = 0]
    BY <1>1, <2>1, Abstracted DEF PhaseOf, CodeOf
  <2>3. Phase[t] = "idle" /\ Code[t] = 0
    BY <2>1 DEF Phase, Code, PhaseOf, CodeOf
  <2>4. Code' = Code
    BY <2>2, <2>3 DEF Code
  <2>5. Left' = Left
    BY <1>1, <2>1, Counted DEF Left
  <2> QED
    BY <2>2, <2>3, <2>4, <2>5 DEF H!Begin, Phase, Code, Left, PhaseOf, CodeOf
<1>3. CASE Handle(t)
  <2>1. /\ PhaseOf(job[t]) = "busy" /\ job[t].at # "read" /\ UNCHANGED world
        /\ files' = files /\ files' = files + 0
    BY <1>1, <1>3 DEF Handle, Overridden, PhaseOf
  <2>2. CASE Throw(t, 404) \/ Throw(t, 405)
    BY <2>1, <2>2, ThrowRefines
  <2>3. CASE Goes(t, [job[t] EXCEPT !.at = "measure", !.resp.type = TypeOf[job[t].path]])
    <3> DEFINE j == [job[t] EXCEPT !.at = "measure", !.resp.type = TypeOf[job[t].path]]
    <3>1. j.at = "measure"
      BY <1>1 DEF Jobs
    <3> QED
      BY <2>1, <2>3, <3>1, WorkHides DEF PhaseOf
  <2>4. CASE Goes(t, [job[t] EXCEPT !.at = "check"])
    <3> DEFINE j == [job[t] EXCEPT !.at = "check"]
    <3>1. j.at = "check"
      BY <1>1 DEF Jobs
    <3> QED
      BY <2>1, <2>4, <3>1, WorkHides DEF PhaseOf
  <2> QED
    BY <1>1, <1>3, <2>2, <2>3, <2>4 DEF Handle, Overridden, Jobs, Handlers
<1>4. CASE IsDirectory(t)
  <2> DEFINE path == IF entry[job[t].path] = Directory THEN IndexOf[job[t].path] ELSE job[t].path
             j == [job[t] EXCEPT !.at = "measure", !.path = path, !.resp.type = TypeOf[path]]
  <2>1. /\ PhaseOf(job[t]) = "busy" /\ job[t].at # "read" /\ UNCHANGED world
        /\ files' = files /\ files' = files + 0
    BY <1>1, <1>4 DEF IsDirectory, PhaseOf
  <2>2. j.at = "measure"
    BY <1>1 DEF Jobs
  <2>3. CASE Goes(t, j)
    BY <2>1, <2>2, <2>3, WorkHides DEF PhaseOf
  <2>4. CASE Throw(t, 404)
    BY <2>1, <2>4, ThrowRefines
  <2> QED
    BY <1>4, <2>3, <2>4 DEF IsDirectory
<1>5. CASE FileSize(t)
  <2> DEFINE j == [job[t] EXCEPT !.at = "open", !.resp.body = BodyFor(content[entry[job[t].path]])]
  <2>1. /\ PhaseOf(job[t]) = "busy" /\ job[t].at # "read" /\ UNCHANGED world
        /\ files' = files /\ files' = files + 0
    BY <1>1, <1>5 DEF FileSize, PhaseOf
  <2>2. j.at = "open"
    BY <1>1 DEF Jobs
  <2>3. CASE Goes(t, j)
    BY <2>1, <2>2, <2>3, WorkHides DEF PhaseOf
  <2>4. CASE Throw(t, 404)
    BY <2>1, <2>4, ThrowRefines
  <2> QED
    BY <1>5, <2>3, <2>4 DEF FileSize
<1>6. CASE OpenFile(t)
  <2> DEFINE j == [job[t] EXCEPT !.at = "read", !.fd = entry[job[t].path]]
  <2>1. PhaseOf(job[t]) = "busy" /\ job[t].at # "read" /\ UNCHANGED world
    BY <1>6 DEF OpenFile, OpensIf, PhaseOf
  <2>2. j.at = "read"
    BY <1>1 DEF Jobs
  <2>3. CASE Goes(t, j) /\ files' = files + 1
    BY <2>1, <2>2, <2>3, WorkHides DEF PhaseOf
  <2>4. CASE Throw(t, 404) /\ files' = files
    BY <2>1, <2>4, ThrowRefines
  <2> QED
    BY <1>1, <1>6, <2>3, <2>4 DEF OpenFile, OpensIf
<1>7. CASE ReadFile(t)
  <2>1. PhaseOf(job[t]) = "busy" /\ job[t].at = "read" /\ UNCHANGED world /\ files' = files
    BY <1>1, <1>7 DEF ReadFile, ReadsAndCloses, PhaseOf
  <2>2. CASE Throw(t, 404)
    BY <2>1, <2>2, ThrowRefines
  <2>3. CASE job[t].fd \in Files
    <3> DEFINE r == [job[t].resp EXCEPT !.body = Filled(@, content[job[t].fd])]
    <3>1. job[t].resp.body \in Seq(Bytes) /\ job[t].path \in Paths
      BY <1>1 DEF Jobs, Responses
    <3>2. content[job[t].fd] \in Seq(Bytes)
      BY <1>1, <2>3, StaticFileAssumption DEF TypeOK
    <3>3. r \in Responses
      BY <1>1, <3>1, <3>2, FilledTyped, SetTyped
    <3>4. r.code = 200
      BY <1>1, <2>1 DEF JobInv, Jobs, Responses
    <3>5. [code |-> r.code, opened |-> IF job[t].at = "read" THEN 1 ELSE 0] \in H!HandlerOutcomes
      BY <2>1, <3>4 DEF H!HandlerOutcomes
    <3>6. Returns(t, r)
      BY <1>7, <2>3 DEF ReadFile, ReadsAndCloses
    <3> QED
      BY <2>1, <3>3, <3>5, <3>6, ReturnsRefines
  <2> QED
    BY <1>7, <2>2, <2>3 DEF ReadFile, ReadsAndCloses
<1>8. CASE Finish(t)
  <2>1. job[t].at = "answered" /\ Goes(t, Idle) /\ files' = files /\ Idle.at = "idle"
    BY <1>8 DEF Finish, Idle
  <2>2. Phase' = [Phase EXCEPT ![t] = "idle"] /\ Code' = [Code EXCEPT ![t] = 0]
    BY <1>1, <2>1, Abstracted DEF PhaseOf, CodeOf
  <2>3. Phase[t] = "answered"
    BY <2>1 DEF Phase, PhaseOf
  <2>4. Left' = Left
    BY <1>1, <2>1, Counted DEF Left
  <2> QED
    BY <2>2, <2>3, <2>4 DEF H!Finish, Phase, Code, Left, PhaseOf, CodeOf
<1> QED
  BY <1>2, <1>3, <1>4, <1>5, <1>6, <1>7, <1>8 DEF Step

LEMMA InitRefines == Init => H!Init
<1> SUFFICES ASSUME Init PROVE H!Init
  OBVIOUS
<1>1. Reading = {}
  BY DEF Init, Reading, Idle
<1>2. Cardinality(Reading) = 0
  BY <1>1, FS_EmptySet
<1> QED
  BY <1>2 DEF Init, Idle, H!Init

LEMMA NextRefines == IInv /\ [Next]_vars => [H!Next]_(H!vars)
<1> SUFFICES ASSUME IInv, [Next]_vars PROVE [H!Next]_(H!vars)
  OBVIOUS
<1>1. UNCHANGED <<Phase, Code, Left>> => UNCHANGED H!vars
  BY DEF H!vars, Phase, Code, Left, PhaseOf, CodeOf
<1>2. CASE World \/ UNCHANGED vars
  <2>1. job' = job /\ files' = files
    BY <1>2 DEF World, Relink, Rewrite, Connect, Disconnect, vars
  <2> QED
    BY <1>1, <2>1 DEF Phase, Code, Left, Reading
<1>3. ASSUME NEW t \in Threads, Step(t) PROVE [H!Next]_(H!vars)
  BY <1>1, <1>3, StepRefines DEF H!Next
<1> QED
  BY <1>2, <1>3 DEF Next

(***************************************************************************)
(* However the calls of the threads and the changes of the files           *)
(* interleave, every request is answered as by a handler that does all its *)
(* work at once and comes to one of the outcomes module Worker knows.      *)
(***************************************************************************)
THEOREM HandlersAreAtomic == Spec => ImplementsHandling
<1>1. Spec => H!Spec
  BY InitRefines, NextRefines, Inductive, PTL DEF Spec, H!Spec
<1> QED
  BY <1>1 DEF ImplementsHandling
=============================================================================
