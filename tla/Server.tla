------------------------------- MODULE Server -------------------------------
(***************************************************************************)
(* Start-up of the program: main loads the configuration, the constructor  *)
(* of Server loads the mime table, builds the router and starts one thread *)
(* per worker, each thread binds and listens on its own, and main waits.   *)
(* What a worker does on its connections is module Worker; here it only    *)
(* routes, by the router it finds.                                         *)
(*                                                                         *)
(* The threads interleave with main and with each other; a failed check    *)
(* calls std::terminate, which ends all of them.                           *)
(***************************************************************************)
EXTENDS Integers, Sequences, Mime

CONSTANTS
  Texts,       \* the strings a configuration file can hold
  Documents,   \* what the configuration file may hold
  Ephemeral,   \* ports the kernel hands out for port 0
  Parses(_, _), \* inet_pton: whether a text is an address of a family
  Extension(_) \* the extension of a path, without its dot

VARIABLES
  document,   \* the configuration file and what else lies on disk
  taken,      \* ports another process listens on
  pc,         \* where main is
  conf,       \* the Conf object
  mime,       \* the table of the Mime object
  locations,  \* Router::locations_
  address,    \* listen_addr
  workers     \* workers_: what each thread has done so far

disk == <<document>>
shared == <<conf, mime, locations, address>>
vars == <<document, taken, pc, conf, mime, locations, address, workers>>

kMaxPort == 65535
kMaxWorkerThreads == 255
NoText == ""
Localhost == "127.0.0.1"
AnyAddress == "0.0.0.0"
uint16(n) == n % (kMaxPort + 1)

------------------------------------------------------------------------------
(***************************************************************************)
(* Conf::Load.  An object of the document is a record with the keys that   *)
(* are present; a key FromJson does not look for has no effect.            *)
(***************************************************************************)
DefaultListen == [family |-> "ipv4", ip |-> Localhost, port |-> 8080]
DefaultWorkerThreads == 4
DefaultConf ==
  [family |-> DefaultListen.family, ip |-> DefaultListen.ip, port |-> DefaultListen.port,
   worker_threads |-> DefaultWorkerThreads, route |-> <<>>]

Read(json, key, default) == IF key \in DOMAIN json THEN json[key] ELSE default

RouteFromJson(json) ==
  [type |-> Read(json, "type", NoText), path |-> Read(json, "path", NoText),
   root |-> Read(json, "root", NoText)]

ListenFromJson(json) ==
  [family |-> Read(json, "family", DefaultListen.family),
   ip     |-> Read(json, "ip", DefaultListen.ip),
   port   |-> Read(json, "port", DefaultListen.port)]

WorkerThreadsFromJson(json) == Read(json, "worker_threads", DefaultWorkerThreads)

FromDocument(doc) ==
  LET listen == ListenFromJson(doc.listen) IN
  [family |-> listen.family, ip |-> listen.ip, port |-> listen.port,
   worker_threads |-> WorkerThreadsFromJson(doc.server),
   route |-> [i \in DOMAIN doc.route |-> RouteFromJson(doc.route[i])]]

RouteConf == [type : Texts, path : Texts, root : Texts]
ConfType == [family : Texts, ip : Texts, port : Int, worker_threads : Int,
             route : Seq(RouteConf)]

\* A mime file holds words, so none is empty, and an entry has an extension.
Entry == [type : Texts \ {NoMime}, exts : Seq(Texts \ {NoMime}) \ {<<>>}]

IsMimeFile(file) ==
  /\ file.entries \in Seq(Entry)
  /\ file.kept \in 0 .. Len(AllWords(file.entries))
  /\ file.newline \in BOOLEAN

ASSUME ServerAssumption ==
  /\ {NoText, "ipv4", Localhost, AnyAddress, DefaultMime} \subseteq Texts
  /\ \A doc \in Documents : FromDocument(doc) \in ConfType /\ IsMimeFile(doc.mime)
  /\ Ephemeral \subseteq 1 .. kMaxPort

Families == {"ipv4", "ipv6"}

\* The InetAddr made from a configuration, and InetAddr::Valid.
InetAddr(c) == [family |-> c.family, ip |-> c.ip, port |-> uint16(c.port)]
InetAddrValid(addr) == addr.port # 0 /\ Parses(addr.family, addr.ip)

\* ListenConf::Valid, which terminates on any other family, and ServerConf::Valid.
ListenConfValid(c) == c.port =< kMaxPort /\ InetAddrValid(InetAddr(c))
Valid(c) == c.worker_threads \in 1 .. kMaxWorkerThreads /\ ListenConfValid(c)

Terminate(reason) == pc' = reason

Load ==
  /\ pc = "Load"
  /\ IF document.file = "ok"
       THEN conf' = FromDocument(document) /\ pc' = "LoadMime"
       ELSE Terminate("failed to load conf file") /\ UNCHANGED conf
  /\ UNCHANGED <<disk, taken, mime, locations, address, workers>>

------------------------------------------------------------------------------
(***************************************************************************)
(* Server::Server: Mime::Load and LiftFdLimit, SetUpRouter location by     *)
(* location, the listen address, and the worker threads.                   *)
(***************************************************************************)
LoadMime ==
  /\ pc = "LoadMime"
  /\ CASE ~document.mime.opens -> Terminate("failed to open mime type file") /\ UNCHANGED mime
       [] document.mime.opens /\ LoadFails(document.mime) ->
            Terminate("failed to read mime type file") /\ UNCHANGED mime
       [] OTHER -> mime' = Table(document.mime) /\ pc' = "SetUpRouter"
  /\ UNCHANGED <<disk, taken, conf, locations, address, workers>>

\* The handler made for an entry of the route, by what it serves.  A
\* StaticPathHandler looks its media type up when it is made.
Location(entry, table) ==
  IF entry.type = "path"
    THEN [kind |-> "path", serves |-> entry.path, mime |-> GetMime(table, Extension(entry.path))]
    ELSE [kind |-> entry.type, serves |-> entry.root, mime |-> NoMime]

SetUpRouter ==
  /\ pc = "SetUpRouter"
  /\ Len(locations) < Len(conf.route)
  /\ LET entry == conf.route[Len(locations) + 1] IN
     IF entry.type \in {"path", "dir"}
       THEN locations' = Append(locations, Location(entry, mime)) /\ UNCHANGED pc
       ELSE Terminate("unknown location type") /\ UNCHANGED locations
  /\ UNCHANGED <<disk, taken, conf, mime, address, workers>>

\* Mutant: the workers start before the last location is added.
ToInetAddrEarly ==
  /\ pc = "SetUpRouter"
  /\ conf.family \in Families
  /\ address' = InetAddr(conf)
  /\ pc' = "Start"
  /\ UNCHANGED <<disk, taken, conf, mime, locations, workers>>

ToInetAddr ==
  /\ pc = "SetUpRouter"
  /\ Len(locations) = Len(conf.route)
  /\ IF conf.family \in Families
       THEN address' = InetAddr(conf) /\ pc' = "Start"
       ELSE Terminate("invalid listen family") /\ UNCHANGED address
  /\ UNCHANGED <<disk, taken, conf, mime, locations, workers>>

Nowhere == [ip |-> NoText, port |-> 0]
NewWorker(addr) == [st |-> "started", addr |-> addr, bound |-> Nowhere,
                    reuse |-> FALSE, error |-> FALSE, routed |-> <<>>]

\* Mutant: one worker too many.
StartWorkerOneMore ==
  /\ pc = "Start"
  /\ Len(workers) =< conf.worker_threads
  /\ workers' = Append(workers, NewWorker(address))
  /\ UNCHANGED <<disk, taken, pc, shared>>

\* Mutant: the address is moved into the first worker.
StartWorkerMoves ==
  /\ pc = "Start"
  /\ Len(workers) < conf.worker_threads
  /\ workers' = Append(workers, NewWorker(address))
  /\ address' = [address EXCEPT !.ip = NoText]
  /\ UNCHANGED <<disk, taken, pc, conf, mime, locations>>

StartWorker ==
  /\ pc = "Start"
  /\ Len(workers) < conf.worker_threads
  /\ workers' = Append(workers, NewWorker(address))
  /\ UNCHANGED <<disk, taken, pc, shared>>

Started ==
  /\ pc = "Start"
  /\ Len(workers) >= conf.worker_threads
  /\ pc' = "Wait"
  /\ UNCHANGED <<disk, taken, shared, workers>>

\* Server::Wait joins every thread.  A thread ends only with the loop, and the
\* loop does not end while the listener is open, so this waits for ever unless
\* there is no thread.
Wait ==
  /\ pc = "Wait"
  /\ \A i \in DOMAIN workers : workers[i].st = "ended"
  /\ pc' = "exit"
  /\ UNCHANGED <<disk, taken, shared, workers>>

------------------------------------------------------------------------------
(***************************************************************************)
(* Worker::Run on thread i.  Tcp::Open makes an AF_INET socket whatever    *)
(* the family; an IPv6 address, which ToSockAddr writes past the end of    *)
(* its sockaddr, cannot be bound to it, and the process ends.  An address  *)
(* that does not parse leaves the socket address zero, which is every      *)
(* interface.  libuv reports an address in use only from uv_listen.        *)
(***************************************************************************)
Alive == pc \in {"Start", "Wait"}

IsBound(i) == workers[i].st \in {"bound", "listening"}
PortsOfOthers(i) == {workers[j].bound.port : j \in {k \in DOMAIN workers \ {i} : IsBound(k)}}
InUse(i, port, reuse) ==
  \/ port \in taken
  \/ \E j \in DOMAIN workers \ {i} :
       IsBound(j) /\ workers[j].bound.port = port /\ ~(reuse /\ workers[j].reuse)

\* The addresses the kernel may bind worker i to.
Bindings(i) ==
  LET addr == workers[i].addr
      ip == IF Parses("ipv4", addr.ip) THEN addr.ip ELSE AnyAddress
  IN IF addr.port # 0 THEN {[ip |-> ip, port |-> addr.port]}
     ELSE {[ip |-> ip, port |-> p] : p \in Ephemeral \ (taken \cup PortsOfOthers(i))}

BindAs(i, binding, reuse) ==
  workers' = [workers EXCEPT ![i] = [@ EXCEPT !.st = "bound", !.bound = binding,
                !.reuse = reuse, !.error = InUse(i, binding.port, reuse)]]

\* Mutant: Bind without ReuseAddr.
BindExclusive(i) ==
  /\ Alive /\ i \in DOMAIN workers /\ workers[i].st = "started"
  /\ workers[i].addr.family = "ipv4"
  /\ \E binding \in Bindings(i) : BindAs(i, binding, FALSE)
  /\ UNCHANGED <<disk, taken, pc, shared>>

Bind(i) ==
  /\ Alive /\ i \in DOMAIN workers /\ workers[i].st = "started"
  /\ IF workers[i].addr.family = "ipv4"
       THEN /\ \E binding \in Bindings(i) : BindAs(i, binding, TRUE)
            /\ UNCHANGED pc
       ELSE Terminate("uv_tcp_bind failed") /\ UNCHANGED workers
  /\ UNCHANGED <<disk, taken, shared>>

\* Mutant: a worker that cannot listen goes on without listening.
ListenTolerant(i) ==
  /\ Alive /\ i \in DOMAIN workers /\ workers[i].st = "bound" /\ ~workers[i].error
  /\ workers' = [workers EXCEPT ![i].st = "listening"]
  /\ UNCHANGED <<disk, taken, pc, shared>>

Listen(i) ==
  /\ Alive /\ i \in DOMAIN workers /\ workers[i].st = "bound"
  /\ IF workers[i].error
       THEN Terminate("uv_listen failed") /\ UNCHANGED workers
       ELSE workers' = [workers EXCEPT ![i].st = "listening"] /\ UNCHANGED pc
  /\ UNCHANGED <<disk, taken, shared>>

\* A request is routed by the locations there are.
Route(i) ==
  /\ Alive /\ i \in DOMAIN workers /\ workers[i].st = "listening"
  /\ workers' = [workers EXCEPT ![i].routed = <<locations>>]
  /\ UNCHANGED <<disk, taken, pc, shared>>

\* Another process listens on the port.  Once a worker has bound it the kernel
\* refuses the port to a process without SO_REUSEPORT of the same user.
TakePort(port) ==
  /\ port \notin taken
  /\ \A i \in DOMAIN workers : ~(IsBound(i) /\ workers[i].bound.port = port)
  /\ taken' = taken \cup {port}
  /\ UNCHANGED <<disk, pc, shared, workers>>

------------------------------------------------------------------------------
Init ==
  /\ document \in Documents
  /\ taken = {}
  /\ pc = "Load"
  /\ conf = DefaultConf
  /\ mime = NoTypes
  /\ locations = <<>>
  /\ address = [family |-> "ipv4", ip |-> NoText, port |-> 0]
  /\ workers = <<>>

Main == Load \/ LoadMime \/ SetUpRouter \/ ToInetAddr \/ StartWorker \/ Started \/ Wait
Run(i) == Bind(i) \/ Listen(i)

\* The port another process may come to listen on: the one configured.
Contended == {uint16(FromDocument(document).port)} \ {0}

Next ==
  \/ Main
  \/ \E i \in DOMAIN workers : Run(i) \/ Route(i)
  \/ \E port \in Contended : TakePort(port)

Spec == Init /\ [][Next]_vars

\* Threads run when they can; nobody has to send requests or take ports.
ThreadIds == UNION {1 .. FromDocument(doc).worker_threads : doc \in Documents}

FairSpec ==
  /\ Spec
  /\ WF_vars(Main)
  /\ \A i \in ThreadIds : WF_vars(Run(i))

------------------------------------------------------------------------------
(***************************************************************************)
(* Properties.                                                             *)
(***************************************************************************)
Reasons == {"failed to load conf file", "failed to open mime type file",
            "failed to read mime type file", "unknown location type",
            "invalid listen family", "uv_tcp_bind failed", "uv_listen failed"}

Terminated == pc \in Reasons

LocationType == [kind : Texts, serves : Texts, mime : Texts]
AddressType == [family : Texts, ip : Texts, port : 0 .. kMaxPort]
WorkerType ==
  [st : {"started", "bound", "listening", "ended"}, addr : AddressType,
   bound : [ip : Texts, port : 0 .. kMaxPort], reuse : BOOLEAN, error : BOOLEAN,
   routed : Seq(Seq(LocationType))]

\* The variables have their types, and there are no more workers than the
\* configuration asks for.
TypeOK ==
  /\ pc \in {"Load", "LoadMime", "SetUpRouter", "Start", "Wait", "exit"} \cup Reasons
  /\ conf \in ConfType
  /\ mime \in {NoTypes, Table(document.mime)}
  /\ locations \in Seq(LocationType)
  /\ address \in AddressType
  /\ workers \in Seq(WorkerType)
  /\ workers # <<>> => Len(workers) =< conf.worker_threads

\* No worker ever routes by a router that is not complete, or before the mime
\* table is: the vectors are filled before the first thread starts and nobody
\* touches them afterwards (server.cpp:36-50).
RoutesByWholeRouter ==
  \A i \in DOMAIN workers : workers[i].routed # <<>> =>
    /\ mime = Table(document.mime)
    /\ workers[i].routed = << [k \in DOMAIN conf.route |-> Location(conf.route[k], mime)] >>

\* Entries of which the file holds an extension, and the type it means for one.
Begun(file) ==
  {i \in DOMAIN file.entries : Len(AllWords(SubSeq(file.entries, 1, i - 1))) + 2 =< file.kept}

TypeMeant(file, ext) ==
  LET listing == {i \in Begun(file) : ext \in Range(file.entries[i].exts)}
  IN IF listing = {} THEN DefaultMime ELSE file.entries[Max(listing)].type

\* Once the process has come past the mime file it knows every extension of
\* every entry the file began, the last mention of each, and the locations added
\* since have their media types from that table (mime.cpp:37-71, server.cpp:36-42,
\* static_handler.cpp:31-41).
MediaTypesAreWhole ==
  pc \notin {"Load", "LoadMime"} \cup Reasons =>
    /\ \A entry \in Range(document.mime.entries) : \A ext \in Range(entry.exts) :
         GetMime(mime, ext) = TypeMeant(document.mime, ext)
    /\ \A i \in DOMAIN locations : locations[i].kind = "path" =>
         locations[i].mime = TypeMeant(document.mime, Extension(conf.route[i].path))

Listening == {i \in DOMAIN workers : workers[i].st = "listening"}

\* Started from a checked configuration, a worker listens nowhere but at the ip
\* and port written in it, though threads, socket addresses and the kernel come
\* between (server.cpp:44-49, worker.cpp:32-42, tcp.cpp:72-81).
Checked(c) == c.family \in Families /\ Valid(c)

ListensWhereConfigured ==
  Checked(conf) /\ conf.port > 0 =>
    \A i \in Listening : workers[i].bound = [ip |-> conf.ip, port |-> conf.port]

AllListening == Len(workers) >= conf.worker_threads /\ Listening = DOMAIN workers

\* Either every worker comes to listen, or the process ends: it does not go on
\* with some of its workers missing (loop.cpp:38-41, tcp.cpp:69-84).
AllOrNothing == <>(AllListening \/ Terminated)

\* Nothing in the environment stands in the way of an IPv4 configuration.
Undisturbed ==
  /\ document.file = "ok" /\ document.mime.opens /\ ~LoadFails(document.mime)
  /\ FromDocument(document).family = "ipv4" /\ Valid(FromDocument(document))
  /\ \A i \in DOMAIN document.route :
       RouteFromJson(document.route[i]).type \in {"path", "dir"}
  /\ taken = {}

\* With a valid IPv4 configuration and a free port every worker comes to listen,
\* whichever of them binds first (tcp.cpp:117-132).
ComesUp == []Undisturbed => <>AllListening

------------------------------------------------------------------------------
\* server.hpp, line 35: the configuration given to Server is a checked one.
\* Nobody checks it: this is violated, see README.md.
ServesOnlyChecked == pc \in {"Start", "Wait", "exit"} => Checked(conf)
=============================================================================
