# TLA+ models of ayaka

ayaka is a small static-file HTTP server in C++ on top of libuv. This directory
models its core in TLA+, checks the models with TLC on small instances and proves
the main results with TLAPS for every instance.

## Inventory

Paths are relative to `src/` of the repository.

| Component | State it keeps | Operations | What makes it correct |
| --- | --- | --- | --- |
| Request parser (`http_parser.cpp`) | states of three automata, the texts of the current token, the header map, the `Request` | `Step`, `Exec`, `Reset` | is complete only at a blank line, however the bytes are cut into buffers; keeps the last value of each header; never runs an automaton that is done |
| `Tcp` (`tcp.cpp`) | libuv handle, `closed_`, `send_packs_`, callbacks, the thread's `gTcpMap` | `Bind`, `Listen`, `Accept`, `Send`, `Close`; libuv callbacks `OnConn`, `OnAlloc`, `OnRecv`, `OnClose`, write completion | callbacks find their object alive; one `uv_close` per handle; no reply lost; what is answered is closed |
| `SendPack` (`send_pack.cpp`) | `uv_write_t`, buffers, completion closure, the thread's `gSendPackMap` | construction, `UvOnWrite`, `SetUpBufs` | alive until its callback; buffers are the reply's bytes |
| `Downstream` (`downstream.cpp`) | its `Tcp`, router and parser | `OnRecv`, `HandleRecv`, `Send` | each request answered once, then the connection closed |
| `Worker` (`worker.cpp`) | thread, loop, listener, `downstreams_` | `Run`, `OnListerAccept`, `Join` | `downstreams_` is the set of connected clients |
| `Loop` (`loop.cpp`) | `uv_loop_t` | `Run`, `Once`, destructor | runs callbacks one at a time until no handle is left |
| `Server`, `main` (`server.cpp`, `main.cpp`) | configuration, mime table, router, workers | construction, `Wait` | everything shared is complete before the first worker runs |
| `Router`, `Location` (`router.cpp`, `location.cpp`) | ordered locations | `AddLocation`, `Route`, `Match` | first match in order, however dots and empty names are spelled; the path matched is a normal one (it need not be) |
| Static handlers (`static_handler.cpp`) | path or root, media type | construction, `DoGet` | the body is the file, also when the file changes meanwhile; a file that is there is found |
| `HttpHandler`, exceptions | none | dispatch on the method; 400/404/405 pages | every request ends in one status; an error shows nothing of the attempt |
| `Mime` (`mime.cpp`) | table from extensions to media types | `Load`, `GetMime` | whole before anybody looks a type up |
| `Url`, `Query` | parts of a URL, `valid_` | `Decode`, `Parse`, `Get`, `Add` | the parts and pairs a URL was written from; port is a port |
| `Conf`, `InetAddr`, `Response`, logging | plain data | loading, formatting | checked before use (nobody checks) |

The main thread loads the configuration, builds the router and starts one worker
per configured thread. Workers share only the router and the mime table, which
nobody writes after start-up; each has its own loop, its own listening socket on
the same address (`SO_REUSEPORT`) and thread-local registries. Inside a worker
everything is a libuv callback: `OnConn` creates a `Tcp` and a `Downstream`,
`OnRecv` feeds the parser and may route, handle and `Send`, the write callback
closes the connection, and the close callback takes it out of `downstreams_`.

What is hard here is order: several replies and the peer's end of file may all ask
for the close; write callbacks may come after `uv_close`, some of them cancelled;
bytes arrive cut anywhere, also after the end of a request; files change between the
calls that measure, open and read them, next to other workers; descriptors run out;
and `AYAKA_LOG_CRITICAL` and `AYAKA_TERM_IF` end the process (`std::terminate`,
because the build sets `LOG_LEVEL` so that the critical level is compiled in).
`PROJECT.json` lists each hazard at its line.

## Modules

| Module | What it models |
| --- | --- |
| `ExecOutcome` | what one call of `RequestParser::Exec` may do to a parser, seen by its caller |
| `RequestParser` | the parser byte by byte, its inner automata, `Exec` and `Reset` |
| `Exchange` | abstract specification: what a worker promises on its connections |
| `Worker` | one worker's event loop: `Tcp`, `Downstream`, `SendPack`, registries, libuv |
| `HandlerOutcome` | what handling a request can come to, seen by its caller |
| `Handling` | abstract specification: handlers that answer in one step |
| `StaticFile` | the handlers call by call, on several threads, over a changing file system |
| `Reply` | responses and the buffers `SendRespPack` makes of them |
| `Url` | the URL parser and `Query`, as a function of the text |
| `Routing` | from a URL to the file: locations, `Match`, `Route`, the path a handler reads |
| `Mime` | the reader of the mime file and the table |
| `Server` | start-up: configuration, mime table, router, worker threads, bind and listen, `Wait` |
| `MCRequestParser`, `MCWorker`, `MCStaticFile`, `MCUrl`, `MCRouting`, `MCServer` | finite instances for TLC |
| `RequestParserProofs`, `WorkerProofs`, `ReplyProofs`, `StaticFileProofs`, `UrlProofs`, `RoutingProofs`, `ServerProofs` | TLAPS proofs about these |
| `SequenceProofs` | lemmas about loops over sequences, which the last three rest on |

How they fit together: `Worker` is built on the outcomes of the parser (`ExecOutcome`)
and of the handlers (`HandlerOutcome`); `RequestParser` and `StaticFile` are the
detailed modules that are shown to stay within these. `StaticFile` extends `Reply`,
`Routing` extends `Url`, and `Server` extends `Mime`. `Worker` implements `Exchange`,
`StaticFile` implements `Handling`. The router is complete when `Routing` and
`StaticFile` use it: that is a property of `Server`.

### RequestParser

`rslp`, `hp` and `rp` are the `state_` members of `RequestStartLineParser`,
`HeaderParser` and `RequestParser`. A byte is one of the five classes the automata
tell apart. A header name is a member of the constant `Names` and `Lower` is
`StrLower` on them; a value is represented by the number of the header line it came
from, so the model can tell which line won. The URL is reduced to its validity,
chosen freely when the start line ends. `ExecByte` is one turn of the loop of
`Exec` together with `Step`; `Recv` hands over the next buffer; an exception gives
the rest of the buffer up, because it leaves `HandleRecv` as well. `ExecWhenDone`
is the "should call Reset()" termination. The variables `lines`, `crlf`,
`rejected`, `start` and `thrown` are history and are read by properties only.

The model follows the code where it is unusual: a CR right after the colon begins
the value, so a header with an empty value takes in the following line; and when
the start line is rejected the automaton has already moved on to the headers.

### Worker

The worker is single threaded, so one action is one libuv callback with all it
calls. `OnConn` covers `Accept`, the `Tcp` constructor and `OnListerAccept`;
`OnRecvData` covers `Downstream::OnRecv`, the loop of `HandleRecv`, routing,
handling, `Downstream::Send` and `Tcp::Send`; `UvOnWrite` covers `OnSendFinish`, the
`on_finish` closure and `Close`; `OnClose` covers the `on_close` closure. The
alternatives of `OnRecvData` are the ways one buffer can go: parser already done,
request still incomplete, rejected (400), or completed and handled.

`uv`, `written`, `broken`, `called` and `peer` are libuv, the kernel and the client.
The assumptions about libuv are: write callbacks come in the order of the writes;
`uv_close` stops reading and gives the descriptor back at once; writes that the
kernel has not taken by then complete with `UV_ECANCELED` before the close callback.
`holders` records who owns the `Downstream` (and through it the `Tcp`), so that a
destruction is a consequence and not an assumption. `files` counts descriptors the
static handlers leave open. `term` is the reason of `std::terminate`; afterwards no
action is possible. `closes` is history.

Module `Worker` builds on `ExecOutcome`; that the byte-level parser stays within
those outcomes is an invariant of `RequestParser` (`ExecWithinOutcomes`) and a
theorem (`OutcomesCovered`). It takes a handler to run in one step with one of the
`HandlerOutcomes`; that this is so, although handlers make several system calls, is
`ImplementsHandling` of `StaticFile` and the theorem `HandlersAreAtomic`.

### Exchange

Per connection: any number of 400s, then at most one other reply; the kernel takes
them in order; the worker hangs up only after a reply was delivered or the client
left; a finished close has lost nothing; the worker may stop for good at any time.
`Worker` implements it with the mapping `phase <- uv`, `sent <- replies`,
`delivered <- written`, `gone` from `peer` and `up <- Running`.

### StaticFile, Reply and Handling

Each thread handles one request at a time; `job[t]` is its place in the code, the
handler `Route` chose, the method, the path of the file and the response made so far.
`Handle` is the dispatch on the method. `IsDirectory`, `FileSize`, `OpenFile` and
`ReadFile` are the system calls of `DoGet`, each with the code up to the next one.
`Throw` is an `HttpExcept` with the `catch` of `Downstream::OnRecv`: the response the
handler was given is dropped and a new one set up.

Between two steps anything may happen. `entry` says what is at each path and `content`
what each file holds: `Relink` replaces what is at a path (another file, a directory,
nothing), as `rename` does, and `Rewrite` changes a file in place, also while it is
open. `sockets` counts the descriptors of connections, which come and go and compete
with `files` for `FdLimit`. Rewriting, `read` and the other calls are atomic; `read`
returns at most `MaxRead` bytes of what the buffer could take. A directory can be
opened but not read. Errors of the device are left out.

`versions[t]` is history: the contents seen since `file_size`, of the file at the path
until it is opened and of the open file from then on; `hindered[t]` says whether at some
moment what was at the path could not have been opened and read. Both are read by
properties only.

`Reply` describes a response by status, media type and body, and `SetUpBufs` by the
sequence of its texts. `Headers` is a set because the `unordered_map` may be walked in
any order, so the buffers are made for each order. `Understood` is a client that reads
up to the end of the connection: what it sees must be the response.

`Handling` is the abstract specification: a busy thread answers in one step with one of
the `HandlerOutcomes`. `StaticFile` implements it with `code` read off the answer and
`files <- files` less those of requests that have opened their file and not read it yet,
so that the descriptor is taken at the moment of the answer.

### Routing and Mime

`Routing` extends `Url`: a URL is written down from its parts, parsed by `Construct`,
and its path handed to `Route`. The locations are added one by one as `SetUpRouter` does.
`Location` holds both the normalised URL of the location and the normalised path or root
of its handler. `Match` compares texts, as the code does. `File` is the path `DoGet`
makes before it looks whether it is a directory, with `lexically_relative` and
`operator/` of `std::filesystem` on the elements of a path. Types of locations, which
the code compares without regard to case, are in lower case.

The reference definition `RoutedAsConfigured` compares names and not texts: an entry
of type `dir` covers a path if its URL begins with a slash and the names of that URL begin
those of the path (and, if it ends in a slash, the path goes on with one), and the file
meant has the names of the root and then those that remain; an entry of type `path` covers
the paths with the same normal form as its URL. The manual's `/static` thus covers
`/static` and everything below it. Because `Match` compares texts, it takes `/staticfoo`
as well: `SplitsName` says so of a path, and such paths are left out of the property.
Left out, too, are URLs with escaped dots or slashes: these reach `Match` unnormalised,
which is what the run `url_normal` shows.

`Mime` reads a file of words as the two loops of `Mime::Load` do: a word that touches
the end of the file ends the table if a media type was expected, and ends the process if
an extension was. `Server` uses it for `LoadMime`, and `Location` of `Server` has the
media type a `StaticPathHandler` looks up when it is made.

### Server

`pc` is where `main` is; `conf`, `mime`, `locations`, `address` and `workers` are what
it has built so far; each worker's record says how far its thread is and what its
socket is bound to. The constructor of `Server` adds one location per step and
starts one thread per step, and every started thread binds and listens while the
constructor goes on. Any failed check puts the reason into `pc`, and no thread takes
a step any more: `std::terminate` ends the process, not the thread.

`document` is the configuration file, as the keys its objects have: `FromDocument`
keeps the defaults for keys that are missing and ignores keys it does not know. A
value of the wrong JSON type ends the load like a file that does not parse, so both
are `malformed`. Names the code compares without regard to case are written in lower
case. Port numbers pass through `uint16_t` where `InetAddr` is made. `Valid` is
`ServerConf::Valid` with the checks it calls; it is no part of any action, because nobody
calls it, and `Checked` says for the properties that a configuration would have passed it
(a family it does not know would have ended the process). Which texts are addresses of a
family, `inet_pton` knows: the constant `Parses`.

The kernel gives an AF_INET socket no IPv6 address, binds an address that
`inet_pton` refused (and `ToSockAddr` therefore left zero) on every interface, lets
sockets with `SO_REUSEPORT` share a port, and hands out a free port for port 0. libuv
keeps "address in use" from `bind` until `uv_listen`. Another process may take the
configured port as long as no worker has it: the kernel refuses a port on which a socket
is bound to everybody who does not share it by `SO_REUSEPORT` and belongs to the same user.
Other failures of the system calls at
start-up (an address of another machine, no thread, no descriptor) end the process
the same way and are left out.

`Route` is a worker using the router it finds; what follows is module `Worker`.

### Url

A text is a sequence of characters; only those the code compares with matter.
`Construct` is the constructor: it parses the text the environment wrote down from
its parts (`Compose`), so the properties compare what was meant with what was
understood. Each URL has a spelling, which says for every character of path and query
whether it is written bare or as the escape of its byte (`Code`), in hexadecimal digits of
either case; it is the same throughout one URL. A spelling is `Unambiguous` if it escapes
the characters that separate a query and its pairs, and the `%`, and it `KeepsNames` if it
leaves dots and slashes bare. `Decode` is a recursive function over positions, `ParseQuery` a fold of
the loop body `ScanChar`. `Stoi` and `LexicallyNormal` are the library functions the
code relies on, with what it does not check: `Stoi` ignores what follows a number.

## Runs

| Run | Shows |
| --- | --- |
| `parser` | `TypeOK`; the inner automata are never fed when done (`InnerParsersNotDone`); a request is complete only right behind a CR LF CR LF (`DoneAtBlankLine`); its headers are the last line of each name (`RequestHeadersComplete`); each buffer ends in an outcome of `ExecOutcome` |
| `worker` | callbacks find live targets; `downstreams_` and `closed_` follow the handles; a delivered reply starts the close, and nothing else does while the client waits; a handler's reply is the last; one `uv_close`; no reply lost; `Worker` implements `Exchange`; an answered connection, and one whose peer hung up, is closed in the end or the worker stops (`RepliedIsClosed`, `HungUpIsClosed`) |
| `static` | a body served is one content the file has had since it was measured, cut or filled to the length measured (`BodyIsOneVersion`); a 404 has a cause (`NotFoundHasCause`); errors show nothing of the attempt (`ErrorsAreClean`); replies can be read back (`RepliesReadBack`); handlers act as one step (`ImplementsHandling`) |
| `url` | a URL is taken apart into the parts it was written from (`PartsRecovered`; its path only with bare dots and slashes), its query into its pairs whatever characters they hold (`QueryRecovered`); a bad authority makes it invalid (`BadAuthorityRejected`); `Query`'s positions stay within its values (`TypeOK`); a URL is served from the file of the first entry that covers it (`RoutedAsConfigured`); a location added never takes a path from an earlier one (`EarlierLocationsWin`) |
| `server` | workers route only by the complete router (`RoutesByWholeRouter`); the server comes up only with every extension of every entry the mime file began, and locations have their types from it (`MediaTypesAreWhole`); started from a checked configuration no worker listens anywhere but at the ip and port written in it (`ListensWhereConfigured`); either all workers come to listen or the process ends (`AllOrNothing`); with nothing in the way all do (`ComesUp`) |
| the others | statements of the repository's comments, assertions, tests and manual that the code does not keep (below) |

Each run that passes has a mutant per property: a plausible slip in the code
(a dropped guard, a check in the wrong order, a forgotten erase) that makes TLC
report that property. The mutants stand in the modules, right before the definition
they would replace.

### Bounds

`parser`: buffers of up to 3 bytes and 3 header lines per request, three names of
which two differ by case. Three lines allow one name to be overwritten twice or
another to come between; the longest token the automata look at is CR LF CR LF, and
buffers of 1 to 3 bytes cut it in every way. Requests are of any length otherwise.

`worker`: two connections, two replies per connection, two descriptors. Two replies
are the least with which a callback can come after the close another has begun; two
descriptors are enough for one to be held by a file while the next connection or
the next file finds none. The run checks liveness as well, so it uses no symmetry. The
runs that only look for a violation have one connection.

`server`: up to three workers, the fewest with which one can fail while another
listens and a third has not started; ports inside, at and beyond both limits of
`uint16_t`; routes of up to two locations, so that a worker could see half a router;
as many ports for the kernel to choose from as there are workers.

The mime file of that run has three entries, an extension named twice, and is cut
behind every word with and without a line feed.

`static`: two threads (interchangeable, so symmetry is used), two descriptors, a path
that may be a directory and its index, one file that can be read and one that cannot;
contents that are empty, of one character and of two, the first of them a line end, and
`MaxRead` of 1, so that a file can grow, shrink and be longer than one `read` returns.
Two threads are the least that open files between each other's calls; with two
descriptors one thread can find them taken by the other and a connection. That one
readable file takes the place of another is left to the proofs: rewriting the one there
is has the same effect on a thread.

`url`: paths of up to five characters after the first slash, which hold every
combination of two segments out of a name, `.`, `..` and nothing, and paths with `%` and
`?` in them; five spellings (only what must be escaped; everything but dots and slashes;
dots as well; slashes as well; nothing) of paths of up to three characters more and of
queries; routes of up to two locations, in both orders, nested,
overlapping, spelled with dots, with and without a last slash, with an empty or relative URL and an empty root; keys and values of
up to two characters, among them all characters with a meaning in a query and the
digits of their escapes, in queries of up to three pairs with equal and different
keys; ports at the limits, empty, signed, with blanks and with letters.

Deadlock checking is off where the system does stop: a terminated process, a worker
whose connections are all closed, a server nobody sends requests to, a parsed URL.
It is on in `static`.

### Fairness

`FairSpec` assumes weak fairness of the write callback, of the close callback, of
reading an end of file or error once it is there, and of the kernel taking or
refusing a pending reply, each per connection. The first three are what `uv_run`
does: each turn polls every handle and runs every completed request. The last leaves
out a client that neither reads nor goes away; the code has no timeout for it, and
such a connection does stay open. Clients are not assumed to send or to hang up.

`FairSpec` of `Server` assumes weak fairness of `main` and of each thread's bind and
listen: the system schedules threads that can run. Requests, and another process
taking the port, are not assumed to come; when the port is taken in time, start-up
ends the process instead, which is why `ComesUp` is about runs in which it is not.

### Where code and documents disagree

* `worker_reset` (`ParserResetAfterRequest`): the assertion in
  `http_parser.cpp:227` says `should call Reset()`; `HandleRecv` never does, and
  bytes after a complete request end the process.
* `worker_write` (`FailedWriteCloses`): `tcp.cpp:137` closes the connection after a
  failed write, and `TcpTest.Hup3` waits for the close after sending to a peer that has
  gone (in the model that close comes by end of file, unless a reply is still unwritten);
  the critical log one line above terminates first. A cancelled write counts as failed.
* `worker_release` (`ReleasedWhenClosed`): `tcp.hpp:68` says `on_close` releases
  resources; the closure installed by `OnListerAccept` keeps the `Downstream`, and
  with it the `Tcp`, alive for ever.
* `url_port` (`PortIsPositiveUint16`): `url.hpp:102` makes any port that is not a
  `uint16_t` greater than 0 invalid; 0 and `8a` are accepted.
* `url_origin` (`OriginFormSupported`): `url.hpp:58` supports `/path[?query]`; with
  `://` anywhere in the query the URL is taken for `scheme://host`.
* `url_normal` (`MatchedPathIsNormal`): `location.hpp:39`, `72` and `98` want the path
  given to `Match` to be normal. It is decoded after it was normalised (`url.cpp:154`), so
  `/%2e` becomes `/.`, and a path can lead up where no location and no root expects it.
* `server_unchecked` (`ServesOnlyChecked`): `server.hpp:35` wants a checked configuration,
  and `conf.hpp:80` says what that is; nobody calls `Valid` (`main.cpp:29`). Without worker
  threads `main` returns at once, an ip that does not parse is listened for on every
  interface (`inet_addr.cpp:41`), and port 65616 becomes 80 (`conf.cpp:58`).

Further disagreements that no run states, because the model only follows the code
there:

* `downstream.cpp:39` says `Tcp` frees each receive buffer; the early returns of
  `Tcp::OnRecv` for 0 and `UV_EOF` (`tcp.cpp:170`) do not. Buffers are not in the model.
* `router.hpp:40` says `Route` throws `Http404Except` when nothing matches; it returns
  a handler that throws it.
* `response.hpp:72` says `Content-Length` is set when a response is sent; it never is,
  and a client finds the end of a body by the end of the connection (`Understood`).
* `conf_test.cpp:36` takes an IPv6 address for valid; `Tcp::Open` makes an IPv4
  socket and the bind ends the process (`Bind` in `Server`; `ComesUp` is therefore
  about IPv4). `Valid` has no lower limit for the port either: -1 passes and is 65535.
* The manual's example (`README.md:60-62`) puts the directory of a `dir` location
  under `path`; the server reads `root`. The example's `type` in `listen` is not read
  either (`family` is), and `README.md:38` looks for the file in the current
  directory where `main.cpp:26-28` takes the one of the source tree.

One thing to know rather than a disagreement: a `dir` location whose URL does not end in
a slash matches names that merely begin like its last one (`/foo` takes `/foobar`), which
is why `RoutedAsConfigured` leaves such paths out (`SplitsName`). And a `dir` location whose
URL does not begin with a slash never matches, since every path does.

## Proofs

For every set of names, buffer size and number of lines, and for every finite set of
connections, bound on replies and descriptor limit (`ParserAssumption`,
`WorkerAssumption`):

* `RequestParserProofs`: `TypeOK`, `InnerParsersNotDone`, `DoneAtBlankLine`,
  `RequestHeadersComplete` and `ExecWithinOutcomes` are invariants. None but the
  first is inductive. `IInv` adds: which automaton may be where (`Sequencing`); for
  every state that waits for an LF, how much of CR LF CR LF has been seen
  (`History`); that the map under construction already has the last line of each
  name (`HeaderMap`, by `StoreHeaderLastLineWins`); and that an exception has emptied
  the buffer (`Outcome`).
* `WorkerProofs`: the safety invariants of the run `worker`. `IInv` speaks about one
  connection at a time (`ConnInv`): callbacks trail writes, which trail replies
  (`Counts`); pending packs are registered (`Targets`); the registries follow the
  handle (`Registered`); `closes` counts the close and the close has a cause
  (`ClosingStarts`); a reply other than 400 goes with a parser that is done
  (`Final`). A step on one connection leaves the others' `ConnInv` alone
  (`OthersSame`, `SameConnInv`), so each step needs one lemma about its own
  connection.
  It also proves `Spec => ImplementsExchange`, each step being a step of `Exchange` or
  a stutter; `IInv` supplies that an answered connection has a parser that is done, that
  a callback with status 0 follows a delivered reply, and that the counts agree when the
  close callback is made.
* `ReplyProofs`: `EveryReplyReadsBack`, which is `ReadBack` for every body of every
  length and every order of the headers. A line end among the buffers of the status line
  and of n header lines stands at every fourth place from the sixth on, and nowhere else
  (`StatusLineAt`, `HeaderLinesEnd`); so the empty line is the first line end right
  behind another (`HeadIsFound`), and what follows it is the body (`RestIsBody`).
  Assumed is that no media type is a line end: the words `mime.cpp:48` reads hold no
  white space, and the default type (`mime.hpp:55`) is a constant nobody sets.
* `StaticFileProofs`: `TypeOK`, `RepliesReadBack` (from `TypeOK` and
  `EveryReplyReadsBack`), `BodyIsOneVersion`, `NotFoundHasCause`, `ErrorsAreClean`
  and `ImplementsHandling`, for every file system, set of threads and requests, and
  every limit (`StaticFileAssumption`). The three about answers are action properties;
  they follow from an invariant about each thread (`JobInv`): the body made by
  `file_size` has the length of a member of `versions`, which the present content of the
  file is in as well, a thread that would fail now has been `hindered`, and a response on
  its way has status 200 and the media type of its path. For the refinement
  it is shown that a step of one thread leaves the abstract state of the others alone and
  that `files` less the open ones counts the answers that opened a file, which needs the
  cardinality of the set of reading threads.
* `SequenceProofs`: what `FoldLeft`, `FlattenSeq` and recursive functions compute, as far
  as the prover can be told. The library's induction theorems take an operator, which no
  backend can instantiate; here an induction is over a *set* (`NatSetInduction`,
  `SeqSetInduction`: a set of sequences that holds `<<>>` and is closed under `Append`
  holds them all), and the function of a loop is a *value*, `Loop(A, B, base, step)`,
  that `LoopProperties` unfolds from the back. `FoldExists`, `SeqFoldExists` and
  `FoldIsLoop` show that the function `FoldLeft` chooses exists and is `Loop`, and
  `UnfoldExists` does it for a recursion that goes on by more than one position.
* `UrlProofs`: `TypeOK`, `BadAuthorityRejected`, `PartsRecovered` and `QueryRecovered`, for
  texts of any length over any characters and any number of pairs. The invariant behind
  them says that a `Url` is `Parse` of the text it was given (`Constructed`); the rest is
  about functions. Each loop of the code is shown to be a `Loop`, and then what `Compose`
  writes is read back part by part: the first `://` and the first `/` behind it are the ones
  written (`AuthoritySplit`, `SchemeEndFound`), the characters up to `=` and `&` are those of a
  key and a value, since an unambiguous spelling leaves neither in them (`KeyRead`,
  `ValueRead`, `PairsRead`), and `Decode` undoes every spelling that escapes the `%`
  (`DecodeSpelled`). If dots and slashes are bare, normalising commutes with spelling
  (`NormalSpelled`), because no slash moves and no segment of dots changes; here it is
  needed that different characters are spelled differently (`SpelledInjective`).
  `CharsAssumption` says that the characters with a meaning are characters and that each
  character has a byte of its own. `FormsAssumption` is the grammar of what is written (a scheme has no `:`, a
  host no `:` and no `/`, a path begins with `/`), not a restriction of the code.
* `RoutingProofs`: the router has the locations of the configuration so far, in its order
  (`RouterTypeOK`), and from that `EarlierLocationsWin`: the first of the
  matching indexes, which exists because the indexes are well-founded, is not changed by
  an index added behind them all. For every route and every set of URLs. What is routed is
  constructed as in `Url`, so `RoutedUrlsCorrect` takes the four invariants of `Url` over.
  `RoutedAsConfigured` follows from `RouterTypeOK`, `PartsRecovered` and the invariant that
  a request meets the complete router and that its URL's path decides (`RoutedByPath`); what
  remains is about paths. Their names stay `Steady`: they lead up only in front, and not at
  all below the root (`ResolvedSteady`). A normal path is its names joined by slashes, and
  these are its segments again (`JoinedNames`, `NormalTextProperties`), so normalising
  changes nothing about where a path leads (`NormalSame`), and of two normal paths that begin
  at the root one that ends in a slash begins the other as text just if it does name by name
  (`PrefixOfNormal`); one that does not begins every text whose names its own begin
  (`NamesInFront`), and the rest is what `SplitsName` leaves out. That is what `Match`
  relies on (`MatchesCovered`). `lexically_relative`
  then never goes up, and what it returns leads along the names that remain
  (`RelativeLeads`), from wherever `operator/` appends it to (`JoinLeads`, `FileMeant`).
  `RoutingAssumption` only says that the URL and the file of an entry are texts.
* `ServerProofs`: the safety invariants of the run `server`, for every set of configuration
  files and number of workers (`ServerAssumption`: what a file yields is of the type of a
  configuration, and the kernel's ports are ports; a mime file holds words, so
  none is empty, its entries each have an extension, and it is cut off somewhere within
  them). `IInv` adds
  that the locations so far are those of the route in its order, with media types from
  the loaded table (`RouterFollowsRoute`), how far `main` must be for a worker to exist
  (`MainOrder`),
  that everything a worker reads is ready by then (`ReadyBeforeStart`), and what each
  worker may be bound to and have seen (`WorkerInv`). `RoutesByWholeRouter` is not
  inductive without the first three: nothing in it says when threads start.
  `ListensWhereConfigured` follows from `WorkerInv`: the address is made from the
  configuration, a worker is bound to what its address says, and for a checked
  configuration neither the wrap of the port nor a refused ip changes that.
  `MediaTypesAreWhole` is about the loop of `Mime::Load`: after any number of words it
  stands in an entry (`IsAt`) and the table has the last mention of every extension so far
  (`Knows`); a step of `ReadWord` keeps both (`ReadOneMore`), so a load that does not fail
  has read all entries the file begins, but for nothing of the last (`FileRead`, `BegunIs`).

Only model-checked: liveness (`RepliedIsClosed`, `HungUpIsClosed`, `AllOrNothing`,
`ComesUp`), because TLAPS does not do liveness under fairness here.

## Not modelled

`GetDate` and the wording of pages, log lines and headers are data no property here
depends on; logging is modelled only where it ends the process. The move operations of
`Tcp`, `SendPack` and the parsers, `Loop::Once` and the destructor of `Loop` are never
used by the server, or never reached: `Run` returns only when no handle is left, and the
listener is never closed. The type checks of JSON values are one outcome of `Load`.
Exceptions other than `HttpExcept` (out of memory) and failures of `getrlimit`, thread
creation and the event loop itself, which all end the process, are left out. libuv, the
kernel, the file system library and the JSON library are external: their sources are not
in the repository, and they are modelled from how the code uses them.

The modules are composed through the outcomes they share and not into one state space:
`Server` with several `Worker`s would add no interaction, because workers share nothing
but the router and the mime table, which no thread changes once workers run, and the
descriptors, whose competition `StaticFile` and `Worker` each have.
