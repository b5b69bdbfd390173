------------------------------ MODULE Routing ------------------------------
(***************************************************************************)
(* From the URL of a request to the file that is read: Server::SetUpRouter *)
(* adds the locations of the configuration to the Router one by one, Route *)
(* takes the first that matches the path of a Url, and its handler makes   *)
(* the path of the file.  What is done with the file is module StaticFile. *)
(***************************************************************************)
EXTENDS Url, FiniteSets

CONSTANTS
  Entries,   \* path and dir entries
  Routes     \* configurations of the route

ASSUME RoutingAssumption ==
  /\ Entries \subseteq [type : {"path", "dir"}, url : Text, file : Text]
  /\ Routes \subseteq Seq(Entries)

VARIABLES
  route,      \* the configuration: Conf::route()
  locations,  \* Router::locations_
  target      \* the handler of the last request and the path of its file

------------------------------------------------------------------------------
(***************************************************************************)
(* std::filesystem::path: operator/ and lexically_relative.                *)
(***************************************************************************)
Join(left, right) ==
  CASE IsRooted(right) -> right
    [] ~IsRooted(right) /\ (left = <<>> \/ Last(left) = "/") -> left \o right
    [] OTHER -> left \o <<"/">> \o right

\* A path's elements: the root, the names, and nothing behind a last slash.
NextName(names, seg) == IF seg = <<>> THEN names ELSE Append(names, seg)

Elements(path) ==
  LET names == FoldLeft(NextName, <<>>, Segments(path))
  IN (IF IsRooted(path) THEN << <<"/">> >> ELSE <<>>) \o names
       \o (IF names # <<>> /\ Last(path) = "/" THEN << <<>> >> ELSE <<>>)

LexicallyRelative(path, base) ==
  LET common == Len(LongestCommonPrefix({Elements(path), Elements(base)}))
      ahead == SubSeq(Elements(path), common + 1, Len(Elements(path)))
      behind == SubSeq(Elements(base), common + 1, Len(Elements(base)))
      up == Cardinality({i \in DOMAIN behind : behind[i] \notin {<<>>, Dot, DotDot}})
              - Cardinality({i \in DOMAIN behind : behind[i] = DotDot})
  IN CASE IsRooted(path) # IsRooted(base) \/ up < 0 -> <<>>
       [] OTHER -> IF up = 0 /\ (ahead = <<>> \/ Head(ahead) = <<>>) THEN Dot
                   ELSE FoldLeft(Join, <<>>, [i \in 1 .. up |-> DotDot] \o ahead)

------------------------------------------------------------------------------
(***************************************************************************)
(* Locations with the handlers SetUpRouter makes for them.                 *)
(***************************************************************************)
\* Mutant: the constructor takes the URL as it is written.
LocationAsWritten(entry) ==
  [kind |-> entry.type, url |-> entry.url, file |-> LexicallyNormal(entry.file)]

\* The entry's path, or its root, is normalised by the handler's constructor.
Location(entry) ==
  [kind |-> entry.type, url |-> LexicallyNormal(entry.url),
   file |-> LexicallyNormal(entry.file)]

Match(location, path) ==
  \/ location.kind = "path" /\ path = location.url
  \/ location.kind = "dir" /\ location.url # <<>> /\ IsPrefix(location.url, path)

\* The path a handler reads, before a directory leads to its index.html.
File(location, path) ==
  IF location.kind = "path" THEN location.file
  ELSE LexicallyNormal(Join(location.file, LexicallyRelative(path, location.url)))

NotFound == [kind |-> "404", file |-> <<>>]

Matching(router, path) == {i \in DOMAIN router : Match(router[i], path)}
First(indexes) == CHOOSE i \in indexes : \A j \in indexes : i =< j

\* Mutant: a location overrides those before it.
RouteToLast(router, path) ==
  LET found == Matching(router, path)
      i == CHOOSE k \in found : \A j \in found : j =< k
  IN IF found = {} THEN NotFound
     ELSE [kind |-> router[i].kind, file |-> File(router[i], path)]

Route(router, path) ==
  LET found == Matching(router, path)
      location == router[First(found)]
  IN IF found = {} THEN NotFound
     ELSE [kind |-> location.kind, file |-> File(location, path)]

------------------------------------------------------------------------------
SetUpInit ==
  /\ Init
  /\ route \in Routes
  /\ locations = <<>>
  /\ target = {}

\* A turn of the loop of SetUpRouter.
SetUpRouter ==
  /\ Len(locations) < Len(route)
  /\ locations' = Append(locations, Location(route[Len(locations) + 1]))
  /\ UNCHANGED <<form, url, route, target>>

\* A request comes, for which there must be a complete router (module Server);
\* if its URL is valid, HandleRecv routes by its path.
HandleRecv(f) ==
  /\ Len(locations) = Len(route)
  /\ Construct(f)
  /\ target' = IF url'.valid THEN {Route(locations, url'.path)} ELSE {}
  /\ UNCHANGED <<route, locations>>

RouteNext == SetUpRouter \/ \E f \in Forms : HandleRecv(f)

allVars == <<form, url, route, locations, target>>

RouteSpec == SetUpInit /\ [][RouteNext]_allVars

------------------------------------------------------------------------------
(***************************************************************************)
(* Properties.                                                             *)
(***************************************************************************)

\* A location added to the router never takes a path away from those before it:
\* what a path already leads to stays (router.cpp:24-31, router.hpp:39-50).
EarlierLocationsWin ==
  [][locations' # locations =>
       \A f \in Forms :
         LET path == Parse(DefaultUrl, Compose(f)).path
         IN Route(locations, path) # NotFound =>
              Route(locations', path) = Route(locations, path)]_allVars

\* What the manual's reader expects of an entry: a path location is for one path,
\* a dir location for all paths that go on from its URL, with or without the last
\* slash that the URL may have (README.md, lines 54-64).
Covers(entry, path) ==
  \/ entry.type = "path" /\ LexicallyNormal(entry.url) = LexicallyNormal(path)
  \/ /\ entry.type = "dir" /\ IsRooted(entry.url)
     /\ IsPrefix(Resolved(entry.url), Resolved(path))
     /\ Resolved(entry.url) = Resolved(path) =>
          "/" \notin {Last(LexicallyNormal(entry.url))} \ {Last(LexicallyNormal(path))}

\* The names of the file meant.
Meant(entry, path) ==
  IF entry.type = "path" THEN Resolved(entry.file)
  ELSE Resolved(entry.file)
         \o SubSeq(Resolved(path), Len(Resolved(entry.url)) + 1, Len(Resolved(path)))

\* Match compares texts: without a last slash, "/foo" is for "/foobar" as well.
SplitsName(entry, path) ==
  /\ entry.type = "dir"
  /\ IsPrefix(LexicallyNormal(entry.url), LexicallyNormal(path))
  /\ ~IsPrefix(Resolved(entry.url), Resolved(path))

\* A well-formed URL is served by the first entry that covers its path, however
\* dots and empty names are spelled in the URL, in the location and in the root
\* and whichever characters of the URL are escaped other than dots and slashes,
\* and from the file of the names that remain; if no entry covers it, by the
\* handler of 404.  Left out are paths one of whose names begins with the last
\* name of a dir location (url.cpp:149-160, location.cpp:24-35,
\* location.hpp:65-103, router.cpp:24-31, static_handler.cpp:43-47, 69-73).
RoutedAsConfigured ==
  \A f \in form :
    LET path == IF f.path = <<>> THEN <<"/">> ELSE f.path
        covering == {i \in DOMAIN route : Covers(route[i], path)}
        entry == route[First(covering)]
    IN /\ WellFormed(f) /\ ~LooksAbsolute(f)
       /\ Unambiguous(f.spell) /\ KeepsNames(f.spell)
       /\ \A i \in DOMAIN route : ~SplitsName(route[i], path)
       => IF covering = {} THEN target = {NotFound}
          ELSE \E found \in target :
                 /\ found.kind = entry.type
                 /\ IsRooted(found.file) = IsRooted(entry.file)
                 /\ Resolved(found.file) = Meant(entry, path)

------------------------------------------------------------------------------
\* location.hpp, lines 39, 72 and 98: the path given to Match is a normal one.
\* A path with escaped dots or slashes is not: this is violated, see README.md.
MatchedPathIsNormal ==
  \A f \in form : url.valid => url.path = LexicallyNormal(url.path)
=============================================================================
