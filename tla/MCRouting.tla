----------------------------- MODULE MCRouting -----------------------------
(***************************************************************************)
(* The URLs of MCUrl, routed by configurations of up to two locations: in  *)
(* both orders, nested, overlapping, spelled with dots, empty, relative.   *)
(***************************************************************************)
EXTENDS Routing, MCUrl

Entry(type, at, file) == [type |-> type, url |-> at, file |-> file]

r == <<"r">>
Root == Entry("dir", <<"/">>, r)
A == Entry("dir", <<"/", "a", "/">>, <<"/", "s", "/", ".", ".", "/", "r">>)
ADots == Entry("dir", <<"/", ".", "/", "a", "/", "a", "/", ".", ".">>, <<>>)
Undelimited == Entry("dir", <<"/", "a">>, <<"r", "/">>)
Page == Entry("path", <<"/", "a", "/", "/", "a">>, <<".", "/", "p">>)
Nowhere == Entry("dir", <<>>, r)
Relative == Entry("dir", <<"a", "/">>, r)

MCEntries == {Root, A, ADots, Undelimited, Page, Nowhere, Relative}
MCRoutes ==
  {<<>>, <<Root, A>>, <<A, Root>>, <<ADots, Page>>, <<Page, Root>>, <<Undelimited, Page>>,
   <<Nowhere, Undelimited>>, <<Relative, Root>>}
=============================================================================
