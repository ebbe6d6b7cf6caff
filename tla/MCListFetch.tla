----------------------------- MODULE MCListFetch ----------------------------
(* Small clusters for ListFetch: what a List of each target answers is      *)
(* derived from one cluster-wide list, as the apiserver derives it.         *)
EXTENDS ListFetch

MCAll == ""
MCTargets == {"a", "b", "c", MCAll}
MCListings(L) ==
  { [t \in MCTargets |-> IF t = MCAll THEN l
                         ELSE Kept(l, {o \in Range(l) : o.ns = t})] : l \in L }

Obj(n, i) == [ns |-> n, name |-> i]

(* Two namespaces: a has two pages at ChunkSize 1; b one page or none, and  *)
(* its keys may come first, as those of "a-b" do.                           *)
TwoStates == MCListings({ <<Obj("a", 1), Obj("a", 2), Obj("b", 1)>>,
                          <<Obj("b", 2), Obj("a", 3)>> })
TwoNames == <<"a", "b">>

(* Three namespaces, of which the pattern matched the outer two. *)
WideStates == MCListings({ <<Obj("a", 1), Obj("b", 1), Obj("c", 1)>>,
                           <<Obj("b", 2), Obj("c", 2), Obj("c", 3)>>,
                           <<Obj("b", 1)>> })
WideNames == <<"a", "c">>
Second == {2}
=============================================================================
