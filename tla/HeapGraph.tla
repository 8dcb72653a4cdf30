----------------------------- MODULE HeapGraph -----------------------------
(***************************************************************************)
(* The object graph of graph/graph.go (MemGraph): a set of object ids, the *)
(* pointer list of each object and the GC roots.  A graph is a record      *)
(*   [objs |-> ids, ptrs |-> [ids -> SUBSET ids], roots |-> SUBSET ids].   *)
(* Pointer lists and roots are ordered slices in the code; the algorithms  *)
(* modelled here iterate them in an order the model chooses freely, so a   *)
(* set of targets stands for every ordering of them.                       *)
(*                                                                         *)
(* The second half gives the reference meaning of the analyses, taken from *)
(* the glossary of the spec: reachability from a synthetic super-root that *)
(* points at every root, dominance, immediate dominators and the bytes an  *)
(* object keeps alive.  These are the definitions the algorithm modules    *)
(* are checked against.                                                    *)
(***************************************************************************)
EXTENDS Naturals, FiniteSets, FiniteSetsExt

\* Every graph over the ids Ids: any pointer sets, any root set.
GraphsOver(Ids) ==
    [objs : {Ids}, ptrs : [Ids -> SUBSET Ids], roots : SUBSET Ids]

\* Objects whose pointer list holds w (graph/reverse.go BuildReverseEdges).
Referrers(G, w) == {o \in G.objs : w \in G.ptrs[o]}

-----------------------------------------------------------------------------
(* Reference semantics over the graph augmented by a super-root Super that  *)
(* is distinct from every object id, as the spec's data model requires.    *)

\* Successors of n in the augmented graph.
Succ(G, Super, n) == IF n = Super THEN G.roots ELSE G.ptrs[n]

\* Nodes reachable from the set frontier without passing through removed.
RECURSIVE ReachAvoiding(_, _, _, _, _)
ReachAvoiding(G, Super, seen, frontier, removed) ==
    IF frontier = {} THEN seen
    ELSE LET next == UNION {Succ(G, Super, n) : n \in frontier}
                        \ (seen \cup removed)
         IN  ReachAvoiding(G, Super, seen \cup next, next, removed)

\* Nodes reachable from the super-root once the node x is taken away.
ReachableWithout(G, Super, x) ==
    IF x = Super THEN {}
    ELSE ReachAvoiding(G, Super, {Super}, {Super}, {x})

\* Real objects reachable from the super-root.
Reachable(G, Super) ==
    ReachAvoiding(G, Super, {Super}, {Super}, {}) \ {Super}

\* a dominates b: every path from the super-root to b passes a.
Dominates(G, Super, a, b) ==
    a = b \/ b \notin ReachableWithout(G, Super, a)

StrictDominators(G, Super, b) ==
    {a \in G.objs \cup {Super} : a # b /\ Dominates(G, Super, a, b)}

\* The strict dominator of b dominated by all the others.
ImmediateDominator(G, Super, b) ==
    LET D == StrictDominators(G, Super, b)
    IN  CHOOSE d \in D : \A a \in D : Dominates(G, Super, a, d)

\* Objects that become unreachable when x is collected: what x retains.
Freed(G, Super, x) == Reachable(G, Super) \ ReachableWithout(G, Super, x)

\* Bytes retained by x, per the glossary's definition of retained size.
RetainedBytes(G, Super, Size, x) ==
    MapThenSumSet(LAMBDA y : Size[y], Freed(G, Super, x))
=============================================================================
