--------------------------- MODULE MCPathsToRoots ---------------------------
(* PathsToRoots from object 1 over small graphs.  Fixing From loses       *)
(* nothing: every graph is enumerated, so any object can play object 1.    *)
EXTENDS PathsToRoots

\* Graphs whose pointer lists hold each target at most Mult times.
MultiGraphs(I, Mult) ==
    [objs : {I}, ptrs : [I -> [I -> 0..Mult]], roots : SUBSET I]

\* Three objects, pointer lists without repeats: every graph.
MCIds3 == 1..3
MCGraphs3 == MultiGraphs(MCIds3, 1)

(* Four objects, the least for which a shorter path can sit behind a      *)
(* longer one in the queue: no self-references, at most two referrers per  *)
(* object (so at most two orders of a reverse list), roots {4} or {3, 4}.  *)
MCIds4 == 1..4
MCGraphs4 ==
    {G \in [objs : {MCIds4}, ptrs : [MCIds4 -> [MCIds4 -> 0..1]], roots : {{4}, {3, 4}}] :
        \A n \in MCIds4 : /\ G.ptrs[n][n] = 0
                         /\ Cardinality({o \in MCIds4 : G.ptrs[o][n] > 0}) <= 2}

\* Both families in one run.
MCIds == MCIds4
MCGraphs == MCGraphs3 \cup MCGraphs4
=============================================================================
