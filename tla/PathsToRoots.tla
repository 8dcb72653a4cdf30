---------------------------- MODULE PathsToRoots ----------------------------
(***************************************************************************)
(* PathsToRoots (src/graph/paths.go) with BuildReverseEdges               *)
(* (src/graph/reverse.go).                                                 *)
(*                                                                         *)
(* The graph is a multigraph: ptrs[o][t] counts how often t occurs in      *)
(* o.Ptrs, since a pointer list may repeat a target.  BuildReverseEdges   *)
(* walks the objects in Go map order and appends o to reverse[t] once per  *)
(* occurrence, so reverse[t] lists the referrers in any order, the copies  *)
(* of one referrer next to each other; Init picks that order.  The search  *)
(* is a FIFO queue of [id, path] entries; popping an entry scans the       *)
(* referrers of its id one step at a time.                                 *)
(***************************************************************************)
EXTENDS Naturals, Sequences, FiniteSets, SequencesExt

CONSTANTS
    Ids,        \* object ids
    Graphs,     \* graphs [objs, ptrs, roots] with ptrs[o][t] a count
    From,       \* the object whose paths are asked for
    MaxPathsIn  \* the values of maxPaths the caller may pass

ASSUME From \in Ids /\ MaxPathsIn \subseteq Int

VARIABLES
    g,          \* the graph (never changed)
    maxPaths,   \* the cap K
    reverse,    \* reverse[t]: the referrer list BuildReverseEdges built
    queue,      \* BFS queue of [id, path]
    node,       \* the entry being expanded
    referrers,  \* the referrers of node.id not yet scanned
    result,     \* paths found, in the order they were appended
    pc          \* "start", "loop", "scan", "done"

vars == <<g, maxPaths, reverse, queue, node, referrers, result, pc>>

Nil == [id |-> From, path |-> <<>>]

\* Objects whose pointer lists hold t, each once.
ReferrerSet(t) == {o \in g.objs : g.ptrs[o][t] > 0}

\* reverse[t] for one map order ord of the referrers (reverse.go lines 11-18).
Expand(t, ord) ==
    FoldLeft(LAMBDA acc, o : acc \o [k \in 1..g.ptrs[o][t] |-> o], <<>>, ord)

\* All the lists BuildReverseEdges can build for t.
ReverseLists(t) == {Expand(t, ord) : ord \in SetToSeqs(ReferrerSet(t))}

\* Every reverse index BuildReverseEdges can build for the targets in T.
RECURSIVE ReverseIndexes(_)
ReverseIndexes(T) ==
    IF T = {} THEN {<<>>}
    ELSE LET t == CHOOSE x \in T : TRUE
         IN  {r @@ (t :> l) : r \in ReverseIndexes(T \ {t}), l \in ReverseLists(t)}

IsRoot(x) == x \in g.roots

-----------------------------------------------------------------------------
Init ==
    /\ g \in Graphs
    /\ maxPaths \in MaxPathsIn
    /\ reverse \in ReverseIndexes(g.objs)
    /\ queue = <<>> /\ node = Nil /\ referrers = <<>> /\ result = <<>>
    /\ pc = "start"

(* Lines 12-39: no paths for maxPaths <= 0; the single path [from] when    *)
(* from is a root; else the queue starts with [from].                      *)
Start ==
    /\ pc = "start"
    /\ IF maxPaths <= 0 \/ IsRoot(From)
       THEN /\ result' = IF maxPaths <= 0 THEN <<>> ELSE <<<<From>>>>
            /\ pc' = "done"
            /\ UNCHANGED queue
       ELSE /\ queue' = <<[id |-> From, path |-> <<From>>]>>
            /\ pc' = "loop"
            /\ UNCHANGED result
    /\ UNCHANGED <<g, maxPaths, reverse, node, referrers>>

(* Mutant: takes the newest entry (LIFO) instead of the oldest.            *)
PopLifo ==
    /\ pc = "loop" /\ queue # <<>> /\ Len(result) < maxPaths
    /\ node' = queue[Len(queue)]
    /\ queue' = Front(queue)
    /\ referrers' = reverse[queue[Len(queue)].id]
    /\ pc' = "scan"
    /\ UNCHANGED <<g, maxPaths, reverse, result>>

(* Mutant: reads the head without removing it.                             *)
PopNoDequeue ==
    /\ pc = "loop" /\ queue # <<>> /\ Len(result) < maxPaths
    /\ node' = Head(queue)
    /\ referrers' = reverse[Head(queue).id]
    /\ pc' = "scan"
    /\ UNCHANGED <<g, maxPaths, reverse, result, queue>>

(* Lines 42-47: the loop pops the oldest entry while the queue is not      *)
(* empty and fewer than maxPaths paths were found.                         *)
Pop ==
    /\ pc = "loop" /\ queue # <<>> /\ Len(result) < maxPaths
    /\ node' = Head(queue)
    /\ queue' = Tail(queue)
    /\ referrers' = reverse[Head(queue).id]
    /\ pc' = "scan"
    /\ UNCHANGED <<g, maxPaths, reverse, result>>

\* The loop condition fails: return result.
LoopExit ==
    /\ pc = "loop" /\ (queue = <<>> \/ Len(result) >= maxPaths)
    /\ pc' = "done"
    /\ UNCHANGED <<g, maxPaths, reverse, queue, node, referrers, result>>

(* Mutant: no loop check against the ids already on the path.              *)
ScanNoCycleCheck ==
    /\ pc = "scan" /\ referrers # <<>>
    /\ LET r == Head(referrers)
           newPath == Append(node.path, r)
       IN  IF IsRoot(r)
           THEN /\ result' = Append(result, newPath)
                /\ pc' = IF Len(result') >= maxPaths THEN "loop" ELSE "scan"
                /\ UNCHANGED queue
           ELSE /\ queue' = Append(queue, [id |-> r, path |-> newPath])
                /\ UNCHANGED <<result, pc>>
    /\ referrers' = Tail(referrers)
    /\ UNCHANGED <<g, maxPaths, reverse, node>>

(* Mutant: the break after reaching maxPaths is missing.                   *)
ScanNoBreak ==
    /\ pc = "scan" /\ referrers # <<>>
    /\ LET r == Head(referrers)
           newPath == Append(node.path, r)
       IN  IF r \in Range(node.path) THEN UNCHANGED <<result, queue, pc>>
           ELSE IF IsRoot(r)
           THEN /\ result' = Append(result, newPath)
                /\ UNCHANGED <<queue, pc>>
           ELSE /\ queue' = Append(queue, [id |-> r, path |-> newPath])
                /\ UNCHANGED <<result, pc>>
    /\ referrers' = Tail(referrers)
    /\ UNCHANGED <<g, maxPaths, reverse, node>>

(* Lines 49-78, one referrer r of node.id: skip r when it is on the path   *)
(* already; when r is a root append the extended path to result and break  *)
(* out of the scan once maxPaths are found; else enqueue it.               *)
Scan ==
    /\ pc = "scan" /\ referrers # <<>>
    /\ LET r == Head(referrers)
           newPath == Append(node.path, r)
       IN  IF r \in Range(node.path) THEN UNCHANGED <<result, queue, pc>>
           ELSE IF IsRoot(r)
           THEN /\ result' = Append(result, newPath)
                /\ pc' = IF Len(result') >= maxPaths THEN "loop" ELSE "scan"
                /\ UNCHANGED queue
           ELSE /\ queue' = Append(queue, [id |-> r, path |-> newPath])
                /\ UNCHANGED <<result, pc>>
    /\ referrers' = Tail(referrers)
    /\ UNCHANGED <<g, maxPaths, reverse, node>>

\* The referrers of node.id are exhausted: back to the loop condition.
ScanDone ==
    /\ pc = "scan" /\ referrers = <<>>
    /\ pc' = "loop"
    /\ UNCHANGED <<g, maxPaths, reverse, queue, node, referrers, result>>

Done == pc = "done" /\ UNCHANGED vars

Next == Start \/ Pop \/ LoopExit \/ Scan \/ ScanDone \/ Done

\* PathsToRoots runs to completion on the caller's goroutine.
Spec == Init /\ [][Next]_vars /\ WF_vars(Next)

-----------------------------------------------------------------------------
TypeOK ==
    /\ pc \in {"start", "loop", "scan", "done"}
    /\ result \in Seq(Seq(Ids))
    /\ \A k \in 1..Len(queue) : queue[k].id \in Ids /\ queue[k].path \in Seq(Ids)
    /\ referrers \in Seq(Ids)

\* p is a simple path from From to a root along reverse edges.
IsRootPath(p) ==
    /\ Len(p) >= 1 /\ p[1] = From /\ IsRoot(p[Len(p)])
    /\ \A k \in 1..Len(p) - 1 : g.ptrs[p[k + 1]][p[k]] > 0
    /\ \A j, k \in 1..Len(p) : p[j] = p[k] => j = k

(* Every path PathsToRoots returns starts at from, climbs from each object *)
(* to one that points to it, ends at a root and repeats no id (spec 8.5).  *)
PathsAreRootPaths ==
    \A k \in 1..Len(result) : IsRootPath(result[k])

(* It never returns more than maxPaths paths (spec 8.6), although roots    *)
(* are appended in the middle of the scan of one entry's referrers.        *)
AtMostMaxPaths ==
    Len(result) <= IF maxPaths <= 0 THEN 0 ELSE maxPaths

\* Every sequence of distinct objects of the graph.
InjectiveSeqs ==
    UNION {{s \in [1..n -> g.objs] : \A j, k \in 1..n : s[j] = s[k] => j = k} :
             n \in 1..Cardinality(g.objs)}

\* Root paths that stop at the first root they meet: the ones BFS can emit.
CandidatePaths ==
    {p \in InjectiveSeqs : IsRootPath(p) /\ \A k \in 1..Len(p) - 1 : ~IsRoot(p[k])}

(* The paths returned are the shortest ones (spec 4.7, FIFO pop order): a  *)
(* candidate path left out is no shorter than any returned, and one is     *)
(* only left out when maxPaths paths were returned.                        *)
ShortestPathsFirst ==
    pc = "done" /\ maxPaths > 0 =>
        \A p \in CandidatePaths :
            p \notin Range(result) =>
                /\ Len(result) >= maxPaths
                /\ \A k \in 1..Len(result) : Len(result[k]) <= Len(p)

(* The search ends on every graph, cycles included.                        *)
Terminates == <>(pc = "done")
=============================================================================
