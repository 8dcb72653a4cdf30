----------------------------- MODULE Dominators -----------------------------
(***************************************************************************)
(* Dominators (src/unnamed/part_006, package graph) and RetainedSize       *)
(* (src/graph/retained.go) as a state machine.                             *)
(*                                                                         *)
(* Dominators runs Lengauer-Tarjan from a super-root that the code gives   *)
(* the id 0: a recursive DFS numbers the vertices (dfnum, vertex, parent), *)
(* then for i = dfsNum-1 .. 1 it computes semi(w) over the predecessors of *)
(* w with the link-eval forest (ancestor, best, path compression), buckets *)
(* w under its semidominator, links w and settles the bucket of parent(w); *)
(* a forward pass fixes the deferred vertices through samedom.  Each step  *)
(* of the recursion and of the loops is one action; the order the code     *)
(* visits pointer lists and objects in (slice order, map iteration order)  *)
(* is chosen by the model.  RetainedSize then builds the dominator tree    *)
(* and sums self sizes bottom-up; it is one action, Retained.              *)
(***************************************************************************)
EXTENDS Naturals, Sequences, FiniteSets, SequencesExt, HeapGraph

CONSTANTS
    Ids,        \* object ids the parser assigns (graph.ObjID)
    Size,       \* Size[id]: the object's self size in bytes
    Graphs,     \* the graphs Dominators is called on, each over some of Ids
    SuperRoot   \* model value: the spec's super-root, distinct from all ids

ASSUME /\ Ids \subseteq Nat /\ Size \in [Ids -> Nat] /\ SuperRoot \notin Ids
       /\ \A G \in Graphs : G.objs \subseteq Ids /\ G \in GraphsOver(G.objs)

VARIABLES
    g,          \* the graph passed in (never changed)
    pc,         \* "dfs", "step2", "step3", "step4", "done"
    stack,      \* DFS recursion: frames [v, rest] with rest = unvisited ptrs
    dfnum, vertex, parent, semi, ancestor, best, samedom, idom, bucket,
    i,          \* loop index over DFS numbers (steps 2-4)
    preds,      \* predecessors of vertex[i] still to process in step 2
    pending,    \* rest of bucket[parent[w]] being settled in step 3
    retained    \* the map RetainedSize returns

vars == <<g, pc, stack, dfnum, vertex, parent, semi, ancestor, best,
          samedom, idom, bucket, i, preds, pending, retained>>

SUPER == 0                      \* the id the code gives its super-root
Unvisited == -1                 \* dfnum has no entry
NoIdom == -1                    \* idom has no entry
AllV == g.objs \cup {SUPER}
MaxNum == Cardinality(Ids \cup {SUPER}) - 1

\* vertex[k] of the code: vertices are numbered from 0.
V(k) == vertex[k + 1]

\* Go's map read idom[x]: the zero value 0 when x has no entry.
IdomOf(x) == IF idom[x] = NoIdom THEN 0 ELSE idom[x]

(* adj of lines 11-28: adj[0] = roots, then adj[obj.ID] = obj.Ptrs for     *)
(* every object; both parsers give every object a non-nil Ptrs slice, so   *)
(* an object with id 0 replaces the super-root's list.                     *)
Adj(v) ==
    IF v \in g.objs THEN g.ptrs[v]
    ELSE IF v = SUPER THEN g.roots ELSE {}

(* Predecessors of w visited in step 2 (lines 100-112): every object       *)
(* pointing to w, and the super-root when adj[0] holds w.                  *)
Preds(w) ==
    {o \in g.objs : w \in g.ptrs[o]} \cup (IF w \in Adj(SUPER) THEN {SUPER} ELSE {})

(* compress (lines 66-80) on the forest st = [ancestor, best].             *)
RECURSIVE Compress(_, _)
Compress(v, st) ==
    LET anc == st.ancestor[v] IN
    IF anc = -1 THEN st
    ELSE LET ancID == V(anc) IN
         IF st.ancestor[ancID] = -1 THEN st
         ELSE LET s1 == Compress(ancID, st)
                  b1 == IF semi[s1.best[ancID]] < semi[s1.best[v]]
                        THEN [s1.best EXCEPT ![v] = s1.best[ancID]]
                        ELSE s1.best
              IN  [ancestor |-> [s1.ancestor EXCEPT ![v] = s1.ancestor[ancID]],
                   best     |-> b1]

(* eval (lines 82-88): the vertex it returns and the compressed forest.    *)
Eval(v) ==
    LET st == [ancestor |-> ancestor, best |-> best] IN
    IF ancestor[v] = -1 THEN <<v, st>>
    ELSE LET s1 == Compress(v, st) IN <<s1.best[v], s1>>

-----------------------------------------------------------------------------
Init ==
    /\ g \in Graphs
    \* dfs(0, -1): the super-root gets number 0
    /\ dfnum    = [v \in Ids \cup {SUPER} |-> IF v = SUPER THEN 0 ELSE Unvisited]
    /\ vertex   = <<SUPER>>
    /\ parent   = [v \in Ids \cup {SUPER} |-> -1]
    /\ semi     = [v \in Ids \cup {SUPER} |-> 0]
    /\ ancestor = [v \in Ids \cup {SUPER} |-> -1]
    /\ best     = [v \in Ids \cup {SUPER} |-> v]
    /\ samedom  = [v \in Ids \cup {SUPER} |-> v]
    /\ idom     = [v \in Ids \cup {SUPER} |-> NoIdom]
    /\ bucket   = [n \in 0..MaxNum |-> <<>>]
    /\ stack    = <<[v |-> SUPER, rest |-> Adj(SUPER)]>>
    /\ pc = "dfs"
    /\ i = 0 /\ preds = {} /\ pending = <<>> /\ retained = <<>>

Top == stack[Len(stack)]

\* The loop over adj[v] in dfs has finished: return to the caller.
DfsReturn ==
    /\ pc = "dfs" /\ stack # <<>> /\ Top.rest = {}
    /\ stack' = Front(stack)
    /\ UNCHANGED <<g, pc, dfnum, vertex, parent, semi, ancestor, best,
                   samedom, idom, bucket, i, preds, pending, retained>>

(* Mutant: numbers a new vertex one past the next free number.            *)
DfsCallOffByOne(w) ==
    /\ pc = "dfs" /\ stack # <<>> /\ w \in Top.rest
    /\ LET rest1 == [stack EXCEPT ![Len(stack)].rest = @ \ {w}] IN
       IF dfnum[w] # Unvisited
       THEN /\ stack' = rest1
            /\ UNCHANGED <<dfnum, vertex, parent, semi, ancestor, best, samedom>>
       ELSE /\ dfnum'    = [dfnum EXCEPT ![w] = Len(vertex) + 1]
            /\ vertex'   = Append(vertex, w)
            /\ parent'   = [parent EXCEPT ![w] = dfnum[Top.v]]
            /\ semi'     = [semi EXCEPT ![w] = Len(vertex)]
            /\ ancestor' = [ancestor EXCEPT ![w] = -1]
            /\ best'     = [best EXCEPT ![w] = w]
            /\ samedom'  = [samedom EXCEPT ![w] = w]
            /\ stack'    = Append(rest1, [v |-> w, rest |-> Adj(w)])
    /\ UNCHANGED <<g, pc, idom, bucket, i, preds, pending, retained>>

(* dfs(w, dfnum[v]) for the next w of adj[v]; it returns at once when w    *)
(* is already numbered (lines 45-47), else numbers w (lines 49-56).        *)
DfsCall(w) ==
    /\ pc = "dfs" /\ stack # <<>> /\ w \in Top.rest
    /\ LET rest1 == [stack EXCEPT ![Len(stack)].rest = @ \ {w}] IN
       IF dfnum[w] # Unvisited
       THEN /\ stack' = rest1
            /\ UNCHANGED <<dfnum, vertex, parent, semi, ancestor, best, samedom>>
       ELSE /\ dfnum'    = [dfnum EXCEPT ![w] = Len(vertex)]
            /\ vertex'   = Append(vertex, w)
            /\ parent'   = [parent EXCEPT ![w] = dfnum[Top.v]]
            /\ semi'     = [semi EXCEPT ![w] = Len(vertex)]
            /\ ancestor' = [ancestor EXCEPT ![w] = -1]
            /\ best'     = [best EXCEPT ![w] = w]
            /\ samedom'  = [samedom EXCEPT ![w] = w]
            /\ stack'    = Append(rest1, [v |-> w, rest |-> Adj(w)])
    /\ UNCHANGED <<g, pc, idom, bucket, i, preds, pending, retained>>

\* The DFS is over: start the loop of line 95 at i = dfsNum - 1.
DfsDone ==
    /\ pc = "dfs" /\ stack = <<>>
    /\ IF Len(vertex) > 1
       THEN /\ pc' = "step2" /\ i' = Len(vertex) - 1
            /\ preds' = Preds(V(Len(vertex) - 1))
       ELSE /\ pc' = "step4" /\ i' = 1 /\ UNCHANGED preds
    /\ UNCHANGED <<g, stack, dfnum, vertex, parent, semi, ancestor, best,
                   samedom, idom, bucket, pending, retained>>

(* Mutant: takes v itself as the candidate even when it is numbered after w. *)
ProcessEdgeNoEval(v) ==
    /\ pc = "step2" /\ v \in preds
    /\ preds' = preds \ {v}
    /\ LET w == V(i) IN
       IF dfnum[v] = Unvisited
       THEN UNCHANGED <<semi, ancestor, best>>
       ELSE /\ semi' = IF semi[v] < semi[w]
                       THEN [semi EXCEPT ![w] = semi[v]] ELSE semi
            /\ UNCHANGED <<ancestor, best>>
    /\ UNCHANGED <<g, pc, stack, dfnum, vertex, parent, samedom, idom,
                   bucket, i, pending, retained>>

(* processEdge(v, w) (lines 148-166) for one predecessor v of w = vertex[i]. *)
ProcessEdge(v) ==
    /\ pc = "step2" /\ v \in preds
    /\ preds' = preds \ {v}
    /\ LET w == V(i) IN
       IF dfnum[v] = Unvisited
       THEN UNCHANGED <<semi, ancestor, best>>
       ELSE LET r == IF dfnum[v] <= dfnum[w]
                     THEN <<v, [ancestor |-> ancestor, best |-> best]>>
                     ELSE Eval(v)
                u == r[1]
            IN  /\ semi' = IF semi[u] < semi[w]
                           THEN [semi EXCEPT ![w] = semi[u]] ELSE semi
                /\ ancestor' = r[2].ancestor
                /\ best' = r[2].best
    /\ UNCHANGED <<g, pc, stack, dfnum, vertex, parent, samedom, idom,
                   bucket, i, pending, retained>>

(* Lines 114-120: bucket w under semi[w], link w to its parent, and take    *)
(* the bucket of parent[w] for step 3.                                     *)
Step2Done ==
    /\ pc = "step2" /\ preds = {}
    /\ LET w == V(i)
           b1 == [bucket EXCEPT ![semi[w]] = Append(@, w)]
       IN  /\ bucket' = b1
           /\ ancestor' = IF parent[w] # -1
                          THEN [ancestor EXCEPT ![w] = parent[w]] ELSE ancestor
           /\ pending' = b1[parent[w]]
    /\ pc' = "step3"
    /\ UNCHANGED <<g, stack, dfnum, vertex, parent, semi, best, samedom,
                   idom, i, preds, retained>>

(* Lines 123-130, for the next v of bucket[parent[w]]: idom(v) is parent(w) *)
(* when eval(v) has the same semidominator, else it is deferred to u.       *)
Step3Visit ==
    /\ pc = "step3" /\ pending # <<>>
    /\ LET w == V(i)
           v == Head(pending)
           r == Eval(v)
           u == r[1]
       IN  /\ IF semi[u] = semi[v]
              THEN /\ idom' = [idom EXCEPT ![v] = V(parent[w])]
                   /\ UNCHANGED samedom
              ELSE /\ samedom' = [samedom EXCEPT ![v] = u]
                   /\ UNCHANGED idom
           /\ ancestor' = r[2].ancestor
           /\ best' = r[2].best
    /\ pending' = Tail(pending)
    /\ UNCHANGED <<g, pc, stack, dfnum, vertex, parent, semi, bucket, i,
                   preds, retained>>

(* Mutant: the loop forgets i--.                                          *)
Step3DoneNoDecrement ==
    /\ pc = "step3" /\ pending = <<>>
    /\ bucket' = [bucket EXCEPT ![parent[V(i)]] = <<>>]
    /\ IF i - 1 > 0
       THEN /\ pc' = "step2" /\ i' = i /\ preds' = Preds(V(i))
       ELSE /\ pc' = "step4" /\ i' = 1 /\ UNCHANGED preds
    /\ UNCHANGED <<g, stack, dfnum, vertex, parent, semi, ancestor, best,
                   samedom, idom, pending, retained>>

(* Mutant: the reverse loop bound one too high (i > 1), so the vertex      *)
(* numbered 1 never gets steps 2 and 3.                                    *)
Step3DoneLoopBound ==
    /\ pc = "step3" /\ pending = <<>>
    /\ bucket' = [bucket EXCEPT ![parent[V(i)]] = <<>>]
    /\ IF i - 1 > 1
       THEN /\ pc' = "step2" /\ i' = i - 1 /\ preds' = Preds(V(i - 1))
       ELSE /\ pc' = "step4" /\ i' = 1 /\ UNCHANGED preds
    /\ UNCHANGED <<g, stack, dfnum, vertex, parent, semi, ancestor, best,
                   samedom, idom, pending, retained>>

\* Line 131 and the loop step i--: empty the bucket, go to the next vertex.
Step3Done ==
    /\ pc = "step3" /\ pending = <<>>
    /\ bucket' = [bucket EXCEPT ![parent[V(i)]] = <<>>]
    /\ IF i - 1 > 0
       THEN /\ pc' = "step2" /\ i' = i - 1 /\ preds' = Preds(V(i - 1))
       ELSE /\ pc' = "step4" /\ i' = 1 /\ UNCHANGED preds
    /\ UNCHANGED <<g, stack, dfnum, vertex, parent, semi, ancestor, best,
                   samedom, idom, pending, retained>>

(* Mutant: the forward pass of step 4 is left out.                          *)
Step4Skipped ==
    /\ pc = "step4" /\ i < Len(vertex)
    /\ i' = i + 1
    /\ UNCHANGED <<g, pc, stack, dfnum, vertex, parent, semi, ancestor, best,
                   samedom, idom, bucket, preds, pending, retained>>

\* Lines 135-140: settle a deferred vertex through samedom.
Step4 ==
    /\ pc = "step4" /\ i < Len(vertex)
    /\ LET w == V(i) IN
       idom' = IF samedom[w] # w
               THEN [idom EXCEPT ![w] = IdomOf(samedom[w])] ELSE idom
    /\ i' = i + 1
    /\ UNCHANGED <<g, pc, stack, dfnum, vertex, parent, semi, ancestor, best,
                   samedom, bucket, preds, pending, retained>>

\* The map Dominators returns: idom without the super-root (line 143).
Result == [x \in {y \in AllV \ {SUPER} : idom[y] # NoIdom} |-> idom[x]]

(* DominatorTree (lines 170-185): an entry for every node of idom and the  *)
(* super-root, listing the nodes it immediately dominates.                 *)
DominatorTree(idomMap) ==
    [n \in DOMAIN idomMap \cup {SUPER} |-> {x \in DOMAIN idomMap : idomMap[x] = n}]

\* tree[n] of the code over the tree of Result: nil (no children) if absent.
Children(n) ==
    LET tree == DominatorTree(Result)
    IN  IF n \in DOMAIN tree THEN tree[n] ELSE {}

(* objSizes of RetainedSize: object sizes, then objSizes[0] = 0 for the    *)
(* super-root; a missing id reads as 0.                                    *)
ObjSize(n) == IF n = SUPER \/ n \notin g.objs THEN 0 ELSE Size[n]

(* Mutant: adds the children's self sizes instead of their retained sizes. *)
RetainedOfShallow(n) == ObjSize(n) + MapThenSumSet(ObjSize, Children(n))

(* computeRetained (retained.go): self size plus the children's totals.    *)
RECURSIVE RetainedOf(_)
RetainedOf(n) == ObjSize(n) + MapThenSumSet(RetainedOf, Children(n))

(* RetainedSize: Dominators has returned; build the tree, compute every    *)
(* node's retained size and drop the super-root.                           *)
Retained ==
    /\ pc = "step4" /\ i >= Len(vertex)
    /\ retained' = [x \in DOMAIN Result |-> RetainedOf(x)]
    /\ pc' = "done"
    /\ UNCHANGED <<g, stack, dfnum, vertex, parent, semi, ancestor, best,
                   samedom, idom, bucket, i, preds, pending>>

-----------------------------------------------------------------------------
(* The dominator-tree utilities of src/graph/domtree.go, as operators over *)
(* the map Dominators returns.                                             *)

RECURSIVE ComputeDepth(_, _, _)

(* Mutant: a child is given its parent's depth.                            *)
ComputeDepthFlat(tree, node, d) ==
    FoldSet(LAMBDA child, depth : ComputeDepth(tree, child, d) @@ depth,
            node :> d, IF node \in DOMAIN tree THEN tree[node] ELSE {})

(* computeDepth of DominatorDepth: depth[node] = d, then every child of    *)
(* tree[node] one level deeper; the subtrees are disjoint, so the order of *)
(* the child list does not matter.                                         *)
ComputeDepth(tree, node, d) ==
    FoldSet(LAMBDA child, depth : ComputeDepth(tree, child, d + 1) @@ depth,
            node :> d, IF node \in DOMAIN tree THEN tree[node] ELSE {})

\* DominatorDepth: computeDepth(0, 0) from the super-root.
DominatorDepth(tree) == ComputeDepth(tree, SUPER, 0)

RECURSIVE DominatorPath(_, _)

(* Mutant: the loop stops at the top without appending the super-root.     *)
DominatorPathNoSuper(idomMap, current) ==
    IF current \notin DOMAIN idomMap \/ idomMap[current] = SUPER
    THEN <<current>>
    ELSE <<current>> \o DominatorPath(idomMap, idomMap[current])

(* DominatorPath: append current; with no entry or an idom of 0 append the *)
(* super-root unless current is it, and stop; otherwise climb to idom.     *)
DominatorPath(idomMap, current) ==
    IF current \notin DOMAIN idomMap \/ idomMap[current] = SUPER
    THEN IF current # SUPER THEN <<current, SUPER>> ELSE <<current>>
    ELSE <<current>> \o DominatorPath(idomMap, idomMap[current])

RECURSIVE IsDominatedFrom(_, _, _)

(* Mutant: reaching an idom of 0 answers true whatever the dominator.      *)
IsDominatedFromTopTrue(idomMap, current, dominator) ==
    IF current \notin DOMAIN idomMap THEN FALSE
    ELSE IF idomMap[current] = dominator THEN TRUE
    ELSE IF idomMap[current] = SUPER THEN TRUE
    ELSE IsDominatedFrom(idomMap, idomMap[current], dominator)

(* The loop of IsDominated: no entry is false, meeting the dominator is    *)
(* true, an idom of 0 is true only for the dominator 0, else climb.        *)
IsDominatedFrom(idomMap, current, dominator) ==
    IF current \notin DOMAIN idomMap THEN FALSE
    ELSE IF idomMap[current] = dominator THEN TRUE
    ELSE IF idomMap[current] = SUPER THEN dominator = SUPER
    ELSE IsDominatedFrom(idomMap, idomMap[current], dominator)

\* IsDominated: a node dominates itself, otherwise walk its idom chain.
IsDominated(idomMap, node, dominator) ==
    node = dominator \/ IsDominatedFrom(idomMap, node, dominator)

Done == pc = "done" /\ UNCHANGED vars

Next ==
    \/ DfsReturn
    \/ \E w \in Ids \cup {SUPER} : DfsCall(w)
    \/ DfsDone
    \/ \E v \in Ids \cup {SUPER} : ProcessEdge(v)
    \/ Step2Done
    \/ Step3Visit
    \/ Step3Done
    \/ Step4
    \/ Retained
    \/ Done

\* The function runs to completion on one goroutine.
Spec == Init /\ [][Next]_vars /\ WF_vars(Next)

-----------------------------------------------------------------------------
AllIds == Ids \cup {SUPER}

TypeOK ==
    /\ pc \in {"dfs", "step2", "step3", "step4", "done"}
    /\ dfnum \in [AllIds -> {Unvisited} \cup 0..MaxNum]
    /\ vertex \in Seq(AllIds)
    /\ semi \in [AllIds -> 0..MaxNum]
    /\ ancestor \in [AllIds -> -1..MaxNum]
    /\ best \in [AllIds -> AllIds] /\ samedom \in [AllIds -> AllIds]
    /\ idom \in [AllIds -> AllIds \cup {NoIdom}]
    /\ bucket \in [0..MaxNum -> Seq(AllIds)]
    /\ preds \subseteq AllIds

\* The reference immediate dominators, with the super-root written as the
\* id the code reserves for it.
ExpectedIdom ==
    [b \in Reachable(g, SuperRoot) |->
        LET d == ImmediateDominator(g, SuperRoot, b)
        IN  IF d = SuperRoot THEN SUPER ELSE d]

(* When Dominators returns, its map holds exactly the objects reachable    *)
(* from a root and gives each its immediate dominator: the object on every *)
(* path from the super-root closest to it (spec 4.8, properties 9).        *)
IdomIsImmediateDominator ==
    pc = "done" => Result = ExpectedIdom

(* RetainedSize gives every reachable object the bytes that would become   *)
(* unreachable if it were collected (the glossary's retained size), which  *)
(* is only true if the dominator tree and the post-order sum are right.    *)
RetainedIsFreedBytes ==
    pc = "done" =>
        /\ DOMAIN retained = Reachable(g, SuperRoot)
        /\ \A x \in DOMAIN retained :
              retained[x] = RetainedBytes(g, SuperRoot, Size, x)

\* An id of the code as a node of the reference graph.
ToRef(a) == IF a = SUPER THEN SuperRoot ELSE a

(* IsDominated over the map Dominators returns answers exactly the         *)
(* dominance of the graph for every reachable node and every candidate id, *)
(* objects absent from the graph and the super-root 0 included: its loop   *)
(* must stop at the top of the chain with the right answer.                *)
IsDominatedIsDominance ==
    pc = "done" =>
        \A b \in Reachable(g, SuperRoot), a \in AllIds :
            IsDominated(Result, b, a) <=> Dominates(g, SuperRoot, ToRef(a), b)

(* DominatorPath of a reachable object lists each of its dominators once,  *)
(* the super-root included, starting at the object and climbing so that    *)
(* each entry dominates the one before it.                                 *)
DominatorPathListsDominators ==
    pc = "done" =>
        \A v \in Reachable(g, SuperRoot) :
            LET p == DominatorPath(Result, v) IN
            /\ IsInjective(p) /\ p[1] = v
            /\ Range(p) = {a \in AllIds : Dominates(g, SuperRoot, ToRef(a), v)}
            /\ \A k \in 1..Len(p) - 1 : Dominates(g, SuperRoot, ToRef(p[k + 1]), p[k])

(* DominatorDepth, computed top-down over DominatorTree, gives the super-  *)
(* root and exactly the objects of the map a depth, and each object's      *)
(* depth is the number of steps DominatorPath climbs from it.              *)
DepthIsPathLength ==
    pc = "done" =>
        LET depth == DominatorDepth(DominatorTree(Result)) IN
        /\ DOMAIN depth = DOMAIN Result \cup {SUPER}
        /\ \A v \in DOMAIN Result : depth[v] = Len(DominatorPath(Result, v)) - 1

(* Dominators terminates on every graph, cycles included.                  *)
Terminates == <>(pc = "done")
=============================================================================
