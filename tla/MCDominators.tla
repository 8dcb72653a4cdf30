---------------------------- MODULE MCDominators ----------------------------
(* Dominators and RetainedSize over small graphs with ids from 1, the ids  *)
(* the JSON adapter accepts (it rejects id 0).  Sizes are distinct powers  *)
(* of two, so a retained total names the set of objects it sums.           *)
EXTENDS Dominators, JsonStub

\* Three objects: every pointer set (self-references included), every root set.
MCIds3 == 1..3
MCGraphs3 == GraphsOver(MCIds3)

(* Four objects, the least for which eval's path compression decides a     *)
(* semidominator: each object points to at most two others, the roots are  *)
(* {1} or {1, 2}.                                                          *)
MCIds4 == 1..4
MCGraphs4 ==
    {G \in [objs : {MCIds4},
            ptrs : [MCIds4 -> {S \in SUBSET MCIds4 : Cardinality(S) <= 2}],
            roots : {{1}, {1, 2}}] :
        \A n \in MCIds4 : n \notin G.ptrs[n]}

(* The ids GoHeapParser assigns: dense from 0 in first-seen order         *)
(* (heapdump/goheap/parser.go, nextObjID), so object 0 is also the id      *)
(* Dominators uses for its super-root.                                     *)
MCIdsGo == 0..2
MCGraphsGo == GraphsOver(MCIdsGo)
MCSizeGo == [n \in MCIdsGo |-> 2 ^ n]

\* Both families in one run: ids 1..4, sizes distinct powers of two.
MCIds == MCIds4
MCGraphs == MCGraphs3 \cup MCGraphs4
MCSize == [n \in MCIds |-> 2 ^ (n - 1)]

(* The graphs reach Dominators the way the tests build them: as JSON text  *)
(* read by JSONStub.Parse.  The dumps are both families above, the family  *)
(* with ids from 0 and one text that does not decode; Parse must reject    *)
(* all but the first two.  Objects, pointers and roots are written in      *)
(* ascending id order.                                                     *)
Ascending(S) ==
    [k \in 1..Cardinality(S) |->
        CHOOSE x \in S : Cardinality({y \in S : y < x}) = k - 1]
JsonOf(G) ==
    [objects |-> [k \in 1..Cardinality(G.objs) |->
                    LET o == Ascending(G.objs)[k]
                    IN  [id |-> o, ptrs |-> Ascending(G.ptrs[o])]],
     roots   |-> Ascending(G.roots)]
MCJsonDumps ==
    {JsonOf(G) : G \in MCGraphs3 \cup MCGraphs4 \cup MCGraphsGo} \cup {Malformed}
MCJsonIds == MCIdsGo \cup MCIds4
MCJsonGraphs ==
    {GraphOf(JsonParse(d)) : d \in {d \in MCJsonDumps : JsonParse(d) # ParseError}}
MCJsonSize == [n \in MCJsonIds |-> 2 ^ n]
=============================================================================
