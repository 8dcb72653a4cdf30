---------------------------- MODULE GoHeapParser ----------------------------
(***************************************************************************)
(* GoHeapParser.Parse (src/heapdump/goheap/parser.go): the batch parser    *)
(* that builds a MemGraph from a Go heap dump, one record per step.        *)
(*                                                                         *)
(* A record is a record of the fields its kind uses (MCGoHeapParser builds *)
(* them).  An object's contents are abstracted to its length, the type     *)
(* address its first pointerSize bytes hold, and its field list; a field   *)
(* is [kind, offset, target], target being the value of the pointerSize    *)
(* bytes at offset.  Unsigned arithmetic is done at width W (Go: 64), so   *)
(* offset + pointerSize wraps, and int(x) of a value with the top bit set  *)
(* is negative, exactly as in the code.                                    *)
(***************************************************************************)
EXTENDS Naturals, Integers, Sequences, FiniteSets, SequencesExt

CONSTANTS
    Dumps,      \* the record sequences after the header
    W,          \* width of uint64 in the model
    NoType      \* model value: the type name "unknown"

Modulus == 2 ^ W

\* int(x) for an unsigned x of width W.
ToInt(x) == IF x >= Modulus \div 2 THEN x - Modulus ELSE x

\* offset + p.pointerSize in uint64 arithmetic.
AddU(x, y) == (x + y) % Modulus

VARIABLES
    dump,        \* the records (never changed)
    pos,         \* index of the next record
    pc,          \* "run", "done" (Parse returned the graph), "err", "panic"
    pointerSize, \* p.pointerSize (0 until a Params record)
    types,       \* p.types: type address -> name
    addrToObjID, \* p.addrToObjID: address -> id
    nextObjID,   \* p.nextObjID
    objects,     \* the MemGraph's objects: id -> [addr, type, size, ptrs]
    roots,       \* p.roots
    graphRoots   \* the roots SetRoots gave the graph (finalize)

vars == <<dump, pos, pc, pointerSize, types, addrToObjID, nextObjID,
          objects, roots, graphRoots>>

Cur == dump[pos]

\* The value the first pointerSize bytes of an object decode to: only the
\* widths 4 and 8 are decoded, any other leaves the value 0.
Decoded(ps, v) == IF ps \in {4, 8} THEN v ELSE 0

-----------------------------------------------------------------------------
Init ==
    /\ dump \in Dumps
    /\ pos = 1 /\ pc = "run" /\ pointerSize = 0
    /\ types = <<>> /\ addrToObjID = <<>> /\ nextObjID = 0
    /\ objects = <<>> /\ roots = <<>> /\ graphRoots = <<>>

\* Mutant: one record too many is consumed.
AdvanceTwice == pos' = pos + 2

\* Fields of the record are consumed; the loop reads the next tag.
Advance == pos' = pos + 1

\* Mutant: the id counter is not incremented.
AssignIDNoIncrement == nextObjID' = nextObjID

\* Lines 395-396: objID := p.nextObjID; p.nextObjID++.
AssignID == nextObjID' = nextObjID + 1

(* parseParams (lines 266-304): only pointerSize matters to the graph.     *)
ParseParams ==
    /\ pc = "run" /\ pos <= Len(dump) /\ Cur.kind = "params"
    /\ pointerSize' = Cur.ptrSize
    /\ Advance
    /\ UNCHANGED <<dump, pc, types, addrToObjID, nextObjID, objects, roots,
                   graphRoots>>

(* parseType (lines 307-340): p.types[addr] = name, a later record for the *)
(* same address replacing an earlier one.                                  *)
ParseType ==
    /\ pc = "run" /\ pos <= Len(dump) /\ Cur.kind = "type"
    /\ types' = (Cur.addr :> Cur.name) @@ types
    /\ Advance
    /\ UNCHANGED <<dump, pc, pointerSize, addrToObjID, nextObjID, objects,
                   roots, graphRoots>>

(* Line 371: the bounds test of a pointer field, in uint64 and int.        *)
FieldInBounds(f, ps, len) ==
    f.kind = "ptr" /\ ToInt(AddU(f.offset, ps)) <= len

(* Line 373: data[offset : offset+ps] panics unless                        *)
(* offset <= offset+ps <= len(data), computed with wrap-around.            *)
SlicePanics(lo, hi, len) == ~(lo <= hi /\ hi <= len)

(* The field loop (lines 355-392) panics on a field that passes the test  *)
(* but whose slice is out of range.                                        *)
FieldPanics(f, ps, len) ==
    /\ FieldInBounds(f, ps, len)
    /\ SlicePanics(f.offset, AddU(f.offset, ps), len)

(* Lines 399-419: data[:ps] is read when len(data) >= int(ps); it panics   *)
(* when ps > len(data) although the test passed.                           *)
TypeAddrPanics(ps, len) == ToInt(ps) <= len /\ ps > len

\* Mutant: len(data) > int(ps) instead of >=.
TypeNameStrict(rec, ps, ty) ==
    LET ta == Decoded(ps, rec.typeAddr)
    IN  IF ToInt(ps) < rec.len /\ ta \in DOMAIN ty THEN ty[ta] ELSE NoType

\* The type name lines 399-419 settle on.
TypeName(rec, ps, ty) ==
    LET ta == Decoded(ps, rec.typeAddr)
    IN  IF ToInt(ps) <= rec.len /\ ta \in DOMAIN ty THEN ty[ta] ELSE NoType

(* parseObject (lines 343-440): the field loop extracts the non-null       *)
(* in-bounds pointers, then the object gets the next id, addrToObjID is    *)
(* set (a later object with the same address wins), the type is looked up *)
(* and the object is added with an empty pointer list: the pointers        *)
(* extracted are never stored.                                             *)
ParseObject ==
    /\ pc = "run" /\ pos <= Len(dump) /\ Cur.kind = "object"
    /\ LET ps == pointerSize
           panics == \/ \E k \in 1..Len(Cur.fields) : FieldPanics(Cur.fields[k], ps, Cur.len)
                     \/ TypeAddrPanics(ps, Cur.len)
       IN  IF panics
           THEN /\ pc' = "panic"
                /\ UNCHANGED <<pos, addrToObjID, nextObjID, objects>>
           ELSE /\ AssignID
                /\ addrToObjID' = (Cur.addr :> nextObjID) @@ addrToObjID
                \* AddObject: g.objects[obj.ID] = obj
                /\ objects' = (nextObjID :> [addr |-> Cur.addr,
                                             type |-> TypeName(Cur, ps, types),
                                             size |-> Cur.len,
                                             ptrs |-> <<>>]) @@ objects
                /\ Advance
                /\ UNCHANGED pc
    /\ UNCHANGED <<dump, pointerSize, types, roots, graphRoots>>

(* parseOtherRoot (lines 443-465): the root is resolved now; a root whose  *)
(* object has not been read yet is dropped.                                *)
ParseOtherRoot ==
    /\ pc = "run" /\ pos <= Len(dump) /\ Cur.kind = "root"
    /\ roots' = IF Cur.ptr \in DOMAIN addrToObjID
                THEN Append(roots, addrToObjID[Cur.ptr]) ELSE roots
    /\ Advance
    /\ UNCHANGED <<dump, pc, pointerSize, types, addrToObjID, nextObjID,
                   objects, graphRoots>>

(* The records the parser reads and drops (lines 173-211: goroutines,      *)
(* stack frames, memstats, itabs, finalizers, segments, defer/panic, OS    *)
(* threads, memprof).                                                      *)
SkipRecord ==
    /\ pc = "run" /\ pos <= Len(dump) /\ Cur.kind = "skip"
    /\ Advance
    /\ UNCHANGED <<dump, pc, pointerSize, types, addrToObjID, nextObjID,
                   objects, roots, graphRoots>>

\* Line 212: an unknown tag (or a record that fails to decode) ends Parse.
ParseError ==
    /\ pc = "run" /\ pos <= Len(dump) /\ Cur.kind = "bad"
    /\ pc' = "err"
    /\ UNCHANGED <<dump, pos, pointerSize, types, addrToObjID, nextObjID,
                   objects, roots, graphRoots>>

\* Mutant: finalize forgets SetRoots.
FinalizeNoSetRoots ==
    /\ pc = "run"
    /\ pos > Len(dump) \/ (pos <= Len(dump) /\ Cur.kind = "eof")
    /\ pc' = "done"
    /\ UNCHANGED <<dump, pos, pointerSize, types, addrToObjID, nextObjID,
                   objects, roots, graphRoots>>

(* An EOF record (line 144) or the end of the stream (line 137): finalize  *)
(* (lines 221-224) hands the roots to the graph; nothing else is resolved. *)
Finalize ==
    /\ pc = "run"
    /\ pos > Len(dump) \/ (pos <= Len(dump) /\ Cur.kind = "eof")
    /\ graphRoots' = roots
    /\ pc' = "done"
    /\ UNCHANGED <<dump, pos, pointerSize, types, addrToObjID, nextObjID,
                   objects, roots>>

Stopped == pc \in {"done", "err", "panic"} /\ UNCHANGED vars

Next ==
    \/ ParseParams \/ ParseType \/ ParseObject \/ ParseOtherRoot
    \/ SkipRecord \/ ParseError \/ Finalize \/ Stopped

\* Parse runs to completion on the caller's goroutine.
Spec == Init /\ [][Next]_vars /\ WF_vars(Next)
-----------------------------------------------------------------------------
\* The indexes of the elements of s that pass Test, in order.
IndexesWhere(s, Test(_)) == SelectSeq([k \in 1..Len(s) |-> k], LAMBDA k : Test(s[k]))

\* The record indexes of the Object records, in dump order.
ObjRecs == IndexesWhere(dump, LAMBDA r : r.kind = "object")

TypeOK ==
    /\ pc \in {"run", "done", "err", "panic"}
    /\ pos \in 1..Len(dump) + 1
    /\ nextObjID \in Nat
    /\ DOMAIN objects \subseteq 0..nextObjID
    /\ graphRoots \in Seq(DOMAIN objects)

(* The graph has ids 0..N-1 for its N Object records, the i-th record      *)
(* getting id i-1 (spec 8.2, id density), although ids come from a         *)
(* counter and AddObject overwrites an object with the same id.            *)
ObjectsInRecordOrder ==
    pc = "done" =>
        /\ DOMAIN objects = 0..Len(ObjRecs) - 1
        /\ \A id \in DOMAIN objects : objects[id].addr = dump[ObjRecs[id + 1]].addr

\* The ids of the graph's objects at address a.
IdsAt(a) == {id \in DOMAIN objects : objects[id].addr = a}

(* The graph's roots are exactly the objects some root record points at    *)
(* (spec 4.4: root addresses are rewritten to ids in the finalization      *)
(* pass, after EOF).                                                       *)
RootsAreResolved ==
    pc = "done" =>
        Range(graphRoots) =
            UNION {IdsAt(dump[k].ptr) : k \in {k \in 1..Len(dump) : dump[k].kind = "root"}}

\* The name of the last type record for type address ta, if any.
TypeRecordName(ta) ==
    LET ks == {k \in 1..Len(dump) : dump[k].kind = "type" /\ dump[k].addr = ta}
    IN  IF ks = {} THEN NoType ELSE dump[Max(ks)].name

(* Every object is typed by the type record its embedded type address      *)
(* names, and "unknown" only when there is none (spec 4.4, scenario F).    *)
TypesResolved ==
    pc = "done" =>
        \A id \in DOMAIN objects :
            objects[id].type = TypeRecordName(Decoded(pointerSize, dump[ObjRecs[id + 1]].typeAddr))

\* The ids the non-null in-bounds pointer fields of record rec resolve to.
ExpectedPtrs(rec) ==
    LET ok(f) == FieldInBounds(f, pointerSize, rec.len)
                 /\ IdsAt(Decoded(pointerSize, f.target)) # {}
        sel == SelectSeq(rec.fields, ok)
    IN  [i \in 1..Len(sel) |-> CHOOSE id \in IdsAt(sel[i].target) : TRUE]

(* Every object keeps the pointers of its record, rewritten to ids, the    *)
(* unresolved ones dropped (spec 4.4, 8.1; scenario F expects the first   *)
(* object's pointer list to hold the second object's id).                  *)
PointersPreserved ==
    pc = "done" =>
        \A id \in DOMAIN objects : objects[id].ptrs = ExpectedPtrs(dump[ObjRecs[id + 1]])

(* Parse never panics, whatever the bytes (TestPropertyNoPanic; spec 4.1:  *)
(* the decoder must not read past a declared length).                      *)
NoPanic == pc # "panic"
=============================================================================
