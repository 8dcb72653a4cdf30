------------------------------ MODULE JsonStub ------------------------------
(***************************************************************************)
(* JSONStub.Parse (src/unnamed/part_008), the JSON fixture adapter the     *)
(* tests feed to the algorithms, and the MemGraph (graph/graph.go) it      *)
(* fills.  A decoded dump is a record                                      *)
(*   [objects |-> << [id |-> i, ptrs |-> << ... >>], ... >>,              *)
(*    roots   |-> << ... >>]                                              *)
(* with type and size left out: sizes are a constant of the algorithm     *)
(* modules and no property reads a type name.  A JSON null list decodes   *)
(* to a nil slice that Parse replaces by an empty one; both are << >>.    *)
(* Text the decoder rejects is any other value (Malformed).               *)
(*                                                                         *)
(* The graph Parse returns is given in HeapGraph's form; reading it back   *)
(* through ForEachObject, GetObject and GetRoots is what that form stands  *)
(* for.                                                                    *)
(***************************************************************************)
EXTENDS Naturals, SequencesExt, HeapGraph

\* A text json.Decoder cannot decode into jsonDump.
Malformed == [text |-> "not json"]

\* The (nil, err) result of Parse.
ParseError == [error |-> TRUE]

\* decoder.Decode(&dump) succeeds.
Decodes(d) == DOMAIN d = {"objects", "roots"}

\* NewMemGraph: no objects, nil roots.
NewMemGraph == [objects |-> <<>>, roots |-> <<>>]

(* MemGraph.AddObject: store the object under its id; a later object with *)
(* the same id replaces the earlier one.                                   *)
AddObject(mg, obj) == [mg EXCEPT !.objects = (obj.id :> obj) @@ @]

\* MemGraph.SetRoots: the roots slice replaces the previous one.
SetRoots(mg, roots) == [mg EXCEPT !.roots = roots]

\* Parse without its validation loop.
JsonParseNoIdCheck(d) ==
    IF ~Decodes(d) THEN ParseError
    ELSE SetRoots(FoldLeft(AddObject, NewMemGraph, d.objects), d.roots)

(* Parse: decode; reject the dump if any object has ID 0; add the objects  *)
(* in dump order; set the roots.  Pointers and roots are not checked       *)
(* against the objects added.                                              *)
JsonParse(d) ==
    IF ~Decodes(d) THEN ParseError
    ELSE IF \E i \in DOMAIN d.objects : d.objects[i].id = 0 THEN ParseError
    ELSE SetRoots(FoldLeft(AddObject, NewMemGraph, d.objects), d.roots)

\* The MemGraph mg as the algorithms read it.
GraphOf(mg) ==
    [objs  |-> DOMAIN mg.objects,
     ptrs  |-> [o \in DOMAIN mg.objects |-> ToSet(mg.objects[o].ptrs)],
     roots |-> ToSet(mg.roots)]
=============================================================================
