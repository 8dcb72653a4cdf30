--------------------------- MODULE MCGoHeapParser ---------------------------
EXTENDS GoHeapParser

CONSTANT T          \* model value: a type name

\* Addresses of two objects, a type, and one nothing lives at.
A1 == 16
A2 == 24
TA == 40
Stray == 48

Rec(k) == [kind |-> k, addr |-> 0, ptrSize |-> 0, name |-> NoType, len |-> 0,
           typeAddr |-> 0, fields |-> <<>>, ptr |-> 0]
ParamsRec(ps) == [Rec("params") EXCEPT !.ptrSize = ps]
TypeRec(a, n) == [Rec("type") EXCEPT !.addr = a, !.name = n]
ObjRec(a, l, ta, fs) == [Rec("object") EXCEPT !.addr = a, !.len = l, !.typeAddr = ta, !.fields = fs]
RootRec(a) == [Rec("root") EXCEPT !.ptr = a]
Field(k, off, tgt) == [kind |-> k, offset |-> off, target |-> tgt]

\* Field lists: none, one pointer field (null, to either object, or stray),
\* or an interface marker.
FieldLists(offs) ==
    {<<>>, <<Field("iface", 8, A1)>>} \cup
    {<<Field("ptr", o, t)>> : o \in offs, t \in {0, A1, A2, Stray}}

\* Heap objects are at least one pointer long (the smallest size class).
Objects(a, offs) == {ObjRec(a, l, ta, fs) : l \in {8, 16}, ta \in {TA, 0}, fs \in FieldLists(offs)}

\* How the dump ends: EOF record, end of stream, a skipped record, a bad tag.
Tails == {<<Rec("eof")>>, <<>>, <<Rec("skip"), Rec("eof")>>, <<Rec("bad")>>}

(* Dumps in the order the runtime writes them (runtime/heapdump.go:        *)
(* params, types before the objects that use them, objects, then roots).   *)
MCDumps ==
    {<<ParamsRec(ps), TypeRec(TA, T), o1, o2, RootRec(r)>> \o tail :
        ps \in {4, 8}, o1 \in Objects(A1, {0, 8}), o2 \in Objects(A2, {0, 8}),
        r \in {A1, A2, Stray}, tail \in Tails}

\* Crafted dumps: a pointer offset near 2^W, or a huge pointer size.
MCDumpsCrafted ==
    {<<ParamsRec(ps), ObjRec(A1, 8, 0, <<Field("ptr", off, A1)>>), Rec("eof")>> :
        ps \in {8, Modulus - 1}, off \in {0, Modulus - 4}}
=============================================================================
