--------------------------- MODULE RecordDecoders ---------------------------
(***************************************************************************)
(* The parse*Full decoders of src/heapdump/goheap/records.go.  Each is a   *)
(* method of parser called with the reader just past a record's tag; it    *)
(* reads the record's items in order with readVarint, readString and       *)
(* readBytes, returns the first read error, and otherwise returns with the *)
(* reader wherever its last read left it.  Nothing in the repository calls *)
(* them: this module checks each on its own, as a unit, against the bytes  *)
(* the runtime writes for the record kind it is named after.  The fields   *)
(* they fill are left out: no property reads a decoded value.              *)
(***************************************************************************)
EXTENDS DumpBytes

CONSTANT
    Decoders    \* [tag -> the items of the decoder written for that kind]

-----------------------------------------------------------------------------
(* What each decoder reads after the tag.                                  *)
ParseFinalizerFullLayout == V(5)
ParseItabFullLayout == V(2)
\* sp, depth, childsp, the frame's bytes, 3 pcs, the name, the field list.
ParseStackFrameFullLayout == V(3) \o <<"b">> \o V(3) \o <<"s", "f">>
ParseOSThreadFullLayout == V(3)
\* bucket, size, nstk, nstk frames of two strings and a line, allocs, frees.
ParseMemProfFullLayout == <<"v", "v", "stk", "v", "v">>
ParseDataSegmentFullLayout == <<"v", "b", "f">>
ParseDeferFullLayout == V(7)
ParsePanicFullLayout == V(6)
\* 7 varints (two of them flags), the wait reason, 4 varints.
ParseGoroutineFullLayout == V(7) \o <<"s">> \o V(4)
\* The remaining-fields loop one short.
ParseMemStatsFullLayoutShort == V(12) \o V(48)
\* 12 named fields, then "for i := 0; i < 49; i++" more varints.
ParseMemStatsFullLayout == V(12) \o V(49)
ParseAllocSampleFullLayout == V(5)

-----------------------------------------------------------------------------
VARIABLES
    kind,       \* the tag of the record written (never changed)
    stream,     \* the bytes after the tag (never changed)
    pos,        \* the reader's position
    pc          \* "run", "done" (the decoder returned a record), "err"

dvars == <<kind, stream, pos, pc>>

\* The bytes the runtime writes after the tag of a record of kind t.
Body(t) == Tail(Record(t))

(* The record as written and followed by the rest of a dump, or cut short  *)
(* by the end of the stream anywhere inside its body.                      *)
Init ==
    /\ kind \in DOMAIN Decoders
    /\ stream \in {Body(kind) \o WriteDump(d) : d \in Dumps}
                  \cup {SubSeq(Body(kind), 1, n) : n \in 0..Len(Body(kind)) - 1}
    /\ pos = 1 /\ pc = "run"

(* The decoder's body: its reads in order; the first that fails is         *)
(* returned as (nil, err), otherwise the record is returned.               *)
Decode ==
    /\ pc = "run"
    /\ LET q == ReadItems(stream, pos, Decoders[kind])
       IN  IF q = Fail THEN pc' = "err" /\ UNCHANGED pos
           ELSE pc' = "done" /\ pos' = q
    /\ UNCHANGED <<kind, stream>>

DNext == Decode \/ (pc # "run" /\ UNCHANGED dvars)

DSpec == Init /\ [][DNext]_dvars /\ WF_dvars(Decode)

-----------------------------------------------------------------------------
(* Each decoder reads exactly the record the runtime writes for its kind   *)
(* (spec 4.2 and 6.1): on a whole record it returns with the reader on the *)
(* next record's tag, and on a record cut short by the end of the stream   *)
(* it returns the read error (spec 7, TruncatedRecord) rather than a       *)
(* record.  A decoder that reads too little leaves the rest of the record  *)
(* to be taken for tags; one that reads too much takes the next record's   *)
(* bytes, or fails on the last record of the dump.                         *)
DecoderReadsRecord ==
    pc # "run" =>
        IF Len(stream) >= Len(Body(kind))
        THEN pc = "done" /\ pos = Len(Body(kind)) + 1
        ELSE pc = "err"
=============================================================================
