---------------------------- MODULE StreamFraming ----------------------------
(***************************************************************************)
(* StreamingParser.Parse (src/heapdump/goheap/streaming.go) at byte level: *)
(* the record loop, the five record kinds it decodes and hands to a        *)
(* callback, skipUnknown for every other tag, and error recovery through   *)
(* handleError and seekToNextRecord.  The progress goroutine is left to    *)
(* StreamingParser; OnError is nil.  A callback returns nil or an error.   *)
(***************************************************************************)
EXTENDS DumpBytes

CONSTANTS
    MaxErrorsIn,    \* the maxErrors values SetErrorRecovery may set
    SkipOnErrorIn,  \* the skipOnError values it may set
    CallbackFails   \* the results a callback may return: {FALSE} or BOOLEAN

\* tagAllocSample: the largest byte seekToNextRecord takes for a tag.
TagAllocSample == 17

(* The items each decoder reads after the tag: parseParams, parseType,     *)
(* parseObject, parseRoot, parseGoroutine.                                 *)
StreamParamsLayout == <<"v", "v", "v", "v", "s", "s", "v">>
StreamTypeLayout == <<"v", "v", "s", "v">>
StreamObjectLayout == <<"v", "b", "f">>
StreamRootLayout == <<"s", "v">>
StreamGoroutineLayout == V(7) \o <<"s">> \o V(4)

StreamLayout ==
    (6 :> StreamParamsLayout) @@ (3 :> StreamTypeLayout) @@
    (1 :> StreamObjectLayout) @@ (2 :> StreamRootLayout) @@
    (4 :> StreamGoroutineLayout)

(* The records a caller sees, as [tag, offset of the tag in the stream]:  *)
(* the kinds with a callback, each decoded from where the runtime put it.  *)
RecordsAt(ts) ==
    [i \in DOMAIN ts |-> <<ts[i], 1 + Len(FlattenSeq([j \in 1..i-1 |-> Record(ts[j])]))>>]
Delivered(ts) == SelectSeq(RecordsAt(ts), LAMBDA r : r[1] \in DOMAIN StreamLayout)

(* skipUnknown: a tag below 20 is followed by 5 varints; any other is an   *)
(* error ("unknown tag"), after the tag was read.                          *)
SkipUnknown(s, p, tag) == IF tag < 20 THEN ReadItems(s, p, V(5)) ELSE Fail

(* seekToNextRecord: read bytes until one is <= tagAllocSample and Peek    *)
(* sees at least one byte after it, then unread it.  At the end of the     *)
(* stream it returns there.  Its bound of 1000 bytes exceeds every stream  *)
(* modelled.                                                               *)
RECURSIVE SeekToNextRecord(_, _)
SeekToNextRecord(s, p) ==
    IF p > Len(s) THEN p
    ELSE IF s[p] <= TagAllocSample /\ p < Len(s) THEN p
    ELSE SeekToNextRecord(s, p + 1)

-----------------------------------------------------------------------------
VARIABLES
    written,      \* the tags of the records the runtime wrote (never changed)
    stream,       \* the bytes after the header (never changed)
    pos,          \* the bufio.Reader's position
    pc,           \* "run", "done" (Parse returned nil), "err"
    delivered,    \* [tag, offset] of each record whose callback ran
    cbFailed,     \* some callback returned an error
    errorCount,
    maxErrors,
    skipOnError

vars == <<written, stream, pos, pc, delivered, cbFailed, errorCount, maxErrors, skipOnError>>

Tag == stream[pos]

Init ==
    /\ written \in Dumps /\ stream = WriteDump(written)
    /\ pos = 1 /\ pc = "run" /\ delivered = <<>> /\ cbFailed = FALSE
    /\ errorCount = 0
    /\ maxErrors \in MaxErrorsIn /\ skipOnError \in SkipOnErrorIn

(* handleError after the reader stopped at q: count the error; past the    *)
(* budget or without skipOnError Parse returns it, otherwise it seeks on.  *)
HandleError(q) ==
    /\ errorCount' = errorCount + 1
    /\ IF errorCount + 1 > maxErrors \/ ~skipOnError
       THEN pc' = "err" /\ pos' = q
       ELSE pc' = "run" /\ pos' = SeekToNextRecord(stream, q)

\* Where a failed read leaves the reader: it consumed what was left.
After(q) == IF q = Fail THEN Len(stream) + 1 ELSE q

(* The tag read returns io.EOF: break, final progress report, return nil;  *)
(* or the tag is tagEOF: return nil.                                       *)
Finish ==
    /\ pc = "run"
    /\ pos > Len(stream) \/ (pos <= Len(stream) /\ Tag = 0)
    /\ pc' = "done"
    /\ UNCHANGED <<written, stream, pos, delivered, cbFailed, errorCount, maxErrors, skipOnError>>

(* Params, Type, Object, Root or Goroutine: decode, then the callback.     *)
(* A Params error, and with OnType set a Type error, is returned at once;  *)
(* the others go to handleError.  A callback error takes the same path as  *)
(* a decoding error.                                                       *)
Decode ==
    /\ pc = "run" /\ pos <= Len(stream)
    /\ Tag \in DOMAIN StreamLayout
    /\ LET q == ReadItems(stream, pos + 1, StreamLayout[Tag])
       IN  \E fails \in IF q = Fail THEN {FALSE} ELSE CallbackFails :
             /\ delivered' = IF q = Fail THEN delivered ELSE Append(delivered, <<Tag, pos>>)
             /\ cbFailed' = (cbFailed \/ fails)
             /\ IF q # Fail /\ ~fails
                THEN pc' = "run" /\ pos' = q /\ UNCHANGED errorCount
                ELSE IF Tag \in {3, 6}
                THEN pc' = "err" /\ pos' = After(q) /\ UNCHANGED errorCount
                ELSE HandleError(After(q))
    /\ UNCHANGED <<written, stream, maxErrors, skipOnError>>

\* The default case: skipUnknown, its error to handleError.
Skip ==
    /\ pc = "run" /\ pos <= Len(stream)
    /\ Tag # 0 /\ Tag \notin DOMAIN StreamLayout
    /\ LET q == SkipUnknown(stream, pos + 1, Tag)
       IN  IF q # Fail
           THEN pc' = "run" /\ pos' = q /\ UNCHANGED errorCount
           ELSE HandleError(IF Tag < 20 THEN Len(stream) + 1 ELSE pos + 1)
    /\ UNCHANGED <<written, stream, delivered, cbFailed, maxErrors, skipOnError>>

Next == Finish \/ Decode \/ Skip \/ (pc # "run" /\ UNCHANGED vars)

Spec == Init /\ [][Next]_vars /\ WF_vars(Next)

-----------------------------------------------------------------------------
(* Parse of a dump the runtime wrote returns nil having called back once   *)
(* for every Params, Type, Object, Root and Goroutine record, in order;    *)
(* and a callback's error is returned, never recovered from (spec 4.3, 7). *)
StreamDeliversRecords ==
    pc # "run" =>
        IF cbFailed THEN pc = "err"
        ELSE pc = "done" /\ delivered = Delivered(written)
=============================================================================
