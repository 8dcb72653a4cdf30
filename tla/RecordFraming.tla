---------------------------- MODULE RecordFraming ----------------------------
(***************************************************************************)
(* How the batch parser (src/heapdump/goheap/parser.go) frames the records *)
(* of a dump: its loop reads a tag and hands the rest of the record to the *)
(* reader for that tag, which consumes a fixed sequence of items.          *)
(*                                                                         *)
(* records.go's decoders are checked on their own in RecordDecoders.       *)
(***************************************************************************)
EXTENDS DumpBytes

-----------------------------------------------------------------------------
(* What each record function of parser.go reads after the tag.            *)
ParseObjectLayout == <<"v", "b", "f">>
ParseOtherRootLayout == <<"s", "v">>
ParseTypeLayout == <<"v", "v", "s", "v">>
ParseParamsLayout == <<"v", "v", "v", "v", "s", "s", "v">>
\* 12 varints, then the wait reason.
ParseGoroutineLayout == V(12) \o <<"s">>
ParseStackFrameLayout == V(3) \o <<"b">> \o V(3) \o <<"s", "f">>
\* "Skip all memstats fields": 8 varints.
ParseMemStatsLayout == V(8)
SkipItabLayout == V(2)
SkipFinalizerLayout == V(5)
SkipDataSegmentLayout == <<"v", "b", "f">>
\* "try to skip 5 varints (rough estimate)".
SkipDeferPanicLayout == V(5)
SkipOSThreadLayout == V(3)
SkipMemProfLayout == <<"v", "v", "stk", "v", "v">>

(* The switch of parse: the reader each known tag other than EOF goes to;  *)
(* MemProf and AllocSample share skipMemProf.                              *)
BatchLayout ==
    (1 :> ParseObjectLayout) @@ (2 :> ParseOtherRootLayout) @@
    (3 :> ParseTypeLayout) @@ (4 :> ParseGoroutineLayout) @@
    (5 :> ParseStackFrameLayout) @@ (6 :> ParseParamsLayout) @@
    (7 :> SkipFinalizerLayout) @@ (8 :> SkipItabLayout) @@
    (9 :> SkipOSThreadLayout) @@ (10 :> ParseMemStatsLayout) @@
    (11 :> SkipFinalizerLayout) @@ (12 :> SkipDataSegmentLayout) @@
    (13 :> SkipDataSegmentLayout) @@ (14 :> SkipDeferPanicLayout) @@
    (15 :> SkipDeferPanicLayout) @@ (16 :> SkipMemProfLayout) @@
    (17 :> SkipMemProfLayout)

-----------------------------------------------------------------------------
VARIABLES
    written,    \* the tags of the records the runtime wrote (never changed)
    stream,     \* the bytes after the header (never changed)
    pos,        \* the reader's position
    pc,         \* "run", "done" (finalize returned nil), "err"
    decoded     \* the tags of the records read, EOF excluded

fvars == <<written, stream, pos, pc, decoded>>

Tag == stream[pos]

\* The stream is the dump the runtime wrote.
Init ==
    /\ written \in Dumps
    /\ stream = WriteDump(written)
    /\ pos = 1 /\ pc = "run" /\ decoded = <<>>

(* The tag read returns io.EOF at the end of the stream, or the tag is     *)
(* EOF: finalize and return nil.                                           *)
Finish ==
    /\ pc = "run"
    /\ pos > Len(stream) \/ (pos <= Len(stream) /\ Tag = 0)
    /\ pc' = "done"
    /\ UNCHANGED <<written, stream, pos, decoded>>

\* The default case: "unknown tag".
UnknownTag ==
    /\ pc = "run" /\ pos <= Len(stream)
    /\ Tag # 0 /\ Tag \notin DOMAIN BatchLayout
    /\ pc' = "err"
    /\ UNCHANGED <<written, stream, pos, decoded>>

(* A known tag: its reader consumes its items; if the stream ends first    *)
(* the error is returned.                                                  *)
DecodeRecord ==
    /\ pc = "run" /\ pos <= Len(stream)
    /\ Tag \in DOMAIN BatchLayout
    /\ LET q == ReadItems(stream, pos + 1, BatchLayout[Tag])
       IN  IF q = Fail
           THEN pc' = "err" /\ UNCHANGED <<pos, decoded>>
           ELSE /\ pos' = q /\ decoded' = Append(decoded, Tag)
                /\ UNCHANGED pc
    /\ UNCHANGED <<written, stream>>

FNext == Finish \/ UnknownTag \/ DecodeRecord \/ (pc # "run" /\ UNCHANGED fvars)

FSpec == Init /\ [][FNext]_fvars /\ WF_fvars(FNext)

-----------------------------------------------------------------------------
(* Parse reads a dump the runtime wrote record by record: it ends through  *)
(* finalize having decoded exactly the records written, in order (spec     *)
(* 4.2 layouts; every record a real dump holds is framed): each reader     *)
(* stops on the tag of the next record.                                    *)
ParseFramesRecords ==
    pc # "run" => pc = "done" /\ decoded = written
=============================================================================
