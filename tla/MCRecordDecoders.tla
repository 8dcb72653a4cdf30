-------------------------- MODULE MCRecordDecoders --------------------------
(* Every records.go decoder, on the record kind its name and comment give  *)
(* it, followed by the EOF record or by one more record of any kind.       *)
(* Object, OtherRoot, Type and Params have no records.go decoder; a        *)
(* QueuedFinalizer has the layout of a Finalizer.                          *)
EXTENDS RecordDecoders

MCDumps == {<<>>} \cup {<<t>> : t \in 1..17}

MCDecoders ==
    (4 :> ParseGoroutineFullLayout) @@ (5 :> ParseStackFrameFullLayout) @@
    (7 :> ParseFinalizerFullLayout) @@ (8 :> ParseItabFullLayout) @@
    (9 :> ParseOSThreadFullLayout) @@ (10 :> ParseMemStatsFullLayout) @@
    (11 :> ParseFinalizerFullLayout) @@ (12 :> ParseDataSegmentFullLayout) @@
    (13 :> ParseDataSegmentFullLayout) @@ (14 :> ParseDeferFullLayout) @@
    (15 :> ParsePanicFullLayout) @@ (16 :> ParseMemProfFullLayout) @@
    (17 :> ParseAllocSampleFullLayout)
=============================================================================
