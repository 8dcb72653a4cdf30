---------------------------- MODULE MCRegistry ----------------------------
(* Two goroutines calling Open in a loop while two others register the     *)
(* repository's two parsers; the process starts with an empty registry.    *)
(* Dumps: a small and a large JSON fixture (either side of CanParse's      *)
(* 1024-byte read) and a Go dump longer than the 4096-byte preview; a      *)
(* short first Read returns 8 bytes, fewer than the Go header.             *)
EXTENDS Registry

MCDumps == {[fmt |-> "json", len |-> 500], [fmt |-> "json", len |-> 2000],
            [fmt |-> "go", len |-> 5000]}
MCShortReads == {8}
MCInitParsers == <<>>
MCPlugin == [r \in {"r1", "r2"} |-> IF r = "r1" THEN GoHeap ELSE JsonStub]
=============================================================================
