---------------------------- MODULE DumpFormats ----------------------------
(***************************************************************************)
(* The two parsers the repository registers with heapdump.Register and the *)
(* format check each one runs on the preview Open hands it.                *)
(*                                                                         *)
(* A dump is abstracted to its format and its length in bytes.  Open reads *)
(* the preview with one Read of a 4096-byte buffer (registry.go line 48):  *)
(* a regular file fills it, a pipe or a network stream may return fewer    *)
(* bytes, as io.Reader allows.  CanParse sees exactly the preview.         *)
(***************************************************************************)
EXTENDS Naturals

CONSTANTS
    JsonStub,   \* &JSONStub{} (src/unnamed/part_008)
    GoHeap,     \* &GoHeapParser{} (src/heapdump/goheap/parser.go)
    Dumps,      \* dumps [fmt |-> "json" or "go", len |-> bytes]
    ShortReads  \* byte counts a short first Read may return

Parsers == {JsonStub, GoHeap}

Least(a, b) == IF a <= b THEN a ELSE b

\* Byte counts the first tee.Read(detectBuf) can return for dump d.
Previews(d) ==
    {Least(d.len, 4096)} \cup {s \in ShortReads : 0 < s /\ s < Least(d.len, 4096)}

(* JSONStub.CanParse: one Read of at most 1024 bytes of the preview; no    *)
(* bytes is false; the bytes read must unmarshal as a whole JSON value     *)
(* with a non-null "objects" field, which holds only when the document     *)
(* ends within them.                                                       *)
JsonCanParse(d, n) ==
    LET read == Least(n, 1024)
    IN  read > 0 /\ d.fmt = "json" /\ d.len <= read

(* GoHeapParser.CanParse: one Read of 16 bytes; fewer than 16 is false,    *)
(* otherwise they must be the header "go1.7 heap dump\n".                  *)
GoCanParse(d, n) == n >= 16 /\ d.fmt = "go"

CanParse(p, d, n) ==
    IF p = JsonStub THEN JsonCanParse(d, n) ELSE GoCanParse(d, n)
=============================================================================
