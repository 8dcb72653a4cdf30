------------------------------ MODULE DumpBytes ------------------------------
(***************************************************************************)
(* A heap dump at byte level, and the readers the parsers of              *)
(* src/heapdump/goheap take it apart with (parser.go's readVarint,         *)
(* readString and readBytes; streaming.go's are the same on positions).    *)
(* The Go runtime writes every record as its tag followed by the items of  *)
(* its layout (spec 4.2 and 6.1), with                                     *)
(* every varint value below 128, so that a varint is one byte and a byte   *)
(* read at the wrong place is still a well-formed varint.                  *)
(*                                                                         *)
(* Items: "v" a varint; "s" a string and "b" a byte slice (varint length   *)
(* and that many bytes); "f" a field list ({kind, offset}* ended by kind   *)
(* 0); "stk" a MemProf stack (a count, then per frame two strings and a    *)
(* varint).                                                                *)
(***************************************************************************)
EXTENDS Naturals, Sequences, SequencesExt

CONSTANT Dumps      \* the tag sequences of the records a dump holds

Fail == 0           \* a read ran off the end of the stream

\* n varints.
V(n) == [i \in 1..n |-> "v"]

-----------------------------------------------------------------------------
(* The layout the runtime writes for each tag (spec 4.2 table, 6.1 for     *)
(* MemProf and AllocSample).                                               *)
WriterLayout(t) ==
    CASE t = 1 -> <<"v", "b", "f">>
      [] t = 2 -> <<"s", "v">>
      [] t = 3 -> <<"v", "v", "s", "v">>
      [] t = 4 -> V(7) \o <<"s">> \o V(4)
      [] t = 5 -> V(3) \o <<"b">> \o V(3) \o <<"s", "f">>
      [] t = 6 -> <<"v", "v", "v", "v", "s", "s", "v">>
      [] t \in {7, 11} -> V(5)
      [] t = 8 -> V(2)
      [] t = 9 -> V(3)
      [] t = 10 -> V(61)
      [] t \in {12, 13} -> <<"v", "b", "f">>
      [] t = 14 -> V(7)
      [] t = 15 -> V(6)
      [] t = 16 -> <<"v", "v", "stk", "v", "v">>
      [] t = 17 -> V(5)

(* The bytes of one item as written: varints hold 1, strings "a", byte     *)
(* slices two bytes of 'a' (97), a field list one pointer field at offset  *)
(* 0, a stack one frame.                                                   *)
Encode(item) ==
    CASE item = "v" -> <<1>>
      [] item = "s" -> <<1, 97>>
      [] item = "b" -> <<2, 97, 97>>
      [] item = "f" -> <<1, 0, 0>>
      [] item = "stk" -> <<1, 1, 97, 1, 97, 1>>

Record(t) == <<t>> \o FlattenSeq([i \in DOMAIN WriterLayout(t) |-> Encode(WriterLayout(t)[i])])

\* The bytes after the header: the records, then the EOF record (tag 0).
WriteDump(ts) == FlattenSeq([i \in DOMAIN ts |-> Record(ts[i])]) \o <<0>>

-----------------------------------------------------------------------------
(* The readers of parser.go.  Each returns the position after what it      *)
(* read, or Fail when the stream ends first (binary.ReadUvarint and        *)
(* io.ReadFull return an error).                                           *)

\* readVarint: binary.ReadUvarint of one byte.
ReadVarint(s, p) == IF p > Len(s) THEN Fail ELSE p + 1

\* readString / readBytes: a varint length, then io.ReadFull of that many bytes.
ReadLen(s, p) ==
    IF p > Len(s) \/ p + s[p] > Len(s) THEN Fail ELSE p + 1 + s[p]

(* The field loop of parseObject, parseStackFrame and skipDataSegment:     *)
(* read a kind; 0 ends the list, anything else is followed by an offset.   *)
RECURSIVE ReadFields(_, _)
ReadFields(s, p) ==
    IF p > Len(s) THEN Fail
    ELSE IF s[p] = 0 THEN p + 1
    ELSE IF p + 1 > Len(s) THEN Fail
    ELSE ReadFields(s, p + 2)

RECURSIVE ReadItems(_, _, _), ReadFrames(_, _, _)

(* skipMemProf's stack loop: nstk frames of function name, file name and   *)
(* line, nstk being the varint just read.                                  *)
ReadFrames(s, p, n) ==
    IF n = 0 THEN p
    ELSE LET q == ReadItems(s, p, <<"s", "s", "v">>)
         IN  IF q = Fail THEN Fail ELSE ReadFrames(s, q, n - 1)

ReadItem(s, p, item) ==
    CASE item = "v" -> ReadVarint(s, p)
      [] item \in {"s", "b"} -> ReadLen(s, p)
      [] item = "f" -> ReadFields(s, p)
      [] item = "stk" -> IF p > Len(s) THEN Fail ELSE ReadFrames(s, p + 1, s[p])

\* The items of a layout in order, failing as soon as one read fails.
ReadItems(s, p, items) ==
    IF items = <<>> THEN p
    ELSE LET q == ReadItem(s, p, Head(items))
         IN  IF q = Fail THEN Fail ELSE ReadItems(s, q, Tail(items))
=============================================================================
