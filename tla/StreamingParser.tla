--------------------------- MODULE StreamingParser ---------------------------
(***************************************************************************)
(* StreamingParser.Parse (src/heapdump/goheap/streaming.go) and its        *)
(* progress goroutine.                                                     *)
(*                                                                         *)
(* The main goroutine checks the header, reports progress once, starts the *)
(* ticker goroutine and decodes records one by one, calling the user's     *)
(* callbacks; a failed record goes through handleError (error count,       *)
(* OnError, maxErrors, skipOnError, seekToNextRecord).  The ticker         *)
(* goroutine, on each tick, loads the byte and record counters (two atomic *)
(* loads) and calls OnProgress, until done is closed when Parse returns.   *)
(*                                                                         *)
(* The dump is abstracted to a sequence of records [kind, fault]: fault is *)
(* "none", "corrupt" (a field fails to decode), "cbfail" (the record       *)
(* decodes and its callback returns an error) or "truncated" (the stream   *)
(* ends inside the record, which is then the last one).  Kind "tag" is a   *)
(* tag varint that fails to read (too long, or cut by the end of the       *)
(* stream).  A dump that ends without an EOF record ends at a record       *)
(* boundary.  Decoding one record is one step; a record advances the byte  *)
(* counter by RecBytes, an EOF or truncated one by 1 (its tag).            *)
(*                                                                         *)
(* After an error, seekToNextRecord's byte scan stops at the next record's *)
(* tag: the dumps modelled are those whose damaged records hold no byte    *)
(* <= 17 after the point of failure and are shorter than the scan's 1000   *)
(* bytes.  StreamFraming models the scan on real record bytes, where it    *)
(* does stop inside the damaged record.                                    *)
(***************************************************************************)
EXTENDS Naturals, Sequences, FiniteSets

CONSTANTS
    Inputs,         \* the record sequences the dump may hold
    HeaderOKIn,     \* whether the 16-byte header matches
    MaxErrorsIn,    \* values of maxErrors (SetErrorRecovery)
    SkipOnErrorIn,  \* values of skipOnError
    OnErrorIn,      \* OnError: "unset", "continue" (returns nil), "stop"
    OnTypeSetIn     \* whether an OnType callback is set

RecBytes == 2       \* bytes one whole record adds to the progress counter

VARIABLES
    input, headerOK, maxErrors, skipOnError, onError, onTypeSet, \* fixed
    mainPc,     \* "header", "run", "finalCall", "done"
    pos,        \* index of the next record
    progress,   \* p.progress (bytes read)
    recordCount,\* p.recordCount
    errorCount, \* p.errorCount
    result,     \* what Parse returned: "none" yet, "ok" or "err"
    finalSnap,  \* the counters the main goroutine loaded for its last report
    tickPc,     \* ticker goroutine: "off", "wait", "loadR", "deliver", "exited"
    ticker,     \* progressTicker: "none", "running", "stale" (stopped with a
                \* tick still buffered), "stopped"
    tickP, tickR, \* the counters the ticker goroutine loaded
    lastSeen    \* the last <<bytes, records>> pair OnProgress received

cfg == <<input, headerOK, maxErrors, skipOnError, onError, onTypeSet>>
vars == <<cfg, mainPc, pos, progress, recordCount, errorCount, result,
          finalSnap, tickPc, ticker, tickP, tickR, lastSeen>>

Cur == input[pos]

-----------------------------------------------------------------------------
Init ==
    /\ input \in Inputs /\ headerOK \in HeaderOKIn
    /\ maxErrors \in MaxErrorsIn /\ skipOnError \in SkipOnErrorIn
    /\ onError \in OnErrorIn /\ onTypeSet \in OnTypeSetIn
    \* only a callback that is set can fail
    /\ \A k \in 1..Len(input) :
           input[k].kind = "type" /\ input[k].fault = "cbfail" => onTypeSet
    /\ mainPc = "header" /\ pos = 1
    /\ progress = 0 /\ recordCount = 0 /\ errorCount = 0
    /\ result = "none" /\ finalSnap = <<0, 0>>
    /\ tickPc = "off" /\ ticker = "none" /\ tickP = 0 /\ tickR = 0 /\ lastSeen = <<0, 0>>

(* Lines 86-127: a bad header returns an error before anything starts;     *)
(* else the 16 header bytes are counted, the ticker is created,            *)
(* OnProgress gets the first report and the ticker goroutine starts.       *)
Header ==
    /\ mainPc = "header"
    /\ IF headerOK
       THEN /\ progress' = 1
            /\ lastSeen' = <<1, 0>>
            /\ tickPc' = "wait" /\ ticker' = "running"
            /\ mainPc' = "run"
            /\ UNCHANGED result
       ELSE /\ result' = "err" /\ mainPc' = "done"
            /\ UNCHANGED <<progress, lastSeen, tickPc, ticker>>
    /\ UNCHANGED <<cfg, pos, recordCount, errorCount, finalSnap, tickP, tickR>>

(* A record failure that returns from Parse without handleError: Params    *)
(* (lines 148-152) and a Type record while OnType is set (lines 156-159).  *)
FatalFailure == Cur.kind = "params" \/ (Cur.kind = "type" /\ onTypeSet)

Recovers(n) ==
    /\ onError # "stop"
    /\ n <= maxErrors
    /\ skipOnError

(* Mutant: the resynchronisation also skips the record after the bad one.  *)
SeekPastNext == pos + 2

(* seekToNextRecord (lines 232-251): the scan stops on the next record's   *)
(* tag and puts it back only if Peek finds a byte after it; a trailing     *)
(* EOF record (one byte) is read and dropped, and the scan ends at the end *)
(* of the stream.                                                          *)
SeekToNextRecord ==
    IF pos + 1 = Len(input) /\ input[pos + 1].kind = "eof"
    THEN pos + 2
    ELSE pos + 1

\* What reading the record adds to p.progress: readVarint counts only reads that succeed.
Bytes(r) ==
    CASE r.kind = "tag" -> 0
      [] r.kind = "eof" \/ r.fault = "truncated" -> 1
      [] OTHER -> RecBytes

(* The main loop (lines 130-194) reads the next tag and decodes its record. *)
(* A tag that fails to read goes to handleError uncounted (lines 136-139); *)
(* an EOF record returns nil at once (line 146); a good record calls its   *)
(* callback and the loop goes on; a failed one is fatal or goes through    *)
(* handleError.                                                            *)
Record ==
    /\ mainPc = "run" /\ pos <= Len(input)
    /\ recordCount' = recordCount + (IF Cur.kind = "tag" THEN 0 ELSE 1)
    /\ progress' = progress + Bytes(Cur)
    /\ IF Cur.kind = "eof"
       THEN /\ result' = "ok" /\ mainPc' = "done"
            /\ UNCHANGED <<pos, errorCount>>
       ELSE IF Cur.fault = "none"
       THEN /\ pos' = pos + 1
            /\ UNCHANGED <<result, mainPc, errorCount>>
       ELSE IF FatalFailure
       THEN /\ result' = "err" /\ mainPc' = "done"
            /\ UNCHANGED <<pos, errorCount>>
       ELSE /\ errorCount' = errorCount + 1
            /\ IF Recovers(errorCount + 1)
               THEN /\ pos' = SeekToNextRecord
                    /\ UNCHANGED <<result, mainPc>>
               ELSE /\ result' = "err" /\ mainPc' = "done"
                    /\ UNCHANGED pos
    /\ UNCHANGED <<cfg, finalSnap, tickPc, ticker, tickP, tickR, lastSeen>>

(* The tag read hits io.EOF (line 133): break out of the loop; the main    *)
(* goroutine loads both counters for the final report (lines 197-203).     *)
EndOfStream ==
    /\ mainPc = "run" /\ pos > Len(input)
    /\ finalSnap' = <<progress, recordCount>>
    /\ mainPc' = "finalCall"
    /\ UNCHANGED <<cfg, pos, progress, recordCount, errorCount, result,
                   tickPc, ticker, tickP, tickR, lastSeen>>

\* The final OnProgress call, then return nil (the defers run next).
FinalCall ==
    /\ mainPc = "finalCall"
    /\ lastSeen' = finalSnap
    /\ result' = "ok" /\ mainPc' = "done"
    /\ UNCHANGED <<cfg, pos, progress, recordCount, errorCount, finalSnap,
                   tickPc, ticker, tickP, tickR>>

(* Parse has returned and closed done (the later defer runs first); the    *)
(* earlier defer, progressTicker.Stop, runs now.  Before Go 1.23 a tick    *)
(* already sent stays in the channel's buffer; the repository names no Go  *)
(* version, so both outcomes are possible.                                 *)
StopTicker ==
    /\ mainPc = "done" /\ ticker = "running"
    /\ ticker' \in {"stale", "stopped"}
    /\ UNCHANGED <<cfg, mainPc, pos, progress, recordCount, errorCount,
                   result, finalSnap, tickPc, tickP, tickR, lastSeen>>

Main == Header \/ Record \/ EndOfStream \/ FinalCall \/ StopTicker

(* Lines 112-126: the select receives a tick (Go picks at random when done *)
(* is closed as well); the goroutine loads p.progress, then                *)
(* p.recordCount, then calls OnProgress.                                   *)
TickLoadProgress ==
    /\ tickPc = "wait" /\ ticker \in {"running", "stale"}
    /\ ticker' = IF ticker = "stale" THEN "stopped" ELSE ticker
    /\ tickP' = progress /\ tickPc' = "loadR"
    /\ UNCHANGED <<cfg, mainPc, pos, progress, recordCount, errorCount,
                   result, finalSnap, tickR, lastSeen>>

TickLoadRecords ==
    /\ tickPc = "loadR"
    /\ tickR' = recordCount /\ tickPc' = "deliver"
    /\ UNCHANGED <<cfg, mainPc, pos, progress, recordCount, errorCount,
                   result, finalSnap, ticker, tickP, lastSeen>>

TickDeliver ==
    /\ tickPc = "deliver"
    /\ lastSeen' = <<tickP, tickR>> /\ tickPc' = "wait"
    /\ UNCHANGED <<cfg, mainPc, pos, progress, recordCount, errorCount,
                   result, finalSnap, ticker, tickP, tickR>>

\* The select receives from the closed done channel: the goroutine returns.
TickExit ==
    /\ tickPc = "wait" /\ mainPc = "done"
    /\ tickPc' = "exited"
    /\ UNCHANGED <<cfg, mainPc, pos, progress, recordCount, errorCount,
                   result, finalSnap, ticker, tickP, tickR, lastSeen>>

Ticker == TickLoadProgress \/ TickLoadRecords \/ TickDeliver \/ TickExit

Finished ==
    mainPc = "done" /\ ticker # "running" /\ tickPc \in {"off", "exited"}

Next == Main \/ Ticker \/ (Finished /\ UNCHANGED vars)

(* Both goroutines are scheduled by the Go runtime and never stop for good *)
(* while they can run.                                                     *)
Spec == Init /\ [][Next]_vars /\ WF_vars(Main) /\ WF_vars(Ticker)

-----------------------------------------------------------------------------
TypeOK ==
    /\ mainPc \in {"header", "run", "finalCall", "done"}
    /\ tickPc \in {"off", "wait", "loadR", "deliver", "exited"}
    /\ ticker \in {"none", "running", "stale", "stopped"}
    /\ result \in {"none", "ok", "err"}
    /\ pos \in 1..Len(input) + 1
    /\ errorCount \in Nat /\ progress \in Nat /\ recordCount \in Nat

(* The records Parse reads: those up to the first EOF record.             *)
ReadRecords == {k \in 1..Len(input) : \A j \in 1..k - 1 : input[j].kind # "eof"}

(* The records among them that fail, and those whose failure the code     *)
(* treats as fatal without handleError.                                    *)
BadRecords == {k \in ReadRecords : input[k].fault # "none"}
FatalRecords ==
    {k \in BadRecords :
        input[k].kind = "params" \/ (input[k].kind = "type" /\ onTypeSet)}

ProgressMonotonic ==
    [][lastSeen'[1] >= lastSeen[1] /\ lastSeen'[2] >= lastSeen[2]]_vars
=============================================================================
