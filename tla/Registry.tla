------------------------------ MODULE Registry ------------------------------
(***************************************************************************)
(* The parser registry of src/heapdump/registry.go with its sync.RWMutex,  *)
(* Register and Open running on concurrent goroutines.                     *)
(*                                                                         *)
(* Register takes the write lock, appends and unlocks.  Open reads the     *)
(* preview with one Read, takes the read lock, ranges over a snapshot of   *)
(* the list asking each parser's CanParse, hands the first claimer the     *)
(* preview followed by the rest of the stream and returns its Parse       *)
(* result, all before the deferred RUnlock.  The lock follows Go's         *)
(* RWMutex: a writer first takes the writer mutex, which makes new RLock   *)
(* calls block, then waits for the readers already inside to leave.        *)
(* Parse itself is one step: what a parser builds is the subject of the    *)
(* parser modules; here only which parser the dump goes to matters.        *)
(***************************************************************************)
EXTENDS Sequences, SequencesExt, DumpFormats

CONSTANTS Openers, Registrars, Plugin, InitParsers, None

VARIABLES
    parsers,    \* registry.parsers
    wlock,      \* the registrar holding the writer mutex (pending or active), or None
    readers,    \* openers holding the read lock
    rpc,        \* rpc[r]: "idle", "wait" (draining readers), "locked", "done"
    opc,        \* opc[o]: "idle", "rlock", "scan", "parse"
    req,        \* req[o]: the dump and the byte count its first Read returned
    view,       \* view[o]: the slice the range loop iterates over
    k,          \* k[o]: index of the parser being asked
    result      \* result[o]: what o's last Open returned

vars == <<parsers, wlock, readers, rpc, opc, req, view, k, result>>

Requests == UNION {{[dump |-> d, n |-> s] : s \in Previews(d)} : d \in Dumps}

Init ==
    /\ parsers = InitParsers
    /\ wlock = None /\ readers = {}
    /\ rpc = [r \in Registrars |-> "idle"]
    /\ opc = [o \in Openers |-> "idle"]
    /\ req = [o \in Openers |-> None]
    /\ view = [o \in Openers |-> <<>>]
    /\ k = [o \in Openers |-> 1]
    /\ result = [o \in Openers |-> None]

-----------------------------------------------------------------------------
(* Register: mu.Lock() first takes the writer mutex; from then on RLock    *)
(* blocks.                                                                 *)
RequestLock(r) ==
    /\ rpc[r] = "idle" /\ wlock = None
    /\ wlock' = r
    /\ rpc' = [rpc EXCEPT ![r] = "wait"]
    /\ UNCHANGED <<parsers, readers, opc, req, view, k, result>>

(* Mutant: Lock returns without waiting for the readers inside.            *)
AcquireWithoutDrain(r) ==
    /\ rpc[r] = "wait"
    /\ rpc' = [rpc EXCEPT ![r] = "locked"]
    /\ UNCHANGED <<parsers, wlock, readers, opc, req, view, k, result>>

\* mu.Lock() returns once the readers that got in before it have left.
Acquire(r) ==
    /\ rpc[r] = "wait" /\ readers = {}
    /\ rpc' = [rpc EXCEPT ![r] = "locked"]
    /\ UNCHANGED <<parsers, wlock, readers, opc, req, view, k, result>>

\* append, then the deferred Unlock.
AppendUnlock(r) ==
    /\ rpc[r] = "locked"
    /\ parsers' = Append(parsers, Plugin[r])
    /\ wlock' = None
    /\ rpc' = [rpc EXCEPT ![r] = "done"]
    /\ UNCHANGED <<readers, opc, req, view, k, result>>

-----------------------------------------------------------------------------
(* Open: tee.Read(detectBuf) returns n bytes, or fails with an error other *)
(* than EOF and Open returns it before touching the lock.                  *)
Start(o) ==
    /\ opc[o] = "idle"
    /\ \/ \E q \in Requests :
             /\ req' = [req EXCEPT ![o] = q]
             /\ opc' = [opc EXCEPT ![o] = "rlock"]
             /\ UNCHANGED result
       \/ /\ result' = [result EXCEPT ![o] = "ReadError"]
          /\ UNCHANGED <<req, opc>>
    /\ UNCHANGED <<parsers, wlock, readers, rpc, view, k>>

(* Mutant: RLock only waits for a writer that holds the lock, not for one  *)
(* that is waiting for it.                                                 *)
RLockReaderPreference(o) ==
    /\ opc[o] = "rlock" /\ \A r \in Registrars : rpc[r] # "locked"
    /\ readers' = readers \cup {o}
    /\ view' = [view EXCEPT ![o] = parsers]
    /\ k' = [k EXCEPT ![o] = 1]
    /\ opc' = [opc EXCEPT ![o] = "scan"]
    /\ UNCHANGED <<parsers, wlock, rpc, req, result>>

\* mu.RLock(), then range evaluates registry.parsers once.
RLock(o) ==
    /\ opc[o] = "rlock" /\ wlock = None
    /\ readers' = readers \cup {o}
    /\ view' = [view EXCEPT ![o] = parsers]
    /\ k' = [k EXCEPT ![o] = 1]
    /\ opc' = [opc EXCEPT ![o] = "scan"]
    /\ UNCHANGED <<parsers, wlock, rpc, req, result>>

(* Mutant: the loop skips a parser after each refusal.                     *)
ScanSkipping(o) ==
    /\ opc[o] = "scan" /\ k[o] <= Len(view[o])
    /\ IF CanParse(view[o][k[o]], req[o].dump, req[o].n)
       THEN /\ opc' = [opc EXCEPT ![o] = "parse"] /\ UNCHANGED k
       ELSE /\ k' = [k EXCEPT ![o] = @ + 2] /\ UNCHANGED opc
    /\ UNCHANGED <<parsers, wlock, readers, rpc, req, view, result>>

(* One iteration: CanParse on a fresh reader over detectBuf[:n]; the first *)
(* parser that claims it is the one to parse.                              *)
Scan(o) ==
    /\ opc[o] = "scan" /\ k[o] <= Len(view[o])
    /\ IF CanParse(view[o][k[o]], req[o].dump, req[o].n)
       THEN /\ opc' = [opc EXCEPT ![o] = "parse"] /\ UNCHANGED k
       ELSE /\ k' = [k EXCEPT ![o] = @ + 1] /\ UNCHANGED opc
    /\ UNCHANGED <<parsers, wlock, readers, rpc, req, view, result>>

(* Completion of an Open: record its answer and RUnlock; the locals of    *)
(* the call (preview, slice, index) are gone.                              *)
Finish(o, answer) ==
    /\ result' = [result EXCEPT ![o] = answer]
    /\ readers' = readers \ {o}
    /\ opc' = [opc EXCEPT ![o] = "idle"]
    /\ req' = [req EXCEPT ![o] = None]
    /\ view' = [view EXCEPT ![o] = <<>>]
    /\ k' = [k EXCEPT ![o] = 1]

\* No parser claimed the preview: ErrNoParser, then the deferred RUnlock.
NoParser(o) ==
    /\ opc[o] = "scan" /\ k[o] > Len(view[o])
    /\ Finish(o, "ErrNoParser")
    /\ UNCHANGED <<parsers, wlock, rpc>>

(* parser.Parse(io.MultiReader(preview, r)) returns under the read lock;   *)
(* its graph or error is the claimer's answer.                             *)
Parse(o) ==
    /\ opc[o] = "parse"
    /\ Finish(o, view[o][k[o]])
    /\ UNCHANGED <<parsers, wlock, rpc>>

Next ==
    \/ \E r \in Registrars : RequestLock(r) \/ Acquire(r) \/ AppendUnlock(r)
    \/ \E o \in Openers : Start(o) \/ RLock(o) \/ Scan(o) \/ NoParser(o) \/ Parse(o)

(* Goroutines blocked on the mutex are woken by the runtime and a runnable *)
(* goroutine is eventually scheduled: weak fairness for every step of      *)
(* Register and of an Open in progress.  Whether a goroutine calls Open    *)
(* again is up to its caller, so Start has no fairness.                    *)
Fairness ==
    /\ \A r \in Registrars :
          WF_vars(RequestLock(r)) /\ WF_vars(Acquire(r)) /\ WF_vars(AppendUnlock(r))
    /\ \A o \in Openers :
          WF_vars(RLock(o)) /\ WF_vars(Scan(o)) /\ WF_vars(NoParser(o)) /\ WF_vars(Parse(o))

Spec == Init /\ [][Next]_vars /\ Fairness

-----------------------------------------------------------------------------
TypeOK ==
    /\ parsers \in Seq(Parsers)
    /\ wlock \in Registrars \cup {None} /\ readers \subseteq Openers
    /\ rpc \in [Registrars -> {"idle", "wait", "locked", "done"}]
    /\ opc \in [Openers -> {"idle", "rlock", "scan", "parse"}]
    /\ \A o \in Openers : k[o] \in 1..Len(view[o]) + 1

(* The refinement: an Open in progress is the abstract request, and each   *)
(* Open takes effect when it returns.                                      *)
Atomic == INSTANCE RegistryAtomic WITH
    opening <- [o \in Openers |-> IF opc[o] = "idle" THEN None ELSE req[o]],
    registered <- [r \in Registrars |-> rpc[r] = "done"]

(* Register and Open behave as if atomic: each Open answers with the first *)
(* claimer of its preview in the list as it is when Open returns, although *)
(* Open scans a snapshot and Register may run concurrently; and every      *)
(* Register and every started Open completes (RWMutex writer preference).  *)
RegistryRefinesAtomic == Atomic!Spec
=============================================================================
