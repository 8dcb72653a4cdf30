--------------------------- MODULE RegistryAtomic ---------------------------
(***************************************************************************)
(* What the parser registry (src/heapdump/registry.go) promises, with      *)
(* every operation atomic: Register appends a parser to the ordered list;  *)
(* Open takes a preview of the dump and answers with the first parser of   *)
(* the list, in registration order, whose CanParse claims that preview,    *)
(* or ErrNoParser; a failed first Read answers with the read error.        *)
(* Every Register and every Open that has started eventually completes.    *)
(***************************************************************************)
EXTENDS Sequences, SequencesExt, DumpFormats

CONSTANTS
    Openers,      \* goroutines calling Open
    Registrars,   \* goroutines calling Register
    Plugin,       \* Plugin[r]: the parser registrar r registers
    InitParsers,  \* the list when the goroutines start
    None          \* model value: no request, no result

VARIABLES
    parsers,      \* registry.parsers
    opening,      \* opening[o]: the request [dump, n] of o's Open in progress
    result,       \* result[o]: what o's last Open returned
    registered    \* registered[r]: r's Register has returned

avars == <<parsers, opening, result, registered>>

Requests == UNION {{[dump |-> d, n |-> s] : s \in Previews(d)} : d \in Dumps}
Results == Parsers \cup {"ErrNoParser", "ReadError"}

\* The parser Open returns for request q against the list ps.
FirstClaimer(ps, q) ==
    LET k == SelectInSeq(ps, LAMBDA p : CanParse(p, q.dump, q.n))
    IN  IF k = 0 THEN "ErrNoParser" ELSE ps[k]

Init ==
    /\ parsers = InitParsers
    /\ opening = [o \in Openers |-> None]
    /\ result = [o \in Openers |-> None]
    /\ registered = [r \in Registrars |-> FALSE]

\* o calls Open on a dump and its first Read returns n bytes.
Request(o) ==
    /\ opening[o] = None
    /\ \E q \in Requests : opening' = [opening EXCEPT ![o] = q]
    /\ UNCHANGED <<parsers, result, registered>>

\* o calls Open and its first Read fails.
ReadFailure(o) ==
    /\ opening[o] = None
    /\ result' = [result EXCEPT ![o] = "ReadError"]
    /\ UNCHANGED <<parsers, opening, registered>>

\* o's Open takes effect against the list as it is now.
Open(o) ==
    /\ opening[o] # None
    /\ result' = [result EXCEPT ![o] = FirstClaimer(parsers, opening[o])]
    /\ opening' = [opening EXCEPT ![o] = None]
    /\ UNCHANGED <<parsers, registered>>

Register(r) ==
    /\ ~registered[r]
    /\ parsers' = Append(parsers, Plugin[r])
    /\ registered' = [registered EXCEPT ![r] = TRUE]
    /\ UNCHANGED <<opening, result>>

Next ==
    \/ \E o \in Openers : Request(o) \/ ReadFailure(o) \/ Open(o)
    \/ \E r \in Registrars : Register(r)

Spec ==
    /\ Init /\ [][Next]_avars
    /\ \A o \in Openers : WF_avars(Open(o))
    /\ \A r \in Registrars : WF_avars(Register(r))
=============================================================================
