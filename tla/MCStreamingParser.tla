------------------------- MODULE MCStreamingParser -------------------------
EXTENDS StreamingParser

\* Records of the kinds whose failures the parser treats differently.
Kinds == {"params", "type", "object"}
Faults == {"none", "corrupt", "cbfail", "truncated"}
\* A tag varint that does not read: ten bytes >= 128, or cut by the end.
TagFail == [kind |-> "tag", fault |-> "corrupt"]
Body == [kind : Kinds, fault : Faults \ {"truncated"}] \cup {TagFail}
Last == [kind : Kinds, fault : Faults] \cup {[kind |-> "eof", fault |-> "none"], TagFail}

\* Sequences of n body records.
BodySeqs(n) == [1..n -> Body]

\* Dumps of up to MaxRecords records; only the last may be the EOF record
\* or end inside the record.
MaxRecords == 3
MCInputs ==
    {<<>>} \cup
    UNION {{b \o <<l>> : b \in BodySeqs(n), l \in Last} : n \in 0..MaxRecords - 1}

============================================================================
