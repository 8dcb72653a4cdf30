--------------------------- MODULE MCRecordFraming ---------------------------
(* Dumps of one or two records of any kind (tags 1-17) before the EOF      *)
(* record.                                                                 *)
EXTENDS RecordFraming

MCDumps == {<<t>> : t \in 1..17} \cup {<<t, u>> : t, u \in 1..17}
=============================================================================
