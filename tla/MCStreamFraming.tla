--------------------------- MODULE MCStreamFraming ---------------------------
(* Dumps of one or two records of any kind (tags 1-17) before the EOF      *)
(* record, read with either recovery setting, a budget of 0 errors or the  *)
(* default 100, and callbacks that may fail.                               *)
EXTENDS StreamFraming

MCDumps == {<<t>> : t \in 1..17} \cup {<<t, u>> : t, u \in 1..17}
=============================================================================
