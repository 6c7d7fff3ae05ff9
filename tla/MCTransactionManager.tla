------------------------ MODULE MCTransactionManager ------------------------
(***************************************************************************)
(* TransactionManager on two files and two contents: a two-file change, a  *)
(* new file, a replacement of an existing file.                            *)
(***************************************************************************)
EXTENDS TransactionManager

CONSTANTS c1, c2

MCPath == 1..2
MCContent == {c1, c2}

\* One workspace, with one file present and one absent.
MCInitialFiles == {[p \in MCPath |-> IF p = 1 THEN c1 ELSE Absent]}

MCRequests ==
  {[operation |-> "multi_file",   candidate |-> [p \in MCPath |-> c2]],
   [operation |-> "write_file",   candidate |-> [p \in {2} |-> c1]],
   [operation |-> "replace_text", candidate |-> [p \in {1} |-> c2]]}
=============================================================================
