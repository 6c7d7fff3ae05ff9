---------------------------- MODULE MCStateStore ----------------------------
(***************************************************************************)
(* StateStore with two processes and four states: two of them tell apart   *)
(* what is saved from what was saved before, one holds a value redact()    *)
(* removes, one is of an older schema.                                     *)
(***************************************************************************)
EXTENDS StateStore, TLC

CONSTANTS p1, p2, fresh, plain, sensitive, old

MCProc == {p1, p2}
MCState == {fresh, plain, sensitive, old}
MCOldState == {old}
MCRedact == [s \in MCState |-> IF s = sensitive THEN plain ELSE s]
MCMigrate == [s \in MCOldState |-> plain]
MCSymmetry == Permutations(MCProc)
=============================================================================
