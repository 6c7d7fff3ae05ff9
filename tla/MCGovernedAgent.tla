--------------------------- MODULE MCGovernedAgent ---------------------------
(***************************************************************************)
(* GovernedAgent on one or two files with two contents, with one ordinary  *)
(* verification command, one of risk L0, and a proposal that requires both *)
(* to succeed.                                                             *)
(***************************************************************************)
EXTENDS GovernedAgent

CONSTANTS c1, c2, test, diff

OneFile == 1..1
TwoFiles == 1..2
MCContent == {c1, c2}
MCCommand == {test, diff}
MCReadCommand == {diff}

OneFileInitial == {[p \in OneFile |-> c1]}
TwoFilesInitial == {[p \in TwoFiles |-> c1]}

OneFileRequests == {[operation |-> "write_file", candidate |-> [p \in OneFile |-> c2]]}
TwoFilesRequests == {[operation |-> "multi_file", candidate |-> [p \in TwoFiles |-> c2]]}

MCScopes == {Path}
MCApprovals == {[verdict |-> "APPROVE", maxUses |-> 1]}
AllApprovals == MCApprovals \cup
           {[verdict |-> "APPROVE_WITH_LIMITS", maxUses |-> 1],
            [verdict |-> "REQUEST_EVIDENCE", maxUses |-> 1]}

\* Bound: an edit by others or a failure, not both.
OneDisturbance == edits + faults <= 1

\* One apply, one run of the test, and the read command as often as one likes.
BothTests == {[risk |-> "L1", limit |-> 2, commands |-> {test, diff}, tests |-> {test, diff}]}
=============================================================================
