----------------------------- MODULE AtomicChange -----------------------------
(***************************************************************************)
(* What a change transaction promises to its caller: a prepared candidate  *)
(* takes effect on the workspace in one step or not at all, and a rollback *)
(* gives every target back the content it had when the candidate was       *)
(* prepared.  TransactionManager does the same with one file at a time and *)
(* is shown to implement this module.                                      *)
(***************************************************************************)
EXTENDS FiniteSets

CONSTANTS Path, FileState, TxId

VARIABLES files,    \* the workspace: the state of every path
          status    \* the status of every transaction prepared so far

vars == <<files, status>>

Overlay(f, change) ==
  [p \in DOMAIN f |-> IF p \in DOMAIN change THEN change[p] ELSE f[p]]

Restore(f, id) ==
  [p \in DOMAIN f |-> IF p \in DOMAIN id.candidate THEN id.source[p] ELSE f[p]]

Known == DOMAIN status

Init ==
  /\ files \in [Path -> FileState]
  /\ status = [id \in {} |-> "PREPARED"]

(***************************************************************************)
(* Preparing the same change of the same workspace again names the same    *)
(* transaction, whatever became of it, and starts it afresh.               *)
(***************************************************************************)
Prepare(id) ==
  /\ id.source = files
  /\ status' = [i \in Known \cup {id} |-> IF i = id THEN "PREPARED" ELSE status[i]]
  /\ UNCHANGED files

Apply(id) ==
  /\ status[id] = "PREPARED"
  /\ files = id.source
  /\ files' = Overlay(files, id.candidate)
  /\ status' = [status EXCEPT ![id] = "APPLIED"]

Finalize(id) ==
  /\ status[id] = "APPLIED"
  /\ status' = [status EXCEPT ![id] = "VERIFIED"]
  /\ UNCHANGED files

Discard(id) ==
  /\ status[id] = "PREPARED"
  /\ status' = [status EXCEPT ![id] = "DISCARDED"]
  /\ UNCHANGED files

Rollback(id) ==
  /\ status[id] \in {"APPLIED", "VERIFIED"}
  /\ files' = Restore(files, id)
  /\ status' = [status EXCEPT ![id] = "ROLLED_BACK"]

\* Somebody else changes one file.
Edit(p, c) ==
  /\ files' = [files EXCEPT ![p] = c]
  /\ UNCHANGED status

Next ==
  \/ \E id \in TxId : Prepare(id)
  \/ \E id \in Known : Apply(id) \/ Finalize(id) \/ Discard(id) \/ Rollback(id)
  \/ \E p \in Path, c \in FileState : Edit(p, c)

Spec == Init /\ [][Next]_vars
=============================================================================
