------------------------------ MODULE AnchorLog ------------------------------
(***************************************************************************)
(* What anchoring promises, with nothing of how it is done: a batch that   *)
(* is closed may be committed, at most once; what is committed stays, in   *)
(* the order it was committed; and a root is reported as anchored only     *)
(* after it was committed.  A report may be forgotten, also for another:   *)
(* the state file has one record for an index.                             *)
(***************************************************************************)
EXTENDS Naturals, Sequences

CONSTANT Root

VARIABLES owed,           \* Root -> how many batches are closed and not committed
          committed,      \* the committed roots, in order
          reported        \* the roots reported as anchored

logVars == <<owed, committed, reported>>

LogInit == owed = [r \in Root |-> 0] /\ committed = <<>> /\ reported = {}

Close(r) ==
  /\ owed' = [owed EXCEPT ![r] = @ + 1]
  /\ UNCHANGED <<committed, reported>>

Commit(r) ==
  /\ owed[r] > 0
  /\ owed' = [owed EXCEPT ![r] = @ - 1]
  /\ committed' = Append(committed, r)
  /\ UNCHANGED reported

Report(r) ==
  /\ \E i \in DOMAIN committed : committed[i] = r
  /\ r \in reported' /\ reported' \subseteq reported \cup {r}
  /\ UNCHANGED <<owed, committed>>

Forget ==
  /\ reported' \subseteq reported
  /\ UNCHANGED <<owed, committed>>

LogNext == Forget \/ \E r \in Root : Close(r) \/ Commit(r) \/ Report(r)

LogSpec == LogInit /\ [][LogNext]_logVars
=============================================================================
