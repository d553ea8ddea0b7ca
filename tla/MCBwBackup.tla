----------------------------- MODULE MCBwBackup -----------------------------
(* A view of BwBackup that leaves out what no step and no property reads    *)
(* any more: the variables of a call that has returned, and the history of  *)
(* the last backup once an event has excused its loss.                      *)
EXTENDS BwBackup

Read(live, value) == IF live THEN <<value>> ELSE <<>>

MCView ==
    <<backup, restore, kernel, real, restarts, file, excused,
      Read(~excused, floor),
      Read(backup # "idle", getVars),
      Read(backup # "idle" /\ pc \in {"reply", "done"}, snap),
      Read(restore = "set", <<entries, setVars>>)>>
=============================================================================
