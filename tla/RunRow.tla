------------------------------- MODULE RunRow -------------------------------
(***************************************************************************)
(* What the runs table promises about one run's status, whoever writes it  *)
(* and in whatever order: it only moves forward, a terminal status is left *)
(* alone by everything except the one finalize push, and once the finals   *)
(* are in nothing writes the row again.                                    *)
(*                                                                         *)
(* This is weaker than contracts/api.md ("Terminal states are immutable"), *)
(* which RunLifecycle does not implement.                                  *)
(***************************************************************************)
VARIABLES
  status,   \* the row's status, "absent" before the INSERT
  finals    \* have the finals of a finalize push been written

vars == <<status, finals>>

Terminal == {"completed", "failed", "aborted"}

Init == status = "absent" /\ finals = FALSE

Insert   == status = "absent" /\ status' = "queued" /\ UNCHANGED finals
Start    == status = "queued" /\ status' = "running" /\ UNCHANGED finals
Stop(s)  == status \in {"queued", "running"} /\ status' = s /\ UNCHANGED finals
Finalize(s) ==
  /\ status # "absent"
  /\ ~finals
  /\ status' = s
  /\ finals' = TRUE

Next ==
  \/ Insert
  \/ Start
  \/ \E s \in {"failed", "aborted"} : Stop(s)
  \/ \E s \in {"completed", "aborted"} : Finalize(s)

Spec == Init /\ [][Next]_vars
=============================================================================
