------------------------------ MODULE MCWorkers ------------------------------
(***************************************************************************)
(* Instances of MeetingReminders and Retention for TLC, the two loops of   *)
(* bin/worker.rs.  Neither reads or writes a variable of the other, so an  *)
(* interleaving of the two shows nothing that one at a time does not: loop *)
(* says which one moves in a behaviour.                                    *)
(***************************************************************************)
EXTENDS MeetingReminders, Retention, TLC

CONSTANTS m1, m2, msg1, file2, none
VARIABLE loop

MCMeetingOf == [r \in Reminders |-> IF r = 1 THEN m1 ELSE m2]

MCOrgOf == (msg1 :> 1 @@ file2 :> 2)
MCTableOf == (msg1 :> "messages" @@ file2 :> "files")

Days(m, d, f, a) == [messages |-> m, deleted |-> d, files |-> f, audit |-> a]

\* All tables; deleted messages and files; out of range.
MCPolicies == {Days(1, none, 1, 1), Days(none, 1, 1, none), Days(0, 1, 1, 1)}

MCInit ==
  /\ Init /\ RetentionInit
  /\ loop \in {"reminders", "retention"}
  /\ loop = "reminders" => \A w \in Purgers : dryRun[w]

MCNext ==
  \/ loop = "reminders" /\ Next /\ UNCHANGED <<retentionVars, loop>>
  \/ loop = "retention" /\ RetentionNext /\ UNCHANGED <<vars, loop>>

\* In the loop that does not move there is nothing to do, so the fairness of its
\* module asks nothing of it.
MCSpec ==
  /\ MCInit /\ [][MCNext]_<<vars, retentionVars, loop>>
  /\ Fairness /\ RetentionFairness
=============================================================================
