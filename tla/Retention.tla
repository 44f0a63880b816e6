------------------------------ MODULE Retention ------------------------------
(***************************************************************************)
(* Retention policies (controllers/retention_controller.rs, domain and     *)
(* repositories of the same name) and the worker that applies them         *)
(* (RetentionWorker in domain/retention.rs, run by bin/worker.rs) to the   *)
(* tables messages, attachments and audit_events.                          *)
(*                                                                         *)
(* A run reads the time and all policies, then takes one organization      *)
(* after the other through four statements, none of them in a transaction  *)
(* with another.  The first statement that fails ends the run for every    *)
(* organization that is left; the loop starts over at its next tick.       *)
(***************************************************************************)
EXTENDS Integers, FiniteSets, Sequences

CONSTANTS
  Orgs,       \* organizations, ordered by their ids: positive integers
  Rows,       \* ids of rows of the three tables
  OrgOf,      \* the organization of a row
  TableOf,    \* "messages", "files" or "audit"
  Policies,   \* policies administrators send
  Purgers,    \* worker processes
  MaxDays,    \* 3650
  NoDays,     \* None
  LastDay,    \* bound: days that pass
  MaxFailures \* bound: failed statements and crashes

Tables == {"messages", "files", "audit"}
Limits == Tables \cup {"deleted"}
Policy == [Limits -> (1..MaxDays) \cup {NoDays}]

ASSUME RetentionAssumption ==
  /\ Orgs \subseteq Nat \ {0} /\ IsFiniteSet(Orgs)
  /\ OrgOf \in [Rows -> Orgs]
  /\ TableOf \in [Rows -> Tables]
  /\ {MaxDays, LastDay, MaxFailures} \subseteq Nat
  /\ NoDays \notin Int
  /\ Policies \subseteq [Limits -> Int \cup {NoDays}]
  /\ IsFiniteSet(Rows)

VARIABLES
  today,     \* the clock
  policies,  \* table organization_retention_policies
  rows,      \* the rows of the three tables
  purger,    \* what the run of each worker holds
  dryRun,    \* RETENTION_DRY_RUN of each worker
  failures,  \* faults so far
  runs       \* the organizations with a real run in retention_runs

retentionVars == <<today, policies, rows, purger, dryRun, failures, runs>>

NoPolicy == [l \in Limits |-> 0]
Never == -1

Row == [state : {"none", "live", "purged"}, created : 0..LastDay,
        deleted : {Never} \cup 0..LastDay]

Steps == {"sleep", "messages", "files", "audit", "record"}

\* A run: its time, and the organizations and policies that are left of those it
\* has listed.
Run ==
  [at : Steps, now : 0..LastDay, left : Seq(Orgs \X Policy)]

\* One type per table and worker.
RetentionTypeOK ==
  /\ today \in 0..LastDay
  /\ policies \in [Orgs -> Policy \cup {NoPolicy}]
  /\ rows \in [Rows -> Row]
  /\ purger \in [Purgers -> Run]
  /\ dryRun \in [Purgers -> BOOLEAN]
  /\ failures \in 0..MaxFailures
  /\ runs \subseteq Orgs

Sleeping == [at |-> "sleep", now |-> 0, left |-> <<>>]
NoRow == [state |-> "none", created |-> 0, deleted |-> Never]

RetentionInit ==
  /\ today = 0
  /\ policies = [o \in Orgs |-> NoPolicy]
  /\ rows = [r \in Rows |-> NoRow]
  /\ purger = [w \in Purgers |-> Sleeping]
  /\ dryRun \in [Purgers -> BOOLEAN]
  /\ failures = 0
  /\ runs = {}

(***************************************************************************)
(* The rest of the server: rows appear, messages are deleted, time passes. *)
(***************************************************************************)
DayPasses ==
  /\ today < LastDay
  /\ today' = today + 1
  /\ UNCHANGED <<policies, rows, purger, dryRun, failures, runs>>

\* The service takes Utc::now() and then inserts, or the statement says now():
\* the same day, at this module's grain.
Insert(r) ==
  /\ rows[r].state = "none"
  /\ rows' = [rows EXCEPT ![r] = [state |-> "live", created |-> today, deleted |-> Never]]
  /\ UNCHANGED <<today, policies, purger, dryRun, failures, runs>>

\* delete_message: deleted_at is now(), once.
Delete(r) ==
  /\ TableOf[r] = "messages"
  /\ rows[r].state = "live" /\ rows[r].deleted = Never
  /\ rows' = [rows EXCEPT ![r].deleted = today]
  /\ UNCHANGED <<today, policies, purger, dryRun, failures, runs>>

(***************************************************************************)
(* Policies.                                                               *)
(***************************************************************************)

\* normalize_days
ValidDays(d) == d # NoDays => d \in 1..MaxDays

NormalizePolicy(p) == \A l \in Limits : ValidDays(p[l])

\* PUT of an administrator; the statement inserts or replaces the row.
UpsertPolicy(o, p) ==
  /\ NormalizePolicy(p)
  /\ policies' = [policies EXCEPT ![o] = p]
  /\ UNCHANGED <<today, rows, purger, dryRun, failures, runs>>

(***************************************************************************)
(* The worker.                                                             *)
(***************************************************************************)

Configured == {o \in Orgs : policies[o] # NoPolicy}

\* list_policies: ORDER BY organization_id.
ListPolicies ==
  LET n == Cardinality(Configured)
  IN  {[i \in 1..n |-> <<order[i], policies[order[i]]>>] :
         order \in {s \in [1..n -> Configured] : \A i \in 2..n : s[i - 1] < s[i]}}

\* run_once: the time is read first, the policies after it.
RunBegins(w) ==
  /\ purger[w].at = "sleep"
  /\ Configured # {}
  /\ \E list \in ListPolicies :
       purger' = [purger EXCEPT ![w] = [at |-> "messages", now |-> today, left |-> list]]
  /\ UNCHANGED <<today, policies, rows, dryRun, failures, runs>>

\* time < cutoff(now, days); without days there is no cutoff.
OlderThan(time, now, days) == days # NoDays /\ time < now - days

\* The WHERE clauses of the three purge_for_retention.
Due(r, now, p) ==
  /\ rows[r].state = "live"
  /\ \/ OlderThan(rows[r].created, now, p[TableOf[r]])
     \/ /\ TableOf[r] = "messages" /\ rows[r].deleted # Never
        /\ OlderThan(rows[r].deleted, now, p["deleted"])

\* Mutant: the statement does not look at the organization.
Selected_AnyOrg(o, table, now, p) ==
  {r \in Rows : TableOf[r] = table /\ Due(r, now, p)}

Selected(o, table, now, p) ==
  {r \in Rows : OrgOf[r] = o /\ TableOf[r] = table /\ Due(r, now, p)}

After == [messages |-> "files", files |-> "audit", audit |-> "record"]

\* One purge statement; a dry run counts the rows and leaves them.
PurgeStep(w) ==
  LET run == purger[w]
      due == Selected(run.left[1][1], run.at, run.now, run.left[1][2])
  IN  /\ run.at \in Tables
      /\ rows' = IF dryRun[w] THEN rows
                 ELSE [r \in Rows |-> IF r \in due THEN [NoRow EXCEPT !.state = "purged"]
                                      ELSE rows[r]]
      /\ purger' = [purger EXCEPT ![w].at = After[run.at]]
      /\ UNCHANGED <<today, policies, dryRun, failures, runs>>

\* Mutant: the run ends with its first organization.
NextOrg_Ends(run) == Sleeping

NextOrg(run) ==
  IF Len(run.left) = 1 THEN Sleeping
  ELSE [run EXCEPT !.at = "messages", !.left = Tail(@)]

\* record_run, then the next organization or the end of the run.
RecordRun(w) ==
  LET run == purger[w]
  IN  /\ run.at = "record"
      /\ purger' = [purger EXCEPT ![w] = NextOrg(run)]
      /\ runs' = runs \cup IF dryRun[w] THEN {} ELSE {run.left[1][1]}
      /\ UNCHANGED <<today, policies, rows, dryRun, failures>>

\* A statement fails, or the process dies: `?` ends the run for every
\* organization, and nothing is recorded of what was purged.
StepFails(w) ==
  /\ purger[w].at # "sleep"
  /\ failures < MaxFailures
  /\ failures' = failures + 1
  /\ purger' = [purger EXCEPT ![w] = Sleeping]
  /\ UNCHANGED <<today, policies, rows, dryRun, runs>>

(***************************************************************************)
(* The specification.                                                      *)
(***************************************************************************)
Work(w) == RunBegins(w) \/ PurgeStep(w) \/ RecordRun(w)

RetentionNext ==
  \/ DayPasses
  \/ \E r \in Rows : Insert(r) \/ Delete(r)
  \/ \E o \in Orgs, p \in Policies : UpsertPolicy(o, p)
  \/ \E w \in Purgers : Work(w) \/ StepFails(w)

RetentionSpec == RetentionInit /\ [][RetentionNext]_retentionVars

\* The loop of each worker ticks forever.
RetentionFairness == \A w \in Purgers : WF_retentionVars(Work(w))

(***************************************************************************)
(* Properties.                                                             *)
(***************************************************************************)
Expired(r, p) == p # NoPolicy /\ Due(r, today, p)

\* A row goes only when it is past a limit its own organization set, under the
\* policy in force now or the one the worker listed before that was replaced,
\* and never by a dry run.
OnlyExpired ==
  \A r \in Rows :
    rows'[r].state = "purged" /\ rows[r].state # "purged" =>
      \E w \in Purgers :
        /\ ~dryRun[w]
        /\ purger[w].left # <<>> /\ purger[w].left[1][1] = OrgOf[r]
        /\ Expired(r, purger[w].left[1][2])

\* When a real run of an organization is recorded, nothing the applied policy
\* lets go at the time of the run is left.
RecordedMeansPurged ==
  \A w \in Purgers :
    ~dryRun[w] /\ RecordRun(w) =>
      \A r \in Rows :
        OrgOf[r] = purger[w].left[1][1] =>
          ~Due(r, purger[w].now, purger[w].left[1][2])

\* A run applies the policy it listed, that and nothing else, although other
\* requests insert, delete and change policies between its statements and any
\* statement may fail.
PolicyApplied == [][OnlyExpired /\ RecordedMeansPurged]_retentionVars

\* A row past the limits of its organization is purged in the end, or a new
\* policy keeps it: a failure in the middle of a run, of this or of an earlier
\* organization, delays it and no more.
ExpiredIsPurged ==
  (\A w \in Purgers : ~dryRun[w]) =>
    \A r \in Rows : Expired(r, policies[OrgOf[r]]) ~> ~Expired(r, policies[OrgOf[r]])
=============================================================================
