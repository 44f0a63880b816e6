--------------------------- MODULE RetentionProofs ---------------------------
(***************************************************************************)
(* Theorems about Retention, for every number of organizations, rows and   *)
(* workers and every policy.                                               *)
(***************************************************************************)
EXTENDS Retention, FiniteSetTheorems, TLAPS

\* The tables a run is through with when its next statement is at.
Done(at) ==
  CASE at = "files"  -> {"messages"}
    [] at = "audit"  -> {"messages", "files"}
    [] at = "record" -> Tables
    [] OTHER         -> {}

\* Nothing the run's policy lets go at the run's time is left in those tables.
Through(w) ==
  \A r \in Rows :
    OrgOf[r] = purger[w].left[1][1] /\ TableOf[r] \in Done(purger[w].at) =>
      ~Due(r, purger[w].now, purger[w].left[1][2])

\* A run works on an organization, and its time has come.
Running(w) ==
  purger[w].at # "sleep" =>
    /\ purger[w].left # <<>>
    /\ purger[w].now <= today
    /\ ~dryRun[w] => Through(w)

RetentionInv == RetentionTypeOK /\ \A w \in Purgers : Running(w)

\* The values tables and workers start from have their types.
LEMMA Blanks == NoRow \in Row /\ Sleeping \in Run /\ LastDay \in Nat /\ MaxFailures \in Nat
<1>1. LastDay \in Nat /\ MaxFailures \in Nat /\ 0 \in 0..LastDay
  BY RetentionAssumption
<1>2. NoRow \in Row
  BY <1>1 DEF NoRow, Row, Never
<1>3. <<>> \in Seq(Orgs \X Policy)
  OBVIOUS
<1> QED BY <1>1, <1>2, <1>3 DEF Sleeping, Run, Steps

LEMMA PolicyFacts ==
  ASSUME NEW p \in Policy
  PROVE  /\ p # NoPolicy
         /\ \A l \in Limits : p[l] # NoDays => p[l] \in Nat \ {0}
<1>1. MaxDays \in Nat /\ NoDays # 0
  BY RetentionAssumption
<1>2. "messages" \in Limits
  BY DEF Limits, Tables
<1>3. \A l \in Limits : p[l] \in (1..MaxDays) \cup {NoDays}
  BY DEF Policy
<1>4. p["messages"] # 0
  BY <1>1, <1>2, <1>3
<1>5. NoPolicy["messages"] = 0
  BY <1>2 DEF NoPolicy
<1> QED BY <1>1, <1>3, <1>4, <1>5

LEMMA TableFacts ==
  ASSUME NEW r \in Rows
  PROVE  /\ TableOf[r] \in Tables /\ TableOf[r] \in Limits /\ OrgOf[r] \in Orgs
         /\ "deleted" \in Limits
BY RetentionAssumption DEF Limits

\* What the head of a run's list is.
LEMMA HeadFacts ==
  ASSUME RetentionTypeOK, NEW w \in Purgers, purger[w].left # <<>>
  PROVE  purger[w].left[1][1] \in Orgs /\ purger[w].left[1][2] \in Policy
<1>1. purger[w].left \in Seq(Orgs \X Policy)
  BY DEF RetentionTypeOK, Run
<1>2. purger[w].left[1] \in Orgs \X Policy
  BY <1>1
<1> QED BY <1>2

LEMMA RunFacts ==
  ASSUME RetentionTypeOK, NEW w \in Purgers
  PROVE  purger[w] \in Run /\ purger[w].now \in Nat /\ today \in Nat /\ today \in 0..LastDay
BY Blanks DEF RetentionTypeOK, Run

(***************************************************************************)
(* Which rows are due.                                                     *)
(***************************************************************************)

\* Time passes, and what was due stays due.
LEMMA DueLater ==
  ASSUME RetentionTypeOK, NEW r \in Rows, NEW p \in Policy, NEW now \in Nat, now <= today,
         Due(r, now, p)
  PROVE  Due(r, today, p)
<1>1. today \in Nat /\ rows[r] \in Row /\ rows[r].created \in Int /\ rows[r].deleted \in Int
  BY Blanks DEF RetentionTypeOK, Row, Never
<1>2. \A d \in Nat, t \in Int : t < now - d => t < today - d
  BY <1>1
<1>3. \A l \in Limits : p[l] # NoDays => p[l] \in Nat
  BY PolicyFacts
<1>4. OlderThan(rows[r].created, now, p[TableOf[r]]) => OlderThan(rows[r].created, today, p[TableOf[r]])
  BY <1>1, <1>2, <1>3, TableFacts DEF OlderThan
<1>5. OlderThan(rows[r].deleted, now, p["deleted"]) => OlderThan(rows[r].deleted, today, p["deleted"])
  BY <1>1, <1>2, <1>3, TableFacts DEF OlderThan
<1> QED BY <1>4, <1>5 DEF Due

\* A row that is written now is not due by a time that has come; one that does
\* not change, or goes, does not become due.
RowAges(r) ==
  \/ rows'[r] = rows[r]
  \/ rows'[r].state = "purged"
  \/ rows'[r].created = today /\ rows'[r].deleted = Never
  \/ /\ rows'[r].created = rows[r].created /\ rows[r].state = "live"
     /\ rows'[r].deleted = today

LEMMA NotDue ==
  ASSUME RetentionTypeOK, NEW r \in Rows, NEW p \in Policy, NEW now \in Nat, now <= today,
         ~Due(r, now, p), RowAges(r)
  PROVE  ~Due(r, now, p)'
<1>1. today \in Nat /\ rows[r] \in Row /\ rows[r].created \in Int
  BY Blanks DEF RetentionTypeOK, Row
<1>2. \A l \in Limits : p[l] # NoDays => p[l] \in Nat \ {0}
  BY PolicyFacts
<1>3. \A d \in Nat \ {0} : ~(today < now - d)
  BY <1>1
<1>4. \A l \in Limits : ~OlderThan(today, now, p[l])
  BY <1>2, <1>3 DEF OlderThan
<1>5. CASE rows'[r] = rows[r]
  BY <1>5 DEF Due
<1>6. CASE rows'[r].state = "purged"
  BY <1>6 DEF Due
<1>7. CASE rows'[r].created = today /\ rows'[r].deleted = Never
  BY <1>4, <1>7, TableFacts DEF Due
<1>8. CASE /\ rows'[r].created = rows[r].created /\ rows[r].state = "live"
           /\ rows'[r].deleted = today
  BY <1>4, <1>8, TableFacts DEF Due
<1> QED BY <1>5, <1>6, <1>7, <1>8 DEF RowAges


(***************************************************************************)
(* The invariant, step by step.                                            *)
(***************************************************************************)

\* A run that does not move keeps what it knows.
LEMMA RunningKept ==
  ASSUME RetentionInv, NEW w \in Purgers, purger'[w] = purger[w], dryRun' = dryRun,
         today' \in Nat, today <= today', \A r \in Rows : RowAges(r)
  PROVE  Running(w)'
<1> SUFFICES ASSUME purger[w].at # "sleep"
             PROVE  /\ purger[w].left # <<>> /\ purger[w].now <= today'
                    /\ ~dryRun[w] => Through(w)'
  BY DEF Running
<1>1. RetentionTypeOK /\ purger[w].left # <<>> /\ purger[w].now <= today /\ (~dryRun[w] => Through(w))
  BY DEF RetentionInv, Running
<1>2. purger[w].now \in Nat /\ today \in Nat
  BY <1>1, RunFacts
<1>3. ASSUME ~dryRun[w] PROVE Through(w)'
  <2> SUFFICES ASSUME NEW r \in Rows, OrgOf[r] = purger[w].left[1][1],
                      TableOf[r] \in Done(purger[w].at)
               PROVE  ~Due(r, purger[w].now, purger[w].left[1][2])'
    BY DEF Through
  <2>1. PICK now \in Nat, p \in Policy : now = purger[w].now /\ p = purger[w].left[1][2]
    BY <1>1, <1>2, HeadFacts
  <2>2. ~Due(r, now, p)
    BY <1>1, <1>3, <2>1 DEF Through
  <2>3. ~Due(r, now, p)'
    BY <1>1, <2>1, <2>2, NotDue
  <2> QED BY <2>1, <2>3
<1> QED BY <1>1, <1>2, <1>3

\* The steps of the rest of the server.
LEMMA OthersKeep ==
  ASSUME RetentionInv, UNCHANGED <<purger, dryRun>>, RetentionTypeOK', today <= today',
         \A r \in Rows : RowAges(r)
  PROVE  RetentionInv'
<1>1. today' \in Nat
  BY Blanks DEF RetentionTypeOK
<1> QED BY <1>1, RunningKept DEF RetentionInv

\* The steps of a worker that moves one run.
LEMMA OneMoves ==
  ASSUME RetentionInv, NEW w \in Purgers, RetentionTypeOK', today' = today, dryRun' = dryRun,
         \A v \in Purgers : v # w => purger'[v] = purger[v],
         \A r \in Rows : RowAges(r), Running(w)'
  PROVE  RetentionInv'
<1>1. today' \in Nat /\ today <= today'
  BY Blanks DEF RetentionTypeOK, RetentionInv
<1>2. ASSUME NEW v \in Purgers, v # w PROVE Running(v)'
  BY <1>1, <1>2, RunningKept
<1> QED BY <1>2 DEF RetentionInv

LEMMA TickKeeps == ASSUME RetentionInv, DayPasses PROVE RetentionInv'
<1>1. RetentionTypeOK /\ today' = today + 1 /\ today' \in 0..LastDay /\ today <= today'
  BY Blanks DEF RetentionInv, RetentionTypeOK, DayPasses
<1>2. RetentionTypeOK'
  BY <1>1 DEF RetentionTypeOK, DayPasses
<1>3. \A r \in Rows : RowAges(r)
  BY DEF DayPasses, RowAges
<1> QED BY <1>1, <1>2, <1>3, OthersKeep DEF DayPasses

LEMMA InsertKeeps == ASSUME RetentionInv, NEW r \in Rows, Insert(r) PROVE RetentionInv'
<1> DEFINE v == [state |-> "live", created |-> today, deleted |-> Never]
<1>1. RetentionTypeOK /\ today \in Nat /\ today' = today
  BY Blanks DEF RetentionInv, RetentionTypeOK, Insert
<1>2. v \in Row /\ v.created = today /\ v.deleted = Never
  BY <1>1 DEF Row, RetentionTypeOK
<1>3. rows' = [rows EXCEPT ![r] = v]
  BY DEF Insert
<1> HIDE DEF v
<1>4. rows' \in [Rows -> Row]
  BY <1>1, <1>2, <1>3 DEF RetentionTypeOK
<1>5. RetentionTypeOK'
  BY <1>1, <1>4 DEF RetentionTypeOK, Insert
<1>6. \A x \in Rows : RowAges(x)
  BY <1>1, <1>2, <1>3 DEF RowAges, RetentionTypeOK
<1> QED BY <1>1, <1>5, <1>6, OthersKeep DEF Insert

LEMMA DeleteKeeps == ASSUME RetentionInv, NEW r \in Rows, Delete(r) PROVE RetentionInv'
<1> DEFINE o == rows[r]
           v == [o EXCEPT !.deleted = today]
<1>1. RetentionTypeOK /\ today \in Nat /\ today' = today /\ o \in Row /\ o.state = "live"
  BY Blanks DEF RetentionInv, RetentionTypeOK, Delete
<1>2. v \in Row /\ v.created = o.created /\ v.deleted = today
  BY <1>1 DEF Row, RetentionTypeOK
<1>3. rows' = [rows EXCEPT ![r] = v]
  BY DEF Delete
<1> HIDE DEF v
<1>4. rows' \in [Rows -> Row]
  BY <1>1, <1>2, <1>3 DEF RetentionTypeOK
<1>5. RetentionTypeOK'
  BY <1>1, <1>4 DEF RetentionTypeOK, Delete
<1>6. \A x \in Rows : RowAges(x)
  BY <1>1, <1>2, <1>3 DEF RowAges, RetentionTypeOK
<1> QED BY <1>1, <1>5, <1>6, OthersKeep DEF Delete

LEMMA UpsertKeeps ==
  ASSUME RetentionInv, NEW o \in Orgs, NEW p \in Policies, UpsertPolicy(o, p)
  PROVE  RetentionInv'
<1>1. RetentionTypeOK /\ today \in Nat /\ today' = today
  BY Blanks DEF RetentionInv, RetentionTypeOK, UpsertPolicy
<1>2. \A l \in Limits : p[l] \in (1..MaxDays) \cup {NoDays}
  BY DEF UpsertPolicy, NormalizePolicy, ValidDays
<1>3. p \in Policy
  BY <1>2, RetentionAssumption DEF Policy
<1>4. RetentionTypeOK'
  BY <1>1, <1>3 DEF RetentionTypeOK, UpsertPolicy
<1>5. \A x \in Rows : RowAges(x)
  BY DEF RowAges, UpsertPolicy
<1> QED BY <1>1, <1>4, <1>5, OthersKeep DEF UpsertPolicy

\* The lists a run can start with name configured organizations with their policies.
LEMMA ListFacts ==
  ASSUME RetentionTypeOK, Configured # {}, NEW list \in ListPolicies
  PROVE  list \in Seq(Orgs \X Policy) /\ list # <<>>
<1> DEFINE n == Cardinality(Configured)
<1>1. IsFiniteSet(Configured)
  BY RetentionAssumption, FS_Subset DEF Configured
<1>2. n \in Nat /\ n # 0
  BY <1>1, FS_CardinalityType, FS_EmptySet
<1> HIDE DEF n
<1>3. PICK order \in [1..n -> Configured] : list = [i \in 1..n |-> <<order[i], policies[order[i]]>>]
  BY DEF ListPolicies, n
<1>4. \A i \in 1..n : <<order[i], policies[order[i]]>> \in Orgs \X Policy
  <2> SUFFICES ASSUME NEW i \in 1..n PROVE <<order[i], policies[order[i]]>> \in Orgs \X Policy
    OBVIOUS
  <2>1. order[i] \in Configured
    OBVIOUS
  <2>2. order[i] \in Orgs /\ policies[order[i]] # NoPolicy
    BY <2>1 DEF Configured
  <2> QED BY <2>2 DEF RetentionTypeOK
<1>5. list \in [1..n -> Orgs \X Policy]
  BY <1>3, <1>4
<1>6. list \in Seq(Orgs \X Policy)
  BY <1>2, <1>5
<1>7. 1 \in DOMAIN list
  BY <1>2, <1>5
<1> QED BY <1>6, <1>7

LEMMA BeginKeeps ==
  ASSUME RetentionInv, NEW w \in Purgers, RunBegins(w)
  PROVE  RetentionInv'
<1>1. RetentionTypeOK /\ today' = today /\ today \in Nat /\ today \in 0..LastDay
  BY Blanks DEF RetentionInv, RetentionTypeOK, RunBegins
<1>2. PICK list \in ListPolicies :
        purger' = [purger EXCEPT ![w] = [at |-> "messages", now |-> today, left |-> list]]
  BY DEF RunBegins
<1>3. list \in Seq(Orgs \X Policy) /\ list # <<>>
  BY <1>1, ListFacts DEF RunBegins
<1> DEFINE run == [at |-> "messages", now |-> today, left |-> list]
<1>4. run \in Run /\ run.at = "messages" /\ run.now = today /\ run.left = list
  BY <1>1, <1>3 DEF Run, Steps
<1> HIDE DEF run
<1>5. purger' = [purger EXCEPT ![w] = run] /\ purger \in [Purgers -> Run]
  BY <1>1, <1>2 DEF run, RetentionTypeOK
<1>6. purger'[w] = run /\ purger' \in [Purgers -> Run]
      /\ \A v \in Purgers : v # w => purger'[v] = purger[v]
  BY <1>4, <1>5
<1>7. Through(w)'
  BY <1>4, <1>6 DEF Through, Done
<1>8. Running(w)'
  BY <1>1, <1>3, <1>4, <1>6, <1>7 DEF Running
<1>9. RetentionTypeOK' /\ \A r \in Rows : RowAges(r)
  BY <1>1, <1>6 DEF RetentionTypeOK, RowAges, RunBegins
<1> QED BY <1>1, <1>6, <1>8, <1>9, OneMoves DEF RunBegins

\* What one purge statement does to the rows.
LEMMA PurgeRows ==
  ASSUME RetentionInv, NEW w \in Purgers, PurgeStep(w)
  PROVE  LET due == Selected(purger[w].left[1][1], purger[w].at, purger[w].now, purger[w].left[1][2])
         IN  /\ rows' \in [Rows -> Row] /\ \A r \in Rows : RowAges(r)
             /\ dryRun[w] => rows' = rows
             /\ \A r \in Rows \ due : rows'[r] = rows[r]
             /\ ~dryRun[w] => \A r \in due : rows'[r].state = "purged"
<1> DEFINE due == Selected(purger[w].left[1][1], purger[w].at, purger[w].now, purger[w].left[1][2])
           v == [NoRow EXCEPT !.state = "purged"]
<1>1. v \in Row /\ v.state = "purged"
  BY Blanks DEF Row
<1>2. rows' = IF dryRun[w] THEN rows ELSE [r \in Rows |-> IF r \in due THEN v ELSE rows[r]]
  BY DEF PurgeStep
<1>3. rows \in [Rows -> Row] /\ due \subseteq Rows
  BY DEF RetentionInv, RetentionTypeOK, Selected
<1> HIDE DEF v, due
<1>4. CASE dryRun[w]
  BY <1>2, <1>3, <1>4 DEF RowAges, due
<1>5. CASE ~dryRun[w]
  <2>1. rows' = [r \in Rows |-> IF r \in due THEN v ELSE rows[r]]
    BY <1>2, <1>5
  <2>2. \A r \in Rows : rows'[r] = IF r \in due THEN v ELSE rows[r]
    BY <2>1
  <2>3. \A r \in Rows : RowAges(r)
    BY <1>1, <2>2 DEF RowAges
  <2>4. rows' \in [Rows -> Row]
    BY <1>1, <1>3, <2>1
  <2>5. \A r \in Rows \ due : rows'[r] = rows[r]
    BY <2>2
  <2>6. \A r \in due : rows'[r].state = "purged"
    BY <1>1, <1>3, <2>2
  <2> QED BY <1>5, <2>3, <2>4, <2>5, <2>6 DEF due
<1> QED BY <1>4, <1>5

LEMMA PurgeKeeps ==
  ASSUME RetentionInv, NEW w \in Purgers, PurgeStep(w)
  PROVE  RetentionInv'
<1>1. PICK run \in Run : run = purger[w]
  BY DEF RetentionInv, RetentionTypeOK
<1>2. /\ RetentionTypeOK /\ run.at \in Tables /\ run.left # <<>> /\ run.now <= today
      /\ ~dryRun[w] => Through(w)
  BY <1>1 DEF RetentionInv, Running, PurgeStep, Tables
<1> DEFINE o == run.left[1][1]
           p == run.left[1][2]
           next == [run EXCEPT !.at = After[run.at]]
           due == Selected(o, run.at, run.now, p)
<1>3. o \in Orgs /\ p \in Policy /\ run.now \in Nat /\ today \in Nat
  BY <1>1, <1>2, HeadFacts, RunFacts
<1>4. /\ next \in Run /\ next.at = After[run.at] /\ next.now = run.now /\ next.left = run.left
      /\ next.at \in {"files", "audit", "record"}
  BY <1>2, SMTT(60) DEF Run, After, Tables, Steps
<1>5. Done(next.at) = Done(run.at) \cup {run.at}
  BY <1>2, <1>4 DEF Done, After, Tables
<1>6. /\ rows' \in [Rows -> Row] /\ \A r \in Rows : RowAges(r)
      /\ dryRun[w] => rows' = rows
      /\ \A r \in Rows \ due : rows'[r] = rows[r]
      /\ ~dryRun[w] => \A r \in due : rows'[r].state = "purged"
  BY <1>1, PurgeRows
<1>7. /\ purger' = [purger EXCEPT ![w] = next] /\ purger \in [Purgers -> Run]
      /\ UNCHANGED <<today, policies, dryRun, failures, runs>>
  BY <1>1, <1>2 DEF PurgeStep, RetentionTypeOK
<1> HIDE DEF next
<1>8. /\ purger'[w] = next /\ purger' \in [Purgers -> Run]
      /\ \A v \in Purgers : v # w => purger'[v] = purger[v]
  BY <1>4, <1>7
<1>9. ASSUME ~dryRun[w], NEW r \in Rows, OrgOf[r] = o, TableOf[r] \in Done(next.at)
      PROVE  ~Due(r, run.now, p)'
  <2>1. CASE TableOf[r] \in Done(run.at)
    <3>1. ~Due(r, run.now, p)
      BY <1>1, <1>2, <1>9, <2>1 DEF Through
    <3> HIDE DEF p
    <3> QED BY <1>2, <1>3, <1>6, <3>1, NotDue
  <2>2. CASE TableOf[r] = run.at /\ Due(r, run.now, p)
    <3>1. r \in due
      BY <1>9, <2>2 DEF Selected
    <3>2. rows'[r].state = "purged"
      BY <1>6, <1>9, <3>1
    <3> QED BY <3>2 DEF Due
  <2>3. CASE TableOf[r] = run.at /\ ~Due(r, run.now, p)
    <3> HIDE DEF p
    <3> QED BY <1>2, <1>3, <1>6, <2>3, NotDue
  <2> QED BY <1>5, <1>9, <2>1, <2>2, <2>3
<1>10. ~dryRun[w] => Through(w)'
  BY <1>4, <1>8, <1>9 DEF Through
<1>11. Running(w)'
  BY <1>2, <1>4, <1>7, <1>8, <1>10 DEF Running
<1>12. RetentionTypeOK'
  BY <1>2, <1>6, <1>7, <1>8 DEF RetentionTypeOK
<1> QED BY <1>6, <1>7, <1>8, <1>11, <1>12, OneMoves

LEMMA RecordKeeps ==
  ASSUME RetentionInv, NEW w \in Purgers, RecordRun(w)
  PROVE  RetentionInv'
<1>1. PICK run \in Run : run = purger[w]
  BY DEF RetentionInv, RetentionTypeOK
<1>2. RetentionTypeOK /\ run.at = "record" /\ run.left # <<>> /\ run.now <= today
  BY <1>1 DEF RetentionInv, Running, RecordRun
<1>3. run.left \in Seq(Orgs \X Policy) /\ run.left[1][1] \in Orgs
  BY <1>1, <1>2, HeadFacts DEF Run
<1> DEFINE next == NextOrg(run)
<1>4. /\ next \in Run
      /\ next.at # "sleep" => next.at = "messages" /\ next.left # <<>> /\ next.now = run.now
  <2>1. CASE Len(run.left) = 1
    <3>1. next = Sleeping
      BY <2>1 DEF NextOrg
    <3> QED BY <3>1, Blanks DEF Sleeping
  <2>2. CASE Len(run.left) # 1
    <3>1. next = [run EXCEPT !.at = "messages", !.left = Tail(run.left)]
      BY <2>2 DEF NextOrg
    <3>2. Tail(run.left) \in Seq(Orgs \X Policy) /\ Tail(run.left) # <<>>
      <4>1. Len(run.left) \in Nat /\ Len(run.left) # 0
        BY <1>2, <1>3
      <4>2. Len(Tail(run.left)) = Len(run.left) - 1 /\ Tail(run.left) \in Seq(Orgs \X Policy)
        BY <1>2, <1>3
      <4>3. Len(Tail(run.left)) # 0
        BY <2>2, <4>1, <4>2
      <4>4. Len(<<>>) = 0
        OBVIOUS
      <4> QED BY <4>2, <4>3, <4>4, Zenon
    <3> QED BY <3>1, <3>2 DEF Run, Steps
  <2> QED BY <2>1, <2>2
<1>5. /\ purger' = [purger EXCEPT ![w] = next] /\ purger \in [Purgers -> Run]
      /\ UNCHANGED <<today, policies, rows, dryRun, failures>>
      /\ runs' \subseteq Orgs
  BY <1>1, <1>2, <1>3 DEF RecordRun, RetentionTypeOK
<1> HIDE DEF next
<1>6. /\ purger'[w] = next /\ purger' \in [Purgers -> Run]
      /\ \A v \in Purgers : v # w => purger'[v] = purger[v]
  BY <1>4, <1>5
<1>7. next.at # "sleep" => Through(w)'
  BY <1>4, <1>6 DEF Through, Done
<1>8. Running(w)'
  BY <1>2, <1>4, <1>5, <1>6, <1>7 DEF Running
<1>9. RetentionTypeOK' /\ \A r \in Rows : RowAges(r)
  BY <1>2, <1>5, <1>6 DEF RetentionTypeOK, RowAges
<1> QED BY <1>5, <1>6, <1>8, <1>9, OneMoves

LEMMA FailKeeps ==
  ASSUME RetentionInv, NEW w \in Purgers, StepFails(w)
  PROVE  RetentionInv'
<1>1. RetentionTypeOK /\ failures' \in 0..MaxFailures
  BY Blanks DEF RetentionInv, RetentionTypeOK, StepFails
<1>2. purger' = [purger EXCEPT ![w] = Sleeping] /\ purger \in [Purgers -> Run]
  BY <1>1 DEF StepFails, RetentionTypeOK
<1>3. /\ purger'[w] = Sleeping /\ purger' \in [Purgers -> Run]
      /\ \A v \in Purgers : v # w => purger'[v] = purger[v]
  BY <1>2, Blanks
<1>4. Running(w)'
  BY <1>3 DEF Running, Sleeping
<1>5. RetentionTypeOK' /\ \A r \in Rows : RowAges(r)
  BY <1>1, <1>3 DEF RetentionTypeOK, RowAges, StepFails
<1> QED BY <1>3, <1>4, <1>5, OneMoves DEF StepFails


\* Every table, run and counter has its type, a run has an organization to work
\* on, and a real run has left nothing it should have purged in the tables it is
\* through with, whatever requests and other workers do between its statements.
THEOREM RetentionInvariant == RetentionSpec => []RetentionInv
<1>1. RetentionInit => RetentionInv
  <2> SUFFICES ASSUME RetentionInit PROVE RetentionInv
    OBVIOUS
  <2>1. /\ policies \in [Orgs -> Policy \cup {NoPolicy}] /\ rows \in [Rows -> Row]
        /\ purger \in [Purgers -> Run]
    BY Blanks DEF RetentionInit
  <2>2. RetentionTypeOK
    BY <2>1, Blanks DEF RetentionInit, RetentionTypeOK
  <2>3. \A w \in Purgers : purger[w].at = "sleep"
    BY DEF RetentionInit, Sleeping
  <2> QED BY <2>2, <2>3 DEF RetentionInv, Running
<1>2. RetentionInv /\ [RetentionNext]_retentionVars => RetentionInv'
  <2> SUFFICES ASSUME RetentionInv, [RetentionNext]_retentionVars PROVE RetentionInv'
    OBVIOUS
  <2>1. CASE UNCHANGED retentionVars
    <3>1. /\ today' = today /\ policies' = policies /\ rows' = rows /\ purger' = purger
          /\ dryRun' = dryRun /\ failures' = failures /\ runs' = runs
      BY <2>1 DEF retentionVars
    <3>2. RetentionTypeOK /\ RetentionTypeOK' /\ today \in Nat /\ \A r \in Rows : RowAges(r)
      BY <3>1, Blanks DEF RetentionInv, RetentionTypeOK, RowAges
    <3> QED BY <3>1, <3>2, OthersKeep
  <2> QED BY <2>1, TickKeeps, InsertKeeps, DeleteKeeps, UpsertKeeps, BeginKeeps, PurgeKeeps,
             RecordKeeps, FailKeeps DEF RetentionNext, Work
<1> QED BY <1>1, <1>2, PTL DEF RetentionSpec

\* Every stored limit is within its bounds and every row and run has its type.
THEOREM RetentionTyped == RetentionSpec => []RetentionTypeOK
<1>1. RetentionInv => RetentionTypeOK
  BY DEF RetentionInv
<1> QED BY <1>1, RetentionInvariant, PTL

(***************************************************************************)
(* What a worker may purge, and what it must have purged.                  *)
(***************************************************************************)

\* Only a purge statement takes rows away.
LEMMA OnlyPurges ==
  ASSUME RetentionInv, NEW r \in Rows,
         DayPasses \/ (\E x \in Rows : Insert(x) \/ Delete(x))
           \/ (\E o \in Orgs, p \in Policies : UpsertPolicy(o, p))
           \/ (\E w \in Purgers : RunBegins(w) \/ RecordRun(w) \/ StepFails(w))
  PROVE  ~(rows'[r].state = "purged" /\ rows[r].state # "purged")
<1>1. RetentionTypeOK /\ rows \in [Rows -> Row]
  BY DEF RetentionInv, RetentionTypeOK
<1>2. ASSUME NEW x \in Rows, Insert(x) PROVE ~(rows'[r].state = "purged" /\ rows[r].state # "purged")
  BY <1>1, <1>2 DEF Insert
<1>3. ASSUME NEW x \in Rows, Delete(x) PROVE ~(rows'[r].state = "purged" /\ rows[r].state # "purged")
  <2>1. rows[x] \in Row
    BY <1>1
  <2> QED BY <1>1, <1>3, <2>1 DEF Delete, Row
<1>4. ASSUME \/ DayPasses \/ (\E o \in Orgs, p \in Policies : UpsertPolicy(o, p))
             \/ \E w \in Purgers : RunBegins(w) \/ RecordRun(w) \/ StepFails(w)
      PROVE  rows' = rows
  BY <1>4 DEF DayPasses, UpsertPolicy, RunBegins, RecordRun, StepFails
<1> QED BY <1>2, <1>3, <1>4

LEMMA PurgesExpired ==
  ASSUME RetentionInv, NEW r \in Rows, NEW w \in Purgers, PurgeStep(w),
         rows'[r].state = "purged", rows[r].state # "purged"
  PROVE  /\ ~dryRun[w] /\ purger[w].left # <<>> /\ purger[w].left[1][1] = OrgOf[r]
         /\ Expired(r, purger[w].left[1][2])
<1> DEFINE o == purger[w].left[1][1]
           p == purger[w].left[1][2]
           now == purger[w].now
<1>1. RetentionTypeOK /\ purger[w].left # <<>> /\ now <= today
  BY DEF RetentionInv, Running, PurgeStep, Tables
<1>2. p \in Policy /\ now \in Nat
  BY <1>1, HeadFacts, RunFacts
<1>3. ~dryRun[w] /\ r \in Selected(o, purger[w].at, now, p)
  BY PurgeRows
<1>4. OrgOf[r] = o /\ Due(r, now, p)
  BY <1>3 DEF Selected
<1>5. p # NoPolicy
  BY <1>2, PolicyFacts
<1>6. Due(r, today, p)
  <2> HIDE DEF p, now
  <2> QED BY <1>1, <1>2, <1>4, DueLater
<1> QED BY <1>1, <1>3, <1>4, <1>5, <1>6 DEF Expired

LEMMA RecordsPurged ==
  ASSUME RetentionInv, NEW w \in Purgers, ~dryRun[w], RecordRun(w), NEW r \in Rows,
         OrgOf[r] = purger[w].left[1][1]
  PROVE  ~Due(r, purger[w].now, purger[w].left[1][2])
<1>1. purger[w].at = "record" /\ Through(w)
  BY DEF RecordRun, RetentionInv, Running
<1>2. TableOf[r] \in Done(purger[w].at)
  BY <1>1, TableFacts DEF Done
<1> QED BY <1>1, <1>2 DEF Through

\* A worker purges what the policy it listed lets go, only of that organization
\* and never in a dry run, and when it records the run nothing of that is left,
\* for any number of workers at the same time.
THEOREM PoliciesApplied == RetentionSpec => PolicyApplied
<1>1. RetentionInv /\ [RetentionNext]_retentionVars => [OnlyExpired /\ RecordedMeansPurged]_retentionVars
  <2> SUFFICES ASSUME RetentionInv, RetentionNext PROVE OnlyExpired /\ RecordedMeansPurged
    OBVIOUS
  <2>1. OnlyExpired
    <3> SUFFICES ASSUME NEW r \in Rows, rows'[r].state = "purged", rows[r].state # "purged"
                 PROVE  \E w \in Purgers :
                          /\ ~dryRun[w]
                          /\ purger[w].left # <<>> /\ purger[w].left[1][1] = OrgOf[r]
                          /\ Expired(r, purger[w].left[1][2])
      BY DEF OnlyExpired
    <3>1. PICK w \in Purgers : PurgeStep(w)
      BY OnlyPurges DEF RetentionNext, Work
    <3> QED BY <3>1, PurgesExpired
  <2>2. RecordedMeansPurged
    BY RecordsPurged DEF RecordedMeansPurged
  <2> QED BY <2>1, <2>2
<1> QED BY <1>1, RetentionInvariant, PTL DEF RetentionSpec, PolicyApplied
=============================================================================
