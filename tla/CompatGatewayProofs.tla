------------------------ MODULE CompatGatewayProofs ------------------------
(***************************************************************************)
(* Theorems about CompatGateway, for every set of sockets, sessions and    *)
(* bots and every value of the limits.                                     *)
(***************************************************************************)
EXTENDS CompatGateway, FiniteSetTheorems, SequenceTheorems, TLAPS

(***************************************************************************)
(* Type correctness.  What a handler reads from the tables is typed only   *)
(* because of where its task is suspended: Control says which locals are   *)
(* set at which label.                                                     *)
(***************************************************************************)
Control ==
  \A k \in Sockets :
    /\ status[k] # "open" => pc[k] = "select"
    /\ status[k] = "new" => bot[k] = NoBot /\ resuming[k].bot = NoBot
    /\ bot[k] = NoBot <=> session[k] = NoSession
    /\ resuming[k].bot = NoBot <=> resuming[k].session = NoSession
    /\ pc[k] \in {"list", "replay"} => bot[k] = NoBot /\ resuming[k].bot # NoBot
    /\ pc[k] \in {"append", "send", "update"} => bot[k] # NoBot

TypeInv == TypeOK /\ Control

\* Ending a socket task keeps every variable in its type.
LEMMA EndsType ==
  ASSUME TypeOK, NEW k \in Sockets, Ends(k)
  PROVE  TypeOK'
  BY DEF TypeOK, Ends, table, Labels

\* The statements of the session store keep the two tables in their types.
LEMMA StoreType ==
  ASSUME TypeOK, NEW s \in Sessions, NEW n \in Nat
  PROVE  /\ StoreUpdateSequence(s, n) =>
              /\ DOMAIN sessions' = DOMAIN sessions
              /\ \A x \in DOMAIN sessions' : sessions'[x] \in Session
         /\ \A e \in Nat : StoreAppend(s, n, e) =>
              replay' \in [Sessions -> SUBSET Row]
         /\ \A b \in Bots, i \in SUBSET Supported : StoreCreate(s, b, n, i) =>
              /\ DOMAIN sessions' = DOMAIN sessions \cup {s}
              /\ \A x \in DOMAIN sessions' : sessions'[x] \in Session
<1>1. StoreUpdateSequence(s, n) =>
        /\ DOMAIN sessions' = DOMAIN sessions
        /\ \A x \in DOMAIN sessions' : sessions'[x] \in Session
  <2>1. \A q \in Session : [q EXCEPT !.sequence = n] \in Session
    BY DEF Session
  <2> QED BY <2>1 DEF TypeOK, StoreUpdateSequence
<1>2. \A e \in Nat : StoreAppend(s, n, e) => replay' \in [Sessions -> SUBSET Row]
  BY DEF TypeOK, StoreAppend, Row
<1>3. \A b \in Bots, i \in SUBSET Supported : StoreCreate(s, b, n, i) =>
        /\ DOMAIN sessions' = DOMAIN sessions \cup {s}
        /\ \A x \in DOMAIN sessions' : sessions'[x] \in Session
  BY DEF TypeOK, StoreCreate, Session
<1> QED BY <1>1, <1>2, <1>3

\* A frame that reaches the client, or is lost, leaves recv in its type.
LEMMA DeliverType ==
  ASSUME TypeOK, NEW k \in Sockets, NEW n \in Nat, NEW e \in Nat,
         Deliver(k, n, e)
  PROVE  recv' \in [Sockets -> Seq(Frame)]
<1>1. [s |-> n, ev |-> e] \in Frame
  BY DEF Frame
<1>2. recv[k] \in Seq(Frame)
  BY DEF TypeOK
<1>3. Append(recv[k], [s |-> n, ev |-> e]) \in Seq(Frame)
  BY <1>1, <1>2
<1> QED BY <1>3 DEF TypeOK, Deliver

\* Every step of every handler keeps TypeOK.
LEMMA NextType ==
  ASSUME TypeInv, [Next]_vars
  PROVE  TypeOK'
<1> USE LimitsAssumption, NamesAssumption
<1>0. TypeOK /\ Control
  BY DEF TypeInv
<1> USE <1>0
<1>1. CASE UNCHANGED vars
  BY <1>1 DEF TypeOK, vars, table, task
<1>2. ASSUME NEW t \in Published, Publish(t) PROVE TypeOK'
  BY <1>2 DEF TypeOK, Publish, table, task
<1>3. ASSUME NEW s \in Sessions, Expire(s) PROVE TypeOK'
  <2>1. \A c \in Session : [c EXCEPT !.expired = TRUE] \in Session
    BY DEF Session
  <2>2. \A x \in DOMAIN sessions : sessions'[x] \in Session
    BY <1>3, <2>1 DEF TypeOK, Expire
  <2>3. DOMAIN sessions' = DOMAIN sessions
    BY <1>3 DEF Expire
  <2> QED BY <1>3, <2>2, <2>3 DEF TypeOK, Expire, task
<1>4. ASSUME NEW k \in Sockets, LinkDrops(k) PROVE TypeOK'
  BY <1>4 DEF TypeOK, LinkDrops, table
<1>5. ASSUME NEW k \in Sockets, Connect(k) PROVE TypeOK'
  BY <1>5 DEF TypeOK, Connect, table
<1>6. ASSUME NEW k \in Sockets,
             Crash(k) \/ SocketEnds(k) \/ AppendFails(k) \/ SendFails(k)
      PROVE TypeOK'
  BY <1>6, EndsType DEF Crash, SocketEnds, AppendFails, SendFails
<1>7. ASSUME NEW k \in Sockets, NEW b \in Bots \cup {NoBot}, NEW i \in Offers,
             NEW ok \in BOOLEAN, NEW under \in BOOLEAN,
             \/ IdentifyRefused(k, b, i, ok, under)
             \/ IdentifyFails(k, b, i, ok, under)
             \/ \E s \in Sessions : Identify(k, b, i, ok, under, s)
      PROVE TypeOK'
  <2>1. CASE IdentifyRefused(k, b, i, ok, under)
    BY <2>1, EndsType DEF IdentifyRefused
  <2>2. CASE IdentifyFails(k, b, i, ok, under)
    BY <2>2 DEF TypeOK, IdentifyFails, table
  <2>3. ASSUME NEW s \in Sessions, Identify(k, b, i, ok, under, s)
        PROVE TypeOK'
    <3>1. b \in Bots /\ i \in SUBSET Supported
      BY <2>3 DEF Identify, IdentifyAdmits
    <3>2. sequence[k] + 1 \in Nat
      BY DEF TypeOK
    <3>3. /\ DOMAIN sessions' = DOMAIN sessions \cup {s}
          /\ \A x \in DOMAIN sessions' : sessions'[x] \in Session
      BY <2>3, <3>1, <3>2, StoreType DEF Identify
    <3> QED BY <2>3, <3>1, <3>2, <3>3 DEF TypeOK, Identify, Goto, Labels
  <2> QED BY <1>7, <2>1, <2>2, <2>3
<1>8. ASSUME NEW k \in Sockets, NEW b \in Bots \cup {NoBot}, NEW s \in Sessions,
             NEW c \in 0..MaxSeq,
             ResumeRefused(k, b, s, c) \/ ResumeFindsSession(k, b, s, c)
      PROVE TypeOK'
  <2>1. CASE ResumeRefused(k, b, s, c)
    BY <2>1, EndsType DEF ResumeRefused
  <2>2. CASE ResumeFindsSession(k, b, s, c)
    <3>1. sessions[s] \in Session /\ c \in Nat
      BY <2>2 DEF TypeOK, ResumeFindsSession, StoreResumes, StoreFinds
    <3>2. [session |-> s, bot |-> b, intents |-> sessions[s].intents,
           client |-> c, base |-> sessions[s].sequence] \in Resume
      BY <3>1 DEF Session, Resume
    <3> QED BY <2>2, <3>2 DEF TypeOK, ResumeFindsSession, Goto, Labels, table
  <2> QED BY <1>8, <2>1, <2>2
<1>9. ASSUME NEW k \in Sockets, SkipLagged(k) PROVE TypeOK'
  <2>1. Len(hub) - HubCapacity + 1 \in Nat
    BY <1>9 DEF TypeOK, SkipLagged, Lags
  <2> QED BY <1>9, <2>1 DEF TypeOK, SkipLagged, table
<1>10. ASSUME NEW k \in Sockets, NEW admitted \in BOOLEAN, TakeEvent(k, admitted)
       PROVE TypeOK'
  <2>1. CASE UNCHANGED <<pc, sequence, pending, granted>>
    BY <1>10, <2>1 DEF TypeOK, TakeEvent, table
  <2>2. CASE /\ Dispatches(k, hub[pos[k]], admitted)
             /\ sequence' = [sequence EXCEPT ![k] = @ + 1]
             /\ pending' = [pending EXCEPT ![k] = pos[k]]
             /\ granted' = granted \cup {<<bot[k], pos[k]>>}
             /\ Goto(k, "append")
    <3>1. <<bot[k], pos[k]>> \in Bots \X Nat
      BY <2>2 DEF TypeOK, Dispatches
    <3> QED BY <1>10, <2>2, <3>1 DEF TypeOK, TakeEvent, Goto, Labels, table
  <2> QED BY <1>10, <2>1, <2>2 DEF TakeEvent
<1>11. ASSUME NEW k \in Sockets, ResumeLists(k) PROVE TypeOK'
  <2> DEFINE rows == StoreListAfter(resuming[k].session, resuming[k].client)
  <2>1. resuming[k] \in Resume /\ resuming[k].session \in Sessions
    BY <1>11 DEF TypeOK, Control, Resume, ResumeLists, At
  <2>2. rows \subseteq Row
    BY <2>1 DEF TypeOK, StoreListAfter
  <2>3. PICK m \in {resuming[k].base} \cup {r.seq : r \in rows} :
          resuming' = [resuming EXCEPT ![k].base = m]
    BY <1>11 DEF ResumeLists
  <2>4. m \in Nat
    BY <2>1, <2>2 DEF Resume, Row
  <2>5. [resuming[k] EXCEPT !.base = m] \in Resume
    BY <2>1, <2>4 DEF Resume
  <2>6. resuming' \in [Sockets -> Resume]
    BY <2>3, <2>5 DEF TypeOK
  <2>7. batch' \in [Sockets -> SUBSET Row]
    BY <1>11, <2>2 DEF TypeOK, ResumeLists
  <2> QED BY <1>11, <2>6, <2>7 DEF TypeOK, ResumeLists, Goto, Labels, table
<1>12. ASSUME NEW k \in Sockets, ResumeListFails(k) PROVE TypeOK'
  BY <1>12 DEF TypeOK, ResumeListFails, NotResuming, Resume, Goto, Labels, table
<1>13. ASSUME NEW k \in Sockets, ReplayOne(k) PROVE TypeOK'
  <2>1. PICK r \in batch[k] : /\ batch' = [batch EXCEPT ![k] = @ \ {r}]
                              /\ Deliver(k, r.seq, r.ev)
    BY <1>13 DEF ReplayOne
  <2>2. r.seq \in Nat /\ r.ev \in Nat
    BY DEF TypeOK, Row
  <2>3. recv' \in [Sockets -> Seq(Frame)]
    BY <2>1, <2>2, DeliverType
  <2> QED BY <1>13, <2>1, <2>3 DEF TypeOK, ReplayOne, table
<1>14. ASSUME NEW k \in Sockets, NEW stored \in BOOLEAN,
              ResumeCompletes(k, stored)
       PROVE TypeOK'
  <2>1. resuming[k] \in Resume /\ resuming[k].session \in Sessions
    BY <1>14 DEF TypeOK, Control, Resume, ResumeCompletes, At
  <2>2. /\ resuming[k].base + 1 \in Nat
        /\ resuming[k].bot \in Bots \cup {NoBot}
        /\ resuming[k].intents \in SUBSET Supported
    BY <2>1 DEF Resume
  <2>3. /\ DOMAIN sessions' = DOMAIN sessions
        /\ \A x \in DOMAIN sessions' : sessions'[x] \in Session
    BY <1>14, <2>1, <2>2, StoreType DEF ResumeCompletes, TypeOK
  <2>4. NotResuming \in Resume
    BY DEF NotResuming, Resume
  <2> QED BY <1>14, <2>1, <2>2, <2>3, <2>4
          DEF TypeOK, ResumeCompletes, Goto, Labels
<1>15. ASSUME NEW k \in Sockets, AppendReplay(k) PROVE TypeOK'
  <2>1. session[k] \in Sessions
    BY <1>15 DEF TypeOK, Control, AppendReplay, At
  <2>2. replay' \in [Sessions -> SUBSET Row]
    BY <1>15, <2>1, StoreType DEF TypeOK, AppendReplay
  <2> QED BY <1>15, <2>2 DEF TypeOK, AppendReplay, Goto, Labels
<1>16. ASSUME NEW k \in Sockets, SendDispatch(k) PROVE TypeOK'
  <2>1. recv' \in [Sockets -> Seq(Frame)]
    BY <1>16, DeliverType DEF SendDispatch, TypeOK
  <2> QED BY <1>16, <2>1 DEF TypeOK, SendDispatch, Goto, Labels, table
<1>17. ASSUME NEW k \in Sockets, NEW stored \in BOOLEAN,
              UpdateSequence(k, stored)
       PROVE TypeOK'
  <2>1. session[k] \in Sessions
    BY <1>17 DEF TypeOK, Control, UpdateSequence, At
  <2>2. /\ DOMAIN sessions' = DOMAIN sessions
        /\ \A x \in DOMAIN sessions' : sessions'[x] \in Session
    BY <1>17, <2>1, StoreType DEF UpdateSequence, TypeOK
  <2> QED BY <1>17, <2>2 DEF TypeOK, UpdateSequence, Goto, Labels
<1> QED
  BY <1>1, <1>2, <1>3, <1>4, <1>5, <1>6, <1>7, <1>8, <1>9, <1>10, <1>11, <1>12,
     <1>13, <1>14, <1>15, <1>16, <1>17
  DEF Next, Environment, SocketTask, ClientFrame, Receive, Proceed, Stores,
  Sends

\* Every step keeps the locals each label promises.
LEMMA NextControl ==
  ASSUME TypeInv, [Next]_vars
  PROVE  Control'
<1> USE LimitsAssumption, NamesAssumption
<1>0. TypeOK /\ Control
  BY DEF TypeInv
<1> USE <1>0
<1>e. ASSUME NEW k \in Sockets, Ends(k) PROVE Control'
  BY <1>e DEF Control, Ends, TypeOK
<1>1. CASE UNCHANGED vars
  BY <1>1 DEF Control, vars, task
<1>2. ASSUME NEW t \in Published, Publish(t) PROVE Control'
  BY <1>2 DEF Control, Publish, task
<1>3. ASSUME NEW s \in Sessions, Expire(s) PROVE Control'
  BY <1>3 DEF Control, Expire, task
<1>4. ASSUME NEW k \in Sockets, LinkDrops(k) PROVE Control'
  BY <1>4 DEF Control, LinkDrops
<1>5. ASSUME NEW k \in Sockets, Connect(k) PROVE Control'
  BY <1>5 DEF Control, Connect, TypeOK
<1>6. ASSUME NEW k \in Sockets,
             Crash(k) \/ SocketEnds(k) \/ AppendFails(k) \/ SendFails(k)
      PROVE Control'
  BY <1>6, <1>e DEF Crash, SocketEnds, AppendFails, SendFails
<1>7. ASSUME NEW k \in Sockets, NEW b \in Bots \cup {NoBot}, NEW i \in Offers,
             NEW ok \in BOOLEAN, NEW under \in BOOLEAN,
             \/ IdentifyRefused(k, b, i, ok, under)
             \/ IdentifyFails(k, b, i, ok, under)
             \/ \E s \in Sessions : Identify(k, b, i, ok, under, s)
      PROVE Control'
  <2>1. CASE IdentifyRefused(k, b, i, ok, under)
    BY <2>1, <1>e DEF IdentifyRefused
  <2>2. CASE IdentifyFails(k, b, i, ok, under)
    BY <2>2 DEF Control, IdentifyFails
  <2>3. ASSUME NEW s \in Sessions, Identify(k, b, i, ok, under, s)
        PROVE Control'
    BY <2>3 DEF Control, Identify, IdentifyAdmits, Goto, At, TypeOK
  <2> QED BY <1>7, <2>1, <2>2, <2>3
<1>8. ASSUME NEW k \in Sockets, NEW b \in Bots \cup {NoBot}, NEW s \in Sessions,
             NEW c \in 0..MaxSeq,
             ResumeRefused(k, b, s, c) \/ ResumeFindsSession(k, b, s, c)
      PROVE Control'
  <2>1. CASE ResumeRefused(k, b, s, c)
    BY <2>1, <1>e DEF ResumeRefused
  <2>2. CASE ResumeFindsSession(k, b, s, c)
    BY <2>2 DEF Control, ResumeFindsSession, Goto, At, TypeOK
  <2> QED BY <1>8, <2>1, <2>2
<1>9. ASSUME NEW k \in Sockets, SkipLagged(k) PROVE Control'
  BY <1>9 DEF Control, SkipLagged
<1>10. ASSUME NEW k \in Sockets, NEW admitted \in BOOLEAN, TakeEvent(k, admitted)
       PROVE Control'
  BY <1>10 DEF Control, TakeEvent, Dispatches, Goto, At, TypeOK
<1>11. ASSUME NEW k \in Sockets, ResumeLists(k) PROVE Control'
  <2>1. PICK m : resuming' = [resuming EXCEPT ![k].base = m]
    BY <1>11 DEF ResumeLists
  <2>2. \A x \in Sockets : /\ resuming'[x].bot = resuming[x].bot
                           /\ resuming'[x].session = resuming[x].session
    <3>1. SUFFICES ASSUME NEW x \in Sockets
                   PROVE  /\ resuming'[x].bot = resuming[x].bot
                          /\ resuming'[x].session = resuming[x].session
      OBVIOUS
    <3>2. resuming \in [Sockets -> Resume] /\ resuming[x] \in Resume
      BY DEF TypeOK
    <3>3. resuming'[x] = IF x = k THEN [resuming[x] EXCEPT !.base = m] ELSE resuming[x]
      BY <2>1, <3>2
    <3> QED BY <3>2, <3>3 DEF Resume
  <2> QED BY <1>11, <2>2 DEF Control, ResumeLists, Goto, At, TypeOK
<1>12. ASSUME NEW k \in Sockets, ResumeListFails(k) PROVE Control'
  BY <1>12 DEF Control, ResumeListFails, NotResuming, Goto, At, TypeOK
<1>13. ASSUME NEW k \in Sockets, ReplayOne(k) PROVE Control'
  BY <1>13 DEF Control, ReplayOne
<1>14. ASSUME NEW k \in Sockets, NEW stored \in BOOLEAN,
              ResumeCompletes(k, stored)
       PROVE Control'
  BY <1>14 DEF Control, ResumeCompletes, NotResuming, Goto, At, TypeOK
<1>15. ASSUME NEW k \in Sockets, AppendReplay(k) PROVE Control'
  BY <1>15 DEF Control, AppendReplay, Goto, At, TypeOK
<1>16. ASSUME NEW k \in Sockets, SendDispatch(k) PROVE Control'
  BY <1>16 DEF Control, SendDispatch, Goto, At, TypeOK
<1>17. ASSUME NEW k \in Sockets, NEW stored \in BOOLEAN,
              UpdateSequence(k, stored)
       PROVE Control'
  BY <1>17 DEF Control, UpdateSequence, Goto, At, TypeOK
<1> QED
  BY <1>1, <1>2, <1>3, <1>4, <1>5, <1>6, <1>7, <1>8, <1>9, <1>10, <1>11, <1>12,
     <1>13, <1>14, <1>15, <1>16, <1>17
  DEF Next, Environment, SocketTask, ClientFrame, Receive, Proceed, Stores,
  Sends

\* The initial state satisfies the inductive type invariant.
LEMMA InitType == Init => TypeInv
<1> SUFFICES ASSUME Init PROVE TypeInv
  OBVIOUS
<1>1. TypeOK
  BY EmptySeq DEF Init, TypeOK, Labels, NotResuming, Resume
<1>2. Control
  BY DEF Init, Control, NotResuming
<1> QED BY <1>1, <1>2 DEF TypeInv

\* TypeOK and Control hold in every reachable state of the gateway.
THEOREM TypeInvariant == Spec => []TypeInv
<1>1. TypeInv /\ [Next]_vars => TypeInv'
  BY NextType, NextControl DEF TypeInv
<1> QED BY <1>1, InitType, PTL DEF Spec

\* Every variable keeps its type (the run gateway_sessions, for all instances).
THEOREM TypeCorrect == Spec => []TypeOK
<1>1. TypeInv => TypeOK
  BY DEF TypeInv
<1> QED BY <1>1, TypeInvariant, PTL

(***************************************************************************)
(* Sequence numbers on one connection.  ConnectionOrder alone is not       *)
(* inductive: the next number a task sends must be known to lie above the  *)
(* ones it has sent, which depends on where the task is suspended, and in  *)
(* the replay loop on the rows still to be sent.                           *)
(***************************************************************************)
Increasing(q) == \A i, j \in 1..Len(q) : i < j => q[i].s < q[j].s
Below(q, n) == \A i \in 1..Len(q) : q[i].s < n
UniqueSeq(rows) == \A r, q \in rows : r.seq = q.seq => r = q

SocketOrder(k) ==
  /\ Increasing(recv[k])
  /\ status[k] # "closed" /\ bot[k] = NoBot /\ pc[k] # "replay" =>
       recv[k] = <<>>
  /\ status[k] = "open" /\ bot[k] # NoBot =>
       Below(recv[k], IF pc[k] \in {"append", "send"} THEN sequence[k]
                                                     ELSE sequence[k] + 1)
  /\ pc[k] = "replay" =>
       /\ UniqueSeq(batch[k])
       /\ Below(recv[k], resuming[k].base + 1)
       /\ \A r \in batch[k] : Below(recv[k], r.seq) /\ r.seq <= resuming[k].base

JournalKey == \A s \in Sessions : UniqueSeq(replay[s])

OrderInv == JournalKey /\ \A k \in Sockets : SocketOrder(k)

\* Frames carry natural numbers.
LEMMA FrameNumbers ==
  /\ \A f \in Frame : f.s \in Nat
  /\ \A q \in Seq(Frame) : \A i \in 1..Len(q) : q[i].s \in Nat
<1>1. \A f \in Frame : f.s \in Nat
  BY DEF Frame
<1>2. \A q \in Seq(Frame) : \A i \in 1..Len(q) : q[i] \in Frame
  OBVIOUS
<1> QED BY <1>1, <1>2

\* A larger frame keeps a list of frames increasing.
LEMMA AppendIncreasing ==
  ASSUME NEW q \in Seq(Frame), NEW f \in Frame, Increasing(q), Below(q, f.s)
  PROVE  Increasing(Append(q, f)) /\ Below(Append(q, f), f.s + 1)
<1>1. f.s \in Nat /\ \A i \in 1..Len(q) : q[i].s \in Nat
  BY FrameNumbers
<1>2. /\ Len(Append(q, f)) = Len(q) + 1
      /\ Append(q, f)[Len(q) + 1] = f
      /\ \A i \in 1..Len(q) : Append(q, f)[i] = q[i]
  OBVIOUS
<1>3. Len(q) \in Nat
  OBVIOUS
<1>4. ASSUME NEW i \in 1..Len(Append(q, f)), NEW j \in 1..Len(Append(q, f)), i < j
      PROVE  Append(q, f)[i].s < Append(q, f)[j].s
  <2>1. i \in 1..Len(q)
    BY <1>2, <1>3, <1>4
  <2>2. CASE j \in 1..Len(q)
    BY <1>2, <1>4, <2>1, <2>2 DEF Increasing
  <2>3. CASE j = Len(q) + 1
    BY <1>2, <2>1, <2>3 DEF Below
  <2> QED BY <1>2, <1>3, <2>2, <2>3
<1>5. ASSUME NEW i \in 1..Len(Append(q, f))
      PROVE  Append(q, f)[i].s < f.s + 1
  <2>1. CASE i \in 1..Len(q)
    BY <1>1, <1>2, <2>1 DEF Below
  <2>2. CASE i = Len(q) + 1
    BY <1>1, <1>2, <2>2
  <2> QED BY <1>2, <1>3, <2>1, <2>2
<1> QED BY <1>4, <1>5 DEF Increasing, Below

\* A bound may be raised.
LEMMA BelowMonotone ==
  ASSUME NEW q \in Seq(Frame), NEW m \in Nat, NEW n \in Nat, m <= n, Below(q, m)
  PROVE  Below(q, n)
<1>1. \A i \in 1..Len(q) : q[i].s \in Nat
  BY FrameNumbers
<1> QED BY <1>1 DEF Below

\* What SocketOrder says of a socket depends on that socket's task only.
LEMMA OrderLocal ==
  ASSUME NEW k \in Sockets, SocketOrder(k),
         recv'[k] = recv[k], status'[k] = status[k], bot'[k] = bot[k],
         pc'[k] = pc[k], sequence'[k] = sequence[k], batch'[k] = batch[k],
         resuming'[k].base = resuming[k].base
  PROVE  SocketOrder(k)'
  BY DEF SocketOrder

\* Ending a task keeps the order of what its client has received.
LEMMA EndsOrder ==
  ASSUME TypeOK, OrderInv, NEW k \in Sockets, Ends(k)
  PROVE  OrderInv'
<1>1. JournalKey'
  BY DEF OrderInv, JournalKey, Ends, table
<1>2. ASSUME NEW x \in Sockets PROVE SocketOrder(x)'
  <2>0. SocketOrder(x)
    BY DEF OrderInv
  <2>1. CASE x = k
    BY <2>0, <2>1 DEF SocketOrder, Ends, TypeOK
  <2>2. CASE x # k
    BY <2>0, <2>2, OrderLocal DEF Ends, TypeOK
  <2> QED BY <2>1, <2>2
<1> QED BY <1>1, <1>2 DEF OrderInv

\* Every step of every handler keeps OrderInv.
LEMMA NextOrder ==
  ASSUME TypeInv, TypeOK', OrderInv, [Next]_vars
  PROVE  OrderInv'
<1> USE LimitsAssumption, NamesAssumption
<1>0. TypeOK /\ Control /\ OrderInv
  BY DEF TypeInv
<1> USE <1>0
<1>u. ASSUME UNCHANGED task, UNCHANGED <<replay, recv>> PROVE OrderInv'
  BY <1>u DEF OrderInv, SocketOrder, JournalKey, task
<1>1. CASE UNCHANGED vars
  BY <1>1, <1>u DEF vars, table
<1>2. ASSUME NEW t \in Published, Publish(t) PROVE OrderInv'
  BY <1>2, <1>u DEF Publish, table
<1>3. ASSUME NEW s \in Sessions, Expire(s) PROVE OrderInv'
  BY <1>3, <1>u DEF Expire
<1>4. ASSUME NEW k \in Sockets, LinkDrops(k) \/ SkipLagged(k) PROVE OrderInv'
  BY <1>4 DEF OrderInv, SocketOrder, JournalKey, LinkDrops, SkipLagged, table
<1>5. ASSUME NEW k \in Sockets, Connect(k) PROVE OrderInv'
  <2>1. JournalKey'
    BY <1>5 DEF OrderInv, JournalKey, Connect, table
  <2>2. ASSUME NEW x \in Sockets PROVE SocketOrder(x)'
    <3>1. CASE x = k
      BY <1>5, <3>1 DEF OrderInv, SocketOrder, Control, Connect, TypeOK
    <3>2. CASE x # k
      BY <1>5, <3>2, OrderLocal DEF OrderInv, Connect, TypeOK
    <3> QED BY <3>1, <3>2
  <2> QED BY <2>1, <2>2 DEF OrderInv
<1>6. ASSUME NEW k \in Sockets,
             Crash(k) \/ SocketEnds(k) \/ AppendFails(k) \/ SendFails(k)
      PROVE OrderInv'
  BY <1>6, EndsOrder DEF Crash, SocketEnds, AppendFails, SendFails
<1>7. ASSUME NEW k \in Sockets, NEW b \in Bots \cup {NoBot}, NEW i \in Offers,
             NEW ok \in BOOLEAN, NEW under \in BOOLEAN,
             \/ IdentifyRefused(k, b, i, ok, under)
             \/ IdentifyFails(k, b, i, ok, under)
             \/ \E s \in Sessions : Identify(k, b, i, ok, under, s)
      PROVE OrderInv'
  <2>1. CASE IdentifyRefused(k, b, i, ok, under)
    BY <2>1, EndsOrder DEF IdentifyRefused
  <2>2. ASSUME \/ IdentifyFails(k, b, i, ok, under)
               \/ \E s \in Sessions : Identify(k, b, i, ok, under, s)
        PROVE OrderInv'
    <3>1. JournalKey' /\ recv' = recv /\ recv[k] = <<>>
      BY <2>2 DEF OrderInv, SocketOrder, JournalKey, IdentifyFails, Identify,
                  IdentifyAdmits, At, table
    <3>2. ASSUME NEW x \in Sockets PROVE SocketOrder(x)'
      <4>1. CASE x = k
        <5>1. pc'[k] # "replay"
          BY <2>2 DEF IdentifyFails, Identify, Goto, At, TypeOK
        <5> QED BY <3>1, <4>1, <5>1 DEF SocketOrder, Increasing, Below
      <4>2. CASE x # k
        BY <2>2, <4>2, OrderLocal, ZenonT(60)
        DEF OrderInv, IdentifyFails, Identify, Goto, TypeOK
      <4> QED BY <4>1, <4>2
    <3> QED BY <3>1, <3>2 DEF OrderInv
  <2> QED BY <1>7, <2>1, <2>2
<1>8. ASSUME NEW k \in Sockets, NEW b \in Bots \cup {NoBot}, NEW s \in Sessions,
             NEW c \in 0..MaxSeq,
             ResumeRefused(k, b, s, c) \/ ResumeFindsSession(k, b, s, c)
      PROVE OrderInv'
  <2>1. CASE ResumeRefused(k, b, s, c)
    BY <2>1, EndsOrder DEF ResumeRefused
  <2>2. CASE ResumeFindsSession(k, b, s, c)
    <3>1. JournalKey' /\ recv' = recv /\ recv[k] = <<>>
      BY <2>2 DEF OrderInv, SocketOrder, JournalKey, ResumeFindsSession, At, table
    <3>2. ASSUME NEW x \in Sockets PROVE SocketOrder(x)'
      <4>1. CASE x = k
        <5>1. pc'[k] # "replay"
          BY <2>2 DEF ResumeFindsSession, Goto, TypeOK
        <5> QED BY <3>1, <4>1, <5>1 DEF SocketOrder, Increasing, Below
      <4>2. CASE x # k
        BY <2>2, <4>2, OrderLocal DEF OrderInv, ResumeFindsSession, Goto, TypeOK
      <4> QED BY <4>1, <4>2
    <3> QED BY <3>1, <3>2 DEF OrderInv
  <2> QED BY <1>8, <2>1, <2>2
<1>9. ASSUME NEW k \in Sockets, NEW admitted \in BOOLEAN, TakeEvent(k, admitted)
      PROVE OrderInv'
  <2>1. JournalKey'
    BY <1>9 DEF OrderInv, JournalKey, TakeEvent, table
  <2>2. ASSUME NEW x \in Sockets PROVE SocketOrder(x)'
    <3>0. SocketOrder(x)
      BY DEF OrderInv
    <3>1. CASE UNCHANGED <<pc, sequence, pending, granted>>
      BY <1>9, <3>0, <3>1, OrderLocal DEF TakeEvent
    <3>2. CASE x = k /\ sequence' = [sequence EXCEPT ![k] = @ + 1]
                    /\ Goto(k, "append") /\ bot[k] # NoBot
      <4>1. Below(recv[k], sequence[k] + 1) /\ Increasing(recv[k])
        BY <1>9, <3>0, <3>2 DEF SocketOrder, TakeEvent, At
      <4> QED BY <1>9, <3>2, <4>1 DEF SocketOrder, TakeEvent, Goto, TypeOK
    <3>3. CASE x # k
      BY <1>9, <3>0, <3>3, OrderLocal DEF TakeEvent, Goto, TypeOK
    <3> QED BY <1>9, <3>1, <3>2, <3>3 DEF TakeEvent, Dispatches
  <2> QED BY <2>1, <2>2 DEF OrderInv
<1>10. ASSUME NEW k \in Sockets, ResumeLists(k) PROVE OrderInv'
  <2> DEFINE rows == StoreListAfter(resuming[k].session, resuming[k].client)
  <2>1. JournalKey' /\ recv' = recv /\ recv[k] = <<>>
    BY <1>10 DEF OrderInv, SocketOrder, JournalKey, Control, ResumeLists, At, table
  <2>2. resuming[k] \in Resume /\ resuming[k].session \in Sessions
    BY <1>10 DEF TypeOK, Control, Resume, ResumeLists, At
  <2>3. UniqueSeq(rows)
    BY <2>2 DEF OrderInv, JournalKey, UniqueSeq, StoreListAfter
  <2>4. PICK m : /\ IsLast(m, resuming[k].base, rows)
                 /\ resuming' = [resuming EXCEPT ![k].base = m]
    BY <1>10 DEF ResumeLists
  <2>5. batch'[k] = rows /\ resuming'[k].base = m
    BY <1>10, <2>2, <2>4 DEF ResumeLists, TypeOK, Resume
  <2>6. rows \subseteq Row
    BY <2>2 DEF TypeOK, StoreListAfter
  <2>7. m \in Nat
    BY <2>5 DEF TypeOK, Resume
  <2>8. \A r \in rows : r.seq <= m
    BY <2>4, <2>6, <2>7 DEF IsLast, Row
  <2>9. ASSUME NEW x \in Sockets PROVE SocketOrder(x)'
    <3>1. CASE x = k
      <4>1. UniqueSeq(batch'[k]) /\ \A r \in batch'[k] : r.seq <= resuming'[k].base
        BY <2>3, <2>5, <2>8
      <4>2. bot'[k] = NoBot
        BY <1>10 DEF Control, ResumeLists, At
      <4> QED BY <2>1, <3>1, <4>1, <4>2 DEF SocketOrder, Increasing, Below
    <3>2. CASE x # k
      BY <1>10, <2>4, <3>2, OrderLocal DEF OrderInv, ResumeLists, Goto, TypeOK
    <3> QED BY <3>1, <3>2
  <2> QED BY <2>1, <2>9 DEF OrderInv
<1>11. ASSUME NEW k \in Sockets, ResumeListFails(k) PROVE OrderInv'
  <2>1. JournalKey' /\ recv' = recv /\ recv[k] = <<>>
    BY <1>11 DEF OrderInv, SocketOrder, JournalKey, Control, ResumeListFails, At,
                 table
  <2>2. ASSUME NEW x \in Sockets PROVE SocketOrder(x)'
    <3>1. CASE x = k
      <4>1. pc'[k] # "replay"
        BY <1>11 DEF ResumeListFails, Goto, TypeOK
      <4> QED BY <2>1, <3>1, <4>1 DEF SocketOrder, Increasing, Below
    <3>2. CASE x # k
      BY <1>11, <3>2, OrderLocal DEF OrderInv, ResumeListFails, Goto, TypeOK
    <3> QED BY <3>1, <3>2
  <2> QED BY <2>1, <2>2 DEF OrderInv
<1>12. ASSUME NEW k \in Sockets, ReplayOne(k) PROVE OrderInv'
  <2>1. PICK r \in batch[k] : /\ \A q \in batch[k] : r.seq <= q.seq
                              /\ batch' = [batch EXCEPT ![k] = @ \ {r}]
                              /\ Deliver(k, r.seq, r.ev)
    BY <1>12 DEF ReplayOne
  <2>2. batch[k] \subseteq Row /\ r.seq \in Nat /\ r.ev \in Nat
    BY <2>1, SMTT(60) DEF TypeOK, Row
  <2>3. resuming[k].base \in Nat
    BY DEF TypeOK, Resume
  <2>4. JournalKey'
    BY <1>12 DEF OrderInv, JournalKey, ReplayOne, table
  <2>5. pc[k] = "replay" /\ bot[k] = NoBot /\ SocketOrder(k)
    BY <1>12 DEF OrderInv, Control, ReplayOne, At
  <2>6. \A q \in batch'[k] : q \in batch[k] /\ q.seq \in Nat /\ r.seq + 1 <= q.seq
    <3>1. ASSUME NEW q \in batch'[k]
          PROVE  q \in batch[k] /\ q.seq \in Nat /\ r.seq <= q.seq /\ q.seq # r.seq
      BY <2>1, <2>2, <2>5 DEF TypeOK, SocketOrder, UniqueSeq, Row
    <3> QED BY <2>2, <3>1
  <2>7. /\ Increasing(recv'[k])
        /\ Below(recv'[k], r.seq + 1) \/ recv'[k] = recv[k]
    <3>1. CASE link[k]
      <4> DEFINE f == [s |-> r.seq, ev |-> r.ev]
      <4>1. f \in Frame /\ f.s = r.seq /\ recv[k] \in Seq(Frame)
        BY <2>2 DEF Frame, TypeOK
      <4>2. recv'[k] = Append(recv[k], f)
        BY <2>1, <3>1 DEF Deliver, TypeOK
      <4>3. Increasing(recv[k]) /\ Below(recv[k], r.seq)
        BY <2>1, <2>5 DEF SocketOrder
      <4> HIDE DEF f
      <4> QED BY <4>1, <4>2, <4>3, AppendIncreasing
    <3>2. CASE ~link[k]
      BY <2>1, <2>5, <3>2 DEF Deliver, TypeOK, SocketOrder
    <3> QED BY <3>1, <3>2
  <2>8. recv'[k] \in Seq(Frame)
    BY DEF TypeOK
  <2>9. Below(recv'[k], resuming[k].base + 1)
    <3>1. r.seq <= resuming[k].base /\ Below(recv[k], resuming[k].base + 1)
      BY <2>1, <2>5 DEF SocketOrder
    <3>2. r.seq + 1 \in Nat /\ resuming[k].base + 1 \in Nat
          /\ r.seq + 1 <= resuming[k].base + 1
      BY <2>2, <2>3, <3>1
    <3> QED BY <2>7, <2>8, <3>1, <3>2, BelowMonotone
  <2>10. ASSUME NEW q \in batch'[k]
         PROVE Below(recv'[k], q.seq) /\ q.seq <= resuming[k].base
    <3>1. Below(recv[k], q.seq) /\ q.seq <= resuming[k].base
      BY <2>5, <2>6 DEF SocketOrder
    <3>2. q.seq \in Nat /\ r.seq + 1 \in Nat /\ r.seq + 1 <= q.seq
      BY <2>2, <2>6
    <3> QED BY <2>7, <2>8, <3>1, <3>2, BelowMonotone
  <2>11. UniqueSeq(batch'[k])
    BY <2>5, <2>6 DEF SocketOrder, UniqueSeq
  <2>12. ASSUME NEW x \in Sockets PROVE SocketOrder(x)'
    <3>1. CASE x = k
      <4>1. pc'[k] = "replay" /\ bot'[k] = NoBot /\ resuming' = resuming
        BY <1>12, <2>5 DEF ReplayOne
      <4> QED BY <2>7, <2>9, <2>10, <2>11, <3>1, <4>1 DEF SocketOrder
    <3>2. CASE x # k
      BY <1>12, <2>1, <3>2, OrderLocal DEF OrderInv, ReplayOne, Deliver, TypeOK
    <3> QED BY <3>1, <3>2
  <2> QED BY <2>4, <2>12 DEF OrderInv
<1>13. ASSUME NEW k \in Sockets, NEW stored \in BOOLEAN,
              ResumeCompletes(k, stored)
       PROVE OrderInv'
  <2>1. JournalKey' /\ recv' = recv
    BY <1>13 DEF OrderInv, JournalKey, ResumeCompletes
  <2>2. Increasing(recv[k]) /\ Below(recv[k], resuming[k].base + 1)
    BY <1>13 DEF OrderInv, SocketOrder, ResumeCompletes, At
  <2>3. ASSUME NEW x \in Sockets PROVE SocketOrder(x)'
    <3>1. CASE x = k
      <4>1. /\ pc'[k] = "send" /\ sequence'[k] = resuming[k].base + 1
            /\ bot'[k] # NoBot
        BY <1>13 DEF ResumeCompletes, Goto, At, Control, TypeOK
      <4> QED BY <2>1, <2>2, <3>1, <4>1 DEF SocketOrder
    <3>2. CASE x # k
      BY <1>13, <3>2, OrderLocal DEF OrderInv, ResumeCompletes, Goto, TypeOK
    <3> QED BY <3>1, <3>2
  <2> QED BY <2>1, <2>3 DEF OrderInv
<1>14. ASSUME NEW k \in Sockets, AppendReplay(k) PROVE OrderInv'
  <2>1. JournalKey'
    BY <1>14 DEF OrderInv, JournalKey, UniqueSeq, AppendReplay, StoreAppend, TypeOK
  <2>2. ASSUME NEW x \in Sockets PROVE SocketOrder(x)'
    <3>1. CASE x = k
      BY <1>14, <3>1 DEF OrderInv, SocketOrder, AppendReplay, Goto, At, TypeOK,
                         Control
    <3>2. CASE x # k
      BY <1>14, <3>2, OrderLocal DEF OrderInv, AppendReplay, Goto, TypeOK
    <3> QED BY <3>1, <3>2
  <2> QED BY <2>1, <2>2 DEF OrderInv
<1>15. ASSUME NEW k \in Sockets, SendDispatch(k) PROVE OrderInv'
  <2> DEFINE f == [s |-> sequence[k], ev |-> pending[k]]
  <2>1. JournalKey'
    BY <1>15 DEF OrderInv, JournalKey, SendDispatch, table
  <2>2. f \in Frame /\ f.s = sequence[k] /\ recv[k] \in Seq(Frame)
    BY DEF Frame, TypeOK
  <2>3. Increasing(recv[k]) /\ Below(recv[k], sequence[k])
    BY <1>15 DEF OrderInv, SocketOrder, SendDispatch, At, Control
  <2>4. Increasing(recv'[k]) /\ Below(recv'[k], sequence[k] + 1)
    <3>1. CASE link[k]
      <4>1. recv'[k] = Append(recv[k], f)
        BY <1>15, <3>1 DEF SendDispatch, Deliver, TypeOK
      <4> HIDE DEF f
      <4> QED BY <2>2, <2>3, <4>1, AppendIncreasing
    <3>2. CASE ~link[k]
      <4>1. recv'[k] = recv[k]
        BY <1>15, <3>2 DEF SendDispatch, Deliver, TypeOK
      <4>2. sequence[k] \in Nat /\ sequence[k] + 1 \in Nat
            /\ sequence[k] <= sequence[k] + 1
        BY DEF TypeOK
      <4> QED BY <2>2, <2>3, <4>1, <4>2, BelowMonotone
    <3> QED BY <3>1, <3>2
  <2>5. ASSUME NEW x \in Sockets PROVE SocketOrder(x)'
    <3>1. CASE x = k
      <4>1. /\ pc'[k] \in {"select", "update"} /\ bot'[k] # NoBot
            /\ sequence'[k] = sequence[k]
        BY <1>15 DEF SendDispatch, Goto, At, Control, TypeOK
      <4> QED BY <2>4, <3>1, <4>1 DEF SocketOrder
    <3>2. CASE x # k
      BY <1>15, <3>2, OrderLocal DEF OrderInv, SendDispatch, Deliver, Goto, TypeOK
    <3> QED BY <3>1, <3>2
  <2> QED BY <2>1, <2>5 DEF OrderInv
<1>16. ASSUME NEW k \in Sockets, NEW stored \in BOOLEAN,
              UpdateSequence(k, stored)
       PROVE OrderInv'
  <2>1. JournalKey'
    BY <1>16 DEF OrderInv, JournalKey, UpdateSequence
  <2>2. ASSUME NEW x \in Sockets PROVE SocketOrder(x)'
    <3>1. CASE x = k
      BY <1>16, <3>1 DEF OrderInv, SocketOrder, UpdateSequence, Goto, At, TypeOK,
                         Control
    <3>2. CASE x # k
      BY <1>16, <3>2, OrderLocal DEF OrderInv, UpdateSequence, Goto, TypeOK
    <3> QED BY <3>1, <3>2
  <2> QED BY <2>1, <2>2 DEF OrderInv
<1> QED
  BY <1>1, <1>2, <1>3, <1>4, <1>5, <1>6, <1>7, <1>8, <1>9, <1>10, <1>11, <1>12,
     <1>13, <1>14, <1>15, <1>16
  DEF Next, Environment, SocketTask, ClientFrame, Receive, Proceed, Stores,
  Sends

\* The strengthened order invariant holds in every reachable state.
THEOREM OrderInvariant == Spec => []OrderInv
<1>1. Init => OrderInv
  BY DEF Init, OrderInv, JournalKey, UniqueSeq, SocketOrder, Increasing
<1>2. TypeInv /\ TypeInv' /\ OrderInv /\ [Next]_vars => OrderInv'
  BY NextOrder DEF TypeInv
<1> QED BY <1>1, <1>2, TypeInvariant, PTL DEF Spec

\* The gateway never sends one client connection two dispatches out of order
\* or with one number, for any number of connections and sessions.
THEOREM ConnectionOrdered == Spec => []ConnectionOrder
<1>1. OrderInv => ConnectionOrder
  BY DEF OrderInv, SocketOrder, Increasing, ConnectionOrder
<1> QED BY <1>1, OrderInvariant, PTL

(***************************************************************************)
(* What a client may see, and the journal.  OnlyGranted and WriteAhead     *)
(* follow a dispatch from the check that grants it to the frame, through   *)
(* the journal and the rows a later connection has read from it: each of   *)
(* these places keeps what is known of the event.  Nothing ever takes that *)
(* knowledge back, because sessions keep their owner and intents, the hub  *)
(* and granted only grow, and the journal keeps every number.              *)
(***************************************************************************)
GrantedIn(s, e) ==
  /\ s \in DOMAIN sessions
  /\ e \in 1..Len(hub)
  /\ <<sessions[s].owner, e>> \in granted
  /\ HasIntent(sessions[s].intents, hub[e])

Journaled(s, n) == \E r \in replay[s] : r.seq = n

BelongsTo(s, b, i) ==
  /\ s \in DOMAIN sessions
  /\ sessions[s].owner = b
  /\ sessions[s].intents = i

Binding(k) ==
  /\ status[k] = "open" => pos[k] > 0
  /\ bot[k] # NoBot => BelongsTo(session[k], bot[k], intents[k])
  /\ resuming[k].bot # NoBot =>
       BelongsTo(resuming[k].session, resuming[k].bot, resuming[k].intents)

Dispatching(k) ==
  /\ pc[k] \in {"select", "list", "replay"} => pending[k] = 0
  /\ pc[k] \in {"append", "update"} => pending[k] # 0
  /\ pending[k] # 0 =>
       /\ GrantedIn(session[k], pending[k])
       /\ pc[k] \in {"send", "update"} => Journaled(session[k], sequence[k])

Replaying(k) ==
  pc[k] = "replay" =>
    \A r \in batch[k] : /\ GrantedIn(resuming[k].session, r.ev)
                        /\ Journaled(resuming[k].session, r.seq)

Received(k) ==
  \A i \in 1..Len(recv[k]) :
    recv[k][i].ev # 0 => /\ GrantedIn(Bound(k), recv[k][i].ev)
                         /\ Journaled(Bound(k), recv[k][i].s)

JournalGranted == \A s \in Sessions : \A r \in replay[s] : GrantedIn(s, r.ev)

SocketSees(k) == Binding(k) /\ Dispatching(k) /\ Replaying(k) /\ Received(k)

SeesInv == JournalGranted /\ \A k \in Sockets : SocketSees(k)

\* What is shared only grows: nothing takes back what is known of an event.
KnowledgeKept ==
  /\ \A s \in DOMAIN sessions :
       /\ s \in DOMAIN sessions'
       /\ sessions'[s].owner = sessions[s].owner
       /\ sessions'[s].intents = sessions[s].intents
       /\ \A r \in replay[s] : \E q \in replay'[s] : q.seq = r.seq
  /\ Len(hub) <= Len(hub')
  /\ \A e \in 1..Len(hub) : hub'[e] = hub[e]
  /\ granted \subseteq granted'

SequencesKept ==
  \A s \in DOMAIN sessions :
    s \in DOMAIN sessions' /\ sessions'[s].sequence >= sessions[s].sequence

\* A statement that updates a sequence changes nothing else of a session, and
\* only raises it (GREATEST); a statement that creates a session, and the expiry
\* of one, leave sequence, owner and intents of every session.
LEMMA StoreKeeps ==
  ASSUME TypeOK,
         \/ \E s \in Sessions, n \in Nat : StoreUpdateSequence(s, n)
         \/ \E s \in Sessions, b \in Bots, n \in Nat, i \in SUBSET Supported :
              s \notin DOMAIN sessions /\ StoreCreate(s, b, n, i)
         \/ \E s \in DOMAIN sessions :
              sessions' = [sessions EXCEPT ![s].expired = TRUE]
         \/ UNCHANGED sessions
  PROVE  \A x \in DOMAIN sessions :
           /\ x \in DOMAIN sessions'
           /\ sessions'[x].owner = sessions[x].owner
           /\ sessions'[x].intents = sessions[x].intents
           /\ sessions'[x].sequence >= sessions[x].sequence
<1> SUFFICES ASSUME NEW x \in DOMAIN sessions
             PROVE  /\ x \in DOMAIN sessions'
                    /\ sessions'[x].owner = sessions[x].owner
                    /\ sessions'[x].intents = sessions[x].intents
                    /\ sessions'[x].sequence >= sessions[x].sequence
  OBVIOUS
<1>0. sessions[x] \in Session /\ sessions[x].sequence \in Nat
  BY DEF TypeOK, Session
<1>1. CASE \E s \in Sessions, n \in Nat : StoreUpdateSequence(s, n)
  <2>1. PICK s \in Sessions, n \in Nat : StoreUpdateSequence(s, n)
    BY <1>1
  <2>2. x \in DOMAIN sessions'
    BY <2>1 DEF StoreUpdateSequence
  <2>3. CASE x = s /\ ~sessions[x].expired /\ n > sessions[x].sequence
    <3>1. sessions'[x] = [sessions[x] EXCEPT !.sequence = n]
      BY <2>1, <2>3 DEF StoreUpdateSequence
    <3> QED BY <1>0, <2>2, <2>3, <3>1 DEF Session
  <2>4. CASE ~(x = s /\ ~sessions[x].expired /\ n > sessions[x].sequence)
    <3>1. sessions'[x] = sessions[x]
      BY <2>1, <2>4 DEF StoreUpdateSequence
    <3> QED BY <1>0, <2>2, <3>1
  <2> QED BY <2>3, <2>4
<1>2. CASE \E s \in Sessions, b \in Bots, n \in Nat, i \in SUBSET Supported :
             s \notin DOMAIN sessions /\ StoreCreate(s, b, n, i)
  BY <1>0, <1>2 DEF StoreCreate
<1>3. CASE \E s \in DOMAIN sessions : sessions' = [sessions EXCEPT ![s].expired = TRUE]
  BY <1>0, <1>3 DEF Session
<1>4. CASE UNCHANGED sessions
  BY <1>0, <1>4
<1> QED BY <1>1, <1>2, <1>3, <1>4

\* The step of the four tables and logs, whatever the handler.
SharedStep ==
  /\ \/ \E s \in Sessions, n \in Nat : StoreUpdateSequence(s, n)
     \/ \E s \in Sessions, b \in Bots, n \in Nat, i \in SUBSET Supported :
          s \notin DOMAIN sessions /\ StoreCreate(s, b, n, i)
     \/ \E s \in DOMAIN sessions : sessions' = [sessions EXCEPT ![s].expired = TRUE]
     \/ UNCHANGED sessions
  /\ (\E s \in Sessions, n \in Nat, e \in Nat : StoreAppend(s, n, e)) \/ UNCHANGED replay
  /\ (\E t \in EventTypes : hub' = Append(hub, t)) \/ UNCHANGED hub
  /\ granted \subseteq granted'

\* Every handler changes what is shared by one of the statements of the store, by
\* a publication or by a grant.
LEMMA NextShared ==
  ASSUME TypeInv, [Next]_vars
  PROVE  SharedStep
<1> USE LimitsAssumption, NamesAssumption
<1>0. TypeOK /\ Control
  BY DEF TypeInv
<1> USE <1>0
<1>e. ASSUME NEW k \in Sockets, Ends(k) PROVE SharedStep
  BY <1>e DEF SharedStep, Ends, table
<1>1. CASE UNCHANGED vars
  BY <1>1 DEF SharedStep, vars, table
<1>2. ASSUME NEW t \in Published, Publish(t) PROVE SharedStep
  BY <1>2 DEF SharedStep, Publish, table
<1>3. ASSUME NEW s \in Sessions, Expire(s) PROVE SharedStep
  BY <1>3 DEF SharedStep, Expire
<1>4. ASSUME NEW k \in Sockets, LinkDrops(k) \/ Connect(k) \/ SkipLagged(k)
      PROVE SharedStep
  BY <1>4 DEF SharedStep, LinkDrops, Connect, SkipLagged, table
<1>5. ASSUME NEW k \in Sockets,
             Crash(k) \/ SocketEnds(k) \/ AppendFails(k) \/ SendFails(k)
      PROVE SharedStep
  BY <1>5, <1>e DEF Crash, SocketEnds, AppendFails, SendFails
<1>6. ASSUME NEW k \in Sockets, NEW b \in Bots \cup {NoBot}, NEW i \in Offers,
             NEW ok \in BOOLEAN, NEW under \in BOOLEAN,
             \/ IdentifyRefused(k, b, i, ok, under)
             \/ IdentifyFails(k, b, i, ok, under)
             \/ \E s \in Sessions : Identify(k, b, i, ok, under, s)
      PROVE SharedStep
  <2>1. CASE IdentifyRefused(k, b, i, ok, under)
    BY <2>1, <1>e DEF IdentifyRefused
  <2>2. CASE IdentifyFails(k, b, i, ok, under)
    BY <2>2 DEF SharedStep, IdentifyFails, table
  <2>3. ASSUME NEW s \in Sessions, Identify(k, b, i, ok, under, s)
        PROVE SharedStep
    <3>1. b \in Bots /\ i \in SUBSET Supported /\ sequence[k] + 1 \in Nat
      BY <2>3 DEF Identify, IdentifyAdmits, TypeOK
    <3> QED BY <2>3, <3>1 DEF SharedStep, Identify
  <2> QED BY <1>6, <2>1, <2>2, <2>3
<1>7. ASSUME NEW k \in Sockets, NEW b \in Bots \cup {NoBot}, NEW s \in Sessions,
             NEW c \in 0..MaxSeq,
             ResumeRefused(k, b, s, c) \/ ResumeFindsSession(k, b, s, c)
      PROVE SharedStep
  BY <1>7, <1>e DEF ResumeRefused, ResumeFindsSession, SharedStep, table
<1>8. ASSUME NEW k \in Sockets, NEW admitted \in BOOLEAN, TakeEvent(k, admitted)
      PROVE SharedStep
  BY <1>8 DEF TakeEvent, SharedStep, table
<1>9. ASSUME NEW k \in Sockets,
             \/ ResumeLists(k) \/ ResumeListFails(k) \/ ReplayOne(k)
             \/ SendDispatch(k)
      PROVE SharedStep
  BY <1>9 DEF ResumeLists, ResumeListFails, ReplayOne, SendDispatch, SharedStep, table
<1>10. ASSUME NEW k \in Sockets, NEW stored \in BOOLEAN,
              ResumeCompletes(k, stored)
       PROVE SharedStep
  <2>1. resuming[k].session \in Sessions /\ resuming[k].base + 1 \in Nat
    BY <1>10 DEF TypeOK, Control, Resume, ResumeCompletes, At
  <2> QED BY <1>10, <2>1 DEF SharedStep, ResumeCompletes
<1>11. ASSUME NEW k \in Sockets, AppendReplay(k) PROVE SharedStep
  <2>1. session[k] \in Sessions /\ sequence[k] \in Nat /\ pending[k] \in Nat
    BY <1>11 DEF TypeOK, Control, AppendReplay, At
  <2> QED BY <1>11, <2>1 DEF SharedStep, AppendReplay
<1>12. ASSUME NEW k \in Sockets, NEW stored \in BOOLEAN,
              UpdateSequence(k, stored)
       PROVE SharedStep
  <2>1. session[k] \in Sessions /\ sequence[k] \in Nat
    BY <1>12 DEF TypeOK, Control, UpdateSequence, At
  <2> QED BY <1>12, <2>1 DEF SharedStep, UpdateSequence
<1> QED
  BY <1>1, <1>2, <1>3, <1>4, <1>5, <1>6, <1>7, <1>8, <1>9, <1>10, <1>11, <1>12
  DEF Next, Environment, SocketTask, ClientFrame, Receive, Proceed, Stores,
  Sends

\* Such a step keeps what is known of sessions, journal, hub and grants.
LEMMA SharedKeeps ==
  ASSUME TypeOK, SharedStep
  PROVE  KnowledgeKept /\ SequencesKept
<1>1. \A x \in DOMAIN sessions :
        /\ x \in DOMAIN sessions'
        /\ sessions'[x].owner = sessions[x].owner
        /\ sessions'[x].intents = sessions[x].intents
        /\ sessions'[x].sequence >= sessions[x].sequence
  BY StoreKeeps DEF SharedStep
<1>2. ASSUME NEW s \in DOMAIN sessions, NEW r \in replay[s]
      PROVE \E q \in replay'[s] : q.seq = r.seq
  <2>1. CASE UNCHANGED replay
    BY <2>1
  <2>2. ASSUME NEW x \in Sessions, NEW n \in Nat, NEW e \in Nat, StoreAppend(x, n, e)
        PROVE \E q \in replay'[s] : q.seq = r.seq
    <3>0. s \in Sessions
      BY DEF TypeOK
    <3>1. CASE s = x /\ r.seq = n
      <4>1. [seq |-> n, ev |-> e] \in replay'[s]
        BY <2>2, <3>0, <3>1 DEF StoreAppend, TypeOK
      <4> QED BY <3>1, <4>1
    <3>2. CASE ~(s = x /\ r.seq = n)
      <4>1. r \in replay'[s]
        BY <2>2, <3>0, <3>2 DEF StoreAppend, TypeOK
      <4> QED BY <4>1
    <3> QED BY <3>1, <3>2
  <2> QED BY <2>1, <2>2 DEF SharedStep
<1>3. Len(hub) <= Len(hub') /\ \A e \in 1..Len(hub) : hub'[e] = hub[e]
  <2>1. hub \in Seq(EventTypes)
    BY DEF TypeOK
  <2>2. CASE UNCHANGED hub
    BY <2>1, <2>2
  <2>3. ASSUME NEW t \in EventTypes, hub' = Append(hub, t)
        PROVE Len(hub) <= Len(hub') /\ \A e \in 1..Len(hub) : hub'[e] = hub[e]
    BY <2>1, <2>3
  <2> QED BY <2>2, <2>3 DEF SharedStep
<1> QED BY <1>1, <1>2, <1>3 DEF KnowledgeKept, SequencesKept, SharedStep

\* No step takes a session's sequence back, gives it to another bot, changes its
\* intents or loses a number of its journal: update_sequence may run in any
\* order, for any number of connections.
THEOREM SessionsMonotone == Spec => SessionMonotone
<1>1. TypeInv /\ [Next]_vars =>
        [\A s \in DOMAIN sessions :
           /\ s \in DOMAIN sessions'
           /\ sessions'[s].sequence >= sessions[s].sequence
           /\ sessions'[s].owner = sessions[s].owner
           /\ sessions'[s].intents = sessions[s].intents
           /\ \A r \in replay[s] : \E q \in replay'[s] : q.seq = r.seq]_vars
  <2> SUFFICES ASSUME TypeInv, [Next]_vars
               PROVE  \A s \in DOMAIN sessions :
                        /\ s \in DOMAIN sessions'
                        /\ sessions'[s].sequence >= sessions[s].sequence
                        /\ sessions'[s].owner = sessions[s].owner
                        /\ sessions'[s].intents = sessions[s].intents
                        /\ \A r \in replay[s] : \E q \in replay'[s] : q.seq = r.seq
    OBVIOUS
  <2>1. KnowledgeKept /\ SequencesKept
    BY NextShared, SharedKeeps DEF TypeInv
  <2> QED BY <2>1 DEF KnowledgeKept, SequencesKept
<1> QED BY <1>1, TypeInvariant, PTL DEF Spec, SessionMonotone

\* An event that was granted to a session stays granted to it, a number its
\* journal has stays there, and the session stays whose it is.
LEMMA Kept ==
  ASSUME TypeOK, TypeOK', KnowledgeKept
  PROVE  /\ \A s, e : GrantedIn(s, e) =>
              /\ s \in DOMAIN sessions' /\ e \in 1..Len(hub')
              /\ <<sessions'[s].owner, e>> \in granted'
              /\ HasIntent(sessions'[s].intents, hub'[e])
         /\ \A s \in DOMAIN sessions : \A n :
              Journaled(s, n) => \E r \in replay'[s] : r.seq = n
         /\ \A s, b, i : BelongsTo(s, b, i) =>
              /\ s \in DOMAIN sessions'
              /\ sessions'[s].owner = b /\ sessions'[s].intents = i
<1>0. Len(hub) \in Nat /\ Len(hub') \in Nat
  BY DEF TypeOK
<1>1. ASSUME NEW s, NEW e, GrantedIn(s, e)
      PROVE  /\ s \in DOMAIN sessions' /\ e \in 1..Len(hub')
             /\ <<sessions'[s].owner, e>> \in granted'
             /\ HasIntent(sessions'[s].intents, hub'[e])
  <2>1. s \in DOMAIN sessions /\ e \in 1..Len(hub)
    BY <1>1 DEF GrantedIn
  <2>2. /\ s \in DOMAIN sessions' /\ sessions'[s].owner = sessions[s].owner
        /\ sessions'[s].intents = sessions[s].intents /\ hub'[e] = hub[e]
        /\ granted \subseteq granted' /\ Len(hub) <= Len(hub')
    BY <2>1 DEF KnowledgeKept
  <2> QED BY <1>0, <1>1, <2>1, <2>2 DEF GrantedIn
<1>2. ASSUME NEW s \in DOMAIN sessions, NEW n, Journaled(s, n)
      PROVE \E r \in replay'[s] : r.seq = n
  BY <1>2 DEF Journaled, KnowledgeKept
<1>3. ASSUME NEW s, NEW b, NEW i, BelongsTo(s, b, i)
      PROVE /\ s \in DOMAIN sessions'
            /\ sessions'[s].owner = b /\ sessions'[s].intents = i
  BY <1>3 DEF BelongsTo, KnowledgeKept
<1> QED BY <1>1, <1>2, <1>3

\* Each part of SocketSees survives a step that leaves the locals it speaks of.
LEMMA BindingKept ==
  ASSUME TypeOK, TypeOK', KnowledgeKept, NEW k \in Sockets, Binding(k),
         bot'[k] = bot[k], session'[k] = session[k], intents'[k] = intents[k],
         resuming'[k].bot = resuming[k].bot,
         resuming'[k].session = resuming[k].session,
         resuming'[k].intents = resuming[k].intents,
         status'[k] = "open" => pos'[k] > 0
  PROVE  Binding(k)'
<1>1. bot'[k] # NoBot =>
        /\ session'[k] \in DOMAIN sessions'
        /\ sessions'[session'[k]].owner = bot'[k]
        /\ sessions'[session'[k]].intents = intents'[k]
  BY Kept DEF Binding
<1>2. resuming'[k].bot # NoBot =>
        /\ resuming'[k].session \in DOMAIN sessions'
        /\ sessions'[resuming'[k].session].owner = resuming'[k].bot
        /\ sessions'[resuming'[k].session].intents = resuming'[k].intents
  BY Kept DEF Binding
<1> QED BY <1>1, <1>2 DEF Binding, BelongsTo

\* The same for the event a task dispatches, if the task does not move to a label
\* that promises more of it.
LEMMA DispatchingKept ==
  ASSUME TypeOK, TypeOK', KnowledgeKept, NEW k \in Sockets, Dispatching(k),
         session'[k] = session[k], sequence'[k] = sequence[k],
         pending'[k] = pending[k],
         \/ pc'[k] = pc[k]
         \/ pc[k] = "send" /\ pending[k] # 0 /\ pc'[k] = "update"
         \/ pending[k] = 0 /\ pc'[k] \in {"select", "send", "list", "replay"}
  PROVE  Dispatching(k)'
<1>1. CASE pending[k] = 0
  BY <1>1 DEF Dispatching
<1>2. CASE pending[k] # 0
  <2>1. GrantedIn(session[k], pending[k])
    BY <1>2 DEF Dispatching
  <2>2. GrantedIn(session[k], pending[k])'
    BY <2>1, Kept DEF GrantedIn
  <2>3. pc'[k] \in {"send", "update"} => Journaled(session[k], sequence[k])
    BY <1>2 DEF Dispatching
  <2>4. pc'[k] \in {"send", "update"} => Journaled(session[k], sequence[k])'
    BY <2>1, <2>3, Kept, SMTT(60) DEF Journaled, GrantedIn
  <2>5. /\ pc'[k] \in {"select", "list", "replay"} => pending'[k] = 0
        /\ pc'[k] \in {"append", "update"} => pending'[k] # 0
    BY <1>2 DEF Dispatching
  <2> QED BY <1>2, <2>2, <2>4, <2>5 DEF Dispatching
<1> QED BY <1>1, <1>2

\* The same for the rows a resuming task has still to send.
LEMMA ReplayingKept ==
  ASSUME TypeOK, TypeOK', KnowledgeKept, NEW k \in Sockets, Replaying(k),
         pc'[k] = "replay" => /\ pc[k] = "replay" /\ batch'[k] \subseteq batch[k]
                              /\ resuming'[k].session = resuming[k].session
  PROVE  Replaying(k)'
<1> SUFFICES ASSUME pc'[k] = "replay", NEW r \in batch'[k]
             PROVE  /\ GrantedIn(resuming[k].session, r.ev)'
                    /\ Journaled(resuming[k].session, r.seq)'
  BY DEF Replaying
<1>1. /\ GrantedIn(resuming[k].session, r.ev)
      /\ Journaled(resuming[k].session, r.seq)
  BY DEF Replaying
<1>2. resuming[k].session \in DOMAIN sessions
  BY <1>1 DEF GrantedIn
<1>3. GrantedIn(resuming[k].session, r.ev)'
  BY <1>1, Kept DEF GrantedIn
<1>4. Journaled(resuming[k].session, r.seq)'
  BY <1>1, <1>2, Kept DEF Journaled
<1> QED BY <1>3, <1>4

\* The same for what the client has.
LEMMA ReceivedKept ==
  ASSUME TypeOK, TypeOK', KnowledgeKept, NEW k \in Sockets, Received(k),
         recv'[k] = recv[k],
         recv[k] # <<>> =>
           (IF session'[k] # NoSession THEN session'[k] ELSE resuming'[k].session)
             = Bound(k)
  PROVE  Received(k)'
<1>0. recv[k] \in Seq(Frame)
  BY DEF TypeOK
<1> SUFFICES ASSUME NEW i \in 1..Len(recv[k]), recv[k][i].ev # 0
             PROVE  /\ GrantedIn(Bound(k), recv[k][i].ev)'
                    /\ Journaled(Bound(k), recv[k][i].s)'
  BY DEF Received
<1>1. recv[k] # <<>>
  BY <1>0
<1>2. Bound(k)' = Bound(k)
  BY <1>1 DEF Bound
<1>3. GrantedIn(Bound(k), recv[k][i].ev) /\ Journaled(Bound(k), recv[k][i].s)
  BY DEF Received
<1>4. Bound(k) \in DOMAIN sessions
  BY <1>3 DEF GrantedIn
<1>5. GrantedIn(Bound(k), recv[k][i].ev)'
  BY <1>2, <1>3, Kept DEF GrantedIn
<1>6. Journaled(Bound(k), recv[k][i].s)'
  BY <1>2, <1>3, <1>4, Kept DEF Journaled
<1> QED BY <1>5, <1>6

\* A frame whose event is granted to the connection's session, and whose number
\* its journal has, may reach the client.
LEMMA DeliverReceived ==
  ASSUME TypeOK, TypeOK', KnowledgeKept, NEW k \in Sockets, Received(k),
         NEW n \in Nat, NEW e \in Nat, Deliver(k, n, e),
         session'[k] = session[k], resuming'[k] = resuming[k],
         e # 0 => GrantedIn(Bound(k), e) /\ Journaled(Bound(k), n)
  PROVE  Received(k)'
<1>0. recv[k] \in Seq(Frame) /\ Len(recv[k]) \in Nat
  BY DEF TypeOK
<1>1. Bound(k)' = Bound(k)
  BY DEF Bound
<1>2. CASE ~link[k]
  <2>1. recv'[k] = recv[k]
    BY <1>2 DEF Deliver, TypeOK
  <2> QED BY <1>1, <2>1, ReceivedKept DEF Bound
<1>3. CASE link[k]
  <2> DEFINE f == [s |-> n, ev |-> e]
  <2>1. recv'[k] = Append(recv[k], f)
    BY <1>3 DEF Deliver, TypeOK
  <2>2. /\ Len(recv'[k]) = Len(recv[k]) + 1
        /\ recv'[k][Len(recv[k]) + 1] = f
        /\ \A i \in 1..Len(recv[k]) : recv'[k][i] = recv[k][i]
    BY <1>0, <2>1
  <2>3. f.s = n /\ f.ev = e
    OBVIOUS
  <2> HIDE DEF f
  <2>4. ASSUME NEW i \in 1..Len(recv'[k]), recv'[k][i].ev # 0
        PROVE  /\ GrantedIn(Bound(k), recv'[k][i].ev)
               /\ Journaled(Bound(k), recv'[k][i].s)
    <3>1. CASE i \in 1..Len(recv[k])
      BY <2>2, <2>4, <3>1 DEF Received
    <3>2. CASE i = Len(recv[k]) + 1
      BY <2>2, <2>3, <2>4, <3>2
    <3> QED BY <1>0, <2>2, <3>1, <3>2
  <2>5. ASSUME NEW i \in 1..Len(recv'[k]), recv'[k][i].ev # 0
        PROVE  /\ GrantedIn(Bound(k), recv[k][i].ev)'
               /\ Journaled(Bound(k), recv[k][i].s)'
    <3>1. GrantedIn(Bound(k), recv'[k][i].ev) /\ Journaled(Bound(k), recv'[k][i].s)
      BY <2>4, <2>5
    <3>2. Bound(k) \in DOMAIN sessions
      BY <3>1 DEF GrantedIn
    <3>3. GrantedIn(Bound(k), recv[k][i].ev)'
      BY <1>1, <3>1, Kept DEF GrantedIn
    <3>4. Journaled(Bound(k), recv[k][i].s)'
      BY <1>1, <3>1, <3>2, Kept, SMTT(60) DEF Journaled
    <3> QED BY <3>3, <3>4
  <2> QED BY <2>5 DEF Received
<1> QED BY <1>2, <1>3

\* A task that does not move.
Still(k) ==
  /\ status'[k] = status[k] /\ pos'[k] = pos[k] /\ pc'[k] = pc[k]
  /\ bot'[k] = bot[k] /\ session'[k] = session[k] /\ intents'[k] = intents[k]
  /\ sequence'[k] = sequence[k] /\ pending'[k] = pending[k]
  /\ resuming'[k] = resuming[k] /\ batch'[k] = batch[k] /\ recv'[k] = recv[k]

\* A socket whose task does not move keeps all of SocketSees, whatever the other
\* tasks do.
LEMMA SeesLocal ==
  ASSUME TypeOK, TypeOK', KnowledgeKept, NEW k \in Sockets, SocketSees(k), Still(k)
  PROVE  SocketSees(k)'
<1>1. Binding(k)'
  BY BindingKept DEF SocketSees, Binding, Still
<1>2. Dispatching(k)'
  BY DispatchingKept DEF SocketSees, Still
<1>3. Replaying(k)'
  BY ReplayingKept DEF SocketSees, Still
<1>4. Received(k)'
  BY ReceivedKept DEF SocketSees, Bound, Still
<1> QED BY <1>1, <1>2, <1>3, <1>4 DEF SocketSees

\* A step that writes no row leaves the journal granted.
LEMMA JournalKept ==
  ASSUME TypeOK, TypeOK', KnowledgeKept, JournalGranted, UNCHANGED replay
  PROVE  JournalGranted'
<1> SUFFICES ASSUME NEW s \in Sessions, NEW r \in replay[s]
             PROVE  GrantedIn(s, r.ev)'
  BY DEF JournalGranted
<1>1. GrantedIn(s, r.ev)
  BY DEF JournalGranted
<1> QED BY <1>1, Kept DEF GrantedIn

\* Ending a task keeps what its client has seen.
LEMMA EndsSees ==
  ASSUME TypeOK, TypeOK', KnowledgeKept, SeesInv, NEW k \in Sockets, Ends(k)
  PROVE  SeesInv'
<1>1. JournalGranted'
  BY JournalKept DEF SeesInv, Ends, table
<1>2. ASSUME NEW x \in Sockets PROVE SocketSees(x)'
  <2>0. SocketSees(x)
    BY DEF SeesInv
  <2>1. CASE x = k
    <3>1. status'[k] = "closed" /\ pending'[k] = 0 /\ pc'[k] = "select"
      BY DEF Ends, TypeOK
    <3>2. Binding(k)'
      BY <2>0, <2>1, <3>1, BindingKept DEF SocketSees, Ends
    <3>3. Dispatching(k)' /\ Replaying(k)'
      BY <3>1 DEF Dispatching, Replaying
    <3>4. Received(k)'
      BY <2>0, <2>1, ReceivedKept DEF SocketSees, Ends, Bound
    <3> QED BY <2>1, <3>2, <3>3, <3>4 DEF SocketSees
  <2>2. CASE x # k
    <3>1. Still(x)
      BY <2>2 DEF Still, Ends, TypeOK
    <3> QED BY <2>0, <3>1, SeesLocal
  <2> QED BY <2>1, <2>2
<1> QED BY <1>1, <1>2 DEF SeesInv

\* A step of one task leaves every other task where it was.
LEMMA OthersStill ==
  ASSUME TypeOK, NEW k \in Sockets, NEW x \in Sockets, x # k,
         SocketTask(k) \/ LinkDrops(k) \/ Crash(k)
  PROVE  Still(x)
<1>e. Ends(k) => Still(x)
  BY DEF Ends, Still, TypeOK
<1>1. CASE \/ Connect(k) \/ LinkDrops(k) \/ SkipLagged(k) \/ ResumeListFails(k)
           \/ AppendReplay(k)
  BY <1>1 DEF Connect, LinkDrops, SkipLagged, ResumeListFails, AppendReplay, Goto,
              Still, TypeOK
<1>2. CASE Crash(k) \/ SocketEnds(k) \/ AppendFails(k) \/ SendFails(k)
  BY <1>2, <1>e DEF Crash, SocketEnds, AppendFails, SendFails
<1>3. ASSUME NEW b, NEW i, NEW ok, NEW under,
             \/ IdentifyRefused(k, b, i, ok, under)
             \/ IdentifyFails(k, b, i, ok, under)
             \/ \E s \in Sessions : Identify(k, b, i, ok, under, s)
      PROVE Still(x)
  BY <1>3, <1>e DEF IdentifyRefused, IdentifyFails, Identify, Goto, Still, TypeOK
<1>4. ASSUME NEW b, NEW s, NEW c,
             ResumeRefused(k, b, s, c) \/ ResumeFindsSession(k, b, s, c)
      PROVE Still(x)
  BY <1>4, <1>e DEF ResumeRefused, ResumeFindsSession, Goto, Still, TypeOK
<1>5. ASSUME NEW admitted, TakeEvent(k, admitted) PROVE Still(x)
  BY <1>5 DEF TakeEvent, Goto, Still, TypeOK
<1>6. CASE ResumeLists(k) \/ ReplayOne(k)
  BY <1>6 DEF ResumeLists, ReplayOne, Deliver, Goto, Still, TypeOK
<1>7. ASSUME NEW stored, ResumeCompletes(k, stored) \/ UpdateSequence(k, stored)
      PROVE Still(x)
  BY <1>7 DEF ResumeCompletes, UpdateSequence, Goto, Still, TypeOK
<1>8. CASE SendDispatch(k)
  BY <1>8 DEF SendDispatch, Deliver, Goto, Still, TypeOK
<1> QED BY <1>1, <1>2, <1>3, <1>4, <1>5, <1>6, <1>7, <1>8
        DEF SocketTask, ClientFrame, Receive, Proceed, Stores, Sends

\* Every step of the socket's own task keeps what SocketSees says of it.
LEMMA TaskSees ==
  ASSUME TypeInv, TypeOK', OrderInv, KnowledgeKept, SeesInv, NEW k \in Sockets,
         Connect(k) \/ ClientFrame(k) \/ Receive(k) \/ Proceed(k) \/ LinkDrops(k)
  PROVE  SocketSees(k)' \/ Ends(k)
<1> USE LimitsAssumption, NamesAssumption
<1>0. TypeOK /\ Control /\ SocketSees(k) /\ SocketOrder(k) /\ JournalGranted
  BY DEF TypeInv, SeesInv, OrderInv
<1> USE <1>0
<1>s. Binding(k) /\ Dispatching(k) /\ Replaying(k) /\ Received(k)
  BY DEF SocketSees
<1>1. CASE Connect(k)
  <2>1. pos'[k] > 0 /\ pc'[k] = pc[k]
    BY <1>1 DEF Connect, TypeOK
  <2>2. Binding(k)'
    BY <1>1, <1>s, <2>1, BindingKept DEF Connect
  <2>3. Dispatching(k)'
    BY <1>1, <1>s, <2>1, DispatchingKept DEF Connect
  <2>4. Replaying(k)'
    BY <1>1, <1>s, <2>1, ReplayingKept DEF Connect
  <2>5. Received(k)'
    BY <1>1, <1>s, ReceivedKept DEF Connect, Bound
  <2> QED BY <2>2, <2>3, <2>4, <2>5 DEF SocketSees
<1>2. CASE LinkDrops(k)
  <2>1. Still(k)
    BY <1>2 DEF LinkDrops, Still
  <2> QED BY <2>1, SeesLocal
<1>3. CASE SkipLagged(k)
  <2>1. pos'[k] > 0
    BY <1>3 DEF SkipLagged, Lags, TypeOK
  <2>2. Binding(k)'
    BY <1>3, <1>s, <2>1, BindingKept DEF SkipLagged
  <2>3. Dispatching(k)'
    BY <1>3, <1>s, DispatchingKept DEF SkipLagged
  <2>4. Replaying(k)'
    BY <1>3, <1>s, ReplayingKept DEF SkipLagged
  <2>5. Received(k)'
    BY <1>3, <1>s, ReceivedKept DEF SkipLagged, Bound
  <2> QED BY <2>2, <2>3, <2>4, <2>5 DEF SocketSees
<1>4. ASSUME NEW b \in Bots \cup {NoBot}, NEW i \in Offers,
             NEW ok \in BOOLEAN, NEW under \in BOOLEAN,
             \/ IdentifyFails(k, b, i, ok, under)
             \/ \E s \in Sessions : Identify(k, b, i, ok, under, s)
      PROVE SocketSees(k)'
  <2>0. /\ pc[k] = "select" /\ status[k] = "open" /\ bot[k] = NoBot
        /\ recv'[k] = recv[k] /\ recv[k] = <<>>
        /\ pending'[k] = pending[k] /\ pending[k] = 0
        /\ resuming'[k] = resuming[k] /\ pos'[k] = pos[k] /\ pos[k] > 0
    BY <1>4, <1>s DEF IdentifyFails, Identify, IdentifyAdmits, At, SocketOrder,
                      Dispatching, Binding
  <2>1. pc'[k] \in {"select", "send"}
    BY <1>4, <2>0 DEF IdentifyFails, Identify, Goto, TypeOK
  <2>2. Dispatching(k)' /\ Replaying(k)' /\ Received(k)'
    BY <2>0, <2>1 DEF Dispatching, Replaying, Received
  <2>3. CASE IdentifyFails(k, b, i, ok, under)
    <3>1. Binding(k)'
      BY <1>s, <2>0, <2>3, BindingKept DEF IdentifyFails
    <3> QED BY <2>2, <3>1 DEF SocketSees
  <2>4. ASSUME NEW s \in Sessions, Identify(k, b, i, ok, under, s)
        PROVE Binding(k)'
    <3>1. session'[k] = s /\ bot'[k] = b /\ intents'[k] = i
      BY <2>4 DEF Identify, TypeOK
    <3>2. s \in DOMAIN sessions' /\ sessions'[s].owner = b /\ sessions'[s].intents = i
      BY <2>4 DEF Identify, StoreCreate
    <3>3. resuming'[k].bot # NoBot =>
            /\ resuming'[k].session \in DOMAIN sessions'
            /\ sessions'[resuming'[k].session].owner = resuming'[k].bot
            /\ sessions'[resuming'[k].session].intents = resuming'[k].intents
      BY <1>s, <2>0, Kept DEF Binding
    <3> QED BY <2>0, <3>1, <3>2, <3>3 DEF Binding, BelongsTo
  <2> QED BY <1>4, <2>2, <2>3, <2>4 DEF SocketSees
<1>5. ASSUME NEW b \in Bots \cup {NoBot}, NEW s \in Sessions, NEW c \in 0..MaxSeq,
             ResumeFindsSession(k, b, s, c)
      PROVE SocketSees(k)'
  <2>0. /\ recv'[k] = <<>> /\ pending'[k] = 0 /\ bot'[k] = NoBot
        /\ pos'[k] > 0 /\ pc'[k] = "list" /\ UNCHANGED sessions
    BY <1>5, <1>s DEF ResumeFindsSession, At, Goto, SocketOrder, Dispatching, Binding,
                      TypeOK, table
  <2>1. resuming'[k] = [session |-> s, bot |-> b, intents |-> sessions[s].intents,
                        client |-> c, base |-> sessions[s].sequence]
    BY <1>5 DEF ResumeFindsSession, TypeOK
  <2>2. s \in DOMAIN sessions /\ sessions[s].owner = b
    BY <1>5 DEF ResumeFindsSession, StoreResumes, StoreFinds
  <2>3. Binding(k)'
    BY <2>0, <2>1, <2>2 DEF Binding, BelongsTo
  <2>4. Dispatching(k)' /\ Replaying(k)' /\ Received(k)'
    BY <2>0 DEF Dispatching, Replaying, Received
  <2> QED BY <2>3, <2>4 DEF SocketSees
<1>6. ASSUME NEW admitted \in BOOLEAN, TakeEvent(k, admitted)
      PROVE SocketSees(k)'
  <2>0. /\ pos[k] \in 1..Len(hub) /\ pos'[k] > 0 /\ pc[k] = "select"
        /\ pending[k] = 0
    BY <1>6, <1>s DEF TakeEvent, At, TypeOK, Binding, Dispatching
  <2>1. Binding(k)'
    BY <1>6, <1>s, <2>0, BindingKept DEF TakeEvent
  <2>2. Received(k)'
    BY <1>6, <1>s, ReceivedKept DEF TakeEvent, Bound
  <2>3. pc'[k] # "replay"
    BY <1>6, <2>0 DEF TakeEvent, Goto, TypeOK
  <2>4. Replaying(k)'
    BY <2>3 DEF Replaying
  <2>5. CASE UNCHANGED <<pc, sequence, pending, granted>>
    <3>1. Dispatching(k)'
      BY <1>6, <1>s, <2>5, DispatchingKept DEF TakeEvent
    <3> QED BY <2>1, <2>2, <2>4, <3>1 DEF SocketSees
  <2>6. CASE /\ Dispatches(k, hub[pos[k]], admitted)
             /\ pending' = [pending EXCEPT ![k] = pos[k]]
             /\ granted' = granted \cup {<<bot[k], pos[k]>>}
             /\ Goto(k, "append")
    <3>1. /\ pc'[k] = "append" /\ pending'[k] = pos[k] /\ session'[k] = session[k]
          /\ UNCHANGED <<sessions, hub>>
      BY <1>6, <2>6 DEF TakeEvent, Goto, TypeOK, table
    <3>2. BelongsTo(session[k], bot[k], intents[k]) /\ HasIntent(intents[k], hub[pos[k]])
      BY <1>s, <2>6 DEF Dispatches, Binding
    <3>3. GrantedIn(session[k], pending[k])'
      BY <2>0, <2>6, <3>1, <3>2 DEF BelongsTo, GrantedIn
    <3>4. Dispatching(k)'
      BY <2>0, <3>1, <3>3 DEF Dispatching
    <3> QED BY <2>1, <2>2, <2>4, <3>4 DEF SocketSees
  <2> QED BY <1>6, <2>5, <2>6 DEF TakeEvent
<1>7. CASE ResumeLists(k)
  <2> DEFINE rows == StoreListAfter(resuming[k].session, resuming[k].client)
  <2>0. pc[k] = "list" /\ pc'[k] = "replay" /\ batch'[k] = rows
    BY <1>7 DEF ResumeLists, At, Goto, TypeOK
  <2>1. PICK m : resuming' = [resuming EXCEPT ![k].base = m]
    BY <1>7 DEF ResumeLists
  <2>2. /\ resuming'[k].bot = resuming[k].bot
        /\ resuming'[k].session = resuming[k].session
        /\ resuming'[k].intents = resuming[k].intents
    BY <2>1 DEF TypeOK, Resume
  <2>3. Binding(k)'
    BY <1>7, <1>s, <2>2, BindingKept DEF ResumeLists, Binding
  <2>4. Dispatching(k)'
    BY <1>7, <1>s, <2>0, DispatchingKept DEF ResumeLists, Dispatching
  <2>5. Received(k)'
    BY <1>7, <1>s, <2>2, ReceivedKept DEF ResumeLists, Bound
  <2>6. resuming[k].session \in Sessions
    BY <2>0 DEF Control, TypeOK, Resume
  <2>7. ASSUME NEW r \in batch'[k]
        PROVE  /\ GrantedIn(resuming[k].session, r.ev)'
               /\ Journaled(resuming[k].session, r.seq)'
    <3>1. r \in replay[resuming[k].session]
      BY <2>0 DEF StoreListAfter
    <3>2. GrantedIn(resuming[k].session, r.ev)
      BY <2>6, <3>1 DEF JournalGranted
    <3>3. UNCHANGED <<sessions, replay, hub, granted>>
      BY <1>7 DEF ResumeLists, table
    <3> QED BY <2>2, <3>1, <3>2, <3>3 DEF GrantedIn, Journaled
  <2>8. Replaying(k)'
    BY <2>7 DEF Replaying
  <2> QED BY <2>3, <2>4, <2>5, <2>8 DEF SocketSees
<1>8. CASE ResumeListFails(k)
  <2>0. /\ recv'[k] = <<>> /\ pending'[k] = 0 /\ bot'[k] = NoBot
        /\ pos'[k] > 0 /\ pc'[k] = "select" /\ resuming'[k] = NotResuming
    BY <1>8, <1>s DEF ResumeListFails, At, Goto, SocketOrder, Dispatching, Binding,
                      TypeOK, Control
  <2>1. Binding(k)'
    BY <2>0 DEF Binding, NotResuming
  <2>2. Dispatching(k)' /\ Replaying(k)' /\ Received(k)'
    BY <2>0 DEF Dispatching, Replaying, Received
  <2> QED BY <2>1, <2>2 DEF SocketSees
<1>9. CASE ReplayOne(k)
  <2>1. PICK r \in batch[k] : /\ batch' = [batch EXCEPT ![k] = @ \ {r}]
                              /\ Deliver(k, r.seq, r.ev)
    BY <1>9 DEF ReplayOne
  <2>2. r.seq \in Nat /\ r.ev \in Nat
    <3>1. r \in Row
      BY DEF TypeOK
    <3> QED BY <3>1 DEF Row
  <2>3. /\ pc[k] = "replay" /\ session[k] = NoSession
        /\ Bound(k) = resuming[k].session
    BY <1>9 DEF ReplayOne, At, Control, Bound
  <2>4. GrantedIn(Bound(k), r.ev) /\ Journaled(Bound(k), r.seq)
    BY <1>s, <2>3 DEF Replaying
  <2>5. Received(k)'
    BY <1>9, <1>s, <2>1, <2>2, <2>4, DeliverReceived DEF ReplayOne
  <2>6. batch'[k] \subseteq batch[k]
    BY <2>1 DEF TypeOK
  <2>7. Binding(k)'
    BY <1>9, <1>s, BindingKept DEF ReplayOne, Binding
  <2>8. Dispatching(k)'
    BY <1>9, <1>s, DispatchingKept DEF ReplayOne
  <2>9. Replaying(k)'
    BY <1>9, <1>s, <2>3, <2>6, ReplayingKept DEF ReplayOne
  <2> QED BY <2>5, <2>7, <2>8, <2>9 DEF SocketSees
<1>10. ASSUME NEW stored \in BOOLEAN, ResumeCompletes(k, stored)
       PROVE SocketSees(k)'
  <2>0. /\ pc[k] = "replay" /\ pc'[k] = "send" /\ pending'[k] = 0 /\ pos'[k] > 0
        /\ bot'[k] = resuming[k].bot /\ session'[k] = resuming[k].session
        /\ intents'[k] = resuming[k].intents /\ resuming'[k] = NotResuming
        /\ recv'[k] = recv[k]
    BY <1>10, <1>s DEF ResumeCompletes, At, Goto, TypeOK, Dispatching, Binding
  <2>1. session[k] = NoSession /\ resuming[k].bot # NoBot
        /\ resuming[k].session # NoSession
    BY <2>0 DEF Control
  <2>2. BelongsTo(resuming[k].session, resuming[k].bot, resuming[k].intents)
    BY <1>s, <2>1 DEF Binding
  <2>3. /\ resuming[k].session \in DOMAIN sessions'
        /\ sessions'[resuming[k].session].owner = resuming[k].bot
        /\ sessions'[resuming[k].session].intents = resuming[k].intents
    BY <2>2, Kept
  <2>4. Binding(k)'
    BY <2>0, <2>3 DEF Binding, BelongsTo, NotResuming
  <2>5. Dispatching(k)' /\ Replaying(k)'
    BY <2>0 DEF Dispatching, Replaying
  <2>6. Received(k)'
    BY <1>s, <2>0, <2>1, ReceivedKept DEF Bound
  <2> QED BY <2>4, <2>5, <2>6 DEF SocketSees
<1>11. CASE AppendReplay(k)
  <2>0. /\ pc[k] = "append" /\ pc'[k] = "send" /\ pending'[k] = pending[k]
        /\ pending[k] # 0 /\ session'[k] = session[k] /\ sequence'[k] = sequence[k]
        /\ session[k] \in Sessions
    BY <1>11, <1>s DEF AppendReplay, At, Goto, TypeOK, Dispatching, Control
  <2>1. GrantedIn(session[k], pending[k])
    BY <1>s, <2>0 DEF Dispatching
  <2>2. GrantedIn(session[k], pending[k])'
    BY <2>0, <2>1, Kept DEF GrantedIn
  <2>3. [seq |-> sequence[k], ev |-> pending[k]] \in replay'[session[k]]
    BY <1>11, <2>0 DEF AppendReplay, StoreAppend, TypeOK
  <2>4. Journaled(session[k], sequence[k])'
    BY <2>0, <2>3 DEF Journaled
  <2>5. Dispatching(k)'
    BY <2>0, <2>2, <2>4 DEF Dispatching
  <2>6. Binding(k)'
    BY <1>11, <1>s, BindingKept DEF AppendReplay, Binding
  <2>7. Replaying(k)'
    BY <2>0 DEF Replaying
  <2>8. Received(k)'
    BY <1>11, <1>s, ReceivedKept DEF AppendReplay, Bound
  <2> QED BY <2>5, <2>6, <2>7, <2>8 DEF SocketSees
<1>12. CASE SendDispatch(k)
  <2>0. /\ pc[k] = "send" /\ sequence[k] \in Nat /\ pending[k] \in Nat
        /\ pc'[k] = (IF pending[k] = 0 THEN "select" ELSE "update")
        /\ Bound(k) = session[k]
    BY <1>12 DEF SendDispatch, At, Goto, TypeOK, Control, Bound
  <2>1. pending[k] # 0 =>
          GrantedIn(Bound(k), pending[k]) /\ Journaled(Bound(k), sequence[k])
    BY <1>s, <2>0 DEF Dispatching
  <2>2. Received(k)'
    BY <1>12, <1>s, <2>0, <2>1, DeliverReceived DEF SendDispatch
  <2>3. Binding(k)'
    BY <1>12, <1>s, BindingKept DEF SendDispatch, Binding
  <2>4. Dispatching(k)'
    BY <1>12, <1>s, <2>0, DispatchingKept DEF SendDispatch
  <2>5. Replaying(k)'
    BY <2>0 DEF Replaying
  <2> QED BY <2>2, <2>3, <2>4, <2>5 DEF SocketSees
<1>13. ASSUME NEW stored \in BOOLEAN, UpdateSequence(k, stored)
       PROVE SocketSees(k)'
  <2>0. pc'[k] = "select" /\ pending'[k] = 0
    BY <1>13 DEF UpdateSequence, Goto, TypeOK
  <2>1. Binding(k)'
    BY <1>13, <1>s, BindingKept DEF UpdateSequence, Binding
  <2>2. Dispatching(k)' /\ Replaying(k)'
    BY <2>0 DEF Dispatching, Replaying
  <2>3. Received(k)'
    BY <1>13, <1>s, ReceivedKept DEF UpdateSequence, Bound
  <2> QED BY <2>1, <2>2, <2>3 DEF SocketSees
<1>14. ASSUME NEW b, NEW i, NEW ok, NEW under, NEW s, NEW c,
              \/ IdentifyRefused(k, b, i, ok, under) \/ ResumeRefused(k, b, s, c)
              \/ AppendFails(k) \/ SendFails(k)
       PROVE Ends(k)
  BY <1>14 DEF IdentifyRefused, ResumeRefused, AppendFails, SendFails
<1> QED
  BY <1>1, <1>2, <1>3, <1>4, <1>5, <1>6, <1>7, <1>8, <1>9, <1>10, <1>11, <1>12,
     <1>13, <1>14
  DEF ClientFrame, Receive, Proceed, Stores, Sends

\* Every step of every handler keeps SeesInv.
LEMMA NextSees ==
  ASSUME TypeInv, TypeOK', OrderInv, SeesInv, [Next]_vars
  PROVE  SeesInv'
<1>0. TypeOK /\ Control /\ JournalGranted /\ \A k \in Sockets : SocketSees(k)
  BY DEF TypeInv, SeesInv
<1>k. KnowledgeKept
  BY <1>0, NextShared, SharedKeeps
<1>1. ASSUME UNCHANGED <<task, recv>>, UNCHANGED replay
      PROVE SeesInv'
  <2>1. \A k \in Sockets : Still(k)
    BY <1>1 DEF Still, task
  <2> QED BY <1>0, <1>1, <1>k, <2>1, SeesLocal, JournalKept DEF SeesInv
<1>2. CASE UNCHANGED vars
  BY <1>1, <1>2 DEF vars, table
<1>3. ASSUME NEW t \in Published, Publish(t) PROVE SeesInv'
  BY <1>1, <1>3 DEF Publish, table
<1>4. ASSUME NEW s \in Sessions, Expire(s) PROVE SeesInv'
  BY <1>1, <1>4 DEF Expire
<1>5. ASSUME NEW k \in Sockets, Ends(k) PROVE SeesInv'
  BY <1>0, <1>5, <1>k, EndsSees
<1>6. ASSUME NEW k \in Sockets, LinkDrops(k) \/ SocketTask(k) PROVE SeesInv'
  <2>1. SocketSees(k)' \/ Ends(k)
    BY <1>6, <1>k, TaskSees DEF SocketTask, SocketEnds
  <2>2. \A x \in Sockets : x # k => SocketSees(x)'
    BY <1>0, <1>6, <1>k, OthersStill, SeesLocal
  <2>3. CASE ~AppendReplay(k)
    <3>1. UNCHANGED replay \/ Ends(k)
      BY <1>6, <2>3
      DEF SocketTask, LinkDrops, Connect, SocketEnds, ClientFrame, IdentifyRefused,
          IdentifyFails, Identify, ResumeRefused, ResumeFindsSession, Receive,
          SkipLagged, TakeEvent, Proceed, Stores, Sends, ResumeLists,
          ResumeListFails, ReplayOne,
          ResumeCompletes, AppendFails, SendDispatch, SendFails, UpdateSequence, table
    <3> QED BY <1>0, <1>5, <1>k, <2>1, <2>2, <3>1, JournalKept DEF SeesInv
  <2>4. CASE AppendReplay(k)
    <3>0. /\ pc[k] = "append" /\ pending[k] # 0 /\ session[k] \in Sessions
          /\ UNCHANGED <<sessions, hub, granted>>
      BY <1>0, <2>4 DEF AppendReplay, At, SocketSees, Dispatching, Control, TypeOK
    <3>1. GrantedIn(session[k], pending[k])
      BY <1>0, <3>0 DEF SocketSees, Dispatching
    <3>2. ASSUME NEW s \in Sessions, NEW r \in replay'[s]
          PROVE  GrantedIn(s, r.ev)'
      <4>1. CASE r \in replay[s]
        BY <1>0, <3>0, <4>1 DEF JournalGranted, GrantedIn
      <4>2. CASE s = session[k] /\ r = [seq |-> sequence[k], ev |-> pending[k]]
        BY <3>0, <3>1, <4>2 DEF GrantedIn
      <4> QED BY <1>0, <2>4, <3>0, <3>2, <4>1, <4>2
              DEF AppendReplay, StoreAppend, TypeOK
    <3>3. JournalGranted'
      BY <3>2 DEF JournalGranted
    <3> QED BY <1>5, <2>1, <2>2, <3>3 DEF SeesInv
  <2> QED BY <2>3, <2>4
<1> QED BY <1>2, <1>3, <1>4, <1>5, <1>6 DEF Next, Environment, Crash

\* The strengthened invariant holds in every reachable state.
THEOREM SeesInvariant == Spec => []SeesInv
<1>1. Init => SeesInv
  BY DEF Init, SeesInv, JournalGranted, SocketSees, Binding, Dispatching, Replaying,
         Received, NotResuming
<1>2. TypeInv /\ TypeInv' /\ OrderInv /\ SeesInv /\ [Next]_vars => SeesInv'
  BY NextSees DEF TypeInv
<1> QED BY <1>1, <1>2, TypeInvariant, OrderInvariant, PTL DEF Spec

\* A bot is only ever sent events that can_bot_receive_event granted to that very
\* bot and that its session's intents ask for, live or replayed after RESUME, for
\* any number of connections, sessions and bots.
THEOREM OnlyGrantedSent == Spec => []OnlyGranted
<1>1. TypeInv /\ SeesInv => OnlyGranted
  <2> SUFFICES ASSUME TypeInv, SeesInv, NEW k \in Sockets,
                      NEW i \in 1..Len(recv[k]), recv[k][i].ev # 0
               PROVE  /\ <<Peer(k), recv[k][i].ev>> \in granted
                      /\ Bound(k) \in DOMAIN sessions
                      /\ HasIntent(sessions[Bound(k)].intents, hub[recv[k][i].ev])
    BY DEF OnlyGranted
  <2>1. GrantedIn(Bound(k), recv[k][i].ev)
    BY DEF SeesInv, SocketSees, Received
  <2>2. TypeOK /\ Control /\ Binding(k)
    BY DEF TypeInv, SeesInv, SocketSees
  <2>3. Bound(k) # NoSession
    BY <2>1, <2>2, NamesAssumption DEF GrantedIn, TypeOK
  <2>4. Peer(k) = sessions[Bound(k)].owner
    BY <2>2, <2>3 DEF Control, Binding, BelongsTo, Bound, Peer
  <2> QED BY <2>1, <2>4 DEF GrantedIn
<1> QED BY <1>1, TypeInvariant, SeesInvariant, PTL

\* No client ever holds the number of a dispatch that its session's journal
\* lacks, whatever fails or crashes and wherever.
THEOREM WrittenAhead == Spec => []WriteAhead
<1>1. SeesInv => WriteAhead
  BY DEF SeesInv, SocketSees, Received, Journaled, WriteAhead
<1> QED BY <1>1, SeesInvariant, PTL

(***************************************************************************)
(* Sequence numbers of one session, across its connections.  A number      *)
(* names one dispatch because a task only ever stores a dispatch under a   *)
(* number that no row and no READY or RESUMED frame of the session has.    *)
(* A frame without a row is known to the next connection only through the  *)
(* stored sequence, whose update may be lost: RESUMED repeats the number   *)
(* of such a frame, and no dispatch ever takes it, because the frame is at *)
(* most one above what the tables hold and RESUMED is exactly one above.   *)
(***************************************************************************)
Has(k, n, e) == \E i \in 1..Len(recv[k]) : recv[k][i] = [s |-> n, ev |-> e]

\* m is at least the number resume_bot continues from; n is at most the one it
\* would give to RESUMED.
Top(s, m) == sessions[s].sequence <= m /\ \A r \in replay[s] : r.seq <= m
AtMostNext(s, n) == \A m \in Nat : Top(s, m) => n <= m + 1
NoRow(s, n) == \A r \in replay[s] : r.seq # n

FramesHold(k) ==
  \A n, e \in Nat : Has(k, n, e) =>
    /\ Bound(k) \in DOMAIN sessions
    /\ e # 0 => [seq |-> n, ev |-> e] \in replay[Bound(k)]
    /\ e = 0 => NoRow(Bound(k), n) /\ AtMostNext(Bound(k), n)

Found(k) ==
  pc[k] = "list" =>
    /\ resuming[k].client <= resuming[k].base
    /\ resuming[k].base = sessions[resuming[k].session].sequence

Listed(k) ==
  pc[k] = "replay" =>
    /\ batch[k] \subseteq replay[resuming[k].session]
    /\ Top(resuming[k].session, resuming[k].base)
    /\ \A m \in Nat : Top(resuming[k].session, m) => resuming[k].base <= m

\* No row of a bound task's session lies above the task's number, nor does a
\* READY or RESUMED frame; while the row for the number is still to be stored,
\* none reaches it.
Numbered(k) ==
  status[k] = "open" /\ bot[k] # NoBot =>
    /\ \A r \in replay[session[k]] :
         /\ r.seq <= sequence[k]
         /\ pc[k] = "append" => r.seq < sequence[k]
    /\ \A x \in Sockets, n \in Nat :
         Bound(x) = session[k] /\ Has(x, n, 0) =>
           /\ n <= sequence[k]
           /\ pc[k] = "append" => n < sequence[k]
    /\ pc[k] = "send" /\ pending[k] = 0 =>
         NoRow(session[k], sequence[k]) /\ AtMostNext(session[k], sequence[k])
    /\ pc[k] = "send" /\ pending[k] # 0 =>
         [seq |-> sequence[k], ev |-> pending[k]] \in replay[session[k]]

TaskNumbers(k) == Found(k) /\ Listed(k) /\ Numbered(k)

JournalFinite == \A s \in Sessions : IsFiniteSet(replay[s])

NumbersInv ==
  /\ JournalFinite
  /\ \A k \in Sockets : FramesHold(k) /\ TaskNumbers(k)

\* A frame that is delivered is the only new one.
LEMMA DeliverHas ==
  ASSUME TypeOK, NEW k \in Sockets, NEW n \in Nat, NEW e \in Nat, Deliver(k, n, e)
  PROVE  \A a, b \in Nat : Has(k, a, b)' => Has(k, a, b) \/ (a = n /\ b = e)
<1>0. recv[k] \in Seq(Frame) /\ Len(recv[k]) \in Nat
  BY DEF TypeOK
<1>1. CASE ~link[k]
  <2>1. recv'[k] = recv[k]
    BY <1>1 DEF Deliver, TypeOK
  <2> QED BY <2>1 DEF Has
<1>2. CASE link[k]
  <2> DEFINE f == [s |-> n, ev |-> e]
  <2>1. recv'[k] = Append(recv[k], f)
    BY <1>2 DEF Deliver, TypeOK
  <2>2. /\ Len(recv'[k]) = Len(recv[k]) + 1
        /\ recv'[k][Len(recv[k]) + 1] = f
        /\ \A i \in 1..Len(recv[k]) : recv'[k][i] = recv[k][i]
    BY <1>0, <2>1
  <2>3. \A a, b \in Nat : f = [s |-> a, ev |-> b] => a = n /\ b = e
    OBVIOUS
  <2> HIDE DEF f
  <2>4. ASSUME NEW a \in Nat, NEW b \in Nat, NEW i \in 1..Len(recv'[k]),
               recv'[k][i] = [s |-> a, ev |-> b]
        PROVE  Has(k, a, b) \/ (a = n /\ b = e)
    <3>1. CASE i \in 1..Len(recv[k])
      BY <2>2, <2>4, <3>1 DEF Has
    <3>2. CASE i = Len(recv[k]) + 1
      BY <2>2, <2>3, <2>4, <3>2
    <3> QED BY <1>0, <2>2, <3>1, <3>2
  <2> QED BY <2>4 DEF Has
<1> QED BY <1>1, <1>2

\* What a step may do to the tables: keep every row, and add one only under a
\* number that no READY or RESUMED frame of the session has.
RowsKept == \A s \in Sessions : replay[s] \subseteq replay'[s]
RowsFresh ==
  \A s \in Sessions : \A r \in replay'[s] :
    \/ r \in replay[s]
    \/ \A x \in Sockets : Bound(x) = s => ~Has(x, r.seq, 0)

\* The number a connection continues from only grows.
LEMMA TopKept ==
  ASSUME TypeOK, TypeOK', SequencesKept, RowsKept, NEW s \in DOMAIN sessions
  PROVE  /\ s \in DOMAIN sessions'
         /\ \A m \in Nat : /\ sessions'[s].sequence <= m
                           /\ \A r \in replay'[s] : r.seq <= m
                           => Top(s, m)
         /\ \A n : AtMostNext(s, n) =>
              \A m \in Nat : /\ sessions'[s].sequence <= m
                             /\ \A r \in replay'[s] : r.seq <= m
                             => n <= m + 1
<1>0. s \in Sessions /\ s \in DOMAIN sessions'
  BY DEF TypeOK, SequencesKept
<1>1. /\ sessions[s].sequence \in Nat /\ sessions'[s].sequence \in Nat
      /\ sessions[s].sequence <= sessions'[s].sequence
  <2>1. sessions[s] \in Session /\ sessions'[s] \in Session
    BY <1>0 DEF TypeOK
  <2> QED BY <2>1 DEF SequencesKept, Session
<1>2. ASSUME NEW m \in Nat, sessions'[s].sequence <= m,
             \A r \in replay'[s] : r.seq <= m
      PROVE  Top(s, m)
  BY <1>0, <1>1, <1>2 DEF Top, RowsKept
<1> QED BY <1>0, <1>2 DEF AtMostNext

\* The frames a client has keep their places in the tables.
LEMMA FramesKept ==
  ASSUME TypeOK, TypeOK', SequencesKept, RowsKept, RowsFresh, NEW x \in Sockets,
         FramesHold(x), \A n, e \in Nat : Has(x, n, e)' => Has(x, n, e),
         recv'[x] # <<>> => Bound(x)' = Bound(x)
  PROVE  FramesHold(x)'
<1> SUFFICES ASSUME NEW n \in Nat, NEW e \in Nat, Has(x, n, e)'
             PROVE  /\ Bound(x)' \in DOMAIN sessions'
                    /\ e # 0 => [seq |-> n, ev |-> e] \in replay'[Bound(x)']
                    /\ e = 0 => NoRow(Bound(x), n)' /\ AtMostNext(Bound(x), n)'
  BY DEF FramesHold
<1>1. recv'[x] # <<>>
  <2>1. recv'[x] \in Seq(Frame) /\ \E i \in 1..Len(recv'[x]) : TRUE
    BY DEF Has, TypeOK
  <2> QED BY <2>1
<1>2. PICK s : s = Bound(x) /\ Bound(x)' = s
  BY <1>1
<1>3. /\ s \in DOMAIN sessions
      /\ e # 0 => [seq |-> n, ev |-> e] \in replay[s]
      /\ e = 0 => NoRow(s, n) /\ AtMostNext(s, n)
  BY <1>2 DEF FramesHold
<1>4. s \in Sessions /\ s \in DOMAIN sessions'
  BY <1>3, TopKept DEF TypeOK
<1>5. e # 0 => [seq |-> n, ev |-> e] \in replay'[s]
  BY <1>3, <1>4 DEF RowsKept
<1>6. ASSUME e = 0, NEW r \in replay'[s] PROVE r.seq # n
  BY <1>2, <1>3, <1>4, <1>6 DEF NoRow, RowsFresh
<1>7. ASSUME e = 0, NEW m \in Nat, sessions'[s].sequence <= m,
             \A r \in replay'[s] : r.seq <= m
      PROVE n <= m + 1
  BY <1>3, <1>7, TopKept
<1>8. e = 0 => NoRow(s, n)' /\ AtMostNext(s, n)'
  BY <1>6, <1>7 DEF NoRow, AtMostNext, Top
<1> QED BY <1>2, <1>4, <1>5, <1>8 DEF NoRow, AtMostNext, Top

\* A task touches the rows of no session but its own, and its client has no
\* frame before it is bound.
LEMMA TaskIsolated ==
  ASSUME TypeInv, OrderInv, NEW k \in Sockets,
         SocketTask(k) \/ LinkDrops(k) \/ Crash(k)
  PROVE  /\ \A s \in DOMAIN sessions : s # Bound(k) =>
              sessions'[s].sequence = sessions[s].sequence /\ replay'[s] = replay[s]
         /\ recv'[k] # <<>> => Bound(k)' = Bound(k)
         /\ status[k] # "open" => UNCHANGED <<sessions, replay, recv>>
<1> DEFINE Goal ==
      /\ \A s \in DOMAIN sessions : s # Bound(k) =>
           sessions'[s].sequence = sessions[s].sequence /\ replay'[s] = replay[s]
      /\ recv'[k] # <<>> => Bound(k)' = Bound(k)
      /\ status[k] # "open" => UNCHANGED <<sessions, replay, recv>>
<1> SUFFICES Goal
  OBVIOUS
<1>0. TypeOK /\ Control /\ SocketOrder(k)
  BY DEF TypeInv, OrderInv
<1> USE <1>0
<1>n. Bound(k)' = IF session'[k] # NoSession THEN session'[k] ELSE resuming'[k].session
  BY DEF Bound
<1>e. Ends(k) /\ status[k] = "open" => Goal
  BY <1>n DEF Ends, table, Bound
<1>1. CASE \/ Connect(k) \/ LinkDrops(k) \/ SkipLagged(k)
  BY <1>1, <1>n DEF Connect, LinkDrops, SkipLagged, table, Bound
<1>2. CASE Crash(k) \/ SocketEnds(k) \/ AppendFails(k) \/ SendFails(k)
  BY <1>2, <1>e DEF Crash, SocketEnds, AppendFails, SendFails, At
<1>3. ASSUME NEW b, NEW i, NEW ok, NEW under,
             \/ IdentifyRefused(k, b, i, ok, under)
             \/ IdentifyFails(k, b, i, ok, under)
             \/ \E s \in Sessions : Identify(k, b, i, ok, under, s)
      PROVE Goal
  <2>1. CASE IdentifyRefused(k, b, i, ok, under)
    BY <2>1, <1>e DEF IdentifyRefused, At
  <2>2. CASE IdentifyFails(k, b, i, ok, under)
    BY <2>2, <1>n DEF IdentifyFails, At, table, Bound
  <2>3. ASSUME NEW s \in Sessions, Identify(k, b, i, ok, under, s) PROVE Goal
    <3>1. recv'[k] = <<>> /\ status[k] = "open" /\ replay' = replay
      BY <2>3 DEF Identify, IdentifyAdmits, At, SocketOrder
    <3>2. \A x \in DOMAIN sessions : sessions'[x] = sessions[x]
      BY <2>3 DEF Identify, StoreCreate
    <3> QED BY <3>1, <3>2
  <2> QED BY <1>3, <2>1, <2>2, <2>3
<1>4. ASSUME NEW b, NEW s, NEW c,
             ResumeRefused(k, b, s, c) \/ ResumeFindsSession(k, b, s, c)
      PROVE Goal
  <2>1. CASE ResumeRefused(k, b, s, c)
    BY <2>1, <1>e DEF ResumeRefused, At
  <2>2. CASE ResumeFindsSession(k, b, s, c)
    BY <2>2 DEF ResumeFindsSession, At, SocketOrder, table
  <2> QED BY <1>4, <2>1, <2>2
<1>5. ASSUME NEW admitted, TakeEvent(k, admitted) PROVE Goal
  BY <1>5, <1>n DEF TakeEvent, At, table, Bound
<1>6. CASE ResumeLists(k)
  <2>1. PICK m : resuming' = [resuming EXCEPT ![k].base = m]
    BY <1>6 DEF ResumeLists
  <2>2. resuming'[k].session = resuming[k].session
    BY <2>1 DEF TypeOK, Resume
  <2> QED BY <1>6, <1>n, <2>2 DEF ResumeLists, At, table, Bound
<1>7. CASE ResumeListFails(k)
  BY <1>7 DEF ResumeListFails, At, table, SocketOrder, Control
<1>8. CASE ReplayOne(k) \/ SendDispatch(k)
  BY <1>8, <1>n DEF ReplayOne, SendDispatch, At, table, Bound
<1>9. CASE AppendReplay(k)
  <2>1. session[k] # NoSession /\ session[k] = Bound(k)
    BY <1>9 DEF AppendReplay, At, Control, Bound
  <2>2. \A s \in Sessions : s # session[k] => replay'[s] = replay[s]
    BY <1>9 DEF AppendReplay, StoreAppend, TypeOK
  <2> QED BY <1>9, <1>n, <2>1, <2>2 DEF AppendReplay, At, Bound, TypeOK
<1>10. ASSUME NEW stored, ResumeCompletes(k, stored) PROVE Goal
  <2>1. /\ session[k] = NoSession /\ resuming[k].session # NoSession
        /\ Bound(k) = resuming[k].session /\ status[k] = "open"
        /\ session'[k] = resuming[k].session
    BY <1>10 DEF ResumeCompletes, At, Control, Bound, TypeOK
  <2>2. \A s \in DOMAIN sessions : s # resuming[k].session => sessions'[s] = sessions[s]
    BY <1>10 DEF ResumeCompletes, StoreUpdateSequence
  <2> QED BY <1>10, <1>n, <2>1, <2>2 DEF ResumeCompletes
<1>11. ASSUME NEW stored, UpdateSequence(k, stored) PROVE Goal
  <2>1. session[k] # NoSession /\ session[k] = Bound(k)
    BY <1>11 DEF UpdateSequence, At, Control, Bound
  <2>2. \A s \in DOMAIN sessions : s # session[k] => sessions'[s] = sessions[s]
    BY <1>11 DEF UpdateSequence, StoreUpdateSequence
  <2> QED BY <1>11, <1>n, <2>1, <2>2 DEF UpdateSequence, At, Bound
<1> HIDE DEF Goal
<1> QED
  BY <1>1, <1>2, <1>3, <1>4, <1>5, <1>6, <1>7, <1>8, <1>9, <1>10, <1>11
  DEF SocketTask, ClientFrame, Receive, Proceed, Stores, Sends

\* Every row stays, and a row is only added under a fresh number.
LEMMA RowsStep ==
  ASSUME TypeInv, NumbersInv, NEW k \in Sockets,
         SocketTask(k) \/ LinkDrops(k) \/ Crash(k)
  PROVE  RowsKept /\ RowsFresh /\ JournalFinite'
<1>0. TypeOK /\ Control /\ JournalFinite /\ Numbered(k)
  BY DEF TypeInv, NumbersInv, TaskNumbers
<1>1. CASE ~AppendReplay(k)
  <2>1. UNCHANGED replay
    BY <1>1
    DEF SocketTask, LinkDrops, Crash, Ends, Connect, SocketEnds, ClientFrame,
        IdentifyRefused, IdentifyFails, Identify, ResumeRefused, ResumeFindsSession,
        Receive, SkipLagged, TakeEvent, Proceed, Stores, Sends, ResumeLists,
        ResumeListFails,
        ReplayOne, ResumeCompletes, AppendFails, SendDispatch, SendFails,
        UpdateSequence, table
  <2> QED BY <1>0, <2>1 DEF RowsKept, RowsFresh, JournalFinite
<1>2. CASE AppendReplay(k)
  <2> DEFINE row == [seq |-> sequence[k], ev |-> pending[k]]
  <2>1. /\ pc[k] = "append" /\ status[k] = "open" /\ bot[k] # NoBot
        /\ session[k] \in Sessions /\ sequence[k] \in Nat
    BY <1>0, <1>2 DEF AppendReplay, At, Control, TypeOK
  <2>2. \A r \in replay[session[k]] : r.seq < sequence[k] /\ r.seq \in Nat
    BY <1>0, <2>1 DEF Numbered, TypeOK, Row
  <2>3. /\ \A s \in Sessions : s # session[k] => replay'[s] = replay[s]
        /\ replay'[session[k]] =
             {r \in replay[session[k]] : r.seq # sequence[k]} \cup {row}
    BY <1>0, <1>2, <2>1 DEF AppendReplay, StoreAppend, TypeOK
  <2>r. row.seq = sequence[k]
    OBVIOUS
  <2> HIDE DEF row
  <2>4. replay'[session[k]] = replay[session[k]] \cup {row}
    <3>1. {r \in replay[session[k]] : r.seq # sequence[k]} = replay[session[k]]
      BY <2>1, <2>2
    <3> QED BY <2>3, <3>1
  <2>5. RowsKept
    BY <2>3, <2>4 DEF RowsKept
  <2>6. \A x \in Sockets : Bound(x) = session[k] => ~Has(x, sequence[k], 0)
    BY <1>0, <2>1 DEF Numbered
  <2>7. RowsFresh
    BY <2>3, <2>4, <2>6, <2>r DEF RowsFresh
  <2>8. JournalFinite'
    BY <1>0, <2>3, <2>4, FS_AddElement, SMTT(60) DEF JournalFinite
  <2> QED BY <2>5, <2>7, <2>8
<1> QED BY <1>1, <1>2

\* The session of an open connection is its own: a step of another task leaves
\* its rows, its sequence and the frames its clients have.
LEMMA OwnSession ==
  ASSUME TypeInv, TypeOK', OrderInv, NoOverlap, NEW k \in Sockets, NEW x \in Sockets,
         x # k, SocketTask(k) \/ LinkDrops(k) \/ Crash(k),
         status[x] = "open", NEW s \in DOMAIN sessions, Bound(x) = s
  PROVE  /\ sessions'[s].sequence = sessions[s].sequence
         /\ replay'[s] = replay[s]
         /\ \A y \in Sockets, n \in Nat : Bound(y)' = s /\ Has(y, n, 0)' =>
              Bound(y) = s /\ Has(y, n, 0)
<1>0. TypeOK /\ s # NoSession
  BY NamesAssumption DEF TypeInv, TypeOK
<1>1. \A y \in Sockets : y # k => Still(y)
  BY <1>0, OthersStill
<1>2. \A y \in Sockets, n \in Nat : y # k =>
        Bound(y)' = Bound(y) /\ (Has(y, n, 0)' <=> Has(y, n, 0))
  BY <1>1 DEF Still, Bound, Has
<1>3. ASSUME NEW n \in Nat, Has(k, n, 0)' PROVE Bound(k)' = Bound(k)
  <2>1. recv'[k] # <<>>
    <3>1. recv'[k] \in Seq(Frame) /\ \E i \in 1..Len(recv'[k]) : TRUE
      BY <1>3 DEF Has, TypeOK
    <3> QED BY <3>1
  <2> QED BY <2>1, TaskIsolated
<1>4. CASE status[k] = "open"
  <2>1. Bound(k) # s
    BY <1>0, <1>4 DEF NoOverlap
  <2> QED BY <1>2, <1>3, <2>1, TaskIsolated
<1>5. CASE status[k] # "open"
  <2>1. UNCHANGED <<sessions, replay, recv>>
    BY <1>5, TaskIsolated
  <2>2. \A n : Has(k, n, 0)' <=> Has(k, n, 0)
    BY <2>1 DEF Has
  <2> QED BY <1>2, <1>3, <2>1, <2>2
<1> QED BY <1>4, <1>5

\* What a task relies on stays true while it does not move and the rows of its
\* session, its sequence and the frames of its clients stay.
Waiting(k) ==
  /\ status'[k] = status[k] /\ pc'[k] = pc[k] /\ bot'[k] = bot[k]
  /\ session'[k] = session[k] /\ sequence'[k] = sequence[k]
  /\ pending'[k] = pending[k] /\ resuming'[k] = resuming[k]
  /\ batch'[k] = batch[k]

LEMMA NumbersKept ==
  ASSUME TypeInv, SeesInv, NEW x \in Sockets, TaskNumbers(x), Waiting(x),
         \A s \in DOMAIN sessions : status[x] = "open" /\ Bound(x) = s =>
           /\ sessions'[s].sequence = sessions[s].sequence
           /\ replay'[s] = replay[s]
           /\ \A y \in Sockets, n \in Nat : Bound(y)' = s /\ Has(y, n, 0)' =>
                Bound(y) = s /\ Has(y, n, 0)
  PROVE  TaskNumbers(x)'
<1>0. /\ TypeOK /\ Control /\ SocketSees(x)
      /\ Found(x) /\ Listed(x) /\ Numbered(x)
  BY DEF TypeInv, SeesInv, TaskNumbers
<1>2. CASE status[x] # "open"
  <2>1. pc'[x] = "select" /\ status'[x] # "open"
    BY <1>0, <1>2 DEF Control, Waiting
  <2> QED BY <2>1 DEF TaskNumbers, Found, Listed, Numbered
<1>3. CASE status[x] = "open"
  <2>1. Found(x)' /\ Listed(x)'
    <3> SUFFICES ASSUME pc[x] \in {"list", "replay"}
                 PROVE  Found(x)' /\ Listed(x)'
      BY DEF Found, Listed, Waiting
    <3>1. PICK s : s = resuming[x].session
      OBVIOUS
    <3>2. s \in DOMAIN sessions /\ Bound(x) = s
      BY <1>0, <3>1 DEF Control, SocketSees, Binding, BelongsTo, Bound
    <3>3. sessions'[s].sequence = sessions[s].sequence /\ replay'[s] = replay[s]
      BY <1>3, <3>2
    <3>4. resuming'[x] = resuming[x] /\ batch'[x] = batch[x] /\ pc'[x] = pc[x]
      BY DEF Waiting
    <3>5. Found(x)'
      BY <1>0, <3>1, <3>3, <3>4 DEF Found
    <3>6. Listed(x)'
      BY <1>0, <3>1, <3>3, <3>4 DEF Listed, Top
    <3> QED BY <3>5, <3>6
  <2>2. Numbered(x)'
    <3> SUFFICES ASSUME bot[x] # NoBot PROVE Numbered(x)'
      BY DEF Numbered, Waiting
    <3>1. PICK s : s = session[x]
      OBVIOUS
    <3>2. s \in DOMAIN sessions /\ Bound(x) = s
      BY <1>0, <3>1 DEF Control, SocketSees, Binding, BelongsTo, Bound
    <3>3. /\ sessions'[s].sequence = sessions[s].sequence
          /\ replay'[s] = replay[s]
          /\ \A y \in Sockets, n \in Nat : Bound(y)' = s /\ Has(y, n, 0)' =>
               Bound(y) = s /\ Has(y, n, 0)
      BY <1>3, <3>2
    <3>4. /\ session'[x] = s /\ sequence'[x] = sequence[x]
          /\ pending'[x] = pending[x] /\ pc'[x] = pc[x]
      BY <3>1 DEF Waiting
    <3>5. /\ \A r \in replay[s] : /\ r.seq <= sequence[x]
                                  /\ pc[x] = "append" => r.seq < sequence[x]
          /\ \A y \in Sockets, n \in Nat : Bound(y) = s /\ Has(y, n, 0) =>
               n <= sequence[x] /\ (pc[x] = "append" => n < sequence[x])
          /\ pc[x] = "send" /\ pending[x] = 0 =>
               NoRow(s, sequence[x]) /\ AtMostNext(s, sequence[x])
          /\ pc[x] = "send" /\ pending[x] # 0 =>
               [seq |-> sequence[x], ev |-> pending[x]] \in replay[s]
      BY <1>0, <1>3, <3>1 DEF Numbered
    <3>6. /\ NoRow(s, sequence[x])' <=> NoRow(s, sequence[x])
          /\ AtMostNext(s, sequence[x])' <=> AtMostNext(s, sequence[x])
      BY <3>3, <3>4 DEF NoRow, AtMostNext, Top
    <3>7. pc'[x] = "send" /\ pending'[x] = 0 =>
            NoRow(session[x], sequence[x])' /\ AtMostNext(session[x], sequence[x])'
      BY <3>4, <3>5, <3>6 DEF NoRow, AtMostNext, Top
    <3> QED BY <3>3, <3>4, <3>5, <3>7 DEF Numbered
  <2> QED BY <2>1, <2>2 DEF TaskNumbers
<1> QED BY <1>2, <1>3

\* A step of another task is such a step, for an open connection's session is its
\* own, and an ended task relies on nothing.
LEMMA OthersNumbers ==
  ASSUME TypeInv, TypeOK', OrderInv, SeesInv, NumbersInv, NoOverlap,
         NEW k \in Sockets, NEW x \in Sockets, x # k,
         SocketTask(k) \/ LinkDrops(k) \/ Crash(k)
  PROVE  TaskNumbers(x)'
<1>1. TaskNumbers(x) /\ TypeOK
  BY DEF NumbersInv, TypeInv
<1>2. Waiting(x)
  BY <1>1, OthersStill DEF Still, Waiting
<1> QED BY <1>1, <1>2, OwnSession, NumbersKept

\* A page that is not full lists every row after the client's number.
LEMMA PageWhole ==
  ASSUME TypeOK, JournalFinite, NEW s \in Sessions, NEW c \in Nat,
         Cardinality({r \in replay[s] : r.seq > c}) <= ReplayLimit,
         NEW r \in replay[s], r.seq > c
  PROVE  r \in StoreListAfter(s, c)
<1> DEFINE A == {q \in replay[s] : q.seq > c}
           B == {q \in replay[s] : c < q.seq /\ q.seq < r.seq}
<1>0. \A q \in replay[s] : q.seq \in Nat
  BY DEF TypeOK, Row
<1>1. IsFiniteSet(replay[s]) /\ A \in SUBSET replay[s]
  BY DEF JournalFinite
<1>2. B \in SUBSET A /\ r \in A /\ r \notin B
  BY <1>0
<1> HIDE DEF A, B
<1>3. IsFiniteSet(A)
  BY <1>1, FS_Subset
<1>4. IsFiniteSet(B) /\ Cardinality(B) <= Cardinality(A) /\ Cardinality(B) # Cardinality(A)
  BY <1>2, <1>3, FS_Subset
<1>5. Cardinality(A) \in Nat /\ Cardinality(B) \in Nat
  BY <1>3, <1>4, FS_CardinalityType
<1>6. Cardinality(A) <= ReplayLimit /\ ReplayLimit \in Nat
  BY LimitsAssumption DEF A
<1>7. Cardinality(B) < ReplayLimit
  BY <1>4, <1>5, <1>6
<1> QED BY <1>7 DEF StoreListAfter, B

\* resume_bot lists the journal and continues after everything stored.
LEMMA ListsNumbers ==
  ASSUME TypeInv, SeesInv, NumbersInv, ResumesFit, NEW k \in Sockets, ResumeLists(k)
  PROVE  Listed(k)'
<1>0. /\ TypeOK /\ Control /\ SocketSees(k) /\ JournalFinite /\ Found(k)
      /\ pc[k] = "list" /\ status[k] = "open"
  BY DEF TypeInv, SeesInv, NumbersInv, TaskNumbers, ResumeLists, At
<1>1. PICK s, c, b : s = resuming[k].session /\ c = resuming[k].client
                     /\ b = resuming[k].base
  OBVIOUS
<1>2. /\ s \in Sessions /\ s \in DOMAIN sessions /\ c \in Nat /\ b \in Nat
      /\ c <= b /\ b = sessions[s].sequence
  BY <1>0, <1>1 DEF TypeOK, Resume, Control, SocketSees, Binding, BelongsTo, Found
<1>3. \A r \in replay[s] : r.seq \in Nat
  BY <1>0, <1>2 DEF TypeOK, Row
<1> DEFINE rows == StoreListAfter(s, c)
<1>4. rows \subseteq replay[s]
  BY DEF StoreListAfter
<1>5. \A r \in replay[s] : r.seq > c => r \in rows
  <2>1. Cardinality({r \in replay[s] : r.seq > c}) <= ReplayLimit
    BY <1>0, <1>1 DEF ResumesFit, At
  <2> QED BY <1>0, <1>2, <2>1, PageWhole
<1>6. PICK m \in {b} \cup {r.seq : r \in rows} :
        IsLast(m, b, rows) /\ resuming' = [resuming EXCEPT ![k].base = m]
  BY <1>1 DEF ResumeLists
<1>7. batch'[k] = rows /\ UNCHANGED <<sessions, replay>>
  BY <1>0, <1>1 DEF ResumeLists, TypeOK, table
<1>8. resuming'[k].session = s /\ resuming'[k].base = m
  BY <1>0, <1>1, <1>6 DEF TypeOK, Resume
<1> HIDE DEF rows
<1>9. m \in Nat /\ m >= b /\ \A r \in rows : m >= r.seq
  BY <1>2, <1>3, <1>4, <1>6 DEF IsLast
<1>10. Top(s, m)
  <2>1. ASSUME NEW r \in replay[s] PROVE r.seq <= m
    BY <1>2, <1>3, <1>5, <1>9
  <2> QED BY <1>2, <1>9, <2>1 DEF Top
<1>11. ASSUME NEW n \in Nat, Top(s, n) PROVE m <= n
  BY <1>2, <1>4, <1>6, <1>11 DEF Top
<1>12. /\ Top(s, m)'
       /\ \A n \in Nat : Top(s, n)' => m <= n
  BY <1>7, <1>10, <1>11 DEF Top
<1> QED BY <1>4, <1>7, <1>8, <1>12 DEF Listed, Top

\* A frame that may be delivered: a dispatch whose row is stored, or READY or
\* RESUMED under a number that no row has.
Sendable(s, n, e) ==
  /\ s \in DOMAIN sessions
  /\ e # 0 => [seq |-> n, ev |-> e] \in replay[s]
  /\ e = 0 => NoRow(s, n) /\ AtMostNext(s, n)

LEMMA DeliverFrames ==
  ASSUME TypeOK, NEW k \in Sockets, FramesHold(k), NEW n \in Nat, NEW e \in Nat,
         Deliver(k, n, e), Sendable(Bound(k), n, e),
         UNCHANGED <<sessions, replay, session, resuming>>
  PROVE  FramesHold(k)'
<1>1. PICK s : s = Bound(k) /\ Bound(k)' = s
  BY DEF Bound
<1>2. ASSUME NEW a \in Nat, NEW b \in Nat, Has(k, a, b)'
      PROVE  Sendable(s, a, b)
  <2>1. CASE Has(k, a, b)
    BY <1>1, <2>1 DEF FramesHold, Sendable
  <2>2. CASE a = n /\ b = e
    BY <1>1, <2>2
  <2> QED BY <1>2, <2>1, <2>2, DeliverHas
<1>3. ASSUME NEW a \in Nat, NEW b \in Nat, Sendable(s, a, b)
      PROVE  Sendable(s, a, b)'
  BY <1>3 DEF Sendable, NoRow, AtMostNext, Top
<1>4. ASSUME NEW a \in Nat, NEW b \in Nat, Has(k, a, b)'
      PROVE  Sendable(s, a, b)'
  BY <1>2, <1>3, <1>4
<1> QED BY <1>1, <1>4 DEF FramesHold, Sendable, NoRow, AtMostNext, Top

\* Every step of a task keeps what the tables say of its client's frames.
LEMMA OwnFrames ==
  ASSUME TypeInv, TypeOK', OrderInv, SeesInv, SequencesKept, NumbersInv,
         NEW k \in Sockets, SocketTask(k) \/ LinkDrops(k) \/ Crash(k)
  PROVE  FramesHold(k)'
<1>0. /\ TypeOK /\ Control /\ SocketSees(k) /\ JournalGranted
      /\ FramesHold(k) /\ Listed(k) /\ Numbered(k)
  BY DEF TypeInv, SeesInv, NumbersInv, TaskNumbers
<1>1. ASSUME recv' = recv PROVE FramesHold(k)'
  <2>1. \A n, e \in Nat : Has(k, n, e)' => Has(k, n, e)
    BY <1>1 DEF Has
  <2>2. recv'[k] # <<>> => Bound(k)' = Bound(k)
    BY TaskIsolated
  <2> QED BY <1>0, <2>1, <2>2, RowsStep, FramesKept
<1>2. CASE ReplayOne(k)
  <2>1. PICK r \in batch[k] : Deliver(k, r.seq, r.ev)
    BY <1>2 DEF ReplayOne
  <2>2. r.seq \in Nat /\ r.ev \in Nat /\ r = [seq |-> r.seq, ev |-> r.ev]
    BY <1>0 DEF TypeOK, Row
  <2>3. /\ pc[k] = "replay" /\ Bound(k) = resuming[k].session
        /\ resuming[k].session \in Sessions
    BY <1>0, <1>2 DEF ReplayOne, At, Control, Bound, TypeOK, Resume
  <2>4. r \in replay[Bound(k)]
    BY <1>0, <2>3 DEF Listed
  <2>5. Bound(k) \in DOMAIN sessions /\ r.ev # 0
    <3>1. GrantedIn(Bound(k), r.ev)
      BY <1>0, <2>3, <2>4 DEF JournalGranted
    <3>2. Len(hub) \in Nat
      BY <1>0 DEF TypeOK
    <3> QED BY <2>2, <3>1, <3>2 DEF GrantedIn
  <2>6. Sendable(Bound(k), r.seq, r.ev)
    BY <2>2, <2>4, <2>5 DEF Sendable
  <2>7. UNCHANGED <<sessions, replay, session, resuming>>
    BY <1>2 DEF ReplayOne, table
  <2> QED BY <1>0, <2>1, <2>2, <2>6, <2>7, DeliverFrames
<1>3. CASE SendDispatch(k)
  <2>1. /\ Deliver(k, sequence[k], pending[k])
        /\ sequence[k] \in Nat /\ pending[k] \in Nat
        /\ pc[k] = "send" /\ status[k] = "open" /\ bot[k] # NoBot
        /\ UNCHANGED <<sessions, replay, session, resuming>>
    BY <1>0, <1>3 DEF SendDispatch, At, Control, TypeOK, table
  <2>2. Bound(k) = session[k] /\ session[k] \in DOMAIN sessions
    BY <1>0, <2>1 DEF Control, Bound, SocketSees, Binding, BelongsTo
  <2>3. Sendable(Bound(k), sequence[k], pending[k])
    BY <1>0, <2>1, <2>2 DEF Sendable, Numbered
  <2> QED BY <1>0, <2>1, <2>3, DeliverFrames
<1>4. CASE ~ReplayOne(k) /\ ~SendDispatch(k)
  <2>1. recv' = recv
    BY <1>4
    DEF SocketTask, LinkDrops, Crash, Ends, Connect, SocketEnds, ClientFrame,
        IdentifyRefused, IdentifyFails, Identify, ResumeRefused, ResumeFindsSession,
        Receive, SkipLagged, TakeEvent, Proceed, Stores, Sends, ResumeLists,
        ResumeListFails,
        ResumeCompletes, AppendReplay, AppendFails, SendFails, UpdateSequence
  <2> QED BY <1>1, <2>1
<1> QED BY <1>2, <1>3, <1>4

\* A new session has no rows and no frames.
LEMMA IdentifyNumbers ==
  ASSUME TypeInv, TypeOK', OrderInv, SeesInv, NumbersInv, NEW k \in Sockets,
         NEW b, NEW i, NEW ok, NEW under, NEW s \in Sessions,
         Identify(k, b, i, ok, under, s)
  PROVE  TaskNumbers(k)'
<1>0. /\ TypeOK /\ Control /\ SocketOrder(k) /\ SocketSees(k) /\ JournalGranted
      /\ \A x \in Sockets : FramesHold(x)
  BY DEF TypeInv, OrderInv, SeesInv, NumbersInv
<1>1. /\ s \notin DOMAIN sessions /\ recv[k] = <<>> /\ sequence[k] \in Nat
      /\ pending'[k] = 0 /\ UNCHANGED <<replay, recv, resuming>>
  BY <1>0 DEF Identify, IdentifyAdmits, At, SocketOrder, SocketSees, Dispatching, TypeOK
<1>2. PICK n : n = sequence[k] + 1
  OBVIOUS
<1>3. /\ pc'[k] = "send" /\ session'[k] = s /\ sequence'[k] = n /\ n \in Nat
      /\ \A x \in Sockets : x # k => session'[x] = session[x]
  BY <1>0, <1>1, <1>2 DEF Identify, Goto, TypeOK
<1>4. replay'[s] = {}
  BY <1>0, <1>1 DEF JournalGranted, GrantedIn
<1>5. sessions'[s].sequence = n
  BY <1>2 DEF Identify, StoreCreate
<1>6. ASSUME NEW x \in Sockets, NEW a \in Nat, Bound(x)' = s, Has(x, a, 0)'
      PROVE FALSE
  <2>1. Has(x, a, 0)
    BY <1>1, <1>6 DEF Has
  <2>2. x # k
    BY <1>1, <2>1 DEF Has
  <2>3. Bound(x) = s
    BY <1>1, <1>3, <1>6, <2>2 DEF Bound
  <2>4. Bound(x) \in DOMAIN sessions
    BY <1>0, <2>1 DEF FramesHold
  <2> QED BY <1>1, <2>3, <2>4
<1>7. NoRow(session[k], sequence[k])' /\ AtMostNext(session[k], sequence[k])'
  BY <1>3, <1>4, <1>5 DEF NoRow, AtMostNext, Top
<1>8. Numbered(k)'
  BY <1>1, <1>3, <1>4, <1>6, <1>7 DEF Numbered
<1> QED BY <1>3, <1>8 DEF TaskNumbers, Found, Listed

\* RESUMED takes the number after everything stored: no row has it, and a frame
\* that has it is a RESUMED whose update was lost.
LEMMA CompletesNumbers ==
  ASSUME TypeInv, TypeOK', OrderInv, SeesInv, SequencesKept, NumbersInv,
         NEW k \in Sockets, NEW stored, ResumeCompletes(k, stored)
  PROVE  TaskNumbers(k)'
<1>0. /\ TypeOK /\ Control /\ SocketSees(k) /\ Listed(k)
      /\ \A x \in Sockets : FramesHold(x)
  BY DEF TypeInv, SeesInv, NumbersInv, TaskNumbers
<1>1. PICK s, m : s = resuming[k].session /\ m = resuming[k].base
  OBVIOUS
<1>2. /\ pc[k] = "replay" /\ status[k] = "open" /\ session[k] = NoSession
      /\ UNCHANGED <<replay, recv>> /\ Bound(k) = s
      /\ s \in Sessions /\ s \in DOMAIN sessions /\ m \in Nat
  BY <1>0, <1>1 DEF ResumeCompletes, At, Control, TypeOK, Resume, Bound, SocketSees,
                    Binding, BelongsTo
<1>3. /\ pc'[k] = "send" /\ session'[k] = s /\ sequence'[k] = m + 1
      /\ pending'[k] = 0
      /\ \A x \in Sockets : x # k =>
           session'[x] = session[x] /\ resuming'[x] = resuming[x]
  BY <1>0, <1>1, <1>2 DEF ResumeCompletes, Goto, TypeOK, SocketSees, Dispatching
<1>4. Top(s, m) /\ \A n \in Nat : Top(s, n) => m <= n
  BY <1>0, <1>1, <1>2 DEF Listed
<1>5. \A r \in replay[s] : r.seq <= m /\ r.seq \in Nat
  BY <1>0, <1>2, <1>4 DEF Top, TypeOK, Row
<1>6. ASSUME NEW x \in Sockets, NEW a \in Nat, Bound(x)' = s, Has(x, a, 0)'
      PROVE a <= m + 1
  <2>1. Has(x, a, 0)
    BY <1>2, <1>6 DEF Has
  <2>2. Bound(x) = s
    BY <1>2, <1>3, <1>6 DEF Bound
  <2>3. AtMostNext(s, a)
    BY <1>0, <2>1, <2>2 DEF FramesHold
  <2> QED BY <1>2, <1>4, <2>3 DEF AtMostNext
<1>7. RowsKept
  BY <1>2 DEF RowsKept
<1>8. ASSUME NEW n \in Nat, sessions'[s].sequence <= n, \A r \in replay'[s] : r.seq <= n
      PROVE m + 1 <= n + 1
  <2>1. Top(s, n)
    BY <1>0, <1>2, <1>7, <1>8, TopKept
  <2> QED BY <1>2, <1>4, <2>1
<1>9. NoRow(session[k], sequence[k])' /\ AtMostNext(session[k], sequence[k])'
  BY <1>2, <1>3, <1>5, <1>8 DEF NoRow, AtMostNext, Top
<1>10. Numbered(k)'
  BY <1>2, <1>3, <1>5, <1>6, <1>9 DEF Numbered
<1> QED BY <1>3, <1>10 DEF TaskNumbers, Found, Listed

\* The dispatch loop counts on: a new dispatch gets a number above every row and
\* every frame, and its row is stored before it is sent.
LEMMA LoopNumbers ==
  ASSUME TypeInv, TypeOK', SeesInv, NumbersInv, NEW k \in Sockets,
         \/ \E admitted \in BOOLEAN : TakeEvent(k, admitted)
         \/ AppendReplay(k) \/ SendDispatch(k)
         \/ \E stored \in BOOLEAN : UpdateSequence(k, stored)
  PROVE  TaskNumbers(k)'
<1>0. /\ TypeOK /\ Control /\ SocketSees(k) /\ TaskNumbers(k) /\ Numbered(k)
  BY DEF TypeInv, SeesInv, NumbersInv, TaskNumbers
<1>b. \A x \in Sockets : Bound(x)' = Bound(x)
  BY DEF Bound, TakeEvent, AppendReplay, SendDispatch, UpdateSequence
<1>1. ASSUME NEW admitted \in BOOLEAN, TakeEvent(k, admitted), pc' = pc
      PROVE TaskNumbers(k)'
  <2>1. /\ pc[k] = "select" /\ status[k] = "open" /\ UNCHANGED <<sessions, replay, recv>>
        /\ UNCHANGED <<status, bot, session, resuming, batch>>
    BY <1>1 DEF TakeEvent, At, table
  <2>2. UNCHANGED <<sequence, pending>>
    <3>1. Goto(k, "append") => pc'[k] = "append"
      BY <1>0 DEF Goto, TypeOK
    <3> QED BY <1>1, <2>1, <3>1 DEF TakeEvent
  <2>3. Waiting(k)
    BY <1>1, <2>1, <2>2 DEF Waiting
  <2>4. \A y \in Sockets, n \in Nat : Has(y, n, 0)' => Has(y, n, 0)
    BY <2>1 DEF Has
  <2> QED BY <1>0, <1>b, <2>1, <2>3, <2>4, NumbersKept
<1>2. CASE \/ (\E admitted \in BOOLEAN : TakeEvent(k, admitted)) /\ pc' # pc
           \/ AppendReplay(k) \/ SendDispatch(k)
           \/ \E stored \in BOOLEAN : UpdateSequence(k, stored)
  <2>1. /\ status[k] = "open" /\ bot[k] # NoBot /\ session[k] \in Sessions
        /\ pc'[k] \in {"append", "send", "update", "select"}
        /\ session'[k] = session[k] /\ sequence[k] \in Nat
    <3>1. CASE (\E admitted \in BOOLEAN : TakeEvent(k, admitted)) /\ pc' # pc
      BY <1>0, <3>1 DEF TakeEvent, At, Goto, Dispatches, TypeOK, Control
    <3>2. CASE AppendReplay(k)
      BY <1>0, <3>2 DEF AppendReplay, At, Goto, TypeOK, Control
    <3>3. CASE SendDispatch(k)
      BY <1>0, <3>3 DEF SendDispatch, At, Goto, TypeOK, Control
    <3>4. CASE \E stored \in BOOLEAN : UpdateSequence(k, stored)
      BY <1>0, <3>4 DEF UpdateSequence, At, Goto, TypeOK, Control
    <3> QED BY <1>2, <3>1, <3>2, <3>3, <3>4
  <2> SUFFICES Numbered(k)'
    BY <2>1 DEF TaskNumbers, Found, Listed
  <2>2. /\ \A r \in replay[session[k]] : /\ r.seq \in Nat /\ r.seq <= sequence[k]
                                         /\ pc[k] = "append" => r.seq < sequence[k]
        /\ \A x \in Sockets, n \in Nat :
             Bound(x) = session[k] /\ Has(x, n, 0) => n <= sequence[k]
    BY <1>0, <2>1, SMTT(60) DEF Numbered, TypeOK, Row
  <2>3. ASSUME NEW admitted \in BOOLEAN, TakeEvent(k, admitted), pc' # pc
        PROVE Numbered(k)'
    <3>1. /\ sequence'[k] = sequence[k] + 1 /\ pc'[k] = "append"
          /\ UNCHANGED <<replay, recv>>
      BY <1>0, <2>3 DEF TakeEvent, Goto, TypeOK, table
    <3>2. \A x \in Sockets, n \in Nat : Has(x, n, 0)' => Has(x, n, 0)
      BY <3>1 DEF Has
    <3> QED BY <1>b, <2>1, <2>2, <3>1, <3>2 DEF Numbered
  <2>4. CASE AppendReplay(k)
    <3>1. /\ sequence'[k] = sequence[k] /\ pending'[k] = pending[k]
          /\ pc[k] = "append" /\ pc'[k] = "send" /\ pending[k] # 0
          /\ UNCHANGED recv
      BY <1>0, <2>4 DEF AppendReplay, At, Goto, TypeOK, SocketSees, Dispatching
    <3>2. \A x \in Sockets, n \in Nat : Has(x, n, 0)' => Has(x, n, 0)
      BY <3>1 DEF Has
    <3> DEFINE row == [seq |-> sequence[k], ev |-> pending[k]]
    <3>3. row \in replay'[session[k]]
          /\ \A r \in replay'[session[k]] : r \in replay[session[k]] \/ r = row
      BY <1>0, <2>1, <2>4 DEF AppendReplay, StoreAppend, TypeOK
    <3>4. row.seq = sequence[k]
      OBVIOUS
    <3>5. \A r \in replay'[session[k]] : r.seq <= sequence[k]
      BY <2>1, <2>2, <3>3, <3>4
    <3> QED BY <1>b, <2>1, <2>2, <3>1, <3>2, <3>3, <3>5 DEF Numbered
  <2>5. CASE SendDispatch(k)
    <3>1. /\ sequence'[k] = sequence[k] /\ pc'[k] \in {"select", "update"}
          /\ Deliver(k, sequence[k], pending[k]) /\ pending[k] \in Nat
          /\ UNCHANGED replay
      BY <1>0, <2>5 DEF SendDispatch, Goto, TypeOK, table
    <3>2. ASSUME NEW x \in Sockets, NEW n \in Nat, Bound(x) = session[k], Has(x, n, 0)'
          PROVE n <= sequence[k]
      <4>1. CASE x = k
        BY <1>0, <2>1, <2>2, <3>1, <3>2, <4>1, DeliverHas
      <4>2. CASE x # k
        <5>1. recv'[x] = recv[x]
          BY <1>0, <3>1, <4>2 DEF Deliver, TypeOK
        <5>2. Has(x, n, 0)
          BY <3>2, <5>1 DEF Has
        <5> QED BY <2>2, <3>2, <5>2
      <4> QED BY <4>1, <4>2
    <3> QED BY <1>b, <2>1, <2>2, <3>1, <3>2 DEF Numbered
  <2>6. ASSUME NEW stored \in BOOLEAN, UpdateSequence(k, stored)
        PROVE Numbered(k)'
    <3>1. /\ sequence'[k] = sequence[k] /\ pc'[k] = "select"
          /\ UNCHANGED <<replay, recv>>
      BY <1>0, <2>6 DEF UpdateSequence, Goto, TypeOK
    <3>2. \A x \in Sockets, n \in Nat : Has(x, n, 0)' => Has(x, n, 0)
      BY <3>1 DEF Has
    <3> QED BY <1>b, <2>1, <2>2, <3>1, <3>2 DEF Numbered
  <2> QED BY <1>2, <2>3, <2>4, <2>5, <2>6
<1> QED BY <1>1, <1>2

\* Every step of a task keeps what it relies on.
LEMMA OwnNumbers ==
  ASSUME TypeInv, TypeOK', OrderInv, SeesInv, SequencesKept, NumbersInv, ResumesFit,
         NEW k \in Sockets, SocketTask(k) \/ LinkDrops(k) \/ Crash(k)
  PROVE  TaskNumbers(k)'
<1>0. /\ TypeOK /\ Control /\ SocketOrder(k)
      /\ TaskNumbers(k) /\ Found(k) /\ Listed(k) /\ Numbered(k)
  BY DEF TypeInv, OrderInv, NumbersInv, TaskNumbers
<1>e. Ends(k) => TaskNumbers(k)'
  <2>1. Ends(k) => status'[k] = "closed" /\ pc'[k] = "select"
    BY <1>0 DEF Ends, TypeOK
  <2> QED BY <2>1 DEF TaskNumbers, Found, Listed, Numbered
<1>f. pc'[k] = "select" /\ bot'[k] = NoBot => TaskNumbers(k)'
  BY DEF TaskNumbers, Found, Listed, Numbered
<1>1. CASE Connect(k) \/ ResumeListFails(k)
  <2>1. pc'[k] = "select" /\ bot'[k] = NoBot
    BY <1>0, <1>1 DEF Connect, ResumeListFails, At, Goto, Control, TypeOK
  <2> QED BY <1>f, <2>1
<1>2. CASE Crash(k) \/ SocketEnds(k) \/ AppendFails(k) \/ SendFails(k)
  BY <1>2, <1>e DEF Crash, SocketEnds, AppendFails, SendFails
<1>3. CASE LinkDrops(k) \/ SkipLagged(k)
  <2>1. Waiting(k) /\ UNCHANGED <<sessions, replay, recv, session, resuming>>
    BY <1>3 DEF LinkDrops, SkipLagged, Waiting, table
  <2>2. \A y \in Sockets, n \in Nat :
          Bound(y)' = Bound(y) /\ (Has(y, n, 0)' => Has(y, n, 0))
    BY <2>1 DEF Bound, Has
  <2> QED BY <1>0, <2>1, <2>2, NumbersKept
<1>4. ASSUME NEW b, NEW i, NEW ok, NEW under,
             \/ IdentifyRefused(k, b, i, ok, under)
             \/ IdentifyFails(k, b, i, ok, under)
             \/ \E s \in Sessions : Identify(k, b, i, ok, under, s)
      PROVE TaskNumbers(k)'
  <2>1. CASE IdentifyRefused(k, b, i, ok, under)
    BY <2>1, <1>e DEF IdentifyRefused
  <2>2. CASE IdentifyFails(k, b, i, ok, under)
    BY <2>2, <1>f DEF IdentifyFails, IdentifyAdmits, At
  <2> QED BY <1>4, <2>1, <2>2, IdentifyNumbers
<1>5. ASSUME NEW b, NEW s \in Sessions, NEW c \in 0..MaxSeq,
             ResumeRefused(k, b, s, c) \/ ResumeFindsSession(k, b, s, c)
      PROVE TaskNumbers(k)'
  <2>1. CASE ResumeRefused(k, b, s, c)
    BY <2>1, <1>e DEF ResumeRefused
  <2>2. CASE ResumeFindsSession(k, b, s, c)
    <3>1. /\ bot'[k] = NoBot /\ pc'[k] = "list" /\ UNCHANGED sessions
          /\ c <= sessions[s].sequence
      BY <1>0, <2>2 DEF ResumeFindsSession, StoreResumes, Goto, TypeOK, table
    <3>2. resuming'[k].session = s /\ resuming'[k].client = c
          /\ resuming'[k].base = sessions[s].sequence
      BY <1>0, <2>2 DEF ResumeFindsSession, TypeOK
    <3>3. Found(k)'
      BY <3>1, <3>2 DEF Found
    <3> QED BY <3>1, <3>3 DEF TaskNumbers, Listed, Numbered
  <2> QED BY <1>5, <2>1, <2>2
<1>6. CASE ResumeLists(k)
  <2>1. pc'[k] = "replay" /\ bot'[k] = NoBot
    BY <1>0, <1>6 DEF ResumeLists, At, Goto, Control, TypeOK
  <2>2. Listed(k)'
    BY <1>6, ListsNumbers
  <2> QED BY <2>1, <2>2 DEF TaskNumbers, Found, Numbered
<1>7. CASE ReplayOne(k)
  <2>1. /\ pc[k] = "replay" /\ pc'[k] = "replay" /\ bot'[k] = NoBot
        /\ UNCHANGED <<sessions, replay, resuming>> /\ batch'[k] \subseteq batch[k]
    BY <1>0, <1>7 DEF ReplayOne, At, Control, TypeOK, table
  <2>2. Listed(k)'
    BY <1>0, <2>1 DEF Listed, Top
  <2> QED BY <2>1, <2>2 DEF TaskNumbers, Found, Numbered
<1> QED
  BY <1>1, <1>2, <1>3, <1>4, <1>5, <1>6, <1>7, CompletesNumbers, LoopNumbers
  DEF SocketTask, ClientFrame, Receive, Proceed, Stores, Sends

\* Every step keeps NumbersInv, as long as the connections of a session do not
\* overlap and no RESUME fills its page.
LEMMA NextNumbers ==
  ASSUME TypeInv, TypeOK', OrderInv, SeesInv, NumbersInv, NoOverlap, ResumesFit,
         [Next]_vars
  PROVE  NumbersInv'
<1>0. /\ TypeOK /\ JournalFinite
      /\ \A k \in Sockets : FramesHold(k) /\ TaskNumbers(k)
  BY DEF TypeInv, NumbersInv
<1>k. SequencesKept
  BY <1>0, NextShared, SharedKeeps
<1>1. ASSUME UNCHANGED <<replay, task, recv>>,
             \A s \in DOMAIN sessions : sessions'[s].sequence = sessions[s].sequence
      PROVE NumbersInv'
  <2>1. \A x \in Sockets, n, e \in Nat :
          Bound(x)' = Bound(x) /\ (Has(x, n, e)' => Has(x, n, e))
    BY <1>1 DEF Bound, Has, task
  <2>2. RowsKept /\ RowsFresh /\ JournalFinite'
    BY <1>0, <1>1 DEF RowsKept, RowsFresh, JournalFinite
  <2>3. ASSUME NEW x \in Sockets PROVE FramesHold(x)' /\ TaskNumbers(x)'
    <3>1. Waiting(x)
      BY <1>1 DEF Waiting, task
    <3>2. FramesHold(x)'
      BY <1>0, <1>k, <2>1, <2>2, FramesKept
    <3>3. TaskNumbers(x)'
      BY <1>0, <1>1, <2>1, <3>1, NumbersKept
    <3> QED BY <3>2, <3>3
  <2> QED BY <2>2, <2>3 DEF NumbersInv
<1>2. CASE UNCHANGED vars
  BY <1>1, <1>2 DEF vars, table
<1>3. ASSUME NEW t \in Published, Publish(t) PROVE NumbersInv'
  BY <1>1, <1>3 DEF Publish, table
<1>4. ASSUME NEW s \in Sessions, Expire(s) PROVE NumbersInv'
  <2>1. \A x \in DOMAIN sessions : sessions'[x].sequence = sessions[x].sequence
    BY <1>0, <1>4 DEF Expire, TypeOK, Session
  <2> QED BY <1>1, <1>4, <2>1 DEF Expire
<1>5. ASSUME NEW k \in Sockets, SocketTask(k) \/ LinkDrops(k) \/ Crash(k)
      PROVE NumbersInv'
  <2>1. RowsKept /\ RowsFresh /\ JournalFinite'
    BY <1>5, RowsStep
  <2>2. FramesHold(k)' /\ TaskNumbers(k)'
    BY <1>5, <1>k, OwnFrames, OwnNumbers
  <2>3. ASSUME NEW x \in Sockets, x # k PROVE FramesHold(x)' /\ TaskNumbers(x)'
    <3>1. Still(x)
      BY <1>0, <1>5, <2>3, OthersStill
    <3>2. Bound(x)' = Bound(x) /\ \A n, e \in Nat : Has(x, n, e)' => Has(x, n, e)
      BY <3>1 DEF Still, Bound, Has
    <3>3. FramesHold(x)'
      BY <1>0, <1>k, <2>1, <3>2, FramesKept
    <3>4. TaskNumbers(x)'
      BY <1>5, <2>3, OthersNumbers
    <3> QED BY <3>3, <3>4
  <2> QED BY <2>1, <2>2, <2>3 DEF NumbersInv
<1> QED BY <1>2, <1>3, <1>4, <1>5 DEF Next, Environment

\* In every behaviour whose connections do not overlap on a session and whose
\* resumes fit in a page, the strengthened invariant holds throughout.
THEOREM NumbersInvariant == Spec => ([]NoOverlap /\ []ResumesFit => []NumbersInv)
<1>1. Init => NumbersInv
  <2> SUFFICES ASSUME Init PROVE NumbersInv
    OBVIOUS
  <2>1. JournalFinite
    BY FS_EmptySet DEF Init, JournalFinite
  <2>2. ASSUME NEW k \in Sockets PROVE FramesHold(k) /\ TaskNumbers(k)
    <3>1. recv[k] = <<>> /\ pc[k] = "select" /\ bot[k] = NoBot
      BY DEF Init
    <3>2. \A n, e \in Nat : ~Has(k, n, e)
      BY <3>1 DEF Has
    <3> QED BY <3>1, <3>2 DEF FramesHold, TaskNumbers, Found, Listed, Numbered
  <2> QED BY <2>1, <2>2 DEF NumbersInv
<1>2. /\ TypeInv /\ TypeInv' /\ OrderInv /\ SeesInv /\ NoOverlap /\ ResumesFit
      /\ NumbersInv /\ [Next]_vars
      => NumbersInv'
  BY NextNumbers DEF TypeInv
<1> QED
  BY <1>1, <1>2, TypeInvariant, OrderInvariant, SeesInvariant, PTL DEF Spec

\* A sequence number of a session names one dispatch for ever, across any number
\* of reconnects, lost updates and crashes, as long as the session's connections
\* do not overlap and no RESUME asks for more rows than a page holds.
THEOREM NumbersUnique == Spec => NumbersNeverReused
<1>1. TypeInv /\ OrderInv /\ NumbersInv => NumbersAgree
  <2> SUFFICES ASSUME TypeInv, OrderInv, NumbersInv,
                      NEW k1 \in Sockets, NEW k2 \in Sockets, Bound(k1) = Bound(k2),
                      NEW i \in 1..Len(recv[k1]), NEW j \in 1..Len(recv[k2]),
                      recv[k1][i].s = recv[k2][j].s
               PROVE  recv[k1][i].ev = recv[k2][j].ev
    BY DEF NumbersAgree
  <2>0. TypeOK /\ JournalKey /\ FramesHold(k1) /\ FramesHold(k2)
    BY DEF TypeInv, OrderInv, NumbersInv
  <2>1. recv[k1][i] \in Frame /\ recv[k2][j] \in Frame
    BY <2>0 DEF TypeOK
  <2>2. PICK n \in Nat, e1 \in Nat, e2 \in Nat :
          /\ recv[k1][i] = [s |-> n, ev |-> e1]
          /\ recv[k2][j] = [s |-> n, ev |-> e2]
    BY <2>1 DEF Frame
  <2>3. Has(k1, n, e1) /\ Has(k2, n, e2)
    BY <2>2 DEF Has
  <2>4. PICK s : s = Bound(k1) /\ s = Bound(k2)
    OBVIOUS
  <2>5. /\ s \in DOMAIN sessions /\ s \in Sessions
        /\ e1 # 0 => [seq |-> n, ev |-> e1] \in replay[s]
        /\ e1 = 0 => NoRow(s, n)
        /\ e2 # 0 => [seq |-> n, ev |-> e2] \in replay[s]
        /\ e2 = 0 => NoRow(s, n)
    BY <2>0, <2>3, <2>4 DEF FramesHold, TypeOK
  <2>6. e1 = e2
    <3>1. CASE e1 = 0 \/ e2 = 0
      BY <2>5, <3>1 DEF NoRow
    <3>2. CASE e1 # 0 /\ e2 # 0
      BY <2>0, <2>5, <3>2 DEF JournalKey, UniqueSeq
    <3> QED BY <3>1, <3>2
  <2> QED BY <2>2, <2>6
<1> QED
  BY <1>1, TypeInvariant, OrderInvariant, NumbersInvariant, PTL
  DEF NumbersNeverReused

(***************************************************************************)
(* The stream.  While a client can be reached, its task either still holds *)
(* a row the client lacks, or is about to send it.                         *)
(***************************************************************************)
Replayed(k) ==
  pc[k] = "replay" /\ link[k] =>
    /\ \A n, e \in Nat : Has(k, n, e) => resuming[k].client < n
    /\ \A r \in batch[k] : resuming[k].client < r.seq
    /\ \A r \in replay[resuming[k].session] :
         resuming[k].client < r.seq => r \in batch[k] \/ Has(k, r.seq, r.ev)

CaughtUp(k) ==
  status[k] = "open" /\ bot[k] # NoBot /\ link[k] =>
    \A r \in replay[session[k]] : \A n, e \in Nat :
      Has(k, n, e) /\ n < r.seq =>
        Has(k, r.seq, r.ev) \/ (pc[k] = "send" /\ r.seq = sequence[k])

Whole(k) ==
  \A r \in replay[Bound(k)] : \A a, d, b, e \in Nat :
    Has(k, a, d) /\ Has(k, b, e) /\ a < r.seq /\ r.seq < b => Has(k, r.seq, r.ev)

StreamInv == \A k \in Sockets : Replayed(k) /\ CaughtUp(k) /\ Whole(k)

\* A new row is numbered above every frame of its session.
RowsAbove ==
  \A s \in Sessions : \A r \in replay'[s] :
    \/ r \in replay[s]
    \/ \A x \in Sockets, n, e \in Nat : Bound(x) = s /\ Has(x, n, e) => n < r.seq

\* A sent frame is received while the link is up, and no frame is taken back.
LEMMA DeliverAdds ==
  ASSUME TypeOK, NEW k \in Sockets, NEW n \in Nat, NEW e \in Nat, Deliver(k, n, e)
  PROVE  /\ \A a, b \in Nat : Has(k, a, b) => Has(k, a, b)'
         /\ link[k] => Has(k, n, e)'
         /\ ~link[k] => recv'[k] = recv[k]
         /\ \A x \in Sockets : x # k => recv'[x] = recv[x]
<1>0. recv[k] \in Seq(Frame) /\ Len(recv[k]) \in Nat
  BY DEF TypeOK
<1>1. /\ ~link[k] => recv'[k] = recv[k]
      /\ \A x \in Sockets : x # k => recv'[x] = recv[x]
  BY DEF Deliver, TypeOK
<1>2. CASE ~link[k]
  BY <1>1, <1>2 DEF Has
<1>3. CASE link[k]
  <2> DEFINE f == [s |-> n, ev |-> e]
  <2>1. recv'[k] = Append(recv[k], f)
    BY <1>3 DEF Deliver, TypeOK
  <2>2. /\ Len(recv'[k]) = Len(recv[k]) + 1
        /\ recv'[k][Len(recv[k]) + 1] = f
        /\ \A i \in 1..Len(recv[k]) : recv'[k][i] = recv[k][i]
    BY <1>0, <2>1
  <2>3. Has(k, n, e)'
    <3>1. Len(recv[k]) + 1 \in 1..Len(recv'[k])
      BY <1>0, <2>2
    <3> QED BY <2>2, <3>1 DEF Has
  <2>4. \A a, b \in Nat : Has(k, a, b) => Has(k, a, b)'
    <3>1. \A i \in 1..Len(recv[k]) : i \in 1..Len(recv'[k]) /\ recv'[k][i] = recv[k][i]
      BY <1>0, <2>2
    <3> QED BY <3>1 DEF Has
  <2> QED BY <1>1, <1>3, <2>3, <2>4
<1> QED BY <1>2, <1>3

\* A dispatch is stored above everything the session's clients have.
LEMMA RowsStepAbove ==
  ASSUME TypeInv, NumbersInv, NEW k \in Sockets,
         SocketTask(k) \/ LinkDrops(k) \/ Crash(k)
  PROVE  RowsAbove
<1>0. TypeOK /\ Control /\ Numbered(k)
  BY DEF TypeInv, NumbersInv, TaskNumbers
<1>1. CASE ~AppendReplay(k)
  <2>1. UNCHANGED replay
    BY <1>1
    DEF SocketTask, LinkDrops, Crash, Ends, Connect, SocketEnds, ClientFrame,
        IdentifyRefused, IdentifyFails, Identify, ResumeRefused, ResumeFindsSession,
        Receive, SkipLagged, TakeEvent, Proceed, Stores, Sends, ResumeLists,
        ResumeListFails,
        ReplayOne, ResumeCompletes, AppendFails, SendDispatch, SendFails,
        UpdateSequence, table
  <2> QED BY <2>1 DEF RowsAbove
<1>2. CASE AppendReplay(k)
  <2> DEFINE row == [seq |-> sequence[k], ev |-> pending[k]]
  <2>1. /\ pc[k] = "append" /\ status[k] = "open" /\ bot[k] # NoBot
        /\ session[k] \in Sessions /\ sequence[k] \in Nat
    BY <1>0, <1>2 DEF AppendReplay, At, Control, TypeOK
  <2>2. /\ \A s \in Sessions : s # session[k] => replay'[s] = replay[s]
        /\ \A r \in replay'[session[k]] : r \in replay[session[k]] \/ r = row
    BY <1>0, <1>2, <2>1 DEF AppendReplay, StoreAppend, TypeOK
  <2>3. row.seq = sequence[k]
    OBVIOUS
  <2> HIDE DEF row
  <2>4. ASSUME NEW x \in Sockets, NEW n \in Nat, NEW e \in Nat, Bound(x) = session[k],
               Has(x, n, e)
        PROVE n < sequence[k]
    <3>1. CASE e = 0
      BY <1>0, <2>1, <2>4, <3>1 DEF Numbered
    <3>2. CASE e # 0
      <4>1. FramesHold(x)
        BY DEF NumbersInv
      <4>2. [seq |-> n, ev |-> e] \in replay[session[k]]
        BY <2>4, <3>2, <4>1 DEF FramesHold
      <4>3. \A r \in replay[session[k]] : r.seq < sequence[k]
        BY <1>0, <2>1 DEF Numbered
      <4>4. [seq |-> n, ev |-> e].seq < sequence[k]
        BY <4>2, <4>3
      <4> QED BY <4>4
    <3> QED BY <3>1, <3>2
  <2> QED BY <2>2, <2>3, <2>4 DEF RowsAbove
<1> QED BY <1>1, <1>2

\* A link never comes back.
LEMMA LinkKept ==
  ASSUME TypeOK, NEW k \in Sockets, SocketTask(k) \/ LinkDrops(k) \/ Crash(k),
         NEW x \in Sockets, link'[x]
  PROVE  link[x]
<1>1. CASE LinkDrops(k)
  BY <1>1 DEF LinkDrops, TypeOK
<1>2. CASE ~LinkDrops(k)
  <2>1. UNCHANGED link
    BY <1>2, SMTT(60)
    DEF SocketTask, Crash, Ends, Connect, SocketEnds, ClientFrame,
        IdentifyRefused, IdentifyFails, Identify, ResumeRefused, ResumeFindsSession,
        Receive, SkipLagged, TakeEvent, Proceed, Stores, Sends, ResumeLists,
        ResumeListFails,
        ReplayOne, ResumeCompletes, AppendReplay, AppendFails, SendDispatch, SendFails,
        UpdateSequence
  <2> QED BY <2>1
<1> QED BY <1>1, <1>2

\* What a client has stays whole while it receives nothing.
LEMMA WholeKept ==
  ASSUME TypeOK, TypeOK', NumbersInv, RowsAbove, NEW x \in Sockets, Whole(x),
         recv'[x] = recv[x], recv[x] # <<>> => Bound(x)' = Bound(x)
  PROVE  Whole(x)'
<1>h. \A n, e : Has(x, n, e)' <=> Has(x, n, e)
  BY DEF Has
<1>b. PICK s : s = Bound(x)'
  OBVIOUS
<1> SUFFICES ASSUME NEW r \in replay'[s], NEW a \in Nat, NEW d \in Nat, NEW b \in Nat, NEW e \in Nat,
                    Has(x, a, d), Has(x, b, e), a < r.seq, r.seq < b
             PROVE  Has(x, r.seq, r.ev)
  BY <1>b, <1>h DEF Whole
<1>1. recv[x] # <<>>
  <2>1. recv[x] \in Seq(Frame) /\ \E i \in 1..Len(recv[x]) : TRUE
    BY DEF Has, TypeOK
  <2> QED BY <2>1
<1>2. Bound(x) = s
  BY <1>1, <1>b
<1>3. FramesHold(x)
  BY DEF NumbersInv
<1>4. s \in Sessions
  BY <1>2, <1>3 DEF FramesHold, TypeOK
<1>5. r \in replay[s]
  <2> SUFFICES ASSUME r \notin replay[s] PROVE FALSE
    OBVIOUS
  <2>1. b < r.seq /\ a < r.seq
    BY <1>2, <1>4 DEF RowsAbove
  <2>2. r.seq \in Nat
    BY <1>4 DEF TypeOK, Row
  <2> QED BY <2>1, <2>2
<1> QED BY <1>2, <1>5 DEF Whole

\* A step that neither sends nor stores keeps what a task relies on.
LEMMA TaskWaits ==
  ASSUME TypeInv, NEW x \in Sockets, Replayed(x), CaughtUp(x), Waiting(x),
         recv'[x] = recv[x], link'[x] => link[x],
         status[x] = "open" /\ Bound(x) # NoSession => replay'[Bound(x)] = replay[Bound(x)]
  PROVE  Replayed(x)' /\ CaughtUp(x)'
<1>0. Control
  BY DEF TypeInv
<1>h. \A n, e : Has(x, n, e)' <=> Has(x, n, e)
  BY DEF Has
<1>1. Replayed(x)'
  <2> SUFFICES ASSUME pc[x] = "replay", link'[x] PROVE Replayed(x)'
    BY DEF Replayed, Waiting
  <2>1. PICK s : s = resuming[x].session
    OBVIOUS
  <2>2. replay'[s] = replay[s]
    BY <1>0, <2>1 DEF Control, Bound
  <2> QED BY <1>h, <2>1, <2>2 DEF Replayed, Waiting
<1>2. CaughtUp(x)'
  <2> SUFFICES ASSUME status[x] = "open", bot[x] # NoBot, link'[x] PROVE CaughtUp(x)'
    BY DEF CaughtUp, Waiting
  <2>1. PICK s : s = session[x]
    OBVIOUS
  <2>2. replay'[s] = replay[s]
    BY <1>0, <2>1 DEF Control, Bound
  <2> QED BY <1>h, <2>1, <2>2 DEF CaughtUp, Waiting
<1> QED BY <1>1, <1>2

\* The sockets whose task does not move.
LEMMA OthersStream ==
  ASSUME TypeInv, TypeOK', OrderInv, SeesInv, NumbersInv, NoOverlap, StreamInv,
         NEW k \in Sockets, NEW x \in Sockets, x # k,
         SocketTask(k) \/ LinkDrops(k) \/ Crash(k)
  PROVE  Replayed(x)' /\ CaughtUp(x)' /\ Whole(x)'
<1>0. TypeOK /\ Replayed(x) /\ CaughtUp(x) /\ Whole(x) /\ Control
  BY DEF TypeInv, StreamInv
<1>1. Still(x)
  BY <1>0, OthersStill
<1>2. Waiting(x) /\ recv'[x] = recv[x] /\ Bound(x)' = Bound(x) /\ (link'[x] => link[x])
  BY <1>0, <1>1, LinkKept DEF Still, Waiting, Bound
<1>3. Whole(x)'
  BY <1>0, <1>2, RowsStepAbove, WholeKept
<1>4. ASSUME status[x] = "open", Bound(x) # NoSession
      PROVE replay'[Bound(x)] = replay[Bound(x)]
  <2>1. PICK s : s = Bound(x)
    OBVIOUS
  <2>2. s \in DOMAIN sessions
    BY <1>0, <1>4, <2>1 DEF Control, Bound, SeesInv, SocketSees, Binding, BelongsTo
  <2>3. replay'[s] = replay[s]
    BY <1>4, <2>1, <2>2, OwnSession
  <2> QED BY <2>1, <2>3
<1> QED BY <1>0, <1>2, <1>3, <1>4, TaskWaits

\* What it takes for one more frame to leave no hole.
LEMMA WholeAdds ==
  ASSUME TypeInv, NEW k \in Sockets, Whole(k), UNCHANGED replay, Bound(k)' = Bound(k),
         NEW n \in Nat, NEW e \in Nat, Deliver(k, n, e),
         \A r \in replay[Bound(k)] : \A a, d \in Nat :
           link[k] /\ Has(k, a, d) /\ a < r.seq => r.seq >= n \/ Has(k, r.seq, r.ev),
         \A a, d \in Nat : Has(k, a, d) => a < n,
         \A r \in replay[Bound(k)] : r \in Row
  PROVE  Whole(k)'
<1>0. TypeOK
  BY DEF TypeInv
<1>1. CASE ~link[k]
  <2>1. \A a, b : Has(k, a, b)' <=> Has(k, a, b)
    BY <1>0, <1>1, DeliverAdds DEF Has
  <2> QED BY <2>1 DEF Whole
<1>2. CASE link[k]
  <2>b. PICK s : s = Bound(k) /\ s = Bound(k)' /\ replay'[s] = replay[s]
    OBVIOUS
  <2> SUFFICES ASSUME NEW r \in replay[s], NEW a \in Nat, NEW d \in Nat, NEW b \in Nat,
                      NEW f \in Nat, Has(k, a, d)', Has(k, b, f)', a < r.seq, r.seq < b
               PROVE  Has(k, r.seq, r.ev)'
    BY <2>b DEF Whole
  <2>0. r.seq \in Nat /\ r.ev \in Nat
    BY <2>b DEF Row
  <2>1. Has(k, a, d) \/ a = n
    BY <1>0, DeliverHas
  <2>2. Has(k, b, f) \/ b = n
    BY <1>0, DeliverHas
  <2>3. a < b
    BY <2>0
  <2>4. Has(k, a, d)
    BY <2>1, <2>2, <2>3
  <2>5. Has(k, r.seq, r.ev)
    <3>1. CASE b = n
      BY <1>2, <2>0, <2>4, <2>b, <3>1
    <3>2. CASE Has(k, b, f)
      BY <2>0, <2>4, <2>b, <3>2 DEF Whole
    <3> QED BY <2>2, <3>1, <3>2
  <2> QED BY <1>0, <2>0, <2>5, DeliverAdds
<1> QED BY <1>1, <1>2

\* The rows come in ascending order, so none is left behind.
LEMMA ReplayStream ==
  ASSUME TypeInv, TypeOK', OrderInv, SeesInv, NumbersInv, NEW k \in Sockets,
         Replayed(k), Whole(k), ReplayOne(k)
  PROVE  Replayed(k)' /\ CaughtUp(k)' /\ Whole(k)'
<1>0. TypeOK /\ Control /\ SocketOrder(k) /\ Listed(k) /\ SocketSees(k)
  BY DEF TypeInv, OrderInv, NumbersInv, TaskNumbers, SeesInv
<1>1. PICK r \in batch[k] : /\ \A q \in batch[k] : r.seq <= q.seq
                            /\ batch' = [batch EXCEPT ![k] = @ \ {r}]
                            /\ Deliver(k, r.seq, r.ev)
  BY DEF ReplayOne
<1>2. PICK s : s = resuming[k].session
  OBVIOUS
<1>3. /\ pc[k] = "replay" /\ pc'[k] = "replay" /\ bot'[k] = NoBot
      /\ UNCHANGED <<replay, resuming, link>> /\ Bound(k) = s /\ Bound(k)' = s
      /\ batch'[k] = batch[k] \ {r} /\ s \in Sessions /\ resuming[k].client \in Nat
  BY <1>0, <1>1, <1>2 DEF ReplayOne, At, Control, TypeOK, table, Bound, Resume, SocketSees,
                          Binding, BelongsTo
<1>4. /\ r \in Row /\ r.seq \in Nat /\ r.ev \in Nat
      /\ \A q \in replay[s] : q \in Row /\ q.seq \in Nat /\ q.ev \in Nat
      /\ batch[k] \subseteq replay[s]
  BY <1>0, <1>1, <1>2, <1>3 DEF TypeOK, Row, Listed
<1>5. \A a, d \in Nat : Has(k, a, d) => a < r.seq
  <2> SUFFICES ASSUME NEW a \in Nat, NEW d \in Nat, NEW i \in 1..Len(recv[k]),
                      recv[k][i] = [s |-> a, ev |-> d]
               PROVE  a < r.seq
    BY DEF Has
  <2>1. recv[k][i].s < r.seq
    BY <1>0, <1>3 DEF SocketOrder, Below
  <2>2. recv[k][i].s = a
    OBVIOUS
  <2> QED BY <2>1, <2>2
<1>6. Whole(k)'
  <2>1. ASSUME NEW q \in replay[s], NEW a \in Nat, NEW d \in Nat, link[k], Has(k, a, d),
               a < q.seq
        PROVE q.seq >= r.seq \/ Has(k, q.seq, q.ev)
    <3>1. resuming[k].client < q.seq
      BY <1>3, <1>4, <2>1 DEF Replayed
    <3>2. q \in batch[k] \/ Has(k, q.seq, q.ev)
      BY <1>2, <1>3, <2>1, <3>1 DEF Replayed
    <3> QED BY <1>1, <1>4, <3>2
  <2> QED BY <1>0, <1>1, <1>3, <1>4, <1>5, <2>1, WholeAdds
<1>7. Replayed(k)'
  <2> SUFFICES ASSUME link[k] PROVE Replayed(k)'
    BY <1>3 DEF Replayed
  <2>1. ASSUME NEW a \in Nat, NEW d \in Nat, Has(k, a, d)' PROVE resuming[k].client < a
    <3>1. Has(k, a, d) \/ a = r.seq
      BY <1>0, <1>1, <1>4, <2>1, DeliverHas
    <3> QED BY <1>1, <1>3, <3>1 DEF Replayed
  <2>2. ASSUME NEW q \in replay[s], resuming[k].client < q.seq
        PROVE q \in batch'[k] \/ Has(k, q.seq, q.ev)'
    <3>1. q \in batch[k] \/ Has(k, q.seq, q.ev)
      BY <1>2, <1>3, <2>2 DEF Replayed
    <3> QED BY <1>0, <1>1, <1>3, <1>4, <3>1, DeliverAdds
  <2> QED BY <1>2, <1>3, <2>1, <2>2 DEF Replayed
<1> QED BY <1>3, <1>6, <1>7 DEF CaughtUp

\* RESUME lists every row the client lacks.
LEMMA ListsStream ==
  ASSUME TypeInv, TypeOK', OrderInv, SeesInv, NumbersInv, ResumesFit, NEW k \in Sockets,
         ResumeLists(k)
  PROVE  Replayed(k)' /\ CaughtUp(k)'
<1>0. TypeOK /\ Control /\ SocketOrder(k) /\ JournalFinite /\ SocketSees(k)
  BY DEF TypeInv, OrderInv, NumbersInv, SeesInv
<1>1. PICK s, c : s = resuming[k].session /\ c = resuming[k].client
  OBVIOUS
<1>2. /\ At(k, "list") /\ pc'[k] = "replay" /\ bot'[k] = NoBot /\ recv'[k] = <<>>
      /\ batch'[k] = StoreListAfter(s, c) /\ UNCHANGED replay
      /\ s \in Sessions /\ c \in Nat
  BY <1>0, <1>1 DEF ResumeLists, At, Goto, Control, TypeOK, SocketOrder, table, Resume, SocketSees,
                    Binding, BelongsTo
<1>3. resuming'[k].session = s /\ resuming'[k].client = c
  <2>1. PICK m : resuming' = [resuming EXCEPT ![k].base = m]
    BY DEF ResumeLists
  <2> QED BY <1>0, <1>1, <2>1 DEF TypeOK, Resume
<1>4. Cardinality({r \in replay[s] : r.seq > c}) <= ReplayLimit
  BY <1>1, <1>2 DEF ResumesFit
<1>5. \A r \in replay[s] : c < r.seq => r \in StoreListAfter(s, c)
  <2> SUFFICES ASSUME NEW r \in replay[s], c < r.seq PROVE r \in StoreListAfter(s, c)
    OBVIOUS
  <2>1. r.seq > c
    BY <1>0, <1>2 DEF TypeOK, Row
  <2> QED BY <1>0, <1>2, <1>4, <2>1, PageWhole
<1>6. \A r \in StoreListAfter(s, c) : c < r.seq
  BY <1>0, <1>2 DEF StoreListAfter, TypeOK, Row
<1>7. \A n, e : ~Has(k, n, e)'
  BY <1>2 DEF Has
<1> QED BY <1>2, <1>3, <1>5, <1>6, <1>7 DEF Replayed, CaughtUp

\* With the last row sent, the client has every row after its own number.
LEMMA CompletesStream ==
  ASSUME TypeInv, TypeOK', SeesInv, NumbersInv, NEW k \in Sockets, Replayed(k),
         NEW stored, ResumeCompletes(k, stored)
  PROVE  Replayed(k)' /\ CaughtUp(k)'
<1>0. TypeOK /\ Control /\ SocketSees(k)
  BY DEF TypeInv, SeesInv
<1>1. PICK s, c : s = resuming[k].session /\ c = resuming[k].client
  OBVIOUS
<1>2. /\ pc[k] = "replay" /\ pc'[k] = "send" /\ session'[k] = s
      /\ UNCHANGED <<replay, recv, link>> /\ batch[k] = {}
      /\ s \in Sessions /\ c \in Nat
  BY <1>0, <1>1 DEF ResumeCompletes, At, Goto, Control, TypeOK, Resume, SocketSees,
                    Binding, BelongsTo
<1>3. \A n, e : Has(k, n, e)' <=> Has(k, n, e)
  BY <1>2 DEF Has
<1>4. ASSUME link[k], NEW r \in replay[s], NEW n \in Nat, NEW e \in Nat, Has(k, n, e),
             n < r.seq
      PROVE Has(k, r.seq, r.ev)
  <2>1. r.seq \in Nat
    BY <1>0, <1>2 DEF TypeOK, Row
  <2>2. c < r.seq
    <3>1. c < n
      BY <1>1, <1>2, <1>4 DEF Replayed
    <3> QED BY <1>2, <1>4, <2>1, <3>1
  <2> QED BY <1>1, <1>2, <1>4, <2>2 DEF Replayed
<1> QED BY <1>2, <1>3, <1>4 DEF Replayed, CaughtUp

\* A dispatch is stored and then sent before the next one is numbered.
LEMMA LoopStream ==
  ASSUME TypeInv, TypeOK', OrderInv, SeesInv, NumbersInv, NEW k \in Sockets,
         CaughtUp(k), Whole(k), AppendReplay(k) \/ SendDispatch(k)
  PROVE  Replayed(k)' /\ CaughtUp(k)' /\ Whole(k)'
<1>0. /\ TypeOK /\ Control /\ SocketOrder(k) /\ JournalKey /\ Numbered(k)
  BY DEF TypeInv, OrderInv, NumbersInv, TaskNumbers
<1>1. PICK s \in Sessions, n \in Nat, e \in Nat :
        s = session[k] /\ n = sequence[k] /\ e = pending[k]
  BY <1>0 DEF AppendReplay, SendDispatch, At, Control, TypeOK
<1>2. /\ status[k] = "open" /\ bot[k] # NoBot /\ Bound(k) = s /\ Bound(k)' = s
      /\ session'[k] = s /\ sequence'[k] = n /\ UNCHANGED link
  BY <1>0, <1>1 DEF AppendReplay, SendDispatch, At, Control, TypeOK, Bound
<1>3. CASE AppendReplay(k)
  <2> DEFINE row == [seq |-> n, ev |-> e]
  <2>1. /\ pc[k] = "append" /\ pc'[k] = "send" /\ UNCHANGED recv
        /\ \A r \in replay'[s] : r \in replay[s] \/ r = row
    BY <1>0, <1>1, <1>3 DEF AppendReplay, At, Goto, StoreAppend, TypeOK
  <2>2. row.seq = n
    OBVIOUS
  <2> HIDE DEF row
  <2>3. \A a, d : Has(k, a, d)' <=> Has(k, a, d)
    BY <2>1 DEF Has
  <2>4. CaughtUp(k)'
    BY <1>1, <1>2, <2>1, <2>2, <2>3 DEF CaughtUp
  <2>5. RowsAbove
    BY <1>3, RowsStepAbove DEF SocketTask, Proceed, Stores, Sends
  <2>6. Whole(k)'
    BY <1>0, <1>2, <2>1, <2>5, WholeKept
  <2> QED BY <2>1, <2>4, <2>6 DEF Replayed
<1>4. CASE SendDispatch(k)
  <2>1. /\ pc[k] = "send" /\ pc'[k] \in {"select", "update"} /\ UNCHANGED replay
        /\ Deliver(k, n, e)
    BY <1>0, <1>1, <1>4 DEF SendDispatch, At, Goto, TypeOK, table
  <2>2. \A r \in replay[s] : r \in Row /\ r.seq \in Nat /\ r.ev \in Nat /\ r.seq <= n
    BY <1>0, <1>1, <1>2 DEF TypeOK, Row, Numbered
  <2>3. \A a, d \in Nat : Has(k, a, d) => a < n
    <3> SUFFICES ASSUME NEW a \in Nat, NEW d \in Nat, NEW i \in 1..Len(recv[k]),
                        recv[k][i] = [s |-> a, ev |-> d]
                 PROVE  a < n
      BY DEF Has
    <3>1. recv[k][i].s < n
      BY <1>0, <1>1, <1>2, <2>1 DEF SocketOrder, Below
    <3>2. recv[k][i].s = a
      OBVIOUS
    <3> QED BY <3>1, <3>2
  <2>4. ASSUME NEW r \in replay[s], NEW a \in Nat, NEW d \in Nat, link[k], Has(k, a, d),
               a < r.seq
        PROVE Has(k, r.seq, r.ev) \/ r.seq = n
    BY <1>1, <1>2, <2>4 DEF CaughtUp
  <2>5. Whole(k)'
    <3>1. \A r \in replay[s] : \A a, d \in Nat :
            link[k] /\ Has(k, a, d) /\ a < r.seq => r.seq >= n \/ Has(k, r.seq, r.ev)
      BY <2>2, <2>4
    <3> QED BY <1>1, <1>2, <2>1, <2>2, <2>3, <3>1, WholeAdds
  <2>6. ASSUME NEW r \in replay[s], r.seq = n PROVE r = [seq |-> n, ev |-> e]
    <3>1. e # 0
      BY <1>0, <1>1, <1>2, <2>1, <2>6 DEF Numbered, NoRow
    <3>2. [seq |-> n, ev |-> e] \in replay[s]
      BY <1>0, <1>1, <1>2, <2>1, <3>1 DEF Numbered
    <3> QED BY <1>0, <2>6, <3>2 DEF JournalKey, UniqueSeq
  <2>7. ASSUME link[k], NEW r \in replay[s], NEW a \in Nat, NEW d \in Nat, Has(k, a, d)',
               a < r.seq
        PROVE Has(k, r.seq, r.ev)'
    <3>0. /\ \A b, f \in Nat : Has(k, b, f)' => Has(k, b, f) \/ (b = n /\ f = e)
          /\ \A b, f \in Nat : Has(k, b, f) => Has(k, b, f)'
          /\ Has(k, n, e)'
      BY <1>0, <2>1, <2>7, DeliverHas, DeliverAdds
    <3>1. Has(k, a, d)
      BY <2>2, <2>7, <3>0
    <3>2. CASE Has(k, r.seq, r.ev)
      BY <2>2, <3>0, <3>2
    <3>3. CASE r.seq = n
      <4>1. r.ev = e
        BY <2>6, <3>3
      <4> QED BY <3>0, <3>3, <4>1
    <3> QED BY <2>4, <2>7, <3>1, <3>2, <3>3
  <2>8. CaughtUp(k)'
    BY <1>2, <2>1, <2>7 DEF CaughtUp
  <2> QED BY <2>1, <2>5, <2>8 DEF Replayed
<1> QED BY <1>3, <1>4

\* Every step of a task keeps its stream.
LEMMA OwnStream ==
  ASSUME TypeInv, TypeOK', OrderInv, SeesInv, NumbersInv, ResumesFit, StreamInv,
         NEW k \in Sockets, SocketTask(k) \/ LinkDrops(k) \/ Crash(k)
  PROVE  Replayed(k)' /\ CaughtUp(k)' /\ Whole(k)'
<1>0. /\ TypeOK /\ Control /\ SocketOrder(k)
      /\ Replayed(k) /\ CaughtUp(k) /\ Whole(k)
  BY DEF TypeInv, OrderInv, StreamInv
<1>1. CASE ReplayOne(k) \/ AppendReplay(k) \/ SendDispatch(k)
  BY <1>0, <1>1, ReplayStream, LoopStream
<1>2. CASE ~(ReplayOne(k) \/ AppendReplay(k) \/ SendDispatch(k))
  <2>1. recv'[k] = recv[k]
    BY <1>2
    DEF SocketTask, LinkDrops, Crash, Ends, Connect, SocketEnds, ClientFrame,
        IdentifyRefused, IdentifyFails, Identify, ResumeRefused, ResumeFindsSession,
        Receive, SkipLagged, TakeEvent, Proceed, Stores, Sends, ResumeLists,
        ResumeListFails, ResumeCompletes, AppendFails, SendFails, UpdateSequence
  <2>2. Whole(k)'
    <3>1. RowsAbove
      BY RowsStepAbove
    <3>2. recv[k] # <<>> => Bound(k)' = Bound(k)
      BY <2>1, TaskIsolated
    <3> QED BY <1>0, <2>1, <3>1, <3>2, WholeKept
  <2> DEFINE Goal == Replayed(k)' /\ CaughtUp(k)'
  <2> SUFFICES Goal
    BY <2>2
  <2>h. \A n, e : Has(k, n, e)' <=> Has(k, n, e)
    BY <2>1 DEF Has
  <2>e. Ends(k) => Goal
    <3>1. Ends(k) => status'[k] = "closed" /\ pc'[k] = "select"
      BY <1>0 DEF Ends, TypeOK
    <3> QED BY <3>1 DEF Replayed, CaughtUp
  <2>f. pc'[k] # "replay" /\ recv'[k] = <<>> => Goal
    <3>1. recv'[k] = <<>> => \A n, e : ~Has(k, n, e)'
      BY DEF Has
    <3> QED BY <3>1 DEF Replayed, CaughtUp
  <2>3. CASE Crash(k) \/ SocketEnds(k) \/ AppendFails(k) \/ SendFails(k)
    BY <2>3, <2>e DEF Crash, SocketEnds, AppendFails, SendFails
  <2>4. CASE Connect(k) \/ ResumeListFails(k)
    <3>1. pc'[k] = "select" /\ recv'[k] = <<>>
      BY <1>0, <2>1, <2>4 DEF Connect, ResumeListFails, At, Goto, Control, SocketOrder, TypeOK
    <3> QED BY <2>f, <3>1
  <2>5. ASSUME NEW b, NEW i, NEW ok, NEW under,
               \/ IdentifyRefused(k, b, i, ok, under)
               \/ IdentifyFails(k, b, i, ok, under)
               \/ \E s \in Sessions : Identify(k, b, i, ok, under, s)
        PROVE Goal
    <3>1. CASE IdentifyRefused(k, b, i, ok, under)
      BY <3>1, <2>e DEF IdentifyRefused
    <3>2. CASE IdentifyFails(k, b, i, ok, under)
      <4>1. pc'[k] = "select" /\ recv'[k] = <<>>
        BY <1>0, <2>1, <3>2 DEF IdentifyFails, IdentifyAdmits, At, SocketOrder
      <4> QED BY <2>f, <4>1
    <3>3. ASSUME NEW s \in Sessions, Identify(k, b, i, ok, under, s) PROVE Goal
      <4>1. pc'[k] = "send" /\ recv'[k] = <<>>
        BY <1>0, <2>1, <3>3 DEF Identify, IdentifyAdmits, At, Goto, SocketOrder, TypeOK
      <4> QED BY <2>f, <4>1
    <3> QED BY <2>5, <3>1, <3>2, <3>3
  <2>6. ASSUME NEW b, NEW s \in Sessions, NEW c \in 0..MaxSeq,
               ResumeRefused(k, b, s, c) \/ ResumeFindsSession(k, b, s, c)
        PROVE Goal
    <3>1. CASE ResumeRefused(k, b, s, c)
      BY <3>1, <2>e DEF ResumeRefused
    <3>2. CASE ResumeFindsSession(k, b, s, c)
      <4>1. pc'[k] = "list" /\ recv'[k] = <<>>
        BY <1>0, <2>1, <3>2 DEF ResumeFindsSession, At, Goto, SocketOrder, TypeOK
      <4> QED BY <2>f, <4>1
    <3> QED BY <2>6, <3>1, <3>2
  <2>7. CASE LinkDrops(k) \/ SkipLagged(k)
    <3>1. Waiting(k) /\ UNCHANGED replay /\ (link'[k] => link[k])
      BY <1>0, <2>7, LinkKept DEF LinkDrops, SkipLagged, Waiting, table
    <3> QED BY <1>0, <2>1, <3>1, TaskWaits
  <2>8. ASSUME NEW x, TakeEvent(k, x) \/ UpdateSequence(k, x) PROVE Goal
    <3>1. /\ status'[k] = status[k] /\ bot'[k] = bot[k] /\ session'[k] = session[k]
          /\ UNCHANGED <<link, replay>>
          /\ pc[k] \in {"select", "update"} /\ pc'[k] \in {"select", "append"}
      BY <1>0, <2>8 DEF TakeEvent, UpdateSequence, At, Goto, TypeOK, table
    <3>2. PICK s : s = session[k]
      OBVIOUS
    <3> QED BY <1>0, <2>h, <3>1, <3>2 DEF Replayed, CaughtUp
  <2>9. ASSUME NEW stored, ResumeCompletes(k, stored) PROVE Goal
    BY <1>0, <2>9, CompletesStream
  <2>10. CASE ResumeLists(k)
    BY <2>10, ListsStream
  <2> HIDE DEF Goal
  <2> QED
    BY <1>2, <2>3, <2>4, <2>5, <2>6, <2>7, <2>8, <2>9, <2>10
    DEF SocketTask, ClientFrame, Receive, Proceed, Stores, Sends
<1> QED BY <1>1, <1>2

\* Every step of the server keeps every client's stream.
LEMMA NextStream ==
  ASSUME TypeInv, TypeOK', OrderInv, SeesInv, NumbersInv, NoOverlap, ResumesFit, StreamInv,
         [Next]_vars
  PROVE  StreamInv'
<1>1. ASSUME UNCHANGED <<replay, task, recv>> PROVE StreamInv'
  BY <1>1 DEF StreamInv, Replayed, CaughtUp, Whole, Has, Bound, task
<1>2. CASE UNCHANGED vars
  BY <1>1, <1>2 DEF vars, table
<1>3. ASSUME NEW t \in Published, Publish(t) PROVE StreamInv'
  BY <1>1, <1>3 DEF Publish, table
<1>4. ASSUME NEW s \in Sessions, Expire(s) PROVE StreamInv'
  BY <1>1, <1>4 DEF Expire
<1>5. ASSUME NEW k \in Sockets, SocketTask(k) \/ LinkDrops(k) \/ Crash(k)
      PROVE StreamInv'
  BY <1>5, OwnStream, OthersStream DEF StreamInv
<1> QED BY <1>2, <1>3, <1>4, <1>5 DEF Next, Environment

\* In every behaviour whose connections do not overlap and whose resumes fit in
\* a page, a reachable client lacks no row its task does not still hold.
THEOREM StreamInvariant == Spec => ([]NoOverlap /\ []ResumesFit => []StreamInv)
<1>1. Init => StreamInv
  <2> SUFFICES ASSUME Init, NEW k \in Sockets PROVE Replayed(k) /\ CaughtUp(k) /\ Whole(k)
    BY DEF StreamInv
  <2>1. recv[k] = <<>> /\ pc[k] = "select"
    BY DEF Init
  <2>2. \A n, e : ~Has(k, n, e)
    BY <2>1 DEF Has
  <2> QED BY <2>1, <2>2 DEF Replayed, CaughtUp, Whole
<1>2. /\ TypeInv /\ TypeInv' /\ OrderInv /\ SeesInv /\ NumbersInv /\ NoOverlap /\ ResumesFit
      /\ StreamInv /\ [Next]_vars
      => StreamInv'
  BY NextStream DEF TypeInv
<1> QED
  BY <1>1, <1>2, TypeInvariant, OrderInvariant, SeesInvariant, NumbersInvariant, PTL DEF Spec

\* A client that reconnects without overlap, not more than a page behind, gets
\* every stored dispatch it lacks before RESUMED, and no later frame leaves a
\* dispatch out, for any number of connections, crashes and lost updates.
THEOREM StreamsWhole == Spec => StreamIsWhole
<1>1. TypeInv /\ NumbersInv /\ StreamInv => ResumeReplaysAll
  <2> SUFFICES ASSUME TypeInv, StreamInv, NEW k \in Sockets, link[k], pc[k] = "replay",
                      batch[k] = {}, NEW r \in replay[resuming[k].session],
                      resuming[k].client < r.seq
               PROVE  \E i \in 1..Len(recv[k]) : recv[k][i].s = r.seq
    BY DEF ResumeReplaysAll
  <2>1. Has(k, r.seq, r.ev)
    BY DEF StreamInv, Replayed
  <2> QED BY <2>1 DEF Has
<1>2. TypeInv /\ NumbersInv /\ StreamInv => NoHole
  <2> SUFFICES ASSUME TypeInv, StreamInv, NEW k \in Sockets, NEW i \in 1..Len(recv[k]),
                      NEW j \in 1..Len(recv[k]), NEW r \in replay[Bound(k)],
                      recv[k][i].s < r.seq, r.seq < recv[k][j].s
               PROVE  Has(k, r.seq, r.ev)
    BY DEF NoHole, Has
  <2>1. recv[k][i] \in Frame /\ recv[k][j] \in Frame
    BY DEF TypeInv, TypeOK
  <2>2. PICK a \in Nat, d \in Nat : recv[k][i] = [s |-> a, ev |-> d]
    BY <2>1 DEF Frame
  <2>3. PICK b \in Nat, e \in Nat : recv[k][j] = [s |-> b, ev |-> e]
    BY <2>1 DEF Frame
  <2>4. Has(k, a, d) /\ Has(k, b, e)
    BY <2>2, <2>3 DEF Has
  <2>5. a < r.seq /\ r.seq < b
    BY <2>2, <2>3
  <2>6. Whole(k)
    BY DEF StreamInv
  <2> QED BY <2>4, <2>5, <2>6 DEF Whole
<1> QED
  BY <1>1, <1>2, TypeInvariant, NumbersInvariant, StreamInvariant, PTL DEF StreamIsWhole

(***************************************************************************)
(* The gateway implements SessionLog for clients that stay apart.          *)
(***************************************************************************)
LogStep == [Log!Next]_(Log!vars)

\* A step that leaves journals, frames and bindings is no step of the log.
LEMMA LogStutters ==
  ASSUME UNCHANGED <<replay, recv>>, \A x \in Sockets : Bound(x)' = Bound(x)
  PROVE  LogStep
<1>1. [k \in Sockets |-> Bound(k)]' = [k \in Sockets |-> Bound(k)]
  OBVIOUS
<1> QED BY <1>1 DEF LogStep, Log!vars

\* IDENTIFY, RESUME and a failed list change where a connection without frames
\* belongs.
LEMMA LogBinds ==
  ASSUME TypeOK', UNCHANGED <<replay, recv>>, NEW k \in Sockets, recv[k] = <<>>,
         \A x \in Sockets : x # k => Bound(x)' = Bound(x)
  PROVE  LogStep
<1>1. PICK s \in Sessions \cup {NoSession} : s = Bound(k)'
  <2>1. Bound(k)' \in Sessions \cup {NoSession}
    BY DEF Bound, TypeOK, Resume
  <2> QED BY <2>1
<1> DEFINE h == [x \in Sockets |-> Bound(x)]
<1>2. h' = [h EXCEPT ![k] = s]
  BY <1>1
<1>3. Log!Bind(k, s)
  BY <1>2 DEF Log!Bind
<1> QED BY <1>3 DEF LogStep, Log!Next

\* Storing a dispatch adds an entry at the end.
LEMMA LogGrows ==
  ASSUME TypeInv, NumbersInv, NEW k \in Sockets, AppendReplay(k)
  PROVE  LogStep
<1>0. TypeOK /\ Control /\ Numbered(k)
  BY DEF TypeInv, NumbersInv, TaskNumbers
<1>1. PICK s \in Sessions, n \in Nat, e \in Nat :
        s = session[k] /\ n = sequence[k] /\ e = pending[k]
  BY <1>0 DEF AppendReplay, At, Control, TypeOK
<1>2. /\ status[k] = "open" /\ pc[k] = "append" /\ bot[k] # NoBot
      /\ UNCHANGED <<recv, session, resuming>>
  BY <1>0 DEF AppendReplay, At, Control
<1> DEFINE row == [seq |-> n, ev |-> e]
<1>3. \A r \in replay[s] : r.seq < n /\ r.seq # n
  BY <1>0, <1>1, <1>2 DEF Numbered, TypeOK, Row
<1>4. replay' = [replay EXCEPT ![s] = @ \cup {row}]
  <2>1. replay' = [replay EXCEPT ![s] = {r \in @ : r.seq # n} \cup {row}]
    BY <1>1 DEF AppendReplay, StoreAppend
  <2>2. {r \in replay[s] : r.seq # n} = replay[s]
    BY <1>3
  <2> QED BY <2>1, <2>2
<1>5. row.seq = n /\ row \in replay'[s]
  BY <1>0, <1>4 DEF TypeOK
<1>6. ASSUME NEW x \in Sockets, Bound(x) = s, NEW i \in 1..Len(recv[x])
      PROVE recv[x][i].s < n
  <2>1. recv[x][i] \in Frame
    BY <1>0 DEF TypeOK
  <2>2. PICK a \in Nat, d \in Nat : recv[x][i] = [s |-> a, ev |-> d]
    BY <2>1 DEF Frame
  <2>3. Has(x, a, d) /\ recv[x][i].s = a
    BY <2>2 DEF Has
  <2>4. a < n
    <3>1. CASE d = 0
      BY <1>0, <1>1, <1>2, <1>6, <2>3, <3>1 DEF Numbered
    <3>2. CASE d # 0
      <4>1. FramesHold(x)
        BY DEF NumbersInv
      <4>2. [seq |-> a, ev |-> d] \in replay[s]
        BY <1>6, <2>3, <3>2, <4>1 DEF FramesHold
      <4>3. [seq |-> a, ev |-> d].seq < n
        BY <1>3, <4>2
      <4> QED BY <4>3
    <3> QED BY <3>1, <3>2
  <2> QED BY <2>3, <2>4
<1>7. \A x \in Sockets : Bound(x)' = Bound(x)
  BY <1>2 DEF Bound
<1> HIDE DEF row
<1>8. [x \in Sockets |-> Bound(x)]' = [x \in Sockets |-> Bound(x)]
  BY <1>7
<1>9. Log!Grow(s, row)
  BY <1>2, <1>3, <1>4, <1>5, <1>6, <1>8 DEF Log!Grow
<1> QED BY <1>5, <1>9 DEF LogStep, Log!Next

\* What makes a sent frame a step of the log.
LEMMA LogReceives ==
  ASSUME TypeInv, NEW k \in Sockets, NEW n \in Nat, NEW e \in Nat, Deliver(k, n, e),
         NEW s \in Sessions, Bound(k) = s, UNCHANGED replay,
         \A x \in Sockets : Bound(x)' = Bound(x),
         e = 0 => NoRow(s, n), e # 0 => [seq |-> n, ev |-> e] \in replay[s],
         Below(recv[k], n),
         \A r \in replay[s] : \A a, d \in Nat :
           link[k] /\ Has(k, a, d) /\ a < r.seq /\ r.seq < n => Has(k, r.seq, r.ev)
  PROVE  LogStep
<1>0. TypeOK
  BY DEF TypeInv
<1>1. CASE ~link[k]
  <2>1. UNCHANGED recv
    BY <1>0, <1>1 DEF Deliver, TypeOK
  <2> QED BY <2>1, LogStutters
<1>2. CASE link[k]
  <2> DEFINE f == [s |-> n, ev |-> e]
             h == [x \in Sockets |-> Bound(x)]
  <2>1. recv' = [recv EXCEPT ![k] = Append(@, f)]
    BY <1>2 DEF Deliver
  <2>2. /\ recv[k] \in Seq(Frame) /\ Len(recv[k]) \in Nat
        /\ recv'[k] = Append(recv[k], f)
    BY <1>0, <2>1 DEF TypeOK
  <2>3. /\ Len(recv'[k]) \in 1..Len(recv'[k])
        /\ recv'[k][Len(recv'[k])] = f
    BY <2>2
  <2>4. h' = h /\ h[k] = s
    OBVIOUS
  <2>5. f.s = n /\ f.ev = e
    OBVIOUS
  <2>6. Log!Genuine(s, f)
    BY <2>5 DEF Log!Genuine, NoRow
  <2>7. ASSUME NEW i \in 1..Len(recv[k]), NEW r \in replay[s],
               recv[k][i].s < r.seq, r.seq < n
        PROVE Has(k, r.seq, r.ev)
    <3>1. recv[k][i] \in Frame
      BY <2>2
    <3>2. PICK a \in Nat, d \in Nat : recv[k][i] = [s |-> a, ev |-> d]
      BY <3>1 DEF Frame
    <3>3. Has(k, a, d) /\ a < r.seq
      BY <2>7, <3>2 DEF Has
    <3> QED BY <1>2, <2>7, <3>3
  <2> HIDE DEF f
  <2>8. Log!Receive(k, f)
    BY <2>1, <2>4, <2>5, <2>6, <2>7 DEF Log!Receive, Below, Has
  <2> QED BY <2>3, <2>8 DEF LogStep, Log!Next
<1> QED BY <1>1, <1>2

\* Replayed rows are the entries after the client's number, in order.
LEMMA LogReplays ==
  ASSUME TypeInv, OrderInv, SeesInv, NumbersInv, StreamInv, NEW k \in Sockets,
         ReplayOne(k)
  PROVE  LogStep
<1>0. TypeOK /\ Control /\ SocketOrder(k) /\ Listed(k) /\ SocketSees(k) /\ Replayed(k)
  BY DEF TypeInv, OrderInv, NumbersInv, TaskNumbers, SeesInv, StreamInv
<1>1. PICK r \in batch[k] : /\ \A q \in batch[k] : r.seq <= q.seq
                            /\ Deliver(k, r.seq, r.ev)
  BY DEF ReplayOne
<1>2. PICK s : s = resuming[k].session
  OBVIOUS
<1>3. /\ pc[k] = "replay" /\ Bound(k) = s /\ s \in Sessions
      /\ UNCHANGED <<replay, resuming, session>> /\ resuming[k].client \in Nat
  BY <1>0, <1>2 DEF ReplayOne, At, Control, TypeOK, table, Bound, Resume, SocketSees,
                    Binding, BelongsTo
<1>4. \A x \in Sockets : Bound(x)' = Bound(x)
  BY <1>3 DEF Bound
<1>5. /\ r.seq \in Nat /\ r.ev \in Nat /\ r.ev # 0
      /\ \A q \in replay[s] : q.seq \in Nat
      /\ [seq |-> r.seq, ev |-> r.ev] \in replay[s]
  <2>1. r \in replay[s] /\ r \in Row
    BY <1>0, <1>2, <1>3 DEF TypeOK, Listed
  <2>2. r.ev # 0
    <3>1. GrantedIn(resuming[k].session, r.ev)
      BY <1>0, <1>3 DEF SocketSees, Replaying
    <3>2. r.ev \in 1..Len(hub)
      BY <3>1 DEF GrantedIn
    <3> QED BY <3>2
  <2>3. r = [seq |-> r.seq, ev |-> r.ev]
    BY <2>1 DEF Row
  <2> QED BY <1>0, <1>3, <2>1, <2>2, <2>3 DEF TypeOK, Row
<1>6. Below(recv[k], r.seq)
  BY <1>0, <1>3 DEF SocketOrder
<1>7. ASSUME NEW q \in replay[s], NEW a \in Nat, NEW d \in Nat, link[k], Has(k, a, d),
             a < q.seq, q.seq < r.seq
      PROVE Has(k, q.seq, q.ev)
  <2>1. resuming[k].client < q.seq
    <3>1. resuming[k].client < a
      BY <1>0, <1>3, <1>7 DEF Replayed
    <3> QED BY <1>3, <1>5, <1>7, <3>1
  <2>2. q \in batch[k] \/ Has(k, q.seq, q.ev)
    BY <1>0, <1>2, <1>3, <1>7, <2>1 DEF Replayed
  <2>3. q \notin batch[k]
    BY <1>1, <1>5, <1>7
  <2> QED BY <2>2, <2>3
<1> QED BY <1>1, <1>3, <1>4, <1>5, <1>6, <1>7, LogReceives

\* READY and RESUMED come under a free number, a dispatch after its entry.
LEMMA LogSends ==
  ASSUME TypeInv, OrderInv, NumbersInv, StreamInv, NEW k \in Sockets, SendDispatch(k)
  PROVE  LogStep
<1>0. TypeOK /\ Control /\ SocketOrder(k) /\ Numbered(k) /\ CaughtUp(k)
  BY DEF TypeInv, OrderInv, NumbersInv, TaskNumbers, StreamInv
<1>1. PICK s \in Sessions, n \in Nat, e \in Nat :
        s = session[k] /\ n = sequence[k] /\ e = pending[k]
  BY <1>0 DEF SendDispatch, At, Control, TypeOK
<1>2. /\ status[k] = "open" /\ pc[k] = "send" /\ bot[k] # NoBot /\ Bound(k) = s
      /\ UNCHANGED <<replay, resuming, session>> /\ Deliver(k, n, e)
  BY <1>0, <1>1 DEF SendDispatch, At, Control, Bound, table
<1>3. \A x \in Sockets : Bound(x)' = Bound(x)
  BY <1>2 DEF Bound
<1>4. /\ e = 0 => NoRow(s, n)
      /\ e # 0 => [seq |-> n, ev |-> e] \in replay[s]
  BY <1>0, <1>1, <1>2 DEF Numbered
<1>5. Below(recv[k], n)
  BY <1>0, <1>1, <1>2 DEF SocketOrder
<1>6. ASSUME NEW r \in replay[s], NEW a \in Nat, NEW d \in Nat, link[k], Has(k, a, d),
             a < r.seq, r.seq < n
      PROVE Has(k, r.seq, r.ev)
  <2>1. r.seq \in Nat
    BY <1>0 DEF TypeOK, Row
  <2>2. r.seq # n
    BY <1>6, <2>1
  <2> QED BY <1>0, <1>1, <1>2, <1>6, <2>2 DEF CaughtUp
<1> QED BY <1>1, <1>2, <1>3, <1>4, <1>5, <1>6, LogReceives

\* Every step of a task is a step of the log or none.
LEMMA TaskLog ==
  ASSUME TypeInv, TypeOK', OrderInv, SeesInv, NumbersInv, StreamInv,
         NEW k \in Sockets, SocketTask(k) \/ LinkDrops(k) \/ Crash(k)
  PROVE  LogStep
<1>0. TypeOK /\ Control /\ SocketOrder(k)
  BY DEF TypeInv, OrderInv
<1>1. CASE ReplayOne(k) \/ AppendReplay(k) \/ SendDispatch(k)
  BY <1>1, LogReplays, LogGrows, LogSends
<1>2. CASE ~(ReplayOne(k) \/ AppendReplay(k) \/ SendDispatch(k))
  <2>1. UNCHANGED <<replay, recv>>
    BY <1>2
    DEF SocketTask, LinkDrops, Crash, Ends, Connect, SocketEnds, ClientFrame,
        IdentifyRefused, IdentifyFails, Identify, ResumeRefused, ResumeFindsSession,
        Receive, SkipLagged, TakeEvent, Proceed, Stores, Sends, ResumeLists,
        ResumeListFails,
        ResumeCompletes, AppendFails, SendFails, UpdateSequence, table
  <2>2. \A x \in Sockets : x # k => Bound(x)' = Bound(x)
    BY <1>0, OthersStill DEF Still, Bound
  <2>3. recv[k] # <<>> => Bound(k)' = Bound(k)
    BY <2>1, TaskIsolated
  <2>4. CASE recv[k] = <<>>
    BY <2>1, <2>2, <2>4, LogBinds
  <2>5. CASE recv[k] # <<>>
    BY <2>1, <2>2, <2>3, <2>5, LogStutters
  <2> QED BY <2>4, <2>5
<1> QED BY <1>1, <1>2

\* So is every step of the server.
LEMMA NextLog ==
  ASSUME TypeInv, TypeOK', OrderInv, SeesInv, NumbersInv, StreamInv, [Next]_vars
  PROVE  LogStep
<1>1. ASSUME UNCHANGED <<replay, task, recv>> PROVE LogStep
  <2>1. \A x \in Sockets : Bound(x)' = Bound(x)
    BY <1>1 DEF Bound, task
  <2> QED BY <1>1, <2>1, LogStutters
<1>2. CASE UNCHANGED vars
  BY <1>1, <1>2 DEF vars, table
<1>3. ASSUME NEW t \in Published, Publish(t) PROVE LogStep
  BY <1>1, <1>3 DEF Publish, table
<1>4. ASSUME NEW s \in Sessions, Expire(s) PROVE LogStep
  BY <1>1, <1>4 DEF Expire
<1> QED BY <1>2, <1>3, <1>4, TaskLog DEF Next, Environment

(***************************************************************************)
(* Clients that stay apart: only what they send can end it.                *)
(***************************************************************************)

\* A step that opens no socket with a session, binds none to a session it was not
\* bound to, brings none to the list and leaves the rows to be listed alone keeps
\* the connections apart and the resumes within a page.
LEMMA StayApart ==
  ASSUME NoOverlap, ResumesFit,
         \A x \in Sockets :
           /\ Bound(x)' # NoSession =>
                Bound(x)' = Bound(x) /\ (status'[x] = "open" => status[x] = "open")
           /\ At(x, "list")' =>
                /\ At(x, "list")
                /\ resuming'[x] = resuming[x]
                /\ replay'[resuming[x].session] = replay[resuming[x].session]
  PROVE  NoOverlap' /\ ResumesFit'
<1>1. NoOverlap'
  BY DEF NoOverlap
<1>2. ResumesFit'
  BY DEF ResumesFit
<1> QED BY <1>1, <1>2

\* The steps of a task that are not a frame of its client.
LEMMA TaskApart ==
  ASSUME TypeInv, NoOverlap, ResumesFit, NEW k \in Sockets,
         Connect(k) \/ SocketEnds(k) \/ Receive(k) \/ Proceed(k) \/ Crash(k)
  PROVE  NoOverlap' /\ ResumesFit'
<1> DEFINE Same(x) == /\ Bound(x)' # NoSession =>
                           /\ Bound(x)' = Bound(x)
                           /\ status'[x] = "open" => status[x] = "open"
                      /\ At(x, "list")' =>
                           /\ At(x, "list")
                           /\ resuming'[x] = resuming[x]
                           /\ replay'[resuming[x].session] = replay[resuming[x].session]
<1>1. SUFFICES ASSUME NEW x \in Sockets PROVE Same(x)
  BY StayApart
<1> USE DEF At, Bound
<1>2. CASE Connect(k)
  BY <1>2 DEF Connect, table, TypeInv, TypeOK, Control
<1>3. CASE Ends(k)
  BY <1>3 DEF Ends, table, TypeInv, TypeOK
<1>4. CASE SkipLagged(k)
  BY <1>4 DEF SkipLagged, table
<1>5. ASSUME NEW admitted \in BOOLEAN, TakeEvent(k, admitted) PROVE Same(x)
  BY <1>5 DEF TakeEvent, Goto, table, TypeInv, TypeOK
<1>6. CASE ResumeLists(k)
  <2>1. Bound(x)' = Bound(x)
    BY <1>6 DEF ResumeLists, TypeInv, TypeOK
  <2>2. At(x, "list")' => x # k
    BY <1>6 DEF ResumeLists, Goto, TypeInv, TypeOK
  <2> QED BY <1>6, <2>1, <2>2 DEF ResumeLists, Goto, table, TypeInv, TypeOK
<1>7. CASE ResumeListFails(k)
  BY <1>7 DEF ResumeListFails, Goto, table, NotResuming, TypeInv, TypeOK
<1>8. CASE ReplayOne(k)
  BY <1>8 DEF ReplayOne, table
<1>9. ASSUME NEW stored \in BOOLEAN, ResumeCompletes(k, stored) PROVE Same(x)
  BY <1>9 DEF ResumeCompletes, Goto, NotResuming, TypeInv, TypeOK, Control
<1>10. CASE AppendReplay(k)
  <2>1. At(x, "list")' => At(x, "list") /\ x # k
    BY <1>10 DEF AppendReplay, Goto, TypeInv, TypeOK
  <2>2. At(x, "list") /\ x # k => resuming[x].session # session[k]
    BY <1>10 DEF AppendReplay, NoOverlap, TypeInv, Control
  <2>3. resuming[x].session # session[k]
          => replay'[resuming[x].session] = replay[resuming[x].session]
    BY <1>10 DEF AppendReplay, StoreAppend, TypeInv, TypeOK
  <2> QED BY <1>10, <2>1, <2>2, <2>3 DEF AppendReplay
<1>11. CASE SendDispatch(k)
  BY <1>11 DEF SendDispatch, Goto, table, TypeInv, TypeOK
<1>12. ASSUME NEW stored \in BOOLEAN, UpdateSequence(k, stored) PROVE Same(x)
  BY <1>12 DEF UpdateSequence, Goto, TypeInv, TypeOK
<1> QED
  BY <1>2, <1>3, <1>4, <1>5, <1>6, <1>7, <1>8, <1>9, <1>10, <1>11, <1>12
  DEF SocketEnds, Receive, Proceed, Stores, Sends, AppendFails, SendFails, Crash

\* Every step of ApartSpec keeps both conditions.
LEMMA NextApart ==
  ASSUME TypeInv, NoOverlap, ResumesFit, [ApartNext]_vars
  PROVE  NoOverlap' /\ ResumesFit'
<1>1. CASE UNCHANGED vars
  BY <1>1 DEF vars, task, table, NoOverlap, ResumesFit, Bound, At
<1>2. ASSUME NEW k \in Sockets, LinkDrops(k) PROVE NoOverlap' /\ ResumesFit'
  BY <1>2, StayApart DEF LinkDrops, table, Bound, At
<1>3. ASSUME NEW t \in Published, Publish(t) PROVE NoOverlap' /\ ResumesFit'
  BY <1>3, StayApart DEF Publish, table, task, Bound, At
<1>4. ASSUME NEW s \in Sessions, Expire(s) PROVE NoOverlap' /\ ResumesFit'
  BY <1>4, StayApart DEF Expire, task, Bound, At
<1> QED BY <1>1, <1>2, <1>3, <1>4, TaskApart DEF ApartNext, Environment

\* For clients that stay apart and at most a page behind, every session is a log
\* that its connections read in order and without holes: any number of sockets
\* that number, store, send, crash and resume implement SessionLog.
THEOREM RefinesLog == ApartSpec => LogSpec
<1>1. Init => NoOverlap /\ ResumesFit
  <2> SUFFICES ASSUME Init PROVE NoOverlap /\ ResumesFit
    OBVIOUS
  <2>1. \A k \in Sockets : status[k] = "new"
    BY DEF Init
  <2> QED BY <2>1 DEF NoOverlap, ResumesFit, At
<1>2. TypeInv /\ NoOverlap /\ ResumesFit /\ [ApartNext]_vars => NoOverlap' /\ ResumesFit'
  BY NextApart
<1>3. ApartSpec => Spec /\ []NoOverlap /\ []ResumesFit
  <2>1. [ApartNext]_vars => [Next]_vars
    BY DEF ApartNext, Next, SocketTask
  <2>2. ApartSpec => Spec
    BY <2>1, PTL DEF ApartSpec, Spec
  <2> QED BY <1>1, <1>2, <2>2, TypeInvariant, PTL DEF ApartSpec
<1>4. Init => Log!Init
  <2> SUFFICES ASSUME Init PROVE Log!Init
    OBVIOUS
  <2>1. \A k \in Sockets : Bound(k) = NoSession
    BY DEF Init, Bound, NotResuming
  <2> QED BY <2>1 DEF Init, Log!Init
<1>5. /\ TypeInv /\ TypeInv' /\ OrderInv /\ SeesInv /\ NumbersInv /\ StreamInv
      /\ [Next]_vars
      => LogStep
  BY NextLog DEF TypeInv
<1> QED
  BY <1>3, <1>4, <1>5, TypeInvariant, OrderInvariant, SeesInvariant, NumbersInvariant,
     StreamInvariant, PTL
  DEF Spec, LogSpec, Log!Spec, LogStep
=============================================================================
