----------------------------- MODULE SessionLog -----------------------------
(***************************************************************************)
(* What the gateway promises the connections of a session, without sockets *)
(* tasks, tables and failures: a session is a numbered log that only grows *)
(* at its end, and each connection receives its entries in order, none of  *)
(* them left out between two frames, with READY and RESUMED as frames of   *)
(* their own under numbers that no entry has or will have.                 *)
(***************************************************************************)
EXTENDS Integers, Sequences

CONSTANTS
  Clients,    \* connections
  Logs,       \* sessions
  Nowhere     \* the home of a connection that has no session

VARIABLES
  log,        \* the entries of each session
  home,       \* the session of each connection
  inbox       \* the frames each connection has received

vars == <<log, home, inbox>>

Init ==
  /\ log = [s \in Logs |-> {}]
  /\ home = [c \in Clients |-> Nowhere]
  /\ inbox = [c \in Clients |-> <<>>]

\* A connection finds its session before it receives anything.
Bind(c, s) ==
  /\ inbox[c] = <<>>
  /\ home' = [home EXCEPT ![c] = s]
  /\ UNCHANGED <<log, inbox>>

\* An entry is numbered above all others and above every frame of the session.
Grow(s, entry) ==
  /\ \A r \in log[s] : r.seq < entry.seq
  /\ \A c \in Clients : home[c] = s =>
       \A i \in 1..Len(inbox[c]) : inbox[c][i].s < entry.seq
  /\ log' = [log EXCEPT ![s] = @ \cup {entry}]
  /\ UNCHANGED <<home, inbox>>

\* READY and RESUMED, with ev = 0, are not entries; every other frame is one.
Genuine(s, frame) ==
  IF frame.ev = 0
  THEN \A r \in log[s] : r.seq # frame.s
  ELSE [seq |-> frame.s, ev |-> frame.ev] \in log[s]

\* A frame comes after all the others, and leaves out no entry since the first.
Receive(c, frame) ==
  /\ home[c] \in Logs
  /\ Genuine(home[c], frame)
  /\ \A i \in 1..Len(inbox[c]) :
       /\ inbox[c][i].s < frame.s
       /\ \A r \in log[home[c]] : inbox[c][i].s < r.seq /\ r.seq < frame.s =>
            \E j \in 1..Len(inbox[c]) : inbox[c][j] = [s |-> r.seq, ev |-> r.ev]
  /\ inbox' = [inbox EXCEPT ![c] = Append(@, frame)]
  /\ UNCHANGED <<log, home>>

Next ==
  \/ \E c \in Clients, s \in Logs \cup {Nowhere} : Bind(c, s)
  \/ \E s \in Logs : \E entry \in log'[s] : Grow(s, entry)
  \/ \E c \in Clients :
       \E i \in 1..Len(inbox'[c]) : i = Len(inbox'[c]) /\ Receive(c, inbox'[c][i])

Spec == Init /\ [][Next]_vars
=============================================================================
