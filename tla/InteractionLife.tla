--------------------------- MODULE InteractionLife ---------------------------
(***************************************************************************)
(* What the command routes promise about one interaction, without requests *)
(* and tables: it is answered at most once, with a message that answers no *)
(* other interaction, after it was at most deferred; the answer is never   *)
(* replaced.  Only the retention purge of messages takes an answer away,   *)
(* or the interaction itself when the message it came from is purged.      *)
(***************************************************************************)
CONSTANTS Interactions, Messages, NoMessage

VARIABLES
  status,     \* command_interactions.status, "none" before and "gone" after the row
  response    \* command_interactions.response_message_id

vars == <<status, response>>

Init ==
  /\ status = [i \in Interactions |-> "none"]
  /\ response = [i \in Interactions |-> NoMessage]

Create(i) ==
  /\ status[i] = "none"
  /\ status' = [status EXCEPT ![i] = "pending"]
  /\ UNCHANGED response

Defer(i) ==
  /\ status[i] = "pending"
  /\ status' = [status EXCEPT ![i] = "deferred"]
  /\ UNCHANGED response

Respond(i, m) ==
  /\ status[i] \in {"pending", "deferred"}
  /\ \A j \in Interactions : response[j] # m
  /\ status' = [status EXCEPT ![i] = "responded"]
  /\ response' = [response EXCEPT ![i] = m]

Purge(S, lost) ==
  /\ status' = [i \in Interactions |-> IF i \in lost THEN "gone" ELSE status[i]]
  /\ response' = [i \in Interactions |->
                    IF i \in lost \/ response[i] \in S THEN NoMessage ELSE response[i]]

Next ==
  \/ \E i \in Interactions : Create(i) \/ Defer(i)
  \/ \E i \in Interactions, m \in Messages : Respond(i, m)
  \/ \E S \in SUBSET Messages, lost \in SUBSET Interactions : Purge(S, lost)

Spec == Init /\ [][Next]_vars
=============================================================================
