----------------------------- MODULE SideServices -----------------------------
(***************************************************************************)
(* The services beside the chat itself, together: accounts, calendars,     *)
(* limits and media.  No action of one reads or writes a variable of       *)
(* another, so the server is the conjunction of the four.                  *)
(***************************************************************************)
EXTENDS Accounts, Calendars, RateLimits, Media

SideSpec == Spec /\ CalendarSpec /\ LimitSpec /\ MediaSpec

\* One type per table, per limiter and per running request: what is written is
\* stored in its normal form, or refused.
TypesOK == TypeOK /\ CalendarTypeOK /\ LimitTypeOK /\ MediaTypeOK
=============================================================================
