------------------------- MODULE MCMeetingReminders -------------------------
(***************************************************************************)
(* An instance of MeetingReminders for TLC.                                *)
(***************************************************************************)
EXTENDS MeetingReminders

CONSTANT m1
MCOneMeeting == [r \in Reminders |-> m1]
=============================================================================
