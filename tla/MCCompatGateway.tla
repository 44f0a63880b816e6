-------------------------- MODULE MCCompatGateway --------------------------
(***************************************************************************)
(* Instances of CompatGateway for TLC.                                     *)
(***************************************************************************)
EXTENDS CompatGateway, TLC

MCOffers == {{"GUILD_MESSAGES"}, {"GUILDS", "MESSAGE_CONTENT"}}
MCPublished == {"message.created"}
MCMixed == {"message.created", "space.updated"}
MCSymmetry ==
  Permutations(Sockets) \cup Permutations(Sessions) \cup Permutations(Bots)
=============================================================================
