-------------------------- MODULE MCAccessControl --------------------------
(***************************************************************************)
(* Instances of AccessControl for TLC: an owner, a member and a newcomer,  *)
(* one channel and one role already there, one of each still to be made.   *)
(***************************************************************************)
EXTENDS AccessControl, TLC

CONSTANTS owner, mia, c1, c2, r1, n1, n2, kim

MCStartMember ==
  [u \in Users |-> [level |-> IF u = Owner THEN "owner"
                              ELSE IF u = mia THEN "member" ELSE "none",
                    active |-> u \in {Owner, mia}]]
MCStartRole ==
  [r \in RoleIds |-> IF r = r1 THEN [made |-> TRUE, grants |-> {"MANAGE_CHANNELS"}]
                     ELSE [made |-> FALSE, grants |-> {}]]
MCStartChannel ==
  [c \in Channels |-> IF c = c1
                      THEN [state |-> "live", name |-> n1, privacy |-> "public"]
                      ELSE [state |-> "absent", name |-> NoName, privacy |-> "public"]]
MCSocketUser == [s \in Sockets |-> mia]
MCSocketOwner == [s \in Sockets |-> Owner]

Ask(op, user) == [NoRequest EXCEPT !.op = op, !.user = user]
On(c, q) == [q EXCEPT !.channel = c]
For(t, q) == [q EXCEPT !.target = t]

\* Requests on membership and roles.
Staff(u) ==
  {For(mia, [Ask("addMember", u) EXCEPT !.level = "guest"]),
   For(Owner, Ask("addMember", u)),
   For(mia, Ask("removeMember", u)), For(Owner, Ask("removeMember", u)),
   For(mia, [Ask("assignRole", u) EXCEPT !.role = r1])}

\* Requests on the channel.
Rooms(u) == {[On(c1, Ask("updateChannel", u)) EXCEPT !.privacy = "private"],
             On(c1, Ask("deleteChannel", u))}

Overrides(u) ==
  {For(mia, [On(c1, Ask("setOverride", u)) EXCEPT
               !.deny = {"MANAGE_CHANNELS", "SEND_MESSAGES"}, !.allow = {"VIEW_CHANNEL"}]),
   For(r1, [On(c1, Ask("setOverride", u)) EXCEPT !.deny = {"VIEW_CHANNEL"},
                                                 !.allow = {"MANAGE_CHANNELS"}]),
   For(Owner, [On(c1, Ask("setOverride", u)) EXCEPT !.deny = {"MANAGE_CHANNELS"}])}

Rest ==
  {[Ask("createRole", Owner) EXCEPT !.role = CHOOSE r \in RoleIds : r # r1],
   [On(c2, Ask("createChannel", Owner)) EXCEPT !.name = n2],
   [Ask("updateSpace", Owner) EXCEPT !.name = n2],
   [On(c1, Ask("updateChannel", Owner)) EXCEPT !.name = n2],
   Ask("deleteSpace", Owner),
   For(kim, [Ask("assignRole", Owner) EXCEPT !.role = r1]),
   On(c1, Ask("typing", mia))}

MCMenuDelete == {On(c1, Ask("deleteChannel", Owner))}
MCMenu == Staff(Owner) \cup MCMenuDelete \cup Overrides(Owner) \cup Rooms(mia) \cup Rest

MCSymmetry == Permutations(Workers)
=============================================================================
