----------------------------- MODULE MCMessages -----------------------------
(***************************************************************************)
(* An instance of Messages for TLC.                                        *)
(***************************************************************************)
EXTENDS Messages, TLC

MCTargets == {"bob"}
MCKindOf == [bob |-> "users"]
MCTextLimit == [k \in {"title", "description", "text", "name", "value"} |-> 2]

\* Nothing but white space, a mention in white space, too much.
MCBodies ==
  {[len |-> 0, pad |-> 1, mentions |-> {}], [len |-> 2, pad |-> 1, mentions |-> {"bob"}],
   [len |-> 3, pad |-> 0, mentions |-> {}]}

Text(n) == [kind |-> "text", len |-> n, pad |-> 1]
Field(n, v) == Object([name |-> Text(n), value |-> Text(v)])

\* Every supported part but media, within all limits.
Full ==
  [title |-> Text(1), color |-> Json("number", 1), url |-> Json("url", 1),
   fields |-> List(<<Field(1, 1)>>), timestamp |-> [Json("time", 1) EXCEPT !.pad = 1],
   footer |-> Object([text |-> Text(1), icon_url |-> Json("text", 0)])]

\* The last hour of the year 9999, west of Greenwich.
Late == [timestamp |-> Json("edge", 25)]

\* One change each.  The first three are stored like Full: a type, a blank
\* description, a null author.  The others are refused.
MCEmbedLists ==
  {<<>>, <<Late, Full>>, <<Late, Full, Full>>, <<[title |-> Text(0)]>>} \cup
  {<<Late, change @@ Full>> : change \in
     {[type |-> Json("rich", 4)], [description |-> Text(0)], [author |-> Json("null", 0)],
      [type |-> Json("null", 0)], [other |-> Text(1)], [title |-> Text(3)],
      [description |-> Text(2)], [color |-> Json("number", 2)], [url |-> Json("url", 2)],
      [timestamp |-> Text(0)], [image |-> Object([url |-> Text(0)])],
      [footer |-> Object([icon_url |-> Json("url", 1)])],
      [author |-> Object([name |-> Text(1), url |-> Text(1)])],
      [fields |-> List(<<Field(1, 0)>>)], [fields |-> List(<<Field(1, 1), Field(1, 1)>>)]}}

MCPolicies ==
  {[given |-> FALSE, parse |-> {}, explicit |-> {}],
   [given |-> TRUE, parse |-> {}, explicit |-> {"bob"}]}
MCFileLists == {<<1>>, <<1, 1>>}
MCSymmetry == Permutations(Requests) \cup Permutations(Channels)
=============================================================================
