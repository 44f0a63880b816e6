------------------------------ MODULE Payloads ------------------------------
(***************************************************************************)
(* What the server makes of the body of a message before it stores it:     *)
(* content, embeds and mentions (domain/message.rs and the allowed         *)
(* mentions of controllers/compat_controller.rs).  Text is its length and  *)
(* the white space around it; the limits are parameters, so that a small   *)
(* instance reaches them.                                                  *)
(***************************************************************************)
EXTENDS Integers, FiniteSets, Sequences, FiniteSetsExt

CONSTANTS
  Targets,      \* what a text can mention: users, roles, everyone
  KindOf,       \* "users", "roles" or "everyone"
  MaxContent,   \* 4000
  MaxEmbeds,    \* 10
  MaxFields,    \* 25
  TextLimit,    \* of each text part of an embed, by its key
  MaxTotal,     \* 6000
  MaxUrl,       \* 2048
  MaxColor      \* 0xFFFFFF

ASSUME PayloadsAssumption ==
  /\ KindOf \in [Targets -> {"users", "roles", "everyone"}]
  /\ TextLimit \in [{"title", "description", "text", "name", "value"} -> Nat \ {0}]
  /\ {MaxContent, MaxEmbeds, MaxFields, MaxTotal, MaxUrl, MaxColor} \subseteq Nat \ {0}

(***************************************************************************)
(* Content.                                                                *)
(***************************************************************************)
Content == [len : 0..MaxContent, pad : {0}, mentions : SUBSET Targets]

\* Mutant: only the upper bound is looked at.
ValidContent_Empty(c, allowEmpty) == c.len <= MaxContent

\* The bounds of normalize_content, on the trimmed text.  As in the code, len is
\* in bytes for content and URLs and in characters for the texts of an embed.
ValidContent(c, allowEmpty) == c.len <= MaxContent /\ (c.len = 0 => allowEmpty)

Trim(text) == [text EXCEPT !.pad = 0]

\* normalize_content trims.
NormalizeContent(c) == Trim(c)

(***************************************************************************)
(* Embeds.  A JSON value is [kind, len, pad]: a "url" is a text that       *)
(* starts with http:// or https://, a "time" or an "edge" one that parses   *)
(* as RFC 3339, and len is a number's value.  Of an edge the year in UTC is *)
(* before 0000 or after 9999.  Objects have parts, lists have items.        *)
(***************************************************************************)
Json(kind, len) == [kind |-> kind, len |-> len, pad |-> 0]
Object(parts)   == [kind |-> "object", parts |-> parts]
List(items)     == [kind |-> "list", items |-> items]

Strings == {"text", "url", "rich", "time", "edge"}
Scalars == Strings \cup {"number", "bool"}
Scalar  == [kind : Scalars, len : Nat, pad : Nat]

Absent(o, k) == k \in DOMAIN o => o[k].kind = "null"

\* optional_embed_text accepts a missing, null or blank part and drops it.
ValidText(o, k) == ~Absent(o, k) => o[k].kind \in Strings /\ o[k].len <= TextLimit[k]

HasText(o, k) == ~Absent(o, k) /\ o[k].len > 0

IsHttpUrl(v) == v.kind = "url" /\ v.len <= MaxUrl

ValidUrl(o, k) ==
  ~Absent(o, k) => o[k].kind \in Strings /\ (o[k].len > 0 => IsHttpUrl(o[k]))

\* A blank timestamp is not dropped, it does not parse.
ValidTimestamp(o) == ~Absent(o, "timestamp") => o["timestamp"].kind \in {"time", "edge"}

\* to_rfc3339_opts of the time in UTC, with milliseconds and Z: a year of four
\* digits gives RFC 3339 again, "+10000-01-01T00:59:59.000Z" is only a text.
ToUtc(v) == IF v.kind = "time" THEN Json("time", 24) ELSE Json("text", 26)

ValidColor(o) ==
  ~Absent(o, "color") => o["color"].kind = "number" /\ o["color"].len <= MaxColor

\* A null type is not a string, hence refused.
ValidType(o) == "type" \in DOMAIN o => o["type"].kind = "rich"

\* An object with no keys but the named ones, whose required texts are there.
ValidParts(v, allowed, required, urls) ==
  /\ v.kind = "object"
  /\ DOMAIN v.parts \subseteq allowed
  /\ \A k \in required : ValidText(v.parts, k) /\ HasText(v.parts, k)
  /\ \A k \in urls : ValidUrl(v.parts, k)

ValidFooter(o) ==
  ~Absent(o, "footer") =>
    ValidParts(o["footer"], {"text", "icon_url"}, {"text"}, {"icon_url"})

\* The required url of an image or thumbnail is text and an HTTP URL.
ValidMedia(o, k) ==
  ~Absent(o, k) =>
    ValidParts(o[k], {"url"}, {}, {"url"}) /\ HasText(o[k].parts, "url")

ValidAuthor(o) ==
  ~Absent(o, "author") =>
    ValidParts(o["author"], {"name", "url", "icon_url"}, {"name"}, {"url", "icon_url"})

ValidFields(o) ==
  ~Absent(o, "fields") =>
    /\ o["fields"].kind = "list"
    /\ Len(o["fields"].items) <= MaxFields
    /\ \A i \in 1..Len(o["fields"].items) :
         LET f == o["fields"].items[i]
         IN  /\ ValidParts(f, {"name", "value", "inline"}, {"name", "value"}, {})
             /\ ~Absent(f.parts, "inline") => f.parts["inline"].kind = "bool"

EmbedKeys ==
  {"title", "type", "description", "url", "timestamp", "color", "footer", "image",
   "thumbnail", "author", "fields"}

\* Trimmed texts and URLs; what is missing, null or blank is left out.
Cleaned(parts, keys) ==
  [k \in {k \in keys : HasText(parts, k)} |-> Trim(parts[k])]

CleanField(f) ==
  Object([k \in {"name", "value", "inline"} |->
            IF k # "inline" THEN Trim(f.parts[k])
            ELSE IF Absent(f.parts, k) THEN Json("bool", 0) ELSE f.parts[k]])

\* What normalize_embed puts under a key; type is always rich.
CleanPart(o, k) ==
  CASE k = "type"                  -> Json("rich", 4)
    [] k \in {"title", "description", "url"} -> Trim(o[k])
    [] k = "timestamp"             -> ToUtc(o[k])
    [] k = "color"                 -> o[k]
    [] k = "fields"                ->
         List([i \in 1..Len(o[k].items) |-> CleanField(o[k].items[i])])
    [] OTHER                       -> Object(Cleaned(o[k].parts, DOMAIN o[k].parts))

\* Texts and URLs are dropped when blank; a list of no fields is kept.
KeptKeys(o) ==
  {"type"} \cup {k \in {"title", "description", "url"} : HasText(o, k)}
           \cup {k \in EmbedKeys \ {"type", "title", "description", "url"} : ~Absent(o, k)}

NormalizeEmbed(o) == [k \in KeptKeys(o) |-> CleanPart(o, k)]

\* What counts towards the limit on an embed's whole text.
FieldSizes(o) ==
  LET items == IF Absent(o, "fields") THEN <<>> ELSE o["fields"].items
  IN  [i \in 1..Len(items) |-> items[i].parts["name"].len + items[i].parts["value"].len]

TotalText(o) ==
  LET Size(k) == IF HasText(o, k) THEN o[k].len ELSE 0
      Part(k, name) == IF Absent(o, k) THEN 0 ELSE o[k].parts[name].len
  IN  Size("title") + Size("description") + Part("footer", "text") + Part("author", "name")
        + SumFunction(FieldSizes(o))

ValidEmbed(o) ==
  /\ DOMAIN o \subseteq EmbedKeys
  /\ ValidText(o, "title") /\ ValidType(o) /\ ValidText(o, "description")
  /\ ValidUrl(o, "url") /\ ValidTimestamp(o) /\ ValidColor(o) /\ ValidFooter(o)
  /\ ValidMedia(o, "image") /\ ValidMedia(o, "thumbnail")
  /\ ValidAuthor(o) /\ ValidFields(o)
  /\ KeptKeys(o) # {"type"}
  /\ TotalText(o) <= MaxTotal

ValidEmbeds(es) == Len(es) <= MaxEmbeds /\ \A i \in 1..Len(es) : ValidEmbed(es[i])

\* serde_json has parsed the list: texts, numbers and booleans are what they
\* are, lists have a length.
Parsed(v) == v.kind \in Scalars => v \in Scalar

ParsedParts(v) == v.kind = "object" => \A k \in DOMAIN v.parts : Parsed(v.parts[k])

ParsedEmbed(o) ==
  \A k \in DOMAIN o :
    /\ Parsed(o[k]) /\ ParsedParts(o[k])
    /\ o[k].kind = "list" =>
         Len(o[k].items) \in Nat /\ \A j \in 1..Len(o[k].items) : ParsedParts(o[k].items[j])

ParsedEmbeds(es) == Len(es) \in Nat /\ \A i \in 1..Len(es) : ParsedEmbed(es[i])

NormalizeEmbeds(es) == [i \in 1..Len(es) |-> NormalizeEmbed(es[i])]

(***************************************************************************)
(* Mentions.  A policy is the allowed_mentions object of a request:        *)
(* given is FALSE when the request has none.                               *)
(***************************************************************************)
MentionKinds == {"users", "roles", "everyone"}
AllowedMentions ==
  [given : BOOLEAN, parse : SUBSET MentionKinds, explicit : SUBSET Targets]

\* allowed_mention_policy: without the object everything is parsed.
Parses(policy, kind) == ~policy.given \/ kind \in policy.parse

Allows(policy, t) ==
  \/ Parses(policy, KindOf[t])
  \/ KindOf[t] # "everyone" /\ policy.given /\ t \in policy.explicit

\* Mutant: who is named explicitly is mentioned, whatever the content says.
ResolveMentions_Explicit(c, policy, known) ==
  {t \in Targets : Allows(policy, t) /\ (KindOf[t] = "everyone" \/ t \in known)}

\* resolve_allowed_mentions: known are the members of the space that have an
\* account, and its roles.
ResolveMentions(c, policy, known) ==
  {t \in c.mentions : Allows(policy, t) /\ (KindOf[t] = "everyone" \/ t \in known)}
=============================================================================
