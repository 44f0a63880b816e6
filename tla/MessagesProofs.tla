---------------------------- MODULE MessagesProofs ----------------------------
(***************************************************************************)
(* Theorems about Messages, for every number of requests, messages, files  *)
(* and channels, and about the payloads they store.                        *)
(***************************************************************************)
EXTENDS Messages, WellFoundedInduction, TLAPS

(***************************************************************************)
(* The inductive invariant.  A running request knows things of rows that   *)
(* other requests change under it: whose file it was, which message it     *)
(* stored, which files it has linked.                                      *)
(***************************************************************************)

\* File a was uploaded by user in channel, or is purged since.
Owned(a, user, channel) ==
  \/ attachments[a].status = "purged"
  \/ /\ attachments[a].status # "none"
     /\ attachments[a].uploader = user /\ attachments[a].channel = channel

\* File a, with its content, belongs to message m, or one of them is purged.
Delivered(a, m) ==
  /\ attachments[a].status # "none"
  /\ Stored(m) /\ Exists(a) => attachments[a].message = m /\ attachments[a].stored

\* Message m was stored by user in channel, and may be purged since.
Placed(m, user, channel) ==
  /\ messages[m].state # "none"
  /\ Stored(m) => messages[m].author = user /\ messages[m].channel = channel

\* Message m has something to say besides its files.
Says(m) ==
  \/ messages[m].content.len > 0
  \/ messages[m].embeds # <<>> \/ messages[m].components > 0

\* Message m can be replied to in channel.
Answerable(m, channel) ==
  m # NoMessage =>
    /\ messages[m].state # "none"
    /\ Stored(m) => messages[m].channel = channel

RequestHolds(r) ==
  /\ r.op = "upload" => Len(r.files) = 1
  /\ r.op = "edit" => r.message \in MessageIds
  /\ r.op = "bot_create" => r.user = Bot
  /\ r.op # "bot_create" => r.reply = NoMessage
  /\ r.at = "validate" =>
       /\ r.op = "create" /\ r.next \in 1..Len(r.files)
       /\ \A i \in 1..(r.next - 1) : Owned(r.files[i], r.user, r.channel)
  /\ r.at = "fill" => Len(r.files) >= 1
  /\ r.at \in {"files", "fill"} => r.op = "bot_create"
  /\ r.at \in {"files", "fill", "store"} =>
       /\ r.next = 1 /\ Answerable(r.reply, r.channel)
       /\ \A i \in 1..Len(r.files) : Owned(r.files[i], r.user, r.channel)
  /\ r.at = "store" /\ r.op = "create" => r.files # <<>>
  /\ r.at = "link" =>
       /\ r.next \in 1..Len(r.files)
       /\ \A i \in 1..Len(r.files) : Owned(r.files[i], r.user, r.channel)
       /\ \A i \in 1..(r.next - 1) : Delivered(r.files[i], r.message)
  /\ r.at = "announce" => \A i \in 1..Len(r.files) : Delivered(r.files[i], r.message)
  /\ r.at \in {"link", "announce"} =>
       /\ r.message \in MessageIds /\ Placed(r.message, r.user, r.channel)
       /\ Stored(r.message) => Says(r.message) \/ r.files # <<>>

EventHolds(e) ==
  /\ messages[e.message].state # "none"
  /\ \A a \in e.files : Delivered(a, e.message)
  /\ Stored(e.message) => Says(e.message) \/ e.files # {}

\* Only a linked file has a message, and what was uploaded is there.
FilesHold ==
  \A a \in AttachmentIds :
    /\ attachments[a].message # NoMessage => attachments[a].status = "linked"
    /\ attachments[a].status \in {"uploaded", "linked"} => attachments[a].stored

MentionsHold ==
  \A m \in MessageIds : messages[m].mentions \subseteq messages[m].content.mentions

TablesInv ==
  /\ messages \in [MessageIds -> Message]
  /\ attachments \in [AttachmentIds -> Attachment]
  /\ FilesHold /\ ReferencesHold /\ MentionsHold

MessagesInv ==
  /\ TypeOK /\ request \in [Requests -> Request]
  /\ TablesInv
  /\ \A q \in Requests : RequestHolds(request[q])
  /\ \A e \in created : EventHolds(e)

(***************************************************************************)
(* How rows age, whichever request changes them.                           *)
(***************************************************************************)
FileAges(a) ==
  attachments[a].status # "none" =>
    /\ attachments'[a].status # "none"
    /\ attachments[a].status = "purged" => attachments'[a].status = "purged"
    /\ attachments'[a].status # "purged" =>
         /\ attachments'[a].uploader = attachments[a].uploader
         /\ attachments'[a].channel = attachments[a].channel
         /\ \A m \in MessageIds :
              attachments[a].message = m /\ attachments[a].stored /\ Stored(m)' =>
                attachments'[a].message = m /\ attachments'[a].stored

RowAges(m) ==
  messages[m].state # "none" =>
    /\ messages'[m].state # "none"
    /\ Stored(m)' =>
         /\ Stored(m)
         /\ messages'[m].author = messages[m].author
         /\ messages'[m].channel = messages[m].channel
         /\ messages'[m].embeds = messages[m].embeds
         /\ Says(m) => Says(m)'

Ages == (\A a \in AttachmentIds : FileAges(a)) /\ (\A m \in MessageIds : RowAges(m))

\* The values rows and requests start from have their types.
LEMMA Blanks ==
  /\ Blank \in Content /\ <<>> \in AcceptedEmbeds
  /\ NoRow \in Message /\ NoFile \in Attachment /\ Idle \in Request
<1>1. Blank \in Content
  BY PayloadsAssumption DEF Blank, Content
<1>2. ValidEmbeds(<<>>) /\ NormalizeEmbeds(<<>>) = <<>>
  <2>1. MaxEmbeds \in Nat /\ Len(<<>>) = 0 /\ 1..0 = {}
    BY PayloadsAssumption
  <2>2. NormalizeEmbeds(<<>>) = <<>>
    BY <2>1 DEF NormalizeEmbeds
  <2> QED BY <2>1, <2>2 DEF ValidEmbeds
<1>3. <<>> \in AcceptedEmbeds
  BY <1>2, MessagesAssumption DEF AcceptedEmbeds
<1>4. 0 \in 0..MaxComponents /\ Hook \in Authors /\ MaxComponents \in Nat
  BY MessagesAssumption DEF Authors
<1>5. NoRow \in Message
  BY <1>1, <1>3, <1>4 DEF NoRow, Message
<1>6. NoFile \in Attachment
  BY <1>4 DEF NoFile, Attachment
<1>7. Idle \in Request
  <2>1. <<>> \in Seq(AttachmentIds) /\ 1 \in Nat
    OBVIOUS
  <2> QED BY <1>4, <2>1 DEF Idle, Request, Ops, Steps
<1> QED BY <1>1, <1>3, <1>5, <1>6, <1>7

(***************************************************************************)
(* What a request knows of the rows stays true as they age.                *)
(***************************************************************************)
LEMMA OwnedKept ==
  ASSUME Ages, NEW a \in AttachmentIds, NEW u, NEW c, Owned(a, u, c)
  PROVE  Owned(a, u, c)'
BY DEF Ages, FileAges, Owned

LEMMA DeliveredKept ==
  ASSUME Ages, TablesInv, TablesInv', NEW a \in AttachmentIds, NEW m \in MessageIds,
         messages[m].state # "none", Delivered(a, m)
  PROVE  Delivered(a, m)'
<1>1. FileAges(a) /\ RowAges(m)
  BY DEF Ages
<1>2. attachments'[a].status # "none"
  BY <1>1 DEF FileAges, Delivered
<1>3. ASSUME Stored(m)', Exists(a)' PROVE attachments'[a].message = m /\ attachments'[a].stored
  <2>1. Stored(m)
    BY <1>1, <1>3 DEF RowAges
  <2>2. attachments'[a].status # "purged"
    BY <1>3 DEF Exists
  <2>3. Exists(a)
    BY <1>1, <2>2 DEF FileAges, Delivered, Exists, TablesInv, Attachment
  <2>4. attachments[a].message = m /\ attachments[a].stored
    BY <2>1, <2>3 DEF Delivered
  <2> QED BY <1>1, <1>3, <2>2, <2>4 DEF FileAges, Delivered
<1> QED BY <1>2, <1>3 DEF Delivered

LEMMA PlacedKept ==
  ASSUME Ages, NEW m \in MessageIds, NEW u, NEW c, Placed(m, u, c)
  PROVE  Placed(m, u, c)'
BY DEF Ages, RowAges, Placed

LEMMA AnswerableKept ==
  ASSUME Ages, NEW m \in MessageIds \cup {NoMessage}, NEW c, Answerable(m, c)
  PROVE  Answerable(m, c)'
BY DEF Ages, RowAges, Answerable

LEMMA SaysKept ==
  ASSUME Ages, NEW m \in MessageIds, messages[m].state # "none", NEW files \in BOOLEAN,
         Stored(m) => Says(m) \/ files
  PROVE  Stored(m)' => Says(m)' \/ files
BY DEF Ages, RowAges

LEMMA RequestKept ==
  ASSUME Ages, TablesInv, TablesInv', NEW r \in Request, RequestHolds(r)
  PROVE  RequestHolds(r)'
<1>1. /\ r.files \in Seq(AttachmentIds) /\ r.next \in Nat /\ r.reply \in MessageIds \cup {NoMessage}
      /\ \A i \in 1..Len(r.files) : r.files[i] \in AttachmentIds
  BY DEF Request
<1>2. r.at = "validate" => \A i \in 1..(r.next - 1) : Owned(r.files[i], r.user, r.channel)'
  <2> SUFFICES ASSUME r.at = "validate", NEW i \in 1..(r.next - 1)
               PROVE  Owned(r.files[i], r.user, r.channel)'
    OBVIOUS
  <2>1. i \in 1..Len(r.files) /\ Owned(r.files[i], r.user, r.channel)
    BY <1>1 DEF RequestHolds
  <2> QED BY <1>1, <2>1, OwnedKept
<1>3. r.at \in {"files", "fill", "store", "link"} =>
        \A i \in 1..Len(r.files) : Owned(r.files[i], r.user, r.channel)'
  BY <1>1, OwnedKept DEF RequestHolds
<1>4. r.at \in {"files", "fill", "store"} => Answerable(r.reply, r.channel)'
  BY <1>1, AnswerableKept DEF RequestHolds
<1>5. r.at \in {"link", "announce"} =>
        /\ r.message \in MessageIds /\ messages[r.message].state # "none"
        /\ Placed(r.message, r.user, r.channel)'
  BY PlacedKept, ZenonT(60) DEF RequestHolds, Placed
<1>6. r.at = "link" => \A i \in 1..(r.next - 1) : Delivered(r.files[i], r.message)'
  <2> SUFFICES ASSUME r.at = "link", NEW i \in 1..(r.next - 1)
               PROVE  Delivered(r.files[i], r.message)'
    OBVIOUS
  <2>1. i \in 1..Len(r.files) /\ Delivered(r.files[i], r.message)
    BY <1>1 DEF RequestHolds
  <2> QED BY <1>1, <1>5, <2>1, DeliveredKept
<1>7. r.at = "announce" => \A i \in 1..Len(r.files) : Delivered(r.files[i], r.message)'
  BY <1>1, <1>5, DeliveredKept DEF RequestHolds
<1>8. r.at \in {"link", "announce"} =>
        (Stored(r.message)' => Says(r.message)' \/ r.files # <<>>)
  BY <1>5, SaysKept DEF RequestHolds
<1> QED BY <1>2, <1>3, <1>4, <1>5, <1>6, <1>7, <1>8 DEF RequestHolds

LEMMA EventKept ==
  ASSUME Ages, TablesInv, TablesInv',
         NEW e \in [message : MessageIds, files : SUBSET AttachmentIds], EventHolds(e)
  PROVE  EventHolds(e)'
<1>1. e.message \in MessageIds /\ e.files \subseteq AttachmentIds /\ messages[e.message].state # "none"
  BY DEF EventHolds
<1>2. messages'[e.message].state # "none"
  BY <1>1 DEF Ages, RowAges
<1>3. \A a \in e.files : Delivered(a, e.message)'
  BY <1>1, DeliveredKept DEF EventHolds
<1>4. Stored(e.message)' => Says(e.message)' \/ e.files # {}
  BY <1>1, SaysKept DEF EventHolds
<1> QED BY <1>2, <1>3, <1>4 DEF EventHolds

\* A set of numbers has a least one, the one Min names.
LEMMA NatMin ==
  ASSUME NEW S, S \subseteq Nat, S # {}
  PROVE  Min(S) \in S /\ \A y \in S : Min(S) <= y
<1> DEFINE R == OpToRel(<, Nat)
<1>1. IsWellFoundedOn(R, Nat)
  BY NatLessThanWellFounded
<1>2. \A x, y \in Nat : y < x => <<y, x>> \in R
  BY DEF OpToRel
<1>3. PICK x \in S : \A y \in S : ~(<<y, x>> \in R)
  <2> HIDE DEF R
  <2> QED BY <1>1, WFMin
<1>4. ASSUME NEW y \in S PROVE x <= y
  <2>1. x \in Nat /\ y \in Nat
    OBVIOUS
  <2>2. ~(y < x)
    <3> HIDE DEF R
    <3> QED BY <1>2, <1>3, <2>1
  <2> QED BY <2>1, <2>2
<1> QED BY <1>3, <1>4 DEF Min

(***************************************************************************)
(* The statements keep the tables consistent, and rows only age.           *)
(***************************************************************************)
LEMMA TableFacts ==
  ASSUME TablesInv
  PROVE  /\ messages \in [MessageIds -> Message] /\ attachments \in [AttachmentIds -> Attachment]
         /\ \A m \in MessageIds : messages[m] \in Message
         /\ \A a \in AttachmentIds : attachments[a] \in Attachment
         /\ NoMessage \notin MessageIds
BY MessagesAssumption DEF TablesInv, NoMessage

LEMMA RowsStay ==
  ASSUME UNCHANGED messages
  PROVE  /\ \A m \in MessageIds : RowAges(m)
         /\ MentionsHold => MentionsHold'
         /\ \A m : Stored(m)' <=> Stored(m)
BY DEF RowAges, MentionsHold, Stored, Says

LEMMA FilesStay ==
  ASSUME UNCHANGED attachments
  PROVE  (\A a \in AttachmentIds : FileAges(a)) /\ (FilesHold => FilesHold')
BY DEF FileAges, FilesHold

\* A change of one file.
LEMMA FileChanges ==
  ASSUME TablesInv, UNCHANGED messages, NEW f \in AttachmentIds, NEW v \in Attachment,
         attachments' = [attachments EXCEPT ![f] = v],
         v.message # NoMessage =>
           /\ v.status = "linked" /\ Stored(v.message)
           /\ v.uploader = messages[v.message].author /\ v.channel = messages[v.message].channel,
         v.status \in {"uploaded", "linked"} => v.stored,
         attachments[f].status # "none" =>
           /\ v.status # "none"
           /\ attachments[f].status = "purged" => v.status = "purged"
           /\ v.status # "purged" =>
                /\ v.uploader = attachments[f].uploader /\ v.channel = attachments[f].channel
                /\ attachments[f].message # NoMessage => v = attachments[f]
  PROVE  TablesInv' /\ Ages
<1>1. /\ attachments' \in [AttachmentIds -> Attachment] /\ attachments'[f] = v
      /\ \A a \in AttachmentIds : a # f => attachments'[a] = attachments[a]
  BY TableFacts
<1>2. FilesHold'
  BY <1>1 DEF TablesInv, FilesHold
<1>3. ReferencesHold'
  <2>1. \A a \in AttachmentIds :
          LET m == attachments'[a].message
          IN  m # NoMessage => /\ Stored(m)
                               /\ attachments'[a].uploader = messages[m].author
                               /\ attachments'[a].channel = messages[m].channel
    BY <1>1 DEF TablesInv, ReferencesHold
  <2> QED BY <2>1 DEF TablesInv, ReferencesHold, Stored
<1>4. \A a \in AttachmentIds : FileAges(a)
  <2> SUFFICES ASSUME NEW a \in AttachmentIds PROVE FileAges(a)
    OBVIOUS
  <2>1. CASE a # f
    BY <1>1, <2>1 DEF FileAges
  <2>2. CASE a = f
    BY <1>1, <2>2, TableFacts DEF FileAges
  <2> QED BY <2>1, <2>2
<1>5. MentionsHold' /\ messages' \in [MessageIds -> Message]
  BY RowsStay DEF TablesInv
<1> QED BY <1>1, <1>2, <1>3, <1>4, <1>5, RowsStay DEF TablesInv, Ages

LEMMA InsertsFile ==
  ASSUME TablesInv, UNCHANGED messages, NEW c \in Channels \cup {NoChannel}, NEW u \in Authors,
         InsertAttachment(c, u)
  PROVE  /\ TablesInv' /\ Ages
         /\ FreshFile \in AttachmentIds /\ attachments[FreshFile].status = "none"
         /\ attachments'[FreshFile].status = "pending"
         /\ attachments'[FreshFile].uploader = u /\ attachments'[FreshFile].channel = c
<1> DEFINE v == [NoFile EXCEPT !.status = "pending", !.channel = c, !.uploader = u]
           f == FreshFile
<1>1. f \in AttachmentIds /\ attachments[f].status = "none"
  <2>1. UnusedFiles # {} /\ UnusedFiles \subseteq Nat
    BY MessagesAssumption DEF InsertAttachment, UnusedFiles
  <2>2. f \in UnusedFiles
    BY <2>1, NatMin DEF FreshFile
  <2> QED BY <2>2 DEF UnusedFiles
<1>2. attachments' = [attachments EXCEPT ![f] = v]
  BY DEF InsertAttachment
<1>3. /\ v \in Attachment /\ v.status = "pending" /\ v.uploader = u /\ v.channel = c
      /\ v.message = NoMessage
  BY Blanks DEF Attachment, NoFile
<1> HIDE DEF v, f
<1>4. TablesInv' /\ Ages
  BY <1>1, <1>2, <1>3, FileChanges
<1>5. attachments'[f] = v
  BY <1>1, <1>2, TableFacts
<1> QED BY <1>1, <1>3, <1>4, <1>5 DEF f

LEMMA Uploads ==
  ASSUME TablesInv, UNCHANGED messages, NEW a \in AttachmentIds, NEW u, UploadContent(a, u)
  PROVE  TablesInv' /\ Ages
<1> DEFINE o == attachments[a]
           v == [o EXCEPT !.status = "uploaded", !.stored = TRUE]
<1>1. o \in Attachment /\ o.message = NoMessage /\ o.status \in {"pending", "uploaded", "linked"}
  BY TableFacts DEF UploadContent, Uploadable, Exists
<1>2. /\ v \in Attachment /\ v.status = "uploaded" /\ v.stored /\ v.message = NoMessage
      /\ v.uploader = o.uploader /\ v.channel = o.channel
  BY <1>1 DEF Attachment
<1>3. attachments' = [attachments EXCEPT ![a] = v]
  BY TableFacts DEF UploadContent
<1> HIDE DEF v
<1> QED BY <1>1, <1>2, <1>3, FileChanges

LEMMA Links ==
  ASSUME TablesInv, UNCHANGED messages, NEW a \in AttachmentIds, NEW m \in MessageIds,
         NEW u, NEW c, Owned(a, u, c), Placed(m, u, c), LinkAttachment(a, m)
  PROVE  TablesInv' /\ Ages /\ Delivered(a, m)'
<1> DEFINE o == attachments[a]
           v == [o EXCEPT !.status = "linked", !.message = m]
<1>1. /\ o \in Attachment /\ o.message = NoMessage /\ o.status = "uploaded" /\ o.stored
      /\ Stored(m) /\ o.uploader = messages[m].author /\ o.channel = messages[m].channel
  BY TableFacts DEF LinkAttachment, TablesInv, FilesHold, Owned, Placed
<1>2. /\ v \in Attachment /\ v.status = "linked" /\ v.stored /\ v.message = m
      /\ v.uploader = o.uploader /\ v.channel = o.channel
  BY <1>1 DEF Attachment
<1>3. attachments' = [attachments EXCEPT ![a] = v]
  BY TableFacts DEF LinkAttachment
<1> HIDE DEF v
<1>4. TablesInv' /\ Ages
  BY <1>1, <1>2, <1>3, FileChanges
<1>5. attachments'[a] = v
  BY <1>3, TableFacts
<1> QED BY <1>2, <1>4, <1>5 DEF Delivered

LEMMA PurgesFile ==
  ASSUME TablesInv, NEW a \in AttachmentIds, PurgeAttachment(a)
  PROVE  TablesInv' /\ Ages
<1> DEFINE v == [NoFile EXCEPT !.status = "purged"]
<1>1. v \in Attachment /\ v.status = "purged" /\ v.message = NoMessage
  BY Blanks DEF Attachment, NoFile
<1>2. attachments' = [attachments EXCEPT ![a] = v] /\ UNCHANGED messages
  BY DEF PurgeAttachment
<1> HIDE DEF v
<1> QED BY <1>1, <1>2, FileChanges

\* A new row or a change of one that stays stored.
LEMMA RowChanges ==
  ASSUME TablesInv, UNCHANGED attachments, NEW x \in MessageIds, NEW v \in Message,
         messages' = [messages EXCEPT ![x] = v],
         v.state \in {"live", "deleted"}, v.mentions \subseteq v.content.mentions,
         v.reply # NoMessage => Stored(v.reply) /\ messages[v.reply].channel = v.channel,
         messages[x].state # "none" =>
           /\ Stored(x) /\ v.author = messages[x].author /\ v.channel = messages[x].channel
           /\ v.embeds = messages[x].embeds
           /\ Says(x) => v.content.len > 0 \/ v.embeds # <<>> \/ v.components > 0
  PROVE  TablesInv' /\ Ages
<1>1. /\ messages' \in [MessageIds -> Message] /\ messages'[x] = v
      /\ \A y \in MessageIds : y # x => messages'[y] = messages[y]
  BY TableFacts
<1>2. MentionsHold'
  BY <1>1 DEF TablesInv, MentionsHold
<1>3. ASSUME NEW y \in MessageIds, Stored(y)
      PROVE  /\ Stored(y)' /\ messages'[y].author = messages[y].author
             /\ messages'[y].channel = messages[y].channel
  BY <1>1, <1>3 DEF Stored
<1>4. ReferencesHold'
  <2>1. ASSUME NEW a \in AttachmentIds, NEW m \in MessageIds, m = attachments[a].message
        PROVE  /\ Stored(m)'
               /\ attachments[a].uploader = messages'[m].author
               /\ attachments[a].channel = messages'[m].channel
    <3>1. /\ Stored(m) /\ attachments[a].uploader = messages[m].author
          /\ attachments[a].channel = messages[m].channel
      BY <2>1, TableFacts DEF TablesInv, ReferencesHold
    <3> QED BY <1>3, <3>1
  <2>2. ASSUME NEW y \in MessageIds, NEW z \in MessageIds, z = messages'[y].reply
        PROVE  Stored(z)' /\ messages'[z].channel = messages'[y].channel
    <3>1. CASE y = x
      <4>1. Stored(z) /\ messages[z].channel = v.channel
        BY <1>1, <2>2, <3>1, TableFacts
      <4> QED BY <1>1, <1>3, <3>1, <4>1
    <3>2. CASE y # x
      <4>1. Stored(z) /\ messages[z].channel = messages[y].channel
        BY <1>1, <2>2, <3>2, TableFacts DEF TablesInv, ReferencesHold
      <4> QED BY <1>1, <1>3, <3>2, <4>1
    <3> QED BY <3>1, <3>2
  <2>3. /\ \A a \in AttachmentIds : attachments[a].message \in MessageIds \cup {NoMessage}
        /\ \A y \in MessageIds : messages'[y].reply \in MessageIds \cup {NoMessage}
    BY <1>1, TableFacts DEF Attachment, Message
  <2> QED BY <2>1, <2>2, <2>3 DEF ReferencesHold, Stored
<1>5. \A m \in MessageIds : RowAges(m)
  <2> SUFFICES ASSUME NEW m \in MessageIds PROVE RowAges(m)
    OBVIOUS
  <2>1. CASE m # x
    BY <1>1, <2>1 DEF RowAges, Stored, Says
  <2>2. CASE m = x
    <3> SUFFICES ASSUME messages[x].state # "none"
                 PROVE  /\ messages'[x].state # "none" /\ Stored(x)
                        /\ messages'[x].author = messages[x].author
                        /\ messages'[x].channel = messages[x].channel
                        /\ messages'[x].embeds = messages[x].embeds
                        /\ Says(x) => Says(x)'
      BY <2>2 DEF RowAges
    <3>1. Says(x) => Says(x)'
      BY <1>1 DEF Says
    <3> QED BY <1>1, <3>1
  <2> QED BY <2>1, <2>2
<1> QED BY <1>1, <1>2, <1>4, <1>5, FilesStay DEF TablesInv, Ages

LEMMA Deletes ==
  ASSUME TablesInv, UNCHANGED attachments, NEW m \in MessageIds, DeleteMessage(m)
  PROVE  TablesInv' /\ Ages
<1> DEFINE o == messages[m]
           v == [o EXCEPT !.state = "deleted"]
<1>1. o \in Message /\ o.state = "live" /\ o.mentions \subseteq o.content.mentions
  BY TableFacts DEF DeleteMessage, TablesInv, MentionsHold
<1>2. /\ v \in Message /\ v.state = "deleted" /\ v.author = o.author /\ v.channel = o.channel
      /\ v.embeds = o.embeds /\ v.content = o.content /\ v.components = o.components
      /\ v.mentions = o.mentions /\ v.reply = o.reply
  BY <1>1 DEF Message
<1>3. messages' = [messages EXCEPT ![m] = v]
  BY TableFacts DEF DeleteMessage
<1>4. o.reply # NoMessage => Stored(o.reply) /\ messages[o.reply].channel = o.channel
  BY DEF TablesInv, ReferencesHold
<1> HIDE DEF v
<1> QED BY <1>1, <1>2, <1>3, <1>4, RowChanges DEF Stored, Says

LEMMA Updates ==
  ASSUME TablesInv, UNCHANGED attachments, NEW m \in MessageIds, NEW content \in Content,
         NEW mentions \in SUBSET Targets, NEW components \in 0..MaxComponents,
         content.len > 0, mentions \subseteq content.mentions,
         UpdateMessage(m, content, mentions, components)
  PROVE  TablesInv' /\ Ages
<1> DEFINE o == messages[m]
           v == [o EXCEPT !.content = content, !.mentions = mentions, !.components = components]
<1>1. o \in Message /\ o.state = "live"
  BY TableFacts DEF UpdateMessage
<1>2. /\ v \in Message /\ v.state = "live" /\ v.author = o.author /\ v.channel = o.channel
      /\ v.embeds = o.embeds /\ v.content = content /\ v.mentions = mentions /\ v.reply = o.reply
  BY <1>1 DEF Message
<1>3. messages' = [messages EXCEPT ![m] = v]
  BY TableFacts DEF UpdateMessage
<1>4. o.reply # NoMessage => Stored(o.reply) /\ messages[o.reply].channel = o.channel
  BY DEF TablesInv, ReferencesHold
<1> HIDE DEF v
<1> QED BY <1>1, <1>2, <1>3, <1>4, RowChanges DEF Stored

LEMMA Inserts ==
  ASSUME TablesInv, UNCHANGED attachments, NEW m \in MessageIds, NEW row \in Message,
         row.state = "live", row.mentions \subseteq row.content.mentions,
         Answerable(row.reply, row.channel), InsertMessage(m, row)
  PROVE  TablesInv' /\ Ages /\ messages'[m] = row
<1>1. /\ messages[m].state = "none" /\ messages' = [messages EXCEPT ![m] = row]
      /\ row.reply # NoMessage => Stored(row.reply) /\ messages[row.reply].channel = row.channel
  BY DEF InsertMessage, Answerable
<1> QED BY <1>1, RowChanges, TableFacts

\* A purged message leaves no reference to it.
LEMMA PurgesMessage ==
  ASSUME TablesInv, NEW m \in MessageIds, PurgeMessage(m)
  PROVE  TablesInv' /\ Ages
<1>1. Stored(m)
  BY DEF PurgeMessage
<1>2. ASSUME NEW x \in MessageIds, x # m
      PROVE  /\ messages'[x] \in Message /\ messages'[x].state = messages[x].state
             /\ messages'[x].author = messages[x].author /\ messages'[x].channel = messages[x].channel
             /\ messages'[x].embeds = messages[x].embeds /\ messages'[x].content = messages[x].content
             /\ messages'[x].components = messages[x].components
             /\ messages'[x].mentions = messages[x].mentions
             /\ messages'[x].reply = IF messages[x].reply = m THEN NoMessage ELSE messages[x].reply
  <2>1. messages'[x] = [messages[x] EXCEPT !.reply = IF @ = m THEN NoMessage ELSE @]
    BY <1>2 DEF PurgeMessage
  <2>2. messages[x] \in Message
    BY TableFacts
  <2> QED BY <2>1, <2>2 DEF Message
<1>3. /\ messages'[m] \in Message /\ messages'[m].state = "purged" /\ messages'[m].mentions = {}
      /\ messages'[m].reply = NoMessage
  <2>1. messages'[m] = [NoRow EXCEPT !.state = "purged"]
    BY DEF PurgeMessage
  <2>2. NoRow \in Message /\ NoRow.mentions = {} /\ NoRow.reply = NoMessage
    BY Blanks DEF NoRow
  <2> QED BY <2>1, <2>2 DEF Message
<1>4. ASSUME NEW a \in AttachmentIds
      PROVE  /\ attachments'[a] \in Attachment /\ attachments'[a].status = attachments[a].status
             /\ attachments'[a].uploader = attachments[a].uploader
             /\ attachments'[a].channel = attachments[a].channel
             /\ attachments'[a].stored = attachments[a].stored
             /\ attachments'[a].message =
                  IF attachments[a].message = m THEN NoMessage ELSE attachments[a].message
  <2>1. attachments'[a] = [attachments[a] EXCEPT !.message = IF @ = m THEN NoMessage ELSE @]
    BY DEF PurgeMessage
  <2>2. attachments[a] \in Attachment
    BY TableFacts
  <2> QED BY <2>1, <2>2 DEF Attachment
<1>5. messages' \in [MessageIds -> Message] /\ attachments' \in [AttachmentIds -> Attachment]
  <2>1. messages' = [x \in MessageIds |-> messages'[x]] /\ attachments' = [a \in AttachmentIds |-> attachments'[a]]
    BY DEF PurgeMessage
  <2> QED BY <1>2, <1>3, <1>4, <2>1
<1>6. \A x \in MessageIds : Stored(x)' <=> Stored(x) /\ x # m
  BY <1>2, <1>3 DEF Stored
<1>7. FilesHold'
  BY <1>4 DEF TablesInv, FilesHold
<1>8. MentionsHold'
  BY <1>2, <1>3 DEF TablesInv, MentionsHold
<1>9. ReferencesHold'
  <2>1. ASSUME NEW a \in AttachmentIds, NEW x \in MessageIds, x = attachments'[a].message
        PROVE  /\ Stored(x)'
               /\ attachments'[a].uploader = messages'[x].author
               /\ attachments'[a].channel = messages'[x].channel
    <3>1. x = attachments[a].message /\ x # m
      BY <1>4, <2>1, TableFacts
    <3>2. /\ Stored(x) /\ attachments[a].uploader = messages[x].author
          /\ attachments[a].channel = messages[x].channel
      BY <3>1, TableFacts DEF TablesInv, ReferencesHold
    <3> QED BY <1>2, <1>4, <1>6, <3>1, <3>2
  <2>2. ASSUME NEW y \in MessageIds, NEW z \in MessageIds, z = messages'[y].reply
        PROVE  Stored(z)' /\ messages'[z].channel = messages'[y].channel
    <3>1. y # m
      BY <1>3, <2>2, TableFacts
    <3>2. z = messages[y].reply /\ z # m
      BY <1>2, <2>2, <3>1, TableFacts
    <3>3. Stored(z) /\ messages[z].channel = messages[y].channel
      BY <3>2, TableFacts DEF TablesInv, ReferencesHold
    <3> QED BY <1>2, <1>6, <3>1, <3>2, <3>3
  <2>3. /\ \A a \in AttachmentIds : attachments'[a].message \in MessageIds \cup {NoMessage}
        /\ \A y \in MessageIds : messages'[y].reply \in MessageIds \cup {NoMessage}
    BY <1>2, <1>3, <1>4 DEF Attachment, Message
  <2> QED BY <2>1, <2>2, <2>3 DEF ReferencesHold, Stored
<1>10. \A x \in MessageIds : RowAges(x)
  <2> SUFFICES ASSUME NEW x \in MessageIds PROVE RowAges(x)
    OBVIOUS
  <2>1. CASE x = m
    BY <1>3, <1>6, <2>1 DEF RowAges
  <2>2. CASE x # m
    <3>1. Says(x)' <=> Says(x)
      BY <1>2, <2>2 DEF Says
    <3> QED BY <1>2, <1>6, <2>2, <3>1 DEF RowAges
  <2> QED BY <2>1, <2>2
<1>11. \A a \in AttachmentIds : FileAges(a)
  <2> SUFFICES ASSUME NEW a \in AttachmentIds PROVE FileAges(a)
    OBVIOUS
  <2>1. \A x \in MessageIds : attachments[a].message = x /\ Stored(x)' => attachments'[a].message = x
    BY <1>4, <1>6
  <2> QED BY <1>4, <2>1 DEF FileAges
<1> QED BY <1>5, <1>7, <1>8, <1>9, <1>10, <1>11 DEF TablesInv, Ages

(***************************************************************************)
(* Requests.                                                               *)
(***************************************************************************)
LEMMA StateFacts ==
  ASSUME MessagesInv
  PROVE  /\ TypeOK /\ TablesInv /\ request \in [Requests -> Request]
         /\ started \in 0..MaxRequests /\ purges \in 0..MaxPurges
         /\ MaxRequests \in Nat /\ MaxPurges \in Nat
         /\ created \subseteq [message : MessageIds, files : SUBSET AttachmentIds]
         /\ \A q \in Requests : request[q] \in Request /\ RequestHolds(request[q])
         /\ \A e \in created : EventHolds(e)
BY MessagesAssumption DEF MessagesInv, TypeOK

LEMMA TablesStay ==
  ASSUME TablesInv, UNCHANGED <<messages, attachments>>
  PROVE  TablesInv' /\ Ages
<1>1. Ages
  BY RowsStay, FilesStay DEF Ages
<1>2. ReferencesHold'
  BY DEF TablesInv, ReferencesHold, Stored
<1> QED BY <1>1, <1>2, RowsStay, FilesStay DEF TablesInv

LEMMA IdleHolds == RequestHolds(Idle)'
BY DEF RequestHolds, Idle

\* Whatever happens to the rows, the other requests' facts stay.
LEMMA OthersKept ==
  ASSUME MessagesInv, TablesInv', Ages, NEW w \in Requests, request'[w] = request[w]
  PROVE  RequestHolds(request[w])'
<1>1. PICK o \in Request : o = request[w]
  BY StateFacts
<1>2. RequestHolds(o)
  BY <1>1, StateFacts
<1>3. RequestHolds(o)'
  BY <1>2, RequestKept, StateFacts
<1>4. request'[w] = o
  BY <1>1
<1> QED BY <1>3, <1>4 DEF RequestHolds

\* A step of request q to r.
LEMMA Advances ==
  ASSUME MessagesInv, TablesInv', Ages, NEW q \in Requests, NEW r \in Request,
         Goes(q, r), RequestHolds(r)', started' \in 0..MaxRequests,
         UNCHANGED purges, created' = created
  PROVE  MessagesInv'
<1>1. /\ request' \in [Requests -> Request] /\ request'[q] = r
      /\ \A w \in Requests : w # q => request'[w] = request[w]
  BY StateFacts DEF Goes
<1>2. ASSUME NEW w \in Requests PROVE RequestHolds(request[w])'
  <2>1. CASE w = q
    <3>1. request'[w] = r
      BY <1>1, <2>1
    <3> QED BY <3>1 DEF RequestHolds
  <2>2. CASE w # q
    BY <1>1, <2>2, OthersKept
  <2> QED BY <2>1, <2>2
<1>3. ASSUME NEW e \in created' PROVE EventHolds(e)'
  BY <1>3, EventKept, StateFacts
<1>4. TypeOK'
  BY <1>1, StateFacts DEF TypeOK, TablesInv
<1> QED BY <1>1, <1>2, <1>3, <1>4 DEF MessagesInv

\* A step of no request.
LEMMA RowsMove ==
  ASSUME MessagesInv, TablesInv', Ages, request' = request, started' \in 0..MaxRequests,
         purges' \in 0..MaxPurges, created' = created
  PROVE  MessagesInv'
<1>1. \A w \in Requests : RequestHolds(request[w])'
  BY OthersKept
<1>2. ASSUME NEW e \in created' PROVE EventHolds(e)'
  BY <1>2, EventKept, StateFacts
<1>3. TypeOK' /\ request' \in [Requests -> Request]
  BY StateFacts DEF TypeOK, TablesInv
<1> QED BY <1>1, <1>2, <1>3 DEF MessagesInv

LEMMA CountedHolds ==
  ASSUME MessagesInv, Counted
  PROVE  started' \in 0..MaxRequests
BY StateFacts DEF Counted

LEMMA EndsHolds ==
  ASSUME MessagesInv, NEW q \in Requests, RequestEnds(q)
  PROVE  MessagesInv'
<1>1. /\ Goes(q, Idle) /\ UNCHANGED <<messages, attachments, started, purges>> /\ created' = created
  BY DEF RequestEnds
<1>2. TablesInv' /\ Ages
  BY <1>1, TablesStay, StateFacts
<1>3. started' \in 0..MaxRequests
  BY <1>1, StateFacts
<1> QED BY <1>1, <1>2, <1>3, IdleHolds, Blanks, Advances

\* A request that begins with what it may know.
LEMMA BeginHolds ==
  ASSUME MessagesInv, NEW q \in Requests, NEW r \in Request, Begin(q, r), RequestHolds(r)'
  PROVE  MessagesInv'
<1>1. /\ Goes(q, r) /\ Counted /\ UNCHANGED <<messages, attachments, purges>> /\ created' = created
  BY DEF Begin
<1>2. TablesInv' /\ Ages
  BY <1>1, TablesStay, StateFacts
<1> QED BY <1>1, <1>2, CountedHolds, Advances

\* A step of a request that leaves the tables alone.
LEMMA QuietHolds ==
  ASSUME MessagesInv, NEW q \in Requests, NEW r \in Request, Goes(q, r), RequestHolds(r)',
         UNCHANGED <<messages, attachments, started, purges>>, created' = created
  PROVE  MessagesInv'
<1>1. TablesInv' /\ Ages
  BY TablesStay, StateFacts
<1>2. started' \in 0..MaxRequests
  BY StateFacts
<1> QED BY <1>1, <1>2, Advances

LEMMA PresignHolds ==
  ASSUME MessagesInv, NEW u \in Users, NEW c \in Channels, Presign(u, c)
  PROVE  MessagesInv'
<1>1. /\ InsertAttachment(c, u) /\ UNCHANGED messages /\ request' = request
      /\ started' = started /\ purges' = purges /\ created' = created
  BY DEF Presign
<1>2. TablesInv' /\ Ages
  BY <1>1, InsertsFile, StateFacts DEF Authors
<1> QED BY <1>1, <1>2, RowsMove, StateFacts

LEMMA UploadBeginHolds ==
  ASSUME MessagesInv, NEW q \in Requests, NEW u \in Users, NEW a \in AttachmentIds,
         UploadBegin(q, u, a)
  PROVE  MessagesInv'
<1> DEFINE r == [Idle EXCEPT !.op = "upload", !.at = "write", !.user = u, !.files = <<a>>]
<1>1. /\ r \in Request /\ r.op = "upload" /\ r.at = "write" /\ r.files = <<a>>
      /\ r.reply = NoMessage
  <2>1. u \in Authors /\ <<a>> \in Seq(AttachmentIds)
    BY DEF Authors
  <2> QED BY <2>1, Blanks DEF Request, Idle, Ops, Steps
<1>2. Begin(q, r)
  BY DEF UploadBegin
<1> HIDE DEF r
<1>3. PICK x \in Request : x = r
  BY <1>1
<1>4. RequestHolds(x)'
  <2>1. Len(<<a>>) = 1
    OBVIOUS
  <2> QED BY <1>1, <1>3, <2>1 DEF RequestHolds
<1> QED BY <1>2, <1>3, <1>4, BeginHolds

LEMMA UploadWriteHolds ==
  ASSUME MessagesInv, NEW q \in Requests, UploadWrite(q)
  PROVE  MessagesInv'
<1>1. PICK a \in AttachmentIds : a = request[q].files[1]
  <2>1. request[q] \in Request /\ Len(request[q].files) = 1
    BY StateFacts DEF UploadWrite, RequestHolds
  <2> QED BY <2>1 DEF Request
<1>2. /\ UploadContent(a, request[q].user) /\ Goes(q, Idle) /\ UNCHANGED <<messages, purges>>
      /\ started' = started /\ created' = created
  BY <1>1 DEF UploadWrite
<1>3. TablesInv' /\ Ages
  BY <1>2, Uploads, StateFacts
<1> QED BY <1>2, <1>3, IdleHolds, Blanks, Advances, StateFacts

LEMMA CreateBeginHolds ==
  ASSUME MessagesInv, NEW q \in Requests, NEW u \in Users, NEW c \in Channels,
         NEW files \in FileLists, CreateBegin(q, u, c, files)
  PROVE  MessagesInv'
<1> DEFINE r == [Idle EXCEPT !.op = "create", !.at = "validate", !.user = u,
                             !.channel = c, !.files = files]
<1>1. u \in Authors /\ files \in Seq(AttachmentIds) /\ files # <<>>
  BY MessagesAssumption DEF Authors, CreateBegin
<1>2. /\ r \in Request /\ r.op = "create" /\ r.at = "validate" /\ r.files = files /\ r.next = 1
      /\ r.reply = NoMessage
  BY <1>1, Blanks DEF Request, Idle, Ops, Steps
<1>3. Begin(q, r)
  BY DEF CreateBegin
<1> HIDE DEF r
<1>4. PICK x \in Request : x = r
  BY <1>2
<1>5. RequestHolds(x)'
  <2>1. 1 \in 1..Len(files) /\ 1..(1 - 1) = {}
    BY <1>1
  <2> QED BY <1>2, <1>4, <2>1 DEF RequestHolds
<1> QED BY <1>3, <1>4, <1>5, BeginHolds

\* One file more was found to be the author's, in the channel.
LEMMA ValidateHolds ==
  ASSUME MessagesInv, NEW q \in Requests, ValidateFile(q)
  PROVE  MessagesInv'
<1>1. PICK o \in Request : o = request[q]
  BY StateFacts
<1>2. RequestHolds(o) /\ o.at = "validate"
  BY <1>1, StateFacts DEF ValidateFile
<1>3. /\ o.op = "create" /\ o.next \in 1..Len(o.files) /\ o.files \in Seq(AttachmentIds)
      /\ o.reply = NoMessage /\ o.next \in Nat
      /\ \A i \in 1..(o.next - 1) : Owned(o.files[i], o.user, o.channel)
  BY <1>2 DEF RequestHolds, Request
<1>4. Owned(o.files[o.next], o.user, o.channel)
  BY <1>1 DEF ValidateFile, UsableFile, Owned
<1>5. UNCHANGED <<messages, attachments, started, purges>> /\ created' = created
  BY DEF ValidateFile
<1>6. TablesInv' /\ Ages
  BY <1>5, TablesStay, StateFacts
<1>7. \A i \in 1..o.next : Owned(o.files[i], o.user, o.channel)'
  <2>1. \A i \in 1..o.next : Owned(o.files[i], o.user, o.channel)
    BY <1>3, <1>4
  <2>2. \A i \in 1..o.next : o.files[i] \in AttachmentIds
    BY <1>3
  <2> QED BY <1>6, <2>1, <2>2, OwnedKept
<1>8. CASE o.next < Len(o.files)
  <2>1. PICK r \in Request : r = [o EXCEPT !.next = @ + 1]
    <3>1. o.next + 1 \in Nat
      BY <1>3
    <3> QED BY <3>1 DEF Request
  <2>2. Goes(q, r)
    BY <1>1, <1>8, <2>1 DEF ValidateFile
  <2>3. /\ r.at = "validate" /\ r.op = "create" /\ r.next = o.next + 1 /\ r.files = o.files
        /\ r.user = o.user /\ r.channel = o.channel /\ r.reply = NoMessage
    BY <1>2, <1>3, <2>1 DEF Request
  <2>4. r.next \in 1..Len(r.files) /\ 1..(r.next - 1) = 1..o.next
    BY <1>3, <1>8, <2>3
  <2>5. \A i \in 1..(r.next - 1) : Owned(r.files[i], r.user, r.channel)'
    BY <1>7, <2>3, <2>4
  <2>6. RequestHolds(r)'
    BY <2>3, <2>4, <2>5 DEF RequestHolds
  <2> QED BY <1>5, <2>2, <2>6, QuietHolds
<1>9. CASE ~(o.next < Len(o.files))
  <2>1. PICK r \in Request : r = [o EXCEPT !.next = 1, !.at = "store"]
    BY DEF Request, Steps
  <2>2. Goes(q, r)
    BY <1>1, <1>9, <2>1 DEF ValidateFile
  <2>3. /\ r.at = "store" /\ r.op = "create" /\ r.next = 1 /\ r.files = o.files
        /\ r.user = o.user /\ r.channel = o.channel /\ r.reply = NoMessage
    BY <1>2, <1>3, <2>1 DEF Request
  <2>4. o.next = Len(o.files) /\ o.files # <<>>
    BY <1>3, <1>9
  <2>5. \A i \in 1..Len(r.files) : Owned(r.files[i], r.user, r.channel)'
    BY <1>7, <2>3, <2>4
  <2>6. Answerable(r.reply, r.channel)'
    BY <2>3 DEF Answerable
  <2>7. RequestHolds(r)'
    BY <2>3, <2>4, <2>5, <2>6 DEF RequestHolds
  <2> QED BY <1>5, <2>2, <2>7, QuietHolds
<1> QED BY <1>8, <1>9

\* A file is linked to the request's message: it is the author's, and of the channel,
\* since it was when it was looked at.
LEMMA LinkHolds ==
  ASSUME MessagesInv, NEW q \in Requests, LinkFile(q)
  PROVE  MessagesInv'
<1>1. PICK o \in Request : o = request[q]
  BY StateFacts
<1>2. RequestHolds(o) /\ o.at = "link"
  BY <1>1, StateFacts DEF LinkFile
<1>3. /\ o.next \in 1..Len(o.files) /\ o.files \in Seq(AttachmentIds) /\ o.next \in Nat
      /\ o.message \in MessageIds /\ Placed(o.message, o.user, o.channel)
      /\ \A i \in 1..Len(o.files) : Owned(o.files[i], o.user, o.channel)
  BY <1>2 DEF RequestHolds, Request
<1>4. PICK a \in AttachmentIds : a = o.files[o.next]
  BY <1>3
<1>5. /\ LinkAttachment(a, o.message) /\ UNCHANGED <<messages, purges>> /\ started' = started
      /\ created' = created
  BY <1>1, <1>4 DEF LinkFile
<1>6. Owned(a, o.user, o.channel)
  BY <1>3, <1>4
<1>7. TablesInv' /\ Ages /\ Delivered(a, o.message)'
  BY <1>3, <1>5, <1>6, Links, StateFacts
<1>8. RequestHolds(o)'
  BY <1>2, <1>7, RequestKept, StateFacts
<1>9. \A i \in 1..o.next : Delivered(o.files[i], o.message)'
  <2>1. \A i \in 1..(o.next - 1) : Delivered(o.files[i], o.message)'
    BY <1>2, <1>8 DEF RequestHolds
  <2>2. Delivered(o.files[o.next], o.message)'
    BY <1>4, <1>7
  <2> QED BY <1>3, <2>1, <2>2
<1>10. started' \in 0..MaxRequests
  BY <1>5, StateFacts
<1>11. CASE o.next < Len(o.files)
  <2>1. PICK r \in Request : r = [o EXCEPT !.next = @ + 1]
    <3>1. o.next + 1 \in Nat
      BY <1>3
    <3> QED BY <3>1 DEF Request
  <2>2. Goes(q, r)
    BY <1>1, <1>11, <2>1 DEF LinkFile
  <2>3. /\ r.at = "link" /\ r.op = o.op /\ r.next = o.next + 1 /\ r.files = o.files
        /\ r.user = o.user /\ r.channel = o.channel /\ r.reply = o.reply /\ r.message = o.message
    BY <1>2, <2>1 DEF Request
  <2>4. r.next \in 1..Len(r.files) /\ 1..(r.next - 1) = 1..o.next
    BY <1>3, <1>11, <2>3
  <2>5. \A i \in 1..(r.next - 1) : Delivered(r.files[i], r.message)'
    BY <1>9, <2>3, <2>4
  <2>6. RequestHolds(r)'
    BY <1>2, <1>8, <2>3, <2>4, <2>5 DEF RequestHolds
  <2> QED BY <1>5, <1>7, <1>10, <2>2, <2>6, Advances
<1>12. CASE ~(o.next < Len(o.files))
  <2>1. PICK r \in Request : r = [o EXCEPT !.at = "announce"]
    BY DEF Request, Steps
  <2>2. Goes(q, r)
    BY <1>1, <1>12, <2>1 DEF LinkFile
  <2>3. /\ r.at = "announce" /\ r.op = o.op /\ r.files = o.files
        /\ r.user = o.user /\ r.channel = o.channel /\ r.reply = o.reply /\ r.message = o.message
    BY <1>2, <2>1 DEF Request
  <2>4. o.next = Len(o.files)
    BY <1>3, <1>12
  <2>5. \A i \in 1..Len(r.files) : Delivered(r.files[i], r.message)'
    BY <1>9, <2>3, <2>4
  <2>6. RequestHolds(r)'
    BY <1>2, <1>8, <2>3, <2>5 DEF RequestHolds
  <2> QED BY <1>5, <1>7, <1>10, <2>2, <2>6, Advances
<1> QED BY <1>11, <1>12

\* The event lists what is linked.
LEMMA AnnounceHolds ==
  ASSUME MessagesInv, NEW q \in Requests, Announce(q)
  PROVE  MessagesInv'
<1>1. PICK o \in Request : o = request[q]
  BY StateFacts
<1>2. RequestHolds(o) /\ o.at = "announce"
  BY <1>1, StateFacts DEF Announce
<1>3. /\ UNCHANGED <<messages, attachments, started, purges>> /\ Goes(q, Idle)
  BY DEF Announce
<1>4. TablesInv' /\ Ages
  BY <1>3, TablesStay, StateFacts
<1>5. o.files \in Seq(AttachmentIds) /\ o.message \in MessageIds
  BY <1>2 DEF RequestHolds, Request
<1>6. Range(o.files) = {o.files[i] : i \in 1..Len(o.files)}
  BY <1>5 DEF Range
<1>7. PICK e \in [message : MessageIds, files : SUBSET AttachmentIds] :
        e = [message |-> o.message, files |-> Range(o.files)]
  <2>1. Range(o.files) \in SUBSET AttachmentIds
    BY <1>5, <1>6
  <2> QED BY <1>5, <2>1
<1>8. e.message = o.message /\ e.files = {o.files[i] : i \in 1..Len(o.files)}
  BY <1>6, <1>7
<1>9. created' = created \cup {e}
  BY <1>1, <1>7 DEF Announce
<1>10. EventHolds(e)'
  <2>1. RequestHolds(o)'
    BY <1>2, <1>4, RequestKept, StateFacts
  <2>2. /\ messages'[o.message].state # "none"
        /\ \A i \in 1..Len(o.files) : Delivered(o.files[i], o.message)'
        /\ Stored(o.message)' => Says(o.message)' \/ o.files # <<>>
    BY <1>2, <2>1 DEF RequestHolds, Placed
  <2>3. \A a \in e.files : Delivered(a, e.message)'
    BY <1>8, <2>2
  <2>4. o.files # <<>> => e.files # {}
    <3>1. o.files # <<>> => 1 \in 1..Len(o.files)
      BY <1>5
    <3> QED BY <1>8, <3>1
  <2> QED BY <1>8, <2>2, <2>3, <2>4 DEF EventHolds
<1>11. \A x \in created' : EventHolds(x)'
  BY <1>4, <1>9, <1>10, EventKept, StateFacts
<1>12. /\ request' \in [Requests -> Request] /\ request'[q] = Idle
       /\ \A w \in Requests : w # q => request'[w] = request[w]
  BY <1>3, Blanks, StateFacts DEF Goes
<1>13. ASSUME NEW w \in Requests PROVE RequestHolds(request[w])'
  <2>1. CASE w = q
    BY <1>12, <2>1 DEF RequestHolds, Idle
  <2>2. CASE w # q
    BY <1>4, <1>12, <2>2, OthersKept
  <2> QED BY <2>1, <2>2
<1>14. TypeOK'
  BY <1>3, <1>4, <1>7, <1>9, <1>12, StateFacts DEF TypeOK, TablesInv
<1> QED BY <1>4, <1>11, <1>12, <1>13, <1>14 DEF MessagesInv

\* The row of a message as the routes make it.
LEMMA RowFacts ==
  ASSUME NEW author \in Authors, NEW body \in Bodies, body.len <= MaxContent
  PROVE  LET row == Row(author, body)
         IN  /\ row \in Message /\ row.state = "live" /\ row.author = author
             /\ row.content \in Content /\ row.content.len = body.len
             /\ row.content.mentions = body.mentions /\ body.mentions \subseteq Targets
             /\ row.mentions = {} /\ row.embeds = <<>> /\ row.components = 0
             /\ row.reply = NoMessage
             /\ body.len \in Nat
<1>1. body.len \in Nat /\ body.mentions \subseteq Targets /\ body \in [len : Nat, pad : Nat, mentions : SUBSET Targets]
  BY MessagesAssumption
<1>2. body.len \in 0..MaxContent
  BY <1>1, PayloadsAssumption
<1> DEFINE c == NormalizeContent(body)
<1>3. c \in Content /\ c.len = body.len /\ c.mentions = body.mentions
  BY <1>1, <1>2 DEF NormalizeContent, Trim, Content
<1> HIDE DEF c
<1> DEFINE row == [NoRow EXCEPT !.state = "live", !.author = author, !.content = c]
<1>4. /\ row \in Message /\ row.state = "live" /\ row.author = author /\ row.content = c
      /\ row.mentions = {} /\ row.embeds = <<>> /\ row.components = 0 /\ row.reply = NoMessage
  <2>1. NoRow \in Message
    BY Blanks
  <2>2. NoRow.mentions = {} /\ NoRow.embeds = <<>> /\ NoRow.components = 0 /\ NoRow.reply = NoMessage
    BY DEF NoRow
  <2> QED BY <1>3, <2>1, <2>2 DEF Message
<1>5. Row(author, body) = row
  BY DEF Row, c
<1> HIDE DEF row
<1> QED BY <1>1, <1>2, <1>3, <1>4, <1>5

\* The message is stored under a new id, for its author and in its channel.
LEMMA StoreHolds ==
  ASSUME MessagesInv, NEW q \in Requests, NEW o \in Request, NEW row \in Message,
         Store(q, o, row), row.state = "live", row.author = o.user,
         row.mentions \subseteq row.content.mentions, Answerable(row.reply, o.channel),
         o.next = 1, o.op \in {"create", "bot_create"},
         o.op = "bot_create" => o.user = Bot, o.op = "create" => o.reply = NoMessage,
         \A i \in 1..Len(o.files) : Owned(o.files[i], o.user, o.channel),
         row.content.len > 0 \/ row.embeds # <<>> \/ row.components > 0 \/ o.files # <<>>,
         started' \in 0..MaxRequests
  PROVE  MessagesInv'
<1>1. PICK m \in MessageIds : m = Fresh
  <2>1. Unused # {} /\ Unused \subseteq Nat
    BY MessagesAssumption DEF Store, Unused
  <2>2. Fresh \in Unused
    BY <2>1, NatMin DEF Fresh
  <2> QED BY <2>2 DEF Unused
<1>2. PICK v \in Message : v = [row EXCEPT !.channel = o.channel]
  BY DEF Message, Request
<1>3. /\ v.state = "live" /\ v.author = o.user /\ v.channel = o.channel
      /\ v.content = row.content /\ v.mentions = row.mentions /\ v.embeds = row.embeds
      /\ v.components = row.components /\ v.reply = row.reply
  BY <1>2 DEF Message
<1>4. /\ InsertMessage(m, v) /\ UNCHANGED attachments /\ purges' = purges /\ created' = created
  BY <1>1, <1>2 DEF Store
<1>5. TablesInv' /\ Ages /\ messages'[m] = v
  BY <1>3, <1>4, Inserts, StateFacts
<1>6. PICK r \in Request :
        r = [o EXCEPT !.message = m, !.at = IF o.files = <<>> THEN "announce" ELSE "link"]
  BY DEF Request, Steps
<1>7. Goes(q, r)
  BY <1>1, <1>6 DEF Store
<1>8. /\ r.message = m /\ r.at = (IF o.files = <<>> THEN "announce" ELSE "link")
      /\ r.op = o.op /\ r.user = o.user /\ r.channel = o.channel /\ r.files = o.files
      /\ r.next = 1 /\ r.reply = o.reply /\ r.files \in Seq(AttachmentIds)
  BY <1>6 DEF Request
<1>9. \A i \in 1..Len(r.files) : Owned(r.files[i], r.user, r.channel)'
  BY <1>5, <1>8, OwnedKept
<1>10. Placed(m, r.user, r.channel)' /\ (Says(m)' \/ r.files # <<>>)
  BY <1>3, <1>5, <1>8 DEF Placed, Says
<1>11. RequestHolds(r)'
  <2>1. CASE o.files = <<>>
    <3>1. r.at = "announce" /\ 1..Len(r.files) = {}
      BY <1>8, <2>1
    <3> QED BY <1>8, <1>10, <3>1 DEF RequestHolds
  <2>2. CASE o.files # <<>>
    <3>1. r.at = "link" /\ 1 \in 1..Len(r.files) /\ 1..(1 - 1) = {}
      BY <1>8, <2>2
    <3> QED BY <1>8, <1>9, <1>10, <3>1 DEF RequestHolds
  <2> QED BY <2>1, <2>2
<1> QED BY <1>4, <1>5, <1>7, <1>11, Advances

LEMMA CreateStoreHolds ==
  ASSUME MessagesInv, NEW q \in Requests, NEW body \in Bodies, CreateStore(q, body)
  PROVE  MessagesInv'
<1>1. PICK o \in Request : o = request[q]
  BY StateFacts
<1>2. RequestHolds(o) /\ o.at = "store" /\ o.op = "create" /\ body.len <= MaxContent
  BY <1>1, StateFacts DEF CreateStore, ValidContent
<1>3. /\ o.files # <<>> /\ o.next = 1 /\ o.reply = NoMessage /\ o.user \in Authors
      /\ \A i \in 1..Len(o.files) : Owned(o.files[i], o.user, o.channel)
  BY <1>2 DEF RequestHolds, Request
<1>4. PICK row \in Message : row = Row(o.user, body)
  BY <1>2, <1>3, RowFacts
<1>5. /\ row.state = "live" /\ row.author = o.user /\ row.mentions = {} /\ row.reply = NoMessage
  BY <1>2, <1>3, <1>4, RowFacts
<1>6. Store(q, o, row) /\ started' = started
  BY <1>1, <1>4 DEF CreateStore
<1>7. Answerable(row.reply, o.channel) /\ row.mentions \subseteq row.content.mentions
  BY <1>5 DEF Answerable
<1>8. started' \in 0..MaxRequests
  BY <1>6, StateFacts
<1> QED BY <1>2, <1>3, <1>5, <1>6, <1>7, <1>8, StoreHolds

\* Messages without files, of users and of webhooks.
LEMMA PlainHolds ==
  ASSUME MessagesInv, NEW q \in Requests, NEW user \in Authors, NEW c \in Channels,
         NEW row \in Message, row.state = "live", row.author = user, row.mentions = {},
         row.reply = NoMessage, row.content.len > 0 \/ row.embeds # <<>>,
         NEW o \in Request, o.op = "create", o.user = user, o.channel = c, o.files = <<>>,
         o.next = 1, o.reply = NoMessage, Store(q, o, row), Counted
  PROVE  MessagesInv'
<1>2. \A i \in 1..Len(o.files) : Owned(o.files[i], o.user, o.channel)
  OBVIOUS
<1>3. Answerable(row.reply, o.channel) /\ row.mentions \subseteq row.content.mentions
  BY DEF Answerable
<1>4. started' \in 0..MaxRequests
  BY CountedHolds
<1> QED BY <1>2, <1>3, <1>4, StoreHolds

LEMMA CreatePlainHolds ==
  ASSUME MessagesInv, NEW q \in Requests, NEW u \in Users, NEW c \in Channels,
         NEW body \in Bodies, CreatePlain(q, u, c, body)
  PROVE  MessagesInv'
<1>1. u \in Authors /\ body.len <= MaxContent /\ body.len # 0 /\ Counted
  BY DEF Authors, CreatePlain, ValidContent
<1>2. PICK row \in Message : row = Row(u, body)
  BY <1>1, RowFacts
<1>3. /\ row.state = "live" /\ row.author = u /\ row.mentions = {} /\ row.reply = NoMessage
      /\ row.content.len > 0
  BY <1>1, <1>2, RowFacts
<1>4. PICK o \in Request : o = [Idle EXCEPT !.op = "create", !.user = u, !.channel = c]
  BY <1>1, Blanks DEF Request, Ops
<1>5. /\ o.op = "create" /\ o.user = u /\ o.channel = c /\ o.files = <<>> /\ o.next = 1
      /\ o.reply = NoMessage
  BY <1>4 DEF Idle
<1>6. Store(q, o, row)
  BY <1>2, <1>4 DEF CreatePlain
<1> QED BY <1>1, <1>3, <1>5, <1>6, PlainHolds

LEMMA ExecuteHolds ==
  ASSUME MessagesInv, NEW q \in Requests, NEW c \in Channels, NEW body \in Bodies,
         NEW embeds \in AcceptedEmbeds, Execute(q, c, body, embeds)
  PROVE  MessagesInv'
<1>1. /\ Hook \in Authors /\ body.len <= MaxContent /\ Counted
      /\ embeds = <<>> => body.len # 0
  BY DEF Authors, Execute, ValidContent
<1>2. PICK b \in Message : b = Row(Hook, body)
  BY <1>1, RowFacts
<1>3. /\ b.state = "live" /\ b.author = Hook /\ b.mentions = {} /\ b.reply = NoMessage
      /\ embeds = <<>> => b.content.len > 0
  BY <1>1, <1>2, RowFacts
<1>4. PICK row \in Message : row = [b EXCEPT !.embeds = embeds]
  BY DEF Message
<1>5. /\ row.state = "live" /\ row.author = Hook /\ row.mentions = {} /\ row.reply = NoMessage
      /\ row.embeds = embeds /\ row.content = b.content
  BY <1>3, <1>4 DEF Message
<1>6. PICK o \in Request : o = [Idle EXCEPT !.channel = c, !.op = "create"]
  BY Blanks DEF Request, Ops
<1>7. /\ o.op = "create" /\ o.user = Hook /\ o.channel = c /\ o.files = <<>> /\ o.next = 1
      /\ o.reply = NoMessage
  BY <1>6 DEF Idle
<1>8. Store(q, o, row)
  BY <1>2, <1>4, <1>6 DEF Execute
<1> QED BY <1>1, <1>3, <1>5, <1>7, <1>8, PlainHolds

LEMMA BotBeginHolds ==
  ASSUME MessagesInv, NEW q \in Requests, NEW c \in Channels, BotCreateBegin(q, c)
  PROVE  MessagesInv'
<1>1. PICK r \in Request :
        r = [Idle EXCEPT !.op = "bot_create", !.at = "files", !.user = Bot, !.channel = c]
  <2>1. Bot \in Authors
    BY DEF Authors
  <2> QED BY <2>1, Blanks DEF Request, Ops, Steps
<1>2. /\ r.op = "bot_create" /\ r.at = "files" /\ r.user = Bot /\ r.files = <<>> /\ r.next = 1
      /\ r.reply = NoMessage
  BY <1>1 DEF Idle
<1>3. RequestHolds(r)'
  <2>1. 1..Len(r.files) = {}
    BY <1>2
  <2>2. Answerable(r.reply, r.channel)'
    BY <1>2 DEF Answerable
  <2> QED BY <1>2, <2>1, <2>2 DEF RequestHolds
<1>4. Begin(q, r)
  BY <1>1 DEF BotCreateBegin
<1> QED BY <1>3, <1>4, BeginHolds

\* A file of a multipart request: the row, then its content.
LEMMA BotFileHolds ==
  ASSUME MessagesInv, NEW q \in Requests, BotFileBegin(q)
  PROVE  MessagesInv'
<1>1. PICK o \in Request : o = request[q]
  BY StateFacts
<1>2. RequestHolds(o) /\ o.at = "files"
  BY <1>1, StateFacts DEF BotFileBegin
<1>3. /\ o.op = "bot_create" /\ o.user = Bot /\ o.next = 1 /\ Answerable(o.reply, o.channel)
      /\ o.files \in Seq(AttachmentIds) /\ o.reply \in MessageIds \cup {NoMessage}
      /\ o.channel \in Channels \cup {NoChannel}
      /\ \A i \in 1..Len(o.files) : Owned(o.files[i], o.user, o.channel)
  BY <1>2 DEF RequestHolds, Request
<1>4. /\ InsertAttachment(o.channel, Bot) /\ UNCHANGED messages /\ started' = started
      /\ purges' = purges /\ created' = created
  BY <1>1 DEF BotFileBegin
<1>5. /\ TablesInv' /\ Ages
      /\ FreshFile \in AttachmentIds /\ attachments'[FreshFile].status = "pending"
      /\ attachments'[FreshFile].uploader = Bot /\ attachments'[FreshFile].channel = o.channel
  BY <1>3, <1>4, InsertsFile, StateFacts DEF Authors
<1>6. PICK f \in AttachmentIds :
        /\ f = FreshFile /\ attachments'[f].status = "pending"
        /\ attachments'[f].uploader = Bot /\ attachments'[f].channel = o.channel
  BY <1>5
<1>7. Owned(f, Bot, o.channel)'
  BY <1>6 DEF Owned
<1>8. PICK fs \in Seq(AttachmentIds) : fs = Append(o.files, f)
  <2>1. o.files \in Seq(AttachmentIds)
    BY <1>3
  <2>2. Append(o.files, f) \in Seq(AttachmentIds)
    BY <2>1
  <2> QED BY <2>2
<1>9. PICK r \in Request : r = [o EXCEPT !.at = "fill", !.files = fs]
  BY DEF Request, Steps
<1>10. Goes(q, r)
  BY <1>1, <1>6, <1>8, <1>9 DEF BotFileBegin
<1>11. /\ r.op = "bot_create" /\ r.at = "fill" /\ r.user = Bot /\ r.files = fs /\ r.next = 1
       /\ r.reply = o.reply /\ r.channel = o.channel
  BY <1>3, <1>9 DEF Request
<1>12. ASSUME NEW i \in 1..Len(fs) PROVE Owned(fs[i], Bot, o.channel)'
  <2>1. CASE i \in 1..Len(o.files)
    <3>1. fs[i] = o.files[i] /\ o.files[i] \in AttachmentIds
      BY <1>3, <1>8, <2>1
    <3>2. Owned(o.files[i], Bot, o.channel)
      BY <1>3, <2>1
    <3>3. Owned(o.files[i], Bot, o.channel)'
      BY <1>5, <3>1, <3>2, OwnedKept
    <3> QED BY <3>1, <3>3
  <2>2. CASE i = Len(o.files) + 1
    <3>1. fs[i] = f
      BY <1>3, <1>8, <2>2
    <3> QED BY <1>7, <3>1
  <2> QED BY <1>3, <1>8, <2>1, <2>2
<1>13. Answerable(r.reply, r.channel)'
  BY <1>3, <1>5, <1>11, AnswerableKept
<1>14. Len(fs) >= 1
  BY <1>3, <1>8
<1>15. RequestHolds(r)'
  BY <1>11, <1>12, <1>13, <1>14 DEF RequestHolds
<1> QED BY <1>4, <1>5, <1>10, <1>15, Advances, StateFacts

LEMMA BotWriteHolds ==
  ASSUME MessagesInv, NEW q \in Requests, BotFileWrite(q)
  PROVE  MessagesInv'
<1>1. PICK o \in Request : o = request[q]
  BY StateFacts
<1>2. RequestHolds(o) /\ o.at = "fill"
  BY <1>1, StateFacts DEF BotFileWrite
<1>3. PICK a \in AttachmentIds : a = o.files[Len(o.files)]
  <2>1. Len(o.files) >= 1 /\ o.files \in Seq(AttachmentIds)
    BY <1>2 DEF RequestHolds, Request
  <2> QED BY <2>1
<1>4. /\ UploadContent(a, Bot) /\ UNCHANGED messages /\ started' = started
      /\ purges' = purges /\ created' = created
  BY <1>1, <1>3 DEF BotFileWrite
<1>5. TablesInv' /\ Ages
  BY <1>4, Uploads, StateFacts
<1>6. RequestHolds(o)'
  BY <1>2, <1>5, RequestKept, StateFacts
<1>7. PICK r \in Request : r = [o EXCEPT !.at = "files"]
  BY DEF Request, Steps
<1>8. Goes(q, r)
  BY <1>1, <1>7 DEF BotFileWrite
<1>9. /\ r.op = o.op /\ r.at = "files" /\ r.user = o.user /\ r.files = o.files /\ r.next = o.next
      /\ r.reply = o.reply /\ r.channel = o.channel /\ r.message = o.message
  BY <1>7 DEF Request
<1>10. RequestHolds(r)'
  BY <1>2, <1>6, <1>9 DEF RequestHolds
<1> QED BY <1>4, <1>5, <1>8, <1>10, Advances, StateFacts

LEMMA BotReplyHolds ==
  ASSUME MessagesInv, NEW q \in Requests, NEW m \in MessageIds \cup {NoMessage}, BotReply(q, m)
  PROVE  MessagesInv'
<1>1. PICK o \in Request : o = request[q]
  BY StateFacts
<1>2. RequestHolds(o) /\ o.at = "files"
  BY <1>1, StateFacts DEF BotReply
<1>3. UNCHANGED <<messages, attachments, started, purges>> /\ created' = created
  BY DEF BotReply
<1>4. TablesInv' /\ Ages
  BY <1>3, TablesStay, StateFacts
<1>5. Answerable(m, o.channel)
  BY <1>1 DEF BotReply, InChannel, GetMessage, Answerable
<1>6. Answerable(m, o.channel)' /\ RequestHolds(o)'
  BY <1>2, <1>4, <1>5, AnswerableKept, RequestKept, StateFacts
<1>7. PICK r \in Request : r = [o EXCEPT !.reply = m, !.at = "store"]
  BY DEF Request, Steps
<1>8. Goes(q, r)
  BY <1>1, <1>7 DEF BotReply
<1>9. /\ r.op = o.op /\ r.at = "store" /\ r.user = o.user /\ r.files = o.files /\ r.next = o.next
      /\ r.reply = m /\ r.channel = o.channel /\ r.message = o.message
  BY <1>7 DEF Request
<1>10. RequestHolds(r)'
  BY <1>2, <1>6, <1>9 DEF RequestHolds
<1> QED BY <1>3, <1>8, <1>10, QuietHolds

\* Mentions a request resolves are mentions of its content.
LEMMA ResolvedMentioned ==
  ASSUME NEW body \in Bodies, NEW ms \in Resolved(body)
  PROVE  ms \subseteq body.mentions /\ ms \in SUBSET Targets
BY MessagesAssumption DEF Resolved, ResolveMentions

LEMMA BotStoreHolds ==
  ASSUME MessagesInv, NEW q \in Requests, NEW body \in Bodies, NEW es \in AcceptedEmbeds,
         NEW ms \in Resolved(body), NEW n \in 0..(MaxComponents + 1),
         BotCreateStore(q, body, es, ms, n)
  PROVE  MessagesInv'
<1>1. PICK o \in Request : o = request[q]
  BY StateFacts
<1>2. RequestHolds(o) /\ o.at = "store" /\ o.op = "bot_create"
  BY <1>1, StateFacts DEF BotCreateStore
<1>3. /\ o.user = Bot /\ o.next = 1 /\ Answerable(o.reply, o.channel)
      /\ o.reply \in MessageIds \cup {NoMessage}
      /\ \A i \in 1..Len(o.files) : Owned(o.files[i], o.user, o.channel)
  BY <1>2 DEF RequestHolds, Request
<1>4. /\ body.len <= MaxContent /\ n <= MaxComponents
      /\ body.len = 0 => es # <<>> \/ n > 0 \/ o.files # <<>>
  BY <1>1 DEF BotCreateStore, ValidContent, ValidComponents
<1>5. n \in 0..MaxComponents /\ Bot \in Authors
  BY <1>4, MessagesAssumption DEF Authors
<1>6. PICK b \in Message : b = Row(Bot, body)
  BY <1>4, <1>5, RowFacts
<1>7. /\ b.state = "live" /\ b.author = Bot /\ b.content.len = body.len
      /\ b.content.mentions = body.mentions /\ body.len \in Nat
  BY <1>4, <1>5, <1>6, RowFacts
<1>8. ms \subseteq body.mentions /\ ms \in SUBSET Targets
  BY ResolvedMentioned
<1>9. PICK row \in Message :
        row = [b EXCEPT !.embeds = es, !.mentions = ms, !.components = n, !.reply = o.reply]
  BY <1>3, <1>5, <1>8 DEF Message
<1>10. /\ row.state = "live" /\ row.author = Bot /\ row.content = b.content /\ row.embeds = es
       /\ row.mentions = ms /\ row.components = n /\ row.reply = o.reply
  BY <1>7, <1>9 DEF Message
<1>11. Store(q, o, row) /\ started' = started
  BY <1>1, <1>6, <1>9 DEF BotCreateStore
<1>12. row.mentions \subseteq row.content.mentions
  BY <1>7, <1>8, <1>10
<1>13. row.content.len > 0 \/ row.embeds # <<>> \/ row.components > 0 \/ o.files # <<>>
  BY <1>4, <1>7, <1>10
<1>14. started' \in 0..MaxRequests
  BY <1>11, StateFacts
<1> QED BY <1>2, <1>3, <1>10, <1>11, <1>12, <1>13, <1>14, StoreHolds

LEMMA EditBeginHolds ==
  ASSUME MessagesInv, NEW q \in Requests, NEW u \in Authors, NEW m \in MessageIds,
         EditBegin(q, u, m)
  PROVE  MessagesInv'
<1>1. PICK r \in Request :
        r = [Idle EXCEPT !.op = "edit", !.at = "write", !.user = u, !.message = m,
                         !.components = messages[m].components]
  <2>1. messages[m].components \in 0..MaxComponents
    BY StateFacts, TableFacts DEF Message
  <2> QED BY <2>1, Blanks DEF Request, Ops, Steps
<1>2. r.op = "edit" /\ r.at = "write" /\ r.message = m /\ r.reply = NoMessage
  BY <1>1 DEF Idle
<1>3. RequestHolds(r)'
  BY <1>2 DEF RequestHolds
<1>4. Begin(q, r)
  BY <1>1 DEF EditBegin
<1> QED BY <1>3, <1>4, BeginHolds

LEMMA EditStoreHolds ==
  ASSUME MessagesInv, NEW q \in Requests, NEW body \in Bodies, NEW ms \in SUBSET Targets,
         ms \subseteq body.mentions, NEW n \in 0..MaxComponents, request[q].op = "edit",
         EditStore(q, body, ms, n)
  PROVE  MessagesInv'
<1>1. PICK m \in MessageIds : m = request[q].message
  BY StateFacts DEF RequestHolds
<1>2. body.len <= MaxContent /\ body.len # 0
  BY DEF EditStore, ValidContent
<1>3. PICK c \in Content : c = NormalizeContent(body) /\ c.len > 0 /\ c.mentions = body.mentions
  <2>1. body \in [len : Nat, pad : Nat, mentions : SUBSET Targets] /\ MaxContent \in Nat
    BY MessagesAssumption, PayloadsAssumption
  <2> DEFINE c == NormalizeContent(body)
  <2>2. c \in Content /\ c.len > 0 /\ c.mentions = body.mentions
    BY <1>2, <2>1 DEF NormalizeContent, Trim, Content
  <2> QED BY <2>2
<1>4. /\ UpdateMessage(m, c, ms, n) /\ Goes(q, Idle) /\ UNCHANGED attachments
      /\ started' = started /\ purges' = purges /\ created' = created
  BY <1>1, <1>3 DEF EditStore
<1>5. TablesInv' /\ Ages
  BY <1>3, <1>4, Updates, StateFacts
<1> QED BY <1>4, <1>5, IdleHolds, Blanks, Advances, StateFacts

LEMMA UpdateHolds ==
  ASSUME MessagesInv, NEW q \in Requests, NEW body \in Bodies, Update(q, body)
  PROVE  MessagesInv'
<1>1. /\ request[q].op = "edit" /\ EditStore(q, body, {}, request[q].components)
      /\ request[q].components \in 0..MaxComponents
  BY StateFacts DEF Update, Request
<1>2. {} \in SUBSET Targets /\ {} \subseteq body.mentions
  OBVIOUS
<1> QED BY <1>1, <1>2, EditStoreHolds

LEMMA BotUpdateHolds ==
  ASSUME MessagesInv, NEW q \in Requests, NEW body \in Bodies, NEW ms \in Resolved(body),
         NEW n \in {request[q].components} \cup 0..(MaxComponents + 1),
         BotUpdate(q, body, ms, n)
  PROVE  MessagesInv'
<1>1. request[q].op = "edit" /\ EditStore(q, body, ms, n)
  BY DEF BotUpdate
<1>2. n \in 0..MaxComponents
  <2>1. n <= MaxComponents /\ MaxComponents \in Nat /\ request[q].components \in 0..MaxComponents
    BY StateFacts, MessagesAssumption DEF BotUpdate, ValidComponents, Request
  <2> QED BY <2>1
<1>3. ms \subseteq body.mentions /\ ms \in SUBSET Targets
  BY ResolvedMentioned
<1> QED BY <1>1, <1>2, <1>3, EditStoreHolds

LEMMA DeleteHolds ==
  ASSUME MessagesInv, NEW m \in MessageIds, Delete(m)
  PROVE  MessagesInv'
<1>1. /\ Counted /\ DeleteMessage(m) /\ UNCHANGED attachments /\ request' = request
      /\ purges' = purges /\ created' = created
  BY DEF Delete
<1>2. TablesInv' /\ Ages
  BY <1>1, Deletes, StateFacts
<1> QED BY <1>1, <1>2, CountedHolds, RowsMove, StateFacts

LEMMA PurgeHolds ==
  ASSUME MessagesInv, Purge
  PROVE  MessagesInv'
<1>1. /\ request' = request /\ started' = started /\ created' = created
      /\ purges' \in 0..MaxPurges
  BY StateFacts DEF Purge
<1>2. TablesInv' /\ Ages
  BY PurgesMessage, PurgesFile, StateFacts DEF Purge
<1> QED BY <1>1, <1>2, RowsMove, StateFacts

(***************************************************************************)
(* The theorems.                                                           *)
(***************************************************************************)

\* The inductive invariant of messages and attachments: every fact a request
\* relies on after it has looked at a row stays true until the request uses it.
THEOREM MessagesInvariant == Spec => []MessagesInv
<1>1. Init => MessagesInv
  <2> SUFFICES ASSUME Init PROVE MessagesInv
    OBVIOUS
  <2>1. /\ messages \in [MessageIds -> Message] /\ attachments \in [AttachmentIds -> Attachment]
        /\ request \in [Requests -> Request]
    BY Blanks DEF Init
  <2>2. TypeOK
    BY <2>1, MessagesAssumption DEF Init, TypeOK
  <2>3. /\ \A a \in AttachmentIds : attachments[a].message = NoMessage /\ attachments[a].status = "none"
        /\ \A m \in MessageIds : messages[m].reply = NoMessage /\ messages[m].mentions = {}
    BY DEF Init, NoFile, NoRow
  <2>4. TablesInv
    BY <2>1, <2>3 DEF TablesInv, FilesHold, ReferencesHold, MentionsHold
  <2>5. \A q \in Requests : RequestHolds(request[q])
    BY DEF Init, RequestHolds, Idle
  <2> QED BY <2>1, <2>2, <2>4, <2>5 DEF Init, MessagesInv
<1>2. MessagesInv /\ [Next]_vars => MessagesInv'
  <2> SUFFICES ASSUME MessagesInv, [Next]_vars PROVE MessagesInv'
    OBVIOUS
  <2>1. ASSUME NEW q \in Requests, Native(q) PROVE MessagesInv'
    BY <2>1, UploadBeginHolds, UploadWriteHolds, CreateBeginHolds, ValidateHolds,
       CreatePlainHolds, CreateStoreHolds, LinkHolds, AnnounceHolds, EditBeginHolds,
       UpdateHolds, EndsHolds DEF Native, Authors
  <2>2. ASSUME NEW q \in Requests, Compat(q) PROVE MessagesInv'
    BY <2>2, BotBeginHolds, BotFileHolds, BotWriteHolds, BotReplyHolds, BotStoreHolds,
       EditBeginHolds, BotUpdateHolds DEF Compat, Authors
  <2>3. ASSUME NEW q \in Requests, Webhooks(q) PROVE MessagesInv'
    BY <2>3, ExecuteHolds DEF Webhooks
  <2>4. ASSUME NEW u \in Users, NEW c \in Channels, Presign(u, c) PROVE MessagesInv'
    BY <2>4, PresignHolds
  <2>5. ASSUME NEW m \in MessageIds, Delete(m) \/ \E c \in Channels : BotDelete(m, c)
        PROVE  MessagesInv'
    BY <2>5, DeleteHolds DEF BotDelete
  <2>6. CASE UNCHANGED vars
    <3>1. /\ messages' = messages /\ attachments' = attachments /\ request' = request
          /\ started' = started /\ purges' = purges /\ created' = created
      BY <2>6 DEF vars
    <3>2. TablesInv' /\ Ages
      BY <3>1, TablesStay, StateFacts
    <3> QED BY <3>1, <3>2, RowsMove, StateFacts
  <2> QED BY <2>1, <2>2, <2>3, <2>4, <2>5, <2>6, PurgeHolds DEF Next
<1> QED BY <1>1, <1>2, PTL DEF Spec

\* Every row of the two tables and every request has its type: contents are
\* trimmed and within their limit and embeds are normalised, whoever wrote them.
THEOREM MessagesTyped == Spec => []TypeOK
<1>1. MessagesInv => TypeOK
  BY DEF MessagesInv
<1> QED BY <1>1, MessagesInvariant, PTL

\* A message's files are its author's, uploaded in its channel, and a reply is to
\* a stored message of its channel, for every interleaving of requests and purges.
THEOREM ReferencesSound == Spec => []ReferencesHold
<1>1. MessagesInv => ReferencesHold
  BY DEF MessagesInv, TablesInv
<1> QED BY <1>1, MessagesInvariant, PTL

\* What message.created has told stays true until one of the rows is purged.
THEOREM AnnouncedTrue == Spec => []AnnouncedWhole
<1>1. MessagesInv => AnnouncedWhole
  <2> SUFFICES ASSUME MessagesInv, NEW e \in created, Stored(e.message)
               PROVE  /\ \A a \in e.files :
                           Exists(a) => attachments[a].message = e.message /\ attachments[a].stored
                      /\ \/ messages[e.message].content.len > 0
                         \/ messages[e.message].embeds # <<>> \/ messages[e.message].components > 0
                         \/ e.files # {}
    BY DEF AnnouncedWhole
  <2>1. EventHolds(e)
    BY StateFacts
  <2> QED BY <2>1 DEF EventHolds, Delivered, Says
<1> QED BY <1>1, MessagesInvariant, PTL


(***************************************************************************)
(* A linked file does not change.                                          *)
(***************************************************************************)
Frozen(a) ==
  LET m == attachments[a].message
  IN  m # NoMessage /\ messages'[m].state # "purged" /\ attachments'[a].status # "purged"
        => attachments'[a] = attachments[a]

\* A statement on one row freezes the others, and this one if it had no message
\* or is purged.
LEMMA OneFile ==
  ASSUME MessagesInv, NEW f \in AttachmentIds,
         \A a \in AttachmentIds \ {f} : attachments'[a] = attachments[a],
         attachments[f].message = NoMessage \/ attachments'[f].status = "purged"
  PROVE  \A a \in AttachmentIds : Frozen(a)
BY DEF Frozen

LEMMA FreshFrozen ==
  ASSUME MessagesInv, NEW c, NEW u, InsertAttachment(c, u)
  PROVE  \A a \in AttachmentIds : Frozen(a)
<1>1. UnusedFiles # {} /\ UnusedFiles \subseteq Nat
  BY MessagesAssumption DEF InsertAttachment, UnusedFiles
<1>2. FreshFile \in UnusedFiles
  BY <1>1, NatMin DEF FreshFile
<1>3. FreshFile \in AttachmentIds /\ attachments[FreshFile].message = NoMessage
  BY <1>2, StateFacts DEF UnusedFiles, TablesInv, FilesHold
<1>4. \A a \in AttachmentIds \ {FreshFile} : attachments'[a] = attachments[a]
  BY StateFacts DEF InsertAttachment, TablesInv
<1> QED BY <1>3, <1>4, OneFile

LEMMA UploadFrozen ==
  ASSUME MessagesInv, NEW f \in AttachmentIds, NEW u, UploadContent(f, u)
  PROVE  \A a \in AttachmentIds : Frozen(a)
<1>1. attachments[f].message = NoMessage
  BY DEF UploadContent, Uploadable
<1>2. \A a \in AttachmentIds \ {f} : attachments'[a] = attachments[a]
  BY StateFacts DEF UploadContent, TablesInv
<1> QED BY <1>1, <1>2, OneFile

LEMMA LinkFrozen ==
  ASSUME MessagesInv, NEW f \in AttachmentIds, NEW m, LinkAttachment(f, m)
  PROVE  \A a \in AttachmentIds : Frozen(a)
<1>1. attachments[f].message = NoMessage
  BY DEF LinkAttachment
<1>2. \A a \in AttachmentIds \ {f} : attachments'[a] = attachments[a]
  BY StateFacts DEF LinkAttachment, TablesInv
<1> QED BY <1>1, <1>2, OneFile

LEMMA PurgeFrozen ==
  ASSUME MessagesInv, Purge
  PROVE  \A a \in AttachmentIds : Frozen(a)
<1>1. ASSUME NEW m \in MessageIds, PurgeMessage(m), NEW a \in AttachmentIds
      PROVE  Frozen(a)
  <2>1. CASE attachments[a].message = m
    <3>1. messages'[m].state = "purged"
      <4>1. messages'[m] = [NoRow EXCEPT !.state = "purged"]
        BY <1>1 DEF PurgeMessage
      <4> QED BY <4>1 DEF NoRow
    <3> QED BY <2>1, <3>1 DEF Frozen
  <2>2. CASE attachments[a].message # m
    <3> DEFINE o == attachments[a]
    <3>1. attachments'[a] = [o EXCEPT !.message = o.message]
      BY <1>1, <2>2 DEF PurgeMessage
    <3>2. o \in Attachment
      BY StateFacts, TableFacts
    <3>3. [o EXCEPT !.message = o.message] = o
      BY <3>2 DEF Attachment
    <3> QED BY <3>1, <3>3 DEF Frozen
  <2> QED BY <2>1, <2>2
<1>2. ASSUME NEW f \in AttachmentIds, PurgeAttachment(f)
      PROVE  \A a \in AttachmentIds : Frozen(a)
  <2>1. attachments'[f] = [NoFile EXCEPT !.status = "purged"]
    BY <1>2, StateFacts DEF PurgeAttachment, TablesInv
  <2>2. attachments'[f].status = "purged"
    BY <2>1 DEF NoFile
  <2>3. \A a \in AttachmentIds \ {f} : attachments'[a] = attachments[a]
    BY <1>2, StateFacts DEF PurgeAttachment, TablesInv
  <2> QED BY <2>2, <2>3, OneFile
<1> QED BY <1>1, <1>2 DEF Purge

LEMMA SameFrozen ==
  ASSUME attachments' = attachments
  PROVE  \A a \in AttachmentIds : Frozen(a)
BY DEF Frozen

\* A request that writes to files: which row it is.
LEMMA FileIndexed ==
  ASSUME MessagesInv, NEW q \in Requests
  PROVE  /\ request[q].at = "link" => request[q].files[request[q].next] \in AttachmentIds
         /\ request[q].op = "upload" => request[q].files[1] \in AttachmentIds
         /\ request[q].at = "fill" => request[q].files[Len(request[q].files)] \in AttachmentIds
<1>1. PICK r \in Request : r = request[q]
  BY StateFacts
<1>2. RequestHolds(r)
  BY <1>1, StateFacts
<1>3. r.files \in Seq(AttachmentIds) /\ Len(r.files) \in Nat
  BY DEF Request
<1>4. r.at = "link" => r.next \in 1..Len(r.files)
  BY <1>2 DEF RequestHolds
<1>5. r.op = "upload" => Len(r.files) = 1
  BY <1>2 DEF RequestHolds
<1>6. r.at = "fill" => Len(r.files) >= 1
  BY <1>2 DEF RequestHolds
<1>7. \A i \in 1..Len(r.files) : r.files[i] \in AttachmentIds
  BY <1>3
<1>8. r.op = "upload" => 1 \in 1..Len(r.files)
  <2>1. \A n \in Nat : n = 1 => 1 \in 1..n
    OBVIOUS
  <2> QED BY <1>3, <1>5, <2>1, Zenon
<1>9. r.at = "fill" => Len(r.files) \in 1..Len(r.files)
  BY <1>3, <1>6
<1> QED BY <1>1, <1>4, <1>7, <1>8, <1>9

\* Once a file belongs to a stored message no upload, creation or link that was
\* under way changes its row, for any number of requests.
THEOREM LinksFrozen == Spec => LinkedFrozen
<1>1. MessagesInv /\ [Next]_vars => [\A a \in AttachmentIds : Frozen(a)]_vars
  <2> SUFFICES ASSUME MessagesInv, Next PROVE \A a \in AttachmentIds : Frozen(a)
    OBVIOUS
  <2>1. ASSUME NEW q \in Requests, Native(q) PROVE \A a \in AttachmentIds : Frozen(a)
    <3>1. CASE UploadWrite(q)
      BY <3>1, <2>1, FileIndexed, UploadFrozen DEF UploadWrite
    <3>2. CASE LinkFile(q)
      BY <3>2, <2>1, FileIndexed, LinkFrozen DEF LinkFile
    <3>3. ASSUME NEW u \in Users, NEW a \in AttachmentIds, UploadBegin(q, u, a)
          PROVE  attachments' = attachments
      BY <3>3 DEF UploadBegin, Begin
    <3>4. ASSUME NEW u \in Users, NEW c \in Channels, NEW fs \in FileLists, CreateBegin(q, u, c, fs)
          PROVE  attachments' = attachments
      BY <3>4 DEF CreateBegin, Begin
    <3>5. ASSUME NEW u \in Users, NEW c \in Channels, NEW b \in Bodies, CreatePlain(q, u, c, b)
          PROVE  attachments' = attachments
      BY <3>5 DEF CreatePlain, Store
    <3>6. ASSUME NEW b \in Bodies, CreateStore(q, b) PROVE attachments' = attachments
      BY <3>6 DEF CreateStore, Store
    <3>7. ASSUME NEW u \in Users, NEW m \in MessageIds, EditBegin(q, u, m)
          PROVE  attachments' = attachments
      BY <3>7 DEF EditBegin, Begin
    <3>8. ASSUME NEW b \in Bodies, Update(q, b) PROVE attachments' = attachments
      BY <3>8 DEF Update, EditStore
    <3>9. ASSUME ValidateFile(q) \/ Announce(q) \/ RequestEnds(q) PROVE attachments' = attachments
      BY <3>9 DEF ValidateFile, Announce, RequestEnds
    <3> QED BY <2>1, <3>1, <3>2, <3>3, <3>4, <3>5, <3>6, <3>7, <3>8, <3>9, SameFrozen DEF Native
  <2>2. ASSUME NEW q \in Requests, Compat(q) PROVE \A a \in AttachmentIds : Frozen(a)
    <3>1. CASE BotFileBegin(q)
      BY <3>1, FreshFrozen DEF BotFileBegin
    <3>2. CASE BotFileWrite(q)
      BY <3>2, <2>2, FileIndexed, UploadFrozen DEF BotFileWrite
    <3>3. ASSUME NEW c \in Channels, BotCreateBegin(q, c) PROVE attachments' = attachments
      BY <3>3 DEF BotCreateBegin, Begin
    <3>4. ASSUME NEW m \in MessageIds \cup {NoMessage}, BotReply(q, m) PROVE attachments' = attachments
      BY <3>4 DEF BotReply
    <3>5. ASSUME NEW b, NEW es, NEW ms, NEW n, BotCreateStore(q, b, es, ms, n)
          PROVE  attachments' = attachments
      BY <3>5 DEF BotCreateStore, Store
    <3>6. ASSUME NEW m \in MessageIds, EditBegin(q, Bot, m) PROVE attachments' = attachments
      BY <3>6 DEF EditBegin, Begin
    <3>7. ASSUME NEW b, NEW ms, NEW n, BotUpdate(q, b, ms, n) PROVE attachments' = attachments
      BY <3>7 DEF BotUpdate, EditStore
    <3> QED BY <2>2, <3>1, <3>2, <3>3, <3>4, <3>5, <3>6, <3>7, SameFrozen DEF Compat
  <2>3. ASSUME NEW q \in Requests, Webhooks(q) PROVE attachments' = attachments
    BY <2>3 DEF Webhooks, Execute, Store
  <2>4. ASSUME NEW u \in Users, NEW c \in Channels, Presign(u, c)
        PROVE  \A a \in AttachmentIds : Frozen(a)
    BY <2>4, FreshFrozen DEF Presign
  <2>5. ASSUME NEW m \in MessageIds, Delete(m) \/ \E c \in Channels : BotDelete(m, c)
        PROVE  attachments' = attachments
    BY <2>5 DEF BotDelete, Delete
  <2> QED BY <2>1, <2>2, <2>3, <2>4, <2>5, PurgeFrozen, SameFrozen DEF Next
<1>2. Spec => [][\A a \in AttachmentIds : Frozen(a)]_vars
  BY <1>1, MessagesInvariant, PTL DEF Spec
<1> QED BY <1>2 DEF LinkedFrozen, Frozen


(***************************************************************************)
(* Normalising embeds.                                                     *)
(***************************************************************************)
LEMMA TrimScalar ==
  ASSUME NEW v \in Scalar
  PROVE  /\ Trim(v) \in Scalar /\ Trim(v).kind = v.kind /\ Trim(v).len = v.len
         /\ Trim(Trim(v)) = Trim(v)
BY DEF Trim, Scalar

LEMMA Kinds ==
  /\ "null" \notin Scalars /\ "object" \notin Scalars /\ "list" \notin Scalars
  /\ "object" # "null" /\ "list" # "null" /\ Strings \subseteq Scalars
  /\ "number" \in Scalars /\ "bool" \in Scalars /\ "time" \in Scalars /\ "rich" \in Scalars
BY DEF Scalars, Strings

\* A text that is there is trimmed; its kind and length stay.
LEMMA CleanText ==
  ASSUME NEW v, Parsed(v), v.kind \in Scalars
  PROVE  /\ v \in Scalar /\ Trim(v) \in Scalar /\ Trim(v).kind = v.kind /\ Trim(v).len = v.len
         /\ Trim(Trim(v)) = Trim(v) /\ Trim(v).kind # "null"
<1>1. v \in Scalar
  BY DEF Parsed
<1> QED BY <1>1, TrimScalar, Kinds

\* What normalising leaves of an object whose parts are all texts.
LEMMA CleanObject ==
  ASSUME NEW parts,
         \A k \in DOMAIN parts : Parsed(parts[k]),
         \A k \in DOMAIN parts : parts[k].kind # "null" => parts[k].kind \in Strings
  PROVE  LET c == Cleaned(parts, DOMAIN parts)
         IN  /\ DOMAIN c \subseteq DOMAIN parts
             /\ \A k \in DOMAIN c :
                  /\ HasText(c, k) /\ c[k].kind = parts[k].kind /\ c[k].len = parts[k].len
                  /\ k \in DOMAIN parts /\ HasText(parts, k)
             /\ \A k : HasText(parts, k) => k \in DOMAIN c
             /\ Cleaned(c, DOMAIN c) = c
<1> DEFINE D == {k \in DOMAIN parts : HasText(parts, k)}
           c == Cleaned(parts, DOMAIN parts)
<1>1. DOMAIN c = D /\ \A k \in D : c[k] = Trim(parts[k])
  BY DEF Cleaned
<1>2. ASSUME NEW k \in D
      PROVE  /\ c[k].kind = parts[k].kind /\ c[k].len = parts[k].len /\ Trim(c[k]) = c[k]
             /\ c[k].kind # "null" /\ c[k].len > 0
  <2>1. parts[k].kind # "null" /\ parts[k].len > 0
    BY <1>2 DEF HasText, Absent
  <2>2. Parsed(parts[k]) /\ parts[k].kind \in Scalars
    BY <1>2, <2>1, Kinds
  <2> QED BY <1>1, <1>2, <2>1, <2>2, CleanText
<1>3. \A k \in D : HasText(c, k)
  BY <1>1, <1>2 DEF HasText, Absent
<1>4. \A k : HasText(parts, k) => k \in D
  BY DEF HasText, Absent
<1>5. Cleaned(c, DOMAIN c) = c
  <2>1. {k \in DOMAIN c : HasText(c, k)} = D
    BY <1>1, <1>3
  <2>2. Cleaned(c, DOMAIN c) = [k \in D |-> Trim(c[k])]
    BY <2>1 DEF Cleaned
  <2>3. c = [k \in D |-> c[k]]
    BY <1>1 DEF Cleaned
  <2>4. \A k \in D : Trim(c[k]) = c[k]
    BY <1>2
  <2> QED BY <2>2, <2>3, <2>4
<1> QED BY <1>1, <1>2, <1>3, <1>4, <1>5

\* Footer, image, thumbnail and author: still valid, and normalised for good.
LEMMA CleanParts ==
  ASSUME NEW v, NEW required, NEW urls, ParsedParts(v),
         ValidParts(v, required \cup urls, required, urls)
  PROVE  LET c == Object(Cleaned(v.parts, DOMAIN v.parts))
         IN  /\ c.kind = "object" /\ c.kind # "null"
             /\ ValidParts(c, required \cup urls, required, urls)
             /\ Object(Cleaned(c.parts, DOMAIN c.parts)) = c
             /\ \A k : HasText(v.parts, k) => HasText(c.parts, k)
             /\ \A k \in required : c.parts[k].len = v.parts[k].len
<1> DEFINE p == v.parts
           d == Cleaned(p, DOMAIN p)
           c == Object(d)
<1>1. c.kind = "object" /\ c.kind # "null" /\ c.parts = d
  BY Kinds DEF Object
<1>2. /\ v.kind = "object" /\ DOMAIN p \subseteq required \cup urls
      /\ \A k \in required : ValidText(p, k) /\ HasText(p, k)
      /\ \A k \in urls : ValidUrl(p, k)
  BY DEF ValidParts
<1>3. \A k \in DOMAIN p : Parsed(p[k])
  BY <1>2 DEF ParsedParts
<1>4. ASSUME NEW k \in DOMAIN p, p[k].kind # "null" PROVE p[k].kind \in Strings
  <2>1. ~Absent(p, k)
    BY <1>4 DEF Absent
  <2>2. CASE k \in required
    BY <1>2, <2>1, <2>2 DEF ValidText
  <2>3. CASE k \in urls
    BY <1>2, <2>1, <2>3 DEF ValidUrl
  <2> QED BY <1>2, <1>4, <2>2, <2>3
<1>5. /\ DOMAIN d \subseteq DOMAIN p
      /\ \A k \in DOMAIN d :
           /\ HasText(d, k) /\ d[k].kind = p[k].kind /\ d[k].len = p[k].len
           /\ k \in DOMAIN p /\ HasText(p, k)
      /\ \A k : HasText(p, k) => k \in DOMAIN d
      /\ Cleaned(d, DOMAIN d) = d
  BY <1>3, <1>4, CleanObject
<1> HIDE DEF d, p
<1>6. ASSUME NEW k \in required PROVE ValidText(d, k) /\ HasText(d, k) /\ d[k].len = p[k].len
  <2>1. k \in DOMAIN d /\ ValidText(p, k) /\ HasText(p, k)
    BY <1>2, <1>5, <1>6
  <2>2. p[k].kind \in Strings /\ p[k].len <= TextLimit[k]
    BY <2>1 DEF ValidText, HasText
  <2> QED BY <1>5, <2>1, <2>2 DEF ValidText
<1>7. ASSUME NEW k \in urls PROVE ValidUrl(d, k)
  <2>1. CASE k \in DOMAIN d
    <3>1. HasText(p, k) /\ ValidUrl(p, k) /\ d[k].kind = p[k].kind /\ d[k].len = p[k].len
      BY <1>2, <1>5, <1>7, <2>1
    <3> QED BY <3>1 DEF ValidUrl, HasText, IsHttpUrl
  <2>2. CASE k \notin DOMAIN d
    BY <2>2 DEF ValidUrl, Absent
  <2> QED BY <2>1, <2>2
<1>8. ValidParts(c, required \cup urls, required, urls)
  BY <1>1, <1>2, <1>5, <1>6, <1>7 DEF ValidParts
<1>9. Object(Cleaned(c.parts, DOMAIN c.parts)) = c
  BY <1>1, <1>5
<1>10. \A k : HasText(p, k) => HasText(d, k)
  BY <1>5
<1> HIDE DEF c
<1> QED BY <1>1, <1>6, <1>8, <1>9, <1>10 DEF p, d, c

FieldValid(f) ==
  /\ ValidParts(f, {"name", "value", "inline"}, {"name", "value"}, {})
  /\ ~Absent(f.parts, "inline") => f.parts["inline"].kind = "bool"

LEMMA CleanFieldHolds ==
  ASSUME NEW f, ParsedParts(f), FieldValid(f)
  PROVE  /\ FieldValid(CleanField(f))
         /\ CleanField(CleanField(f)) = CleanField(f)
         /\ CleanField(f).parts["name"].len = f.parts["name"].len
         /\ CleanField(f).parts["value"].len = f.parts["value"].len
<1> DEFINE p == f.parts
           K == {"name", "value", "inline"}
           d == CleanField(f).parts
<1>1. /\ CleanField(f).kind = "object" /\ DOMAIN d = K
      /\ d["name"] = Trim(p["name"]) /\ d["value"] = Trim(p["value"])
      /\ d["inline"] = IF Absent(p, "inline") THEN Json("bool", 0) ELSE p["inline"]
      /\ CleanField(f) = Object(d)
  BY DEF CleanField, Object
<1>2. /\ f.kind = "object"
      /\ \A k \in {"name", "value"} : ValidText(p, k) /\ HasText(p, k)
  BY DEF FieldValid, ValidParts
<1>3. ASSUME NEW k \in {"name", "value"}
      PROVE  /\ d[k].kind = p[k].kind /\ d[k].len = p[k].len /\ Trim(d[k]) = d[k]
             /\ d[k].kind # "null" /\ ValidText(d, k) /\ HasText(d, k)
  <2>1. /\ k \in DOMAIN p /\ p[k].kind \in Strings /\ p[k].len <= TextLimit[k] /\ p[k].len > 0
    BY <1>2 DEF ValidText, HasText, Absent
  <2>2. Parsed(p[k]) /\ p[k].kind \in Scalars
    BY <1>2, <2>1, Kinds DEF ParsedParts
  <2>3. d[k] = Trim(p[k])
    BY <1>1
  <2>4. /\ d[k].kind = p[k].kind /\ d[k].len = p[k].len /\ Trim(d[k]) = d[k] /\ d[k].kind # "null"
    BY <2>2, <2>3, CleanText
  <2>5. ~Absent(d, k)
    BY <1>1, <2>4 DEF Absent
  <2> QED BY <2>1, <2>4, <2>5 DEF ValidText, HasText
<1>4. ~Absent(d, "inline") /\ d["inline"].kind = "bool"
  <2>1. d["inline"].kind = "bool"
    BY <1>1 DEF FieldValid, Json
  <2> QED BY <1>1, <2>1 DEF Absent
<1> HIDE DEF d, p
<1>5. FieldValid(CleanField(f))
  <2>1. CleanField(f).parts = d
    BY DEF d
  <2>2. ValidParts(CleanField(f), K, {"name", "value"}, {})
    BY <1>1, <1>3, <2>1 DEF ValidParts
  <2> QED BY <1>4, <2>1, <2>2 DEF FieldValid
<1>6. CleanField(Object(d)) = Object(d)
  <2>1. Object(d).parts = d
    BY DEF Object
  <2>2. d = [k \in K |-> d[k]]
    BY <1>1 DEF d, CleanField, Object
  <2>3. [k \in K |-> IF k # "inline" THEN Trim(d[k])
                     ELSE IF Absent(d, k) THEN Json("bool", 0) ELSE d[k]] = [k \in K |-> d[k]]
    BY <1>3, <1>4
  <2> QED BY <2>1, <2>2, <2>3 DEF CleanField
<1> QED BY <1>1, <1>3, <1>5, <1>6 DEF d, p

\* What normalising leaves of a list of fields.
LEMMA CleanFields ==
  ASSUME NEW items, Len(items) \in Nat,
         \A j \in 1..Len(items) : ParsedParts(items[j]) /\ FieldValid(items[j])
  PROVE  LET c == [j \in 1..Len(items) |-> CleanField(items[j])]
         IN  /\ Len(c) = Len(items)
             /\ \A j \in 1..Len(c) : FieldValid(c[j])
             /\ [j \in 1..Len(c) |-> CleanField(c[j])] = c
             /\ [j \in 1..Len(c) |-> c[j].parts["name"].len + c[j].parts["value"].len]
                  = [j \in 1..Len(items) |->
                       items[j].parts["name"].len + items[j].parts["value"].len]
<1> DEFINE I == 1..Len(items)
           c == [j \in I |-> CleanField(items[j])]
<1>1. Len(c) = Len(items)
  OBVIOUS
<1>2. 1..Len(c) = I
  BY <1>1
<1>3. \A j \in I : /\ FieldValid(c[j]) /\ CleanField(c[j]) = c[j]
                   /\ c[j].parts["name"].len = items[j].parts["name"].len
                   /\ c[j].parts["value"].len = items[j].parts["value"].len
  BY CleanFieldHolds
<1>4. [j \in I |-> CleanField(c[j])] = c
  <2>1. [j \in I |-> CleanField(c[j])] = [j \in I |-> c[j]]
    BY <1>3
  <2> QED BY <2>1
<1>5. [j \in I |-> c[j].parts["name"].len + c[j].parts["value"].len]
        = [j \in I |-> items[j].parts["name"].len + items[j].parts["value"].len]
  BY <1>3
<1> HIDE DEF c, I
<1>6. /\ Len(c) = Len(items)
      /\ \A j \in 1..Len(c) : FieldValid(c[j])
      /\ [j \in 1..Len(c) |-> CleanField(c[j])] = c
  BY <1>1, <1>2, <1>3, <1>4
<1>7. [j \in 1..Len(c) |-> c[j].parts["name"].len + c[j].parts["value"].len]
        = [j \in I |-> items[j].parts["name"].len + items[j].parts["value"].len]
  BY <1>2, <1>5
<1> QED BY <1>6, <1>7 DEF c, I

(***************************************************************************)
(* One embed: each key's part is valid again and is not changed again.     *)
(***************************************************************************)
LEMMA CleanKeys ==
  ASSUME NEW o
  PROVE  /\ CleanPart(o, "type") = Json("rich", 4) /\ CleanPart(o, "color") = o["color"]
         /\ CleanPart(o, "timestamp") = ToUtc(o["timestamp"])
         /\ \A k \in {"title", "description", "url"} : CleanPart(o, k) = Trim(o[k])
         /\ \A k \in {"footer", "image", "thumbnail", "author"} :
              CleanPart(o, k) = Object(Cleaned(o[k].parts, DOMAIN o[k].parts))
         /\ CleanPart(o, "fields") =
              List([i \in 1..Len(o["fields"].items) |-> CleanField(o["fields"].items[i])])
         /\ \A k \in KeptKeys(o) : NormalizeEmbed(o)[k] = CleanPart(o, k)
         /\ DOMAIN NormalizeEmbed(o) = KeptKeys(o)
<1>1. /\ CleanPart(o, "type") = Json("rich", 4) /\ CleanPart(o, "color") = o["color"]
      /\ CleanPart(o, "timestamp") = ToUtc(o["timestamp"])
  BY DEF CleanPart
<1>2. \A k \in {"title", "description", "url"} : CleanPart(o, k) = Trim(o[k])
  BY DEF CleanPart
<1>3. \A k \in {"footer", "image", "thumbnail", "author"} :
         CleanPart(o, k) = Object(Cleaned(o[k].parts, DOMAIN o[k].parts))
  BY DEF CleanPart
<1>4. CleanPart(o, "fields") =
        List([i \in 1..Len(o["fields"].items) |-> CleanField(o["fields"].items[i])])
  BY DEF CleanPart
<1> QED BY <1>1, <1>2, <1>3, <1>4 DEF NormalizeEmbed

LEMMA KeptFacts ==
  ASSUME NEW o
  PROVE  /\ "type" \in KeptKeys(o) /\ KeptKeys(o) \subseteq EmbedKeys
         /\ \A k \in {"title", "description", "url"} : k \in KeptKeys(o) <=> HasText(o, k)
         /\ \A k \in EmbedKeys \ {"type", "title", "description", "url"} :
              k \in KeptKeys(o) <=> ~Absent(o, k)
BY DEF KeptKeys, EmbedKeys

\* Title, description and url.
LEMMA TextPart ==
  ASSUME NEW o, ParsedEmbed(o), NEW k \in {"title", "description", "url"},
         ~Absent(o, k) => o[k].kind \in Strings
  PROVE  LET n == NormalizeEmbed(o)
         IN  /\ HasText(n, k) <=> HasText(o, k)
             /\ HasText(o, k) => /\ n[k].kind = o[k].kind /\ n[k].len = o[k].len
                                 /\ CleanPart(n, k) = n[k]
             /\ ~HasText(o, k) => Absent(n, k)
<1> DEFINE n == NormalizeEmbed(o)
<1>1. CASE HasText(o, k)
  <2>1. k \in DOMAIN o /\ o[k].kind \in Scalars /\ o[k].len > 0
    BY <1>1, Kinds DEF HasText, Absent
  <2>2. Parsed(o[k])
    BY <2>1 DEF ParsedEmbed
  <2>3. k \in DOMAIN n /\ n[k] = Trim(o[k]) /\ CleanPart(n, k) = Trim(n[k])
    BY <1>1, KeptFacts, CleanKeys, ZenonT(60)
  <2>4. n[k].kind = o[k].kind /\ n[k].len = o[k].len /\ Trim(n[k]) = n[k] /\ n[k].kind # "null"
    BY <2>1, <2>2, <2>3, CleanText
  <2> HIDE DEF n
  <2>5. HasText(n, k)
    BY <2>1, <2>3, <2>4 DEF HasText, Absent
  <2> QED BY <1>1, <2>3, <2>4, <2>5 DEF n
<1>2. CASE ~HasText(o, k)
  <2>1. k \notin DOMAIN n
    BY <1>2, KeptFacts, CleanKeys
  <2> HIDE DEF n
  <2>2. Absent(n, k) /\ ~HasText(n, k)
    BY <2>1 DEF HasText, Absent
  <2> QED BY <1>2, <2>2 DEF n
<1> QED BY <1>1, <1>2

\* The other parts are kept unless they are missing or null.
LEMMA OtherPart ==
  ASSUME NEW o, NEW k \in EmbedKeys \ {"type", "title", "description", "url"},
         ~Absent(o, k) => CleanPart(o, k).kind # "null"
  PROVE  LET n == NormalizeEmbed(o)
         IN  /\ Absent(n, k) <=> Absent(o, k)
             /\ ~Absent(o, k) => k \in DOMAIN n /\ n[k] = CleanPart(o, k)
<1> DEFINE n == NormalizeEmbed(o)
<1>1. CASE Absent(o, k)
  BY <1>1, KeptFacts, CleanKeys DEF Absent
<1>2. CASE ~Absent(o, k)
  <2>1. k \in DOMAIN n /\ n[k] = CleanPart(o, k)
    BY <1>2, KeptFacts, CleanKeys
  <2> HIDE DEF n
  <2>2. ~Absent(n, k)
    BY <1>2, <2>1 DEF Absent
  <2> QED BY <1>2, <2>1, <2>2 DEF n
<1> QED BY <1>1, <1>2

\* Timestamp and colour.
LEMMA ScalarPart ==
  ASSUME NEW o, NEW k \in {"timestamp", "color"},
         ~Absent(o, k) => o[k].kind = IF k = "color" THEN "number" ELSE "time"
  PROVE  LET n == NormalizeEmbed(o)
         IN  /\ Absent(n, k) <=> Absent(o, k)
             /\ ~Absent(o, k) => /\ n[k].kind = o[k].kind
                                 /\ k = "color" => n[k].len = o[k].len
                                 /\ CleanPart(n, k) = n[k]
<1> DEFINE n == NormalizeEmbed(o)
<1>1. ASSUME ~Absent(o, k)
      PROVE  /\ CleanPart(o, k).kind = o[k].kind
             /\ k = "color" => CleanPart(o, k) = o[k]
             /\ CleanPart(o, k).kind # "null"
             /\ k = "timestamp" => CleanPart(o, k) = Json("time", 24)
  <2>1. CASE k = "timestamp"
    <3>1. CleanPart(o, k) = Json("time", 24)
      BY <1>1, <2>1, CleanKeys DEF ToUtc
    <3> QED BY <1>1, <2>1, <3>1 DEF Json
  <2>2. CASE k = "color"
    <3>1. CleanPart(o, k) = o[k]
      BY <2>2, CleanKeys
    <3> QED BY <1>1, <2>2, <3>1
  <2> QED BY <2>1, <2>2
<1>2. k \in EmbedKeys \ {"type", "title", "description", "url"}
  BY DEF EmbedKeys
<1>3. /\ Absent(n, k) <=> Absent(o, k)
      /\ ~Absent(o, k) => k \in DOMAIN n /\ n[k] = CleanPart(o, k)
  BY <1>1, <1>2, OtherPart
<1>4. CleanPart(n, k) = IF k = "color" THEN n[k] ELSE ToUtc(n[k])
  BY CleanKeys
<1> HIDE DEF n
<1>5. ToUtc(Json("time", 24)) = Json("time", 24)
  BY DEF ToUtc, Json
<1>6. ~Absent(o, k) => CleanPart(n, k) = n[k]
  BY <1>1, <1>3, <1>4, <1>5
<1> QED BY <1>1, <1>3, <1>6 DEF n

\* Footer, image, thumbnail and author.
LEMMA ObjectPart ==
  ASSUME NEW o, ParsedEmbed(o), NEW k \in {"footer", "image", "thumbnail", "author"},
         NEW required, NEW urls,
         ~Absent(o, k) => ValidParts(o[k], required \cup urls, required, urls)
  PROVE  LET n == NormalizeEmbed(o)
         IN  /\ Absent(n, k) <=> Absent(o, k)
             /\ ~Absent(o, k) =>
                  /\ ValidParts(n[k], required \cup urls, required, urls)
                  /\ CleanPart(n, k) = n[k]
                  /\ \A j : HasText(o[k].parts, j) => HasText(n[k].parts, j)
                  /\ \A j \in required : n[k].parts[j].len = o[k].parts[j].len
<1> DEFINE n == NormalizeEmbed(o)
           v == o[k]
           c == Object(Cleaned(v.parts, DOMAIN v.parts))
<1>1. CleanPart(o, k) = c
  BY CleanKeys
<1>2. ASSUME ~Absent(o, k)
      PROVE  /\ c.kind # "null"
             /\ ValidParts(c, required \cup urls, required, urls)
             /\ Object(Cleaned(c.parts, DOMAIN c.parts)) = c
             /\ \A j : HasText(v.parts, j) => HasText(c.parts, j)
             /\ \A j \in required : c.parts[j].len = v.parts[j].len
  <2>1. ParsedParts(v)
    BY <1>2 DEF ParsedEmbed, Absent
  <2>2. ValidParts(v, required \cup urls, required, urls)
    BY <1>2
  <2> HIDE DEF v
  <2> QED BY <2>1, <2>2, CleanParts
<1>3. k \in EmbedKeys \ {"type", "title", "description", "url"}
  BY DEF EmbedKeys
<1>4. CleanPart(n, k) = Object(Cleaned(n[k].parts, DOMAIN n[k].parts))
  BY CleanKeys
<1> HIDE DEF c, v
<1>5. /\ Absent(n, k) <=> Absent(o, k)
      /\ ~Absent(o, k) => k \in DOMAIN n /\ n[k] = c
  BY <1>1, <1>2, <1>3, OtherPart
<1> HIDE DEF n
<1>6. ~Absent(o, k) => CleanPart(n, k) = n[k]
  BY <1>2, <1>4, <1>5
<1> QED BY <1>2, <1>5, <1>6 DEF n, v

LEMMA FieldsPart ==
  ASSUME NEW o, ParsedEmbed(o), ValidFields(o)
  PROVE  LET n == NormalizeEmbed(o)
         IN  /\ Absent(n, "fields") <=> Absent(o, "fields")
             /\ ValidFields(n)
             /\ ~Absent(o, "fields") => CleanPart(n, "fields") = n["fields"]
             /\ FieldSizes(n) = FieldSizes(o)
<1> DEFINE n == NormalizeEmbed(o)
           items == o["fields"].items
           c == [j \in 1..Len(items) |-> CleanField(items[j])]
<1>1. CleanPart(o, "fields") = List(c)
  BY CleanKeys
<1>2. List(c).kind = "list" /\ List(c).items = c
  BY DEF List
<1>3. "fields" \in EmbedKeys \ {"type", "title", "description", "url"}
  BY DEF EmbedKeys
<1>4. CleanPart(n, "fields") =
        List([i \in 1..Len(n["fields"].items) |-> CleanField(n["fields"].items[i])])
  BY CleanKeys
<1>5. ASSUME ~Absent(o, "fields")
      PROVE  /\ Len(items) \in Nat /\ Len(items) <= MaxFields
             /\ Len(c) = Len(items)
             /\ \A j \in 1..Len(c) : FieldValid(c[j])
             /\ [j \in 1..Len(c) |-> CleanField(c[j])] = c
             /\ [j \in 1..Len(c) |-> c[j].parts["name"].len + c[j].parts["value"].len]
                  = [j \in 1..Len(items) |->
                       items[j].parts["name"].len + items[j].parts["value"].len]
  <2>1. "fields" \in DOMAIN o
    BY <1>5 DEF Absent
  <2>2. /\ o["fields"].kind = "list" /\ Len(items) <= MaxFields
        /\ \A j \in 1..Len(items) : FieldValid(items[j])
    BY <1>5 DEF ValidFields, FieldValid
  <2>3. Len(items) \in Nat /\ \A j \in 1..Len(items) : ParsedParts(items[j])
    BY <2>1, <2>2 DEF ParsedEmbed
  <2> HIDE DEF items
  <2> QED BY <2>2, <2>3, CleanFields
<1> HIDE DEF c, items
<1>6. /\ Absent(n, "fields") <=> Absent(o, "fields")
      /\ ~Absent(o, "fields") => n["fields"] = List(c)
  BY <1>1, <1>2, <1>3, Kinds, OtherPart
<1> HIDE DEF n
<1>7. ~Absent(o, "fields") => CleanPart(n, "fields") = n["fields"]
  BY <1>2, <1>4, <1>5, <1>6
<1>8. ValidFields(n)
  <2>1. CASE Absent(o, "fields")
    BY <1>6, <2>1 DEF ValidFields
  <2>2. CASE ~Absent(o, "fields")
    <3>1. /\ n["fields"].kind = "list" /\ n["fields"].items = c
      BY <1>2, <1>6, <2>2
    <3>2. Len(c) <= MaxFields /\ \A j \in 1..Len(c) : FieldValid(c[j])
      BY <1>5, <2>2
    <3> QED BY <3>1, <3>2 DEF ValidFields, FieldValid
  <2> QED BY <2>1, <2>2
<1>9. FieldSizes(n) = FieldSizes(o)
  <2>1. CASE Absent(o, "fields")
    BY <1>6, <2>1 DEF FieldSizes
  <2>2. CASE ~Absent(o, "fields")
    <3>1. FieldSizes(n) = [j \in 1..Len(c) |-> c[j].parts["name"].len + c[j].parts["value"].len]
      <4>1. n["fields"].items = c /\ ~Absent(n, "fields")
        BY <1>2, <1>6, <2>2
      <4> QED BY <4>1, Zenon DEF FieldSizes
    <3>2. FieldSizes(o) = [j \in 1..Len(items) |->
                             items[j].parts["name"].len + items[j].parts["value"].len]
      BY <2>2, Zenon DEF FieldSizes, items
    <3> QED BY <1>5, <2>2, <3>1, <3>2
  <2> QED BY <2>1, <2>2
<1> QED BY <1>6, <1>7, <1>8, <1>9 DEF n

LEMMA ValidEmbedFacts ==
  ASSUME NEW o, ValidEmbed(o)
  PROVE  /\ ~Absent(o, "footer") => ValidParts(o["footer"], {"text"} \cup {"icon_url"}, {"text"}, {"icon_url"})
         /\ \A k \in {"image", "thumbnail"} :
              ~Absent(o, k) => ValidParts(o[k], {} \cup {"url"}, {}, {"url"}) /\ HasText(o[k].parts, "url")
         /\ ~Absent(o, "author") =>
              ValidParts(o["author"], {"name"} \cup {"url", "icon_url"}, {"name"}, {"url", "icon_url"})
         /\ ValidFields(o) /\ KeptKeys(o) # {"type"} /\ TotalText(o) <= MaxTotal
         /\ \A k \in {"title", "description"} : ValidText(o, k)
         /\ ValidUrl(o, "url") /\ ValidTimestamp(o) /\ ValidColor(o)
<1>1. /\ {"text"} \cup {"icon_url"} = {"text", "icon_url"} /\ {} \cup {"url"} = {"url"}
      /\ {"name"} \cup {"url", "icon_url"} = {"name", "url", "icon_url"}
  OBVIOUS
<1>2. ValidFooter(o) /\ ValidMedia(o, "image") /\ ValidMedia(o, "thumbnail") /\ ValidAuthor(o)
  BY DEF ValidEmbed
<1>3. /\ ValidFields(o) /\ KeptKeys(o) # {"type"} /\ TotalText(o) <= MaxTotal
      /\ \A k \in {"title", "description"} : ValidText(o, k)
      /\ ValidUrl(o, "url") /\ ValidTimestamp(o) /\ ValidColor(o)
  BY DEF ValidEmbed
<1>4. ~Absent(o, "footer") => ValidParts(o["footer"], {"text"} \cup {"icon_url"}, {"text"}, {"icon_url"})
  BY <1>1, <1>2 DEF ValidFooter
<1>5. \A k \in {"image", "thumbnail"} :
        ~Absent(o, k) => ValidParts(o[k], {} \cup {"url"}, {}, {"url"}) /\ HasText(o[k].parts, "url")
  BY <1>1, <1>2 DEF ValidMedia
<1>6. ~Absent(o, "author") =>
        ValidParts(o["author"], {"name"} \cup {"url", "icon_url"}, {"name"}, {"url", "icon_url"})
  BY <1>1, <1>2 DEF ValidAuthor
<1> QED BY <1>3, <1>4, <1>5, <1>6

\* The timestamp's year has four digits in UTC too.
InYears(o) == ~Absent(o, "timestamp") => o["timestamp"].kind = "time"

\* What an accepted embed is stored as is accepted and stored as it is.
LEMMA NormalizedEmbed ==
  ASSUME NEW o, ParsedEmbed(o), ValidEmbed(o), InYears(o)
  PROVE  ValidEmbed(NormalizeEmbed(o)) /\ NormalizeEmbed(NormalizeEmbed(o)) = NormalizeEmbed(o)
<1> DEFINE n == NormalizeEmbed(o)
<1>1. ASSUME NEW k \in {"title", "description", "url"}
      PROVE  /\ ~Absent(o, k) => o[k].kind \in Strings
             /\ HasText(n, k) <=> HasText(o, k)
             /\ HasText(o, k) => /\ n[k].kind = o[k].kind /\ n[k].len = o[k].len
                                 /\ CleanPart(n, k) = n[k]
             /\ ~HasText(o, k) => Absent(n, k)
  <2>1. ~Absent(o, k) => o[k].kind \in Strings
    BY ValidEmbedFacts DEF ValidText, ValidUrl
  <2> QED BY <2>1, TextPart
<1>2. ASSUME NEW k \in {"timestamp", "color"}
      PROVE  /\ Absent(n, k) <=> Absent(o, k)
             /\ ~Absent(o, k) => /\ n[k].kind = o[k].kind
                                 /\ k = "color" => n[k].len = o[k].len
                                 /\ CleanPart(n, k) = n[k]
  <2>1. ~Absent(o, k) => o[k].kind = IF k = "color" THEN "number" ELSE "time"
    BY ValidEmbedFacts DEF InYears, ValidColor
  <2> QED BY <2>1, ScalarPart
<1>3. /\ Absent(n, "footer") <=> Absent(o, "footer")
      /\ ~Absent(o, "footer") =>
           /\ ValidParts(n["footer"], {"text"} \cup {"icon_url"}, {"text"}, {"icon_url"})
           /\ CleanPart(n, "footer") = n["footer"]
           /\ n["footer"].parts["text"].len = o["footer"].parts["text"].len
  <2>1. ~Absent(o, "footer") =>
          ValidParts(o["footer"], {"text"} \cup {"icon_url"}, {"text"}, {"icon_url"})
    BY ValidEmbedFacts
  <2> QED BY <2>1, ObjectPart
<1>4. ASSUME NEW k \in {"image", "thumbnail"}
      PROVE  /\ Absent(n, k) <=> Absent(o, k)
             /\ ~Absent(o, k) =>
                  /\ ValidParts(n[k], {} \cup {"url"}, {}, {"url"})
                  /\ CleanPart(n, k) = n[k] /\ HasText(n[k].parts, "url")
  <2>1. ~Absent(o, k) => ValidParts(o[k], {} \cup {"url"}, {}, {"url"}) /\ HasText(o[k].parts, "url")
    BY ValidEmbedFacts
  <2> QED BY <2>1, ObjectPart, ZenonT(60)
<1>5. /\ Absent(n, "author") <=> Absent(o, "author")
      /\ ~Absent(o, "author") =>
           /\ ValidParts(n["author"], {"name"} \cup {"url", "icon_url"}, {"name"}, {"url", "icon_url"})
           /\ CleanPart(n, "author") = n["author"]
           /\ n["author"].parts["name"].len = o["author"].parts["name"].len
  <2>1. ~Absent(o, "author") =>
          ValidParts(o["author"], {"name"} \cup {"url", "icon_url"}, {"name"}, {"url", "icon_url"})
    BY ValidEmbedFacts
  <2> QED BY <2>1, ObjectPart
<1>6. /\ Absent(n, "fields") <=> Absent(o, "fields")
      /\ ValidFields(n) /\ FieldSizes(n) = FieldSizes(o)
      /\ ~Absent(o, "fields") => CleanPart(n, "fields") = n["fields"]
  BY ValidEmbedFacts, FieldsPart
<1>7. n["type"] = Json("rich", 4) /\ CleanPart(n, "type") = Json("rich", 4)
  BY CleanKeys, KeptFacts
<1>8. DOMAIN n = KeptKeys(o) /\ n = [k \in KeptKeys(o) |-> n[k]]
  BY DEF NormalizeEmbed
<1>9. /\ KeptKeys(o) \subseteq EmbedKeys
      /\ \A k \in {"title", "description", "url"} : k \in KeptKeys(o) <=> HasText(o, k)
      /\ \A k \in EmbedKeys \ {"type", "title", "description", "url"} :
           k \in KeptKeys(o) <=> ~Absent(o, k)
  BY KeptFacts
<1> HIDE DEF n
<1>10. \A k \in EmbedKeys \ {"type", "title", "description", "url"} : Absent(n, k) <=> Absent(o, k)
  BY <1>2, <1>3, <1>4, <1>5, <1>6 DEF EmbedKeys
<1>11. KeptKeys(n) = KeptKeys(o)
  <2>1. \A k \in {"title", "description", "url"} : HasText(n, k) <=> HasText(o, k)
    BY <1>1
  <2> QED BY <1>10, <2>1 DEF KeptKeys
<1>12. \A k \in KeptKeys(o) : CleanPart(n, k) = n[k]
  <2>1. \A k \in {"title", "description", "url"} : HasText(o, k) => CleanPart(n, k) = n[k]
    BY <1>1
  <2>2. \A k \in {"timestamp", "color"} : ~Absent(o, k) => CleanPart(n, k) = n[k]
    BY <1>2
  <2>3. \A k \in {"image", "thumbnail"} : ~Absent(o, k) => CleanPart(n, k) = n[k]
    BY <1>4
  <2> QED BY <1>3, <1>5, <1>6, <1>7, <1>9, <2>1, <2>2, <2>3 DEF EmbedKeys
<1>13. NormalizeEmbed(n) = n
  <2>1. NormalizeEmbed(n) = [k \in KeptKeys(o) |-> CleanPart(n, k)]
    BY <1>11 DEF NormalizeEmbed
  <2>2. [k \in KeptKeys(o) |-> CleanPart(n, k)] = [k \in KeptKeys(o) |-> n[k]]
    BY <1>12
  <2> QED BY <1>8, <2>1, <2>2
<1>14. TotalText(n) = TotalText(o)
  <2> DEFINE Size(e, k) == IF HasText(e, k) THEN e[k].len ELSE 0
             Part(e, k, name) == IF Absent(e, k) THEN 0 ELSE e[k].parts[name].len
  <2>1. Size(n, "title") = Size(o, "title") /\ Size(n, "description") = Size(o, "description")
    BY <1>1
  <2>2. Part(n, "footer", "text") = Part(o, "footer", "text")
    BY <1>3
  <2>3. Part(n, "author", "name") = Part(o, "author", "name")
    BY <1>5
  <2>4. SumFunction(FieldSizes(n)) = SumFunction(FieldSizes(o))
    BY <1>6
  <2>5. \A e : TotalText(e) = Size(e, "title") + Size(e, "description") + Part(e, "footer", "text")
                                + Part(e, "author", "name") + SumFunction(FieldSizes(e))
    BY Zenon DEF TotalText
  <2> HIDE DEF Size, Part
  <2> QED BY <2>1, <2>2, <2>3, <2>4, <2>5
<1>15. ASSUME NEW k \in {"title", "description"} PROVE ValidText(n, k)
  <2>1. CASE HasText(o, k)
    <3>1. ValidText(o, k) /\ n[k].kind = o[k].kind /\ n[k].len = o[k].len
      BY <1>1, <2>1, ValidEmbedFacts
    <3> QED BY <2>1, <3>1 DEF ValidText, HasText
  <2>2. CASE ~HasText(o, k)
    BY <1>1, <2>2 DEF ValidText
  <2> QED BY <2>1, <2>2
<1>16. ValidUrl(n, "url")
  <2>1. CASE HasText(o, "url")
    <3>1. ValidUrl(o, "url") /\ n["url"].kind = o["url"].kind /\ n["url"].len = o["url"].len
      BY <1>1, <2>1, ValidEmbedFacts
    <3> QED BY <2>1, <3>1 DEF ValidUrl, HasText, IsHttpUrl
  <2>2. CASE ~HasText(o, "url")
    BY <1>1, <2>2 DEF ValidUrl
  <2> QED BY <2>1, <2>2
<1>17. ValidTimestamp(n) /\ ValidColor(n)
  <2>1. ValidTimestamp(o) /\ ValidColor(o)
    BY ValidEmbedFacts
  <2>2. ValidTimestamp(n)
    BY <1>2, <2>1 DEF ValidTimestamp
  <2>3. ValidColor(n)
    BY <1>2, <2>1 DEF ValidColor
  <2> QED BY <2>2, <2>3
<1>18. ValidFooter(n) /\ ValidAuthor(n) /\ ValidMedia(n, "image") /\ ValidMedia(n, "thumbnail")
  <2>1. /\ {"text"} \cup {"icon_url"} = {"text", "icon_url"} /\ {} \cup {"url"} = {"url"}
        /\ {"name"} \cup {"url", "icon_url"} = {"name", "url", "icon_url"}
    OBVIOUS
  <2>2. ValidFooter(n)
    BY <1>3, <2>1 DEF ValidFooter
  <2>3. ValidAuthor(n)
    BY <1>5, <2>1 DEF ValidAuthor
  <2>4. ValidMedia(n, "image") /\ ValidMedia(n, "thumbnail")
    BY <1>4, <2>1 DEF ValidMedia
  <2> QED BY <2>2, <2>3, <2>4
<1>19. ValidType(n)
  BY <1>7 DEF ValidType, Json
<1>20. ValidEmbed(n)
  <2>1. KeptKeys(n) # {"type"} /\ TotalText(n) <= MaxTotal /\ DOMAIN n \subseteq EmbedKeys
    BY <1>8, <1>9, <1>11, <1>14, ValidEmbedFacts
  <2>2. ValidText(n, "title") /\ ValidText(n, "description")
    BY <1>15
  <2> QED BY <1>6, <1>16, <1>17, <1>18, <1>19, <2>1, <2>2 DEF ValidEmbed
<1> QED BY <1>13, <1>20 DEF n

\* With another time in place of one at the edge of the years an embed is accepted
\* as before, and nothing else of what is stored changes.
LEMMA RetimedEmbed ==
  ASSUME NEW o, ParsedEmbed(o), ValidEmbed(o)
  PROVE  LET e == Retimed(NormalizeEmbed(o))
         IN  ValidEmbed(e) /\ NormalizeEmbed(e) = e
<1> DEFINE n == NormalizeEmbed(o)
<1>1. CASE InYears(o)
  <2>1. ValidEmbed(n) /\ NormalizeEmbed(n) = n
    BY <1>1, NormalizedEmbed
  <2>2. ValidTimestamp(n)
    BY <2>1 DEF ValidEmbed
  <2>3. Retimed(n) = n
    BY <2>2 DEF Retimed
  <2> QED BY <2>1, <2>3
<1>2. CASE ~InYears(o)
  <2> DEFINE t == "timestamp"
             time == Json("time", 24)
             p == [o EXCEPT ![t] = time]
  <2>1. ~Absent(o, t) /\ o[t].kind = "edge" /\ t \in DOMAIN o
    BY <1>2 DEF InYears, ValidEmbed, ValidTimestamp, Absent
  <2>2. \A k \in DOMAIN o : k # t => p[k] = o[k]
    OBVIOUS
  <2>3. DOMAIN p = DOMAIN o /\ p[t] = time
    BY <2>1
  <2>4. time.kind = "time" /\ time \in Scalar
    BY DEF Json, Scalar, Scalars, Strings
  <2> HIDE DEF p, time
  <2>5. \A k : k # t => (Absent(p, k) <=> Absent(o, k)) /\ (~Absent(o, k) => p[k] = o[k])
    BY <2>2, <2>3 DEF Absent
  <2>6. ~Absent(p, t)
    BY <2>1, <2>3, <2>4 DEF Absent
  <2>7. \A k : k # t => (HasText(p, k) <=> HasText(o, k))
    BY <2>5 DEF HasText
  <2>8. KeptKeys(p) = KeptKeys(o)
    BY <2>1, <2>5, <2>6, <2>7 DEF KeptKeys
  <2>9. ParsedEmbed(p)
    <3> SUFFICES ASSUME NEW k \in DOMAIN p
                 PROVE  /\ Parsed(p[k]) /\ ParsedParts(p[k])
                        /\ p[k].kind = "list" =>
                             /\ Len(p[k].items) \in Nat
                             /\ \A j \in 1..Len(p[k].items) : ParsedParts(p[k].items[j])
      BY DEF ParsedEmbed
    <3>1. CASE k = t
      BY <2>3, <2>4, <3>1 DEF Parsed, ParsedParts
    <3>2. CASE k # t
      BY <2>2, <2>3, <3>2 DEF ParsedEmbed
    <3> QED BY <3>1, <3>2
  <2>10. /\ ValidText(p, "title") /\ ValidText(p, "description") /\ ValidUrl(p, "url")
         /\ ValidColor(p) /\ ValidTimestamp(p)
    <3>1. /\ ValidText(o, "title") /\ ValidText(o, "description") /\ ValidUrl(o, "url")
          /\ ValidColor(o)
      BY DEF ValidEmbed
    <3>2. ValidText(p, "title") /\ ValidText(p, "description")
      BY <2>5, <3>1 DEF ValidText
    <3>3. ValidUrl(p, "url") /\ ValidColor(p)
      BY <2>5, <3>1 DEF ValidUrl, ValidColor
    <3> QED BY <2>3, <2>4, <3>2, <3>3 DEF ValidTimestamp
  <2>11. ValidType(p) /\ DOMAIN p \subseteq EmbedKeys
    BY <2>2, <2>3 DEF ValidEmbed, ValidType
  <2>12. ValidFooter(p) /\ ValidAuthor(p)
    <3>1. ValidFooter(o) /\ ValidAuthor(o)
      BY DEF ValidEmbed
    <3> QED BY <2>5, <3>1 DEF ValidFooter, ValidAuthor
  <2>13. ValidMedia(p, "image") /\ ValidMedia(p, "thumbnail")
    <3>1. ValidMedia(o, "image") /\ ValidMedia(o, "thumbnail")
      BY DEF ValidEmbed
    <3> QED BY <2>5, <3>1 DEF ValidMedia
  <2>14. ValidFields(p)
    <3>1. ValidFields(o)
      BY DEF ValidEmbed
    <3> QED BY <2>5, <3>1, Zenon DEF ValidFields
  <2>15. TotalText(p) = TotalText(o)
    <3> DEFINE Size(e, k) == IF HasText(e, k) THEN e[k].len ELSE 0
               Part(e, k, name) == IF Absent(e, k) THEN 0 ELSE e[k].parts[name].len
    <3>1. Size(p, "title") = Size(o, "title") /\ Size(p, "description") = Size(o, "description")
      BY <2>5, <2>7 DEF HasText
    <3>2. /\ Part(p, "footer", "text") = Part(o, "footer", "text")
          /\ Part(p, "author", "name") = Part(o, "author", "name")
      BY <2>5
    <3>3. FieldSizes(p) = FieldSizes(o)
      <4>1. (IF Absent(p, "fields") THEN <<>> ELSE p["fields"].items)
              = (IF Absent(o, "fields") THEN <<>> ELSE o["fields"].items)
        BY <2>5
      <4> QED BY <4>1, Zenon DEF FieldSizes
    <3>4. \A e : TotalText(e) = Size(e, "title") + Size(e, "description") + Part(e, "footer", "text")
                                  + Part(e, "author", "name") + SumFunction(FieldSizes(e))
      BY Zenon DEF TotalText
    <3> HIDE DEF Size, Part
    <3> QED BY <3>1, <3>2, <3>3, <3>4
  <2>16. ValidEmbed(p) /\ InYears(p)
    <3>1. KeptKeys(p) # {"type"} /\ TotalText(p) <= MaxTotal
      BY <2>8, <2>15 DEF ValidEmbed
    <3> QED BY <2>3, <2>4, <2>10, <2>11, <2>12, <2>13, <2>14, <3>1 DEF ValidEmbed, InYears
  <2>17. ValidEmbed(NormalizeEmbed(p)) /\ NormalizeEmbed(NormalizeEmbed(p)) = NormalizeEmbed(p)
    BY <2>9, <2>16, NormalizedEmbed
  <2>18. t \in KeptKeys(o) /\ n[t] = Json("text", 26)
    <3>1. t \in EmbedKeys \ {"type", "title", "description", "url"}
      BY DEF EmbedKeys
    <3>2. t \in KeptKeys(o)
      BY <2>1, <3>1, KeptFacts
    <3> QED BY <2>1, <3>2, CleanKeys DEF ToUtc
  <2>19. Retimed(n) = [n EXCEPT ![t] = time]
    <3>1. ~ValidTimestamp(n)
      <4>1. t \in DOMAIN n
        BY <2>18, CleanKeys
      <4> HIDE DEF n
      <4> QED BY <2>18, <4>1 DEF ValidTimestamp, Absent, Json
    <3> QED BY <3>1 DEF Retimed, time
  <2>20. \A k \in KeptKeys(o) : k # t => CleanPart(p, k) = CleanPart(o, k)
    <3> SUFFICES ASSUME NEW k \in KeptKeys(o), k # t PROVE CleanPart(p, k) = CleanPart(o, k)
      OBVIOUS
    <3>1. CASE k = "type"
      BY <3>1, CleanKeys
    <3>2. CASE k # "type"
      <4>1. k \in EmbedKeys /\ ~Absent(o, k)
        BY <3>2, KeptFacts DEF HasText
      <4>2. p[k] = o[k]
        BY <2>5, <4>1
      <4> QED BY <3>2, <4>1, <4>2, Zenon DEF CleanPart
    <3> QED BY <3>1, <3>2
  <2>21. CleanPart(p, t) = time
    BY <2>3, <2>4, CleanKeys DEF ToUtc, time
  <2>22. [n EXCEPT ![t] = time] = NormalizeEmbed(p)
    <3>1. /\ n = [k \in KeptKeys(o) |-> CleanPart(o, k)]
          /\ NormalizeEmbed(p) = [k \in KeptKeys(o) |-> CleanPart(p, k)]
      BY <2>8 DEF NormalizeEmbed
    <3>2. [n EXCEPT ![t] = time] = [k \in KeptKeys(o) |-> IF k = t THEN time ELSE CleanPart(o, k)]
      BY <3>1
    <3>3. \A k \in KeptKeys(o) : CleanPart(p, k) = IF k = t THEN time ELSE CleanPart(o, k)
      BY <2>20, <2>21
    <3> HIDE DEF n
    <3> QED BY <3>1, <3>2, <3>3
  <2> HIDE DEF n
  <2> QED BY <2>17, <2>19, <2>22 DEF n
<1> QED BY <1>1, <1>2

\* Every stored row's columns agree: who it mentions is in its content, and its
\* embeds are within every limit and a second normalisation would change nothing
\* but a timestamp that UTC has put beyond the years of RFC 3339.
THEOREM RowsAgree == Spec => []RowsConsistent
<1>1. ASSUME MessagesInv PROVE RowsConsistent
  <2> SUFFICES ASSUME NEW m \in MessageIds
               PROVE  /\ messages[m].mentions \subseteq messages[m].content.mentions
                      /\ Len(messages[m].embeds) <= MaxEmbeds
                      /\ \A i \in 1..Len(messages[m].embeds) :
                           LET e == Retimed(messages[m].embeds[i])
                           IN  ValidEmbed(e) /\ NormalizeEmbed(e) = e
    BY DEF RowsConsistent
  <2>1. messages[m].mentions \subseteq messages[m].content.mentions
    BY <1>1, StateFacts DEF TablesInv, MentionsHold
  <2>2. messages[m] \in Message
    BY <1>1, StateFacts, TableFacts
  <2>3. messages[m].embeds \in AcceptedEmbeds
    BY <2>2 DEF Message
  <2>4. PICK es \in EmbedLists : ValidEmbeds(es) /\ messages[m].embeds = NormalizeEmbeds(es)
    BY <2>3 DEF AcceptedEmbeds
  <2>5. ParsedEmbeds(es)
    BY MessagesAssumption
  <2>6. PICK ns : ns = NormalizeEmbeds(es)
    OBVIOUS
  <2>7. Len(ns) = Len(es) /\ \A i \in 1..Len(es) : ns[i] = NormalizeEmbed(es[i])
    BY <2>5, <2>6 DEF NormalizeEmbeds, ParsedEmbeds
  <2>8. Len(ns) <= MaxEmbeds /\ \A i \in 1..Len(es) : ParsedEmbed(es[i]) /\ ValidEmbed(es[i])
    BY <2>4, <2>5, <2>7 DEF ParsedEmbeds, ValidEmbeds
  <2>9. ASSUME NEW i \in 1..Len(ns)
        PROVE  LET e == Retimed(ns[i]) IN ValidEmbed(e) /\ NormalizeEmbed(e) = e
    BY <2>7, <2>8, RetimedEmbed
  <2> QED BY <2>1, <2>4, <2>6, <2>8, <2>9
<1> QED BY <1>1, MessagesInvariant, PTL
=============================================================================
