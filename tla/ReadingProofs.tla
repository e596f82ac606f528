---------------------------- MODULE ReadingProofs ----------------------------
(***************************************************************************)
(* Proofs about Reading for any posts, members and number of changes.      *)
(*                                                                         *)
(* A response is a set of items gathered by queries between which anything *)
(* may change.  What is proved of a complete response is an invariant of   *)
(* its items from the first query on: an item was put in by a query that   *)
(* saw its row, and what the row says of it later can only be what the     *)
(* history already excuses.                                                *)
(***************************************************************************)
EXTENDS Reading, SequenceTheorems, TLAPS

---------------------------------------------------------------------------
(* The inductive invariant *)

\* The responses that do not leave out what is hidden.
OwnKinds == {"mine", "answers", "notifications", "held"}
ProfileKinds == {"profile", "requestsPage", "repliesPage"}
ThreadKinds == {"requestThread", "replyThread", "mineThread"}

\* Which response asks which query.
PlanHas(kind, query) ==
  /\ query \in {"mine", "mineReplies"} => kind = "mine"
  /\ query = "answers" => kind = "answers"
  /\ query = "notifications" => kind = "notifications"
  /\ query = "held" => kind = "held"
  /\ query \in {"publicRequests", "publicReplies"} => kind \in ProfileKinds
  /\ query = "profile" => kind \in ProfileKinds \cup {"requestThread", "replyThread"}
  /\ query \in {"request", "threadReplies"} => kind \in ThreadKinds
  /\ query = "reply" => kind = "replyThread"
  /\ query = "replies" => kind = "replies"
  /\ kind \in ProfileKinds => query \in {"profile", "publicRequests", "publicReplies"}

RowsTyped ==
  /\ requests \in [Requests -> RequestRow]
  /\ replies \in [Replies -> ReplyRow]
  /\ members \in [Members -> SUBSET Switches]
  /\ \A q \in Requests :
       /\ requests[q].author = Guest => requests[q].anonymous
       /\ requests[q].blank => requests[q].deleted \/ requests[q].removed
  /\ \A p \in Replies :
       /\ replies[p].author = Guest => replies[p].anonymous
       /\ replies[p].blank => replies[p].deleted
       /\ replies[p].deleted => Written(p)

ReadState ==
  [kind : Kinds \cup {None}, who : Authors \cup {None}, post : Posts \cup {None},
   todo : Seq(Queries), items : SUBSET Item, names : SUBSET Members,
   lists : SUBSET Switches]

SinceState == [unreadable : SUBSET Posts, erased : SUBSET Posts,
               off : SUBSET (Members \X Switches)]

ReadTyped == read \in ReadState /\ since \in SinceState /\ writes \in 0..MaxWrites

\* What is left of the plan is of this kind of response, and a profile is looked up
\* before anything is read.
PlanSound ==
  \A i \in 1..Len(read.todo) :
    /\ PlanHas(read.kind, read.todo[i])
    /\ read.todo[i] = "profile" => i = 1 /\ read.items = {}

SubjectSound ==
  read.todo # <<>> =>
    /\ read.kind \in NeedsMember => read.who \in Members
    /\ read.kind \in ThreadKinds \cup {"replies"} => read.post \in Posts /\ Exists(read.post)

Unseen == {x \in Posts : Unreadable(x)}
Erased == {q \in Requests : requests[q].removed} \cup {p \in Replies : replies[p].deleted}
Off == {s \in Members \X Switches : s[2] \notin members[s[1]]}

\* What has been so since the read began is so now.
SinceSound == since.unreadable \subseteq Unseen /\ since.erased \subseteq Erased /\ since.off \subseteq Off

ListOfPost(x) == IF x \in Requests THEN "requests" ELSE "replies"

Good(item) ==
  /\ Exists(item.post)
  /\ read.kind \notin OwnKinds => item.post \notin since.unreadable
  /\ item.post \in since.erased => item.body # "text"
  /\ item.by # None =>
       /\ item.by = Row(item.post).author /\ ~Row(item.post).anonymous
       /\ read.kind \in ProfileKinds => ListOfPost(item.post) \in read.lists

ItemsSound == \A item \in read.items : Good(item)

\* Names and lists are those of members who showed them when they were looked up.
NamesSound ==
  /\ \A m \in read.names : \A s \in {"nickname", "visible"} : <<m, s>> \notin since.off
  /\ \A list \in read.lists : <<read.who, list>> \notin since.off

ReadingIInv ==
  RowsTyped /\ ReadTyped /\ PlanSound /\ SubjectSound /\ SinceSound /\ ItemsSound /\ NamesSound

---------------------------------------------------------------------------
(* Plans *)

LEMMA PlansAreSound ==
  ASSUME NEW kind \in Kinds, NEW plan \in Plans(kind)
  PROVE  /\ plan \in Seq(Queries)
         /\ \A i \in 1..Len(plan) :
              PlanHas(kind, plan[i]) /\ (plan[i] = "profile" => i = 1)
<1>1. CASE kind = "today"
  <2>1. plan = <<"recent", "names">> BY <1>1 DEF Plans
  <2>2. /\ "recent" \in Queries /\ PlanHas(kind, "recent")
        /\ "names" \in Queries /\ PlanHas(kind, "names")
    BY <1>1 DEF Queries, PlanHas, ProfileKinds, ThreadKinds
  <2>3. plan \in Seq(Queries) /\ Len(plan) = 2 BY <2>1, <2>2
  <2> QED BY <2>1, <2>2, <2>3
<1>2. CASE kind = "samples"
  <2>1. plan = <<"samples">> BY <1>2 DEF Plans
  <2>2. /\ "samples" \in Queries /\ PlanHas(kind, "samples")
    BY <1>2 DEF Queries, PlanHas, ProfileKinds, ThreadKinds
  <2>3. plan \in Seq(Queries) /\ Len(plan) = 1 BY <2>1, <2>2
  <2> QED BY <2>1, <2>2, <2>3
<1>3. CASE kind = "feed"
  <2>1. plan = <<"feed", "feedReplies", "names">> BY <1>3 DEF Plans
  <2>2. /\ "feed" \in Queries /\ PlanHas(kind, "feed")
        /\ "feedReplies" \in Queries /\ PlanHas(kind, "feedReplies")
        /\ "names" \in Queries /\ PlanHas(kind, "names")
    BY <1>3 DEF Queries, PlanHas, ProfileKinds, ThreadKinds
  <2>3. plan \in Seq(Queries) /\ Len(plan) = 3 BY <2>1, <2>2
  <2> QED BY <2>1, <2>2, <2>3
<1>4. CASE kind = "replies"
  <2>1. plan = <<"replies", "names">> BY <1>4 DEF Plans
  <2>2. /\ "replies" \in Queries /\ PlanHas(kind, "replies")
        /\ "names" \in Queries /\ PlanHas(kind, "names")
    BY <1>4 DEF Queries, PlanHas, ProfileKinds, ThreadKinds
  <2>3. plan \in Seq(Queries) /\ Len(plan) = 2 BY <2>1, <2>2
  <2> QED BY <2>1, <2>2, <2>3
<1>5. CASE kind = "profile"
  <2>1. CASE plan = <<"profile", "publicRequests", "publicReplies">>
    <3>1. plan = <<"profile", "publicRequests", "publicReplies">> BY <1>5, <2>1 DEF Plans
    <3>2. /\ "profile" \in Queries /\ PlanHas(kind, "profile")
        /\ "publicRequests" \in Queries /\ PlanHas(kind, "publicRequests")
        /\ "publicReplies" \in Queries /\ PlanHas(kind, "publicReplies")
    BY <1>5 DEF Queries, PlanHas, ProfileKinds, ThreadKinds
    <3>3. plan \in Seq(Queries) /\ Len(plan) = 3 BY <3>1, <3>2
    <3> QED BY <3>1, <3>2, <3>3
  <2>2. CASE plan = <<"profile", "publicReplies", "publicRequests">>
    <3>1. plan = <<"profile", "publicReplies", "publicRequests">> BY <1>5, <2>2 DEF Plans
    <3>2. /\ "profile" \in Queries /\ PlanHas(kind, "profile")
        /\ "publicReplies" \in Queries /\ PlanHas(kind, "publicReplies")
        /\ "publicRequests" \in Queries /\ PlanHas(kind, "publicRequests")
    BY <1>5 DEF Queries, PlanHas, ProfileKinds, ThreadKinds
    <3>3. plan \in Seq(Queries) /\ Len(plan) = 3 BY <3>1, <3>2
    <3> QED BY <3>1, <3>2, <3>3
  <2> QED BY <1>5, <2>1, <2>2 DEF Plans
<1>6. CASE kind = "requestsPage"
  <2>1. plan = <<"profile", "publicRequests">> BY <1>6 DEF Plans
  <2>2. /\ "profile" \in Queries /\ PlanHas(kind, "profile")
        /\ "publicRequests" \in Queries /\ PlanHas(kind, "publicRequests")
    BY <1>6 DEF Queries, PlanHas, ProfileKinds, ThreadKinds
  <2>3. plan \in Seq(Queries) /\ Len(plan) = 2 BY <2>1, <2>2
  <2> QED BY <2>1, <2>2, <2>3
<1>7. CASE kind = "repliesPage"
  <2>1. plan = <<"profile", "publicReplies">> BY <1>7 DEF Plans
  <2>2. /\ "profile" \in Queries /\ PlanHas(kind, "profile")
        /\ "publicReplies" \in Queries /\ PlanHas(kind, "publicReplies")
    BY <1>7 DEF Queries, PlanHas, ProfileKinds, ThreadKinds
  <2>3. plan \in Seq(Queries) /\ Len(plan) = 2 BY <2>1, <2>2
  <2> QED BY <2>1, <2>2, <2>3
<1>8. CASE kind = "requestThread"
  <2>1. plan = <<"profile", "request", "threadReplies", "names">> BY <1>8 DEF Plans
  <2>2. /\ "profile" \in Queries /\ PlanHas(kind, "profile")
        /\ "request" \in Queries /\ PlanHas(kind, "request")
        /\ "threadReplies" \in Queries /\ PlanHas(kind, "threadReplies")
        /\ "names" \in Queries /\ PlanHas(kind, "names")
    BY <1>8 DEF Queries, PlanHas, ProfileKinds, ThreadKinds
  <2>3. plan \in Seq(Queries) /\ Len(plan) = 4 BY <2>1, <2>2
  <2> QED BY <2>1, <2>2, <2>3
<1>9. CASE kind = "replyThread"
  <2>1. plan = <<"profile", "reply", "request", "threadReplies", "names">> BY <1>9 DEF Plans
  <2>2. /\ "profile" \in Queries /\ PlanHas(kind, "profile")
        /\ "reply" \in Queries /\ PlanHas(kind, "reply")
        /\ "request" \in Queries /\ PlanHas(kind, "request")
        /\ "threadReplies" \in Queries /\ PlanHas(kind, "threadReplies")
        /\ "names" \in Queries /\ PlanHas(kind, "names")
    BY <1>9 DEF Queries, PlanHas, ProfileKinds, ThreadKinds
  <2>3. plan \in Seq(Queries) /\ Len(plan) = 5 BY <2>1, <2>2
  <2> QED BY <2>1, <2>2, <2>3
<1>10. CASE kind = "mine"
  <2>1. plan = <<"mine", "mineReplies", "names">> BY <1>10 DEF Plans
  <2>2. /\ "mine" \in Queries /\ PlanHas(kind, "mine")
        /\ "mineReplies" \in Queries /\ PlanHas(kind, "mineReplies")
        /\ "names" \in Queries /\ PlanHas(kind, "names")
    BY <1>10 DEF Queries, PlanHas, ProfileKinds, ThreadKinds
  <2>3. plan \in Seq(Queries) /\ Len(plan) = 3 BY <2>1, <2>2
  <2> QED BY <2>1, <2>2, <2>3
<1>11. CASE kind = "mineThread"
  <2>1. plan = <<"request", "threadReplies", "names">> BY <1>11 DEF Plans
  <2>2. /\ "request" \in Queries /\ PlanHas(kind, "request")
        /\ "threadReplies" \in Queries /\ PlanHas(kind, "threadReplies")
        /\ "names" \in Queries /\ PlanHas(kind, "names")
    BY <1>11 DEF Queries, PlanHas, ProfileKinds, ThreadKinds
  <2>3. plan \in Seq(Queries) /\ Len(plan) = 3 BY <2>1, <2>2
  <2> QED BY <2>1, <2>2, <2>3
<1>12. CASE kind = "answers"
  <2>1. plan = <<"answers", "names">> BY <1>12 DEF Plans
  <2>2. /\ "answers" \in Queries /\ PlanHas(kind, "answers")
        /\ "names" \in Queries /\ PlanHas(kind, "names")
    BY <1>12 DEF Queries, PlanHas, ProfileKinds, ThreadKinds
  <2>3. plan \in Seq(Queries) /\ Len(plan) = 2 BY <2>1, <2>2
  <2> QED BY <2>1, <2>2, <2>3
<1>13. CASE kind = "notifications"
  <2>1. plan = <<"notifications">> BY <1>13 DEF Plans
  <2>2. /\ "notifications" \in Queries /\ PlanHas(kind, "notifications")
    BY <1>13 DEF Queries, PlanHas, ProfileKinds, ThreadKinds
  <2>3. plan \in Seq(Queries) /\ Len(plan) = 1 BY <2>1, <2>2
  <2> QED BY <2>1, <2>2, <2>3
<1>14. CASE kind = "held"
  <2>1. plan = <<"held", "names">> BY <1>14 DEF Plans
  <2>2. /\ "held" \in Queries /\ PlanHas(kind, "held")
        /\ "names" \in Queries /\ PlanHas(kind, "names")
    BY <1>14 DEF Queries, PlanHas, ProfileKinds, ThreadKinds
  <2>3. plan \in Seq(Queries) /\ Len(plan) = 2 BY <2>1, <2>2
  <2> QED BY <2>1, <2>2, <2>3
<1> QED
  BY <1>1, <1>2, <1>3, <1>4, <1>5, <1>6, <1>7, <1>8, <1>9, <1>10, <1>11, <1>12, <1>13, <1>14
  DEF Kinds
---------------------------------------------------------------------------
(* Rows *)

\* A row of either table is a row of its own type, whichever table was updated.
LEMMA RowTyped ==
  ASSUME RowsTyped, NEW x \in Posts
  PROVE  /\ x \in Requests => x \notin Replies /\ Row(x) = requests[x] /\ Row(x) \in RequestRow
         /\ x \notin Requests => x \in Replies /\ Row(x) = replies[x] /\ Row(x) \in ReplyRow
         /\ Row(x).author \in Authors /\ Row(x).anonymous \in BOOLEAN
         /\ Row(x).author = Guest => Row(x).anonymous
BY PostsAssumption DEF RowsTyped, Row, Posts, RequestRow, ReplyRow

LEMMA PlanNow ==
  ASSUME ReadingIInv, NEW query, Awaits(query)
  PROVE  /\ PlanHas(read.kind, query) /\ read.todo # <<>>
         /\ query = "profile" => read.items = {}
<1>1. read.todo \in Seq(Queries) /\ read.todo # <<>> /\ Head(read.todo) = query
  BY DEF ReadingIInv, ReadTyped, ReadState, Awaits
<1>2. 1 \in 1..Len(read.todo) /\ read.todo[1] = query BY <1>1
<1> QED BY <1>1, <1>2 DEF ReadingIInv, PlanSound

---------------------------------------------------------------------------
(* Changes *)

\* A change keeps who wrote what, and what was taken back stays so.
KeepsPosts ==
  /\ \A x \in Posts : Exists(x) =>
       Exists(x)' /\ Row(x)'.author = Row(x).author /\ Row(x)'.anonymous = Row(x).anonymous
  /\ \A x \in Erased : x \in Erased'

LEMMA WriteSound ==
  ASSUME ReadingIInv, Write, RowsTyped', KeepsPosts
  PROVE  ReadingIInv'
<1>1. read' = read /\ since' = Narrowed /\ writes' \in 0..MaxWrites
  BY WritesAssumption DEF Write, ReadingIInv, ReadTyped
<1>2. since \in SinceState /\ read \in ReadState BY DEF ReadingIInv, ReadTyped
<1>3. /\ since'.unreadable = {x \in since.unreadable : Unreadable(x)'}
      /\ since'.erased = since.erased
      /\ since'.off = {s \in since.off : s[2] \notin members'[s[1]]}
      /\ since' \in SinceState
  BY <1>1, <1>2 DEF Narrowed, SinceState
<1>4. ReadTyped' BY <1>1, <1>2, <1>3 DEF ReadTyped
<1>5. PlanSound' BY <1>1 DEF ReadingIInv, PlanSound
<1>6. SubjectSound'
  <2> SUFFICES ASSUME read.todo # <<>>, read.kind \in ThreadKinds \cup {"replies"}
              PROVE read.post \in Posts /\ Exists(read.post)'
    BY <1>1 DEF ReadingIInv, SubjectSound
  <2>1. read.post \in Posts /\ Exists(read.post) BY DEF ReadingIInv, SubjectSound
  <2>2. PICK x \in Posts : x = read.post BY <2>1
  <2>3. Exists(x)' BY <2>1, <2>2 DEF KeepsPosts
  <2> QED BY <1>1, <2>1, <2>2, <2>3 DEF Exists, Written
<1>7. SinceSound'
  <2>1. since'.unreadable \subseteq Unseen' BY <1>2, <1>3 DEF Unseen, SinceState
  <2>2. since'.erased \subseteq Erased' BY <1>3 DEF ReadingIInv, SinceSound, KeepsPosts
  <2>3. since'.off \subseteq Off' BY <1>2, <1>3 DEF Off, SinceState
  <2> QED BY <2>1, <2>2, <2>3 DEF SinceSound
<1>8. ItemsSound'
  <2> SUFFICES ASSUME NEW item \in read.items PROVE Good(item)' BY <1>1 DEF ItemsSound
  <2>1. Good(item) /\ item.post \in Posts
    BY <1>2 DEF ReadingIInv, ItemsSound, ReadState, Item
  <2>2. /\ Exists(item.post)' /\ Row(item.post)'.author = Row(item.post).author
        /\ Row(item.post)'.anonymous = Row(item.post).anonymous
    BY <2>1 DEF Good, KeepsPosts
  <2> QED BY <1>1, <1>3, <2>1, <2>2 DEF Good
<1>9. NamesSound' BY <1>1, <1>3 DEF ReadingIInv, NamesSound
<1> QED BY <1>4, <1>5, <1>6, <1>7, <1>8, <1>9 DEF ReadingIInv

\* Writing one row that keeps its author, and its request, and takes nothing back.
LEMMA WriteRowSound ==
  ASSUME ReadingIInv, NEW x \in Posts, NEW row, WriteRow(x, row),
         x \in Requests => row \in RequestRow, x \in Replies => row \in ReplyRow,
         row.author = Guest => row.anonymous,
         x \in Requests => (row.blank => row.deleted \/ row.removed),
         x \in Replies => (row.blank => row.deleted),
         Exists(x) => row.author = Row(x).author /\ row.anonymous = Row(x).anonymous,
         x \in Requests => (requests[x].removed => row.removed),
         x \in Replies => (replies[x].deleted => row.deleted),
         x \in Replies => row.request # None
  PROVE  ReadingIInv'
<1>1. RowsTyped /\ Write /\ members' = members BY DEF ReadingIInv, WriteRow
<1>2. CASE x \in Requests
  <2>1. requests' = [requests EXCEPT ![x] = row] /\ replies' = replies BY <1>2 DEF WriteRow
  <2>2. x \notin Replies BY <1>2, PostsAssumption
  <2>3. RowsTyped' BY <1>1, <1>2, <2>1 DEF RowsTyped, Written
  <2>4. \A y \in Requests : requests'[y] = IF y = x THEN row ELSE requests[y]
    BY <1>1, <2>1 DEF RowsTyped
  <2>5. Erased \subseteq Erased' BY <1>2, <2>1, <2>4 DEF Erased
  <2>6. ASSUME NEW y \in Posts, Exists(y)
        PROVE  Exists(y)' /\ Row(y)'.author = Row(y).author /\ Row(y)'.anonymous = Row(y).anonymous
    <3>1. Exists(y)' BY <2>1, <2>6 DEF Exists, Written
    <3>2. CASE y = x BY <1>2, <2>4, <3>1, <3>2 , <2>6 DEF Row
    <3>3. CASE y # x
      <4>1. Row(y)' = Row(y) BY <2>1, <2>4, <3>3 DEF Row
      <4> QED BY <3>1, <4>1
    <3> QED BY <3>2, <3>3
  <2> QED BY <1>1, <2>3, <2>5, <2>6, WriteSound DEF KeepsPosts
<1>3. CASE x \notin Requests
  <2>1. /\ replies' = [replies EXCEPT ![x] = row] /\ requests' = requests
        /\ x \in Replies
    BY <1>3 DEF WriteRow, Posts
  <2>3. RowsTyped' BY <1>1, <2>1 DEF RowsTyped, Written
  <2>4. \A y \in Replies : replies'[y] = IF y = x THEN row ELSE replies[y]
    BY <1>1, <2>1 DEF RowsTyped
  <2>5. Erased \subseteq Erased' BY <2>1, <2>4 DEF Erased
  <2>6. ASSUME NEW y \in Posts, Exists(y)
        PROVE  Exists(y)' /\ Row(y)'.author = Row(y).author /\ Row(y)'.anonymous = Row(y).anonymous
    <3>1. Exists(y)' BY <2>1, <2>4, <2>6 DEF Exists, Written
    <3>2. CASE y = x BY <1>3, <2>1, <2>4, <3>1, <3>2, <2>6 DEF Row
    <3>3. CASE y # x
      <4>1. Row(y)' = Row(y) BY <2>1, <2>4, <3>3, <2>6 DEF Row, Posts
      <4> QED BY <3>1, <4>1
    <3> QED BY <3>2, <3>3
  <2> QED BY <1>1, <2>3, <2>5, <2>6, WriteSound DEF KeepsPosts
<1> QED BY <1>2, <1>3

LEMMA ReplySound ==
  ASSUME ReadingIInv, NEW p \in Replies, NEW q \in Requests, NEW a \in Authors,
         NEW anonymous \in BOOLEAN, Reply(p, q, a, anonymous)
  PROVE  ReadingIInv'
<1> DEFINE row == NewReply(q, a, anonymous)
<1>1. row \in ReplyRow /\ row.author = a /\ row.anonymous = anonymous /\ ~row.blank /\ row.request = q
  BY DEF NewReply, ReplyRow
<1>2. a = Guest => anonymous BY DEF Reply
<1>3. ~Exists(p) /\ p \notin Requests /\ p \in Posts
  BY PostsAssumption DEF Reply, Exists, Posts
<1>4. WriteRow(p, row) BY DEF Reply
<1>5. ~replies[p].deleted BY DEF Reply, ReadingIInv, RowsTyped
<1>6. q # None BY PostsAssumption
<1> HIDE DEF row
<1> QED BY <1>1, <1>2, <1>3, <1>4, <1>5, <1>6, WriteRowSound

Kept(row, old) == row.author = old.author /\ row.anonymous = old.anonymous

LEMMA HideSound == ASSUME ReadingIInv, NEW x \in Posts, Hide(x) PROVE ReadingIInv'
<1> DEFINE row == [Row(x) EXCEPT !.hidden = TRUE]
<1>1. RowsTyped /\ Exists(x) /\ WriteRow(x, row) BY DEF ReadingIInv, Hide
<1>2. CASE x \in Requests
  <2>1. x \notin Replies /\ Row(x) = requests[x] /\ Row(x) \in RequestRow BY <1>1, <1>2, RowTyped
  <2>2. row \in RequestRow /\ Kept(row, Row(x)) /\ row.removed = Row(x).removed
        /\ row.deleted = Row(x).deleted /\ row.blank = Row(x).blank
    BY <2>1 DEF RequestRow, Kept
  <2> HIDE DEF row
  <2> QED BY <1>1, <1>2, <2>1, <2>2, RowTyped, WriteRowSound DEF RowsTyped, Kept
<1>3. CASE x \notin Requests
  <2>1. x \in Replies /\ Row(x) = replies[x] /\ Row(x) \in ReplyRow BY <1>1, <1>3, RowTyped
  <2>2. row \in ReplyRow /\ Kept(row, Row(x)) /\ row.request = Row(x).request
        /\ row.deleted = Row(x).deleted /\ row.blank = Row(x).blank
    BY <2>1 DEF ReplyRow, Kept
  <2>3. row.request # None BY <1>1, <2>1, <2>2 DEF Exists, Written
  <2> HIDE DEF row
  <2> QED BY <1>1, <1>3, <2>1, <2>2, <2>3, RowTyped, WriteRowSound DEF RowsTyped, Kept
<1> QED BY <1>2, <1>3

LEMMA RestoreSound == ASSUME ReadingIInv, NEW x \in Posts, Restore(x) PROVE ReadingIInv'
<1> DEFINE row == [Row(x) EXCEPT !.hidden = FALSE]
<1>1. RowsTyped /\ Exists(x) /\ WriteRow(x, row) BY DEF ReadingIInv, Restore
<1>2. CASE x \in Requests
  <2>1. x \notin Replies /\ Row(x) = requests[x] /\ Row(x) \in RequestRow BY <1>1, <1>2, RowTyped
  <2>2. row \in RequestRow /\ Kept(row, Row(x)) /\ row.removed = Row(x).removed
        /\ row.deleted = Row(x).deleted /\ row.blank = Row(x).blank
    BY <2>1 DEF RequestRow, Kept
  <2> HIDE DEF row
  <2> QED BY <1>1, <1>2, <2>1, <2>2, RowTyped, WriteRowSound DEF RowsTyped, Kept
<1>3. CASE x \notin Requests
  <2>1. x \in Replies /\ Row(x) = replies[x] /\ Row(x) \in ReplyRow BY <1>1, <1>3, RowTyped
  <2>2. row \in ReplyRow /\ Kept(row, Row(x)) /\ row.request = Row(x).request
        /\ row.deleted = Row(x).deleted /\ row.blank = Row(x).blank
    BY <2>1 DEF ReplyRow, Kept
  <2>3. row.request # None BY <1>1, <2>1, <2>2 DEF Exists, Written
  <2> HIDE DEF row
  <2> QED BY <1>1, <1>3, <2>1, <2>2, <2>3, RowTyped, WriteRowSound DEF RowsTyped, Kept
<1> QED BY <1>2, <1>3

LEMMA SoftDeleteSound == ASSUME ReadingIInv, NEW x \in Posts, SoftDelete(x) PROVE ReadingIInv'
<1> DEFINE row == [Row(x) EXCEPT !.deleted = TRUE]
<1>1. RowsTyped /\ Exists(x) /\ WriteRow(x, row) BY DEF ReadingIInv, SoftDelete
<1>2. CASE x \in Requests
  <2>1. x \notin Replies /\ Row(x) = requests[x] /\ Row(x) \in RequestRow BY <1>1, <1>2, RowTyped
  <2>2. row \in RequestRow /\ Kept(row, Row(x)) /\ row.removed = Row(x).removed
        /\ row.deleted = TRUE /\ row.blank = Row(x).blank
    BY <2>1 DEF RequestRow, Kept
  <2> HIDE DEF row
  <2> QED BY <1>1, <1>2, <2>1, <2>2, RowTyped, WriteRowSound DEF RowsTyped, Kept
<1>3. CASE x \notin Requests
  <2>1. x \in Replies /\ Row(x) = replies[x] /\ Row(x) \in ReplyRow BY <1>1, <1>3, RowTyped
  <2>2. row \in ReplyRow /\ Kept(row, Row(x)) /\ row.request = Row(x).request
        /\ row.deleted = TRUE /\ row.blank = Row(x).blank
    BY <2>1 DEF ReplyRow, Kept
  <2>3. row.request # None BY <1>1, <2>1, <2>2 DEF Exists, Written
  <2> HIDE DEF row
  <2> QED BY <1>1, <1>3, <2>1, <2>2, <2>3, RowTyped, WriteRowSound DEF RowsTyped, Kept
<1> QED BY <1>2, <1>3

LEMMA RemoveOwnSound == ASSUME ReadingIInv, NEW q \in Requests, RemoveOwn(q) PROVE ReadingIInv'
<1> DEFINE row == [requests[q] EXCEPT !.removed = TRUE]
<1>1. RowsTyped /\ WriteRow(q, row) /\ q \in Posts BY DEF ReadingIInv, RemoveOwn, Posts
<1>2. q \notin Replies /\ Row(q) = requests[q] /\ Row(q) \in RequestRow BY <1>1, RowTyped
<1>3. row \in RequestRow /\ Kept(row, Row(q)) /\ row.removed
  BY <1>2 DEF RequestRow, Kept
<1> HIDE DEF row
<1> QED BY <1>1, <1>2, <1>3, RowTyped, WriteRowSound DEF RowsTyped, Kept

LEMMA BlankSound == ASSUME ReadingIInv, NEW x \in Posts, Blank(x) PROVE ReadingIInv'
<1> DEFINE row == [Row(x) EXCEPT !.blank = TRUE]
<1>1. /\ RowsTyped /\ WriteRow(x, row)
      /\ ~Row(x).deleted => x \in Requests /\ requests[x].removed
  BY DEF ReadingIInv, Blank
<1>2. CASE x \in Requests
  <2>1. x \notin Replies /\ Row(x) = requests[x] /\ Row(x) \in RequestRow BY <1>1, <1>2, RowTyped
  <2>2. row \in RequestRow /\ Kept(row, Row(x)) /\ row.removed = Row(x).removed
        /\ row.deleted = Row(x).deleted
    BY <2>1 DEF RequestRow, Kept
  <2> HIDE DEF row
  <2> QED BY <1>1, <1>2, <2>1, <2>2, RowTyped, WriteRowSound DEF RowsTyped, Kept
<1>3. CASE x \notin Requests
  <2>1. x \in Replies /\ Row(x) = replies[x] /\ Row(x) \in ReplyRow BY <1>1, <1>3, RowTyped
  <2>2. row \in ReplyRow /\ Kept(row, Row(x)) /\ row.request = Row(x).request
        /\ row.deleted = Row(x).deleted
    BY <2>1 DEF ReplyRow, Kept
  <2>3. Row(x).deleted BY <1>1, <1>3
  <2>4. row.request # None BY <1>1, <2>1, <2>2, <2>3 DEF RowsTyped, Written
  <2> HIDE DEF row
  <2> QED BY <1>1, <1>3, <2>1, <2>2, <2>3, <2>4, RowTyped, WriteRowSound DEF RowsTyped, Kept
<1> QED BY <1>2, <1>3

LEMMA MemberWriteSound ==
  ASSUME ReadingIInv, Write, members' \in [Members -> SUBSET Switches],
         UNCHANGED <<requests, replies>>
  PROVE  ReadingIInv'
<1>1. RowsTyped' BY DEF ReadingIInv, RowsTyped, Written
<1>2. KeepsPosts BY DEF KeepsPosts, Row, Exists, Written, Erased
<1> QED BY <1>1, <1>2, WriteSound

LEMMA SwitchSound ==
  ASSUME ReadingIInv, NEW m \in Members, NEW s \in Switches, Switch(m, s)
  PROVE  ReadingIInv'
<1>1. members \in [Members -> SUBSET Switches] BY DEF ReadingIInv, RowsTyped
<1>2. members' \in [Members -> SUBSET Switches] BY <1>1 DEF Switch
<1> QED BY <1>2, MemberWriteSound DEF Switch

LEMMA ScrubSound == ASSUME ReadingIInv, NEW m \in Members, Scrub(m) PROVE ReadingIInv'
<1>1. members \in [Members -> SUBSET Switches] BY DEF ReadingIInv, RowsTyped
<1>2. members' \in [Members -> SUBSET Switches] BY <1>1 DEF Scrub
<1> QED BY <1>2, MemberWriteSound DEF Scrub

---------------------------------------------------------------------------
(* Responses begin and end *)

LEMMA NoReadSound ==
  ASSUME ReadingIInv, read' = NoRead, since' = NotSince,
         UNCHANGED <<requests, replies, members, writes>>
  PROVE  ReadingIInv'
<1>1. NoRead \in ReadState /\ NotSince \in SinceState
  BY DEF NoRead, NotSince, ReadState, SinceState
<1>2. RowsTyped' /\ ReadTyped' BY <1>1 DEF ReadingIInv, RowsTyped, ReadTyped, Written
<1>3. PlanSound' /\ SubjectSound' BY DEF NoRead, PlanSound, SubjectSound
<1>4. SinceSound' BY DEF SinceSound, NotSince
<1>5. ItemsSound' /\ NamesSound' BY DEF ItemsSound, NamesSound, NoRead
<1> QED BY <1>2, <1>3, <1>4, <1>5 DEF ReadingIInv

LEMMA StartSound == ASSUME ReadingIInv, NEW kind \in Kinds, Start(kind) PROVE ReadingIInv'
<1>1. PICK plan \in Plans(kind),
        who \in IF kind \in NeedsMember THEN Members ELSE IF kind = "answers" THEN Authors ELSE {None},
        post \in IF kind \in DOMAIN NeedsPost THEN NeedsPost[kind] ELSE {None} :
          read' = [NoRead EXCEPT !.kind = kind, !.who = who, !.post = post, !.todo = plan]
  BY DEF Start
<1>2. /\ read'.kind = kind /\ read'.who = who /\ read'.post = post /\ read'.todo = plan
      /\ read'.items = {} /\ read'.names = {} /\ read'.lists = {}
  BY <1>1 DEF NoRead
<1>3. /\ plan \in Seq(Queries)
      /\ \A i \in 1..Len(plan) : PlanHas(kind, plan[i]) /\ (plan[i] = "profile" => i = 1)
  BY PlansAreSound
<1>4. who \in Authors \cup {None} /\ (kind \in NeedsMember => who \in Members) BY DEF Authors
<1>5. /\ post \in Posts \cup {None}
      /\ kind \in ThreadKinds \cup {"replies"} => post \in Posts /\ Exists(post)
  BY PostsAssumption DEF NeedsPost, Posts, ThreadKinds, Exists
<1>6. read' \in ReadState
  BY <1>1, <1>3, <1>4, <1>5 DEF NoRead, ReadState
<1>7. since'.unreadable = Unseen /\ since'.erased = Erased /\ since'.off = Off /\ since' \in SinceState
  BY DEF Start, SinceState, Unseen, Erased, Off, Posts
<1>8. UNCHANGED <<requests, replies, members, writes>> BY DEF Start
<1>9. RowsTyped' /\ ReadTyped' BY <1>6, <1>7, <1>8 DEF ReadingIInv, RowsTyped, ReadTyped, Written
<1>10. PlanSound' BY <1>2, <1>3 DEF PlanSound
<1>11. SubjectSound' BY <1>2, <1>4, <1>5, <1>8 DEF SubjectSound, Exists, Written
<1>12. SinceSound' BY <1>7, <1>8 DEF SinceSound, Unseen, Erased, Off, Unreadable, Row
<1>13. ItemsSound' /\ NamesSound' BY <1>2 DEF ItemsSound, NamesSound
<1> QED BY <1>9, <1>10, <1>11, <1>12, <1>13 DEF ReadingIInv

---------------------------------------------------------------------------
(* Queries *)

LEMMA TodoSound ==
  ASSUME ReadingIInv, NEW query, Awaits(query), read'.todo = Tail(read.todo),
         read'.kind = read.kind
  PROVE  /\ read'.todo \in Seq(Queries)
         /\ PlanSound'
<1>1. read.todo \in Seq(Queries) /\ read.todo # <<>>
  BY DEF ReadingIInv, ReadTyped, ReadState, Awaits
<1>2. /\ Tail(read.todo) \in Seq(Queries) /\ Len(Tail(read.todo)) = Len(read.todo) - 1
      /\ \A i \in 1..Len(Tail(read.todo)) : Tail(read.todo)[i] = read.todo[i + 1]
  BY <1>1, HeadTailProperties
<1>3. ASSUME NEW i \in 1..Len(Tail(read.todo))
      PROVE  i + 1 \in 1..Len(read.todo) /\ i + 1 # 1
  BY <1>1, <1>2
<1>4. PlanSound' BY <1>2, <1>3 DEF ReadingIInv, PlanSound
<1> QED BY <1>2, <1>4

\* A query other than that for a profile adds items of its own to those gathered.
LEMMA ServeSound ==
  ASSUME ReadingIInv, NEW query, NEW items, Serve(query, items),
         \A item \in items : item \in Item /\ Good(item)
  PROVE  ReadingIInv'
<1>1. Awaits(query) /\ UNCHANGED <<requests, replies, members, since, writes>> BY DEF Serve
<1>2. read \in ReadState BY DEF ReadingIInv, ReadTyped
<1>3. read' = [read EXCEPT !.todo = Tail(@), !.items = @ \cup items] BY DEF Serve
<1>4. /\ read'.kind = read.kind /\ read'.who = read.who /\ read'.post = read.post
      /\ read'.todo = Tail(read.todo) /\ read'.items = read.items \cup items
      /\ read'.names = read.names /\ read'.lists = read.lists
  BY <1>2, <1>3 DEF ReadState
<1>5. read'.todo \in Seq(Queries) /\ PlanSound' BY <1>1, <1>4, TodoSound
<1>6. read' \in ReadState BY <1>2, <1>3, <1>4, <1>5 DEF ReadState
<1>7. RowsTyped' /\ ReadTyped' BY <1>1, <1>6 DEF ReadingIInv, RowsTyped, ReadTyped, Written
<1>8. SubjectSound'
  BY <1>1, <1>4, PlanNow DEF ReadingIInv, SubjectSound, Exists, Written
<1>9. SinceSound' BY <1>1 DEF ReadingIInv, SinceSound, Unseen, Erased, Off, Unreadable, Row
<1>10. ItemsSound'
  BY <1>1, <1>4 DEF ReadingIInv, ItemsSound, Good, Exists, Written, Row, Unreadable
<1>11. NamesSound' BY <1>1, <1>4 DEF ReadingIInv, NamesSound
<1> QED BY <1>5, <1>7, <1>8, <1>9, <1>10, <1>11 DEF ReadingIInv

\* The items the mappers make of a row.
LEMMA ByTyped ==
  ASSUME RowsTyped, NEW x \in Posts
  PROVE  /\ By(x) \in Members \cup {None}
         /\ By(x) # None => By(x) = Row(x).author /\ ~Row(x).anonymous
BY RowTyped DEF By, Authors

LEMMA ItemsTyped ==
  ASSUME RowsTyped
  PROVE  /\ \A q \in Requests :
              RequestItem(q) \in Item /\ RequestItem(q).post = q /\ RequestItem(q).by = By(q)
              /\ (requests[q].removed => RequestItem(q).body = "placeholder")
         /\ \A p \in Replies :
              ReplyItem(p) \in Item /\ ReplyItem(p).post = p /\ ReplyItem(p).by = By(p)
         /\ \A p \in Replies :
              LoggedReply(p) \in Item /\ LoggedReply(p).post = p /\ LoggedReply(p).by = By(p)
              /\ (replies[p].deleted => LoggedReply(p).body = "placeholder")
<1>1. ASSUME NEW x \in Posts PROVE Stored(x) \in {"text", "blank"} BY DEF Stored
<1>2. Requests \subseteq Posts /\ Replies \subseteq Posts BY DEF Posts
<1> QED BY <1>1, <1>2, ByTyped
        DEF RequestItem, ReplyItem, LoggedReply, RequestBody, ReplyBody, Item

LEMMA SinceNow ==
  ASSUME ReadingIInv, NEW x \in Posts
  PROVE  /\ Readable(x) => x \notin since.unreadable
         /\ x \in Requests /\ x \in since.erased => requests[x].removed
         /\ x \in Replies /\ x \in since.erased => replies[x].deleted
<1>1. since.unreadable \subseteq Unseen /\ since.erased \subseteq Erased BY DEF ReadingIInv, SinceSound
<1> QED BY <1>1, PostsAssumption DEF Unseen, Erased, Readable

\* An item of a request, of a reply that can be read, and of a viewer's own reply.
LEMMA RequestGood ==
  ASSUME ReadingIInv, NEW q \in Requests, read.kind \notin ProfileKinds,
         read.kind \notin OwnKinds => Readable(q)
  PROVE  RequestItem(q) \in Item /\ Good(RequestItem(q)) /\ RequestItem(q).post = q
<1>1. RowsTyped /\ q \in Posts /\ q \notin Replies BY PostsAssumption DEF ReadingIInv, Posts
<1> QED BY <1>1, SinceNow, ItemsTyped, ByTyped DEF Good, Exists

LEMMA ReplyGood ==
  ASSUME ReadingIInv, NEW p \in Replies, read.kind \notin ProfileKinds, Written(p), Readable(p)
  PROVE  ReplyItem(p) \in Item /\ Good(ReplyItem(p))
<1>1. RowsTyped /\ p \in Posts BY DEF ReadingIInv, Posts
<1>2. ~replies[p].deleted BY <1>1, RowTyped, PostsAssumption DEF Readable, Unreadable
<1> QED BY <1>1, <1>2, SinceNow, ItemsTyped, ByTyped DEF Good, Exists

LEMMA LoggedGood ==
  ASSUME ReadingIInv, NEW p \in Replies, read.kind \in OwnKinds, Written(p)
  PROVE  LoggedReply(p) \in Item /\ Good(LoggedReply(p))
<1>1. RowsTyped /\ p \in Posts BY DEF ReadingIInv, Posts
<1> QED BY <1>1, SinceNow, ItemsTyped, ByTyped DEF Good, Exists, OwnKinds, ProfileKinds

\* Without its name an item is good wherever it was read, and it is in no list.
LEMMA NamelessGood ==
  ASSUME ReadingIInv, NEW item \in Item, Exists(item.post),
         read.kind \notin OwnKinds => item.post \notin since.unreadable,
         item.post \in since.erased => item.body # "text"
  PROVE  Nameless(item) \in Item /\ Good(Nameless(item))
<1>1. /\ Nameless(item) \in Item /\ Nameless(item).post = item.post
      /\ Nameless(item).body = item.body /\ Nameless(item).by = None
  BY DEF Item, Nameless
<1> QED BY <1>1 DEF Good

LEMMA NamelessRequestGood ==
  ASSUME ReadingIInv, NEW q \in Requests, read.kind \notin OwnKinds => Readable(q)
  PROVE  Nameless(RequestItem(q)) \in Item /\ Good(Nameless(RequestItem(q)))
<1>1. RowsTyped /\ q \in Posts /\ q \notin Replies BY PostsAssumption DEF ReadingIInv, Posts
<1>2. /\ RequestItem(q) \in Item /\ RequestItem(q).post = q
      /\ requests[q].removed => RequestItem(q).body = "placeholder"
  BY <1>1, ItemsTyped
<1> QED BY <1>1, <1>2, SinceNow, NamelessGood DEF Exists

LEMMA NamelessReplyGood ==
  ASSUME ReadingIInv, NEW p \in Replies, Written(p), Readable(p)
  PROVE  Nameless(ReplyItem(p)) \in Item /\ Good(Nameless(ReplyItem(p)))
<1>1. RowsTyped /\ p \in Posts BY DEF ReadingIInv, Posts
<1>2. ReplyItem(p) \in Item /\ ReplyItem(p).post = p BY <1>1, ItemsTyped
<1>3. ~replies[p].deleted BY <1>1, RowTyped, PostsAssumption DEF Readable, Unreadable
<1> QED BY <1>1, <1>2, <1>3, SinceNow, NamelessGood DEF Exists

\* The request a written reply answers is a request.
LEMMA AnswersRequest ==
  ASSUME RowsTyped, NEW p \in Replies
  PROVE  /\ Written(p) => replies[p].request \in Requests
         /\ \A q \in Posts : replies[p].request = q => Written(p)
<1>1. replies[p].request \in Requests \cup {None} BY DEF RowsTyped, ReplyRow
<1>2. None \notin Posts BY PostsAssumption DEF Posts
<1> QED BY <1>1, <1>2 DEF Written

LEMMA ThreadIsRequest ==
  ASSUME ReadingIInv, read.todo # <<>>, read.kind \in ThreadKinds
  PROVE  Thread \in Requests
<1>1. read.post \in Posts /\ Exists(read.post) /\ RowsTyped
  BY DEF ReadingIInv, SubjectSound
<1> QED BY <1>1, AnswersRequest DEF Thread, Posts, Exists

---------------------------------------------------------------------------
(* Each query is served only such items *)

LEMMA FindVisibleSound == ASSUME ReadingIInv, FindVisible PROVE ReadingIInv'
<1>1. Awaits("recent") BY DEF FindVisible, Serve
<1>2. read.kind \notin ProfileKinds BY <1>1, PlanNow DEF PlanHas
<1> QED BY <1>2, RequestGood, ServeSound DEF FindVisible

LEMMA FindSampleExchangesSound == ASSUME ReadingIInv, FindSampleExchanges PROVE ReadingIInv'
<1>1. RowsTyped BY DEF ReadingIInv
<1> DEFINE rows == {r \in Replies : /\ Written(r) /\ Readable(r) /\ Readable(replies[r].request)
                                    /\ ~requests[replies[r].request].removed}
           pair(p) == {Nameless(ReplyItem(p)), Nameless(RequestItem(replies[p].request))}
<1>2. ASSUME NEW p \in rows, NEW item \in pair(p) PROVE item \in Item /\ Good(item)
  <2>1. Written(p) /\ Readable(p) /\ Readable(replies[p].request) OBVIOUS
  <2>2. replies[p].request \in Requests BY <1>1, <2>1, AnswersRequest
  <2> QED BY <2>1, <2>2, NamelessReplyGood, NamelessRequestGood
<1>3. Serve("samples", UNION {pair(p) : p \in rows}) BY DEF FindSampleExchanges
<1> HIDE DEF rows, pair
<1> QED BY <1>2, <1>3, ServeSound

LEMMA FindFeedSound == ASSUME ReadingIInv, FindFeed PROVE ReadingIInv'
<1>1. Awaits("feed") BY DEF FindFeed, Serve
<1>2. read.kind \notin ProfileKinds BY <1>1, PlanNow DEF PlanHas
<1> QED BY <1>2, RequestGood, ServeSound DEF FindFeed

LEMMA ItemPosts == ASSUME ReadingIInv, NEW i \in read.items PROVE i.post \in Posts
BY DEF ReadingIInv, ReadTyped, ReadState, Item

LEMMA FindFeedRepliesSound == ASSUME ReadingIInv, FindFeedReplies PROVE ReadingIInv'
<1>1. Awaits("feedReplies") BY DEF FindFeedReplies, Serve
<1>2. read.kind \notin ProfileKinds BY <1>1, PlanNow DEF PlanHas
<1>3. ASSUME NEW r \in Replies, NEW i \in read.items, i.post = replies[r].request
      PROVE  Written(r)
  BY <1>3, ItemPosts, AnswersRequest DEF ReadingIInv
<1> QED BY <1>2, <1>3, ReplyGood, ServeSound DEF FindFeedReplies

LEMMA FindVisibleByRequestIdSound == ASSUME ReadingIInv, FindVisibleByRequestId PROVE ReadingIInv'
<1>1. Awaits("replies") BY DEF FindVisibleByRequestId, Serve
<1>2. read.kind = "replies" /\ read.todo # <<>> BY <1>1, PlanNow DEF PlanHas
<1>3. read.post \in Posts BY <1>2 DEF ReadingIInv, SubjectSound
<1>4. ASSUME NEW r \in RepliesOf(read.post) PROVE r \in Replies /\ Written(r)
  BY <1>3, AnswersRequest DEF ReadingIInv, RepliesOf
<1> QED BY <1>2, <1>4, ReplyGood, ServeSound DEF FindVisibleByRequestId, ProfileKinds

LEMMA FindThreadRepliesSound == ASSUME ReadingIInv, FindThreadReplies PROVE ReadingIInv'
<1>1. Awaits("threadReplies") BY DEF FindThreadReplies, Serve
<1>2. read.kind \in ThreadKinds /\ read.todo # <<>> BY <1>1, PlanNow DEF PlanHas
<1>3. Thread \in Posts BY <1>2, ThreadIsRequest DEF Posts
<1>4. ASSUME NEW r \in RepliesOf(Thread) PROVE r \in Replies /\ Written(r)
  BY <1>3, AnswersRequest DEF ReadingIInv, RepliesOf
<1> QED BY <1>2, <1>4, ReplyGood, ServeSound DEF FindThreadReplies, ThreadKinds, ProfileKinds

\* An item of a profile's list carries the name of the profile, whose list is on.
LEMMA ListedGood ==
  ASSUME ReadingIInv, NEW item \in Item, Exists(item.post), Readable(item.post),
         item.post \in since.erased => item.body # "text",
         read.who = Row(item.post).author, ~Row(item.post).anonymous,
         ListOfPost(item.post) \in read.lists
  PROVE  [item EXCEPT !.by = read.who] \in Item /\ Good([item EXCEPT !.by = read.who])
<1>1. RowsTyped /\ item.post \in Posts BY DEF ReadingIInv, Item
<1>2. read.who \in Members BY <1>1, RowTyped DEF Authors
<1> DEFINE named == [item EXCEPT !.by = read.who]
<1>3. named \in Item /\ named.post = item.post /\ named.body = item.body /\ named.by = read.who
  BY <1>2 DEF Item
<1> HIDE DEF named
<1>4. Good(named) BY <1>1, <1>3, SinceNow DEF Good
<1> QED BY <1>3, <1>4 DEF named

LEMMA FindPublicRequestsSound == ASSUME ReadingIInv, FindPublicRequests PROVE ReadingIInv'
<1>1. RowsTyped BY DEF ReadingIInv
<1>2. ASSUME NEW q \in Requests, "requests" \in read.lists, requests[q].author = read.who,
             ~requests[q].anonymous, Readable(q)
      PROVE  [RequestItem(q) EXCEPT !.by = read.who] \in Item
             /\ Good([RequestItem(q) EXCEPT !.by = read.who])
  <2>1. q \in Posts /\ q \notin Replies BY PostsAssumption DEF Posts
  <2>2. /\ RequestItem(q) \in Item /\ RequestItem(q).post = q
        /\ requests[q].removed => RequestItem(q).body = "placeholder"
    BY <1>1, ItemsTyped
  <2>3. Row(q) = requests[q] /\ ListOfPost(q) = "requests" BY DEF Row, ListOfPost
  <2> QED BY <1>2, <2>1, <2>2, <2>3, SinceNow, ListedGood DEF Exists
<1> QED BY <1>2, ServeSound DEF FindPublicRequests

LEMMA FindPublicRepliesSound == ASSUME ReadingIInv, FindPublicReplies PROVE ReadingIInv'
<1>1. RowsTyped BY DEF ReadingIInv
<1> DEFINE rows == {r \in Replies : /\ "replies" \in read.lists /\ Written(r)
                                    /\ replies[r].author = read.who /\ ~replies[r].anonymous
                                    /\ Readable(r) /\ Readable(replies[r].request)}
           pair(p) == {[ReplyItem(p) EXCEPT !.by = read.who], Nameless(RequestItem(replies[p].request))}
<1>2. ASSUME NEW p \in rows, NEW item \in pair(p) PROVE item \in Item /\ Good(item)
  <2>1. /\ p \in Replies /\ "replies" \in read.lists /\ Written(p)
        /\ replies[p].author = read.who /\ ~replies[p].anonymous
        /\ Readable(p) /\ Readable(replies[p].request)
    OBVIOUS
  <2> HIDE DEF rows
  <2>2. replies[p].request \in Requests BY <1>1, <2>1, AnswersRequest
  <2>3. p \in Posts /\ p \notin Requests BY <2>1, PostsAssumption DEF Posts
  <2>4. ReplyItem(p) \in Item /\ ReplyItem(p).post = p BY <1>1, <2>1, ItemsTyped
  <2>5. Row(p) = replies[p] /\ ListOfPost(p) = "replies" BY <2>3 DEF Row, ListOfPost
  <2>6. ~replies[p].deleted BY <2>1, <2>5 DEF Readable, Unreadable
  <2>7. /\ [ReplyItem(p) EXCEPT !.by = read.who] \in Item
        /\ Good([ReplyItem(p) EXCEPT !.by = read.who])
    BY <2>1, <2>3, <2>4, <2>5, <2>6, SinceNow, ListedGood DEF Exists
  <2>8. /\ Nameless(RequestItem(replies[p].request)) \in Item
        /\ Good(Nameless(RequestItem(replies[p].request)))
    BY <2>1, <2>2, NamelessRequestGood
  <2> QED BY <2>7, <2>8
<1>3. Serve("publicReplies", UNION {pair(p) : p \in rows}) BY DEF FindPublicReplies
<1> HIDE DEF rows, pair
<1> QED BY <1>2, <1>3, ServeSound

LEMMA FindReplySound == ASSUME ReadingIInv, FindReply PROVE ReadingIInv'
<1>1. CASE ReplyFound
  <2>1. Serve("reply", {}) BY <1>1 DEF FindReply
  <2> QED BY <2>1, ServeSound
<1>2. CASE ~ReplyFound BY <1>2, NoReadSound DEF FindReply, NotFound
<1> QED BY <1>1, <1>2

LEMMA FindRequestSound == ASSUME ReadingIInv, FindRequest PROVE ReadingIInv'
<1>1. CASE RequestFound
  <2>1. Awaits("request") /\ Serve("request", {RequestItem(Thread)}) BY <1>1 DEF FindRequest
  <2>2. read.kind \in ThreadKinds /\ read.todo # <<>> BY <2>1, PlanNow DEF PlanHas
  <2>3. Thread \in Requests /\ Readable(Thread) BY <1>1, <2>2, ThreadIsRequest DEF RequestFound
  <2>4. read.kind \notin ProfileKinds BY <2>2 DEF ThreadKinds, ProfileKinds
  <2>5. RequestItem(Thread) \in Item /\ Good(RequestItem(Thread)) BY <2>3, <2>4, RequestGood
  <2> QED BY <2>1, <2>5, ServeSound
<1>2. CASE ~RequestFound BY <1>2, NoReadSound DEF FindRequest, NotFound
<1> QED BY <1>1, <1>2

LEMMA FindMineSound == ASSUME ReadingIInv, FindMine PROVE ReadingIInv'
<1>1. Awaits("mine") BY DEF FindMine, Serve
<1>2. read.kind = "mine" BY <1>1, PlanNow DEF PlanHas
<1> QED BY <1>2, RequestGood, ServeSound DEF FindMine, OwnKinds, ProfileKinds

LEMMA FindMineRepliesSound == ASSUME ReadingIInv, FindMineReplies PROVE ReadingIInv'
<1>1. Awaits("mineReplies") BY DEF FindMineReplies, Serve
<1>2. read.kind = "mine" BY <1>1, PlanNow DEF PlanHas
<1>3. ASSUME NEW r \in Replies, NEW i \in read.items, i.post = replies[r].request
      PROVE  Written(r)
  BY <1>3, ItemPosts, AnswersRequest DEF ReadingIInv
<1> QED BY <1>2, <1>3, LoggedGood, ServeSound DEF FindMineReplies, OwnKinds

LEMMA FindAnswersSound == ASSUME ReadingIInv, FindAnswers PROVE ReadingIInv'
<1>1. Awaits("answers") /\ RowsTyped BY DEF FindAnswers, Serve, ReadingIInv
<1>2. read.kind = "answers" BY <1>1, PlanNow DEF PlanHas
<1> DEFINE rows == {r \in Replies : Written(r) /\ replies[r].author = read.who /\ ~replies[r].deleted}
           pair(p) == {LoggedReply(p), RequestItem(replies[p].request)}
<1>3. ASSUME NEW p \in rows, NEW item \in pair(p) PROVE item \in Item /\ Good(item)
  <2>1. p \in Replies /\ Written(p) OBVIOUS
  <2>2. replies[p].request \in Requests BY <1>1, <2>1, AnswersRequest
  <2> QED BY <1>2, <2>1, <2>2, LoggedGood, RequestGood DEF OwnKinds, ProfileKinds
<1>4. Serve("answers", UNION {pair(p) : p \in rows}) BY DEF FindAnswers
<1> HIDE DEF rows, pair
<1> QED BY <1>3, <1>4, ServeSound

LEMMA FindNotificationsSound == ASSUME ReadingIInv, FindNotifications PROVE ReadingIInv'
<1>1. Awaits("notifications") BY DEF FindNotifications, Serve
<1>2. read.kind = "notifications" BY <1>1, PlanNow DEF PlanHas
<1> QED BY <1>2, NamelessRequestGood, ServeSound DEF FindNotifications, OwnKinds

LEMMA FindHeldSound == ASSUME ReadingIInv, FindHeld PROVE ReadingIInv'
<1>1. PICK held \in SUBSET {r \in Requests : ~requests[r].removed} :
        Serve("held", {RequestItem(q) : q \in held})
  BY DEF FindHeld
<1>2. read.kind = "held" BY <1>1, PlanNow DEF Serve, PlanHas
<1>3. ASSUME NEW q \in held PROVE RequestItem(q) \in Item /\ Good(RequestItem(q))
  BY <1>2, RequestGood DEF OwnKinds, ProfileKinds
<1> QED BY <1>1, <1>3, ServeSound

LEMMA FindUserSound == ASSUME ReadingIInv, FindUser PROVE ReadingIInv'
<1>1. /\ Awaits("profile") /\ Findable
      /\ UNCHANGED <<requests, replies, members, since, writes>>
  BY DEF FindUser
<1>2. read \in ReadState /\ RowsTyped BY DEF ReadingIInv, ReadTyped
<1>3. read.items = {} /\ read.todo # <<>> /\ read.who \in Members
  BY <1>1, PlanNow DEF PlanHas, ReadingIInv, SubjectSound, ProfileKinds, NeedsMember
<1>4. members[read.who] \subseteq Switches BY <1>2, <1>3 DEF RowsTyped
<1>5. /\ read'.kind = read.kind /\ read'.who = read.who /\ read'.post = read.post
      /\ read'.todo = Tail(read.todo) /\ read'.items = read.items
      /\ read'.names \subseteq {read.who} /\ read'.lists = members[read.who]
      /\ read' = [read EXCEPT !.todo = read'.todo, !.lists = read'.lists, !.names = read'.names]
  BY <1>2 DEF FindUser, ReadState
<1>6. read'.todo \in Seq(Queries) /\ PlanSound' BY <1>1, <1>5, TodoSound
<1>7. read' \in ReadState BY <1>2, <1>3, <1>4, <1>5, <1>6 DEF ReadState
<1>8. RowsTyped' /\ ReadTyped' BY <1>1, <1>7 DEF ReadingIInv, RowsTyped, ReadTyped, Written
<1>9. SubjectSound' BY <1>1, <1>3, <1>5 DEF ReadingIInv, SubjectSound, Exists, Written
<1>10. SinceSound' BY <1>1 DEF ReadingIInv, SinceSound, Unseen, Erased, Off, Unreadable, Row
<1>11. ItemsSound' BY <1>3, <1>5 DEF ItemsSound
<1>12. NamesSound'
  <2>1. since.off \subseteq Off BY DEF ReadingIInv, SinceSound
  <2>2. ASSUME NEW s \in members[read.who] PROVE <<read.who, s>> \notin since.off
    BY <2>1, <2>2 DEF Off
  <2>3. "nickname" \in members[read.who] /\ "visible" \in members[read.who]
    BY <1>1 DEF Findable
  <2> QED BY <1>1, <1>5, <2>2, <2>3 DEF NamesSound
<1> QED BY <1>6, <1>8, <1>9, <1>10, <1>11, <1>12 DEF ReadingIInv

LEMMA FindNamesSound == ASSUME ReadingIInv, FindNames PROVE ReadingIInv'
<1>1. Awaits("names") /\ UNCHANGED <<requests, replies, members, since, writes>>
  BY DEF FindNames
<1>2. read \in ReadState /\ read.todo # <<>> BY <1>1, PlanNow DEF ReadingIInv, ReadTyped
<1> DEFINE shown == {m \in Members : {"nickname", "visible"} \subseteq members[m]}
<1>3. /\ read'.kind = read.kind /\ read'.who = read.who /\ read'.post = read.post
      /\ read'.todo = Tail(read.todo) /\ read'.items = read.items
      /\ read'.names = shown /\ read'.lists = read.lists
      /\ read' = [read EXCEPT !.todo = read'.todo, !.names = read'.names]
  BY <1>2 DEF FindNames, ReadState
<1>4. read'.todo \in Seq(Queries) /\ PlanSound' BY <1>1, <1>3, TodoSound
<1>5. read' \in ReadState BY <1>2, <1>3, <1>4 DEF ReadState
<1>6. RowsTyped' /\ ReadTyped' BY <1>1, <1>5 DEF ReadingIInv, RowsTyped, ReadTyped, Written
<1>7. SubjectSound' BY <1>1, <1>2, <1>3 DEF ReadingIInv, SubjectSound, Exists, Written
<1>8. SinceSound' BY <1>1 DEF ReadingIInv, SinceSound, Unseen, Erased, Off, Unreadable, Row
<1>9. ItemsSound'
  BY <1>1, <1>3 DEF ReadingIInv, ItemsSound, Good, Exists, Written, Row
<1>10. NamesSound'
  <2>1. since.off \subseteq Off BY DEF ReadingIInv, SinceSound
  <2>2. ASSUME NEW m \in shown, NEW s \in {"nickname", "visible"} PROVE <<m, s>> \notin since.off
    BY <2>1, <2>2 DEF Off
  <2>3. \A list \in read.lists : <<read.who, list>> \notin since.off BY DEF ReadingIInv, NamesSound
  <2> HIDE DEF shown
  <2> QED BY <1>1, <1>3, <2>2, <2>3 DEF NamesSound
<1> QED BY <1>4, <1>6, <1>7, <1>8, <1>9, <1>10 DEF ReadingIInv

---------------------------------------------------------------------------
(* Theorems *)

LEMMA ReadingInitSound == ReadingInit => ReadingIInv
<1> SUFFICES ASSUME ReadingInit PROVE ReadingIInv OBVIOUS
<1>1. ASSUME NEW q \in Requests
      PROVE  /\ requests[q] \in RequestRow /\ ~requests[q].blank
             /\ requests[q].author = Guest => requests[q].anonymous
  <2>1. PICK a \in Authors, anonymous \in BOOLEAN : requests[q] = NewRequest(a, anonymous)
    BY DEF ReadingInit
  <2> QED BY <2>1 DEF ReadingInit, NewRequest, RequestRow
<1>2. requests \in [Requests -> RequestRow] BY <1>1 DEF ReadingInit
<1>3. NewReply(None, Guest, TRUE) \in ReplyRow BY DEF NewReply, ReplyRow, Authors
<1>4. RowsTyped
  BY <1>1, <1>2, <1>3 DEF ReadingInit, RowsTyped, NewReply, Switches
<1>5. ReadTyped
  BY WritesAssumption DEF ReadingInit, ReadTyped, NoRead, NotSince, ReadState, SinceState
<1>6. PlanSound /\ SubjectSound /\ ItemsSound /\ NamesSound
  BY DEF ReadingInit, NoRead, PlanSound, SubjectSound, ItemsSound, NamesSound
<1>7. SinceSound BY DEF ReadingInit, SinceSound, NotSince
<1> QED BY <1>4, <1>5, <1>6, <1>7 DEF ReadingIInv

LEMMA ReadingNextSound == ReadingIInv /\ [ReadingNext]_readingVars => ReadingIInv'
<1> SUFFICES ASSUME ReadingIInv, [ReadingNext]_readingVars PROVE ReadingIInv' OBVIOUS
<1>1. CASE WriteNext
  BY <1>1, ReplySound, HideSound, RestoreSound, SoftDeleteSound, BlankSound, RemoveOwnSound,
     SwitchSound, ScrubSound
  DEF WriteNext
<1>2. CASE ReadNext
  <2>1. CASE NoUser \/ Finish BY <2>1, NoReadSound DEF NoUser, NotFound, Finish
  <2>2. CASE \E kind \in Kinds : Start(kind) BY <2>2, StartSound
  <2> QED
    BY <1>2, <2>1, <2>2, FindVisibleSound, FindSampleExchangesSound, FindFeedSound,
       FindFeedRepliesSound, FindVisibleByRequestIdSound, FindUserSound,
       FindPublicRequestsSound, FindPublicRepliesSound, FindReplySound, FindRequestSound,
       FindThreadRepliesSound, FindMineSound, FindMineRepliesSound, FindAnswersSound,
       FindNotificationsSound, FindHeldSound, FindNamesSound
    DEF ReadNext
<1>3. CASE UNCHANGED readingVars
  <2>1. UNCHANGED <<requests, replies, members, read, since, writes>> BY <1>3 DEF readingVars
  <2>2. RowsTyped' /\ ReadTyped' /\ PlanSound' /\ SubjectSound'
    BY <2>1 DEF ReadingIInv, RowsTyped, Written, ReadTyped, PlanSound, SubjectSound, Exists
  <2>3. SinceSound' /\ NamesSound'
    BY <2>1 DEF ReadingIInv, SinceSound, Unseen, Erased, Off, Unreadable, Row, NamesSound
  <2>4. ItemsSound' BY <2>1 DEF ReadingIInv, ItemsSound, Good, Exists, Written, Row
  <2> QED BY <2>2, <2>3, <2>4 DEF ReadingIInv
<1> QED BY <1>1, <1>2, <1>3 DEF ReadingNext

LEMMA ReadingInvariant == ReadingSpec => []ReadingIInv
BY ReadingInitSound, ReadingNextSound, PTL DEF ReadingSpec

\* Every state of the tables and of a response is one of the types.
THEOREM ReadingTypeSound == ReadingSpec => []ReadingTypeOK
<1>1. ReadingIInv => ReadingTypeOK
  BY DEF ReadingIInv, RowsTyped, ReadTyped, ReadState, SinceState, ReadingTypeOK
<1> QED BY <1>1, ReadingInvariant, PTL

\* No response but the viewer's own records, notifications and held requests contains a
\* post that was hidden or deleted during the whole of the read, however the changes fall
\* between its queries.
THEOREM HiddenNeverServed == ReadingSpec => []HiddenIsNotServed
<1>1. ReadingIInv => HiddenIsNotServed
  BY DEF ReadingIInv, ItemsSound, Good, HiddenIsNotServed, OwnKinds
<1> QED BY <1>1, ReadingInvariant, PTL

\* No response, the author's own included, carries the text of a post that was taken back
\* before the read began.
THEOREM TakenBackNeverServed == ReadingSpec => []TakenBackIsGone
<1>1. ReadingIInv => TakenBackIsGone
  BY DEF ReadingIInv, ItemsSound, Good, TakenBackIsGone
<1> QED BY <1>1, ReadingInvariant, PTL

\* Posts are named by their authors' choice alone, and a nickname or a list that was off
\* during the whole of a read names and lists nothing.
THEOREM NamedByChoiceAlways == ReadingSpec => []NamedByChoice
<1>1. ReadingIInv => NamedByChoice
  <2> SUFFICES ASSUME ReadingIInv, Complete PROVE NamedByChoice
    BY DEF NamedByChoice
  <2>1. \A item \in read.items : Good(item) /\ item.post \in Posts
    BY ItemPosts DEF ReadingIInv, ItemsSound
  <2>2. ASSUME NEW item \in read.items, Label(item) # None
        PROVE  Label(item) = Row(item.post).author /\ ~Row(item.post).anonymous
    BY <2>1, <2>2 DEF Label, Good
  <2>3. ASSUME NEW item \in read.items, NEW s \in {"nickname", "visible"}
        PROVE  <<Label(item), s>> \notin since.off
    <3>1. CASE Label(item) \in read.names BY <3>1 DEF ReadingIInv, NamesSound
    <3>2. CASE Label(item) \notin read.names
      <4>1. Label(item) = None BY <3>2 DEF Label
      <4>2. since.off \subseteq Members \X Switches
        BY DEF ReadingIInv, ReadTyped, SinceState
      <4> QED BY <4>1, <4>2, GuestAssumption
    <3> QED BY <3>1, <3>2
  <2>4. ASSUME NEW list \in {"requests", "replies"}, read.kind \in ProfileKinds,
               <<read.who, list>> \in since.off, NEW item \in read.items, item.by # None
        PROVE  item.post \notin (IF list = "requests" THEN Requests ELSE Replies)
    <3>1. list \notin read.lists BY <2>4 DEF ReadingIInv, NamesSound
    <3>2. ListOfPost(item.post) \in read.lists BY <2>1, <2>4 DEF Good
    <3> QED BY <3>1, <3>2, PostsAssumption DEF ListOfPost
  <2> QED BY <2>2, <2>3, <2>4 DEF NamedByChoice, ProfileKinds
<1> QED BY <1>1, ReadingInvariant, PTL

=============================================================================
