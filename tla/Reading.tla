------------------------------- MODULE Reading -------------------------------
(***************************************************************************)
(* What readers are served while posts are hidden, restored, deleted and   *)
(* blanked and members change what their profile shows.                    *)
(*                                                                         *)
(* Every list and thread of the API is here: the feed, the prompts of      *)
(* today, the samples of the landing page, profiles with their lists and   *)
(* threads, the panel of held requests, and a viewer's own records and     *)
(* notifications.  The queue's next request is one of those FindVisible    *)
(* finds, by the same conditions, and is named by the same query.  A       *)
(* response is put together by several queries, none in a transaction.     *)
(***************************************************************************)
EXTENDS Naturals, Sequences, NoValue

CONSTANTS
  Requests, Replies, Members,
  Guest,      \* the viewer without an account
  MaxWrites   \* bound: changes to the tables

ASSUME WritesAssumption == MaxWrites \in Nat
ASSUME GuestAssumption == Guest \notin Members /\ None \notin Members \cup {Guest}
ASSUME PostsAssumption == Requests \cap Replies = {} /\ None \notin Requests \cup Replies

VARIABLES
  requests, replies,  \* the tables; a reply of no request is not written yet
  members,            \* users: the switches of a profile that are on
  read,               \* one response under way
  since,              \* what has been so ever since it began
  writes

readingVars == <<requests, replies, members, read, since, writes>>

Authors == Members \cup {Guest}
Posts == Requests \cup Replies
Switches == {"nickname", "visible", "requests", "replies"}

RequestRow ==
  [author : Authors, anonymous : BOOLEAN,
   hidden : BOOLEAN, deleted : BOOLEAN, removed : BOOLEAN, blank : BOOLEAN]
ReplyRow ==
  [request : Requests \cup {None}, author : Authors, anonymous : BOOLEAN,
   hidden : BOOLEAN, deleted : BOOLEAN, blank : BOOLEAN]
Item == [post : Posts, body : {"text", "placeholder", "blank"}, by : Members \cup {None}]

Kinds == {"today", "samples", "feed", "replies", "profile", "requestsPage", "repliesPage",
          "requestThread", "replyThread", "mine", "mineThread", "answers", "notifications",
          "held"}
Queries == {"recent", "samples", "feed", "feedReplies", "replies", "profile", "publicRequests",
            "publicReplies", "reply", "request", "threadReplies", "mine", "mineReplies",
            "answers", "notifications", "held", "names"}

\* The queries of each response in their order; a profile's lists are queried at once.
Plans(kind) ==
  CASE kind = "today" -> {<<"recent", "names">>}
    [] kind = "samples" -> {<<"samples">>}
    [] kind = "feed" -> {<<"feed", "feedReplies", "names">>}
    [] kind = "replies" -> {<<"replies", "names">>}
    [] kind = "profile" -> {<<"profile", "publicRequests", "publicReplies">>,
                            <<"profile", "publicReplies", "publicRequests">>}
    [] kind = "requestsPage" -> {<<"profile", "publicRequests">>}
    [] kind = "repliesPage" -> {<<"profile", "publicReplies">>}
    [] kind = "requestThread" -> {<<"profile", "request", "threadReplies", "names">>}
    [] kind = "replyThread" -> {<<"profile", "reply", "request", "threadReplies", "names">>}
    [] kind = "mine" -> {<<"mine", "mineReplies", "names">>}
    [] kind = "mineThread" -> {<<"request", "threadReplies", "names">>}
    [] kind = "answers" -> {<<"answers", "names">>}
    [] kind = "notifications" -> {<<"notifications">>}
    [] kind = "held" -> {<<"held", "names">>}

NoRead == [kind |-> None, who |-> None, post |-> None, todo |-> <<>>,
           items |-> {}, names |-> {}, lists |-> {}]
NotSince == [unreadable |-> {}, erased |-> {}, off |-> {}]

ReadingTypeOK ==
  /\ requests \in [Requests -> RequestRow]
  /\ replies \in [Replies -> ReplyRow]
  /\ members \in [Members -> SUBSET Switches]
  /\ read.kind \in Kinds \cup {None} /\ read.who \in Authors \cup {None}
  /\ read.post \in Posts \cup {None} /\ read.todo \in Seq(Queries)
  /\ read.items \subseteq Item /\ read.names \subseteq Members
  /\ read.lists \subseteq Switches
  /\ since \in [unreadable : SUBSET Posts, erased : SUBSET Posts,
                off : SUBSET (Members \X Switches)]
  /\ writes \in 0..MaxWrites
  \* Guests are never revealed, and only what somebody took back is blank.
  /\ \A q \in Requests :
       /\ requests[q].author = Guest => requests[q].anonymous
       /\ requests[q].blank => requests[q].deleted \/ requests[q].removed
  /\ \A p \in Replies :
       /\ replies[p].author = Guest => replies[p].anonymous
       /\ replies[p].blank => replies[p].deleted

NewRequest(a, anonymous) ==
  [author |-> a, anonymous |-> anonymous,
   hidden |-> FALSE, deleted |-> FALSE, removed |-> FALSE, blank |-> FALSE]
NewReply(q, a, anonymous) ==
  [request |-> q, author |-> a, anonymous |-> anonymous,
   hidden |-> FALSE, deleted |-> FALSE, blank |-> FALSE]

ReadingInit ==
  /\ requests \in [Requests -> {NewRequest(a, anonymous) : a \in Authors, anonymous \in BOOLEAN}]
  /\ \A q \in Requests : requests[q].author = Guest => requests[q].anonymous
  /\ replies = [p \in Replies |-> NewReply(None, Guest, TRUE)]
  /\ members = [m \in Members |-> Switches]
  /\ read = NoRead /\ since = NotSince
  /\ writes = 0

---------------------------------------------------------------------------
(* Conditions and mappers the queries share *)

Row(x) == IF x \in Requests THEN requests[x] ELSE replies[x]
Unreadable(x) == Row(x).hidden \/ Row(x).deleted
Readable(x) == ~Unreadable(x)
Written(p) == replies[p].request # None
RepliesOf(q) == {p \in Replies : replies[p].request = q}

Stored(x) == IF Row(x).blank THEN "blank" ELSE "text"

\* visibleRequestBody.
RequestBody(q) == IF requests[q].removed THEN "placeholder" ELSE Stored(q)

\* Mutation of ReplyBody: as in toReplyResponseDto.
StoredReplyBody(p) == Stored(p)

\* visibleReplyBody.
ReplyBody(p) == IF replies[p].deleted THEN "placeholder" ELSE Stored(p)

\* toAuthorDisplayDto, whatever the map of nicknames will hold.
By(x) == IF Row(x).anonymous THEN None ELSE Row(x).author

RequestItem(q) == [post |-> q, body |-> RequestBody(q), by |-> By(q)]
ReplyItem(p) == [post |-> p, body |-> Stored(p), by |-> By(p)]
LoggedReply(p) == [post |-> p, body |-> ReplyBody(p), by |-> By(p)]
Nameless(item) == [item EXCEPT !.by = None]

---------------------------------------------------------------------------
(* Changes *)

\* What has been so since the read began can only come to an end.
Narrowed ==
  [unreadable |-> {x \in since.unreadable : Unreadable(x)'},
   erased |-> since.erased,
   off |-> {s \in since.off : s[2] \notin members'[s[1]]}]

Write ==
  /\ writes < MaxWrites /\ writes' = writes + 1
  /\ since' = Narrowed
  /\ UNCHANGED read

WriteRow(x, row) ==
  /\ IF x \in Requests
     THEN requests' = [requests EXCEPT ![x] = row] /\ UNCHANGED replies
     ELSE replies' = [replies EXCEPT ![x] = row] /\ UNCHANGED requests
  /\ UNCHANGED members
  /\ Write

\* RepliesService.create, as far as it decides what may be read.
Reply(p, q, a, anonymous) ==
  /\ ~Written(p) /\ Readable(q) /\ ~requests[q].removed
  /\ \A r \in RepliesOf(q) : a = Guest \/ replies[r].author # a
  /\ anonymous \/ (a # Guest /\ "nickname" \in members[a])
  /\ WriteRow(p, NewReply(q, a, anonymous))

Exists(x) == x \in Replies => Written(x)

Hide(x) == Exists(x) /\ Readable(x) /\ WriteRow(x, [Row(x) EXCEPT !.hidden = TRUE])
Restore(x) == Exists(x) /\ Row(x).hidden /\ WriteRow(x, [Row(x) EXCEPT !.hidden = FALSE])
SoftDelete(x) == Exists(x) /\ ~Row(x).deleted /\ WriteRow(x, [Row(x) EXCEPT !.deleted = TRUE])
RemoveOwn(q) ==
  /\ requests[q].author # Guest /\ ~requests[q].removed
  /\ WriteRow(q, [requests[q] EXCEPT !.removed = TRUE])

\* purgeRemovedContent, for a row that is due.
Blank(x) ==
  /\ ~Row(x).blank
  /\ ~Row(x).deleted => x \in Requests /\ requests[x].removed
  /\ WriteRow(x, [Row(x) EXCEPT !.blank = TRUE])

\* updateProfileVisibility, one switch after the other.
Switch(m, s) ==
  /\ s # "nickname"
  /\ members' = [members EXCEPT ![m] = IF s \in @ THEN @ \ {s} ELSE @ \cup {s}]
  /\ UNCHANGED <<requests, replies>>
  /\ Write

\* scrubForDeletion takes the nickname for good.
Scrub(m) ==
  /\ "nickname" \in members[m]
  /\ members' = [members EXCEPT ![m] = @ \ {"nickname"}]
  /\ UNCHANGED <<requests, replies>>
  /\ Write

---------------------------------------------------------------------------
(* Reading *)

NeedsPost == [replies |-> Requests, requestThread |-> Requests, mineThread |-> Requests,
              replyThread |-> {p \in Replies : Written(p)}]
NeedsMember == {"profile", "requestsPage", "repliesPage", "requestThread", "replyThread",
                "mine", "mineThread", "notifications", "held"}

Start(kind) ==
  /\ read = NoRead
  /\ \E plan \in Plans(kind),
        who \in IF kind \in NeedsMember THEN Members ELSE IF kind = "answers" THEN Authors ELSE {None},
        post \in IF kind \in DOMAIN NeedsPost THEN NeedsPost[kind] ELSE {None} :
       read' = [NoRead EXCEPT !.kind = kind, !.who = who, !.post = post, !.todo = plan]
  /\ since' = [unreadable |-> {x \in Posts : Unreadable(x)},
               erased |-> {q \in Requests : requests[q].removed} \cup {p \in Replies : replies[p].deleted},
               off |-> {s \in Members \X Switches : s[2] \notin members[s[1]]}]
  /\ UNCHANGED <<requests, replies, members, writes>>

Awaits(query) == read.todo # <<>> /\ Head(read.todo) = query

Serve(query, items) ==
  /\ Awaits(query)
  /\ read' = [read EXCEPT !.todo = Tail(@), !.items = @ \cup items]
  /\ UNCHANGED <<requests, replies, members, since, writes>>

\* undefined, and the 404 that answers it.
NotFound(query) ==
  /\ Awaits(query)
  /\ read' = NoRead /\ since' = NotSince
  /\ UNCHANGED <<requests, replies, members, writes>>

Finish ==
  /\ read.kind # None /\ read.todo = <<>>
  /\ read' = NoRead /\ since' = NotSince
  /\ UNCHANGED <<requests, replies, members, writes>>

Thread == IF read.post \in Requests THEN read.post ELSE replies[read.post].request

---------------------------------------------------------------------------
(* The queries *)

FindVisible == Serve("recent", {RequestItem(q) : q \in {r \in Requests : Readable(r) /\ ~requests[r].removed}})

FindSampleExchanges ==
  Serve("samples",
        UNION {{Nameless(ReplyItem(p)), Nameless(RequestItem(replies[p].request))} :
               p \in {r \in Replies : /\ Written(r) /\ Readable(r) /\ Readable(replies[r].request)
                                      /\ ~requests[replies[r].request].removed}})

FindFeed ==
  Serve("feed", {RequestItem(q) : q \in {r \in Requests : Readable(r) /\ \E p \in RepliesOf(r) : Readable(p)}})

\* Mutation of FindFeedReplies: what was deleted is not told apart.
FindFeedRepliesHidden ==
  Serve("feedReplies", {ReplyItem(p) : p \in {r \in Replies : /\ \E i \in read.items : i.post = replies[r].request
                                                              /\ ~replies[r].hidden}})

FindFeedReplies ==
  Serve("feedReplies", {ReplyItem(p) : p \in {r \in Replies : /\ \E i \in read.items : i.post = replies[r].request
                                                              /\ Readable(r)}})

FindVisibleByRequestId ==
  Serve("replies", {ReplyItem(p) : p \in {r \in RepliesOf(read.post) : Readable(r)}})

\* findByNicknameAndDiscriminator, and the switch a page asks for.
ListOf(kind) == CASE kind \in {"requestsPage", "requestThread"} -> {"requests"}
                  [] kind \in {"repliesPage", "replyThread"} -> {"replies"}
                  [] OTHER -> {}

Findable == {"nickname", "visible"} \cup ListOf(read.kind) \subseteq members[read.who]

FindUser ==
  /\ Awaits("profile") /\ Findable
  /\ read' = [read EXCEPT !.todo = Tail(@), !.lists = members[read.who],
                          !.names = IF read.kind \in {"profile", "requestsPage", "repliesPage"}
                                    THEN {read.who} ELSE {}]
  /\ UNCHANGED <<requests, replies, members, since, writes>>

NoUser == Awaits("profile") /\ ~Findable /\ NotFound("profile")

\* Mutation of FindPublicRequests: anonymous posts are taken along.
FindAllRequests ==
  Serve("publicRequests",
        {[RequestItem(q) EXCEPT !.by = read.who] :
           q \in {r \in Requests : /\ "requests" \in read.lists
                                   /\ requests[r].author = read.who /\ Readable(r)}})

\* A profile's lists carry the name of the profile.
FindPublicRequests ==
  Serve("publicRequests",
        {[RequestItem(q) EXCEPT !.by = read.who] :
           q \in {r \in Requests : /\ "requests" \in read.lists
                                   /\ requests[r].author = read.who /\ ~requests[r].anonymous
                                   /\ Readable(r)}})

FindPublicReplies ==
  Serve("publicReplies",
        UNION {{[ReplyItem(p) EXCEPT !.by = read.who], Nameless(RequestItem(replies[p].request))} :
               p \in {r \in Replies : /\ "replies" \in read.lists /\ Written(r)
                                      /\ replies[r].author = read.who /\ ~replies[r].anonymous
                                      /\ Readable(r) /\ Readable(replies[r].request)}})

\* The reply a thread was opened at, and the request of the thread.
ReplyFound ==
  Readable(read.post) /\ replies[read.post].author = read.who /\ ~replies[read.post].anonymous

FindReply ==
  /\ Awaits("reply")
  /\ IF ReplyFound THEN Serve("reply", {}) ELSE NotFound("reply")

RequestFound ==
  /\ Readable(Thread)
  /\ read.kind \in {"requestThread", "mineThread"} => requests[Thread].author = read.who
  /\ read.kind = "requestThread" => ~requests[Thread].anonymous

FindRequest ==
  /\ Awaits("request")
  /\ IF RequestFound THEN Serve("request", {RequestItem(Thread)}) ELSE NotFound("request")

FindThreadReplies ==
  Serve("threadReplies", {ReplyItem(p) : p \in {r \in RepliesOf(Thread) : Readable(r)}})

\* A viewer's own records, hidden or not, but for what the viewer took back.
FindMine == Serve("mine", {RequestItem(q) : q \in {r \in Requests : /\ requests[r].author = read.who
                                                                  /\ ~requests[r].removed}})

FindMineReplies ==
  Serve("mineReplies", {LoggedReply(p) : p \in {r \in Replies : \E i \in read.items : i.post = replies[r].request}})

FindAnswers ==
  Serve("answers",
        UNION {{LoggedReply(p), RequestItem(replies[p].request)} :
               p \in {r \in Replies : Written(r) /\ replies[r].author = read.who /\ ~replies[r].deleted}})

\* The requests of the viewer's reply_received notifications.
FindNotifications ==
  Serve("notifications",
        {Nameless(RequestItem(q)) :
           q \in {r \in Requests : requests[r].author = read.who
                                   /\ \E p \in RepliesOf(r) : replies[p].author # read.who}})

\* The requests the viewer holds, whoever wrote them and hidden or not, but for what
\* was taken back.  Which ones are held, and which of them are still fresh, is open.
FindHeld ==
  \E held \in SUBSET {r \in Requests : ~requests[r].removed} :
    Serve("held", {RequestItem(q) : q \in held})

\* nicknameMapFor.
FindNames ==
  /\ Awaits("names")
  /\ read' = [read EXCEPT !.todo = Tail(@), !.names = {m \in Members : {"nickname", "visible"} \subseteq members[m]}]
  /\ UNCHANGED <<requests, replies, members, since, writes>>

---------------------------------------------------------------------------
WriteNext ==
  \/ \E p \in Replies, q \in Requests, a \in Authors, anonymous \in BOOLEAN : Reply(p, q, a, anonymous)
  \/ \E x \in Posts : Hide(x) \/ Restore(x) \/ SoftDelete(x) \/ Blank(x)
  \/ \E q \in Requests : RemoveOwn(q)
  \/ \E m \in Members : Scrub(m) \/ \E s \in Switches : Switch(m, s)

ReadNext ==
  \/ \E kind \in Kinds : Start(kind)
  \/ FindVisible \/ FindSampleExchanges \/ FindFeed \/ FindFeedReplies \/ FindVisibleByRequestId
  \/ FindUser \/ NoUser \/ FindPublicRequests \/ FindPublicReplies
  \/ FindReply \/ FindRequest \/ FindThreadReplies
  \/ FindMine \/ FindMineReplies \/ FindAnswers \/ FindNotifications \/ FindHeld \/ FindNames
  \/ Finish

ReadingNext == WriteNext \/ ReadNext

ReadingSpec == ReadingInit /\ [][ReadingNext]_readingVars

---------------------------------------------------------------------------
(* Properties, of responses that are complete *)

Complete == read.kind # None /\ read.todo = <<>>
Label(item) == IF item.by \in read.names THEN item.by ELSE None

\* "Those hide the *entire thread* from every query" (hidden and deletedAt): what was
\* out of sight during the whole of a read is in no feed, sample, profile, thread
\* or list of replies, whichever of its queries came before or after which change.  Not
\* claimed, because not so: a viewer's own requests and answers and the notifications
\* about them, and the panel of held requests, which serves them to their holders.
HiddenIsNotServed ==
  Complete /\ read.kind \notin {"mine", "answers", "notifications", "held"} =>
    \A item \in read.items : item.post \notin since.unreadable

\* "Without exception, whoever looks" (the decision on deleting one's own posts):
\* the text of what its author took back before a read began is in no response.
TakenBackIsGone ==
  Complete => \A item \in read.items : item.post \in since.erased => item.body # "text"

\* A post carries the name of its author if the author chose so, and of nobody else,
\* and never while the nickname was switched off; a list switched off is empty.
NamedByChoice ==
  Complete =>
    /\ \A item \in read.items : Label(item) # None =>
         Label(item) = Row(item.post).author /\ ~Row(item.post).anonymous
    /\ \A item \in read.items : \A s \in {"nickname", "visible"} : <<Label(item), s>> \notin since.off
    /\ \A list \in {"requests", "replies"} :
         /\ read.kind \in {"profile", "requestsPage", "repliesPage"} /\ <<read.who, list>> \in since.off
         => \A item \in read.items :
              item.by # None => item.post \notin (IF list = "requests" THEN Requests ELSE Replies)

=============================================================================
