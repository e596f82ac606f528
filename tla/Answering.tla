----------------------------- MODULE Answering -----------------------------
(***************************************************************************)
(* Requests, replies and the answer queue.                                 *)
(*                                                                         *)
(* A viewer (a member, or a guest with a client-made id) posts requests,   *)
(* answers other people's, and asks the queue which one to answer next;    *)
(* skipping a request, or holding it for later, takes it out of the        *)
(* viewer's queue.  The handlers are sequences of single statements with   *)
(* no transaction around them, so one viewer's two tabs interleave, and a  *)
(* handler may stop between any two statements.                            *)
(*                                                                         *)
(* Requests are numbered in the order they were created, so the newest     *)
(* first order of the queue is the descending order of the numbers; a      *)
(* reply is numbered among its author's replies to the request.            *)
(* Auto-hide and the admin's screens appear here by what they do to a row; *)
(* how a report comes to hide it is Moderation.                            *)
(***************************************************************************)
EXTENDS Naturals, FiniteSets, NoValue

CONSTANTS
  Members,          \* signed-in users
  Guests,           \* guest ids
  Calls,            \* handlers that can be in flight together
  QueueReplyCap,    \* settings.queueReplyCap
  GuestReplyLimit,  \* settings.guestReplyLimit
  MaxRequests,      \* bound: requests ever posted
  MaxReplies,       \* bound: replies ever posted
  MaxEvents         \* bound: skips, holds, moderations, removals, expiries

Viewers == Members \cup Guests
Requests == 1..MaxRequests

ASSUME ViewerAssumption == Members \cap Guests = {} /\ None \notin Viewers
ASSUME CallsAssumption == IsFiniteSet(Calls) /\ Calls # {}
ASSUME LimitAssumption == QueueReplyCap \in Nat /\ GuestReplyLimit \in Nat \ {0}
ASSUME BoundAssumption == {MaxRequests, MaxReplies, MaxEvents} \subseteq Nat

VARIABLES
  requests,      \* the rows of requests, by number
  replies,       \* the rows of replies
  interactions,  \* the status of the answer_interactions row of a viewer
  call,          \* the handlers
  events         \* how many of those there were

vars == <<requests, replies, interactions, call, events>>

---------------------------------------------------------------------------
(* Types *)

\* A row with deletedAt set is "deleted" whatever its hidden column says:
\* every statement here asks for both.
Status == {"visible", "hidden", "deleted"}
Request == [author : Viewers \cup {None}, status : Status, removed : BOOLEAN,
            fresh : BOOLEAN]
Reply == [id : 1..MaxReplies, request : Requests, author : Viewers, status : Status]

CallState ==
  [pc : {"idle", "creating", "visible", "unreplied", "replied", "queue", "full", "found"},
   viewer : Viewers \cup {None}, request : Nat,
   excluded : SUBSET Requests, unread : SUBSET {"replies", "interactions"},
   known : SUBSET Requests]

NoRequest == [author |-> None, status |-> "visible", removed |-> FALSE, fresh |-> TRUE]
IdleCall ==
  [pc |-> "idle", viewer |-> None, request |-> 0, excluded |-> {}, unread |-> {}, known |-> {}]

\* The conjunct about guests is the constraint answer_interactions_guest_skip_only.
TypeOK ==
  /\ requests \in [Requests -> Request]
  /\ replies \subseteq Reply
  /\ interactions \in [Viewers -> [Requests -> {"none", "skipped", "held"}]]
  /\ call \in [Calls -> CallState]
  /\ \A g \in Guests, r \in Requests : interactions[g][r] # "held"
  /\ events \in 0..MaxEvents

---------------------------------------------------------------------------
(* What the statements read *)

Posted(r) == requests[r].author # None
Visible(r) == Posted(r) /\ requests[r].status = "visible"

RepliesOf(v, r) == {p \in replies : p.author = v /\ p.request = r}
RepliesBy(v) == {p \in replies : p.author = v}

\* Mutation of RepliedRequests: deleted replies are left out, as in findMine.
UndeletedRepliedRequests(v) ==
  {p.request : p \in {q \in replies : q.author = v /\ q.status # "deleted"}}

\* The two halves of findExcludedRequestIds.
RepliedRequests(v) == {p.request : p \in RepliesBy(v)}
InteractedRequests(v) == {r \in Requests : interactions[v][r] # "none"}
Excluded(v) == RepliedRequests(v) \cup InteractedRequests(v)

\* queueCandidateQuery: the visible replies of a request, and the base WHERE.
ReplyCount(r) == Cardinality({p \in replies : p.request = r /\ p.status = "visible"})
Eligible(v, excluded) ==
  {r \in Requests \ excluded :
     /\ Visible(r)
     /\ ~requests[r].removed
     /\ requests[r].fresh
     /\ requests[r].author # v}

\* Mutation of Before: the newest request first, however often it was answered.
NewestBefore(r, q) == r > q

\* ORDER BY replyCount, createdAt DESC LIMIT 1.
Before(r, q) == ReplyCount(r) < ReplyCount(q) \/ (ReplyCount(r) = ReplyCount(q) /\ r > q)
IsFirst(r, S) == r \in S /\ \A q \in S \ {r} : Before(r, q)

\* findHeldForAuthor asks neither for hidden nor for deletedAt.
HeldList(m) ==
  {r \in Requests :
     interactions[m][r] = "held" /\ ~requests[r].removed /\ requests[r].fresh}

---------------------------------------------------------------------------
Init ==
  /\ requests = [r \in Requests |-> NoRequest]
  /\ replies = {}
  /\ interactions = [v \in Viewers |-> [r \in Requests |-> "none"]]
  /\ call = [c \in Calls |-> IdleCall]
  /\ events = 0

(***************************************************************************)
(* RequestsService.create                                                  *)
(***************************************************************************)

Post(v) ==
  \E r \in Requests :
    /\ ~Posted(r)
    /\ \A q \in 1..(r - 1) : Posted(q)
    /\ requests' = [requests EXCEPT ![r].author = v]

GuestPosted(g) == \E r \in Requests : requests[r].author = g

\* A member's request is a single INSERT.
CreateMemberRequest(m) ==
  /\ Post(m)
  /\ UNCHANGED <<replies, interactions, call, events>>

\* A guest with a request already is refused, which changes nothing.
FindGuestRequest(c, g) ==
  /\ call[c].pc = "idle"
  /\ ~GuestPosted(g)
  /\ call' = [call EXCEPT ![c] = [IdleCall EXCEPT !.pc = "creating", !.viewer = g]]
  /\ UNCHANGED <<requests, replies, interactions, events>>

\* Mutation of CreateGuestRequest: no unique constraint behind the check.
CreateGuestRequestUnconstrained(c) ==
  /\ call[c].pc = "creating"
  /\ Post(call[c].viewer)
  /\ call' = [call EXCEPT ![c] = IdleCall]
  /\ UNCHANGED <<replies, interactions, events>>

\* requests_guest_id_unique refuses the second of two racing inserts.
CreateGuestRequest(c) ==
  /\ call[c].pc = "creating"
  /\ \/ ~GuestPosted(call[c].viewer) /\ Post(call[c].viewer)
     \/ GuestPosted(call[c].viewer) /\ UNCHANGED requests
  /\ call' = [call EXCEPT ![c] = IdleCall]
  /\ UNCHANGED <<replies, interactions, events>>

(***************************************************************************)
(* RepliesService.create                                                   *)
(***************************************************************************)

\* findVisibleById, and the contentRemoved of the row it returned: 404 for a
\* request that is not there to be answered.
ReadRequest(c, v, r) ==
  /\ call[c].pc = "idle"
  /\ Visible(r)
  /\ ~requests[r].removed
  /\ call' = [call EXCEPT ![c] =
       [IdleCall EXCEPT !.pc = "visible", !.viewer = v, !.request = r]]
  /\ UNCHANGED <<requests, replies, interactions, events>>

\* A member who answered already gets 409; one who reveals a nickname they do
\* not have is refused after it, which is CallFails here.
CheckMember(c) ==
  /\ call[c].pc = "visible"
  /\ call[c].viewer \in Members
  /\ \/ /\ RepliesOf(call[c].viewer, call[c].request) = {}
        /\ call' = [call EXCEPT ![c].pc = "unreplied"]
     \/ /\ RepliesOf(call[c].viewer, call[c].request) # {}
        /\ call' = [call EXCEPT ![c] = IdleCall]
  /\ UNCHANGED <<requests, replies, interactions, events>>

\* Mutation of CheckGuest: the limit is compared off by one.
CheckGuestBelow(c) ==
  /\ call[c].pc = "visible"
  /\ call[c].viewer \in Guests
  /\ \/ /\ Cardinality(RepliesBy(call[c].viewer)) <= GuestReplyLimit
        /\ call' = [call EXCEPT ![c].pc = "unreplied"]
     \/ /\ Cardinality(RepliesBy(call[c].viewer)) > GuestReplyLimit
        /\ call' = [call EXCEPT ![c] = IdleCall]
  /\ UNCHANGED <<requests, replies, interactions, events>>

\* countByGuest counts every row, the deleted ones too; 403 at the limit.
CheckGuest(c) ==
  /\ call[c].pc = "visible"
  /\ call[c].viewer \in Guests
  /\ \/ /\ Cardinality(RepliesBy(call[c].viewer)) < GuestReplyLimit
        /\ call' = [call EXCEPT ![c].pc = "unreplied"]
     \/ /\ Cardinality(RepliesBy(call[c].viewer)) >= GuestReplyLimit
        /\ call' = [call EXCEPT ![c] = IdleCall]
  /\ UNCHANGED <<requests, replies, interactions, events>>

NewReply(c) ==
  [id |-> Cardinality(RepliesOf(call[c].viewer, call[c].request)) + 1,
   request |-> call[c].request, author |-> call[c].viewer, status |-> "visible"]

\* Mutation of InsertReply: no unique constraint behind the member's check.
InsertReplyUnconstrained(c) ==
  /\ call[c].pc = "unreplied"
  /\ Cardinality(replies) < MaxReplies
  /\ replies' = replies \cup {NewReply(c)}
  /\ call' = [call EXCEPT ![c].pc = "replied"]
  /\ UNCHANGED <<requests, interactions, events>>

\* The INSERT, whatever became of the request by now.
\* replies_request_author_unique refuses a member's second reply; a guest's
\* rows have no author_id, which the constraint ignores.
InsertReply(c) ==
  /\ call[c].pc = "unreplied"
  /\ \/ /\ call[c].viewer \in Guests \/ RepliesOf(call[c].viewer, call[c].request) = {}
        /\ Cardinality(replies) < MaxReplies
        /\ replies' = replies \cup {NewReply(c)}
        /\ call' = [call EXCEPT ![c].pc = "replied"]
     \/ /\ call[c].viewer \in Members /\ RepliesOf(call[c].viewer, call[c].request) # {}
        /\ call' = [call EXCEPT ![c] = IdleCall]
        /\ UNCHANGED replies
  /\ UNCHANGED <<requests, interactions, events>>

\* clearForViewer: answering settles a held or skipped request.
ClearInteraction(c) ==
  /\ call[c].pc = "replied"
  /\ interactions' = [interactions EXCEPT ![call[c].viewer][call[c].request] = "none"]
  /\ call' = [call EXCEPT ![c] = IdleCall]
  /\ UNCHANGED <<requests, replies, events>>

(***************************************************************************)
(* The queue.  Skip and Hold answer with the next candidate, so both go on *)
(* as a queue fetch.                                                       *)
(***************************************************************************)

\* known is history: what had left the viewer's queue when the fetch started.
QueueCall(v, known) ==
  [IdleCall EXCEPT !.pc = "queue", !.viewer = v, !.unread = {"replies", "interactions"},
                   !.known = known]

FetchQueue(c, v) ==
  /\ call[c].pc = "idle"
  /\ call' = [call EXCEPT ![c] = QueueCall(v, Excluded(v))]
  /\ UNCHANGED <<requests, replies, interactions, events>>

Event == events < MaxEvents /\ events' = events + 1

\* The upsert overwrites the status of the viewer's row, whatever it was.
Skip(c, v, r) ==
  /\ Event
  /\ call[c].pc = "idle"
  /\ Posted(r)
  /\ interactions' = [interactions EXCEPT ![v][r] = "skipped"]
  /\ call' = [call EXCEPT ![c] = QueueCall(v, Excluded(v) \cup {r})]
  /\ UNCHANGED <<requests, replies>>

\* Mutation of Hold: the route is not behind SessionGuard.
HoldByAnyone(c, v, r) ==
  /\ Event
  /\ call[c].pc = "idle"
  /\ Posted(r)
  /\ interactions' = [interactions EXCEPT ![v][r] = "held"]
  /\ call' = [call EXCEPT ![c] = QueueCall(v, Excluded(v) \cup {r})]
  /\ UNCHANGED <<requests, replies>>

Hold(c, v, r) ==
  /\ Event
  /\ call[c].pc = "idle"
  /\ v \in Members
  /\ Posted(r)
  /\ interactions' = [interactions EXCEPT ![v][r] = "held"]
  /\ call' = [call EXCEPT ![c] = QueueCall(v, Excluded(v) \cup {r})]
  /\ UNCHANGED <<requests, replies>>

\* The two selects of findExcludedRequestIds run at once, in either order.
ReadExcluded(c, part) ==
  /\ call[c].pc = "queue"
  /\ part \in call[c].unread
  /\ call' = [call EXCEPT
       ![c].unread = @ \ {part},
       ![c].excluded = @ \cup (IF part = "replies" THEN RepliedRequests(call[c].viewer)
                               ELSE InteractedRequests(call[c].viewer))]
  /\ UNCHANGED <<requests, replies, interactions, events>>

Offer(c, S) ==
  \E r \in Requests :
    /\ IsFirst(r, S)
    /\ call' = [call EXCEPT ![c].pc = "found", ![c].request = r,
                            ![c].excluded = {}, ![c].known = {}]

\* The first query keeps to the requests below the cap.
QueryBelowCap(c) ==
  /\ call[c].pc = "queue"
  /\ call[c].unread = {}
  /\ LET below == {r \in Eligible(call[c].viewer, call[c].excluded) :
                     ReplyCount(r) < QueueReplyCap}
     IN \/ Offer(c, below)
        \/ below = {} /\ call' = [call EXCEPT ![c].pc = "full"]
  /\ UNCHANGED <<requests, replies, interactions, events>>

\* The second one, some time later, ignores the cap; the queue may be empty.
QueryAll(c) ==
  /\ call[c].pc = "full"
  /\ LET all == Eligible(call[c].viewer, call[c].excluded)
     IN \/ Offer(c, all)
        \/ all = {} /\ call' = [call EXCEPT ![c] = IdleCall]
  /\ UNCHANGED <<requests, replies, interactions, events>>

\* The nicknames are looked up and the candidate goes out.
Respond(c) ==
  /\ call[c].pc = "found"
  /\ call' = [call EXCEPT ![c] = IdleCall]
  /\ UNCHANGED <<requests, replies, interactions, events>>

\* A statement rejects, or the process stops, between two statements.
CallFails(c) ==
  /\ call[c].pc # "idle"
  /\ call' = [call EXCEPT ![c] = IdleCall]
  /\ UNCHANGED <<requests, replies, interactions, events>>

(***************************************************************************)
(* What else happens to the rows                                           *)
(***************************************************************************)

\* Auto-hide, the admin's restore and the admin's delete, of a request...
ModerateRequest(r, status) ==
  /\ Event
  /\ Posted(r)
  /\ requests[r].status # "deleted"
  /\ requests' = [requests EXCEPT ![r].status = status]
  /\ UNCHANGED <<replies, interactions, call>>

\* ... and of a reply, which its author may delete as well.
ModerateReply(p, status) ==
  /\ Event
  /\ p.status # "deleted"
  /\ replies' = (replies \ {p}) \cup {[p EXCEPT !.status = status]}
  /\ UNCHANGED <<requests, interactions, call>>

\* A member's delete of their own request: the thread stays.
MarkContentRemoved(r) ==
  /\ Event
  /\ requests[r].author \in Members
  /\ requests' = [requests EXCEPT ![r].removed = TRUE]
  /\ UNCHANGED <<replies, interactions, call>>

\* Time passes: the oldest request in the freshness window leaves it.
Expire(r) ==
  /\ Event
  /\ Posted(r)
  /\ requests[r].fresh
  /\ \A q \in 1..(r - 1) : ~requests[q].fresh
  /\ requests' = [requests EXCEPT ![r].fresh = FALSE]
  /\ UNCHANGED <<replies, interactions, call>>

---------------------------------------------------------------------------
ReplyStep(c) == CheckMember(c) \/ CheckGuest(c) \/ InsertReply(c) \/ ClearInteraction(c)

QueueStep(c) ==
  \/ \E part \in {"replies", "interactions"} : ReadExcluded(c, part)
  \/ QueryBelowCap(c)
  \/ QueryAll(c)
  \/ Respond(c)

Start(c, v) ==
  \/ FetchQueue(c, v)
  \/ \E r \in Requests : ReadRequest(c, v, r) \/ Skip(c, v, r) \/ Hold(c, v, r)

Next ==
  \/ \E m \in Members : CreateMemberRequest(m)
  \/ \E c \in Calls, g \in Guests : FindGuestRequest(c, g)
  \/ \E c \in Calls, v \in Viewers : Start(c, v)
  \/ \E c \in Calls : CreateGuestRequest(c) \/ ReplyStep(c) \/ QueueStep(c) \/ CallFails(c)
  \/ \E r \in Requests, s \in Status : ModerateRequest(r, s)
  \/ \E p \in replies, s \in Status : ModerateReply(p, s)
  \/ \E r \in Requests : MarkContentRemoved(r) \/ Expire(r)

Spec == Init /\ [][Next]_vars

---------------------------------------------------------------------------
(* Properties *)

\* A member never answers a request twice, and a guest never posts twice, also
\* when two of their submissions race past the checks (the unique constraints
\* behind RepliesService.create and RequestsService.create).
OncePerViewer ==
  /\ \A m \in Members, p, q \in replies :
       p.author = m /\ q.author = m /\ p.request = q.request => p = q
  /\ \A g \in Guests, r, q \in Requests :
       requests[r].author = g /\ requests[q].author = g => r = q

\* A guest's budget is global and a deleted reply does not give any of it
\* back.  The count and the INSERT are two statements, so calls that overlap
\* may exceed it, by one less than there are calls (replies.service.ts).
GuestBudget ==
  \A g \in Guests : Cardinality(RepliesBy(g)) < GuestReplyLimit + Cardinality(Calls)

\* A request that left a viewer's queue never comes back to it: replying
\* clears the skip or the hold only once the reply is stored, wherever the
\* handler stops, and deleting the reply does not bring the request back.
ExcludedForever ==
  [][\A v \in Viewers : Excluded(v) \subseteq Excluded(v)']_vars

\* The cap is ignored only when every request the viewer could be offered at
\* that moment has reached it, although the two queries that establish it read
\* the tables at different times (requests.repository.ts, findQueueCandidate).
CapIgnoredOnlyWhenAllFull ==
  [][\A c \in Calls :
       /\ call[c].pc # "found" /\ call'[c].pc = "found"
       /\ ReplyCount(call'[c].request) >= QueueReplyCap
       => \A r \in Eligible(call[c].viewer, Excluded(call[c].viewer)) :
            ReplyCount(r) >= QueueReplyCap]_vars

\* The queue does not offer what the viewer had already replied to, skipped or
\* held when the fetch started (requests.repository.ts, findQueueCandidate).
\* It can: the replies are read before a reply to a held request is stored, and
\* the interactions after that reply has cleared the hold.
ExcludedIsNotOffered ==
  [][\A c \in Calls :
       call[c].pc # "found" /\ call'[c].pc = "found" =>
         call'[c].request \notin call[c].known]_vars

\* A held request does not linger once there is a reply for it: what the
\* comment in replies.service.ts says of clearForViewer.  A hold that arrives
\* after the reply, or a reply whose handler stops before the clear, does.
HeldNotAnswered ==
  \A m \in Members : \A r \in HeldList(m) :
    RepliesOf(m, r) # {} =>
      \E c \in Calls : call[c].pc = "replied" /\ call[c].viewer = m /\ call[c].request = r

===========================================================================
