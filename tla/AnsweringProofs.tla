------------------------- MODULE AnsweringProofs -------------------------
(***************************************************************************)
(* Proofs about Answering for any viewers, handlers, limits and bounds,    *)
(* and about AnswerScreen for any requests, calls and bounds.              *)
(*                                                                         *)
(* The properties of Answering are about the tables, what makes them true  *)
(* is in the handlers: a handler that has counted a guest's replies will   *)
(* insert one, a handler about to clear an interaction has stored its      *)
(* reply, and what a queue fetch has excluded is still excluded when it    *)
(* queries.  Those of AnswerScreen are about a draft and a panel, what     *)
(* makes them true is in the calls: the one reply under way carries the    *)
(* draft as it is, and a held request the panel does not know of has its   *)
(* hold's answer on the way.                                               *)
(***************************************************************************)
EXTENDS MCAnswers, FiniteSetTheorems, TLAPS

---------------------------------------------------------------------------
(* The inductive invariant *)

\* A handler that runs has a viewer and, past its first step, a request.
CallsTyped ==
  \A c \in Calls :
    /\ call[c].pc # "idle" => call[c].viewer \in Viewers
    /\ call[c].pc = "creating" => call[c].viewer \in Guests
    /\ call[c].pc \in {"visible", "unreplied", "replied"} => call[c].request \in Requests

ReplyStored ==
  \A c \in Calls :
    call[c].pc = "replied" => call[c].request \in RepliedRequests(call[c].viewer)

ExclusionsHold ==
  \A c \in Calls :
    call[c].pc \in {"queue", "full"} => call[c].excluded \subseteq Excluded(call[c].viewer)

\* The handlers that have passed the count and will insert a reply of v.
Pending(v) == {c \in Calls : call[c].pc = "unreplied" /\ call[c].viewer = v}

BudgetHeld ==
  \A g \in Guests :
    Cardinality(RepliesBy(g)) + Cardinality(Pending(g))
      < GuestReplyLimit + Cardinality(Calls)

IInv ==
  /\ TypeOK
  /\ IsFiniteSet(replies)
  /\ CallsTyped
  /\ OncePerViewer
  /\ ReplyStored
  /\ ExclusionsHold
  /\ BudgetHeld

---------------------------------------------------------------------------
(* Types *)

LEMMA TypeInit == Init => TypeOK
<1> SUFFICES ASSUME Init PROVE TypeOK OBVIOUS
<1> USE BoundAssumption DEF Init
<1>1. NoRequest \in Request BY DEF NoRequest, Request, Status
<1>2. IdleCall \in CallState BY DEF IdleCall, CallState
<1>3. \A g \in Guests, r \in Requests : interactions[g][r] = "none" BY DEF Viewers
<1> QED BY <1>1, <1>2, <1>3 DEF TypeOK

\* Steps of a handler that write no table.
LocalStep(c) ==
  \/ \E g \in Guests : FindGuestRequest(c, g)
  \/ \E v \in Viewers : FetchQueue(c, v) \/ \E r \in Requests : ReadRequest(c, v, r)
  \/ CheckMember(c) \/ CheckGuest(c) \/ QueueStep(c) \/ CallFails(c)

\* Steps that write a table and leave the handlers alone.
RowStep ==
  \/ \E m \in Members : CreateMemberRequest(m)
  \/ \E r \in Requests, s \in Status : ModerateRequest(r, s)
  \/ \E p \in replies, s \in Status : ModerateReply(p, s)
  \/ \E r \in Requests : MarkContentRemoved(r) \/ Expire(r)

\* The steps of Next, grouped by what they write.
LEMMA NextSteps ==
  ASSUME [Next]_vars
  PROVE  \/ \E c \in Calls : \/ LocalStep(c)
                             \/ CreateGuestRequest(c) \/ InsertReply(c) \/ ClearInteraction(c)
                             \/ \E v \in Viewers, r \in Requests : Skip(c, v, r) \/ Hold(c, v, r)
         \/ RowStep
         \/ UNCHANGED vars
BY DEF Next, Start, ReplyStep, LocalStep, RowStep

LEMMA LocalTables ==
  ASSUME NEW c \in Calls, LocalStep(c)
  PROVE  UNCHANGED <<requests, replies, interactions, events>>
BY DEF LocalStep, FindGuestRequest, FetchQueue, ReadRequest, CheckMember, CheckGuest,
   QueueStep, ReadExcluded, QueryBelowCap, QueryAll, Respond, CallFails

LEMMA LocalCall ==
  ASSUME TypeOK, CallsTyped, NEW c \in Calls, LocalStep(c)
  PROVE  \E new \in CallState :
           /\ call' = [call EXCEPT ![c] = new]
           /\ new.pc # "idle" => new.viewer \in Viewers
           /\ new.pc = "creating" => new.viewer \in Guests
           /\ new.pc \in {"visible", "unreplied"} => new.request \in Requests
           /\ new.pc # "replied"
           /\ new.pc = "unreplied" /\ new.viewer \in Guests =>
                /\ call[c].pc = "visible" /\ call[c].viewer = new.viewer
                /\ Cardinality(RepliesBy(new.viewer)) < GuestReplyLimit
           /\ new.excluded \subseteq (call[c].excluded \cup Excluded(new.viewer))
           /\ new.pc \in {"queue", "full"} /\ new.excluded # {} =>
                call[c].pc \in {"queue", "full"} /\ new.viewer = call[c].viewer
<1> DEFINE P(new) ==
       /\ new \in CallState
       /\ call' = [call EXCEPT ![c] = new]
       /\ new.pc # "idle" => new.viewer \in Viewers
       /\ new.pc = "creating" => new.viewer \in Guests
       /\ new.pc \in {"visible", "unreplied"} => new.request \in Requests
       /\ new.pc # "replied"
       /\ new.pc = "unreplied" /\ new.viewer \in Guests =>
            /\ call[c].pc = "visible" /\ call[c].viewer = new.viewer
            /\ Cardinality(RepliesBy(new.viewer)) < GuestReplyLimit
       /\ new.excluded \subseteq (call[c].excluded \cup Excluded(new.viewer))
       /\ new.pc \in {"queue", "full"} /\ new.excluded # {} =>
                call[c].pc \in {"queue", "full"} /\ new.viewer = call[c].viewer
<1> SUFFICES \E new : P(new) OBVIOUS
<1> USE BoundAssumption, ViewerAssumption
<1>1. /\ call[c] \in CallState
      /\ call[c].pc # "idle" => call[c].viewer \in Viewers
      /\ call[c].pc \in {"visible", "unreplied"} => call[c].request \in Requests
      /\ IdleCall \in CallState
  BY DEF TypeOK, CallsTyped, CallState, IdleCall
<1>2. ASSUME call' = [call EXCEPT ![c] = IdleCall] PROVE P(IdleCall)
  BY <1>1, <1>2 DEF IdleCall
<1>3. ASSUME NEW g \in Guests, FindGuestRequest(c, g) PROVE \E new : P(new)
  <2> DEFINE new == [IdleCall EXCEPT !.pc = "creating", !.viewer = g]
  <2>1. new \in CallState BY <1>1 DEF CallState, Viewers
  <2>2. /\ new.pc = "creating" /\ new.viewer = g /\ new.excluded = {}
        /\ g \in Viewers
    BY DEF IdleCall, Viewers
  <2>3. call' = [call EXCEPT ![c] = new] BY <1>3 DEF FindGuestRequest
  <2> HIDE DEF new
  <2>4. P(new) BY <2>1, <2>2, <2>3
  <2> QED BY <2>4
<1>4. ASSUME NEW v \in Viewers, FetchQueue(c, v) PROVE \E new : P(new)
  <2>1. Excluded(v) \in SUBSET Requests
    BY DEF Excluded, RepliedRequests, RepliesBy, InteractedRequests, TypeOK, Reply
  <2>2. P(QueueCall(v, Excluded(v)))
    BY <1>4, <2>1 DEF FetchQueue, QueueCall, IdleCall, CallState
  <2> QED BY <2>2
<1>5. ASSUME NEW v \in Viewers, NEW r \in Requests, ReadRequest(c, v, r)
      PROVE  \E new : P(new)
  <2> DEFINE new == [IdleCall EXCEPT !.pc = "visible", !.viewer = v, !.request = r]
  <2> r \in Nat BY DEF Requests
  <2>1. new \in CallState BY <1>1 DEF CallState
  <2>2. /\ new.pc = "visible" /\ new.viewer = v /\ new.request = r
        /\ new.excluded = {}
    BY DEF IdleCall
  <2>3. call' = [call EXCEPT ![c] = new] BY <1>5 DEF ReadRequest
  <2> HIDE DEF new
  <2>4. P(new) BY <2>1, <2>2, <2>3
  <2> QED BY <2>4
<1>6. ASSUME CheckMember(c) PROVE \E new : P(new)
  <2>1. CASE call' = [call EXCEPT ![c] = IdleCall] BY <2>1, <1>2
  <2>2. CASE call' = [call EXCEPT ![c].pc = "unreplied"]
    <3>1. call[c].pc = "visible" /\ call[c].viewer \in Members BY <1>6 DEF CheckMember
    <3>2. P([call[c] EXCEPT !.pc = "unreplied"])
      BY <1>1, <2>2, <3>1 DEF CallState
    <3> QED BY <3>2
  <2> QED BY <1>6, <2>1, <2>2 DEF CheckMember
<1>7. ASSUME CheckGuest(c) PROVE \E new : P(new)
  <2>1. CASE call' = [call EXCEPT ![c] = IdleCall] BY <2>1, <1>2
  <2>2. CASE /\ call' = [call EXCEPT ![c].pc = "unreplied"]
             /\ Cardinality(RepliesBy(call[c].viewer)) < GuestReplyLimit
    <3>1. call[c].pc = "visible" /\ call[c].viewer \in Guests BY <1>7 DEF CheckGuest
    <3>2. P([call[c] EXCEPT !.pc = "unreplied"])
      BY <1>1, <2>2, <3>1 DEF CallState
    <3> QED BY <3>2
  <2> QED BY <1>7, <2>1, <2>2 DEF CheckGuest
<1>8. ASSUME NEW part \in {"replies", "interactions"}, ReadExcluded(c, part)
      PROVE  \E new : P(new)
  <2> DEFINE found == IF part = "replies" THEN RepliedRequests(call[c].viewer)
                      ELSE InteractedRequests(call[c].viewer)
             new == [call[c] EXCEPT !.unread = @ \ {part}, !.excluded = @ \cup found]
  <2>1. found \in SUBSET Requests /\ found \subseteq Excluded(call[c].viewer)
    BY DEF Excluded, RepliedRequests, RepliesBy, InteractedRequests, TypeOK, Reply
  <2>2. call[c].pc = "queue" /\ call' = [call EXCEPT ![c] = new] BY <1>8 DEF ReadExcluded
  <2> HIDE DEF found
  <2>3. P(new) BY <1>1, <2>1, <2>2 DEF CallState
  <2> QED BY <2>3
<1>9. ASSUME NEW S, Offer(c, S), call[c].pc \in {"queue", "full"} PROVE \E new : P(new)
  <2>1. PICK r \in Requests :
          call' = [call EXCEPT ![c] =
            [call[c] EXCEPT !.pc = "found", !.request = r, !.excluded = {}, !.known = {}]]
    BY <1>9 DEF Offer
  <2>2. r \in Nat BY DEF Requests
  <2>3. P([call[c] EXCEPT !.pc = "found", !.request = r, !.excluded = {}, !.known = {}])
    BY <1>1, <1>9, <2>1, <2>2 DEF CallState
  <2> QED BY <2>3
<1>10. ASSUME QueryBelowCap(c) PROVE \E new : P(new)
  <2>1. CASE call' = [call EXCEPT ![c].pc = "full"]
    <3>1. call[c].pc = "queue" BY <1>10 DEF QueryBelowCap
    <3>2. P([call[c] EXCEPT !.pc = "full"]) BY <1>1, <2>1, <3>1 DEF CallState
    <3> QED BY <3>2
  <2> QED BY <1>9, <1>10, <2>1 DEF QueryBelowCap
<1>11. ASSUME QueryAll(c) PROVE \E new : P(new)
  BY <1>2, <1>9, <1>11 DEF QueryAll
<1>12. ASSUME Respond(c) \/ CallFails(c) PROVE \E new : P(new)
  BY <1>2, <1>12 DEF Respond, CallFails
<1> HIDE DEF P
<1> QED
  BY <1>3, <1>4, <1>5, <1>6, <1>7, <1>8, <1>10, <1>11, <1>12 DEF LocalStep, QueueStep

LEMMA NewReplyTyped ==
  ASSUME TypeOK, CallsTyped, IsFiniteSet(replies), NEW c \in Calls,
         call[c].pc = "unreplied", Cardinality(replies) < MaxReplies
  PROVE  NewReply(c) \in Reply
<1> DEFINE own == RepliesOf(call[c].viewer, call[c].request)
<1>1. own \subseteq replies BY DEF RepliesOf
<1>2. Cardinality(own) \in Nat /\ Cardinality(replies) \in Nat
      /\ Cardinality(own) <= Cardinality(replies)
  BY <1>1, FS_Subset, FS_CardinalityType
<1>3. Cardinality(own) + 1 \in 1..MaxReplies BY <1>2, BoundAssumption
<1>4. call[c].viewer \in Viewers /\ call[c].request \in Requests BY DEF CallsTyped
<1> HIDE DEF own
<1> QED BY <1>3, <1>4 DEF NewReply, Reply, Status, own

\* What the steps of a handler that write a table do to that handler.
LEMMA WritingCall ==
  ASSUME TypeOK, NEW c \in Calls,
         CreateGuestRequest(c) \/ InsertReply(c) \/ ClearInteraction(c)
  PROVE  \/ call' = [call EXCEPT ![c] = IdleCall]
         \/ /\ call[c].pc = "unreplied" /\ InsertReply(c)
            /\ call' = [call EXCEPT ![c] = [call[c] EXCEPT !.pc = "replied"]]
BY DEF CreateGuestRequest, InsertReply, ClearInteraction

LEMMA TypeStep ==
  ASSUME TypeOK, CallsTyped, IsFiniteSet(replies), [Next]_vars
  PROVE  TypeOK'
<1> USE BoundAssumption, ViewerAssumption
<1>1. IdleCall \in CallState BY DEF IdleCall, CallState
<1>2. ASSUME NEW c \in Calls, LocalStep(c) PROVE TypeOK'
  <2>1. call' \in [Calls -> CallState] BY <1>2, LocalCall DEF TypeOK
  <2> QED BY <1>2, <2>1, LocalTables DEF TypeOK
<1>3. ASSUME NEW v \in Viewers, Post(v) PROVE requests' \in [Requests -> Request]
  <2>1. PICK r \in Requests :
          requests' = [requests EXCEPT ![r] = [requests[r] EXCEPT !.author = v]]
    BY <1>3 DEF Post
  <2>2. [requests[r] EXCEPT !.author = v] \in Request BY DEF TypeOK, Request
  <2> QED BY <2>1, <2>2 DEF TypeOK
<1>4. ASSUME NEW c \in Calls, CreateGuestRequest(c) PROVE TypeOK'
  <2>1. call[c].viewer \in Viewers BY <1>4 DEF CreateGuestRequest, CallsTyped, Viewers
  <2>2. requests' \in [Requests -> Request]
    BY <1>3, <1>4, <2>1 DEF CreateGuestRequest, TypeOK
  <2> QED BY <1>1, <1>4, <2>2 DEF CreateGuestRequest, TypeOK
<1>5. ASSUME NEW c \in Calls, InsertReply(c) PROVE TypeOK'
  <2>1. call' \in [Calls -> CallState]
    <3>1. call[c] \in CallState BY DEF TypeOK
    <3>2. [call[c] EXCEPT !.pc = "replied"] \in CallState BY <3>1 DEF CallState
    <3> QED BY <1>1, <1>5, <3>2, WritingCall DEF TypeOK
  <2>2. replies' \subseteq Reply BY <1>5, NewReplyTyped DEF InsertReply, TypeOK
  <2> QED BY <1>5, <2>1, <2>2 DEF InsertReply, TypeOK
<1>6. ASSUME NEW c \in Calls, ClearInteraction(c) PROVE TypeOK'
  <2>1. call[c].viewer \in Viewers /\ call[c].request \in Requests
    BY <1>6 DEF ClearInteraction, CallsTyped
  <2>2. /\ interactions' \in [Viewers -> [Requests -> {"none", "skipped", "held"}]]
        /\ \A g \in Guests, q \in Requests : interactions'[g][q] # "held"
    BY <1>6, <2>1 DEF ClearInteraction, TypeOK, Viewers
  <2>3. call' \in [Calls -> CallState] BY <1>1, <1>6 DEF ClearInteraction, TypeOK
  <2> QED BY <1>6, <2>2, <2>3 DEF ClearInteraction, TypeOK
<1>7. ASSUME NEW c \in Calls, NEW v \in Viewers, NEW r \in Requests,
             Skip(c, v, r) \/ Hold(c, v, r)
      PROVE  TypeOK'
  <2>1. Excluded(v) \cup {r} \in SUBSET Requests
    BY DEF Excluded, RepliedRequests, RepliesBy, InteractedRequests, TypeOK, Reply
  <2>2. QueueCall(v, Excluded(v) \cup {r}) \in CallState
    BY <2>1 DEF QueueCall, IdleCall, CallState
  <2>3. call' \in [Calls -> CallState] BY <1>7, <2>2 DEF Skip, Hold, TypeOK
  <2>4. events' \in 0..MaxEvents BY <1>7 DEF Skip, Hold, Event, TypeOK
  <2>5. /\ interactions' \in [Viewers -> [Requests -> {"none", "skipped", "held"}]]
        /\ \A g \in Guests, q \in Requests : interactions'[g][q] # "held"
    BY <1>7 DEF Skip, Hold, TypeOK, Viewers
  <2> QED BY <1>7, <2>3, <2>4, <2>5 DEF Skip, Hold, TypeOK
<1>8. ASSUME RowStep PROVE TypeOK'
  <2>1. ASSUME NEW m \in Members, CreateMemberRequest(m) PROVE TypeOK'
    BY <1>3, <2>1 DEF CreateMemberRequest, TypeOK, Viewers
  <2>2. ASSUME NEW r \in Requests, NEW s \in Status, ModerateRequest(r, s) PROVE TypeOK'
    <3>1. requests[r] \in Request BY DEF TypeOK
    <3>2. [requests[r] EXCEPT !.status = s] \in Request BY <3>1 DEF Request
    <3>3. events' \in 0..MaxEvents BY <2>2 DEF ModerateRequest, Event, TypeOK
    <3> QED BY <2>2, <3>2, <3>3 DEF ModerateRequest, TypeOK
  <2>3. ASSUME NEW p \in replies, NEW s \in Status, ModerateReply(p, s) PROVE TypeOK'
    <3>1. [p EXCEPT !.status = s] \in Reply BY DEF TypeOK, Reply
    <3>2. events' \in 0..MaxEvents BY <2>3 DEF ModerateReply, Event, TypeOK
    <3> QED BY <2>3, <3>1, <3>2 DEF ModerateReply, TypeOK
  <2>4. ASSUME NEW r \in Requests, MarkContentRemoved(r) PROVE TypeOK'
    <3>1. requests[r] \in Request BY DEF TypeOK
    <3>2. [requests[r] EXCEPT !.removed = TRUE] \in Request BY <3>1 DEF Request
    <3>3. events' \in 0..MaxEvents BY <2>4 DEF MarkContentRemoved, Event, TypeOK
    <3> QED BY <2>4, <3>2, <3>3 DEF MarkContentRemoved, TypeOK
  <2>5. ASSUME NEW r \in Requests, Expire(r) PROVE TypeOK'
    <3>1. requests[r] \in Request BY DEF TypeOK
    <3>2. [requests[r] EXCEPT !.fresh = FALSE] \in Request BY <3>1 DEF Request
    <3>3. events' \in 0..MaxEvents BY <2>5 DEF Expire, Event, TypeOK
    <3> QED BY <2>5, <3>2, <3>3 DEF Expire, TypeOK
  <2> QED BY <1>8, <2>1, <2>2, <2>3, <2>4, <2>5 DEF RowStep
<1>9. CASE UNCHANGED vars BY <1>9 DEF vars, TypeOK
<1> QED BY <1>2, <1>4, <1>5, <1>6, <1>7, <1>8, <1>9, NextSteps

---------------------------------------------------------------------------
(* The handlers *)

\* One handler moves at a time; what the moving one may become.
LEMMA CallsTypedStep ==
  ASSUME TypeOK, CallsTyped, [Next]_vars
  PROVE  CallsTyped'
<1>1. ASSUME NEW c \in Calls, NEW new,
             call' = [call EXCEPT ![c] = new],
             new.pc # "idle" => new.viewer \in Viewers,
             new.pc = "creating" => new.viewer \in Guests,
             new.pc \in {"visible", "unreplied", "replied"} => new.request \in Requests
      PROVE  CallsTyped'
  BY <1>1 DEF CallsTyped, TypeOK
<1>2. ASSUME NEW c \in Calls, call' = [call EXCEPT ![c] = IdleCall] PROVE CallsTyped'
  BY <1>1, <1>2 DEF IdleCall
<1>3. ASSUME NEW c \in Calls, LocalStep(c) PROVE CallsTyped'
  <2>1. PICK new \in CallState :
           /\ call' = [call EXCEPT ![c] = new]
           /\ new.pc # "idle" => new.viewer \in Viewers
           /\ new.pc = "creating" => new.viewer \in Guests
           /\ new.pc \in {"visible", "unreplied"} => new.request \in Requests
           /\ new.pc # "replied"
    BY <1>3, LocalCall
  <2> QED BY <2>1, <1>1
<1>4. ASSUME NEW c \in Calls,
             CreateGuestRequest(c) \/ InsertReply(c) \/ ClearInteraction(c)
      PROVE  CallsTyped'
  <2>1. CASE /\ call[c].pc = "unreplied"
             /\ call' = [call EXCEPT ![c] = [call[c] EXCEPT !.pc = "replied"]]
    <3> DEFINE new == [call[c] EXCEPT !.pc = "replied"]
    <3>1. new.pc = "replied" /\ new.viewer \in Viewers /\ new.request \in Requests
      BY <2>1 DEF TypeOK, CallState, CallsTyped
    <3>2. call' = [call EXCEPT ![c] = new] BY <2>1
    <3> HIDE DEF new
    <3> QED BY <3>1, <3>2, <1>1
  <2> QED BY <1>2, <1>4, <2>1, WritingCall
<1>5. ASSUME NEW c \in Calls, NEW v \in Viewers, NEW r \in Requests,
             Skip(c, v, r) \/ Hold(c, v, r)
      PROVE  CallsTyped'
  <2> DEFINE new == QueueCall(v, Excluded(v) \cup {r})
  <2>1. call' = [call EXCEPT ![c] = new] BY <1>5 DEF Skip, Hold
  <2>2. new.pc = "queue" /\ new.viewer \in Viewers BY DEF QueueCall, IdleCall
  <2> HIDE DEF new
  <2> QED BY <2>1, <2>2, <1>1
<1>6. ASSUME RowStep \/ UNCHANGED vars PROVE CallsTyped'
  <2>1. call' = call
    BY <1>6 DEF RowStep, vars, CreateMemberRequest, ModerateRequest, ModerateReply,
       MarkContentRemoved, Expire
  <2> QED BY <2>1 DEF CallsTyped
<1> QED BY <1>3, <1>4, <1>5, <1>6, NextSteps

---------------------------------------------------------------------------
(* Exclusion *)

\* No step takes a request out of those a viewer has replied to.
LEMMA RepliesKept ==
  ASSUME TypeOK, [Next]_vars, NEW v
  PROVE  RepliedRequests(v) \subseteq RepliedRequests(v)'
<1>1. ASSUME replies \subseteq replies' PROVE RepliedRequests(v) \subseteq RepliedRequests(v)'
  BY <1>1 DEF RepliedRequests, RepliesBy
<1>2. ASSUME NEW p \in replies, NEW s \in Status, ModerateReply(p, s)
      PROVE  RepliedRequests(v) \subseteq RepliedRequests(v)'
  <2>1. /\ replies' = (replies \ {p}) \cup {[p EXCEPT !.status = s]}
        /\ [p EXCEPT !.status = s].author = p.author
        /\ [p EXCEPT !.status = s].request = p.request
    BY <1>2 DEF ModerateReply, TypeOK, Reply
  <2>2. ASSUME NEW q \in replies, q.author = v
        PROVE  \E z \in replies' : z.author = v /\ z.request = q.request
    BY <2>1, <2>2
  <2> QED BY <2>2 DEF RepliedRequests, RepliesBy
<1>3. ASSUME NEW c \in Calls, InsertReply(c) PROVE replies \subseteq replies'
  BY <1>3 DEF InsertReply
<1>4. ASSUME NEW c \in Calls,
             \/ LocalStep(c) \/ CreateGuestRequest(c) \/ ClearInteraction(c)
             \/ \E u \in Viewers, r \in Requests : Skip(c, u, r) \/ Hold(c, u, r)
      PROVE  replies \subseteq replies'
  BY <1>4, LocalTables DEF CreateGuestRequest, ClearInteraction, Skip, Hold
<1>5. ASSUME RowStep, ~\E p \in replies, s \in Status : ModerateReply(p, s)
      PROVE  replies \subseteq replies'
  BY <1>5 DEF RowStep, CreateMemberRequest, ModerateRequest, MarkContentRemoved, Expire
<1>6. ASSUME UNCHANGED vars PROVE replies \subseteq replies' BY <1>6 DEF vars
<1> QED BY <1>1, <1>2, <1>3, <1>4, <1>5, <1>6, NextSteps

\* Only clearForViewer takes an interaction away, and its reply is stored.
LEMMA ExclusionGrows ==
  ASSUME TypeOK, CallsTyped, ReplyStored, [Next]_vars, NEW v \in Viewers
  PROVE  Excluded(v) \subseteq Excluded(v)'
<1>1. ASSUME InteractedRequests(v) \subseteq InteractedRequests(v)' \cup RepliedRequests(v)
      PROVE  Excluded(v) \subseteq Excluded(v)'
  BY <1>1, RepliesKept DEF Excluded
<1>2. ASSUME interactions' = interactions
      PROVE  InteractedRequests(v) \subseteq InteractedRequests(v)'
  BY <1>2 DEF InteractedRequests
<1>3. ASSUME NEW c \in Calls, ClearInteraction(c)
      PROVE  InteractedRequests(v) \subseteq InteractedRequests(v)' \cup RepliedRequests(v)
  <2>1. /\ call[c].request \in RepliedRequests(call[c].viewer)
        /\ call[c].viewer \in Viewers /\ call[c].request \in Requests
        /\ interactions' =
             [interactions EXCEPT ![call[c].viewer][call[c].request] = "none"]
    BY <1>3 DEF ClearInteraction, ReplyStored, CallsTyped
  <2>2. ASSUME NEW r \in Requests, interactions[v][r] # "none", interactions'[v][r] = "none"
        PROVE  v = call[c].viewer /\ r = call[c].request
    BY <2>1, <2>2 DEF TypeOK
  <2> QED BY <2>1, <2>2 DEF InteractedRequests
<1>4. ASSUME NEW c \in Calls, NEW u \in Viewers, NEW r \in Requests,
             Skip(c, u, r) \/ Hold(c, u, r)
      PROVE  InteractedRequests(v) \subseteq InteractedRequests(v)'
  <2>1. \E s \in {"skipped", "held"} : interactions' = [interactions EXCEPT ![u][r] = s]
    BY <1>4 DEF Skip, Hold
  <2>2. \A q \in Requests : interactions[v][q] # "none" => interactions'[v][q] # "none"
    BY <2>1 DEF TypeOK
  <2> QED BY <2>2 DEF InteractedRequests
<1>5. ASSUME NEW c \in Calls, LocalStep(c) \/ CreateGuestRequest(c) \/ InsertReply(c)
      PROVE  interactions' = interactions
  BY <1>5, LocalTables DEF CreateGuestRequest, InsertReply
<1>6. ASSUME RowStep \/ UNCHANGED vars PROVE interactions' = interactions
  BY <1>6 DEF RowStep, vars, CreateMemberRequest, ModerateRequest, ModerateReply,
     MarkContentRemoved, Expire
<1> QED BY <1>1, <1>2, <1>3, <1>4, <1>5, <1>6, NextSteps

LEMMA ReplyStoredStep ==
  ASSUME TypeOK, CallsTyped, ReplyStored, IsFiniteSet(replies), [Next]_vars
  PROVE  ReplyStored'
<1> SUFFICES ASSUME NEW d \in Calls, call'[d].pc = "replied"
             PROVE  (call[d].request \in RepliedRequests(call[d].viewer))'
  BY DEF ReplyStored
<1>1. ASSUME call'[d] = call[d]
      PROVE  (call[d].request \in RepliedRequests(call[d].viewer))'
  <2>1. call[d].request \in RepliedRequests(call[d].viewer) BY <1>1 DEF ReplyStored
  <2>2. RepliedRequests(call[d].viewer) \subseteq
          {p.request : p \in {q \in replies' : q.author = call[d].viewer}}
    <3>1. \A v : RepliedRequests(v) \subseteq RepliedRequests(v)' BY RepliesKept
    <3>2. \A v : RepliedRequests(v)' = {p.request : p \in {q \in replies' : q.author = v}}
      BY DEF RepliedRequests, RepliesBy
    <3> QED BY <3>1, <3>2
  <2> QED BY <1>1, <2>1, <2>2 DEF RepliedRequests, RepliesBy
<1>2. ASSUME NEW c \in Calls, NEW new, call' = [call EXCEPT ![c] = new], new.pc # "replied"
      PROVE  call'[d] = call[d]
  BY <1>2 DEF TypeOK
<1>3. ASSUME NEW c \in Calls, LocalStep(c) PROVE call'[d] = call[d]
  <2>1. PICK new \in CallState : call' = [call EXCEPT ![c] = new] /\ new.pc # "replied"
    BY <1>3, LocalCall
  <2> QED BY <2>1, <1>2
<1>4. ASSUME NEW c \in Calls, call' = [call EXCEPT ![c] = IdleCall] PROVE call'[d] = call[d]
  BY <1>2, <1>4 DEF IdleCall
<1>5. ASSUME NEW c \in Calls, InsertReply(c), call[c].pc = "unreplied",
             call' = [call EXCEPT ![c] = [call[c] EXCEPT !.pc = "replied"]]
      PROVE  (call[d].request \in RepliedRequests(call[d].viewer))'
  <2>1. CASE d # c BY <1>1, <1>5, <2>1 DEF TypeOK
  <2>2. CASE d = c
    <3>1. call'[d].viewer = call[c].viewer /\ call'[d].request = call[c].request
      BY <1>5, <2>2 DEF TypeOK, CallState
    <3>2. replies' = replies \cup {NewReply(c)}
      <4>1. call' # [call EXCEPT ![c] = IdleCall]
        BY <1>5 DEF TypeOK, CallState, IdleCall
      <4> QED BY <1>5, <4>1 DEF InsertReply
    <3>3. NewReply(c).author = call[c].viewer /\ NewReply(c).request = call[c].request
      BY DEF NewReply
    <3>4. NewReply(c) \in replies' BY <3>2
    <3>5. call[c].request \in {p.request : p \in {q \in replies' : q.author = call[c].viewer}}
      BY <3>3, <3>4
    <3> QED BY <3>1, <3>5 DEF RepliedRequests, RepliesBy
  <2> QED BY <2>1, <2>2
<1>6. ASSUME NEW c \in Calls, NEW v \in Viewers, NEW r \in Requests,
             Skip(c, v, r) \/ Hold(c, v, r)
      PROVE  call'[d] = call[d]
  <2> DEFINE new == QueueCall(v, Excluded(v) \cup {r})
  <2>1. call' = [call EXCEPT ![c] = new] BY <1>6 DEF Skip, Hold
  <2>2. new.pc = "queue" BY DEF QueueCall, IdleCall
  <2> HIDE DEF new
  <2> QED BY <2>1, <2>2, <1>2
<1>7. ASSUME RowStep \/ UNCHANGED vars PROVE call'[d] = call[d]
  BY <1>7 DEF RowStep, vars, CreateMemberRequest, ModerateRequest, ModerateReply,
     MarkContentRemoved, Expire
<1> QED BY <1>1, <1>3, <1>4, <1>5, <1>6, <1>7, NextSteps, WritingCall

LEMMA ExclusionsHoldStep ==
  ASSUME TypeOK, CallsTyped, ReplyStored, ExclusionsHold, [Next]_vars
  PROVE  ExclusionsHold'
<1> SUFFICES ASSUME NEW d \in Calls, call'[d].pc \in {"queue", "full"}
             PROVE  (call[d].excluded \subseteq Excluded(call[d].viewer))'
  BY DEF ExclusionsHold
<1> DEFINE Ex(v) == {p.request : p \in {q \in replies' : q.author = v}}
                      \cup {r \in Requests : interactions'[v][r] # "none"}
<1>0. \A v : Excluded(v)' = Ex(v)
  BY DEF Excluded, RepliedRequests, RepliesBy, InteractedRequests
<1>1. \A v \in Viewers : Excluded(v) \subseteq Ex(v) BY <1>0, ExclusionGrows
<1>2. ASSUME call'[d].excluded \subseteq Ex(call'[d].viewer)
      PROVE  (call[d].excluded \subseteq Excluded(call[d].viewer))'
  BY <1>2 DEF Excluded, RepliedRequests, RepliesBy, InteractedRequests
<1> HIDE DEF Ex
<1>3. ASSUME call'[d].excluded = {}
      PROVE  (call[d].excluded \subseteq Excluded(call[d].viewer))'
  BY <1>2, <1>3
<1>4. ASSUME call'[d] = call[d]
      PROVE  (call[d].excluded \subseteq Excluded(call[d].viewer))'
  BY <1>1, <1>2, <1>4 DEF ExclusionsHold, CallsTyped
<1>5. ASSUME NEW c \in Calls, LocalStep(c)
      PROVE  (call[d].excluded \subseteq Excluded(call[d].viewer))'
  <2>1. PICK new \in CallState :
           /\ call' = [call EXCEPT ![c] = new]
           /\ new.pc # "idle" => new.viewer \in Viewers
           /\ new.excluded \subseteq (call[c].excluded \cup Excluded(new.viewer))
           /\ new.pc \in {"queue", "full"} /\ new.excluded # {} =>
                call[c].pc \in {"queue", "full"} /\ new.viewer = call[c].viewer
    BY <1>5, LocalCall
  <2>2. CASE d # c BY <1>4, <2>1, <2>2 DEF TypeOK
  <2>3. CASE d = c
    <3>1. call'[d] = new BY <2>1, <2>3 DEF TypeOK
    <3>2. CASE new.excluded # {}
      <4>1. /\ call[c].excluded \subseteq Excluded(new.viewer)
            /\ new.viewer \in Viewers
        BY <2>1, <3>1, <3>2 DEF ExclusionsHold
      <4> QED BY <1>1, <1>2, <2>1, <3>1, <4>1
    <3> QED BY <1>3, <3>1, <3>2
  <2> QED BY <2>2, <2>3
<1>6. ASSUME NEW c \in Calls,
             CreateGuestRequest(c) \/ InsertReply(c) \/ ClearInteraction(c)
      PROVE  (call[d].excluded \subseteq Excluded(call[d].viewer))'
  <2>1. CASE d # c
    <3>1. call'[d] = call[d] BY <1>6, <2>1, WritingCall DEF TypeOK
    <3> QED BY <3>1, <1>4
  <2>2. CASE d = c
    <3>1. call'[d].pc \in {"idle", "replied"}
      BY <1>6, <2>2, WritingCall DEF TypeOK, CallState, IdleCall
    <3> QED BY <3>1
  <2> QED BY <2>1, <2>2
<1>7. ASSUME NEW c \in Calls, NEW v \in Viewers, NEW r \in Requests,
             Skip(c, v, r) \/ Hold(c, v, r)
      PROVE  (call[d].excluded \subseteq Excluded(call[d].viewer))'
  <2> DEFINE new == QueueCall(v, Excluded(v) \cup {r})
  <2>1. call' = [call EXCEPT ![c] = new] BY <1>7 DEF Skip, Hold
  <2>2. new.excluded = {} BY DEF QueueCall, IdleCall
  <2> HIDE DEF new
  <2>3. CASE d # c BY <1>4, <2>1, <2>3 DEF TypeOK
  <2>4. CASE d = c BY <1>3, <2>1, <2>2, <2>4 DEF TypeOK
  <2> QED BY <2>3, <2>4
<1>8. ASSUME RowStep \/ UNCHANGED vars PROVE call'[d] = call[d]
  BY <1>8 DEF RowStep, vars, CreateMemberRequest, ModerateRequest, ModerateReply,
     MarkContentRemoved, Expire
<1> QED BY <1>4, <1>5, <1>6, <1>7, <1>8, NextSteps

---------------------------------------------------------------------------
(* Rows *)

\* How a step changes the replies: not at all, by one reply of a handler that
\* passed the checks, or by the status of one.
LEMMA ReplyRows ==
  ASSUME TypeOK, [Next]_vars
  PROVE  \/ replies' = replies
         \/ \E c \in Calls :
              /\ call[c].pc = "unreplied" /\ replies' = replies \cup {NewReply(c)}
              /\ call' = [call EXCEPT ![c] = [call[c] EXCEPT !.pc = "replied"]]
              /\ UNCHANGED requests
              /\ call[c].viewer \in Guests
                   \/ RepliesOf(call[c].viewer, call[c].request) = {}
         \/ \E p \in replies, q \in Reply :
              /\ replies' = (replies \ {p}) \cup {q}
              /\ q.author = p.author /\ q.request = p.request
              /\ UNCHANGED <<call, requests>>
<1>1. ASSUME NEW c \in Calls, LocalStep(c) PROVE replies' = replies
  BY <1>1, LocalTables
<1>2. ASSUME NEW p \in replies, NEW s \in Status, ModerateReply(p, s)
      PROVE  \E q \in Reply :
               /\ replies' = (replies \ {p}) \cup {q}
               /\ q.author = p.author /\ q.request = p.request
               /\ UNCHANGED <<call, requests>>
  <2>1. [p EXCEPT !.status = s] \in Reply BY DEF TypeOK, Reply
  <2>2. [p EXCEPT !.status = s].author = p.author
        /\ [p EXCEPT !.status = s].request = p.request
    BY DEF TypeOK, Reply
  <2> QED BY <1>2, <2>1, <2>2 DEF ModerateReply
<1>3. ASSUME RowStep, ~\E p \in replies, s \in Status : ModerateReply(p, s)
      PROVE  replies' = replies
  BY <1>3 DEF RowStep, CreateMemberRequest, ModerateRequest, MarkContentRemoved, Expire
<1>4. ASSUME NEW c \in Calls,
             \/ CreateGuestRequest(c) \/ ClearInteraction(c)
             \/ \E u \in Viewers, r \in Requests : Skip(c, u, r) \/ Hold(c, u, r)
      PROVE  replies' = replies
  BY <1>4 DEF CreateGuestRequest, ClearInteraction, Skip, Hold
<1>5. ASSUME UNCHANGED vars PROVE replies' = replies BY <1>5 DEF vars
<1> QED BY <1>1, <1>2, <1>3, <1>4, <1>5, NextSteps DEF InsertReply

LEMMA FiniteStep ==
  ASSUME TypeOK, IsFiniteSet(replies), [Next]_vars
  PROVE  IsFiniteSet(replies)'
<1>1. \A x : IsFiniteSet(replies \cup {x}) BY FS_AddElement
<1>2. \A p, x : IsFiniteSet((replies \ {p}) \cup {x})
  <2> TAKE p, x
  <2>1. IsFiniteSet(replies \ {p}) BY FS_Subset
  <2> QED BY <2>1, FS_AddElement
<1> QED BY <1>1, <1>2, ReplyRows

\* The author of a request is set once, and for a guest only when the guest has
\* no request yet.
LEMMA RequestAuthors ==
  ASSUME TypeOK, CallsTyped, [Next]_vars
  PROVE  \/ \A r \in Requests : requests'[r].author = requests[r].author
         \/ \E v \in Viewers, r \in Requests :
              /\ requests' = [requests EXCEPT ![r] = [requests[r] EXCEPT !.author = v]]
              /\ v \in Guests => ~GuestPosted(v)
<1>1. ASSUME NEW v, Post(v)
      PROVE  \E r \in Requests :
               requests' = [requests EXCEPT ![r] = [requests[r] EXCEPT !.author = v]]
  BY <1>1 DEF Post
<1>2. ASSUME NEW m \in Members, CreateMemberRequest(m)
      PROVE  \E v \in Viewers, r \in Requests :
               /\ requests' = [requests EXCEPT ![r] = [requests[r] EXCEPT !.author = v]]
               /\ v \in Guests => ~GuestPosted(v)
  <2>1. m \in Viewers /\ m \notin Guests BY ViewerAssumption DEF Viewers
  <2> QED BY <1>1, <1>2, <2>1 DEF CreateMemberRequest
<1>3. ASSUME NEW c \in Calls, CreateGuestRequest(c)
      PROVE  \/ requests' = requests
             \/ \E v \in Viewers, r \in Requests :
                  /\ requests' = [requests EXCEPT ![r] = [requests[r] EXCEPT !.author = v]]
                  /\ v \in Guests => ~GuestPosted(v)
  <2>1. call[c].viewer \in Viewers BY <1>3 DEF CreateGuestRequest, CallsTyped, Viewers
  <2> QED BY <1>1, <1>3, <2>1 DEF CreateGuestRequest
<1>4. ASSUME NEW q \in Requests, NEW s \in Status, ModerateRequest(q, s)
      PROVE  \A r \in Requests : requests'[r].author = requests[r].author
  BY <1>4 DEF ModerateRequest, TypeOK, Request
<1>5. ASSUME NEW q \in Requests, MarkContentRemoved(q) \/ Expire(q)
      PROVE  \A r \in Requests : requests'[r].author = requests[r].author
  <2>1. CASE MarkContentRemoved(q) BY <2>1 DEF MarkContentRemoved, TypeOK, Request
  <2>2. CASE Expire(q) BY <2>2 DEF Expire, TypeOK, Request
  <2> QED BY <1>5, <2>1, <2>2
<1>6. ASSUME NEW c \in Calls,
             \/ LocalStep(c) \/ InsertReply(c) \/ ClearInteraction(c)
             \/ \E u \in Viewers, r \in Requests : Skip(c, u, r) \/ Hold(c, u, r)
      PROVE  requests' = requests
  BY <1>6, LocalTables DEF InsertReply, ClearInteraction, Skip, Hold
<1>7. ASSUME \E p \in replies, s \in Status : ModerateReply(p, s) PROVE requests' = requests
  BY <1>7 DEF ModerateReply
<1>8. ASSUME UNCHANGED vars PROVE requests' = requests BY <1>8 DEF vars
<1> QED BY <1>2, <1>3, <1>4, <1>5, <1>6, <1>7, <1>8, NextSteps DEF RowStep

LEMMA OncePerViewerStep ==
  ASSUME TypeOK, CallsTyped, OncePerViewer, [Next]_vars
  PROVE  OncePerViewer'
<1>1. ASSUME NEW m \in Members, NEW p \in replies', NEW q \in replies',
             p.author = m, q.author = m, p.request = q.request
      PROVE  p = q
  <2>1. CASE replies' = replies BY <1>1, <2>1 DEF OncePerViewer
  <2>2. ASSUME NEW c \in Calls, replies' = replies \cup {NewReply(c)},
               call[c].viewer \in Guests \/ RepliesOf(call[c].viewer, call[c].request) = {}
        PROVE  p = q
    <3>1. /\ NewReply(c).author = call[c].viewer
          /\ NewReply(c).request = call[c].request
      BY DEF NewReply
    <3>2. m \notin Guests BY ViewerAssumption
    <3>3. ASSUME NEW z \in replies, z.author = m, call[c].viewer = m,
                 z.request = call[c].request
          PROVE  FALSE
      BY <2>2, <3>2, <3>3 DEF RepliesOf
    <3> QED BY <1>1, <2>2, <3>1, <3>3 DEF OncePerViewer
  <2>3. ASSUME NEW x \in replies, NEW y, replies' = (replies \ {x}) \cup {y},
               y.author = x.author, y.request = x.request
        PROVE  p = q
    BY <1>1, <2>3 DEF OncePerViewer
  <2> QED BY <2>1, <2>2, <2>3, ReplyRows
<1>2. ASSUME NEW g \in Guests, NEW r \in Requests, NEW q \in Requests,
             requests'[r].author = g, requests'[q].author = g
      PROVE  r = q
  <2>1. CASE \A z \in Requests : requests'[z].author = requests[z].author
    BY <1>2, <2>1 DEF OncePerViewer
  <2>2. ASSUME NEW v \in Viewers, NEW x \in Requests,
               requests' = [requests EXCEPT ![x] = [requests[x] EXCEPT !.author = v]],
               v \in Guests => ~GuestPosted(v)
        PROVE  r = q
    <3>1. /\ requests'[x].author = v
          /\ \A z \in Requests \ {x} : requests'[z] = requests[z]
      BY <2>2 DEF TypeOK, Request
    <3>2. v \in Guests => \A z \in Requests : requests[z].author # v
      BY <2>2 DEF GuestPosted
    <3> QED BY <1>2, <3>1, <3>2 DEF OncePerViewer
  <2> QED BY <2>1, <2>2, RequestAuthors
<1> QED BY <1>1, <1>2 DEF OncePerViewer

---------------------------------------------------------------------------
(* The guest's budget *)

LEMMA PendingFinite ==
  ASSUME NEW g
  PROVE  /\ IsFiniteSet(Pending(g)) /\ Cardinality(Pending(g)) \in Nat
         /\ Cardinality(Calls) \in Nat
         /\ Cardinality(Pending(g)) <= Cardinality(Calls)
<1>1. Pending(g) \in SUBSET Calls BY DEF Pending
<1> QED BY <1>1, CallsAssumption, FS_Subset, FS_CardinalityType

\* A set that takes one element more, or swaps one, is at most one larger.
LEMMA OneMore ==
  ASSUME NEW S, IsFiniteSet(S), NEW x
  PROVE  /\ IsFiniteSet(S \cup {x})
         /\ Cardinality(S) \in Nat
         /\ Cardinality(S \cup {x}) \in Nat
         /\ Cardinality(S \cup {x}) <= Cardinality(S) + 1
         /\ \A y \in S : /\ IsFiniteSet((S \ {y}) \cup {x})
                         /\ Cardinality((S \ {y}) \cup {x}) \in Nat
                         /\ Cardinality((S \ {y}) \cup {x}) <= Cardinality(S)
                         /\ Cardinality(S \ {y}) = Cardinality(S) - 1
<1>1. /\ IsFiniteSet(S \cup {x})
      /\ Cardinality(S) \in Nat
      /\ Cardinality(S \cup {x}) \in Nat
      /\ Cardinality(S \cup {x}) <= Cardinality(S) + 1
  BY FS_AddElement, FS_CardinalityType
<1>2. ASSUME NEW y \in S
      PROVE  /\ IsFiniteSet((S \ {y}) \cup {x})
             /\ Cardinality((S \ {y}) \cup {x}) \in Nat
             /\ Cardinality((S \ {y}) \cup {x}) <= Cardinality(S)
             /\ Cardinality(S \ {y}) = Cardinality(S) - 1
  <2>1. IsFiniteSet(S \ {y}) /\ Cardinality(S \ {y}) = Cardinality(S) - 1
    BY FS_RemoveElement
  <2> DEFINE R == S \ {y}
  <2> HIDE DEF R
  <2>2. /\ IsFiniteSet(R \cup {x})
        /\ Cardinality(R \cup {x}) = IF x \in R THEN Cardinality(R) ELSE Cardinality(R) + 1
        /\ Cardinality(R) \in Nat
        /\ Cardinality(R \cup {x}) \in Nat
    BY <2>1, FS_AddElement, FS_CardinalityType DEF R
  <2>3. Cardinality(R \cup {x}) <= Cardinality(R) + 1 BY <2>2
  <2> QED BY <1>1, <2>1, <2>2, <2>3 DEF R
<1> QED BY <1>1, <1>2

\* A handler joins those about to insert only by counting below the limit.
LEMMA PendingGrows ==
  ASSUME TypeOK, CallsTyped, [Next]_vars, NEW g \in Guests
  PROVE  \/ Pending(g)' \subseteq Pending(g)
         \/ replies' = replies /\ Cardinality(RepliesBy(g)) < GuestReplyLimit
<1>0. Pending(g)' = {c \in Calls : call'[c].pc = "unreplied" /\ call'[c].viewer = g}
  BY DEF Pending
<1>1. ASSUME NEW c \in Calls, NEW new, call' = [call EXCEPT ![c] = new],
             new.pc = "unreplied" => new.viewer # g
      PROVE  Pending(g)' \subseteq Pending(g)
  BY <1>0, <1>1 DEF Pending, TypeOK
<1>2. ASSUME NEW c \in Calls, LocalStep(c)
      PROVE  \/ Pending(g)' \subseteq Pending(g)
             \/ replies' = replies /\ Cardinality(RepliesBy(g)) < GuestReplyLimit
  <2>1. PICK new \in CallState :
           /\ call' = [call EXCEPT ![c] = new]
           /\ new.pc = "unreplied" /\ new.viewer \in Guests =>
                /\ call[c].pc = "visible" /\ call[c].viewer = new.viewer
                /\ Cardinality(RepliesBy(new.viewer)) < GuestReplyLimit
    BY <1>2, LocalCall
  <2>2. CASE new.pc = "unreplied" /\ new.viewer = g
    BY <1>2, <2>1, <2>2, LocalTables
  <2>3. CASE ~(new.pc = "unreplied" /\ new.viewer = g)
    BY <1>1, <2>1, <2>3
  <2> QED BY <2>2, <2>3
<1>3. ASSUME NEW c \in Calls,
             CreateGuestRequest(c) \/ InsertReply(c) \/ ClearInteraction(c)
      PROVE  Pending(g)' \subseteq Pending(g)
  <2>1. CASE call' = [call EXCEPT ![c] = IdleCall]
    BY <1>1, <2>1 DEF IdleCall
  <2>2. CASE call' = [call EXCEPT ![c] = [call[c] EXCEPT !.pc = "replied"]]
    <3>1. [call[c] EXCEPT !.pc = "replied"].pc = "replied" BY DEF TypeOK, CallState
    <3> QED BY <1>1, <2>2, <3>1
  <2> QED BY <1>3, <2>1, <2>2, WritingCall
<1>4. ASSUME NEW c \in Calls, NEW v \in Viewers, NEW r \in Requests,
             Skip(c, v, r) \/ Hold(c, v, r)
      PROVE  Pending(g)' \subseteq Pending(g)
  <2> DEFINE new == QueueCall(v, Excluded(v) \cup {r})
  <2>1. call' = [call EXCEPT ![c] = new] BY <1>4 DEF Skip, Hold
  <2>2. new.pc = "queue" BY DEF QueueCall, IdleCall
  <2> HIDE DEF new
  <2> QED BY <1>1, <2>1, <2>2
<1>5. ASSUME RowStep \/ UNCHANGED vars PROVE Pending(g)' \subseteq Pending(g)
  <2>1. call' = call
    BY <1>5 DEF RowStep, vars, CreateMemberRequest, ModerateRequest, ModerateReply,
       MarkContentRemoved, Expire
  <2> QED BY <1>0, <2>1 DEF Pending
<1> QED BY <1>2, <1>3, <1>4, <1>5, NextSteps

LEMMA BudgetStep ==
  ASSUME TypeOK, CallsTyped, IsFiniteSet(replies), BudgetHeld, [Next]_vars
  PROVE  BudgetHeld'
<1> SUFFICES ASSUME NEW g \in Guests
             PROVE  Cardinality(RepliesBy(g))' + Cardinality(Pending(g))'
                      < GuestReplyLimit + Cardinality(Calls)
  BY DEF BudgetHeld
<1> DEFINE n == Cardinality(RepliesBy(g))
           k == Cardinality(Pending(g))
           all == Cardinality(Calls)
<1>1. n + k < GuestReplyLimit + all BY DEF BudgetHeld
<1>2. RepliesBy(g) \subseteq replies /\ IsFiniteSet(RepliesBy(g))
  BY FS_Subset DEF RepliesBy
<1>3. n \in Nat /\ k \in Nat /\ all \in Nat /\ k <= all /\ GuestReplyLimit \in Nat
  BY <1>2, PendingFinite, FS_CardinalityType, LimitAssumption
<1>4. /\ RepliesBy(g)' = {p \in replies' : p.author = g}
      /\ Pending(g)' = {c \in Calls : call'[c].pc = "unreplied" /\ call'[c].viewer = g}
  BY DEF RepliesBy, Pending
<1>5. Cardinality(Pending(g))' \in Nat /\ Cardinality(Pending(g))' <= all
  <2>1. Pending(g)' \in SUBSET Calls BY <1>4
  <2> QED BY <2>1, CallsAssumption, FS_Subset, FS_CardinalityType
\* Nobody joins those who passed the count.
<1>6. ASSUME Pending(g)' \subseteq Pending(g), Cardinality(RepliesBy(g))' <= n,
             Cardinality(RepliesBy(g))' \in Nat
      PROVE  Cardinality(RepliesBy(g))' + Cardinality(Pending(g))' < GuestReplyLimit + all
  <2>1. Cardinality(Pending(g)') <= k BY <1>6, PendingFinite, FS_Subset
  <2> QED BY <1>1, <1>3, <1>5, <1>6, <2>1
<1>7. CASE replies' = replies
  <2>1. RepliesBy(g)' = RepliesBy(g) BY <1>4, <1>7 DEF RepliesBy
  <2>2. CASE Pending(g)' \subseteq Pending(g) BY <1>3, <1>6, <2>1, <2>2
  <2>3. CASE n < GuestReplyLimit BY <1>3, <1>5, <2>1, <2>3
  <2> QED BY <2>2, <2>3, PendingGrows
\* The reply that is stored and the handler that stored it cancel out.
<1>8. ASSUME NEW c \in Calls, call[c].pc = "unreplied",
             replies' = replies \cup {NewReply(c)},
             call' = [call EXCEPT ![c] = [call[c] EXCEPT !.pc = "replied"]]
      PROVE  Cardinality(RepliesBy(g))' + Cardinality(Pending(g))' < GuestReplyLimit + all
  <2>1. NewReply(c).author = call[c].viewer BY DEF NewReply
  <2>2. /\ call'[c].pc = "replied"
        /\ \A d \in Calls \ {c} : call'[d] = call[d]
    BY <1>8 DEF TypeOK, CallState
  <2>3. CASE call[c].viewer = g
    <3>1. RepliesBy(g)' = RepliesBy(g) \cup {NewReply(c)}
      BY <1>4, <1>8, <2>1, <2>3 DEF RepliesBy
    <3>2. Cardinality(RepliesBy(g)') \in Nat /\ Cardinality(RepliesBy(g)') <= n + 1
      BY <1>2, <3>1, OneMore
    <3>3. c \in Pending(g) /\ Pending(g)' = Pending(g) \ {c}
      BY <1>4, <1>8, <2>2, <2>3 DEF Pending
    <3>4. Cardinality(Pending(g)') = k - 1 BY <3>3, PendingFinite, OneMore
    <3> QED BY <1>1, <1>3, <3>2, <3>4
  <2>4. CASE call[c].viewer # g
    <3>1. RepliesBy(g)' = RepliesBy(g) BY <1>4, <1>8, <2>1, <2>4 DEF RepliesBy
    <3>2. Pending(g)' \subseteq Pending(g) BY <1>4, <2>2 DEF Pending
    <3> QED BY <1>3, <1>6, <3>1, <3>2
  <2> QED BY <2>3, <2>4
<1>9. ASSUME NEW p \in replies, NEW q \in Reply, replies' = (replies \ {p}) \cup {q},
             q.author = p.author, UNCHANGED call
      PROVE  Cardinality(RepliesBy(g))' + Cardinality(Pending(g))' < GuestReplyLimit + all
  <2>1. Pending(g)' \subseteq Pending(g) BY <1>4, <1>9 DEF Pending
  <2>2. CASE p.author = g
    <3>1. p \in RepliesBy(g) /\ RepliesBy(g)' = (RepliesBy(g) \ {p}) \cup {q}
      BY <1>4, <1>9, <2>2 DEF RepliesBy
    <3>2. Cardinality(RepliesBy(g)') \in Nat /\ Cardinality(RepliesBy(g)') <= n
      BY <1>2, <3>1, OneMore
    <3> QED BY <1>6, <2>1, <3>2
  <2>3. CASE p.author # g
    <3>1. RepliesBy(g)' = RepliesBy(g) BY <1>4, <1>9, <2>3 DEF RepliesBy
    <3> QED BY <1>3, <1>6, <2>1, <3>1
  <2> QED BY <2>2, <2>3
<1> QED BY <1>7, <1>8, <1>9, ReplyRows

---------------------------------------------------------------------------
(* The theorems *)

LEMMA InitInv == Init => IInv
<1> SUFFICES ASSUME Init PROVE IInv OBVIOUS
<1>1. TypeOK BY TypeInit
<1>2. replies = {} /\ \A c \in Calls : call[c].pc = "idle" BY DEF Init, IdleCall
<1>3. IsFiniteSet(replies) BY <1>2, FS_EmptySet
<1>4. CallsTyped /\ ReplyStored /\ ExclusionsHold
  BY <1>2 DEF CallsTyped, ReplyStored, ExclusionsHold
<1>5. OncePerViewer
  <2>1. \A r \in Requests : requests[r].author \notin Guests
    BY ViewerAssumption DEF Init, NoRequest, Viewers
  <2> QED BY <1>2, <2>1 DEF OncePerViewer
<1>6. BudgetHeld
  <2> SUFFICES ASSUME NEW g \in Guests
               PROVE  Cardinality(RepliesBy(g)) + Cardinality(Pending(g))
                        < GuestReplyLimit + Cardinality(Calls)
    BY DEF BudgetHeld
  <2>1. RepliesBy(g) = {} /\ Pending(g) = {} BY <1>2 DEF RepliesBy, Pending
  <2>2. Cardinality(RepliesBy(g)) = 0 /\ Cardinality(Pending(g)) = 0
    BY <2>1, FS_EmptySet
  <2> QED BY <2>2, PendingFinite, LimitAssumption
<1> QED BY <1>1, <1>3, <1>4, <1>5, <1>6 DEF IInv

LEMMA NextInv == IInv /\ [Next]_vars => IInv'
BY TypeStep, CallsTypedStep, FiniteStep, ReplyStoredStep, ExclusionsHoldStep,
   OncePerViewerStep, BudgetStep
DEF IInv

\* IInv holds in every reachable state of the handlers and the tables.
THEOREM InvariantHolds == Spec => []IInv
<1> QED BY InitInv, NextInv, PTL DEF Spec

\* The tables keep their types; in particular a guest never holds a request
\* (the check constraint answer_interactions_guest_skip_only).
THEOREM TypeCorrect == Spec => []TypeOK
<1>1. IInv => TypeOK BY DEF IInv
<1> QED BY <1>1, InvariantHolds, PTL

\* One reply per member and request, one request per guest, however many
\* submissions race (RepliesService.create, RequestsService.create).
THEOREM SubmissionsAreUnique == Spec => []OncePerViewer
<1>1. IInv => OncePerViewer BY DEF IInv
<1> QED BY <1>1, InvariantHolds, PTL

\* How far concurrent calls can take a guest past the global reply budget.
THEOREM GuestBudgetHolds == Spec => []GuestBudget
<1>1. ASSUME IInv PROVE GuestBudget
  <2> SUFFICES ASSUME NEW g \in Guests
               PROVE  Cardinality(RepliesBy(g)) < GuestReplyLimit + Cardinality(Calls)
    BY DEF GuestBudget
  <2>1. Cardinality(RepliesBy(g)) + Cardinality(Pending(g))
          < GuestReplyLimit + Cardinality(Calls)
    BY <1>1 DEF IInv, BudgetHeld
  <2>2. RepliesBy(g) \in SUBSET replies BY DEF RepliesBy
  <2>3. Cardinality(RepliesBy(g)) \in Nat
    BY <1>1, <2>2, FS_Subset, FS_CardinalityType DEF IInv
  <2> QED BY <2>1, <2>3, PendingFinite, LimitAssumption
<1> QED BY <1>1, InvariantHolds, PTL

\* What left a viewer's queue stays out of it (clearForViewer runs after the
\* reply is stored, and findExcludedRequestIds counts deleted replies).
THEOREM ExclusionIsForever == Spec => ExcludedForever
<1>1. IInv /\ [Next]_vars => [\A v \in Viewers : Excluded(v) \subseteq Excluded(v)']_vars
  BY ExclusionGrows DEF IInv
<1> QED BY <1>1, InvariantHolds, PTL DEF Spec, ExcludedForever

\* A handler finds a candidate only by one of the two queries.
LEMMA FindingStep ==
  ASSUME TypeOK, CallsTyped, [Next]_vars, NEW c \in Calls,
         call[c].pc # "found", call'[c].pc = "found"
  PROVE  QueryBelowCap(c) \/ QueryAll(c)
<1>1. ASSUME NEW d \in Calls, NEW new, call' = [call EXCEPT ![d] = new], new.pc # "found"
      PROVE  FALSE
  BY <1>1 DEF TypeOK
<1>2. ASSUME NEW d \in Calls, call' = [call EXCEPT ![d] = IdleCall] PROVE FALSE
  BY <1>1, <1>2 DEF IdleCall
<1>3. ASSUME NEW d \in Calls, NEW pc \in {"unreplied", "replied", "full"},
             call' = [call EXCEPT ![d] = [call[d] EXCEPT !.pc = pc]]
      PROVE  FALSE
  <2>1. [call[d] EXCEPT !.pc = pc].pc = pc BY DEF TypeOK, CallState
  <2> QED BY <1>1, <1>3, <2>1
<1>4. ASSUME NEW d \in Calls, NEW v, NEW known, call' = [call EXCEPT ![d] = QueueCall(v, known)]
      PROVE  FALSE
  <2>1. QueueCall(v, known).pc = "queue" BY DEF QueueCall, IdleCall
  <2> QED BY <1>1, <1>4, <2>1
<1>5. ASSUME NEW d \in Calls, NEW g \in Guests, FindGuestRequest(d, g) PROVE FALSE
  <2>1. [IdleCall EXCEPT !.pc = "creating", !.viewer = g].pc = "creating" BY DEF IdleCall
  <2> QED BY <1>1, <1>5, <2>1 DEF FindGuestRequest
<1>6. ASSUME NEW d \in Calls, NEW v \in Viewers, NEW r \in Requests, ReadRequest(d, v, r)
      PROVE  FALSE
  <2>1. [IdleCall EXCEPT !.pc = "visible", !.viewer = v, !.request = r].pc = "visible"
    BY DEF IdleCall
  <2> QED BY <1>1, <1>6, <2>1 DEF ReadRequest
<1>7. ASSUME NEW d \in Calls, CheckMember(d) \/ CheckGuest(d) PROVE FALSE
  BY <1>2, <1>3, <1>7 DEF CheckMember, CheckGuest
<1>8. ASSUME NEW d \in Calls, NEW part, ReadExcluded(d, part) PROVE FALSE
  <2>1. /\ call[d].pc = "queue"
        /\ call'[d].pc = call[d].pc
        /\ \A e \in Calls \ {d} : call'[e] = call[e]
    BY <1>8 DEF ReadExcluded, TypeOK, CallState
  <2> QED BY <2>1
<1>9. ASSUME NEW d \in Calls, QueryBelowCap(d) \/ QueryAll(d) PROVE d = c
  <2>1. \E new : call' = [call EXCEPT ![d] = new]
    BY <1>9 DEF QueryBelowCap, QueryAll, Offer
  <2> QED BY <2>1 DEF TypeOK
<1>10. ASSUME NEW d \in Calls, LocalStep(d) PROVE QueryBelowCap(c) \/ QueryAll(c)
  BY <1>2, <1>4, <1>5, <1>6, <1>7, <1>8, <1>9, <1>10
  DEF LocalStep, QueueStep, FetchQueue, Respond, CallFails
<1>11. ASSUME NEW d \in Calls,
              CreateGuestRequest(d) \/ InsertReply(d) \/ ClearInteraction(d)
       PROVE  FALSE
  BY <1>2, <1>3, <1>11, WritingCall
<1>12. ASSUME NEW d \in Calls, NEW v \in Viewers, NEW r \in Requests,
              Skip(d, v, r) \/ Hold(d, v, r)
       PROVE  FALSE
  BY <1>4, <1>12 DEF Skip, Hold
<1>13. ASSUME RowStep \/ UNCHANGED vars PROVE FALSE
  BY <1>13 DEF RowStep, vars, CreateMemberRequest, ModerateRequest, ModerateReply,
     MarkContentRemoved, Expire
<1> QED BY <1>10, <1>11, <1>12, <1>13, NextSteps

\* The cap is ignored only when everything the viewer could be offered has
\* reached it, at the moment of the offer (findQueueCandidate).
THEOREM CapHolds == Spec => CapIgnoredOnlyWhenAllFull
<1>1. ASSUME IInv, [Next]_vars, NEW c \in Calls,
             call[c].pc # "found", call'[c].pc = "found",
             ReplyCount(call'[c].request) >= QueueReplyCap,
             NEW q \in Eligible(call[c].viewer, Excluded(call[c].viewer))
      PROVE  ReplyCount(q) >= QueueReplyCap
  <2> DEFINE all == Eligible(call[c].viewer, call[c].excluded)
  <2>1. \A r : ReplyCount(r) \in Nat
    <3>1. \A r : {p \in replies : p.request = r /\ p.status = "visible"} \in SUBSET replies
      OBVIOUS
    <3> QED BY <1>1, <3>1, FS_Subset, FS_CardinalityType DEF IInv, ReplyCount
  <2>2. QueryBelowCap(c) \/ QueryAll(c) BY <1>1, FindingStep DEF IInv
  <2>3. q \in all
    <3>1. call[c].pc \in {"queue", "full"} BY <2>2 DEF QueryBelowCap, QueryAll
    <3>2. call[c].excluded \subseteq Excluded(call[c].viewer)
      BY <1>1, <3>1 DEF IInv, ExclusionsHold
    <3> QED BY <1>1, <3>2 DEF Eligible
  <2>4. ASSUME NEW S, Offer(c, S) PROVE IsFirst(call'[c].request, S)
    BY <1>1, <2>4 DEF Offer, IInv, TypeOK, CallState
  <2>5. CASE QueryBelowCap(c)
    <3>1. Offer(c, {r \in all : ReplyCount(r) < QueueReplyCap})
      <4>1. call' # [call EXCEPT ![c].pc = "full"]
        BY <1>1 DEF IInv, TypeOK, CallState
      <4> QED BY <2>5, <4>1 DEF QueryBelowCap
    <3>2. ReplyCount(call'[c].request) < QueueReplyCap BY <2>4, <3>1 DEF IsFirst
    <3> QED BY <1>1, <2>1, <3>2, LimitAssumption
  <2>6. CASE QueryAll(c)
    <3>1. Offer(c, all)
      <4>1. call' # [call EXCEPT ![c] = IdleCall]
        BY <1>1 DEF IInv, TypeOK, CallState, IdleCall
      <4> QED BY <2>6, <4>1 DEF QueryAll
    <3>2. q = call'[c].request \/ Before(call'[c].request, q)
      BY <2>3, <2>4, <3>1 DEF IsFirst
    <3>3. ReplyCount(q) >= ReplyCount(call'[c].request) BY <2>1, <3>2 DEF Before
    <3> QED BY <1>1, <2>1, <3>3, LimitAssumption
  <2> QED BY <2>2, <2>5, <2>6
<1>2. IInv /\ [Next]_vars =>
        [\A c \in Calls :
           /\ call[c].pc # "found" /\ call'[c].pc = "found"
           /\ ReplyCount(call'[c].request) >= QueueReplyCap
           => \A r \in Eligible(call[c].viewer, Excluded(call[c].viewer)) :
                ReplyCount(r) >= QueueReplyCap]_vars
  BY <1>1
<1> QED BY <1>2, InvariantHolds, PTL DEF Spec, CapIgnoredOnlyWhenAllFull

---------------------------------------------------------------------------
(* AnswerScreen: the types *)

LEMMA ScreenTyped ==
  ASSUME ScreenTypeOK
  PROVE  /\ taken \in [Candidates -> {"open", "skipped", "held"}]
         /\ stored \in [Candidates -> 0..MaxTexts]
         /\ queueCache \in QueueCache /\ heldCache \in HeldCache
         /\ dialog \in [kind : Kinds \ {"reply"}, request : Candidates \cup {None}]
         /\ active \in Candidates \cup {None} /\ loadingNext \in BOOLEAN
         /\ drafts \in [Candidates -> 0..MaxTexts]
         /\ acts \in [Acts -> ActState]
         /\ calls \in 0..MaxCalls
         /\ refetches \in Nat /\ mishaps \in Nat /\ refetches + mishaps <= MaxTroubles
         /\ HeldRequests \subseteq Candidates
         /\ Target \in Candidates \cup {None}
<1>1. Target \in Candidates \cup {None} BY DEF ScreenTypeOK, Target, QueueCache
<1>2. HeldRequests \subseteq Candidates BY DEF HeldRequests
<1> QED BY <1>1, <1>2 DEF ScreenTypeOK

LEMMA RestTyped == Rest \in ActState
<1>1. 0 \in 0..MaxTexts BY ScreenBoundsAssumption
<1> QED BY <1>1 DEF Rest, ActState, Kinds

LEMMA RefreshedTyped ==
  /\ \A cache \in QueueCache : Refreshed(cache) \in QueueCache
  /\ \A cache \in HeldCache : Refreshed(cache) \in HeldCache
<1>1. "sent" \in Phases BY DEF Phases
<1> QED BY <1>1 DEF Refreshed, QueueCache, HeldCache

LEMMA LaterTyped == ASSUME NEW loads \in 0..2 PROVE Later(loads) \in 0..2 /\ (Later(loads) = 2 => loads # 0)
BY DEF Later

\* What a query's answer, or its failure, does to the calls that await it.
LEMMA AwaitedTyped ==
  ASSUME ScreenTypeOK, NEW query \in {"queue", "held"}, acts' = Awaited(query)
  PROVE  /\ acts' \in [Acts -> ActState]
         /\ \A a \in Acts : /\ acts'[a].step = acts[a].step /\ acts'[a].kind = acts[a].kind
                            /\ acts'[a].request = acts[a].request
                            /\ acts'[a].text = acts[a].text
<1>1. acts \in [Acts -> ActState] BY ScreenTyped
<1>2. ASSUME NEW a \in Acts
      PROVE  /\ [acts[a] EXCEPT !.waits = @ \ {query}] \in ActState
             /\ acts'[a] = [acts[a] EXCEPT !.waits = @ \ {query}]
  <2>1. acts[a] \in ActState BY <1>1
  <2>2. acts[a].waits \ {query} \in SUBSET {"queue", "held"} BY <2>1 DEF ActState
  <2>3. [acts[a] EXCEPT !.waits = @ \ {query}] \in ActState
    BY <2>1, <2>2 DEF ActState
  <2>4. acts'[a] = [acts[a] EXCEPT !.waits = @ \ {query}] BY DEF Awaited
  <2> QED BY <2>3, <2>4
<1>3. acts' \in [Acts -> ActState] BY <1>2 DEF Awaited
<1>4. ASSUME NEW a \in Acts
      PROVE  /\ acts'[a].step = acts[a].step /\ acts'[a].kind = acts[a].kind
             /\ acts'[a].request = acts[a].request /\ acts'[a].text = acts[a].text
  <2>1. acts[a] \in ActState BY <1>1
  <2>2. acts'[a] = [acts[a] EXCEPT !.waits = @ \ {query}] BY <1>2
  <2> QED BY <2>1, <2>2 DEF ActState
<1> QED BY <1>3, <1>4

LEMMA DraftTyped ==
  ASSUME NEW texts \in [Candidates -> 0..MaxTexts], NEW request, NEW text \in 0..MaxTexts
  PROVE  [texts EXCEPT ![request] = text] \in [Candidates -> 0..MaxTexts]
OBVIOUS

\* A call as it is made.
LEMMA CallMade ==
  ASSUME NEW made \in ActState, NEW step \in {"leaving", "sent"}, NEW kind \in Kinds,
         NEW request \in Candidates \cup {None}, NEW text \in 0..MaxTexts, NEW was \in BOOLEAN
  PROVE  /\ [made EXCEPT !.step = step, !.kind = kind, !.request = request,
                         !.wasActive = was] \in ActState
         /\ [made EXCEPT !.step = step, !.kind = kind, !.request = request, !.text = text,
                         !.wasActive = was] \in ActState
<1>1. [made EXCEPT !.step = step, !.kind = kind, !.request = request, !.wasActive = was]
        \in ActState
  BY DEF ActState
<1>2. [made EXCEPT !.step = step, !.kind = kind, !.request = request, !.text = text,
                   !.wasActive = was] \in ActState
  BY DEF ActState
<1> QED BY <1>1, <1>2

LEMMA ConfirmTyped ==
  ASSUME ScreenTypeOK, NEW a \in Acts, Confirm(a)
  PROVE  /\ ScreenTypeOK'
         /\ \A b \in Acts \ {a} : acts'[b] = acts[b]
         /\ acts'[a].step = "leaving" /\ acts'[a].kind \in Kinds \ {"reply"}
         /\ acts'[a].request \in Candidates
<1>1. acts \in [Acts -> ActState] /\ calls \in 0..MaxCalls
      /\ dialog \in [kind : Kinds \ {"reply"}, request : Candidates \cup {None}]
  BY ScreenTyped
<1>2. calls' \in 0..MaxCalls BY <1>1, ScreenBoundsAssumption DEF Confirm
<1>3. PICK was \in BOOLEAN : was = (active = dialog.request) OBVIOUS
<1> DEFINE new == [Rest EXCEPT !.step = "leaving", !.kind = dialog.kind,
                               !.request = dialog.request, !.wasActive = was]
<1>4. acts' = [acts EXCEPT ![a] = new] BY <1>3, Zenon DEF Confirm
<1>5. dialog.kind \in Kinds \ {"reply"} /\ dialog.request \in Candidates BY <1>1 DEF Confirm
<1>6. new \in ActState
  <2>1. 0 \in 0..MaxTexts /\ dialog.kind \in Kinds
        /\ dialog.request \in Candidates \cup {None} /\ "leaving" \in {"leaving", "sent"}
    BY <1>5, ScreenBoundsAssumption
  <2> QED BY <1>3, <2>1, RestTyped, CallMade, Zenon
<1>7. new.step = "leaving" /\ new.kind = dialog.kind /\ new.request = dialog.request
  BY RestTyped DEF ActState
<1> HIDE DEF new
<1>8. acts' \in [Acts -> ActState] /\ acts'[a] = new BY <1>1, <1>4, <1>6
<1>9. dialog' \in [kind : Kinds \ {"reply"}, request : Candidates \cup {None}]
  BY DEF Confirm, NoDialog, Kinds
<1>10. ScreenTypeOK' BY <1>2, <1>8, <1>9 DEF Confirm, ScreenTypeOK, server, caches
<1>11. \A b \in Acts \ {a} : acts'[b] = acts[b] BY <1>1, <1>4
<1> QED BY <1>5, <1>7, <1>8, <1>10, <1>11

LEMMA SubmitTyped ==
  ASSUME ScreenTypeOK, NEW a \in Acts, Submit(a)
  PROVE  /\ ScreenTypeOK'
         /\ \A b \in Acts \ {a} : acts'[b] = acts[b]
         /\ Target \in Candidates
         /\ acts'[a].step = "sent" /\ acts'[a].kind = "reply"
         /\ acts'[a].request = Target /\ acts'[a].text = drafts[Target]
<1>1. acts \in [Acts -> ActState] /\ calls \in 0..MaxCalls
      /\ Target \in Candidates \cup {None} /\ drafts \in [Candidates -> 0..MaxTexts]
  BY ScreenTyped
<1>2. calls' \in 0..MaxCalls BY <1>1, ScreenBoundsAssumption DEF Submit
<1>3. Target \in Candidates BY <1>1 DEF Submit, CanType
<1>4. PICK was \in BOOLEAN : was = (active = Target) OBVIOUS
<1> DEFINE new == [Rest EXCEPT !.step = "sent", !.kind = "reply", !.request = Target,
                               !.text = drafts[Target], !.wasActive = was]
<1>5. acts' = [acts EXCEPT ![a] = new] BY <1>4, Zenon DEF Submit
<1>6. "reply" \in Kinds /\ drafts[Target] \in 0..MaxTexts BY <1>1, <1>3 DEF Kinds
<1>7. new \in ActState BY <1>3, <1>6, RestTyped, CallMade
<1>8. new.step = "sent" /\ new.kind = "reply" /\ new.request = Target
      /\ new.text = drafts[Target]
  BY RestTyped DEF ActState
<1> HIDE DEF new
<1>9. acts' \in [Acts -> ActState] /\ acts'[a] = new BY <1>1, <1>5, <1>7
<1>10. ScreenTypeOK' BY <1>2, <1>9 DEF Submit, ScreenTypeOK, server, caches, view
<1>11. \A b \in Acts \ {a} : acts'[b] = acts[b] BY <1>1, <1>5
<1> QED BY <1>3, <1>8, <1>9, <1>10, <1>11

LEMMA HandledTyped ==
  ASSUME ScreenTypeOK, NEW a \in Acts,
         Leave(a) \/ HandleReply(a) \/ HandleQueue(a) \/ HandleReport(a)
  PROVE  ScreenTypeOK'
<1>1. acts \in [Acts -> ActState] /\ acts[a] \in ActState
      /\ taken \in [Candidates -> {"open", "skipped", "held"}]
      /\ stored \in [Candidates -> 0..MaxTexts]
  BY ScreenTyped
<1>2. acts[a].text \in 0..MaxTexts /\ acts[a].request \in Candidates \cup {None}
  BY <1>1 DEF ActState
<1>3. CASE Leave(a)
  <2>1. acts' \in [Acts -> ActState] BY <1>1, <1>3 DEF Leave, ActState
  <2> QED BY <1>3, <2>1 DEF Leave, ScreenTypeOK, server, caches, budgets
<1>4. CASE HandleReply(a)
  <2>1. acts' \in [Acts -> ActState] BY <1>1, <1>4 DEF HandleReply, ActState
  <2>2. stored' \in [Candidates -> 0..MaxTexts]
        /\ taken' \in [Candidates -> {"open", "skipped", "held"}]
    BY <1>1, <1>2, <1>4 DEF HandleReply
  <2> QED BY <1>4, <2>1, <2>2 DEF HandleReply, ScreenTypeOK, caches, view, budgets
<1>5. CASE HandleQueue(a)
  <2>1. taken' \in [Candidates -> {"open", "skipped", "held"}] BY <1>1, <1>5 DEF HandleQueue
  <2>2. PICK next \in MayOffer(stored, taken') :
          acts' = [acts EXCEPT ![a].step = "handled", ![a].got = next]
    BY <1>5 DEF HandleQueue
  <2>3. next \in Candidates \cup {None} BY <2>2 DEF MayOffer
  <2>4. [acts[a] EXCEPT !.step = "handled", !.got = next] \in ActState
    BY <1>1, <2>3 DEF ActState
  <2>5. acts' = [acts EXCEPT ![a] = [acts[a] EXCEPT !.step = "handled", !.got = next]]
    BY <1>1, <2>2
  <2>6. acts' \in [Acts -> ActState] BY <1>1, <2>4, <2>5
  <2> QED BY <1>5, <2>1, <2>6 DEF HandleQueue, ScreenTypeOK, caches, view, budgets
<1>6. CASE HandleReport(a)
  <2>1. acts' \in [Acts -> ActState] BY <1>1, <1>6 DEF HandleReport, ActState
  <2> QED BY <1>6, <2>1 DEF HandleReport, ScreenTypeOK, server, caches, view, budgets
<1> QED BY <1>3, <1>4, <1>5, <1>6

LEMMA AnsweredTyped ==
  ASSUME ScreenTypeOK, NEW a \in Acts,
         ReplyAnswered(a) \/ Finish(a) \/ QueueAnswered(a) \/ ReportAnswered(a) \/ ActFails(a)
  PROVE  ScreenTypeOK'
<1>1. acts \in [Acts -> ActState] /\ acts[a] \in ActState
      /\ queueCache \in QueueCache /\ heldCache \in HeldCache
      /\ active \in Candidates \cup {None} /\ drafts \in [Candidates -> 0..MaxTexts]
  BY ScreenTyped
<1>2. Refreshed(queueCache) \in QueueCache /\ Refreshed(heldCache) \in HeldCache
  BY <1>1, RefreshedTyped
<1>3. [acts EXCEPT ![a] = Rest] \in [Acts -> ActState] BY <1>1, RestTyped
<1>4. CASE ReplyAnswered(a)
  <2>1. [acts[a] EXCEPT !.step = "settling", !.waits = {"queue", "held"}] \in ActState
    BY <1>1 DEF ActState
  <2>2. acts' = [acts EXCEPT ![a] =
                   [acts[a] EXCEPT !.step = "settling", !.waits = {"queue", "held"}]]
    BY <1>1, <1>4 DEF ReplyAnswered
  <2>3. acts' \in [Acts -> ActState] BY <1>1, <2>1, <2>2
  <2> QED BY <1>2, <1>4, <2>3 DEF ReplyAnswered, ScreenTypeOK, server, view, budgets
<1>5. CASE Finish(a)
  <2>1. drafts' \in [Candidates -> 0..MaxTexts]
    <3>1. 0 \in 0..MaxTexts BY ScreenBoundsAssumption
    <3> QED BY <1>1, <1>5, <3>1, DraftTyped DEF Finish
  <2>2. active' \in Candidates \cup {None} BY <1>1, <1>5 DEF Finish
  <2> QED BY <1>3, <1>5, <2>1, <2>2 DEF Finish, ScreenTypeOK, server, caches, budgets
<1>6. CASE QueueAnswered(a)
  <2>1. queueCache' \in QueueCache
    <3>1. acts[a].got \in Candidates \cup {None} BY <1>1 DEF ActState
    <3>2. Later(queueCache.loads) \in 0..2 BY <1>1, LaterTyped DEF QueueCache
    <3>3. [[queueCache EXCEPT !.data = acts[a].got] EXCEPT !.loads = Later(queueCache.loads)]
            \in QueueCache
      BY <1>1, <3>1, <3>2 DEF QueueCache
    <3>4. queueCache' = [[queueCache EXCEPT !.data = acts[a].got]
                           EXCEPT !.loads = Later(queueCache.loads)]
      BY <1>1, <1>6 DEF QueueAnswered, QueueCache
    <3> QED BY <3>3, <3>4
  <2>2. heldCache' \in HeldCache BY <1>1, <1>2, <1>6 DEF QueueAnswered
  <2>3. active' \in Candidates \cup {None} /\ loadingNext' \in BOOLEAN
    BY <1>1, <1>6 DEF QueueAnswered
  <2> QED BY <1>3, <1>6, <2>1, <2>2, <2>3 DEF QueueAnswered, ScreenTypeOK, server, budgets
<1>7. CASE ReportAnswered(a)
  BY <1>2, <1>3, <1>7 DEF ReportAnswered, ScreenTypeOK, server, budgets
<1>8. CASE ActFails(a)
  <2>1. refetches \in Nat /\ mishaps' \in Nat /\ refetches + mishaps' <= MaxTroubles
    BY <1>8, ScreenTyped, ScreenBoundsAssumption DEF ActFails
  <2>2. loadingNext' \in BOOLEAN BY <1>8, ScreenTyped DEF ActFails
  <2> QED BY <1>3, <1>8, <2>1, <2>2 DEF ActFails, ScreenTypeOK, server, caches
<1> QED BY <1>4, <1>5, <1>6, <1>7, <1>8

LEMMA QueryTyped == ASSUME ScreenTypeOK, Query PROVE ScreenTypeOK'
<1>1. /\ queueCache \in QueueCache /\ heldCache \in HeldCache
      /\ refetches \in Nat /\ mishaps \in Nat /\ refetches + mishaps <= MaxTroubles
      /\ HeldRequests \subseteq Candidates
  BY ScreenTyped
<1>2. {"none", "sent", "read"} = Phases BY DEF Phases
<1>3. CASE Refetch
  <2>1. queueCache' \in QueueCache /\ heldCache' \in HeldCache
    BY <1>1, <1>2, <1>3 DEF Refetch, QueueCache, HeldCache
  <2>2. refetches' \in Nat /\ refetches' + mishaps <= MaxTroubles
    BY <1>1, <1>3, ScreenBoundsAssumption DEF Refetch
  <2> QED BY <1>3, <2>1, <2>2 DEF Refetch, ScreenTypeOK, server, view
<1>4. CASE ReadQueue
  <2>1. PICK next \in MayOffer(stored, taken) :
          queueCache' = [queueCache EXCEPT !.fetch = "read", !.got = next]
    BY <1>4 DEF ReadQueue
  <2>2. next \in Candidates \cup {None} BY <2>1 DEF MayOffer
  <2>3. queueCache' \in QueueCache BY <1>1, <1>2, <2>1, <2>2 DEF QueueCache
  <2> QED BY <1>4, <2>3 DEF ReadQueue, ScreenTypeOK, server, view, budgets
<1>5. CASE ReadHeld
  <2>1. heldCache' \in HeldCache BY <1>1, <1>2, <1>5 DEF ReadHeld, HeldCache
  <2> QED BY <1>5, <2>1 DEF ReadHeld, ScreenTypeOK, server, view, budgets
<1>6. CASE QueueArrives
  <2>1. acts' \in [Acts -> ActState] BY <1>6, AwaitedTyped DEF QueueArrives
  <2>2. Later(queueCache.loads) \in 0..2 BY <1>1, LaterTyped DEF QueueCache
  <2>3. queueCache' \in QueueCache BY <1>1, <1>2, <1>6, <2>2 DEF QueueArrives, QueueCache
  <2> QED BY <1>6, <2>1, <2>3 DEF QueueArrives, ScreenTypeOK, server, view, budgets
<1>7. CASE HeldArrives
  <2>1. acts' \in [Acts -> ActState] BY <1>7, AwaitedTyped DEF HeldArrives
  <2>2. Later(heldCache.loads) \in 0..2 BY <1>1, LaterTyped DEF HeldCache
  <2>3. heldCache' \in HeldCache BY <1>1, <1>2, <1>7, <2>2 DEF HeldArrives, HeldCache
  <2> QED BY <1>7, <2>1, <2>3 DEF HeldArrives, ScreenTypeOK, server, view, budgets
<1>8. CASE FetchFails
  <2>1. mishaps' \in Nat /\ refetches + mishaps' <= MaxTroubles
    BY <1>1, <1>8, ScreenBoundsAssumption DEF FetchFails
  <2>2. acts' \in [Acts -> ActState] BY <1>8, AwaitedTyped DEF FetchFails
  <2>3. queueCache' \in QueueCache
    <3>1. queueCache' = queueCache \/ queueCache' = [queueCache EXCEPT !.fetch = "none", !.got = None]
      BY <1>8 DEF FetchFails
    <3>2. [queueCache EXCEPT !.fetch = "none", !.got = None] \in QueueCache
      BY <1>1, <1>2 DEF QueueCache
    <3> QED BY <1>1, <3>1, <3>2
  <2>4. heldCache' \in HeldCache
    <3>1. heldCache' = heldCache \/ heldCache' = [heldCache EXCEPT !.fetch = "none", !.got = {}]
      BY <1>8 DEF FetchFails
    <3> QED BY <1>1, <1>2, <3>1 DEF HeldCache
  <2> QED BY <1>8, <2>1, <2>2, <2>3, <2>4 DEF FetchFails, ScreenTypeOK, server, view
<1> QED BY <1>3, <1>4, <1>5, <1>6, <1>7, <1>8 DEF Query

\* What the member does by hand.
Member ==
  \/ \E text \in 1..MaxTexts : Type(text)
  \/ \E r \in Candidates : OpenHeld(r)
  \/ CloseHeld
  \/ \E kind \in Kinds \ {"reply"} : Ask(kind)
  \/ Cancel

LEMMA MemberTyped == ASSUME ScreenTypeOK, Member PROVE ScreenTypeOK'
<1>1. active \in Candidates \cup {None} /\ drafts \in [Candidates -> 0..MaxTexts]
      /\ Target \in Candidates \cup {None}
  BY ScreenTyped
<1>2. ASSUME NEW text \in 1..MaxTexts, Type(text) PROVE ScreenTypeOK'
  <2>1. text \in 0..MaxTexts BY ScreenBoundsAssumption
  <2>2. drafts' \in [Candidates -> 0..MaxTexts] BY <1>1, <1>2, <2>1, DraftTyped DEF Type
  <2> QED BY <1>2, <2>2 DEF Type, ScreenTypeOK, server, caches, budgets
<1>3. ASSUME NEW r \in Candidates, OpenHeld(r) PROVE ScreenTypeOK'
  BY <1>3 DEF OpenHeld, ScreenTypeOK, server, caches, budgets
<1>4. CASE CloseHeld BY <1>4 DEF CloseHeld, ScreenTypeOK, server, caches, budgets
<1>5. ASSUME NEW kind \in Kinds \ {"reply"}, Ask(kind) PROVE ScreenTypeOK'
  BY <1>1, <1>5 DEF Ask, ScreenTypeOK, server, caches, budgets
<1>6. CASE Cancel BY <1>6 DEF Cancel, NoDialog, Kinds, ScreenTypeOK, server, caches, budgets
<1> QED BY <1>2, <1>3, <1>4, <1>5, <1>6 DEF Member

LEMMA ScreenInitTyped == ScreenInit => ScreenTypeOK
<1> SUFFICES ASSUME ScreenInit PROVE ScreenTypeOK OBVIOUS
<1>1. 0 \in 0..MaxTexts /\ 0 \in 0..MaxCalls BY ScreenBoundsAssumption
<1>2. queueCache \in QueueCache /\ heldCache \in HeldCache
  BY DEF ScreenInit, QueueCache, HeldCache, Phases
<1>3. acts \in [Acts -> ActState] BY RestTyped DEF ScreenInit
<1>4. dialog \in [kind : Kinds \ {"reply"}, request : Candidates \cup {None}]
  BY DEF ScreenInit, NoDialog, Kinds
<1>5. refetches \in Nat /\ mishaps \in Nat /\ refetches + mishaps <= MaxTroubles
  BY ScreenBoundsAssumption DEF ScreenInit
<1> QED BY <1>1, <1>2, <1>3, <1>4, <1>5 DEF ScreenInit, ScreenTypeOK

LEMMA ScreenNextTyped == ScreenTypeOK /\ [ScreenNext]_screenVars => ScreenTypeOK'
<1> SUFFICES ASSUME ScreenTypeOK, [ScreenNext]_screenVars PROVE ScreenTypeOK' OBVIOUS
<1>1. CASE UNCHANGED screenVars BY <1>1 DEF screenVars, ScreenTypeOK
<1>2. CASE Member BY <1>2, MemberTyped
<1>3. ASSUME NEW a \in Acts, Act(a) PROVE ScreenTypeOK'
  BY <1>3, ConfirmTyped, SubmitTyped, HandledTyped, AnsweredTyped DEF Act
<1>4. CASE Query BY <1>4, QueryTyped
<1> QED BY <1>1, <1>2, <1>3, <1>4 DEF ScreenNext, Member

\* The server's rows, the caches, the calls and the drafts keep to their types.
THEOREM ScreenTypeSound == ScreenSpec => []ScreenTypeOK
BY ScreenInitTyped, ScreenNextTyped, PTL DEF ScreenSpec

---------------------------------------------------------------------------
(* AnswerScreen: what a step does to the calls *)

LEMMA RestIsIdle == Rest.step = "idle"
BY DEF Rest

LEMMA OtherCallsKept ==
  ASSUME ScreenTypeOK, NEW a \in Acts, Act(a), NEW b \in Acts, b # a
  PROVE  acts'[b] = acts[b]
<1>1. acts \in [Acts -> ActState] BY ScreenTyped
<1>2. CASE Confirm(a) BY <1>2, ConfirmTyped
<1>3. CASE Submit(a) BY <1>3, SubmitTyped
<1>4. CASE Leave(a) \/ HandleReply(a) \/ HandleQueue(a) \/ HandleReport(a)
  BY <1>1, <1>4 DEF Leave, HandleReply, HandleQueue, HandleReport
<1>5. CASE ReplyAnswered(a) \/ Finish(a) \/ QueueAnswered(a) \/ ReportAnswered(a)
           \/ ActFails(a)
  BY <1>1, <1>5 DEF ReplyAnswered, Finish, QueueAnswered, ReportAnswered, ActFails
<1> QED BY <1>2, <1>3, <1>4, <1>5 DEF Act

LEMMA CallEnds ==
  ASSUME ScreenTypeOK, NEW a \in Acts,
         Finish(a) \/ QueueAnswered(a) \/ ReportAnswered(a) \/ ActFails(a)
  PROVE  acts'[a].step = "idle"
<1>1. acts \in [Acts -> ActState] BY ScreenTyped
<1>2. acts' = [acts EXCEPT ![a] = Rest]
  BY DEF Finish, QueueAnswered, ReportAnswered, ActFails
<1> QED BY <1>1, <1>2, RestIsIdle

LEMMA CallGoesOn ==
  ASSUME ScreenTypeOK, NEW a \in Acts,
         Leave(a) \/ HandleReply(a) \/ HandleQueue(a) \/ HandleReport(a) \/ ReplyAnswered(a)
  PROVE  /\ acts'[a].kind = acts[a].kind /\ acts'[a].request = acts[a].request
         /\ acts'[a].text = acts[a].text
         /\ Leave(a) => acts'[a].step = "sent"
         /\ HandleReply(a) \/ HandleQueue(a) \/ HandleReport(a) => acts'[a].step = "handled"
         /\ ReplyAnswered(a) => acts'[a].step = "settling"
<1>1. acts \in [Acts -> ActState] /\ acts[a] \in ActState BY ScreenTyped
<1>2. CASE Leave(a) BY <1>1, <1>2 DEF Leave, ActState, HandleReply, HandleQueue, HandleReport, ReplyAnswered
<1>3. CASE HandleReply(a) \/ HandleReport(a)
  <2>1. acts' = [acts EXCEPT ![a].step = "handled"] BY <1>3 DEF HandleReply, HandleReport
  <2>2. ~Leave(a) /\ ~ReplyAnswered(a)
    BY <1>3 DEF HandleReply, HandleReport, Leave, ReplyAnswered
  <2> QED BY <1>1, <2>1, <2>2 DEF ActState
<1>4. CASE HandleQueue(a)
  <2>1. PICK next \in MayOffer(stored, taken') :
          acts' = [acts EXCEPT ![a].step = "handled", ![a].got = next]
    BY <1>4 DEF HandleQueue
  <2>2. acts'[a] = [acts[a] EXCEPT !.step = "handled", !.got = next] BY <1>1, <2>1
  <2>3. ~Leave(a) /\ ~ReplyAnswered(a) BY <1>4 DEF HandleQueue, Leave, ReplyAnswered
  <2> QED BY <1>1, <2>2, <2>3 DEF ActState
<1>5. CASE ReplyAnswered(a)
  <2>1. acts' = [acts EXCEPT ![a].step = "settling", ![a].waits = {"queue", "held"}]
    BY <1>5 DEF ReplyAnswered
  <2>2. acts'[a] = [acts[a] EXCEPT !.step = "settling", !.waits = {"queue", "held"}]
    BY <1>1, <2>1
  <2>3. ~Leave(a) /\ ~HandleReply(a) /\ ~HandleQueue(a) /\ ~HandleReport(a)
    BY <1>5 DEF ReplyAnswered, Leave, HandleReply, HandleQueue, HandleReport
  <2> QED BY <1>1, <2>2, <2>3 DEF ActState
<1> QED BY <1>2, <1>3, <1>4, <1>5

---------------------------------------------------------------------------
(* AnswerScreen: the reply that is under way *)

IsReply(a) == acts[a].kind = "reply" /\ acts[a].step # "idle"

\* A reply under way carries the draft as it is, the server stores that text,
\* and there is one such reply at a time.
RepliesSound ==
  /\ \A a \in Acts : IsReply(a) =>
       /\ acts[a].step # "leaving" /\ acts[a].request \in Candidates
       /\ acts[a].text # 0 /\ drafts[acts[a].request] = acts[a].text
       /\ acts[a].step \in {"handled", "settling"} => stored[acts[a].request] = acts[a].text
  /\ \A a \in Acts : acts[a].step = "settling" => acts[a].kind = "reply"
  /\ \A a, b \in Acts : IsReply(a) /\ IsReply(b) => a = b

\* What a step must leave of the replies under way, those it ends aside.
LEMMA RepliesInherited ==
  ASSUME RepliesSound,
         \A b \in Acts : IsReply(b)' =>
           /\ IsReply(b) /\ acts'[b].step # "leaving"
           /\ acts'[b].request = acts[b].request /\ acts'[b].text = acts[b].text
           /\ drafts'[acts[b].request] = drafts[acts[b].request]
           /\ acts'[b].step \in {"handled", "settling"} =>
                stored'[acts[b].request] = acts[b].text,
         \A b \in Acts : acts'[b].step = "settling" => acts'[b].kind = "reply"
  PROVE  RepliesSound'
BY DEF RepliesSound, IsReply

LEMMA RepliesInit == ScreenInit => RepliesSound
BY RestIsIdle DEF ScreenInit, RepliesSound, IsReply

\* A step of a call that is not a reply's sending or answer.
LEMMA RepliesKeptByCall ==
  ASSUME ScreenTypeOK, RepliesSound, NEW a \in Acts, Act(a)
  PROVE  RepliesSound'
<1>1. \A b \in Acts : b # a => acts'[b] = acts[b] BY OtherCallsKept
<1>2. CASE Confirm(a)
  <2>1. acts'[a].kind # "reply" /\ acts'[a].step = "leaving" BY <1>2, ConfirmTyped
  <2>2. drafts' = drafts /\ stored' = stored BY <1>2 DEF Confirm, server
  <2> QED BY <1>1, <2>1, <2>2, RepliesInherited DEF RepliesSound, IsReply
<1>3. CASE Submit(a)
  <2>1. Target \in Candidates /\ acts'[a].step = "sent" /\ acts'[a].kind = "reply"
        /\ acts'[a].request = Target /\ acts'[a].text = drafts[Target]
    BY <1>3, SubmitTyped
  <2>2. drafts' = drafts /\ stored' = stored /\ drafts[Target] # 0
    BY <1>3 DEF Submit, server, view
  <2>3. \A b \in Acts : ~IsReply(b) BY <1>3 DEF Submit, Submitting, IsReply
  <2>4. \A b \in Acts : IsReply(b)' => b = a BY <1>1, <2>3 DEF IsReply
  <2> QED BY <1>1, <2>1, <2>2, <2>4 DEF RepliesSound, IsReply
<1>4. CASE Leave(a)
  <2>1. acts'[a].kind = acts[a].kind /\ acts'[a].step = "sent" BY <1>4, CallGoesOn
  <2>2. acts[a].kind # "reply" BY <1>4 DEF Leave, RepliesSound, IsReply
  <2>3. drafts' = drafts /\ stored' = stored BY <1>4 DEF Leave, server
  <2> QED BY <1>1, <2>1, <2>2, <2>3, RepliesInherited DEF RepliesSound, IsReply
<1>5. CASE HandleReply(a)
  <2>1. acts'[a].kind = acts[a].kind /\ acts'[a].step = "handled"
        /\ acts'[a].request = acts[a].request /\ acts'[a].text = acts[a].text
    BY <1>5, CallGoesOn
  <2>2. drafts' = drafts BY <1>5 DEF HandleReply, view
  <2>3. IsReply(a) BY <1>5 DEF HandleReply, IsReply
  <2>4. stored'[acts[a].request] = acts[a].text
    BY <1>5, <2>3, ScreenTyped DEF HandleReply, RepliesSound
  <2>5. \A b \in Acts : IsReply(b)' => b = a BY <1>1, <2>3 DEF IsReply, RepliesSound
  <2>6. \A b \in Acts : acts'[b].step = "settling" => acts'[b].kind = "reply"
    BY <1>1, <2>1 DEF RepliesSound
  <2> QED BY <2>1, <2>2, <2>3, <2>4, <2>5, <2>6, RepliesInherited
<1>6. CASE HandleQueue(a) \/ HandleReport(a)
  <2>1. acts'[a].kind = acts[a].kind /\ acts'[a].step = "handled" BY <1>6, CallGoesOn
  <2>2. acts[a].kind # "reply" BY <1>6 DEF HandleQueue, HandleReport
  <2>3. drafts' = drafts /\ stored' = stored
    BY <1>6 DEF HandleQueue, HandleReport, server, view
  <2> QED BY <1>1, <2>1, <2>2, <2>3, RepliesInherited DEF RepliesSound, IsReply
<1>7. CASE ReplyAnswered(a)
  <2>1. acts'[a].kind = acts[a].kind /\ acts'[a].step = "settling"
        /\ acts'[a].request = acts[a].request /\ acts'[a].text = acts[a].text
    BY <1>7, CallGoesOn
  <2>2. acts[a].kind = "reply" /\ acts[a].step = "handled" BY <1>7 DEF ReplyAnswered
  <2>3. drafts' = drafts /\ stored' = stored BY <1>7 DEF ReplyAnswered, server, view
  <2> QED BY <1>1, <2>1, <2>2, <2>3, RepliesInherited DEF RepliesSound, IsReply
<1>8. CASE Finish(a)
  <2>1. acts'[a].step = "idle" BY <1>8, CallEnds
  <2>2. IsReply(a) BY <1>8 DEF Finish, RepliesSound, IsReply
  <2>3. \A b \in Acts : ~IsReply(b)' BY <1>1, <2>1, <2>2 DEF RepliesSound, IsReply
  <2>4. \A b \in Acts : acts'[b].step = "settling" => acts'[b].kind = "reply"
    BY <1>1, <2>1 DEF RepliesSound
  <2> QED BY <2>3, <2>4, RepliesInherited
<1>9. CASE QueueAnswered(a) \/ ReportAnswered(a) \/ ActFails(a)
  <2>1. acts'[a].step = "idle" BY <1>9, CallEnds
  <2>2. drafts' = drafts /\ stored' = stored
    BY <1>9 DEF QueueAnswered, ReportAnswered, ActFails, server
  <2> QED BY <1>1, <2>1, <2>2, RepliesInherited DEF RepliesSound, IsReply
<1> QED BY <1>2, <1>3, <1>4, <1>5, <1>6, <1>7, <1>8, <1>9 DEF Act

LEMMA DraftRepliesKept ==
  ASSUME ScreenTypeOK, RepliesSound, [ScreenNext]_screenVars
  PROVE  RepliesSound'
<1>1. CASE UNCHANGED screenVars BY <1>1 DEF screenVars, RepliesSound, IsReply
<1>2. ASSUME NEW text \in 1..MaxTexts, Type(text) PROVE RepliesSound'
  <2>1. acts' = acts /\ \A b \in Acts : ~IsReply(b)
    BY <1>2 DEF Type, CanType, Submitting, IsReply
  <2> QED BY <2>1 DEF RepliesSound, IsReply
<1>3. CASE \/ \E r \in Candidates : OpenHeld(r)
           \/ CloseHeld \/ Cancel
           \/ \E kind \in Kinds \ {"reply"} : Ask(kind)
  <2>1. acts' = acts /\ drafts' = drafts /\ stored' = stored
    BY <1>3 DEF OpenHeld, CloseHeld, Cancel, Ask, server
  <2> QED BY <2>1 DEF RepliesSound, IsReply
<1>4. ASSUME NEW a \in Acts, Act(a) PROVE RepliesSound' BY <1>4, RepliesKeptByCall
<1>5. CASE Query
  <2>1. drafts' = drafts /\ stored' = stored
    BY <1>5 DEF Query, ReadQueue, ReadHeld, QueueArrives, HeldArrives, FetchFails, Refetch,
                server, view
  <2>2. \A b \in Acts : acts'[b].step = acts[b].step /\ acts'[b].kind = acts[b].kind
                        /\ acts'[b].request = acts[b].request /\ acts'[b].text = acts[b].text
    <3>1. CASE ReadQueue \/ ReadHeld \/ Refetch BY <3>1 DEF ReadQueue, ReadHeld, Refetch
    <3>2. CASE QueueArrives \/ HeldArrives \/ FetchFails
      BY <3>2, AwaitedTyped DEF QueueArrives, HeldArrives, FetchFails
    <3> QED BY <1>5, <3>1, <3>2 DEF Query
  <2> QED BY <2>1, <2>2 DEF RepliesSound, IsReply
<1> QED BY <1>1, <1>2, <1>3, <1>4, <1>5 DEF ScreenNext

\* A draft is emptied by the answer to its reply alone, and the server has the text.
LEMMA DraftsKept ==
  ASSUME ScreenTypeOK, RepliesSound, [ScreenNext]_screenVars,
         NEW r \in Candidates, drafts[r] # 0, drafts'[r] = 0
  PROVE  stored[r] = drafts[r]
<1>0. drafts' # drafts OBVIOUS
<1>1. drafts \in [Candidates -> 0..MaxTexts] BY ScreenTyped
<1>2. ~UNCHANGED screenVars BY <1>0 DEF screenVars
<1>3. ASSUME NEW text \in 1..MaxTexts, Type(text) PROVE FALSE
  <2>1. text # 0 BY <1>3
  <2>2. drafts' = [drafts EXCEPT ![Target] = text] BY <1>3 DEF Type
  <2> QED BY <1>1, <2>1, <2>2
<1>4. ~\/ \E q \in Candidates : OpenHeld(q)
       \/ CloseHeld \/ Cancel
       \/ \E kind \in Kinds \ {"reply"} : Ask(kind)
  BY <1>0 DEF OpenHeld, CloseHeld, Cancel, Ask
<1>5. ~Query
  BY <1>0 DEF Query, ReadQueue, ReadHeld, QueueArrives, HeldArrives, FetchFails, Refetch, view
<1>6. ASSUME NEW a \in Acts, Act(a) PROVE stored[r] = drafts[r]
  <2>1. Finish(a)
    BY <1>0, <1>6 DEF Act, Confirm, Leave, Submit, HandleReply, HandleQueue, HandleReport,
                      ReplyAnswered, QueueAnswered, ReportAnswered, ActFails, view
  <2>2. IsReply(a) /\ acts[a].step = "settling" BY <2>1 DEF Finish, RepliesSound, IsReply
  <2>3. drafts' = [drafts EXCEPT ![acts[a].request] = 0] BY <2>1 DEF Finish
  <2>4. r = acts[a].request BY <1>1, <2>3
  <2> QED BY <2>2, <2>4 DEF RepliesSound
<1> QED BY <1>2, <1>3, <1>4, <1>5, <1>6 DEF ScreenNext

\* No text of a reply is lost: a draft is emptied only when the server has stored that
\* very text (useAnswerQueue, submitReply).
THEOREM DraftsAreStored == ScreenSpec => DraftIsStored
<1>1. ScreenInit => ScreenTypeOK /\ RepliesSound BY ScreenInitTyped, RepliesInit
<1>2. ScreenTypeOK /\ RepliesSound /\ [ScreenNext]_screenVars => (ScreenTypeOK /\ RepliesSound)'
  BY ScreenNextTyped, DraftRepliesKept
<1>3. ScreenTypeOK /\ RepliesSound /\ [ScreenNext]_screenVars
        => [\A r \in Candidates :
              drafts[r] # 0 /\ drafts'[r] = 0 => stored[r] = drafts[r]]_screenVars
  BY DraftsKept
<1> QED BY <1>1, <1>2, <1>3, PTL DEF ScreenSpec, DraftIsStored

---------------------------------------------------------------------------
(* AnswerScreen: the held requests and their panel *)

\* The answer to the hold of r has not arrived.
HoldUnderWay(r) ==
  \E a \in Acts : acts[a].kind = "hold" /\ acts[a].step = "handled" /\ acts[a].request = r

\* The panel's query has r, or what it has does not count yet: it is asked anew, or
\* was never given data.
PanelKnows(r) ==
  /\ heldCache.fetch = "none" /\ heldCache.loads = 2 => r \in heldCache.data
  /\ heldCache.fetch = "read" /\ heldCache.loads # 0 => r \in heldCache.got

HoldsSound == mishaps = 0 => \A r \in HeldRequests : HoldUnderWay(r) \/ PanelKnows(r)

LEMMA HoldsInit == ScreenInit => HoldsSound
BY DEF ScreenInit, HoldsSound, HeldRequests

\* A step that ends no hold and leaves the panel's query alone.
LEMMA HoldsInherited ==
  ASSUME HoldsSound, mishaps' = mishaps, heldCache' = heldCache,
         \A r \in HeldRequests' : r \in HeldRequests \/ HoldUnderWay(r)',
         \A a \in Acts : acts[a].kind = "hold" /\ acts[a].step = "handled" =>
           /\ acts'[a].kind = "hold" /\ acts'[a].step = "handled"
           /\ acts'[a].request = acts[a].request
  PROVE  HoldsSound'
BY DEF HoldsSound, HoldUnderWay, PanelKnows

\* A step after which the panel is being asked anew.
LEMMA HoldsAskedAgain ==
  ASSUME heldCache \in HeldCache, heldCache' = Refreshed(heldCache),
         NEW r
  PROVE  PanelKnows(r)' \/ (heldCache' = heldCache /\ heldCache.loads = 0)
BY DEF Refreshed, PanelKnows, HeldCache

LEMMA HoldsKeptByCall ==
  ASSUME ScreenTypeOK, HoldsSound, NEW a \in Acts, Act(a)
  PROVE  HoldsSound'
<1>1. \A b \in Acts : b # a => acts'[b] = acts[b] BY OtherCallsKept
<1>2. /\ taken \in [Candidates -> {"open", "skipped", "held"}] /\ heldCache \in HeldCache
      /\ acts[a] \in ActState /\ mishaps \in Nat
  BY ScreenTyped
<1>3. CASE Confirm(a) \/ Submit(a) \/ Leave(a) \/ HandleReport(a) \/ ReportAnswered(a)
           \/ Finish(a)
  <2>1. taken' = taken /\ heldCache' = heldCache /\ mishaps' = mishaps
    BY <1>3 DEF Confirm, Submit, Leave, HandleReport, ReportAnswered, Finish,
                server, caches, view, budgets
  <2>2. ~(acts[a].kind = "hold" /\ acts[a].step = "handled")
    BY <1>3 DEF Confirm, Submit, Leave, HandleReport, ReportAnswered, Finish
  <2>3. HeldRequests' = HeldRequests BY <2>1 DEF HeldRequests
  <2> QED BY <1>1, <2>1, <2>2, <2>3, HoldsInherited
<1>4. CASE HandleReply(a)
  <2>1. heldCache' = heldCache /\ mishaps' = mishaps /\ acts[a].kind = "reply"
    BY <1>4 DEF HandleReply, caches, budgets
  <2>2. HeldRequests' \subseteq HeldRequests
    BY <1>2, <1>4 DEF HandleReply, HeldRequests
  <2> QED BY <1>1, <2>1, <2>2, HoldsInherited
<1>5. CASE HandleQueue(a)
  <2>1. heldCache' = heldCache /\ mishaps' = mishaps /\ acts[a].step = "sent"
    BY <1>5 DEF HandleQueue, caches, budgets
  <2>2. acts'[a].kind = acts[a].kind /\ acts'[a].request = acts[a].request
        /\ acts'[a].step = "handled"
    BY <1>5, CallGoesOn
  <2>3. taken' = [taken EXCEPT ![acts[a].request] =
                    IF acts[a].kind = "skip" THEN "skipped" ELSE "held"]
        /\ acts[a].kind \in {"skip", "hold"}
    BY <1>5 DEF HandleQueue
  <2>4. ASSUME NEW r \in HeldRequests' PROVE r \in HeldRequests \/ HoldUnderWay(r)'
    <3>1. CASE r = acts[a].request /\ acts[a].kind = "hold"
      BY <2>2, <3>1 DEF HoldUnderWay
    <3>2. CASE r = acts[a].request /\ acts[a].kind = "skip"
      BY <1>2, <2>3, <3>2 DEF HeldRequests
    <3>3. CASE r # acts[a].request BY <1>2, <2>3, <3>3 DEF HeldRequests
    <3> QED BY <2>3, <3>1, <3>2, <3>3
  <2> QED BY <1>1, <2>1, <2>4, HoldsInherited
<1>6. CASE ReplyAnswered(a)
  <2>1. mishaps' = mishaps /\ taken' = taken /\ heldCache' = Refreshed(heldCache)
        /\ acts[a].kind = "reply"
    BY <1>6 DEF ReplyAnswered, server, budgets
  <2>2. HeldRequests' = HeldRequests BY <2>1 DEF HeldRequests
  <2>3. \A r : HoldUnderWay(r) => HoldUnderWay(r)'
    BY <1>1, <2>1 DEF HoldUnderWay
  <2>4. \A r : PanelKnows(r) => PanelKnows(r)'
    BY <1>2, <2>1, HoldsAskedAgain DEF PanelKnows
  <2> QED BY <2>1, <2>2, <2>3, <2>4 DEF HoldsSound
<1>7. CASE QueueAnswered(a) /\ acts[a].kind = "hold"
  <2>1. heldCache' = Refreshed(heldCache) BY <1>7 DEF QueueAnswered
  <2>2. \A r : PanelKnows(r)'
    BY <1>2, <2>1 DEF Refreshed, PanelKnows, HeldCache
  <2> QED BY <2>2 DEF HoldsSound
<1>8. CASE QueueAnswered(a) /\ acts[a].kind # "hold"
  <2>1. heldCache' = heldCache /\ taken' = taken /\ mishaps' = mishaps
    BY <1>8 DEF QueueAnswered, server, budgets
  <2>2. HeldRequests' = HeldRequests BY <2>1 DEF HeldRequests
  <2> QED BY <1>1, <1>8, <2>1, <2>2, HoldsInherited
<1>9. CASE ActFails(a)
  <2>1. mishaps' # 0 BY <1>2, <1>9 DEF ActFails
  <2> QED BY <2>1 DEF HoldsSound
<1> QED BY <1>3, <1>4, <1>5, <1>6, <1>7, <1>8, <1>9 DEF Act

LEMMA HoldsKeptByQuery ==
  ASSUME ScreenTypeOK, HoldsSound, Query
  PROVE  HoldsSound'
<1>1. heldCache \in HeldCache /\ mishaps \in Nat BY ScreenTyped
<1>2. ASSUME taken' = taken, \A b \in Acts : /\ acts'[b].step = acts[b].step
                                             /\ acts'[b].kind = acts[b].kind
                                             /\ acts'[b].request = acts[b].request
      PROVE  /\ HeldRequests' = HeldRequests
             /\ \A r : HoldUnderWay(r) => HoldUnderWay(r)'
  BY <1>2 DEF HeldRequests, HoldUnderWay
<1>3. CASE FetchFails
  <2>1. mishaps' # 0 BY <1>1, <1>3 DEF FetchFails
  <2> QED BY <2>1 DEF HoldsSound
<1>4. CASE Refetch
  <2>1. taken' = taken /\ acts' = acts /\ mishaps' = mishaps
        /\ heldCache' = [heldCache EXCEPT !.fetch = IF @ = "none" THEN "sent" ELSE @]
    BY <1>4 DEF Refetch, server
  <2>2. \A r : PanelKnows(r) => PanelKnows(r)' BY <1>1, <2>1 DEF PanelKnows, HeldCache
  <2> QED BY <1>2, <2>1, <2>2 DEF HoldsSound
<1>5. CASE ReadQueue
  <2>1. taken' = taken /\ acts' = acts /\ mishaps' = mishaps /\ heldCache' = heldCache
    BY <1>5 DEF ReadQueue, server, budgets
  <2> QED BY <1>2, <2>1 DEF HoldsSound, PanelKnows
<1>6. CASE ReadHeld
  <2>1. taken' = taken /\ heldCache' = [heldCache EXCEPT !.fetch = "read", !.got = HeldRequests]
    BY <1>6 DEF ReadHeld, server
  <2>2. HeldRequests' = HeldRequests BY <2>1 DEF HeldRequests
  <2>3. heldCache'.fetch = "read" /\ heldCache'.got = HeldRequests
    BY <1>1, <2>1 DEF HeldCache
  <2>4. \A r \in HeldRequests : PanelKnows(r)' BY <2>3 DEF PanelKnows
  <2> QED BY <2>2, <2>4 DEF HoldsSound
<1>7. CASE QueueArrives
  <2>1. taken' = taken /\ mishaps' = mishaps /\ heldCache' = heldCache /\ acts' = Awaited("queue")
    BY <1>7 DEF QueueArrives, server, budgets
  <2> QED BY <1>2, <2>1, AwaitedTyped DEF HoldsSound, PanelKnows
<1>8. CASE HeldArrives
  <2>1. taken' = taken /\ mishaps' = mishaps /\ acts' = Awaited("held")
        /\ heldCache.fetch = "read"
        /\ heldCache' = [data |-> heldCache.got, loads |-> Later(heldCache.loads),
                         fetch |-> "none", got |-> {}]
    BY <1>8 DEF HeldArrives, server, budgets
  <2>2. heldCache'.fetch = "none" /\ heldCache'.data = heldCache.got
        /\ heldCache'.loads = Later(heldCache.loads)
    BY <2>1
  <2>3. Later(heldCache.loads) = 2 => heldCache.loads # 0 BY DEF Later
  <2>4. \A r : PanelKnows(r) => PanelKnows(r)' BY <2>1, <2>2, <2>3 DEF PanelKnows
  <2> QED BY <1>2, <2>1, <2>4, AwaitedTyped DEF HoldsSound
<1> QED BY <1>3, <1>4, <1>5, <1>6, <1>7, <1>8 DEF Query

LEMMA HoldsKept ==
  ASSUME ScreenTypeOK, HoldsSound, [ScreenNext]_screenVars
  PROVE  HoldsSound'
<1>1. CASE UNCHANGED screenVars
  BY <1>1 DEF screenVars, HoldsSound, HeldRequests, HoldUnderWay, PanelKnows
<1>2. CASE Member
  <2>1. taken' = taken /\ heldCache' = heldCache /\ mishaps' = mishaps /\ acts' = acts
    BY <1>2 DEF Member, Type, OpenHeld, CloseHeld, Ask, Cancel, server, caches, budgets
  <2> QED BY <2>1 DEF HoldsSound, HeldRequests, HoldUnderWay, PanelKnows
<1>3. ASSUME NEW a \in Acts, Act(a) PROVE HoldsSound' BY <1>3, HoldsKeptByCall
<1>4. CASE Query BY <1>4, HoldsKeptByQuery
<1> QED BY <1>1, <1>2, <1>3, <1>4 DEF ScreenNext, Member

\* "If you hold it, it moves to the hold box": with nothing failed and no fetch of the
\* panel under way, a held request is in the panel or a call for it is under way.
THEOREM HeldIsInThePanel == ScreenSpec => []HeldIsListed
<1>1. ScreenInit => ScreenTypeOK /\ HoldsSound BY ScreenInitTyped, HoldsInit
<1>2. ScreenTypeOK /\ HoldsSound /\ [ScreenNext]_screenVars => (ScreenTypeOK /\ HoldsSound)'
  BY ScreenNextTyped, HoldsKept
<1>3. HoldsSound => HeldIsListed
  BY DEF HoldsSound, HeldIsListed, HoldUnderWay, PanelKnows, Listed
<1> QED BY <1>1, <1>2, <1>3, PTL DEF ScreenSpec

---------------------------------------------------------------------------
(* The two side by side *)

LEMMA AnswersRunQueue == AnswersSpec => Spec
<1>1. AnswersInit => Init BY DEF AnswersInit
<1>2. [AnswersNext]_<<component, vars, screenVars>> => [Next]_vars BY DEF AnswersNext
<1> QED BY <1>1, <1>2, PTL DEF AnswersSpec, Spec

LEMMA AnswersRunScreen == AnswersSpec => ScreenSpec
<1>1. AnswersInit => ScreenInit BY DEF AnswersInit
<1>2. [AnswersNext]_<<component, vars, screenVars>> => [ScreenNext]_screenVars
  BY DEF AnswersNext
<1> QED BY <1>1, <1>2, PTL DEF AnswersSpec, ScreenSpec

\* Side by side, the server's tables and the screen's state keep to their types.
THEOREM AnswersTypeSound == AnswersSpec => []AnswersTypeOK
<1>1. TypeOK /\ ScreenTypeOK => AnswersTypeOK BY DEF AnswersTypeOK
<1> QED BY <1>1, AnswersRunQueue, AnswersRunScreen, TypeCorrect, ScreenTypeSound, PTL

=============================================================================
