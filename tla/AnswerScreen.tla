--------------------------- MODULE AnswerScreen ---------------------------
(***************************************************************************)
(* The answer screen of the web client: the queue candidate, the hold      *)
(* panel, the drafts and the calls it makes, over the query cache they     *)
(* share.                                                                  *)
(*                                                                         *)
(* A call is sent, handled by the server and answered in three steps, and  *)
(* so is a refetch; calls and refetches overtake each other.  The server   *)
(* is what one member sees of module Answering with every handler taken as *)
(* one step (its interleavings are that module's subject): any eligible    *)
(* request may be the candidate, for others answer meanwhile.  The query   *)
(* cache is that of TanStack Query 5.101: invalidating a query cancels the *)
(* fetch under way and starts another, but joins the first fetch of all;   *)
(* writing its data leaves the fetch alone, and a refetch on mount or      *)
(* reconnect joins one under way.                                          *)
(***************************************************************************)
EXTENDS Naturals, NoValue

CONSTANTS
  Candidates,    \* the requests the member may answer
  Acts,          \* calls of the screen in flight
  MaxTexts,      \* bound: different texts a draft may have
  MaxCalls,      \* bound: calls made
  MaxTroubles    \* bound: refetches on mount or reconnect, and failures

ASSUME ScreenBoundsAssumption ==
  MaxTexts \in Nat /\ MaxCalls \in Nat /\ MaxTroubles \in Nat
ASSUME ScreenNoneAssumption == None \notin Candidates

VARIABLES
  taken,       \* answer_interactions of the member
  stored,      \* the text of the member's reply, 0 without one
  queueCache,  \* the query ["requests", "queue"]
  heldCache,   \* the query ["requests", "held"]
  dialog,      \* pendingAction: the confirmation that is open
  active,      \* activeHeldRequestId
  loadingNext, \* hides the current request
  drafts,      \* replyDrafts; a text is a number, 0 the empty one
  acts,        \* the calls
  calls, refetches, mishaps

screenVars == <<taken, stored, queueCache, heldCache, dialog, active, loadingNext,
                drafts, acts, calls, refetches, mishaps>>

server == <<taken, stored>>
caches == <<queueCache, heldCache>>
view == <<dialog, active, loadingNext, drafts>>
budgets == <<calls, refetches, mishaps>>

---------------------------------------------------------------------------
(* Types *)

Kinds == {"reply", "skip", "hold", "report"}
Phases == {"none", "sent", "read"}
QueueCache == [data : Candidates \cup {None}, loads : 0..2, fetch : Phases,
               got : Candidates \cup {None}]
HeldCache == [data : SUBSET Candidates, loads : 0..2, fetch : Phases, got : SUBSET Candidates]

\* wasActive is activeHeldRequestId in the render the call was made from.
ActState ==
  [step : {"idle", "leaving", "sent", "handled", "settling"},
   kind : Kinds, request : Candidates \cup {None}, text : 0..MaxTexts,
   got : Candidates \cup {None}, wasActive : BOOLEAN, waits : SUBSET {"queue", "held"}]
Rest == [step |-> "idle", kind |-> "skip", request |-> None, text |-> 0, got |-> None,
         wasActive |-> FALSE, waits |-> {}]

ScreenTypeOK ==
  /\ taken \in [Candidates -> {"open", "skipped", "held"}]
  /\ stored \in [Candidates -> 0..MaxTexts]
  /\ queueCache \in QueueCache
  /\ heldCache \in HeldCache
  /\ dialog \in [kind : Kinds \ {"reply"}, request : Candidates \cup {None}]
  /\ active \in Candidates \cup {None}
  /\ loadingNext \in BOOLEAN
  /\ drafts \in [Candidates -> 0..MaxTexts]
  /\ acts \in [Acts -> ActState]
  /\ calls \in 0..MaxCalls
  /\ refetches \in Nat /\ mishaps \in Nat /\ refetches + mishaps <= MaxTroubles

---------------------------------------------------------------------------
(* What the server answers, and what the screen shows *)

HeldRequests == {r \in Candidates : taken[r] = "held"}

\* findQueueCandidate: neither answered nor skipped or held, null without any.
MayOffer(answer, interactions) ==
  LET eligible == {r \in Candidates : answer[r] = 0 /\ interactions[r] = "open"}
  IN IF eligible = {} THEN {None} ELSE eligible

\* currentAnswerTarget: the opened held request as long as it is in the list.
Target == IF active \in heldCache.data THEN active ELSE queueCache.data

Submitting == \E a \in Acts : acts[a].kind = "reply" /\ acts[a].step # "idle"

\* Mutation of CanType: the composer stays open while the reply is on its way.
CanTypeOnAndOn == Target # None /\ ~loadingNext

\* The composer is disabled without a target and while a call is under way.
CanType == Target # None /\ ~loadingNext /\ ~Submitting

---------------------------------------------------------------------------
\* How often a query has been given data: not yet, once, or again.
Later(loads) == IF loads = 0 THEN 1 ELSE 2

NoDialog == [kind |-> "skip", request |-> None]

ScreenInit ==
  /\ taken = [r \in Candidates |-> "open"]
  /\ stored = [r \in Candidates |-> 0]
  /\ queueCache = [data |-> None, loads |-> 0, fetch |-> "sent", got |-> None]
  /\ heldCache = [data |-> {}, loads |-> 0, fetch |-> "sent", got |-> {}]
  /\ dialog = NoDialog
  /\ active = None
  /\ loadingNext = FALSE
  /\ drafts = [r \in Candidates |-> 0]
  /\ acts = [a \in Acts |-> Rest]
  /\ calls = 0
  /\ refetches = 0
  /\ mishaps = 0

---------------------------------------------------------------------------
(* The member *)

Type(text) ==
  /\ CanType
  /\ drafts' = [drafts EXCEPT ![Target] = text]
  /\ UNCHANGED <<server, caches, dialog, active, loadingNext, acts, budgets>>

OpenHeld(r) ==
  /\ r \in heldCache.data \ {active}
  /\ active' = r
  /\ UNCHANGED <<server, caches, dialog, loadingNext, drafts, acts, budgets>>

CloseHeld ==
  /\ active \in heldCache.data
  /\ active' = None
  /\ UNCHANGED <<server, caches, dialog, loadingNext, drafts, acts, budgets>>

\* The menu of the current request, which loadingNext hides.
Ask(kind) ==
  /\ Target # None /\ ~loadingNext /\ dialog.request = None
  /\ dialog' = [kind |-> kind, request |-> Target]
  /\ UNCHANGED <<server, caches, active, loadingNext, drafts, acts, budgets>>

Cancel ==
  /\ dialog.request # None
  /\ dialog' = NoDialog
  /\ UNCHANGED <<server, caches, active, loadingNext, drafts, acts, budgets>>

\* confirmPendingAction, whatever is under way by now.
Confirm(a) ==
  /\ acts[a].step = "idle" /\ dialog.request # None
  /\ acts' = [acts EXCEPT ![a] =
       [Rest EXCEPT !.step = "leaving", !.kind = dialog.kind, !.request = dialog.request,
                    !.wasActive = (active = dialog.request)]]
  /\ dialog' = NoDialog
  /\ calls < MaxCalls /\ calls' = calls + 1
  /\ UNCHANGED <<server, caches, active, loadingNext, drafts, refetches, mishaps>>

\* The animation is over: the call goes out.
Leave(a) ==
  /\ acts[a].step = "leaving"
  /\ acts' = [acts EXCEPT ![a].step = "sent"]
  /\ loadingNext' = TRUE
  /\ UNCHANGED <<server, caches, dialog, active, drafts, budgets>>

Submit(a) ==
  /\ acts[a].step = "idle" /\ CanType /\ ~Submitting
  /\ drafts[Target] # 0
  /\ acts' = [acts EXCEPT ![a] =
       [Rest EXCEPT !.step = "sent", !.kind = "reply", !.request = Target,
                    !.text = drafts[Target], !.wasActive = (active = Target)]]
  /\ calls < MaxCalls /\ calls' = calls + 1
  /\ UNCHANGED <<server, caches, view, refetches, mishaps>>

---------------------------------------------------------------------------
(* The server handles a call *)

\* A reply once per request; it clears the interaction.
HandleReply(a) ==
  LET r == acts[a].request
  IN /\ acts[a].step = "sent" /\ acts[a].kind = "reply"
     /\ stored[r] = 0
     /\ stored' = [stored EXCEPT ![r] = acts[a].text]
     /\ taken' = [taken EXCEPT ![r] = "open"]
     /\ acts' = [acts EXCEPT ![a].step = "handled"]
     /\ UNCHANGED <<caches, view, budgets>>

\* Skip and hold answer with the next candidate.
HandleQueue(a) ==
  /\ acts[a].step = "sent" /\ acts[a].kind \in {"skip", "hold"}
  /\ taken' = [taken EXCEPT ![acts[a].request] =
                 IF acts[a].kind = "skip" THEN "skipped" ELSE "held"]
  /\ \E next \in MayOffer(stored, taken') :
       acts' = [acts EXCEPT ![a].step = "handled", ![a].got = next]
  /\ UNCHANGED <<stored, caches, view, budgets>>

\* A report alone changes nothing for its reporter's queue.
HandleReport(a) ==
  /\ acts[a].step = "sent" /\ acts[a].kind = "report"
  /\ acts' = [acts EXCEPT ![a].step = "handled"]
  /\ UNCHANGED <<server, caches, view, budgets>>

---------------------------------------------------------------------------
(* Its answer arrives *)

\* Mutation of Refreshed: a fetch under way is joined, as a refetch would do.
RefreshedOnce(cache) == IF cache.fetch = "none" THEN [cache EXCEPT !.fetch = "sent"] ELSE cache

\* invalidateQueries: whatever is under way is thrown away and fetched anew,
\* unless it is the first fetch, which is joined.
Refreshed(cache) ==
  IF cache.loads = 0 /\ cache.fetch # "none" THEN cache ELSE [cache EXCEPT !.fetch = "sent"]

\* useCreateReplyMutation's onSuccess, which the submit awaits.
ReplyAnswered(a) ==
  /\ acts[a].step = "handled" /\ acts[a].kind = "reply"
  /\ queueCache' = Refreshed(queueCache)
  /\ heldCache' = Refreshed(heldCache)
  /\ acts' = [acts EXCEPT ![a].step = "settling", ![a].waits = {"queue", "held"}]
  /\ UNCHANGED <<server, view, budgets>>

\* The submit goes on with the state of the render it started in.
Finish(a) ==
  /\ acts[a].step = "settling" /\ acts[a].waits = {}
  /\ drafts' = [drafts EXCEPT ![acts[a].request] = 0]
  /\ active' = IF acts[a].wasActive THEN None ELSE active
  /\ acts' = [acts EXCEPT ![a] = Rest]
  /\ UNCHANGED <<server, caches, dialog, loadingNext, budgets>>

\* The next candidate replaces the cached one; only a hold refreshes the panel.
QueueAnswered(a) ==
  /\ acts[a].step = "handled" /\ acts[a].kind \in {"skip", "hold"}
  /\ queueCache' = [queueCache EXCEPT !.data = acts[a].got, !.loads = Later(@)]
  /\ heldCache' = IF acts[a].kind = "hold" THEN Refreshed(heldCache) ELSE heldCache
  /\ active' = IF acts[a].kind = "skip" /\ acts[a].wasActive THEN None ELSE active
  /\ loadingNext' = FALSE
  /\ acts' = [acts EXCEPT ![a] = Rest]
  /\ UNCHANGED <<server, dialog, drafts, budgets>>

ReportAnswered(a) ==
  /\ acts[a].step = "handled" /\ acts[a].kind = "report"
  /\ queueCache' = Refreshed(queueCache)
  /\ loadingNext' = FALSE
  /\ acts' = [acts EXCEPT ![a] = Rest]
  /\ UNCHANGED <<server, heldCache, dialog, active, drafts, budgets>>

\* A refusal, or no answer, before or after the server handled the call.
ActFails(a) ==
  /\ acts[a].step \in {"sent", "handled"}
  /\ refetches + mishaps < MaxTroubles
  /\ mishaps' = mishaps + 1
  /\ loadingNext' = IF acts[a].kind = "reply" THEN loadingNext ELSE FALSE
  /\ acts' = [acts EXCEPT ![a] = Rest]
  /\ UNCHANGED <<server, caches, dialog, active, drafts, calls, refetches>>

---------------------------------------------------------------------------
(* Refetches *)

\* Mount or reconnect.
Refetch ==
  /\ refetches + mishaps < MaxTroubles
  /\ refetches' = refetches + 1
  /\ queueCache' = [queueCache EXCEPT !.fetch = IF @ = "none" THEN "sent" ELSE @]
  /\ heldCache' = [heldCache EXCEPT !.fetch = IF @ = "none" THEN "sent" ELSE @]
  /\ UNCHANGED <<server, view, acts, calls, mishaps>>

ReadQueue ==
  /\ queueCache.fetch = "sent"
  /\ \E next \in MayOffer(stored, taken) :
       queueCache' = [queueCache EXCEPT !.fetch = "read", !.got = next]
  /\ UNCHANGED <<server, heldCache, view, acts, budgets>>

ReadHeld ==
  /\ heldCache.fetch = "sent"
  /\ heldCache' = [heldCache EXCEPT !.fetch = "read", !.got = HeldRequests]
  /\ UNCHANGED <<server, queueCache, view, acts, budgets>>

\* Whoever awaits the query goes on.
Awaited(query) == [a \in Acts |-> [acts[a] EXCEPT !.waits = @ \ {query}]]

QueueArrives ==
  /\ queueCache.fetch = "read"
  /\ queueCache' = [data |-> queueCache.got, loads |-> Later(queueCache.loads),
                     fetch |-> "none", got |-> None]
  /\ acts' = Awaited("queue")
  /\ UNCHANGED <<server, heldCache, view, budgets>>

HeldArrives ==
  /\ heldCache.fetch = "read"
  /\ heldCache' = [data |-> heldCache.got, loads |-> Later(heldCache.loads),
                    fetch |-> "none", got |-> {}]
  /\ acts' = Awaited("held")
  /\ UNCHANGED <<server, queueCache, view, budgets>>

\* The retry failed too: the old data stay, and those who wait go on.
FetchFails ==
  /\ refetches + mishaps < MaxTroubles
  /\ mishaps' = mishaps + 1
  /\ \/ /\ queueCache.fetch # "none"
        /\ queueCache' = [queueCache EXCEPT !.fetch = "none", !.got = None]
        /\ acts' = Awaited("queue")
        /\ UNCHANGED heldCache
     \/ /\ heldCache.fetch # "none"
        /\ heldCache' = [heldCache EXCEPT !.fetch = "none", !.got = {}]
        /\ acts' = Awaited("held")
        /\ UNCHANGED queueCache
  /\ UNCHANGED <<server, view, calls, refetches>>

---------------------------------------------------------------------------
Act(a) ==
  \/ Confirm(a) \/ Leave(a) \/ Submit(a)
  \/ HandleReply(a) \/ HandleQueue(a) \/ HandleReport(a)
  \/ ReplyAnswered(a) \/ Finish(a) \/ QueueAnswered(a) \/ ReportAnswered(a)
  \/ ActFails(a)

Query == ReadQueue \/ ReadHeld \/ QueueArrives \/ HeldArrives \/ FetchFails \/ Refetch

ScreenNext ==
  \/ \E text \in 1..MaxTexts : Type(text)
  \/ \E r \in Candidates : OpenHeld(r)
  \/ CloseHeld
  \/ \E kind \in Kinds \ {"reply"} : Ask(kind)
  \/ Cancel
  \/ \E a \in Acts : Act(a)
  \/ Query

ScreenSpec == ScreenInit /\ [][ScreenNext]_screenVars

---------------------------------------------------------------------------
(* Properties *)

Listed(r) == r \in heldCache.data \/ \E a \in Acts : acts[a].request = r /\ acts[a].step # "idle"

\* "If you hold it, it moves to the hold box" (AnswerSession, ACTION_CONFIRM_COPY):
\* with nothing failed and no fetch of the panel under way, a held request is in the
\* panel or a call for it is, whatever refetch was overtaken by which call.  Not so
\* when the hold is answered before the first fetch of the panel is: that fetch is
\* joined, so the panel must have been fetched again.
HeldIsListed ==
  heldCache.fetch = "none" /\ heldCache.loads = 2 /\ mishaps = 0 =>
    \A r \in HeldRequests : Listed(r)

\* No text of a reply is lost: a draft is emptied only when the server has stored
\* that very text (useAnswerQueue, submitReply).
DraftIsStored ==
  [][\A r \in Candidates :
       drafts[r] # 0 /\ drafts'[r] = 0 => stored[r] = drafts[r]]_screenVars

=============================================================================
