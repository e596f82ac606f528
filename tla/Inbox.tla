-------------------------------- MODULE Inbox --------------------------------
(***************************************************************************)
(* One member's notifications: the rows, the stream that says something    *)
(* changed, the unread badge of the header and the notifications page.     *)
(*                                                                         *)
(* The stream is a Subject in the memory of the API process: what is       *)
(* published while the browser is not connected is lost.  The badge is     *)
(* fetched on every message and polled besides; the page marks everything  *)
(* read when it is opened and then writes zero into the badge's cache,     *)
(* whatever has arrived meanwhile.  The page's own list is taken to show   *)
(* the rows of its last fetch, whenever that was.                          *)
(***************************************************************************)
EXTENDS Naturals, FiniteSets

CONSTANTS
  Notes,      \* notifications, in no order
  Visits,     \* calls of the notifications page under way
  MaxVisits,  \* bound: calls the page makes
  MaxCuts     \* bound: lost connections, failed calls and fetches

ASSUME NotesAssumption == IsFiniteSet(Notes)
ASSUME InboxBoundsAssumption == MaxVisits \in Nat /\ MaxCuts \in Nat

VARIABLES
  notes,      \* notifications: note -> its row
  connected,  \* the EventSource is open
  ping,       \* messages on their way; more than one says no more than one
  badge,      \* the query ["notifications", "unreadCount"]
  shown,      \* the rows the page shows
  visits,     \* the page's calls
  visited, cuts

inboxVars == <<notes, connected, ping, badge, shown, visits, visited, cuts>>

Counts == 0..Cardinality(Notes)
NoVisit == [kind |-> "read", step |-> "idle", note |-> {}]

InboxTypeOK ==
  /\ notes \in [Notes -> {"absent", "unread", "read", "deleted"}]
  /\ connected \in BOOLEAN /\ ping \in BOOLEAN
  /\ badge \in [data : Counts, first : BOOLEAN, fetch : {"none", "sent", "read"}, got : Counts]
  /\ shown \in SUBSET Notes
  /\ visits \in [Visits -> [kind : {"read", "one", "all"}, step : {"idle", "sent", "handled"},
                            note : {S \in SUBSET Notes : Cardinality(S) <= 1}]]
  /\ visited \in 0..MaxVisits /\ cuts \in 0..MaxCuts

InboxInit ==
  /\ notes = [n \in Notes |-> "absent"]
  /\ connected = FALSE /\ ping = FALSE
  /\ badge = [data |-> 0, first |-> TRUE, fetch |-> "sent", got |-> 0]
  /\ shown = {}
  /\ visits = [v \in Visits |-> NoVisit]
  /\ visited = 0 /\ cuts = 0

\* countUnread and findMine.
Unread == Cardinality({n \in Notes : notes[n] = "unread"})
Listed == {n \in Notes : notes[n] \in {"unread", "read"}}

\* invalidateQueries abandons the fetch under way and starts another; it joins it
\* as long as the query has no data.
Refetched == IF badge.first THEN [badge EXCEPT !.fetch = IF @ = "none" THEN "sent" ELSE @]
             ELSE [badge EXCEPT !.fetch = "sent", !.got = 0]

Cut == cuts < MaxCuts /\ cuts' = cuts + 1

---------------------------------------------------------------------------
(* The server and its stream *)

\* createReplyReceived: the row, then the event to whoever is connected.
Create(n) ==
  /\ notes[n] = "absent"
  /\ notes' = [notes EXCEPT ![n] = "unread"]
  /\ ping' = (ping \/ connected)
  /\ UNCHANGED <<connected, badge, shown, visits, visited, cuts>>

Connect ==
  /\ ~connected
  /\ connected' = TRUE
  /\ UNCHANGED <<notes, ping, badge, shown, visits, visited, cuts>>

\* The connection or the process ends, and what is on its way with it.
Disconnect ==
  /\ connected /\ Cut
  /\ connected' = FALSE /\ ping' = FALSE
  /\ UNCHANGED <<notes, badge, shown, visits, visited>>

\* useNotificationStream's onmessage.
Message ==
  /\ ping
  /\ ping' = FALSE
  /\ badge' = Refetched
  /\ UNCHANGED <<notes, connected, shown, visits, visited, cuts>>

---------------------------------------------------------------------------
(* The badge and the list *)

\* Mutation of Poll: only as a stand-in for the stream.
PollUnconnected ==
  /\ badge.fetch = "none" /\ ~connected
  /\ badge' = [badge EXCEPT !.fetch = "sent"]
  /\ UNCHANGED <<notes, connected, ping, shown, visits, visited, cuts>>

\* refetchInterval, whether the stream is open or not.
Poll ==
  /\ badge.fetch = "none"
  /\ badge' = [badge EXCEPT !.fetch = "sent"]
  /\ UNCHANGED <<notes, connected, ping, shown, visits, visited, cuts>>

ReadBadge ==
  /\ badge.fetch = "sent"
  /\ badge' = [badge EXCEPT !.fetch = "read", !.got = Unread]
  /\ UNCHANGED <<notes, connected, ping, shown, visits, visited, cuts>>

BadgeArrives ==
  /\ badge.fetch = "read"
  /\ badge' = [data |-> badge.got, first |-> FALSE, fetch |-> "none", got |-> 0]
  /\ UNCHANGED <<notes, connected, ping, shown, visits, visited, cuts>>

BadgeFails ==
  /\ badge.fetch # "none" /\ Cut
  /\ badge' = [badge EXCEPT !.fetch = "none", !.got = 0]
  /\ UNCHANGED <<notes, connected, ping, shown, visits, visited>>

ShowList ==
  /\ shown' = Listed
  /\ UNCHANGED <<notes, connected, ping, badge, visits, visited, cuts>>

---------------------------------------------------------------------------
(* The page *)

Ask(v, kind, note) ==
  /\ visits[v].step = "idle" /\ visited < MaxVisits
  /\ visited' = visited + 1
  /\ visits' = [visits EXCEPT ![v] = [kind |-> kind, step |-> "sent", note |-> note]]
  /\ UNCHANGED <<notes, connected, ping, badge, shown, cuts>>

\* Opening the page marks everything read.
OpenPage(v) == Ask(v, "read", {})

DeleteOne(v, n) == n \in shown /\ Ask(v, "one", {n})

DeleteAll(v) == shown # {} /\ Ask(v, "all", {})

\* markAllRead, deleteOne (404 when the row is gone) and deleteAll.
Handle(v) ==
  /\ visits[v].step = "sent"
  /\ notes' = [n \in Notes |->
       IF visits[v].kind = "read"
       THEN IF notes[n] = "unread" THEN "read" ELSE notes[n]
       ELSE IF n \in Listed /\ (visits[v].kind = "all" \/ n \in visits[v].note)
            THEN "deleted" ELSE notes[n]]
  /\ visits' = [visits EXCEPT ![v] =
       IF @.kind = "one" /\ @.note \cap Listed = {} THEN NoVisit ELSE [@ EXCEPT !.step = "handled"]]
  /\ UNCHANGED <<connected, ping, badge, shown, visited, cuts>>

\* Mutation of Answered: a deletion counts the badge down.
AnsweredCountingDown(v) ==
  /\ visits[v].step = "handled"
  /\ badge' = IF visits[v].kind = "one" THEN [badge EXCEPT !.data = @ - 1]
              ELSE [badge EXCEPT !.data = 0, !.first = FALSE]
  /\ visits' = [visits EXCEPT ![v] = NoVisit]
  /\ UNCHANGED <<notes, connected, ping, shown, visited, cuts>>

\* onSuccess: zero is written over the badge, whatever its fetch is about to bring;
\* a single deletion refetches it.
Answered(v) ==
  /\ visits[v].step = "handled"
  /\ badge' = IF visits[v].kind = "one" THEN Refetched
              ELSE [badge EXCEPT !.data = 0, !.first = FALSE]
  /\ visits' = [visits EXCEPT ![v] = NoVisit]
  /\ UNCHANGED <<notes, connected, ping, shown, visited, cuts>>

VisitFails(v) ==
  /\ visits[v].step # "idle" /\ Cut
  /\ visits' = [visits EXCEPT ![v] = NoVisit]
  /\ UNCHANGED <<notes, connected, ping, badge, shown, visited>>

---------------------------------------------------------------------------
CallNext(v) == Handle(v) \/ Answered(v)

InboxNext ==
  \/ \E n \in Notes : Create(n)
  \/ Connect \/ Disconnect \/ Message
  \/ Poll \/ ReadBadge \/ BadgeArrives \/ BadgeFails \/ ShowList
  \/ \E v \in Visits :
       \/ OpenPage(v) \/ DeleteAll(v) \/ VisitFails(v) \/ CallNext(v)
       \/ \E n \in Notes : DeleteOne(v, n)

\* The interval timer fires for as long as the page lives, and calls are answered
\* or fail; the stream owes nothing.
InboxFairness ==
  /\ WF_inboxVars(Poll) /\ WF_inboxVars(ReadBadge) /\ WF_inboxVars(BadgeArrives)
  /\ \A v \in Visits : WF_inboxVars(CallNext(v))

InboxSpec == InboxInit /\ [][InboxNext]_inboxVars /\ InboxFairness

---------------------------------------------------------------------------
(* Properties *)

\* "This endpoint is the fallback that catches anything a missed/never-connected
\* stream would otherwise drop" (the unread count): however messages, fetches and
\* the page's calls overtake each other, the badge ends with the number of unread
\* rows.
BadgeCatchesUp == <>[](badge.data = Unread)

=============================================================================
