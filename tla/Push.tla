-------------------------------- MODULE Push --------------------------------
(***************************************************************************)
(* Web push on one device several accounts sign in on.                     *)
(*                                                                         *)
(* The browser holds one subscription per origin whoever is signed in; the *)
(* server keeps the account each endpoint was registered for.  Turning     *)
(* push on and off and releasing it at logout take several calls, a page   *)
(* (a job) making each with the cookie the browser holds by then.  A send  *)
(* reads the endpoints of an account first and delivers to them later; an  *)
(* endpoint the browser has given up is gone for good.                     *)
(***************************************************************************)
EXTENDS Naturals, FiniteSets, NoValue

CONSTANTS
  Accounts,      \* accounts used on the device
  Jobs,          \* tasks of open pages
  Sends,         \* sends to an account under way
  MaxEndpoints,  \* bound: subscriptions the browser makes
  MaxLosses      \* bound: failed calls, expired sessions, withdrawals

ASSUME PushBoundsAssumption == MaxEndpoints \in Nat /\ MaxLosses \in Nat
ASSUME PushNoneAssumption == None \notin Accounts

VARIABLES
  cookie,    \* the account whose session the browser holds
  endpoint,  \* the browser's push subscription, 0 without one
  owner,     \* push_subscriptions: endpoint -> user_id
  jobs,
  sends,
  lapsed,    \* accounts the device may go on ringing for: history, see SilentAfterLogout
  issued, losses

pushVars == <<cookie, endpoint, owner, jobs, sends, lapsed, issued, losses>>

Endpoints == 1..MaxEndpoints
Nobody == Accounts \cup {None}

---------------------------------------------------------------------------
JobState ==
  [kind : {"enable", "disable", "logout"},
   step : {"idle", "asking", "registering", "rollback", "lookup", "delete", "drop", "leave"},
   at : 0..MaxEndpoints, by : Nobody]  \* by: signed in since the job's start
SendState == [to : Nobody, pending : SUBSET Endpoints, gone : SUBSET Endpoints]
NoSend == [to |-> None, pending |-> {}, gone |-> {}]

PushTypeOK ==
  /\ cookie \in Nobody
  /\ endpoint \in 0..MaxEndpoints
  /\ owner \in [Endpoints -> Nobody]
  /\ jobs \in [Jobs -> JobState]
  /\ sends \in [Sends -> SendState]
  /\ lapsed \in SUBSET Accounts
  /\ issued \in 0..MaxEndpoints /\ endpoint <= issued
  /\ losses \in 0..MaxLosses

PushInit ==
  /\ cookie = None
  /\ endpoint = 0
  /\ owner = [e \in Endpoints |-> None]
  /\ jobs = [j \in Jobs |-> [kind |-> "enable", step |-> "idle", at |-> 0, by |-> None]]
  /\ sends = [s \in Sends |-> NoSend]
  /\ lapsed = {}
  /\ issued = 0
  /\ losses = 0

---------------------------------------------------------------------------
(* Steps of a job *)

At(j, step) == jobs[j].step = step
To(j, step) == jobs' = [jobs EXCEPT ![j].step = step]

\* findByUserId, as far as the browser compares it with its own endpoint.
Owned(e, a) == e # 0 /\ owner[e] = a

\* Who the device rings for, now or by a send that has read the rows.
Rung ==
  IF endpoint = 0 THEN {}
  ELSE ({owner[endpoint]} \ {None})
       \cup {sends[s].to : s \in {t \in Sends : endpoint \in sends[t].pending}}

\* A logout and a task of another page overlap, and know nothing of each other.
Crossed(j, kind) ==
  IF \E k \in Jobs \ {j} : ~At(k, "idle") /\ "logout" \in {kind, jobs[k].kind}
  THEN {cookie} ELSE {}

\* The browser keeps a subscription it was to give up.
StillRung == Rung' \cap ({cookie} \ {None})

Lose == losses < MaxLosses /\ losses' = losses + 1

---------------------------------------------------------------------------
(* Turning push on *)

StartEnable(j) ==
  /\ At(j, "idle") /\ cookie # None
  /\ jobs' = [jobs EXCEPT ![j] = [kind |-> "enable", step |-> "asking", at |-> 0, by |-> cookie]]
  /\ lapsed' = lapsed \cup Crossed(j, "enable")
  /\ UNCHANGED <<cookie, endpoint, owner, sends, issued, losses>>

\* The permission is refused.
Refuse(j) ==
  /\ At(j, "asking")
  /\ To(j, "idle")
  /\ UNCHANGED <<cookie, endpoint, owner, sends, lapsed, issued, losses>>

\* pushManager.subscribe answers the subscription the browser has, if any.
BrowserSubscribe(j) ==
  /\ At(j, "asking")
  /\ endpoint # 0 \/ issued < MaxEndpoints
  /\ issued' = IF endpoint = 0 THEN issued + 1 ELSE issued
  /\ endpoint' = IF endpoint = 0 THEN issued' ELSE endpoint
  /\ jobs' = [jobs EXCEPT ![j].step = "registering", ![j].at = endpoint']
  /\ UNCHANGED <<cookie, owner, sends, lapsed, losses>>

\* The upsert on the endpoint makes it the caller's, whosever it was.
Register(j) ==
  /\ At(j, "registering") /\ cookie # None
  /\ owner' = [owner EXCEPT ![jobs[j].at] = cookie]
  /\ \/ To(j, "idle") /\ UNCHANGED losses
     \/ To(j, "rollback") /\ Lose
  /\ UNCHANGED <<cookie, endpoint, sends, lapsed, issued>>

RegisterFails(j) ==
  /\ At(j, "registering")
  /\ \/ cookie = None /\ UNCHANGED losses
     \/ cookie # None /\ Lose
  /\ To(j, "rollback")
  /\ UNCHANGED <<cookie, endpoint, owner, sends, lapsed, issued>>

\* subscription.unsubscribe() of the object the job holds.
Unsubscribed(j) == IF endpoint = jobs[j].at THEN 0 ELSE endpoint

Rollback(j) ==
  /\ At(j, "rollback")
  /\ endpoint' = Unsubscribed(j)
  /\ To(j, "idle")
  /\ UNCHANGED <<cookie, owner, sends, lapsed, issued, losses>>

\* unsubscribe() rejects, which is caught: the subscription stays.
RollbackFails(j) ==
  /\ At(j, "rollback")
  /\ To(j, "idle")
  /\ UNCHANGED <<cookie, endpoint, owner, sends, lapsed, issued, losses>>

---------------------------------------------------------------------------
(* Turning it off, and releasing it at logout *)

\* A logout goes on where turning it off ends.
After(j) == IF jobs[j].kind = "logout" THEN "leave" ELSE "idle"

StartRelease(j, kind) ==
  /\ At(j, "idle") /\ cookie # None
  /\ jobs' = [jobs EXCEPT ![j] =
       [kind |-> kind, at |-> endpoint, by |-> cookie,
        step |-> IF endpoint # 0 THEN "lookup" ELSE IF kind = "logout" THEN "leave" ELSE "idle"]]
  /\ lapsed' = lapsed \cup Crossed(j, kind)
  /\ UNCHANGED <<cookie, endpoint, owner, sends, issued, losses>>

\* The browser does not hand out its subscription: the logout goes on without a
\* release.  Turning push off would end here with nothing done.
LogoutUnreleased(j) ==
  /\ At(j, "idle") /\ cookie # None /\ endpoint # 0
  /\ jobs' = [jobs EXCEPT ![j] = [kind |-> "logout", at |-> 0, by |-> cookie, step |-> "leave"]]
  /\ UNCHANGED <<cookie, endpoint, owner, sends, issued, losses>>
  /\ lapsed' = lapsed \cup Crossed(j, "logout") \cup StillRung

\* A subscription of somebody else is left alone.
LookUp(j) ==
  /\ At(j, "lookup") /\ cookie # None
  /\ To(j, IF Owned(jobs[j].at, cookie) THEN "delete" ELSE After(j))
  /\ UNCHANGED <<cookie, endpoint, owner, sends, lapsed, issued, losses>>

\* Mutation of LookUpFails: ownership unknown counts as somebody else's, as when
\* push is turned off.
LookUpFailsSparing(j) ==
  /\ At(j, "lookup")
  /\ \/ cookie = None /\ UNCHANGED losses
     \/ cookie # None /\ Lose
  /\ To(j, After(j))
  /\ UNCHANGED <<cookie, endpoint, owner, sends, lapsed, issued>>

\* Only a logout releases what it could not look up.
LookUpFails(j) ==
  /\ At(j, "lookup")
  /\ \/ cookie = None /\ UNCHANGED losses
     \/ cookie # None /\ Lose
  /\ To(j, IF jobs[j].kind = "logout" THEN "delete" ELSE "idle")
  /\ UNCHANGED <<cookie, endpoint, owner, sends, lapsed, issued>>

\* deleteByEndpointForUser.
Disown(j) ==
  owner' = IF owner[jobs[j].at] = cookie THEN [owner EXCEPT ![jobs[j].at] = None] ELSE owner

Delete(j) ==
  /\ At(j, "delete") /\ cookie # None
  /\ Disown(j)
  /\ To(j, "drop")
  /\ UNCHANGED <<cookie, endpoint, sends, lapsed, issued, losses>>

DeleteFails(j) ==
  /\ At(j, "delete")
  /\ \/ cookie = None /\ UNCHANGED losses
     \/ cookie # None /\ Lose
  /\ To(j, IF jobs[j].kind = "logout" THEN "drop" ELSE "idle")
  /\ UNCHANGED <<cookie, endpoint, owner, sends, lapsed, issued>>

\* The row is deleted and the answer is lost: for the browser, a failure.
DeleteUnanswered(j) ==
  /\ At(j, "delete") /\ cookie # None /\ Lose
  /\ Disown(j)
  /\ To(j, IF jobs[j].kind = "logout" THEN "drop" ELSE "idle")
  /\ UNCHANGED <<cookie, endpoint, sends, issued>>
  /\ lapsed' = IF jobs[j].kind = "logout" THEN lapsed ELSE lapsed \cup StillRung

Drop(j) ==
  /\ At(j, "drop")
  /\ endpoint' = Unsubscribed(j)
  /\ To(j, After(j))
  /\ UNCHANGED <<cookie, owner, sends, lapsed, issued, losses>>

\* unsubscribe() rejects.  A logout proceeds regardless.
DropFails(j) ==
  /\ At(j, "drop")
  /\ To(j, After(j))
  /\ UNCHANGED <<cookie, endpoint, owner, sends, issued, losses>>
  /\ lapsed' = lapsed \cup StillRung

Outlived == [j \in Jobs |-> [jobs[j] EXCEPT !.by = None]]

\* The logout call ends the session the browser has by now.
Leave(j) ==
  /\ At(j, "leave")
  /\ cookie' = None
  /\ lapsed' = lapsed \cup ({cookie} \ {jobs[j].by, None})
  /\ jobs' = [Outlived EXCEPT ![j].step = "idle"]
  /\ UNCHANGED <<endpoint, owner, sends, issued, losses>>

\* When it fails, the session lives on.
LeaveFails(j) ==
  /\ At(j, "leave") /\ Lose
  /\ To(j, "idle")
  /\ UNCHANGED <<cookie, endpoint, owner, sends, lapsed, issued>>

---------------------------------------------------------------------------
(* Sessions *)

\* A lapse is over at the next login, but for sends that are still under way.
Login(a) ==
  /\ cookie = None
  /\ cookie' = a
  /\ lapsed' = IF \E s \in Sends : sends[s].to = a THEN lapsed ELSE lapsed \ {a}
  /\ UNCHANGED <<endpoint, owner, jobs, sends, issued, losses>>

\* The session expires or is revoked elsewhere: nothing runs on the device.
Expire ==
  /\ cookie # None /\ Lose
  /\ lapsed' = lapsed \cup {cookie}
  /\ cookie' = None
  /\ jobs' = Outlived
  /\ UNCHANGED <<endpoint, owner, sends, issued>>

\* requestWithdrawal revokes the sessions and deletes the rows.
Withdraw ==
  /\ cookie # None /\ Lose
  /\ owner' = [e \in Endpoints |-> IF owner[e] = cookie THEN None ELSE owner[e]]
  /\ lapsed' = lapsed \cup {cookie}
  /\ cookie' = None
  /\ jobs' = Outlived
  /\ UNCHANGED <<endpoint, sends, issued>>

---------------------------------------------------------------------------
(* Sending *)

\* sendToUser reads the account's rows.
StartSend(s, a) ==
  /\ sends[s] = NoSend /\ \E e \in Endpoints : owner[e] = a
  /\ sends' = [sends EXCEPT ![s] =
       [to |-> a, pending |-> {e \in Endpoints : owner[e] = a}, gone |-> {}]]
  /\ UNCHANGED <<cookie, endpoint, owner, jobs, lapsed, issued, losses>>

\* The push service has the device ring, or answers 410 for good.
Deliver(s, e) ==
  /\ e \in sends[s].pending
  /\ sends' = [sends EXCEPT ![s].pending = @ \ {e},
                            ![s].gone = IF e = endpoint THEN @ ELSE @ \cup {e}]
  /\ UNCHANGED <<cookie, endpoint, owner, jobs, lapsed, issued, losses>>

\* Any other failure leaves the row.
DeliverFails(s, e) ==
  /\ e \in sends[s].pending /\ Lose
  /\ sends' = [sends EXCEPT ![s].pending = @ \ {e}]
  /\ UNCHANGED <<cookie, endpoint, owner, jobs, lapsed, issued>>

\* deleteByEndpoints, for what was gone.
EndSend(s) ==
  /\ sends[s] # NoSend /\ sends[s].pending = {}
  /\ owner' = [e \in Endpoints |-> IF e \in sends[s].gone THEN None ELSE owner[e]]
  /\ sends' = [sends EXCEPT ![s] = NoSend]
  /\ UNCHANGED <<cookie, endpoint, jobs, lapsed, issued, losses>>

---------------------------------------------------------------------------
JobNext(j) ==
  \/ StartEnable(j) \/ Refuse(j) \/ BrowserSubscribe(j)
  \/ Register(j) \/ RegisterFails(j) \/ Rollback(j) \/ RollbackFails(j)
  \/ \E kind \in {"disable", "logout"} : StartRelease(j, kind)
  \/ LogoutUnreleased(j) \/ LookUp(j) \/ LookUpFails(j)
  \/ Delete(j) \/ DeleteFails(j) \/ DeleteUnanswered(j) \/ Drop(j) \/ DropFails(j)
  \/ Leave(j) \/ LeaveFails(j)

SendNext(s) ==
  \/ \E a \in Accounts : StartSend(s, a)
  \/ \E e \in Endpoints : Deliver(s, e) \/ DeliverFails(s, e)
  \/ EndSend(s)

PushNext ==
  \/ \E j \in Jobs : JobNext(j)
  \/ \E a \in Accounts : Login(a)
  \/ Expire \/ Withdraw
  \/ \E s \in Sends : SendNext(s)

PushSpec == PushInit /\ [][PushNext]_pushVars

---------------------------------------------------------------------------
(* Properties *)

\* "Called right before logout so this device stops receiving the departing
\* account's pushes" (releasePushOnLogout): the device rings for the account that
\* is signed in on it, also when the lookup or the DELETE of its release failed,
\* whatever sends were under way, and whatever pages turned push on and off before.
\* Excepted are: sessions that ended without a logout; logouts that overlap with
\* another page's task; and a subscription the browser did not hand out or give up,
\* or was not asked to because the answer of a DELETE was lost, while the account
\* still owned it or a send to the account was under way.  In the last case the
\* device does go on ringing for the account that left.
SilentAfterLogout == Rung \subseteq {cookie} \cup lapsed

=============================================================================
