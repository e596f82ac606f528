------------------------------ MODULE Browsing ------------------------------
(***************************************************************************)
(* One browser tab's idea of who is signed in: the cached answer of GET    *)
(* /auth/me, the cached answers of the queries that are enabled only while *)
(* it names somebody (the records, the inbox, the administrators' whoami), *)
(* the calls that change the session, and the session cookie the tab       *)
(* shares with the browser's other tabs.  apps/web and apps/admin keep the *)
(* same cache with the same hooks.                                         *)
(*                                                                         *)
(* A call carries the cookie it left with.  Its answer may come late, and  *)
(* setQueryData does not cancel a fetch that is already on its way.        *)
(***************************************************************************)
EXTENDS Naturals, FiniteSets, NoValue

CONSTANTS
    Visitors, \* accounts that use this browser
    Calls     \* the most session calls of the tab in the air at once

VARIABLES
    seat,      \* whose session the browser's cookie names, or None
    live,      \* members whose session the server still accepts
    closing,   \* accounts in their grace period
    me,        \* the query auth/me: who it names, whether it has settled
    mine,      \* a query that is enabled while signed in: whose rows it holds
    meTrip,    \* auth/me's fetch on its way
    mineTrip,  \* the other query's fetch on its way
    deeds,     \* session calls of this tab
    astray     \* the session changed and the cache was not cleared for it

browsingVars ==
    <<seat, live, closing, me, mine, meTrip, mineTrip, deeds, astray>>

Someone == Visitors \cup {None}
SignIns   == {"login", "signup"}
DeedKinds == SignIns \cup {"logout", "withdraw", "edit", "restore"}

NoTrip  == [leg |-> "home", as |-> None]
NoDeed  == [kind |-> None, as |-> None, leg |-> "home"]
Unknown == [who |-> None, settled |-> FALSE, closing |-> FALSE]
SignedOut  == [who |-> None, settled |-> TRUE, closing |-> FALSE]

\* toUserResponseDto with deletionGracePeriodEndsAt.
UserOf(m) == [who |-> m, settled |-> TRUE, closing |-> m \in closing]

\* toAuthStatus of useAuth.
AuthStatus == IF ~me.settled THEN "loading"
          ELSE IF me.who # None THEN "authenticated" ELSE "anonymous"

\* SessionGuard: the request's cookie names a session that is still accepted.
Admits(m) == m \in live

BrowsingInit ==
    /\ seat \in Someone
    /\ live = {seat} \ {None}
    /\ closing = {}
    /\ me = Unknown /\ mine = None
    /\ meTrip = NoTrip /\ mineTrip = NoTrip
    /\ deeds = [c \in Calls |-> NoDeed]
    /\ astray = FALSE

-----------------------------------------------------------------------------
(* The two queries.                                                        *)

Leaves(trip) == trip.leg = "home"
Sent         == [leg |-> "out", as |-> seat]

\* useCurrentUserQuery: on every mount of a component that asks who is here.
FetchMe ==
    /\ Leaves(meTrip) /\ meTrip' = Sent
    /\ UNCHANGED <<seat, live, closing, me, mine, mineTrip, deeds, astray>>

\* enabled: status === "authenticated".
FetchMine ==
    /\ AuthStatus = "authenticated" /\ Leaves(mineTrip)
    /\ mineTrip' = Sent
    /\ UNCHANGED <<seat, live, closing, me, mine, meTrip, deeds, astray>>

\* The server reads; an unguarded caller, or a lost answer, is a failure.
Reads(trip) == {[leg |-> "back", as |-> g] : g \in {None} \cup ({trip.as} \cap live)}

ServeMe ==
    /\ meTrip.leg = "out" /\ meTrip' \in Reads(meTrip)
    /\ UNCHANGED <<seat, live, closing, me, mine, mineTrip, deeds, astray>>

ServeMine ==
    /\ mineTrip.leg = "out" /\ mineTrip' \in Reads(mineTrip)
    /\ UNCHANGED <<seat, live, closing, me, mine, meTrip, deeds, astray>>

\* A failed fetch settles the query and keeps the data it had (retry: false).
MeArrives ==
    /\ meTrip.leg = "back" /\ meTrip' = NoTrip
    /\ me' = IF meTrip.as = None THEN [me EXCEPT !.settled = TRUE]
             ELSE UserOf(meTrip.as)
    /\ astray' = (astray \/ meTrip.as \notin {None, seat})
    /\ UNCHANGED <<seat, live, closing, mine, mineTrip, deeds>>

MineArrives ==
    /\ mineTrip.leg = "back" /\ mineTrip' = NoTrip
    /\ mine' = IF mineTrip.as = None THEN mine ELSE mineTrip.as
    /\ UNCHANGED <<seat, live, closing, me, meTrip, deeds, astray>>

-----------------------------------------------------------------------------
(* The calls.                                                              *)

\* What the screens offer: the login form while nobody is known to be here,
\* completing a sign-up to whoever opens the mailed link, the rest to the
\* member the cache names, restoring in the grace period.
Offered(kind) ==
    /\ kind = "login" => AuthStatus # "authenticated"
    /\ kind \in {"logout", "withdraw", "edit", "restore"}
           => AuthStatus = "authenticated"
    /\ kind = "restore" => me.closing

\* AccountRestoreDialog covers every page while the account is closing.
Uncovered(kind) == me.closing => kind \in {"restore", "logout"}

Ask(c, kind, m) ==
    /\ deeds[c] = NoDeed
    /\ Offered(kind) /\ Uncovered(kind)
    /\ deeds' = [deeds EXCEPT ![c] =
                    [kind |-> kind, leg |-> "out",
                     as |-> IF kind \in SignIns THEN m ELSE seat]]
    /\ UNCHANGED <<seat, live, closing, me, mine, meTrip, mineTrip, astray>>

Served(c) == deeds' = [deeds EXCEPT ![c].leg = "done"]

\* AuthController.login and completeSignup: neither asks for a session, nor
\* ends the one the request came with.
ServeLogin(c) ==
    LET m == deeds[c].as IN
    /\ deeds[c].leg = "out" /\ deeds[c].kind \in SignIns
    /\ live' = live \cup {m}
    /\ Served(c)
    /\ UNCHANGED <<seat, closing, me, mine, meTrip, mineTrip, astray>>

\* AuthController.logout, withdraw and restoreAccount, UsersController's
\* edits; all behind SessionGuard.
ServeGuarded(c) ==
    LET m == deeds[c].as IN
    /\ deeds[c].leg = "out" /\ deeds[c].kind \notin SignIns
    /\ Admits(m)
    /\ live' = IF deeds[c].kind \in {"logout", "withdraw"}
               THEN live \ {m} ELSE live
    /\ closing' = CASE deeds[c].kind = "withdraw" -> closing \cup {m}
                     [] deeds[c].kind = "restore" -> closing \ {m}
                     [] OTHER -> closing
    /\ Served(c)
    /\ UNCHANGED <<seat, me, mine, meTrip, mineTrip, astray>>

\* A refusal, a wrong password, or an answer that is lost on the way: the
\* mutation rejects and the cache stays as it is.
FailDeed(c) ==
    /\ deeds[c].leg \in {"out", "done"}
    /\ deeds' = [deeds EXCEPT ![c] = NoDeed]
    /\ UNCHANGED <<seat, live, closing, me, mine, meTrip, mineTrip, astray>>

Answers(c, kinds) ==
    /\ deeds[c].leg = "done" /\ deeds[c].kind \in kinds
    /\ deeds' = [deeds EXCEPT ![c] = NoDeed]

\* useLoginMutation and useCompleteSignupMutation, after the answer's cookie is
\* stored: auth/me is rewritten, and the rows of a member it named stay.
AnswerLogin(c) ==
    /\ Answers(c, SignIns)
    /\ seat' = deeds[c].as
    /\ me' = UserOf(deeds[c].as)
    /\ astray' = (astray \/ me.who \notin {None, deeds[c].as})
    /\ UNCHANGED <<live, closing, mine, meTrip, mineTrip>>

\* The departed member's rows stay.
AnswerLogoutKeeping(c) ==
    /\ Answers(c, {"logout"})
    /\ seat' = None
    /\ me' = SignedOut
    /\ UNCHANGED <<live, closing, mine, meTrip, mineTrip, astray>>

\* useLogoutMutation: clear() drops the data and forgets every fetch on its
\* way, then the signed-out answer is written.
AnswerLogout(c) ==
    /\ Answers(c, {"logout"})
    /\ seat' = None
    /\ me' = SignedOut /\ mine' = None
    /\ meTrip' = NoTrip /\ mineTrip' = NoTrip
    /\ UNCHANGED <<live, closing, astray>>

\* useWithdrawMutation: only auth/me is rewritten.
AnswerWithdraw(c) ==
    /\ Answers(c, {"withdraw"})
    /\ seat' = None
    /\ me' = SignedOut
    /\ astray' = TRUE
    /\ UNCHANGED <<live, closing, mine, meTrip, mineTrip>>

\* useUpdateNicknameMutation, useUpdateProfileVisibilityMutation and
\* useRestoreAccountMutation write the member who asked, however late.
AnswerEdit(c) ==
    /\ Answers(c, {"edit", "restore"})
    /\ me' = UserOf(deeds[c].as)
    /\ astray' = (astray \/ deeds[c].as # seat \/ me.who # deeds[c].as)
    /\ UNCHANGED <<seat, live, closing, mine, meTrip, mineTrip>>

-----------------------------------------------------------------------------
(* Elsewhere.  A session that expires, or is revoked by another device, is *)
(* to this tab a server that refuses from then on: Reads and FailDeed already   *)
(* allow it.                                                               *)

\* Another tab of this browser signs out, or signs somebody in.
OtherTab(m) ==
    /\ m # seat
    /\ seat' = m
    /\ live' = (live \ {seat}) \cup ({m} \ {None})
    /\ astray' = TRUE
    /\ UNCHANGED <<closing, me, mine, meTrip, mineTrip, deeds>>

\* Bound: a tab that has gone astray is not followed further.
Followed == ~astray

BrowsingNext ==
    /\ Followed
    /\ \/ FetchMe \/ FetchMine \/ ServeMe \/ ServeMine
       \/ MeArrives \/ MineArrives
       \/ \E c \in Calls :
              \/ \E kind \in DeedKinds, m \in Visitors : Ask(c, kind, m)
              \/ ServeLogin(c) \/ ServeGuarded(c) \/ FailDeed(c)
              \/ AnswerLogin(c) \/ AnswerLogout(c)
              \/ AnswerWithdraw(c) \/ AnswerEdit(c)
       \/ \E m \in Someone : OtherTab(m)

BrowsingSpec == BrowsingInit /\ [][BrowsingNext]_browsingVars

-----------------------------------------------------------------------------
(* Properties.                                                             *)

BrowsingTypeOK ==
    /\ seat \in Someone
    /\ live \subseteq Visitors
    /\ closing \subseteq Visitors
    /\ me \in [who : Someone, settled : BOOLEAN, closing : BOOLEAN]
    /\ mine \in Someone
    /\ {meTrip, mineTrip} \subseteq
           [leg : {"home", "out", "back"}, as : Someone]
    /\ deeds \in [Calls -> [kind : DeedKinds \cup {None}, as : Someone,
                            leg : {"home", "out", "done"}]]
    /\ astray \in BOOLEAN

(***************************************************************************)
(* Whoever the tab says is signed in, the rows it holds are theirs: what a *)
(* member leaves in the cache does not reach the next one of a shared      *)
(* browser, in whatever order fetches, edits and a logout are answered.    *)
(* That is what the logout's clear() is for, and it holds of logouts only. *)
(* Excepted are the changes of session that clear nothing, after which the *)
(* rows do leak: one in another tab; a withdrawal; a sign-up completed, or *)
(* a login answered, while somebody else is shown as signed in; and an     *)
(* answer to a member who had already left.                                *)
(***************************************************************************)
RecordsAreOwn ==
    AuthStatus = "authenticated" /\ mine # None /\ ~astray => mine = me.who

=============================================================================
