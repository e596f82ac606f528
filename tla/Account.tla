------------------------------ MODULE Account ------------------------------
(***************************************************************************)
(* Withdrawal of an account: the grace period, the nightly sweep, and the  *)
(* sessions, logins and links that can outlive it.                         *)
(*                                                                         *)
(* POST /auth/withdraw ends the caller's sessions and push subscriptions   *)
(* and then either starts a 30-day grace period or finalises the account   *)
(* at once.  A daily sweep finalises the accounts whose grace period is    *)
(* over.  To finalise is four statements with no transaction around them:  *)
(* scrub the users row, then delete the identities, the subscriptions and  *)
(* the notifications.  Each statement is one action here, so finalisation  *)
(* interleaves with logins, with guarded requests that passed SessionGuard *)
(* earlier, with password resets and with the end of the process.          *)
(*                                                                         *)
(* Each user has one social account at one provider.  Every account is     *)
(* verified: rows from before email verification are not modelled, nor is  *)
(* sign-up, so an OAuth login that matches no account ends here.  Nothing  *)
(* here reads notifications: deleting them is a step without data.         *)
(***************************************************************************)
EXTENDS Naturals, FiniteSets, NoValue

CONSTANTS
  Users,         \* rows of the users table
  Tokens,        \* bound: sessions that can exist together
  Calls,         \* request handlers that can be in flight together
  Entries,       \* bound: the ways in that are used
  Sweep,         \* AccountDeletionCronService's daily job
  MaxFailures    \* bound: how many times the process or the sweep fails

\* What a guarded request goes on to do once SessionGuard let it in.
Requests == {"withdraw", "restore", "rename", "subscribe", "link"}
AllEntries == Requests \cup {"login", "oauth", "issue", "reset"}

ASSUME EntriesAssumption == Entries \subseteq AllEntries
ASSUME SweepAssumption == Sweep \notin Calls
ASSUME NoneAssumption == None \notin Users
ASSUME MaxFailuresAssumption == MaxFailures \in Nat

VARIABLES
  account,         \* the columns of each users row
  sessions,        \* the rows of sessions: whose each one is
  identities,      \* users with a row in oauth_identities
  subscriptions,   \* users with a row in push_subscriptions
  links,           \* users with a password reset link that is neither used nor expired
  proc,            \* the request handlers and the sweep
  todo,            \* the accounts the sweep listed and has not reached
  touched,         \* history: accounts restored, or withdrawn again, since that listing
  failures         \* how many failures there were so far

rows == <<account, sessions, identities, subscriptions, links>>
jobs == <<todo, touched, failures>>
vars == <<rows, proc, jobs>>

Procs == Calls \cup {Sweep}

---------------------------------------------------------------------------
(* Types *)

\* deletion is deletionRequestedAt: null, within the grace period, or older.
\* password and nickname tell whether the column is set.
Columns ==
  [deletion : {"none", "recent", "lapsed"}, deleted : BOOLEAN,
   password : BOOLEAN, nickname : BOOLEAN]

Steps ==
  Requests \cup
  {"idle", "proved", "unknown", "merging", "revoked", "silenced", "renaming",
   "linking", "issuing", "resetting", "spending",
   "closing", "scrubbed", "unlinked", "unsubscribed", "sweeping"}

ProcState == [step : Steps, user : Users \cup {None}, immediate : BOOLEAN]
Idle == [step |-> "idle", user |-> None, immediate |-> FALSE]

TypeOK ==
  /\ account \in [Users -> Columns]
  /\ sessions \in [Tokens -> Users \cup {None}]
  /\ identities \subseteq Users
  /\ subscriptions \subseteq Users
  /\ links \subseteq Users
  /\ proc \in [Procs -> ProcState]
  /\ todo \subseteq Users
  /\ touched \subseteq Users
  /\ failures \in 0..MaxFailures

---------------------------------------------------------------------------
(* Handlers *)

At(p, step) == proc[p].step = step
Begin(p, step, u) ==
  /\ At(p, "idle")
  /\ proc' = [proc EXCEPT ![p] = [Idle EXCEPT !.step = step, !.user = u]]
Goto(p, step) == proc' = [proc EXCEPT ![p].step = step]
Finish(p) == proc' = [proc EXCEPT ![p] = Idle]

Lapsed(u) == account[u].deletion = "lapsed"

\* Mutant: the scrub keeps the address.
KnownForEver(u) == account[u] \in Columns

\* findByEmail: the address of a scrubbed account was replaced.
KnownByEmail(u) == ~account[u].deleted

---------------------------------------------------------------------------
(* Logging in *)

\* login: the row found by email has a password and the given one matches.
ReadCredentials(c, u) ==
  /\ KnownByEmail(u)
  /\ account[u].password
  /\ Begin(c, "proved", u)
  /\ UNCHANGED <<rows, jobs>>

\* loginWithOAuth: an identity leads to its user, whatever state that is in.
FindIdentity(c, u) ==
  /\ Begin(c, IF u \in identities THEN "proved" ELSE "unknown", u)
  /\ UNCHANGED <<rows, jobs>>

\* No identity: the account with the profile's email is merged into.
MatchEmail(c) ==
  /\ At(c, "unknown")
  /\ IF KnownByEmail(proc[c].user) THEN Goto(c, "merging") ELSE Finish(c)
  /\ UNCHANGED <<rows, jobs>>

\* The identity's unique constraint refuses a second row.
InsertIdentity(c, step, next) ==
  /\ At(c, step)
  /\ proc[c].user \notin identities
  /\ identities' = identities \cup {proc[c].user}
  /\ IF next = "idle" THEN Finish(c) ELSE Goto(c, next)
  /\ UNCHANGED <<account, sessions, subscriptions, links, jobs>>

MergeIdentity(c) == InsertIdentity(c, "merging", "proved")

CreateSession(c) ==
  /\ At(c, "proved")
  /\ \E s \in Tokens :
       /\ sessions[s] = None
       /\ sessions' = [sessions EXCEPT ![s] = proc[c].user]
  /\ Finish(c)
  /\ UNCHANGED <<account, identities, subscriptions, links, jobs>>

\* logout, or a session found past its expiry.
EndSession(s) ==
  /\ sessions[s] # None
  /\ sessions' = [sessions EXCEPT ![s] = None]
  /\ UNCHANGED <<account, identities, subscriptions, links, proc, jobs>>

---------------------------------------------------------------------------
(* Requests behind SessionGuard *)

\* Mutant: the subscription route is left without its guard.
AuthoriseAnyDevice(c, s, request, immediate) ==
  /\ At(c, "idle")
  /\ sessions[s] # None \/ request = "subscribe"
  /\ immediate => request = "withdraw"
  /\ proc' = [proc EXCEPT ![c] =
                [step |-> request, user |-> sessions[s], immediate |-> immediate]]
  /\ UNCHANGED <<rows, jobs>>

\* The guard reads the session and nothing of the user.
Authorise(c, s, request, immediate) ==
  /\ At(c, "idle")
  /\ sessions[s] # None
  /\ immediate => request = "withdraw"
  /\ proc' = [proc EXCEPT ![c] =
                [step |-> request, user |-> sessions[s], immediate |-> immediate]]
  /\ UNCHANGED <<rows, jobs>>

Subscribe(c) ==
  /\ At(c, "subscribe")
  /\ subscriptions' = subscriptions \cup {proc[c].user}
  /\ Finish(c)
  /\ UNCHANGED <<account, sessions, identities, links, jobs>>

\* updateNickname: the first nickname is free; a change may come within the
\* cooldown, and is then refused.
CheckNickname(c) ==
  /\ At(c, "rename")
  /\ \/ Goto(c, "renaming")
     \/ account[proc[c].user].nickname /\ Finish(c)
  /\ UNCHANGED <<rows, jobs>>

WriteNickname(c) ==
  /\ At(c, "renaming")
  /\ account' = [account EXCEPT ![proc[c].user].nickname = TRUE]
  /\ Finish(c)
  /\ UNCHANGED <<sessions, identities, subscriptions, links, jobs>>

\* linkOAuth: the caller's own identity already there is a no-op.
CheckLink(c) ==
  /\ At(c, "link")
  /\ IF proc[c].user \in identities THEN Finish(c) ELSE Goto(c, "linking")
  /\ UNCHANGED <<rows, jobs>>

LinkIdentity(c) == InsertIdentity(c, "linking", "idle")

\* A restore or a new withdrawal while the sweep runs comes after its listing.
Touch(u) == touched' = IF At(Sweep, "idle") THEN touched ELSE touched \cup {u}

RestoreAccount(c) ==
  /\ At(c, "restore")
  /\ account' = [account EXCEPT ![proc[c].user].deletion = "none"]
  /\ Touch(proc[c].user)
  /\ Finish(c)
  /\ UNCHANGED <<sessions, identities, subscriptions, links, todo, failures>>

---------------------------------------------------------------------------
(* requestWithdrawal *)

RevokeSessions(c) ==
  /\ At(c, "withdraw")
  /\ sessions' = [s \in Tokens |-> IF sessions[s] = proc[c].user THEN None ELSE sessions[s]]
  /\ Goto(c, "revoked")
  /\ UNCHANGED <<account, identities, subscriptions, links, jobs>>

\* Mutant: every withdrawal is finalised at once.
SilenceAndClose(c) ==
  /\ At(c, "revoked")
  /\ subscriptions' = subscriptions \ {proc[c].user}
  /\ Goto(c, "closing")
  /\ UNCHANGED <<account, sessions, identities, links, jobs>>

SilenceDevices(c) ==
  /\ At(c, "revoked")
  /\ subscriptions' = subscriptions \ {proc[c].user}
  /\ Goto(c, IF proc[c].immediate THEN "closing" ELSE "silenced")
  /\ UNCHANGED <<account, sessions, identities, links, jobs>>

RequestDeletion(c) ==
  /\ At(c, "silenced")
  /\ account' = [account EXCEPT ![proc[c].user].deletion = "recent"]
  /\ Touch(proc[c].user)
  /\ Finish(c)
  /\ UNCHANGED <<sessions, identities, subscriptions, links, todo, failures>>

---------------------------------------------------------------------------
(* finalizeAccountDeletion, for a withdrawal and for the sweep *)

ScrubForDeletion(p) ==
  /\ At(p, "closing")
  /\ account' = [account EXCEPT ![proc[p].user] =
                   [@ EXCEPT !.deleted = TRUE, !.password = FALSE, !.nickname = FALSE]]
  /\ Goto(p, "scrubbed")
  /\ UNCHANGED <<sessions, identities, subscriptions, links, jobs>>

\* Mutant: the identities are deleted before the row is scrubbed.
DeleteIdentitiesFirst(p) ==
  /\ proc[p].step \in {"closing", "scrubbed"}
  /\ identities' = identities \ {proc[p].user}
  /\ IF At(p, "closing") THEN UNCHANGED proc ELSE Goto(p, "unlinked")
  /\ UNCHANGED <<account, sessions, subscriptions, links, jobs>>

DeleteIdentities(p) ==
  /\ At(p, "scrubbed")
  /\ identities' = identities \ {proc[p].user}
  /\ Goto(p, "unlinked")
  /\ UNCHANGED <<account, sessions, subscriptions, links, jobs>>

DeleteSubscriptions(p) ==
  /\ At(p, "unlinked")
  /\ subscriptions' = subscriptions \ {proc[p].user}
  /\ Goto(p, "unsubscribed")
  /\ UNCHANGED <<account, sessions, identities, links, jobs>>

DeleteNotifications(p) ==
  /\ At(p, "unsubscribed")
  /\ IF p = Sweep
     THEN proc' = [proc EXCEPT ![p] = [Idle EXCEPT !.step = "sweeping"]]
     ELSE Finish(p)
  /\ UNCHANGED <<rows, jobs>>

Finalise(p) ==
  \/ ScrubForDeletion(p)
  \/ DeleteIdentities(p)
  \/ DeleteSubscriptions(p)
  \/ DeleteNotifications(p)

---------------------------------------------------------------------------
(* The sweep *)

\* Mutant: the cutoff is forgotten.
FindAnyPending == {u \in Users : account[u].deletion # "none" /\ ~account[u].deleted}

\* Mutant: accounts that still have a session are left alone.
FindLoggedOut ==
  {u \in Users : Lapsed(u) /\ ~account[u].deleted /\ \A s \in Tokens : sessions[s] # u}

FindPendingDeletionBefore == {u \in Users : Lapsed(u) /\ ~account[u].deleted}

\* An empty listing ends the sweep without a trace.
ListExpired ==
  /\ At(Sweep, "idle")
  /\ FindPendingDeletionBefore # {}
  /\ todo' = FindPendingDeletionBefore
  /\ touched' = {}
  /\ Goto(Sweep, "sweeping")
  /\ UNCHANGED <<rows, failures>>

FinaliseNext(u) ==
  /\ At(Sweep, "sweeping")
  /\ u \in todo
  /\ todo' = todo \ {u}
  /\ proc' = [proc EXCEPT ![Sweep] = [Idle EXCEPT !.step = "closing", !.user = u]]
  /\ UNCHANGED <<rows, touched, failures>>

EndSweep ==
  /\ At(Sweep, "sweeping")
  /\ todo = {}
  /\ Finish(Sweep)
  /\ touched' = {}
  /\ UNCHANGED <<rows, todo, failures>>

SweepStep ==
  \/ ListExpired
  \/ \E u \in Users : FinaliseNext(u)
  \/ EndSweep
  \/ Finalise(Sweep)

---------------------------------------------------------------------------
(* Password reset links *)

\* issuePasswordResetLink: the admin names the account by its email.
FindForLink(c, u) ==
  /\ KnownByEmail(u)
  /\ Begin(c, "issuing", u)
  /\ UNCHANGED <<rows, jobs>>

IssueLink(c) ==
  /\ At(c, "issuing")
  /\ links' = links \cup {proc[c].user}
  /\ Finish(c)
  /\ UNCHANGED <<account, sessions, identities, subscriptions, jobs>>

FindLink(c, u) ==
  /\ u \in links
  /\ Begin(c, "resetting", u)
  /\ UNCHANGED <<rows, jobs>>

UpdatePassword(c) ==
  /\ At(c, "resetting")
  /\ account' = [account EXCEPT ![proc[c].user].password = TRUE]
  /\ Goto(c, "spending")
  /\ UNCHANGED <<sessions, identities, subscriptions, links, jobs>>

MarkUsed(c) ==
  /\ At(c, "spending")
  /\ links' = links \ {proc[c].user}
  /\ Finish(c)
  /\ UNCHANGED <<account, sessions, identities, subscriptions, jobs>>

---------------------------------------------------------------------------
(* Time and failures *)

GraceEnds(u) ==
  /\ account[u].deletion = "recent"
  /\ account' = [account EXCEPT ![u].deletion = "lapsed"]
  /\ UNCHANGED <<sessions, identities, subscriptions, links, proc, jobs>>

LinkExpires(u) ==
  /\ u \in links
  /\ links' = links \ {u}
  /\ UNCHANGED <<account, sessions, identities, subscriptions, proc, jobs>>

CallFails(c) ==
  /\ ~At(c, "idle")
  /\ Finish(c)
  /\ UNCHANGED <<rows, jobs>>

\* A statement of the sweep fails: the loop is left.
SweepFails ==
  /\ ~At(Sweep, "idle")
  /\ failures < MaxFailures
  /\ failures' = failures + 1
  /\ Finish(Sweep)
  /\ todo' = {}
  /\ touched' = {}
  /\ UNCHANGED rows

Crash ==
  /\ \E p \in Procs : ~At(p, "idle")
  /\ failures < MaxFailures
  /\ failures' = failures + 1
  /\ proc' = [p \in Procs |-> Idle]
  /\ todo' = {}
  /\ touched' = {}
  /\ UNCHANGED rows

---------------------------------------------------------------------------
(* An account is there when the model starts: it has a way to log in. *)
Init ==
  /\ \E password \in [Users -> BOOLEAN] :
       /\ account = [u \in Users |->
            [deletion |-> "none", deleted |-> FALSE, password |-> password[u],
             nickname |-> FALSE]]
       /\ identities = {u \in Users : ~password[u]}
  /\ sessions = [s \in Tokens |-> None]
  /\ subscriptions = {}
  /\ links = {}
  /\ proc = [p \in Procs |-> Idle]
  /\ todo = {}
  /\ touched = {}
  /\ failures = 0

Start(c) ==
  \/ "login" \in Entries /\ \E u \in Users : ReadCredentials(c, u)
  \/ "oauth" \in Entries /\ \E u \in Users : FindIdentity(c, u)
  \/ "issue" \in Entries /\ \E u \in Users : FindForLink(c, u)
  \/ "reset" \in Entries /\ \E u \in Users : FindLink(c, u)
  \/ \E s \in Tokens, request \in Requests \cap Entries, immediate \in BOOLEAN :
       Authorise(c, s, request, immediate)

Continue(c) ==
  \/ MatchEmail(c) \/ MergeIdentity(c) \/ CreateSession(c)
  \/ Subscribe(c) \/ CheckNickname(c) \/ WriteNickname(c)
  \/ CheckLink(c) \/ LinkIdentity(c) \/ RestoreAccount(c)
  \/ RevokeSessions(c) \/ SilenceDevices(c) \/ RequestDeletion(c)
  \/ IssueLink(c) \/ UpdatePassword(c) \/ MarkUsed(c)
  \/ Finalise(c)

Environment ==
  \/ \E s \in Tokens : EndSession(s)
  \/ \E u \in Users : GraceEnds(u) \/ LinkExpires(u)
  \/ \E c \in Calls : CallFails(c)
  \/ SweepFails
  \/ Crash

Next ==
  \/ \E c \in Calls : Start(c) \/ Continue(c)
  \/ SweepStep
  \/ Environment

Spec == Init /\ [][Next]_vars

\* The sweep is scheduled every day and its statements return; so do those of
\* a withdrawal that finalises.  Nobody has to log in, restore or withdraw.
Fairness ==
  /\ WF_vars(SweepStep)
  /\ \A c \in Calls : WF_vars(Finalise(c))

FairSpec == Spec /\ Fairness

---------------------------------------------------------------------------
(* Properties *)

\* users.schema.ts: while a deletion is pending nothing is scrubbed, so that a
\* restore has nothing to bring back.  An account that is not finalised never
\* loses its password, its nickname or its identity, whatever handlers, sweeps
\* and failures interleave.
GraceLosesNothing ==
  [][\A u \in Users :
       ~account'[u].deleted =>
         /\ account[u].password => account'[u].password
         /\ account[u].nickname => account'[u].nickname
         /\ u \in identities => u \in identities']_vars

\* Handlers that may still be at work for a closed account: they can set a
\* password nobody can use, or end with nothing.
Harmless == {"unknown", "resetting", "spending"}

\* The account is finalised, everything that led into it is gone, and nothing
\* that began before is still on its way.
Closed(u) ==
  /\ account[u].deleted
  /\ ~account[u].nickname
  /\ u \notin identities
  /\ u \notin subscriptions
  /\ u \notin todo
  /\ \A s \in Tokens : sessions[s] # u
  /\ \A p \in Procs : proc[p].user = u => proc[p].step \in Harmless

\* withdrawal-cleanup.service.ts: scrubbing the row and deleting the identities
\* closes every way back in.  No password, OAuth login, reset link or sweep
\* reopens a closed account, and its nickname and devices stay gone.
ClosedForEver == [][\A u \in Users : Closed(u) => Closed(u)']_vars

\* account-deletion-cron.service.ts: the sweep finalises the accounts "whose
\* 30-day grace period has lapsed without being restored" - up to a restore or
\* a new withdrawal that lands after the sweep listed its accounts.
SweepHonoursGrace ==
  [][\A u \in Users :
       At(Sweep, "closing") /\ At(Sweep, "scrubbed")' /\ proc[Sweep].user = u =>
         Lapsed(u) \/ u \in touched]_vars

\* What Withdrawal sees of a row, of the sweep's list and of a withdrawal that is
\* to finalise at once.
PhaseOf(row) ==
  IF row.deleted THEN "closed"
  ELSE CASE row.deletion = "none" -> "active"
         [] row.deletion = "recent" -> "pending"
         [] row.deletion = "lapsed" -> "lapsed"
KeysOf(u) ==
  {key \in {"password", "nickname", "identity"} :
     \/ key = "password" /\ account[u].password
     \/ key = "nickname" /\ account[u].nickname
     \/ key = "identity" /\ u \in identities}
Phase == [u \in Users |-> PhaseOf(account[u])]
Held == [u \in Users |-> KeysOf(u)]
Found == todo \cup {u \in Users : At(Sweep, "closing") /\ proc[Sweep].user = u}
AtOnce(p) == proc[p].immediate /\ proc[p].step \in {"withdraw", "revoked", "closing"}
Waived == {u \in Users : \E c \in Calls : AtOnce(c) /\ proc[c].user = u}

\* Sessions, handlers and the statements of each, the sweep and its failures
\* amount to what Withdrawal says: no account is closed but by a sweep that had
\* found it past its grace period or by its owner's own request to do so at once,
\* and nothing else takes its password, nickname or identity.
Leaving == INSTANCE Withdrawal WITH
  phase <- Phase, keys <- Held, listed <- Found, waived <- Waived
ImplementsWithdrawal == Leaving!Spec

\* The same sentence of the cron's comment without the reservation.
RestoredIsKept ==
  [][\A u \in Users :
       At(Sweep, "closing") /\ At(Sweep, "scrubbed")' /\ proc[Sweep].user = u =>
         Lapsed(u)]_vars

\* auth.controller.ts, restore-account: a live session "already proves the grace
\* period hasn't been finalized yet" - nobody holds a session of an account that
\* is scrubbed and has lost its identities.
SessionProvesNotFinalised ==
  \A s \in Tokens, u \in Users :
    sessions[s] = u => ~(account[u].deleted /\ u \notin identities)

\* The sweep reaches every account whose grace period is over, also when it or
\* the process fails on the way, unless its owner restores it or starts again.
LapsedIsFinalised ==
  \A u \in Users : Lapsed(u) ~> (account[u].deleted \/ ~Lapsed(u))

\* users.schema.ts, deletedAt: once an account is finalised its identities are
\* gone.
FinalisedIsUnlinked ==
  \A u \in Users : account[u].deleted ~> u \notin identities

===========================================================================
