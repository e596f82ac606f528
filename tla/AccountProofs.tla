--------------------------- MODULE AccountProofs ---------------------------
(***************************************************************************)
(* Proofs about Account for any users, sessions, handlers and bounds, the  *)
(* types of Inbox for any notifications and page calls, and the records    *)
(* page for any words, ranges and pages.                                   *)
(*                                                                         *)
(* What the properties say of the tables rests on where the handlers are:  *)
(* whoever deletes identities has scrubbed the row before, and an account  *)
(* on the sweep's list is past its grace period or was touched since.  The *)
(* records page needs that a queued state is on its first page.            *)
(***************************************************************************)
EXTENDS MCLive, MCOwn, FiniteSetTheorems, TLAPS

---------------------------------------------------------------------------
(* The inductive invariant *)

Finalising == {"closing", "scrubbed", "unlinked", "unsubscribed"}

\* A handler that runs has a user; the sweep has one while it finalises.
UsersKnown ==
  \A p \in Procs : ~At(p, "idle") /\ ~At(p, "sweeping") => proc[p].user \in Users

\* The sweep does nothing but finalise, and no handler sweeps.
PlacesKept ==
  /\ proc[Sweep].step \in Finalising \cup {"idle", "sweeping"}
  /\ \A c \in Calls : ~At(c, "sweeping")
  /\ At(Sweep, "idle") => todo = {}

ScrubbedFirst ==
  \A p \in Procs :
    proc[p].step \in {"scrubbed", "unlinked", "unsubscribed"} => account[proc[p].user].deleted

\* An account the sweep listed and has not scrubbed.
SweepLists(u) == u \in todo \/ (At(Sweep, "closing") /\ proc[Sweep].user = u)

ListingCurrent == \A u \in Users : SweepLists(u) => Lapsed(u) \/ u \in touched

IInv == TypeOK /\ UsersKnown /\ PlacesKept /\ ScrubbedFirst /\ ListingCurrent

---------------------------------------------------------------------------
(* Types *)

LEMMA TypeInit == Init => IInv
<1> SUFFICES ASSUME Init PROVE IInv OBVIOUS
<1> USE SweepAssumption, NoneAssumption, MaxFailuresAssumption DEF Init
<1>1. Idle \in ProcState BY DEF Idle, ProcState, Steps
<1>2. \A p \in Procs : At(p, "idle") BY DEF At, Idle
<1>3. TypeOK
  <2>1. account \in [Users -> Columns] BY DEF Columns
  <2>2. failures \in 0..MaxFailures OBVIOUS
  <2> QED BY <1>1, <2>1, <2>2 DEF TypeOK
<1>4. \A p \in Procs : proc[p].step = "idle" BY <1>2 DEF At
<1>5. PlacesKept BY <1>4 DEF PlacesKept, Procs, At, Finalising
<1> QED
  BY <1>3, <1>4, <1>5
  DEF IInv, UsersKnown, ScrubbedFirst, ListingCurrent, SweepLists, At, Procs

\* Moving a process or ending it keeps the type of proc.
LEMMA ProcTyped ==
  ASSUME TypeOK, NEW p \in Procs
  PROVE  /\ \A step \in Steps : Goto(p, step) => proc' \in [Procs -> ProcState]
         /\ Finish(p) => proc' \in [Procs -> ProcState]
         /\ \A step \in Steps, u \in Users : Begin(p, step, u) => proc' \in [Procs -> ProcState]
<1>1. Idle \in ProcState BY DEF Idle, ProcState, Steps
<1>2. proc \in [Procs -> ProcState] BY DEF TypeOK
<1>3. ASSUME NEW step \in Steps, Goto(p, step) PROVE proc' \in [Procs -> ProcState]
  <2>1. [proc[p] EXCEPT !.step = step] \in ProcState BY <1>2 DEF ProcState
  <2> QED BY <1>2, <1>3, <2>1 DEF Goto
<1>4. ASSUME NEW step \in Steps, NEW u \in Users, Begin(p, step, u)
      PROVE  proc' \in [Procs -> ProcState]
  <2>1. [Idle EXCEPT !.step = step, !.user = u] \in ProcState BY <1>1 DEF ProcState
  <2> QED BY <1>2, <1>4, <2>1 DEF Begin
<1>5. Finish(p) => proc' \in [Procs -> ProcState] BY <1>1, <1>2 DEF Finish
<1> QED BY <1>3, <1>4, <1>5

\* Steps of a handler that write no table and no list.
LocalStep(c) ==
  \/ \E u \in Users :
       ReadCredentials(c, u) \/ FindIdentity(c, u) \/ FindForLink(c, u) \/ FindLink(c, u)
  \/ \E s \in Tokens, request \in Requests, immediate \in BOOLEAN :
       Authorise(c, s, request, immediate)
  \/ MatchEmail(c) \/ CheckNickname(c) \/ CheckLink(c)
  \/ CallFails(c)

LEMMA LocalTyped ==
  ASSUME IInv, NEW c \in Calls, LocalStep(c)
  PROVE  TypeOK'
<1> USE DEF IInv
<1>1. c \in Procs BY DEF Procs
<1>2. proc' \in [Procs -> ProcState]
  <2>1. ASSUME NEW u \in Users,
               ReadCredentials(c, u) \/ FindIdentity(c, u) \/ FindForLink(c, u) \/ FindLink(c, u)
        PROVE  proc' \in [Procs -> ProcState]
    BY <1>1, <2>1, ProcTyped DEF ReadCredentials, FindIdentity, FindForLink, FindLink, Steps
  <2>2. ASSUME NEW s \in Tokens, NEW request \in Requests, NEW immediate \in BOOLEAN,
               Authorise(c, s, request, immediate)
        PROVE  proc' \in [Procs -> ProcState]
    <3>1. sessions[s] \in Users BY <2>2 DEF Authorise, TypeOK
    <3>2. [step |-> request, user |-> sessions[s], immediate |-> immediate] \in ProcState
      BY <3>1 DEF ProcState, Steps
    <3> QED BY <2>2, <3>2 DEF Authorise, TypeOK
  <2>3. CASE MatchEmail(c) \/ CheckNickname(c) \/ CheckLink(c) \/ CallFails(c)
    BY <1>1, <2>3, ProcTyped DEF MatchEmail, CheckNickname, CheckLink, CallFails, Steps
  <2> QED BY <2>1, <2>2, <2>3 DEF LocalStep
<1>3. UNCHANGED <<rows, jobs>>
  BY DEF LocalStep, ReadCredentials, FindIdentity, FindForLink, FindLink, Authorise,
         MatchEmail, CheckNickname, CheckLink, CallFails
<1> QED BY <1>2, <1>3 DEF TypeOK, rows, jobs

\* Steps of a handler that write a table.
TableStep(c) ==
  \/ MergeIdentity(c) \/ CreateSession(c) \/ Subscribe(c) \/ WriteNickname(c)
  \/ LinkIdentity(c) \/ RestoreAccount(c)
  \/ RevokeSessions(c) \/ SilenceDevices(c) \/ RequestDeletion(c)
  \/ IssueLink(c) \/ UpdatePassword(c) \/ MarkUsed(c)

LEMMA TableTyped ==
  ASSUME IInv, NEW c \in Calls, TableStep(c)
  PROVE  TypeOK'
<1> USE DEF IInv
<1>1. c \in Procs /\ proc[c].user \in Users
  BY DEF Procs, TableStep, MergeIdentity, CreateSession, Subscribe, WriteNickname,
         LinkIdentity, InsertIdentity, RestoreAccount, RevokeSessions, SilenceDevices,
         RequestDeletion, IssueLink, UpdatePassword, MarkUsed, UsersKnown, At
<1>2. proc' \in [Procs -> ProcState]
  BY <1>1, ProcTyped
  DEF TableStep, MergeIdentity, CreateSession, Subscribe, WriteNickname,
      LinkIdentity, InsertIdentity, RestoreAccount, RevokeSessions, SilenceDevices,
      RequestDeletion, IssueLink, UpdatePassword, MarkUsed, Steps
<1>3. account' \in [Users -> Columns]
  <2>1. account[proc[c].user] \in Columns BY <1>1 DEF TypeOK
  <2>2. /\ [account[proc[c].user] EXCEPT !.nickname = TRUE] \in Columns
        /\ [account[proc[c].user] EXCEPT !.password = TRUE] \in Columns
        /\ [account[proc[c].user] EXCEPT !.deletion = "none"] \in Columns
        /\ [account[proc[c].user] EXCEPT !.deletion = "recent"] \in Columns
    BY <2>1 DEF Columns
  <2>3. CASE WriteNickname(c) BY <2>2, <2>3 DEF WriteNickname, TypeOK
  <2>4. CASE RestoreAccount(c) BY <2>2, <2>4 DEF RestoreAccount, TypeOK
  <2>5. CASE RequestDeletion(c) BY <2>2, <2>5 DEF RequestDeletion, TypeOK
  <2>6. CASE UpdatePassword(c) BY <2>2, <2>6 DEF UpdatePassword, TypeOK
  <2>7. ASSUME account' = account PROVE account' \in [Users -> Columns] BY <2>7 DEF TypeOK
  <2> QED
    BY <2>3, <2>4, <2>5, <2>6, <2>7
    DEF TableStep, MergeIdentity, CreateSession, Subscribe,
        LinkIdentity, InsertIdentity, RevokeSessions, SilenceDevices, IssueLink, MarkUsed
<1>4. /\ sessions' \in [Tokens -> Users \cup {None}]
      /\ identities' \subseteq Users /\ subscriptions' \subseteq Users /\ links' \subseteq Users
  BY <1>1
  DEF TableStep, MergeIdentity, CreateSession, Subscribe, WriteNickname,
      LinkIdentity, InsertIdentity, RestoreAccount, RevokeSessions, SilenceDevices,
      RequestDeletion, IssueLink, UpdatePassword, MarkUsed, TypeOK
<1>5. todo' = todo /\ failures' = failures /\ touched' \subseteq Users
  BY <1>1
  DEF TableStep, MergeIdentity, CreateSession, Subscribe, WriteNickname,
      LinkIdentity, InsertIdentity, RestoreAccount, RevokeSessions, SilenceDevices,
      RequestDeletion, IssueLink, UpdatePassword, MarkUsed, TypeOK, Touch, jobs
<1> QED BY <1>2, <1>3, <1>4, <1>5 DEF TypeOK

LEMMA FinaliseTyped ==
  ASSUME IInv, NEW p \in Procs, Finalise(p)
  PROVE  TypeOK'
<1> USE DEF IInv
<1>1. proc[p].user \in Users
  BY DEF Finalise, ScrubForDeletion, DeleteIdentities, DeleteSubscriptions,
         DeleteNotifications, UsersKnown, At
<1>2. CASE ScrubForDeletion(p)
  <2>1. account[proc[p].user] \in Columns BY <1>1 DEF TypeOK
  <2>2. [account[proc[p].user] EXCEPT !.deleted = TRUE, !.password = FALSE, !.nickname = FALSE]
          \in Columns
    BY <2>1 DEF Columns
  <2>3. account' \in [Users -> Columns] BY <1>2, <2>2 DEF ScrubForDeletion, TypeOK
  <2>4. proc' \in [Procs -> ProcState] BY <1>2, ProcTyped DEF ScrubForDeletion, Steps
  <2> QED BY <1>2, <2>3, <2>4 DEF ScrubForDeletion, TypeOK, jobs
<1>3. CASE DeleteIdentities(p)
  <2>1. proc' \in [Procs -> ProcState] BY <1>3, ProcTyped DEF DeleteIdentities, Steps
  <2> QED BY <1>3, <2>1 DEF DeleteIdentities, TypeOK, jobs
<1>4. CASE DeleteSubscriptions(p)
  <2>1. proc' \in [Procs -> ProcState] BY <1>4, ProcTyped DEF DeleteSubscriptions, Steps
  <2> QED BY <1>4, <2>1 DEF DeleteSubscriptions, TypeOK, jobs
<1>5. CASE DeleteNotifications(p)
  <2>1. [Idle EXCEPT !.step = "sweeping"] \in ProcState BY DEF Idle, ProcState, Steps
  <2>2. proc' \in [Procs -> ProcState]
    BY <1>5, <2>1, ProcTyped DEF DeleteNotifications, TypeOK
  <2> QED BY <1>5, <2>2 DEF DeleteNotifications, TypeOK, rows, jobs
<1> QED BY <1>2, <1>3, <1>4, <1>5 DEF Finalise

\* The sweep's own steps, time and failures.
OtherStep ==
  \/ ListExpired \/ EndSweep
  \/ \E u \in Users : FinaliseNext(u)
  \/ \E s \in Tokens : EndSession(s)
  \/ \E u \in Users : GraceEnds(u) \/ LinkExpires(u)
  \/ SweepFails \/ Crash

LEMMA OtherTyped ==
  ASSUME IInv, OtherStep
  PROVE  TypeOK'
<1> USE DEF IInv
<1>1. Sweep \in Procs BY DEF Procs
<1>2. Idle \in ProcState BY DEF Idle, ProcState, Steps
<1>3. CASE ListExpired
  <2>1. proc' \in [Procs -> ProcState] BY <1>1, <1>3, ProcTyped DEF ListExpired, Steps
  <2> QED BY <1>3, <2>1 DEF ListExpired, FindPendingDeletionBefore, TypeOK, rows
<1>4. CASE EndSweep
  <2>1. proc' \in [Procs -> ProcState] BY <1>1, <1>4, ProcTyped DEF EndSweep
  <2> QED BY <1>4, <2>1 DEF EndSweep, TypeOK, rows
<1>5. ASSUME NEW u \in Users, FinaliseNext(u) PROVE TypeOK'
  <2>1. [Idle EXCEPT !.step = "closing", !.user = u] \in ProcState
    BY DEF Idle, ProcState, Steps
  <2> QED BY <1>5, <2>1 DEF FinaliseNext, TypeOK, rows
<1>6. ASSUME NEW s \in Tokens, EndSession(s) PROVE TypeOK'
  BY <1>6 DEF EndSession, TypeOK, jobs
<1>7. ASSUME NEW u \in Users, GraceEnds(u) PROVE TypeOK'
  <2>1. [account[u] EXCEPT !.deletion = "lapsed"] \in Columns BY DEF TypeOK, Columns
  <2> QED BY <1>7, <2>1 DEF GraceEnds, TypeOK, jobs
<1>8. ASSUME NEW u \in Users, LinkExpires(u) PROVE TypeOK'
  BY <1>8 DEF LinkExpires, TypeOK, jobs
<1>9. CASE SweepFails
  <2>1. proc' \in [Procs -> ProcState] BY <1>1, <1>9, ProcTyped DEF SweepFails
  <2>2. failures' \in 0..MaxFailures BY <1>9, MaxFailuresAssumption DEF SweepFails, TypeOK
  <2> QED BY <1>9, <2>1, <2>2 DEF SweepFails, TypeOK, rows
<1>10. CASE Crash
  <2>1. failures' \in 0..MaxFailures BY <1>10, MaxFailuresAssumption DEF Crash, TypeOK
  <2> QED BY <1>2, <1>10, <2>1 DEF Crash, TypeOK, rows
<1> QED BY <1>3, <1>4, <1>5, <1>6, <1>7, <1>8, <1>9, <1>10 DEF OtherStep

\* Every step is one of these.
LEMMA StepCases ==
  ASSUME Next
  PROVE  \/ \E c \in Calls : LocalStep(c) \/ TableStep(c) \/ Finalise(c)
         \/ Finalise(Sweep)
         \/ OtherStep
<1>1. ASSUME NEW c \in Calls, Start(c) PROVE LocalStep(c) BY <1>1 DEF Start, LocalStep
<1>2. ASSUME NEW c \in Calls, Continue(c) PROVE LocalStep(c) \/ TableStep(c) \/ Finalise(c)
  BY <1>2 DEF Continue, LocalStep, TableStep
<1>3. ASSUME SweepStep PROVE Finalise(Sweep) \/ OtherStep BY <1>3 DEF SweepStep, OtherStep
<1>4. ASSUME Environment PROVE OtherStep \/ \E c \in Calls : LocalStep(c)
  BY <1>4 DEF Environment, OtherStep, LocalStep
<1> QED BY <1>1, <1>2, <1>3, <1>4 DEF Next

---------------------------------------------------------------------------
(* Where the handlers are *)

\* What a step of c does to proc: c has a user afterwards or is idle, it does not
\* sweep, and it is past a scrub only if it was there, or scrubbing, before.
LEMMA LocalPlaces ==
  ASSUME IInv, NEW c \in Calls, LocalStep(c) \/ TableStep(c)
  PROVE  /\ \A p \in Procs \ {c} : proc'[p] = proc[p]
         /\ proc'[c].step \in Steps \ {"sweeping", "scrubbed", "unlinked", "unsubscribed"}
         /\ proc'[c].step # "idle" => proc'[c].user \in Users
<1> USE DEF IInv
<1>1. c \in Procs /\ proc \in [Procs -> ProcState] BY DEF Procs, TypeOK
<1>2. proc[c].step # "idle" => proc[c].user \in Users BY <1>1 DEF UsersKnown, PlacesKept, At
<1>3. ASSUME NEW step \in Steps \ {"idle", "sweeping", "scrubbed", "unlinked", "unsubscribed"},
             proc[c].step # "idle", Goto(c, step)
      PROVE  /\ \A p \in Procs \ {c} : proc'[p] = proc[p]
             /\ proc'[c].step = step /\ proc'[c].user \in Users
  <2>1. proc'[c] = [proc[c] EXCEPT !.step = step] BY <1>1, <1>3 DEF Goto
  <2>2. proc'[c].step = step /\ proc'[c].user = proc[c].user BY <1>1, <2>1 DEF ProcState
  <2> QED BY <1>1, <1>2, <1>3, <2>2 DEF Goto
<1>4. ASSUME NEW step \in Steps \ {"idle", "sweeping", "scrubbed", "unlinked", "unsubscribed"},
             NEW u \in Users, Begin(c, step, u)
      PROVE  /\ \A p \in Procs \ {c} : proc'[p] = proc[p]
             /\ proc'[c].step = step /\ proc'[c].user \in Users
  BY <1>1, <1>4 DEF Begin, Idle
<1>5. ASSUME Finish(c)
      PROVE  (\A p \in Procs \ {c} : proc'[p] = proc[p]) /\ proc'[c].step = "idle"
  BY <1>1, <1>5 DEF Finish, Idle
<1>6. ASSUME NEW u \in Users,
             ReadCredentials(c, u) \/ FindIdentity(c, u) \/ FindForLink(c, u) \/ FindLink(c, u)
      PROVE  \E step \in {"proved", "unknown", "issuing", "resetting"} : Begin(c, step, u)
  BY <1>6 DEF ReadCredentials, FindIdentity, FindForLink, FindLink
<1>7. ASSUME NEW s \in Tokens, NEW request \in Requests, NEW immediate \in BOOLEAN,
             Authorise(c, s, request, immediate)
      PROVE  /\ \A p \in Procs \ {c} : proc'[p] = proc[p]
             /\ proc'[c].step = request /\ proc'[c].user \in Users
  BY <1>1, <1>7 DEF Authorise, TypeOK
<1>8. CASE MatchEmail(c) \/ CheckNickname(c) \/ CheckLink(c) \/ CallFails(c) \/ TableStep(c)
  <2>1. \/ Finish(c)
        \/ /\ proc[c].step # "idle"
           /\ \E step \in {"merging", "renaming", "linking", "proved", "revoked",
                           "silenced", "closing", "spending"} : Goto(c, step)
    BY <1>8
    DEF MatchEmail, CheckNickname, CheckLink, CallFails, TableStep, MergeIdentity,
        CreateSession, Subscribe, WriteNickname, LinkIdentity, InsertIdentity, RestoreAccount,
        RevokeSessions, SilenceDevices, RequestDeletion, IssueLink, UpdatePassword, MarkUsed, At
  <2> QED BY <1>3, <1>5, <2>1 DEF Steps
<1>9. ASSUME NEW u \in Users,
             ReadCredentials(c, u) \/ FindIdentity(c, u) \/ FindForLink(c, u) \/ FindLink(c, u)
      PROVE  /\ \A p \in Procs \ {c} : proc'[p] = proc[p]
             /\ proc'[c].step \in {"proved", "unknown", "issuing", "resetting"}
             /\ proc'[c].user \in Users
  BY <1>4, <1>6, <1>9 DEF Steps
<1>10. CASE \E s \in Tokens, request \in Requests, immediate \in BOOLEAN :
              Authorise(c, s, request, immediate)
  BY <1>7, <1>10 DEF Steps, Requests
<1>11. CASE \E u \in Users :
              ReadCredentials(c, u) \/ FindIdentity(c, u) \/ FindForLink(c, u) \/ FindLink(c, u)
  BY <1>9, <1>11 DEF Steps
<1> QED BY <1>8, <1>10, <1>11 DEF LocalStep

LEMMA FinalisePlaces ==
  ASSUME IInv, NEW p \in Procs, Finalise(p)
  PROVE  /\ \A q \in Procs \ {p} : proc'[q] = proc[q]
         /\ proc'[p].step \in {"scrubbed", "unlinked", "unsubscribed"} =>
              /\ proc'[p].user = proc[p].user /\ proc[p].user \in Users
              /\ account'[proc[p].user].deleted
         /\ p = Sweep => proc'[p].step \in {"scrubbed", "unlinked", "unsubscribed", "sweeping"}
         /\ p # Sweep => proc'[p].step \in {"scrubbed", "unlinked", "unsubscribed", "idle"}
<1> USE DEF IInv
<1>1. proc \in [Procs -> ProcState] BY DEF TypeOK
<1>2. proc[p].user \in Users
  BY DEF Finalise, ScrubForDeletion, DeleteIdentities, DeleteSubscriptions,
         DeleteNotifications, UsersKnown, At
<1>3. ASSUME NEW step \in {"scrubbed", "unlinked", "unsubscribed"}, Goto(p, step)
      PROVE  /\ \A q \in Procs \ {p} : proc'[q] = proc[q]
             /\ proc'[p].step = step /\ proc'[p].user = proc[p].user
  <2>1. proc'[p] = [proc[p] EXCEPT !.step = step] BY <1>1, <1>3 DEF Goto
  <2> QED BY <1>1, <1>3, <2>1 DEF Goto, ProcState
<1>4. CASE ScrubForDeletion(p)
  <2>1. account'[proc[p].user].deleted
    BY <1>2, <1>4 DEF ScrubForDeletion, TypeOK, Columns
  <2> QED BY <1>2, <1>3, <1>4, <2>1 DEF ScrubForDeletion
<1>5. CASE DeleteIdentities(p)
  BY <1>2, <1>3, <1>5 DEF DeleteIdentities, ScrubbedFirst, At
<1>6. CASE DeleteSubscriptions(p)
  BY <1>2, <1>3, <1>6 DEF DeleteSubscriptions, ScrubbedFirst, At
<1>7. CASE DeleteNotifications(p)
  <2>1. CASE p = Sweep BY <1>1, <1>7, <2>1 DEF DeleteNotifications, Idle
  <2>2. CASE p # Sweep BY <1>1, <1>7, <2>2 DEF DeleteNotifications, Finish, Idle
  <2> QED BY <2>1, <2>2
<1> QED BY <1>4, <1>5, <1>6, <1>7 DEF Finalise

LEMMA OtherPlaces ==
  ASSUME IInv, OtherStep
  PROVE  /\ \A c \in Calls : proc'[c] = proc[c] \/ proc'[c] = Idle
         /\ \/ proc'[Sweep] = proc[Sweep]
            \/ proc'[Sweep].step \in {"idle", "sweeping"}
            \/ proc'[Sweep].step = "closing" /\ proc'[Sweep].user \in todo
<1> USE SweepAssumption DEF Procs
<1>1. proc \in [Procs -> ProcState] BY DEF IInv, TypeOK
<1>2. CASE ListExpired
  <2>1. proc'[Sweep] = [proc[Sweep] EXCEPT !.step = "sweeping"]
    BY <1>1, <1>2 DEF ListExpired, Goto
  <2> QED BY <1>1, <1>2, <2>1 DEF ListExpired, Goto, ProcState
<1>3. CASE EndSweep BY <1>1, <1>3 DEF EndSweep, Finish, Idle
<1>4. ASSUME NEW u \in Users, FinaliseNext(u)
      PROVE  /\ \A c \in Calls : proc'[c] = proc[c]
             /\ proc'[Sweep].step = "closing" /\ proc'[Sweep].user \in todo
  BY <1>1, <1>4 DEF FinaliseNext, Idle
<1>5. CASE \/ \E s \in Tokens : EndSession(s)
           \/ \E u \in Users : GraceEnds(u) \/ LinkExpires(u)
  BY <1>5 DEF EndSession, GraceEnds, LinkExpires
<1>6. CASE SweepFails BY <1>1, <1>6 DEF SweepFails, Finish, Idle
<1>7. CASE Crash BY <1>1, <1>7 DEF Crash, Idle
<1> QED BY <1>2, <1>3, <1>4, <1>5, <1>6, <1>7 DEF OtherStep

\* Nothing takes a deletion back.
LEMMA DeletedStays ==
  ASSUME IInv, Next, NEW u \in Users, account[u].deleted
  PROVE  account'[u].deleted
<1>1. account \in [Users -> Columns] BY DEF IInv, TypeOK
<1>2. ASSUME NEW c \in Calls, LocalStep(c) PROVE account' = account
  BY <1>2
  DEF LocalStep, ReadCredentials, FindIdentity, FindForLink, FindLink, Authorise,
      MatchEmail, CheckNickname, CheckLink, CallFails, rows
<1>3. ASSUME NEW c \in Calls, TableStep(c) PROVE account'[u].deleted
  BY <1>1, <1>3
  DEF TableStep, MergeIdentity, CreateSession, Subscribe, WriteNickname,
      LinkIdentity, InsertIdentity, RestoreAccount, RevokeSessions, SilenceDevices,
      RequestDeletion, IssueLink, UpdatePassword, MarkUsed, Columns
<1>4. ASSUME NEW p \in Procs, Finalise(p) PROVE account'[u].deleted
  <2>1. CASE ScrubForDeletion(p)
    BY <1>1, <2>1 DEF ScrubForDeletion, Columns
  <2>2. CASE DeleteIdentities(p) \/ DeleteSubscriptions(p) \/ DeleteNotifications(p)
    <3>1. account' = account
      BY <2>2 DEF DeleteIdentities, DeleteSubscriptions, DeleteNotifications, rows
    <3> QED BY <3>1
  <2> QED BY <1>4, <2>1, <2>2 DEF Finalise
<1>5. ASSUME OtherStep PROVE account'[u].deleted
  <2>1. CASE \E w \in Users : GraceEnds(w)
    BY <1>1, <2>1 DEF GraceEnds, Columns
  <2>2. CASE ListExpired \/ EndSweep \/ SweepFails \/ Crash
    <3>1. account' = account
      BY <2>2 DEF ListExpired, EndSweep, SweepFails, Crash, rows
    <3> QED BY <3>1
  <2>3. ASSUME NEW w \in Users, FinaliseNext(w) PROVE account' = account
    BY <2>3 DEF FinaliseNext, rows
  <2>4. ASSUME NEW w \in Users, LinkExpires(w) PROVE account' = account
    BY <2>4 DEF LinkExpires
  <2>5. ASSUME NEW s \in Tokens, EndSession(s) PROVE account' = account
    BY <2>5 DEF EndSession
  <2> QED BY <1>5, <2>1, <2>2, <2>3, <2>4, <2>5 DEF OtherStep
<1> QED BY <1>2, <1>3, <1>4, <1>5, StepCases DEF Procs

---------------------------------------------------------------------------
(* The invariant is preserved *)

LEMMA TypeNext == ASSUME IInv, Next PROVE TypeOK'
BY StepCases, LocalTyped, TableTyped, FinaliseTyped, OtherTyped DEF Procs

LEMMA UsersNext == ASSUME IInv, Next PROVE UsersKnown'
<1> USE DEF IInv
<1>1. proc \in [Procs -> ProcState] /\ todo \subseteq Users BY DEF TypeOK
<1>2. \A p \in Procs : proc[p].step \notin {"idle", "sweeping"} => proc[p].user \in Users
  BY DEF UsersKnown, At
<1>3. SUFFICES ASSUME NEW q \in Procs, proc'[q].step \notin {"idle", "sweeping"}
               PROVE  proc'[q].user \in Users
  BY DEF UsersKnown, At
<1>4. ASSUME NEW c \in Calls, LocalStep(c) \/ TableStep(c) PROVE proc'[q].user \in Users
  BY <1>2, <1>3, <1>4, LocalPlaces
<1>5. ASSUME NEW p \in Procs, Finalise(p) PROVE proc'[q].user \in Users
  BY <1>2, <1>3, <1>5, FinalisePlaces
<1>6. ASSUME OtherStep PROVE proc'[q].user \in Users
  BY <1>1, <1>2, <1>3, <1>6, OtherPlaces DEF Procs, Idle
<1> QED BY <1>4, <1>5, <1>6, StepCases DEF Procs

LEMMA PlacesNext == ASSUME IInv, Next PROVE PlacesKept'
<1> USE SweepAssumption DEF IInv
<1>1. proc \in [Procs -> ProcState] BY DEF TypeOK
<1>2. /\ proc[Sweep].step \in Finalising \cup {"idle", "sweeping"}
      /\ \A c \in Calls : proc[c].step # "sweeping"
      /\ proc[Sweep].step = "idle" => todo = {}
  BY DEF PlacesKept, At
<1>3. SUFFICES /\ proc'[Sweep].step \in Finalising \cup {"idle", "sweeping"}
               /\ \A c \in Calls : proc'[c].step # "sweeping"
               /\ proc'[Sweep].step = "idle" => todo' = {}
  BY DEF PlacesKept, At
<1>4. ASSUME NEW c \in Calls, LocalStep(c) \/ TableStep(c)
      PROVE  /\ proc'[Sweep] = proc[Sweep] /\ todo' = todo
             /\ \A d \in Calls : proc'[d].step # "sweeping"
  <2>1. todo' = todo
    BY <1>4
    DEF LocalStep, ReadCredentials, FindIdentity, FindForLink, FindLink, Authorise,
        MatchEmail, CheckNickname, CheckLink, CallFails, TableStep, MergeIdentity,
        CreateSession, Subscribe, WriteNickname, LinkIdentity, InsertIdentity,
        RestoreAccount, RevokeSessions, SilenceDevices, RequestDeletion, IssueLink,
        UpdatePassword, MarkUsed, jobs
  <2> QED BY <1>2, <1>4, <2>1, LocalPlaces DEF Procs
<1>5. ASSUME NEW p \in Procs, Finalise(p) PROVE todo' = todo
  BY <1>5
  DEF Finalise, ScrubForDeletion, DeleteIdentities, DeleteSubscriptions,
      DeleteNotifications, jobs
<1>6. ASSUME NEW c \in Calls, Finalise(c)
      PROVE  /\ proc'[Sweep] = proc[Sweep]
             /\ \A d \in Calls : proc'[d].step # "sweeping"
  BY <1>2, <1>6, FinalisePlaces DEF Procs
<1>7. ASSUME Finalise(Sweep)
      PROVE  /\ proc'[Sweep].step \in Finalising \cup {"sweeping"}
             /\ \A d \in Calls : proc'[d].step # "sweeping"
  BY <1>2, <1>7, FinalisePlaces DEF Procs, Finalising
<1>8. ASSUME OtherStep
      PROVE  /\ proc'[Sweep].step \in Finalising \cup {"idle", "sweeping"}
             /\ \A c \in Calls : proc'[c].step # "sweeping"
  BY <1>2, <1>8, OtherPlaces DEF Finalising, Idle
<1>9. ASSUME OtherStep, proc'[Sweep].step = "idle" PROVE todo' = {}
  <2>1. CASE ListExpired
    <3>1. proc'[Sweep] = [proc[Sweep] EXCEPT !.step = "sweeping"]
      BY <1>1, <2>1 DEF ListExpired, Goto, Procs
    <3>2. proc'[Sweep].step = "sweeping" BY <1>1, <3>1 DEF ProcState, Procs
    <3> QED BY <1>9, <3>2
  <2>2. CASE EndSweep BY <2>2 DEF EndSweep
  <2>3. ASSUME NEW u \in Users, FinaliseNext(u) PROVE FALSE
    BY <1>1, <1>9, <2>3 DEF FinaliseNext, Idle, Procs
  <2>4. CASE \/ \E s \in Tokens : EndSession(s)
             \/ \E u \in Users : GraceEnds(u) \/ LinkExpires(u)
    BY <1>2, <1>9, <2>4 DEF EndSession, GraceEnds, LinkExpires, jobs
  <2>5. CASE SweepFails \/ Crash BY <2>5 DEF SweepFails, Crash
  <2> QED BY <1>9, <2>1, <2>2, <2>3, <2>4, <2>5 DEF OtherStep
<1> DEFINE Goal == /\ proc'[Sweep].step \in Finalising \cup {"idle", "sweeping"}
                   /\ \A c \in Calls : proc'[c].step # "sweeping"
                   /\ proc'[Sweep].step = "idle" => todo' = {}
<1>10. ASSUME NEW c \in Calls, LocalStep(c) \/ TableStep(c) PROVE Goal
  BY <1>2, <1>4, <1>10
<1>11. ASSUME NEW c \in Calls, Finalise(c) PROVE Goal
  BY <1>2, <1>5, <1>6, <1>11 DEF Procs
<1>12. ASSUME Finalise(Sweep) PROVE Goal
  BY <1>7, <1>12 DEF Finalising
<1>13. ASSUME OtherStep PROVE Goal
  BY <1>8, <1>9, <1>13
<1> QED BY <1>10, <1>11, <1>12, <1>13, StepCases

LEMMA ScrubbedNext == ASSUME IInv, Next PROVE ScrubbedFirst'
<1> USE DEF IInv
<1>1. \A p \in Procs : proc[p].step \in {"scrubbed", "unlinked", "unsubscribed"} =>
        proc[p].user \in Users /\ account[proc[p].user].deleted
  BY DEF UsersKnown, ScrubbedFirst, At
<1>2. SUFFICES ASSUME NEW q \in Procs, proc'[q].step \in {"scrubbed", "unlinked", "unsubscribed"}
               PROVE  account'[proc'[q].user].deleted
  BY DEF ScrubbedFirst
<1>3. ASSUME proc'[q] = proc[q] PROVE account'[proc'[q].user].deleted
  BY <1>1, <1>2, <1>3, DeletedStays
<1>4. ASSUME NEW c \in Calls, LocalStep(c) \/ TableStep(c) PROVE proc'[q] = proc[q]
  BY <1>2, <1>4, LocalPlaces
<1>5. ASSUME NEW p \in Procs, Finalise(p)
      PROVE  proc'[q] = proc[q] \/ account'[proc'[q].user].deleted
  BY <1>2, <1>5, FinalisePlaces
<1>6. ASSUME OtherStep PROVE proc'[q] = proc[q]
  BY <1>2, <1>6, OtherPlaces DEF Procs, Idle
<1> QED BY <1>3, <1>4, <1>5, <1>6, StepCases DEF Procs

\* A handler that takes a listed account out of "lapsed" touches it.
LEMMA HandlersTouch ==
  ASSUME IInv, NEW c \in Calls, LocalStep(c) \/ TableStep(c), NEW u \in Users, SweepLists(u)
  PROVE  Lapsed(u)' \/ u \in touched'
<1> USE DEF IInv
<1>1. Lapsed(u) \/ u \in touched BY DEF ListingCurrent
<1>2. ~At(Sweep, "idle") BY DEF SweepLists, PlacesKept, At
<1>3. account \in [Users -> Columns] BY DEF TypeOK
<1>4. CASE RestoreAccount(c) \/ RequestDeletion(c)
  <2>1. touched' = touched \cup {proc[c].user}
    BY <1>2, <1>4 DEF RestoreAccount, RequestDeletion, Touch
  <2>2. proc[c].user # u => account'[u] = account[u]
    BY <1>3, <1>4 DEF RestoreAccount, RequestDeletion
  <2> QED BY <1>1, <2>1, <2>2 DEF Lapsed
<1>5. CASE WriteNickname(c) \/ UpdatePassword(c)
  <2>1. account'[u].deletion = account[u].deletion
    BY <1>3, <1>5 DEF WriteNickname, UpdatePassword, Columns
  <2> QED BY <1>1, <1>5, <2>1 DEF Lapsed, WriteNickname, UpdatePassword, jobs
<1>6. ASSUME account' = account, touched' = touched PROVE Lapsed(u)' \/ u \in touched'
  BY <1>1, <1>6 DEF Lapsed
<1>7. CASE LocalStep(c)
  BY <1>6, <1>7
  DEF LocalStep, ReadCredentials, FindIdentity, FindForLink, FindLink, Authorise,
      MatchEmail, CheckNickname, CheckLink, CallFails, rows, jobs
<1>8. CASE \/ MergeIdentity(c) \/ CreateSession(c) \/ Subscribe(c) \/ LinkIdentity(c)
           \/ RevokeSessions(c) \/ SilenceDevices(c) \/ IssueLink(c) \/ MarkUsed(c)
  BY <1>6, <1>8
  DEF MergeIdentity, CreateSession, Subscribe, LinkIdentity, InsertIdentity,
      RevokeSessions, SilenceDevices, IssueLink, MarkUsed, jobs
<1> QED BY <1>4, <1>5, <1>7, <1>8 DEF TableStep

LEMMA ListingNext == ASSUME IInv, Next PROVE ListingCurrent'
<1> USE SweepAssumption DEF IInv
<1>1. SUFFICES ASSUME NEW u \in Users, SweepLists(u)' PROVE Lapsed(u)' \/ u \in touched'
  BY DEF ListingCurrent
<1>2. SweepLists(u) => Lapsed(u) \/ u \in touched BY DEF ListingCurrent
<1>3. account \in [Users -> Columns] /\ proc \in [Procs -> ProcState] BY DEF TypeOK
<1>4. ASSUME NEW c \in Calls, LocalStep(c) \/ TableStep(c) PROVE Lapsed(u)' \/ u \in touched'
  <2>1. proc'[Sweep] = proc[Sweep] BY <1>4, LocalPlaces DEF Procs
  <2>2. todo' = todo
    BY <1>4
    DEF LocalStep, ReadCredentials, FindIdentity, FindForLink, FindLink, Authorise,
        MatchEmail, CheckNickname, CheckLink, CallFails, TableStep, MergeIdentity,
        CreateSession, Subscribe, WriteNickname, LinkIdentity, InsertIdentity,
        RestoreAccount, RevokeSessions, SilenceDevices, RequestDeletion, IssueLink,
        UpdatePassword, MarkUsed, jobs
  <2>3. SweepLists(u) BY <1>1, <2>1, <2>2 DEF SweepLists, At
  <2> QED BY <1>4, <2>3, HandlersTouch
<1>5. ASSUME NEW p \in Procs, Finalise(p) PROVE Lapsed(u)' \/ u \in touched'
  <2>1. account'[u].deletion = account[u].deletion
    <3>1. CASE ScrubForDeletion(p)
      <4>1. \/ account'[u] = account[u]
            \/ account'[u] = [account[u] EXCEPT !.deleted = TRUE, !.password = FALSE,
                                               !.nickname = FALSE]
        BY <1>3, <3>1 DEF ScrubForDeletion
      <4> QED BY <1>3, <4>1 DEF Columns
    <3>2. CASE DeleteIdentities(p) \/ DeleteSubscriptions(p) \/ DeleteNotifications(p)
      BY <3>2 DEF DeleteIdentities, DeleteSubscriptions, DeleteNotifications, rows
    <3> QED BY <1>5, <3>1, <3>2 DEF Finalise
  <2>2. UNCHANGED jobs
    BY <1>5
    DEF Finalise, ScrubForDeletion, DeleteIdentities, DeleteSubscriptions, DeleteNotifications
  <2>3. proc'[Sweep] = proc[Sweep] \/ proc'[Sweep].step # "closing"
    BY <1>5, FinalisePlaces DEF Procs
  <2>4. SweepLists(u) BY <1>1, <2>2, <2>3 DEF SweepLists, At, jobs
  <2> QED BY <1>2, <2>1, <2>2, <2>4 DEF Lapsed, jobs
<1>6. CASE ListExpired
  <2>1. proc'[Sweep] = [proc[Sweep] EXCEPT !.step = "sweeping"]
    BY <1>3, <1>6 DEF ListExpired, Goto, Procs
  <2>2. proc'[Sweep].step = "sweeping" BY <1>3, <2>1 DEF ProcState, Procs
  <2>3. u \in FindPendingDeletionBefore BY <1>1, <1>6, <2>2 DEF ListExpired, SweepLists, At
  <2> QED BY <1>6, <2>3 DEF ListExpired, FindPendingDeletionBefore, Lapsed, rows
<1>7. ASSUME NEW v \in Users, FinaliseNext(v) PROVE Lapsed(u)' \/ u \in touched'
  <2>1. proc'[Sweep].user = v BY <1>3, <1>7 DEF FinaliseNext, Idle, Procs
  <2>2. SweepLists(u) BY <1>1, <1>7, <2>1 DEF FinaliseNext, SweepLists
  <2> QED BY <1>2, <1>7, <2>2 DEF FinaliseNext, Lapsed, rows
<1>8. ASSUME EndSweep \/ SweepFails \/ Crash PROVE FALSE
  <2>1. todo' = {} BY <1>8 DEF EndSweep, SweepFails, Crash
  <2>2. proc'[Sweep] = Idle BY <1>3, <1>8 DEF EndSweep, SweepFails, Crash, Finish, Procs
  <2> QED BY <1>1, <2>1, <2>2 DEF SweepLists, At, Idle
<1>9. ASSUME NEW v \in Users, GraceEnds(v) PROVE Lapsed(u)' \/ u \in touched'
  <2>1. SweepLists(u) BY <1>1, <1>9 DEF GraceEnds, SweepLists, At, jobs
  <2>2. account'[u].deletion \in {account[u].deletion, "lapsed"}
    BY <1>3, <1>9 DEF GraceEnds, Columns
  <2> QED BY <1>2, <1>9, <2>1, <2>2 DEF GraceEnds, Lapsed, jobs
<1>10. CASE (\E s \in Tokens : EndSession(s)) \/ (\E v \in Users : LinkExpires(v))
  <2>1. UNCHANGED <<account, proc, jobs>> BY <1>10 DEF EndSession, LinkExpires
  <2> QED BY <1>1, <1>2, <2>1 DEF SweepLists, At, Lapsed, jobs
<1>11. CASE OtherStep BY <1>6, <1>7, <1>8, <1>9, <1>10, <1>11 DEF OtherStep
<1> QED BY <1>4, <1>5, <1>11, StepCases DEF Procs

LEMMA NextInv == IInv /\ [Next]_vars => IInv'
<1>1. ASSUME IInv, Next PROVE IInv'
  BY <1>1, TypeNext, UsersNext, PlacesNext, ScrubbedNext, ListingNext DEF IInv
<1>2. ASSUME IInv, UNCHANGED vars PROVE IInv'
  BY <1>2
  DEF IInv, TypeOK, UsersKnown, PlacesKept, ScrubbedFirst, ListingCurrent, SweepLists,
      At, Lapsed, vars, rows, jobs
<1> QED BY <1>1, <1>2

\* The invariant behind the theorems: types, where the handlers are, a scrub
\* before every deletion of identities, and a sweep list that is current.
THEOREM InvariantHolds == Spec => []IInv
BY TypeInit, NextInv, PTL DEF Spec

\* Every table, handler and history variable keeps its type: sessions and
\* subscriptions belong to users, and a handler with a user never loses it.
THEOREM TypeCorrect == Spec => []TypeOK
BY InvariantHolds, PTL DEF IInv

---------------------------------------------------------------------------
(* The sweep and the grace period *)

\* An account the sweep scrubs was past its grace period, or was restored or
\* withdrawn again after the listing: ListingCurrent at the scrub.
THEOREM SweepIsPunctual == Spec => SweepHonoursGrace
<1>1. ASSUME IInv, [Next]_vars
      PROVE  [\A u \in Users :
                At(Sweep, "closing") /\ At(Sweep, "scrubbed")' /\ proc[Sweep].user = u =>
                  Lapsed(u) \/ u \in touched]_vars
  BY <1>1 DEF IInv, ListingCurrent, SweepLists
<1> QED BY <1>1, InvariantHolds, PTL DEF Spec, SweepHonoursGrace

Intact(u) ==
  ~account'[u].deleted =>
    /\ account[u].password => account'[u].password
    /\ account[u].nickname => account'[u].nickname
    /\ u \in identities => u \in identities'

LEMMA StepIntact == ASSUME IInv, Next, NEW u \in Users PROVE Intact(u)
<1>1. account \in [Users -> Columns] BY DEF IInv, TypeOK
<1>2. ASSUME account' = account, identities \subseteq identities' PROVE Intact(u)
  BY <1>2 DEF Intact
<1>3. ASSUME NEW c \in Calls, LocalStep(c) PROVE Intact(u)
  BY <1>2, <1>3
  DEF LocalStep, ReadCredentials, FindIdentity, FindForLink, FindLink, Authorise,
      MatchEmail, CheckNickname, CheckLink, CallFails, rows
<1>4. ASSUME NEW c \in Calls, TableStep(c) PROVE Intact(u)
  <2>1. CASE WriteNickname(c) BY <1>1, <2>1 DEF WriteNickname, Columns, Intact
  <2>2. CASE RestoreAccount(c) BY <1>1, <2>2 DEF RestoreAccount, Columns, Intact
  <2>3. CASE RequestDeletion(c) BY <1>1, <2>3 DEF RequestDeletion, Columns, Intact
  <2>4. CASE UpdatePassword(c) BY <1>1, <2>4 DEF UpdatePassword, Columns, Intact
  <2> QED
    BY <1>2, <1>4, <2>1, <2>2, <2>3, <2>4
    DEF TableStep, MergeIdentity, CreateSession, Subscribe, LinkIdentity, InsertIdentity,
        RevokeSessions, SilenceDevices, IssueLink, MarkUsed
<1>5. ASSUME NEW p \in Procs, Finalise(p) PROVE Intact(u)
  <2>1. CASE ScrubForDeletion(p) BY <1>1, <2>1 DEF ScrubForDeletion, Columns, Intact
  <2>2. CASE DeleteIdentities(p)
    BY <2>2 DEF DeleteIdentities, IInv, ScrubbedFirst, At, Intact
  <2>3. CASE DeleteSubscriptions(p) \/ DeleteNotifications(p)
    BY <1>2, <2>3 DEF DeleteSubscriptions, DeleteNotifications, rows
  <2> QED BY <1>5, <2>1, <2>2, <2>3 DEF Finalise
<1>6. ASSUME NEW v \in Users, GraceEnds(v) PROVE Intact(u)
  BY <1>1, <1>6 DEF GraceEnds, Columns, Intact
<1>7. CASE OtherStep
  BY <1>2, <1>6, <1>7
  DEF OtherStep, ListExpired, EndSweep, FinaliseNext, EndSession, LinkExpires,
      SweepFails, Crash, rows
<1> QED BY <1>3, <1>4, <1>5, <1>7, StepCases DEF Procs

\* Only an account whose row is already marked deleted loses its password, its
\* nickname or its identities.
THEOREM GraceIsLossless == Spec => GraceLosesNothing
<1>1. ASSUME IInv, [Next]_vars PROVE [\A u \in Users : Intact(u)]_vars
  BY <1>1, StepIntact
<1>2. [\A u \in Users : Intact(u)]_vars =>
        [\A u \in Users :
           ~account'[u].deleted =>
             /\ account[u].password => account'[u].password
             /\ account[u].nickname => account'[u].nickname
             /\ u \in identities => u \in identities']_vars
  BY DEF Intact
<1> QED BY <1>1, <1>2, InvariantHolds, PTL DEF Spec, GraceLosesNothing

---------------------------------------------------------------------------
(* What leaving promises *)

\* A handler finalises only the account of somebody who asked for that at once.
ClosingAtOnce == \A c \in Calls : At(c, "closing") => proc[c].immediate

LEMMA ClosingInit == Init => ClosingAtOnce
BY DEF Init, ClosingAtOnce, At, Idle, Procs

LEMMA ClosingNext == ASSUME IInv, ClosingAtOnce, Next PROVE ClosingAtOnce'
<1> USE SweepAssumption DEF Procs
<1>1. proc \in [Procs -> ProcState] BY DEF IInv, TypeOK
<1>2. SUFFICES ASSUME NEW c \in Calls, proc'[c].step = "closing" PROVE proc'[c].immediate
  BY DEF ClosingAtOnce, At
<1>3. ASSUME proc'[c] = proc[c] PROVE proc'[c].immediate
  BY <1>2, <1>3 DEF ClosingAtOnce, At
<1>4. ASSUME LocalStep(c) PROVE FALSE
  <2>1. ASSUME NEW step \in {"merging", "renaming", "linking"}, Goto(c, step) PROVE FALSE
    BY <1>1, <1>2, <2>1 DEF Goto, ProcState
  <2>2. ASSUME Finish(c) PROVE FALSE BY <1>1, <1>2, <2>2 DEF Finish, Idle
  <2>3. ASSUME NEW u \in Users, NEW step \in {"proved", "unknown", "issuing", "resetting"},
               Begin(c, step, u)
        PROVE  FALSE
    BY <1>1, <1>2, <2>3 DEF Begin, Idle
  <2>4. ASSUME NEW s \in Tokens, NEW request \in Requests, NEW immediate \in BOOLEAN,
               Authorise(c, s, request, immediate)
        PROVE  FALSE
    BY <1>1, <1>2, <2>4 DEF Authorise, Requests
  <2>5. CASE MatchEmail(c) \/ CheckNickname(c) \/ CheckLink(c) \/ CallFails(c)
    BY <2>1, <2>2, <2>5 DEF MatchEmail, CheckNickname, CheckLink, CallFails
  <2>6. CASE \E u \in Users : \/ ReadCredentials(c, u) \/ FindIdentity(c, u)
                              \/ FindForLink(c, u) \/ FindLink(c, u)
    BY <2>3, <2>6 DEF ReadCredentials, FindIdentity, FindForLink, FindLink
  <2> QED BY <1>4, <2>4, <2>5, <2>6 DEF LocalStep
<1>5. ASSUME TableStep(c) PROVE proc'[c].immediate
  <2>1. CASE SilenceDevices(c)
    BY <1>1, <1>2, <2>1 DEF SilenceDevices, Goto, ProcState
  <2>2. CASE ~SilenceDevices(c)
    <3>1. \/ Finish(c)
          \/ \E step \in {"proved", "revoked", "spending"} : Goto(c, step)
      BY <1>5, <2>2
      DEF TableStep, MergeIdentity, CreateSession, Subscribe, WriteNickname, LinkIdentity,
          InsertIdentity, RestoreAccount, RevokeSessions, RequestDeletion, IssueLink,
          UpdatePassword, MarkUsed
    <3>2. ~Finish(c) BY <1>1, <1>2 DEF Finish, Idle
    <3>3. ASSUME NEW step \in {"proved", "revoked", "spending"}, Goto(c, step) PROVE FALSE
      BY <1>1, <1>2, <3>3 DEF Goto, ProcState
    <3> QED BY <3>1, <3>2, <3>3
  <2> QED BY <2>1, <2>2
<1>6. ASSUME NEW d \in Calls, d # c, LocalStep(d) \/ TableStep(d) PROVE proc'[c] = proc[c]
  BY <1>6, LocalPlaces
<1>7. ASSUME NEW p \in Procs, Finalise(p) PROVE proc'[c] = proc[c]
  BY <1>2, <1>7, FinalisePlaces
<1>8. ASSUME OtherStep PROVE proc'[c] = proc[c]
  BY <1>2, <1>8, OtherPlaces DEF Idle
<1> QED BY <1>3, <1>4, <1>5, <1>6, <1>7, <1>8, StepCases

LeavingStep == [Leaving!Next]_(Leaving!leavingVars)

LEMMA SamePhase ==
  ASSUME NEW row, NEW other, row.deleted = other.deleted, row.deletion = other.deletion
  PROVE  PhaseOf(row) = PhaseOf(other)
BY DEF PhaseOf

\* One account moves on its way out.
LEMMA PhaseChanges ==
  ASSUME NEW u \in Users, NEW to, PhaseOf(account'[u]) = to,
         \A v \in Users \ {u} : PhaseOf(account'[v]) = PhaseOf(account[v])
  PROVE  Phase' = [Phase EXCEPT ![u] = to]
BY DEF Phase

\* Whether user u has a key, and what becomes of Held when only u's keys change.
HasKey(u, key) ==
  \/ key = "password" /\ account[u].password
  \/ key = "nickname" /\ account[u].nickname
  \/ key = "identity" /\ u \in identities

LEMMA KeysChange ==
  ASSUME NEW u \in Users, NEW keys \in SUBSET {"password", "nickname", "identity"},
         \A key \in {"password", "nickname", "identity"} : HasKey(u, key)' <=> key \in keys,
         \A v \in Users \ {u}, key \in {"password", "nickname", "identity"} :
           HasKey(v, key)' <=> HasKey(v, key)
  PROVE  Held' = [Held EXCEPT ![u] = keys]
<1> DEFINE Names == {"password", "nickname", "identity"}
           Before(v) == {key \in Names : HasKey(v, key)}
           After(v) == {key \in Names : HasKey(v, key)'}
<1>1. Held = [v \in Users |-> Before(v)] BY DEF Held, KeysOf, HasKey
<1>2. Held' = [v \in Users |-> After(v)] BY DEF Held, KeysOf, HasKey
<1>3. After(u) = keys OBVIOUS
<1>4. ASSUME NEW v \in Users \ {u} PROVE After(v) = Before(v) OBVIOUS
<1> HIDE DEF Before, After
<1> QED BY <1>1, <1>2, <1>3, <1>4

LEMMA KeysHeld ==
  ASSUME NEW u \in Users
  PROVE  /\ Held[u] \subseteq {"password", "nickname", "identity"}
         /\ \A key \in {"password", "nickname", "identity"} : key \in Held[u] <=> HasKey(u, key)
BY DEF Held, KeysOf, HasKey

LEMMA StillSeen ==
  ASSUME account' = account, identities' = identities
  PROVE  Phase' = Phase /\ Held' = Held
BY DEF Phase, Held, KeysOf

\* Whoever was to close an account may stop doing so.
LEMMA GivingUp ==
  ASSUME account' = account, identities' = identities,
         Found' \subseteq Found, Waived' \subseteq Waived
  PROVE  LeavingStep
<1>1. Phase' = Phase /\ Held' = Held BY StillSeen
<1> QED BY <1>1 DEF LeavingStep, Leaving!Next, Leaving!GiveUp

\* How deletionRequestedAt is written.
LEMMA RowMoves ==
  ASSUME IInv, NEW u \in Users, NEW date \in {"none", "recent", "lapsed"},
         account' = [account EXCEPT ![u].deletion = date],
         date = "lapsed" => account[u].deletion = "recent",
         identities' = identities, Found' = Found, Waived' = Waived
  PROVE  LeavingStep
<1>1. account \in [Users -> Columns] BY DEF IInv, TypeOK
<1>2. \A v \in Users :
        /\ account'[v].deleted = account[v].deleted
        /\ account'[v].password = account[v].password
        /\ account'[v].nickname = account[v].nickname
        /\ account'[v].deletion = IF v = u THEN date ELSE account[v].deletion
  BY <1>1 DEF Columns
<1>3. Held' = Held BY <1>2 DEF Held, KeysOf
<1>4. CASE account[u].deleted
  <2>1. ASSUME NEW v \in Users PROVE PhaseOf(account'[v]) = PhaseOf(account[v])
    <3>1. CASE v = u BY <1>2, <1>4, <3>1 DEF PhaseOf
    <3>2. CASE v # u BY <1>2, <3>2, SamePhase
    <3> QED BY <3>1, <3>2
  <2>2. Phase' = Phase BY <2>1 DEF Phase
  <2> QED BY <1>3, <2>2 DEF LeavingStep, Leaving!leavingVars
<1>5. CASE ~account[u].deleted
  <2> DEFINE to == PhaseOf(account'[u])
  <2>1. /\ date = "none" => to = "active"
        /\ date = "recent" => to = "pending"
        /\ date = "lapsed" => to = "lapsed"
    BY <1>2, <1>5 DEF PhaseOf
  <2>2. Phase' = [Phase EXCEPT ![u] = to]
    <3>1. \A v \in Users \ {u} : PhaseOf(account'[v]) = PhaseOf(account[v])
      BY <1>2, SamePhase
    <3> QED BY <3>1, PhaseChanges
  <2>3. Phase[u] # "closed" /\ (date = "lapsed" => Phase[u] = "pending")
    BY <1>1, <1>5 DEF Phase, PhaseOf, Columns
  <2> HIDE DEF to
  <2>4. Leaving!Becomes(u, to)
    BY <1>3, <2>2, <2>3 DEF Leaving!Becomes, Leaving!Closed
  <2>5. Leaving!Leave(u) \/ Leaving!GraceEnds(u) \/ Leaving!Return(u)
    BY <2>1, <2>3, <2>4 DEF Leaving!Leave, Leaving!GraceEnds, Leaving!Return
  <2> QED BY <2>5 DEF LeavingStep, Leaving!Next
<1> QED BY <1>4, <1>5

\* How a password, a nickname or an identity is written.
LEMMA KeyGained ==
  ASSUME NEW u \in Users, NEW key \in {"password", "nickname", "identity"},
         Phase' = Phase, Held' = [Held EXCEPT ![u] = @ \cup {key}],
         Found' = Found, Waived' = Waived
  PROVE  LeavingStep
BY DEF LeavingStep, Leaving!Next, Leaving!Gain, Leaving!Keys

\* What a step of handler c leaves of the waivers, and of the sweep's list.
LEMMA OwnWaiver ==
  ASSUME IInv, NEW c \in Calls, LocalStep(c) \/ TableStep(c) \/ Finalise(c)
  PROVE  /\ Found' = Found
         /\ (AtOnce(c)' => AtOnce(c) /\ proc'[c].user = proc[c].user) => Waived' \subseteq Waived
         /\ ~AtOnce(c) /\ ~AtOnce(c)' => Waived' = Waived
<1>1. \A p \in Procs \ {c} : proc'[p] = proc[p]
  BY LocalPlaces, FinalisePlaces DEF Procs
<1>2. todo' = todo
  BY DEF LocalStep, ReadCredentials, FindIdentity, FindForLink, FindLink, Authorise,
         MatchEmail, CheckNickname, CheckLink, CallFails, TableStep, MergeIdentity,
         CreateSession, Subscribe, WriteNickname, LinkIdentity, InsertIdentity,
         RestoreAccount, RevokeSessions, SilenceDevices, RequestDeletion, IssueLink,
         UpdatePassword, MarkUsed, Finalise, ScrubForDeletion, DeleteIdentities,
         DeleteSubscriptions, DeleteNotifications, jobs
<1>3. proc'[Sweep] = proc[Sweep] BY <1>1, SweepAssumption DEF Procs
<1>4. Found' = Found BY <1>2, <1>3 DEF Found, At
<1>5. \A d \in Calls \ {c} : proc'[d] = proc[d] BY <1>1 DEF Procs
<1> QED BY <1>4, <1>5 DEF Waived, AtOnce

LEMMA LocalLeaving ==
  ASSUME IInv, NEW c \in Calls, LocalStep(c)
  PROVE  LeavingStep
<1>1. c \in Procs /\ proc \in [Procs -> ProcState] BY DEF IInv, TypeOK, Procs
<1>2. account' = account /\ identities' = identities
  BY DEF LocalStep, ReadCredentials, FindIdentity, FindForLink, FindLink, Authorise,
         MatchEmail, CheckNickname, CheckLink, CallFails, rows
<1>3. ASSUME ~AtOnce(c)' PROVE LeavingStep BY <1>2, <1>3, OwnWaiver, GivingUp
<1>4. ASSUME NEW step \in {"merging", "renaming", "linking"}, Goto(c, step) PROVE ~AtOnce(c)'
  BY <1>1, <1>4 DEF Goto, ProcState, AtOnce
<1>5. ASSUME Finish(c) PROVE ~AtOnce(c)' BY <1>1, <1>5 DEF Finish, Idle, AtOnce
<1>6. ASSUME NEW u \in Users, NEW step \in {"proved", "unknown", "issuing", "resetting"},
             Begin(c, step, u)
      PROVE  ~AtOnce(c)'
  BY <1>1, <1>6 DEF Begin, Idle, AtOnce
<1>7. ASSUME NEW s \in Tokens, NEW request \in Requests, NEW immediate \in BOOLEAN,
             Authorise(c, s, request, immediate)
      PROVE  LeavingStep
  <2>1. proc'[c] = [step |-> request, user |-> sessions[s], immediate |-> immediate]
    BY <1>1, <1>7 DEF Authorise
  <2>2. CASE ~immediate BY <1>3, <2>1, <2>2 DEF AtOnce
  <2>3. CASE immediate
    <3>1. AtOnce(c)' /\ proc'[c].user = sessions[s] BY <1>7, <2>1, <2>3 DEF Authorise, AtOnce
    <3>2. ~AtOnce(c) BY <1>7 DEF Authorise, AtOnce, At
    <3>3. \A d \in Calls \ {c} : proc'[d] = proc[d] BY LocalPlaces DEF Procs
    <3>4. sessions[s] \in Users BY <1>7 DEF Authorise, IInv, TypeOK
    <3>5. Waived' = Waived \cup {sessions[s]}
      BY <3>1, <3>2, <3>3, <3>4 DEF Waived, AtOnce
    <3>6. Phase' = Phase /\ Held' = Held /\ Found' = Found BY <1>2, StillSeen, OwnWaiver
    <3>7. Leaving!Waive(sessions[s]) BY <3>5, <3>6 DEF Leaving!Waive
    <3> QED BY <3>4, <3>7 DEF LeavingStep, Leaving!Next
  <2> QED BY <2>2, <2>3
<1>8. CASE MatchEmail(c) \/ CheckNickname(c) \/ CheckLink(c) \/ CallFails(c)
  BY <1>3, <1>4, <1>5, <1>8 DEF MatchEmail, CheckNickname, CheckLink, CallFails
<1>9. CASE \E u \in Users : \/ ReadCredentials(c, u) \/ FindIdentity(c, u)
                            \/ FindForLink(c, u) \/ FindLink(c, u)
  BY <1>3, <1>6, <1>9 DEF ReadCredentials, FindIdentity, FindForLink, FindLink
<1> QED BY <1>7, <1>8, <1>9 DEF LocalStep

LEMMA TableLeaving ==
  ASSUME IInv, NEW c \in Calls, TableStep(c)
  PROVE  LeavingStep
<1>1. /\ c \in Procs /\ proc \in [Procs -> ProcState] /\ account \in [Users -> Columns]
      /\ proc[c].step # "idle" => proc[c].user \in Users
  BY DEF IInv, TypeOK, Procs, UsersKnown, PlacesKept, At
<1>2. ASSUME NEW step \in Steps, Goto(c, step)
      PROVE  /\ proc'[c].step = step /\ proc'[c].user = proc[c].user
             /\ proc'[c].immediate = proc[c].immediate
  <2>1. proc'[c] = [proc[c] EXCEPT !.step = step] BY <1>1, <1>2 DEF Goto
  <2> QED BY <1>1, <2>1 DEF ProcState
<1>3. ASSUME Finish(c) PROVE ~AtOnce(c)' BY <1>1, <1>3 DEF Finish, Idle, AtOnce
<1>4. CASE MergeIdentity(c) \/ LinkIdentity(c)
  <2>1. ~AtOnce(c) /\ proc[c].user \in Users
    BY <1>1, <1>4 DEF MergeIdentity, LinkIdentity, InsertIdentity, AtOnce, At
  <2>2. ~AtOnce(c)'
    BY <1>2, <1>3, <1>4 DEF MergeIdentity, LinkIdentity, InsertIdentity, AtOnce, Steps
  <2>3. account' = account /\ identities' = identities \cup {proc[c].user}
    BY <1>4 DEF MergeIdentity, LinkIdentity, InsertIdentity
  <2>4. Phase' = Phase BY <2>3 DEF Phase
  <2>5. Held' = [Held EXCEPT ![proc[c].user] = @ \cup {"identity"}]
    <3>1. PICK u \in Users : u = proc[c].user BY <2>1
    <3>2. \A key \in {"password", "nickname", "identity"} :
            HasKey(u, key)' <=> key \in Held[u] \cup {"identity"}
      BY <2>3, <3>1, KeysHeld DEF HasKey
    <3>3. \A v \in Users \ {u}, key \in {"password", "nickname", "identity"} :
            HasKey(v, key)' <=> HasKey(v, key)
      BY <2>3, <3>1 DEF HasKey
    <3>4. Held' = [Held EXCEPT ![u] = Held[u] \cup {"identity"}]
      BY <3>2, <3>3, KeysHeld, KeysChange
    <3> QED BY <3>1, <3>4
  <2> QED BY <2>1, <2>2, <2>4, <2>5, OwnWaiver, KeyGained
<1>5. CASE WriteNickname(c) \/ UpdatePassword(c)
  <2>1. ~AtOnce(c) /\ proc[c].user \in Users
    BY <1>1, <1>5 DEF WriteNickname, UpdatePassword, AtOnce, At
  <2>2. ~AtOnce(c)'
    BY <1>2, <1>3, <1>5 DEF WriteNickname, UpdatePassword, AtOnce, Steps
  <2>3. identities' = identities BY <1>5 DEF WriteNickname, UpdatePassword
  <2>4. \A u \in Users : /\ account'[u].deletion = account[u].deletion
                         /\ account'[u].deleted = account[u].deleted
    BY <1>1, <1>5 DEF WriteNickname, UpdatePassword, Columns
  <2>5. Phase' = Phase BY <2>4, SamePhase DEF Phase
  <2>6. CASE WriteNickname(c)
    <3>1. /\ account'[proc[c].user].nickname
          /\ \A u \in Users :
               /\ account'[u].password = account[u].password
               /\ u # proc[c].user => account'[u].nickname = account[u].nickname
      BY <1>1, <2>1, <2>6 DEF WriteNickname, Columns
    <3>2. Held' = [Held EXCEPT ![proc[c].user] = @ \cup {"nickname"}]
      <4>1. PICK u \in Users : u = proc[c].user BY <2>1
      <4>2. \A key \in {"password", "nickname", "identity"} :
              HasKey(u, key)' <=> key \in Held[u] \cup {"nickname"}
        BY <2>3, <3>1, <4>1, KeysHeld DEF HasKey
      <4>3. \A v \in Users \ {u}, key \in {"password", "nickname", "identity"} :
              HasKey(v, key)' <=> HasKey(v, key)
        BY <2>3, <3>1, <4>1 DEF HasKey
      <4>4. Held' = [Held EXCEPT ![u] = Held[u] \cup {"nickname"}]
        BY <4>2, <4>3, KeysHeld, KeysChange
      <4> QED BY <4>1, <4>4
    <3> QED BY <2>1, <2>2, <2>5, <3>2, OwnWaiver, KeyGained
  <2>7. CASE UpdatePassword(c)
    <3>1. /\ account'[proc[c].user].password
          /\ \A u \in Users :
               /\ account'[u].nickname = account[u].nickname
               /\ u # proc[c].user => account'[u].password = account[u].password
      BY <1>1, <2>1, <2>7 DEF UpdatePassword, Columns
    <3>2. Held' = [Held EXCEPT ![proc[c].user] = @ \cup {"password"}]
      <4>1. PICK u \in Users : u = proc[c].user BY <2>1
      <4>2. \A key \in {"password", "nickname", "identity"} :
              HasKey(u, key)' <=> key \in Held[u] \cup {"password"}
        BY <2>3, <3>1, <4>1, KeysHeld DEF HasKey
      <4>3. \A v \in Users \ {u}, key \in {"password", "nickname", "identity"} :
              HasKey(v, key)' <=> HasKey(v, key)
        BY <2>3, <3>1, <4>1 DEF HasKey
      <4>4. Held' = [Held EXCEPT ![u] = Held[u] \cup {"password"}]
        BY <4>2, <4>3, KeysHeld, KeysChange
      <4> QED BY <4>1, <4>4
    <3> QED BY <2>1, <2>2, <2>5, <3>2, OwnWaiver, KeyGained
  <2> QED BY <1>5, <2>6, <2>7
<1>6. CASE RestoreAccount(c) \/ RequestDeletion(c)
  <2>1. ~AtOnce(c) /\ ~AtOnce(c)' /\ proc[c].user \in Users
    BY <1>1, <1>3, <1>6 DEF RestoreAccount, RequestDeletion, AtOnce, At
  <2> QED BY <1>6, <2>1, OwnWaiver, RowMoves DEF RestoreAccount, RequestDeletion
<1>7. CASE \/ CreateSession(c) \/ Subscribe(c) \/ RevokeSessions(c) \/ SilenceDevices(c)
           \/ IssueLink(c) \/ MarkUsed(c)
  <2>1. account' = account /\ identities' = identities
    BY <1>7 DEF CreateSession, Subscribe, RevokeSessions, SilenceDevices, IssueLink, MarkUsed
  <2>2. CASE RevokeSessions(c) \/ SilenceDevices(c)
    <3>1. AtOnce(c)' => AtOnce(c) /\ proc'[c].user = proc[c].user
      BY <1>2, <2>2 DEF RevokeSessions, SilenceDevices, AtOnce, At, Steps
    <3> QED BY <2>1, <3>1, OwnWaiver, GivingUp
  <2>3. CASE CreateSession(c) \/ Subscribe(c) \/ IssueLink(c) \/ MarkUsed(c)
    <3>1. ~AtOnce(c)' BY <1>3, <2>3 DEF CreateSession, Subscribe, IssueLink, MarkUsed
    <3> QED BY <2>1, <3>1, OwnWaiver, GivingUp
  <2> QED BY <1>7, <2>2, <2>3
<1> QED BY <1>4, <1>5, <1>6, <1>7 DEF TableStep

\* Where an account's scrub comes from; the deletion of its identities finds it closed.
LEMMA FinaliseLeaving ==
  ASSUME IInv, ClosingAtOnce, NEW p \in Procs, Finalise(p)
  PROVE  LeavingStep
<1>1. proc \in [Procs -> ProcState] /\ account \in [Users -> Columns] BY DEF IInv, TypeOK
<1>2. proc[p].user \in Users
  BY DEF IInv, Finalise, ScrubForDeletion, DeleteIdentities, DeleteSubscriptions,
         DeleteNotifications, UsersKnown, At
<1>3. Found' \subseteq Found /\ Waived' \subseteq Waived
  <2>1. CASE p \in Calls
    <3>1. ~AtOnce(p)' BY <2>1, FinalisePlaces, SweepAssumption DEF AtOnce
    <3> QED BY <2>1, <3>1, OwnWaiver
  <2>2. CASE p = Sweep
    <3>1. \A c \in Calls : proc'[c] = proc[c] BY <2>2, FinalisePlaces, SweepAssumption DEF Procs
    <3>2. Waived' = Waived BY <3>1 DEF Waived, AtOnce
    <3>3. ~At(Sweep, "closing")' BY <2>2, FinalisePlaces DEF At
    <3>4. todo' = todo
      BY DEF Finalise, ScrubForDeletion, DeleteIdentities, DeleteSubscriptions,
             DeleteNotifications, jobs
    <3>5. Found' \subseteq Found BY <3>3, <3>4 DEF Found
    <3> QED BY <3>2, <3>5
  <2> QED BY <2>1, <2>2 DEF Procs
<1>4. CASE ScrubForDeletion(p)
  <2>1. PICK u \in Users : u = proc[p].user BY <1>2
  <2>2. u \in Found \cup Waived
    <3>1. CASE p = Sweep BY <1>4, <2>1, <3>1 DEF ScrubForDeletion, Found
    <3>2. CASE p \in Calls
      BY <1>4, <2>1, <3>2 DEF ScrubForDeletion, ClosingAtOnce, Waived, AtOnce, At
    <3> QED BY <3>1, <3>2 DEF Procs
  <2>3. /\ account'[u].deleted /\ ~account'[u].password /\ ~account'[u].nickname
        /\ \A v \in Users \ {u} : account'[v] = account[v]
    BY <1>1, <1>4, <2>1 DEF ScrubForDeletion, Columns
  <2>4. identities' = identities BY <1>4 DEF ScrubForDeletion
  <2>5. Phase' = [Phase EXCEPT ![u] = "closed"]
    <3>1. PhaseOf(account'[u]) = "closed" BY <2>3 DEF PhaseOf
    <3>2. \A v \in Users \ {u} : PhaseOf(account'[v]) = PhaseOf(account[v]) BY <2>3
    <3> QED BY <3>1, <3>2, PhaseChanges
  <2>6. \A key \in {"password", "nickname", "identity"} :
          HasKey(u, key)' <=> key \in Held[u] \ {"password", "nickname"}
    BY <2>3, <2>4, KeysHeld DEF HasKey
  <2>7. \A v \in Users \ {u}, key \in {"password", "nickname", "identity"} :
          HasKey(v, key)' <=> HasKey(v, key)
    BY <2>3, <2>4 DEF HasKey
  <2>8. Held' = [Held EXCEPT ![u] = @ \ {"password", "nickname"}]
    BY <2>6, <2>7, KeysHeld, KeysChange
  <2>9. Leaving!Close(u) BY <1>3, <2>2, <2>5, <2>8 DEF Leaving!Close
  <2> QED BY <2>9 DEF LeavingStep, Leaving!Next
<1>5. CASE DeleteIdentities(p)
  <2>1. account' = account /\ identities' = identities \ {proc[p].user}
    BY <1>5 DEF DeleteIdentities
  <2>2. account[proc[p].user].deleted BY <1>5 DEF DeleteIdentities, IInv, ScrubbedFirst, At
  <2>3. Phase' = Phase /\ Phase[proc[p].user] = "closed"
    BY <1>2, <2>1, <2>2 DEF Phase, PhaseOf
  <2>4. Held' = [Held EXCEPT ![proc[p].user] = @ \ {"identity"}]
    <3>1. PICK u \in Users : u = proc[p].user BY <1>2
    <3>2. \A key \in {"password", "nickname", "identity"} :
            HasKey(u, key)' <=> key \in Held[u] \ {"identity"}
      BY <2>1, <3>1, KeysHeld DEF HasKey
    <3>3. \A v \in Users \ {u}, key \in {"password", "nickname", "identity"} :
            HasKey(v, key)' <=> HasKey(v, key)
      BY <2>1, <3>1 DEF HasKey
    <3>4. Held' = [Held EXCEPT ![u] = Held[u] \ {"identity"}]
      BY <3>2, <3>3, KeysHeld, KeysChange
    <3> QED BY <3>1, <3>4
  <2>5. Found' = Found /\ Waived' = Waived
    <3>1. ~AtOnce(p) /\ ~At(p, "closing") BY <1>5 DEF DeleteIdentities, AtOnce, At
    <3>2. \A q \in Procs \ {p} : proc'[q] = proc[q] BY FinalisePlaces
    <3>3. ~AtOnce(p)' /\ ~At(p, "closing")'
      BY FinalisePlaces DEF AtOnce, At
    <3>4. todo' = todo BY <1>5 DEF DeleteIdentities, jobs
    <3>5. Found' = Found BY <3>1, <3>2, <3>3, <3>4 DEF Found, Procs, At
    <3>6. Waived' = Waived BY <3>1, <3>2, <3>3 DEF Waived, Procs, AtOnce
    <3> QED BY <3>5, <3>6
  <2>6. Leaving!Clear(proc[p].user)
    BY <2>3, <2>4, <2>5 DEF Leaving!Clear, Leaving!Closed
  <2> QED BY <1>2, <2>6 DEF LeavingStep, Leaving!Next
<1>6. CASE DeleteSubscriptions(p) \/ DeleteNotifications(p)
  <2>1. account' = account /\ identities' = identities
    BY <1>6 DEF DeleteSubscriptions, DeleteNotifications, rows
  <2> QED BY <1>3, <2>1, GivingUp
<1> QED BY <1>4, <1>5, <1>6 DEF Finalise

LEMMA OtherLeaving ==
  ASSUME IInv, OtherStep
  PROVE  LeavingStep
<1> USE SweepAssumption DEF Procs
<1>1. /\ proc \in [Procs -> ProcState] /\ account \in [Users -> Columns]
      /\ todo \subseteq Users
  BY DEF IInv, TypeOK
<1>2. Waived' \subseteq Waived
  <2>1. \A c \in Calls : AtOnce(c)' => proc'[c] = proc[c] BY OtherPlaces DEF AtOnce, Idle
  <2> QED BY <2>1 DEF Waived, AtOnce
<1>3. CASE ListExpired
  <2>1. proc'[Sweep] = [proc[Sweep] EXCEPT !.step = "sweeping"]
    BY <1>1, <1>3 DEF ListExpired, Goto
  <2>2. ~At(Sweep, "closing")' BY <1>1, <2>1 DEF ProcState, At
  <2>3. account' = account /\ identities' = identities BY <1>3 DEF ListExpired, rows
  <2>4. Found' = {u \in Users : Phase[u] = "lapsed"}
    <3>1. Found' = FindPendingDeletionBefore
      BY <1>3, <2>2 DEF ListExpired, Found, FindPendingDeletionBefore
    <3>2. \A u \in Users : Phase[u] = "lapsed" <=> Lapsed(u) /\ ~account[u].deleted
      BY <1>1 DEF Phase, PhaseOf, Lapsed, Columns
    <3> QED BY <3>1, <3>2 DEF FindPendingDeletionBefore
  <2>5. Waived' = Waived
    <3>1. \A c \in Calls : proc'[c] = proc[c] BY <1>1, <1>3 DEF ListExpired, Goto
    <3> QED BY <3>1 DEF Waived, AtOnce
  <2>6. Phase' = Phase /\ Held' = Held BY <2>3, StillSeen
  <2>7. Leaving!List BY <2>4, <2>5, <2>6 DEF Leaving!List
  <2> QED BY <2>7 DEF LeavingStep, Leaving!Next
<1>4. ASSUME NEW u \in Users, FinaliseNext(u) PROVE LeavingStep
  <2>1. proc'[Sweep].user = u BY <1>1, <1>4 DEF FinaliseNext, Idle
  <2>2. Found' \subseteq Found BY <1>4, <2>1 DEF FinaliseNext, Found
  <2>3. account' = account /\ identities' = identities BY <1>4 DEF FinaliseNext, rows
  <2> QED BY <1>2, <2>2, <2>3, GivingUp
<1>5. CASE EndSweep \/ SweepFails \/ Crash
  <2>1. proc'[Sweep] = Idle /\ todo' \subseteq todo
    BY <1>1, <1>5 DEF EndSweep, SweepFails, Crash, Finish
  <2>2. Found' \subseteq Found BY <2>1 DEF Found, At, Idle
  <2>3. account' = account /\ identities' = identities
    BY <1>5 DEF EndSweep, SweepFails, Crash, rows
  <2> QED BY <1>2, <2>2, <2>3, GivingUp
<1>6. ASSUME proc' = proc, todo' = todo PROVE Found' = Found /\ Waived' = Waived
  BY <1>6 DEF Found, Waived, AtOnce, At
<1>7. ASSUME NEW u \in Users, GraceEnds(u) PROVE LeavingStep
  BY <1>6, <1>7, RowMoves DEF GraceEnds, jobs
<1>8. CASE (\E s \in Tokens : EndSession(s)) \/ (\E u \in Users : LinkExpires(u))
  <2>1. account' = account /\ identities' = identities /\ proc' = proc /\ todo' = todo
    BY <1>8 DEF EndSession, LinkExpires, jobs
  <2> QED BY <1>6, <2>1, GivingUp
<1> QED BY <1>3, <1>4, <1>5, <1>7, <1>8 DEF OtherStep

\* Withdrawals, restores, logins, links and the sweep, statement by statement and
\* with every failure between them, implement what Withdrawal promises.
THEOREM AccountRefinesWithdrawal == Spec => ImplementsWithdrawal
<1>1. ASSUME Init PROVE Leaving!Init
  <2>1. \A p \in Procs : proc[p] = Idle BY <1>1 DEF Init
  <2>2. Found = {} BY <1>1, <2>1 DEF Init, Found, At, Idle, Procs
  <2>3. Waived = {} BY <2>1 DEF Waived, AtOnce, Idle, Procs
  <2>4. \A u \in Users : ~account[u].deleted /\ account[u].deletion = "none"
    BY <1>1 DEF Init
  <2>5. Phase = [u \in Users |-> "active"] BY <2>4 DEF Phase, PhaseOf
  <2>6. Held \in [Users -> SUBSET Leaving!Keys] BY DEF Held, KeysOf, Leaving!Keys
  <2> QED BY <2>2, <2>3, <2>5, <2>6 DEF Leaving!Init
<1>2. ASSUME IInv, ClosingAtOnce, [Next]_vars PROVE LeavingStep /\ ClosingAtOnce'
  <2>1. CASE Next
    BY <1>2, <2>1, StepCases, LocalLeaving, TableLeaving, FinaliseLeaving, OtherLeaving,
       ClosingNext DEF Procs
  <2>2. CASE UNCHANGED vars
    <3>1. account' = account /\ identities' = identities /\ proc' = proc /\ todo' = todo
      BY <2>2 DEF vars, rows, jobs
    <3>2. Found' = Found /\ Waived' = Waived BY <3>1 DEF Found, Waived, AtOnce, At
    <3> QED BY <1>2, <3>1, <3>2, GivingUp DEF ClosingAtOnce, At
  <2> QED BY <1>2, <2>1, <2>2
<1>3. Spec => []ClosingAtOnce BY <1>2, ClosingInit, InvariantHolds, PTL DEF Spec
<1>4. LeavingStep => [Leaving!Next]_(Leaving!leavingVars) BY DEF LeavingStep
<1> QED
  BY <1>1, <1>2, <1>3, <1>4, InvariantHolds, PTL
  DEF Spec, ImplementsWithdrawal, Leaving!Spec

---------------------------------------------------------------------------
(* A closed account stays closed *)

\* The part of Closed about the processes, and the part about the tables.
Unheld(u) == \A p \in Procs : proc[p].user = u => proc[p].step \in Harmless
Emptied(u) ==
  /\ account[u].deleted
  /\ ~account[u].nickname
  /\ u \notin identities
  /\ u \notin subscriptions
  /\ u \notin todo
  /\ \A s \in Tokens : sessions[s] # u

LEMMA ClosedParts == ASSUME NEW u PROVE Closed(u) <=> Emptied(u) /\ Unheld(u)
BY DEF Closed, Emptied, Unheld

\* No handler begins for a closed account that could lead into it.
LEMMA LocalClosed ==
  ASSUME IInv, NEW c \in Calls, LocalStep(c), NEW u \in Users, Emptied(u), Unheld(u)
  PROVE  Emptied(u)' /\ Unheld(u)'
<1>1. c \in Procs /\ proc \in [Procs -> ProcState] /\ u # None
  BY NoneAssumption DEF IInv, TypeOK, Procs
<1>2. ASSUME proc'[c].user = u => proc'[c].step \in Harmless PROVE Unheld(u)'
  <2>1. \A p \in Procs \ {c} : proc'[p] = proc[p] BY LocalPlaces
  <2> QED BY <1>2, <2>1 DEF Unheld
<1>3. ASSUME NEW v \in Users, NEW step, Begin(c, step, v), v = u => step \in Harmless
      PROVE  Unheld(u)'
  <2>1. proc'[c].user = v /\ proc'[c].step = step BY <1>1, <1>3 DEF Begin, Idle
  <2> QED BY <1>2, <1>3, <2>1
<1>4. ASSUME Finish(c) PROVE Unheld(u)'
  <2>1. proc'[c].user = None BY <1>1, <1>4 DEF Finish, Idle
  <2> QED BY <1>1, <1>2, <2>1
<1>5. ASSUME NEW step, proc[c].user # u, Goto(c, step) PROVE Unheld(u)'
  <2>1. proc'[c] = [proc[c] EXCEPT !.step = step] BY <1>1, <1>5 DEF Goto
  <2>2. proc'[c].user = proc[c].user BY <1>1, <2>1 DEF ProcState
  <2> QED BY <1>2, <1>5, <2>2
<1>6. ASSUME NEW v \in Users, ReadCredentials(c, v) PROVE Unheld(u)'
  BY <1>3, <1>6 DEF ReadCredentials, KnownByEmail, Emptied
<1>7. ASSUME NEW v \in Users, FindIdentity(c, v) PROVE Unheld(u)'
  BY <1>3, <1>7 DEF FindIdentity, Emptied, Harmless
<1>8. ASSUME NEW v \in Users, FindForLink(c, v) PROVE Unheld(u)'
  BY <1>3, <1>8 DEF FindForLink, KnownByEmail, Emptied
<1>9. ASSUME NEW v \in Users, FindLink(c, v) PROVE Unheld(u)'
  BY <1>3, <1>9 DEF FindLink, Harmless
<1>10. ASSUME NEW s \in Tokens, NEW request \in Requests, NEW immediate \in BOOLEAN,
              Authorise(c, s, request, immediate)
       PROVE  Unheld(u)'
  <2>1. proc'[c].user = sessions[s] BY <1>1, <1>10 DEF Authorise
  <2> QED BY <1>2, <2>1 DEF Emptied
<1>11. ASSUME MatchEmail(c) PROVE Unheld(u)'
  BY <1>4, <1>5, <1>11 DEF MatchEmail, KnownByEmail, Emptied
<1>12. ASSUME CheckNickname(c) \/ CheckLink(c) PROVE Unheld(u)'
  <2>1. proc[c].user # u BY <1>1, <1>12 DEF CheckNickname, CheckLink, At, Unheld, Harmless
  <2> QED BY <1>4, <1>5, <1>12, <2>1 DEF CheckNickname, CheckLink
<1>13. ASSUME CallFails(c) PROVE Unheld(u)'
  BY <1>4, <1>13 DEF CallFails
<1>14. Unheld(u)'
  BY <1>6, <1>7, <1>8, <1>9, <1>10, <1>11, <1>12, <1>13 DEF LocalStep
<1>15. UNCHANGED <<rows, jobs>>
  BY DEF LocalStep, ReadCredentials, FindIdentity, FindForLink, FindLink, Authorise,
         MatchEmail, CheckNickname, CheckLink, CallFails
<1> QED BY <1>14, <1>15 DEF Emptied, rows, jobs

\* The handlers still running for a closed account reach none of its tables.
LEMMA TableClosed ==
  ASSUME IInv, NEW c \in Calls, TableStep(c), NEW u \in Users, Emptied(u), Unheld(u)
  PROVE  Emptied(u)' /\ Unheld(u)'
<1>1. /\ c \in Procs /\ proc \in [Procs -> ProcState] /\ u # None
      /\ account \in [Users -> Columns]
  BY NoneAssumption DEF IInv, TypeOK, Procs
<1>2. \A p \in Procs \ {c} : proc'[p] = proc[p] BY LocalPlaces
<1>3. proc[c].user = u => proc[c].step \in Harmless BY <1>1 DEF Unheld
<1>4. CASE UpdatePassword(c)
  <2>1. proc'[c] = [proc[c] EXCEPT !.step = "spending"] BY <1>1, <1>4 DEF UpdatePassword, Goto
  <2>2. proc'[c].step = "spending" BY <1>1, <2>1 DEF ProcState
  <2>3. Unheld(u)' BY <1>2, <2>2 DEF Unheld, Harmless
  <2>4. account'[u].deleted = account[u].deleted /\ account'[u].nickname = account[u].nickname
    BY <1>1, <1>4 DEF UpdatePassword, Columns
  <2> QED BY <1>4, <2>3, <2>4 DEF UpdatePassword, Emptied, jobs
<1>5. CASE MarkUsed(c)
  <2>1. proc'[c].user = None BY <1>1, <1>5 DEF MarkUsed, Finish, Idle
  <2> QED BY <1>1, <1>2, <1>5, <2>1 DEF MarkUsed, Emptied, Unheld, jobs
<1>6. ASSUME ~UpdatePassword(c), ~MarkUsed(c) PROVE Emptied(u)' /\ Unheld(u)'
  <2>1. proc[c].user # u
    BY <1>3, <1>6
    DEF TableStep, MergeIdentity, CreateSession, Subscribe, WriteNickname,
        LinkIdentity, InsertIdentity, RestoreAccount, RevokeSessions, SilenceDevices,
        RequestDeletion, IssueLink, At, Harmless
  <2>2. Finish(c) \/ \E step \in Steps : Goto(c, step)
    BY <1>6
    DEF TableStep, MergeIdentity, CreateSession, Subscribe, WriteNickname,
        LinkIdentity, InsertIdentity, RestoreAccount, RevokeSessions, SilenceDevices,
        RequestDeletion, IssueLink, Steps
  <2>3. ASSUME NEW step \in Steps, Goto(c, step) PROVE proc'[c].user = proc[c].user
    <3>1. proc'[c] = [proc[c] EXCEPT !.step = step] BY <1>1, <2>3 DEF Goto
    <3> QED BY <1>1, <3>1 DEF ProcState
  <2>4. proc'[c].user # u BY <1>1, <2>1, <2>2, <2>3 DEF Finish, Idle
  <2>5. Unheld(u)' BY <1>2, <2>4 DEF Unheld
  <2>6. account'[u] = account[u]
    BY <1>1, <1>6, <2>1
    DEF TableStep, MergeIdentity, CreateSession, Subscribe, WriteNickname,
        LinkIdentity, InsertIdentity, RestoreAccount, RevokeSessions, SilenceDevices,
        RequestDeletion, IssueLink
  <2>7. /\ u \notin identities' /\ u \notin subscriptions' /\ u \notin todo'
        /\ \A s \in Tokens : sessions'[s] # u
    BY <1>1, <1>6, <2>1
    DEF TableStep, MergeIdentity, CreateSession, Subscribe, WriteNickname,
        LinkIdentity, InsertIdentity, RestoreAccount, RevokeSessions, SilenceDevices,
        RequestDeletion, IssueLink, Emptied, jobs, IInv, TypeOK
  <2> QED BY <2>5, <2>6, <2>7 DEF Emptied
<1> QED BY <1>4, <1>5, <1>6

\* Whoever finalises is at work for another account.
LEMMA FinaliseClosed ==
  ASSUME IInv, NEW p \in Procs, Finalise(p), NEW u \in Users, Emptied(u), Unheld(u)
  PROVE  Emptied(u)' /\ Unheld(u)'
<1>1. /\ proc \in [Procs -> ProcState] /\ u # None /\ account \in [Users -> Columns]
  BY NoneAssumption DEF IInv, TypeOK
<1>2. proc[p].user # u
  BY DEF Finalise, ScrubForDeletion, DeleteIdentities, DeleteSubscriptions,
         DeleteNotifications, At, Unheld, Harmless
<1>3. proc'[p].user # u
  <2>1. ASSUME NEW step, Goto(p, step) PROVE proc'[p].user = proc[p].user
    <3>1. proc'[p] = [proc[p] EXCEPT !.step = step] BY <1>1, <2>1 DEF Goto
    <3> QED BY <1>1, <3>1 DEF ProcState
  <2>2. CASE DeleteNotifications(p)
    BY <1>1, <2>2 DEF DeleteNotifications, Finish, Idle
  <2> QED
    BY <1>2, <2>1, <2>2 DEF Finalise, ScrubForDeletion, DeleteIdentities, DeleteSubscriptions
<1>4. Unheld(u)'
  <2>1. \A q \in Procs \ {p} : proc'[q] = proc[q] BY FinalisePlaces
  <2> QED BY <1>3, <2>1 DEF Unheld
<1>5. account'[u] = account[u]
  BY <1>1, <1>2
  DEF Finalise, ScrubForDeletion, DeleteIdentities, DeleteSubscriptions,
      DeleteNotifications, rows
<1>6. /\ identities' \subseteq identities /\ subscriptions' \subseteq subscriptions
      /\ todo' = todo /\ sessions' = sessions
  BY DEF Finalise, ScrubForDeletion, DeleteIdentities, DeleteSubscriptions,
         DeleteNotifications, rows, jobs
<1> QED BY <1>4, <1>5, <1>6 DEF Emptied

\* The sweep lists no finalised account, and nothing else looks for one.
LEMMA OtherClosed ==
  ASSUME IInv, OtherStep, NEW u \in Users, Emptied(u), Unheld(u)
  PROVE  Emptied(u)' /\ Unheld(u)'
<1>1. /\ proc \in [Procs -> ProcState] /\ u # None /\ account \in [Users -> Columns]
  BY NoneAssumption DEF IInv, TypeOK
<1>2. ASSUME \A p \in Procs : proc'[p] = proc[p] \/ proc'[p].user # u PROVE Unheld(u)'
  BY <1>2 DEF Unheld
<1>3. CASE ListExpired
  <2>1. proc[Sweep].user # u
    BY <1>3, SweepAssumption DEF ListExpired, At, Unheld, Harmless, Procs
  <2>2. proc'[Sweep] = [proc[Sweep] EXCEPT !.step = "sweeping"]
    BY <1>1, <1>3 DEF ListExpired, Goto, Procs
  <2>3. proc'[Sweep].user = proc[Sweep].user BY <1>1, <2>2 DEF ProcState, Procs
  <2>4. Unheld(u)' BY <1>1, <1>2, <1>3, <2>1, <2>3 DEF ListExpired, Goto
  <2>5. u \notin todo' BY <1>3 DEF ListExpired, FindPendingDeletionBefore, Emptied
  <2> QED BY <1>3, <2>4, <2>5 DEF ListExpired, Emptied, rows
<1>4. CASE EndSweep
  <2>1. Unheld(u)' BY <1>1, <1>2, <1>4 DEF EndSweep, Finish, Idle
  <2> QED BY <1>4, <2>1 DEF EndSweep, Emptied, rows
<1>5. ASSUME NEW v \in Users, FinaliseNext(v) PROVE Emptied(u)' /\ Unheld(u)'
  <2>1. v # u BY <1>5 DEF FinaliseNext, Emptied
  <2>2. Unheld(u)' BY <1>1, <1>2, <1>5, <2>1 DEF FinaliseNext, Idle
  <2> QED BY <1>5, <2>2 DEF FinaliseNext, Emptied, rows
<1>6. ASSUME NEW s \in Tokens, EndSession(s) PROVE Emptied(u)' /\ Unheld(u)'
  <2>1. \A t \in Tokens : sessions'[t] # u
    BY <1>1, <1>6 DEF EndSession, Emptied, IInv, TypeOK
  <2> QED BY <1>6, <2>1 DEF EndSession, Emptied, Unheld, jobs
<1>7. ASSUME NEW v \in Users, GraceEnds(v) PROVE Emptied(u)' /\ Unheld(u)'
  <2>1. account'[u].deleted = account[u].deleted /\ account'[u].nickname = account[u].nickname
    BY <1>1, <1>7 DEF GraceEnds, Columns
  <2> QED BY <1>7, <2>1 DEF GraceEnds, Emptied, Unheld, jobs
<1>8. ASSUME NEW v \in Users, LinkExpires(v) PROVE Emptied(u)' /\ Unheld(u)'
  BY <1>8 DEF LinkExpires, Emptied, Unheld, jobs
<1>9. CASE SweepFails \/ Crash
  <2>1. Unheld(u)' BY <1>1, <1>2, <1>9 DEF SweepFails, Crash, Finish, Idle
  <2> QED BY <1>9, <2>1 DEF SweepFails, Crash, Emptied, rows
<1> QED BY <1>3, <1>4, <1>5, <1>6, <1>7, <1>8, <1>9 DEF OtherStep

\* A finalised account into which nothing leads any more is never reopened: not
\* by a password, an OAuth login, a reset link, or the sweep.
THEOREM ClosedStaysClosed == Spec => ClosedForEver
<1>1. ASSUME IInv, Next, NEW u \in Users, Closed(u) PROVE Closed(u)'
  <2>1. Emptied(u) /\ Unheld(u) BY <1>1, ClosedParts
  <2>2. Emptied(u)' /\ Unheld(u)'
    BY <1>1, <2>1, StepCases, LocalClosed, TableClosed, FinaliseClosed, OtherClosed DEF Procs
  <2> QED BY <2>2 DEF Closed, Emptied, Unheld
<1>2. ASSUME IInv, [Next]_vars PROVE [\A u \in Users : Closed(u) => Closed(u)']_vars
  BY <1>1, <1>2
<1> QED BY <1>2, InvariantHolds, PTL DEF Spec, ClosedForEver

---------------------------------------------------------------------------
(* Inbox: the types *)

Badge == [data : Counts, first : BOOLEAN, fetch : {"none", "sent", "read"}, got : Counts]
Visit == [kind : {"read", "one", "all"}, step : {"idle", "sent", "handled"},
          note : {S \in SUBSET Notes : Cardinality(S) <= 1}]

LEMMA CountsTyped == Unread \in Counts /\ 0 \in Counts
<1>1. Cardinality(Notes) \in Nat BY NotesAssumption, FS_CardinalityType
<1> DEFINE U == {n \in Notes : notes[n] = "unread"}
<1>2. U \in SUBSET Notes OBVIOUS
<1>3. IsFiniteSet(U) /\ Cardinality(U) <= Cardinality(Notes)
  BY <1>2, NotesAssumption, FS_Subset
<1>4. Cardinality(U) \in Nat BY <1>3, FS_CardinalityType
<1> QED BY <1>1, <1>3, <1>4 DEF Unread, Counts

LEMMA VisitsTyped ==
  /\ NoVisit \in Visit
  /\ \A n \in Notes : {n} \in {S \in SUBSET Notes : Cardinality(S) <= 1}
  /\ {} \in {S \in SUBSET Notes : Cardinality(S) <= 1}
<1>1. Cardinality({}) = 0 /\ \A n \in Notes : Cardinality({n}) = 1
  BY FS_EmptySet, FS_Singleton
<1>2. {} \in {S \in SUBSET Notes : Cardinality(S) <= 1} BY <1>1
<1>3. \A n \in Notes : {n} \in {S \in SUBSET Notes : Cardinality(S) <= 1} BY <1>1
<1> QED BY <1>2, <1>3 DEF NoVisit, Visit

LEMMA RefetchedTyped == ASSUME badge \in Badge PROVE Refetched \in Badge
<1>1. 0 \in Counts BY CountsTyped
<1> QED BY <1>1 DEF Refetched, Badge

LEMMA InboxInitTyped == InboxInit => InboxTypeOK
<1> SUFFICES ASSUME InboxInit PROVE InboxTypeOK OBVIOUS
<1>1. 0 \in 0..MaxVisits /\ 0 \in 0..MaxCuts BY InboxBoundsAssumption
<1>2. badge \in Badge BY CountsTyped DEF InboxInit, Badge
<1>3. visits \in [Visits -> Visit] BY VisitsTyped DEF InboxInit
<1> QED BY <1>1, <1>2, <1>3 DEF InboxInit, InboxTypeOK, Badge, Visit

\* The stream, the badge and the list.
LEMMA StreamTyped ==
  ASSUME InboxTypeOK,
         \/ \E n \in Notes : Create(n)
         \/ Connect \/ Disconnect \/ Message
         \/ Poll \/ ReadBadge \/ BadgeArrives \/ BadgeFails \/ ShowList
  PROVE  InboxTypeOK'
<1>1. /\ notes \in [Notes -> {"absent", "unread", "read", "deleted"}]
      /\ connected \in BOOLEAN /\ ping \in BOOLEAN /\ badge \in Badge
      /\ cuts \in 0..MaxCuts
  BY DEF InboxTypeOK, Badge
<1>2. 0 \in Counts /\ Unread \in Counts BY CountsTyped
<1>3. Cut => cuts' \in 0..MaxCuts BY <1>1, InboxBoundsAssumption DEF Cut
<1>4. ASSUME NEW n \in Notes, Create(n) PROVE InboxTypeOK'
  <2>1. notes' \in [Notes -> {"absent", "unread", "read", "deleted"}] BY <1>1, <1>4 DEF Create
  <2>2. ping' \in BOOLEAN BY <1>4 DEF Create
  <2> QED BY <1>4, <2>1, <2>2 DEF Create, InboxTypeOK, Counts
<1>5. CASE Connect BY <1>5 DEF Connect, InboxTypeOK, Counts
<1>6. CASE Disconnect BY <1>3, <1>6 DEF Disconnect, InboxTypeOK, Counts
<1>7. CASE Message
  <2>1. badge' \in Badge BY <1>1, <1>7, RefetchedTyped DEF Message
  <2> QED BY <1>7, <2>1 DEF Message, InboxTypeOK, Badge, Counts
<1>8. CASE Poll
  <2>1. badge' \in Badge BY <1>1, <1>8 DEF Poll, Badge
  <2> QED BY <1>8, <2>1 DEF Poll, InboxTypeOK, Badge, Counts
<1>9. CASE ReadBadge
  <2>1. badge' \in Badge BY <1>1, <1>2, <1>9 DEF ReadBadge, Badge
  <2> QED BY <1>9, <2>1 DEF ReadBadge, InboxTypeOK, Badge, Counts
<1>10. CASE BadgeArrives
  <2>1. badge' \in Badge BY <1>1, <1>2, <1>10 DEF BadgeArrives, Badge
  <2> QED BY <1>10, <2>1 DEF BadgeArrives, InboxTypeOK, Badge, Counts
<1>11. CASE BadgeFails
  <2>1. badge' \in Badge BY <1>1, <1>2, <1>11 DEF BadgeFails, Badge
  <2> QED BY <1>3, <1>11, <2>1 DEF BadgeFails, InboxTypeOK, Badge, Counts
<1>12. CASE ShowList
  BY <1>12 DEF ShowList, Listed, InboxTypeOK, Counts
<1> QED BY <1>4, <1>5, <1>6, <1>7, <1>8, <1>9, <1>10, <1>11, <1>12

\* The calls of the page.
LEMMA PageTyped ==
  ASSUME InboxTypeOK, NEW v \in Visits,
         \/ OpenPage(v) \/ DeleteAll(v) \/ VisitFails(v) \/ CallNext(v)
         \/ \E n \in Notes : DeleteOne(v, n)
  PROVE  InboxTypeOK'
<1>1. /\ notes \in [Notes -> {"absent", "unread", "read", "deleted"}]
      /\ badge \in Badge /\ visits \in [Visits -> Visit] /\ visits[v] \in Visit
      /\ visited \in 0..MaxVisits /\ cuts \in 0..MaxCuts
  BY DEF InboxTypeOK, Badge, Visit
<1>2. [visits EXCEPT ![v] = NoVisit] \in [Visits -> Visit] BY <1>1, VisitsTyped
<1>3. ASSUME NEW kind \in {"read", "one", "all"},
             NEW note \in {S \in SUBSET Notes : Cardinality(S) <= 1}, Ask(v, kind, note)
      PROVE  InboxTypeOK'
  <2>1. visited' \in 0..MaxVisits BY <1>1, <1>3, InboxBoundsAssumption DEF Ask
  <2>2. [kind |-> kind, step |-> "sent", note |-> note] \in Visit BY DEF Visit
  <2>3. visits' \in [Visits -> Visit] BY <1>1, <1>3, <2>2 DEF Ask
  <2> QED BY <1>3, <2>1, <2>3 DEF Ask, InboxTypeOK, Visit, Counts
<1>4. CASE OpenPage(v) \/ DeleteAll(v) \/ \E n \in Notes : DeleteOne(v, n)
  BY <1>3, <1>4, VisitsTyped DEF OpenPage, DeleteAll, DeleteOne
<1>5. CASE VisitFails(v)
  <2>1. cuts' \in 0..MaxCuts BY <1>1, <1>5, InboxBoundsAssumption DEF VisitFails, Cut
  <2>2. visits' \in [Visits -> Visit] BY <1>2, <1>5 DEF VisitFails
  <2> QED BY <1>5, <2>1, <2>2 DEF VisitFails, InboxTypeOK, Visit, Counts
<1>6. CASE Handle(v)
  <2>1. notes' \in [Notes -> {"absent", "unread", "read", "deleted"}]
    BY <1>1, <1>6 DEF Handle
  <2>2. [visits[v] EXCEPT !.step = "handled"] \in Visit BY <1>1 DEF Visit
  <2>3. visits' \in [Visits -> Visit] BY <1>1, <1>6, <2>2, VisitsTyped DEF Handle
  <2> QED BY <1>6, <2>1, <2>3 DEF Handle, InboxTypeOK, Visit, Counts
<1>7. CASE Answered(v)
  <2>1. badge' \in Badge
    <3>1. [badge EXCEPT !.data = 0, !.first = FALSE] \in Badge
      BY <1>1, CountsTyped DEF Badge
    <3> QED BY <1>1, <1>7, <3>1, RefetchedTyped DEF Answered
  <2>2. visits' \in [Visits -> Visit] BY <1>2, <1>7 DEF Answered
  <2> QED BY <1>7, <2>1, <2>2 DEF Answered, InboxTypeOK, Badge, Visit, Counts
<1> QED BY <1>4, <1>5, <1>6, <1>7 DEF CallNext

LEMMA InboxNextTyped == InboxTypeOK /\ [InboxNext]_inboxVars => InboxTypeOK'
<1> SUFFICES ASSUME InboxTypeOK, [InboxNext]_inboxVars PROVE InboxTypeOK' OBVIOUS
<1>1. CASE UNCHANGED inboxVars BY <1>1 DEF inboxVars, InboxTypeOK, Counts
<1>2. CASE InboxNext BY <1>2, StreamTyped, PageTyped DEF InboxNext
<1> QED BY <1>1, <1>2

\* The rows, the badge and the page's calls keep to their types: the badge counts
\* no more than there are notifications, whatever is written over it meanwhile.
THEOREM InboxTypeSound == InboxSpec => []InboxTypeOK
BY InboxInitTyped, InboxNextTyped, PTL DEF InboxSpec

---------------------------------------------------------------------------
(* The two side by side *)

\* Side by side, the accounts and the inbox keep to their types.
THEOREM LiveTypeSound == LiveSpec => []LiveTypeOK
<1>1. LiveInit => IInv /\ InboxTypeOK BY TypeInit, InboxInitTyped DEF LiveInit
<1>2. IInv /\ InboxTypeOK /\ [LiveNext]_<<component, vars, inboxVars>>
        => (IInv /\ InboxTypeOK)'
  <2>1. [LiveNext]_<<component, vars, inboxVars>> => [Next]_vars /\ [InboxNext]_inboxVars
    BY DEF LiveNext
  <2> QED BY <2>1, NextInv, InboxNextTyped
<1>3. IInv /\ InboxTypeOK => LiveTypeOK BY DEF LiveTypeOK, IInv
<1> QED BY <1>1, <1>2, <1>3, PTL DEF LiveSpec

---------------------------------------------------------------------------
(* Records: the inductive invariant *)

RecordsTyped ==
  /\ tab \in Tabs /\ synced \in Tabs
  /\ search \in Searches
  /\ queued \in Searches \cup {None}
  /\ box \in BoxTexts /\ settled \in BoxTexts
  /\ url \in Urls
  /\ pending \in Seq(Urls) /\ Len(pending) <= MaxPending

\* A state that is queued is another search, from its first page on.
QueuedAfresh == queued # None => queued.q # search.q /\ queued.page = 1

RecordsIInv == RecordsTyped /\ QueuedAfresh /\ chosen = search

---------------------------------------------------------------------------
LEMMA SearchesTyped ==
  /\ NoSearch \in Searches
  /\ NoParams \in [Tabs -> Searches]
  /\ TextOf(None) \in BoxTexts
  /\ \A q \in Words \cup {None} : TextOf(q) \in BoxTexts
<1>1. NoSearch \in Searches BY RecordsAssumption DEF NoSearch, Searches
<1>2. \A q \in Words \cup {None} : TextOf(q) \in BoxTexts BY DEF TextOf, BoxTexts
<1>3. NoParams \in [Tabs -> Searches] BY <1>1 DEF NoParams
<1> QED BY <1>1, <1>2, <1>3

\* A navigation that is asked for takes its place behind the others.
LEMMA NavigateTyped ==
  ASSUME RecordsTyped, NEW u \in Urls, Navigate(u)
  PROVE  pending' \in Seq(Urls) /\ Len(pending') <= MaxPending
<1>1. pending \in Seq(Urls) /\ Len(pending) < MaxPending /\ pending' = Append(pending, u)
  BY DEF RecordsTyped, Navigate
<1>2. Len(pending) \in Nat /\ pending' \in Seq(Urls) /\ Len(pending') = Len(pending) + 1
  BY <1>1
<1> QED BY <1>1, <1>2, RecordsAssumption

LEMMA ReplaceTyped ==
  ASSUME RecordsTyped, NEW next \in Searches, Replace(next)
  PROVE  pending' \in Seq(Urls) /\ Len(pending') <= MaxPending
<1>1. [url EXCEPT !.params[tab] = next] \in Urls BY DEF RecordsTyped, Urls
<1> QED BY <1>1, NavigateTyped DEF Replace

\* A state that is rendered at once.
LEMMA UpdateNowSound ==
  ASSUME RecordsIInv, NEW next \in Searches, UpdateNow(next), chosen' = next,
         UNCHANGED <<tab, synced, box, settled, url>>
  PROVE  RecordsIInv'
<1>1. pending' \in Seq(Urls) /\ Len(pending') <= MaxPending
  BY ReplaceTyped DEF RecordsIInv, UpdateNow
<1> QED BY <1>1 DEF RecordsIInv, RecordsTyped, QueuedAfresh, UpdateNow

\* Showing a tab keeps what is shown, or mounts the section under what the URL says.
LEMMA ShowSound ==
  ASSUME RecordsIInv, NEW t \in Tabs, NEW u \in Urls, Show(t, u), synced' \in Tabs,
         url' \in Urls, pending' \in Seq(Urls), Len(pending') <= MaxPending
  PROVE  RecordsIInv'
<1>1. tab' = t BY DEF Show
<1>2. CASE t = tab BY <1>1, <1>2 DEF Show, RecordsIInv, RecordsTyped, QueuedAfresh
<1>3. CASE t # tab
  <2>1. Mount(t, u) BY <1>3 DEF Show
  <2>2. u.params[t] \in Searches /\ u.params[t].q \in Words \cup {None}
    BY DEF Urls, Searches
  <2> QED
    BY <1>1, <2>1, <2>2, SearchesTyped DEF Mount, RecordsIInv, RecordsTyped, QueuedAfresh
<1> QED BY <1>2, <1>3

---------------------------------------------------------------------------
LEMMA RecordsInitSound == RecordsInit => RecordsIInv
<1> SUFFICES ASSUME RecordsInit PROVE RecordsIInv OBVIOUS
<1>1. url \in Urls BY SearchesTyped DEF RecordsInit, Urls
<1>2. pending \in Seq(Urls) /\ Len(pending) <= MaxPending
  BY RecordsAssumption DEF RecordsInit
<1>3. tab \in Tabs /\ synced \in Tabs BY DEF RecordsInit, Tabs
<1>4. RecordsTyped BY <1>1, <1>2, <1>3, SearchesTyped DEF RecordsInit, RecordsTyped
<1> QED BY <1>4 DEF RecordsInit, RecordsIInv, QueuedAfresh

LEMMA ClickedSound ==
  ASSUME RecordsIInv, (\E r \in Ranges : SetRange(r)) \/ (\E n \in 1..MaxPage : SetPage(n))
  PROVE  RecordsIInv'
<1>1. search \in Searches BY DEF RecordsIInv, RecordsTyped
<1>2. ASSUME NEW r \in Ranges, SetRange(r) PROVE RecordsIInv'
  <2> DEFINE next == [search EXCEPT !.range = r, !.page = 1]
  <2>1. next \in Searches
    <3>1. 1 \in 1..MaxPage BY RecordsAssumption
    <3>2. [search EXCEPT !.range = r] \in Searches BY <1>1 DEF Searches
    <3>3. next = [[search EXCEPT !.range = r] EXCEPT !.page = 1] OBVIOUS
    <3> QED BY <3>1, <3>2, <3>3 DEF Searches
  <2>2. UpdateNow(next) /\ chosen' = next /\ UNCHANGED <<tab, synced, box, settled, url>>
    BY <1>2 DEF SetRange
  <2> HIDE DEF next
  <2> QED BY <2>1, <2>2, UpdateNowSound
<1>3. ASSUME NEW n \in 1..MaxPage, SetPage(n) PROVE RecordsIInv'
  <2> DEFINE next == [search EXCEPT !.page = n]
  <2>1. next \in Searches BY <1>1 DEF Searches
  <2>2. UpdateNow(next) /\ chosen' = next /\ UNCHANGED <<tab, synced, box, settled, url>>
    BY <1>3 DEF SetPage
  <2> HIDE DEF next
  <2> QED BY <2>1, <2>2, UpdateNowSound
<1> QED BY <1>2, <1>3

\* Only the debounce queues a state: of another search, from its first page.
LEMMA DebounceSound == ASSUME RecordsIInv, DebounceEnds PROVE RecordsIInv'
<1>1. search \in Searches /\ box \in BoxTexts BY DEF RecordsIInv, RecordsTyped
<1>2. settled' = box /\ UNCHANGED <<tab, synced, search, box, url, chosen>>
  BY DEF DebounceEnds
<1>3. CASE Trim(box) = search.q
  <2>1. UNCHANGED <<queued, pending>> BY <1>3 DEF DebounceEnds
  <2> QED BY <1>1, <1>2, <2>1 DEF RecordsIInv, RecordsTyped, QueuedAfresh
<1>4. CASE Trim(box) # search.q
  <2> DEFINE next == SearchFor(Trim(box))
  <2>1. next \in Searches /\ next.q # search.q /\ next.page = 1
    <3>1. 1 \in 1..MaxPage BY RecordsAssumption
    <3>2. Trim(box) \in Words \cup {None} BY <1>1 DEF Trim, BoxTexts
    <3>3. [search EXCEPT !.q = Trim(box)] \in Searches BY <1>1, <3>2 DEF Searches
    <3>4. next = [[search EXCEPT !.q = Trim(box)] EXCEPT !.page = 1] BY DEF SearchFor
    <3>5. next.q = Trim(box) /\ next.page = 1 BY <1>1 DEF SearchFor, Searches
    <3> QED BY <1>4, <3>1, <3>3, <3>4, <3>5 DEF Searches
  <2>2. queued' = next /\ Replace(next) BY <1>4 DEF DebounceEnds
  <2> HIDE DEF next
  <2>3. pending' \in Seq(Urls) /\ Len(pending') <= MaxPending
    BY <2>1, <2>2, ReplaceTyped DEF RecordsIInv
  <2> QED BY <1>1, <1>2, <2>1, <2>2, <2>3 DEF RecordsIInv, RecordsTyped, QueuedAfresh
<1> QED BY <1>3, <1>4

LEMMA RenderSound == ASSUME RecordsIInv, RenderPage PROVE RecordsIInv'
<1>1. queued \in Searches /\ queued.page = 1
  BY DEF RenderPage, RecordsIInv, RecordsTyped, QueuedAfresh
<1>2. search' = queued /\ queued' = None /\ chosen' = queued
      /\ UNCHANGED <<tab, synced, settled, url, pending>>
  BY <1>1 DEF RenderPage
<1>3. box' \in BoxTexts
  <2>1. queued.q \in Words \cup {None} BY <1>1 DEF Searches
  <2> QED BY <2>1, SearchesTyped DEF RenderPage, RecordsIInv, RecordsTyped
<1> QED BY <1>1, <1>2, <1>3 DEF RecordsIInv, RecordsTyped, QueuedAfresh

LEMMA TabChangeSound ==
  ASSUME RecordsIInv, NEW t \in Tabs, HandleTabChange(t) \/ FollowLink(t)
  PROVE  RecordsIInv'
<1>1. [tab |-> t, params |-> NoParams] \in Urls BY SearchesTyped DEF Urls
<1>2. pending' \in Seq(Urls) /\ Len(pending') <= MaxPending
  BY <1>1, NavigateTyped DEF RecordsIInv, HandleTabChange, FollowLink
<1>3. CASE HandleTabChange(t)
  <2>1. url \in Urls /\ url' = url /\ synced' = t /\ Show(t, url)
    BY <1>3 DEF HandleTabChange, RecordsIInv, RecordsTyped
  <2> QED BY <1>2, <2>1, ShowSound
<1>4. CASE FollowLink(t)
  BY <1>2, <1>4 DEF FollowLink, RecordsIInv, RecordsTyped, QueuedAfresh
<1> QED BY <1>3, <1>4

LEMMA LandSound == ASSUME RecordsIInv, Land PROVE RecordsIInv'
<1>1. pending \in Seq(Urls) /\ pending # <<>> /\ Len(pending) <= MaxPending
  BY DEF Land, RecordsIInv, RecordsTyped
<1>2. url' \in Urls BY <1>1 DEF Land
<1>3. pending' \in Seq(Urls) /\ Len(pending') <= MaxPending
  <2>1. Tail(pending) \in Seq(Urls) /\ Len(Tail(pending)) = Len(pending) - 1
        /\ Len(pending) \in Nat
    BY <1>1
  <2> QED BY <1>1, <2>1, RecordsAssumption DEF Land
<1>4. CASE url'.tab # None /\ url'.tab # synced
  <2>1. url'.tab \in Tabs BY <1>2, <1>4 DEF Urls
  <2>2. synced' = url'.tab /\ Show(url'.tab, url') BY <1>4 DEF Land
  <2> QED BY <1>2, <1>3, <2>1, <2>2, ShowSound
<1>5. CASE ~(url'.tab # None /\ url'.tab # synced)
  <2>1. UNCHANGED <<tab, synced, search, queued, box, settled, chosen>> BY <1>5 DEF Land
  <2> QED BY <1>2, <1>3, <2>1 DEF RecordsIInv, RecordsTyped, QueuedAfresh
<1> QED BY <1>4, <1>5

LEMMA RecordsNextSound == RecordsIInv /\ [RecordsNext]_recordsVars => RecordsIInv'
<1> SUFFICES ASSUME RecordsIInv, [RecordsNext]_recordsVars PROVE RecordsIInv' OBVIOUS
<1>1. CASE UNCHANGED recordsVars
  BY <1>1 DEF recordsVars, RecordsIInv, RecordsTyped, QueuedAfresh
<1>2. ASSUME NEW typing \in BoxTexts, TypeInBox(typing) PROVE RecordsIInv'
  BY <1>2 DEF TypeInBox, RecordsIInv, RecordsTyped, QueuedAfresh
<1> QED
  BY <1>1, <1>2, ClickedSound, DebounceSound, RenderSound, TabChangeSound, LandSound
  DEF RecordsNext

LEMMA RecordsInvariant == RecordsSpec => []RecordsIInv
BY RecordsInitSound, RecordsNextSound, PTL DEF RecordsSpec

\* What is rendered and queued are lists' parameters, and a queued state has a search of
\* its own (useUrlState).
THEOREM RecordsTypeSound == RecordsSpec => []RecordsTypeOK
<1>1. RecordsIInv => RecordsTypeOK
  BY DEF RecordsIInv, RecordsTyped, QueuedAfresh, RecordsTypeOK
<1> QED BY <1>1, RecordsInvariant, PTL

\* A page number is used only under the search and the range it was chosen under, for
\* any words, any number of pages and of navigations on their way (useUrlState, setQ).
THEOREM PageOfThisSearch == RecordsSpec => []PageIsOfThisSearch
<1>1. RecordsIInv => PageIsOfThisSearch BY DEF RecordsIInv, PageIsOfThisSearch
<1> QED BY <1>1, RecordsInvariant, PTL

---------------------------------------------------------------------------
(* The account and the records page side by side *)

\* Beside the records page an account behaves as Account specifies, and the
\* other way round: what is proved of one holds of what the run explores.
LEMMA OwnRunsAccount == OwnSpec => Spec
<1>1. OwnInit => Init BY DEF OwnInit
<1>2. [OwnNext]_<<part, vars, recordsVars>> => [Next]_vars BY DEF OwnNext
<1> QED BY <1>1, <1>2, PTL DEF OwnSpec, Spec

LEMMA OwnRunsRecords == OwnSpec => RecordsSpec
<1>1. OwnInit => RecordsInit BY DEF OwnInit
<1>2. [OwnNext]_<<part, vars, recordsVars>> => [RecordsNext]_recordsVars BY DEF OwnNext
<1> QED BY <1>1, <1>2, PTL DEF OwnSpec, RecordsSpec

\* Side by side, the account's rows and processes and the records page keep to
\* their types.
THEOREM OwnTypeSound == OwnSpec => []OwnTypeOK
<1>1. TypeOK /\ RecordsTypeOK => OwnTypeOK BY DEF OwnTypeOK
<1> QED BY <1>1, OwnRunsAccount, OwnRunsRecords, TypeCorrect, RecordsTypeSound, PTL

=============================================================================
