---------------------------- MODULE Moderation ----------------------------
(***************************************************************************)
(* Reports, auto-hide and the admin's review of one piece of content.      *)
(*                                                                         *)
(* POST /reports runs ReportsService.create, which is five database round  *)
(* trips with no transaction around them: read the target, look for an     *)
(* earlier report of the same user, insert the report, count the reports   *)
(* made since the last review, and hide the target when they are enough.   *)
(* Each round trip is one action here, so reports of the same target       *)
(* interleave with one another and with the admin's restore and delete.    *)
(*                                                                         *)
(* A target is a request or a reply: both tables have the columns hidden,  *)
(* deletedAt and reviewedAt, and both repositories run the same statements *)
(* on them.  What an author's own delete of a request writes               *)
(* (contentRemoved) is read by nothing in this module and left out; an     *)
(* author's own delete of a reply is SoftDelete.                           *)
(***************************************************************************)
EXTENDS Naturals, FiniteSets

CONSTANTS
  Targets,       \* requests and replies that can be reported
  Users,         \* signed-in users
  Calls,         \* report handlers that can be in flight together
  Reviews,       \* admin restore handlers that can be in flight together
  Threshold,     \* AUTO_HIDE_REPORTER_THRESHOLD
  MaxRestores,   \* bound: how many times an admin restores something
  None           \* the target and the user of a handler that is not running

ASSUME ThresholdAssumption == Threshold \in Nat \ {0}
ASSUME MaxRestoresAssumption == MaxRestores \in Nat
ASSUME NoneAssumption == None \notin Targets /\ None \notin Users

VARIABLES
  content,     \* the columns of each target's row
  reports,     \* the rows of the reports table
  now,         \* the next timestamp; every stamp taken is different
  call,        \* the report handlers
  review,      \* the restore handlers
  restores,    \* how many restores were requested so far
  evaluated,   \* history: reports whose handler ran to its end
  restoredAt   \* history: when the last restore of a target took effect

vars == <<content, reports, now, call, review, restores, evaluated, restoredAt>>

---------------------------------------------------------------------------
(* Types *)

\* reviewedAt is 0 while the column is null.
Content == [hidden : BOOLEAN, deleted : BOOLEAN, reviewedAt : Nat]
Report == [target : Targets, reporter : Users, at : Nat]
CallState ==
  [pc : {"idle", "read", "unreported", "inserted", "counted"},
   target : Targets \cup {None}, reporter : Users \cup {None},
   since : Nat, at : Nat, count : Nat]
ReviewState == [pc : {"idle", "stamped"}, target : Targets \cup {None}, stamp : Nat]

IdleCall ==
  [pc |-> "idle", target |-> None, reporter |-> None,
   since |-> 0, at |-> 0, count |-> 0]
IdleReview == [pc |-> "idle", target |-> None, stamp |-> 0]

TypeOK ==
  /\ content \in [Targets -> Content]
  /\ reports \subseteq Report
  /\ now \in Nat
  /\ call \in [Calls -> CallState]
  /\ review \in [Reviews -> ReviewState]
  /\ restores \in 0..MaxRestores
  /\ evaluated \subseteq Report
  /\ restoredAt \in [Targets -> Nat]

---------------------------------------------------------------------------
(* What the statements read *)

Visible(t) == ~content[t].hidden /\ ~content[t].deleted

ReportsOf(t) == {r \in reports : r.target = t}
ReportedBy(t, u) == \E r \in reports : r.target = t /\ r.reporter = u

\* countDistinctReporters: a count of rows created strictly after `since`.
\* With no review yet `since` is 0, which is before every stamp.
ReportsSince(t, since) == {r \in reports : r.target = t /\ r.at > since}

Row(c) == [target |-> call[c].target, reporter |-> call[c].reporter, at |-> call[c].at]

---------------------------------------------------------------------------
Init ==
  /\ content = [t \in Targets |-> [hidden |-> FALSE, deleted |-> FALSE, reviewedAt |-> 0]]
  /\ reports = {}
  /\ now = 1
  /\ call = [c \in Calls |-> IdleCall]
  /\ review = [v \in Reviews |-> IdleReview]
  /\ restores = 0
  /\ evaluated = {}
  /\ restoredAt = [t \in Targets |-> 0]

(***************************************************************************)
(* ReportsService.create, one action per awaited statement.                *)
(***************************************************************************)

\* Mutation of ReadTarget: the session's user does not reach the handler.
ReadTargetAnonymously(c, t, u) ==
  /\ call[c].pc = "idle"
  /\ Visible(t)
  /\ call' = [call EXCEPT ![c] =
       [pc |-> "read", target |-> t, reporter |-> None,
        since |-> content[t].reviewedAt, at |-> 0, count |-> 0]]
  /\ UNCHANGED <<content, reports, now, review, restores, evaluated, restoredAt>>

\* findVisibleById and the reviewedAt it carries.  A target that is not
\* visible answers 404, which changes nothing.
ReadTarget(c, t, u) ==
  /\ call[c].pc = "idle"
  /\ Visible(t)
  /\ call' = [call EXCEPT ![c] =
       [pc |-> "read", target |-> t, reporter |-> u,
        since |-> content[t].reviewedAt, at |-> 0, count |-> 0]]
  /\ UNCHANGED <<content, reports, now, review, restores, evaluated, restoredAt>>

\* findByTargetAndReporter: a second report by the same user answers 409.
CheckDuplicate(c) ==
  /\ call[c].pc = "read"
  /\ \/ /\ ~ReportedBy(call[c].target, call[c].reporter)
        /\ call' = [call EXCEPT ![c].pc = "unreported"]
     \/ /\ ReportedBy(call[c].target, call[c].reporter)
        /\ call' = [call EXCEPT ![c] = IdleCall]
  /\ UNCHANGED <<content, reports, now, review, restores, evaluated, restoredAt>>

\* Mutation of InsertReport: no unique constraint behind the duplicate check.
InsertReportUnconstrained(c) ==
  /\ call[c].pc = "unreported"
  /\ reports' = reports \cup
       {[target |-> call[c].target, reporter |-> call[c].reporter, at |-> now]}
  /\ now' = now + 1
  /\ call' = [call EXCEPT ![c].pc = "inserted", ![c].at = now]
  /\ UNCHANGED <<content, review, restores, evaluated, restoredAt>>

\* The INSERT, stamped by the database.  reports_target_reporter_unique makes
\* it fail (500) when a concurrent report of the same user got there first.
InsertReport(c) ==
  /\ call[c].pc = "unreported"
  /\ \/ /\ ~ReportedBy(call[c].target, call[c].reporter)
        /\ reports' = reports \cup
             {[target |-> call[c].target, reporter |-> call[c].reporter, at |-> now]}
        /\ now' = now + 1
        /\ call' = [call EXCEPT ![c].pc = "inserted", ![c].at = now]
     \/ /\ ReportedBy(call[c].target, call[c].reporter)
        /\ call' = [call EXCEPT ![c] = IdleCall]
        /\ UNCHANGED <<reports, now>>
  /\ UNCHANGED <<content, review, restores, evaluated, restoredAt>>

\* Mutation of CountReporters: the count is taken before the own report is in.
CountOthers(c) ==
  /\ call[c].pc = "inserted"
  /\ call' = [call EXCEPT ![c].pc = "counted",
       ![c].count = Cardinality(ReportsSince(call[c].target, call[c].since) \ {Row(c)})]
  /\ UNCHANGED <<content, reports, now, review, restores, evaluated, restoredAt>>

CountReporters(c) ==
  /\ call[c].pc = "inserted"
  /\ call' = [call EXCEPT ![c].pc = "counted",
       ![c].count = Cardinality(ReportsSince(call[c].target, call[c].since))]
  /\ UNCHANGED <<content, reports, now, review, restores, evaluated, restoredAt>>

\* Mutation of EvaluateAutoHide: hides on the Threshold-th report only, so two
\* reports that are both in before either counts step over it.
EvaluateExactly(c) ==
  /\ call[c].pc = "counted"
  /\ content' = IF call[c].count = Threshold
                THEN [content EXCEPT ![call[c].target].hidden = TRUE]
                ELSE content
  /\ evaluated' = evaluated \cup {Row(c)}
  /\ call' = [call EXCEPT ![c] = IdleCall]
  /\ UNCHANGED <<reports, now, review, restores, restoredAt>>

\* Mutation of EvaluateAutoHide: the threshold comparison is off by one.
EvaluateBelow(c) ==
  /\ call[c].pc = "counted"
  /\ content' = IF call[c].count + 1 >= Threshold
                THEN [content EXCEPT ![call[c].target].hidden = TRUE]
                ELSE content
  /\ evaluated' = evaluated \cup {Row(c)}
  /\ call' = [call EXCEPT ![c] = IdleCall]
  /\ UNCHANGED <<reports, now, review, restores, restoredAt>>

\* ModerationService.evaluateAutoHide: setHidden(true) whatever the row holds
\* by now, or nothing below the threshold.
EvaluateAutoHide(c) ==
  /\ call[c].pc = "counted"
  /\ \/ /\ call[c].count >= Threshold
        /\ content' = [content EXCEPT ![call[c].target].hidden = TRUE]
     \/ /\ call[c].count < Threshold
        /\ UNCHANGED content
  /\ evaluated' = evaluated \cup {Row(c)}
  /\ call' = [call EXCEPT ![c] = IdleCall]
  /\ UNCHANGED <<reports, now, review, restores, restoredAt>>

\* A statement rejects, or the process stops: what was committed stays, and
\* nothing retries the rest.
CallFails(c) ==
  /\ call[c].pc # "idle"
  /\ call' = [call EXCEPT ![c] = IdleCall]
  /\ UNCHANGED <<content, reports, now, review, restores, evaluated, restoredAt>>

(***************************************************************************)
(* The admin's review.                                                     *)
(***************************************************************************)

\* restore() takes new Date() in the application, whatever the row's state...
StampRestore(v, t) ==
  /\ review[v].pc = "idle"
  /\ restores < MaxRestores
  /\ restores' = restores + 1
  /\ review' = [review EXCEPT ![v] = [pc |-> "stamped", target |-> t, stamp |-> now]]
  /\ now' = now + 1
  /\ UNCHANGED <<content, reports, call, evaluated, restoredAt>>

\* ... and the UPDATE with that stamp takes effect some time later.
WriteRestore(v) ==
  /\ review[v].pc = "stamped"
  /\ LET t == review[v].target
     IN /\ content' = [content EXCEPT ![t].hidden = FALSE,
                                      ![t].reviewedAt = review[v].stamp]
        /\ restoredAt' = [restoredAt EXCEPT ![t] = now]
  /\ review' = [review EXCEPT ![v] = IdleReview]
  /\ UNCHANGED <<reports, now, call, restores, evaluated>>

\* The admin's permanent delete, and an author's delete of their own reply.
SoftDelete(t) ==
  /\ content' = [content EXCEPT ![t].deleted = TRUE]
  /\ UNCHANGED <<reports, now, call, review, restores, evaluated, restoredAt>>

---------------------------------------------------------------------------
ReportStep(c) ==
  CheckDuplicate(c) \/ InsertReport(c) \/ CountReporters(c) \/ EvaluateAutoHide(c)

Next ==
  \/ \E c \in Calls, t \in Targets, u \in Users : ReadTarget(c, t, u)
  \/ \E c \in Calls : ReportStep(c) \/ CallFails(c)
  \/ \E v \in Reviews, t \in Targets : StampRestore(v, t)
  \/ \E v \in Reviews : WriteRestore(v)
  \/ \E t \in Targets : SoftDelete(t)

Spec == Init /\ [][Next]_vars

\* A handler that has started goes on: its promise settles and the event loop
\* resumes it.  Nothing obliges a user to report or an admin to review.
FairSpec ==
  /\ Spec
  /\ \A c \in Calls : WF_vars(ReportStep(c))
  /\ \A v \in Reviews : WF_vars(WriteRestore(v))

---------------------------------------------------------------------------
(* Properties *)

\* Reports of t made after the last restore of t took effect, up to stamp n.
FreshUpTo(t, n) ==
  {r \in reports : r.target = t /\ r.at >= restoredAt[t] /\ r.at <= n}
Fresh(t) == FreshUpTo(t, now)

\* A row is a reporter: the plain row count of countDistinctReporters counts
\* distinct users, also when one user's double submission races with itself
\* past the duplicate check (reports.repository.ts, countDistinctReporters).
RowsAreReporters ==
  \A r, q \in reports : r.target = q.target /\ r.reporter = q.reporter => r = q

\* No auto-hide is lost to concurrency: while a target is visible, no report
\* that was evaluated to the end was the Threshold-th, or a later one, since
\* the last restore took effect.  It does not depend on how the handlers of
\* the other reports interleaved with it, or on whether those ever finished.
NoLostAutoHide ==
  \A t \in Targets :
    ~content[t].hidden =>
      \A r \in evaluated :
        r.target = t /\ r.at >= restoredAt[t] =>
          Cardinality(FreshUpTo(t, r.at)) < Threshold

\* Nothing is hidden below the threshold: the handler that hides a target has
\* Threshold different users' reports in the window it read, however many
\* handlers, restores and failures came in between.
HideIsJustified ==
  [][\A t \in Targets :
       ~content[t].hidden /\ content'[t].hidden =>
         \E c \in Calls :
           /\ call[c].target = t
           /\ Cardinality(ReportsSince(t, call[c].since)) >= Threshold]_vars

\* A fresh report whose handler stopped before it was evaluated.
Abandoned(t) ==
  \E r \in Fresh(t) : r \notin evaluated /\ \A c \in Calls : Row(c) # r

\* Enough fresh reports do hide the target, unless a handler dies half way or
\* the admin restores first (moderation.service.ts, evaluateAutoHide).
ReportedContentIsHidden ==
  \A t \in Targets :
    (Cardinality(Fresh(t)) >= Threshold) ~>
      (content[t].hidden \/ Abandoned(t) \/ Cardinality(Fresh(t)) < Threshold)

\* The five round trips of a report, the review's two and every race between
\* them amount to what AutoHide says: people complain once each, a threshold of
\* different people hides, only a review shows again, deleted stays deleted.
Abstract == INSTANCE AutoHide WITH
  Enough <- {people \in SUBSET Users : Cardinality(people) >= Threshold},
  complaints <- [t \in Targets |-> {r.reporter : r \in ReportsOf(t)}],
  hidden <- {t \in Targets : content[t].hidden},
  gone <- {t \in Targets : content[t].deleted}
ImplementsAutoHide == Abstract!Spec

\* What requests.schema.ts and reports.repository.ts say of reviewedAt: reports
\* that already led to an auto-hide the admin reviewed do not re-trigger it the
\* moment one more person reports; only reports made after the review count.
\* The code does not keep this (a handler that read reviewedAt before the
\* review counts them all again): see the run that refutes it.
Reviewed(t) ==
  Cardinality({r \in evaluated : r.target = t /\ r.at < restoredAt[t]}) >= Threshold
OldReportsDoNotCountAgain ==
  [][\A t \in Targets :
       ~content[t].hidden /\ content'[t].hidden /\ Reviewed(t) =>
         Cardinality(ReportsSince(t, content[t].reviewedAt)) >= Threshold]_vars

===========================================================================
