------------------------------ MODULE Retention ------------------------------
(***************************************************************************)
(* What becomes of the text of removed requests and replies.               *)
(*                                                                         *)
(* A removal stamps its row; a job at five every morning blanks, in one    *)
(* transaction, the texts removed more than RetentionDays ago, and with a  *)
(* reply's text the rewrites the background moderation suggested for it.   *)
(* The row of the moderation's log stays, with the reason the model gave    *)
(* in words of its own.                                                    *)
(* The job is not made up for when the process is down at five.            *)
(*                                                                         *)
(* Time is counted in parts of days: an even one ends at five, when the    *)
(* job runs, and an odd one at midnight.                                   *)
(***************************************************************************)
EXTENDS Naturals

CONSTANTS
  Posts,          \* requests
  Answers,        \* replies
  RetentionDays,  \* REMOVED_CONTENT_RETENTION_DAYS
  MaxTime,        \* bound: parts of days that pass
  MaxRemovals     \* bound: removals

ASSUME RetentionAssumption ==
  RetentionDays \in Nat \ {0} /\ MaxTime \in Nat /\ MaxRemovals \in Nat
ASSUME PostsAssumption == Posts \cap Answers = {}

VARIABLES
  now,
  text,       \* body: "none" before it is written, "blank" after the job
  removedAt,  \* requests.content_removed_at, by the author
  deletedAt,  \* deleted_at of requests and replies
  log,        \* the moderation log of a reply: its row, with or without suggestions
  written,    \* when a reply was written
  missed,     \* runs of the job that did not take place or failed
  removals

retentionVars == <<now, text, removedAt, deletedAt, log, written, missed, removals>>

Texts == Posts \cup Answers
Time == 1..MaxTime
Never == 0

RetentionTypeOK ==
  /\ now \in Time \cup {MaxTime + 1}
  /\ text \in [Texts -> {"none", "kept", "blank"}]
  /\ removedAt \in [Posts -> {Never} \cup Time \cup {MaxTime + 1}]
  /\ deletedAt \in [Texts -> {Never} \cup Time \cup {MaxTime + 1}]
  /\ log \in [Answers -> {"none", "running", "reasoned", "suggestions"}]
  /\ written \in [Answers -> {Never} \cup Time \cup {MaxTime + 1}]
  /\ missed \in 0..MaxTime
  /\ removals \in 0..MaxRemovals
  \* A stamp is in the past, and of a text that had been written by then.
  /\ \A x \in Posts : removedAt[x] <= now /\ (text[x] = "none" => removedAt[x] = Never)
  /\ \A x \in Texts : deletedAt[x] <= now /\ (text[x] = "none" => deletedAt[x] = Never)

RetentionInit ==
  /\ now = 1
  /\ text = [x \in Texts |-> "none"]
  /\ removedAt = [x \in Posts |-> Never]
  /\ deletedAt = [x \in Texts |-> Never]
  /\ log = [x \in Answers |-> "none"]
  /\ written = [x \in Answers |-> Never]
  /\ missed = 0 /\ removals = 0

---------------------------------------------------------------------------
(* Writing, and the moderation in the background *)

WritePost(x) ==
  /\ text[x] = "none"
  /\ text' = [text EXCEPT ![x] = "kept"]
  /\ UNCHANGED <<now, removedAt, deletedAt, log, written, missed, removals>>

\* create and moderateInBackground.
WriteAnswer(x) ==
  /\ text[x] = "none"
  /\ text' = [text EXCEPT ![x] = "kept"]
  /\ log' = [log EXCEPT ![x] = "running"]
  /\ written' = [written EXCEPT ![x] = now]
  /\ UNCHANGED <<now, removedAt, deletedAt, missed, removals>>

\* recordDryRunResult: a row with the model's reason, or the error's, and with its
\* suggestions if it made any; none when the insert fails or the process ends first.
Moderated(x) ==
  /\ log[x] = "running"
  /\ \E outcome \in {"suggestions", "reasoned", "none"} : log' = [log EXCEPT ![x] = outcome]
  /\ UNCHANGED <<now, text, removedAt, deletedAt, written, missed, removals>>

---------------------------------------------------------------------------
(* Removals, each of which may be repeated *)

Removal(x) ==
  /\ text[x] # "none"
  /\ removals < MaxRemovals /\ removals' = removals + 1
  /\ UNCHANGED <<now, text, log, written, missed>>

\* deleteOwn of a request: markContentRemoved.
RemoveOwn(x) ==
  /\ Removal(x)
  /\ removedAt' = [removedAt EXCEPT ![x] = now]
  /\ UNCHANGED deletedAt

\* Mutation of SoftDelete: stamped with the end of the retention.
SoftDeleteUntil(x) ==
  /\ Removal(x)
  /\ deletedAt' = [deletedAt EXCEPT ![x] = now + 2 * RetentionDays]
  /\ UNCHANGED removedAt

\* An administrator's softDelete, and deleteOwn of a reply.
SoftDelete(x) ==
  /\ Removal(x)
  /\ deletedAt' = [deletedAt EXCEPT ![x] = now]
  /\ UNCHANGED removedAt

---------------------------------------------------------------------------
(* The job *)

\* lt(stamp, cutoff) for the run at the end of this part of the day.
Before(stamp) == stamp # Never /\ stamp + 2 * RetentionDays <= now

\* Mutation of Due: the requests an administrator deleted are overlooked.
DueByAuthor(x) ==
  /\ text[x] = "kept"
  /\ IF x \in Posts THEN Before(removedAt[x]) ELSE Before(deletedAt[x])

Due(x) ==
  /\ text[x] = "kept"
  /\ Before(deletedAt[x]) \/ (x \in Posts /\ Before(removedAt[x]))

\* Mutation of PurgeLogs: the update of the logs is left out.
PurgeNoLogs == UNCHANGED log

\* Nothing of the row but its suggestions is set.
PurgeLogs ==
  log' = [x \in Answers |-> IF Due(x) /\ log[x] = "suggestions" THEN "reasoned" ELSE log[x]]

\* A moderation ends before the next part of the day but one.
ClockTicks ==
  /\ now <= MaxTime
  /\ \A x \in Answers : log[x] = "running" => now = written[x]
  /\ now' = now + 1

Purge ==
  /\ now % 2 = 0 /\ ClockTicks
  /\ text' = [x \in Texts |-> IF Due(x) THEN "blank" ELSE text[x]]
  /\ PurgeLogs
  /\ UNCHANGED <<removedAt, deletedAt, written, missed, removals>>

\* The process is down at five, or the transaction is rolled back.
MissPurge ==
  /\ now % 2 = 0 /\ ClockTicks
  /\ missed' = missed + 1
  /\ UNCHANGED <<text, removedAt, deletedAt, log, written, removals>>

Midnight ==
  /\ now % 2 = 1 /\ ClockTicks
  /\ UNCHANGED <<text, removedAt, deletedAt, log, written, missed, removals>>

---------------------------------------------------------------------------
RetentionNext ==
  \/ \E x \in Posts : WritePost(x) \/ RemoveOwn(x)
  \/ \E x \in Answers : WriteAnswer(x) \/ Moderated(x)
  \/ \E x \in Texts : SoftDelete(x)
  \/ Purge \/ MissPurge \/ Midnight

RetentionSpec == RetentionInit /\ [][RetentionNext]_retentionVars

---------------------------------------------------------------------------
(* Properties *)

\* "The moderation log's rewrite suggestions (text derived from the reply) go with
\* it" (purgeRemovedContent): no suggestion outlives the text it rewrites, and no
\* moderation still under way will write one down after the text has gone.  It is
\* about the suggestions only: the row's reason, which the model words freely and may
\* quote the reply in, is never cleared ("reasoned").
SuggestionsGoWithText ==
  \A x \in Answers : text[x] = "blank" => log[x] \notin {"running", "suggestions"}

\* The retention published in the privacy policy: a text goes within the days it is
\* kept for and the next run after them, from whichever removal came first of the
\* author's and an administrator's; each missed run puts that off by a day, and
\* nothing else does but removing the text the same way again.
GoneInTime ==
  \A x \in Texts : text[x] = "kept" =>
    \A stamp \in {deletedAt[x]} \cup (IF x \in Posts THEN {removedAt[x]} ELSE {}) :
      stamp # Never => now <= stamp + 2 * RetentionDays + 2 * missed + 1

=============================================================================
