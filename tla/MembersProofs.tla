---------------------------- MODULE MembersProofs ----------------------------
(***************************************************************************)
(* Proofs about retention, the composer, the saved replies and the tone of *)
(* replies, and the composition the runs of MCMembers explore.             *)
(*                                                                         *)
(* Retention: SuggestionsGoWithText needs to know why no moderation can    *)
(* outlast the retention: it ends in the part of the day after the one its *)
(* reply was written in, and a reply is removed after it is written.       *)
(* GoneInTime needs the bound that holds between a run and midnight, which *)
(* is one part of a day tighter.                                           *)
(* The composer: the ref lets one call at a time be on its way.  A text    *)
(* can be sent only while the draft is full, an answer empties the draft,  *)
(* and filling it again makes another edition; so what is on its way is of *)
(* no edition that was answered before.                                    *)
(* The saved replies: what an entry of the cache holds, or a fetch has     *)
(* read for it, shows every call that was answered, or is known to be out  *)
(* of date; and a report that hides a reply is the first one of it.        *)
(* The tone: what is asked of the model is neither excluded nor blocked,   *)
(* and what is left of its suggestions is worth showing, by the least      *)
(* number of lines for which it would not be.                              *)
(***************************************************************************)
EXTENDS MCMembers, SignInProofs, WellFoundedInduction

---------------------------------------------------------------------------
(* Retention: the inductive invariant *)

Stamps == {Never} \cup Time \cup {MaxTime + 1}

Stamp(x) == {deletedAt[x]} \cup (IF x \in Posts THEN {removedAt[x]} ELSE {})

\* A reply is written before it is moderated or removed.
LogsSound ==
  \A x \in Answers :
    /\ written[x] <= now
    /\ log[x] = "running" => text[x] = "kept" /\ written[x] # Never /\ now <= written[x] + 1
    /\ deletedAt[x] # Never => written[x] <= deletedAt[x]

\* Past five the run of the day has been, or has been missed.
PurgedInTime ==
  \A x \in Texts : text[x] = "kept" =>
    \A stamp \in Stamp(x) :
      stamp # Never => /\ now <= stamp + 2 * RetentionDays + 2 * missed + 1
                       /\ now % 2 = 1 => now <= stamp + 2 * RetentionDays + 2 * missed

RetentionIInv ==
  /\ RetentionTypeOK
  /\ missed < now
  /\ LogsSound
  /\ PurgedInTime
  /\ SuggestionsGoWithText

---------------------------------------------------------------------------
LEMMA RetentionInitSound == RetentionInit => RetentionIInv
<1> SUFFICES ASSUME RetentionInit PROVE RetentionIInv
  OBVIOUS
<1> USE RetentionAssumption DEF RetentionInit
<1>1. RetentionTypeOK
  BY DEF RetentionTypeOK, Time, Texts, Never
<1>2. missed < now
  OBVIOUS
<1>3. LogsSound
  <2> SUFFICES ASSUME NEW x \in Answers
               PROVE  /\ written[x] <= now
                      /\ log[x] # "running"
                      /\ deletedAt[x] = Never
    BY DEF LogsSound
  <2>1. written[x] = 0 /\ log[x] = "none" /\ deletedAt[x] = Never
    BY DEF Texts, Never
  <2> QED
    BY <2>1
<1>4. PurgedInTime /\ SuggestionsGoWithText
  BY DEF PurgedInTime, SuggestionsGoWithText, Texts
<1> QED
  BY <1>1, <1>2, <1>3, <1>4 DEF RetentionIInv

LEMMA WritePostSound ==
  ASSUME RetentionIInv, NEW x \in Posts, WritePost(x) PROVE RetentionIInv'
<1> USE RetentionAssumption, PostsAssumption DEF WritePost, RetentionIInv
<1>1. RetentionTypeOK'
  BY DEF RetentionTypeOK, Texts
<1>2. (missed < now)'
  OBVIOUS
<1>3. LogsSound'
  BY DEF LogsSound, RetentionTypeOK, Texts
<1>4. PurgedInTime'
  BY DEF PurgedInTime, RetentionTypeOK, Texts, Stamp, Never
<1>5. SuggestionsGoWithText'
  BY DEF SuggestionsGoWithText, RetentionTypeOK, Texts
<1> QED
  BY <1>1, <1>2, <1>3, <1>4, <1>5

LEMMA WriteAnswerSound ==
  ASSUME RetentionIInv, NEW x \in Answers, WriteAnswer(x) PROVE RetentionIInv'
<1> USE RetentionAssumption, PostsAssumption DEF WriteAnswer, RetentionIInv
<1>1. RetentionTypeOK'
  BY DEF RetentionTypeOK, Texts
<1>2. (missed < now)'
  OBVIOUS
<1>3. LogsSound'
  BY DEF LogsSound, RetentionTypeOK, Texts, Time, Never
<1>4. PurgedInTime'
  BY DEF PurgedInTime, RetentionTypeOK, Texts, Stamp, Never
<1>5. SuggestionsGoWithText'
  BY DEF SuggestionsGoWithText, RetentionTypeOK, Texts
<1> QED
  BY <1>1, <1>2, <1>3, <1>4, <1>5

LEMMA ModeratedSound ==
  ASSUME RetentionIInv, NEW x \in Answers, Moderated(x) PROVE RetentionIInv'
<1> USE RetentionAssumption DEF Moderated, RetentionIInv
<1>1. RetentionTypeOK'
  BY DEF RetentionTypeOK
<1>2. (missed < now)'
  OBVIOUS
<1>3. LogsSound'
  BY DEF LogsSound, RetentionTypeOK
<1>4. PurgedInTime'
  BY DEF PurgedInTime, Stamp
<1>5. SuggestionsGoWithText'
  BY DEF SuggestionsGoWithText, LogsSound, RetentionTypeOK
<1> QED
  BY <1>1, <1>2, <1>3, <1>4, <1>5

LEMMA RemoveOwnSound ==
  ASSUME RetentionIInv, NEW x \in Posts, RemoveOwn(x) PROVE RetentionIInv'
<1> USE RetentionAssumption DEF RemoveOwn, Removal, RetentionIInv
<1>1. RetentionTypeOK'
  BY DEF RetentionTypeOK, Texts, Time
<1>2. (missed < now)'
  OBVIOUS
<1>3. LogsSound'
  BY DEF LogsSound
<1>4. PurgedInTime'
  BY DEF PurgedInTime, RetentionTypeOK, Texts, Stamp, Time
<1>5. SuggestionsGoWithText'
  BY DEF SuggestionsGoWithText
<1> QED
  BY <1>1, <1>2, <1>3, <1>4, <1>5

LEMMA SoftDeleteSound ==
  ASSUME RetentionIInv, NEW x \in Texts, SoftDelete(x) PROVE RetentionIInv'
<1> USE RetentionAssumption DEF SoftDelete, Removal, RetentionIInv
<1>1. RetentionTypeOK'
  BY DEF RetentionTypeOK, Texts, Time
<1>2. (missed < now)'
  OBVIOUS
<1>3. LogsSound'
  BY DEF LogsSound, RetentionTypeOK, Texts
<1>4. PurgedInTime'
  BY DEF PurgedInTime, RetentionTypeOK, Texts, Stamp, Time
<1>5. SuggestionsGoWithText'
  BY DEF SuggestionsGoWithText
<1> QED
  BY <1>1, <1>2, <1>3, <1>4, <1>5

---------------------------------------------------------------------------
(* The clock *)

LEMMA TickSound ==
  ASSUME RetentionIInv, ClockTicks, UNCHANGED <<removedAt, deletedAt, written>>
  PROVE  /\ now \in Nat \ {0} /\ now' = now + 1 /\ now' \in Time \cup {MaxTime + 1}
         /\ \A x \in Answers : written[x] <= now' /\ (log[x] = "running" => now' <= written[x] + 1)
  BY RetentionAssumption DEF RetentionIInv, ClockTicks, RetentionTypeOK, LogsSound, Time, Never

LEMMA PurgeSound ==
  ASSUME RetentionIInv, Purge PROVE RetentionIInv'
<1> USE RetentionAssumption, PostsAssumption
<1>t. /\ now \in Nat \ {0} /\ now' = now + 1 /\ now' \in Time \cup {MaxTime + 1}
      /\ \A x \in Answers : written[x] <= now' /\ (log[x] = "running" => now' <= written[x] + 1)
  BY TickSound DEF Purge
<1>1. RetentionTypeOK'
  <2>1. /\ text' \in [Texts -> {"none", "kept", "blank"}]
        /\ log' \in [Answers -> {"none", "running", "reasoned", "suggestions"}]
        /\ \A x \in Texts : text'[x] = "none" => text[x] = "none"
    BY DEF RetentionIInv, RetentionTypeOK, Purge, PurgeLogs, Texts
  <2>2. /\ \A x \in Posts : removedAt[x] <= now'
        /\ \A x \in Texts : deletedAt[x] <= now'
    BY <1>t DEF RetentionIInv, RetentionTypeOK, Texts, Time, Never
  <2> QED
    BY <1>t, <2>1, <2>2 DEF RetentionIInv, RetentionTypeOK, Purge, Texts
<1>2. (missed < now)'
  BY <1>t DEF RetentionIInv, Purge, RetentionTypeOK
\* No moderation under way is of a reply that is due.
<1>3. ASSUME NEW x \in Answers, log[x] = "running" PROVE ~Due(x)
  BY <1>3, <1>t DEF RetentionIInv, LogsSound, RetentionTypeOK, Purge, ClockTicks, Due, Before, Texts, Time, Never
<1>4. LogsSound'
  <2> SUFFICES ASSUME NEW x \in Answers
               PROVE  /\ written[x] <= now'
                      /\ log'[x] = "running" => text'[x] = "kept" /\ written[x] # Never /\ now' <= written[x] + 1
                      /\ deletedAt[x] # Never => written[x] <= deletedAt[x]
    BY DEF LogsSound, Purge
  <2>1. log'[x] = "running" => log[x] = "running"
    BY DEF Purge, PurgeLogs
  <2>2. ~Due(x) => text'[x] = text[x]
    BY DEF Purge, Texts
  <2> QED
    BY <1>t, <1>3, <2>1, <2>2 DEF RetentionIInv, LogsSound
<1>5. PurgedInTime'
  <2> SUFFICES ASSUME NEW x \in Texts, text'[x] = "kept", NEW stamp \in Stamp(x), stamp # Never
               PROVE  /\ now' <= stamp + 2 * RetentionDays + 2 * missed + 1
                      /\ now' % 2 = 1 => now' <= stamp + 2 * RetentionDays + 2 * missed
    BY DEF PurgedInTime, Purge, Stamp
  <2>1. text[x] = "kept" /\ ~Due(x)
    BY DEF Purge, RetentionIInv, RetentionTypeOK
  <2>2. stamp \in Nat /\ missed \in Nat
    BY DEF RetentionIInv, RetentionTypeOK, Stamp, Texts, Time, Never
  <2>3. ~(stamp + 2 * RetentionDays <= now)
    BY <2>1 DEF Due, Before, Stamp
  <2> QED
    BY <1>t, <2>2, <2>3
<1>6. SuggestionsGoWithText'
  <2> SUFFICES ASSUME NEW x \in Answers, text'[x] = "blank"
               PROVE  log'[x] \notin {"running", "suggestions"}
    BY DEF SuggestionsGoWithText
  <2>1. CASE Due(x)
    BY <2>1, <1>3 DEF Purge, PurgeLogs
  <2>2. CASE ~Due(x)
    BY <2>2 DEF Purge, PurgeLogs, Texts, RetentionIInv, SuggestionsGoWithText
  <2> QED
    BY <2>1, <2>2
<1> QED
  BY <1>1, <1>2, <1>4, <1>5, <1>6 DEF RetentionIInv

\* A missed run and midnight move nothing but the clock.
LEMMA WaitSound ==
  ASSUME RetentionIInv, MissPurge \/ Midnight PROVE RetentionIInv'
<1> USE RetentionAssumption
<1>u. UNCHANGED <<text, removedAt, deletedAt, log, written, removals>> /\ ClockTicks
  BY DEF MissPurge, Midnight
<1>t. /\ now \in Nat \ {0} /\ now' = now + 1 /\ now' \in Time \cup {MaxTime + 1}
      /\ \A x \in Answers : written[x] <= now' /\ (log[x] = "running" => now' <= written[x] + 1)
  BY <1>u, TickSound
<1>m. /\ missed \in Nat /\ missed' \in Nat /\ missed < now
      /\ \/ now % 2 = 0 /\ missed' = missed + 1
         \/ now % 2 = 1 /\ missed' = missed
  BY DEF RetentionIInv, RetentionTypeOK, MissPurge, Midnight
<1>1. RetentionTypeOK'
  <2>1. /\ \A x \in Posts : removedAt[x] <= now'
        /\ \A x \in Texts : deletedAt[x] <= now'
    BY <1>t DEF RetentionIInv, RetentionTypeOK, Texts, Time, Never
  <2>2. missed' \in 0..MaxTime
    BY <1>u, <1>t, <1>m DEF ClockTicks
  <2> QED
    BY <1>u, <1>t, <2>1, <2>2 DEF RetentionIInv, RetentionTypeOK
<1>2. (missed < now)'
  BY <1>t, <1>m
<1>3. LogsSound'
  BY <1>u, <1>t DEF RetentionIInv, LogsSound
<1>4. PurgedInTime'
  <2> SUFFICES ASSUME NEW x \in Texts, text[x] = "kept", NEW stamp \in Stamp(x), stamp # Never
               PROVE  /\ now' <= stamp + 2 * RetentionDays + 2 * missed' + 1
                      /\ now' % 2 = 1 => now' <= stamp + 2 * RetentionDays + 2 * missed'
    BY <1>u DEF PurgedInTime, Stamp
  <2>1. /\ now <= stamp + 2 * RetentionDays + 2 * missed + 1
        /\ now % 2 = 1 => now <= stamp + 2 * RetentionDays + 2 * missed
    BY DEF RetentionIInv, PurgedInTime
  <2>2. stamp \in Nat
    BY DEF RetentionIInv, RetentionTypeOK, Stamp, Texts, Time, Never
  <2>3. now % 2 = 1 => now' % 2 = 0
    BY <1>t
  <2>4. PICK m \in Nat, n \in Nat : m = missed' /\ n = now'
    BY <1>t, <1>m
  <2>5. /\ n <= stamp + 2 * RetentionDays + 2 * m + 1
        /\ n % 2 = 1 => n <= stamp + 2 * RetentionDays + 2 * m
    <3>1. CASE m = missed + 1
      BY <1>t, <1>m, <2>1, <2>2, <2>4, <3>1
    <3>2. CASE now % 2 = 1 /\ m = missed
      BY <1>t, <1>m, <2>1, <2>2, <2>3, <2>4, <3>2
    <3> QED
      BY <1>m, <2>4, <3>1, <3>2
  <2> QED
    BY <2>4, <2>5
<1>5. SuggestionsGoWithText'
  BY <1>u DEF RetentionIInv, SuggestionsGoWithText
<1> QED
  BY <1>1, <1>2, <1>3, <1>4, <1>5 DEF RetentionIInv

LEMMA RetentionStutters ==
  ASSUME RetentionIInv, UNCHANGED retentionVars PROVE RetentionIInv'
  BY DEF retentionVars, RetentionIInv, RetentionTypeOK, LogsSound, PurgedInTime, Stamp, SuggestionsGoWithText

---------------------------------------------------------------------------
(* Theorems *)

\* The inductive invariant holds for every value of the constants.
THEOREM RetentionInvariant == RetentionSpec => []RetentionIInv
<1>1. RetentionInit => RetentionIInv
  BY RetentionInitSound
<1>2. RetentionIInv /\ [RetentionNext]_retentionVars => RetentionIInv'
  <2> SUFFICES ASSUME RetentionIInv, [RetentionNext]_retentionVars PROVE RetentionIInv'
    OBVIOUS
  <2>1. ASSUME NEW x \in Posts, WritePost(x) \/ RemoveOwn(x) PROVE RetentionIInv'
    BY <2>1, WritePostSound, RemoveOwnSound
  <2>2. ASSUME NEW x \in Answers, WriteAnswer(x) \/ Moderated(x) PROVE RetentionIInv'
    BY <2>2, WriteAnswerSound, ModeratedSound
  <2>3. ASSUME NEW x \in Texts, SoftDelete(x) PROVE RetentionIInv'
    BY <2>3, SoftDeleteSound
  <2>4. CASE Purge
    BY <2>4, PurgeSound
  <2>5. CASE MissPurge \/ Midnight
    BY <2>5, WaitSound
  <2>6. CASE UNCHANGED retentionVars
    BY <2>6, RetentionStutters
  <2> QED
    BY <2>1, <2>2, <2>3, <2>4, <2>5, <2>6 DEF RetentionNext
<1> QED
  BY <1>1, <1>2, PTL DEF RetentionSpec

\* Type correctness, with stamps that never lie ahead of the clock.
THEOREM RetentionTypeSound == RetentionSpec => []RetentionTypeOK
<1>1. RetentionIInv => RetentionTypeOK
  BY DEF RetentionIInv
<1> QED
  BY <1>1, RetentionInvariant, PTL

\* No suggestion outlives the text of its reply (purgeRemovedContent); the reason the
\* model gave does.
THEOREM SuggestionsGone == RetentionSpec => []SuggestionsGoWithText
<1>1. RetentionIInv => SuggestionsGoWithText
  BY DEF RetentionIInv
<1> QED
  BY <1>1, RetentionInvariant, PTL

\* The published retention is overrun by nothing but missed runs.
THEOREM RemovedIsGoneInTime == RetentionSpec => []GoneInTime
<1>1. RetentionIInv => GoneInTime
  BY DEF RetentionIInv, PurgedInTime, GoneInTime, Stamp
<1> QED
  BY <1>1, RetentionInvariant, PTL

---------------------------------------------------------------------------
(* Composing: the inductive invariant *)

Legs == {"unsent", "sent", "kept", "answered", "failed"}

ComposingTyped ==
  /\ draft \in [full : BOOLEAN, edition : Nat]
  /\ posts \in [Sendings -> [leg : Legs, edition : Nat, anonymous : BOOLEAN]]
  /\ rows \subseteq Sendings

UnderWay(p) == posts[p].leg \in {"sent", "kept"}

OneAtATime ==
  \A p \in Sendings : UnderWay(p) =>
    /\ inFlight = TRUE
    /\ \A q \in Sendings : UnderWay(q) => p = q

\* A row is of a call that was handled.
RowsKept == \A p \in rows : posts[p].leg \in {"kept", "answered", "failed"}

EditionsPast == \A p \in Sendings : posts[p].leg # "unsent" => posts[p].edition <= draft.edition

AnsweredPast ==
  \A p \in Sendings : posts[p].leg = "answered" =>
    posts[p].edition < draft.edition \/ draft.full = FALSE

\* No edition is answered twice, or answered and on its way.
AnsweredOnce ==
  \A p, q \in Sendings :
    p # q /\ posts[p].leg = "answered" /\ posts[q].leg \in {"sent", "kept", "answered"} =>
      posts[p].edition # posts[q].edition

ComposingIInv == ComposingTyped /\ OneAtATime /\ RowsKept /\ EditionsPast /\ AnsweredPast /\ AnsweredOnce

---------------------------------------------------------------------------
LEMMA ComposingInitSound == ComposingInit => ComposingIInv
<1> SUFFICES ASSUME ComposingInit PROVE ComposingIInv OBVIOUS
<1>1. posts = [p \in Sendings |-> Unsent] BY DEF ComposingInit
<1>2. \A p \in Sendings : posts[p].leg = "unsent" BY <1>1 DEF Unsent
<1>3. ComposingTyped BY <1>1 DEF ComposingInit, ComposingTyped, Unsent, Legs
<1>4. RowsKept BY DEF RowsKept, ComposingInit
<1> QED
  BY <1>2, <1>3, <1>4
  DEF ComposingIInv, OneAtATime, EditionsPast, AnsweredPast, AnsweredOnce, UnderWay

\* The calls are left as they are and the draft, if it changes, is a new edition.
LEMMA DraftSound ==
  ASSUME ComposingIInv, posts' = posts, rows' = rows, inFlight' = inFlight,
         draft' = draft
           \/ \E full \in BOOLEAN : draft' = [full |-> full, edition |-> draft.edition + 1]
  PROVE  ComposingIInv'
<1>1. ComposingTyped BY DEF ComposingIInv
<1>2. ComposingTyped' BY <1>1 DEF ComposingTyped
<1>3. draft' = draft \/ draft'.edition = draft.edition + 1 OBVIOUS
<1>4. \A p \in Sendings : posts[p].edition \in Nat BY <1>1 DEF ComposingTyped
<1>5. draft.edition \in Nat BY <1>1 DEF ComposingTyped
<1>6. EditionsPast' BY <1>3, <1>4, <1>5 DEF ComposingIInv, EditionsPast
<1>7. AnsweredPast' BY <1>3, <1>4, <1>5 DEF ComposingIInv, EditionsPast, AnsweredPast
<1> QED
  BY <1>2, <1>6, <1>7 DEF ComposingIInv, OneAtATime, RowsKept, AnsweredOnce, UnderWay

LEMMA SubmitSound ==
  ASSUME ComposingIInv, NEW p \in Sendings, SubmitRequest(p)
  PROVE  ComposingIInv'
<1> DEFINE new == [leg |-> "sent", edition |-> draft.edition,
                   anonymous |-> viewer = "named" => ~naming]
<1>1. ComposingTyped BY DEF ComposingIInv
<1>2. posts' = [posts EXCEPT ![p] = new] /\ draft' = draft /\ rows' = rows
      /\ inFlight' = TRUE /\ ~inFlight /\ draft.full /\ posts[p] = Unsent
  BY DEF SubmitRequest, Send, CanSubmit
<1>3. new.leg = "sent" /\ new.edition = draft.edition OBVIOUS
<1>4. new \in [leg : Legs, edition : Nat, anonymous : BOOLEAN]
  <2>1. (viewer = "named" => ~naming) \in BOOLEAN OBVIOUS
  <2> QED BY <1>1, <2>1 DEF ComposingTyped, Legs
<1> HIDE DEF new
<1>5. posts'[p] = new /\ \A q \in Sendings \ {p} : posts'[q] = posts[q]
  BY <1>1, <1>2 DEF ComposingTyped
<1>6. ComposingTyped' BY <1>1, <1>2, <1>4 DEF ComposingTyped
<1>7. posts[p].leg = "unsent" BY <1>2 DEF Unsent
<1>8. \A q \in Sendings : ~UnderWay(q) BY <1>2 DEF ComposingIInv, OneAtATime
<1>9. OneAtATime' BY <1>2, <1>5, <1>8 DEF OneAtATime, UnderWay
<1>10. RowsKept' BY <1>1, <1>2, <1>5, <1>7 DEF ComposingIInv, RowsKept, ComposingTyped
<1>11. EditionsPast' BY <1>1, <1>2, <1>3, <1>5 DEF ComposingIInv, EditionsPast, ComposingTyped
<1>12. AnsweredPast' BY <1>2, <1>3, <1>5 DEF ComposingIInv, AnsweredPast
<1>13. \A q \in Sendings : posts[q].leg = "answered" => posts[q].edition < draft.edition
  BY <1>2 DEF ComposingIInv, AnsweredPast
<1>14. \A q \in Sendings : posts[q].leg = "answered" => posts[q].edition # draft.edition
  BY <1>1, <1>13 DEF ComposingTyped
<1>15. AnsweredOnce' BY <1>3, <1>5, <1>14 DEF ComposingIInv, AnsweredOnce
<1> QED BY <1>6, <1>9, <1>10, <1>11, <1>12, <1>15 DEF ComposingIInv

\* A call under way becomes one that is kept, answered or failed.
LEMMA MoveSound ==
  ASSUME ComposingIInv, NEW p \in Sendings, UnderWay(p),
         \/ Keep(p) /\ inFlight' = inFlight
         \/ Succeed(p)
         \/ Reject(p)
  PROVE  ComposingIInv'
<1>1. ComposingTyped BY DEF ComposingIInv
<1>2. PICK leg \in {"kept", "answered", "failed"} :
        /\ posts' = [posts EXCEPT ![p].leg = leg]
        /\ leg = "kept" => inFlight' = inFlight
        /\ leg = "answered" => draft' = [draft EXCEPT !.full = FALSE]
        /\ leg # "answered" => draft' = draft
  BY DEF Keep, Succeed, Reject
<1>3. rows' \subseteq rows \cup {p} BY DEF Keep, Succeed, Reject
<1>4. /\ posts'[p] = [posts[p] EXCEPT !.leg = leg]
      /\ \A q \in Sendings \ {p} : posts'[q] = posts[q]
  BY <1>1, <1>2 DEF ComposingTyped
<1>5. posts'[p].leg = leg /\ posts'[p].edition = posts[p].edition BY <1>1, <1>4 DEF ComposingTyped
<1>6. draft'.edition = draft.edition /\ draft' \in [full : BOOLEAN, edition : Nat]
  BY <1>1, <1>2 DEF ComposingTyped
<1>7. ComposingTyped'
  <2>1. posts' \in [Sendings -> [leg : Legs, edition : Nat, anonymous : BOOLEAN]]
    BY <1>1, <1>2 DEF ComposingTyped, Legs
  <2>2. rows' \subseteq Sendings BY <1>1, <1>3 DEF ComposingTyped
  <2> QED BY <1>6, <2>1, <2>2 DEF ComposingTyped
<1>8. \A q \in Sendings : UnderWay(q) => q = p BY DEF ComposingIInv, OneAtATime
<1>9. OneAtATime'
  <2>1. \A q \in Sendings : UnderWay(q)' => q = p BY <1>4, <1>8 DEF UnderWay
  <2>2. UnderWay(p)' => inFlight' = TRUE
    BY <1>2, <1>5 DEF ComposingIInv, OneAtATime, UnderWay
  <2> QED BY <2>1, <2>2 DEF OneAtATime
<1>10. RowsKept' BY <1>3, <1>4, <1>5, <1>1 DEF ComposingIInv, RowsKept, ComposingTyped
<1>11. EditionsPast' BY <1>4, <1>5, <1>6 DEF ComposingIInv, EditionsPast, UnderWay
<1>12. AnsweredPast'
  <2>1. draft'.full = FALSE \/ draft' = draft BY <1>1, <1>2 DEF ComposingTyped
  <2>2. leg = "answered" => draft'.full = FALSE BY <1>1, <1>2 DEF ComposingTyped
  <2> QED BY <1>4, <1>5, <1>6, <2>1, <2>2 DEF ComposingIInv, AnsweredPast
<1>13. AnsweredOnce'
  <2>1. \A q \in Sendings \ {p} : posts'[q].leg = "answered" => posts[q].edition # posts[p].edition
    BY <1>4 DEF ComposingIInv, AnsweredOnce, UnderWay
  <2>2. \A q \in Sendings \ {p} : posts'[q].leg \notin {"sent", "kept"}
    BY <1>4, <1>8 DEF UnderWay
  <2>3. \A q \in Sendings : posts'[q].edition = posts[q].edition BY <1>4, <1>5
  <2>4. SUFFICES ASSUME NEW a \in Sendings, NEW b \in Sendings, a # b,
                        posts'[a].leg = "answered", posts'[b].leg \in {"sent", "kept", "answered"}
                 PROVE  posts[a].edition # posts[b].edition
    BY <2>3 DEF AnsweredOnce
  <2>5. CASE a = p
    <3>1. posts'[b].leg = "answered" BY <2>2, <2>4, <2>5
    <3> QED BY <2>1, <2>4, <2>5, <3>1
  <2>6. CASE b = p BY <2>1, <2>4, <2>6
  <2>7. CASE a # p /\ b # p BY <1>4, <2>4, <2>7 DEF ComposingIInv, AnsweredOnce
  <2> QED BY <2>5, <2>6, <2>7
<1> QED BY <1>7, <1>9, <1>10, <1>11, <1>12, <1>13 DEF ComposingIInv

---------------------------------------------------------------------------
(* The theorems *)

\* ComposingIInv holds in every reachable state of the composer.
THEOREM ComposingInvariant == ComposingSpec => []ComposingIInv
<1>1. ASSUME ComposingIInv, [ComposingNext]_composingVars PROVE ComposingIInv'
  <2>1. CASE UNCHANGED composingVars BY <1>1, <2>1, DraftSound DEF composingVars
  <2>2. ASSUME NEW who, Recognise(who) PROVE ComposingIInv' BY <1>1, <2>2, DraftSound DEF Recognise
  <2>3. ASSUME NEW full \in BOOLEAN, TypeDraft(full) PROVE ComposingIInv'
    BY <1>1, <2>3, DraftSound DEF TypeDraft
  <2>4. CASE ToggleAnonymous \/ Render \/ SpinnerEnds
    BY <1>1, <2>4, DraftSound DEF ToggleAnonymous, Render, SpinnerEnds
  <2>5. ASSUME NEW p \in Sendings, SubmitRequest(p) PROVE ComposingIInv' BY <1>1, <2>5, SubmitSound
  <2>6. ASSUME NEW p \in Sendings, Keep(p) \/ Succeed(p) \/ Reject(p) PROVE ComposingIInv'
    <3>1. UnderWay(p) BY <2>6 DEF Keep, Succeed, Reject, UnderWay
    <3>2. Keep(p) => inFlight' = inFlight BY DEF Keep
    <3> QED BY <1>1, <2>6, <3>1, <3>2, MoveSound
  <2> QED BY <1>1, <2>1, <2>2, <2>3, <2>4, <2>5, <2>6 DEF ComposingNext
<1> QED BY <1>1, ComposingInitSound, PTL DEF ComposingSpec

\* However fast the button is pressed and whichever answers are lost, two rows of one
\* draft mean that the answer to one of their calls was lost (useTodayComposer).
THEOREM OneTextOneRequest == ComposingSpec => []PostedOnce
<1>1. ComposingIInv => PostedOnce
  <2> SUFFICES ASSUME ComposingIInv, NEW p \in rows, NEW q \in rows, p # q,
                      posts[p].edition = posts[q].edition,
                      posts[p].leg # "failed", posts[q].leg # "failed"
               PROVE  FALSE
    BY DEF PostedOnce
  <2>1. p \in Sendings /\ q \in Sendings BY DEF ComposingIInv, ComposingTyped
  <2>2. posts[p].leg \in {"kept", "answered"} /\ posts[q].leg \in {"kept", "answered"}
    BY DEF ComposingIInv, RowsKept
  <2>3. ~(posts[p].leg = "kept" /\ posts[q].leg = "kept")
    BY <2>1 DEF ComposingIInv, OneAtATime, UnderWay
  <2> QED BY <2>1, <2>2, <2>3 DEF ComposingIInv, AnsweredOnce
<1> QED BY <1>1, ComposingInvariant, PTL

\* The draft, the screen, the calls and the rows keep to their types.
THEOREM ComposingTypeSound == ComposingSpec => []ComposingTypeOK
<1>1. ComposingInit => ComposingTypeOK
  <2> SUFFICES ASSUME ComposingInit PROVE ComposingTypeOK OBVIOUS
  <2>1. 0 \in 0..MaxEditions BY EditionsAssumption
  <2>2. Unsent \in [leg : {"unsent", "sent", "kept", "answered", "failed"},
                    edition : 0..MaxEditions, anonymous : BOOLEAN]
    BY <2>1 DEF Unsent
  <2>3. posts \in [Sendings -> [leg : {"unsent", "sent", "kept", "answered", "failed"},
                                edition : 0..MaxEditions, anonymous : BOOLEAN]]
    BY <2>2 DEF ComposingInit
  <2>4. {naming, inFlight, spinning} \subseteq BOOLEAN BY DEF ComposingInit
  <2> QED BY <2>1, <2>3, <2>4 DEF ComposingInit, ComposingTypeOK
<1>2. ASSUME ComposingTypeOK, [ComposingNext]_composingVars PROVE ComposingTypeOK'
  <2> DEFINE PostCalls == [leg : {"unsent", "sent", "kept", "answered", "failed"},
                       edition : 0..MaxEditions, anonymous : BOOLEAN]
  <2>1. /\ draft \in [full : BOOLEAN, edition : 0..MaxEditions]
        /\ viewer \in {"loading", "nameless", "named"}
        /\ author \in {"member", "guest", "spent"}
        /\ naming \in BOOLEAN /\ inFlight \in BOOLEAN /\ spinning \in BOOLEAN
        /\ posts \in [Sendings -> PostCalls] /\ rows \subseteq Sendings
    BY <1>2 DEF ComposingTypeOK
  <2>2. CASE UNCHANGED composingVars
    BY <1>2, <2>2 DEF composingVars, ComposingTypeOK
  <2>3. ASSUME NEW who \in {"nameless", "named"}, Recognise(who) PROVE ComposingTypeOK'
    BY <2>1, <2>3 DEF Recognise, ComposingTypeOK
  <2>4. ASSUME NEW full \in BOOLEAN, TypeDraft(full) PROVE ComposingTypeOK'
    <3>1. draft.edition + 1 \in 0..MaxEditions BY <2>1, <2>4, EditionsAssumption DEF TypeDraft
    <3>2. draft' \in [full : BOOLEAN, edition : 0..MaxEditions] BY <2>4, <3>1 DEF TypeDraft
    <3> QED BY <2>1, <2>4, <3>2 DEF TypeDraft, ComposingTypeOK
  <2>5. CASE ToggleAnonymous \/ Render \/ SpinnerEnds
    BY <2>1, <2>5 DEF ToggleAnonymous, Render, SpinnerEnds, ComposingTypeOK
  <2>6. ASSUME NEW p \in Sendings, SubmitRequest(p) PROVE ComposingTypeOK'
    <3>1. (viewer = "named" => ~naming) \in BOOLEAN OBVIOUS
    <3>2. posts' \in [Sendings -> PostCalls] BY <2>1, <2>6, <3>1 DEF SubmitRequest, Send
    <3> QED BY <2>1, <2>6, <3>2 DEF SubmitRequest, ComposingTypeOK
  <2>7. ASSUME NEW p \in Sendings, Keep(p) \/ Succeed(p) \/ Reject(p) PROVE ComposingTypeOK'
    <3>1. posts' \in [Sendings -> PostCalls] BY <2>1, <2>7 DEF Keep, Succeed, Reject
    <3>2. draft' \in [full : BOOLEAN, edition : 0..MaxEditions]
      BY <2>1, <2>7 DEF Keep, Succeed, Reject
    <3>3. rows' \subseteq Sendings /\ inFlight' \in BOOLEAN
          /\ UNCHANGED <<viewer, author, naming, spinning>>
      BY <2>1, <2>7 DEF Keep, Succeed, Reject
    <3> QED BY <2>1, <3>1, <3>2, <3>3 DEF ComposingTypeOK
  <2> QED BY <1>2, <2>2, <2>3, <2>4, <2>5, <2>6, <2>7 DEF ComposingNext
<1> QED BY <1>1, <1>2, PTL DEF ComposingSpec

---------------------------------------------------------------------------
(* Saving: the inductive invariant *)

StockEntries == [data : Loads \cup {None}, fetch : {"none", "sent", "read"},
                 got : Loads \cup {None}, invalid : BOOLEAN]
SavingGestures ==
  [op : {"none", "save", "unsave", "report"}, reply : Answered \cup {None},
   step : {"idle", "sent", "found", "done", "answered", "refused", "lost"}]

SavingTyped ==
  /\ savedReplies \subseteq Answered /\ reportRows \subseteq Answered
  /\ veiled \subseteq Answered
  /\ sheet \in Sheets
  /\ pendingReport \in Answered \cup {None}
  /\ stock \in [Stocks -> StockEntries]
  /\ gestures \in [Gestures -> SavingGestures]

\* A call on its way is about a reply, only a save looks for it, and a report that was
\* counted has left its row.
GesturesSound ==
  \A g \in Gestures :
    /\ gestures[g].step = "idle" <=> gestures[g].reply = None
    /\ gestures[g].step = "found" => gestures[g].op = "save"
    /\ gestures[g].op = "report" /\ gestures[g].step \in {"done", "answered", "lost"}
       => gestures[g].reply \in reportRows

\* A bookmark was changed and the member does not know of it, now or for ever.
Unsettled ==
  \E g \in Gestures : gestures[g].op \in {"save", "unsave"} /\ gestures[g].step \in {"done", "lost"}

Reported(g) == gestures[g].op = "report" /\ gestures[g].step = "answered"

\* The items under a key are what its reader must see of the calls that were answered.
ShowsAnswered(k, items) ==
  IF k = "saved" THEN items = savedReplies \/ Unsettled
  ELSE \A g \in Gestures : Reported(g) => gestures[g].reply \notin items \cap veiled

OwnItems(k, d) == d # None => (k = "saved" \/ \A p \in d.items : SheetOf[p] = k)

Trusted(entry) == entry.data # None /\ ~entry.invalid /\ ~entry.data.overtaken
InTime(entry) == entry.got # None /\ ~entry.got.overtaken

\* What an entry holds or is about to hold shows what was answered, or says it may not.
StockSound(k, entry) ==
  /\ entry.got # None <=> entry.fetch = "read"
  /\ OwnItems(k, entry.data) /\ OwnItems(k, entry.got)
  /\ Trusted(entry) => ShowsAnswered(k, entry.data.items)
  /\ InTime(entry) => ShowsAnswered(k, entry.got.items)

StocksSound == \A k \in Stocks : StockSound(k, stock[k])

SavingIInv == SavingTyped /\ GesturesSound /\ StocksSound

---------------------------------------------------------------------------
LEMMA SavingInitSound == SavingInit => SavingIInv
<1> SUFFICES ASSUME SavingInit PROVE SavingIInv OBVIOUS
<1> DEFINE Sent == [Bare EXCEPT !.fetch = "sent"]
<1>1. Bare \in StockEntries /\ Sent \in StockEntries BY DEF Bare, StockEntries
<1>2. /\ Bare.data = None /\ Bare.got = None /\ Bare.fetch = "none"
      /\ Sent.data = None /\ Sent.got = None /\ Sent.fetch = "sent"
  BY DEF Bare
<1>3. \A k \in Stocks : stock[k] \in {Bare, Sent} BY DEF SavingInit
<1>4. stock \in [Stocks -> StockEntries] BY <1>1 DEF SavingInit
<1> HIDE DEF Sent
<1>5. StocksSound BY <1>2, <1>3 DEF StocksSound, StockSound, OwnItems, Trusted, InTime
<1>6. gestures \in [Gestures -> SavingGestures] /\ \A g \in Gestures : gestures[g] = NoGesture
  BY DEF SavingInit, SavingGestures, NoGesture
<1>7. GesturesSound BY <1>6 DEF GesturesSound, NoGesture
<1>8. SavingTyped BY <1>4, <1>6 DEF SavingInit, SavingTyped
<1> QED BY <1>5, <1>7, <1>8 DEF SavingIInv

---------------------------------------------------------------------------
(* The cache *)

\* Another entry of the cache, while the server and the calls stand still.
LEMMA StockMoves ==
  ASSUME SavingIInv, NEW k \in Stocks, NEW entry \in StockEntries, StockSound(k, entry),
         stock' = [stock EXCEPT ![k] = entry], sheet' \in Sheets,
         UNCHANGED <<savedReplies, veiled, reportRows, pendingReport, gestures>>
  PROVE  SavingIInv'
<1>1. SavingTyped' BY DEF SavingIInv, SavingTyped
<1>2. GesturesSound' BY DEF SavingIInv, GesturesSound
<1>3. ASSUME NEW j \in Stocks, NEW e, StockSound(j, e) PROVE StockSound(j, e)'
  BY <1>3 DEF StockSound, OwnItems, Trusted, InTime, ShowsAnswered, Reported, Unsettled
<1>4. \A j \in Stocks : stock'[j] = IF j = k THEN entry ELSE stock[j]
  BY DEF SavingIInv, SavingTyped
<1>5. \A j \in Stocks : StockSound(j, stock'[j])
  BY <1>4 DEF SavingIInv, StocksSound
<1>6. StocksSound'
  <2>1. ASSUME NEW j \in Stocks PROVE StockSound(j, stock[j])'
    BY <1>5 DEF StockSound, OwnItems, Trusted, InTime, ShowsAnswered, Reported, Unsettled
  <2> QED BY <2>1 DEF StocksSound
<1> QED BY <1>1, <1>2, <1>6 DEF SavingIInv

LEMMA StockNow ==
  ASSUME SavingIInv, NEW k \in Stocks
  PROVE  stock[k] \in StockEntries /\ StockSound(k, stock[k])
BY DEF SavingIInv, SavingTyped, StocksSound

LEMMA FetchReadsSound == ASSUME SavingIInv, NEW k \in Stocks, FetchReads(k) PROVE SavingIInv'
<1> DEFINE load == [items |-> Stored(k), overtaken |-> FALSE]
           entry == [stock[k] EXCEPT !.fetch = "read", !.got = load]
<1>1. stock[k] \in StockEntries /\ StockSound(k, stock[k]) BY StockNow
<1>2. Stored(k) \subseteq Answered BY DEF Stored, SavingIInv, SavingTyped
<1>3. load \in Loads /\ load # None
  <2>1. load \in Loads BY <1>2 DEF Loads
  <2> HIDE DEF load
  <2> QED BY <2>1, LoadsAssumption
<1>4. stock' = [stock EXCEPT ![k] = entry]
  BY <1>1 DEF FetchReads, SavingIInv, SavingTyped
<1>5. /\ entry.fetch = "read" /\ entry.got = load
      /\ entry.data = stock[k].data /\ entry.invalid = stock[k].invalid
  BY <1>1 DEF StockEntries
<1>6. entry \in StockEntries BY <1>1, <1>3 DEF StockEntries
<1>7. OwnItems(k, load) BY DEF OwnItems, Stored
<1>8. ShowsAnswered(k, load.items) BY DEF ShowsAnswered, Stored
<1> HIDE DEF entry, load
<1>9. StockSound(k, entry) BY <1>1, <1>3, <1>5, <1>7, <1>8 DEF StockSound, Trusted
<1> QED
  BY <1>4, <1>6, <1>9, StockMoves
  DEF FetchReads, RowsUnchanged, ScreenUnchanged, SavingIInv, SavingTyped

LEMMA ArrivesSound == ASSUME SavingIInv, NEW k \in Stocks, Arrives(k) PROVE SavingIInv'
<1> DEFINE entry == [stock[k] EXCEPT !.data = stock[k].got, !.got = None, !.fetch = "none",
                                     !.invalid = FALSE]
<1>1. stock[k] \in StockEntries /\ StockSound(k, stock[k]) BY StockNow
<1>2. stock' = [stock EXCEPT ![k] = entry]
  BY <1>1 DEF Arrives, SavingIInv, SavingTyped
<1>3. /\ entry.fetch = "none" /\ entry.got = None
      /\ entry.data = stock[k].got /\ ~entry.invalid
  BY <1>1 DEF StockEntries
<1>4. entry \in StockEntries BY <1>1 DEF StockEntries
<1> HIDE DEF entry
<1>5. StockSound(k, entry) BY <1>1, <1>3 DEF StockSound, Trusted, InTime, OwnItems
<1> QED
  BY <1>2, <1>4, <1>5, StockMoves
  DEF Arrives, RowsUnchanged, ScreenUnchanged, SavingIInv, SavingTyped

LEMMA LoadFailsSound == ASSUME SavingIInv, NEW k \in Stocks, LoadFails(k) PROVE SavingIInv'
<1> DEFINE entry == [stock[k] EXCEPT !.fetch = "none", !.got = None]
<1>1. stock[k] \in StockEntries /\ StockSound(k, stock[k]) BY StockNow
<1>2. stock' = [stock EXCEPT ![k] = entry]
  BY <1>1 DEF LoadFails, SavingIInv, SavingTyped
<1>3. /\ entry.fetch = "none" /\ entry.got = None
      /\ entry.data = stock[k].data /\ entry.invalid = stock[k].invalid
  BY <1>1 DEF StockEntries
<1>4. entry \in StockEntries BY <1>1 DEF StockEntries
<1> HIDE DEF entry
<1>5. StockSound(k, entry) BY <1>1, <1>3 DEF StockSound, Trusted, InTime, OwnItems
<1> QED
  BY <1>2, <1>4, <1>5, StockMoves
  DEF LoadFails, RowsUnchanged, ScreenUnchanged, SavingIInv, SavingTyped

LEMMA TurnToSound == ASSUME SavingIInv, NEW k \in Sheets, TurnTo(k) PROVE SavingIInv'
<1> DEFINE entry == Joined(stock[k])
<1>0. k \in Stocks BY DEF Stocks
<1>1. stock[k] \in StockEntries /\ StockSound(k, stock[k]) BY <1>0, StockNow
<1>2. stock' = [stock EXCEPT ![k] = entry] BY DEF TurnTo
<1>3. /\ entry.got = stock[k].got /\ (entry.fetch = "read" <=> stock[k].fetch = "read")
      /\ entry.data = stock[k].data /\ entry.invalid = stock[k].invalid
  BY <1>1 DEF StockEntries, Joined
<1>4. entry \in StockEntries BY <1>1 DEF StockEntries, Joined
<1> HIDE DEF entry
<1>5. StockSound(k, entry) BY <1>1, <1>3 DEF StockSound, Trusted, InTime, OwnItems
<1> QED BY <1>0, <1>2, <1>4, <1>5, StockMoves DEF TurnTo, RowsUnchanged

---------------------------------------------------------------------------
(* The server and the calls *)

\* A call moves on and the cache stands still.
LEMMA GestureMoves ==
  ASSUME SavingIInv, SavingTyped', GesturesSound', stock' = stock,
         \A k \in Stocks, items \in SUBSET Answered :
           ShowsAnswered(k, items) => ShowsAnswered(k, items)'
  PROVE  SavingIInv'
<1>1. ASSUME NEW k \in Stocks PROVE StockSound(k, stock[k])'
  <2>1. stock[k] \in StockEntries /\ StockSound(k, stock[k]) BY StockNow
  <2>2. stock[k].data # None => stock[k].data.items \in SUBSET Answered
    BY <2>1 DEF StockEntries, Loads
  <2>3. stock[k].got # None => stock[k].got.items \in SUBSET Answered
    BY <2>1 DEF StockEntries, Loads
  <2> QED BY <2>1, <2>2, <2>3 DEF StockSound, OwnItems, Trusted, InTime
<1> QED BY <1>1 DEF SavingIInv, StocksSound

\* The step of a call, and of no other.
LEMMA StepNow ==
  ASSUME SavingIInv, NEW g \in Gestures, NEW step,
         step \in {"found", "done", "answered", "refused", "lost"}, Step(g, step)
  PROVE  /\ gestures' \in [Gestures -> SavingGestures]
         /\ gestures'[g] = [gestures[g] EXCEPT !.step = step]
         /\ gestures'[g].op = gestures[g].op /\ gestures'[g].reply = gestures[g].reply
         /\ gestures'[g].step = step
         /\ \A h \in Gestures \ {g} : gestures'[h] = gestures[h]
BY DEF SavingIInv, SavingTyped, SavingGestures, Step

\* A call that comes to nothing, or whose answer is lost.
LEMMA GestureFailsSound ==
  ASSUME SavingIInv, NEW g \in Gestures, NEW step, Step(g, step),
         \/ step = "refused" /\ gestures[g].step \in {"sent", "found"}
         \/ step = "found" /\ gestures[g].step = "sent" /\ gestures[g].op = "save"
         \/ step = "lost" /\ gestures[g].step = "done",
         UNCHANGED <<savedReplies, veiled, reportRows, stock, sheet, pendingReport>>
  PROVE  SavingIInv'
<1>1. /\ gestures' \in [Gestures -> SavingGestures]
      /\ gestures'[g].op = gestures[g].op /\ gestures'[g].reply = gestures[g].reply
      /\ gestures'[g].step = step
      /\ \A h \in Gestures \ {g} : gestures'[h] = gestures[h]
  BY StepNow
<1>2. SavingTyped' BY <1>1 DEF SavingIInv, SavingTyped
<1>3. GesturesSound' BY <1>1 DEF SavingIInv, GesturesSound
<1>4. Unsettled => Unsettled' BY <1>1 DEF Unsettled
<1>5. \A h \in Gestures : Reported(h)' => Reported(h) BY <1>1 DEF Reported
<1>6. \A h \in Gestures : gestures'[h].reply = gestures[h].reply BY <1>1
<1>7. ASSUME NEW k \in Stocks, NEW items \in SUBSET Answered, ShowsAnswered(k, items)
      PROVE  ShowsAnswered(k, items)'
  BY <1>4, <1>5, <1>6, <1>7 DEF ShowsAnswered
<1> QED BY <1>2, <1>3, <1>7, GestureMoves

\* A bookmark is stored or taken away, and its call is now to be answered.
LEMMA BookmarkSound == ASSUME SavingIInv, NEW g \in Gestures, Save(g) \/ Unsave(g) PROVE SavingIInv'
<1>1. Step(g, "done") /\ gestures[g].op \in {"save", "unsave"}
      /\ gestures[g].step \in {"sent", "found"}
      /\ UNCHANGED <<veiled, reportRows, stock, sheet, pendingReport>>
  BY DEF Save, Unsave, ScreenUnchanged, SavingIInv, GesturesSound
<1>2. /\ gestures' \in [Gestures -> SavingGestures]
      /\ gestures'[g].op = gestures[g].op /\ gestures'[g].reply = gestures[g].reply
      /\ gestures'[g].step = "done"
      /\ \A h \in Gestures \ {g} : gestures'[h] = gestures[h]
  BY <1>1, StepNow
<1>3. savedReplies' \subseteq Answered
  <2>1. gestures[g].reply \in Answered
    BY <1>1 DEF SavingIInv, GesturesSound, SavingTyped, SavingGestures
  <2> QED BY <2>1 DEF Save, Unsave, SavingIInv, SavingTyped
<1>4. SavingTyped' BY <1>1, <1>2, <1>3 DEF SavingIInv, SavingTyped
<1>5. GesturesSound' BY <1>1, <1>2 DEF SavingIInv, GesturesSound
<1>6. Unsettled' BY <1>1, <1>2 DEF Unsettled
<1>7. \A h \in Gestures : Reported(h)' => Reported(h) BY <1>2 DEF Reported
<1>8. \A h \in Gestures : gestures'[h].reply = gestures[h].reply BY <1>2
<1>9. ASSUME NEW k \in Stocks, NEW items \in SUBSET Answered, ShowsAnswered(k, items)
      PROVE  ShowsAnswered(k, items)'
  BY <1>1, <1>6, <1>7, <1>8, <1>9 DEF ShowsAnswered
<1> QED BY <1>1, <1>4, <1>5, <1>9, GestureMoves

\* A report that hides its reply is the first one of it: none was answered before.
LEMMA ReportSound == ASSUME SavingIInv, NEW g \in Gestures, Report(g) PROVE SavingIInv'
<1> DEFINE p == gestures[g].reply
<1>1. gestures[g].op = "report" /\ gestures[g].step = "sent"
      /\ UNCHANGED <<savedReplies, stock, sheet, pendingReport>>
  BY DEF Report, ScreenUnchanged
<1>2. CASE p \in reportRows \cup veiled
  <2>1. Step(g, "refused") /\ UNCHANGED <<reportRows, veiled>> BY <1>2 DEF Report
  <2> QED BY <1>1, <2>1, GestureFailsSound
<1>3. CASE p \notin reportRows \cup veiled
  <2>1. /\ Step(g, "done") /\ reportRows' = reportRows \cup {p}
        /\ veiled' \in {veiled, veiled \cup {p}}
    BY <1>3 DEF Report
  <2>2. /\ gestures' \in [Gestures -> SavingGestures]
        /\ gestures'[g].op = gestures[g].op /\ gestures'[g].reply = p
        /\ gestures'[g].step = "done"
        /\ \A h \in Gestures \ {g} : gestures'[h] = gestures[h]
    BY <2>1, StepNow
  <2>3. p \in Answered
    BY <1>1 DEF SavingIInv, GesturesSound, SavingTyped, SavingGestures
  <2>4. SavingTyped' BY <1>1, <2>1, <2>2, <2>3 DEF SavingIInv, SavingTyped
  <2>5. GesturesSound' BY <1>1, <2>1, <2>2 DEF SavingIInv, GesturesSound
  <2>6. Unsettled => Unsettled' BY <1>1, <2>2 DEF Unsettled
  <2>7. ASSUME NEW h \in Gestures, Reported(h)'
        PROVE  Reported(h) /\ gestures'[h].reply = gestures[h].reply /\ gestures[h].reply # p
    <3>1. h # g BY <2>2, <2>7 DEF Reported
    <3>2. Reported(h) /\ gestures'[h].reply = gestures[h].reply
      BY <2>2, <2>7, <3>1 DEF Reported
    <3>3. gestures[h].reply \in reportRows BY <3>2 DEF Reported, SavingIInv, GesturesSound
    <3> QED BY <1>3, <3>2, <3>3
  <2>8. ASSUME NEW k \in Stocks, NEW items \in SUBSET Answered, ShowsAnswered(k, items)
        PROVE  ShowsAnswered(k, items)'
    BY <1>1, <2>1, <2>6, <2>7, <2>8 DEF ShowsAnswered
  <2> QED BY <1>1, <2>4, <2>5, <2>8, GestureMoves
<1> QED BY <1>2, <1>3

\* A call is sent about a reply the member sees.
LEMMA SendSound ==
  ASSUME SavingIInv, NEW g \in Gestures, NEW op \in {"save", "unsave", "report"},
         NEW p \in Answered, SendGesture(g, op, p), pendingReport' \in Answered \cup {None},
         UNCHANGED <<savedReplies, veiled, reportRows, stock, sheet>>
  PROVE  SavingIInv'
<1>1. /\ gestures'[g] = [op |-> op, reply |-> p, step |-> "sent"]
      /\ \A h \in Gestures \ {g} : gestures'[h] = gestures[h]
      /\ gestures[g].step = "idle"
  BY DEF SendGesture, SavingIInv, SavingTyped
<1>2. gestures' \in [Gestures -> SavingGestures]
  <2>1. [op |-> op, reply |-> p, step |-> "sent"] \in SavingGestures BY DEF SavingGestures
  <2> QED BY <2>1 DEF SendGesture, SavingIInv, SavingTyped
<1>3. SavingTyped' BY <1>2 DEF SavingIInv, SavingTyped
<1>4. p # None BY SheetsAssumption
<1>5. GesturesSound' BY <1>1, <1>4 DEF SavingIInv, GesturesSound
<1>6. Unsettled => Unsettled' BY <1>1 DEF Unsettled
<1>7. \A h \in Gestures : Reported(h)' => Reported(h) /\ gestures'[h].reply = gestures[h].reply
  BY <1>1 DEF Reported
<1>8. ASSUME NEW k \in Stocks, NEW items \in SUBSET Answered, ShowsAnswered(k, items)
      PROVE  ShowsAnswered(k, items)'
  BY <1>6, <1>7, <1>8 DEF ShowsAnswered
<1> QED BY <1>3, <1>5, <1>8, GestureMoves

\* What an answer invalidates is either marked or fetched anew.
LEMMA InvalidatedSound ==
  ASSUME NEW k \in Stocks, NEW entry \in StockEntries, StockSound(k, entry)
  PROVE  \A e \in {Outdated(entry), Renewed(entry)} :
           /\ e \in StockEntries
           /\ e.got # None <=> e.fetch = "read"
           /\ OwnItems(k, e.data) /\ OwnItems(k, e.got)
           /\ ~Trusted(e) /\ ~InTime(e)
<1> DEFINE Fine(e) == /\ e \in StockEntries
                      /\ e.got # None <=> e.fetch = "read"
                      /\ OwnItems(k, e.data) /\ OwnItems(k, e.got)
                      /\ ~Trusted(e) /\ ~InTime(e)
<1>1. /\ entry.got # None <=> entry.fetch = "read"
      /\ OwnItems(k, entry.data) /\ OwnItems(k, entry.got)
  BY DEF StockSound
<1>2. Fine(Outdated(entry))
  <2>1. CASE entry.fetch = "read"
    <3> DEFINE e == [entry EXCEPT !.invalid = TRUE, !.got.overtaken = TRUE]
    <3>1. Outdated(entry) = e BY <2>1 DEF Outdated
    <3>2. entry.got \in Loads BY <1>1, <2>1 DEF StockEntries
    <3> DEFINE late == [entry.got EXCEPT !.overtaken = TRUE]
               marked == [entry EXCEPT !.invalid = TRUE]
    <3>0. /\ marked \in StockEntries /\ marked.invalid
          /\ marked.data = entry.data /\ marked.fetch = entry.fetch /\ marked.got = entry.got
      BY DEF StockEntries
    <3>3. /\ e.data = entry.data /\ e.invalid /\ e.fetch = entry.fetch
          /\ e.got = late
      <4>1. e = [marked EXCEPT !.got = late] BY <3>0
      <4> HIDE DEF marked, late, e
      <4> QED BY <3>0, <4>1 DEF StockEntries
    <3>4. e.got \in Loads /\ e.got.overtaken /\ e.got.items = entry.got.items
      <4>1. late \in Loads /\ late.overtaken /\ late.items = entry.got.items BY <3>2 DEF Loads
      <4> HIDE DEF late, e
      <4> QED BY <3>3, <4>1
    <3>5. e \in StockEntries
      <4>1. e = [marked EXCEPT !.got = late] /\ late \in Loads BY <3>0, <3>3, <3>4
      <4> HIDE DEF marked, late, e
      <4> QED BY <3>0, <4>1 DEF StockEntries
    <3> HIDE DEF e
    <3>6. e.got # None BY <3>4, LoadsAssumption
    <3>7. OwnItems(k, e.data) /\ OwnItems(k, e.got)
      BY <1>1, <3>2, <3>3, <3>4, LoadsAssumption DEF OwnItems
    <3> QED BY <2>1, <3>1, <3>3, <3>4, <3>5, <3>6, <3>7 DEF Trusted, InTime
  <2>2. CASE entry.fetch # "read"
    <3> DEFINE e == [entry EXCEPT !.invalid = TRUE]
    <3>1. Outdated(entry) = e BY <2>2 DEF Outdated
    <3>2. e \in StockEntries /\ e.data = entry.data /\ e.invalid /\ e.fetch = entry.fetch
          /\ e.got = entry.got
      BY DEF StockEntries
    <3> HIDE DEF e
    <3> QED BY <1>1, <2>2, <3>1, <3>2 DEF Trusted, InTime
  <2> QED BY <2>1, <2>2
<1>3. Fine(Renewed(entry))
  <2>1. CASE entry.data = None
    <3> DEFINE o == Outdated(entry)
    <3>1. Fine(o) BY <1>2
    <3>2. Renewed(entry) = Joined(o) BY <2>1 DEF Renewed
    <3> HIDE DEF o
    <3>3. CASE o.fetch = "none"
      <4> DEFINE e == [o EXCEPT !.fetch = "sent"]
      <4>1. e \in StockEntries /\ e.data = o.data /\ e.invalid = o.invalid /\ e.got = o.got
            /\ e.fetch = "sent"
        BY <3>1 DEF StockEntries
      <4>2. Renewed(entry) = e BY <3>2, <3>3 DEF Joined
      <4> HIDE DEF e
      <4> QED BY <3>1, <3>3, <4>1, <4>2 DEF Trusted, InTime
    <3>4. CASE o.fetch # "none" BY <3>1, <3>2, <3>4 DEF Joined
    <3> QED BY <3>3, <3>4
  <2>2. CASE entry.data # None
    <3> DEFINE e == [entry EXCEPT !.invalid = TRUE, !.fetch = "sent", !.got = None]
    <3>1. e \in StockEntries /\ e.data = entry.data /\ e.invalid /\ e.got = None /\ e.fetch = "sent"
      BY DEF StockEntries
    <3>2. Renewed(entry) = e BY <2>2 DEF Renewed
    <3> HIDE DEF e
    <3> QED BY <1>1, <3>1, <3>2 DEF Trusted, InTime, OwnItems
  <2> QED BY <2>1, <2>2
<1> QED BY <1>2, <1>3

LEMMA GestureAnsweredSound == ASSUME SavingIInv, NEW g \in Gestures, GestureAnswered(g) PROVE SavingIInv'
<1>1. Step(g, "answered") /\ gestures[g].step = "done"
      /\ UNCHANGED <<savedReplies, veiled, reportRows, sheet, pendingReport>>
  BY DEF GestureAnswered, RowsUnchanged, ScreenUnchanged
<1>2. /\ gestures' \in [Gestures -> SavingGestures]
      /\ gestures'[g].op = gestures[g].op /\ gestures'[g].reply = gestures[g].reply
      /\ gestures'[g].step = "answered"
      /\ \A h \in Gestures \ {g} : gestures'[h] = gestures[h]
  BY <1>1, StepNow
<1>3. GesturesSound' BY <1>1, <1>2 DEF SavingIInv, GesturesSound
<1>4. ASSUME NEW k \in Stocks, k \notin InvalidatedBy(g), NEW items, ShowsAnswered(k, items)
      PROVE  ShowsAnswered(k, items)'
  <2>1. CASE k = "saved"
    <3>1. gestures[g].op = "report" BY <1>4, <2>1 DEF InvalidatedBy
    <3>2. Unsettled => Unsettled' BY <1>2, <3>1 DEF Unsettled
    <3> QED BY <1>1, <1>4, <2>1, <3>2 DEF ShowsAnswered
  <2>2. CASE k # "saved"
    <3>1. gestures[g].op # "report" BY <1>4, <2>2 DEF InvalidatedBy, Stocks
    <3>2. \A h \in Gestures : Reported(h)' => Reported(h) /\ gestures'[h].reply = gestures[h].reply
      BY <1>2, <3>1 DEF Reported
    <3> QED BY <1>1, <1>4, <2>2, <3>2 DEF ShowsAnswered
  <2> QED BY <2>1, <2>2
<1>5. ASSUME NEW k \in Stocks PROVE stock'[k] \in StockEntries /\ StockSound(k, stock[k])'
  <2>1. stock[k] \in StockEntries /\ StockSound(k, stock[k]) BY StockNow
  <2>2. CASE k \notin InvalidatedBy(g)
    <3>1. stock'[k] = stock[k] BY <2>2 DEF GestureAnswered
    <3> QED BY <1>4, <2>1, <2>2, <3>1 DEF StockSound, OwnItems, Trusted, InTime
  <2>3. CASE k \in InvalidatedBy(g)
    <3>1. stock'[k] \in {Outdated(stock[k]), Renewed(stock[k])} BY <2>3 DEF GestureAnswered
    <3>2. /\ stock'[k] \in StockEntries
          /\ stock'[k].got # None <=> stock'[k].fetch = "read"
          /\ OwnItems(k, stock'[k].data) /\ OwnItems(k, stock'[k].got)
          /\ ~Trusted(stock'[k]) /\ ~InTime(stock'[k])
      BY <2>1, <3>1, InvalidatedSound
    <3> QED BY <3>2 DEF StockSound, OwnItems, Trusted, InTime
  <2> QED BY <2>2, <2>3
<1>6. stock' \in [Stocks -> StockEntries]
  <2>1. stock' = [k \in Stocks |-> stock'[k]] BY DEF GestureAnswered
  <2> QED BY <1>5, <2>1
<1>7. SavingTyped' BY <1>1, <1>2, <1>6 DEF SavingIInv, SavingTyped
<1>8. StocksSound' BY <1>5 DEF StocksSound
<1> QED BY <1>3, <1>7, <1>8 DEF SavingIInv

---------------------------------------------------------------------------
LEMMA SavingNextSound == SavingIInv /\ [SavingNext]_savingVars => SavingIInv'
<1> SUFFICES ASSUME SavingIInv, [SavingNext]_savingVars PROVE SavingIInv' OBVIOUS
<1>1. CASE UNCHANGED savingVars
  <2>1. SavingTyped' /\ GesturesSound'
    BY <1>1 DEF savingVars, SavingIInv, SavingTyped, GesturesSound
  <2>2. \A k \in Stocks, items \in SUBSET Answered :
          ShowsAnswered(k, items) => ShowsAnswered(k, items)'
    BY <1>1 DEF savingVars, ShowsAnswered, Reported, Unsettled
  <2> QED BY <1>1, <2>1, <2>2, GestureMoves DEF savingVars
<1>2. ASSUME NEW k \in Stocks, FetchReads(k) \/ Arrives(k) \/ LoadFails(k) PROVE SavingIInv'
  BY <1>2, FetchReadsSound, ArrivesSound, LoadFailsSound
<1>3. ASSUME NEW k \in Sheets, TurnTo(k) PROVE SavingIInv' BY <1>3, TurnToSound
<1>4. ASSUME (\E p \in Answered : OnReportReply(p)) \/ CancelReport PROVE SavingIInv'
  <2>1. pendingReport' \in Answered \cup {None}
        /\ UNCHANGED <<savedReplies, veiled, reportRows, stock, sheet, gestures>>
    BY <1>4 DEF OnReportReply, CancelReport, RowsUnchanged
  <2>2. SavingTyped' /\ GesturesSound' BY <2>1 DEF SavingIInv, SavingTyped, GesturesSound
  <2>3. \A k \in Stocks, items \in SUBSET Answered :
          ShowsAnswered(k, items) => ShowsAnswered(k, items)'
    BY <2>1 DEF ShowsAnswered, Reported, Unsettled
  <2> QED BY <2>1, <2>2, <2>3, GestureMoves
<1>5. ASSUME NEW g \in Gestures, FindVisibleReply(g) PROVE SavingIInv'
  <2>1. \E step \in {"refused", "found"} : Step(g, step) BY <1>5 DEF FindVisibleReply
  <2> QED
    BY <1>5, <2>1, GestureFailsSound DEF FindVisibleReply, RowsUnchanged, ScreenUnchanged
<1>6. ASSUME NEW g \in Gestures, GestureFails(g) PROVE SavingIInv'
  <2>1. \/ Step(g, "lost") /\ gestures[g].step = "done"
        \/ Step(g, "refused") /\ gestures[g].step \in {"sent", "found"}
    BY <1>6 DEF GestureFails
  <2>2. UNCHANGED <<savedReplies, veiled, reportRows, stock, sheet, pendingReport>>
    BY <1>6 DEF GestureFails, RowsUnchanged, ScreenUnchanged
  <2> QED BY <2>1, <2>2, GestureFailsSound
<1>7. ASSUME NEW g \in Gestures, Save(g) \/ Unsave(g) \/ Report(g) \/ GestureAnswered(g)
      PROVE  SavingIInv'
  BY <1>7, BookmarkSound, ReportSound, GestureAnsweredSound
<1>8. ASSUME NEW g \in Gestures, ConfirmPendingReport(g) PROVE SavingIInv'
  <2>1. pendingReport \in Answered /\ SendGesture(g, "report", pendingReport)
        /\ pendingReport' \in Answered \cup {None}
        /\ UNCHANGED <<savedReplies, veiled, reportRows, stock, sheet>>
    BY <1>8 DEF ConfirmPendingReport, RowsUnchanged, SavingIInv, SavingTyped
  <2> QED BY <2>1, SendSound
<1>9. ASSUME NEW g \in Gestures, NEW p \in Answered, ToggleSavedReply(g, p) PROVE SavingIInv'
  <2>1. \E op \in {"save", "unsave"} : SendGesture(g, op, p)
    BY <1>9 DEF ToggleSavedReply
  <2>2. pendingReport' \in Answered \cup {None}
        /\ UNCHANGED <<savedReplies, veiled, reportRows, stock, sheet>>
    BY <1>9 DEF ToggleSavedReply, RowsUnchanged, ScreenUnchanged, SavingIInv, SavingTyped
  <2> QED BY <2>1, <2>2, SendSound
<1> QED
  BY <1>1, <1>2, <1>3, <1>4, <1>5, <1>6, <1>7, <1>8, <1>9 DEF SavingNext

LEMMA SavingInvariant == SavingSpec => []SavingIInv
BY SavingInitSound, SavingNextSound, PTL DEF SavingSpec

\* The cache holds what its keys are for, a page only replies of its own, and a call is
\* about a reply exactly when it was sent.
THEOREM SavingTypeSound == SavingSpec => []SavingTypeOK
<1>1. SavingIInv => SavingTypeOK
  <2> SUFFICES ASSUME SavingIInv PROVE SavingTypeOK OBVIOUS
  <2>1. ASSUME NEW k \in Stocks
        PROVE  /\ stock[k].got # None <=> stock[k].fetch = "read"
               /\ \A d \in {stock[k].data, stock[k].got} \ {None} :
                    d \in Loads /\ (k = "saved" \/ \A p \in d.items : SheetOf[p] = k)
    <3>1. stock[k] \in StockEntries /\ StockSound(k, stock[k]) BY StockNow
    <3> QED BY <3>1 DEF StockSound, OwnItems, StockEntries
  <2> QED BY <2>1 DEF SavingIInv, SavingTyped, GesturesSound, SavingTypeOK
<1> QED BY <1>1, SavingInvariant, PTL

\* However quickly a member toggles and reports, and in whatever order the calls are
\* handled: when nothing is on its way, what is shown is what is stored
\* (useToggleSavedReplyMutation, useReportMutation).
THEOREM AnsweredAlwaysShown == SavingSpec => []AnsweredIsShown
<1>1. SavingIInv => AnsweredIsShown
  <2> SUFFICES ASSUME SavingIInv PROVE AnsweredIsShown OBVIOUS
  <2>1. "saved" \in Stocks /\ sheet \in Stocks /\ sheet # "saved"
    BY SheetsAssumption DEF Stocks, SavingIInv, SavingTyped
  <2>2. ASSUME Reliable("saved"),
               \A g \in Gestures : gestures[g].step \in {"idle", "answered", "refused"}
        PROVE  Marked = savedReplies
    <3>1. ~Unsettled BY <2>2 DEF Unsettled
    <3>2. ShowsAnswered("saved", stock["saved"].data.items)
      BY <2>1, <2>2, StockNow DEF Reliable, StockSound, Trusted
    <3> QED BY <2>2, <3>1, <3>2 DEF ShowsAnswered, Marked, Reliable
  <2>3. ASSUME Reliable(sheet), NEW g \in Gestures, Reported(g)
        PROVE  Displayed \cap {gestures[g].reply} \cap veiled = {}
    <3>1. ShowsAnswered(sheet, stock[sheet].data.items)
      BY <2>1, <2>3, StockNow DEF Reliable, StockSound, Trusted
    <3>2. Displayed = stock[sheet].data.items BY <2>3 DEF Displayed, Reliable
    <3> QED BY <2>1, <2>3, <3>1, <3>2 DEF ShowsAnswered
  <2> QED BY <2>2, <2>3 DEF AnsweredIsShown, Reported
<1> QED BY <1>1, SavingInvariant, PTL

---------------------------------------------------------------------------
(* ReplyTone: the suggestions *)

\* Suggestions worth showing.
WorthShowing(s) ==
  /\ s \in Seq(Range(Trimmed) \ {Blank})
  /\ Len(s) <= MaxSuggestions
  /\ IsInjective(s)

LEMMA NothingIsWorthShowing ==
  WorthShowing(<<>>) /\ Len(<<>>) <= MaxSuggestions /\ Range(<<>>) = {} /\ IsInjective(<<>>)
BY DEF WorthShowing, MaxSuggestions, Range, IsInjective

LEMMA KeepLineKeeps ==
  ASSUME NEW kept, WorthShowing(kept), NEW line \in Lines
  PROVE  WorthShowing(KeepLine(kept, line))
<1> DEFINE fresh == Trimmed[line]
<1>1. CASE fresh \in {Blank} \cup Range(kept) \/ Len(kept) = MaxSuggestions
  BY <1>1 DEF KeepLine
<1>2. CASE ~(fresh \in {Blank} \cup Range(kept) \/ Len(kept) = MaxSuggestions)
  <2>1. KeepLine(kept, line) = Append(kept, fresh) BY <1>2 DEF KeepLine
  <2>2. fresh \in Range(Trimmed) \ {Blank} BY <1>2, LinesAssumption DEF Range
  <2>3. kept \in Seq(Range(Trimmed) \ {Blank}) /\ Len(kept) <= MaxSuggestions
    BY DEF WorthShowing
  <2>4. \A i \in 1..Len(kept) : kept[i] # fresh BY <1>2, <2>3 DEF Range
  <2> DEFINE longer == Append(kept, fresh)
  <2> HIDE DEF fresh
  <2>5. /\ longer \in Seq(Range(Trimmed) \ {Blank})
        /\ Len(longer) = Len(kept) + 1 /\ DOMAIN longer = 1..Len(kept) + 1
        /\ longer[Len(kept) + 1] = fresh
        /\ \A i \in 1..Len(kept) : longer[i] = kept[i]
        /\ Len(kept) \in Nat /\ DOMAIN kept = 1..Len(kept)
    BY <2>2, <2>3
  <2>6. Len(longer) <= MaxSuggestions BY <1>2, <2>3, <2>5 DEF MaxSuggestions
  <2> HIDE DEF longer
  <2>7. IsInjective(longer)
    <3>1. ASSUME NEW i \in 1..Len(kept) + 1, NEW j \in 1..Len(kept) + 1, longer[i] = longer[j]
          PROVE  i = j
      <4>1. i \in 1..Len(kept) \/ i = Len(kept) + 1 BY <2>5
      <4>2. j \in 1..Len(kept) \/ j = Len(kept) + 1 BY <2>5
      <4>3. CASE i \in 1..Len(kept) /\ j \in 1..Len(kept)
        <5>1. kept[i] = kept[j] BY <2>5, <3>1, <4>3
        <5> QED BY <2>5, <4>3, <5>1 DEF WorthShowing, IsInjective
      <4> QED BY <2>4, <2>5, <3>1, <4>1, <4>2, <4>3
    <3> QED BY <2>5, <3>1 DEF IsInjective
  <2> QED BY <2>1, <2>5, <2>6, <2>7 DEF WorthShowing, longer
<1> QED BY <1>1, <1>2

LEMMA LeastNumber ==
  ASSUME NEW S, S \subseteq Nat, S # {}
  PROVE  \E m \in S : \A n \in S : m <= n
<1>1. IsWellFoundedOn(OpToRel(<, Nat), Nat) BY NatLessThanWellFounded, Zenon
<1>2. PICK m \in S : \A n \in S : ~(<<n, m>> \in OpToRel(<, Nat)) BY <1>1, WFMin, Zenon
<1>3. \A n \in S : ~(n < m) BY <1>2, Zenon DEF OpToRel
<1> QED BY <1>3

\* Whatever the model suggests, what is left of it is worth showing (normalizeSuggestions).
LEMMA SuggestionsWorthShowing ==
  ASSUME NEW raw \in RawAnswers
  PROVE  WorthShowing(NormalizeSuggestions(raw))
<1>1. PICK size \in 0..MaxLines : raw \in [1..size -> Lines] BY DEF RawAnswers
<1>2. size \in Nat /\ Len(raw) = size BY <1>1, LinesAssumption
<1> DEFINE Body(f, n) == IF n = 0 THEN <<>> ELSE KeepLine(f[n - 1], raw[n])
           Runs(m) == \E f : f = [n \in 0..m |-> Body(f, n)]
<1>3. \A m \in Nat : Runs(m)
  <2> DEFINE Stuck == {m \in Nat : ~Runs(m)}
  <2>1. SUFFICES ASSUME Stuck # {} PROVE FALSE OBVIOUS
  <2>2. PICK m \in Stuck : \A n \in Stuck : m <= n
    <3> HIDE DEF Runs
    <3> QED BY <2>1, LeastNumber
  <2>3. CASE m = 0
    <3>1. [n \in 0..0 |-> <<>>] = [n \in 0..0 |-> Body([k \in 0..0 |-> <<>>], n)] OBVIOUS
    <3> QED BY <2>2, <2>3, <3>1
  <2>4. CASE m # 0
    <3>1. m - 1 \in Nat /\ m - 1 < m BY <2>2, <2>4
    <3>2. Runs(m - 1)
      <4> HIDE DEF Runs
      <4> QED BY <2>2, <3>1
    <3>3. PICK f : f = [n \in 0..(m - 1) |-> Body(f, n)] BY <3>2
    <3> DEFINE g == [n \in 0..m |-> IF n = m THEN KeepLine(f[m - 1], raw[m]) ELSE f[n]]
    <3>4. ASSUME NEW n \in 0..m PROVE g[n] = Body(g, n)
      <4>1. CASE n = m BY <2>4, <3>1, <4>1
      <4>2. CASE n # m
        <5>1. n \in 0..(m - 1) BY <2>2, <3>4, <4>2
        <5>2. g[n] = f[n] BY <3>4, <4>2
        <5>3. f[n] = Body(f, n) BY <3>3, <5>1
        <5>4. n # 0 => g[n - 1] = f[n - 1] BY <2>2, <5>1
        <5> QED BY <5>2, <5>3, <5>4
      <4> QED BY <4>1, <4>2
    <3>5. g = [n \in 0..m |-> Body(g, n)] BY <3>4
    <3>6. Runs(m) BY <3>5
    <3> QED BY <2>2, <3>6
  <2> QED BY <2>3, <2>4
<1> DEFINE kept == CHOOSE f : f = [n \in 0..Len(raw) |-> Body(f, n)]
<1>4. NormalizeSuggestions(raw) = kept[Len(raw)] BY DEF NormalizeSuggestions
<1>5. kept = [n \in 0..size |-> Body(kept, n)] BY <1>2, <1>3
<1> HIDE DEF kept
<1>6. \A n \in 0..size : WorthShowing(kept[n])
  <2> DEFINE Spoilt == {n \in 0..size : ~WorthShowing(kept[n])}
  <2>1. SUFFICES ASSUME Spoilt # {} PROVE FALSE OBVIOUS
  <2>2. PICK m \in Spoilt : \A n \in Spoilt : m <= n
    <3>1. Spoilt \subseteq Nat BY <1>2
    <3> HIDE DEF Spoilt
    <3> QED BY <2>1, <3>1, LeastNumber
  <2>3. kept[m] = Body(kept, m) BY <1>5, <2>2
  <2>4. m # 0
    <3>1. m = 0 => kept[m] = <<>> BY <2>3
    <3> QED BY <2>2, <3>1, NothingIsWorthShowing
  <2>5. m \in 1..size /\ m - 1 \in 0..size /\ m - 1 < m BY <1>2, <2>2, <2>4
  <2>6. WorthShowing(kept[m - 1]) BY <2>2, <2>5
  <2>7. raw[m] \in Lines BY <1>1, <2>5
  <2>8. kept[m] = KeepLine(kept[m - 1], raw[m]) BY <2>3, <2>4
  <2> QED BY <2>2, <2>6, <2>7, <2>8, KeepLineKeeps
<1> QED BY <1>2, <1>4, <1>6

---------------------------------------------------------------------------
(* ReplyTone: the inductive invariant *)

ToneSteps == {"unstored", "asking", "rewriting", "judged", "over"}
ToneResults == [action : Actions \cup {None}, excluded : BOOLEAN,
                suggestions : {s \in Seq(Range(Trimmed) \ {Blank}) : WorthShowing(s)},
                error : BOOLEAN]

ToneTyped ==
  /\ job \in [Drafts -> [step : ToneSteps, result : ToneResults]]
  /\ said \in [Drafts -> Actions \cup {None}]
  /\ verdicts \in [Drafts -> ToneResults \cup {None}]

\* A result has a ground in what the policy sees and in what the classifier said.
Grounded(r, row) ==
  /\ row.action = "allow" => Excluded(traits[r]) \/ said[r] = "allow"
  /\ row.action = "block"
     <=> ~Excluded(traits[r]) /\ (HardBlocked(traits[r]) \/ said[r] = "block")
  /\ Excluded(traits[r]) \/ HardBlocked(traits[r]) => said[r] = None
  /\ row.suggestions # <<>> => row.action \in {"suggest_rewrite", "uncertain"}

\* The model is asked only about what the policy neither excludes nor blocks.
LeftToModel(r) == ~Excluded(traits[r]) /\ ~HardBlocked(traits[r])

JobSound(r) ==
  /\ job[r].step = "unstored" => said[r] = None
  /\ job[r].step = "asking" => said[r] = None /\ LeftToModel(r)
  /\ job[r].step = "rewriting" =>
       /\ LeftToModel(r) /\ said[r] \in {"suggest_rewrite", "uncertain"}
       /\ job[r].result = Result(said[r], FALSE, <<>>, FALSE)
  /\ job[r].step = "judged" => Grounded(r, job[r].result)
  /\ job[r].step # "over" => verdicts[r] = None
  /\ verdicts[r] # None => Grounded(r, verdicts[r])

ToneIInv == ToneTyped /\ \A r \in Drafts : JobSound(r)

---------------------------------------------------------------------------
LEMMA ResultTyped ==
  ASSUME NEW action \in Actions \cup {None}, NEW excluded \in BOOLEAN, NEW error \in BOOLEAN
  PROVE  Result(action, excluded, <<>>, error) \in ToneResults
<1>1. <<>> \in {s \in Seq(Range(Trimmed) \ {Blank}) : WorthShowing(s)}
  BY NothingIsWorthShowing DEF WorthShowing
<1> HIDE DEF WorthShowing
<1> QED BY <1>1 DEF Result, ToneResults

LEMMA ToneInitSound == ToneInit => ToneIInv
<1> SUFFICES ASSUME ToneInit PROVE ToneIInv OBVIOUS
<1>1. NoResult \in ToneResults BY ResultTyped DEF NoResult
<1>2. ToneTyped BY <1>1 DEF ToneInit, ToneTyped, ToneSteps
<1>3. \A r \in Drafts : JobSound(r) BY DEF ToneInit, JobSound
<1> QED BY <1>2, <1>3 DEF ToneIInv

\* A step of one reply's dry run, which leaves its traits and the other replies alone.
LEMMA JobMoves ==
  ASSUME ToneIInv, NEW r \in Drafts, NEW step \in ToneSteps, NEW result \in ToneResults,
         NEW word \in Actions \cup {None}, NEW verdict \in ToneResults \cup {None},
         job' = [job EXCEPT ![r] = [step |-> step, result |-> result]],
         said' = [said EXCEPT ![r] = word], verdicts' = [verdicts EXCEPT ![r] = verdict],
         traits' = traits, JobSound(r)'
  PROVE  ToneIInv'
<1>1. [step |-> step, result |-> result] \in [step : ToneSteps, result : ToneResults] OBVIOUS
<1>2. ToneTyped' BY <1>1 DEF ToneIInv, ToneTyped
<1>3. ASSUME NEW q \in Drafts, q # r PROVE JobSound(q)'
  <2>1. job'[q] = job[q] /\ said'[q] = said[q] /\ verdicts'[q] = verdicts[q]
        /\ traits'[q] = traits[q]
    BY <1>3 DEF ToneIInv, ToneTyped
  <2>2. \A row : Grounded(q, row) <=> Grounded(q, row)' BY <2>1 DEF Grounded
  <2>3. LeftToModel(q) <=> LeftToModel(q)' BY <2>1 DEF LeftToModel
  <2>4. JobSound(q) BY DEF ToneIInv
  <2> QED BY <2>1, <2>2, <2>3, <2>4 DEF JobSound
<1> QED BY <1>2, <1>3 DEF ToneIInv

LEMMA JobNow ==
  ASSUME ToneIInv, NEW r \in Drafts
  PROVE  /\ job[r] \in [step : ToneSteps, result : ToneResults] /\ JobSound(r)
         /\ said[r] \in Actions \cup {None} /\ verdicts[r] \in ToneResults \cup {None}
         /\ said = [said EXCEPT ![r] = said[r]]
         /\ verdicts = [verdicts EXCEPT ![r] = verdicts[r]]
BY DEF ToneIInv, ToneTyped

\* A verdict that is reached without another word of the classifier.
LEMMA JudgedSound ==
  ASSUME ToneIInv, NEW r \in Drafts, NEW result \in ToneResults, Judged(r, result),
         job[r].step # "over", Grounded(r, result),
         UNCHANGED <<traits, said, verdicts>>
  PROVE  ToneIInv'
<1>1. job' = [job EXCEPT ![r] = [step |-> "judged", result |-> result]] BY DEF Judged
<1>2. job'[r].step = "judged" /\ job'[r].result = result BY <1>1 DEF ToneIInv, ToneTyped
<1>3. verdicts[r] = None BY JobNow DEF JobSound
<1>4. Grounded(r, result)' BY DEF Grounded
<1>5. JobSound(r)' BY <1>2, <1>3, <1>4 DEF JobSound
<1>6. "judged" \in ToneSteps BY DEF ToneSteps
<1>7. /\ said[r] \in Actions \cup {None} /\ verdicts[r] \in ToneResults \cup {None}
      /\ said' = [said EXCEPT ![r] = said[r]] /\ verdicts' = [verdicts EXCEPT ![r] = verdicts[r]]
  BY JobNow
<1> QED BY <1>1, <1>5, <1>6, <1>7, JobMoves

LEMMA ModerateSound == ASSUME ToneIInv, NEW r \in Drafts, Moderate(r) PROVE ToneIInv'
<1>1. job[r].step = "unstored" /\ said[r] = None /\ verdicts[r] = None
      /\ job[r] \in [step : ToneSteps, result : ToneResults]
      /\ UNCHANGED <<traits, said, verdicts>>
  BY JobNow DEF Moderate, JobSound
<1>2. CASE Excluded(traits[r])
  <2> DEFINE result == Result("allow", TRUE, <<>>, FALSE)
  <2>1. Judged(r, result) BY <1>2 DEF Moderate
  <2>2. result \in ToneResults BY ResultTyped DEF Actions
  <2>3. Grounded(r, result) BY <1>1, <1>2 DEF Grounded, Result
  <2> HIDE DEF result
  <2> QED BY <1>1, <2>1, <2>2, <2>3, JudgedSound
<1>3. CASE ~Excluded(traits[r]) /\ HardBlocked(traits[r])
  <2> DEFINE result == Result("block", FALSE, <<>>, FALSE)
  <2>1. Judged(r, result) BY <1>3 DEF Moderate
  <2>2. result \in ToneResults BY ResultTyped DEF Actions
  <2>3. Grounded(r, result) BY <1>1, <1>3 DEF Grounded, Result
  <2> HIDE DEF result
  <2> QED BY <1>1, <2>1, <2>2, <2>3, JudgedSound
<1>4. CASE LeftToModel(r)
  <2>1. job' = [job EXCEPT ![r].step = "asking"] BY <1>4 DEF Moderate, LeftToModel
  <2>2. job' = [job EXCEPT ![r] = [step |-> "asking", result |-> job[r].result]]
    <3>1. [job[r] EXCEPT !.step = "asking"] = [step |-> "asking", result |-> job[r].result]
      BY <1>1
    <3> QED BY <2>1, <3>1
  <2>3. job'[r].step = "asking" BY <2>2 DEF ToneIInv, ToneTyped
  <2>4. LeftToModel(r)' BY <1>1, <1>4 DEF LeftToModel
  <2>5. JobSound(r)' BY <1>1, <2>3, <2>4 DEF JobSound
  <2>6. "asking" \in ToneSteps /\ job[r].result \in ToneResults BY <1>1 DEF ToneSteps
  <2>7. /\ said[r] \in Actions \cup {None} /\ verdicts[r] \in ToneResults \cup {None}
        /\ said' = [said EXCEPT ![r] = said[r]] /\ verdicts' = [verdicts EXCEPT ![r] = verdicts[r]]
    BY <1>1, JobNow
  <2> QED BY <1>1, <2>2, <2>5, <2>6, <2>7, JobMoves
<1> QED BY <1>2, <1>3, <1>4 DEF LeftToModel

LEMMA ClassifySound ==
  ASSUME ToneIInv, NEW r \in Drafts, NEW action \in Actions, Classify(r, action)
  PROVE  ToneIInv'
<1>1. /\ job[r].step = "asking" /\ LeftToModel(r) /\ verdicts[r] = None
      /\ said' = [said EXCEPT ![r] = action] /\ UNCHANGED <<traits, verdicts>>
  BY JobNow DEF Classify, JobSound
<1> DEFINE result == Result(action, FALSE, <<>>, FALSE)
           step == IF action \in {"allow", "block"} THEN "judged" ELSE "rewriting"
<1>2. result \in ToneResults /\ step \in ToneSteps BY ResultTyped DEF ToneSteps
<1>3. job' = [job EXCEPT ![r] = [step |-> step, result |-> result]] BY DEF Classify, Judged
<1>4. job'[r].step = step /\ job'[r].result = result /\ said'[r] = action
  BY <1>1, <1>3 DEF ToneIInv, ToneTyped
<1>5. LeftToModel(r)' BY <1>1 DEF LeftToModel
<1>6. action \in {"allow", "block", "suggest_rewrite", "uncertain"} BY DEF Actions
<1>7. CASE action \in {"allow", "block"}
  <2>1. Grounded(r, result)' BY <1>4, <1>5, <1>7 DEF Grounded, Result, LeftToModel
  <2>2. JobSound(r)' BY <1>1, <1>4, <1>7, <2>1 DEF JobSound
  <2> HIDE DEF result, step
  <2> QED BY <1>1, <1>2, <1>3, <2>2, JobNow, JobMoves
<1>8. CASE action \notin {"allow", "block"}
  <2>1. JobSound(r)' BY <1>1, <1>4, <1>5, <1>6, <1>8 DEF JobSound
  <2> HIDE DEF result, step
  <2> QED BY <1>1, <1>2, <1>3, <2>1, JobNow, JobMoves
<1> QED BY <1>7, <1>8

\* Whatever fails becomes an "uncertain", never an "allow".
LEMMA ClassifyFailsSound == ASSUME ToneIInv, NEW r \in Drafts, ClassifyFails(r) PROVE ToneIInv'
<1> DEFINE result == Result("uncertain", FALSE, <<>>, TRUE)
<1>1. /\ job[r].step = "asking" /\ said[r] = None /\ LeftToModel(r)
      /\ Judged(r, result) /\ UNCHANGED <<traits, said, verdicts>>
  BY JobNow DEF ClassifyFails, JobSound
<1>2. result \in ToneResults BY ResultTyped DEF Actions
<1>3. said[r] # "block"
  <2>1. "block" \in Actions BY DEF Actions
  <2> QED BY <1>1, <2>1, ActionsAssumption
<1>4. Grounded(r, result) BY <1>1, <1>3 DEF Grounded, Result, LeftToModel
<1> HIDE DEF result
<1> QED BY <1>1, <1>2, <1>4, JudgedSound

LEMMA RewriteSound ==
  ASSUME ToneIInv, NEW r \in Drafts, RewriteFails(r) \/ \E raw \in RawAnswers : Rewrite(r, raw)
  PROVE  ToneIInv'
<1>1. /\ job[r].step = "rewriting" /\ LeftToModel(r)
      /\ said[r] \in {"suggest_rewrite", "uncertain"}
      /\ job[r].result = Result(said[r], FALSE, <<>>, FALSE)
      /\ job[r].result \in ToneResults
      /\ UNCHANGED <<traits, said, verdicts>>
  BY JobNow DEF RewriteFails, Rewrite, JobSound
<1>2. ASSUME NEW raw \in RawAnswers, Rewrite(r, raw) PROVE ToneIInv'
  <2> DEFINE list == NormalizeSuggestions(raw)
             result == [job[r].result EXCEPT !.suggestions = list]
  <2>1. WorthShowing(list) BY SuggestionsWorthShowing
  <2>2. list \in {s \in Seq(Range(Trimmed) \ {Blank}) : WorthShowing(s)}
    BY <2>1 DEF WorthShowing
  <2> HIDE DEF list
  <2>3. result \in ToneResults BY <1>1, <2>2 DEF ToneResults
  <2>4. Judged(r, result) BY <1>2 DEF Rewrite, list
  <2>5. result.action = said[r] BY <1>1 DEF Result
  <2>6. Grounded(r, result) BY <1>1, <2>5 DEF Grounded, LeftToModel
  <2> HIDE DEF result
  <2> QED BY <1>1, <2>3, <2>4, <2>6, JudgedSound
<1>3. CASE RewriteFails(r)
  <2> DEFINE result == [job[r].result EXCEPT !.error = TRUE]
  <2>1. result \in ToneResults BY <1>1 DEF ToneResults
  <2>2. Judged(r, result) BY <1>3 DEF RewriteFails
  <2>3. result.action = said[r] BY <1>1 DEF Result
  <2>4. Grounded(r, result) BY <1>1, <2>3 DEF Grounded, LeftToModel
  <2> HIDE DEF result
  <2> QED BY <1>1, <2>1, <2>2, <2>4, JudgedSound
<1> QED BY <1>2, <1>3

\* A dry run that is over, with what its row says.
LEMMA OverMoves ==
  ASSUME ToneIInv, NEW r \in Drafts, NEW verdict \in ToneResults \cup {None},
         verdict # None => Grounded(r, verdict), job' = [job EXCEPT ![r].step = "over"],
         verdicts' = [verdicts EXCEPT ![r] = verdict], UNCHANGED <<traits, said>>
  PROVE  ToneIInv'
<1>1. /\ job[r] \in [step : ToneSteps, result : ToneResults]
      /\ said[r] \in Actions \cup {None} /\ said = [said EXCEPT ![r] = said[r]]
  BY JobNow
<1>2. job' = [job EXCEPT ![r] = [step |-> "over", result |-> job[r].result]]
  <2>1. [job[r] EXCEPT !.step = "over"] = [step |-> "over", result |-> job[r].result]
    BY <1>1
  <2> QED BY <2>1
<1>3. job'[r].step = "over" /\ verdicts'[r] = verdict
  BY <1>2 DEF ToneIInv, ToneTyped
<1>4. verdict # None => Grounded(r, verdict)' BY DEF Grounded
<1>5. JobSound(r)' BY <1>3, <1>4 DEF JobSound
<1>6. "over" \in ToneSteps /\ job[r].result \in ToneResults BY <1>1 DEF ToneSteps
<1>7. said' = [said EXCEPT ![r] = said[r]] BY <1>1
<1> QED BY <1>1, <1>2, <1>5, <1>6, <1>7, JobMoves

LEMMA OverSound == ASSUME ToneIInv, NEW r \in Drafts, Record(r) \/ Forget(r) PROVE ToneIInv'
<1>1. /\ job[r] \in [step : ToneSteps, result : ToneResults] /\ JobSound(r)
      /\ verdicts[r] \in ToneResults \cup {None}
      /\ verdicts = [verdicts EXCEPT ![r] = verdicts[r]]
  BY JobNow
<1>2. CASE Record(r)
  <2>1. job[r].result \in ToneResults /\ Grounded(r, job[r].result)
    BY <1>1, <1>2 DEF Record, JobSound
  <2> QED BY <1>2, <2>1, OverMoves DEF Record
<1>3. CASE Forget(r)
  <2>1. verdicts' = [verdicts EXCEPT ![r] = verdicts[r]] BY <1>1, <1>3 DEF Forget
  <2>2. verdicts[r] # None => Grounded(r, verdicts[r]) BY <1>1 DEF JobSound
  <2> QED BY <1>1, <1>3, <2>1, <2>2, OverMoves DEF Forget
<1> QED BY <1>2, <1>3

LEMMA ToneNextSound == ToneIInv /\ [ToneNext]_toneVars => ToneIInv'
<1> SUFFICES ASSUME ToneIInv, [ToneNext]_toneVars PROVE ToneIInv' OBVIOUS
<1>1. CASE UNCHANGED toneVars
  BY <1>1 DEF toneVars, ToneIInv, ToneTyped, JobSound, Grounded, LeftToModel
<1>2. CASE ToneNext
  <2>1. PICK r \in Drafts :
          \/ Moderate(r) \/ ClassifyFails(r) \/ RewriteFails(r) \/ Record(r) \/ Forget(r)
          \/ \E action \in Actions : Classify(r, action)
          \/ \E raw \in RawAnswers : Rewrite(r, raw)
    BY <1>2 DEF ToneNext
  <2> QED
    BY <2>1, ModerateSound, ClassifySound, ClassifyFailsSound, RewriteSound, OverSound
<1> QED BY <1>1, <1>2

LEMMA ToneInvariant == ToneSpec => []ToneIInv
BY ToneInitSound, ToneNextSound, PTL DEF ToneSpec

\* A logged verdict has a ground, whatever fails, times out or restarts on the way, and its
\* suggestions are worth showing (ReplyContentModerationService.moderate).
THEOREM VerdictsHaveGround == ToneSpec => []VerdictHasGround
<1>1. ToneIInv => VerdictHasGround
  <2> SUFFICES ASSUME ToneIInv, NEW r \in Drafts, verdicts[r] # None
               PROVE  LET row == verdicts[r] t == traits[r] IN
                      /\ row.action = "allow" => Excluded(t) \/ said[r] = "allow"
                      /\ row.action = "block" <=>
                             ~Excluded(t) /\ (HardBlocked(t) \/ said[r] = "block")
                      /\ Excluded(t) \/ HardBlocked(t) => said[r] = None
                      /\ row.suggestions # <<>> => row.action \in {"suggest_rewrite", "uncertain"}
                      /\ Len(row.suggestions) <= MaxSuggestions
                      /\ Range(row.suggestions) \subseteq Range(Trimmed) \ {Blank}
                      /\ IsInjective(row.suggestions)
    BY DEF VerdictHasGround
  <2>1. verdicts[r] \in ToneResults /\ Grounded(r, verdicts[r]) BY JobNow DEF JobSound
  <2>2. WorthShowing(verdicts[r].suggestions) BY <2>1 DEF ToneResults
  <2>3. Range(verdicts[r].suggestions) \subseteq Range(Trimmed) \ {Blank}
    <3>1. verdicts[r].suggestions \in Seq(Range(Trimmed) \ {Blank}) BY <2>2 DEF WorthShowing
    <3> QED BY <3>1 DEF Range
  <2> QED BY <2>1, <2>2, <2>3 DEF Grounded, WorthShowing
<1> QED BY <1>1, ToneInvariant, PTL

---------------------------------------------------------------------------
(* The five side by side *)

\* Whatever the components share a run with, each of them behaves as it specifies: what
\* is proved of one holds of what the run explores.
LEMMA MembersRunSignIn == MembersSpec => Spec
<1>1. MembersInit => Init BY DEF MembersInit
<1>2. [MembersNext]_<<component, vars, retentionVars, savingVars,
                      composingVars, toneVars>> => [Next]_vars
  BY DEF MembersNext
<1> QED BY <1>1, <1>2, PTL DEF MembersSpec, Spec

LEMMA MembersRunRetention == MembersSpec => RetentionSpec
<1>1. MembersInit => RetentionInit BY DEF MembersInit
<1>2. [MembersNext]_<<component, vars, retentionVars, savingVars,
                      composingVars, toneVars>> => [RetentionNext]_retentionVars
  BY DEF MembersNext
<1> QED BY <1>1, <1>2, PTL DEF MembersSpec, RetentionSpec

LEMMA MembersRunSaving == MembersSpec => SavingSpec
<1>1. MembersInit => SavingInit BY DEF MembersInit
<1>2. [MembersNext]_<<component, vars, retentionVars, savingVars,
                      composingVars, toneVars>> => [SavingNext]_savingVars
  BY DEF MembersNext
<1> QED BY <1>1, <1>2, PTL DEF MembersSpec, SavingSpec

LEMMA MembersRunComposing == MembersSpec => ComposingSpec
<1>1. MembersInit => ComposingInit BY DEF MembersInit
<1>2. [MembersNext]_<<component, vars, retentionVars, savingVars,
                      composingVars, toneVars>> => [ComposingNext]_composingVars
  BY DEF MembersNext
<1> QED BY <1>1, <1>2, PTL DEF MembersSpec, ComposingSpec

LEMMA MembersRunTone == MembersSpec => ToneSpec
<1>1. MembersInit => ToneInit BY DEF MembersInit
<1>2. [MembersNext]_<<component, vars, retentionVars, savingVars,
                      composingVars, toneVars>> => [ToneNext]_toneVars
  BY DEF MembersNext
<1> QED BY <1>1, <1>2, PTL DEF MembersSpec, ToneSpec

\* Side by side, each component's state stays one of its types, for the component a
\* behaviour has picked and for the others.
THEOREM MembersTypeSound == MembersSpec => []MembersTypeOK
<1>1. /\ TypeOK /\ RetentionTypeOK /\ SavingTypeOK /\ ComposingTypeOK
      /\ component \in {"sign-in", "retention", "saving", "composing", "tone"}
      => MembersTypeOK
  BY DEF MembersTypeOK
<1>2. MembersSpec => [](component \in {"sign-in", "retention", "saving", "composing", "tone"})
  <2>1. MembersInit => component \in {"sign-in", "retention", "saving", "composing", "tone"}
    BY DEF MembersInit
  <2>2. component \in {"sign-in", "retention", "saving", "composing", "tone"}
        /\ [MembersNext]_<<component, vars, retentionVars, savingVars,
                           composingVars, toneVars>>
        => (component \in {"sign-in", "retention", "saving", "composing", "tone"})'
    BY DEF MembersNext
  <2> QED BY <2>1, <2>2, PTL DEF MembersSpec
<1> QED
  BY <1>1, <1>2, MembersRunSignIn, MembersRunRetention, MembersRunSaving, MembersRunComposing, TypeCorrect, RetentionTypeSound, SavingTypeSound, ComposingTypeSound, PTL

=============================================================================
