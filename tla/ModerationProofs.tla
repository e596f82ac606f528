------------------------- MODULE ModerationProofs -------------------------
(***************************************************************************)
(* Proofs about Moderation for any numbers of targets, users, handlers and *)
(* restores and any threshold.                                             *)
(*                                                                         *)
(* NoLostAutoHide and HideIsJustified are not inductive: what a handler    *)
(* counted has to be related to the reports table while the table and the  *)
(* last restore move on under it.  IInv says how.                          *)
(***************************************************************************)
EXTENDS Moderation, FiniteSetTheorems, FunctionTheorems, TLAPS

---------------------------------------------------------------------------
(* The inductive invariant *)

\* Every report was stamped before now.
ReportsStamped ==
  /\ IsFiniteSet(reports)
  /\ now >= 1
  /\ \A r \in reports : 1 <= r.at /\ r.at < now
  /\ evaluated \subseteq reports

\* The stamp a review writes is older than the moment it takes effect, so a
\* report made after that moment is inside the window the stamp opens.
ReviewsStamped ==
  /\ \A t \in Targets :
       /\ restoredAt[t] <= now
       /\ content[t].reviewedAt = 0 \/ content[t].reviewedAt < restoredAt[t]
  /\ \A v \in Reviews :
       review[v].pc = "stamped" => review[v].target \in Targets /\ review[v].stamp < now

Started(c) ==
  call[c].pc # "idle" =>
    /\ call[c].target \in Targets
    /\ call[c].reporter \in Users
    /\ call[c].since = 0 \/ call[c].since < restoredAt[call[c].target]

Inserted(c) == call[c].pc \in {"inserted", "counted"} => Row(c) \in reports

\* A count is still covered by the reports table, and still covers the reports
\* that were made after the last restore and up to the handler's own.
Counted(c) ==
  call[c].pc = "counted" =>
    /\ call[c].count <= Cardinality(ReportsSince(call[c].target, call[c].since))
    /\ call[c].at >= restoredAt[call[c].target] =>
         Cardinality(FreshUpTo(call[c].target, call[c].at)) <= call[c].count

CallsSound == \A c \in Calls : Started(c) /\ Inserted(c) /\ Counted(c)

IInv ==
  /\ TypeOK
  /\ ReportsStamped
  /\ ReviewsStamped
  /\ CallsSound
  /\ RowsAreReporters
  /\ NoLostAutoHide

---------------------------------------------------------------------------
(* Lemmas *)

\* Windows of a finite reports table are finite, and a smaller window does not
\* hold more reports.
LEMMA Windows ==
  ASSUME NEW S, IsFiniteSet(S), NEW T, T \subseteq S
  PROVE  /\ IsFiniteSet(T)
         /\ Cardinality(T) \in Nat
         /\ Cardinality(S) \in Nat
         /\ Cardinality(T) <= Cardinality(S)
BY FS_Subset, FS_CardinalityType

LEMMA WindowSizes ==
  ASSUME IsFiniteSet(reports)
  PROVE  \A t, n : /\ Cardinality(ReportsSince(t, n)) \in Nat
                   /\ Cardinality(FreshUpTo(t, n)) \in Nat
<1> TAKE t, n
<1>1. ReportsSince(t, n) \subseteq reports /\ FreshUpTo(t, n) \subseteq reports
  BY DEF ReportsSince, FreshUpTo
<1> QED BY <1>1, Windows

\* A handler's own window covers the reports made since the last restore.
LEMMA WindowCoversFresh ==
  ASSUME IInv, NEW c \in Calls, call[c].pc # "idle", NEW n
  PROVE  Cardinality(FreshUpTo(call[c].target, n))
           <= Cardinality(ReportsSince(call[c].target, call[c].since))
<1>1. call[c].target \in Targets
      /\ (call[c].since = 0 \/ call[c].since < restoredAt[call[c].target])
  BY DEF IInv, CallsSound, Started
<1>2. /\ call[c].since \in Nat /\ restoredAt[call[c].target] \in Nat
      /\ \A r \in reports : r.at \in Nat /\ r.at >= 1
  BY <1>1 DEF IInv, TypeOK, CallState, Report, ReportsStamped
<1>3. FreshUpTo(call[c].target, n) \subseteq ReportsSince(call[c].target, call[c].since)
  BY <1>1, <1>2 DEF FreshUpTo, ReportsSince
<1>4. ReportsSince(call[c].target, call[c].since) \subseteq reports
  BY DEF ReportsSince
<1>5. IsFiniteSet(ReportsSince(call[c].target, call[c].since))
  BY <1>4, Windows DEF IInv, ReportsStamped
<1> QED BY <1>3, <1>5, Windows

---------------------------------------------------------------------------
(* Every step preserves IInv *)

LEMMA InitInv == Init => IInv
<1> SUFFICES ASSUME Init PROVE IInv OBVIOUS
<1> USE ThresholdAssumption, MaxRestoresAssumption DEF Init
<1>1. TypeOK BY DEF TypeOK, Content, CallState, ReviewState, IdleCall, IdleReview
<1>2. ReportsStamped BY FS_EmptySet DEF ReportsStamped
<1>3. ReviewsStamped BY DEF ReviewsStamped, IdleReview
<1>4. CallsSound BY DEF CallsSound, Started, Inserted, Counted, IdleCall
<1>5. RowsAreReporters BY DEF RowsAreReporters
<1>6. NoLostAutoHide BY DEF NoLostAutoHide
<1> QED BY <1>1, <1>2, <1>3, <1>4, <1>5, <1>6 DEF IInv

\* A handler is as sound as before when neither it, nor the reports, nor the
\* last restores change.
LEMMA CallUntouched ==
  ASSUME IInv, NEW d \in Calls, call'[d] = call[d],
         UNCHANGED <<reports, restoredAt>>
  PROVE  (Started(d) /\ Inserted(d) /\ Counted(d))'
<1>1. Started(d) /\ Inserted(d) /\ Counted(d) BY DEF IInv, CallsSound
<1>2. Row(d)' = Row(d) BY DEF Row
<1>4. Started(d)' BY <1>1 DEF Started
<1>5. Inserted(d)' BY <1>1, <1>2 DEF Inserted
<1>6. ReportsSince(call[d].target, call[d].since)' = ReportsSince(call[d].target, call[d].since)
  BY DEF ReportsSince
<1>7. FreshUpTo(call[d].target, call[d].at)' = FreshUpTo(call[d].target, call[d].at)
  BY DEF FreshUpTo
<1>8. Counted(d)' BY <1>1, <1>6, <1>7 DEF Counted
<1> QED BY <1>4, <1>5, <1>8

LEMMA ReadTargetInv ==
  ASSUME IInv, NEW c \in Calls, NEW t \in Targets, NEW u \in Users, ReadTarget(c, t, u)
  PROVE  IInv'
<1> USE DEF IInv, ReadTarget
<1>1. TypeOK' BY DEF TypeOK, Content, CallState
<1>2. ReportsStamped' BY DEF ReportsStamped
<1>3. ReviewsStamped' BY DEF ReviewsStamped
<1>4. CallsSound'
  <2> SUFFICES ASSUME NEW d \in Calls PROVE (Started(d) /\ Inserted(d) /\ Counted(d))'
    BY DEF CallsSound
  <2>1. CASE d = c
    BY <2>1 DEF Started, Inserted, Counted, ReviewsStamped, TypeOK
  <2>2. CASE d # c
    <3>1. call'[d] = call[d] BY <2>2 DEF TypeOK
    <3> QED BY <3>1, CallUntouched
  <2> QED BY <2>1, <2>2
<1>5. RowsAreReporters' BY DEF RowsAreReporters
<1>6. NoLostAutoHide' BY DEF NoLostAutoHide, FreshUpTo
<1> QED BY <1>1, <1>2, <1>3, <1>4, <1>5, <1>6

\* A handler that moves to "unreported" or answers early disturbs nothing else.
LEMMA CheckDuplicateInv ==
  ASSUME IInv, NEW c \in Calls, CheckDuplicate(c) \/ CallFails(c)
  PROVE  IInv'
<1> USE DEF IInv, CheckDuplicate, CallFails
<1>1. TypeOK' BY DEF TypeOK, CallState, IdleCall
<1>2. ReportsStamped' BY DEF ReportsStamped
<1>3. ReviewsStamped' BY DEF ReviewsStamped
<1>4. CallsSound'
  <2> SUFFICES ASSUME NEW d \in Calls PROVE (Started(d) /\ Inserted(d) /\ Counted(d))'
    BY DEF CallsSound
  <2>1. CASE d = c
    BY <2>1 DEF CallsSound, Started, Inserted, Counted, TypeOK, CallState, IdleCall
  <2>2. CASE d # c
    <3>1. call'[d] = call[d] BY <2>2 DEF TypeOK
    <3> QED BY <3>1, CallUntouched
  <2> QED BY <2>1, <2>2
<1>5. RowsAreReporters' BY DEF RowsAreReporters
<1>6. NoLostAutoHide' BY DEF NoLostAutoHide, FreshUpTo
<1> QED BY <1>1, <1>2, <1>3, <1>4, <1>5, <1>6

\* A new report is stamped later than all others, so it enters the windows of
\* the handlers that still have to count and none up to an earlier stamp.
LEMMA InsertReportInv ==
  ASSUME IInv, NEW c \in Calls, InsertReport(c)
  PROVE  IInv'
<1> USE DEF IInv
<1>1. CASE ReportedBy(call[c].target, call[c].reporter)
  <2>1. CallFails(c) BY <1>1 DEF InsertReport, CallFails
  <2> QED BY <2>1, CheckDuplicateInv
<1>2. CASE ~ReportedBy(call[c].target, call[c].reporter)
  <2> DEFINE new == [target |-> call[c].target, reporter |-> call[c].reporter, at |-> now]
  <2>1. /\ call[c].pc = "unreported"
        /\ reports' = reports \cup {new}
        /\ now' = now + 1
        /\ call' = [call EXCEPT ![c].pc = "inserted", ![c].at = now]
        /\ UNCHANGED <<content, review, restores, evaluated, restoredAt>>
    BY <1>2 DEF InsertReport
  <2>2. call[c].target \in Targets /\ call[c].reporter \in Users
    BY <2>1 DEF CallsSound, Started
  <2>3. now \in Nat /\ new \in Report BY <2>2 DEF Report, TypeOK
  <2> HIDE DEF new
  <2>4. TypeOK'
    <3>1. [call[c] EXCEPT !.pc = "inserted", !.at = now] \in CallState
      BY <2>3 DEF TypeOK, CallState
    <3>2. call' = [call EXCEPT ![c] = [call[c] EXCEPT !.pc = "inserted", !.at = now]]
      BY <2>1
    <3>3. call' \in [Calls -> CallState] BY <3>1, <3>2 DEF TypeOK
    <3> QED BY <2>1, <2>3, <3>3 DEF TypeOK
  <2>5. ReportsStamped'
    <3>1. IsFiniteSet(reports') BY <2>1, FS_AddElement DEF ReportsStamped
    <3>2. \A r \in reports' : 1 <= r.at /\ r.at < now'
      BY <2>1, <2>3 DEF ReportsStamped, TypeOK, Report, new
    <3> QED BY <3>1, <3>2, <2>1, <2>3 DEF ReportsStamped
  <2>6. ReviewsStamped' BY <2>1, <2>3 DEF ReviewsStamped, TypeOK, Content, ReviewState
  <2>7. CallsSound'
    <3> SUFFICES ASSUME NEW d \in Calls PROVE (Started(d) /\ Inserted(d) /\ Counted(d))'
      BY DEF CallsSound
    <3>1. CASE d = c
      <4>1. /\ call'[d] = [call[c] EXCEPT !.pc = "inserted", !.at = now]
            /\ call[c] \in CallState
        BY <2>1, <3>1 DEF TypeOK
      <4>2. Row(d)' = new BY <4>1 DEF Row, new, CallState
      <4>3. Inserted(d)' BY <4>2, <2>1 DEF Inserted
      <4>4. Started(d)'
        BY <4>1, <2>1 DEF Started, CallsSound, CallState
      <4>5. Counted(d)' BY <4>1 DEF Counted, CallState
      <4> QED BY <4>3, <4>4, <4>5
    <3>2. CASE d # c
      <4>1. call'[d] = call[d] /\ call[d] \in CallState BY <2>1, <3>2 DEF TypeOK
      <4>2. Started(d) /\ Inserted(d) /\ Counted(d) BY DEF CallsSound
      <4>3. Started(d)' BY <4>1, <4>2, <2>1 DEF Started
      <4>4. Inserted(d)' BY <4>1, <4>2, <2>1 DEF Inserted, Row
      <4>5. Counted(d)'
        <5> SUFFICES ASSUME call[d].pc = "counted" PROVE Counted(d)'
          BY <4>1 DEF Counted
        <5>1. /\ ReportsSince(call[d].target, call[d].since)' =
                 {r \in reports' : r.target = call[d].target /\ r.at > call[d].since}
              /\ FreshUpTo(call[d].target, call[d].at)' =
                 {r \in reports' : r.target = call[d].target
                     /\ r.at >= restoredAt[call[d].target] /\ r.at <= call[d].at}
          BY <4>1, <2>1 DEF ReportsSince, FreshUpTo
        <5>2. call[d].at \in Nat /\ call[d].at < now /\ call[d].target \in Targets
          BY <4>1, <4>2 DEF Started, Inserted, Row, ReportsStamped, CallState
        <5>3. FreshUpTo(call[d].target, call[d].at)' = FreshUpTo(call[d].target, call[d].at)
          <6>1. new.at = now BY DEF new
          <6>2. \A r \in reports' : r.at <= call[d].at => r \in reports
            BY <6>1, <5>2, <2>1, <2>3
          <6> QED BY <6>2, <5>1, <2>1 DEF FreshUpTo
        <5>4. /\ ReportsSince(call[d].target, call[d].since)
                   \subseteq ReportsSince(call[d].target, call[d].since)'
              /\ ReportsSince(call[d].target, call[d].since)' \subseteq reports'
          BY <5>1, <2>1 DEF ReportsSince
        <5>5. IsFiniteSet(ReportsSince(call[d].target, call[d].since)')
          BY <5>4, <2>5, Windows DEF ReportsStamped
        <5>6. /\ Cardinality(ReportsSince(call[d].target, call[d].since))
                   <= Cardinality(ReportsSince(call[d].target, call[d].since)')
              /\ Cardinality(ReportsSince(call[d].target, call[d].since)) \in Nat
              /\ Cardinality(ReportsSince(call[d].target, call[d].since)') \in Nat
          BY <5>4, <5>5, Windows
        <5>7. call[d].count \in Nat BY <4>1 DEF CallState
        <5>8. Cardinality(ReportsSince(call[d].target, call[d].since))' =
                Cardinality(ReportsSince(call[d].target, call[d].since)')
          OBVIOUS
        <5>9. call[d].count <= Cardinality(ReportsSince(call[d].target, call[d].since))'
          BY <5>6, <5>7, <5>8, <4>2 DEF Counted
        <5> QED BY <5>3, <5>9, <4>1, <4>2, <2>1 DEF Counted
      <4> QED BY <4>3, <4>4, <4>5
    <3> QED BY <3>1, <3>2
  <2>8. RowsAreReporters'
    BY <1>2, <2>1 DEF RowsAreReporters, ReportedBy, new
  <2>9. NoLostAutoHide'
    <3> SUFFICES ASSUME NEW t \in Targets, ~content[t].hidden, NEW r \in evaluated,
                        r.target = t, r.at >= restoredAt[t]
                 PROVE  Cardinality(FreshUpTo(t, r.at)') < Threshold
      BY <2>1 DEF NoLostAutoHide
    <3>1. r.at \in Nat /\ r.at < now BY DEF ReportsStamped, TypeOK, Report
    <3>2. FreshUpTo(t, r.at)' = FreshUpTo(t, r.at)
      BY <2>1, <2>3, <3>1 DEF FreshUpTo, new
    <3> QED BY <3>2 DEF NoLostAutoHide
  <2> QED BY <2>4, <2>5, <2>6, <2>7, <2>8, <2>9
<1> QED BY <1>1, <1>2

LEMMA CountReportersInv ==
  ASSUME IInv, NEW c \in Calls, CountReporters(c)
  PROVE  IInv'
<1> USE DEF IInv, CountReporters
<1> DEFINE n == Cardinality(ReportsSince(call[c].target, call[c].since))
<1>1. n \in Nat BY WindowSizes DEF ReportsStamped
<1>2. /\ call' = [call EXCEPT ![c] = [call[c] EXCEPT !.pc = "counted", !.count = n]]
      /\ call[c] \in CallState
  BY DEF TypeOK
<1>3. TypeOK'
  <2>1. [call[c] EXCEPT !.pc = "counted", !.count = n] \in CallState
    BY <1>1, <1>2 DEF CallState
  <2> QED BY <2>1, <1>2 DEF TypeOK
<1>4. ReportsStamped' BY DEF ReportsStamped
<1>5. ReviewsStamped' BY DEF ReviewsStamped
<1>6. CallsSound'
  <2> SUFFICES ASSUME NEW d \in Calls PROVE (Started(d) /\ Inserted(d) /\ Counted(d))'
    BY DEF CallsSound
  <2>1. CASE d = c
    <3>1. call'[c] = [call[c] EXCEPT !.pc = "counted", !.count = n]
      BY <1>2 DEF TypeOK
    <3>2. Started(d)' BY <2>1, <3>1, <1>2 DEF Started, CallsSound, CallState
    <3>3. Inserted(d)' BY <2>1, <3>1, <1>2 DEF Inserted, Row, CallsSound, CallState
    <3>3a. /\ call'[c].target = call[c].target
           /\ call'[c].since = call[c].since
           /\ call'[c].at = call[c].at
      BY <3>1, <1>2 DEF CallState
    <3>4. ReportsSince(call[c].target, call[c].since)'
            = ReportsSince(call[c].target, call[c].since)
      BY <3>3a DEF ReportsSince
    <3>5. FreshUpTo(call[c].target, call[c].at)' = FreshUpTo(call[c].target, call[c].at)
      BY <3>3a DEF FreshUpTo
    <3>6. Cardinality(FreshUpTo(call[c].target, call[c].at)) <= n
      BY WindowCoversFresh
    <3>7. call'[c].count = n BY <3>1, <1>2 DEF CallState
    <3>8. Counted(d)' BY <2>1, <3>4, <3>5, <3>6, <3>7, <1>1 DEF Counted
    <3> QED BY <3>2, <3>3, <3>8
  <2>2. CASE d # c
    <3>1. call'[d] = call[d] BY <2>2 DEF TypeOK
    <3> QED BY <3>1, CallUntouched
  <2> QED BY <2>1, <2>2
<1>7. RowsAreReporters' BY DEF RowsAreReporters
<1>8. NoLostAutoHide' BY DEF NoLostAutoHide, FreshUpTo
<1> QED BY <1>3, <1>4, <1>5, <1>6, <1>7, <1>8

\* The handler either hides its target, or saw fewer than Threshold reports in
\* a window that covers all those made since the last restore.
LEMMA EvaluateAutoHideInv ==
  ASSUME IInv, NEW c \in Calls, EvaluateAutoHide(c)
  PROVE  IInv'
<1> USE DEF IInv
<1>1. /\ call[c].pc = "counted" /\ call[c] \in CallState
      /\ call' = [call EXCEPT ![c] = IdleCall]
      /\ evaluated' = evaluated \cup {Row(c)}
      /\ UNCHANGED <<reports, now, review, restores, restoredAt>>
  BY DEF EvaluateAutoHide, TypeOK
<1>2. Row(c) \in reports /\ call[c].target \in Targets
  BY <1>1 DEF CallsSound, Inserted, Started
<1>3. /\ content' \in [Targets -> Content]
      /\ \A t \in Targets : content'[t].reviewedAt = content[t].reviewedAt
      /\ \A t \in Targets : content[t].hidden => content'[t].hidden
      /\ ~content'[call[c].target].hidden => call[c].count < Threshold
  <2>1. CASE call[c].count >= Threshold
    <3>1. content' = [content EXCEPT ![call[c].target]
                        = [content[call[c].target] EXCEPT !.hidden = TRUE]]
      BY <2>1, <1>1, ThresholdAssumption DEF EvaluateAutoHide, CallState
    <3>2. [content[call[c].target] EXCEPT !.hidden = TRUE] \in Content
      BY <1>2 DEF TypeOK, Content
    <3>3. content' \in [Targets -> Content] BY <3>1, <3>2 DEF TypeOK
    <3>4. \A t \in Targets : /\ content'[t].reviewedAt = content[t].reviewedAt
                             /\ content[t].hidden => content'[t].hidden
      BY <3>1, <1>2 DEF TypeOK, Content
    <3>5. content'[call[c].target].hidden BY <3>1, <1>2 DEF TypeOK, Content
    <3> QED BY <3>3, <3>4, <3>5
  <2>2. CASE call[c].count < Threshold
    BY <2>2, <1>1, ThresholdAssumption DEF EvaluateAutoHide, TypeOK, CallState
  <2> QED BY <2>1, <2>2, <1>1, ThresholdAssumption DEF CallState
<1>4. TypeOK' BY <1>1, <1>2, <1>3 DEF TypeOK, CallState, IdleCall
<1>5. ReportsStamped' BY <1>1, <1>2 DEF ReportsStamped
<1>6. ReviewsStamped' BY <1>1, <1>3 DEF ReviewsStamped
<1>7. CallsSound'
  <2> SUFFICES ASSUME NEW d \in Calls PROVE (Started(d) /\ Inserted(d) /\ Counted(d))'
    BY DEF CallsSound
  <2>1. CASE d = c
    <3>1. call'[c].pc = "idle" BY <1>1 DEF TypeOK, IdleCall
    <3> QED BY <2>1, <3>1 DEF Started, Inserted, Counted
  <2>2. CASE d # c
    <3>1. call'[d] = call[d] BY <2>2, <1>1 DEF TypeOK
    <3> QED BY <3>1, <1>1, CallUntouched
  <2> QED BY <2>1, <2>2
<1>8. RowsAreReporters' BY <1>1 DEF RowsAreReporters
<1>9. NoLostAutoHide'
  <2> SUFFICES ASSUME NEW t \in Targets, ~content'[t].hidden, NEW r \in evaluated',
                      r.target = t, r.at >= restoredAt[t]
               PROVE  Cardinality(FreshUpTo(t, r.at)') < Threshold
    BY <1>1 DEF NoLostAutoHide
  <2>1. FreshUpTo(t, r.at)' = FreshUpTo(t, r.at) BY <1>1 DEF FreshUpTo
  <2>2. CASE r \in evaluated
    <3>1. ~content[t].hidden BY <1>3
    <3> QED BY <2>1, <2>2, <3>1 DEF NoLostAutoHide
  <2>3. CASE r = Row(c)
    <3>1. call[c].target = t /\ call[c].at = r.at BY <2>3 DEF Row
    <3>2. Cardinality(FreshUpTo(t, r.at)) <= call[c].count
      BY <1>1, <3>1 DEF CallsSound, Counted
    <3>3. call[c].count < Threshold BY <3>1, <1>3
    <3>4. /\ Cardinality(FreshUpTo(t, r.at)) \in Nat
          /\ call[c].count \in Nat /\ Threshold \in Nat
      BY WindowSizes, <1>1, ThresholdAssumption DEF ReportsStamped, CallState
    <3> QED BY <2>1, <3>2, <3>3, <3>4
  <2> QED BY <2>2, <2>3, <1>1
<1> QED BY <1>4, <1>5, <1>6, <1>7, <1>8, <1>9

LEMMA StampRestoreInv ==
  ASSUME IInv, NEW v \in Reviews, NEW t \in Targets, StampRestore(v, t)
  PROVE  IInv'
<1> USE MaxRestoresAssumption DEF IInv, StampRestore
<1>1. TypeOK' BY DEF TypeOK, ReviewState
<1>2. ReportsStamped' BY DEF ReportsStamped, TypeOK, Report
<1>3. ReviewsStamped' BY DEF ReviewsStamped, TypeOK, Content, ReviewState
<1>4. CallsSound'
  <2>1. ASSUME NEW d \in Calls PROVE (Started(d) /\ Inserted(d) /\ Counted(d))'
    BY CallUntouched
  <2> QED BY <2>1 DEF CallsSound
<1>5. RowsAreReporters' BY DEF RowsAreReporters
<1>6. NoLostAutoHide' BY DEF NoLostAutoHide, FreshUpTo
<1> QED BY <1>1, <1>2, <1>3, <1>4, <1>5, <1>6

\* A restore starts an empty window for its target: every report made so far,
\* counted or evaluated, is older than the restore.
LEMMA WriteRestoreInv ==
  ASSUME IInv, NEW v \in Reviews, WriteRestore(v)
  PROVE  IInv'
<1> USE DEF IInv
<1> DEFINE t == review[v].target
           s == review[v].stamp
<1>1. /\ review[v].pc = "stamped"
      /\ content' = [content EXCEPT ![t] =
           [content[t] EXCEPT !.hidden = FALSE, !.reviewedAt = s]]
      /\ restoredAt' = [restoredAt EXCEPT ![t] = now]
      /\ review' = [review EXCEPT ![v] = IdleReview]
      /\ UNCHANGED <<reports, now, call, restores, evaluated>>
  BY DEF WriteRestore
<1>2. t \in Targets /\ s \in Nat /\ s < now /\ now \in Nat
  BY <1>1 DEF ReviewsStamped, TypeOK, ReviewState
<1> HIDE DEF t, s
<1>3. /\ content' \in [Targets -> Content]
      /\ content'[t].reviewedAt = s
      /\ \A q \in Targets \ {t} : content'[q] = content[q]
  <2>1. [content[t] EXCEPT !.hidden = FALSE, !.reviewedAt = s] \in Content
    BY <1>2 DEF TypeOK, Content
  <2> QED BY <2>1, <1>1, <1>2 DEF TypeOK, Content
<1>4. /\ restoredAt'[t] = now
      /\ \A q \in Targets \ {t} : restoredAt'[q] = restoredAt[q]
      /\ \A q \in Targets : restoredAt[q] <= restoredAt'[q]
      /\ restoredAt' \in [Targets -> Nat]
  BY <1>1, <1>2 DEF TypeOK, ReviewsStamped
<1>5. TypeOK' BY <1>1, <1>3, <1>4 DEF TypeOK, ReviewState, IdleReview
<1>6. ReportsStamped' BY <1>1 DEF ReportsStamped
<1>7. ReviewsStamped'
  <2>1. \A q \in Targets : restoredAt'[q] <= now
    BY <1>2, <1>4 DEF ReviewsStamped, TypeOK
  <2>2. \A q \in Targets : content'[q].reviewedAt = 0 \/ content'[q].reviewedAt < restoredAt'[q]
    BY <1>2, <1>3, <1>4 DEF ReviewsStamped
  <2>3. \A w \in Reviews : review'[w].pc = "stamped" => review'[w] = review[w]
    BY <1>1 DEF TypeOK, IdleReview
  <2> QED BY <2>1, <2>2, <2>3, <1>1 DEF ReviewsStamped
<1>8. CallsSound'
  <2> SUFFICES ASSUME NEW d \in Calls PROVE (Started(d) /\ Inserted(d) /\ Counted(d))'
    BY DEF CallsSound
  <2>1. call'[d] = call[d] /\ call[d] \in CallState /\ Row(d)' = Row(d)
    BY <1>1 DEF TypeOK, Row
  <2>2. Started(d) /\ Inserted(d) /\ Counted(d) BY DEF CallsSound
  <2>3. Started(d)'
    <3>1. \A q \in Targets : restoredAt[q] \in Nat /\ restoredAt'[q] \in Nat
      BY <1>4 DEF TypeOK
    <3> QED BY <2>1, <2>2, <1>4, <3>1 DEF Started, CallState
  <2>4. Inserted(d)' BY <2>1, <2>2, <1>1 DEF Inserted
  <2>5. Counted(d)'
    <3> SUFFICES ASSUME call[d].pc = "counted" PROVE Counted(d)'
      BY <2>1 DEF Counted
    <3>1. ReportsSince(call[d].target, call[d].since)'
            = ReportsSince(call[d].target, call[d].since)
      BY <1>1 DEF ReportsSince
    <3>2. call[d].at < now /\ call[d].at \in Nat /\ call[d].target \in Targets
      BY <2>1, <2>2 DEF Inserted, Row, ReportsStamped, Started, CallState
    <3>3. CASE call[d].target = t
      <4>1. ~(call[d].at >= restoredAt'[t]) BY <3>2, <1>2, <1>4
      <4> QED BY <4>1, <3>1, <3>3, <2>1, <2>2, <1>1 DEF Counted
    <3>4. CASE call[d].target # t
      <4>1. restoredAt'[call[d].target] = restoredAt[call[d].target] BY <3>2, <3>4, <1>4
      <4>2. FreshUpTo(call[d].target, call[d].at)' = FreshUpTo(call[d].target, call[d].at)
        BY <4>1, <1>1 DEF FreshUpTo
      <4> QED BY <4>1, <4>2, <3>1, <2>1, <2>2, <1>1 DEF Counted
    <3> QED BY <3>3, <3>4
  <2> QED BY <2>3, <2>4, <2>5
<1>9. RowsAreReporters' BY <1>1 DEF RowsAreReporters
<1>10. NoLostAutoHide'
  <2> SUFFICES ASSUME NEW q \in Targets, ~content'[q].hidden, NEW r \in evaluated,
                      r.target = q, r.at >= restoredAt'[q]
               PROVE  Cardinality(FreshUpTo(q, r.at)') < Threshold
    BY <1>1 DEF NoLostAutoHide
  <2>1. r.at < now /\ r.at \in Nat BY DEF ReportsStamped, TypeOK, Report
  <2>2. q # t BY <2>1, <1>2, <1>4
  <2>3. restoredAt'[q] = restoredAt[q] /\ content'[q] = content[q] BY <2>2, <1>3, <1>4
  <2>4. FreshUpTo(q, r.at)' = FreshUpTo(q, r.at) BY <2>3, <1>1 DEF FreshUpTo
  <2> QED BY <2>3, <2>4 DEF NoLostAutoHide
<1> QED BY <1>5, <1>6, <1>7, <1>8, <1>9, <1>10

LEMMA SoftDeleteInv ==
  ASSUME IInv, NEW t \in Targets, SoftDelete(t)
  PROVE  IInv'
<1> USE DEF IInv, SoftDelete
<1>1. /\ content' \in [Targets -> Content]
      /\ \A q \in Targets : /\ content'[q].hidden = content[q].hidden
                            /\ content'[q].reviewedAt = content[q].reviewedAt
  BY DEF TypeOK, Content
<1>2. TypeOK' BY <1>1 DEF TypeOK
<1>3. ReportsStamped' BY DEF ReportsStamped
<1>4. ReviewsStamped' BY <1>1 DEF ReviewsStamped
<1>5. CallsSound'
  <2>1. ASSUME NEW d \in Calls PROVE (Started(d) /\ Inserted(d) /\ Counted(d))'
    BY CallUntouched
  <2> QED BY <2>1 DEF CallsSound
<1>6. RowsAreReporters' BY DEF RowsAreReporters
<1>7. NoLostAutoHide' BY <1>1 DEF NoLostAutoHide, FreshUpTo
<1> QED BY <1>2, <1>3, <1>4, <1>5, <1>6, <1>7

LEMMA StutterInv == IInv /\ UNCHANGED vars => IInv'
<1> SUFFICES ASSUME IInv, UNCHANGED vars PROVE IInv' OBVIOUS
<1> USE DEF IInv, vars
<1>1. TypeOK' BY DEF TypeOK
<1>2. ReportsStamped' BY DEF ReportsStamped
<1>3. ReviewsStamped' BY DEF ReviewsStamped
<1>4. CallsSound'
  <2>1. ASSUME NEW d \in Calls PROVE (Started(d) /\ Inserted(d) /\ Counted(d))'
    BY CallUntouched
  <2> QED BY <2>1 DEF CallsSound
<1>5. RowsAreReporters' BY DEF RowsAreReporters
<1>6. NoLostAutoHide' BY DEF NoLostAutoHide, FreshUpTo
<1> QED BY <1>1, <1>2, <1>3, <1>4, <1>5, <1>6

LEMMA NextInv == IInv /\ [Next]_vars => IInv'
<1> SUFFICES ASSUME IInv, [Next]_vars PROVE IInv' OBVIOUS
<1>1. ASSUME NEW c \in Calls, NEW t \in Targets, NEW u \in Users, ReadTarget(c, t, u)
      PROVE  IInv'
  BY <1>1, ReadTargetInv
<1>2. ASSUME NEW c \in Calls, CheckDuplicate(c) \/ CallFails(c) PROVE IInv'
  BY <1>2, CheckDuplicateInv
<1>3. ASSUME NEW c \in Calls, InsertReport(c) PROVE IInv' BY <1>3, InsertReportInv
<1>4. ASSUME NEW c \in Calls, CountReporters(c) PROVE IInv' BY <1>4, CountReportersInv
<1>5. ASSUME NEW c \in Calls, EvaluateAutoHide(c) PROVE IInv'
  BY <1>5, EvaluateAutoHideInv
<1>6. ASSUME NEW v \in Reviews, NEW t \in Targets, StampRestore(v, t) PROVE IInv'
  BY <1>6, StampRestoreInv
<1>7. ASSUME NEW v \in Reviews, WriteRestore(v) PROVE IInv' BY <1>7, WriteRestoreInv
<1>8. ASSUME NEW t \in Targets, SoftDelete(t) PROVE IInv' BY <1>8, SoftDeleteInv
<1>9. CASE UNCHANGED vars BY <1>9, StutterInv
<1> QED
  BY <1>1, <1>2, <1>3, <1>4, <1>5, <1>6, <1>7, <1>8, <1>9 DEF Next, ReportStep

---------------------------------------------------------------------------
(* The theorems *)

\* IInv holds in every reachable state of report handlers and reviews.
THEOREM InvariantHolds == Spec => []IInv
<1> QED BY InitInv, NextInv, PTL DEF Spec

\* The tables and the handlers' locals always have their types: no report is
\* stored without a reporter or a target (ReportsService.create).
THEOREM TypeCorrect == Spec => []TypeOK
<1>1. IInv => TypeOK BY DEF IInv
<1> QED BY <1>1, InvariantHolds, PTL

\* The row count of countDistinctReporters is a count of distinct reporters.
THEOREM RowsAreDistinctReporters == Spec => []RowsAreReporters
<1>1. IInv => RowsAreReporters BY DEF IInv
<1> QED BY <1>1, InvariantHolds, PTL

\* Concurrent handlers never step over the threshold between them, whatever
\* the admin restores in between (evaluateAutoHide).
THEOREM AutoHideIsNotLost == Spec => []NoLostAutoHide
<1>1. IInv => NoLostAutoHide BY DEF IInv
<1> QED BY <1>1, InvariantHolds, PTL

\* Only a handler with Threshold reports in its window hides a target.
LEMMA HidingStep ==
  ASSUME IInv, [Next]_vars, NEW t \in Targets, ~content[t].hidden, content'[t].hidden
  PROVE  \E c \in Calls :
           /\ call[c].target = t
           /\ Cardinality(ReportsSince(t, call[c].since)) >= Threshold
<1>1. content \in [Targets -> Content] BY DEF IInv, TypeOK
<1>2. PICK c \in Calls : EvaluateAutoHide(c)
  <2>1. content' # content OBVIOUS
  <2>2. ASSUME NEW v \in Reviews, WriteRestore(v) PROVE FALSE
    <3>1. review[v].target \in Targets
      BY <2>2 DEF WriteRestore, IInv, ReviewsStamped
    <3>2. content'[t].hidden = FALSE \/ content'[t] = content[t]
      BY <1>1, <2>2, <3>1 DEF WriteRestore, Content
    <3> QED BY <3>2
  <2>3. ASSUME NEW q \in Targets, SoftDelete(q) PROVE FALSE
    BY <1>1, <2>3 DEF SoftDelete, Content
  <2> QED
    BY <2>1, <2>2, <2>3 DEF Next, ReportStep, vars, ReadTarget, CheckDuplicate,
       InsertReport, CountReporters, CallFails, StampRestore
<1>3. /\ call[c].pc = "counted" /\ call[c] \in CallState
      /\ call[c].target = t
      /\ call[c].count >= Threshold
  BY <1>1, <1>2 DEF EvaluateAutoHide, IInv, TypeOK, Content
<1>4. call[c].count <= Cardinality(ReportsSince(t, call[c].since))
  BY <1>3 DEF IInv, CallsSound, Counted
<1>5. Cardinality(ReportsSince(t, call[c].since)) \in Nat
  BY WindowSizes DEF IInv, ReportsStamped
<1> QED BY <1>3, <1>4, <1>5, ThresholdAssumption DEF CallState

\* Nothing is ever hidden on fewer than Threshold reports (evaluateAutoHide).
THEOREM HidingIsJustified == Spec => HideIsJustified
<1>1. ASSUME IInv, [Next]_vars, NEW t \in Targets, ~content[t].hidden, content'[t].hidden
      PROVE  \E c \in Calls :
               /\ call[c].target = t
               /\ Cardinality(ReportsSince(t, call[c].since)) >= Threshold
  BY <1>1, HidingStep
<1>2. IInv /\ [Next]_vars =>
        [\A t \in Targets :
          ~content[t].hidden /\ content'[t].hidden =>
            \E c \in Calls :
              /\ call[c].target = t
              /\ Cardinality(ReportsSince(t, call[c].since)) >= Threshold]_vars
  BY <1>1
<1> QED BY <1>2, InvariantHolds, PTL DEF Spec, HideIsJustified

---------------------------------------------------------------------------
(* The refinement *)

\* One report per user: the reporters of a target are as many as its reports.
LEMMA ReportersAreCounted ==
  ASSUME IInv, NEW t
  PROVE  Cardinality({r.reporter : r \in ReportsOf(t)}) = Cardinality(ReportsOf(t))
<1> DEFINE R == ReportsOf(t)
           T == {r.reporter : r \in R}
           f == [r \in R |-> r.reporter]
<1>1. IsFiniteSet(R)
  BY Windows DEF IInv, ReportsStamped, ReportsOf
<1>2. f \in [R -> T] OBVIOUS
<1>3. ASSUME NEW r \in R, NEW q \in R, f[r] = f[q] PROVE r = q
  BY <1>3 DEF IInv, RowsAreReporters, ReportsOf
<1>4. ASSUME NEW u \in T PROVE \E r \in R : f[r] = u OBVIOUS
<1>5. f \in Bijection(R, T)
  BY <1>2, <1>3, <1>4 DEF Bijection, Injection, Surjection, IsInjective
<1>6. ExistsBijection(R, T) BY <1>5 DEF ExistsBijection
<1> QED BY <1>1, <1>6, FS_Bijection

\* The rows of a window are some of the target's rows.
LEMMA EnoughReporters ==
  ASSUME IInv, NEW t, NEW n, NEW k \in Nat,
         k <= Cardinality(ReportsSince(t, n))
  PROVE  k <= Cardinality({r.reporter : r \in ReportsOf(t)})
<1>1. ReportsSince(t, n) \subseteq ReportsOf(t) BY DEF ReportsSince, ReportsOf
<1>2. IsFiniteSet(ReportsOf(t)) BY Windows DEF IInv, ReportsStamped, ReportsOf
<1>3. /\ Cardinality(ReportsSince(t, n)) \in Nat /\ Cardinality(ReportsOf(t)) \in Nat
      /\ Cardinality(ReportsSince(t, n)) <= Cardinality(ReportsOf(t))
  BY <1>1, <1>2, Windows
<1> QED BY <1>3, ReportersAreCounted

LEMMA InitRefines == Init => Abstract!Init
BY DEF Init, Abstract!Init, ReportsOf

\* The INSERT of a report is the complaint of its reporter.
LEMMA InsertRefines ==
  ASSUME IInv, NEW c \in Calls, InsertReport(c)
  PROVE  [Abstract!Next]_(Abstract!abstractVars)
<1>3. PICK t \in Targets, u \in Users : t = call[c].target /\ u = call[c].reporter
  BY DEF InsertReport, IInv, CallsSound, Started
<1>1. CASE ReportedBy(t, u)
  BY <1>1, <1>3 DEF InsertReport, Abstract!abstractVars, ReportsOf
<1>2. CASE ~ReportedBy(t, u)
  <2>2. /\ reports' = reports \cup {[target |-> t, reporter |-> u, at |-> now]}
        /\ content' = content
    BY <1>2, <1>3 DEF InsertReport
  <2>3. u \notin {r.reporter : r \in ReportsOf(t)}
    BY <1>2 DEF ReportedBy, ReportsOf
  <2>4. ASSUME NEW q \in Targets
        PROVE  {r.reporter : r \in ReportsOf(q)'} =
                 IF q = t THEN {r.reporter : r \in ReportsOf(q)} \cup {u}
                          ELSE {r.reporter : r \in ReportsOf(q)}
    <3> DEFINE new == [target |-> t, reporter |-> u, at |-> now]
    <3>1. CASE q = t
      <4>1. ReportsOf(q)' = ReportsOf(q) \cup {new}
        BY <2>2, <3>1 DEF ReportsOf
      <4>2. new.reporter = u OBVIOUS
      <4> HIDE DEF new
      <4>3. {r.reporter : r \in ReportsOf(q) \cup {new}} =
              {r.reporter : r \in ReportsOf(q)} \cup {u}
        BY <4>2
      <4> QED BY <3>1, <4>1, <4>3
    <3>2. CASE q # t
      <4>1. ReportsOf(q)' = ReportsOf(q)
        BY <2>2, <3>2 DEF ReportsOf
      <4> QED BY <3>2, <4>1
    <3> QED BY <3>1, <3>2
  <2>5. [q \in Targets |-> {r.reporter : r \in ReportsOf(q)}]' =
          [[q \in Targets |-> {r.reporter : r \in ReportsOf(q)}]
             EXCEPT ![t] = @ \cup {u}]
    BY <2>4
  <2>6. Abstract!Complain(t, u)
    BY <2>2, <2>3, <2>5 DEF Abstract!Complain
  <2> QED BY <2>6 DEF Abstract!Next
<1> QED BY <1>1, <1>2

\* The UPDATE of an evaluation hides with a threshold of complaints behind it.
LEMMA EvaluateRefines ==
  ASSUME IInv, NEW c \in Calls, EvaluateAutoHide(c)
  PROVE  [Abstract!Next]_(Abstract!abstractVars)
<1>5. PICK t \in Targets : t = call[c].target
  BY DEF EvaluateAutoHide, IInv, CallsSound, Started
<1>1. /\ call[c] \in CallState /\ content \in [Targets -> Content]
      /\ reports' = reports
  BY DEF EvaluateAutoHide, IInv, TypeOK
<1>2. [q \in Targets |-> {r.reporter : r \in ReportsOf(q)}]' =
        [q \in Targets |-> {r.reporter : r \in ReportsOf(q)}]
  BY <1>1 DEF ReportsOf
<1>3. CASE call[c].count >= Threshold
  <2>1. content' = [content EXCEPT ![t].hidden = TRUE]
    BY <1>1, <1>3, <1>5, ThresholdAssumption DEF EvaluateAutoHide, CallState
  <2>2. Cardinality({r.reporter : r \in ReportsOf(t)}) >= Threshold
    <3>1. call[c].count <= Cardinality(ReportsSince(t, call[c].since))
      BY <1>5 DEF EvaluateAutoHide, IInv, CallsSound, Counted
    <3>2. Cardinality(ReportsSince(t, call[c].since)) \in Nat
      BY WindowSizes DEF IInv, ReportsStamped
    <3>3. Threshold <= Cardinality(ReportsSince(t, call[c].since))
      BY <1>1, <1>3, <3>1, <3>2, ThresholdAssumption DEF CallState
    <3>4. Threshold <= Cardinality({r.reporter : r \in ReportsOf(t)})
      BY <3>3, EnoughReporters, ThresholdAssumption
    <3>5. Cardinality({r.reporter : r \in ReportsOf(t)}) \in Nat
      BY ReportersAreCounted, Windows DEF IInv, ReportsStamped, ReportsOf
    <3> QED BY <3>4, <3>5, ThresholdAssumption
  <2>3. {q \in Targets : content'[q].hidden} = {q \in Targets : content[q].hidden} \cup {t}
    BY <1>1, <2>1 DEF Content
  <2>4. {q \in Targets : content'[q].deleted} = {q \in Targets : content[q].deleted}
    BY <1>1, <2>1 DEF Content
  <2>5. Abstract!Hide(t)
    <3>1. {r.reporter : r \in ReportsOf(t)} \subseteq Users
      BY DEF IInv, TypeOK, Report, ReportsOf
    <3> QED BY <1>1, <1>2, <2>2, <2>3, <2>4, <3>1 DEF Abstract!Hide
  <2> QED BY <2>5 DEF Abstract!Next
<1>4. CASE ~(call[c].count >= Threshold)
  <2>1. content' = content BY <1>4 DEF EvaluateAutoHide
  <2> QED BY <1>2, <2>1 DEF Abstract!abstractVars
<1> QED BY <1>3, <1>4

LEMMA ReviewRefines ==
  ASSUME IInv, NEW v \in Reviews, WriteRestore(v)
  PROVE  [Abstract!Next]_(Abstract!abstractVars)
<1>5. PICK t \in Targets : t = review[v].target
  BY DEF WriteRestore, IInv, ReviewsStamped
<1>1. /\ content \in [Targets -> Content]
      /\ content' = [content EXCEPT ![t].hidden = FALSE, ![t].reviewedAt = review[v].stamp]
      /\ reports' = reports
  BY <1>5 DEF WriteRestore, IInv, TypeOK
<1>2. \A q \in Targets : /\ content'[q].hidden = IF q = t THEN FALSE ELSE content[q].hidden
                         /\ content'[q].deleted = content[q].deleted
  BY <1>1 DEF Content
<1>3. Abstract!Review(t)
  BY <1>1, <1>2 DEF Abstract!Review, ReportsOf
<1> QED BY <1>3 DEF Abstract!Next

LEMMA DeleteRefines ==
  ASSUME IInv, NEW t \in Targets, SoftDelete(t)
  PROVE  [Abstract!Next]_(Abstract!abstractVars)
<1>1. /\ content \in [Targets -> Content] /\ reports' = reports
      /\ content' = [content EXCEPT ![t].deleted = TRUE]
  BY DEF SoftDelete, IInv, TypeOK
<1>2. \A q \in Targets : /\ content'[q].deleted = IF q = t THEN TRUE ELSE content[q].deleted
                         /\ content'[q].hidden = content[q].hidden
  BY <1>1 DEF Content
<1>3. Abstract!Delete(t)
  BY <1>1, <1>2 DEF Abstract!Delete, ReportsOf
<1> QED BY <1>3 DEF Abstract!Next

LEMMA NextRefines == IInv /\ [Next]_vars => [Abstract!Next]_(Abstract!abstractVars)
<1> SUFFICES ASSUME IInv, [Next]_vars PROVE [Abstract!Next]_(Abstract!abstractVars)
  OBVIOUS
<1>1. CASE UNCHANGED <<content, reports>>
  BY <1>1 DEF Abstract!abstractVars, ReportsOf
<1>2. ASSUME NEW c \in Calls, InsertReport(c) PROVE [Abstract!Next]_(Abstract!abstractVars)
  BY <1>2, InsertRefines
<1>3. ASSUME NEW c \in Calls, EvaluateAutoHide(c)
      PROVE  [Abstract!Next]_(Abstract!abstractVars)
  BY <1>3, EvaluateRefines
<1>4. ASSUME NEW v \in Reviews, WriteRestore(v)
      PROVE  [Abstract!Next]_(Abstract!abstractVars)
  BY <1>4, ReviewRefines
<1>5. ASSUME NEW t \in Targets, SoftDelete(t) PROVE [Abstract!Next]_(Abstract!abstractVars)
  BY <1>5, DeleteRefines
<1> QED
  BY <1>1, <1>2, <1>3, <1>4, <1>5 DEF Next, ReportStep, vars, ReadTarget,
     CheckDuplicate, CountReporters, CallFails, StampRestore

\* Reports, counts, hides and reviews, however they interleave, fail or race,
\* implement the promise stated in AutoHide.
THEOREM ModerationRefinesAutoHide == Spec => ImplementsAutoHide
<1>1. Init => Abstract!Init BY InitRefines
<1>2. IInv /\ [Next]_vars => [Abstract!Next]_(Abstract!abstractVars) BY NextRefines
<1> QED BY <1>1, <1>2, InvariantHolds, PTL DEF Spec, ImplementsAutoHide, Abstract!Spec

===========================================================================
