------------------------------ MODULE PushProofs ------------------------------
(***************************************************************************)
(* Proofs about Push for any accounts, pages, sends and number of          *)
(* endpoints and losses.                                                   *)
(*                                                                         *)
(* The device rings for who owns the browser's endpoint, and for who a     *)
(* send under way read as its owner.  Both are the account signed in, or   *)
(* one that lapsed.  A logout keeps it so because, alone on the device, it *)
(* either found the endpoint somebody else's or gives it up before it      *)
(* leaves, unless the browser refuses; and an endpoint given up never      *)
(* comes back.                                                             *)
(***************************************************************************)
EXTENDS Push, TLAPS

---------------------------------------------------------------------------
(* The inductive invariant *)

BySound == \A j \in Jobs : jobs[j].by \in {None, cookie}

\* Which steps are a logout's, and what a page holds was issued.
StepsSound ==
  \A j \in Jobs :
    /\ jobs[j].kind = "logout" => jobs[j].step \notin {"asking", "registering", "rollback"}
    /\ jobs[j].step = "leave" => jobs[j].kind = "logout"
    /\ jobs[j].at <= issued

\* Nothing is known of an endpoint before it is issued, and what a send found gone
\* is not the browser's.
IssuedSound ==
  /\ \A e \in Endpoints : e > issued => owner[e] = None
  /\ \A s \in Sends :
       /\ sends[s].pending \subseteq 1..issued /\ sends[s].gone \subseteq 1..issued
       /\ endpoint \notin sends[s].gone
       /\ sends[s].pending # {} => sends[s].to \in Accounts

OwnerSound == endpoint # 0 => owner[endpoint] \in {None, cookie} \cup lapsed

Dropping == \E k \in Jobs : At(k, "drop") /\ jobs[k].at = endpoint

\* A send that will ring the device is to the account signed in, whose endpoint it
\* still is, or is about to be dropped.
PendingSound ==
  \A s \in Sends :
    endpoint \in sends[s].pending /\ sends[s].to \notin lapsed =>
      sends[s].to = cookie /\ (owner[endpoint] = cookie \/ Dropping)

\* A logout of the account signed in runs alone, on the browser's endpoint, and
\* leaves only when that is not the account's any more.
Clean(j) ==
  ~At(j, "idle") /\ jobs[j].kind = "logout" /\ jobs[j].by # None /\ cookie \notin lapsed =>
    /\ \A k \in Jobs \ {j} : At(k, "idle")
    /\ jobs[j].step \in {"lookup", "delete", "drop"} => jobs[j].at = endpoint /\ endpoint # 0
    /\ jobs[j].step = "leave" => endpoint = 0 \/ owner[endpoint] # cookie

LogoutsClean == \A j \in Jobs : Clean(j)

PushIInv ==
  PushTypeOK /\ BySound /\ StepsSound /\ IssuedSound /\ OwnerSound /\ PendingSound /\ LogoutsClean

---------------------------------------------------------------------------
(* Pages *)

\* A step of a task under way leaves the other tasks alone.
LEMMA JobStep ==
  ASSUME PushIInv, NEW j \in Jobs, ~At(j, "idle"), NEW new \in JobState,
         jobs' = [jobs EXCEPT ![j] = new],
         new.kind = jobs[j].kind, new.by = jobs[j].by,
         cookie' = cookie, lapsed \subseteq lapsed', issued' \in 0..MaxEndpoints, issued <= issued',
         new.at <= issued',
         new.kind = "logout" => new.step \notin {"asking", "registering", "rollback"},
         new.step = "leave" => new.kind = "logout",
         Clean(j)'
  PROVE  jobs' \in [Jobs -> JobState] /\ BySound' /\ StepsSound' /\ LogoutsClean'
<1>1. jobs \in [Jobs -> JobState] /\ issued \in 0..MaxEndpoints /\ MaxEndpoints \in Nat
  BY PushBoundsAssumption DEF PushIInv, PushTypeOK
<1>2. \A k \in Jobs : jobs'[k] = IF k = j THEN new ELSE jobs[k] BY <1>1
<1>3. jobs' \in [Jobs -> JobState] BY <1>1
<1>4. BySound' BY <1>2 DEF PushIInv, BySound
<1>5. \A k \in Jobs : jobs[k].at \in 0..MaxEndpoints BY <1>1 DEF JobState
<1>6. StepsSound' BY <1>1, <1>2, <1>5 DEF PushIInv, StepsSound
<1>7. ASSUME NEW k \in Jobs \ {j} PROVE Clean(k)'
  <2>1. jobs'[k] = jobs[k] BY <1>2
  <2>2. Clean(k) BY DEF PushIInv, LogoutsClean
  <2>3. ~(~At(k, "idle") /\ jobs[k].kind = "logout" /\ jobs[k].by # None /\ cookie \notin lapsed)
    BY <2>2 DEF Clean
  <2> QED BY <2>1, <2>3 DEF Clean, At
<1> QED BY <1>3, <1>4, <1>6, <1>7 DEF LogoutsClean

\* Calls that fail, and answers that only decide the next step.
LEMMA OnlyStepSound ==
  ASSUME PushIInv, NEW j \in Jobs, ~At(j, "idle"), ~At(j, "drop"),
         NEW step \in {"idle", "rollback", "delete", "leave", "drop"}, To(j, step),
         step = "rollback" => jobs[j].kind # "logout",
         step = "leave" => jobs[j].kind = "logout",
         UNCHANGED <<cookie, endpoint, owner, sends, lapsed, issued>>,
         losses' \in 0..MaxLosses,
         Clean(j)'
  PROVE  PushIInv'
<1> DEFINE new == [jobs[j] EXCEPT !.step = step]
<1>1. PushTypeOK BY DEF PushIInv
<1>2. jobs[j] \in JobState /\ issued \in 0..MaxEndpoints BY <1>1 DEF PushTypeOK
<1>3. jobs' = [jobs EXCEPT ![j] = new] BY DEF To
<1>4. /\ new \in JobState /\ new.kind = jobs[j].kind /\ new.by = jobs[j].by
      /\ new.at = jobs[j].at /\ new.step = step
  BY <1>2 DEF JobState
<1>5. jobs[j].at <= issued BY DEF PushIInv, StepsSound
<1> HIDE DEF new
<1>6. /\ issued' = issued /\ issued \in 0..MaxEndpoints /\ issued <= issued
      /\ new.kind = "logout" => new.step \notin {"asking", "registering", "rollback"}
      /\ new.step = "leave" => new.kind = "logout"
  BY <1>2, <1>4, PushBoundsAssumption
<1>7. jobs' \in [Jobs -> JobState] /\ BySound' /\ StepsSound' /\ LogoutsClean'
  BY <1>3, <1>4, <1>5, <1>6, JobStep
<1>8. PushTypeOK' BY <1>1, <1>7 DEF PushTypeOK
<1>9. IssuedSound' /\ OwnerSound' BY DEF PushIInv, IssuedSound, OwnerSound
<1>10. Dropping => Dropping'
  <2>1. \A k \in Jobs : k # j => jobs'[k] = jobs[k] BY <1>1, <1>3 DEF PushTypeOK
  <2> QED BY <2>1 DEF Dropping, At
<1>11. PendingSound' BY <1>10 DEF PushIInv, PendingSound
<1> QED BY <1>7, <1>8, <1>9, <1>11 DEF PushIInv

LEMMA JobNow ==
  ASSUME PushIInv, NEW j \in Jobs
  PROVE  /\ jobs[j] \in JobState /\ jobs[j].at <= issued /\ Clean(j)
         /\ jobs[j].kind = "logout" => jobs[j].step \notin {"asking", "registering", "rollback"}
         /\ jobs[j].step = "leave" => jobs[j].kind = "logout"
         /\ losses \in 0..MaxLosses
         /\ \A step : To(j, step) => jobs'[j].step = step /\ jobs'[j].kind = jobs[j].kind
                                     /\ jobs'[j].at = jobs[j].at /\ jobs'[j].by = jobs[j].by
                                     /\ \A k \in Jobs \ {j} : jobs'[k] = jobs[k]
<1>1. jobs \in [Jobs -> JobState] BY DEF PushIInv, PushTypeOK
<1>2. ASSUME NEW step, To(j, step)
      PROVE  jobs'[j].step = step /\ jobs'[j].kind = jobs[j].kind
             /\ jobs'[j].at = jobs[j].at /\ jobs'[j].by = jobs[j].by
             /\ \A k \in Jobs \ {j} : jobs'[k] = jobs[k]
  BY <1>1, <1>2 DEF To, JobState
<1>3. Clean(j) BY DEF PushIInv, LogoutsClean
<1>4. losses \in 0..MaxLosses BY DEF PushIInv, PushTypeOK
<1>5. jobs[j] \in JobState BY <1>1
<1>6. /\ jobs[j].kind = "logout" => jobs[j].step \notin {"asking", "registering", "rollback"}
      /\ jobs[j].step = "leave" => jobs[j].kind = "logout"
      /\ jobs[j].at <= issued
  BY DEF PushIInv, StepsSound
<1> QED BY <1>2, <1>3, <1>4, <1>5, <1>6

LEMMA LoseTyped == ASSUME PushIInv, Lose PROVE losses' \in 0..MaxLosses
BY PushBoundsAssumption DEF PushIInv, PushTypeOK, Lose

LEMMA RefuseSound == ASSUME PushIInv, NEW j \in Jobs, Refuse(j) PROVE PushIInv'
<1>1. At(j, "asking") /\ To(j, "idle") BY DEF Refuse
<1>2. Clean(j)' BY <1>1, JobNow DEF Clean, At
<1> QED BY <1>1, <1>2, JobNow, OnlyStepSound DEF Refuse, At

LEMMA RollbackFailsSound == ASSUME PushIInv, NEW j \in Jobs, RollbackFails(j) PROVE PushIInv'
<1>1. At(j, "rollback") /\ To(j, "idle") BY DEF RollbackFails
<1>2. Clean(j)' BY <1>1, JobNow DEF Clean, At
<1> QED BY <1>1, <1>2, JobNow, OnlyStepSound DEF RollbackFails, At

LEMMA RegisterFailsSound == ASSUME PushIInv, NEW j \in Jobs, RegisterFails(j) PROVE PushIInv'
<1>1. At(j, "registering") /\ To(j, "rollback") BY DEF RegisterFails
<1>2. losses' \in 0..MaxLosses BY JobNow, LoseTyped DEF RegisterFails
<1>3. jobs[j].kind # "logout" BY <1>1, JobNow DEF At
<1>4. Clean(j)' BY <1>1, <1>3, JobNow DEF Clean, At
<1> QED BY <1>1, <1>2, <1>3, <1>4, OnlyStepSound DEF RegisterFails, At

LEMMA LookUpSound == ASSUME PushIInv, NEW j \in Jobs, LookUp(j) PROVE PushIInv'
<1> DEFINE step == IF Owned(jobs[j].at, cookie) THEN "delete" ELSE After(j)
<1>1. At(j, "lookup") /\ To(j, step) BY DEF LookUp
<1>2. UNCHANGED <<cookie, endpoint, owner, sends, lapsed, issued, losses>> BY DEF LookUp
<1>3. step \in {"delete", "leave", "idle"} /\ (step = "leave" => jobs[j].kind = "logout")
      /\ (step = "leave" => ~Owned(jobs[j].at, cookie))
  BY DEF After
<1> HIDE DEF step
<1>4. Clean(j)' BY <1>1, <1>2, <1>3, JobNow DEF Clean, At, Owned
<1> QED BY <1>1, <1>2, <1>3, <1>4, JobNow, OnlyStepSound DEF At

LEMMA LookUpFailsSound == ASSUME PushIInv, NEW j \in Jobs, LookUpFails(j) PROVE PushIInv'
<1> DEFINE step == IF jobs[j].kind = "logout" THEN "delete" ELSE "idle"
<1>1. At(j, "lookup") /\ To(j, step) BY DEF LookUpFails
<1>2. UNCHANGED <<cookie, endpoint, owner, sends, lapsed, issued>> BY DEF LookUpFails
<1>3. losses' \in 0..MaxLosses BY JobNow, LoseTyped DEF LookUpFails
<1>4. step \in {"delete", "idle"} OBVIOUS
<1> HIDE DEF step
<1>5. Clean(j)' BY <1>1, <1>2, <1>4, JobNow DEF Clean, At
<1> QED BY <1>1, <1>2, <1>3, <1>4, <1>5, OnlyStepSound DEF At

LEMMA DeleteFailsSound == ASSUME PushIInv, NEW j \in Jobs, DeleteFails(j) PROVE PushIInv'
<1> DEFINE step == IF jobs[j].kind = "logout" THEN "drop" ELSE "idle"
<1>1. At(j, "delete") /\ To(j, step) BY DEF DeleteFails
<1>2. UNCHANGED <<cookie, endpoint, owner, sends, lapsed, issued>> BY DEF DeleteFails
<1>3. losses' \in 0..MaxLosses BY JobNow, LoseTyped DEF DeleteFails
<1>4. step \in {"drop", "idle"} OBVIOUS
<1> HIDE DEF step
<1>5. Clean(j)' BY <1>1, <1>2, <1>4, JobNow DEF Clean, At
<1> QED BY <1>1, <1>2, <1>3, <1>4, <1>5, OnlyStepSound DEF At

LEMMA LeaveFailsSound == ASSUME PushIInv, NEW j \in Jobs, LeaveFails(j) PROVE PushIInv'
<1>1. At(j, "leave") /\ To(j, "idle") BY DEF LeaveFails
<1>2. losses' \in 0..MaxLosses BY LoseTyped DEF LeaveFails
<1>3. Clean(j)' BY <1>1, JobNow DEF Clean, At
<1> QED BY <1>1, <1>2, <1>3, OnlyStepSound DEF LeaveFails, At

\* A task that begins beside a logout, or a logout beside a task, lapses the session.
LEMMA StartTaskSound ==
  ASSUME PushIInv, NEW j \in Jobs, At(j, "idle"), NEW new \in JobState,
         jobs' = [jobs EXCEPT ![j] = new], cookie # None, new.by = cookie,
         new.at <= issued,
         Crossed(j, new.kind) \subseteq lapsed', lapsed \subseteq lapsed',
         lapsed' \subseteq lapsed \cup {cookie},
         new.kind = "logout" => new.step \notin {"asking", "registering", "rollback", "delete", "drop"},
         new.step = "leave" => new.kind = "logout",
         new.step = "leave" /\ cookie \notin lapsed' => endpoint = 0 \/ owner[endpoint] # cookie,
         new.step = "lookup" => new.at = endpoint /\ endpoint # 0,
         UNCHANGED <<cookie, endpoint, owner, sends, issued, losses>>
  PROVE  PushIInv'
<1>1. PushTypeOK /\ cookie \in Accounts BY DEF PushIInv, PushTypeOK, Nobody
<1>2. \A k \in Jobs : jobs'[k] = IF k = j THEN new ELSE jobs[k] BY <1>1 DEF PushTypeOK
<1>3. /\ lapsed \subseteq lapsed' /\ lapsed' \subseteq lapsed \cup {cookie} /\ lapsed' \in SUBSET Accounts
      /\ cookie \notin lapsed' =>
           \A k \in Jobs \ {j} : ~At(k, "idle") => jobs[k].kind # "logout" /\ new.kind # "logout"
  BY <1>1 DEF Crossed, PushTypeOK
<1>4. PushTypeOK' BY <1>1, <1>3 DEF PushTypeOK
<1>5. BySound' /\ StepsSound' BY <1>2 DEF PushIInv, BySound, StepsSound
<1>6. IssuedSound' BY DEF PushIInv, IssuedSound
<1>7. OwnerSound' BY <1>3 DEF PushIInv, OwnerSound
<1>8. PendingSound'
  <2>1. Dropping => Dropping' BY <1>2 DEF Dropping, At
  <2> QED BY <1>3, <2>1 DEF PushIInv, PendingSound
<1>9. ASSUME NEW k \in Jobs PROVE Clean(k)'
  <2>1. SUFFICES ASSUME ~At(k, "idle")', jobs'[k].kind = "logout", cookie \notin lapsed'
                 PROVE  Clean(k)'
    BY DEF Clean
  <2>2. k = j BY <1>2, <1>3, <2>1 DEF At
  <2>3. \A i \in Jobs \ {j} : At(i, "idle")' BY <1>2, <1>3, <2>1, <2>2 DEF At
  <2> QED BY <1>2, <2>1, <2>2, <2>3 DEF Clean, At
<1> QED BY <1>4, <1>5, <1>6, <1>7, <1>8, <1>9 DEF PushIInv, LogoutsClean

LEMMA StartEnableSound == ASSUME PushIInv, NEW j \in Jobs, StartEnable(j) PROVE PushIInv'
<1> DEFINE new == [kind |-> "enable", step |-> "asking", at |-> 0, by |-> cookie]
<1>1. At(j, "idle") /\ cookie # None /\ jobs' = [jobs EXCEPT ![j] = new]
      /\ lapsed' = lapsed \cup Crossed(j, "enable")
  BY DEF StartEnable
<1>2. new \in JobState /\ new.at <= issued
  BY PushBoundsAssumption DEF PushIInv, PushTypeOK, JobState
<1>3. new.kind = "enable" /\ new.step = "asking" /\ new.by = cookie OBVIOUS
<1>4. Crossed(j, "enable") \subseteq {cookie} BY DEF Crossed
<1> HIDE DEF new
<1> QED BY <1>1, <1>2, <1>3, <1>4, StartTaskSound DEF StartEnable

LEMMA StartReleaseSound ==
  ASSUME PushIInv, NEW j \in Jobs, NEW kind \in {"disable", "logout"}, StartRelease(j, kind)
  PROVE  PushIInv'
<1> DEFINE step == IF endpoint # 0 THEN "lookup" ELSE IF kind = "logout" THEN "leave" ELSE "idle"
           new == [kind |-> kind, at |-> endpoint, by |-> cookie, step |-> step]
<1>1. At(j, "idle") /\ cookie # None /\ jobs' = [jobs EXCEPT ![j] = new]
      /\ lapsed' = lapsed \cup Crossed(j, kind)
  BY DEF StartRelease
<1>2. new \in JobState /\ new.at <= issued BY DEF PushIInv, PushTypeOK, JobState
<1>3. new.kind = kind /\ new.step = step /\ new.by = cookie /\ new.at = endpoint OBVIOUS
<1>4. Crossed(j, kind) \subseteq {cookie} BY DEF Crossed
<1> HIDE DEF new
<1> QED BY <1>1, <1>2, <1>3, <1>4, StartTaskSound DEF StartRelease

\* Who is not in StillRung, the device does not ring for.
LEMMA StillRungSound ==
  ASSUME PushIInv, cookie \in Accounts, cookie \notin StillRung, endpoint' = endpoint, endpoint # 0
  PROVE  owner'[endpoint] # cookie
         /\ \A s \in Sends : endpoint \in sends'[s].pending => sends'[s].to # cookie
BY PushNoneAssumption DEF StillRung, Rung

LEMMA LogoutUnreleasedSound ==
  ASSUME PushIInv, NEW j \in Jobs, LogoutUnreleased(j)
  PROVE  PushIInv'
<1> DEFINE new == [kind |-> "logout", at |-> 0, by |-> cookie, step |-> "leave"]
<1>1. /\ At(j, "idle") /\ cookie # None /\ endpoint # 0 /\ jobs' = [jobs EXCEPT ![j] = new]
      /\ lapsed' = lapsed \cup Crossed(j, "logout") \cup StillRung
      /\ UNCHANGED <<cookie, endpoint, owner, sends, issued, losses>>
  BY DEF LogoutUnreleased
<1>2. new \in JobState /\ new.at <= issued /\ cookie \in Accounts
  BY <1>1, PushBoundsAssumption DEF PushIInv, PushTypeOK, JobState, Nobody
<1>3. new.kind = "logout" /\ new.step = "leave" /\ new.by = cookie OBVIOUS
<1>4. Crossed(j, "logout") \subseteq {cookie} /\ StillRung \subseteq {cookie} BY DEF Crossed, StillRung
<1>5. cookie \notin lapsed' => owner[endpoint] # cookie BY <1>1, <1>2, StillRungSound
<1> HIDE DEF new
<1> QED BY <1>1, <1>2, <1>3, <1>4, <1>5, StartTaskSound

---------------------------------------------------------------------------
(* The subscription, its row and the session *)

LEMMA BrowserSubscribeSound == ASSUME PushIInv, NEW j \in Jobs, BrowserSubscribe(j) PROVE PushIInv'
<1> DEFINE new == [jobs[j] EXCEPT !.step = "registering", !.at = endpoint']
<1>1. PushTypeOK /\ jobs[j] \in JobState BY JobNow DEF PushIInv
<1>2. /\ At(j, "asking") /\ (endpoint # 0 \/ issued < MaxEndpoints)
      /\ issued' = IF endpoint = 0 THEN issued + 1 ELSE issued
      /\ endpoint' = IF endpoint = 0 THEN issued' ELSE endpoint
      /\ UNCHANGED <<cookie, owner, sends, lapsed, losses>>
  BY DEF BrowserSubscribe
<1>3. jobs' = [jobs EXCEPT ![j] = new]
  BY <1>1 DEF BrowserSubscribe, PushTypeOK
<1>4. /\ issued \in 0..MaxEndpoints /\ issued' \in 0..MaxEndpoints /\ issued <= issued'
      /\ endpoint' \in 0..MaxEndpoints /\ endpoint' <= issued'
  BY <1>1, <1>2, PushBoundsAssumption DEF PushTypeOK, BrowserSubscribe
<1>5. /\ new \in JobState /\ new.kind = jobs[j].kind /\ new.by = jobs[j].by
      /\ new.at = endpoint' /\ new.step = "registering"
  BY <1>1, <1>4 DEF JobState
<1>6. jobs[j].kind # "logout" BY <1>2, JobNow DEF At
<1> HIDE DEF new
<1>7. jobs'[j] = new BY <1>1, <1>3 DEF PushTypeOK
<1>8. Clean(j)' BY <1>5, <1>6, <1>7 DEF Clean
<1>9. jobs' \in [Jobs -> JobState] /\ BySound' /\ StepsSound' /\ LogoutsClean'
  BY <1>2, <1>3, <1>4, <1>5, <1>6, <1>8, JobStep DEF At
<1>10. PushTypeOK' BY <1>1, <1>2, <1>4, <1>9 DEF PushTypeOK
<1>11. endpoint' = endpoint \/ (endpoint' > issued /\ endpoint' # 0)
  BY <1>1, <1>2 DEF PushTypeOK
<1>12. IssuedSound'
  <2>1. \A s \in Sends : /\ sends[s].pending \subseteq 1..issued /\ sends[s].gone \subseteq 1..issued
                         /\ endpoint \notin sends[s].gone
    BY DEF PushIInv, IssuedSound
  <2>2. \A s \in Sends : endpoint' \notin sends[s].gone BY <1>4, <1>11, <2>1
  <2>3. \A s \in Sends : sends[s].pending \subseteq 1..issued' /\ sends[s].gone \subseteq 1..issued'
    BY <1>4, <2>1
  <2>4. \A e \in Endpoints : e > issued' => e > issued BY <1>4 DEF Endpoints
  <2> QED BY <1>2, <2>2, <2>3, <2>4 DEF PushIInv, IssuedSound
<1>13. OwnerSound'
  <2>1. CASE endpoint' = endpoint BY <1>2, <2>1 DEF PushIInv, OwnerSound
  <2>2. CASE endpoint' > issued /\ endpoint' # 0
    <3>1. owner[endpoint'] = None BY <1>4, <2>2 DEF PushIInv, IssuedSound, Endpoints
    <3> QED BY <1>2, <3>1 DEF OwnerSound
  <2> QED BY <1>11, <2>1, <2>2
<1>14. PendingSound'
  <2> SUFFICES ASSUME NEW s \in Sends, endpoint' \in sends[s].pending, sends[s].to \notin lapsed
               PROVE  sends[s].to = cookie /\ (owner[endpoint'] = cookie \/ Dropping')
    BY <1>2 DEF PendingSound
  <2>1. endpoint' = endpoint BY <1>4, <1>11 DEF PushIInv, IssuedSound
  <2>2. Dropping => Dropping'
    <3>1. \A k \in Jobs : k # j => jobs'[k] = jobs[k] BY <1>1, <1>3 DEF PushTypeOK
    <3> QED BY <1>2, <2>1, <3>1 DEF Dropping, At
  <2> QED BY <2>1, <2>2 DEF PushIInv, PendingSound
<1> QED BY <1>9, <1>10, <1>12, <1>13, <1>14 DEF PushIInv

LEMMA RegisterSound == ASSUME PushIInv, NEW j \in Jobs, Register(j) PROVE PushIInv'
<1>1. PushTypeOK /\ jobs[j] \in JobState /\ jobs[j].at <= issued BY JobNow DEF PushIInv
<1>2. /\ At(j, "registering") /\ cookie # None
      /\ owner' = [owner EXCEPT ![jobs[j].at] = cookie]
      /\ UNCHANGED <<cookie, endpoint, sends, lapsed, issued>>
  BY DEF Register
<1>3. PICK step \in {"idle", "rollback"} : To(j, step) BY DEF Register
<1>4. losses' \in 0..MaxLosses BY LoseTyped, JobNow DEF Register
<1> DEFINE new == [jobs[j] EXCEPT !.step = step]
<1>5. jobs' = [jobs EXCEPT ![j] = new] BY <1>3 DEF To
<1>6. /\ new \in JobState /\ new.kind = jobs[j].kind /\ new.by = jobs[j].by
      /\ new.at = jobs[j].at /\ new.step = step
  BY <1>1 DEF JobState
<1>7. jobs[j].kind # "logout" BY <1>2, JobNow DEF At
<1> HIDE DEF new
<1>8. jobs'[j] = new BY <1>1, <1>5 DEF PushTypeOK
<1>9. Clean(j)' BY <1>6, <1>7, <1>8 DEF Clean
<1>10. issued \in 0..MaxEndpoints /\ issued <= issued BY <1>1, PushBoundsAssumption DEF PushTypeOK
<1>11. jobs' \in [Jobs -> JobState] /\ BySound' /\ StepsSound' /\ LogoutsClean'
  BY <1>1, <1>2, <1>3, <1>5, <1>6, <1>7, <1>9, <1>10, JobStep DEF At
<1>12. owner' \in [Endpoints -> Nobody]
       /\ \A e \in Endpoints : owner'[e] = IF e = jobs[j].at THEN cookie ELSE owner[e]
  BY <1>1, <1>2 DEF PushTypeOK
<1>13. PushTypeOK' BY <1>1, <1>2, <1>4, <1>11, <1>12 DEF PushTypeOK
<1>14. IssuedSound'
  <2>1. jobs[j].at \in 0..MaxEndpoints BY <1>1 DEF JobState
  <2>2. \A e \in Endpoints : e > issued => e # jobs[j].at BY <1>1, <1>10, <2>1 DEF Endpoints
  <2>3. \A e \in Endpoints : e > issued => owner'[e] = None
    BY <1>12, <2>2 DEF PushIInv, IssuedSound
  <2> QED BY <1>2, <2>3 DEF PushIInv, IssuedSound
<1>15. endpoint # 0 => endpoint \in Endpoints
  BY <1>1, PushBoundsAssumption DEF PushTypeOK, Endpoints
<1>16. OwnerSound' BY <1>2, <1>12, <1>15 DEF PushIInv, OwnerSound
<1>17. PendingSound'
  <2>1. \A k \in Jobs : k # j => jobs'[k] = jobs[k] BY <1>1, <1>5 DEF PushTypeOK
  <2>2. Dropping => Dropping' BY <1>2, <2>1 DEF Dropping, At
  <2>3. ASSUME NEW s \in Sends, endpoint \in sends[s].pending
        PROVE  endpoint \in Endpoints
    BY <1>10, <1>15, <2>3 DEF PushIInv, IssuedSound
  <2> QED BY <1>2, <1>12, <2>2, <2>3 DEF PushIInv, PendingSound
<1> QED BY <1>11, <1>13, <1>14, <1>16, <1>17 DEF PushIInv

\* Giving the browser's subscription up, after a registration failed or a release.
LEMMA UnsubscribeSound ==
  ASSUME PushIInv, NEW j \in Jobs, ~At(j, "idle"),
         NEW step \in {"idle", "leave"}, To(j, step), step = "leave" => jobs[j].kind = "logout",
         endpoint' = Unsubscribed(j),
         UNCHANGED <<cookie, owner, sends, lapsed, issued, losses>>,
         Clean(j)'
  PROVE  PushIInv'
<1> DEFINE new == [jobs[j] EXCEPT !.step = step]
<1>1. PushTypeOK /\ jobs[j] \in JobState /\ jobs[j].at <= issued BY JobNow DEF PushIInv
<1>2. jobs' = [jobs EXCEPT ![j] = new] BY DEF To
<1>3. /\ new \in JobState /\ new.kind = jobs[j].kind /\ new.by = jobs[j].by
      /\ new.at = jobs[j].at /\ new.step = step
  BY <1>1 DEF JobState
<1> HIDE DEF new
<1>4. issued \in 0..MaxEndpoints /\ issued <= issued BY <1>1, PushBoundsAssumption DEF PushTypeOK
<1>5. jobs' \in [Jobs -> JobState] /\ BySound' /\ StepsSound' /\ LogoutsClean'
  BY <1>1, <1>2, <1>3, <1>4, JobStep
<1>6. endpoint' \in {0, endpoint} /\ (endpoint' # 0 => endpoint' # jobs[j].at)
  BY DEF Unsubscribed
<1>7. PushTypeOK' BY <1>1, <1>4, <1>5, <1>6, PushBoundsAssumption DEF PushTypeOK
<1>8. IssuedSound'
  <2>1. \A s \in Sends : sends[s].gone \subseteq 1..issued /\ endpoint \notin sends[s].gone
    BY DEF PushIInv, IssuedSound
  <2>2. \A s \in Sends : endpoint' \notin sends[s].gone BY <1>4, <1>6, <2>1
  <2> QED BY <2>2 DEF PushIInv, IssuedSound
<1>9. OwnerSound' BY <1>6 DEF PushIInv, OwnerSound
<1>10. PendingSound'
  <2> SUFFICES ASSUME NEW s \in Sends, endpoint' \in sends[s].pending, sends[s].to \notin lapsed
               PROVE  sends[s].to = cookie /\ (owner[endpoint'] = cookie \/ Dropping')
    BY DEF PendingSound
  <2>1. endpoint' # 0 BY <1>4 DEF PushIInv, IssuedSound
  <2>2. endpoint' = endpoint /\ endpoint # jobs[j].at BY <1>6, <2>1
  <2>3. \A k \in Jobs : k # j => jobs'[k] = jobs[k] BY <1>1, <1>2 DEF PushTypeOK
  <2>4. Dropping => Dropping' BY <2>2, <2>3 DEF Dropping, At
  <2> QED BY <2>2, <2>4 DEF PushIInv, PendingSound
<1> QED BY <1>5, <1>7, <1>8, <1>9, <1>10 DEF PushIInv

LEMMA RollbackSound == ASSUME PushIInv, NEW j \in Jobs, Rollback(j) PROVE PushIInv'
<1>1. At(j, "rollback") /\ To(j, "idle") BY DEF Rollback
<1>2. Clean(j)' BY <1>1, JobNow DEF Clean, At
<1> QED BY <1>1, <1>2, UnsubscribeSound DEF Rollback, At

LEMMA DropSound == ASSUME PushIInv, NEW j \in Jobs, Drop(j) PROVE PushIInv'
<1> DEFINE step == After(j)
<1>1. At(j, "drop") /\ To(j, step) /\ endpoint' = Unsubscribed(j)
      /\ UNCHANGED <<cookie, owner, sends, lapsed, issued, losses>>
  BY DEF Drop
<1>2. step \in {"leave", "idle"} /\ (step = "leave" => jobs[j].kind = "logout") BY DEF After
<1> HIDE DEF step
<1>3. Clean(j)' BY <1>1, <1>2, JobNow DEF Clean, At, Unsubscribed
<1> QED BY <1>1, <1>2, <1>3, UnsubscribeSound DEF At

\* A subscription is kept that was to be given up: whom it still rings for has lapsed.
LEMMA KeepSound ==
  ASSUME PushIInv, NEW j \in Jobs, ~At(j, "idle"),
         NEW step \in {"idle", "leave"}, To(j, step), step = "leave" => jobs[j].kind = "logout",
         lapsed' = lapsed \cup StillRung, losses' \in 0..MaxLosses,
         owner' \in [Endpoints -> Nobody], \A e \in Endpoints : owner'[e] \in {owner[e], None},
         UNCHANGED <<cookie, endpoint, sends, issued>>, Clean(j)'
  PROVE  PushIInv'
<1> DEFINE new == [jobs[j] EXCEPT !.step = step]
<1>1. PushTypeOK /\ jobs[j] \in JobState /\ jobs[j].at <= issued BY JobNow DEF PushIInv
<1>2. jobs' = [jobs EXCEPT ![j] = new] BY DEF To
<1>3. /\ new \in JobState /\ new.kind = jobs[j].kind /\ new.by = jobs[j].by
      /\ new.at = jobs[j].at /\ new.step = step
  BY <1>1 DEF JobState
<1> HIDE DEF new
<1>4. issued \in 0..MaxEndpoints /\ issued <= issued BY <1>1, PushBoundsAssumption DEF PushTypeOK
<1>5. lapsed \subseteq lapsed' OBVIOUS
<1>6. jobs' \in [Jobs -> JobState] /\ BySound' /\ StepsSound' /\ LogoutsClean'
  BY <1>1, <1>2, <1>3, <1>4, <1>5, JobStep
<1>7. lapsed' \in SUBSET Accounts BY <1>1 DEF PushTypeOK, StillRung, Nobody
<1>8. PushTypeOK' BY <1>1, <1>6, <1>7 DEF PushTypeOK
<1>9. IssuedSound' BY DEF PushIInv, IssuedSound
<1>10. endpoint # 0 => endpoint \in Endpoints
  BY <1>1, PushBoundsAssumption DEF PushTypeOK, Endpoints
<1>11. OwnerSound' BY <1>5, <1>10 DEF PushIInv, OwnerSound
<1>12. PendingSound'
  <2> SUFFICES ASSUME NEW s \in Sends, endpoint \in sends[s].pending, sends[s].to \notin lapsed'
               PROVE  FALSE
    BY DEF PendingSound
  <2>1. sends[s].to \in Accounts /\ endpoint # 0 BY <1>4 DEF PushIInv, IssuedSound
  <2>2. sends[s].to = cookie BY <1>5 DEF PushIInv, PendingSound
  <2>3. cookie \in StillRung BY <2>1, <2>2, StillRungSound
  <2> QED BY <2>2, <2>3
<1> QED BY <1>6, <1>8, <1>9, <1>11, <1>12 DEF PushIInv

LEMMA DropFailsSound == ASSUME PushIInv, NEW j \in Jobs, DropFails(j) PROVE PushIInv'
<1> DEFINE step == After(j)
<1>1. At(j, "drop") /\ To(j, step) /\ lapsed' = lapsed \cup StillRung
      /\ UNCHANGED <<cookie, endpoint, owner, sends, issued, losses>>
  BY DEF DropFails
<1>2. step \in {"leave", "idle"} /\ (step = "leave" => jobs[j].kind = "logout") BY DEF After
<1> HIDE DEF step
<1>3. PushTypeOK /\ jobs[j].by \in {None, cookie} BY DEF PushIInv, BySound
<1>4. Clean(j)'
  <2> SUFFICES ASSUME jobs[j].kind = "logout", jobs[j].by # None, cookie \notin lapsed',
                      step # "idle"
               PROVE  /\ \A k \in Jobs \ {j} : At(k, "idle")'
                      /\ endpoint = 0 \/ owner[endpoint] # cookie
    BY <1>1, <1>2, JobNow DEF Clean, At
  <2>1. cookie \in Accounts /\ cookie \notin lapsed /\ cookie \notin StillRung
    BY <1>1, <1>3 DEF PushTypeOK, Nobody
  <2>2. \A k \in Jobs \ {j} : At(k, "idle") BY <1>1, <2>1, JobNow DEF Clean, At
  <2>3. endpoint = 0 \/ owner[endpoint] # cookie BY <1>1, <2>1, StillRungSound
  <2> QED BY <1>1, <2>2, <2>3, JobNow DEF At
<1>5. owner' \in [Endpoints -> Nobody] /\ \A e \in Endpoints : owner'[e] \in {owner[e], None}
  BY <1>1, <1>3 DEF PushTypeOK
<1>6. losses' \in 0..MaxLosses BY <1>1, JobNow
<1> QED BY <1>1, <1>2, <1>4, <1>5, <1>6, KeepSound DEF At

\* The row is deleted, whether or not the answer arrives.
LEMMA DeletedSound ==
  ASSUME PushIInv, NEW j \in Jobs, At(j, "delete"), cookie # None, Disown(j), To(j, "drop"),
         UNCHANGED <<cookie, endpoint, sends, lapsed, issued>>, losses' \in 0..MaxLosses
  PROVE  PushIInv'
<1> DEFINE new == [jobs[j] EXCEPT !.step = "drop"]
<1>1. PushTypeOK /\ jobs[j] \in JobState /\ jobs[j].at <= issued BY JobNow DEF PushIInv
<1>2. UNCHANGED <<cookie, endpoint, sends, lapsed, issued>> OBVIOUS
<1>3. jobs' = [jobs EXCEPT ![j] = new] BY <1>2 DEF To
<1>4. /\ new \in JobState /\ new.kind = jobs[j].kind /\ new.by = jobs[j].by
      /\ new.at = jobs[j].at /\ new.step = "drop"
  BY <1>1 DEF JobState
<1> HIDE DEF new
<1>5. Clean(j)' BY <1>2, JobNow DEF Clean, At
<1>6. issued \in 0..MaxEndpoints /\ issued <= issued BY <1>1, PushBoundsAssumption DEF PushTypeOK
<1>7. jobs' \in [Jobs -> JobState] /\ BySound' /\ StepsSound' /\ LogoutsClean'
  BY <1>1, <1>2, <1>3, <1>4, <1>5, <1>6, JobStep DEF At
<1>8. /\ owner' \in [Endpoints -> Nobody]
      /\ \A e \in Endpoints : owner'[e] = owner[e] \/ (owner'[e] = None /\ e = jobs[j].at)
  BY <1>1, <1>2 DEF Disown, PushTypeOK, Nobody
<1>9. PushTypeOK' BY <1>1, <1>2, <1>7, <1>8 DEF PushTypeOK
<1>10. IssuedSound' BY <1>2, <1>8 DEF PushIInv, IssuedSound
<1>11. endpoint # 0 => endpoint \in Endpoints
  BY <1>1, PushBoundsAssumption DEF PushTypeOK, Endpoints
<1>12. OwnerSound' BY <1>2, <1>8, <1>11 DEF PushIInv, OwnerSound
<1>13. PendingSound'
  <2> SUFFICES ASSUME NEW s \in Sends, endpoint \in sends[s].pending, sends[s].to \notin lapsed
               PROVE  sends[s].to = cookie /\ (owner'[endpoint] = cookie \/ Dropping')
    BY <1>2 DEF PendingSound
  <2>1. endpoint \in Endpoints BY <1>6, <1>11 DEF PushIInv, IssuedSound
  <2>2. \A k \in Jobs : jobs'[k] = IF k = j THEN new ELSE jobs[k] BY <1>1, <1>3 DEF PushTypeOK
  <2>3. Dropping => Dropping' BY <1>2, <1>4, <2>2 DEF Dropping, At
  <2>4. CASE owner'[endpoint] = owner[endpoint] BY <2>3, <2>4 DEF PushIInv, PendingSound
  <2>5. CASE endpoint = jobs[j].at
    <3>1. Dropping' BY <1>2, <1>4, <2>2, <2>5 DEF Dropping, At
    <3> QED BY <3>1 DEF PushIInv, PendingSound
  <2> QED BY <1>8, <2>1, <2>4, <2>5
<1> QED BY <1>7, <1>9, <1>10, <1>12, <1>13 DEF PushIInv

LEMMA DeleteSound == ASSUME PushIInv, NEW j \in Jobs, Delete(j) PROVE PushIInv'
BY JobNow, DeletedSound DEF Delete

LEMMA DeleteUnansweredSound ==
  ASSUME PushIInv, NEW j \in Jobs, DeleteUnanswered(j)
  PROVE  PushIInv'
<1>1. /\ At(j, "delete") /\ cookie # None /\ Disown(j)
      /\ UNCHANGED <<cookie, endpoint, sends, issued>> /\ losses' \in 0..MaxLosses
  BY LoseTyped DEF DeleteUnanswered
<1>2. CASE jobs[j].kind = "logout"
  <2>1. To(j, "drop") /\ lapsed' = lapsed BY <1>2 DEF DeleteUnanswered
  <2> QED BY <1>1, <2>1, DeletedSound
<1>3. CASE jobs[j].kind # "logout"
  <2>1. To(j, "idle") /\ lapsed' = lapsed \cup StillRung BY <1>3 DEF DeleteUnanswered
  <2>2. owner' \in [Endpoints -> Nobody] /\ \A e \in Endpoints : owner'[e] \in {owner[e], None}
    BY <1>1 DEF Disown, PushIInv, PushTypeOK, Nobody
  <2>3. Clean(j)' BY <2>1, JobNow DEF Clean, At
  <2> QED BY <1>1, <2>1, <2>2, <2>3, KeepSound DEF At
<1> QED BY <1>2, <1>3

LEMMA OutlivedSound ==
  ASSUME PushIInv
  PROVE  /\ Outlived \in [Jobs -> JobState]
         /\ \A k \in Jobs : Outlived[k].by = None /\ Outlived[k].at = jobs[k].at
                            /\ Outlived[k].kind = jobs[k].kind /\ Outlived[k].step = jobs[k].step
BY DEF PushIInv, PushTypeOK, Outlived, JobState, Nobody

\* A session that ends while no logout of its own vouches for it has lapsed.
LEMMA EndSessionSound ==
  ASSUME PushIInv, cookie' = None,
         jobs' \in [Jobs -> JobState],
         \A k \in Jobs :
           jobs'[k].by = None /\ jobs'[k].at = jobs[k].at /\ jobs'[k].kind = jobs[k].kind
           /\ jobs'[k].step \in {jobs[k].step, "idle"},
         lapsed \subseteq lapsed', lapsed' \in SUBSET Accounts,
         cookie \notin lapsed' \cup {None} =>
           (endpoint # 0 => owner[endpoint] # cookie) /\ ~Dropping,
         owner' \in [Endpoints -> Nobody],
         \A e \in Endpoints : owner'[e] \in {owner[e], None},
         UNCHANGED <<endpoint, sends, issued>>, losses' \in 0..MaxLosses
  PROVE  PushIInv'
<1>1. PushTypeOK BY DEF PushIInv
<1>2. PushTypeOK' BY <1>1 DEF PushTypeOK, Nobody
<1>3. BySound' /\ LogoutsClean' BY DEF BySound, LogoutsClean, Clean
<1>4. StepsSound' BY DEF PushIInv, StepsSound
<1>5. IssuedSound' BY DEF PushIInv, IssuedSound
<1>6. endpoint # 0 => endpoint \in Endpoints
  BY <1>1, PushBoundsAssumption DEF PushTypeOK, Endpoints
<1>7. OwnerSound' BY <1>6 DEF PushIInv, OwnerSound
<1>8. PendingSound'
  <2> SUFFICES ASSUME NEW s \in Sends, endpoint \in sends[s].pending, sends[s].to \notin lapsed'
               PROVE  FALSE
    BY DEF PendingSound
  <2>1. endpoint # 0 /\ sends[s].to \in Accounts BY DEF PushIInv, IssuedSound
  <2>2. sends[s].to = cookie /\ (owner[endpoint] = cookie \/ Dropping)
    BY DEF PushIInv, PendingSound
  <2> QED BY <2>1, <2>2, PushNoneAssumption
<1> QED BY <1>2, <1>3, <1>4, <1>5, <1>7, <1>8 DEF PushIInv

LEMMA LeaveSound == ASSUME PushIInv, NEW j \in Jobs, Leave(j) PROVE PushIInv'
<1>1. PushTypeOK /\ Clean(j) /\ jobs[j].kind = "logout" /\ jobs[j].by \in {None, cookie}
  BY JobNow DEF PushIInv, Leave, At, BySound
<1>2. /\ At(j, "leave") /\ cookie' = None
      /\ lapsed' = lapsed \cup ({cookie} \ {jobs[j].by, None})
      /\ jobs' = [Outlived EXCEPT ![j].step = "idle"]
      /\ UNCHANGED <<endpoint, owner, sends, issued, losses>>
  BY DEF Leave
<1>3. /\ jobs' \in [Jobs -> JobState]
      /\ \A k \in Jobs :
           jobs'[k].by = None /\ jobs'[k].at = jobs[k].at /\ jobs'[k].kind = jobs[k].kind
           /\ jobs'[k].step \in {jobs[k].step, "idle"}
  <2>1. Outlived[j] \in JobState BY OutlivedSound
  <2>2. [Outlived[j] EXCEPT !.step = "idle"] \in JobState BY <2>1 DEF JobState
  <2>3. jobs' = [Outlived EXCEPT ![j] = [Outlived[j] EXCEPT !.step = "idle"]] BY <1>2, OutlivedSound
  <2>4. /\ [Outlived[j] EXCEPT !.step = "idle"].by = None
        /\ [Outlived[j] EXCEPT !.step = "idle"].at = jobs[j].at
        /\ [Outlived[j] EXCEPT !.step = "idle"].kind = jobs[j].kind
        /\ [Outlived[j] EXCEPT !.step = "idle"].step = "idle"
    BY <2>1, OutlivedSound DEF JobState
  <2> QED BY <2>2, <2>3, <2>4, OutlivedSound
<1>4. cookie \in Nobody /\ lapsed \in SUBSET Accounts BY <1>1 DEF PushTypeOK
<1>5. lapsed' \in SUBSET Accounts BY <1>2, <1>4 DEF Nobody
<1>6. cookie \notin lapsed' \cup {None} =>
        (endpoint # 0 => owner[endpoint] # cookie) /\ ~Dropping
  <2> SUFFICES ASSUME cookie \notin lapsed', cookie # None
               PROVE  (endpoint # 0 => owner[endpoint] # cookie) /\ ~Dropping
    OBVIOUS
  <2>1. jobs[j].by = cookie /\ cookie \notin lapsed BY <1>1, <1>2
  <2>2. /\ \A k \in Jobs \ {j} : At(k, "idle")
        /\ endpoint = 0 \/ owner[endpoint] # cookie
    BY <1>1, <1>2, <2>1 DEF Clean, At
  <2>3. ~Dropping BY <1>2, <2>2 DEF Dropping, At
  <2> QED BY <2>2, <2>3
<1>7. losses' \in 0..MaxLosses /\ owner' \in [Endpoints -> Nobody] BY <1>1, <1>2 DEF PushTypeOK
<1> QED BY <1>2, <1>3, <1>5, <1>6, <1>7, EndSessionSound

LEMMA ExpireSound == ASSUME PushIInv, Expire PROVE PushIInv'
<1>1. PushTypeOK /\ cookie \in Accounts BY DEF PushIInv, PushTypeOK, Expire, Nobody
<1>2. losses' \in 0..MaxLosses BY LoseTyped DEF Expire
<1> QED BY <1>1, <1>2, OutlivedSound, EndSessionSound DEF Expire, PushTypeOK

LEMMA WithdrawSound == ASSUME PushIInv, Withdraw PROVE PushIInv'
<1>1. PushTypeOK /\ cookie \in Accounts BY DEF PushIInv, PushTypeOK, Withdraw, Nobody
<1>2. losses' \in 0..MaxLosses BY LoseTyped DEF Withdraw
<1>3. owner' \in [Endpoints -> Nobody] /\ \A e \in Endpoints : owner'[e] \in {owner[e], None}
  BY <1>1 DEF Withdraw, PushTypeOK, Nobody
<1> QED BY <1>1, <1>2, <1>3, OutlivedSound, EndSessionSound DEF Withdraw, PushTypeOK

LEMMA LoginSound == ASSUME PushIInv, NEW a \in Accounts, Login(a) PROVE PushIInv'
<1>1. PushTypeOK /\ cookie = None /\ cookie' = a
      /\ UNCHANGED <<endpoint, owner, jobs, sends, issued, losses>>
  BY DEF PushIInv, Login
<1>2. lapsed' \subseteq lapsed /\ lapsed \subseteq lapsed' \cup {a} BY DEF Login
<1>3. PushTypeOK' BY <1>1, <1>2 DEF PushTypeOK, Nobody
<1>4. \A j \in Jobs : jobs[j].by = None BY <1>1 DEF PushIInv, BySound
<1>5. BySound' /\ LogoutsClean' BY <1>1, <1>4 DEF BySound, LogoutsClean, Clean
<1>6. StepsSound' /\ IssuedSound' BY <1>1 DEF PushIInv, StepsSound, IssuedSound
<1>7. OwnerSound' BY <1>1, <1>2 DEF PushIInv, OwnerSound
<1>8. PendingSound'
  <2> SUFFICES ASSUME NEW s \in Sends, endpoint \in sends[s].pending, sends[s].to \notin lapsed'
               PROVE  FALSE
    BY <1>1 DEF PendingSound
  <2>1. sends[s].to \in Accounts BY DEF PushIInv, IssuedSound
  <2>2. sends[s].to \in lapsed
    BY <1>1, <2>1, PushNoneAssumption DEF PushIInv, PendingSound
  <2>3. sends[s].to = a BY <1>2, <2>2
  <2>4. lapsed' = lapsed BY <2>3 DEF Login
  <2> QED BY <2>2, <2>4
<1> QED BY <1>3, <1>5, <1>6, <1>7, <1>8 DEF PushIInv

---------------------------------------------------------------------------
(* Sends *)

LEMMA SendStep ==
  ASSUME PushIInv, NEW s \in Sends, NEW new \in SendState, sends' = [sends EXCEPT ![s] = new],
         new.pending \subseteq 1..issued, new.gone \subseteq 1..issued, endpoint \notin new.gone,
         new.pending # {} => new.to \in Accounts,
         endpoint \in new.pending /\ new.to \notin lapsed =>
           new.to = cookie /\ (owner[endpoint] = cookie \/ Dropping),
         UNCHANGED <<cookie, endpoint, owner, jobs, lapsed, issued>>, losses' \in 0..MaxLosses
  PROVE  PushIInv'
<1>1. PushTypeOK BY DEF PushIInv
<1>2. \A t \in Sends : sends'[t] = IF t = s THEN new ELSE sends[t] BY <1>1 DEF PushTypeOK
<1>3. PushTypeOK' BY <1>1 DEF PushTypeOK
<1>4. BySound' /\ StepsSound' /\ OwnerSound' /\ LogoutsClean'
  BY DEF PushIInv, BySound, StepsSound, OwnerSound, LogoutsClean, Clean, At
<1>5. IssuedSound' BY <1>2 DEF PushIInv, IssuedSound
<1>6. Dropping' <=> Dropping BY DEF Dropping, At
<1>7. PendingSound' BY <1>2, <1>6 DEF PushIInv, PendingSound
<1> QED BY <1>3, <1>4, <1>5, <1>7 DEF PushIInv

LEMMA StartSendSound ==
  ASSUME PushIInv, NEW s \in Sends, NEW a \in Accounts, StartSend(s, a)
  PROVE  PushIInv'
<1> DEFINE rows == {e \in Endpoints : owner[e] = a}
           new == [to |-> a, pending |-> rows, gone |-> {}]
<1>1. PushTypeOK /\ sends' = [sends EXCEPT ![s] = new]
      /\ UNCHANGED <<cookie, endpoint, owner, jobs, lapsed, issued, losses>>
  BY DEF PushIInv, StartSend
<1>2. /\ new \in SendState /\ new.to = a /\ new.pending = rows /\ new.gone = {}
  BY DEF SendState, Nobody
<1>3. rows \subseteq 1..issued
  <2>1. \A e \in Endpoints : e > issued => owner[e] # a
    BY PushNoneAssumption DEF PushIInv, IssuedSound
  <2>2. issued \in 0..MaxEndpoints BY <1>1 DEF PushTypeOK
  <2> QED BY <2>1, <2>2, PushBoundsAssumption DEF Endpoints
<1>4. ASSUME endpoint \in rows, a \notin lapsed PROVE a = cookie /\ owner[endpoint] = cookie
  <2>1. endpoint # 0 /\ owner[endpoint] = a BY <1>4 DEF Endpoints
  <2> QED BY <1>4, <2>1, PushNoneAssumption DEF PushIInv, OwnerSound
<1>5. losses' \in 0..MaxLosses BY <1>1 DEF PushTypeOK
<1> HIDE DEF new, rows
<1> QED BY <1>1, <1>2, <1>3, <1>4, <1>5, SendStep

LEMMA DeliverSound ==
  ASSUME PushIInv, NEW s \in Sends, NEW e \in Endpoints, Deliver(s, e) \/ DeliverFails(s, e)
  PROVE  PushIInv'
<1>1. PushTypeOK /\ e \in sends[s].pending /\ sends[s] \in SendState
      /\ UNCHANGED <<cookie, endpoint, owner, jobs, lapsed, issued>>
  BY DEF PushIInv, PushTypeOK, Deliver, DeliverFails
<1>2. PICK gone \in {sends[s].gone, sends[s].gone \cup {e}} :
        /\ sends' = [sends EXCEPT ![s] = [sends[s] EXCEPT !.pending = @ \ {e}, !.gone = gone]]
        /\ endpoint = e => gone = sends[s].gone
  <2>1. CASE Deliver(s, e) BY <1>1, <2>1 DEF Deliver, PushTypeOK
  <2>2. CASE DeliverFails(s, e)
    <3>1. [sends[s] EXCEPT !.pending = @ \ {e}]
          = [sends[s] EXCEPT !.pending = @ \ {e}, !.gone = sends[s].gone]
      BY <1>1 DEF SendState
    <3>2. sends' = [sends EXCEPT ![s] = [sends[s] EXCEPT !.pending = @ \ {e}]]
      BY <1>1, <2>2 DEF DeliverFails, PushTypeOK
    <3> QED BY <3>1, <3>2
  <2> QED BY <2>1, <2>2
<1> DEFINE new == [sends[s] EXCEPT !.pending = @ \ {e}, !.gone = gone]
<1>3. /\ new \in SendState /\ new.to = sends[s].to /\ new.pending = sends[s].pending \ {e}
      /\ new.gone = gone
  BY <1>1, <1>2 DEF SendState
<1>4. losses' \in 0..MaxLosses BY <1>1, LoseTyped DEF Deliver, DeliverFails, PushTypeOK
<1>5. /\ sends[s].pending \subseteq 1..issued /\ sends[s].gone \subseteq 1..issued
      /\ endpoint \notin sends[s].gone
      /\ sends[s].pending # {} => sends[s].to \in Accounts
      /\ endpoint \in sends[s].pending /\ sends[s].to \notin lapsed =>
           sends[s].to = cookie /\ (owner[endpoint] = cookie \/ Dropping)
  BY DEF PushIInv, IssuedSound, PendingSound
<1>6. sends' = [sends EXCEPT ![s] = new] BY <1>2
<1> HIDE DEF new
<1>7. new.gone \subseteq 1..issued /\ endpoint \notin new.gone BY <1>1, <1>2, <1>3, <1>5
<1>8. /\ new.pending \subseteq 1..issued
      /\ new.pending # {} => new.to \in Accounts
      /\ endpoint \in new.pending /\ new.to \notin lapsed =>
           new.to = cookie /\ (owner[endpoint] = cookie \/ Dropping)
  BY <1>3, <1>5
<1> QED BY <1>1, <1>3, <1>4, <1>6, <1>7, <1>8, SendStep

LEMMA EndSendSound == ASSUME PushIInv, NEW s \in Sends, EndSend(s) PROVE PushIInv'
<1>1. PushTypeOK /\ UNCHANGED <<cookie, endpoint, jobs, lapsed, issued, losses>>
      /\ sends' = [sends EXCEPT ![s] = NoSend]
      /\ owner' = [e \in Endpoints |-> IF e \in sends[s].gone THEN None ELSE owner[e]]
  BY DEF PushIInv, EndSend
<1>2. \A t \in Sends : sends'[t] = IF t = s THEN NoSend ELSE sends[t] BY <1>1 DEF PushTypeOK
<1>3. NoSend \in SendState /\ NoSend.pending = {} /\ NoSend.gone = {}
  BY DEF NoSend, SendState, Nobody
<1>4. owner' \in [Endpoints -> Nobody] /\ \A e \in Endpoints : owner'[e] \in {None, owner[e]}
  BY <1>1 DEF PushTypeOK, Nobody
<1>5. PushTypeOK' BY <1>1, <1>3, <1>4 DEF PushTypeOK
<1>6. BySound' /\ StepsSound' BY <1>1 DEF PushIInv, BySound, StepsSound
<1>7. IssuedSound' BY <1>1, <1>2, <1>3, <1>4 DEF PushIInv, IssuedSound
<1>8. endpoint # 0 => endpoint \in Endpoints /\ owner'[endpoint] = owner[endpoint]
  BY <1>1, PushBoundsAssumption DEF PushIInv, PushTypeOK, IssuedSound, Endpoints
<1>9. OwnerSound' BY <1>1, <1>8 DEF PushIInv, OwnerSound
<1>10. PendingSound'
  <2> SUFFICES ASSUME NEW t \in Sends, endpoint \in sends'[t].pending, sends'[t].to \notin lapsed
               PROVE  sends'[t].to = cookie /\ (owner'[endpoint] = cookie \/ Dropping')
    BY <1>1 DEF PendingSound
  <2>1. sends'[t] = sends[t] BY <1>2, <1>3
  <2>2. endpoint # 0 BY <1>1, <2>1 DEF PushIInv, IssuedSound, PushTypeOK
  <2>3. Dropping => Dropping' BY <1>1 DEF Dropping, At
  <2> QED BY <1>8, <2>1, <2>2, <2>3 DEF PushIInv, PendingSound
<1>11. ASSUME NEW j \in Jobs PROVE Clean(j)'
  <2>1. Clean(j) BY DEF PushIInv, LogoutsClean
  <2> QED BY <1>1, <1>8, <2>1 DEF Clean, At
<1> QED BY <1>5, <1>6, <1>7, <1>9, <1>10, <1>11 DEF PushIInv, LogoutsClean

---------------------------------------------------------------------------
(* Theorems *)

LEMMA PushInitSound == PushInit => PushIInv
<1> SUFFICES ASSUME PushInit PROVE PushIInv OBVIOUS
<1>1. PushTypeOK
  BY PushBoundsAssumption DEF PushInit, PushTypeOK, NoSend, JobState, SendState, Nobody
<1>2. BySound /\ StepsSound /\ LogoutsClean
  BY DEF PushInit, BySound, StepsSound, LogoutsClean, Clean, At
<1>3. IssuedSound /\ OwnerSound /\ PendingSound
  BY DEF PushInit, IssuedSound, OwnerSound, PendingSound, NoSend
<1> QED BY <1>1, <1>2, <1>3 DEF PushIInv

LEMMA PushNextSound == PushIInv /\ [PushNext]_pushVars => PushIInv'
<1> SUFFICES ASSUME PushIInv, [PushNext]_pushVars PROVE PushIInv' OBVIOUS
<1>1. ASSUME NEW j \in Jobs, JobNext(j) PROVE PushIInv'
  BY <1>1, StartEnableSound, RefuseSound, BrowserSubscribeSound, RegisterSound,
     RegisterFailsSound, RollbackSound, RollbackFailsSound, StartReleaseSound,
     LogoutUnreleasedSound, LookUpSound, LookUpFailsSound, DeleteSound, DeleteFailsSound,
     DeleteUnansweredSound, DropSound, DropFailsSound, LeaveSound, LeaveFailsSound
  DEF JobNext
<1>2. ASSUME NEW s \in Sends, SendNext(s) PROVE PushIInv'
  BY <1>2, StartSendSound, DeliverSound, EndSendSound DEF SendNext
<1>3. CASE UNCHANGED pushVars
  <2>1. UNCHANGED <<cookie, endpoint, owner, jobs, sends, lapsed, issued, losses>>
    BY <1>3 DEF pushVars
  <2>2. PushTypeOK' /\ BySound' /\ StepsSound' /\ IssuedSound' /\ OwnerSound'
    BY <2>1 DEF PushIInv, PushTypeOK, BySound, StepsSound, IssuedSound, OwnerSound
  <2>3. PendingSound' /\ LogoutsClean'
    BY <2>1 DEF PushIInv, PendingSound, Dropping, At, LogoutsClean, Clean
  <2> QED BY <2>2, <2>3 DEF PushIInv
<1> QED BY <1>1, <1>2, <1>3, LoginSound, ExpireSound, WithdrawSound DEF PushNext

LEMMA PushInvariant == PushSpec => []PushIInv
BY PushInitSound, PushNextSound, PTL DEF PushSpec

\* Every state of the device, the rows and the sends is one of the types.
THEOREM PushTypeSound == PushSpec => []PushTypeOK
<1>1. PushIInv => PushTypeOK BY DEF PushIInv
<1> QED BY <1>1, PushInvariant, PTL

\* The device rings for the account signed in on it, also when the lookup or the DELETE
\* of a release fails, whatever sends are under way (releasePushOnLogout).  Excepted, by
\* the history in lapsed, are sessions that end without a logout, tasks of two pages that
\* overlap, and a subscription the browser does not hand out or give up, or is not asked
\* to after a lost answer, while it still rings for the account.
THEOREM DeviceSilentAfterLogout == PushSpec => []SilentAfterLogout
<1>1. PushIInv => SilentAfterLogout
  <2> SUFFICES ASSUME PushIInv, endpoint # 0 PROVE SilentAfterLogout
    BY DEF SilentAfterLogout, Rung
  <2>1. owner[endpoint] \in {None, cookie} \cup lapsed BY DEF PushIInv, OwnerSound
  <2>2. ASSUME NEW s \in Sends, endpoint \in sends[s].pending
        PROVE  sends[s].to \in {cookie} \cup lapsed
    BY <2>2 DEF PushIInv, PendingSound
  <2> QED BY <2>1, <2>2 DEF SilentAfterLogout, Rung
<1> QED BY <1>1, PushInvariant, PTL

=============================================================================
