---------------------------- MODULE SignInProofs ----------------------------
(***************************************************************************)
(* Proofs about SignIn for any people, addresses, social accounts,         *)
(* handlers and bounds.                                                    *)
(*                                                                         *)
(* What lets people in is read long before it is used.  The argument is    *)
(* that a handler holds on to an account only after its row has become     *)
(* "proved" - its owner consented, and no stranger's password is on it -   *)
(* and that no statement of any other handler makes a proved row unproved. *)
(***************************************************************************)
EXTENDS SignIn, TLAPS

---------------------------------------------------------------------------
(* The inductive invariant *)

Proved(e) ==
  account[e].exists /\ e \in consented /\ account[e].secret \in {None, Owner[e]}

\* The handler's person owns the address the handler works on.
Owns(c) == call[c].email \in Emails /\ Owner[call[c].email] = call[c].person

\* What a handler on its way to a session or a link knows of its account.
CallSound(c) ==
  LET e == call[c].email
  IN /\ call[c].pc # "idle" => call[c].person \in People
     /\ call[c].pc \in {"asked", "fresh", "stored"} => e \in Emails
     /\ call[c].pc = "stored" => call[c].link \in 1..MaxLinks /\ links[call[c].link].email = e
     /\ call[c].pc \in {"redeemed", "unclaimed"} => Owns(c) /\ e \in consented
     /\ call[c].pc \in {"made", "opening"} => Owns(c) /\ account[e].verified
     /\ call[c].pc \in {"oauth", "unknown", "takeover", "creating", "linking"} =>
          /\ call[c].social \in Socials /\ e = EmailOf[call[c].social] /\ Owns(c)
          /\ call[c].allow => e \in consented
     /\ call[c].pc \in {"takeover", "creating"} => call[c].allow
     /\ call[c].pc \in {"oauth", "unknown", "takeover"} => ~call[c].verified
     /\ call[c].pc = "takeover" => account[e].exists
     /\ call[c].pc = "linking" => Proved(e) /\ (call[c].verified => account[e].verified)
     /\ call[c].pc = "unproven" => Owns(c) /\ Proved(e)
     /\ call[c].pc = "attach" =>
          /\ call[c].social \in Socials /\ Owns(c) /\ account[e].verified
          /\ Owner[EmailOf[call[c].social]] = call[c].person

RowsSound == \A e \in Emails : account[e].verified => Proved(e)
IdentitiesSound ==
  \A s \in Socials :
    identity[s] # None => Proved(identity[s]) /\ Owner[identity[s]] = Owner[EmailOf[s]]
CookiesSound ==
  \A p \in People : cookie[p] # None => account[cookie[p]].verified /\ Owner[cookie[p]] = p
FlowsSound == \A f \in flows : f.signup => f.ticked
CallsSound == \A c \in Calls : CallSound(c)

IInv ==
  /\ TypeOK
  /\ RowsSound /\ IdentitiesSound /\ CookiesSound /\ FlowsSound /\ CallsSound

---------------------------------------------------------------------------
(* Types *)

LEMMA RowFacts ==
  ASSUME NEW r \in Row
  PROVE  /\ r.exists \in BOOLEAN /\ r.verified \in BOOLEAN /\ r.secret \in People \cup {None}
         /\ r.verified => r.exists
         /\ r.exists => [r EXCEPT !.secret = None] \in Row /\ [r EXCEPT !.verified = TRUE] \in Row
<1>1. CASE r = Absent BY <1>1 DEF Absent
<1>2. CASE r \in [exists : {TRUE}, verified : BOOLEAN, secret : People \cup {None}]
  <2>1. r.exists = TRUE /\ r.verified \in BOOLEAN /\ r.secret \in People \cup {None} BY <1>2
  <2>2. [r EXCEPT !.secret = None]
          \in [exists : {TRUE}, verified : BOOLEAN, secret : People \cup {None}]
    BY <1>2
  <2>3. [r EXCEPT !.verified = TRUE]
          \in [exists : {TRUE}, verified : BOOLEAN, secret : People \cup {None}]
    BY <1>2
  <2> QED BY <2>1, <2>2, <2>3 DEF Row
<1> QED BY <1>1, <1>2 DEF Row

\* A link is for an address as soon as it is worth anything, and keeps its type
\* when it is mailed or spent.
LEMMA LinkFacts ==
  ASSUME NEW l \in Link
  PROVE  /\ l.email \in Emails \cup {None}
         /\ l.valid => l.email \in Emails
         /\ [l EXCEPT !.valid = FALSE] \in Link
         /\ l.email \in Emails => [l EXCEPT !.mailed = TRUE] \in Link
<1>1. CASE l = NoLink
  <2>1. [l EXCEPT !.valid = FALSE] = NoLink BY <1>1, NoLink.valid = FALSE DEF NoLink
  <2> QED BY <1>1, <2>1, NoneAssumption DEF Link, NoLink
<1>2. CASE l \in [email : Emails, valid : BOOLEAN, mailed : BOOLEAN]
  <2>1. [l EXCEPT !.valid = FALSE] \in [email : Emails, valid : BOOLEAN, mailed : BOOLEAN]
    BY <1>2
  <2>2. [l EXCEPT !.mailed = TRUE] \in [email : Emails, valid : BOOLEAN, mailed : BOOLEAN]
    BY <1>2
  <2> QED BY <1>2, <2>1, <2>2 DEF Link
<1> QED BY <1>1, <1>2 DEF Link

LEMMA IdleTyped == Idle \in CallState
BY BoundsAssumption DEF Idle, CallState

LEMMA InitSound == Init => IInv
<1> SUFFICES ASSUME Init PROVE IInv OBVIOUS
<1> USE OwnerAssumption, EmailOfAssumption, BoundsAssumption, NoneAssumption DEF Init
<1>1. Idle \in CallState BY IdleTyped
<1>2. NewForm \in Form /\ NoJar \in Jar /\ NoLink \in Link
  BY DEF NewForm, Form, NoJar, Jar, NoLink, Link
<1>3. \A p \in People : LegacyRow(p) \in Row BY DEF LegacyRow, Row
<1>4. account \in [Emails -> Row]
  <2>1. Absent \in Row BY DEF Row
  <2>2. {Absent} \cup {LegacyRow(p) : p \in People} \subseteq Row BY <1>3, <2>1
  <2> QED BY <2>2
<1>5. TypeOK BY <1>1, <1>2, <1>4 DEF TypeOK
<1>6. \A e \in Emails : ~account[e].verified BY DEF LegacyRow, Absent
<1>7. \A c \in Calls : call[c].pc = "idle" BY DEF Idle
<1> QED
  BY <1>5, <1>6, <1>7
  DEF IInv, RowsSound, IdentitiesSound, CookiesSound, FlowsSound, CallsSound, CallSound

\* A handler that goes on, and one that answers, stay handlers.
LEMMA CallTyped ==
  ASSUME TypeOK, NEW c \in Calls
  PROVE  /\ call[c] \in CallState
         /\ \A k \in CallState : Goes(c, k) => call' \in [Calls -> CallState]
         /\ Responds(c) => call' \in [Calls -> CallState]
BY IdleTyped DEF TypeOK, Goes, Responds

LEMMA MovesTyped ==
  ASSUME TypeOK, NEW c \in Calls,
         NEW pc \in {"fresh", "unclaimed", "unknown", "takeover", "creating", "linking",
                     "unproven", "opening"},
         Moves(c, pc)
  PROVE  call' \in [Calls -> CallState]
<1>1. [call[c] EXCEPT !.pc = pc] \in CallState BY CallTyped DEF CallState
<1> QED BY <1>1, CallTyped DEF Moves

LEMMA SettledTyped ==
  ASSUME TypeOK, NEW c \in Calls, call[c].person \in People, NEW sent \in Emails \cup {None}
  PROVE  Settled(c, sent) \in [People -> Form]
<1> DEFINE p == call[c].person
<1>1. form \in [People -> Form] /\ form[p] \in Form BY DEF TypeOK
<1>2. [form[p] EXCEPT !.pending = FALSE, !.sent = sent] \in Form BY <1>1 DEF Form
<1>3. [form EXCEPT ![p].pending = FALSE, ![p].sent = sent]
        = [form EXCEPT ![p] = [form[p] EXCEPT !.pending = FALSE, !.sent = sent]]
  BY <1>1
<1> QED BY <1>1, <1>2, <1>3 DEF Settled

\* Steps of the browsers and of time, which touch no handler.
BrowserStep ==
  \/ \E p \in People : SwitchMode(p) \/ Tick(p) \/ Reload(p) \/ Logout(p)
  \/ \E p \in People, n \in 1..MaxFlows : StartOAuth(p, n)
  \/ \E e \in Emails : CooldownEnds(e)
  \/ \E n \in 1..MaxLinks : LinkExpires(n)

\* Steps that put a handler to work.
RequestStep(c) ==
  \/ \E p \in People, e \in Emails : RequestSignup(c, p, e) \/ Login(c, p, e)
  \/ \E p \in People, n \in 1..MaxLinks, ticked \in BOOLEAN : RedeemLink(c, p, n, ticked)
  \/ \E f \in flows, s \in Socials : Callback(c, f, s)

LEMMA StepCases ==
  ASSUME Next
  PROVE  BrowserStep \/ \E c \in Calls : RequestStep(c) \/ Statement(c) \/ CallFails(c)
BY DEF Next, BrowserStep, RequestStep

LEMMA BrowserTyped ==
  ASSUME TypeOK, BrowserStep
  PROVE  TypeOK'
<1> USE BoundsAssumption
<1>1. ASSUME NEW p \in People, SwitchMode(p) PROVE TypeOK'
  <2> DEFINE mode == IF form[p].mode = "login" THEN "signup" ELSE "login"
  <2>1. form \in [People -> Form] BY DEF TypeOK
  <2>2. [form[p] EXCEPT !.mode = mode, !.ticked = FALSE] \in Form BY <2>1 DEF Form
  <2>3. form' = [form EXCEPT ![p] = [form[p] EXCEPT !.mode = mode, !.ticked = FALSE]]
    BY <1>1, <2>1 DEF SwitchMode
  <2> QED BY <1>1, <2>1, <2>2, <2>3 DEF SwitchMode, TypeOK
<1>2. ASSUME NEW p \in People, Tick(p) PROVE TypeOK'
  <2> DEFINE ticked == ~form[p].ticked
  <2>1. form \in [People -> Form] BY DEF TypeOK
  <2>2. [form[p] EXCEPT !.ticked = ticked] \in Form BY <2>1 DEF Form
  <2>3. form' = [form EXCEPT ![p] = [form[p] EXCEPT !.ticked = ticked]]
    BY <1>2, <2>1 DEF Tick
  <2> QED BY <1>2, <2>1, <2>2, <2>3 DEF Tick, TypeOK
<1>3. ASSUME NEW p \in People, Reload(p) PROVE TypeOK'
  <2>1. \A mode \in {"login", "signup"} : [NewForm EXCEPT !.mode = mode] \in Form
    BY DEF NewForm, Form
  <2>2. form' \in [People -> Form] BY <1>3, <2>1 DEF Reload, TypeOK
  <2> QED BY <1>3, <2>2 DEF Reload, TypeOK
<1>4. ASSUME NEW p \in People, Logout(p) PROVE TypeOK'
  BY <1>4 DEF Logout, TypeOK
<1>5. ASSUME NEW p \in People, NEW n \in 1..MaxFlows, StartOAuth(p, n) PROVE TypeOK'
  <2>1. [state |-> n, link |-> (cookie[p] # None)] \in Jar BY DEF Jar
  <2>2. [id |-> n, person |-> p, signup |-> (form[p].mode = "signup"),
         ticked |-> (form[p].mode = "signup" /\ form[p].ticked)] \in Flow
    BY DEF TypeOK, Form, Flow
  <2> QED BY <1>5, <2>1, <2>2 DEF StartOAuth, TypeOK
<1>6. ASSUME NEW e \in Emails, CooldownEnds(e) PROVE TypeOK'
  BY <1>6 DEF CooldownEnds, TypeOK
<1>7. ASSUME NEW n \in 1..MaxLinks, LinkExpires(n) PROVE TypeOK'
  <2>1. links' \in [1..MaxLinks -> Link] BY <1>7, LinkFacts DEF LinkExpires, TypeOK
  <2> QED BY <1>7, <2>1 DEF LinkExpires, TypeOK
<1> QED BY <1>1, <1>2, <1>3, <1>4, <1>5, <1>6, <1>7 DEF BrowserStep

LEMMA RequestTyped ==
  ASSUME IInv, NEW c \in Calls, RequestStep(c)
  PROVE  TypeOK'
<1> USE BoundsAssumption, OwnerAssumption, EmailOfAssumption, NoneAssumption
<1>1. TypeOK BY DEF IInv
<1>2. \A p \in People : [form EXCEPT ![p].pending = TRUE] \in [People -> Form]
  <2>1. form \in [People -> Form] BY <1>1 DEF TypeOK
  <2> QED BY <2>1 DEF Form
<1>3. ASSUME NEW p \in People, NEW e \in Emails, RequestSignup(c, p, e) PROVE TypeOK'
  <2>1. [Idle EXCEPT !.pc = "asked", !.person = p, !.email = e] \in CallState
    BY IdleTyped DEF CallState
  <2>2. call' \in [Calls -> CallState] BY <1>1, <1>3, <2>1, CallTyped DEF RequestSignup
  <2> QED BY <1>1, <1>2, <1>3, <2>2 DEF RequestSignup, TypeOK
<1>4. ASSUME NEW p \in People, NEW e \in Emails, Login(c, p, e) PROVE TypeOK'
  <2>1. [Idle EXCEPT !.pc = "opening", !.person = p, !.email = e,
                     !.verified = TRUE, !.opens = TRUE] \in CallState
    BY IdleTyped DEF CallState
  <2>2. call' \in [Calls -> CallState] BY <1>1, <1>4, <2>1, CallTyped DEF Login
  <2> QED BY <1>1, <1>2, <1>4, <2>2 DEF Login, TypeOK
<1>5. ASSUME NEW p \in People, NEW n \in 1..MaxLinks, NEW ticked \in BOOLEAN,
             RedeemLink(c, p, n, ticked)
      PROVE  TypeOK'
  <2>1. links[n].email \in Emails \cup {None} BY <1>1, LinkFacts DEF TypeOK
  <2>2. [Idle EXCEPT !.pc = "redeemed", !.person = p, !.email = links[n].email,
                     !.link = n, !.opens = TRUE] \in CallState
    BY <2>1, n \in 0..MaxLinks, IdleTyped DEF CallState
  <2>3. call' \in [Calls -> CallState] BY <1>1, <1>5, <2>2, CallTyped DEF RedeemLink
  <2>4. links[n].email \in Emails BY <1>1, <1>5, LinkFacts DEF RedeemLink, TypeOK
  <2> QED BY <1>1, <1>5, <2>3, <2>4 DEF RedeemLink, TypeOK
<1>6. ASSUME NEW f \in flows, NEW s \in Socials, Callback(c, f, s) PROVE TypeOK'
  <2>1. f \in Flow /\ f.person \in People /\ f.signup \in BOOLEAN BY <1>1 DEF TypeOK, Flow
  <2>2. cookie[f.person] \in Emails \cup {None} /\ EmailOf[s] \in Emails
    BY <1>1, <2>1 DEF TypeOK
  <2>3. [Idle EXCEPT !.pc = "attach", !.person = f.person,
                     !.email = cookie[f.person], !.social = s] \in CallState
    BY <2>1, <2>2, IdleTyped DEF CallState
  <2>4. [Idle EXCEPT !.pc = "oauth", !.person = f.person, !.email = EmailOf[s],
                     !.social = s, !.allow = f.signup, !.opens = TRUE] \in CallState
    BY <2>1, <2>2, IdleTyped DEF CallState
  <2>5. call' \in [Calls -> CallState]
    BY <1>1, <1>6, <2>3, <2>4, CallTyped DEF Callback, TypeOK
  <2>6. consented' \subseteq Emails BY <1>1, <1>6, <2>2 DEF Callback, TypeOK
  <2>7. jar' \in [People -> Jar] /\ flows' \subseteq Flow
    BY <1>1, <1>6 DEF Callback, TypeOK, NoJar, Jar
  <2> QED BY <1>1, <1>6, <2>5, <2>6, <2>7 DEF Callback, TypeOK
<1> QED BY <1>3, <1>4, <1>5, <1>6 DEF RequestStep

\* Statements that only move the handler on.
LocalStep(c) == CheckUnclaimed(c) \/ FindIdentity(c) \/ MatchEmail(c)

LEMMA LocalTyped ==
  ASSUME IInv, NEW c \in Calls, LocalStep(c)
  PROVE  TypeOK'
<1>1. TypeOK BY DEF IInv
<1>2. call[c] \in CallState BY <1>1, CallTyped
<1>3. call' \in [Calls -> CallState]
  <2>1. CASE CheckUnclaimed(c)
    BY <1>1, <2>1, CallTyped, MovesTyped DEF CheckUnclaimed
  <2>2. CASE FindIdentity(c)
    <3> DEFINE e == identity[call[c].social]
    <3>1. CASE e = None
      BY <1>1, <2>2, <3>1, MovesTyped DEF FindIdentity
    <3>2. CASE e # None
      <4>1. call[c].social \in Socials
        BY <2>2 DEF FindIdentity, At, IInv, CallsSound, CallSound
      <4>2. e \in Emails /\ account[e].verified \in BOOLEAN
        BY <1>1, <3>2, <4>1, RowFacts DEF TypeOK
      <4>3. [call[c] EXCEPT !.email = e, !.verified = account[e].verified,
               !.pc = IF account[e].verified THEN "opening" ELSE "unproven"] \in CallState
        BY <1>2, <4>2 DEF CallState
      <4> QED BY <1>1, <2>2, <3>2, <4>3, CallTyped DEF FindIdentity
    <3> QED BY <3>1, <3>2
  <2>3. CASE MatchEmail(c)
    <3>1. [call[c] EXCEPT !.pc = "linking", !.verified = TRUE] \in CallState
      BY <1>2 DEF CallState
    <3> QED BY <1>1, <2>3, <3>1, CallTyped, MovesTyped DEF MatchEmail
  <2> QED BY <2>1, <2>2, <2>3 DEF LocalStep
<1>4. UNCHANGED <<account, identity, links, cooling, cookie, jar, flows, form, failures,
                  consented>>
  BY DEF LocalStep, CheckUnclaimed, FindIdentity, MatchEmail
<1> QED BY <1>1, <1>3, <1>4 DEF TypeOK

\* Statements about sign-up links, and the answers that reach a form.
MailStep(c) ==
  \/ CheckCooldown(c) \/ SendMail(c) \/ SpendLink(c) \/ CallFails(c)
  \/ \E n \in 1..MaxLinks : StoreLink(c, n)

LEMMA MailTyped ==
  ASSUME IInv, NEW c \in Calls, MailStep(c)
  PROVE  TypeOK'
<1> USE BoundsAssumption
<1>1. TypeOK BY DEF IInv
<1>2. call[c] \in CallState BY <1>1, CallTyped
<1>3. ~At(c, "idle") => call[c].person \in People BY DEF IInv, CallsSound, CallSound, At
<1>4. ~At(c, "idle") =>
        \A sent \in Emails \cup {None} : Settled(c, sent) \in [People -> Form]
  BY <1>1, <1>3, SettledTyped
<1>5. CASE CheckCooldown(c)
  <2>1. form' \in [People -> Form]
    BY <1>1, <1>2, <1>4, <1>5 DEF CheckCooldown, At, TypeOK, CallState
  <2>2. call' \in [Calls -> CallState]
    BY <1>1, <1>5, CallTyped, MovesTyped DEF CheckCooldown
  <2> QED BY <1>1, <1>5, <2>1, <2>2 DEF CheckCooldown, TypeOK
<1>6. CASE SendMail(c)
  <2>1. form' \in [People -> Form] BY <1>2, <1>4, <1>6 DEF SendMail, At, CallState
  <2>2. call' \in [Calls -> CallState] BY <1>1, <1>6, CallTyped DEF SendMail
  <2>3. links[call[c].link].email \in Emails
    BY <1>6 DEF SendMail, At, IInv, CallsSound, CallSound
  <2>4. links' \in [1..MaxLinks -> Link] BY <1>1, <1>6, <2>3, LinkFacts DEF SendMail, TypeOK
  <2> QED BY <1>1, <1>6, <2>1, <2>2, <2>4 DEF SendMail, TypeOK
<1>7. CASE SpendLink(c)
  <2>1. call' \in [Calls -> CallState] BY <1>1, <1>7, MovesTyped DEF SpendLink
  <2>2. links' \in [1..MaxLinks -> Link] BY <1>1, <1>7, LinkFacts DEF SpendLink, TypeOK
  <2> QED BY <1>1, <1>7, <2>1, <2>2 DEF SpendLink, TypeOK
<1>8. CASE CallFails(c)
  <2>1. form' \in [People -> Form] BY <1>4, <1>8 DEF CallFails
  <2>2. call' \in [Calls -> CallState] BY <1>1, <1>8, CallTyped DEF CallFails
  <2>3. failures' \in 0..MaxFailures BY <1>1, <1>8 DEF CallFails, TypeOK
  <2> QED BY <1>1, <1>8, <2>1, <2>2, <2>3 DEF CallFails, TypeOK
<1>9. ASSUME NEW n \in 1..MaxLinks, StoreLink(c, n) PROVE TypeOK'
  <2>1. call[c].email \in Emails BY <1>9 DEF StoreLink, At, IInv, CallsSound, CallSound
  <2>2. [call[c] EXCEPT !.pc = "stored", !.link = n] \in CallState BY <1>2, n \in 0..MaxLinks DEF CallState
  <2>3. call' \in [Calls -> CallState] BY <1>1, <1>9, <2>2, CallTyped DEF StoreLink
  <2>4. [email |-> call[c].email, valid |-> TRUE, mailed |-> FALSE] \in Link
    BY <2>1 DEF Link
  <2> QED BY <1>1, <1>9, <2>1, <2>3, <2>4 DEF StoreLink, TypeOK
<1> QED BY <1>5, <1>6, <1>7, <1>8, <1>9 DEF MailStep

\* Statements that write an account, an identity or a cookie.
TableStep(c) ==
  \/ CreateWithPassword(c) \/ CreateWithSocial(c) \/ ClearPassword(c) \/ MarkVerified(c)
  \/ InsertIdentity(c) \/ AttachIdentity(c) \/ OpenSession(c)

LEMMA StatementCases ==
  ASSUME NEW c \in Calls, Statement(c) \/ CallFails(c)
  PROVE  LocalStep(c) \/ MailStep(c) \/ TableStep(c)
BY DEF Statement, LocalStep, MailStep, TableStep

\* Every statement that writes a table has its address.
LEMMA TableOwned ==
  ASSUME IInv, NEW c \in Calls, TableStep(c)
  PROVE  /\ Owns(c) /\ call[c].email \in Emails /\ call[c].person \in People
         /\ call[c] \in CallState
<1>1. CallSound(c) /\ TypeOK BY DEF IInv, CallsSound
<1> QED
  BY <1>1, CallTyped
  DEF CallSound, TableStep, CreateWithPassword, CreateWithSocial, ClearPassword,
      MarkVerified, InsertIdentity, AttachIdentity, OpenSession, At, Owns

LEMMA TableTyped ==
  ASSUME IInv, NEW c \in Calls, TableStep(c)
  PROVE  TypeOK'
<1> USE NoneAssumption
<1> DEFINE e == call[c].email
<1>1. TypeOK BY DEF IInv
<1>2. call[c] \in CallState /\ e \in Emails /\ call[c].person \in People BY TableOwned
<1>3. account[e] \in Row BY <1>1, <1>2 DEF TypeOK
<1>4. ASSUME NEW with \in People \cup {None}, NEW next \in {"made", "linking"},
             CreateUser(c, with, next)
      PROVE  call' \in [Calls -> CallState] /\ account' \in [Emails -> Row]
  <2>1. [call[c] EXCEPT !.pc = next, !.verified = TRUE] \in CallState
    BY <1>2 DEF CallState
  <2>2. [exists |-> TRUE, verified |-> TRUE, secret |-> with] \in Row BY DEF Row
  <2> QED BY <1>1, <1>4, <2>1, <2>2, CallTyped DEF CreateUser, TypeOK
<1>5. CASE CreateWithPassword(c)
  BY <1>1, <1>2, <1>4, <1>5 DEF CreateWithPassword, TypeOK
<1>6. CASE CreateWithSocial(c)
  BY <1>1, <1>4, <1>6 DEF CreateWithSocial, TypeOK
<1>7. CASE ClearPassword(c)
  <2>1. account[e].exists BY <1>7 DEF ClearPassword, At, IInv, CallsSound, CallSound
  <2>2. [account[e] EXCEPT !.secret = None] \in Row BY <1>3, <2>1, RowFacts
  <2>3. call' \in [Calls -> CallState] BY <1>1, <1>7, MovesTyped DEF ClearPassword
  <2> QED BY <1>1, <1>7, <2>2, <2>3 DEF ClearPassword, TypeOK
<1>8. CASE MarkVerified(c)
  <2>1. account[e].exists BY <1>8 DEF MarkVerified, At, IInv, CallsSound, CallSound, Proved
  <2>2. [account[e] EXCEPT !.verified = TRUE] \in Row BY <1>3, <2>1, RowFacts
  <2>3. call' \in [Calls -> CallState] BY <1>1, <1>8, MovesTyped DEF MarkVerified
  <2> QED BY <1>1, <1>8, <2>2, <2>3 DEF MarkVerified, TypeOK
<1>9. CASE InsertIdentity(c)
  <2>1. call' \in [Calls -> CallState]
    BY <1>1, <1>9, CallTyped, MovesTyped DEF InsertIdentity
  <2> QED BY <1>1, <1>2, <1>9, <2>1 DEF InsertIdentity, TypeOK
<1>10. CASE AttachIdentity(c)
  BY <1>1, <1>2, <1>10, CallTyped DEF AttachIdentity, TypeOK
<1>11. CASE OpenSession(c)
  <2>1. NewForm \in Form BY DEF NewForm, Form
  <2> QED BY <1>1, <1>2, <1>11, <2>1, CallTyped DEF OpenSession, TypeOK
<1> QED BY <1>5, <1>6, <1>7, <1>8, <1>9, <1>10, <1>11 DEF TableStep

LEMMA TypeStep == IInv /\ [Next]_vars => TypeOK'
<1> SUFFICES ASSUME IInv, [Next]_vars PROVE TypeOK' OBVIOUS
<1>1. CASE UNCHANGED vars BY <1>1 DEF IInv, TypeOK, vars
<1>2. CASE Next
  BY <1>2, StepCases, StatementCases, BrowserTyped, RequestTyped, LocalTyped, MailTyped,
     TableTyped
  DEF IInv
<1> QED BY <1>1, <1>2

---------------------------------------------------------------------------
(* No step takes back what a handler relies on *)

Grows ==
  /\ \A e \in Emails :
       /\ account[e].exists => account'[e].exists
       /\ account[e].verified => account'[e].verified
       /\ Proved(e) => Proved(e)'
  /\ consented \subseteq consented'
  /\ \A n \in 1..MaxLinks : links[n].email # None => links'[n].email = links[n].email

\* The statements that write an account.
Writes(c) ==
  CreateWithPassword(c) \/ CreateWithSocial(c) \/ ClearPassword(c) \/ MarkVerified(c)

LEMMA WritesGrow ==
  ASSUME IInv, NEW c \in Calls, Writes(c)
  PROVE  Grows
<1>1. TypeOK BY DEF IInv
<1>2. PICK e \in Emails : e = call[c].email BY TableOwned DEF Writes, TableStep
<1>3. account[e] \in Row BY <1>1, <1>2 DEF TypeOK
<1>4. UNCHANGED <<links, consented>>
  BY DEF Writes, CreateWithPassword, CreateWithSocial, ClearPassword, MarkVerified
<1>5. \A d \in Emails \ {e} : account'[d] = account[d]
  BY <1>1, <1>2
  DEF Writes, CreateWithPassword, CreateWithSocial, CreateUser, ClearPassword,
      MarkVerified, TypeOK
<1>6. /\ account[e].exists => account'[e].exists
      /\ account[e].verified => account'[e].verified
      /\ Proved(e) => Proved(e)'
  <2>1. CASE CreateWithPassword(c) \/ CreateWithSocial(c)
    <3>1. CASE account[e].exists
      BY <1>2, <1>4, <2>1, <3>1 DEF CreateWithPassword, CreateWithSocial, CreateUser, Proved
    <3>2. CASE ~account[e].exists
      <4>1. ~account[e].verified /\ ~Proved(e) BY <1>3, <3>2, RowFacts DEF Proved
      <4> QED BY <3>2, <4>1
    <3> QED BY <3>1, <3>2
  <2>2. CASE ClearPassword(c)
    <3>1. account'[e] = [account[e] EXCEPT !.secret = None]
      BY <1>1, <1>2, <2>2 DEF ClearPassword, TypeOK
    <3>2. /\ account'[e].exists = account[e].exists
          /\ account'[e].verified = account[e].verified
          /\ account[e].exists => account'[e].secret = None
      BY <1>3, <3>1 DEF Row, Absent
    <3> QED BY <1>4, <3>2 DEF Proved
  <2>3. CASE MarkVerified(c)
    <3>1. account'[e] = [account[e] EXCEPT !.verified = TRUE]
      BY <1>1, <1>2, <2>3 DEF MarkVerified, TypeOK
    <3>2. /\ account'[e].exists = account[e].exists
          /\ account'[e].verified
          /\ account'[e].secret = account[e].secret
      BY <1>3, <3>1 DEF Row, Absent
    <3> QED BY <1>4, <3>2 DEF Proved
  <2> QED BY <2>1, <2>2, <2>3 DEF Writes
<1>7. \A d \in Emails \ {e} : Proved(d) => Proved(d)' BY <1>4, <1>5 DEF Proved
<1> QED BY <1>2, <1>4, <1>5, <1>6, <1>7 DEF Grows

\* Nothing but those writes an account, and consents are never withdrawn.
LEMMA OthersGrow ==
  ASSUME IInv, account' = account, consented \subseteq consented',
         \A n \in 1..MaxLinks : links[n].email # None => links'[n].email = links[n].email
  PROVE  Grows
BY DEF Grows, Proved

\* A handler that does not move stays sound while the tables grow.
LEMMA BystandersSound ==
  ASSUME IInv, Grows, NEW d \in Calls, call'[d] = call[d]
  PROVE  CallSound(d)'
<1>1. CallSound(d) BY DEF IInv, CallsSound
<1>2. Owns(d) => Owns(d)' BY DEF Owns
<1>3. call[d].email \in Emails =>
        /\ account[call[d].email].exists => account'[call[d].email].exists
        /\ account[call[d].email].verified => account'[call[d].email].verified
        /\ Proved(call[d].email) => Proved(call[d].email)'
        /\ call[d].email \in consented => call[d].email \in consented'
  BY DEF Grows
<1>4. Owns(d) => call[d].email \in Emails BY DEF Owns
<1> DEFINE n == call[d].link
<1>5. n \in 1..MaxLinks /\ links[n].email \in Emails => links'[n].email = links[n].email
  BY NoneAssumption DEF Grows
<1> QED BY <1>1, <1>2, <1>3, <1>4, <1>5 DEF CallSound

\* What an untouched table says of the accounts stays true while they grow.
LEMMA TablesSound ==
  ASSUME IInv, Grows
  PROVE  /\ account' = account => RowsSound'
         /\ identity' = identity => IdentitiesSound'
         /\ cookie' = cookie => CookiesSound'
<1>1. account' = account => RowsSound' BY DEF Grows, IInv, RowsSound
<1>2. identity \in [Socials -> Emails \cup {None}] /\ cookie \in [People -> Emails \cup {None}]
  BY DEF IInv, TypeOK
<1>3. ASSUME identity' = identity, NEW s \in Socials, identity[s] # None
      PROVE  Proved(identity[s])' /\ Owner[identity[s]] = Owner[EmailOf[s]]
  <2>1. identity[s] \in Emails BY <1>2, <1>3
  <2>2. Proved(identity[s])' BY <1>3, <2>1 DEF Grows, IInv, IdentitiesSound, Proved
  <2> QED BY <1>3, <2>2 DEF IInv, IdentitiesSound
<1>4. ASSUME cookie' = cookie PROVE CookiesSound'
  BY <1>2, <1>4 DEF Grows, IInv, CookiesSound
<1> QED BY <1>1, <1>3, <1>4 DEF IdentitiesSound

---------------------------------------------------------------------------
(* Preservation *)

Sound == RowsSound /\ IdentitiesSound /\ CookiesSound /\ FlowsSound /\ CallsSound

\* One handler moves, the accounts grow: it is enough to look at what it touches.
LEMMA OneMoves ==
  ASSUME IInv, Grows, NEW c \in Calls, \A d \in Calls \ {c} : call'[d] = call[d],
         CallSound(c)', FlowsSound',
         account' = account \/ RowsSound',
         identity' = identity \/ IdentitiesSound',
         cookie' = cookie \/ CookiesSound'
  PROVE  Sound'
<1>1. CallsSound' BY BystandersSound DEF CallsSound
<1> QED BY <1>1, TablesSound DEF Sound

\* A handler that has answered knows nothing.
LEMMA IdleSound ==
  ASSUME NEW c \in Calls, call'[c] = Idle
  PROVE  CallSound(c)'
BY DEF CallSound, Idle

LEMMA BrowserSound ==
  ASSUME IInv, BrowserStep
  PROVE  Sound'
<1>1. TypeOK BY DEF IInv
<1>2. UNCHANGED <<account, identity, call, consented>>
  BY DEF BrowserStep, SwitchMode, Tick, Reload, Logout, StartOAuth, CooldownEnds, LinkExpires
<1>3. Grows
  <2>1. ASSUME NEW n \in 1..MaxLinks, LinkExpires(n) PROVE Grows
    <3>1. \A m \in 1..MaxLinks : links'[m].email = links[m].email
      <4>1. links[n] \in Link BY <1>1 DEF TypeOK
      <4>2. [links[n] EXCEPT !.valid = FALSE].email = links[n].email
        BY <4>1 DEF Link, NoLink
      <4>3. links' = [links EXCEPT ![n] = [links[n] EXCEPT !.valid = FALSE]]
        BY <2>1 DEF LinkExpires
      <4> QED BY <1>1, <4>2, <4>3 DEF TypeOK
    <3> QED BY <1>2, <3>1, OthersGrow
  <2>2. ASSUME links' = links PROVE Grows BY <1>2, <2>2, OthersGrow
  <2> QED
    BY <2>1, <2>2
    DEF BrowserStep, SwitchMode, Tick, Reload, Logout, StartOAuth, CooldownEnds
<1>4. CallsSound' BY <1>2, <1>3, BystandersSound DEF CallsSound
<1>5. CookiesSound'
  <2>1. \A p \in People : cookie'[p] = cookie[p] \/ cookie'[p] = None
    BY <1>1
    DEF BrowserStep, SwitchMode, Tick, Reload, Logout, StartOAuth, CooldownEnds,
        LinkExpires, TypeOK
  <2> QED BY <1>2, <2>1 DEF IInv, CookiesSound
<1>6. FlowsSound'
  <2>1. ASSUME NEW p \in People, NEW n \in 1..MaxFlows, StartOAuth(p, n) PROVE FlowsSound'
    BY <2>1 DEF StartOAuth, IInv, FlowsSound
  <2>2. ASSUME flows' = flows PROVE FlowsSound' BY <2>2 DEF IInv, FlowsSound
  <2> QED
    BY <2>1, <2>2
    DEF BrowserStep, SwitchMode, Tick, Reload, Logout, CooldownEnds, LinkExpires
<1> QED BY <1>2, <1>3, <1>4, <1>5, <1>6, TablesSound DEF Sound

LEMMA RequestSound ==
  ASSUME IInv, NEW c \in Calls, RequestStep(c)
  PROVE  Sound'
<1> USE NoneAssumption, OwnerAssumption, EmailOfAssumption
<1>1. TypeOK BY DEF IInv
<1>2. UNCHANGED <<account, identity, links, cookie>>
  BY DEF RequestStep, RequestSignup, Login, RedeemLink, Callback
<1>3. flows' \subseteq flows /\ consented \subseteq consented'
  BY DEF RequestStep, RequestSignup, Login, RedeemLink, Callback
<1>4. Grows BY <1>2, <1>3, OthersGrow
<1>5. FlowsSound' BY <1>3 DEF IInv, FlowsSound
<1>6. \A d \in Calls \ {c} : call'[d] = call[d]
  <2>1. call \in [Calls -> CallState] BY <1>1 DEF TypeOK
  <2> QED BY <2>1 DEF RequestStep, RequestSignup, Login, RedeemLink, Callback, Goes
<1>7. CallSound(c)'
  <2>1. ASSUME NEW p \in People, NEW e \in Emails, RequestSignup(c, p, e)
        PROVE  CallSound(c)'
    <3>1. call'[c] = [Idle EXCEPT !.pc = "asked", !.person = p, !.email = e]
      BY <1>1, <2>1 DEF RequestSignup, Goes, TypeOK
    <3>2. call'[c].pc = "asked" /\ call'[c].email = e /\ call'[c].person = p
      BY <3>1 DEF Idle
    <3> QED BY <3>2 DEF CallSound
  <2>2. ASSUME NEW p \in People, NEW e \in Emails, Login(c, p, e)
        PROVE  CallSound(c)'
    <3>1. call'[c] = [Idle EXCEPT !.pc = "opening", !.person = p, !.email = e,
                                  !.verified = TRUE, !.opens = TRUE]
      BY <1>1, <2>2 DEF Login, Goes, TypeOK
    <3>2. call'[c].pc = "opening" /\ call'[c].email = e /\ call'[c].person = p
      BY <3>1 DEF Idle
    <3>3. account[e].verified /\ account[e].secret = p BY <2>2 DEF Login
    <3>4. p \in {None, Owner[e]} BY <3>3 DEF IInv, RowsSound, Proved
    <3>5. Owner[e] = p BY <3>4
    <3> QED BY <1>2, <3>2, <3>3, <3>5 DEF CallSound, Owns
  <2>3. ASSUME NEW p \in People, NEW n \in 1..MaxLinks, NEW ticked \in BOOLEAN,
               RedeemLink(c, p, n, ticked)
        PROVE  CallSound(c)'
    <3>1. call'[c] = [Idle EXCEPT !.pc = "redeemed", !.person = p, !.email = links[n].email,
                                  !.link = n, !.opens = TRUE]
      BY <1>1, <2>3 DEF RedeemLink, Goes, TypeOK
    <3>2. /\ call'[c].pc = "redeemed" /\ call'[c].email = links[n].email
          /\ call'[c].person = p
      BY <3>1 DEF Idle
    <3>3. links[n].email \in Emails BY <1>1, <2>3, LinkFacts DEF RedeemLink, TypeOK
    <3> QED BY <2>3, <3>2, <3>3 DEF CallSound, Owns, RedeemLink
  <2>4. ASSUME NEW f \in flows, NEW s \in Socials, Callback(c, f, s)
        PROVE  CallSound(c)'
    <3>1. f.person \in People /\ Owner[EmailOf[s]] = f.person /\ EmailOf[s] \in Emails
      BY <1>1, <2>4 DEF Callback, TypeOK, Flow
    <3>2. CASE call' = call
      BY <1>4, <3>2, BystandersSound
    <3>3. CASE /\ cookie[f.person] # None
               /\ Goes(c, [Idle EXCEPT !.pc = "attach", !.person = f.person,
                                       !.email = cookie[f.person], !.social = s])
      <4>1. call'[c] = [Idle EXCEPT !.pc = "attach", !.person = f.person,
                                    !.email = cookie[f.person], !.social = s]
        BY <1>1, <3>3 DEF Goes, TypeOK
      <4>2. /\ call'[c].pc = "attach" /\ call'[c].email = cookie[f.person]
            /\ call'[c].person = f.person /\ call'[c].social = s
        BY <4>1 DEF Idle
      <4>3. /\ cookie[f.person] \in Emails /\ account[cookie[f.person]].verified
            /\ Owner[cookie[f.person]] = f.person
        BY <1>1, <3>1, <3>3 DEF IInv, CookiesSound, TypeOK
      <4> QED BY <1>2, <3>1, <4>2, <4>3 DEF CallSound, Owns
    <3>4. CASE /\ Goes(c, [Idle EXCEPT !.pc = "oauth", !.person = f.person,
                                       !.email = EmailOf[s], !.social = s,
                                       !.allow = f.signup, !.opens = TRUE])
               /\ consented' = IF f.ticked THEN consented \cup {EmailOf[s]} ELSE consented
      <4>1. call'[c] = [Idle EXCEPT !.pc = "oauth", !.person = f.person,
                                    !.email = EmailOf[s], !.social = s,
                                    !.allow = f.signup, !.opens = TRUE]
        BY <1>1, <3>4 DEF Goes, TypeOK
      <4>2. /\ call'[c].pc = "oauth" /\ call'[c].email = EmailOf[s]
            /\ call'[c].person = f.person /\ call'[c].social = s
            /\ call'[c].allow = f.signup /\ call'[c].verified = FALSE
        BY <4>1 DEF Idle
      <4>3. f.signup => EmailOf[s] \in consented' BY <3>4 DEF IInv, FlowsSound
      <4> QED BY <3>1, <4>2, <4>3 DEF CallSound, Owns
    <3> QED BY <2>4, <3>2, <3>3, <3>4 DEF Callback
  <2> QED BY <2>1, <2>2, <2>3, <2>4 DEF RequestStep
<1> QED BY <1>2, <1>4, <1>5, <1>6, <1>7, OneMoves

\* What a handler keeps when it moves on: everything but its place.
LEMMA MovedOn ==
  ASSUME TypeOK, NEW c \in Calls, NEW pc, Moves(c, pc)
  PROVE  /\ call'[c].pc = pc
         /\ call'[c].person = call[c].person /\ call'[c].email = call[c].email
         /\ call'[c].social = call[c].social /\ call'[c].link = call[c].link
         /\ call'[c].allow = call[c].allow /\ call'[c].verified = call[c].verified
         /\ \A d \in Calls \ {c} : call'[d] = call[d]
<1>1. call'[c] = [call[c] EXCEPT !.pc = pc] BY DEF Moves, Goes, TypeOK
<1>2. call[c] \in CallState BY CallTyped
<1>3. \A d \in Calls \ {c} : call'[d] = call[d] BY DEF Moves, Goes, TypeOK
<1> QED BY <1>1, <1>2, <1>3 DEF CallState

LEMMA AnsweredSound ==
  ASSUME TypeOK, NEW c \in Calls, Responds(c)
  PROVE  CallSound(c)' /\ \A d \in Calls \ {c} : call'[d] = call[d]
<1>1. call'[c] = Idle /\ \A d \in Calls \ {c} : call'[d] = call[d]
  BY DEF Responds, Goes, TypeOK
<1> QED BY <1>1, IdleSound

LEMMA LocalSound ==
  ASSUME IInv, NEW c \in Calls, LocalStep(c)
  PROVE  Sound'
<1>1. TypeOK /\ CallSound(c) /\ call[c] \in CallState BY CallTyped DEF IInv, CallsSound
<1>2. UNCHANGED <<account, identity, links, cookie, flows, consented>>
  BY DEF LocalStep, CheckUnclaimed, FindIdentity, MatchEmail
<1>3. Grows BY <1>2, OthersGrow
<1>4. FlowsSound' BY <1>2 DEF IInv, FlowsSound
<1>5. CASE Responds(c) BY <1>1, <1>2, <1>3, <1>4, <1>5, AnsweredSound, OneMoves
<1>6. CASE CheckUnclaimed(c) /\ Moves(c, "unclaimed")
  <2>1. CallSound(c)'
    BY <1>1, <1>2, <1>6, MovedOn DEF CheckUnclaimed, At, CallSound, Owns
  <2> QED BY <1>1, <1>2, <1>3, <1>4, <1>6, <2>1, MovedOn, OneMoves
<1>7. CASE FindIdentity(c)
  <2> DEFINE e == identity[call[c].social]
  <2>1. /\ call[c].social \in Socials /\ call[c].email = EmailOf[call[c].social] /\ Owns(c)
        /\ call[c].allow => call[c].email \in consented
        /\ call[c].person \in People /\ ~call[c].verified
    BY <1>1, <1>7 DEF FindIdentity, At, CallSound
  <2>2. CASE e = None
    <3>1. Moves(c, "unknown") BY <1>7, <2>2 DEF FindIdentity
    <3>2. CallSound(c)' BY <1>1, <1>2, <2>1, <3>1, MovedOn DEF CallSound, Owns
    <3> QED BY <1>1, <1>2, <1>3, <1>4, <3>1, <3>2, MovedOn, OneMoves
  <2>3. CASE e # None
    <3> DEFINE pc == IF account[e].verified THEN "opening" ELSE "unproven"
    <3>1. call' = [call EXCEPT ![c] = [call[c] EXCEPT !.email = e,
                     !.verified = account[e].verified, !.pc = pc]]
      BY <1>7, <2>3 DEF FindIdentity, Goes
    <3>2. /\ call'[c].pc = pc /\ call'[c].email = e /\ call'[c].person = call[c].person
          /\ \A d \in Calls \ {c} : call'[d] = call[d]
      BY <1>1, <3>1 DEF TypeOK, CallState
    <3>3. /\ Proved(e) /\ e \in Emails
          /\ Owner[e] = Owner[EmailOf[call[c].social]]
      BY <1>1, <2>1, <2>3 DEF IInv, IdentitiesSound, TypeOK
    <3>4. /\ Owns(c)' /\ call'[c].person \in People
          /\ account'[call'[c].email].exists
          /\ call'[c].email \in consented'
          /\ account'[call'[c].email].secret \in {None, Owner[call'[c].email]}
      BY <1>2, <2>1, <3>2, <3>3, OwnerAssumption DEF Owns, Proved
    <3>5. CallSound(c)' BY <1>2, <3>2, <3>4 DEF CallSound, Proved
    <3> QED BY <1>2, <1>3, <1>4, <3>2, <3>5, OneMoves
  <2> QED BY <2>2, <2>3
<1>8. CASE MatchEmail(c) /\ ~Responds(c)
  <2>1. /\ call[c].social \in Socials /\ call[c].email = EmailOf[call[c].social] /\ Owns(c)
        /\ call[c].allow => call[c].email \in consented
        /\ call[c].person \in People /\ ~call[c].verified
    BY <1>1, <1>8 DEF MatchEmail, At, CallSound
  <2>2. CASE /\ account[call[c].email].exists /\ account[call[c].email].verified
             /\ Goes(c, [call[c] EXCEPT !.pc = "linking", !.verified = TRUE])
    <3>1. /\ call'[c].pc = "linking" /\ call'[c].person = call[c].person
          /\ call'[c].email = call[c].email /\ call'[c].social = call[c].social
          /\ call'[c].allow = call[c].allow
          /\ \A d \in Calls \ {c} : call'[d] = call[d]
      BY <1>1, <2>2 DEF Goes, TypeOK, CallState
    <3>2. Proved(call[c].email) BY <2>1, <2>2 DEF IInv, RowsSound, Owns
    <3>3. Proved(call[c].email)' BY <1>2, <3>1, <3>2 DEF Proved
    <3>4. CallSound(c)' BY <1>2, <2>1, <2>2, <3>1, <3>3 DEF CallSound, Owns
    <3> QED BY <1>2, <1>3, <1>4, <3>1, <3>4, OneMoves
  <2>3. CASE /\ account[call[c].email].exists /\ call[c].allow /\ Moves(c, "takeover")
    <3>1. CallSound(c)' BY <1>1, <1>2, <2>1, <2>3, MovedOn DEF CallSound, Owns
    <3> QED BY <1>1, <1>2, <1>3, <1>4, <2>3, <3>1, MovedOn, OneMoves
  <2>4. CASE call[c].allow /\ Moves(c, "creating")
    <3>1. CallSound(c)' BY <1>1, <1>2, <2>1, <2>4, MovedOn DEF CallSound, Owns
    <3> QED BY <1>1, <1>2, <1>3, <1>4, <2>4, <3>1, MovedOn, OneMoves
  <2> QED BY <1>8, <2>2, <2>3, <2>4 DEF MatchEmail
<1> QED BY <1>5, <1>6, <1>7, <1>8 DEF LocalStep, CheckUnclaimed

LEMMA MailSound ==
  ASSUME IInv, NEW c \in Calls, MailStep(c)
  PROVE  Sound'
<1> USE NoneAssumption
<1>1. TypeOK /\ CallSound(c) /\ call[c] \in CallState BY CallTyped DEF IInv, CallsSound
<1>2. UNCHANGED <<account, identity, cookie, flows, consented>>
  BY DEF MailStep, CheckCooldown, SendMail, SpendLink, CallFails, StoreLink
<1>3. FlowsSound' BY <1>2 DEF IInv, FlowsSound
<1>4. CASE CheckCooldown(c) \/ CallFails(c)
  <2>1. Grows BY <1>2, <1>4, OthersGrow DEF CheckCooldown, CallFails
  <2>2. CASE Responds(c) BY <1>1, <1>2, <1>3, <2>1, <2>2, AnsweredSound, OneMoves
  <2>3. CASE At(c, "asked") /\ Moves(c, "fresh")
    <3>1. CallSound(c)' BY <1>1, <2>3, MovedOn DEF CallSound, At
    <3> QED BY <1>1, <1>2, <1>3, <2>1, <2>3, <3>1, MovedOn, OneMoves
  <2> QED BY <1>4, <2>2, <2>3 DEF CheckCooldown, CallFails
<1>5. ASSUME NEW n \in 1..MaxLinks, StoreLink(c, n) PROVE Sound'
  <2> DEFINE l == [email |-> call[c].email, valid |-> TRUE, mailed |-> FALSE]
  <2>1. links[n].email = None /\ links' = [links EXCEPT ![n] = l]
    BY <1>5 DEF StoreLink
  <2>2. \A m \in 1..MaxLinks : links[m].email # None => links'[m].email = links[m].email
    BY <1>1, <2>1 DEF TypeOK
  <2>3. Grows BY <1>2, <2>2, OthersGrow
  <2>4. links'[n].email = call[c].email BY <1>1, <2>1 DEF TypeOK
  <2>5. /\ call'[c].pc = "stored" /\ call'[c].link = n
        /\ call'[c].email = call[c].email /\ call'[c].person = call[c].person
        /\ \A d \in Calls \ {c} : call'[d] = call[d]
    BY <1>1, <1>5 DEF StoreLink, Goes, TypeOK, CallState
  <2>6. call[c].email \in Emails /\ call[c].person \in People
    BY <1>1, <1>5 DEF StoreLink, At, CallSound
  <2>7. CallSound(c)' BY <2>4, <2>5, <2>6 DEF CallSound
  <2> QED BY <1>2, <1>3, <2>3, <2>5, <2>7, OneMoves
<1>6. CASE SendMail(c)
  <2> DEFINE n == call[c].link
  <2>1. n \in 1..MaxLinks /\ links[n] \in Link /\ links[n].email \in Emails
    BY <1>1, <1>6 DEF SendMail, At, CallSound, TypeOK
  <2>2. [links[n] EXCEPT !.mailed = TRUE].email = links[n].email
    BY <2>1 DEF Link, NoLink
  <2>3. links' = [links EXCEPT ![n] = [links[n] EXCEPT !.mailed = TRUE]]
    BY <1>6 DEF SendMail
  <2>4. \A m \in 1..MaxLinks : links'[m].email = links[m].email
    BY <1>1, <2>1, <2>2, <2>3 DEF TypeOK
  <2>5. Grows BY <1>2, <2>4, OthersGrow
  <2> QED BY <1>1, <1>2, <1>3, <1>6, <2>5, AnsweredSound, OneMoves DEF SendMail
<1>7. CASE SpendLink(c)
  <2> DEFINE n == call[c].link
  <2>1. \A m \in 1..MaxLinks : links'[m].email = links[m].email
    <3>1. \A m \in 1..MaxLinks : [links[m] EXCEPT !.valid = FALSE].email = links[m].email
      BY <1>1 DEF TypeOK, Link, NoLink
    <3>2. links' = [links EXCEPT ![n] = [links[n] EXCEPT !.valid = FALSE]]
      BY <1>7 DEF SpendLink
    <3> QED BY <1>1, <3>1, <3>2 DEF TypeOK
  <2>2. Grows BY <1>2, <2>1, OthersGrow
  <2>3. Moves(c, "opening") BY <1>7 DEF SpendLink
  <2>4. CallSound(c)'
    BY <1>1, <1>2, <1>7, <2>3, MovedOn DEF SpendLink, At, CallSound, Owns
  <2> QED BY <1>1, <1>2, <1>3, <2>2, <2>3, <2>4, MovedOn, OneMoves
<1> QED BY <1>4, <1>5, <1>6, <1>7 DEF MailStep

LEMMA TableSound ==
  ASSUME IInv, NEW c \in Calls, TableStep(c)
  PROVE  Sound'
<1> USE NoneAssumption, OwnerAssumption, EmailOfAssumption
<1>1. TypeOK /\ CallSound(c) /\ call[c] \in CallState BY CallTyped DEF IInv, CallsSound
<1>2. PICK e \in Emails : e = call[c].email BY TableOwned
<1>3. Owner[e] = call[c].person /\ call[c].person \in People BY <1>2, TableOwned DEF Owns
<1>4. UNCHANGED <<links, flows, consented>>
  BY DEF TableStep, CreateWithPassword, CreateWithSocial, ClearPassword, MarkVerified,
         InsertIdentity, AttachIdentity, OpenSession
<1>5. FlowsSound' BY <1>4 DEF IInv, FlowsSound
<1>6. Grows
  <2>1. CASE Writes(c) BY <2>1, WritesGrow
  <2>2. CASE account' = account BY <1>4, <2>2, OthersGrow
  <2> QED
    BY <2>1, <2>2
    DEF TableStep, Writes, InsertIdentity, AttachIdentity, OpenSession
<1>7. ASSUME Proved(e)', \A d \in Emails \ {e} : account'[d] = account[d] PROVE RowsSound'
  <2>1. \A d \in Emails \ {e} : Proved(d) => Proved(d)' BY <1>6 DEF Grows
  <2> QED BY <1>7, <2>1 DEF IInv, RowsSound
<1>8. ASSUME NEW with \in {None, Owner[e]}, NEW next \in {"made", "linking"},
             CreateUser(c, with, next), e \in consented,
             next = "linking" =>
               call[c].social \in Socials /\ call[c].email = EmailOf[call[c].social],
             UNCHANGED <<identity, cookie>>
      PROVE  Sound'
  <2>1. CASE Responds(c) /\ account' = account
    BY <1>1, <1>4, <1>5, <1>6, <1>8, <2>1, AnsweredSound, OneMoves
  <2>2. CASE /\ ~account[call[c].email].exists
             /\ account' = [account EXCEPT ![call[c].email] =
                              [exists |-> TRUE, verified |-> TRUE, secret |-> with]]
             /\ Goes(c, [call[c] EXCEPT !.pc = next, !.verified = TRUE])
    <3>1. /\ account'[e] = [exists |-> TRUE, verified |-> TRUE, secret |-> with]
          /\ \A d \in Emails \ {e} : account'[d] = account[d]
      BY <1>1, <1>2, <2>2 DEF TypeOK
    <3>2. Proved(e)' BY <1>4, <1>8, <3>1 DEF Proved
    <3>3. /\ call'[c].pc = next /\ call'[c].email = e /\ call'[c].person = call[c].person
          /\ call'[c].social = call[c].social /\ call'[c].allow = call[c].allow
          /\ \A d \in Calls \ {c} : call'[d] = call[d]
      BY <1>1, <1>2, <2>2 DEF Goes, TypeOK, CallState
    <3>4. Proved(call[c].email)' BY <1>4, <1>8, <3>1, <3>3 DEF Proved
    <3>5. CallSound(c)'
      BY <1>2, <1>3, <1>4, <1>8, <3>1, <3>3, <3>4 DEF CallSound, Owns
    <3> QED BY <1>5, <1>6, <1>7, <1>8, <3>1, <3>2, <3>3, <3>5, OneMoves
  <2> QED BY <1>8, <2>1, <2>2 DEF CreateUser
<1>9. CASE CreateWithPassword(c)
  <2>1. e \in consented BY <1>1, <1>2, <1>9 DEF CreateWithPassword, At, CallSound
  <2> QED BY <1>3, <1>8, <1>9, <2>1 DEF CreateWithPassword
<1>10. CASE CreateWithSocial(c)
  <2>1. /\ e \in consented /\ call[c].social \in Socials
        /\ call[c].email = EmailOf[call[c].social]
    BY <1>1, <1>2, <1>10 DEF CreateWithSocial, At, CallSound
  <2> QED BY <1>8, <1>10, <2>1 DEF CreateWithSocial
<1>11. CASE ClearPassword(c)
  <2>1. account[e].exists /\ e \in consented /\ call[c].social \in Socials
        /\ call[c].email = EmailOf[call[c].social]
        /\ account[e] \in Row
    BY <1>1, <1>2, <1>11 DEF ClearPassword, At, CallSound, TypeOK
  <2>2. /\ account'[e] = [account[e] EXCEPT !.secret = None]
        /\ \A d \in Emails \ {e} : account'[d] = account[d]
    BY <1>1, <1>2, <1>11 DEF ClearPassword, TypeOK
  <2>3. account'[e].exists /\ account'[e].secret = None
    BY <2>1, <2>2 DEF Row, Absent
  <2>4. Proved(e)' BY <1>4, <2>1, <2>3 DEF Proved
  <2>5. Moves(c, "linking") BY <1>11 DEF ClearPassword
  <2>6. call'[c].email = e BY <1>1, <1>2, <2>5, MovedOn
  <2>7. Proved(call[c].email)' BY <2>4, <2>6 DEF Proved
  <2>8. ~call'[c].verified BY <1>1, <1>11, <2>5, MovedOn DEF ClearPassword, At, CallSound
  <2>9. CallSound(c)'
    BY <1>1, <1>2, <1>3, <1>4, <2>1, <2>5, <2>7, <2>8, MovedOn DEF CallSound, Owns
  <2> QED BY <1>1, <1>5, <1>6, <1>7, <1>11, <2>2, <2>4, <2>5, <2>9, MovedOn, OneMoves
      DEF ClearPassword
<1>12. CASE MarkVerified(c)
  <2>1. Proved(e) /\ account[e] \in Row
    BY <1>1, <1>2, <1>12 DEF MarkVerified, At, CallSound, TypeOK
  <2>2. /\ account'[e] = [account[e] EXCEPT !.verified = TRUE]
        /\ \A d \in Emails \ {e} : account'[d] = account[d]
    BY <1>1, <1>2, <1>12 DEF MarkVerified, TypeOK
  <2>3. account'[e].verified BY <2>1, <2>2 DEF Row, Absent
  <2>4. Proved(e)' BY <1>6, <2>1 DEF Grows
  <2>5. Moves(c, "opening") BY <1>12 DEF MarkVerified
  <2>6. CallSound(c)' BY <1>1, <1>2, <1>3, <2>3, <2>5, MovedOn DEF CallSound, Owns
  <2> QED BY <1>1, <1>5, <1>6, <1>7, <1>12, <2>2, <2>4, <2>5, <2>6, MovedOn, OneMoves
      DEF MarkVerified
<1>13. CASE InsertIdentity(c)
  <2> DEFINE next == IF call[c].verified THEN "opening" ELSE "unproven"
  <2>1. UNCHANGED <<account, cookie>> BY <1>13 DEF InsertIdentity
  <2>2. CASE Responds(c) /\ identity' = identity
    BY <1>1, <1>5, <1>6, <2>1, <2>2, AnsweredSound, OneMoves
  <2>3. CASE identity' = [identity EXCEPT ![call[c].social] = call[c].email] /\ Moves(c, next)
    <3>1. /\ call[c].social \in Socials /\ e = EmailOf[call[c].social] /\ Proved(e)
          /\ call[c].verified => account[e].verified
      BY <1>1, <1>2, <1>13 DEF InsertIdentity, At, CallSound
    <3>2. Proved(e)' BY <1>6, <3>1 DEF Grows
    <3>3. \A s \in Socials :
            identity'[s] = identity[s] \/ (identity'[s] = e /\ EmailOf[s] = e)
      BY <1>1, <1>2, <2>3, <3>1 DEF TypeOK
    <3>4. IdentitiesSound'
      <4> SUFFICES ASSUME NEW s \in Socials, identity'[s] # None
                   PROVE  Proved(identity[s])' /\ Owner[identity'[s]] = Owner[EmailOf[s]]
        BY DEF IdentitiesSound
      <4>1. CASE identity'[s] = e /\ EmailOf[s] = e BY <3>2, <4>1 DEF Proved
      <4>2. CASE identity'[s] = identity[s]
        <5>1. PICK d \in Emails : d = identity[s] /\ Proved(d) /\ Owner[d] = Owner[EmailOf[s]]
          BY <1>1, <4>2 DEF TypeOK, IInv, IdentitiesSound
        <5>2. Proved(d)' BY <1>6, <5>1 DEF Grows
        <5> QED BY <4>2, <5>1, <5>2 DEF Proved
      <4> QED BY <3>3, <4>1, <4>2
    <3>5. call'[c].email = e BY <1>1, <1>2, <2>3, MovedOn
    <3>6. Proved(call[c].email)' BY <3>2, <3>5 DEF Proved
    <3>7. /\ call'[c].pc = next /\ call'[c].person = call[c].person
          /\ next \in {"opening", "unproven"}
          /\ next = "opening" => account'[e].verified
      BY <1>1, <2>1, <2>3, <3>1, MovedOn
    <3>8. CallSound(c)' BY <1>3, <3>5, <3>6, <3>7 DEF CallSound, Owns
    <3> QED BY <1>1, <1>5, <1>6, <2>1, <2>3, <3>4, <3>8, MovedOn, OneMoves
  <2> QED BY <1>13, <2>2, <2>3 DEF InsertIdentity
<1>14. CASE AttachIdentity(c)
  <2>1. /\ call[c].social \in Socials /\ account[e].verified
        /\ Owner[EmailOf[call[c].social]] = Owner[e]
    BY <1>1, <1>2, <1>3, <1>14 DEF AttachIdentity, At, CallSound
  <2>2. Proved(e) BY <2>1 DEF IInv, RowsSound
  <2>3. Proved(e)' BY <1>6, <2>2 DEF Grows
  <2>4. \A s \in Socials :
          identity'[s] = identity[s] \/ (identity'[s] = e /\ Owner[EmailOf[s]] = Owner[e])
    BY <1>1, <1>2, <1>14, <2>1 DEF AttachIdentity, TypeOK
  <2>5. IdentitiesSound'
    <3> SUFFICES ASSUME NEW s \in Socials, identity'[s] # None
                 PROVE  Proved(identity[s])' /\ Owner[identity'[s]] = Owner[EmailOf[s]]
      BY DEF IdentitiesSound
    <3>1. CASE identity'[s] = e /\ Owner[EmailOf[s]] = Owner[e] BY <2>3, <3>1 DEF Proved
    <3>2. CASE identity'[s] = identity[s]
      <4>1. PICK d \in Emails : d = identity[s] /\ Proved(d) /\ Owner[d] = Owner[EmailOf[s]]
        BY <1>1, <3>2 DEF TypeOK, IInv, IdentitiesSound
      <4>2. Proved(d)' BY <1>6, <4>1 DEF Grows
      <4> QED BY <3>2, <4>1, <4>2 DEF Proved
    <3> QED BY <2>4, <3>1, <3>2
  <2> QED BY <1>1, <1>5, <1>6, <1>14, <2>5, AnsweredSound, OneMoves DEF AttachIdentity
<1>15. CASE OpenSession(c)
  <2>1. account[e].verified BY <1>1, <1>2, <1>15 DEF OpenSession, At, CallSound
  <2>2. CookiesSound'
    <3>1. \A p \in People : cookie'[p] = cookie[p] \/ (cookie'[p] = e /\ p = Owner[e])
      BY <1>1, <1>2, <1>3, <1>15 DEF OpenSession, TypeOK
    <3> QED BY <1>15, <2>1, <3>1 DEF OpenSession, IInv, CookiesSound
  <2> QED BY <1>1, <1>5, <1>6, <1>15, <2>2, AnsweredSound, OneMoves DEF OpenSession
<1> QED BY <1>9, <1>10, <1>11, <1>12, <1>13, <1>14, <1>15 DEF TableStep

---------------------------------------------------------------------------
(* Theorems *)

\* The tables keep their types and the handlers what they rely on.
THEOREM InvariantHolds == Spec => []IInv
<1>1. ASSUME IInv, [Next]_vars PROVE IInv'
  <2>1. TypeOK' BY <1>1, TypeStep
  <2>2. CASE UNCHANGED vars
    BY <1>1, <2>1, <2>2
    DEF IInv, vars, RowsSound, IdentitiesSound, CookiesSound, FlowsSound, CallsSound,
        CallSound, Proved, Owns
  <2>3. CASE Next
    <3>1. Sound'
      BY <1>1, <2>3, StepCases, StatementCases, BrowserSound, RequestSound, LocalSound,
         MailSound, TableSound
    <3> QED BY <2>1, <3>1 DEF IInv, Sound
  <2> QED BY <1>1, <2>2, <2>3
<1> QED BY <1>1, InitSound, PTL DEF Spec

\* The types of the tables, the cookies, the forms and the handlers.
THEOREM TypeCorrect == Spec => []TypeOK
<1>1. IInv => TypeOK BY DEF IInv
<1> QED BY <1>1, InvariantHolds, PTL

\* Sessions, identities and passwords of proved accounts belong to the owner of
\* the address, whoever else set a password on it, asked for links to it or
\* raced for it.
THEOREM OwnersOnly == Spec => []OnlyOwnersEnter
<1>1. IInv => OnlyOwnersEnter
  BY DEF IInv, OnlyOwnersEnter, RowsSound, IdentitiesSound, CookiesSound, Proved
<1> QED BY <1>1, InvariantHolds, PTL

\* A proved account has its owner's consent, however logins and sign-ups mix.
THEOREM ConsentGiven == Spec => []ConsentBeforeAccount
<1>1. IInv => ConsentBeforeAccount BY DEF IInv, ConsentBeforeAccount, RowsSound, Proved
<1> QED BY <1>1, InvariantHolds, PTL

=============================================================================
