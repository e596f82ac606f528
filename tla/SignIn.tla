------------------------------ MODULE SignIn ------------------------------
(***************************************************************************)
(* How an account comes to be and who may enter it: sign-up by a mailed    *)
(* link, login by password, sign-up, login and linking by a social         *)
(* account, with the login screen and the browser's cookies they start     *)
(* from.                                                                   *)
(*                                                                         *)
(* Every handler is a run of awaited statements without a transaction, as  *)
(* in the other modules: one action per statement, the handler's locals in *)
(* its record of call.  users.email is UNIQUE and nothing here changes it, *)
(* so an account is named by its email; the constraint is the second       *)
(* disjunct of the two INSERTs.  What withdrawal does to an account is     *)
(* module Account.                                                         *)
(***************************************************************************)
EXTENDS Naturals, FiniteSets, NoValue

CONSTANTS
  People,        \* who sits in front of a browser; each has one
  Emails,        \* addresses
  Socials,       \* accounts at Google, Kakao or Naver
  Owner,         \* whose inbox an address is
  EmailOf,       \* the verified address a provider reports for an account
  Calls,         \* handlers in flight
  MaxLinks,      \* bound: sign-up links issued
  MaxFlows,      \* bound: OAuth redirects
  MaxFailures    \* bound: statements that reject, processes that stop

ASSUME OwnerAssumption == Owner \in [Emails -> People]
ASSUME EmailOfAssumption == EmailOf \in [Socials -> Emails]
ASSUME BoundsAssumption ==
  MaxLinks \in Nat /\ MaxFlows \in Nat /\ MaxFailures \in Nat
ASSUME NoneAssumption == None \notin People \cup Emails \cup Socials

VARIABLES
  account,     \* users: the row of each address
  identity,    \* oauth_identities: the account a social account is linked to
  links,       \* pending_signups, by number
  cooling,     \* addresses whose newest pending row is less than 60 s old
  cookie,      \* the account each browser's session cookie is for
  jar,         \* each browser's oauth_state and oauth_link_intent cookies
  flows,       \* OAuth redirects whose callback has not come back
  form,        \* each browser's login screen
  call,        \* the handlers
  failures,    \* how many failures so far
  consented    \* history: addresses in whose name somebody ticked the consent

vars == <<account, identity, links, cooling, cookie, jar, flows, form, call,
          failures, consented>>

---------------------------------------------------------------------------
(* Types *)

\* secret is whoever chose the password on file; people type only their own.
Absent == [exists |-> FALSE, verified |-> FALSE, secret |-> None]
Row == {Absent} \cup [exists : {TRUE}, verified : BOOLEAN, secret : People \cup {None}]

\* What is left of the sign-up that created accounts before their address was
\* proved: a password nobody has vouched for.
LegacyRow(p) == [exists |-> TRUE, verified |-> FALSE, secret |-> p]

NoLink == [email |-> None, valid |-> FALSE, mailed |-> FALSE]
Link == {NoLink} \cup [email : Emails, valid : BOOLEAN, mailed : BOOLEAN]

\* oauth_state holds the number of a flow, 0 without the cookie.
Jar == [state : 0..MaxFlows, link : BOOLEAN]
NoJar == [state |-> 0, link |-> FALSE]

\* signup is the state's prefix, ticked whether the person had consented.
Flow == [id : 1..MaxFlows, person : People, signup : BOOLEAN, ticked : BOOLEAN]

\* sent is the address of the "we sent you a mail" screen.
Form == [mode : {"login", "signup"}, ticked : BOOLEAN, pending : BOOLEAN,
         sent : Emails \cup {None}]
NewForm == [mode |-> "login", ticked |-> FALSE, pending |-> FALSE, sent |-> None]

\* verified is what the handler read of its account, opens whether it is to end
\* with a session, link the sign-up link it issues or redeems.
CallState ==
  [pc : {"idle", "asked", "fresh", "stored", "redeemed", "unclaimed", "made",
         "oauth", "unknown", "takeover", "creating", "linking", "unproven",
         "attach", "opening"},
   person : People \cup {None}, email : Emails \cup {None},
   social : Socials \cup {None}, link : 0..MaxLinks,
   allow : BOOLEAN, verified : BOOLEAN, opens : BOOLEAN]
Idle == [pc |-> "idle", person |-> None, email |-> None, social |-> None,
         link |-> 0, allow |-> FALSE, verified |-> FALSE, opens |-> FALSE]

TypeOK ==
  /\ account \in [Emails -> Row]
  /\ identity \in [Socials -> Emails \cup {None}]
  /\ links \in [1..MaxLinks -> Link]
  /\ cooling \subseteq Emails
  /\ cookie \in [People -> Emails \cup {None}]
  /\ jar \in [People -> Jar]
  /\ flows \subseteq Flow
  /\ form \in [People -> Form]
  /\ call \in [Calls -> CallState]
  /\ failures \in 0..MaxFailures
  /\ consented \subseteq Emails

---------------------------------------------------------------------------
Init ==
  /\ account \in [Emails -> {Absent} \cup {LegacyRow(p) : p \in People}]
  /\ identity = [s \in Socials |-> None]
  /\ links = [n \in 1..MaxLinks |-> NoLink]
  /\ cooling = {}
  /\ cookie = [p \in People |-> None]
  /\ jar = [p \in People |-> NoJar]
  /\ flows = {}
  /\ form = [p \in People |-> NewForm]
  /\ call = [c \in Calls |-> Idle]
  /\ failures = 0
  /\ consented = {}

\* A handler that goes on as `to`, and one that answers.
Goes(c, to) == call' = [call EXCEPT ![c] = to]
At(c, pc) == call[c].pc = pc
Moves(c, pc) == Goes(c, [call[c] EXCEPT !.pc = pc])
Responds(c) == Goes(c, Idle)

---------------------------------------------------------------------------
(* The login screen *)

\* Both directions clear the consent.
SwitchMode(p) ==
  /\ form[p].sent = None
  /\ form' = [form EXCEPT ![p].mode = IF @ = "login" THEN "signup" ELSE "login",
                          ![p].ticked = FALSE]
  /\ UNCHANGED <<account, identity, links, cooling, cookie, jar, flows, call,
                 failures, consented>>

Tick(p) ==
  /\ form[p].sent = None /\ form[p].mode = "signup"
  /\ form' = [form EXCEPT ![p].ticked = ~@]
  /\ UNCHANGED <<account, identity, links, cooling, cookie, jar, flows, call,
                 failures, consented>>

\* The page is loaded again, with ?mode=signup or without.
Reload(p) ==
  /\ \E mode \in {"login", "signup"} :
       form' = [form EXCEPT ![p] = [NewForm EXCEPT !.mode = mode]]
  /\ UNCHANGED <<account, identity, links, cooling, cookie, jar, flows, call,
                 failures, consented>>

\* The form of the person a handler works for leaves "pending" with its answer.
\* A form that was reloaded in between no longer hears it.
Settled(c, sent) ==
  LET p == call[c].person
  IN IF form[p].pending
     THEN [form EXCEPT ![p].pending = FALSE, ![p].sent = sent]
     ELSE form

---------------------------------------------------------------------------
(* requestSignup *)

\* The submit of the sign-up form and the handler's findByEmail.  Anybody may
\* type any address; one that has an account answers 409.
RequestSignup(c, p, e) ==
  /\ At(c, "idle")
  /\ form[p].mode = "signup" /\ form[p].ticked /\ form[p].sent = None
  /\ ~form[p].pending
  /\ ~account[e].exists
  /\ Goes(c, [Idle EXCEPT !.pc = "asked", !.person = p, !.email = e])
  /\ form' = [form EXCEPT ![p].pending = TRUE]
  /\ UNCHANGED <<account, identity, links, cooling, cookie, jar, flows, failures,
                 consented>>

\* findMostRecentByEmail: within the cooldown the answer is a silent success.
CheckCooldown(c) ==
  /\ At(c, "asked")
  /\ \/ /\ call[c].email \in cooling
        /\ form' = Settled(c, call[c].email)
        /\ Responds(c)
     \/ /\ call[c].email \notin cooling
        /\ Moves(c, "fresh")
        /\ UNCHANGED form
  /\ UNCHANGED <<account, identity, links, cooling, cookie, jar, flows, failures,
                 consented>>

\* The pending row is stored before the mail goes out.
StoreLink(c, n) ==
  /\ At(c, "fresh")
  /\ links[n].email = None
  /\ links' = [links EXCEPT ![n] =
                 [email |-> call[c].email, valid |-> TRUE, mailed |-> FALSE]]
  /\ cooling' = cooling \cup {call[c].email}
  /\ Goes(c, [call[c] EXCEPT !.pc = "stored", !.link = n])
  /\ UNCHANGED <<account, identity, cookie, jar, flows, form, failures, consented>>

\* emailService.send arrives in the inbox of the address' owner.
SendMail(c) ==
  /\ At(c, "stored")
  /\ links' = [links EXCEPT ![call[c].link].mailed = TRUE]
  /\ form' = Settled(c, call[c].email)
  /\ Responds(c)
  /\ UNCHANGED <<account, identity, cooling, cookie, jar, flows, failures, consented>>

CooldownEnds(e) ==
  /\ e \in cooling
  /\ cooling' = cooling \ {e}
  /\ UNCHANGED <<account, identity, links, cookie, jar, flows, form, call, failures,
                 consented>>

LinkExpires(n) ==
  /\ links[n].valid
  /\ links' = [links EXCEPT ![n].valid = FALSE]
  /\ UNCHANGED <<account, identity, cooling, cookie, jar, flows, form, call, failures,
                 consented>>

---------------------------------------------------------------------------
(* completeSignup *)

\* Whoever reads the inbox opens the link, ticks the consent on its page and
\* submits a password; findValidByHash finds the row or answers 400.
RedeemLink(c, p, n, ticked) ==
  /\ At(c, "idle")
  /\ links[n].mailed /\ Owner[links[n].email] = p
  /\ ticked
  /\ links[n].valid
  /\ Goes(c, [Idle EXCEPT !.pc = "redeemed", !.person = p, !.email = links[n].email,
                          !.link = n, !.opens = TRUE])
  /\ consented' = consented \cup {links[n].email}
  /\ UNCHANGED <<account, identity, links, cooling, cookie, jar, flows, form, failures>>

\* findByEmail again: the address may have been claimed since the mail.
CheckUnclaimed(c) ==
  /\ At(c, "redeemed")
  /\ IF account[call[c].email].exists THEN Responds(c) ELSE Moves(c, "unclaimed")
  /\ UNCHANGED <<account, identity, links, cooling, cookie, jar, flows, form, failures,
                 consented>>

\* The INSERT of a verified account, or users.email's constraint (500).
CreateUser(c, with, next) ==
  LET e == call[c].email
  IN \/ /\ ~account[e].exists
        /\ account' = [account EXCEPT ![e] = [exists |-> TRUE, verified |-> TRUE, secret |-> with]]
        /\ Goes(c, [call[c] EXCEPT !.pc = next, !.verified = TRUE])
     \/ /\ account[e].exists
        /\ Responds(c)
        /\ UNCHANGED account

CreateWithPassword(c) ==
  /\ At(c, "unclaimed")
  /\ CreateUser(c, call[c].person, "made")
  /\ UNCHANGED <<identity, links, cooling, cookie, jar, flows, form, failures, consented>>

SpendLink(c) ==
  /\ At(c, "made")
  /\ links' = [links EXCEPT ![call[c].link].valid = FALSE]
  /\ Moves(c, "opening")
  /\ UNCHANGED <<account, identity, cooling, cookie, jar, flows, form, failures, consented>>

---------------------------------------------------------------------------
(* login *)

\* The submit, findByEmail, the comparison and the check of emailVerifiedAt,
\* all on the row as read.  A wrong password and an unproved address answer.
Login(c, p, e) ==
  /\ At(c, "idle")
  /\ form[p].mode = "login" /\ form[p].sent = None /\ ~form[p].pending
  /\ account[e].exists /\ account[e].secret = p /\ account[e].verified
  /\ Goes(c, [Idle EXCEPT !.pc = "opening", !.person = p, !.email = e,
                          !.verified = TRUE, !.opens = TRUE])
  /\ form' = [form EXCEPT ![p].pending = TRUE]
  /\ UNCHANGED <<account, identity, links, cooling, cookie, jar, flows, failures,
                 consented>>

\* createSession and the Set-Cookie of the answer: the screen is left.
OpenSession(c) ==
  /\ At(c, "opening")
  /\ cookie' = [cookie EXCEPT ![call[c].person] = call[c].email]
  /\ form' = [form EXCEPT ![call[c].person] = NewForm]
  /\ Responds(c)
  /\ UNCHANGED <<account, identity, links, cooling, jar, flows, failures, consented>>

Logout(p) ==
  /\ cookie[p] # None
  /\ cookie' = [cookie EXCEPT ![p] = None]
  /\ UNCHANGED <<account, identity, links, cooling, jar, flows, form, call, failures,
                 consented>>

---------------------------------------------------------------------------
(* Social accounts *)

\* The state is random; a number stands for one that nothing remembers any more.
NumberTaken(n) == (\E f \in flows : f.id = n) \/ (\E p \in People : jar[p].state = n)

\* A click on a provider's button and oauthRedirect: a new state, with the
\* sign-up intent in it, overwrites the browser's; a live session makes it an
\* intent to link.  The sign-up button works only with the consent ticked.
\* Somebody without a social account does not come back from the provider and is
\* left out.
StartOAuth(p, n) ==
  /\ \E s \in Socials : Owner[EmailOf[s]] = p
  /\ ~NumberTaken(n) /\ \A m \in 1..(n - 1) : NumberTaken(m)
  /\ form[p].sent = None /\ ~form[p].pending
  /\ form[p].mode = "signup" => form[p].ticked
  /\ flows' = flows \cup
       {[id |-> n, person |-> p, signup |-> (form[p].mode = "signup"),
         ticked |-> (form[p].mode = "signup" /\ form[p].ticked)]}
  /\ jar' = [jar EXCEPT ![p] = [state |-> n, link |-> (cookie[p] # None)]]
  /\ UNCHANGED <<account, identity, links, cooling, cookie, form, call, failures,
                 consented>>

\* Mutation of Callback: the sign-up intent is what the screen shows when the
\* answer comes back, not what the state says.
CallbackOfScreen(c, f, s) ==
  /\ At(c, "idle")
  /\ Owner[EmailOf[s]] = f.person
  /\ flows' = flows \ {f}
  /\ jar' = [jar EXCEPT ![f.person] = NoJar]
  /\ jar[f.person].state = f.id
  /\ Goes(c, [Idle EXCEPT !.pc = "oauth", !.person = f.person, !.email = EmailOf[s],
                          !.social = s, !.allow = (form[f.person].mode = "signup"),
                          !.opens = TRUE])
  /\ consented' = IF f.ticked THEN consented \cup {EmailOf[s]} ELSE consented
  /\ UNCHANGED <<account, identity, links, cooling, cookie, form, failures>>

\* oauthCallback, for the social account the person chose at the provider.  The
\* cookies go in any case; a state that is not the browser's answers an error;
\* an intent to link needs the session that is live now, and without one the
\* callback is a login.
Callback(c, f, s) ==
  /\ At(c, "idle")
  /\ Owner[EmailOf[s]] = f.person
  /\ flows' = flows \ {f}
  /\ jar' = [jar EXCEPT ![f.person] = NoJar]
  /\ \/ /\ jar[f.person].state # f.id
        /\ UNCHANGED <<call, consented>>
     \/ /\ jar[f.person].state = f.id
        /\ jar[f.person].link /\ cookie[f.person] # None
        /\ Goes(c, [Idle EXCEPT !.pc = "attach", !.person = f.person,
                                !.email = cookie[f.person], !.social = s])
        /\ UNCHANGED consented
     \/ /\ jar[f.person].state = f.id
        /\ ~(jar[f.person].link /\ cookie[f.person] # None)
        /\ Goes(c, [Idle EXCEPT !.pc = "oauth", !.person = f.person,
                                !.email = EmailOf[s], !.social = s,
                                !.allow = f.signup, !.opens = TRUE])
        /\ consented' = IF f.ticked THEN consented \cup {EmailOf[s]} ELSE consented
  /\ UNCHANGED <<account, identity, links, cooling, cookie, form, failures>>

\* findByProviderAccount and the account it leads to.
FindIdentity(c) ==
  /\ At(c, "oauth")
  /\ LET e == identity[call[c].social]
     IN \/ /\ e = None
           /\ Moves(c, "unknown")
        \/ /\ e # None
           /\ Goes(c, [call[c] EXCEPT !.email = e, !.verified = account[e].verified,
                         !.pc = IF account[e].verified THEN "opening" ELSE "unproven"])
  /\ UNCHANGED <<account, identity, links, cooling, cookie, jar, flows, form, failures,
                 consented>>

\* Mutation of MatchEmail: an unproved account is taken over with its password.
MatchEmailKeeping(c) ==
  /\ At(c, "unknown")
  /\ LET row == account[call[c].email]
     IN \/ /\ ~call[c].allow /\ ~row.verified
           /\ Responds(c)
        \/ /\ row.exists /\ (row.verified \/ call[c].allow)
           /\ Goes(c, [call[c] EXCEPT !.pc = "linking", !.verified = row.verified])
        \/ /\ ~row.exists /\ call[c].allow
           /\ Moves(c, "creating")
  /\ UNCHANGED <<account, identity, links, cooling, cookie, jar, flows, form, failures,
                 consented>>

\* findByEmail: a proved account is merged with, an unproved one taken over, a
\* missing one created; the last two only with the sign-up intent, and without
\* it the answer is the way to the sign-up screen.
MatchEmail(c) ==
  /\ At(c, "unknown")
  /\ LET row == account[call[c].email]
     IN \/ /\ ~call[c].allow /\ ~row.verified
           /\ Responds(c)
        \/ /\ row.exists /\ row.verified
           /\ Goes(c, [call[c] EXCEPT !.pc = "linking", !.verified = TRUE])
        \/ /\ row.exists /\ ~row.verified /\ call[c].allow
           /\ Moves(c, "takeover")
        \/ /\ ~row.exists /\ call[c].allow
           /\ Moves(c, "creating")
  /\ UNCHANGED <<account, identity, links, cooling, cookie, jar, flows, form, failures,
                 consented>>

ClearPassword(c) ==
  /\ At(c, "takeover")
  /\ account' = [account EXCEPT ![call[c].email].secret = None]
  /\ Moves(c, "linking")
  /\ UNCHANGED <<identity, links, cooling, cookie, jar, flows, form, failures, consented>>

CreateWithSocial(c) ==
  /\ At(c, "creating")
  /\ CreateUser(c, None, "linking")
  /\ UNCHANGED <<identity, links, cooling, cookie, jar, flows, form, failures, consented>>

\* The INSERT of the identity, or its unique constraint (500).
InsertIdentity(c) ==
  /\ At(c, "linking")
  /\ \/ /\ identity[call[c].social] = None
        /\ identity' = [identity EXCEPT ![call[c].social] = call[c].email]
        /\ Moves(c, IF call[c].verified THEN "opening" ELSE "unproven")
     \/ /\ identity[call[c].social] # None
        /\ Responds(c)
        /\ UNCHANGED identity
  /\ UNCHANGED <<account, links, cooling, cookie, jar, flows, form, failures, consented>>

\* markEmailVerified, whatever became of the row since it was read.
MarkVerified(c) ==
  /\ At(c, "unproven")
  /\ account' = [account EXCEPT ![call[c].email].verified = TRUE]
  /\ Moves(c, "opening")
  /\ UNCHANGED <<identity, links, cooling, cookie, jar, flows, form, failures, consented>>

\* linkOAuth: somebody else's social account answers 409, one's own is left as
\* it is, a new one goes through the INSERT of InsertIdentity, after which the
\* handler answers.  An account with a session is verified (OnlyOwnersEnter),
\* so the handler's own markEmailVerified does not run.
AttachIdentity(c) ==
  /\ At(c, "attach")
  /\ \/ /\ identity[call[c].social] = None
        /\ identity' = [identity EXCEPT ![call[c].social] = call[c].email]
     \/ /\ identity[call[c].social] # None
        /\ UNCHANGED identity
  /\ Responds(c)
  /\ UNCHANGED <<account, links, cooling, cookie, jar, flows, form, failures, consented>>

\* A statement or the mail provider rejects, or the process stops: the tables
\* keep what they have, the form shows an error.
CallFails(c) ==
  /\ ~At(c, "idle")
  /\ failures < MaxFailures
  /\ failures' = failures + 1
  /\ form' = Settled(c, None)
  /\ Responds(c)
  /\ UNCHANGED <<account, identity, links, cooling, cookie, jar, flows, consented>>

---------------------------------------------------------------------------
Statement(c) ==
  \/ CheckCooldown(c)
  \/ \E n \in 1..MaxLinks : StoreLink(c, n)
  \/ SendMail(c)
  \/ CheckUnclaimed(c)
  \/ CreateWithPassword(c)
  \/ SpendLink(c)
  \/ OpenSession(c)
  \/ FindIdentity(c)
  \/ MatchEmail(c)
  \/ ClearPassword(c)
  \/ CreateWithSocial(c)
  \/ InsertIdentity(c)
  \/ MarkVerified(c)
  \/ AttachIdentity(c)

Next ==
  \/ \E p \in People : SwitchMode(p) \/ Tick(p) \/ Reload(p) \/ Logout(p)
  \/ \E p \in People, n \in 1..MaxFlows : StartOAuth(p, n)
  \/ \E c \in Calls, p \in People, e \in Emails : RequestSignup(c, p, e) \/ Login(c, p, e)
  \/ \E c \in Calls, p \in People, n \in 1..MaxLinks, ticked \in BOOLEAN :
       RedeemLink(c, p, n, ticked)
  \/ \E c \in Calls, f \in flows, s \in Socials : Callback(c, f, s)
  \/ \E c \in Calls : Statement(c) \/ CallFails(c)
  \/ \E e \in Emails : CooldownEnds(e)
  \/ \E n \in 1..MaxLinks : LinkExpires(n)

Spec == Init /\ [][Next]_vars

---------------------------------------------------------------------------
(* Properties *)

\* Nobody enters an account whose address they have not proved: a session, an
\* identity and the password of a proved account all belong to the owner of the
\* address, in particular after a takeover of an account somebody else had set a
\* password on (auth.service.ts, loginWithOAuth; "never proven to belong to
\* whoever just showed up").
OnlyOwnersEnter ==
  /\ \A p \in People : cookie[p] # None => account[cookie[p]].verified /\ Owner[cookie[p]] = p
  /\ \A s \in Socials : identity[s] # None => Owner[identity[s]] = Owner[EmailOf[s]]
  /\ \A e \in Emails : account[e].verified => account[e].secret \in {Owner[e], None}

\* No account comes to life without its owner's consent, however the flows of
\* several tabs mix: a login never creates or activates one (LoginForm,
\* oauthCallback: "Bind signup intent to the same CSRF state").
ConsentBeforeAccount == \A e \in Emails : account[e].verified => e \in consented

===========================================================================
