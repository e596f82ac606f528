----------------------------- MODULE Composing ------------------------------
(***************************************************************************)
(* Leaving a request on the today screen: the draft, the switch that shows *)
(* the nickname, the submit button with its spinner, and the calls of POST *)
(* /requests.  useTodayComposer guards a submission with a ref because the *)
(* mutation's pending state reaches the screen only with the next render;  *)
(* RequestComposer disables itself by what is rendered.                    *)
(***************************************************************************)
EXTENDS Naturals, FiniteSets

CONSTANTS
    Sendings,   \* calls of POST /requests
    MaxEditions \* bound: how often the draft is rewritten

ASSUME EditionsAssumption == MaxEditions \in Nat

VARIABLES
    draft,     \* the draft: whether it holds a text, and its edition
    naming,    \* the switch "leave it under my nickname"
    viewer,    \* what auth/me says: "loading", "nameless" or "named"
    author,    \* "member", "guest", or "spent": a guest whose request is used
    inFlight,  \* requestSubmittingRef.current
    spinning,  \* the composer is rendered disabled
    posts,     \* each call
    rows       \* the rows of requests, by the call that created them

composingVars ==
    <<draft, naming, viewer, author, inFlight, spinning, posts, rows>>

Unsent == [leg |-> "unsent", edition |-> 0, anonymous |-> TRUE]

ComposingInit ==
    /\ draft = [full |-> FALSE, edition |-> 0]
    /\ naming = FALSE
    /\ viewer = "loading"
    /\ author \in {"member", "guest", "spent"}
    /\ inFlight = FALSE /\ spinning = FALSE
    /\ posts = [p \in Sendings |-> Unsent]
    /\ rows = {}

-----------------------------------------------------------------------------

\* useAuth settles, or the member sets a nickname elsewhere.
Recognise(who) ==
    /\ who = "named" => author = "member"
    /\ viewer = "named" => who = "named"
    /\ viewer # who /\ viewer' = who
    /\ UNCHANGED <<draft, naming, author, inFlight, spinning, posts, rows>>

\* updateRequestDraft: the textarea is disabled by what is rendered.
TypeDraft(full) ==
    /\ ~spinning
    /\ draft.edition < MaxEditions
    /\ draft' = [full |-> full, edition |-> draft.edition + 1]
    /\ UNCHANGED <<naming, viewer, author, inFlight, spinning, posts, rows>>

\* toggleAnonymous: the switch is there for a member with a nickname, also
\* while a submission is on its way.
ToggleAnonymous ==
    /\ viewer = "named"
    /\ naming' = ~naming
    /\ UNCHANGED <<draft, viewer, author, inFlight, spinning, posts, rows>>

CanSubmit == draft.full /\ ~spinning

Send(p) == posts' = [posts EXCEPT ![p] =
    [leg |-> "sent", edition |-> draft.edition,
     anonymous |-> viewer = "named" => ~naming]]

SubmitUnguarded(p) ==
    /\ CanSubmit
    /\ posts[p] = Unsent
    /\ Send(p)
    /\ inFlight' = TRUE
    /\ UNCHANGED <<draft, naming, viewer, author, spinning, rows>>

\* submitRequest: nothing is sent while the ref says one is on its way.
SubmitRequest(p) ==
    /\ CanSubmit
    /\ ~inFlight
    /\ posts[p] = Unsent
    /\ Send(p)
    /\ inFlight' = TRUE
    /\ UNCHANGED <<draft, naming, viewer, author, spinning, rows>>

Pending == \E p \in Sendings : posts[p].leg \in {"sent", "kept"}

\* The render that shows the pending state.
Render ==
    /\ Pending /\ ~spinning
    /\ spinning' = TRUE
    /\ UNCHANGED <<draft, naming, viewer, author, inFlight, posts, rows>>

\* useMinDisplayDuration lets go after the call, never before it.
SpinnerEnds ==
    /\ spinning /\ ~Pending
    /\ spinning' = FALSE
    /\ UNCHANGED <<draft, naming, viewer, author, inFlight, posts, rows>>

-----------------------------------------------------------------------------

\* RequestsService.create stores the row for a member, or for a guest who has
\* none yet.  A member's name is shown only if there is one.
Keep(p) ==
    /\ posts[p].leg = "sent"
    /\ author # "spent"
    /\ author = "guest" => rows = {}
    /\ posts[p].anonymous \/ viewer = "named"
    /\ rows' = rows \cup {p}
    /\ posts' = [posts EXCEPT ![p].leg = "kept"]
    /\ UNCHANGED <<draft, naming, viewer, author, inFlight, spinning>>

\* onSuccess, and the rest of submitRequest: the draft is emptied.
Succeed(p) ==
    /\ posts[p].leg = "kept"
    /\ posts' = [posts EXCEPT ![p].leg = "answered"]
    /\ draft' = [draft EXCEPT !.full = FALSE]
    /\ inFlight' = FALSE
    /\ UNCHANGED <<naming, viewer, author, spinning, rows>>

\* A refusal, or an answer that never arrives: the draft stays for a retry.
Reject(p) ==
    /\ posts[p].leg \in {"sent", "kept"}
    /\ posts' = [posts EXCEPT ![p].leg = "failed"]
    /\ inFlight' = FALSE
    /\ UNCHANGED <<draft, naming, viewer, author, spinning, rows>>

ComposingNext ==
    \/ \E who \in {"nameless", "named"} : Recognise(who)
    \/ \E full \in BOOLEAN : TypeDraft(full)
    \/ ToggleAnonymous \/ Render \/ SpinnerEnds
    \/ \E p \in Sendings : SubmitRequest(p) \/ Keep(p) \/ Succeed(p) \/ Reject(p)

ComposingSpec == ComposingInit /\ [][ComposingNext]_composingVars

-----------------------------------------------------------------------------

ComposingTypeOK ==
    /\ draft \in [full : BOOLEAN, edition : 0..MaxEditions]
    /\ viewer \in {"loading", "nameless", "named"}
    /\ author \in {"member", "guest", "spent"}
    /\ {naming, inFlight, spinning} \subseteq BOOLEAN
    /\ posts \in [Sendings -> [leg : {"unsent", "sent", "kept", "answered", "failed"},
                            edition : 0..MaxEditions, anonymous : BOOLEAN]]
    /\ rows \subseteq Sendings

(***************************************************************************)
(* One text is left once: two rows of one draft mean that the answer to    *)
(* one of them was lost, however fast the button is pressed again before   *)
(* the screen shows that a submission is on its way.                       *)
(***************************************************************************)
PostedOnce ==
    \A p, q \in rows : p # q /\ posts[p].edition = posts[q].edition
        => "failed" \in {posts[p].leg, posts[q].leg}

=============================================================================
