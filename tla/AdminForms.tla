----------------------------- MODULE AdminForms -----------------------------
(***************************************************************************)
(* The administrators' two one-shot forms: issuing a password reset link   *)
(* for an e-mail address and sending a test push to one.  Each form shows  *)
(* the data of its mutation; editing a field resets the mutation, which    *)
(* forgets the call on its way without stopping it.                        *)
(***************************************************************************)
EXTENDS NoValue

CONSTANTS
    Emails,      \* addresses typed into the field
    Submissions  \* calls sent by the form

VARIABLES
    page,      \* "accounts" or "pushTest"
    fields,    \* email (None: empty) and the push form's switch
    current,   \* the submission the mutation observer follows, or None
    result,    \* the submission whose data is on the screen, or None
    spinner,   \* useMinDisplayDuration's hold on the button
    sent,      \* each submission with the fields it carried
    copied,    \* "copied" is shown beside the link
    clipboard  \* clipboard writes that have not finished

formVars == <<page, fields, current, result, spinner, sent, copied, clipboard>>

Idle == [email |-> None, persist |-> FALSE, leg |-> "idle"]

FormInit ==
    /\ page \in {"accounts", "pushTest"}
    /\ fields = [email |-> None, persist |-> FALSE]
    /\ current = None /\ result = None /\ spinner = FALSE
    /\ sent = [s \in Submissions |-> Idle]
    /\ copied = FALSE /\ clipboard = {}

-----------------------------------------------------------------------------

\* mutation.reset(): neither the call nor its data is followed any more.
Reset == current' = None /\ result' = None

TypeEmail(e) ==
    /\ e # fields.email
    /\ fields' = [fields EXCEPT !.email = e]
    /\ Reset
    /\ copied' = FALSE
    /\ UNCHANGED <<page, spinner, sent, clipboard>>

TogglePersistOnly ==
    /\ page = "pushTest"
    /\ fields' = [fields EXCEPT !.persist = ~@]
    /\ UNCHANGED <<page, current, result, spinner, sent, copied, clipboard>>

TogglePersist ==
    /\ page = "pushTest"
    /\ fields' = [fields EXCEPT !.persist = ~@]
    /\ Reset
    /\ UNCHANGED <<page, spinner, sent, copied, clipboard>>

\* handleSubmit: the mutation now follows this call and drops what it showed.
HandleSubmit(s) ==
    /\ fields.email # None
    /\ ~spinner
    /\ sent[s] = Idle
    /\ sent' = [sent EXCEPT ![s] = [email |-> fields.email, persist |-> fields.persist,
                                     leg |-> "sent"]]
    /\ current' = s /\ result' = None
    /\ spinner' = TRUE
    /\ copied' = FALSE
    /\ UNCHANGED <<page, fields, clipboard>>

SpinnerEnds ==
    /\ spinner
    /\ current # None => sent[current].leg # "sent"
    /\ spinner' = FALSE
    /\ UNCHANGED <<page, fields, current, result, sent, copied, clipboard>>

\* AdminController.issuePasswordResetLink or sendTestPush answered.  The
\* accounts form empties its field after every answer, followed or not.
Answer(s) ==
    /\ sent[s].leg = "sent"
    /\ sent' = [sent EXCEPT ![s].leg = "done"]
    /\ result' = IF current = s THEN s ELSE result
    /\ fields' = IF page = "accounts" THEN [fields EXCEPT !.email = None]
                 ELSE fields
    /\ UNCHANGED <<page, current, spinner, copied, clipboard>>

\* No such account, no permission, or no answer: only an error is shown.
Rejected(s) ==
    /\ sent[s].leg = "sent"
    /\ sent' = [sent EXCEPT ![s].leg = "done"]
    /\ UNCHANGED <<page, fields, current, result, spinner, copied, clipboard>>

\* handleCopy: the confirmation waits for the clipboard.
HandleCopy ==
    /\ page = "accounts" /\ result # None
    /\ clipboard' = clipboard \cup {result}
    /\ UNCHANGED <<page, fields, current, result, spinner, sent, copied>>

Copied(s) ==
    /\ s \in clipboard
    /\ clipboard' = clipboard \ {s}
    /\ copied' = TRUE
    /\ UNCHANGED <<page, fields, current, result, spinner, sent>>

FormNext ==
    \/ \E e \in Emails \cup {None} : TypeEmail(e)
    \/ TogglePersist \/ SpinnerEnds \/ HandleCopy
    \/ \E s \in Submissions : HandleSubmit(s) \/ Answer(s) \/ Rejected(s) \/ Copied(s)

FormSpec == FormInit /\ [][FormNext]_formVars

-----------------------------------------------------------------------------

FormTypeOK ==
    /\ page \in {"accounts", "pushTest"}
    /\ fields \in [email : Emails \cup {None}, persist : BOOLEAN]
    /\ {current, result} \subseteq Submissions \cup {None}
    /\ {spinner, copied} \subseteq BOOLEAN
    /\ sent \in [Submissions -> [email : Emails \cup {None}, persist : BOOLEAN,
                                  leg : {"idle", "sent", "done"}]]
    /\ clipboard \subseteq Submissions

(***************************************************************************)
(* What a form shows was answered for what the form says: the link or the  *)
(* number of devices on the screen belongs to the address in the field (or *)
(* the field has been emptied) and to the switch as it stands, whatever is *)
(* edited while a call is on its way and however late it is answered.      *)
(***************************************************************************)
ResultIsOfThisForm ==
    result # None =>
        /\ fields.email \in {None, sent[result].email}
        /\ fields.persist = sent[result].persist

=============================================================================
