----------------------------- MODULE AutoHide -----------------------------
(***************************************************************************)
(* What reporting and auto-hide promise, without handlers, rows or stamps: *)
(* people complain about a target, each of them once and for good; a       *)
(* target somebody can see is hidden only when a threshold of different    *)
(* people have complained; only a review shows it again; what is deleted   *)
(* stays deleted.  Moderation implements this.                             *)
(***************************************************************************)
CONSTANTS
  Targets,     \* requests and replies
  Users,       \* people who may complain
  Enough       \* the sets of people whose complaints hide a target

VARIABLES
  complaints,  \* who complained about each target
  hidden,      \* the targets hidden from the public
  gone         \* the targets deleted for good

abstractVars == <<complaints, hidden, gone>>

Init ==
  /\ complaints = [t \in Targets |-> {}]
  /\ hidden = {}
  /\ gone = {}

Complain(t, u) ==
  /\ u \notin complaints[t]
  /\ complaints' = [complaints EXCEPT ![t] = @ \cup {u}]
  /\ UNCHANGED <<hidden, gone>>

Hide(t) ==
  /\ complaints[t] \in Enough
  /\ hidden' = hidden \cup {t}
  /\ UNCHANGED <<complaints, gone>>

Review(t) ==
  /\ hidden' = hidden \ {t}
  /\ UNCHANGED <<complaints, gone>>

Delete(t) ==
  /\ gone' = gone \cup {t}
  /\ UNCHANGED <<complaints, hidden>>

Next ==
  \E t \in Targets :
    \/ \E u \in Users : Complain(t, u)
    \/ Hide(t)
    \/ Review(t)
    \/ Delete(t)

Spec == Init /\ [][Next]_abstractVars

===========================================================================
