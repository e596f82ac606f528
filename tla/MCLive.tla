------------------------------- MODULE MCLive -------------------------------
(* The daily deletion sweep and the unread badge, whose promises need        *)
(* fairness, side by side: a behaviour picks one of the two and takes its    *)
(* steps only.  Each step that its module assumes to be fair is fair in the  *)
(* behaviours of that component.                                             *)
EXTENDS Account, Inbox

VARIABLE component

LiveInit ==
    /\ component \in {"account", "inbox"}
    /\ Init /\ InboxInit
    /\ component # "account" => identities = {}

LiveNext ==
    \/ component = "account" /\ Next /\ UNCHANGED <<component, inboxVars>>
    \/ component = "inbox" /\ InboxNext /\ UNCHANGED <<component, vars>>

\* Account's Fairness and InboxFairness.
LiveFairness ==
    /\ WF_vars(component = "account" /\ SweepStep)
    /\ \A c \in Calls : WF_vars(component = "account" /\ Finalise(c))
    /\ WF_inboxVars(component = "inbox" /\ Poll)
    /\ WF_inboxVars(component = "inbox" /\ ReadBadge)
    /\ WF_inboxVars(component = "inbox" /\ BadgeArrives)
    /\ \A v \in Visits : WF_inboxVars(component = "inbox" /\ CallNext(v))

LiveSpec ==
    LiveInit /\ [][LiveNext]_<<component, vars, inboxVars>> /\ LiveFairness

\* The type invariants of both modules.
LiveTypeOK == IF component = "account" THEN TypeOK ELSE InboxTypeOK

=============================================================================
