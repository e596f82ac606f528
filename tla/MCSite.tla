------------------------------- MODULE MCSite -------------------------------
(* Six components that share no state, side by side: a behaviour picks one   *)
(* of them and takes its steps only.  Components share model values where    *)
(* both are interchangeable, so one permutation serves them all.             *)
EXTENDS Reading, Push, AdminDesk, Settings, Browsing, AdminForms, TLC

CONSTANTS a1, a2, b1, b2

VARIABLE component

\* Where a component starts in more than one way, only its own runs do.
SiteInit ==
    /\ component \in {"reading", "push", "desk", "settings",
                      "browsing", "forms"}
    /\ ReadingInit /\ PushInit /\ DeskInit /\ SettingsInit
    /\ BrowsingInit /\ FormInit
    /\ component # "reading" =>
           \A q \in Requests : requests[q].author = Guest
    /\ component # "settings" => changed = None
    /\ component # "browsing" => seat = None
    /\ component # "forms" => page = "accounts"

SiteNext ==
    \/ /\ component = "reading" /\ ReadingNext
       /\ UNCHANGED <<component, pushVars, deskVars,
                      settingsVars, browsingVars, formVars>>
    \/ /\ component = "push" /\ PushNext
       /\ UNCHANGED <<component, readingVars, deskVars,
                      settingsVars, browsingVars, formVars>>
    \/ /\ component = "desk" /\ DeskNext
       /\ UNCHANGED <<component, readingVars, pushVars,
                      settingsVars, browsingVars, formVars>>
    \/ /\ component = "settings" /\ SettingsNext
       /\ UNCHANGED <<component, readingVars, pushVars, deskVars,
                      browsingVars, formVars>>
    \/ /\ component = "browsing" /\ BrowsingNext
       /\ UNCHANGED <<component, readingVars, pushVars, deskVars,
                      settingsVars, formVars>>
    \/ /\ component = "forms" /\ FormNext
       /\ UNCHANGED <<component, readingVars, pushVars, deskVars,
                      settingsVars, browsingVars>>

SiteSpec ==
    SiteInit /\ [][SiteNext]_<<component, readingVars, pushVars, deskVars,
                               settingsVars, browsingVars, formVars>>

\* The type invariants of the six modules.
SiteTypeOK ==
    CASE component = "reading"  -> ReadingTypeOK
      [] component = "push"     -> PushTypeOK
      [] component = "desk"     -> DeskTypeOK
      [] component = "settings" -> SettingsTypeOK
      [] component = "browsing" -> BrowsingTypeOK
      [] component = "forms"    -> FormTypeOK

Symmetry == Permutations({a1, a2}) \cup Permutations({b1, b2})

=============================================================================
