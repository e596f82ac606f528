------------------------------ MODULE MCMembers ------------------------------
(* Five components that share no state, side by side: a behaviour picks one  *)
(* of them and takes its steps only.  Components share model values where    *)
(* both are interchangeable, so one permutation serves them all.             *)
EXTENDS SignIn, Retention, Saving, Composing, ReplyTone, TLC

CONSTANTS ana, bob, e1, b1, b2, d1, p1, l1, l2, l3, l4, w1, w2

\* Every address is ana's; bob is whoever types it in.
MCOwner == [e \in Emails |-> ana]
MCEmailOf == [s \in Socials |-> e1]

\* The one reply is on the first of two sheets.
MCSheetOf == [p \in Answered |-> d1]

\* Two of four suggestions are the same but for their spaces, one is empty.
MCTrimmed == (l1 :> w1) @@ (l2 :> w1) @@ (l3 :> w2) @@ (l4 :> Blank)

VARIABLE component

\* Where a component starts in more than one way, only its own runs do.
MembersInit ==
    /\ component \in {"sign-in", "retention", "saving", "composing", "tone"}
    /\ Init /\ RetentionInit /\ SavingInit /\ ComposingInit /\ ToneInit
    /\ component # "sign-in" => account = [e \in Emails |-> Absent]
    /\ component # "saving" => savedReplies = {} /\ sheet = d1
    /\ component # "composing" => author = "member"
    /\ component # "tone" =>
           ~keyed /\ \A r \in Drafts : traits[r] = [traits |-> {}, loadTest |-> FALSE]

\* Bound: two redirects are outstanding at once only where no sign-up link has
\* been issued.
FlowsOrLinks ==
    Cardinality(flows) < 2 \/ \A n \in 1..MaxLinks : links[n].email = None

MembersNext ==
    \/ /\ component = "sign-in" /\ Next /\ FlowsOrLinks'
       /\ UNCHANGED <<component, retentionVars, savingVars, composingVars, toneVars>>
    \/ /\ component = "retention" /\ RetentionNext
       /\ UNCHANGED <<component, vars, savingVars, composingVars, toneVars>>
    \/ /\ component = "saving" /\ SavingNext
       /\ UNCHANGED <<component, vars, retentionVars, composingVars, toneVars>>
    \/ /\ component = "composing" /\ ComposingNext
       /\ UNCHANGED <<component, vars, retentionVars, savingVars, toneVars>>
    \/ /\ component = "tone" /\ ToneNext
       /\ UNCHANGED <<component, vars, retentionVars, savingVars, composingVars>>

MembersSpec ==
    MembersInit /\ [][MembersNext]_<<component, vars, retentionVars, savingVars,
                                     composingVars, toneVars>>

\* The type invariants of the modules that have one.
MembersTypeOK ==
    CASE component = "sign-in" -> TypeOK
      [] component = "retention" -> RetentionTypeOK
      [] component = "saving" -> SavingTypeOK
      [] component = "composing" -> ComposingTypeOK
      [] component = "tone" -> TRUE

Symmetry == Permutations({b1, b2})

=============================================================================
