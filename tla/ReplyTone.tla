----------------------------- MODULE ReplyTone ------------------------------
(***************************************************************************)
(* The dry run of tone moderation over a stored reply: the policy that     *)
(* excludes test traffic and blocks by pattern, the language model's two   *)
(* calls with their timeouts, and the log row it leaves.  Nobody waits for *)
(* it: whatever fails on the way is caught, and a restart forgets it.      *)
(***************************************************************************)
EXTENDS Naturals, Sequences, Functions, NoValue

CONSTANTS
    Drafts,    \* replies that are moderated
    Lines,     \* raw suggestions of the model
    Trimmed,   \* normalizeText: each raw line's text
    Blank,     \* the empty text
    MaxLines   \* bound: suggestions in one answer of the model

ASSUME LinesAssumption == DOMAIN Trimmed = Lines /\ MaxLines \in Nat

VARIABLES
    keyed,    \* OPENAI_API_KEY is set
    traits,   \* each reply's traits; loadTest: the request was marked as one
    job,      \* where the reply's dry run stands, and its result so far
    said,     \* what the classifier answered in time, or None
    verdicts  \* the row of reply_moderation_logs, or None

toneVars == <<keyed, traits, job, said, verdicts>>

\* What the policy can see in a text.
Traits == SUBSET {"tagged", "banned"}

Actions == {"allow", "suggest_rewrite", "block", "uncertain"}
ASSUME ActionsAssumption == None \notin Actions

Result(action, excluded, suggestions, error) ==
    [action |-> action, excluded |-> excluded, suggestions |-> suggestions,
     error |-> error]

NoResult == Result(None, FALSE, <<>>, FALSE)

-----------------------------------------------------------------------------
(* The policy.                                                             *)

\* detectExcludedReason: by the caller's mark or by the text's own tag.
Excluded(t) == t.loadTest \/ "tagged" \in t.traits

\* evaluateHardBlock.
HardBlocked(t) == "banned" \in t.traits

MaxSuggestions == 3

\* One more line: a text that is empty, or kept already, or too many, is passed over.
KeepLine(kept, line) ==
    IF \/ Trimmed[line] \in {Blank} \cup Range(kept)
       \/ Len(kept) = MaxSuggestions
    THEN kept ELSE Append(kept, Trimmed[line])

\* normalizeSuggestions: the first three different texts that are not empty.
NormalizeSuggestions(raw) ==
    LET kept[n \in 0..Len(raw)] ==
            IF n = 0 THEN <<>> ELSE KeepLine(kept[n - 1], raw[n])
    IN kept[Len(raw)]

-----------------------------------------------------------------------------

ToneInit ==
    /\ keyed \in BOOLEAN
    /\ traits \in [Drafts -> [traits : Traits, loadTest : BOOLEAN]]
    /\ job = [r \in Drafts |-> [step |-> "unstored", result |-> NoResult]]
    /\ said = [r \in Drafts |-> None]
    /\ verdicts = [r \in Drafts |-> None]

Judged(r, result) == job' = [job EXCEPT ![r] = [step |-> "judged",
                                                result |-> result]]

\* moderateInBackground, up to its first wait: moderate answers at once for
\* excluded traffic and for a pattern's block, and asks the model otherwise.
Moderate(r) ==
    /\ job[r].step = "unstored"
    /\ CASE Excluded(traits[r]) -> Judged(r, Result("allow", TRUE, <<>>, FALSE))
         [] ~Excluded(traits[r]) /\ HardBlocked(traits[r]) ->
                Judged(r, Result("block", FALSE, <<>>, FALSE))
         [] OTHER -> job' = [job EXCEPT ![r].step = "asking"]
    /\ UNCHANGED <<keyed, traits, said, verdicts>>

\* The classifier's answer, parsed, within its timeout: a rewrite is asked for
\* what is neither allowed nor blocked.
Classify(r, action) ==
    /\ job[r].step = "asking" /\ keyed
    /\ said' = [said EXCEPT ![r] = action]
    /\ IF action \in {"allow", "block"}
       THEN Judged(r, Result(action, FALSE, <<>>, FALSE))
       ELSE job' = [job EXCEPT ![r] =
                [step |-> "rewriting", result |-> Result(action, FALSE, <<>>, FALSE)]]
    /\ UNCHANGED <<keyed, traits, verdicts>>

ClassifyFailsOpen(r) ==
    /\ job[r].step = "asking"
    /\ Judged(r, Result("allow", FALSE, <<>>, TRUE))
    /\ UNCHANGED <<keyed, traits, said, verdicts>>

\* No key, no answer in time, an error, or an answer that does not parse.
ClassifyFails(r) ==
    /\ job[r].step = "asking"
    /\ Judged(r, Result("uncertain", FALSE, <<>>, TRUE))
    /\ UNCHANGED <<keyed, traits, said, verdicts>>

\* rewrite normalises what the model suggests.
Rewrite(r, raw) ==
    /\ job[r].step = "rewriting"
    /\ Judged(r, [job[r].result EXCEPT !.suggestions = NormalizeSuggestions(raw)])
    /\ UNCHANGED <<keyed, traits, said, verdicts>>

RewriteFails(r) ==
    /\ job[r].step = "rewriting"
    /\ Judged(r, [job[r].result EXCEPT !.error = TRUE])
    /\ UNCHANGED <<keyed, traits, said, verdicts>>

\* recordDryRunResult.
Record(r) ==
    /\ job[r].step = "judged"
    /\ verdicts' = [verdicts EXCEPT ![r] = job[r].result]
    /\ job' = [job EXCEPT ![r].step = "over"]
    /\ UNCHANGED <<keyed, traits, said>>

\* The insert fails, and is logged; or the process restarts in the middle.
Forget(r) ==
    /\ job[r].step \in {"asking", "rewriting", "judged"}
    /\ job' = [job EXCEPT ![r].step = "over"]
    /\ UNCHANGED <<keyed, traits, said, verdicts>>

RawAnswers == UNION {[1..n -> Lines] : n \in 0..MaxLines}

ToneNext ==
    \E r \in Drafts :
        \/ Moderate(r) \/ ClassifyFails(r) \/ RewriteFails(r)
        \/ Record(r) \/ Forget(r)
        \/ \E action \in Actions : Classify(r, action)
        \/ \E raw \in RawAnswers : Rewrite(r, raw)

ToneSpec == ToneInit /\ [][ToneNext]_toneVars

-----------------------------------------------------------------------------

(***************************************************************************)
(* A logged verdict has a ground.  "allow" stands only for test traffic or *)
(* because the classifier answered it in time: no failure, timeout or      *)
(* missing key ever becomes an "allow".  A pattern's block is not softened *)
(* and never asks the model, and what carries suggestions was neither      *)
(* allowed nor blocked.  The suggestions are worth showing: at most three, *)
(* none empty, no two the same once spaces are normalised.                 *)
(***************************************************************************)
VerdictHasGround ==
    \A r \in Drafts : verdicts[r] # None =>
        LET row == verdicts[r] t == traits[r] IN
        /\ row.action = "allow" => Excluded(t) \/ said[r] = "allow"
        /\ row.action = "block" <=>
               ~Excluded(t) /\ (HardBlocked(t) \/ said[r] = "block")
        /\ Excluded(t) \/ HardBlocked(t) => said[r] = None
        /\ row.suggestions # <<>> => row.action \in {"suggest_rewrite", "uncertain"}
        /\ Len(row.suggestions) <= MaxSuggestions
        /\ Range(row.suggestions) \subseteq Range(Trimmed) \ {Blank}
        /\ IsInjective(row.suggestions)

=============================================================================
