------------------------------ MODULE MCAnswers ------------------------------
(* The answer queue on the server and the screen that answers from it, side  *)
(* by side: a behaviour picks one of the two and takes its steps only.       *)
(* Handlers and the screen's calls share model values, so one permutation    *)
(* serves both.                                                              *)
EXTENDS Answering, AnswerScreen, TLC

VARIABLE component

AnswersInit ==
    /\ component \in {"queue", "screen"}
    /\ Init /\ ScreenInit

AnswersNext ==
    \/ /\ component = "queue" /\ Next
       /\ UNCHANGED <<component, screenVars>>
    \/ /\ component = "screen" /\ ScreenNext
       /\ UNCHANGED <<component, vars>>

AnswersSpec ==
    AnswersInit /\ [][AnswersNext]_<<component, vars, screenVars>>

\* The type invariants of both modules.
AnswersTypeOK == IF component = "queue" THEN TypeOK ELSE ScreenTypeOK

Symmetry == Permutations(Calls) \cup Permutations(Candidates)

=============================================================================
