-------------------------------- MODULE MCOwn --------------------------------
(* A member's account and the page of the member's records, side by side: a  *)
(* behaviour picks one of the two and takes its steps only.                  *)
EXTENDS Account, Records, TLC

VARIABLE part

\* Where an account starts in more than one way, only its own runs do.
OwnInit ==
    /\ part \in {"account", "records"}
    /\ Init /\ RecordsInit
    /\ part # "account" => identities = {}

OwnNext ==
    \/ part = "account" /\ Next /\ UNCHANGED <<part, recordsVars>>
    \/ part = "records" /\ RecordsNext /\ UNCHANGED <<part, vars>>

OwnSpec == OwnInit /\ [][OwnNext]_<<part, vars, recordsVars>>

\* The type invariants of both modules.
OwnTypeOK == IF part = "account" THEN TypeOK ELSE RecordsTypeOK

Sym == Permutations(Calls)

=============================================================================
