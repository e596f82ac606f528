---------------------------- MODULE Withdrawal ----------------------------
(***************************************************************************)
(* What leaving promises, without sessions, handlers or statements: an     *)
(* account whose owner asks to leave has a grace period, in which nothing  *)
(* is taken from it and its owner may come back.  It is closed only after  *)
(* that period, or because its owner asked for that at once; a sweep that  *)
(* has listed it may close it although the owner has come back since.      *)
(* Closing takes password and nickname, is for good, and is the only thing *)
(* that ever takes a key from an account.  Account implements this.        *)
(***************************************************************************)
CONSTANT Users

VARIABLES
  phase,    \* how far each account is on its way out
  keys,     \* what each account has of its password, nickname and identity
  listed,   \* accounts the sweep has found past their grace period
  waived    \* accounts whose owner waived the grace period

leavingVars == <<phase, keys, listed, waived>>

Phases == {"active", "pending", "lapsed", "closed"}
Keys == {"password", "nickname", "identity"}

Init ==
  /\ phase = [u \in Users |-> "active"]
  /\ keys \in [Users -> SUBSET Keys]
  /\ listed = {}
  /\ waived = {}

Closed(u) == phase[u] = "closed"

Becomes(u, to) ==
  /\ ~Closed(u)
  /\ phase' = [phase EXCEPT ![u] = to]
  /\ UNCHANGED <<keys, listed, waived>>

Leave(u) == Becomes(u, "pending")
GraceEnds(u) == phase[u] = "pending" /\ Becomes(u, "lapsed")
Return(u) == Becomes(u, "active")

Waive(u) ==
  /\ waived' = waived \cup {u}
  /\ UNCHANGED <<phase, keys, listed>>

List ==
  /\ listed' = {u \in Users : phase[u] = "lapsed"}
  /\ UNCHANGED <<phase, keys, waived>>

\* Whoever was to close an account may give up.
GiveUp ==
  /\ listed' \in SUBSET listed
  /\ waived' \in SUBSET waived
  /\ UNCHANGED <<phase, keys>>

Close(u) ==
  /\ u \in listed \cup waived
  /\ phase' = [phase EXCEPT ![u] = "closed"]
  /\ keys' = [keys EXCEPT ![u] = @ \ {"password", "nickname"}]
  /\ listed' \in SUBSET listed
  /\ waived' \in SUBSET waived

\* A key is added, or what closing has left behind is cleared away.
Gain(u, key) ==
  /\ keys' = [keys EXCEPT ![u] = @ \cup {key}]
  /\ UNCHANGED <<phase, listed, waived>>

Clear(u) ==
  /\ Closed(u)
  /\ keys' = [keys EXCEPT ![u] = @ \ {"identity"}]
  /\ UNCHANGED <<phase, listed, waived>>

Next ==
  \/ List \/ GiveUp
  \/ \E u \in Users :
       \/ Leave(u) \/ GraceEnds(u) \/ Return(u) \/ Waive(u)
       \/ Close(u) \/ Clear(u)
       \/ \E key \in Keys : Gain(u, key)

Spec == Init /\ [][Next]_leavingVars

===========================================================================
