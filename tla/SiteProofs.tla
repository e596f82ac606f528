------------------------------ MODULE SiteProofs ------------------------------
(***************************************************************************)
(* Proofs about the administrators' review desk and forms, the settings,   *)
(* the browser tab, and the composition the runs of MCSite explore.        *)
(*                                                                         *)
(* The desk: a mutation's answer reaches every cached list, so what a list *)
(* shows of a row is at most as old as the last answer about it.           *)
(* The forms: a result is kept only while nothing it was asked with has    *)
(* been edited.                                                            *)
(* The settings: a rename passes its check long before it writes, under a  *)
(* cooldown an admin may have changed since.  What it knows at its write   *)
(* is about the change it had read: if that is still the last one, the     *)
(* days since then have only become more, and its own copy of the settings *)
(* is untouched.                                                           *)
(* The tab: until something astray happens, the member it names is the one *)
(* the cookie names, and every row and every fetch on its way is theirs.   *)
(***************************************************************************)
EXTENDS MCSite, ReadingProofs, PushProofs

---------------------------------------------------------------------------
(* AdminDesk: the inductive invariant *)

Entries == [data : Snapshots \cup {None}, fetch : {"none", "sent", "read"},
            got : Snapshots \cup {None}, invalid : BOOLEAN]
Mutations == [op : {"none", "restore", "delete"}, row : Rows \cup {None},
              step : {"idle", "sent", "done", "answered", "failed"}]

DeskTyped ==
  /\ table \in [Rows -> [hidden : BOOLEAN, deleted : BOOLEAN]]
  /\ view \in Keys
  /\ asking \in Rows \cup {None}
  /\ clicks \in [Clicks -> Mutations]
  /\ lists \in [Keys -> Entries]

ClicksSound == \A c \in Clicks : clicks[c].step = "idle" <=> clicks[c].row = None

\* A snapshot of a key lists rows of its kind in its status.
OfKey(k, d) ==
  \A p \in DOMAIN d.listed : k[1] \in {"review", KindOf(p)} /\ k[2] \in {"all", d.listed[p]}

\* A mutation of the key's rows that has been answered.
Due(k, c) == clicks[c].step = "answered" /\ k[1] \in {"review", KindOf(clicks[c].row)}

\* What an entry holds or is about to hold covers what was answered, or says it does not.
EntrySound(k, entry) ==
  /\ entry.got # None <=> entry.fetch = "read"
  /\ entry.data # None => OfKey(k, entry.data)
  /\ entry.got # None => OfKey(k, entry.got)
  /\ \A c \in Clicks : Due(k, c) =>
       /\ entry.data # None /\ ~entry.invalid /\ ~entry.data.overtaken => c \in entry.data.covers
       /\ entry.got # None /\ ~entry.got.overtaken => c \in entry.got.covers

ListsSound == \A k \in Keys : EntrySound(k, lists[k])

DeskIInv == DeskTyped /\ ClicksSound /\ ListsSound

LEMMA KeysTyped ==
  ASSUME NEW k \in Keys
  PROVE  /\ k[1] \in {"review", "requests", "replies"}
         /\ k[1] = "review" => k[2] = "hidden"
BY DEF Keys, KindOf

LEMMA SnapshotTyped ==
  ASSUME DeskIInv, NEW k \in Keys
  PROVE  /\ Snapshot(k) \in Snapshots /\ Snapshot(k) # None /\ OfKey(k, Snapshot(k))
         /\ \A c \in Clicks : Due(k, c) => c \in Snapshot(k).covers
<1>1. Lookup(k) \in SUBSET Rows BY DEF Lookup, FindHidden, FindAllForAdmin
<1>2. \A p \in Rows : Status(table[p]) \in {"visible", "hidden", "deleted"} BY DEF Status
<1> DEFINE listed == [p \in Lookup(k) |-> Status(table[p])]
<1>3. listed \in [Lookup(k) -> {"visible", "hidden", "deleted"}] BY <1>1, <1>2
<1>4. listed \in UNION {[S -> {"visible", "hidden", "deleted"}] : S \in SUBSET Rows}
  BY <1>1, <1>3
<1>5. Snapshot(k).listed = listed
      /\ Snapshot(k).covers = {c \in Clicks : clicks[c].step \in {"done", "answered"}}
  BY DEF Snapshot
<1>6. Snapshot(k) \in Snapshots BY <1>4 DEF Snapshot, Snapshots
<1>7. ASSUME NEW p \in Lookup(k)
      PROVE  k[1] \in {"review", KindOf(p)} /\ k[2] \in {"all", listed[p]}
  <2>1. CASE k[1] = "review"
    <3>1. Status(table[p]) = "hidden" /\ k[2] = "hidden"
      BY <1>7, <2>1, KeysTyped DEF Lookup, FindHidden
    <3> QED BY <2>1, <3>1
  <2>2. CASE k[1] # "review" BY <1>7, <2>2 DEF Lookup, FindAllForAdmin
  <2> QED BY <2>1, <2>2
<1>8. OfKey(k, Snapshot(k)) BY <1>5, <1>7 DEF OfKey
<1>9. \A c \in Clicks : Due(k, c) => c \in Snapshot(k).covers BY <1>5 DEF Due
<1> QED BY <1>6, <1>8, <1>9, SnapshotsAssumption

\* One entry is replaced and no mutation is answered.
LEMMA EntryMoves ==
  ASSUME DeskIInv, NEW k \in Keys, NEW entry \in Entries, EntrySound(k, entry),
         lists' = [lists EXCEPT ![k] = entry],
         view' \in Keys, UNCHANGED <<table, asking, clicks>>
  PROVE  DeskIInv'
<1>1. DeskTyped' BY DEF DeskIInv, DeskTyped
<1>2. ClicksSound' BY DEF DeskIInv, ClicksSound
<1>3. \A l \in Keys : lists'[l] = IF l = k THEN entry ELSE lists[l] BY DEF DeskIInv, DeskTyped
<1>4. ListsSound' BY <1>3 DEF DeskIInv, ListsSound, EntrySound, Due
<1> QED BY <1>1, <1>2, <1>4 DEF DeskIInv

LEMMA EntryNow ==
  ASSUME DeskIInv, NEW k \in Keys
  PROVE  lists[k] \in Entries /\ EntrySound(k, lists[k]) /\ view \in Keys
BY DEF DeskIInv, DeskTyped, ListsSound

LEMMA ReadListSound == ASSUME DeskIInv, NEW k \in Keys, Read(k) PROVE DeskIInv'
<1> DEFINE entry == [lists[k] EXCEPT !.fetch = "read", !.got = Snapshot(k)]
<1>1. lists' = [lists EXCEPT ![k] = entry] /\ UNCHANGED <<table, view, asking, clicks>>
  BY DEF Read, DeskIInv, DeskTyped
<1>2. entry \in Entries BY EntryNow, SnapshotTyped DEF Entries
<1>3. /\ entry.fetch = "read" /\ entry.got = Snapshot(k)
      /\ entry.data = lists[k].data /\ entry.invalid = lists[k].invalid
  BY EntryNow DEF Entries
<1> HIDE DEF entry
<1>4. EntrySound(k, entry) BY <1>3, EntryNow, SnapshotTyped DEF EntrySound
<1> QED BY <1>1, <1>2, <1>4, EntryNow, EntryMoves

LEMMA ArriveSound == ASSUME DeskIInv, NEW k \in Keys, Arrive(k) PROVE DeskIInv'
<1> DEFINE entry == [lists[k] EXCEPT !.data = lists[k].got, !.got = None,
                                     !.fetch = "none", !.invalid = FALSE]
<1>1. lists' = [lists EXCEPT ![k] = entry] /\ UNCHANGED <<table, view, asking, clicks>>
      /\ lists[k].fetch = "read"
  BY DEF Arrive, DeskIInv, DeskTyped
<1>2. entry \in Entries BY EntryNow DEF Entries
<1>3. entry.fetch = "none" /\ entry.got = None /\ entry.data = lists[k].got
  BY EntryNow DEF Entries
<1> HIDE DEF entry
<1>4. EntrySound(k, entry) BY <1>1, <1>3, EntryNow DEF EntrySound
<1> QED BY <1>1, <1>2, <1>4, EntryNow, EntryMoves

LEMMA FetchFailsSound == ASSUME DeskIInv, NEW k \in Keys, FetchFails(k) PROVE DeskIInv'
<1> DEFINE entry == [lists[k] EXCEPT !.fetch = "none", !.got = None]
<1>1. lists' = [lists EXCEPT ![k] = entry] /\ UNCHANGED <<table, view, asking, clicks>>
  BY DEF FetchFails, DeskIInv, DeskTyped
<1>2. entry \in Entries BY EntryNow DEF Entries
<1>3. /\ entry.fetch = "none" /\ entry.got = None /\ entry.data = lists[k].data
      /\ entry.invalid = lists[k].invalid
  BY EntryNow DEF Entries
<1> HIDE DEF entry
<1>4. EntrySound(k, entry) BY <1>3, EntryNow DEF EntrySound
<1> QED BY <1>1, <1>2, <1>4, EntryNow, EntryMoves

LEMMA ObservedSound ==
  ASSUME NEW k \in Keys, NEW entry \in Entries, EntrySound(k, entry)
  PROVE  /\ Observed(entry) \in Entries /\ EntrySound(k, Observed(entry))
         /\ Observed(entry).invalid = entry.invalid /\ Observed(entry).got = entry.got
<1>1. CASE entry.fetch = "none"
  <2> DEFINE new == [entry EXCEPT !.fetch = "sent"]
  <2>1. /\ new \in Entries /\ new.fetch = "sent" /\ new.got = entry.got /\ new.data = entry.data
        /\ new.invalid = entry.invalid
    BY DEF Entries
  <2>2. Observed(entry) = new BY <1>1 DEF Observed
  <2> HIDE DEF new
  <2> QED BY <1>1, <2>1, <2>2 DEF EntrySound
<1>2. CASE entry.fetch # "none" BY <1>2 DEF Observed
<1> QED BY <1>1, <1>2

LEMMA OpenSound == ASSUME DeskIInv, NEW k \in Keys, Open(k) PROVE DeskIInv'
<1>1. Observed(lists[k]) \in Entries /\ EntrySound(k, Observed(lists[k]))
  BY EntryNow, ObservedSound
<1> QED BY <1>1, EntryMoves DEF Open

\* An invalidation says of an entry that it may not cover what was answered.
LEMMA MarkedSound ==
  ASSUME NEW k \in Keys, NEW entry \in Entries, EntrySound(k, entry)
  PROVE  LET new == Marked(entry) IN
         /\ new \in Entries /\ new.invalid = TRUE /\ new.fetch = entry.fetch
         /\ new.data = entry.data
         /\ new.got # None => new.got.overtaken
         /\ EntrySound(k, new)
<1> DEFINE new == Marked(entry)
<1>1. CASE entry.fetch = "read"
  <2>1. entry.got \in Snapshots /\ entry.got # None BY <1>1 DEF EntrySound, Entries
  <2> DEFINE got == [entry.got EXCEPT !.overtaken = TRUE]
  <2>2. /\ got \in Snapshots /\ got.overtaken = TRUE /\ got.listed = entry.got.listed
        /\ got.covers = entry.got.covers
    BY <2>1 DEF Snapshots
  <2>3. new = [entry EXCEPT !.invalid = TRUE, !.got = got] BY <1>1 DEF Marked, Entries
  <2> HIDE DEF got
  <2>4. /\ new \in Entries /\ new.invalid = TRUE /\ new.fetch = entry.fetch
        /\ new.data = entry.data /\ new.got = got
    BY <2>2, <2>3 DEF Entries
  <2> HIDE DEF new
  <2>5. EntrySound(k, new) BY <1>1, <2>1, <2>2, <2>4, SnapshotsAssumption DEF EntrySound, OfKey
  <2> QED BY <2>2, <2>4, <2>5 DEF new
<1>2. CASE entry.fetch # "read"
  <2>1. entry.got = None BY <1>2 DEF EntrySound
  <2>2. new = [entry EXCEPT !.invalid = TRUE] BY <1>2 DEF Marked
  <2>3. /\ new \in Entries /\ new.invalid = TRUE /\ new.fetch = entry.fetch
        /\ new.data = entry.data /\ new.got = entry.got
    BY <2>2 DEF Entries
  <2> HIDE DEF new
  <2>4. EntrySound(k, new) BY <2>1, <2>3 DEF EntrySound
  <2> QED BY <2>1, <2>3, <2>4 DEF new
<1> QED BY <1>1, <1>2

\* Whatever was answered, an entry just invalidated is sound for it.
LEMMA RefetchedSound ==
  ASSUME NEW k \in Keys, NEW entry \in Entries, EntrySound(k, entry)
  PROVE  LET new == Refetched(entry) IN
         /\ new \in Entries /\ new.invalid = TRUE
         /\ new.got # None => new.got.overtaken
         /\ EntrySound(k, new)
<1> DEFINE new == Refetched(entry)
<1>1. CASE entry.data = None
  <2>1. new = Observed(Marked(entry)) BY <1>1 DEF Refetched
  <2>2. /\ Marked(entry) \in Entries /\ EntrySound(k, Marked(entry))
        /\ Marked(entry).invalid = TRUE
    BY MarkedSound
  <2>3. new \in Entries /\ EntrySound(k, new) BY <2>1, <2>2, ObservedSound
  <2>4. new.invalid = TRUE /\ new.got = Marked(entry).got
    BY <2>1, <2>2, ObservedSound
  <2> QED BY <2>3, <2>4, MarkedSound
<1>2. CASE entry.data # None
  <2>1. new = [entry EXCEPT !.invalid = TRUE, !.fetch = "sent", !.got = None]
    BY <1>2 DEF Refetched
  <2>2. /\ new \in Entries /\ new.invalid = TRUE /\ new.fetch = "sent" /\ new.got = None
        /\ new.data = entry.data
    BY <2>1 DEF Entries
  <2> HIDE DEF new
  <2>3. EntrySound(k, new) BY <2>2 DEF EntrySound
  <2> QED BY <2>2, <2>3 DEF new
<1> QED BY <1>1, <1>2

LEMMA ClickMoves ==
  ASSUME DeskIInv, NEW c \in Clicks, NEW click \in Mutations,
         clicks' = [clicks EXCEPT ![c] = click]
  PROVE  /\ clicks' \in [Clicks -> Mutations]
         /\ \A d \in Clicks : clicks'[d] = IF d = c THEN click ELSE clicks[d]
BY DEF DeskIInv, DeskTyped

LEMMA SucceedSound == ASSUME DeskIInv, NEW c \in Clicks, Succeed(c) PROVE DeskIInv'
<1> DEFINE click == [clicks[c] EXCEPT !.step = "answered"]
           p == clicks[c].row
<1>1. clicks[c] \in Mutations /\ clicks[c].step = "done" BY DEF DeskIInv, DeskTyped, Succeed
<1>2. click \in Mutations /\ click.step = "answered" /\ click.row = p BY <1>1 DEF Mutations
<1>3. clicks' = [clicks EXCEPT ![c] = click] BY DEF Succeed
<1>4. InvalidateHiddenQueue(p) /\ UNCHANGED <<table, view, asking>> BY DEF Succeed
<1> HIDE DEF click, p
<1>5. /\ clicks' \in [Clicks -> Mutations]
      /\ \A d \in Clicks : clicks'[d] = IF d = c THEN click ELSE clicks[d]
  BY <1>2, <1>3, ClickMoves
<1>6. ASSUME NEW k \in Keys
      PROVE  lists'[k] \in Entries /\ EntrySound(k, lists[k])'
  <2>1. lists[k] \in Entries /\ EntrySound(k, lists[k]) BY EntryNow
  <2>2. lists'[k] = IF k \notin Invalidated(p) THEN lists[k]
                    ELSE IF k = view THEN Refetched(lists[k]) ELSE Marked(lists[k])
    BY <1>4 DEF InvalidateHiddenQueue
  <2>3. CASE k \in Invalidated(p)
    <3>1. /\ lists'[k] \in Entries /\ lists'[k].invalid = TRUE
          /\ lists'[k].got # None => lists'[k].got.overtaken
          /\ EntrySound(k, lists'[k])
      <4>1. CASE k = view BY <2>1, <2>2, <2>3, <4>1, RefetchedSound
      <4>2. CASE k # view BY <2>1, <2>2, <2>3, <4>2, MarkedSound
      <4> QED BY <4>1, <4>2
    <3> QED BY <3>1 DEF EntrySound
  <2>4. CASE k \notin Invalidated(p)
    <3>1. k[1] \notin {"review", KindOf(p)} BY <2>4 DEF Invalidated
    <3>2. \A d \in Clicks : Due(k, d)' => Due(k, d)
      BY <1>2, <1>5, <3>1 DEF Due
    <3> QED BY <2>1, <2>2, <2>4, <3>2 DEF EntrySound
  <2> QED BY <2>3, <2>4
<1>7. lists' \in [Keys -> Entries]
  <2>1. DOMAIN lists' = Keys /\ lists' = [k \in Keys |-> lists'[k]]
    BY <1>4 DEF InvalidateHiddenQueue
  <2> QED BY <1>6, <2>1
<1>8. DeskTyped' BY <1>4, <1>5, <1>7 DEF DeskIInv, DeskTyped
<1>9. ClicksSound'
  <2>1. clicks[c].row # None BY <1>1 DEF DeskIInv, ClicksSound
  <2> QED BY <1>2, <1>5, <2>1 DEF DeskIInv, ClicksSound, p
<1>10. ListsSound' BY <1>6 DEF ListsSound
<1> QED BY <1>8, <1>9, <1>10 DEF DeskIInv

\* A mutation moves on without being answered, and no list changes.
LEMMA ClickSound ==
  ASSUME DeskIInv, NEW c \in Clicks, NEW click \in Mutations,
         clicks' = [clicks EXCEPT ![c] = click],
         click.step # "answered", click.step = "idle" <=> click.row = None,
         table' \in [Rows -> [hidden : BOOLEAN, deleted : BOOLEAN]],
         asking' \in Rows \cup {None}, UNCHANGED <<view, lists>>
  PROVE  DeskIInv'
<1>1. /\ clicks' \in [Clicks -> Mutations]
      /\ \A d \in Clicks : clicks'[d] = IF d = c THEN click ELSE clicks[d]
  BY ClickMoves
<1>2. DeskTyped' BY <1>1 DEF DeskIInv, DeskTyped
<1>3. ClicksSound' BY <1>1 DEF DeskIInv, ClicksSound
<1>4. \A k \in Keys, d \in Clicks : Due(k, d)' => Due(k, d) BY <1>1 DEF Due
<1>5. ListsSound' BY <1>4 DEF DeskIInv, ListsSound, EntrySound
<1> QED BY <1>2, <1>3, <1>5 DEF DeskIInv

LEMMA ClickNow ==
  ASSUME DeskIInv, NEW c \in Clicks, NEW step \in {"sent", "done", "failed"}
  PROVE  LET click == [clicks[c] EXCEPT !.step = step] IN
         /\ clicks[c] \in Mutations /\ click \in Mutations
         /\ click.step = step /\ click.row = clicks[c].row
         /\ clicks[c].step = "idle" <=> clicks[c].row = None
BY DEF DeskIInv, DeskTyped, ClicksSound, Mutations

LEMMA PerformSound == ASSUME DeskIInv, NEW c \in Clicks, Perform(c) PROVE DeskIInv'
<1> DEFINE click == [clicks[c] EXCEPT !.step = "done"]
<1>1. /\ clicks[c].step = "sent" /\ clicks' = [clicks EXCEPT ![c] = click]
      /\ UNCHANGED <<view, lists, asking>>
  BY DEF Perform
<1>2. click \in Mutations /\ click.step = "done" /\ click.row # None BY <1>1, ClickNow
<1>3. table \in [Rows -> [hidden : BOOLEAN, deleted : BOOLEAN]]
      /\ asking \in Rows \cup {None} BY DEF DeskIInv, DeskTyped
<1>4. table' \in [Rows -> [hidden : BOOLEAN, deleted : BOOLEAN]]
  BY <1>3 DEF Perform
<1> HIDE DEF click
<1> QED BY <1>1, <1>2, <1>3, <1>4, ClickSound

LEMMA FailClickSound == ASSUME DeskIInv, NEW c \in Clicks, Fail(c) PROVE DeskIInv'
<1> DEFINE click == [clicks[c] EXCEPT !.step = "failed"]
<1>1. /\ clicks[c].step \in {"sent", "done"} /\ clicks' = [clicks EXCEPT ![c] = click]
      /\ UNCHANGED <<table, view, lists, asking>>
  BY DEF Fail
<1>2. click \in Mutations /\ click.step = "failed" /\ click.row # None BY <1>1, ClickNow
<1>3. table' \in [Rows -> [hidden : BOOLEAN, deleted : BOOLEAN]]
      /\ asking' \in Rows \cup {None} BY <1>1 DEF DeskIInv, DeskTyped
<1> HIDE DEF click
<1> QED BY <1>1, <1>2, <1>3, ClickSound

LEMMA MutateSound ==
  ASSUME DeskIInv, NEW c \in Clicks, NEW op \in {"restore", "delete"}, NEW p \in Rows,
         Mutate(c, op, p), asking' \in Rows \cup {None}, UNCHANGED <<table, view, lists>>
  PROVE  DeskIInv'
<1> DEFINE click == [op |-> op, row |-> p, step |-> "sent"]
<1>1. clicks' = [clicks EXCEPT ![c] = click] BY DEF Mutate
<1>2. click \in Mutations /\ click.step = "sent" /\ click.row # None
  BY DeskAssumption DEF Mutations, Rows
<1>3. table' \in [Rows -> [hidden : BOOLEAN, deleted : BOOLEAN]] BY DEF DeskIInv, DeskTyped
<1> HIDE DEF click
<1> QED BY <1>1, <1>2, <1>3, ClickSound

\* Reports and the dialog touch neither the lists nor the mutations.
LEMMA DeskMoves ==
  ASSUME DeskIInv, table' \in [Rows -> [hidden : BOOLEAN, deleted : BOOLEAN]],
         asking' \in Rows \cup {None}, UNCHANGED <<view, lists, clicks>>
  PROVE  DeskIInv'
BY DEF DeskIInv, DeskTyped, ClicksSound, ListsSound, EntrySound, Due

LEMMA DeskInitSound == DeskInit => DeskIInv
<1> SUFFICES ASSUME DeskInit PROVE DeskIInv OBVIOUS
<1>1. Empty \in Entries /\ [Empty EXCEPT !.fetch = "sent"] \in Entries BY DEF Empty, Entries
<1>2. view \in Keys BY DEF DeskInit, Keys
<1>3. DeskTyped BY <1>1, <1>2 DEF DeskInit, DeskTyped, Mutations
<1>4. ClicksSound BY DEF DeskInit, ClicksSound
<1>5. ListsSound BY DEF DeskInit, ListsSound, EntrySound, Due, Empty
<1> QED BY <1>3, <1>4, <1>5 DEF DeskIInv

LEMMA DeskNextSound == DeskIInv /\ [DeskNext]_deskVars => DeskIInv'
<1> SUFFICES ASSUME DeskIInv, [DeskNext]_deskVars PROVE DeskIInv' OBVIOUS
<1>1. ASSUME NEW k \in Keys, Read(k) \/ Arrive(k) \/ FetchFails(k) \/ Open(k) PROVE DeskIInv'
  BY <1>1, ReadListSound, ArriveSound, FetchFailsSound, OpenSound
<1>2. ASSUME NEW p \in Rows, AutoHide(p) PROVE DeskIInv'
  <2>1. table' \in [Rows -> [hidden : BOOLEAN, deleted : BOOLEAN]]
    BY <1>2 DEF AutoHide, DeskIInv, DeskTyped
  <2>2. asking' \in Rows \cup {None} BY <1>2 DEF AutoHide, DeskIInv, DeskTyped
  <2> QED BY <1>2, <2>1, <2>2, DeskMoves DEF AutoHide
<1>3. ASSUME CancelDelete \/ \E p \in Rows : SetPendingDelete(p) PROVE DeskIInv'
  <2>1. table' \in [Rows -> [hidden : BOOLEAN, deleted : BOOLEAN]]
    BY <1>3 DEF CancelDelete, SetPendingDelete, DeskIInv, DeskTyped
  <2>2. asking' \in Rows \cup {None} /\ UNCHANGED <<view, lists, clicks>>
    BY <1>3 DEF CancelDelete, SetPendingDelete
  <2> QED BY <2>1, <2>2, DeskMoves
<1>4. ASSUME NEW c \in Clicks, ConfirmDelete(c) PROVE DeskIInv'
  <2>1. asking \in Rows /\ Mutate(c, "delete", asking) /\ asking' = None
        /\ UNCHANGED <<table, view, lists>>
    BY <1>4 DEF ConfirmDelete, DeskIInv, DeskTyped
  <2> QED BY <2>1, MutateSound
<1>5. ASSUME NEW c \in Clicks, NEW p \in Rows, HandleRestore(c, p) PROVE DeskIInv'
  <2>1. Mutate(c, "restore", p) /\ asking' = None /\ UNCHANGED <<table, view, lists>>
    BY <1>5 DEF HandleRestore
  <2> QED BY <2>1, MutateSound
<1>6. ASSUME NEW c \in Clicks, Perform(c) \/ Succeed(c) \/ Fail(c) PROVE DeskIInv'
  BY <1>6, PerformSound, SucceedSound, FailClickSound
<1>7. CASE UNCHANGED deskVars
  BY <1>7 DEF deskVars, DeskIInv, DeskTyped, ClicksSound, ListsSound, EntrySound, Due
<1> QED BY <1>1, <1>2, <1>3, <1>4, <1>5, <1>6, <1>7 DEF DeskNext

LEMMA DeskInvariant == DeskSpec => []DeskIInv
BY DeskInitSound, DeskNextSound, PTL DEF DeskSpec

\* A list holds rows of its kind in the status it is for, whatever is invalidated and
\* fetched in whatever order.
THEOREM DeskTypeSound == DeskSpec => []DeskTypeOK
<1>1. DeskIInv => DeskTypeOK
  BY DEF DeskIInv, DeskTyped, ClicksSound, ListsSound, EntrySound, OfKey, Entries, DeskTypeOK
<1> QED BY <1>1, DeskInvariant, PTL

\* The list on screen covers every answered mutation of its rows, or the cache calls it
\* invalid, or its answer was under way when it was invalidated.
THEOREM ListsCoverAnswers == DeskSpec => []ListCoversAnswers
<1>1. DeskIInv => ListCoversAnswers
  BY DEF DeskIInv, DeskTyped, ListsSound, EntrySound, Due, ListCoversAnswers
<1> QED BY <1>1, DeskInvariant, PTL

---------------------------------------------------------------------------
(* AdminForms: the inductive invariant *)

FormCalls == [email : Emails \cup {None}, persist : BOOLEAN, leg : {"idle", "sent", "done"}]
Fields == [email : Emails \cup {None}, persist : BOOLEAN]

\* What is shown belongs to the call the form follows, and nothing has been edited
\* since but for the answers that empty the field.
FollowedSound ==
  /\ result \in {None, current}
  /\ current # None =>
       fields.email \in {None, sent[current].email} /\ fields.persist = sent[current].persist

FormIInv == FormTypeOK /\ FollowedSound

LEMMA FormTyped ==
  ASSUME FormTypeOK
  PROVE  /\ fields \in Fields /\ sent \in [Submissions -> FormCalls]
         /\ current \in Submissions \cup {None} /\ result \in Submissions \cup {None}
BY DEF FormTypeOK, Fields, FormCalls

LEMMA EditSound ==
  ASSUME FormIInv, fields' \in Fields, Reset, copied' \in BOOLEAN,
         UNCHANGED <<page, spinner, sent, clipboard>>
  PROVE  FormIInv'
<1>1. FormTypeOK' BY DEF FormIInv, FormTypeOK, Fields, Reset
<1>2. FollowedSound' BY DEF Reset, FollowedSound
<1> QED BY <1>1, <1>2 DEF FormIInv

LEMMA HandleSubmitSound == ASSUME FormIInv, NEW s \in Submissions, HandleSubmit(s) PROVE FormIInv'
<1> DEFINE call == [email |-> fields.email, persist |-> fields.persist, leg |-> "sent"]
<1>1. FormTypeOK BY DEF FormIInv
<1>2. call \in FormCalls BY <1>1, FormTyped DEF Fields, FormCalls
<1>3. sent' = [sent EXCEPT ![s] = call] /\ current' = s /\ result' = None
      /\ spinner' = TRUE /\ copied' = FALSE /\ UNCHANGED <<page, fields, clipboard>>
  BY DEF HandleSubmit
<1>4. sent'[s] = call /\ sent' \in [Submissions -> FormCalls] BY <1>1, <1>2, <1>3, FormTyped
<1>5. FormTypeOK' BY <1>1, <1>3, <1>4 DEF FormTypeOK, FormCalls
<1>6. FollowedSound' BY <1>3, <1>4 DEF FollowedSound
<1> QED BY <1>5, <1>6 DEF FormIInv

\* Any answer leaves what the calls carried.
LEMMA AnswerFormSound ==
  ASSUME FormIInv, NEW s \in Submissions, sent' = [sent EXCEPT ![s].leg = "done"],
         result' \in {result, current},
         fields' \in {fields, [fields EXCEPT !.email = None]},
         UNCHANGED <<page, current, spinner, copied, clipboard>>
  PROVE  FormIInv'
<1>1. FormTypeOK /\ FollowedSound BY DEF FormIInv
<1>2. /\ sent' \in [Submissions -> FormCalls]
      /\ \A r \in Submissions : sent'[r].email = sent[r].email /\ sent'[r].persist = sent[r].persist
  BY <1>1, FormTyped DEF FormCalls
<1>3. /\ fields' \in Fields /\ fields'.email \in {fields.email, None}
      /\ fields'.persist = fields.persist
  BY <1>1, FormTyped DEF Fields
<1>4. FormTypeOK' BY <1>1, <1>2, <1>3 DEF FormTypeOK, FormCalls, Fields
<1>5. FollowedSound' BY <1>1, <1>2, <1>3, FormTyped DEF FollowedSound
<1> QED BY <1>4, <1>5 DEF FormIInv

\* The spinner and the clipboard change nothing of this.
LEMMA OthersSound ==
  ASSUME FormIInv, {spinner', copied'} \subseteq BOOLEAN, clipboard' \subseteq Submissions,
         UNCHANGED <<page, fields, current, result, sent>>
  PROVE  FormIInv'
BY DEF FormIInv, FormTypeOK, FollowedSound

LEMMA FormInitSound == FormInit => FormIInv
<1> SUFFICES ASSUME FormInit PROVE FormIInv OBVIOUS
<1>1. FormTypeOK BY DEF FormInit, FormTypeOK, Idle
<1>2. FollowedSound BY DEF FormInit, FollowedSound
<1> QED BY <1>1, <1>2 DEF FormIInv

LEMMA FormNextSound == FormIInv /\ [FormNext]_formVars => FormIInv'
<1> SUFFICES ASSUME FormIInv, [FormNext]_formVars PROVE FormIInv' OBVIOUS
<1>1. FormTypeOK BY DEF FormIInv
<1>2. fields \in Fields /\ {spinner, copied} \subseteq BOOLEAN /\ clipboard \subseteq Submissions
      /\ result \in Submissions \cup {None}
  BY <1>1, FormTyped DEF FormTypeOK
<1>3. ASSUME NEW e \in Emails \cup {None}, TypeEmail(e) PROVE FormIInv'
  BY <1>2, <1>3, EditSound DEF TypeEmail, Fields
<1>4. CASE TogglePersist BY <1>2, <1>4, EditSound DEF TogglePersist, Fields
<1>5. CASE SpinnerEnds BY <1>2, <1>5, OthersSound DEF SpinnerEnds
<1>6. CASE HandleCopy BY <1>2, <1>6, OthersSound DEF HandleCopy
<1>7. ASSUME NEW s \in Submissions, Copied(s) PROVE FormIInv'
  BY <1>2, <1>7, OthersSound DEF Copied
<1>8. ASSUME NEW s \in Submissions, Answer(s) PROVE FormIInv'
  BY <1>8, AnswerFormSound DEF Answer
<1>9. ASSUME NEW s \in Submissions, Rejected(s) PROVE FormIInv'
  BY <1>9, AnswerFormSound DEF Rejected
<1>10. CASE UNCHANGED formVars BY <1>10 DEF formVars, FormIInv, FormTypeOK, FollowedSound
<1> QED BY <1>3, <1>4, <1>5, <1>6, <1>7, <1>8, <1>9, <1>10, HandleSubmitSound DEF FormNext

LEMMA FormInvariant == FormSpec => []FormIInv
BY FormInitSound, FormNextSound, PTL DEF FormSpec

\* Both forms, their mutations and the clipboard's answer keep to their types.
THEOREM FormTypeSound == FormSpec => []FormTypeOK
<1>1. FormIInv => FormTypeOK BY DEF FormIInv
<1> QED BY <1>1, FormInvariant, PTL

\* The link or the number on the screen was answered for the address and the switch the
\* form shows, however late answers come and whatever is edited while they are on the way.
THEOREM ResultOfThisForm == FormSpec => []ResultIsOfThisForm
<1>1. FormIInv => ResultIsOfThisForm BY DEF FormIInv, FollowedSound, ResultIsOfThisForm
<1> QED BY <1>1, FormInvariant, PTL

---------------------------------------------------------------------------
(* Settings: the inductive invariant *)

ReaderState ==
  [step : {"idle", "find", "insert", "again", "got", "failed"}, got : Values \cup {None}]
RenameState ==
  [step : {"idle", "settings", "write", "refused", "done"}, read : Nat \cup {None}]
FormPage == [data : Values \cup {None}, form : Values \cup {None},
             edited : BOOLEAN, saving : BOOLEAN, sent : Values \cup {None}]

SettingsTyped ==
  /\ row \in Values \cup {None}
  /\ now \in Nat
  /\ changed \in Nat \cup {None}
  /\ readers \in [Handlers -> ReaderState]
  /\ calls \in [Renames -> RenameState]
  /\ pages \in [Editors -> FormPage]

ReadersSound == \A h \in Handlers : ReaderAt(h, "got") => readers[h].got \in Values

\* What was typed is in a form, and a save under way has its payload.
PagesSound ==
  \A t \in Editors :
    /\ pages[t].edited => pages[t].form # None
    /\ SaveIdle(t) <=> pages[t].sent = None

\* The stamps a rename may have read.
StampsSound ==
  /\ changed # None => changed <= now
  /\ \A c \in Renames : calls[c].read # None => changed # None /\ calls[c].read <= changed

\* What a rename that is about to write knows.
ChecksSound ==
  \A c \in Renames :
    calls[c].step = "write" /\ calls[c].read # None =>
      /\ ReaderAt(c, "got")
      /\ now - calls[c].read >= readers[c].got.cooldown

SettingsIInv == SettingsTyped /\ ReadersSound /\ PagesSound /\ StampsSound /\ ChecksSound

---------------------------------------------------------------------------
LEMMA DefaultIsValue == Default \in Values
<1>1. PICK d \in Cooldowns, l \in Limits : TRUE BY SettingsAssumption
<1>2. [cooldown |-> d, limit |-> l] \in Values BY DEF Values
<1> QED BY <1>2 DEF Default

LEMMA SettingsInitSound == SettingsInit => SettingsIInv
<1> SUFFICES ASSUME SettingsInit PROVE SettingsIInv OBVIOUS
<1> USE DEF SettingsInit
<1>1. SettingsTyped
  <2>1. readers \in [Handlers -> ReaderState] BY DEF ReaderState
  <2>2. calls \in [Renames -> RenameState] BY DEF RenameState
  <2>3. pages \in [Editors -> FormPage] BY DEF FormPage, BlankForm
  <2> QED BY <2>1, <2>2, <2>3 DEF SettingsTyped
<1>2. ReadersSound BY DEF ReadersSound, ReaderAt
<1>3. PagesSound BY DEF PagesSound, SaveIdle, ReaderAt, BlankForm, Handlers
<1>4. StampsSound BY SettingsAssumption DEF StampsSound
<1>5. ChecksSound BY DEF ChecksSound
<1> QED BY <1>1, <1>2, <1>3, <1>4, <1>5 DEF SettingsIInv

---------------------------------------------------------------------------
(* SettingsRepository.get *)

\* One reader that has not got its settings yet moves on.
LEMMA ReaderMoves ==
  ASSUME SettingsIInv, NEW h \in Handlers, NEW step, NEW value, GoTo(h, step, value),
         step \in {"insert", "again", "got", "failed"},
         value \in Values \cup {None}, step = "got" => value \in Values,
         ~ReaderAt(h, "got"), ~ReaderAt(h, "idle"),
         row' \in Values \cup {None}, UNCHANGED <<changed, now, calls, pages>>
  PROVE  SettingsIInv'
<1>1. SettingsTyped BY DEF SettingsIInv
<1>2. /\ readers'[h] = [step |-> step, got |-> value]
      /\ \A k \in Handlers \ {h} : readers'[k] = readers[k]
  BY <1>1 DEF GoTo, SettingsTyped
<1>3. SettingsTyped'
  <2>1. [step |-> step, got |-> value] \in ReaderState BY DEF ReaderState
  <2> QED BY <1>1, <2>1 DEF GoTo, SettingsTyped
<1>4. ReadersSound' BY <1>2 DEF SettingsIInv, ReadersSound, ReaderAt
<1>5. PagesSound'
  <2>1. \A t \in Editors : <<t, "save">> \in Handlers BY DEF Handlers
  <2>2. \A k \in Handlers : readers[k].step # "idle" <=> readers'[k].step # "idle"
    BY <1>2 DEF ReaderAt
  <2> QED BY <2>1, <2>2 DEF SettingsIInv, PagesSound, SaveIdle, ReaderAt
<1>6. StampsSound' BY DEF SettingsIInv, StampsSound
<1>7. ChecksSound'
  <2>1. \A c \in Renames : c \in Handlers BY DEF Handlers
  <2> QED BY <1>2, <2>1 DEF SettingsIInv, ChecksSound, ReaderAt
<1> QED BY <1>3, <1>4, <1>5, <1>6, <1>7 DEF SettingsIInv

LEMMA GetSound ==
  ASSUME SettingsIInv, NEW h \in Handlers, FindFirst(h) \/ Insert(h) \/ FindAgain(h)
  PROVE  SettingsIInv'
<1>1. row \in Values \cup {None} BY DEF SettingsIInv, SettingsTyped
<1>2. CASE FindFirst(h)
  <2>1. UNCHANGED <<changed, now, calls, pages>> /\ row' = row
        /\ ~ReaderAt(h, "got") /\ ~ReaderAt(h, "idle")
    BY <1>2 DEF FindFirst, ReaderAt
  <2>2. (GoTo(h, "got", row) /\ row # None) \/ GoTo(h, "insert", None) BY <1>2 DEF FindFirst
  <2> QED BY <1>1, <2>1, <2>2, ReaderMoves
<1>3. CASE Insert(h)
  <2>1. UNCHANGED <<changed, now, calls, pages>>
        /\ ~ReaderAt(h, "got") /\ ~ReaderAt(h, "idle")
    BY <1>3 DEF Insert, ReaderAt
  <2>2. \/ GoTo(h, "got", Default) /\ row' = Default
        \/ GoTo(h, "again", None) /\ row' = row
    BY <1>3 DEF Insert
  <2> QED BY <1>1, <2>1, <2>2, DefaultIsValue, ReaderMoves
<1>4. CASE FindAgain(h)
  <2>1. UNCHANGED <<changed, now, calls, pages>> /\ row' = row
        /\ ~ReaderAt(h, "got") /\ ~ReaderAt(h, "idle")
    BY <1>4 DEF FindAgain, ReaderAt
  <2>2. (GoTo(h, "got", row) /\ row # None) \/ GoTo(h, "failed", None) BY <1>4 DEF FindAgain
  <2> QED BY <1>1, <2>1, <2>2, ReaderMoves
<1> QED BY <1>2, <1>3, <1>4

---------------------------------------------------------------------------
(* UsersService.updateNickname *)

LEMMA StartRenameSound ==
  ASSUME SettingsIInv, NEW c \in Renames, StartRename(c)
  PROVE  SettingsIInv'
<1>1. SettingsTyped BY DEF SettingsIInv
<1>2. c \in Handlers /\ calls[c].step = "idle"
  BY DEF StartRename, Handlers
<1>3. /\ calls' = [calls EXCEPT ![c] =
           [step |-> IF changed = None THEN "write" ELSE "settings", read |-> changed]]
      /\ row' = row /\ changed' = changed /\ now' = now /\ pages' = pages
  BY DEF StartRename
<1>4. \/ changed = None /\ readers' = readers
      \/ changed # None /\ readers' = [readers EXCEPT ![c] = [step |-> "find", got |-> None]]
  BY DEF StartRename, GoTo
<1>5. \A t \in Editors : <<t, "save">> \in Handlers /\ <<t, "save">> # c
  BY SettingsAssumption DEF Handlers
<1>6. \A h \in Handlers \ {c} : readers'[h] = readers[h] BY <1>1, <1>4 DEF SettingsTyped
<1>7. /\ calls'[c].read = changed
      /\ calls'[c].step = "write" => changed = None
      /\ \A d \in Renames \ {c} : calls'[d] = calls[d]
  BY <1>1, <1>3 DEF SettingsTyped
<1>8. SettingsTyped'
  <2>1. readers' \in [Handlers -> ReaderState] BY <1>1, <1>4 DEF SettingsTyped, ReaderState
  <2>2. calls' \in [Renames -> RenameState] BY <1>1, <1>3 DEF SettingsTyped, RenameState
  <2> QED BY <1>1, <1>3, <2>1, <2>2 DEF SettingsTyped
<1>9. ReadersSound'
  <2>1. readers' = readers \/ readers'[c].step = "find" BY <1>1, <1>2, <1>4 DEF SettingsTyped
  <2> QED BY <1>6, <2>1 DEF SettingsIInv, ReadersSound, ReaderAt
<1>10. PagesSound' BY <1>3, <1>5, <1>6 DEF SettingsIInv, PagesSound, SaveIdle, ReaderAt
<1>11. StampsSound' BY <1>1, <1>3, <1>7 DEF SettingsIInv, StampsSound, SettingsTyped
<1>12. ChecksSound'
  <2>1. \A d \in Renames : d \in Handlers BY DEF Handlers
  <2> QED BY <1>3, <1>6, <1>7, <2>1 DEF SettingsIInv, ChecksSound, ReaderAt
<1> QED BY <1>8, <1>9, <1>10, <1>11, <1>12 DEF SettingsIInv

LEMMA CheckSound ==
  ASSUME SettingsIInv, NEW c \in Renames, CheckCooldown(c)
  PROVE  SettingsIInv'
<1>1. SettingsTyped BY DEF SettingsIInv
<1> DEFINE step == IF now - calls[c].read < readers[c].got.cooldown THEN "refused" ELSE "write"
<1>2. /\ calls' = [calls EXCEPT ![c].step = step] /\ ReaderAt(c, "got")
      /\ UNCHANGED <<row, changed, now, readers, pages>>
  BY DEF CheckCooldown
<1>3. /\ calls'[c].read = calls[c].read /\ calls'[c].step = step
      /\ \A d \in Renames \ {c} : calls'[d] = calls[d]
  BY <1>1, <1>2 DEF SettingsTyped, RenameState
<1>4. SettingsTyped'
  <2>1. calls' \in [Renames -> RenameState] BY <1>1, <1>2 DEF SettingsTyped, RenameState
  <2> QED BY <1>1, <1>2, <2>1 DEF SettingsTyped
<1>5. ReadersSound' /\ PagesSound'
  BY <1>2 DEF SettingsIInv, ReadersSound, PagesSound, SaveIdle, ReaderAt
<1>6. StampsSound' BY <1>2, <1>3 DEF SettingsIInv, StampsSound
<1>7. ChecksSound'
  <2>1. calls'[c].step = "write" /\ calls'[c].read # None
        => now - calls[c].read >= readers[c].got.cooldown
    <3>1. SUFFICES ASSUME calls[c].read # None PROVE
            ~(now - calls[c].read < readers[c].got.cooldown)
            => now - calls[c].read >= readers[c].got.cooldown
      BY <1>3
    <3>2. calls[c].read \in Nat BY <1>1, <3>1 DEF SettingsTyped, RenameState
    <3>3. readers[c].got \in Values BY <1>2 DEF SettingsIInv, ReadersSound, Handlers
    <3>4. readers[c].got.cooldown \in Nat BY <3>3, SettingsAssumption DEF Values
    <3> QED BY <1>1, <3>2, <3>4 DEF SettingsTyped
  <2> QED BY <1>2, <1>3, <2>1 DEF SettingsIInv, ChecksSound, ReaderAt
<1> QED BY <1>4, <1>5, <1>6, <1>7 DEF SettingsIInv

LEMMA UpdateSound ==
  ASSUME SettingsIInv, NEW c \in Renames, UpdateNickname(c)
  PROVE  SettingsIInv'
<1>1. SettingsTyped BY DEF SettingsIInv
<1>2. /\ calls' = [calls EXCEPT ![c].step = "done"] /\ changed' = now
      /\ UNCHANGED <<row, now, readers, pages>>
  BY DEF UpdateNickname
<1>3. /\ calls'[c].read = calls[c].read /\ calls'[c].step = "done"
      /\ \A d \in Renames \ {c} : calls'[d] = calls[d]
  BY <1>1, <1>2 DEF SettingsTyped, RenameState
<1>4. SettingsTyped'
  <2>1. calls' \in [Renames -> RenameState] BY <1>1, <1>2 DEF SettingsTyped, RenameState
  <2> QED BY <1>1, <1>2, <2>1 DEF SettingsTyped
<1>5. ReadersSound' /\ PagesSound'
  BY <1>2 DEF SettingsIInv, ReadersSound, PagesSound, SaveIdle, ReaderAt
<1>6. StampsSound'
  <2>1. now \in Nat /\ now # None BY <1>1, SettingsAssumption DEF SettingsTyped
  <2>2. ASSUME NEW d \in Renames, calls[d].read # None PROVE calls[d].read <= now
    <3>1. changed # None /\ calls[d].read <= changed /\ changed <= now
      BY <2>2 DEF SettingsIInv, StampsSound
    <3>2. changed \in Nat /\ calls[d].read \in Nat BY <1>1, <2>2, <3>1 DEF SettingsTyped, RenameState
    <3> QED BY <2>1, <3>1, <3>2
  <2> QED BY <1>2, <1>3, <2>1, <2>2 DEF StampsSound
<1>7. ChecksSound' BY <1>2, <1>3 DEF SettingsIInv, ChecksSound, ReaderAt
<1> QED BY <1>4, <1>5, <1>6, <1>7 DEF SettingsIInv

LEMMA TickSound == ASSUME SettingsIInv, Tick PROVE SettingsIInv'
<1>1. SettingsTyped BY DEF SettingsIInv
<1>2. now' = now + 1 /\ UNCHANGED <<row, changed, readers, calls, pages>> BY DEF Tick
<1>3. SettingsTyped' BY <1>1, <1>2 DEF SettingsTyped
<1>4. ReadersSound' /\ PagesSound'
  BY <1>2 DEF SettingsIInv, ReadersSound, PagesSound, SaveIdle, ReaderAt
<1>5. StampsSound' BY <1>1, <1>2 DEF SettingsIInv, StampsSound, SettingsTyped
<1>6. ASSUME NEW c \in Renames, calls[c].step = "write", calls[c].read # None
      PROVE  ReaderAt(c, "got") /\ now' - calls[c].read >= readers[c].got.cooldown
  <2>1. ReaderAt(c, "got") /\ now - calls[c].read >= readers[c].got.cooldown
    BY <1>6 DEF SettingsIInv, ChecksSound
  <2>2. calls[c].read \in Nat BY <1>1, <1>6 DEF SettingsTyped, RenameState
  <2>3. readers[c].got \in Values BY <2>1 DEF SettingsIInv, ReadersSound, Handlers
  <2>4. readers[c].got.cooldown \in Nat BY <2>3, SettingsAssumption DEF Values
  <2>5. now \in Nat /\ now' = now + 1 BY <1>1, <1>2 DEF SettingsTyped
  <2> QED BY <2>1, <2>2, <2>4, <2>5
<1>7. calls' = calls /\ readers' = readers BY <1>2
<1>8. ChecksSound' BY <1>6, <1>7 DEF ChecksSound, ReaderAt
<1> QED BY <1>3, <1>4, <1>5, <1>8 DEF SettingsIInv

---------------------------------------------------------------------------
(* The settings shown *)

\* What a page does, by the admin or by an answer.
PageStep(t) ==
  \/ OpenPage(t) \/ Reconnect(t) \/ Loaded(t) \/ LoadFails(t)
  \/ Edit(t) \/ Submit(t) \/ UpdateSettings(t) \/ SaveFails(t)

\* A step of one page, and of the reader of one of its calls.
LEMMA PageMoves ==
  ASSUME SettingsIInv, NEW t \in Editors, NEW shown \in FormPage, NEW kind \in {"load", "save"},
         pages' = [pages EXCEPT ![t] = shown],
         shown.edited => shown.form # None,
         \/ readers' = readers /\ shown.sent = pages[t].sent
         \/ GoTo(<<t, kind>>, "find", None)
            /\ IF kind = "load" THEN shown.sent = pages[t].sent ELSE shown.sent # None
         \/ GoTo(<<t, kind>>, "idle", None)
            /\ IF kind = "load" THEN shown.sent = pages[t].sent ELSE shown.sent = None,
         row' \in Values \cup {None}, UNCHANGED <<changed, now, calls>>
  PROVE  SettingsIInv'
<1>1. SettingsTyped BY DEF SettingsIInv
<1>2. <<t, kind>> \in Handlers BY DEF Handlers
<1>3. /\ \A h \in Handlers \ {<<t, kind>>} : readers'[h] = readers[h]
      /\ readers' = readers \/ readers'[<<t, kind>>] = [step |-> "find", got |-> None]
                            \/ readers'[<<t, kind>>] = [step |-> "idle", got |-> None]
  BY <1>1, <1>2 DEF GoTo, SettingsTyped
<1>4. pages'[t] = shown /\ \A u \in Editors \ {t} : pages'[u] = pages[u] BY <1>1 DEF SettingsTyped
<1>5. SettingsTyped'
  <2>1. readers' \in [Handlers -> ReaderState]
    <3>1. [step |-> "find", got |-> None] \in ReaderState
          /\ [step |-> "idle", got |-> None] \in ReaderState
      BY DEF ReaderState
    <3> QED BY <1>1, <3>1 DEF GoTo, SettingsTyped
  <2>2. pages' \in [Editors -> FormPage] BY <1>1 DEF SettingsTyped
  <2> QED BY <1>1, <2>1, <2>2 DEF SettingsTyped
<1>6. ReadersSound' BY <1>2, <1>3 DEF SettingsIInv, ReadersSound, ReaderAt
<1>7. PagesSound'
  <2>1. ASSUME NEW u \in Editors, u # t
        PROVE  /\ pages'[u].edited => pages'[u].form # None
               /\ readers'[<<u, "save">>].step = "idle" <=> pages'[u].sent = None
    <3>1. <<u, "save">> \in Handlers /\ <<u, "save">> # <<t, kind>> BY <2>1 DEF Handlers
    <3>2. pages'[u] = pages[u] /\ readers'[<<u, "save">>] = readers[<<u, "save">>]
      BY <1>3, <1>4, <2>1, <3>1
    <3> QED BY <3>2 DEF SettingsIInv, PagesSound, SaveIdle, ReaderAt
  <2>2. readers'[<<t, "save">>].step = "idle" <=> shown.sent = None
    <3>1. <<t, "save">> \in Handlers BY DEF Handlers
    <3>2. readers[<<t, "save">>].step = "idle" <=> pages[t].sent = None
      BY DEF SettingsIInv, PagesSound, SaveIdle, ReaderAt
    <3>3. CASE kind = "save"
      BY <1>1, <3>1, <3>2, <3>3 DEF GoTo, SettingsTyped
    <3>4. CASE kind = "load"
      <4>1. readers'[<<t, "save">>] = readers[<<t, "save">>] BY <1>3, <3>1, <3>4
      <4> QED BY <3>2, <3>4, <4>1
    <3> QED BY <3>3, <3>4
  <2> QED BY <1>4, <2>1, <2>2 DEF PagesSound, SaveIdle, ReaderAt
<1>8. StampsSound' BY DEF SettingsIInv, StampsSound
<1>9. ChecksSound'
  <2>1. \A c \in Renames : c \in Handlers \ {<<t, kind>>}
    BY SettingsAssumption DEF Handlers
  <2> QED BY <1>3, <2>1 DEF SettingsIInv, ChecksSound, ReaderAt
<1> QED BY <1>5, <1>6, <1>7, <1>8, <1>9 DEF SettingsIInv

\* The record a step leaves of a page.
LEMMA PageNow ==
  ASSUME SettingsIInv, NEW t \in Editors
  PROVE  /\ pages[t] \in FormPage /\ pages \in [Editors -> FormPage]
         /\ pages = [pages EXCEPT ![t] = pages[t]]
         /\ pages[t].edited => pages[t].form # None
         /\ row \in Values \cup {None}
BY DEF SettingsIInv, SettingsTyped, PagesSound

LEMMA LoadSound ==
  ASSUME SettingsIInv, NEW t \in Editors,
         OpenPage(t) \/ Reconnect(t) \/ Loaded(t) \/ LoadFails(t)
  PROVE  SettingsIInv'
<1>1. UNCHANGED <<row, changed, now, calls>> BY DEF OpenPage, Reconnect, Loaded, LoadFails
<1>2. CASE OpenPage(t)
  <2> DEFINE shown == [pages[t] EXCEPT !.form = pages[t].data, !.edited = FALSE, !.saving = FALSE]
  <2>1. shown \in FormPage /\ ~shown.edited /\ shown.sent = pages[t].sent
    BY PageNow DEF FormPage
  <2>2. pages' = [pages EXCEPT ![t] = shown] BY <1>2, PageNow DEF OpenPage
  <2>3. readers' = readers \/ GoTo(<<t, "load">>, "find", None) BY <1>2 DEF OpenPage
  <2> HIDE DEF shown
  <2> QED BY <1>1, <2>1, <2>2, <2>3, PageNow, PageMoves
<1>3. CASE Loaded(t)
  <2> DEFINE value == readers[<<t, "load">>].got
             shown == Seed(pages[t], value)
  <2>1. value \in Values BY <1>3 DEF Loaded, SettingsIInv, ReadersSound, Handlers
  <2>2. shown \in FormPage /\ shown.form # None /\ shown.sent = pages[t].sent
    BY <2>1, PageNow, ValuesAssumption DEF Seed, FormPage
  <2>3. pages' = [pages EXCEPT ![t] = shown] /\ GoTo(<<t, "load">>, "idle", None)
    BY <1>3 DEF Loaded
  <2> HIDE DEF shown
  <2> QED BY <1>1, <2>2, <2>3, PageNow, PageMoves
<1>4. CASE Reconnect(t) \/ LoadFails(t)
  <2>1. GoTo(<<t, "load">>, "find", None) \/ GoTo(<<t, "load">>, "idle", None)
    BY <1>4 DEF Reconnect, LoadFails
  <2>2. pages' = [pages EXCEPT ![t] = pages[t]] BY <1>4, PageNow DEF Reconnect, LoadFails
  <2> QED BY <1>1, <2>1, <2>2, PageNow, PageMoves
<1> QED BY <1>2, <1>3, <1>4

LEMMA SaveSound ==
  ASSUME SettingsIInv, NEW t \in Editors,
         Edit(t) \/ Submit(t) \/ UpdateSettings(t) \/ SaveFails(t)
  PROVE  SettingsIInv'
<1>1. UNCHANGED <<changed, now, calls>> BY DEF Edit, Submit, UpdateSettings, SaveFails
<1>2. CASE Edit(t)
  <2>1. PICK v \in Values : pages' = [pages EXCEPT ![t].form = v, ![t].edited = TRUE]
    BY <1>2 DEF Edit
  <2> DEFINE shown == [pages[t] EXCEPT !.form = v, !.edited = TRUE]
  <2>2. shown \in FormPage /\ shown.form # None /\ shown.sent = pages[t].sent
    BY PageNow, ValuesAssumption DEF FormPage
  <2>3. pages' = [pages EXCEPT ![t] = shown] BY <2>1, PageNow
  <2>4. readers' = readers /\ row' = row BY <1>2 DEF Edit
  <2> HIDE DEF shown
  <2> QED BY <1>1, <2>2, <2>3, <2>4, PageNow, PageMoves
<1>3. CASE Submit(t)
  <2> DEFINE shown == [pages[t] EXCEPT !.saving = TRUE, !.sent = pages[t].form]
  <2>1. shown \in FormPage /\ shown.form = pages[t].form /\ shown.sent # None
        /\ shown.edited = pages[t].edited
    BY <1>3, PageNow DEF Submit, FormPage
  <2>2. pages' = [pages EXCEPT ![t] = shown] BY <1>3, PageNow DEF Submit
  <2>3. GoTo(<<t, "save">>, "find", None) /\ row' = row BY <1>3 DEF Submit
  <2> HIDE DEF shown
  <2> QED BY <1>1, <2>1, <2>2, <2>3, PageNow, PageMoves
<1>4. CASE UpdateSettings(t)
  <2> DEFINE payload == pages[t].sent
             kept == IF pages[t].form = payload THEN FALSE ELSE pages[t].edited
             shown == [pages[t] EXCEPT !.data = payload, !.sent = None, !.saving = FALSE,
                                       !.edited = kept]
  <2>1. shown \in FormPage /\ shown.sent = None /\ shown.form = pages[t].form
        /\ (shown.edited => pages[t].edited)
    BY PageNow DEF FormPage
  <2>2. pages' = [pages EXCEPT ![t] = shown] BY <1>4 DEF UpdateSettings
  <2>3. GoTo(<<t, "save">>, "idle", None) /\ row' \in Values \cup {None}
    BY <1>4, PageNow DEF UpdateSettings, FormPage
  <2> HIDE DEF shown
  <2> QED BY <1>1, <2>1, <2>2, <2>3, PageNow, PageMoves
<1>5. CASE SaveFails(t)
  <2> DEFINE shown == [pages[t] EXCEPT !.saving = FALSE, !.sent = None]
  <2>1. shown \in FormPage /\ shown.sent = None /\ shown.form = pages[t].form
        /\ shown.edited = pages[t].edited
    BY PageNow DEF FormPage
  <2>2. pages' = [pages EXCEPT ![t] = shown] BY <1>5, PageNow DEF SaveFails
  <2>3. GoTo(<<t, "save">>, "idle", None) /\ row' \in Values \cup {None}
    BY <1>5, PageNow DEF SaveFails, FormPage
  <2> HIDE DEF shown
  <2> QED BY <1>1, <2>1, <2>2, <2>3, PageNow, PageMoves
<1> QED BY <1>2, <1>3, <1>4, <1>5

---------------------------------------------------------------------------
(* The theorems *)

\* SettingsIInv holds in every reachable state of the settings row, the renames and the pages.
THEOREM SettingsInvariant == SettingsSpec => []SettingsIInv
<1>1. ASSUME SettingsIInv, [SettingsNext]_settingsVars PROVE SettingsIInv'
  <2>1. CASE UNCHANGED settingsVars
    BY <1>1, <2>1
    DEF settingsVars, SettingsIInv, SettingsTyped, ReadersSound, PagesSound, StampsSound,
        ChecksSound, SaveIdle, ReaderAt
  <2>2. ASSUME NEW h \in Handlers, FindFirst(h) \/ Insert(h) \/ FindAgain(h) PROVE SettingsIInv'
    BY <1>1, <2>2, GetSound
  <2>3. ASSUME NEW c \in Renames, StartRename(c) \/ CheckCooldown(c) \/ UpdateNickname(c)
        PROVE  SettingsIInv'
    BY <1>1, <2>3, StartRenameSound, CheckSound, UpdateSound
  <2>4. ASSUME NEW t \in Editors, PageStep(t) PROVE SettingsIInv'
    BY <1>1, <2>4, LoadSound, SaveSound DEF PageStep
  <2>5. CASE Tick BY <1>1, <2>5, TickSound
  <2> QED BY <1>1, <2>1, <2>2, <2>3, <2>4, <2>5 DEF SettingsNext, PageStep
<1> QED BY <1>1, SettingsInitSound, PTL DEF SettingsSpec

\* Whatever is done to the settings meanwhile, a nickname changes within the cooldown of
\* its last change only by a handler that had read the account before that change
\* (UsersService.updateNickname).
THEOREM CooldownIsKept == SettingsSpec => CooldownKept
<1>1. ASSUME SettingsIInv, SettingsNext, changed' # changed, changed # None
      PROVE  \E c \in Renames :
               /\ calls[c].step = "write" /\ calls'[c].step = "done"
               /\ \/ calls[c].read # changed
                  \/ now - changed >= readers[c].got.cooldown
  <2>1. PICK c \in Renames : UpdateNickname(c)
    BY <1>1
    DEF SettingsNext, FindFirst, Insert, FindAgain, StartRename, CheckCooldown, OpenPage,
        Reconnect, Loaded, LoadFails, Edit, Submit, UpdateSettings, SaveFails, Tick
  <2>2. calls[c].step = "write" /\ calls'[c].step = "done"
    BY <1>1, <2>1 DEF UpdateNickname, SettingsIInv, SettingsTyped, RenameState
  <2>3. calls[c].read = changed => now - changed >= readers[c].got.cooldown
    BY <1>1, <2>2 DEF SettingsIInv, ChecksSound
  <2> QED BY <2>2, <2>3
<1>2. SettingsIInv /\ [SettingsNext]_settingsVars =>
        [changed' # changed /\ changed # None
         => \E c \in Renames :
              /\ calls[c].step = "write" /\ calls'[c].step = "done"
              /\ \/ calls[c].read # changed
                 \/ now - changed >= readers[c].got.cooldown]_settingsVars
  BY <1>1 DEF settingsVars
<1> QED BY <1>2, SettingsInvariant, PTL DEF SettingsSpec, CooldownKept

\* What an admin has typed is replaced by no load and no save, answered or failed, and
\* counts as saved only once the row holds it (SettingsForm, useUpdateAdminSettingsMutation).
THEOREM EditsAreKept == SettingsSpec => EditsSurvive
<1> DEFINE EditsStay(t) ==
      /\ pages'[t].form # pages[t].form => OpenPage(t) \/ UNCHANGED <<row, readers>>
      /\ ~pages'[t].edited => OpenPage(t) \/ row' = pages[t].form
<1>1. ASSUME SettingsIInv, SettingsNext, NEW t \in Editors, pages[t].edited
      PROVE  EditsStay(t)
  <2>1. pages[t] \in FormPage /\ pages[t].form # None /\ pages \in [Editors -> FormPage]
    BY <1>1, PageNow
  <2>2. CASE pages' = pages BY <1>1, <2>2
  <2>3. ASSUME NEW u \in Editors, PageStep(u), u # t PROVE pages'[t] = pages[t]
    BY <2>1, <2>3
    DEF PageStep, OpenPage, Reconnect, Loaded, LoadFails, Edit, Submit, UpdateSettings, SaveFails
  <2>4. CASE OpenPage(t) BY <2>4
  <2>5. CASE Reconnect(t) \/ LoadFails(t) BY <1>1, <2>5 DEF Reconnect, LoadFails
  <2>6. CASE Loaded(t) BY <1>1, <2>1, <2>6 DEF Loaded, Seed, FormPage
  <2>7. CASE Edit(t) BY <1>1, <2>1, <2>7 DEF Edit, FormPage
  <2>8. CASE Submit(t) \/ SaveFails(t) BY <1>1, <2>1, <2>8 DEF Submit, SaveFails, FormPage
  <2>9. CASE UpdateSettings(t)
    <3>1. pages'[t].form = pages[t].form /\ row' = pages[t].sent
      BY <2>1, <2>9 DEF UpdateSettings, FormPage
    <3>2. pages[t].form # pages[t].sent => pages'[t].edited = pages[t].edited
      BY <2>1, <2>9 DEF UpdateSettings, FormPage
    <3> QED BY <1>1, <3>1, <3>2
  <2>10. pages' = pages \/ \E u \in Editors : PageStep(u)
    BY <1>1
    DEF SettingsNext, PageStep, FindFirst, Insert, FindAgain, StartRename, CheckCooldown,
        UpdateNickname, Tick
  <2>11. ASSUME PageStep(t) PROVE EditsStay(t)
    BY <2>4, <2>5, <2>6, <2>7, <2>8, <2>9, <2>11 DEF PageStep
  <2> QED BY <1>1, <2>2, <2>3, <2>10, <2>11
<1>2. SettingsIInv /\ [SettingsNext]_settingsVars =>
        [\A t \in Editors : pages[t].edited => EditsStay(t)]_settingsVars
  BY <1>1
<1> QED BY <1>2, SettingsInvariant, PTL DEF SettingsSpec, EditsSurvive

---------------------------------------------------------------------------
(* The types *)

\* Nobody holds settings that were not got, a saving page has its call on the way, a page
\* has a form exactly when it has settings, and sends none without.
HandsEmpty == \A h \in Handlers : ReaderAt(h, "got") \/ readers[h].got = None
SavesUnderWay == \A t \in Editors : pages[t].saving => ~ReaderAt(<<t, "save">>, "idle")
FormsBacked == \A t \in Editors : pages[t].form = None <=> pages[t].data = None
SavesBacked == \A t \in Editors : pages[t].sent # None => pages[t].data # None
SettingsBacked == now <= MaxTime /\ HandsEmpty /\ SavesUnderWay /\ FormsBacked /\ SavesBacked

\* A step of one reader, and of no page.
LEMMA HandMoves ==
  ASSUME SettingsIInv, SettingsBacked, NEW h \in Handlers, NEW step, NEW value,
         GoTo(h, step, value), step = "got" \/ value = None, step # "idle",
         UNCHANGED <<now, pages>>
  PROVE  SettingsBacked'
<1>1. /\ readers'[h] = [step |-> step, got |-> value]
      /\ \A k \in Handlers \ {h} : readers'[k] = readers[k]
  BY DEF GoTo, SettingsIInv, SettingsTyped
<1>2. HandsEmpty' BY <1>1 DEF SettingsBacked, HandsEmpty, ReaderAt
<1>3. SavesUnderWay'
  <2>1. \A t \in Editors : <<t, "save">> \in Handlers BY DEF Handlers
  <2> QED BY <1>1, <2>1 DEF SettingsBacked, SavesUnderWay, ReaderAt
<1>4. now' <= MaxTime /\ FormsBacked' /\ SavesBacked' BY DEF SettingsBacked, FormsBacked, SavesBacked
<1> QED BY <1>2, <1>3, <1>4 DEF SettingsBacked

\* A step of one page, and of the reader of one of its calls.
LEMMA FormMoves ==
  ASSUME SettingsIInv, SettingsBacked, NEW t \in Editors, NEW shown, NEW kind \in {"load", "save"},
         pages' = [pages EXCEPT ![t] = shown], shown.form = None <=> shown.data = None,
         shown.sent # None => shown.data # None,
         \/ readers' = readers /\ (shown.saving => pages[t].saving)
         \/ GoTo(<<t, kind>>, "find", None)
            /\ (kind = "load" /\ shown.saving => pages[t].saving)
         \/ GoTo(<<t, kind>>, "idle", None)
            /\ IF kind = "load" THEN shown.saving => pages[t].saving ELSE ~shown.saving,
         now' = now
  PROVE  SettingsBacked'
<1>1. <<t, kind>> \in Handlers BY DEF Handlers
<1>2. /\ \A h \in Handlers \ {<<t, kind>>} : readers'[h] = readers[h]
      /\ \/ readers' = readers
         \/ readers'[<<t, kind>>] = [step |-> "find", got |-> None]
         \/ readers'[<<t, kind>>] = [step |-> "idle", got |-> None]
  BY <1>1 DEF GoTo, SettingsIInv, SettingsTyped
<1>3. pages'[t] = shown /\ \A u \in Editors \ {t} : pages'[u] = pages[u] BY DEF SettingsIInv, SettingsTyped
<1>4. HandsEmpty'
  <2>1. ASSUME NEW h \in Handlers PROVE readers'[h].step = "got" \/ readers'[h].got = None
    BY <1>2 DEF SettingsBacked, HandsEmpty, ReaderAt
  <2> QED BY <2>1 DEF HandsEmpty, ReaderAt
<1>5. SavesUnderWay'
  <2>1. ASSUME NEW u \in Editors, u # t, pages'[u].saving
        PROVE  readers'[<<u, "save">>].step # "idle"
    <3>1. <<u, "save">> \in Handlers /\ <<u, "save">> # <<t, kind>> BY <2>1 DEF Handlers
    <3>2. readers'[<<u, "save">>] = readers[<<u, "save">>] BY <1>2, <3>1
    <3>3. readers[<<u, "save">>].step # "idle"
      BY <1>3, <2>1 DEF SettingsBacked, SavesUnderWay, ReaderAt
    <3> QED BY <3>2, <3>3
  <2>2. ASSUME shown.saving PROVE readers'[<<t, "save">>].step # "idle"
    <3>1. <<t, "save">> \in Handlers BY DEF Handlers
    <3>2. CASE kind = "save"
      <4>1. CASE readers' = readers /\ shown.saving = pages[t].saving
        BY <2>2, <4>1 DEF SettingsBacked, SavesUnderWay, ReaderAt
      <4>2. CASE GoTo(<<t, kind>>, "find", None)
        BY <1>1, <3>2, <4>2 DEF GoTo, SettingsIInv, SettingsTyped
      <4> QED BY <2>2, <3>2, <4>1, <4>2
    <3>3. CASE kind = "load"
      <4>1. readers'[<<t, "save">>] = readers[<<t, "save">>] BY <1>2, <3>1, <3>3
      <4>2. pages[t].saving BY <2>2, <3>3
      <4> QED BY <4>1, <4>2 DEF SettingsBacked, SavesUnderWay, ReaderAt
    <3> QED BY <3>2, <3>3
  <2> QED BY <1>3, <2>1, <2>2 DEF SavesUnderWay, ReaderAt
<1>6. FormsBacked' /\ SavesBacked' BY <1>3 DEF SettingsBacked, FormsBacked, SavesBacked
<1>7. now' <= MaxTime BY DEF SettingsBacked
<1> QED BY <1>4, <1>5, <1>6, <1>7 DEF SettingsBacked

LEMMA FormStaysBacked ==
  ASSUME SettingsIInv, SettingsBacked, NEW t \in Editors, PageStep(t)
  PROVE  SettingsBacked'
<1>1. /\ pages[t].form = None <=> pages[t].data = None
      /\ pages[t].sent # None => pages[t].data # None
  BY DEF SettingsBacked, FormsBacked, SavesBacked
<1>2. now' = now
  BY DEF PageStep, OpenPage, Reconnect, Loaded, LoadFails, Edit, Submit, UpdateSettings, SaveFails
<1>3. CASE OpenPage(t)
  <2> DEFINE shown == [pages[t] EXCEPT !.form = pages[t].data, !.edited = FALSE, !.saving = FALSE]
  <2>1. shown.form = shown.data /\ ~shown.saving /\ shown.data = pages[t].data
        /\ shown.sent = pages[t].sent
    BY PageNow DEF FormPage
  <2>2. pages' = [pages EXCEPT ![t] = shown] BY <1>3, PageNow DEF OpenPage
  <2>3. GoTo(<<t, "load">>, "find", None) \/ readers' = readers BY <1>3 DEF OpenPage
  <2> HIDE DEF shown
  <2> QED BY <1>1, <1>2, <2>1, <2>2, <2>3, FormMoves
<1>4. CASE Loaded(t)
  <2> DEFINE value == readers[<<t, "load">>].got
             shown == Seed(pages[t], value)
  <2>1. value \in Values BY <1>4 DEF Loaded, SettingsIInv, ReadersSound, Handlers
  <2>2. shown.form # None /\ shown.data # None /\ shown.saving = pages[t].saving
    BY PageNow, <2>1, ValuesAssumption DEF Seed, FormPage
  <2>3. pages' = [pages EXCEPT ![t] = shown] /\ GoTo(<<t, "load">>, "idle", None)
    BY <1>4 DEF Loaded
  <2> HIDE DEF shown
  <2> QED BY <1>2, <2>2, <2>3, FormMoves
<1>5. CASE Reconnect(t) \/ LoadFails(t)
  <2>1. GoTo(<<t, "load">>, "find", None) \/ GoTo(<<t, "load">>, "idle", None)
    BY <1>5 DEF Reconnect, LoadFails
  <2>2. pages' = [pages EXCEPT ![t] = pages[t]] BY <1>5, PageNow DEF Reconnect, LoadFails
  <2> QED BY <1>1, <1>2, <2>1, <2>2, FormMoves
<1>6. CASE Edit(t)
  <2>1. PICK v \in Values : pages' = [pages EXCEPT ![t].form = v, ![t].edited = TRUE]
    BY <1>6 DEF Edit
  <2> DEFINE shown == [pages[t] EXCEPT !.form = v, !.edited = TRUE]
  <2>2. shown.form # None /\ shown.data # None /\ shown.saving = pages[t].saving
    BY PageNow, <1>1, <1>6, ValuesAssumption DEF FormPage, Edit
  <2>3. pages' = [pages EXCEPT ![t] = shown] BY PageNow, <2>1
  <2>4. readers' = readers BY <1>6 DEF Edit
  <2> HIDE DEF shown
  <2> QED BY <1>2, <2>2, <2>3, <2>4, FormMoves
<1>7. CASE Submit(t)
  <2> DEFINE shown == [pages[t] EXCEPT !.saving = TRUE, !.sent = pages[t].form]
  <2>1. shown.form # None /\ shown.data # None BY PageNow, <1>1, <1>7 DEF FormPage, Submit
  <2>2. pages' = [pages EXCEPT ![t] = shown] BY PageNow, <1>7 DEF Submit
  <2>3. GoTo(<<t, "save">>, "find", None) BY <1>7 DEF Submit
  <2> HIDE DEF shown
  <2> QED BY <1>2, <2>1, <2>2, <2>3, FormMoves
<1>8. CASE UpdateSettings(t)
  <2> DEFINE payload == pages[t].sent
             kept == IF pages[t].form = payload THEN FALSE ELSE pages[t].edited
             shown == [pages[t] EXCEPT !.data = payload, !.sent = None, !.saving = FALSE,
                                       !.edited = kept]
  <2>1. ~shown.saving /\ shown.data = payload /\ shown.form = pages[t].form /\ shown.sent = None
    BY PageNow DEF FormPage
  <2>2. payload # None /\ pages[t].data # None
    BY <1>8 DEF UpdateSettings, SettingsIInv, PagesSound, SaveIdle, ReaderAt,
                SettingsBacked, SavesBacked
  <2>3. pages' = [pages EXCEPT ![t] = shown] BY <1>8 DEF UpdateSettings
  <2>4. GoTo(<<t, "save">>, "idle", None) BY <1>8 DEF UpdateSettings
  <2> HIDE DEF shown
  <2> QED BY <1>1, <1>2, <2>1, <2>2, <2>3, <2>4, FormMoves
<1>9. CASE SaveFails(t)
  <2> DEFINE shown == [pages[t] EXCEPT !.saving = FALSE, !.sent = None]
  <2>1. ~shown.saving /\ shown.sent = None /\ (shown.form = None <=> shown.data = None)
    BY PageNow, <1>1 DEF FormPage
  <2>2. pages' = [pages EXCEPT ![t] = shown] BY PageNow, <1>9 DEF SaveFails
  <2>3. GoTo(<<t, "save">>, "idle", None) BY <1>9 DEF SaveFails
  <2> HIDE DEF shown
  <2> QED BY <1>2, <2>1, <2>2, <2>3, FormMoves
<1> QED BY <1>3, <1>4, <1>5, <1>6, <1>7, <1>8, <1>9 DEF PageStep

LEMMA SettingsStayBacked == SettingsSpec => []SettingsBacked
<1>1. SettingsInit => SettingsBacked
  <2> SUFFICES ASSUME SettingsInit PROVE SettingsBacked OBVIOUS
  <2>1. HandsEmpty BY DEF SettingsInit, HandsEmpty
  <2>2. SavesUnderWay /\ FormsBacked /\ SavesBacked
    BY DEF SettingsInit, SavesUnderWay, FormsBacked, SavesBacked, BlankForm
  <2>3. now <= MaxTime BY SettingsAssumption DEF SettingsInit
  <2> QED BY <2>1, <2>2, <2>3 DEF SettingsBacked
<1>2. ASSUME SettingsIInv, SettingsBacked, [SettingsNext]_settingsVars PROVE SettingsBacked'
  <2>1. CASE UNCHANGED settingsVars
    BY <1>2, <2>1
    DEF settingsVars, SettingsBacked, HandsEmpty, SavesUnderWay, FormsBacked, SavesBacked, ReaderAt
  <2>2. ASSUME NEW h \in Handlers, FindFirst(h) \/ Insert(h) \/ FindAgain(h)
        PROVE SettingsBacked'
    <3>1. UNCHANGED <<now, pages>> BY <2>2 DEF FindFirst, Insert, FindAgain
    <3>2. PICK step \in {"got", "insert", "again", "failed"} :
            \E value : GoTo(h, step, value) /\ (step = "got" \/ value = None)
      BY <2>2 DEF FindFirst, Insert, FindAgain
    <3>3. PICK value : GoTo(h, step, value) /\ (step = "got" \/ value = None) BY <3>2
    <3> QED BY <1>2, <3>1, <3>3, HandMoves
  <2>3. ASSUME NEW c \in Renames, StartRename(c) PROVE SettingsBacked'
    <3>1. UNCHANGED <<now, pages>> /\ (readers' = readers \/ GoTo(c, "find", None))
      BY <2>3 DEF StartRename
    <3>2. c \in Handlers BY DEF Handlers
    <3>3. CASE GoTo(c, "find", None) BY <1>2, <3>1, <3>2, <3>3, HandMoves
    <3>4. CASE readers' = readers
      BY <1>2, <3>1, <3>4
      DEF SettingsBacked, HandsEmpty, SavesUnderWay, FormsBacked, SavesBacked, ReaderAt
    <3> QED BY <3>1, <3>3, <3>4
  <2>4. ASSUME NEW c \in Renames, CheckCooldown(c) \/ UpdateNickname(c) PROVE SettingsBacked'
    BY <1>2, <2>4
    DEF CheckCooldown, UpdateNickname, SettingsBacked, HandsEmpty, SavesUnderWay,
        FormsBacked, SavesBacked, ReaderAt
  <2>5. ASSUME NEW t \in Editors, PageStep(t) PROVE SettingsBacked'
    BY <1>2, <2>5, FormStaysBacked
  <2>6. CASE Tick
    <3>1. now' <= MaxTime BY <1>2, <2>6, SettingsAssumption DEF Tick, SettingsIInv, SettingsTyped
    <3> QED
      BY <1>2, <2>6, <3>1
      DEF Tick, SettingsBacked, HandsEmpty, SavesUnderWay, FormsBacked, SavesBacked, ReaderAt
  <2> QED BY <1>2, <2>1, <2>2, <2>3, <2>4, <2>5, <2>6 DEF SettingsNext, PageStep
<1> QED BY <1>1, <1>2, SettingsInvariant, PTL DEF SettingsSpec

\* The settings row, its readers and the pages keep to their types: a handler holds
\* settings exactly when it got them, a page is saving only while its call is on the way,
\* with what it sent, and has a form exactly when it has settings.
THEOREM SettingsTypeSound == SettingsSpec => []SettingsTypeOK
<1>1. SettingsIInv /\ SettingsBacked => SettingsTypeOK
  <2> SUFFICES ASSUME SettingsIInv, SettingsBacked PROVE SettingsTypeOK OBVIOUS
  <2>1. row \in Values \cup {None} BY DEF SettingsIInv, SettingsTyped
  <2>2. now \in 0..MaxTime BY SettingsAssumption DEF SettingsIInv, SettingsTyped, SettingsBacked
  <2>3. changed \in (0..now) \cup {None} BY DEF SettingsIInv, SettingsTyped, StampsSound
  <2>4. \A h \in Handlers : ReaderAt(h, "got") <=> readers[h].got \in Values
    BY ValuesAssumption DEF SettingsIInv, ReadersSound, SettingsBacked, HandsEmpty
  <2>5. ASSUME NEW t \in Editors
        PROVE  /\ pages[t].saving => ~SaveIdle(t)
               /\ SaveIdle(t) <=> pages[t].sent = None
               /\ {pages[t].form, pages[t].sent} \subseteq Values \cup {None}
               /\ pages[t].form = None <=> pages[t].data = None
    <3>1. pages[t] \in FormPage BY DEF SettingsIInv, SettingsTyped
    <3> QED
      BY <3>1 DEF SettingsIInv, PagesSound, SettingsBacked, SavesUnderWay, FormsBacked,
                    FormPage, SaveIdle
  <2> QED BY <2>1, <2>2, <2>3, <2>4, <2>5 DEF SettingsTypeOK
<1> QED BY <1>1, SettingsInvariant, SettingsStayBacked, PTL

---------------------------------------------------------------------------
(* Browsing: the inductive invariant *)

\* A login or a sign-up on its way is somebody's.
LoginsNamed ==
  \A c \in Calls : deeds[c].leg # "home" /\ deeds[c].kind \in SignIns => deeds[c].as \in Visitors

NameIsSeat == me.who \in {None, seat}

RowsAreNamed == mine \in {None, me.who}

\* Rows are fetched only for the member auth/me names.
TripIsNamed == mineTrip.leg # "home" => me.who # None /\ mineTrip.as \in {None, me.who}

Tied == NameIsSeat /\ RowsAreNamed /\ TripIsNamed

BrowsingIInv == BrowsingTypeOK /\ LoginsNamed /\ (~astray => Tied)

---------------------------------------------------------------------------
LEMMA BrowsingInitSound == BrowsingInit => BrowsingIInv
<1> SUFFICES ASSUME BrowsingInit PROVE BrowsingIInv OBVIOUS
<1>1. deeds \in [Calls -> [kind : DeedKinds \cup {None}, as : Someone,
                           leg : {"home", "out", "done"}]]
  BY DEF BrowsingInit, NoDeed, Someone
<1>2. seat \in Someone /\ live \subseteq Visitors /\ closing \subseteq Visitors
  BY DEF BrowsingInit, Someone
<1>3. me \in [who : Someone, settled : BOOLEAN, closing : BOOLEAN] /\ mine \in Someone
  BY DEF BrowsingInit, Unknown, Someone
<1>4. {meTrip, mineTrip} \subseteq [leg : {"home", "out", "back"}, as : Someone]
  BY DEF BrowsingInit, NoTrip, Someone
<1>5. LoginsNamed BY DEF BrowsingInit, NoDeed, LoginsNamed
<1>6. Tied
  BY DEF BrowsingInit, Tied, NameIsSeat, RowsAreNamed, TripIsNamed, Unknown, NoTrip
<1>7. astray \in BOOLEAN BY DEF BrowsingInit
<1> QED BY <1>1, <1>2, <1>3, <1>4, <1>5, <1>6, <1>7 DEF BrowsingIInv, BrowsingTypeOK

---------------------------------------------------------------------------
(* The queries *)

Trips == [leg : {"home", "out", "back"}, as : Someone]

LEMMA TripsTyped ==
  ASSUME BrowsingTypeOK
  PROVE  /\ NoTrip \in Trips /\ Sent \in Trips
         /\ meTrip \in Trips /\ mineTrip \in Trips
         /\ Reads(meTrip) \subseteq Trips /\ Reads(mineTrip) \subseteq Trips
<1>1. meTrip \in Trips /\ mineTrip \in Trips BY DEF BrowsingTypeOK, Trips
<1>2. NoTrip \in Trips /\ Sent \in Trips
  BY DEF BrowsingTypeOK, Trips, NoTrip, Sent, Someone
<1>3. ASSUME NEW trip \in Trips PROVE Reads(trip) \subseteq Trips
  BY <1>3 DEF Reads, Trips, Someone
<1> QED BY <1>1, <1>2, <1>3

LEMMA FetchMeSound == ASSUME BrowsingIInv, FetchMe \/ ServeMe PROVE BrowsingIInv'
<1>1. BrowsingTypeOK BY DEF BrowsingIInv
<1>2. meTrip' \in Trips BY <1>1, TripsTyped DEF FetchMe, ServeMe
<1>3. UNCHANGED <<seat, live, closing, me, mine, mineTrip, deeds, astray>>
  BY DEF FetchMe, ServeMe
<1>4. BrowsingTypeOK' BY <1>1, <1>2, <1>3 DEF BrowsingTypeOK, Trips
<1>5. LoginsNamed' BY <1>3 DEF BrowsingIInv, LoginsNamed
<1>6. (~astray => Tied)'
  BY <1>3 DEF BrowsingIInv, Tied, NameIsSeat, RowsAreNamed, TripIsNamed
<1> QED BY <1>4, <1>5, <1>6 DEF BrowsingIInv

LEMMA FetchMineSound == ASSUME BrowsingIInv, ~astray, FetchMine \/ ServeMine PROVE BrowsingIInv'
<1>1. BrowsingTypeOK /\ Tied BY DEF BrowsingIInv
<1>2. UNCHANGED <<seat, live, closing, me, mine, meTrip, deeds, astray>>
  BY DEF FetchMine, ServeMine
<1>3. mineTrip' \in Trips BY <1>1, TripsTyped DEF FetchMine, ServeMine
<1>4. BrowsingTypeOK' BY <1>1, <1>2, <1>3 DEF BrowsingTypeOK, Trips
<1>5. LoginsNamed' BY <1>2 DEF BrowsingIInv, LoginsNamed
<1>6. me.who # None /\ mineTrip'.as \in {None, me.who}
  <2>1. CASE FetchMine
    BY <1>1, <2>1 DEF FetchMine, AuthStatus, Sent, Tied, NameIsSeat
  <2>2. CASE ServeMine
    <3>1. mineTrip.leg = "out" /\ mineTrip' \in Reads(mineTrip) BY <2>2 DEF ServeMine
    <3>2. me.who # None /\ mineTrip.as \in {None, me.who} BY <1>1, <3>1 DEF Tied, TripIsNamed
    <3>3. mineTrip'.as \in {None, mineTrip.as} BY <3>1 DEF Reads
    <3> QED BY <3>2, <3>3
  <2> QED BY <2>1, <2>2
<1>7. Tied' BY <1>1, <1>2, <1>6 DEF Tied, NameIsSeat, RowsAreNamed, TripIsNamed
<1> QED BY <1>4, <1>5, <1>7 DEF BrowsingIInv

Users == [who : Someone, settled : BOOLEAN, closing : BOOLEAN]

LEMMA UserTyped == ASSUME NEW m \in Someone PROVE UserOf(m) \in Users /\ UserOf(m).who = m
BY DEF UserOf, Users

LEMMA MeArrivesSound == ASSUME BrowsingIInv, ~astray, MeArrives PROVE BrowsingIInv'
<1>1. BrowsingTypeOK /\ Tied BY DEF BrowsingIInv
<1>2. meTrip \in Trips /\ NoTrip \in Trips /\ me \in Users
  BY <1>1, TripsTyped DEF BrowsingTypeOK, Users
<1>3. /\ meTrip' = NoTrip /\ astray' = (astray \/ meTrip.as \notin {None, seat})
      /\ UNCHANGED <<seat, live, closing, mine, mineTrip, deeds>>
  BY DEF MeArrives
<1>4. me' \in Users /\ me'.who = IF meTrip.as = None THEN me.who ELSE meTrip.as
  <2>1. CASE meTrip.as = None
    <3>1. me' = [me EXCEPT !.settled = TRUE] BY <2>1 DEF MeArrives
    <3> QED BY <1>2, <2>1, <3>1 DEF Users
  <2>2. CASE meTrip.as # None
    <3>1. me' = UserOf(meTrip.as) /\ meTrip.as \in Someone BY <1>2, <2>2 DEF MeArrives, Trips
    <3> QED BY <2>2, <3>1, UserTyped
  <2> QED BY <2>1, <2>2
<1>5. BrowsingTypeOK' BY <1>1, <1>2, <1>3, <1>4 DEF BrowsingTypeOK, Trips, Users
<1>6. LoginsNamed' BY <1>3 DEF BrowsingIInv, LoginsNamed
<1>7. ~astray' => Tied'
  <2> SUFFICES ASSUME ~astray' PROVE Tied' OBVIOUS
  <2>1. meTrip.as \in {None, seat} BY <1>3
  <2>2. me'.who = me.who \/ (me'.who = seat /\ me.who \in {None, seat})
    BY <1>1, <1>4, <2>1 DEF Tied, NameIsSeat
  <2>3. NameIsSeat' BY <1>1, <1>3, <2>2 DEF Tied, NameIsSeat
  <2>4. RowsAreNamed' BY <1>1, <1>3, <2>2 DEF Tied, RowsAreNamed
  <2>5. TripIsNamed' BY <1>1, <1>3, <2>2 DEF Tied, TripIsNamed
  <2> QED BY <2>3, <2>4, <2>5 DEF Tied
<1> QED BY <1>5, <1>6, <1>7 DEF BrowsingIInv

LEMMA MineArrivesSound == ASSUME BrowsingIInv, ~astray, MineArrives PROVE BrowsingIInv'
<1>1. BrowsingTypeOK /\ Tied BY DEF BrowsingIInv
<1>2. /\ mineTrip.leg = "back" /\ mineTrip' = NoTrip
      /\ mine' = IF mineTrip.as = None THEN mine ELSE mineTrip.as
      /\ UNCHANGED <<seat, live, closing, me, meTrip, deeds, astray>>
  BY DEF MineArrives
<1>3. mineTrip \in Trips /\ NoTrip \in Trips BY <1>1, TripsTyped
<1>4. mine' \in Someone BY <1>1, <1>2, <1>3 DEF BrowsingTypeOK, Trips
<1>5. BrowsingTypeOK' BY <1>1, <1>2, <1>3, <1>4 DEF BrowsingTypeOK, Trips
<1>6. LoginsNamed' BY <1>2 DEF BrowsingIInv, LoginsNamed
<1>7. mine' \in {None, me.who} BY <1>1, <1>2 DEF Tied, RowsAreNamed, TripIsNamed
<1>8. Tied' BY <1>1, <1>2, <1>7 DEF Tied, NameIsSeat, RowsAreNamed, TripIsNamed, NoTrip
<1> QED BY <1>5, <1>6, <1>8 DEF BrowsingIInv

---------------------------------------------------------------------------
(* The calls *)

Deeds == [kind : DeedKinds \cup {None}, as : Someone, leg : {"home", "out", "done"}]

\* One call changes and the cache is left as it is.
LEMMA DeedMoves ==
  ASSUME BrowsingIInv, NEW c \in Calls, NEW deed \in Deeds,
         deeds' = [deeds EXCEPT ![c] = deed],
         deed.leg # "home" /\ deed.kind \in SignIns => deed.as \in Visitors,
         live' \subseteq Visitors, closing' \subseteq Visitors,
         UNCHANGED <<seat, me, mine, meTrip, mineTrip, astray>>
  PROVE  BrowsingIInv'
<1>1. BrowsingTypeOK BY DEF BrowsingIInv
<1>2. deeds \in [Calls -> Deeds] BY <1>1 DEF BrowsingTypeOK, Deeds
<1>3. deeds' \in [Calls -> Deeds] BY <1>2
<1>4. BrowsingTypeOK' BY <1>1, <1>3 DEF BrowsingTypeOK, Deeds
<1>5. deeds'[c] = deed /\ \A d \in Calls \ {c} : deeds'[d] = deeds[d] BY <1>2
<1>6. LoginsNamed' BY <1>5 DEF BrowsingIInv, LoginsNamed
<1>7. (~astray => Tied)'
  BY DEF BrowsingIInv, Tied, NameIsSeat, RowsAreNamed, TripIsNamed
<1> QED BY <1>4, <1>6, <1>7 DEF BrowsingIInv

\* A call is answered: it is forgotten, and the cache is rewritten.
LEMMA AnswerMoves ==
  ASSUME BrowsingIInv, NEW c \in Calls, deeds' = [deeds EXCEPT ![c] = NoDeed],
         seat' \in Someone, me' \in Users, mine' \in Someone,
         meTrip' \in Trips, mineTrip' \in Trips, astray' \in BOOLEAN,
         UNCHANGED <<live, closing>>, ~astray' => Tied'
  PROVE  BrowsingIInv'
<1>1. BrowsingTypeOK BY DEF BrowsingIInv
<1>2. deeds \in [Calls -> Deeds] BY <1>1 DEF BrowsingTypeOK, Deeds
<1>3. NoDeed \in Deeds BY DEF NoDeed, Deeds, Someone
<1>4. deeds' \in [Calls -> Deeds] BY <1>2, <1>3
<1>5. BrowsingTypeOK' BY <1>1, <1>4 DEF BrowsingTypeOK, Deeds, Users, Trips
<1>6. deeds'[c] = NoDeed /\ \A d \in Calls \ {c} : deeds'[d] = deeds[d] BY <1>2
<1>7. LoginsNamed' BY <1>6 DEF BrowsingIInv, LoginsNamed, NoDeed
<1> QED BY <1>5, <1>7 DEF BrowsingIInv

LEMMA AskSound ==
  ASSUME BrowsingIInv, NEW c \in Calls, NEW kind \in DeedKinds, NEW m \in Visitors, Ask(c, kind, m)
  PROVE  BrowsingIInv'
<1> DEFINE deed == [kind |-> kind, leg |-> "out", as |-> IF kind \in SignIns THEN m ELSE seat]
<1>1. BrowsingTypeOK BY DEF BrowsingIInv
<1>2. deed \in Deeds BY <1>1 DEF BrowsingTypeOK, Deeds, Someone
<1>3. deed.kind \in SignIns => deed.as \in Visitors OBVIOUS
<1>4. deeds' = [deeds EXCEPT ![c] = deed]
      /\ UNCHANGED <<seat, live, closing, me, mine, meTrip, mineTrip, astray>>
  BY DEF Ask
<1>5. live' \subseteq Visitors /\ closing' \subseteq Visitors BY <1>1, <1>4 DEF BrowsingTypeOK
<1> HIDE DEF deed
<1> QED BY <1>2, <1>3, <1>4, <1>5, DeedMoves

LEMMA ServedMoves ==
  ASSUME BrowsingIInv, NEW c \in Calls, Served(c), deeds[c].leg = "out",
         live' \subseteq Visitors, closing' \subseteq Visitors,
         UNCHANGED <<seat, me, mine, meTrip, mineTrip, astray>>
  PROVE  BrowsingIInv'
<1> DEFINE deed == [deeds[c] EXCEPT !.leg = "done"]
<1>1. deeds \in [Calls -> Deeds] BY DEF BrowsingIInv, BrowsingTypeOK, Deeds
<1>2. deeds[c] \in Deeds BY <1>1
<1>3. deed \in Deeds /\ deed.kind = deeds[c].kind /\ deed.as = deeds[c].as BY <1>2 DEF Deeds
<1>4. deeds' = [deeds EXCEPT ![c] = deed] BY DEF Served
<1>5. deed.kind \in SignIns => deed.as \in Visitors BY <1>3 DEF BrowsingIInv, LoginsNamed
<1> HIDE DEF deed
<1> QED BY <1>3, <1>4, <1>5, DeedMoves

LEMMA ServedSound ==
  ASSUME BrowsingIInv, NEW c \in Calls, ServeLogin(c) \/ ServeGuarded(c)
  PROVE  BrowsingIInv'
<1>1. live \subseteq Visitors /\ closing \subseteq Visitors BY DEF BrowsingIInv, BrowsingTypeOK
<1>2. /\ Served(c) /\ deeds[c].leg = "out"
      /\ UNCHANGED <<seat, me, mine, meTrip, mineTrip, astray>>
  BY DEF ServeLogin, ServeGuarded
<1>3. live' \subseteq Visitors /\ closing' \subseteq Visitors
  <2>1. CASE ServeLogin(c)
    <3>1. deeds[c].as \in Visitors BY <2>1 DEF ServeLogin, BrowsingIInv, LoginsNamed
    <3>2. live' = live \cup {deeds[c].as} /\ closing' = closing BY <2>1 DEF ServeLogin
    <3> QED BY <1>1, <3>1, <3>2
  <2>2. CASE ServeGuarded(c)
    <3>1. deeds[c].as \in Visitors BY <1>1, <2>2 DEF ServeGuarded, Admits
    <3>2. live' \in {live, live \ {deeds[c].as}} BY <2>2 DEF ServeGuarded
    <3>3. closing' \in {closing, closing \cup {deeds[c].as}, closing \ {deeds[c].as}}
      BY <2>2 DEF ServeGuarded
    <3> QED BY <1>1, <3>1, <3>2, <3>3
  <2> QED BY <2>1, <2>2
<1> QED BY <1>2, <1>3, ServedMoves

LEMMA FailSound == ASSUME BrowsingIInv, NEW c \in Calls, FailDeed(c) PROVE BrowsingIInv'
<1>1. NoDeed \in Deeds /\ NoDeed.leg = "home" BY DEF NoDeed, Deeds, Someone
<1>2. deeds' = [deeds EXCEPT ![c] = NoDeed]
      /\ UNCHANGED <<seat, live, closing, me, mine, meTrip, mineTrip, astray>>
  BY DEF FailDeed
<1>3. live' \subseteq Visitors /\ closing' \subseteq Visitors
  BY <1>2 DEF BrowsingIInv, BrowsingTypeOK
<1> QED BY <1>1, <1>2, <1>3, DeedMoves

\* What every answer starts from.
LEMMA AnswerNow ==
  ASSUME BrowsingIInv, ~astray, NEW c \in Calls
  PROVE  /\ Tied /\ seat \in Someone /\ mine \in Someone /\ deeds[c].as \in Someone
         /\ meTrip \in Trips /\ mineTrip \in Trips
         /\ UserOf(deeds[c].as) \in Users /\ UserOf(deeds[c].as).who = deeds[c].as
         /\ SignedOut \in Users /\ NoTrip \in Trips /\ None \in Someone
<1>1. BrowsingTypeOK /\ Tied BY DEF BrowsingIInv
<1>2. deeds[c].as \in Someone BY <1>1 DEF BrowsingTypeOK
<1>3. SignedOut \in Users /\ None \in Someone BY DEF SignedOut, Users, Someone
<1> QED BY <1>1, <1>2, <1>3, TripsTyped, UserTyped DEF BrowsingTypeOK

LEMMA AnswerLoginSound == ASSUME BrowsingIInv, ~astray, NEW c \in Calls, AnswerLogin(c) PROVE BrowsingIInv'
<1> DEFINE m == deeds[c].as
<1>1. /\ deeds' = [deeds EXCEPT ![c] = NoDeed] /\ seat' = m /\ me' = UserOf(m)
      /\ astray' = (astray \/ me.who \notin {None, m})
      /\ UNCHANGED <<live, closing, mine, meTrip, mineTrip>>
  BY DEF AnswerLogin, Answers
<1>2. me'.who = m BY <1>1, AnswerNow
<1>3. ASSUME ~astray' PROVE Tied'
  <2>1. me.who \in {None, m} BY <1>1, <1>3
  <2>2. mine' \in {None, m} BY <1>1, <2>1, AnswerNow DEF Tied, RowsAreNamed
  <2>3. mineTrip.leg # "home" => m # None /\ mineTrip.as \in {None, m}
    BY <2>1, AnswerNow DEF Tied, TripIsNamed
  <2> QED BY <1>1, <1>2, <2>2, <2>3 DEF Tied, NameIsSeat, RowsAreNamed, TripIsNamed
<1>4. seat' \in Someone /\ me' \in Users /\ mine' \in Someone BY <1>1, AnswerNow
<1>5. meTrip' \in Trips /\ mineTrip' \in Trips /\ astray' \in BOOLEAN BY <1>1, AnswerNow
<1> QED BY <1>1, <1>3, <1>4, <1>5, AnswerMoves

LEMMA AnswerLogoutSound == ASSUME BrowsingIInv, ~astray, NEW c \in Calls, AnswerLogout(c) PROVE BrowsingIInv'
<1>1. /\ deeds' = [deeds EXCEPT ![c] = NoDeed] /\ seat' = None /\ me' = SignedOut
      /\ mine' = None /\ meTrip' = NoTrip /\ mineTrip' = NoTrip
      /\ UNCHANGED <<live, closing, astray>>
  BY DEF AnswerLogout, Answers
<1>2. Tied'
  BY <1>1 DEF Tied, NameIsSeat, RowsAreNamed, TripIsNamed, SignedOut, NoTrip
<1>3. astray' \in BOOLEAN BY <1>1 DEF BrowsingIInv, BrowsingTypeOK
<1>4. seat' \in Someone /\ me' \in Users /\ mine' \in Someone
      /\ meTrip' \in Trips /\ mineTrip' \in Trips
  BY <1>1, AnswerNow
<1> QED BY <1>1, <1>2, <1>3, <1>4, AnswerMoves

LEMMA AnswerWithdrawSound ==
  ASSUME BrowsingIInv, ~astray, NEW c \in Calls, AnswerWithdraw(c)
  PROVE  BrowsingIInv'
<1>1. /\ deeds' = [deeds EXCEPT ![c] = NoDeed] /\ seat' = None /\ me' = SignedOut
      /\ astray' = TRUE /\ UNCHANGED <<live, closing, mine, meTrip, mineTrip>>
  BY DEF AnswerWithdraw, Answers
<1>2. seat' \in Someone /\ me' \in Users /\ mine' \in Someone
      /\ meTrip' \in Trips /\ mineTrip' \in Trips
  BY <1>1, AnswerNow
<1> QED BY <1>1, <1>2, AnswerMoves

LEMMA AnswerEditSound == ASSUME BrowsingIInv, ~astray, NEW c \in Calls, AnswerEdit(c) PROVE BrowsingIInv'
<1> DEFINE m == deeds[c].as
<1>1. /\ deeds' = [deeds EXCEPT ![c] = NoDeed] /\ me' = UserOf(m)
      /\ astray' = (astray \/ m # seat \/ me.who # m)
      /\ UNCHANGED <<seat, live, closing, mine, meTrip, mineTrip>>
  BY DEF AnswerEdit, Answers
<1>2. me'.who = m BY <1>1, AnswerNow
<1>3. ASSUME ~astray' PROVE Tied'
  <2>1. me'.who = me.who BY <1>1, <1>2, <1>3
  <2> QED BY <1>1, <2>1, AnswerNow DEF Tied, NameIsSeat, RowsAreNamed, TripIsNamed
<1>4. seat' \in Someone /\ me' \in Users /\ mine' \in Someone BY <1>1, AnswerNow
<1>5. meTrip' \in Trips /\ mineTrip' \in Trips /\ astray' \in BOOLEAN BY <1>1, AnswerNow
<1> QED BY <1>1, <1>3, <1>4, <1>5, AnswerMoves

\* The session changes in another tab: from here on nothing is claimed.
LEMMA OtherTabSound == ASSUME BrowsingIInv, NEW m \in Someone, OtherTab(m) PROVE BrowsingIInv'
<1>1. BrowsingTypeOK BY DEF BrowsingIInv
<1>2. /\ seat' = m /\ live' = (live \ {seat}) \cup ({m} \ {None}) /\ astray' = TRUE
      /\ UNCHANGED <<closing, me, mine, meTrip, mineTrip, deeds>>
  BY DEF OtherTab
<1>3. live' \subseteq Visitors BY <1>1, <1>2 DEF BrowsingTypeOK, Someone
<1>4. BrowsingTypeOK' BY <1>1, <1>2, <1>3 DEF BrowsingTypeOK
<1>5. LoginsNamed' BY <1>2 DEF BrowsingIInv, LoginsNamed
<1> QED BY <1>2, <1>4, <1>5 DEF BrowsingIInv

---------------------------------------------------------------------------
(* The theorems *)

LEMMA BrowsingNextSound == BrowsingIInv /\ [BrowsingNext]_browsingVars => BrowsingIInv'
<1> SUFFICES ASSUME BrowsingIInv, [BrowsingNext]_browsingVars PROVE BrowsingIInv' OBVIOUS
<1>1. CASE BrowsingNext
  <2>1. ~astray BY <1>1 DEF BrowsingNext, Followed
  <2>2. CASE FetchMe \/ ServeMe BY <2>2, FetchMeSound
  <2>3. CASE FetchMine \/ ServeMine BY <2>1, <2>3, FetchMineSound
  <2>4. CASE MeArrives BY <2>1, <2>4, MeArrivesSound
  <2>5. CASE MineArrives BY <2>1, <2>5, MineArrivesSound
  <2>6. ASSUME NEW c \in Calls, NEW kind \in DeedKinds, NEW m \in Visitors, Ask(c, kind, m)
        PROVE  BrowsingIInv'
    BY <2>6, AskSound
  <2>7. ASSUME NEW c \in Calls, ServeLogin(c) \/ ServeGuarded(c) PROVE BrowsingIInv'
    BY <2>7, ServedSound
  <2>8. ASSUME NEW c \in Calls, FailDeed(c) PROVE BrowsingIInv' BY <2>8, FailSound
  <2>9. ASSUME NEW c \in Calls, AnswerLogin(c) PROVE BrowsingIInv' BY <2>1, <2>9, AnswerLoginSound
  <2>10. ASSUME NEW c \in Calls, AnswerLogout(c) PROVE BrowsingIInv' BY <2>1, <2>10, AnswerLogoutSound
  <2>11. ASSUME NEW c \in Calls, AnswerWithdraw(c) PROVE BrowsingIInv'
    BY <2>1, <2>11, AnswerWithdrawSound
  <2>12. ASSUME NEW c \in Calls, AnswerEdit(c) PROVE BrowsingIInv' BY <2>1, <2>12, AnswerEditSound
  <2>13. ASSUME NEW m \in Someone, OtherTab(m) PROVE BrowsingIInv' BY <2>13, OtherTabSound
  <2> QED
    BY <1>1, <2>2, <2>3, <2>4, <2>5, <2>6, <2>7, <2>8, <2>9, <2>10, <2>11, <2>12, <2>13
    DEF BrowsingNext
<1>2. CASE UNCHANGED browsingVars
  <2>1. UNCHANGED <<seat, live, closing, me, mine, meTrip, mineTrip, deeds, astray>>
    BY <1>2 DEF browsingVars
  <2> QED
    BY <2>1 DEF BrowsingIInv, BrowsingTypeOK, LoginsNamed, Tied, NameIsSeat, RowsAreNamed, TripIsNamed
<1> QED BY <1>1, <1>2

LEMMA BrowsingInvariant == BrowsingSpec => []BrowsingIInv
BY BrowsingInitSound, BrowsingNextSound, PTL DEF BrowsingSpec

\* Until the session changes without the cache being cleared, the rows a tab
\* holds are those of whoever auth/me names, with any accounts sharing the
\* browser and any number of logins, logouts, edits and fetches in the air:
\* useLogoutMutation's clear() and the "authenticated" gate of the queries
\* keep it.  Excepted, by RecordsAreOwn itself, are a session changed in
\* another tab, a withdrawal, a sign-up completed or a login answered while
\* another member is shown, and an answer to a member who had left.
THEOREM RowsOfTheMember == BrowsingSpec => []RecordsAreOwn
<1>1. BrowsingIInv => RecordsAreOwn
  BY DEF BrowsingIInv, Tied, RowsAreNamed, RecordsAreOwn
<1> QED BY <1>1, BrowsingInvariant, PTL

\* A tab, the cookie it shares and the calls on their way keep to their types.
THEOREM BrowsingTypeSound == BrowsingSpec => []BrowsingTypeOK
<1>1. BrowsingIInv => BrowsingTypeOK BY DEF BrowsingIInv
<1> QED BY <1>1, BrowsingInvariant, PTL

---------------------------------------------------------------------------
(* The six side by side *)

\* Whatever the components share a run with, each of them behaves as it specifies: what
\* is proved of one holds of what the run explores.
LEMMA SiteRunsReading == SiteSpec => ReadingSpec
<1>1. SiteInit => ReadingInit BY DEF SiteInit
<1>2. [SiteNext]_<<component, readingVars, pushVars, deskVars,
                   settingsVars, browsingVars, formVars>> => [ReadingNext]_readingVars
  BY DEF SiteNext
<1> QED BY <1>1, <1>2, PTL DEF SiteSpec, ReadingSpec

LEMMA SiteRunsPush == SiteSpec => PushSpec
<1>1. SiteInit => PushInit BY DEF SiteInit
<1>2. [SiteNext]_<<component, readingVars, pushVars, deskVars,
                   settingsVars, browsingVars, formVars>> => [PushNext]_pushVars
  BY DEF SiteNext
<1> QED BY <1>1, <1>2, PTL DEF SiteSpec, PushSpec

LEMMA SiteRunsDesk == SiteSpec => DeskSpec
<1>1. SiteInit => DeskInit BY DEF SiteInit
<1>2. [SiteNext]_<<component, readingVars, pushVars, deskVars,
                   settingsVars, browsingVars, formVars>> => [DeskNext]_deskVars
  BY DEF SiteNext
<1> QED BY <1>1, <1>2, PTL DEF SiteSpec, DeskSpec

LEMMA SiteRunsSettings == SiteSpec => SettingsSpec
<1>1. SiteInit => SettingsInit BY DEF SiteInit
<1>2. [SiteNext]_<<component, readingVars, pushVars, deskVars,
                   settingsVars, browsingVars, formVars>> => [SettingsNext]_settingsVars
  BY DEF SiteNext
<1> QED BY <1>1, <1>2, PTL DEF SiteSpec, SettingsSpec

LEMMA SiteRunsBrowsing == SiteSpec => BrowsingSpec
<1>1. SiteInit => BrowsingInit BY DEF SiteInit
<1>2. [SiteNext]_<<component, readingVars, pushVars, deskVars,
                   settingsVars, browsingVars, formVars>> => [BrowsingNext]_browsingVars
  BY DEF SiteNext
<1> QED BY <1>1, <1>2, PTL DEF SiteSpec, BrowsingSpec

LEMMA SiteRunsForms == SiteSpec => FormSpec
<1>1. SiteInit => FormInit BY DEF SiteInit
<1>2. [SiteNext]_<<component, readingVars, pushVars, deskVars,
                   settingsVars, browsingVars, formVars>> => [FormNext]_formVars
  BY DEF SiteNext
<1> QED BY <1>1, <1>2, PTL DEF SiteSpec, FormSpec

\* Side by side, each component's state stays one of its types, for the component a
\* behaviour has picked and for the five others.
THEOREM SiteTypeSound == SiteSpec => []SiteTypeOK
<1>1. /\ ReadingTypeOK /\ PushTypeOK /\ DeskTypeOK /\ SettingsTypeOK /\ BrowsingTypeOK
      /\ FormTypeOK /\ component \in {"reading", "push", "desk", "settings", "browsing", "forms"}
      => SiteTypeOK
  BY DEF SiteTypeOK
<1>2. SiteSpec => [](component \in {"reading", "push", "desk", "settings", "browsing", "forms"})
  <2>1. SiteInit => component \in {"reading", "push", "desk", "settings", "browsing", "forms"}
    BY DEF SiteInit
  <2>2. component \in {"reading", "push", "desk", "settings", "browsing", "forms"}
        /\ [SiteNext]_<<component, readingVars, pushVars, deskVars,
                        settingsVars, browsingVars, formVars>>
        => (component \in {"reading", "push", "desk", "settings", "browsing", "forms"})'
    BY DEF SiteNext
  <2> QED BY <2>1, <2>2, PTL DEF SiteSpec
<1> QED
  BY <1>1, <1>2, SiteRunsReading, SiteRunsPush, SiteRunsDesk, SiteRunsSettings,
     SiteRunsBrowsing, SiteRunsForms, ReadingTypeSound, PushTypeSound, DeskTypeSound,
     SettingsTypeSound, BrowsingTypeSound, FormTypeSound, PTL

=============================================================================
