----------------------------- MODULE AdminDesk -----------------------------
(* The admin client's three lists of content: the review queue of hidden    *)
(* content, the requests and the replies, each a query of the client's      *)
(* cache.  Restoring and deleting are mutations whose answers invalidate    *)
(* the lists.  The database is touched by reports as well.                   *)
EXTENDS Naturals, FiniteSets, NoValue

CONSTANTS Asked,      \* requests
          Answered,   \* replies
          Filters,    \* the settings of the status filter in use
          Clicks      \* the mutations sent from the desk

ASSUME DeskAssumption ==
    /\ Filters \subseteq {"all", "visible", "hidden", "deleted"}
    /\ Asked \cap Answered = {}
    /\ None \notin Asked \cup Answered

Rows == Asked \cup Answered

KindOf(p) == IF p \in Asked THEN "requests" ELSE "replies"

\* A list's query key: the review queue has one, a table one per filter.
Keys == {<<"review", "hidden">>} \cup ({KindOf(p) : p \in Rows} \X Filters)

VARIABLES
    table,    \* the rows in the database
    view,     \* the key the open page observes
    lists,    \* the cache: what each key holds and what it is fetching
    asking,   \* the row the confirmation dialog is about
    clicks    \* the mutations

deskVars == <<table, view, lists, asking, clicks>>

Status(row) == IF row.deleted THEN "deleted"
               ELSE IF row.hidden THEN "hidden" ELSE "visible"

\* What a read sees: the rows it lists with their status, and, for the
\* properties, the mutations that had reached the database by then and whether
\* an invalidation has come while its answer was under way.
Snapshots == [listed : UNION {[S -> {"visible", "hidden", "deleted"}] :
                                S \in SUBSET Rows},
              covers : SUBSET Clicks,
              overtaken : BOOLEAN]

ASSUME SnapshotsAssumption == None \notin Snapshots

Empty == [data |-> None, fetch |-> "none", got |-> None, invalid |-> FALSE]

DeskInit ==
    /\ table = [p \in Rows |-> [hidden |-> TRUE, deleted |-> FALSE]]
    /\ view = <<"review", "hidden">>
    /\ lists = [k \in Keys |-> IF k = view THEN [Empty EXCEPT !.fetch = "sent"]
                                           ELSE Empty]
    /\ asking = None
    /\ clicks = [c \in Clicks |-> [op |-> "none", row |-> None, step |-> "idle"]]

-----------------------------------------------------------------------------
(* The server.                                                               *)

FindHiddenOrDeleted == {p \in Rows : table[p].hidden}

\* The review queue: hidden and not deleted, of both kinds.
FindHidden == {p \in Rows : Status(table[p]) = "hidden"}

\* A table: all rows of a kind, or those of one status.
FindAllForAdmin(kind, filter) ==
    {p \in Rows : /\ KindOf(p) = kind
                  /\ filter \in {"all", Status(table[p])}}

Lookup(k) == IF k[1] = "review" THEN FindHidden ELSE FindAllForAdmin(k[1], k[2])

Snapshot(k) == [listed |-> [p \in Lookup(k) |-> Status(table[p])],
                covers |-> {c \in Clicks : clicks[c].step \in {"done", "answered"}},
                overtaken |-> FALSE]

Read(k) ==
    /\ lists[k].fetch = "sent"
    /\ lists' = [lists EXCEPT ![k].fetch = "read", ![k].got = Snapshot(k)]
    /\ UNCHANGED <<table, view, asking, clicks>>

\* Restoring clears hidden and nothing else; deleting stamps deletedAt.
Perform(c) ==
    /\ clicks[c].step = "sent"
    /\ clicks' = [clicks EXCEPT ![c].step = "done"]
    /\ table' = IF clicks[c].op = "restore"
                THEN [table EXCEPT ![clicks[c].row].hidden = FALSE]
                ELSE [table EXCEPT ![clicks[c].row].deleted = TRUE]
    /\ UNCHANGED <<view, lists, asking>>

\* Reports hide a row (Moderation has the handler).
AutoHide(p) ==
    /\ Status(table[p]) = "visible"
    /\ table' = [table EXCEPT ![p].hidden = TRUE]
    /\ UNCHANGED <<view, lists, asking, clicks>>

-----------------------------------------------------------------------------
(* The cache.                                                                *)

\* A page that begins to observe a key fetches it, as nothing is ever fresh;
\* a fetch that is under way is joined.
Observed(entry) == IF entry.fetch = "none" THEN [entry EXCEPT !.fetch = "sent"]
                   ELSE entry

\* An invalidated key that is fetching goes on with that fetch, even if it has
\* read already.
Marked(entry) == IF entry.fetch = "read"
                 THEN [entry EXCEPT !.invalid = TRUE, !.got.overtaken = TRUE]
                 ELSE [entry EXCEPT !.invalid = TRUE]

\* On screen it fetches again: a fetch under way is dropped for a new one,
\* except the key's first, which is joined.
Refetched(entry) ==
    IF entry.data = None THEN Observed(Marked(entry))
    ELSE [entry EXCEPT !.invalid = TRUE, !.fetch = "sent", !.got = None]

InvalidatedTables(p) == {k \in Keys : k[1] = KindOf(p)}

\* What the answer to a mutation of a row invalidates.
Invalidated(p) == {k \in Keys : k[1] \in {"review", KindOf(p)}}

InvalidateHiddenQueue(p) ==
    lists' = [k \in Keys |-> IF k \notin Invalidated(p) THEN lists[k]
                             ELSE IF k = view THEN Refetched(lists[k])
                             ELSE Marked(lists[k])]

Arrive(k) ==
    /\ lists[k].fetch = "read"
    /\ lists' = [lists EXCEPT ![k].data = lists[k].got, ![k].got = None,
                              ![k].fetch = "none", ![k].invalid = FALSE]
    /\ UNCHANGED <<table, view, asking, clicks>>

\* A fetch is not retried: the page keeps what it has.
FetchFails(k) ==
    /\ lists[k].fetch # "none"
    /\ lists' = [lists EXCEPT ![k].fetch = "none", ![k].got = None]
    /\ UNCHANGED <<table, view, asking, clicks>>

-----------------------------------------------------------------------------
(* The pages.                                                                *)

\* Following a link of the shell, or choosing a filter.
Open(k) ==
    /\ k # view
    /\ asking = None
    /\ view' = k
    /\ lists' = [lists EXCEPT ![k] = Observed(lists[k])]
    /\ UNCHANGED <<table, asking, clicks>>

Listed(p) ==
    /\ lists[view].data # None
    /\ p \in DOMAIN lists[view].data.listed

\* A table offers what its row's status allows; the review queue both.
OffersRestore(p) == view[1] = "review" \/ lists[view].data.listed[p] # "visible"
OffersDelete(p) == view[1] = "review" \/ lists[view].data.listed[p] # "deleted"

SetPendingDelete(p) ==
    /\ asking = None
    /\ Listed(p)
    /\ OffersDelete(p)
    /\ asking' = p
    /\ UNCHANGED <<table, view, lists, clicks>>

CancelDelete ==
    /\ asking # None
    /\ asking' = None
    /\ UNCHANGED <<table, view, lists, clicks>>

Mutate(c, op, p) ==
    /\ clicks[c].step = "idle"
    /\ clicks' = [clicks EXCEPT ![c] = [op |-> op, row |-> p, step |-> "sent"]]

\* The dialog closes before the deletion is answered.
ConfirmDelete(c) ==
    /\ asking # None
    /\ Mutate(c, "delete", asking)
    /\ asking' = None
    /\ UNCHANGED <<table, view, lists>>

HandleRestore(c, p) ==
    /\ asking = None
    /\ Listed(p)
    /\ OffersRestore(p)
    /\ Mutate(c, "restore", p)
    /\ UNCHANGED <<table, view, lists, asking>>

Succeed(c) ==
    /\ clicks[c].step = "done"
    /\ clicks' = [clicks EXCEPT ![c].step = "answered"]
    /\ InvalidateHiddenQueue(clicks[c].row)
    /\ UNCHANGED <<table, view, asking>>

\* An error toast, whether or not the statement was executed.
Fail(c) ==
    /\ clicks[c].step \in {"sent", "done"}
    /\ clicks' = [clicks EXCEPT ![c].step = "failed"]
    /\ UNCHANGED <<table, view, lists, asking>>

DeskNext ==
    \/ \E k \in Keys : Read(k) \/ Arrive(k) \/ FetchFails(k) \/ Open(k)
    \/ \E p \in Rows : AutoHide(p) \/ SetPendingDelete(p)
    \/ \E c \in Clicks : Perform(c) \/ ConfirmDelete(c) \/ Succeed(c) \/ Fail(c)
    \/ \E c \in Clicks, p \in Rows : HandleRestore(c, p)
    \/ CancelDelete

DeskSpec == DeskInit /\ [][DeskNext]_deskVars

-----------------------------------------------------------------------------

\* A list holds rows of its own kind in the status it is for, the dialog is
\* about a row, and a mutation has one exactly when it was sent.
DeskTypeOK ==
    /\ table \in [Rows -> [hidden : BOOLEAN, deleted : BOOLEAN]]
    /\ view \in Keys
    /\ asking \in Rows \cup {None}
    /\ \A c \in Clicks : clicks[c].step = "idle" <=> clicks[c].row = None
    /\ \A k \in Keys :
         /\ lists[k].got # None <=> lists[k].fetch = "read"
         /\ \A d \in {lists[k].data, lists[k].got} \ {None} :
              /\ d \in Snapshots
              /\ \A p \in DOMAIN d.listed :
                   /\ k[1] \in {"review", KindOf(p)}
                   /\ k[2] \in {"all", d.listed[p]}

\* The list on screen, once nothing is being fetched for it, was read after
\* every mutation of its rows the desk has got an answer to: no restored row
\* in the review queue, no deleted row shown as if it were not.  Two lists may
\* be older: one whose renewal failed, which the cache still calls invalid,
\* and one the answer to which was under way when it was invalidated.
ListCoversAnswers ==
    LET entry == lists[view] IN
    entry.fetch = "none" /\ entry.data # None /\ ~entry.invalid /\ ~entry.data.overtaken
    => \A c \in Clicks :
         clicks[c].step = "answered" /\ view[1] \in {"review", KindOf(clicks[c].row)}
         => c \in entry.data.covers

=============================================================================
