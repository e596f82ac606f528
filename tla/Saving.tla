------------------------------- MODULE Saving -------------------------------
(* The feed of read threads as a member sees it: its pages and the member's  *)
(* saved replies are queries of the client's cache, saving, taking back and  *)
(* reporting are calls whose answers invalidate them.  A page's key stands   *)
(* for a date, a page number and a page size.                                *)
EXTENDS Naturals, NoValue

CONSTANTS Answered,    \* replies in the feed
          Sheets,      \* the keys of the feed's pages
          SheetOf,     \* the page a reply is on
          Gestures     \* calls sent by the member

ASSUME SheetsAssumption ==
    /\ SheetOf \in [Answered -> Sheets]
    /\ "saved" \notin Sheets
    /\ None \notin Answered

VARIABLES
    savedReplies,   \* the member's rows of saved_replies
    veiled,         \* hidden replies
    reportRows,     \* replies the member has reported
    stock,          \* the cache
    sheet,          \* the page chosen
    placeholder,    \* what the page chosen before showed
    pendingReport,  \* the reply the dialog is about
    gestures

savingVars == <<savedReplies, veiled, reportRows, stock, sheet, placeholder,
                pendingReport, gestures>>

Stocks == Sheets \cup {"saved"}

Loads == [items : SUBSET Answered, overtaken : BOOLEAN]
ASSUME LoadsAssumption == None \notin Loads

Bare == [data |-> None, fetch |-> "none", got |-> None, invalid |-> FALSE]

NoGesture == [op |-> "none", reply |-> None, step |-> "idle"]

SavingInit ==
    /\ savedReplies \in SUBSET Answered
    /\ veiled = {} /\ reportRows = {}
    /\ sheet \in Sheets
    /\ stock = [k \in Stocks |-> IF k \in {"saved", sheet}
                                 THEN [Bare EXCEPT !.fetch = "sent"] ELSE Bare]
    /\ placeholder = None
    /\ pendingReport = None
    /\ gestures = [g \in Gestures |-> NoGesture]

ScreenUnchanged == UNCHANGED <<sheet, placeholder, pendingReport>>
RowsUnchanged == UNCHANGED <<savedReplies, veiled, reportRows>>

-----------------------------------------------------------------------------
(* The server.                                                               *)

\* The bookmarks do not look at the replies; a page has the visible ones.
Stored(k) == IF k = "saved" THEN savedReplies
             ELSE {p \in Answered \ veiled : SheetOf[p] = k}

FetchReads(k) ==
    /\ stock[k].fetch = "sent"
    /\ stock' = [stock EXCEPT ![k].fetch = "read",
                              ![k].got = [items |-> Stored(k), overtaken |-> FALSE]]
    /\ RowsUnchanged /\ ScreenUnchanged /\ UNCHANGED gestures

Step(g, step) == gestures' = [gestures EXCEPT ![g].step = step]

\* Saving looks for the reply before it inserts the row.
FindVisibleReply(g) ==
    /\ gestures[g].op = "save" /\ gestures[g].step = "sent"
    /\ Step(g, IF gestures[g].reply \in veiled THEN "refused" ELSE "found")
    /\ RowsUnchanged /\ ScreenUnchanged /\ UNCHANGED stock

\* A row that is there already stays as it is.
Save(g) ==
    /\ gestures[g].step = "found"
    /\ savedReplies' = savedReplies \cup {gestures[g].reply}
    /\ Step(g, "done")
    /\ ScreenUnchanged /\ UNCHANGED <<veiled, reportRows, stock>>

Unsave(g) ==
    /\ gestures[g].op = "unsave" /\ gestures[g].step = "sent"
    /\ savedReplies' = savedReplies \ {gestures[g].reply}
    /\ Step(g, "done")
    /\ ScreenUnchanged /\ UNCHANGED <<veiled, reportRows, stock>>

\* A first report counts, with those of others it may hide the reply
\* (Moderation has the handler); a second one is refused.
Report(g) ==
    LET p == gestures[g].reply IN
    /\ gestures[g].op = "report" /\ gestures[g].step = "sent"
    /\ IF p \in reportRows \cup veiled
       THEN Step(g, "refused") /\ UNCHANGED <<reportRows, veiled>>
       ELSE /\ Step(g, "done")
            /\ reportRows' = reportRows \cup {p}
            /\ veiled' \in {veiled, veiled \cup {p}}
    /\ ScreenUnchanged /\ UNCHANGED <<savedReplies, stock>>

-----------------------------------------------------------------------------
(* The cache: a key that is fetched is joined, an invalidated one on screen  *)
(* is fetched anew, except while it has no data yet.                         *)

Joined(entry) == IF entry.fetch = "none" THEN [entry EXCEPT !.fetch = "sent"]
                 ELSE entry

Outdated(entry) == IF entry.fetch = "read"
                   THEN [entry EXCEPT !.invalid = TRUE, !.got.overtaken = TRUE]
                   ELSE [entry EXCEPT !.invalid = TRUE]

Renewed(entry) ==
    IF entry.data = None THEN Joined(Outdated(entry))
    ELSE [entry EXCEPT !.invalid = TRUE, !.fetch = "sent", !.got = None]

Arrives(k) ==
    /\ stock[k].fetch = "read"
    /\ stock' = [stock EXCEPT ![k].data = stock[k].got, ![k].got = None,
                              ![k].fetch = "none", ![k].invalid = FALSE]
    /\ RowsUnchanged /\ ScreenUnchanged /\ UNCHANGED gestures

LoadFails(k) ==
    /\ stock[k].fetch # "none"
    /\ stock' = [stock EXCEPT ![k].fetch = "none", ![k].got = None]
    /\ RowsUnchanged /\ ScreenUnchanged /\ UNCHANGED gestures

RenewedBySave(g) == IF gestures[g].op = "save" THEN {"saved"} ELSE Sheets

\* What the answer to a call invalidates: the bookmarks, or all of the feed.
InvalidatedBy(g) == IF gestures[g].op = "report" THEN Sheets ELSE {"saved"}

GestureAnswered(g) ==
    /\ gestures[g].step = "done"
    /\ Step(g, "answered")
    /\ stock' = [k \in Stocks |->
                   IF k \notin InvalidatedBy(g) THEN stock[k]
                   ELSE IF k \in {"saved", sheet} THEN Renewed(stock[k])
                   ELSE Outdated(stock[k])]
    /\ RowsUnchanged /\ ScreenUnchanged

\* A refusal, or an answer that is lost: an error is shown and nothing else.
GestureFails(g) ==
    /\ gestures[g].step \in {"sent", "found", "done"}
    /\ Step(g, IF gestures[g].step = "done" THEN "lost" ELSE "refused")
    /\ RowsUnchanged /\ ScreenUnchanged /\ UNCHANGED stock

-----------------------------------------------------------------------------
(* The screen.                                                               *)

\* Until a page's first answer the page before it stays on screen.
Displayed == IF stock[sheet].data # None THEN stock[sheet].data.items
             ELSE IF placeholder # None THEN placeholder.items ELSE {}

\* A reply counts as not saved while the bookmarks are not known.
Marked == IF stock["saved"].data = None THEN {} ELSE stock["saved"].data.items

\* Another date, page or page size.
TurnTo(k) ==
    /\ k # sheet
    /\ pendingReport = None
    /\ sheet' = k
    /\ placeholder' = IF stock[sheet].data # None
                      THEN [items |-> Displayed] ELSE placeholder
    /\ stock' = [stock EXCEPT ![k] = Joined(stock[k])]
    /\ RowsUnchanged /\ UNCHANGED <<pendingReport, gestures>>

SendGesture(g, op, p) ==
    /\ gestures[g].step = "idle"
    /\ gestures' = [gestures EXCEPT ![g] = [op |-> op, reply |-> p, step |-> "sent"]]

ToggleSavedReply(g, p) ==
    /\ pendingReport = None
    /\ p \in Displayed
    /\ SendGesture(g, IF p \in Marked THEN "unsave" ELSE "save", p)
    /\ RowsUnchanged /\ ScreenUnchanged /\ UNCHANGED stock

OnReportReply(p) ==
    /\ pendingReport = None
    /\ p \in Displayed
    /\ pendingReport' = p
    /\ RowsUnchanged /\ UNCHANGED <<stock, sheet, placeholder, gestures>>

CancelReport ==
    /\ pendingReport # None
    /\ pendingReport' = None
    /\ RowsUnchanged /\ UNCHANGED <<stock, sheet, placeholder, gestures>>

\* The dialog closes at once.
ConfirmPendingReport(g) ==
    /\ pendingReport # None
    /\ SendGesture(g, "report", pendingReport)
    /\ pendingReport' = None
    /\ RowsUnchanged /\ UNCHANGED <<stock, sheet, placeholder>>

SavingNext ==
    \/ \E k \in Stocks : FetchReads(k) \/ Arrives(k) \/ LoadFails(k)
    \/ \E k \in Sheets : TurnTo(k)
    \/ \E p \in Answered : OnReportReply(p)
    \/ \E g \in Gestures : \/ FindVisibleReply(g) \/ Save(g) \/ Unsave(g) \/ Report(g)
                           \/ GestureAnswered(g) \/ GestureFails(g)
                           \/ ConfirmPendingReport(g)
    \/ \E g \in Gestures, p \in Answered : ToggleSavedReply(g, p)
    \/ CancelReport

SavingSpec == SavingInit /\ [][SavingNext]_savingVars

-----------------------------------------------------------------------------

\* The cache holds what its keys are for: a page only replies of its own.
SavingTypeOK ==
    /\ savedReplies \subseteq Answered /\ reportRows \subseteq Answered
    /\ veiled \subseteq Answered
    /\ sheet \in Sheets
    /\ pendingReport \in Answered \cup {None}
    /\ \A k \in Stocks :
         /\ stock[k].got # None <=> stock[k].fetch = "read"
         /\ \A d \in {stock[k].data, stock[k].got} \ {None} :
              d \in Loads /\ (k = "saved" \/ \A p \in d.items : SheetOf[p] = k)
    /\ \A g \in Gestures : gestures[g].step = "idle" <=> gestures[g].reply = None

\* A key the screen may rely on: not being fetched, not marked as outdated by
\* an invalidation, and not read before an invalidation its answer outlived.
Reliable(k) ==
    /\ stock[k].data # None /\ stock[k].fetch = "none"
    /\ ~stock[k].invalid /\ ~stock[k].data.overtaken

\* However quickly a member toggles and reports, and in whatever order the
\* calls are handled: when nothing is on its way the bookmarks shown are the
\* rows stored, but for a call whose answer was lost, and a reply hidden by
\* the member's own report is not on the page.
AnsweredIsShown ==
    /\ Reliable("saved") /\ (\A g \in Gestures : gestures[g].step
                                                \in {"idle", "answered", "refused"})
       => Marked = savedReplies
    /\ Reliable(sheet) => \A g \in Gestures :
         gestures[g].op = "report" /\ gestures[g].step = "answered"
         => Displayed \cap {gestures[g].reply} \cap veiled = {}

=============================================================================
