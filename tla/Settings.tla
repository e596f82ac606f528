------------------------------ MODULE Settings ------------------------------
(* The single row of tunable limits: its lazy creation by the first readers, *)
(* the admin's form that replaces it, and the one limit that is checked      *)
(* against a time, the cooldown between two changes of a nickname.           *)
EXTENDS Naturals, FiniteSets, NoValue

CONSTANTS Editors,     \* the admin's open settings pages
          Renames,     \* requests to change the nickname of one account
          Cooldowns,   \* the cooldowns an admin may set, in days
          Limits,      \* the other limits, taken together
          MaxTime      \* bound: days

ASSUME SettingsAssumption ==
    /\ Cooldowns \in SUBSET Nat
    /\ Cooldowns # {} /\ Limits # {}
    /\ MaxTime \in Nat
    /\ None \notin Nat \cup Limits
    /\ Renames \cap (Editors \X {"load", "save"}) = {}

VARIABLES
    row,       \* the settings row, None until somebody reads it
    changed,   \* when the nickname was last changed, None if it never was
    now,       \* the day
    readers,   \* handlers on their way through SettingsRepository.get
    calls,     \* the rename handlers
    pages      \* the settings pages: the cached settings, the form, the query

settingsVars == <<row, changed, now, readers, calls, pages>>

Values == [cooldown : Cooldowns, limit : Limits]
ASSUME ValuesAssumption == None \notin Values

\* The schema's column defaults.
Default == CHOOSE v \in Values : TRUE

\* A handler that needs the settings: a rename, or a page's load or save.
Handlers == Renames \cup (Editors \X {"load", "save"})

\* The cached settings, what the fields show, whether some of it was typed and
\* is not saved (history), whether the button spins, and the save under way.
BlankForm == [data |-> None, form |-> None, edited |-> FALSE, saving |-> FALSE,
              sent |-> None]

SettingsInit ==
    /\ row = None
    /\ changed \in {None, 0}
    /\ now = 0
    /\ readers = [h \in Handlers |-> [step |-> "idle", got |-> None]]
    /\ calls = [c \in Renames |-> [step |-> "idle", read |-> None]]
    /\ pages = [t \in Editors |-> BlankForm]

-----------------------------------------------------------------------------
(* SettingsRepository.get, one statement at a time.                          *)

ReaderAt(h, step) == readers[h].step = step

GoTo(h, step, value) ==
    readers' = [readers EXCEPT ![h] = [step |-> step, got |-> value]]

FindFirst(h) ==
    /\ ReaderAt(h, "find")
    /\ IF row # None THEN GoTo(h, "got", row) ELSE GoTo(h, "insert", None)
    /\ UNCHANGED <<row, changed, now, calls, pages>>

\* On a conflict the insert does nothing and returns nothing.
Insert(h) ==
    /\ ReaderAt(h, "insert")
    /\ IF row = None THEN row' = Default /\ GoTo(h, "got", Default)
                     ELSE UNCHANGED row /\ GoTo(h, "again", None)
    /\ UNCHANGED <<changed, now, calls, pages>>

FindAgain(h) ==
    /\ ReaderAt(h, "again")
    /\ IF row # None THEN GoTo(h, "got", row) ELSE GoTo(h, "failed", None)
    /\ UNCHANGED <<row, changed, now, calls, pages>>

-----------------------------------------------------------------------------
(* UsersService.updateNickname.                                              *)

\* The account's row is read.  A first nickname is free.
StartRename(c) ==
    /\ calls[c].step = "idle"
    /\ calls' = [calls EXCEPT ![c] =
                   [step |-> IF changed = None THEN "write" ELSE "settings",
                    read |-> changed]]
    /\ IF changed = None THEN UNCHANGED readers ELSE GoTo(c, "find", None)
    /\ UNCHANGED <<row, changed, now, pages>>

CheckDayEarly(c) ==
    /\ calls[c].step = "settings"
    /\ ReaderAt(c, "got")
    /\ calls' = [calls EXCEPT ![c].step =
                   IF now - calls[c].read + 1 < readers[c].got.cooldown
                   THEN "refused" ELSE "write"]
    /\ UNCHANGED <<row, changed, now, readers, pages>>

\* The cooldown is counted from the change that was read.
CheckCooldown(c) ==
    /\ calls[c].step = "settings"
    /\ ReaderAt(c, "got")
    /\ calls' = [calls EXCEPT ![c].step =
                   IF now - calls[c].read < readers[c].got.cooldown
                   THEN "refused" ELSE "write"]
    /\ UNCHANGED <<row, changed, now, readers, pages>>

UpdateNickname(c) ==
    /\ calls[c].step = "write"
    /\ calls' = [calls EXCEPT ![c].step = "done"]
    /\ changed' = now
    /\ UNCHANGED <<row, now, readers, pages>>

Tick ==
    /\ now < MaxTime
    /\ now' = now + 1
    /\ UNCHANGED <<row, changed, readers, calls, pages>>

-----------------------------------------------------------------------------
(* The settings page.                                                        *)

SeedAnew(page, value) == [page EXCEPT !.data = value, !.form = value]

\* The form is seeded when the page first has settings, and not again.
Seed(page, value) ==
    [page EXCEPT !.data = value,
                 !.form = IF page.form = None THEN value ELSE page.form]

LoadIdle(t) == ReaderAt(<<t, "load">>, "idle")
SaveIdle(t) == ReaderAt(<<t, "save">>, "idle")

\* Coming to the page, or back to it, seeds the form from what is cached and
\* reads the settings in the background; a load under way is shared, and a
\* save under way goes on behind a form that does not know of it.
OpenPage(t) ==
    /\ IF LoadIdle(t) THEN GoTo(<<t, "load">>, "find", None)
                      ELSE UNCHANGED readers
    /\ pages' = [pages EXCEPT ![t].form = pages[t].data,
                              ![t].edited = FALSE, ![t].saving = FALSE]
    /\ UNCHANGED <<row, changed, now, calls>>

\* The browser is online again: the open page reads once more.
Reconnect(t) ==
    /\ LoadIdle(t)
    /\ GoTo(<<t, "load">>, "find", None)
    /\ UNCHANGED <<row, changed, now, calls, pages>>

\* The answer of the query, which a save may have overtaken.
Loaded(t) ==
    /\ ReaderAt(<<t, "load">>, "got")
    /\ pages' = [pages EXCEPT ![t] = Seed(pages[t], readers[<<t, "load">>].got)]
    /\ GoTo(<<t, "load">>, "idle", None)
    /\ UNCHANGED <<row, changed, now, calls>>

LoadFails(t) ==
    /\ ~LoadIdle(t)
    /\ GoTo(<<t, "load">>, "idle", None)
    /\ UNCHANGED <<row, changed, now, calls, pages>>

\* The fields are open to typing at any time, while a save is under way too.
Edit(t) ==
    /\ pages[t].form # None
    /\ \E v \in Values :
         /\ v # pages[t].form
         /\ pages' = [pages EXCEPT ![t].form = v, ![t].edited = TRUE]
    /\ UNCHANGED <<row, changed, now, readers, calls>>

\* The whole form of this moment is sent, the fields nobody touched with it.
\* The button is disabled while the page saves.  Bound: nor does a page that
\* was left and reopened during a save send another before it is answered.
Submit(t) ==
    /\ pages[t].form # None
    /\ ~pages[t].saving /\ SaveIdle(t)
    /\ GoTo(<<t, "save">>, "find", None)
    /\ pages' = [pages EXCEPT ![t].saving = TRUE, ![t].sent = pages[t].form]
    /\ UNCHANGED <<row, changed, now, calls>>

\* The handler makes sure that the row exists before it updates it.  The
\* answer is cached; the form is left as it is, and what was typed into it
\* since the submission is still to be saved.
UpdateSettings(t) ==
    LET page == pages[t] IN
    /\ ReaderAt(<<t, "save">>, "got")
    /\ row' = page.sent
    /\ GoTo(<<t, "save">>, "idle", None)
    /\ pages' = [pages EXCEPT ![t] =
                   [page EXCEPT !.data = page.sent, !.sent = None, !.saving = FALSE,
                                !.edited = IF page.form = page.sent THEN FALSE
                                           ELSE page.edited]]
    /\ UNCHANGED <<changed, now, calls>>

\* The call rejects, refused or with its answer lost after the update: an
\* error is shown under the form.
SaveFails(t) ==
    /\ ~SaveIdle(t)
    /\ \/ UNCHANGED row
       \/ ReaderAt(<<t, "save">>, "got") /\ row' = pages[t].sent
    /\ GoTo(<<t, "save">>, "idle", None)
    /\ pages' = [pages EXCEPT ![t].saving = FALSE, ![t].sent = None]
    /\ UNCHANGED <<changed, now, calls>>

SettingsNext ==
    \/ \E h \in Handlers : FindFirst(h) \/ Insert(h) \/ FindAgain(h)
    \/ \E c \in Renames : StartRename(c) \/ CheckCooldown(c) \/ UpdateNickname(c)
    \/ \E t \in Editors : \/ OpenPage(t) \/ Reconnect(t) \/ Loaded(t) \/ LoadFails(t)
                          \/ Edit(t) \/ Submit(t) \/ UpdateSettings(t) \/ SaveFails(t)
    \/ Tick

SettingsSpec == SettingsInit /\ [][SettingsNext]_settingsVars

-----------------------------------------------------------------------------

\* A handler holds settings exactly when it got them, a save under way has a
\* payload, and a page has a form only with settings behind it.
SettingsTypeOK ==
    /\ row \in Values \cup {None}
    /\ now \in 0..MaxTime
    /\ changed \in (0..now) \cup {None}
    /\ \A h \in Handlers : ReaderAt(h, "got") <=> readers[h].got \in Values
    /\ \A t \in Editors : /\ pages[t].saving => ~SaveIdle(t)
                          /\ SaveIdle(t) <=> pages[t].sent = None
                          /\ {pages[t].form, pages[t].sent} \subseteq Values \cup {None}
                          /\ pages[t].form = None <=> pages[t].data = None

\* A nickname changes within the cooldown of its last change only by a handler
\* that had read the account before that change: two renames that do not
\* overlap are a cooldown apart, whatever is done to the settings meanwhile.
CooldownKept ==
    [][changed' # changed /\ changed # None
       => \E c \in Renames :
            /\ calls[c].step = "write" /\ calls'[c].step = "done"
            /\ \/ calls[c].read # changed
               \/ now - changed >= readers[c].got.cooldown]_settingsVars

\* What an admin has typed stays in the form until the admin types something
\* else or leaves the page, whatever loads and saves are under way: neither
\* an answer in the background, be it the same settings or newer ones, nor
\* the answer or the failure of a save replaces it.  And a save's answer
\* counts for what was sent: what is no longer to be saved is in the row.
EditsSurvive ==
    [][\A t \in Editors : pages[t].edited =>
         /\ pages'[t].form # pages[t].form
              => OpenPage(t) \/ UNCHANGED <<row, readers>>
         /\ ~pages'[t].edited
              => OpenPage(t) \/ row' = pages[t].form]_settingsVars

=============================================================================
