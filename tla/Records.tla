------------------------------ MODULE Records ------------------------------
(* The page of one's own records: two tabs, each a searched, ranged and      *)
(* paged list whose parameters live in React state, seeded from the URL and  *)
(* written to it as a side effect.  Typing is debounced into the search.     *)
EXTENDS Naturals, Sequences, NoValue

CONSTANTS Words,      \* searches
          Ranges,     \* choices of dates and page size
          MaxPage,    \* bound: pages
          MaxPending  \* bound: navigations that have not landed

ASSUME RecordsAssumption ==
    /\ MaxPage \in Nat \ {0}
    /\ MaxPending \in Nat \ {0}
    /\ None \notin Words \cup Ranges

Tabs == {"requests", "replies"}

\* The text in the search box: a word or nothing, with or without a space
\* behind it.
BoxTexts == [word : Words \cup {None}, space : BOOLEAN]
Trim(text) == text.word
TextOf(q) == [word |-> q, space |-> FALSE]

\* The parameters of one tab's list.
Searches == [q : Words \cup {None}, range : Ranges \cup {None}, page : 1..MaxPage]
NoSearch == [q |-> None, range |-> None, page |-> 1]

VARIABLES
    tab,       \* the tab shown
    synced,    \* lastSyncedTabRef
    search,    \* the shown section's state, as rendered
    queued,    \* a state that is set but not rendered, or None
    box,       \* the text in the search box
    settled,   \* the debounced text
    url,       \* the URL the page has been given
    pending,   \* navigations on their way
    chosen     \* history: the search under which the page number was chosen

recordsVars == <<tab, synced, search, queued, box, settled, url, pending, chosen>>

\* A URL names a tab and has parameters for each.
NoParams == [t \in Tabs |-> NoSearch]
Urls == [tab : Tabs \cup {None}, params : [Tabs -> Searches]]

RecordsInit ==
    /\ tab = "requests"
    /\ synced = "requests"
    /\ search = NoSearch
    /\ queued = None
    /\ box = TextOf(None)
    /\ settled = TextOf(None)
    /\ url = [tab |-> None, params |-> NoParams]
    /\ pending = <<>>
    /\ chosen = NoSearch

-----------------------------------------------------------------------------
(* useUrlState: the whole next state is computed from the one last rendered, *)
(* and all the section's parameters are written to the URL last landed.      *)

Navigate(u) ==
    /\ Len(pending) < MaxPending
    /\ pending' = Append(pending, u)

Replace(next) == Navigate([url EXCEPT !.params[tab] = next])

\* A click is rendered at once and takes the place of a state that was queued.
UpdateNow(next) ==
    /\ search' = next
    /\ queued' = None
    /\ Replace(next)

SetRange(r) ==
    /\ UpdateNow([search EXCEPT !.range = r, !.page = 1])
    /\ chosen' = [search EXCEPT !.range = r, !.page = 1]
    /\ UNCHANGED <<tab, synced, box, settled, url>>

SetPage(n) ==
    /\ UpdateNow([search EXCEPT !.page = n])
    /\ chosen' = [search EXCEPT !.page = n]
    /\ UNCHANGED <<tab, synced, box, settled, url>>

SearchKeepingPage(q) == [search EXCEPT !.q = q]

\* setQ goes back to the first page.
SearchFor(q) == [search EXCEPT !.q = q, !.page = 1]

-----------------------------------------------------------------------------
(* The search box.                                                           *)

TypeInBox(text) ==
    /\ text # box
    /\ box' = text
    /\ UNCHANGED <<tab, synced, search, queued, settled, url, pending, chosen>>

\* 300 ms without typing.  The effect compares with the search rendered last
\* and queues a new state; its setQ is a closure of that render.
DebounceEnds ==
    /\ box # settled
    /\ queued = None
    /\ settled' = box
    /\ IF Trim(box) = search.q
       THEN UNCHANGED <<queued, pending>>
       ELSE /\ queued' = SearchFor(Trim(box))
            /\ Replace(SearchFor(Trim(box)))
    /\ UNCHANGED <<tab, synced, search, box, url, chosen>>

\* Rendering a search other than the one rendered before puts it into the box.
RenderPage ==
    /\ queued # None
    /\ search' = queued
    /\ queued' = None
    /\ box' = IF queued.q # search.q THEN TextOf(queued.q) ELSE box
    /\ chosen' = IF queued.page = 1 THEN queued ELSE chosen
    /\ UNCHANGED <<tab, synced, settled, url, pending>>

-----------------------------------------------------------------------------
(* The tabs.                                                                 *)

\* A section that is mounted takes its state from the URL as it is then.
Mount(t, u) ==
    /\ search' = u.params[t]
    /\ queued' = None
    /\ box' = TextOf(u.params[t].q)
    /\ settled' = TextOf(u.params[t].q)
    /\ chosen' = u.params[t]

Show(t, u) ==
    /\ tab' = t
    /\ IF t = tab THEN UNCHANGED <<search, queued, box, settled, chosen>>
                  ELSE Mount(t, u)

\* A click on a tab shows it and asks for its URL, without other parameters.
HandleTabChange(t) ==
    /\ Show(t, url)
    /\ synced' = t
    /\ Navigate([tab |-> t, params |-> NoParams])
    /\ UNCHANGED url

\* A link to the records from elsewhere.
FollowLink(t) ==
    /\ Navigate([tab |-> t, params |-> NoParams])
    /\ UNCHANGED <<tab, synced, search, queued, box, settled, url, chosen>>

\* A navigation lands; a tab the page did not set itself is taken over.
Land ==
    /\ pending # <<>>
    /\ url' = Head(pending)
    /\ pending' = Tail(pending)
    /\ IF url'.tab # None /\ url'.tab # synced
       THEN synced' = url'.tab /\ Show(url'.tab, url')
       ELSE UNCHANGED <<tab, synced, search, queued, box, settled, chosen>>

RecordsNext ==
    \/ \E r \in Ranges : SetRange(r)
    \/ \E n \in 1..MaxPage : SetPage(n)
    \/ \E text \in BoxTexts : TypeInBox(text)
    \/ \E t \in Tabs : HandleTabChange(t) \/ FollowLink(t)
    \/ DebounceEnds \/ RenderPage \/ Land

RecordsSpec == RecordsInit /\ [][RecordsNext]_recordsVars

-----------------------------------------------------------------------------

\* Rendered and queued states are lists' parameters, and a queued one has
\* a search of its own.
RecordsTypeOK ==
    /\ tab \in Tabs /\ synced \in Tabs
    /\ search \in Searches /\ chosen \in Searches
    /\ queued \in Searches \cup {None}
    /\ queued # None => queued.q # search.q
    /\ box \in BoxTexts /\ settled \in BoxTexts
    /\ url \in Urls
    /\ Len(pending) <= MaxPending

\* A page number is only ever used with the search and the range it was chosen
\* under, however clicks, typing and navigations cross.
PageIsOfThisSearch ==
    search.page > 1 => chosen = search

=============================================================================
