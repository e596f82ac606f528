# Onseol (온설): a TLA+ verification development

Onseol is a service for short requests for comfort and short replies to them. This
directory holds its specifications: TLA+ modules translated from the source, the TLC
configurations that check them on small instances, and TLAPS proofs of their
properties for every instance. `PROJECT.json` is the index: components, runs, mutants,
the source lines behind each definition (`map`), hazards, findings and theorems.

## 1. The system

A pnpm monorepo. `apps/api-server` (NestJS, drizzle, Postgres) holds all the logic that
changes shared state. `apps/web` and `apps/admin` are Next.js clients that talk to it over
HTTP and keep a cache of its answers (TanStack Query) and the state of their forms.
`packages/*` are DTO schemas, UI components and a fetch wrapper.

Two habits of the code make it hard.

On the server a handler is a sequence of awaited single statements, and apart from the
retention job no transaction encloses them. So

- two handlers interleave between any two statements, also two of the same user (tabs,
  double clicks, retries);
- what a handler read may be stale when it uses it;
- a statement may reject, or the process may end, and what was committed stays;
- some rules are backed by unique constraints, and others only by a check;
- daily jobs run next to the users' requests and read the same rows.

In the clients what is shown is a cache. Calls, refetches, invalidations and renders
overtake each other, a tab does not know of the other tabs' calls, and a button is disabled
only by the next render.

Paths below are relative to `src/apps/api-server/src/` for the server, to
`src/apps/web/app/` and `src/apps/admin/app/` for the clients.

| Component | State | Operations | Interacts with | What makes it correct |
|---|---|---|---|---|
| Reports and auto-hide (`reports/`, `moderation/moderation.service.ts`) | `reports`; `hidden`, `deletedAt`, `reviewedAt` of a request or reply | report; hide at a threshold; admin's restore, permanent deletion | requests, replies, admin | a threshold of people hides, fewer never do, no race steps over it, a review settles what came before it |
| Requests and the answer queue (`requests/`) | `requests` | post (member, guest), feed, queue candidate, own deletion | interactions, replies, settings, moderation | one request per guest; the queue is fair and does not offer what the viewer dealt with |
| Replies (`replies/`) | `replies` | submit (member, guest), list, own deletion | requests, interactions, notifications, tone moderation | one reply per member and request; a guest's budget; the reply settles the interaction |
| Answer interactions (`answer-interactions/`) | `answer_interactions` | skip, hold, list held, clear | queue, replies | a dealt-with request leaves the queue; the hold panel shows open ones |
| Account withdrawal (`auth/withdrawal-cleanup.service.ts`, `auth/account-deletion-cron.service.ts`, `users/users.repository.ts`) | `users.deletionRequestedAt`, `deletedAt` and the scrubbed columns | withdraw (grace or immediate), restore, nightly sweep | sessions, identities, subscriptions, notifications | nothing lost before the end, nothing left after it, everybody is reached |
| Sign-up, login, OAuth, password reset (`auth/`) | `users`, `sessions`, `oauth_identities`, `pending_signups`, `password_reset_tokens`, cookies | request and confirm a sign-up, login, link, take over, reset, logout | email, providers, login screen | only the owner of an address gets in, nobody becomes a member without consent, no way into a closed account |
| Settings and nicknames (`settings/`, `users/users.service.ts`) | one row, lazily created; `users.nickname`, `nicknameChangedAt` | read, update; rename under a cooldown | every limit, the admin's form | one row; a form is not overwritten; the cooldown is kept |
| Notifications (`notifications/`) | `notifications`, open SSE streams, the badge | notify, read, delete, stream, poll | replies, the inbox page | the badge catches up with the rows |
| Web push (`notifications/`, web `lib/notifications/push.ts`) | `push_subscriptions`, the browser's endpoint | turn on, off, release at logout, send | logout, withdrawal | a device rings only for who is signed in on it |
| Content retention (`retention/`) | bodies, moderation log | daily purge, in one transaction | own deletion, moderation | a removed text is purged when due, and the rewrites suggested for it with it |
| Reply tone moderation (`moderation/reply-content/`, `moderation/openai/`) | `reply_moderation_logs` | classify, suggest, log | replies, an external model | its failure never passes for an approval |
| Lists and threads (`requests/`, `replies/`, `profile/`, `landing/`) | none | feed, prompts, samples, profiles, records, notifications | moderation, retention, visibility switches | the hidden is not served, the removed has no text, a name only by choice |
| Saved replies (`saved-replies/`, web `read/`) | `saved_replies`, the cache's pages | save, take back, report | feed | what is shown is what is stored |
| Answer screen (web `answer/`, `lib/requests/queries.ts`) | queue and hold caches, drafts, dialog | skip, hold, reply, report | the queue | a held request is listed; no text is lost |
| Today screen (web `today/`), records (web `records/`) | draft and spinner; tabs, searches, URL | post; search, page | requests, replies | one text one request; a page of this search |
| Signed-in state (web and admin `lib/auth/`) | `auth/me` and the queries that hang on it | login, logout, withdraw, edit | every page | a member's rows are not shown to the next |
| Admin lists and forms (admin) | three lists of a cache, dialogs; two forms | restore, delete; reset link, test push | moderation | a list covers the answers already given; a result belongs to the form |

The hard behaviours are listed one by one, with their line and the properties that would
catch them, under `hazards` in `PROJECT.json`.

## 2. Modules

| Module | Models | Checked by | Proved in |
|---|---|---|---|
| `AutoHide` | what reporting and auto-hide promise, abstractly | as a property of `Moderation` | `ModerationProofs` |
| `Moderation` | reports, auto-hide, the admin's review | `MCModeration` | `ModerationProofs` |
| `Answering` | requests, replies, interactions, the queue | `MCAnswers`, `MCAnswering` | `AnsweringProofs` |
| `AnswerScreen` | the screen that answers from the queue | `MCAnswers` | `AnsweringProofs` |
| `Withdrawal` | what leaving promises, abstractly | as a property of `Account` | `AccountProofs` |
| `Account` | withdrawal, grace period, sweep and what can outlive them | `MCOwn`, `MCLive`, `MCAccount` | `AccountProofs` |
| `Inbox` | notifications, their stream, badge and page | `MCLive` | `AccountProofs` |
| `Reading` | every list and thread, the held panel among them, query by query | `MCSite` | `ReadingProofs` |
| `Push` | one device's push subscription and sends to it | `MCSite` | `PushProofs` |
| `AdminDesk`, `AdminForms` | the admin's lists, the admin's forms | `MCSite` | `SiteProofs` |
| `Settings` | the settings row, the admin's form, the rename's cooldown | `MCSite` | `SiteProofs` |
| `Browsing` | a tab's idea of who is signed in | `MCSite` | `SiteProofs` |
| `SignIn` | sign-up, login, OAuth, takeover, with the login screen | `MCMembers` | `SignInProofs` |
| `Retention` | what becomes of removed texts | `MCMembers` | `MembersProofs` |
| `Composing` | posting from the Today screen | `MCMembers` | `MembersProofs` |
| `Saving` | bookmarks in the feed | `MCMembers` | `MembersProofs` |
| `Records` | searching one's records | `MCOwn` | `AccountProofs` |
| `ReplyTone` | the dry run of tone moderation | `MCMembers` | `MembersProofs` |
| `NoValue` | the constant `None`, for null and for "nobody" | | |

A server module has one action per awaited statement of a handler, so interleavings and
stops are those of the code. A handler is an element of `Calls`. Its local variables (what
it read and has not used yet) are the fields of its record, its program counter says which
statement is next. A handler that answers without changing anything (404, 409, 403) goes
back to idle in the action whose statement found that out. Unique constraints are the second
disjunct of the INSERT they guard.

A client module sends a call, has the server handle it and takes the answer in three
actions, and so for a refetch, since each of these may be overtaken. The server's part is
then one step: its interleavings are the subject of the server's modules. The query cache is
modelled as far as the code leans on it: invalidating cancels the fetch under way and starts
another, but joins the first fetch of all; `setQueryData` leaves a fetch alone; a key
nobody observes is only marked. These definitions are external (`TanStack Query: …` in the
map).

Definitions marked as a mutation just before a definition are plausible wrong versions of
it. They are no part of any specification; replacing the right one by them has to break the
property `PROJECT.json` names.

### Moderation and AutoHide

| TLA+ | Code |
|---|---|
| `content[t]` | a row's `hidden`, `deletedAt # null`, `reviewedAt` (0 is null) |
| `reports` | rows of `reports`; `at` is `created_at` |
| `now` | the clock, in ticks; no two stamps are equal |
| `ReadTarget`, `CheckDuplicate`, `InsertReport`, `CountReporters`, `EvaluateAutoHide` | `ReportsService.create`, statement by statement |
| `StampRestore`, `WriteRestore` | `restore`: `new Date()` in the process, then the UPDATE |
| `SoftDelete` | the admin's deletion of either, and an author's deletion of a reply |
| `evaluated`, `restoredAt` | history: nothing in `Next` reads them |

A request and a reply have the same three columns and their repositories run the same
statements on them, so a target is either. `AutoHide` has no handlers, rows or stamps: people
complain once each, a threshold of different people hides, only a review shows again, deleted
stays deleted. `Moderation` implements it under the mapping `Abstract`: a complaint is an
inserted row, a hide that finds the target hidden is a stutter.

### Answering and AnswerScreen

| TLA+ | Code |
|---|---|
| `requests` | rows by number; the number is the order of `created_at`; `removed` is `contentRemoved`, `fresh` is "inside the queue's freshness window" |
| `replies` | rows of `replies`; the id distinguishes a guest's several replies |
| `interactions` | status of the viewer's row in `answer_interactions` |
| `CreateMemberRequest`, `FindGuestRequest`, `CreateGuestRequest` | `RequestsService.create` |
| `ReadRequest`, `CheckMember`, `CheckGuest`, `InsertReply`, `ClearInteraction` | `RepliesService.create` |
| `Skip`, `Hold` and then the queue steps | `POST requests/:id/skip`, `hold`, which answer with the next candidate |
| `FetchQueue`, `ReadExcluded` twice, `QueryBelowCap`, `QueryAll`, `Respond` | `findQueueCandidate`; the exclusion list comes from two parallel selects, which may run in either order |
| `ModerateRequest`, `ModerateReply`, `MarkContentRemoved`, `Expire` | hide, restore, delete; own deletion; time |
| `known` | history: what was excluded when a fetch began |

`Moderation` and `Answering` meet in the columns `hidden` and `deletedAt`. In `Answering`
they may change at any moment in any way `Moderation` allows, so what is shown of the queue
does not depend on how a report came to hide a row. `AnswerScreen` in turn takes any
eligible request for the candidate, since others answer meanwhile.

| TLA+ | Code |
|---|---|
| `queueCache`, `heldCache` | the queries `["requests","queue"]` and `["requests","held"]`: data, fetch, how often loaded |
| `dialog`, `active`, `loadingNext`, `drafts` | `pendingAction`, `activeHeldRequestId`, `loadingNext`, `replyDrafts` |
| `acts` | calls of the screen: sent, handled (`HandleReply`, `HandleQueue`, `HandleReport`), answered |
| `QueueAnswered`, `ReplyAnswered`, `ReportAnswered`, `Finish`, `ActFails` | the mutations' `onSuccess`, then `submitReply` and `runWithLeaveAnimation` |
| `ReadQueue`, `QueueArrives`, `ReadHeld`, `HeldArrives`, `FetchFails`, `Refetch` | the two queries' fetches |

### Account and Withdrawal

| TLA+ | Code |
|---|---|
| `account[u]` | `deletionRequestedAt` as null, recent or older than 30 days; `deletedAt`; whether the password and the nickname are set |
| `sessions`, `identities`, `subscriptions`, `links` | rows of `sessions`, `oauth_identities`, `push_subscriptions`, valid `password_reset_tokens` |
| `Authorise` | `SessionGuard`, which reads the session and nothing of the user |
| `RevokeSessions`, `SilenceDevices`, `RequestDeletion` | `requestWithdrawal` |
| `ScrubForDeletion`, `DeleteIdentities`, `DeleteSubscriptions`, `DeleteNotifications` | `finalizeAccountDeletion`, for an immediate withdrawal and for the sweep |
| `ListExpired`, `FinaliseNext`, `EndSweep` | `finalizeExpiredWithdrawals` |
| `ReadCredentials`, `FindIdentity`, `MatchEmail`, `MergeIdentity`, `CreateSession` | `login`, `loginWithOAuth` for an existing account |
| `CheckLink`, `LinkIdentity`; `CheckNickname`, `WriteNickname`; `Subscribe`; `RestoreAccount` | the guarded requests that write what finalisation removes |
| `FindForLink`, `IssueLink`, `FindLink`, `UpdatePassword`, `MarkUsed` | the admin's reset link and its redemption |
| `GraceEnds`, `LinkExpires`, `EndSession` | time passing, and logout |
| `todo`, `touched` | the sweep's list; history of who came back since it was read |

Each user has one email and one social account. `KnownByEmail` is what the scrub does to
the address: it is replaced, so no lookup by it finds the row again. Notifications have no
reader here, so deleting them is a step without data. `Entries` selects the ways in.

`Withdrawal` has no sessions, handlers or statements. An account is active, pending, lapsed
or closed and has some of three keys: password, nickname, identity. It is closed by a sweep
that found it lapsed, or because its owner waived the grace period; closing is for good and
the only thing that takes a key. `Account` implements it under the mapping `Leaving`:
`deletedAt` and `deletionRequestedAt` are the phase, the columns and the identity the keys,
the sweep's list and the account it is about to scrub what was `listed`, and an immediate
withdrawal on its way to the scrub a waiver. The scrub is the close. The deletion of
identities comes after it as a step of its own (`Clear`), and logins, links, reset links and
renames are gains or stutters. What `Withdrawal` cannot promise is that who came back after
the listing is spared (finding 6), nor that a closed account gains nothing: a redeemed reset
link sets a password on it. That such a key opens nothing is `ClosedForEver`.

### SignIn

| TLA+ | Code |
|---|---|
| `account[e]` | the row with that address: verified, and whose password its hash is of. `users.email` is unique and constant here |
| `identity`, `links`, `cooling` | `oauth_identities`; `pending_signups`; whether the newest pending row is within its minute |
| `cookie`, `jar`, `flows` | each browser's session cookie; its `oauth_state` and `oauth_link_intent`; redirects that have not come back |
| `form`, `SwitchMode`, `Tick`, `Reload`, `Settled` | `LoginForm`: mode, consent, what is enabled, what an answer resets |
| `CheckCooldown`, `StoreLink`, `SendMail` | `requestSignup` |
| `RedeemLink`, `CheckUnclaimed`, `CreateWithPassword`, `SpendLink` | `VerifyEmailForm` and `completeSignup` |
| `StartOAuth`, `Callback` | `oauthRedirect`, `oauthCallback` with its state, consent and intent; `Callback` refuses a state the browser's cookie no longer has |
| `FindIdentity`, `MatchEmail`, `ClearPassword`, `CreateWithSocial`, `InsertIdentity`, `MarkVerified`, `AttachIdentity` | `loginWithOAuth`, `linkOAuth` |
| `consented` | history |

`Owner` says whose inbox an address is, `EmailOf` which address a provider vouches for. A
person may type any address and any tab may start any flow. Accounts from before address
verification (`LegacyRow`) are initial states.

### Retention

| TLA+ | Code |
|---|---|
| `now` | parts of days: an even one ends at five in the morning, when the job runs |
| `text`, `removedAt`, `deletedAt` | a body; `content_removed_at` and `deleted_at` |
| `RemoveOwn`, `SoftDelete` | the author's removal (again and again restarts its own stamp), an administrator's |
| `Purge` = `Due` rows blanked with `PurgeLogs`, `MissPurge` | `purgeRemovedContent` in one transaction; a run that fails or finds the process down |
| `log`, `Moderated` | the row of a reply in `reply_moderation_logs`, with suggestions (`suggestions`) or with the model's reason alone (`reasoned`); the background moderation that ends |

### Reading

`read` is one response under way with the queries it still has `todo`; `Plans` is the order
in which the service makes them. The two dozen `Find…` operators are the repositories' WHERE
clauses and the `…Item` operators the DTO functions with their placeholders and names. The
writes (`Hide`, `Restore`, `SoftDelete`, `RemoveOwn`, `Blank`, `Switch`, `Scrub`, `Reply`)
may fall between any two queries. `since` is history: what has been hidden, erased or
switched off ever since the response was begun. `FindHeld` is the panel of held requests,
whose query asks neither for `hidden` nor for `deletedAt`; which requests the viewer holds is
left open there, and is the subject of `Answering`.

### Push, Inbox

| TLA+ | Code |
|---|---|
| `endpoint`, `owner` | the browser's subscription; `push_subscriptions` |
| `jobs` | pages on their way through `enablePushNotifications`, `disablePushNotifications` or logout with `releasePushOnLogout`; each call goes out with the cookie of its moment |
| `RollbackFails`, `DropFails`, `LogoutUnreleased`, `DeleteUnanswered` | `unsubscribe()` rejects and is ignored or caught; the browser does not hand out its subscription; the row is deleted and the answer lost |
| `sends` | `sendToUser`: rows read, deliveries outstanding, endpoints answered with 410 |
| `notes`, `ping`, `badge`, `shown` | `notifications`; a published message; `["notifications","unreadCount"]`; the page's list |
| `Message`, `Poll`, `ReadBadge`, `BadgeArrives` | `useNotificationStream`, the poll, the badge's fetch in its parts |
| `visits`, `Handle`, `Answered` | the page's calls; `Answered` is each mutation's `onSuccess` with its `setQueryData` |

### The other client modules

| Module | TLA+ | Code |
|---|---|---|
| `AdminDesk` | `lists`, `view`, `clicks`, `asking` | three queries, the one on screen, the mutations, the confirmation |
| `AdminForms` | `current`, `result`, `spinner`, `copied` | the mutation observer, its data, `useMinDisplayDuration`, the clipboard's answer |
| `Settings` | `FindFirst`, `Insert`, `FindAgain`; `OpenPage`, `Seed`, `Loaded`, `Edit`, `Submit`; `UpdateSettings`, `SaveFails`; `CheckCooldown`, `UpdateNickname` | `SettingsRepository.get`; `SettingsForm`, whose fields stay enabled during loads and saves; the save of what was submitted (`sent`), and its failure; `updateNickname` |
| `Browsing` | `me`, `mine`, `meTrip`, `mineTrip`, `deeds`, `seat`, `live` | `auth/me`, a query that hangs on it, their fetches, session calls (a login while nobody is signed in, a sign-up completed by whoever opens the mailed link), the shared cookie, valid sessions |
| `Saving` | `stock`, `sheet`, `gestures` | the feed's pages and the saved ids, the page shown, the calls |
| `Composing` | `inFlight`, `spinning`, `posts` | `requestSubmittingRef`, what is rendered, `POST /requests` |
| `Records` | `search`, `queued`, `box`, `settled`, `url`, `pending` | state rendered and set, the box and its debounce, the URL and `router.replace` |
| `ReplyTone` | `job`, `said`, `verdicts` | the dry run from policy over classifier and rewriter to the log row |

## 3. Runs

Every property has a mutant, and every action fires in a passing run.

A run asks one question of one part of the system, but `account`, `live`, `site`, `members`
and `answering` each check several modules that share no state. Their harness has a variable
(`component`, in `MCOwn` `part`) that is chosen at the start; a behaviour takes the steps of
that component only,
so the states of the run are the sum of the components' states and each component is checked
as if alone. Where modules use interchangeable model values (handlers, calls, clicks) the
configuration gives them the same ones, so that one permutation is a symmetry of all of them.

| Run | Instance | States | What it shows |
|---|---|---|---|
| `moderation` | 1 target, 3 users, 2 report handlers, 1 admin, threshold 2, 1 restore | 197,250 | `NoLostAutoHide`: no interleaving passes over the threshold. `HideIsJustified`: no hide without a threshold of people. `ReportedContentIsHidden`: a threshold of fresh reports leads to a hide, unless a handler died or the admin restored first. `ImplementsAutoHide`: all this is an implementation of `AutoHide` |
| `moderation_stale` | the same | refuted | `OldReportsDoNotCountAgain`, see section 5 |
| `answering`: queue | 1 member, 1 guest, 2 handlers, cap 1, budget 1, 2 requests, 3 replies, 1 event | 729,028 | `OncePerViewer`, `GuestBudget`, `ExcludedForever`, `CapIgnoredOnlyWhenAllFull` |
| `answering`: screen | 2 requests, 2 calls, 2 texts, 1 failure or refetch | 814,875 | `HeldIsListed`: no order of calls and refetches loses a held request. `DraftIsStored`: a draft is emptied only when that text is stored |
| `answering_held` | queue | refuted | `HeldNotAnswered` |
| `answering_requeue` | queue | refuted | `ExcludedIsNotOffered` |
| `account`: account | 1 user, 1 session, 2 handlers of every kind, the sweep, 1 failure | 878,836 | `GraceLosesNothing`: password, nickname and identity survive the grace period. `ClosedForEver`: once everything is gone nothing returns. `SweepHonoursGrace`: the sweep takes only those it may |
| `account`: records | 1 word, 1 range, 2 pages, 2 navigations | 654,432 | `PageIsOfThisSearch`: a page number is used only under the search it was chosen under |
| `account_session`, `account_cron`, `account_crash` | 1 user, 1 handler, every entry | refuted | section 5 |
| `live`: account | 2 users, 1 handler, 1 failure; withdraw, restore and OAuth login | 219,482 | `ImplementsWithdrawal`: statement by statement, accounts are closed only as `Withdrawal` allows. `LapsedIsFinalised`: the sweep reaches everybody, past a failure of its own or a restart |
| `live`: inbox | 2 notifications, 2 calls of the page, 1 cut | 92,579 | `BadgeCatchesUp`: whatever is lost or late, the badge ends right |
| `site`: reading | 1 request, 2 replies, 1 member, a guest, 3 writes | 155,036 | `HiddenIsNotServed`, `TakenBackIsGone`, `NamedByChoice`: of each response as a whole, whatever is written between its queries |
| `site`: push | 2 accounts, 2 pages, 1 send, 2 endpoints, 1 loss | 721,600 | `SilentAfterLogout`: whatever calls fail, the device rings for nobody but who is signed in, but for the exceptions below |
| `site`: desk | 1 request, 2 clicks | 440,006 | `ListCoversAnswers`: the list shown was read after every answered mutation |
| `site`: settings | 1 form, 2 renames, cooldowns 1 and 2, 2 days | 139,781 | `CooldownKept`. `EditsSurvive`: neither loads nor saves, answered or failed, replace what is typed |
| `site`: browsing | 2 members, 2 session calls | 451,453 | `RecordsAreOwn`: a logout leaves no rows to the next member |
| `site`: forms | 2 addresses, 2 submissions | 581 | `ResultIsOfThisForm` |
| `members`: sign-in | 2 people, 1 address, 1 social account, 2 handlers, 1 failure; 1 link and 1 redirect, or 2 redirects | 1,227,924 | `OnlyOwnersEnter`, `ConsentBeforeAccount`, however sign-ups, logins, takeovers and the redirects of two tabs mix |
| `members`: retention | 1 request, 1 reply, kept 1 day, 3 days, 3 removals | 102,908 | `GoneInTime`, `SuggestionsGoWithText` |
| `members`: saving | 1 reply, 2 pages, 2 calls | 231,470 | `AnsweredIsShown`: bookmarks and reports are shown as stored |
| `members`: composing | 3 calls, 2 drafts | 12,844 | `PostedOnce`: one text, one request |
| `members`: tone | 1 reply, 4 suggestions | 112 | `VerdictHasGround`: no failure becomes an approval |

Bounds, and why they suffice.

- Handlers and calls come in twos where races are the question: every race found or
  excluded here is between two. The proofs cover any number.
- `Threshold` is 2 for the code's 3. Two handlers then race across it, with a third user
  for the report after a review. The proofs cover any positive threshold.
- `MaxRestores` 1: the second restore of a target meets the same columns as the first.
- `QueueReplyCap` and `GuestReplyLimit` are 1, the least at which one reply changes the
  answer. `MaxRequests` 2 gives the queue an order. `MaxReplies` 3 lets the guest go past
  its limit and the member answer too.
- `MaxEvents` counts skips, holds, moderation, removals and expiries together. With 1 each
  of them happens in every context, pairs of them do not; the proofs cover pairs.
- `Tokens` 1 in Account: a second session of the same account adds nothing that revoking
  or keeping the first does not show. `MaxFailures` 1 counts stops of the sweep and of the
  process: after one the sweep is idle and its list empty, as before any. Failures of a
  handler (`CallFails`) are not counted there.
- `live` has only the entries that can keep an account from the sweep, or from being
  listed, because liveness with all of them and two users is too large.
- `MaxWrites` 3 in Reading: to be missed or leaked by a response takes one write before it
  and two between its queries. Two replies let one be hidden and the other be served. One
  member beside the guest is author, answerer and reader at once; the proofs cover any number.
- `MaxEndpoints` 2: a subscription given up and the one after it. With `MaxLosses` 1, one
  call fails or one session ends by itself.
- `RetentionDays` 1 and six parts of a day: a removal, its period, a missed run and the
  run after it. The least period leaves the background moderation the least time to end. `MaxRemovals` 3: an author's, repeated, and an administrator's.
- In SignIn one address is enough for the flows to compete; all of them are the owner's,
  the second person is whoever types the address in. `MaxFlows` 2 is the least at which two
  tabs of a browser are on their way to a provider at once and the state of one overwrites
  the other's cookie. The harness lets that happen only where no sign-up link has been issued
  (`FlowsOrLinks`): a link mixes with one redirect, and two redirects with each other. The
  proofs cover all of it, and any owners, several addresses and several social accounts.
- `MaxTime` 2 in Settings: with cooldowns 1 and 2, a rename a day too early and one in time.
- In AdminDesk one row and one filter: lists cover rows independently of each other, the
  review queue and a table are two lists of the same row.
- The bounds on editions, texts, navigations and calls in the client modules leave each of
  them one more than the first, so that an older one is still under way.
- Symmetry is used only in runs that check no liveness property.
- Deadlock is checked in the runs of `Moderation` and `Answering` alone, and in `account`. The
  others set `CHECK_DEADLOCK FALSE`, since a system whose bounded writes, calls and days are
  used up does stop.

Fairness. `Moderation!FairSpec` has weak fairness of a started handler's next statement and
of a restore's UPDATE: a promise settles and the event loop resumes it. Failing is another
action, so a fair handler may still die, which `Abandoned` accounts for. `Account!Fairness`
is weak fairness of the sweep, which a scheduler starts every day and whose statements
return, and of a finalisation that has begun. `InboxFairness` is weak fairness of the badge's
interval timer, of its fetch (which may fail) and of the page's calls; the stream owes
nothing, and neither does the member. `MCLive!LiveFairness` is both, each for the behaviours
of its component. Nothing obliges anybody to report, review, log in, restore, withdraw or
open a page. Failures are finitely many; no property holds of a job that fails every night.

What the properties except, and why it is no less than the code does:

- `GuestBudget` allows one overshoot per further handler, for the count is not locked.
- `HeldIsListed` speaks of a panel that has been fetched again after the first time, and of
  behaviours without a failure: the first fetch is joined by an invalidation, and a call
  whose answer is lost invalidates nothing.
- `ListCoversAnswers` and `AnsweredIsShown` except data the cache still calls invalid and
  data whose fetch was under way when it was invalidated (`overtaken`).
- `RecordsAreOwn` excepts the changes of session for which nothing is cleared, after which
  the rows do leak (`astray`): one in another tab, a withdrawal (finding 12), a sign-up
  completed or a login answered while another member is shown as signed in (finding 20), and
  answers to a member who has left.
- `SilentAfterLogout` excepts sessions that end without a logout, logouts that overlap with
  another page's task (finding 10), and a subscription that the browser does not hand out or
  give up, or was not asked to because the answer of a DELETE was lost, while the account
  owned it or a send to it was under way. The device then goes on ringing for the account
  that left (`lapsed`; finding 19).
- `CooldownKept` excepts a rename that had read the account before the other's write.
- `PostedOnce` excepts a text sent again after its answer was lost.
- `GoneInTime` grants a day for each run that was missed.
- `HiddenIsNotServed` excepts a viewer's own requests and answers and the notifications about
  them, which show hidden posts on purpose, and the panel of held requests, which serves
  hidden and deleted requests to the members who hold them (finding 18). It goes by each
  post's own columns (finding 9).
- `SuggestionsGoWithText` is about the suggestions. The log's row stays, with the reason the
  model gave in its own words, or an error's, which no purge clears.
- `EditsSurvive` lets the form be filled anew when the page is left and opened again.

## 4. Proofs

Every safety invariant, every action property and every type invariant that a passing run
checks is a theorem, for every value of the constants that satisfies the named assumptions,
and so are both refinements: `Moderation` implements `AutoHide`, `Account` implements
`Withdrawal`. There are eight proof modules:

| Module | About |
|---|---|
| `ModerationProofs` | `Moderation`, and its refinement of `AutoHide` |
| `AnsweringProofs` | `Answering`, `AnswerScreen`, and their composition `MCAnswers` |
| `AccountProofs` | `Account` and its refinement of `Withdrawal`, the types of `Inbox`, `Records`, and the compositions `MCLive` and `MCOwn` |
| `SignInProofs` | `SignIn` |
| `ReadingProofs` | `Reading` |
| `PushProofs` | `Push` |
| `SiteProofs` | `AdminDesk`, `AdminForms`, `Settings`, `Browsing`, and the composition `MCSite` of these with `Reading` and `Push` |
| `MembersProofs` | `Retention`, `Composing`, `Saving`, `ReplyTone`, and the composition `MCMembers` of these with `SignIn` |

What is proved of a module's own specification holds of the composition a run explores: the
lemmas `SiteRuns…`, `MembersRun…`, `AnswersRun…` and `OwnRuns…` show that each composed specification
implements the specifications of its parts, each up to stuttering, and the theorems
`SiteTypeSound`, `MembersTypeSound`, `AnswersTypeSound`, `OwnTypeSound` and `LiveTypeSound` draw the
conclusion for the type invariants.

Assumptions, each named in the module that declares the constant and evaluated by TLC:

- the limits, periods, cooldowns and bounds are numbers, the threshold, the guest's limit and
  the retention period positive ones (in `Composing` this is `EditionsAssumption`, in
  `ReplyTone` part of `LinesAssumption`);
- `None` is no user, target, candidate, row, reply, account, member, action or record of
  settings, and no snapshot of a list or load of a page, which are records
  (`SnapshotsAssumption`, `LoadsAssumption`, `ActionsAssumption`);
- different things are different: members and guests, requests and replies
  (`PostsAssumption`), the sweep and the request handlers, a rename and a reader of settings;
- every address has an owner and every social account an address (`SignIn`), every reply a
  sheet it is on (`Saving`, `SheetsAssumption`), every suggestion its trimmed text
  (`ReplyTone`, `LinesAssumption`);
- in `Answering`, `Calls` is finite and not empty, since the guest's budget is exceeded by
  less than its size; in `Inbox` the notifications are finitely many, since the badge counts
  them (`NotesAssumption`).

No other proof needs finitely many users, targets, posts, calls or texts, and `Browsing` is
proved without any assumption.

- *Moderation.* What a handler counted must stay related to a table that moves on. `IInv`
  says the count is at most what the window holds by now, and at least the reports between
  the last restore and the handler's own. That holds because a restore's stamp is older
  than the moment it takes effect (`ReviewsStamped`), so a window opened by any past review
  contains all that is fresh. `NoLostAutoHide` follows for whoever evaluates and is kept by
  everybody else; `HideIsJustified` is read off the same count. `ModerationRefinesAutoHide`
  takes the initial state to an initial state and each action to a step or a stutter:
  inserting a row is a complaint since the constraint keeps the reporter new
  (`InsertRefines`), a hide has enough complainants since rows are people
  (`RowsAreReporters`, `ReportersAreCounted`, `EnoughReporters`).
- *Answering.* `GuestBudget` needs the handlers that have passed the count but not inserted
  yet: stored replies and pending ones together stay below the limit plus the number of
  handlers (`BudgetHeld`). `ExcludedForever` needs that whoever clears an interaction has
  stored its reply (`ReplyStored`). `CapIgnoredOnlyWhenAllFull` needs that what a fetch
  excluded is still excluded when it queries (`ExclusionsHold`), which is
  `ExcludedForever` again.
- *AnswerScreen.* `DraftIsStored` needs that a reply under way carries the draft as it still
  is, that the server's text is that one once it was handled, and that no two replies are
  under way (`RepliesSound`): the composer is disabled meanwhile, which is what its mutant
  drops. `HeldIsListed` needs to know of a held request the panel does not show why it will:
  the hold's answer has not arrived, and will invalidate, or the query is being asked anew,
  or what it has read contains the request (`HoldsSound`). The first fetch is the exception
  that the property makes, since an invalidation joins it.
- *Account.* `GraceLosesNothing` needs that whoever deletes identities has scrubbed the row
  before (`ScrubbedFirst`). `SweepHonoursGrace` needs that whoever is on the sweep's list
  is past the grace period or was touched since the listing (`ListingCurrent`).
  `ClosedForEver` is inductive once each handler's user is known: its `Harmless` lists what
  may still be on its way. `AccountRefinesWithdrawal` needs one thing more, that a request
  handler that is about to scrub was sent with `immediate` (`ClosingAtOnce`). One lemma per
  group of actions maps its steps: those of handlers that write no table are waivers, or give
  one up (`LocalLeaving`); those that write one are a leave, a return or a gained key
  (`TableLeaving`); the four statements of a finalisation are the close, the clearing and two
  stutters (`FinaliseLeaving`); the sweep lists, and time and failures do the rest
  (`OtherLeaving`).
- *SignIn.* What lets people in is read long before it is used. An account is `Proved` once
  its owner consented and no stranger's password is on it. `CallSound` says what each
  handler knows of its account by its program counter; `Grows` says that no statement of
  any handler makes a proved row unproved, so that the others' knowledge lasts
  (`BystandersSound`). The takeover is where it is tight: the password goes before the
  identity is linked, and the row is called verified last.
- *Retention.* `SuggestionsGoWithText` needs to know why no moderation outlasts the period:
  it ends the day after its reply was written, and a reply is removed after it is written
  (`LogsSound`). `GoneInTime` needs the tighter bound that holds between the run and
  midnight (`PurgedInTime`).
- *Settings.* A rename writes under a cooldown it read before its check. `ChecksSound` says
  that what it checked is still true of the change it had read: days only pass, and its
  copy of the settings is its own (`StampsSound`: no rename has read a change that is not
  yet made). `CooldownKept` follows at the write, where it is excused only if the change it
  read is no longer the last. `EditsSurvive` needs that an edited page has a form
  (`PagesSound`), since a load fills only a page without one, and that a save under way has
  what it was sent with (`SavesBacked`), since its answer counts for that and not for what
  the form has become.
- *Composing.* The ref lets one call be on its way (`OneAtATime`), and a draft that was
  answered is emptied, so that the next text is another edition (`AnsweredPast`). Hence no
  edition is answered twice (`AnsweredOnce`), and two rows of one edition leave one of their
  calls unanswered.
- *Browsing.* The rows are tied to the cookie through `auth/me`: it names nobody or the
  member of the cookie, and the rows held or on their way are those of whom it names
  (`Tied`). The tie survives a logout because `clear()` forgets the name, the rows and the
  fetches in one step.
- *Reading.* A complete response is an invariant of its items from the first query on
  (`ItemsSound`, `NamesSound`): an item was put in by a query that saw its row visible, its
  text kept or its author's switch on, and if that changed it did so since, which is what the
  history `since` records (`SinceSound`). One lemma per query shows what its WHERE clause
  lets in, `PlansAreSound` which response makes which query.
- *Push.* Whom a device rings for is who owns its endpoint, or who did when a send read the
  rows; both are the account signed in or one whose session lapsed (`OwnerSound`,
  `PendingSound`). A logout keeps it so because, alone on the device, it either found the
  endpoint somebody else's or gives it up before it leaves, unless the browser refuses
  (`LogoutsClean`), and an endpoint given up is never issued again (`IssuedSound`).
- *AdminDesk, Saving.* Both are caches: what an entry holds, or a fetch has read for it,
  covers every call that was answered, or is known to be stale, or was overtaken
  (`ListsSound`, `StocksSound`). The induction is over what an answer invalidates, list by
  list, and over the fetch that an invalidation cannot reach.
- *AdminForms.* A result is kept only while nothing it was asked with has been edited, and
  the call the form follows was asked with what the form shows (`FollowedSound`).
- *Records.* A queued state is another search and starts on its first page (`QueuedAfresh`).
- *ReplyTone.* A draft that is excluded or blocked by a rule is never sent to the model, and
  a verdict is the policy's or the model's by where its job is (`JobSound`). That the kept
  suggestions are distinct, not blank and at most three is a fact about a recursive function
  of any list (`SuggestionsWorthShowing`). It is proved by a least number of lines for which
  it fails (`WFMin` of the natural numbers), because the induction theorems of the library
  take an operator as a parameter.

Only model-checked: the liveness properties `ReportedContentIsHidden`, `LapsedIsFinalised`
and `BadgeCatchesUp`, since the prover handles neither fairness nor ENABLED; and the refuted
properties, which are counterexamples. No module declares a RECURSIVE operator.

## 5. Where the code and its comments disagree

The first seven, but for the fourth, are refuted by a run of their own. In the others a
module does what the code does, and the property of the run named has to be as weak as the
finding says. `findings` in `PROJECT.json` quotes the sentences.

1. *A review does not settle reports in flight.* A handler that read `reviewedAt` before a
   restore counts the old reports again and hides the restored content
   (`moderation_stale`; `requests.schema.ts`, `reports.repository.ts`).
2. *The hold panel keeps answered requests*: when the handler stops between the reply and
   the clear, or a hold lands after it (`answering_held`; `replies.service.ts:137`).
3. *The queue can offer what was already answered*: the two selects of the exclusion list
   straddle a reply that moves the request from one to the other (`answering_requeue`).
4. *The guest's budget is per guest*, not per request as `replies.schema.ts:25` says
   (`answering`, `GuestBudget`).
5. *A session can outlive the finalised account*: login works during the grace period, and
   finalising revokes nothing (`account_session`; `auth.controller.ts`, restore-account).
6. *The sweep can scrub a restored account*, when the restore comes after the listing
   (`account_cron`; `account-deletion-cron.service.ts`).
7. *A finalisation that stops half way is never finished*: `deletedAt` is set first, and no
   later sweep lists the account (`account_crash`; `users.schema.ts`, `deletedAt`).
8. *Skipping a held request leaves it in the panel*: the mutation does not invalidate the
   held list (`answering`, `HeldIsListed`; `lib/requests/queries.ts:98`).
9. *Replies of a hidden or deleted request are served*, since their query does not ask after
   the request (`site`, `HiddenIsNotServed`; `requests.schema.ts:33`).
10. *A device can ring after a logout* that overlaps with another page's turning push on
    (`site`, `SilentAfterLogout`; web `lib/notifications/push.ts:130`).
11. *No page registers the subscription when it mounts*, though the route's comment says the
    frontend does (`site`, `SilentAfterLogout`; `push-subscriptions.controller.ts:49`).
12. *A withdrawal leaves the cache*, which a logout clears for a reason that applies as well
    (`site`, `RecordsAreOwn`; `lib/auth/queries.ts:106`).
13. *The admin's other lists can stay stale* when they are invalidated while being fetched
    for the first time or off screen (`site`, `ListCoversAnswers`; admin
    `lib/admin/queries.ts:28`).
14. *Restoring a deleted row is offered and does nothing to `deletedAt`* (`site`,
    `ListCoversAnswers`; `AdminReplies.tsx:64`).
15. *Keystrokes are lost* between the end of the debounce and the render after it, and a
    trailing space always (`account`, `PageIsOfThisSearch`; `MyAnswerLogSection.tsx:106`).
16. *A report does not take the reply off the page* unless it is the one that hides it
    (`members`, `AnsweredIsShown`; `ReadFeed.tsx:159`).
17. *A sign-up mail that failed is not sent by a retry within the minute*, which is answered
    as if it had been (`members`, `ConsentBeforeAccount`; `auth.service.ts:98`).
18. *The panel of held requests serves what was hidden or deleted* after it was held, with its
    text (`site`, `HiddenIsNotServed`; `answer-interactions.repository.ts:61` against
    `requests.schema.ts:32`).
19. *A device can go on ringing after a logout whose release failed*: a DELETE and an
    `unsubscribe()` that both reject are both ignored (`site`, `SilentAfterLogout`; web
    `lib/notifications/push.ts:130-137` against `159-161`).
20. *A sign-up completed over another member's session leaves that member's rows in the cache*,
    as does a login answered after somebody else's (`site`, `RecordsAreOwn`;
    `VerifyEmailForm.tsx:34`, `lib/auth/queries.ts:60` against `95-97`).

## 6. Not modelled

- HTTP plumbing: validation, throttling, error mapping, the guest cookie. A guest is a given
  identity; the loss of its cookie makes another guest. Two first requests of one browser
  that each set a guest cookie are two guests.
- Infrastructure, storybook, load tests, the moderation's evaluation scripts and prompts.
- Pages whose state is of one component without shared effects: landing and legal pages, the
  ambient scene, the install prompt, the draft of a profile's visibility switches.
- Reads over the same conditions as modelled ones: day counts for the calendar, search terms,
  paging and totals, statistics, the list of reports, health.
- Deleting one's own posts from the records page: the server's part is in `Answering`,
  `Reading` and `Retention`, the list refetches.
- The discriminator shown beside a nickname: four digits of the account's id. Nicknames are
  not unique, so a profile in `Reading` is looked up as one account's.
- A limit that changes between a handler's check and its write, except the cooldown in
  `Settings`: the limits are constants of the modules that use them.
- The wording of mails, notifications and placeholders.

## 7. What is left to do

1. A composition of `Moderation` and `Answering` over shared rows, to show that what
   `Answering` assumes of moderation is what `Moderation` does.
