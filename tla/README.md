# ServerStatus: specifications, model checking and proofs

ServerStatus is a panel for a fleet of servers. An agent on each server reports every
second or so; the panel keeps the last report of every server in memory, shows it on a
public page, alerts about servers that fall silent or exceed a threshold, and persists
just enough to survive a restart. Its settings are edited on an admin page, a program of its
own in the browser. This directory holds TLA+ specifications of the panel's core and of that
page, the TLC runs that check them on small instances, and proofs that TLAPS checks for
every instance.

What to read first: `RuntimeStateStore.tla` (the file protocol, with proofs),
`HostLifecycle.tla` (the threads of the panel and their locks), `AlertEngine.tla` (time and
alerts), `AdminStore.tla` (the settings file), then the browser: `AdminPage.tla` (the page and
the server), `ChannelForm.tla` (secrets it never sees), `EditorDialog.tla`, `ExpiryPanel.tla`.
Each has its theorems in the module of its name with `Proofs` behind it; section 5 tells how they go.
Paths below are relative to `src/`.

## 1. The system

### Components, state, operations

| component | code | state it keeps | operations that change it |
|---|---|---|---|
| runtime state store | `server/src/runtime_state.rs` | known hosts and alert states in memory with a generation; `runtime-state.json` | upsert, purge, update alerts, mark enqueued, prune, save, load, legacy import |
| host lifecycle | `server/src/stats.rs` (`StatsMgr`) | `hosts_map`, `stat_map`, `stats_data`, `resp_json`, `expire_notify_state`, `stats.json`, four locks | report, timer tick, refresh after a settings change, purge, start |
| alert evaluation | `stats.rs` `collect_alert_events`, `take_offline_recovery_routes`, `mark_offline_if_stale` | alert states (`since`, `last notify`) in the runtime store | evaluate, recover, prune |
| admin settings store | `server/src/admin.rs` | `ADMIN_STATE.data`, `admin-overrides.json`: overrides, deletion markers, keys, install tokens, credentials version | replace, clear marker, purge markers, ensure key, create and consume token, change credentials, load |
| notification pipeline | `stats.rs` notify thread, `main.rs`, `notifier/mod.rs` | bounded channel, readiness gates, retry counters | enqueue, dispatch, retry |
| notifiers | `notifier/*.rs` | templates | format and send |
| notification routing | `admin.rs` groups and methods | none | filter |
| expiry and renewal | `server/src/expiry.rs` | announced markers, renewal dates | announce once, add cycles |
| monthly traffic baseline | `stats.rs` 341-356 | `last_network_in/out` per host | reset, carry over |
| report authentication | `auth.rs`, `http.rs`, `grpc.rs` | none | accept or refuse a report |
| login and sessions | `jwt.rs` | failed-login counters; the session version is in the settings | login, check |
| http interface | `http.rs`, `payload.rs`, `jinja.rs` | none | handlers; those that change state start the operations above |
| configuration | `config.rs` | read once | - |
| client | `client/src` | last samples | sample, report with a timeout |
| admin page: settings | `web/static/js/admin.js`: queue and sessions (1-240, 475-664), tables (1663-1920), saves and purges (2953-3140, 3252-3459) | a copy of the settings, token, view, rows, the queue `settingsTransactionTail` | edit, delete, restore, duplicate, save a scope, purge, log in and out, load, every answer |
| admin page: channel forms | `admin.js`: secrets (13-72, 292-374), drawing (407-469, 1402-1633), saving and testing (2758-3171), events (3503-3597) | secret fields with their flags, baseline, dirty | focus, type, erase, blur, mark to clear, save, reset, test, draw again |
| admin page: editor dialog | `admin.js`: 985-1063, 1374-1384, 1966-2697 | `state.editor`, the dialog and its inputs | open, change an input, confirm, cancel, fetch a command |
| public page: expiry panel | `web/static/js/expiry.js` | latest statistics, timers, retry counters, the nodes it adds | poll, render, decorate, observe |
| public page | `web/static/js/main.*.js`, `748.*.js` | external: a compiled bundle | draws the tree the panel works on |
| scripts and packaging | `scripts/`, units, images | none | - |

`PROJECT.json` lists the same components with what is modelled of each.

### How they interact

* HTTP and gRPC handlers authenticate a report and put it in the `stat_tx` channel (512).
  One thread (`stat_rx`) takes reports out one at a time: it takes `lifecycle_lock`, clears a
  deletion marker if there is one (a rewrite of `admin-overrides.json`), locks `hosts_map`
  then `stat_map`, writes the row and the runtime record, announces a recovery, and saves
  the runtime state if it must.
* A timer thread runs every 500 ms: it takes the publication lock, reads the clock and the
  deleted list, evaluates every row under `stat_map`, prunes and saves alert states,
  then publishes `stats.json`, `stats_data` and `resp_json`.
* Saving the settings rewrites `admin-overrides.json` and rebuilds the public response
  (`refresh_admin_overrides`). A permanent purge removes hosts from every map, cache and
  file, and at last their markers.
* Both threads send notifications into a bounded channel that a third thread drains.
* The admin page reads the settings at login and from then on works on its copy. A gesture
  changes the copy and queues a transaction; one runs at a time and posts *all* the settings.
  Saving one channel or the expiry reminders reads the settings first and replaces only that
  scope. Purges, logins, loads and the change of credentials go past the queue. Every answer
  that holds settings replaces the copy, or the scope it is for.
* The forms of the channels are drawn from the public settings, which tell of a secret only
  that there is one; the server merges what comes back with what it has
  (`merge_sensitive_fields`). The editor dialog is filled from the copy and writes to it.
* The bundle draws the table of the public page whenever it pleases; `expiry.js` puts a panel
  next to it and a line into every row, and watches the tree to do so again.

### What is hard

Four activities share four locks and take them in different orders; the comment at
`stats.rs:109-110` orders two of the paths. Every save releases the mutex before its slow
part. Snapshots are built from lists read earlier. The clock is read before a lock is
waited for. Admin operations work on copies and the last writer wins. Two files are
rewritten by protocols with different guarantees (one by temporary file, sync, rename; one in
place). The process may stop between any two of these steps.

In the browser nothing runs in parallel, but every `await` lets the user go on. An answer may be
late, lost after the server acted, or refused; it replaces a copy that has moved on; a change
that is taken back restores one that is older still. What a secret field means depends on flags
that focus, typing and drawing set in any order. Channels come and go while the rule that uses
them is edited. Of the expiry panel's polls, timers and retries none waits for another, and its own
changes of the tree call it again.

`PROJECT.json` lists each hazard with its line and the properties that would catch it.

### What makes each component correct

* Store: the file never goes back to an older state, is never torn, and a purge reported
  as saved is final across any crash.
* Lifecycle: a purge leaves nothing behind, a deletion that was answered stays hidden,
  rows never leave the public response by themselves, new hosts reach the file, both public
  caches agree, no deadlock among the locks.
* Alerts: an outage alert means real silence of the rule's duration; it is not repeated too
  early; an announced outage is followed by an announced recovery; a usage alert means
  an excursion that lasted.
* Settings: an answered save survives; deletion and override exclude each other; tokens are
  used once and ended sessions stay ended - as far as the copy protocol allows.
* Admin page: a change reported as synced is stored and stays stored, a scoped save touches
  nothing else, a page at rest agrees with the server, every save and every load ends.
* Channel forms: a save does to the secret what the user asked for; a clean form has nothing
  unsaved, but for a default it draws; a test that is let through has a secret, unless it goes elsewhere.
* Editor dialog: what was not touched is confirmed as it was; a rule delivers through what was
  ticked; the dialog can be confirmed.
* Expiry panel: it catches up with the server, never leaves out a server for one less at risk,
  rows keep their lines, decoration comes to rest.

## 2. Plan

Order: what loses or resurrects data first, then what misleads the operator, then the rest.

1. Done: `DurableCell`, `RuntimeStateStore`, `HostLifecycle`, `AlertEngine`, `AdminStore`, with
   their proofs.
2. Done: the browser. `AdminPage`, `ChannelForm`, `EditorDialog`, `ExpiryPanel`, with their proofs.
3. Left to model
   * `NotifyPipeline`: the bounded channels and the locks held while sending, the notify thread,
     notifiers with readiness gates and retries (`notifier/mod.rs` 88-204). Abstract
     specification: a queue that delivers at least once. Liveness: every accepted
     notification is handed to every ready notifier, under weak fairness of the notify thread; a report
     handler that waits for a full channel gets on. Routing: what becomes of a notification
     whose group is unknown (`admin.rs` 1321-1336).
   * `ExpiryRenewal` (`expiry.rs` 125-335, `add_cycle` 378): pure date functions against a reference
     definition, and the once-per-marker announcement across restarts.
   * `LoginLimit` (`jwt.rs` 186-227), `TrafficBaseline` (`stats.rs` 137-166, 341-356),
     `ReportAuth`, the client's `PingWindow` and its overlapping posts.
   * Composition: `AdminPage` uses `AdminStore` through its promise (a served save is one step), and so
     does `HostLifecycle` (a write of the settings is one step); the refinement of those uses is worth
     stating. For the runtime store this is done (`SavingCell`).
4. Left to prove: the refinement of the settings store by its users. Of the properties the runs check, every one that this prover
   can reach is a theorem.

## 3. The modules

### `DurableCell`: what persistence promises

Memory, one cell and the contents a power loss may leave. The cell only ever takes the value
memory holds at that moment. No locks, temporary files or generations.

### `SavingCell`: what a thread that saves sees of it

The same cell, with the threads that save it. Of what a thread has serialized only one thing matters: whether
memory is still that. It may be written then, and is passed over otherwise.
This is the seam between the modules of the server. `RuntimeStateStore` implements it with a counter of changes
and a number on every payload (`SavingSpec`); the threads of `HostLifecycle` and `AlertEngine`, which keep a flag
`fresh` where the code compares those numbers, move as it says (`SavesLikeTheStore` in their proof
modules). So the flag is no shortcut of theirs: it is what the comparison of generations comes to.

### `RuntimeStateStore`: `runtime_state.rs`

| TLA+ | code |
|---|---|
| `mem`, `generation` | `VersionedRuntimeState` under the mutex `inner` |
| `Edit` and its users | one critical section each: `upsert_host`, `purge_hosts`, `update_alerts`, `mark_alert_enqueued`, `prune_alert_states` |
| `SerializeState` ... `SyncDirectory` | `save_with_before_publish`, one action per step another thread or a crash can separate |
| `SkipStale` | the generation check that returns `SaveResult::Skipped` |
| `recoverable` | external: what a file system may show after a power loss |
| `LoadFile`, `ImportLegacy` | `load`, `load_or_import_legacy` |

An edit is disabled while a saver holds `inner` (from the check to the directory sync). A
rename before the contents are synced may surface as `Torn`; a rename before the directory is
synced may be undone.

### `HostLifecycle`: `stats.rs`

One program counter per activity (`reporter`, `timer`, `settings`, `purger`), `owner` for the four
locks, sets of hosts for every map, cache and file. An action runs from one point where
another activity can intervene to the next; a lock that is taken and released inside an
action is a guard that it is free. The serialized payload and the publication generation are
compared for equality only, so each reader keeps a flag `fresh` (for the payload, see `SavingCell`). Settings requests and purges
are one at a time each (concurrent ones meet in `AdminStore`). A write of the settings is
one step here; `AdminStore` takes it apart. An unreadable `runtime-state.json` is left to
`RuntimeStateStore`, a broken `admin-overrides.json` to `AdminStore`.

The timer keeps the publication lock during its whole tick, and a purge takes it before it
changes the generation: the generation check of `publish_snapshot_if_current` and the error
"purged runtime state save was superseded by a newer mutation" are therefore
never reached. They are in the model; that the second is not is `PurgeSaveNeverSuperseded`, which
is checked and proved.

### `AlertEngine`: `stats.rs` 806-927, 1016-1023 and their callers

One server, one rule, a clock. Both threads stamp a time and use it at most `Delay` later;
the timer evaluates at least every `Delay`. The code counts an outage from the evaluation
that first saw it and starts again when a report came since; the count is persisted, so it
goes on across a restart. `Delay < Duration` and `Repeat > 0` come from `normalize_alert_rule`
(durations of at least 30 s, repetition at least every 60 s) against a tick of half a second. A settings change
counts from the end of the report that is being processed: `hosts_map` is locked that long. `Marked` is
`mark_alert_enqueued`: an alert is announced in the step that sets its time of announcement.

### `AdminStore`: `admin.rs`

Every operation is copy, change, rewrite in place, publish. `request[r].fresh` tells whether
another operation published in between; `lost` records that one was undone (or that a start found other
data than the last process had), `spoiled` that the file is in doubt until a save has ended
that nothing overlapped. The operations called by the report thread and by a purge hold
`lifecycle_lock`, so they exclude each other and nothing else. `settled` is the text of the
last sync while a rewrite is not synced; older rewrites that were not synced either are
left out, as losing one shows the same.

### `AdminPage`: `admin.js` and the handlers it calls

| TLA+ | code |
|---|---|
| `settings`, `rows`, `token`, `view` | `state.settings` with `state.deletedHosts`, `state.stats`, `state.token`, which view is shown |
| `queue`, `EndTurn` | `settingsTransactionTail`: each transaction waits for the one before it, whatever became of that |
| `Gesture` and its users | the handlers of the tables and of the dialog's confirm button, up to the first request |
| `ScopeRead`, `ScopeSaved`, `ScopeReloaded` | `saveScopedSettings`, `mergeScopedSettings`, the reload after a channel was saved |
| `Saved`, `StatsRefreshed` | `hydrateSettings` and the refresh of the rows |
| `TurnFails`, `TakenBack` | the `catch` branches; `restoreSettingsState` after a duplication or deletion |
| `AskPurge`, `Purged` | `purgeDeletedHosts` and `clearDeletedHosts`, which pass the queue by |
| `Login` ... `SessionFails` | login, `loadDashboard`, logout, change of credentials |
| `ServeSave`, `ServePurge`, ... | the HTTP handlers, one step each |
| `Refuse`, `Fail`, `AgentReturns`, `TokensExpire` | what else may happen: a 401, a lost request or answer, a deleted host's report, tokens that end |

A value is the number of the gesture that gave it, which is all the properties need to tell one
change from another. `wire` has the request each of the three senders waits for; a request keeps
the token it was sent with.

Two histories say where the page promises nothing. `exposed` has the gestures that another answer
under way may overwrite: that is the finding of run `admin_page_synced`, and `SavedMeansStored` is
promised of every other. It also has the changes of a server that the page lists by the rows of an
older answer while its settings mark it as deleted: the marker goes with the change, and the server drops the
override of a marked server (a finding as well). `drift` is set when the page missed something: a deleted host reported
again, an answer was lost after the server had acted, a purge was asked for while saves were queued, a
failed save was not taken back. It is cleared by a load that nothing overlaps.

### `ChannelForm`: the forms of the channels

`field` is the input element of a secret with its `dataset`: `configured`, `original`, `masked`,
`clear` and the value, where the mask is a value of its own. `Merge`, `Effective` and `Public` are the
server's `merge_sensitive_fields`, `effective_*_config` and `public_admin_data` (`server/src/admin.rs`);
`base` is the channel in the configuration file. `Draw` is every path that draws the form:
reload, purge, reset.

Telegram, Bark, WeChat and Email have one or two secrets and some other inputs. One secret and one other input
stand for them, and `traits` says what kind the other is, since the code treats kinds differently: `required`
ones must be filled for a test (`LetsTest`); a `destination` is where the secret is sent, and a test of a
destination that was only typed does not get the stored secret (`Moved`, `build_bark_test_config`,
`build_email_test_config`); and one with a `default` is drawn with it when it is stored empty (`Filled`,
`renderBarkNotification`), though the server then takes what the configuration file has (`Effective`). The last two are
why `CleanMeansSaved` and `TestHasSecret` have exceptions: saving a clean form of Bark may move the channel to the
default, and the page lets a test through which the server refuses for want of a secret (its tests
`http.rs:1298` and `1362` ask it to). The properties state the exceptions and promise the rest.
Not in the module: the structured webhook, whose receivers replace a webhook of the configuration file as a whole
(`admin.rs:980-985`; the page says so, `admin.js:1496-1499`), the log, which has no secret, and a Bark key
inside the server's address (`admin.rs:1153-1158`), which is a second way to set the secret.

`intent` is what the user did to the secret since the form was drawn. `redrawn` is set when a
form is drawn with the cursor in a masked field: what is typed then lands behind the dots and is stored
with them (`Smudged`; listed under "findings"). `missed` is set while the form has not been drawn after a
change at the server. The properties are promised without these two.

### `EditorDialog`: the dialog

One dialog for four editors. `editor` is `state.editor`, `inputs` the elements, `item` the entry the
editor was opened for, and after a confirmation the entry that was written. `Metered` and `Synced`
are `syncRuleEditorControls` and `syncServerEditorControls`, which run after every change; `Ticked` and
`Selected` are the picker of a rule's channels, which may be redrawn while it is open
(`ChannelsChange`). `Escape` is the browser's way of closing a dialog, which does not reset `state.editor`. An
answer to a command may come when another editor is open (`CommandCopied`, `CommandFails`).

`touched` has the inputs the user changed, `chosen` the channels he last clicked, `listed` the
servers the page offered. `UntouchedKeeps` excludes what the editor cannot show: servers
that are not listed, groups that share a name, amounts without a currency, text that is no date.

### `ExpiryPanel`: `expiry.js`

The tree is `body` (the element the panel goes into), `rows`, the `line` each row carries and
`content`, the panel. `TableChanges` and `BodyChanges` are the bundle's and external. `Render`, `Decorate`,
`AfterMove` and `TimerFires` are the script: rendering repeats while there is no body,
decoration repeats while a row is missing, and a change of the tree begins a new series. `Poll` waits for
both series to end: five seconds are longer than twenty or forty times 80 ms. The bundle asks for the
statistics too, whenever it pleases, and the script draws those answers as well (`BundleAsks`). Requests
overlap, and their answers overtake each other.

## 4. The runs

All are exhaustive explorations of one small instance. "Bounds" says why a larger one
would add nothing the properties speak of.

| run | shows | bounds |
|---|---|---|
| `store` | `CurrentGenerationIsFresh`, `PurgedStaysPurged` hold, and `DurableCell` and `SavingCell` are implemented (`CellSpec`, `SavingSpec`), with file errors, kills and power losses between any two steps | one host (hosts are independent but for the purge, which is one edit), two savers (one that is stale, one that supersedes it), three edits: serialize, supersede, supersede again |
| `lifecycle` | `PurgeLeavesNoTrace`, `PurgeSaveNeverSuperseded`, `PublicIsLive`, `HiddenStaysHidden`, `NoLockCycle`, all four activities, failing saves, restarts | one host: each of these relates what the maps hold of one host; queue of one, since the queue only separates acceptance from processing |
| `lifecycle_two_hosts` | `NewHostPersisted`, `PublicRowKept`: savers supersede each other, nothing drops a row | two hosts, reporter and timer |
| `alerts` | `AlertMeansSilent`, `RepeatRespected`, `UsageMeansHot`, `RecoveryAnnounced` | times up to 5 with threshold, repeat and delay 1, duration 2: an outage, its alert, a repetition and a recovery fit, with a restart anywhere |
| `admin_page` | `SavedMeansStored`, `QuietPageAgrees`, `AcknowledgedStays`, `ScopeAlone`, `TurnsEnd`, `LoadingEnds`, with late, lost and refused answers, a login, tokens that end and agents that return | three changes: one unanswered, one queued, one made in between; two hosts (one configured, one to duplicate into), one rule or group, one channel, one login, one fault |
| `admin_forms` | `CleanMeansSaved`, `TestHasSecret`, `SecretAsAsked` of a channel's form, over any sequence of gestures, saves, failures and redrawings; `DeliversAsTicked`, `UntouchedKeeps`, `ConfirmAvailable` of the dialog | form: two secrets (one in the file, one typed), two texts (the default and another), three kinds of inputs (an id of WeChat, the server of Email, the server of Bark), no bound on gestures and saves; dialog: two channels, one server, three groups of which two share a name, two inputs changed (one and the one it clears), one command. Form and dialog share no state: each behaviour is one of either, and `FormsSpec` has no fairness |
| `expiry_panel` | `RowsDecorated`, `PanelCatchesUp`, `DecorationSettles` | three versions of the statistics (none, three servers, three others), two chips (so that one is left out), one retry of a decoration and two of a rendering, two requests (one overtakes), one lost, three changes of the tree or requests of the bundle |
| `admin` | `AnsweredSaveIsDurable`, `DeletedHasNoOverride`, `TokenOnceUnlessLost`, `SessionsStayEnded` | two operations side by side, one host, one token, one change of credentials |

Four runs find a place where the code does other than its documentation says. Each is listed under
"findings" with both sides quoted:

| run | the documentation | the code |
|---|---|---|
| `lifecycle_queued_report` | a later report clears a deletion marker | so does a report accepted before the deletion and still queued |
| `alerts_muted` | a resource rule resets its timer when the metric returns below its threshold | not while the server's notifications are off |
| `admin_token_race` | an install token is invalid once it was used | two overlapping requests both succeed, since each works on a copy |
| `admin_page_synced` | the page says the change was synced, and a test expects a later save's change on the page | a change made while an earlier save is unanswered is wiped from the copy by its answer; its own save then posts settings without it and reports success |

Further findings were met while modelling and are listed without a run of their own: a deletion in the settings hides
the host, while the design document has it leave maps and file (`stats.rs:688`), the mask typed over
(`admin.js:306`), a command's answer that closes another editor (2635), a rule whose last group or
server goes and that then applies to all servers (2552), a label that says "empty means all" over a choice that
may not be empty (2116), groups of one name ticked together (2255), and an unreadable date
announced as the next one due (`expiry.js:404`), defaults that Bark's form draws in the place of what the
channel has (`admin.js:1444`), and a Bark key in the configuration file's address that is lost with the first save
while the form still shows one (`config.rs:262`). Two were met while proving, where the invariant would not go
through: an announced outage that ends without a word (`stats.rs:380`: the condition of `RecoveryIsAnnounced`),
and a change of a server that is listed although it is marked as deleted, which is
reported as synced and dropped (`admin.js:1185`: the last case of `Exposing`).

The action properties (`AlertMeansSilent`, `RepeatRespected`, ...) except the cases that they
name: `lossy` (a crash kept an alert state from being saved) and `muted` (a report or evaluation passed over the rule because
it was switched off). `MCAlertEngine` does not explore states in which `lossy` holds: it never
becomes false again, and every property promises nothing then. The same holds of `muted` for a usage rule, which
the run of the finding does explore. `MCAdminStore` explores states with `lost` only as long as no
token exists: the two properties that speak of tokens and sessions promise nothing there, the others do not
read the tokens. The symmetry used is that of savers, hosts, requests and secrets, none of
which the models tell apart.

`MCAdminPage` follows a page that missed something only up to its second change (`FewChangesAdrift`): the
safety properties promise little there, and what `TurnsEnd` and `LoadingEnds` say does not depend on how many
changes came before.

Fairness is assumed in two places, and nowhere in the server's modules, whose properties are safety
properties.

* `Fairness` of `AdminPage`: every request is answered, refused or fails in the end (`fetch` without a time
  limit: the browser's own ends it), and the handler of what arrived runs, as the event loop sees to. The
  user owes nothing: no gesture is fair. From this follow `TurnsEnd` and `LoadingEnds`.
* `PanelFairness`: `setInterval`, `setTimeout` and animation frames fire and requests end. A tab out of
  sight stops the frames; it is assumed to come back to sight. The bundle and the server owe nothing. From this follow
  `PanelCatchesUp` and `DecorationSettles`. The requests of the bundle are bounded in number, as its changes are:
  both properties speak of the time after them.

Deadlock is checked in every run but the two of `AdminPage`: a page that is logged out when the
bound on logins is reached has nothing left to do, and no request is under way.

Every property has a mutant in `PROJECT.json`: a plausible slip in the code (a dropped check,
a lock not taken, a field not reset) under which its run fails.

## 5. What is proved

Every safety property of the passing runs is a theorem, for every value of the constants, and so are both
refinements; what stays with TLC is named at the end of the section.

`RuntimeStateStoreProofs` proves, for any finite set of hosts, any rules, values and number of
saving threads, and any bound on the edits:

| theorem | says |
|---|---|
| `TypeCorrect` | `Spec => []TypeOK`; no crash exposes a torn file |
| `GenerationCheckSound` | comparing generations decides whether a payload is stale |
| `PurgeIsFinal` | a published purge is in every file a crash can leave |
| `ImplementsDurableCell` | `Spec => CellSpec`: every step of the store is a step of the cell or a stutter |
| `ImplementsSavingCell` | `Spec => SavingSpec`: the numbers of the payloads tell each saver whether memory is still what it serialized |

Assumptions: `HostAssumption` (finite), `BoundAssumption` (the edits allow a legacy import of every host),
`NobodyAssumption`, `FileAssumption` (the tokens for a missing and a torn file are no states). TLC
evaluates them in run `store`.

The invariant `IInv` adds to the properties what makes them inductive: no payload is ahead of memory
(`SnapshotsBehind`: an edit makes a number no payload has), the saver past its rename holds the mutex
(`MutexWithRenamer`), so memory still equals the file when the directory is synced
(`RenamedIsCurrent`), the temporary file was synced before (`SyncedBeforeRename`), a stopped process
saves nothing (`DownIsIdle`), the file is among what can be recovered (`DiskRecoverable`), and a
confirmed purge holds in memory too (`PurgedInMemory`): otherwise the next save would
bring the host back. `Edit` is treated once for all five mutators (`MutateIsEdit`).

`ImplementsSavingCell` maps a payload to "current" or "superseded" by its number (`Serialized`). An edit raises
the generation over every payload (`EditSupersedes`, from `SnapshotsBehind`); what one saver does changes
the standing of no other (`OthersKeepTheirs`); and a rename is of a current payload because the check
and the rename happen under one lock (`GenerationCheckSound`).

`HostLifecycleProofs` proves all safety of runs `lifecycle` and `lifecycle_two_hosts`, for any hosts, any capacity
of the report channel, and any of the four activities running:

| theorem | says |
|---|---|
| `HostInvariant` | `Spec => []Inv`, the inductive invariant |
| `TypeCorrect` | `Spec => []TypeOK` |
| `NeverDeadlocked` | no set of activities waits for locks that only they hold (`NoLockCycle`) |
| `PurgeSavesLatest` | the save of a purge is never superseded (`PurgeSaveNeverSuperseded`) |
| `PurgeIsComplete` | a purge that returned leaves nothing of its hosts, nor does anything bring them back (`PurgeLeavesNoTrace`) |
| `PublicViewsAgree` | both public views show the same rows, all of them live (`PublicIsLive`) |
| `HiddenIsNotPublic` | a host whose deletion was answered is not public while it is marked (`HiddenStaysHidden`) |
| `NewHostSaved` | a row is in the file unless a write failed or a save is still to come (`NewHostPersisted`) |
| `RowLeavesForAReason` | rows leave the public page only by deletion, purge or a lost save (`PublicRowKept`) |
| `SavesLikeTheStore` | `Spec => Saving!Spec`: the runtime state, its file and the threads that save it are a `SavingCell` |

`SavesLikeTheStore` maps a thread inside `save()` to what its flag says (`Held`). A mutation of the runtime state makes
what others have serialized stale exactly as in `SavingCell` (`Left`), and only a thread whose payload is still current
replaces the file.

From `StaticAssumption`, `QueueAssumption` and `NoFileAssumption`, which both runs evaluate. The argument goes from the
locks to the data. `LockDiscipline` says who holds which lock from where he is; with it an activity
that waits for a lock waits for one that is further in the order of locks, so there is no
cycle. As a purge holds the publication lock and the lifecycle lock, nobody changes the runtime state between its
serialization and its save (`PayloadCurrent`), and as a publisher holds the publication lock, the rows it
collected are still live when it shows them and those it read as deleted still include
every hidden host (`ViewCurrent`, `PublicLive`, `HiddenMarked`). What is left of a purge is then a
matter of its place: each part it has passed is clean and stays clean, since the only one who
could add the host, the report thread, is kept out by the lifecycle lock (`PurgeProgress`). `RowsKept` says why a row is or
will be in the file. `PurgeLeavesNoTrace` and `HiddenStaysHidden` alone are not inductive: both speak of the
end of an operation and need what the steps before it have done.

`AlertEngineProofs` proves all properties of run `alerts`, for any threshold, duration, repeat interval and delay, and any
number of moments:

| theorem | says |
|---|---|
| `AlertInvariant` | `Spec => []Inv`, the inductive invariant |
| `TypeCorrect` | `Spec => []TypeOK` |
| `SilenceIsReal` | an offline alert is about a server unheard of for the rule's duration (`AlertMeansSilent`) |
| `AnnouncementsApart` | two announcements of one silence are more than the repeat interval apart (`RepeatRespected`) |
| `ExcursionIsReal` | a usage alert is about an excursion that lasted (`UsageMeansHot`) |
| `RecoveryIsAnnounced` | an announced outage does not end without a recovery (`RecoveryAnnounced`), if `Threshold + Delay <= Duration` |
| `SavesLikeTheStore` | every step of the runtime state, its file and the two threads is one of `SavingCell` or a stutter |

From `TimesAssumption` and `AbsentAssumption`. The rules decide on what memory has: a last report, a count, a mark. The
properties speak of what was heard, seen and announced. The parts of `Inv` say how far these are apart:
`Clocks` (no time is in the future, and a stamped report is at most `Delay` old), `Counting` (a running
count began after the last report that was really heard, even if a restart brought an older one
back), `Marks` (while a silence that was announced lasts, its mark is in memory), `Excursion` (the same
as `Counting` for a metric).
`RecoveryIsAnnounced` needs one part more, `Unanswered`: while an alert is marked, a report that comes is more
than the threshold after the last one, which is when the report path calls it a recovery. That is so only if a rule waits at
least as long as a server takes to count as offline. The code does not see to it
(`offline_threshold` is free, a rule's duration is at least 30 s), so the
condition is a hypothesis of this theorem and no assumption on the constants; with threshold 3,
duration 2, repeat and delay 1 TLC finds `RecoveryAnnounced` violated.

`AdminStoreProofs` proves all five properties of run `admin`, for any hosts, any tokens, any number of
concurrent operations and any bound on changes of credentials:

| theorem | says |
|---|---|
| `TypeCorrect` | `Spec => []TypeOK` |
| `AnsweredSaveSurvives` | a save that nothing overlapped is what every later start finds |
| `OverridesGoWithDeletion` | markers and overrides exclude each other in memory, copies and file |
| `TokenSpentOnce` | a token is exchanged once unless an operation replaced data it had not copied |
| `VersionMonotone` | the version that ends sessions goes back only when an update was lost |

From `BoundAssumption` and `FileAssumption`, which run `admin` evaluates. All seven operations are treated once
(`OperationCopies`: each makes a copy that is no worse than the data and adds or removes at most
one token). The invariant then says of a copy that is still fresh that it knows of every token
that was exchanged (`GrantedIsGone`) and that, if it consumes a token, memory still holds it
(`ConsumerSawToken`), so no second exchange can be fresh; and of the file that a writer nothing has
overlapped finds it as it left it (`AloneWrote`) while every other writer has spoiled it
(`AloneInFile`).

`AdminPageProofs` proves the safety of run `admin_page`, for any servers, items and scopes, and any bounds on changes,
logins and faults:

| theorem | says |
|---|---|
| `PageInvariant` | `Spec => []IndInv`, the inductive invariant |
| `TypeCorrect` | `Spec => []TypeOK` |
| `SyncedIsSaved` | the answer that lets the page say "synced" holds the change (`SavedMeansStored`) |
| `QuietAgrees` | a page at rest that missed nothing shows what the server has (`QuietPageAgrees`) |
| `AcknowledgedIsKept` | what was acknowledged stays until the user changes it (`AcknowledgedStays`) |
| `ScopesAreSeparate` | a save of one scope changes nothing else (`ScopeAlone`) |
| `TurnsAdvance` | a running transaction is always attended to, each of its steps uses up work, and nothing adds work |
| `LoadingIsAwaited` | a page that loads has a load whose answer is awaited or has come |

From `HostAssumption`, `KeyAssumption` and `BoundAssumption`, which run `admin_page` evaluates. `Shape` says which request
each sender may wait for and that only the running transaction can still be taken back to a
copy of its own. Transactions are numbered in order (`Numbering`), and an acknowledged key has none left that
could change it (`AckedIsOld`). What other answers may overwrite is exposed (`Exposed`); every other change is held by
the copy until it is posted, and then by the request and its answer (`Held`), from which `SavedMeansStored`
follows. For a page that missed nothing, `Agreement` says that answers are what the server has and that the copy
differs from it only by what is still to be posted; `AckedAgrees` says that on acknowledged keys the copy, the request under way
and the server are the same. `QuietPageAgrees` holds only at rest and so is no base for an induction;
`Agreement` is what holds meanwhile. The effects of the actions are stated once, in the lemmas
`Steps`, `GestureFacts`, `EndTurnFacts` and `Effects`, and used by every part. A run with two faults
showed that `SavedMeansStored` needs the last case of `Exposing` (section 4); with one
fault it never arises, and the theorem does not depend on the bound.

The last two theorems are what stands behind `TurnsEnd` and `LoadingEnds` without fairness. `Work` counts nine steps for
every change still to be made or queued, less the steps the running transaction has taken: it is a natural number, no
event makes it larger - a failure starts no retry, and a gesture takes no more than was set aside for it -
and every change of the running request makes it smaller. `Attended` says that this request is under way or has an answer
for which one of the page's handlers is enabled. That answers come, and that handlers then run, is the fairness TLC assumes.

`ChannelFormProofs`, `EditorDialogProofs` and `ExpiryPanelProofs` prove the safety of runs `admin_forms` and
`expiry_panel`, each of its part's own specification (`FormSpec`, `DialogSpec`, `PanelSpec`):

| theorem | says |
|---|---|
| `SecretSavedAsAsked` | `FormSpec => SecretAsAsked`, for any secrets and texts |
| `CleanFormIsSaved` | a form without unsaved changes would change nothing but for a default it draws (`CleanMeansSaved`) |
| `TestedFormHasSecret` | what the form lets through has a secret to use unless it goes elsewhere, and a fresh form judges exactly (`TestHasSecret`) |
| `RuleDeliversAsTicked` | `DialogSpec => DeliversAsTicked`, for any channels that come and go |
| `UntouchedInputsKept` | `DialogSpec => UntouchedKeeps`, for any servers, groups and names of groups |
| `ConfirmStaysAvailable` | an open editor can be confirmed unless a command is being fetched |
| `RowsStayDecorated` | `PanelSpec => []RowsDecorated`, for any statistics and any limits |
| `RiskOrders` | the order of `sortByRisk` is a total order of any servers |
| `DecorationWearsOff` | `expiry.js` answers a change of the tree by a bounded number of changes of its own |
| `FormKeepsTypes`, `DialogKeepsTypes`, `PanelKeepsTypes` | the type invariant of each part (of form and dialog `admin_forms` checks it too, as `FormsTypeOK`; of the panel it is proved only) |

`ChannelFormProofs` uses `FormAssumption` (a secret is neither blank nor the mask nor what `intent` says
instead of one, the kinds of inputs have no other traits, and there is a text besides the default). `FInv` has five parts: the types; what the user did is what the field holds
(`FieldTells`: no secret is typed into a field marked for clearing, an unmasked configured field is
empty); dirty compares with the baseline (`DirtyTells`); a form that missed nothing was drawn from
what the server has (`DrawnFromServer`); and what was posted asks for what the user asked (`Asked`). The last is
what `SecretAsAsked` needs at the server's step, and the two before it make it hold at the click. The cases of
`Merge` and `Effective` are settled once, in the lemmas `Stored`, `Merged` and `InEffect`. For `CleanMeansSaved`,
`CleanPayload` says what a clean form posts: the drawn text, no secret, the mark there is; for `TestHasSecret`,
`StoredInEffect` that a text which is not a drawn default is no other destination.

`EditorDialogProofs` uses `DialogAssumption` (names are strings, bounds are numbers). `DInv`: the boxes of the picker
are what a confirmation would keep of the channels shown, and the hidden choice is what was last clicked
(`Picker`); a threshold put aside is the rule's own and comes back (`RuleKept`); lists hold what was listed
(`ListKept`); an untouched bill is the server's (`BillKept`); the button is off only for the command being fetched
(`ButtonOff`).

Of the panel, `RowsStayDecorated` needs no assumption. `PInv` adds to the property that lines exist for every row there can be; a
step that replaces rows or the latest answer either calls for a decoration or has nothing to decorate
(`MoveObserved`, `Rendered`). The types need `StatsAssumption` (the versions are sequences of servers, and there is one) and
`LimitAssumption` (the limits are numbers), which the run evaluates; `PanelTypes` adds that what the panel shows was
drawn from the latest answer (`Shown`) and that without a body there is no row (`Emptiness`).

`DecorationWearsOff` is the part of `DecorationSettles` that is no matter of fairness. The mutation observer calls the
script for the script's own changes. `Patience` is the number of retries left, and `MaxTries + 1` more while some row
carries another line than its server's: a decoration replaces all of these (`NothingLeftToReplace`), the next one
finds none, and from there on each uses up a retry. A script that replaced a line by the same would not
get through this proof (`ReplacedAlways` is the mutant).

Model-checked only, since the prover cannot reach it: liveness under fairness (`TurnsEnd`, `LoadingEnds`, `PanelCatchesUp`,
`DecorationSettles`). Of all but `PanelCatchesUp` the safety core is proved: `TurnsAdvance`, `LoadingIsAwaited`,
`DecorationWearsOff`. Out of reach too are `ENABLED` and what a recursive definition computes for every input (none of the
present modules needs one; `ExpiryPanel` sorts with an operator of the community modules, which only TLC
evaluates: `RiskOrders` proves that its comparison is an order, not that the sort sorts).

## 6. Not modelled

* Data inside a row: metrics, labels, ranks, sorting, formatting, JSON text, templates.
* The spelling of alert keys: a rule id that contains a colon is cut at its last colon by
  `runtime_state.rs:255`; the models pair host and rule instead.
* The notification channel: enqueueing succeeds in `AlertEngine`; its bound and the locks held
  meanwhile belong to `NotifyPipeline`.
* Monthly traffic, expiry, login limit, report authentication and the client: planned, section 2.
* Notifiers' calls to providers, geolocation, installation scripts: input and
  output with no state the panel depends on.
* Of the browser: the compiled bundle of the public page (external to `ExpiryPanel`, which lets it change the
  tree at will); the editor of access keys, which no button of the page reaches; the showing of secrets; plain
  inputs, layout and wording.
* Of the channels' forms: the structured webhook, whose override replaces a configured one wholly
  (`admin.rs:980-985`) where the others fall back input by input; the log, which has no form; and a Bark key
  written inside the server's address, which sets the secret without the key's own input (`admin.rs:1153-1158`).
* Hazards without a property are listed with a note in `PROJECT.json`; all but the spelling of keys belong to
  the modules planned in section 2.
