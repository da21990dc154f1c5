# TLA+ models of OpenVPN Control Server

This directory holds the TLA+ specifications of the panel (`openvpn-control-server`):
modules that model its parts, TLC configurations that check them on small
instances, and proofs that TLAPS checks for every value of the constants.
`PROJECT.json` lists components, runs, the source lines each definition stands
for, hazards and theorems; this file explains them.

    tlc -workers 2 -config PanelTasks_worker.cfg MCPanelTasks     # a run
    tlapm PanelTasksProofs.tla                                    # proofs

The other modules with proofs are `PanelBackupProofs`, `ClientSessionsProofs`,
`CertificatesProofs`, `UiDraftsProofs`, `UiLoadsProofs` and `UiDialogsProofs`.

Paths below are relative to `backend/internal/`; `App.tsx` and other frontend
files are in `frontend/src/`.

## 1. The system

The panel is a Go server (`cmd`, `internal/`) over one PostgreSQL database, a
React frontend that is one component (`App.tsx`) with some helpers, and one
*agent* per OpenVPN node, reached over HTTP.  The agent
is another repository and is modelled only from the calls the panel makes.
Every HTTP request is served by a goroutine of its own under the request's
context; two more goroutines run for the life of the process: the worker, which
ticks and polls all agents, and the backup scheduler.  There are almost no
transactions and no locks across statements, so every component below is a set
of processes that interleave between any two SQL statements, file operations
and agent calls.

The frontend runs in one thread, but every `await` lets other handlers, effects
and timers run, and nearly everything is asynchronous: lists are polled, detail
pages load their own data, some forty dialogs send requests.  All of them share
the state of one component, and an answer acts on whatever page, form, dialog or
session is there when it comes.

| Component | State | Operations | Talks to |
|---|---|---|---|
| Panel task queue (`paneltasks`, `worker`, `agent/sync.go`, `handlers/tasks.go`) | table `PanelAsyncTask` | enqueue (delete pending, insert), select, claim, execute, complete, retry | requests enqueue; worker and `POST /agent/sync` execute; agents receive files and restarts |
| Certificates and CRL (`handlers/certificates.go`, `cert`, `crl`, `panel/servercert.go`) | `Certificate`, `RootCa`; the CRL file of a node | create, import, patch, revoke, issue/import/delete of a server certificate, import of `index.txt`, CRL generation | enqueues `crl_deploy`, which reads its rows when it runs |
| VPN session records (`agent/clientsync.go`, `agent/clients_persist.go`, `handlers/clients_live.go`, `handlers/vpn_user_sessions.go`) | `ClientIpAssignment`, `ClientSourceIpHistory`, `VpnUser.lastVpnActivityAt` | snapshot of all agents, supplementing reads, disconnect | agents' `/clients` |
| Panel backups (`panelbackup`) | `PanelAppBackup`, `PanelAppBackupSettings`, files `{id}.zip` | create, prune, settings, download, delete, restore, scheduler | every table (export, import) |
| OpenVPN settings and materials (`panel`) | settings row of a node, material rows | read, merge, write, removal of a root | agent, task queue |
| Nodes, metrics, OpenVPN info, logs (`handlers/agents.go`, `agent/openvpninfo.go`, `agent/sync.go`) | `AgentNode`, samples | CRUD, poll | agents |
| VPN users and organizations, firewall, CCD, agent snapshot, profiles | their tables; pure functions | CRUD; composition of rules and files | enqueue `panel_agent_snapshot` |
| Administrators and authentication (`auth`, `handlers/admin_public.go`), login limiter (`limiter`) | `Admin`, tokens, TOTP and recovery codes; in-memory counters | login, invitation, reset, TOTP life cycle | database |
| Connection pool (`db`), migrations and seed, monitoring, audit, HTTP helpers | pool; schema | | everything |
| Frontend: lists and polling (`panelData.ts`, `refreshPanelData`, `loadData`, the poll effect) | lists, `panelDataFetchInFlightRef` | fetch, apply as a whole, drop a refresh while one is under way | GETs; every other part of the frontend reads the lists |
| Frontend: edit forms (profile, firewall and CCD of a user, organization and its firewall, agent address, administrator) | fields, "filled for" refs | fill by an effect, edit, save | the lists |
| Frontend: detail loads (settings, raw configuration, materials, root CA, journal, services, DNS, firewall, sessions, tasks, backups...) | one state variable each | load for the id in the URL, discard late answers or not, write back | GETs, PUTs |
| Frontend: session | token in state and `localStorage`, MFA dialog, timers | login, second factor, refresh on activity, expiry ticker, 401, logout, reload | `/auth/*`, `/admins/me` |
| Frontend: dialogs and forms that send requests | open, for what, busy, typed | open, close, confirm, one or two requests, success or error | every write of the API |
| Frontend: routes, tables, charts, documentation | – | pure functions, presentation | |

What is hard here, and what must hold nevertheless:

* **Task queue.** Two executors of the same code poll the same node; a request
  can be cancelled between the `DELETE` and the `INSERT` of an enqueue; the
  process can stop between claim and completion, and the `UPDATE` that completes a
  task can fail unnoticed; contents are read before they are written to an agent.  *One activation is run once; "completed" means that
  the node has the content; the service does not stay on an old file unnoticed;
  every task comes to an end unless its own run was cut short.*
* **Certificates.** Check-then-insert without an index behind it; revocations
  between the query and the file of a running deployment; two deployments of one
  node side by side.  *A revoked
  certificate is in the CRL of the nodes, sooner or later or visibly not.*
* **Sessions.** The same rows are written from answers of different age, in
  opposite table order.  *No connected session is recorded as ended by the
  worker; both tables converge to what is connected.*
* **Backups.** A row and a file that nothing ties together, created and removed
  by up to five kinds of operations; an export outside a transaction.  *The
  list stays within `retainCount`, what is listed can be downloaded, a due
  backup is made, an archive can be restored.*
* **Lists in the browser.** The GETs of a fetch are answered at different times; a
  refresh after a save is dropped when a poll is under way; a fetch outlives its
  page and its session.  *A list is never replaced by an older one; an open page
  comes to show the database; polls do not take unsaved edits away where the code
  protects them.*
* **Detail loads.** Answers for the id that was left come after those for the id
  in the URL; the root of a server is loaded by an id from settings that may still be
  another server's.  *The page shows the data of the id in the URL; no load stays
  "loading"; polled data converges.*
* **Session in the browser.** Calls carry the token of the moment they were sent.
  *A logout holds; an expired session ends; a blocked administrator is out after the
  next refresh.*
* **Dialogs.** Closed by a page change and opened again for another row while a
  request is under way; a name is typed for one server and the URL is another's by
  the time it is confirmed; two requests of which one fails.  *One confirmation at a
  time; nothing is removed for the name of something else; success means that everything was done;
  no dialog stays busy.*
* **Settings, administrators, pool** (not modelled yet): lost updates, one-time
  tokens used twice, connections held while another is asked for.

`PROJECT.json` lists the hazards at their lines, with the properties about them.
Further ones, which are not in that list:

* `paneltasks/executor.go:171` the executor that has read the older rows writes its
  CRL last; `executor.go:213` a server certificate is two files, written one after
  the other;
* `panelbackup/service.go:161` the file is removed and the error of the `DELETE` is
  ignored;
* `agent/clientsync.go:140` the activity of users whose node did not answer is
  cleared; `handlers/vpn_user_sessions.go:51` a user view stamps rows with a time read
  before its polls (both are in `ClientSessions` and covered by `Converges`);
* `panel/servercert.go:248` the deletion takes every row of node and root without a
  user, revoked ones too;
* `handlers/admin_public.go:173` the token of a reset link is read and cleared in two
  statements; `auth/recovery.go:88` a recovery code is updated while the result of the
  query on the same connection is open; `limiter/limiter.go:38` check and failure are
  separate critical sections;
* `App.tsx:4029` the DNS page has no cleanup either (as in `ui_wrong_server`);
  6047, 5418, 5664 forms without a busy flag can be sent twice; 5006, 4833 flags
  that a page change clears while the request is under way; 3337 the start of TOTP
  setup answered out of order; 2597 the overview preferred over the newer list of
  nodes; 5551 a retry that succeeded is shown as an error when the GET after it
  fails; 5172 a late 401 of an old token ends a new session; 5276 the MFA dialog
  closes while its code is checked; 6426 a saved organization leads back to the
  list from wherever the operator is.

## 2. The modules

| Module | What |
|---|---|
| `PanelTasks` | the task queue with everybody who touches it |
| `PanelTasksProofs` | theorems about `PanelTasks` |
| `PanelBackup`, `PanelBackupProofs` | archives of the panel; theorems |
| `ClientSessions`, `ClientSessionsProofs` | the record of VPN sessions; theorems |
| `Certificates`, `CertificatesProofs` | the certificate table and the way of a revocation to the nodes; theorems |
| `PanelView` | abstract: what a page may show of the database |
| `UiPanelData` | polling and refreshing of lists in the browser; refines `PanelView` |
| `UiDrafts` | `UiPanelData` composed with the edit forms filled from lists |
| `UiDraftsProofs` | theorems about `UiPanelData` and `UiDrafts` |
| `UiLoads`, `UiLoadsProofs` | what detail pages load by themselves; theorems |
| `UiSession` | the administrator's session in the browser and the panel's side of it |
| `UiDialogs` | `UiSession` composed with the dialogs that send requests |
| `UiDialogsProofs` | theorems about `UiSession` and `UiDialogs` |
| `MC…` | small constants for the runs, nothing else |

Operators whose comment begins with `Mutant:` are deliberately wrong variants
of the definition that follows them.  They are used by no specification; they
show that the property they are listed with in `PROJECT.json` can fail.

### PanelTasks

Rows are numbered in the order of `createdAt`.  `status`, `info` and `nextId` are
the table; `epoch` counts how often a row was made pending (history only).
`saved` is what the database says should be on each node, `remote` what the
files of a node say, `loaded` what its running OpenVPN service has read.
Contents are sets of requests: a CRL is the set of the revocations it lists, a
file is the request that chose it.

| Action | Code |
|---|---|
| `Commit`, `Begin`, `EnqueueDelete`, `EnqueueInsert(Fails)`, `SaveSettings`, `CancelRequest` | the handlers that enqueue: a revocation or a user change commits first and enqueues for every node; a settings change enqueues first and saves last; dnsmasq's configuration is kept in its task only |
| `StartSync`, `PollOnline`, `PollFails`, `EndSync` | `SyncAllNodes` and the worker's tick; tasks are run only when the poll said ONLINE |
| `SelectOldest`, `SelectNone`, `Claim`, `ClaimMisses` | `ProcessPendingForNode`, `claimPendingTask` (the conditional `UPDATE`) |
| `ReadContent`, `ReadFails`, `CallSucceeds`, `CallFails`, `RestartDelete`, `RestartInsert(Fails)`, `Complete`, `CompleteFails` | `executeTask`, the `exec*` functions, `EnqueueOpenvpnServiceRestart`, `completeTask` (an unconditional `UPDATE`, whose error is discarded) |
| `RetryRead`, `RetryWrite` | `Retry` |
| `CancelSync`, `Crash` | a client of `POST /agent/sync` that goes away; the process stops and starts again |

A failing agent call may or may not have done its work.  `faults` counts crashes and
remembers the rows whose run was cut short or whose completing `UPDATE` failed
(`stranded`, history only).  The snapshot that a settings request enqueues after it
has saved, in a goroutine of its own, is a request of its own of kind
`panel_agent_snapshot`.  Not in the model: the
two files of a server certificate are written in one step; a settings request
changes one content type; `CancelPendingOpenvpnServiceRestarts` and
`ProcessPendingTasksForNode`, which nothing calls; the metrics a poll stores.

### PanelBackup

`rows` is the table, `files` and `zip` are the backup directory, `data` the other
tables: one table, a second with a foreign key to it, and the settings row.
`due` says that `lastScheduledAt + intervalMinutes` has passed.  Each process
(`Procs`, with its operation `Op`) steps through `CreatePanelBackupZip`,
`PruneOldBackups`, `UpdateSettings`, `DeleteArchive` or
`RestorePanelFromZipBuffer` one statement or file operation at a time; only the
wipe and the import of a restore are one step, being one transaction.
`PanelWrites` is the rest of the panel.  `ClientGone` cancels a context: every
later SQL statement fails, file operations do not.  `cut` remembers that some
operation was cut short.  The control-character filter of `sanitize.go` is left
out.

### ClientSessions

`live` and `past` are OpenVPN's sessions; `assign`/`seenAt`, `source` and
`activity` are the three columns the panel writes.  `sync` is the worker inside
`SyncClientsSnapshot`: polls, upserts (source address, then assignment), closing
of what was not listed per node (assignment, then source addresses), once more
for all open rows, user activity, freshness.  `reader` are `GET /clients` and
`GET /vpn-users/{id}/vpn-sessions`, which upsert what they find; `kill` is the
disconnect request.  Left out: traffic samples (append-only), the deletion of
rows ended 30 and 90 days ago, several addresses of one session.

### Certificates

`rows` is the table, with the form of each serial number, since
`NormalizeSerialHex` removes leading zeros and openssl wants pairs of digits.
`req` is where each request is and what it has read; `made`, `overlap` and `lost` are
history.  Every handler is split between the statement that reads and the one
that writes; `serialNumber`'s unique index is the only thing that holds across
them.  The queue is reduced to what a CRL needs: a pending task per node (`pend`), what
each executor runs and the serials it has read (`run`), how the last execution left its
row (`last`, with `ended`: there is one a Retry takes), the file (`crl`) and which agents
answer (`online`).  The worker and `POST /agent/sync` (`Executors`) may run deployments
of one node side by side, so that the older rows are written last; `beside` is history
and marks the nodes whose last deployment was not alone.  A deployment ends as
completed, as failed, or is left in `processing` (`DeployStranded`: a crash, a client that
goes away, a completing `UPDATE` that fails).  An index import is one line per request.  Left
out: creation and import of root CAs with their lists, removal of a root from a
node, deletion of users and nodes, the PEM contents, views and exports.

### PanelView, UiPanelData

Versions stand for the contents of lists; 0 is a list that is not loaded.
`PanelView` has the database and the screen: lists change, lists on the screen are
replaced by newer ones, lists are taken off.  `UiPanelData` maps `db` and `shown` to
them (`ImplementsView`).

| Action | Code |
|---|---|
| `refreshPanelData`, `Poll`, `MountTick`, `Hide`, `Unhide` | the guard of `panelDataFetchInFlightRef`; the interval, its first tick, `visibilitychange` |
| `Serve`, `Deliver`, `FetchFails` | the GETs of `fetchPanelDataKeys`, `Promise.all`, `applyPanelDataPatch`, the `finally` |
| `Send`, `Execute`, `Answer`, `AnswerQuietly`, `Refuse` | a handler with `loadData(keys)`, or without |
| `Login`, `Logout`, `Navigate`, `Elsewhere` | session and pages as far as lists are concerned; other writers |

Which page polls which lists, and which lists a request changes, are constants.

### UiDrafts

Seven forms, each a record of what tells it apart: when its effect copies the row
again (with every list, when its fields changed, once per row), whether the ref is
forgotten and the content with it, whether the answer of the save replaces the
content, whether the list is asked for again, whose id the request has.  `form` is one
of them; `draft` is what it shows and `edited` whether that is the list's row, unsaved
edits, edits a save carries, or what was saved.  After an answered save the form shows
the saved row, which the list on the screen does not have until it is loaded again.  An effect is part
of the step that changes what it depends on: `ListArrives` is `Deliver` with
`Hydrate`, `GoTo`, `Switch` and `LogoutLeaves` are page changes with `Select`.  `Edit`,
`Save`, `Saved`, `SaveFails` are the operator and the handler.  Every change gives a list
a new version: a row that is changed back to the very same values between two polls,
which the effect of the agent address would not notice, is not in the model.

### UiLoads

Fifteen loads, each a record (where its id comes from, is a late answer discarded, what
an error leaves, is the form hidden meanwhile, is it polled, is it written back and what
the answer does).  Most load for the id in the URL.  The root of a server and the
material of its certificate are loaded for ids that are computed from
`serverOpenVpnSettings`; `settings` is that variable: whose settings are there, for which
server a GET for them is under way (`asked`), and whether they came with the answer to a
write of a page that was left (`stray`).  Nothing clears them on a change of server, so
the effect first loads the former server's root once more, and again when
`SettingsArrive` names another.  The raw configuration is loaded again with every new
settings object.  `Hide` and `Unhide` are `document.hidden`, which the interval of the
sessions looks at and that of the tasks does not.  `Enter`, `Switch`, `Leave` are the effect and its cleanup; `Serve`, `Deliver`,
`GetFails` a GET; `Write`, `Execute`, `Written`, `Refused` a write; `misdirected`
remembers that a write to one server carried the data of another.

### UiSession, UiDialogs

`token` and `stored` are the token in the state and in `localStorage`; `calls` are the
calls in flight, each with the token it was sent with.  The panel's side
(`ServeLogin`, `ServeCall`) is `RequireAuth`, `/auth/login`, `/auth/login/mfa`,
`/auth/refresh` and `/admins/me`.  `SetToken` includes the effects that follow it.  The
`out`, `blockAt` and `lost` variables are history.

A dialog of `UiDialogs` is a pair: its markup (`…View`: on which pages it is shown,
when its buttons work, what leaving the page does) and its handler (which id, one
request or two, what success does).  There are 42.  `modal` is its state, `confs` the
confirmations under way, `done` those that ended in success, `marked` the rows that
say "disconnecting".  A typed name is compared by the handler: that of an administrator
with the one kept in the dialog, that of a root with whatever root the page shows, which
may be another server's; the panel then compares it with the root of the server the
request is for (`Checked`) and answers 400 (`Refuse`).  The session goes on beside it: its end and a login lead to the
first page and leave the dialog in memory, a reload forgets it; a 401 to a
confirmation (`Deny`) ends the session.  With `NoDialog` the whole session is
explored alone.

## 3. Runs

Each cfg only gives values to constants.  "Distinct states" are those of the
complete state space: every run that passes is exhaustive for its bounds.  The
property whose name ends in `Inv` is the inductive invariant of section 4, which
contains the types.

| Run | Instance | Distinct states | Shows |
|---|---|---|---|
| `tasks_worker` | 1 node, the worker, a revocation and a CA change, 1 retry, 4 rows, 2 tasks per poll, 1 crash | 303 k | `CompletedMeansDeployed`, `EveryTaskEnds`, `DeployInv` |
| `tasks_concurrent` | worker and sync request, a revocation and a CA change, 1 retry, 3 rows, 1 task per poll | 1.6 M | `ActivationRunsOnce`, `RestartFollowsWrite`, `RestartInv` |
| `tasks_stuck` | worker, 1 revocation, 1 crash | – | violation of `ProcessingMeansRunning` |
| `backup_all` | four casts: 2 creations with a settings change, a deletion or a restore; the scheduler with a settings change; 2 archives, `retainCount` ≤ 2, 1 crash, 1 client gone | 602 k | `RowsWithinRetain`, `ListedIsDownloadable`, `DiskWithinRetain`, `DueIsServed`, `BackupInv` |
| `backup_torn` | 1 creation while the panel writes | – | violation of `ArchiveIsState` |
| `sessions` | two scenes: the worker over 2 nodes with 1 crash; 1 node with one of each listing request and a disconnect; clock 0–1, freshness 0 | 589 k | `EndedMeansGone`, `Converges`, `SessionInv` |
| `certs_all` | any 3 of the 9 operations, 1 CN, 1 root, 1 node, the worker and a sync request | 586 k | `RevokedListed`, `OneActivePerCN`, `RevocationReaches`, `CertInv` |
| `certs_crl` | a creation and a revocation | – | violation of `CrlBuilds` |
| `ui_drafts` | each of the 7 forms, 2 rows, 3 pages, 2 lists of 2 versions, 3 steps of the operator, 1 failed fetch | 446 k | `ImplementsView`, `EditsSurvivePolls`, `UneditedFollowsList`, `DraftIsOfSelected`, `PageConverges`, `FormConverges`, `FormInv` |
| `ui_pages` | each of the 15 loads, 2 ids, 2 versions, 3 steps of the operator, 3 GETs in flight, 1 failure | 652 k | `AnswerIsOfSelected`, `RootCaIsOfSelected`, `LoadingEnds`, `PolledConverges`, `LoadInv` |
| `ui_wrong_server` | the firewall of 2 servers | – | violation of `WritesOwnData` |
| `ui_dialogs` | the session alone (2 administrators, one with a second factor, 3 tokens, 3 steps, 1 failure), and each of the 42 dialogs (2 subjects, 2 openings, 2 confirmations, 2 page changes (1 next to a dialog that can be confirmed twice), 1 lost request, 1 step of the session, 1 expiry) | 426 k | `LogoutHolds`, `ExpiredEnds`, `BlockedLeaves`, `OneAtATime`, `AwaitsOwnAnswer`, `TypedIsTarget`, `SuccessIsComplete`, `MarkedIsEnding`, `BusyEnds`, `DialogInv` |

**Bounds.**  Interference needs two: two executors, two requests that touch one
kind of content, two creations; a third brings no new pair of steps.  Row
bounds are those of a revocation, a file and its restart, and one more that a
second round can insert (`tasks_worker`); in `tasks_concurrent` the third row is the
last.  When a bound is reached an `INSERT` can still fail, so that no process is stuck on it.
`MaxPerPoll` is 20 in the code; 1 and 2 make the limit be hit.  Two archives and a
`retainCount` of 1 or 2, lowered meanwhile, make pruning necessary.  One crash is enough for
properties of the first repair, as nothing repairs anything at start.  With
`Freshness = 0` and a clock of two values a row can be fresh or not.  Three
certificate requests are create, revoke and one more that interferes.

In the browser, three steps of the operator are leave, come back and act; two ids
are enough for "another one", two versions for "older".  `MaxFetches = 2` is never
reached by the code as it is (`OneFetch`), only by the mutant without the flag.  Two
openings and two confirmations are what an answer can be confused between.  A form
or dialog shares no state with the other forms and dialogs except the lists and the
session, so each is explored alone with these.  When the bound of GETs in flight is
reached, `ui_pages` starts no further one; a write that exceeds `MaxVersion` is
refused.

**Deadlock** is checked for the queue and the sessions, where the worker never
stops.  The `backup_*` and `certs_*` runs say `CHECK_DEADLOCK FALSE`: each
request is made once, and when all are answered the system is at rest.  So do
the `ui_*` runs: an operator may stop, and a page that polls nothing is at rest.

**Symmetry** is not used: runs with liveness properties must not, and the other
sets are small and their members mostly have different roles.

**What the four violations show.**
`tasks_stuck`: a process that stops after the claim leaves the row in
`processing`; nothing looks at such rows at start and Retry answers that the task
is being executed.  `backup_torn`: the export reads table by table outside a
transaction, so an archive can hold a session without its node, and such an
archive cannot be restored.  `certs_crl`: one serial in sixteen has an odd number
of hex digits, with which openssl refuses the whole index, so that there is no
CRL of the root from then on.  `ui_wrong_server`: the load of a server's firewall has
no cleanup, so that after a quick change of the server the form shows, and Apply
writes, the rules of the one that was left.

**What the properties leave out, because the code does not have it.**

* `EveryTaskEnds` excepts the rows in `faults.stranded`: a task whose own run was cut
  short, or whose completing `UPDATE` failed, stays in `processing`, which `tasks_stuck`
  shows.
* `CompletedMeansDeployed` is about one executor.  With `POST /agent/sync` beside
  the worker, the one that has read the older rows may write last.  `RevokedListed` and
  `RevocationReaches` have both executors and except the nodes whose last deployment had
  another beside it (`beside`); `RevocationReaches` also those whose agent does not answer
  and whose task was left in `processing`.
* `CompletedMeansDeployed` is, for a file whose content is kept in the task, about one
  settings request (`OneChange`).  With two, the one whose row was inserted last need
  not be the one that saved last, so that the database names one file and the node
  has the other; and a Retry of the older task brings the older file back.
* `CompletedMeansDeployed`, `RevokedListed` and `RevocationReaches` exclude requests
  that were cut short: the error of a failed enqueue is discarded and no trace
  of it is left.
* A Retry that races with a claim makes a running task pending; it is run a
  second time.  `ActivationRunsOnce` tells the two activations apart, and
  `RestartFollowsWrite` speaks of the states before a Retry is made.
* `DiskWithinRetain` is about the cast with the scheduler as the only creator: with two creations at
  once, one may prune the row of the other before its file is written, and the
  file stays.  It excludes deletions too: a deletion of the archive the scheduler has
  inserted and is about to write finds no file to remove, and the file comes after it.
* `ListedIsDownloadable` and `RowsWithinRetain` are about operations that were not
  cut short: a crash or a cancelled request between row and file leaves a
  listed archive without a file.
* `EndedMeansGone` speaks of the states before a listing request starts; with them a session
  may be shown as ended until the next round (`Converges`).
* `OneActivePerCN` is about requests one after the other; `RevokedListed` and
  `RevocationReaches` about imports that do not overlap other requests
  (`ImportsAlone`): those of an index at all, and, with several roots, those of a server
  certificate, which can move the row to another root between the `SELECT` of a
  revocation and its enqueue for the nodes of the root it has read.
* `EditsSurvivePolls` is about the three forms that are filled once.  The others are
  overwritten by the next list that differs, and `UneditedFollowsList` and
  `FormConverges` are what they promise instead.  `DraftIsOfSelected` excepts the two firewall forms, whose content is
  replaced by the answer to a save even when another row is selected by then.
* `AnswerIsOfSelected` is about loads with a cleanup and without a write-back; the
  services, DNS, firewall and sessions pages have no cleanup.  `RootCaIsOfSelected` is
  about the states after the answer to the GET for the settings of the server in the URL
  (an error counts, it leaves no settings).  Until then the page of a server shows, and
  even loads, the root of the server before it; and a write sent from another server's
  page and answered later puts that server's settings in (`stray`).
* `PolledConverges` asks for a visible tab where the interval does.
* `TypedIsTarget` is about the requests the panel has run.  That a name typed for the
  root of one server is sent to another is what the page may do; the panel refuses it
  unless the two servers have the same root.  The block of an administrator is compared
  in the page only, with the administrator the dialog keeps.
* `LogoutHolds` is about a logout with no login and no refresh in flight; the answer
  to a refresh brings a session back.  `BlockedLeaves` is about tokens issued after the
  block: an older one is good until it expires or is refreshed.
* `OneAtATime` and `AwaitsOwnAnswer` are about dialogs with a busy flag that outlives
  the page (`Flagged`, `Guarded`).  The forms for a new user, server, organization, root
  CA and for issuing a profile certificate have none; the dialogs that bind a
  certificate, add an administrator or set TOTP up lose theirs when the page is left.
* `SuccessIsComplete` excepts a second request that is skipped: with no token left
  `persistOpenVpnPanelPartial` returns and the dialog closes as after a success.

**Fairness.**

* Queue: weak fairness of an executor's steps (goroutines are scheduled, calls
  have timeouts) and of the worker's `StartSync` (a ticker); strong fairness of
  `PollOnline`: an agent that is polled again and again answers some time.
  Nothing is assumed of agent calls, which may fail always: the task then ends
  as failed.  None of `POST /agent/sync`, retries and requests.
* Backups: weak fairness of the steps and of the scheduler's `StartCreate`; strong
  fairness of `WriteFile`: a disk that is written to again and again is not full
  for ever.
* Sessions: weak fairness of `StartSync` and of the worker's steps, strong fairness of
  `PollOk`.  None of listing requests, disconnects and time.
* Certificates: weak fairness of a request once begun and of the end of a deployment,
  however it ends; strong fairness of the worker's `DeployRead` for each node, since the
  ticker polls again and again and an agent may answer only now and then.  None of
  `POST /agent/sync` and of agents: one may be away for ever.
* Lists and loads: weak fairness of the interval (`setInterval`) and of answering a
  GET; a fetch may fail, but only `MaxFails` times.  The interval does nothing in a hidden
  tab, and `PageConverges`, `FormConverges` and `PolledConverges` say so.  None of
  navigation, edits, saves, of showing a hidden tab, and of the answer to the GET for a
  server's settings.
* Session and dialogs: weak fairness of answering calls and confirmations (the panel
  answers or the browser reports an error) and of the ticker of one second.  None of
  the operator, of time and of activity.

## 4. Proofs

Every safety invariant of the passing runs, the action property `EditsSurvivePolls`
and the refinement `ImplementsView` are proved, each from the `ASSUME` of its module
alone and for every value of the constants: any number of nodes, executors, requests,
rows, archives, tokens, crashes, and so on.  Each component has one inductive invariant
(the name ends in `Inv`), which the run of the component checks as well and from which
the other theorems follow.  The proofs are laid out alike: lemmas about the types and
the operators; *frame* lemmas, which say once what suffices for a step that disturbs
nothing; one lemma per action or kind of step; `Init…Inv` and `Next…Inv`; the theorems.

### PanelTasksProofs

| Theorem | Statement |
|---|---|
| `QueueInvariant`, `TypeCorrect` | `Spec => []QueueInv`, `Spec => []TypeOK` |
| `ClaimIsExclusive` | `Spec => []ActivationRunsOnce` |
| `RestartInvariant`, `RestartsFollowWrites` | `Spec => []RestartInv`, `Spec => []RestartFollowsWrite` |
| `DeployInvariant`, `CompletedIsDeployed` | `Spec => []DeployInv`, `Spec => []CompletedMeansDeployed` |

`ConstantsAssumption`: kinds are task types, `HttpSyncs` are executors, bounds are
numbers.

*Exclusive claims.*  `ActivationRunsOnce` is not inductive.  When an executor claims a
pending row, no other may be running the row's current activation, although one may
well be running an earlier one after a racing Retry: `RunsPastActivation` says that a
running executor has an activation no later than the row's `epoch`, and an earlier one
while the row is pending.  Insertions must not hit a row that somebody refers to, and a
retry must not write one that does not exist yet: `IdsInOrder`.  `QueueInv` is the
conjunction with `TypeOK`.  `KeptInv` and `GoesOn` are its frames; `ClaimInv` and
`RetryStepInv` are where the strengthening is needed.

*Restarts.*  `RestartFollowsWrite` names as traces of a file the service has not read
every sync task that is not completed.  A pending one is not enough to go on with: the
next enqueue deletes it.  `Traced` therefore asks for a restart that is not about to be
completed, or a sync task that is processing or failed and not about to be completed
(`Ends`).  That the writer's own row is such a trace needs `RunsOwnRow` and
`RunsProcessing` (nobody but a Retry takes a row away from its runner).  `OwnTrace` and
`CallTraced` are the lemmas about the write, `EnqueueTraced` about the restart after it.

*Completed means deployed.*  For each node and type of content, `Deploys` says that one
of four things is so: a request has still to insert its row here or lost it (`Awaited`);
there has never been a row; the newest row is not completed, and whoever runs it is in
time to deploy the content (`InTime`); the node has the content and no write of another
one is under way.  The content is `Target`: the database for what is read from it, the
one change of the payload otherwise (`OneChange`).  `RowsOfRequests` and `SavedLast` tie
rows, requests and `saved` together.  `ExecDeploys` is the lemma where one executor is
needed: a write that is under way is the only one.

### PanelBackupProofs

`BackupInvariant` (`BackupInv`), `RowsStayWithinRetain` (`RowsWithinRetain`),
`ListedAreDownloadable` (`ListedIsDownloadable`), `DiskStaysWithinRetain`
(`DiskWithinRetain`), from `BackupAssumption`: each process has an operation, at most one
is the scheduler (`main` starts one), `retainCount` is at least 1.

The three are about states in which every operation is over, so `BackupInv` has to say
who will repair what meanwhile: a row has its file, or somebody is about to write it or
to delete the row, or a restore is clearing the directory (`RowsCovered`); if there are
too many rows, some process `Prunes`: it has yet to read the count, or has read one that
is no larger than today's, or the rows without those it is to remove are few enough.
That the last statement of a prune leaves at most `keep` rows is `NewestBound`: at most
`k` members of a set of numbers have fewer than `k` larger ones.  `FilesHaveRows` is for
the cast with the scheduler: no file is without a row, and nobody is to remove the row
whose file is being written.  It needs that the newest row is among those kept
(`NewestKeepsLast`).

### ClientSessionsProofs

`SessionInvariant` (`SessionInv`), `EndedSessionsAreGone` (`EndedMeansGone`), from
`SessionsAssumption`.

The worker ends what it did not find in the answers.  That this is gone needs
`ListInv`: a connected session of a node that answered and that is not in the list has
come after the answer and so is not recorded at all; and `SeenInv`: what was listed has
been stamped with the time of this round, or is still to be upserted, which is what
the last statement for all open rows goes by.  `LifeInv` says that sessions do not come
back and are not recorded before they exist, `WorkInv` what the loops have left,
`KillInv` that a disconnect ends rows of sessions it has seen gone.  `UnlistedGone` and
`CloseInv` are the lemmas about the closing statements.

### CertificatesProofs

`CertificateInvariant` (`CertInv`), `RevocationsAreListed` (`RevokedListed`),
`ActiveNamesAreUnique` (`OneActivePerCN`), from `CertificatesAssumption`.

For every revoked certificate and every node of its root, `Covered`: a deployment is
pending, or a request is about to enqueue one, or one that runs has read the serial, or
the file has it, or the last deployment is not shown as completed, or deployments ran
side by side (`beside`, or two of them now).  `AloneIsAlone` ties the flag of a running
deployment to the others: one that says it is alone is the only one of its node, so what
it has read is what the file will be.  Requests decide on what
they have read: `RootIsCurrent` (the nodes a revocation enqueues for are those of the
root the row still has), `StatusIsCurrent` (an index line that keeps a status keeps
today's), `CheckIsCurrent` (nobody has taken the name since the check).  `Solo` says that
without an overlap one request is open, `Progress` what the place of a request says of
the operations made so far.  `RequestStep` is the frame for a request, `ReadStep` for one
that only reads, `WorkerStep` for an executor.

### UiDraftsProofs

`FormInvariant` (`FormInv`), `ScreenImplementsView` (`Spec => ImplementsView`, the
refinement of `PanelView`), `UneditedFormsFollow` (`UneditedFollowsList`),
`FormsAreOfSelected` (`DraftIsOfSelected`), `UnsavedEditsSurvive` (`EditsSurvivePolls`, an
action property), from `TablesAssumption` (which page polls what), `BoundsAssumption` and
`FormAssumption` (among others: the page a logout leads to is not that of the form).

That a delivered fetch never puts an older list on the screen needs `FetchedNotOlder`:
what a fetch has been answered is between the screen and the database.  That holds
because there is one fetch at most (`OneFetch`, with the flag
`panelDataFetchInFlightRef`): another one could have been applied since the answer.
`ShownExisted` is needed where a GET is answered.  For the forms, `FollowsList` says
that a form which follows its list holds the row the list has, or a newer one that was
saved, which needs `SavingIsNewer`: what a save has written is not on the screen while
its answer is awaited, or the fields would have been filled again; and `FilledOnce` that a form which is filled once has been filled for the row
in the URL and that edits are edits of that row; without the latter a new list could
still count as the first one and take the edits away.  `NextView` maps each step to one
of `PanelView` or a stutter.

### UiLoadsProofs

`LoadInvariant` (`LoadInv`), `AnswersAreOfSelected` (`AnswerIsOfSelected`),
`RootCasAreOfSelected` (`RootCaIsOfSelected`), from `LoadsAssumption`.

For a load with a cleanup, `LiveIsWanted`: a GET whose answer will be applied is for the
id the effect would ask for now, on an open page.  Every step that changes the URL or
the settings runs the cleanup before the next GET is sent.  For the two loads of the
second step, `AskedIsSelected` and `SettingsAreOfSelected`: a GET for settings that counts
is for the server in the URL, and once it is answered the settings are that server's or
none, unless stray; `RootIsOfSettings`: the root shown is the one they name.  `ReadsOnly`:
no answer to a write replaces the content.

### UiDialogsProofs

`SessionLogoutHolds` (`SessionSpec => []LogoutHolds`, the session alone) and, for the
composition and each of the 42 dialogs, `DialogInvariant` (`DialogInv`),
`ConfirmedOneAtATime` (`OneAtATime`), `AnswersFindTheirDialog` (`AwaitsOwnAnswer`),
`TypedNamesAreTargets` (`TypedIsTarget`),
`SuccessesAreComplete` (`SuccessIsComplete`), `MarkedRowsAreEnding` (`MarkedIsEnding`),
`LogoutsHold` (`LogoutHolds`), from `SessionAssumption` and `DialogsAssumption`.

After a quiet logout no call is in flight that could bring a token (`out => Quiet`), and
an answer with a token has one to bring (`TokensNamed`).  A confirmation under way keeps
the flag of a `Flagged` dialog set, so that none can be made beside it; `SoFar` says which
of the two requests of a confirmation have been executed, which is what success is
measured against, and that none was executed for a name that is not its target's.  The dialogs differ only in their records: `AllWellFormed` shows of
each of the 42 what the lemmas use, and these then speak of any well-formed record.

### What the attempts found

Some statements turned out to be stronger than the code; TLC confirmed each on a small
instance, and the property now names the case (see section 3): two settings requests
over one file and a Retry of the older one (`OneChange`); a deletion that overtakes the
scheduler's write (`SchedulerAlone`); with several roots, an import of a server
certificate that overlaps a revocation (`ImportsAlone`).

### Only model-checked

`EveryTaskEnds`, `DueIsServed`, `Converges`, `RevocationReaches`, `PageConverges`,
`FormConverges`, `LoadingEnds`, `PolledConverges`, `ExpiredEnds`, `BlockedLeaves` and `BusyEnds`: they are
liveness properties, which need fairness and `ENABLED`, and the prover treats neither.

## 5. Not modelled

* Agent HTTP client, client profiles, monitoring, audit, HTTP helpers: I/O,
  formatting, read-only views.  The outcomes of an agent call are part of the
  modules that make it.
* Nodes, VPN users, organizations: changes of one row; that they enqueue is in
  `PanelTasks`.
* Frontend, pure functions of one input: routes, tables of setting names, sorting,
  paging, dragging of rows, the dnsmasq text, the line diff; field checks before a
  request; charts, the documentation page and other presentation.
* Frontend, downloads and previews, which only read; the dialogs for firewall and DNS
  rules, which change the form and send nothing; the start of TOTP setup.
* Frontend, code that nothing reaches: the tabs "services", "service" and "client" of
  a server with their loads, `serviceActionModal`, `systemUnitActionModal`,
  `certMaterialViewModal`, `issueUserCertificate`,
  `uploadSelectedCertificateKeyMaterial`, `createRootCA`, `importRootCaFiles`,
  `emailUserConnectionProfile`, `downloadUserConnectionProfile`, and the dialogs for
  client versions.
* Settings merge, authentication, limiter, connection pool, metrics, firewall
  and CCD, migrations: planned, see below.

## 6. Plan

Done: the queue, backups, sessions, certificates; the frontend's lists, forms, loads,
session and dialogs; proofs of every safety invariant that the passing runs check, of
`EditsSurvivePolls` and of the refinement of `PanelView`.  Next, in this order:

1. `TaskLease`: what a queue promises (each activation is leased once, then
   ended or abandoned), implemented by `PanelTasks` under a refinement mapping, and
   the proof of that refinement from `QueueInv`.
2. `OpenvpnSettings`: read, merge and write of the settings row by two requests,
   the files that are deployed meanwhile, removal of a root; composed with the
   tasks of `PanelTasks`.
3. `AdminAccount`: invitations and reset links as one-time tokens, TOTP,
   recovery codes, login limiter; composed with `UiSession`.
4. `ConnPool`: requests that hold the connection of an open result while they ask
   for another; the pool size from which this cannot block.
5. `NodeStatus`: metrics, OpenVPN info and the status of a node under two pollers;
   deletion of a node with running tasks.
6. Pure algorithms against reference definitions: firewall composition, CCD,
   time buckets, paging, parsing of `index.txt` and its dates, routes of the
   frontend.
7. Two-file writes of server certificates; import of a root's lists; users'
   deletion in `Certificates`.
