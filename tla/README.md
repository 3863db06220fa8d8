# Floffi: a specification of the board, its sessions and its accounts

Floffi is a board on which a team of LLM agents works through tasks. A browser
shows the board and edits its own copy of it; a Go server keeps the
authoritative copy, runs the agents in goroutines, accepts webhooks, and stores
each workspace as one JSON column of SQLite. Users sign in with a password and
perhaps a second factor, own and share workspaces, and several tabs and devices
look at the same board. There is no transaction around a whole request: handlers,
goroutines, timers, tabs and other devices interleave between single statements and
single locks. This project models that in TLA+, checks it with TLC on small
instances, and proves its main invariants with TLAPS for boards, plans, goroutines,
users, browsers and requests of any number.

Paths below are relative to `src/`; `auth/` is `internal/server/auth/`, other Go files are in
`internal/server/`, TypeScript is in `frontend/src/`.

## 1. Inventory

### 1.1 Components, state, operations

| component | state | operations | what makes it correct |
|---|---|---|---|
| Workspace store (`workspace.go`) | one board: tasks, boss reports, agent status, session log; its tag; a lock | `addTask`, `setTaskExecution`, `completeTaskWithReport`, `advanceWorkflowStep`, `addBossReportOnly`, `setReportTrust`, `addSessionLog`, the two watchdog passes, `normalizeWorkspaceState`, `replace`, the merge of a PUT | a row belongs to the task it was produced for; one row per plain task; steps in order; a finished task has its report; memory and row agree except after a failed save |
| Task runners and watchdogs (`webhook.go`, `server.go`, `workspace_api.go`) | a goroutine per run, with the step and agent it read; timers of 30 s and 5 s | `handleTaskRun`, `rerunTask`, `runWebhookWorkflow`, stuck scanner, orphan watchdog | no runaway retries; no task left running; concurrent runs of one task do no harm |
| Workspace HTTP API (`workspace_api.go`, `reports_api.go`) | requests in flight | GET, PUT with `If-Match`, `/run`, `/reset`, approve / demote / reset-trust | a PUT loses nothing that was made on the server meanwhile |
| Webhook ingest (`webhook.go`) | requests in flight | create a task and its workflow, or a report only | an accepted delivery has its effect once |
| Board operations (`BoardView.tsx`, the sidebars, `TaskCard.tsx`, `taskActions`, `reportActions`) | the screen | columns, teams, agents, cards, workflows, trash, review, settings | what is written back, however stale, breaks no rule of the board |
| Board client (`App.tsx`, `lib/board.ts`, `useWorkspacePersistence.ts`, `useWorkspaceFlow.ts`, `WorkspaceSwitcher.tsx`) | screen, last tag, active workspace, debounce, requests in flight; `floffi.activeWorkspace` shared by tabs | save, poll, reload after 412, run, reset, switch | a save takes no card away that nobody removed; screen and server agree again; workspaces do not mix |
| Workspace persistence (`auth/workspaces.go`, `workspace.go`) | the `state_json` column | load, save | write-through; nothing else writes it |
| Workspace registry (`workspace_registry.go`) | cache of stores | first touch, reload, `Forget`, sweep | one live store per row; only an older copy of the board takes anything out of the row |
| Membership and invitations (`workspace_membership.go`, `workspace_resolver.go`, `auth/workspaces.go`) | owner, members, invitations | create, invite, accept, leave, remove, transfer, switch mode, delete | one owner, who is a member; caps kept; an invitation used once |
| Sessions in the browser (`auth/sessions.go`, `auth/handler.go`, `App.tsx`) | refresh-token rows, the cookie tabs share, each tab's session, change streams | login, refresh with rotation, reuse detection, revocation, single session, logout, kick | no live session that nobody holds; last sign-in wins |
| Idle logout and drafts (`lib/idleTimer.ts`, `lib/idleDrafts.ts`) | two stamps and the drafts in localStorage, a countdown per tab | activity, storage event, tick, warn, log out, restore | activity in any tab keeps all signed in; the form's draft replaces no newer text |
| Login and lockout (`auth/handler.go`, `auth/lockout.go`) | failed attempts, locks | attempt, escalate, unlock | a permanent lock stands until an administrator lifts it |
| Second factor, reset links (`auth/phase34.go`, `auth/totp.go`, `TOTPSetupModal.tsx`, `SecurityPanel.tsx`, `MFAChallengeView.tsx`) | secrets, recovery codes, challenges, tokens | set up, enable, verify, recover, regenerate, disable, reset | a code works once; the second factor asks for a secret the person has |
| Administration (`auth/admin.go`) | roles, the super-admin | lock, unlock, grant, revoke, reset-password, delete oneself | an active administrator remains |
| Webhook deduplication (`auth/webhook_dedup.go`) | seen delivery IDs | record, purge | at most once, and at least once for an accepted delivery |
| Agent calls, limiter, quota (`agent.go`) | semaphore, daily count | call, retry, wait | calls in flight are bounded; the quota is not exceeded |
| Change stream (`server.go`, `lib/board.ts`) | subscriber buffers | publish, drop, refetch, revoke marker | the board catches up; a kicked session is told |
| Search index, memories (`workspace_search.go`, `auth/store_search.go`) | index rows | rebuild after a save, query | prompts see approved texts only |
| Attachments (`attachments.go`) | files | upload, delete, sweep | no live file is swept |
| Bootstrap, playground, logging, command line; rendering, themes | none shared | | |

### 1.2 How they interact

* A **webhook** or the **browser** puts a task on the board. A webhook also
  starts a goroutine that takes a workflow through its steps; the browser starts
  one with `/run`.
* A **goroutine** reads the task (one lock), marks it active (second), calls the
  agent for up to two minutes (no lock), and delivers the report or moves the task
  to its next step (third). It holds the step number and the agent it read at the
  start, not the ones the task has at the end.
* The **watchdogs** look at `StartedAt` and know nothing of goroutines: a task
  that has been active too long is marked retrying and gets a second goroutine,
  whether or not the first is still waiting for its call.
* A **PUT** checks its tag, takes a snapshot, merges the body into it, and
  replaces the whole state, under four separate locks. `replace` normalizes the state
  as a restart does.
* Every store method **saves** before it returns. When the save fails memory has
  changed and the row and the tag have not; several callers ignore the error.
* A **tab** has one tag and one active workspace for all its requests. Whichever
  answer comes last sets the tag; a refresh adopts the tag but takes over only the cards,
  the sessions and the reports.
* The **tabs of a browser** share the cookie, two activity stamps, the drafts and the active
  workspace. A storage event tells the other tabs, some time later.
* A **session** is one row per refresh token. Rotation replaces the row and the cookie; a
  second use of an old token revokes the chain. A revocation puts a marker on every change
  stream of the user, and a tab that sees it logs out.
* An **account request** (membership, lockout, second factor, administration) reads, decides
  and writes in separate statements. Other requests come in between, and the revocation of
  sessions, the last statement of several, has its error discarded and ends with the client.
* A **store** is built when a request first touches its workspace, outside the registry's lock:
  several requests may build one, each constructor saves the row it has read, and the first
  to come back is kept.
* A **webhook's sender** repeats a delivery until it is answered; the handler records the delivery
  before it puts a task on the board, and answers a repeated one without looking for the task.
* The **change stream** tells browsers to refetch.

### 1.3 What is hard here

Two goroutines on one task; a handler that works on a snapshot while others
write; a browser whose copy is arbitrarily old; answers that overtake each other in a tab; tabs
that share a cookie and a stamp; a check and a write with another administrator in between; a
crash between two store calls; a save that fails half-way through a handler; retries that must
end. The list with source lines is under `hazards` in `PROJECT.json`.

## 2. The modules

| module | models |
|---|---|
| `Workspace` | the value a store guards, and the pure part of each store method that changes it |
| `Board` | what reviewing and handling tasks does to the browser's copy, and a refresh, in the terms of `Workspace` |
| `WorkspaceServer` | one store with its goroutines, watchdogs, handlers, a browser, failing saves and crashes |
| `DurableCell` | abstract specification: a write-through cell that can crash |
| `BoardContent` | everything a user can do to columns, teams, agents, cards and settings; the server's merge and the client's refresh of them |
| `BoardClient` | one tab over several workspaces, with another device and another tab of its browser |
| `Membership` | users, workspaces, members, invitations and the requests that change them |
| `BrowserSession` | refresh sessions, the cookie and localStorage of each browser, each tab with its stream, idle watcher and drafts |
| `Accounts` | passwords, lockout, the second factor, recovery codes, reset links, administration |
| `WebhookDelivery` | deliveries with their sender's attempts, the record of those seen, and the registry that loads, keeps and forgets a store |
| `MCWorkspaceServer`, `MCBoardClient`, `MCMembership`, `MCBrowserSession`, `MCAccounts`, `MCWebhookDelivery` | the small instances |
| `WorkspaceServerProofs`, `QuietProofs` | the operators of `Workspace` and `Board`, and the theorems about `WorkspaceServer` |
| `BoardContentProofs` | what each operation of `BoardContent` keeps |
| `BoardClientProofs` | the theorems about `BoardClient` |
| `MembershipProofs`, `SessionProofs`, `AccountsProofs`, `WebhookDeliveryProofs` | the theorems about `Membership`, `BrowserSession`, `Accounts`, `WebhookDelivery` |

The five state machines beside `WorkspaceServer` share no state with it except at one seam each.
`BoardClient` has the same rows as `WorkspaceServer`, seen from the tab: there the PUT
is one step and the client's requests overlap; in `WorkspaceServer` the client makes one request at a
time and the handler's locks are apart. `Membership` and the board meet only in the access
check of a request, which the board models take as passed. `BrowserSession` starts where `Accounts`
has said yes to a sign-in: `Accounts` knows of a session only whether it is live. `WorkspaceServer` assumes
one store for its row, with an ID for each webhook; `WebhookDelivery` says how a store comes to be the one, and
how far a delivery is one webhook: its `Add` is `WebhookIngest` or `WebhookNotify` there.

### 2.1 State

**WorkspaceServer.** `mem` is `store.state`; `disk` is the `state_json` column, and since the tag is a
hash of the last saved state it also stands for the tag. A board is a record of
tasks (`exec` is `executionStatus`, with `"absent"` for a task not in the list),
report rows, busy agents and the length of the session log. `runner` holds one
goroutine per slot, with the program point it is at; `client` the browser's copy,
tag and request in flight; `reset` a `/reset` in flight; `outs` is history: the
task each agent output was produced for. `fuel` bounds a run.

**BoardClient.** `row` is what the server holds of each workspace. `tab` is the tab: its `screen`, the
`active` workspace, the last `tag`, what was last `saved`, whether a save is due (`dirty`), whether polling
is `held` back, whether the workspace is loaded (`ready`), and the requests under way (`gets`, `puts`) with
their phases. `stored` is `floffi.activeWorkspace`; `away` is the runs the other device has asked for. History: `tab.base`, the board the cards on the
screen come from; `removed`, what some user took away by hand.

**BrowserSession.** `session` is `refresh_sessions` with its chains; `cookie` and `store` are a browser's
cookies and localStorage; `tab` is each tab, with the cookie a request under way carries (`ask`), its stream,
the row a handler has inserted for it, the revoke marker, the countdown (`warn`), a pending storage event (`news`),
the text in App's form and in the open modal, and the drafts kept in memory (`sessionCache`).
`logouts` are logout requests on their way. History: `missed`, rows that a revocation has missed (it failed, was cut off
with its client, or read before they changed) or has not met yet; `dropped`, sessions whose cookie a late answer
overwrote, whose answer was lost, or whose logout failed to revoke them.

**Accounts.** `account` is the user row with its codes, links and failed attempts; `person` is what each
person has kept (accepted secrets, the saved code); `seat` is a browser, with its screen, its session,
its challenge and, in `doing`, the request it is in: the statement it has come to and what it has read. History: `banned`, whom an
administrator's lock still holds; `missed`, of a seat, that a revocation its session is due for has not come, has failed or came too early; `lost`, that an active administrator went otherwise than by a
guarded request; in `person`, the codes spent and the checks begun after.

**WebhookDelivery.** `row` and `live` are the workspace's `state_json` and `deleted_at`; `seen` is
`webhook_seen_deliveries`; `heap` holds every store built since the process started and `cache` says which of them the registry
has; `req` is the requests being handled, each with the copy of the row or the store it holds; `outbox` is the sender. A board
is told apart by the deliveries and edits made to it; `view` of a request is the snapshot its handler works on. History:
`effects`, how often a delivery was put on the board; `lost`, what was recorded and did not reach the row, or was taken from it by
a load; `taken`, what a replace by an older snapshot has taken out of memory.

**Membership** has the three tables (`ws`, `role`, `invite`), the users (`account`), and one
slot per request in flight (`req`) with what the request has read. The database pool has one
connection, so each statement, and each transaction, is one action.

### 2.2 Actions and code

`map` in `PROJECT.json` gives the lines of each definition. One action of `WorkspaceServer` is one critical
section of the store's lock, plus the lines of the handler that touch nothing shared.

| `WorkspaceServer` | code |
|---|---|
| `WebhookIngest`, `WebhookNotify`, `WriteLog` | `handleWebhookIngest`, `ingestAlarmingPayload` |
| `TaskRun` | `handleTaskRun` up to its activation |
| `Begin`, `Activate`, `Undo`, `CallReturns`, `CallFails`, `DeliverReportStep`, `DeliverNextStep` | `handleTaskRun`, `rerunTask`, one turn of `runWebhookWorkflow` |
| `RetryStuckTasks`, `RecoverOrphaned` | `startStuckTaskScanner`, the orphan watchdog, with their respawns |
| `SetTrust` | `handleReportsSubtree` |
| `TaskReset`, `TaskResetSnapshot`, `TaskResetReplace` | `handleTaskReset` |
| `GetSnapshot`, `GetTag` | GET in `handleWorkspace`, and what the browser does with the answer |
| `PutCheck`, `PutMerge`, `PutReplace`, `PutRespond`, `PutLost` | PUT in `handleWorkspace`, from the browser's edit to its answer |
| `Crash`, `Load` | the end of the process, and `newWorkspaceStoreFromState` |

| `BoardClient` | code |
|---|---|
| `Edit` | every operation of the board's views; `EditsOfKind` in `BoardContent` lists them by kind |
| `Run`, `Launch`, `ResetBoard` | `setTaskExecution("active")`, `createWorkflowTask`, `resetBoard` |
| `Persist`, `SkipPersist`, `PutServe`, `PutAnswer`, `PutRefused`, `PutFails` | the debounced effect and `saveWorkspace`, the server's answer, 412, an error |
| `Poll`, `HoldEnds`, `Serve`, `Answer`, `FetchFails` | `refresh` and its 15 s timer, `fetchWorkspace`, `applyWorkspace` |
| `RunStarts`, `RunEnds`, `RunFails`, `RunBreaks` | `handleTaskRun` up to its call and after it, the 404 and the failures, with the client's rescue fetch |
| `Switch`, `Reload`, `Listed`, `ListFails` | `WorkspaceSwitcher`, `loadWorkspace` |
| `EditElsewhere`, `RunElsewhere`, `RunElsewhereEnds`, `SwitchElsewhere` | another device, whose runs begin and end or fail; another tab of the browser |

| `BrowserSession` | code |
|---|---|
| `RefreshSession`, `HandleSession`, `RefreshFails`, `RotateRefresh`, `AnswerSession` | `refreshSession` and `handleSession`: reuse detection, the transaction of the rotation, and its answer |
| `SubmitLogin`, `IssueRefresh`, `ApplyLastWins`, `AnswerLogin` | `submitLogin` and `handleLogin`: the inserted row, the revocation of the others, the answer |
| `LoseAnswer`, `RequestFails` | an answer that does not arrive, a request that fails |
| `Logout` (by user, idle, absolute, kicked), `HandleLogout`, `ClearCookies`, `LoseLogout` | `logout(reason)`; `handleLogout` with a revocation that works or fails, its cookies, or the request lost |
| `ToggleSingleSession`, `SavePreference`, `ApplyLastWins`, `RevokeSession` | `handleSecurity`: the preference, then the revocation; `onRevokeSession` |
| `LoadWorkspace`, `LoadFails`, `Type`, `CloseTab` | the workspace effect with the drafts of App's form, the form, closing at any time |
| `OpenModal`, `CloseModal`, `TypeInModal` | `ReportModal`, `PlaygroundModal`: hydrated from `sessionCache` at each mount |
| `SessionRevoked`, `Heartbeat`, `Refresh` | the revoke marker, the stream's check, a 401 |
| `BumpActivity`, `HandleStorage`, `TickLogout`, `TickWarn` | `bumpActivity`, `handleStorage`, `tick` |
| `Advance`, `ExpireAccess` | time |

| `Accounts` | code |
|---|---|
| `Signup`, `RefreshSession`, `Logout`, `LoginBegin`, `LoginEnd`, `FailureEnd` | sign-up and sign-in up to and after the password check, `maybeEscalateLock` |
| `LastWins` | the revocation of a user's other sessions, after the new row is inserted |
| `TotpVerify`, `RecoveryBegin`, `RecoveryEnd`, `CancelMFA`, `FiveMinutesPass` | the challenge, `checkRecoveryCode` |
| `OpenSetup`, `EnableBegin`, `EnableEnd`, `Regenerate`, `SaveCodes`, `CloseSetup`, `Disable`, `DisableByCodeBegin` | `TOTPSetupModal`, `SecurityPanel` and their handlers |
| `ForgotPassword`, `ResetBegin`, `SetPassword`, `RevokeSessions`, `ReadLock`, `ResetEnd` | the reset link; `handleResetPasswordComplete` from the link it uses up to the lock it lifts |
| `AdminBegin`, `AdminEnd`, `RevokeSessions`, `Delete` | `requireAdmin`, the verbs of `adminUserAction`, `handleDeleteAccount` |
| `CutOff` | a client that goes away between two statements of its request |
| `HourPasses`, `DayPasses` | the windows of the failed attempts |

| `Membership` | code |
|---|---|
| `SignUp`, `CountWorkspaces`, `ListWorkspaces`, `CreateWorkspace`, `ListAfterCreate` | the signup callback, `createWorkspaceForUser`, `ensureUserHasWorkspace` |
| `FindWorkspace`, `FindMember` | `FindMembership`'s two reads, and the checks of the handler that made them |
| `SoftDeleteWorkspace`, `CreateInvitation`, `RemoveMember`, `TransferWorkspaceOwner`, `RemoveNonOwnerMembers` | the write each handler ends with |
| `AcceptInvitation`, `ExpireInvitation` | the one transaction of an acceptance, and time |
| `DeleteAccount` | `DeleteUserByID` with the cascades of the schema |

| `WebhookDelivery` | code |
|---|---|
| `Ingest`, `MemberRequest` | `handleWebhookIngest` and `resolveActiveWorkspace` up to the workspace's row |
| `Lookup`, `ReadRow`, `Construct`, `Publish`, `Forget` | `workspaceRegistry.For` with the constructor's save, `Forget` |
| `Mark`, `Add`, `Log` | `MarkWebhookDeliverySeen`, `addTask` or `addBossReportOnly`, the session log and the answer |
| `Write` | a method of the store: one lock, one save |
| `Snapshot`, `Replace` | a PUT, `/reset` or renaming: the snapshot (or a reset's copy in the browser) it works on, and the `replace` of the whole state under a lock of its own |
| `Delete`, `Crash` | `handleWorkspaceDelete`, the end of the process |

### 2.3 What is abstracted

**WorkspaceServer**

* A text and a report ID are the number of the output they come from; titles,
  dates, settings, prompts and secrets are left out. The log is a count (its cap
  of 30 is dropped, so a merge takes the longer count).
* `StartedAt` is not a number. A watchdog may find overdue any set of tasks that
  have no goroutine. When `CallsStall` holds, the scanner also finds tasks whose goroutine
  is still waiting for its agent; the orphan watchdog finds a respawn that has not
  activated its task within 15 s (a save that waits for a busy database, under the
  store's lock), as often as the fuel `late` allows. A trashed task may expire at any load or replace.
* Each webhook gets an ID of its own; two in one millisecond share one in the code.
* An agent call returns a text or fails, at any time. Its retries and the quota
  are part of the call.
* There is one browser, which refetches when it likes and issues one request at a time; an answer
  may be lost, and an aborted PUT is one whose answer is lost. Requests that overlap are in `BoardClient`.
* An answer to `/reset` takes tag and snapshot at once.

**BoardContent, BoardClient**

* Texts are told apart by how often they were rewritten; one provider, channel and choice stands for all;
  dates and colours are left out. `frame.of` says for which workspace the content was written.
* A PUT is handled in one step, and the tag and body of an answer arrive in one step; the
  windows between them are in `WorkspaceServer`. A failed check of the tag, an error and a lost answer are apart.
* Reports are left out, and with them the requeueing of a finished card that has lost its own, which is in `Workspace`.
* A list of columns or teams has no ID twice: IDs are random, and no operation adds an entry that has one of the others'.
* The tab starts loaded and saved once. The default board's workflow column is taken as removed,
  so that launching a workflow has to put it back. One reset at a time is a bound.
* The other device is in step with the server. Its runs, like the tab's, begin and end in two steps: another run of the card,
  a save or a deletion may come in between. A card that is gone when its run ends changes nothing here (its report is in `Workspace`).

**BrowserSession**

* The clock counts units of the idle watcher; a token expires at any time. The warning's own log-out
  button is left out, because any input, a click too, dismisses the warning first (`idleTimer.ts:118-137`).
  Putting the warning off in mid-sentence is a tick that does not warn.
* `form` is App's form and `modal` the text of the modal that is open; drafts older than a day are a choice. A reopened modal
  takes the draft again, over text saved since (`OpenModal`): nothing in the code says when that should end, and no property forbids it.
* A tab sends one session request at a time; tabs overlap. Audit and device mail between two statements only separate them.
* A sign-in is password only; what else it takes is in `Accounts`.

**Accounts**

* A password is its version, a secret and a set of recovery codes are numbered as they are made, and a person
  knows the secrets the server has once taken a code of. A person saves one code, which stands for the
  set. Right and wrong passwords are two kinds of request.
* A link that expires is one that nobody opens; the thresholds are `Tier1` and `Tier2`.
* `missed` marks a session whose revocation is due and not made, failed or was cut off, or that was issued after a revocation to an
  older password check: the code has no check that would end it. Mails, audit rows and the answer are no steps.

**WebhookDelivery**

* Every request that changes the board adds to the changes made; that a change may take a card away
  is in the other models. `Write` stands for any method of the store, and a request holds its store for one of them; `Snapshot` and `Replace`
  stand for the handlers that write a whole state back. A stale `If-Match` is one way for a PUT to end without a replace.
* The webhook is on and a delivery has news. The sender gives up waiting and repeats when it likes, up to
  `MaxAttempts`, and an answer may not reach it. Records do not expire: they live 24 hours, and by
  `webhook_dedup.go:7-12` the sender stops within one.
* A failing statement changes nothing in the database; a save to a deleted row fails.

**Membership**

* A user is also the e-mail address invited, `Cap` is the cap of every user,
  a request is authenticated with its first read, and requests that a check refuses before
  their first read of these tables, or that change nothing, are left out. A request whose
  client goes away takes no further step. `raced` is history: the workspaces
  whose ownership was transferred while a removal of the new owner was past its check.

## 3. Runs

| run | result | what it shows |
|---|---|---|
| `pipeline` | pass | webhook, two runs of a plain task beside it, an alarm, a trust change, one failing save, one crash anywhere. `RowsBelongToTheirTask`, `OneRowPerPlainTask`, `StepsInOrder`; the store implements `DurableCell` (`WriteThrough`) |
| `watchdog` | pass | goroutines that stall in their call, retries up to the cap, a failing save. `TypeOK`; under fairness the board comes to rest (`BoardComesToRest`) |
| `puts` | pass | every review and task operation (with start, move, the manual close that makes a report in the browser, and a rejection taken back when its run fails), through GET, two PUTs, one reset and a running task, with lost answers; 1.3 million states. `CompletedHasReport`, `RowsBelongToTheirTask` |
| `client` | pass | every operation of the board in a tab over two workspaces, with another device and another tab, requests that overlap, fail and are refused, runs of one card beside each other; 370,000 states. `NothingDangles`: on the server no card refers to a column, team or agent that is gone; `CardsLeaveOnlyByHand`: a save under a matching tag removes no card nobody removed; `CardsAgree`: under fairness tab and server agree on the cards again and again |
| `session` | pass | two tabs of a browser and a device elsewhere, statement by statement, with lost answers and revocations that fail; 500,000 states. `TypeOK`, `OneLiveSession`, `LiveSessionsAreHeld`, `QuietBeforeIdleLogout`, `RestoreKeepsNewText` |
| `accounts` | pass | two people at two browsers, requests that overlap between any two statements, fail or are cut off; 1.2 million states. `TypeOK`, `Administered`, `SecondFactorIsHeld`, `SessionsFollowAccount`, `SpentCodesAreRefused`, `PermanentLockStands` |
| `membership` | pass | signup to account deletion, two requests at a time. `OneOwner`: both tables name the same owner; `OrphanedOnlyByRace`: the owner stays a member but for one race; `CapOverrunIsBounded`: counts and inserts that interleave overrun the cap by at most the other requests; `JoiningSpendsAnInvitation` |
| `deliveries` | pass | two deliveries whose attempts overlap and repeat, a member's write or replace, first touches at once, a deletion, two failing saves or crashes; 1.2 million states. `AtMostOnce`; `DeliveredIsOnTheBoard`: what was acknowledged is there, but for the losses named; `RowForgetsOnlyToOlderCopies`: only an overtaken load or a replace by an older snapshot takes anything out of the row |
| `stale_step` | violation | a stalled goroutine and its respawn: the slower one moves the workflow back to an earlier step |
| `kicks_self` | violation | switching the single session option on, or signing in under it, signs out the browser whose session was to survive as well |
| `workspaces_mix` | violation | a reset during a switch of workspaces writes the old workspace's board into the new one |
| `columns_lost` | violation | a refresh adopts the server's tag without its columns; the next save passes `If-Match` and removes a column another device has added |

The four violations are disagreements with what the code's own comments and documents say; each is
quoted under `findings`. Several passing properties name the one way round a guard that remains (`raced` of `Membership`,
`missed`, `dropped`, `taken`, `lost`, `resetup`, `DecidedBefore`): they say that it is the only one.

What these leave open is worth knowing. A report delivered between
the snapshot a PUT merges with and its `replace` (`workspace_api.go:53`, `71`) is gone afterwards, and so is an acknowledged delivery: the properties of
`puts` say only that the board is consistent then, those of `deliveries` that it is in `taken`. A delivery whose first attempt fails or dies between record
and save is answered as a duplicate for ever after, and never processed. A load that has lost the race to
publish its store has already written the board it read over the row, which a crash before the next save makes the board again. A new password,
a lock or a sign-in under the single session option leaves the older sessions live when the statement that revokes them fails or its client goes
away (`missed`), and an answer lost after the commit of a login or rotation leaves a live row that no browser holds (`dropped`).

**Bounds.** The runs of `WorkspaceServer` have one plain task, one workflow and two agents. One plain task is enough
to meet every rule for plain tasks (their reports are kept apart by task, and the
rules do not relate two tasks except through report IDs, which a workflow shares
with it); a workflow of two steps has a first and a last one, and `stale_step`
needs a third to show a step taken back. `MaxRetries` is 1: below, at and beyond the cap. `Fuel` gives each
kind of event (ingest, run, output, get, put,
save failure, crash, trust change, reset, late respawn) a number of occurrences; the amounts are
the operators ending in `Fuel` in `MCWorkspaceServer`. Each run has at least two of
the events whose order its properties are about (two runs of the
plain task, two PUTs, an ingest beside a run) and one of each fault. `MaxRunners` bounds the
goroutines at a time: three in `pipeline` (the workflow and two runs of the plain
task), two elsewhere (a run and its respawn, or both tasks); an event that needs a slot waits for one.
When the fuel is spent the system stops, so the runs do not check for deadlock.

`client` allows two events (edits, runs, launches, switches, failures, edits and runs elsewhere) of the kinds in
`Combined`, in any order, or one event alone of any other kind, with the polls, saves and answers that
follow unbounded; `MaxFetches` is the number of fetches under way at a time, beside those of a load or a refused save. Moving a card, assigning work,
a run, a reload and a failure combine: they write cards from both sides, replace the screen, or lose an answer.
Of the others each is met by every order of its own requests. `workspaces_mix` and `columns_lost` have just the two
kinds they need.

`session` has one user, three refresh sessions, two requests or mishaps, and a clock of four with an idle limit of 1, a warning of 1
and a ceiling of 3, so that idle and absolute logouts both happen; `kicks_self` puts the second tab on the other
device and has three requests. Three sessions are that of the device elsewhere and two of the browser,
one and its rotation or its rival. The tabs are symmetric.

`accounts` has two people, two seats, three requests and failures together, thresholds of 2 and 3 failed attempts, one password change, two
secrets, two codes and one link each; people start in any mixture of signed in, enrolled, administrator, single session and with a
link in their mail, so that three requests reach an overlap of two and what follows it.

`deliveries` has two deliveries, one edit, two requests at a time, two attempts each and two faults. Two
requests are every race of two loads, or of a first attempt and its repetition; the second delivery
is the one that an overtaken load or a replace takes from the row.

`membership` has two users, three workspaces, one invitation, a cap of 1, two
requests at a time and five in all. Two requests are every race there is between a check and
another's write; five reach a create, an invitation, its acceptance, and two racing requests after it.
A third user adds no case: each rule relates one user, the owner and one workspace. In all these runs nothing more happens when the
requests are used up, hence no deadlock check.

**Interrupted tasks.** `pipeline` has `CallsStall = FALSE`: watchdogs find tasks whose goroutine is gone
(a failed save, a crash). `watchdog` and `stale_step` let goroutines outlast the
threshold. `StepsInOrder` and `OneRowPerPlainTask` say nothing of runs in which a
browser writes its own copy back, which may legitimately move a card.

**Fairness.** `FairSpec` of `WorkspaceServer` has weak fairness of each goroutine's next step, since a
goroutine is never blocked for ever: the agent calls are under contexts of 120 or 180 s and a workflow under
one of 15 min. It has weak fairness, per task, of the watchdogs, which are
tickers. Nothing is assumed of users, webhooks, crashes or saves. `BoardComesToRest` depends on
late respawns being finitely many: a respawn that activates its task after the
orphan watchdog has released it, with its count reset, starts the count anew, so respawns
that are late for ever and calls that always stall would go on for ever.

`BoardClient` has weak fairness of the debounce, the 15 s timer, the end of the polling pause, and of the
server's and the tab's part of each kind of request. Nothing is assumed of users, and a request may fail as long as the events last. `CardsAgree` is
conditional on `<>[]NoOverlap`: from some time on a fetch and a save are not under way together, as when a fetch is
shorter than the debounce of 250 ms. Without it a poll that is answered with the old board and a save of the new one
can go on swapping the two for ever, which TLC shows. That every card is visible in the end is false: a
card whose column the tab does not have is drawn nowhere, and columns are not refreshed (see `columns_lost`).

## 4. Proofs

Assumptions, all named in the modules. `WorkspaceServer`: there is a task, `Workflow` is a set of
tasks, every plan is a non-empty sequence of agents, `MaxRetries` and `MaxRunners` are
naturals, `NoTask` is not a task, `CallsStall` is a Boolean, `EditKinds` names known
operations, `Fuel` gives each kind a natural. `WebhookDelivery`: deliveries, edits and `Nobody` are
different things, bounds are naturals. `Membership`: there is a user, bounds and cap are naturals.
`BrowserSession`: every tab has a browser, `NoUser` is no user, limits are naturals. `Accounts`: `NoUser` is no user,
the first threshold is positive and at most the second, bounds are naturals. `BoardContent`: the default and the workflow's
columns are non-empty lists without an ID twice, a workflow has an agent per step, the default team is a team, and
`Nobody` is no agent and no team. `BoardClient`: `Home` is a workspace, each workspace has a first card, the kinds of events
are known ones, bounds are naturals. So the theorems hold for any
bound: the bounds of the runs are none of theirs.

* **`TypeCorrect`**: `Spec => []TypeOK` of `WorkspaceServer`. `TypeOK` is inductive as it stands,
  given that each store method and board operation keeps `WorkspaceState`. The hard parts are the retry count, which only the watchdog
  passes raise and only below the cap, and the plan lookups at a task's step.
* **`StoreWritesThrough`**: `Spec => WriteThrough`. Each step saves, fails to save,
  crashes, reopens or leaves the cell alone. This needs the invariant that nothing is
  in flight while the process is down: otherwise a goroutine of a dead process could save.
* **`ReportsBelong`**: `Spec => []RowsBelongToTheirTask`. Inductive together with
  `TypeOK`, because it speaks of every copy anybody holds: memory, row, the browser's
  copies, the reset's snapshot. It is shown kept by each
  method, operation, refresh and merge, and by an output joining the history.
* **`FinishedTasksHaveReports`**: `Spec => []CompletedHasReport`, by induction
  with `TypeOK` and `RowsBelongToTheirTask`: a delivery rewrites the row its card
  links to, and only because that row is the same task's does no other task lose its
  report by it. A replace needs no assumption on what is written: normalizing
  requeues every finished task that has no report.
* **`PlainTasksHaveOneRow`** and **`WorkflowStepsInOrder`**: `OneRowPerPlainTask` and `StepsInOrder`. Both
  speak of runs without a PUT or a reset. `StaysQuiet` says what those keep: nothing is in the trash, so no
  restart drops a card; no request is about to write a copy back; each goroutine's task is on the
  board; no card has an unused ID. For the first, what remains is one board: rows and link of each plain
  task name each other, in memory and in the row; a delivery writes only rows of its own task, by `RowsBelongToTheirTask`.
  It holds with any number of goroutines per task and with calls that stall. For the second, the strengthening is that a workflow has
  one goroutine at a time, and that this goroutine holds the step its card stands at from reading it to delivering it.
  The theorem assumes `~CallsStall` and `Fuel["late"] = 0`, for without them a watchdog starts a second goroutine beside the first,
  and `stale_step` shows what comes of it.
* **`OwnersAgree`** and **`OwnerLostOnlyByRace`**: `OneOwner` and
  `OrphanedOnlyByRace` of `Membership`. Neither is inductive. The invariant adds that a workspace without a row
  has no members (else a new workspace would inherit some) and `RemovalsMissTheOwner`:
  a removal past its first read either noted the present owner, and so will refuse, or does
  not aim at the owner; past its check it does not aim at the owner at all. A transfer is the
  only step that can break this, and then it is the race that `raced` records.
* **`CapNearlyHolds`**: `CapOverrunIsBounded`, by counting. A user's workspaces and the inserts of this user's requests that
  have passed the count are together at most `Cap + MaxRequests - 1`: a request that passes it finds fewer workspaces
  than the cap, and at most `MaxRequests - 1` others can be past it.
* **`InvitationsAreSpent`**: `JoiningSpendsAnInvitation`, step by step: only an acceptance makes a member of somebody
  without a row, and it uses up an invitation; what the other requests write is an owner's row or a demotion, or takes rows away.
* **`DeliveriesAreNotRepeated`, `DeliveredIsKept`, `OnlyOlderCopiesForget`**: the properties of `WebhookDelivery`. The invariant has
  three parts. `RecordedFirst`: what was put on the board or is about to be has been recorded, and a delivery is in the
  hands of one attempt at most. `OneStore`: while the workspace is there, whoever holds a store holds the one in the registry, which
  contains the row but for what a replace has taken out; and what a load has read is the row exactly until some load is published, and part of the
  published store, with the same exception, from then on. `SeenIsStored`: what is recorded is in the row, lost, taken by an older copy, or in the hands of an attempt. `OneStore` is what `WorkspaceServer`
  takes for granted.
* **`SessionTypes`, `SessionsAreHeld`, `LastSignInWins`, `CountdownEndsInSilence`, `DraftsReplaceNoNewText`**: the
  properties of `BrowserSession`, from one invariant in two halves. `Tabs` says of each tab by itself what its
  program point, countdown, pending news and typed text have to do with the stamps of its browser; a tab
  that counts down and has no news pending began to count after the last activity. `Rows` says that each live session is in a cookie, on its way
  to one or dropped, that the rows cookies, answers and logouts name exist and have ended where a statement has ended them, and that a user of the option has
  no two live sessions that missed no revocation: while a revocation is due, the rows it is to end are in `missed`. Neither half needs the other
  but for the types.
* **`AccountsTypes`, `AnAdministratorIsLeft`, `SecondFactorIsProved`, `SessionsFollow`, `CodesWorkOnce`,
  `PermanentMeansPermanent`**: the properties of `Accounts`. The invariant speaks of each user's row beside what the person
  keeps (`UserSound`: codes that count and codes taken are disjoint, and new codes are new), and of each seat with the
  request it is in (`SeatSound`, `RequestSound`: what a request has read was true once, and what its write depends on still is,
  as that a recovery code in flight was among the codes made, or that a lock or demotion of an administrator has counted another one).
  A step that takes nothing away (`Steady`) keeps every seat sound; the others (a new password, a lock, a deletion) must leave the seats
  they concern signed out or due for a revocation (`Owing`), which is what `OwingNoticesNothing` asks of them; the revocation itself, a later statement,
  may fail, and then they stay marked. `PermanentMeansPermanent` is about steps: all but three
  handlers leave a permanent lock alone, and those three have decided before it was there or are the unlock.
* **`ClientTypes`, `NothingIsLeftDangling`, `CardsStay`**: `TypeOK`, `NothingDangles` and `CardsLeaveOnlyByHand` of
  `BoardClient`, from one invariant, `IInv`. About the rows it says that each refers to nothing that is not there and
  has no unused ID (`RowInv`); about the screen, that it has lost no card of the board it comes from (`base`) but what was removed
  by hand (`TabInv`); about a PUT (`PutOK`), that its body has lost nothing else of its tag, unless the two are torn, and that the
  screen has lost nothing else of its body, unless an answer has come in between. The first of these is what
  `CardsStay` needs: a PUT is merged only when the row is its tag. The rest keeps it true: what an answered save makes the
  base of the screen is the result of the merge, with the cards of the body and those that run on the server. Those of an untorn PUT
  are in its tag; a torn one has as its tag the result of an earlier save, which `normalizeWorkspaceState` has requeued, so nothing runs
  there (`Idle`). That a list has no ID twice after an edit needs that new entries have unused IDs, hence what every screen, request
  and row has to do with `fresh` (`SpentOn`).
* **`RowsStayApartWithoutSwitching`**: while neither this tab nor another one switches, each row stays that of its
  workspace, through saves, resets, reloads, late answers and failures. `workspaces_mix` shows that it is false with switching, so
  nothing but switching brings that finding about.

`Only`, the filter of a list, is a recursive function: what it returns for every list is shown by way of the least
length that is an exception (`LeastNat`, from the well-foundedness of the naturals), which needs no operator as a parameter.

**Model-checked only.** `BoardComesToRest` and `CardsAgree` are liveness under fairness, which the prover does not do. The violations are TLC traces.

## 5. Plan

What a continuation would add, in order of weight; each needs an MC module, a run, mutants and where it says so a proof.

1. `AgentCalls`: semaphore, daily quota, retries. Calls in flight bounded, by proof; the quota at midnight.
2. `WebhookDelivery` with several workspaces and the search index, whose row is written after the board's.

## 6. Not modelled

* **Agent limiter and quota**: a small state machine of its own, in the plan above.
* **Of webhooks**: the expiry of a record, and requests without a delivery ID, which skip the record.
* **Search index, memories, attachments, bootstrap, playground, logging, command line**: recomputed data, file I/O and one-shot imports that no other part reads back.
* **Rendering, themes, preferences, markdown, prompts and provider protocols**: no state another part depends on. Edits of a card's,
  column's or team's text, agent roles and collapsed columns are left out of `BoardContent`, since they set one field.
* **Of accounts**: the in-memory rate limiters, e-mail verification, nickname and avatar, the workspace-cap editor, the
  audit log, device notices and mail delivery.
* **Of sessions**: the expiry of a refresh session after its days.
* **Of membership**: renaming, read-only lists, changes of a user's cap, a database that fails.
* **Of the change stream**: full subscriber buffers; a lost event is covered by a client that refetches at any time.
