-------------------------- MODULE WorkspaceServer --------------------------
(***************************************************************************)
(* One workspaceStore of a running server and everything that works on it: *)
(* the goroutines that run tasks (handleTaskRun, rerunTask and             *)
(* runWebhookWorkflow), the two watchdogs that respawn them, the handlers  *)
(* that read, replace and reset the state, one browser that keeps a copy   *)
(* of it, saves that fail, and crashes of the process.                     *)
(*                                                                         *)
(* Every method of the store holds its lock throughout and is one atomic   *)
(* step here; a handler that takes the lock several times is several.      *)
(***************************************************************************)
EXTENDS Board

CONSTANTS
    MaxRunners,  \* bound: goroutines running tasks at the same time
    CallsStall,  \* may a call of the agent outlast the scanner's threshold?
    EditKinds,   \* what the browser's user does
    Fuel         \* bounds: how often each kind of event happens

Kinds ==
    {"ingest", "run", "output", "get", "put", "save", "crash", "trust", "reset", "late"}

ASSUME MaxRunnersAssumption == MaxRunners \in Nat
ASSUME CallsStallAssumption == CallsStall \in BOOLEAN
ASSUME EditKindsAssumption == EditKinds \subseteq BoardEdits
ASSUME FuelAssumption == Fuel \in [Kinds -> Nat]

VARIABLES
    mem,      \* store.state
    disk,     \* workspaces.state_json, and so the state store.etag stands for
    up,       \* is the store loaded in a live process?
    runner,   \* the goroutines running tasks, one per slot
    client,   \* the browser: its copy, the tag it holds, and its PUT in flight
    reset,    \* a handleTaskReset in flight
    unborn,   \* task IDs never used
    outs,     \* outs[n]: the task output or manual close n made a report for (history)
    fuel      \* what is left of Fuel

store == <<mem, disk>>
vars == <<mem, disk, up, runner, client, reset, unborn, outs, fuel>>

Slot == 1 .. MaxRunners
RunnerKind == {"run", "rerun", "workflow"}
RunnerPc == {"free", "noted", "greet", "begin", "start", "activate", "undo", "call",
             "returned", "deliver", "failed"}
ClientPc == {"idle", "reading", "checked", "merged", "saved"}
ResetPc == {"idle", "queued", "snapped"}

(* Idle slots and requests all look alike: what they hold is never read.   *)
AnyTask == CHOOSE t \in Task : TRUE
FreeRunner ==
    [pc |-> "free", kind |-> "run", task |-> AnyTask, step |-> 0,
     agent |-> Plan[AnyTask][1]]
IdleReset == [pc |-> "idle", view |-> EmptyWorkspace]

ETag == disk

---------------------------------------------------------------------------
(* Fuel and saves.                                                         *)

Spend(kinds) ==
    /\ \A k \in kinds : fuel[k] > 0
    /\ fuel' = [k \in Kinds |-> IF k \in kinds THEN fuel[k] - 1 ELSE fuel[k]]

SaveCost(ok) == IF ok THEN {} ELSE {"save"}

(* saveLocked after s.state was changed to new: when persist fails, memory *)
(* keeps the change and the row does not.                                  *)
Store(new, ok) ==
    /\ mem' = new
    /\ disk' = IF ok THEN new ELSE disk

(* replace: a normalized state that hashes like the last saved one is      *)
(* taken for no change.                                                    *)
Replace(next, expired, ok) ==
    LET normalized == NormalizeWorkspaceState(next, expired)
    IN  IF normalized = ETag THEN ok /\ UNCHANGED store
                             ELSE Store(normalized, ok)

---------------------------------------------------------------------------
(* Goroutines.                                                             *)

FreeSlots == {i \in Slot : runner[i].pc = "free"}
Pending(t) ==
    \E i \in Slot : runner[i].pc \notin {"free", "noted"} /\ runner[i].task = t

Goroutine(kind, t, pc) ==
    [pc |-> pc, kind |-> kind, task |-> t, step |-> 0, agent |-> Plan[t][1]]
Rerun(t) == Goroutine(IF t \in Workflow THEN "workflow" ELSE "rerun", t, "begin")

SetRunner(i, r) == runner' = [runner EXCEPT ![i] = r]
Goto(i, pc) ==
    SetRunner(i, IF pc = "free" THEN FreeRunner ELSE [runner[i] EXCEPT !.pc = pc])

NextSlot(i) == i \in FreeSlots /\ \A j \in FreeSlots : i <= j

(* handleWebhookIngest, native payload: the task is created, then the      *)
(* session entry is written and the workflow spawned.  A failed save       *)
(* answers 500: the task stays in memory and nothing runs it.              *)
WebhookIngest(t, ok) ==
    /\ up
    /\ t \in Workflow \cap unborn
    /\ Spend({"ingest"} \cup SaveCost(ok))
    /\ Store(AddTask(mem, t), ok)
    /\ unborn' = unborn \ {t}
    /\ IF ok THEN \E i \in Slot : NextSlot(i) /\ SetRunner(i, Goroutine("workflow", t, "greet"))
             ELSE UNCHANGED runner
    /\ UNCHANGED <<up, client, reset, outs>>

(* ingestAlarmingPayload, low severity: a standalone report, then the      *)
(* session entry; no task is touched.                                      *)
WebhookNotify(ok) ==
    /\ up
    /\ Spend({"ingest"} \cup SaveCost(ok))
    /\ Store(AddBossReportOnly(mem, Len(outs) + 1), ok)
    /\ outs' = Append(outs, NoTask)
    /\ IF ok THEN \E i \in Slot : NextSlot(i) /\ SetRunner(i, Goroutine("run", AnyTask, "noted"))
             ELSE UNCHANGED runner
    /\ UNCHANGED <<up, client, reset, unborn>>

(* handleTaskRun up to the activation: the task and agent are read from a  *)
(* snapshot; only the task's existence is checked.                         *)
TaskRun(t) ==
    /\ up
    /\ Present(mem, t)
    /\ Spend({"run"})
    /\ \E i \in Slot :
        /\ NextSlot(i)
        /\ SetRunner(i, [Goroutine("run", t, "activate") EXCEPT
                            !.step = mem.tasks[t].step, !.agent = mem.tasks[t].agent])
    /\ UNCHANGED <<mem, disk, up, client, reset, unborn, outs>>

(* A session entry of a webhook or between two steps of a workflow; its    *)
(* error is ignored.                                                       *)
AfterLog == [noted |-> "free", greet |-> "begin", start |-> "activate", returned |-> "deliver",
             failed |-> "free"]

WriteLog(i, ok) ==
    /\ runner[i].pc \in DOMAIN AfterLog
    /\ Spend(SaveCost(ok))
    /\ Store(AddSessionLog(mem), ok)
    /\ Goto(i, AfterLog[runner[i].pc])
    /\ UNCHANGED <<up, client, reset, unborn, outs>>

(* rerunTask and each turn of runWebhookWorkflow: step and agent are taken *)
(* from a snapshot and used until the step is delivered.                   *)
Begin(i) ==
    LET t == runner[i].task
    IN  /\ runner[i].pc = "begin"
        /\ IF Present(mem, t)
           THEN SetRunner(i, [runner[i] EXCEPT
                    !.pc = IF runner[i].kind = "workflow" THEN "start" ELSE "activate",
                    !.step = mem.tasks[t].step, !.agent = mem.tasks[t].agent])
           ELSE Goto(i, "free")
        /\ UNCHANGED <<mem, disk, up, client, reset, unborn, outs, fuel>>

(* setTaskExecution(active); when it fails rerunTask tries to requeue, the *)
(* others return.                                                          *)
Activate(i, ok) ==
    LET r == runner[i]
    IN  /\ r.pc = "activate"
        /\ IF Present(mem, r.task)
           THEN /\ Spend(SaveCost(ok))
                /\ Store(SetTaskExecution(mem, r.task, "active", r.agent), ok)
                /\ Goto(i, IF ok THEN "call" ELSE IF r.kind = "rerun" THEN "undo" ELSE "free")
           ELSE /\ ok
                /\ Goto(i, "free")
                /\ UNCHANGED <<mem, disk, fuel>>
        /\ UNCHANGED <<up, client, reset, unborn, outs>>

(* setTaskExecution(queued), its error ignored: after a failed activation  *)
(* and after a failed call of the agent.                                   *)
Requeue(i, ok, from, to) ==
    LET t == runner[i].task
    IN  /\ runner[i].pc = from
        /\ IF Present(mem, t)
           THEN /\ Spend(SaveCost(ok))
                /\ Store(SetTaskExecution(mem, t, "queued", runner[i].agent), ok)
           ELSE ok /\ UNCHANGED <<mem, disk, fuel>>
        /\ Goto(i, to)
        /\ UNCHANGED <<up, client, reset, unborn, outs>>

Undo(i, ok) == Requeue(i, ok, "undo", "free")

CallFails(i, ok) ==
    Requeue(i, ok, "call", IF runner[i].kind = "workflow" THEN "failed" ELSE "free")

CallReturns(i) ==
    /\ runner[i].pc = "call"
    /\ Spend({"output"})
    /\ Goto(i, IF runner[i].kind = "workflow" THEN "returned" ELSE "deliver")
    /\ UNCHANGED <<mem, disk, up, client, reset, unborn, outs>>

(* isLastStep in runWebhookWorkflow looks at the step of the snapshot.     *)
HasNextStep(r) == r.kind = "workflow" /\ r.step < LastStep(r.task)

DeliverReportStep(i, ok) ==
    LET r == runner[i]
    IN  /\ r.pc = "deliver"
        /\ ~HasNextStep(r)
        /\ Spend(SaveCost(ok))
        /\ Store(CompleteTaskWithReport(mem, r.task, r.agent, Len(outs) + 1), ok)
        /\ outs' = Append(outs, r.task)
        /\ Goto(i, "free")
        /\ UNCHANGED <<up, client, reset, unborn>>

DeliverNextStep(i, ok) ==
    LET r == runner[i]
    IN  /\ r.pc = "deliver"
        /\ HasNextStep(r)
        /\ Spend(SaveCost(ok))
        /\ Store(AdvanceWorkflowStep(mem, r.task, r.step + 1), ok)
        /\ Goto(i, IF ok THEN "begin" ELSE "free")
        /\ UNCHANGED <<up, client, reset, unborn, outs>>

---------------------------------------------------------------------------
(* Watchdogs.  A save error is ignored and the respawns happen anyway.     *)

(* StartedAt is past its threshold when the task has lost its goroutine.   *)
(* Otherwise the scanner finds a call that outlasts it, and the orphan     *)
(* watchdog a respawn that is late to activate its task.                   *)
MayBeOverdue(t) == CallsStall \/ ~Pending(t)
LateCost(old) == IF \E t \in old : Pending(t) THEN {"late"} ELSE {}

(* One new goroutine per task of S, in the lowest free slots.              *)
SpawnReruns(S) ==
    \E f \in [S -> FreeSlots] :
        /\ \A t, u \in S : f[t] = f[u] => t = u
        /\ \A t \in S, j \in FreeSlots : j < f[t] => \E u \in S : f[u] = j
        /\ runner' = [i \in Slot |-> IF \E t \in S : f[t] = i
                                     THEN Rerun(CHOOSE t \in S : f[t] = i)
                                     ELSE runner[i]]

RetryStuckTasks(old, ok) ==
    /\ up
    /\ \A t \in old : MayBeOverdue(t)
    /\ old # {} /\ StuckTasks(mem, old) = old
    /\ Spend(SaveCost(ok))
    /\ Store(MarkStuckTasksRetrying(mem, old), ok)
    /\ SpawnReruns(ToRespawn(mem, old))
    /\ UNCHANGED <<up, client, reset, unborn, outs>>

RecoverOrphaned(old, ok) ==
    /\ up
    /\ old # {} /\ OrphanedTasks(mem, old) = old
    /\ Spend(SaveCost(ok) \cup LateCost(old))
    /\ Store(RecoverOrphanedRetrying(mem, old), ok)
    /\ SpawnReruns(ToRespawn(mem, old))
    /\ UNCHANGED <<up, client, reset, unborn, outs>>

---------------------------------------------------------------------------
(* handleReportsSubtree: approve, demote and reset-trust of one report.    *)

SetTrust(id, trust, ok) ==
    /\ up
    /\ RowsWithId(mem, id) # {}
    /\ Spend({"trust"} \cup SaveCost(ok))
    /\ Store(SetReportTrust(mem, id, trust), ok)
    /\ UNCHANGED <<up, runner, client, reset, unborn, outs>>

(* handleTaskReset: requeue the task, then replace the whole state by a    *)
(* snapshot in which the agent is idle.                                    *)
TaskReset(t, ok) ==
    /\ up
    /\ reset.pc = "idle"
    /\ Present(mem, t)
    /\ Spend({"reset"} \cup SaveCost(ok))
    /\ Store(SetTaskExecution(mem, t, "queued", mem.tasks[t].agent), ok)
    /\ reset' = IF ok THEN [reset EXCEPT !.pc = "queued"] ELSE reset
    /\ UNCHANGED <<up, runner, client, unborn, outs>>

TaskResetSnapshot ==
    /\ reset.pc = "queued"
    /\ reset' = [pc |-> "snapped", view |-> mem]
    /\ UNCHANGED <<mem, disk, up, runner, client, unborn, outs, fuel>>

TaskResetReplace(expired, ok) ==
    /\ reset.pc = "snapped"
    /\ Spend(SaveCost(ok))
    /\ Replace(reset.view, expired, ok)
    /\ reset' = IdleReset
    /\ UNCHANGED <<up, runner, client, unborn, outs>>

---------------------------------------------------------------------------
(* The browser.  GET takes the snapshot and the tag under two separate     *)
(* locks; PUT checks the tag, snapshots, merges, replaces and answers      *)
(* under four.                                                             *)

(* sent holds the fetched body, the body of the PUT, then the merged one.  *)
IdleClient(body, tag) ==
    [pc |-> "idle", body |-> body, tag |-> tag, sent |-> EmptyWorkspace,
     edited |-> EmptyWorkspace, reset |-> FALSE]

GetSnapshot ==
    /\ up
    /\ client.pc = "idle"
    /\ Spend({"get"})
    /\ client' = [client EXCEPT !.pc = "reading", !.sent = mem]
    /\ UNCHANGED <<mem, disk, up, runner, reset, unborn, outs>>

(* full: applyWorkspace after a reload or a rejected PUT; otherwise the    *)
(* merge of an SSE refresh.                                                *)
GetTag(full) ==
    /\ client.pc = "reading"
    /\ client' = IdleClient(IF full THEN client.sent ELSE Refresh(client.body, client.sent),
                            ETag)
    /\ UNCHANGED <<mem, disk, up, runner, reset, unborn, outs, fuel>>

(* A PUT whose If-Match is stale answers 412 and changes nothing; resets   *)
(* carry no If-Match.                                                      *)
PutAccepted(kind) ==
    /\ up
    /\ client.pc = "idle"
    /\ kind \in EditKinds
    /\ kind = "reset" \/ client.tag = ETag
    /\ Spend({"put"})
    /\ UNCHANGED <<mem, disk, up, runner, reset>>

Send(kind, edited) ==
    /\ client' = [client EXCEPT !.pc = "checked", !.sent = edited,
                                !.edited = edited, !.reset = (kind = "reset")]
    /\ unborn' = unborn \ OnBoard(edited)

PutCheck(kind) ==
    /\ PutAccepted(kind)
    /\ \E edited \in EditsOfKind(kind, client.body, unborn) : Send(kind, edited)
    /\ UNCHANGED outs

(* The PUT after a manual close, whose report ID and row the browser made. *)
PutClose(t) ==
    /\ PutAccepted("complete")
    /\ t \in Closable(client.body)
    /\ Send("complete", CompleteTask(client.body, t, Len(outs) + 1))
    /\ outs' = Append(outs, t)

PutMerge ==
    /\ client.pc = "checked"
    /\ client' = [client EXCEPT !.pc = "merged",
                                !.sent = IF client.reset THEN @ ELSE MergeWorkspace(mem, @)]
    /\ UNCHANGED <<mem, disk, up, runner, reset, unborn, outs, fuel>>

(* A browser that gets no answer, or an error, keeps its tag.  It rolls    *)
(* back an approved, rejected or restored report and keeps other edits.    *)
KeptCopies ==
    IF client.pc \in {"checked", "merged", "saved"} THEN {client.body, client.edited}
                                                   ELSE {client.body}
Unanswered == \E kept \in KeptCopies : client' = IdleClient(kept, client.tag)

PutReplace(expired, ok) ==
    /\ client.pc = "merged"
    /\ Spend(SaveCost(ok))
    /\ Replace(client.sent, expired, ok)
    /\ IF ok THEN client' = [client EXCEPT !.pc = "saved", !.sent = EmptyWorkspace]
             ELSE Unanswered
    /\ UNCHANGED <<up, runner, reset, unborn, outs>>

(* The browser takes the tag and keeps its own copy, except after a reset. *)
PutRespond ==
    /\ client.pc = "saved"
    /\ client' = IdleClient(IF client.reset THEN mem ELSE client.edited, ETag)
    /\ UNCHANGED <<mem, disk, up, runner, reset, unborn, outs, fuel>>

(* The answer is lost, or the browser aborts the PUT for its next one.     *)
PutLost ==
    /\ client.pc = "saved"
    /\ Unanswered
    /\ UNCHANGED <<mem, disk, up, runner, reset, unborn, outs, fuel>>

---------------------------------------------------------------------------
(* The process dies: memory, goroutines and requests are gone.             *)
Crash ==
    /\ up
    /\ Spend({"crash"})
    /\ up' = FALSE
    /\ mem' = disk
    /\ runner' = [i \in Slot |-> FreeRunner]
    /\ reset' = IdleReset
    /\ Unanswered
    /\ UNCHANGED <<disk, unborn, outs>>

(* Mutant of Load: what normalizing changed is served but not saved.        *)
LoadUnsaved(expired) ==
    /\ ~up
    /\ up' = TRUE
    /\ Store(NormalizeWorkspaceState(disk, expired), FALSE)
    /\ UNCHANGED <<runner, client, reset, unborn, outs, fuel>>

(* newWorkspaceStoreFromState: the state read from the row is normalized   *)
(* and saved; a store whose first save fails is not opened.                *)
Load(expired) ==
    /\ ~up
    /\ up' = TRUE
    /\ Store(NormalizeWorkspaceState(disk, expired), TRUE)
    /\ UNCHANGED <<runner, client, reset, unborn, outs, fuel>>

---------------------------------------------------------------------------
Init ==
    /\ \E plain \in SUBSET (Task \ Workflow) :
        /\ mem = [EmptyWorkspace EXCEPT !.tasks =
                    [t \in Task |-> IF t \in plain THEN NewTask(t) ELSE Absent(t)]]
        /\ unborn = Task \ plain
    /\ disk = mem
    /\ up = TRUE
    /\ runner = [i \in Slot |-> FreeRunner]
    /\ client = IdleClient(mem, mem)
    /\ reset = IdleReset
    /\ outs = <<>>
    /\ fuel = Fuel

RunnerStep(i) ==
    \/ Begin(i)
    \/ CallReturns(i)
    \/ \E ok \in BOOLEAN :
        \/ WriteLog(i, ok)
        \/ Activate(i, ok)
        \/ Undo(i, ok)
        \/ CallFails(i, ok)
        \/ DeliverReportStep(i, ok)
        \/ DeliverNextStep(i, ok)

Webhook == \E ok \in BOOLEAN : WebhookNotify(ok) \/ \E t \in Task : WebhookIngest(t, ok)

Watchdog ==
    \E old \in SUBSET Task, ok \in BOOLEAN :
        RetryStuckTasks(old, ok) \/ RecoverOrphaned(old, ok)

ReportTrust ==
    \E ok \in BOOLEAN, r \in mem.reports, trust \in {"approved", "demoted", "auto"} :
        SetTrust(r.id, trust, ok)

ResetHandler ==
    \/ TaskResetSnapshot
    \/ \E ok \in BOOLEAN :
        \/ \E t \in Task : TaskReset(t, ok)
        \/ \E expired \in SUBSET Trashed(reset.view) : TaskResetReplace(expired, ok)

Browser ==
    \/ GetSnapshot
    \/ \E full \in BOOLEAN : GetTag(full)
    \/ \E kind \in EditKinds \ {"complete"} : PutCheck(kind)
    \/ \E t \in Task : PutClose(t)
    \/ PutMerge
    \/ \E ok \in BOOLEAN, expired \in SUBSET Trashed(client.sent) : PutReplace(expired, ok)
    \/ PutRespond
    \/ PutLost

Restart == \E expired \in SUBSET Trashed(disk) : Load(expired)

Next ==
    \/ Webhook
    \/ \E t \in Task : TaskRun(t)
    \/ \E i \in Slot : RunnerStep(i)
    \/ Watchdog
    \/ ReportTrust
    \/ ResetHandler
    \/ Browser
    \/ Crash
    \/ Restart

Spec == Init /\ [][Next]_vars

Fairness ==
    /\ \A i \in Slot : WF_vars(RunnerStep(i))
    /\ \A t \in Task :
        WF_vars(\E old \in {S \in SUBSET Task : t \in S}, ok \in BOOLEAN :
                    RetryStuckTasks(old, ok) \/ RecoverOrphaned(old, ok))

FairSpec == Spec /\ Fairness

---------------------------------------------------------------------------
(* Properties.                                                             *)

RunnerRecord ==
    [pc : RunnerPc, kind : RunnerKind, task : Task, step : Nat, agent : Agent]

ClientRecord ==
    [pc : ClientPc, body : WorkspaceState, tag : WorkspaceState,
     sent : WorkspaceState, edited : WorkspaceState, reset : BOOLEAN]

TypeOK ==
    /\ mem \in WorkspaceState
    /\ disk \in WorkspaceState
    /\ up \in BOOLEAN
    /\ runner \in [Slot -> RunnerRecord]
    /\ client \in ClientRecord
    /\ reset \in [pc : ResetPc, view : WorkspaceState]
    /\ unborn \in SUBSET Task
    /\ outs \in Seq(Task \cup {NoTask})
    /\ fuel \in [Kinds -> Nat]

(* The store is a write-through cell: whatever the handlers, watchdogs and *)
(* goroutines do, the row only ever takes the value memory holds, a failed *)
(* save leaves the row alone, and a restart serves what was saved.         *)
Cell == INSTANCE DurableCell WITH volatile <- mem, durable <- disk, open <- up
WriteThrough == Cell!Spec

HasItsReport(s, t) ==
    LET task == s.tasks[t]
    IN  task.exec = "completed" /\ ~task.trashed =>
          \/ task.report # 0
          \/ HasNewReport(s, t)
          \/ t \in Workflow /\ IsLastWorkflowStep(t, task)

(* A finished task on the board has its report: the board links it to one, *)
(* or one is waiting in the inbox.  Only a workflow approved into its last *)
(* step is exempt (normalizeWorkspaceState does not recover it).           *)
CompletedHasReport ==
    \A s \in {mem, disk}, t \in Task : HasItsReport(s, t)

(* Every row, and every card's link to a row, belongs to the task whose     *)
(* output or manual close, in the history o, the row was created and last  *)
(* rewritten for.                                                          *)
RowsMatch(rows, o) ==
    /\ \A r \in rows :
        /\ r.id \in 1 .. Len(o) /\ o[r.id] = r.task
        /\ r.text \in 1 .. Len(o) /\ o[r.text] = r.task
    /\ \A r, q \in rows : r.id = q.id => r = q

LinkMatches(t, task, o) ==
    task.report # 0 => task.report \in 1 .. Len(o) /\ o[task.report] = t

CopyMatches(s, o) ==
    /\ RowsMatch(s.reports, o)
    /\ \A t \in Task : LinkMatches(t, s.tasks[t], o)

(* Whoever holds a copy of the workspace, however stale, and whatever is   *)
(* merged from two of them: no report is shown under another task's card,  *)
(* and no two rows share an ID.                                            *)
RowsBelongToTheirTask ==
    \A s \in {mem, disk, client.body, client.sent, client.edited, reset.view} :
        CopyMatches(s, outs)

NoPuts == fuel["put"] = Fuel["put"] /\ fuel["reset"] = Fuel["reset"]

(* "One row per task": however often and however concurrently a plain task *)
(* is run, retried and respawned, its card and the inbox agree on one row. *)
OneRowPerPlainTask ==
    NoPuts =>
        \A t \in Task \ Workflow :
            {r \in mem.reports : r.task = t} = RowsWithId(mem, mem.tasks[t].report)

(* The accumulated context names the steps in order, each at least once,   *)
(* up to the step the task stands at, and the task is held by the agent of *)
(* that step, also on disk and so after a restart.                         *)
StepsInOrder ==
    NoPuts =>
        \A s \in {mem, disk}, t \in Workflow :
            LET task == s.tasks[t]
                ctx == task.ctx
            IN  /\ \A k \in 1 .. Len(ctx) :
                    /\ ctx[k] <= task.step
                    /\ IF k = 1 THEN ctx[k] = 0 ELSE ctx[k] - ctx[k - 1] \in {0, 1}
                /\ task.step > 0 => ctx # <<>> /\ ctx[Len(ctx)] >= task.step - 1
                /\ task.agent = Plan[t][task.step + 1]

(* "The cost cap against runaway loops": once users and webhooks fall      *)
(* silent the board comes to rest.  No task is left active or retrying by  *)
(* a failed save or a lost goroutine, and the watchdogs do not keep        *)
(* respawning runs whose calls stall.                                      *)
BoardComesToRest ==
    <>[](\A t \in Task : ~Executing(mem.tasks[t]))
=============================================================================
