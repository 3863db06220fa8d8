----------------------------- MODULE Workspace -----------------------------
(***************************************************************************)
(* The value a workspaceStore guards (internal/server/workspace.go): the   *)
(* tasks of one board, its boss reports and the status of its agents, and  *)
(* the pure part of every store method that changes it.                    *)
(*                                                                         *)
(* Texts, titles, dates and settings are left out.  A report's text and a  *)
(* report's ID are the number of the output that produced them; the log    *)
(* of sessions is the number of its entries; a task's board section is     *)
(* the Boolean "is in Done".  A StartedAt timestamp is left out too: which *)
(* tasks are past a threshold is a parameter (old, expired).               *)
(***************************************************************************)
EXTENDS Integers, Sequences, FiniteSets

CONSTANTS
    Task,        \* task IDs the board may ever hold
    Workflow,    \* the tasks with WorkflowEnabled
    Agent,       \* team member IDs
    Plan,        \* Plan[t]: the agents of t's WorkflowSteps, in order
    MaxRetries,  \* maxAutoRetries()
    NoTask       \* the empty TaskID of a standalone report

ASSUME TaskAssumption == Task # {}
ASSUME WorkflowAssumption == Workflow \subseteq Task
ASSUME PlanAssumption ==
    /\ Plan \in [Task -> Seq(Agent)]
    /\ \A t \in Task : Len(Plan[t]) >= 1
ASSUME RetriesAssumption == MaxRetries \in Nat
ASSUME NoTaskAssumption == NoTask \notin Task

Exec == {"absent", "queued", "active", "retrying", "completed"}
Trust == {"unset", "auto", "approved", "demoted"}
ReportStatus == {"new", "approved", "rejected"}

LastStep(t) == Len(Plan[t]) - 1

(* exec = "absent" stands for a task that is not in state.Tasks. *)
TaskRecord ==
    [exec : Exec, step : Nat, agent : Agent, ctx : Seq(Nat), report : Nat,
     done : BOOLEAN, retries : 0 .. MaxRetries, trashed : BOOLEAN]

ReportRecord ==
    [id : Nat, task : Task \cup {NoTask}, step : Nat, status : ReportStatus,
     text : Nat, trust : Trust]

WorkspaceState ==
    [tasks : [Task -> TaskRecord], reports : SUBSET ReportRecord,
     busy : SUBSET Agent, log : Nat]

(* A task as the webhook and the board create it. *)
NewTask(t) ==
    [exec |-> "queued", step |-> 0, agent |-> Plan[t][1], ctx |-> <<>>,
     report |-> 0, done |-> FALSE, retries |-> 0, trashed |-> FALSE]

Absent(t) == [NewTask(t) EXCEPT !.exec = "absent"]

EmptyWorkspace ==
    [tasks |-> [t \in Task |-> Absent(t)], reports |-> {}, busy |-> {}, log |-> 0]

Present(s, t) == s.tasks[t].exec # "absent"
Executing(task) == task.exec \in {"active", "retrying"}
IsLastWorkflowStep(t, task) == task.step >= LastStep(t)
HasNewReport(s, t) == \E r \in s.reports : r.task = t /\ r.status = "new"

---------------------------------------------------------------------------
(* Store methods.  t is present in s wherever a task's fields are read.    *)

AddTask(s, t) == [s EXCEPT !.tasks[t] = NewTask(t)]

AddSessionLog(s) == [s EXCEPT !.log = @ + 1]

SetTaskExecution(s, t, status, a) ==
    [s EXCEPT !.tasks[t].exec = status,
              !.busy = IF status = "active" THEN @ \cup {a} ELSE @]

(* Mutant of ReportIdFor: every run of a plain task gets a fresh row.       *)
ReportIdForAlwaysFresh(s, t, n) == n

(* A plain task keeps its report ID across runs, a workflow step gets a    *)
(* fresh one; an existing row is rewritten in place except for its trust.  *)
ReportIdFor(s, t, n) ==
    IF Present(s, t) /\ t \notin Workflow /\ s.tasks[t].report # 0
    THEN s.tasks[t].report ELSE n

RowsWithId(s, id) == {r \in s.reports : r.id = id}

(* Mutant of DeliverReport: the old row stays beside its replacement.       *)
DeliverReportBeside(s, t, id, n) ==
    s.reports \cup {[id |-> id, task |-> t, step |-> s.tasks[t].step,
                     status |-> "new", text |-> n, trust |-> "auto"]}

DeliverReport(s, t, id, n) ==
    LET old == RowsWithId(s, id)
        step == s.tasks[t].step
    IN  IF old = {}
        THEN s.reports \cup {[id |-> id, task |-> t, step |-> step, status |-> "new",
                              text |-> n, trust |-> "auto"]}
        ELSE (s.reports \ old) \cup
             {[r EXCEPT !.task = t, !.step = step, !.status = "new", !.text = n] :
                r \in old}

FinishTask(t, task, id) ==
    [task EXCEPT !.exec = "completed",
                 !.done = @ \/ t \notin Workflow \/ IsLastWorkflowStep(t, task),
                 !.ctx = IF t \in Workflow THEN Append(@, task.step) ELSE @,
                 !.report = id]

CompleteTaskWithReport(s, t, a, n) ==
    LET id == ReportIdFor(s, t, n)
    IN  [s EXCEPT !.tasks[t] = IF Present(s, t) THEN FinishTask(t, @, id) ELSE @,
                  !.busy = @ \ {a},
                  !.reports = DeliverReport(s, t, id, n)]

MoveToStep(t, task, next) ==
    [task EXCEPT !.ctx = Append(@, task.step), !.step = next,
                 !.agent = Plan[t][next + 1], !.exec = "queued", !.report = 0]

AdvanceWorkflowStep(s, t, next) ==
    IF ~Present(s, t) THEN s
    ELSE [s EXCEPT !.tasks[t] = MoveToStep(t, @, next),
                   !.busy = @ \ {s.tasks[t].agent}]

AddBossReportOnly(s, n) ==
    [s EXCEPT !.reports = @ \cup {[id |-> n, task |-> NoTask, step |-> 0,
                                   status |-> "new", text |-> n, trust |-> "unset"]}]

SetReportTrust(s, id, trust) ==
    [s EXCEPT !.reports =
        {IF r.id = id THEN [r EXCEPT !.trust = trust] ELSE r : r \in @}]

---------------------------------------------------------------------------
(* The two watchdog passes.  old: the tasks whose StartedAt is past the    *)
(* threshold.  Tasks at the retry cap go back to the manual queue.         *)

(* Mutant of AtCap: one retry too many.                                     *)
AtCapOffByOne(task) == task.retries > MaxRetries

AtCap(task) == task.retries >= MaxRetries

StuckTasks(s, old) == {t \in old : s.tasks[t].exec = "active"}
OrphanedTasks(s, old) == {t \in old : s.tasks[t].exec = "retrying"}
ToRespawn(s, found) == {t \in found : ~AtCap(s.tasks[t])}

Released(task) == [task EXCEPT !.exec = "queued", !.retries = 0]

(* Mutant of MarkStuckTasksRetrying: retries are not counted.               *)
MarkStuckTasksUncounted(s, old) ==
    LET stuck == StuckTasks(s, old)
    IN  [s EXCEPT !.tasks = [t \in Task |-> IF t \in stuck
                                            THEN [@[t] EXCEPT !.exec = "retrying"]
                                            ELSE @[t]],
                  !.busy = @ \ {s.tasks[t].agent : t \in stuck}]

MarkStuckTasksRetrying(s, old) ==
    LET stuck == StuckTasks(s, old)
        retry(task) == [task EXCEPT !.exec = "retrying", !.retries = @ + 1]
    IN  [s EXCEPT
            !.tasks = [t \in Task |->
                        IF t \notin stuck THEN @[t]
                        ELSE IF AtCap(@[t]) THEN Released(@[t]) ELSE retry(@[t])],
            !.busy = @ \ {s.tasks[t].agent : t \in stuck}]

RecoverOrphanedRetrying(s, old) ==
    LET orphaned == OrphanedTasks(s, old)
        requeue(task) == [task EXCEPT !.exec = "queued", !.retries = @ + 1]
    IN  [s EXCEPT
            !.tasks = [t \in Task |->
                        IF t \notin orphaned THEN @[t]
                        ELSE IF AtCap(@[t]) THEN Released(@[t]) ELSE requeue(@[t])]]

---------------------------------------------------------------------------
(* normalizeWorkspaceState: run on every load and on every replace.        *)
(* expired: the trashed tasks past the retention window.                   *)

(* Mutant of Interrupted: a workflow restarts from its first step.          *)
InterruptedFromScratch(task) ==
    IF Executing(task) THEN [task EXCEPT !.exec = "queued", !.step = 0] ELSE task

Interrupted(task) == IF Executing(task) THEN [task EXCEPT !.exec = "queued"] ELSE task

(* Mutant of IsOrphanCompleted: a reviewed report counts as a waiting one.  *)
IsOrphanCompletedUnreviewed(s, t) ==
    LET task == s.tasks[t]
    IN  /\ ~task.trashed
        /\ task.exec = "completed"
        /\ task.report = 0
        /\ t \in Workflow => ~IsLastWorkflowStep(t, task)
        /\ \A r \in s.reports : r.task # t

IsOrphanCompleted(s, t) ==
    LET task == s.tasks[t]
    IN  /\ ~task.trashed
        /\ task.exec = "completed"
        /\ task.report = 0
        /\ t \in Workflow => ~IsLastWorkflowStep(t, task)
        /\ ~HasNewReport(s, t)

NormalizeTask(s, t, expired) ==
    IF s.tasks[t].trashed /\ t \in expired THEN Absent(t)
    ELSE IF IsOrphanCompleted(s, t) THEN [s.tasks[t] EXCEPT !.exec = "queued"]
    ELSE Interrupted(s.tasks[t])

BackfillTrust(r) == IF r.trust = "unset" THEN [r EXCEPT !.trust = "auto"] ELSE r

NormalizeWorkspaceState(s, expired) ==
    [s EXCEPT !.tasks = [t \in Task |-> NormalizeTask(s, t, expired)],
              !.reports = {BackfillTrust(r) : r \in @},
              !.busy = {}]

---------------------------------------------------------------------------
(* The merge of PUT /api/workspace: srv is the server's snapshot, inc the  *)
(* body the browser sent.                                                  *)

MergeTask(srv, inc) ==
    CASE inc.exec = "absent" /\ ~Executing(srv) -> inc
      [] inc.exec = "absent" /\ Executing(srv)  -> srv
      [] inc.exec # "absent" /\ srv.exec = "absent" -> inc
      [] inc.exec # "absent" /\ Executing(srv) ->
            [inc EXCEPT !.exec = srv.exec, !.done = srv.done, !.step = srv.step,
                        !.ctx = srv.ctx, !.report = srv.report]
      [] OTHER -> [inc EXCEPT !.exec = srv.exec]

MergeTasksServerSide(srv, inc) == [t \in Task |-> MergeTask(srv[t], inc[t])]

(* Mutant of MergeBossReportsServerSide: rows are compared by content.      *)
MergeBossReportsByContent(srv, inc) ==
    inc \cup {r \in srv : r.status = "new" /\ r \notin inc}

MergeBossReportsServerSide(srv, inc) ==
    inc \cup {r \in srv : r.status = "new" /\ \A i \in inc : i.id # r.id}

MergeSessionsServerSide(srv, inc) == IF srv >= inc THEN srv ELSE inc

MergeWorkspace(srv, inc) ==
    [inc EXCEPT !.tasks = MergeTasksServerSide(srv.tasks, @),
                !.reports = MergeBossReportsServerSide(srv.reports, @),
                !.log = MergeSessionsServerSide(srv.log, @)]
=============================================================================
