----------------------- MODULE WorkspaceServerProofs -----------------------
(***************************************************************************)
(* Theorems about WorkspaceServer, for every number of tasks, agents,      *)
(* workflow steps and goroutines, and every amount of fuel: types, the     *)
(* write-through cell, RowsBelongToTheirTask, CompletedHasReport.          *)
(***************************************************************************)
EXTENDS WorkspaceServer, TLAPS

---------------------------------------------------------------------------
(* Every operation on a workspace, by the server or by the browser, turns  *)
(* a well-formed workspace into a well-formed workspace.                   *)

(* Every task has a first agent.                                           *)
LEMMA FirstAgent ==
    ASSUME NEW t \in Task
    PROVE  Plan[t][1] \in Agent
BY PlanAssumption

(* A created task, and the stand-in for a missing one, are task records.   *)
LEMMA NewTaskType ==
    ASSUME NEW t \in Task
    PROVE  NewTask(t) \in TaskRecord /\ Absent(t) \in TaskRecord
<1>1. Plan[t][1] \in Agent
  BY FirstAgent
<1>2. <<>> \in Seq(Nat) /\ 0 \in 0 .. MaxRetries
  BY RetriesAssumption
<1>3. NewTask(t) \in TaskRecord
  BY <1>1, <1>2 DEF NewTask, TaskRecord, Exec
<1>4. Absent(t) \in TaskRecord
  BY <1>3 DEF Absent, TaskRecord, Exec
<1> QED
  BY <1>3, <1>4

(* The empty board is a workspace state.                                   *)
LEMMA EmptyWorkspaceType == EmptyWorkspace \in WorkspaceState
BY NewTaskType DEF EmptyWorkspace, WorkspaceState

(* Replacing one task, or all of them, keeps the workspace well-formed.    *)
LEMMA TaskUpdateType ==
    ASSUME NEW s \in WorkspaceState, NEW t \in Task, NEW task \in TaskRecord
    PROVE  [s EXCEPT !.tasks[t] = task] \in WorkspaceState
BY DEF WorkspaceState

(* Replacing the tasks by task records keeps the type of the state.        *)
LEMMA TasksUpdateType ==
    ASSUME NEW s \in WorkspaceState, NEW f \in [Task -> TaskRecord]
    PROVE  [s EXCEPT !.tasks = f] \in WorkspaceState
BY DEF WorkspaceState

(* Replacing the rows by report records keeps the type of the state.       *)
LEMMA ReportsUpdateType ==
    ASSUME NEW s \in WorkspaceState, NEW R \in SUBSET ReportRecord
    PROVE  [s EXCEPT !.reports = R] \in WorkspaceState
BY DEF WorkspaceState

(* addTask returns a workspace state.                                      *)
LEMMA AddTaskType ==
    ASSUME NEW s \in WorkspaceState, NEW t \in Task
    PROVE  AddTask(s, t) \in WorkspaceState
BY NewTaskType, TaskUpdateType DEF AddTask

(* addSessionLog returns a workspace state.                                *)
LEMMA AddSessionLogType ==
    ASSUME NEW s \in WorkspaceState
    PROVE  AddSessionLog(s) \in WorkspaceState
BY DEF AddSessionLog, WorkspaceState

(* setTaskExecution returns a workspace state.                             *)
LEMMA SetTaskExecutionType ==
    ASSUME NEW s \in WorkspaceState, NEW t \in Task, NEW status \in Exec, NEW a \in Agent
    PROVE  SetTaskExecution(s, t, status, a) \in WorkspaceState
<1> DEFINE task == [s.tasks[t] EXCEPT !.exec = status]
           busy == IF status = "active" THEN s.busy \cup {a} ELSE s.busy
<1>1. s.tasks[t] \in TaskRecord
  BY DEF WorkspaceState
<1>2. task \in TaskRecord
  BY <1>1 DEF TaskRecord
<1>3. SetTaskExecution(s, t, status, a) =
        [s EXCEPT !.tasks = [s.tasks EXCEPT ![t] = task], !.busy = busy]
  BY DEF SetTaskExecution, WorkspaceState
<1>4. busy \in SUBSET Agent
  BY DEF WorkspaceState
<1> HIDE DEF task, busy
<1> QED
  BY <1>2, <1>3, <1>4 DEF WorkspaceState

(* A report's ID is a number.                                              *)
LEMMA ReportIdForType ==
    ASSUME NEW s \in WorkspaceState, NEW t \in Task, NEW n \in Nat
    PROVE  ReportIdFor(s, t, n) \in Nat
<1>1. s.tasks[t] \in TaskRecord
  BY DEF WorkspaceState
<1> QED
  BY <1>1 DEF ReportIdFor, TaskRecord

(* The rows after a delivery are report records.                           *)
LEMMA DeliverReportType ==
    ASSUME NEW s \in WorkspaceState, NEW t \in Task, NEW id \in Nat, NEW n \in Nat
    PROVE  DeliverReport(s, t, id, n) \in SUBSET ReportRecord
<1>1. s.tasks[t].step \in Nat /\ s.reports \subseteq ReportRecord
  BY DEF WorkspaceState, TaskRecord
<1>2. \A r \in s.reports :
        [r EXCEPT !.task = t, !.step = s.tasks[t].step, !.status = "new", !.text = n]
            \in ReportRecord
  BY <1>1 DEF ReportRecord, ReportStatus
<1>3. [id |-> id, task |-> t, step |-> s.tasks[t].step, status |-> "new",
       text |-> n, trust |-> "auto"] \in ReportRecord
  BY <1>1 DEF ReportRecord, ReportStatus, Trust
<1> QED
  BY <1>1, <1>2, <1>3 DEF DeliverReport, RowsWithId

(* A finished task is a task record.                                       *)
LEMMA FinishTaskType ==
    ASSUME NEW t \in Task, NEW task \in TaskRecord, NEW id \in Nat
    PROVE  FinishTask(t, task, id) \in TaskRecord
<1> DEFINE done == task.done \/ t \notin Workflow \/ IsLastWorkflowStep(t, task)
           ctx == IF t \in Workflow THEN Append(task.ctx, task.step) ELSE task.ctx
<1>1. done \in BOOLEAN
  OBVIOUS
<1>2. ctx \in Seq(Nat)
  BY DEF TaskRecord
<1>3. FinishTask(t, task, id) =
        [task EXCEPT !.exec = "completed", !.done = done, !.ctx = ctx, !.report = id]
  BY DEF FinishTask, TaskRecord
<1> HIDE DEF done, ctx
<1> QED
  BY <1>1, <1>2, <1>3 DEF TaskRecord, Exec

(* completeTaskWithReport returns a workspace state.                       *)
LEMMA CompleteTaskWithReportType ==
    ASSUME NEW s \in WorkspaceState, NEW t \in Task, NEW a \in Agent, NEW n \in Nat
    PROVE  CompleteTaskWithReport(s, t, a, n) \in WorkspaceState
<1> DEFINE id == ReportIdFor(s, t, n)
           task == IF Present(s, t) THEN FinishTask(t, s.tasks[t], id) ELSE s.tasks[t]
           rows == DeliverReport(s, t, id, n)
<1>1. id \in Nat /\ s.tasks[t] \in TaskRecord
  BY ReportIdForType DEF WorkspaceState
<1>2. task \in TaskRecord /\ rows \in SUBSET ReportRecord
  BY <1>1, FinishTaskType, DeliverReportType
<1>3. CompleteTaskWithReport(s, t, a, n) =
        [s EXCEPT !.tasks = [s.tasks EXCEPT ![t] = task], !.busy = s.busy \ {a},
                  !.reports = rows]
  BY DEF CompleteTaskWithReport, WorkspaceState
<1> HIDE DEF task, rows
<1> QED
  BY <1>2, <1>3 DEF WorkspaceState

(* A task moved to a step of its plan is a task record.                    *)
LEMMA MoveToStepType ==
    ASSUME NEW t \in Task, NEW task \in TaskRecord, NEW next \in 0 .. LastStep(t)
    PROVE  MoveToStep(t, task, next) \in TaskRecord
<1>1. Append(task.ctx, task.step) \in Seq(Nat)
  BY DEF TaskRecord
<1>2. Plan[t][next + 1] \in Agent /\ next \in Nat
  BY PlanAssumption DEF LastStep
<1> QED
  BY <1>1, <1>2 DEF MoveToStep, TaskRecord, Exec

(* advanceWorkflowStep to a step of the plan returns a workspace state.    *)
LEMMA AdvanceWorkflowStepType ==
    ASSUME NEW s \in WorkspaceState, NEW t \in Task, NEW next \in 0 .. LastStep(t)
    PROVE  AdvanceWorkflowStep(s, t, next) \in WorkspaceState
<1> DEFINE task == MoveToStep(t, s.tasks[t], next)
           busy == s.busy \ {s.tasks[t].agent}
<1>1. s.tasks[t] \in TaskRecord /\ busy \in SUBSET Agent
  BY DEF WorkspaceState
<1>2. task \in TaskRecord
  BY <1>1, MoveToStepType
<1>3. Present(s, t) => AdvanceWorkflowStep(s, t, next) =
        [s EXCEPT !.tasks = [s.tasks EXCEPT ![t] = task], !.busy = busy]
  BY DEF AdvanceWorkflowStep, WorkspaceState
<1>4. ~Present(s, t) => AdvanceWorkflowStep(s, t, next) = s
  BY DEF AdvanceWorkflowStep
<1> HIDE DEF task, busy
<1> QED
  BY <1>1, <1>2, <1>3, <1>4 DEF WorkspaceState

(* addBossReportOnly returns a workspace state.                            *)
LEMMA AddBossReportOnlyType ==
    ASSUME NEW s \in WorkspaceState, NEW n \in Nat
    PROVE  AddBossReportOnly(s, n) \in WorkspaceState
BY DEF AddBossReportOnly, WorkspaceState, ReportRecord, ReportStatus, Trust

(* setReportTrust returns a workspace state.                               *)
LEMMA SetReportTrustType ==
    ASSUME NEW s \in WorkspaceState, NEW id \in Nat, NEW trust \in Trust
    PROVE  SetReportTrust(s, id, trust) \in WorkspaceState
<1>1. \A r \in s.reports : [r EXCEPT !.trust = trust] \in ReportRecord
  BY DEF WorkspaceState, ReportRecord
<1> QED
  BY <1>1, ReportsUpdateType DEF SetReportTrust, WorkspaceState

(* A task at the retry cap is never counted beyond it. *)
LEMMA WatchdogTaskType ==
    ASSUME NEW task \in TaskRecord, NEW exec \in {"queued", "retrying"}
    PROVE  /\ Released(task) \in TaskRecord
           /\ ~AtCap(task) =>
                [task EXCEPT !.exec = exec, !.retries = task.retries + 1] \in TaskRecord
<1>1. task.retries \in Nat /\ 0 \in 0 .. MaxRetries
  BY RetriesAssumption DEF TaskRecord
<1>2. ~AtCap(task) => task.retries + 1 \in 0 .. MaxRetries
  BY <1>1, RetriesAssumption DEF AtCap
<1>3. \A k \in 0 .. MaxRetries : [task EXCEPT !.exec = exec, !.retries = k] \in TaskRecord
  BY DEF TaskRecord, Exec
<1>4. Released(task) \in TaskRecord
  BY <1>1 DEF Released, TaskRecord, Exec
<1> QED
  BY <1>2, <1>3, <1>4

(* The stuck-task pass never counts past the retry cap.                    *)
LEMMA MarkStuckTasksRetryingType ==
    ASSUME NEW s \in WorkspaceState, NEW old \in SUBSET Task
    PROVE  MarkStuckTasksRetrying(s, old) \in WorkspaceState
<1> DEFINE stuck == StuckTasks(s, old)
           after(t) == IF t \notin stuck THEN s.tasks[t]
                       ELSE IF AtCap(s.tasks[t]) THEN Released(s.tasks[t])
                       ELSE [s.tasks[t] EXCEPT !.exec = "retrying",
                                               !.retries = s.tasks[t].retries + 1]
           tasks == [t \in Task |-> after(t)]
           busy == s.busy \ {s.tasks[t].agent : t \in stuck}
<1>1. ASSUME NEW t \in Task PROVE after(t) \in TaskRecord
  <2>1. s.tasks[t] \in TaskRecord
    BY DEF WorkspaceState
  <2> QED
    BY <2>1, WatchdogTaskType
<1>2. MarkStuckTasksRetrying(s, old) = [s EXCEPT !.tasks = tasks, !.busy = busy]
  BY DEF MarkStuckTasksRetrying, WorkspaceState
<1>3. tasks \in [Task -> TaskRecord] /\ busy \in SUBSET Agent
  <2> HIDE DEF after
  <2> QED
    BY <1>1 DEF WorkspaceState
<1> HIDE DEF tasks, busy
<1> QED
  BY <1>2, <1>3 DEF WorkspaceState

(* The orphan pass never counts past the retry cap.                        *)
LEMMA RecoverOrphanedRetryingType ==
    ASSUME NEW s \in WorkspaceState, NEW old \in SUBSET Task
    PROVE  RecoverOrphanedRetrying(s, old) \in WorkspaceState
<1> DEFINE after(t) == IF t \notin OrphanedTasks(s, old) THEN s.tasks[t]
                       ELSE IF AtCap(s.tasks[t]) THEN Released(s.tasks[t])
                       ELSE [s.tasks[t] EXCEPT !.exec = "queued",
                                               !.retries = s.tasks[t].retries + 1]
           tasks == [t \in Task |-> after(t)]
<1>1. ASSUME NEW t \in Task PROVE after(t) \in TaskRecord
  <2>1. s.tasks[t] \in TaskRecord
    BY DEF WorkspaceState
  <2> QED
    BY <2>1, WatchdogTaskType
<1>2. RecoverOrphanedRetrying(s, old) = [s EXCEPT !.tasks = tasks]
  BY DEF RecoverOrphanedRetrying, WorkspaceState
<1>3. tasks \in [Task -> TaskRecord]
  <2> HIDE DEF after
  <2> QED
    BY <1>1
<1> HIDE DEF tasks
<1> QED
  BY <1>2, <1>3, TasksUpdateType

(* normalizeWorkspaceState returns a workspace state.                      *)
LEMMA NormalizeType ==
    ASSUME NEW s \in WorkspaceState, NEW expired
    PROVE  NormalizeWorkspaceState(s, expired) \in WorkspaceState
<1> DEFINE tasks == [t \in Task |-> NormalizeTask(s, t, expired)]
           rows == {BackfillTrust(r) : r \in s.reports}
<1>1. ASSUME NEW t \in Task PROVE NormalizeTask(s, t, expired) \in TaskRecord
  <2>1. s.tasks[t] \in TaskRecord
    BY DEF WorkspaceState
  <2>2. [s.tasks[t] EXCEPT !.exec = "queued"] \in TaskRecord
    BY <2>1 DEF TaskRecord, Exec
  <2> QED
    BY <2>1, <2>2, NewTaskType DEF NormalizeTask, Interrupted
<1>2. \A r \in ReportRecord : BackfillTrust(r) \in ReportRecord
  BY DEF BackfillTrust, ReportRecord, Trust
<1>3. tasks \in [Task -> TaskRecord] /\ rows \in SUBSET ReportRecord
  BY <1>1, <1>2 DEF WorkspaceState
<1>4. NormalizeWorkspaceState(s, expired) =
        [s EXCEPT !.tasks = tasks, !.reports = rows, !.busy = {}]
  BY DEF NormalizeWorkspaceState, WorkspaceState
<1> HIDE DEF tasks, rows
<1> QED
  BY <1>3, <1>4 DEF WorkspaceState

(* A merged task is a task record.                                         *)
LEMMA MergeTaskType ==
    ASSUME NEW srv \in TaskRecord, NEW inc \in TaskRecord
    PROVE  MergeTask(srv, inc) \in TaskRecord
BY DEF MergeTask, Executing, TaskRecord, Exec

(* The merge of two workspace states is one.                               *)
LEMMA MergeWorkspaceType ==
    ASSUME NEW srv \in WorkspaceState, NEW inc \in WorkspaceState
    PROVE  MergeWorkspace(srv, inc) \in WorkspaceState
<1> DEFINE tasks == MergeTasksServerSide(srv.tasks, inc.tasks)
           rows == MergeBossReportsServerSide(srv.reports, inc.reports)
           log == MergeSessionsServerSide(srv.log, inc.log)
<1>1. tasks \in [Task -> TaskRecord]
  BY MergeTaskType DEF MergeTasksServerSide, WorkspaceState
<1>2. rows \in SUBSET ReportRecord /\ log \in Nat
  BY DEF MergeBossReportsServerSide, MergeSessionsServerSide, WorkspaceState
<1>3. MergeWorkspace(srv, inc) = [inc EXCEPT !.tasks = tasks, !.reports = rows, !.log = log]
  BY DEF MergeWorkspace, WorkspaceState
<1> HIDE DEF tasks, rows, log
<1> QED
  BY <1>1, <1>2, <1>3 DEF WorkspaceState

---------------------------------------------------------------------------
(* The browser's operations. *)

(* Marked rows are report records.                                         *)
LEMMA MarkType ==
    ASSUME NEW b \in WorkspaceState, NEW id, NEW status \in ReportStatus
    PROVE  Mark(b, id, status) \in SUBSET ReportRecord
BY DEF Mark, WorkspaceState, ReportRecord

(* Approval moves a card to a step of its plan or to Done.                 *)
LEMMA ApprovedTaskType ==
    ASSUME NEW t \in Task, NEW task \in TaskRecord
    PROVE  ApprovedTask(t, task) \in TaskRecord
<1>1. CASE task.exec # "absent" /\ t \in Workflow /\ ~IsLastWorkflowStep(t, task)
  <2>1. task.step + 2 \in 1 .. Len(Plan[t])
    BY <1>1, PlanAssumption DEF IsLastWorkflowStep, LastStep, TaskRecord
  <2>2. Plan[t][task.step + 2] \in Agent
    BY <2>1, PlanAssumption
  <2> DEFINE step == task.step + 1
             agent == Plan[t][task.step + 2]
  <2>3. ApprovedTask(t, task) =
          [task EXCEPT !.step = step, !.agent = agent,
                       !.exec = "active", !.report = 0, !.done = FALSE]
    BY <1>1 DEF ApprovedTask, TaskRecord
  <2>4. step \in Nat /\ agent \in Agent
    BY <2>2 DEF TaskRecord
  <2> HIDE DEF step, agent
  <2>5. [task EXCEPT !.step = step, !.agent = agent, !.exec = "active",
                     !.report = 0, !.done = FALSE] \in TaskRecord
    BY <2>4 DEF TaskRecord, Exec
  <2> QED
    BY <2>3, <2>5
<1>2. CASE ~(task.exec # "absent" /\ t \in Workflow /\ ~IsLastWorkflowStep(t, task))
  BY <1>2 DEF ApprovedTask, TaskRecord
<1> QED
  BY <1>1, <1>2

(* A rejected card is a task record.                                       *)
LEMMA RejectedTaskType ==
    ASSUME NEW t \in Task, NEW task \in TaskRecord
    PROVE  RejectedTask(t, task) \in TaskRecord
<1> DEFINE done == task.done /\ t \in Workflow
<1>1. done \in BOOLEAN
  OBVIOUS
<1>2. task.exec # "absent" =>
        RejectedTask(t, task) = [task EXCEPT !.exec = "active", !.done = done]
  BY DEF RejectedTask, TaskRecord
<1> HIDE DEF done
<1> QED
  BY <1>1, <1>2 DEF RejectedTask, TaskRecord, Exec

(* Approving and rejecting return workspace states.                        *)
LEMMA ReviewType ==
    ASSUME NEW b \in WorkspaceState, NEW r \in b.reports
    PROVE  ApproveReport(b, r) \in WorkspaceState /\ RejectReport(b, r) \in WorkspaceState
<1> DEFINE approved == [t \in Task |-> IF t = r.task THEN ApprovedTask(t, b.tasks[t])
                                                     ELSE b.tasks[t]]
           rejected == [t \in Task |-> IF t = r.task THEN RejectedTask(t, b.tasks[t])
                                                     ELSE b.tasks[t]]
           yes == Mark(b, r.id, "approved")
           no == Mark(b, r.id, "rejected")
<1>1. approved \in [Task -> TaskRecord] /\ rejected \in [Task -> TaskRecord]
  BY ApprovedTaskType, RejectedTaskType DEF WorkspaceState
<1>2. yes \in SUBSET ReportRecord /\ no \in SUBSET ReportRecord
  BY MarkType DEF ReportStatus
<1>3. /\ ApproveReport(b, r) = [b EXCEPT !.reports = yes, !.tasks = approved]
      /\ RejectReport(b, r) = [b EXCEPT !.reports = no, !.tasks = rejected]
  BY DEF ApproveReport, RejectReport, WorkspaceState
<1> HIDE DEF approved, rejected, yes, no
<1> QED
  BY <1>1, <1>2, <1>3 DEF WorkspaceState

(* Taking a rejection back returns a workspace state.                      *)
LEMMA UnrejectType ==
    ASSUME NEW b \in WorkspaceState, NEW r
    PROVE  UnrejectReport(b, r) \in WorkspaceState /\ UnrejectedOffline(b, r) \in WorkspaceState
<1> DEFINE tasks == [t \in Task |-> IF t = r.task /\ b.tasks[t].exec # "absent"
                                    THEN [b.tasks[t] EXCEPT !.exec = "queued"]
                                    ELSE b.tasks[t]]
           rows == Mark(b, r.id, "new")
<1>1. tasks \in [Task -> TaskRecord]
  BY DEF WorkspaceState, TaskRecord, Exec
<1>2. rows \in SUBSET ReportRecord
  BY MarkType DEF ReportStatus
<1>3. /\ UnrejectReport(b, r) = [b EXCEPT !.reports = rows]
      /\ UnrejectedOffline(b, r) = [b EXCEPT !.reports = rows, !.tasks = tasks]
  BY DEF UnrejectReport, UnrejectedOffline, WorkspaceState
<1> HIDE DEF tasks, rows
<1> QED
  BY <1>1, <1>2, <1>3 DEF WorkspaceState

(* A closed card links a report, and the browser's row is a report record. *)
LEMMA CompleteTaskType ==
    ASSUME NEW b \in WorkspaceState, NEW t \in Task, NEW n \in Nat
    PROVE  CompleteTask(b, t, n) \in WorkspaceState
<1> DEFINE id == CloseReportId(b.tasks[t], n)
           row == [id |-> id, task |-> t, step |-> b.tasks[t].step, status |-> "new",
                   text |-> n, trust |-> "unset"]
           card == [b.tasks[t] EXCEPT !.exec = "completed", !.done = TRUE, !.report = id]
           rows == IF RowsWithId(b, id) = {} THEN b.reports \cup {row} ELSE b.reports
<1>1. b.tasks[t] \in TaskRecord
  BY DEF WorkspaceState
<1>2. id \in Nat
  BY <1>1 DEF CloseReportId, TaskRecord
<1>3. row \in ReportRecord
  <2> HIDE DEF id
  <2> QED
    BY <1>1, <1>2 DEF ReportRecord, TaskRecord, ReportStatus, Trust
<1>4. card \in TaskRecord
  <2> HIDE DEF id
  <2> QED
    BY <1>1, <1>2 DEF TaskRecord, Exec
<1>5. rows \in SUBSET ReportRecord
  BY <1>3 DEF WorkspaceState
<1>6. CompleteTask(b, t, n) = [b EXCEPT !.tasks = [b.tasks EXCEPT ![t] = card], !.reports = rows]
  BY DEF CompleteTask, WorkspaceState
<1> HIDE DEF card, rows
<1> QED
  BY <1>4, <1>5, <1>6 DEF WorkspaceState

(* A card rebuilt from a report stands at a step of its plan.              *)
LEMMA RestoreTaskType ==
    ASSUME NEW b \in WorkspaceState, NEW r \in ReportRecord, r.task \in Task
    PROVE  RestoreTask(b, r) \in WorkspaceState
<1> DEFINE t == r.task
           step == RestoreStep(r)
           agent == Plan[t][step + 1]
           task == [NewTask(t) EXCEPT !.step = step, !.agent = agent]
<1>1. step \in Nat /\ step + 1 \in 1 .. Len(Plan[t])
  BY PlanAssumption DEF RestoreStep, LastStep, ReportRecord
<1>2. agent \in Agent
  BY <1>1, PlanAssumption
<1> HIDE DEF step, agent
<1>3. task \in TaskRecord
  BY <1>1, <1>2, NewTaskType DEF TaskRecord
<1> HIDE DEF task
<1> QED
  BY <1>3, TaskUpdateType DEF RestoreTask, task, step, agent

(* The edits of one card return workspace states.                          *)
LEMMA CardEditType ==
    ASSUME NEW b \in WorkspaceState, NEW t \in Task
    PROVE  /\ CreateTask(b, t) \in WorkspaceState
           /\ DeleteTask(b, t) \in WorkspaceState
           /\ RestoreDeletedTask(b, t) \in WorkspaceState
           /\ PurgeTask(b, t) \in WorkspaceState
           /\ MoveTask(b, t) \in WorkspaceState
           /\ StartTask(b, t) \in WorkspaceState
<1> DEFINE gone == [b.tasks[t] EXCEPT !.trashed = TRUE]
           back == [b.tasks[t] EXCEPT !.trashed = FALSE]
           moved == [b.tasks[t] EXCEPT !.done = ~b.tasks[t].done]
           again == b.tasks[t].exec = "completed" /\ b.tasks[t].done
           done == b.tasks[t].done /\ ~again
           step == IF again /\ t \in Workflow THEN 0 ELSE b.tasks[t].step
           started == [b.tasks[t] EXCEPT !.exec = "active", !.done = done, !.step = step]
<1>1. b.tasks[t] \in TaskRecord
  BY DEF WorkspaceState
<1>2. gone \in TaskRecord /\ back \in TaskRecord /\ moved \in TaskRecord
  BY <1>1 DEF TaskRecord
<1>3. started \in TaskRecord
  <2>1. done \in BOOLEAN /\ step \in Nat
    BY <1>1 DEF TaskRecord
  <2> HIDE DEF done, step
  <2> QED
    BY <1>1, <2>1 DEF TaskRecord, Exec
<1>4. /\ DeleteTask(b, t) = [b EXCEPT !.tasks = [b.tasks EXCEPT ![t] = gone]]
      /\ RestoreDeletedTask(b, t) = [b EXCEPT !.tasks = [b.tasks EXCEPT ![t] = back]]
      /\ MoveTask(b, t) = [b EXCEPT !.tasks = [b.tasks EXCEPT ![t] = moved]]
  BY DEF DeleteTask, RestoreDeletedTask, MoveTask, WorkspaceState
<1>5. StartTask(b, t) = [b EXCEPT !.tasks = [b.tasks EXCEPT ![t] = started]]
  BY <1>1 DEF StartTask, WorkspaceState, TaskRecord
<1>6. ASSUME NEW card \in TaskRecord
      PROVE  [b EXCEPT !.tasks = [b.tasks EXCEPT ![t] = card]] \in WorkspaceState
  BY DEF WorkspaceState
<1>7. /\ DeleteTask(b, t) \in WorkspaceState /\ RestoreDeletedTask(b, t) \in WorkspaceState
      /\ MoveTask(b, t) \in WorkspaceState /\ StartTask(b, t) \in WorkspaceState
  <2> HIDE DEF gone, back, moved, started
  <2> QED
    BY <1>2, <1>3, <1>4, <1>5, <1>6
<1> QED
  BY <1>7, NewTaskType, TaskUpdateType DEF CreateTask, PurgeTask

(* The edits of many cards return workspace states.                        *)
LEMMA BulkEditType ==
    ASSUME NEW b \in WorkspaceState
    PROVE  /\ ClearDone(b) \in WorkspaceState
           /\ ClearInbox(b) \in WorkspaceState
           /\ TrashAll(b) \in WorkspaceState
<1> DEFINE kept == [t \in Task |-> IF b.tasks[t].done THEN Absent(t) ELSE b.tasks[t]]
           trashed == [t \in Task |-> IF b.tasks[t].exec = "absent" THEN b.tasks[t]
                                      ELSE [b.tasks[t] EXCEPT !.trashed = TRUE]]
<1>1. \A t \in Task : b.tasks[t] \in TaskRecord
  BY DEF WorkspaceState
<1>2. kept \in [Task -> TaskRecord]
  BY <1>1, NewTaskType
<1>3. trashed \in [Task -> TaskRecord]
  BY <1>1 DEF TaskRecord
<1>4. /\ ClearDone(b) = [b EXCEPT !.tasks = kept]
      /\ TrashAll(b) = [b EXCEPT !.tasks = trashed]
  BY DEF ClearDone, TrashAll, WorkspaceState
<1>5. ClearInbox(b) \in WorkspaceState
  BY ReportsUpdateType DEF ClearInbox, WorkspaceState
<1> HIDE DEF kept, trashed
<1> QED
  BY <1>2, <1>3, <1>4, <1>5, TasksUpdateType

(* Every operation of the board returns a workspace state.                 *)
LEMMA EditsType ==
    ASSUME NEW kind \in BoardEdits \ {"complete"}, NEW b \in WorkspaceState,
           NEW unused \in SUBSET Task
    PROVE  EditsOfKind(kind, b, unused) \subseteq WorkspaceState
<1>1. NewReports(b) \subseteq b.reports
  BY DEF NewReports
<1>2. /\ Trashed(b) \subseteq Task /\ OnBoard(b) \subseteq Task
      /\ Shown(b) \subseteq Task /\ Startable(b) \subseteq Task
  BY DEF Trashed, OnBoard, Shown, Startable
<1>3. b.reports \subseteq ReportRecord
  BY DEF WorkspaceState
<1>4. CASE kind \in {"touch", "approve", "reject"}
  BY <1>1, <1>4, ReviewType DEF EditsOfKind
<1>5. CASE kind = "restore"
  BY <1>3, <1>5, RestoreTaskType DEF EditsOfKind
<1>6. CASE kind \in {"create", "delete", "undelete", "purge", "move", "start"}
  BY <1>2, <1>6, CardEditType DEF EditsOfKind
<1>7. CASE kind \in {"clear", "reset"}
  BY <1>7, BulkEditType DEF EditsOfKind
<1>8. CASE kind = "unreject"
  BY <1>8, UnrejectType DEF EditsOfKind
<1> QED
  BY <1>4, <1>5, <1>6, <1>7, <1>8 DEF BoardEdits

(* A refresh returns a workspace state.                                    *)
LEMMA RefreshType ==
    ASSUME NEW local \in WorkspaceState, NEW srv \in WorkspaceState
    PROVE  Refresh(local, srv) \in WorkspaceState
<1> DEFINE tasks == [t \in Task |-> RefreshTask(local.tasks[t], srv.tasks[t])]
<1>1. ASSUME NEW t \in Task
      PROVE  RefreshTask(local.tasks[t], srv.tasks[t]) \in TaskRecord
  <2>1. local.tasks[t] \in TaskRecord /\ srv.tasks[t] \in TaskRecord
    BY DEF WorkspaceState
  <2> QED
    BY <2>1 DEF RefreshTask, TaskRecord
<1>2. tasks \in [Task -> TaskRecord]
  BY <1>1
<1>3. Refresh(local, srv) =
        [local EXCEPT !.tasks = tasks, !.reports = srv.reports, !.log = srv.log]
  BY DEF Refresh, WorkspaceState
<1> HIDE DEF tasks
<1> QED
  BY <1>2, <1>3 DEF WorkspaceState

---------------------------------------------------------------------------
(* Types, and the cell.                                                    *)

(* The task an idle slot names is a task.                                  *)
LEMMA AnyTaskType == AnyTask \in Task
BY TaskAssumption DEF AnyTask

(* Idle slots and requests have the type of busy ones.                     *)
LEMMA IdleTypes ==
    /\ FreeRunner \in RunnerRecord
    /\ IdleReset \in [pc : ResetPc, view : WorkspaceState]
    /\ \A body, tag \in WorkspaceState : IdleClient(body, tag) \in ClientRecord
<1>1. Plan[AnyTask][1] \in Agent
  BY AnyTaskType, FirstAgent
<1>2. FreeRunner \in RunnerRecord
  BY <1>1, AnyTaskType DEF FreeRunner, RunnerRecord, RunnerPc, RunnerKind
<1>3. IdleReset \in [pc : ResetPc, view : WorkspaceState]
  BY EmptyWorkspaceType DEF IdleReset, ResetPc
<1>4. \A body, tag \in WorkspaceState : IdleClient(body, tag) \in ClientRecord
  BY EmptyWorkspaceType DEF IdleClient, ClientRecord, ClientPc
<1> QED
  BY <1>2, <1>3, <1>4

(* A new goroutine is a runner record.                                     *)
LEMMA GoroutineType ==
    ASSUME NEW kind \in RunnerKind, NEW t \in Task, NEW pc \in RunnerPc
    PROVE  Goroutine(kind, t, pc) \in RunnerRecord /\ Rerun(t) \in RunnerRecord
<1>1. Plan[t][1] \in Agent
  BY FirstAgent
<1> QED
  BY <1>1 DEF Goroutine, Rerun, RunnerRecord, RunnerKind, RunnerPc

(* Fuel stays a natural number.                                            *)
LEMMA SpendType ==
    ASSUME fuel \in [Kinds -> Nat], NEW kinds, Spend(kinds)
    PROVE  fuel' \in [Kinds -> Nat]
BY DEF Spend

(* saveLocked keeps the types of memory and row.                           *)
LEMMA StoreType ==
    ASSUME disk \in WorkspaceState, NEW new \in WorkspaceState, NEW ok, Store(new, ok)
    PROVE  mem' \in WorkspaceState /\ disk' \in WorkspaceState
BY DEF Store

(* So does replace.                                                        *)
LEMMA ReplaceType ==
    ASSUME mem \in WorkspaceState, disk \in WorkspaceState,
           NEW next \in WorkspaceState, NEW expired, NEW ok, Replace(next, expired, ok)
    PROVE  mem' \in WorkspaceState /\ disk' \in WorkspaceState
BY NormalizeType, StoreType DEF Replace, store

(* Filling a slot with a runner record keeps the type of the slots.        *)
LEMMA SetRunnerType ==
    ASSUME runner \in [Slot -> RunnerRecord], NEW i \in Slot, NEW r \in RunnerRecord,
           SetRunner(i, r)
    PROVE  runner' \in [Slot -> RunnerRecord]
BY DEF SetRunner

(* So does moving a goroutine to another place.                            *)
LEMMA GotoType ==
    ASSUME runner \in [Slot -> RunnerRecord], NEW i \in Slot, NEW pc \in RunnerPc,
           Goto(i, pc)
    PROVE  runner' \in [Slot -> RunnerRecord]
<1>1. [runner[i] EXCEPT !.pc = pc] \in RunnerRecord
  BY DEF RunnerRecord
<1> QED
  BY <1>1, IdleTypes DEF Goto, SetRunner

(* So does spawning reruns.                                                *)
LEMMA SpawnRerunsType ==
    ASSUME runner \in [Slot -> RunnerRecord], NEW S \in SUBSET Task, SpawnReruns(S)
    PROVE  runner' \in [Slot -> RunnerRecord]
<1>1. PICK f \in [S -> FreeSlots] :
        runner' = [i \in Slot |-> IF \E t \in S : f[t] = i
                                  THEN Rerun(CHOOSE t \in S : f[t] = i)
                                  ELSE runner[i]]
  BY DEF SpawnReruns
<1>2. \A t \in S : Rerun(t) \in RunnerRecord
  BY GoroutineType DEF RunnerKind, RunnerPc
<1>3. \A i \in Slot : (\E t \in S : f[t] = i) => Rerun(CHOOSE t \in S : f[t] = i) \in RunnerRecord
  BY <1>2
<1> QED
  BY <1>1, <1>3

(* The initial state is well typed.                                        *)
LEMMA InitType == Init => TypeOK
<1> SUFFICES ASSUME Init PROVE TypeOK
  OBVIOUS
<1>1. PICK plain \in SUBSET (Task \ Workflow) :
        /\ mem = [EmptyWorkspace EXCEPT !.tasks =
                    [t \in Task |-> IF t \in plain THEN NewTask(t) ELSE Absent(t)]]
        /\ unborn = Task \ plain
  BY DEF Init
<1>2. [t \in Task |-> IF t \in plain THEN NewTask(t) ELSE Absent(t)] \in [Task -> TaskRecord]
  BY NewTaskType
<1>3. mem \in WorkspaceState
  BY <1>1, <1>2, EmptyWorkspaceType, TasksUpdateType
<1> QED
  BY <1>1, <1>3, IdleTypes, FuelAssumption DEF Init, TypeOK

(* One step per action; each follows from the lemmas on the operators the  *)
(* action stores, spends and spawns with.                                  *)
LEMMA RunnerStepType ==
    ASSUME TypeOK, NEW i \in Slot, RunnerStep(i)
    PROVE  TypeOK'
<1> USE DEF TypeOK
<1> DEFINE r == runner[i]
<1>1. r \in RunnerRecord /\ r.task \in Task /\ r.agent \in Agent /\ r.step \in Nat
  BY DEF RunnerRecord
<1>2. mem.tasks[r.task] \in TaskRecord
  BY <1>1 DEF WorkspaceState
<1>3. CASE Begin(i)
  <2>1. runner' \in [Slot -> RunnerRecord]
    <3> DEFINE task == mem.tasks[r.task]
               pc == IF r.kind = "workflow" THEN "start" ELSE "activate"
    <3>1. task.step \in Nat /\ task.agent \in Agent /\ pc \in RunnerPc
      BY <1>2 DEF TaskRecord, RunnerPc
    <3> HIDE DEF task, pc
    <3>2. [r EXCEPT !.pc = pc, !.step = task.step, !.agent = task.agent] \in RunnerRecord
      BY <1>1, <3>1 DEF RunnerRecord
    <3>3. Present(mem, r.task) =>
            SetRunner(i, [r EXCEPT !.pc = pc, !.step = task.step, !.agent = task.agent])
      BY <1>3 DEF Begin, task, pc
    <3>4. ~Present(mem, r.task) => Goto(i, "free")
      BY <1>3 DEF Begin
    <3> QED
      BY <3>2, <3>3, <3>4, SetRunnerType, GotoType DEF RunnerPc
  <2> QED
    BY <1>3, <2>1 DEF Begin
<1>4. CASE CallReturns(i)
  <2>1. runner' \in [Slot -> RunnerRecord]
    BY <1>4, GotoType DEF CallReturns, RunnerPc
  <2> QED
    BY <1>4, <2>1, SpendType DEF CallReturns
<1>5. ASSUME NEW ok \in BOOLEAN, WriteLog(i, ok) PROVE TypeOK'
  <2>1. AfterLog[r.pc] \in RunnerPc
    BY <1>5 DEF WriteLog, AfterLog, RunnerPc
  <2>2. runner' \in [Slot -> RunnerRecord]
    BY <1>5, <2>1, GotoType DEF WriteLog
  <2> QED
    BY <1>5, <2>2, SpendType, StoreType, AddSessionLogType DEF WriteLog
<1>6. ASSUME NEW ok \in BOOLEAN, Activate(i, ok) PROVE TypeOK'
  <2> DEFINE pc == IF ok THEN "call" ELSE IF r.kind = "rerun" THEN "undo" ELSE "free"
  <2>1. pc \in RunnerPc /\ "free" \in RunnerPc
    BY DEF RunnerPc
  <2>2. Present(mem, r.task) => Goto(i, pc)
    BY <1>6 DEF Activate
  <2>3. ~Present(mem, r.task) => Goto(i, "free")
    BY <1>6 DEF Activate
  <2> HIDE DEF pc
  <2>4. runner' \in [Slot -> RunnerRecord]
    BY <2>1, <2>2, <2>3, GotoType
  <2>5. SetTaskExecution(mem, r.task, "active", r.agent) \in WorkspaceState
    BY <1>1, SetTaskExecutionType DEF Exec
  <2>6. mem' \in WorkspaceState /\ disk' \in WorkspaceState /\ fuel' \in [Kinds -> Nat]
    BY <1>6, <2>5, SpendType, StoreType DEF Activate
  <2> QED
    BY <1>6, <2>4, <2>6 DEF Activate
<1>7. ASSUME NEW ok \in BOOLEAN, NEW from, NEW to \in RunnerPc, Requeue(i, ok, from, to)
      PROVE  TypeOK'
  <2>1. SetTaskExecution(mem, r.task, "queued", r.agent) \in WorkspaceState
    BY <1>1, SetTaskExecutionType DEF Exec
  <2>2. mem' \in WorkspaceState /\ disk' \in WorkspaceState /\ fuel' \in [Kinds -> Nat]
    BY <1>7, <2>1, SpendType, StoreType DEF Requeue
  <2>3. runner' \in [Slot -> RunnerRecord]
    BY <1>7, GotoType DEF Requeue
  <2> QED
    BY <1>7, <2>2, <2>3 DEF Requeue
<1>8. ASSUME NEW ok \in BOOLEAN, DeliverReportStep(i, ok) PROVE TypeOK'
  <2>1. CompleteTaskWithReport(mem, r.task, r.agent, Len(outs) + 1) \in WorkspaceState
    BY <1>1, CompleteTaskWithReportType
  <2>2. runner' \in [Slot -> RunnerRecord]
    BY <1>8, GotoType DEF DeliverReportStep, RunnerPc
  <2>3. outs' \in Seq(Task \cup {NoTask})
    BY <1>1, <1>8 DEF DeliverReportStep
  <2>4. mem' \in WorkspaceState /\ disk' \in WorkspaceState /\ fuel' \in [Kinds -> Nat]
    BY <1>8, <2>1, SpendType, StoreType DEF DeliverReportStep
  <2> QED
    BY <1>8, <2>2, <2>3, <2>4 DEF DeliverReportStep
<1>9. ASSUME NEW ok \in BOOLEAN, DeliverNextStep(i, ok) PROVE TypeOK'
  <2>1. r.step + 1 \in 0 .. LastStep(r.task)
    BY <1>1, <1>9, PlanAssumption DEF DeliverNextStep, HasNextStep, LastStep
  <2>2. AdvanceWorkflowStep(mem, r.task, r.step + 1) \in WorkspaceState
    BY <1>1, <2>1, AdvanceWorkflowStepType
  <2>3. runner' \in [Slot -> RunnerRecord]
    BY <1>9, GotoType DEF DeliverNextStep, RunnerPc
  <2>4. mem' \in WorkspaceState /\ disk' \in WorkspaceState /\ fuel' \in [Kinds -> Nat]
    BY <1>9, <2>2, SpendType, StoreType DEF DeliverNextStep
  <2> QED
    BY <1>9, <2>3, <2>4 DEF DeliverNextStep
<1>10. ASSUME NEW ok \in BOOLEAN, Undo(i, ok) \/ CallFails(i, ok) PROVE TypeOK'
  BY <1>7, <1>10 DEF Undo, CallFails, RunnerPc
<1> QED
  BY <1>3, <1>4, <1>5, <1>6, <1>8, <1>9, <1>10 DEF RunnerStep

(* Webhooks, run requests, watchdogs and changes of trust keep the types.  *)
LEMMA ServerStepType ==
    ASSUME TypeOK, Webhook \/ (\E t \in Task : TaskRun(t)) \/ Watchdog \/ ReportTrust
    PROVE  TypeOK'
<1> USE DEF TypeOK
<1>1. ASSUME NEW ok \in BOOLEAN, NEW t \in Task, WebhookIngest(t, ok) PROVE TypeOK'
  <2>1. runner' \in [Slot -> RunnerRecord]
    <3>1. Goroutine("workflow", t, "greet") \in RunnerRecord
      BY GoroutineType DEF RunnerKind, RunnerPc
    <3>2. ok => \E i \in Slot : SetRunner(i, Goroutine("workflow", t, "greet"))
      BY <1>1 DEF WebhookIngest, NextSlot, FreeSlots
    <3>3. ~ok => runner' = runner
      BY <1>1 DEF WebhookIngest
    <3> QED
      BY <3>1, <3>2, <3>3, SetRunnerType
  <2>2. mem' \in WorkspaceState /\ disk' \in WorkspaceState /\ fuel' \in [Kinds -> Nat]
    BY <1>1, AddTaskType, StoreType, SpendType DEF WebhookIngest
  <2> QED
    BY <1>1, <2>1, <2>2 DEF WebhookIngest
<1>2. ASSUME NEW ok \in BOOLEAN, WebhookNotify(ok) PROVE TypeOK'
  <2>1. Len(outs) + 1 \in Nat /\ outs' \in Seq(Task \cup {NoTask})
    BY <1>2 DEF WebhookNotify
  <2>2. mem' \in WorkspaceState /\ disk' \in WorkspaceState /\ fuel' \in [Kinds -> Nat]
    BY <1>2, <2>1, AddBossReportOnlyType, StoreType, SpendType DEF WebhookNotify
  <2>3. runner' \in [Slot -> RunnerRecord]
    <3>1. Goroutine("run", AnyTask, "noted") \in RunnerRecord
      BY AnyTaskType, GoroutineType DEF RunnerKind, RunnerPc
    <3>2. ok => \E i \in Slot : SetRunner(i, Goroutine("run", AnyTask, "noted"))
      BY <1>2 DEF WebhookNotify
    <3>3. ~ok => runner' = runner
      BY <1>2 DEF WebhookNotify
    <3> QED
      BY <3>1, <3>2, <3>3, SetRunnerType
  <2> QED
    BY <1>2, <2>1, <2>2, <2>3 DEF WebhookNotify
<1>3. ASSUME NEW t \in Task, TaskRun(t) PROVE TypeOK'
  <2> DEFINE go == [Goroutine("run", t, "activate") EXCEPT
                        !.step = mem.tasks[t].step, !.agent = mem.tasks[t].agent]
  <2>1. mem.tasks[t].step \in Nat /\ mem.tasks[t].agent \in Agent
    BY DEF WorkspaceState, TaskRecord
  <2>2. Goroutine("run", t, "activate") \in RunnerRecord
    BY GoroutineType DEF RunnerKind, RunnerPc
  <2>3. go \in RunnerRecord
    BY <2>1, <2>2 DEF RunnerRecord
  <2>4. \E i \in Slot : SetRunner(i, go)
    BY <1>3 DEF TaskRun
  <2> HIDE DEF go
  <2>5. runner' \in [Slot -> RunnerRecord]
    BY <2>3, <2>4, SetRunnerType
  <2> QED
    BY <1>3, <2>5, SpendType DEF TaskRun
<1>4. ASSUME NEW old \in SUBSET Task, NEW ok \in BOOLEAN, RetryStuckTasks(old, ok)
      PROVE  TypeOK'
  <2>1. runner' \in [Slot -> RunnerRecord]
    BY <1>4, SpawnRerunsType DEF RetryStuckTasks, ToRespawn
  <2>2. mem' \in WorkspaceState /\ disk' \in WorkspaceState /\ fuel' \in [Kinds -> Nat]
    BY <1>4, MarkStuckTasksRetryingType, StoreType, SpendType DEF RetryStuckTasks
  <2> QED
    BY <1>4, <2>1, <2>2 DEF RetryStuckTasks
<1>5. ASSUME NEW old \in SUBSET Task, NEW ok \in BOOLEAN, RecoverOrphaned(old, ok)
      PROVE  TypeOK'
  <2>1. runner' \in [Slot -> RunnerRecord]
    BY <1>5, SpawnRerunsType DEF RecoverOrphaned, ToRespawn
  <2>2. mem' \in WorkspaceState /\ disk' \in WorkspaceState /\ fuel' \in [Kinds -> Nat]
    BY <1>5, RecoverOrphanedRetryingType, StoreType, SpendType DEF RecoverOrphaned
  <2> QED
    BY <1>5, <2>1, <2>2 DEF RecoverOrphaned
<1>6. ASSUME NEW ok \in BOOLEAN, NEW r \in mem.reports,
             NEW trust \in {"approved", "demoted", "auto"}, SetTrust(r.id, trust, ok)
      PROVE  TypeOK'
  <2>1. r.id \in Nat /\ trust \in Trust
    BY DEF WorkspaceState, ReportRecord, Trust
  <2>2. mem' \in WorkspaceState /\ disk' \in WorkspaceState /\ fuel' \in [Kinds -> Nat]
    BY <1>6, <2>1, SetReportTrustType, StoreType, SpendType DEF SetTrust
  <2> QED
    BY <1>6, <2>2 DEF SetTrust
<1> QED
  BY <1>1, <1>2, <1>3, <1>4, <1>5, <1>6 DEF Webhook, Watchdog, ReportTrust

(* So does a reset request.                                                *)
LEMMA ResetStepType ==
    ASSUME TypeOK, ResetHandler
    PROVE  TypeOK'
<1> USE DEF TypeOK
<1>1. CASE TaskResetSnapshot
  BY <1>1 DEF TaskResetSnapshot, ResetPc
<1>2. ASSUME NEW ok \in BOOLEAN, NEW t \in Task, TaskReset(t, ok) PROVE TypeOK'
  <2>1. mem.tasks[t].agent \in Agent
    BY DEF WorkspaceState, TaskRecord
  <2>2. SetTaskExecution(mem, t, "queued", mem.tasks[t].agent) \in WorkspaceState
    BY <2>1, SetTaskExecutionType DEF Exec
  <2>3. mem' \in WorkspaceState /\ disk' \in WorkspaceState /\ fuel' \in [Kinds -> Nat]
    BY <1>2, <2>2, StoreType, SpendType DEF TaskReset
  <2>4. reset' \in [pc : ResetPc, view : WorkspaceState]
    BY <1>2 DEF TaskReset, ResetPc
  <2> QED
    BY <1>2, <2>3, <2>4 DEF TaskReset
<1>3. ASSUME NEW ok \in BOOLEAN, NEW expired, TaskResetReplace(expired, ok) PROVE TypeOK'
  BY <1>3, IdleTypes, ReplaceType, SpendType DEF TaskResetReplace
<1> QED
  BY <1>1, <1>2, <1>3 DEF ResetHandler

(* So does a browser that gets no answer.                                  *)
LEMMA UnansweredType ==
    ASSUME TypeOK, Unanswered
    PROVE  client' \in ClientRecord
<1>1. PICK kept \in KeptCopies : client' = IdleClient(kept, client.tag)
  BY DEF Unanswered
<1>2. kept \in WorkspaceState /\ client.tag \in WorkspaceState
  BY DEF KeptCopies, TypeOK, ClientRecord
<1> QED
  BY <1>1, <1>2, IdleTypes

(* So does the browser.                                                    *)
LEMMA BrowserStepType ==
    ASSUME TypeOK, Browser
    PROVE  TypeOK'
<1> USE DEF TypeOK
<1>1. /\ client.body \in WorkspaceState /\ client.tag \in WorkspaceState
      /\ client.sent \in WorkspaceState /\ client.edited \in WorkspaceState
  BY DEF ClientRecord
<1>2. CASE GetSnapshot
  BY <1>2, SpendType DEF GetSnapshot, ClientRecord, ClientPc
<1>3. ASSUME NEW full \in BOOLEAN, GetTag(full) PROVE TypeOK'
  <2> DEFINE body == IF full THEN client.sent ELSE Refresh(client.body, client.sent)
  <2>1. body \in WorkspaceState
    BY <1>1, RefreshType
  <2> HIDE DEF body
  <2>2. client' = IdleClient(body, disk)
    BY <1>3 DEF GetTag, ETag, body
  <2>3. client' \in ClientRecord
    BY <2>1, <2>2, IdleTypes
  <2> QED
    BY <1>3, <2>3 DEF GetTag
<1>4. ASSUME NEW kind \in EditKinds, NEW edited \in WorkspaceState,
             PutAccepted(kind), Send(kind, edited),
             outs' = outs \/ \E t \in Task : outs' = Append(outs, t)
      PROVE  TypeOK'
  <2>1. client' \in ClientRecord
    BY <1>4 DEF Send, ClientRecord, ClientPc
  <2>2. outs' \in Seq(Task \cup {NoTask})
    BY <1>4
  <2>3. unborn' \in SUBSET Task
    BY <1>4 DEF Send
  <2> QED
    BY <1>4, <2>1, <2>2, <2>3, SpendType DEF PutAccepted
<1>9. ASSUME NEW kind \in EditKinds \ {"complete"}, PutCheck(kind) PROVE TypeOK'
  <2>1. PICK edited \in EditsOfKind(kind, client.body, unborn) : Send(kind, edited)
    BY <1>9 DEF PutCheck
  <2>2. edited \in WorkspaceState
    BY <1>1, EditKindsAssumption, EditsType
  <2> QED
    BY <1>4, <1>9, <2>1, <2>2 DEF PutCheck
<1>10. ASSUME NEW t \in Task, PutClose(t) PROVE TypeOK'
  <2>1. Len(outs) + 1 \in Nat
    OBVIOUS
  <2>2. CompleteTask(client.body, t, Len(outs) + 1) \in WorkspaceState
    BY <1>1, <2>1, CompleteTaskType
  <2>3. "complete" \in EditKinds
    BY <1>10 DEF PutClose, PutAccepted
  <2> QED
    BY <1>4, <1>10, <2>2, <2>3 DEF PutClose
<1>5. CASE PutMerge
  <2> DEFINE sent == IF client.reset THEN client.sent ELSE MergeWorkspace(mem, client.sent)
  <2>1. sent \in WorkspaceState
    BY <1>1, MergeWorkspaceType
  <2>2. client' = [client EXCEPT !.pc = "merged", !.sent = sent]
    BY <1>5 DEF PutMerge
  <2> HIDE DEF sent
  <2>3. client' \in ClientRecord
    BY <2>1, <2>2 DEF ClientRecord, ClientPc
  <2> QED
    BY <1>5, <2>3 DEF PutMerge
<1>6. ASSUME NEW ok \in BOOLEAN, NEW expired, PutReplace(expired, ok) PROVE TypeOK'
  <2>1. [client EXCEPT !.pc = "saved", !.sent = EmptyWorkspace] \in ClientRecord
    BY EmptyWorkspaceType DEF ClientRecord, ClientPc
  <2>3. client' \in ClientRecord
    BY <1>6, <2>1, UnansweredType DEF PutReplace
  <2>4. mem' \in WorkspaceState /\ disk' \in WorkspaceState /\ fuel' \in [Kinds -> Nat]
    BY <1>1, <1>6, ReplaceType, SpendType DEF PutReplace
  <2> QED
    BY <1>6, <2>3, <2>4 DEF PutReplace
<1>7. CASE PutRespond
  <2>1. client' \in ClientRecord
    BY <1>1, <1>7, IdleTypes DEF PutRespond, ETag
  <2> QED
    BY <1>7, <2>1 DEF PutRespond
<1>8. CASE PutLost
  BY <1>8, UnansweredType DEF PutLost
<1> QED
  BY <1>2, <1>3, <1>5, <1>6, <1>7, <1>8, <1>9, <1>10 DEF Browser

(* So do a crash and the load after it.                                    *)
LEMMA RestartType ==
    ASSUME TypeOK, Crash \/ Restart
    PROVE  TypeOK'
<1> USE DEF TypeOK
<1>1. CASE Crash
  <2>1. client' \in ClientRecord
    BY <1>1, UnansweredType DEF Crash
  <2> QED
    BY <1>1, <2>1, IdleTypes, SpendType DEF Crash
<1>2. ASSUME NEW expired, Load(expired) PROVE TypeOK'
  BY <1>2, NormalizeType, StoreType DEF Load
<1> QED
  BY <1>1, <1>2 DEF Restart

(* The value of every variable keeps its shape, whatever the handlers,     *)
(* goroutines, watchdogs, users, failing saves and crashes do; among it    *)
(* that RetryCount never exceeds the cap and that no step index, also of a *)
(* stale goroutine, leaves the plan when an agent is looked up by it.      *)
THEOREM TypeCorrect == Spec => []TypeOK
<1>1. ASSUME TypeOK, [Next]_vars PROVE TypeOK'
  <2>1. CASE UNCHANGED vars
    BY <1>1, <2>1 DEF vars, TypeOK
  <2>2. CASE Next
    BY <1>1, <2>2, RunnerStepType, ServerStepType, ResetStepType, BrowserStepType, RestartType
       DEF Next
  <2> QED
    BY <1>1, <2>1, <2>2
<1> QED
  BY <1>1, InitType, PTL DEF Spec

---------------------------------------------------------------------------
(* WorkspaceServer implements DurableCell: memory, row and liveness of the *)
(* store behave like a write-through cell.                                 *)

(* A dead process runs nothing: what it had in flight does not write after *)
(* the crash.                                                              *)
DownIsIdle ==
    ~up => /\ \A i \in Slot : runner[i].pc = "free"
           /\ client.pc = "idle"
           /\ reset.pc = "idle"

(* saveLocked is a step of the cell.                                       *)
LEMMA StoreIsSave ==
    ASSUME up, up' = up, NEW new, NEW ok \in BOOLEAN, Store(new, ok)
    PROVE  Cell!Next
<1>1. CASE ok
  BY <1>1 DEF Store, Cell!Save, Cell!Next
<1>2. CASE ~ok
  BY <1>2 DEF Store, Cell!SaveFails, Cell!Next
<1> QED
  BY <1>1, <1>2

(* replace is a step of the cell or changes nothing.                       *)
LEMMA ReplaceIsSave ==
    ASSUME up, up' = up, NEW next, NEW expired, NEW ok \in BOOLEAN, Replace(next, expired, ok)
    PROVE  [Cell!Next]_(Cell!vars)
<1> DEFINE new == NormalizeWorkspaceState(next, expired)
<1>1. UNCHANGED store \/ Store(new, ok)
  BY DEF Replace
<1> HIDE DEF new
<1>2. CASE UNCHANGED store
  BY <1>2 DEF store, Cell!vars
<1> QED
  BY <1>1, <1>2, StoreIsSave

(* A step that leaves memory and row alone is no step of the cell.         *)
LEMMA StutterIsStutter ==
    ASSUME up' = up, mem' = mem, disk' = disk
    PROVE  [Cell!Next]_(Cell!vars)
BY DEF Cell!vars

(* Goroutines only change the cell while it is open.                       *)
LEMMA RunnerStepIsCellStep ==
    ASSUME DownIsIdle, NEW i \in Slot, RunnerStep(i)
    PROVE  up /\ up' = up /\ [Cell!Next]_(Cell!vars)
<1>1. CASE Begin(i)
  BY <1>1, StutterIsStutter DEF DownIsIdle, Begin
<1>2. CASE CallReturns(i)
  BY <1>2, StutterIsStutter DEF DownIsIdle, CallReturns
<1>3. ASSUME NEW ok \in BOOLEAN, WriteLog(i, ok)
      PROVE  up /\ up' = up /\ [Cell!Next]_(Cell!vars)
  <2>1. runner[i].pc # "free"
    BY <1>3 DEF WriteLog, AfterLog
  <2> QED
    BY <1>3, <2>1, StoreIsSave DEF DownIsIdle, WriteLog
<1>4. ASSUME NEW ok \in BOOLEAN, Activate(i, ok)
      PROVE  up /\ up' = up /\ [Cell!Next]_(Cell!vars)
  BY <1>4, StoreIsSave, StutterIsStutter DEF DownIsIdle, Activate
<1>5. ASSUME NEW ok \in BOOLEAN, NEW from, NEW to, from # "free", Requeue(i, ok, from, to)
      PROVE  up /\ up' = up /\ [Cell!Next]_(Cell!vars)
  BY <1>5, StoreIsSave, StutterIsStutter DEF DownIsIdle, Requeue
<1>6. ASSUME NEW ok \in BOOLEAN, DeliverReportStep(i, ok)
      PROVE  up /\ up' = up /\ [Cell!Next]_(Cell!vars)
  BY <1>6, StoreIsSave DEF DownIsIdle, DeliverReportStep
<1>7. ASSUME NEW ok \in BOOLEAN, DeliverNextStep(i, ok)
      PROVE  up /\ up' = up /\ [Cell!Next]_(Cell!vars)
  BY <1>7, StoreIsSave DEF DownIsIdle, DeliverNextStep
<1>8. ASSUME NEW ok \in BOOLEAN, Undo(i, ok) \/ CallFails(i, ok)
      PROVE  up /\ up' = up /\ [Cell!Next]_(Cell!vars)
  BY <1>5, <1>8 DEF Undo, CallFails
<1> QED
  BY <1>1, <1>2, <1>3, <1>4, <1>6, <1>7, <1>8 DEF RunnerStep

(* So do webhooks, watchdogs and changes of trust.                         *)
LEMMA ServerStepIsCellStep ==
    ASSUME Webhook \/ (\E t \in Task : TaskRun(t)) \/ Watchdog \/ ReportTrust
    PROVE  up /\ up' = up /\ [Cell!Next]_(Cell!vars)
<1>1. ASSUME NEW ok \in BOOLEAN, NEW t \in Task, WebhookIngest(t, ok)
      PROVE  up /\ up' = up /\ Cell!Next
  BY <1>1, StoreIsSave DEF WebhookIngest
<1>2. ASSUME NEW ok \in BOOLEAN, WebhookNotify(ok)
      PROVE  up /\ up' = up /\ Cell!Next
  BY <1>2, StoreIsSave DEF WebhookNotify
<1>3. ASSUME NEW t \in Task, TaskRun(t)
      PROVE  up /\ up' = up /\ [Cell!Next]_(Cell!vars)
  BY <1>3, StutterIsStutter DEF TaskRun
<1>4. ASSUME NEW ok \in BOOLEAN, NEW old \in SUBSET Task,
             RetryStuckTasks(old, ok) \/ RecoverOrphaned(old, ok)
      PROVE  up /\ up' = up /\ Cell!Next
  BY <1>4, StoreIsSave DEF RetryStuckTasks, RecoverOrphaned
<1>5. ASSUME NEW ok \in BOOLEAN, NEW id, NEW trust, SetTrust(id, trust, ok)
      PROVE  up /\ up' = up /\ Cell!Next
  BY <1>5, StoreIsSave DEF SetTrust
<1> QED
  BY <1>1, <1>2, <1>3, <1>4, <1>5 DEF Webhook, Watchdog, ReportTrust

(* So do the requests of the browser.                                      *)
LEMMA RequestStepIsCellStep ==
    ASSUME DownIsIdle, ResetHandler \/ Browser
    PROVE  up /\ up' = up /\ [Cell!Next]_(Cell!vars)
<1>1. ASSUME TaskResetSnapshot PROVE up /\ up' = up /\ [Cell!Next]_(Cell!vars)
  BY <1>1, StutterIsStutter DEF DownIsIdle, TaskResetSnapshot
<1>2. ASSUME NEW ok \in BOOLEAN, NEW t \in Task, TaskReset(t, ok)
      PROVE  up /\ up' = up /\ [Cell!Next]_(Cell!vars)
  BY <1>2, StoreIsSave DEF TaskReset
<1>3. ASSUME NEW ok \in BOOLEAN, NEW expired, TaskResetReplace(expired, ok)
      PROVE  up /\ up' = up /\ [Cell!Next]_(Cell!vars)
  BY <1>3, ReplaceIsSave DEF DownIsIdle, TaskResetReplace
<1>4. ASSUME GetSnapshot \/ (\E full \in BOOLEAN : GetTag(full))
             \/ (\E kind \in EditKinds \ {"complete"} : PutCheck(kind))
             \/ (\E t \in Task : PutClose(t)) \/ PutMerge \/ PutRespond \/ PutLost
      PROVE  up /\ up' = up /\ [Cell!Next]_(Cell!vars)
  BY <1>4, StutterIsStutter
     DEF DownIsIdle, GetSnapshot, GetTag, PutCheck, PutClose, PutAccepted, PutMerge, PutRespond,
         PutLost
<1>5. ASSUME NEW ok \in BOOLEAN, NEW expired, PutReplace(expired, ok)
      PROVE  up /\ up' = up /\ [Cell!Next]_(Cell!vars)
  BY <1>5, ReplaceIsSave DEF DownIsIdle, PutReplace
<1> QED
  BY <1>1, <1>2, <1>3, <1>4, <1>5 DEF ResetHandler, Browser

(* So do a crash and the load after it, and a dead process stays idle.     *)
LEMMA CellStep ==
    ASSUME DownIsIdle, [Next]_vars
    PROVE  DownIsIdle' /\ [Cell!Next]_(Cell!vars)
<1>1. CASE UNCHANGED vars
  BY <1>1 DEF vars, DownIsIdle, Cell!vars
<1>2. CASE Webhook \/ (\E t \in Task : TaskRun(t)) \/ Watchdog \/ ReportTrust
  BY <1>2, ServerStepIsCellStep DEF DownIsIdle
<1>3. CASE \E i \in Slot : RunnerStep(i)
  BY <1>3, RunnerStepIsCellStep DEF DownIsIdle
<1>4. CASE ResetHandler \/ Browser
  BY <1>4, RequestStepIsCellStep DEF DownIsIdle
<1>5. CASE Crash
  <2>1. DownIsIdle'
    BY <1>5 DEF Crash, Unanswered, DownIsIdle, IdleReset, IdleClient, FreeRunner
  <2>2. Cell!Next
    BY <1>5 DEF Crash, Cell!Crash, Cell!Next
  <2> QED
    BY <2>1, <2>2
<1>6. CASE Restart
  BY <1>6 DEF Restart, Load, Store, DownIsIdle, Cell!Reopen, Cell!Next
<1> QED
  BY <1>1, <1>2, <1>3, <1>4, <1>5, <1>6 DEF Next

LEMMA IdleWhenDown == Spec => []DownIsIdle
<1>1. Init => DownIsIdle
  BY DEF Init, DownIsIdle
<1> QED
  BY <1>1, CellStep, PTL DEF Spec

(* The store is a write-through cell for every board and every             *)
(* interleaving: the row only takes values memory holds, a failed save     *)
(* leaves it alone, a crash serves it again, and nothing started before a  *)
(* crash writes after it.                                                  *)
THEOREM StoreWritesThrough == Spec => WriteThrough
<1>1. Init => Cell!Init
  BY DEF Init, Cell!Init
<1> QED
  BY <1>1, CellStep, IdleWhenDown, PTL DEF Spec, WriteThrough, Cell!Spec

---------------------------------------------------------------------------
(* RowsBelongToTheirTask for every board: each operator that makes a copy  *)
(* of the workspace from other copies keeps rows and links with the task   *)
(* they were made for.  Then CompletedHasReport, which is not inductive by *)
(* itself: a delivery that rewrote the row of another task could take that *)
(* task's only report away, which RowsBelongToTheirTask excludes.          *)

History == Seq(Task \cup {NoTask})

(* The history of outputs only grows at its end.                           *)
LEMMA HistoryGrows ==
    ASSUME NEW o \in History, NEW t \in Task \cup {NoTask}
    PROVE  /\ \A k \in 1 .. Len(o) : k \in 1 .. Len(Append(o, t)) /\ Append(o, t)[k] = o[k]
           /\ Len(o) + 1 \in 1 .. Len(Append(o, t)) /\ Append(o, t)[Len(o) + 1] = t
           /\ Len(o) + 1 \notin 1 .. Len(o) /\ Len(o) + 1 # 0
BY DEF History

(* A copy that matches a history matches every longer one.                 *)
LEMMA CopyKeptByOutput ==
    ASSUME NEW o \in History, NEW t \in Task \cup {NoTask}, NEW s, CopyMatches(s, o)
    PROVE  CopyMatches(s, Append(o, t))
BY HistoryGrows DEF CopyMatches, RowsMatch, LinkMatches

(* A new task has no link.                                                 *)
LEMMA NewTaskMatches ==
    ASSUME NEW t \in Task, NEW o
    PROVE  LinkMatches(t, NewTask(t), o) /\ LinkMatches(t, Absent(t), o)
BY DEF NewTask, Absent, LinkMatches

(* An empty board matches every history.                                   *)
LEMMA EmptyMatches == ASSUME NEW o PROVE CopyMatches(EmptyWorkspace, o)
BY NewTaskMatches DEF EmptyWorkspace, CopyMatches, RowsMatch

(* A copy whose tasks or rows are replaced by matching ones matches.       *)
LEMMA UpdateMatches ==
    ASSUME NEW s \in WorkspaceState, NEW o, NEW next \in WorkspaceState,
           RowsMatch(next.reports, o),
           \A t \in Task : LinkMatches(t, next.tasks[t], o)
    PROVE  CopyMatches(next, o)
BY DEF CopyMatches

(* Rows rewritten one by one keep matching when id, task and text stay.    *)
LEMMA RelabelledRowsMatch ==
    ASSUME NEW o, NEW rows, NEW f \in [rows -> ReportRecord], RowsMatch(rows, o),
           \A r \in rows : f[r].id = r.id /\ f[r].task = r.task /\ f[r].text = r.text
    PROVE  RowsMatch({f[r] : r \in rows}, o)
BY DEF RowsMatch

(* Dropping rows keeps the others matching.                                *)
LEMMA SubsetOfRowsMatches ==
    ASSUME NEW o, NEW rows, NEW some \in SUBSET rows, RowsMatch(rows, o)
    PROVE  RowsMatch(some, o)
BY DEF RowsMatch

---------------------------------------------------------------------------
(* Store methods.                                                          *)

(* addTask adds a task without a link.                                     *)
LEMMA AddTaskMatches ==
    ASSUME NEW o, NEW s \in WorkspaceState, CopyMatches(s, o), NEW t \in Task
    PROVE  CopyMatches(AddTask(s, t), o)
<1> DEFINE task == NewTask(t)
<1>1. LinkMatches(t, task, o)
  BY NewTaskMatches
<1>2. AddTask(s, t) = [s EXCEPT !.tasks[t] = task]
  BY DEF AddTask
<1> HIDE DEF task
<1> QED
  BY <1>1, <1>2 DEF CopyMatches, WorkspaceState

(* addSessionLog touches neither rows nor links.                           *)
LEMMA AddSessionLogMatches ==
    ASSUME NEW o, NEW s \in WorkspaceState, CopyMatches(s, o)
    PROVE  CopyMatches(AddSessionLog(s), o)
BY DEF AddSessionLog, CopyMatches, WorkspaceState

(* setTaskExecution touches neither rows nor links.                        *)
LEMMA SetTaskExecutionMatches ==
    ASSUME NEW o, NEW s \in WorkspaceState, CopyMatches(s, o),
           NEW t \in Task, NEW status, NEW a
    PROVE  CopyMatches(SetTaskExecution(s, t, status, a), o)
<1> DEFINE task == [s.tasks[t] EXCEPT !.exec = status]
           next == SetTaskExecution(s, t, status, a)
<1>1. task.report = s.tasks[t].report
  BY DEF WorkspaceState, TaskRecord
<1>2. next.reports = s.reports /\ next.tasks = [s.tasks EXCEPT ![t] = task]
  BY DEF SetTaskExecution, WorkspaceState
<1>3. DOMAIN s.tasks = Task
  BY DEF WorkspaceState
<1> HIDE DEF task, next
<1>4. \A u \in Task : next.tasks[u].report = s.tasks[u].report
  BY <1>1, <1>2, <1>3
<1>5. CopyMatches(next, o)
  BY <1>2, <1>4 DEF CopyMatches, LinkMatches
<1> QED
  BY <1>5 DEF next

(* advanceWorkflowStep clears the link and touches no row.                 *)
LEMMA AdvanceMatches ==
    ASSUME NEW o, NEW s \in WorkspaceState, CopyMatches(s, o), NEW t \in Task, NEW next
    PROVE  CopyMatches(AdvanceWorkflowStep(s, t, next), o)
<1> DEFINE task == MoveToStep(t, s.tasks[t], next)
           after == AdvanceWorkflowStep(s, t, next)
<1>1. task.report = 0
  BY DEF MoveToStep, WorkspaceState, TaskRecord
<1>2. CASE ~Present(s, t)
  BY <1>2 DEF AdvanceWorkflowStep
<1>3. CASE Present(s, t)
  <2>1. after.reports = s.reports /\ after.tasks = [s.tasks EXCEPT ![t] = task]
    BY <1>3 DEF AdvanceWorkflowStep, WorkspaceState
  <2> HIDE DEF task, after
  <2>2. CopyMatches(after, o)
    BY <1>1, <2>1 DEF CopyMatches, LinkMatches, WorkspaceState
  <2> QED
    BY <2>2 DEF after
<1> QED
  BY <1>2, <1>3

(* A run's report goes to the row its task is linked to, or to a new one.  *)
LEMMA ReportIdMatches ==
    ASSUME NEW o \in History, NEW s \in WorkspaceState, CopyMatches(s, o), NEW t \in Task
    PROVE  LET id == ReportIdFor(s, t, Len(o) + 1)
           IN  id # 0 /\ id \in 1 .. Len(Append(o, t)) /\ Append(o, t)[id] = t
<1>1. CASE Present(s, t) /\ t \notin Workflow /\ s.tasks[t].report # 0
  <2>1. s.tasks[t].report \in 1 .. Len(o) /\ o[s.tasks[t].report] = t
    BY <1>1 DEF CopyMatches, LinkMatches
  <2> QED
    BY <1>1, <2>1, HistoryGrows DEF ReportIdFor
<1>2. CASE ~(Present(s, t) /\ t \notin Workflow /\ s.tasks[t].report # 0)
  BY <1>2, HistoryGrows DEF ReportIdFor
<1> QED
  BY <1>1, <1>2

(* The rows after a delivery match the history that ends with the          *)
(* delivered output.                                                       *)
LEMMA DeliverReportMatches ==
    ASSUME NEW o \in History, NEW s \in WorkspaceState, CopyMatches(s, o), NEW t \in Task
    PROVE  LET n == Len(o) + 1
           IN  RowsMatch(DeliverReport(s, t, ReportIdFor(s, t, n), n), Append(o, t))
<1> DEFINE n == Len(o) + 1
           id == ReportIdFor(s, t, n)
           old == RowsWithId(s, id)
           step == s.tasks[t].step
           to(r) == [r EXCEPT !.task = t, !.step = step, !.status = "new", !.text = n]
           fresh == [id |-> id, task |-> t, step |-> step, status |-> "new",
                     text |-> n, trust |-> "auto"]
<1>1. id \in 1 .. Len(Append(o, t)) /\ Append(o, t)[id] = t
  BY ReportIdMatches
<1>2. n \in 1 .. Len(Append(o, t)) /\ Append(o, t)[n] = t
  BY HistoryGrows
<1>3. RowsMatch(s.reports, Append(o, t))
  BY CopyKeptByOutput DEF CopyMatches
<1>4. fresh.id = id /\ fresh.task = t /\ fresh.text = n
  OBVIOUS
<1>5. ASSUME NEW r \in old PROVE to(r).id = id /\ to(r).task = t /\ to(r).text = n
  BY DEF RowsWithId, WorkspaceState, ReportRecord
<1>6. \A r, q \in old : r = q
  BY <1>3 DEF RowsMatch, RowsWithId
<1>7. \A r \in s.reports \ old : r.id # id
  BY DEF RowsWithId
<1> DEFINE rows == DeliverReport(s, t, id, n)
<1>8. rows = IF old = {} THEN s.reports \cup {fresh}
             ELSE (s.reports \ old) \cup {to(r) : r \in old}
  BY DEF DeliverReport
<1> HIDE DEF id, n, to, fresh, old, rows
<1>9. ASSUME NEW r \in rows
      PROVE  (r \in s.reports /\ r.id # id) \/ (r.id = id /\ r.task = t /\ r.text = n)
  <2>1. CASE r \in s.reports \ old
    BY <1>7, <2>1
  <2>2. CASE old = {} /\ r = fresh
    BY <1>4, <2>2
  <2>3. CASE \E q \in old : r = to(q)
    BY <1>5, <2>3
  <2> QED
    BY <1>8, <2>1, <2>2, <2>3
<1>10. ASSUME NEW r \in rows, NEW q \in rows, r.id = id, q.id = id PROVE r = q
  <2>1. r \notin s.reports \ old /\ q \notin s.reports \ old
    BY <1>7, <1>10
  <2>2. CASE old = {}
    BY <1>8, <1>10, <2>1, <2>2
  <2>3. CASE old # {}
    <3>1. PICK a \in old : r = to(a)
      BY <1>8, <1>10, <2>1, <2>3
    <3>2. PICK b \in old : q = to(b)
      BY <1>8, <1>10, <2>1, <2>3
    <3>3. a = b
      BY <1>6
    <3> QED
      BY <3>1, <3>2, <3>3
  <2> QED
    BY <2>2, <2>3
<1>11. RowsMatch(rows, Append(o, t))
  BY <1>1, <1>2, <1>3, <1>9, <1>10 DEF RowsMatch
<1> QED
  BY <1>11 DEF rows, id, n

(* completeTaskWithReport links the task to the row it delivers to.        *)
LEMMA CompleteMatches ==
    ASSUME NEW o \in History, NEW s \in WorkspaceState, CopyMatches(s, o),
           NEW t \in Task, NEW a
    PROVE  CopyMatches(CompleteTaskWithReport(s, t, a, Len(o) + 1), Append(o, t))
<1> DEFINE n == Len(o) + 1
           id == ReportIdFor(s, t, n)
           task == IF Present(s, t) THEN FinishTask(t, s.tasks[t], id) ELSE s.tasks[t]
           next == CompleteTaskWithReport(s, t, a, n)
           rows == DeliverReport(s, t, id, n)
<1>1. RowsMatch(rows, Append(o, t))
  BY DeliverReportMatches
<1>2. CopyMatches(s, Append(o, t))
  BY CopyKeptByOutput
<1>3. LinkMatches(t, task, Append(o, t))
  <2>1. CASE Present(s, t)
    <3>1. task.report = id
      BY <2>1 DEF FinishTask, WorkspaceState, TaskRecord
    <3> QED
      BY <3>1, ReportIdMatches DEF LinkMatches
  <2>2. CASE ~Present(s, t)
    BY <1>2, <2>2 DEF CopyMatches
  <2> QED
    BY <2>1, <2>2
<1>4. next.reports = rows /\ next.tasks = [s.tasks EXCEPT ![t] = task]
  BY DEF CompleteTaskWithReport, WorkspaceState
<1> HIDE DEF task, next, rows
<1>5. CopyMatches(next, Append(o, t))
  BY <1>1, <1>2, <1>3, <1>4 DEF CopyMatches, WorkspaceState
<1> QED
  BY <1>5 DEF next

(* An alarm's row belongs to no task, like its output.                     *)
LEMMA AddBossReportMatches ==
    ASSUME NEW o \in History, NEW s \in WorkspaceState, CopyMatches(s, o)
    PROVE  CopyMatches(AddBossReportOnly(s, Len(o) + 1), Append(o, NoTask))
<1> DEFINE n == Len(o) + 1
           row == [id |-> n, task |-> NoTask, step |-> 0, status |-> "new",
                   text |-> n, trust |-> "unset"]
           next == AddBossReportOnly(s, n)
<1>1. CopyMatches(s, Append(o, NoTask))
  BY CopyKeptByOutput
<1>2. next.reports = s.reports \cup {row} /\ next.tasks = s.tasks
  BY DEF AddBossReportOnly, WorkspaceState
<1>3. \A r \in s.reports : r.id # n
  BY HistoryGrows DEF CopyMatches, RowsMatch
<1>4. row.id = n /\ row.task = NoTask /\ row.text = n
  OBVIOUS
<1>5. n \in 1 .. Len(Append(o, NoTask)) /\ Append(o, NoTask)[n] = NoTask
  BY HistoryGrows
<1> HIDE DEF n, row, next
<1>6. CopyMatches(next, Append(o, NoTask))
  BY <1>1, <1>2, <1>3, <1>4, <1>5 DEF CopyMatches, RowsMatch
<1> QED
  BY <1>6 DEF next, n

(* setReportTrust keeps id, task and text of every row.                    *)
LEMMA SetReportTrustMatches ==
    ASSUME NEW o, NEW s \in WorkspaceState, CopyMatches(s, o), NEW id, NEW trust \in Trust
    PROVE  CopyMatches(SetReportTrust(s, id, trust), o)
<1> DEFINE to(r) == IF r.id = id THEN [r EXCEPT !.trust = trust] ELSE r
           f == [r \in s.reports |-> to(r)]
           next == SetReportTrust(s, id, trust)
<1>1. \A r \in s.reports : /\ to(r) \in ReportRecord
                           /\ to(r).id = r.id /\ to(r).task = r.task /\ to(r).text = r.text
  BY DEF WorkspaceState, ReportRecord
<1>2. next.tasks = s.tasks /\ next.reports = {to(r) : r \in s.reports}
  BY DEF SetReportTrust, WorkspaceState
<1> HIDE DEF to, next
<1>3. {to(r) : r \in s.reports} = {f[r] : r \in s.reports}
  OBVIOUS
<1>4. f \in [s.reports -> ReportRecord]
  BY <1>1
<1>5. RowsMatch({f[r] : r \in s.reports}, o)
  BY <1>1, <1>4, RelabelledRowsMatch DEF CopyMatches
<1>6. CopyMatches(next, o)
  BY <1>2, <1>3, <1>5 DEF CopyMatches
<1> QED
  BY <1>6 DEF next

(* A change of the tasks that keeps or clears every link keeps the copy    *)
(* matching.                                                               *)
LEMMA LinksKept ==
    ASSUME NEW o, NEW s, NEW next, CopyMatches(s, o), RowsMatch(next.reports, o),
           \A t \in Task : \/ next.tasks[t].report = 0
                           \/ next.tasks[t].report = s.tasks[t].report
    PROVE  CopyMatches(next, o)
BY DEF CopyMatches, LinkMatches

(* The watchdogs keep every link.                                          *)
LEMMA WatchdogsMatch ==
    ASSUME NEW o, NEW s \in WorkspaceState, CopyMatches(s, o), NEW old \in SUBSET Task
    PROVE  /\ CopyMatches(MarkStuckTasksRetrying(s, old), o)
           /\ CopyMatches(RecoverOrphanedRetrying(s, old), o)
<1> DEFINE marked == MarkStuckTasksRetrying(s, old)
           recovered == RecoverOrphanedRetrying(s, old)
<1>1. marked.reports = s.reports /\ recovered.reports = s.reports
  BY DEF MarkStuckTasksRetrying, RecoverOrphanedRetrying, WorkspaceState
<1>2. ASSUME NEW t \in Task
      PROVE  /\ marked.tasks[t].report = s.tasks[t].report
             /\ recovered.tasks[t].report = s.tasks[t].report
  <2>1. s.tasks[t] \in TaskRecord
    BY DEF WorkspaceState
  <2> DEFINE again(exec) == [s.tasks[t] EXCEPT !.exec = exec, !.retries = s.tasks[t].retries + 1]
  <2>2. /\ Released(s.tasks[t]).report = s.tasks[t].report
        /\ again("retrying").report = s.tasks[t].report
        /\ again("queued").report = s.tasks[t].report
    BY <2>1 DEF Released, TaskRecord
  <2>3. marked.tasks[t] \in {s.tasks[t], Released(s.tasks[t]), again("retrying")}
    BY DEF MarkStuckTasksRetrying, WorkspaceState
  <2>4. recovered.tasks[t] \in {s.tasks[t], Released(s.tasks[t]), again("queued")}
    BY DEF RecoverOrphanedRetrying, WorkspaceState
  <2> HIDE DEF marked, recovered
  <2> QED
    BY <2>2, <2>3, <2>4
<1> HIDE DEF marked, recovered
<1>3. CopyMatches(marked, o) /\ CopyMatches(recovered, o)
  BY <1>1, <1>2, LinksKept DEF CopyMatches
<1> QED
  BY <1>3 DEF marked, recovered

(* normalizeWorkspaceState keeps or drops links and keeps the rows'        *)
(* owners.                                                                 *)
LEMMA NormalizeMatches ==
    ASSUME NEW o, NEW s \in WorkspaceState, CopyMatches(s, o), NEW expired
    PROVE  CopyMatches(NormalizeWorkspaceState(s, expired), o)
<1> DEFINE next == NormalizeWorkspaceState(s, expired)
           f == [r \in s.reports |-> BackfillTrust(r)]
<1>1. ASSUME NEW t \in Task
      PROVE  next.tasks[t].report = 0 \/ next.tasks[t].report = s.tasks[t].report
  <2>1. s.tasks[t] \in TaskRecord
    BY DEF WorkspaceState
  <2> DEFINE queued == [s.tasks[t] EXCEPT !.exec = "queued"]
  <2>2. queued.report = s.tasks[t].report /\ Absent(t).report = 0
    BY <2>1 DEF TaskRecord, Absent, NewTask
  <2>3. next.tasks[t] = NormalizeTask(s, t, expired)
    BY DEF NormalizeWorkspaceState, WorkspaceState
  <2>4. next.tasks[t] \in {Absent(t), queued, s.tasks[t]}
    BY <2>3 DEF NormalizeTask, Interrupted
  <2> HIDE DEF next
  <2> QED
    BY <2>2, <2>4
<1>2. \A r \in s.reports : /\ BackfillTrust(r) \in ReportRecord
                           /\ BackfillTrust(r).id = r.id /\ BackfillTrust(r).task = r.task
                           /\ BackfillTrust(r).text = r.text
  BY DEF BackfillTrust, WorkspaceState, ReportRecord, Trust
<1>3. f \in [s.reports -> ReportRecord]
  BY <1>2
<1>4. RowsMatch({f[r] : r \in s.reports}, o)
  BY <1>2, <1>3, RelabelledRowsMatch DEF CopyMatches
<1>5. next.reports = {f[r] : r \in s.reports}
  BY DEF NormalizeWorkspaceState, WorkspaceState
<1> HIDE DEF next, f
<1>6. CopyMatches(next, o)
  BY <1>1, <1>4, <1>5, LinksKept
<1> QED
  BY <1>6 DEF next

(* The merge takes a card's link from one of the two copies, and adds a    *)
(* row of the server only under an ID the browser does not send.           *)
LEMMA MergeMatches ==
    ASSUME NEW o, NEW srv \in WorkspaceState, NEW inc \in WorkspaceState,
           CopyMatches(srv, o), CopyMatches(inc, o)
    PROVE  CopyMatches(MergeWorkspace(srv, inc), o)
<1> DEFINE next == MergeWorkspace(srv, inc)
<1>1. RowsMatch(MergeBossReportsServerSide(srv.reports, inc.reports), o)
  BY DEF MergeBossReportsServerSide, CopyMatches, RowsMatch
<1>2. next.reports = MergeBossReportsServerSide(srv.reports, inc.reports)
  BY DEF MergeWorkspace, WorkspaceState
<1>3. ASSUME NEW t \in Task PROVE LinkMatches(t, next.tasks[t], o)
  <2>1. srv.tasks[t] \in TaskRecord /\ inc.tasks[t] \in TaskRecord
    BY DEF WorkspaceState
  <2>2. next.tasks[t] = MergeTask(srv.tasks[t], inc.tasks[t])
    BY DEF MergeWorkspace, MergeTasksServerSide, WorkspaceState
  <2>3. MergeTask(srv.tasks[t], inc.tasks[t]).report
            \in {srv.tasks[t].report, inc.tasks[t].report}
    BY <2>1 DEF MergeTask, TaskRecord
  <2> HIDE DEF next
  <2> QED
    BY <2>2, <2>3 DEF CopyMatches, LinkMatches
<1> HIDE DEF next
<1>4. CopyMatches(next, o)
  BY <1>1, <1>2, <1>3 DEF CopyMatches
<1> QED
  BY <1>4 DEF next

---------------------------------------------------------------------------
(* The browser's edits.                                                    *)

(* A refresh takes rows and links from the server, or drops the card.      *)
LEMMA RefreshMatches ==
    ASSUME NEW o, NEW local \in WorkspaceState, NEW srv \in WorkspaceState,
           CopyMatches(local, o), CopyMatches(srv, o)
    PROVE  CopyMatches(Refresh(local, srv), o)
<1> DEFINE next == Refresh(local, srv)
<1>1. next.reports = srv.reports
  BY DEF Refresh, WorkspaceState
<1>2. ASSUME NEW t \in Task PROVE next.tasks[t].report = srv.tasks[t].report
  <2>1. local.tasks[t] \in TaskRecord /\ srv.tasks[t] \in TaskRecord
    BY DEF WorkspaceState
  <2>2. next.tasks[t] = RefreshTask(local.tasks[t], srv.tasks[t])
    BY DEF Refresh, WorkspaceState
  <2>3. RefreshTask(local.tasks[t], srv.tasks[t]).report = srv.tasks[t].report
    BY <2>1 DEF RefreshTask, TaskRecord
  <2> QED
    BY <2>2, <2>3
<1> HIDE DEF next
<1>3. CopyMatches(next, o)
  BY <1>1, <1>2, LinksKept DEF CopyMatches
<1> QED
  BY <1>3 DEF next

(* Marking a report changes its status only.                               *)
LEMMA MarkMatches ==
    ASSUME NEW o, NEW b \in WorkspaceState, CopyMatches(b, o), NEW id,
           NEW status \in ReportStatus
    PROVE  RowsMatch(Mark(b, id, status), o)
<1> DEFINE f == [r \in b.reports |->
                    IF r.id = id THEN [r EXCEPT !.status = status] ELSE r]
<1>1. \A r \in b.reports : /\ f[r] \in ReportRecord
                           /\ f[r].id = r.id /\ f[r].task = r.task /\ f[r].text = r.text
  BY DEF WorkspaceState, ReportRecord
<1>2. Mark(b, id, status) = {f[r] : r \in b.reports}
  BY DEF Mark
<1>3. f \in [b.reports -> ReportRecord]
  BY <1>1
<1> HIDE DEF f
<1> QED
  BY <1>1, <1>2, <1>3, RelabelledRowsMatch DEF CopyMatches

(* Approving or rejecting a report keeps or clears the card's link.        *)
LEMMA ReviewMatches ==
    ASSUME NEW o, NEW b \in WorkspaceState, CopyMatches(b, o), NEW r \in b.reports
    PROVE  CopyMatches(ApproveReport(b, r), o) /\ CopyMatches(RejectReport(b, r), o)
<1> DEFINE approved == ApproveReport(b, r)
           rejected == RejectReport(b, r)
<1>1. ASSUME NEW t \in Task
      PROVE  /\ ApprovedTask(t, b.tasks[t]).report \in {0, b.tasks[t].report}
             /\ RejectedTask(t, b.tasks[t]).report = b.tasks[t].report
  <2>1. b.tasks[t] \in TaskRecord
    BY DEF WorkspaceState
  <2> QED
    BY <2>1 DEF ApprovedTask, RejectedTask, TaskRecord
<1>2. /\ approved.reports = Mark(b, r.id, "approved")
      /\ rejected.reports = Mark(b, r.id, "rejected")
      /\ \A t \in Task : /\ approved.tasks[t] \in {b.tasks[t], ApprovedTask(t, b.tasks[t])}
                         /\ rejected.tasks[t] \in {b.tasks[t], RejectedTask(t, b.tasks[t])}
  BY DEF ApproveReport, RejectReport, WorkspaceState
<1>3. /\ RowsMatch(Mark(b, r.id, "approved"), o)
      /\ RowsMatch(Mark(b, r.id, "rejected"), o)
  BY MarkMatches DEF ReportStatus
<1> HIDE DEF approved, rejected
<1>4. CopyMatches(approved, o)
  BY <1>1, <1>2, <1>3, LinksKept
<1>5. CopyMatches(rejected, o)
  BY <1>1, <1>2, <1>3, LinksKept
<1> QED
  BY <1>4, <1>5 DEF approved, rejected

(* Taking a rejection back changes no row's owner and no card's link.      *)
LEMMA UnrejectMatches ==
    ASSUME NEW o, NEW b \in WorkspaceState, CopyMatches(b, o), NEW r
    PROVE  CopyMatches(UnrejectReport(b, r), o) /\ CopyMatches(UnrejectedOffline(b, r), o)
<1> DEFINE online == UnrejectReport(b, r)
           offline == UnrejectedOffline(b, r)
<1>1. RowsMatch(Mark(b, r.id, "new"), o)
  BY MarkMatches DEF ReportStatus
<1>2. /\ online.reports = Mark(b, r.id, "new") /\ offline.reports = Mark(b, r.id, "new")
      /\ online.tasks = b.tasks
  BY DEF UnrejectReport, UnrejectedOffline, WorkspaceState
<1>3. ASSUME NEW t \in Task PROVE offline.tasks[t].report = b.tasks[t].report
  <2>1. [b.tasks[t] EXCEPT !.exec = "queued"].report = b.tasks[t].report
    BY DEF WorkspaceState, TaskRecord
  <2>2. offline.tasks[t] \in {b.tasks[t], [b.tasks[t] EXCEPT !.exec = "queued"]}
    BY DEF UnrejectedOffline, UnrejectReport, WorkspaceState
  <2> HIDE DEF offline
  <2> QED
    BY <2>1, <2>2
<1> HIDE DEF online, offline
<1>4. CopyMatches(online, o)
  BY <1>1, <1>2 DEF CopyMatches
<1>5. CopyMatches(offline, o)
  BY <1>1, <1>2, <1>3, LinksKept
<1> QED
  BY <1>4, <1>5 DEF online, offline

(* A manual close links the card to a row of its own: the report it had,   *)
(* or the new one, whose ID and text no other row has.                     *)
LEMMA CloseMatches ==
    ASSUME NEW o \in History, NEW b \in WorkspaceState, CopyMatches(b, o), NEW t \in Task
    PROVE  CopyMatches(CompleteTask(b, t, Len(o) + 1), Append(o, t))
<1> DEFINE n == Len(o) + 1
           id == CloseReportId(b.tasks[t], n)
           row == [id |-> id, task |-> t, step |-> b.tasks[t].step, status |-> "new",
                   text |-> n, trust |-> "unset"]
           card == [b.tasks[t] EXCEPT !.exec = "completed", !.done = TRUE, !.report = id]
           rows == IF RowsWithId(b, id) = {} THEN b.reports \cup {row} ELSE b.reports
           next == CompleteTask(b, t, n)
<1>1. CopyMatches(b, Append(o, t))
  BY CopyKeptByOutput
<1>2. n \in 1 .. Len(Append(o, t)) /\ Append(o, t)[n] = t
  BY HistoryGrows
<1>3. id \in 1 .. Len(Append(o, t)) /\ Append(o, t)[id] = t
  BY <1>1, <1>2 DEF CloseReportId, CopyMatches, LinkMatches
<1>4. next.reports = rows /\ next.tasks = [b.tasks EXCEPT ![t] = card] /\ card.report = id
  BY DEF CompleteTask, WorkspaceState, TaskRecord
<1>5. row.id = id /\ row.task = t /\ row.text = n
  OBVIOUS
<1>6. RowsWithId(b, id) = {} => \A r \in b.reports : r.id # id
  BY DEF RowsWithId
<1>7. rows = b.reports \/ (rows = b.reports \cup {row} /\ RowsWithId(b, id) = {})
  OBVIOUS
<1> HIDE DEF n, id, row, card, rows, next
<1>8. RowsMatch(rows, Append(o, t))
  BY <1>1, <1>2, <1>3, <1>5, <1>6, <1>7 DEF CopyMatches, RowsMatch
<1>9. ASSUME NEW u \in Task PROVE LinkMatches(u, next.tasks[u], Append(o, t))
  <2>1. CASE u = t
    BY <1>3, <1>4, <2>1 DEF LinkMatches, WorkspaceState
  <2>2. CASE u # t
    BY <1>1, <1>4, <2>2 DEF CopyMatches, WorkspaceState
  <2> QED
    BY <2>1, <2>2
<1>10. CopyMatches(next, Append(o, t))
  BY <1>4, <1>8, <1>9 DEF CopyMatches
<1> QED
  BY <1>10 DEF next, n

(* Cards that are created, restored or purged have no link, and those that *)
(* are moved, started, trashed or brought back keep theirs.                *)
LEMMA CardEditMatches ==
    ASSUME NEW o, NEW b \in WorkspaceState, CopyMatches(b, o), NEW t \in Task
    PROVE  /\ CopyMatches(CreateTask(b, t), o)
           /\ CopyMatches(DeleteTask(b, t), o)
           /\ CopyMatches(RestoreDeletedTask(b, t), o)
           /\ CopyMatches(PurgeTask(b, t), o)
           /\ CopyMatches(MoveTask(b, t), o)
           /\ CopyMatches(StartTask(b, t), o)
<1>1. ASSUME NEW task, task.report \in {0, b.tasks[t].report}
      PROVE  CopyMatches([b EXCEPT !.tasks = [b.tasks EXCEPT ![t] = task]], o)
  <2> DEFINE next == [b EXCEPT !.tasks = [b.tasks EXCEPT ![t] = task]]
  <2>1. next.reports = b.reports /\ \A u \in Task : next.tasks[u] = IF u = t THEN task ELSE b.tasks[u]
    BY DEF WorkspaceState
  <2> HIDE DEF next
  <2>2. CopyMatches(next, o)
    BY <1>1, <2>1, LinksKept DEF CopyMatches
  <2> QED
    BY <2>2 DEF next
<1>2. /\ NewTask(t).report = 0 /\ Absent(t).report = 0
      /\ \A gone \in BOOLEAN :
            [b.tasks[t] EXCEPT !.trashed = gone].report = b.tasks[t].report
  BY DEF NewTask, Absent, WorkspaceState, TaskRecord
<1> DEFINE away == [b.tasks[t] EXCEPT !.trashed = TRUE]
           back == [b.tasks[t] EXCEPT !.trashed = FALSE]
           moved == [b.tasks[t] EXCEPT !.done = ~b.tasks[t].done]
           again == b.tasks[t].exec = "completed" /\ b.tasks[t].done
           started == [b.tasks[t] EXCEPT
                          !.exec = "active", !.done = b.tasks[t].done /\ ~again,
                          !.step = IF again /\ t \in Workflow THEN 0 ELSE b.tasks[t].step]
<1>3. /\ CreateTask(b, t) = [b EXCEPT !.tasks = [b.tasks EXCEPT ![t] = NewTask(t)]]
      /\ PurgeTask(b, t) = [b EXCEPT !.tasks = [b.tasks EXCEPT ![t] = Absent(t)]]
      /\ DeleteTask(b, t) = [b EXCEPT !.tasks = [b.tasks EXCEPT ![t] = away]]
      /\ RestoreDeletedTask(b, t) = [b EXCEPT !.tasks = [b.tasks EXCEPT ![t] = back]]
      /\ MoveTask(b, t) = [b EXCEPT !.tasks = [b.tasks EXCEPT ![t] = moved]]
  BY DEF CreateTask, PurgeTask, DeleteTask, RestoreDeletedTask, MoveTask
<1>4. StartTask(b, t) = [b EXCEPT !.tasks = [b.tasks EXCEPT ![t] = started]]
  BY DEF StartTask, WorkspaceState, TaskRecord
<1>5. /\ away.report = b.tasks[t].report /\ back.report = b.tasks[t].report
      /\ moved.report = b.tasks[t].report /\ started.report = b.tasks[t].report
  BY DEF WorkspaceState, TaskRecord
<1>6. CopyMatches(CreateTask(b, t), o) /\ CopyMatches(PurgeTask(b, t), o)
  BY <1>1, <1>2, <1>3
<1> HIDE DEF away, back, moved, started
<1>7. /\ CopyMatches(DeleteTask(b, t), o) /\ CopyMatches(RestoreDeletedTask(b, t), o)
      /\ CopyMatches(MoveTask(b, t), o) /\ CopyMatches(StartTask(b, t), o)
  BY <1>1, <1>3, <1>4, <1>5
<1> QED
  BY <1>6, <1>7

(* A card rebuilt from a report has no link.                               *)
LEMMA RestoreTaskMatches ==
    ASSUME NEW o, NEW b \in WorkspaceState, CopyMatches(b, o), NEW r, r.task \in Task
    PROVE  CopyMatches(RestoreTask(b, r), o)
<1> DEFINE next == RestoreTask(b, r)
           card == [NewTask(r.task) EXCEPT !.step = RestoreStep(r),
                                           !.agent = Plan[r.task][RestoreStep(r) + 1]]
<1>1. card.report = 0
  BY DEF NewTask
<1>2. next.reports = b.reports /\ next.tasks = [b.tasks EXCEPT ![r.task] = card]
  BY DEF RestoreTask, WorkspaceState
<1>3. DOMAIN b.tasks = Task
  BY DEF WorkspaceState
<1> HIDE DEF next, card
<1>4. CopyMatches(next, o)
  BY <1>1, <1>2, <1>3, LinksKept DEF CopyMatches
<1> QED
  BY <1>4 DEF next

(* The edits of many cards keep, clear or drop links and drop rows.        *)
LEMMA BulkEditMatches ==
    ASSUME NEW o, NEW b \in WorkspaceState, CopyMatches(b, o)
    PROVE  /\ CopyMatches(ClearDone(b), o)
           /\ CopyMatches(ClearInbox(b), o)
           /\ CopyMatches(TrashAll(b), o)
<1> DEFINE cleared == ClearDone(b)
           empty == ClearInbox(b)
           trashed == TrashAll(b)
<1>1. cleared.reports = b.reports /\ trashed.reports = b.reports /\ empty.tasks = b.tasks
  BY DEF ClearDone, TrashAll, ClearInbox, WorkspaceState
<1>2. RowsMatch(empty.reports, o)
  BY SubsetOfRowsMatches DEF ClearInbox, CopyMatches, WorkspaceState
<1>3. ASSUME NEW t \in Task
      PROVE  /\ cleared.tasks[t].report \in {0, b.tasks[t].report}
             /\ trashed.tasks[t].report = b.tasks[t].report
  <2> DEFINE gone == [b.tasks[t] EXCEPT !.trashed = TRUE]
  <2>1. gone.report = b.tasks[t].report /\ Absent(t).report = 0
    BY DEF WorkspaceState, TaskRecord, Absent, NewTask
  <2>2. cleared.tasks[t] \in {Absent(t), b.tasks[t]} /\ trashed.tasks[t] \in {b.tasks[t], gone}
    BY DEF ClearDone, TrashAll, WorkspaceState
  <2> HIDE DEF gone, cleared, trashed
  <2> QED
    BY <2>1, <2>2
<1> HIDE DEF cleared, empty, trashed
<1>4. CopyMatches(cleared, o) /\ CopyMatches(trashed, o)
  BY <1>1, <1>3, LinksKept DEF CopyMatches
<1>5. CopyMatches(empty, o)
  BY <1>1, <1>2 DEF CopyMatches
<1> QED
  BY <1>4, <1>5 DEF cleared, empty, trashed

(* No operation of the board breaks a copy.                                *)
LEMMA EditsMatch ==
    ASSUME NEW o, NEW b \in WorkspaceState, CopyMatches(b, o),
           NEW kind \in BoardEdits \ {"complete"}, NEW new \in SUBSET Task,
           NEW edited \in EditsOfKind(kind, b, new)
    PROVE  CopyMatches(edited, o)
<1>1. CASE kind = "touch"
  BY <1>1 DEF EditsOfKind
<1>2. CASE kind \in {"approve", "reject"}
  <2>1. \E r \in b.reports : edited \in {ApproveReport(b, r), RejectReport(b, r)}
    BY <1>2 DEF EditsOfKind, NewReports
  <2> QED
    BY <2>1, ReviewMatches
<1>3. CASE kind = "restore"
  <2>1. \E r \in b.reports : r.task \in Task /\ edited = RestoreTask(b, r)
    BY <1>3 DEF EditsOfKind
  <2> QED
    BY <2>1, RestoreTaskMatches
<1>4. CASE kind \in {"create", "delete", "undelete", "purge", "move", "start"}
  <2>1. \E t \in Task : edited \in {CreateTask(b, t), DeleteTask(b, t),
                                    RestoreDeletedTask(b, t), PurgeTask(b, t),
                                    MoveTask(b, t), StartTask(b, t)}
    BY <1>4 DEF EditsOfKind, Trashed, OnBoard, Shown, Startable
  <2> QED
    BY <2>1, CardEditMatches
<1>5. CASE kind \in {"clear", "reset"}
  <2>1. edited \in {ClearDone(b), ClearInbox(b), TrashAll(b)}
    BY <1>5 DEF EditsOfKind
  <2> QED
    BY <2>1, BulkEditMatches
<1>6. CASE kind = "unreject"
  <2>1. \E r \in b.reports : edited \in {UnrejectReport(b, r), UnrejectedOffline(b, r)}
    BY <1>6 DEF EditsOfKind, RejectedReports
  <2> QED
    BY <2>1, UnrejectMatches
<1> QED
  BY <1>1, <1>2, <1>3, <1>4, <1>5, <1>6 DEF BoardEdits

---------------------------------------------------------------------------
(* The steps of the server.                                                *)

(* saveLocked writes what memory holds or nothing.                         *)
LEMMA StoreMatches ==
    ASSUME NEW o, NEW new, NEW ok, CopyMatches(disk, o), CopyMatches(new, o), Store(new, ok)
    PROVE  CopyMatches(mem', o) /\ CopyMatches(disk', o)
BY DEF Store

(* replace of a matching copy leaves memory and row matching.              *)
LEMMA ReplaceMatches ==
    ASSUME NEW o, NEW next \in WorkspaceState, NEW expired, NEW ok,
           CopyMatches(mem, o), CopyMatches(disk, o), CopyMatches(next, o),
           Replace(next, expired, ok)
    PROVE  CopyMatches(mem', o) /\ CopyMatches(disk', o)
BY NormalizeMatches, StoreMatches DEF Replace, store

(* A step that only changes memory and row keeps all copies matching.      *)
LEMMA MatchAfterStore ==
    ASSUME RowsBelongToTheirTask, outs' = outs, UNCHANGED <<client, reset>>,
           CopyMatches(mem', outs), CopyMatches(disk', outs)
    PROVE  RowsBelongToTheirTask'
BY DEF RowsBelongToTheirTask

(* So does one that adds an output to the history.                         *)
LEMMA MatchAfterOutput ==
    ASSUME RowsBelongToTheirTask, TypeOK, NEW t \in Task \cup {NoTask}, NEW new, NEW ok,
           outs' = Append(outs, t), UNCHANGED <<client, reset>>,
           CopyMatches(new, outs'), Store(new, ok)
    PROVE  RowsBelongToTheirTask'
<1>1. outs \in History
  BY DEF TypeOK, History
<1>2. \A s \in {mem, disk, client.body, client.sent, client.edited, reset.view} :
        CopyMatches(s, outs')
  BY <1>1, CopyKeptByOutput DEF RowsBelongToTheirTask
<1>3. CopyMatches(mem', outs') /\ CopyMatches(disk', outs')
  BY <1>2, StoreMatches
<1> QED
  BY <1>2, <1>3 DEF RowsBelongToTheirTask

(* Every step of a goroutine keeps all copies matching.                    *)
LEMMA RunnerStepMatches ==
    ASSUME RowsBelongToTheirTask, TypeOK, NEW i \in Slot, RunnerStep(i)
    PROVE  RowsBelongToTheirTask'
<1>1. /\ mem \in WorkspaceState /\ disk \in WorkspaceState /\ runner[i].task \in Task
      /\ outs \in History
  BY DEF TypeOK, RunnerRecord, History
<1>2. CopyMatches(mem, outs) /\ CopyMatches(disk, outs)
  BY DEF RowsBelongToTheirTask
<1>3. CASE Begin(i) \/ CallReturns(i)
  BY <1>3 DEF Begin, CallReturns, RowsBelongToTheirTask
<1>4. ASSUME NEW ok \in BOOLEAN, WriteLog(i, ok) PROVE RowsBelongToTheirTask'
  <2>1. CopyMatches(AddSessionLog(mem), outs)
    BY <1>1, <1>2, AddSessionLogMatches
  <2>2. CopyMatches(mem', outs) /\ CopyMatches(disk', outs)
    BY <1>2, <1>4, <2>1, StoreMatches DEF WriteLog
  <2> QED
    BY <1>4, <2>2, MatchAfterStore DEF WriteLog
<1>5. ASSUME NEW ok \in BOOLEAN, Activate(i, ok) PROVE RowsBelongToTheirTask'
  <2>1. CopyMatches(SetTaskExecution(mem, runner[i].task, "active", runner[i].agent), outs)
    BY <1>1, <1>2, SetTaskExecutionMatches
  <2>2. CopyMatches(mem', outs) /\ CopyMatches(disk', outs)
    BY <1>2, <1>5, <2>1, StoreMatches DEF Activate
  <2> QED
    BY <1>5, <2>2, MatchAfterStore DEF Activate
<1>6. ASSUME NEW ok \in BOOLEAN, NEW from, NEW to, Requeue(i, ok, from, to)
      PROVE  RowsBelongToTheirTask'
  <2>1. CopyMatches(SetTaskExecution(mem, runner[i].task, "queued", runner[i].agent), outs)
    BY <1>1, <1>2, SetTaskExecutionMatches
  <2>2. CopyMatches(mem', outs) /\ CopyMatches(disk', outs)
    BY <1>2, <1>6, <2>1, StoreMatches DEF Requeue
  <2> QED
    BY <1>6, <2>2, MatchAfterStore DEF Requeue
<1>7. ASSUME NEW ok \in BOOLEAN, DeliverReportStep(i, ok) PROVE RowsBelongToTheirTask'
  <2> DEFINE t == runner[i].task
             new == CompleteTaskWithReport(mem, t, runner[i].agent, Len(outs) + 1)
  <2>1. CopyMatches(new, Append(outs, t))
    BY <1>1, <1>2, CompleteMatches
  <2>2. outs' = Append(outs, t) /\ UNCHANGED <<client, reset>> /\ Store(new, ok)
    BY <1>7 DEF DeliverReportStep
  <2> HIDE DEF new
  <2> QED
    BY <1>1, <2>1, <2>2, MatchAfterOutput
<1>8. ASSUME NEW ok \in BOOLEAN, DeliverNextStep(i, ok) PROVE RowsBelongToTheirTask'
  <2>1. CopyMatches(AdvanceWorkflowStep(mem, runner[i].task, runner[i].step + 1), outs)
    BY <1>1, <1>2, AdvanceMatches
  <2>2. CopyMatches(mem', outs) /\ CopyMatches(disk', outs)
    BY <1>2, <1>8, <2>1, StoreMatches DEF DeliverNextStep
  <2> QED
    BY <1>8, <2>2, MatchAfterStore DEF DeliverNextStep
<1> QED
  BY <1>3, <1>4, <1>5, <1>6, <1>7, <1>8 DEF RunnerStep, Undo, CallFails

(* So does every webhook, run request, watchdog pass and change of trust.  *)
LEMMA ServerStepMatches ==
    ASSUME RowsBelongToTheirTask, TypeOK,
           Webhook \/ (\E t \in Task : TaskRun(t)) \/ Watchdog \/ ReportTrust
    PROVE  RowsBelongToTheirTask'
<1>1. mem \in WorkspaceState /\ disk \in WorkspaceState /\ outs \in History
  BY DEF TypeOK, History
<1>2. CopyMatches(mem, outs) /\ CopyMatches(disk, outs)
  BY DEF RowsBelongToTheirTask
<1>3. ASSUME NEW ok \in BOOLEAN, NEW t \in Task, WebhookIngest(t, ok)
      PROVE  RowsBelongToTheirTask'
  <2>1. CopyMatches(mem', outs) /\ CopyMatches(disk', outs)
    BY <1>1, <1>2, <1>3, AddTaskMatches, StoreMatches DEF WebhookIngest
  <2> QED
    BY <1>3, <2>1, MatchAfterStore DEF WebhookIngest
<1>4. ASSUME NEW ok \in BOOLEAN, WebhookNotify(ok) PROVE RowsBelongToTheirTask'
  <2> DEFINE new == AddBossReportOnly(mem, Len(outs) + 1)
  <2>1. CopyMatches(new, Append(outs, NoTask))
    BY <1>1, <1>2, AddBossReportMatches
  <2>2. outs' = Append(outs, NoTask) /\ UNCHANGED <<client, reset>> /\ Store(new, ok)
    BY <1>4 DEF WebhookNotify
  <2> HIDE DEF new
  <2> QED
    BY <2>1, <2>2, MatchAfterOutput
<1>5. ASSUME NEW t \in Task, TaskRun(t) PROVE RowsBelongToTheirTask'
  BY <1>5 DEF TaskRun, RowsBelongToTheirTask
<1>6. ASSUME NEW old \in SUBSET Task, NEW ok \in BOOLEAN,
             RetryStuckTasks(old, ok) \/ RecoverOrphaned(old, ok)
      PROVE  RowsBelongToTheirTask'
  <2>1. CopyMatches(mem', outs) /\ CopyMatches(disk', outs)
    BY <1>1, <1>2, <1>6, WatchdogsMatch, StoreMatches DEF RetryStuckTasks, RecoverOrphaned
  <2> QED
    BY <1>6, <2>1, MatchAfterStore DEF RetryStuckTasks, RecoverOrphaned
<1>7. ASSUME NEW ok \in BOOLEAN, NEW id, NEW trust \in Trust, SetTrust(id, trust, ok)
      PROVE  RowsBelongToTheirTask'
  <2>1. CopyMatches(mem', outs) /\ CopyMatches(disk', outs)
    BY <1>1, <1>2, <1>7, SetReportTrustMatches, StoreMatches DEF SetTrust
  <2> QED
    BY <1>7, <2>1, MatchAfterStore DEF SetTrust
<1> QED
  BY <1>3, <1>4, <1>5, <1>6, <1>7 DEF Webhook, Watchdog, ReportTrust, Trust

(* A browser without an answer keeps one of the two copies it had.         *)
LEMMA UnansweredKeeps ==
    ASSUME Unanswered
    PROVE  /\ client'.body \in {client.body, client.edited}
           /\ client'.sent = EmptyWorkspace /\ client'.edited = EmptyWorkspace
<1>1. PICK kept \in KeptCopies : client' = IdleClient(kept, client.tag)
  BY DEF Unanswered
<1>2. kept \in {client.body, client.edited}
  BY DEF KeptCopies
<1> QED
  BY <1>1, <1>2 DEF IdleClient

(* Every step of a reset and of the browser's requests keeps all copies   *)
(* matching.                                                               *)
LEMMA RequestStepMatches ==
    ASSUME RowsBelongToTheirTask, TypeOK, ResetHandler \/ Browser
    PROVE  RowsBelongToTheirTask'
<1>1. /\ mem \in WorkspaceState /\ disk \in WorkspaceState
      /\ client.body \in WorkspaceState /\ client.sent \in WorkspaceState
      /\ reset.view \in WorkspaceState
  BY DEF TypeOK, ClientRecord
<1>2. /\ CopyMatches(mem, outs) /\ CopyMatches(disk, outs)
      /\ CopyMatches(client.body, outs) /\ CopyMatches(client.sent, outs)
      /\ CopyMatches(client.edited, outs) /\ CopyMatches(reset.view, outs)
      /\ CopyMatches(EmptyWorkspace, outs)
  BY EmptyMatches DEF RowsBelongToTheirTask
<1>3. CASE TaskResetSnapshot
  BY <1>2, <1>3 DEF TaskResetSnapshot, RowsBelongToTheirTask
<1>4. ASSUME NEW ok \in BOOLEAN, NEW t \in Task, TaskReset(t, ok)
      PROVE  RowsBelongToTheirTask'
  <2> DEFINE new == SetTaskExecution(mem, t, "queued", mem.tasks[t].agent)
  <2>1. CopyMatches(new, outs)
    BY <1>1, <1>2, SetTaskExecutionMatches
  <2>2. Store(new, ok)
    BY <1>4 DEF TaskReset
  <2> HIDE DEF new
  <2>3. CopyMatches(mem', outs) /\ CopyMatches(disk', outs)
    BY <1>2, <2>1, <2>2, StoreMatches
  <2>4. reset'.view = reset.view /\ client' = client /\ outs' = outs
    BY <1>4 DEF TaskReset, TypeOK
  <2> QED
    BY <1>2, <2>3, <2>4 DEF RowsBelongToTheirTask
<1>5. ASSUME NEW ok \in BOOLEAN, NEW expired, TaskResetReplace(expired, ok)
      PROVE  RowsBelongToTheirTask'
  <2>1. CopyMatches(mem', outs) /\ CopyMatches(disk', outs)
    BY <1>1, <1>2, <1>5, ReplaceMatches DEF TaskResetReplace
  <2>2. reset'.view = EmptyWorkspace /\ client' = client /\ outs' = outs
    BY <1>5 DEF TaskResetReplace, IdleReset
  <2> QED
    BY <1>2, <2>1, <2>2 DEF RowsBelongToTheirTask
<1>6. ASSUME mem' = mem, disk' = disk, reset' = reset, outs' = outs,
             CopyMatches(client'.body, outs), CopyMatches(client'.sent, outs),
             CopyMatches(client'.edited, outs)
      PROVE  RowsBelongToTheirTask'
  BY <1>2, <1>6 DEF RowsBelongToTheirTask
<1>7. CASE GetSnapshot
  <2>1. client'.body = client.body /\ client'.sent = mem /\ client'.edited = client.edited
    BY <1>7 DEF GetSnapshot, TypeOK, ClientRecord
  <2> QED
    BY <1>2, <1>6, <1>7, <2>1 DEF GetSnapshot
<1>8. ASSUME NEW full \in BOOLEAN, GetTag(full) PROVE RowsBelongToTheirTask'
  <2>1. CopyMatches(Refresh(client.body, client.sent), outs)
    BY <1>1, <1>2, RefreshMatches
  <2>2. /\ client'.body \in {client.sent, Refresh(client.body, client.sent)}
        /\ client'.sent = EmptyWorkspace /\ client'.edited = EmptyWorkspace
    BY <1>8 DEF GetTag, IdleClient
  <2> QED
    BY <1>2, <1>6, <1>8, <2>1, <2>2 DEF GetTag
<1>9. ASSUME NEW kind \in EditKinds \ {"complete"}, PutCheck(kind) PROVE RowsBelongToTheirTask'
  <2>1. PICK edited \in EditsOfKind(kind, client.body, unborn) : Send(kind, edited)
    BY <1>9 DEF PutCheck
  <2>2. CopyMatches(edited, outs)
    BY <1>1, <1>2, EditsMatch, EditKindsAssumption DEF TypeOK
  <2>3. client'.body = client.body /\ client'.sent = edited /\ client'.edited = edited
    BY <2>1 DEF Send, TypeOK, ClientRecord
  <2> QED
    BY <1>2, <1>6, <1>9, <2>2, <2>3 DEF PutCheck, PutAccepted
<1>14. ASSUME NEW t \in Task, PutClose(t) PROVE RowsBelongToTheirTask'
  <2> DEFINE closed == CompleteTask(client.body, t, Len(outs) + 1)
  <2>1. outs \in History
    BY DEF TypeOK, History
  <2>2. CopyMatches(closed, Append(outs, t))
    BY <1>1, <1>2, <2>1, CloseMatches
  <2>3. \A s \in {mem, disk, client.body, reset.view} : CopyMatches(s, Append(outs, t))
    BY <1>2, <2>1, CopyKeptByOutput
  <2>4. Send("complete", closed) /\ outs' = Append(outs, t)
        /\ UNCHANGED <<mem, disk, reset>>
    BY <1>14 DEF PutClose, PutAccepted
  <2> HIDE DEF closed
  <2>5. client'.body = client.body /\ client'.sent = closed /\ client'.edited = closed
    BY <2>4 DEF Send, TypeOK, ClientRecord
  <2> QED
    BY <2>2, <2>3, <2>4, <2>5 DEF RowsBelongToTheirTask
<1>10. CASE PutMerge
  <2>1. CopyMatches(MergeWorkspace(mem, client.sent), outs)
    BY <1>1, <1>2, MergeMatches
  <2>2. /\ client'.body = client.body /\ client'.edited = client.edited
        /\ client'.sent \in {client.sent, MergeWorkspace(mem, client.sent)}
    BY <1>10 DEF PutMerge, TypeOK, ClientRecord
  <2> QED
    BY <1>2, <1>6, <1>10, <2>1, <2>2 DEF PutMerge
<1>11. ASSUME NEW ok \in BOOLEAN, NEW expired, PutReplace(expired, ok)
       PROVE  RowsBelongToTheirTask'
  <2>1. CopyMatches(mem', outs) /\ CopyMatches(disk', outs)
    BY <1>1, <1>2, <1>11, ReplaceMatches DEF PutReplace
  <2>2. /\ client'.body \in {client.body, client.edited}
        /\ client'.sent = EmptyWorkspace
        /\ client'.edited \in {client.edited, EmptyWorkspace}
    <3>1. CASE ok
      BY <1>11, <3>1 DEF PutReplace, TypeOK, ClientRecord
    <3>2. CASE ~ok
      BY <1>11, <3>2, UnansweredKeeps DEF PutReplace
    <3> QED
      BY <3>1, <3>2
  <2>3. reset' = reset /\ outs' = outs
    BY <1>11 DEF PutReplace
  <2> QED
    BY <1>2, <2>1, <2>2, <2>3 DEF RowsBelongToTheirTask
<1>12. CASE PutRespond
  <2>1. /\ client'.body \in {mem, client.edited}
        /\ client'.sent = EmptyWorkspace /\ client'.edited = EmptyWorkspace
    BY <1>12 DEF PutRespond, IdleClient
  <2> QED
    BY <1>2, <1>6, <1>12, <2>1 DEF PutRespond
<1>13. CASE PutLost
  <2>1. /\ client'.body \in {client.body, client.edited}
        /\ client'.sent = EmptyWorkspace /\ client'.edited = EmptyWorkspace
    BY <1>13, UnansweredKeeps DEF PutLost
  <2> QED
    BY <1>2, <1>6, <1>13, <2>1 DEF PutLost
<1> QED
  BY <1>3, <1>4, <1>5, <1>7, <1>8, <1>9, <1>10, <1>11, <1>12, <1>13, <1>14
     DEF ResetHandler, Browser

(* So do a crash and the load after it.                                    *)
LEMMA RestartMatches ==
    ASSUME RowsBelongToTheirTask, TypeOK, Crash \/ Restart
    PROVE  RowsBelongToTheirTask'
<1>1. CASE Crash
  <2>1. /\ client'.body \in {client.body, client.edited}
        /\ client'.sent = EmptyWorkspace
        /\ client'.edited = EmptyWorkspace /\ reset'.view = EmptyWorkspace
        /\ mem' = disk /\ disk' = disk /\ outs' = outs
    BY <1>1, UnansweredKeeps DEF Crash, IdleReset
  <2> QED
    BY <2>1, EmptyMatches DEF RowsBelongToTheirTask
<1>2. ASSUME NEW expired, Load(expired) PROVE RowsBelongToTheirTask'
  <2>1. disk \in WorkspaceState /\ CopyMatches(disk, outs)
    BY DEF TypeOK, RowsBelongToTheirTask
  <2>2. CopyMatches(mem', outs) /\ CopyMatches(disk', outs)
    BY <1>2, <2>1, NormalizeMatches, StoreMatches DEF Load
  <2> QED
    BY <1>2, <2>2, MatchAfterStore DEF Load
<1> QED
  BY <1>1, <1>2 DEF Restart

(* A fresh board matches the empty history.                                *)
LEMMA InitMatches == Init => RowsBelongToTheirTask
<1> SUFFICES ASSUME Init PROVE RowsBelongToTheirTask
  OBVIOUS
<1>1. PICK plain \in SUBSET (Task \ Workflow) :
        mem = [EmptyWorkspace EXCEPT !.tasks =
                [t \in Task |-> IF t \in plain THEN NewTask(t) ELSE Absent(t)]]
  BY DEF Init
<1>2. mem.reports = {} /\ \A t \in Task : mem.tasks[t] \in {NewTask(t), Absent(t)}
  BY <1>1 DEF EmptyWorkspace
<1>3. CopyMatches(mem, outs)
  BY <1>2, NewTaskMatches DEF CopyMatches, RowsMatch
<1> QED
  BY <1>3, EmptyMatches DEF Init, IdleClient, IdleReset, RowsBelongToTheirTask

(* On every board, and in every copy of it that a browser or a handler     *)
(* holds, report rows and the links of the cards to them belong to the     *)
(* task that produced the output, and no two rows share an ID: merging a   *)
(* stale copy, retrying, respawning and restarting never mix up reports.   *)
THEOREM ReportsBelong == Spec => []RowsBelongToTheirTask
<1>1. ASSUME TypeOK, RowsBelongToTheirTask, [Next]_vars PROVE RowsBelongToTheirTask'
  <2>1. CASE UNCHANGED vars
    BY <1>1, <2>1 DEF vars, RowsBelongToTheirTask
  <2>2. CASE Next
    BY <1>1, <2>2, RunnerStepMatches, ServerStepMatches, RequestStepMatches, RestartMatches
       DEF Next
  <2> QED
    BY <1>1, <2>1, <2>2
<1> QED
  BY <1>1, InitMatches, TypeCorrect, PTL DEF Spec

---------------------------------------------------------------------------
(* CompletedHasReport.                                                     *)

Finished(s) == \A t \in Task : HasItsReport(s, t)

(* A step that finishes no task, and keeps the waiting reports of those    *)
(* that stay finished as they are, keeps every finished task its report.   *)
LEMMA FinishedKept ==
    ASSUME NEW s \in WorkspaceState, NEW next, Finished(s),
           \A t \in Task : \/ next.tasks[t].exec # "completed"
                           \/ /\ next.tasks[t] = s.tasks[t]
                              /\ HasNewReport(s, t) => HasNewReport(next, t)
    PROVE  Finished(next)
BY DEF Finished, HasItsReport

(* Adding a task, a session entry or a requeue finishes no task without a  *)
(* report.                                                                 *)
LEMMA SimpleStepsFinished ==
    ASSUME NEW s \in WorkspaceState, Finished(s), NEW t \in Task, NEW a,
           NEW status \in {"active", "queued"}
    PROVE  /\ Finished(AddTask(s, t))
           /\ Finished(AddSessionLog(s))
           /\ Finished(SetTaskExecution(s, t, status, a))
<1> DEFINE added == AddTask(s, t)
           logged == AddSessionLog(s)
           set == SetTaskExecution(s, t, status, a)
           task == [s.tasks[t] EXCEPT !.exec = status]
<1>1. task.exec # "completed" /\ NewTask(t).exec # "completed"
  BY DEF WorkspaceState, TaskRecord, NewTask
<1>2. /\ added.reports = s.reports /\ added.tasks = [s.tasks EXCEPT ![t] = NewTask(t)]
      /\ logged.reports = s.reports /\ logged.tasks = s.tasks
      /\ set.reports = s.reports /\ set.tasks = [s.tasks EXCEPT ![t] = task]
  BY DEF AddTask, AddSessionLog, SetTaskExecution, WorkspaceState
<1>3. DOMAIN s.tasks = Task
  BY DEF WorkspaceState
<1> HIDE DEF added, logged, set, task
<1>4. Finished(added)
  BY <1>1, <1>2, <1>3, FinishedKept DEF HasNewReport
<1>5. Finished(logged)
  BY <1>2, FinishedKept DEF HasNewReport
<1>6. Finished(set)
  BY <1>1, <1>2, <1>3, FinishedKept DEF HasNewReport
<1> QED
  BY <1>4, <1>5, <1>6 DEF added, logged, set

(* Moving a workflow to its next step leaves it queued, so it owes no      *)
(* report.                                                                 *)
LEMMA AdvanceFinished ==
    ASSUME NEW s \in WorkspaceState, Finished(s), NEW t \in Task, NEW next
    PROVE  Finished(AdvanceWorkflowStep(s, t, next))
<1> DEFINE task == MoveToStep(t, s.tasks[t], next)
           after == AdvanceWorkflowStep(s, t, next)
<1>1. CASE ~Present(s, t)
  BY <1>1 DEF AdvanceWorkflowStep
<1>2. CASE Present(s, t)
  <2>1. task.exec # "completed"
    BY DEF MoveToStep, WorkspaceState, TaskRecord
  <2>2. after.reports = s.reports /\ after.tasks = [s.tasks EXCEPT ![t] = task]
    BY <1>2 DEF AdvanceWorkflowStep, WorkspaceState
  <2>3. DOMAIN s.tasks = Task
    BY DEF WorkspaceState
  <2> HIDE DEF task, after
  <2>4. Finished(after)
    BY <2>1, <2>2, <2>3, FinishedKept DEF HasNewReport
  <2> QED
    BY <2>4 DEF after
<1> QED
  BY <1>1, <1>2

(* An alarm's report and a change of trust leave every task's report where *)
(* it is.                                                                  *)
LEMMA InboxStepsFinished ==
    ASSUME NEW s \in WorkspaceState, Finished(s), NEW n, NEW id, NEW trust \in Trust
    PROVE  Finished(AddBossReportOnly(s, n)) /\ Finished(SetReportTrust(s, id, trust))
<1> DEFINE added == AddBossReportOnly(s, n)
           set == SetReportTrust(s, id, trust)
<1>1. added.tasks = s.tasks /\ s.reports \subseteq added.reports
  BY DEF AddBossReportOnly, WorkspaceState
<1>2. set.tasks = s.tasks
  BY DEF SetReportTrust, WorkspaceState
<1>3. ASSUME NEW r \in s.reports
      PROVE  \E q \in set.reports : q.task = r.task /\ q.status = r.status
  <2> DEFINE q == IF r.id = id THEN [r EXCEPT !.trust = trust] ELSE r
  <2>1. q \in set.reports
    BY DEF SetReportTrust, WorkspaceState
  <2>2. q.task = r.task /\ q.status = r.status
    BY DEF WorkspaceState, ReportRecord
  <2> HIDE DEF q, set
  <2> QED
    BY <2>1, <2>2
<1> HIDE DEF added, set
<1>4. Finished(added)
  BY <1>1, FinishedKept DEF HasNewReport
<1>5. Finished(set)
  BY <1>2, <1>3, FinishedKept DEF HasNewReport
<1> QED
  BY <1>4, <1>5 DEF added, set

(* The watchdogs change only tasks that are active or retrying.            *)
LEMMA WatchdogsFinished ==
    ASSUME NEW s \in WorkspaceState, Finished(s), NEW old \in SUBSET Task
    PROVE  /\ Finished(MarkStuckTasksRetrying(s, old))
           /\ Finished(RecoverOrphanedRetrying(s, old))
<1> DEFINE marked == MarkStuckTasksRetrying(s, old)
           recovered == RecoverOrphanedRetrying(s, old)
<1>1. marked.reports = s.reports /\ recovered.reports = s.reports
  BY DEF MarkStuckTasksRetrying, RecoverOrphanedRetrying, WorkspaceState
<1>2. ASSUME NEW t \in Task
      PROVE  /\ marked.tasks[t] = s.tasks[t] \/ marked.tasks[t].exec # "completed"
             /\ recovered.tasks[t] = s.tasks[t] \/ recovered.tasks[t].exec # "completed"
  <2>1. s.tasks[t] \in TaskRecord
    BY DEF WorkspaceState
  <2> DEFINE again(exec) == [s.tasks[t] EXCEPT !.exec = exec, !.retries = s.tasks[t].retries + 1]
  <2>2. /\ Released(s.tasks[t]).exec # "completed"
        /\ again("retrying").exec # "completed"
        /\ again("queued").exec # "completed"
    BY <2>1 DEF Released, TaskRecord
  <2>3. marked.tasks[t] \in {s.tasks[t], Released(s.tasks[t]), again("retrying")}
    BY DEF MarkStuckTasksRetrying, WorkspaceState
  <2>4. recovered.tasks[t] \in {s.tasks[t], Released(s.tasks[t]), again("queued")}
    BY DEF RecoverOrphanedRetrying, WorkspaceState
  <2> HIDE DEF marked, recovered
  <2> QED
    BY <2>2, <2>3, <2>4
<1> HIDE DEF marked, recovered
<1>3. Finished(marked)
  BY <1>1, <1>2, FinishedKept DEF HasNewReport
<1>4. Finished(recovered)
  BY <1>1, <1>2, FinishedKept DEF HasNewReport
<1> QED
  BY <1>3, <1>4 DEF marked, recovered

(* Normalizing repairs any state at all, and so whatever a PUT, a reset or *)
(* a load brings in.                                                       *)
LEMMA NormalizeFinishes ==
    ASSUME NEW s \in WorkspaceState, NEW expired
    PROVE  Finished(NormalizeWorkspaceState(s, expired))
<1> DEFINE next == NormalizeWorkspaceState(s, expired)
<1>1. ASSUME NEW t \in Task PROVE HasItsReport(next, t)
  <2>1. s.tasks[t] \in TaskRecord
    BY DEF WorkspaceState
  <2> DEFINE queued == [s.tasks[t] EXCEPT !.exec = "queued"]
  <2>2. queued.exec = "queued" /\ Absent(t).exec = "absent"
    BY <2>1 DEF TaskRecord, Absent, NewTask
  <2>3. next.tasks[t] = NormalizeTask(s, t, expired)
    BY DEF NormalizeWorkspaceState, WorkspaceState
  <2>4. \/ next.tasks[t] \in {Absent(t), queued}
        \/ next.tasks[t] = s.tasks[t] /\ ~IsOrphanCompleted(s, t)
    BY <2>3 DEF NormalizeTask, Interrupted
  <2>5. HasNewReport(s, t) => HasNewReport(next, t)
    <3>1. ASSUME NEW r \in s.reports
          PROVE  /\ BackfillTrust(r) \in next.reports
                 /\ BackfillTrust(r).task = r.task /\ BackfillTrust(r).status = r.status
      <4>1. BackfillTrust(r) \in next.reports
        BY DEF NormalizeWorkspaceState, WorkspaceState
      <4>2. BackfillTrust(r).task = r.task /\ BackfillTrust(r).status = r.status
        BY DEF BackfillTrust, WorkspaceState, ReportRecord
      <4> QED
        BY <4>1, <4>2
    <3> HIDE DEF next
    <3> QED
      BY <3>1 DEF HasNewReport
  <2> HIDE DEF next, queued
  <2> QED
    BY <2>2, <2>4, <2>5 DEF HasItsReport, IsOrphanCompleted
<1> QED
  BY <1>1 DEF Finished

(* A delivery rewrites no row of another task.                             *)
LEMMA CompleteFinishes ==
    ASSUME NEW o \in History, NEW s \in WorkspaceState, CopyMatches(s, o), Finished(s),
           NEW t \in Task, NEW a
    PROVE  Finished(CompleteTaskWithReport(s, t, a, Len(o) + 1))
<1> DEFINE n == Len(o) + 1
           id == ReportIdFor(s, t, n)
           next == CompleteTaskWithReport(s, t, a, n)
           task == IF Present(s, t) THEN FinishTask(t, s.tasks[t], id) ELSE s.tasks[t]
<1>1. id # 0 /\ id \in 1 .. Len(Append(o, t)) /\ Append(o, t)[id] = t
  BY ReportIdMatches
<1>2. next.reports = DeliverReport(s, t, id, n) /\ next.tasks = [s.tasks EXCEPT ![t] = task]
  BY DEF CompleteTaskWithReport, WorkspaceState
<1>3. task.report = id \/ task.exec # "completed"
  BY DEF Present, FinishTask, WorkspaceState, TaskRecord
<1>4. DOMAIN s.tasks = Task
  BY DEF WorkspaceState
<1>5. ASSUME NEW u \in Task, u # t, HasNewReport(s, u) PROVE HasNewReport(next, u)
  <2>1. PICK r \in s.reports : r.task = u /\ r.status = "new"
    BY <1>5 DEF HasNewReport
  <2>2. r.id \in 1 .. Len(o) /\ o[r.id] = u
    BY <2>1 DEF CopyMatches, RowsMatch
  <2>3. r.id # id
    BY <1>1, <1>5, <2>2, HistoryGrows
  <2>4. r \in DeliverReport(s, t, id, n)
    BY <2>3 DEF DeliverReport, RowsWithId
  <2> HIDE DEF next, n, id
  <2> QED
    BY <1>2, <2>1, <2>4 DEF HasNewReport
<1> HIDE DEF next, task, id
<1>6. \A u \in Task : HasItsReport(next, u)
  <2> SUFFICES ASSUME NEW u \in Task PROVE HasItsReport(next, u)
    OBVIOUS
  <2>1. CASE u = t
    BY <1>1, <1>2, <1>3, <1>4, <2>1 DEF HasItsReport
  <2>2. CASE u # t
    <3>1. next.tasks[u] = s.tasks[u]
      BY <1>2, <1>4, <2>2
    <3> QED
      BY <1>5, <2>2, <3>1 DEF Finished, HasItsReport
  <2> QED
    BY <2>1, <2>2
<1> QED
  BY <1>6 DEF Finished, next

---------------------------------------------------------------------------
(* saveLocked writes what memory holds or nothing.                         *)
LEMMA StoreFinished ==
    ASSUME NEW new, NEW ok, Finished(disk), Finished(new), Store(new, ok)
    PROVE  Finished(mem') /\ Finished(disk')
BY DEF Store

(* replace normalizes first, so any copy of the board comes out finished.  *)
LEMMA ReplaceFinished ==
    ASSUME NEW next \in WorkspaceState, NEW expired, NEW ok,
           Finished(mem), Finished(disk), Replace(next, expired, ok)
    PROVE  Finished(mem') /\ Finished(disk')
BY NormalizeFinishes, StoreFinished DEF Replace, store

BothFinished == Finished(mem) /\ Finished(disk)

(* No step of a goroutine finishes a task without its report.              *)
LEMMA RunnerStepFinished ==
    ASSUME BothFinished, TypeOK, RowsBelongToTheirTask, NEW i \in Slot, RunnerStep(i)
    PROVE  BothFinished'
<1> USE DEF BothFinished
<1>1. /\ mem \in WorkspaceState /\ runner[i].task \in Task /\ outs \in History
      /\ CopyMatches(mem, outs)
  BY DEF TypeOK, RunnerRecord, History, RowsBelongToTheirTask
<1>2. CASE Begin(i) \/ CallReturns(i)
  BY <1>2 DEF Begin, CallReturns
<1>3. ASSUME NEW ok \in BOOLEAN, WriteLog(i, ok) PROVE BothFinished'
  BY <1>1, <1>3, SimpleStepsFinished, StoreFinished DEF WriteLog
<1>4. ASSUME NEW ok \in BOOLEAN, Activate(i, ok) PROVE BothFinished'
  <2>1. Finished(SetTaskExecution(mem, runner[i].task, "active", runner[i].agent))
    BY <1>1, SimpleStepsFinished
  <2> QED
    BY <1>4, <2>1, StoreFinished DEF Activate
<1>5. ASSUME NEW ok \in BOOLEAN, NEW from, NEW to, Requeue(i, ok, from, to)
      PROVE  BothFinished'
  <2>1. Finished(SetTaskExecution(mem, runner[i].task, "queued", runner[i].agent))
    BY <1>1, SimpleStepsFinished
  <2> QED
    BY <1>5, <2>1, StoreFinished DEF Requeue
<1>6. ASSUME NEW ok \in BOOLEAN, DeliverReportStep(i, ok) PROVE BothFinished'
  BY <1>1, <1>6, CompleteFinishes, StoreFinished DEF DeliverReportStep
<1>7. ASSUME NEW ok \in BOOLEAN, DeliverNextStep(i, ok) PROVE BothFinished'
  BY <1>1, <1>7, AdvanceFinished, StoreFinished DEF DeliverNextStep
<1> QED
  BY <1>2, <1>3, <1>4, <1>5, <1>6, <1>7 DEF RunnerStep, Undo, CallFails

(* No handler, watchdog, browser, crash or restart does either.            *)
LEMMA OtherStepsFinished ==
    ASSUME BothFinished, TypeOK,
           \/ Webhook \/ (\E t \in Task : TaskRun(t)) \/ Watchdog \/ ReportTrust
           \/ ResetHandler \/ Browser \/ Crash \/ Restart
    PROVE  BothFinished'
<1> USE DEF BothFinished
<1>1. /\ mem \in WorkspaceState /\ disk \in WorkspaceState
      /\ client.sent \in WorkspaceState /\ reset.view \in WorkspaceState
  BY DEF TypeOK, ClientRecord
<1>2. ASSUME NEW ok \in BOOLEAN, NEW t \in Task, WebhookIngest(t, ok) PROVE BothFinished'
  BY <1>1, <1>2, SimpleStepsFinished, StoreFinished DEF WebhookIngest
<1>3. ASSUME NEW ok \in BOOLEAN, WebhookNotify(ok) PROVE BothFinished'
  BY <1>1, <1>3, InboxStepsFinished, StoreFinished DEF WebhookNotify, Trust
<1>4. ASSUME NEW old \in SUBSET Task, NEW ok \in BOOLEAN,
             RetryStuckTasks(old, ok) \/ RecoverOrphaned(old, ok)
      PROVE  BothFinished'
  BY <1>1, <1>4, WatchdogsFinished, StoreFinished DEF RetryStuckTasks, RecoverOrphaned
<1>5. ASSUME NEW ok \in BOOLEAN, NEW id, NEW trust \in Trust, SetTrust(id, trust, ok)
      PROVE  BothFinished'
  BY <1>1, <1>5, InboxStepsFinished, StoreFinished DEF SetTrust
<1>6. ASSUME NEW ok \in BOOLEAN, NEW t \in Task, TaskReset(t, ok) PROVE BothFinished'
  <2>1. Finished(SetTaskExecution(mem, t, "queued", mem.tasks[t].agent))
    BY <1>1, SimpleStepsFinished
  <2> QED
    BY <1>6, <2>1, StoreFinished DEF TaskReset
<1>7. ASSUME NEW ok \in BOOLEAN, NEW expired,
             TaskResetReplace(expired, ok) \/ PutReplace(expired, ok)
      PROVE  BothFinished'
  BY <1>1, <1>7, ReplaceFinished DEF TaskResetReplace, PutReplace
<1>8. ASSUME NEW expired, Load(expired) PROVE BothFinished'
  BY <1>1, <1>8, NormalizeFinishes, StoreFinished DEF Load
<1>9. CASE Crash
  BY <1>9 DEF Crash
<1>10. CASE \/ \E t \in Task : TaskRun(t)
            \/ TaskResetSnapshot \/ GetSnapshot \/ PutMerge \/ PutRespond \/ PutLost
            \/ \E full \in BOOLEAN : GetTag(full)
            \/ \E kind \in EditKinds : PutCheck(kind)
            \/ \E t \in Task : PutClose(t)
  BY <1>10 DEF TaskRun, TaskResetSnapshot, GetSnapshot, PutMerge, PutRespond, PutLost, GetTag,
               PutCheck, PutClose, PutAccepted
<1> QED
  BY <1>2, <1>3, <1>4, <1>5, <1>6, <1>7, <1>8, <1>9, <1>10
     DEF Webhook, Watchdog, ReportTrust, ResetHandler, Browser, Restart, Trust

(* On every board, in memory and in the row: a finished task that is not   *)
(* in the trash has a report, whatever copies of the board are written     *)
(* back and wherever a save fails or the process dies.                     *)
THEOREM FinishedTasksHaveReports == Spec => []CompletedHasReport
<1>1. Init => BothFinished
  <2> SUFFICES ASSUME Init PROVE BothFinished
    OBVIOUS
  <2>1. PICK plain \in SUBSET (Task \ Workflow) :
          mem = [EmptyWorkspace EXCEPT !.tasks =
                  [t \in Task |-> IF t \in plain THEN NewTask(t) ELSE Absent(t)]]
    BY DEF Init
  <2>2. \A t \in Task : mem.tasks[t].exec # "completed"
    BY <2>1 DEF EmptyWorkspace, NewTask, Absent
  <2> QED
    BY <2>2 DEF Init, BothFinished, Finished, HasItsReport
<1>2. ASSUME TypeOK, RowsBelongToTheirTask, BothFinished, [Next]_vars PROVE BothFinished'
  <2>1. CASE UNCHANGED vars
    BY <1>2, <2>1 DEF vars, BothFinished
  <2>2. CASE Next
    BY <1>2, <2>2, RunnerStepFinished, OtherStepsFinished DEF Next
  <2> QED
    BY <1>2, <2>1, <2>2
<1>3. BothFinished => CompletedHasReport
  BY DEF BothFinished, Finished, CompletedHasReport
<1> QED
  BY <1>1, <1>2, <1>3, TypeCorrect, ReportsBelong, PTL DEF Spec
=============================================================================
