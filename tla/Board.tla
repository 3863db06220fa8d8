------------------------------- MODULE Board -------------------------------
(***************************************************************************)
(* What the browser does to its own copy of the workspace before it sends  *)
(* it back with PUT /api/workspace: one operator per user operation of the *)
(* React hooks, and the way an SSE refresh folds a fetched state into the  *)
(* local one.                                                              *)
(***************************************************************************)
EXTENDS Workspace

Mark(b, id, status) ==
    {IF r.id = id THEN [r EXCEPT !.status = status] ELSE r : r \in b.reports}

ApprovedTask(t, task) ==
    CASE task.exec = "absent" \/ t \notin Workflow -> task
      [] task.exec # "absent" /\ t \in Workflow /\ ~IsLastWorkflowStep(t, task) ->
            [task EXCEPT !.step = @ + 1, !.agent = Plan[t][task.step + 2],
                         !.exec = "active", !.report = 0, !.done = FALSE]
      [] OTHER -> [task EXCEPT !.done = TRUE]

(* A workflow's card moves to its next step, or to Done after the last.    *)
ApproveReport(b, r) ==
    [b EXCEPT !.reports = Mark(b, r.id, "approved"),
              !.tasks = [t \in Task |-> IF t = r.task THEN ApprovedTask(t, @[t])
                                                      ELSE @[t]]]

RejectedTask(t, task) ==
    IF task.exec = "absent" THEN task
    ELSE [task EXCEPT !.exec = "active", !.done = @ /\ t \in Workflow]

RejectReport(b, r) ==
    [b EXCEPT !.reports = Mark(b, r.id, "rejected"),
              !.tasks = [t \in Task |-> IF t = r.task THEN RejectedTask(t, @[t])
                                                      ELSE @[t]]]

(* The run after a rejection failed: its report waits for a review again.  *)
(* The state is fetched anew, and when that fails as well the card goes    *)
(* back to the manual queue of the copy the browser has.                   *)
UnrejectReport(b, r) == [b EXCEPT !.reports = Mark(b, r.id, "new")]

UnrejectedOffline(b, r) ==
    [UnrejectReport(b, r) EXCEPT
        !.tasks = [t \in Task |-> IF t = r.task /\ @[t].exec # "absent"
                                  THEN [@[t] EXCEPT !.exec = "queued"] ELSE @[t]]]

(* A manual close: the card goes to Done with the report it has or with a  *)
(* new one, and a report that has no row gets one from the browser.        *)
CloseReportId(task, n) == IF task.report # 0 THEN task.report ELSE n

CompleteTask(b, t, n) ==
    LET id == CloseReportId(b.tasks[t], n)
        row == [id |-> id, task |-> t, step |-> b.tasks[t].step, status |-> "new",
                text |-> n, trust |-> "unset"]
    IN  [b EXCEPT !.tasks[t] = [@ EXCEPT !.exec = "completed", !.done = TRUE, !.report = id],
                  !.reports = IF RowsWithId(b, id) = {} THEN @ \cup {row} ELSE @]

(* A finished card started again leaves Done, a workflow's at its first    *)
(* step and with its last agent.                                           *)
StartTask(b, t) ==
    LET again == b.tasks[t].exec = "completed" /\ b.tasks[t].done
    IN  [b EXCEPT !.tasks[t].exec = "active",
                  !.tasks[t].done = @ /\ ~again,
                  !.tasks[t].step = IF again /\ t \in Workflow THEN 0 ELSE @]

(* A card rebuilt from one of its reports resumes at the report's step.    *)
RestoreStep(r) == IF r.step > LastStep(r.task) THEN LastStep(r.task) ELSE r.step

RestoreTask(b, r) ==
    [b EXCEPT !.tasks[r.task] =
        [NewTask(r.task) EXCEPT !.step = RestoreStep(r),
                                !.agent = Plan[r.task][RestoreStep(r) + 1]]]

(* A card dragged into Done or out of it. *)
MoveTask(b, t) == [b EXCEPT !.tasks[t].done = ~@]

CreateTask(b, t) == [b EXCEPT !.tasks[t] = NewTask(t)]

DeleteTask(b, t) == [b EXCEPT !.tasks[t].trashed = TRUE]
RestoreDeletedTask(b, t) == [b EXCEPT !.tasks[t].trashed = FALSE]
PurgeTask(b, t) == [b EXCEPT !.tasks[t] = Absent(t)]

ClearDone(b) ==
    [b EXCEPT !.tasks = [t \in Task |-> IF @[t].done THEN Absent(t) ELSE @[t]]]

ClearInbox(b) == [b EXCEPT !.reports = {r \in @ : r.status = "new"}]

(* resetBoard: every card goes to the trash. *)
TrashAll(b) ==
    [b EXCEPT !.tasks = [t \in Task |-> IF @[t].exec = "absent" THEN @[t]
                                        ELSE [@[t] EXCEPT !.trashed = TRUE]]]

OnBoard(b) == {t \in Task : Present(b, t)}
Trashed(b) == {t \in OnBoard(b) : b.tasks[t].trashed}
NewReports(b) == {r \in b.reports : r.status = "new"}

RejectedReports(b) == {r \in b.reports : r.status = "rejected"}

(* The buttons of a card on the board: "complete" is off on a completed or *)
(* retrying one, "start" on one that is running.                           *)
Shown(b) == OnBoard(b) \ Trashed(b)
Closable(b) == {t \in Shown(b) : b.tasks[t].exec \notin {"completed", "retrying"}}
Startable(b) == {t \in Shown(b) : ~Executing(b.tasks[t])}

BoardEdits ==
    {"touch", "approve", "reject", "unreject", "complete", "start", "move", "restore",
     "create", "delete", "undelete", "purge", "clear", "reset"}

(* The copies one operation of the given kind can turn b into; unborn: the *)
(* task IDs no one has used yet.  "complete" is apart: it makes a report   *)
(* ID of its own, see CompleteTask.  The inbox offers "restore" only on a  *)
(* rejected report, and only a failed run undoes a rejection; here any     *)
(* report may be restored, and any rejection undone.                       *)
EditsOfKind(kind, b, unborn) ==
    CASE kind = "touch"   -> {b}
      [] kind = "approve" -> {ApproveReport(b, r) : r \in NewReports(b)}
      [] kind = "reject"  -> {RejectReport(b, r) : r \in NewReports(b)}
      [] kind = "unreject" -> {UnrejectReport(b, r) : r \in RejectedReports(b)}
                                \cup {UnrejectedOffline(b, r) : r \in RejectedReports(b)}
      [] kind = "start"   -> {StartTask(b, t) : t \in Startable(b)}
      [] kind = "move"    -> {MoveTask(b, t) : t \in Shown(b)}
      [] kind = "restore" -> {RestoreTask(b, r) :
                                r \in {q \in b.reports : q.task \in Task \ OnBoard(b)}}
      [] kind = "create"  -> {CreateTask(b, t) : t \in unborn \ OnBoard(b)}
      [] kind = "delete"  -> {DeleteTask(b, t) : t \in Shown(b)}
      [] kind = "undelete" -> {RestoreDeletedTask(b, t) : t \in Trashed(b)}
      [] kind = "purge"   -> {PurgeTask(b, t) : t \in Trashed(b)}
      [] kind = "clear"   -> {ClearDone(b), ClearInbox(b)}
      [] kind = "reset"   -> {TrashAll(b)}

(* refresh(): of a task the browser already has, only SERVER_FIELDS are    *)
(* taken over; tasks the server does not list disappear.                   *)
RefreshTask(local, srv) ==
    IF local.exec = "absent" \/ srv.exec = "absent" THEN srv
    ELSE [local EXCEPT !.exec = srv.exec, !.step = srv.step, !.ctx = srv.ctx,
                       !.report = srv.report, !.done = srv.done]

Refresh(local, srv) ==
    [local EXCEPT !.tasks = [t \in Task |-> RefreshTask(@[t], srv.tasks[t])],
                  !.reports = srv.reports,
                  !.log = srv.log]
=============================================================================
