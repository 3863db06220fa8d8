---------------------------- MODULE QuietProofs ----------------------------
(***************************************************************************)
(* OneRowPerPlainTask and StepsInOrder for every board.  Both speak of     *)
(* runs in which no PUT and no reset rewrites the board; what such runs    *)
(* keep (Quiet) is proved first, then each of the two from it.             *)
(***************************************************************************)
EXTENDS WorkspaceServerProofs

(* What most store methods leave alone on every card.                      *)
SameCard(task, after) ==
    /\ after.exec = "absent" <=> task.exec = "absent"
    /\ after.trashed = task.trashed /\ after.report = task.report
    /\ after.step = task.step /\ after.ctx = task.ctx /\ after.agent = task.agent

CardsKept(s, next) == \A t \in Task : SameCard(s.tasks[t], next.tasks[t])

(* A session entry, an alarm's report and a change of trust touch no card. *)
LEMMA InboxKeepsCards ==
    ASSUME NEW s \in WorkspaceState, NEW n, NEW id, NEW trust
    PROVE  /\ CardsKept(s, AddSessionLog(s))
           /\ CardsKept(s, AddBossReportOnly(s, n))
           /\ CardsKept(s, SetReportTrust(s, id, trust))
<1>1. /\ AddSessionLog(s).tasks = s.tasks
      /\ AddBossReportOnly(s, n).tasks = s.tasks
      /\ SetReportTrust(s, id, trust).tasks = s.tasks
  BY DEF AddSessionLog, AddBossReportOnly, SetReportTrust, WorkspaceState
<1> QED
  BY <1>1 DEF CardsKept, SameCard

(* setTaskExecution changes the execution state of a card that is there.   *)
LEMMA SetExecutionKeepsCards ==
    ASSUME NEW s \in WorkspaceState, NEW t \in Task, Present(s, t),
           NEW status \in {"active", "queued"}, NEW a
    PROVE  CardsKept(s, SetTaskExecution(s, t, status, a))
<1> DEFINE task == [s.tasks[t] EXCEPT !.exec = status]
           next == SetTaskExecution(s, t, status, a)
<1>1. SameCard(s.tasks[t], task)
  BY DEF SameCard, Present, WorkspaceState, TaskRecord
<1>2. next.tasks = [s.tasks EXCEPT ![t] = task]
  BY DEF SetTaskExecution, WorkspaceState
<1>3. DOMAIN s.tasks = Task
  BY DEF WorkspaceState
<1> HIDE DEF task, next
<1>4. CardsKept(s, next)
  BY <1>1, <1>2, <1>3 DEF CardsKept, SameCard
<1> QED
  BY <1>4 DEF next

(* The watchdogs change execution states and retry counts only.            *)
LEMMA WatchdogsKeepCards ==
    ASSUME NEW s \in WorkspaceState, NEW old \in SUBSET Task
    PROVE  /\ CardsKept(s, MarkStuckTasksRetrying(s, StuckTasks(s, old)))
           /\ CardsKept(s, RecoverOrphanedRetrying(s, OrphanedTasks(s, old)))
<1> DEFINE stuck == StuckTasks(s, old)
           orphaned == OrphanedTasks(s, old)
           marked == MarkStuckTasksRetrying(s, stuck)
           recovered == RecoverOrphanedRetrying(s, orphaned)
<1> SUFFICES ASSUME NEW t \in Task
             PROVE  /\ SameCard(s.tasks[t], marked.tasks[t])
                    /\ SameCard(s.tasks[t], recovered.tasks[t])
  BY DEF CardsKept
<1>1. s.tasks[t] \in TaskRecord
  BY DEF WorkspaceState
<1> DEFINE again(exec) == [s.tasks[t] EXCEPT !.exec = exec, !.retries = s.tasks[t].retries + 1]
<1>2. s.tasks[t].exec # "absent" =>
        /\ SameCard(s.tasks[t], Released(s.tasks[t]))
        /\ SameCard(s.tasks[t], again("retrying"))
        /\ SameCard(s.tasks[t], again("queued"))
  BY <1>1 DEF Released, SameCard, TaskRecord
<1>3. \/ marked.tasks[t] = s.tasks[t]
      \/ /\ s.tasks[t].exec = "active"
         /\ marked.tasks[t] \in {Released(s.tasks[t]), again("retrying")}
  BY DEF MarkStuckTasksRetrying, StuckTasks, WorkspaceState
<1>4. \/ recovered.tasks[t] = s.tasks[t]
      \/ /\ s.tasks[t].exec = "retrying"
         /\ recovered.tasks[t] \in {Released(s.tasks[t]), again("queued")}
  BY DEF RecoverOrphanedRetrying, OrphanedTasks, WorkspaceState
<1>5. SameCard(s.tasks[t], s.tasks[t])
  BY DEF SameCard
<1> HIDE DEF marked, recovered, again
<1> QED
  BY <1>2, <1>3, <1>4, <1>5

(* Normalizing a board with an empty trash drops no card.                  *)
LEMMA NormalizeKeepsCards ==
    ASSUME NEW s \in WorkspaceState, NEW expired, \A t \in Task : ~s.tasks[t].trashed
    PROVE  CardsKept(s, NormalizeWorkspaceState(s, expired))
<1> DEFINE next == NormalizeWorkspaceState(s, expired)
<1> SUFFICES ASSUME NEW t \in Task PROVE SameCard(s.tasks[t], next.tasks[t])
  BY DEF CardsKept
<1>1. s.tasks[t] \in TaskRecord
  BY DEF WorkspaceState
<1> DEFINE queued == [s.tasks[t] EXCEPT !.exec = "queued"]
<1>2. s.tasks[t].exec # "absent" => SameCard(s.tasks[t], queued)
  BY <1>1 DEF SameCard, TaskRecord
<1>3. next.tasks[t] = NormalizeTask(s, t, expired)
  BY DEF NormalizeWorkspaceState, WorkspaceState
<1>4. \/ next.tasks[t] = s.tasks[t]
      \/ s.tasks[t].exec # "absent" /\ next.tasks[t] = queued
  BY <1>3 DEF NormalizeTask, Interrupted, IsOrphanCompleted, Executing
<1>5. SameCard(s.tasks[t], s.tasks[t])
  BY DEF SameCard
<1> HIDE DEF next, queued
<1> QED
  BY <1>2, <1>4, <1>5

---------------------------------------------------------------------------
(* "One row per task", on one board.                                       *)
OneRow(s) ==
    \A t \in Task \ Workflow :
        {r \in s.reports : r.task = t} = RowsWithId(s, s.tasks[t].report)

(* It only looks at the rows and at the links of the plain tasks.          *)
LEMMA OneRowKept ==
    ASSUME NEW s, NEW next, OneRow(s), next.reports = s.reports,
           \A t \in Task \ Workflow : next.tasks[t].report = s.tasks[t].report
    PROVE  OneRow(next)
BY DEF OneRow, RowsWithId

(* Rewriting rows without moving them to another task or ID keeps it.      *)
LEMMA OneRowRelabelled ==
    ASSUME NEW s, NEW next, OneRow(s), NEW f \in [s.reports -> ReportRecord],
           next.reports = {f[r] : r \in s.reports},
           \A r \in s.reports : f[r].id = r.id /\ f[r].task = r.task,
           \A t \in Task \ Workflow : next.tasks[t].report = s.tasks[t].report
    PROVE  OneRow(next)
<1> SUFFICES ASSUME NEW t \in Task \ Workflow, NEW q \in next.reports
             PROVE  q.task = t <=> q.id = next.tasks[t].report
  BY DEF OneRow, RowsWithId
<1>1. PICK r \in s.reports : q = f[r]
  OBVIOUS
<1>2. r.task = t <=> r.id = s.tasks[t].report
  BY DEF OneRow, RowsWithId
<1> QED
  BY <1>1, <1>2

(* Normalizing and changing a report's trust move no row, and an alarm's   *)
(* report belongs to no task.                                              *)
LEMMA InboxKeepsOneRow ==
    ASSUME NEW o \in History, NEW s \in WorkspaceState, OneRow(s), CopyMatches(s, o),
           NEW id, NEW trust \in Trust
    PROVE  /\ OneRow(AddBossReportOnly(s, Len(o) + 1))
           /\ OneRow(SetReportTrust(s, id, trust))
<1> DEFINE n == Len(o) + 1
           row == [id |-> n, task |-> NoTask, step |-> 0, status |-> "new",
                   text |-> n, trust |-> "unset"]
           added == AddBossReportOnly(s, n)
           set == SetReportTrust(s, id, trust)
           f == [r \in s.reports |-> IF r.id = id THEN [r EXCEPT !.trust = trust] ELSE r]
<1>1. added.tasks = s.tasks /\ added.reports = s.reports \cup {row}
  BY DEF AddBossReportOnly, WorkspaceState
<1>2. row.task = NoTask /\ row.id = n
  OBVIOUS
<1>3. \A t \in Task : s.tasks[t].report # n
  BY HistoryGrows DEF CopyMatches, LinkMatches
<1>4. set.tasks = s.tasks /\ set.reports = {f[r] : r \in s.reports}
  BY DEF SetReportTrust, WorkspaceState
<1>5. f \in [s.reports -> ReportRecord]
  BY DEF WorkspaceState, ReportRecord
<1>6. \A r \in s.reports : f[r].id = r.id /\ f[r].task = r.task
  BY DEF WorkspaceState, ReportRecord
<1> HIDE DEF n, row, added, set, f
<1>7. OneRow(added)
  BY <1>1, <1>2, <1>3, NoTaskAssumption DEF OneRow, RowsWithId
<1>8. OneRow(set)
  BY <1>4, <1>5, <1>6, OneRowRelabelled
<1> QED
  BY <1>7, <1>8 DEF added, set, n

(* normalizeWorkspaceState rewrites the trust of rows and drops no card    *)
(* while the trash is empty.                                               *)
LEMMA NormalizeKeepsOneRow ==
    ASSUME NEW s \in WorkspaceState, OneRow(s), NEW expired,
           \A t \in Task : ~s.tasks[t].trashed
    PROVE  OneRow(NormalizeWorkspaceState(s, expired))
<1> DEFINE next == NormalizeWorkspaceState(s, expired)
           f == [r \in s.reports |-> BackfillTrust(r)]
<1>1. \A r \in s.reports : /\ BackfillTrust(r) \in ReportRecord
                           /\ BackfillTrust(r).id = r.id /\ BackfillTrust(r).task = r.task
  BY DEF BackfillTrust, WorkspaceState, ReportRecord, Trust
<1>2. f \in [s.reports -> ReportRecord]
  BY <1>1
<1>3. next.reports = {f[r] : r \in s.reports}
  BY DEF NormalizeWorkspaceState, WorkspaceState
<1>4. \A t \in Task : next.tasks[t].report = s.tasks[t].report
  BY NormalizeKeepsCards DEF CardsKept, SameCard
<1>5. \A r \in s.reports : f[r].id = r.id /\ f[r].task = r.task
  BY <1>1
<1> HIDE DEF next, f
<1>6. OneRow(next)
  BY <1>2, <1>3, <1>4, <1>5, OneRowRelabelled
<1> QED
  BY <1>6 DEF next

(* After a delivery the rows under its ID are its task's, and all other    *)
(* rows are as they were.                                                  *)
LEMMA DeliveredRows ==
    ASSUME NEW s \in WorkspaceState, NEW t, NEW id, NEW n
    PROVE  LET rows == DeliverReport(s, t, id, n)
           IN  /\ \A r \in rows : (r \in s.reports /\ r.id # id) \/ (r.id = id /\ r.task = t)
               /\ \A r \in s.reports : r.id # id => r \in rows
<1> DEFINE old == RowsWithId(s, id)
           step == s.tasks[t].step
           to(r) == [r EXCEPT !.task = t, !.step = step, !.status = "new", !.text = n]
           fresh == [id |-> id, task |-> t, step |-> step, status |-> "new",
                     text |-> n, trust |-> "auto"]
           rows == DeliverReport(s, t, id, n)
<1>1. fresh.id = id /\ fresh.task = t
  OBVIOUS
<1>2. ASSUME NEW r \in old PROVE to(r).id = id /\ to(r).task = t
  BY DEF RowsWithId, WorkspaceState, ReportRecord
<1>3. \A r \in s.reports : r \in old <=> r.id = id
  BY DEF RowsWithId
<1>4. rows = IF old = {} THEN s.reports \cup {fresh}
             ELSE (s.reports \ old) \cup {to(r) : r \in old}
  BY DEF DeliverReport
<1> HIDE DEF to, fresh, old, rows
<1>5. ASSUME NEW r \in rows
      PROVE  (r \in s.reports /\ r.id # id) \/ (r.id = id /\ r.task = t)
  <2>1. CASE r \in s.reports \ old
    BY <1>3, <2>1
  <2>2. CASE old = {} /\ r = fresh
    BY <1>1, <2>2
  <2>3. CASE \E q \in old : r = to(q)
    BY <1>2, <2>3
  <2> QED
    BY <1>4, <2>1, <2>2, <2>3
<1>6. \A r \in s.reports : r.id # id => r \in rows
  BY <1>3, <1>4
<1> QED
  BY <1>5, <1>6 DEF rows

(* completeTaskWithReport gives a plain task the one row it links to and   *)
(* takes no row of another task.                                           *)
LEMMA CompleteKeepsOneRow ==
    ASSUME NEW o \in History, NEW s \in WorkspaceState, CopyMatches(s, o), OneRow(s),
           NEW t \in Task, Present(s, t), NEW a
    PROVE  OneRow(CompleteTaskWithReport(s, t, a, Len(o) + 1))
<1> DEFINE n == Len(o) + 1
           id == ReportIdFor(s, t, n)
           task == FinishTask(t, s.tasks[t], id)
           next == CompleteTaskWithReport(s, t, a, n)
           rows == DeliverReport(s, t, id, n)
<1>1. id # 0 /\ id \in 1 .. Len(Append(o, t)) /\ Append(o, t)[id] = t
  BY ReportIdMatches
<1>2. task.report = id
  BY DEF FinishTask, WorkspaceState, TaskRecord
<1>3. next.reports = rows /\ next.tasks = [s.tasks EXCEPT ![t] = task]
  BY DEF CompleteTaskWithReport, WorkspaceState
<1>4. /\ \A r \in rows : (r \in s.reports /\ r.id # id) \/ (r.id = id /\ r.task = t)
      /\ \A r \in s.reports : r.id # id => r \in rows
  BY DeliveredRows
<1>5. t \notin Workflow /\ s.tasks[t].report # 0 => id = s.tasks[t].report
  BY DEF ReportIdFor
<1>6. DOMAIN s.tasks = Task
  BY DEF WorkspaceState
<1>7. \A r \in s.reports : r.id \in 1 .. Len(o) /\ o[r.id] = r.task
  BY DEF CopyMatches, RowsMatch
<1>8. ASSUME NEW u \in Task, u # t PROVE s.tasks[u].report # id
  <2>1. s.tasks[u].report # 0 =>
          s.tasks[u].report \in 1 .. Len(o) /\ o[s.tasks[u].report] = u
    BY DEF CopyMatches, LinkMatches
  <2> QED
    BY <1>1, <1>8, <2>1, HistoryGrows
<1> HIDE DEF id, n, task, next, rows
<1>9. ASSUME NEW u \in Task \ Workflow, NEW r \in rows
       PROVE  r.task = u <=> r.id = next.tasks[u].report
  <2>1. CASE u # t
    <3>1. next.tasks[u].report = s.tasks[u].report
      BY <1>3, <1>6, <2>1
    <3>2. r \in s.reports => (r.task = u <=> r.id = s.tasks[u].report)
      BY DEF OneRow, RowsWithId
    <3> QED
      BY <1>4, <1>8, <2>1, <3>1, <3>2
  <2>2. CASE u = t
    <3>1. next.tasks[u].report = id
      BY <1>2, <1>3, <1>6, <2>2
    <3>2. r \in s.reports /\ r.id # id => r.task # t
      <4>1. r \in s.reports => (r.task = t <=> r.id = s.tasks[t].report)
        BY <2>2 DEF OneRow, RowsWithId
      <4>2. r \in s.reports => r.id # 0
        BY <1>7
      <4> QED
        BY <1>5, <2>2, <4>1, <4>2
    <3> QED
      BY <1>4, <2>2, <3>1, <3>2
  <2> QED
    BY <2>1, <2>2
<1>10. OneRow(next)
  BY <1>3, <1>9 DEF OneRow, RowsWithId
<1> QED
  BY <1>10 DEF next, n

---------------------------------------------------------------------------
(* While no PUT and no reset has begun.                                    *)

FuelBound == \A k \in Kinds : fuel[k] <= Fuel[k]

(* Fuel is spent and never refilled, so the first PUT or reset ends the    *)
(* quiet for good.                                                         *)
LEMMA SpendShrinks ==
    ASSUME TypeOK, FuelBound, fuel' = fuel \/ (\E kinds : Spend(kinds))
    PROVE  FuelBound' /\ (NoPuts' => NoPuts /\ fuel'["put"] = fuel["put"]
                                            /\ fuel'["reset"] = fuel["reset"])
<1>1. CASE fuel' = fuel
  BY <1>1 DEF FuelBound, NoPuts
<1>2. ASSUME NEW kinds, Spend(kinds)
      PROVE  \A k \in Kinds : fuel'[k] <= fuel[k]
  BY <1>2 DEF Spend, TypeOK
<1>3. \A k \in Kinds : fuel[k] \in Nat /\ fuel'[k] \in Nat /\ Fuel[k] \in Nat
  BY <1>1, SpendType, FuelAssumption DEF TypeOK
<1>4. {"put", "reset"} \subseteq Kinds
  BY DEF Kinds
<1> QED
  BY <1>1, <1>2, <1>3, <1>4 DEF FuelBound, NoPuts

(* So every step keeps the bound, and quiet afterwards means quiet before. *)
LEMMA FuelOnlyShrinks ==
    ASSUME TypeOK, FuelBound, [Next]_vars
    PROVE  FuelBound' /\ (NoPuts' => NoPuts)
<1>1. CASE UNCHANGED vars
  BY <1>1, SpendShrinks DEF vars
<1>2. ASSUME NEW i \in Slot, RunnerStep(i) PROVE fuel' = fuel \/ (\E kinds : Spend(kinds))
  BY <1>2 DEF RunnerStep, Begin, CallReturns, WriteLog, Activate, Undo, CallFails, Requeue,
              DeliverReportStep, DeliverNextStep
<1>3. CASE Webhook \/ (\E t \in Task : TaskRun(t)) \/ Watchdog \/ ReportTrust
  <2>1. \E kinds : Spend(kinds)
    BY <1>3 DEF Webhook, WebhookNotify, WebhookIngest, TaskRun, Watchdog, RetryStuckTasks,
                RecoverOrphaned, ReportTrust, SetTrust
  <2> QED
    BY <2>1, SpendShrinks
<1>4. CASE ResetHandler \/ Browser \/ Crash \/ Restart
  <2>1. fuel' = fuel \/ (\E kinds : Spend(kinds))
    BY <1>4 DEF ResetHandler, TaskResetSnapshot, TaskReset, TaskResetReplace, Browser,
                GetSnapshot, GetTag, PutCheck, PutClose, PutAccepted, PutMerge, PutReplace,
                PutRespond, PutLost, Crash, Restart, Load
  <2> QED
    BY <2>1, SpendShrinks
<1> QED
  BY <1>1, <1>2, <1>3, <1>4, SpendShrinks DEF Next

(* No PUT or reset begins in a step that ends quiet.                       *)
LEMMA NothingBegins ==
    ASSUME TypeOK, FuelBound, NoPuts'
    PROVE  /\ \A kind \in EditKinds : ~PutCheck(kind)
           /\ \A t \in Task : ~PutClose(t)
           /\ \A t \in Task, ok \in BOOLEAN : ~TaskReset(t, ok)
<1>1. ASSUME NEW kinds, Spend(kinds) PROVE "put" \notin kinds /\ "reset" \notin kinds
  <2>1. fuel'["put"] = fuel["put"] /\ fuel'["reset"] = fuel["reset"]
    BY <1>1, SpendShrinks
  <2> QED
    BY <1>1, <2>1 DEF Spend, TypeOK, Kinds
<1> QED
  BY <1>1 DEF PutCheck, PutClose, PutAccepted, TaskReset

(* Every goroutine but the writer of an alarm's session entry has a task.  *)
AtWork(i) == runner[i].pc \notin {"free", "noted"}
Placed(i) ==
    /\ Present(mem, runner[i].task)
    /\ runner[i].kind = "workflow" => runner[i].task \in Workflow

(* Nothing is in the trash and no card stands for an unused ID.            *)
Clean(s, u) == \A t \in Task : ~s.tasks[t].trashed /\ (t \in u => ~Present(s, t))

Quiet ==
    /\ client.pc \in {"idle", "reading"}
    /\ reset.pc = "idle"
    /\ Clean(mem, unborn) /\ Clean(disk, unborn)
    /\ \A i \in Slot : AtWork(i) => Placed(i)

(* saveLocked writes what memory holds or nothing.                         *)
LEMMA StoreClean ==
    ASSUME NEW new, NEW ok, Clean(disk, unborn), Clean(new, unborn'),
           unborn' \subseteq unborn, Store(new, ok)
    PROVE  Clean(mem', unborn') /\ Clean(disk', unborn')
BY DEF Store, Clean

(* A step that keeps the cards keeps the board clean.                      *)
LEMMA SameCardsClean ==
    ASSUME NEW s, NEW next, NEW u, NEW v \in SUBSET u, Clean(s, u), CardsKept(s, next)
    PROVE  Clean(next, v) /\ \A t \in Task : Present(s, t) => Present(next, t)
BY DEF Clean, CardsKept, SameCard, Present

(* Finishing or advancing a task leaves every card on the board.           *)
LEMMA DeliveriesClean ==
    ASSUME NEW s \in WorkspaceState, NEW u, Clean(s, u), NEW t \in Task, Present(s, t),
           NEW a, NEW n, NEW next
    PROVE  LET done == CompleteTaskWithReport(s, t, a, n)
               moved == AdvanceWorkflowStep(s, t, next)
           IN  /\ Clean(done, u) /\ Clean(moved, u)
               /\ \A v \in Task : Present(s, v) => Present(done, v) /\ Present(moved, v)
<1> DEFINE done == CompleteTaskWithReport(s, t, a, n)
           moved == AdvanceWorkflowStep(s, t, next)
           finished == FinishTask(t, s.tasks[t], ReportIdFor(s, t, n))
           stepped == MoveToStep(t, s.tasks[t], next)
<1>1. s.tasks[t] \in TaskRecord /\ DOMAIN s.tasks = Task
  BY DEF WorkspaceState
<1>2. finished.exec # "absent" /\ finished.trashed = s.tasks[t].trashed
  BY <1>1 DEF FinishTask, TaskRecord
<1>3. stepped.exec # "absent" /\ stepped.trashed = s.tasks[t].trashed
  BY <1>1 DEF MoveToStep, TaskRecord
<1>4. done.tasks = [s.tasks EXCEPT ![t] = finished]
  BY DEF CompleteTaskWithReport, WorkspaceState
<1>5. moved.tasks = [s.tasks EXCEPT ![t] = stepped]
  BY DEF AdvanceWorkflowStep, WorkspaceState
<1> HIDE DEF done, moved, finished, stepped
<1>6. Clean(done, u) /\ \A v \in Task : Present(s, v) => Present(done, v)
  BY <1>1, <1>2, <1>4 DEF Clean, Present
<1>7. Clean(moved, u) /\ \A v \in Task : Present(s, v) => Present(moved, v)
  BY <1>1, <1>3, <1>5 DEF Clean, Present
<1> QED
  BY <1>6, <1>7 DEF done, moved

(* A step of a goroutine changes its own slot only, and never its task.    *)
LEMMA OwnSlotOnly ==
    ASSUME TypeOK, NEW i \in Slot, RunnerStep(i)
    PROVE  /\ AtWork(i) \/ runner[i].pc = "noted"
           /\ \A j \in Slot : AtWork(j)' =>
                /\ AtWork(j)
                /\ runner'[j].task = runner[j].task /\ runner'[j].kind = runner[j].kind
           /\ \A j \in Slot \ {i} : runner'[j] = runner[j]
<1> DEFINE Own ==
             /\ \A j \in Slot : AtWork(j)' =>
                  /\ AtWork(j)
                  /\ runner'[j].task = runner[j].task /\ runner'[j].kind = runner[j].kind
             /\ \A j \in Slot \ {i} : runner'[j] = runner[j]
<1>1. runner \in [Slot -> RunnerRecord] /\ runner[i] \in RunnerRecord
  BY DEF TypeOK
<1>2. ASSUME NEW r, SetRunner(i, r),
             \/ r.pc = "free"
             \/ AtWork(i) /\ r.task = runner[i].task /\ r.kind = runner[i].kind
      PROVE  Own
  <2>1. runner' = [runner EXCEPT ![i] = r]
    BY <1>2 DEF SetRunner
  <2> QED
    BY <1>1, <1>2, <2>1 DEF AtWork
<1>3. ASSUME NEW pc, Goto(i, pc), pc = "free" \/ AtWork(i) PROVE Own
  <2>1. CASE pc = "free"
    BY <1>2, <1>3, <2>1 DEF Goto, FreeRunner
  <2>2. CASE pc # "free"
    <3> DEFINE r == [runner[i] EXCEPT !.pc = pc]
    <3>1. r.task = runner[i].task /\ r.kind = runner[i].kind
      BY <1>1 DEF RunnerRecord
    <3>2. SetRunner(i, r) /\ AtWork(i)
      BY <1>3, <2>2 DEF Goto
    <3> HIDE DEF r
    <3> QED
      BY <1>2, <3>1, <3>2
  <2> QED
    BY <2>1, <2>2
<1>4. ASSUME Begin(i) PROVE AtWork(i) /\ Own
  <2>1. AtWork(i)
    BY <1>4 DEF Begin, AtWork
  <2>2. CASE Present(mem, runner[i].task)
    <3> DEFINE r == [runner[i] EXCEPT
                        !.pc = IF runner[i].kind = "workflow" THEN "start" ELSE "activate",
                        !.step = mem.tasks[runner[i].task].step,
                        !.agent = mem.tasks[runner[i].task].agent]
    <3>1. r.task = runner[i].task /\ r.kind = runner[i].kind
      BY <1>1 DEF RunnerRecord
    <3>2. SetRunner(i, r)
      BY <1>4, <2>2 DEF Begin
    <3> HIDE DEF r
    <3> QED
      BY <1>2, <2>1, <3>1, <3>2
  <2>3. CASE ~Present(mem, runner[i].task)
    BY <1>3, <1>4, <2>1, <2>3 DEF Begin
  <2> QED
    BY <2>1, <2>2, <2>3
<1>5. ASSUME CallReturns(i) PROVE AtWork(i) /\ Own
  BY <1>3, <1>5 DEF CallReturns, AtWork
<1>6. ASSUME NEW ok \in BOOLEAN, WriteLog(i, ok)
      PROVE  (AtWork(i) \/ runner[i].pc = "noted") /\ Own
  <2>1. Goto(i, AfterLog[runner[i].pc]) /\ runner[i].pc \in DOMAIN AfterLog
    BY <1>6 DEF WriteLog
  <2>2. /\ AtWork(i) \/ runner[i].pc = "noted"
        /\ AfterLog[runner[i].pc] = "free" \/ AtWork(i)
    BY <2>1 DEF AfterLog, AtWork
  <2> QED
    BY <1>3, <2>1, <2>2
<1>7. ASSUME NEW ok \in BOOLEAN,
             \/ Activate(i, ok) \/ Undo(i, ok) \/ CallFails(i, ok)
             \/ DeliverReportStep(i, ok) \/ DeliverNextStep(i, ok)
      PROVE  AtWork(i) /\ Own
  <2>1. AtWork(i) /\ \E pc : Goto(i, pc)
    BY <1>7 DEF Activate, Undo, CallFails, Requeue, DeliverReportStep, DeliverNextStep, AtWork
  <2> QED
    BY <1>3, <2>1
<1>8. (AtWork(i) \/ runner[i].pc = "noted") /\ Own
  <2> HIDE DEF Own
  <2> QED
    BY <1>4, <1>5, <1>6, <1>7 DEF RunnerStep
<1> QED
  BY <1>8

(* A step that keeps every card on the board and starts goroutines for     *)
(* cards of the board only.                                                *)
SameJob(j) ==
    AtWork(j) /\ runner'[j].task = runner[j].task /\ runner'[j].kind = runner[j].kind

(* It keeps the quiet.                                                     *)
LEMMA QuietAfterStore ==
    ASSUME Quiet, NEW new, NEW ok, Store(new, ok) \/ (new = mem /\ UNCHANGED <<mem, disk>>),
           Clean(new, unborn'), unborn' \subseteq unborn, UNCHANGED <<client, reset>>,
           \A t \in Task : Present(mem, t) => Present(new, t), TypeOK,
           \A j \in Slot : AtWork(j)' =>
             \/ SameJob(j)
             \/ /\ Present(new, runner'[j].task)
                /\ runner'[j].kind = "workflow" => runner'[j].task \in Workflow
    PROVE  Quiet'
<1>1. mem' = new /\ Clean(mem', unborn') /\ Clean(disk', unborn')
  BY StoreClean DEF Quiet, Store, Clean
<1>2. ASSUME NEW j \in Slot, AtWork(j)' PROVE Placed(j)'
  <2>1. CASE SameJob(j)
    BY <1>1, <2>1 DEF SameJob, Quiet, Placed, Present, TypeOK, RunnerRecord
  <2>2. CASE ~SameJob(j)
    BY <1>1, <1>2, <2>2 DEF Placed, Present
  <2> QED
    BY <2>1, <2>2
<1> QED
  BY <1>1, <1>2 DEF Quiet

(* No step of a goroutine ends the quiet or drops a card.                  *)
LEMMA RunnerStepQuiet ==
    ASSUME TypeOK, Quiet, NEW i \in Slot, RunnerStep(i)
    PROVE  Quiet'
<1>1. mem \in WorkspaceState /\ Clean(mem, unborn) /\ runner[i].task \in Task
  BY DEF TypeOK, RunnerRecord, Quiet
<1>2. \A j \in Slot : AtWork(j)' => SameJob(j)
  BY OwnSlotOnly DEF SameJob
<1>3. AtWork(i) => Present(mem, runner[i].task)
  BY DEF Quiet, Placed
<1>4. unborn' = unborn /\ UNCHANGED <<client, reset>>
  BY DEF RunnerStep, Begin, CallReturns, WriteLog, Activate, Undo, CallFails, Requeue,
         DeliverReportStep, DeliverNextStep
<1>5. ASSUME NEW new, NEW ok, Store(new, ok), Clean(new, unborn),
             \A t \in Task : Present(mem, t) => Present(new, t)
      PROVE  Quiet'
  BY <1>2, <1>4, <1>5, QuietAfterStore
<1>6. ASSUME UNCHANGED <<mem, disk>> PROVE Quiet'
  BY <1>1, <1>2, <1>4, <1>6, QuietAfterStore
<1>7. ASSUME NEW new, NEW ok, Store(new, ok), CardsKept(mem, new) PROVE Quiet'
  BY <1>1, <1>5, <1>7, SameCardsClean
<1>8. ASSUME NEW ok, NEW status \in {"active", "queued"}, Present(mem, runner[i].task),
             Store(SetTaskExecution(mem, runner[i].task, status, runner[i].agent), ok)
      PROVE  Quiet'
  BY <1>1, <1>7, <1>8, SetExecutionKeepsCards
<1>9. CASE Begin(i) \/ CallReturns(i)
  BY <1>6, <1>9 DEF Begin, CallReturns
<1>10. ASSUME NEW ok \in BOOLEAN, WriteLog(i, ok) PROVE Quiet'
  BY <1>1, <1>7, <1>10, InboxKeepsCards DEF WriteLog
<1>11. ASSUME NEW ok \in BOOLEAN, Activate(i, ok) PROVE Quiet'
  BY <1>6, <1>8, <1>11 DEF Activate
<1>12. ASSUME NEW ok \in BOOLEAN, NEW from, NEW to, Requeue(i, ok, from, to) PROVE Quiet'
  BY <1>6, <1>8, <1>12 DEF Requeue
<1>13. ASSUME NEW ok \in BOOLEAN, DeliverReportStep(i, ok) \/ DeliverNextStep(i, ok)
       PROVE  Quiet'
  <2>1. Present(mem, runner[i].task)
    BY <1>3, <1>13 DEF DeliverReportStep, DeliverNextStep, AtWork
  <2> QED
    BY <1>1, <1>5, <1>13, <2>1, DeliveriesClean DEF DeliverReportStep, DeliverNextStep
<1> QED
  BY <1>9, <1>10, <1>11, <1>12, <1>13 DEF RunnerStep, Undo, CallFails

(* A webhook's new card takes its ID out of the unused ones.               *)
LEMMA NewCardClean ==
    ASSUME NEW s \in WorkspaceState, NEW u, Clean(s, u), NEW t \in Task
    PROVE  /\ Clean(AddTask(s, t), u \ {t})
           /\ \A v \in Task : Present(s, v) => Present(AddTask(s, t), v)
           /\ Present(AddTask(s, t), t)
<1>1. NewTask(t).exec # "absent" /\ ~NewTask(t).trashed
  BY DEF NewTask
<1>2. DOMAIN s.tasks = Task
  BY DEF WorkspaceState
<1>3. AddTask(s, t).tasks = [s.tasks EXCEPT ![t] = NewTask(t)]
  BY DEF AddTask, WorkspaceState
<1> QED
  BY <1>1, <1>2, <1>3 DEF Clean, Present

(* A respawn takes a free slot, one per task.                              *)
LEMMA SpawnedAreFound ==
    ASSUME TypeOK, NEW S \in SUBSET Task, SpawnReruns(S)
    PROVE  \E f \in [S -> Slot] : \A j \in Slot :
             \/ runner'[j] = runner[j]
             \/ ~AtWork(j) /\ \E t \in S : f[t] = j /\ runner'[j] = Rerun(t)
<1>1. PICK f \in [S -> FreeSlots] :
        runner' = [j \in Slot |-> IF \E t \in S : f[t] = j
                                  THEN Rerun(CHOOSE t \in S : f[t] = j)
                                  ELSE runner[j]]
  BY DEF SpawnReruns
<1>2. f \in [S -> Slot] /\ \A j \in Slot, t \in S : f[t] = j => ~AtWork(j)
  BY DEF FreeSlots, AtWork
<1> QED
  BY <1>1, <1>2

(* No webhook, run, watchdog or change of trust does.                      *)
LEMMA ServerStepQuiet ==
    ASSUME TypeOK, Quiet,
           Webhook \/ (\E t \in Task : TaskRun(t)) \/ Watchdog \/ ReportTrust
    PROVE  Quiet'
<1>1. mem \in WorkspaceState /\ Clean(mem, unborn) /\ runner \in [Slot -> RunnerRecord]
  BY DEF TypeOK, Quiet
<1>2. ASSUME NEW i \in Slot, NEW r, SetRunner(i, r), NEW j \in Slot
      PROVE  AtWork(j)' => SameJob(j) \/ runner'[j] = r
  BY <1>1, <1>2 DEF SetRunner, AtWork, SameJob
<1>3. UNCHANGED runner => \A j \in Slot : AtWork(j)' => SameJob(j)
  BY DEF AtWork, SameJob
<1>4. ASSUME NEW ok \in BOOLEAN, NEW t \in Task, WebhookIngest(t, ok) PROVE Quiet'
  <2>1. UNCHANGED runner \/ \E i \in Slot : SetRunner(i, Goroutine("workflow", t, "greet"))
    BY <1>4 DEF WebhookIngest
  <2>2. \A j \in Slot : AtWork(j)' => SameJob(j) \/ (runner'[j].task = t /\ t \in Workflow)
    BY <1>2, <1>3, <1>4, <2>1 DEF WebhookIngest, Goroutine
  <2>3. /\ Store(AddTask(mem, t), ok) /\ unborn' = unborn \ {t} /\ UNCHANGED <<client, reset>>
    BY <1>4 DEF WebhookIngest
  <2>4. /\ Clean(AddTask(mem, t), unborn \ {t}) /\ Present(AddTask(mem, t), t)
        /\ \A v \in Task : Present(mem, v) => Present(AddTask(mem, t), v)
    BY <1>1, NewCardClean
  <2> QED
    BY <2>2, <2>3, <2>4, QuietAfterStore
<1>5. ASSUME NEW ok \in BOOLEAN, WebhookNotify(ok) PROVE Quiet'
  <2>1. UNCHANGED runner \/ \E i \in Slot : SetRunner(i, Goroutine("run", AnyTask, "noted"))
    BY <1>5 DEF WebhookNotify
  <2>2. \A j \in Slot : AtWork(j)' => SameJob(j)
    BY <1>2, <1>3, <2>1 DEF Goroutine, AtWork
  <2>3. /\ Store(AddBossReportOnly(mem, Len(outs) + 1), ok)
        /\ UNCHANGED <<client, reset, unborn>>
    BY <1>5 DEF WebhookNotify
  <2>4. CardsKept(mem, AddBossReportOnly(mem, Len(outs) + 1))
    BY <1>1, InboxKeepsCards
  <2>5. /\ Clean(AddBossReportOnly(mem, Len(outs) + 1), unborn')
        /\ \A t \in Task : Present(mem, t) => Present(AddBossReportOnly(mem, Len(outs) + 1), t)
    BY <1>1, <2>3, <2>4, SameCardsClean
  <2> QED
    BY <2>2, <2>3, <2>5, QuietAfterStore
<1>6. ASSUME NEW t \in Task, TaskRun(t) PROVE Quiet'
  <2> DEFINE r == [Goroutine("run", t, "activate") EXCEPT
                        !.step = mem.tasks[t].step, !.agent = mem.tasks[t].agent]
  <2>1. r.task = t /\ r.kind = "run"
    BY DEF Goroutine
  <2>2. PICK i \in Slot : SetRunner(i, r)
    BY <1>6 DEF TaskRun
  <2> HIDE DEF r
  <2>3. \A j \in Slot : AtWork(j)' =>
          SameJob(j) \/ (runner'[j].task = t /\ runner'[j].kind = "run")
    BY <1>2, <2>1, <2>2
  <2> QED
    BY <1>1, <1>6, <2>3, QuietAfterStore DEF TaskRun
<1>7. ASSUME NEW old \in SUBSET Task, NEW ok \in BOOLEAN,
             RetryStuckTasks(old, ok) \/ RecoverOrphaned(old, ok)
      PROVE  Quiet'
  <2>1. PICK new \in {MarkStuckTasksRetrying(mem, old), RecoverOrphanedRetrying(mem, old)} :
          Store(new, ok) /\ CardsKept(mem, new)
    BY <1>1, <1>7, WatchdogsKeepCards DEF RetryStuckTasks, RecoverOrphaned
  <2>2. \A t \in old : Present(mem, t)
    BY <1>7 DEF RetryStuckTasks, RecoverOrphaned, StuckTasks, OrphanedTasks, Present
  <2>3. SpawnReruns(ToRespawn(mem, old)) /\ UNCHANGED <<client, reset, unborn>>
    BY <1>7 DEF RetryStuckTasks, RecoverOrphaned
  <2>4. ToRespawn(mem, old) \in SUBSET Task /\ ToRespawn(mem, old) \subseteq old
    BY DEF ToRespawn
  <2>5. \A j \in Slot : AtWork(j)' =>
          \/ SameJob(j)
          \/ \E t \in old : runner'[j] = Rerun(t)
    BY <2>3, <2>4, SpawnedAreFound DEF AtWork, SameJob
  <2>6. Clean(new, unborn') /\ \A t \in Task : Present(mem, t) => Present(new, t)
    BY <1>1, <2>1, <2>3, SameCardsClean
  <2>7. \A t \in old : /\ Rerun(t).task = t
                       /\ Rerun(t).kind = "workflow" => t \in Workflow
    BY DEF Rerun, Goroutine
  <2> QED
    BY <2>1, <2>2, <2>3, <2>5, <2>6, <2>7, QuietAfterStore
<1>8. ASSUME NEW ok \in BOOLEAN, NEW id, NEW trust, SetTrust(id, trust, ok) PROVE Quiet'
  <2>1. Store(SetReportTrust(mem, id, trust), ok) /\ UNCHANGED <<client, reset, unborn, runner>>
    BY <1>8 DEF SetTrust
  <2>2. CardsKept(mem, SetReportTrust(mem, id, trust))
    BY <1>1, InboxKeepsCards
  <2>3. /\ Clean(SetReportTrust(mem, id, trust), unborn')
        /\ \A t \in Task : Present(mem, t) => Present(SetReportTrust(mem, id, trust), t)
    BY <1>1, <2>1, <2>2, SameCardsClean
  <2> QED
    BY <1>3, <2>1, <2>3, QuietAfterStore
<1> QED
  BY <1>4, <1>5, <1>6, <1>7, <1>8 DEF Webhook, Watchdog, ReportTrust

(* A browser that only reads changes neither the store nor a goroutine.    *)
LEMMA RequestStepQuiet ==
    ASSUME TypeOK, FuelBound, Quiet, NoPuts', ResetHandler \/ Browser
    PROVE  Quiet' /\ UNCHANGED <<mem, disk, runner, unborn, outs>>
<1>1. CASE GetSnapshot \/ \E full \in BOOLEAN : GetTag(full)
  <2>1. UNCHANGED <<mem, disk, runner, reset, unborn, outs>>
    BY <1>1 DEF GetSnapshot, GetTag
  <2>2. GetSnapshot => client'.pc = "reading"
    BY DEF GetSnapshot, TypeOK, ClientRecord
  <2>3. \A full \in BOOLEAN : GetTag(full) => client'.pc = "idle"
    BY DEF GetTag, IdleClient
  <2> QED
    BY <1>1, <2>1, <2>2, <2>3 DEF Quiet, Clean, Present, AtWork, Placed
<1>2. ~TaskResetSnapshot /\ ~PutMerge /\ ~PutRespond /\ ~PutLost
  BY DEF Quiet, TaskResetSnapshot, PutMerge, PutRespond, PutLost
<1>3. ASSUME NEW ok, NEW expired PROVE ~TaskResetReplace(expired, ok) /\ ~PutReplace(expired, ok)
  BY DEF Quiet, TaskResetReplace, PutReplace
<1> QED
  BY <1>1, <1>2, <1>3, NothingBegins DEF ResetHandler, Browser

(* A crash takes the goroutines along; the load after it drops no card.    *)
LEMMA RestartQuiet ==
    ASSUME TypeOK, DownIsIdle, Quiet, Crash \/ Restart
    PROVE  Quiet'
<1>1. CASE Crash
  <2>1. UNCHANGED <<disk, unborn>> /\ mem' = disk /\ reset'.pc = "idle" /\ client'.pc = "idle"
    BY <1>1 DEF Crash, IdleReset, Unanswered, IdleClient
  <2>2. \A i \in Slot : ~AtWork(i)'
    BY <1>1 DEF Crash, AtWork, FreeRunner
  <2> QED
    BY <2>1, <2>2 DEF Quiet, Clean, Present
<1>2. ASSUME NEW expired, Load(expired) PROVE Quiet'
  <2> DEFINE new == NormalizeWorkspaceState(disk, expired)
  <2>1. disk \in WorkspaceState /\ Clean(disk, unborn)
    BY DEF TypeOK, Quiet
  <2>2. CardsKept(disk, new)
    BY <2>1, NormalizeKeepsCards DEF Clean
  <2>3. Clean(new, unborn)
    BY <2>1, <2>2, SameCardsClean
  <2>4. mem' = new /\ disk' = new /\ UNCHANGED <<runner, client, reset, unborn>>
    BY <1>2 DEF Load, Store
  <2>5. \A i \in Slot : ~AtWork(i)'
    BY <1>2, <2>4 DEF Load, DownIsIdle, AtWork
  <2> HIDE DEF new
  <2> QED
    BY <2>3, <2>4, <2>5 DEF Quiet, Clean, Present
<1> QED
  BY <1>1, <1>2 DEF Restart

QuietUntilPut == FuelBound /\ (NoPuts => Quiet)

(* Until the first PUT or reset, the board is quiet: the trash is empty,   *)
(* no request writes a copy of the board back, and every goroutine's task  *)
(* is still there.                                                         *)
LEMMA StaysQuiet == Spec => []QuietUntilPut
<1>1. Init => QuietUntilPut
  <2> SUFFICES ASSUME Init PROVE FuelBound /\ Quiet
    BY DEF QuietUntilPut
  <2>1. PICK plain \in SUBSET (Task \ Workflow) :
          /\ mem = [EmptyWorkspace EXCEPT !.tasks =
                     [t \in Task |-> IF t \in plain THEN NewTask(t) ELSE Absent(t)]]
          /\ unborn = Task \ plain
    BY DEF Init
  <2>2. \A t \in Task : ~NewTask(t).trashed /\ ~Absent(t).trashed /\ Absent(t).exec = "absent"
    BY DEF NewTask, Absent
  <2>3. mem.tasks = [t \in Task |-> IF t \in plain THEN NewTask(t) ELSE Absent(t)]
    BY <2>1 DEF EmptyWorkspace
  <2>4. Clean(mem, unborn)
    BY <2>1, <2>2, <2>3 DEF Clean, Present
  <2>5. FuelBound
    BY FuelAssumption DEF Init, FuelBound
  <2> QED
    BY <2>4, <2>5 DEF Init, Quiet, IdleClient, IdleReset, AtWork, FreeRunner
<1>2. ASSUME TypeOK, DownIsIdle, QuietUntilPut, [Next]_vars PROVE QuietUntilPut'
  <2>1. FuelBound' /\ (NoPuts' => NoPuts)
    BY <1>2, FuelOnlyShrinks DEF QuietUntilPut
  <2>2. ASSUME Quiet, NoPuts' PROVE Quiet'
    <3>1. CASE UNCHANGED vars
      BY <2>2, <3>1 DEF vars, Quiet, Clean, Present, AtWork, Placed
    <3>2. CASE Next
      BY <1>2, <2>2, <3>2, RunnerStepQuiet, ServerStepQuiet, RequestStepQuiet, RestartQuiet
         DEF Next, QuietUntilPut
    <3> QED
      BY <1>2, <3>1, <3>2
  <2> QED
    BY <1>2, <2>1, <2>2 DEF QuietUntilPut
<1> QED
  BY <1>1, <1>2, TypeCorrect, IdleWhenDown, PTL DEF Spec

---------------------------------------------------------------------------
(* "One row per task", through every interleaving.                         *)

BothOneRow == OneRow(mem) /\ OneRow(disk)

(* saveLocked writes what memory holds or nothing.                         *)
LEMMA StoreOneRow ==
    ASSUME NEW new, NEW ok, OneRow(disk), OneRow(new), Store(new, ok)
    PROVE  BothOneRow'
BY DEF Store, BothOneRow

(* A change of cards that keeps their links and every row.                 *)
LEMMA SameCardsOneRow ==
    ASSUME BothOneRow, NEW new, NEW ok, Store(new, ok), CardsKept(mem, new),
           new.reports = mem.reports
    PROVE  BothOneRow'
BY OneRowKept, StoreOneRow DEF BothOneRow, CardsKept, SameCard

(* A goroutine's delivery is the only step of it that touches rows.        *)
LEMMA RunnerStepOneRow ==
    ASSUME BothOneRow, TypeOK, Quiet, RowsBelongToTheirTask, NEW i \in Slot, RunnerStep(i)
    PROVE  BothOneRow'
<1>1. /\ mem \in WorkspaceState /\ runner[i].task \in Task /\ outs \in History
      /\ CopyMatches(mem, outs)
  BY DEF TypeOK, RunnerRecord, History, RowsBelongToTheirTask
<1>2. UNCHANGED <<mem, disk>> => BothOneRow'
  BY DEF BothOneRow
<1>3. AtWork(i) => Placed(i)
  BY DEF Quiet
<1>4. ASSUME NEW ok, NEW status \in {"active", "queued"}, Present(mem, runner[i].task),
             Store(SetTaskExecution(mem, runner[i].task, status, runner[i].agent), ok)
      PROVE  BothOneRow'
  <2>1. SetTaskExecution(mem, runner[i].task, status, runner[i].agent).reports = mem.reports
    BY <1>1 DEF SetTaskExecution, WorkspaceState
  <2> QED
    BY <1>1, <1>4, <2>1, SetExecutionKeepsCards, SameCardsOneRow
<1>5. CASE Begin(i) \/ CallReturns(i)
  BY <1>2, <1>5 DEF Begin, CallReturns
<1>6. ASSUME NEW ok \in BOOLEAN, WriteLog(i, ok) PROVE BothOneRow'
  <2>1. AddSessionLog(mem).reports = mem.reports
    BY <1>1 DEF AddSessionLog, WorkspaceState
  <2> QED
    BY <1>1, <1>6, <2>1, InboxKeepsCards, SameCardsOneRow DEF WriteLog
<1>7. ASSUME NEW ok \in BOOLEAN, Activate(i, ok) PROVE BothOneRow'
  BY <1>2, <1>4, <1>7 DEF Activate
<1>8. ASSUME NEW ok \in BOOLEAN, NEW from, NEW to, Requeue(i, ok, from, to) PROVE BothOneRow'
  BY <1>2, <1>4, <1>8 DEF Requeue
<1>9. ASSUME NEW ok \in BOOLEAN, DeliverReportStep(i, ok) PROVE BothOneRow'
  <2>1. Present(mem, runner[i].task)
    BY <1>3, <1>9 DEF DeliverReportStep, AtWork, Placed
  <2> QED
    BY <1>1, <1>9, <2>1, CompleteKeepsOneRow, StoreOneRow DEF DeliverReportStep, BothOneRow
<1>10. ASSUME NEW ok \in BOOLEAN, DeliverNextStep(i, ok) PROVE BothOneRow'
  <2> DEFINE t == runner[i].task
             new == AdvanceWorkflowStep(mem, t, runner[i].step + 1)
  <2>1. t \in Workflow
    BY <1>3, <1>10 DEF DeliverNextStep, HasNextStep, AtWork, Placed
  <2>2. new.reports = mem.reports /\ \A u \in Task \ {t} : new.tasks[u] = mem.tasks[u]
    BY <1>1 DEF AdvanceWorkflowStep, WorkspaceState
  <2>3. Store(new, ok)
    BY <1>10 DEF DeliverNextStep
  <2> HIDE DEF new
  <2> QED
    BY <2>1, <2>2, <2>3, OneRowKept, StoreOneRow DEF BothOneRow
<1> QED
  BY <1>5, <1>6, <1>7, <1>8, <1>9, <1>10 DEF RunnerStep, Undo, CallFails

(* Webhooks, watchdogs and changes of trust leave the rows of plain tasks  *)
(* where they are.                                                         *)
LEMMA ServerStepOneRow ==
    ASSUME BothOneRow, TypeOK, RowsBelongToTheirTask,
           Webhook \/ (\E t \in Task : TaskRun(t)) \/ Watchdog \/ ReportTrust
    PROVE  BothOneRow'
<1>1. mem \in WorkspaceState /\ outs \in History /\ CopyMatches(mem, outs)
  BY DEF TypeOK, History, RowsBelongToTheirTask
<1>2. ASSUME NEW ok \in BOOLEAN, NEW t \in Task, WebhookIngest(t, ok) PROVE BothOneRow'
  <2>1. Store(AddTask(mem, t), ok) /\ t \in Workflow
    BY <1>2 DEF WebhookIngest
  <2>2. /\ AddTask(mem, t).reports = mem.reports
        /\ \A u \in Task \ {t} : AddTask(mem, t).tasks[u] = mem.tasks[u]
    BY <1>1 DEF AddTask, WorkspaceState
  <2> QED
    BY <2>1, <2>2, OneRowKept, StoreOneRow DEF BothOneRow
<1>3. ASSUME NEW ok \in BOOLEAN, WebhookNotify(ok) PROVE BothOneRow'
  BY <1>1, <1>3, InboxKeepsOneRow, StoreOneRow DEF WebhookNotify, BothOneRow, Trust
<1>4. ASSUME NEW old \in SUBSET Task, NEW ok \in BOOLEAN,
             RetryStuckTasks(old, ok) \/ RecoverOrphaned(old, ok)
      PROVE  BothOneRow'
  <2>1. PICK new \in {MarkStuckTasksRetrying(mem, old), RecoverOrphanedRetrying(mem, old)} :
          Store(new, ok) /\ CardsKept(mem, new)
    BY <1>1, <1>4, WatchdogsKeepCards DEF RetryStuckTasks, RecoverOrphaned
  <2>2. new.reports = mem.reports
    BY <1>1 DEF MarkStuckTasksRetrying, RecoverOrphanedRetrying, WorkspaceState
  <2> QED
    BY <2>1, <2>2, SameCardsOneRow
<1>5. ASSUME NEW ok \in BOOLEAN, NEW id, NEW trust \in Trust, SetTrust(id, trust, ok)
      PROVE  BothOneRow'
  BY <1>1, <1>5, InboxKeepsOneRow, StoreOneRow DEF SetTrust, BothOneRow
<1>6. ASSUME NEW t \in Task, TaskRun(t) PROVE BothOneRow'
  BY <1>6 DEF TaskRun, BothOneRow
<1> QED
  BY <1>2, <1>3, <1>4, <1>5, <1>6 DEF Webhook, Watchdog, ReportTrust, Trust

(* So do a crash and the load after it.                                    *)
LEMMA RestartOneRow ==
    ASSUME BothOneRow, TypeOK, Quiet, Crash \/ Restart
    PROVE  BothOneRow'
<1>1. CASE Crash
  BY <1>1 DEF Crash, BothOneRow
<1>2. ASSUME NEW expired, Load(expired) PROVE BothOneRow'
  <2>1. disk \in WorkspaceState /\ Clean(disk, unborn)
    BY DEF TypeOK, Quiet
  <2>2. OneRow(NormalizeWorkspaceState(disk, expired))
    BY <2>1, NormalizeKeepsOneRow DEF BothOneRow, Clean
  <2> QED
    BY <1>2, <2>2, StoreOneRow DEF Load, BothOneRow
<1> QED
  BY <1>1, <1>2 DEF Restart

(* However often and however concurrently a plain task is run, retried,    *)
(* respawned and restarted, and wherever a save fails or the process dies: *)
(* as long as no PUT or reset rewrites the board, the rows of the task are *)
(* exactly the one its card links to, or none.                             *)
THEOREM PlainTasksHaveOneRow == Spec => []OneRowPerPlainTask
<1> DEFINE Inv == NoPuts => BothOneRow
<1>1. Init => Inv
  <2> SUFFICES ASSUME Init PROVE BothOneRow
    OBVIOUS
  <2>1. mem.reports = {} /\ disk = mem
    BY DEF Init, EmptyWorkspace
  <2> QED
    BY <2>1 DEF BothOneRow, OneRow, RowsWithId
<1>2. ASSUME TypeOK, QuietUntilPut, RowsBelongToTheirTask, Inv, [Next]_vars PROVE Inv'
  <2> SUFFICES ASSUME NoPuts' PROVE BothOneRow'
    OBVIOUS
  <2>1. Quiet /\ BothOneRow /\ FuelBound
    BY <1>2, FuelOnlyShrinks DEF QuietUntilPut
  <2>2. CASE UNCHANGED vars
    BY <2>1, <2>2 DEF vars, BothOneRow
  <2>3. CASE Next
    <3>1. CASE ResetHandler \/ Browser
      BY <1>2, <2>1, <3>1, RequestStepQuiet DEF BothOneRow
    <3> QED
      BY <1>2, <2>1, <2>3, <3>1, RunnerStepOneRow, ServerStepOneRow, RestartOneRow DEF Next
  <2> QED
    BY <1>2, <2>2, <2>3
<1>3. Inv => OneRowPerPlainTask
  BY DEF OneRowPerPlainTask, BothOneRow, OneRow
<1> QED
  BY <1>1, <1>2, <1>3, TypeCorrect, StaysQuiet, ReportsBelong, PTL DEF Spec

---------------------------------------------------------------------------
(* "Steps in order", where no watchdog overtakes a goroutine.              *)

CtxInOrder(ctx, step) ==
    /\ \A k \in 1 .. Len(ctx) :
        /\ ctx[k] <= step
        /\ IF k = 1 THEN ctx[k] = 0 ELSE ctx[k] - ctx[k - 1] \in {0, 1}
    /\ step > 0 => ctx # <<>> /\ ctx[Len(ctx)] >= step - 1

InOrder(t, task) == CtxInOrder(task.ctx, task.step) /\ task.agent = Plan[t][task.step + 1]
Ordered(s) == \A t \in Workflow : InOrder(t, s.tasks[t])

(* Recording the step a task stands at keeps the order, also when the task *)
(* moves on by one.                                                        *)
LEMMA AppendInOrder ==
    ASSUME NEW ctx \in Seq(Nat), NEW step \in Nat, CtxInOrder(ctx, step),
           NEW next \in {step, step + 1}
    PROVE  CtxInOrder(Append(ctx, step), next)
<1> DEFINE new == Append(ctx, step)
<1>1. /\ Len(ctx) \in Nat /\ Len(new) = Len(ctx) + 1 /\ new[Len(ctx) + 1] = step
      /\ \A k \in 1 .. Len(ctx) : new[k] = ctx[k] /\ ctx[k] \in Nat
  OBVIOUS
<1>2. ctx = <<>> <=> Len(ctx) = 0
  OBVIOUS
<1> HIDE DEF new
<1>3. new # <<>>
  BY <1>1
<1>4. \A k \in 1 .. Len(ctx) : ctx[k] <= step
  BY DEF CtxInOrder
<1>5. ASSUME NEW k \in 1 .. Len(ctx)
      PROVE  new[k] <= next /\ IF k = 1 THEN new[k] = 0 ELSE new[k] - new[k - 1] \in {0, 1}
  <2>1. IF k = 1 THEN ctx[k] = 0 ELSE ctx[k] - ctx[k - 1] \in {0, 1}
    BY DEF CtxInOrder
  <2>2. k # 1 => k - 1 \in 1 .. Len(ctx)
    BY <1>1
  <2> QED
    BY <1>1, <1>4, <2>1, <2>2
<1>6. IF Len(ctx) + 1 = 1 THEN step = 0 ELSE step - ctx[Len(ctx)] \in {0, 1}
  <2>1. CASE Len(ctx) = 0
    BY <1>2, <2>1 DEF CtxInOrder
  <2>2. CASE Len(ctx) # 0
    <3>1. Len(ctx) \in 1 .. Len(ctx) /\ ctx[Len(ctx)] \in Nat /\ ctx[Len(ctx)] <= step
      BY <1>1, <1>4, <2>2
    <3>2. step > 0 => ctx[Len(ctx)] >= step - 1
      BY DEF CtxInOrder
    <3> QED
      BY <1>1, <2>2, <3>1, <3>2
  <2> QED
    BY <2>1, <2>2
<1>7. ASSUME NEW k \in 1 .. Len(new)
      PROVE  new[k] <= next /\ IF k = 1 THEN new[k] = 0 ELSE new[k] - new[k - 1] \in {0, 1}
  <2>1. CASE k \in 1 .. Len(ctx)
    BY <1>5, <2>1
  <2>2. CASE k = Len(ctx) + 1
    <3>1. k # 1 => new[k - 1] = ctx[Len(ctx)]
      BY <1>1, <2>2
    <3> QED
      BY <1>1, <1>6, <2>2, <3>1
  <2> QED
    BY <1>1, <2>1, <2>2
<1>8. next > 0 => new # <<>> /\ new[Len(new)] >= next - 1
  BY <1>1, <1>3
<1>9. CtxInOrder(new, next)
  BY <1>7, <1>8 DEF CtxInOrder
<1> QED
  BY <1>9 DEF new

(* What keeps a card keeps its order.                                      *)
LEMMA SameCardsOrdered ==
    ASSUME NEW s, NEW next, Ordered(s), CardsKept(s, next)
    PROVE  Ordered(next)
BY WorkflowAssumption DEF Ordered, InOrder, CardsKept, SameCard

(* A new card starts at the first step with no context.                    *)
LEMMA NewCardOrdered ==
    ASSUME NEW s \in WorkspaceState, Ordered(s), NEW t \in Task
    PROVE  Ordered(AddTask(s, t)) /\ InOrder(t, Absent(t))
<1>1. InOrder(t, NewTask(t)) /\ InOrder(t, Absent(t))
  BY DEF InOrder, CtxInOrder, NewTask, Absent
<1>2. DOMAIN s.tasks = Task
  BY DEF WorkspaceState
<1>3. AddTask(s, t).tasks = [s.tasks EXCEPT ![t] = NewTask(t)]
  BY DEF AddTask, WorkspaceState
<1> QED
  BY <1>1, <1>2, <1>3, WorkflowAssumption DEF Ordered

(* A delivery records the step the card stands at; a workflow's goroutine  *)
(* moves on from that very step.                                           *)
LEMMA DeliveriesOrdered ==
    ASSUME NEW s \in WorkspaceState, Ordered(s), NEW t \in Task, NEW a, NEW n
    PROVE  /\ Ordered(CompleteTaskWithReport(s, t, a, n))
           /\ Ordered(AdvanceWorkflowStep(s, t, s.tasks[t].step + 1))
           /\ \A u \in Task : CompleteTaskWithReport(s, t, a, n).tasks[u].step = s.tasks[u].step
           /\ \A u \in Task \ {t} :
                AdvanceWorkflowStep(s, t, s.tasks[t].step + 1).tasks[u] = s.tasks[u]
<1> DEFINE step == s.tasks[t].step
           done == CompleteTaskWithReport(s, t, a, n)
           moved == AdvanceWorkflowStep(s, t, step + 1)
           finished == IF Present(s, t) THEN FinishTask(t, s.tasks[t], ReportIdFor(s, t, n))
                                        ELSE s.tasks[t]
           stepped == IF Present(s, t) THEN MoveToStep(t, s.tasks[t], step + 1) ELSE s.tasks[t]
<1>1. s.tasks[t] \in TaskRecord /\ DOMAIN s.tasks = Task
  BY DEF WorkspaceState
<1>2. step \in Nat /\ s.tasks[t].ctx \in Seq(Nat)
  BY <1>1 DEF TaskRecord
<1>3. /\ finished.step = step /\ finished.agent = s.tasks[t].agent
      /\ t \in Workflow => finished.ctx \in {s.tasks[t].ctx, Append(s.tasks[t].ctx, step)}
  BY <1>1 DEF FinishTask, TaskRecord
<1>4. \/ stepped = s.tasks[t]
      \/ /\ stepped.step = step + 1 /\ stepped.agent = Plan[t][step + 1 + 1]
         /\ stepped.ctx = Append(s.tasks[t].ctx, step)
  BY <1>1 DEF MoveToStep, TaskRecord
<1>5. done.tasks = [s.tasks EXCEPT ![t] = finished]
  BY DEF CompleteTaskWithReport, WorkspaceState
<1>6. moved.tasks = [s.tasks EXCEPT ![t] = stepped]
  BY DEF AdvanceWorkflowStep, WorkspaceState
<1> HIDE DEF done, moved, finished, stepped
<1>7. ASSUME t \in Workflow PROVE InOrder(t, finished) /\ InOrder(t, stepped)
  <2>1. CtxInOrder(s.tasks[t].ctx, step) /\ s.tasks[t].agent = Plan[t][step + 1]
    BY <1>7 DEF Ordered, InOrder
  <2>2. /\ CtxInOrder(Append(s.tasks[t].ctx, step), step)
        /\ CtxInOrder(Append(s.tasks[t].ctx, step), step + 1)
    BY <1>2, <2>1, AppendInOrder
  <2>3. InOrder(t, finished)
    BY <1>3, <1>7, <2>1, <2>2 DEF InOrder
  <2>4. InOrder(t, stepped)
    BY <1>4, <2>1, <2>2 DEF InOrder
  <2> QED
    BY <2>3, <2>4
<1>8. Ordered(done) /\ Ordered(moved)
  BY <1>1, <1>5, <1>6, <1>7, WorkflowAssumption DEF Ordered
<1>9. \A u \in Task : done.tasks[u].step = s.tasks[u].step
  BY <1>1, <1>3, <1>5
<1>10. \A u \in Task \ {t} : moved.tasks[u] = s.tasks[u]
  BY <1>1, <1>6
<1> QED
  BY <1>8, <1>9, <1>10 DEF done, moved

(* The goroutines of workflows: one per task, and while one works on a     *)
(* step it is the step its card stands at.                                 *)
RunsWorkflow(i) == AtWork(i) /\ runner[i].kind = "workflow"
OnStep(i) ==
    /\ runner[i].pc \in {"start", "activate", "call", "returned", "deliver"}
    /\ runner[i].kind = "workflow"

AloneOnTask ==
    \A i, j \in Slot :
        RunsWorkflow(i) /\ RunsWorkflow(j) /\ runner[i].task = runner[j].task => i = j
OnTheirSteps ==
    \A i \in Slot : OnStep(i) => runner[i].step = mem.tasks[runner[i].task].step
StepsKept == AloneOnTask /\ OnTheirSteps /\ Ordered(mem) /\ Ordered(disk)

(* saveLocked writes what memory holds or nothing.                         *)
LEMMA StoreOrdered ==
    ASSUME NEW new, NEW ok, Ordered(disk), Ordered(new), Store(new, ok)
    PROVE  Ordered(mem') /\ Ordered(disk')
BY DEF Store

(* A goroutine reads the step once, and keeps it until it is delivered.    *)
LEMMA OnStepKept ==
    ASSUME TypeOK, NEW i \in Slot, RunnerStep(i), OnStep(i)'
    PROVE  /\ runner'[i].task = runner[i].task
           /\ \/ OnStep(i) /\ runner'[i].step = runner[i].step
              \/ Begin(i) /\ runner'[i].step = mem.tasks[runner[i].task].step
           /\ \A ok \in BOOLEAN : ~DeliverNextStep(i, ok)
<1>1. runner \in [Slot -> RunnerRecord] /\ runner[i] \in RunnerRecord
  BY DEF TypeOK
<1>2. ASSUME NEW pc, Goto(i, pc)
      PROVE  /\ runner'[i].pc = pc
             /\ pc = "free" => runner'[i].kind = "run"
             /\ pc # "free" => /\ runner'[i].task = runner[i].task
                               /\ runner'[i].step = runner[i].step
                               /\ runner'[i].kind = runner[i].kind
  BY <1>1, <1>2 DEF Goto, SetRunner, FreeRunner, RunnerRecord
<1>3. ASSUME Begin(i)
      PROVE  /\ runner'[i].task = runner[i].task
             /\ runner'[i].step = mem.tasks[runner[i].task].step
  <2>1. CASE Present(mem, runner[i].task)
    <3> DEFINE r == [runner[i] EXCEPT
                        !.pc = IF runner[i].kind = "workflow" THEN "start" ELSE "activate",
                        !.step = mem.tasks[runner[i].task].step,
                        !.agent = mem.tasks[runner[i].task].agent]
    <3>1. r.task = runner[i].task /\ r.step = mem.tasks[runner[i].task].step
      BY <1>1 DEF RunnerRecord
    <3>2. SetRunner(i, r)
      BY <1>3, <2>1 DEF Begin
    <3> HIDE DEF r
    <3> QED
      BY <1>1, <3>1, <3>2 DEF SetRunner
  <2>2. CASE ~Present(mem, runner[i].task)
    BY <1>2, <1>3, <2>2 DEF Begin, OnStep
  <2> QED
    BY <2>1, <2>2
<1>4. ASSUME NEW ok \in BOOLEAN PROVE ~DeliverNextStep(i, ok)
  <2> SUFFICES ASSUME DeliverNextStep(i, ok) PROVE FALSE
    OBVIOUS
  <2>1. Goto(i, IF ok THEN "begin" ELSE "free")
    BY DEF DeliverNextStep
  <2> QED
    BY <1>2, <2>1 DEF OnStep
<1>5. ASSUME NEW ok \in BOOLEAN, WriteLog(i, ok)
      PROVE  \E pc : Goto(i, pc) /\ (pc \in {"activate", "deliver"} =>
                                       runner[i].pc \in {"start", "returned"})
                                 /\ pc \in {"free", "begin", "activate", "deliver"}
  <2>1. Goto(i, AfterLog[runner[i].pc]) /\ runner[i].pc \in DOMAIN AfterLog
    BY <1>5 DEF WriteLog
  <2> QED
    BY <2>1 DEF AfterLog
<1>6. ASSUME NEW ok \in BOOLEAN,
             \/ CallReturns(i) \/ Activate(i, ok) \/ Undo(i, ok) \/ CallFails(i, ok)
             \/ DeliverReportStep(i, ok)
      PROVE  \E pc : Goto(i, pc) /\ (pc \in {"call", "returned", "deliver"} =>
                                       runner[i].pc \in {"activate", "call"})
                                 /\ pc \in {"free", "undo", "call", "failed", "returned", "deliver"}
  BY <1>6 DEF CallReturns, Activate, Undo, CallFails, Requeue, DeliverReportStep
<1>7. ASSUME NEW ok \in BOOLEAN,
             \/ CallReturns(i) \/ Activate(i, ok) \/ Undo(i, ok) \/ CallFails(i, ok)
             \/ DeliverReportStep(i, ok) \/ WriteLog(i, ok)
      PROVE  /\ runner'[i].task = runner[i].task /\ OnStep(i)
             /\ runner'[i].step = runner[i].step
  <2>1. PICK pc : Goto(i, pc) /\ (pc \in {"activate", "call", "returned", "deliver"} =>
                                    runner[i].pc \in {"start", "returned", "activate", "call"})
                              /\ pc \in {"free", "begin", "undo", "call", "failed", "returned",
                                         "activate", "deliver"}
    BY <1>5, <1>6, <1>7
  <2> QED
    BY <1>2, <2>1 DEF OnStep
<1> QED
  BY <1>3, <1>4, <1>7 DEF RunnerStep

(* A step of a goroutine keeps the contexts in order, and moves no card    *)
(* but the one its own goroutine stands on.                                *)
LEMMA RunnerStepOrdered ==
    ASSUME TypeOK, Quiet, StepsKept, NEW i \in Slot, RunnerStep(i)
    PROVE  /\ Ordered(mem') /\ Ordered(disk')
           /\ \A t \in Task :
                \/ mem'.tasks[t].step = mem.tasks[t].step
                \/ /\ t = runner[i].task /\ RunsWorkflow(i)
                   /\ \E ok \in BOOLEAN : DeliverNextStep(i, ok)
<1> DEFINE Moved == \A t \in Task : mem'.tasks[t].step = mem.tasks[t].step
           Kept == Ordered(mem') /\ Ordered(disk')
<1>1. /\ mem \in WorkspaceState /\ runner[i].task \in Task
      /\ Ordered(mem) /\ Ordered(disk)
  BY DEF TypeOK, RunnerRecord, StepsKept
<1>2. UNCHANGED <<mem, disk>> => Kept /\ Moved
  BY <1>1
<1>3. ASSUME NEW new, NEW ok, Store(new, ok), CardsKept(mem, new) PROVE Kept /\ Moved
  <2>1. Ordered(new)
    BY <1>1, <1>3, SameCardsOrdered
  <2>2. mem' = new
    BY <1>3 DEF Store
  <2> QED
    BY <1>1, <1>3, <2>1, <2>2, StoreOrdered DEF CardsKept, SameCard
<1>4. ASSUME NEW ok, NEW status \in {"active", "queued"}, Present(mem, runner[i].task),
             Store(SetTaskExecution(mem, runner[i].task, status, runner[i].agent), ok)
      PROVE  Kept /\ Moved
  BY <1>1, <1>3, <1>4, SetExecutionKeepsCards
<1>5. ASSUME Begin(i) \/ CallReturns(i) PROVE Kept /\ Moved
  BY <1>2, <1>5 DEF Begin, CallReturns
<1>6. ASSUME NEW ok \in BOOLEAN, WriteLog(i, ok) PROVE Kept /\ Moved
  BY <1>1, <1>3, <1>6, InboxKeepsCards DEF WriteLog
<1>7. ASSUME NEW ok \in BOOLEAN, Activate(i, ok) PROVE Kept /\ Moved
  BY <1>2, <1>4, <1>7 DEF Activate
<1>8. ASSUME NEW ok \in BOOLEAN, NEW from, NEW to, Requeue(i, ok, from, to)
      PROVE  Kept /\ Moved
  BY <1>2, <1>4, <1>8 DEF Requeue
<1>9. ASSUME NEW ok \in BOOLEAN, DeliverReportStep(i, ok) PROVE Kept /\ Moved
  <2> DEFINE new == CompleteTaskWithReport(mem, runner[i].task, runner[i].agent, Len(outs) + 1)
  <2>1. Ordered(new) /\ \A u \in Task : new.tasks[u].step = mem.tasks[u].step
    BY <1>1, DeliveriesOrdered
  <2>2. Store(new, ok)
    BY <1>9 DEF DeliverReportStep
  <2> HIDE DEF new
  <2>3. mem' = new
    BY <2>2 DEF Store
  <2> QED
    BY <1>1, <2>1, <2>2, <2>3, StoreOrdered
<1>10. ASSUME NEW ok \in BOOLEAN, DeliverNextStep(i, ok)
       PROVE  /\ Kept /\ RunsWorkflow(i)
              /\ \A t \in Task \ {runner[i].task} : mem'.tasks[t].step = mem.tasks[t].step
  <2> DEFINE t == runner[i].task
             new == AdvanceWorkflowStep(mem, t, mem.tasks[t].step + 1)
  <2>1. OnStep(i) /\ RunsWorkflow(i)
    BY <1>10 DEF DeliverNextStep, HasNextStep, OnStep, RunsWorkflow, AtWork
  <2>2. runner[i].step = mem.tasks[t].step
    BY <2>1 DEF StepsKept, OnTheirSteps
  <2>3. Store(new, ok)
    BY <1>10, <2>2 DEF DeliverNextStep
  <2>4. Ordered(new) /\ \A u \in Task \ {t} : new.tasks[u] = mem.tasks[u]
    BY <1>1, DeliveriesOrdered
  <2> HIDE DEF new
  <2>5. mem' = new
    BY <2>3 DEF Store
  <2> QED
    BY <1>1, <2>1, <2>3, <2>4, <2>5, StoreOrdered
<1> QED
  BY <1>5, <1>6, <1>7, <1>8, <1>9, <1>10 DEF RunnerStep, Undo, CallFails

(* A goroutine's step keeps every goroutine on the step of its card.       *)
LEMMA RunnerStepKeepsSteps ==
    ASSUME TypeOK, Quiet, StepsKept, NEW i \in Slot, RunnerStep(i)
    PROVE  StepsKept'
<1>1. \A j \in Slot : AtWork(j)' => SameJob(j)
  BY OwnSlotOnly DEF SameJob
<1>2. AloneOnTask'
  BY <1>1 DEF StepsKept, AloneOnTask, RunsWorkflow, SameJob
<1>3. ASSUME NEW j \in Slot, OnStep(j)'
      PROVE  runner'[j].step = mem'.tasks[runner'[j].task].step
  <2>1. /\ RunsWorkflow(j) /\ runner'[j].task = runner[j].task
        /\ runner[j].task \in Task
    BY <1>1, <1>3 DEF OnStep, AtWork, RunsWorkflow, SameJob, TypeOK, RunnerRecord
  <2>2. CASE j = i
    <3>1. /\ runner'[i].step = mem.tasks[runner[i].task].step
          /\ \A ok \in BOOLEAN : ~DeliverNextStep(i, ok)
      BY <1>3, <2>2, OnStepKept DEF StepsKept, OnTheirSteps
    <3> QED
      BY <2>1, <2>2, <3>1, RunnerStepOrdered
  <2>3. CASE j # i
    <3>1. runner'[j] = runner[j]
      BY <2>3, OwnSlotOnly
    <3>2. runner[j].step = mem.tasks[runner[j].task].step
      BY <1>3, <3>1 DEF OnStep, StepsKept, OnTheirSteps
    <3>3. RunsWorkflow(i) => runner[j].task # runner[i].task
      BY <2>1, <2>3 DEF StepsKept, AloneOnTask
    <3> QED
      BY <2>1, <3>1, <3>2, <3>3, RunnerStepOrdered
  <2> QED
    BY <2>2, <2>3
<1> QED
  BY <1>2, <1>3, RunnerStepOrdered DEF StepsKept, OnTheirSteps

(* A step that keeps the cards and starts no second goroutine of a         *)
(* workflow.                                                               *)
LEMMA StepsAfterStore ==
    ASSUME TypeOK, StepsKept, NEW new, NEW ok, Store(new, ok) \/ (new = mem /\ UNCHANGED <<mem, disk>>),
           Ordered(new),
           \A j \in Slot : OnStep(j)' =>
             /\ runner'[j] = runner[j]
             /\ new.tasks[runner[j].task].step = mem.tasks[runner[j].task].step,
           AloneOnTask'
    PROVE  StepsKept'
<1>1. mem' = new /\ Ordered(mem') /\ Ordered(disk')
  BY DEF StepsKept, Store
<1>2. ASSUME NEW j \in Slot, OnStep(j)'
      PROVE  runner'[j].step = mem'.tasks[runner'[j].task].step
  BY <1>1, <1>2 DEF OnStep, StepsKept, OnTheirSteps
<1> QED
  BY <1>1, <1>2 DEF StepsKept, OnTheirSteps

(* No watchdog takes a task whose goroutine is still at work.              *)
LEMMA WatchdogsWait ==
    ASSUME TypeOK, ~CallsStall, fuel["late"] = 0, NEW old \in SUBSET Task, NEW ok,
           RetryStuckTasks(old, ok) \/ RecoverOrphaned(old, ok)
    PROVE  \A t \in old : ~Pending(t)
<1>1. CASE RetryStuckTasks(old, ok)
  BY <1>1 DEF RetryStuckTasks, MayBeOverdue
<1>2. CASE RecoverOrphaned(old, ok)
  <2>1. "late" \notin LateCost(old)
    BY <1>2 DEF RecoverOrphaned, Spend
  <2> QED
    BY <2>1 DEF LateCost
<1> QED
  BY <1>1, <1>2

(* So do webhooks, runs, changes of trust, and watchdogs that find only    *)
(* tasks whose goroutine is gone.                                          *)
LEMMA ServerStepKeepsSteps ==
    ASSUME TypeOK, Quiet, StepsKept, ~CallsStall, fuel["late"] = 0,
           Webhook \/ (\E t \in Task : TaskRun(t)) \/ Watchdog \/ ReportTrust
    PROVE  StepsKept'
<1>1. /\ mem \in WorkspaceState /\ runner \in [Slot -> RunnerRecord]
      /\ AloneOnTask /\ Ordered(mem)
      /\ \A j \in Slot : runner[j].task \in Task
  BY DEF TypeOK, RunnerRecord, StepsKept
<1>2. ASSUME NEW i \in Slot, NEW r, SetRunner(i, r)
      PROVE  runner'[i] = r /\ \A j \in Slot \ {i} : runner'[j] = runner[j]
  BY <1>1, <1>2 DEF SetRunner
<1>3. ASSUME \A j \in Slot : runner'[j] = runner[j] \/ ~RunsWorkflow(j)' PROVE AloneOnTask'
  BY <1>1, <1>3 DEF AloneOnTask, RunsWorkflow, AtWork
<1>4. \A j \in Slot : OnStep(j)' => RunsWorkflow(j)'
  BY DEF OnStep, RunsWorkflow, AtWork
<1>5. ASSUME NEW new, NEW ok, Store(new, ok) \/ (new = mem /\ UNCHANGED <<mem, disk>>),
             CardsKept(mem, new), \A j \in Slot : runner'[j] = runner[j] \/ ~RunsWorkflow(j)'
      PROVE  StepsKept'
  <2>1. Ordered(new)
    BY <1>1, <1>5, SameCardsOrdered
  <2>2. \A j \in Slot : new.tasks[runner[j].task].step = mem.tasks[runner[j].task].step
    BY <1>1, <1>5 DEF CardsKept, SameCard
  <2> QED
    BY <1>3, <1>4, <1>5, <2>1, <2>2, StepsAfterStore
<1>6. ASSUME NEW ok \in BOOLEAN, NEW t \in Task, WebhookIngest(t, ok) PROVE StepsKept'
  <2> DEFINE r == Goroutine("workflow", t, "greet")
             new == AddTask(mem, t)
  <2>1. UNCHANGED runner \/ \E i \in Slot : NextSlot(i) /\ SetRunner(i, r)
    BY <1>6 DEF WebhookIngest
  <2>2. r.task = t /\ r.pc = "greet"
    BY DEF Goroutine
  <2>3. \A j \in Slot : AtWork(j) => runner[j].task # t
    BY <1>6 DEF WebhookIngest, Quiet, Clean, Placed
  <2>4. Store(new, ok) /\ Ordered(new)
    BY <1>1, <1>6, NewCardOrdered DEF WebhookIngest
  <2>5. \A u \in Task \ {t} : new.tasks[u] = mem.tasks[u]
    BY <1>1 DEF AddTask, WorkspaceState
  <2> HIDE DEF r, new
  <2>6. AloneOnTask'
    BY <1>1, <1>2, <2>1, <2>2, <2>3 DEF AloneOnTask, RunsWorkflow, AtWork
  <2>7. \A j \in Slot : OnStep(j)' => runner'[j] = runner[j] /\ AtWork(j)
    BY <1>2, <2>1, <2>2 DEF OnStep, AtWork
  <2> QED
    BY <1>1, <2>3, <2>4, <2>5, <2>6, <2>7, StepsAfterStore
<1>7. ASSUME NEW ok \in BOOLEAN, WebhookNotify(ok) PROVE StepsKept'
  <2> DEFINE r == Goroutine("run", AnyTask, "noted")
  <2>1. UNCHANGED runner \/ \E i \in Slot : SetRunner(i, r)
    BY <1>7 DEF WebhookNotify
  <2>2. r.kind = "run"
    BY DEF Goroutine
  <2> HIDE DEF r
  <2>3. \A j \in Slot : runner'[j] = runner[j] \/ ~RunsWorkflow(j)'
    BY <1>2, <2>1, <2>2 DEF RunsWorkflow
  <2> QED
    BY <1>1, <1>5, <1>7, <2>3, InboxKeepsCards DEF WebhookNotify
<1>8. ASSUME NEW t \in Task, TaskRun(t) PROVE StepsKept'
  <2> DEFINE r == [Goroutine("run", t, "activate") EXCEPT
                        !.step = mem.tasks[t].step, !.agent = mem.tasks[t].agent]
  <2>1. r.kind = "run"
    BY DEF Goroutine
  <2>2. PICK i \in Slot : SetRunner(i, r)
    BY <1>8 DEF TaskRun
  <2> HIDE DEF r
  <2>3. \A j \in Slot : runner'[j] = runner[j] \/ ~RunsWorkflow(j)'
    BY <1>2, <2>1, <2>2 DEF RunsWorkflow
  <2>4. UNCHANGED <<mem, disk>> /\ CardsKept(mem, mem)
    BY <1>8 DEF TaskRun, CardsKept, SameCard
  <2> QED
    BY <1>5, <2>3, <2>4
<1>9. ASSUME NEW old \in SUBSET Task, NEW ok \in BOOLEAN,
             RetryStuckTasks(old, ok) \/ RecoverOrphaned(old, ok)
      PROVE  StepsKept'
  <2>1. PICK new \in {MarkStuckTasksRetrying(mem, old), RecoverOrphanedRetrying(mem, old)} :
          Store(new, ok) /\ CardsKept(mem, new)
    BY <1>1, <1>9, WatchdogsKeepCards DEF RetryStuckTasks, RecoverOrphaned
  <2> DEFINE S == ToRespawn(mem, old)
  <2>2. S \in SUBSET Task /\ S \subseteq old
    BY DEF ToRespawn
  <2>3. SpawnReruns(S)
    BY <1>9 DEF RetryStuckTasks, RecoverOrphaned
  <2> HIDE DEF S
  <2>4. PICK f \in [S -> Slot] : \A j \in Slot :
          \/ runner'[j] = runner[j]
          \/ ~AtWork(j) /\ \E t \in S : f[t] = j /\ runner'[j] = Rerun(t)
    BY <2>2, <2>3, SpawnedAreFound
  <2>5. \A t \in S : Rerun(t).task = t /\ Rerun(t).pc = "begin"
    BY DEF Rerun, Goroutine
  <2>6. \A j \in Slot : AtWork(j) => runner[j].task \notin S
    BY <1>9, <2>2, WatchdogsWait DEF Pending, AtWork
  <2>7. AloneOnTask'
    <3> SUFFICES ASSUME NEW i \in Slot, NEW j \in Slot, RunsWorkflow(i)', RunsWorkflow(j)',
                        runner'[i].task = runner'[j].task
                 PROVE  i = j
      BY DEF AloneOnTask
    <3>1. ASSUME NEW k \in Slot, RunsWorkflow(k)'
          PROVE  \/ runner'[k] = runner[k] /\ RunsWorkflow(k) /\ runner[k].task \notin S
                 \/ runner'[k].task \in S /\ f[runner'[k].task] = k
      BY <2>4, <2>5, <2>6, <3>1 DEF RunsWorkflow, AtWork
    <3> QED
      BY <1>1, <3>1 DEF AloneOnTask
  <2>8. \A j \in Slot : OnStep(j)' => runner'[j] = runner[j]
    BY <2>4, <2>5 DEF OnStep
  <2>9. Ordered(new)
    BY <1>1, <2>1, SameCardsOrdered
  <2>10. \A j \in Slot : new.tasks[runner[j].task].step = mem.tasks[runner[j].task].step
    BY <1>1, <2>1 DEF CardsKept, SameCard
  <2> QED
    BY <2>1, <2>7, <2>8, <2>9, <2>10, StepsAfterStore
<1>10. ASSUME NEW ok \in BOOLEAN, NEW id, NEW trust, SetTrust(id, trust, ok) PROVE StepsKept'
  BY <1>1, <1>5, <1>10, InboxKeepsCards DEF SetTrust
<1> QED
  BY <1>6, <1>7, <1>8, <1>9, <1>10 DEF Webhook, Watchdog, ReportTrust

(* So do a crash and the load after it.                                    *)
LEMMA RestartKeepsSteps ==
    ASSUME TypeOK, DownIsIdle, Quiet, StepsKept, Crash \/ Restart
    PROVE  StepsKept'
<1>1. CASE Crash
  <2>1. mem' = disk /\ disk' = disk /\ \A i \in Slot : runner'[i].pc = "free"
    BY <1>1 DEF Crash, FreeRunner
  <2> QED
    BY <2>1 DEF StepsKept, AloneOnTask, OnTheirSteps, OnStep, RunsWorkflow, AtWork
<1>2. ASSUME NEW expired, Load(expired) PROVE StepsKept'
  <2> DEFINE new == NormalizeWorkspaceState(disk, expired)
  <2>1. CardsKept(disk, new)
    BY NormalizeKeepsCards DEF TypeOK, Quiet, Clean
  <2>2. Ordered(new)
    BY <2>1, SameCardsOrdered DEF StepsKept
  <2>3. /\ mem' = new /\ disk' = new
        /\ \A i \in Slot : runner'[i].pc = "free"
    BY <1>2 DEF Load, Store, DownIsIdle
  <2> HIDE DEF new
  <2> QED
    BY <2>2, <2>3 DEF StepsKept, AloneOnTask, OnTheirSteps, OnStep, RunsWorkflow, AtWork
<1> QED
  BY <1>1, <1>2 DEF Restart

(* While calls of the agent stay within the watchdogs' thresholds and no   *)
(* PUT or reset rewrites the board: however runs, failed saves and calls,  *)
(* watchdogs, crashes and restarts interleave, a workflow's context names  *)
(* its steps in order, without a gap, and its card is held by the agent of *)
(* the step it stands at.  Where calls do outlast a threshold, two         *)
(* goroutines of one workflow may move it on twice.                        *)
THEOREM WorkflowStepsInOrder ==
    ASSUME ~CallsStall, Fuel["late"] = 0
    PROVE  Spec => []StepsInOrder
<1> DEFINE Inv == NoPuts => StepsKept
<1>1. Init => Inv
  <2> SUFFICES ASSUME Init PROVE StepsKept
    OBVIOUS
  <2>1. PICK plain \in SUBSET (Task \ Workflow) :
          mem = [EmptyWorkspace EXCEPT !.tasks =
                  [t \in Task |-> IF t \in plain THEN NewTask(t) ELSE Absent(t)]]
    BY DEF Init
  <2>2. \A t \in Workflow : t \in Task /\ mem.tasks[t] = Absent(t)
    BY <2>1, WorkflowAssumption DEF EmptyWorkspace
  <2>3. \A t \in Task : InOrder(t, Absent(t))
    BY DEF InOrder, CtxInOrder, Absent, NewTask
  <2>4. \A i \in Slot : runner[i].pc = "free"
    BY DEF Init, FreeRunner
  <2> QED
    BY <2>2, <2>3, <2>4
       DEF Init, StepsKept, Ordered, AloneOnTask, OnTheirSteps, OnStep, RunsWorkflow, AtWork
<1>2. ASSUME TypeOK, DownIsIdle, QuietUntilPut, Inv, [Next]_vars PROVE Inv'
  <2> SUFFICES ASSUME NoPuts' PROVE StepsKept'
    OBVIOUS
  <2>1. Quiet /\ StepsKept /\ FuelBound
    BY <1>2, FuelOnlyShrinks DEF QuietUntilPut
  <2>2. fuel["late"] = 0
    BY <1>2, <2>1 DEF FuelBound, TypeOK, Kinds
  <2>3. CASE UNCHANGED <<mem, disk, runner>>
    BY <2>1, <2>3 DEF StepsKept, AloneOnTask, OnTheirSteps, OnStep, RunsWorkflow, AtWork
  <2>4. CASE UNCHANGED vars
    BY <2>3, <2>4 DEF vars
  <2>5. CASE Next
    <3>1. CASE ResetHandler \/ Browser
      BY <1>2, <2>1, <2>3, <3>1, RequestStepQuiet
    <3> QED
      BY <1>2, <2>1, <2>2, <2>5, <3>1, RunnerStepKeepsSteps, ServerStepKeepsSteps,
         RestartKeepsSteps DEF Next
  <2> QED
    BY <1>2, <2>4, <2>5
<1>3. Inv => StepsInOrder
  <2>1. StepsKept => \A s \in {mem, disk}, t \in Workflow : InOrder(t, s.tasks[t])
    BY DEF StepsKept, Ordered
  <2> SUFFICES ASSUME Inv, NoPuts, NEW s \in {mem, disk}, NEW t \in Workflow
               PROVE  LET task == s.tasks[t]
                          ctx == task.ctx
                      IN  /\ \A k \in 1 .. Len(ctx) :
                              /\ ctx[k] <= task.step
                              /\ IF k = 1 THEN ctx[k] = 0 ELSE ctx[k] - ctx[k - 1] \in {0, 1}
                          /\ task.step > 0 => ctx # <<>> /\ ctx[Len(ctx)] >= task.step - 1
                          /\ task.agent = Plan[t][task.step + 1]
    BY DEF StepsInOrder
  <2> DEFINE task == s.tasks[t]
  <2>2. InOrder(t, task)
    BY <2>1
  <2> HIDE DEF task
  <2>3. /\ \A k \in 1 .. Len(task.ctx) :
            /\ task.ctx[k] <= task.step
            /\ IF k = 1 THEN task.ctx[k] = 0 ELSE task.ctx[k] - task.ctx[k - 1] \in {0, 1}
        /\ task.step > 0 => task.ctx # <<>> /\ task.ctx[Len(task.ctx)] >= task.step - 1
        /\ task.agent = Plan[t][task.step + 1]
    BY <2>2 DEF InOrder, CtxInOrder
  <2> QED
    BY <2>3 DEF task
<1> QED
  BY <1>1, <1>2, <1>3, TypeCorrect, IdleWhenDown, StaysQuiet, PTL DEF Spec
=============================================================================
