-------------------------- MODULE WebhookDelivery --------------------------
(***************************************************************************)
(* Deliveries of a webhook on their way into a workspace: the sender that  *)
(* retries until it is answered, the record of deliveries seen             *)
(* (internal/server/auth/webhook_dedup.go), the ingest handler             *)
(* (internal/server/webhook.go), and the registry that loads a workspace's *)
(* store from its row at first touch and keeps it                          *)
(* (internal/server/workspace_registry.go).  Members use the same store,   *)
(* its owner may delete the workspace, saves fail, and the process dies.   *)
(*                                                                         *)
(* A board is told apart by the changes made to it: the deliveries that    *)
(* have reached it and the members' edits, additions or removals alike.    *)
(* What becomes of a card there is in WorkspaceServer.  The webhook is on, *)
(* a delivery has news, and the sender stops long before a record expires  *)
(* (24 hours), so records stay.                                            *)
(***************************************************************************)
EXTENDS Integers, Sequences, FiniteSets

CONSTANTS
    Delivery,     \* what the sender has to deliver, one X-Delivery-Id each
    Edit,         \* what members write
    Nobody,       \* for a request that is about neither
    MaxRequests,  \* bound: requests being handled at the same time
    MaxAttempts,  \* bound: how often a delivery is sent
    MaxFaults     \* bound: failing statements and crashes

ASSUME DeliveryAssumption == Delivery \cap Edit = {} /\ Nobody \notin Delivery \cup Edit
ASSUME DeliveryBounds == {MaxRequests, MaxAttempts, MaxFaults} \subseteq Nat

VARIABLES
    live,    \* is the row's deleted_at 0?
    row,     \* state_json
    seen,    \* webhook_seen_deliveries
    heap,    \* the stores built since the process started
    cache,   \* registry.stores: the store of the workspace, 0 for none
    req,     \* the requests being handled, one per slot
    outbox,  \* the sender's deliveries
    undone,  \* edits not made yet
    effects, \* how often a delivery was put on the board (history)
    lost,    \* deliveries kept from the row, or gone to a loser's save (history)
    taken,   \* what a replace by an older copy took out of memory (history)
    faults   \* what is left of the bound

Content == SUBSET (Delivery \cup Edit)
Slot == 1 .. MaxRequests
Pc == {"free", "lookup", "load", "construct", "publish", "got", "replace", "add", "log", "forget"}
Request ==
    [pc : Pc, of : Delivery \cup Edit \cup {Nobody}, view : Content, copy : Content, store : Nat]
Free == [pc |-> "free", of |-> Nobody, view |-> {}, copy |-> {}, store |-> 0]

vars == <<live, row, seen, heap, cache, req, outbox, undone, effects, lost, taken, faults>>

NextSlot(i) == req[i].pc = "free" /\ \A j \in Slot : req[j].pc = "free" => i <= j
Arrive(i, pc, x, view) ==
    NextSlot(i) /\ req' = [req EXCEPT ![i] = [Free EXCEPT !.pc = pc, !.of = x, !.view = view]]
Goto(i, pc) == req' = [req EXCEPT ![i].pc = pc]
Leave(i) == req' = [req EXCEPT ![i] = Free]

(* A statement that may fail.                                              *)
Statement(ok) == IF ok THEN UNCHANGED faults ELSE faults > 0 /\ faults' = faults - 1

(* The sender has its answer, or it is lost on the way.                    *)
Answered(x) ==
    \/ x \in Delivery /\ outbox' = [outbox EXCEPT ![x].delivered = TRUE]
    \/ UNCHANGED outbox

---------------------------------------------------------------------------
(* Requests that find the workspace's row.                                 *)

(* handleWebhookIngest up to the row the token names.  The sender gives up *)
(* waiting and sends again whenever it likes.                              *)
Ingest(i, d) ==
    /\ live
    /\ ~outbox[d].delivered /\ outbox[d].tries < MaxAttempts
    /\ outbox' = [outbox EXCEPT ![d].tries = @ + 1]
    /\ Arrive(i, "lookup", d, {})
    /\ UNCHANGED <<live, row, seen, heap, cache, undone, effects, lost, taken, faults>>

Board == IF cache # 0 THEN heap[cache] ELSE row

(* resolveActiveWorkspace up to the membership; view: the board as the     *)
(* member's browser has it.                                                *)
MemberRequest(i, e) ==
    /\ live
    /\ e \in undone
    /\ undone' = undone \ {e}
    /\ Arrive(i, "lookup", e, Board)
    /\ UNCHANGED <<live, row, seen, heap, cache, outbox, effects, lost, taken, faults>>

---------------------------------------------------------------------------
(* workspaceRegistry.For.                                                  *)

Lookup(i) ==
    /\ req[i].pc = "lookup"
    /\ IF cache # 0 THEN req' = [req EXCEPT ![i].pc = "got", ![i].store = cache]
                    ELSE Goto(i, "load")
    /\ UNCHANGED <<live, row, seen, heap, cache, outbox, undone, effects, lost, taken, faults>>

(* FindWorkspaceByID.                                                      *)
ReadRow(i) ==
    /\ req[i].pc = "load"
    /\ IF live THEN req' = [req EXCEPT ![i].pc = "construct", ![i].copy = row]
               ELSE Leave(i)
    /\ UNCHANGED <<live, row, seen, heap, cache, outbox, undone, effects, lost, taken, faults>>

(* newWorkspaceStoreFromState saves what was read.  UpdateWorkspaceState   *)
(* does not write to a deleted row, and says so.                           *)
Construct(i, ok) ==
    /\ req[i].pc = "construct"
    /\ Statement(ok)
    /\ IF ok /\ live
       THEN /\ row' = req[i].copy
            /\ lost' = lost \cup (Delivery \cap (row \ req[i].copy))
            /\ heap' = Append(heap, req[i].copy)
            /\ req' = [req EXCEPT ![i].pc = "publish", ![i].store = Len(heap) + 1]
       ELSE Leave(i) /\ UNCHANGED <<row, lost, heap>>
    /\ UNCHANGED <<live, seen, cache, outbox, undone, effects, taken>>

(* Mutant of Winner: the last one takes the slot.                           *)
WinnerIsLast(i) == req[i].store

(* Another goroutine may have completed the load first.                    *)
Winner(i) == IF cache # 0 THEN cache ELSE req[i].store

Publish(i) ==
    /\ req[i].pc = "publish"
    /\ cache' = Winner(i)
    /\ req' = [req EXCEPT ![i].pc = "got", ![i].store = Winner(i)]
    /\ UNCHANGED <<live, row, seen, heap, outbox, undone, effects, lost, taken, faults>>

---------------------------------------------------------------------------
(* With the store at hand.                                                 *)

(* Mutant of Known: a delivery is known by its card.                        *)
KnownByCard(d) == d \in Board

Known(d) == d \in seen

(* MarkWebhookDeliverySeen.                                                *)
Mark(i, ok) ==
    LET d == req[i].of
    IN  /\ req[i].pc = "got" /\ d \in Delivery
        /\ Statement(ok)
        /\ IF ok /\ ~Known(d)
           THEN seen' = seen \cup {d} /\ Goto(i, "add") /\ UNCHANGED outbox
           ELSE /\ Leave(i)
                /\ IF ok THEN Answered(d) ELSE UNCHANGED outbox
                /\ UNCHANGED seen
        /\ UNCHANGED <<live, row, heap, cache, undone, effects, lost, taken>>

(* addTask or addBossReportOnly: memory first, then the row; the webhook   *)
(* goes on only when both are written.                                     *)
Add(i, ok) ==
    LET d == req[i].of
        held == heap[req[i].store] \cup {d}
    IN  /\ req[i].pc = "add"
        /\ Statement(ok)
        /\ heap' = [heap EXCEPT ![req[i].store] = held]
        /\ effects' = [effects EXCEPT ![d] = @ + 1]
        /\ IF ok /\ live THEN row' = held /\ Goto(i, "log") /\ UNCHANGED lost
                         ELSE lost' = lost \cup {d} /\ Leave(i) /\ UNCHANGED row
        /\ UNCHANGED <<live, seen, cache, outbox, undone, taken>>

(* The session log entry, whose error is ignored, and the answer.          *)
Log(i, ok) ==
    /\ req[i].pc = "log"
    /\ Statement(ok)
    /\ row' = IF ok /\ live THEN heap[req[i].store] ELSE row
    /\ Answered(req[i].of)
    /\ Leave(i)
    /\ UNCHANGED <<live, seen, heap, cache, undone, effects, lost, taken>>

SaveMemory(i, held, ok) ==
    /\ req[i].pc \in {"got", "replace"} /\ req[i].of \in Edit
    /\ Statement(ok)
    /\ heap' = [heap EXCEPT ![req[i].store] = held]
    /\ row' = IF ok /\ live THEN held ELSE row
    /\ Leave(i)
    /\ UNCHANGED <<live, seen, cache, outbox, undone, effects, lost>>

(* A method of the store that changes the state under its lock.            *)
Write(i, ok) ==
    /\ req[i].pc = "got"
    /\ SaveMemory(i, heap[req[i].store] \cup {req[i].of}, ok)
    /\ UNCHANGED taken

(* A handler that replaces the whole state under a second lock: the save   *)
(* of a browser, the reset of a task, the renaming of a workspace.  It     *)
(* starts from a snapshot, and with ?reset=true from the browser's copy.   *)
Snapshot(i) ==
    /\ req[i].pc = "got" /\ req[i].of \in Edit
    /\ \E copy \in {heap[req[i].store], req[i].view} :
        req' = [req EXCEPT ![i].pc = "replace", ![i].copy = copy]
    /\ UNCHANGED <<live, row, seen, heap, cache, outbox, undone, effects, lost, taken, faults>>

(* What came to the store after the copy.                                  *)
Overwritten(i) == heap[req[i].store] \ req[i].copy

Replace(i, ok) ==
    /\ req[i].pc = "replace"
    /\ SaveMemory(i, req[i].copy \cup {req[i].of}, ok)
    /\ taken' = taken \cup Overwritten(i)

---------------------------------------------------------------------------
(* handleWorkspaceDelete: SoftDeleteWorkspace, then Forget.                *)
Delete(i) ==
    /\ live
    /\ live' = FALSE
    /\ Arrive(i, "forget", Nobody, {})
    /\ UNCHANGED <<row, seen, heap, cache, outbox, undone, effects, lost, taken, faults>>

Forget(i) ==
    /\ req[i].pc = "forget"
    /\ cache' = 0
    /\ Leave(i)
    /\ UNCHANGED <<live, row, seen, heap, outbox, undone, effects, lost, taken, faults>>

(* The process dies; it starts with an empty registry.                     *)
Crash ==
    /\ Statement(FALSE)
    /\ heap' = <<>>
    /\ cache' = 0
    /\ req' = [i \in Slot |-> Free]
    /\ lost' = lost \cup {d \in Delivery : \E i \in Slot : req[i].pc = "add" /\ req[i].of = d}
    /\ UNCHANGED <<live, row, seen, outbox, undone, effects, taken>>

---------------------------------------------------------------------------
Init ==
    /\ live = TRUE
    /\ row = {} /\ seen = {}
    /\ heap = <<>> /\ cache = 0
    /\ req = [i \in Slot |-> Free]
    /\ outbox = [d \in Delivery |-> [tries |-> 0, delivered |-> FALSE]]
    /\ undone = Edit
    /\ effects = [d \in Delivery |-> 0]
    /\ lost = {} /\ taken = {}
    /\ faults = MaxFaults

Handle(i) ==
    \/ Lookup(i) \/ ReadRow(i) \/ Publish(i) \/ Snapshot(i) \/ Forget(i)
    \/ \E ok \in BOOLEAN :
        \/ Construct(i, ok) \/ Mark(i, ok) \/ Add(i, ok) \/ Log(i, ok)
        \/ Write(i, ok) \/ Replace(i, ok)

Next ==
    \/ \E i \in Slot :
        \/ \E d \in Delivery : Ingest(i, d)
        \/ \E e \in Edit : MemberRequest(i, e)
        \/ Delete(i)
        \/ Handle(i)
    \/ Crash

Spec == Init /\ [][Next]_vars

---------------------------------------------------------------------------
(* Properties.                                                             *)

TypeOK ==
    /\ live \in BOOLEAN
    /\ row \in Content
    /\ seen \in SUBSET Delivery
    /\ heap \in Seq(Content)
    /\ cache \in 0 .. Len(heap)
    /\ req \in [Slot -> Request]
    /\ \A i \in Slot :
        /\ req[i].pc \in {"publish", "got", "replace", "add", "log"} => req[i].store \in 1 .. Len(heap)
        /\ req[i].pc \in {"add", "log"} => req[i].of \in Delivery
    /\ outbox \in [Delivery -> [tries : 0 .. MaxAttempts, delivered : BOOLEAN]]
    /\ undone \in SUBSET Edit
    /\ effects \in [Delivery -> Nat]
    /\ lost \in SUBSET Delivery
    /\ taken \in Content
    /\ faults \in 0 .. MaxFaults

(* "One slow response could spawn the same 5-step workflow twice": however *)
(* attempts overlap, are repeated after lost answers, or straddle a crash, *)
(* a delivery is put on the board at most once.                            *)
AtMostOnce == \A d \in Delivery : effects[d] <= 1

(* A load that has lost the race to publish its store.                     *)
Loser(i) == req[i].pc = "construct" /\ cache # 0

(* "There's no harm in dropping the loser store": there is in building it. *)
(* Nothing leaves the row but by an older copy of the board: a load that   *)
(* another one overtook saves its own, or a handler that took its snapshot *)
(* before the change replaces the state by it, at once or, when that save  *)
(* fails, with the next save of the memory it left.                        *)
RowForgetsOnlyToOlderCopies ==
    [][\/ \A x \in row \ row' :
            x \in taken \/ \E i \in Slot : req[i].pc = "replace" /\ x \in Overwritten(i)
       \/ \E i \in Slot : Loser(i) /\ req'[i].pc = "publish"]_vars

(* A delivery the sender has been told is done is on the board, in memory  *)
(* or in the row requests are served from, or on its way there in an       *)
(* attempt that a retry has overtaken.  The ways round are in lost:        *)
(* processing that ended between the record and the row, by a crash or a   *)
(* failed save, so that the retry is a duplicate, and a loser's save; and  *)
(* in taken: a state replaced by a copy older than the delivery.           *)
OnItsWay(d) == \E i \in Slot : req[i].pc = "add" /\ req[i].of = d
DeliveredIsOnTheBoard ==
    live => \A d \in Delivery :
        outbox[d].delivered => d \in Board \/ d \in lost \cup taken \/ OnItsWay(d)
=============================================================================
