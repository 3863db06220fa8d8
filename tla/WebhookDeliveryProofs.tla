----------------------- MODULE WebhookDeliveryProofs -----------------------
(***************************************************************************)
(* A delivery is put on the board at most once, the row forgets only to an *)
(* older copy of the board, and what the sender was told is done is on the *)
(* board: for any deliveries, edits, numbers of requests, attempts and     *)
(* faults.                                                                 *)
(***************************************************************************)
EXTENDS WebhookDelivery, TLAPS

(* The record comes first, and one attempt alone passes it.                *)
RecordedFirst ==
    /\ \A d \in Delivery :
        /\ effects[d] > 0 \/ OnItsWay(d) => d \in seen
        /\ effects[d] = 0 \/ (effects[d] = 1 /\ ~OnItsWay(d))
        /\ outbox[d].delivered => d \in seen
    /\ \A i, j \in Slot : req[i].pc = "add" /\ req[j].pc = "add" /\ req[i].of = req[j].of => i = j
    /\ \A i \in Slot : req[i].pc = "log" => req[i].of \in seen

(* While the workspace is there, whoever has a store has the one in the    *)
(* registry, which holds all the row holds but for what was taken out of   *)
(* it; and what a load has read is the row until some load is published,   *)
(* and then part of that store, with the same exception.                   *)
HasStore(r) == r.pc \in {"got", "replace", "add", "log"}
OneStore ==
    live =>
        /\ \A i \in Slot : /\ req[i].pc # "forget"
                           /\ HasStore(req[i]) => cache # 0 /\ req[i].store = cache
        /\ cache # 0 => /\ row \subseteq heap[cache] \cup taken
                        /\ \A i \in Slot :
                            req[i].pc = "construct" => req[i].copy \subseteq heap[cache] \cup taken
        /\ cache = 0 => \A i \in Slot : /\ req[i].pc = "construct" => req[i].copy = row
                                        /\ req[i].pc = "publish" => heap[req[i].store] = row

(* A recorded delivery is stored, lost, taken out again, or in the hands   *)
(* of an attempt.                                                          *)
SeenIsStored ==
    live => \A d \in seen : d \in row \/ d \in lost \cup taken \/ OnItsWay(d)

IInv == TypeOK /\ RecordedFirst /\ OneStore /\ SeenIsStored

(* An idle slot holds a request. *)
LEMMA FreeIsRequest == Free \in Request /\ Free.pc = "free"
BY DEF Free, Request, Pc, Content

(* The invariant holds at first. *)
LEMMA InitHolds == Init => IInv
<1> SUFFICES ASSUME Init PROVE IInv
  OBVIOUS
<1> USE DeliveryBounds, FreeIsRequest DEF Init
<1>1. TypeOK
  BY DEF TypeOK, Content
<1>2. RecordedFirst /\ OneStore /\ SeenIsStored
  BY DEF RecordedFirst, OneStore, SeenIsStored, OnItsWay, HasStore
<1> QED BY <1>1, <1>2 DEF IInv

(* A step of one slot that takes it from another program point than the    *)
(* one between record and board, to yet another, and touches neither the   *)
(* record nor a store nor the row.                                         *)
Elsewhere(i) ==
    /\ \A j \in Slot \ {i} : req'[j] = req[j]
    /\ req[i].pc # "add" /\ req'[i].pc \notin {"add", "construct", "publish", "got", "replace", "log"}
    /\ live' => req'[i].pc # "forget"
    /\ live' => live
    /\ UNCHANGED <<row, seen, heap, effects, taken>>
    /\ lost \subseteq lost'
    /\ live' => UNCHANGED cache
    /\ \A d \in Delivery : outbox'[d].delivered => outbox[d].delivered \/ d \in seen

(* Such a step keeps the invariant. *)
LEMMA ElsewhereKeeps ==
    ASSUME IInv, NEW i \in Slot, Elsewhere(i), TypeOK' PROVE IInv'
<1> USE DEF IInv, Elsewhere
<1>1. \A d \in Delivery : OnItsWay(d)' = OnItsWay(d)
  BY DEF OnItsWay
<1>2. RecordedFirst'
  BY <1>1 DEF RecordedFirst, TypeOK
<1>3. OneStore'
  BY DEF OneStore, HasStore
<1>4. SeenIsStored'
  BY <1>1 DEF SeenIsStored, TypeOK
<1> QED BY <1>2, <1>3, <1>4

(* The answer a sender gets. *)
LEMMA AnswerKeeps ==
    ASSUME TypeOK, NEW x \in Delivery \cup Edit, Answered(x)
    PROVE  /\ outbox' \in [Delivery -> [tries : 0 .. MaxAttempts, delivered : BOOLEAN]]
           /\ \A d \in Delivery : outbox'[d].delivered => outbox[d].delivered \/ d = x
BY DEF TypeOK, Answered

(* One slot changes. *)
Others(i) == \A j \in Slot \ {i} : req'[j] = req[j]

(* The slot an arriving request takes was idle. *)
LEMMA ArriveType ==
    ASSUME TypeOK, NEW i \in Slot, NEW pc \in {"lookup", "forget"},
           NEW x \in Delivery \cup Edit \cup {Nobody}, NEW view \in Content, Arrive(i, pc, x, view)
    PROVE  req' \in [Slot -> Request] /\ Others(i) /\ req'[i].pc = pc /\ req[i].pc = "free"
<1>1. req \in [Slot -> Request]
  BY DEF TypeOK
<1>2. /\ [Free EXCEPT !.pc = pc, !.of = x, !.view = view] \in Request
      /\ [Free EXCEPT !.pc = pc, !.of = x, !.view = view].pc = pc
  BY DEF Free, Request, Pc, Content
<1>3. /\ req[i].pc = "free"
      /\ req' = [req EXCEPT ![i] = [Free EXCEPT !.pc = pc, !.of = x, !.view = view]]
  BY DEF Arrive, NextSlot
<1> QED BY <1>1, <1>2, <1>3 DEF Others

(* A request goes on, with a copy or a store it has got. *)
LEMMA GotoType ==
    ASSUME TypeOK, NEW i \in Slot, NEW pc \in Pc, NEW copy \in Content, NEW n \in Nat,
           \/ Goto(i, pc)
           \/ req' = [req EXCEPT ![i].pc = pc, ![i].copy = copy]
           \/ req' = [req EXCEPT ![i].pc = pc, ![i].store = n]
    PROVE  /\ req' \in [Slot -> Request] /\ Others(i)
           /\ req'[i].pc = pc /\ req'[i].of = req[i].of
           /\ Goto(i, pc) => req'[i].store = req[i].store
           /\ req' = [req EXCEPT ![i].pc = pc, ![i].copy = copy] =>
                req'[i].copy = copy /\ req'[i].store = req[i].store
           /\ req' = [req EXCEPT ![i].pc = pc, ![i].store = n] => req'[i].store = n
<1>1. req \in [Slot -> Request]
  BY DEF TypeOK
<1> QED BY <1>1 DEF Request, Goto, Others

(* A request is over. *)
LEMMA LeaveType ==
    ASSUME TypeOK, NEW i \in Slot, Leave(i)
    PROVE  req' \in [Slot -> Request] /\ Others(i) /\ req'[i].pc = "free"
<1>1. req \in [Slot -> Request]
  BY DEF TypeOK
<1> QED BY <1>1, FreeIsRequest DEF Leave, Others

(* What a program point promises about its slot. *)
SlotFits(r, n) ==
    /\ r.pc \in {"publish", "got", "replace", "add", "log"} => r.store \in 1 .. n
    /\ r.pc \in {"add", "log"} => r.of \in Delivery

(* Types, when one slot changes and the stores are those there were. *)
LEMMA SlotType ==
    ASSUME TypeOK, NEW i \in Slot, req' \in [Slot -> Request], Others(i),
           SlotFits(req'[i], Len(heap')), heap' \in Seq(Content), Len(heap') >= Len(heap),
           cache' \in 0 .. Len(heap'),
           live' \in BOOLEAN, row' \in Content, seen' \in SUBSET Delivery,
           outbox' \in [Delivery -> [tries : 0 .. MaxAttempts, delivered : BOOLEAN]],
           undone' \in SUBSET Edit, effects' \in [Delivery -> Nat], lost' \in SUBSET Delivery,
           taken' \in Content, faults' \in 0 .. MaxFaults
    PROVE  TypeOK'
<1>1. ASSUME NEW j \in Slot PROVE SlotFits(req'[j], Len(heap'))
  <2>1. Len(heap) \in Nat /\ Len(heap') \in Nat
    BY DEF TypeOK
  <2>2. CASE j = i
    BY <2>2
  <2>3. CASE j # i
    <3>1. SlotFits(req'[j], Len(heap))
      BY <2>3 DEF TypeOK, SlotFits, Others
    <3> QED BY <2>1, <3>1 DEF SlotFits
  <2> QED BY <2>2, <2>3
<1> QED BY <1>1 DEF TypeOK, SlotFits

(* What a statement does to the bound. *)
LEMMA StatementType ==
    ASSUME TypeOK, NEW ok \in BOOLEAN, Statement(ok) PROVE faults' \in 0 .. MaxFaults
BY DeliveryBounds DEF TypeOK, Statement

(* Types, when what one slot does not change keeps its type. *)
LEMMA StepType ==
    ASSUME TypeOK, NEW i \in Slot, req' \in [Slot -> Request], Others(i),
           SlotFits(req'[i], Len(heap')),
           heap' = heap \/ (heap' \in Seq(Content) /\ Len(heap') >= Len(heap)),
           cache' = cache \/ cache' \in 0 .. Len(heap),
           live' = live \/ live' \in BOOLEAN,
           row' = row \/ row' \in Content,
           seen' = seen \/ seen' \in SUBSET Delivery,
           outbox' = outbox \/ outbox' \in [Delivery -> [tries : 0 .. MaxAttempts, delivered : BOOLEAN]],
           undone' = undone \/ undone' \in SUBSET Edit,
           effects' = effects \/ effects' \in [Delivery -> Nat],
           lost' = lost \/ lost' \in SUBSET Delivery,
           taken' = taken \/ taken' \in Content,
           faults' = faults \/ faults' \in 0 .. MaxFaults
    PROVE  TypeOK'
<1>1. /\ heap \in Seq(Content) /\ Len(heap) \in Nat /\ cache \in 0 .. Len(heap)
      /\ live \in BOOLEAN /\ row \in Content /\ seen \in SUBSET Delivery
      /\ outbox \in [Delivery -> [tries : 0 .. MaxAttempts, delivered : BOOLEAN]]
      /\ undone \in SUBSET Edit /\ effects \in [Delivery -> Nat] /\ lost \in SUBSET Delivery
      /\ taken \in Content /\ faults \in 0 .. MaxFaults
  BY DEF TypeOK
<1>2. heap' \in Seq(Content) /\ Len(heap') >= Len(heap)
  BY ONLY <1>1, heap' = heap \/ (heap' \in Seq(Content) /\ Len(heap') >= Len(heap))
<1>3. Len(heap') \in Nat
  BY <1>2
<1>4. cache' \in 0 .. Len(heap')
  BY ONLY <1>1, <1>2, <1>3, cache' = cache \/ cache' \in 0 .. Len(heap)
<1>5. /\ live' \in BOOLEAN /\ row' \in Content /\ seen' \in SUBSET Delivery
      /\ undone' \in SUBSET Edit /\ effects' \in [Delivery -> Nat] /\ lost' \in SUBSET Delivery
      /\ taken' \in Content /\ faults' \in 0 .. MaxFaults
  BY <1>1
<1>6. outbox' \in [Delivery -> [tries : 0 .. MaxAttempts, delivered : BOOLEAN]]
  BY <1>1
<1> QED BY <1>2, <1>4, <1>5, <1>6, SlotType

(* Types: arrivals and deletions. *)
LEMMA ArrivalType ==
    ASSUME TypeOK, NEW i \in Slot,
           \/ \E d \in Delivery : Ingest(i, d)
           \/ \E e \in Edit : MemberRequest(i, e)
           \/ Delete(i)
    PROVE  TypeOK' /\ Others(i) /\ req[i].pc = "free" /\ req'[i].pc \in {"lookup", "forget"}
<1>1. /\ req' \in [Slot -> Request] /\ Others(i) /\ req[i].pc = "free"
      /\ req'[i].pc \in {"lookup", "forget"}
  <2>1. Board \in Content /\ {} \in Content
    BY DEF TypeOK, Board, Content
  <2> QED BY <2>1, ArriveType DEF Ingest, MemberRequest, Delete
<1>2. SlotFits(req'[i], Len(heap'))
  BY <1>1 DEF SlotFits
<1>3. UNCHANGED <<row, seen, heap, cache, effects, lost, taken, faults>> /\ live' \in BOOLEAN
  BY DEF Ingest, MemberRequest, Delete, TypeOK
<1>4. outbox' \in [Delivery -> [tries : 0 .. MaxAttempts, delivered : BOOLEAN]]
  <2>1. outbox \in [Delivery -> [tries : 0 .. MaxAttempts, delivered : BOOLEAN]]
    BY DEF TypeOK
  <2>2. ASSUME NEW d \in Delivery, Ingest(i, d)
        PROVE  outbox' \in [Delivery -> [tries : 0 .. MaxAttempts, delivered : BOOLEAN]]
    BY <2>1, <2>2, DeliveryBounds DEF Ingest
  <2> QED BY <2>1, <2>2 DEF MemberRequest, Delete
<1>5. undone' \in SUBSET Edit
  BY DEF Ingest, MemberRequest, Delete, TypeOK
<1>6. /\ heap' = heap /\ cache' = cache /\ row' = row /\ seen' = seen /\ effects' = effects
      /\ lost' = lost /\ taken' = taken /\ faults' = faults
  BY <1>3
<1>7. TypeOK'
  BY <1>1, <1>2, <1>3, <1>4, <1>5, <1>6, StepType
<1> QED BY <1>1, <1>7

(* A lookup finds the store, or goes to load it. *)
LEMMA LookupType ==
    ASSUME TypeOK, NEW i \in Slot, Lookup(i)
    PROVE  TypeOK' /\ Others(i) /\ req[i].pc = "lookup"
           /\ \/ req'[i].pc = "load"
              \/ cache # 0 /\ req'[i].pc = "got" /\ req'[i].store = cache
<1>1. cache \in Nat /\ cache \in 0 .. Len(heap) /\ Len(heap) \in Nat
  BY DEF TypeOK
<1>2. /\ req' \in [Slot -> Request] /\ Others(i)
      /\ \/ req'[i].pc = "load"
         \/ cache # 0 /\ req'[i].pc = "got" /\ req'[i].store = cache
  <2>1. "load" \in Pc /\ "got" \in Pc /\ {} \in Content
    BY DEF Pc, Content
  <2>2. CASE cache # 0
    BY <1>1, <2>1, <2>2, GotoType DEF Lookup
  <2>3. CASE cache = 0
    BY <1>1, <2>1, <2>3, GotoType DEF Lookup
  <2> QED BY <2>2, <2>3
<1>3. UNCHANGED <<live, row, seen, heap, cache, outbox, undone, effects, lost, taken, faults>> /\ req[i].pc = "lookup"
  BY DEF Lookup
<1>4. SlotFits(req'[i], Len(heap'))
  BY <1>1, <1>2, <1>3 DEF SlotFits
<1>5. TypeOK'
  BY <1>2, <1>3, <1>4, StepType
<1> QED BY <1>2, <1>3, <1>5

(* A load reads the row, or finds the workspace deleted. *)
LEMMA ReadRowType ==
    ASSUME TypeOK, NEW i \in Slot, ReadRow(i)
    PROVE  TypeOK' /\ Others(i) /\ req[i].pc = "load"
           /\ \/ ~live /\ req'[i].pc = "free"
              \/ live /\ req'[i].pc = "construct" /\ req'[i].copy = row
<1>1. row \in Content /\ "construct" \in Pc /\ 0 \in Nat
  BY DEF TypeOK, Pc
<1>2. /\ req' \in [Slot -> Request] /\ Others(i)
      /\ \/ ~live /\ req'[i].pc = "free"
         \/ live /\ req'[i].pc = "construct" /\ req'[i].copy = row
  <2>1. CASE live
    BY <1>1, <2>1, GotoType DEF ReadRow
  <2>2. CASE ~live
    BY <2>2, LeaveType DEF ReadRow
  <2> QED BY <2>1, <2>2
<1>3. UNCHANGED <<live, row, seen, heap, cache, outbox, undone, effects, lost, taken, faults>> /\ req[i].pc = "load"
  BY DEF ReadRow
<1>4. SlotFits(req'[i], Len(heap'))
  BY <1>2 DEF SlotFits
<1>5. TypeOK'
  BY <1>2, <1>3, <1>4, StepType
<1> QED BY <1>2, <1>3, <1>5

(* A constructor's save: what was read is in the row and in a new store. *)
Constructed(i) ==
    /\ live /\ req'[i].pc = "publish" /\ req'[i].store = Len(heap) + 1
    /\ row' = req[i].copy
    /\ lost' = lost \cup (Delivery \cap (row \ req[i].copy))
    /\ heap' = Append(heap, req[i].copy)

(* A constructor has saved, or failed and changed nothing. *)
LEMMA ConstructType ==
    ASSUME TypeOK, NEW i \in Slot, NEW ok \in BOOLEAN, Construct(i, ok)
    PROVE  TypeOK' /\ Others(i) /\ req[i].pc = "construct"
           /\ UNCHANGED <<live, seen, cache, outbox, undone, effects, taken>>
           /\ \/ Constructed(i)
              \/ req'[i].pc = "free" /\ UNCHANGED <<row, lost, heap>>
<1>1. /\ heap \in Seq(Content) /\ Len(heap) \in Nat /\ row \in Content /\ lost \in SUBSET Delivery
      /\ req[i] \in Request
  BY DEF TypeOK
<1>2. req[i].copy \in Content
  BY <1>1 DEF Request
<1>3. req[i].pc = "construct" /\ UNCHANGED <<live, seen, cache, outbox, undone, effects, taken>> /\ faults' \in 0 .. MaxFaults
  BY StatementType DEF Construct
<1>4. CASE ok /\ live
  <2>1. req' = [req EXCEPT ![i].pc = "publish", ![i].store = Len(heap) + 1]
    BY <1>4 DEF Construct
  <2>2. /\ row' = req[i].copy /\ heap' = Append(heap, req[i].copy)
        /\ lost' = lost \cup (Delivery \cap (row \ req[i].copy))
    BY <1>4 DEF Construct
  <2>3. "publish" \in Pc /\ Len(heap) + 1 \in Nat /\ {} \in Content
    BY <1>1 DEF Pc, Content
  <2>4. /\ req' \in [Slot -> Request] /\ Others(i)
        /\ req'[i].pc = "publish" /\ req'[i].store = Len(heap) + 1
    BY <2>1, <2>3, GotoType
  <2>5. heap' \in Seq(Content) /\ Len(heap') = Len(heap) + 1
    BY <1>1, <1>2, <2>2
  <2>6. SlotFits(req'[i], Len(heap'))
    BY <1>1, <2>4, <2>5 DEF SlotFits
  <2>7. lost' \in SUBSET Delivery
    BY <1>1, <2>2
  <2>8. Len(heap') >= Len(heap)
    BY <1>1, <2>5
  <2>9. TypeOK'
    BY <1>2, <1>3, <2>2, <2>4, <2>5, <2>6, <2>7, <2>8, StepType
  <2> QED BY <1>3, <1>4, <2>2, <2>4, <2>9 DEF Constructed
<1>5. CASE ~(ok /\ live)
  <2>1. Leave(i) /\ UNCHANGED <<row, lost, heap>>
    BY <1>5 DEF Construct
  <2>2. req' \in [Slot -> Request] /\ Others(i) /\ req'[i].pc = "free"
    BY <2>1, LeaveType
  <2>3. SlotFits(req'[i], Len(heap'))
    BY <2>2 DEF SlotFits
  <2>4. TypeOK'
    BY <1>3, <2>1, <2>2, <2>3, StepType
  <2> QED BY <1>3, <2>1, <2>2, <2>4
<1> QED BY <1>4, <1>5

(* A load is published, or gives way to the one that was. *)
LEMMA PublishType ==
    ASSUME TypeOK, NEW i \in Slot, Publish(i)
    PROVE  TypeOK' /\ Others(i) /\ req[i].pc = "publish"
           /\ req'[i].pc = "got" /\ req'[i].store = cache'
           /\ cache' = Winner(i) /\ req[i].store \in 1 .. Len(heap)
           /\ UNCHANGED <<live, row, seen, heap, outbox, undone, effects, lost, taken, faults>>
<1>1. /\ req[i].pc = "publish" /\ cache' = Winner(i)
      /\ req' = [req EXCEPT ![i].pc = "got", ![i].store = Winner(i)]
      /\ UNCHANGED <<live, row, seen, heap, outbox, undone, effects, lost, taken, faults>>
  BY DEF Publish
<1>2. Len(heap) \in Nat /\ cache \in 0 .. Len(heap) /\ req[i].store \in 1 .. Len(heap)
  BY <1>1 DEF TypeOK
<1>3. Winner(i) \in 1 .. Len(heap) /\ Winner(i) \in Nat
  BY <1>2 DEF Winner
<1>4. "got" \in Pc /\ {} \in Content
  BY DEF Pc, Content
<1>5. /\ req' \in [Slot -> Request] /\ Others(i)
      /\ req'[i].pc = "got" /\ req'[i].store = Winner(i)
  BY <1>1, <1>3, <1>4, GotoType
<1>6. SlotFits(req'[i], Len(heap'))
  BY <1>1, <1>3, <1>5 DEF SlotFits
<1>7. cache' \in 0 .. Len(heap)
  BY <1>1, <1>2, <1>3
<1>8. TypeOK'
  BY <1>1, <1>5, <1>6, <1>7, StepType
<1> QED BY <1>1, <1>2, <1>5, <1>8

(* The cache forgets the store. *)
LEMMA ForgetType ==
    ASSUME TypeOK, NEW i \in Slot, Forget(i)
    PROVE  TypeOK' /\ Others(i) /\ req[i].pc = "forget" /\ req'[i].pc = "free"
           /\ UNCHANGED <<live, row, seen, heap, outbox, undone, effects, lost, taken, faults>>
<1>1. /\ req[i].pc = "forget" /\ cache' = 0
      /\ UNCHANGED <<live, row, seen, heap, outbox, undone, effects, lost, taken, faults>>
      /\ req' \in [Slot -> Request] /\ Others(i) /\ req'[i].pc = "free"
  BY LeaveType DEF Forget
<1>2. SlotFits(req'[i], Len(heap'))
  BY <1>1 DEF SlotFits
<1>3. 0 \in 0 .. Len(heap)
  BY DEF TypeOK
<1>4. TypeOK'
  BY <1>1, <1>2, <1>3, StepType
<1> QED BY <1>1, <1>4

(* A delivery is recorded by the attempt that goes on with it, or the      *)
(* attempt is over, and whoever is told so was told of one on record.      *)
LEMMA MarkType ==
    ASSUME TypeOK, NEW i \in Slot, NEW ok \in BOOLEAN, Mark(i, ok)
    PROVE  TypeOK' /\ Others(i) /\ req[i].pc = "got" /\ req[i].of \in Delivery
           /\ UNCHANGED <<live, row, heap, cache, undone, effects, lost, taken>>
           /\ \/ /\ req[i].of \notin seen /\ seen' = seen \cup {req[i].of}
                 /\ req'[i].pc = "add" /\ req'[i].of = req[i].of /\ req'[i].store = req[i].store
                 /\ UNCHANGED outbox
              \/ /\ req'[i].pc = "free" /\ UNCHANGED seen
                 /\ \A d \in Delivery : outbox'[d].delivered => outbox[d].delivered \/ d \in seen
<1>1. /\ req[i].pc = "got" /\ req[i].of \in Delivery /\ faults' \in 0 .. MaxFaults
      /\ UNCHANGED <<live, row, heap, cache, undone, effects, lost, taken>>
  BY StatementType DEF Mark
<1>2. CASE ok /\ ~Known(req[i].of)
  <2>1. /\ seen' = seen \cup {req[i].of} /\ Goto(i, "add") /\ UNCHANGED outbox
        /\ req[i].of \notin seen
    BY <1>2 DEF Mark, Known
  <2>2. "add" \in Pc /\ {} \in Content /\ 0 \in Nat /\ req[i].store \in 1 .. Len(heap) /\ seen \in SUBSET Delivery
    BY <1>1 DEF Pc, Content, TypeOK
  <2>3. /\ req' \in [Slot -> Request] /\ Others(i)
        /\ req'[i].pc = "add" /\ req'[i].of = req[i].of /\ req'[i].store = req[i].store
    BY <2>1, <2>2, GotoType
  <2>4. SlotFits(req'[i], Len(heap'))
    BY <1>1, <2>2, <2>3 DEF SlotFits
  <2>5. seen' \in SUBSET Delivery
    BY <1>1, <2>1, <2>2
  <2>6. TypeOK'
    BY <1>1, <2>1, <2>3, <2>4, <2>5, StepType
  <2> QED BY <1>1, <2>1, <2>3, <2>6
<1>3. CASE ~(ok /\ ~Known(req[i].of))
  <2>1. /\ Leave(i) /\ UNCHANGED seen
        /\ IF ok THEN Answered(req[i].of) ELSE UNCHANGED outbox
    BY <1>3 DEF Mark
  <2>2. req' \in [Slot -> Request] /\ Others(i) /\ req'[i].pc = "free"
    BY <2>1, LeaveType
  <2>3. /\ outbox' = outbox \/ outbox' \in [Delivery -> [tries : 0 .. MaxAttempts, delivered : BOOLEAN]]
        /\ \A d \in Delivery : outbox'[d].delivered => outbox[d].delivered \/ d \in seen
    <3>1. CASE ok
      BY <1>1, <1>3, <2>1, <3>1, AnswerKeeps DEF Known
    <3>2. CASE ~ok
      BY <2>1, <3>2
    <3> QED BY <3>1, <3>2
  <2>4. SlotFits(req'[i], Len(heap'))
    BY <2>2 DEF SlotFits
  <2>5. TypeOK'
    BY <1>1, <2>1, <2>2, <2>3, <2>4, StepType
  <2> QED BY <1>1, <2>1, <2>2, <2>3, <2>5
<1> QED BY <1>2, <1>3

(* One store holds something else. *)
Puts(n, held) == heap' = [heap EXCEPT ![n] = held]

(* The stores stay stores, and the others are as they were. *)
LEMMA PutsType ==
    ASSUME TypeOK, NEW n \in 1 .. Len(heap), NEW held \in Content, Puts(n, held)
    PROVE  /\ heap' \in Seq(Content) /\ Len(heap') >= Len(heap) /\ Len(heap') = Len(heap)
           /\ heap'[n] = held
<1>1. heap \in Seq(Content) /\ Len(heap) \in Nat
  BY DEF TypeOK
<1>2. heap' \in Seq(Content) /\ Len(heap') = Len(heap) /\ heap'[n] = held
  BY <1>1 DEF Puts
<1> QED BY <1>1, <1>2

(* A store with something added holds content. *)
LEMMA WithType ==
    ASSUME TypeOK, NEW n \in 1 .. Len(heap), NEW x \in Delivery \cup Edit
    PROVE  heap[n] \cup {x} \in Content
<1>1. heap[n] \in Content
  BY DEF TypeOK
<1> QED BY <1>1 DEF Content

(* A delivery reaches the board, and the row or the lost ones. *)
LEMMA AddType ==
    ASSUME TypeOK, NEW i \in Slot, NEW ok \in BOOLEAN, Add(i, ok)
    PROVE  TypeOK' /\ Others(i) /\ req[i].pc = "add" /\ req[i].of \in Delivery
           /\ req[i].store \in 1 .. Len(heap)
           /\ Puts(req[i].store, heap[req[i].store] \cup {req[i].of})
           /\ effects' = [effects EXCEPT ![req[i].of] = @ + 1]
           /\ UNCHANGED <<live, seen, cache, outbox, undone, taken>>
           /\ \/ /\ row' = heap[req[i].store] \cup {req[i].of} /\ UNCHANGED lost
                 /\ req'[i].pc = "log" /\ req'[i].of = req[i].of /\ req'[i].store = req[i].store
              \/ /\ UNCHANGED row /\ lost' = lost \cup {req[i].of} /\ req'[i].pc = "free"
<1>1. /\ req[i].pc = "add" /\ faults' \in 0 .. MaxFaults
      /\ Puts(req[i].store, heap[req[i].store] \cup {req[i].of})
      /\ effects' = [effects EXCEPT ![req[i].of] = @ + 1]
      /\ UNCHANGED <<live, seen, cache, outbox, undone, taken>>
  BY StatementType DEF Add, Puts
<1>2. req[i].of \in Delivery /\ req[i].store \in 1 .. Len(heap) /\ lost \in SUBSET Delivery
  BY <1>1 DEF TypeOK
<1>3. effects' \in [Delivery -> Nat]
  BY <1>1, <1>2 DEF TypeOK
<1>4. /\ heap' \in Seq(Content) /\ Len(heap') >= Len(heap) /\ Len(heap') = Len(heap)
      /\ heap[req[i].store] \cup {req[i].of} \in Content
  BY <1>1, <1>2, PutsType, WithType
<1>5. CASE ok /\ live
  <2>1. row' = heap[req[i].store] \cup {req[i].of} /\ Goto(i, "log") /\ UNCHANGED lost
    BY <1>5 DEF Add
  <2>2. "log" \in Pc /\ {} \in Content /\ 0 \in Nat
    BY DEF Pc, Content
  <2>3. /\ req' \in [Slot -> Request] /\ Others(i)
        /\ req'[i].pc = "log" /\ req'[i].of = req[i].of /\ req'[i].store = req[i].store
    BY <2>1, <2>2, GotoType
  <2>4. SlotFits(req'[i], Len(heap'))
    BY <1>2, <1>4, <2>3 DEF SlotFits
  <2>5. row' \in Content
    BY <1>4, <2>1
  <2>6. TypeOK'
    BY <1>1, <1>3, <1>4, <2>1, <2>3, <2>4, <2>5, StepType
  <2> QED BY <1>1, <1>2, <2>1, <2>3, <2>6
<1>6. CASE ~(ok /\ live)
  <2>1. lost' = lost \cup {req[i].of} /\ Leave(i) /\ UNCHANGED row
    BY <1>6 DEF Add
  <2>2. req' \in [Slot -> Request] /\ Others(i) /\ req'[i].pc = "free"
    BY <2>1, LeaveType
  <2>3. SlotFits(req'[i], Len(heap'))
    BY <2>2 DEF SlotFits
  <2>4. lost' \in SUBSET Delivery
    BY <1>2, <2>1
  <2>5. TypeOK'
    BY <1>1, <1>3, <1>4, <2>1, <2>2, <2>3, <2>4, StepType
  <2> QED BY <1>1, <1>2, <2>1, <2>2, <2>5
<1> QED BY <1>5, <1>6

(* The log entry is written or not, and the sender has its answer or not. *)
LEMMA LogType ==
    ASSUME TypeOK, NEW i \in Slot, NEW ok \in BOOLEAN, Log(i, ok)
    PROVE  TypeOK' /\ Others(i) /\ req[i].pc = "log" /\ req'[i].pc = "free"
           /\ (row' = row \/ row' = heap[req[i].store])
           /\ UNCHANGED <<live, seen, heap, cache, undone, effects, lost, taken>>
           /\ \A d \in Delivery : outbox'[d].delivered => outbox[d].delivered \/ d = req[i].of
<1>1. /\ req[i].pc = "log" /\ faults' \in 0 .. MaxFaults /\ Answered(req[i].of) /\ Leave(i)
      /\ (row' = row \/ row' = heap[req[i].store])
      /\ UNCHANGED <<live, seen, heap, cache, undone, effects, lost, taken>>
  BY StatementType DEF Log
<1>2. req[i].of \in Delivery /\ req[i].store \in 1 .. Len(heap) /\ heap \in Seq(Content)
  BY <1>1 DEF TypeOK
<1>3. heap[req[i].store] \in Content
  BY <1>2
<1>4. /\ outbox' \in [Delivery -> [tries : 0 .. MaxAttempts, delivered : BOOLEAN]]
      /\ \A d \in Delivery : outbox'[d].delivered => outbox[d].delivered \/ d = req[i].of
  BY <1>1, <1>2, AnswerKeeps
<1>5. req' \in [Slot -> Request] /\ Others(i) /\ req'[i].pc = "free"
  BY <1>1, LeaveType
<1>6. SlotFits(req'[i], Len(heap'))
  BY <1>5 DEF SlotFits
<1>7. row' = row \/ row' \in Content
  BY <1>1, <1>3
<1>8. TypeOK'
  BY <1>1, <1>4, <1>5, <1>6, <1>7, StepType
<1> QED BY <1>1, <1>4, <1>5, <1>8

(* What a member saves reaches the store, and the row unless that fails. *)
LEMMA SaveMemoryType ==
    ASSUME TypeOK, NEW i \in Slot, NEW held \in Content, NEW ok \in BOOLEAN,
           SaveMemory(i, held, ok), taken' = taken \/ taken' \in Content
    PROVE  TypeOK' /\ Others(i) /\ req[i].pc \in {"got", "replace"} /\ req'[i].pc = "free"
           /\ req[i].of \in Edit /\ req[i].store \in 1 .. Len(heap) /\ Puts(req[i].store, held)
           /\ (row' = row \/ row' = held)
           /\ UNCHANGED <<live, seen, cache, outbox, undone, effects, lost>>
<1>1. /\ req[i].pc \in {"got", "replace"} /\ req[i].of \in Edit /\ faults' \in 0 .. MaxFaults
      /\ Leave(i) /\ Puts(req[i].store, held)
      /\ (row' = row \/ row' = held)
      /\ UNCHANGED <<live, seen, cache, outbox, undone, effects, lost>>
  BY StatementType DEF SaveMemory, Puts
<1>2. req[i].store \in 1 .. Len(heap)
  BY <1>1 DEF TypeOK
<1>3. heap' \in Seq(Content) /\ Len(heap') >= Len(heap)
  BY <1>1, <1>2, PutsType
<1>4. req' \in [Slot -> Request] /\ Others(i) /\ req'[i].pc = "free"
  BY <1>1, LeaveType
<1>5. SlotFits(req'[i], Len(heap'))
  BY <1>4 DEF SlotFits
<1>6. row' = row \/ row' \in Content
  BY <1>1
<1>7. TypeOK'
  BY <1>1, <1>3, <1>4, <1>5, <1>6, StepType
<1> QED BY <1>1, <1>2, <1>4, <1>7

(* A method of the store adds to it. *)
LEMMA WriteType ==
    ASSUME TypeOK, NEW i \in Slot, NEW ok \in BOOLEAN, Write(i, ok)
    PROVE  /\ heap[req[i].store] \cup {req[i].of} \in Content /\ UNCHANGED taken
           /\ SaveMemory(i, heap[req[i].store] \cup {req[i].of}, ok)
<1>1. /\ req[i].pc = "got" /\ req[i].of \in Edit /\ UNCHANGED taken
      /\ SaveMemory(i, heap[req[i].store] \cup {req[i].of}, ok)
  BY DEF Write, SaveMemory
<1>2. req[i].store \in 1 .. Len(heap)
  BY <1>1 DEF TypeOK
<1> QED BY <1>1, <1>2, WithType

(* A handler that replaces the state takes out what came after its copy. *)
LEMMA ReplaceType ==
    ASSUME TypeOK, NEW i \in Slot, NEW ok \in BOOLEAN, Replace(i, ok)
    PROVE  /\ req[i].pc = "replace" /\ req[i].copy \cup {req[i].of} \in Content
           /\ taken' = taken \cup Overwritten(i) /\ taken' \in Content
           /\ SaveMemory(i, req[i].copy \cup {req[i].of}, ok)
<1>1. /\ req[i].pc = "replace" /\ req[i].of \in Edit /\ taken' = taken \cup Overwritten(i)
      /\ SaveMemory(i, req[i].copy \cup {req[i].of}, ok)
  BY DEF Replace, SaveMemory
<1>2. req[i] \in Request /\ req[i].store \in 1 .. Len(heap) /\ heap \in Seq(Content) /\ taken \in Content
  BY <1>1 DEF TypeOK
<1>3. req[i].copy \in Content /\ heap[req[i].store] \in Content
  BY <1>2 DEF Request
<1>4. req[i].copy \cup {req[i].of} \in Content
  BY <1>1, <1>3 DEF Content
<1>5. taken' \in Content
  BY <1>1, <1>2, <1>3 DEF Content, Overwritten
<1> QED BY <1>1, <1>4, <1>5

(* A snapshot is taken, of the store or of the board a browser has. *)
LEMMA SnapshotType ==
    ASSUME TypeOK, NEW i \in Slot, Snapshot(i)
    PROVE  TypeOK' /\ Others(i) /\ req[i].pc = "got" /\ req'[i].pc = "replace"
           /\ req'[i].store = req[i].store
           /\ UNCHANGED <<live, row, seen, heap, cache, outbox, undone, effects, lost, taken, faults>>
<1>1. req[i].pc = "got" /\ UNCHANGED <<live, row, seen, heap, cache, outbox, undone, effects, lost, taken, faults>>
  BY DEF Snapshot
<1>2. PICK copy \in {heap[req[i].store], req[i].view} :
        req' = [req EXCEPT ![i].pc = "replace", ![i].copy = copy]
  BY DEF Snapshot
<1>3. req[i] \in Request /\ req[i].store \in 1 .. Len(heap) /\ heap \in Seq(Content)
  BY <1>1 DEF TypeOK
<1>4. copy \in Content /\ "replace" \in Pc /\ 0 \in Nat
  BY <1>2, <1>3 DEF Request, Pc
<1>5. /\ req' \in [Slot -> Request] /\ Others(i)
      /\ req'[i].pc = "replace" /\ req'[i].store = req[i].store
  BY <1>2, <1>4, GotoType
<1>6. SlotFits(req'[i], Len(heap'))
  BY <1>1, <1>3, <1>5 DEF SlotFits
<1>7. TypeOK'
  BY <1>1, <1>5, <1>6, StepType
<1> QED BY <1>1, <1>5, <1>7

(* A restart begins with no request and no store. *)
LEMMA CrashType == ASSUME TypeOK, Crash PROVE TypeOK'
<1>1. faults' \in 0 .. MaxFaults
  BY StatementType DEF Crash
<1>2. /\ heap' = <<>> /\ cache' = 0 /\ req' = [i \in Slot |-> Free]
      /\ UNCHANGED <<live, row, seen, outbox, undone, effects, taken>>
  BY DEF Crash
<1>3. lost' \in SUBSET Delivery
  BY DEF Crash, TypeOK
<1>4. heap' \in Seq(Content) /\ cache' \in 0 .. Len(heap')
  BY <1>2
<1>5. /\ req' \in [Slot -> Request]
      /\ \A i \in Slot : req'[i].pc = "free"
  BY <1>2, FreeIsRequest
<1>6. /\ live' \in BOOLEAN /\ row' \in Content /\ seen' \in SUBSET Delivery
      /\ outbox' \in [Delivery -> [tries : 0 .. MaxAttempts, delivered : BOOLEAN]]
      /\ undone' \in SUBSET Edit /\ effects' \in [Delivery -> Nat] /\ taken' \in Content
  BY <1>2 DEF TypeOK
<1> QED BY <1>1, <1>3, <1>4, <1>5, <1>6 DEF TypeOK

(* Arrivals and the deletion keep the invariant. *)
LEMMA ArrivalKeeps ==
    ASSUME IInv, NEW i \in Slot,
           \/ \E d \in Delivery : Ingest(i, d)
           \/ \E e \in Edit : MemberRequest(i, e)
           \/ Delete(i)
    PROVE  IInv'
<1>1. TypeOK' /\ Others(i) /\ req[i].pc = "free" /\ req'[i].pc \in {"lookup", "forget"}
  BY ArrivalType DEF IInv
<1>2. /\ UNCHANGED <<row, seen, heap, cache, effects, lost, taken>> /\ (live' => live)
      /\ (live' => req'[i].pc # "forget")
  <2>0. Board \in Content /\ {} \in Content
    BY DEF IInv, TypeOK, Board, Content
  <2>1. CASE Delete(i)
    BY <2>1 DEF Delete
  <2>2. ASSUME NEW d \in Delivery, Ingest(i, d)
        PROVE  UNCHANGED <<live, row, seen, heap, cache, effects, lost, taken>> /\ req'[i].pc # "forget"
    BY <2>0, <2>2, ArriveType DEF Ingest, IInv
  <2>3. ASSUME NEW e \in Edit, MemberRequest(i, e)
        PROVE  UNCHANGED <<live, row, seen, heap, cache, effects, lost, taken>> /\ req'[i].pc # "forget"
    BY <2>0, <2>3, ArriveType DEF MemberRequest, IInv
  <2> QED BY <2>1, <2>2, <2>3
<1>3. \A d \in Delivery : outbox'[d].delivered => outbox[d].delivered
  <2>1. outbox \in [Delivery -> [tries : 0 .. MaxAttempts, delivered : BOOLEAN]]
    BY DEF TypeOK, IInv
  <2> QED BY <2>1 DEF Ingest, MemberRequest, Delete
<1>4. Elsewhere(i)
  BY <1>1, <1>2, <1>3 DEF Elsewhere, Others
<1> QED BY <1>1, <1>4, ElsewhereKeeps

(* Whoever is not the one that moves is where it was. *)
LEMMA StillOnItsWay ==
    ASSUME TypeOK, NEW i \in Slot, Others(i), NEW d \in Delivery
    PROVE  /\ OnItsWay(d) => OnItsWay(d)' \/ (req[i].pc = "add" /\ req[i].of = d)
           /\ OnItsWay(d)' => OnItsWay(d) \/ (req'[i].pc = "add" /\ req'[i].of = d)
<1>1. ASSUME OnItsWay(d), ~(req[i].pc = "add" /\ req[i].of = d)
      PROVE  OnItsWay(d)'
  <2>1. PICK j \in Slot : req[j].pc = "add" /\ req[j].of = d
    BY <1>1 DEF OnItsWay
  <2>2. req'[j] = req[j]
    BY <1>1, <2>1 DEF Others
  <2> QED BY <2>1, <2>2 DEF OnItsWay
<1>2. ASSUME OnItsWay(d)', ~(req'[i].pc = "add" /\ req'[i].of = d)
      PROVE  OnItsWay(d)
  <2>1. PICK j \in Slot : req'[j].pc = "add" /\ req'[j].of = d
    BY <1>2 DEF OnItsWay
  <2>2. req'[j] = req[j]
    BY <1>2, <2>1 DEF Others
  <2> QED BY <2>1, <2>2 DEF OnItsWay
<1> QED BY <1>1, <1>2

(* A step that only moves one slot, not from or to the board, keeps what   *)
(* is said of the record.                                                  *)
LEMMA RecordKept ==
    ASSUME IInv, NEW i \in Slot, Others(i), UNCHANGED <<effects, outbox, seen>>,
           req[i].pc # "add", req'[i].pc \notin {"add", "log"}
    PROVE  RecordedFirst'
<1>1. \A d \in Delivery : OnItsWay(d)' = OnItsWay(d)
  BY DEF OnItsWay, Others
<1> QED BY <1>1 DEF RecordedFirst, Others, IInv

(* A lookup keeps the invariant. *)
LEMMA LookupKeeps == ASSUME IInv, NEW i \in Slot, Lookup(i) PROVE IInv'
<1>1. /\ TypeOK' /\ Others(i) /\ req[i].pc = "lookup"
      /\ \/ req'[i].pc = "load"
         \/ cache # 0 /\ req'[i].pc = "got" /\ req'[i].store = cache
  BY LookupType DEF IInv
<1>2. UNCHANGED <<live, row, seen, heap, cache, outbox, effects, lost, taken>>
  BY DEF Lookup
<1>3. RecordedFirst'
  BY <1>1, <1>2, RecordKept
<1>4. OneStore'
  BY <1>1, <1>2 DEF OneStore, HasStore, Others, IInv
<1>5. SeenIsStored'
  BY <1>1, <1>2 DEF SeenIsStored, OnItsWay, Others, IInv
<1> QED BY <1>1, <1>3, <1>4, <1>5 DEF IInv

(* Reading the row keeps the invariant. *)
LEMMA ReadRowKeeps == ASSUME IInv, NEW i \in Slot, ReadRow(i) PROVE IInv'
<1>1. /\ TypeOK' /\ Others(i) /\ req[i].pc = "load"
      /\ \/ ~live /\ req'[i].pc = "free"
         \/ live /\ req'[i].pc = "construct" /\ req'[i].copy = row
  BY ReadRowType DEF IInv
<1>2. UNCHANGED <<live, row, seen, heap, cache, outbox, effects, lost, taken>>
  BY DEF ReadRow
<1>3. RecordedFirst'
  BY <1>1, <1>2, RecordKept
<1>4. OneStore'
  BY <1>1, <1>2 DEF OneStore, HasStore, Others, IInv
<1>5. SeenIsStored'
  BY <1>1, <1>2 DEF SeenIsStored, OnItsWay, Others, IInv
<1> QED BY <1>1, <1>3, <1>4, <1>5 DEF IInv

(* A constructor keeps the invariant: before a load is published it writes *)
(* what is in the row, and afterwards what the published store has.        *)
LEMMA ConstructKeeps ==
    ASSUME IInv, NEW i \in Slot, NEW ok \in BOOLEAN, Construct(i, ok) PROVE IInv'
<1>1. /\ TypeOK' /\ Others(i) /\ req[i].pc = "construct"
      /\ UNCHANGED <<live, seen, cache, outbox, undone, effects, taken>>
      /\ \/ Constructed(i)
         \/ req'[i].pc = "free" /\ UNCHANGED <<row, lost, heap>>
  BY ConstructType DEF IInv
<1>2. CASE req'[i].pc = "free" /\ UNCHANGED <<row, lost, heap>>
  <2>1. Elsewhere(i)
    BY <1>1, <1>2 DEF Elsewhere, Others
  <2> QED BY <1>1, <2>1, ElsewhereKeeps
<1>3. CASE Constructed(i)
  <2>1. /\ live /\ live' /\ req'[i].pc = "publish" /\ req'[i].store = Len(heap) + 1
        /\ row' = req[i].copy /\ heap' = Append(heap, req[i].copy)
        /\ lost' = lost \cup (Delivery \cap (row \ req[i].copy))
    BY <1>1, <1>3 DEF Constructed
  <2>2. heap \in Seq(Content) /\ Len(heap) \in Nat /\ cache \in 0 .. Len(heap)
    BY DEF IInv, TypeOK
  <2>3. /\ heap'[Len(heap) + 1] = row'
        /\ \A n \in 1 .. Len(heap) : heap'[n] = heap[n]
    BY <2>1, <2>2
  <2>4. \A j \in Slot : req[j].pc = "publish" => req[j].store \in 1 .. Len(heap)
    BY DEF IInv, TypeOK
  <2>5. RecordedFirst'
    BY <1>1, <2>1, RecordKept
  <2>6. OneStore'
    <3>1. CASE cache = 0
      <4>1. row' = row
        BY <1>1, <2>1, <3>1 DEF IInv, OneStore, HasStore
      <4> QED BY <1>1, <2>1, <2>3, <2>4, <3>1, <4>1 DEF IInv, OneStore, HasStore, Others
    <3>2. CASE cache # 0
      <4>1. heap'[cache] = heap[cache] /\ cache' = cache
        BY <1>1, <2>2, <2>3, <3>2
      <4>2. row' \subseteq heap[cache] \cup taken
        BY <1>1, <2>1, <3>2 DEF IInv, OneStore, HasStore
      <4> QED BY <1>1, <2>1, <3>2, <4>1, <4>2 DEF IInv, OneStore, HasStore, Others
    <3> QED BY <3>1, <3>2
  <2>7. SeenIsStored'
    <3>1. ASSUME NEW d \in seen PROVE d \in row' \/ d \in lost' \cup taken' \/ OnItsWay(d)'
      <4>1. d \in Delivery
        BY DEF IInv, TypeOK
      <4>2. d \in row \/ d \in lost \cup taken \/ OnItsWay(d)
        BY <2>1 DEF IInv, SeenIsStored
      <4>3. OnItsWay(d) => OnItsWay(d)'
        BY <1>1, <4>1, StillOnItsWay DEF IInv
      <4> QED BY <1>1, <2>1, <4>1, <4>2, <4>3
    <3> QED BY <1>1, <3>1 DEF SeenIsStored
  <2> QED BY <1>1, <2>5, <2>6, <2>7 DEF IInv
<1> QED BY <1>1, <1>2, <1>3

(* Publishing keeps the invariant. *)
LEMMA PublishKeeps == ASSUME IInv, NEW i \in Slot, Publish(i) PROVE IInv'
<1>1. /\ TypeOK' /\ Others(i) /\ req[i].pc = "publish"
      /\ req'[i].pc = "got" /\ req'[i].store = cache'
      /\ cache' = Winner(i) /\ req[i].store \in 1 .. Len(heap)
      /\ UNCHANGED <<live, row, seen, heap, outbox, undone, effects, lost, taken, faults>>
  BY PublishType DEF IInv
<1>2. RecordedFirst'
  BY <1>1, RecordKept
<1>3. OneStore'
  <2>1. CASE cache = 0
    <3>1. cache' = req[i].store /\ cache' # 0
      BY <1>1, <2>1 DEF Winner
    <3>2. live => heap[cache'] = row
      BY <1>1, <2>1, <3>1 DEF IInv, OneStore, HasStore
    <3> QED BY <1>1, <2>1, <3>1, <3>2 DEF IInv, OneStore, HasStore, Others
  <2>2. CASE cache # 0
    <3>1. cache' = cache
      BY <1>1, <2>2 DEF Winner
    <3> QED BY <1>1, <2>2, <3>1 DEF IInv, OneStore, HasStore, Others
  <2> QED BY <2>1, <2>2
<1>4. SeenIsStored'
  BY <1>1 DEF SeenIsStored, OnItsWay, Others, IInv
<1> QED BY <1>1, <1>2, <1>3, <1>4 DEF IInv

(* Forgetting keeps the invariant: the workspace is deleted by then. *)
LEMMA ForgetKeeps == ASSUME IInv, NEW i \in Slot, Forget(i) PROVE IInv'
<1>1. /\ TypeOK' /\ Others(i) /\ req[i].pc = "forget" /\ req'[i].pc = "free"
      /\ UNCHANGED <<live, row, seen, heap, outbox, undone, effects, lost, taken, faults>>
  BY ForgetType DEF IInv
<1>2. ~live
  BY <1>1 DEF IInv, OneStore, HasStore
<1>3. Elsewhere(i)
  BY <1>1, <1>2 DEF Elsewhere, Others
<1> QED BY <1>1, <1>3, ElsewhereKeeps

(* A crash keeps the invariant: what had no card yet is lost. *)
LEMMA CrashKeeps == ASSUME IInv, Crash PROVE IInv'
<1>1. TypeOK'
  BY CrashType DEF IInv
<1>2. /\ cache' = 0 /\ req' = [i \in Slot |-> Free]
      /\ lost' = lost \cup {d \in Delivery : \E i \in Slot : req[i].pc = "add" /\ req[i].of = d}
      /\ UNCHANGED <<live, row, seen, outbox, effects, taken>>
  BY DEF Crash
<1>3. \A i \in Slot : req'[i].pc = "free"
  BY <1>2, FreeIsRequest
<1>4. \A d \in Delivery : ~OnItsWay(d)'
  BY <1>3 DEF OnItsWay
<1>5. RecordedFirst'
  BY <1>2, <1>3, <1>4 DEF RecordedFirst, IInv
<1>6. OneStore'
  BY <1>2, <1>3 DEF OneStore, HasStore
<1>7. SeenIsStored'
  <2>1. \A d \in seen : d \in Delivery
    BY DEF IInv, TypeOK
  <2>2. \A d \in Delivery : OnItsWay(d) => d \in lost'
    BY <1>2 DEF OnItsWay
  <2> QED BY <1>2, <2>1, <2>2 DEF SeenIsStored, IInv
<1> QED BY <1>1, <1>5, <1>6, <1>7 DEF IInv

(* Recording a delivery keeps the invariant: nobody else has it then. *)
LEMMA MarkKeeps ==
    ASSUME IInv, NEW i \in Slot, NEW ok \in BOOLEAN, Mark(i, ok) PROVE IInv'
<1>1. /\ TypeOK' /\ Others(i) /\ req[i].pc = "got" /\ req[i].of \in Delivery
      /\ UNCHANGED <<live, row, heap, cache, undone, effects, lost, taken>>
      /\ \/ /\ req[i].of \notin seen /\ seen' = seen \cup {req[i].of}
            /\ req'[i].pc = "add" /\ req'[i].of = req[i].of /\ req'[i].store = req[i].store
            /\ UNCHANGED outbox
         \/ /\ req'[i].pc = "free" /\ UNCHANGED seen
            /\ \A d \in Delivery : outbox'[d].delivered => outbox[d].delivered \/ d \in seen
  BY MarkType DEF IInv
<1>2. CASE req'[i].pc = "free" /\ UNCHANGED seen
  <2>1. \A d \in Delivery : outbox'[d].delivered => outbox[d].delivered \/ d \in seen
    BY <1>1, <1>2
  <2>2. Elsewhere(i)
    BY <1>1, <1>2, <2>1 DEF Elsewhere, Others
  <2> QED BY <1>1, <2>2, ElsewhereKeeps
<1>3. CASE req'[i].pc = "add"
  <2> DEFINE x == req[i].of
  <2>1. /\ x \in Delivery /\ x \notin seen /\ seen' = seen \cup {x} /\ UNCHANGED outbox
        /\ req'[i].pc = "add" /\ req'[i].of = x /\ req'[i].store = req[i].store
    BY <1>1, <1>3
  <2>2. effects[x] = 0 /\ ~OnItsWay(x)
    BY <2>1 DEF IInv, RecordedFirst
  <2>3. \A j \in Slot : req[j].pc = "add" => req[j].of # x
    BY <2>2 DEF OnItsWay
  <2>4. ASSUME NEW d \in Delivery PROVE IF d = x THEN OnItsWay(d)' ELSE OnItsWay(d)' = OnItsWay(d)
    <3>1. CASE d = x
      BY <2>1, <3>1 DEF OnItsWay
    <3>2. CASE d # x
      <4>1. OnItsWay(d) => OnItsWay(d)'
        BY <1>1, StillOnItsWay DEF IInv
      <4>2. OnItsWay(d)' => OnItsWay(d)
        BY <1>1, <2>1, <3>2, StillOnItsWay DEF IInv
      <4>3. OnItsWay(d) \in BOOLEAN /\ OnItsWay(d)' \in BOOLEAN
        BY DEF OnItsWay
      <4> QED BY <3>2, <4>1, <4>2, <4>3
    <3> QED BY <3>1, <3>2
  <2>5. RecordedFirst'
    <3>1. ASSUME NEW d \in Delivery
          PROVE  /\ (effects'[d] > 0 \/ OnItsWay(d)' => d \in seen')
                 /\ (effects'[d] = 0 \/ (effects'[d] = 1 /\ ~OnItsWay(d)'))
                 /\ (outbox'[d].delivered => d \in seen')
      <4>1. CASE d = x
        BY <1>1, <2>1, <2>2, <4>1
      <4>2. CASE d # x
        <5>1. OnItsWay(d)' = OnItsWay(d)
          BY <2>4, <4>2
        <5> QED BY <1>1, <2>1, <5>1 DEF IInv, RecordedFirst
      <4> QED BY <4>1, <4>2
    <3>2. ASSUME NEW j \in Slot, NEW k \in Slot,
                 req'[j].pc = "add", req'[k].pc = "add", req'[j].of = req'[k].of
          PROVE  j = k
      <4>1. ASSUME j # i, k # i PROVE j = k
        BY <1>1, <3>2, <4>1 DEF IInv, RecordedFirst, Others
      <4>2. ASSUME j = i, k # i PROVE FALSE
        BY <1>1, <2>1, <2>3, <3>2, <4>2 DEF Others
      <4>3. ASSUME k = i, j # i PROVE FALSE
        BY <1>1, <2>1, <2>3, <3>2, <4>3 DEF Others
      <4> QED BY <4>1, <4>2, <4>3
    <3>3. \A j \in Slot : req'[j].pc = "log" => req'[j].of \in seen'
      BY <1>1, <2>1 DEF IInv, RecordedFirst, Others
    <3> QED BY <3>1, <3>2, <3>3 DEF RecordedFirst
  <2>6. OneStore'
    BY <1>1, <2>1 DEF IInv, OneStore, HasStore, Others
  <2>7. SeenIsStored'
    <3>1. \A d \in seen : d \in Delivery
      BY DEF IInv, TypeOK
    <3>2. \A d \in Delivery : d = x \/ OnItsWay(d) => OnItsWay(d)'
      BY <2>4
    <3> QED BY <1>1, <2>1, <3>1, <3>2 DEF IInv, SeenIsStored
  <2> QED BY <1>1, <2>5, <2>6, <2>7 DEF IInv
<1> QED BY <1>1, <1>2, <1>3

(* Whoever has a store has the one that holds what the row holds. *)
LEMMA StoreHoldsRow ==
    ASSUME IInv, live, NEW i \in Slot, HasStore(req[i])
    PROVE  cache # 0 /\ req[i].store = cache /\ row \subseteq heap[cache] \cup taken
BY DEF IInv, OneStore

(* A store gives up only what is then taken, and the row stays within it.  *)
LEMMA PutKeepsOneStore ==
    ASSUME IInv, NEW i \in Slot, NEW held \in Content, Others(i),
           HasStore(req[i]), req[i].store \in 1 .. Len(heap),
           Puts(req[i].store, held), UNCHANGED <<live, cache>>,
           taken \cup (heap[req[i].store] \ held) \subseteq taken',
           row' = row \/ row' = held,
           req'[i].pc = "free" \/ (req'[i].pc = "log" /\ req'[i].store = req[i].store)
    PROVE  OneStore' /\ (live => row \ row' \subseteq taken')
<1> SUFFICES ASSUME live PROVE OneStore' /\ row \ row' \subseteq taken'
  BY DEF OneStore
<1>1. cache # 0 /\ req[i].store = cache /\ row \subseteq heap[cache] \cup taken
  BY StoreHoldsRow
<1>2. heap'[cache] = held
  BY <1>1, PutsType DEF IInv
<1>3. row \ row' \subseteq taken' /\ row' \subseteq heap'[cache] \cup taken'
  BY <1>1, <1>2
<1>4. \A j \in Slot : req'[j].pc = "construct" => req'[j].copy \subseteq heap'[cache] \cup taken'
  BY <1>1, <1>2 DEF IInv, OneStore, Others
<1>5. \A j \in Slot : /\ req'[j].pc # "forget"
                      /\ HasStore(req'[j]) => cache # 0 /\ req'[j].store = cache
  BY <1>1 DEF IInv, OneStore, HasStore, Others
<1> QED BY <1>1, <1>3, <1>4, <1>5 DEF OneStore, HasStore

(* Putting a delivery on the board keeps the invariant: it is the first    *)
(* time, and no other attempt has it.                                      *)
LEMMA AddKeeps ==
    ASSUME IInv, NEW i \in Slot, NEW ok \in BOOLEAN, Add(i, ok)
    PROVE  IInv' /\ (live => row \ row' \subseteq taken)
<1>0. PICK x \in Delivery : x = req[i].of
  BY AddType DEF IInv
<1>1. /\ TypeOK' /\ Others(i) /\ req[i].pc = "add" /\ x \in Delivery
      /\ req[i].store \in 1 .. Len(heap) /\ Puts(req[i].store, heap[req[i].store] \cup {x})
      /\ effects' = [effects EXCEPT ![x] = @ + 1]
      /\ UNCHANGED <<live, seen, cache, outbox, undone, taken>>
      /\ \/ /\ row' = heap[req[i].store] \cup {x} /\ UNCHANGED lost
            /\ req'[i].pc = "log" /\ req'[i].of = x /\ req'[i].store = req[i].store
         \/ /\ UNCHANGED row /\ lost' = lost \cup {x} /\ req'[i].pc = "free"
  BY <1>0, AddType DEF IInv
<1>2. OnItsWay(x)
  BY <1>0, <1>1 DEF OnItsWay
<1>3. x \in seen /\ effects[x] = 0
  BY <1>1, <1>2 DEF IInv, RecordedFirst
<1>4. \A j \in Slot \ {i} : req[j].pc = "add" => req[j].of # x
  BY <1>0, <1>1 DEF IInv, RecordedFirst
<1>5. ~OnItsWay(x)'
  BY <1>1, <1>4 DEF OnItsWay, Others
<1>6. ASSUME NEW d \in Delivery, d # x PROVE OnItsWay(d)' = OnItsWay(d)
  <2>1. OnItsWay(d) => OnItsWay(d)'
    BY <1>1, <1>0, <1>6, StillOnItsWay DEF IInv
  <2>2. OnItsWay(d)' => OnItsWay(d)
    BY <1>1, <1>0, <1>6, StillOnItsWay DEF IInv
  <2>3. OnItsWay(d) \in BOOLEAN /\ OnItsWay(d)' \in BOOLEAN
    BY DEF OnItsWay
  <2> QED BY <2>1, <2>2, <2>3
<1>7. effects'[x] = 1 /\ \A d \in Delivery \ {x} : effects'[d] = effects[d]
  <2>1. effects \in [Delivery -> Nat]
    BY DEF IInv, TypeOK
  <2> QED BY <1>1, <1>3, <2>1
<1>8. RecordedFirst'
  <2>1. ASSUME NEW d \in Delivery
        PROVE  /\ (effects'[d] > 0 \/ OnItsWay(d)' => d \in seen')
               /\ (effects'[d] = 0 \/ (effects'[d] = 1 /\ ~OnItsWay(d)'))
               /\ (outbox'[d].delivered => d \in seen')
    <3>1. CASE d = x
      BY <1>1, <1>3, <1>5, <1>7, <3>1
    <3>2. CASE d # x
      <4>1. OnItsWay(d)' = OnItsWay(d) /\ effects'[d] = effects[d]
        BY <1>6, <1>7, <3>2
      <4> QED BY <1>1, <4>1 DEF IInv, RecordedFirst
    <3> QED BY <3>1, <3>2
  <2>2. ASSUME NEW j \in Slot, NEW k \in Slot,
               req'[j].pc = "add", req'[k].pc = "add", req'[j].of = req'[k].of
        PROVE  j = k
    BY <1>1, <2>2 DEF IInv, RecordedFirst, Others
  <2>3. \A j \in Slot : req'[j].pc = "log" => req'[j].of \in seen'
    BY <1>1, <1>3 DEF IInv, RecordedFirst, Others
  <2> QED BY <2>1, <2>2, <2>3 DEF RecordedFirst
<1>9. OneStore' /\ (live => row \ row' \subseteq taken)
  <2>1. heap[req[i].store] \cup {x} \in Content
    BY <1>1, WithType DEF IInv
  <2>2. HasStore(req[i])
    BY <1>1 DEF HasStore
  <2> QED BY <1>1, <2>1, <2>2, PutKeepsOneStore
<1>10. SeenIsStored'
  <2> SUFFICES ASSUME live, NEW d \in seen PROVE d \in row' \/ d \in lost' \cup taken' \/ OnItsWay(d)'
    BY <1>1 DEF SeenIsStored
  <2>1. d \in Delivery /\ (d \in row \/ d \in lost \cup taken \/ OnItsWay(d)) /\ row \ row' \subseteq taken
    BY <1>9 DEF IInv, TypeOK, SeenIsStored
  <2>2. lost \subseteq lost' /\ (x \in row' \/ x \in lost')
    BY <1>1
  <2>3. CASE d = x
    BY <2>2, <2>3
  <2>4. CASE d # x
    BY <1>1, <1>6, <2>1, <2>2, <2>4
  <2> QED BY <2>3, <2>4
<1> QED BY <1>1, <1>8, <1>9, <1>10 DEF IInv

(* The log entry keeps the invariant: the attempt has recorded what it     *)
(* answers.                                                                *)
LEMMA LogKeeps ==
    ASSUME IInv, NEW i \in Slot, NEW ok \in BOOLEAN, Log(i, ok)
    PROVE  IInv' /\ (live => row \ row' \subseteq taken)
<1>1. /\ TypeOK' /\ Others(i) /\ req[i].pc = "log" /\ req'[i].pc = "free"
      /\ (row' = row \/ row' = heap[req[i].store])
      /\ UNCHANGED <<live, seen, heap, cache, undone, effects, lost, taken>>
      /\ \A d \in Delivery : outbox'[d].delivered => outbox[d].delivered \/ d = req[i].of
  BY LogType DEF IInv
<1>2. req[i].of \in seen
  BY <1>1 DEF IInv, RecordedFirst
<1>3. \A d \in Delivery : OnItsWay(d)' = OnItsWay(d)
  BY <1>1 DEF OnItsWay, Others
<1>4. RecordedFirst'
  BY <1>1, <1>2, <1>3 DEF IInv, RecordedFirst, Others
<1>5. live => cache # 0 /\ req[i].store = cache /\ row \subseteq heap[cache] \cup taken
  BY <1>1, StoreHoldsRow DEF HasStore
<1>6. live => row \ row' \subseteq taken /\ row' \subseteq heap[cache] \cup taken
  BY <1>1, <1>5
<1>7. OneStore'
  BY <1>1, <1>5, <1>6 DEF IInv, OneStore, HasStore, Others
<1>8. SeenIsStored'
  <2>1. \A d \in seen : d \in Delivery
    BY DEF IInv, TypeOK
  <2> QED BY <1>1, <1>3, <1>6, <2>1 DEF IInv, SeenIsStored
<1> QED BY <1>1, <1>4, <1>6, <1>7, <1>8 DEF IInv

(* What a member saves keeps the invariant, if what it takes is on record. *)
LEMMA SaveMemoryKeeps ==
    ASSUME IInv, NEW i \in Slot, NEW held \in Content, NEW ok \in BOOLEAN,
           SaveMemory(i, held, ok), taken' \in Content,
           taken \cup (heap[req[i].store] \ held) \subseteq taken'
    PROVE  IInv' /\ (live => row \ row' \subseteq taken')
<1>1. /\ TypeOK' /\ Others(i) /\ req[i].pc \in {"got", "replace"} /\ req'[i].pc = "free"
      /\ req[i].of \in Edit /\ req[i].store \in 1 .. Len(heap) /\ Puts(req[i].store, held)
      /\ (row' = row \/ row' = held)
      /\ UNCHANGED <<live, seen, cache, outbox, undone, effects, lost>>
  BY SaveMemoryType DEF IInv
<1>2. RecordedFirst'
  BY <1>1, RecordKept
<1>3. OneStore' /\ (live => row \ row' \subseteq taken')
  <2>1. HasStore(req[i])
    BY <1>1 DEF HasStore
  <2> QED BY <1>1, <2>1, PutKeepsOneStore
<1>4. SeenIsStored'
  <2>1. \A d \in Delivery : OnItsWay(d)' = OnItsWay(d)
    BY <1>1 DEF OnItsWay, Others
  <2>2. \A d \in seen : d \in Delivery
    BY DEF IInv, TypeOK
  <2> QED BY <1>1, <1>3, <2>1, <2>2 DEF IInv, SeenIsStored
<1> QED BY <1>1, <1>2, <1>3, <1>4 DEF IInv

(* A method of the store keeps the invariant. *)
LEMMA WriteKeeps ==
    ASSUME IInv, NEW i \in Slot, NEW ok \in BOOLEAN, Write(i, ok)
    PROVE  IInv' /\ (live => row \ row' \subseteq taken)
<1>1. /\ heap[req[i].store] \cup {req[i].of} \in Content /\ UNCHANGED taken
      /\ SaveMemory(i, heap[req[i].store] \cup {req[i].of}, ok)
  BY WriteType DEF IInv
<1>2. taken' \in Content /\ taken \cup (heap[req[i].store] \ (heap[req[i].store] \cup {req[i].of})) \subseteq taken'
  BY <1>1 DEF IInv, TypeOK
<1> QED BY <1>1, <1>2, SaveMemoryKeeps

(* Replacing the state keeps the invariant. *)
LEMMA ReplaceKeeps ==
    ASSUME IInv, NEW i \in Slot, NEW ok \in BOOLEAN, Replace(i, ok)
    PROVE  IInv' /\ (live => row \ row' \subseteq taken \cup Overwritten(i))
<1>1. /\ req[i].copy \cup {req[i].of} \in Content
      /\ taken' = taken \cup Overwritten(i) /\ taken' \in Content
      /\ SaveMemory(i, req[i].copy \cup {req[i].of}, ok)
  BY ReplaceType DEF IInv
<1>2. taken \cup (heap[req[i].store] \ (req[i].copy \cup {req[i].of})) \subseteq taken'
  BY <1>1 DEF Overwritten
<1> QED BY <1>1, <1>2, SaveMemoryKeeps

(* Taking a snapshot keeps the invariant. *)
LEMMA SnapshotKeeps == ASSUME IInv, NEW i \in Slot, Snapshot(i) PROVE IInv'
<1>1. /\ TypeOK' /\ Others(i) /\ req[i].pc = "got" /\ req'[i].pc = "replace"
      /\ req'[i].store = req[i].store
      /\ UNCHANGED <<live, row, seen, heap, cache, outbox, undone, effects, lost, taken, faults>>
  BY SnapshotType DEF IInv
<1>2. RecordedFirst'
  BY <1>1, RecordKept
<1>3. OneStore'
  BY <1>1 DEF OneStore, HasStore, Others, IInv
<1>4. SeenIsStored'
  BY <1>1 DEF SeenIsStored, OnItsWay, Others, IInv
<1> QED BY <1>1, <1>2, <1>3, <1>4 DEF IInv

(* Every step keeps the invariant. *)
LEMMA NextKeeps == ASSUME IInv, [Next]_vars PROVE IInv'
<1>1. CASE UNCHANGED vars
  <2>1. TypeOK'
    BY <1>1 DEF IInv, TypeOK, vars
  <2>2. RecordedFirst' /\ OneStore' /\ SeenIsStored'
    BY <1>1 DEF IInv, RecordedFirst, OneStore, HasStore, SeenIsStored, OnItsWay, vars
  <2> QED BY <2>1, <2>2 DEF IInv
<1>2. CASE Crash
  BY <1>2, CrashKeeps
<1>3. ASSUME NEW i \in Slot,
             \/ \E d \in Delivery : Ingest(i, d)
             \/ \E e \in Edit : MemberRequest(i, e)
             \/ Delete(i)
      PROVE  IInv'
  BY <1>3, ArrivalKeeps
<1>4. ASSUME NEW i \in Slot, Handle(i) PROVE IInv'
  BY <1>4, LookupKeeps, ReadRowKeeps, PublishKeeps, ForgetKeeps, ConstructKeeps, MarkKeeps,
     AddKeeps, LogKeeps, WriteKeeps, SnapshotKeeps, ReplaceKeeps DEF Handle
<1> QED BY <1>1, <1>2, <1>3, <1>4 DEF Next

(* The invariant holds always. *)
THEOREM Invariance == Spec => []IInv
<1>1. Init => IInv
  BY InitHolds
<1>2. IInv /\ [Next]_vars => IInv'
  BY NextKeeps
<1> QED BY <1>1, <1>2, PTL DEF Spec

(* webhook_dedup.go: however attempts overlap, are repeated after lost     *)
(* answers or straddle a crash, a delivery is put on the board once.       *)
THEOREM DeliveriesAreNotRepeated == Spec => []AtMostOnce
<1>1. IInv => AtMostOnce
  <2> SUFFICES ASSUME IInv, NEW d \in Delivery PROVE effects[d] <= 1
    BY DEF AtMostOnce
  <2>1. effects[d] = 0 \/ effects[d] = 1
    BY DEF IInv, RecordedFirst
  <2> QED BY <2>1
<1> QED BY <1>1, Invariance, PTL

(* webhook.go: what the sender was told is done is on the board, or on its *)
(* way there; unless the attempt that recorded it failed, or an older copy *)
(* of the board replaced the one that had it: the save of a load that had  *)
(* been overtaken, or of a handler with a snapshot from before.            *)
THEOREM DeliveredIsKept == Spec => []DeliveredIsOnTheBoard
<1>1. IInv => DeliveredIsOnTheBoard
  <2> SUFFICES ASSUME IInv, live, NEW d \in Delivery, outbox[d].delivered
               PROVE  d \in Board \/ d \in lost \cup taken \/ OnItsWay(d)
    BY DEF DeliveredIsOnTheBoard
  <2>1. d \in seen
    BY DEF IInv, RecordedFirst
  <2>2. d \in row \/ d \in lost \cup taken \/ OnItsWay(d)
    BY <2>1 DEF IInv, SeenIsStored
  <2>3. row \subseteq Board \cup taken
    BY DEF IInv, OneStore, HasStore, Board
  <2> QED BY <2>2, <2>3
<1> QED BY <1>1, Invariance, PTL

(* workspace_registry.go, workspace_api.go: nothing leaves the row but by  *)
(* an older copy of the board; not by a restart, a deletion, a failed      *)
(* save, a webhook's, nor any that adds to the store under its lock.       *)
THEOREM OnlyOlderCopiesForget == Spec => RowForgetsOnlyToOlderCopies
<1> DEFINE Explained(x) == x \in taken \/ \E i \in Slot : req[i].pc = "replace" /\ x \in Overwritten(i)
           Kept == (\A x \in row \ row' : Explained(x)) \/ \E i \in Slot : Loser(i) /\ req'[i].pc = "publish"
<1>1. ASSUME IInv, [Next]_vars PROVE Kept
  <2>1. CASE UNCHANGED vars \/ Crash
    BY <2>1 DEF vars, Crash
  <2>2. ASSUME NEW i \in Slot,
               \/ \E d \in Delivery : Ingest(i, d)
               \/ \E e \in Edit : MemberRequest(i, e)
               \/ Delete(i)
        PROVE  Kept
    BY <2>2 DEF Ingest, MemberRequest, Delete
  <2>3. ASSUME NEW i \in Slot, NEW ok \in BOOLEAN, Construct(i, ok) PROVE Kept
    <3>1. /\ req[i].pc = "construct"
          /\ \/ Constructed(i)
             \/ UNCHANGED row
      BY <1>1, <2>3, ConstructType DEF IInv
    <3>2. CASE UNCHANGED row
      BY <3>2
    <3>3. CASE Constructed(i)
      <4>1. live /\ req'[i].pc = "publish" /\ row' = req[i].copy
        BY <3>3 DEF Constructed
      <4>2. CASE cache = 0
        BY <3>1, <4>1, <4>2, <1>1 DEF IInv, OneStore
      <4>3. CASE cache # 0
        BY <3>1, <4>1, <4>3 DEF Loser
      <4> QED BY <4>2, <4>3
    <3> QED BY <3>1, <3>2, <3>3
  <2>4. ASSUME NEW i \in Slot, Handle(i) PROVE Kept
    <3>1. CASE Lookup(i) \/ ReadRow(i) \/ Publish(i) \/ Snapshot(i) \/ Forget(i)
      BY <3>1 DEF Lookup, ReadRow, Publish, Snapshot, Forget
    <3>2. ASSUME NEW ok \in BOOLEAN, Mark(i, ok) PROVE Kept
      BY <3>2 DEF Mark
    <3>3. ASSUME NEW ok \in BOOLEAN, Add(i, ok) \/ Log(i, ok) \/ Write(i, ok) PROVE Kept
      <4>1. CASE live
        <5>1. row \ row' \subseteq taken
          BY <3>3, <4>1, <1>1, AddKeeps, LogKeeps, WriteKeeps
        <5> QED BY <5>1
      <4>2. CASE ~live
        BY <3>3, <4>2 DEF Add, Log, Write, SaveMemory
      <4> QED BY <4>1, <4>2
    <3>4. ASSUME NEW ok \in BOOLEAN, Replace(i, ok) PROVE Kept
      <4>1. CASE live
        <5>1. row \ row' \subseteq taken \cup Overwritten(i) /\ req[i].pc = "replace"
          BY <3>4, <4>1, <1>1, ReplaceKeeps DEF Replace
        <5> QED BY <5>1
      <4>2. CASE ~live
        BY <3>4, <4>2 DEF Replace, SaveMemory
      <4> QED BY <4>1, <4>2
    <3> QED BY <2>3, <2>4, <3>1, <3>2, <3>3, <3>4 DEF Handle
  <2> QED BY <1>1, <2>1, <2>2, <2>4 DEF Next
<1> QED BY <1>1, Invariance, PTL DEF Spec, RowForgetsOnlyToOlderCopies
=============================================================================
