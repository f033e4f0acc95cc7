----------------------------- MODULE BillingProofs -----------------------------
(***************************************************************************)
(* What billing keeps for any number of orders, sessions and batches: one  *)
(* live invoice to an order, no invoice for an order that looks            *)
(* unconfirmed, no delivery undone, and a balance that is what is owed -   *)
(* each where no two calls overlapped that had to be kept apart.           *)
(***************************************************************************)
EXTENDS OrderBilling, FiniteSetTheorems, TLAPS

Request ==
  [order : Orders \cup {NoOrder}, inv : InvIds \cup {NoInvoice}, delta : {-1, 0, 1},
   op : {"idle", "patch", "create", "open", "void", "paid", "stop"}, seen : Int,
   word : Status \cup {"same"}]

Run ==
  [pc : {"idle", "loop", "call"}, order : Orders \cup {NoOrder}, todo : SUBSET Orders,
   dirty : SUBSET Orders, made : BOOLEAN, seen : [Orders -> Status]]

Word == {"none", "draft", "open", "paid", "void"}

(* What belongs together in a request: money has an invoice of the order   *)
(* it is about, and only a PATCH says draft.                               *)
Whole(x) ==
  /\ x.op # "idle" => x.order \in Orders
  /\ x.inv # NoInvoice => /\ x.op \in {"open", "void", "paid"}
                          /\ x.inv \in InvIds /\ x.inv[1] = x.order
  /\ x.inv = NoInvoice => x.delta = 0 /\ x.op \notin {"open", "void", "paid"}
  /\ x.word = "draft" => x.op = "patch"
  /\ x.op = "create" => x.word = "same"

Shape ==
  /\ \A q \in Sessions : Whole(session[q])
  /\ \A b \in Batches : batch[b].pc = "call" => batch[b].order \in Orders

Typed == TypeOK /\ Shape
-----------------------------------------------------------------------------
LEMMA InvIdsFacts ==
  /\ IsFiniteSet(InvIds)
  /\ \A i \in InvIds : i[1] \in Orders
  /\ NoInvoice \notin InvIds
<1>1. IsFiniteSet(1..MaxInvoices)
  BY FS_Interval, BillingAssumption
<1>2. IsFiniteSet(InvIds)
  BY <1>1, FS_Product, BillingAssumption DEF InvIds
<1> QED BY <1>2, NoInvoiceAssumption DEF InvIds

LEMMA OwedType == Owed \in Nat
<1>1. IsFiniteSet({i \in InvIds : invoice[i] = "open"})
  BY InvIdsFacts, FS_Subset
<1> QED BY <1>1, FS_CardinalityType DEF Owed

(* A new invoice takes a slot of its order that was never used. *)
LEMMA NewInvoiceIs ==
  ASSUME NEW o \in Orders, NewInvoice(o)
  PROVE  \E i \in InvIds : /\ i[1] = o /\ invoice[i] = "none"
                           /\ invoice' = [invoice EXCEPT ![i] = "draft"]
<1>1. (CHOOSE i \in Unused(o) : TRUE) \in Unused(o)
  BY DEF NewInvoice
<1> QED BY <1>1 DEF NewInvoice, Unused

(* A step that begins a whole request leaves everything whole. *)
LEMMA BeginTyped ==
  ASSUME Typed, NEW q \in Sessions, NEW o \in Orders, NEW x \in Request, Whole(x),
         Begin(q, o, x), UNCHANGED order
  PROVE  Typed'
<1>1. TypeOK'
  <2>1. session' \in [Sessions -> Request]
    BY DEF Typed, TypeOK, Begin, Request
  <2>2. drifted' \in BOOLEAN
    BY DEF Typed, TypeOK, Begin
  <2>3. raced' \subseteq Orders
    BY DEF Typed, TypeOK, Begin, Quiet, Race
  <2>4. sweep' \in [on : BOOLEAN, sum : Int, alone : BOOLEAN]
    BY DEF Typed, TypeOK, Begin
  <2> QED BY <2>1, <2>2, <2>3, <2>4 DEF Typed, TypeOK, Begin, Quiet, Request
<1>2. Shape'
  <2>1. \A p \in Sessions : Whole(session'[p])
    <3> TAKE p \in Sessions
    <3>1. session'[p] = IF p = q THEN x ELSE session[p]
      BY DEF Begin, Typed, TypeOK
    <3> QED BY <3>1 DEF Typed, Shape
  <2> QED BY <2>1 DEF Typed, Shape, Begin, Whole
<1> QED BY <1>1, <1>2 DEF Typed

LEMMA PlainlyIs ==
  ASSUME NEW o \in Orders, NEW op \in {"patch", "create", "stop"}, NEW word \in Status \cup {"same"},
         word = "draft" => op = "patch", op = "create" => word = "same"
  PROVE  Plainly(op, o, word) \in Request /\ Whole(Plainly(op, o, word))
  BY DEF Plainly, Request, Whole

LEMMA PayingIs ==
  ASSUME Typed, NEW i \in InvIds, NEW op \in {"open", "void", "paid"},
         NEW word \in {"same", "completed"}, NEW delta \in {-1, 0, 1}
  PROVE  Paying(op, i, word, delta) \in Request /\ Whole(Paying(op, i, word, delta))
  BY InvIdsFacts DEF Paying, Request, Whole, Typed, TypeOK, Status

LEMMA RequestsTyped ==
  ASSUME Typed, NEW q \in Sessions, NEW o \in Orders,
         \/ CreateFromOrder(q, o)
         \/ CompleteStop(q, o)
         \/ \E word \in Words : Patch(q, o, word)
         \/ \E i \in InvIds : Approve(q, i) \/ Void(q, i) \/ Pay(q, i)
  PROVE  Typed'
<1>1. CASE CreateFromOrder(q, o)
  BY <1>1, PlainlyIs, BeginTyped DEF CreateFromOrder, Creating
<1>2. CASE CompleteStop(q, o)
  BY <1>2, PlainlyIs, BeginTyped DEF CompleteStop, Status
<1>3. ASSUME NEW word \in Words, Patch(q, o, word) PROVE Typed'
  BY <1>3, PlainlyIs, BeginTyped, BillingAssumption DEF Patch
<1>4. ASSUME NEW i \in InvIds, Approve(q, i) PROVE Typed'
  BY <1>4, PayingIs, BeginTyped, InvIdsFacts DEF Approve
<1>5. ASSUME NEW i \in InvIds, Void(q, i) PROVE Typed'
  BY <1>5, PayingIs, BeginTyped, InvIdsFacts DEF Void
<1>6. ASSUME NEW i \in InvIds, Pay(q, i) PROVE Typed'
  BY <1>6, PayingIs, BeginTyped, InvIdsFacts DEF Pay
<1> QED BY <1>1, <1>2, <1>3, <1>4, <1>5, <1>6

LEMMA IdleIs == Idle \in Request /\ Whole(Idle)
  BY InvIdsFacts DEF Idle, Plainly, Request, Whole, Status

LEMMA NoSweepIs == NoSweep \in [on : BOOLEAN, sum : Int, alone : BOOLEAN]
  BY DEF NoSweep

LEMMA RestingIs == Resting \in Run
  BY DEF Resting, Run, Status

LEMMA CompleteDeliveryTyped ==
  ASSUME Typed, NEW q \in Sessions, NEW o \in Orders, CompleteDelivery(q, o)
  PROVE  Typed'
<1>1. /\ Creating(o) \in Request /\ Whole(Creating(o))
      /\ session' \in {session, [session EXCEPT ![q] = Creating(o)]}
  BY PlainlyIs DEF CompleteDelivery, Creating
<1>2. session' \in [Sessions -> Request] /\ \A p \in Sessions : Whole(session'[p])
  <2>1. session \in [Sessions -> Request] /\ \A p \in Sessions : Whole(session[p])
    BY DEF Typed, TypeOK, Shape, Request
  <2>2. CASE session' = session
    BY <2>1, <2>2
  <2>3. CASE session' = [session EXCEPT ![q] = Creating(o)]
    BY <2>1, <2>3, <1>1
  <2> QED BY <1>1, <2>2, <2>3
<1>3. order' \in [Orders -> [status : Status, stamped : BOOLEAN]]
  <2>1. order \in [Orders -> [status : Status, stamped : BOOLEAN]]
    BY DEF Typed, TypeOK
  <2> QED BY <2>1 DEF CompleteDelivery, Stamp
<1>4. raced' \subseteq Orders
  BY DEF Typed, TypeOK, CompleteDelivery, Quiet, Race
<1> QED BY <1>2, <1>3, <1>4 DEF Typed, TypeOK, Shape, CompleteDelivery, Quiet, Request, Whole

(* A commit writes what the request was to write, all of it at once. *)
LEMMA CommitTyped ==
  ASSUME Typed, NEW q \in Sessions, Commit(q)
  PROVE  Typed'
<1> DEFINE x == session[q]
<1>1. x \in Request /\ Whole(x) /\ x.order \in Orders
  BY DEF Typed, TypeOK, Shape, Request, Whole, Commit, Acting
<1>2. session' \in [Sessions -> Request] /\ \A p \in Sessions : Whole(session'[p])
  <2>1. session \in [Sessions -> Request] /\ \A p \in Sessions : Whole(session[p])
    BY DEF Typed, TypeOK, Shape, Request
  <2> QED BY <2>1, IdleIs DEF Commit
<1>3. order' \in [Orders -> [status : Status, stamped : BOOLEAN]]
  <2>1. CASE x.word = "same"
    BY <2>1 DEF Commit, Typed, TypeOK
  <2>2. CASE x.word # "same"
    <3>1. x.word \in Status
      BY <1>1, <2>2 DEF Request
    <3> QED BY <1>1, <2>2, <3>1 DEF Commit, Typed, TypeOK
  <2> QED BY <2>1, <2>2
<1>4. invoice' \in [InvIds -> Word]
  <2>1. CASE x.op = "create"
    <3>1. NewInvoice(x.order)
      BY <2>1 DEF Commit
    <3> QED BY <3>1, <1>1, NewInvoiceIs DEF Typed, TypeOK, Word
  <2>2. CASE x.op # "create"
    BY <1>1, <2>2 DEF Commit, Settle, Typed, TypeOK, Word, Whole
  <2> QED BY <2>1, <2>2
<1>5. balance' \in Int
  BY <1>1 DEF Commit, Posted, Typed, TypeOK, Request
<1> QED BY <1>2, <1>3, <1>4, <1>5 DEF Typed, TypeOK, Shape, Commit, Request, Word

LEMMA AbortTyped ==
  ASSUME Typed, NEW q \in Sessions, Abort(q)
  PROVE  Typed'
<1>1. session' \in [Sessions -> Request] /\ \A p \in Sessions : Whole(session'[p])
  <2>1. session \in [Sessions -> Request] /\ \A p \in Sessions : Whole(session[p])
    BY DEF Typed, TypeOK, Shape, Request
  <2> QED BY <2>1, IdleIs DEF Abort
<1> QED BY <1>1 DEF Typed, TypeOK, Shape, Abort, Request

LEMMA OneStepTyped ==
  ASSUME Typed, NEW o \in Orders,
         \/ DirectInvoice(o)
         \/ \E i \in InvIds : PatchInvoice(i)
         \/ \E word \in {"spring_burial", "confirmed"} : SpringBurial(o, word)
  PROVE  Typed'
<1>1. CASE DirectInvoice(o)
  <2>1. invoice' \in [InvIds -> Word] /\ raced' \subseteq Orders
    BY <1>1, NewInvoiceIs DEF DirectInvoice, Typed, TypeOK, Word
  <2> QED BY <1>1, <2>1 DEF DirectInvoice, Rest, Typed, TypeOK, Shape, Word
<1>2. ASSUME NEW i \in InvIds, PatchInvoice(i) PROVE Typed'
  <2>1. invoice' \in [InvIds -> Word] /\ raced' \subseteq Orders
    BY <1>2, InvIdsFacts DEF PatchInvoice, Quiet, Race, Typed, TypeOK, Word
  <2>2. sweep' \in [on : BOOLEAN, sum : Int, alone : BOOLEAN]
    BY <1>2 DEF PatchInvoice, Typed, TypeOK
  <2> QED BY <1>2, <2>1, <2>2 DEF PatchInvoice, Quiet, Typed, TypeOK, Shape, Word
<1>3. ASSUME NEW word \in {"spring_burial", "confirmed"}, SpringBurial(o, word) PROVE Typed'
  <2>1. order' \in [Orders -> [status : Status, stamped : BOOLEAN]]
    BY <1>3 DEF SpringBurial, Typed, TypeOK, Status
  <2>2. raced' \subseteq Orders
    BY <1>3 DEF SpringBurial, Quiet, Race, Typed, TypeOK
  <2> QED BY <1>3, <2>1, <2>2 DEF SpringBurial, Quiet, Rest, Typed, TypeOK, Shape
<1> QED BY <1>1, <1>2, <1>3

LEMMA LockTyped ==
  ASSUME Typed, LockPeriod
  PROVE  Typed'
  BY DEF LockPeriod, Rest, Typed, TypeOK, Shape

LEMMA DeliveredIs ==
  ASSUME Typed, NEW S \in SUBSET Orders
  PROVE  Delivered(S) \in [Orders -> [status : Status, stamped : BOOLEAN]]
  BY DEF Delivered, Typed, TypeOK, Status

LEMMA CallWrites ==
  ASSUME NEW b \in Batches, batch[b] \in Run, NEW o \in Orders, Call(b, o)
  PROVE  \E D \in SUBSET Orders, pc \in {"loop", "call"}, r \in Orders \cup {NoOrder} :
           /\ batch' = [batch EXCEPT ![b].todo = @ \ {o}, ![b].seen[o] = "draft",
                                     ![b].dirty = D, ![b].pc = pc, ![b].order = r]
           /\ D \in {batch[b].dirty, batch[b].dirty \cup {o}}
           /\ pc = "call" => r = o
<1> DEFINE known == IF batch[b].made THEN order[o].status ELSE batch[b].seen[o]
           marks == mode = "auto" /\ known \notin DriverConfirmed
           goes  == MayInvoice(o, IF marks THEN "delivered" ELSE known)
           D     == IF marks THEN batch[b].dirty \cup {o} ELSE batch[b].dirty
           pc    == IF goes THEN "call" ELSE "loop"
           r     == IF goes THEN o ELSE NoOrder
<1>1. batch' = [batch EXCEPT ![b].todo = @ \ {o}, ![b].seen[o] = "draft",
                             ![b].dirty = D, ![b].pc = pc, ![b].order = r]
  BY DEF Call
<1>2. /\ D \in SUBSET Orders /\ D \in {batch[b].dirty, batch[b].dirty \cup {o}}
      /\ pc \in {"loop", "call"} /\ r \in Orders \cup {NoOrder} /\ (pc = "call" => r = o)
  BY DEF Run
<1> HIDE DEF D, pc, r
<1> QED BY <1>1, <1>2

LEMMA BatchTyped ==
  ASSUME Typed, NEW b \in Batches, BatchStep(b) \/ BatchOverwrites(b) \/ BatchDies(b)
  PROVE  Typed'
<1>0. batch \in [Batches -> Run] /\ batch[b] \in Run
  BY DEF Typed, TypeOK, Run
<1>1. CASE Select(b)
  <2>1. batch' \in [Batches -> Run]
    <3> DEFINE due  == {o \in Orders : Due(o)}
               seen == [o \in Orders |-> IF o \in due THEN order[o].status ELSE "draft"]
    <3>1. seen \in [Orders -> Status]
      BY DEF Typed, TypeOK, Status
    <3>2. [Resting EXCEPT !.pc = "loop", !.todo = due, !.seen = seen] \in Run
      BY <3>1, RestingIs DEF Run
    <3> QED BY <1>0, <1>1, <3>2 DEF Select
  <2>2. \A c \in Batches : batch'[c].pc = "call" => batch'[c] = batch[c]
    BY <1>0, <1>1 DEF Select, Resting
  <2> QED BY <1>1, <2>1, <2>2 DEF Select, BatchFrame, Typed, TypeOK, Shape, Run
<1>2. ASSUME NEW o \in Orders, Call(b, o) PROVE Typed'
  <2>1. batch' \in [Batches -> Run]
    <3>1. PICK D \in SUBSET Orders, pc \in {"loop", "call"}, r \in Orders \cup {NoOrder} :
            /\ batch' = [batch EXCEPT ![b].todo = @ \ {o}, ![b].seen[o] = "draft",
                                      ![b].dirty = D, ![b].pc = pc, ![b].order = r]
            /\ D \in {batch[b].dirty, batch[b].dirty \cup {o}}
            /\ pc = "call" => r = o
      BY <1>0, <1>2, CallWrites
    <3>2. [batch[b] EXCEPT !.todo = @ \ {o}, !.seen[o] = "draft", !.dirty = D, !.pc = pc,
                           !.order = r] \in Run
      BY <1>0, <3>1 DEF Run, Status
    <3>3. batch' = [batch EXCEPT ![b] = [batch[b] EXCEPT !.todo = @ \ {o}, !.seen[o] = "draft",
                                                         !.dirty = D, !.pc = pc, !.order = r]]
      BY <1>0, <3>1
    <3> QED BY <1>0, <3>2, <3>3
  <2>2. \A c \in Batches : batch'[c].pc = "call" => batch'[c].order \in Orders
    BY <1>0, <1>2 DEF Call, Typed, Shape, Run
  <2>3. raced' \subseteq Orders /\ stale' \subseteq Orders
    BY <1>2 DEF Call, Race, Typed, TypeOK
  <2> QED BY <1>2, <2>1, <2>2, <2>3 DEF Call, BatchFrame, Typed, TypeOK, Shape, Run
<1>3. CASE BatchMakes(b) /\ (BatchCommit(b) \/ BatchOverwrites(b))
  <2>1. batch' \in [Batches -> Run]
    BY <1>0, <1>3, RestingIs DEF BatchMakes, Run
  <2>2. \A c \in Batches : batch'[c].pc = "call" => batch'[c] = batch[c]
    BY <1>0, <1>3 DEF BatchMakes, Run
  <2>3. order' \in [Orders -> [status : Status, stamped : BOOLEAN]]
    BY <1>0, <1>3, DeliveredIs DEF BatchMakes, Run
  <2>4. batch[b].order \in Orders
    BY <1>3 DEF BatchMakes, Typed, Shape
  <2>5. invoice' \in [InvIds -> Word]
    <3>1. NewInvoice(batch[b].order)
      BY <1>3 DEF BatchMakes
    <3> QED BY <3>1, <2>4, NewInvoiceIs DEF Typed, TypeOK, Word
  <2>6. CASE BatchCommit(b)
    BY <2>1, <2>2, <2>3, <2>5, <2>6
       DEF BatchCommit, BatchFrame, Typed, TypeOK, Shape, Run, Word
  <2>7. CASE BatchOverwrites(b)
    <3>1. raced' \subseteq Orders /\ balance' \in Int /\ drifted' \in BOOLEAN
      BY <2>4, <2>7 DEF BatchOverwrites, Typed, TypeOK
    <3>2. sweep' \in [on : BOOLEAN, sum : Int, alone : BOOLEAN]
      BY <2>7 DEF BatchOverwrites, Typed, TypeOK
    <3>3. UNCHANGED <<session, mode, closed, stale>>
      BY <2>7 DEF BatchOverwrites
    <3>4. TypeOK'
      BY <2>1, <2>3, <2>5, <3>1, <3>2, <3>3 DEF Typed, TypeOK, Run, Word
    <3> QED BY <2>2, <3>3, <3>4 DEF Typed, Shape
  <2> QED BY <1>3, <2>6, <2>7
<1>4. CASE BatchEnd(b)
  <2>1. batch' \in [Batches -> Run]
    BY <1>0, <1>4, RestingIs DEF BatchEnd
  <2>2. \A c \in Batches : batch'[c].pc = "call" => batch'[c] = batch[c]
    BY <1>0, <1>4 DEF BatchEnd, Resting
  <2>3. order' \in [Orders -> [status : Status, stamped : BOOLEAN]]
    BY <1>0, <1>4, DeliveredIs DEF BatchEnd, Run, Typed, TypeOK
  <2> QED BY <1>4, <2>1, <2>2, <2>3 DEF BatchEnd, BatchFrame, Typed, TypeOK, Shape, Run
<1>5. CASE BatchDies(b)
  <2>1. batch' \in [Batches -> Run]
    BY <1>0, <1>5, RestingIs DEF BatchDies
  <2>2. \A c \in Batches : batch'[c].pc = "call" => batch'[c] = batch[c]
    BY <1>0, <1>5 DEF BatchDies, Resting
  <2> QED BY <1>5, <2>1, <2>2 DEF BatchDies, BatchFrame, Typed, TypeOK, Shape, Run
<1> QED BY <1>1, <1>2, <1>3, <1>4, <1>5 DEF BatchStep, BatchCommit, BatchOverwrites

LEMMA SweepTyped ==
  ASSUME Typed, SweepLook \/ SweepCommit
  PROVE  Typed'
<1>1. CASE SweepLook
  <2>1. sweep' \in [on : BOOLEAN, sum : Int, alone : BOOLEAN] /\ drifted' \in BOOLEAN
    BY <1>1, OwedType DEF SweepLook, Typed, TypeOK
  <2> QED BY <1>1, <2>1 DEF SweepLook, SweepFrame, Typed, TypeOK, Shape
<1>2. CASE SweepCommit
  <2>1. sweep' \in [on : BOOLEAN, sum : Int, alone : BOOLEAN] /\ drifted' \in BOOLEAN
    BY <1>2, NoSweepIs DEF SweepCommit, Typed, TypeOK
  <2>2. balance' \in Int
    BY <1>2 DEF SweepCommit, Typed, TypeOK
  <2> QED BY <1>2, <2>1, <2>2 DEF SweepCommit, SweepFrame, Typed, TypeOK, Shape
<1> QED BY <1>1, <1>2

LEMMA InitTyped == Init => Typed
<1> SUFFICES ASSUME Init PROVE Typed
  OBVIOUS
<1>1. session \in [Sessions -> Request] /\ batch \in [Batches -> Run]
  BY IdleIs, RestingIs DEF Init
<1>2. order \in [Orders -> [status : Status, stamped : BOOLEAN]]
  BY DEF Init, Status
<1>3. sweep \in [on : BOOLEAN, sum : Int, alone : BOOLEAN]
  BY NoSweepIs DEF Init
<1>4. TypeOK
  <2>1. invoice \in [InvIds -> Word] /\ balance \in Int /\ mode \in Modes
    BY DEF Init, Word
  <2>2. raced \subseteq Orders /\ stale \subseteq Orders /\ drifted \in BOOLEAN /\ closed \in BOOLEAN
    BY DEF Init
  <2> QED BY <1>1, <1>2, <1>3, <2>1, <2>2 DEF TypeOK, Request, Run, Word
<1>5. Shape
  BY IdleIs DEF Init, Shape, Resting
<1> QED BY <1>4, <1>5 DEF Typed

LEMMA NextTyped == Typed /\ [Next]_vars => Typed'
<1> SUFFICES ASSUME Typed, [Next]_vars PROVE Typed'
  OBVIOUS
<1>1. ASSUME NEW q \in Sessions, Commit(q) \/ Abort(q) PROVE Typed'
  BY <1>1, CommitTyped, AbortTyped
<1>2. ASSUME NEW q \in Sessions, NEW o \in Orders \ Plain,
             \/ CreateFromOrder(q, o) \/ CompleteStop(q, o)
             \/ \E word \in Words : Patch(q, o, word)
             \/ \E i \in Of(o) : Approve(q, i) \/ Void(q, i) \/ Pay(q, i)
      PROVE  Typed'
  BY <1>2, RequestsTyped DEF Of
<1>3. ASSUME NEW q \in Sessions, NEW o \in Orders \ Plain, CompleteDelivery(q, o)
      PROVE  Typed'
  BY <1>3, CompleteDeliveryTyped
<1>5. ASSUME NEW o \in Orders \ Plain,
             \/ DirectInvoice(o) \/ (\E i \in Of(o) : PatchInvoice(i))
             \/ \E word \in {"spring_burial", "confirmed"} : SpringBurial(o, word)
      PROVE  Typed'
  BY <1>5, OneStepTyped DEF Of
<1>6. ASSUME NEW b \in Batches, BatchStep(b) \/ BatchOverwrites(b) \/ BatchDies(b) PROVE Typed'
  BY <1>6, BatchTyped
<1>7. CASE SweepLook \/ SweepCommit \/ LockPeriod
  BY <1>7, SweepTyped, LockTyped
<1>8. CASE UNCHANGED vars
  BY <1>8 DEF vars, Typed, TypeOK, Shape
<1> QED BY <1>1, <1>2, <1>3, <1>5, <1>6, <1>7, <1>8 DEF Next

(* Every variable keeps its type, and no request is about to write what    *)
(* does not belong together.                                               *)
THEOREM BillingTyped == Spec => []TypeOK
<1>1. Spec => []Typed
  BY InitTyped, NextTyped, PTL DEF Spec
<1> QED BY <1>1, PTL DEF Typed
-----------------------------------------------------------------------------
Working(o) == {b \in Batches : b \in InCall(o) \/ o \in batch[b].dirty}

(* What a request was right to decide on, and nobody has changed since. *)
Fits(x, o) ==
  /\ x.op = "create" => Live(o) = {} /\ order[o].status # "draft"
  /\ x.op \in {"open", "paid"} => x.inv \in Live(o)
  /\ x.word = "draft" => ~order[o].stamped /\ Live(o) = {}

(* An order on which no two calls overlapped: at most one call is under    *)
(* way on it, and what that call read still holds.                         *)
Calm(o) ==
  /\ \A p, q \in Touching(o) : p = q
  /\ \A b, c \in Working(o) : b = c
  /\ Touching(o) = {} \/ Working(o) = {}
  /\ \A q \in Touching(o) : Fits(session[q], o)
  /\ \A b \in InCall(o) : /\ Live(o) = {}
                          /\ o \in stale \/ o \in batch[b].dirty \/ order[o].status # "draft"
  /\ \A i, k \in Live(o) : i = k
  /\ o \notin stale /\ order[o].status = "draft" => Live(o) = {}

CalmInv == \A o \in Orders \ raced : Calm(o)

(* A step that has nothing to do with an order. *)
LEMMA Elsewhere ==
  ASSUME NEW o \in Orders, Calm(o),
         order'[o] = order[o], Live(o)' = Live(o), Touching(o)' = Touching(o),
         \A q \in Touching(o) : session'[q] = session[q],
         InCall(o)' = InCall(o), Working(o)' = Working(o),
         \A b \in InCall(o) : (o \in batch'[b].dirty) <=> (o \in batch[b].dirty),
         o \in stale => o \in stale'
  PROVE  Calm(o)'
  BY DEF Calm, Fits

LEMMA LiveKept == ASSUME UNCHANGED invoice, NEW o \in Orders PROVE Live(o)' = Live(o)
  BY DEF Live, Of

LEMMA WorkKept ==
  ASSUME UNCHANGED batch, NEW o \in Orders
  PROVE  InCall(o)' = InCall(o) /\ Working(o)' = Working(o)
  BY DEF InCall, Working

LEMMA TouchKept ==
  ASSUME UNCHANGED session, NEW o \in Orders PROVE Touching(o)' = Touching(o)
  BY DEF Touching, Acting

LEMMA BusyIs ==
  ASSUME NEW o \in Orders PROVE Busy(o) <=> Touching(o) # {} \/ Working(o) # {}
  BY DEF Busy, Working

LEMMA BeginCalm ==
  ASSUME Typed, CalmInv, NEW q \in Sessions, NEW p \in Orders, NEW x \in Request,
         Begin(q, p, x), UNCHANGED order, x.order = p, x.op # "idle", Fits(x, p)
  PROVE  CalmInv'
<1> SUFFICES ASSUME NEW o \in Orders, o \notin raced' PROVE Calm(o)'
  BY DEF CalmInv
<1>1. /\ o \notin raced /\ Calm(o)
      /\ o = p => ~Busy(o)
  BY DEF Begin, Quiet, Race, CalmInv
<1>2. /\ session \in [Sessions -> Request] /\ session[q].op = "idle"
      /\ session' = [session EXCEPT ![q] = x]
  BY DEF Begin, Typed, TypeOK, Request, Idle, Plainly
<1>3. /\ order'[o] = order[o] /\ Live(o)' = Live(o)
      /\ InCall(o)' = InCall(o) /\ Working(o)' = Working(o)
      /\ batch' = batch /\ stale' = stale
  BY LiveKept, WorkKept DEF Begin, Quiet
<1>4. CASE o # p
  <2>1. Touching(o)' = Touching(o) /\ q \notin Touching(o)
    BY <1>2, <1>4 DEF Touching, Acting
  <2>2. \A r \in Touching(o) : session'[r] = session[r]
    BY <1>2, <2>1 DEF Touching
  <2> QED BY <1>1, <1>3, <2>1, <2>2, Elsewhere
<1>5. CASE o = p
  <2>1. Touching(o) = {} /\ Working(o) = {}
    BY <1>1, <1>5, BusyIs
  <2>2. Touching(o)' = {q} /\ session'[q] = x
    <3>1. \A r \in Sessions : r \in Touching(o)' <=> r = q
      BY <1>2, <1>5, <2>1 DEF Touching, Acting
    <3>2. Touching(o)' \subseteq Sessions
      BY DEF Touching
    <3> QED BY <1>2, <3>1, <3>2
  <2>3. Fits(x, o)'
    BY <1>3, <1>5 DEF Fits
  <2> QED BY <1>1, <1>3, <2>1, <2>2, <2>3 DEF Calm, InCall
<1> QED BY <1>4, <1>5

LEMMA OnlyConfirmedIsUndone == \A s \in Status : "draft" \in Allowed[s] => s = "confirmed"
  BY DEF Allowed, Status

LEMMA RequestsCalm ==
  ASSUME Typed, CalmInv, NEW q \in Sessions, NEW o \in Orders,
         \/ CreateFromOrder(q, o)
         \/ CompleteStop(q, o)
         \/ \E word \in Words : Patch(q, o, word)
         \/ \E i \in InvIds : Approve(q, i) \/ Void(q, i) \/ Pay(q, i)
  PROVE  CalmInv'
<1>1. CASE CreateFromOrder(q, o)
  <2>1. Fits(Plainly("create", o, "same"), o)
    BY <1>1 DEF CreateFromOrder, MayInvoice, Fits, Plainly
  <2>2. /\ Plainly("create", o, "same").order = o
        /\ Plainly("create", o, "same").op # "idle"
    BY DEF Plainly
  <2> QED BY <1>1, <2>1, <2>2, PlainlyIs, BeginCalm DEF CreateFromOrder, Creating
<1>2. CASE CompleteStop(q, o)
  <2>1. Fits(Plainly("stop", o, "delivered"), o)
    BY DEF Fits, Plainly
  <2>2. /\ Plainly("stop", o, "delivered").order = o
        /\ Plainly("stop", o, "delivered").op # "idle"
    BY DEF Plainly
  <2> QED BY <1>2, <2>1, <2>2, PlainlyIs, BeginCalm DEF CompleteStop, Status
<1>3. ASSUME NEW word \in Words, Patch(q, o, word) PROVE CalmInv'
  <2>1. word = "draft" => order[o].status = "confirmed"
    BY <1>3, OnlyConfirmedIsUndone DEF Patch, Typed, TypeOK
  <2>2. Fits(Plainly("patch", o, word), o)
    BY <1>3, <2>1 DEF Patch, Undoable, Fits, Plainly
  <2>3. /\ Plainly("patch", o, word).order = o
        /\ Plainly("patch", o, word).op # "idle"
    BY DEF Plainly
  <2> QED BY <1>3, <2>2, <2>3, PlainlyIs, BeginCalm, BillingAssumption DEF Patch
<1>4. ASSUME NEW i \in InvIds, NEW op \in {"open", "void", "paid"},
             NEW word \in {"same", "completed"}, NEW delta \in {-1, 0, 1},
             Begin(q, i[1], Paying(op, i, word, delta)), UNCHANGED order,
             invoice[i] \in {"draft", "open"}
      PROVE  CalmInv'
  <2>1. i \in Live(i[1]) /\ i[1] \in Orders
    BY <1>4, InvIdsFacts DEF Live, Of
  <2>2. Fits(Paying(op, i, word, delta), i[1])
    BY <1>4, <2>1 DEF Fits, Paying
  <2>3. /\ Paying(op, i, word, delta).order = i[1]
        /\ Paying(op, i, word, delta).op # "idle"
    BY DEF Paying
  <2> QED BY <1>4, <2>1, <2>2, <2>3, PayingIs, BeginCalm
<1>5. ASSUME NEW i \in InvIds, Approve(q, i) PROVE CalmInv'
  BY <1>4, <1>5 DEF Approve
<1>6. ASSUME NEW i \in InvIds, Void(q, i) PROVE CalmInv'
  BY <1>4, <1>6 DEF Void
<1>7. ASSUME NEW i \in InvIds, Pay(q, i) PROVE CalmInv'
  BY <1>4, <1>7 DEF Pay
<1> QED BY <1>1, <1>2, <1>3, <1>5, <1>6, <1>7

LEMMA CompleteDeliveryCalm ==
  ASSUME Typed, CalmInv, NEW q \in Sessions, NEW p \in Orders, CompleteDelivery(q, p)
  PROVE  CalmInv'
<1> SUFFICES ASSUME NEW o \in Orders, o \notin raced' PROVE Calm(o)'
  BY DEF CalmInv
<1>1. /\ o \notin raced /\ Calm(o)
      /\ o = p => ~Busy(o)
  BY DEF CompleteDelivery, Quiet, Race, CalmInv
<1>2. /\ session \in [Sessions -> Request] /\ session[q].op = "idle"
      /\ order \in [Orders -> [status : Status, stamped : BOOLEAN]]
  BY DEF CompleteDelivery, Typed, TypeOK, Request, Idle, Plainly
<1>3. /\ Live(o)' = Live(o) /\ InCall(o)' = InCall(o) /\ Working(o)' = Working(o)
      /\ batch' = batch /\ stale' = stale
  BY LiveKept, WorkKept DEF CompleteDelivery, Quiet
<1>4. CASE o # p
  <2>1. order'[o] = order[o]
    BY <1>4 DEF CompleteDelivery, Stamp, Typed, TypeOK
  <2>2. Touching(o)' = Touching(o) /\ \A r \in Touching(o) : session'[r] = session[r]
    BY <1>2, <1>4 DEF CompleteDelivery, Creating, Plainly, Touching, Acting
  <2> QED BY <1>1, <1>3, <2>1, <2>2, Elsewhere
<1>5. CASE o = p
  <2>1. Touching(o) = {} /\ Working(o) = {}
    BY <1>1, <1>5, BusyIs
  <2>2. order'[o].status = order[o].status
    BY <1>2, <1>5 DEF CompleteDelivery, Stamp
  <2>3. CASE session' = session
    <3>1. Touching(o)' = {}
      BY <2>1, <2>3, TouchKept
    <3> QED BY <1>1, <1>3, <2>1, <2>2, <3>1 DEF Calm, InCall
  <2>4. CASE session' # session
    <3>1. /\ session' = [session EXCEPT ![q] = Plainly("create", o, "same")]
          /\ MayInvoice(o, order[o].status)
      BY <1>5, <2>4 DEF CompleteDelivery, Creating
    <3>2. \A r \in Touching(o)' : session'[r] = Plainly("create", o, "same") /\ r = q
      BY <1>2, <2>1, <3>1 DEF Touching, Acting
    <3>3. Fits(Plainly("create", o, "same"), o)'
      BY <1>3, <2>2, <3>1 DEF Fits, Plainly, MayInvoice
    <3> QED BY <1>1, <1>3, <2>1, <2>2, <3>2, <3>3 DEF Calm, InCall
  <2> QED BY <2>3, <2>4
<1> QED BY <1>4, <1>5

(* An invoice that is made for an order that has no live one. *)
LEMMA NewIsOnly ==
  ASSUME Typed, NEW p \in Orders, NewInvoice(p)
  PROVE  /\ Live(p) = {} => \A i, k \in Live(p)' : i = k
         /\ \A o \in Orders \ {p} : Live(o)' = Live(o)
<1>1. PICK i \in InvIds : /\ i[1] = p /\ invoice[i] = "none"
                          /\ invoice' = [invoice EXCEPT ![i] = "draft"]
  BY NewInvoiceIs
<1>2. \A k \in InvIds : invoice'[k] = IF k = i THEN "draft" ELSE invoice[k]
  BY <1>1 DEF Typed, TypeOK
<1>3. ASSUME Live(p) = {} PROVE \A k \in Live(p)' : k = i
  BY <1>2, <1>3 DEF Live, Of
<1>4. ASSUME NEW o \in Orders \ {p} PROVE Live(o)' = Live(o)
  BY <1>1, <1>2 DEF Live, Of
<1> QED BY <1>3, <1>4

(* An invoice that was given a new word by the request that read it. *)
LEMMA SettledIs ==
  ASSUME Typed, NEW x \in Request, Whole(x), x.op # "idle", Settle(x)
  PROVE  /\ \A o \in Orders \ {x.order} : Live(o)' = Live(o)
         /\ Live(x.order)' \subseteq Live(x.order) \cup {x.inv}
         /\ Fits(x, x.order) => Live(x.order)' \subseteq Live(x.order)
<1>1. CASE x.inv = NoInvoice
  <2>1. \A o \in Orders : Live(o)' = Live(o)
    BY <1>1, LiveKept DEF Settle
  <2> QED BY <2>1 DEF Whole
<1>2. CASE x.inv # NoInvoice
  <2>1. /\ x.op \in {"open", "void", "paid"} /\ x.inv \in InvIds /\ x.inv[1] = x.order
        /\ \A k \in InvIds : invoice'[k] = IF k = x.inv THEN x.op ELSE invoice[k]
    BY <1>2 DEF Whole, Settle, Typed, TypeOK
  <2>2. \A o \in Orders \ {x.order} : Live(o)' = Live(o)
    BY <2>1 DEF Live, Of
  <2>3. Live(x.order)' \subseteq Live(x.order) \cup {x.inv}
    BY <2>1 DEF Live, Of
  <2>4. ASSUME Fits(x, x.order) PROVE Live(x.order)' \subseteq Live(x.order)
    <3>1. CASE x.op = "void"
      BY <2>1, <3>1 DEF Live, Of
    <3>2. CASE x.op \in {"open", "paid"}
      BY <2>3, <2>4, <3>2 DEF Fits
    <3> QED BY <2>1, <3>1, <3>2
  <2> QED BY <2>2, <2>3, <2>4
<1> QED BY <1>1, <1>2

LEMMA CommitCalm ==
  ASSUME Typed, CalmInv, NEW q \in Sessions, Commit(q)
  PROVE  CalmInv'
<1> DEFINE x == session[q]
<1>0. x \in Request /\ Whole(x) /\ x.op # "idle" /\ x.order \in Orders
  BY DEF Typed, TypeOK, Shape, Request, Whole, Commit, Acting
<1> SUFFICES ASSUME NEW o \in Orders, o \notin raced' PROVE Calm(o)'
  BY DEF CalmInv
<1>1. o \notin raced /\ Calm(o)
  BY DEF Commit, CalmInv
<1>2. /\ session \in [Sessions -> Request] /\ session' = [session EXCEPT ![q] = Idle]
      /\ batch' = batch /\ stale' = stale
      /\ InCall(o)' = InCall(o) /\ Working(o)' = Working(o)
      /\ Idle.op = "idle"
  BY WorkKept DEF Commit, Typed, TypeOK, Request, Idle, Plainly
<1>3. CASE o # x.order
  <2>1. order'[o] = order[o]
    BY <1>0, <1>3 DEF Commit, Typed, TypeOK
  <2>2. Live(o)' = Live(o)
    BY <1>0, <1>3, NewIsOnly, SettledIs DEF Commit
  <2>3. Touching(o)' = Touching(o) /\ q \notin Touching(o)
    BY <1>2, <1>3 DEF Touching, Acting
  <2>4. \A r \in Touching(o) : session'[r] = session[r]
    BY <1>2, <2>3 DEF Touching
  <2> QED BY <1>1, <1>2, <2>1, <2>2, <2>3, <2>4, Elsewhere
<1>4. CASE o = x.order
  <2>1. q \in Touching(o) /\ Fits(x, o)
    BY <1>0, <1>1, <1>4 DEF Touching, Acting, Calm
  <2>2. Working(o)' = {} /\ InCall(o)' = {}
    BY <1>1, <1>2, <2>1 DEF Calm, Working, InCall
  <2>3. Touching(o)' = {}
    <3>1. \A r \in Sessions : r \in Touching(o) => r = q
      BY <1>1, <2>1 DEF Calm
    <3>2. \A r \in Sessions : r \notin Touching(o)'
      BY <1>2, <3>1 DEF Touching, Acting
    <3> QED BY <3>2 DEF Touching
  <2>4. order'[o].status = IF x.word = "same" THEN order[o].status ELSE x.word
    BY <1>4 DEF Commit, Typed, TypeOK
  <2>5. CASE x.op = "create"
    <3>1. NewInvoice(o) /\ x.word = "same" /\ Live(o) = {} /\ order[o].status # "draft"
      BY <1>0, <1>4, <2>1, <2>5 DEF Commit, Whole, Fits
    <3>2. \A i, k \in Live(o)' : i = k
      BY <3>1, NewIsOnly
    <3> QED BY <2>2, <2>3, <2>4, <3>1, <3>2 DEF Calm
  <2>6. CASE x.op # "create"
    <3>1. Live(o)' \subseteq Live(o)
      BY <1>0, <1>4, <2>1, <2>6, SettledIs DEF Commit
    <3>2. \A i, k \in Live(o)' : i = k
      BY <1>1, <3>1 DEF Calm
    <3>3. o \notin stale' /\ order'[o].status = "draft" => Live(o)' = {}
      BY <1>1, <1>2, <2>1, <2>4, <3>1 DEF Calm, Fits
    <3> QED BY <2>2, <2>3, <3>2, <3>3 DEF Calm
  <2> QED BY <2>5, <2>6
<1> QED BY <1>3, <1>4

LEMMA AbortCalm ==
  ASSUME Typed, CalmInv, NEW q \in Sessions, Abort(q)
  PROVE  CalmInv'
<1> SUFFICES ASSUME NEW o \in Orders, o \notin raced' PROVE Calm(o)'
  BY DEF CalmInv
<1>1. o \notin raced /\ Calm(o)
  BY DEF Abort, CalmInv
<1>2. /\ session \in [Sessions -> Request] /\ session' = [session EXCEPT ![q] = Idle]
      /\ order' = order /\ batch' = batch /\ stale' = stale /\ Live(o)' = Live(o)
      /\ InCall(o)' = InCall(o) /\ Working(o)' = Working(o)
      /\ Idle.op = "idle"
  BY WorkKept, LiveKept DEF Abort, Typed, TypeOK, Request, Idle, Plainly
<1>3. /\ Touching(o)' \subseteq Touching(o)
      /\ \A r \in Touching(o)' : session'[r] = session[r]
  BY <1>2 DEF Touching, Acting
<1>4. \A r \in Touching(o)' : Fits(session[r], o)'
  <2>1. \A r \in Touching(o)' : Fits(session[r], o)
    BY <1>1, <1>3 DEF Calm
  <2> QED BY <1>2, <1>3, <2>1 DEF Fits
<1> QED BY <1>1, <1>2, <1>3, <1>4 DEF Calm, InCall

LEMMA OneStepCalm ==
  ASSUME Typed, CalmInv, NEW p \in Orders,
         \/ DirectInvoice(p)
         \/ \E i \in InvIds : i[1] = p /\ PatchInvoice(i)
         \/ \E word \in {"spring_burial", "confirmed"} : SpringBurial(p, word)
  PROVE  CalmInv'
<1> SUFFICES ASSUME NEW o \in Orders, o \notin raced' PROVE Calm(o)'
  BY DEF CalmInv
<1>1. /\ o \notin raced /\ Calm(o)
      /\ o = p => ~Busy(o) /\ ~DirectInvoice(p)
      /\ Touching(o)' = Touching(o) /\ InCall(o)' = InCall(o) /\ Working(o)' = Working(o)
      /\ session' = session /\ batch' = batch /\ stale' = stale
  BY TouchKept, WorkKept DEF DirectInvoice, PatchInvoice, SpringBurial, Quiet, Race, Rest, CalmInv
<1>2. CASE o # p
  <2>1. order'[o] = order[o]
    BY <1>2 DEF DirectInvoice, PatchInvoice, SpringBurial, Typed, TypeOK
  <2>2. Live(o)' = Live(o)
    <3>1. CASE DirectInvoice(p)
      BY <1>2, <3>1, NewIsOnly DEF DirectInvoice
    <3>2. ASSUME NEW i \in InvIds, i[1] = p, PatchInvoice(i) PROVE Live(o)' = Live(o)
      BY <1>2, <3>2 DEF PatchInvoice, Live, Of, Typed, TypeOK
    <3>3. CASE \E word \in {"spring_burial", "confirmed"} : SpringBurial(p, word)
      BY <3>3, LiveKept DEF SpringBurial
    <3> QED BY <3>1, <3>2, <3>3
  <2> QED BY <1>1, <2>1, <2>2, Elsewhere
<1>3. CASE o = p
  <2>1. /\ Touching(o)' = {} /\ Working(o)' = {} /\ InCall(o)' = {}
    BY <1>1, <1>3, BusyIs DEF Working, InCall
  <2>2. Live(o)' \subseteq Live(o)
    <3>1. ASSUME NEW i \in InvIds, PatchInvoice(i) PROVE Live(o)' \subseteq Live(o)
      BY <3>1 DEF PatchInvoice, Live, Of, Typed, TypeOK
    <3>2. CASE \E word \in {"spring_burial", "confirmed"} : SpringBurial(p, word)
      BY <3>2, LiveKept DEF SpringBurial
    <3> QED BY <1>1, <1>3, <3>1, <3>2
  <2>3. order'[o].status = "draft" => order[o].status = "draft"
    BY <1>1, <1>3 DEF PatchInvoice, SpringBurial, Typed, TypeOK
  <2>4. /\ \A i, k \in Live(o)' : i = k
        /\ o \notin stale' /\ order'[o].status = "draft" => Live(o)' = {}
    BY <1>1, <2>2, <2>3 DEF Calm
  <2> QED BY <2>1, <2>4 DEF Calm
<1> QED BY <1>2, <1>3

(* What a step of one batch does to the others. *)
LEMMA OtherRuns ==
  ASSUME Typed, NEW b \in Batches, BatchStep(b) \/ BatchOverwrites(b) \/ BatchDies(b)
  PROVE  /\ \A c \in Batches \ {b} : batch'[c] = batch[c]
         /\ session' = session
         /\ \A o \in Orders : Touching(o)' = Touching(o)
<1>1. \A c \in Batches \ {b} : batch'[c] = batch[c]
  BY DEF BatchStep, BatchOverwrites, BatchDies, Select, Call, BatchCommit, BatchMakes, BatchEnd,
         Typed, TypeOK
<1>2. session' = session
  BY DEF BatchStep, BatchOverwrites, BatchDies, Select, Call, BatchCommit, BatchEnd, BatchFrame
<1> QED BY <1>1, <1>2, TouchKept

LEMMA SelectCalm ==
  ASSUME Typed, CalmInv, NEW b \in Batches, Select(b)
  PROVE  CalmInv'
<1> SUFFICES ASSUME NEW o \in Orders, o \notin raced' PROVE Calm(o)'
  BY DEF CalmInv
<1>1. /\ o \notin raced /\ Calm(o) /\ batch[b].pc = "idle"
      /\ order' = order /\ stale' = stale /\ Live(o)' = Live(o)
  BY LiveKept DEF Select, CalmInv
<1>2. batch \in [Batches -> Run] /\ batch'[b].pc = "loop" /\ batch'[b].dirty = {}
  BY DEF Select, Typed, TypeOK, Run, Resting
<1>3. /\ \A c \in Batches \ {b} : batch'[c] = batch[c]
      /\ session' = session /\ Touching(o)' = Touching(o)
  BY OtherRuns DEF BatchStep
<1>4. InCall(o)' = InCall(o) /\ Working(o)' \subseteq Working(o) /\ b \notin InCall(o)
  BY <1>1, <1>2, <1>3 DEF InCall, Working
<1> QED BY <1>1, <1>3, <1>4 DEF Calm, Fits, InCall

LEMMA BatchDiesCalm ==
  ASSUME Typed, CalmInv, NEW b \in Batches, BatchDies(b)
  PROVE  CalmInv'
<1> SUFFICES ASSUME NEW o \in Orders, o \notin raced' PROVE Calm(o)'
  BY DEF CalmInv
<1>1. /\ o \notin raced /\ Calm(o)
      /\ order' = order /\ stale' = stale /\ Live(o)' = Live(o)
  BY LiveKept DEF BatchDies, CalmInv
<1>2. batch \in [Batches -> Run] /\ batch'[b].pc = "idle" /\ batch'[b].dirty = {}
  BY DEF BatchDies, Typed, TypeOK, Run, Resting
<1>3. /\ \A c \in Batches \ {b} : batch'[c] = batch[c]
      /\ session' = session /\ Touching(o)' = Touching(o)
  BY OtherRuns
<1>4. /\ InCall(o)' \subseteq InCall(o) /\ Working(o)' \subseteq Working(o)
      /\ b \notin InCall(o)'
  BY <1>1, <1>2, <1>3 DEF InCall, Working
<1> QED BY <1>1, <1>3, <1>4 DEF Calm, Fits, InCall

(* The call of a batch on an order: the guard has read the invoices, and   *)
(* the status it has was overwritten or is one that may be invoiced.       *)
LEMMA CallCalm ==
  ASSUME Typed, CalmInv, NEW b \in Batches, NEW p \in Orders, Call(b, p)
  PROVE  CalmInv'
<1> SUFFICES ASSUME NEW o \in Orders, o \notin raced' PROVE Calm(o)'
  BY DEF CalmInv
<1>1. /\ o \notin raced /\ Calm(o)
      /\ o = p => ~Busy(o)
      /\ order' = order /\ Live(o)' = Live(o) /\ (o \in stale => o \in stale')
      /\ batch[b].pc = "loop"
  BY LiveKept DEF Call, Race, CalmInv
<1>2. PICK D \in SUBSET Orders, pc \in {"loop", "call"}, r \in Orders \cup {NoOrder} :
        /\ batch' = [batch EXCEPT ![b].todo = @ \ {p}, ![b].seen[p] = "draft",
                                  ![b].dirty = D, ![b].pc = pc, ![b].order = r]
        /\ D \in {batch[b].dirty, batch[b].dirty \cup {p}}
        /\ pc = "call" => r = p
  BY CallWrites DEF Typed, TypeOK, Run
<1>3. /\ batch \in [Batches -> Run]
      /\ batch'[b].pc = pc /\ batch'[b].dirty = D /\ batch'[b].order = r
  BY <1>2 DEF Typed, TypeOK, Run
<1>4. /\ \A c \in Batches \ {b} : batch'[c] = batch[c]
      /\ session' = session /\ Touching(o)' = Touching(o)
  BY OtherRuns DEF BatchStep
<1>5. CASE o # p
  <2>1. /\ InCall(o)' = InCall(o) /\ Working(o)' = Working(o)
        /\ \A c \in InCall(o) : (o \in batch'[c].dirty) <=> (o \in batch[c].dirty)
    BY <1>1, <1>2, <1>3, <1>4, <1>5 DEF InCall, Working
  <2> QED BY <1>1, <1>4, <2>1, Elsewhere
<1>6. CASE o = p
  <2>1. Touching(o) = {} /\ Working(o) = {}
    BY <1>1, <1>6, BusyIs
  <2>2. InCall(o)' \subseteq {b} /\ Working(o)' \subseteq {b}
    BY <1>1, <1>4, <2>1 DEF InCall, Working
  <2>3. ASSUME b \in InCall(o)'
        PROVE  Live(o) = {} /\ (o \in stale' \/ o \in batch'[b].dirty \/ order[o].status # "draft")
    <3> DEFINE known == IF batch[b].made THEN order[o].status ELSE batch[b].seen[o]
               marks == mode = "auto" /\ known \notin DriverConfirmed
    <3>1. batch'[b].pc = "call"
      BY <2>3 DEF InCall
    <3>2. MayInvoice(o, IF marks THEN "delivered" ELSE known)
      BY <1>3, <1>6, <3>1 DEF Call
    <3>3. marks => o \in batch'[b].dirty
      BY <1>3, <1>6 DEF Call
    <3>4. known # order[o].status => o \in stale'
      BY <1>6 DEF Call
    <3> QED BY <3>2, <3>3, <3>4 DEF MayInvoice
  <2> QED BY <1>1, <1>4, <2>1, <2>2, <2>3 DEF Calm, InCall
<1> QED BY <1>5, <1>6

LEMMA DeliveredAt ==
  ASSUME Typed, NEW S \in SUBSET Orders, NEW o \in Orders
  PROVE  Delivered(S)[o] = IF o \in S THEN [status |-> "delivered", stamped |-> TRUE] ELSE order[o]
  BY DEF Delivered

(* The step that ends the work of a batch on an order: whatever it does to *)
(* the order's status, nothing is under way on the order after it.         *)
LEMMA WorkEnds ==
  ASSUME Typed, NEW o \in Orders, Calm(o), NEW b \in Batches, b \in Working(o),
         \A c \in Batches \ {b} : batch'[c] = batch[c],
         batch'[b].pc # "call", o \notin batch'[b].dirty,
         Touching(o)' = Touching(o), stale' = stale,
         \A i, k \in Live(o)' : i = k,
         o \notin stale /\ order'[o].status = "draft" => Live(o)' = {}
  PROVE  Calm(o)'
<1>1. Touching(o)' = {} /\ \A c \in Working(o) : c = b
  BY DEF Calm
<1>2. \A c \in Batches : c \notin Working(o)'
  BY <1>1 DEF Working, InCall
<1>3. Working(o)' = {} /\ InCall(o)' = {}
  BY <1>2 DEF Working, InCall
<1> QED BY <1>1, <1>3 DEF Calm

LEMMA BatchMakesCalm ==
  ASSUME Typed, CalmInv, NEW b \in Batches, BatchCommit(b) \/ BatchOverwrites(b)
  PROVE  CalmInv'
<1> DEFINE p == batch[b].order
<1> SUFFICES ASSUME NEW o \in Orders, o \notin raced' PROVE Calm(o)'
  BY DEF CalmInv
<1>0. BatchMakes(b) /\ raced \subseteq raced' /\ stale' = stale
  BY DEF BatchCommit, BatchOverwrites
<1>1. /\ o \notin raced /\ Calm(o) /\ batch[b].pc = "call" /\ stale' = stale
      /\ p \in Orders /\ NewInvoice(p)
  BY <1>0 DEF BatchMakes, CalmInv, Typed, Shape
<1>2. /\ batch \in [Batches -> Run] /\ batch'[b].pc = "loop" /\ batch'[b].dirty = {}
      /\ batch[b].dirty \in SUBSET Orders
  BY <1>0 DEF BatchMakes, Typed, TypeOK, Run
<1>3. /\ \A c \in Batches \ {b} : batch'[c] = batch[c]
      /\ session' = session /\ Touching(o)' = Touching(o)
  BY OtherRuns DEF BatchStep
<1>4. order'[o] = IF o \in batch[b].dirty THEN [status |-> "delivered", stamped |-> TRUE]
                  ELSE order[o]
  BY <1>0, <1>2, DeliveredAt DEF BatchMakes
<1>5. b \in InCall(o) <=> o = p
  BY <1>1 DEF InCall
<1>6. o # p => Live(o)' = Live(o)
  BY <1>1, NewIsOnly
<1>7. CASE b \in Working(o)
  <2>1. /\ \A i, k \in Live(o)' : i = k
        /\ o \notin stale /\ order'[o].status = "draft" => Live(o)' = {}
    <3>1. CASE o = p
      <4>1. /\ Live(o) = {}
            /\ o \in stale \/ o \in batch[b].dirty \/ order[o].status # "draft"
        BY <1>1, <1>5, <3>1 DEF Calm
      <4>2. \A i, k \in Live(o)' : i = k
        BY <1>1, <3>1, <4>1, NewIsOnly
      <4> QED BY <1>4, <4>1, <4>2
    <3>2. CASE o # p
      BY <1>1, <1>4, <1>6, <3>2 DEF Calm
    <3> QED BY <3>1, <3>2
  <2> QED BY <1>1, <1>2, <1>3, <1>7, <2>1, WorkEnds
<1>8. CASE b \notin Working(o)
  <2>1. o # p /\ o \notin batch[b].dirty
    BY <1>5, <1>8 DEF Working
  <2>2. order'[o] = order[o] /\ Live(o)' = Live(o)
    BY <1>4, <1>6, <2>1
  <2>3. /\ InCall(o)' = InCall(o) /\ Working(o)' = Working(o)
        /\ \A c \in InCall(o) : (o \in batch'[c].dirty) <=> (o \in batch[c].dirty)
    BY <1>2, <1>3, <1>5, <2>1 DEF InCall, Working
  <2> QED BY <1>1, <1>3, <2>2, <2>3, Elsewhere
<1> QED BY <1>7, <1>8

LEMMA BatchEndCalm ==
  ASSUME Typed, CalmInv, NEW b \in Batches, BatchEnd(b)
  PROVE  CalmInv'
<1> SUFFICES ASSUME NEW o \in Orders, o \notin raced' PROVE Calm(o)'
  BY DEF CalmInv
<1>1. /\ o \notin raced /\ Calm(o) /\ batch[b].pc = "loop" /\ stale' = stale
      /\ Live(o)' = Live(o)
  BY LiveKept DEF BatchEnd, CalmInv
<1>2. /\ batch \in [Batches -> Run] /\ batch'[b].pc = "idle" /\ batch'[b].dirty = {}
      /\ batch[b].dirty \in SUBSET Orders
  BY DEF BatchEnd, Typed, TypeOK, Run, Resting
<1>3. /\ \A c \in Batches \ {b} : batch'[c] = batch[c]
      /\ session' = session /\ Touching(o)' = Touching(o)
  BY OtherRuns DEF BatchStep
<1>4. \/ order'[o] = order[o]
      \/ o \in batch[b].dirty /\ order'[o].status = "delivered"
  BY <1>2, DeliveredAt DEF BatchEnd
<1>5. CASE b \in Working(o)
  BY <1>1, <1>2, <1>3, <1>4, <1>5, WorkEnds DEF Calm
<1>6. CASE b \notin Working(o)
  <2>1. order'[o] = order[o]
    BY <1>4, <1>6 DEF Working
  <2>2. /\ InCall(o)' = InCall(o) /\ Working(o)' = Working(o)
        /\ \A c \in InCall(o) : (o \in batch'[c].dirty) <=> (o \in batch[c].dirty)
    BY <1>1, <1>2, <1>3, <1>6 DEF InCall, Working
  <2> QED BY <1>1, <1>3, <2>1, <2>2, Elsewhere
<1> QED BY <1>5, <1>6

LEMMA SweepCalm ==
  ASSUME Typed, CalmInv, SweepLook \/ SweepCommit
  PROVE  CalmInv'
<1> SUFFICES ASSUME NEW o \in Orders, o \notin raced' PROVE Calm(o)'
  BY DEF CalmInv
<1>1. SweepFrame
  BY DEF SweepLook, SweepCommit
<1> QED BY <1>1, LiveKept, WorkKept, TouchKept, Elsewhere DEF SweepFrame, CalmInv

LEMMA LockCalm ==
  ASSUME Typed, CalmInv, LockPeriod
  PROVE  CalmInv'
<1> SUFFICES ASSUME NEW o \in Orders, o \notin raced' PROVE Calm(o)'
  BY DEF CalmInv
<1> QED BY LiveKept, WorkKept, TouchKept, Elsewhere DEF LockPeriod, Rest, CalmInv

LEMMA InitCalm == Init => CalmInv
<1> SUFFICES ASSUME Init, NEW o \in Orders PROVE Calm(o)
  BY DEF CalmInv
<1>1. Touching(o) = {} /\ Working(o) = {} /\ InCall(o) = {}
  BY DEF Init, Touching, Acting, Working, InCall, Idle, Plainly, Resting
<1>2. Live(o) = {}
  BY DEF Init, Live, Of
<1> QED BY <1>1, <1>2 DEF Calm

LEMMA NextCalm == Typed /\ CalmInv /\ [Next]_vars => CalmInv'
<1> SUFFICES ASSUME Typed, CalmInv, [Next]_vars PROVE CalmInv'
  OBVIOUS
<1>1. ASSUME NEW q \in Sessions, Commit(q) \/ Abort(q) PROVE CalmInv'
  BY <1>1, CommitCalm, AbortCalm
<1>2. ASSUME NEW q \in Sessions, NEW o \in Orders \ Plain,
             \/ CreateFromOrder(q, o) \/ CompleteStop(q, o)
             \/ \E word \in Words : Patch(q, o, word)
             \/ \E i \in Of(o) : Approve(q, i) \/ Void(q, i) \/ Pay(q, i)
      PROVE  CalmInv'
  BY <1>2, RequestsCalm DEF Of
<1>3. ASSUME NEW q \in Sessions, NEW o \in Orders \ Plain, CompleteDelivery(q, o)
      PROVE  CalmInv'
  BY <1>3, CompleteDeliveryCalm
<1>4. ASSUME NEW o \in Orders \ Plain,
             \/ DirectInvoice(o) \/ (\E i \in Of(o) : PatchInvoice(i))
             \/ \E word \in {"spring_burial", "confirmed"} : SpringBurial(o, word)
      PROVE  CalmInv'
  BY <1>4, OneStepCalm DEF Of
<1>5. ASSUME NEW b \in Batches, BatchStep(b) \/ BatchOverwrites(b) \/ BatchDies(b) PROVE CalmInv'
  BY <1>5, SelectCalm, CallCalm, BatchMakesCalm, BatchEndCalm, BatchDiesCalm DEF BatchStep
<1>6. CASE SweepLook \/ SweepCommit \/ LockPeriod
  BY <1>6, SweepCalm, LockCalm
<1>7. CASE UNCHANGED vars
  BY <1>7, LiveKept, WorkKept, TouchKept, Elsewhere DEF vars, CalmInv
<1> QED BY <1>1, <1>2, <1>3, <1>4, <1>5, <1>6, <1>7 DEF Next

LEMMA Calmly == Spec => [](Typed /\ CalmInv)
<1>1. Init => Typed /\ CalmInv
  BY InitTyped, InitCalm
<1>2. Typed /\ CalmInv /\ [Next]_vars => (Typed /\ CalmInv)'
  BY NextTyped, NextCalm
<1> QED BY <1>1, <1>2, PTL DEF Spec

(* However often an order is voided and invoiced anew, it never has two    *)
(* live invoices, unless two calls on it overlapped.                       *)
THEOREM OrdersBilledOnce == Spec => []OneLiveInvoice
<1>1. CalmInv => OneLiveInvoice
  BY DEF CalmInv, Calm, OneLiveInvoice
<1> QED BY <1>1, Calmly, PTL

(* No order that says draft has a live invoice.                            *)
THEOREM DraftsUnbilled == Spec => []DraftIsUnbilled
<1>1. CalmInv => DraftIsUnbilled
  BY DEF CalmInv, Calm, DraftIsUnbilled
<1> QED BY <1>1, Calmly, PTL

(* The undo of a confirmation is the only way back to draft, and it never  *)
(* finds a delivered order.                                                *)
LEMMA OnlyUndoDrafts ==
  ASSUME Typed, CalmInv, Next, NEW o \in Orders, order[o].stamped, o \notin raced',
         order[o].status # "draft"
  PROVE  order'[o].status # "draft"
<1>1. ASSUME NEW q \in Sessions, Commit(q) PROVE order'[o].status # "draft"
  <2> DEFINE x == session[q]
  <2>1. order'[o].status = IF x.word # "same" /\ o = x.order THEN x.word ELSE order[o].status
    BY <1>1 DEF Commit, Typed, TypeOK
  <2>2. CASE x.word = "draft" /\ o = x.order
    <3>1. q \in Touching(o) /\ Calm(o)
      BY <1>1, <2>2 DEF Commit, Touching, CalmInv
    <3> QED BY <2>2, <3>1 DEF Calm, Fits
  <2> QED BY <2>1, <2>2
<1>2. ASSUME NEW b \in Batches, BatchStep(b) \/ BatchOverwrites(b) \/ BatchDies(b)
      PROVE  order'[o].status # "draft"
  <2>1. batch[b].dirty \in SUBSET Orders
    BY DEF Typed, TypeOK
  <2>2. order' = order \/ order' = Delivered(batch[b].dirty)
    BY <1>2 DEF BatchStep, BatchOverwrites, BatchDies, Select, Call, BatchCommit, BatchMakes,
                BatchEnd
  <2> QED BY <2>1, <2>2, DeliveredAt
<1>3. ASSUME NEW q \in Sessions, NEW p \in Orders, CompleteDelivery(q, p)
      PROVE  order'[o].status # "draft"
  BY <1>3 DEF CompleteDelivery, Stamp, Typed, TypeOK
<1>4. ASSUME NEW p \in Orders, NEW word \in {"spring_burial", "confirmed"}, SpringBurial(p, word)
      PROVE  order'[o].status # "draft"
  BY <1>4 DEF SpringBurial, Typed, TypeOK
<1>5. CASE order' = order
  BY <1>5
<1> QED
  BY <1>1, <1>2, <1>3, <1>4, <1>5
     DEF Next, Abort, CreateFromOrder, CompleteStop, Patch, Approve, Void, Pay, DirectInvoice,
         PatchInvoice, SweepLook, SweepCommit, SweepFrame, LockPeriod

(* A delivery is never undone by a word.                                   *)
THEOREM DeliveryStays == Spec => DeliveryIsNotUndone
<1>1. Typed /\ CalmInv /\ [Next]_vars
        => [\A o \in Orders : order[o].stamped /\ o \notin raced' /\ order[o].status # "draft"
              => order'[o].status # "draft"]_vars
  BY OnlyUndoDrafts
<1> QED BY <1>1, Calmly, PTL DEF Spec, DeliveryIsNotUndone
-----------------------------------------------------------------------------
(* What a request that moves money may count on when nothing else moves    *)
(* any: the row it read is as it was, and so is the invoice.               *)
Sound(x) ==
  /\ x.delta # 0 => x.seen = balance
  /\ \/ x.op = "open" /\ invoice[x.inv] = "draft" /\ x.delta = 1
     \/ x.op = "void" /\ invoice[x.inv] = "draft" /\ x.delta = 0
     \/ x.op \in {"void", "paid"} /\ invoice[x.inv] = "open" /\ x.delta = -1

Steady ==
  /\ ~sweep.on
  /\ balance = Owed
  /\ \A p, q \in Sessions : MovesMoney(p) /\ MovesMoney(q) => p = q
  /\ \A q \in Sessions : MovesMoney(q) => Sound(session[q])

Undisturbed == sweep.sum = Owed /\ \A q \in Sessions : ~MovesMoney(q)

MoneyInv ==
  /\ ~drifted => Steady
  /\ sweep.on /\ sweep.alone => Undisturbed

OpenInvoices == {i \in InvIds : invoice[i] = "open"}

LEMMA OpenIsFinite == IsFiniteSet(OpenInvoices) /\ Owed = Cardinality(OpenInvoices)
  BY InvIdsFacts, FS_Subset DEF OpenInvoices, Owed

(* What is owed follows the word of one invoice. *)
LEMMA OwedFollows ==
  ASSUME Typed, NEW i \in InvIds, NEW w \in Word, invoice' = [invoice EXCEPT ![i] = w]
  PROVE  /\ invoice[i] # "open" /\ w = "open" => Owed' = Owed + 1
         /\ invoice[i] = "open" /\ w # "open" => Owed' = Owed - 1
         /\ invoice[i] # "open" /\ w # "open" => Owed' = Owed
<1>0. \A k \in InvIds : invoice'[k] = IF k = i THEN w ELSE invoice[k]
  BY DEF Typed, TypeOK
<1>1. IsFiniteSet(OpenInvoices) /\ Owed = Cardinality(OpenInvoices) /\ Owed \in Nat
  BY OpenIsFinite, OwedType
<1>2. Owed' = Cardinality(OpenInvoices')
  BY DEF OpenInvoices, Owed
<1>3. ASSUME invoice[i] # "open", w = "open" PROVE Owed' = Owed + 1
  <2>1. OpenInvoices' = OpenInvoices \cup {i} /\ i \notin OpenInvoices
    BY <1>0, <1>3 DEF OpenInvoices
  <2> QED BY <1>1, <1>2, <2>1, FS_AddElement
<1>4. ASSUME invoice[i] = "open", w # "open" PROVE Owed' = Owed - 1
  <2>1. OpenInvoices' = OpenInvoices \ {i} /\ i \in OpenInvoices
    BY <1>0, <1>4 DEF OpenInvoices
  <2> QED BY <1>1, <1>2, <2>1, FS_RemoveElement
<1>5. ASSUME invoice[i] # "open", w # "open" PROVE Owed' = Owed
  <2>1. OpenInvoices' = OpenInvoices
    BY <1>0, <1>5 DEF OpenInvoices
  <2> QED BY <1>1, <1>2, <2>1
<1> QED BY <1>3, <1>4, <1>5

(* A step that moves no money: at most a draft is made. *)
LEMMA NoMoney ==
  ASSUME Typed, MoneyInv, UNCHANGED <<balance, drifted, sweep>>,
         UNCHANGED invoice \/ \E p \in Orders : NewInvoice(p),
         \A q \in Sessions : MovesMoney(q)' => session'[q] = session[q]
  PROVE  MoneyInv'
<1>1. /\ Owed' = Owed
      /\ \A k \in InvIds : invoice[k] # "none" => invoice'[k] = invoice[k]
  <2>1. CASE UNCHANGED invoice
    BY <2>1 DEF Owed
  <2>2. ASSUME NEW p \in Orders, NewInvoice(p)
        PROVE  /\ Owed' = Owed
               /\ \A k \in InvIds : invoice[k] # "none" => invoice'[k] = invoice[k]
    <3>1. PICK i \in InvIds : invoice[i] = "none" /\ invoice' = [invoice EXCEPT ![i] = "draft"]
      BY <2>2, NewInvoiceIs
    <3>2. Owed' = Owed
      BY <3>1, OwedFollows DEF Word
    <3> QED BY <3>1, <3>2 DEF Typed, TypeOK
  <2> QED BY <2>1, <2>2
<1>2. \A q \in Sessions : MovesMoney(q)' => MovesMoney(q) /\ session'[q] = session[q]
  BY DEF MovesMoney
<1>3. ASSUME Steady PROVE Steady'
  <2>1. ASSUME NEW q \in Sessions, MovesMoney(q)' PROVE Sound(session[q])'
    <3>1. Sound(session[q]) /\ session'[q] = session[q] /\ session[q].inv \in InvIds
      BY <1>2, <1>3, <2>1 DEF Steady, MovesMoney, Typed, Shape, Whole
    <3> QED BY <1>1, <3>1 DEF Sound
  <2> QED BY <1>1, <1>2, <1>3, <2>1 DEF Steady
<1>4. Undisturbed => Undisturbed'
  BY <1>1, <1>2 DEF Undisturbed
<1> QED BY <1>3, <1>4 DEF MoneyInv

(* A request that begins. *)
LEMMA BeginMoney ==
  ASSUME Typed, MoneyInv, NEW q \in Sessions, NEW p \in Orders, NEW x \in Request,
         Begin(q, p, x), x.inv # NoInvoice /\ ~MoneyMoves => Sound(x)
  PROVE  MoneyInv'
<1>1. /\ session \in [Sessions -> Request] /\ session[q].inv = NoInvoice
      /\ \A r \in Sessions : session'[r] = IF r = q THEN x ELSE session[r]
      /\ invoice' = invoice /\ balance' = balance /\ Owed' = Owed
  BY DEF Begin, Typed, TypeOK, Request, Idle, Plainly, Owed
<1>2. CASE x.inv = NoInvoice
  <2>1. sweep' = sweep /\ drifted' = drifted
    BY <1>2 DEF Begin, Typed, TypeOK
  <2>2. \A r \in Sessions : MovesMoney(r)' => session'[r] = session[r]
    BY <1>1, <1>2 DEF MovesMoney
  <2> QED BY <1>1, <2>1, <2>2, NoMoney
<1>3. CASE x.inv # NoInvoice
  <2>1. ~sweep'.alone /\ sweep'.on = sweep.on /\ (drifted' <=> drifted \/ MoneyMoves)
    BY <1>3 DEF Begin, Typed, TypeOK
  <2>2. ASSUME ~drifted' PROVE Steady'
    <3>1. /\ Steady /\ ~sweep.on /\ Sound(x)
          /\ \A r \in Sessions : ~MovesMoney(r)
      BY <1>3, <2>1, <2>2 DEF MoneyInv, MoneyMoves
    <3>2. \A r \in Sessions : MovesMoney(r)' => r = q
      BY <1>1, <3>1 DEF MovesMoney
    <3>3. Sound(session[q])'
      BY <1>1, <3>1 DEF Sound
    <3> QED BY <1>1, <2>1, <3>1, <3>2, <3>3 DEF Steady
  <2> QED BY <2>1, <2>2 DEF MoneyInv
<1> QED BY <1>2, <1>3

LEMMA RequestsMoney ==
  ASSUME Typed, MoneyInv, NEW q \in Sessions, NEW o \in Orders,
         \/ CreateFromOrder(q, o)
         \/ CompleteStop(q, o)
         \/ \E word \in Words : Patch(q, o, word)
         \/ \E i \in InvIds : Approve(q, i) \/ Void(q, i) \/ Pay(q, i)
  PROVE  MoneyInv'
<1>1. ASSUME NEW op \in {"patch", "create", "stop"}, NEW word \in Status \cup {"same"},
             word = "draft" => op = "patch", op = "create" => word = "same",
             Begin(q, o, Plainly(op, o, word))
      PROVE  MoneyInv'
  <2>1. Plainly(op, o, word).inv = NoInvoice
    BY DEF Plainly
  <2> QED BY <1>1, <2>1, PlainlyIs, BeginMoney
<1>2. ASSUME NEW i \in InvIds, NEW op \in {"open", "void", "paid"},
             NEW word \in {"same", "completed"}, NEW delta \in {-1, 0, 1},
             Begin(q, i[1], Paying(op, i, word, delta)),
             \/ op = "open" /\ invoice[i] = "draft" /\ delta = 1
             \/ op = "void" /\ invoice[i] = "draft" /\ delta = 0
             \/ op \in {"void", "paid"} /\ invoice[i] = "open" /\ delta = -1
      PROVE  MoneyInv'
  <2>1. Sound(Paying(op, i, word, delta))
    BY <1>2 DEF Sound, Paying
  <2> QED BY <1>2, <2>1, PayingIs, BeginMoney, InvIdsFacts
<1>3. CASE CreateFromOrder(q, o)
  BY <1>1, <1>3 DEF CreateFromOrder, Creating
<1>4. CASE CompleteStop(q, o)
  BY <1>1, <1>4 DEF CompleteStop, Status
<1>5. ASSUME NEW word \in Words, Patch(q, o, word) PROVE MoneyInv'
  BY <1>1, <1>5, BillingAssumption DEF Patch
<1>6. ASSUME NEW i \in InvIds, Approve(q, i) PROVE MoneyInv'
  BY <1>2, <1>6 DEF Approve
<1>7. ASSUME NEW i \in InvIds, Void(q, i) PROVE MoneyInv'
  BY <1>2, <1>7 DEF Void
<1>8. ASSUME NEW i \in InvIds, Pay(q, i) PROVE MoneyInv'
  BY <1>2, <1>8 DEF Pay
<1> QED BY <1>3, <1>4, <1>5, <1>6, <1>7, <1>8

LEMMA CompleteDeliveryMoney ==
  ASSUME Typed, MoneyInv, NEW q \in Sessions, NEW o \in Orders, CompleteDelivery(q, o)
  PROVE  MoneyInv'
<1>1. \A r \in Sessions : MovesMoney(r)' => session'[r] = session[r]
  BY DEF CompleteDelivery, Creating, Plainly, MovesMoney, Typed, TypeOK
<1> QED BY <1>1, NoMoney DEF CompleteDelivery

LEMMA CommitMoney ==
  ASSUME Typed, MoneyInv, NEW q \in Sessions, Commit(q)
  PROVE  MoneyInv'
<1> DEFINE x == session[q]
<1>0. x \in Request /\ Whole(x) /\ x.op # "idle" /\ x.order \in Orders
  BY DEF Typed, TypeOK, Shape, Request, Whole, Commit, Acting
<1>1. /\ \A r \in Sessions : session'[r] = IF r = q THEN Idle ELSE session[r]
      /\ Idle.inv = NoInvoice
      /\ sweep' = sweep /\ drifted' = drifted
  BY DEF Commit, Idle, Plainly, Typed, TypeOK
<1>2. \A r \in Sessions : MovesMoney(r)' => r # q /\ session'[r] = session[r] /\ MovesMoney(r)
  BY <1>1 DEF MovesMoney
<1>3. CASE x.inv = NoInvoice
  <2>1. balance' = balance
    BY <1>0, <1>3 DEF Commit, Posted, Whole
  <2>2. UNCHANGED invoice \/ \E p \in Orders : NewInvoice(p)
    BY <1>0, <1>3 DEF Commit, Settle
  <2> QED BY <1>1, <1>2, <2>1, <2>2, NoMoney
<1>4. CASE x.inv # NoInvoice
  <2>1. /\ x.op \in {"open", "void", "paid"} /\ x.inv \in InvIds /\ MovesMoney(q)
        /\ invoice' = [invoice EXCEPT ![x.inv] = x.op]
    BY <1>0, <1>4 DEF Commit, Settle, Whole, MovesMoney
  <2>2. ASSUME ~drifted' PROVE Steady'
    <3>1. Steady /\ Sound(x)
      BY <1>1, <2>1, <2>2 DEF MoneyInv, Steady
    <3>2. \A r \in Sessions : ~MovesMoney(r)'
      BY <1>2, <2>1, <3>1 DEF Steady
    <3>3. balance' = balance + x.delta
      BY <1>0, <3>1 DEF Commit, Posted, Sound, Typed, TypeOK, Request
    <3>4. Owed' = Owed + x.delta
      <4>1. x.op \in Word /\ Owed \in Nat
        BY <2>1, OwedType DEF Word
      <4>2. /\ invoice[x.inv] # "open" /\ x.op = "open" => Owed' = Owed + 1
            /\ invoice[x.inv] = "open" /\ x.op # "open" => Owed' = Owed - 1
            /\ invoice[x.inv] # "open" /\ x.op # "open" => Owed' = Owed
        BY <2>1, <4>1, OwedFollows
      <4> QED BY <3>1, <4>1, <4>2 DEF Sound
    <3> QED BY <1>1, <3>1, <3>2, <3>3, <3>4 DEF Steady
  <2>3. ~(sweep.on /\ sweep.alone)
    BY <2>1 DEF MoneyInv, Undisturbed
  <2> QED BY <1>1, <2>2, <2>3 DEF MoneyInv
<1> QED BY <1>3, <1>4

LEMMA AbortMoney ==
  ASSUME Typed, MoneyInv, NEW q \in Sessions, Abort(q)
  PROVE  MoneyInv'
<1>1. \A r \in Sessions : MovesMoney(r)' => session'[r] = session[r]
  BY DEF Abort, Idle, Plainly, MovesMoney, Typed, TypeOK
<1> QED BY <1>1, NoMoney DEF Abort

LEMMA OneStepMoney ==
  ASSUME Typed, MoneyInv, NEW p \in Orders,
         \/ DirectInvoice(p)
         \/ \E i \in InvIds : PatchInvoice(i)
         \/ \E word \in {"spring_burial", "confirmed"} : SpringBurial(p, word)
  PROVE  MoneyInv'
<1>1. CASE DirectInvoice(p)
  BY <1>1, NoMoney DEF DirectInvoice, Rest
<1>2. ASSUME NEW i \in InvIds, PatchInvoice(i) PROVE MoneyInv'
  <2>1. drifted' /\ ~sweep'.alone
    BY <1>2 DEF PatchInvoice, Typed, TypeOK
  <2> QED BY <2>1 DEF MoneyInv
<1>3. CASE \E word \in {"spring_burial", "confirmed"} : SpringBurial(p, word)
  BY <1>3, NoMoney DEF SpringBurial, Rest
<1> QED BY <1>1, <1>2, <1>3

LEMMA BatchMoney ==
  ASSUME Typed, MoneyInv, NEW b \in Batches, BatchStep(b) \/ BatchDies(b)
  PROVE  MoneyInv'
<1>1. UNCHANGED <<balance, session, sweep, drifted>>
  BY DEF BatchStep, BatchDies, Select, Call, BatchCommit, BatchEnd, BatchFrame
<1>2. UNCHANGED invoice \/ \E p \in Orders : NewInvoice(p)
  BY DEF BatchStep, BatchDies, Select, Call, BatchCommit, BatchMakes, BatchEnd, Typed, Shape
<1> QED BY <1>1, <1>2, NoMoney

(* The approval the batch wrote over counts as an overlap. *)
LEMMA OverwriteMoney ==
  ASSUME Typed, MoneyInv, NEW b \in Batches, BatchOverwrites(b)
  PROVE  MoneyInv'
<1>1. drifted' /\ ~sweep'.alone
  BY DEF BatchOverwrites, Typed, TypeOK
<1> QED BY <1>1 DEF MoneyInv

LEMMA LockMoney ==
  ASSUME Typed, MoneyInv, LockPeriod
  PROVE  MoneyInv'
  BY NoMoney DEF LockPeriod, Rest

LEMMA SweepMoney ==
  ASSUME Typed, MoneyInv, SweepLook \/ SweepCommit
  PROVE  MoneyInv'
<1>1. /\ session' = session /\ Owed' = Owed
      /\ \A q \in Sessions : MovesMoney(q)' <=> MovesMoney(q)
  BY DEF SweepLook, SweepCommit, SweepFrame, Owed, MovesMoney
<1>2. CASE SweepLook
  <2>1. drifted /\ drifted'
    BY <1>2 DEF SweepLook, MoneyInv, Steady
  <2>2. sweep'.alone => Undisturbed'
    BY <1>1, <1>2 DEF SweepLook, Undisturbed, MoneyMoves
  <2> QED BY <2>1, <2>2 DEF MoneyInv
<1>3. CASE SweepCommit
  <2>1. ~sweep'.on /\ sweep.on /\ balance' = sweep.sum /\ (drifted' <=> drifted /\ ~sweep.alone)
    BY <1>3 DEF SweepCommit, NoSweep
  <2>2. ASSUME ~drifted' PROVE Steady'
    <3>1. Undisturbed
      BY <2>1, <2>2 DEF MoneyInv, Steady
    <3> QED BY <1>1, <2>1, <3>1 DEF Steady, Undisturbed
  <2> QED BY <2>1, <2>2 DEF MoneyInv
<1> QED BY <1>2, <1>3

LEMMA InitMoney == Init => MoneyInv
<1> SUFFICES ASSUME Init PROVE MoneyInv
  OBVIOUS
<1>1. OpenInvoices = {}
  BY DEF Init, OpenInvoices
<1>2. Owed = 0
  BY <1>1, OpenIsFinite, FS_EmptySet
<1>3. \A q \in Sessions : ~MovesMoney(q)
  BY DEF Init, MovesMoney, Idle, Plainly
<1> QED BY <1>2, <1>3 DEF Init, NoSweep, MoneyInv, Steady

LEMMA NextMoney == Typed /\ MoneyInv /\ [Next]_vars => MoneyInv'
<1> SUFFICES ASSUME Typed, MoneyInv, [Next]_vars PROVE MoneyInv'
  OBVIOUS
<1>1. ASSUME NEW q \in Sessions, Commit(q) \/ Abort(q) PROVE MoneyInv'
  BY <1>1, CommitMoney, AbortMoney
<1>2. ASSUME NEW q \in Sessions, NEW o \in Orders \ Plain,
             \/ CreateFromOrder(q, o) \/ CompleteStop(q, o)
             \/ \E word \in Words : Patch(q, o, word)
             \/ \E i \in Of(o) : Approve(q, i) \/ Void(q, i) \/ Pay(q, i)
      PROVE  MoneyInv'
  BY <1>2, RequestsMoney DEF Of
<1>3. ASSUME NEW q \in Sessions, NEW o \in Orders \ Plain, CompleteDelivery(q, o)
      PROVE  MoneyInv'
  BY <1>3, CompleteDeliveryMoney
<1>4. ASSUME NEW o \in Orders \ Plain,
             \/ DirectInvoice(o) \/ (\E i \in Of(o) : PatchInvoice(i))
             \/ \E word \in {"spring_burial", "confirmed"} : SpringBurial(o, word)
      PROVE  MoneyInv'
  BY <1>4, OneStepMoney DEF Of
<1>5. ASSUME NEW b \in Batches, BatchStep(b) \/ BatchOverwrites(b) \/ BatchDies(b) PROVE MoneyInv'
  BY <1>5, BatchMoney, OverwriteMoney
<1>6. CASE SweepLook \/ SweepCommit \/ LockPeriod
  BY <1>6, SweepMoney, LockMoney
<1>7. CASE UNCHANGED vars
  BY <1>7, NoMoney DEF vars
<1> QED BY <1>1, <1>2, <1>3, <1>4, <1>5, <1>6, <1>7 DEF Next

(* The balance is what is owed until calls that move money overlap, and    *)
(* again once the reconciliation had the customer to itself.               *)
THEOREM BalanceIsOwed == Spec => []BalanceFollows
<1>1. Init => Typed /\ MoneyInv
  BY InitTyped, InitMoney
<1>2. Typed /\ MoneyInv /\ [Next]_vars => (Typed /\ MoneyInv)'
  BY NextTyped, NextMoney
<1>3. MoneyInv => BalanceFollows
  BY DEF MoneyInv, Steady, BalanceFollows
<1> QED BY <1>1, <1>2, <1>3, PTL DEF Spec
=============================================================================
