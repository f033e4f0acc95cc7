----------------------------- MODULE OrderBilling -----------------------------
(***************************************************************************)
(* Sales orders, their invoices and the customer's balance               *)
(* (sales_order_transitions.py, sales_service.py, draft_invoice_service.py, *)
(* order_integration_service.py, the delivery screens, spring burials and  *)
(* the AR reconciliation of proactive_agents.py).                          *)
(*                                                                         *)
(* Nothing here locks what it reads.  A request decides on what it read    *)
(* and writes at its commit, the columns it assigned and no others; so a   *)
(* session is the writes it is about to commit.  The nightly batch is a    *)
(* loop of such calls over orders selected before the first of them.       *)
(*                                                                         *)
(* One customer, and every invoice has a total of 1: partial settlement    *)
(* is the matter of Receivables, and so are the journal entries and every  *)
(* status word a PATCH of an invoice may send but "void".  An order has    *)
(* its delivery whenever it is asked for one, and its service date has     *)
(* come.                                                                   *)
(***************************************************************************)
EXTENDS Integers, FiniteSets

CONSTANTS
  Orders,
  Sessions,    \* the requests that may be under way at once
  Batches,     \* the runs of the invoice batch that may be
  Words,       \* the status words a PATCH may send
  Modes,       \* the tenant's invoicing: "auto", "driver" or "immediate"
  Plain,       \* bound: orders that are confirmed and left to the batch
  MaxInvoices, \* bound on the invoices an order has in its life
  NoOrder, NoInvoice

Status == {"draft", "confirmed", "processing", "shipped", "delivered", "completed",
           "spring_burial", "cancelled"}

ASSUME BillingAssumption ==
  /\ IsFiniteSet(Orders) /\ NoOrder \notin Orders
  /\ Words \subseteq Status
  /\ Modes \subseteq {"auto", "driver", "immediate"}
  /\ MaxInvoices \in Nat

InvIds == Orders \X (1..MaxInvoices)

ASSUME NoInvoiceAssumption == NoInvoice \notin InvIds

VARIABLES
  order,      \* status, and whether delivered_at is set
  invoice,
  balance,    \* Customer.current_balance
  session,    \* the requests under way: what they will write
  batch,      \* the runs of the batch
  sweep,      \* the nightly reconciliation
  mode,       \* fixed from the start
  closed,     \* an active period lock covers today
  raced,      \* orders on which two calls overlapped, or one went past the guards
  stale,      \* orders the batch billed by a status they no longer had
  drifted     \* calls that move money overlapped since the last repair

vars == <<order, invoice, balance, session, batch, sweep, mode, closed,
          raced, stale, drifted>>

(* A request about an order alone, and one about an invoice and its money. *)
Plainly(op, o, word) ==
  [order |-> o, op |-> op, word |-> word, inv |-> NoInvoice, delta |-> 0, seen |-> 0]

Paying(op, i, word, delta) ==
  [order |-> i[1], op |-> op, word |-> word, inv |-> i, delta |-> delta,
   seen |-> IF delta = 0 THEN 0 ELSE balance]

Idle == Plainly("idle", NoOrder, "same")

Resting == [pc |-> "idle", order |-> NoOrder, todo |-> {}, dirty |-> {}, made |-> FALSE,
            seen |-> [o \in Orders |-> "draft"]]

NoSweep == [on |-> FALSE, sum |-> 0, alone |-> FALSE]

(* sales_order_transitions.ALLOWED *)
Allowed == [
  draft         |-> {"confirmed", "cancelled", "spring_burial"},
  confirmed     |-> {"draft", "processing", "shipped", "delivered", "cancelled", "spring_burial"},
  processing    |-> {"shipped", "delivered", "cancelled"},
  shipped       |-> {"delivered", "cancelled"},
  delivered     |-> {"completed", "cancelled"},
  spring_burial |-> {"confirmed", "cancelled"},
  completed     |-> {},
  cancelled     |-> {}]

Invoiceable     == {"confirmed", "processing", "shipped", "delivered", "completed"}
DriverConfirmed == {"completed", "shipped", "delivered"}

Of(o)     == {i \in InvIds : i[1] = o /\ invoice[i] # "none"}
Live(o)   == {i \in Of(o) : invoice[i] # "void"}
Unused(o) == {i \in InvIds : i[1] = o /\ invoice[i] = "none"}
Owed      == Cardinality({i \in InvIds : invoice[i] = "open"})

(* Calls under way, on an order and with money.  What the batch has set on *)
(* an order and not committed is under way too.                            *)
Acting(q)     == session[q].op # "idle"
InCall(o)     == {b \in Batches : batch[b].pc = "call" /\ batch[b].order = o}
Touching(o)   == {q \in Sessions : Acting(q) /\ session[q].order = o}
Busy(o)       == Touching(o) # {} \/ \E b \in Batches : b \in InCall(o) \/ o \in batch[b].dirty
MovesMoney(q) == session[q].inv # NoInvoice
MoneyMoves    == sweep.on \/ \E q \in Sessions : MovesMoney(q)

Race(o)  == raced' = IF Busy(o) THEN raced \cup {o} ELSE raced
Quiet(o) == Race(o) /\ UNCHANGED <<mode, closed, stale>>

Init ==
  /\ order = [o \in Orders |-> [status |-> IF o \in Plain THEN "confirmed" ELSE "draft",
                               stamped |-> FALSE]]
  /\ invoice = [i \in InvIds |-> "none"]
  /\ balance = 0
  /\ session = [q \in Sessions |-> Idle]
  /\ batch = [b \in Batches |-> Resting]
  /\ sweep = NoSweep
  /\ mode \in Modes
  /\ closed = FALSE
  /\ raced = {} /\ stale = {} /\ drifted = FALSE
-----------------------------------------------------------------------------
(* Requests: from the first read to the commit *)

Begin(q, o, x) ==
  /\ session[q] = Idle
  /\ session' = [session EXCEPT ![q] = x]
  /\ drifted' = (drifted \/ (x.inv # NoInvoice /\ MoneyMoves))
  /\ sweep' = IF x.inv = NoInvoice THEN sweep ELSE [sweep EXCEPT !.alone = FALSE]
  /\ Quiet(o)
  /\ UNCHANGED <<invoice, balance, batch>>

(* Mutants: the invoices are not asked for; nor is the delivery. *)
UndoableBilled(o) == ~order[o].stamped
UndoableDelivered(o) == Live(o) = {}

(* undo_confirm_blocker *)
Undoable(o) == ~order[o].stamped /\ Live(o) = {}

(* update_sales_order: the graph, and for confirmed -> draft the blocker.  *)
(* A word the order has already is not written.                            *)
Patch(q, o, word) ==
  /\ word \in Allowed[order[o].status]
  /\ order[o].status = "confirmed" /\ word = "draft" => Undoable(o)
  /\ Begin(q, o, Plainly("patch", o, word))
  /\ UNCHANGED order

(* Invoices that are being made count against the bound. *)
Room(o) ==
  Cardinality(Of(o)) + Cardinality(InCall(o))
    + Cardinality({q \in Touching(o) : session[q].op = "create"}) < MaxInvoices

(* Mutant: a draft does not count as an invoice. *)
MayInvoiceUnposted(o, status) ==
  /\ status \notin {"draft", "cancelled"} /\ ~closed /\ Room(o)
  /\ \A i \in Of(o) : invoice[i] \in {"draft", "void"}

(* The guards of create_invoice_from_order, the status being what the      *)
(* caller's session has it for.                                            *)
MayInvoice(o, status) ==
  status \notin {"draft", "cancelled"} /\ Live(o) = {} /\ ~closed /\ Room(o)

Creating(o) == Plainly("create", o, "same")

CreateFromOrder(q, o) ==
  /\ MayInvoice(o, order[o].status)
  /\ Begin(q, o, Creating(o))
  /\ UNCHANGED order

(* approve_invoice, each of the bulk approval, a PATCH of a draft to sent  *)
(* or open, the e-mail of a draft: the one posting moment.                 *)
Approve(q, i) ==
  /\ invoice[i] = "draft"
  /\ Begin(q, i[1], Paying("open", i, "same", 1))
  /\ UNCHANGED order

(* Mutant: the void of a draft takes off what was never posted. *)
VoidOfDrafts(q, i) ==
  /\ invoice[i] \in {"draft", "open"}
  /\ Begin(q, i[1], Paying("void", i, "same", -1))
  /\ UNCHANGED order

(* void_invoice: nothing paid on it, and only what was posted comes off.   *)
Void(q, i) ==
  /\ invoice[i] \in {"draft", "open"}
  /\ Begin(q, i[1], Paying("void", i, "same", IF invoice[i] = "open" THEN -1 ELSE 0))
  /\ UNCHANGED order

(* create_customer_payment for the whole invoice, which completes its      *)
(* order.  It is refused while the period is locked.                       *)
Pay(q, i) ==
  LET word == IF order[i[1]].status \in {"cancelled", "completed"} THEN "same" ELSE "completed"
  IN
  /\ invoice[i] = "open" /\ ~closed
  /\ Begin(q, i[1], Paying("paid", i, word, -1))
  /\ UNCHANGED order

(* A driver's stop, of any order that is not over. *)
CompleteStop(q, o) ==
  /\ order[o].status \notin {"completed", "cancelled"}
  /\ Begin(q, o, Plainly("stop", o, "delivered"))
  /\ UNCHANGED order

Stamp(o) == order' = [order EXCEPT ![o].stamped = TRUE]

(* The office completes the delivery, which stamps the order whatever its  *)
(* status.  Invoicing at once follows in the same request, unless the      *)
(* order ever had an invoice, or a guard refuses it.                       *)
CompleteDelivery(q, o) ==
  /\ session[q] = Idle
  /\ Stamp(o)
  /\ session' = IF mode = "immediate" /\ Of(o) = {} /\ MayInvoice(o, order[o].status)
                THEN [session EXCEPT ![q] = Creating(o)] ELSE session
  /\ Quiet(o)
  /\ UNCHANGED <<invoice, balance, batch, sweep, drifted>>

(* What a commit leaves of the balance: the row was read when the request  *)
(* began, or later and then as it is now.                                  *)
Posted(x) == IF x.delta = 0 THEN {balance} ELSE {x.seen + x.delta, balance + x.delta}

NewInvoice(o) ==
  /\ Unused(o) # {}
  /\ invoice' = [invoice EXCEPT ![CHOOSE i \in Unused(o) : TRUE] = "draft"]

Settle(x) ==
  invoice' = IF x.inv = NoInvoice THEN invoice ELSE [invoice EXCEPT ![x.inv] = x.op]

Commit(q) ==
  LET x == session[q] IN
  /\ Acting(q)
  /\ session' = [session EXCEPT ![q] = Idle]
  /\ order' = IF x.word = "same" THEN order
              ELSE [order EXCEPT ![x.order].status = x.word,
                                 ![x.order].stamped = @ \/ x.op = "stop"]
  /\ IF x.op = "create" THEN NewInvoice(x.order) ELSE Settle(x)
  /\ balance' \in Posted(x)
  /\ UNCHANGED <<batch, sweep, mode, closed, raced, stale, drifted>>

(* A request that raises, or whose process dies, has written nothing. *)
Abort(q) ==
  /\ Acting(q)
  /\ session' = [session EXCEPT ![q] = Idle]
  /\ UNCHANGED <<order, invoice, balance, batch, sweep, mode, closed, raced, stale, drifted>>
-----------------------------------------------------------------------------
(* Requests that decide on nothing they read *)

Rest == UNCHANGED <<balance, session, batch, sweep, drifted>>

(* A bound: not everything goes wrong with an order at once. *)
Spared(o) == o \notin raced

(* update_invoice with a status that says "void": the word changes, the    *)
(* money does not.  Once between two repairs (a bound).                    *)
PatchInvoice(i) ==
  /\ invoice[i] = "open" /\ ~drifted /\ Spared(i[1])
  /\ invoice' = [invoice EXCEPT ![i] = "void"]
  /\ drifted' = TRUE
  /\ sweep' = [sweep EXCEPT !.alone = FALSE]
  /\ Quiet(i[1])
  /\ UNCHANGED <<order, balance, session, batch>>

(* create_invoice with a sales_order_id: the order is not looked at, the   *)
(* period is.                                                              *)
DirectInvoice(o) ==
  /\ ~closed /\ Room(o) /\ NewInvoice(o) /\ Spared(o)
  /\ raced' = raced \cup {o}
  /\ Rest /\ UNCHANGED <<order, mode, closed, stale>>

(* mark_as_spring_burial from any status, and schedule_spring_burial and   *)
(* remove_spring_burial back to confirmed, from any status too.            *)
SpringBurial(o, word) ==
  /\ word \in {"spring_burial", "confirmed"} \ {order[o].status}
  /\ order' = [order EXCEPT ![o].status = word]
  /\ Quiet(o) /\ Rest /\ UNCHANGED invoice

(* PeriodLockService.lock_period and unlock_period.  The lock comes while  *)
(* no request is under way and nothing overlapped (a bound), and goes      *)
(* whenever it likes.                                                      *)
LockPeriod ==
  /\ closed \/ (raced = {} /\ ~drifted /\ ~sweep.on /\ \A q \in Sessions : ~Acting(q))
  /\ closed' = ~closed
  /\ Rest /\ UNCHANGED <<order, invoice, mode, raced, stale>>
-----------------------------------------------------------------------------
(* The end-of-day batch *)

BatchFrame == UNCHANGED <<balance, session, sweep, mode, closed, drifted>>

(* An order that ever had an invoice is left out, one with a void invoice  *)
(* too.                                                                    *)
Due(o) == /\ Of(o) = {}
          /\ order[o].status \in IF mode = "driver" THEN DriverConfirmed ELSE Invoiceable

(* Mutant: only what a driver confirmed is selected, whatever the mode. *)
SelectConfirmed(b) ==
  LET due == {o \in Orders : Due(o) /\ order[o].status \in DriverConfirmed} IN
  /\ batch[b].pc = "idle" /\ mode \in {"auto", "driver"} /\ due # {}
  /\ batch' = [batch EXCEPT ![b] = [Resting EXCEPT !.pc = "loop", !.todo = due,
                                      !.seen = [o \in Orders |-> "delivered"]]]
  /\ BatchFrame /\ UNCHANGED <<order, invoice, raced, stale>>

Select(b) ==
  LET due == {o \in Orders : Due(o)} IN
  /\ batch[b].pc = "idle" /\ mode \in {"auto", "driver"} /\ due # {}
  /\ batch' = [batch EXCEPT ![b] =
       [Resting EXCEPT !.pc = "loop", !.todo = due,
                       !.seen = [o \in Orders |-> IF o \in due THEN order[o].status
                                                  ELSE "draft"]]]
  /\ BatchFrame /\ UNCHANGED <<order, invoice, raced, stale>>

(* The session has the status of the selection until its first commit, and *)
(* then reads it anew.  Whatever it is, in auto mode it is overwritten     *)
(* unless it says the driver was there; the guard then sees the new word.  *)
Call(b, o) ==
  LET known == IF batch[b].made THEN order[o].status ELSE batch[b].seen[o]
      marks == mode = "auto" /\ known \notin DriverConfirmed
      goes  == MayInvoice(o, IF marks THEN "delivered" ELSE known)
  IN
  /\ batch[b].pc = "loop" /\ o \in batch[b].todo
  /\ batch' = [batch EXCEPT ![b].todo = @ \ {o}, ![b].seen[o] = "draft",
                            ![b].dirty = IF marks THEN @ \cup {o} ELSE @,
                            ![b].pc = IF goes THEN "call" ELSE "loop",
                            ![b].order = IF goes THEN o ELSE NoOrder]
  /\ stale' = IF known # order[o].status THEN stale \cup {o} ELSE stale
  /\ Race(o)
  /\ BatchFrame /\ UNCHANGED <<order, invoice>>

(* Mutant: the word of the agents' jobs. *)
DeliveredMisspelt(S) ==
  [o \in Orders |-> IF o \in S THEN [status |-> "complete", stamped |-> TRUE] ELSE order[o]]

Delivered(S) == [o \in Orders |-> IF o \in S THEN [status |-> "delivered", stamped |-> TRUE]
                                  ELSE order[o]]

(* The commit of one invoice, with every status set so far. *)
BatchMakes(b) ==
  /\ batch[b].pc = "call"
  /\ NewInvoice(batch[b].order)
  /\ order' = Delivered(batch[b].dirty)
  /\ batch' = [batch EXCEPT ![b].pc = "loop", ![b].order = NoOrder, ![b].dirty = {},
                            ![b].made = TRUE, ![b].seen = Resting.seen]

BatchCommit(b) == BatchMakes(b) /\ BatchFrame /\ UNCHANGED <<raced, stale>>

(* The new invoice is read back and marked a draft, in a commit of its own *)
(* if it was read as something else: an approval that came between the two *)
(* commits, here with them in one step, loses its word and keeps its money. *)
BatchOverwrites(b) ==
  /\ BatchMakes(b)
  /\ \E q \in Sessions : ~Acting(q)
  /\ raced' = raced \cup {batch[b].order}
  /\ balance' = balance + 1
  /\ drifted' = TRUE
  /\ sweep' = [sweep EXCEPT !.alone = FALSE]
  /\ UNCHANGED <<session, mode, closed, stale>>

(* The last commit is made only if some invoice was. *)
BatchEnd(b) ==
  /\ batch[b].pc = "loop" /\ batch[b].todo = {}
  /\ order' = IF batch[b].made THEN Delivered(batch[b].dirty) ELSE order
  /\ batch' = [batch EXCEPT ![b] = Resting]
  /\ BatchFrame /\ UNCHANGED <<invoice, raced, stale>>

BatchDies(b) ==
  /\ batch[b].pc # "idle"
  /\ batch' = [batch EXCEPT ![b] = Resting]
  /\ BatchFrame /\ UNCHANGED <<order, invoice, raced, stale>>
-----------------------------------------------------------------------------
(* The nightly reconciliation of the balance *)

SweepFrame == UNCHANGED <<order, invoice, session, batch, mode, closed, raced, stale>>

(* Where the balance agrees with the invoices nothing is written. *)
SweepLook ==
  /\ ~sweep.on /\ balance # Owed
  /\ sweep' = [on |-> TRUE, sum |-> Owed, alone |-> ~MoneyMoves]
  /\ drifted' = (drifted \/ MoneyMoves)
  /\ SweepFrame /\ UNCHANGED balance

(* Mutant: a balance is only ever corrected upwards. *)
SweepCommitUpwards ==
  /\ sweep.on
  /\ sweep' = NoSweep
  /\ balance' = IF sweep.sum > balance THEN sweep.sum ELSE balance
  /\ drifted' = (drifted /\ ~sweep.alone)
  /\ SweepFrame

SweepCommit ==
  /\ sweep.on
  /\ sweep' = NoSweep
  /\ balance' = sweep.sum
  /\ drifted' = (drifted /\ ~sweep.alone)
  /\ SweepFrame
-----------------------------------------------------------------------------
BatchStep(b) ==
  \/ Select(b) \/ (\E o \in Orders : Call(b, o))
  \/ BatchCommit(b) \/ BatchEnd(b)

Next ==
  \/ \E q \in Sessions :
       \/ Commit(q) \/ Abort(q)
       \/ \E o \in Orders \ Plain :
            \/ CreateFromOrder(q, o) \/ CompleteStop(q, o) \/ CompleteDelivery(q, o)
            \/ \E word \in Words : Patch(q, o, word)
            \/ \E i \in Of(o) : Approve(q, i) \/ Void(q, i) \/ Pay(q, i)
  \/ \E o \in Orders \ Plain :
       \/ DirectInvoice(o)
       \/ \E i \in Of(o) : PatchInvoice(i)
       \/ \E word \in {"spring_burial", "confirmed"} : SpringBurial(o, word)
  \/ \E b \in Batches :
       \/ BatchStep(b) \/ BatchDies(b)
       \/ batch[b].order \notin Plain /\ BatchOverwrites(b)
  \/ SweepLook \/ SweepCommit \/ LockPeriod

Spec == Init /\ [][Next]_vars

(* Requests end; the scheduler starts the batch and the reconciliation     *)
(* every night, and both go through all they selected.                     *)
FairSpec == /\ Spec
            /\ \A q \in Sessions : WF_vars(Commit(q) \/ Abort(q))
            /\ \A b \in Batches : WF_vars(Select(b)) /\ WF_vars(BatchEnd(b))
            /\ \A b \in Batches : SF_vars(BatchCommit(b))
            /\ \A b \in Batches, o \in Orders : SF_vars(Call(b, o))
            /\ WF_vars(SweepLook) /\ WF_vars(SweepCommit)
-----------------------------------------------------------------------------
(* Properties *)

TypeOK ==
  /\ order \in [Orders -> [status : Status, stamped : BOOLEAN]]
  /\ invoice \in [InvIds -> {"none", "draft", "open", "paid", "void"}]
  /\ balance \in Int
  /\ session \in [Sessions ->
       [order : Orders \cup {NoOrder}, inv : InvIds \cup {NoInvoice}, delta : {-1, 0, 1},
        op : {"idle", "patch", "create", "open", "void", "paid", "stop"}, seen : Int,
        word : Status \cup {"same"}]]
  /\ batch \in [Batches ->
       [pc : {"idle", "loop", "call"}, order : Orders \cup {NoOrder}, todo : SUBSET Orders,
        dirty : SUBSET Orders, made : BOOLEAN, seen : [Orders -> Status]]]
  /\ sweep \in [on : BOOLEAN, sum : Int, alone : BOOLEAN]
  /\ mode \in Modes /\ closed \in BOOLEAN
  /\ raced \subseteq Orders /\ stale \subseteq Orders
  /\ drifted \in BOOLEAN

(* One order, one invoice: unless two calls on it overlapped, or one made  *)
(* an invoice for it directly, an order has at most one live invoice -     *)
(* however often it was voided and issued anew, undone and confirmed,      *)
(* parked, delivered, or selected by the batch long before its turn came.  *)
OneLiveInvoice ==
  \A o \in Orders \ raced :
    \A i, k \in Live(o) : i = k

(* An order that looks unconfirmed has not been billed, unless calls on it *)
(* overlapped or the batch went by a status the order no longer had.       *)
DraftIsUnbilled ==
  \A o \in Orders \ (raced \cup stale) :
    order[o].status = "draft" => Live(o) = {}

(* The customer's balance is what is owed, but for calls that overlapped   *)
(* since the reconciliation was last at it undisturbed.                    *)
BalanceFollows == ~drifted => balance = Owed

(* An order that was delivered does not go back to draft, by whatever word *)
(* it was parked or confirmed since - unless two calls on it overlapped.   *)
DeliveryIsNotUndone ==
  [][\A o \in Orders : order[o].stamped /\ o \notin raced' /\ order[o].status # "draft"
       => order'[o].status # "draft"]_vars

(* An order that should be billed is, although batches die halfway, calls  *)
(* come in between and some orders of a batch are refused - all of them    *)
(* while the period is locked.  So wherever the lock is off for good, no   *)
(* due order is left behind, those refused under it included.              *)
DueIsBilled ==
  \A o \in Orders : mode \in {"auto", "driver"} /\ Due(o) ~> ~Due(o) \/ closed

(* Whatever overlapping calls did to the balance, once the customer's      *)
(* invoices rest the reconciliation leaves it right, and for good.         *)
DriftIsRepaired ==
  <>[](\A q \in Sessions : ~MovesMoney(q)) => <>[](balance = Owed)
=============================================================================
