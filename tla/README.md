# A formal model of SunnycrestERP

SunnycrestERP is a multi-tenant ERP for burial-vault manufacturers and funeral
homes: a FastAPI backend over PostgreSQL (`backend/app`), a worker process, an
in-process scheduler and a React client. This directory models the part of it
where a mistake costs money and where tests reach least: the receivables
subledger with its ledger entries and its nightly auditor, the way from an order
to its invoice while requests and the nightly batch overlap, the approval of
accounting closes with the period locks it leaves, and the queue of background
jobs. Line numbers below are of
`src/backend/app/services/sales_service.py` unless a file is named.

## The system

| component | state | operations | hard behaviour | what makes it correct |
|---|---|---|---|---|
| receivables (`sales_service.py`, `ar_balance.py`) | invoices, payments with application rows, credit memos, `current_balance`, `credit_balance` | issue, PATCH, void, write off, reinstate, credit, pay, import, void or return a payment, apply and disburse credit | eight verbs move one running balance by hand; long legal sequences; requests that interleave without row locks | the running balance is the sum of what is owed; what was paid and credited is backed by live documents; credit is spent once |
| reconciliation (`proactive_agents.py`) | `current_balance` | the nightly sweep | drift of unknown origin; its own read and commit are apart | every drift is corrected |
| cash receipts (`cash_receipts_adapter.py`, `cash_receipts_agent.py`) | application rows | automatic and approved matches | writes beside the payment verbs | same law as payments |
| journal (`journal_entry_service.py`, `ar_*_posting.py`, `early_payment_discount_service.py`) | entry status, the references of documents to entries | book, post, reverse, void | undo of up to two entries, refused half-way by a period lock | no entry stands behind an undone document |
| period lock (`agents/period_lock.py`) | active date ranges | lock, unlock, what a month or a day is shown as | check and insert without a constraint; ranges that overlap in part; lock racing a posting | nothing is booked in a locked period; what is shown is what is enforced |
| agent jobs (`agents/agent_runner.py`, `base_agent.py`, `approval_gate.py`, `month_end_close_adapter.py`) | job status, approval token, background task | create, run, approve, reject, by mail or in the triage queue | two verdicts at once; an approval commits up to three times on its way, or rolls back half-way and goes on; restarts | a close stands behind one lock; one verdict is one verdict; no job is stranded without a crash |
| sales orders (`sales_order_transitions.py`, `order_integration_service.py`) | order status, `delivered_at` | transitions, confirmation and its undo, invoicing, completion on payment, spring burials | two invoicings at once; undo against delivery; several doors to one status | one live invoice per order; no draft is billed; a delivery is not undone |
| end-of-day invoicing (`draft_invoice_service.py`) | the loop's selection | select, then call by call | acts on what it selected before its first commit; dies half-way | what is due is billed in the end |
| delivery (`delivery_service.py`, `driver_mobile_service.py`) | its order's status | complete a stop, complete a delivery | writes the order beside the graph | see sales orders |
| background jobs (`job_queue_service.py`, `worker.py`) | job rows, Redis sorted set, dead-letter list | enqueue, dequeue, complete, fail, retry | two stores without a common transaction, several workers, crashes, Redis outages | no job is lost, none runs twice at once |
| workflow engine, the other scheduled jobs, accounts payable, bank reconciliation, inventory, signing, tasks, feeds, documents, user interface | their own tables | see `PROJECT.json` | | not modelled yet, or outside the scope; the reason is in `PROJECT.json` |

Components share the database and call each other as Python functions; nothing
but the job queue passes messages. A service call is one transaction that
commits at its end, so a call that raises leaves nothing behind; the exceptions
are the approval of a close and the invoice batch, which commit on their way. No
call locks the rows it reads (`with_for_update` appears only in the job queue and
the licensee transfer). Sessions do not flush by themselves (`autoflush=False`,
`database.py`), PostgreSQL runs at READ COMMITTED.

Three views of one system. `Receivables` takes every call as one step and follows
the money through all its documents. `OrderBilling` takes fewer calls and splits
them where others can come in between. `AgentApproval` splits them further, at
each flush that takes a row lock and each commit. A property is stated in the
view in which the code could break it.

## Modules

**`Sums`** - `SumTo(f, n)`, the total of a sequence of integers, a recursive
function. **`SumsProofs`** - what the receivables proofs need of it: a total of
integers is an integer, totals add pointwise, a total of naturals bounds each of
its terms, two sequences that differ in one place differ by that much.

**`Receivables`** - the subledger. One action per service call, from its
refusals to its commit:

| action | code |
|---|---|
| `CreateInvoice` | `create_invoice`, `create_invoice_from_order` |
| `IssueInvoice` | `post_invoice_to_ar` with `post_invoice`, as called by the PATCH to sent or open, `approve_invoice`, the bulk approval and the e-mail of a draft |
| `PatchInvoice` | `update_invoice`, the other status words |
| `VoidInvoice`, `WriteOffInvoice`, `ReinstateInvoice`, `HonorDiscount` | the functions of those names |
| `CreateCreditMemo`, `VoidCreditMemo` | the functions of those names |
| `CreatePayment`, `ImportPayment` | `create_customer_payment`, `import_sage_payments_from_csv` |
| `VoidPayment`, `ReturnPayment` | `_unwind_payment` and its two callers |
| `ApplyCredit`, `DisburseCredit` | the two doors of the credit pocket |
| `MatchCashReceipt`, `AdjustBalance`, `Sweep` | the three writers outside the verbs |
| `ApplyDiscount`, `BookInvoiceEntry`, `BookPaymentEntry`, `LockPeriod` | the ledger side |

Abstractions. Amounts are whole cents. What an invoice, a payment or a row of a
payment may come to is a `Figures`: an amount, zero, and with the act `below_zero`
its negative, because their schemas ask for a number and no handler for its sign;
the other verbs refuse what is not above zero and draw from `Amounts`. `sent` stands for every issued, unsettled
status word (sent, open, posted, overdue): no handler tells them apart. The
application rows of a payment are summed per invoice, and rows that come to
nothing, which move no money, are not kept. An entry is its status
only. All documents are dated today, so the period lock is one bit; a lock of
another period affects none of these calls. Rows that do not exist have state
`none`, and ids are used in order. Numbering, audit rows, alerts and e-mail are
left out. `discount` is the invoice's `discount_amount`; `stranded` records that
a payment lost sight of a posted discount entry.

**`CustomerAccounts`** - what the subledger promises of one customer's account,
without documents: what is owed, the credit held, the money taken. An event bills
or unbills, receives money (which settles debt or becomes credit, up to a cent),
takes it back, uses credit for debt or refunds it, for one customer at a time, and
neither debt nor credit goes below zero. `Receivables!KeepsAccounts` reads these
off `current_balance`, `credit_balance`, and the totals of the standing payments
less what was disbursed.

**`MCReceivables`** - the instances for TLC. **`ReceivablesProofs`**,
**`BalanceProofs`**, **`SettlementProofs`**, **`LedgerProofs`** - the theorems.

**`JobQueue`** - the background jobs: the `jobs` table (`row`), the Redis sorted
set beside it (`queue`, and `up`: Redis answers), the requests under way
(`client`) and the workers (`worker`). A step is what happens between two
accesses to a shared store, because the table and the set have no common
transaction:

| action | code (`job_queue_service.py` unless named) |
|---|---|
| `Enqueue`, then `Commit` or `Abort` | `enqueue`: flush and `zadd` (71-81), commit (83) |
| `Revive`, then `Commit` or `Abort` | `retry_dead_job`: query and `zadd` (203-219), commit (223) |
| `Look`, `Remove`, `Find` | `dequeue` through Redis: `zrangebyscore` (105), `zrem` (111), the query for the row (112) |
| `Poll` | `dequeue` in the table: `FOR UPDATE SKIP LOCKED` (121-131); the lock is held until the claim |
| `Claim` | status `running` and the commit, of both ways (113-116, 132-135) |
| `Complete` | `complete_job` |
| `Fail`, then `FailCommit` | `fail_job`: the decision and `zadd` (155-173), commit (175, 192) |
| `Lose` | a worker that dies, or whose handler leaves the session in a failed transaction, so that `fail_job` raises into `worker.py:68` |
| `Tick`, `RedisChange` | a scheduled time passes; Redis goes away, or comes back with or without its data |

Abstractions. Two priorities; among equals the order by time is left open. A
scheduled time is one bit, `due`. What a job does is its verdict. The
dead-letter list in Redis is left out: only statistics read it. `attempts`
counts the starts of a job since it was last enqueued or revived. `raced` keeps
the jobs that two requests revived at once, or that two workers picked at once;
no guard reads it, it only records, for the properties.

**`WorkQueue`** - what such a queue promises: a submitted job is queued, taken by
one worker at a time, then finished, queued again or buried; only a buried job
is revived. Two that reach for a job at once (`Clash`, possible only while nobody
carries it out) end the promise for that job. `JobQueue!KeepsPromise` reads `state`
and `holders` off the rows, the workers and `raced`. **`JobQueueProofs`** - the theorems.

**`PeriodLocks`** - a range of days, when two overlap, when one holds a day, what
a month is shown as, what the open buttons leave (`agents/period_lock.py`,
`accounting/period_projection.py`). No state: pure operators over any calendar.

**`AgentApproval`** - agent jobs from creation to verdict, and the table of locks:

| action | code |
|---|---|
| `CreateJob`, `RunClosePipeline` | `AgentRunner.create_job` with its checks; the workflow step of the month-end adapter, which has none |
| `StartRun`, `EndRun`, `OpenGate`, `GateFails` | `base_agent.py`: running, the outcome's commit, the token's commit after it, and the handler for its failure |
| `Begin` | `process_approval` (`approval_gate.py`) or the triage action, up to the checks |
| `Reject`, `ApproveSimple` | `_process_reject`; `_process_approve` of anything but a real close |
| `Flush`, `StatementsKept` / `StatementsMade` / `StatementsFailed` / `StatementsCollide`, `RecordStatements` | `_process_approve` of a real close: the first flush, the four ways the statement run ends, the flush of what came of it |
| `LockCheck`, `LockInsert`, `Finish` | `lock_period`: overlap query, insert and commit; then the last commit |
| `CloseMonth`, `CloseMonthCommit`, `OpenMonth`, `UnlockPeriod` | the period screens and the agents' page |
| `TaskDies`, `RequestDies` | a restart, or an error that leaves the session unusable |

`req[r].pc` says how far a verdict is; at the places in `Holding` it has updated
the job's row and not committed, so no other session can (`Free`). `dirty` says
that the approval is still to be committed: whoever commits next takes it along.
`reopened` (days an administrator released), `disturbed` (jobs that had two
verdicts at once, or lost one) and `crashes` only record, for the properties.
Abstractions: the 72 hours of a token are left open (an old one may be refused at
any time); that a period has ended and has no statement run refuses more jobs and
is left out; every job has a period, though a close that somehow had none would be
approved without statements and without a lock (`approval_gate.py:251-255`); of the statements only the commits and rollbacks are kept; rows of
`period_locks` are drawn from `LockIds`, and the screens leave one for each job.
**`MCAgentApproval`** - the instance for TLC. **`ApprovalProofs`** - the theorems.

**`OrderBilling`** - orders, their invoices and the customer's balance, with
overlapping requests:

| action | code |
|---|---|
| `Patch` | `update_sales_order` with `sales_order_transitions` (`Allowed`, `Undoable`) |
| `CreateFromOrder`, `Approve`, `Void`, `Pay` | `create_invoice_from_order`, the posting moment, `void_invoice`, `create_customer_payment` with the completion of the order |
| `CompleteStop`, `CompleteDelivery` | the driver's stop; the office's delivery with the invoice at once |
| `Commit`, `Abort` | the end of each of these |
| `LockPeriod` | `PeriodLockService.lock_period` and `unlock_period` for a range that holds today: one bit, `closed` |
| `PatchInvoice`, `DirectInvoice`, `SpringBurial` | `update_invoice` to void, `create_invoice`, `spring_burial_service.py`: they decide on nothing they read, so one step |
| `Select`, `Call`, `BatchCommit`, `BatchEnd`, `BatchDies` | `generate_draft_invoices`: the query, one turn of the loop up to its commit, the commits, the end |
| `BatchOverwrites` | a turn of the loop whose new invoice was approved between its commit and the mark `draft` (505, 628), which goes out with the commit of the activity log |
| `SweepLook`, `SweepCommit` | the reconciliation of the customer: the sum, then the write |

A session is the writes it is about to commit: nothing is flushed before the
commit, and columns it did not assign are not written. A balance is written as
the row was when it was read, which is when the request began or later, so
`Posted` has two outcomes. The batch's session keeps the statuses of its
selection until its first commit, then reads them anew; statuses it set ride on
the next commit, whichever order that is for (`dirty`). While the period is `closed`,
the invoicings and `create_customer_payment` are refused, the batch's one by one
(538, 661), so the whole night's orders wait for another night; approvals and voids
go through, their entries are `Receivables`' matter. `BatchOverwrites` has the
approval wholly between the batch's two commits, in one step with them. `raced` (orders on which
calls overlapped, or that were invoiced past the guards), `stale` (orders the
batch judged by a status they no longer had) and `drifted` (calls that move money
overlapped since the last undisturbed repair) only record. Abstractions: one
customer and totals of 1, because partial settlement is `Receivables`' matter; an
order has its delivery when asked for one, and its service date has come.
**`BillingProofs`** - the theorems.

### Calls that break the law

Fourteen calls are accepted by the code although the balance law, or another
property, does not survive them. Each is enabled only if its name is in the
constant `Acts`, with the guard at the place where the code has none; `ActNames`
describes them. So each property is checked over every call that respects it,
and adding one name to `Acts` in a configuration makes TLC print how that call
breaks it:

| act | breaks | where |
|---|---|---|
| `honor_ineligible` | `BalanceLaw` | 2944-2976 refuses only a paid invoice |
| `honor_discount` | `PaidIsBacked` | the undo of a payment clears the discount column and keeps the forgiven part in `amount_paid` (2716) |
| `patch_draft`, `patch_issued` | `BalanceLaw` | 1033, 1044: any status word is assigned |
| `void_memo_of_void` | `BalanceLaw` | 1309 refuses only a written-off invoice |
| `pay_written_off` | `BalanceLaw` | 1372 assigns `written_off_amount` a second time |
| `pay_other_customer` | `BalanceLaw` | 1791 checks the company only |
| `pay_twice_in_one` | `NeverOverSettled` | 1790-1816 compares each row alone |
| `below_zero` | `BalanceLaw`, `PaidIsBacked`, `NeverOverSettled`, `PaidMeansSettled`, `VoidedInvoiceUntouched`, `KeepsAccounts` | 1789-1816 compares a row with the payment and the balance, never with zero, and `schemas/sales.py:334-336, 355-362` take any number. Pay -5 on an invoice of 10, void the invoice (1119 sees nothing paid) and the payment: the balance is -5. Pay -5 and 15, void the first: 15 paid of 10. Pay -5 and 3, void the second: the floor of 2713 forgets the first |
| `cash_receipts`, `adjust_balance` | `BalanceLaw` | the writers outside the verbs |
| `float_cent` | `PocketLaw` | 1888 compares floats, 2695 compares decimals |
| `discount_undone`, `discount_twice` | `LedgerFollows` | `early_payment_discount_service.py:169`, `:208` |

What a figure below zero does not break is proved with it: the ledger entries
(`LedgerFollowsHolds`, `ClosedPeriodHolds`), the memos (`CreditedHolds`) and the
pocket (`PocketHoldsLaw`). Whatever all these calls do to the running balance, `DriftIsCorrected` shows that the
nightly job repairs it; it repairs nothing else.

## Runs

Deadlock is not checked for the receivables and the approvals: rows are never
deleted, so a finite set of documents or jobs is eventually used up, and the
system may then stop. It is checked for the job queue, where workers loop for
ever, and for the orders, which can always be parked and confirmed again.

| run | instance | shows |
|---|---|---|
| `law` | 1 customer, 2 invoices, 2 payments, 1 memo, amounts {1, 3}, eligible discounts | `BalanceLaw`, `NeverOverSettled`, `PaidMeansSettled`, `VoidedInvoiceUntouched` in 2.4 million states |
| `backing` | 2 customers (symmetric), 2 invoices, 1 payment, 1 memo, amounts {1, 2, 3} | `PaidIsBacked`, `CreditedIsBacked`, `PocketLaw`, `KeepsAccounts` in 392 thousand states |
| `ledger` | 1 invoice, 2 payments, entries booked or not, lock and unlock | `LedgerFollows`, `ClosedPeriodFrozen` in 2.6 million states |
| `drift` | every act, 2 customers, one document of each kind, figures below zero | `TypeOK`; `DriftIsCorrected` in 289 thousand states |
| `rewrite_off` | `pay_written_off` | violation: pay, write off, return, pay, write off again loses the first `written_off_amount` |
| `memo_then_pay` | no act | violation: an invoice credited in part and paid for the rest stays `partial` |
| `discount_undone` | `discount_undone` | violation: a posted entry behind a voided payment |
| `jobs_polling` | no Redis, 3 jobs (1 urgent), 2 workers, 2 attempts, 2 requests, 2 revivals, 1 crash | `TypeOK`, `ClaimIsExclusive`, `AttemptsBounded`, `OnlyCrashesStrand`, `OnlyRequestsRace`, `DelayHonoured`, `KeepsPromise` in 790 thousand states |
| `jobs_redis` | Redis, 2 jobs, 2 workers, 2 attempts | `OnlyCrashesStrand` (no crash, so no job is ever left `running` by nobody), `ClaimIsExclusive`, `AttemptsBounded`, `KeepsPromise`, `EveryJobSettles` in 855 thousand states |
| `jobs_delay` | Redis, 1 worker | violation: a delayed job is started at once |
| `close_approval` | a month of 2 days, 1 job for it or its first day, close or findings, real or dry, 2 requests, 3 locks, 1 crash | `TypeOK`, `OneLockPerJob`, `CloseIsLocked`, `VerdictIsOne`, `OnlyCrashesStall`, `VerdictIsFinal`, `EveryVerdictEnds`, `EveryJobIsOffered` in 104 thousand states |
| `orders` | 2 orders (one left to the batch), 1 request, 1 batch, 1 reconciliation, 2 invoices each, three invoicing modes, the period locked and unlocked | `TypeOK`, `OneLiveInvoice`, `DraftIsUnbilled`, `BalanceFollows`, `DeliveryIsNotUndone`, `DueIsBilled`, `DriftIsRepaired` in 384 thousand states |

Bounds. Two invoices let a payment be split and let the void of one document
meet another's balance; two payments let one undo meet the other's money; the
amounts make a one-cent leftover (dropped), a two-cent leftover (pocketed) and an
exact settlement possible. `MaxApplied` and `MaxBalance` cap what could add for
ever (a match, an adjustment, and a discount honored on a void invoice again and
again), and they are nonzero only where these calls are enabled. `below_zero` is
enabled in `drift` only: elsewhere it breaks what is checked, or, in `ledger`, has
too many states; there the theorems include it.
Two workers and an urgent job let a poll meet a locked row and a newcomer
overtake; two attempts let a job fail both ways; two requests let both revive one
dead job, and two workers behind Redis see one entry. `MaxRevivals` and `MaxCrashes`
cap the two causes that could recur for ever. Two requests are two verdicts on one
job, or a verdict and a period screen; the shorter range lets a lock cover a part
of the month. Two invoices per order let one be voided and made anew; the second
order, confirmed from the start (`Plain`), makes the batch commit one order's
status with another's invoice and act on a selection of before. The words a PATCH
may send are those that lead to an undo, a second confirmation and a
cancellation. `PatchInvoice` is taken once between two repairs, it and
`DirectInvoice` only on an order that is not raced yet (`Spared`). A lock comes
only while no request or reconciliation is under way and nothing overlapped, and
goes at any moment, also in the middle of a batch; a batch may be under way, or
dead half-way, when it comes. `BatchOverwrites` is taken only for an order that
requests touch. One request
already overlaps with the batch and the reconciliation; that two requests change
nothing is proved, for any number of them. Every passing run explores its state
space completely.

Fairness. `FairSpec` adds weak fairness of `Sweep(c)` for every customer: the
scheduler starts the reconciliation every night (`scheduler.py:394`) and it goes
through all active customers of the tenant. No other action of `Receivables` is
assumed fair. `JobQueue!FairSpec` adds weak fairness of each worker's loop
(`while not _shutdown`, `worker.py:46`), so handlers end, and of the passing of
scheduled times. Redis may change at any moment and need not ever be up;
requests need not finish. `AgentApproval!FairSpec` has strong fairness of each
job's task and of each verdict: the process carries both on, and what they wait
for, the lock of one row, PostgreSQL grants in the order of asking, so being able
to go on again and again is enough. Nobody is assumed to give a verdict, and no
crash is excluded but by `MaxCrashes`. `OrderBilling!FairSpec` has weak fairness
of each request's end, of the start of batch and reconciliation (both are nightly
jobs of `scheduler.py`) and of their ends, and strong fairness of the batch's
calls and commits: a batch may die any number of nights, but not every night at
the same place. No user's request is assumed to be made.

## Proofs

`ReceivablesProofs!TypeCorrect` (`Spec => []TypeOK`) holds for any number of
documents, any customers, amounts and acts, from `ReceivablesAssumption`. One
lemma per action; `SumToInt` and `SumToNat` type the totals. It contains that no
credit pocket goes below zero: `DisburseCredit`, `ApplyCredit` and `Unwind`
compare before they take. What invoices were paid is a natural number only where
`below_zero` is not enabled (`Money`); no guard of the code keeps it one.

`BalanceProofs!BalanceLawHolds` (`Spec => []BalanceLaw`) holds for any number of
customers, documents and amounts, when none of the acts in `LawBreakers` is
enabled; the table above says why each has to be excluded. The law alone is not
inductive. Undoing a payment takes what it applied off `amount_paid`, with a
floor of zero, and adds the change to the payer's balance; that is right only if

- `LivePaid`: an invoice was paid at least what the live payments applied to it,
  so the floor is never reached (a row below zero would reach it), and
- `LiveApps`: a live payment pays invoices of its own customer only;

and the void of a memo or of an invoice moves the right amount only if

- `InvoiceInv`: a draft is untouched, money stands on no void invoice, and only
  an invoice written off, or voided since, has an amount written off, and
- `MemoInv`: a live memo credits an invoice that was issued.

`IInv` is the conjunction with `TypeOK`. Most actions change one invoice and move
its customer's balance by the change of the open amount: `LawStepOne` says once
that such a step keeps the law, and each action's lemma shows that its handler
is such a step. The undo of a payment changes several invoices, whose changes
`SumsProofs` adds up (`UnwindLaw`).

`SettlementProofs` says what the amounts on an invoice consist of. Each theorem
excludes only the calls its argument cannot stand, which the table above lists:

| theorem | property | without the calls | inductive invariant |
|---|---|---|---|
| `CreditedHolds` | `CreditedIsBacked` | none | `CreditInv`: a posted memo has an invoice that exists, and a row not yet there has no credit, so a new row starts with what its memos add up to |
| `PaidHolds` | `PaidIsBacked` | `honor_discount`, `honor_ineligible`, `cash_receipts`, `below_zero` | `PaidInv`: what a row not yet there was paid is nothing, and no discount stands on any invoice |
| `PocketHoldsLaw` | `PocketLaw` | `cash_receipts`, `float_cent` | `PocketInv`: credit was applied to existing invoices only |
| `NeverOverHolds` | `NeverOverSettled` | `honor_ineligible`, `pay_twice_in_one`, `cash_receipts`, `below_zero` | itself: each step takes off an open amount at most what is there (`Settles`) |
| `PaidSettledHolds` | `PaidMeansSettled` | these and the PATCH of a status | with `NeverOverSettled` and `CreditInv`: a payment marks an invoice paid without a look at its credits, which is right because what its memos credited is never negative |

The backing of an amount is a sum over memos, payments or invoices; most steps
change one term of it, and a payment recorded or undone changes one term in the
sum of each invoice it pays.

`LedgerKeepsAccounts` (`KeepsAccounts`, the refinement of `CustomerAccounts`) is
where these meet. It excludes the calls that break the balance law or settle an
invoice past its total, `below_zero` among both. By `BalanceLaw` and `NeverOverSettled` every running
balance is a sum of open amounts that are not negative; by `Fits` a recorded
payment applies at most its total, so what is left of it goes into the pocket.
`OneEvent` says what it takes to be an event of one account, and one lemma per kind
of call (`BillEvent`, `RecordEvent`, `UnwindEvent` and those for the pocket) shows
that it is one.

`LedgerProofs` classifies every step once (`NextMoves`): an invoice is left,
opened, issued, restated, voided with its entry, or booked, and a payment
likewise. From that and `Unbooked` (no entry before its document) follow
`ClosedPeriodHolds` (`ClosedPeriodFrozen`, for all calls) and `LedgerFollowsHolds`
(`LedgerFollows`, without `patch_issued`, `discount_undone`, `discount_twice`, the
three ways past `_unwind_payment` and `void_invoice`). `ClosedPeriodHolds` is about entries only: a document without a posted entry may
still be issued, imported or undone while the period is closed.
`VoidedStaysUntouched` (`VoidedInvoiceUntouched`: the row of a void invoice does not
change again) needs `BalanceProofs` as well: no payment is undone on a void
invoice, for by `InvoiceInv` and `LivePaid` no live payment stands on it. A posted
memo may, and its void is the act `void_memo_of_void`.

`JobQueueProofs` holds for any number of jobs, workers, requests, retries,
revivals and crashes, with Redis or without. Three theorems are about the jobs
that are not `raced`: `ClaimsAreExclusive` (`ClaimIsExclusive`),
`AttemptsAreBounded` (`AttemptsBounded`) and `QueueKeepsPromise` (`KeepsPromise`,
the refinement of `WorkQueue`). What they say is that the two races are all there
is: a job pushed before its row is visible, pushed twice, brought back by a Redis
that returned with its data, taken by a poll or abandoned in a crash is still
carried out by one worker at a time. The inductive invariant is, for each such
job, `Undisputed`:

- `HeldByRequest`: a request's job is its alone, and one no worker can hold;
- `HeldByWorker`: a worker that has the job's row is alone with it, and the row is
  pending until the claim and running from there on;
- `Counted`: the retries of the row count its starts.

Each step either leaves a job alone (`NotConcerned`) or is taken by the one who
holds it. The refinement has one lemma per action: the commit is `Submit` or
`Revive`, the claim `Take`, the verdicts `Settle`, a crash `Abandon` or nothing,
what makes a job `raced` is `Clash`, and the rest is invisible.

Without Redis the races shrink. `PollsNeverRace` (`OnlyRequestsRace`): the row
lock of a poll lasts until its claim, so only requests ever make a job `raced`;
`PollingNeverRaces`: with one request under way at a time, nobody does, and the
three theorems are about every job. `PollingHonoursDelay` (`DelayHonoured`) needs
more than the lock, because a raced row may change under the worker that has it:
`Waited` says that a locked row is pending and due, locked once, and stays so
whatever a request commits on it. With Redis the property is false
(`jobs_delay`).

`JobQueueProofs!JobsTyped` (`TypeOK`) and `CrashesStrand` (`OnlyCrashesStrand`)
assume nothing: with Redis, any number of requests and two workers on one job, a
job that says running and is carried out by nobody is the work of a crash, for
the other ways to leave a job write another status with the same commit.

`ApprovalProofs` holds for any calendar, any jobs, requests and locks, and any
number of crashes, from `ApprovalAssumption` and `DaysAssumption`. Of the pure
operators: `OverlapIsASharedDay` (comparing ends finds the locks that share a
day), `ScreensAgree` (a month reads closed after a close button and open after an
open button) and `ShownIsEnforced` (a month shown as open or closed is so for a
writer on each of its days). Of the protocol: `ApprovalTyped`, `ApprovalLocksOnce`,
`ApprovalLocks` and `ApprovalIsOne`. `OneLockPerJob` is the interesting one. The
table has no constraint and `lock_period` asks before it inserts, so two
approvals of one job look as if both could insert. They cannot, because every way
to the overlap check passes an update of the job's row that is not committed
before the insert is: `Flush`, or `RecordStatements` after the statements'
commit or rollback gave the row away. The inductive invariant says that at most
one request is in `Holding` for a job and that a request at `insert` found no
lock that overlaps, hence none of its own job; `RecordStatementsLater`, where the
update waits for the next commit, is the mutant that breaks it. Nothing says so
in the code. `CrashesStall` (`OnlyCrashesStall`) needs more than a count of the
stalled jobs: of two requests deciding one job, the first may die after it
committed the approval and the second, which does not die, end in a collision;
only then is the job stalled. So `Neglected` counts a job from the moment its
approval has nobody left who will complete it. `ApprovalIsFinal` (`VerdictIsFinal`):
the run, the gate and the verdict with its up to three commits write the status
and never ask whether the job is over. That none comes after another follows from
the invariant: each writer is one that started from a status that is not over, and
of a job not `disturbed` at most one is under way (`Calm`; `WhoSetsStatus` names
the writers).

`BillingProofs` holds for any number of orders, requests, batches and invoices,
from `BillingAssumption` and `NoInvoiceAssumption`: `BillingTyped`,
`OrdersBilledOnce`, `DraftsUnbilled`, `DeliveryStays` and `BalanceIsOwed`. Two
inductive invariants, both on top of `Typed` (the types, and the shape of a
session that is idle or moves money):

- `CalmInv`, of an order that is not raced: at most one call is under way on it,
  what that call read still holds (`Fits`), and the properties hold of the order.
- `MoneyInv`: while nothing drifted (no two calls that move money overlapped and no
  mark of the batch undid an approval), the balance is what is owed and the one
  request that moves money read it so; a reconciliation that is alone summed what
  is owed still.

Only model-checked: the liveness properties, which are outside the prover's reach:
`DriftIsCorrected`, `EveryJobSettles`, `EveryVerdictEnds`, `EveryJobIsOffered`,
`DueIsBilled` and `DriftIsRepaired`. `DueIsBilled` says that an order stays due only
until it is billed (or is due no more) or a lock comes: while the lock is on nothing
is billed and nothing promised, and once it is off for good no order that is due
then, those it refused included, is left behind. Every other property of the passing runs is a theorem, under the assumptions above.

## What the job queue does not do

A job whose worker died stays `running` for ever: nothing looks for such rows
(`OnlyCrashesStrand` says that nothing else causes them, and `EveryJobSettles`
excuses only them). A worker stopped by SIGTERM finishes its job first
(`worker.py:32`) and is no such case.

Two workers that see one entry of Redis before either removes it both start the
job, for the result of `zrem` is not looked at (`job_queue_service.py:111`) and the
query for the row takes no lock. Two requests that revive one dead job (`:203`) may
make it pending again while it runs. Hence `raced`; `OnlyRequestsRace` says that
without Redis only the second happens.

## What the approval and the orders do not promise

Each of these is a behaviour of the models, and the reason for an exception in a
property; the hazards in `PROJECT.json` have the lines.

- Of an approve and a reject that both passed their checks, the one that commits
  last has the word: the reject leaves a locked period behind a rejected job, the
  approve makes a rejected job complete. Hence `disturbed` in `VerdictIsOne`.
- If any day of the period is locked already, the approval skips the lock and the
  job is complete all the same, with the other days open: `CloseIsLocked` says
  some day, not every day.
- When the statements fail for arithmetic, their rollback takes back the approval
  and the spent token, and the approval goes on.
- A restart, or an error that leaves the session unusable, leaves jobs `running`, or
  awaiting approval with no token, for ever; `OnlyCrashesStall`, which counts both
  as crashes, says that no order of runs and verdicts does.
- Two calls that overlap on one order may give it two live invoices, and
  `create_invoice` with an order's id gives it a second one at will: hence
  `raced`. The batch bills an order that was cancelled after its selection: hence
  `stale`.
- The batch marks a new invoice a draft after it committed it. One that was approved
  in between is a draft again, with its money posted and its entry booked: the
  balance is off until the reconciliation, and a second approval posts it again.
  Hence `raced` and `drifted` in `BatchOverwrites`.
- Spring burials take an order out of any status, terminal ones included, where
  `sales_order_transitions.py:45` says that nothing leaves them; a driver's stop
  makes a draft delivered, which line 31 calls unreachable. So a delivered order
  can be confirmed again, but not a draft again (`DeliveryIsNotUndone`).
- A writer asks for the period's lock before it commits, so an entry may reach a
  period in the moment it is closed. `ClosedPeriodFrozen` is about calls as one
  step and does not say otherwise.

## Not modelled

The repository has some 447,000 lines, most of them user interface, retrieval and
layout configuration, calls to language models, feeds from external providers,
seed data and schema history. They keep little state that a property could relate
to another, and the map's share of the whole stays small for that reason; within
the services that move money, the verbs are covered. Parts whose logic would
repay a model and have none: the workflow engine (waits and resumes over stored
runs), signing (envelopes and their tokens), the licensee transfer (a hand-over
between tenants with row locks of its own), accounts payable (a mirror of the
receivables with fewer verbs) and inventory (stock counters). Within modelled
components: tolerances and scores of the cash matcher, legs of ledger entries,
quotes, order lines, routes and the deliveries' own states, what agents compute.

## Plan

Done: `Receivables` with the balance law as a theorem, and the customers' accounts
it implements; `JobQueue` and the abstract
queue it implements; `AgentApproval` over `PeriodLocks`; `OrderBilling`. What is
left, in this order:

1. Writers and period locks together: what may be booked while a close commits.
2. The workflow engine; then signing, the licensee transfer, accounts payable.
