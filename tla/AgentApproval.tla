----------------------------- MODULE AgentApproval -----------------------------
(***************************************************************************)
(* Accounting agent jobs, the approval gate and the period locks that an   *)
(* approved close leaves behind (services/agents/agent_runner.py,          *)
(* base_agent.py, approval_gate.py, period_lock.py, the month-end adapter  *)
(* and the period screens).                                                *)
(*                                                                         *)
(* Every request has a session of its own at READ COMMITTED.  A session's  *)
(* first UPDATE of a job takes the row's lock and keeps it to the next     *)
(* commit; between two commits other sessions see the old row.  An         *)
(* approval commits up to three times on its way, so two verdicts on one   *)
(* job, a restart or an administrator may come between any two of them.    *)
(***************************************************************************)
EXTENDS PeriodLocks, FiniteSets

CONSTANTS
  Jobs,
  Requests,     \* the sessions that may be open at once
  LockIds,      \* the rows of period_locks
  Months,       \* the ranges the period screens work with
  JobSpans,     \* the ranges a job may be asked for
  Kinds,        \* "close" (month end, year end), "review", "findings"
  MaxCrashes,   \* bound on requests and tasks that die halfway
  NoJob

ASSUME ApprovalAssumption ==
  /\ NoJob \notin Jobs
  /\ Months \subseteq Span /\ JobSpans \subseteq Span
  /\ Kinds \subseteq {"close", "review", "findings"}
  /\ MaxCrashes \in Nat

VARIABLES
  job,        \* the committed agent_jobs
  task,       \* the background task of each job: none, run or gate
  lock,       \* period_locks
  req,        \* where each request is
  reopened,   \* days some administrator released
  disturbed,  \* jobs that had two verdicts under way at once, or lost one
  crashes

vars == <<job, task, lock, req, reopened, disturbed, crashes>>

Status == {"absent", "pending", "running", "awaiting_approval", "approved",
           "complete", "rejected", "failed"}

Idle == [pc |-> "idle", job |-> NoJob, token |-> FALSE, dirty |-> FALSE,
         span |-> [from |-> 0, to |-> 0]]

Locks    == {lock[l].span : l \in {k \in LockIds : lock[k].active}}
FreeIds  == {l \in LockIds : ~lock[l].active}
OwnLocks(j) == {l \in LockIds : lock[l].active /\ lock[l].by = j}

(* Requests that have decided about a job and not finished. *)
Deciding(j) == {r \in Requests : req[r].job = j}

(* Where a request holds the row lock of its job, and who may get it. *)
Holding == {"flushed", "check", "insert", "skipped"}

(* Mutant: a request waits for its own lock, as one would that updates the *)
(* row through a second session.                                           *)
FreeOfAll(j, r) == \A q \in Requests : req[q].job = j => req[q].pc \notin Holding

Free(j, r) == \A q \in Requests \ {r} : req[q].job = j => req[q].pc \notin Holding

RealClose(j) == job[j].kind = "close" /\ ~job[j].dry

SetStatus(j, s) == job' = [job EXCEPT ![j].status = s]
Goto(r, pc)     == req' = [req EXCEPT ![r].pc = pc]

Init ==
  /\ job = [j \in Jobs |-> [status |-> "absent", kind |-> "close", dry |-> FALSE,
                            span |-> [from |-> 0, to |-> 0], token |-> FALSE]]
  /\ task = [j \in Jobs |-> "none"]
  /\ lock = [l \in LockIds |-> [active |-> FALSE, by |-> NoJob,
                                span |-> [from |-> 0, to |-> 0]]]
  /\ req = [r \in Requests |-> Idle]
  /\ reopened = {} /\ disturbed = {} /\ crashes = 0
-----------------------------------------------------------------------------
(* Jobs and their background tasks *)

(* The duplicate check of create_job; an approved job does not count. *)
Duplicate(k, s) ==
  \E i \in Jobs : /\ job[i].kind = k /\ job[i].span = s
                  /\ job[i].status \in {"pending", "running", "awaiting_approval"}

Insert(j, k, s, dry) ==
  /\ job[j].status = "absent"
  /\ job' = [job EXCEPT ![j] = [status |-> "pending", kind |-> k, dry |-> dry,
                                span |-> s, token |-> FALSE]]
  /\ task' = [task EXCEPT ![j] = "run"]
  /\ UNCHANGED <<lock, req, reopened, disturbed, crashes>>

(* create_job.  That a period has ended and has no statement run yet is    *)
(* left out: either only refuses more.                                     *)
CreateJob(j, k, s, dry) ==
  /\ ~Duplicate(k, s)
  /\ dry \/ ~IsPeriodLocked(Locks, s)
  /\ Insert(j, k, s, dry)

(* The workflow step inserts a close without any of these checks, which is *)
(* also what two creations at once may come to.                            *)
RunClosePipeline(j, s, dry) == "close" \in Kinds /\ Insert(j, "close", s, dry)

(* Mutant: a run waits for its period to be unlocked. *)
StartRunUnlocked(j) ==
  /\ task[j] = "run" /\ job[j].status = "pending" /\ ~IsPeriodLocked(Locks, job[j].span)
  /\ SetStatus(j, "running")
  /\ UNCHANGED <<task, lock, req, reopened, disturbed, crashes>>

StartRun(j) ==
  /\ task[j] = "run" /\ job[j].status = "pending"
  /\ SetStatus(j, "running")
  /\ UNCHANGED <<task, lock, req, reopened, disturbed, crashes>>

(* Mutants: a quiet close needs nobody either; a failed step is recorded   *)
(* nowhere but in the step's own row.                                      *)
OutcomesQuietClose(k) == {"awaiting_approval", "failed", "complete"}
OutcomesLost(k) == {"awaiting_approval", "running"} \cup
                   IF k = "findings" THEN {"complete"} ELSE {}

(* How a run may end: only a job that is about single findings completes   *)
(* by itself, when there are none.                                         *)
Outcomes(k) == {"awaiting_approval", "failed"} \cup
               IF k = "findings" THEN {"complete"} ELSE {}

EndRun(j) ==
  /\ task[j] = "run" /\ job[j].status = "running"
  /\ \E s \in Outcomes(job[j].kind) :
       /\ SetStatus(j, s)
       /\ task' = [task EXCEPT ![j] = IF s = "awaiting_approval" THEN "gate" ELSE "none"]
  /\ UNCHANGED <<lock, req, reopened, disturbed, crashes>>

(* The token comes with a commit of its own, after the status: by then the *)
(* job may have been decided in the triage queue.                          *)
OpenGate(j) ==
  /\ task[j] = "gate" /\ \A r \in Requests : Free(j, r)
  /\ job' = [job EXCEPT ![j].token = TRUE]
  /\ task' = [task EXCEPT ![j] = "none"]
  /\ UNCHANGED <<lock, req, reopened, disturbed, crashes>>

(* That commit fails: whatever the job has become, it is marked failed. *)
GateFails(j) ==
  /\ task[j] = "gate" /\ \A r \in Requests : Free(j, r)
  /\ crashes < MaxCrashes /\ crashes' = crashes + 1
  /\ SetStatus(j, "failed")
  /\ task' = [task EXCEPT ![j] = "none"]
  /\ disturbed' = disturbed \cup {j}
  /\ UNCHANGED <<lock, req, reopened>>

(* The process is restarted; background tasks are not taken up again. *)
TaskDies(j) ==
  /\ task[j] # "none" /\ crashes < MaxCrashes
  /\ crashes' = crashes + 1
  /\ task' = [task EXCEPT ![j] = "none"]
  /\ UNCHANGED <<job, lock, req, reopened, disturbed>>
-----------------------------------------------------------------------------
(* Verdicts *)

(* Mutant: the status is not looked at, only the token. *)
OpenForVerdictByToken(j, byToken) ==
  job[j].status # "absent" /\ (byToken => job[j].token)

OpenForVerdict(j, byToken) ==
  job[j].status = "awaiting_approval" /\ (byToken => job[j].token)

(* process_approval up to its checks, or the triage action up to its own.  *)
(* A token older than 72 hours is refused; that is left open.  What was    *)
(* read here is acted on later, and nothing keeps a second request out.    *)
Begin(r, j, byToken, verdict) ==
  /\ req[r].pc = "idle" /\ OpenForVerdict(j, byToken)
  /\ req' = [req EXCEPT ![r] = [Idle EXCEPT !.pc = verdict, !.job = j, !.token = byToken]]
  /\ disturbed' = IF Deciding(j) = {} THEN disturbed ELSE disturbed \cup {j}
  /\ UNCHANGED <<job, task, lock, reopened, crashes>>

(* Mutant: a status nobody else spells that way. *)
MarkedMisspelt(j, r, s) ==
  [job[j] EXCEPT !.status = IF s = "complete" THEN "completed" ELSE s,
                 !.token = @ /\ ~req[r].token]

(* The row as a session that used a token leaves it. *)
Marked(j, r, s) == [job[j] EXCEPT !.status = s,
                                  !.token = @ /\ ~req[r].token]

(* _process_reject: the update waits for the row, not for a better moment. *)
Reject(r) ==
  LET j == req[r].job IN
  /\ req[r].pc = "reject" /\ Free(j, r)
  /\ job' = [job EXCEPT ![j] = Marked(j, r, "rejected")]
  /\ req' = [req EXCEPT ![r] = Idle]
  /\ UNCHANGED <<task, lock, reopened, disturbed, crashes>>

(* _process_approve of anything but a real close: one commit. *)
ApproveSimple(r) ==
  LET j == req[r].job IN
  /\ req[r].pc = "approve" /\ Free(j, r) /\ ~RealClose(j)
  /\ job' = [job EXCEPT ![j] = Marked(j, r, "complete")]
  /\ req' = [req EXCEPT ![r] = Idle]
  /\ UNCHANGED <<task, lock, reopened, disturbed, crashes>>

(* _process_approve of a real close, up to the flush. *)
Flush(r) ==
  LET j == req[r].job IN
  /\ req[r].pc = "approve" /\ Free(j, r) /\ RealClose(j)
  /\ req' = [req EXCEPT ![r].pc = "flushed", ![r].dirty = TRUE]
  /\ UNCHANGED <<job, task, lock, reopened, disturbed, crashes>>

(* _trigger_statement_run linked an existing run, or was refused because   *)
(* one went out: no commit so far.                                         *)
StatementsKept(r) ==
  /\ req[r].pc = "flushed" /\ Goto(r, "check")
  /\ UNCHANGED <<job, task, lock, reopened, disturbed, crashes>>

(* It generated the statements, whose commit takes the approval with it. *)
StatementsMade(r) ==
  LET j == req[r].job IN
  /\ req[r].pc = "flushed"
  /\ job' = [job EXCEPT ![j] = Marked(j, r, "approved")]
  /\ req' = [req EXCEPT ![r].pc = "stated", ![r].dirty = FALSE]
  /\ UNCHANGED <<task, lock, reopened, disturbed, crashes>>

(* The arithmetic failed: the rollback undoes the approval and gives the   *)
(* token back, the exception is swallowed and the approval goes on.        *)
StatementsFailed(r) ==
  /\ req[r].pc = "flushed"
  /\ req' = [req EXCEPT ![r].pc = "stated", ![r].dirty = FALSE]
  /\ UNCHANGED <<job, task, lock, reopened, disturbed, crashes>>

(* Two runs for one month collide on the unique key: the session is        *)
(* unusable and the request ends in an error, with nothing committed.      *)
StatementsCollide(r) ==
  /\ req[r].pc = "flushed"
  /\ req' = [req EXCEPT ![r] = Idle]
  /\ UNCHANGED <<job, task, lock, reopened, disturbed, crashes>>

(* Mutant: the outcome is only kept in memory until the next commit. *)
RecordStatementsLater(r) ==
  /\ req[r].pc = "stated" /\ Goto(r, "check")
  /\ UNCHANGED <<job, task, lock, reopened, disturbed, crashes>>

(* Its outcome is flushed into report_payload, which takes the row again. *)
RecordStatements(r) ==
  /\ req[r].pc = "stated" /\ Free(req[r].job, r) /\ Goto(r, "check")
  /\ UNCHANGED <<job, task, lock, reopened, disturbed, crashes>>

(* lock_period: the check ... *)
LockCheck(r) ==
  /\ req[r].pc = "check"
  /\ Goto(r, IF IsPeriodLocked(Locks, job[req[r].job].span) THEN "skipped" ELSE "insert")
  /\ UNCHANGED <<job, task, lock, reopened, disturbed, crashes>>

WriteLock(s, by) ==
  LET l == CHOOSE k \in FreeIds : TRUE IN
  /\ FreeIds # {}
  /\ lock' = [lock EXCEPT ![l] = [active |-> TRUE, by |-> by, span |-> s]]

(* ... and the insert, with a commit that takes along what is not yet      *)
(* committed of the approval, but not the status complete.                 *)
LockInsert(r) ==
  LET j == req[r].job IN
  /\ req[r].pc = "insert"
  /\ WriteLock(job[j].span, j)
  /\ job' = IF req[r].dirty THEN [job EXCEPT ![j] = Marked(j, r, "approved")] ELSE job
  /\ req' = [req EXCEPT ![r].pc = "locked", ![r].dirty = FALSE]
  /\ UNCHANGED <<task, reopened, disturbed, crashes>>

(* The last commit. *)
Finish(r) ==
  LET j == req[r].job IN
  /\ req[r].pc \in {"locked", "skipped"} /\ Free(j, r)
  /\ job' = IF req[r].dirty THEN [job EXCEPT ![j] = Marked(j, r, "complete")]
            ELSE [job EXCEPT ![j].status = "complete"]
  /\ req' = [req EXCEPT ![r] = Idle]
  /\ UNCHANGED <<task, lock, reopened, disturbed, crashes>>

(* A verdict dies with its process, or with a database error that leaves   *)
(* its session unusable.                                                   *)
RequestDies(r) ==
  /\ req[r].job # NoJob /\ crashes < MaxCrashes
  /\ crashes' = crashes + 1
  /\ req' = [req EXCEPT ![r] = Idle]
  /\ disturbed' = disturbed \cup {req[r].job}
  /\ UNCHANGED <<job, task, lock, reopened>>
-----------------------------------------------------------------------------
(* The period screens *)

(* The two close buttons: one asks for a single lock over the month, the   *)
(* other for the projected status.  Rows are kept for the jobs (a bound).  *)
CloseMonth(r, m) ==
  /\ req[r].pc = "idle"
  /\ \/ ~\E s \in Locks : s.from <= m.from /\ s.to >= m.to
     \/ ProjectMonth(Locks, m) # "closed"
  /\ Cardinality({q \in Requests : req[q].pc = "closing"}) + Cardinality(Jobs)
       < Cardinality(FreeIds)
  /\ req' = [req EXCEPT ![r] = [Idle EXCEPT !.pc = "closing", !.span = m]]
  /\ UNCHANGED <<job, task, lock, reopened, disturbed, crashes>>

CloseMonthCommit(r) ==
  /\ req[r].pc = "closing"
  /\ WriteLock(req[r].span, NoJob)
  /\ req' = [req EXCEPT ![r] = Idle]
  /\ UNCHANGED <<job, task, reopened, disturbed, crashes>>

Release(S) ==
  /\ S # {}
  /\ lock' = [l \in LockIds |-> IF l \in S THEN [lock[l] EXCEPT !.active = FALSE] ELSE lock[l]]
  /\ reopened' = reopened \cup UNION {DaysOf(lock[l].span) : l \in S}
  /\ UNCHANGED <<job, task, req, disturbed, crashes>>

(* The open buttons release every lock that overlaps the month. *)
OpenMonth(m) == Release({l \in LockIds : lock[l].active /\ Overlaps(lock[l].span, m)})

(* unlock_period of the agents' page: one lock, by its id. *)
UnlockPeriod(l) == lock[l].active /\ Release({l})
-----------------------------------------------------------------------------
TaskStep(j) == StartRun(j) \/ EndRun(j) \/ OpenGate(j)

VerdictStep(r) ==
  \/ Reject(r) \/ ApproveSimple(r) \/ Flush(r)
  \/ StatementsKept(r) \/ StatementsMade(r) \/ StatementsFailed(r) \/ StatementsCollide(r)
  \/ RecordStatements(r) \/ LockCheck(r) \/ LockInsert(r) \/ Finish(r)

Next ==
  \/ \E j \in Jobs :
       \/ TaskStep(j) \/ TaskDies(j) \/ GateFails(j)
       \/ \E s \in JobSpans, dry \in BOOLEAN :
            RunClosePipeline(j, s, dry) \/ \E k \in Kinds : CreateJob(j, k, s, dry)
  \/ \E r \in Requests :
       \/ VerdictStep(r) \/ RequestDies(r) \/ CloseMonthCommit(r)
       \/ \E j \in Jobs, byToken \in BOOLEAN, v \in {"approve", "reject"} : Begin(r, j, byToken, v)
       \/ \E m \in Months : CloseMonth(r, m)
  \/ \E m \in Months : OpenMonth(m)
  \/ \E l \in LockIds : UnlockPeriod(l)

Spec == Init /\ [][Next]_vars

(* Background tasks and requests are carried on by the process; the        *)
(* database grants a row lock in the order it was asked for.               *)
FairSpec == /\ Spec
            /\ \A j \in Jobs : SF_vars(TaskStep(j))
            /\ \A r \in Requests : SF_vars(VerdictStep(r))
-----------------------------------------------------------------------------
(* Properties *)

RowSpan == Span \cup {[from |-> 0, to |-> 0]}

TypeOK ==
  /\ job \in [Jobs -> [status : Status, kind : {"close", "review", "findings"},
                       dry : BOOLEAN, span : RowSpan, token : BOOLEAN]]
  /\ task \in [Jobs -> {"none", "run", "gate"}]
  /\ lock \in [LockIds -> [active : BOOLEAN, by : Jobs \cup {NoJob}, span : RowSpan]]
  /\ req \in [Requests -> [pc : {"idle", "approve", "reject", "flushed", "stated", "check",
                                 "insert", "skipped", "locked", "closing"},
                           job : Jobs \cup {NoJob}, token : BOOLEAN, dirty : BOOLEAN,
                           span : RowSpan]]
  /\ reopened \subseteq Days /\ disturbed \subseteq Jobs /\ crashes \in Nat

(* However many verdicts race, a close never stands behind two active      *)
(* locks: report_payload is flushed after the statements' commits, so the  *)
(* job's row is held from before the overlap check to after the insert.    *)
OneLockPerJob ==
  \A j \in Jobs : \A k, l \in OwnLocks(j) : k = l

(* A real close that is complete keeps writes out of some day of its       *)
(* period, or an administrator released such a day at some time.           *)
CloseIsLocked ==
  \A j \in Jobs : RealClose(j) /\ job[j].status = "complete" =>
    \/ \E d \in DaysOf(job[j].span) : DateLocked(Locks, d)
    \/ DaysOf(job[j].span) \cap reopened # {}

(* One verdict at a time is one verdict: a rejected job has locked         *)
(* nothing, and once nobody is at work on a job that did, it is complete.  *)
VerdictIsOne ==
  \A j \in Jobs \ disturbed : OwnLocks(j) # {} =>
    /\ RealClose(j) /\ job[j].status # "rejected"
    /\ Deciding(j) = {} => job[j].status = "complete"

(* A job nobody is at work on is waiting for a verdict that can still come *)
(* by e-mail, or is over - unless something died, once for every such job. *)
Stalled(j) ==
  /\ task[j] = "none" /\ Deciding(j) = {}
  /\ \/ job[j].status \in {"pending", "running", "approved"}
     \/ job[j].status = "awaiting_approval" /\ ~job[j].token
OnlyCrashesStall == Cardinality({j \in Jobs : Stalled(j)}) <= crashes

(* A verdict stands.  A job that is over stays as it ended, although the   *)
(* writers of its status - the run, the commit that opens the gate, the    *)
(* verdicts and their up to three commits - never look whether it is over: *)
(* one must not come after another, unless two verdicts were under way at  *)
(* once or one of them died.                                               *)
Over == {"complete", "rejected", "failed"}
VerdictIsFinal ==
  [][\A j \in Jobs \ disturbed' : job[j].status \in Over => job'[j].status = job[j].status]_vars

(* Every verdict comes to an end: neither the row locks nor the number of  *)
(* commits on its way make requests wait for each other for ever.          *)
EveryVerdictEnds == \A r \in Requests : req[r].job # NoJob ~> req[r].job = NoJob

(* Every job created is put before somebody, or over, or its task died. *)
EveryJobIsOffered ==
  \A j \in Jobs : job[j].status = "pending" ~>
    job[j].status \in {"awaiting_approval", "complete", "failed"} \/ Stalled(j)
=============================================================================
