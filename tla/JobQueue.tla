------------------------------- MODULE JobQueue -------------------------------
(***************************************************************************)
(* The background job queue: the jobs table, the Redis sorted set beside   *)
(* it, the requests that enqueue and revive jobs and the worker processes  *)
(* that carry them out (services/job_queue_service.py, worker.py).         *)
(*                                                                         *)
(* The table and the set have no common transaction: every writer changes  *)
(* the set first and commits afterwards, and each of the two is a step of  *)
(* its own here.  Redis may be absent, go away and come back empty.        *)
(***************************************************************************)
EXTENDS Naturals, FiniteSets

CONSTANTS
  Jobs, Workers,
  Clients,          \* the requests that may be under way at once
  Urgent,           \* the jobs of the higher of two priorities
  MaxRetries,       \* max_retries of every job
  RedisConfigured,  \* settings.REDIS_URL is set
  MaxRevivals,      \* bound on retries of dead jobs by hand
  MaxCrashes,       \* bound on workers lost in the middle of something
  NoJob

ASSUME JobQueueAssumption ==
  /\ Urgent \subseteq Jobs /\ NoJob \notin Jobs
  /\ MaxRetries \in Nat /\ MaxRevivals \in Nat /\ MaxCrashes \in Nat
  /\ RedisConfigured \in BOOLEAN

VARIABLES
  row,       \* the committed jobs table; due: scheduled_at has passed
  queue,     \* the Redis sorted set of job ids
  up,        \* Redis answers
  client, worker,
  attempts,  \* how often each job was started since it was enqueued or revived
  revivals, crashes,
  raced      \* the jobs that two requests revived, or two workers picked, at once

vars == <<row, queue, up, client, worker, attempts, revivals, crashes, raced>>

Status == {"absent", "aborted", "pending", "running", "completed", "dead"}

(* Where a request or a worker is, and with which job. *)
At(pc, j) == [pc |-> pc, job |-> j, tries |-> 0]
Idle == At("idle", NoJob)

(* Lowest score first; equal priorities go by time, which is left open. *)
First(S) == IF S \cap Urgent # {} THEN S \cap Urgent ELSE S

(* zadd, and nothing when Redis does not answer. *)
Pushed(j) == IF up THEN queue \cup {j} ELSE queue

(* A request has its hands on the job; a worker has read it as pending, by *)
(* either branch of dequeue, and will start it.                            *)
Asked(j)  == \E c \in Clients : client[c].job = j
Picked(j) == \E w \in Workers : worker[w].job = j /\ worker[w].pc \in {"found", "locked"}

(* raced is a history variable: no guard reads it.  It keeps the jobs that *)
(* were read a second time before the first reader had committed.          *)
RacedIf(j, clash) == raced' = raced \cup {k \in {j} : clash}

(* The row lock a database poll holds until its commit. *)
Locked(j) == \E w \in Workers : worker[w].pc = "locked" /\ worker[w].job = j

(* Mutants: the poll does not skip rows that another poll has locked, does *)
(* not compare the scheduled time, or takes up running rows again.         *)
EligibleLockedOrNot == {j \in Jobs : row[j].status = "pending" /\ row[j].due}
EligibleEarly       == {j \in Jobs : row[j].status = "pending" /\ ~Locked(j)}
EligibleRunningToo  ==
  {j \in Jobs : row[j].status \in {"pending", "running"} /\ row[j].due /\ ~Locked(j)}

(* The jobs a database poll may pick. *)
Eligible == {j \in Jobs : row[j].status = "pending" /\ row[j].due /\ ~Locked(j)}

Executes(w, j) == worker[w].pc \in {"running", "failing"} /\ worker[w].job = j

Goto(w, pc, j) == worker' = [worker EXCEPT ![w] = At(pc, j)]

Init ==
  /\ row = [j \in Jobs |-> [status |-> "absent", retries |-> 0, due |-> FALSE]]
  /\ queue = {}
  /\ up = RedisConfigured
  /\ client = [c \in Clients |-> Idle]
  /\ worker = [w \in Workers |-> Idle]
  /\ attempts = [j \in Jobs |-> 0]
  /\ revivals = 0 /\ crashes = 0 /\ raced = {}
-----------------------------------------------------------------------------
(* Requests *)

(* enqueue, up to the push: the row is flushed but nobody sees it yet. *)
Enqueue(c, j) ==
  /\ client[c] = Idle
  /\ row[j].status = "absent" /\ ~Asked(j)
  /\ client' = [client EXCEPT ![c] = At("enqueue", j)]
  /\ queue' = Pushed(j)
  /\ UNCHANGED <<row, up, worker, attempts, revivals, crashes, raced>>

(* Mutant: a completed job may be revived too. *)
RevivableWhenOver(j) == row[j].status \in {"dead", "completed"}

Revivable(j) == row[j].status = "dead"

(* retry_dead_job, up to the push. *)
Revive(c, j) ==
  /\ client[c] = Idle
  /\ Revivable(j) /\ revivals < MaxRevivals
  /\ client' = [client EXCEPT ![c] = At("revive", j)]
  /\ queue' = Pushed(j)
  /\ revivals' = revivals + 1
  /\ RacedIf(j, Asked(j))
  /\ UNCHANGED <<row, up, worker, attempts, crashes>>

(* Their commit.  A new job may be delayed, a revived one is due now. *)
Commit(c) ==
  LET j == client[c].job IN
  /\ client[c] # Idle /\ ~Locked(j)
  /\ \E due \in IF client[c].pc = "revive" THEN {TRUE} ELSE BOOLEAN :
       row' = [row EXCEPT ![j] = [status |-> "pending", retries |-> 0, due |-> due]]
  /\ client' = [client EXCEPT ![c] = Idle]
  /\ attempts' = [attempts EXCEPT ![j] = 0]
  /\ UNCHANGED <<queue, up, worker, revivals, crashes, raced>>

(* The commit fails or never comes; what was pushed stays in Redis. *)
Abort(c) ==
  LET j == client[c].job IN
  /\ client[c] # Idle
  /\ row' = IF client[c].pc = "enqueue" THEN [row EXCEPT ![j].status = "aborted"] ELSE row
  /\ client' = [client EXCEPT ![c] = Idle]
  /\ UNCHANGED <<queue, up, worker, attempts, revivals, crashes, raced>>
-----------------------------------------------------------------------------
(* dequeue *)

(* zrangebyscore: the first entry, whatever its time, for the upper bound  *)
(* is far above every score.  No Redis or no entry: on to the database.    *)
Look(w) ==
  /\ worker[w].pc = "idle"
  /\ IF up /\ queue # {} THEN \E j \in First(queue) : Goto(w, "seen", j)
     ELSE Goto(w, "poll", NoJob)
  /\ UNCHANGED <<row, queue, up, client, attempts, revivals, crashes, raced>>

(* zrem, whose result is not looked at; an error falls back as well. *)
Remove(w) ==
  LET j == worker[w].job IN
  /\ worker[w].pc = "seen"
  /\ IF up THEN queue' = queue \ {j} /\ Goto(w, "removed", j)
     ELSE UNCHANGED queue /\ Goto(w, "poll", NoJob)
  /\ UNCHANGED <<row, up, client, attempts, revivals, crashes, raced>>

(* Mutant: the query takes the row of that id whatever its status. *)
FindAnyStatus(w) ==
  LET j == worker[w].job IN
  /\ worker[w].pc = "removed"
  /\ IF row[j].status # "absent" THEN Goto(w, "found", j) /\ RacedIf(j, Picked(j))
     ELSE Goto(w, "poll", NoJob) /\ UNCHANGED raced
  /\ UNCHANGED <<row, queue, up, client, attempts, revivals, crashes>>

(* The query for the pending row of that id, without a lock. *)
Find(w) ==
  LET j == worker[w].job IN
  /\ worker[w].pc = "removed"
  /\ IF row[j].status = "pending" THEN Goto(w, "found", j) /\ RacedIf(j, Picked(j))
     ELSE Goto(w, "poll", NoJob) /\ UNCHANGED raced
  /\ UNCHANGED <<row, queue, up, client, attempts, revivals, crashes>>

(* Mutant: a worker that found a job in Redis is content with Redis. *)
PollUnlessRedis(w) ==
  /\ worker[w].pc = "poll"
  /\ IF Eligible # {} /\ ~up THEN \E j \in First(Eligible) : Goto(w, "locked", j) /\ RacedIf(j, Picked(j))
     ELSE Goto(w, "idle", NoJob) /\ UNCHANGED raced
  /\ UNCHANGED <<row, queue, up, client, attempts, revivals, crashes>>

(* The database fallback: FOR UPDATE SKIP LOCKED of the first due job. *)
Poll(w) ==
  /\ worker[w].pc = "poll"
  /\ IF Eligible # {} THEN \E j \in First(Eligible) : Goto(w, "locked", j) /\ RacedIf(j, Picked(j))
     ELSE Goto(w, "idle", NoJob) /\ UNCHANGED raced
  /\ UNCHANGED <<row, queue, up, client, attempts, revivals, crashes>>

(* status = "running" and the commit, of either branch: the update names   *)
(* the row by its id alone, and waits for a poll that has it locked.       *)
Claim(w) ==
  LET j == worker[w].job IN
  /\ worker[w].pc \in {"found", "locked"}
  /\ worker[w].pc = "found" => ~Locked(j)
  /\ row' = [row EXCEPT ![j].status = "running"]
  /\ worker' = [worker EXCEPT ![w] = [pc |-> "running", job |-> j, tries |-> row[j].retries]]
  /\ attempts' = [attempts EXCEPT ![j] = @ + 1]
  /\ UNCHANGED <<queue, up, client, revivals, crashes, raced>>
-----------------------------------------------------------------------------
(* The rest of the worker's loop *)

Complete(w) ==
  LET j == worker[w].job IN
  /\ worker[w].pc = "running" /\ ~Locked(j)
  /\ row' = [row EXCEPT ![j].status = "completed"]
  /\ Goto(w, "idle", NoJob)
  /\ UNCHANGED <<queue, up, client, attempts, revivals, crashes, raced>>

(* Mutant: one attempt too many. *)
RetriesLeftOneMore(n) == n <= MaxRetries

RetriesLeft(n) == n < MaxRetries

(* Mutants: a failed attempt leaves the row running; the last one marks it *)
(* with the status the column's comment also names.                        *)
AfterFailureRunning(r, n) ==
  IF RetriesLeft(n) THEN [r EXCEPT !.retries = n]
  ELSE [r EXCEPT !.status = "dead", !.retries = n]
AfterFailureFailed(r, n) ==
  IF RetriesLeft(n) THEN [status |-> "pending", retries |-> n, due |-> FALSE]
  ELSE [r EXCEPT !.status = "failed", !.retries = n]

(* What a failed attempt makes of the row: try again later, or dead. *)
AfterFailure(r, n) ==
  IF RetriesLeft(n) THEN [status |-> "pending", retries |-> n, due |-> FALSE]
  ELSE [r EXCEPT !.status = "dead", !.retries = n]

(* fail_job, up to the push.  retry_count was read when the job started,   *)
(* or is read again if the handler committed in between.                   *)
Fail(w) ==
  LET j == worker[w].job IN
  /\ worker[w].pc = "running"
  /\ \E n \in {worker[w].tries + 1, row[j].retries + 1} :
       /\ worker' = [worker EXCEPT ![w].pc = "failing", ![w].tries = n]
       /\ queue' = IF RetriesLeft(n) THEN Pushed(j) ELSE queue
  /\ UNCHANGED <<row, up, client, attempts, revivals, crashes, raced>>

(* fail_job, the commit. *)
FailCommit(w) ==
  LET j == worker[w].job IN
  /\ worker[w].pc = "failing" /\ ~Locked(j)
  /\ row' = [row EXCEPT ![j] = AfterFailure(row[j], worker[w].tries)]
  /\ Goto(w, "idle", NoJob)
  /\ UNCHANGED <<queue, up, client, attempts, revivals, crashes, raced>>

(* The worker dies and is started again, or its handler leaves the session *)
(* in a failed transaction, so that fail_job raises and the loop goes on.  *)
Lose(w) ==
  /\ worker[w] # Idle /\ crashes < MaxCrashes
  /\ crashes' = crashes + 1
  /\ Goto(w, "idle", NoJob)
  /\ UNCHANGED <<row, queue, up, client, attempts, revivals, raced>>
-----------------------------------------------------------------------------
(* The world *)

(* The scheduled time of a job passes. *)
Tick(j) ==
  /\ row[j].status = "pending" /\ ~row[j].due
  /\ row' = [row EXCEPT ![j].due = TRUE]
  /\ UNCHANGED <<queue, up, client, worker, attempts, revivals, crashes, raced>>

(* Redis goes away, or comes back with or without what it held. *)
RedisChange ==
  /\ RedisConfigured
  /\ up' = ~up
  /\ IF up THEN UNCHANGED queue ELSE queue' \in {queue, {}}
  /\ UNCHANGED <<row, client, worker, attempts, revivals, crashes, raced>>

WorkerStep(w) ==
  \/ Look(w) \/ Remove(w) \/ Find(w) \/ Poll(w) \/ Claim(w)
  \/ Complete(w) \/ Fail(w) \/ FailCommit(w)

Next ==
  \/ \E c \in Clients : Commit(c) \/ Abort(c) \/ \E j \in Jobs : Enqueue(c, j) \/ Revive(c, j)
  \/ \E w \in Workers : WorkerStep(w) \/ Lose(w)
  \/ \E j \in Jobs : Tick(j)
  \/ RedisChange

Spec == Init /\ [][Next]_vars

(* The worker process loops for ever, and time passes. *)
FairSpec == /\ Spec
            /\ \A w \in Workers : WF_vars(WorkerStep(w))
            /\ \A j \in Jobs : WF_vars(Tick(j))
-----------------------------------------------------------------------------
(* Properties *)

TypeOK ==
  /\ row \in [Jobs -> [status : Status, retries : Nat, due : BOOLEAN]]
  /\ queue \subseteq Jobs /\ up \in BOOLEAN
  /\ client \in [Clients -> [pc : {"idle", "enqueue", "revive"},
                             job : Jobs \cup {NoJob}, tries : {0}]]
  /\ worker \in [Workers -> [pc : {"idle", "seen", "removed", "found", "poll",
                                   "locked", "running", "failing"},
                             job : Jobs \cup {NoJob}, tries : Nat]]
  /\ attempts \in [Jobs -> Nat] /\ revivals \in Nat /\ crashes \in Nat
  /\ raced \subseteq Jobs

(* Without Redis only requests race: from the read of a poll to its commit *)
(* no other worker picks the same job.                                     *)
OnlyRequestsRace == [][raced' # raced => client' # client]_vars

(* A job is carried out by one worker, its row says so, and nobody else is *)
(* about to claim it, unless it was raced for: two workers may have seen   *)
(* the same entry of Redis, and two requests the same dead row.  Nothing   *)
(* else breaks it: not a job pushed twice, or before its row is visible,   *)
(* not an entry that came back with Redis, not a crash.                    *)
ClaimIsExclusive ==
  \A w \in Workers, j \in Jobs \ raced : Executes(w, j) =>
    /\ row[j].status = "running"
    /\ \A v \in Workers \ {w} : worker[v].job = j => worker[v].pc \in {"seen", "removed"}

(* Between two revivals a job that nobody raced for is started at most     *)
(* max_retries times, or once if max_retries is zero.                      *)
AttemptsBounded ==
  \A j \in Jobs \ raced : attempts[j] <= IF MaxRetries = 0 THEN 1 ELSE MaxRetries

(* A job is not started before its scheduled time. *)
DelayHonoured ==
  [][\A j \in Jobs : row[j].status = "pending" /\ row'[j].status = "running"
                       => row[j].due]_vars

(* The queue keeps the promise of WorkQueue, read off the rows and the     *)
(* workers: every step is one of its steps or none.  A race for a job is   *)
(* the one way out of the promise, and only from "queued" or "buried".     *)
Standing(s) == CASE s = "pending"   -> "queued"
                 [] s = "running"   -> "taken"
                 [] s = "completed" -> "finished"
                 [] s = "dead"      -> "buried"
                 [] OTHER           -> "unknown"
jobState   == [j \in Jobs |-> IF j \in raced THEN "disputed" ELSE Standing(row[j].status)]
jobHolders == [j \in Jobs |-> {w \in Workers : j \notin raced /\ Executes(w, j)}]
Promise == INSTANCE WorkQueue WITH state <- jobState, holders <- jobHolders
KeepsPromise == Promise!Spec

(* A job left "running" by nobody is the work of a crash, one crash for    *)
(* each such job: nothing else makes the queue forget a job.               *)
Stranded(j) == row[j].status = "running" /\ \A w \in Workers : ~Executes(w, j)
OnlyCrashesStrand == Cardinality({j \in Jobs : Stranded(j)}) <= crashes

(* Every pending job is settled, unless a crash strands it: neither an id  *)
(* pushed before its row was visible, nor an entry lost with Redis, nor an *)
(* outage keeps it waiting for ever.                                       *)
EveryJobSettles ==
  \A j \in Jobs : row[j].status = "pending" ~>
                    row[j].status \in {"completed", "dead"} \/ Stranded(j)
=============================================================================
