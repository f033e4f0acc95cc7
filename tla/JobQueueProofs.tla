---------------------------- MODULE JobQueueProofs ----------------------------
(***************************************************************************)
(* The job queue is safe for any number of jobs, workers and requests,     *)
(* with Redis or without: a job that nobody raced for is in the hands of   *)
(* one worker, is started no more often than it may be, and moves as       *)
(* WorkQueue says.  Without Redis only requests race, and no job is        *)
(* started before its time.                                                *)
(***************************************************************************)
EXTENDS JobQueue, FiniteSetTheorems, TLAPS

Free    == {"idle", "poll"}
Doing   == {"running", "failing"}
Holding == {"found", "locked"} \cup Doing
-----------------------------------------------------------------------------
(* Types, with or without Redis, for any number of requests *)

(* Who works on something works on a job, and nobody else has one. *)
Employed ==
  \A w \in Workers : worker[w].job \in IF worker[w].pc \in Free THEN {NoJob} ELSE Jobs

RowRecord == [status : Status, retries : Nat, due : BOOLEAN]

LEMMA RowsTyped ==
  ASSUME row \in [Jobs -> RowRecord], NEW j, NEW r \in RowRecord, row' = [row EXCEPT ![j] = r]
  PROVE  row' \in [Jobs -> RowRecord]
OBVIOUS

LEMMA RequestTyped ==
  ASSUME TypeOK, Employed, NEW c \in Clients, Commit(c) \/ Abort(c) \/ \E j \in Jobs : Enqueue(c, j) \/ Revive(c, j)
  PROVE  TypeOK' /\ Employed'
<1>1. row \in [Jobs -> RowRecord] BY DEF TypeOK, RowRecord
<1>2. row' \in [Jobs -> RowRecord]
  <2>1. CASE Commit(c)
    <3>1. PICK due \in BOOLEAN :
            row' = [row EXCEPT ![client[c].job] = [status |-> "pending", retries |-> 0, due |-> due]]
      BY <2>1 DEF Commit
    <3>2. [status |-> "pending", retries |-> 0, due |-> due] \in RowRecord BY DEF RowRecord, Status
    <3> HIDE DEF RowRecord
    <3> QED BY <1>1, <3>1, <3>2, RowsTyped
  <2>2. CASE Abort(c)
    BY <1>1, <2>2 DEF Abort, RowRecord, Status
  <2>3. CASE \E j \in Jobs : Enqueue(c, j) \/ Revive(c, j)
    BY <1>1, <2>3 DEF Enqueue, Revive
  <2> QED BY <2>1, <2>2, <2>3
<1>3. client' \in [Clients -> [pc : {"idle", "enqueue", "revive"}, job : Jobs \cup {NoJob}, tries : {0}]]
  <2>1. \E pc \in {"idle", "enqueue", "revive"}, j \in Jobs \cup {NoJob} :
          client' = [client EXCEPT ![c] = At(pc, j)]
    BY DEF Commit, Abort, Enqueue, Revive, Idle
  <2>2. client \in [Clients -> [pc : {"idle", "enqueue", "revive"}, job : Jobs \cup {NoJob}, tries : {0}]]
    BY DEF TypeOK
  <2> QED BY <2>1, <2>2 DEF At
<1>4. queue' \subseteq Jobs /\ up' \in BOOLEAN /\ worker' = worker /\ crashes' = crashes
  BY DEF TypeOK, Commit, Abort, Enqueue, Revive, Pushed
<1>5. attempts' \in [Jobs -> Nat] /\ revivals' \in Nat
  <2>1. attempts \in [Jobs -> Nat] /\ revivals \in Nat BY DEF TypeOK
  <2>2. CASE Commit(c) BY <2>1, <2>2 DEF Commit
  <2>3. CASE Abort(c) \/ \E j \in Jobs : Enqueue(c, j) \/ Revive(c, j)
    BY <2>1, <2>3 DEF Abort, Enqueue, Revive
  <2> QED BY <2>2, <2>3
<1>6. raced' \subseteq Jobs
  BY DEF TypeOK, Commit, Abort, Enqueue, Revive, RacedIf
<1> QED BY <1>2, <1>3, <1>4, <1>5, <1>6 DEF TypeOK, Employed, RowRecord

(* A worker that goes on with a job, or without one.                       *)
LEMMA GoesOn ==
  ASSUME TypeOK, Employed, NEW w \in Workers, NEW pc, NEW j \in Jobs \cup {NoJob}, Goto(w, pc, j),
         \/ pc \in Free /\ j = NoJob
         \/ pc \in {"seen", "removed", "found", "locked"} /\ j \in Jobs
  PROVE  /\ worker' \in [Workers -> [pc : {"idle", "seen", "removed", "found", "poll",
                                           "locked", "running", "failing"},
                                     job : Jobs \cup {NoJob}, tries : Nat]]
         /\ Employed'
BY DEF TypeOK, Employed, Goto, At, Free

LEMMA WorkerTyped ==
  ASSUME TypeOK, Employed, NEW w \in Workers, WorkerStep(w) \/ Lose(w)
  PROVE  TypeOK' /\ Employed'
<1> DEFINE j == worker[w].job
           WorkerType == [Workers -> [pc : {"idle", "seen", "removed", "found", "poll",
                                            "locked", "running", "failing"},
                                      job : Jobs \cup {NoJob}, tries : Nat]]
<1>1. row \in [Jobs -> RowRecord] BY DEF TypeOK, RowRecord
<1>2. CASE Look(w)
  <2>1. First(queue) \subseteq Jobs BY DEF First, TypeOK
  <2>2. worker' \in WorkerType /\ Employed'
    <3>1. CASE up /\ queue # {}
      <4>1. PICK k \in First(queue) : Goto(w, "seen", k) BY <1>2, <3>1 DEF Look
      <4>2. k \in Jobs BY <2>1
      <4> QED BY <4>1, <4>2, GoesOn
    <3>2. CASE ~(up /\ queue # {})
      <4>1. Goto(w, "poll", NoJob) BY <1>2, <3>2 DEF Look
      <4> QED BY <4>1, GoesOn DEF Free
    <3> QED BY <3>1, <3>2
  <2> QED BY <1>2, <2>2 DEF Look, TypeOK
<1>3. CASE Remove(w)
  <2>1. j \in Jobs BY <1>3 DEF Remove, Employed, Free
  <2>2. worker' \in WorkerType /\ Employed'
    <3>1. Goto(w, "removed", j) \/ Goto(w, "poll", NoJob) BY <1>3 DEF Remove
    <3> QED BY <2>1, <3>1, GoesOn DEF Free
  <2> QED BY <1>3, <2>2 DEF Remove, TypeOK
<1>4. CASE Find(w)
  <2>1. j \in Jobs BY <1>4 DEF Find, Employed, Free
  <2>2. worker' \in WorkerType /\ Employed'
    <3>1. Goto(w, "found", j) \/ Goto(w, "poll", NoJob) BY <1>4 DEF Find
    <3> QED BY <2>1, <3>1, GoesOn DEF Free
  <2>3. raced' \subseteq Jobs BY <1>4, <2>1 DEF Find, RacedIf, TypeOK
  <2> QED BY <1>4, <2>2, <2>3 DEF Find, TypeOK
<1>5. CASE Poll(w)
  <2>1. worker' \in WorkerType /\ Employed'
    <3>1. (\E k \in Jobs : Goto(w, "locked", k)) \/ Goto(w, "idle", NoJob)
      BY <1>5 DEF Poll, First, Eligible
    <3> QED BY <3>1, GoesOn DEF Free
  <2>2. raced' \subseteq Jobs BY <1>5 DEF Poll, First, Eligible, RacedIf, TypeOK
  <2> QED BY <1>5, <2>1, <2>2 DEF Poll, TypeOK
<1>6. CASE Claim(w)
  <2>1. j \in Jobs BY <1>6 DEF Claim, Employed, Free
  <2>2. worker' \in WorkerType /\ Employed'
    <3>1. worker' = [worker EXCEPT ![w] = [pc |-> "running", job |-> j, tries |-> row[j].retries]]
      BY <1>6 DEF Claim
    <3>2. row[j].retries \in Nat BY <1>1, <2>1 DEF RowRecord
    <3> QED BY <2>1, <3>1, <3>2 DEF TypeOK, Employed, Free
  <2>3. row' \in [Jobs -> RowRecord]
    <3>1. row' = [row EXCEPT ![j].status = "running"] BY <1>6 DEF Claim
    <3> QED BY <1>1, <3>1 DEF RowRecord, Status
  <2>4. attempts' \in [Jobs -> Nat]
    <3>1. attempts' = [attempts EXCEPT ![j] = @ + 1] BY <1>6 DEF Claim
    <3>2. attempts \in [Jobs -> Nat] BY DEF TypeOK
    <3> QED BY <2>1, <3>1, <3>2
  <2> QED BY <1>6, <2>2, <2>3, <2>4 DEF Claim, TypeOK, RowRecord
<1>7. CASE Complete(w)
  <2>1. row' \in [Jobs -> RowRecord]
    <3>1. row' = [row EXCEPT ![j].status = "completed"] BY <1>7 DEF Complete
    <3> QED BY <1>1, <3>1 DEF RowRecord, Status
  <2>2. worker' \in WorkerType /\ Employed'
    <3>1. Goto(w, "idle", NoJob) BY <1>7 DEF Complete
    <3> QED BY <3>1, GoesOn DEF Free
  <2> QED BY <1>7, <2>1, <2>2 DEF Complete, TypeOK, RowRecord
<1>8. CASE Fail(w)
  <2>1. j \in Jobs BY <1>8 DEF Fail, Employed, Free
  <2>2. row[j].retries \in Nat BY <1>1, <2>1 DEF RowRecord
  <2>3. PICK n \in {worker[w].tries + 1, row[j].retries + 1} :
          worker' = [worker EXCEPT ![w].pc = "failing", ![w].tries = n]
    BY <1>8 DEF Fail
  <2>4. n \in Nat BY <2>2, <2>3 DEF TypeOK
  <2>5. worker' \in WorkerType /\ Employed'
    <3>1. worker \in WorkerType BY DEF TypeOK
    <3>2. /\ worker'[w] = [worker[w] EXCEPT !.pc = "failing", !.tries = n]
          /\ \A v \in Workers \ {w} : worker'[v] = worker[v]
          /\ worker' = [v \in Workers |-> worker'[v]]
      BY <2>3, <3>1
    <3>3. worker'[w] = [pc |-> "failing", job |-> j, tries |-> n]
      <4>1. worker[w] \in [pc : {"idle", "seen", "removed", "found", "poll", "locked", "running", "failing"},
                           job : Jobs \cup {NoJob}, tries : Nat]
        BY <3>1
      <4> QED BY <3>2, <4>1
    <3>4. worker' \in WorkerType
      <4> DEFINE W == [pc : {"idle", "seen", "removed", "found", "poll",
                             "locked", "running", "failing"}, job : Jobs \cup {NoJob}, tries : Nat]
      <4>1. worker'[w] \in W BY <2>1, <2>4, <3>3
      <4>2. worker \in [Workers -> W] BY <3>1
      <4> HIDE DEF W
      <4>3. \A v \in Workers : worker'[v] \in W BY <3>2, <4>1, <4>2
      <4>4. worker' \in [Workers -> W] BY <3>2, <4>3
      <4> QED BY <4>4 DEF W
    <3> QED BY <2>1, <3>2, <3>3, <3>4 DEF Employed, Free
  <2>6. queue' \subseteq Jobs BY <1>8, <2>1 DEF Fail, Pushed, TypeOK
  <2> QED BY <1>8, <2>5, <2>6 DEF Fail, TypeOK
<1>9. CASE FailCommit(w)
  <2>1. j \in Jobs /\ worker[w].tries \in Nat
    BY <1>9 DEF FailCommit, Employed, Free, TypeOK
  <2>2. AfterFailure(row[j], worker[w].tries) \in RowRecord
    BY <1>1, <2>1 DEF AfterFailure, RowRecord, Status
  <2>3. row' \in [Jobs -> RowRecord] BY <1>1, <1>9, <2>2 DEF FailCommit
  <2>4. worker' \in WorkerType /\ Employed'
    <3>1. Goto(w, "idle", NoJob) BY <1>9 DEF FailCommit
    <3> QED BY <3>1, GoesOn DEF Free
  <2> QED BY <1>9, <2>3, <2>4 DEF FailCommit, TypeOK, RowRecord
<1>10. CASE Lose(w)
  <2>1. worker' \in WorkerType /\ Employed'
    <3>1. Goto(w, "idle", NoJob) BY <1>10 DEF Lose
    <3> QED BY <3>1, GoesOn DEF Free
  <2> QED BY <1>10, <2>1 DEF Lose, TypeOK
<1> QED BY <1>2, <1>3, <1>4, <1>5, <1>6, <1>7, <1>8, <1>9, <1>10 DEF WorkerStep

LEMMA AlwaysTyped == Spec => [](TypeOK /\ Employed)
<1>1. Init => TypeOK /\ Employed
  BY JobQueueAssumption DEF Init, TypeOK, Employed, Idle, At, Status, Free
<1>2. ASSUME TypeOK, Employed, [Next]_vars PROVE TypeOK' /\ Employed'
  <2>1. ASSUME NEW j \in Jobs, Tick(j) PROVE TypeOK' /\ Employed'
    <3>1. row \in [Jobs -> RowRecord] BY <1>2 DEF TypeOK, RowRecord
    <3>2. [row[j] EXCEPT !.due = TRUE] \in RowRecord BY <3>1 DEF RowRecord
    <3>3. row' = [row EXCEPT ![j] = [row[j] EXCEPT !.due = TRUE]] BY <2>1 DEF Tick
    <3> HIDE DEF RowRecord
    <3>4. row' \in [Jobs -> RowRecord] BY <3>1, <3>2, <3>3, RowsTyped
    <3> QED BY <1>2, <2>1, <3>4 DEF TypeOK, Employed, Tick, RowRecord
  <2>2. CASE RedisChange BY <1>2, <2>2 DEF TypeOK, Employed, RedisChange
  <2>3. CASE UNCHANGED vars BY <1>2, <2>3 DEF TypeOK, Employed, vars
  <2> QED BY <1>2, <2>1, <2>2, <2>3, RequestTyped, WorkerTyped DEF Next
<1> QED BY <1>1, <1>2, PTL DEF Spec

(* A request that is under way has a job. *)
Occupied ==
  \A c \in Clients : \/ client[c] = Idle
                     \/ client[c].pc \in {"enqueue", "revive"} /\ client[c].job \in Jobs

LEMMA AlwaysOccupied == Spec => []Occupied
<1>1. Init => Occupied
  BY DEF Init, Occupied
<1>2. ASSUME TypeOK, Occupied, [Next]_vars PROVE Occupied'
  <2>1. \/ client' = client
        \/ \E c \in Clients : client' = [client EXCEPT ![c] = Idle]
        \/ \E c \in Clients, pc \in {"enqueue", "revive"}, j \in Jobs :
             client' = [client EXCEPT ![c] = At(pc, j)]
    BY <1>2 DEF Next, WorkerStep, Enqueue, Revive, Commit, Abort, Look, Remove, Find, Poll, Claim,
                Complete, Fail, FailCommit, Lose, Tick, RedisChange, vars
  <2> QED BY <1>2, <2>1 DEF TypeOK, Occupied, At
<1> QED BY <1>1, <1>2, AlwaysTyped, PTL DEF Spec

(* Whatever the requests, the workers, Redis and crashes do, no row and no *)
(* worker leaves its range.                                                *)
THEOREM JobsTyped == Spec => []TypeOK
<1> QED BY AlwaysTyped, PTL
-----------------------------------------------------------------------------
(* A job that nobody raced for *)

(* At most one request has its hands on the job, and then no worker has;   *)
(* at most one worker has read it as its next, and the row shows how far   *)
(* that worker got.                                                        *)
HeldByRequest(j) ==
  \A c \in Clients : client[c].job = j =>
    /\ row[j].status = IF client[c].pc = "enqueue" THEN "absent" ELSE "dead"
    /\ \A d \in Clients \ {c} : client[d].job # j

HeldByWorker(j) ==
  \A w \in Workers : worker[w].job = j /\ worker[w].pc \in Holding =>
    /\ row[j].status = IF worker[w].pc \in Doing THEN "running" ELSE "pending"
    /\ \A v \in Workers \ {w} : worker[v].job = j => worker[v].pc \notin Holding

Early(n) == n = 0 \/ n < MaxRetries

(* The retries of its row count its starts, and so does what a worker that *)
(* carries it out remembers.                                               *)
Counted(j) ==
  /\ attempts[j] = 0 \/ Early(attempts[j] - 1)
  /\ row[j].status = "pending" => attempts[j] = row[j].retries /\ Early(row[j].retries)
  /\ row[j].status = "running" => attempts[j] = row[j].retries + 1 /\ Early(row[j].retries)
  /\ \A w \in Workers : worker[w].job = j =>
       /\ worker[w].pc = "running" => worker[w].tries = row[j].retries
       /\ worker[w].pc = "failing" => worker[w].tries = row[j].retries + 1

Undisputed(j) == HeldByRequest(j) /\ HeldByWorker(j) /\ Counted(j)

IInv == TypeOK /\ Employed /\ Occupied /\ \A j \in Jobs \ raced : Undisputed(j)

(* What a step does not concern stays as it is; requests and workers may   *)
(* leave the job alone.                                                    *)
LEMMA NotConcerned ==
  ASSUME NEW k \in Jobs, Undisputed(k), row'[k] = row[k], attempts'[k] = attempts[k],
         \A c \in Clients : client'[c].job = k => client'[c] = client[c],
         \A w \in Workers : worker'[w].job = k /\ worker'[w].pc \in Holding => worker'[w] = worker[w]
  PROVE  Undisputed(k)'
<1>1. HeldByRequest(k)'
  BY DEF Undisputed, HeldByRequest
<1>2. HeldByWorker(k)'
  BY DEF Undisputed, HeldByWorker
<1>3. Counted(k)'
  BY DEF Undisputed, Counted, Holding, Doing, Early
<1> QED BY <1>1, <1>2, <1>3 DEF Undisputed

(* A request that starts on a job finds it new or dead; if another request *)
(* has it already, the job is raced for.                                   *)
LEMMA RequestStarts ==
  ASSUME IInv, NEW c \in Clients, NEW j \in Jobs, Enqueue(c, j) \/ Revive(c, j),
         NEW k \in Jobs \ raced'
  PROVE  Undisputed(k)'
<1>1. Undisputed(k) /\ UNCHANGED <<row, attempts, worker>> /\ client[c] = Idle
  BY DEF IInv, Enqueue, Revive, RacedIf
<1>2. PICK pc \in {"enqueue", "revive"} :
        /\ client' = [client EXCEPT ![c] = At(pc, j)]
        /\ row[j].status = IF pc = "enqueue" THEN "absent" ELSE "dead"
  BY DEF Enqueue, Revive, Revivable
<1>3. /\ client'[c].pc = pc /\ client'[c].job = j
      /\ \A d \in Clients \ {c} : client'[d] = client[d]
  BY <1>2 DEF IInv, TypeOK, At
<1>4. CASE k # j
  BY <1>1, <1>3, <1>4, NotConcerned
<1>5. CASE k = j
  <2>1. \A d \in Clients : client[d].job # j
    BY <1>5 DEF Enqueue, Revive, RacedIf, Asked
  <2>2. HeldByRequest(k)'
    BY <1>1, <1>2, <1>3, <1>5, <2>1 DEF HeldByRequest
  <2>3. HeldByWorker(k)' /\ Counted(k)'
    BY <1>1 DEF Undisputed, HeldByWorker, Counted, Early
  <2> QED BY <2>2, <2>3 DEF Undisputed
<1> QED BY <1>4, <1>5

(* A request that ends was alone with the job, and no worker has it. *)
LEMMA RequestEnds ==
  ASSUME IInv, NEW c \in Clients, Commit(c) \/ Abort(c), NEW k \in Jobs \ raced'
  PROVE  Undisputed(k)'
<1>1. PICK j \in Jobs : j = client[c].job /\ client[c].pc \in {"enqueue", "revive"}
  BY DEF IInv, Occupied, Commit, Abort
<1>2. /\ Undisputed(k) /\ UNCHANGED worker
      /\ client'[c] = Idle /\ \A d \in Clients \ {c} : client'[d] = client[d]
      /\ \A i \in Jobs : i # j => row'[i] = row[i] /\ attempts'[i] = attempts[i]
  BY <1>1 DEF IInv, TypeOK, Commit, Abort
<1>3. Idle.job = NoJob /\ NoJob \notin Jobs
  BY JobQueueAssumption DEF Idle, At
<1>4. CASE k # j
  BY <1>2, <1>3, <1>4, NotConcerned
<1>5. CASE k = j
  <2>1. /\ row[k].status = IF client[c].pc = "enqueue" THEN "absent" ELSE "dead"
        /\ \A d \in Clients \ {c} : client[d].job # k
    BY <1>1, <1>2, <1>5 DEF Undisputed, HeldByRequest
  <2>2. HeldByRequest(k)'
    BY <1>2, <1>3, <2>1 DEF HeldByRequest
  <2>3. \A w \in Workers : worker[w].job = k => worker[w].pc \notin Holding
    BY <1>2, <2>1 DEF Undisputed, HeldByWorker
  <2>4. HeldByWorker(k)'
    BY <1>2, <2>3 DEF HeldByWorker
  <2>5. /\ attempts'[k] = 0 \/ attempts'[k] = attempts[k]
        /\ row'[k].status = "pending" => attempts'[k] = 0 /\ row'[k].retries = 0
        /\ row'[k].status # "running"
    <3>1. CASE Commit(c)
      BY <1>1, <1>5, <3>1 DEF Commit, IInv, TypeOK
    <3>2. CASE Abort(c) /\ client[c].pc = "enqueue"
      <4>1. row' = [row EXCEPT ![k].status = "aborted"] /\ attempts' = attempts
        BY <1>1, <1>5, <3>2 DEF Abort
      <4> QED BY <4>1 DEF IInv, TypeOK
    <3>3. CASE Abort(c) /\ client[c].pc # "enqueue"
      BY <2>1, <3>3 DEF Abort
    <3> QED BY <3>1, <3>2, <3>3
  <2>6. Counted(k)'
    BY <1>2, <2>3, <2>5 DEF Undisputed, Counted, Early, Holding, Doing
  <2> QED BY <2>2, <2>4, <2>6 DEF Undisputed
<1> QED BY <1>4, <1>5

(* A worker that looks around, or dies, has no job that it will start. *)
LEMMA WorkerLetsGo ==
  ASSUME IInv, NEW w \in Workers, NEW pc, NEW i, pc \notin Holding, Goto(w, pc, i),
         UNCHANGED <<row, client, attempts>>, NEW k \in Jobs \ raced
  PROVE  Undisputed(k)'
<1>1. worker'[w].pc = pc /\ \A v \in Workers \ {w} : worker'[v] = worker[v]
  BY DEF Goto, At, IInv, TypeOK
<1>2. \A v \in Workers : worker'[v].pc \in Holding => worker'[v] = worker[v]
  BY <1>1
<1> QED BY <1>2, NotConcerned DEF IInv

(* A worker that reads a pending row is the only one, or the job is raced  *)
(* for from now on.                                                        *)
LEMMA WorkerPicks ==
  ASSUME IInv, NEW w \in Workers, NEW pc \in {"found", "locked"}, NEW j \in Jobs,
         row[j].status = "pending", worker[w].pc \notin Holding,
         Goto(w, pc, j), RacedIf(j, Picked(j)), UNCHANGED <<row, client, attempts>>,
         NEW k \in Jobs \ raced'
  PROVE  Undisputed(k)'
<1>1. /\ Undisputed(k)
      /\ worker'[w].pc = pc /\ worker'[w].job = j
      /\ \A v \in Workers \ {w} : worker'[v] = worker[v]
  BY DEF IInv, TypeOK, RacedIf, Goto, At
<1>2. CASE k # j
  BY <1>1, <1>2, NotConcerned
<1>3. CASE k = j
  <2>1. \A v \in Workers : worker[v].job = j => worker[v].pc \notin Holding
    BY <1>1, <1>3 DEF RacedIf, Picked, Undisputed, HeldByWorker, Holding, Doing
  <2>2. HeldByWorker(k)'
    BY <1>1, <1>3, <2>1 DEF HeldByWorker, Doing
  <2>3. Counted(k)'
    BY <1>1 DEF Undisputed, Counted, Early
  <2>4. HeldByRequest(k)'
    BY <1>1 DEF Undisputed, HeldByRequest
  <2> QED BY <2>2, <2>3, <2>4 DEF Undisputed
<1> QED BY <1>2, <1>3

(* A worker that holds a job which nobody raced for goes on with it or     *)
(* lets go of it; the row and the count go with it.                        *)
LEMMA WorkerGoesOn ==
  ASSUME IInv, NEW w \in Workers, worker[w].pc \in Holding, NEW j \in Jobs, j = worker[w].job,
         \A i \in Jobs : i # j => row'[i] = row[i] /\ attempts'[i] = attempts[i],
         \A v \in Workers \ {w} : worker'[v] = worker[v],
         worker'[w].job \in {j, NoJob}, client' = client,
         j \notin raced =>
           /\ attempts'[j] = 0 \/ Early(attempts'[j] - 1)
           /\ row'[j].status = "pending" => attempts'[j] = row'[j].retries /\ Early(row'[j].retries)
           /\ row'[j].status = "running" => attempts'[j] = row'[j].retries + 1 /\ Early(row'[j].retries)
           /\ \/ worker'[w].pc = "idle"
              \/ /\ worker'[w].pc = "running" /\ row'[j].status = "running"
                 /\ worker'[w].tries = row'[j].retries
              \/ /\ worker'[w].pc = "failing" /\ row'[j].status = "running"
                 /\ worker'[w].tries = row'[j].retries + 1,
         NEW k \in Jobs \ raced
  PROVE  Undisputed(k)'
<1>1. Undisputed(k)
  BY DEF IInv
<1>2. CASE k # j
  BY <1>1, <1>2, JobQueueAssumption, NotConcerned
<1>3. CASE k = j
  <2>1. /\ row[k].status \in {"pending", "running"}
        /\ \A v \in Workers \ {w} : worker[v].job = k => worker[v].pc \notin Holding
    BY <1>1, <1>3 DEF Undisputed, HeldByWorker
  <2>2. HeldByRequest(k)'
    BY <1>1, <2>1 DEF Undisputed, HeldByRequest
  <2>3. HeldByWorker(k)'
    BY <1>3, <2>1 DEF HeldByWorker, Holding, Doing
  <2>4. Counted(k)'
    BY <1>3, <2>1 DEF Counted, Early, Holding, Doing
  <2> QED BY <2>2, <2>3, <2>4 DEF Undisputed
<1> QED BY <1>2, <1>3

LEMMA ClaimUndisputed ==
  ASSUME IInv, NEW w \in Workers, Claim(w), NEW k \in Jobs \ raced'
  PROVE  Undisputed(k)'
<1>1. PICK j \in Jobs : j = worker[w].job
  BY DEF IInv, Employed, Claim, Free
<1>2. /\ row' = [row EXCEPT ![j] = [row[j] EXCEPT !.status = "running"]]
      /\ attempts' = [attempts EXCEPT ![j] = attempts[j] + 1]
      /\ worker' = [worker EXCEPT ![w] = [pc |-> "running", job |-> j, tries |-> row[j].retries]]
      /\ worker[w].pc \in {"found", "locked"}
      /\ UNCHANGED <<client, raced>>
  BY <1>1 DEF Claim
<1>3. /\ \A i \in Jobs : i # j => row'[i] = row[i] /\ attempts'[i] = attempts[i]
      /\ row'[j].status = "running" /\ row'[j].retries = row[j].retries
      /\ attempts'[j] = attempts[j] + 1
      /\ attempts[j] \in Nat /\ row[j].retries \in Nat
  BY <1>2 DEF IInv, TypeOK
<1>4. /\ \A v \in Workers \ {w} : worker'[v] = worker[v]
      /\ worker'[w] = [pc |-> "running", job |-> j, tries |-> row[j].retries]
  BY <1>2 DEF IInv, TypeOK
<1>5. ASSUME j \notin raced
      PROVE  attempts[j] = row[j].retries /\ Early(row[j].retries)
  BY <1>1, <1>2, <1>5 DEF IInv, Undisputed, HeldByWorker, Counted, Holding, Doing
<1>6. j \notin raced => attempts'[j] = row'[j].retries + 1 /\ Early(row'[j].retries) /\ Early(attempts'[j] - 1)
  BY <1>3, <1>5
<1>7. worker[w].pc \in Holding /\ NoJob \notin Jobs
  BY <1>2, JobQueueAssumption DEF Holding
<1> QED BY <1>1, <1>2, <1>3, <1>4, <1>6, <1>7, WorkerGoesOn

LEMMA FailUndisputed ==
  ASSUME IInv, NEW w \in Workers, Fail(w), NEW k \in Jobs \ raced'
  PROVE  Undisputed(k)'
<1>1. PICK j \in Jobs : j = worker[w].job
  BY DEF IInv, Employed, Fail, Free
<1>2. PICK n \in {worker[w].tries + 1, row[j].retries + 1} :
        worker' = [worker EXCEPT ![w].pc = "failing", ![w].tries = n]
  BY <1>1 DEF Fail
<1>3. worker[w].pc = "running" /\ UNCHANGED <<row, attempts, client, raced>>
  BY DEF Fail
<1>4. /\ worker'[w].pc = "failing" /\ worker'[w].job = j /\ worker'[w].tries = n
      /\ \A v \in Workers \ {w} : worker'[v] = worker[v]
  BY <1>1, <1>2 DEF IInv, TypeOK
<1>5. ASSUME j \notin raced
      PROVE  Undisputed(j) /\ n = row[j].retries + 1 /\ row[j].status = "running"
  <2>1. Undisputed(j)
    BY <1>5 DEF IInv
  <2>2. row[j].status = "running"
    BY <1>1, <1>3, <2>1 DEF Undisputed, HeldByWorker, Holding, Doing
  <2>3. worker[w].tries = row[j].retries
    BY <1>1, <1>3, <2>1 DEF Undisputed, Counted
  <2> QED BY <1>2, <2>1, <2>2, <2>3
<1>6. worker[w].pc \in Holding
  BY <1>3 DEF Holding, Doing
<1>7. j \notin raced =>
        /\ attempts'[j] = 0 \/ Early(attempts'[j] - 1)
        /\ row'[j].status = "pending" => attempts'[j] = row'[j].retries /\ Early(row'[j].retries)
        /\ row'[j].status = "running" => attempts'[j] = row'[j].retries + 1 /\ Early(row'[j].retries)
        /\ row'[j].status = "running" /\ worker'[w].tries = row'[j].retries + 1
  BY <1>3, <1>4, <1>5 DEF Undisputed, Counted
<1> QED BY <1>1, <1>3, <1>4, <1>6, <1>7, WorkerGoesOn

LEMMA VerdictUndisputed ==
  ASSUME IInv, NEW w \in Workers, Complete(w) \/ FailCommit(w), NEW k \in Jobs \ raced'
  PROVE  Undisputed(k)'
<1>1. PICK j \in Jobs : j = worker[w].job
  BY DEF IInv, Employed, Complete, FailCommit, Free
<1>2. /\ worker[w].pc \in Doing /\ worker' = [worker EXCEPT ![w] = At("idle", NoJob)]
      /\ UNCHANGED <<client, attempts, raced>>
  BY DEF Complete, FailCommit, Goto, Doing
<1>3. /\ worker'[w].pc = "idle" /\ worker'[w].job = NoJob
      /\ \A v \in Workers \ {w} : worker'[v] = worker[v]
  BY <1>2 DEF IInv, TypeOK, At
<1>4. \A i \in Jobs : i # j => row'[i] = row[i]
  BY <1>1 DEF Complete, FailCommit, IInv, TypeOK
<1>5. row[j].retries \in Nat /\ attempts[j] \in Nat
  BY DEF IInv, TypeOK
<1>6. ASSUME j \notin raced
      PROVE  /\ attempts[j] = 0 \/ Early(attempts[j] - 1)
             /\ row'[j].status = "pending" => attempts[j] = row'[j].retries /\ Early(row'[j].retries)
             /\ row'[j].status # "running"
  <2>1. Undisputed(j)
    BY <1>6 DEF IInv
  <2>2. row[j].status = "running" /\ attempts[j] = row[j].retries + 1
    BY <1>1, <1>2, <2>1 DEF Undisputed, HeldByWorker, Counted, Holding
  <2>3. CASE Complete(w)
    BY <1>1, <2>1, <2>3 DEF Complete, IInv, TypeOK, Undisputed, Counted
  <2>4. CASE FailCommit(w)
    <3> DEFINE n == worker[w].tries
    <3>1. row'[j] = AfterFailure(row[j], n) /\ n = row[j].retries + 1
      BY <1>1, <2>1, <2>4 DEF FailCommit, IInv, TypeOK, Undisputed, Counted
    <3>2. CASE RetriesLeft(n)
      <4>1. row'[j].status = "pending" /\ row'[j].retries = n
        BY <3>1, <3>2 DEF AfterFailure
      <4> QED BY <1>5, <2>1, <2>2, <3>1, <3>2, <4>1 DEF RetriesLeft, Early, Undisputed, Counted
    <3>3. CASE ~RetriesLeft(n)
      <4>1. row'[j].status = "dead"
        BY <3>1, <3>3 DEF AfterFailure, IInv, TypeOK
      <4> QED BY <2>1, <4>1 DEF Undisputed, Counted
    <3> QED BY <3>2, <3>3
  <2> QED BY <2>3, <2>4
<1>7. worker[w].pc \in Holding
  BY <1>2 DEF Holding
<1> QED BY <1>1, <1>2, <1>3, <1>4, <1>6, <1>7, WorkerGoesOn

LEMMA WorkerUndisputed ==
  ASSUME IInv, NEW w \in Workers, WorkerStep(w) \/ Lose(w), NEW k \in Jobs \ raced'
  PROVE  Undisputed(k)'
<1>1. CASE Look(w)
  <2>1. \E pc \in {"seen", "poll"}, i \in Jobs \cup {NoJob} : Goto(w, pc, i)
    BY <1>1 DEF Look, First, IInv, TypeOK
  <2> QED BY <1>1, <2>1, WorkerLetsGo DEF Look, Holding, Doing
<1>2. CASE Remove(w)
  <2>1. \E pc \in {"removed", "poll"}, i \in {worker[w].job, NoJob} : Goto(w, pc, i)
    BY <1>2 DEF Remove
  <2> QED BY <1>2, <2>1, WorkerLetsGo DEF Remove, Holding, Doing
<1>3. CASE Find(w)
  <2>1. PICK j \in Jobs : j = worker[w].job
    BY <1>3 DEF IInv, Employed, Find, Free
  <2>2. worker[w].pc \notin Holding
    BY <1>3 DEF Find, Holding, Doing
  <2>3. CASE row[j].status = "pending"
    BY <1>3, <2>1, <2>2, <2>3, WorkerPicks DEF Find
  <2>4. CASE row[j].status # "pending"
    BY <1>3, <2>1, <2>4, WorkerLetsGo DEF Find, Holding, Doing
  <2> QED BY <2>3, <2>4
<1>4. CASE Poll(w)
  <2>1. worker[w].pc \notin Holding
    BY <1>4 DEF Poll, Holding, Doing
  <2>2. CASE Eligible # {}
    <3>1. PICK j \in Eligible : Goto(w, "locked", j) /\ RacedIf(j, Picked(j))
      BY <1>4, <2>2 DEF Poll, First
    <3>2. j \in Jobs /\ row[j].status = "pending"
      BY DEF Eligible
    <3> QED BY <1>4, <2>1, <3>1, <3>2, WorkerPicks DEF Poll
  <2>3. CASE Eligible = {}
    BY <1>4, <2>3, WorkerLetsGo DEF Poll, Holding, Doing
  <2> QED BY <2>2, <2>3
<1>5. CASE Lose(w)
  BY <1>5, WorkerLetsGo DEF Lose, Holding, Doing
<1> QED BY <1>1, <1>2, <1>3, <1>4, <1>5, ClaimUndisputed, FailUndisputed, VerdictUndisputed
        DEF WorkerStep

LEMMA TickUndisputed ==
  ASSUME IInv, NEW j \in Jobs, Tick(j), NEW k \in Jobs \ raced'
  PROVE  Undisputed(k)'
<1>1. Undisputed(k) /\ UNCHANGED <<client, worker, attempts>>
  BY DEF Tick, IInv
<1>2. row'[k].status = row[k].status /\ row'[k].retries = row[k].retries
  BY DEF Tick, IInv, TypeOK
<1> QED BY <1>1, <1>2 DEF Undisputed, HeldByRequest, HeldByWorker, Counted, Early

LEMMA AlwaysIInv == Spec => []IInv
<1>1. Init => \A j \in Jobs \ raced : Undisputed(j)
  BY JobQueueAssumption
     DEF Init, Undisputed, HeldByRequest, HeldByWorker, Counted, Idle, At, Holding, Doing
<1>2. ASSUME IInv, [Next]_vars PROVE (\A j \in Jobs \ raced : Undisputed(j))'
  <2> SUFFICES ASSUME NEW k \in Jobs \ raced' PROVE Undisputed(k)'
    OBVIOUS
  <2>1. CASE RedisChange \/ UNCHANGED vars
    <3>1. UNCHANGED <<row, client, worker, attempts, raced>>
      BY <2>1 DEF RedisChange, vars
    <3> QED BY <1>2, <3>1, NotConcerned DEF IInv
  <2> QED BY <1>2, <2>1, RequestStarts, RequestEnds, WorkerUndisputed, TickUndisputed DEF Next
<1>3. IInv <=> TypeOK /\ Employed /\ Occupied /\ \A j \in Jobs \ raced : Undisputed(j)
  BY DEF IInv
<1> QED BY <1>1, <1>2, <1>3, AlwaysTyped, AlwaysOccupied, PTL DEF Spec

(* A job that nobody raced for is in the hands of one worker, whatever     *)
(* comes back with Redis, is pushed twice or too early, crashes or is      *)
(* revived: dequeue's two branches and their commits.                      *)
THEOREM ClaimsAreExclusive == Spec => []ClaimIsExclusive
<1>1. ASSUME IInv PROVE ClaimIsExclusive
  <2> SUFFICES ASSUME NEW w \in Workers, NEW j \in Jobs \ raced, Executes(w, j)
               PROVE  /\ row[j].status = "running"
                      /\ \A v \in Workers \ {w} :
                           worker[v].job = j => worker[v].pc \in {"seen", "removed"}
    BY DEF ClaimIsExclusive
  <2>1. HeldByWorker(j) /\ worker[w].pc \in Doing /\ worker[w].job = j
    BY <1>1 DEF IInv, Undisputed, Executes, Doing
  <2>2. row[j].status = "running" /\ \A v \in Workers \ {w} : worker[v].job = j => worker[v].pc \notin Holding
    BY <2>1 DEF HeldByWorker, Holding
  <2>3. \A v \in Workers : worker[v].pc \in Free => worker[v].job # j
    BY <1>1, JobQueueAssumption DEF IInv, Employed
  <2> QED BY <1>1, <2>2, <2>3 DEF IInv, TypeOK, Holding, Doing, Free
<1> QED BY <1>1, AlwaysIInv, PTL

(* Between two revivals such a job is started at most max_retries times,   *)
(* at least once: fail_job's comparison and the reset of enqueue and       *)
(* retry_dead_job agree.                                                   *)
THEOREM AttemptsAreBounded == Spec => []AttemptsBounded
<1>1. IInv => AttemptsBounded
  BY JobQueueAssumption DEF IInv, TypeOK, Undisputed, Counted, Early, AttemptsBounded
<1> QED BY <1>1, AlwaysIInv, PTL
-----------------------------------------------------------------------------
(* Refinement *)

(* A step that changes neither the standing of a row nor who carries out   *)
(* what, for the jobs nobody raced for, is none of WorkQueue's steps.      *)
LEMMA Stutters ==
  ASSUME UNCHANGED raced,
         \A k \in Jobs \ raced : Standing(row'[k].status) = Standing(row[k].status),
         \A w \in Workers, k \in Jobs \ raced : Executes(w, k)' <=> Executes(w, k)
  PROVE  UNCHANGED Promise!vars
<1>1. jobState' = jobState
  BY DEF jobState
<1>2. jobHolders' = jobHolders
  <2>1. ASSUME NEW k \in Jobs
        PROVE  {w \in Workers : k \notin raced' /\ Executes(w, k)'}
               = {w \in Workers : k \notin raced /\ Executes(w, k)}
    OBVIOUS
  <2> QED BY <2>1 DEF jobHolders
<1> QED BY <1>1, <1>2 DEF Promise!vars

(* A step that makes a job raced for is Clash: it is waiting, and nobody   *)
(* carries it out.                                                         *)
LEMMA ClashKeeps ==
  ASSUME IInv, NEW j \in Jobs, raced' \in {raced, raced \cup {j}}, UNCHANGED row,
         j \notin raced => row[j].status \in {"pending", "dead"},
         \A w \in Workers, k \in Jobs : Executes(w, k)' <=> Executes(w, k)
  PROVE  Promise!Next \/ UNCHANGED Promise!vars
<1>1. CASE raced' = raced
  BY <1>1, Stutters
<1>2. CASE j \notin raced /\ raced' = raced \cup {j}
  <2>1. \A w \in Workers : ~Executes(w, j)
    BY <1>2 DEF IInv, Undisputed, HeldByWorker, Executes, Holding, Doing
  <2>2. jobHolders[j] = {}
    BY <2>1 DEF jobHolders
  <2>3. UNCHANGED jobHolders
    <3>1. ASSUME NEW k \in Jobs
          PROVE  {w \in Workers : k \notin raced' /\ Executes(w, k)'}
                 = {w \in Workers : k \notin raced /\ Executes(w, k)}
      BY <1>2, <2>1
    <3> QED BY <3>1 DEF jobHolders
  <2>4. jobState[j] \in {"queued", "buried"} /\ jobState' = [jobState EXCEPT ![j] = "disputed"]
    BY <1>2 DEF jobState, Standing
  <2> QED BY <2>2, <2>3, <2>4 DEF Promise!Next, Promise!Clash, Promise!Move
<1> QED BY <1>1, <1>2

(* How a step that concerns one job shows in the mapping. *)
LEMMA OneState ==
  ASSUME UNCHANGED raced, NEW j \in Jobs \ raced,
         \A k \in Jobs : k # j => row'[k].status = row[k].status
  PROVE  jobState' = [jobState EXCEPT ![j] = Standing(row'[j].status)]
BY DEF jobState

LEMMA OneHolder ==
  ASSUME UNCHANGED raced, NEW j \in Jobs \ raced, NEW H,
         {v \in Workers : Executes(v, j)'} = H,
         \A v \in Workers, k \in Jobs : k # j => (Executes(v, k)' <=> Executes(v, k))
  PROVE  jobHolders' = [jobHolders EXCEPT ![j] = H]
<1>1. ASSUME NEW k \in Jobs
      PROVE  {v \in Workers : k \notin raced' /\ Executes(v, k)'}
             = IF k = j THEN H ELSE {v \in Workers : k \notin raced /\ Executes(v, k)}
  <2>1. CASE k = j
    BY <2>1
  <2>2. CASE k # j
    BY <2>2
  <2> QED BY <2>1, <2>2
<1> QED BY <1>1 DEF jobHolders

LEMMA StartKeeps ==
  ASSUME IInv, NEW c \in Clients, NEW j \in Jobs, Enqueue(c, j) \/ Revive(c, j)
  PROVE  Promise!Next \/ UNCHANGED Promise!vars
<1>1. raced' \in {raced, raced \cup {j}} /\ UNCHANGED <<row, worker>>
  BY DEF Enqueue, Revive, RacedIf
<1>2. \A w \in Workers, k \in Jobs : Executes(w, k)' <=> Executes(w, k)
  BY <1>1 DEF Executes
<1>3. CASE Enqueue(c, j)
  BY <1>1, <1>2, <1>3, Stutters DEF Enqueue
<1>4. CASE Revive(c, j)
  BY <1>1, <1>2, <1>4, ClashKeeps DEF Revive, Revivable
<1> QED BY <1>3, <1>4

(* The submission of a job is its commit, and so is a revival. *)
LEMMA CommitKeeps ==
  ASSUME IInv, NEW c \in Clients, Commit(c)
  PROVE  Promise!Next \/ UNCHANGED Promise!vars
<1>1. PICK j \in Jobs : j = client[c].job /\ client[c].pc \in {"enqueue", "revive"}
  BY DEF IInv, Occupied, Commit
<1>2. /\ row'[j].status = "pending" /\ \A k \in Jobs : k # j => row'[k] = row[k]
      /\ UNCHANGED <<worker, raced>>
  BY <1>1 DEF Commit, IInv, TypeOK
<1>3. \A w \in Workers, k \in Jobs : Executes(w, k)' <=> Executes(w, k)
  BY <1>2 DEF Executes
<1>4. CASE j \in raced
  BY <1>2, <1>3, <1>4, Stutters
<1>5. CASE j \notin raced
  <2>1. row[j].status \in {"absent", "dead"}
    BY <1>1, <1>5 DEF IInv, Undisputed, HeldByRequest
  <2>2. jobState' = [jobState EXCEPT ![j] = "queued"]
    BY <1>2, <1>5, OneState DEF Standing
  <2>3. jobState[j] \in {"unknown", "buried"}
    BY <1>5, <2>1 DEF jobState, Standing
  <2>4. UNCHANGED jobHolders
    BY <1>2 DEF jobHolders, Executes
  <2> QED BY <2>2, <2>3, <2>4 DEF Promise!Next, Promise!Submit, Promise!Revive, Promise!Move
<1> QED BY <1>4, <1>5

LEMMA AbortKeeps ==
  ASSUME IInv, NEW c \in Clients, Abort(c) PROVE UNCHANGED Promise!vars
<1>1. PICK j \in Jobs : j = client[c].job
  BY DEF IInv, Occupied, Abort
<1>2. UNCHANGED <<worker, raced>> /\ \A k \in Jobs : k # j => row'[k] = row[k]
  BY <1>1 DEF Abort, IInv, TypeOK
<1>3. ASSUME j \notin raced
      PROVE  Standing(row'[j].status) = Standing(row[j].status)
  <2>1. CASE client[c].pc = "enqueue"
    <3>1. row[j].status = "absent"
      BY <1>1, <1>3, <2>1 DEF IInv, Undisputed, HeldByRequest
    <3>2. row'[j].status = "aborted"
      BY <1>1, <2>1 DEF Abort, IInv, TypeOK
    <3> QED BY <3>1, <3>2 DEF Standing
  <2>2. CASE client[c].pc # "enqueue"
    BY <2>2 DEF Abort
  <2> QED BY <2>1, <2>2
<1>4. \A k \in Jobs \ raced : Standing(row'[k].status) = Standing(row[k].status)
  BY <1>2, <1>3
<1> QED BY <1>2, <1>4, Stutters DEF Executes

(* The claim takes a job that nobody holds. *)
LEMMA ClaimKeeps ==
  ASSUME IInv, NEW w \in Workers, Claim(w)
  PROVE  Promise!Next \/ UNCHANGED Promise!vars
<1>1. PICK j \in Jobs : j = worker[w].job
  BY DEF IInv, Employed, Claim, Free
<1>2. /\ row'[j].status = "running" /\ \A k \in Jobs : k # j => row'[k] = row[k]
      /\ worker[w].pc \in {"found", "locked"} /\ raced' = raced
      /\ worker'[w].pc = "running" /\ worker'[w].job = j
      /\ \A v \in Workers \ {w} : worker'[v] = worker[v]
  BY <1>1 DEF Claim, IInv, TypeOK
<1>3. \A v \in Workers, k \in Jobs : k # j => (Executes(v, k)' <=> Executes(v, k))
  BY <1>1, <1>2 DEF Executes
<1>4. CASE j \in raced
  BY <1>2, <1>3, <1>4, Stutters
<1>5. CASE j \notin raced
  <2>1. /\ row[j].status = "pending"
        /\ \A v \in Workers \ {w} : worker[v].job = j => worker[v].pc \notin Holding
    BY <1>1, <1>2, <1>5 DEF IInv, Undisputed, HeldByWorker, Holding, Doing
  <2>2. jobState[j] = "queued" /\ jobState' = [jobState EXCEPT ![j] = "taken"]
    BY <1>2, <1>5, <2>1, OneState DEF jobState, Standing
  <2>3. jobHolders[j] = {}
    BY <1>2, <2>1 DEF jobHolders, Executes, Holding, Doing
  <2>4. {v \in Workers : Executes(v, j)'} = {w}
    BY <1>2, <2>1 DEF Executes, Holding, Doing
  <2>5. jobHolders' = [jobHolders EXCEPT ![j] = {w}]
    <3>1. UNCHANGED raced /\ j \in Jobs \ raced
      BY <1>2, <1>5
    <3> QED BY ONLY <1>3, <2>4, <3>1, OneHolder
  <2> QED BY <2>2, <2>3, <2>5 DEF Promise!Next, Promise!Take, Promise!Move
<1> QED BY <1>4, <1>5

(* A worker that ends with its job leaves it without a holder. *)
LEMMA Leaves ==
  ASSUME IInv, NEW w \in Workers, worker[w].pc \in Doing, Goto(w, "idle", NoJob),
         NEW j \in Jobs, j = worker[w].job, UNCHANGED raced
  PROVE  /\ \A v \in Workers, k \in Jobs : k # j => (Executes(v, k)' <=> Executes(v, k))
         /\ j \notin raced => /\ jobHolders[j] = {w}
                              /\ jobHolders' = [jobHolders EXCEPT ![j] = {}]
                              /\ jobState[j] = "taken"
<1>1. worker'[w].pc = "idle" /\ \A v \in Workers \ {w} : worker'[v] = worker[v]
  BY DEF IInv, TypeOK, Goto, At
<1>2. \A v \in Workers, k \in Jobs : k # j => (Executes(v, k)' <=> Executes(v, k))
  BY <1>1 DEF Executes
<1>3. ASSUME j \notin raced
      PROVE  /\ jobHolders[j] = {w}
             /\ jobHolders' = [jobHolders EXCEPT ![j] = {}]
             /\ jobState[j] = "taken"
  <2>1. /\ row[j].status = "running"
        /\ \A v \in Workers \ {w} : worker[v].job = j => worker[v].pc \notin Holding
    BY <1>3 DEF IInv, Undisputed, HeldByWorker, Holding
  <2>2. jobHolders[j] = {w}
    BY <1>3, <2>1 DEF jobHolders, Executes, Holding, Doing
  <2>3. {v \in Workers : Executes(v, j)'} = {}
    BY <1>1, <2>1 DEF Executes, Holding, Doing
  <2>4. jobHolders' = [jobHolders EXCEPT ![j] = {}]
    BY <1>2, <1>3, <2>3, OneHolder
  <2>5. jobState[j] = "taken"
    BY <1>3, <2>1 DEF jobState, Standing
  <2> QED BY <2>2, <2>4, <2>5
<1> QED BY <1>2, <1>3

(* A verdict of complete_job or fail_job. *)
LEMMA VerdictKeeps ==
  ASSUME IInv, NEW w \in Workers, Complete(w) \/ FailCommit(w)
  PROVE  Promise!Next \/ UNCHANGED Promise!vars
<1>1. PICK j \in Jobs : j = worker[w].job
  BY DEF IInv, Employed, Complete, FailCommit, Free
<1>2. worker[w].pc \in Doing /\ Goto(w, "idle", NoJob) /\ UNCHANGED raced
  BY DEF Complete, FailCommit, Doing
<1>3. row'[j].status \in {"completed", "pending", "dead"}
  <2>1. CASE Complete(w)
    BY <1>1, <2>1 DEF Complete, IInv, TypeOK
  <2>2. CASE FailCommit(w)
    <3>1. row'[j] = AfterFailure(row[j], worker[w].tries)
      BY <1>1, <2>2 DEF FailCommit, IInv, TypeOK
    <3> QED BY <3>1 DEF AfterFailure, IInv, TypeOK
  <2> QED BY <2>1, <2>2
<1>4. \A k \in Jobs : k # j => row'[k] = row[k]
  BY <1>1 DEF Complete, FailCommit, IInv, TypeOK
<1>5. CASE j \in raced
  BY <1>1, <1>2, <1>4, <1>5, Leaves, Stutters
<1>6. CASE j \notin raced
  <2>1. /\ jobHolders[j] = {w} /\ jobState[j] = "taken"
        /\ jobHolders' = [jobHolders EXCEPT ![j] = {}]
    BY <1>1, <1>2, <1>6, Leaves
  <2>2. Standing(row'[j].status) \in {"finished", "queued", "buried"}
    BY <1>3 DEF Standing
  <2>3. jobState' = [jobState EXCEPT ![j] = Standing(row'[j].status)]
    BY <1>2, <1>4, <1>6, OneState
  <2> QED BY <2>1, <2>2, <2>3 DEF Promise!Next, Promise!Settle, Promise!Move
<1> QED BY <1>5, <1>6

(* A crash abandons the job, or nothing. *)
LEMMA LoseKeeps ==
  ASSUME IInv, NEW w \in Workers, Lose(w) PROVE Promise!Next \/ UNCHANGED Promise!vars
<1>1. Goto(w, "idle", NoJob) /\ UNCHANGED <<row, raced>>
  BY DEF Lose
<1>2. UNCHANGED jobState
  BY <1>1 DEF jobState
<1>3. CASE worker[w].pc \in Doing
  <2>1. PICK j \in Jobs : j = worker[w].job
    BY <1>3 DEF IInv, Employed, Free, Doing
  <2>2. CASE j \in raced
    BY <1>1, <1>3, <2>1, <2>2, Leaves, Stutters
  <2>3. CASE j \notin raced
    BY <1>1, <1>2, <1>3, <2>1, <2>3, Leaves DEF Promise!Next, Promise!Abandon
  <2> QED BY <2>2, <2>3
<1>4. CASE worker[w].pc \notin Doing
  <2>1. \A v \in Workers, j \in Jobs : Executes(v, j)' <=> Executes(v, j)
    BY <1>1, <1>4 DEF IInv, TypeOK, Executes, Goto, At, Doing
  <2> QED BY <1>1, <2>1, Stutters
<1> QED BY <1>3, <1>4

(* A worker that looks for a job shows nothing, unless somebody else has   *)
(* read the same row.                                                      *)
LEMMA SearchKeeps ==
  ASSUME IInv, NEW w \in Workers, Look(w) \/ Remove(w) \/ Find(w) \/ Poll(w)
  PROVE  Promise!Next \/ UNCHANGED Promise!vars
<1>1. PICK pc \in {"seen", "removed", "found", "locked", "poll", "idle"}, i \in Jobs \cup {NoJob} :
        Goto(w, pc, i)
  <2>1. CASE Look(w)
    BY <2>1 DEF Look, First, IInv, TypeOK
  <2>2. CASE Remove(w) \/ Find(w)
    BY <2>2 DEF Remove, Find, IInv, TypeOK
  <2>3. CASE Poll(w)
    BY <2>3 DEF Poll, First, Eligible
  <2> QED BY <2>1, <2>2, <2>3
<1>2. \A v \in Workers, k \in Jobs : Executes(v, k)' <=> Executes(v, k)
  <2>1. worker[w].pc \notin Doing
    BY DEF Look, Remove, Find, Poll, Doing
  <2>2. worker'[w].pc \notin Doing /\ \A v \in Workers \ {w} : worker'[v] = worker[v]
    BY <1>1 DEF Goto, At, IInv, TypeOK, Doing
  <2> QED BY <2>1, <2>2 DEF Executes, Doing
<1>3. row' = row
  BY DEF Look, Remove, Find, Poll
<1>4. CASE raced' = raced
  BY <1>2, <1>3, <1>4, Stutters
<1>5. CASE raced' # raced
  <2>1. PICK j \in Jobs : RacedIf(j, Picked(j)) /\ row[j].status = "pending"
    <3>1. CASE Look(w) \/ Remove(w)
      BY <1>5, <3>1 DEF Look, Remove
    <3>2. CASE Find(w)
      BY <1>5, <3>2 DEF Find, IInv, Employed, Free
    <3>3. CASE Poll(w)
      BY <1>5, <3>3 DEF Poll, First, Eligible
    <3> QED BY <3>1, <3>2, <3>3
  <2>2. raced' \in {raced, raced \cup {j}}
    BY <2>1 DEF RacedIf
  <2> QED BY <1>2, <1>3, <2>1, <2>2, ClashKeeps
<1> QED BY <1>4, <1>5

LEMMA FailKeeps ==
  ASSUME IInv, NEW w \in Workers, Fail(w) PROVE UNCHANGED Promise!vars
<1>1. /\ worker[w].pc = "running" /\ worker'[w].pc = "failing" /\ worker'[w].job = worker[w].job
      /\ \A v \in Workers \ {w} : worker'[v] = worker[v]
      /\ UNCHANGED <<row, raced>>
  BY DEF Fail, IInv, TypeOK
<1> QED BY <1>1, Stutters DEF Executes

LEMMA TickKeeps ==
  ASSUME IInv, NEW j \in Jobs, Tick(j) PROVE UNCHANGED Promise!vars
<1>1. \A k \in Jobs : row'[k].status = row[k].status
  BY DEF Tick, IInv, TypeOK
<1> QED BY <1>1, Stutters DEF Tick, Executes

(* The queue does what WorkQueue promises, with Redis or without: one      *)
(* holder per job, a verdict only from the holder, only a dead job is      *)
(* revived, and a job that is carried out is never raced for.              *)
THEOREM QueueKeepsPromise == Spec => KeepsPromise
<1>1. Init => Promise!Init
  BY DEF Init, Promise!Init, jobState, jobHolders, Standing, Executes, Idle, At
<1>2. ASSUME IInv, [Next]_vars PROVE Promise!Next \/ UNCHANGED Promise!vars
  <2>1. CASE RedisChange \/ UNCHANGED vars
    <3>1. UNCHANGED <<row, worker, raced>>
      BY <2>1 DEF RedisChange, vars
    <3> QED BY <3>1, Stutters DEF Executes
  <2> QED BY <1>2, <2>1, StartKeeps, CommitKeeps, AbortKeeps, ClaimKeeps, VerdictKeeps, LoseKeeps,
             SearchKeeps, FailKeeps, TickKeeps DEF Next, WorkerStep
<1>3. IInv /\ [Next]_vars => [Promise!Next]_Promise!vars
  BY <1>2
<1> QED BY <1>1, <1>3, AlwaysIInv, PTL DEF Spec, KeepsPromise, Promise!Spec
-----------------------------------------------------------------------------
(* Whose work a stranded job is *)

Lost == {j \in Jobs : Stranded(j)}

(* A worker leaves a job with a verdict, and starts one that is running.   *)
LEMMA LostByWorker ==
  ASSUME TypeOK, Employed, NEW w \in Workers, WorkerStep(w)
  PROVE  Lost' \subseteq Lost
<1> DEFINE j == worker[w].job
<1> SUFFICES ASSUME NEW k \in Jobs, Stranded(k)' PROVE Stranded(k)
  BY DEF Lost
<1>1. row'[k].status = "running" /\ \A v \in Workers : ~Executes(v, k)'
  BY DEF Stranded
<1>2. \A v \in Workers \ {w} : worker'[v] = worker[v]
  BY DEF WorkerStep, Look, Remove, Find, Poll, Claim, Complete, Fail, FailCommit, Goto, TypeOK
<1>3. \A v \in Workers \ {w} : ~Executes(v, k)
  BY <1>1, <1>2 DEF Executes
<1>4. CASE Look(w) \/ Remove(w) \/ Find(w) \/ Poll(w)
  <2>1. row' = row /\ ~Executes(w, k) BY <1>4 DEF Look, Remove, Find, Poll, Executes
  <2> QED BY <1>1, <1>3, <2>1 DEF Stranded
<1>5. CASE Claim(w)
  <2>1. /\ worker'[w].pc = "running" /\ worker'[w].job = j
        /\ row' = [row EXCEPT ![j].status = "running"]
        /\ ~Executes(w, k)
    BY <1>5 DEF Claim, Executes, TypeOK
  <2>2. k # j BY <1>1, <2>1 DEF Executes
  <2>3. row'[k] = row[k] BY <2>1, <2>2 DEF TypeOK
  <2> QED BY <1>1, <1>3, <2>1, <2>3 DEF Stranded
<1>6. CASE Complete(w) \/ FailCommit(w)
  <2>1. PICK r : row' = [row EXCEPT ![j] = r] /\ r.status # "running"
    <3>1. CASE Complete(w)
      <4>1. row' = [row EXCEPT ![j] = [row[j] EXCEPT !.status = "completed"]]
        BY <3>1 DEF Complete
      <4>2. j \in Jobs BY <3>1 DEF Complete, Employed, Free
      <4>3. [row[j] EXCEPT !.status = "completed"].status = "completed" BY <4>2 DEF TypeOK
      <4> QED BY <4>1, <4>3
    <3>2. CASE FailCommit(w)
      <4>1. row' = [row EXCEPT ![j] = AfterFailure(row[j], worker[w].tries)]
        BY <3>2 DEF FailCommit
      <4>2. j \in Jobs BY <3>2 DEF FailCommit, Employed, Free
      <4>3. AfterFailure(row[j], worker[w].tries).status \in {"pending", "dead"}
        BY <4>2 DEF AfterFailure, TypeOK
      <4> QED BY <4>1, <4>3
    <3> QED BY <1>6, <3>1, <3>2
  <2>2. k # j BY <1>1, <2>1 DEF TypeOK
  <2>3. row'[k] = row[k] BY <2>1, <2>2 DEF TypeOK
  <2>4. ~Executes(w, k) BY <2>2 DEF Executes
  <2> QED BY <1>1, <1>3, <2>3, <2>4 DEF Stranded
<1>7. CASE Fail(w)
  <2>1. row' = row /\ worker'[w].pc = "failing" /\ worker'[w].job = j BY <1>7 DEF Fail, TypeOK
  <2>2. ~Executes(w, k) BY <1>1, <2>1 DEF Executes
  <2> QED BY <1>1, <1>3, <2>1, <2>2 DEF Stranded
<1> QED BY <1>4, <1>5, <1>6, <1>7 DEF WorkerStep

LEMMA LostByRequest ==
  ASSUME TypeOK, NEW c \in Clients, Commit(c) \/ Abort(c) \/ \E j \in Jobs : Enqueue(c, j) \/ Revive(c, j)
  PROVE  Lost' \subseteq Lost
<1> DEFINE j == client[c].job
<1> SUFFICES ASSUME NEW k \in Jobs, Stranded(k)' PROVE Stranded(k)
  BY DEF Lost
<1>1. \A w \in Workers : ~Executes(w, k)
  BY DEF Stranded, Executes, Commit, Abort, Enqueue, Revive
<1>2. row'[k].status = "running" BY DEF Stranded
<1>3. row[k].status = "running"
  <2>1. CASE Commit(c)
    <3>1. k # j BY <1>2, <2>1 DEF Commit, TypeOK
    <3> QED BY <1>2, <2>1, <3>1 DEF Commit, TypeOK
  <2>2. CASE Abort(c)
    <3>1. CASE client[c].pc = "enqueue"
      <4>1. row' = [row EXCEPT ![j].status = "aborted"] BY <2>2, <3>1 DEF Abort
      <4>2. k # j BY <1>2, <4>1 DEF TypeOK
      <4> QED BY <1>2, <4>1, <4>2 DEF TypeOK
    <3>2. CASE client[c].pc # "enqueue" BY <1>2, <2>2, <3>2 DEF Abort
    <3> QED BY <3>1, <3>2
  <2>3. CASE \E i \in Jobs : Enqueue(c, i) \/ Revive(c, i)
    BY <1>2, <2>3 DEF Enqueue, Revive
  <2> QED BY <2>1, <2>2, <2>3
<1> QED BY <1>1, <1>3 DEF Stranded

LEMMA LostByCrash ==
  ASSUME TypeOK, NEW w \in Workers, Lose(w)
  PROVE  Lost' \subseteq Lost \cup {worker[w].job}
<1> SUFFICES ASSUME NEW k \in Jobs, Stranded(k)', k # worker[w].job PROVE Stranded(k)
  BY DEF Lost
<1>1. row' = row /\ \A v \in Workers \ {w} : worker'[v] = worker[v]
  BY DEF Lose, Goto, TypeOK
<1>2. \A v \in Workers : ~Executes(v, k)
  BY <1>1 DEF Stranded, Executes
<1> QED BY <1>1, <1>2 DEF Stranded

(* However many workers and requests there are, with or without Redis,     *)
(* there are never more jobs left running by nobody than crashes.          *)
THEOREM CrashesStrand == Spec => []OnlyCrashesStrand
<1> DEFINE J == IsFiniteSet(Lost) /\ Cardinality(Lost) <= crashes
<1>1. Init => J
  <2> SUFFICES ASSUME Init PROVE J OBVIOUS
  <2>1. Lost = {} BY DEF Init, Lost, Stranded
  <2> QED BY <2>1, FS_EmptySet DEF Init
<1>2. ASSUME TypeOK, Employed, J, [Next]_vars PROVE J'
  <2>1. CASE Lost' \subseteq Lost /\ crashes' = crashes
    <3>1. IsFiniteSet(Lost') /\ Cardinality(Lost') <= Cardinality(Lost) BY <1>2, <2>1, FS_Subset
    <3>2. Cardinality(Lost) \in Nat /\ Cardinality(Lost') \in Nat
      BY <1>2, <3>1, FS_CardinalityType
    <3> QED BY <1>2, <2>1, <3>1, <3>2 DEF TypeOK
  <2>2. ASSUME NEW w \in Workers, Lose(w) PROVE J'
    <3> DEFINE T == Lost \cup {worker[w].job}
    <3>1. IsFiniteSet(T) /\ Cardinality(T) <= Cardinality(Lost) + 1
      <4>1. /\ IsFiniteSet(T)
            /\ Cardinality(T) = IF worker[w].job \in Lost THEN Cardinality(Lost) ELSE Cardinality(Lost) + 1
        BY <1>2, FS_AddElement
      <4> QED BY <1>2, <4>1, FS_CardinalityType
    <3>2. Lost' \subseteq T BY <1>2, <2>2, LostByCrash
    <3> HIDE DEF T
    <3>3. IsFiniteSet(Lost') /\ Cardinality(Lost') <= Cardinality(T) BY <3>1, <3>2, FS_Subset
    <3>4. /\ Cardinality(Lost) \in Nat /\ Cardinality(Lost') \in Nat /\ Cardinality(T) \in Nat
      BY <1>2, <3>1, <3>3, FS_CardinalityType
    <3>5. crashes' = crashes + 1 /\ crashes \in Nat BY <1>2, <2>2 DEF Lose, TypeOK
    <3> QED BY <1>2, <3>1, <3>3, <3>4, <3>5
  <2>3. ASSUME NEW w \in Workers, WorkerStep(w) PROVE J'
    <3>1. crashes' = crashes
      BY <2>3 DEF WorkerStep, Look, Remove, Find, Poll, Claim, Complete, Fail, FailCommit
    <3> QED BY <1>2, <2>1, <2>3, <3>1, LostByWorker
  <2>4. ASSUME NEW c \in Clients,
               Commit(c) \/ Abort(c) \/ \E j \in Jobs : Enqueue(c, j) \/ Revive(c, j)
        PROVE  J'
    <3>1. crashes' = crashes BY <2>4 DEF Commit, Abort, Enqueue, Revive
    <3> QED BY <1>2, <2>1, <2>4, <3>1, LostByRequest
  <2>5. ASSUME NEW j \in Jobs, Tick(j) PROVE J'
    <3>1. \A k \in Jobs : row'[k].status = row[k].status BY <1>2, <2>5 DEF Tick, TypeOK
    <3>2. Lost' \subseteq Lost BY <2>5, <3>1 DEF Lost, Stranded, Executes, Tick
    <3> QED BY <2>1, <2>5, <3>2 DEF Tick
  <2>6. CASE RedisChange \/ UNCHANGED vars
    <3>1. UNCHANGED <<row, worker, crashes>> BY <2>6 DEF RedisChange, vars
    <3>2. Lost' \subseteq Lost BY <3>1 DEF Lost, Stranded, Executes
    <3> QED BY <2>1, <3>1, <3>2
  <2> QED BY <1>2, <2>2, <2>3, <2>4, <2>5, <2>6 DEF Next
<1>3. J => OnlyCrashesStrand BY DEF OnlyCrashesStrand, Lost
<1> QED BY <1>1, <1>2, <1>3, AlwaysTyped, PTL DEF Spec
-----------------------------------------------------------------------------
(* Without Redis *)

Polling   == ~RedisConfigured
OneClient == \A c, d \in Clients : c = d

(* Nobody finds anything in Redis. *)
NoRedis == /\ up = FALSE /\ queue = {}
           /\ \A w \in Workers : worker[w].pc \notin {"seen", "removed", "found"}

LEMMA PollingOnly == ASSUME Polling PROVE Spec => []NoRedis
<1>1. Init => NoRedis
  BY DEF Polling, Init, NoRedis, Idle, At
<1>2. ASSUME TypeOK, NoRedis, [Next]_vars PROVE NoRedis'
  <2>1. ~RedisChange
    BY DEF Polling, RedisChange
  <2>2. up' = FALSE /\ queue' = {}
    BY <1>2, <2>1 DEF Next, WorkerStep, NoRedis, Pushed, vars, Enqueue, Revive, Commit, Abort,
          Look, Remove, Find, Poll, Claim, Complete, Fail, FailCommit, Lose, Tick
  <2>3. ASSUME NEW w \in Workers, WorkerStep(w) \/ Lose(w) PROVE NoRedis'
    <3>1. ~Remove(w) /\ ~Find(w)
      BY <1>2 DEF NoRedis, Remove, Find
    <3>2. /\ worker'[w].pc \in {"poll", "locked", "idle", "running", "failing"}
          /\ \A v \in Workers \ {w} : worker'[v] = worker[v]
      BY <1>2, <2>3, <3>1 DEF WorkerStep, NoRedis, TypeOK, Goto, At, Look, Poll, First, Eligible,
            Claim, Complete, Fail, FailCommit, Lose
    <3> QED BY <1>2, <2>2, <3>2 DEF NoRedis
  <2>4. worker' = worker => NoRedis'
    BY <1>2, <2>2 DEF NoRedis
  <2> QED BY <1>2, <2>1, <2>3, <2>4 DEF Next, vars, Enqueue, Revive, Commit, Abort, Tick
<1> QED BY <1>1, <1>2, AlwaysTyped, PTL DEF Spec

(* Without Redis only requests race for a job: the row lock of the poll    *)
(* lasts from its read to its commit (dequeue's FOR UPDATE SKIP LOCKED).   *)
THEOREM PollsNeverRace == ASSUME Polling PROVE Spec => OnlyRequestsRace
<1>1. ASSUME TypeOK, NoRedis, [Next]_vars, raced' # raced PROVE client' # client
  <2>1. ASSUME NEW w \in Workers, WorkerStep(w) \/ Lose(w) PROVE FALSE
    <3>1. Poll(w)
      BY <1>1, <2>1 DEF WorkerStep, NoRedis, Look, Remove, Find, Claim, Complete, Fail, FailCommit, Lose
    <3>2. PICK j \in Eligible : Picked(j)
      BY <1>1, <3>1 DEF Poll, First, RacedIf
    <3> QED BY <1>1, <3>2 DEF NoRedis, Eligible, Picked, Locked
  <2>2. PICK c \in Clients, j \in Jobs : Revive(c, j)
    BY <1>1, <2>1 DEF Next, vars, Enqueue, Commit, Abort, Tick, RedisChange
  <2>3. client[c].pc = "idle" /\ client'[c].pc = "revive"
    BY <1>1, <2>2 DEF Revive, Idle, At, TypeOK
  <2> QED BY <2>3
<1>2. TypeOK /\ NoRedis /\ [Next]_vars => [raced' # raced => client' # client]_vars
  BY <1>1
<1> QED BY <1>2, AlwaysTyped, PollingOnly, PTL DEF Spec, OnlyRequestsRace

NobodyRaces == raced = {}

(* Without Redis, and with one request at a time, nobody races at all: the *)
(* theorems about undisputed jobs then speak of every job.                 *)
THEOREM PollingNeverRaces == ASSUME Polling, OneClient PROVE Spec => []NobodyRaces
<1>1. Init => NobodyRaces
  BY DEF Init, NobodyRaces
<1>2. ASSUME TypeOK, NoRedis, NobodyRaces, [Next]_vars PROVE NobodyRaces'
  <2>1. ASSUME NEW c \in Clients, NEW j \in Jobs, Revive(c, j) PROVE NobodyRaces'
    <3>1. ~Asked(j)
      BY <2>1, JobQueueAssumption DEF OneClient, Revive, Asked, Idle, At
    <3> QED BY <1>2, <2>1, <3>1 DEF Revive, RacedIf, NobodyRaces
  <2>2. ASSUME NEW w \in Workers, WorkerStep(w) \/ Lose(w) PROVE NobodyRaces'
    <3>1. CASE Poll(w)
      <4>1. \A j \in Eligible : ~Picked(j)
        BY <1>2 DEF NoRedis, Eligible, Picked, Locked
      <4> QED BY <1>2, <3>1, <4>1 DEF Poll, First, RacedIf, NobodyRaces
    <3>2. CASE ~Poll(w)
      BY <1>2, <2>2, <3>2 DEF WorkerStep, NoRedis, Look, Remove, Find, Claim, Complete, Fail, FailCommit, Lose, NobodyRaces
    <3> QED BY <3>1, <3>2
  <2> QED BY <1>2, <2>1, <2>2 DEF Next, vars, Enqueue, Commit, Abort, Tick, RedisChange, NobodyRaces
<1> QED BY <1>1, <1>2, AlwaysTyped, PollingOnly, PTL DEF Spec

(* A job that is being enqueued has no row yet, and no worker has it. *)
Fresh ==
  /\ \A c \in Clients : client[c].pc = "enqueue" =>
       /\ row[client[c].job].status = "absent"
       /\ \A d \in Clients \ {c} : client[d].job # client[c].job
  /\ \A w \in Workers : worker[w].pc \in Holding => row[worker[w].job].status # "absent"

(* What a poll has locked is due and stays so, and no other poll has it. *)
Waited ==
  \A w \in Workers : worker[w].pc = "locked" =>
    /\ row[worker[w].job].status = "pending" /\ row[worker[w].job].due
    /\ \A v \in Workers \ {w} : worker[v].pc = "locked" => worker[v].job # worker[w].job

LEMMA FreshHolds == Spec => []Fresh
<1>1. Init => Fresh
  BY DEF Init, Fresh, Idle, At, Holding, Doing
<1>2. ASSUME TypeOK, Employed, Occupied, Fresh, [Next]_vars PROVE Fresh'
  <2>1. ASSUME NEW c \in Clients, NEW j \in Jobs, Enqueue(c, j) \/ Revive(c, j) PROVE Fresh'
    <3>1. PICK pc \in {"enqueue", "revive"} :
            /\ client' = [client EXCEPT ![c] = At(pc, j)]
            /\ pc = "enqueue" => row[j].status = "absent" /\ ~Asked(j)
            /\ pc = "revive"  => row[j].status = "dead"
      BY <2>1 DEF Enqueue, Revive, Revivable
    <3>2. /\ client'[c].pc = pc /\ client'[c].job = j
          /\ \A d \in Clients \ {c} : client'[d] = client[d]
          /\ UNCHANGED <<row, worker>>
      BY <1>2, <2>1, <3>1 DEF TypeOK, At, Enqueue, Revive
    <3> QED BY <1>2, <3>1, <3>2 DEF Fresh, Asked
  <2>2. ASSUME NEW c \in Clients, Commit(c) \/ Abort(c) PROVE Fresh'
    <3>1. PICK j \in Jobs : j = client[c].job
      BY <1>2, <2>2 DEF Occupied, Commit, Abort
    <3>2. /\ client'[c] = Idle /\ \A d \in Clients \ {c} : client'[d] = client[d]
          /\ \A k \in Jobs : k # j => row'[k] = row[k]
          /\ row'[j].status # "absent" \/ row' = row
          /\ worker' = worker
      <4>1. CASE Commit(c)
        BY <1>2, <3>1, <4>1 DEF TypeOK, Commit
      <4>2. CASE Abort(c)
        <5>1. \/ row' = row
              \/ row' = [row EXCEPT ![j] = [row[j] EXCEPT !.status = "aborted"]]
          BY <3>1, <4>2 DEF Abort
        <5>2. client' = [client EXCEPT ![c] = Idle] /\ worker' = worker
          BY <4>2 DEF Abort
        <5> QED BY <1>2, <5>1, <5>2 DEF TypeOK
      <4> QED BY <2>2, <4>1, <4>2
    <3>3. ASSUME NEW d \in Clients \ {c}, client[d].pc = "enqueue" PROVE client[d].job # j
      BY <1>2, <3>1, <3>3 DEF Fresh
    <3>4. ASSUME NEW w \in Workers, worker[w].pc \in Holding
          PROVE  worker[w].job \in Jobs /\ row'[worker[w].job].status # "absent"
      BY <1>2, <3>2, <3>4 DEF Fresh, Employed, Free, Holding, Doing
    <3>5. ASSUME NEW d \in Clients \ {c}, client[d].pc = "enqueue"
          PROVE  /\ row'[client[d].job].status = "absent"
                 /\ \A e \in Clients \ {d} : client'[e].job # client[d].job
      <4>1. client[d].job \in Jobs
        BY <1>2, <3>5 DEF Occupied, Idle, At
      <4> QED BY <1>2, <3>2, <3>3, <3>5, <4>1, JobQueueAssumption DEF Fresh, Idle, At
    <3> QED BY <3>2, <3>4, <3>5 DEF Fresh, Idle, At
  <2>3. ASSUME NEW w \in Workers, WorkerStep(w) \/ Lose(w) PROVE Fresh'
    <3>1. \A k \in Jobs : row[k].status # "absent" <=> row'[k].status # "absent"
      <4>1. CASE row' = row
        BY <4>1
      <4>2. CASE Claim(w) \/ Complete(w) \/ FailCommit(w)
        <5>1. PICK j \in Jobs : j = worker[w].job /\ row[j].status # "absent"
          BY <1>2, <4>2 DEF Employed, Fresh, Claim, Complete, FailCommit, Free, Holding, Doing
        <5>2. PICK r : row' = [row EXCEPT ![j] = r] /\ r.status # "absent"
          <6>1. CASE Claim(w)
            <7>1. row' = [row EXCEPT ![j] = [row[j] EXCEPT !.status = "running"]]
              BY <5>1, <6>1 DEF Claim
            <7>2. [row[j] EXCEPT !.status = "running"].status = "running"
              BY <1>2 DEF TypeOK
            <7> QED BY <7>1, <7>2
          <6>2. CASE Complete(w)
            <7>1. row' = [row EXCEPT ![j] = [row[j] EXCEPT !.status = "completed"]]
              BY <5>1, <6>2 DEF Complete
            <7>2. [row[j] EXCEPT !.status = "completed"].status = "completed"
              BY <1>2 DEF TypeOK
            <7> QED BY <7>1, <7>2
          <6>3. CASE FailCommit(w)
            <7>1. row' = [row EXCEPT ![j] = AfterFailure(row[j], worker[w].tries)]
              BY <5>1, <6>3 DEF FailCommit
            <7>2. AfterFailure(row[j], worker[w].tries).status \in {"pending", "dead"}
              BY <1>2 DEF AfterFailure, TypeOK
            <7> QED BY <7>1, <7>2
          <6> QED BY <4>2, <6>1, <6>2, <6>3
        <5>3. row'[j].status # "absent" /\ \A k \in Jobs : k # j => row'[k] = row[k]
          BY <1>2, <5>2 DEF TypeOK
        <5> QED BY <5>1, <5>3
      <4> QED BY <2>3, <4>1, <4>2 DEF WorkerStep, Look, Remove, Find, Poll, Fail, Lose
    <3>2. client' = client /\ \A v \in Workers \ {w} : worker'[v] = worker[v]
      BY <1>2, <2>3 DEF TypeOK, WorkerStep, Look, Remove, Find, Poll, Claim, Complete, Fail,
            FailCommit, Lose, Goto
    <3>3. worker'[w].pc \in Holding => worker'[w].job \in Jobs /\ row[worker'[w].job].status # "absent"
      <4>1. CASE Find(w)
        BY <1>2, <4>1 DEF Find, Goto, At, Employed, Free, TypeOK, Holding, Doing
      <4>2. CASE Poll(w)
        BY <1>2, <4>2 DEF Poll, First, Eligible, Goto, At, TypeOK, Holding, Doing
      <4>3. CASE Claim(w) \/ Fail(w)
        <5>1. worker'[w].job = worker[w].job /\ worker[w].pc \in Holding
          BY <1>2, <4>3 DEF Claim, Fail, TypeOK, Holding, Doing
        <5> QED BY <1>2, <5>1 DEF Fresh, Employed, Free, Holding, Doing
      <4>4. CASE Look(w) \/ Remove(w) \/ Complete(w) \/ FailCommit(w) \/ Lose(w)
        BY <1>2, <4>4 DEF Look, Remove, Complete, FailCommit, Lose, Goto, At, TypeOK, Holding, Doing
      <4> QED BY <2>3, <4>1, <4>2, <4>3, <4>4 DEF WorkerStep
    <3>4. ASSUME NEW v \in Workers, worker'[v].pc \in Holding PROVE row'[worker'[v].job].status # "absent"
      <4>1. worker'[v].job \in Jobs /\ row[worker'[v].job].status # "absent"
        BY <1>2, <3>2, <3>3, <3>4 DEF Fresh, Employed, Free, Holding, Doing
      <4> QED BY <3>1, <4>1
    <3>5. ASSUME NEW c \in Clients, client[c].pc = "enqueue" PROVE row'[client[c].job].status = "absent"
      <4>1. client[c].job \in Jobs
        BY <1>2, <3>5 DEF Occupied, Idle, At
      <4> QED BY <1>2, <3>1, <3>5, <4>1 DEF Fresh
    <3> QED BY <1>2, <3>2, <3>4, <3>5 DEF Fresh
  <2>4. ASSUME NEW j \in Jobs, Tick(j) PROVE Fresh'
    <3>1. \A k \in Jobs : row'[k].status = row[k].status
      BY <1>2, <2>4 DEF Tick, TypeOK
    <3>2. \A c \in Clients : client[c].pc = "enqueue" => client[c].job \in Jobs
      BY <1>2 DEF Occupied, Idle, At
    <3>3. \A w \in Workers : worker[w].pc \in Holding => worker[w].job \in Jobs
      BY <1>2 DEF Employed, Free, Holding, Doing
    <3> QED BY <1>2, <2>4, <3>1, <3>2, <3>3 DEF Fresh, Tick
  <2>5. CASE RedisChange \/ UNCHANGED vars
    BY <1>2, <2>5 DEF RedisChange, vars, Fresh
  <2> QED BY <1>2, <2>1, <2>2, <2>3, <2>4, <2>5 DEF Next
<1> QED BY <1>1, <1>2, AlwaysTyped, AlwaysOccupied, PTL DEF Spec

(* A row that a poll has locked is left as it is by everybody else. *)
LEMMA LockedStays ==
  ASSUME TypeOK, Employed, Occupied, Fresh, NoRedis, Waited, [Next]_vars,
         NEW w \in Workers, worker[w].pc = "locked", worker'[w] = worker[w]
  PROVE  LET j == worker[w].job IN row'[j].status = "pending" /\ row'[j].due
<1>1. PICK j \in Jobs : j = worker[w].job
  BY DEF Employed, Free
<1>2. Locked(j) /\ row[j].status = "pending" /\ row[j].due
  BY <1>1 DEF Locked, Waited
<1>3. ASSUME NEW c \in Clients, Commit(c) \/ Abort(c) PROVE row'[j] = row[j]
  <2>1. PICK k \in Jobs : k = client[c].job
    BY <1>3 DEF Occupied, Commit, Abort
  <2>2. CASE Commit(c)
    <3>1. k # j
      BY <1>2, <2>1, <2>2 DEF Commit
    <3> QED BY <2>1, <2>2, <3>1 DEF Commit, TypeOK
  <2>3. CASE Abort(c) /\ client[c].pc = "enqueue"
    <3>1. k # j
      BY <1>2, <2>1, <2>3 DEF Fresh
    <3> QED BY <2>1, <2>3, <3>1 DEF Abort, TypeOK
  <2>4. CASE Abort(c) /\ client[c].pc # "enqueue"
    BY <2>4 DEF Abort
  <2> QED BY <1>3, <2>2, <2>3, <2>4
<1>4. ASSUME NEW v \in Workers, WorkerStep(v) PROVE row'[j] = row[j]
  <2>1. CASE Claim(v)
    <3>1. PICK k \in Jobs : k = worker[v].job
      BY <2>1 DEF Employed, Claim, Free
    <3>2. worker[v].pc = "locked" /\ worker'[v].pc = "running"
      BY <2>1 DEF NoRedis, Claim, TypeOK
    <3>3. k # j
      BY <1>1, <3>1, <3>2 DEF Waited
    <3> QED BY <2>1, <3>1, <3>3 DEF Claim, TypeOK
  <2>2. CASE Complete(v) \/ FailCommit(v)
    <3>1. PICK k \in Jobs : k = worker[v].job
      BY <2>2 DEF Employed, Complete, FailCommit, Free
    <3>2. k # j
      BY <1>2, <2>2, <3>1 DEF Complete, FailCommit
    <3> QED BY <2>2, <3>1, <3>2 DEF Complete, FailCommit, TypeOK
  <2> QED BY <1>4, <2>1, <2>2 DEF WorkerStep, Look, Remove, Find, Poll, Fail
<1>5. ASSUME NEW k \in Jobs, Tick(k) PROVE row'[j].status = "pending" /\ row'[j].due
  BY <1>2, <1>5 DEF Tick, TypeOK
<1>6. row' = row => row'[j] = row[j]
  OBVIOUS
<1> QED BY <1>1, <1>2, <1>3, <1>4, <1>5, <1>6 DEF Next, vars, Enqueue, Revive, Lose, RedisChange

LEMMA PollsWait == ASSUME Polling PROVE Spec => []Waited
<1>1. Init => Waited
  BY DEF Init, Waited, Idle, At
<1>2. ASSUME TypeOK, Employed, Occupied, Fresh, NoRedis, Waited, [Next]_vars PROVE Waited'
  <2>1. CASE \E w \in Workers : Poll(w)
    <3>1. PICK w \in Workers : Poll(w)
      BY <2>1
    <3>2. row' = row
      BY <3>1 DEF Poll
    <3>3. CASE Eligible = {}
      <4>1. worker'[w].pc = "idle" /\ \A v \in Workers \ {w} : worker'[v] = worker[v]
        BY <1>2, <3>1, <3>3 DEF Poll, Goto, At, TypeOK
      <4> QED BY <1>2, <3>2, <4>1 DEF Waited
    <3>4. CASE Eligible # {}
      <4>1. PICK j \in Eligible : Goto(w, "locked", j)
        BY <3>1, <3>4 DEF Poll, First
      <4>2. /\ worker'[w].pc = "locked" /\ worker'[w].job = j
            /\ \A v \in Workers \ {w} : worker'[v] = worker[v]
        BY <1>2, <4>1 DEF Goto, At, TypeOK
      <4>3. /\ row[j].status = "pending" /\ row[j].due
            /\ \A v \in Workers : worker[v].pc = "locked" => worker[v].job # j
        BY DEF Eligible, Locked
      <4> QED BY <1>2, <3>2, <4>2, <4>3 DEF Waited
    <3> QED BY <3>3, <3>4
  <2>2. CASE ~\E w \in Workers : Poll(w)
    <3>1. \A w \in Workers : worker'[w].pc = "locked" => worker'[w] = worker[w]
      <4>1. ASSUME NEW w \in Workers, WorkerStep(w) \/ Lose(w), NEW v \in Workers, worker'[v].pc = "locked"
            PROVE  worker'[v] = worker[v]
        <5>1. CASE v = w
          BY <1>2, <2>2, <4>1, <5>1 DEF WorkerStep, Look, Remove, Find, Claim, Complete, Fail,
                FailCommit, Lose, Goto, At, TypeOK
        <5>2. CASE v # w
          BY <1>2, <2>2, <4>1, <5>2 DEF WorkerStep, Look, Remove, Find, Claim, Complete, Fail,
                FailCommit, Lose, Goto, At, TypeOK
        <5> QED BY <5>1, <5>2
      <4> QED BY <1>2, <4>1 DEF Next, vars, Enqueue, Revive, Commit, Abort, Tick, RedisChange
    <3> QED BY <1>2, <3>1, LockedStays DEF Waited
  <2> QED BY <2>1, <2>2
<1> QED BY <1>1, <1>2, AlwaysTyped, AlwaysOccupied, FreshHolds, PollingOnly, PTL DEF Spec

(* Without Redis no job is started before its time, raced for or not: a    *)
(* poll compares the time, and the lock it takes keeps the row as it was.  *)
THEOREM PollingHonoursDelay == ASSUME Polling PROVE Spec => DelayHonoured
<1>1. ASSUME TypeOK, Employed, Occupied, NoRedis, Waited, [Next]_vars,
             NEW j \in Jobs, row[j].status = "pending", row'[j].status = "running"
      PROVE  row[j].due
  <2>1. ASSUME NEW w \in Workers, Claim(w) PROVE row[j].due
    <3>1. j = worker[w].job
      BY <1>1, <2>1 DEF Claim, TypeOK
    <3>2. worker[w].pc = "locked"
      BY <1>1, <2>1 DEF Claim, NoRedis
    <3> QED BY <1>1, <3>1, <3>2 DEF Waited
  <2>2. ASSUME NEW w \in Workers, Complete(w) \/ FailCommit(w) PROVE FALSE
    <3>1. PICK k \in Jobs : k = worker[w].job
      BY <1>1, <2>2 DEF Employed, Complete, FailCommit, Free
    <3>2. k # j => row'[j] = row[j]
      BY <1>1, <2>2, <3>1 DEF Complete, FailCommit, TypeOK
    <3>3. CASE Complete(w) /\ k = j
      BY <1>1, <3>1, <3>3 DEF Complete, TypeOK
    <3>4. CASE FailCommit(w) /\ k = j
      BY <1>1, <3>1, <3>4 DEF FailCommit, AfterFailure, TypeOK
    <3> QED BY <1>1, <2>2, <3>2, <3>3, <3>4
  <2>3. ASSUME NEW c \in Clients, Commit(c) \/ Abort(c) PROVE FALSE
    <3>1. PICK k \in Jobs : k = client[c].job
      BY <1>1, <2>3 DEF Occupied, Commit, Abort
    <3>2. \/ row' = row
          \/ \E r : row' = [row EXCEPT ![k] = r] /\ r.status # "running"
      <4>1. CASE Commit(c)
        <5>1. PICK due : row' = [row EXCEPT ![k] = [status |-> "pending", retries |-> 0, due |-> due]]
          BY <3>1, <4>1 DEF Commit
        <5> DEFINE r == [status |-> "pending", retries |-> 0, due |-> due]
        <5>2. row' = [row EXCEPT ![k] = r] /\ r.status # "running"
          BY <5>1
        <5> HIDE DEF r
        <5> QED BY <5>2
      <4>2. CASE Abort(c) /\ client[c].pc = "enqueue"
        <5>1. row' = [row EXCEPT ![k] = [row[k] EXCEPT !.status = "aborted"]]
          BY <3>1, <4>2 DEF Abort
        <5>2. [row[k] EXCEPT !.status = "aborted"].status = "aborted"
          BY <1>1 DEF TypeOK
        <5> QED BY <5>1, <5>2
      <4>3. CASE Abort(c) /\ client[c].pc # "enqueue"
        BY <4>3 DEF Abort
      <4> QED BY <2>3, <4>1, <4>2, <4>3
    <3> QED BY <1>1, <3>2 DEF TypeOK
  <2>4. ASSUME NEW k \in Jobs, Tick(k) PROVE FALSE
    BY <1>1, <2>4 DEF Tick, TypeOK
  <2>5. row' = row => FALSE
    BY <1>1
  <2> QED BY <1>1, <2>1, <2>2, <2>3, <2>4, <2>5
          DEF Next, WorkerStep, vars, Enqueue, Revive, Look, Remove, Find, Poll, Fail, Lose, RedisChange
<1>2. TypeOK /\ Employed /\ Occupied /\ NoRedis /\ Waited /\ [Next]_vars =>
        [\A j \in Jobs : row[j].status = "pending" /\ row'[j].status = "running" => row[j].due]_vars
  BY <1>1
<1> QED BY <1>2, AlwaysTyped, AlwaysOccupied, PollingOnly, PollsWait, PTL DEF Spec, DelayHonoured
=============================================================================
