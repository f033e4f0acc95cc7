---------------------------- MODULE ApprovalProofs ----------------------------
(***************************************************************************)
(* What the period screens say about a set of locks, and what the approval *)
(* gate keeps for any number of jobs, requests, locks and days.            *)
(***************************************************************************)
EXTENDS AgentApproval, FiniteSetTheorems, TLAPS

(* The comparison of ends in _find_overlapping_lock finds exactly the      *)
(* ranges that have a day in common, wherever the days lie.                *)
THEOREM OverlapIsASharedDay ==
  ASSUME NEW s \in Span, NEW t \in Span
  PROVE  Overlaps(s, t) <=> DaysOf(s) \cap DaysOf(t) # {}
<1> USE DaysAssumption
<1>1. /\ s.from \in Int /\ s.to \in Int /\ s.from <= s.to /\ s.from \in Days
      /\ t.from \in Int /\ t.to \in Int /\ t.from <= t.to /\ t.from \in Days
  BY DEF Span
<1>2. ASSUME NEW d \in DaysOf(s) \cap DaysOf(t) PROVE Overlaps(s, t)
  BY <1>1, <1>2 DEF Overlaps, DaysOf, Holds
<1>3. ASSUME Overlaps(s, t) PROVE \E d \in Days : Holds(s, d) /\ Holds(t, d)
  <2>1. CASE s.from <= t.from
    BY <1>1, <1>3, <2>1 DEF Overlaps, Holds
  <2>2. CASE t.from <= s.from
    BY <1>1, <1>3, <2>2 DEF Overlaps, Holds
  <2> QED BY <1>1, <2>1, <2>2
<1> QED BY <1>2, <1>3 DEF DaysOf

LEMMA SpanStart == ASSUME NEW m \in Span PROVE m.from \in DaysOf(m)
<1>1. m.from \in Days /\ m.from \in Int /\ m.to \in Int /\ m.from <= m.to
  BY DaysAssumption DEF Span
<1> QED BY <1>1 DEF DaysOf, Holds

(* After a close button a month reads back as closed, and after an open    *)
(* button as open, whatever other locks there are: the two buttons and the *)
(* projection agree, although one looks at days and the others at ends.    *)
THEOREM ScreensAgree ==
  ASSUME NEW m \in Span, NEW S \in SUBSET Span
  PROVE  /\ ProjectMonth(S \cup {m}, m) = "closed"
         /\ ProjectMonth(AfterOpen(S, m), m) = "open"
<1>1. m.from \in DaysOf(m)
  BY SpanStart
<1>2. {d \in DaysOf(m) : DateLocked(S \cup {m}, d)} = DaysOf(m)
  BY DEF DaysOf, DateLocked
<1>3. {d \in DaysOf(m) : DateLocked(AfterOpen(S, m), d)} = {}
  BY OverlapIsASharedDay DEF DaysOf, DateLocked, AfterOpen
<1> QED BY <1>1, <1>2, <1>3 DEF ProjectMonth

(* A month shown as closed refuses a posting on each of its days, and one  *)
(* shown as open refuses none.                                             *)
THEOREM ShownIsEnforced ==
  ASSUME NEW m \in Span, NEW S \in SUBSET Span, NEW d \in DaysOf(m)
  PROVE  /\ ProjectMonth(S, m) = "closed" => DateLocked(S, d)
         /\ ProjectMonth(S, m) = "open" => ~DateLocked(S, d)
  BY DEF ProjectMonth
-----------------------------------------------------------------------------
ClosePcs == Holding \cup {"stated", "locked"}
AtWork   == ClosePcs \cup {"approve", "reject"}

(* A request at work has a job that exists; only a real close comes as far *)
(* as its lock.                                                            *)
ReqInv ==
  \A r \in Requests :
    /\ req[r].pc \in AtWork => /\ req[r].job \in Jobs
                               /\ job[req[r].job].status # "absent"
    /\ req[r].pc \notin AtWork => req[r].job = NoJob
    /\ req[r].pc \in ClosePcs => RealClose(req[r].job)

JobInv == \A j \in Jobs : /\ job[j].status # "absent" => job[j].span \in Span
                          /\ job[j].status = "absent" => task[j] = "none"

(* The lock of a job is over the job's own range. *)
LockInv ==
  \A l \in LockIds : lock[l].active /\ lock[l].by \in Jobs =>
    /\ job[lock[l].by].status # "absent"
    /\ lock[l].span = job[lock[l].by].span

LockSpanInv == \A l \in LockIds : lock[l].active => lock[l].span \in Span

(* A month button locks a month. *)
ClosingInv == \A r \in Requests : req[r].pc = "closing" => req[r].span \in Span

(* One request at a time holds the row of a job. *)
HoldInv ==
  \A r, q \in Requests :
    req[r].pc \in Holding /\ req[q].pc \in Holding /\ req[r].job = req[q].job => r = q

(* Nobody has locked for a job whose lock is about to be inserted. *)
InsertInv == \A r \in Requests : req[r].pc = "insert" => OwnLocks(req[r].job) = {}

(* Some day of the job's range is locked, or was released. *)
Covered(j) == \/ \E d \in DaysOf(job[j].span) : DateLocked(Locks, d)
              \/ DaysOf(job[j].span) \cap reopened # {}
CoverInv == \A r \in Requests : req[r].pc \in {"locked", "skipped"} => Covered(req[r].job)

(* Of a job whose verdicts came one after the other. *)
Calm(j) ==
  /\ \A r, q \in Deciding(j) : r = q
  /\ Deciding(j) # {} => job[j].status \in {"awaiting_approval", "approved"}
  /\ OwnLocks(j) # {} =>
       /\ RealClose(j)
       /\ \/ \E r \in Deciding(j) : req[r].pc = "locked"
          \/ Deciding(j) = {} /\ job[j].status = "complete"
CalmInv == \A j \in Jobs \ disturbed : Calm(j)

IInv == TypeOK /\ ReqInv /\ JobInv /\ LockInv /\ LockSpanInv /\ ClosingInv /\ HoldInv
        /\ InsertInv /\ OneLockPerJob /\ CoverInv /\ CloseIsLocked /\ CalmInv
-----------------------------------------------------------------------------
(* A step that leaves the locks alone, and of the jobs changes only one    *)
(* that exists, in its status and its token.                               *)
Quiet(j) ==
  /\ UNCHANGED <<lock, reopened>> /\ disturbed \subseteq disturbed'
  /\ \A i \in Jobs \ {j} : job'[i] = job[i] /\ task'[i] = task[i]
  /\ job[j].status # "absent" /\ job'[j].status # "absent"
  /\ job'[j].span = job[j].span /\ job'[j].kind = job[j].kind /\ job'[j].dry = job[j].dry

LEMMA QuietFrame ==
  ASSUME NEW j \in Jobs, Quiet(j)
  PROVE  /\ \A i \in Jobs : /\ job[i].status # "absent" <=> job'[i].status # "absent"
                            /\ job'[i].span = job[i].span
                            /\ RealClose(i)' <=> RealClose(i)
                            /\ Covered(i)' <=> Covered(i)
         /\ \A i \in Jobs \cup {NoJob} : OwnLocks(i)' = OwnLocks(i)
<1>1. Locks' = Locks /\ \A i \in Jobs \cup {NoJob} : OwnLocks(i)' = OwnLocks(i)
  BY DEF Quiet, Locks, OwnLocks
<1>2. \A i \in Jobs : /\ job[i].status # "absent" <=> job'[i].status # "absent"
                      /\ job'[i].span = job[i].span
                      /\ RealClose(i)' <=> RealClose(i)
  BY DEF Quiet, RealClose
<1>3. \A i \in Jobs : Covered(i)' <=> Covered(i)
  <2> SUFFICES ASSUME NEW i \in Jobs PROVE Covered(i)' <=> Covered(i)
    OBVIOUS
  <2>1. job'[i].span = job[i].span /\ reopened' = reopened
    BY <1>2 DEF Quiet
  <2> QED BY <1>1, <2>1 DEF Covered
<1> QED BY <1>1, <1>2, <1>3

(* What it keeps whatever happens to the requests. *)
LEMMA QuietKeeps ==
  ASSUME IInv, TypeOK', NEW j \in Jobs, Quiet(j),
         job'[j].status = "complete" => job[j].status = "complete" \/ ~RealClose(j) \/ Covered(j)
  PROVE  JobInv' /\ LockInv' /\ LockSpanInv' /\ OneLockPerJob' /\ CloseIsLocked'
<1>1. JobInv'
  BY QuietFrame DEF IInv, JobInv, Quiet
<1>2. LockInv'
  BY QuietFrame DEF IInv, LockInv, Quiet
<1>3. OneLockPerJob'
  BY QuietFrame DEF IInv, OneLockPerJob
<1>4. CloseIsLocked'
  <2>1. \A i \in Jobs : RealClose(i) /\ job[i].status = "complete" => Covered(i)
    BY DEF IInv, CloseIsLocked, Covered
  <2>2. \A i \in Jobs : RealClose(i)' /\ job'[i].status = "complete" => Covered(i)'
    BY <2>1, QuietFrame DEF Quiet
  <2> QED BY <2>2 DEF CloseIsLocked, Covered
<1>5. LockSpanInv'
  BY DEF IInv, LockSpanInv, Quiet
<1> QED BY <1>1, <1>2, <1>3, <1>4, <1>5

(* A quiet step of the background task. *)
LEMMA TaskStepKeeps ==
  ASSUME IInv, TypeOK', NEW j \in Jobs, Quiet(j), req' = req,
         job'[j].status = "complete" => job[j].status = "complete" \/ ~RealClose(j),
         j \notin disturbed' => Calm(j)'
  PROVE  IInv'
<1>1. ReqInv'
  BY QuietFrame DEF IInv, ReqInv, AtWork, ClosePcs
<1>2. HoldInv'
  BY DEF IInv, HoldInv
<1>3. InsertInv'
  BY QuietFrame DEF IInv, InsertInv, TypeOK
<1>4. CoverInv'
  BY QuietFrame DEF IInv, CoverInv, ReqInv, AtWork, ClosePcs, Holding
<1>5. CalmInv'
  <2> SUFFICES ASSUME NEW i \in Jobs \ disturbed', i # j PROVE Calm(i)'
    BY DEF CalmInv
  <2>1. Calm(i) /\ job'[i] = job[i] /\ Deciding(i)' = Deciding(i)
    BY DEF IInv, CalmInv, Quiet, Deciding
  <2> QED BY <2>1, QuietFrame DEF Calm
<1>6. ClosingInv'
  BY DEF IInv, ClosingInv
<1> QED BY <1>1, <1>2, <1>3, <1>4, <1>5, <1>6, QuietKeeps DEF IInv

(* A quiet step of the request r at work on j, which goes on to x. *)
LEMMA RequestStepKeeps ==
  ASSUME IInv, TypeOK', NEW r \in Requests, NEW j \in Jobs, NEW x,
         req[r].job = j, Quiet(j), req' = [req EXCEPT ![r] = x],
         x = Idle \/ (x.job = j /\ x.pc \in ClosePcs /\ RealClose(j)),
         x.pc \in Holding => req[r].pc \in Holding \/ Free(j, r),
         x.pc = "insert" => OwnLocks(j) = {},
         x.pc \in {"locked", "skipped"} => Covered(j),
         job'[j].status = "complete" => job[j].status = "complete" \/ ~RealClose(j) \/ Covered(j),
         j \notin disturbed' => Calm(j)'
  PROVE  IInv'
<1>0. /\ \A q \in Requests \ {r} : req'[q] = req[q]
      /\ req'[r] = x
      /\ \/ x.pc = "idle" /\ x.job = NoJob
         \/ x.job = j /\ x.pc \in ClosePcs /\ RealClose(j)
  BY DEF IInv, TypeOK, Idle
<1>1. ReqInv'
  BY <1>0, QuietFrame DEF IInv, ReqInv, Quiet, ClosePcs, AtWork, Holding
<1>2. HoldInv'
  <2> SUFFICES ASSUME NEW q \in Requests \ {r}, req'[q].pc \in Holding, x.pc \in Holding,
                      req'[q].job = x.job
               PROVE  FALSE
    BY <1>0 DEF IInv, HoldInv
  <2>1. req[q].pc \in Holding /\ req[q].job = j
    BY <1>0 DEF Holding
  <2> QED BY <2>1 DEF Free, IInv, HoldInv
<1>3. InsertInv'
  <2>1. \A i \in Jobs \cup {NoJob} : OwnLocks(i)' = OwnLocks(i)
    BY QuietFrame
  <2>2. ASSUME NEW q \in Requests, req'[q].pc = "insert"
        PROVE  req'[q].job \in Jobs \cup {NoJob} /\ OwnLocks(req'[q].job) = {}
    BY <1>0, <2>2 DEF IInv, InsertInv, TypeOK
  <2> QED BY <2>1, <2>2 DEF InsertInv, OwnLocks
<1>4. CoverInv'
  BY <1>0, QuietFrame DEF IInv, CoverInv, ReqInv, AtWork, ClosePcs, Holding
<1>5. CalmInv'
  <2> SUFFICES ASSUME NEW i \in Jobs \ disturbed', i # j PROVE Calm(i)'
    BY DEF CalmInv
  <2>1. Calm(i) /\ job'[i] = job[i]
    BY DEF IInv, CalmInv, Quiet
  <2>2. Deciding(i)' = Deciding(i) /\ r \notin Deciding(i)
    BY <1>0, ApprovalAssumption DEF Deciding
  <2>3. \A q \in Deciding(i) : req'[q] = req[q]
    BY <1>0, <2>2 DEF Deciding
  <2> QED BY <2>1, <2>2, <2>3, QuietFrame DEF Calm
<1>6. ClosingInv'
  BY <1>0 DEF IInv, ClosingInv, ClosePcs, Holding
<1> QED BY <1>1, <1>2, <1>3, <1>4, <1>5, <1>6, QuietKeeps DEF IInv
-----------------------------------------------------------------------------
(* What is known of the job of a request at work. *)
LEMMA AtWorkJob ==
  ASSUME IInv, NEW r \in Requests, req[r].pc \in AtWork
  PROVE  req[r].job \in Jobs
  BY DEF IInv, ReqInv

LEMMA AtWorkFacts ==
  ASSUME IInv, NEW r \in Requests, NEW j \in Jobs, req[r].job = j, req[r].pc \in AtWork
  PROVE  /\ job[j].status # "absent" /\ job[j].span \in Span
         /\ req[r].pc \in ClosePcs => RealClose(j)
         /\ j \notin disturbed =>
              /\ Deciding(j) = {r}
              /\ job[j].status \in {"awaiting_approval", "approved"}
              /\ req[r].pc # "locked" => OwnLocks(j) = {}
<1>1. job[j].status # "absent" /\ (req[r].pc \in ClosePcs => RealClose(j))
  BY DEF IInv, ReqInv
<1>2. ASSUME j \notin disturbed
      PROVE  /\ Deciding(j) = {r}
             /\ job[j].status \in {"awaiting_approval", "approved"}
             /\ req[r].pc # "locked" => OwnLocks(j) = {}
  <2>1. Calm(j) /\ r \in Deciding(j)
    BY <1>2 DEF IInv, CalmInv, Deciding
  <2> QED BY <2>1 DEF Calm
<1> QED BY <1>1, <1>2 DEF IInv, JobInv

(* A row that changed in its status, and perhaps its token. *)
Row == [status : Status, kind : {"close", "review", "findings"}, dry : BOOLEAN,
        span : RowSpan, token : BOOLEAN]
Restated(j, s, v) ==
  /\ v \in Row
  /\ v.status = s /\ v.span = job[j].span /\ v.kind = job[j].kind /\ v.dry = job[j].dry

LEMMA StatusRow ==
  ASSUME TypeOK, NEW j \in Jobs, NEW s \in Status
  PROVE  Restated(j, s, [job[j] EXCEPT !.status = s])
  BY DEF TypeOK, Restated, Row

LEMMA MarkedRow ==
  ASSUME TypeOK, NEW r \in Requests, NEW j \in Jobs, NEW s \in Status
  PROVE  Restated(j, s, Marked(j, r, s))
<1> DEFINE t == job[j].token /\ ~req[r].token
<1>1. job[j] \in Row /\ t \in BOOLEAN
  BY DEF TypeOK, Row
<1>2. Marked(j, r, s) = [[job[j] EXCEPT !.status = s] EXCEPT !.token = t]
  BY <1>1 DEF Marked, Row
<1> HIDE DEF t
<1> QED BY <1>1, <1>2 DEF Restated, Row

(* A request on its way to the lock of j. *)
Onward(j, x) ==
  /\ x \in [pc : ClosePcs, job : {j}, token : BOOLEAN, dirty : BOOLEAN, span : RowSpan]
  /\ RealClose(j)

(* With the row so marked and the request gone on to x. *)
LEMMA MarkedStepKeeps ==
  ASSUME IInv, NEW r \in Requests, NEW j \in Jobs, NEW s \in Status \ {"absent"}, NEW v, NEW x,
         req[r].job = j, req[r].pc \in AtWork,
         v = Marked(j, r, s) \/ v = [job[j] EXCEPT !.status = s], job' = [job EXCEPT ![j] = v],
         req' = [req EXCEPT ![r] = x], UNCHANGED <<task, lock, reopened, disturbed, crashes>>,
         x = Idle \/ Onward(j, x),
         x.pc \in Holding => req[r].pc \in Holding \/ Free(j, r),
         x.pc # "insert", x.pc \in {"locked", "skipped"} => Covered(j),
         s = "complete" => ~RealClose(j) \/ Covered(j),
         j \notin disturbed =>
           \/ x = Idle /\ (OwnLocks(j) = {} \/ s = "complete")
           \/ s = "approved" /\ OwnLocks(j) = {}
  PROVE  IInv'
<1>0. Restated(j, s, v)
  BY MarkedRow, StatusRow DEF IInv
<1>1. Idle.pc = "idle" /\ Idle.job = NoJob /\ Idle \in
        [pc : {"idle"}, job : {NoJob}, token : BOOLEAN, dirty : BOOLEAN, span : RowSpan]
  BY DEF Idle, RowSpan
<1>2. TypeOK'
  <2>1. x \in [pc : ClosePcs \cup {"idle"}, job : Jobs \cup {NoJob}, token : BOOLEAN,
               dirty : BOOLEAN, span : RowSpan]
    BY <1>1 DEF Onward
  <2> QED BY <1>0, <2>1 DEF IInv, TypeOK, ClosePcs, Holding, Restated, Row
<1>3. Quiet(j) /\ job'[j].status = s
  BY <1>0, AtWorkFacts DEF IInv, TypeOK, Quiet, Restated
<1>4. ASSUME j \notin disturbed' PROVE Calm(j)'
  <2>1. /\ Deciding(j) = {r} /\ OwnLocks(j)' = OwnLocks(j)
        /\ OwnLocks(j) # {} => RealClose(j) /\ req[r].pc = "locked"
    BY <1>4, AtWorkFacts DEF OwnLocks, ClosePcs
  <2>2. /\ \A q \in Requests \ {r} : req'[q] = req[q]
        /\ req'[r] = x
    BY DEF IInv, TypeOK
  <2>3. CASE x = Idle
    <3>1. Deciding(j)' = {}
      BY <1>1, <2>1, <2>2, <2>3, ApprovalAssumption DEF Deciding
    <3>2. RealClose(j)' <=> RealClose(j)
      BY <1>3, QuietFrame
    <3> QED BY <1>3, <1>4, <2>1, <2>3, <3>1, <3>2 DEF Calm
  <2>4. CASE s = "approved" /\ OwnLocks(j) = {}
    <3>1. Deciding(j)' \subseteq {r}
      BY <2>1, <2>2, ApprovalAssumption DEF Deciding
    <3> QED BY <1>3, <2>1, <2>4, <3>1 DEF Calm
  <2> QED BY <1>4, <2>3, <2>4
<1>5. x = Idle \/ (x.job = j /\ x.pc \in ClosePcs /\ RealClose(j))
  BY DEF Onward
<1> QED BY <1>2, <1>3, <1>4, <1>5, RequestStepKeeps

(* The verdicts, step by step. *)
LEMMA RejectInv ==
  ASSUME IInv, NEW r \in Requests, Reject(r) PROVE IInv'
<1>1. PICK j \in Jobs : req[r].job = j /\ req[r].pc = "reject"
  BY AtWorkJob DEF Reject, AtWork
<1>2. j \notin disturbed => OwnLocks(j) = {}
  BY <1>1, AtWorkFacts DEF AtWork
<1>3. "rejected" \in Status \ {"absent"} /\ Idle.pc = "idle"
  BY DEF Status, Idle
<1>4. /\ job' = [job EXCEPT ![j] = Marked(j, r, "rejected")]
      /\ req' = [req EXCEPT ![r] = Idle]
      /\ UNCHANGED <<task, lock, reopened, disturbed, crashes>>
  BY <1>1 DEF Reject
<1> QED BY <1>1, <1>2, <1>3, <1>4, MarkedStepKeeps DEF Holding, AtWork

LEMMA ApproveSimpleInv ==
  ASSUME IInv, NEW r \in Requests, ApproveSimple(r) PROVE IInv'
<1>1. PICK j \in Jobs : req[r].job = j /\ req[r].pc = "approve"
  BY AtWorkJob DEF ApproveSimple, AtWork
<1>2. j \notin disturbed => OwnLocks(j) = {}
  BY <1>1, AtWorkFacts DEF AtWork
<1>3. "complete" \in Status \ {"absent"} /\ Idle.pc = "idle"
  BY DEF Status, Idle
<1> QED BY <1>1, <1>2, <1>3, MarkedStepKeeps DEF ApproveSimple, Holding, AtWork

LEMMA StatementsMadeInv ==
  ASSUME IInv, NEW r \in Requests, StatementsMade(r) PROVE IInv'
<1> DEFINE x == [req[r] EXCEPT !.pc = "stated", !.dirty = FALSE]
<1>1. PICK j \in Jobs : req[r].job = j /\ req[r].pc = "flushed"
  BY AtWorkJob DEF StatementsMade, AtWork, ClosePcs, Holding
<1>2. RealClose(j) /\ (j \notin disturbed => OwnLocks(j) = {})
  BY <1>1, AtWorkFacts DEF AtWork, ClosePcs, Holding
<1>3. "approved" \in Status \ {"absent"}
  BY DEF Status
<1>4. Onward(j, x) /\ x.pc = "stated" /\ req' = [req EXCEPT ![r] = x]
  BY <1>1, <1>2 DEF IInv, TypeOK, ClosePcs, StatementsMade, Onward
<1>5. PICK v : /\ v = Marked(j, r, "approved") /\ job' = [job EXCEPT ![j] = v]
               /\ UNCHANGED <<task, lock, reopened, disturbed, crashes>>
  BY <1>1 DEF StatementsMade
<1> HIDE DEF x
<1>6. /\ x.pc \notin Holding /\ x.pc \notin {"insert", "locked", "skipped"}
      /\ req[r].pc \in AtWork
  BY <1>1, <1>4 DEF Holding, AtWork, ClosePcs
<1>7. PICK s \in Status \ {"absent"} : s = "approved"
  BY <1>3
<1>8. /\ v = Marked(j, r, s) \/ v = [job[j] EXCEPT !.status = s]
      /\ s = "complete" => ~RealClose(j) \/ Covered(j)
      /\ j \notin disturbed => s = "approved" /\ OwnLocks(j) = {}
  BY <1>2, <1>5, <1>7
<1>9. /\ x.pc \in Holding => req[r].pc \in Holding \/ Free(j, r)
      /\ x.pc # "insert" /\ (x.pc \in {"locked", "skipped"} => Covered(j))
      /\ req[r].pc \in AtWork
  BY <1>6
<1> QED BY <1>1, <1>4, <1>5, <1>8, <1>9, MarkedStepKeeps

(* Steps that leave the row alone. *)
LEMMA SameRowKeeps ==
  ASSUME IInv, NEW r \in Requests, NEW j \in Jobs, NEW x, req[r].job = j, req[r].pc \in AtWork,
         req' = [req EXCEPT ![r] = x], UNCHANGED <<job, task, lock, reopened, disturbed, crashes>>,
         req[r].pc # "locked",
         x = Idle \/ /\ x \in [pc : ClosePcs \ {"locked"}, job : {j}, token : BOOLEAN,
                               dirty : BOOLEAN, span : RowSpan]
                     /\ RealClose(j),
         x.pc \in Holding => req[r].pc \in Holding \/ Free(j, r),
         x.pc = "insert" => OwnLocks(j) = {},
         x.pc \in {"locked", "skipped"} => Covered(j)
  PROVE  IInv'
<1>1. Idle.pc = "idle" /\ Idle.job = NoJob /\ Idle \in
        [pc : {"idle"}, job : {NoJob}, token : BOOLEAN, dirty : BOOLEAN, span : RowSpan]
  BY DEF Idle, RowSpan
<1>2. TypeOK'
  <2>1. x \in [pc : ClosePcs \cup {"idle"}, job : Jobs \cup {NoJob}, token : BOOLEAN,
               dirty : BOOLEAN, span : RowSpan]
    BY <1>1
  <2> QED BY <2>1 DEF IInv, TypeOK, ClosePcs, Holding
<1>3. Quiet(j)
  BY AtWorkFacts DEF Quiet
<1>4. ASSUME j \notin disturbed' PROVE Calm(j)'
  <2>0. /\ Deciding(j) = {r} /\ OwnLocks(j) = {}
        /\ job[j].status \in {"awaiting_approval", "approved"}
    BY <1>4, AtWorkFacts
  <2>1. /\ Deciding(j) = {r} /\ OwnLocks(j)' = {} /\ req'[r] = x
        /\ job'[j].status \in {"awaiting_approval", "approved"}
        /\ \A q \in Requests \ {r} : req'[q] = req[q]
    BY <2>0 DEF OwnLocks, IInv, TypeOK
  <2>2. Deciding(j)' \subseteq {r}
    BY <2>1 DEF Deciding
  <2> QED BY <2>1, <2>2 DEF Calm
<1>5. x = Idle \/ (x.job = j /\ x.pc \in ClosePcs /\ RealClose(j))
  <2>1. ASSUME x \in [pc : ClosePcs \ {"locked"}, job : {j}, token : BOOLEAN, dirty : BOOLEAN,
                      span : RowSpan]
        PROVE  x.job = j /\ x.pc \in ClosePcs
    BY <2>1
  <2> QED BY <2>1
<1> QED BY <1>2, <1>3, <1>4, <1>5, RequestStepKeeps

LEMMA FlushInv ==
  ASSUME IInv, NEW r \in Requests, Flush(r) PROVE IInv'
<1> DEFINE x == [req[r] EXCEPT !.pc = "flushed", !.dirty = TRUE]
<1>1. PICK j \in Jobs : req[r].job = j /\ req[r].pc = "approve"
  BY AtWorkJob DEF Flush, AtWork, ClosePcs, Holding
<1>2. RealClose(j)
  BY <1>1, AtWorkFacts DEF Flush, AtWork, ClosePcs, Holding
<1>3. /\ x \in [pc : ClosePcs \ {"locked"}, job : {j}, token : BOOLEAN, dirty : BOOLEAN,
               span : RowSpan]
      /\ x.pc = "flushed" /\ req' = [req EXCEPT ![r] = x]
      /\ UNCHANGED <<job, task, lock, reopened, disturbed, crashes>>
  BY <1>1 DEF IInv, TypeOK, ClosePcs, Holding, Flush, Goto
<1> HIDE DEF x
<1>4. /\ req[r].pc \in AtWork /\ req[r].pc # "locked" /\ Free(j, r)
      /\ x.pc \notin {"insert", "locked", "skipped"}
  BY <1>1, <1>3 DEF Flush, AtWork
<1> QED BY <1>1, <1>2, <1>3, <1>4, SameRowKeeps

LEMMA StatementsKeptInv ==
  ASSUME IInv, NEW r \in Requests, StatementsKept(r) PROVE IInv'
<1> DEFINE x == [req[r] EXCEPT !.pc = "check"]
<1>1. PICK j \in Jobs : req[r].job = j /\ req[r].pc = "flushed"
  BY AtWorkJob DEF StatementsKept, AtWork, ClosePcs, Holding
<1>2. RealClose(j)
  BY <1>1, AtWorkFacts DEF StatementsKept, AtWork, ClosePcs, Holding
<1>3. /\ x \in [pc : ClosePcs \ {"locked"}, job : {j}, token : BOOLEAN, dirty : BOOLEAN,
               span : RowSpan]
      /\ x.pc = "check" /\ req' = [req EXCEPT ![r] = x]
      /\ UNCHANGED <<job, task, lock, reopened, disturbed, crashes>>
  BY <1>1 DEF IInv, TypeOK, ClosePcs, Holding, StatementsKept, Goto
<1> HIDE DEF x
<1> QED BY <1>1, <1>2, <1>3, SameRowKeeps DEF StatementsKept, Holding, AtWork, ClosePcs

LEMMA StatementsFailedInv ==
  ASSUME IInv, NEW r \in Requests, StatementsFailed(r) PROVE IInv'
<1> DEFINE x == [req[r] EXCEPT !.pc = "stated", !.dirty = FALSE]
<1>1. PICK j \in Jobs : req[r].job = j /\ req[r].pc = "flushed"
  BY AtWorkJob DEF StatementsFailed, AtWork, ClosePcs, Holding
<1>2. RealClose(j)
  BY <1>1, AtWorkFacts DEF StatementsFailed, AtWork, ClosePcs, Holding
<1>3. /\ x \in [pc : ClosePcs \ {"locked"}, job : {j}, token : BOOLEAN, dirty : BOOLEAN,
               span : RowSpan]
      /\ x.pc = "stated" /\ req' = [req EXCEPT ![r] = x]
      /\ UNCHANGED <<job, task, lock, reopened, disturbed, crashes>>
  BY <1>1 DEF IInv, TypeOK, ClosePcs, Holding, StatementsFailed, Goto
<1> HIDE DEF x
<1> QED BY <1>1, <1>2, <1>3, SameRowKeeps DEF StatementsFailed, Holding, AtWork, ClosePcs

LEMMA RecordStatementsInv ==
  ASSUME IInv, NEW r \in Requests, RecordStatements(r) PROVE IInv'
<1> DEFINE x == [req[r] EXCEPT !.pc = "check"]
<1>1. PICK j \in Jobs : req[r].job = j /\ req[r].pc = "stated"
  BY AtWorkJob DEF RecordStatements, AtWork, ClosePcs, Holding
<1>2. RealClose(j)
  BY <1>1, AtWorkFacts DEF RecordStatements, AtWork, ClosePcs, Holding
<1>3. /\ x \in [pc : ClosePcs \ {"locked"}, job : {j}, token : BOOLEAN, dirty : BOOLEAN,
               span : RowSpan]
      /\ x.pc = "check" /\ req' = [req EXCEPT ![r] = x]
      /\ UNCHANGED <<job, task, lock, reopened, disturbed, crashes>>
  BY <1>1 DEF IInv, TypeOK, ClosePcs, Holding, RecordStatements, Goto
<1> HIDE DEF x
<1> QED BY <1>1, <1>2, <1>3, SameRowKeeps DEF RecordStatements, Holding, AtWork, ClosePcs

LEMMA StatementsCollideInv ==
  ASSUME IInv, NEW r \in Requests, StatementsCollide(r) PROVE IInv'
<1>1. PICK j \in Jobs : req[r].job = j /\ req[r].pc = "flushed"
  BY AtWorkJob DEF StatementsCollide, AtWork, ClosePcs, Holding
<1>2. Idle.pc = "idle"
  BY DEF Idle
<1> QED BY <1>1, <1>2, SameRowKeeps DEF StatementsCollide, Holding, AtWork, ClosePcs

(* Without an overlapping lock there is none of the job's own: that one    *)
(* would be over the same range.  With one, a day is locked.               *)
LEMMA LockCheckInv ==
  ASSUME IInv, NEW r \in Requests, LockCheck(r) PROVE IInv'
<1>1. PICK j \in Jobs : req[r].job = j /\ req[r].pc = "check"
  BY AtWorkJob DEF LockCheck, AtWork, ClosePcs, Holding
<1>2. RealClose(j) /\ job[j].span \in Span
  BY <1>1, AtWorkFacts DEF AtWork, ClosePcs, Holding
<1>3. ASSUME ~IsPeriodLocked(Locks, job[j].span) PROVE OwnLocks(j) = {}
  <2> SUFFICES ASSUME NEW l \in OwnLocks(j) PROVE FALSE
    OBVIOUS
  <2>1. job[j].span \in Locks
    BY DEF OwnLocks, Locks, IInv, LockInv
  <2>2. Overlaps(job[j].span, job[j].span)
    BY <1>2, DaysAssumption DEF Span, Overlaps
  <2> QED BY <1>3, <2>1, <2>2 DEF IsPeriodLocked
<1>4. ASSUME IsPeriodLocked(Locks, job[j].span) PROVE Covered(j)
  <2>1. PICK l \in LockIds : lock[l].active /\ Overlaps(lock[l].span, job[j].span)
    BY <1>4 DEF IsPeriodLocked, Locks
  <2>2. lock[l].span \in Span
    BY <2>1 DEF IInv, LockSpanInv
  <2>3. PICK d \in DaysOf(lock[l].span) : d \in DaysOf(job[j].span)
    BY <1>2, <2>1, <2>2, OverlapIsASharedDay
  <2>4. DateLocked(Locks, d)
    BY <2>1, <2>3 DEF DateLocked, Locks, DaysOf
  <2> QED BY <2>3, <2>4 DEF Covered
<1> DEFINE x(pc) == [req[r] EXCEPT !.pc = pc]
<1>5. \A pc \in {"insert", "skipped"} : x(pc).pc = pc /\
        x(pc) \in [pc : ClosePcs \ {"locked"}, job : {j}, token : BOOLEAN, dirty : BOOLEAN,
                   span : RowSpan]
  BY <1>1 DEF IInv, TypeOK, ClosePcs, Holding
<1>6. \E pc \in {"insert", "skipped"} :
         /\ req' = [req EXCEPT ![r] = x(pc)]
         /\ pc = "insert" => OwnLocks(j) = {}
         /\ pc = "skipped" => Covered(j)
  BY <1>1, <1>3, <1>4 DEF LockCheck, Goto
<1> HIDE DEF x
<1> QED BY <1>1, <1>2, <1>5, <1>6, SameRowKeeps DEF LockCheck, Holding, AtWork, ClosePcs

LEMMA FinishInv ==
  ASSUME IInv, NEW r \in Requests, Finish(r) PROVE IInv'
<1>1. PICK j \in Jobs : req[r].job = j /\ req[r].pc \in {"locked", "skipped"}
  BY AtWorkJob DEF Finish, AtWork, ClosePcs, Holding
<1>2. Covered(j)
  BY <1>1 DEF IInv, CoverInv
<1>3. "complete" \in Status \ {"absent"} /\ Idle.pc = "idle"
  BY DEF Status, Idle
<1>4. \E v : /\ v = Marked(j, r, "complete") \/ v = [job[j] EXCEPT !.status = "complete"]
             /\ job' = [job EXCEPT ![j] = v]
  BY <1>1 DEF Finish, IInv, TypeOK
<1> QED BY <1>1, <1>2, <1>3, <1>4, MarkedStepKeeps DEF Finish, Holding, AtWork, ClosePcs

LEMMA RequestDiesInv ==
  ASSUME IInv, NEW r \in Requests, RequestDies(r) PROVE IInv'
<1>1. req[r].pc \in AtWork
  BY DEF IInv, ReqInv, RequestDies
<1>2. PICK j \in Jobs : req[r].job = j
  BY <1>1, AtWorkJob
<1>3. Idle.pc = "idle" /\ Idle \in
        [pc : {"idle"}, job : {NoJob}, token : BOOLEAN, dirty : BOOLEAN, span : RowSpan]
  BY DEF Idle, RowSpan
<1>4. TypeOK'
  BY <1>2, <1>3 DEF IInv, TypeOK, RequestDies
<1>5. Quiet(j) /\ j \in disturbed'
  BY <1>1, <1>2, AtWorkFacts DEF RequestDies, Quiet
<1> QED BY <1>2, <1>3, <1>4, <1>5, RequestStepKeeps DEF RequestDies, IInv, CloseIsLocked, Holding
-----------------------------------------------------------------------------
(* The other parts look at these tables only. *)
LEMMA SameTables ==
  ASSUME IInv, TypeOK', JobInv', UNCHANGED <<job, lock, req, reopened, disturbed>>
  PROVE  IInv'
<1>1. Locks' = Locks /\ \A j : OwnLocks(j)' = OwnLocks(j) /\ Deciding(j)' = Deciding(j)
  BY DEF Locks, OwnLocks, Deciding
<1>2. \A j : (Covered(j)' <=> Covered(j)) /\ (RealClose(j)' <=> RealClose(j))
  BY <1>1 DEF Covered, RealClose
<1>3. \A j : Calm(j)' <=> Calm(j)
  BY <1>1, <1>2 DEF Calm
<1>4. ReqInv' /\ LockInv' /\ LockSpanInv' /\ ClosingInv' /\ HoldInv'
  BY <1>2 DEF IInv, ReqInv, LockInv, LockSpanInv, ClosingInv, HoldInv
<1>5. InsertInv' /\ OneLockPerJob'
  BY <1>1 DEF IInv, InsertInv, OneLockPerJob, OwnLocks
<1>6. CoverInv' /\ CloseIsLocked' /\ CalmInv'
  BY <1>1, <1>2, <1>3 DEF IInv, CoverInv, CloseIsLocked, CalmInv, Covered
<1> QED BY <1>4, <1>5, <1>6 DEF IInv

(* A step that writes the row of one job anew. *)
LEMMA RowStepQuiet ==
  ASSUME TypeOK, NEW j \in Jobs, NEW s, NEW v, Restated(j, s, v), s # "absent",
         job[j].status # "absent", job' = [job EXCEPT ![j] = v],
         UNCHANGED <<lock, reopened>>, disturbed \subseteq disturbed',
         \A i \in Jobs \ {j} : task'[i] = task[i]
  PROVE  Quiet(j) /\ job' \in [Jobs -> Row] /\ job'[j].status = s
<1>1. job \in [Jobs -> Row]
  BY DEF TypeOK, Row
<1>2. job' \in [Jobs -> Row]
  BY <1>1 DEF Restated
<1>3. job'[j] = v /\ \A i \in Jobs \ {j} : job'[i] = job[i]
  BY <1>1
<1>4. Quiet(j)
  BY <1>3 DEF Quiet, Restated
<1> QED BY <1>2, <1>3, <1>4 DEF Restated

(* The background task. *)
LEMMA StartRunInv ==
  ASSUME IInv, NEW j \in Jobs, StartRun(j) PROVE IInv'
<1> DEFINE v == [job[j] EXCEPT !.status = "running"]
<1>1. Restated(j, "running", v) /\ job' = [job EXCEPT ![j] = v]
  BY StatusRow DEF IInv, Status, StartRun, SetStatus, TypeOK
<1> HIDE DEF v
<1>2. TypeOK' /\ Quiet(j) /\ job'[j].status = "running" /\ req' = req
  BY <1>1 DEF IInv, TypeOK, Quiet, Restated, Row, StartRun
<1>3. ASSUME j \notin disturbed' PROVE Calm(j)'
  <2>1. Calm(j) /\ job[j].status = "pending"
    BY <1>3 DEF IInv, CalmInv, StartRun
  <2>2. Deciding(j)' = {} /\ OwnLocks(j)' = {}
    BY <1>2, <2>1 DEF Calm, Deciding, OwnLocks, Quiet
  <2> QED BY <2>2 DEF Calm
<1> QED BY <1>2, <1>3, TaskStepKeeps

LEMMA EndRunInv ==
  ASSUME IInv, NEW j \in Jobs, EndRun(j) PROVE IInv'
<1>1. PICK s \in Outcomes(job[j].kind) :
         /\ SetStatus(j, s)
         /\ task' = [task EXCEPT ![j] = IF s = "awaiting_approval" THEN "gate" ELSE "none"]
  BY DEF EndRun
<1>2. s \in Status \ {"absent"} /\ (s = "complete" => ~RealClose(j))
  BY DEF Outcomes, Status, RealClose
<1> DEFINE v == [job[j] EXCEPT !.status = s]
<1>3. Restated(j, s, v) /\ job' = [job EXCEPT ![j] = v]
  BY <1>1, <1>2, StatusRow DEF IInv, SetStatus, TypeOK
<1> HIDE DEF v
<1>4. TypeOK' /\ Quiet(j) /\ job'[j].status = s /\ req' = req
  BY <1>1, <1>2, <1>3 DEF IInv, TypeOK, Quiet, Restated, Row, EndRun
<1>5. ASSUME j \notin disturbed' PROVE Calm(j)'
  <2>1. Calm(j) /\ job[j].status = "running"
    BY <1>5 DEF IInv, CalmInv, EndRun
  <2>2. Deciding(j)' = {} /\ OwnLocks(j)' = {}
    BY <1>4, <2>1 DEF Calm, Deciding, OwnLocks, Quiet
  <2> QED BY <2>2 DEF Calm
<1> QED BY <1>2, <1>4, <1>5, TaskStepKeeps

LEMMA OpenGateInv ==
  ASSUME IInv, NEW j \in Jobs, OpenGate(j) PROVE IInv'
<1> DEFINE v == [job[j] EXCEPT !.token = TRUE]
<1>1. Restated(j, job[j].status, v) /\ job' = [job EXCEPT ![j] = v] /\ job[j].status # "absent"
  <2>1. job[j] \in Row
    BY DEF IInv, TypeOK, Row
  <2>2. Restated(j, job[j].status, v)
    BY <2>1 DEF Restated, Row
  <2> QED BY <2>2 DEF IInv, JobInv, TypeOK, OpenGate
<1> HIDE DEF v
<1>2. TypeOK' /\ Quiet(j) /\ job'[j].status = job[j].status /\ req' = req
  <2>1. \A i \in Jobs \ {j} : task'[i] = task[i]
    BY DEF IInv, TypeOK, OpenGate
  <2>2. Quiet(j) /\ job' \in [Jobs -> Row] /\ job'[j].status = job[j].status
    <3>1. TypeOK /\ UNCHANGED <<lock, reopened, disturbed>>
      BY DEF IInv, OpenGate
    <3> QED BY <1>1, <2>1, <3>1, RowStepQuiet
  <2>3. task' \in [Jobs -> {"none", "run", "gate"}]
    BY DEF IInv, TypeOK, OpenGate
  <2> QED BY <2>2, <2>3 DEF IInv, TypeOK, Row, OpenGate
<1>3. ASSUME j \notin disturbed' PROVE Calm(j)'
  <2>1. Calm(j)
    BY <1>3 DEF IInv, CalmInv, OpenGate
  <2>2. Deciding(j)' = Deciding(j) /\ OwnLocks(j)' = OwnLocks(j) /\ (RealClose(j)' <=> RealClose(j))
    BY <1>2, QuietFrame DEF Deciding
  <2> QED BY <1>2, <2>1, <2>2 DEF Calm
<1> QED BY <1>2, <1>3, TaskStepKeeps

LEMMA GateFailsInv ==
  ASSUME IInv, NEW j \in Jobs, GateFails(j) PROVE IInv'
<1> DEFINE v == [job[j] EXCEPT !.status = "failed"]
<1>1. Restated(j, "failed", v) /\ job' = [job EXCEPT ![j] = v] /\ job[j].status # "absent"
  BY StatusRow DEF IInv, Status, GateFails, SetStatus, TypeOK, JobInv
<1> HIDE DEF v
<1>2. TypeOK' /\ Quiet(j) /\ job'[j].status = "failed" /\ req' = req /\ j \in disturbed'
  BY <1>1 DEF IInv, TypeOK, Quiet, Restated, Row, GateFails
<1> QED BY <1>2, TaskStepKeeps

LEMMA TaskDiesInv ==
  ASSUME IInv, NEW j \in Jobs, TaskDies(j) PROVE IInv'
<1>1. UNCHANGED <<job, lock, req, reopened, disturbed>>
  BY DEF TaskDies
<1>2. TypeOK'
  BY DEF IInv, TypeOK, TaskDies
<1>3. JobInv'
  BY DEF IInv, JobInv, TaskDies, TypeOK
<1> QED BY <1>1, <1>2, <1>3, SameTables
-----------------------------------------------------------------------------
(* What locks and releases do. *)

(* A lock is written over a row that is not active. *)
LEMMA WriteLockRow ==
  ASSUME NEW s, NEW by, WriteLock(s, by)
  PROVE  \E l \in LockIds : /\ ~lock[l].active
                            /\ lock' = [lock EXCEPT ![l] = [active |-> TRUE, by |-> by, span |-> s]]
  BY DEF WriteLock, FreeIds

(* Days that are locked stay so or are released. *)
Keeps == \A d \in Days : DateLocked(Locks, d) \/ d \in reopened
                           => DateLocked(Locks, d)' \/ d \in reopened'

LEMMA WriteKeeps ==
  ASSUME TypeOK, NEW l \in LockIds, ~lock[l].active, NEW v,
         lock' = [lock EXCEPT ![l] = v], reopened' = reopened
  PROVE  Keeps
<1>1. Locks \subseteq Locks'
  BY DEF Locks, TypeOK
<1> QED BY <1>1 DEF Keeps, DateLocked

LEMMA CoverStays ==
  ASSUME NEW j, Keeps, job'[j].span = job[j].span, Covered(j) PROVE Covered(j)'
  BY DEF Keeps, Covered, DaysOf, DateLocked

(* Locks for other jobs, or none, over a range of days; a step that writes *)
(* or releases them and leaves all jobs alone. *)
LEMMA ScreenStepKeeps ==
  ASSUME IInv, TypeOK', UNCHANGED <<job, task, disturbed>>, Keeps, LockSpanInv', ClosingInv',
         \A l \in LockIds : lock'[l].active /\ lock'[l].by \in Jobs => lock'[l] = lock[l],
         \A r \in Requests : req'[r] = req[r] \/ (/\ req'[r].job = NoJob /\ req[r].job = NoJob
                                                  /\ req[r].pc \notin AtWork
                                                  /\ req'[r].pc \notin AtWork)
  PROVE  IInv'
<1>1. /\ \A j \in Jobs : OwnLocks(j)' \subseteq OwnLocks(j) /\ Deciding(j)' = Deciding(j)
      /\ \A j \in Jobs : RealClose(j)' <=> RealClose(j)
  <2>1. \A j \in Jobs : Deciding(j)' = Deciding(j)
    BY ApprovalAssumption DEF Deciding
  <2>2. \A j \in Jobs : OwnLocks(j)' \subseteq OwnLocks(j)
    BY DEF OwnLocks
  <2> QED BY <2>1, <2>2 DEF RealClose
<1>2. ReqInv' /\ JobInv'
  BY <1>1 DEF IInv, ReqInv, JobInv, AtWork, ClosePcs
<1>3. LockInv'
  BY DEF IInv, LockInv
<1>4. HoldInv'
  BY DEF IInv, HoldInv, AtWork, ClosePcs
<1>5. InsertInv' /\ OneLockPerJob'
  <2>1. ASSUME NEW r \in Requests, req'[r].pc = "insert"
        PROVE  req'[r] = req[r] /\ req[r].job \in Jobs /\ OwnLocks(req[r].job) = {}
    BY <2>1 DEF IInv, InsertInv, ReqInv, AtWork, ClosePcs, Holding
  <2>2. \A j \in Jobs : OwnLocks(j) = {} => OwnLocks(j)' = {}
    BY <1>1
  <2>3. OneLockPerJob'
    <3> SUFFICES ASSUME NEW j \in Jobs, NEW k \in OwnLocks(j)', NEW l \in OwnLocks(j)'
                 PROVE  k = l
      BY DEF OneLockPerJob
    <3>1. k \in OwnLocks(j) /\ l \in OwnLocks(j)
      BY <1>1
    <3> QED BY <3>1 DEF IInv, OneLockPerJob
  <2> QED BY <2>1, <2>2, <2>3 DEF InsertInv, OwnLocks
<1>6. CoverInv' /\ CloseIsLocked'
  <2>1. \A j \in Jobs : Covered(j) => Covered(j)'
    BY CoverStays
  <2>2. CoverInv'
    BY <2>1 DEF IInv, CoverInv, ReqInv, AtWork, ClosePcs, Holding
  <2>3. CloseIsLocked'
    BY <1>1, <2>1 DEF IInv, CloseIsLocked, Covered
  <2> QED BY <2>2, <2>3
<1>7. CalmInv'
  <2> SUFFICES ASSUME NEW j \in Jobs \ disturbed' PROVE Calm(j)'
    BY DEF CalmInv
  <2>1. Calm(j) /\ \A r \in Deciding(j) : req'[r] = req[r]
    BY ApprovalAssumption DEF IInv, CalmInv, Deciding
  <2> QED BY <1>1, <2>1 DEF Calm
<1> QED BY <1>2, <1>3, <1>4, <1>5, <1>6, <1>7 DEF IInv

LEMMA ReleaseInv ==
  ASSUME IInv, NEW S \in SUBSET LockIds, \A l \in S : lock[l].active, Release(S)
  PROVE  IInv'
<1>1. \A l \in LockIds : \/ lock'[l] = lock[l] /\ l \notin S
                         \/ ~lock'[l].active /\ l \in S
  BY DEF Release, IInv, TypeOK
<1>2. UNCHANGED <<job, task, req, disturbed, crashes>>
  BY DEF Release
<1>3. TypeOK'
  <2>0. lock \in [LockIds -> [active : BOOLEAN, by : Jobs \cup {NoJob}, span : RowSpan]]
    BY DEF IInv, TypeOK
  <2>1. \A l \in LockIds : [lock[l] EXCEPT !.active = FALSE] \in
          [active : BOOLEAN, by : Jobs \cup {NoJob}, span : RowSpan]
    BY <2>0
  <2>2. lock' \in [LockIds -> [active : BOOLEAN, by : Jobs \cup {NoJob}, span : RowSpan]]
    BY <2>1 DEF Release, IInv, TypeOK
  <2>3. reopened' \subseteq Days
    BY DEF Release, IInv, TypeOK, DaysOf
  <2> QED BY <1>2, <2>2, <2>3 DEF IInv, TypeOK
<1>4. Keeps
  <2> SUFFICES ASSUME NEW d \in Days, DateLocked(Locks, d), d \notin reopened'
               PROVE  DateLocked(Locks, d)'
    BY DEF Keeps, Release
  <2>1. PICK l \in LockIds : lock[l].active /\ Holds(lock[l].span, d)
    BY DEF DateLocked, Locks
  <2>2. l \notin S
    BY <2>1 DEF Release, DaysOf
  <2>3. lock'[l] = lock[l]
    BY <1>1, <2>2
  <2> QED BY <2>1, <2>3 DEF DateLocked, Locks
<1>5. LockSpanInv' /\ ClosingInv'
  BY <1>1, <1>2 DEF IInv, LockSpanInv, ClosingInv
<1> QED BY <1>1, <1>2, <1>3, <1>4, <1>5, ScreenStepKeeps

LEMMA CloseMonthInv ==
  ASSUME IInv, NEW r \in Requests, NEW m \in Months, CloseMonth(r, m) PROVE IInv'
<1> DEFINE x == [Idle EXCEPT !.pc = "closing", !.span = m]
<1>1. /\ x \in [pc : {"closing"}, job : {NoJob}, token : BOOLEAN, dirty : BOOLEAN, span : RowSpan]
      /\ x.job = NoJob /\ x.pc = "closing" /\ x.span \in Span
      /\ req[r].pc = "idle" /\ req' = [req EXCEPT ![r] = x]
      /\ UNCHANGED <<job, task, lock, reopened, disturbed, crashes>>
  BY ApprovalAssumption DEF CloseMonth, Idle, RowSpan
<1> HIDE DEF x
<1>2. TypeOK'
  BY <1>1 DEF IInv, TypeOK
<1>3. Keeps
  BY <1>1 DEF Keeps, Locks, DateLocked
<1>4. LockSpanInv' /\ ClosingInv'
  BY <1>1 DEF IInv, TypeOK, LockSpanInv, ClosingInv
<1>5. req[r].job = NoJob
  BY <1>1 DEF IInv, ReqInv, AtWork, ClosePcs, Holding
<1> QED BY <1>1, <1>2, <1>3, <1>4, <1>5, ScreenStepKeeps DEF IInv, TypeOK, AtWork, ClosePcs, Holding

LEMMA CloseMonthCommitInv ==
  ASSUME IInv, NEW r \in Requests, CloseMonthCommit(r) PROVE IInv'
<1>1. req[r].pc = "closing" /\ req' = [req EXCEPT ![r] = Idle]
      /\ UNCHANGED <<job, task, reopened, disturbed, crashes>>
  BY DEF CloseMonthCommit
<1>2. req[r].span \in Span /\ req[r].job = NoJob
  BY <1>1 DEF IInv, ClosingInv, ReqInv, AtWork, ClosePcs, Holding
<1> DEFINE v == [active |-> TRUE, by |-> NoJob, span |-> req[r].span]
<1>3. PICK l \in LockIds : ~lock[l].active /\ lock' = [lock EXCEPT ![l] = v]
  BY WriteLockRow DEF CloseMonthCommit
<1>4. /\ v \in [active : BOOLEAN, by : Jobs \cup {NoJob}, span : RowSpan]
      /\ v.by = NoJob /\ v.span \in Span
  BY <1>2 DEF RowSpan
<1> HIDE DEF v
<1>5. Idle.job = NoJob /\ Idle.pc = "idle" /\ Idle \in
        [pc : {"idle"}, job : {NoJob}, token : BOOLEAN, dirty : BOOLEAN, span : RowSpan]
  BY DEF Idle, RowSpan
<1>6. TypeOK'
  BY <1>1, <1>3, <1>4, <1>5 DEF IInv, TypeOK
<1>7. Keeps
  BY <1>1, <1>3, WriteKeeps DEF IInv
<1>8. LockSpanInv' /\ ClosingInv'
  BY <1>1, <1>3, <1>4, <1>5 DEF IInv, TypeOK, LockSpanInv, ClosingInv
<1>9. \A k \in LockIds : lock'[k].active /\ lock'[k].by \in Jobs => lock'[k] = lock[k]
  BY <1>3, <1>4, ApprovalAssumption DEF IInv, TypeOK
<1>10. \A q \in Requests : req'[q] = req[q] \/ (/\ req'[q].job = NoJob /\ req[q].job = NoJob
                                                /\ req[q].pc \notin AtWork
                                                /\ req'[q].pc \notin AtWork)
  BY <1>1, <1>2, <1>5 DEF IInv, TypeOK, AtWork, ClosePcs, Holding
<1> QED BY <1>1, <1>6, <1>7, <1>8, <1>9, <1>10, ScreenStepKeeps

(* The lock of a close: it is the only one of its job, and locks a day.    *)
LEMMA LockInsertInv ==
  ASSUME IInv, NEW r \in Requests, LockInsert(r) PROVE IInv'
<1>1. PICK j \in Jobs : req[r].job = j /\ req[r].pc = "insert"
  BY AtWorkJob DEF LockInsert, AtWork, ClosePcs, Holding
<1>2. RealClose(j) /\ job[j].status # "absent" /\ job[j].span \in Span /\ OwnLocks(j) = {}
  BY <1>1, AtWorkFacts DEF AtWork, ClosePcs, Holding, IInv, InsertInv
<1> DEFINE v == [active |-> TRUE, by |-> j, span |-> job[j].span]
           x == [req[r] EXCEPT !.pc = "locked", !.dirty = FALSE]
<1>3. PICK l \in LockIds : ~lock[l].active /\ lock' = [lock EXCEPT ![l] = v]
  BY <1>1, WriteLockRow DEF LockInsert
<1>4. /\ v \in [active : BOOLEAN, by : Jobs \cup {NoJob}, span : RowSpan]
      /\ v.by = j /\ v.span = job[j].span /\ v.active
  BY <1>2 DEF RowSpan
<1>5. /\ Onward(j, x) /\ x.pc = "locked" /\ x.job = j /\ req' = [req EXCEPT ![r] = x]
      /\ UNCHANGED <<task, reopened, disturbed, crashes>>
  BY <1>1, <1>2 DEF IInv, TypeOK, ClosePcs, LockInsert, Onward
<1>6. \E u, s : /\ job' = [job EXCEPT ![j] = u] /\ Restated(j, s, u)
                /\ s = "approved" \/ s = job[j].status
  <2>1. CASE req[r].dirty
    BY <1>1, <2>1, MarkedRow DEF LockInsert, Status, IInv
  <2>2. CASE ~req[r].dirty
    BY <1>1, <2>2 DEF LockInsert, IInv, TypeOK, Restated, Row
  <2> QED BY <2>1, <2>2
<1> HIDE DEF v, x
<1>7. /\ \A i \in Jobs \ {j} : job'[i] = job[i]
      /\ job'[j].span = job[j].span /\ (RealClose(j)' <=> RealClose(j))
      /\ job'[j].status \in {"approved", job[j].status}
      /\ job' \in [Jobs -> Row]
  BY <1>6 DEF IInv, TypeOK, Restated, Row, RealClose
<1>8. /\ \A i \in Jobs : /\ job[i].status # "absent" <=> job'[i].status # "absent"
                         /\ job'[i].span = job[i].span
                         /\ job'[i].status = "complete" => job[i].status = "complete"
      /\ \A i \in Jobs \ {j} : RealClose(i)' <=> RealClose(i)
  BY <1>2, <1>7 DEF RealClose
<1>9. TypeOK'
  BY <1>3, <1>4, <1>5, <1>7 DEF IInv, TypeOK, Onward, Row, ClosePcs, Holding
<1>10. \A q \in Requests \ {r} : req'[q] = req[q]
  BY <1>5 DEF IInv, TypeOK
<1>11. req'[r] = x /\ lock'[l] = v /\ \A k \in LockIds \ {l} : lock'[k] = lock[k]
  BY <1>3, <1>5 DEF IInv, TypeOK
<1>12. /\ \A i \in Jobs \ {j} : OwnLocks(i)' = OwnLocks(i)
       /\ OwnLocks(j)' = {l}
  <2>1. \A i \in Jobs \ {j} : OwnLocks(i)' = OwnLocks(i)
    BY <1>3, <1>4, <1>11 DEF OwnLocks
  <2>2. OwnLocks(j)' = {l}
    BY <1>2, <1>4, <1>11 DEF OwnLocks
  <2> QED BY <2>1, <2>2
<1>13. Keeps /\ \A i \in Jobs : Covered(i) => Covered(i)'
  <2>1. Keeps
    BY <1>3, <1>5, WriteKeeps DEF IInv
  <2> QED BY <1>8, <2>1, CoverStays
<1>14. Covered(j)'
  <2>1. job[j].span.from \in DaysOf(job[j].span)
    BY <1>2, SpanStart
  <2>2. job'[j].span = job[j].span /\ v.span \in Locks'
    BY <1>4, <1>7, <1>11 DEF Locks
  <2>3. DateLocked(Locks', job[j].span.from)
    BY <1>4, <2>1, <2>2 DEF DateLocked, DaysOf
  <2> QED BY <2>1, <2>2, <2>3 DEF Covered, DateLocked, DaysOf
<1>15. ReqInv' /\ JobInv' /\ LockInv' /\ LockSpanInv' /\ ClosingInv'
  <2>1. ReqInv'
    BY <1>2, <1>5, <1>7, <1>8, <1>10, <1>11 DEF IInv, ReqInv, AtWork, ClosePcs
  <2>2. JobInv'
    BY <1>5, <1>8 DEF IInv, JobInv
  <2>3. LockInv' /\ LockSpanInv'
    BY <1>2, <1>4, <1>8, <1>11 DEF IInv, LockInv, LockSpanInv
  <2>4. ClosingInv'
    BY <1>5, <1>10, <1>11 DEF IInv, ClosingInv
  <2> QED BY <2>1, <2>2, <2>3, <2>4
<1>16. HoldInv' /\ InsertInv' /\ OneLockPerJob'
  <2>1. HoldInv'
    BY <1>5, <1>10, <1>11 DEF IInv, HoldInv, Holding
  <2>2. ASSUME NEW q \in Requests, req'[q].pc = "insert"
        PROVE  req'[q] = req[q] /\ req[q].job \in Jobs \ {j} /\ OwnLocks(req[q].job) = {}
    BY <1>1, <1>5, <1>10, <1>11, <2>2
       DEF IInv, HoldInv, InsertInv, Holding, ReqInv, AtWork, ClosePcs
  <2>3. InsertInv'
    BY <1>12, <2>2 DEF InsertInv, OwnLocks
  <2>4. OneLockPerJob'
    BY <1>12 DEF IInv, OneLockPerJob
  <2> QED BY <2>1, <2>3, <2>4
<1>17. CoverInv' /\ CloseIsLocked'
  <2>1. CoverInv'
    BY <1>5, <1>10, <1>11, <1>13, <1>14 DEF IInv, CoverInv, ReqInv, AtWork, ClosePcs, Holding
  <2>2. CloseIsLocked'
    BY <1>8, <1>13, <1>14 DEF IInv, CloseIsLocked, Covered
  <2> QED BY <2>1, <2>2
<1>18. CalmInv'
  <2> SUFFICES ASSUME NEW i \in Jobs \ disturbed' PROVE Calm(i)'
    BY DEF CalmInv
  <2>1. Calm(i) /\ Deciding(i)' = Deciding(i)
    BY <1>1, <1>5, <1>10, <1>11 DEF IInv, CalmInv, Deciding
  <2>2. CASE i = j
    <3>1. Deciding(j) = {r} /\ job[j].status \in {"awaiting_approval", "approved"}
      BY <1>1, <1>5, <2>2, AtWorkFacts DEF AtWork, ClosePcs, Holding
    <3> QED BY <1>2, <1>5, <1>7, <1>11, <2>1, <2>2, <3>1 DEF Calm
  <2>3. CASE i # j
    <3>1. r \notin Deciding(i)
      BY <1>1, <2>3 DEF Deciding
    <3>2. \A q \in Deciding(i) : req'[q] = req[q]
      BY <1>10, <3>1 DEF Deciding
    <3> QED BY <1>7, <1>8, <1>12, <2>1, <2>3, <3>2 DEF Calm
  <2> QED BY <2>2, <2>3
<1> QED BY <1>9, <1>15, <1>16, <1>17, <1>18 DEF IInv
-----------------------------------------------------------------------------
(* New verdicts and new jobs. *)
LEMMA BeginInv ==
  ASSUME IInv, NEW r \in Requests, NEW j \in Jobs, NEW byToken \in BOOLEAN,
         NEW verdict \in {"approve", "reject"}, Begin(r, j, byToken, verdict)
  PROVE  IInv'
<1> DEFINE x == [Idle EXCEPT !.pc = verdict, !.job = j, !.token = byToken]
<1>1. /\ x \in [pc : {"approve", "reject"}, job : {j}, token : BOOLEAN, dirty : BOOLEAN,
                span : RowSpan]
      /\ x.job = j /\ x.pc \in {"approve", "reject"}
      /\ req[r].pc = "idle" /\ req' = [req EXCEPT ![r] = x]
      /\ job[j].status = "awaiting_approval"
      /\ disturbed' = IF Deciding(j) = {} THEN disturbed ELSE disturbed \cup {j}
      /\ UNCHANGED <<job, task, lock, reopened, crashes>>
  BY DEF Begin, OpenForVerdict, Idle, RowSpan
<1> HIDE DEF x
<1>2. TypeOK'
  BY <1>1 DEF IInv, TypeOK
<1>3. /\ \A q \in Requests \ {r} : req'[q] = req[q]
      /\ req'[r] = x /\ req[r].job = NoJob
  BY <1>1 DEF IInv, TypeOK, ReqInv, AtWork, ClosePcs, Holding
<1>4. /\ Locks' = Locks
      /\ \A i \in Jobs : /\ OwnLocks(i)' = OwnLocks(i) /\ (RealClose(i)' <=> RealClose(i))
                         /\ Covered(i)' <=> Covered(i)
  BY <1>1 DEF Locks, OwnLocks, RealClose, Covered
<1>5. ReqInv'
  BY <1>1, <1>3, <1>4 DEF IInv, ReqInv, AtWork, ClosePcs, Holding
<1>6. JobInv' /\ LockInv' /\ LockSpanInv' /\ ClosingInv' /\ OneLockPerJob' /\ CloseIsLocked'
  <2>1. JobInv' /\ LockInv' /\ LockSpanInv'
    BY <1>1 DEF IInv, JobInv, LockInv, LockSpanInv
  <2>2. ClosingInv'
    BY <1>1, <1>3 DEF IInv, ClosingInv
  <2>3. OneLockPerJob' /\ CloseIsLocked'
    BY <1>1, <1>4 DEF IInv, OneLockPerJob, CloseIsLocked, Covered
  <2> QED BY <2>1, <2>2, <2>3
<1>7. HoldInv'
  BY <1>1, <1>3 DEF IInv, HoldInv, Holding
<1>8. InsertInv'
  <2>1. ASSUME NEW q \in Requests, req'[q].pc = "insert"
        PROVE  req'[q] = req[q] /\ req[q].job \in Jobs /\ OwnLocks(req[q].job) = {}
    BY <1>1, <1>3, <2>1 DEF IInv, InsertInv, ReqInv, AtWork, ClosePcs, Holding
  <2> QED BY <1>4, <2>1 DEF InsertInv, OwnLocks
<1>9. CoverInv'
  BY <1>1, <1>3, <1>4 DEF IInv, CoverInv, ReqInv, AtWork, ClosePcs, Holding
<1>10. CalmInv'
  <2> SUFFICES ASSUME NEW i \in Jobs \ disturbed' PROVE Calm(i)'
    BY DEF CalmInv
  <2>1. Calm(i) /\ r \notin Deciding(i)
    BY <1>1, <1>3, ApprovalAssumption DEF IInv, CalmInv, Deciding
  <2>2. CASE i = j
    <3>1. Deciding(j) = {} /\ OwnLocks(j)' = {}
      BY <1>1, <1>4, <2>1, <2>2 DEF Calm
    <3>2. Deciding(j)' \subseteq {r}
      BY <1>3, <3>1 DEF Deciding
    <3> QED BY <1>1, <2>2, <3>1, <3>2 DEF Calm
  <2>3. CASE i # j
    <3>1. Deciding(i)' = Deciding(i) /\ \A q \in Deciding(i) : req'[q] = req[q]
      BY <1>1, <1>3, <2>1, <2>3 DEF Deciding
    <3> QED BY <1>1, <1>4, <2>1, <3>1 DEF Calm
  <2> QED BY <2>2, <2>3
<1> QED BY <1>2, <1>5, <1>6, <1>7, <1>8, <1>9, <1>10 DEF IInv

(* Nothing refers to a job before it exists. *)
LEMMA InsertJobInv ==
  ASSUME IInv, NEW j \in Jobs, NEW k \in Kinds, NEW s \in JobSpans, NEW dry \in BOOLEAN,
         Insert(j, k, s, dry)
  PROVE  IInv'
<1> DEFINE v == [status |-> "pending", kind |-> k, dry |-> dry, span |-> s, token |-> FALSE]
<1>1. /\ v \in Row /\ v.status = "pending" /\ v.span \in Span
      /\ job[j].status = "absent" /\ job' = [job EXCEPT ![j] = v]
      /\ task' = [task EXCEPT ![j] = "run"]
      /\ UNCHANGED <<lock, req, reopened, disturbed, crashes>>
  BY ApprovalAssumption DEF Insert, Row, Status, RowSpan
<1> HIDE DEF v
<1>2. TypeOK'
  BY <1>1 DEF IInv, TypeOK, Row
<1>3. job'[j] = v /\ \A i \in Jobs \ {j} : job'[i] = job[i] /\ task'[i] = task[i]
  BY <1>1 DEF IInv, TypeOK
<1>4. /\ Locks' = Locks
      /\ \A i : OwnLocks(i)' = OwnLocks(i) /\ Deciding(i)' = Deciding(i)
      /\ \A i \in Jobs \ {j} : (RealClose(i)' <=> RealClose(i)) /\ (Covered(i)' <=> Covered(i))
  BY <1>1, <1>3 DEF Locks, OwnLocks, Deciding, RealClose, Covered
<1>5. /\ \A r \in Requests : req[r].pc \in AtWork => req[r].job \in Jobs \ {j}
      /\ \A l \in LockIds : lock[l].active => lock[l].by # j
  BY <1>1 DEF IInv, ReqInv, LockInv
<1>6. ReqInv' /\ HoldInv' /\ InsertInv' /\ CoverInv'
  <2>1. ReqInv'
    BY <1>1, <1>3, <1>4, <1>5 DEF IInv, ReqInv, ClosePcs, AtWork
  <2>2. HoldInv' /\ InsertInv'
    BY <1>1, <1>4 DEF IInv, HoldInv, InsertInv, OwnLocks
  <2>3. CoverInv'
    BY <1>1, <1>4, <1>5 DEF IInv, CoverInv, AtWork, ClosePcs, Holding
  <2> QED BY <2>1, <2>2, <2>3
<1>7. JobInv' /\ LockInv' /\ LockSpanInv' /\ ClosingInv' /\ OneLockPerJob' /\ CloseIsLocked'
  <2>1. JobInv'
    BY <1>1, <1>3 DEF IInv, JobInv
  <2>2. LockInv' /\ LockSpanInv' /\ ClosingInv'
    BY <1>1, <1>3, <1>5 DEF IInv, LockInv, LockSpanInv, ClosingInv
  <2>3. OneLockPerJob'
    BY <1>4 DEF IInv, OneLockPerJob, OwnLocks
  <2>4. CloseIsLocked'
    BY <1>1, <1>3, <1>4 DEF IInv, CloseIsLocked, Covered
  <2> QED BY <2>1, <2>2, <2>3, <2>4
<1>8. CalmInv'
  <2> SUFFICES ASSUME NEW i \in Jobs \ disturbed' PROVE Calm(i)'
    BY DEF CalmInv
  <2>1. Calm(i)
    BY <1>1 DEF IInv, CalmInv
  <2>2. CASE i = j
    BY <1>1, <1>4, <2>1, <2>2 DEF Calm
  <2>3. CASE i # j
    BY <1>1, <1>3, <1>4, <2>1, <2>3 DEF Calm
  <2> QED BY <2>2, <2>3
<1> QED BY <1>2, <1>6, <1>7, <1>8 DEF IInv
-----------------------------------------------------------------------------
LEMMA InitIInv == Init => IInv
  BY ApprovalAssumption
     DEF Init, Idle, IInv, TypeOK, ReqInv, JobInv, LockInv, LockSpanInv, ClosingInv, HoldInv,
         InsertInv, OneLockPerJob, CoverInv, CloseIsLocked, CalmInv, Calm, AtWork, ClosePcs,
         Holding, OwnLocks, Deciding, Status, RowSpan

LEMMA StepIInv == IInv /\ [Next]_vars => IInv'
<1> SUFFICES ASSUME IInv, [Next]_vars PROVE IInv'
  OBVIOUS
<1>1. ASSUME NEW j \in Jobs, TaskStep(j) \/ TaskDies(j) \/ GateFails(j) PROVE IInv'
  BY <1>1, StartRunInv, EndRunInv, OpenGateInv, TaskDiesInv, GateFailsInv DEF TaskStep
<1>2. ASSUME NEW j \in Jobs, NEW s \in JobSpans, NEW dry \in BOOLEAN,
             RunClosePipeline(j, s, dry) \/ \E k \in Kinds : CreateJob(j, k, s, dry)
      PROVE  IInv'
  BY <1>2, InsertJobInv DEF RunClosePipeline, CreateJob
<1>3. ASSUME NEW r \in Requests, VerdictStep(r) PROVE IInv'
  BY <1>3, RejectInv, ApproveSimpleInv, FlushInv, StatementsKeptInv, StatementsMadeInv,
     StatementsFailedInv, StatementsCollideInv, RecordStatementsInv, LockCheckInv,
     LockInsertInv, FinishInv DEF VerdictStep
<1>4. ASSUME NEW r \in Requests, RequestDies(r) \/ CloseMonthCommit(r) PROVE IInv'
  BY <1>4, RequestDiesInv, CloseMonthCommitInv
<1>5. ASSUME NEW r \in Requests, NEW j \in Jobs, NEW byToken \in BOOLEAN,
             NEW v \in {"approve", "reject"}, Begin(r, j, byToken, v)
      PROVE  IInv'
  BY <1>5, BeginInv
<1>6. ASSUME NEW r \in Requests, NEW m \in Months, CloseMonth(r, m) PROVE IInv'
  BY <1>6, CloseMonthInv
<1>7. ASSUME NEW m \in Months, OpenMonth(m) PROVE IInv'
  BY <1>7, ReleaseInv DEF OpenMonth
<1>8. ASSUME NEW l \in LockIds, UnlockPeriod(l) PROVE IInv'
  BY <1>8, ReleaseInv DEF UnlockPeriod
<1>9. CASE UNCHANGED vars
  <2>1. TypeOK' /\ JobInv'
    BY <1>9 DEF vars, IInv, TypeOK, JobInv
  <2> QED BY <1>9, <2>1, SameTables DEF vars
<1> QED BY <1>1, <1>2, <1>3, <1>4, <1>5, <1>6, <1>7, <1>8, <1>9 DEF Next

LEMMA AlwaysIInv == Spec => []IInv
  BY InitIInv, StepIInv, PTL DEF Spec

(* Every row and every request keeps its type, for any number of jobs,     *)
(* requests, locks and days.                                               *)
THEOREM ApprovalTyped == Spec => []TypeOK
<1>1. IInv => TypeOK
  BY DEF IInv
<1> QED BY <1>1, AlwaysIInv, PTL

(* However many verdicts on however many jobs race, and whatever dies, no  *)
(* close stands behind two active locks.                                   *)
THEOREM ApprovalLocksOnce == Spec => []OneLockPerJob
<1>1. IInv => OneLockPerJob
  BY DEF IInv
<1> QED BY <1>1, AlwaysIInv, PTL

(* A close that is complete has a day of its period locked, unless an      *)
(* administrator released one.                                             *)
THEOREM ApprovalLocks == Spec => []CloseIsLocked
<1>1. IInv => CloseIsLocked
  BY DEF IInv
<1> QED BY <1>1, AlwaysIInv, PTL

(* A job whose verdicts came one at a time is locked for by an approval    *)
(* only, and complete once that approval is over.                          *)
THEOREM ApprovalIsOne == Spec => []VerdictIsOne
<1>1. IInv => VerdictIsOne
  BY DEF IInv, CalmInv, Calm, VerdictIsOne
<1> QED BY <1>1, AlwaysIInv, PTL

(* The status of a job changes by the work of a run that is not over, or   *)
(* of a request that is at work on it.                                     *)
LEMMA WhoSetsStatus ==
  ASSUME IInv, Next, NEW j \in Jobs, job'[j].status # job[j].status
  PROVE  \/ job[j].status \in {"absent", "pending", "running"}
         \/ j \in disturbed'
         \/ \E r \in Requests : req[r].pc \in AtWork /\ req[r].job = j
<1> USE DEF IInv, TypeOK
<1>1. ASSUME NEW i \in Jobs, TaskStep(i) \/ TaskDies(i) \/ GateFails(i)
      PROVE  job[j].status \in {"absent", "pending", "running"} \/ j \in disturbed'
  BY <1>1 DEF TaskStep, StartRun, EndRun, OpenGate, TaskDies, GateFails, SetStatus
<1>2. ASSUME NEW i \in Jobs, NEW s \in JobSpans, NEW dry \in BOOLEAN,
             RunClosePipeline(i, s, dry) \/ \E k \in Kinds : CreateJob(i, k, s, dry)
      PROVE  job[j].status = "absent"
  BY <1>2 DEF RunClosePipeline, CreateJob, Insert
<1>3. ASSUME NEW r \in Requests, VerdictStep(r) PROVE req[r].pc \in AtWork /\ req[r].job = j
  <2>1. job' = job \/ \E v : job' = [job EXCEPT ![req[r].job] = v]
    <3>1. CASE job' = [job EXCEPT ![req[r].job].status = "complete"]
      BY <3>1
    <3> QED BY <1>3, <3>1
        DEF VerdictStep, Reject, ApproveSimple, Flush, StatementsKept, StatementsMade,
            StatementsFailed, StatementsCollide, RecordStatements, LockCheck, LockInsert, Finish
  <2>2. req[r].pc \in AtWork
    BY <1>3 DEF VerdictStep, Reject, ApproveSimple, Flush, StatementsKept, StatementsMade,
        StatementsFailed, StatementsCollide, RecordStatements, LockCheck, LockInsert, Finish,
        AtWork, ClosePcs, Holding
  <2> QED BY <2>1, <2>2
<1>4. ASSUME NEW r \in Requests,
             \/ RequestDies(r) \/ CloseMonthCommit(r) \/ \E m \in Months : CloseMonth(r, m)
             \/ \E i \in Jobs, byToken \in BOOLEAN, v \in {"approve", "reject"} :
                  Begin(r, i, byToken, v)
      PROVE  FALSE
  BY <1>4 DEF RequestDies, CloseMonthCommit, CloseMonth, Begin
<1>5. ASSUME (\E m \in Months : OpenMonth(m)) \/ (\E l \in LockIds : UnlockPeriod(l))
      PROVE  FALSE
  BY <1>5 DEF OpenMonth, UnlockPeriod, Release
<1> QED BY <1>1, <1>2, <1>3, <1>4, <1>5 DEF Next

(* A job that is over and was decided by one verdict at a time never       *)
(* changes its status again, whatever locks, screens and other jobs do.    *)
THEOREM ApprovalIsFinal == Spec => VerdictIsFinal
<1> DEFINE Final == \A j \in Jobs \ disturbed' :
                      job[j].status \in Over => job'[j].status = job[j].status
<1>1. ASSUME IInv, [Next]_vars PROVE [Final]_vars
  <2>1. SUFFICES ASSUME Next, NEW j \in Jobs \ disturbed', job[j].status \in Over,
                        job'[j].status # job[j].status
                 PROVE  FALSE
    BY <1>1
  <2>2. disturbed \subseteq disturbed'
    BY <2>1 DEF Next, TaskStep, StartRun, EndRun, OpenGate, TaskDies, GateFails, RunClosePipeline,
        CreateJob, Insert, VerdictStep, Reject, ApproveSimple, Flush, StatementsKept,
        StatementsMade, StatementsFailed, StatementsCollide, RecordStatements, LockCheck,
        LockInsert, Finish, RequestDies, CloseMonthCommit, CloseMonth, Begin, OpenMonth,
        UnlockPeriod, Release
  <2>3. PICK r \in Requests : req[r].pc \in AtWork /\ req[r].job = j
    BY <1>1, <2>1, WhoSetsStatus DEF Over
  <2> QED BY <1>1, <2>1, <2>2, <2>3, AtWorkFacts DEF Over
<1>2. IInv /\ [Next]_vars => [Final]_vars
  BY <1>1
<1> QED BY <1>2, AlwaysIInv, PTL DEF Spec, VerdictIsFinal
-----------------------------------------------------------------------------
(* Whose work a stalled job is *)

(* Counting stalled jobs is not enough: one that two requests decided is   *)
(* not stalled when the first of them dies, but when the second, which did *)
(* not die, runs into a collision.  So a job counts from the moment its    *)
(* approval has nobody left who will complete it.                          *)
Carrying == {"stated", "check", "insert", "skipped", "locked"}
Carried(j) == \E r \in Requests : req[r].job = j /\ req[r].pc \in Carrying
Neglected(j) ==
  /\ ~Carried(j)
  /\ \/ job[j].status = "approved"
     \/ /\ task[j] = "none"
        /\ \/ job[j].status \in {"pending", "running"}
           \/ job[j].status = "awaiting_approval" /\ ~job[j].token
Neglect == {j \in Jobs : Neglected(j)}

(* A task that will open the gate is past its run, and so is its job.      *)
GateInv == \A j \in Jobs : task[j] = "gate" => job[j].status \notin {"absent", "pending", "running"}

LEMMA TaskNeglects ==
  ASSUME TypeOK, GateInv, NEW j \in Jobs,
         \/ TaskStep(j) \/ TaskDies(j) \/ GateFails(j)
         \/ \E k \in Kinds, s \in JobSpans, dry \in BOOLEAN : Insert(j, k, s, dry)
  PROVE  /\ GateInv'
         /\ Neglect' \subseteq Neglect \cup (IF TaskDies(j) THEN {j} ELSE {})
<1>1. UNCHANGED req /\ \A i \in Jobs \ {j} : job'[i] = job[i] /\ task'[i] = task[i]
  BY DEF TaskStep, StartRun, EndRun, OpenGate, TaskDies, GateFails, Insert, SetStatus, TypeOK
<1>2. /\ task'[j] = "gate" => job'[j].status \notin {"absent", "pending", "running"}
      /\ TaskDies(j) \/ (Neglected(j)' => Neglected(j))
  <2>1. Carried(j)' <=> Carried(j) BY <1>1 DEF Carried
  <2>2. CASE StartRun(j)
    <3>1. task'[j] = "run" BY <2>2 DEF StartRun
    <3>2. job'[j].status = "running" BY <2>2 DEF StartRun, SetStatus, TypeOK
    <3> QED BY <3>1, <3>2 DEF Neglected
  <2>3. CASE EndRun(j)
    <3>1. PICK t \in Outcomes(job[j].kind) :
            /\ SetStatus(j, t)
            /\ task' = [task EXCEPT ![j] = IF t = "awaiting_approval" THEN "gate" ELSE "none"]
      BY <2>3 DEF EndRun
    <3>2. /\ job'[j].status = t /\ t \in {"awaiting_approval", "failed", "complete"}
          /\ task'[j] = IF t = "awaiting_approval" THEN "gate" ELSE "none"
      BY <3>1 DEF SetStatus, Outcomes, TypeOK
    <3> QED BY <3>2 DEF Neglected
  <2>4. CASE OpenGate(j)
    <3>1. job' = [job EXCEPT ![j].token = TRUE] /\ task'[j] = "none" /\ task[j] = "gate"
      BY <2>4 DEF OpenGate, TypeOK
    <3>2. job'[j].token = TRUE /\ job'[j].status = job[j].status BY <3>1 DEF TypeOK
    <3> QED BY <2>1, <3>1, <3>2 DEF Neglected, GateInv
  <2>5. CASE GateFails(j)
    <3>1. job'[j].status = "failed" /\ task'[j] = "none" BY <2>5 DEF GateFails, SetStatus, TypeOK
    <3> QED BY <3>1 DEF Neglected
  <2>6. CASE \E k \in Kinds, s \in JobSpans, dry \in BOOLEAN : Insert(j, k, s, dry)
    <3>1. task'[j] = "run" /\ job'[j].status = "pending" BY <2>6 DEF Insert, TypeOK
    <3> QED BY <3>1 DEF Neglected
  <2>7. CASE TaskDies(j)
    BY <2>7 DEF TaskDies, TypeOK
  <2> QED BY <2>2, <2>3, <2>4, <2>5, <2>6, <2>7 DEF TaskStep
<1>3. GateInv' BY <1>1, <1>2 DEF GateInv
<1>4. \A i \in Jobs \ {j} : Neglected(i)' => Neglected(i) BY <1>1 DEF Neglected, Carried
<1> QED BY <1>2, <1>3, <1>4 DEF Neglect

(* A request at work leaves its job carried, or with a verdict.            *)
LEMMA VerdictNeglects ==
  ASSUME TypeOK, ReqInv, GateInv, NEW r \in Requests, VerdictStep(r) \/ RequestDies(r)
  PROVE  /\ GateInv'
         /\ Neglect' \subseteq Neglect \cup (IF RequestDies(r) THEN {req[r].job} ELSE {})
<1>1. PICK j \in Jobs : j = req[r].job /\ req[r].pc \in AtWork /\ job[j].status # "absent"
  BY DEF VerdictStep, Reject, ApproveSimple, Flush, StatementsKept, StatementsMade,
         StatementsFailed, StatementsCollide, RecordStatements, LockCheck, LockInsert, Finish,
         RequestDies, ReqInv, AtWork, ClosePcs, Holding
<1>2. /\ \A q \in Requests \ {r} : req'[q] = req[q]
      /\ UNCHANGED task
  BY DEF VerdictStep, Reject, ApproveSimple, Flush, StatementsKept, StatementsMade,
         StatementsFailed, StatementsCollide, RecordStatements, LockCheck, LockInsert, Finish,
         RequestDies, Goto, TypeOK
<1>3. /\ \A i \in Jobs \ {j} : job'[i] = job[i]
      /\ job'[j].status \in {job[j].status, "approved", "complete", "rejected"}
  <2>1. CASE job' = job BY <2>1
  <2>2. CASE \E s \in {"approved", "complete", "rejected"} : job' = [job EXCEPT ![j] = Marked(j, r, s)]
    BY <1>1, <2>2, MarkedRow DEF Restated, Status, TypeOK
  <2>3. CASE job' = [job EXCEPT ![j].status = "complete"]
    BY <1>1, <2>3 DEF TypeOK
  <2> QED BY <1>1, <2>1, <2>2, <2>3
          DEF VerdictStep, Reject, ApproveSimple, Flush, StatementsKept, StatementsMade,
              StatementsFailed, StatementsCollide, RecordStatements, LockCheck, LockInsert,
              Finish, RequestDies
<1>4. GateInv' BY <1>1, <1>2, <1>3 DEF GateInv
<1>5. ASSUME NEW i \in Jobs \ {j}, Neglected(i)' PROVE Neglected(i)
  <2>1. ~Carried(i)' BY <1>5 DEF Neglected
  <2>2. ~Carried(i) BY <1>1, <1>2, <2>1 DEF Carried
  <2> QED BY <1>2, <1>3, <1>5, <2>2 DEF Neglected
<1>6. CASE VerdictStep(r)
  <2>1. ASSUME Neglected(j)' PROVE Neglected(j)
    <3>1. CASE Reject(r) \/ ApproveSimple(r) \/ Finish(r)
      <4>1. job'[j].status \in {"complete", "rejected"}
        <5>1. CASE \E s \in {"complete", "rejected"} : job' = [job EXCEPT ![j] = Marked(j, r, s)]
          BY <1>1, <5>1, MarkedRow DEF Restated, Status, TypeOK
        <5>2. CASE job' = [job EXCEPT ![j].status = "complete"]
          BY <1>1, <5>2 DEF TypeOK
        <5> QED BY <1>1, <3>1, <5>1, <5>2 DEF Reject, ApproveSimple, Finish
      <4> QED BY <2>1, <4>1 DEF Neglected
    <3>2. CASE Flush(r) \/ StatementsCollide(r)
      <4>1. job' = job /\ req[r].pc \notin Carrying
        BY <3>2 DEF Flush, StatementsCollide, Carrying
      <4>2. ~Carried(j)
        <5>1. ~Carried(j)' BY <2>1 DEF Neglected
        <5> QED BY <1>2, <4>1, <5>1 DEF Carried
      <4> QED BY <1>2, <2>1, <4>1, <4>2 DEF Neglected
    <3>3. CASE \/ StatementsKept(r) \/ StatementsMade(r) \/ StatementsFailed(r)
               \/ RecordStatements(r) \/ LockCheck(r) \/ LockInsert(r)
      <4>1. req'[r].job = j /\ req'[r].pc \in Carrying
        BY <1>1, <3>3 DEF StatementsKept, StatementsMade, StatementsFailed, RecordStatements,
                    LockCheck, LockInsert, Goto, Carrying, TypeOK
      <4> QED BY <2>1, <4>1 DEF Neglected, Carried
    <3> QED BY <1>6, <3>1, <3>2, <3>3 DEF VerdictStep
  <2> QED BY <1>4, <1>5, <2>1 DEF Neglect
<1>7. CASE RequestDies(r)
  BY <1>1, <1>4, <1>5, <1>7 DEF Neglect
<1> QED BY <1>6, <1>7

(* Whatever races with whatever, there are never more jobs that nobody     *)
(* will bring to an end than tasks and requests that died.                 *)
THEOREM CrashesStall == Spec => []OnlyCrashesStall
<1> DEFINE J == GateInv /\ IsFiniteSet(Neglect) /\ Cardinality(Neglect) <= crashes
<1>1. Init => J
  <2> SUFFICES ASSUME Init PROVE J OBVIOUS
  <2>1. Neglect = {} BY DEF Init, Neglect, Neglected
  <2>2. GateInv BY DEF Init, GateInv
  <2> QED BY <2>1, <2>2, FS_EmptySet DEF Init
<1>2. ASSUME IInv, J, [Next]_vars PROVE J'
  <2>1. TypeOK /\ ReqInv /\ GateInv /\ crashes \in Nat BY <1>2 DEF IInv, TypeOK
  <2>2. ASSUME GateInv', Neglect' \subseteq Neglect, crashes' >= crashes, crashes' \in Nat
        PROVE  J'
    <3>1. IsFiniteSet(Neglect') /\ Cardinality(Neglect') <= Cardinality(Neglect)
      BY <1>2, <2>2, FS_Subset
    <3>2. Cardinality(Neglect) \in Nat /\ Cardinality(Neglect') \in Nat
      BY <1>2, <3>1, FS_CardinalityType
    <3> QED BY <1>2, <2>1, <2>2, <3>1, <3>2
  <2>3. ASSUME NEW j, GateInv', Neglect' \subseteq Neglect \cup {j}, crashes' = crashes + 1
        PROVE  J'
    <3> DEFINE T == Neglect \cup {j}
    <3>1. IsFiniteSet(T) /\ Cardinality(T) <= Cardinality(Neglect) + 1
      <4>1. /\ IsFiniteSet(T)
            /\ Cardinality(T) = IF j \in Neglect THEN Cardinality(Neglect)
                                ELSE Cardinality(Neglect) + 1
        BY <1>2, FS_AddElement
      <4> QED BY <1>2, <4>1, FS_CardinalityType
    <3>2. Neglect' \subseteq T BY <2>3
    <3> HIDE DEF T
    <3>3. IsFiniteSet(Neglect') /\ Cardinality(Neglect') <= Cardinality(T)
      BY <3>1, <3>2, FS_Subset
    <3>4. Cardinality(Neglect) \in Nat /\ Cardinality(Neglect') \in Nat /\ Cardinality(T) \in Nat
      BY <1>2, <3>1, <3>3, FS_CardinalityType
    <3> QED BY <1>2, <2>1, <2>3, <3>1, <3>3, <3>4
  <2> HIDE DEF J
  <2>4. ASSUME NEW j \in Jobs, TaskStep(j) \/ TaskDies(j) \/ GateFails(j) PROVE J'
    <3>1. CASE TaskDies(j)
      BY <2>1, <2>3, <3>1, TaskNeglects DEF TaskDies
    <3>2. CASE ~TaskDies(j)
      <4>1. GateInv' /\ Neglect' \subseteq Neglect BY <2>1, <2>4, <3>2, TaskNeglects
      <4>2. crashes' = crashes \/ crashes' = crashes + 1
        BY <2>4, <3>2 DEF TaskStep, StartRun, EndRun, OpenGate, GateFails
      <4> QED BY <2>1, <2>2, <4>1, <4>2
    <3> QED BY <3>1, <3>2
  <2>5. ASSUME NEW j \in Jobs, NEW s \in JobSpans, NEW dry \in BOOLEAN,
               RunClosePipeline(j, s, dry) \/ \E k \in Kinds : CreateJob(j, k, s, dry)
        PROVE  J'
    <3>1. \E k \in Kinds : Insert(j, k, s, dry) BY <2>5 DEF RunClosePipeline, CreateJob
    <3>2. ~TaskDies(j) /\ crashes' = crashes
      BY <2>1, <3>1 DEF Insert, TaskDies
    <3>3. GateInv' /\ Neglect' \subseteq Neglect BY <2>1, <3>1, <3>2, TaskNeglects
    <3> QED BY <2>1, <2>2, <3>2, <3>3
  <2>6. ASSUME NEW r \in Requests, RequestDies(r) PROVE J'
    BY <2>1, <2>3, <2>6, VerdictNeglects DEF RequestDies
  <2>7. ASSUME NEW r \in Requests, VerdictStep(r) PROVE J'
    <3>1. crashes' = crashes
      BY <2>7 DEF VerdictStep, Reject, ApproveSimple, Flush, StatementsKept, StatementsMade,
                  StatementsFailed, StatementsCollide, RecordStatements, LockCheck, LockInsert,
                  Finish
    <3>2. ~RequestDies(r) BY <2>1, <3>1 DEF RequestDies
    <3>3. GateInv' /\ Neglect' \subseteq Neglect BY <2>1, <2>7, <3>2, VerdictNeglects
    <3> QED BY <2>1, <2>2, <3>1, <3>3
  <2>8. ASSUME UNCHANGED <<job, task, crashes>>,
               \A r \in Requests : req'[r] = req[r] \/ req[r].pc \notin Carrying
        PROVE  J'
    <3>1. GateInv' BY <2>1, <2>8 DEF GateInv
    <3>2. \A j \in Jobs : Carried(j) => Carried(j)' BY <2>8 DEF Carried
    <3>3. Neglect' \subseteq Neglect BY <2>8, <3>2 DEF Neglect, Neglected
    <3> QED BY <2>1, <2>2, <2>8, <3>1, <3>3
  <2>9. ASSUME NEW r \in Requests,
               \/ CloseMonthCommit(r) \/ \E m \in Months : CloseMonth(r, m)
               \/ \E j \in Jobs, byToken \in BOOLEAN, v \in {"approve", "reject"} :
                    Begin(r, j, byToken, v)
        PROVE  J'
    <3>1. /\ req[r].pc \notin Carrying /\ \A q \in Requests \ {r} : req'[q] = req[q]
          /\ UNCHANGED <<job, task, crashes>>
      BY <2>1, <2>9 DEF CloseMonthCommit, CloseMonth, Begin, Carrying, TypeOK
    <3> QED BY <2>8, <3>1
  <2>10. CASE (\E m \in Months : OpenMonth(m)) \/ (\E l \in LockIds : UnlockPeriod(l)) \/ UNCHANGED vars
    BY <2>8, <2>10 DEF OpenMonth, UnlockPeriod, Release, vars
  <2> QED BY <1>2, <2>4, <2>5, <2>6, <2>7, <2>9, <2>10 DEF Next
<1>3. IInv /\ J => OnlyCrashesStall
  <2> SUFFICES ASSUME IInv, J PROVE OnlyCrashesStall OBVIOUS
  <2>1. crashes \in Nat BY DEF IInv, TypeOK
  <2> DEFINE S == {j \in Jobs : Stalled(j)}
  <2>2. S \subseteq Neglect
    <3> SUFFICES ASSUME NEW j \in Jobs, Stalled(j) PROVE Neglected(j) BY DEF Neglect
    <3>1. ~Carried(j) BY DEF Stalled, Deciding, Carried
    <3> QED BY <3>1 DEF Stalled, Neglected
  <2> HIDE DEF S
  <2>3. IsFiniteSet(S) /\ Cardinality(S) <= Cardinality(Neglect) BY <2>2, FS_Subset
  <2>4. Cardinality(S) \in Nat /\ Cardinality(Neglect) \in Nat BY <2>3, FS_CardinalityType
  <2>5. Cardinality(S) <= crashes BY <2>1, <2>3, <2>4
  <2> QED BY <2>5 DEF S, OnlyCrashesStall
<1> QED BY <1>1, <1>2, <1>3, AlwaysIInv, PTL DEF Spec
=============================================================================
