--------------------------- MODULE PipelineProofs ---------------------------
(***************************************************************************)
(* The inductive invariant IInv of Pipeline, and one lemma per action of   *)
(* the worker and the API: from IInv the action leads to IInv, and the     *)
(* jobs table it leaves continues the one it found (StepOk).  From them    *)
(* the theorems about Spec: types, one running job, and jobs that stay as  *)
(* they ended.  They hold for every value of the constants that the        *)
(* assumptions of Store and Pipeline allow.                                *)
(***************************************************************************)
EXTENDS Pipeline, StoreProofs

(* The inductive invariant *)

\* Where a handler has a document or a recordings row to write its follow-up
\* from.
Documents == {"jsonFile", "jsonRow", "mdFile", "mdRow", "follow"}

\* Which kinds of jobs reach which place.
Places(w, kind) ==
    /\ w.pc \in {"jsonFile", "jsonRow"} => kind \in {"transcribe", "classify", "render"}
    /\ w.pc \in {"mdFile", "mdRow"} => kind \in {"classify", "render"}
    /\ w.pc \in {"clips", "clipRows", "stage", "commit"} => kind = "transcribe"
    /\ w.pc = "match" => kind = "finalize_speakers"
    /\ w.pc \in {"sumFile", "sumRow"} => kind = "summarize"
    /\ w.pc = "settle" => kind \in {"transcribe", "classify"}
    /\ w.resumed => kind \in {"transcribe", "classify"}
    /\ w.resumed /\ kind = "classify"
          => w.pc \in {"jsonFile", "jsonRow", "mdFile", "mdRow", "settle"}

\* The transcript the worker holds there, and that a fresh classification has
\* a category.
Holds(w, kind) ==
    /\ w.pc \in {"jsonFile", "jsonRow", "mdFile", "mdRow", "clips", "clipRows", "stage",
                      "commit", "settle"}
          => w.doc \in Transcript
    /\ w.pc = "follow" /\ kind \in {"transcribe", "classify"}
          => w.doc \in Transcript
    /\ w.pc = "model" /\ kind = "classify" => w.doc \in Transcript
    /\ w.pc \in Documents /\ kind = "classify" /\ ~w.resumed
          => w.doc.category \in Category

\* The recordings row the worker holds there, and that a document or summary
\* has a category.
Saw(w, kind) ==
    /\ w.pc = "model" => w.seen \in RecordingRow
    /\ w.pc \in {"match", "follow"} /\ kind = "finalize_speakers"
          => w.seen \in RecordingRow
    /\ w.pc \in Documents /\ kind = "render"
          => w.seen \in RecordingRow /\ w.seen.category \in Category
    /\ w.pc \in {"model", "sumFile", "sumRow"} /\ kind = "summarize"
          => w.seen \in RecordingRow /\ w.seen.category \in Category

\* What is known of a worker w that is busy with a job of this kind.
Fits(w, kind) == Places(w, kind) /\ Holds(w, kind) /\ Saw(w, kind)

\* The worker has a job exactly while it is busy, and fits that job's kind.
Hand ==
    /\ worker \in Worker
    /\ worker.pc \in {"down", "recovering", "idle"} <=> worker.job = 0
    /\ worker.job # 0 => worker.job \in Ids /\ Fits(worker, Mine.kind)

\* The inductive invariant.
IInv == TableOk(jobs) /\ OrderOk(jobs, queue) /\ Row /\ Files /\ Hand /\ OneRunning

\* What every step is shown to do.
StepOk == IInv' /\ Continues(jobs, jobs')

-----------------------------------------------------------------------------
(* The parts of a step *)

\* The worker while others take the step.
LEMMA HandKeeps ==
    ASSUME Hand, Continues(jobs, jobs'), worker' = worker
    PROVE  Hand'
  BY DEF Hand, Continues, Fits, Places, Holds, Saw, Mine, Ids

\* One job stays the running one if the table's running jobs and the worker's
\* stay.
LEMMA SingleKeeps ==
    ASSUME OneRunning, RunningIn(jobs') = RunningIn(jobs),
           \/ worker' = worker
           \/ worker'.job \in {worker.job, 0} /\ worker'.pc # "idle"
    PROVE  OneRunning'
  BY DEF OneRunning, Running, RunningIn, Ids

\* The job of a worker that is past its claim.
LEMMA Employed ==
    ASSUME Hand, worker.pc \notin {"down", "recovering", "idle"}
    PROVE  /\ worker.job \in Nat /\ worker.job # 0 /\ worker.job \in Ids
           /\ Fits(worker, Mine.kind)
  BY DEF Hand, Worker

\* The worker's job is a row of the table.
LEMMA MineIsJob ==
    ASSUME TableOk(jobs), worker.job \in Ids
    PROVE  Mine \in Job /\ RowOk(Mine)
  BY ElementOfSeq, LenProperties DEF TableOk, Mine, Ids

\* A handler that is over: it returned or raised.
LEMMA OverKeeps ==
    ASSUME Hand, worker.pc \notin {"down", "recovering", "idle"}, Continues(jobs, jobs'),
           NEW retryable \in BOOLEAN, Return \/ Raise(retryable)
    PROVE  Hand' /\ worker'.job = worker.job /\ worker'.pc \in {"done", "marking", "failing"}
<1>1. /\ worker.job \in Nat /\ worker.job # 0 /\ worker.job \in Ids /\ worker.job \in Ids'
      /\ worker.resumed \in BOOLEAN
  BY Employed DEF Continues, Ids, Hand, Worker
<1>2. \E pc \in {"done", "marking", "failing"}, again \in BOOLEAN :
         worker' = [pc |-> pc, job |-> worker.job, seen |-> None, doc |-> None,
                    resumed |-> FALSE, retry |-> again]
  <2>1. CASE Return
    BY <2>1 DEF Return, Unemployed
  <2>2. CASE Raise(retryable)
    BY <1>1, <2>2 DEF Raise, Unemployed
  <2>3. QED
    BY <2>1, <2>2
<1>3. QED
  BY <1>1, <1>2 DEF Hand, Worker, PC, Fits, Places, Holds, Saw, Documents, Ids

\* A worker without a job.
LEMMA UnemployedKeeps ==
    ASSUME NEW pc \in {"down", "recovering", "idle"}, worker' = Unemployed(pc)
    PROVE  Hand'
  BY DEF Hand, Worker, PC, Unemployed

\* The speech rows are typed.
LEMMA SpeechOfRow == ASSUME IInv PROVE speech \in SpeechRow
  BY DEF IInv, Files

\* The recording's next revision.
LEMMA RevisionBelow ==
    ASSUME Row, RoomForRevision
    PROVE  rec.revision + 1 \in Revision
  BY BoundAssumption DEF Row, RecordingRow, Revision, RoomForRevision

\* .. keeps the recordings row typed.
LEMMA RevisionRaised ==
    ASSUME Row, RoomForRevision, rec' = [rec EXCEPT !.revision = @ + 1]
    PROVE  Row'
  BY RevisionBelow DEF Row, RecordingRow

-----------------------------------------------------------------------------
(* Claiming, releasing and finishing *)

\* A worker past its claim holds the one running job.
LEMMA MineRunning ==
    ASSUME IInv, worker.pc \notin {"down", "recovering", "idle"}
    PROVE  /\ worker.job \in Ids /\ worker.job \in Nat /\ worker.job # 0
           /\ Mine.status = "running"
           /\ RunningIn(jobs) = {worker.job}
           /\ NotDue(queue, worker.job)
           /\ Mine \in Job /\ RowOk(Mine)
<1>1. worker.job \in Ids /\ worker.job \in Nat /\ worker.job # 0
  BY Employed DEF IInv
<1>2. RunningIn(jobs) = {worker.job} /\ Mine.status = "running"
  BY <1>1 DEF IInv, OneRunning, Running, RunningIn, Mine, Ids
<1>3. NotDue(queue, worker.job)
  BY <1>2 DEF NotDue, IInv, OrderOk, Mine
<1>4. QED
  BY <1>1, <1>2, <1>3, MineIsJob DEF IInv

\* claim_next_job keeps the invariant and continues the jobs table.
LEMMA ClaimStep == ASSUME IInv, Claim PROVE StepOk
<1> DEFINE h == Head(queue)
           job == [jobs[h] EXCEPT !.status = "running", !.attempts = @ + 1]
<1>1. /\ TableOk(jobs) /\ OrderOk(jobs, queue) /\ queue # <<>>
      /\ worker.pc = "idle" /\ RunningIn(jobs) = {}
  BY DEF Claim, At, IInv, OneRunning, Running, RunningIn, Ids
<1>2. /\ h \in Ids /\ jobs[h].status = "queued"
      /\ OrderOk(jobs, Tail(queue)) /\ NotDue(Tail(queue), h)
  BY <1>1, OrderTail DEF Ids
<1>3. jobs[h] \in Job /\ h \in Nat /\ h # 0
  BY <1>1, <1>2, ElementOfSeq, LenProperties DEF TableOk, Ids
<1> HIDE DEF h
<1>4. job \in Job /\ RowOk(job) /\ job.kind = jobs[h].kind /\ job.status = "running"
  <2>1. RowOk(jobs[h])
    BY <1>1, <1>2 DEF TableOk, Ids
  <2>2. QED
    BY <1>3, <2>1, ClaimedOk
<1>5. /\ jobs' = [jobs EXCEPT ![h] = job]
      /\ queue' = Tail(queue)
      /\ worker' = [Unemployed("claimed") EXCEPT !.job = h]
      /\ UNCHANGED <<rec, speech, art, disk>>
  BY DEF Claim, h
<1> HIDE DEF job
<1>6. /\ TableOk(jobs')
      /\ Continues(jobs, jobs')
      /\ DOMAIN jobs' = Ids
      /\ \A i \in Ids : jobs'[i] = IF i = h THEN job ELSE jobs[i]
  BY <1>1, <1>2, <1>4, <1>5, Replaced DEF IsActive, Ids
<1>7. OrderOk(jobs', queue')
  <2>1. \A i \in DOMAIN Tail(queue) : jobs'[Tail(queue)[i]].status = "queued"
    BY <1>2, <1>6 DEF OrderOk, NotDue, Ids
  <2>2. QED
    BY <1>2, <1>5, <1>6, <2>1 DEF OrderOk, Ids
<1>8. Hand'
  BY <1>2, <1>3, <1>5, <1>6 DEF Hand, Worker, PC, Unemployed, Fits, Places, Holds, Saw,
                               Documents, Ids
<1>9. OneRunning'
  <2>1. RunningIn(jobs') = {h}
    BY <1>1, <1>2, <1>4, <1>6 DEF RunningIn, Ids
  <2>2. worker'.job = h /\ worker'.pc = "claimed"
    BY <1>5 DEF Unemployed
  <2>3. QED
    BY <2>1, <2>2 DEF OneRunning, Running, RunningIn, Ids
<1>10. QED
  BY <1>5, <1>6, <1>7, <1>8, <1>9 DEF StepOk, IInv, Row, Files

\* A job that is taken from the running worker.
LEMMA NoneRunning ==
    ASSUME IInv, NEW j \in Ids, RunningIn(jobs) = {j}, DOMAIN jobs' = Ids, NEW job,
           \A i \in Ids : jobs'[i] = IF i = j THEN job ELSE jobs[i],
           job.status # "running", worker'.job = 0
    PROVE  OneRunning'
<1>1. RunningIn(jobs') = {}
  BY DEF RunningIn, Ids
<1>2. QED
  BY <1>1 DEF OneRunning, Running, RunningIn, Ids

\* release_job keeps the invariant and continues the jobs table.
LEMMA ReleaseStep == ASSUME IInv, Release PROVE StepOk
<1> DEFINE job == [Mine EXCEPT !.status = "queued"]
<1>1. /\ worker.pc = "claimed" /\ TableOk(jobs) /\ OrderOk(jobs, queue)
      /\ jobs' = [jobs EXCEPT ![worker.job] = job]
      /\ queue' = Append(queue, worker.job)
      /\ worker' = Unemployed("down")
      /\ UNCHANGED <<rec, speech, art, disk>>
  BY DEF Release, At, Mine, IInv
<1>2. /\ worker.job \in Ids /\ worker.job \in Nat /\ Mine.status = "running"
      /\ RunningIn(jobs) = {worker.job}
      /\ NotDue(queue, worker.job) /\ Mine \in Job /\ RowOk(Mine)
  BY <1>1, MineRunning
<1>3. job \in Job /\ RowOk(job) /\ job.kind = Mine.kind /\ job.status = "queued"
  BY <1>2 DEF Job, JobStatus, RowOk
<1> HIDE DEF job
<1>4. /\ TableOk(jobs') /\ OrderOk(jobs', queue) /\ Continues(jobs, jobs')
      /\ DOMAIN jobs' = Ids
      /\ \A i \in Ids : jobs'[i] = IF i = worker.job THEN job ELSE jobs[i]
  BY <1>1, <1>2, <1>3, RowStep DEF Mine, IsActive
<1>5. OrderOk(jobs', queue')
  BY <1>1, <1>2, <1>3, <1>4, OrderAppends
<1>6. Hand'
  BY <1>1, UnemployedKeeps
<1>7. OneRunning'
  BY <1>1, <1>2, <1>3, <1>4, NoneRunning DEF Unemployed
<1>8. QED
  BY <1>1, <1>4, <1>5, <1>6, <1>7 DEF StepOk, IInv, Row, Files

\* Finishing the worker's job, or leaving it to wait for its next attempt.
LEMMA FinishStep ==
    ASSUME IInv, worker.pc \notin {"down", "recovering", "idle"},
           NEW job \in Job, RowOk(job), job.kind = Mine.kind, job.status # "running",
           jobs' = [jobs EXCEPT ![worker.job] = job],
           worker' = Unemployed("idle"), Row', UNCHANGED <<speech, queue, art, disk>>
    PROVE  StepOk
<1>1. /\ worker.job \in Ids /\ worker.job \in Nat /\ Mine.status = "running"
      /\ RunningIn(jobs) = {worker.job} /\ NotDue(queue, worker.job)
      /\ TableOk(jobs) /\ OrderOk(jobs, queue)
  BY MineRunning DEF IInv
<1>2. /\ TableOk(jobs') /\ OrderOk(jobs', queue) /\ Continues(jobs, jobs')
      /\ DOMAIN jobs' = Ids
      /\ \A i \in Ids : jobs'[i] = IF i = worker.job THEN job ELSE jobs[i]
  BY <1>1, RowStep DEF Mine, IsActive
<1>3. Hand'
  BY UnemployedKeeps
<1>4. OneRunning'
  BY <1>1, <1>2, NoneRunning DEF Unemployed
<1>5. QED
  BY <1>2, <1>3, <1>4 DEF StepOk, IInv, Files

\* complete_job keeps the invariant and continues the jobs table.
LEMMA CompleteJobStep == ASSUME IInv, CompleteJob PROVE StepOk
<1>1. worker.pc = "done"
  BY DEF CompleteJob, At
<1>2. Mine \in Job /\ RowOk(Mine)
  BY <1>1, MineRunning
<1>3. /\ Closed(Mine, "succeeded") \in Job /\ RowOk(Closed(Mine, "succeeded"))
      /\ Closed(Mine, "succeeded").kind = Mine.kind
      /\ Closed(Mine, "succeeded").status = "succeeded"
  BY <1>2, ClosedOk DEF JobStatus
<1>4. jobs' = [jobs EXCEPT ![worker.job] = Closed(Mine, "succeeded")]
  BY DEF CompleteJob, Finish, Mine
<1>5. Row'
  BY RowUnchanged DEF CompleteJob, IInv
<1>6. QED
  BY <1>1, <1>3, <1>4, <1>5, FinishStep DEF CompleteJob

\* fail_job keeps the invariant and continues the jobs table.
LEMMA FailJobStep == ASSUME IInv, FailJob PROVE StepOk
<1>1. worker.pc = "failing" /\ Row
  BY DEF FailJob, At, IInv
<1>2. Mine \in Job /\ RowOk(Mine)
  BY <1>1, MineRunning
<1>3. CASE Retries
  <2> DEFINE job == [Mine EXCEPT !.status = "queued"]
  <2>1. job \in Job /\ RowOk(job) /\ job.kind = Mine.kind /\ job.status = "queued"
    BY <1>2 DEF Job, JobStatus, RowOk
  <2>2. jobs' = [jobs EXCEPT ![worker.job] = job]
    BY <1>3 DEF FailJob, Mine
  <2> HIDE DEF job
  <2>3. Row'
    BY <1>1, <1>3, RowUnchanged DEF FailJob
  <2>4. QED
    BY <1>1, <2>1, <2>2, <2>3, FinishStep DEF FailJob
<1>4. CASE ~Retries
  <2>1. /\ Closed(Mine, "failed") \in Job /\ RowOk(Closed(Mine, "failed"))
        /\ Closed(Mine, "failed").kind = Mine.kind
        /\ Closed(Mine, "failed").status = "failed"
    BY <1>2, ClosedOk DEF JobStatus
  <2>2. jobs' = [jobs EXCEPT ![worker.job] = Closed(Mine, "failed")]
    BY <1>4 DEF FailJob, Finish, Mine
  <2>3. Row'
    BY <1>1, <1>4, RowUnchanged, TransitionKeeps DEF FailJob, Status
  <2>4. QED
    BY <1>1, <2>1, <2>2, <2>3, FinishStep DEF FailJob
<1>5. QED
  BY <1>3, <1>4

\* The end of a backoff keeps the invariant and continues the jobs table.
LEMMA BackoffExpiresStep == ASSUME IInv, BackoffExpires PROVE StepOk
<1>1. PICK j \in Ids : Waiting(j) /\ queue' = Append(queue, j)
  BY DEF BackoffExpires
<1>2. TableOk(jobs) /\ OrderOk(jobs, queue) /\ UNCHANGED <<rec, speech, jobs, art, disk, worker>>
  BY DEF BackoffExpires, IInv
<1>3. j \in Nat /\ j \in DOMAIN jobs /\ jobs[j].status = "queued" /\ NotDue(queue, j)
  BY <1>1, <1>2, LenProperties DEF TableOk, Ids, Waiting, NotDue
<1>4. OrderOk(jobs', queue')
  BY <1>1, <1>2, <1>3, OrderAppends
<1>5. Continues(jobs, jobs')
  BY <1>2 DEF Continues
<1>6. QED
  BY <1>2, <1>4, <1>5 DEF StepOk, IInv, Row, Files, Hand, OneRunning, Running, Ids, Active,
                          Fits, Places, Holds, Saw, Mine

-----------------------------------------------------------------------------
(* Starting the worker *)

\* The interrupted job gets a new status and leaves no job running.
LEMMA RecoveredKeeps ==
    ASSUME IInv, NEW j \in Stale, NEW status \in JobStatus, status # "running",
           worker.job = 0
    PROVE  LET t == Recovered(j, status)
           IN  /\ TableOk(t) /\ OrderOk(t, queue) /\ Continues(jobs, t)
               /\ Len(t) = Len(jobs) /\ RunningIn(t) = {}
               /\ NotDue(queue, j) /\ j \in Nat /\ j \in DOMAIN t
               /\ t[j].status = status
<1> DEFINE job == [Closed(jobs[j], status) EXCEPT !.revived = TRUE]
           t == Recovered(j, status)
<1>1. /\ TableOk(jobs) /\ OrderOk(jobs, queue) /\ j \in DOMAIN jobs
      /\ jobs[j].status = "running" /\ j \in Nat /\ jobs[j] \in Job /\ RowOk(jobs[j])
  BY ElementOfSeq, LenProperties DEF IInv, Stale, Ids, TableOk
<1>2. Closed(jobs[j], status) \in Job /\ RowOk(Closed(jobs[j], status))
      /\ Closed(jobs[j], status).kind = jobs[j].kind
      /\ Closed(jobs[j], status).status = status
  BY <1>1, ClosedOk
<1>3. job \in Job /\ RowOk(job) /\ job.kind = jobs[j].kind /\ job.status = status
  BY <1>2 DEF Job, RowOk
<1>4. t = [jobs EXCEPT ![j] = job]
  BY DEF Recovered
<1> HIDE DEF job, t
<1>5. IsActive(jobs[j].status)
  BY <1>1 DEF IsActive
<1>6. TableOk(t) /\ Continues(jobs, t)
  BY <1>1, <1>3, <1>4, <1>5, Replaced
<1>7. Len(t) = Len(jobs)
  BY <1>1, <1>3, <1>4, <1>5, Replaced
<1>8. DOMAIN t = DOMAIN jobs /\ \A i \in DOMAIN jobs : t[i] = IF i = j THEN job ELSE jobs[i]
  BY <1>4
<1>9. NotDue(queue, j)
  BY <1>1 DEF NotDue, OrderOk
<1>10. OrderOk(t, queue)
  <2>1. \A i \in DOMAIN queue : t[queue[i]].status = "queued"
    BY <1>1, <1>8, <1>9 DEF OrderOk, NotDue
  <2>2. QED
    BY <1>1, <1>8, <2>1, OrderCarries
<1>11. RunningIn(t) = {}
  <2>1. \A i \in DOMAIN jobs : jobs[i].status = "running" => i = j
    BY <1>1 DEF IInv, OneRunning, Running, Ids
  <2>2. QED
    BY <1>3, <1>8, <2>1 DEF RunningIn
<1>12. QED
  BY <1>1, <1>3, <1>6, <1>7, <1>8, <1>9, <1>10, <1>11 DEF t

\* Each of recovery's three outcomes keeps the row, jobs and order, and
\* leaves no job running.
LEMMA RecoverJobs ==
    ASSUME IInv, worker.job = 0, NEW j \in Stale, NEW sourceOk \in BOOLEAN,
           \/ RecoverComplete(j, Inspect(j, sourceOk))
           \/ RecoverRequeue(j, Inspect(j, sourceOk))
           \/ RecoverFail(j, Inspect(j, sourceOk))
    PROVE  /\ Row' /\ TableOk(jobs') /\ OrderOk(jobs', queue') /\ Continues(jobs, jobs')
           /\ RunningIn(jobs') = {}
<1> DEFINE plan == Inspect(j, sourceOk)
<1>1. Row /\ j \in Ids /\ PlanOk(plan, jobs[j].kind)
  BY InspectOk DEF IInv, Stale
<1> HIDE DEF plan
<1>2. CASE RecoverComplete(j, plan)
  <2> DEFINE t == Recovered(j, "succeeded")
  <2>1. /\ TableOk(t) /\ OrderOk(t, queue) /\ Continues(jobs, t) /\ Len(t) = Len(jobs)
        /\ RunningIn(t) = {}
    BY RecoveredKeeps DEF JobStatus
  <2>2. ApplyCompletion(plan, t)
    BY <1>2 DEF RecoverComplete
  <2> HIDE DEF t
  <2>3. QED
    BY <1>1, <2>1, <2>2, ApplyCompletionKeeps
<1>3. CASE RecoverRequeue(j, plan)
  <2> DEFINE t == Recovered(j, "queued")
  <2>1. /\ TableOk(t) /\ OrderOk(t, queue) /\ Continues(jobs, t) /\ RunningIn(t) = {}
        /\ NotDue(queue, j) /\ j \in Nat /\ j \in DOMAIN t /\ t[j].status = "queued"
    BY RecoveredKeeps DEF JobStatus
  <2>2. jobs' = t /\ queue' = <<j>> \o queue /\ UNCHANGED rec
    BY <1>3 DEF RecoverRequeue
  <2> HIDE DEF t
  <2>3. OrderOk(t, queue')
    BY <2>1, <2>2, OrderPrepends
  <2>4. QED
    BY <1>1, <2>1, <2>2, <2>3, RowUnchanged
<1>4. CASE RecoverFail(j, plan)
  <2> DEFINE t == Recovered(j, "failed")
  <2>1. TableOk(t) /\ OrderOk(t, queue) /\ Continues(jobs, t) /\ RunningIn(t) = {}
    BY RecoveredKeeps DEF JobStatus
  <2>2. jobs' = t /\ queue' = queue
    BY <1>4 DEF RecoverFail
  <2>3. Row'
    BY <1>1, <1>4, RowUnchanged, TransitionKeeps DEF RecoverFail, Status
  <2> HIDE DEF t
  <2>4. QED
    BY <2>1, <2>2, <2>3
<1>5. QED
  BY <1>2, <1>3, <1>4 DEF plan

\* recover_stale_jobs keeps the invariant and continues the jobs table.
LEMMA RecoverStep == ASSUME IInv, Recover PROVE StepOk
<1>1. /\ worker.pc = "recovering" /\ worker.job = 0
      /\ worker' = [worker EXCEPT !.pc = "idle"]
      /\ UNCHANGED <<speech, art, disk>>
  BY DEF Recover, IInv, Hand
<1>2. Hand'
  BY <1>1 DEF IInv, Hand, Worker, PC
<1>3. /\ Row' /\ TableOk(jobs') /\ OrderOk(jobs', queue') /\ Continues(jobs, jobs')
      /\ RunningIn(jobs') = {}
  <2>1. CASE Stale = {} /\ UNCHANGED <<rec, jobs, queue>>
    BY <2>1 DEF IInv, Stale, Ids, RunningIn, Continues, Row
  <2>2. CASE \E j \in Stale, sourceOk \in SourceOutcomes :
               \/ RecoverComplete(j, Inspect(j, sourceOk))
               \/ RecoverRequeue(j, Inspect(j, sourceOk))
               \/ RecoverFail(j, Inspect(j, sourceOk))
    <3>1. SourceOutcomes \subseteq BOOLEAN
      BY DEF SourceOutcomes
    <3>2. QED
      BY <1>1, <2>2, <3>1, RecoverJobs
  <2>3. QED
    BY <2>1, <2>2 DEF Recover
<1>4. OneRunning'
  BY <1>1, <1>3 DEF IInv, Hand, Worker, OneRunning, Running, RunningIn, Ids
<1>5. QED
  BY <1>1, <1>2, <1>3, <1>4 DEF StepOk, IInv, Files

\* A recovery that is rolled back keeps the invariant and continues the jobs
\* table.
LEMMA RecoverAbortsStep == ASSUME IInv, RecoverAborts PROVE StepOk
<1>1. /\ worker.pc = "recovering" /\ worker.job = 0
      /\ worker' = [worker EXCEPT !.pc = "down"]
      /\ UNCHANGED <<rec, speech, jobs, queue, art, disk>>
  BY DEF RecoverAborts, IInv, Hand
<1>2. Hand' /\ worker'.job = 0 /\ worker'.pc = "down"
  BY <1>1 DEF IInv, Hand, Worker, PC
<1>3. JobsKept
  BY <1>1, UnchangedJobs DEF IInv
<1>4. OneRunning'
  BY <1>2, <1>3, SingleKeeps DEF IInv, JobsKept
<1>5. QED
  BY <1>1, <1>2, <1>3, <1>4 DEF StepOk, IInv, JobsKept, Row, Files

\* Reconciliation at the start keeps the invariant and continues the jobs
\* table.
LEMMA ReconcileStep == ASSUME IInv, Reconcile PROVE StepOk
<1>1. /\ worker.pc = "down" /\ worker.job = 0
      /\ worker' = [worker EXCEPT !.pc = "recovering"]
      /\ UNCHANGED <<rec, speech, jobs, queue>>
  BY DEF Reconcile, IInv, Hand
<1>2. Hand' /\ worker'.job = 0 /\ worker'.pc = "recovering"
  BY <1>1 DEF IInv, Hand, Worker, PC
<1>3. JobsKept
  BY <1>1, UnchangedJobs DEF IInv
<1>4. OneRunning'
  BY <1>2, <1>3, SingleKeeps DEF IInv, JobsKept
<1>5. Files'
  <2>1. Files  BY DEF IInv
  <2>2. CASE LostSummaries = {}
    BY <1>1, <2>1, <2>2 DEF Reconcile, Files
  <2>3. CASE LostSummaries # {}
    <3>1. PICK f \in LostSummaries : /\ art'  = [art  EXCEPT !.sum = SummaryRowsAfter(f)]
                                     /\ disk' = [disk EXCEPT !.sum = SummaryFilesAfter(f)]
      BY <2>3 DEF Reconcile
    <3>2. f \in Summary
      BY <2>1 DEF LostSummaries, Files
    <3>3. SummaryRowsAfter(f) \in SUBSET Summary /\ SummaryFilesAfter(f) \in SUBSET Summary
      BY <2>1, <3>2 DEF Files, SummaryRowsAfter, SummaryFilesAfter
    <3>4. QED
      BY <1>1, <2>1, <3>1, <3>3 DEF Files
  <2>4. QED
    BY <2>2, <2>3
<1>6. QED
  BY <1>1, <1>2, <1>3, <1>4, <1>5 DEF StepOk, IInv, JobsKept, Row

-----------------------------------------------------------------------------
(* A step of a handler *)

\* The worker is past its claim.
Busy == worker.pc \notin {"down", "recovering", "idle"}

\* A handler step: the worker keeps its job.
LEMMA HandlerStep ==
    ASSUME IInv, JobsKept, Row', Files', Hand',
           worker'.job = worker.job, worker'.pc # "idle"
    PROVE  StepOk
<1>1. OneRunning'
  BY SingleKeeps DEF IInv, JobsKept
<1>2. QED
  BY <1>1 DEF StepOk, IInv, JobsKept

\* .. and goes on in its handler.
LEMMA GoesOn ==
    ASSUME Hand, Busy, Continues(jobs, jobs'), worker' \in Worker,
           worker'.job = worker.job, worker'.pc \notin {"down", "recovering", "idle"},
           Fits(worker', Mine.kind)
    PROVE  Hand'
<1>1. worker.job \in Ids /\ worker.job # 0
  BY Employed DEF Busy
<1>2. worker.job \in Ids' /\ Mine'.kind = Mine.kind
  BY <1>1 DEF Continues, Ids, Mine
<1>3. QED
  BY <1>1, <1>2 DEF Hand

\* A handler step that ends the handler.
LEMMA OverStep ==
    ASSUME IInv, Busy, JobsKept, Row', Files', NEW retryable \in BOOLEAN,
           Return \/ Raise(retryable)
    PROVE  StepOk
<1>1. Hand' /\ worker'.job = worker.job /\ worker'.pc \in {"done", "marking", "failing"}
  BY OverKeeps DEF IInv, Busy, JobsKept
<1>2. QED
  BY <1>1, HandlerStep

\* A handler step that changes only the worker keeps everything else.
LEMMA Steady ==
    ASSUME IInv, UNCHANGED <<rec, speech, jobs, queue, art, disk>>
    PROVE  JobsKept /\ Row' /\ Files'
  BY UnchangedJobs, RowUnchanged, FilesUnchanged DEF IInv

-----------------------------------------------------------------------------
(* Failures *)

\* _mark_failed keeps the invariant and continues the jobs table.
LEMMA MarkFailedStep == ASSUME IInv, MarkFailed PROVE StepOk
<1>1. /\ worker.pc = "marking" /\ Busy /\ worker' = [worker EXCEPT !.pc = "failing"]
      /\ UNCHANGED <<speech, jobs, queue, art, disk>>
  BY DEF MarkFailed, At, Goto, Busy
<1>2. JobsKept /\ Row' /\ Files'
  BY <1>1, UnchangedJobs, RowUnchanged, TransitionKeeps, FilesUnchanged
     DEF MarkFailed, IInv, Status
<1>3. /\ worker' \in Worker /\ worker'.job = worker.job /\ worker'.pc = "failing"
      /\ Fits(worker', Mine.kind)
  BY <1>1, Employed DEF IInv, Hand, Worker, PC, Fits, Places, Holds, Saw, Documents, Busy
<1>4. Hand'
  BY <1>1, <1>2, <1>3, GoesOn DEF IInv, JobsKept
<1>5. QED
  BY <1>2, <1>3, <1>4, HandlerStep

\* A failing adapter keeps the invariant and continues the jobs table.
LEMMA ModelFailsStep == ASSUME IInv, ModelFails PROVE StepOk
<1>1. Busy /\ (Raise(TRUE) \/ Raise(FALSE))
  BY DEF ModelFails, At, Busy
<1>2. JobsKept /\ Row' /\ Files'
  BY Steady DEF ModelFails
<1>3. QED
  BY <1>1, <1>2, OverStep

\* A failing file replacement keeps the invariant and continues the jobs
\* table.
LEMMA WriteFailsStep == ASSUME IInv, WriteFails PROVE StepOk
<1>1. Busy /\ Raise(TRUE)
  BY DEF WriteFails, At, Busy
<1>2. JobsKept /\ Row' /\ Files'
  BY Steady DEF WriteFails
<1>3. QED
  BY <1>1, <1>2, OverStep

\* A failing renderer keeps the invariant and continues the jobs table.
LEMMA RendererFailsStep == ASSUME IInv, RendererFails PROVE StepOk
<1>1. Busy /\ Raise(FALSE)
  BY DEF RendererFails, At, Busy
<1>2. JobsKept /\ Row' /\ Files'
  BY Steady DEF RendererFails
<1>3. QED
  BY <1>1, <1>2, OverStep

\* A process that ends leaves everything but the worker as it is.
LEMMA LeaveStep ==
    ASSUME IInv, worker' = Unemployed("down"),
           UNCHANGED <<rec, speech, jobs, queue, art, disk>>
    PROVE  StepOk
<1>1. JobsKept /\ Row' /\ Files'
  BY Steady
<1>2. Hand' /\ worker'.job = 0 /\ worker'.pc = "down"
  BY UnemployedKeeps DEF Unemployed
<1>3. OneRunning'
  BY <1>1, <1>2, SingleKeeps DEF IInv, JobsKept
<1>4. QED
  BY <1>1, <1>2, <1>3 DEF StepOk, IInv, JobsKept

\* A crash keeps the invariant and continues the jobs table.
LEMMA CrashStep == ASSUME IInv, Crash PROVE StepOk
  BY LeaveStep DEF Crash

\* A stop between jobs keeps the invariant and continues the jobs table.
LEMMA ShutdownStep == ASSUME IInv, Shutdown PROVE StepOk
  BY LeaveStep DEF Shutdown

-----------------------------------------------------------------------------
(* The first part of a handler *)

\* The first step of a handler.
LEMMA StartingIsBusy ==
    ASSUME IInv, Starting
    PROVE  Busy /\ worker.pc \in {"start", "claimed"}
  BY DEF Starting, At, Busy

\* It read the recordings row.
LEMMA ProceedKeeps ==
    ASSUME IInv, Starting, JobsKept, NEW pc \in PC, NEW doc \in Transcript \cup {None},
           Proceed(pc, doc),
           \/ pc = "model" /\ (Mine.kind = "classify" => doc \in Transcript)
                           /\ (Mine.kind = "summarize" => rec.category \in Category)
           \/ /\ pc = "jsonFile" /\ Mine.kind = "render"
              /\ doc \in Transcript /\ rec.category \in Category
    PROVE  Hand' /\ worker'.job = worker.job /\ worker'.pc # "idle"
<1>1. /\ worker.pc \in {"start", "claimed"} /\ Busy /\ worker \in Worker
      /\ rec \in RecordingRow
      /\ Fits(worker, Mine.kind)
  BY Employed DEF Starting, At, Busy, IInv, Hand, Row
<1>2. /\ worker' = [worker EXCEPT !.pc = pc, !.seen = rec, !.doc = doc]
      /\ pc \in {"model", "jsonFile"}
  BY DEF Proceed
<1>3. worker' \in Worker /\ worker'.job = worker.job /\ worker'.pc = pc
  BY <1>1, <1>2 DEF Worker
<1>4. Fits(worker', Mine.kind)
  BY <1>1, <1>2 DEF Fits, Places, Holds, Saw, Documents, Worker
<1>5. Hand'
  BY <1>1, <1>2, <1>3, <1>4, GoesOn DEF IInv, JobsKept
<1>6. QED
  BY <1>2, <1>3, <1>5

\* The start of a transcription keeps the invariant and continues the jobs
\* table.
LEMMA StartTranscribeStep == ASSUME IInv, StartTranscribe PROVE StepOk
<1>1. /\ Starting /\ Busy /\ Mine.kind = "transcribe"
      /\ UNCHANGED <<speech, jobs, queue, art, disk>>
  BY StartingIsBusy DEF StartTranscribe, Doing
<1>2. JobsKept /\ Files'
  BY <1>1, UnchangedJobs, FilesUnchanged DEF IInv
<1>3. Row'
  BY RowUnchanged, TransitionKeeps DEF StartTranscribe, IInv, Status
<1>4. CASE Proceed("model", None)
  <2>1. Hand' /\ worker'.job = worker.job /\ worker'.pc # "idle"
    BY <1>1, <1>2, <1>4, ProceedKeeps DEF PC
  <2>2. QED
    BY <1>2, <1>3, <2>1, HandlerStep
<1>5. CASE Raise(FALSE)
  BY <1>1, <1>2, <1>3, <1>5, OverStep
<1>6. QED
  BY <1>4, <1>5 DEF StartTranscribe

\* A transcript that _load_transcript accepts is one.
LEMMA FileAtLoads ==
    ASSUME Files, NEW r \in Revision, Loads(r)
    PROVE  FileAt(r) \in Transcript
<1>1. art.json[r] \in JsonRow
  BY DEF Loads, HasJson, Files
<1>2. QED
  BY <1>1 DEF Loads, FileAt, Files, JsonRow

\* The start of a classification keeps the invariant and continues the jobs
\* table.
LEMMA StartClassifyStep == ASSUME IInv, StartClassify PROVE StepOk
<1> DEFINE r == ClassifyRevision
<1>1. /\ Starting /\ Busy /\ Mine.kind = "classify" /\ Files
      /\ UNCHANGED <<speech, jobs, queue, art, disk>>
  BY StartingIsBusy DEF StartClassify, Doing, IInv
<1>2. r \in Revision
  BY DEF ClassifyRevision, IInv, Row, RecordingRow
<1>3. JobsKept /\ Files'
  BY <1>1, UnchangedJobs, FilesUnchanged DEF IInv
<1>4. Row'
  BY RowUnchanged, TransitionKeeps DEF StartClassify, IInv, Status
<1>5. CASE Loads(r) /\ Proceed("model", FileAt(r))
  <2>1. FileAt(r) \in Transcript
    BY <1>1, <1>2, <1>5, FileAtLoads
  <2>2. Hand' /\ worker'.job = worker.job /\ worker'.pc # "idle"
    BY <1>1, <1>3, <1>5, <2>1, ProceedKeeps DEF PC
  <2>3. QED
    BY <1>3, <1>4, <2>2, HandlerStep
<1>6. CASE Raise(FileGone(r))
  <2>1. FileGone(r) \in BOOLEAN
    BY Zenon DEF FileGone
  <2>2. QED
    BY <1>1, <1>3, <1>4, <1>6, <2>1, OverStep
<1>7. CASE Raise(FALSE)
  BY <1>1, <1>3, <1>4, <1>7, OverStep
<1>8. QED
  BY <1>5, <1>6, <1>7 DEF StartClassify

\* The start of finalize_speakers keeps the invariant and continues the jobs
\* table.
LEMMA StartFinalizeStep == ASSUME IInv, StartFinalize PROVE StepOk
<1>1. Starting /\ Busy /\ Mine.kind = "finalize_speakers"
  BY StartingIsBusy DEF StartFinalize, Doing
<1>2. JobsKept /\ Row' /\ Files'
  BY Steady DEF StartFinalize
<1>3. CASE Return
  BY <1>1, <1>2, <1>3, OverStep
<1>4. CASE Proceed("model", None)
  <2>1. Hand' /\ worker'.job = worker.job /\ worker'.pc # "idle"
    BY <1>1, <1>2, <1>4, ProceedKeeps DEF PC
  <2>2. QED
    BY <1>2, <2>1, HandlerStep
<1>5. QED
  BY <1>3, <1>4 DEF StartFinalize

\* The start of a summary keeps the invariant and continues the jobs table.
LEMMA StartSummarizeStep == ASSUME IInv, StartSummarize PROVE StepOk
<1>1. Starting /\ Busy /\ Mine.kind = "summarize"
  BY StartingIsBusy DEF StartSummarize, Doing
<1>2. JobsKept /\ Row' /\ Files'
  BY Steady DEF StartSummarize
<1>3. CASE Return
  BY <1>1, <1>2, <1>3, OverStep
<1>4. CASE ~SummarizeOutdated /\ Proceed("model", None)
  <2>1. rec.category \in Category
    BY <1>1, <1>4, MineRunning DEF SummarizeOutdated, Busy, RowOk
  <2>2. Hand' /\ worker'.job = worker.job /\ worker'.pc # "idle"
    BY <1>1, <1>2, <1>4, <2>1, ProceedKeeps DEF PC
  <2>3. QED
    BY <1>2, <2>2, HandlerStep
<1>5. CASE Raise(FileGone(rec.revision))
  <2>1. FileGone(rec.revision) \in BOOLEAN
    BY Zenon DEF FileGone
  <2>2. QED
    BY <1>1, <1>2, <1>5, <2>1, OverStep
<1>6. QED
  BY <1>3, <1>4, <1>5 DEF StartSummarize

\* The start of a render keeps the invariant and continues the jobs table.
LEMMA StartRenderStep == ASSUME IInv, StartRender PROVE StepOk
<1> DEFINE earlier == RevisionsWithJson(rec.revision)
           old == FileAt(Newest(earlier))
<1>1. Starting /\ Busy /\ Mine.kind = "render" /\ Row /\ Files
  BY StartingIsBusy DEF StartRender, Doing, IInv
<1>2. JobsKept /\ Row' /\ Files'
  BY Steady DEF StartRender
<1>3. CASE /\ earlier # {} /\ old # None /\ rec.category # None
           /\ Proceed("jsonFile", Rerendered(old))
  <2>1. rec.category \in Category /\ rec \in RecordingRow /\ speech.text \in Nat
    BY <1>1, <1>3 DEF Row, RecordingRow, Files, SpeechRow
  <2>2. old \in Transcript
    <3>1. Newest(earlier) \in earlier
      BY <1>3, NewestExists DEF earlier, RevisionsWithJson
    <3>2. art.json[Newest(earlier)] \in JsonRow
      BY <1>1, <3>1 DEF RevisionsWithJson, Files
    <3>3. QED
      BY <1>1, <1>3, <3>2 DEF FileAt, Files, JsonRow
  <2> HIDE DEF old
  <2>3. Rerendered(old) \in Transcript
    BY <2>1, <2>2 DEF Rerendered, Transcript, RecordingRow
  <2>4. Hand' /\ worker'.job = worker.job /\ worker'.pc # "idle"
    BY <1>1, <1>2, <1>3, <2>1, <2>3, ProceedKeeps DEF PC
  <2>5. QED
    BY <1>2, <2>4, HandlerStep
<1>4. CASE Raise(FALSE)
  BY <1>1, <1>2, <1>4, OverStep
<1>5. CASE Raise(TRUE)
  BY <1>1, <1>2, <1>5, OverStep
<1>6. QED
  BY <1>3, <1>4, <1>5 DEF StartRender

-----------------------------------------------------------------------------
(* The models and the documents *)

\* A step within a handler that changes nothing of the jobs.
LEMMA WithinStep ==
    ASSUME IInv, Busy, UNCHANGED <<jobs, queue>>, Row', Files', worker' \in Worker,
           worker'.job = worker.job, worker'.pc \notin {"down", "recovering", "idle"},
           Fits(worker', Mine.kind)
    PROVE  StepOk
<1>1. JobsKept
  BY UnchangedJobs DEF IInv
<1>2. Hand'
  BY <1>1, GoesOn DEF IInv, JobsKept
<1>3. QED
  BY <1>1, <1>2, HandlerStep

\* What the worker of a handler step is known to be.
LEMMA BusyWorker ==
    ASSUME IInv, Busy
    PROVE  worker \in Worker /\ Fits(worker, Mine.kind)
  BY Employed DEF IInv, Hand, Busy

\* The transcript of a new transcription is typed.
LEMMA FreshTranscriptOk ==
    ASSUME NEW revision \in Revision
    PROVE  FreshTranscript(revision) \in Transcript
  BY DEF FreshTranscript, Transcript, Revision, Source

\* A transcription that arrives keeps the invariant and continues the jobs
\* table.
LEMMA TranscribedStep == ASSUME IInv, Transcribed PROVE StepOk
<1>1. /\ worker.pc = "model" /\ Busy /\ Mine.kind = "transcribe"
      /\ UNCHANGED <<rec, jobs, queue, art, disk>>
  BY DEF Transcribed, At, Busy, Doing
<1>2. /\ worker \in Worker /\ Fits(worker, Mine.kind) /\ Row /\ Files
      /\ Mine \in Job /\ RowOk(Mine)
  BY <1>1, BusyWorker, MineRunning DEF IInv, Busy
<1>3. CASE Retranscription(worker.job)
  <2>1. /\ worker' = [worker EXCEPT !.pc = "stage",
                                    !.doc = FreshTranscript(Mine.revision + 1)]
        /\ UNCHANGED speech
    BY <1>3 DEF Transcribed
  <2>2. Mine.revision + 1 \in Revision
    BY <1>2, <1>3, BoundAssumption DEF Retranscription, RowOk, Mine, Job, Revision
  <2>3. FreshTranscript(Mine.revision + 1) \in Transcript
    BY <2>2, FreshTranscriptOk
  <2>4. /\ worker' \in Worker /\ worker'.job = worker.job /\ worker'.pc = "stage"
        /\ Fits(worker', Mine.kind)
    BY <1>1, <1>2, <2>1, <2>3 DEF Worker, PC, Fits, Places, Holds, Saw, Documents
  <2>5. QED
    BY <1>1, <1>2, <2>1, <2>4, WithinStep, RowUnchanged, FilesUnchanged
<1>4. CASE ~Retranscription(worker.job)
  <2> DEFINE r == worker.seen.revision
  <2>1. /\ worker' = [worker EXCEPT !.pc = "jsonFile", !.doc = FreshTranscript(r)]
        /\ speech' = [speech EXCEPT !.text = r, !.pending = @ \/ speech.text = 0]
    BY <1>4 DEF Transcribed
  <2>2. r \in Revision /\ r \in Nat
    BY <1>1, <1>2 DEF Fits, Saw, RecordingRow, Revision
  <2>3. FreshTranscript(r) \in Transcript
    BY <2>2, FreshTranscriptOk
  <2>4. speech' \in SpeechRow
    <3>1. (speech.pending \/ speech.text = 0) \in BOOLEAN
      BY Zenon
    <3>2. QED
      BY <1>2, <2>1, <2>2, <3>1 DEF Files, SpeechRow
  <2>5. /\ worker' \in Worker /\ worker'.job = worker.job /\ worker'.pc = "jsonFile"
        /\ Fits(worker', Mine.kind)
    BY <1>1, <1>2, <2>1, <2>3 DEF Worker, PC, Fits, Places, Holds, Saw, Documents
  <2>6. QED
    BY <1>1, <1>2, <2>4, <2>5, WithinStep, RowUnchanged DEF Files
<1>5. QED
  BY <1>3, <1>4

\* A classification that arrives keeps the invariant and continues the jobs
\* table.
LEMMA ClassifiedStep == ASSUME IInv, Classified PROVE StepOk
<1>1. /\ worker.pc = "model" /\ Busy /\ Mine.kind = "classify"
      /\ UNCHANGED <<speech, jobs, queue, art, disk>>
      /\ worker' = [worker EXCEPT !.pc = "jsonFile",
                        !.doc = [@ EXCEPT !.category = rec'.category,
                                          !.source = rec'.source, !.graded = TRUE]]
  BY DEF Classified, At, Busy, Doing
<1>2. /\ worker \in Worker /\ Fits(worker, Mine.kind) /\ Row /\ Files
      /\ worker.doc \in Transcript
  BY <1>1, BusyWorker DEF IInv, Fits, Holds
<1>3. Row' /\ rec'.category \in Category /\ rec'.source \in Source
  <2>1. PICK c \in Category : rec' = IF KeepsCategory THEN rec
                                     ELSE [rec EXCEPT !.category = c, !.source = "auto"]
    BY DEF Classified
  <2>2. QED
    BY <1>2, <2>1 DEF KeepsCategory, Row, RecordingRow, Source
<1>4. [worker.doc EXCEPT !.category = rec'.category, !.source = rec'.source,
                         !.graded = TRUE] \in Transcript
  BY <1>2, <1>3 DEF Transcript
<1>5. /\ worker' \in Worker /\ worker'.job = worker.job /\ worker'.pc = "jsonFile"
      /\ worker'.doc \in Transcript /\ worker'.doc.category \in Category
  BY <1>1, <1>2, <1>3, <1>4 DEF Worker, PC, Transcript
<1>6. Fits(worker', Mine.kind)
  BY <1>1, <1>2, <1>5 DEF Worker, Fits, Places, Holds, Saw, Documents
<1>7. QED
  BY <1>1, <1>2, <1>3, <1>5, <1>6, WithinStep, FilesUnchanged

\* A summary that arrives keeps the invariant and continues the jobs table.
LEMMA SummarizedStep == ASSUME IInv, Summarized PROVE StepOk
<1>1. /\ worker.pc = "model" /\ Busy /\ Mine.kind = "summarize"
      /\ worker' = [worker EXCEPT !.pc = "sumFile"]
      /\ UNCHANGED <<rec, speech, jobs, queue, art, disk>>
  BY DEF Summarized, At, Busy, Doing, Goto
<1>2. worker \in Worker /\ Fits(worker, Mine.kind) /\ Row' /\ Files'
  BY <1>1, BusyWorker, Steady
<1>3. /\ worker' \in Worker /\ worker'.job = worker.job /\ worker'.pc = "sumFile"
      /\ Fits(worker', Mine.kind)
  BY <1>1, <1>2 DEF Worker, PC, Fits, Places, Holds, Saw, Documents
<1>4. QED
  BY <1>1, <1>2, <1>3, WithinStep

\* The embeddings that arrive keeps the invariant and continues the jobs
\* table.
LEMMA EmbeddedStep == ASSUME IInv, Embedded PROVE StepOk
<1>1. /\ worker.pc = "model" /\ Busy /\ Mine.kind = "finalize_speakers"
      /\ worker' = [worker EXCEPT !.pc = "match"]
      /\ UNCHANGED <<rec, speech, jobs, queue, art, disk>>
  BY DEF Embedded, At, Busy, Doing, Goto
<1>2. worker \in Worker /\ Fits(worker, Mine.kind) /\ Row' /\ Files'
  BY <1>1, BusyWorker, Steady
<1>3. /\ worker' \in Worker /\ worker'.job = worker.job /\ worker'.pc = "match"
      /\ Fits(worker', Mine.kind)
  BY <1>1, <1>2 DEF Worker, PC, Fits, Places, Holds, Saw, Documents
<1>4. QED
  BY <1>1, <1>2, <1>3, WithinStep

\* The document a handler writes is typed.
LEMMA WrittenDocument ==
    ASSUME IInv, worker.pc \in {"jsonFile", "jsonRow", "mdFile", "mdRow", "clips",
                                "clipRows", "stage", "commit", "settle"}
    PROVE  /\ Busy /\ worker \in Worker /\ Fits(worker, Mine.kind)
           /\ worker.doc \in Transcript /\ worker.doc.revision \in Revision
           /\ JsonPath \in Path /\ worker.doc.revision \in Path
           /\ Row /\ Files
<1>1. Busy
  BY DEF Busy
<1>2. /\ worker \in Worker /\ Fits(worker, Mine.kind) /\ worker.doc \in Transcript
      /\ worker.doc.revision \in Revision
  BY <1>1, BusyWorker DEF Fits, Holds, Transcript
<1>3. Revision \subseteq Path /\ 0 \in Path
  BY BoundAssumption DEF Revision, Path
<1>4. QED
  BY <1>1, <1>2, <1>3 DEF JsonPath, IInv

\* transcript.json replaced: the files stay typed.
LEMMA JsonFileTyped ==
    ASSUME IInv, worker.pc = "jsonFile", disk' = JsonWritten,
           UNCHANGED <<rec, speech, jobs, queue, art>>
    PROVE  Files'
<1>1. worker.doc \in Transcript /\ JsonPath \in Path /\ Files
  BY WrittenDocument
<1>2. QED
  BY <1>1 DEF Files, JsonWritten

\* The Markdown document replaced: the files stay typed.
LEMMA MarkdownFileTyped ==
    ASSUME IInv, worker.pc = "mdFile", disk' = MarkdownWritten,
           UNCHANGED <<rec, speech, jobs, queue, art>>
    PROVE  Files'
<1>1. Rendered(worker.doc) \in Markdown /\ Files
  BY WrittenDocument, RenderedOk
<1>2. QED
  BY <1>1 DEF Files, MarkdownWritten

\* Replacing transcript.json keeps the invariant and continues the jobs
\* table.
LEMMA WriteJsonStep == ASSUME IInv, WriteJson PROVE StepOk
<1>1. /\ worker.pc = "jsonFile" /\ worker' = [worker EXCEPT !.pc = "jsonRow"]
      /\ disk' = JsonWritten
      /\ UNCHANGED <<rec, speech, jobs, queue, art>>
  BY DEF WriteJson, At, Goto
<1>2. /\ Busy /\ worker \in Worker /\ Fits(worker, Mine.kind)
      /\ Row
  BY <1>1, WrittenDocument
<1>3. Files'
  BY <1>1, JsonFileTyped
<1>4. /\ worker' \in Worker /\ worker'.job = worker.job /\ worker'.pc = "jsonRow"
      /\ Fits(worker', Mine.kind)
  BY <1>1, <1>2 DEF Worker, PC, Fits, Places, Holds, Saw, Documents
<1>5. QED
  BY <1>1, <1>2, <1>3, <1>4, WithinStep, RowUnchanged

\* Registering transcript.json keeps the invariant and continues the jobs
\* table.
LEMMA RegisterTranscriptStep == ASSUME IInv, RegisterTranscript PROVE StepOk
<1> DEFINE pc == IF Doing("transcribe") THEN "clips" ELSE "mdFile"
<1>1. /\ worker.pc = "jsonRow" /\ worker' = [worker EXCEPT !.pc = pc]
      /\ RegisterJson(JsonPath, worker.doc)
      /\ UNCHANGED <<rec, speech, jobs, queue, disk>>
  BY DEF RegisterTranscript, At, Goto
<1>2. /\ Busy /\ worker \in Worker /\ Fits(worker, Mine.kind)
      /\ worker.doc \in Transcript /\ JsonPath \in Path /\ Row /\ Files
  BY <1>1, WrittenDocument
<1>3. Files'
  <2>1. speech' \in SpeechRow  BY <1>1, SpeechOfRow
  <2>2. QED  BY <1>1, <1>2, <2>1, RegisterJsonKeeps
<1>4. CASE Mine.kind = "transcribe"
  <2>1. worker' = [worker EXCEPT !.pc = "clips"]
    BY <1>1, <1>4 DEF Doing
  <2>2. /\ worker' \in Worker /\ worker'.job = worker.job /\ worker'.pc = "clips"
        /\ Fits(worker', Mine.kind)
    BY <1>1, <1>2, <1>4, <2>1 DEF Worker, PC, Fits, Places, Holds, Saw, Documents
  <2>3. QED
    BY <1>1, <1>2, <1>3, <2>2, WithinStep, RowUnchanged
<1>5. CASE Mine.kind # "transcribe"
  <2>1. worker' = [worker EXCEPT !.pc = "mdFile"]
    BY <1>1, <1>5 DEF Doing
  <2>2. /\ worker' \in Worker /\ worker'.job = worker.job /\ worker'.pc = "mdFile"
        /\ Fits(worker', Mine.kind)
    BY <1>1, <1>2, <1>5, <2>1 DEF Worker, PC, Fits, Places, Holds, Saw, Documents
  <2>3. QED
    BY <1>1, <1>2, <1>3, <2>2, WithinStep, RowUnchanged
<1>6. QED
  BY <1>4, <1>5

\* Replacing the Markdown document keeps the invariant and continues the jobs
\* table.
LEMMA WriteMarkdownStep == ASSUME IInv, WriteMarkdown PROVE StepOk
<1>1. /\ worker.pc = "mdFile" /\ worker' = [worker EXCEPT !.pc = "mdRow"]
      /\ disk' = MarkdownWritten
      /\ UNCHANGED <<rec, speech, jobs, queue, art>>
  BY DEF WriteMarkdown, At, Goto
<1>2. Busy /\ worker \in Worker /\ Fits(worker, Mine.kind) /\ Row
  BY <1>1, WrittenDocument
<1>3. Files'
  BY <1>1, MarkdownFileTyped
<1>4. /\ worker' \in Worker /\ worker'.job = worker.job /\ worker'.pc = "mdRow"
      /\ Fits(worker', Mine.kind)
  BY <1>1, <1>2 DEF Worker, PC, Fits, Places, Holds, Saw, Documents
<1>5. QED
  BY <1>1, <1>2, <1>3, <1>4, WithinStep, RowUnchanged

\* Registering the Markdown document keeps the invariant and continues the
\* jobs table.
LEMMA RegisterMarkdownStep == ASSUME IInv, RegisterMarkdown PROVE StepOk
<1> DEFINE pc == IF worker.resumed THEN "settle" ELSE "follow"
<1>1. /\ worker.pc = "mdRow" /\ worker' = [worker EXCEPT !.pc = pc]
      /\ art' = [art EXCEPT !.md[worker.doc.revision] = Rendered(worker.doc)]
      /\ UNCHANGED <<rec, speech, jobs, queue, disk>>
  BY DEF RegisterMarkdown, At, Goto
<1>2. /\ Busy /\ worker \in Worker /\ Fits(worker, Mine.kind)
      /\ Rendered(worker.doc) \in Markdown /\ worker.doc.revision \in Revision
      /\ Row /\ Files
  BY <1>1, WrittenDocument, RenderedOk
<1>3. Files'
  BY <1>1, <1>2 DEF Files
<1>4. CASE worker.resumed
  <2>1. worker' = [worker EXCEPT !.pc = "settle"]
    BY <1>1, <1>4
  <2>2. /\ worker' \in Worker /\ worker'.job = worker.job /\ worker'.pc = "settle"
        /\ Fits(worker', Mine.kind)
    BY <1>1, <1>2, <1>4, <2>1 DEF Worker, PC, Fits, Places, Holds, Saw, Documents
  <2>3. QED
    BY <1>1, <1>2, <1>3, <2>2, WithinStep, RowUnchanged
<1>5. CASE ~worker.resumed
  <2>1. worker' = [worker EXCEPT !.pc = "follow"]
    BY <1>1, <1>5
  <2>2. /\ worker' \in Worker /\ worker'.job = worker.job /\ worker'.pc = "follow"
        /\ Fits(worker', Mine.kind)
    BY <1>1, <1>2, <1>5, <2>1 DEF Worker, PC, Fits, Places, Holds, Saw, Documents
  <2>3. QED
    BY <1>1, <1>2, <1>3, <2>2, WithinStep, RowUnchanged
<1>6. QED
  BY <1>4, <1>5

-----------------------------------------------------------------------------
(* Clips, retranscriptions, automatic matches *)

\* Cutting the speaker clips keeps the invariant and continues the jobs
\* table.
LEMMA CutClipsStep == ASSUME IInv, CutClips PROVE StepOk
<1>1. /\ worker.pc = "clips" /\ worker' = [worker EXCEPT !.pc = "clipRows"]
      /\ UNCHANGED <<rec, jobs, queue, art, disk>>
  BY DEF CutClips, At, Goto
<1>2. /\ Busy /\ worker \in Worker /\ Fits(worker, Mine.kind)
      /\ worker.doc.revision \in Nat /\ Row /\ Files /\ Mine.kind = "transcribe"
  BY <1>1, WrittenDocument DEF Revision, Fits, Places
<1>3. Files'
  <2>1. speech \in SpeechRow
    BY <1>2 DEF Files
  <2>2. (speech.staleClip \/ speech.clips \notin {0, worker.doc.revision}) \in BOOLEAN
    BY Zenon
  <2>3. speech' \in SpeechRow
    BY <1>2, <2>1, <2>2 DEF CutClips, SpeechRow
  <2>4. QED
    BY <1>1, <1>2, <2>3 DEF Files
<1>4. /\ worker' \in Worker /\ worker'.job = worker.job /\ worker'.pc = "clipRows"
      /\ Fits(worker', Mine.kind)
  BY <1>1, <1>2 DEF Worker, PC, Fits, Places, Holds, Saw, Documents
<1>5. QED
  BY <1>1, <1>2, <1>3, <1>4, WithinStep, RowUnchanged

\* Registering the speaker clips keeps the invariant and continues the jobs
\* table.
LEMMA RegisterClipsStep == ASSUME IInv, RegisterClips PROVE StepOk
<1>1. /\ worker.pc = "clipRows" /\ UNCHANGED <<rec, jobs, queue, art, disk>>
  BY DEF RegisterClips, At
<1>2. /\ Busy /\ worker \in Worker /\ Fits(worker, Mine.kind)
      /\ Row /\ Files /\ Mine.kind = "transcribe"
  BY <1>1, WrittenDocument DEF Fits, Places
<1>3. Files'
  <2>1. speech' \in SpeechRow
    BY <1>2 DEF RegisterClips, SpeechRow, Files
  <2>2. QED
    BY <1>1, <1>2, <2>1 DEF Files
<1>4. JobsKept /\ Row'
  BY <1>1, UnchangedJobs, RowUnchanged DEF IInv
<1>5. CASE \E pc \in {"settle", "follow"} : worker' = [worker EXCEPT !.pc = pc]
  <2>1. /\ worker' \in Worker /\ worker'.job = worker.job
        /\ worker'.pc \in {"settle", "follow"} /\ Fits(worker', Mine.kind)
    BY <1>1, <1>2, <1>5 DEF Worker, PC, Fits, Places, Holds, Saw, Documents
  <2>2. QED
    BY <1>1, <1>2, <1>3, <1>4, <2>1, WithinStep
<1>6. CASE Return
  BY <1>2, <1>3, <1>4, <1>6, OverStep
<1>7. QED
  BY <1>5, <1>6 DEF RegisterClips, Goto

\* Staging a retranscription keeps the invariant and continues the jobs
\* table.
LEMMA StageRetranscriptionStep == ASSUME IInv, StageRetranscription PROVE StepOk
<1>1. /\ worker.pc = "stage" /\ UNCHANGED <<rec, speech, jobs, queue, art>>
  BY DEF StageRetranscription, At
<1>2. /\ Busy /\ worker \in Worker /\ Fits(worker, Mine.kind)
      /\ worker.doc \in Transcript /\ worker.doc.revision \in Path /\ Row /\ Files
  BY <1>1, WrittenDocument
<1>3. JobsKept /\ Row'
  BY <1>1, UnchangedJobs, RowUnchanged DEF IInv
<1>4. CASE HistoryAvailable(Mine.revision)
  <2>1. /\ disk' = [disk EXCEPT !.json[worker.doc.revision] = worker.doc]
        /\ worker' = [worker EXCEPT !.pc = "commit"]
    BY <1>4 DEF StageRetranscription, Goto
  <2>2. Files'
    BY <1>1, <1>2, <2>1 DEF Files
  <2>3. /\ worker' \in Worker /\ worker'.job = worker.job /\ worker'.pc = "commit"
        /\ Fits(worker', Mine.kind)
    BY <1>1, <1>2, <2>1 DEF Worker, PC, Fits, Places, Holds, Saw, Documents
  <2>4. QED
    BY <1>1, <1>2, <1>3, <2>2, <2>3, WithinStep
<1>5. CASE ~HistoryAvailable(Mine.revision)
  <2>1. Raise(FALSE) /\ UNCHANGED disk
    BY <1>5 DEF StageRetranscription
  <2>2. QED
    BY <1>1, <1>2, <1>3, <2>1, FilesUnchanged, OverStep
<1>6. QED
  BY <1>4, <1>5

\* Committing a retranscription keeps the invariant and continues the jobs
\* table.
LEMMA CommitRetranscriptionStep == ASSUME IInv, CommitRetranscription PROVE StepOk
<1> DEFINE target == worker.doc.revision
           keeps  == rec.source = "manual"
<1>1. /\ worker.pc = "commit" /\ worker' = [worker EXCEPT !.pc = "clips"]
      /\ rec' = [status   |-> "TRANSCRIBING", revision |-> target,
                 category |-> IF keeps THEN rec.category ELSE None,
                 source   |-> IF keeps THEN "manual" ELSE "none"]
      /\ speech' = [speech EXCEPT !.text = target, !.pending = TRUE, !.person = FALSE]
      /\ RegisterJson(target, worker.doc)
      /\ Insert(NewJob("finalize_speakers", target, "current"))
      /\ UNCHANGED disk
  BY DEF CommitRetranscription, At, Goto
<1>2. /\ Busy /\ worker \in Worker /\ Fits(worker, Mine.kind)
      /\ worker.doc \in Transcript /\ target \in Revision /\ target \in Path
      /\ Row /\ Files
  BY <1>1, WrittenDocument
<1>3. JobsKept
  BY <1>1, <1>2, InsertNewKeeps DEF IInv, Kind, Fingerprint
<1>4. Row'
  BY <1>1, <1>2 DEF Row, RecordingRow, Status, Source
<1>5. speech' \in SpeechRow
  <2>1. target \in Nat /\ speech \in SpeechRow
    BY <1>2 DEF Revision, Files
  <2> HIDE DEF target
  <2>2. QED
    BY <1>1, <2>1 DEF SpeechRow
<1>6. Files'
  BY <1>1, <1>2, <1>5, RegisterJsonKeeps
<1>7. /\ worker' \in Worker /\ worker'.job = worker.job /\ worker'.pc = "clips"
      /\ Fits(worker', Mine.kind)
  BY <1>1, <1>2 DEF Worker, PC, Fits, Places, Holds, Saw, Documents
<1>8. Hand'
  BY <1>2, <1>3, <1>7, GoesOn DEF IInv, JobsKept
<1>9. QED
  BY <1>3, <1>4, <1>6, <1>7, <1>8, HandlerStep

\* A retranscription that came too late keeps the invariant and continues the
\* jobs table.
LEMMA AbandonRetranscriptionStep == ASSUME IInv, AbandonRetranscription PROVE StepOk
<1>1. /\ worker.pc = "commit" /\ Raise(FALSE)
      /\ disk' = [disk EXCEPT !.json[worker.doc.revision] = None]
      /\ UNCHANGED <<rec, speech, jobs, queue, art>>
  BY DEF AbandonRetranscription, At
<1>2. Busy /\ worker.doc.revision \in Path /\ Row /\ Files
  BY <1>1, WrittenDocument
<1>3. Files'
  BY <1>1, <1>2 DEF Files
<1>4. JobsKept /\ Row'
  BY <1>1, UnchangedJobs, RowUnchanged DEF IInv
<1>5. QED
  BY <1>1, <1>2, <1>3, <1>4, OverStep

\* A finalize_speakers job without a match keeps the invariant and continues
\* the jobs table.
LEMMA KeepSpeakersStep == ASSUME IInv, KeepSpeakers PROVE StepOk
<1>1. /\ worker.pc = "match" /\ Busy
      /\ UNCHANGED <<rec, speech, jobs, queue, art, disk>>
  BY DEF KeepSpeakers, At, Busy
<1>2. /\ worker \in Worker /\ Fits(worker, Mine.kind) /\ JobsKept /\ Row' /\ Files'
  BY <1>1, BusyWorker, Steady
<1>3. CASE Return
  BY <1>1, <1>2, <1>3, OverStep
<1>4. CASE worker' = [worker EXCEPT !.pc = "follow"]
  <2>1. /\ worker' \in Worker /\ worker'.job = worker.job /\ worker'.pc = "follow"
        /\ Fits(worker', Mine.kind)
    BY <1>1, <1>2, <1>4 DEF Worker, PC, Fits, Places, Holds, Saw, Documents
  <2>2. QED
    BY <1>1, <1>2, <2>1, WithinStep
<1>5. QED
  BY <1>3, <1>4 DEF KeepSpeakers, Goto

\* An automatic match keeps the invariant and continues the jobs table.
LEMMA AutoMatchStep == ASSUME IInv, AutoMatch PROVE StepOk
<1>1. /\ worker.pc = "match" /\ Busy /\ rec.revision < MaxRevision
      /\ UNCHANGED <<art, disk>>
  BY DEF AutoMatch, At, Busy
<1>2. /\ worker \in Worker /\ Fits(worker, Mine.kind) /\ Row /\ Files
      /\ Mine.kind = "finalize_speakers" /\ worker.seen \in RecordingRow
  BY <1>1, BusyWorker DEF IInv, Fits, Places, Saw
<1>3. CASE Raise(FALSE) /\ UNCHANGED <<rec, speech, jobs, queue>>
  <2>1. JobsKept /\ Row' /\ Files'
    BY <1>1, <1>3, Steady
  <2>2. QED
    BY <1>1, <1>3, <2>1, OverStep
<1>4. CASE /\ rec' = Matched
           /\ speech' = [speech EXCEPT !.person = TRUE]
           /\ Insert(NewJob("render", rec.revision + 1, "speaker-auto-match-v1"))
           /\ worker' = [worker EXCEPT !.pc = "follow", !.seen.revision = rec.revision + 1]
  <2>1. rec.revision + 1 \in Revision
    BY <1>1, <1>2, RevisionBelow DEF RoomForRevision
  <2>2. JobsKept
    BY <1>4, <2>1, InsertNewKeeps DEF IInv, Kind, Fingerprint
  <2>3. Row'
    BY <1>1, <1>2, <1>4, RevisionRaised DEF Matched, RoomForRevision
  <2>4. Files'
    BY <1>1, <1>2, <1>4 DEF Files, SpeechRow
  <2>5. [worker.seen EXCEPT !.revision = rec.revision + 1] \in RecordingRow
    BY <1>2, <2>1 DEF RecordingRow
  <2>6. /\ worker' \in Worker /\ worker'.job = worker.job /\ worker'.pc = "follow"
        /\ Fits(worker', Mine.kind)
    BY <1>1, <1>2, <1>4, <2>5 DEF Worker, PC, Fits, Places, Holds, Saw, Documents
  <2>7. Hand'
    BY <1>1, <2>2, <2>6, GoesOn DEF IInv, JobsKept
  <2>8. QED
    BY <2>2, <2>3, <2>4, <2>6, <2>7, HandlerStep
<1>5. QED
  BY <1>3, <1>4 DEF AutoMatch

-----------------------------------------------------------------------------
(* The last part of a handler *)

\* What the worker holds when its handler reaches its follow-up.
LEMMA AtFollow ==
    ASSUME IInv, worker.pc = "follow"
    PROVE  /\ Busy /\ worker \in Worker /\ Fits(worker, Mine.kind) /\ Row /\ Files
           /\ Mine.kind \in {"transcribe", "classify"} =>
                 worker.doc \in Transcript /\ worker.doc.revision \in Revision
           /\ Mine.kind = "classify" => worker.doc.category \in Category
           /\ Mine.kind \in {"finalize_speakers", "render"} =>
                 worker.seen \in RecordingRow /\ worker.seen.revision \in Revision
           /\ Mine.kind = "render" => worker.seen.category \in Category
<1>1. /\ Busy /\ worker \in Worker /\ Fits(worker, Mine.kind) /\ Row /\ Files
  BY BusyWorker DEF Busy, IInv
<1>2. Mine.kind = "classify" => ~worker.resumed
  BY <1>1 DEF Fits, Places
<1>3. QED
  BY <1>1, <1>2 DEF Fits, Holds, Saw, Documents, Transcript, RecordingRow

\* The end of a transcription keeps the invariant and continues the jobs
\* table.
LEMMA FollowTranscribeStep == ASSUME IInv, FollowTranscribe PROVE StepOk
<1>1. /\ worker.pc = "follow" /\ Mine.kind = "transcribe"
      /\ UNCHANGED <<rec, speech, art, disk>>
  BY DEF FollowTranscribe, At, Doing
<1>2. Busy /\ worker.doc.revision \in Revision
  BY <1>1, AtFollow
<1>3. Row' /\ Files'
  BY <1>1, RowUnchanged, FilesUnchanged DEF IInv
<1>4. CASE Enqueue("finalize_speakers", worker.doc.revision, "current") /\ Return
  <2>1. JobsKept
    BY <1>2, <1>4, EnqueueKeeps DEF IInv, Kind, Fingerprint
  <2>2. QED
    BY <1>2, <1>3, <1>4, <2>1, OverStep
<1>5. CASE Raise(FALSE) /\ UNCHANGED <<jobs, queue>>
  BY <1>2, <1>3, <1>5, UnchangedJobs, OverStep DEF IInv
<1>6. QED
  BY <1>4, <1>5 DEF FollowTranscribe

\* transition_and_enqueue at the end of a handler.
LEMMA TransitionAndEnqueueStep ==
    ASSUME IInv, Busy, UNCHANGED <<speech, art, disk>>,
           NEW target \in Status, NEW kind \in Kind, NEW revision \in Revision,
           NEW input \in Fingerprint, kind # "transcribe",
           kind = "summarize" => input \in Category,
           TransitionAndEnqueue(target, kind, revision, input)
    PROVE  StepOk
<1>1. Files' /\ Row'
  BY FilesUnchanged, RowUnchanged, TransitionKeeps DEF IInv, TransitionAndEnqueue
<1>2. CASE Enqueue(kind, revision, input) /\ Return
  <2>1. JobsKept
    BY <1>2, EnqueueKeeps DEF IInv
  <2>2. QED
    BY <1>1, <1>2, <2>1, OverStep
<1>3. CASE Raise(FALSE) /\ UNCHANGED <<jobs, queue>>
  BY <1>1, <1>3, UnchangedJobs, OverStep DEF IInv
<1>4. QED
  BY <1>2, <1>3 DEF TransitionAndEnqueue

\* The end of finalize_speakers keeps the invariant and continues the jobs
\* table.
LEMMA FollowFinalizeStep == ASSUME IInv, FollowFinalize PROVE StepOk
<1>1. /\ worker.pc = "follow" /\ Mine.kind = "finalize_speakers"
      /\ UNCHANGED <<speech, art, disk>>
  BY DEF FollowFinalize, At, Doing
<1>2. Busy /\ worker.seen.revision \in Revision
  BY <1>1, AtFollow
<1>3. CASE TransitionAndEnqueue("CLASSIFYING", "classify", worker.seen.revision, "current")
  BY <1>1, <1>2, <1>3, TransitionAndEnqueueStep DEF Status, Kind, Fingerprint
<1>4. CASE Return /\ UNCHANGED <<rec, jobs, queue>>
  <2>1. JobsKept /\ Row' /\ Files'
    BY <1>1, <1>4, Steady
  <2>2. QED
    BY <1>2, <1>4, <2>1, OverStep
<1>5. QED
  BY <1>3, <1>4 DEF FollowFinalize

\* The end of a classification keeps the invariant and continues the jobs
\* table.
LEMMA FollowClassifyStep == ASSUME IInv, FollowClassify PROVE StepOk
<1>1. /\ worker.pc = "follow" /\ Mine.kind = "classify"
      /\ UNCHANGED <<speech, art, disk>>
  BY DEF FollowClassify, At, Doing
<1>2. /\ Busy /\ worker \in Worker /\ Fits(worker, Mine.kind)
      /\ worker.doc.revision \in Revision /\ worker.doc.category \in Category
  BY <1>1, AtFollow
<1>3. CASE TransitionAndEnqueue("SUMMARIZING", "summarize",
                                worker.doc.revision, worker.doc.category)
  BY <1>1, <1>2, <1>3, TransitionAndEnqueueStep DEF Status, Kind, Fingerprint
<1>4. CASE /\ \/ Transition("READY_FOR_SUMMARY") /\ Goto("ready")
              \/ Raise(FALSE) /\ UNCHANGED rec
           /\ UNCHANGED <<jobs, queue>>
  <2>1. JobsKept /\ Row' /\ Files'
    BY <1>1, <1>4, UnchangedJobs, RowUnchanged, TransitionKeeps, FilesUnchanged
       DEF IInv, Status
  <2>2. CASE Raise(FALSE)
    BY <1>2, <2>1, <2>2, OverStep
  <2>3. CASE worker' = [worker EXCEPT !.pc = "ready"]
    <3>1. /\ worker' \in Worker /\ worker'.job = worker.job /\ worker'.pc = "ready"
          /\ Fits(worker', Mine.kind)
      BY <1>1, <1>2, <2>3 DEF Worker, PC, Fits, Places, Holds, Saw, Documents
    <3>2. QED
      BY <1>2, <1>4, <2>1, <3>1, WithinStep
  <2>4. QED
    BY <1>4, <2>2, <2>3 DEF Goto
<1>5. QED
  BY <1>3, <1>4 DEF FollowClassify

\* The end of a render keeps the invariant and continues the jobs table.
LEMMA FollowRenderStep == ASSUME IInv, FollowRender PROVE StepOk
<1> DEFINE seen == worker.seen
<1>1. /\ worker.pc = "follow" /\ Mine.kind = "render"
      /\ UNCHANGED <<rec, speech, art, disk>>
  BY DEF FollowRender, At, Doing
<1>2. /\ Busy /\ worker \in Worker /\ Fits(worker, Mine.kind)
      /\ seen.revision \in Revision /\ seen.category \in Category
  BY <1>1, AtFollow
<1>3. Row' /\ Files'
  BY <1>1, RowUnchanged, FilesUnchanged DEF IInv
<1>4. JobsKept
  <2>1. CASE UNCHANGED <<jobs, queue>>
    BY <2>1, UnchangedJobs DEF IInv
  <2>2. CASE Enqueue("summarize", seen.revision, seen.category)
    BY <1>2, <2>2, EnqueueKeeps DEF IInv, Kind, Fingerprint
  <2>3. QED
    BY <2>1, <2>2 DEF FollowRender
<1>5. CASE Return \/ Raise(FALSE)
  BY <1>2, <1>3, <1>4, <1>5, OverStep
<1>6. CASE worker' = [worker EXCEPT !.pc = "resummarize"]
  <2>1. /\ worker' \in Worker /\ worker'.job = worker.job /\ worker'.pc = "resummarize"
        /\ Fits(worker', Mine.kind)
    BY <1>1, <1>2, <1>6 DEF Worker, PC, Fits, Places, Holds, Saw, Documents
  <2>2. Hand'
    BY <1>2, <1>4, <2>1, GoesOn DEF IInv, JobsKept
  <2>3. QED
    BY <1>3, <1>4, <2>1, <2>2, HandlerStep
<1>7. QED
  BY <1>5, <1>6 DEF FollowRender, Goto

\* The last transition of a handler keeps the invariant and continues the
\* jobs table.
LEMMA LastTransitionStep == ASSUME IInv, LastTransition PROVE StepOk
<1>1. /\ Busy /\ UNCHANGED <<speech, jobs, queue, art, disk>>
  BY DEF LastTransition, Busy
<1>2. JobsKept /\ Files'
  BY <1>1, UnchangedJobs, FilesUnchanged DEF IInv
<1>3. Row' /\ (Return \/ Raise(FALSE))
  BY RowUnchanged, TransitionKeeps DEF LastTransition, IInv, Status
<1>4. QED
  BY <1>1, <1>2, <1>3, OverStep

\* The summary the worker is about to write is typed.
LEMMA SummaryToWrite ==
    ASSUME IInv, worker.pc \in {"sumFile", "sumRow"}
    PROVE  /\ Busy /\ worker \in Worker /\ Fits(worker, Mine.kind) /\ Files /\ Row
           /\ NewSummary \in Summary
<1>1. /\ Busy /\ worker \in Worker /\ Fits(worker, Mine.kind) /\ Files /\ Row
  BY BusyWorker DEF Busy, IInv
<1>2. worker.seen \in RecordingRow /\ worker.seen.category \in Category /\ worker.job \in Nat
  BY <1>1 DEF Fits, Places, Saw, Worker
<1>3. QED
  BY <1>1, <1>2 DEF NewSummary, Summary, RecordingRow

\* The summary's file replaced: the files stay typed.
LEMMA SummaryFileTyped ==
    ASSUME IInv, worker.pc = "sumFile", disk' = SummaryWritten,
           UNCHANGED <<rec, speech, jobs, queue, art>>
    PROVE  Files'
<1>1. Files /\ NewSummary \in Summary
  BY SummaryToWrite
<1>2. SummaryFileWritten(NewSummary) \in SUBSET Summary
  BY <1>1 DEF SummaryFileWritten, Files
<1>3. QED
  BY <1>1, <1>2 DEF Files, SummaryWritten

\* Replacing the summary files keeps the invariant and continues the jobs
\* table.
LEMMA WriteSummaryStep == ASSUME IInv, WriteSummary PROVE StepOk
<1>1. /\ worker.pc = "sumFile" /\ worker' = [worker EXCEPT !.pc = "sumRow"]
      /\ disk' = SummaryWritten
      /\ UNCHANGED <<rec, speech, jobs, queue, art>>
  BY DEF WriteSummary, At, Goto
<1>2. /\ Busy /\ worker \in Worker /\ Fits(worker, Mine.kind) /\ Row
  BY <1>1, SummaryToWrite
<1>3. Files'
  BY <1>1, SummaryFileTyped
<1>4. /\ worker' \in Worker /\ worker'.job = worker.job /\ worker'.pc = "sumRow"
      /\ Fits(worker', Mine.kind)
  BY <1>1, <1>2 DEF Worker, PC, Fits, Places, Holds, Saw, Documents
<1>5. QED
  BY <1>1, <1>2, <1>3, <1>4, WithinStep, RowUnchanged

\* A file that is replaced but not synchronised keeps the invariant and
\* continues the jobs table.
LEMMA SyncFailsStep == ASSUME IInv, SyncFails PROVE StepOk
<1>1. /\ Busy /\ Raise(TRUE) /\ UNCHANGED <<rec, speech, jobs, queue, art>>
  BY DEF SyncFails, At, Busy
<1>2. Files'
  BY <1>1, JsonFileTyped, MarkdownFileTyped, SummaryFileTyped DEF SyncFails, At
<1>3. JobsKept /\ Row'
  BY <1>1, UnchangedJobs, RowUnchanged DEF IInv
<1>4. QED
  BY <1>1, <1>2, <1>3, OverStep

\* Registering the summary keeps the invariant and continues the jobs table.
LEMMA RegisterSummaryStep == ASSUME IInv, RegisterSummary PROVE StepOk
<1>1. /\ worker.pc = "sumRow" /\ UNCHANGED <<rec, speech, jobs, queue>>
      /\ art'  = [art  EXCEPT !.sum = SummaryRowsAfter(NewSummary)]
      /\ disk' = [disk EXCEPT !.sum = SummaryFilesAfter(NewSummary)]
  BY DEF RegisterSummary, At
<1>2. /\ Busy /\ worker \in Worker /\ Fits(worker, Mine.kind) /\ Files /\ Row
      /\ NewSummary \in Summary
  BY <1>1, SummaryToWrite
<1>3. Files'
  <2>1. /\ SummaryRowsAfter(NewSummary) \in SUBSET Summary
        /\ SummaryFilesAfter(NewSummary) \in SUBSET Summary
    BY <1>2 DEF SummaryRowsAfter, SummaryFilesAfter, Files
  <2>2. QED
    BY <1>1, <1>2, <2>1 DEF Files
<1>4. JobsKept /\ Row'
  BY <1>1, UnchangedJobs, RowUnchanged DEF IInv
<1>5. CASE Return
  BY <1>2, <1>3, <1>4, <1>5, OverStep
<1>6. CASE worker' = [worker EXCEPT !.pc = "ready"]
  <2>1. /\ worker' \in Worker /\ worker'.job = worker.job /\ worker'.pc = "ready"
        /\ Fits(worker', Mine.kind)
    BY <1>1, <1>2, <1>6 DEF Worker, PC, Fits, Places, Holds, Saw, Documents
  <2>2. QED
    BY <1>1, <1>2, <1>3, <1>4, <2>1, WithinStep
<1>7. QED
  BY <1>5, <1>6 DEF RegisterSummary, Goto

-----------------------------------------------------------------------------
(* Jobs that were recovered or retried *)

\* inspect_recovery refuses the job.
LEMMA RefusedStep ==
    ASSUME IInv, Busy, JobsKept, Row', Files',
           worker' = [pc |-> "failing", job |-> worker.job, seen |-> None, doc |-> None,
                      resumed |-> FALSE, retry |-> FALSE]
    PROVE  StepOk
<1>1. worker.job \in Nat /\ worker.job # 0 /\ worker.job \in Ids'
  BY Employed DEF IInv, Busy, JobsKept, Continues, Ids
<1>2. worker' \in Worker
  BY <1>1 DEF Worker, PC
<1>3. \A kind : Fits(worker', kind)
  BY DEF Fits, Places, Holds, Saw, Documents
<1>4. Hand' /\ worker'.job = worker.job /\ worker'.pc = "failing"
  BY <1>1, <1>2, <1>3 DEF Hand
<1>5. QED
  BY <1>4, HandlerStep

\* .. finds its work done.
LEMMA ResumeCompleteStep ==
    ASSUME IInv, Busy, Files', NEW plan, NEW kind, PlanOk(plan, kind), ResumeComplete(plan)
    PROVE  StepOk
<1>1. ApplyCompletion(plan, jobs) /\ Return
  BY DEF ResumeComplete
<1>2. /\ Row /\ TableOk(jobs) /\ OrderOk(jobs, queue) /\ Continues(jobs, jobs)
      /\ Len(jobs) = Len(jobs)
  BY DEF IInv, Continues
<1>3. JobsKept /\ Row'
  BY <1>1, <1>2, ApplyCompletionKeeps DEF JobsKept
<1>4. QED
  BY <1>1, <1>3, OverStep

\* .. or refuses it, at the end of a resumed classify as at its beginning.
LEMMA ResumeRefusedStep ==
    ASSUME IInv, Busy, Files', NEW plan, ResumeRefused(plan)
    PROVE  StepOk
<1>1. JobsKept /\ Row'
  BY UnchangedJobs, RowUnchanged DEF IInv, ResumeRefused
<1>2. worker' = [pc |-> "failing", job |-> worker.job, seen |-> None, doc |-> None,
                 resumed |-> FALSE, retry |-> FALSE]
  BY DEF ResumeRefused, Unemployed
<1>3. QED
  BY <1>1, <1>2, RefusedStep

\* What inspect_recovery answers about the worker's own job.
LEMMA InspectMine ==
    ASSUME IInv, Busy, NEW sourceOk \in SourceOutcomes
    PROVE  PlanOk(Inspect(worker.job, sourceOk), Mine.kind)
<1>1. Row /\ worker.job \in Ids /\ sourceOk \in BOOLEAN
  BY Employed DEF IInv, Busy, SourceOutcomes
<1>2. QED
  BY <1>1, InspectOk DEF Mine

\* The first step of a recovered or retried job keeps the invariant and
\* continues the jobs table.
LEMMA ResumeRecoveredStep == ASSUME IInv, ResumeRecovered PROVE StepOk
<1>1. /\ worker.pc = "claimed" /\ Busy /\ UNCHANGED <<speech, art, disk>>
  BY DEF ResumeRecovered, At, Busy
<1>2. /\ worker \in Worker /\ Fits(worker, Mine.kind) /\ Row /\ Files /\ Files'
  BY <1>1, BusyWorker, FilesUnchanged DEF IInv
<1>3. PICK sourceOk \in SourceOutcomes :
         LET plan == Inspect(worker.job, sourceOk)
         IN  ResumeComplete(plan) \/ ResumeRefused(plan)
               \/ ResumeHalfway(plan) \/ StartOver(plan)
  BY DEF ResumeRecovered
<1> DEFINE plan == Inspect(worker.job, sourceOk)
<1>4. PlanOk(plan, Mine.kind)
  BY <1>1, InspectMine
<1>5. ResumeComplete(plan) \/ ResumeRefused(plan) \/ ResumeHalfway(plan) \/ StartOver(plan)
  BY <1>3
<1> HIDE DEF plan
<1>6. CASE ResumeComplete(plan)
  BY <1>1, <1>2, <1>4, <1>6, ResumeCompleteStep
<1>7. CASE ResumeRefused(plan)
  BY <1>1, <1>2, <1>7, ResumeRefusedStep
<1>8. CASE ResumeHalfway(plan)
  <2>1. HasJson(rec.revision) /\ Mine.kind \in {"transcribe", "classify"}
    BY <1>4, <1>8 DEF ResumeHalfway, PlanOk
  <2> DEFINE doc == art.json[rec.revision].content
             pc  == IF Doing("transcribe") THEN "clips" ELSE "jsonFile"
  <2>2. doc \in Transcript
    BY <1>2, <2>1 DEF HasJson, Files, Row, RecordingRow, JsonRow
  <2>3. /\ worker' = [worker EXCEPT !.pc = pc, !.doc = doc, !.resumed = TRUE]
        /\ UNCHANGED <<rec, jobs, queue>>
    BY <1>8 DEF ResumeHalfway
  <2>4. pc \in {"clips", "jsonFile"} /\ (pc = "clips" <=> Mine.kind = "transcribe")
    BY DEF Doing
  <2> HIDE DEF doc, pc
  <2>5. worker' \in Worker /\ worker'.job = worker.job /\ worker'.pc = pc
    BY <1>2, <2>2, <2>3, <2>4 DEF Worker, PC
  <2>6. Fits(worker', Mine.kind)
    BY <1>2, <2>1, <2>2, <2>3, <2>4 DEF Worker, Fits, Places, Holds, Saw, Documents
  <2>7. QED
    BY <1>1, <1>2, <2>3, <2>4, <2>5, <2>6, WithinStep, RowUnchanged
<1>9. CASE StartOver(plan)
  <2>1. /\ worker' = [worker EXCEPT !.pc = "start"] /\ UNCHANGED <<rec, jobs, queue>>
    BY <1>9 DEF StartOver, Goto
  <2>2. /\ worker' \in Worker /\ worker'.job = worker.job /\ worker'.pc = "start"
        /\ Fits(worker', Mine.kind)
    BY <1>1, <1>2, <2>1 DEF Worker, PC, Fits, Places, Holds, Saw, Documents
  <2>3. QED
    BY <1>1, <1>2, <2>1, <2>2, WithinStep, RowUnchanged
<1>10. QED
  BY <1>5, <1>6, <1>7, <1>8, <1>9

\* The end of a resumed transcription keeps the invariant and continues the
\* jobs table.
LEMMA SettleTranscribeStep == ASSUME IInv, SettleTranscribe PROVE StepOk
<1>1. /\ worker.pc = "settle" /\ UNCHANGED <<rec, speech, art, disk>>
  BY DEF SettleTranscribe, At
<1>2. Busy /\ worker.doc.revision \in Revision
  BY <1>1, WrittenDocument
<1>3. Row' /\ Files'
  BY <1>1, RowUnchanged, FilesUnchanged DEF IInv
<1>4. JobsKept
  <2>1. CASE UNCHANGED <<jobs, queue>>
    BY <2>1, UnchangedJobs DEF IInv
  <2>2. CASE Insert(NewJob("finalize_speakers", worker.doc.revision, "current"))
    BY <1>2, <2>2, InsertNewKeeps DEF IInv, Kind, Fingerprint
  <2>3. QED
    BY <2>1, <2>2 DEF SettleTranscribe
<1>5. Return \/ Raise(FALSE)
  BY DEF SettleTranscribe
<1>6. QED
  BY <1>2, <1>3, <1>4, <1>5, OverStep

\* The end of a resumed classification keeps the invariant and continues the
\* jobs table.
LEMMA SettleClassifyStep == ASSUME IInv, SettleClassify PROVE StepOk
<1>1. /\ worker.pc = "settle" /\ Busy /\ UNCHANGED <<speech, art, disk>>
  BY DEF SettleClassify, At, Busy
<1>2. Files'
  BY <1>1, FilesUnchanged DEF IInv
<1>3. PICK sourceOk \in SourceOutcomes :
         LET plan == Inspect(worker.job, sourceOk)
         IN  \/ ResumeComplete(plan)
             \/ ResumeRefused(plan)
             \/ Return /\ UNCHANGED <<rec, jobs, queue>>
  BY DEF SettleClassify
<1> DEFINE plan == Inspect(worker.job, sourceOk)
<1>4. PlanOk(plan, Mine.kind)
  BY <1>1, InspectMine
<1>5. \/ ResumeComplete(plan) \/ ResumeRefused(plan)
      \/ Return /\ UNCHANGED <<rec, jobs, queue>>
  BY <1>3
<1> HIDE DEF plan
<1>6. CASE ResumeComplete(plan)
  BY <1>1, <1>2, <1>4, <1>6, ResumeCompleteStep
<1>7. CASE ResumeRefused(plan)
  BY <1>1, <1>2, <1>7, ResumeRefusedStep
<1>8. CASE Return /\ UNCHANGED <<rec, jobs, queue>>
  <2>1. JobsKept /\ Row'
    BY <1>8, UnchangedJobs, RowUnchanged DEF IInv
  <2>2. QED
    BY <1>1, <1>2, <1>8, <2>1, OverStep
<1>9. QED
  BY <1>5, <1>6, <1>7, <1>8

-----------------------------------------------------------------------------
(* The requests: the worker and the files do not move *)

\* A request that keeps jobs and order, the row and the speech rows is a good
\* step.
LEMMA RequestStep ==
    ASSUME IInv, JobsKept, Row', speech' \in SpeechRow, UNCHANGED <<art, disk, worker>>
    PROVE  StepOk
<1>1. Files'  BY DEF Files, IInv
<1>2. Hand'  BY HandKeeps DEF IInv, JobsKept
<1>3. OneRunning'  BY SingleKeeps DEF IInv, JobsKept
<1>4. QED  BY <1>1, <1>2, <1>3 DEF StepOk, IInv, JobsKept

\* The render job of a speaker edit is a queued job.
LEMMA SpeakerRenderOk ==
    ASSUME Row, RoomForRevision
    PROVE  SpeakerRender \in Job /\ RowOk(SpeakerRender) /\ SpeakerRender.status = "queued"
  BY RevisionBelow, NewJobOk DEF SpeakerRender, Kind, Fingerprint

\* A speaker edit keeps the invariant and continues the jobs table.
LEMMA EditSpeakersStep == ASSUME IInv, EditSpeakers PROVE StepOk
<1> DEFINE finalize == NewJob("finalize_speakers", rec.revision + 1, "current")
           n == Len(jobs) + 1
<1>1. RoomForRevision /\ Row /\ TableOk(jobs) /\ OrderOk(jobs, queue)
  BY DEF EditSpeakers, IInv
<1>2. finalize \in Job /\ RowOk(finalize) /\ finalize.status = "queued"
  BY <1>1, RevisionBelow, NewJobOk DEF Kind, Fingerprint
<1>3. SpeakerRender \in Job /\ RowOk(SpeakerRender) /\ SpeakerRender.status = "queued"
  BY <1>1, SpeakerRenderOk
<1>4. JobsKept
  <2>1. CASE QueuedFinalize = {}
    <3> DEFINE t == Append(jobs, SpeakerRender)
               q == Append(queue, n)
    <3>1. jobs' = Append(t, finalize) /\ queue' = Append(q, n + 1)
      BY <2>1 DEF EditSpeakers, InsertRenderAndFinalize
    <3>2. /\ TableOk(t) /\ OrderOk(t, q) /\ Continues(jobs, t)
          /\ RunningIn(t) = RunningIn(jobs)
      BY <1>1, <1>3, Appended
    <3>3. Len(t) = n
      BY <1>1, <1>3, AppendProperties DEF TableOk
    <3> HIDE DEF t, q, finalize
    <3>4. /\ TableOk(Append(t, finalize)) /\ OrderOk(Append(t, finalize), Append(q, Len(t) + 1))
          /\ Continues(t, Append(t, finalize))
          /\ RunningIn(Append(t, finalize)) = RunningIn(t)
      BY <1>2, <3>2, Appended
    <3>5. Continues(jobs, jobs')
      BY <3>1, <3>2, <3>4, ContinuesTransitive
    <3>6. QED
      BY <3>1, <3>2, <3>3, <3>4, <3>5 DEF JobsKept
  <2>2. CASE QueuedFinalize # {}
    <3>1. PICK j \in QueuedFinalize :
             /\ jobs' = Append([jobs EXCEPT ![j].revision = rec.revision + 1,
                                            ![j].input = "current"], SpeakerRender)
             /\ queue' = Append(Append(Without(j), n), j)
      BY <2>2 DEF EditSpeakers, InsertRenderAndFinalize
    <3> DEFINE job == [jobs[j] EXCEPT !.revision = rec.revision + 1, !.input = "current"]
               t == [jobs EXCEPT ![j] = job]
               u == Append(t, SpeakerRender)
               q == Append(Without(j), n)
    <3>2. /\ j \in DOMAIN jobs /\ jobs[j].kind = "finalize_speakers"
          /\ jobs[j].status = "queued"
      BY DEF QueuedFinalize, Ids
    <3>3. DOMAIN jobs = 1..Len(jobs) /\ Len(jobs) \in Nat
      BY <1>1, LenProperties DEF TableOk
    <3>4. jobs[j] \in Job /\ j \in Nat
      BY <1>1, <3>2, <3>3, ElementOfSeq DEF TableOk
    <3>5. /\ job \in Job /\ RowOk(job) /\ job.kind = jobs[j].kind /\ job.status = "queued"
      BY <1>1, <3>2, <3>4, RevisionBelow DEF Job, RowOk, Fingerprint
    <3>6. jobs' = u /\ queue' = Append(q, j)
      BY <3>1, <3>2
    <3> HIDE DEF job
    <3>7. /\ TableOk(t) /\ Len(t) = Len(jobs) /\ DOMAIN t = DOMAIN jobs
          /\ \A i \in DOMAIN jobs : t[i] = IF i = j THEN job ELSE jobs[i]
          /\ Continues(jobs, t)
      BY <1>1, <3>2, <3>5, Replaced DEF IsActive
    <3> HIDE DEF t
    <3>8. RunningIn(t) = RunningIn(jobs)
      BY <3>2, <3>5, <3>7 DEF RunningIn
    <3>9. OrderOk(jobs, Without(j)) /\ NotDue(Without(j), j)
      BY <1>1, WithoutKeeps
    <3>10. OrderOk(t, Without(j))
      <4>1. \A i \in DOMAIN Without(j) : t[Without(j)[i]].status = "queued"
        BY <3>7, <3>9 DEF OrderOk, NotDue
      <4>2. QED
        BY <3>7, <3>9, <4>1, OrderCarries
    <3>11. /\ TableOk(u) /\ OrderOk(u, q) /\ Continues(t, u) /\ RunningIn(u) = RunningIn(t)
      BY <1>3, <3>7, <3>10, Appended
    <3>12. NotDue(q, j) /\ j \in DOMAIN u /\ u[j].status = "queued"
      <4>1. u[j] = t[j] /\ j \in DOMAIN u /\ n \in Nat /\ n # j
        BY <1>3, <3>2, <3>3, <3>7, <3>11, AppendProperties DEF TableOk, Continues
      <4>2. Without(j) \in Seq(Nat)
        BY <3>9 DEF OrderOk
      <4>3. NotDue(q, j)
        BY <3>9, <4>1, <4>2, AppendProperties, LenProperties DEF NotDue
      <4>4. QED
        BY <3>2, <3>5, <3>7, <4>1, <4>3
    <3>13. OrderOk(u, Append(q, j))
      BY <3>4, <3>11, <3>12, OrderAppends
    <3>14. Continues(jobs, u)
      BY <3>7, <3>11, ContinuesTransitive
    <3>15. QED
      BY <3>6, <3>8, <3>11, <3>13, <3>14 DEF JobsKept
  <2>3. QED
    BY <2>1, <2>2
<1>5. Row'
  BY <1>1, RevisionRaised DEF EditSpeakers
<1>6. speech' \in SpeechRow
  <2>1. speech \in SpeechRow  BY SpeechOfRow
  <2>2. PICK assigned \in BOOLEAN : speech' = [speech EXCEPT !.person = assigned]
    BY <2>1 DEF EditSpeakers, SpeechRow
  <2>3. QED  BY <2>1, <2>2 DEF SpeechRow
<1>7. QED
  BY <1>4, <1>5, <1>6, RequestStep DEF EditSpeakers

\* A renamed person keeps the invariant and continues the jobs table.
LEMMA RenamePersonStep == ASSUME IInv, RenamePerson PROVE StepOk
<1>1. RoomForRevision /\ Row /\ TableOk(jobs) /\ OrderOk(jobs, queue) /\ speech' \in SpeechRow
  BY SpeechOfRow DEF RenamePerson, IInv
<1>2. JobsKept
  BY <1>1, SpeakerRenderOk, InsertKeeps DEF RenamePerson
<1>3. Row'
  BY <1>1, RevisionRaised DEF RenamePerson
<1>4. QED
  BY <1>1, <1>2, <1>3, RequestStep DEF RenamePerson

\* A category edit keeps the invariant and continues the jobs table.
LEMMA UpdateCategoryStep == ASSUME IInv, UpdateCategory PROVE StepOk
<1>1. RoomForRevision /\ Row /\ TableOk(jobs) /\ OrderOk(jobs, queue) /\ speech' \in SpeechRow
  BY SpeechOfRow DEF UpdateCategory, IInv
<1>2. JobsKept
  BY <1>1, RevisionBelow, InsertNewKeeps DEF UpdateCategory, Kind, Fingerprint
<1>3. Row'
  <2>1. PICK c \in Category : rec' = [rec EXCEPT !.category = c, !.source = "manual",
                                                 !.revision = @ + 1]
    BY DEF UpdateCategory
  <2>2. QED
    BY <1>1, <2>1, RevisionBelow DEF Row, RecordingRow, Source
<1>4. QED
  BY <1>1, <1>2, <1>3, RequestStep DEF UpdateCategory

\* A summary request keeps the invariant and continues the jobs table.
LEMMA RequestSummaryStep == ASSUME IInv, RequestSummary PROVE StepOk
<1>1. /\ Row /\ TableOk(jobs) /\ OrderOk(jobs, queue) /\ speech' \in SpeechRow
      /\ rec.category \in Category /\ rec.revision \in Revision
  BY SpeechOfRow DEF RequestSummary, IInv, Row, RecordingRow
<1>2. JobsKept
  BY <1>1, InsertNewKeeps DEF RequestSummary, Kind, Fingerprint
<1>3. Row'
  BY <1>1 DEF RequestSummary, Row, RecordingRow, Status
<1>4. QED
  BY <1>1, <1>2, <1>3, RequestStep DEF RequestSummary

\* A retranscription request keeps the invariant and continues the jobs
\* table.
LEMMA CreateRetranscriptionStep == ASSUME IInv, CreateRetranscription PROVE StepOk
<1> DEFINE job == [NewJob("transcribe", rec.revision, "retranscription") EXCEPT !.open = TRUE]
<1>1. /\ Row /\ TableOk(jobs) /\ OrderOk(jobs, queue) /\ speech' \in SpeechRow
      /\ rec.revision \in Revision /\ rec.revision < MaxRevision
  BY SpeechOfRow DEF CreateRetranscription, RoomForRevision, IInv, Row, RecordingRow
<1>2. job \in Job /\ RowOk(job) /\ job.status = "queued"
  BY <1>1 DEF NewJob, Job, RowOk, Kind, Fingerprint, JobStatus
<1>3. JobsKept
  BY <1>1, <1>2, InsertKeeps DEF CreateRetranscription
<1>4. QED
  BY <1>1, <1>3, RequestStep, RowUnchanged DEF CreateRetranscription

\* The status a manual retry sets is one.
LEMMA RetriedStatusOk ==
    ASSUME Row, NEW kind PROVE RetriedStatus(kind) \in Status
  BY DEF RetriedStatus, Row, RecordingRow, Status

\* A manual retry keeps the invariant and continues the jobs table.
LEMMA RetryJobStep == ASSUME IInv, RetryJob PROVE StepOk
<1>1. Row /\ TableOk(jobs) /\ OrderOk(jobs, queue) /\ speech' \in SpeechRow
  BY SpeechOfRow DEF RetryJob, IInv
<1>2. PICK j \in Ids, sourceOk \in SourceOutcomes :
         /\ Retryable(j, sourceOk)
         /\ Insert([NewJob(jobs[j].kind, jobs[j].revision, jobs[j].input)
                       EXCEPT !.revived = TRUE, !.retryOf = j])
         /\ rec' = [rec EXCEPT !.status = RetriedStatus(jobs[j].kind)]
  BY DEF RetryJob
<1> DEFINE job == [NewJob(jobs[j].kind, jobs[j].revision, jobs[j].input)
                      EXCEPT !.revived = TRUE, !.retryOf = j]
<1>3. jobs[j] \in Job /\ j \in Nat
  BY <1>1, ElementOfSeq, LenProperties DEF TableOk, Ids
<1>4. jobs[j].kind # "summarize" /\ ~Retranscription(j)
  BY <1>2 DEF Retryable
<1>5. job \in Job /\ RowOk(job) /\ job.status = "queued"
  BY <1>3, <1>4 DEF NewJob, Job, RowOk, JobStatus, Retranscription
<1>6. JobsKept
  BY <1>1, <1>2, <1>5, InsertKeeps
<1>7. Row'
  BY <1>1, <1>2, RetriedStatusOk DEF Row, RecordingRow
<1>8. QED
  BY <1>1, <1>6, <1>7, RequestStep DEF RetryJob

-----------------------------------------------------------------------------
(* The specification *)

\* Init: a registered recording, its transcribe job due, the worker idle.
LEMMA InitOk == Init => IInv
<1> SUFFICES ASSUME Init PROVE IInv
  OBVIOUS
<1> DEFINE first == NewJob("transcribe", 1, "input-v1")
<1>0. 1 \in Revision /\ 0 \in Path
  BY BoundAssumption DEF Revision, Path
<1>1. /\ jobs = <<first>> /\ queue = <<1>> /\ worker = Unemployed("idle")
      /\ worker.job = 0 /\ worker.pc = "idle"
  BY DEF Init, Unemployed
<1>2. first \in Job /\ RowOk(first) /\ first.status = "queued"
  <2>1. first \in Job
    BY <1>0, NewJobIsJob DEF Kind, Fingerprint
  <2>2. QED
    BY <2>1 DEF NewJob, RowOk
<1> HIDE DEF first
<1>3. /\ jobs \in Seq(Job) /\ DOMAIN jobs = {1} /\ jobs[1] = first
      /\ queue \in Seq(Nat) /\ DOMAIN queue = {1} /\ queue[1] = 1
  BY <1>1, <1>2
<1>4. TableOk(jobs)
  BY <1>2, <1>3 DEF TableOk
<1>5. OrderOk(jobs, queue)
  BY <1>2, <1>3 DEF OrderOk
<1>6. Row
  BY <1>0 DEF Init, Row, RecordingRow, Status, Source
<1>7. Files
  BY <1>0 DEF Init, Files, SpeechRow
<1>8. Hand
  BY <1>1 DEF Hand, Worker, PC, Unemployed
<1>9. OneRunning
  BY <1>1, <1>2, <1>3 DEF OneRunning, Running, Ids
<1>10. QED
  BY <1>4, <1>5, <1>6, <1>7, <1>8, <1>9 DEF IInv

\* An API request.
LEMMA RequestsStep == ASSUME IInv, Request PROVE StepOk
  BY EditSpeakersStep, RenamePersonStep, UpdateCategoryStep, RequestSummaryStep,
     CreateRetranscriptionStep, RetryJobStep DEF Request

\* A step of the worker between its claim and the end of the job.
LEMMA HandleStep == ASSUME IInv, Handle PROVE StepOk
<1>1. CASE ResumeRecovered \/ SettleTranscribe \/ SettleClassify
  BY <1>1, ResumeRecoveredStep, SettleTranscribeStep, SettleClassifyStep
<1>2. CASE StartTranscribe \/ StartClassify \/ StartFinalize \/ StartSummarize \/ StartRender
  BY <1>2, StartTranscribeStep, StartClassifyStep, StartFinalizeStep, StartSummarizeStep,
     StartRenderStep
<1>3. CASE Transcribed \/ Classified \/ Summarized \/ Embedded
  BY <1>3, TranscribedStep, ClassifiedStep, SummarizedStep, EmbeddedStep
<1>4. CASE \/ WriteJson \/ RegisterTranscript \/ WriteMarkdown \/ RegisterMarkdown
           \/ CutClips \/ RegisterClips
  BY <1>4, WriteJsonStep, RegisterTranscriptStep, WriteMarkdownStep, RegisterMarkdownStep,
     CutClipsStep, RegisterClipsStep
<1>5. CASE \/ StageRetranscription \/ CommitRetranscription \/ AbandonRetranscription
           \/ KeepSpeakers \/ AutoMatch
  BY <1>5, StageRetranscriptionStep, CommitRetranscriptionStep, AbandonRetranscriptionStep,
     KeepSpeakersStep, AutoMatchStep
<1>6. CASE \/ FollowTranscribe \/ FollowFinalize \/ FollowClassify \/ FollowRender
           \/ LastTransition \/ WriteSummary \/ RegisterSummary
  BY <1>6, FollowTranscribeStep, FollowFinalizeStep, FollowClassifyStep, FollowRenderStep,
     LastTransitionStep, WriteSummaryStep, RegisterSummaryStep
<1>7. CASE MarkFailed \/ FailJob \/ CompleteJob
  BY <1>7, MarkFailedStep, FailJobStep, CompleteJobStep
<1>8. QED
  BY <1>1, <1>2, <1>3, <1>4, <1>5, <1>6, <1>7 DEF Handle

\* A failure, a stop or a crash.
LEMMA FailStep == ASSUME IInv, Fail PROVE StepOk
  BY ModelFailsStep, WriteFailsStep, SyncFailsStep, RendererFailsStep, ReleaseStep,
     CrashStep, ShutdownStep DEF Fail

\* Every step keeps the inductive invariant and continues the jobs table.
LEMMA NextOk == IInv /\ [Next]_allVars => StepOk
<1> SUFFICES ASSUME IInv, [Next]_allVars PROVE StepOk
  OBVIOUS
<1>1. CASE Startup
  BY <1>1, ReconcileStep, RecoverStep, RecoverAbortsStep DEF Startup
<1>2. CASE Claim \/ Handle
  BY <1>2, ClaimStep, HandleStep
<1>3. CASE BackoffExpires
  BY <1>3, BackoffExpiresStep
<1>4. CASE Request
  BY <1>4, RequestsStep
<1>5. CASE Fail
  BY <1>5, FailStep
<1>6. CASE UNCHANGED allVars
  <2>1. UNCHANGED <<rec, speech, jobs, queue, art, disk>> /\ worker' = worker
    BY <1>6 DEF allVars, vars
  <2>2. JobsKept /\ Row' /\ Files'
    BY <2>1, Steady
  <2>3. Hand' /\ OneRunning'
    BY <2>1, <2>2, HandKeeps, SingleKeeps DEF IInv, JobsKept
  <2>4. QED
    BY <2>2, <2>3 DEF StepOk, IInv, JobsKept
<1>7. QED
  BY <1>1, <1>2, <1>3, <1>4, <1>5, <1>6 DEF Next, Unfailing

\* IInv holds in every reachable state: it holds initially and every step
\* keeps it.
LEMMA Inductive == Spec => []IInv
<1>1. IInv /\ [Next]_allVars => IInv'
  BY NextOk DEF StepOk
<1>2. QED
  BY <1>1, InitOk, PTL DEF Spec

\* Every variable keeps its type, for all categories, bounds, requests and
\* failures: whatever a handler writes at the place it has reached, after
\* requests, crashes and resumptions, is a document, a summary or a row of
\* the right form, never a value it does not hold.
THEOREM TypeCorrect == Spec => []TypeOK
<1>1. IInv => TypeOK
  BY DEF IInv, TableOk, OrderOk, Row, Files, Hand, TypeOK
<1>2. QED
  BY <1>1, Inductive, PTL

\* At most one job is running, and it is the one the worker holds, through
\* every interleaving of claims, requests, retries, crashes, recoveries and
\* restarts (claim_next_job, release_job, fail_job, recover_stale_jobs): no
\* job is lost or executed twice at a time.
THEOREM OneJobRuns == Spec => []OneRunning
<1>1. IInv => OneRunning
  BY DEF IInv
<1>2. QED
  BY <1>1, Inductive, PTL

\* A job that has succeeded or failed is never changed again, by any handler,
\* request or recovery: a retry is a new row (enqueue_retry), recovery
\* touches running rows only.
THEOREM EndedJobsStay == Spec => TerminalJobs
<1>1. IInv /\ [Next]_allVars =>
        [\A j \in Ids : ~Active(j) => j \in DOMAIN jobs' /\ jobs'[j] = jobs[j]]_allVars
  <2>1. Continues(jobs, jobs') =>
          \A j \in Ids : ~Active(j) => j \in DOMAIN jobs' /\ jobs'[j] = jobs[j]
    BY DEF Continues, Active, Ids
  <2>2. QED
    BY <2>1, NextOk DEF StepOk
<1>2. QED
  BY <1>1, Inductive, PTL DEF Spec, TerminalJobs
=============================================================================
