----------------------------- MODULE FilesProofs -----------------------------
(***************************************************************************)
(* No registered document loses its file.  Only a retranscription that is  *)
(* refused removes one, the file it staged for the revision after its      *)
(* base; the document of that revision is at the same place if a render    *)
(* registered it before.  It cannot have: the render's job is behind the   *)
(* retranscription's in the claim order, unless a retry or a stop puts the *)
(* retranscription back behind it.                                         *)
(***************************************************************************)
EXTENDS LedgerProofs

\* There is no retranscription, or nothing puts its job back behind others.
Undelayed ==
    \/ "retranscribe" \notin Requests
    \/ Faults \cap {"transient", "io", "stop"} = {}

(* The inductive invariant *)

\* Job j is due, with no render before it.
First(q, t, j) ==
    \E m \in DOMAIN q : /\ q[m] = j
                        /\ \A n \in DOMAIN q : n < m => t[q[n]].kind # "render"

\* While a retranscription waits or runs no render runs, and none will be
\* claimed before it.
Line ==
    /\ worker.job # 0 /\ worker.retry => ~Redoes(Mine)
    /\ \A j \in Ids : Redoes(jobs[j]) =>
          /\ "retranscribe" \in Requests
          /\ Active(j) => \A i \in Ids : jobs[i].kind = "render" => jobs[i].status # "running"
          /\ jobs[j].status = "queued" => First(queue, jobs, j)

\* Retranscription j may still stage its document.
Unstaged(j) ==
    \/ jobs[j].status = "queued" /\ ~jobs[j].revived
    \/ worker.job = j /\ \/ worker.pc \in {"start", "model", "stage", "commit"}
                         \/ worker.pc = "claimed" /\ ~jobs[j].revived

\* No document is registered in the directory of revision r.
Free(r) == r \in Revision => art.json[r] = None \/ art.json[r].path # r

Apart ==
    /\ worker.pc \in {"stage", "commit"} => Redoes(Mine)
    /\ \A r \in Revision : art.json[r] # None => art.json[r].path \in {0, r}
    /\ \A j \in Ids : Redoes(jobs[j]) /\ Unstaged(j) => Free(jobs[j].revision + 1)

\* Rows have files, and so will the row that is about to be written.
Stored ==
    /\ \A r \in Revision : HasJson(r) => FileAt(r) # None
    /\ At("jsonRow") => disk.json[JsonPath] # None
    /\ At("commit") => disk.json[worker.doc.revision] # None

SummaryStored ==
    /\ \A s \in art.sum : \E f \in disk.sum : SamePath(f, s)
    /\ At("sumRow") => \E f \in disk.sum : SamePath(f, NewSummary)

FInv == Line /\ Apart /\ Stored /\ SummaryStored

\* A table of which no retranscription was put back behind others.
TableStill ==
    /\ \A j \in Ids : /\ j \in Ids'
                      /\ jobs'[j].kind = jobs[j].kind
                      /\ Redoes(jobs'[j]) <=> Redoes(jobs[j])
                      /\ ~jobs'[j].revived => ~jobs[j].revived
                      /\ jobs[j].kind = "render" /\ jobs'[j].status = "running"
                            => jobs[j].status = "running"
    /\ \A j \in Ids : Redoes(jobs[j]) =>
          /\ jobs'[j].revision = jobs[j].revision
          /\ Active(j)' => Active(j)
          /\ jobs'[j].status = "queued" =>
                /\ jobs[j].status = "queued"
                /\ First(queue, jobs, j) => First(queue', jobs', j)
    /\ \A j \in Ids' \ Ids : ~Redoes(jobs'[j]) /\ jobs'[j].status = "queued"

\* Where the worker has something to do with a file, or with a retranscription
\* that is not staged.
Marked == {"claimed", "start", "model", "stage", "commit", "jsonRow", "sumRow"}

-----------------------------------------------------------------------------
(* The claim order *)

\* A first job stays first when jobs come behind it.
LEMMA FirstStays ==
    ASSUME NEW t, NEW q, OrderOk(t, q), NEW u, NEW p \in Seq(Nat), NEW j,
           \A i \in DOMAIN t : u[i].kind = t[i].kind,
           \A m \in DOMAIN q : m \in DOMAIN p /\ p[m] = q[m],
           First(q, t, j)
    PROVE  First(p, u, j)
<1>1. PICK m \in DOMAIN q : q[m] = j /\ \A n \in DOMAIN q : n < m => t[q[n]].kind # "render"
  BY DEF First
<1>2. DOMAIN q = 1..Len(q) /\ DOMAIN p = 1..Len(p) /\ Len(q) \in Nat /\ Len(p) \in Nat
  BY LenProperties DEF OrderOk
<1>3. ASSUME NEW n \in DOMAIN p, n < m PROVE u[p[n]].kind # "render"
  <2>1. n \in DOMAIN q
    BY <1>2, <1>3
  <2>2. QED
    BY <1>1, <1>3, <2>1 DEF OrderOk
<1>4. QED
  BY <1>1, <1>3 DEF First

\* A row that joins the table and the end of the claim order.
LEMMA InsertStill ==
    ASSUME IInv, NEW job, Insert(job), ~Redoes(job), job.status = "queued"
    PROVE  TableStill
<1>1. /\ DOMAIN jobs = 1..Len(jobs) /\ Len(jobs) \in Nat
      /\ DOMAIN jobs' = 1..(Len(jobs) + 1)
      /\ jobs'[Len(jobs) + 1] = job
      /\ \A j \in Ids : jobs'[j] = jobs[j]
  BY AppendProperties, LenProperties DEF IInv, TableOk, Insert, Ids
<1>2. /\ queue' \in Seq(Nat)
      /\ \A m \in DOMAIN queue : m \in DOMAIN queue' /\ queue'[m] = queue[m]
  BY <1>1, AppendProperties, LenProperties DEF IInv, OrderOk, Insert
<1>3. \A j \in Ids : First(queue, jobs, j) => First(queue', jobs', j)
  BY <1>1, <1>2, FirstStays DEF IInv, Ids
<1>4. \A j \in Ids' \ Ids : j = Len(jobs) + 1
  BY <1>1 DEF Ids
<1>5. QED
  BY <1>1, <1>3, <1>4 DEF TableStill, Ids, Active

\* No row.
LEMMA KeptStill == ASSUME UNCHANGED <<jobs, queue>> PROVE TableStill
  BY DEF TableStill, Ids, Active

\* A row that _enqueue inserts or finds.
LEMMA EnqueueStill ==
    ASSUME IInv, NEW kind, NEW revision, NEW input, Enqueue(kind, revision, input),
           kind # "transcribe"
    PROVE  TableStill
  BY InsertStill, KeptStill DEF Enqueue, NewJob, Redoes

\* A running job that ends.
LEMMA EndStill ==
    ASSUME IInv, NEW j \in Ids, NEW status \in {"succeeded", "failed"},
           jobs' = [jobs EXCEPT ![j] = Closed(@, status)], queue' = queue
    PROVE  TableStill
<1>1. jobs[j] \in Job
  BY ElementOfSeq, LenProperties DEF IInv, TableOk, Ids
<1>2. /\ Ids' = Ids
      /\ \A i \in Ids : i # j => jobs'[i] = jobs[i]
      /\ jobs'[j] = Closed(jobs[j], status)
  BY DEF Ids
<1>3. /\ jobs'[j].kind = jobs[j].kind /\ jobs'[j].input = jobs[j].input
      /\ jobs'[j].revision = jobs[j].revision /\ jobs'[j].revived = jobs[j].revived
      /\ jobs'[j].status = status
  BY <1>1, <1>2, ClosedIs DEF JobStatus
<1>4. ASSUME NEW i \in Ids, First(queue, jobs, i) PROVE First(queue', jobs', i)
  <2>1. \A k \in DOMAIN jobs : jobs'[k].kind = jobs[k].kind
    BY <1>2, <1>3 DEF Ids
  <2>2. \A m \in DOMAIN queue : queue[m] \in DOMAIN jobs
    BY DEF IInv, OrderOk
  <2>3. QED
    BY <1>4, <2>1, <2>2 DEF First
<1>5. QED
  BY <1>2, <1>3, <1>4 DEF TableStill, Redoes, Active, IsActive

-----------------------------------------------------------------------------
(* The parts of a step that is none of a retranscription's *)

\* The claim order.
LEMMA LineStill ==
    ASSUME PInv, Line, TableStill,
           worker'.job # 0 /\ worker'.retry =>
              \/ worker'.job = worker.job /\ worker.job \in Ids /\ worker.retry
              \/ worker'.job \in Ids /\ ~Redoes(jobs[worker'.job])
    PROVE  Line'
<1>1. worker'.job # 0 /\ worker'.retry => ~Redoes(jobs'[worker'.job])
  BY DEF Line, TableStill, Mine
<1>2. ASSUME NEW j \in Ids', Redoes(jobs'[j])
      PROVE  /\ "retranscribe" \in Requests
             /\ Active(j)' => \A i \in Ids' : jobs'[i].kind = "render"
                                                => jobs'[i].status # "running"
             /\ jobs'[j].status = "queued" => First(queue', jobs', j)
  <2>1. j \in Ids /\ Redoes(jobs[j])
    BY <1>2 DEF TableStill
  <2>2. "retranscribe" \in Requests
    BY <2>1 DEF Line
  <2>3. ASSUME Active(j)', NEW i \in Ids', jobs'[i].kind = "render"
        PROVE  jobs'[i].status # "running"
    <3>1. Active(j)
      BY <2>1, <2>3 DEF TableStill
    <3>2. CASE i \in Ids
      BY <2>1, <2>3, <3>1, <3>2 DEF TableStill, Line
    <3>3. CASE i \notin Ids
      BY <2>3, <3>3 DEF TableStill
    <3>4. QED
      BY <3>2, <3>3
  <2>4. jobs'[j].status = "queued" => First(queue', jobs', j)
    BY <2>1 DEF TableStill, Line
  <2>5. QED
    BY <2>2, <2>3, <2>4
<1>3. QED
  BY <1>1, <1>2 DEF Line, Mine

\* The directories, when no transcript is registered.
LEMMA ApartStill ==
    ASSUME PInv, Apart, TableStill, art'.json = art.json,
           \/ worker'.pc \notin Marked
           \/ worker' = worker
           \/ /\ worker'.pc \notin {"stage", "commit"}
              /\ worker'.job \in Ids /\ ~Redoes(jobs[worker'.job])
    PROVE  Apart'
<1>1. /\ \A r \in Revision : art'.json[r] # None => art'.json[r].path \in {0, r}
      /\ worker'.pc \in {"stage", "commit"} => worker' = worker /\ worker.job \in Ids
  BY Employed DEF Apart, Marked, PInv, IInv
<1>2. worker'.pc \in {"stage", "commit"} => Redoes(jobs'[worker'.job])
  BY <1>1 DEF Apart, TableStill, Mine
<1>3. ASSUME NEW j \in Ids', Redoes(jobs'[j]), Unstaged(j)'
      PROVE  (jobs'[j].revision + 1) \in Revision =>
                \/ art'.json[jobs'[j].revision + 1] = None
                \/ art'.json[jobs'[j].revision + 1].path # jobs'[j].revision + 1
  <2>1. j \in Ids /\ Redoes(jobs[j]) /\ jobs'[j].revision = jobs[j].revision
    BY <1>3 DEF TableStill
  <2>2. Unstaged(j)
    BY <1>3, <2>1 DEF Unstaged, TableStill, Marked
  <2>3. QED
    BY <2>1, <2>2 DEF Apart, Free
<1>4. QED
  BY <1>1, <1>2, <1>3 DEF Apart, Free, Mine

\* The files of transcripts, when none is written or registered.
LEMMA StoredStill ==
    ASSUME PInv, Stored, TableStill, art'.json = art.json, disk'.json = disk.json,
           worker'.pc \notin {"jsonRow", "commit"} \/ worker' = worker
    PROVE  Stored'
<1>1. \A r \in Revision : HasJson(r)' => FileAt(r)' # None
  BY DEF Stored, HasJson, FileAt
<1>2. At("jsonRow")' => disk'.json[JsonPath'] # None
  <2>1. CASE worker'.pc # "jsonRow"
    BY <2>1 DEF At
  <2>2. CASE worker' = worker /\ At("jsonRow")
    <3>1. worker.job \in Ids
      BY <2>2, Employed DEF PInv, IInv, At
    <3>2. JsonPath' = JsonPath
      BY <2>2, <3>1 DEF JsonPath, Doing, Mine, TableStill
    <3>3. QED
      BY <2>2, <3>2 DEF Stored
  <2>3. QED
    BY <2>1, <2>2 DEF At
<1>3. At("commit")' => disk'.json[worker'.doc.revision] # None
  BY DEF Stored, At
<1>4. QED
  BY <1>1, <1>2, <1>3 DEF Stored

\* .. of summaries.
LEMMA SummaryStill ==
    ASSUME SummaryStored, art'.sum = art.sum, disk'.sum = disk.sum,
           worker'.pc # "sumRow" \/ worker' = worker
    PROVE  SummaryStored'
  BY DEF SummaryStored, At, NewSummary, SamePath

\* The directories, when the worker goes from place to place: a
\* retranscription that may still stage its document could so before, or has
\* its directory to itself.
LEMMA ApartMoves ==
    ASSUME PInv, Apart, TableStill, art'.json = art.json,
           worker'.job = worker.job, worker.job \in Ids,
           worker'.pc \in {"stage", "commit"} => Redoes(Mine),
           \A j \in Ids : Redoes(jobs[j]) /\ Unstaged(j)' => \/ Unstaged(j)
                                                             \/ Free(jobs[j].revision + 1)
    PROVE  Apart'
<1>1. /\ \A r \in Revision : art'.json[r] # None => art'.json[r].path \in {0, r}
      /\ worker'.pc \in {"stage", "commit"} => Redoes(jobs'[worker'.job])
  BY DEF Apart, TableStill, Mine
<1>2. ASSUME NEW j \in Ids', Redoes(jobs'[j]), Unstaged(j)'
      PROVE  (jobs'[j].revision + 1) \in Revision =>
                \/ art'.json[jobs'[j].revision + 1] = None
                \/ art'.json[jobs'[j].revision + 1].path # jobs'[j].revision + 1
  <2>1. j \in Ids /\ Redoes(jobs[j]) /\ jobs'[j].revision = jobs[j].revision
    BY <1>2 DEF TableStill
  <2>2. Free(jobs[j].revision + 1)
    BY <1>2, <2>1 DEF Apart
  <2>3. QED
    BY <2>1, <2>2 DEF Free
<1>3. QED
  BY <1>1, <1>2 DEF Apart, Free, Mine

\* Most steps: no file, no document's row, no place that matters.
LEMMA StepStill ==
    ASSUME PInv, FInv, TableStill, UNCHANGED <<art, disk>>,
           worker'.pc \notin Marked \/ worker' = worker,
           worker'.job # 0 /\ worker'.retry =>
              \/ worker'.job = worker.job /\ worker.job \in Ids /\ worker.retry
              \/ worker'.job \in Ids /\ ~Redoes(jobs[worker'.job])
    PROVE  FInv'
  BY LineStill, ApartStill, StoredStill, SummaryStill DEF FInv, Marked

\* A worker that goes on where nothing matters.
LEMMA GotoStill ==
    ASSUME PInv, FInv, TableStill, UNCHANGED <<art, disk>>, NEW pc, pc \notin Marked, Goto(pc)
    PROVE  FInv'
<1>1. worker'.pc = pc /\ worker'.job = worker.job /\ worker'.retry = worker.retry
  BY DEF Goto, PInv, IInv, Hand, Worker
<1>2. worker.job # 0 => worker.job \in Ids
  BY DEF PInv, IInv, Hand
<1>3. QED
  BY <1>1, <1>2, StepStill

\* A handler that is over, for good.
LEMMA OverStill ==
    ASSUME PInv, FInv, TableStill, UNCHANGED <<art, disk>>, Return \/ Raise(FALSE)
    PROVE  FInv'
<1>1. worker'.pc \notin Marked /\ worker'.retry = FALSE
  <2>1. CASE Return
    BY <2>1 DEF Return, Unemployed, Marked
  <2>2. CASE Raise(FALSE)
    BY <2>2 DEF Raise, Unemployed, Marked
  <2>3. QED
    BY <2>1, <2>2
<1>2. QED
  BY <1>1, StepStill

\* A worker without a job, or one that is refused its own.
LEMMA LeaveStill ==
    ASSUME PInv, FInv, TableStill, UNCHANGED <<art, disk>>,
           NEW pc \in {"down", "recovering", "idle", "failing"},
           worker' = Unemployed(pc) \/ worker' = [Unemployed(pc) EXCEPT !.job = worker.job]
    PROVE  FInv'
<1>1. worker'.pc = pc /\ worker'.retry = FALSE
  BY DEF Unemployed
<1>2. QED
  BY <1>1, StepStill DEF Marked

\* .. or to be tried again: no retranscription, if anything waits.
LEMMA RetryStill ==
    ASSUME Undelayed, PInv, FInv, UNCHANGED <<jobs, queue, art, disk>>, Busy, NEW retryable,
           Raise(retryable),
           Doing("transcribe") => Faults \cap {"transient", "io", "stop"} # {}
    PROVE  FInv'
<1>1. worker'.pc \notin Marked /\ worker'.job = worker.job
  BY DEF Raise, Unemployed, Marked
<1>2. worker.job \in Ids
  BY Employed DEF PInv, IInv, Busy
<1>3. ~Redoes(Mine)
  BY <1>2 DEF Undelayed, Redoes, Doing, FInv, Line, Mine
<1>4. QED
  BY <1>1, <1>2, <1>3, StepStill, KeptStill DEF Mine

-----------------------------------------------------------------------------
(* Failures *)

\* A released job is no retranscription, if jobs are released at all.
LEMMA ReleaseStill == ASSUME Undelayed, PInv, FInv, Release PROVE FInv'
<1>1. /\ worker.job \in Ids /\ worker.job \in Nat /\ Mine \in Job
  BY MineRunning DEF PInv, Release, At
<1>2. ~Redoes(Mine)
  BY <1>1 DEF Undelayed, Release, FInv, Line, Mine
<1>3. /\ Ids' = Ids
      /\ \A i \in Ids : i # worker.job => jobs'[i] = jobs[i]
      /\ jobs'[worker.job] = [Mine EXCEPT !.status = "queued"]
  BY <1>1 DEF Release, Ids, Mine
<1>4. /\ jobs'[worker.job].kind = Mine.kind /\ jobs'[worker.job].input = Mine.input
      /\ jobs'[worker.job].revived = Mine.revived
      /\ jobs'[worker.job].status = "queued"
  BY <1>1, <1>3 DEF Job
<1>5. /\ queue' \in Seq(Nat) /\ OrderOk(jobs, queue)
      /\ \A m \in DOMAIN queue : m \in DOMAIN queue' /\ queue'[m] = queue[m]
      /\ \A i \in DOMAIN jobs : jobs'[i].kind = jobs[i].kind
  <2>1. queue' = Append(queue, worker.job) /\ queue \in Seq(Nat)
    BY DEF Release, PInv, IInv, OrderOk
  <2>2. /\ queue' \in Seq(Nat)
        /\ \A m \in DOMAIN queue : m \in DOMAIN queue' /\ queue'[m] = queue[m]
    BY <1>1, <2>1, AppendProperties, LenProperties
  <2>3. QED
    BY <1>3, <1>4, <2>2 DEF PInv, IInv, Ids, Mine
<1>6. ASSUME NEW i, First(queue, jobs, i) PROVE First(queue', jobs', i)
  BY <1>5, <1>6, FirstStays
<1>7. TableStill
  BY <1>2, <1>3, <1>4, <1>6 DEF TableStill, Redoes, Active, Mine
<1>8. QED
  BY <1>7, LeaveStill DEF Release

\* The job of a handler that raised: failed, or waiting for its retry.
LEMMA FailJobStill == ASSUME PInv, FInv, FailJob PROVE FInv'
<1>1. worker.job \in Ids /\ worker.job # 0 /\ Mine \in Job
  BY MineRunning DEF PInv, FailJob, At
<1>2. CASE Retries
  <2>1. ~Redoes(Mine)
    BY <1>1, <1>2 DEF Retries, FInv, Line
  <2>2. /\ Ids' = Ids
        /\ \A i \in Ids : i # worker.job => jobs'[i] = jobs[i]
        /\ jobs'[worker.job] = [Mine EXCEPT !.status = "queued"]
    BY <1>1, <1>2 DEF FailJob, Ids, Mine
  <2>3. /\ jobs'[worker.job].kind = Mine.kind /\ jobs'[worker.job].input = Mine.input
        /\ jobs'[worker.job].revived = Mine.revived
        /\ jobs'[worker.job].status = "queued"
    BY <1>1, <2>2 DEF Job
  <2>4. ASSUME NEW i, First(queue, jobs, i) PROVE First(queue', jobs', i)
    <3>1. /\ \A k \in DOMAIN jobs : jobs'[k].kind = jobs[k].kind
          /\ queue' = queue
      BY <2>2, <2>3 DEF Ids, Mine, FailJob
    <3>2. \A m \in DOMAIN queue : queue[m] \in DOMAIN jobs
      BY DEF PInv, IInv, OrderOk
    <3>3. QED
      BY <2>4, <3>1, <3>2 DEF First
  <2>5. TableStill
    BY <2>1, <2>2, <2>3, <2>4 DEF TableStill, Redoes, Active, Mine
  <2>6. QED
    BY <2>5, LeaveStill DEF FailJob
<1>3. CASE ~Retries
  <2>1. TableStill
    BY <1>1, <1>3, EndStill DEF FailJob, Finish, PInv
  <2>2. QED
    BY <2>1, LeaveStill DEF FailJob
<1>4. QED
  BY <1>2, <1>3

\* The job of a handler that returned.
LEMMA CompleteJobStill == ASSUME PInv, FInv, CompleteJob PROVE FInv'
<1>1. worker.job \in Ids
  BY MineRunning DEF PInv, CompleteJob, At
<1>2. TableStill
  BY <1>1, EndStill DEF CompleteJob, Finish, PInv
<1>3. QED
  BY <1>2, LeaveStill DEF CompleteJob

\* A backoff that is over puts no retranscription anywhere.
LEMMA BackoffExpiresStill == ASSUME PInv, FInv, BackoffExpires PROVE FInv'
<1>1. PICK j \in Ids : queue' = Append(queue, j)
  BY DEF BackoffExpires
<1>2. UNCHANGED <<jobs, art, disk, worker>>
  BY DEF BackoffExpires
<1>3. /\ queue' \in Seq(Nat) /\ OrderOk(jobs, queue)
      /\ \A m \in DOMAIN queue : m \in DOMAIN queue' /\ queue'[m] = queue[m]
  <2>1. j \in Nat /\ queue \in Seq(Nat)
    BY LenProperties DEF PInv, IInv, TableOk, OrderOk, Ids
  <2>2. QED
    BY <1>1, <2>1, AppendProperties, LenProperties DEF PInv, IInv
<1>4. \A i \in Ids : First(queue, jobs, i) => First(queue', jobs', i)
  BY <1>2, <1>3, FirstStays
<1>5. TableStill
  BY <1>2, <1>4 DEF TableStill, Ids, Active
<1>6. worker.job # 0 => worker.job \in Ids
  BY DEF PInv, IInv, Hand
<1>7. QED
  BY <1>2, <1>5, <1>6, StepStill

-----------------------------------------------------------------------------
(* Claiming and recovering *)

\* A retranscription is claimed before any render that came after it, and is
\* as it was when it waited.
LEMMA ClaimStill == ASSUME PInv, FInv, Claim PROVE FInv'
<1> DEFINE h == Head(queue)
<1>1. /\ queue # <<>> /\ queue' = Tail(queue) /\ worker' = [Unemployed("claimed") EXCEPT !.job = h]
      /\ jobs' = [jobs EXCEPT ![h].status = "running", ![h].attempts = @ + 1]
      /\ UNCHANGED <<art, disk>> /\ worker.pc = "idle"
  BY DEF Claim, At
<1>2. h \in Ids /\ jobs[h].status = "queued" /\ jobs[h] \in Job
  BY <1>1, OrderTail, ElementOfSeq, LenProperties DEF PInv, IInv, TableOk, Ids
<1>3. /\ Len(queue) \in Nat /\ Len(queue) # 0 /\ DOMAIN queue = 1..Len(queue) /\ h = queue[1]
      /\ DOMAIN queue' = 1..(Len(queue) - 1)
      /\ \A i \in 1..(Len(queue) - 1) : queue'[i] = queue[i + 1]
  BY <1>1, HeadTailProperties, LenProperties, EmptySeq DEF PInv, IInv, OrderOk
<1> HIDE DEF h
<1>4. /\ Ids' = Ids
      /\ \A i \in Ids : i # h => jobs'[i] = jobs[i]
      /\ jobs'[h] = [jobs[h] EXCEPT !.status = "running", !.attempts = @ + 1]
  BY <1>1, <1>2 DEF Ids
<1>5. /\ jobs'[h].kind = jobs[h].kind /\ jobs'[h].input = jobs[h].input
      /\ jobs'[h].revision = jobs[h].revision /\ jobs'[h].revived = jobs[h].revived
      /\ jobs'[h].status = "running"
  BY <1>2, <1>4 DEF Job
<1>6. worker'.pc = "claimed" /\ worker'.job = h /\ worker'.retry = FALSE
  BY <1>1 DEF Unemployed
<1>12. \A i \in Ids : jobs'[i].kind = jobs[i].kind
  BY <1>4, <1>5
<1>7. \A j \in Ids : jobs[j].status # "running"
  BY <1>1 DEF PInv, IInv, OneRunning, Running, Ids
<1>8. Line'
  <2>1. ASSUME NEW j \in Ids, Redoes(jobs'[j])
        PROVE  /\ "retranscribe" \in Requests
               /\ Active(j)' => \A i \in Ids : jobs'[i].kind = "render"
                                                  => jobs'[i].status # "running"
               /\ jobs'[j].status = "queued" => First(queue', jobs', j)
    <3>1. Redoes(jobs[j])
      BY <1>4, <1>5, <2>1 DEF Redoes
    <3>2. CASE j = h
      BY <1>4, <1>5, <1>7, <2>1, <3>1, <3>2 DEF Redoes, FInv, Line
    <3>3. CASE j # h
      <4>1. "retranscribe" \in Requests /\ jobs'[j] = jobs[j]
        BY <1>4, <3>1, <3>3 DEF FInv, Line
      <4>2. CASE jobs[j].status # "queued"
        BY <1>7, <4>1, <4>2 DEF Active, IsActive
      <4>3. CASE jobs[j].status = "queued"
        <5>1. PICK m \in DOMAIN queue : /\ queue[m] = j
                                        /\ \A n \in DOMAIN queue : n < m =>
                                              jobs[queue[n]].kind # "render"
          BY <3>1, <4>3 DEF FInv, Line, First
        <5>2. m - 1 \in DOMAIN queue' /\ queue'[m - 1] = j
          BY <1>3, <3>3, <5>1
        <5>3. jobs[h].kind # "render"
          BY <1>3, <5>1, <5>2
        <5>4. ASSUME NEW n \in DOMAIN queue', n < m - 1
              PROVE  jobs'[queue'[n]].kind # "render"
          <6>1. n + 1 \in DOMAIN queue /\ n + 1 < m /\ queue'[n] = queue[n + 1]
            BY <1>3, <5>1, <5>4
          <6>2. queue[n + 1] \in Ids
            BY <6>1 DEF PInv, IInv, OrderOk, Ids
          <6>3. QED
            BY <1>12, <5>1, <6>1, <6>2
        <5>5. First(queue', jobs', j)
          BY <5>2, <5>4 DEF First
        <5>6. QED
          BY <1>4, <1>5, <1>7, <4>1, <5>3, <5>5
      <4>4. QED
        BY <4>2, <4>3
    <3>4. QED
      BY <3>2, <3>3
  <2>2. QED
    BY <1>4, <1>6, <2>1 DEF Line
<1>9. Apart'
  <2>1. ASSUME NEW j \in Ids, Redoes(jobs'[j]), Unstaged(j)'
        PROVE  Redoes(jobs[j]) /\ Unstaged(j) /\ jobs'[j].revision = jobs[j].revision
    <3>1. CASE j = h
      BY <1>2, <1>5, <1>6, <2>1, <3>1 DEF Unstaged, Redoes
    <3>2. CASE j # h
      BY <1>4, <1>6, <2>1, <3>2 DEF Unstaged, Redoes
    <3>3. QED
      BY <3>1, <3>2
  <2>2. QED
    BY <1>1, <1>4, <1>6, <2>1 DEF FInv, Apart, Free
<1>10. Stored' /\ SummaryStored'
  BY <1>1, <1>6 DEF FInv, Stored, SummaryStored, At, HasJson, FileAt, SamePath
<1>11. QED
  BY <1>8, <1>9, <1>10 DEF FInv

\* A recovered row keeps what it is about.
LEMMA RevivedRow ==
    ASSUME PInv, NEW j \in Stale, NEW status \in {"queued", "succeeded", "failed"}
    PROVE  /\ j \in Ids /\ jobs[j].status = "running"
           /\ DOMAIN Recovered(j, status) = Ids
           /\ \A i \in Ids : i # j => Recovered(j, status)[i] = jobs[i]
           /\ Recovered(j, status)[j].kind = jobs[j].kind
           /\ Recovered(j, status)[j].input = jobs[j].input
           /\ Recovered(j, status)[j].revision = jobs[j].revision
           /\ Recovered(j, status)[j].revived = TRUE
           /\ Recovered(j, status)[j].status = status
<1>1. j \in Ids /\ jobs[j].status = "running" /\ jobs[j] \in Job /\ status \in JobStatus
  BY RowsTyped DEF Stale, Ids, PInv, IInv, JobStatus
<1> DEFINE closed == Closed(jobs[j], status)
<1>2. /\ closed \in Job /\ closed.kind = jobs[j].kind /\ closed.status = status
      /\ closed.revision = jobs[j].revision /\ closed.input = jobs[j].input
  BY <1>1, ClosedIs
<1>3. Recovered(j, status) = [jobs EXCEPT ![j] = [closed EXCEPT !.revived = TRUE]]
  BY DEF Recovered
<1> HIDE DEF closed
<1>4. QED
  BY <1>1, <1>2, <1>3 DEF Ids, Job

\* A running row that ends, perhaps with a follow-up behind it.
LEMMA EndedStill ==
    ASSUME PInv, NEW j \in Ids, jobs[j].status = "running", Ids \subseteq Ids',
           \A i \in Ids : i # j => jobs'[i] = jobs[i],
           jobs'[j].kind = jobs[j].kind, jobs'[j].input = jobs[j].input,
           jobs'[j].revision = jobs[j].revision, jobs'[j].revived,
           jobs'[j].status \in {"succeeded", "failed"},
           \A i \in Ids' \ Ids : ~Redoes(jobs'[i]) /\ jobs'[i].status = "queued",
           queue' \in Seq(Nat),
           \A m \in DOMAIN queue : m \in DOMAIN queue' /\ queue'[m] = queue[m]
    PROVE  TableStill
<1>1. OrderOk(jobs, queue) /\ \A i \in DOMAIN jobs : jobs'[i].kind = jobs[i].kind
  BY DEF PInv, IInv, Ids
<1>2. ASSUME NEW i, First(queue, jobs, i) PROVE First(queue', jobs', i)
  BY <1>1, <1>2, FirstStays
<1>3. QED
  BY <1>2 DEF TableStill, Redoes, Active, IsActive

\* A row that recovery ends.
LEMMA RecoveredStill ==
    ASSUME PInv, NEW j \in Stale, NEW status \in {"succeeded", "failed"},
           jobs' = Recovered(j, status), queue' = queue
    PROVE  TableStill
<1> DEFINE t == Recovered(j, status)
<1>1. status \in {"queued", "succeeded", "failed"}
  OBVIOUS
<1>2. /\ j \in Ids /\ jobs[j].status = "running" /\ DOMAIN t = Ids
      /\ \A i \in Ids : i # j => t[i] = jobs[i]
      /\ t[j].kind = jobs[j].kind /\ t[j].input = jobs[j].input
      /\ t[j].revision = jobs[j].revision /\ t[j].revived = TRUE /\ t[j].status = status
  BY <1>1, RevivedRow
<1>3. jobs' = t
  OBVIOUS
<1> HIDE DEF t
<1>4. Ids' = Ids /\ queue \in Seq(Nat)
  BY <1>2, <1>3 DEF Ids, PInv, IInv, OrderOk
<1>5. QED
  BY <1>2, <1>3, <1>4, EndedStill

\* .. with a follow-up behind it.
LEMMA CompletedStill ==
    ASSUME PInv, worker.job = 0, NEW j \in Stale, NEW plan, CompletionInserts(plan),
           ApplyCompletion(plan, Recovered(j, "succeeded"))
    PROVE  TableStill
<1> DEFINE t == Recovered(j, "succeeded")
           job == NewJob("summarize", rec.revision, rec.category)
<1>1. /\ j \in Ids /\ jobs[j].status = "running" /\ DOMAIN t = Ids
      /\ \A i \in Ids : i # j => t[i] = jobs[i]
      /\ t[j].kind = jobs[j].kind /\ t[j].input = jobs[j].input
      /\ t[j].revision = jobs[j].revision /\ t[j].revived = TRUE /\ t[j].status = "succeeded"
  BY RevivedRow
<1>2. TableOk(t) /\ Len(t) = Len(jobs)
  BY RecoveredKeeps DEF PInv, JobStatus
<1>3. jobs' = Append(t, job) /\ queue' = Append(queue, Len(jobs) + 1)
  BY DEF ApplyCompletion
<1>4. ~Redoes(job) /\ job.status = "queued"
  BY DEF Redoes, NewJob
<1> HIDE DEF t, job
<1>5. /\ Ids = 1..Len(jobs) /\ Ids' = 1..(Len(jobs) + 1) /\ Len(jobs) \in Nat
      /\ \A i \in Ids : jobs'[i] = t[i]
      /\ jobs'[Len(jobs) + 1] = job
  BY <1>1, <1>2, <1>3, AppendProperties, LenProperties DEF TableOk, Ids
<1>6. \A i \in Ids' \ Ids : jobs'[i] = job
  BY <1>5
<1>7. /\ queue' \in Seq(Nat)
      /\ \A m \in DOMAIN queue : m \in DOMAIN queue' /\ queue'[m] = queue[m]
  <2>1. queue \in Seq(Nat) /\ Len(jobs) + 1 \in Nat
    BY <1>5 DEF PInv, IInv, OrderOk
  <2>2. QED
    BY <1>3, <2>1, AppendProperties, LenProperties
<1>8. /\ \A i \in Ids : i # j => jobs'[i] = jobs[i]
      /\ jobs'[j].kind = jobs[j].kind /\ jobs'[j].input = jobs[j].input
      /\ jobs'[j].revision = jobs[j].revision /\ jobs'[j].revived
      /\ jobs'[j].status \in {"succeeded", "failed"}
      /\ Ids \subseteq Ids'
  BY <1>1, <1>5
<1>9. QED
  BY <1>1, <1>4, <1>6, <1>7, <1>8, EndedStill

\* A retranscription that is put back is put back at the head.
LEMMA RequeuedStill ==
    ASSUME PInv, FInv, worker.job = 0, NEW j \in Stale,
           jobs' = Recovered(j, "queued"), queue' = <<j>> \o queue,
           worker'.job = 0, worker'.pc = "idle", UNCHANGED <<art, disk>>
    PROVE  FInv'
<1> DEFINE t == Recovered(j, "queued")
           q == <<j>> \o queue
<1>1. /\ j \in Ids /\ jobs[j].status = "running" /\ DOMAIN t = Ids
      /\ \A i \in Ids : i # j => t[i] = jobs[i]
      /\ t[j].kind = jobs[j].kind /\ t[j].input = jobs[j].input
      /\ t[j].revision = jobs[j].revision /\ t[j].revived = TRUE /\ t[j].status = "queued"
  BY RevivedRow
<1>2. /\ jobs' = t /\ queue' = q
      /\ queue \in Seq(Nat) /\ j \in Nat
      /\ \A m \in DOMAIN queue : queue[m] \in Ids
  BY RowsTyped, LenProperties, <1>1 DEF PInv, IInv, OrderOk, TableOk, Ids
<1>3. /\ Len(queue) \in Nat /\ DOMAIN queue = 1..Len(queue)
      /\ DOMAIN q = 1..(Len(queue) + 1)
      /\ q[1] = j
      /\ \A m \in 1..Len(queue) : q[m + 1] = queue[m]
  <2>1. <<j>> \in Seq(Nat) /\ Len(<<j>>) = 1 /\ <<j>>[1] = j
    BY <1>2
  <2>2. /\ q \in Seq(Nat) /\ Len(q) = Len(<<j>>) + Len(queue)
        /\ \A i \in 1..(Len(<<j>>) + Len(queue)) :
              q[i] = IF i <= Len(<<j>>) THEN <<j>>[i] ELSE queue[i - Len(<<j>>)]
    BY <1>2, <2>1, ConcatProperties
  <2>3. Len(queue) \in Nat /\ DOMAIN queue = 1..Len(queue) /\ DOMAIN q = 1..Len(q)
    BY <1>2, <2>2, LenProperties
  <2>4. QED
    BY <2>1, <2>2, <2>3
<1> HIDE DEF t, q
<1>4. \A i \in Ids : t[i].kind = jobs[i].kind /\ (Redoes(t[i]) <=> Redoes(jobs[i]))
                       /\ t[i].revision = jobs[i].revision
  BY <1>1 DEF Redoes
<1>5. \A i \in Ids : t[i].status # "running"
  BY <1>1 DEF PInv, IInv, OneRunning, Running, Ids
<1>6. ASSUME NEW i \in Ids, Redoes(t[i]), t[i].status = "queued" PROVE First(q, t, i)
  <2>1. CASE i = j
    BY <1>3, <2>1 DEF First
  <2>2. CASE i # j
    <3>1. Redoes(jobs[i]) /\ jobs[i].status = "queued"
      BY <1>1, <1>6, <2>2
    <3>2. jobs[j].kind # "render"
      BY <1>1, <3>1 DEF FInv, Line, Active, IsActive
    <3>3. PICK m \in DOMAIN queue : /\ queue[m] = i
                                    /\ \A n \in DOMAIN queue : n < m => jobs[queue[n]].kind # "render"
      BY <3>1 DEF FInv, Line, First
    <3>4. m + 1 \in DOMAIN q /\ q[m + 1] = i
      BY <1>3, <3>3
    <3>5. ASSUME NEW n \in DOMAIN q, n < m + 1 PROVE t[q[n]].kind # "render"
      <4>1. CASE n = 1
        BY <1>1, <1>3, <3>2, <4>1
      <4>2. CASE n # 1
        <5>1. n - 1 \in DOMAIN queue /\ n - 1 < m /\ q[n] = queue[n - 1]
          <6>1. n - 1 \in 1..Len(queue) /\ n - 1 < m /\ (n - 1) + 1 = n
            BY <1>3, <3>3, <3>5, <4>2
          <6>2. QED
            BY <1>3, <6>1
        <5>2. QED
          BY <1>2, <1>4, <3>3, <5>1
      <4>3. QED
        BY <4>1, <4>2
    <3>6. QED
      BY <3>4, <3>5 DEF First
  <2>3. QED
    BY <2>1, <2>2
<1>7. Ids' = Ids
  BY <1>1, <1>2 DEF Ids
<1>8. Line'
  BY <1>2, <1>4, <1>5, <1>6, <1>7 DEF FInv, Line
<1>9. Apart'
  <2>1. ASSUME NEW i \in Ids, Redoes(t[i]), Unstaged(i)'
        PROVE  Redoes(jobs[i]) /\ Unstaged(i) /\ t[i].revision = jobs[i].revision
    <3>1. i # j /\ t[i] = jobs[i]
      BY <1>1, <1>2, <2>1 DEF Unstaged
    <3>2. QED
      BY <1>2, <1>4, <2>1, <3>1 DEF Unstaged
  <2>2. QED
    BY <1>2, <1>7, <2>1 DEF FInv, Apart, Free
<1>10. Stored' /\ SummaryStored'
  BY DEF FInv, Stored, SummaryStored, At, HasJson, FileAt, SamePath
<1>11. QED
  BY <1>8, <1>9, <1>10 DEF FInv

\* recover_stale_jobs.
LEMMA RecoverStill == ASSUME PInv, FInv, Recover PROVE FInv'
<1>1. /\ worker.pc = "recovering" /\ worker.job = 0
      /\ worker' = [worker EXCEPT !.pc = "idle"] /\ UNCHANGED <<art, disk>>
  BY DEF Recover, PInv, IInv, Hand
<1>2. worker'.pc = "idle" /\ worker'.job = 0
  BY <1>1 DEF PInv, IInv, Hand, Worker
<1>3. TableStill => FInv'
  BY <1>1, <1>2, StepStill DEF Marked
<1>4. CASE UNCHANGED <<jobs, queue>>
  BY <1>3, <1>4, KeptStill
<1>5. ASSUME NEW j \in Stale, NEW plan, RecoverComplete(j, plan) PROVE FInv'
  <2>1. ApplyCompletion(plan, Recovered(j, "succeeded"))
    BY <1>5 DEF RecoverComplete
  <2>2. CASE CompletionInserts(plan)
    BY <1>1, <1>3, <2>1, <2>2, CompletedStill
  <2>3. CASE ~CompletionInserts(plan)
    BY <1>3, <2>1, <2>3, RecoveredStill DEF ApplyCompletion
  <2>4. QED
    BY <2>2, <2>3
<1>6. ASSUME NEW j \in Stale, NEW plan, RecoverRequeue(j, plan) PROVE FInv'
  BY <1>1, <1>2, <1>6, RequeuedStill DEF RecoverRequeue
<1>7. ASSUME NEW j \in Stale, NEW plan, RecoverFail(j, plan) PROVE FInv'
  BY <1>3, <1>7, RecoveredStill DEF RecoverFail
<1>8. QED
  BY <1>4, <1>5, <1>6, <1>7 DEF Recover

\* The rows of summaries keep their files when one more is registered, whose
\* file is there, and the others' files go.
LEMMA SummaryRegistersStill ==
    ASSUME SummaryStored, NEW new, \E f \in disk.sum : SamePath(f, new),
           art'.sum = SummaryRowsAfter(new), disk'.sum = SummaryFilesAfter(new),
           worker'.pc # "sumRow"
    PROVE  SummaryStored'
<1>1. ASSUME NEW s \in art'.sum PROVE \E f \in disk'.sum : SamePath(f, s)
  <2>1. s.category = new.category /\ (s \in art.sum \/ s = new)
    BY <1>1 DEF SummaryRowsAfter
  <2>2. PICK f \in disk.sum : SamePath(f, s)
    BY <2>1 DEF SummaryStored
  <2>3. \A o \in art.sum : o.category # new.category => ~SamePath(f, o)
    BY <2>1, <2>2 DEF SamePath
  <2>4. QED
    BY <2>2, <2>3 DEF SummaryFilesAfter
<1>2. QED
  BY <1>1 DEF SummaryStored, At

\* reconcile_artifacts: a summary whose row was lost is registered.
LEMMA ReconcileStill == ASSUME PInv, FInv, Reconcile PROVE FInv'
<1>1. /\ worker.pc = "down" /\ worker.job = 0 /\ worker' = [worker EXCEPT !.pc = "recovering"]
      /\ UNCHANGED <<jobs, queue>>
  BY DEF Reconcile, PInv, IInv, Hand
<1>2. worker'.pc = "recovering" /\ worker'.job = 0
  BY <1>1 DEF PInv, IInv, Hand, Worker
<1>3. TableStill
  BY <1>1, KeptStill
<1>4. CASE LostSummaries = {}
  BY <1>1, <1>2, <1>3, <1>4, StepStill DEF Reconcile, Marked
<1>5. CASE LostSummaries # {}
  <2>1. PICK f \in LostSummaries : /\ art'  = [art  EXCEPT !.sum = SummaryRowsAfter(f)]
                                   /\ disk' = [disk EXCEPT !.sum = SummaryFilesAfter(f)]
    BY <1>5 DEF Reconcile
  <2>2. /\ art'.json = art.json /\ art'.sum = SummaryRowsAfter(f)
        /\ disk'.json = disk.json /\ disk'.sum = SummaryFilesAfter(f)
    BY <2>1 DEF PInv, IInv, Files
  <2>3. \E g \in disk.sum : SamePath(g, f)
    BY DEF LostSummaries, SamePath
  <2>4. SummaryStored'
    BY <1>2, <2>2, <2>3, SummaryRegistersStill DEF FInv
  <2>5. QED
    BY <1>2, <1>3, <2>2, <2>4, LineStill, ApartStill, StoredStill DEF FInv, Marked
<1>6. QED
  BY <1>4, <1>5

\* A start that is aborted.
LEMMA RecoverAbortsStill == ASSUME PInv, FInv, RecoverAborts PROVE FInv'
<1>1. worker'.pc = "down" /\ worker'.job = 0
  BY DEF RecoverAborts, PInv, IInv, Hand, Worker
<1>2. QED
  BY <1>1, KeptStill, StepStill DEF RecoverAborts, Marked

-----------------------------------------------------------------------------
(* The first step of a handler *)

\* A handler that goes on without a file.
LEMMA MoveStill ==
    ASSUME PInv, FInv, Busy, TableStill, UNCHANGED <<art, disk>>,
           worker'.job = worker.job, worker'.retry = worker.retry,
           worker'.pc \notin {"claimed", "stage", "commit", "jsonRow", "sumRow"},
           worker'.pc \in {"start", "model"} /\ Redoes(Mine) =>
              Unstaged(worker.job) \/ Free(Mine.revision + 1)
    PROVE  FInv'
<1>1. worker.job \in Ids
  BY Employed DEF PInv, IInv, Busy
<1>2. Line'
  BY <1>1, LineStill DEF FInv
<1>3. ASSUME NEW j \in Ids, Redoes(jobs[j]), Unstaged(j)'
      PROVE  Unstaged(j) \/ Free(jobs[j].revision + 1)
  <2>1. CASE jobs'[j].status = "queued" /\ ~jobs'[j].revived
    BY <1>3, <2>1 DEF Unstaged, TableStill
  <2>2. CASE worker'.job = j /\ worker'.pc \in {"start", "model"}
    BY <1>3, <2>2 DEF Mine
  <2>3. QED
    BY <1>3, <2>1, <2>2 DEF Unstaged
<1>4. Apart'
  BY <1>1, <1>3, ApartMoves DEF FInv
<1>5. Stored' /\ SummaryStored'
  BY StoredStill, SummaryStill DEF FInv
<1>6. QED
  BY <1>2, <1>4, <1>5 DEF FInv

\* A plan that is completed.
LEMMA ResumeCompleteStill ==
    ASSUME PInv, FInv, UNCHANGED <<art, disk>>, NEW plan, ResumeComplete(plan)
    PROVE  FInv'
<1>1. ~Redoes(NewJob("summarize", rec.revision, rec.category))
      /\ NewJob("summarize", rec.revision, rec.category).status = "queued"
  BY DEF Redoes, NewJob
<1>2. CASE CompletionInserts(plan)
  <2>1. Insert(NewJob("summarize", rec.revision, rec.category))
    BY <1>2 DEF ResumeComplete, ApplyCompletion, Insert
  <2>2. QED
    BY <1>1, <2>1, InsertStill, OverStill DEF ResumeComplete, PInv
<1>3. CASE ~CompletionInserts(plan)
  BY <1>3, KeptStill, OverStill DEF ResumeComplete, ApplyCompletion
<1>4. QED
  BY <1>2, <1>3

\* .. or refused.
LEMMA ResumeRefusedStill ==
    ASSUME PInv, FInv, UNCHANGED <<art, disk>>, NEW plan, ResumeRefused(plan)
    PROVE  FInv'
  BY KeptStill, LeaveStill DEF ResumeRefused

\* A retranscription that recovery lets begin again has not committed: there is
\* no document at its target.
LEMMA RestartsFree ==
    ASSUME PInv, NEW j \in Ids, Redoes(jobs[j]), NEW sourceOk,
           Inspect(j, sourceOk).action = "restart"
    PROVE  Free(jobs[j].revision + 1)
<1>1. jobs[j].kind = "transcribe" /\ Retranscription(j)
  BY DEF Redoes, Retranscription
<1>2. TranscribePlan(j, rec.revision, sourceOk).action = "restart"
  BY <1>1 DEF Inspect, Stop, Plan
<1>3. rec.revision = jobs[j].revision
  BY <1>1, <1>2 DEF TranscribePlan, Stop, Done, Resume, Plan
<1>4. rec.revision \in Nat
  BY Revisions
<1>5. QED
  BY <1>3, <1>4 DEF Free, PInv, Registered

\* _resume_recovered.
LEMMA ResumeRecoveredStill == ASSUME PInv, FInv, ResumeRecovered PROVE FInv'
<1>1. /\ worker.pc = "claimed" /\ Busy /\ worker \in Worker /\ worker.job \in Ids
      /\ UNCHANGED <<art, disk>>
  BY Employed DEF ResumeRecovered, At, Busy, PInv, IInv, Hand
<1>2. PICK sourceOk \in SourceOutcomes :
         LET plan == Inspect(worker.job, sourceOk)
         IN  ResumeComplete(plan) \/ ResumeRefused(plan) \/ ResumeHalfway(plan) \/ StartOver(plan)
  BY DEF ResumeRecovered
<1> DEFINE plan == Inspect(worker.job, sourceOk)
<1>3. plan.action = "restart" /\ Redoes(Mine) => Free(Mine.revision + 1)
  BY <1>1, RestartsFree DEF Mine
<1>4. ResumeComplete(plan) \/ ResumeRefused(plan) \/ ResumeHalfway(plan) \/ StartOver(plan)
  BY <1>2
<1> HIDE DEF plan
<1>5. CASE ResumeHalfway(plan)
  <2>1. worker'.job = worker.job /\ worker'.retry = worker.retry /\ worker'.pc \in {"clips", "jsonFile"}
    BY <1>1, <1>5 DEF ResumeHalfway, Worker
  <2>2. TableStill
    BY <1>5, KeptStill DEF ResumeHalfway
  <2>3. QED
    BY <1>1, <2>1, <2>2, MoveStill
<1>6. CASE StartOver(plan)
  <2>1. worker'.job = worker.job /\ worker'.retry = worker.retry /\ worker'.pc = "start"
    BY <1>1, <1>6 DEF StartOver, Goto, Worker
  <2>2. TableStill
    BY <1>6, KeptStill DEF StartOver
  <2>3. QED
    BY <1>1, <1>3, <1>6, <2>1, <2>2, MoveStill DEF StartOver
<1>7. QED
  BY <1>1, <1>4, <1>5, <1>6, ResumeCompleteStill, ResumeRefusedStill

\* The ends of resumed handlers.
LEMMA SettleStill == ASSUME PInv, FInv, SettleTranscribe \/ SettleClassify PROVE FInv'
<1>1. CASE SettleTranscribe
  <2>1. TableStill
    <3>1. ~Redoes(NewJob("finalize_speakers", worker.doc.revision, "current"))
          /\ NewJob("finalize_speakers", worker.doc.revision, "current").status = "queued"
      BY DEF Redoes, NewJob
    <3>2. QED
      BY <1>1, <3>1, InsertStill, KeptStill DEF SettleTranscribe, PInv
  <2>2. QED
    BY <1>1, <2>1, OverStill DEF SettleTranscribe
<1>2. CASE SettleClassify
  BY <1>2, ResumeCompleteStill, ResumeRefusedStill, KeptStill, OverStill DEF SettleClassify
<1>3. QED
  BY <1>1, <1>2

\* A handler that may begin.
LEMMA StartingStill ==
    ASSUME PInv, FInv, Starting, UNCHANGED <<jobs, queue, art, disk>>,
           worker'.job = worker.job, worker'.retry = worker.retry,
           worker'.pc \in {"model", "jsonFile"}
    PROVE  FInv'
<1>1. Busy /\ Unstaged(worker.job)
  BY DEF Starting, At, Busy, Unstaged, Mine
<1>2. QED
  BY <1>1, KeptStill, MoveStill

\* The beginnings of the handlers.
LEMMA StartStill ==
    ASSUME Undelayed, PInv, FInv,
           \/ StartTranscribe \/ StartClassify \/ StartFinalize
           \/ StartSummarize \/ StartRender
    PROVE  FInv'
<1>1. /\ Starting /\ Busy /\ worker \in Worker /\ UNCHANGED <<jobs, queue, art, disk>>
  BY DEF StartTranscribe, StartClassify, StartFinalize, StartSummarize, StartRender,
         Starting, At, Busy, PInv, IInv, Hand
<1>2. ASSUME NEW pc \in {"model", "jsonFile"}, NEW doc, Proceed(pc, doc) PROVE FInv'
  <2>1. worker'.job = worker.job /\ worker'.retry = worker.retry /\ worker'.pc = pc
    BY <1>1, <1>2 DEF Proceed, Worker
  <2>2. QED
    BY <1>1, <2>1, StartingStill
<1>3. ASSUME Return \/ Raise(FALSE) PROVE FInv'
  BY <1>1, <1>3, KeptStill, OverStill
<1>4. ASSUME NEW retryable, Raise(retryable), ~Doing("transcribe") PROVE FInv'
  BY <1>1, <1>4, RetryStill
<1>5. CASE StartTranscribe
  BY <1>2, <1>3, <1>5 DEF StartTranscribe
<1>6. CASE StartClassify
  BY <1>2, <1>3, <1>4, <1>6 DEF StartClassify, Doing
<1>7. CASE StartFinalize
  BY <1>2, <1>3, <1>7 DEF StartFinalize
<1>8. CASE StartSummarize
  BY <1>2, <1>3, <1>4, <1>8 DEF StartSummarize, Doing
<1>9. CASE StartRender
  BY <1>2, <1>3, <1>4, <1>9 DEF StartRender, Doing
<1>10. QED
  BY <1>5, <1>6, <1>7, <1>8, <1>9

\* What the adapters answer.
LEMMA AnsweredStill ==
    ASSUME PInv, FInv, Classified \/ Summarized \/ Embedded
    PROVE  FInv'
<1>1. /\ Busy /\ worker \in Worker /\ UNCHANGED <<jobs, queue, art, disk>>
  BY DEF Classified, Summarized, Embedded, At, Busy, PInv, IInv, Hand
<1>2. /\ worker'.job = worker.job /\ worker'.retry = worker.retry
      /\ worker'.pc \in {"jsonFile", "sumFile", "match"}
  BY <1>1 DEF Classified, Summarized, Embedded, Goto, Worker
<1>3. QED
  BY <1>1, <1>2, KeptStill, MoveStill

\* A transcription, or a retranscription, which is still to be staged.
LEMMA TranscribedStill == ASSUME PInv, FInv, Transcribed PROVE FInv'
<1>1. /\ worker.pc = "model" /\ Busy /\ worker \in Worker /\ worker.job \in Ids
      /\ Mine.kind = "transcribe" /\ UNCHANGED <<jobs, queue, art, disk>>
  BY Employed DEF Transcribed, At, Busy, Doing, PInv, IInv, Hand
<1>2. TableStill
  BY <1>1, KeptStill
<1>3. CASE Retranscription(worker.job)
  <2>1. worker'.job = worker.job /\ worker'.retry = worker.retry /\ worker'.pc = "stage"
    BY <1>1, <1>3 DEF Transcribed, Worker
  <2>2. Redoes(Mine)
    BY <1>3 DEF Redoes, Retranscription, Mine
  <2>3. \A j \in Ids : Unstaged(j)' => Unstaged(j)
    BY <1>1, <2>1 DEF Unstaged
  <2>4. Line' /\ Apart'
    BY <1>1, <1>2, <2>1, <2>2, <2>3, LineStill, ApartMoves DEF FInv
  <2>5. Stored' /\ SummaryStored'
    BY <1>1, <1>2, <2>1, StoredStill, SummaryStill DEF FInv
  <2>6. QED
    BY <2>4, <2>5 DEF FInv
<1>4. CASE ~Retranscription(worker.job)
  <2>1. worker'.job = worker.job /\ worker'.retry = worker.retry /\ worker'.pc = "jsonFile"
    BY <1>1, <1>4 DEF Transcribed, Worker
  <2>2. QED
    BY <1>1, <1>2, <2>1, MoveStill
<1>5. QED
  BY <1>3, <1>4

-----------------------------------------------------------------------------
(* Writing and registering documents *)

\* While a handler writes or registers no retranscription may stage, unless it
\* waits.
LEMMA UnstagedWaits ==
    ASSUME PInv, TableStill, Busy, worker'.job = worker.job,
           worker'.pc \notin {"claimed", "start", "model", "stage", "commit"},
           NEW j \in Ids, Unstaged(j)'
    PROVE  \/ jobs[j].status = "queued" /\ ~jobs[j].revived
           \/ ~Redoes(jobs[j])
  BY DEF Unstaged, TableStill

\* transcript.json is replaced: every registered transcript has a file, and
\* so has the one about to be registered.
LEMMA JsonFileStays ==
    ASSUME PInv, FInv, worker.pc = "jsonFile", disk' = JsonWritten, art' = art,
           worker'.pc # "commit", worker'.pc = "jsonRow" => JsonPath' = JsonPath
    PROVE  Stored' /\ disk'.sum = disk.sum
<1>1. worker.doc \in Transcript /\ JsonPath \in Path /\ Files
  BY WrittenDocument DEF PInv
<1>2. worker.doc # None
  BY <1>1, AbsenceAssumption
<1>3. /\ disk'.sum = disk.sum
      /\ \A p \in Path : disk'.json[p] = IF p = JsonPath THEN worker.doc ELSE disk.json[p]
  BY <1>1 DEF Files, JsonWritten
<1>4. ASSUME NEW r \in Revision, HasJson(r) PROVE FileAt(r)' # None
  <2>1. art.json[r].path \in Path
    BY <1>1, <1>4 DEF Files, HasJson, JsonRow
  <2>2. QED
    BY <1>2, <1>3, <1>4, <2>1 DEF FInv, Stored, FileAt
<1>5. disk'.json[JsonPath] # None
  BY <1>1, <1>2, <1>3
<1>6. QED
  BY <1>3, <1>4, <1>5 DEF Stored, HasJson, At

\* The job that replaced it.
LEMMA WriteJsonStill == ASSUME PInv, FInv, WriteJson PROVE FInv'
<1>1. /\ worker.pc = "jsonFile" /\ Busy /\ worker \in Worker /\ worker.job \in Ids
      /\ disk' = JsonWritten /\ UNCHANGED <<jobs, queue, art>>
  BY Employed DEF WriteJson, At, Busy, PInv, IInv, Hand
<1>2. /\ worker'.job = worker.job /\ worker'.retry = worker.retry /\ worker'.pc = "jsonRow"
      /\ worker'.doc = worker.doc
  BY <1>1 DEF WriteJson, Goto, Worker
<1>3. TableStill
  BY <1>1, KeptStill
<1>4. \A j \in Ids : Unstaged(j)' => Unstaged(j)
  BY <1>1, <1>2 DEF Unstaged
<1>5. Line' /\ Apart'
  BY <1>1, <1>2, <1>3, <1>4, LineStill, ApartMoves DEF FInv
<1>6. JsonPath' = JsonPath
  BY <1>1, <1>2 DEF JsonPath, Doing, Mine
<1>7. Stored' /\ disk'.sum = disk.sum
  BY <1>1, <1>2, <1>6, JsonFileStays
<1>8. SummaryStored'
  BY <1>1, <1>2, <1>7, SummaryStill DEF FInv
<1>9. QED
  BY <1>5, <1>7, <1>8 DEF FInv

\* .. and its row written, which is the only one of its revision.
LEMMA RegisterTranscriptStill == ASSUME PInv, FInv, RegisterTranscript PROVE FInv'
<1>1. /\ worker.pc = "jsonRow" /\ Busy /\ worker \in Worker /\ worker.job \in Ids
      /\ worker.doc \in Transcript /\ worker.doc.revision \in Revision /\ JsonPath \in Path
      /\ Files /\ RegisterJson(JsonPath, worker.doc) /\ UNCHANGED <<jobs, queue, disk>>
  BY WrittenDocument, Employed DEF RegisterTranscript, At, Busy, PInv, IInv
<1>2. /\ worker'.job = worker.job /\ worker'.retry = worker.retry
      /\ worker'.pc \in {"clips", "mdFile"}
  BY <1>1 DEF RegisterTranscript, Goto, Worker
<1> DEFINE row == [path |-> JsonPath, content |-> worker.doc]
<1>3. row.path = JsonPath
  OBVIOUS
<1>4. art' = [art EXCEPT !.json[worker.doc.revision] = row]
  BY <1>1 DEF RegisterJson
<1> HIDE DEF row
<1>5. /\ art'.sum = art.sum
      /\ \A r \in Revision : art'.json[r] = IF r = worker.doc.revision THEN row ELSE art.json[r]
  BY <1>1, <1>4 DEF Files
<1>6. TableStill
  BY <1>1, KeptStill
<1>7. Line'
  BY <1>1, <1>2, <1>6, LineStill DEF FInv
<1>8. ASSUME NEW j \in Ids, Redoes(jobs[j]), Unstaged(j)'
      PROVE  Free(jobs[j].revision + 1)'
  <2>1. jobs[j].status = "queued" /\ ~jobs[j].revived
    BY <1>2, <1>6, <1>1, <1>8, UnstagedWaits
  <2>2. Free(jobs[j].revision + 1)
    BY <1>8, <2>1 DEF FInv, Apart, Unstaged
  <2>3. Active(j) /\ Mine.status = "running"
    BY <1>1, <2>1, MineRunning DEF Active, IsActive, PInv, Busy
  <2>4. ~Doing("render")
    BY <1>1, <1>8, <2>3 DEF FInv, Line, Doing, Mine
  <2>5. row.path = 0
    BY <1>3, <2>4 DEF JsonPath
  <2>6. 0 \notin Revision
    BY DEF Revision
  <2>7. QED
    BY <1>1, <1>5, <2>2, <2>5, <2>6 DEF Free
<1>9. Apart'
  <2>1. \A r \in Revision : art'.json[r] # None => art'.json[r].path \in {0, r}
    BY <1>3, <1>5 DEF FInv, Apart, JsonPath
  <2>2. Ids' = Ids /\ jobs' = jobs
    BY <1>1 DEF Ids
  <2>3. worker'.pc \notin {"stage", "commit"}
    BY <1>2
  <2>4. \A j \in Ids' : Redoes(jobs'[j]) /\ Unstaged(j)' => Free(jobs[j].revision + 1)'
    BY <1>8, <2>2
  <2>5. QED
    BY <2>1, <2>3, <2>4 DEF Apart
<1>10. Stored'
  <2>1. disk.json[JsonPath] # None
    BY <1>1 DEF FInv, Stored, At
  <2>2. \A r \in Revision : art'.json[r] # None => disk.json[art'.json[r].path] # None
    BY <1>3, <1>5, <2>1 DEF FInv, Stored, HasJson, FileAt
  <2>3. QED
    BY <1>1, <1>2, <2>2 DEF Stored, HasJson, FileAt, At
<1>11. SummaryStored'
  BY <1>1, <1>2, <1>5, SummaryStill DEF FInv
<1>12. QED
  BY <1>7, <1>9, <1>10, <1>11 DEF FInv

\* The Markdown document and the clips have no part in it.
LEMMA MarkdownStill == ASSUME PInv, FInv, WriteMarkdown \/ RegisterMarkdown PROVE FInv'
<1>1. /\ Busy /\ worker \in Worker /\ worker.job \in Ids /\ Files /\ UNCHANGED <<jobs, queue>>
  BY Employed DEF WriteMarkdown, RegisterMarkdown, At, Busy, PInv, IInv, Hand
<1>2. /\ worker'.job = worker.job /\ worker'.retry = worker.retry
      /\ worker'.pc \in {"mdRow", "settle", "follow"}
  BY <1>1 DEF WriteMarkdown, RegisterMarkdown, Goto, Worker
<1>3. /\ art'.json = art.json /\ art'.sum = art.sum
      /\ disk'.json = disk.json /\ disk'.sum = disk.sum
  BY <1>1 DEF WriteMarkdown, RegisterMarkdown, MarkdownWritten, Files
<1>4. TableStill
  BY <1>1, KeptStill
<1>5. QED
  BY <1>1, <1>2, <1>3, <1>4, LineStill, ApartStill, StoredStill, SummaryStill DEF FInv, Marked

\* Cutting the clips changes no document and no job but the one that runs.
LEMMA ClipsStill == ASSUME PInv, FInv, CutClips \/ RegisterClips PROVE FInv'
  BY KeptStill, GotoStill, OverStill DEF CutClips, RegisterClips, Marked

-----------------------------------------------------------------------------
(* commit_retranscription *)

\* The document is staged.
LEMMA StageRetranscriptionStill ==
    ASSUME PInv, FInv, StageRetranscription
    PROVE  FInv'
<1>1. /\ worker.pc = "stage" /\ Busy /\ worker \in Worker /\ worker.job \in Ids
      /\ worker.doc \in Transcript /\ worker.doc.revision \in Path /\ Files
      /\ UNCHANGED <<jobs, queue, art>>
  BY WrittenDocument, Employed DEF StageRetranscription, At, Busy, PInv, IInv
<1>2. TableStill
  BY <1>1, KeptStill
<1>3. CASE HistoryAvailable(Mine.revision)
  <2>1. /\ worker'.job = worker.job /\ worker'.retry = worker.retry /\ worker'.pc = "commit"
        /\ worker'.doc = worker.doc
    BY <1>1, <1>3 DEF StageRetranscription, Goto, Worker
  <2>2. /\ disk'.sum = disk.sum
        /\ \A p \in Path : disk'.json[p] = IF p = worker.doc.revision THEN worker.doc
                                           ELSE disk.json[p]
    BY <1>1, <1>3 DEF StageRetranscription, Files
  <2>3. worker.doc # None
    BY <1>1, AbsenceAssumption
  <2>4. Redoes(Mine) /\ \A j \in Ids : Unstaged(j)' => Unstaged(j)
    BY <1>1, <2>1 DEF Unstaged, FInv, Apart
  <2>5. Line' /\ Apart'
    BY <1>1, <1>2, <2>1, <2>4, LineStill, ApartMoves DEF FInv
  <2>6. Stored'
    <3>1. ASSUME NEW r \in Revision, HasJson(r) PROVE FileAt(r)' # None
      <4>1. art.json[r].path \in Path
        BY <1>1, <3>1 DEF Files, HasJson, JsonRow
      <4>2. QED
        BY <1>1, <2>2, <2>3, <3>1, <4>1 DEF FInv, Stored, FileAt
    <3>2. QED
      BY <1>1, <2>1, <2>2, <2>3, <3>1 DEF Stored, HasJson, At
  <2>7. SummaryStored'
    BY <1>1, <2>1, <2>2, SummaryStill DEF FInv
  <2>8. QED
    BY <2>5, <2>6, <2>7 DEF FInv
<1>4. CASE ~HistoryAvailable(Mine.revision)
  BY <1>1, <1>2, <1>4, OverStill DEF StageRetranscription
<1>5. QED
  BY <1>3, <1>4

\* .. and registered: no other retranscription may come.
LEMMA CommitRetranscriptionStill ==
    ASSUME PInv, FInv, CommitRetranscription
    PROVE  FInv'
<1>1. /\ worker.pc = "commit" /\ Busy /\ worker \in Worker /\ worker.job \in Ids
      /\ worker.doc \in Transcript /\ worker.doc.revision \in Revision
      /\ worker.doc.revision \in Path /\ Files
      /\ RegisterJson(worker.doc.revision, worker.doc)
      /\ Insert(NewJob("finalize_speakers", worker.doc.revision, "current"))
      /\ disk' = disk
  BY WrittenDocument, Employed DEF CommitRetranscription, At, Busy, PInv, IInv
<1>2. /\ worker'.job = worker.job /\ worker'.retry = worker.retry /\ worker'.pc = "clips"
  BY <1>1 DEF CommitRetranscription, Goto, Worker
<1> DEFINE row == [path |-> worker.doc.revision, content |-> worker.doc]
<1>3. row.path = worker.doc.revision
  OBVIOUS
<1>4. art' = [art EXCEPT !.json[worker.doc.revision] = row]
  BY <1>1 DEF RegisterJson
<1> HIDE DEF row
<1>5. /\ art'.sum = art.sum
      /\ \A r \in Revision : art'.json[r] = IF r = worker.doc.revision THEN row ELSE art.json[r]
  BY <1>1, <1>4 DEF Files
<1>6. TableStill
  <2>1. ~Redoes(NewJob("finalize_speakers", worker.doc.revision, "current"))
        /\ NewJob("finalize_speakers", worker.doc.revision, "current").status = "queued"
    BY DEF Redoes, NewJob
  <2>2. QED
    BY <1>1, <2>1, InsertStill DEF PInv
<1>7. Line'
  BY <1>1, <1>2, <1>6, LineStill DEF FInv
<1>8. ASSUME NEW j \in Ids', Redoes(jobs'[j]), Unstaged(j)' PROVE FALSE
  <2>1. j \in Ids /\ Redoes(jobs[j])
    BY <1>8, <1>6 DEF TableStill
  <2>2. jobs[j].status = "queued"
    BY <1>1, <1>2, <1>6, <1>8, <2>1, UnstagedWaits
  <2>3. Mine.status = "running" /\ Mine.kind = "transcribe" /\ jobs[j].kind = "transcribe"
    BY <1>1, <2>1, MineRunning DEF PInv, FInv, Apart, Redoes, Busy
  <2>4. j = worker.job
    BY <1>1, <2>1, <2>2, <2>3 DEF PInv, Tabled, SoleActive, IsActive, Mine, Ids
  <2>5. QED
    BY <2>2, <2>3, <2>4 DEF Mine
<1>9. Apart'
  <2>1. \A r \in Revision : art'.json[r] # None => art'.json[r].path \in {0, r}
    BY <1>3, <1>5 DEF FInv, Apart
  <2>2. QED
    BY <1>2, <1>8, <2>1 DEF Apart
<1>10. Stored'
  <2>1. disk.json[worker.doc.revision] # None
    BY <1>1 DEF FInv, Stored, At
  <2>2. \A r \in Revision : art'.json[r] # None => disk.json[art'.json[r].path] # None
    BY <1>3, <1>5, <2>1 DEF FInv, Stored, HasJson, FileAt
  <2>3. QED
    BY <1>1, <1>2, <2>2 DEF Stored, HasJson, FileAt, At
<1>11. SummaryStored'
  BY <1>1, <1>2, <1>5, SummaryStill DEF FInv
<1>12. QED
  BY <1>7, <1>9, <1>10, <1>11 DEF FInv

\* .. or removed: it was nobody else's.
LEMMA AbandonRetranscriptionStill ==
    ASSUME PInv, FInv, AbandonRetranscription
    PROVE  FInv'
<1>1. /\ worker.pc = "commit" /\ Busy /\ worker \in Worker /\ worker.job \in Ids
      /\ worker.doc.revision \in Revision /\ worker.doc.revision \in Path /\ Files
      /\ disk' = [disk EXCEPT !.json[worker.doc.revision] = None]
      /\ Raise(FALSE) /\ UNCHANGED <<jobs, queue, art>>
  BY WrittenDocument, Employed DEF AbandonRetranscription, At, Busy, PInv, IInv
<1>2. worker'.pc \notin Marked /\ worker'.retry = FALSE
  BY <1>1 DEF Raise, Unemployed, Marked
<1>3. TableStill
  BY <1>1, KeptStill
<1>4. Free(worker.doc.revision)
  BY <1>1 DEF PInv, Knows, Ahead, FInv, Apart, Unstaged, Mine
<1>5. /\ disk'.sum = disk.sum
      /\ \A p \in Path : p # worker.doc.revision => disk'.json[p] = disk.json[p]
  BY <1>1 DEF Files
<1>6. Stored'
  <2>1. ASSUME NEW r \in Revision, HasJson(r) PROVE FileAt(r)' # None
    <3>1. art.json[r].path \in Path /\ art.json[r].path \in {0, r}
      BY <1>1, <2>1 DEF Files, HasJson, JsonRow, FInv, Apart
    <3>2. 0 \notin Revision
      BY DEF Revision
    <3>3. art.json[r].path # worker.doc.revision
      BY <1>1, <1>4, <2>1, <3>1, <3>2 DEF Free, HasJson
    <3>4. QED
      BY <1>1, <1>5, <2>1, <3>1, <3>3 DEF FInv, Stored, FileAt
  <2>2. QED
    BY <1>1, <1>2, <2>1 DEF Stored, HasJson, At, Marked
<1>7. Line' /\ Apart' /\ SummaryStored'
  BY <1>1, <1>2, <1>3, <1>5, LineStill, ApartStill, SummaryStill DEF FInv, Marked
<1>8. QED
  BY <1>6, <1>7 DEF FInv

-----------------------------------------------------------------------------
(* The ends of the handlers *)

\* An insert by a handler that is over or goes on without files.
LEMMA NewJobStill ==
    ASSUME PInv, NEW kind, kind # "transcribe", NEW revision, NEW input,
           Insert(NewJob(kind, revision, input))
    PROVE  TableStill
<1>1. ~Redoes(NewJob(kind, revision, input)) /\ NewJob(kind, revision, input).status = "queued"
  BY DEF Redoes, NewJob
<1>2. QED
  BY <1>1, InsertStill DEF PInv

\* finalize_speakers: the speakers that are kept, and those that are matched.
LEMMA MatchStill == ASSUME PInv, FInv, KeepSpeakers \/ AutoMatch PROVE FInv'
<1>1. /\ Busy /\ worker \in Worker /\ UNCHANGED <<art, disk>>
  BY DEF KeepSpeakers, AutoMatch, At, Busy, PInv, IInv, Hand
<1>2. CASE KeepSpeakers
  BY <1>2, KeptStill, OverStill, GotoStill DEF KeepSpeakers, Marked
<1>3. CASE AutoMatch /\ Conflicts("render")
  BY <1>3, KeptStill, OverStill DEF AutoMatch
<1>4. CASE AutoMatch /\ ~Conflicts("render")
  <2>1. /\ Insert(NewJob("render", rec.revision + 1, "speaker-auto-match-v1"))
        /\ worker'.job = worker.job /\ worker'.retry = worker.retry /\ worker'.pc = "follow"
    BY <1>1, <1>4 DEF AutoMatch, Worker
  <2>2. TableStill
    BY <2>1, NewJobStill
  <2>3. QED
    BY <1>1, <2>1, <2>2, MoveStill
<1>5. QED
  BY <1>2, <1>3, <1>4

\* transition_and_enqueue of another job.
LEMMA TransitionAndEnqueueStill ==
    ASSUME PInv, FInv, UNCHANGED <<art, disk>>,
           NEW target, NEW kind, kind # "transcribe", NEW revision, NEW input,
           TransitionAndEnqueue(target, kind, revision, input)
    PROVE  FInv'
  BY EnqueueStill, KeptStill, OverStill DEF TransitionAndEnqueue, PInv

\* The follow-up jobs.
LEMMA FollowStill ==
    ASSUME PInv, FInv,
           FollowTranscribe \/ FollowFinalize \/ FollowClassify \/ FollowRender
    PROVE  FInv'
<1>1. UNCHANGED <<art, disk>>
  BY DEF FollowTranscribe, FollowFinalize, FollowClassify, FollowRender
<1>2. CASE FollowTranscribe
  BY <1>1, <1>2, EnqueueStill, KeptStill, OverStill DEF FollowTranscribe, PInv
<1>3. CASE FollowFinalize
  BY <1>1, <1>3, TransitionAndEnqueueStill, KeptStill, OverStill DEF FollowFinalize
<1>4. CASE FollowClassify
  BY <1>1, <1>4, TransitionAndEnqueueStill, KeptStill, OverStill, GotoStill
     DEF FollowClassify, Marked
<1>5. CASE FollowRender
  <2>1. CASE UNCHANGED <<jobs, queue>> /\ (Return \/ Raise(FALSE))
    BY <1>1, <2>1, KeptStill, OverStill
  <2>2. CASE /\ Enqueue("summarize", worker.seen.revision, worker.seen.category)
             /\ Return \/ Goto("resummarize")
    BY <1>1, <2>2, EnqueueStill, OverStill, GotoStill DEF Marked, PInv
  <2>3. QED
    BY <1>5, <2>1, <2>2 DEF FollowRender
<1>6. QED
  BY <1>2, <1>3, <1>4, <1>5

\* The last transition, and the recording that fails.
LEMMA LastStill == ASSUME PInv, FInv, LastTransition \/ MarkFailed PROVE FInv'
<1>1. CASE LastTransition
  BY <1>1, KeptStill, OverStill DEF LastTransition
<1>2. CASE MarkFailed
  BY <1>2, KeptStill, GotoStill DEF MarkFailed, Marked
<1>3. QED
  BY <1>1, <1>2

\* A summary's file is replaced: every registered summary has a file at its
\* path, and so has the new one.
LEMMA SummaryFileStays ==
    ASSUME PInv, FInv, worker.pc = "sumFile", disk' = SummaryWritten
    PROVE  /\ disk'.json = disk.json
           /\ NewSummary \in disk'.sum
           /\ \A s \in art.sum : \E f \in disk'.sum : SamePath(f, s)
<1>1. Files
  BY DEF PInv, IInv
<1>2. disk'.json = disk.json /\ disk'.sum = SummaryFileWritten(NewSummary)
  BY <1>1 DEF Files, SummaryWritten
<1>3. NewSummary \in disk'.sum
  BY <1>2 DEF SummaryFileWritten
<1>4. ASSUME NEW s \in art.sum PROVE \E f \in disk'.sum : SamePath(f, s)
  <2>1. PICK f \in disk.sum : SamePath(f, s)
    BY DEF FInv, SummaryStored
  <2>2. CASE SamePath(f, NewSummary)
    BY <1>3, <2>1, <2>2 DEF SamePath
  <2>3. CASE ~SamePath(f, NewSummary)
    BY <1>2, <2>1, <2>3 DEF SummaryFileWritten
  <2>4. QED
    BY <2>2, <2>3
<1>5. QED
  BY <1>2, <1>3, <1>4

\* write_summary_artifacts, up to its transaction.
LEMMA WriteSummaryStill == ASSUME PInv, FInv, WriteSummary PROVE FInv'
<1>1. /\ worker.pc = "sumFile" /\ Busy /\ worker \in Worker /\ worker.job \in Ids
      /\ disk' = SummaryWritten /\ UNCHANGED <<jobs, queue, art>>
  BY Employed DEF WriteSummary, At, Busy, PInv, IInv, Hand
<1>2. /\ worker'.job = worker.job /\ worker'.retry = worker.retry /\ worker'.pc = "sumRow"
      /\ worker'.seen = worker.seen
  BY <1>1 DEF WriteSummary, Goto, Worker
<1>3. /\ disk'.json = disk.json /\ NewSummary \in disk'.sum
      /\ \A s \in art.sum : \E f \in disk'.sum : SamePath(f, s)
  BY <1>1, SummaryFileStays
<1>4. TableStill
  BY <1>1, KeptStill
<1>5. \A j \in Ids : Unstaged(j)' => Unstaged(j)
  BY <1>1, <1>2 DEF Unstaged
<1>6. Line' /\ Apart' /\ Stored'
  BY <1>1, <1>2, <1>3, <1>4, <1>5, LineStill, ApartMoves, StoredStill DEF FInv
<1>7. NewSummary' = NewSummary
  BY <1>2 DEF NewSummary
<1>8. SummaryStored'
  BY <1>1, <1>3, <1>7 DEF SummaryStored, SamePath
<1>9. QED
  BY <1>6, <1>8 DEF FInv

\* .. which is then registered.
LEMMA RegisterSummaryStill == ASSUME PInv, FInv, RegisterSummary PROVE FInv'
<1>1. /\ worker.pc = "sumRow" /\ Busy /\ worker \in Worker /\ worker.job \in Ids /\ Files
      /\ art'  = [art  EXCEPT !.sum = SummaryRowsAfter(NewSummary)]
      /\ disk' = [disk EXCEPT !.sum = SummaryFilesAfter(NewSummary)]
      /\ UNCHANGED <<jobs, queue>>
  BY SummaryToWrite, Employed DEF RegisterSummary, At, Busy, PInv, IInv
<1>2. /\ art'.json = art.json /\ art'.sum = SummaryRowsAfter(NewSummary)
      /\ disk'.json = disk.json /\ disk'.sum = SummaryFilesAfter(NewSummary)
  BY <1>1 DEF Files
<1>3. /\ worker'.pc \notin Marked
      /\ worker'.job = worker.job /\ (worker'.retry = worker.retry \/ worker'.retry = FALSE)
  BY <1>1 DEF RegisterSummary, Return, Goto, Unemployed, Worker, Marked
<1>4. \E f \in disk.sum : SamePath(f, NewSummary)
  BY <1>1 DEF FInv, SummaryStored, At
<1>5. SummaryStored'
  BY <1>2, <1>3, <1>4, SummaryRegistersStill DEF FInv, Marked
<1>6. TableStill
  BY <1>1, KeptStill
<1>7. QED
  BY <1>1, <1>2, <1>3, <1>5, <1>6, LineStill, ApartStill, StoredStill DEF FInv, Marked

-----------------------------------------------------------------------------
(* The API *)

\* A request that inserts no retranscription.
LEMMA RequestStill ==
    ASSUME PInv, FInv, TableStill, UNCHANGED <<art, disk, worker>>
    PROVE  FInv'
<1>1. worker.job # 0 => worker.job \in Ids
  BY DEF PInv, IInv, Hand
<1>2. QED
  BY <1>1, StepStill

\* rename, category, summary and retry.
LEMMA InsertsStill ==
    ASSUME PInv, FInv, RenamePerson \/ UpdateCategory \/ RequestSummary \/ RetryJob
    PROVE  FInv'
<1>1. UNCHANGED <<art, disk, worker>>
  BY DEF RenamePerson, UpdateCategory, RequestSummary, RetryJob
<1>2. CASE RenamePerson \/ UpdateCategory \/ RequestSummary
  <2>1. TableStill
    BY <1>2, NewJobStill DEF RenamePerson, UpdateCategory, RequestSummary, SpeakerRender
  <2>2. QED
    BY <1>1, <2>1, RequestStill
<1>3. CASE RetryJob
  <2>1. PICK j \in Ids : /\ ~Retranscription(j)
                         /\ Insert([NewJob(jobs[j].kind, jobs[j].revision, jobs[j].input)
                                       EXCEPT !.revived = TRUE, !.retryOf = j])
    BY <1>3 DEF RetryJob, Retryable
  <2> DEFINE job == [NewJob(jobs[j].kind, jobs[j].revision, jobs[j].input)
                        EXCEPT !.revived = TRUE, !.retryOf = j]
  <2>2. ~Redoes(job) /\ job.status = "queued"
    BY <2>1 DEF Redoes, Retranscription, NewJob
  <2>3. Insert(job)
    BY <2>1
  <2> HIDE DEF job
  <2>4. TableStill
    BY <2>2, <2>3, InsertStill DEF PInv
  <2>5. QED
    BY <1>1, <2>4, RequestStill
<1>4. QED
  BY <1>2, <1>3

\* A first job stays first when another job is taken out.
LEMMA FirstWithout ==
    ASSUME OrderOk(jobs, queue), NEW j, NEW i, i # j, First(queue, jobs, i)
    PROVE  First(Without(j), jobs, i)
<1>1. CASE ~\E m \in DOMAIN queue : queue[m] = j
  BY <1>1 DEF Without
<1>2. CASE \E m \in DOMAIN queue : queue[m] = j
  <2> DEFINE p == Without(j)
  <2>1. PICK n \in 1..Len(queue) :
           /\ queue[n] = j
           /\ p \in Seq(Nat) /\ DOMAIN p = 1..(Len(queue) - 1)
           /\ \A k \in 1..(Len(queue) - 1) :
                 \/ k < n /\ k \in DOMAIN queue /\ p[k] = queue[k]
                 \/ k >= n /\ k + 1 \in DOMAIN queue /\ p[k] = queue[k + 1]
    BY <1>2, TakenOut, Zenon
  <2> HIDE DEF p
  <2>2. Len(queue) \in Nat /\ DOMAIN queue = 1..Len(queue)
    BY LenProperties DEF OrderOk
  <2>3. PICK m \in DOMAIN queue : /\ queue[m] = i
                                  /\ \A k \in DOMAIN queue : k < m => jobs[queue[k]].kind # "render"
    BY DEF First
  <2>4. m # n /\ \A k \in DOMAIN queue : queue[k] = i => k = m
    BY <2>1, <2>3 DEF OrderOk
  <2> DEFINE at == IF m < n THEN m ELSE m - 1
  <2>5. at \in DOMAIN p /\ p[at] = i
    <3>1. CASE m < n
      BY <2>1, <2>2, <2>3, <3>1
    <3>2. CASE m > n
      <4>1. m - 1 \in 1..(Len(queue) - 1) /\ m - 1 >= n /\ (m - 1) + 1 = m
        BY <2>1, <2>2, <3>2
      <4>2. p[m - 1] = queue[m]
        BY <2>1, <4>1
      <4>3. QED
        BY <2>1, <2>3, <3>2, <4>1, <4>2
    <3>3. QED
      BY <2>1, <2>2, <2>4, <3>1, <3>2
  <2>6. ASSUME NEW k \in DOMAIN p, k < at PROVE jobs[p[k]].kind # "render"
    <3>1. CASE k < n /\ k \in DOMAIN queue /\ p[k] = queue[k]
      <4>1. k < m
        BY <2>1, <2>2, <2>6, <3>1
      <4>2. QED
        BY <2>3, <3>1, <4>1
    <3>2. CASE k >= n /\ k + 1 \in DOMAIN queue /\ p[k] = queue[k + 1]
      <4>1. k + 1 < m
        BY <2>1, <2>2, <2>6, <3>2
      <4>2. QED
        BY <2>3, <3>2, <4>1
    <3>3. QED
      BY <2>1, <3>1, <3>2
  <2> HIDE DEF at
  <2>7. First(p, jobs, i)
    BY <2>5, <2>6 DEF First
  <2>8. QED
    BY <2>7 DEF p
<1>3. QED
  BY <1>1, <1>2

\* Rows that are joined by others, or made another job's input.
LEMMA JoinedStill ==
    ASSUME PInv, Ids \subseteq Ids',
           \A i \in Ids : /\ jobs'[i].kind = jobs[i].kind
                          /\ jobs'[i].status = jobs[i].status
                          /\ jobs'[i].revived = jobs[i].revived
                          /\ jobs[i].kind = "transcribe" => jobs'[i] = jobs[i]
                          /\ Redoes(jobs[i]) /\ First(queue, jobs, i) => First(queue', jobs', i),
           \A i \in Ids' \ Ids : jobs'[i].kind # "transcribe" /\ jobs'[i].status = "queued"
    PROVE  TableStill
  BY DEF TableStill, Redoes, Active

\* An order of which two jobs come last.
LEMMA TwoBehind ==
    ASSUME NEW q \in Seq(Nat), NEW a \in Nat, NEW b \in Nat
    PROVE  /\ Append(Append(q, a), b) \in Seq(Nat)
           /\ \A m \in DOMAIN q : /\ m \in DOMAIN Append(Append(q, a), b)
                                  /\ Append(Append(q, a), b)[m] = q[m]
<1> DEFINE p == Append(q, a)
           o == Append(p, b)
<1>1. /\ p \in Seq(Nat) /\ Len(p) = Len(q) + 1 /\ Len(q) \in Nat /\ DOMAIN q = 1..Len(q)
      /\ \A m \in 1..Len(q) : p[m] = q[m]
  BY AppendProperties, LenProperties
<1> HIDE DEF p
<1>2. /\ o \in Seq(Nat) /\ DOMAIN o = 1..(Len(p) + 1)
      /\ \A m \in 1..Len(p) : o[m] = p[m]
  BY <1>1, AppendProperties, LenProperties
<1> HIDE DEF o
<1>3. \A m \in DOMAIN q : m \in DOMAIN o /\ o[m] = q[m]
  BY <1>1, <1>2
<1>4. QED
  BY <1>2, <1>3 DEF o, p

\* A speaker edit submits two jobs, which come last.
LEMMA TwoJobsStill ==
    ASSUME PInv, QueuedFinalize = {}, InsertRenderAndFinalize
    PROVE  TableStill
<1> DEFINE finalize == NewJob("finalize_speakers", rec.revision + 1, "current")
           t == Append(jobs, SpeakerRender)
<1>1. /\ jobs' = Append(t, finalize)
      /\ queue' = Append(Append(queue, Len(jobs) + 1), Len(jobs) + 2)
  <2>1. Len(jobs) + 1 + 1 = Len(jobs) + 2
    BY LenProperties DEF PInv, IInv, TableOk
  <2>2. QED
    BY <2>1 DEF InsertRenderAndFinalize
<1>2. /\ SpeakerRender.kind = "render" /\ SpeakerRender.status = "queued"
      /\ finalize.kind = "finalize_speakers" /\ finalize.status = "queued"
  BY DEF NewJob, SpeakerRender
<1> DEFINE R == Job \cup {SpeakerRender, finalize}
<1>3. jobs \in Seq(R) /\ SpeakerRender \in R /\ finalize \in R
  <2>1. jobs \in Seq(Job)
    BY DEF PInv, IInv, TableOk
  <2>2. Job \subseteq R
    OBVIOUS
  <2> HIDE DEF R
  <2>3. Len(jobs) \in Nat /\ DOMAIN jobs = 1..Len(jobs) /\ \A i \in 1..Len(jobs) : jobs[i] \in R
    BY <2>1, <2>2, LenProperties, ElementOfSeq
  <2>4. jobs = [i \in 1..Len(jobs) |-> jobs[i]]
    BY <2>1, SeqDef
  <2>5. jobs \in Seq(R)
    BY <2>3, <2>4, IsASeq
  <2>6. QED
    BY <2>5 DEF R
<1> HIDE DEF finalize, R
<1>4. /\ Ids = 1..Len(jobs) /\ Len(jobs) \in Nat
      /\ t \in Seq(R) /\ Len(t) = Len(jobs) + 1
      /\ \A i \in 1..Len(jobs) : t[i] = jobs[i]
      /\ t[Len(jobs) + 1] = SpeakerRender
  BY <1>3, AppendProperties, LenProperties DEF Ids
<1> HIDE DEF t
<1>5. /\ Ids' = 1..(Len(jobs) + 2)
      /\ \A i \in 1..(Len(jobs) + 1) : jobs'[i] = t[i]
      /\ jobs'[Len(jobs) + 2] = finalize
  <2>1. /\ Len(jobs') = Len(t) + 1 /\ jobs' \in Seq(R) /\ jobs'[Len(t) + 1] = finalize
        /\ \A i \in 1..Len(t) : jobs'[i] = t[i]
    BY <1>1, <1>3, <1>4, AppendProperties
  <2>2. Len(jobs) + 1 + 1 = Len(jobs) + 2
    BY <1>4
  <2>3. QED
    BY <1>4, <2>1, <2>2, LenProperties DEF Ids
<1>6. /\ queue' \in Seq(Nat)
      /\ \A m \in DOMAIN queue : m \in DOMAIN queue' /\ queue'[m] = queue[m]
  <2>1. queue \in Seq(Nat) /\ Len(jobs) + 1 \in Nat /\ Len(jobs) + 2 \in Nat
    BY <1>4 DEF PInv, IInv, OrderOk
  <2>2. QED
    BY <1>1, <2>1, TwoBehind
<1>7. \A i \in Ids : i \in Ids' /\ jobs'[i] = jobs[i]
  BY <1>4, <1>5
<1>8. \A i \in Ids' \ Ids : jobs'[i] \in {SpeakerRender, finalize}
  <2>1. \A i \in Ids' \ Ids : i = Len(jobs) + 1 \/ i = Len(jobs) + 2
    BY <1>4, <1>5
  <2>2. jobs'[Len(jobs) + 1] = SpeakerRender
    BY <1>4, <1>5
  <2>3. QED
    BY <1>5, <2>1, <2>2
<1>9. \A i \in Ids : First(queue, jobs, i) => First(queue', jobs', i)
  BY <1>6, <1>7, FirstStays DEF PInv, IInv, Ids
<1>10. QED
  BY <1>2, <1>7, <1>8, <1>9, JoinedStill

\* .. or puts the finalize job that waits behind its render.
LEMMA RedirectStill ==
    ASSUME PInv, RoomForRevision, NEW j \in QueuedFinalize, NEW job,
           job = [jobs[j] EXCEPT !.revision = rec.revision + 1, !.input = "current"],
           NEW t, t = [jobs EXCEPT ![j] = job],
           jobs' = Append(t, SpeakerRender),
           queue' \in Seq(Nat),
           \A m \in DOMAIN Without(j) : m \in DOMAIN queue' /\ queue'[m] = Without(j)[m]
    PROVE  TableStill
<1>1. /\ j \in Ids /\ jobs[j].kind = "finalize_speakers" /\ jobs[j].status = "queued"
      /\ jobs[j] \in Job
  BY RowsTyped DEF QueuedFinalize, PInv, IInv, Ids
<1>2. /\ rec.revision + 1 \in Revision
      /\ job.kind = jobs[j].kind /\ job.status = jobs[j].status /\ job.revived = jobs[j].revived
  BY <1>1, RevisionBelow DEF Job, PInv, IInv
<1>3. /\ SpeakerRender.kind = "render" /\ SpeakerRender.status = "queued"
      /\ SpeakerRender \in Job /\ job \in Job
  <2>1. SpeakerRender \in Job
    BY <1>2, NewJobIsJob DEF SpeakerRender, Kind, Fingerprint
  <2>2. job \in Job
    BY <1>1, <1>2 DEF Job, Fingerprint
  <2>3. QED
    BY <2>1, <2>2 DEF NewJob, SpeakerRender
<1>4. /\ Len(jobs) \in Nat /\ Ids = 1..Len(jobs) /\ DOMAIN t = 1..Len(jobs)
      /\ jobs \in Seq(Job)
      /\ \A i \in Ids : t[i] = IF i = j THEN job ELSE jobs[i]
  BY LenProperties DEF PInv, IInv, TableOk, Ids
<1>5. t \in Seq(Job) /\ Len(t) = Len(jobs)
  BY <1>1, <1>3, <1>4, ExceptSeq
<1>6. SpeakerRender \in Job
  BY <1>3
<1>7. /\ Ids' = 1..(Len(jobs) + 1)
      /\ \A i \in 1..Len(jobs) : jobs'[i] = t[i]
      /\ jobs'[Len(jobs) + 1] = SpeakerRender
  BY <1>5, <1>6, AppendProperties, LenProperties DEF Ids
<1>8. /\ \A i \in Ids : i \in Ids' /\ jobs'[i] = IF i = j THEN job ELSE jobs[i]
      /\ \A i \in Ids' \ Ids : jobs'[i] = SpeakerRender
  <2>1. \A i \in Ids' \ Ids : i = Len(jobs) + 1
    BY <1>4, <1>7
  <2>2. QED
    BY <1>4, <1>7, <2>1
<1>9. ASSUME NEW i \in Ids, Redoes(jobs[i]), First(queue, jobs, i)
      PROVE  First(queue', jobs', i)
  <2>1. i # j
    BY <1>1, <1>9 DEF Redoes
  <2>2. OrderOk(jobs, queue) /\ OrderOk(jobs, Without(j))
    BY WithoutKeeps DEF PInv, IInv
  <2>3. First(Without(j), jobs, i)
    BY <1>9, <2>1, <2>2, FirstWithout
  <2>4. \A k \in DOMAIN jobs : jobs'[k].kind = jobs[k].kind
    BY <1>2, <1>8 DEF Ids
  <2>5. QED
    BY <2>2, <2>3, <2>4, FirstStays
<1>10. QED
  BY <1>1, <1>2, <1>3, <1>8, <1>9, JoinedStill

\* assign_recording_speaker, assign_segment, assign_segments.
LEMMA EditSpeakersStill == ASSUME PInv, FInv, EditSpeakers PROVE FInv'
<1>1. RoomForRevision /\ InsertRenderAndFinalize /\ UNCHANGED <<art, disk, worker>>
  BY DEF EditSpeakers
<1>2. CASE QueuedFinalize = {}
  BY <1>1, <1>2, TwoJobsStill, RequestStill
<1>3. CASE QueuedFinalize # {}
  <2>1. PICK j \in QueuedFinalize :
           /\ jobs' = Append([jobs EXCEPT ![j].revision = rec.revision + 1,
                                          ![j].input = "current"], SpeakerRender)
           /\ queue' = Append(Append(Without(j), Len(jobs) + 1), j)
    BY <1>1, <1>3 DEF InsertRenderAndFinalize
  <2> DEFINE job == [jobs[j] EXCEPT !.revision = rec.revision + 1, !.input = "current"]
             t == [jobs EXCEPT ![j] = job]
  <2>2. jobs' = Append(t, SpeakerRender)
    BY <2>1
  <2>3. /\ queue' \in Seq(Nat)
        /\ \A m \in DOMAIN Without(j) : m \in DOMAIN queue' /\ queue'[m] = Without(j)[m]
    <3>1. Without(j) \in Seq(Nat) /\ Len(jobs) + 1 \in Nat /\ j \in Nat
      BY WithoutKeeps, LenProperties DEF PInv, IInv, OrderOk, TableOk, QueuedFinalize, Ids
    <3>2. QED
      BY <2>1, <3>1, TwoBehind
  <2>4. TableStill
    BY <1>1, <2>2, <2>3, RedirectStill
  <2>5. QED
    BY <1>1, <2>4, RequestStill
<1>4. QED
  BY <1>2, <1>3

\* create_retranscription: no render and no other retranscription is there,
\* and nothing is registered yet at its target.
LEMMA CreateRetranscriptionStill == ASSUME PInv, FInv, CreateRetranscription PROVE FInv'
<1> DEFINE n == Len(jobs) + 1
           job == [NewJob("transcribe", rec.revision, "retranscription") EXCEPT !.open = TRUE]
<1>1. /\ "retranscribe" \in Requests /\ Insert(job) /\ UNCHANGED <<rec, art, disk, worker>>
      /\ ~ActiveKind("transcribe") /\ ~ActiveKind("render")
  BY DEF CreateRetranscription, Asked, SpeechBusy, ActiveAmong
<1>2. job.revision = rec.revision /\ job.status = "queued" /\ ~job.revived /\ job.kind = "transcribe"
  BY DEF NewJob
<1> HIDE DEF job
<1>3. /\ Ids = 1..Len(jobs) /\ Len(jobs) \in Nat /\ Ids' = 1..n
      /\ jobs'[n] = job
      /\ \A i \in Ids : jobs'[i] = jobs[i]
  BY <1>1, AppendProperties, LenProperties DEF PInv, IInv, TableOk, Insert, Ids
<1>4. /\ Len(queue) \in Nat /\ DOMAIN queue = 1..Len(queue)
      /\ DOMAIN queue' = 1..(Len(queue) + 1) /\ queue'[Len(queue) + 1] = n
      /\ \A m \in DOMAIN queue : queue'[m] = queue[m]
  <2>1. queue \in Seq(Nat) /\ n \in Nat /\ queue' = Append(queue, n)
    BY <1>1, <1>3 DEF PInv, IInv, OrderOk, Insert
  <2>2. QED
    BY <2>1, AppendProperties, LenProperties
<1> HIDE DEF n
<1>5. n \notin Ids /\ \A i \in Ids' : i \in Ids \/ i = n
  BY <1>3 DEF n
<1>6. /\ \A i \in Ids : jobs[i].kind \in {"transcribe", "render"} => ~Active(i)
      /\ \A m \in DOMAIN queue : queue[m] \in Ids /\ Active(queue[m])
  BY <1>1 DEF ActiveKind, PInv, IInv, OrderOk, Active, IsActive, Ids
<1>7. \A i \in Ids : /\ jobs[i].kind = "render" => jobs[i].status # "running"
                     /\ jobs[i].kind = "transcribe" => jobs[i].status # "queued"
  BY <1>6 DEF Active, IsActive
<1>8. First(queue', jobs', n)
  <2>1. ASSUME NEW k \in DOMAIN queue', k < Len(queue) + 1 PROVE jobs'[queue'[k]].kind # "render"
    <3>1. k \in DOMAIN queue
      BY <1>4, <2>1
    <3>2. QED
      BY <1>3, <1>4, <1>6, <3>1
  <2>2. Len(queue) + 1 \in DOMAIN queue'
    BY <1>4
  <2>3. QED
    BY <1>4, <2>1, <2>2 DEF First
<1>9. worker.job # 0 => worker.job \in Ids
  BY DEF PInv, IInv, Hand
<1>10. Line'
  <2>1. ASSUME NEW i \in Ids', Redoes(jobs'[i])
        PROVE  /\ Active(i)' => \A k \in Ids' : jobs'[k].kind = "render"
                                                  => jobs'[k].status # "running"
               /\ jobs'[i].status = "queued" => First(queue', jobs', i)
    <3>1. \A k \in Ids' : jobs'[k].kind = "render" => jobs'[k].status # "running"
      BY <1>2, <1>3, <1>5, <1>7
    <3>2. jobs'[i].status = "queued" => i = n
      BY <1>3, <1>5, <1>7, <2>1 DEF Redoes
    <3>3. QED
      BY <1>8, <3>1, <3>2
  <2>2. worker'.job # 0 /\ worker'.retry => ~Redoes(jobs'[worker'.job])
    BY <1>1, <1>3, <1>9 DEF FInv, Line, Mine
  <2>3. QED
    BY <1>1, <2>1, <2>2 DEF Line, Mine
<1>11. Apart'
  <2>1. worker.pc \in {"stage", "commit"} => Redoes(jobs'[worker'.job])
    BY <1>1, <1>3, Employed DEF FInv, Apart, Mine, PInv, IInv
  <2>2. Free(rec.revision + 1)
    <3>1. rec.revision \in Nat
      BY Revisions
    <3>2. QED
      BY <3>1 DEF Free, PInv, Registered
  <2>3. ASSUME NEW i \in Ids', Redoes(jobs'[i]), Unstaged(i)' PROVE Free(jobs'[i].revision + 1)
    <3>1. CASE i = n
      BY <1>2, <1>3, <2>2, <3>1
    <3>2. CASE i \in Ids
      BY <1>1, <1>3, <2>3, <3>2 DEF FInv, Apart, Unstaged
    <3>3. QED
      BY <1>5, <3>1, <3>2
  <2>4. QED
    BY <1>1, <2>1, <2>3 DEF FInv, Apart, Free, Mine
<1>12. Stored'
  <2>1. At("jsonRow") => JsonPath' = JsonPath
    BY <1>1, <1>3, Employed DEF At, JsonPath, Doing, Mine, PInv, IInv
  <2>2. QED
    BY <1>1, <2>1 DEF FInv, Stored, HasJson, FileAt, At
<1>13. SummaryStored'
  BY <1>1, SummaryStill DEF FInv
<1>14. QED
  BY <1>10, <1>11, <1>12, <1>13 DEF FInv

-----------------------------------------------------------------------------
(* Failing calls and writes, crashes and stops *)

\* A file replaced by a job that is tried again: what is registered has its
\* file all the same.
LEMMA SyncFailsStill == ASSUME Undelayed, PInv, FInv, SyncFails PROVE FInv'
<1>1. /\ Busy /\ worker.job \in Ids /\ Raise(TRUE) /\ "io" \in Faults
      /\ UNCHANGED <<jobs, queue, art>>
  BY Employed DEF SyncFails, At, Busy, PInv, IInv, Hand
<1>2. worker'.job = worker.job /\ worker'.pc \notin Marked
  BY <1>1 DEF Raise, Unemployed, Marked
<1>3. TableStill
  BY <1>1, KeptStill
<1>4. ~Redoes(Mine)
  BY <1>1 DEF Undelayed, FInv, Line, Mine
<1>5. Line' /\ Apart'
  BY <1>1, <1>2, <1>3, <1>4, LineStill, ApartStill DEF FInv, Mine
<1>6. CASE At("jsonFile") /\ disk' = JsonWritten
  <2>1. Stored' /\ disk'.sum = disk.sum
    BY <1>1, <1>2, <1>6, JsonFileStays DEF At, Marked
  <2>2. SummaryStored'
    BY <1>1, <1>2, <2>1, SummaryStill DEF FInv, Marked
  <2>3. QED
    BY <1>5, <2>1, <2>2 DEF FInv
<1>7. CASE At("mdFile") /\ disk' = MarkdownWritten
  <2>1. disk'.json = disk.json /\ disk'.sum = disk.sum
    BY <1>7 DEF MarkdownWritten, PInv, IInv, Files
  <2>2. Stored' /\ SummaryStored'
    BY <1>1, <1>2, <1>3, <2>1, StoredStill, SummaryStill DEF FInv, Marked
  <2>3. QED
    BY <1>5, <2>2 DEF FInv
<1>8. CASE At("sumFile") /\ disk' = SummaryWritten
  <2>1. disk'.json = disk.json /\ \A s \in art.sum : \E f \in disk'.sum : SamePath(f, s)
    BY <1>8, SummaryFileStays DEF At
  <2>2. Stored' /\ SummaryStored'
    BY <1>1, <1>2, <1>3, <2>1, StoredStill DEF FInv, Marked, SummaryStored, At, SamePath
  <2>3. QED
    BY <1>5, <2>2 DEF FInv
<1>9. QED
  BY <1>6, <1>7, <1>8 DEF SyncFails

\* Failing calls and writes, crashes and stops.
LEMMA FailStill == ASSUME Undelayed, PInv, FInv, Fail PROVE FInv'
<1>1. CASE ModelFails
  BY <1>1, OverStill, RetryStill, KeptStill DEF ModelFails, Busy, At
<1>2. CASE WriteFails
  BY <1>2, RetryStill DEF WriteFails, Busy
<1>3. CASE RendererFails
  BY <1>3, OverStill, KeptStill DEF RendererFails
<1>4. CASE Crash \/ Shutdown
  BY <1>4, LeaveStill, KeptStill DEF Crash, Shutdown
<1>5. CASE SyncFails
  BY <1>5, SyncFailsStill
<1>6. QED
  BY <1>1, <1>2, <1>3, <1>4, <1>5, ReleaseStill DEF Fail

-----------------------------------------------------------------------------
(* The specification *)

\* The handlers.
LEMMA HandleStill == ASSUME Undelayed, PInv, FInv, Handle PROVE FInv'
<1>1. CASE ResumeRecovered \/ SettleTranscribe \/ SettleClassify
  BY <1>1, ResumeRecoveredStill, SettleStill
<1>2. CASE StartTranscribe \/ StartClassify \/ StartFinalize \/ StartSummarize \/ StartRender
  BY <1>2, StartStill
<1>3. CASE Transcribed \/ Classified \/ Summarized \/ Embedded
  BY <1>3, TranscribedStill, AnsweredStill
<1>4. CASE \/ WriteJson \/ RegisterTranscript \/ WriteMarkdown \/ RegisterMarkdown
           \/ CutClips \/ RegisterClips
  BY <1>4, WriteJsonStill, RegisterTranscriptStill, MarkdownStill, ClipsStill
<1>5. CASE StageRetranscription \/ CommitRetranscription \/ AbandonRetranscription
  BY <1>5, StageRetranscriptionStill, CommitRetranscriptionStill, AbandonRetranscriptionStill
<1>6. CASE \/ KeepSpeakers \/ AutoMatch
           \/ FollowTranscribe \/ FollowFinalize \/ FollowClassify \/ FollowRender
  BY <1>6, MatchStill, FollowStill
<1>7. CASE LastTransition \/ WriteSummary \/ RegisterSummary \/ MarkFailed
  BY <1>7, LastStill, WriteSummaryStill, RegisterSummaryStill
<1>8. CASE FailJob \/ CompleteJob
  BY <1>8, FailJobStill, CompleteJobStill
<1>9. QED
  BY <1>1, <1>2, <1>3, <1>4, <1>5, <1>6, <1>7, <1>8 DEF Handle

\* Every step.
LEMMA NextStill == ASSUME Undelayed, PInv, FInv, [Next]_allVars PROVE FInv'
<1>1. CASE Startup
  BY <1>1, ReconcileStill, RecoverStill, RecoverAbortsStill DEF Startup
<1>2. CASE Claim \/ BackoffExpires
  BY <1>2, ClaimStill, BackoffExpiresStill
<1>3. CASE Handle
  BY <1>3, HandleStill
<1>4. CASE Request
  BY <1>4, EditSpeakersStill, InsertsStill, CreateRetranscriptionStill DEF Request
<1>5. CASE Fail
  BY <1>5, FailStill
<1>6. CASE UNCHANGED allVars
  BY <1>6, KeptStill, RequestStill DEF allVars, vars
<1>7. QED
  BY <1>1, <1>2, <1>3, <1>4, <1>5, <1>6 DEF Next, Unfailing

\* A recording that was only registered.
LEMMA FilesFirst == ASSUME Init PROVE FInv
<1>1. /\ jobs = <<NewJob("transcribe", 1, "input-v1")>> /\ Ids = {1}
      /\ jobs[1].kind = "transcribe" /\ jobs[1].input = "input-v1"
  BY DEF Init, NewJob, Ids
<1>2. \A j \in Ids : ~Redoes(jobs[j])
  BY <1>1 DEF Redoes
<1>3. worker.job = 0 /\ worker.pc = "idle"
  BY DEF Init, Unemployed
<1>4. /\ \A r \in Revision : art.json[r] = None
      /\ art.sum = {}
  BY DEF Init
<1>5. QED
  BY <1>2, <1>3, <1>4 DEF FInv, Line, Apart, Stored, SummaryStored, At, HasJson

\* The invariant of the files holds of every behaviour in which nothing puts a
\* retranscription back behind a render.
LEMMA FilesInductive == ASSUME Undelayed PROVE Spec => []FInv
<1>1. Init => FInv
  BY FilesFirst
<1>2. PInv /\ FInv /\ [Next]_allVars => FInv'
  BY NextStill
<1>3. QED
  BY <1>1, <1>2, LedgerInductive, PTL DEF Spec

\* No registered transcript or summary loses its file, unless a release, a
\* retry or a stop can put a retranscription back behind a render
\* (write_artifact, write_summary_artifacts, commit_retranscription).
THEOREM FilesStay == ASSUME Undelayed PROVE Spec => []RegisteredFilesExist
<1>1. FInv => RegisteredFilesExist
  BY DEF FInv, Stored, SummaryStored, RegisteredFilesExist
<1>2. QED
  BY <1>1, FilesInductive, PTL
=============================================================================
