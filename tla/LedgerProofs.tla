---------------------------- MODULE LedgerProofs ----------------------------
(***************************************************************************)
(* What the jobs table promises, for every value of the constants: at most *)
(* one active job of a kind, no second success for one input, one open     *)
(* request, nothing ahead of the recording's revision, at most three       *)
(* attempts; that it is a JobLedger; and what a step does to the revision  *)
(* and to a category the user chose.                                       *)
(***************************************************************************)
EXTENDS PipelineProofs

(* What is kept of the jobs table *)

Redoes(job) == job.kind = "transcribe" /\ job.input = "retranscription"

SameWork(a, b) == a.kind = b.kind /\ a.revision = b.revision /\ a.input = b.input

\* A job that is put back before its handler began keeps its attempt, so the
\* bound of the exploration on stops must leave room for a last one.
Limited == "stop" \in Faults => MaxAttempts <= RetryLimit

Tries(job) == /\ job.attempts <= RetryLimit
              /\ job.status = "queued" => job.attempts < RetryLimit

SoleActive(t) ==
    \A i, k \in DOMAIN t :
        /\ IsActive(t[i].status)
        /\ IsActive(t[k].status)
        /\ t[i].kind = t[k].kind
        => i = k

SoleInput(t) ==
    \A i, k \in DOMAIN t :
        /\ SameWork(t[i], t[k])
        /\ t[i].status # "failed"
        /\ t[k].status # "failed"
        /\ ~Redoes(t[i])
        => i = k

\* Table t of a recording at revision r.
Tabled(t, r) ==
    /\ SoleActive(t)
    /\ SoleInput(t)
    /\ \A j \in DOMAIN t : t[j].open => IsActive(t[j].status) /\ Redoes(t[j])
    /\ \A j \in DOMAIN t : t[j].revision <= r
    /\ Limited => \A j \in DOMAIN t : Tries(t[j])

\* A row that may join table t at revision r.
Joins(t, job, r) ==
    /\ job \in Job /\ job.status = "queued" /\ job.attempts = 0
    /\ job.revision <= r
    /\ job.open => Redoes(job)
    /\ \A i \in DOMAIN t : IsActive(t[i].status) => t[i].kind # job.kind
    /\ \/ Redoes(job)
       \/ \A i \in DOMAIN t : SameWork(t[i], job) => t[i].status = "failed"

\* A row that may take the place of row j of table t at revision r: the work
\* is the same, or it is work for a revision no other row is about.
Replaces(t, j, job, r) ==
    /\ j \in DOMAIN t /\ IsActive(t[j].status)
    /\ job \in Job /\ job.kind = t[j].kind
    /\ job.revision <= r
    /\ \/ job.revision = t[j].revision /\ job.input = t[j].input
       \/ \A i \in DOMAIN t : t[i].revision # job.revision
    /\ job.open => t[j].open /\ job.input = t[j].input /\ IsActive(job.status)
    /\ Limited => Tries(job)

\* The rows are typed.
LEMMA RowsTyped ==
    ASSUME NEW t, TableOk(t), NEW j \in DOMAIN t
    PROVE  t[j] \in Job /\ t[j].revision \in Nat /\ t[j].attempts \in Nat
<1>1. t[j] \in Job
  BY ElementOfSeq, LenProperties DEF TableOk
<1>2. t[j].revision \in 1..MaxRevision /\ t[j].attempts \in Nat
  BY <1>1 DEF Job, Revision
<1>3. QED
  BY <1>1, <1>2

\* A row that joins keeps the table.
LEMMA JoinKeeps ==
    ASSUME NEW t, TableOk(t), NEW r \in Nat, Tabled(t, r), NEW s \in Nat, r <= s,
           NEW job, Joins(t, job, s)
    PROVE  Tabled(Append(t, job), s)
<1> DEFINE u == Append(t, job)
           n == Len(t) + 1
<1>1. /\ Len(t) \in Nat /\ DOMAIN t = 1..Len(t) /\ DOMAIN u = 1..n
      /\ \A j \in DOMAIN t : u[j] = t[j]
      /\ u[n] = job
  BY AppendProperties, LenProperties DEF TableOk, Joins
<1>2. \A j \in DOMAIN t : t[j] \in Job /\ t[j].revision \in Nat
  BY RowsTyped
<1> HIDE DEF u
<1>3. \A j \in DOMAIN u : \/ j \in DOMAIN t /\ u[j] = t[j]
                          \/ j = n /\ u[j] = job
  <2>1. \A j \in 1..n : j \in 1..Len(t) \/ j = n
    BY <1>1
  <2> HIDE DEF n
  <2>2. QED
    BY <1>1, <2>1
<1> HIDE DEF n
<1>4. IsActive(job.status) /\ job.status # "failed"
  BY DEF Joins, IsActive
<1>5. SoleActive(u)
  BY <1>3, <1>4 DEF SoleActive, Tabled, Joins
<1>6. SoleInput(u)
  <2>1. \A i \in DOMAIN t : ~Redoes(job) /\ SameWork(t[i], job) => t[i].status = "failed"
    BY DEF Joins
  <2>2. \A i \in DOMAIN t : SameWork(t[i], job) /\ ~Redoes(t[i]) => ~Redoes(job)
    BY DEF SameWork, Redoes
  <2>3. \A i \in DOMAIN t : SameWork(job, t[i]) => SameWork(t[i], job)
    BY DEF SameWork
  <2>4. QED
    BY <1>3, <2>1, <2>2, <2>3 DEF SoleInput, Tabled
<1>7. \A j \in DOMAIN u : u[j].open => IsActive(u[j].status) /\ Redoes(u[j])
  BY <1>3, <1>4 DEF Joins, Tabled
<1>8. \A j \in DOMAIN u : u[j].revision <= s
  BY <1>2, <1>3 DEF Joins, Tabled
<1>9. Limited => \A j \in DOMAIN u : Tries(u[j])
  <2>1. Tries(job)
    BY DEF Tries, Joins, RetryLimit
  <2>2. QED
    BY <1>3, <2>1 DEF Tabled
<1>10. QED
  BY <1>5, <1>6, <1>7, <1>8, <1>9 DEF Tabled, u

\* So does a row that takes the place of another.
LEMMA ReplaceKeeps ==
    ASSUME NEW t, TableOk(t), NEW r \in Nat, Tabled(t, r), NEW s \in Nat, r <= s,
           NEW j, NEW job, Replaces(t, j, job, s),
           NEW u, u = [t EXCEPT ![j] = job]
    PROVE  Tabled(u, s)
<1>1. j \in DOMAIN t /\ DOMAIN u = DOMAIN t
      /\ \A i \in DOMAIN t : u[i] = IF i = j THEN job ELSE t[i]
  BY DEF Replaces
<1>2. \A i \in DOMAIN t : t[i].revision \in Nat
  BY RowsTyped
<1>3. IsActive(t[j].status) /\ t[j].status # "failed" /\ job.kind = t[j].kind
  BY DEF Replaces, IsActive
<1>4. SoleActive(u)
  BY <1>1, <1>3 DEF SoleActive, Tabled
<1>5. SoleInput(u)
  <2>1. ASSUME NEW i \in DOMAIN t, NEW k \in DOMAIN t, SameWork(u[i], u[k]),
               u[i].status # "failed", u[k].status # "failed", ~Redoes(u[i])
        PROVE  i = k
    <3>1. CASE job.revision = t[j].revision /\ job.input = t[j].input
      <4>1. SameWork(t[i], t[k]) /\ ~Redoes(t[i])
        BY <1>1, <1>3, <2>1, <3>1 DEF SameWork, Redoes
      <4>2. t[i].status # "failed" /\ t[k].status # "failed"
        BY <1>1, <1>3, <2>1
      <4>3. QED
        BY <4>1, <4>2 DEF Tabled, SoleInput
    <3>2. CASE \A x \in DOMAIN t : t[x].revision # job.revision
      <4>1. CASE i # j /\ k # j
        BY <1>1, <2>1, <4>1 DEF Tabled, SoleInput
      <4>2. CASE i = j \/ k = j
        BY <1>1, <2>1, <3>2, <4>2 DEF SameWork
      <4>3. QED
        BY <4>1, <4>2
    <3>3. QED
      BY <3>1, <3>2 DEF Replaces
  <2>2. QED
    BY <1>1, <2>1 DEF SoleInput
<1>6. \A i \in DOMAIN u : u[i].open => IsActive(u[i].status) /\ Redoes(u[i])
  BY <1>1, <1>3 DEF Replaces, Tabled, Redoes
<1>7. \A i \in DOMAIN u : u[i].revision <= s
  BY <1>1, <1>2 DEF Replaces, Tabled
<1>8. Limited => \A i \in DOMAIN u : Tries(u[i])
  BY <1>1 DEF Replaces, Tabled
<1>9. QED
  BY <1>4, <1>5, <1>6, <1>7, <1>8 DEF Tabled

-----------------------------------------------------------------------------
(* The table as a ledger *)

View(t) == [j \in DOMAIN t |-> Entry(t[j])]

Entered == {Entry(job) : job \in Job}

\* The view of a table is a sequence of entries, one for each row.
LEMMA ViewTyped ==
    ASSUME NEW t \in Seq(Job)
    PROVE  View(t) \in Seq(Entered) /\ Len(View(t)) = Len(t) /\ DOMAIN View(t) = 1..Len(t)
<1>1. Len(t) \in Nat /\ DOMAIN t = 1..Len(t) /\ \A j \in 1..Len(t) : t[j] \in Job
  BY LenProperties, ElementOfSeq
<1>2. View(t) = [j \in 1..Len(t) |-> Entry(t[j])]
  BY <1>1 DEF View
<1>3. \A j \in 1..Len(t) : Entry(t[j]) \in Entered
  BY <1>1 DEF Entered
<1> DEFINE f == [j \in 1..Len(t) |-> Entry(t[j])]
<1>4. f \in [1..Len(t) -> Entered]
  BY <1>3
<1>5. f \in Seq(Entered)
  BY <1>1, <1>4, SeqDef
<1>6. DOMAIN f = 1..Len(t)
  OBVIOUS
<1> HIDE DEF f
<1>7. Len(f) = Len(t)
  BY <1>1, <1>5, <1>6, LenProperties
<1>8. QED
  BY <1>2, <1>5, <1>6, <1>7 DEF f

\* A row that joins the table is an entry that joins the view.
LEMMA ViewJoins ==
    ASSUME NEW t \in Seq(Job), NEW job \in Job
    PROVE  View(Append(t, job)) = Append(View(t), Entry(job))
<1> DEFINE u == Append(t, job)
           v == Append(View(t), Entry(job))
           n == Len(t) + 1
<1>1. /\ u \in Seq(Job) /\ Len(t) \in Nat /\ DOMAIN t = 1..Len(t) /\ DOMAIN u = 1..n
      /\ \A j \in DOMAIN t : u[j] = t[j]
      /\ u[n] = job
  BY AppendProperties, LenProperties
<1>2. /\ View(t) \in Seq(Entered) /\ Len(View(t)) = Len(t) /\ DOMAIN View(t) = 1..Len(t)
      /\ Entry(job) \in Entered
  BY ViewTyped DEF Entered
<1>3. /\ v \in Seq(Entered) /\ Len(v) = n /\ v[n] = Entry(job)
      /\ \A j \in 1..Len(t) : v[j] = View(t)[j]
  BY <1>2, AppendProperties
<1>4. DOMAIN v = 1..n
  BY <1>3, LenProperties
<1> HIDE DEF u, v
<1>5. \A j \in 1..Len(t) : View(t)[j] = Entry(t[j])
  BY <1>1 DEF View
<1>6. \A j \in 1..n : v[j] = Entry(u[j])
  BY <1>1, <1>3, <1>5
<1>7. v = [j \in 1..n |-> v[j]]
  <2>1. v \in [1..n -> Entered]
    BY <1>3, <1>4, SeqDef, LenProperties
  <2>2. QED  BY <2>1
<1>8. View(u) = [j \in 1..n |-> Entry(u[j])]
  BY <1>1 DEF View
<1>9. View(u) = v
  BY <1>6, <1>7, <1>8
<1>10. QED
  BY <1>9 DEF u, v

\* A row that is replaced is an entry that is replaced.
LEMMA ViewReplaces ==
    ASSUME NEW t, NEW j \in DOMAIN t, NEW job
    PROVE  View([t EXCEPT ![j] = job]) = [View(t) EXCEPT ![j] = Entry(job)]
  BY DEF View

-----------------------------------------------------------------------------
(* The invariant, and what every step is shown to do *)

\* Where the worker holds a transcript of a revision that does not exist yet.
Ahead == {"stage", "commit"}

\* The recordings row and the transcript the worker holds are of a revision
\* the recording has reached, the one of a retranscription is of the next.
Knows ==
    /\ worker.seen # None => worker.seen.revision <= rec.revision
    /\ worker.doc # None /\ worker.pc \notin Ahead => worker.doc.revision <= rec.revision
    /\ worker.pc \in Ahead => worker.doc.revision = Mine.revision + 1

\* No document is registered ahead of the recording, or as another revision's.
Registered ==
    /\ \A r \in Revision : art.json[r] # None
          => r <= rec.revision /\ art.json[r].content.revision = r
    /\ \A r \in Revision : art.md[r] # None => r <= rec.revision
    /\ \A s \in art.sum : s.revision <= rec.revision

\* The inductive invariant, on top of IInv.
PInv == IInv /\ Tabled(jobs, rec.revision) /\ Knows /\ Registered

\* A new revision comes with a job for it.
Revises ==
    rec'.revision # rec.revision =>
        /\ rec'.revision = rec.revision + 1
        /\ \E j \in DOMAIN jobs' \ Ids : jobs'[j].revision = rec'.revision

\* The user's category stays the user's.
Chosen ==
    rec.source = "manual" =>
        rec'.source = "manual" /\ (rec'.category = rec.category \/ UpdateCategory)

\* What every step is shown to do.
Good ==
    /\ Tabled(jobs', rec'.revision) /\ Knows' /\ Registered'
    /\ [Ledger!LedgerNext]_Entries
    /\ Revises
    /\ Chosen

\* A step that is no edit of the recordings row.
RowKept ==
    /\ rec'.revision = rec.revision
    /\ rec.source = "manual" => rec'.source = "manual" /\ rec'.category = rec.category

\* The recording's revision is a number.
LEMMA Revisions == ASSUME PInv PROVE rec.revision \in Nat
<1>1. rec.revision \in 1..MaxRevision
  BY DEF PInv, IInv, Row, RecordingRow, Revision
<1>2. QED
  BY <1>1

\* The transitions of the recordings row.
LEMMA StatusKept ==
    ASSUME PInv, NEW target, rec' = [rec EXCEPT !.status = target]
    PROVE  RowKept
  BY DEF PInv, IInv, Row, RecordingRow, RowKept

\* A step that leaves the recordings row alone.
LEMMA SameRow == ASSUME UNCHANGED rec PROVE RowKept
  BY DEF RowKept

\* The worker, when the recording's revision is not raised by its own step.
LEMMA KnowsStill ==
    ASSUME PInv, rec'.revision = rec.revision,
           \/ worker'.seen = None /\ worker'.doc = None
           \/ worker'.seen = worker.seen /\ worker'.doc = worker.doc
           \/ worker'.seen = rec /\ worker'.doc = None,
           worker.pc \notin Ahead \/ worker'.doc = None,
           worker'.pc \notin Ahead
    PROVE  Knows'
<1>1. rec.revision \in Nat
  BY Revisions
<1>2. QED
  BY <1>1 DEF PInv, Knows

\* A handler that is over knows nothing.
LEMMA OverKnows ==
    ASSUME PInv, rec'.revision = rec.revision, NEW retryable, Return \/ Raise(retryable)
    PROVE  Knows'
<1>1. worker'.seen = None /\ worker'.doc = None /\ worker'.pc \in {"done", "marking", "failing"}
  BY DEF Return, Raise, Unemployed
<1>2. QED
  BY <1>1, KnowsStill DEF Ahead

\* A worker without a job knows nothing.
LEMMA UnemployedKnows ==
    ASSUME PInv, rec'.revision = rec.revision, NEW pc, pc \notin Ahead,
           worker' = Unemployed(pc)
    PROVE  Knows'
  BY KnowsStill DEF Unemployed

\* A worker that goes on keeps what it knows.
LEMMA GotoKnows ==
    ASSUME PInv, rec'.revision = rec.revision, worker.pc \notin Ahead,
           NEW pc, pc \notin Ahead, Goto(pc)
    PROVE  Knows'
<1>1. worker \in Worker
  BY DEF PInv, IInv, Hand
<1>2. worker'.seen = worker.seen /\ worker'.doc = worker.doc /\ worker'.pc = pc
  BY <1>1 DEF Goto, Worker
<1>3. QED
  BY <1>2, KnowsStill

\* The registered documents stay where no revision is taken back.
LEMMA RegisteredStill ==
    ASSUME PInv, rec'.revision \in Nat, rec.revision <= rec'.revision, UNCHANGED art
    PROVE  Registered'
<1>1. rec.revision \in Nat
  BY Revisions
<1>2. \A s \in art.sum : s.revision \in Nat
  <2>1. \A s \in art.sum : s.revision \in 1..MaxRevision
    BY DEF PInv, IInv, Files, Summary, Revision
  <2>2. QED
    BY <2>1
<1>3. \A r \in Revision : r \in Nat
  BY DEF Revision
<1>4. QED
  BY <1>1, <1>2, <1>3 DEF PInv, Registered

\* A step that touches neither jobs nor documents.
LEMMA StillGood ==
    ASSUME PInv, UNCHANGED <<jobs, art>>, RowKept, Knows'
    PROVE  Good
<1>1. rec'.revision = rec.revision /\ rec.revision \in Nat
  BY Revisions DEF RowKept
<1>2. Registered'
  BY <1>1, RegisteredStill
<1>3. Entries' = Entries
  BY DEF Entries, Ids
<1>4. QED
  BY <1>1, <1>2, <1>3 DEF Good, PInv, Revises, Chosen, RowKept

\* A step that registers documents.
LEMMA RegisterGood ==
    ASSUME PInv, UNCHANGED jobs, RowKept, Knows', Registered'
    PROVE  Good
<1>1. Entries' = Entries
  BY DEF Entries, Ids
<1>2. QED
  BY <1>1 DEF Good, PInv, Revises, Chosen, RowKept

-----------------------------------------------------------------------------
(* Inserts and changes of rows *)

\* The entries are the view of the jobs table.
LEMMA EntriesAre == Entries = View(jobs) /\ Entries' = View(jobs')
  BY DEF Entries, View, Ids

\* An entry of the ledger is open if its row is active.
LEMMA OpenIsActive ==
    ASSUME NEW t, TableOk(t), NEW kind, Ledger!Open(View(t), kind)
    PROVE  \E i \in DOMAIN t : t[i].kind = kind /\ IsActive(t[i].status)
<1>1. PICK i \in DOMAIN View(t) : View(t)[i].kind = kind /\ View(t)[i].phase \notin Ledger!Ended
  BY DEF Ledger!Open
<1>2. i \in DOMAIN t /\ View(t)[i] = Entry(t[i])
  BY DEF View
<1>3. t[i].kind = kind /\ t[i].status \notin {"succeeded", "failed"}
  BY <1>1, <1>2 DEF Entry, Ledger!Ended
<1>4. t[i].status \in JobStatus
  BY <1>2, RowsTyped DEF Job
<1>5. QED
  BY <1>2, <1>3, <1>4 DEF JobStatus, IsActive

\* A row that joins is a submission.
LEMMA JoinSubmits ==
    ASSUME NEW t, TableOk(t), NEW job, NEW s, Joins(t, job, s)
    PROVE  /\ job.kind \in Kind
           /\ ~Ledger!Open(View(t), job.kind)
           /\ View(Append(t, job)) = Ledger!Joined(View(t), job.kind)
<1>1. job \in Job /\ job.kind \in Kind
  BY DEF Joins, Job
<1>2. ~Ledger!Open(View(t), job.kind)
  BY OpenIsActive DEF Joins
<1>3. Entry(job) = Ledger!Fresh(job.kind)
  BY DEF Entry, Ledger!Fresh, Joins
<1>4. View(Append(t, job)) = Append(View(t), Entry(job))
  BY <1>1, ViewJoins DEF TableOk
<1>5. QED
  BY <1>1, <1>2, <1>3, <1>4 DEF Ledger!Joined

\* A step that inserts one row.
LEMMA InsertGood ==
    ASSUME PInv, rec'.revision \in Nat, rec.revision <= rec'.revision,
           NEW job, Joins(jobs, job, rec'.revision), jobs' = Append(jobs, job),
           \/ rec'.revision = rec.revision
           \/ rec'.revision = rec.revision + 1 /\ job.revision = rec'.revision,
           Knows', Registered', Chosen
    PROVE  Good
<1>1. TableOk(jobs) /\ Tabled(jobs, rec.revision) /\ rec.revision \in Nat
  BY Revisions DEF PInv, IInv
<1>2. Tabled(jobs', rec'.revision)
  BY <1>1, JoinKeeps
<1>3. Ledger!Submit
  <2>1. /\ job.kind \in Kind
        /\ ~Ledger!Open(Entries, job.kind)
        /\ Entries' = Ledger!Joined(Entries, job.kind)
    BY <1>1, JoinSubmits, EntriesAre
  <2>2. QED
    BY <2>1 DEF Ledger!Submit
<1>4. Revises
  <2>1. Len(jobs) + 1 \in DOMAIN jobs' \ Ids /\ jobs'[Len(jobs) + 1] = job
    <3>1. /\ DOMAIN jobs = 1..Len(jobs) /\ DOMAIN jobs' = 1..(Len(jobs) + 1)
          /\ Len(jobs) \in Nat /\ jobs'[Len(jobs) + 1] = job
      BY <1>1, AppendProperties, LenProperties DEF TableOk, Joins
    <3>2. QED
      BY <3>1 DEF Ids
  <2>2. QED
    BY <2>1 DEF Revises
<1>5. QED
  BY <1>2, <1>3, <1>4 DEF Good, Ledger!LedgerNext

\* A step that changes one row.
LEMMA ReplaceGood ==
    ASSUME PInv, RowKept, UNCHANGED art, NEW j, NEW job,
           Replaces(jobs, j, job, rec.revision), jobs' = [jobs EXCEPT ![j] = job],
           Entries' = [Entries EXCEPT ![j] = Entry(job)] => [Ledger!LedgerNext]_Entries,
           Knows'
    PROVE  Good
<1>1. TableOk(jobs) /\ Tabled(jobs, rec.revision) /\ rec.revision \in Nat
      /\ rec'.revision = rec.revision
  BY Revisions DEF PInv, IInv, RowKept
<1>2. Tabled(jobs', rec'.revision)
  <2>1. rec.revision <= rec.revision
    BY <1>1
  <2>2. Tabled(jobs', rec.revision)
    BY <1>1, <2>1, ReplaceKeeps
  <2>3. QED
    BY <1>1, <2>2
<1>3. Entries' = [Entries EXCEPT ![j] = Entry(job)]
  <2>1. j \in Ids
    BY DEF Replaces, Ids
  <2>2. QED
    BY <2>1 DEF Entries, Ids
<1>4. Registered'
  BY <1>1, RegisteredStill
<1>5. QED
  BY <1>1, <1>2, <1>3, <1>4 DEF Good, Revises, Chosen, RowKept

\* No entry runs unless a row does.
LEMMA EntryOf ==
    ASSUME NEW j \in Ids
    PROVE  /\ j \in DOMAIN Entries
           /\ Entries[j] = [kind |-> jobs[j].kind, phase |-> jobs[j].status,
                            attempts |-> jobs[j].attempts]
  BY DEF Entries, Entry

\* claim_next_job: a job is taken that has an attempt left.
LEMMA ClaimGood == ASSUME PInv, Claim PROVE Good
<1> DEFINE h == Head(queue)
           job == [jobs[h] EXCEPT !.status = "running", !.attempts = @ + 1]
<1>1. /\ TableOk(jobs) /\ OrderOk(jobs, queue) /\ queue # <<>>
      /\ worker.pc = "idle" /\ Running = {} /\ Tabled(jobs, rec.revision)
  BY DEF Claim, At, PInv, IInv, OneRunning
<1>2. h \in Ids /\ jobs[h].status = "queued"
  BY <1>1, OrderTail DEF Ids
<1>3. jobs[h] \in Job /\ jobs[h].attempts \in Nat
  BY <1>1, <1>2, RowsTyped DEF Ids
<1>4. /\ jobs' = [jobs EXCEPT ![h] = job] /\ UNCHANGED <<rec, art>>
      /\ worker' = [Unemployed("claimed") EXCEPT !.job = h]
  BY DEF Claim
<1> HIDE DEF h
<1>5. /\ job \in Job /\ job.kind = jobs[h].kind /\ job.status = "running"
      /\ job.attempts = jobs[h].attempts + 1
      /\ job.revision = jobs[h].revision /\ job.input = jobs[h].input
      /\ job.open = jobs[h].open
  <2>1. jobs[h].attempts + 1 \in Nat
    BY <1>3
  <2>2. QED
    BY <1>3, <2>1 DEF Job, JobStatus
<1> HIDE DEF job
<1>6. Replaces(jobs, h, job, rec.revision)
  <2>1. Limited => Tries(job)
    BY <1>1, <1>2, <1>3, <1>5 DEF Tabled, Tries, Ids, RetryLimit
  <2>2. job.revision <= rec.revision
    BY <1>1, <1>2, <1>5 DEF Tabled, Ids
  <2>3. QED
    BY <1>2, <1>5, <2>1, <2>2 DEF Replaces, IsActive, Ids
<1>7. ASSUME Entries' = [Entries EXCEPT ![h] = Entry(job)] PROVE Ledger!Take
  <2>1. \A i \in DOMAIN Entries : Entries[i].phase # "running"
    BY <1>1 DEF Entries, Entry, Running
  <2>2. /\ h \in DOMAIN Entries
        /\ Entries[h] = [kind |-> jobs[h].kind, phase |-> jobs[h].status,
                         attempts |-> jobs[h].attempts]
    BY <1>2, EntryOf
  <2>3. /\ Entries[h].phase = "queued"
        /\ Entry(job) = [Entries[h] EXCEPT !.phase = "running", !.attempts = @ + 1]
    <3>1. Entry(job) = [kind |-> jobs[h].kind, phase |-> "running",
                        attempts |-> jobs[h].attempts + 1]
      BY <1>5 DEF Entry
    <3>2. Entries[h].phase = "queued" /\ Entries[h].attempts = jobs[h].attempts
      BY <1>2, <2>2
    <3>3. PICK e : e = Entries[h]
      OBVIOUS
    <3>4. PICK f : f = [e EXCEPT !.phase = "running", !.attempts = @ + 1]
      OBVIOUS
    <3>5. f = [kind |-> jobs[h].kind, phase |-> "running", attempts |-> jobs[h].attempts + 1]
      <4> DEFINE n == e.attempts + 1
                 kind == jobs[h].kind
                 phase == jobs[h].status
                 a == jobs[h].attempts
      <4>1. f = [e EXCEPT !.phase = "running", !.attempts = n] /\ n = a + 1
        BY <3>2, <3>3, <3>4
      <4>2. e = [kind |-> kind, phase |-> phase, attempts |-> a]
        BY <2>2, <3>3
      <4> HIDE DEF n, kind, phase, a
      <4>3. f = [kind |-> kind, phase |-> "running", attempts |-> n]
        BY <4>1, <4>2
      <4>4. QED
        BY <4>1, <4>3 DEF kind, a
    <3>6. Entry(job) = f
      BY <3>1, <3>5
    <3>7. QED
      BY <3>2, <3>3, <3>4, <3>6
  <2>4. Entries' = [Entries EXCEPT ![h] = [Entries[h] EXCEPT !.phase = "running",
                                                             !.attempts = @ + 1]]
    BY <1>7, <2>3
  <2>5. Entries' = [Entries EXCEPT ![h].phase = "running", ![h].attempts = @ + 1]
    BY <2>2, <2>4
  <2>6. QED
    BY <2>1, <2>2, <2>3, <2>5 DEF Ledger!Take
<1>8. Knows'
  BY <1>4, KnowsStill DEF Unemployed, Ahead
<1>9. QED
  BY <1>4, <1>6, <1>7, <1>8, ReplaceGood, SameRow DEF Ledger!LedgerNext

\* What finishing or putting back a running row does to its entry.
LEMMA RunningEnds ==
    ASSUME NEW j \in Ids, jobs[j].status = "running", NEW job, job.kind = jobs[j].kind,
           job.attempts = jobs[j].attempts, job.status \in {"queued", "succeeded", "failed"},
           Entries' = [Entries EXCEPT ![j] = Entry(job)]
    PROVE  Ledger!PutBack \/ Ledger!End
<1>1. /\ j \in DOMAIN Entries /\ Entries[j].phase = "running"
      /\ Entries[j] = [kind |-> jobs[j].kind, phase |-> jobs[j].status,
                       attempts |-> jobs[j].attempts]
  BY EntryOf
<1>2. Entry(job) = [Entries[j] EXCEPT !.phase = job.status]
  BY <1>1 DEF Entry
<1>3. Entries' = [Entries EXCEPT ![j].phase = job.status]
  BY <1>1, <1>2
<1>4. CASE job.status = "queued"
  BY <1>1, <1>3, <1>4 DEF Ledger!PutBack
<1>5. CASE job.status \in {"succeeded", "failed"}
  BY <1>1, <1>3, <1>5 DEF Ledger!End, Ledger!Ended
<1>6. QED
  BY <1>4, <1>5

\* The worker's job is put back or finished.
LEMMA MineEnds ==
    ASSUME PInv, worker.pc \notin {"down", "recovering", "idle"},
           NEW job \in Job, job.kind = Mine.kind,
           job.revision = Mine.revision, job.input = Mine.input,
           job.attempts = Mine.attempts, job.status \in {"queued", "succeeded", "failed"},
           job.status = "queued" /\ Limited => job.attempts < RetryLimit,
           job.open => Mine.open /\ IsActive(job.status),
           jobs' = [jobs EXCEPT ![worker.job] = job], RowKept, UNCHANGED art,
           NEW pc, pc \notin Ahead, worker' = Unemployed(pc)
    PROVE  Good
<1>1. /\ worker.job \in Ids /\ Mine.status = "running" /\ Mine \in Job
      /\ Tabled(jobs, rec.revision) /\ TableOk(jobs)
  BY MineRunning DEF PInv, IInv
<1>2. Replaces(jobs, worker.job, job, rec.revision)
  <2>1. Limited => Tries(job)
    <3>1. Limited => Mine.attempts <= RetryLimit
      BY <1>1 DEF Tabled, Tries, Mine, Ids
    <3>2. QED
      BY <3>1 DEF Tries
  <2>2. job.revision <= rec.revision
    BY <1>1 DEF Tabled, Mine, Ids
  <2>3. QED
    BY <1>1, <2>1, <2>2 DEF Replaces, IsActive, Mine, Ids
<1>3. Entries' = [Entries EXCEPT ![worker.job] = Entry(job)] => Ledger!PutBack \/ Ledger!End
  BY <1>1, RunningEnds DEF Mine
<1>4. Knows'
  BY UnemployedKnows DEF RowKept
<1>5. QED
  BY <1>2, <1>3, <1>4, ReplaceGood DEF Ledger!LedgerNext

\* release_job, below the bound on stops.
LEMMA ReleaseGood == ASSUME PInv, Release PROVE Good
<1> DEFINE job == [Mine EXCEPT !.status = "queued"]
<1>1. /\ worker.pc = "claimed" /\ "stop" \in Faults /\ Mine.attempts < MaxAttempts
      /\ jobs' = [jobs EXCEPT ![worker.job] = job] /\ UNCHANGED <<rec, art>>
      /\ worker' = Unemployed("down")
  BY DEF Release, At, Mine
<1>2. Mine \in Job /\ Mine.attempts \in Nat
  BY <1>1, MineRunning DEF PInv, Job
<1>3. /\ job \in Job /\ job.kind = Mine.kind /\ job.status = "queued"
      /\ job.revision = Mine.revision /\ job.input = Mine.input
      /\ job.attempts = Mine.attempts /\ job.open = Mine.open
  BY <1>2 DEF Job, JobStatus
<1> HIDE DEF job
<1>4. Limited => job.attempts < RetryLimit
  BY <1>1, <1>2, <1>3, BoundAssumption DEF Limited, RetryLimit
<1>5. "down" \notin Ahead
  BY DEF Ahead
<1>6. RowKept
  BY <1>1, SameRow
<1>7. QED
  BY <1>1, <1>3, <1>4, <1>5, <1>6, MineEnds DEF IsActive

\* What finishing does to the parts of a row.
LEMMA ClosedIs ==
    ASSUME NEW job \in Job, NEW status \in JobStatus
    PROVE  /\ Closed(job, status) \in Job
           /\ Closed(job, status).kind = job.kind
           /\ Closed(job, status).status = status
           /\ Closed(job, status).revision = job.revision
           /\ Closed(job, status).input = job.input
           /\ Closed(job, status).attempts = job.attempts
           /\ Closed(job, status).revived = job.revived
           /\ Closed(job, status).open => job.open /\ IsActive(status)
<1>1. (job.open /\ IsActive(status)) \in BOOLEAN
  BY Zenon
<1>2. Closed(job, status) = [job EXCEPT !.status = status,
                                        !.open = job.open /\ IsActive(status)]
  BY DEF Closed, Job
<1> DEFINE open == job.open /\ IsActive(status)
<1>3. Closed(job, status) = [job EXCEPT !.status = status, !.open = open] /\ open \in BOOLEAN
  BY <1>1, <1>2
<1>4. open => job.open /\ IsActive(status)
  OBVIOUS
<1> HIDE DEF open
<1>5. QED
  BY <1>3, <1>4 DEF Job

\* complete_job.
LEMMA CompleteJobGood == ASSUME PInv, CompleteJob PROVE Good
<1>1. /\ worker.pc = "done" /\ worker' = Unemployed("idle") /\ UNCHANGED <<rec, art>>
      /\ jobs' = [jobs EXCEPT ![worker.job] = Closed(Mine, "succeeded")]
  BY DEF CompleteJob, At, Finish, Mine
<1>2. Mine \in Job /\ "succeeded" \in JobStatus
  BY <1>1, MineRunning DEF PInv, JobStatus
<1> DEFINE job == Closed(Mine, "succeeded")
<1>3. /\ job \in Job /\ job.kind = Mine.kind /\ job.status = "succeeded"
      /\ job.revision = Mine.revision /\ job.input = Mine.input
      /\ job.attempts = Mine.attempts /\ (job.open => Mine.open /\ IsActive(job.status))
  BY <1>2, ClosedIs
<1> HIDE DEF job
<1>4. "idle" \notin Ahead /\ RowKept
  BY <1>1, SameRow DEF Ahead
<1>5. jobs' = [jobs EXCEPT ![worker.job] = job]
  BY <1>1 DEF job
<1>6. QED
  BY <1>1, <1>3, <1>4, <1>5, MineEnds

\* fail_job: a retry while an attempt is left, otherwise the end.
LEMMA FailJobGood == ASSUME PInv, FailJob PROVE Good
<1>1. worker.pc = "failing" /\ worker' = Unemployed("idle") /\ UNCHANGED art
  BY DEF FailJob, At
<1>2. Mine \in Job
  BY <1>1, MineRunning DEF PInv
<1>3. RowKept
  BY SameRow, StatusKept DEF FailJob, Transition
<1>4. "idle" \notin Ahead
  BY DEF Ahead
<1>5. CASE Retries
  <2> DEFINE job == [Mine EXCEPT !.status = "queued"]
  <2>1. jobs' = [jobs EXCEPT ![worker.job] = job] /\ Mine.attempts < RetryLimit
    BY <1>5 DEF FailJob, Mine, Retries
  <2>2. /\ job \in Job /\ job.kind = Mine.kind /\ job.status = "queued"
        /\ job.revision = Mine.revision /\ job.input = Mine.input
        /\ job.attempts = Mine.attempts /\ job.open = Mine.open
    BY <1>2 DEF Job, JobStatus
  <2> HIDE DEF job
  <2>3. QED
    BY <1>1, <1>3, <1>4, <2>1, <2>2, MineEnds DEF IsActive
<1>6. CASE ~Retries
  <2> DEFINE job == Closed(Mine, "failed")
  <2>1. jobs' = [jobs EXCEPT ![worker.job] = job]
    BY <1>6 DEF FailJob, Finish, Mine
  <2>2. /\ job \in Job /\ job.kind = Mine.kind /\ job.status = "failed"
        /\ job.revision = Mine.revision /\ job.input = Mine.input
        /\ job.attempts = Mine.attempts /\ (job.open => Mine.open /\ IsActive(job.status))
    BY <1>2, ClosedIs DEF JobStatus
  <2> HIDE DEF job
  <2>3. QED
    BY <1>1, <1>3, <1>4, <2>1, <2>2, MineEnds
<1>7. QED
  BY <1>5, <1>6

-----------------------------------------------------------------------------
(* The steps that touch neither jobs nor documents *)

\* A handler ends without touching them.
LEMMA OverGood ==
    ASSUME PInv, UNCHANGED <<jobs, art>>, RowKept, NEW retryable,
           Return \/ Raise(retryable)
    PROVE  Good
  BY OverKnows, StillGood DEF RowKept

\* A handler goes on with what it holds.
LEMMA GotoGood ==
    ASSUME PInv, UNCHANGED <<jobs, art>>, RowKept, worker.pc \notin Ahead,
           NEW pc, pc \notin Ahead, Goto(pc)
    PROVE  Good
  BY GotoKnows, StillGood DEF RowKept

\* Failures, stops and crashes.
LEMMA FailGood == ASSUME PInv, Fail PROVE Good
<1>1. CASE ModelFails \/ WriteFails \/ SyncFails \/ RendererFails
  <2>1. UNCHANGED <<jobs, art, rec>> /\ \E retryable \in BOOLEAN : Raise(retryable)
    BY <1>1 DEF ModelFails, WriteFails, SyncFails, RendererFails
  <2>2. QED
    BY <2>1, SameRow, OverGood
<1>2. CASE Release
  BY <1>2, ReleaseGood
<1>3. CASE Crash \/ Shutdown
  <2>1. UNCHANGED <<jobs, art, rec>> /\ worker' = Unemployed("down")
    BY <1>3 DEF Crash, Shutdown
  <2>2. RowKept /\ Knows'
    BY <2>1, SameRow, UnemployedKnows DEF Ahead, RowKept
  <2>3. QED
    BY <2>1, <2>2, StillGood
<1>4. QED
  BY <1>1, <1>2, <1>3 DEF Fail

\* The end of a backoff, and a recovery that is rolled back.
LEMMA IdleGood == ASSUME PInv, BackoffExpires \/ RecoverAborts PROVE Good
<1>1. CASE BackoffExpires
  <2>1. UNCHANGED <<rec, jobs, art, worker>>
    BY <1>1 DEF BackoffExpires
  <2>2. Knows'
    BY <2>1 DEF PInv, Knows, Mine
  <2>3. QED
    BY <2>1, <2>2, SameRow, StillGood
<1>2. CASE RecoverAborts
  <2>1. /\ UNCHANGED <<rec, jobs, art>> /\ worker.pc = "recovering"
        /\ Goto("down")
    BY <1>2 DEF RecoverAborts, Goto
  <2>2. QED
    BY <2>1, SameRow, GotoGood DEF Ahead
<1>3. QED
  BY <1>1, <1>2

\* The recordings row a handler reads is the present one.
LEMMA ProceedGood ==
    ASSUME PInv, UNCHANGED <<jobs, art>>, RowKept, NEW pc, pc \notin Ahead,
           NEW doc, doc = None \/ doc.revision <= rec.revision, Proceed(pc, doc)
    PROVE  Good
<1>1. worker \in Worker /\ rec.revision \in Nat
  BY Revisions DEF PInv, IInv, Hand
<1>2. worker'.seen = rec /\ worker'.doc = doc /\ worker'.pc = pc
  BY <1>1 DEF Proceed, Worker
<1>3. Knows'
  BY <1>1, <1>2 DEF Knows, RowKept
<1>4. QED
  BY <1>3, StillGood

\* The first part of a handler.
LEMMA StartGood ==
    ASSUME PInv, \/ StartTranscribe \/ StartClassify \/ StartFinalize \/ StartSummarize
                 \/ StartRender
    PROVE  Good
<1>1. "model" \notin Ahead /\ "jsonFile" \notin Ahead /\ rec.revision \in Nat
      /\ rec.revision <= rec.revision
  BY Revisions DEF Ahead
<1>2. CASE StartTranscribe
  <2>1. UNCHANGED <<jobs, art>>
    BY <1>2 DEF StartTranscribe
  <2>2. RowKept
    BY <1>2, SameRow, StatusKept DEF StartTranscribe, Transition
  <2>3. Proceed("model", None) \/ Raise(FALSE)
    BY <1>2 DEF StartTranscribe
  <2>4. QED
    BY <1>1, <2>1, <2>2, <2>3, ProceedGood, OverGood
<1>3. CASE StartClassify
  <2>1. UNCHANGED <<jobs, art>>
    BY <1>3 DEF StartClassify
  <2>2. RowKept
    BY <1>3, SameRow, StatusKept DEF StartClassify, Transition
  <2>3. \/ Loads(rec.revision) /\ Proceed("model", FileAt(rec.revision))
        \/ \E retryable \in BOOLEAN : Raise(retryable)
    <3>1. FileGone(rec.revision) \in BOOLEAN
      BY Zenon DEF FileGone
    <3>2. QED
      BY <1>3, <3>1 DEF StartClassify, ClassifyRevision
  <2>4. CASE Loads(rec.revision) /\ Proceed("model", FileAt(rec.revision))
    <3>1. FileAt(rec.revision).revision <= rec.revision
      BY <1>1, <2>4 DEF Loads
    <3>2. QED
      BY <1>1, <2>1, <2>2, <2>4, <3>1, ProceedGood
  <2>5. CASE \E retryable \in BOOLEAN : Raise(retryable)
    BY <2>1, <2>2, <2>5, OverGood
  <2>6. QED
    BY <2>3, <2>4, <2>5
<1>4. CASE StartFinalize
  BY <1>1, <1>4, SameRow, ProceedGood, OverGood DEF StartFinalize
<1>5. CASE StartSummarize
  <2>1. UNCHANGED <<rec, jobs, art>>
    BY <1>5 DEF StartSummarize
  <2>2. Return \/ Proceed("model", None) \/ Raise(FileGone(rec.revision))
    BY <1>5 DEF StartSummarize
  <2>3. QED
    BY <1>1, <2>1, <2>2, SameRow, ProceedGood, OverGood
<1>6. CASE StartRender
  <2>1. UNCHANGED <<rec, jobs, art>>
    BY <1>6 DEF StartRender
  <2>2. \/ Raise(FALSE) \/ Raise(TRUE)
        \/ \E old : Proceed("jsonFile", Rerendered(old))
    BY <1>6, Zenon DEF StartRender
  <2>3. ASSUME NEW old, Proceed("jsonFile", Rerendered(old)) PROVE Good
    <3>1. Rerendered(old).revision <= rec.revision
      BY <1>1 DEF Rerendered
    <3>2. QED
      BY <1>1, <2>1, <2>3, <3>1, SameRow, ProceedGood
  <2>4. QED
    BY <2>1, <2>2, <2>3, SameRow, OverGood
<1>7. QED
  BY <1>2, <1>3, <1>4, <1>5, <1>6

\* A transcription arrives: for the revision read at the start, or for the
\* one that will follow the job's.
LEMMA TranscribedGood == ASSUME PInv, Transcribed PROVE Good
<1>1. /\ worker.pc = "model" /\ UNCHANGED <<rec, jobs, art>>
      /\ worker \in Worker /\ rec.revision \in Nat
      /\ worker.seen \in RecordingRow
  <2>1. worker.pc = "model" /\ UNCHANGED <<rec, jobs, art>>
    BY DEF Transcribed, At
  <2>2. worker.seen \in RecordingRow /\ worker \in Worker
    BY <2>1, Employed DEF PInv, IInv, Hand, Fits, Saw
  <2>3. QED
    BY <2>1, <2>2, Revisions
<1>2. Knows'
  <2>1. CASE Retranscription(worker.job)
    <3>1. worker' = [worker EXCEPT !.pc = "stage", !.doc = FreshTranscript(Mine.revision + 1)]
      BY <2>1 DEF Transcribed
    <3>2. /\ worker'.pc = "stage" /\ worker'.seen = worker.seen
          /\ worker'.doc = FreshTranscript(Mine.revision + 1) /\ worker'.job = worker.job
      BY <1>1, <3>1 DEF Worker
    <3>3. worker'.doc.revision = Mine.revision + 1 /\ Mine' = Mine
      BY <1>1, <3>2 DEF FreshTranscript, Mine
    <3>4. QED
      BY <1>1, <3>2, <3>3 DEF PInv, Knows, Ahead
  <2>2. CASE ~Retranscription(worker.job)
    <3>1. worker' = [worker EXCEPT !.pc = "jsonFile",
                                   !.doc = FreshTranscript(worker.seen.revision)]
      BY <2>2 DEF Transcribed
    <3>2. /\ worker'.pc = "jsonFile" /\ worker'.seen = worker.seen
          /\ worker'.doc = FreshTranscript(worker.seen.revision)
      BY <1>1, <3>1 DEF Worker
    <3>3. worker.seen.revision <= rec.revision
      BY <1>1, AbsenceAssumption DEF PInv, Knows
    <3>4. worker'.doc.revision <= rec.revision
      BY <3>2, <3>3 DEF FreshTranscript
    <3>5. QED
      BY <1>1, <3>2, <3>4 DEF PInv, Knows, Ahead
  <2>3. QED
    BY <2>1, <2>2
<1>3. QED
  BY <1>1, <1>2, SameRow, StillGood

\* A classification arrives; it leaves a category the user chose.
LEMMA ClassifiedGood == ASSUME PInv, Classified PROVE Good
<1>1. /\ worker.pc = "model" /\ UNCHANGED <<jobs, art>>
      /\ worker \in Worker /\ rec.revision \in Nat /\ rec \in RecordingRow
      /\ worker.doc \in Transcript
  <2>1. worker.pc = "model" /\ UNCHANGED <<jobs, art>> /\ Mine.kind = "classify"
    BY DEF Classified, At, Doing
  <2>2. worker.doc \in Transcript /\ worker \in Worker
    BY <2>1, Employed DEF PInv, IInv, Hand, Fits, Holds
  <2>3. QED
    BY <2>1, <2>2, Revisions DEF PInv, IInv, Row
<1>2. RowKept
  BY <1>1 DEF Classified, KeepsCategory, RowKept, RecordingRow
<1>3. Knows'
  <2>1. worker' = [worker EXCEPT !.pc = "jsonFile",
                                 !.doc = [@ EXCEPT !.category = rec'.category,
                                                   !.source = rec'.source,
                                                   !.graded = TRUE]]
    BY DEF Classified
  <2>2. /\ worker'.pc = "jsonFile" /\ worker'.seen = worker.seen
        /\ worker'.doc = [worker.doc EXCEPT !.category = rec'.category,
                                            !.source = rec'.source, !.graded = TRUE]
    BY <1>1, <2>1 DEF Worker
  <2>3. worker'.doc.revision = worker.doc.revision
    BY <1>1, <2>2 DEF Transcript
  <2>4. worker.doc.revision <= rec.revision
    BY <1>1, AbsenceAssumption DEF PInv, Knows, Ahead
  <2>5. QED
    BY <1>1, <1>2, <2>2, <2>3, <2>4 DEF PInv, Knows, Ahead, RowKept
<1>4. QED
  BY <1>1, <1>2, <1>3, StillGood

\* Steps between files and rows that change no row.
LEMMA WritesGood ==
    ASSUME PInv, \/ Summarized \/ Embedded \/ WriteJson \/ WriteMarkdown
                 \/ CutClips \/ RegisterClips
                 \/ KeepSpeakers \/ WriteSummary \/ MarkFailed \/ LastTransition
    PROVE  Good
<1>1. CASE Summarized \/ Embedded \/ WriteJson \/ WriteMarkdown \/ CutClips \/ WriteSummary
  <2>1. /\ UNCHANGED <<rec, jobs, art>> /\ worker.pc \notin Ahead
        /\ \E pc \in {"sumFile", "match", "jsonRow", "mdRow", "clipRows", "sumRow"} : Goto(pc)
    BY <1>1 DEF Summarized, Embedded, WriteJson, WriteMarkdown, CutClips, WriteSummary,
                At, Ahead
  <2>2. QED
    BY <2>1, SameRow, GotoGood DEF Ahead
<1>2. CASE RegisterClips
  <2>1. /\ UNCHANGED <<rec, jobs, art>> /\ worker.pc \notin Ahead
        /\ Goto("settle") \/ Goto("follow") \/ Return
    BY <1>2 DEF RegisterClips, At, Ahead
  <2>2. QED
    BY <2>1, SameRow, GotoGood, OverGood DEF Ahead
<1>3. CASE KeepSpeakers
  <2>1. /\ UNCHANGED <<rec, jobs, art>> /\ worker.pc \notin Ahead
        /\ Goto("follow") \/ Return
    BY <1>3 DEF KeepSpeakers, At, Ahead
  <2>2. QED
    BY <2>1, SameRow, GotoGood, OverGood DEF Ahead
<1>4. CASE MarkFailed
  <2>1. UNCHANGED <<jobs, art>> /\ worker.pc \notin Ahead /\ Goto("failing")
    BY <1>4 DEF MarkFailed, At, Ahead
  <2>2. RowKept
    BY <1>4, SameRow, StatusKept DEF MarkFailed, Transition
  <2>3. QED
    BY <2>1, <2>2, GotoGood DEF Ahead
<1>5. CASE LastTransition
  <2>1. UNCHANGED <<jobs, art>> /\ (Return \/ Raise(FALSE))
    BY <1>5 DEF LastTransition
  <2>2. RowKept
    BY <1>5, SameRow, StatusKept DEF LastTransition, Transition
  <2>3. QED
    BY <2>1, <2>2, OverGood
<1>6. QED
  BY <1>1, <1>2, <1>3, <1>4, <1>5

\* Staging a retranscription, or giving it up.
LEMMA StageGood == ASSUME PInv, StageRetranscription \/ AbandonRetranscription PROVE Good
<1>1. CASE AbandonRetranscription
  BY <1>1, SameRow, OverGood DEF AbandonRetranscription
<1>2. CASE StageRetranscription
  <2>1. worker.pc = "stage" /\ UNCHANGED <<rec, jobs, art>> /\ worker \in Worker
    BY <1>2 DEF StageRetranscription, At, PInv, IInv, Hand
  <2>2. CASE Raise(FALSE)
    BY <2>1, <2>2, SameRow, OverGood
  <2>3. CASE Goto("commit")
    <3>1. /\ worker'.pc = "commit" /\ worker'.seen = worker.seen
          /\ worker'.doc = worker.doc /\ worker'.job = worker.job
      BY <2>1, <2>3 DEF Goto, Worker
    <3>2. Mine' = Mine
      BY <2>1, <3>1 DEF Mine
    <3>3. Knows'
      BY <2>1, <3>1, <3>2 DEF PInv, Knows, Ahead
    <3>4. QED
      BY <2>1, <3>3, SameRow, StillGood
  <2>4. QED
    BY <1>2, <2>2, <2>3 DEF StageRetranscription
<1>3. QED
  BY <1>1, <1>2

-----------------------------------------------------------------------------
(* The steps that register documents *)

\* A transcript is registered as the revision it is of.
LEMMA JsonRegistered ==
    ASSUME PInv, NEW path, NEW content \in Transcript, RegisterJson(path, content),
           rec'.revision \in Nat, rec.revision <= rec'.revision,
           content.revision <= rec'.revision
    PROVE  Registered'
<1> DEFINE row == [path |-> path, content |-> content]
<1>1. /\ Files /\ rec.revision \in Nat /\ content.revision \in Revision
      /\ art' = [art EXCEPT !.json[content.revision] = row]
      /\ row.content.revision = content.revision
  BY Revisions DEF PInv, IInv, RegisterJson, Transcript
<1> HIDE DEF row
<1>2. /\ art'.md = art.md /\ art'.sum = art.sum
      /\ \A r \in Revision : art'.json[r] = IF r = content.revision THEN row ELSE art.json[r]
  BY <1>1 DEF Files
<1>3. \A r \in Revision : r \in Nat
  BY DEF Revision
<1>4. \A s \in art.sum : s.revision \in Nat
  BY <1>1, <1>3 DEF Files, Summary
<1>5. QED
  BY <1>1, <1>2, <1>3, <1>4 DEF PInv, Registered

\* Whatever the worker writes is of a revision the recording has reached.
LEMMA WrittenReached ==
    ASSUME PInv, worker.pc \in {"jsonRow", "mdRow", "clips", "settle"}
    PROVE  /\ worker.doc \in Transcript /\ worker.doc.revision \in Revision
           /\ worker.doc.revision <= rec.revision /\ worker.pc \notin Ahead
<1>1. worker.doc \in Transcript /\ worker.doc.revision \in Revision
  BY WrittenDocument DEF PInv
<1>2. QED
  BY <1>1, AbsenceAssumption DEF PInv, Knows, Ahead

\* The transcript's row, after its file.
LEMMA RegisterTranscriptGood == ASSUME PInv, RegisterTranscript PROVE Good
<1>1. /\ worker.pc = "jsonRow" /\ UNCHANGED <<rec, jobs>>
      /\ RegisterJson(JsonPath, worker.doc) /\ (Goto("clips") \/ Goto("mdFile"))
  BY DEF RegisterTranscript, At
<1>2. worker.doc \in Transcript /\ worker.doc.revision <= rec.revision /\ worker.pc \notin Ahead
  BY <1>1, WrittenReached
<1>3. rec'.revision = rec.revision /\ rec.revision \in Nat /\ rec.revision <= rec.revision
  BY <1>1, Revisions
<1>4. Registered'
  BY <1>1, <1>2, <1>3, JsonRegistered
<1>5. Knows'
  BY <1>1, <1>2, <1>3, GotoKnows DEF Ahead
<1>6. QED
  BY <1>1, <1>4, <1>5, SameRow, RegisterGood

\* The Markdown document's row, after its file.
LEMMA RegisterMarkdownGood == ASSUME PInv, RegisterMarkdown PROVE Good
<1>1. /\ worker.pc = "mdRow" /\ UNCHANGED <<rec, jobs>>
      /\ art' = [art EXCEPT !.md[worker.doc.revision] = Rendered(worker.doc)]
      /\ (Goto("settle") \/ Goto("follow"))
  BY DEF RegisterMarkdown, At
<1>2. /\ worker.doc.revision \in Revision /\ worker.doc.revision <= rec.revision
      /\ worker.pc \notin Ahead
  BY <1>1, WrittenReached
<1>3. rec'.revision = rec.revision /\ Files
  BY <1>1 DEF PInv, IInv
<1>4. Registered'
  <2>1. /\ art'.json = art.json /\ art'.sum = art.sum
        /\ \A r \in Revision : r # worker.doc.revision => art'.md[r] = art.md[r]
    BY <1>1, <1>3 DEF Files
  <2>2. QED
    BY <1>2, <1>3, <2>1 DEF PInv, Registered
<1>5. Knows'
  BY <1>1, <1>2, <1>3, GotoKnows DEF Ahead
<1>6. QED
  BY <1>1, <1>4, <1>5, SameRow, RegisterGood

\* A summary is registered for a revision the recording has reached.
LEMMA SummaryRegistered ==
    ASSUME PInv, NEW new, new.revision <= rec.revision, rec'.revision = rec.revision,
           art' = [art EXCEPT !.sum = SummaryRowsAfter(new)]
    PROVE  Registered'
<1>1. Files
  BY DEF PInv, IInv
<1>2. /\ art'.json = art.json /\ art'.md = art.md
      /\ \A s \in art'.sum : s \in art.sum \/ s = new
  BY <1>1 DEF Files, SummaryRowsAfter
<1>3. QED
  BY <1>2 DEF PInv, Registered

\* The summary's row, after its file.
LEMMA RegisterSummaryGood == ASSUME PInv, RegisterSummary PROVE Good
<1>1. /\ worker.pc = "sumRow" /\ UNCHANGED <<rec, jobs>>
      /\ art' = [art EXCEPT !.sum = SummaryRowsAfter(NewSummary)]
      /\ (Return \/ Goto("ready"))
  BY DEF RegisterSummary, At
<1>2. worker.seen \in RecordingRow /\ worker.pc \notin Ahead
  <2>1. Fits(worker, Mine.kind) /\ Mine.kind = "summarize"
    BY <1>1, Employed DEF PInv, IInv, Fits, Places
  <2>2. QED
    BY <1>1, <2>1 DEF Fits, Saw, Ahead
<1>3. NewSummary.revision <= rec.revision
  <2>1. worker.seen.revision <= rec.revision
    BY <1>2, AbsenceAssumption DEF PInv, Knows
  <2>2. QED
    BY <2>1 DEF NewSummary
<1>4. rec'.revision = rec.revision
  BY <1>1
<1>5. Registered'
  BY <1>1, <1>3, <1>4, SummaryRegistered
<1>6. Knows'
  BY <1>1, <1>2, <1>4, OverKnows, GotoKnows DEF Ahead
<1>7. QED
  BY <1>1, <1>5, <1>6, SameRow, RegisterGood

\* Reconciliation registers summaries of the present revision only.
LEMMA ReconcileGood == ASSUME PInv, Reconcile PROVE Good
<1>1. worker.pc = "down" /\ UNCHANGED <<rec, jobs>> /\ Goto("recovering")
  BY DEF Reconcile, Goto
<1>2. rec'.revision = rec.revision /\ rec.revision \in Nat
  BY <1>1, Revisions
<1>3. Registered'
  <2>1. CASE UNCHANGED art
    BY <1>2, <2>1, RegisteredStill
  <2>2. CASE \E f \in LostSummaries : art' = [art EXCEPT !.sum = SummaryRowsAfter(f)]
    <3>1. PICK f \in LostSummaries : art' = [art EXCEPT !.sum = SummaryRowsAfter(f)]
      BY <2>2
    <3>2. f.revision <= rec.revision
      BY <1>2 DEF LostSummaries
    <3>3. QED
      BY <1>2, <3>1, <3>2, SummaryRegistered
  <2>3. QED
    BY <2>1, <2>2 DEF Reconcile
<1>4. Knows'
  BY <1>1, <1>2, GotoKnows DEF Ahead
<1>5. QED
  BY <1>1, <1>3, <1>4, SameRow, RegisterGood

-----------------------------------------------------------------------------
(* The steps that insert a job *)

\* A new job joins if none of its kind is active and none was for its input.
LEMMA NewJoins ==
    ASSUME PInv, NEW kind \in Kind, NEW revision \in Revision, NEW input \in Fingerprint,
           NEW r, revision <= r, ~ActiveKind(kind),
           \A i \in Ids : /\ jobs[i].kind = kind
                          /\ jobs[i].revision = revision
                          /\ jobs[i].input = input
                          => jobs[i].status = "failed"
    PROVE  Joins(jobs, NewJob(kind, revision, input), r)
<1> DEFINE job == NewJob(kind, revision, input)
<1>1. job \in Job
  BY NewJobIsJob
<1>2. /\ job.kind = kind /\ job.revision = revision /\ job.input = input
      /\ job.status = "queued" /\ job.attempts = 0 /\ job.open = FALSE
  BY DEF NewJob
<1> HIDE DEF job
<1>3. \A i \in DOMAIN jobs : IsActive(jobs[i].status) => jobs[i].kind # job.kind
  BY <1>2 DEF ActiveKind, Active, Ids
<1>4. \A i \in DOMAIN jobs : SameWork(jobs[i], job) => jobs[i].status = "failed"
  BY <1>2 DEF SameWork, Ids
<1>5. QED
  BY <1>1, <1>2, <1>3, <1>4 DEF Joins, job

\* A job for the next revision does.
LEMMA NextJoins ==
    ASSUME PInv, NEW kind \in Kind, RoomForRevision, NEW input \in Fingerprint,
           ~ActiveKind(kind)
    PROVE  Joins(jobs, NewJob(kind, rec.revision + 1, input), rec.revision + 1)
<1>1. rec.revision \in Nat /\ rec.revision + 1 \in Revision
  BY Revisions, RevisionBelow DEF PInv, IInv
<1>2. \A i \in Ids : jobs[i].revision # rec.revision + 1
  <2>1. \A i \in Ids : jobs[i].revision <= rec.revision /\ jobs[i].revision \in Nat
    BY RowsTyped DEF PInv, IInv, Tabled, Ids
  <2>2. QED
    BY <1>1, <2>1
<1>3. rec.revision + 1 <= rec.revision + 1
  BY <1>1
<1> DEFINE next == rec.revision + 1
<1> HIDE DEF next
<1>4. Joins(jobs, NewJob(kind, next, input), next)
  BY <1>1, <1>2, <1>3, NewJoins DEF next
<1>5. QED
  BY <1>4 DEF next

\* SameInput finds every job for an input that has not failed.
LEMMA NoSameInput ==
    ASSUME PInv, NEW kind, NEW revision, NEW input, SameInput(kind, revision, input) = {}
    PROVE  \A i \in Ids : /\ jobs[i].kind = kind
                          /\ jobs[i].revision = revision
                          /\ jobs[i].input = input
                          => jobs[i].status = "failed"
<1>1. \A i \in Ids : jobs[i].status \in JobStatus
  BY RowsTyped DEF PInv, IInv, Ids, Job
<1>2. QED
  BY <1>1 DEF SameInput, JobStatus

\* A job inserted at the recording's revision.
LEMMA InsertNowGood ==
    ASSUME PInv, UNCHANGED art, RowKept, Knows',
           NEW job, Joins(jobs, job, rec.revision), Insert(job)
    PROVE  Good
<1>1. rec'.revision = rec.revision /\ rec.revision \in Nat /\ rec.revision <= rec'.revision
  BY Revisions DEF RowKept
<1>2. Registered'
  BY <1>1, RegisteredStill
<1>3. QED
  BY <1>1, <1>2, InsertGood DEF Insert, Chosen, RowKept

\* A job inserted with the recording's next revision.
LEMMA InsertNextGood ==
    ASSUME PInv, UNCHANGED art, rec'.revision = rec.revision + 1, Chosen, Knows',
           NEW job, Joins(jobs, job, rec.revision + 1), job.revision = rec.revision + 1,
           Insert(job)
    PROVE  Good
<1>1. rec.revision \in Nat /\ rec'.revision \in Nat /\ rec.revision <= rec'.revision
  BY Revisions
<1>2. Registered'
  BY <1>1, RegisteredStill
<1>3. QED
  BY <1>1, <1>2, InsertGood DEF Insert

\* enqueue_job, whether it inserts or finds a job for the same input.
LEMMA EnqueueGood ==
    ASSUME PInv, UNCHANGED art, RowKept, Knows',
           NEW kind \in Kind, NEW revision \in Revision, NEW input \in Fingerprint,
           revision <= rec.revision,
           CanEnqueue(kind, revision, input), Enqueue(kind, revision, input)
    PROVE  Good
<1>1. CASE SameInput(kind, revision, input) # {}
  BY <1>1, StillGood DEF Enqueue
<1>2. CASE SameInput(kind, revision, input) = {}
  <2>1. ~ActiveKind(kind)
    BY <1>2 DEF CanEnqueue, Conflicts
  <2>2. Joins(jobs, NewJob(kind, revision, input), rec.revision)
    BY <1>2, <2>1, NoSameInput, NewJoins
  <2>3. QED
    BY <1>2, <2>2, InsertNowGood DEF Enqueue
<1>3. QED
  BY <1>1, <1>2

\* What a handler at its last part knows.
LEMMA FollowKnows ==
    ASSUME PInv, worker.pc = "follow"
    PROVE  /\ Mine.kind \in {"transcribe", "classify"} => worker.doc.revision <= rec.revision
           /\ Mine.kind \in {"finalize_speakers", "render"} =>
                 worker.seen.revision <= rec.revision
           /\ worker.pc \notin Ahead
<1>1. /\ Mine.kind \in {"transcribe", "classify"} => worker.doc \in Transcript
      /\ Mine.kind \in {"finalize_speakers", "render"} => worker.seen \in RecordingRow
  BY AtFollow DEF PInv
<1>2. QED
  BY <1>1, AbsenceAssumption DEF PInv, Knows, Ahead

\* A new transcript is followed by a finalize_speakers job.
LEMMA FollowTranscribeGood == ASSUME PInv, FollowTranscribe PROVE Good
<1>1. /\ worker.pc = "follow" /\ Mine.kind = "transcribe" /\ UNCHANGED <<rec, art>>
      /\ worker.doc.revision \in Revision /\ worker.doc.revision <= rec.revision
  BY AtFollow, FollowKnows DEF FollowTranscribe, At, Doing, PInv
<1>2. CASE CanEnqueue("finalize_speakers", worker.doc.revision, "current")
  <2>1. Enqueue("finalize_speakers", worker.doc.revision, "current") /\ Return
    BY <1>2 DEF FollowTranscribe
  <2>2. Knows' /\ RowKept
    BY <1>1, <2>1, OverKnows, SameRow
  <2>3. QED
    BY <1>1, <1>2, <2>1, <2>2, EnqueueGood DEF Kind, Fingerprint
<1>3. CASE ~CanEnqueue("finalize_speakers", worker.doc.revision, "current")
  BY <1>1, <1>3, SameRow, OverGood DEF FollowTranscribe
<1>4. QED
  BY <1>2, <1>3

\* The status and the follow-up job change together or not at all.
LEMMA TransitionAndEnqueueGood ==
    ASSUME PInv, UNCHANGED art, NEW target, NEW kind \in Kind, NEW revision \in Revision,
           NEW input \in Fingerprint, revision <= rec.revision,
           TransitionAndEnqueue(target, kind, revision, input)
    PROVE  Good
<1>1. CASE CanTransition(target) /\ CanEnqueue(kind, revision, input)
  <2>1. Transition(target) /\ Enqueue(kind, revision, input) /\ Return
    BY <1>1 DEF TransitionAndEnqueue
  <2>2. RowKept
    BY <2>1, StatusKept DEF Transition
  <2>3. Knows'
    BY <2>1, <2>2, OverKnows DEF RowKept
  <2>4. QED
    BY <1>1, <2>1, <2>2, <2>3, EnqueueGood
<1>2. CASE ~(CanTransition(target) /\ CanEnqueue(kind, revision, input))
  BY <1>2, SameRow, OverGood DEF TransitionAndEnqueue
<1>3. QED
  BY <1>1, <1>2

\* The speakers of a new transcription are followed by its classification.
LEMMA FollowFinalizeGood == ASSUME PInv, FollowFinalize PROVE Good
<1>1. /\ worker.pc = "follow" /\ Mine.kind = "finalize_speakers" /\ UNCHANGED art
      /\ worker.seen.revision \in Revision /\ worker.seen.revision <= rec.revision
  BY AtFollow, FollowKnows DEF FollowFinalize, At, Doing, PInv
<1>2. CASE AwaitsClassification
  <2>1. TransitionAndEnqueue("CLASSIFYING", "classify", worker.seen.revision, "current")
    BY <1>2 DEF FollowFinalize
  <2>2. QED
    BY <1>1, <2>1, TransitionAndEnqueueGood DEF Kind, Fingerprint
<1>3. CASE ~AwaitsClassification
  BY <1>1, <1>3, SameRow, OverGood DEF FollowFinalize
<1>4. QED
  BY <1>2, <1>3

\* A classification is followed by a summary, or by READY_FOR_SUMMARY.
LEMMA FollowClassifyGood == ASSUME PInv, FollowClassify PROVE Good
<1> DEFINE doc == worker.doc
<1>1. /\ worker.pc = "follow" /\ Mine.kind = "classify" /\ UNCHANGED art
      /\ doc \in Transcript /\ doc.revision \in Revision /\ doc.revision <= rec.revision
      /\ worker.pc \notin Ahead
  BY AtFollow, FollowKnows DEF FollowClassify, At, Doing, PInv
<1>2. doc.category \in Category
  BY <1>1, AtFollow DEF PInv
<1>3. CASE Summarises(doc.revision, doc.category)
  <2>1. TransitionAndEnqueue("SUMMARIZING", "summarize", doc.revision, doc.category)
    BY <1>3 DEF FollowClassify
  <2>2. QED
    BY <1>1, <1>2, <2>1, TransitionAndEnqueueGood DEF Kind, Fingerprint
<1>4. CASE ~Summarises(doc.revision, doc.category)
  <2>1. /\ UNCHANGED jobs
        /\ \/ Transition("READY_FOR_SUMMARY") /\ Goto("ready")
           \/ Raise(FALSE) /\ UNCHANGED rec
    BY <1>4 DEF FollowClassify
  <2>2. RowKept
    BY <2>1, SameRow, StatusKept DEF Transition
  <2>3. QED
    BY <1>1, <2>1, <2>2, GotoGood, OverGood DEF Ahead
<1>5. QED
  BY <1>3, <1>4

\* A rendering is followed by a summary, if the recording had one.
LEMMA FollowRenderGood == ASSUME PInv, FollowRender PROVE Good
<1> DEFINE seen == worker.seen
<1>1. /\ worker.pc = "follow" /\ Mine.kind = "render" /\ UNCHANGED <<rec, art>>
      /\ seen.revision \in Revision /\ seen.category \in Category
      /\ seen.revision <= rec.revision /\ worker.pc \notin Ahead
  BY AtFollow, FollowKnows DEF FollowRender, At, Doing, PInv
<1>2. \/ (Return \/ Raise(FALSE)) /\ UNCHANGED jobs
      \/ /\ CanEnqueue("summarize", seen.revision, seen.category)
         /\ Enqueue("summarize", seen.revision, seen.category)
         /\ Goto("resummarize") \/ Return
  BY DEF FollowRender
<1>3. CASE (Return \/ Raise(FALSE)) /\ UNCHANGED jobs
  BY <1>1, <1>3, SameRow, OverGood
<1>4. CASE /\ CanEnqueue("summarize", seen.revision, seen.category)
           /\ Enqueue("summarize", seen.revision, seen.category)
           /\ Goto("resummarize") \/ Return
  <2>1. Knows' /\ RowKept
    BY <1>1, <1>4, OverKnows, GotoKnows, SameRow DEF Ahead
  <2>2. QED
    BY <1>1, <1>4, <2>1, EnqueueGood DEF Kind, Fingerprint
<1>5. QED
  BY <1>2, <1>3, <1>4

\* The end of a resumed transcribe.
LEMMA SettleTranscribeGood == ASSUME PInv, SettleTranscribe PROVE Good
<1> DEFINE r == worker.doc.revision
<1>1. /\ worker.pc = "settle" /\ UNCHANGED <<rec, art>>
      /\ r \in Revision /\ r <= rec.revision
  <2>1. worker.pc = "settle" /\ UNCHANGED <<rec, art>>
    BY DEF SettleTranscribe, At
  <2>2. QED
    BY <2>1, WrittenReached
<1>2. CASE (Return \/ Raise(FALSE)) /\ UNCHANGED jobs
  BY <1>1, <1>2, SameRow, OverGood
<1>3. CASE /\ ~FollowConflicts("finalize_speakers", r) /\ FollowMissing("finalize_speakers", r)
           /\ Return /\ Insert(NewJob("finalize_speakers", r, "current"))
  <2>1. /\ ~ActiveKind("finalize_speakers")
        /\ \A i \in Ids : ~(jobs[i].kind = "finalize_speakers" /\ jobs[i].revision = r)
    BY <1>3 DEF FollowConflicts, FollowMissing, Conflicts, OfInput
  <2>2. Joins(jobs, NewJob("finalize_speakers", r, "current"), rec.revision)
    BY <1>1, <2>1, NewJoins DEF Kind, Fingerprint
  <2>3. Knows' /\ RowKept
    BY <1>1, <1>3, OverKnows, SameRow
  <2>4. QED
    BY <1>1, <1>3, <2>2, <2>3, InsertNowGood
<1>4. QED
  BY <1>2, <1>3 DEF SettleTranscribe

\* The follow-up of a completion joins the jobs.
LEMMA FollowUpJoins ==
    ASSUME PInv, NEW plan, NEW kind, PlanOk(plan, kind), ~CompletionConflicts(plan),
           CompletionInserts(plan)
    PROVE  Joins(jobs, NewJob("summarize", rec.revision, rec.category), rec.revision)
<1>1. /\ rec.category \in Category /\ rec.revision \in Revision /\ rec.revision \in Nat
      /\ rec.revision <= rec.revision
  BY Revisions DEF CompletionInserts, PlanOk, PInv, IInv, Row, RecordingRow
<1>2. /\ ~ActiveKind("summarize")
      /\ \A i \in Ids : ~(jobs[i].kind = "summarize" /\ jobs[i].revision = rec.revision)
  BY DEF CompletionInserts, CompletionConflicts, FollowConflicts, FollowMissing, Conflicts,
         OfInput
<1>3. QED
  BY <1>1, <1>2, NewJoins DEF Kind, Fingerprint

\* A completion in the handler.
LEMMA ResumeCompleteGood ==
    ASSUME PInv, UNCHANGED art, NEW plan, NEW kind, PlanOk(plan, kind), ResumeComplete(plan)
    PROVE  Good
<1>1. Return /\ ~CompletionConflicts(plan) /\ ApplyCompletion(plan, jobs)
  BY DEF ResumeComplete
<1>2. RowKept
  BY <1>1, StatusKept DEF ApplyCompletion
<1>3. Knows'
  BY <1>1, <1>2, OverKnows DEF RowKept
<1>4. CASE CompletionInserts(plan)
  <2>1. Joins(jobs, NewJob("summarize", rec.revision, rec.category), rec.revision)
    BY <1>1, <1>4, FollowUpJoins
  <2>2. Insert(NewJob("summarize", rec.revision, rec.category))
    BY <1>1, <1>4 DEF ApplyCompletion, Insert
  <2>3. QED
    BY <1>2, <1>3, <2>1, <2>2, InsertNowGood
<1>5. CASE ~CompletionInserts(plan)
  BY <1>1, <1>2, <1>3, <1>5, StillGood DEF ApplyCompletion
<1>6. QED
  BY <1>4, <1>5

\* .. or its refusal.
LEMMA ResumeRefusedGood ==
    ASSUME PInv, UNCHANGED art, NEW plan, ResumeRefused(plan)
    PROVE  Good
<1>1. /\ UNCHANGED <<rec, jobs>> /\ worker'.seen = None /\ worker'.doc = None
      /\ worker'.pc \notin Ahead
  BY DEF ResumeRefused, Unemployed, Ahead
<1>2. Knows'
  BY <1>1, KnowsStill
<1>3. QED
  BY <1>1, <1>2, SameRow, StillGood

\* The inspection before a recovered or retried job is executed.
LEMMA ResumeRecoveredGood == ASSUME PInv, ResumeRecovered PROVE Good
<1>1. worker.pc = "claimed" /\ UNCHANGED art /\ worker.pc \notin Ahead /\ Busy
  BY DEF ResumeRecovered, At, Ahead, Busy
<1>2. PICK sourceOk \in SourceOutcomes :
         LET plan == Inspect(worker.job, sourceOk)
         IN  ResumeComplete(plan) \/ ResumeRefused(plan)
               \/ ResumeHalfway(plan) \/ StartOver(plan)
  BY DEF ResumeRecovered
<1> DEFINE plan == Inspect(worker.job, sourceOk)
<1>3. PlanOk(plan, Mine.kind)
  BY <1>1, InspectMine DEF PInv
<1> HIDE DEF plan
<1>4. CASE ResumeComplete(plan)
  BY <1>1, <1>3, <1>4, ResumeCompleteGood
<1>5. CASE ResumeRefused(plan)
  BY <1>1, <1>5, ResumeRefusedGood
<1>6. CASE StartOver(plan)
  BY <1>1, <1>6, SameRow, GotoGood DEF StartOver, Ahead
<1>7. CASE ResumeHalfway(plan)
  <2>1. /\ UNCHANGED <<rec, jobs, art>> /\ worker \in Worker /\ rec.revision \in Revision
        /\ HasJson(rec.revision)
    BY <1>1, <1>3, <1>7 DEF ResumeHalfway, PlanOk, PInv, IInv, Hand, Row, RecordingRow
  <2>2. PICK pc \in {"clips", "jsonFile"} :
           worker' = [worker EXCEPT !.pc = pc,
                                    !.doc = art.json[rec.revision].content,
                                    !.resumed = TRUE]
    BY <1>7 DEF ResumeHalfway
  <2>3. /\ worker'.pc = pc /\ worker'.seen = worker.seen
        /\ worker'.doc = art.json[rec.revision].content
    BY <2>1, <2>2 DEF Worker
  <2>4. art.json[rec.revision].content.revision = rec.revision
    BY <2>1 DEF PInv, Registered, HasJson
  <2>5. rec.revision \in Nat
    BY Revisions
  <2>6. Knows'
    BY <2>1, <2>3, <2>4, <2>5 DEF PInv, Knows, Ahead
  <2>7. QED
    BY <2>1, <2>6, SameRow, StillGood
<1>8. QED
  BY <1>2, <1>4, <1>5, <1>6, <1>7 DEF plan

\* The end of a resumed classify.
LEMMA SettleClassifyGood == ASSUME PInv, SettleClassify PROVE Good
<1>1. UNCHANGED art /\ Busy
  BY DEF SettleClassify, At, Busy
<1>2. PICK sourceOk \in SourceOutcomes :
         LET plan == Inspect(worker.job, sourceOk)
         IN  \/ ResumeComplete(plan)
             \/ ResumeRefused(plan)
             \/ Return /\ UNCHANGED <<rec, jobs, queue>>
  BY DEF SettleClassify
<1> DEFINE plan == Inspect(worker.job, sourceOk)
<1>3. PlanOk(plan, Mine.kind)
  BY <1>1, InspectMine DEF PInv
<1> HIDE DEF plan
<1>4. CASE ResumeComplete(plan)
  BY <1>1, <1>3, <1>4, ResumeCompleteGood
<1>5. CASE ResumeRefused(plan)
  BY <1>1, <1>5, ResumeRefusedGood
<1>6. CASE Return /\ UNCHANGED <<rec, jobs, queue>>
  BY <1>1, <1>6, SameRow, OverGood
<1>7. QED
  BY <1>2, <1>4, <1>5, <1>6 DEF plan

-----------------------------------------------------------------------------
(* Recovery of the interrupted job *)

\* The row recovery writes.
RecoveredRow(j, status) == [Closed(jobs[j], status) EXCEPT !.revived = TRUE]

\* The row recovery writes is the interrupted one with another status.
LEMMA RecoveredIs ==
    ASSUME PInv, NEW j \in Stale, NEW status \in {"queued", "succeeded", "failed"},
           status = "queued" => jobs[j].attempts < RetryLimit
    PROVE  LET job == RecoveredRow(j, status)
           IN  /\ Replaces(jobs, j, job, rec.revision)
               /\ Recovered(j, status) = [jobs EXCEPT ![j] = job]
               /\ j \in Ids /\ jobs[j].status = "running"
               /\ job.kind = jobs[j].kind /\ job.attempts = jobs[j].attempts
               /\ job.status = status
               /\ job.revision = jobs[j].revision /\ job.input = jobs[j].input
<1> DEFINE closed == Closed(jobs[j], status)
           job == RecoveredRow(j, status)
<1>1. /\ j \in Ids /\ j \in DOMAIN jobs /\ jobs[j].status = "running" /\ jobs[j] \in Job
      /\ Tabled(jobs, rec.revision) /\ status \in JobStatus
  BY RowsTyped DEF Stale, Ids, PInv, IInv, JobStatus
<1>2. /\ closed \in Job /\ closed.kind = jobs[j].kind /\ closed.status = status
      /\ closed.revision = jobs[j].revision /\ closed.input = jobs[j].input
      /\ closed.attempts = jobs[j].attempts
      /\ closed.open => jobs[j].open /\ IsActive(status)
  BY <1>1, ClosedIs
<1>3. Recovered(j, status) = [jobs EXCEPT ![j] = job]
  BY DEF Recovered, RecoveredRow
<1>4. job = [closed EXCEPT !.revived = TRUE]
  BY DEF RecoveredRow
<1> HIDE DEF closed, job
<1>5. /\ job \in Job /\ job.kind = jobs[j].kind /\ job.status = status
      /\ job.revision = jobs[j].revision /\ job.input = jobs[j].input
      /\ job.attempts = jobs[j].attempts
      /\ job.open => jobs[j].open /\ IsActive(status)
  BY <1>2, <1>4 DEF Job
<1>6. Limited => Tries(job)
  BY <1>1, <1>5 DEF Tabled, Tries
<1>7. job.revision <= rec.revision
  BY <1>1, <1>5 DEF Tabled
<1>8. Replaces(jobs, j, job, rec.revision)
  BY <1>1, <1>5, <1>6, <1>7 DEF Replaces, IsActive
<1>9. QED
  BY <1>1, <1>3, <1>5, <1>8 DEF job

\* Recovery gives the row a new status and inserts nothing.
LEMMA RecoveredGood ==
    ASSUME PInv, RowKept, UNCHANGED art, Knows', NEW j \in Stale,
           NEW status \in {"queued", "succeeded", "failed"},
           status = "queued" => jobs[j].attempts < RetryLimit,
           jobs' = Recovered(j, status)
    PROVE  Good
<1> DEFINE job == RecoveredRow(j, status)
<1>1. /\ Replaces(jobs, j, job, rec.revision)
      /\ Recovered(j, status) = [jobs EXCEPT ![j] = job]
      /\ j \in Ids /\ jobs[j].status = "running"
      /\ job.kind = jobs[j].kind /\ job.attempts = jobs[j].attempts
      /\ job.status = status
  BY RecoveredIs
<1> HIDE DEF job
<1>2. jobs' = [jobs EXCEPT ![j] = job]
  BY <1>1
<1>3. Entries' = [Entries EXCEPT ![j] = Entry(job)] => Ledger!PutBack \/ Ledger!End
  BY <1>1, RunningEnds
<1>4. QED
  BY <1>1, <1>2, <1>3, ReplaceGood DEF Ledger!LedgerNext

\* Recovery completes the job and inserts its follow-up.
LEMMA RecoveredWithFollowUp ==
    ASSUME PInv, worker.job = 0, RowKept, UNCHANGED art, Knows',
           NEW j \in Stale, NEW plan, NEW kind,
           PlanOk(plan, kind), ~CompletionConflicts(plan), CompletionInserts(plan),
           jobs' = Append(Recovered(j, "succeeded"),
                          NewJob("summarize", rec.revision, rec.category))
    PROVE  Good
<1> DEFINE ended == RecoveredRow(j, "succeeded")
           t == Recovered(j, "succeeded")
           job == NewJob("summarize", rec.revision, rec.category)
           r == rec.revision
<1>1. /\ Replaces(jobs, j, ended, r)
      /\ t = [jobs EXCEPT ![j] = ended]
      /\ j \in Ids /\ jobs[j].status = "running"
      /\ ended.kind = jobs[j].kind /\ ended.attempts = jobs[j].attempts
      /\ ended.status = "succeeded"
      /\ ended.revision = jobs[j].revision /\ ended.input = jobs[j].input
  BY RecoveredIs
<1>2. Joins(jobs, job, r)
  BY FollowUpJoins
<1>3. /\ r \in Nat /\ r <= r /\ rec'.revision = r /\ TableOk(jobs) /\ Tabled(jobs, r)
  BY Revisions DEF RowKept, PInv, IInv
<1>4. TableOk(t)
  BY RecoveredKeeps DEF PInv, JobStatus
<1>5. jobs' = Append(t, job)
  OBVIOUS
<1> HIDE DEF ended, t, job
<1>6. Tabled(t, r)
  BY <1>1, <1>3, ReplaceKeeps
<1>7. \A i \in DOMAIN t : i \in DOMAIN jobs /\ t[i] = IF i = j THEN ended ELSE jobs[i]
  BY <1>1
<1>8. Joins(t, job, r)
  <2>1. \A i \in DOMAIN t : IsActive(t[i].status) => t[i].kind # job.kind
    BY <1>1, <1>2, <1>7 DEF Joins, IsActive
  <2>2. ASSUME NEW i \in DOMAIN t, SameWork(t[i], job) PROVE t[i].status = "failed"
    <3>1. SameWork(jobs[i], job)
      BY <1>1, <1>7, <2>2 DEF SameWork
    <3>2. ~Redoes(job)
      BY DEF job, NewJob, Redoes
    <3>3. jobs[i].status = "failed"
      BY <1>2, <1>7, <3>1, <3>2 DEF Joins
    <3>4. QED
      BY <1>1, <1>7, <3>3
  <2>3. QED
    BY <1>2, <2>1, <2>2 DEF Joins
<1>9. Tabled(jobs', rec'.revision)
  BY <1>3, <1>4, <1>5, <1>6, <1>8, JoinKeeps
<1>10. Registered'
  BY <1>3, RegisteredStill
<1>11. Ledger!End
  <2>1. View(t) = [View(jobs) EXCEPT ![j] = Entry(ended)]
    BY <1>1, ViewReplaces DEF Ids
  <2>2. /\ j \in DOMAIN Entries /\ Entries[j].phase = "running"
        /\ Entries[j] = [kind |-> jobs[j].kind, phase |-> jobs[j].status,
                         attempts |-> jobs[j].attempts]
    BY <1>1, EntryOf
  <2>3. Entry(ended) = [Entries[j] EXCEPT !.phase = "succeeded"]
    BY <1>1, <2>2 DEF Entry
  <2>4. View(t) = [Entries EXCEPT ![j].phase = "succeeded"]
    BY <2>1, <2>2, <2>3, EntriesAre
  <2>5. /\ job.kind \in Kind
        /\ ~Ledger!Open(View(t), job.kind)
        /\ Entries' = Ledger!Joined(View(t), job.kind)
    BY <1>4, <1>5, <1>8, JoinSubmits, EntriesAre
  <2>6. QED
    BY <2>2, <2>4, <2>5 DEF Ledger!End, Ledger!Ended
<1>12. Revises
  BY <1>3 DEF Revises
<1>13. QED
  BY <1>9, <1>10, <1>11, <1>12 DEF Good, Chosen, RowKept, Ledger!LedgerNext

\* recover_stale_jobs.
LEMMA RecoverGood == ASSUME PInv, Recover PROVE Good
<1>1. /\ worker.pc = "recovering" /\ worker.job = 0 /\ UNCHANGED art /\ Goto("idle")
      /\ worker.pc \notin Ahead /\ "idle" \notin Ahead
  BY DEF Recover, Goto, Ahead, PInv, IInv, Hand
<1>2. CASE UNCHANGED <<rec, jobs>>
  BY <1>1, <1>2, SameRow, GotoGood
<1>3. ASSUME NEW j \in Stale, NEW sourceOk \in SourceOutcomes,
             \/ RecoverComplete(j, Inspect(j, sourceOk))
             \/ RecoverRequeue(j, Inspect(j, sourceOk))
             \/ RecoverFail(j, Inspect(j, sourceOk))
      PROVE  Good
  <2> DEFINE plan == Inspect(j, sourceOk)
  <2>1. PlanOk(plan, jobs[j].kind)
    BY InspectOk DEF PInv, IInv, Stale, SourceOutcomes
  <2> HIDE DEF plan
  <2>2. CASE RecoverComplete(j, plan)
    <3>1. ~CompletionConflicts(plan) /\ ApplyCompletion(plan, Recovered(j, "succeeded"))
      BY <2>2 DEF RecoverComplete
    <3>2. RowKept
      BY <3>1, StatusKept DEF ApplyCompletion
    <3>3. Knows'
      BY <1>1, <3>2, GotoKnows DEF RowKept
    <3>4. CASE CompletionInserts(plan)
      <4>1. jobs' = Append(Recovered(j, "succeeded"),
                           NewJob("summarize", rec.revision, rec.category))
        BY <3>1, <3>4 DEF ApplyCompletion
      <4>2. QED
        BY <1>1, <2>1, <3>1, <3>2, <3>3, <3>4, <4>1, RecoveredWithFollowUp
    <3>5. CASE ~CompletionInserts(plan)
      <4>1. jobs' = Recovered(j, "succeeded")
        BY <3>1, <3>5 DEF ApplyCompletion
      <4>2. QED
        BY <1>1, <3>2, <3>3, <4>1, RecoveredGood
    <3>6. QED
      BY <3>4, <3>5
  <2>3. CASE RecoverRequeue(j, plan)
    <3>1. jobs' = Recovered(j, "queued") /\ UNCHANGED rec /\ jobs[j].attempts < RetryLimit
      BY <2>3 DEF RecoverRequeue, RecoveryLimit, RetryLimit
    <3>2. RowKept /\ Knows'
      BY <1>1, <3>1, SameRow, GotoKnows
    <3>3. QED
      BY <1>1, <3>1, <3>2, RecoveredGood
  <2>4. CASE RecoverFail(j, plan)
    <3>1. jobs' = Recovered(j, "failed")
      BY <2>4 DEF RecoverFail
    <3>2. RowKept
      BY <2>4, SameRow, StatusKept DEF RecoverFail, Transition
    <3>3. Knows'
      BY <1>1, <3>2, GotoKnows DEF RowKept
    <3>4. QED
      BY <1>1, <3>1, <3>2, <3>3, RecoveredGood
  <2>5. QED
    BY <1>3, <2>2, <2>3, <2>4 DEF plan
<1>4. QED
  BY <1>2, <1>3 DEF Recover


-----------------------------------------------------------------------------
(* The steps that raise the recording's revision, and the other requests *)

\* What the worker holds is a row or transcript of some revision.
LEMMA HeldRevisions ==
    ASSUME PInv
    PROVE  /\ worker.seen # None => worker.seen.revision \in Nat
           /\ worker.doc # None => worker.doc.revision \in Nat
<1>1. /\ worker.seen \in RecordingRow \cup {None} /\ worker.doc \in Transcript \cup {None}
  BY DEF PInv, IInv, Hand, Worker
<1>2. \A r \in Revision : r \in Nat
  BY DEF Revision
<1>3. QED
  BY <1>1, <1>2 DEF RecordingRow, Transcript

\* A request leaves the worker and the running rows alone.
LEMMA RequestKnows ==
    ASSUME PInv, worker' = worker, rec'.revision \in Nat, rec.revision <= rec'.revision,
           \A i \in Ids : jobs[i].status = "running" => jobs'[i] = jobs[i]
    PROVE  Knows'
<1>1. rec.revision \in Nat
  BY Revisions
<1>2. worker.pc \in Ahead => Mine' = Mine
  <2>1. worker.pc \in Ahead => worker.job \in Ids /\ Mine.status = "running"
    BY MineRunning DEF PInv, Ahead
  <2>2. QED
    BY <2>1 DEF Mine
<1>3. QED
  BY <1>1, <1>2, HeldRevisions DEF PInv, Knows

\* An insert leaves every row alone.
LEMMA InsertedRows ==
    ASSUME PInv, NEW job \in Job, Insert(job)
    PROVE  \A i \in Ids : jobs'[i] = jobs[i]
<1>1. DOMAIN jobs = 1..Len(jobs) /\ \A i \in 1..Len(jobs) : jobs'[i] = jobs[i]
  BY AppendProperties, LenProperties DEF PInv, IInv, TableOk, Insert
<1>2. QED
  BY <1>1 DEF Ids

\* A request that inserts a job for the next revision.
LEMMA EditGood ==
    ASSUME PInv, RoomForRevision, NEW kind \in Kind, NEW input \in Fingerprint,
           ~ActiveKind(kind), Insert(NewJob(kind, rec.revision + 1, input)),
           rec'.revision = rec.revision + 1, Chosen, UNCHANGED <<art, worker>>
    PROVE  Good
<1> DEFINE job == NewJob(kind, rec.revision + 1, input)
<1>1. rec.revision \in Nat /\ rec'.revision \in Nat /\ rec.revision <= rec'.revision
  BY Revisions
<1>2. Joins(jobs, job, rec.revision + 1)
  BY NextJoins
<1>3. job.revision = rec.revision + 1
  BY DEF NewJob
<1>4. Knows'
  BY <1>1, <1>2, InsertedRows, RequestKnows DEF Joins
<1>5. QED
  BY <1>2, <1>3, <1>4, InsertNextGood

\* A renamed person makes a revision and its render job.
LEMMA RenamePersonGood == ASSUME PInv, RenamePerson PROVE Good
<1>1. /\ RoomForRevision /\ ~ActiveKind("render") /\ rec' = [rec EXCEPT !.revision = @ + 1]
      /\ Insert(NewJob("render", rec.revision + 1, "speaker-edit-v1"))
      /\ UNCHANGED <<art, worker>>
  BY DEF RenamePerson, RenderActive, SpeakerRender
<1>2. rec'.revision = rec.revision + 1 /\ Chosen
  BY <1>1 DEF Chosen, PInv, IInv, Row, RecordingRow
<1>3. QED
  BY <1>1, <1>2, EditGood DEF Kind, Fingerprint

\* So does a category edit, which sets the user's category.
LEMMA UpdateCategoryGood == ASSUME PInv, UpdateCategory PROVE Good
<1>1. /\ RoomForRevision /\ ~ActiveKind("render")
      /\ Insert(NewJob("render", rec.revision + 1, "category-edit-v1"))
      /\ UNCHANGED <<art, worker>>
  BY DEF UpdateCategory, CategoryInUse, ActiveAmong
<1>2. PICK c \in Category :
         rec' = [rec EXCEPT !.category = c, !.source = "manual", !.revision = @ + 1]
  BY DEF UpdateCategory
<1>3. rec'.revision = rec.revision + 1 /\ Chosen
  BY <1>2 DEF Chosen, PInv, IInv, Row, RecordingRow
<1>4. QED
  BY <1>1, <1>3, EditGood DEF Kind, Fingerprint

\* A requested summary is the only active one, and new for its input.
LEMMA RequestSummaryGood == ASSUME PInv, RequestSummary PROVE Good
<1>1. /\ rec.category # None /\ SameInput("summarize", rec.revision, rec.category) = {}
      /\ ~ActiveKind("summarize") /\ Insert(NewJob("summarize", rec.revision, rec.category))
      /\ rec' = [rec EXCEPT !.status = "SUMMARIZING"] /\ UNCHANGED <<art, worker>>
  BY DEF RequestSummary
<1>2. /\ rec.category \in Category /\ rec.revision \in Revision /\ rec.revision \in Nat
      /\ rec.revision <= rec.revision
  BY <1>1, Revisions DEF PInv, IInv, Row, RecordingRow
<1>3. RowKept
  BY <1>1, StatusKept
<1>4. Joins(jobs, NewJob("summarize", rec.revision, rec.category), rec.revision)
  BY <1>1, <1>2, NoSameInput, NewJoins DEF Kind, Fingerprint
<1>5. Knows'
  BY <1>1, <1>2, <1>3, <1>4, InsertedRows, RequestKnows DEF Joins, RowKept
<1>6. QED
  BY <1>1, <1>3, <1>4, <1>5, InsertNowGood

\* A retranscription is requested while no transcribe job is active.
LEMMA CreateRetranscriptionGood == ASSUME PInv, CreateRetranscription PROVE Good
<1> DEFINE r == rec.revision
           job == [NewJob("transcribe", r, "retranscription") EXCEPT !.open = TRUE]
<1>1. ~ActiveKind("transcribe") /\ Insert(job) /\ UNCHANGED <<rec, art, worker>>
  BY DEF CreateRetranscription, SpeechBusy, ActiveAmong
<1>2. r \in Revision /\ r \in Nat /\ r <= r
  BY Revisions DEF PInv, IInv, Row, RecordingRow
<1>3. /\ job \in Job /\ job.kind = "transcribe" /\ job.status = "queued" /\ job.attempts = 0
      /\ job.revision = r /\ Redoes(job)
  BY <1>2 DEF NewJob, Job, Kind, Fingerprint, JobStatus, Redoes
<1> HIDE DEF job
<1>4. \A i \in DOMAIN jobs : IsActive(jobs[i].status) => jobs[i].kind # job.kind
  BY <1>1, <1>3 DEF ActiveKind, Active, Ids
<1>5. Joins(jobs, job, r)
  BY <1>2, <1>3, <1>4 DEF Joins
<1>6. RowKept /\ Knows'
  BY <1>1, <1>2, <1>3, SameRow, InsertedRows, RequestKnows
<1>7. QED
  BY <1>1, <1>5, <1>6, InsertNowGood

\* A retried job is a new row for an input that never succeeded.
LEMMA RetryJobGood == ASSUME PInv, RetryJob PROVE Good
<1>1. PICK j \in Ids, sourceOk \in SourceOutcomes :
         /\ Retryable(j, sourceOk)
         /\ Insert([NewJob(jobs[j].kind, jobs[j].revision, jobs[j].input)
                       EXCEPT !.revived = TRUE, !.retryOf = j])
         /\ rec' = [rec EXCEPT !.status = RetriedStatus(jobs[j].kind)]
  BY DEF RetryJob
<1> DEFINE r == rec.revision
           job == [NewJob(jobs[j].kind, jobs[j].revision, jobs[j].input)
                      EXCEPT !.revived = TRUE, !.retryOf = j]
<1>2. /\ jobs[j] \in Job /\ j \in Nat /\ r \in Nat /\ r <= r
  BY RowsTyped, Revisions, LenProperties DEF PInv, IInv, TableOk, Ids
<1>3. /\ jobs[j].revision = r /\ \A other \in Ids : ~Active(other)
      /\ SameInput(jobs[j].kind, jobs[j].revision, jobs[j].input) = {}
  BY <1>1 DEF Retryable
<1>4. /\ job \in Job /\ job.status = "queued" /\ job.attempts = 0 /\ job.open = FALSE
      /\ job.kind = jobs[j].kind /\ job.revision = r /\ job.input = jobs[j].input
  BY <1>2, <1>3 DEF NewJob, Job, JobStatus
<1>5. Insert(job) /\ UNCHANGED <<art, worker>>
  BY <1>1 DEF RetryJob
<1>6. RowKept
  BY <1>1, StatusKept
<1>7. \A i \in DOMAIN jobs : SameWork(jobs[i], job) => jobs[i].status = "failed"
  <2>1. \A i \in Ids : /\ jobs[i].kind = jobs[j].kind
                       /\ jobs[i].revision = jobs[j].revision
                       /\ jobs[i].input = jobs[j].input
                       => jobs[i].status = "failed"
    BY <1>3, NoSameInput
  <2>2. QED
    BY <1>3, <1>4, <2>1 DEF SameWork, Ids
<1> HIDE DEF job
<1>8. Joins(jobs, job, r)
  BY <1>2, <1>3, <1>4, <1>7 DEF Joins, Active, Ids
<1>9. Knows'
  BY <1>2, <1>4, <1>5, <1>6, InsertedRows, RequestKnows DEF RowKept
<1>10. QED
  BY <1>5, <1>6, <1>8, <1>9, InsertNowGood

\* An automatic match is an edit by the worker itself.
LEMMA AutoMatchGood == ASSUME PInv, AutoMatch PROVE Good
<1>1. worker.pc = "match" /\ worker.pc \notin Ahead /\ rec.revision < MaxRevision
      /\ UNCHANGED art
  BY DEF AutoMatch, At, Ahead
<1>2. CASE Conflicts("render")
  BY <1>1, <1>2, SameRow, OverGood DEF AutoMatch
<1>3. CASE ~Conflicts("render")
  <2> DEFINE job == NewJob("render", rec.revision + 1, "speaker-auto-match-v1")
  <2>1. /\ ~ActiveKind("render") /\ rec' = [rec EXCEPT !.revision = @ + 1] /\ Insert(job)
        /\ worker' = [worker EXCEPT !.pc = "follow", !.seen.revision = rec.revision + 1]
    BY <1>3 DEF AutoMatch, Conflicts, Matched
  <2>2. Joins(jobs, job, rec.revision + 1) /\ job.revision = rec.revision + 1
    BY <1>1, <2>1, NextJoins DEF RoomForRevision, Kind, Fingerprint, NewJob
  <2>3. rec'.revision = rec.revision + 1 /\ Chosen
    BY <2>1 DEF Chosen, PInv, IInv, Row, RecordingRow
  <2>4. worker.seen \in RecordingRow /\ worker \in Worker
    <3>1. Fits(worker, Mine.kind) /\ Mine.kind = "finalize_speakers"
      BY <1>1, Employed DEF PInv, IInv, Fits, Places
    <3>2. QED
      BY <1>1, <3>1 DEF Fits, Saw, PInv, IInv, Hand
  <2>5. /\ worker'.pc = "follow" /\ worker'.doc = worker.doc
        /\ worker'.seen.revision = rec'.revision
    BY <2>1, <2>3, <2>4 DEF Worker, RecordingRow
  <2>6. Knows'
    <3>1. rec.revision \in Nat /\ rec'.revision \in Nat /\ rec.revision <= rec'.revision
      BY <2>3, Revisions
    <3>2. rec'.revision <= rec'.revision
      BY <3>1
    <3>3. QED
      BY <1>1, <2>5, <3>1, <3>2, HeldRevisions DEF PInv, Knows, Ahead
  <2>7. QED
    BY <1>1, <2>1, <2>2, <2>3, <2>6, InsertNextGood
<1>4. QED
  BY <1>2, <1>3

\* A retranscription is committed as the revision after its base.
LEMMA CommitGood == ASSUME PInv, CommitRetranscription PROVE Good
<1> DEFINE target == worker.doc.revision
           job == NewJob("finalize_speakers", target, "current")
<1>1. /\ worker.pc = "commit" /\ rec.revision = Mine.revision
      /\ ~ActiveKind("finalize_speakers")
      /\ rec'.revision = target
      /\ rec.source = "manual" => rec'.source = "manual" /\ rec'.category = rec.category
      /\ RegisterJson(target, worker.doc) /\ Insert(job) /\ Goto("clips")
  BY DEF CommitRetranscription, At, CanCommit, Conflicts
<1>2. worker.doc \in Transcript /\ target \in Revision /\ target = rec.revision + 1
  <2>1. Fits(worker, Mine.kind)
    BY <1>1, Employed DEF PInv, IInv
  <2>2. worker.doc \in Transcript
    BY <1>1, <2>1 DEF Fits, Holds
  <2>3. QED
    BY <1>1, <2>2 DEF PInv, Knows, Ahead, Transcript
<1>3. /\ rec.revision \in Nat /\ rec'.revision \in Nat /\ rec.revision <= rec'.revision
      /\ target <= rec'.revision /\ rec'.revision = rec.revision + 1
      /\ rec.revision < MaxRevision
  BY <1>1, <1>2, Revisions, BoundAssumption DEF Revision
<1>4. Joins(jobs, job, rec'.revision)
  <2>1. Joins(jobs, NewJob("finalize_speakers", rec.revision + 1, "current"),
              rec.revision + 1)
    BY <1>1, <1>3, NextJoins DEF RoomForRevision, Kind, Fingerprint
  <2>2. QED
    BY <1>2, <1>3, <2>1
<1>5. job.revision = rec'.revision
  BY <1>1 DEF NewJob
<1>6. Registered'
  BY <1>1, <1>2, <1>3, JsonRegistered
<1>7. Knows'
  <2>1. worker'.doc = worker.doc /\ worker'.seen = worker.seen /\ worker'.pc = "clips"
    BY <1>1 DEF Goto, PInv, IInv, Hand, Worker
  <2>2. QED
    BY <1>3, <2>1, HeldRevisions DEF PInv, Knows, Ahead
<1>8. Chosen
  BY <1>1 DEF Chosen
<1>9. jobs' = Append(jobs, job)
  BY <1>1 DEF Insert
<1> HIDE DEF job, target
<1>10. QED
  BY <1>3, <1>4, <1>5, <1>6, <1>7, <1>8, <1>9, InsertGood

\* A speaker edit submits two jobs.
LEMMA TwoJobsGood ==
    ASSUME PInv, RoomForRevision, ~ActiveKind("render"), QueuedFinalize = {},
           ~FinalizeRunning, rec'.revision = rec.revision + 1, Chosen,
           UNCHANGED <<art, worker>>, InsertRenderAndFinalize
    PROVE  Good
<1> DEFINE r == rec.revision + 1
           finalize == NewJob("finalize_speakers", r, "current")
           render == NewJob("render", r, "speaker-edit-v1")
           t == Append(jobs, render)
<1>1. jobs' = Append(t, finalize)
  BY DEF InsertRenderAndFinalize, SpeakerRender
<1>2. /\ TableOk(jobs) /\ Tabled(jobs, rec.revision) /\ rec.revision \in Nat /\ r \in Nat
      /\ rec.revision <= r /\ r <= r /\ rec'.revision = r
  BY Revisions DEF PInv, IInv
<1>3. ~ActiveKind("finalize_speakers")
  BY DEF ActiveKind, Active, IsActive, QueuedFinalize, FinalizeRunning
<1>4. Joins(jobs, render, r) /\ Joins(jobs, finalize, r)
  BY <1>3, NextJoins DEF Kind, Fingerprint
<1>5. /\ render.kind = "render" /\ render.revision = r /\ render.input = "speaker-edit-v1"
      /\ finalize.kind = "finalize_speakers" /\ finalize.revision = r
  BY DEF NewJob
<1>6. RowOk(render)
  BY <1>5 DEF RowOk
<1> HIDE DEF r, finalize, render
<1>7. TableOk(t) /\ Tabled(t, r)
  <2>1. Tabled(t, r)
    BY <1>2, <1>4, JoinKeeps
  <2>2. TableOk(t)
    BY <1>4, <1>6, Appended DEF PInv, IInv, Joins
  <2>3. QED
    BY <2>1, <2>2
<1>8. /\ DOMAIN jobs = 1..Len(jobs) /\ Len(jobs) \in Nat /\ Len(t) = Len(jobs) + 1
      /\ DOMAIN t = 1..Len(t)
      /\ \A i \in DOMAIN t : (i \in DOMAIN jobs /\ t[i] = jobs[i]) \/ t[i] = render
  <2>1. /\ DOMAIN jobs = 1..Len(jobs) /\ Len(jobs) \in Nat /\ Len(t) = Len(jobs) + 1
        /\ DOMAIN t = 1..(Len(jobs) + 1)
        /\ \A i \in 1..Len(jobs) : t[i] = jobs[i]
        /\ t[Len(jobs) + 1] = render
    BY <1>2, <1>4, AppendProperties, LenProperties DEF TableOk, Joins
  <2> HIDE DEF t
  <2>2. \A i \in 1..(Len(jobs) + 1) : i \in 1..Len(jobs) \/ i = Len(jobs) + 1
    BY <2>1
  <2>3. QED
    BY <2>1, <2>2
<1> HIDE DEF t
<1>9. Joins(t, finalize, r)
  BY <1>4, <1>5, <1>8 DEF Joins, SameWork, IsActive
<1>10. Tabled(jobs', rec'.revision)
  BY <1>1, <1>2, <1>7, <1>9, JoinKeeps
<1>11. Ledger!SubmitTwo
  <2>1. /\ render.kind \in Kind /\ ~Ledger!Open(Entries, render.kind)
        /\ View(t) = Ledger!Joined(Entries, render.kind)
    BY <1>2, <1>4, JoinSubmits, EntriesAre DEF t
  <2>2. /\ finalize.kind \in Kind /\ ~Ledger!Open(View(t), finalize.kind)
        /\ Entries' = Ledger!Joined(View(t), finalize.kind)
    BY <1>1, <1>7, <1>9, JoinSubmits, EntriesAre
  <2>3. QED
    BY <2>1, <2>2 DEF Ledger!SubmitTwo
<1>12. Revises /\ \A i \in Ids : jobs'[i] = jobs[i]
  <2>1. /\ DOMAIN jobs' = 1..(Len(t) + 1) /\ jobs'[Len(t) + 1] = finalize
        /\ \A i \in DOMAIN t : jobs'[i] = t[i]
    BY <1>1, <1>7, <1>9, AppendProperties, LenProperties DEF TableOk, Joins
  <2>2. Len(t) + 1 \in DOMAIN jobs' \ Ids
    BY <1>8, <2>1 DEF Ids
  <2>3. \A i \in Ids : i \in DOMAIN t /\ t[i] = jobs[i]
    <3>1. \A i \in 1..Len(jobs) : t[i] = jobs[i] /\ i \in 1..(Len(jobs) + 1)
      BY <1>2, <1>4, <1>8, AppendProperties DEF TableOk, Joins, t
    <3>2. QED
      BY <1>8, <3>1 DEF Ids
  <2>4. Revises
    BY <1>2, <1>5, <2>1, <2>2 DEF Revises, r
  <2>5. QED
    BY <2>1, <2>3, <2>4
<1>13. Registered'
  BY <1>2, RegisteredStill
<1>14. Knows'
  BY <1>2, <1>12, RequestKnows
<1>15. QED
  BY <1>10, <1>11, <1>12, <1>13, <1>14 DEF Good, Ledger!LedgerNext

\* .. or redirects the finalize job that still waits, and submits one.
LEMMA RedirectGood ==
    ASSUME PInv, RoomForRevision, ~ActiveKind("render"), NEW j \in QueuedFinalize,
           rec'.revision = rec.revision + 1, Chosen, UNCHANGED <<art, worker>>,
           NEW job, job = [jobs[j] EXCEPT !.revision = rec.revision + 1,
                                          !.input = "current"],
           NEW t, t = [jobs EXCEPT ![j] = job], jobs' = Append(t, SpeakerRender)
    PROVE  Good
<1> DEFINE r == rec.revision + 1
           render == NewJob("render", r, "speaker-edit-v1")
<1>1. jobs' = Append(t, render)
  BY DEF SpeakerRender
<1>2. /\ TableOk(jobs) /\ Tabled(jobs, rec.revision) /\ rec.revision \in Nat /\ r \in Nat
      /\ rec.revision <= r /\ r <= r /\ rec'.revision = r /\ r \in Revision
  BY Revisions, RevisionBelow DEF PInv, IInv
<1>3. /\ j \in DOMAIN jobs /\ jobs[j].kind = "finalize_speakers"
      /\ jobs[j].status = "queued" /\ jobs[j] \in Job
  BY <1>2, RowsTyped DEF QueuedFinalize, Ids
<1>4. \A i \in DOMAIN jobs : jobs[i].revision # r
  <2>1. \A i \in DOMAIN jobs : jobs[i].revision <= rec.revision /\ jobs[i].revision \in Nat
    BY <1>2, RowsTyped DEF Tabled
  <2>2. QED
    BY <1>2, <2>1
<1>5. Joins(jobs, render, r)
  BY NextJoins DEF Kind, Fingerprint
<1>6. /\ render.kind = "render" /\ render.revision = r
  BY DEF NewJob
<1> HIDE DEF r, render
<1>7. /\ job \in Job /\ job.kind = "finalize_speakers" /\ job.status = "queued"
      /\ job.revision = r /\ job.attempts = jobs[j].attempts /\ job.open = jobs[j].open
  BY <1>2, <1>3 DEF Job, Fingerprint, r
<1>8. ~jobs[j].open
  BY <1>2, <1>3 DEF Tabled, Redoes
<1>9. Replaces(jobs, j, job, r)
  <2>1. Limited => Tries(job)
    BY <1>2, <1>3, <1>7 DEF Tabled, Tries
  <2>2. QED
    BY <1>2, <1>3, <1>4, <1>7, <1>8, <2>1 DEF Replaces, IsActive
<1>10. Tabled(t, r)
  BY <1>2, <1>9, ReplaceKeeps
<1>11. /\ TableOk(t) /\ Len(t) = Len(jobs) /\ DOMAIN t = DOMAIN jobs
       /\ \A i \in DOMAIN jobs : t[i] = IF i = j THEN job ELSE jobs[i]
  <2>1. RowOk(job)
    BY <1>7 DEF RowOk
  <2>2. TableOk(jobs) /\ j \in DOMAIN jobs /\ job \in Job
    BY <1>2, <1>3, <1>7
  <2>3. DOMAIN jobs = 1..Len(jobs) /\ DOMAIN t = DOMAIN jobs
    BY <2>2, LenProperties DEF TableOk
  <2>4. \A i \in DOMAIN jobs : t[i] = IF i = j THEN job ELSE jobs[i]
    OBVIOUS
  <2>5. t \in Seq(Job) /\ Len(t) = Len(jobs)
    BY <2>2, <2>3, ExceptSeq DEF TableOk
  <2>6. TableOk(t)
    BY <2>1, <2>2, <2>3, <2>4, <2>5 DEF TableOk
  <2>7. QED
    BY <2>3, <2>4, <2>5, <2>6
<1>12. View(t) = Entries
  <2>1. Entry(job) = Entry(jobs[j])
    BY <1>3, <1>7 DEF Entry
  <2>2. QED
    BY <1>11, <2>1 DEF View, Entries, Ids
<1>13. Joins(t, render, r)
  BY <1>3, <1>5, <1>6, <1>7, <1>11 DEF Joins, SameWork, IsActive
<1>14. Tabled(jobs', rec'.revision)
  BY <1>1, <1>2, <1>10, <1>11, <1>13, JoinKeeps
<1>15. Ledger!Submit
  BY <1>1, <1>11, <1>12, <1>13, JoinSubmits, EntriesAre DEF Ledger!Submit
<1>16. /\ DOMAIN jobs = 1..Len(jobs) /\ Len(jobs) \in Nat /\ DOMAIN jobs' = 1..(Len(jobs) + 1)
       /\ jobs'[Len(jobs) + 1] = render
       /\ \A i \in DOMAIN jobs : jobs'[i] = t[i]
  <2>1. DOMAIN jobs = 1..Len(jobs) /\ Len(jobs) \in Nat
    BY <1>2, LenProperties DEF TableOk
  <2>2. /\ Len(jobs') = Len(t) + 1 /\ jobs' \in Seq(Job) /\ jobs'[Len(t) + 1] = render
        /\ \A i \in 1..Len(t) : jobs'[i] = t[i]
    BY <1>1, <1>11, <1>13, AppendProperties DEF TableOk, Joins
  <2>3. QED
    BY <1>11, <2>1, <2>2, LenProperties
<1>17. Revises
  <2>1. Len(jobs) + 1 \in DOMAIN jobs' \ Ids
    BY <1>16 DEF Ids
  <2>2. QED
    BY <1>2, <1>6, <1>16, <2>1 DEF Revises, r
<1>18. Registered'
  BY <1>2, RegisteredStill
<1>19. Knows'
  BY <1>2, <1>3, <1>11, <1>16, RequestKnows DEF Ids
<1>20. QED
  BY <1>14, <1>15, <1>17, <1>18, <1>19 DEF Good, Ledger!LedgerNext

\* A speaker edit, whether a finalize job waits or not.
LEMMA EditSpeakersGood == ASSUME PInv, EditSpeakers PROVE Good
<1>1. /\ RoomForRevision /\ ~ActiveKind("render") /\ ~FinalizeRunning
      /\ rec' = [rec EXCEPT !.revision = @ + 1] /\ InsertRenderAndFinalize
      /\ UNCHANGED <<art, worker>>
  BY DEF EditSpeakers, RenderActive
<1>2. rec'.revision = rec.revision + 1 /\ Chosen
  BY <1>1 DEF Chosen, PInv, IInv, Row, RecordingRow
<1>3. CASE QueuedFinalize = {}
  BY <1>1, <1>2, <1>3, TwoJobsGood
<1>4. CASE QueuedFinalize # {}
  <2>1. PICK j \in QueuedFinalize :
           jobs' = Append([jobs EXCEPT ![j].revision = rec.revision + 1,
                                       ![j].input = "current"], SpeakerRender)
    BY <1>1, <1>4 DEF InsertRenderAndFinalize
  <2> DEFINE job == [jobs[j] EXCEPT !.revision = rec.revision + 1, !.input = "current"]
             t == [jobs EXCEPT ![j] = job]
  <2>2. jobs' = Append(t, SpeakerRender)
    BY <2>1
  <2>3. QED
    BY <1>1, <1>2, <2>2, RedirectGood
<1>5. QED
  BY <1>3, <1>4

-----------------------------------------------------------------------------
(* The specification *)

\* The requests.
LEMMA RequestGood == ASSUME PInv, Request PROVE Good
  BY EditSpeakersGood, RenamePersonGood, UpdateCategoryGood, RequestSummaryGood,
     CreateRetranscriptionGood, RetryJobGood DEF Request

\* The worker between its claim and the end of the job.
LEMMA HandleGood == ASSUME PInv, Handle PROVE Good
<1>1. CASE ResumeRecovered \/ SettleTranscribe \/ SettleClassify
  BY <1>1, ResumeRecoveredGood, SettleTranscribeGood, SettleClassifyGood
<1>2. CASE StartTranscribe \/ StartClassify \/ StartFinalize \/ StartSummarize \/ StartRender
  BY <1>2, StartGood
<1>3. CASE Transcribed \/ Classified
  BY <1>3, TranscribedGood, ClassifiedGood
<1>4. CASE \/ Summarized \/ Embedded \/ WriteJson \/ WriteMarkdown
           \/ CutClips \/ RegisterClips
           \/ KeepSpeakers \/ WriteSummary \/ MarkFailed \/ LastTransition
  BY <1>4, WritesGood
<1>5. CASE RegisterTranscript \/ RegisterMarkdown \/ RegisterSummary
  BY <1>5, RegisterTranscriptGood, RegisterMarkdownGood, RegisterSummaryGood
<1>6. CASE \/ StageRetranscription \/ CommitRetranscription \/ AbandonRetranscription
           \/ AutoMatch
  BY <1>6, StageGood, CommitGood, AutoMatchGood
<1>7. CASE FollowTranscribe \/ FollowFinalize \/ FollowClassify \/ FollowRender
  BY <1>7, FollowTranscribeGood, FollowFinalizeGood, FollowClassifyGood, FollowRenderGood
<1>8. CASE FailJob \/ CompleteJob
  BY <1>8, FailJobGood, CompleteJobGood
<1>9. QED
  BY <1>1, <1>2, <1>3, <1>4, <1>5, <1>6, <1>7, <1>8 DEF Handle

\* Every step.
LEMMA NextGood == PInv /\ [Next]_allVars => Good
<1> SUFFICES ASSUME PInv, [Next]_allVars PROVE Good
  OBVIOUS
<1>1. CASE Startup
  BY <1>1, ReconcileGood, RecoverGood, IdleGood DEF Startup
<1>2. CASE Claim \/ Handle
  BY <1>2, ClaimGood, HandleGood
<1>3. CASE BackoffExpires
  BY <1>3, IdleGood
<1>4. CASE Request
  BY <1>4, RequestGood
<1>5. CASE Fail
  BY <1>5, FailGood
<1>6. CASE UNCHANGED allVars
  <2>1. UNCHANGED <<rec, jobs, art>> /\ worker' = worker
    BY <1>6 DEF allVars, vars
  <2>2. Knows'
    BY <2>1 DEF PInv, Knows, Mine
  <2>3. QED
    BY <2>1, <2>2, SameRow, StillGood
<1>7. QED
  BY <1>1, <1>2, <1>3, <1>4, <1>5, <1>6 DEF Next, Unfailing

\* The registered recording and its one job.
LEMMA InitGood == Init => PInv /\ Ledger!LedgerInit
<1> SUFFICES ASSUME Init PROVE PInv /\ Ledger!LedgerInit
  OBVIOUS
<1> DEFINE first == NewJob("transcribe", 1, "input-v1")
<1>1. /\ jobs = <<first>> /\ rec.revision = 1
      /\ worker.seen = None /\ worker.doc = None /\ worker.pc = "idle"
      /\ \A r \in Revision : art.json[r] = None /\ art.md[r] = None
      /\ art.sum = {}
  BY DEF Init, Unemployed
<1>2. /\ first.revision = 1 /\ first.open = FALSE /\ first.attempts = 0
      /\ Entry(first) = Ledger!Fresh("transcribe")
  BY DEF NewJob, Entry, Ledger!Fresh
<1> HIDE DEF first
<1>3. DOMAIN jobs = {1} /\ jobs[1] = first
  BY <1>1
<1>4. Tabled(jobs, rec.revision)
  <2>1. SoleActive(jobs) /\ SoleInput(jobs)
    BY <1>3 DEF SoleActive, SoleInput
  <2>2. Tries(first)
    BY <1>2 DEF Tries, RetryLimit
  <2>3. QED
    BY <1>1, <1>2, <1>3, <2>1, <2>2 DEF Tabled
<1>5. Knows /\ Registered
  BY <1>1 DEF Knows, Registered, Ahead
<1>6. Ledger!LedgerInit
  <2>1. Entries = [j \in {1} |-> Entry(first)]
    BY <1>3 DEF Entries, Ids
  <2>2. <<Entry(first)>> = [j \in {1} |-> Entry(first)]
    OBVIOUS
  <2>3. QED
    BY <1>2, <2>1, <2>2 DEF Ledger!LedgerInit
<1>7. QED
  BY <1>4, <1>5, <1>6, InitOk DEF PInv

\* PInv holds in every reachable state.
LEMMA LedgerInductive == Spec => []PInv
<1>1. PInv /\ [Next]_allVars => PInv'
  BY NextGood, NextOk DEF PInv, Good, StepOk
<1>2. QED
  BY <1>1, InitGood, PTL DEF Spec

-----------------------------------------------------------------------------
(* The theorems *)

\* The jobs table is a JobLedger: whatever transactions, edits, crashes and
\* recoveries do to it, it is a submission of one or two jobs whose kind has
\* no open one, the start of an attempt while none runs, a release, or an end.
THEOREM LedgerImplemented == Spec => JobsAreLedger
<1>1. PInv /\ [Next]_allVars => [Ledger!LedgerNext]_Entries
  BY NextGood DEF Good
<1>2. Init => Ledger!LedgerInit
  BY InitGood
<1>3. QED
  BY <1>1, <1>2, LedgerInductive, PTL DEF Spec, JobsAreLedger, Ledger!LedgerSpec

\* jobs_one_active_kind is never violated by the handlers that insert without
\* asking it.
THEOREM OneActive == Spec => []OneActiveKind
<1>1. PInv => OneActiveKind
  BY DEF PInv, Tabled, SoleActive, OneActiveKind, Active, Ids
<1>2. QED
  BY <1>1, LedgerInductive, PTL

\* jobs_one_successful_input: an input is never processed successfully twice,
\* nor is a second job for it on its way.
THEOREM InputsOnce == Spec => []InputOnce
<1>1. PInv => InputOnce
  BY DEF PInv, Tabled, SoleInput, SameWork, Redoes, InputOnce, Retranscription, Ids
<1>2. QED
  BY <1>1, LedgerInductive, PTL

\* retranscriptions_one_active: at most one request is open, and its job is
\* waiting or running.
THEOREM OpenRequests == Spec => []OneOpenRequest
<1>1. PInv => OneOpenRequest
  BY DEF PInv, Tabled, SoleActive, Redoes, OneOpenRequest, Active, Ids
<1>2. QED
  BY <1>1, LedgerInductive, PTL

\* No job, transcript, Markdown document or summary is of a revision the
\* recording has not reached.
THEOREM NeverAhead == Spec => []NothingAhead
<1>1. ASSUME PInv PROVE NothingAhead
  <2>1. rec.revision \in Nat /\ \A r \in Revision : r \in Nat
    BY <1>1, Revisions DEF Revision
  <2>2. \A r \in Revision : r > rec.revision => art.json[r] = None /\ art.md[r] = None
    BY <1>1, <2>1 DEF PInv, Registered
  <2>3. QED
    BY <1>1, <2>2 DEF PInv, Tabled, Registered, NothingAhead, Ids
<1>2. QED
  BY <1>1, LedgerInductive, PTL

\* Retries and recoveries start no job a fourth time, if a stop request never
\* puts a job back that has had its last attempt.
THEOREM ThreeAttempts ==
    ASSUME Limited
    PROVE  Spec => []AttemptLimit
<1>1. PInv => AttemptLimit
  BY DEF PInv, Tabled, Tries, RetryLimit, AttemptLimit, Ids
<1>2. QED
  BY <1>1, LedgerInductive, PTL

\* Whichever transaction makes the next revision (an edit, an automatic match,
\* a retranscription) makes a job for it.
THEOREM RevisionsHaveJobs == Spec => NewRevisionHasJob
<1>1. PInv /\ [Next]_allVars =>
        [rec'.revision # rec.revision =>
            /\ rec'.revision = rec.revision + 1
            /\ \E j \in DOMAIN jobs' \ Ids : jobs'[j].revision = rec'.revision]_allVars
  BY NextGood DEF Good, Revises
<1>2. QED
  BY <1>1, LedgerInductive, PTL DEF Spec, NewRevisionHasJob

\* A category the user chose is only replaced by another choice of the user.
THEOREM ChosenCategoryStays == Spec => ManualCategoryKept
<1>1. PInv /\ [Next]_allVars =>
        [rec.source = "manual" =>
            /\ rec'.source = "manual"
            /\ rec'.category = rec.category \/ UpdateCategory]_allVars
  BY NextGood DEF Good, Chosen
<1>2. QED
  BY <1>1, LedgerInductive, PTL DEF Spec, ManualCategoryKept
=============================================================================
