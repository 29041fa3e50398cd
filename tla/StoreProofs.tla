---------------------------- MODULE StoreProofs -----------------------------
(***************************************************************************)
(* Facts about the tables of Store: what inserting, replacing and          *)
(* reordering rows does to the jobs table and the claim order, and what    *)
(* typed values do to the recordings row, the artifact rows and the files; *)
(* then what inspect_recovery of Recovery answers and what                 *)
(* apply_completion does with it, as far as the steps of the worker rely   *)
(* on it.                                                                  *)
(***************************************************************************)
EXTENDS Recovery, SequenceTheorems, FiniteSetTheorems, TLAPS

(* What is kept of each table *)

\* A retranscription leaves room for the revision it commits; a summary is
\* made for a category.
RowOk(job) ==
    /\ job.kind = "transcribe" /\ job.input = "retranscription"
          => job.revision < MaxRevision
    /\ job.kind = "summarize" => job.input \in Category

\* The jobs table.
TableOk(t) == t \in Seq(Job) /\ \A j \in DOMAIN t : RowOk(t[j])

\* Job j is not in the claim order q.
NotDue(q, j) == \A i \in DOMAIN q : q[i] # j

\* q is a claim order over table t: of queued jobs, each at one place.
OrderOk(t, q) ==
    /\ q \in Seq(Nat)
    /\ \A i \in DOMAIN q : q[i] \in DOMAIN t /\ t[q[i]].status = "queued"
    /\ \A i, k \in DOMAIN q : q[i] = q[k] => i = k

\* The jobs table t says are running.
RunningIn(t) == {j \in DOMAIN t : t[j].status = "running"}

\* Table u continues t: rows are added, none changes its kind, and those that
\* have ended do not change at all.
Continues(t, u) ==
    /\ DOMAIN t \subseteq DOMAIN u
    /\ \A j \in DOMAIN t : /\ u[j].kind = t[j].kind
                           /\ ~IsActive(t[j].status) => u[j] = t[j]

\* The recordings row: a category chosen by the user is a category.
Row ==
    /\ rec \in RecordingRow
    /\ rec.source = "manual" => rec.category \in Category

\* The speech rows, the artifact rows and the files.
Files ==
    /\ speech \in SpeechRow
    /\ art \in [json : [Revision -> JsonRow \cup {None}],
                md   : [Revision -> Markdown \cup {None}],
                sum  : SUBSET Summary]
    /\ disk \in [json : [Path -> Transcript \cup {None}],
                 md   : Markdown \cup {None},
                 sum  : SUBSET Summary]

-----------------------------------------------------------------------------
(* The jobs table and the claim order *)

\* A row with typed parts is a job.
LEMMA NewJobIsJob ==
    ASSUME NEW kind \in Kind, NEW revision \in Revision, NEW input \in Fingerprint
    PROVE  NewJob(kind, revision, input) \in Job
  BY DEF NewJob, Job, JobStatus

\* Appending a queued row that is due at once.
LEMMA Appended ==
    ASSUME NEW t, TableOk(t), NEW q, OrderOk(t, q),
           NEW job \in Job, RowOk(job), job.status = "queued"
    PROVE  /\ TableOk(Append(t, job))
           /\ OrderOk(Append(t, job), Append(q, Len(t) + 1))
           /\ Continues(t, Append(t, job))
           /\ RunningIn(Append(t, job)) = RunningIn(t)
<1> DEFINE u == Append(t, job)
           n == Len(t) + 1
           p == Append(q, n)
<1>1. /\ u \in Seq(Job) /\ Len(u) = n /\ Len(t) \in Nat
      /\ DOMAIN t = 1..Len(t) /\ DOMAIN u = 1..n
      /\ \A j \in DOMAIN t : u[j] = t[j]
      /\ u[n] = job
  BY AppendProperties, LenProperties DEF TableOk
<1>2. /\ p \in Seq(Nat) /\ Len(q) \in Nat
      /\ DOMAIN q = 1..Len(q) /\ DOMAIN p = 1..(Len(q) + 1)
      /\ \A i \in DOMAIN q : p[i] = q[i]
      /\ p[Len(q) + 1] = n
  BY <1>1, AppendProperties, LenProperties DEF OrderOk
<1> HIDE DEF u, n, p
<1>3. TableOk(u)
  <2>1. ASSUME NEW j \in DOMAIN u PROVE RowOk(u[j])
    <3>1. CASE j \in DOMAIN t  BY <1>1, <3>1 DEF TableOk
    <3>2. CASE j \notin DOMAIN t
      <4>1. j = n  BY <1>1, <3>2 DEF n
      <4>2. QED  BY <1>1, <4>1
    <3>3. QED  BY <3>1, <3>2
  <2>2. QED  BY <1>1, <2>1 DEF TableOk
<1>4. OrderOk(u, p)
  <2>1. ASSUME NEW i \in DOMAIN p
        PROVE  \/ i \in DOMAIN q /\ p[i] = q[i]
               \/ i = Len(q) + 1 /\ p[i] = n
    BY <1>2
  <2>2. n \notin DOMAIN t /\ n \in DOMAIN u
    BY <1>1 DEF n
  <2>3. ASSUME NEW i \in DOMAIN p
        PROVE  p[i] \in DOMAIN u /\ u[p[i]].status = "queued"
    <3>1. CASE i \in DOMAIN q /\ p[i] = q[i]
      <4>1. q[i] \in DOMAIN t /\ t[q[i]].status = "queued"  BY <3>1 DEF OrderOk
      <4>2. QED  BY <1>1, <3>1, <4>1 DEF n
    <3>2. CASE i = Len(q) + 1 /\ p[i] = n  BY <1>1, <2>2, <3>2
    <3>3. QED  BY <2>1, <3>1, <3>2
  <2>4. ASSUME NEW i \in DOMAIN p, NEW k \in DOMAIN p, p[i] = p[k]
        PROVE  i = k
    BY <2>1, <2>2, <2>4 DEF OrderOk
  <2>5. QED
    BY <1>2, <2>3, <2>4 DEF OrderOk
<1>5. Continues(t, u)
  BY <1>1 DEF Continues, n
<1>6. RunningIn(u) = RunningIn(t)
  BY <1>1 DEF RunningIn, n
<1>7. QED
  BY <1>3, <1>4, <1>5, <1>6 DEF u, n, p

\* Replacing a row that has not ended.
LEMMA Replaced ==
    ASSUME NEW t, TableOk(t), NEW j \in DOMAIN t, NEW job \in Job,
           RowOk(job), job.kind = t[j].kind, IsActive(t[j].status),
           NEW u, u = [t EXCEPT ![j] = job]
    PROVE  /\ TableOk(u)
           /\ Len(u) = Len(t)
           /\ DOMAIN u = DOMAIN t
           /\ \A i \in DOMAIN t : u[i] = IF i = j THEN job ELSE t[i]
           /\ Continues(t, u)
<1>1. DOMAIN t = 1..Len(t)
  BY LenProperties DEF TableOk
<1>2. /\ u \in Seq(Job)
      /\ Len(u) = Len(t)
      /\ \A i \in DOMAIN t : u[i] = IF i = j THEN job ELSE t[i]
  BY <1>1, ExceptSeq DEF TableOk
<1>3. DOMAIN u = DOMAIN t
  OBVIOUS
<1>4. TableOk(u) /\ Continues(t, u)
  BY <1>2, <1>3 DEF TableOk, Continues
<1>5. QED
  BY <1>2, <1>3, <1>4

\* The claim order is one over any table that leaves its jobs queued.
LEMMA OrderCarries ==
    ASSUME NEW t, NEW q, OrderOk(t, q), NEW u, DOMAIN t \subseteq DOMAIN u,
           \A i \in DOMAIN q : u[q[i]].status = "queued"
    PROVE  OrderOk(u, q)
  BY DEF OrderOk

\* A job that becomes due.
LEMMA OrderAppends ==
    ASSUME NEW u, NEW q, OrderOk(u, q), NEW j \in Nat, j \in DOMAIN u, NotDue(q, j),
           u[j].status = "queued"
    PROVE  OrderOk(u, Append(q, j))
<1> DEFINE p == Append(q, j)
<1>1. /\ p \in Seq(Nat) /\ Len(q) \in Nat
      /\ DOMAIN q = 1..Len(q) /\ DOMAIN p = 1..(Len(q) + 1)
      /\ \A i \in DOMAIN q : p[i] = q[i]
      /\ p[Len(q) + 1] = j
  BY AppendProperties, LenProperties DEF OrderOk
<1>2. ASSUME NEW i \in DOMAIN p
      PROVE  \/ i \in DOMAIN q /\ p[i] = q[i]
             \/ i = Len(q) + 1 /\ p[i] = j
  BY <1>1
<1> HIDE DEF p
<1>3. \A i \in DOMAIN p : p[i] \in DOMAIN u /\ u[p[i]].status = "queued"
  BY <1>2 DEF OrderOk
<1>4. \A i, k \in DOMAIN p : p[i] = p[k] => i = k
  BY <1>2 DEF OrderOk, NotDue
<1>5. OrderOk(u, p)
  BY <1>1, <1>3, <1>4 DEF OrderOk
<1>6. QED
  BY <1>5 DEF p

\* .. before the others.
LEMMA OrderPrepends ==
    ASSUME NEW u, NEW q, OrderOk(u, q), NEW j \in Nat, j \in DOMAIN u, NotDue(q, j),
           u[j].status = "queued"
    PROVE  OrderOk(u, <<j>> \o q)
<1> DEFINE p == <<j>> \o q
<1>1. <<j>> \in Seq(Nat) /\ Len(<<j>>) = 1 /\ <<j>>[1] = j
  OBVIOUS
<1>2. /\ p \in Seq(Nat) /\ Len(p) = Len(<<j>>) + Len(q)
      /\ \A i \in 1..(Len(<<j>>) + Len(q)) :
            p[i] = IF i <= Len(<<j>>) THEN <<j>>[i] ELSE q[i - Len(<<j>>)]
  <2>1. q \in Seq(Nat)  BY DEF OrderOk
  <2>2. QED  BY <1>1, <2>1, ConcatProperties, Zenon
<1>3. Len(q) \in Nat /\ DOMAIN q = 1..Len(q) /\ DOMAIN p = 1..(1 + Len(q))
  BY <1>1, <1>2, LenProperties DEF OrderOk
<1> HIDE DEF p
<1>4. ASSUME NEW i \in DOMAIN p
      PROVE  \/ i - 1 \in DOMAIN q /\ p[i] = q[i - 1]
             \/ i = 1 /\ p[i] = j
  BY <1>1, <1>2, <1>3
<1>5. \A i \in DOMAIN p : p[i] \in DOMAIN u /\ u[p[i]].status = "queued"
  BY <1>4 DEF OrderOk
<1>6. \A i, k \in DOMAIN p : p[i] = p[k] => i = k
  BY <1>3, <1>4 DEF OrderOk, NotDue
<1>7. OrderOk(u, p)
  BY <1>2, <1>5, <1>6 DEF OrderOk
<1>8. QED
  BY <1>7 DEF p

\* The first of the order is queued, and due only once.
LEMMA OrderTail ==
    ASSUME NEW t, NEW q, OrderOk(t, q), q # <<>>
    PROVE  /\ Head(q) \in DOMAIN t
           /\ t[Head(q)].status = "queued"
           /\ OrderOk(t, Tail(q))
           /\ NotDue(Tail(q), Head(q))
<1>1. /\ Tail(q) \in Seq(Nat) /\ Len(Tail(q)) = Len(q) - 1
      /\ \A i \in 1..Len(Tail(q)) : Tail(q)[i] = q[i + 1]
      /\ Head(q) = q[1]
  BY HeadTailProperties DEF OrderOk
<1>2. /\ Len(q) \in Nat /\ Len(q) # 0 /\ DOMAIN q = 1..Len(q)
      /\ DOMAIN Tail(q) = 1..(Len(q) - 1)
  BY <1>1, LenProperties, EmptySeq DEF OrderOk
<1>3. 1 \in DOMAIN q /\ \A i \in DOMAIN Tail(q) : i + 1 \in DOMAIN q /\ Tail(q)[i] = q[i + 1]
  BY <1>1, <1>2
<1>4. OrderOk(t, Tail(q))
  BY <1>1, <1>2, <1>3 DEF OrderOk
<1>5. NotDue(Tail(q), Head(q))
  BY <1>1, <1>2, <1>3 DEF OrderOk, NotDue
<1>6. QED
  BY <1>1, <1>3, <1>4, <1>5 DEF OrderOk

\* Taking a due job out of the order closes the gap.
LEMMA TakenOut ==
    ASSUME OrderOk(jobs, queue), NEW j, \E i \in DOMAIN queue : queue[i] = j
    PROVE  \E n \in 1..Len(queue) :
              /\ queue[n] = j
              /\ Without(j) \in Seq(Nat)
              /\ DOMAIN Without(j) = 1..(Len(queue) - 1)
              /\ \A i \in 1..(Len(queue) - 1) :
                    \/ i < n /\ i \in DOMAIN queue /\ Without(j)[i] = queue[i]
                    \/ i >= n /\ i + 1 \in DOMAIN queue /\ Without(j)[i] = queue[i + 1]
<1> DEFINE n == CHOOSE i \in DOMAIN queue : queue[i] = j
           a == SubSeq(queue, 1, n - 1)
           b == SubSeq(queue, n + 1, Len(queue))
<1>1. n \in DOMAIN queue /\ queue[n] = j
  OBVIOUS
<1>2. Without(j) = a \o b
  BY DEF Without
<1> HIDE DEF n
<1>3. queue \in Seq(Nat) /\ Len(queue) \in Nat /\ DOMAIN queue = 1..Len(queue)
  BY LenProperties DEF OrderOk
<1>4. n \in 1..Len(queue) /\ \A i \in 1..Len(queue) : queue[i] \in Nat
  BY <1>1, <1>3, ElementOfSeq
<1>5. /\ a \in Seq(Nat)
      /\ Len(a) = IF 1 <= n - 1 THEN n - 1 - 1 + 1 ELSE 0
      /\ \A i \in 1..(n - 1 - 1 + 1) : a[i] = queue[1 + i - 1]
  <2>1. \A i \in 1..(n - 1) : queue[i] \in Nat  BY <1>4, <1>3
  <2>2. 1 \in Int /\ n - 1 \in Int  BY <1>4
  <2>3. QED  BY <2>1, <2>2, SubSeqProperties
<1>6. /\ b \in Seq(Nat)
      /\ Len(b) = IF n + 1 <= Len(queue) THEN Len(queue) - (n + 1) + 1 ELSE 0
      /\ \A i \in 1..(Len(queue) - (n + 1) + 1) : b[i] = queue[n + 1 + i - 1]
  <2>1. \A i \in (n + 1)..Len(queue) : queue[i] \in Nat  BY <1>4, <1>3
  <2>2. n + 1 \in Int /\ Len(queue) \in Int  BY <1>3, <1>4
  <2>3. QED  BY <2>1, <2>2, SubSeqProperties
<1> DEFINE p == a \o b
<1>7. /\ p \in Seq(Nat) /\ Len(p) = Len(a) + Len(b)
      /\ \A i \in 1..(Len(a) + Len(b)) : p[i] = IF i <= Len(a) THEN a[i] ELSE b[i - Len(a)]
  BY <1>5, <1>6, ConcatProperties, Zenon
<1>8. DOMAIN p = 1..Len(p)
  BY <1>7, LenProperties, Zenon
<1> HIDE DEF a, b, p
<1>9. Len(a) = n - 1 /\ Len(b) = Len(queue) - n
  <2>1. n \in Int /\ n >= 1 /\ n <= Len(queue) /\ Len(queue) \in Int  BY <1>3, <1>4
  <2>2. Len(a) = n - 1  BY <2>1, <1>5
  <2>3. CASE n = Len(queue)  BY <2>1, <2>2, <2>3, <1>6
  <2>4. CASE n < Len(queue)  BY <2>1, <2>2, <2>4, <1>6
  <2>5. QED  BY <2>1, <2>3, <2>4
<1>10. ASSUME NEW i \in DOMAIN p
       PROVE  \/ i < n /\ i \in DOMAIN queue /\ p[i] = queue[i]
              \/ i >= n /\ i + 1 \in DOMAIN queue /\ p[i] = queue[i + 1]
  <2>0. DOMAIN p = 1..(Len(queue) - 1) /\ Len(a) + Len(b) = Len(queue) - 1
    BY <1>3, <1>4, <1>7, <1>8, <1>9
  <2>1. i \in 1..(Len(queue) - 1) /\ p[i] = IF i <= n - 1 THEN a[i] ELSE b[i - (n - 1)]
    BY <2>0, <1>7, <1>9
  <2>2. CASE i < n
    <3>1. i \in Int /\ i >= 1 /\ n \in Int /\ n <= Len(queue) /\ Len(queue) \in Int
      BY <1>3, <1>4, <2>1
    <3>2. p[i] = a[i]  BY <2>1, <2>2, <3>1
    <3>3. i \in 1..(n - 1 - 1 + 1)  BY <2>2, <3>1
    <3>4. a[i] = queue[1 + i - 1]  BY <1>5, <3>3
    <3>5. 1 + i - 1 = i  BY <3>1
    <3>6. QED  BY <1>3, <2>2, <3>1, <3>2, <3>4, <3>5
  <2>3. CASE i >= n
    <3>1. i \in Int /\ n \in Int /\ n >= 1 /\ i <= Len(queue) - 1 /\ Len(queue) \in Int
      BY <1>3, <1>4, <2>1
    <3>2. p[i] = b[i - (n - 1)]  BY <2>1, <2>3, <3>1
    <3>3. i - (n - 1) \in 1..(Len(queue) - (n + 1) + 1)  BY <2>3, <3>1
    <3>4. b[i - (n - 1)] = queue[n + 1 + (i - (n - 1)) - 1]  BY <1>6, <3>3
    <3>5. n + 1 + (i - (n - 1)) - 1 = i + 1  BY <3>1
    <3>6. i + 1 \in DOMAIN queue  BY <1>3, <2>3, <3>1
    <3>7. p[i] = queue[i + 1]  BY <3>2, <3>4, <3>5
    <3>8. QED  BY <2>3, <3>6, <3>7
  <2>4. QED  BY <1>4, <2>1, <2>2, <2>3
<1>11. DOMAIN p = 1..(Len(queue) - 1)
  BY <1>3, <1>4, <1>7, <1>8, <1>9
<1>12. Without(j) = p
  BY <1>2 DEF p
<1>13. QED
  BY <1>1, <1>4, <1>7, <1>10, <1>11, <1>12

\* .. and leaves an order without it.
LEMMA WithoutKeeps ==
    ASSUME OrderOk(jobs, queue), NEW j
    PROVE  OrderOk(jobs, Without(j)) /\ NotDue(Without(j), j)
<1>1. CASE ~\E i \in DOMAIN queue : queue[i] = j
  <2>1. Without(j) = queue  BY <1>1 DEF Without
  <2>2. QED  BY <1>1, <2>1 DEF NotDue
<1>2. CASE \E i \in DOMAIN queue : queue[i] = j
  <2> DEFINE p == Without(j)
  <2>1. PICK n \in 1..Len(queue) :
           /\ queue[n] = j
           /\ p \in Seq(Nat) /\ DOMAIN p = 1..(Len(queue) - 1)
           /\ \A i \in 1..(Len(queue) - 1) :
                 \/ i < n /\ i \in DOMAIN queue /\ p[i] = queue[i]
                 \/ i >= n /\ i + 1 \in DOMAIN queue /\ p[i] = queue[i + 1]
    BY <1>2, TakenOut, Zenon
  <2> HIDE DEF p
  <2>2. n \in DOMAIN queue /\ n \in Int /\ \A i \in DOMAIN p : i \in Int
    BY <2>1, LenProperties DEF OrderOk
  <2>3. \A i \in DOMAIN p : p[i] \in Ids /\ jobs[p[i]].status = "queued"
    <3>1. \A i \in DOMAIN p : \E m \in DOMAIN queue : p[i] = queue[m]
      BY <2>1
    <3>2. QED  BY <3>1 DEF OrderOk, Ids
  <2>4. ASSUME NEW i \in DOMAIN p, NEW k \in DOMAIN p, p[i] = p[k]
        PROVE  i = k
    <3>1. ASSUME NEW x \in DOMAIN queue, NEW y \in DOMAIN queue, queue[x] = queue[y]
          PROVE  x = y
      BY <3>1 DEF OrderOk
    <3>2. QED  BY <2>1, <2>2, <2>4, <3>1
  <2>5. ASSUME NEW i \in DOMAIN p PROVE p[i] # j
    <3>1. \E m \in DOMAIN queue : m # n /\ p[i] = queue[m]  BY <2>1, <2>2
    <3>2. QED  BY <2>1, <2>2, <3>1 DEF OrderOk
  <2>6. OrderOk(jobs, p) /\ NotDue(p, j)
    BY <2>1, <2>3, <2>4, <2>5 DEF OrderOk, NotDue, Ids
  <2>7. QED
    BY <2>6 DEF p
<1>3. QED
  BY <1>1, <1>2

\* Continuing a continuation continues the table.
LEMMA ContinuesTransitive ==
    ASSUME NEW t, NEW u, NEW v, Continues(t, u), Continues(u, v)
    PROVE  Continues(t, v)
  BY DEF Continues

-----------------------------------------------------------------------------
(* The jobs part of a step *)

\* The jobs part of a step that takes a job neither up nor away.
JobsKept == /\ TableOk(jobs')
            /\ OrderOk(jobs', queue')
            /\ Continues(jobs, jobs')
            /\ RunningIn(jobs') = RunningIn(jobs)

\* A step that leaves jobs and order alone keeps them.
LEMMA UnchangedJobs ==
    ASSUME TableOk(jobs), OrderOk(jobs, queue), UNCHANGED <<jobs, queue>>
    PROVE  JobsKept
  BY DEF JobsKept, Continues

\* So does the insert of a queued row.
LEMMA InsertKeeps ==
    ASSUME TableOk(jobs), OrderOk(jobs, queue),
           NEW job \in Job, RowOk(job), job.status = "queued", Insert(job)
    PROVE  JobsKept
  BY Appended DEF Insert, JobsKept

\* A new row is a job with the two properties of RowOk, and queued.
LEMMA NewJobOk ==
    ASSUME NEW kind \in Kind, NEW revision \in Revision, NEW input \in Fingerprint,
           kind = "summarize" => input \in Category,
           kind # "transcribe"
    PROVE  /\ NewJob(kind, revision, input) \in Job
           /\ RowOk(NewJob(kind, revision, input))
           /\ NewJob(kind, revision, input).status = "queued"
  BY NewJobIsJob DEF NewJob, RowOk

\* The insert of a new row keeps jobs and order.
LEMMA InsertNewKeeps ==
    ASSUME TableOk(jobs), OrderOk(jobs, queue),
           NEW kind \in Kind, NEW revision \in Revision, NEW input \in Fingerprint,
           kind = "summarize" => input \in Category,
           kind # "transcribe",
           Insert(NewJob(kind, revision, input))
    PROVE  JobsKept
  BY InsertKeeps, NewJobOk

\* enqueue_job does, whether it inserts or finds a job for the same input.
LEMMA EnqueueKeeps ==
    ASSUME TableOk(jobs), OrderOk(jobs, queue),
           NEW kind \in Kind, NEW revision \in Revision, NEW input \in Fingerprint,
           kind = "summarize" => input \in Category,
           kind # "transcribe",
           Enqueue(kind, revision, input)
    PROVE  JobsKept
  BY InsertNewKeeps, UnchangedJobs DEF Enqueue

\* Changing the row of a job that is not due.
LEMMA RowStep ==
    ASSUME TableOk(jobs), OrderOk(jobs, queue), NEW j \in Ids, NotDue(queue, j),
           IsActive(jobs[j].status), NEW job \in Job, RowOk(job),
           job.kind = jobs[j].kind, jobs' = [jobs EXCEPT ![j] = job]
    PROVE  /\ TableOk(jobs')
           /\ OrderOk(jobs', queue)
           /\ Continues(jobs, jobs')
           /\ Len(jobs') = Len(jobs)
           /\ DOMAIN jobs' = Ids
           /\ \A i \in Ids : jobs'[i] = IF i = j THEN job ELSE jobs[i]
<1>1. /\ TableOk(jobs')
      /\ Continues(jobs, jobs')
      /\ Len(jobs') = Len(jobs)
      /\ DOMAIN jobs' = Ids
      /\ \A i \in Ids : jobs'[i] = IF i = j THEN job ELSE jobs[i]
  <2>1. j \in DOMAIN jobs  BY DEF Ids
  <2>2. IsActive(jobs[j].status)  OBVIOUS
  <2>3. TableOk(jobs') /\ Continues(jobs, jobs')
    BY <2>1, <2>2, Replaced
  <2>4. Len(jobs') = Len(jobs)
    BY <2>1, <2>2, Replaced
  <2>5. DOMAIN jobs' = DOMAIN jobs
    OBVIOUS
  <2>6. \A i \in DOMAIN jobs : jobs'[i] = IF i = j THEN job ELSE jobs[i]
    OBVIOUS
  <2>7. QED
    BY <2>3, <2>4, <2>5, <2>6 DEF Ids
<1>2. OrderOk(jobs', queue)
  <2>1. \A i \in DOMAIN queue : queue[i] \in Ids /\ jobs'[queue[i]].status = "queued"
    BY <1>1 DEF OrderOk, NotDue, Ids
  <2>2. QED
    BY <1>1, <2>1 DEF OrderOk, Ids
<1>3. QED
  BY <1>1, <1>2

\* A finished job is a job of the same kind with the new status.
LEMMA ClosedOk ==
    ASSUME NEW job \in Job, RowOk(job), NEW status \in JobStatus
    PROVE  /\ Closed(job, status) \in Job /\ RowOk(Closed(job, status))
           /\ Closed(job, status).kind = job.kind
           /\ Closed(job, status).status = status
<1>1. (job.open /\ IsActive(status)) \in BOOLEAN
  BY Zenon
<1>2. QED
  BY <1>1 DEF Closed, Job, RowOk

\* A claimed job is a job of the same kind that is running.
LEMMA ClaimedOk ==
    ASSUME NEW job \in Job, RowOk(job)
    PROVE  LET claimed == [job EXCEPT !.status = "running", !.attempts = @ + 1]
           IN  claimed \in Job /\ RowOk(claimed) /\ claimed.kind = job.kind
                /\ claimed.status = "running"
<1>1. job.attempts + 1 \in Nat
  BY DEF Job
<1>2. QED
  BY <1>1 DEF Job, JobStatus, RowOk

-----------------------------------------------------------------------------
(* The recordings row, the artifacts and the files *)

\* A status transition keeps the recordings row typed.
LEMMA TransitionKeeps ==
    ASSUME Row, NEW target \in Status, Transition(target)
    PROVE  Row'
  BY DEF Row, Transition, RecordingRow

\* A step that leaves the recordings row alone keeps Row.
LEMMA RowUnchanged == ASSUME Row, UNCHANGED rec PROVE Row'
  BY DEF Row

\* A step that leaves the files and their rows alone keeps Files.
LEMMA FilesUnchanged == ASSUME Files, UNCHANGED <<speech, art, disk>> PROVE Files'
  BY DEF Files

\* Registering a typed transcript keeps Files.
LEMMA RegisterJsonKeeps ==
    ASSUME Files, NEW path \in Path, NEW content \in Transcript, RegisterJson(path, content),
           disk' = disk, speech' \in SpeechRow
    PROVE  Files'
<1>1. [path |-> path, content |-> content] \in JsonRow /\ content.revision \in Revision
  BY DEF JsonRow, Transcript
<1>2. QED
  BY <1>1 DEF RegisterJson, Files

\* The Markdown rendered from a transcript is typed.
LEMMA RenderedOk == ASSUME NEW doc \in Transcript PROVE Rendered(doc) \in Markdown
  BY DEF Transcript, Rendered, Markdown

\* A non-empty set of numbers up to n has a newest one: among the finite sets
\* of numbers from r on, a smallest one begins at the newest number.
LEMMA LargestExists ==
    ASSUME NEW n \in Nat, NEW numbers \in SUBSET (1..n), numbers # {}
    PROVE  /\ Newest(numbers) \in numbers
           /\ \A s \in numbers : s <= Newest(numbers)
<1> DEFINE all == 1..n
           From(r) == r..n
           upward == {From(r) : r \in numbers}
           R == StrictSubsetOrdering(all)
<1>1. numbers \subseteq all
  OBVIOUS
<1>2. IsWellFoundedOn(R, SUBSET all)
  <2>1. IsFiniteSet(all)
    BY <1>1, FS_Interval
  <2>2. FiniteSubsetsOf(all) = SUBSET all
    BY <2>1, FS_FiniteSubsetsOfFinite
  <2>3. QED
    BY <2>2, FS_StrictSubsetOrderingWellFounded
<1>3. upward \subseteq SUBSET all /\ upward # {}
  <2>1. ASSUME NEW r \in numbers PROVE From(r) \in SUBSET all
    <3>1. r \in 1..n  BY <1>1
    <3>2. QED  BY <1>1, <3>1
  <2> HIDE DEF From, all
  <2>2. QED
    BY <2>1
<1>4. PICK least \in upward : \A other \in upward : <<other, least>> \notin R
  <2> HIDE DEF upward, R, all
  <2>1. QED
    BY <1>2, <1>3, WFMin
<1>5. PICK r \in numbers : least = From(r)
  OBVIOUS
<1>6. ASSUME NEW s \in numbers PROVE s <= r
  <2>1. <<From(s), From(r)>> \notin R
    BY <1>4, <1>5
  <2>2. r \in 1..n /\ s \in 1..n
    BY <1>1
  <2>3. SUFFICES ASSUME r < s PROVE FALSE
    BY <2>2
  <2>4. From(s) \in SUBSET all /\ From(r) \in SUBSET all
    BY <1>1, <2>2
  <2>5. From(s) \subseteq From(r) /\ r \in From(r) /\ r \notin From(s)
    BY <1>1, <2>2, <2>3
  <2>6. <<From(s), From(r)>> \in (SUBSET all) \X (SUBSET all)
    BY <2>4
  <2>7. From(s) # From(r)
    BY <2>5
  <2>8. <<From(s), From(r)>> \in R
    <3> HIDE DEF From, all
    <3>1. QED  BY <2>5, <2>6, <2>7 DEF StrictSubsetOrdering
  <2>9. QED
    BY <2>1, <2>8
<1>7. QED
  BY <1>6 DEF Newest

\* A non-empty set of revisions has a newest one.
LEMMA NewestExists ==
    ASSUME NEW revisions \in SUBSET Revision, revisions # {}
    PROVE  Newest(revisions) \in revisions
  BY BoundAssumption, LargestExists DEF Revision

-----------------------------------------------------------------------------
(* What recovery plans and applies *)

\* What inspect_recovery answers, as far as the steps rely on it: a follow-up
\* is only asked for when the recording has a category, and only transcribe
\* and classify are picked up half-way, with their transcript registered.
PlanOk(plan, kind) ==
    /\ plan.action \in Action
    /\ plan.status \in Status \cup {"keep"}
    /\ plan.summarise => rec.category \in Category
    /\ plan.action = "resume" => HasJson(rec.revision) /\ kind \in {"transcribe", "classify"}

\* The plans that set no status and ask for no follow-up.
LEMMA SimplePlans ==
    ASSUME NEW kind, NEW plan \in {Stop, Restart, Done}
    PROVE  PlanOk(plan, kind)
  BY DEF PlanOk, Stop, Restart, Done, Plan, Action

\* document_completion_plan asks for a summary only of a recording with a
\* category.
LEMMA DocumentPlanOk ==
    ASSUME Row, MatchesCategory(art.json[rec.revision].content),
           HasJson(rec.revision), NEW kind,
           DocumentPlan(rec.revision).action # "resume" \/ kind = "classify"
    PROVE  PlanOk(DocumentPlan(rec.revision), kind)
<1>1. rec.category \in Category
  BY DEF Row, RecordingRow, MatchesCategory
<1>2. QED
  BY <1>1 DEF DocumentPlan, PlanOk, Plan, Stop, Resume, Action, Status

\* So does inspect_recovery, which picks up only transcribe and classify
\* half-way.
LEMMA InspectOk ==
    ASSUME Row, NEW j \in Ids, NEW sourceOk \in BOOLEAN
    PROVE  PlanOk(Inspect(j, sourceOk), jobs[j].kind)
<1> DEFINE r == rec.revision
           kind == jobs[j].kind
           plan == Inspect(j, sourceOk)
<1> SUFFICES ASSUME plan \notin {Stop, Restart, Done}
             PROVE  PlanOk(plan, kind)
  BY SimplePlans
<1>1. CASE kind = "transcribe"
  <2>1. plan = Resume /\ HasJson(r)
    BY <1>1 DEF Inspect, TranscribePlan
  <2>2. QED
    BY <1>1, <2>1 DEF PlanOk, Resume, Plan, Action
<1>2. CASE kind = "render"
  <2>1. plan = RenderPlan(r)
    BY <1>2 DEF Inspect
  <2>2. /\ plan = DocumentPlan(r) /\ plan.action \in {"complete", "error"}
        /\ HasJson(r) /\ MatchesCategory(art.json[r].content)
    BY <2>1 DEF RenderPlan
  <2>3. QED
    BY <2>2, DocumentPlanOk
<1>3. CASE kind = "summarize"
  <2>1. plan = SummaryPlan(j, r)
    BY <1>3 DEF Inspect
  <2>2. plan = Plan("complete", "COMPLETED", FALSE)
    BY <2>1 DEF SummaryPlan
  <2>3. QED
    BY <2>2 DEF PlanOk, Plan, Action, Status
<1>4. CASE kind = "classify"
  <2>1. plan = ClassifyPlan(r) /\ HasJson(r)
    BY <1>4 DEF Inspect
  <2>2. plan = DocumentPlan(r) /\ MatchesCategory(art.json[r].content)
    BY <2>1 DEF ClassifyPlan
  <2>3. QED
    BY <1>4, <2>1, <2>2, DocumentPlanOk
<1>5. CASE kind \notin {"transcribe", "render", "summarize", "classify"}
  <2>1. plan \in {Stop, Restart}
    BY <1>5 DEF Inspect, FinalizePlan
  <2>2. QED
    BY <2>1
<1>6. QED
  BY <1>1, <1>2, <1>3, <1>4, <1>5

\* The jobs and the recordings row after apply_completion.
LEMMA ApplyCompletionKeeps ==
    ASSUME Row, NEW plan, NEW kind, PlanOk(plan, kind), NEW finished,
           TableOk(finished), OrderOk(finished, queue), Continues(jobs, finished),
           Len(finished) = Len(jobs), ApplyCompletion(plan, finished)
    PROVE  /\ Row' /\ TableOk(jobs') /\ OrderOk(jobs', queue') /\ Continues(jobs, jobs')
           /\ RunningIn(jobs') = RunningIn(finished)
<1>1. Row'
  <2>1. CompletionStatus(plan) \in Status
    BY DEF CompletionStatus, PlanOk, Row, RecordingRow
  <2>2. QED
    BY <2>1 DEF ApplyCompletion, Row, RecordingRow
<1>2. CASE CompletionInserts(plan)
  <2> DEFINE job == NewJob("summarize", rec.revision, rec.category)
  <2>1. rec.category \in Category /\ rec.revision \in Revision
    BY <1>2 DEF CompletionInserts, PlanOk, Row, RecordingRow
  <2>2. job \in Job /\ RowOk(job) /\ job.status = "queued"
    BY <2>1, NewJobOk DEF Kind, Fingerprint
  <2>3. jobs' = Append(finished, job) /\ queue' = Append(queue, Len(finished) + 1)
    BY <1>2 DEF ApplyCompletion
  <2> HIDE DEF job
  <2>4. /\ TableOk(jobs') /\ OrderOk(jobs', queue') /\ Continues(finished, jobs')
        /\ RunningIn(jobs') = RunningIn(finished)
    BY <2>2, <2>3, Appended
  <2>5. QED
    BY <1>1, <2>4, ContinuesTransitive
<1>3. CASE ~CompletionInserts(plan)
  BY <1>1, <1>3 DEF ApplyCompletion
<1>4. QED
  BY <1>2, <1>3
=============================================================================
