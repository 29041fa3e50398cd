------------------------------ MODULE Pipeline ------------------------------
(***************************************************************************)
(* One recording from its registration on: the worker (Worker) and the API *)
(* (ReviewApi) over the shared database and files (Store), with the        *)
(* worker's crashes and restarts (Recovery).                               *)
(***************************************************************************)
EXTENDS Worker, ReviewApi

CONSTANT MaxFailures  \* bound: crashes, stops and failing calls in a behaviour

ASSUME FailureAssumption == MaxFailures \in Nat

VARIABLE failures

\* register_recording: the recording and its transcribe job.
Init ==
    /\ rec = [status |-> "DISCOVERED", revision |-> 1, category |-> None,
              source |-> "none"]
    /\ speech = [text |-> 0, pending |-> FALSE, person |-> FALSE, clips |-> 0,
                 staleClip |-> FALSE]
    /\ jobs = <<NewJob("transcribe", 1, "input-v1")>>
    /\ queue = <<1>>
    /\ art = [json |-> [r \in Revision |-> None], md |-> [r \in Revision |-> None],
              sum |-> {}]
    /\ disk = [json |-> [p \in Path |-> None], md |-> None, sum |-> {}]
    /\ worker = Unemployed("idle")
    /\ failures = 0

\* failures is not program state: it bounds the failures of one behaviour.
Unfailing == Startup \/ Claim \/ Handle \/ BackoffExpires \/ Request

Next == \/ Unfailing /\ UNCHANGED failures
        \/ Fail /\ failures < MaxFailures /\ failures' = failures + 1

allVars == <<vars, failures>>

Spec == Init /\ [][Next]_allVars

(***************************************************************************)
(* Fairness.  The worker's loop takes its next step as long as the process *)
(* lives, the service manager starts it again after a crash, and time      *)
(* passes.  Failures are finite (MaxFailures); nothing is said of requests.*)
(***************************************************************************)
Fairness == /\ WF_allVars(Startup /\ UNCHANGED failures)
            /\ WF_allVars((Claim \/ Handle) /\ UNCHANGED failures)
            /\ WF_allVars(BackoffExpires /\ UNCHANGED failures)

FairSpec == Spec /\ Fairness

-----------------------------------------------------------------------------
(* Safety *)

Running == {j \in Ids : jobs[j].status = "running"}

\* Nothing is running, due or waiting for a retry.
Quiet == worker.pc = "idle" /\ \A j \in Ids : ~Active(j)

\* A failed job of the present revision that was not retried: what the user
\* sees of a failure.
VisibleFailure == \E j \in Ids : /\ jobs[j].status = "failed"
                                 /\ jobs[j].revision = rec.revision
                                 /\ \A child \in Ids : jobs[child].retryOf # j

\* The row of the job the worker holds, and no other row, says running: no
\* job is lost in a crash, a stop or a retry, and none is executed twice at
\* the same time (claim_next_job, release_job, fail_job, recover_stale_jobs).
OneRunning ==
    /\ \A i, j \in Running : i = j
    /\ worker.job # 0 => Running = {worker.job}
    /\ worker.pc = "idle" => Running = {}

\* jobs_one_active_kind: the handlers that insert without asking the index
\* (speaker and category edits, commit_retranscription, automatic matches)
\* never insert a second active job of a kind; one would be an IntegrityError.
OneActiveKind ==
    \A i, j \in Ids : Active(i) /\ Active(j) /\ jobs[i].kind = jobs[j].kind => i = j

\* jobs_one_successful_input: two jobs for one input of one kind never both
\* are, or may still become, a success.  (Retranscriptions differ by request.)
InputOnce ==
    \A i, j \in Ids :
        /\ jobs[i].kind = jobs[j].kind
        /\ jobs[i].revision = jobs[j].revision
        /\ jobs[i].input = jobs[j].input
        /\ jobs[i].status # "failed"
        /\ jobs[j].status # "failed"
        /\ ~Retranscription(i)
        => i = j

\* No job, document or summary is ahead of the recording's revision, whatever
\* a handler that began at an earlier revision writes after an edit.
NothingAhead ==
    /\ \A j \in Ids : jobs[j].revision <= rec.revision
    /\ \A r \in Revision : r > rec.revision => art.json[r] = None /\ art.md[r] = None
    /\ \A s \in art.sum : s.revision <= rec.revision

\* retranscriptions_one_active: at most one request is open, and its job is
\* still on its way, so that a request never stays open for good.
OneOpenRequest ==
    \A i, j \in Ids : jobs[i].open /\ jobs[j].open => i = j /\ Active(i)

\* No registered transcript or summary loses its file, whichever handler
\* replaced or removed one (write_artifact, write_summary_artifacts,
\* commit_retranscription).
RegisteredFilesExist ==
    /\ \A r \in Revision : HasJson(r) => FileAt(r) # None
    /\ \A s \in art.sum : \E f \in disk.sum : SamePath(f, s)

\* 01_implementation_blueprint.md:755 a file whose registration was lost is
\* registered or written again by the next recovery: once the worker rests, the
\* transcript registered for the present revision is the one in its file.
RegisteredIntact ==
    Quiet /\ HasJson(rec.revision) => Intact(art.json[rec.revision])

\* A recording nothing works on any more has ended, COMPLETED or FAILED.
Settled == Quiet => rec.status \in {"COMPLETED", "FAILED"}

\* .. or a failed job of its present revision shows where it stopped: work
\* does not get lost without a trace.
SettledOrFailed == Settled \/ VisibleFailure

\* .. or the summary that was asked for was the first one of a category that is
\* not summarised by itself, and an edit has outdated it: its job returned without
\* work (pipeline.py:434) and left SUMMARIZING, see f_summary_skipped.  Nothing
\* else stops half-way unseen, whatever is asked for and wherever clips fail.
SettledOrDropped ==
    \/ SettledOrFailed
    \/ /\ rec.status = "SUMMARIZING"
       /\ rec.category \notin AutoCategory
       /\ \A s \in art.sum : s.revision = rec.revision
       /\ \E j \in Ids : /\ jobs[j].kind = "summarize"
                         /\ jobs[j].status = "succeeded"
                         /\ jobs[j].revision < rec.revision

\* The transcript of the present revision is registered and intact, has the
\* segments and category of the database, and the Markdown document is the one
\* rendered from it.
DocumentsCurrent ==
    /\ HasJson(rec.revision)
    /\ JsonValid(rec.revision)
    /\ MatchesSegments(rec.revision)
    /\ MatchesCategory(art.json[rec.revision].content)
    /\ art.md[rec.revision] = disk.md
    /\ disk.md = Rendered(art.json[rec.revision].content)

\* COMPLETED says that the documents are current, or the job that failed to
\* make them so is visible.
CompletedIsCurrent ==
    Quiet /\ rec.status = "COMPLETED" => DocumentsCurrent \/ VisibleFailure

\* 01_implementation_blueprint.md:421 COMPLETED means that all results agree
\* with the present input and edits (whatever jobs failed on the way).
CompletedUpToDate == Quiet /\ rec.status = "COMPLETED" => DocumentsCurrent

\* 01_implementation_blueprint.md:420 SUMMARIZING means that a summary is on
\* its way: a job that makes it is still there, or has visibly failed.
SummaryUnderway == Quiet /\ rec.status = "SUMMARIZING" => VisibleFailure

\* COMPLETED also means summarised, if an earlier revision was or the category
\* is one that is summarised by itself: an edit does not lose the summary.
SummaryIsFresh ==
    /\ Quiet
    /\ rec.status = "COMPLETED"
    /\ \/ rec.category \in AutoCategory
       \/ \E s \in art.sum : s.revision < rec.revision
    => \/ \E s \in art.sum \cap disk.sum : /\ s.revision = rec.revision
                                           /\ s.category = rec.category
       \/ VisibleFailure

\* Retries and recoveries together start a job at most three times.
AttemptLimit == \A j \in Ids : jobs[j].attempts <= 3

-----------------------------------------------------------------------------
(* What a step may never do *)

\* A job that has ended stays as it ended: a retry is a new job, and neither
\* recovery, a late answer nor an edit touches it.
TerminalJobs ==
    [][\A j \in Ids : ~Active(j) => j \in DOMAIN jobs' /\ jobs'[j] = jobs[j]]_allVars

\* The category a user chose only changes by another choice of the user, not
\* by a classification that was on its way nor by a retranscription.
ManualCategoryKept ==
    [][rec.source = "manual" =>
          rec'.source = "manual" /\ (rec'.category = rec.category \/ UpdateCategory)]_allVars

\* The transaction that gives the recording its next revision also inserts a
\* job that will bring the documents to it.
NewRevisionHasJob ==
    [][rec'.revision # rec.revision =>
          /\ rec'.revision = rec.revision + 1
          /\ \E j \in DOMAIN jobs' \ Ids : jobs'[j].revision = rec'.revision]_allVars

\* A summary that is registered is not asked of the provider again, wherever
\* a crash came in.  Only a job that waited for its own retry asks again: it
\* was never interrupted, so nobody inspects it, and its first attempt may have
\* left a file that reconciliation registered at a restart in between.
HasSummary ==
    \E s \in art.sum : /\ s.revision = rec.revision
                       /\ s.category = rec.category
NotResummarised ==
    [][Summarized /\ HasSummary => Mine.attempts > 1 /\ ~Mine.revived]_allVars

\* Neither is a classification that reached the transcript.
NotReclassified ==
    [][Classified => ~HasJson(rec.revision)
                        \/ ~art.json[rec.revision].content.graded]_allVars

\* 01_implementation_blueprint.md:748 a running job of a worker that ended is
\* queued again, and progress/095_r9_01_stale_job_recovery.md:19 the speakers'
\* job goes its usual way: with attempts left, at the present revision and
\* with the transcript intact, it is not given up.
FinalizeRecovered ==
    [][\A j \in Running :
          /\ worker.pc = "recovering"
          /\ jobs[j].kind = "finalize_speakers"
          /\ jobs[j].revision = rec.revision
          /\ jobs[j].attempts < 3
          /\ HasJson(rec.revision) /\ JsonValid(rec.revision)
          => jobs'[j].status # "failed"]_allVars

\* The worker's start is never aborted by the jobs it finds.
WorkerStarts == [][~RecoverAborts]_allVars

-----------------------------------------------------------------------------
(* Refinement: the jobs table is a JobLedger. *)

Entry(job) == [kind |-> job.kind, phase |-> job.status, attempts |-> job.attempts]
Entries    == [j \in Ids |-> Entry(jobs[j])]

Ledger == INSTANCE JobLedger WITH JobKind <- Kind, ledger <- Entries

\* Whatever the transactions, crashes and edits do to it.
JobsAreLedger == Ledger!LedgerSpec

-----------------------------------------------------------------------------
(* Liveness *)

\* Every job ends, however often its attempts fail or the worker crashes.
JobsEnd == \A j \in 1..(2 * MaxJobs) : (j \in Ids) ~> (j \in Ids /\ ~Active(j))

\* The system comes to rest with the recording COMPLETED, FAILED or with a
\* failed job.
Settles == <>[](Quiet /\ SettledOrFailed)
=============================================================================
