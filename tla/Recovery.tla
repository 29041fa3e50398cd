------------------------------ MODULE Recovery ------------------------------
(***************************************************************************)
(* What a job that is not fresh may still do: inspect_recovery decides     *)
(* from the database and the files whether the job's work is already       *)
(* there (complete), can be picked up half-way (resume), can be done again *)
(* (restart) or must not be touched (error).  It is used when the worker   *)
(* starts, when it claims a job that was recovered or retried, and when    *)
(* the API decides whether a failed job may be retried.                    *)
(***************************************************************************)
EXTENDS Store

Action == {"complete", "resume", "restart", "error"}

\* status: the recording status a completion sets ("keep": none);
\* summarise: the completion also needs the summary job of this revision.
Plan(action, status, summarise) ==
    [action |-> action, status |-> status, summarise |-> summarise]

Stop    == Plan("error", "keep", FALSE)
Restart == Plan("restart", "keep", FALSE)
Resume  == Plan("resume", "keep", FALSE)
Done    == Plan("complete", "keep", FALSE)

\* artifact_bytes + validated_transcript: the file has the registered digest.
Intact(row) == /\ disk.json[row.path] = row.content

HasJson(r)   == art.json[r] # None
JsonValid(r) == /\ Intact(art.json[r])
                /\ art.json[r].content.revision = r

\* .. and its segments are the ones in the database.
MatchesSegments(r) == art.json[r].content.text = speech.text

\* The category and its source agree with the recordings row.
MatchesCategory(content) == /\ content.category # None
                            /\ content.category = rec.category
                            /\ content.source = rec.source

-----------------------------------------------------------------------------
(* One plan per kind of job; r is the recording's revision. *)

\* Mutant of DocumentPlan: the Markdown document is not looked at.
DocumentPlanUnchecked(r) ==
    IF Summarises(r, art.json[r].content.category)
    THEN Plan("complete", "SUMMARIZING", TRUE)
    ELSE Plan("complete", "COMPLETED", FALSE)

\* Mutant of DocumentPlan: a finished classification is the end of it.
DocumentPlanUnsummarised(r) ==
    IF art.md[r] = None THEN Resume
    ELSE IF art.md[r] # disk.md THEN Stop
    ELSE Plan("complete", "COMPLETED", FALSE)

\* document_completion_plan
DocumentPlan(r) ==
    IF art.md[r] = None THEN Resume
    ELSE IF art.md[r] # disk.md THEN Stop
    ELSE IF Summarises(r, art.json[r].content.category)
         THEN Plan("complete", "SUMMARIZING", TRUE)
         ELSE Plan("complete", "COMPLETED", FALSE)

TranscribePlan(j, r, sourceOk) ==
    LET target == IF Retranscription(j) THEN jobs[j].revision + 1 ELSE jobs[j].revision
        finalized == \E f \in Ids : /\ jobs[f].kind = "finalize_speakers"
                                    /\ jobs[f].revision = r
    IN  IF HasJson(r) /\ r = target
        THEN IF finalized /\ ~speech.pending THEN Done
             ELSE IF sourceOk THEN Resume ELSE Stop
        ELSE IF Retranscription(j) /\ (~jobs[j].open \/ r # jobs[j].revision) THEN Stop
        ELSE IF sourceOk THEN Restart ELSE Stop

RenderPlan(r) ==
    LET earlier == RevisionsWithJson(r)
        again   == IF earlier # {} /\ JsonValid(Newest(earlier)) THEN Restart ELSE Stop
    IN  IF ~HasJson(r) THEN again
        ELSE IF ~MatchesCategory(art.json[r].content) THEN Stop
        ELSE IF DocumentPlan(r).action \in {"complete", "error"} THEN DocumentPlan(r)
        ELSE again

\* Mutant of SummaryPlan: a registered summary is made again.
SummaryPlanAgain(j, r) == IF jobs[j].input # rec.category THEN Stop ELSE Restart

SummaryPlan(j, r) ==
    LET rows == {s \in art.sum : s.revision = r}
    IN  IF \E s \in rows : \/ s \notin disk.sum
                           \/ s.category # rec.category
                           \/ s.category # jobs[j].input
        THEN Stop
        ELSE IF rows # {} THEN Plan("complete", "COMPLETED", FALSE)
        ELSE IF jobs[j].input # rec.category THEN Stop
        ELSE Restart

\* Mutant of ClassifyPlan: a classified transcript is classified again.
ClassifyPlanAgain(r) == Restart

ClassifyPlan(r) ==
    LET content == art.json[r].content
    IN  IF content.category = None THEN Restart
        ELSE IF ~content.graded \/ ~MatchesCategory(content) THEN Stop
        ELSE DocumentPlan(r)

\* Every clip row of the recording is checked, whatever its revision.
FinalizePlan == IF speech.staleClip THEN Stop ELSE Restart

\* Whether the recording is still at the revision the job was made for.
RevisionFits(j, r) ==
    \/ r = jobs[j].revision
    \/ Retranscription(j) /\ r = jobs[j].revision + 1

Inspect(j, sourceOk) ==
    LET r == rec.revision
        kind == jobs[j].kind
    IN  IF \/ ~RevisionFits(j, r)
           \/ HasJson(r) /\ ~(JsonValid(r) /\ MatchesSegments(r))
        THEN Stop
        ELSE IF kind = "transcribe" THEN TranscribePlan(j, r, sourceOk)
        ELSE IF kind = "render" THEN RenderPlan(r)
        ELSE IF ~HasJson(r) THEN Stop
        ELSE IF kind = "summarize" THEN SummaryPlan(j, r)
        ELSE IF kind = "classify" THEN ClassifyPlan(r)
        ELSE FinalizePlan

\* validate_source reads the recording file again: it may have gone or changed.
SourceOutcomes == IF "source" \in Faults THEN BOOLEAN ELSE {TRUE}

-----------------------------------------------------------------------------
(* apply_completion: the follow-up job and the recording status. *)

OfInput(kind, r) == {j \in Ids : jobs[j].kind = kind /\ jobs[j].revision = r}

\* Mutant of FollowMissing: the follow-up is taken for granted.
FollowNeverMissing(kind, r) == FALSE

\* Mutant of FollowMissing: the follow-up is inserted whether it is there or not.
FollowAlwaysMissing(kind, r) == TRUE

\* No follow-up yet: it is inserted.  One with other settings is an error, one
\* that already ended leaves the recording status as it is.
FollowMissing(kind, r) == OfInput(kind, r) = {}
FollowDiffers(kind, r, input) ==
    ~FollowMissing(kind, r) /\ jobs[Newest(OfInput(kind, r))].input # input
FollowEnded(kind, r) ==
    ~FollowMissing(kind, r) /\ ~Active(Newest(OfInput(kind, r)))
FollowConflicts(kind, r) == FollowMissing(kind, r) /\ Conflicts(kind)

\* The parts of a plan's completion for the summary it may have to enqueue.
CompletionErrs(plan) ==
    plan.summarise /\ FollowDiffers("summarize", rec.revision, rec.category)
CompletionConflicts(plan) ==
    plan.summarise /\ FollowConflicts("summarize", rec.revision)
\* Mutant of CompletionStatus: the job is completed, the recording is not.
CompletionStatusKept(plan) == rec.status

CompletionStatus(plan) ==
    IF plan.status = "keep" \/ (plan.summarise /\ FollowEnded("summarize", rec.revision))
    THEN rec.status ELSE plan.status
CompletionInserts(plan) == plan.summarise /\ FollowMissing("summarize", rec.revision)

\* apply_completion as a step; it is only taken when it neither errs nor
\* conflicts.  finished is the jobs table without the follow-up.
ApplyCompletion(plan, finished) ==
    /\ rec' = [rec EXCEPT !.status = CompletionStatus(plan)]
    /\ IF CompletionInserts(plan)
       THEN /\ jobs' = Append(finished,
                              NewJob("summarize", rec.revision, rec.category))
            /\ queue' = Append(queue, Len(jobs) + 1)
       ELSE jobs' = finished /\ UNCHANGED queue

-----------------------------------------------------------------------------
(* Starting the worker: reconciliation, then recover_stale_jobs. *)

\* Mutant of RecoveryLimit.
RecoveryLimitPlusOne == 4

RecoveryLimit == 3

\* A summary file of the present input that no row names: its registration
\* was lost.  It is registered if the transcript it is about is intact.
LostSummaries ==
    {f \in disk.sum : /\ f.revision = rec.revision
                      /\ f.category = rec.category
                      /\ ~\E s \in art.sum : SamePath(s, f)
                      /\ HasJson(rec.revision)
                      /\ disk.json[art.json[rec.revision].path] # None
                      /\ disk.json[art.json[rec.revision].path].revision = rec.revision
                      /\ disk.json[art.json[rec.revision].path].category = rec.category
                      /\ disk.json[art.json[rec.revision].path].source = rec.source}

Reconcile ==
    /\ worker.pc = "down"
    /\ worker' = [worker EXCEPT !.pc = "recovering"]
    /\ IF LostSummaries = {}
       THEN UNCHANGED <<art, disk>>
       ELSE \E f \in LostSummaries :
                /\ art'  = [art  EXCEPT !.sum = SummaryRowsAfter(f)]
                /\ disk' = [disk EXCEPT !.sum = SummaryFilesAfter(f)]
    /\ UNCHANGED <<rec, speech, jobs, queue>>

\* Mutants of Stale: exhausted jobs, or retranscriptions, are left running.
StaleNotExhausted == {j \in Ids : /\ jobs[j].status = "running"
                                  /\ jobs[j].attempts < RecoveryLimit}
StaleNotRetranscribed == {j \in Ids : jobs[j].status = "running" /\ ~Retranscription(j)}

Stale == {j \in Ids : jobs[j].status = "running"}

\* Mutant of Recovered: a recovered job counts its attempts anew.
RecoveredAnew(j, status) == [jobs EXCEPT ![j] = [Closed(@, status)
                                EXCEPT !.revived = TRUE, !.attempts = 0]]

Recovered(j, status) == [jobs EXCEPT ![j] = [Closed(@, status) EXCEPT !.revived = TRUE]]

RecoverComplete(j, plan) ==
    /\ plan.action = "complete"
    /\ ~CompletionErrs(plan)
    /\ ~CompletionConflicts(plan)
    /\ ApplyCompletion(plan, Recovered(j, "succeeded"))

\* available_at becomes created_at, which precedes every due job's.
RecoverRequeue(j, plan) ==
    /\ plan.action \in {"resume", "restart"}
    /\ jobs[j].attempts < RecoveryLimit
    /\ jobs' = Recovered(j, "queued")
    /\ queue' = <<j>> \o queue
    /\ UNCHANGED rec

\* The recording fails with the job unless something else still works on it.
RecoverFail(j, plan) ==
    /\ \/ plan.action = "error"
       \/ plan.action = "complete" /\ CompletionErrs(plan)
       \/ plan.action \in {"resume", "restart"} /\ jobs[j].attempts >= RecoveryLimit
    /\ jobs' = Recovered(j, "failed")
    /\ IF /\ rec.revision = jobs[j].revision
          /\ rec.status # "COMPLETED"
          /\ ~Retranscription(j)
          /\ \A i \in Ids \ {j} : ~Active(i)
       THEN Transition("FAILED")
       ELSE UNCHANGED rec
    /\ UNCHANGED queue

\* recover_stale_jobs: one transaction over the running jobs (there is at most
\* one, OneRunning).
Recover ==
    /\ worker.pc = "recovering"
    /\ worker' = [worker EXCEPT !.pc = "idle"]
    /\ \/ Stale = {} /\ UNCHANGED <<rec, jobs, queue>>
       \/ \E j \in Stale, sourceOk \in SourceOutcomes :
            \/ RecoverComplete(j, Inspect(j, sourceOk))
            \/ RecoverRequeue(j, Inspect(j, sourceOk))
            \/ RecoverFail(j, Inspect(j, sourceOk))
    /\ UNCHANGED <<speech, art, disk>>

\* The follow-up's insert violates jobs_one_active_kind: sqlite3.IntegrityError
\* is not a RecoveryError, the transaction rolls back and the process exits.
RecoverAborts ==
    /\ worker.pc = "recovering"
    /\ \E j \in Stale, sourceOk \in SourceOutcomes :
          /\ Inspect(j, sourceOk).action = "complete"
          /\ ~CompletionErrs(Inspect(j, sourceOk))
          /\ CompletionConflicts(Inspect(j, sourceOk))
    /\ worker' = [worker EXCEPT !.pc = "down"]
    /\ UNCHANGED <<rec, speech, jobs, queue, art, disk>>
=============================================================================
