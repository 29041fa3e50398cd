------------------------------- MODULE Worker -------------------------------
(***************************************************************************)
(* The worker: claim_next_job and process_one_job around the job handler   *)
(* (RealSpeechPipelineHandler, whose document half is FakePipelineHandler).*)
(* A handler runs over many transactions and file replacements; an action  *)
(* of this module is what it does between two points where an API request, *)
(* a failure or a crash can come in.                                       *)
(***************************************************************************)
EXTENDS Recovery

Unemployed(pc) == [pc |-> pc, job |-> 0, seen |-> None, doc |-> None,
                   resumed |-> FALSE, retry |-> FALSE]

Mine == jobs[worker.job]
Doing(kind) == Mine.kind = kind
At(pc) == worker.pc = pc
Goto(pc) == worker' = [worker EXCEPT !.pc = pc]

\* The handler returns normally.
Return == worker' = [Unemployed("done") EXCEPT !.job = worker.job]

\* transcribe (of a new recording) and classify put the recording in FAILED.
MarksRecording == ~worker.resumed /\ \/ Doing("classify")
                                     \/ Doing("transcribe") /\ ~Retranscription(worker.job)

\* The handler raises; whatever _resume_recovered raises is final.
Raise(retryable) ==
    worker' = [Unemployed(IF MarksRecording THEN "marking" ELSE "failing")
                   EXCEPT !.job = worker.job, !.retry = retryable /\ ~worker.resumed]

-----------------------------------------------------------------------------
(* jobs.py and runtime.py: claiming and finishing *)

RetryLimit == 3

Claim ==
    /\ At("idle")
    /\ queue # <<>>
    /\ jobs' = [jobs EXCEPT ![Head(queue)].status = "running",
                            ![Head(queue)].attempts = @ + 1]
    /\ queue' = Tail(queue)
    /\ worker' = [Unemployed("claimed") EXCEPT !.job = Head(queue)]
    /\ UNCHANGED <<rec, speech, art, disk>>

\* release_job: a stop request arrived between the claim and the handler.
Release ==
    /\ At("claimed")
    /\ "stop" \in Faults
    /\ Mine.attempts < MaxAttempts
    /\ jobs' = [jobs EXCEPT ![worker.job].status = "queued"]
    /\ queue' = Append(queue, worker.job)
    /\ worker' = Unemployed("down")
    /\ UNCHANGED <<rec, speech, art, disk>>

CompleteJob ==
    /\ At("done")
    /\ Finish(worker.job, "succeeded")
    /\ worker' = Unemployed("idle")
    /\ UNCHANGED <<rec, speech, queue, art, disk>>

MarkFailed ==
    /\ At("marking")
    /\ IF CanTransition("FAILED") THEN Transition("FAILED") ELSE UNCHANGED rec
    /\ Goto("failing")
    /\ UNCHANGED <<speech, jobs, queue, art, disk>>

Retries == worker.retry /\ Mine.attempts < RetryLimit

\* A summary that failed for good fails the recording it was summarising.
FailsSummary == /\ Doing("summarize")
                /\ Mine.revision = rec.revision
                /\ rec.status = "SUMMARIZING"

FailJob ==
    /\ At("failing")
    /\ IF Retries
       THEN jobs' = [jobs EXCEPT ![worker.job].status = "queued"] /\ UNCHANGED rec
       ELSE /\ Finish(worker.job, "failed")
            /\ IF FailsSummary THEN Transition("FAILED") ELSE UNCHANGED rec
    /\ worker' = Unemployed("idle")
    /\ UNCHANGED <<speech, queue, art, disk>>

\* available_at of a job that is waiting for its retry is reached.
BackoffExpires ==
    /\ \E j \in Ids : Waiting(j) /\ queue' = Append(queue, j)
    /\ UNCHANGED <<rec, speech, jobs, art, disk, worker>>

-----------------------------------------------------------------------------
(* _resume_recovered: a job that was recovered or retried is inspected first *)

ResumeComplete(plan) ==
    /\ plan.action = "complete"
    /\ ~CompletionErrs(plan)
    /\ ~CompletionConflicts(plan)
    /\ ApplyCompletion(plan, jobs)
    /\ Return

ResumeRefused(plan) ==
    /\ \/ plan.action = "error"
       \/ plan.action = "complete" /\ (CompletionErrs(plan) \/ CompletionConflicts(plan))
    /\ worker' = [Unemployed("failing") EXCEPT !.job = worker.job]
    /\ UNCHANGED <<rec, jobs, queue>>

\* transcribe goes on at the speaker clips, classify at its artifacts.
ResumeHalfway(plan) ==
    /\ plan.action = "resume"
    /\ worker' = [worker EXCEPT !.pc = IF Doing("transcribe") THEN "clips" ELSE "jsonFile",
                                !.doc = art.json[rec.revision].content,
                                !.resumed = TRUE]
    /\ UNCHANGED <<rec, jobs, queue>>

StartOver(plan) ==
    /\ plan.action = "restart"
    /\ Goto("start")
    /\ UNCHANGED <<rec, jobs, queue>>

ResumeRecovered ==
    /\ At("claimed")
    /\ Mine.revived
    /\ \E sourceOk \in SourceOutcomes :
          LET plan == Inspect(worker.job, sourceOk)
          IN  ResumeComplete(plan) \/ ResumeRefused(plan)
                \/ ResumeHalfway(plan) \/ StartOver(plan)
    /\ UNCHANGED <<speech, art, disk>>

\* The end of a resumed transcribe: make sure it has its finalize_speakers job.
SettleTranscribe ==
    /\ At("settle")
    /\ Doing("transcribe")
    /\ IF FollowConflicts("finalize_speakers", worker.doc.revision)
       THEN Raise(FALSE) /\ UNCHANGED <<jobs, queue>>
       ELSE /\ Return
            /\ IF FollowMissing("finalize_speakers", worker.doc.revision)
               THEN Insert(NewJob("finalize_speakers", worker.doc.revision, "current"))
               ELSE UNCHANGED <<jobs, queue>>
    /\ UNCHANGED <<rec, speech, art, disk>>

\* The end of a resumed classify: inspect again, apply what the plan says.
SettleClassify ==
    /\ At("settle")
    /\ Doing("classify")
    /\ \E sourceOk \in SourceOutcomes :
          LET plan == Inspect(worker.job, sourceOk)
          IN  \/ ResumeComplete(plan)
              \/ ResumeRefused(plan)
              \/ /\ plan.action \in {"resume", "restart"}
                 /\ Return
                 /\ UNCHANGED <<rec, jobs, queue>>
    /\ UNCHANGED <<speech, art, disk>>

-----------------------------------------------------------------------------
(* The first part of a handler: read the recording, check, load *)

Starting == At("start") \/ (At("claimed") /\ ~Mine.revived)

\* worker' for a handler that read the recordings row and goes on at pc.
Proceed(pc, doc) == worker' = [worker EXCEPT !.pc = pc, !.seen = rec, !.doc = doc]

\* _load_transcript at revision r: a missing file is an OSError (retryable), a
\* missing row or another revision's content a ValueError.
FileAt(r)   == disk.json[art.json[r].path]
Loads(r)    == /\ HasJson(r)
               /\ FileAt(r) # None
               /\ FileAt(r).revision = r
FileGone(r) == HasJson(r) /\ FileAt(r) = None

StartTranscribe ==
    /\ Starting
    /\ Doing("transcribe")
    /\ IF Retranscription(worker.job) THEN Proceed("model", None) /\ UNCHANGED rec
       ELSE IF CanEnter("TRANSCRIBING")
       THEN Transition("TRANSCRIBING") /\ Proceed("model", None)
       ELSE Raise(FALSE) /\ UNCHANGED rec
    /\ UNCHANGED <<speech, jobs, queue, art, disk>>

\* _classify works on the recording's revision, not on the job's.
ClassifyRevision == rec.revision

StartClassify ==
    /\ Starting
    /\ Doing("classify")
    /\ IF CanEnter("CLASSIFYING")
       THEN /\ Transition("CLASSIFYING")
            /\ IF Loads(ClassifyRevision)
               THEN Proceed("model", FileAt(ClassifyRevision))
               ELSE Raise(FileGone(ClassifyRevision))
       ELSE Raise(FALSE) /\ UNCHANGED rec
    /\ UNCHANGED <<speech, jobs, queue, art, disk>>

\* A job made for an earlier input does nothing and succeeds.
FinalizeOutdated  == rec.revision # Mine.revision
SummarizeOutdated == rec.revision # Mine.revision \/ rec.category # Mine.input

StartFinalize ==
    /\ Starting
    /\ Doing("finalize_speakers")
    /\ IF FinalizeOutdated THEN Return ELSE Proceed("model", None)
    /\ UNCHANGED <<rec, speech, jobs, queue, art, disk>>

StartSummarize ==
    /\ Starting
    /\ Doing("summarize")
    /\ IF SummarizeOutdated THEN Return
       ELSE IF Loads(rec.revision) THEN Proceed("model", None)
       ELSE Raise(FileGone(rec.revision))
    /\ UNCHANGED <<rec, speech, jobs, queue, art, disk>>

\* Mutant of Rerendered: the category stays the one of the earlier transcript.
RerenderedAsClassified(earlier) ==
    [earlier EXCEPT !.revision = rec.revision, !.text = speech.text]

\* The earlier transcript with the present segments and category.
Rerendered(earlier) ==
    [revision |-> rec.revision, text |-> speech.text, category |-> rec.category,
     source |-> rec.source, graded |-> earlier.graded]

\* _render takes the newest earlier transcript; a recording without a category
\* is a TypeError.
StartRender ==
    /\ Starting
    /\ Doing("render")
    /\ LET r == rec.revision
           earlier == RevisionsWithJson(r)
       IN  IF r # Mine.revision \/ earlier = {} THEN Raise(FALSE)
           ELSE IF FileAt(Newest(earlier)) = None THEN Raise(TRUE)
           ELSE IF rec.category = None THEN Raise(FALSE)
           ELSE Proceed("jsonFile", Rerendered(FileAt(Newest(earlier))))
    /\ UNCHANGED <<rec, speech, jobs, queue, art, disk>>

-----------------------------------------------------------------------------
(* The adapters: speech, classification, summary and embedding models *)

ModelFails ==
    /\ At("model")
    /\ \/ "transient" \in Faults /\ Raise(TRUE)
       \/ "permanent" \in Faults /\ Raise(FALSE)
    /\ UNCHANGED <<rec, speech, jobs, queue, art, disk>>

\* Mutant of FreshTranscript: off by one revision.
FreshTranscriptAhead(revision) == [revision |-> revision + 1, text |-> revision,
                                   category |-> None, source |-> "none", graded |-> FALSE]

FreshTranscript(revision) == [revision |-> revision, text |-> revision,
                              category |-> None, source |-> "none", graded |-> FALSE]

\* _replace_segments: new speakers wait for their clips.
Transcribed ==
    /\ At("model")
    /\ Doing("transcribe")
    /\ IF Retranscription(worker.job)
       THEN /\ worker' = [worker EXCEPT !.pc = "stage",
                                        !.doc = FreshTranscript(Mine.revision + 1)]
            /\ UNCHANGED speech
       ELSE /\ worker' = [worker EXCEPT !.pc = "jsonFile",
                                        !.doc = FreshTranscript(worker.seen.revision)]
            /\ speech' = [speech EXCEPT !.text = worker.seen.revision,
                                        !.pending = @ \/ speech.text = 0]
    /\ UNCHANGED <<rec, jobs, queue, art, disk>>

\* Mutant of KeepsCategory: a classification always counts.
KeepsNoCategory == FALSE

\* _save_classification: a category the user chose stays.
KeepsCategory == rec.source = "manual"

Classified ==
    /\ At("model")
    /\ Doing("classify")
    /\ \E c \in Category :
          rec' = IF KeepsCategory THEN rec
                 ELSE [rec EXCEPT !.category = c, !.source = "auto"]
    /\ worker' = [worker EXCEPT !.pc = "jsonFile",
                                !.doc = [@ EXCEPT !.category = rec'.category,
                                                  !.source = rec'.source,
                                                  !.graded = TRUE]]
    /\ UNCHANGED <<speech, jobs, queue, art, disk>>

Summarized ==
    /\ At("model")
    /\ Doing("summarize")
    /\ Goto("sumFile")
    /\ UNCHANGED <<rec, speech, jobs, queue, art, disk>>

Embedded ==
    /\ At("model")
    /\ Doing("finalize_speakers")
    /\ Goto("match")
    /\ UNCHANGED <<rec, speech, jobs, queue, art, disk>>

-----------------------------------------------------------------------------
(* Writing transcript.json and the Markdown document: file, then row *)

JsonPath == IF Doing("render") THEN worker.doc.revision ELSE 0

JsonWritten     == [disk EXCEPT !.json[JsonPath] = worker.doc]
MarkdownWritten == [disk EXCEPT !.md = Rendered(worker.doc)]

WriteJson ==
    /\ At("jsonFile")
    /\ disk' = JsonWritten
    /\ Goto("jsonRow")
    /\ UNCHANGED <<rec, speech, jobs, queue, art>>

RegisterTranscript ==
    /\ At("jsonRow")
    /\ RegisterJson(JsonPath, worker.doc)
    /\ Goto(IF Doing("transcribe") THEN "clips" ELSE "mdFile")
    /\ UNCHANGED <<rec, speech, jobs, queue, disk>>

WriteMarkdown ==
    /\ At("mdFile")
    /\ disk' = MarkdownWritten
    /\ Goto("mdRow")
    /\ UNCHANGED <<rec, speech, jobs, queue, art>>

RegisterMarkdown ==
    /\ At("mdRow")
    /\ art' = [art EXCEPT !.md[worker.doc.revision] = Rendered(worker.doc)]
    /\ Goto(IF worker.resumed THEN "settle" ELSE "follow")
    /\ UNCHANGED <<rec, speech, jobs, queue, disk>>

\* TranscriptRendererError: render builds both documents before it writes.
RendererFails ==
    /\ \/ At("jsonFile") /\ Doing("render")
       \/ At("mdFile") /\ Doing("classify")
    /\ "permanent" \in Faults
    /\ Raise(FALSE)
    /\ UNCHANGED <<rec, speech, jobs, queue, art, disk>>

\* generate_speaker_clips replaces one clip file after the other and registers
\* each.  The paths are shared by all revisions: the rows of an earlier
\* transcription have lost their bytes before the speakers get their status.
CutClips ==
    /\ At("clips")
    /\ \/ speech' = [speech EXCEPT !.clips = worker.doc.revision,
                                   !.staleClip = @ \/ speech.clips \notin
                                                         {0, worker.doc.revision}]
       \/ "clips" \in Faults /\ UNCHANGED speech
    /\ Goto("clipRows")
    /\ UNCHANGED <<rec, jobs, queue, art, disk>>

\* _register_clips; _generate_speaker_clips does not fail its job if it fails.
RegisterClips ==
    /\ At("clipRows")
    /\ \/ speech' = [speech EXCEPT !.pending = FALSE]
       \/ "clips" \in Faults /\ UNCHANGED speech
    /\ IF worker.resumed THEN Goto("settle")
       ELSE IF Retranscription(worker.job) THEN Return
       ELSE Goto("follow")
    /\ UNCHANGED <<rec, jobs, queue, art, disk>>

-----------------------------------------------------------------------------
(* commit_retranscription *)

\* _preserve_history copies the artifacts of the base revision.
HistoryAvailable(base) ==
    /\ HasJson(base) => FileAt(base) # None
    /\ art.md[base] # None => disk.md # None
    /\ \A s \in art.sum : s.revision = base => \E f \in disk.sum : SamePath(f, s)

StageRetranscription ==
    /\ At("stage")
    /\ IF HistoryAvailable(Mine.revision)
       THEN /\ disk' = [disk EXCEPT !.json[worker.doc.revision] = worker.doc]
            /\ Goto("commit")
       ELSE Raise(FALSE) /\ UNCHANGED disk
    /\ UNCHANGED <<rec, speech, jobs, queue, art>>

\* The recording is still at the base revision, and the insert of the new
\* finalize_speakers job does not violate jobs_one_active_kind.
CanCommit == rec.revision = Mine.revision /\ ~Conflicts("finalize_speakers")

CommitRetranscription ==
    /\ At("commit")
    /\ CanCommit
    /\ LET target == worker.doc.revision
           keeps  == rec.source = "manual"
       IN  /\ rec' = [status   |-> "TRANSCRIBING",
                      revision |-> target,
                      category |-> IF keeps THEN rec.category ELSE None,
                      source   |-> IF keeps THEN "manual" ELSE "none"]
           /\ speech' = [speech EXCEPT !.text = target, !.pending = TRUE, !.person = FALSE]
           /\ RegisterJson(target, worker.doc)
           /\ Insert(NewJob("finalize_speakers", target, "current"))
    /\ Goto("clips")
    /\ UNCHANGED disk

\* The staged file is removed, whoever it belongs to.
AbandonRetranscription ==
    /\ At("commit")
    /\ ~CanCommit
    /\ disk' = [disk EXCEPT !.json[worker.doc.revision] = None]
    /\ Raise(FALSE)
    /\ UNCHANGED <<rec, speech, jobs, queue, art>>

-----------------------------------------------------------------------------
(* finalize_speakers: _store_matches_and_apply *)

KeepSpeakers ==
    /\ At("match")
    /\ IF FinalizeOutdated THEN Return ELSE Goto("follow")
    /\ UNCHANGED <<rec, speech, jobs, queue, art, disk>>

\* Mutant of Matched: the match does not make a new revision.
MatchedInPlace == rec

\* An automatic match is an edit: a new revision and its render job.
Matched == [rec EXCEPT !.revision = @ + 1]

AutoMatch ==
    /\ At("match")
    /\ ~FinalizeOutdated
    /\ "automatch" \in Requests
    /\ rec.revision < MaxRevision
    /\ IF Conflicts("render")
       THEN Raise(FALSE) /\ UNCHANGED <<rec, speech, jobs, queue>>
       ELSE /\ rec' = Matched
            /\ speech' = [speech EXCEPT !.person = TRUE]
            /\ Insert(NewJob("render", rec.revision + 1, "speaker-auto-match-v1"))
            /\ worker' = [worker EXCEPT !.pc = "follow", !.seen.revision = rec.revision + 1]
    /\ UNCHANGED <<art, disk>>

-----------------------------------------------------------------------------
(* The last part of a handler: the follow-up job and the new status *)

FollowTranscribe ==
    /\ At("follow")
    /\ Doing("transcribe")
    /\ IF CanEnqueue("finalize_speakers", worker.doc.revision, "current")
       THEN Enqueue("finalize_speakers", worker.doc.revision, "current") /\ Return
       ELSE Raise(FALSE) /\ UNCHANGED <<jobs, queue>>
    /\ UNCHANGED <<rec, speech, art, disk>>

\* transition_and_enqueue, one transaction.
TransitionAndEnqueue(target, kind, revision, input) ==
    IF CanTransition(target) /\ CanEnqueue(kind, revision, input)
    THEN Transition(target) /\ Enqueue(kind, revision, input) /\ Return
    ELSE Raise(FALSE) /\ UNCHANGED <<rec, jobs, queue>>

\* Mutant of AwaitsClassification: only the first transcription goes on.
AwaitsFirstClassification == rec.status = "TRANSCRIBING" /\ rec.revision = 1

\* _continue_after_speaker_finalization
AwaitsClassification == rec.status = "TRANSCRIBING"

FollowFinalize ==
    /\ At("follow")
    /\ Doing("finalize_speakers")
    /\ IF AwaitsClassification
       THEN TransitionAndEnqueue("CLASSIFYING", "classify", worker.seen.revision, "current")
       ELSE Return /\ UNCHANGED <<rec, jobs, queue>>
    /\ UNCHANGED <<speech, art, disk>>

\* _finish_classification: without a summary, READY_FOR_SUMMARY and then
\* COMPLETED are two transactions.
FollowClassify ==
    /\ At("follow")
    /\ Doing("classify")
    /\ IF Summarises(worker.doc.revision, worker.doc.category)
       THEN TransitionAndEnqueue("SUMMARIZING", "summarize",
                                 worker.doc.revision, worker.doc.category)
       ELSE /\ IF CanTransition("READY_FOR_SUMMARY")
               THEN Transition("READY_FOR_SUMMARY") /\ Goto("ready")
               ELSE Raise(FALSE) /\ UNCHANGED rec
            /\ UNCHANGED <<jobs, queue>>
    /\ UNCHANGED <<speech, art, disk>>

Resummarizes(status) == status \in {"READY_FOR_SUMMARY", "COMPLETED", "FAILED"}

\* The end of _render: the summary job, and in a second transaction, decided on
\* the status read at the start, SUMMARIZING.
FollowRender ==
    /\ At("follow")
    /\ Doing("render")
    /\ IF ~Summarises(worker.seen.revision, worker.seen.category)
       THEN Return /\ UNCHANGED <<jobs, queue>>
       ELSE IF ~CanEnqueue("summarize", worker.seen.revision, worker.seen.category)
       THEN Raise(FALSE) /\ UNCHANGED <<jobs, queue>>
       ELSE /\ Enqueue("summarize", worker.seen.revision, worker.seen.category)
            /\ IF /\ SameInput("summarize", worker.seen.revision, worker.seen.category) = {}
                  /\ Resummarizes(worker.seen.status)
               THEN Goto("resummarize")
               ELSE Return
    /\ UNCHANGED <<rec, speech, art, disk>>

\* The transition that ends _render, _summarize and _finish_classification.
LastTransition ==
    /\ worker.pc \in {"ready", "resummarize"}
    /\ LET target == IF At("ready") THEN "COMPLETED" ELSE "SUMMARIZING"
       IN  IF CanTransition(target)
           THEN Transition(target) /\ Return
           ELSE Raise(FALSE) /\ UNCHANGED rec
    /\ UNCHANGED <<speech, jobs, queue, art, disk>>

NewSummary == [revision |-> worker.seen.revision, category |-> worker.seen.category,
               by |-> worker.job]
SummaryWritten == [disk EXCEPT !.sum = SummaryFileWritten(NewSummary)]

WriteSummary ==
    /\ At("sumFile")
    /\ disk' = SummaryWritten
    /\ Goto("sumRow")
    /\ UNCHANGED <<rec, speech, jobs, queue, art>>

RegisterSummary ==
    /\ At("sumRow")
    /\ art'  = [art  EXCEPT !.sum = SummaryRowsAfter(NewSummary)]
    /\ disk' = [disk EXCEPT !.sum = SummaryFilesAfter(NewSummary)]
    /\ IF worker.seen.status = "COMPLETED" THEN Return ELSE Goto("ready")
    /\ UNCHANGED <<rec, speech, jobs, queue>>

\* An OSError before the replacement: the old file stays.
WriteFails ==
    /\ worker.pc \in {"jsonFile", "mdFile", "sumFile", "stage"}
    /\ "io" \in Faults
    /\ Raise(TRUE)
    /\ UNCHANGED <<rec, speech, jobs, queue, art, disk>>

\* An OSError after it, of the directory's fsync: the new file is there, its
\* row is not.  (_atomic_stage has no such fsync.)
SyncFails ==
    /\ \/ At("jsonFile") /\ disk' = JsonWritten
       \/ At("mdFile") /\ disk' = MarkdownWritten
       \/ At("sumFile") /\ disk' = SummaryWritten
    /\ "io" \in Faults
    /\ Raise(TRUE)
    /\ UNCHANGED <<rec, speech, jobs, queue, art>>

-----------------------------------------------------------------------------
(* Process failures *)

Crash ==
    /\ "crash" \in Faults
    /\ ~At("down")
    /\ worker' = Unemployed("down")
    /\ UNCHANGED <<rec, speech, jobs, queue, art, disk>>

\* A stop request between two jobs ends the process.
Shutdown ==
    /\ "stop" \in Faults
    /\ At("idle")
    /\ worker' = Unemployed("down")
    /\ UNCHANGED <<rec, speech, jobs, queue, art, disk>>

Startup == Reconcile \/ Recover \/ RecoverAborts

Handle ==
    \/ ResumeRecovered \/ SettleTranscribe \/ SettleClassify
    \/ StartTranscribe \/ StartClassify \/ StartFinalize \/ StartSummarize \/ StartRender
    \/ Transcribed \/ Classified \/ Summarized \/ Embedded
    \/ WriteJson \/ RegisterTranscript \/ WriteMarkdown \/ RegisterMarkdown
    \/ CutClips \/ RegisterClips
    \/ StageRetranscription \/ CommitRetranscription \/ AbandonRetranscription
    \/ KeepSpeakers \/ AutoMatch
    \/ FollowTranscribe \/ FollowFinalize \/ FollowClassify \/ FollowRender
    \/ LastTransition \/ WriteSummary \/ RegisterSummary
    \/ MarkFailed \/ FailJob \/ CompleteJob

Fail == ModelFails \/ WriteFails \/ SyncFails \/ RendererFails \/ Release \/ Crash \/ Shutdown
=============================================================================
