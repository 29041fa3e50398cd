------------------------------ MODULE ReviewApi ------------------------------
(***************************************************************************)
(* The API's write requests on a recording.  Each handler is one BEGIN     *)
(* IMMEDIATE transaction that first compares the revision the client saw   *)
(* with the current one; a request that is refused changes nothing, so     *)
(* only accepted ones are actions.                                         *)
(***************************************************************************)
EXTENDS Recovery

Asked(request) == request \in Requests

\* Bounds of the exploration, not of the program.
RoomForJobs(n)  == Len(jobs) + n <= MaxJobs
RoomForRevision == rec.revision < MaxRevision

-----------------------------------------------------------------------------
(* Speaker review *)

\* Mutant of RenderActive: an edit does not wait for the last one's documents.
RenderNeverActive == FALSE

\* _ensure_render_not_active, _ensure_finalize_not_running
RenderActive    == ActiveKind("render")
FinalizeRunning == \E j \in Ids : /\ jobs[j].kind = "finalize_speakers"
                                  /\ jobs[j].status = "running"

QueuedFinalize == {j \in Ids : /\ jobs[j].kind = "finalize_speakers"
                               /\ jobs[j].status = "queued"}

\* Mutant of SpeakerRender: the job is made for the revision before the edit.
SpeakerRenderStale == NewJob("render", rec.revision, "speaker-edit-v1")

SpeakerRender == NewJob("render", rec.revision + 1, "speaker-edit-v1")

\* _enqueue_render, then _enqueue_finalize_speakers: a queued finalize job is
\* redirected to the new revision and due now, otherwise one is inserted.
InsertRenderAndFinalize ==
    LET render == Len(jobs) + 1
    IN  IF QueuedFinalize = {}
        THEN /\ jobs' = Append(Append(jobs, SpeakerRender),
                               NewJob("finalize_speakers", rec.revision + 1, "current"))
             /\ queue' = Append(Append(queue, render), render + 1)
        ELSE \E j \in QueuedFinalize :
                /\ jobs' = Append([jobs EXCEPT ![j].revision = rec.revision + 1,
                                               ![j].input = "current"], SpeakerRender)
                /\ queue' = Append(Append(Without(j), render), j)

\* assign_recording_speaker, assign_segment, assign_segments: a person is
\* assigned, or taken away again.
EditSpeakers ==
    /\ Asked("speaker")
    /\ RoomForRevision /\ RoomForJobs(2)
    /\ speech.text # 0
    /\ ~RenderActive
    /\ ~FinalizeRunning
    /\ rec' = [rec EXCEPT !.revision = @ + 1]
    /\ \E assigned \in IF Asked("rename") THEN BOOLEAN ELSE {speech.person} :
          speech' = [speech EXCEPT !.person = assigned]
    /\ InsertRenderAndFinalize
    /\ UNCHANGED <<art, disk, worker>>

\* update_person: every recording with segments of that person gets a new
\* revision and a render job, and no finalize_speakers job.
RenamePerson ==
    /\ Asked("rename")
    /\ RoomForRevision /\ RoomForJobs(1)
    /\ speech.person
    /\ ~RenderActive
    /\ rec' = [rec EXCEPT !.revision = @ + 1]
    /\ Insert(SpeakerRender)
    /\ UNCHANGED <<speech, art, disk, worker>>

-----------------------------------------------------------------------------
(* Category and summary *)

\* update_category waits for everything that reads or writes the category.
CategoryInUse == ActiveAmong({"classify", "render", "summarize"})

UpdateCategory ==
    /\ Asked("category")
    /\ RoomForRevision /\ RoomForJobs(1)
    /\ rec.category # None
    /\ ~CategoryInUse
    /\ \E c \in Category \ {rec.category} :
          rec' = [rec EXCEPT !.category = c, !.source = "manual", !.revision = @ + 1]
    /\ Insert(NewJob("render", rec.revision + 1, "category-edit-v1"))
    /\ UNCHANGED <<speech, art, disk, worker>>

Summarisable == rec.status \in {"READY_FOR_SUMMARY", "COMPLETED", "FAILED"}

\* request_summary; a job for the same input is returned instead of repeated.
RequestSummary ==
    /\ Asked("summary")
    /\ RoomForJobs(1)
    /\ rec.category # None
    /\ ~ActiveAmong({"classify", "render"})
    /\ SameInput("summarize", rec.revision, rec.category) = {}
    /\ ~ActiveKind("summarize")
    /\ Summarisable
    /\ Insert(NewJob("summarize", rec.revision, rec.category))
    /\ rec' = [rec EXCEPT !.status = "SUMMARIZING"]
    /\ UNCHANGED <<speech, art, disk, worker>>

-----------------------------------------------------------------------------
(* Retranscription and manual retry *)

SpeechBusy == ActiveAmong({"transcribe", "render"})

\* create_retranscription.  Requests with other hints are other requests, so
\* its duplicate check never stops this one.
CreateRetranscription ==
    /\ Asked("retranscribe")
    /\ RoomForRevision /\ RoomForJobs(2)
    /\ ~SpeechBusy
    /\ Insert([NewJob("transcribe", rec.revision, "retranscription") EXCEPT !.open = TRUE])
    /\ UNCHANGED <<rec, speech, art, disk, worker>>

\* recovery_action = "retry": a failed job of the present revision, not retried
\* before, nothing else active, whose inputs are intact.
Retryable(j, sourceOk) ==
    /\ jobs[j].status = "failed"
    /\ jobs[j].revision = rec.revision
    /\ ~\E child \in Ids : jobs[child].retryOf = j
    /\ ~\E other \in Ids : Active(other)
    /\ jobs[j].kind # "summarize"
    /\ ~Retranscription(j)
    /\ Inspect(j, sourceOk).action # "error"
    /\ SameInput(jobs[j].kind, jobs[j].revision, jobs[j].input) = {}

\* Mutants of RetriedStatus: an unclassified recording counts as completed, a
\* classified one as being transcribed.
RetriedAsCompleted(kind) ==
    CASE kind = "transcribe" -> "TRANSCRIBING"
      [] kind = "classify"   -> "CLASSIFYING"
      [] OTHER -> IF rec.status # "FAILED" THEN rec.status ELSE "COMPLETED"
RetriedAsTranscribing(kind) ==
    CASE kind = "classify" -> "CLASSIFYING" [] OTHER -> "TRANSCRIBING"

RetriedStatus(kind) ==
    CASE kind = "transcribe" -> "TRANSCRIBING"
      [] kind = "classify"   -> "CLASSIFYING"
      [] OTHER -> IF rec.status # "FAILED" THEN rec.status
                  ELSE IF rec.category = None THEN "TRANSCRIBING" ELSE "COMPLETED"

\* Mutant of RetryJob: the failed job itself is queued again.
RetryInPlace ==
    /\ Asked("retry")
    /\ \E j \in Ids :
          /\ Retryable(j, TRUE)
          /\ jobs' = [jobs EXCEPT ![j].status = "queued", ![j].revived = TRUE]
          /\ queue' = Append(queue, j)
          /\ rec' = [rec EXCEPT !.status = RetriedStatus(jobs[j].kind)]
    /\ UNCHANGED <<speech, art, disk, worker>>

\* retry_recording_job, enqueue_retry
RetryJob ==
    /\ Asked("retry")
    /\ RoomForJobs(1)
    /\ \E j \in Ids, sourceOk \in SourceOutcomes :
          /\ Retryable(j, sourceOk)
          /\ Insert([NewJob(jobs[j].kind, jobs[j].revision, jobs[j].input)
                        EXCEPT !.revived = TRUE, !.retryOf = j])
          /\ rec' = [rec EXCEPT !.status = RetriedStatus(jobs[j].kind)]
    /\ UNCHANGED <<speech, art, disk, worker>>

Request ==
    \/ EditSpeakers \/ RenamePerson \/ UpdateCategory
    \/ RequestSummary \/ CreateRetranscription \/ RetryJob
=============================================================================
