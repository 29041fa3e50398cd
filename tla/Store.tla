------------------------------- MODULE Store -------------------------------
(***************************************************************************)
(* The durable state of one recording and the transactions everybody uses  *)
(* on it: the recordings row, the jobs table with its unique indexes and   *)
(* claim order, the artifacts table, the files the artifact rows point to, *)
(* and the place the (single) worker process has reached in its handler.   *)
(*                                                                         *)
(* Every SQL transaction (BEGIN IMMEDIATE .. commit) is one step; a file   *)
(* replacement (os.replace) is a step of its own.                          *)
(***************************************************************************)
EXTENDS Integers, Sequences, FiniteSets

CONSTANTS
    Category,      \* the configured document categories
    AutoCategory,  \* the categories summarised without being asked
    None,          \* a missing row, file or category
    MaxRevision,   \* bound: highest recording revision explored
    MaxJobs,       \* bound: no API request inserts a job beyond this many
    MaxAttempts,   \* bound: a stop request releases a job only below this
    Requests,      \* which API requests (and automatic matches) may occur
    Faults         \* which failures may occur

RequestKinds == {"speaker", "rename", "category", "summary", "retranscribe",
                 "retry", "automatch"}
FaultKinds   == {"transient", "permanent", "io", "crash", "stop", "source",
                 "clips"}

ASSUME CategoryAssumption == AutoCategory \subseteq Category
ASSUME NoneAssumption     == None \notin Category
ASSUME BoundAssumption    == MaxRevision \in Nat \ {0} /\ MaxJobs \in Nat
                             /\ MaxAttempts \in Nat
ASSUME ScopeAssumption    == Requests \subseteq RequestKinds
                             /\ Faults \subseteq FaultKinds

VARIABLES
    rec,     \* the recordings row
    speech,  \* segments, recording_speakers and speaker_clips of the recording
    jobs,    \* the jobs table in creation order; a job's id is its index
    queue,   \* ids of queued jobs that are due, in (available_at, created_at) order
    art,     \* artifact rows
    disk,    \* artifact files
    worker   \* where the worker process is and what it holds in memory

vars == <<rec, speech, jobs, queue, art, disk, worker>>

-----------------------------------------------------------------------------
(* Types *)

Status == {"DISCOVERED", "TRANSCRIBING", "SPEAKER_REVIEW", "CLASSIFYING",
           "READY_FOR_SUMMARY", "SUMMARIZING", "COMPLETED", "FAILED"}
Kind   == {"transcribe", "finalize_speakers", "classify", "summarize", "render"}
JobStatus == {"queued", "running", "succeeded", "failed"}
Source == {"none", "auto", "manual"}
Revision == 1..MaxRevision

\* A settings fingerprint: "current" stands for the fingerprint of the present
\* configuration, a summary's is a function of the category it summarises.
Fingerprint == {"input-v1", "retranscription", "current", "speaker-edit-v1",
                "category-edit-v1", "speaker-auto-match-v1"} \cup Category

\* retryOf: the failed job a manual retry replaced (0: none); revived: the audit
\* trail has job_recovered or job_manual_retry for it; open: its retranscription
\* request has completed_at IS NULL.
Job == [kind : Kind, status : JobStatus, attempts : Nat, revision : Revision,
        input : Fingerprint, open : BOOLEAN, revived : BOOLEAN, retryOf : Nat]

\* A transcript document: text names the transcription its segments come from,
\* graded says that it carries the classifier's fingerprint.
Transcript == [revision : Revision, text : Nat, category : Category \cup {None},
               source : Source, graded : BOOLEAN]
Markdown == [revision : Revision, text : Nat, category : Category \cup {None}]
\* A summary names the job that wrote it: no two runs produce the same bytes.
Summary == [revision : Revision, category : Category, by : Nat]

\* transcript.json lives at one shared path (0: <id>/transcript.json, written by
\* transcribe and classify at any revision) or at <id>/revisions/<r>/.
Path == 0..MaxRevision
JsonRow == [path : Path, content : Transcript]

RecordingRow == [status : Status, revision : Revision,
                 category : Category \cup {None}, source : Source]

\* clips is the revision whose speaker clips were written last (0: none);
\* staleClip: a clip row of an earlier revision no longer matches its file.
SpeechRow == [text : Nat, pending : BOOLEAN, person : BOOLEAN,
              clips : Nat, staleClip : BOOLEAN]

PC == {"down", "recovering", "idle", "claimed", "start", "model",
       "jsonFile", "jsonRow", "mdFile", "mdRow", "clips", "clipRows", "follow", "ready",
       "resummarize", "stage", "commit", "match", "sumFile", "sumRow",
       "settle", "marking", "failing", "done"}

\* seen is the recordings row as the handler read it, doc the transcript it
\* holds; resumed: inside _resume_recovered; retry: the error is retryable.
Worker == [pc : PC, job : Nat, seen : RecordingRow \cup {None},
           doc : Transcript \cup {None}, resumed : BOOLEAN, retry : BOOLEAN]

\* None is no row and no document.
ASSUME AbsenceAssumption == None \notin RecordingRow \cup Transcript \cup JsonRow \cup Markdown

TypeOK ==
    /\ rec \in RecordingRow
    /\ speech \in SpeechRow
    /\ jobs \in Seq(Job)
    /\ queue \in Seq(Nat)
    /\ art \in [json : [Revision -> JsonRow \cup {None}],
                md   : [Revision -> Markdown \cup {None}],
                sum  : SUBSET Summary]
    /\ disk \in [json : [Path -> Transcript \cup {None}],
                 md   : Markdown \cup {None},
                 sum  : SUBSET Summary]
    /\ worker \in Worker

-----------------------------------------------------------------------------
(* state.py: the recording's state machine *)

Allowed(from) ==
    CASE from = "DISCOVERED"        -> {"TRANSCRIBING", "FAILED"}
      [] from = "TRANSCRIBING"      -> {"SPEAKER_REVIEW", "CLASSIFYING", "FAILED"}
      [] from = "SPEAKER_REVIEW"    -> {"CLASSIFYING", "FAILED"}
      [] from = "CLASSIFYING"       -> {"READY_FOR_SUMMARY", "SUMMARIZING", "FAILED"}
      [] from = "READY_FOR_SUMMARY" -> {"SUMMARIZING", "COMPLETED", "FAILED"}
      [] from = "SUMMARIZING"       -> {"COMPLETED", "FAILED"}
      [] from = "COMPLETED"         -> {"SUMMARIZING"}
      [] from = "FAILED"            -> {"DISCOVERED", "TRANSCRIBING", "CLASSIFYING",
                                        "READY_FOR_SUMMARY", "SUMMARIZING"}

\* _transition: raises InvalidTransitionError when it is not enabled.
CanTransition(target) == target \in Allowed(rec.status)
Transition(target) == rec' = [rec EXCEPT !.status = target]

\* _enter: entering the status the recording is already in is not a transition.
CanEnter(target) == rec.status = target \/ CanTransition(target)

-----------------------------------------------------------------------------
(* The jobs table *)

Ids == DOMAIN jobs
IsActive(s) == s \in {"queued", "running"}
Active(j) == IsActive(jobs[j].status)
ActiveKind(kind) == \E j \in Ids : jobs[j].kind = kind /\ Active(j)
ActiveAmong(kinds) == \E kind \in kinds : ActiveKind(kind)
Retranscription(j) == jobs[j].kind = "transcribe" /\ jobs[j].input = "retranscription"

NewJob(kind, revision, input) ==
    [kind |-> kind, status |-> "queued", attempts |-> 0, revision |-> revision,
     input |-> input, open |-> FALSE, revived |-> FALSE, retryOf |-> 0]

\* INSERT INTO jobs .. 'queued': due at once, so last in claim order.
Insert(job) == /\ jobs' = Append(jobs, job)
               /\ queue' = Append(queue, Len(jobs) + 1)

\* Mutant of SameInput: an input that was processed already is not found.
SameActiveInput(kind, revision, input) ==
    {j \in Ids : /\ jobs[j].kind = kind
                 /\ jobs[j].revision = revision
                 /\ jobs[j].input = input
                 /\ Active(j)}

\* The job _enqueue returns instead of inserting a second one for this input.
SameInput(kind, revision, input) ==
    {j \in Ids : /\ jobs[j].kind = kind
                 /\ jobs[j].revision = revision
                 /\ jobs[j].input = input
                 /\ jobs[j].status \in {"queued", "running", "succeeded"}}

\* jobs_one_active_kind rejects the insert (sqlite3.IntegrityError).
Conflicts(kind) == ActiveKind(kind)

\* _enqueue finds a job for the same input, or inserts without a conflict.
CanEnqueue(kind, revision, input) ==
    SameInput(kind, revision, input) # {} \/ ~Conflicts(kind)

Enqueue(kind, revision, input) ==
    IF SameInput(kind, revision, input) # {}
    THEN UNCHANGED <<jobs, queue>>
    ELSE Insert(NewJob(kind, revision, input))

\* Mutant of Closed: a request whose job failed stays open.
ClosedOnSuccess(job, status) == [job EXCEPT !.status = status,
                                            !.open = @ /\ status # "succeeded"]

\* What finishing a job does to its row; a terminal status closes the
\* retranscription request.
Closed(job, status) == [job EXCEPT !.status = status,
                                   !.open = @ /\ IsActive(status)]

Finish(j, status) == jobs' = [jobs EXCEPT ![j] = Closed(@, status)]

\* The claim order without job j, which may be waiting for its retry.
Without(j) ==
    IF \E i \in DOMAIN queue : queue[i] = j
    THEN LET i == CHOOSE n \in DOMAIN queue : queue[n] = j
         IN  SubSeq(queue, 1, i - 1) \o SubSeq(queue, i + 1, Len(queue))
    ELSE queue

Waiting(j) == jobs[j].status = "queued" /\ \A i \in DOMAIN queue : queue[i] # j

-----------------------------------------------------------------------------
(* Artifacts *)

RevisionsWithJson(below) == {r \in Revision : r < below /\ art.json[r] # None}
Newest(revisions) == CHOOSE r \in revisions : \A s \in revisions : s <= r

\* Mutant of HadSummary: only the category counts.
NeverHadSummary(revision) == FALSE

\* had_summary: an earlier revision has a summary.
HadSummary(revision) == \E s \in art.sum : s.revision < revision

\* The document of this category is summarised without being asked.
Summarises(revision, category) == HadSummary(revision) \/ category \in AutoCategory

\* write_artifact, second half: register what was written at path.
RegisterJson(path, content) ==
    art' = [art EXCEPT !.json[content.revision] = [path |-> path, content |-> content]]

Rendered(doc) == [revision |-> doc.revision, text |-> doc.text, category |-> doc.category]

SamePath(a, b) == a.revision = b.revision /\ a.category = b.category

\* write_summary_artifacts, the registration: the upsert keeps the id of a row
\* of the same revision, and the rows of other categories are deleted by the
\* ids read before it, so a summary that replaces one of the same revision and
\* another category is deleted with it.
SummaryRowsAfter(new) ==
    LET previous == {s \in art.sum : s.category # new.category}
        replaced == {s \in art.sum : s.revision = new.revision}
    IN  (art.sum \ (previous \cup replaced))
            \cup (IF replaced \cap previous = {} THEN {new} ELSE {})

\* Mutant of SummaryFilesAfter: every other summary's file is unlinked.
OnlyFileOf(new) == {f \in disk.sum : SamePath(f, new)}

\* .. and the files of those rows are unlinked.
SummaryFilesAfter(new) ==
    {f \in disk.sum : \A s \in art.sum : s.category # new.category => ~SamePath(f, s)}

\* write_summary_artifacts, the files: one path per revision and category.
SummaryFileWritten(new) == {f \in disk.sum : ~SamePath(f, new)} \cup {new}
=============================================================================
