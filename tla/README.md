# A TLA+ model of voice_to_document

The program watches a folder of recordings, transcribes each one, separates and
names the speakers, classifies the conversation, renders documents and writes
summaries. A worker process does that work from a job table; an API process
serves a review page on which people correct speakers and categories, ask for
summaries, run the transcription again and retry what failed. Both processes
share one SQLite database and one output directory. This directory holds a TLA+
model of that core, its TLC runs and its proofs.

    tlc -config alone.cfg MCPipeline.tla     # one run; the others likewise
    tlapm PipelineProofs.tla                 # one proof module

## 1. The system

All paths are below `src/backend/app/`.

| component | state it keeps | operations | who it meets |
| --- | --- | --- | --- |
| State machine (`state.py`) | `recordings.status` | the allowed transitions; `transition_and_enqueue`, one transaction for a status and its job; `_enqueue`, which returns an existing job of the same input | worker handlers, API |
| Job queue (`jobs.py`, `runtime.py`) | `jobs`: status, attempts, `available_at`, revision, settings fingerprint | claim, complete, fail with backoff, release | the worker loop; unique indexes on active and on successful jobs |
| Handlers (`pipeline.py`, `real_pipeline.py`) | segments, speakers, documents, category | `transcribe`, `finalize_speakers`, `classify`, `render`, `summarize` | every other component |
| Recovery (`recovery.py`) | audit events `job_recovered` | `inspect_recovery`, `apply_completion`, `recover_stale_jobs` | start of the worker, start of a recovered job, retry button |
| Artifacts (`artifacts.py`, `reconciliation.py`) | files below `output_dir`, `artifacts` rows with digests | replace a file, register it, delete old summaries, reconcile at start | handlers, recovery |
| Retranscription (`retranscriptions*.py`) | `retranscription_requests`, staged and historical files | request, stage, commit or abandon | handlers, speaker edits |
| Speaker review (`speaker_review_api.py`) | persons, assignments, `recordings.revision` | assign recording speakers and segments, create and rename persons | queued jobs, renders |
| Recordings API (`recordings_api.py`, `job_retries.py`) | category, requests for summaries, retries | `update_category`, `request_summary`, `retry_recording_job` | queued jobs |
| Speaker embeddings (`speaker_embeddings.py`) | clips' embeddings, profiles, match candidates | `finalize_speakers`: store, score, match | speaker edits |
| Speaker clips (`speaker_clips.py`) | audio files and rows | cut clips, replace rows | recovery, embeddings |
| Discovery and ingest (`discovery.py`, `ingest.py`, `media.py`) | the tracker's memory, recordings and sources | scan, wait for stability, probe, hash, register | the worker loop |
| Worker and API processes (`worker.py`, `api.py`) | the worker lock | start, loop, stop; routing | all |
| Speech models (`transcription.py`, `alignment.py`, `diarization.py`) | none that lasts | check and normalise the models' answers, attribute segments to speakers | the transcribe job |
| Document identities (`document_identity.py`) | a recording's number and title, the counter | give both once, make the file name of them | handlers and reconciliation, before they write Markdown |
| Language model (`openai_classification.py`, `openai_summary.py`, `long_transcript.py`) | the facts or topics of one attempt | cut a transcript into chunks, ask, correct, check evidence | the classify and summarize jobs |
| Frontend | what the page last saw | polling, edits with an expected revision | API |

The behaviour that is hard here has five sources.

* *A job works over many transactions and files.* A handler reads the
  recordings row, calls a model for minutes, replaces files with `os.replace`,
  registers them, adds a follow-up job and sets a status, each in a step of its
  own. Requests and crashes come in between any two of them.
* *Revisions.* Every edit makes a new revision and a job for it. Jobs of the
  earlier revision are still queued or running, and each kind of job treats
  being outdated differently: `finalize_speakers` and `summarize` succeed
  without work, `render` fails, `classify` works on the present revision.
* *The table's unique indexes are the lock.* Some handlers ask before they
  insert, some insert and fail; a few of the failures are `IntegrityError`s that
  reach the process.
* *Recovery decides from what it finds.* After a crash the same job may be
  complete, resumable, repeatable or broken, and the decision is taken at three
  places.
* *What is learned from several recordings.* A profile is built from confirmed
  clips of many recordings, clip by clip and person by person, while people
  take confirmations back; and what the models answer is numbers in disorder,
  cut, rounded and compared at their borders.

What makes each part correct is stated as properties (section 4); PROJECT.json lists the hazards behind them, line by line.

## 2. The modules

    Store ── Recovery ──┬── Worker ────┐
                        └── ReviewApi ─┴── Pipeline ── MCPipeline (TLC)
                              JobLedger ──────┘  └── … proofs (section 6)
    Intake ── MCIntake (TLC)
          └── IntakeProofs
    SpeakerProfiles ── MCSpeakerProfiles (TLC)
          └── SpeakerProfilesProofs
    Speech ──┬── Transcripts ── MCTranscripts (TLC)
    Provider ┘        └── TranscriptsProofs
    Identity ── MCIdentity (TLC)

`Store` has the variables and the transactions everybody uses.

| variable | the program's state |
| --- | --- |
| `rec` | the recordings row: status, revision, category and who chose it |
| `speech` | segments (named by the transcription they come from), whether speakers wait for clips, whether a person is assigned, the revision whose clips were registered last, and whether an older clip row is stale |
| `jobs` | the jobs table in creation order; a job's id is its index. `open` is a retranscription request that is not closed, `revived` an audit event `job_recovered` or `job_manual_retry`, `retryOf` the job a retry replaced |
| `queue` | ids of queued jobs that are due, in claim order (`available_at`, `created_at`); a job that is queued and not here waits for its backoff |
| `art` | artifact rows: JSON and Markdown by revision, summaries |
| `disk` | the files. `transcript.json` of transcription and classification has one path for all revisions (path 0), renders and retranscriptions have one of their own; the Markdown document has one path |
| `worker` | where the process is and what its handler holds in memory: the row as it read it (`seen`), the document (`doc`), whether it is resuming, whether the error it raised is retryable |

`Recovery` gives each branch of `inspect_recovery` as a *plan* (action, status,
whether a summary job is needed), `apply_completion` as a step, and the start
of the worker: reconciliation, then `recover_stale_jobs`, with the abort that an
`IntegrityError` causes.

`Worker` has claiming, releasing, completing and failing, and for every kind of
job its handler, cut where another process or a crash can come in: after each
transaction, each file replacement and each model call. The program counter
(`worker.pc`) names those places.

`ReviewApi` has one action per writing request. Each handler of the API is one
`BEGIN IMMEDIATE` transaction; a request that is refused changes nothing and is
no action.

`JobLedger` is the abstract job queue: jobs are only added, one of a kind is
open at most, one runs at a time, every start counts as an attempt, an ended job
stays. `Pipeline!JobsAreLedger` maps the jobs table to it: `Entries` keeps of a
row its kind, status and attempts.

`Pipeline` composes worker and API, adds the bound on failures, the fairness and
the properties. `MCPipeline` gives the constants of the runs.

`Intake` is what comes before: how a file becomes the recording that `Pipeline`
starts with. Its actions are the stages of the worker loop's `discover_once`,
cut at each look at the file, because the folder belongs to others.

| variable | the program's state |
| --- | --- |
| `folder` | the input folder: what lies under each name, and the stamp of its writing |
| `tracker` | `StabilityTracker._snapshots`: the stamp seen, for how long, and whether the file was offered |
| `intake` | where `discover_once` and `ingest_file` are: files of this scan still to look at, the file in hand, the first stat, the digest |
| `rows` | recordings in order of registration, with content and source |
| `rejected` | audit events `input_rejected`; the stamp in them is the model's |

`SpeakerProfiles` is the inside of the `finalize_speakers` job, which `Pipeline`
has as one step that matches somebody or not. Here there are several
recordings, since a profile joins clips of all of them, and each transaction of
`speaker_embeddings.py` is an action: the job reads its candidates, registers one
embedding after the other, rebuilds the profiles of the people concerned, scores
the unresolved speakers and applies what it found. Edits, retranscriptions,
renders, failures and crashes come in between.

| variable | the program's state |
| --- | --- |
| `revision`, `jobs`, `rendering` | of each recording: its revision, its latest `finalize_speakers` job, and whether a render is active, which closes it to edits |
| `speakers`, `segments` | person and source (unresolved, manual, auto) of recording speakers and of the segments with clips |
| `clips`, `embeddings` | registered clips; their `speaker_embeddings` row |
| `profiles` | `speaker_profiles` with `speaker_profile_members` |
| `rejections` | `speaker_match_rejections` |
| `worker` | which transaction is next, and what the earlier ones read: candidates, people, speakers, evaluations |

`Speech` is what the transcribe job makes of the models' answers, and `Provider`
what a classify or summarize job asks the language model. `Transcripts` composes
them: the segments `Speech` stored are the text `Provider` sends.

| variable | the program's state |
| --- | --- |
| `stage` | the next step of `_transcribe_real` and of the clips, or the error code it ended with |
| `heard`, `aligned`, `turns` | the normalised answers of transcription, alignment and diarization |
| `transcript` | the segments that are stored, in order, with speaker, status and overlapping speakers |
| `place`, `selected` | `select_clip_candidates`: where it is, and the candidates of each speaker |
| `clipped`, `clips` | the outcome for each speaker; the clips that are registered |
| `material`, `chunks` | the segments to be sent; how they are cut |
| `call` | kind, position, tries of the open request, attempts of the job, requests so far |
| `shown`, `facts`, `result` | text in answered requests; segments cited for each chunk and by the result |

`Identity` is how the Markdown document gets its path: `ensure_document_identity`
with the writing that follows, by a job or by the reconciliation at a start, which
moves documents that an earlier version of the program left in directories.
`Pipeline` has one path for the document; here there are several recordings.

| variable | the program's state |
| --- | --- |
| `rows`, `lastValue` | `document_sequence` and `document_title`; the counter |
| `files`, `md` | the document root; the path in the recording's artifact row |
| `worker` | whether it reconciles, and what it writes where |

Definitions named in PROJECT.json under "map" have the lines they translate.

## 3. Abstractions

* One recording, one worker. Recordings share no rows but persons; the worker
  lock (`recovery.py:40`) admits one worker.
* A transaction is one step, since all writers use `BEGIN IMMEDIATE`. The claim
  order is a sequence because `utc_now` has microseconds.
* Contents are compared as values where the program compares digests; a
  document is the revision, transcription, category and source it shows. The
  settings fingerprint of the present configuration is one value, that of a
  summary is its category: settings do not change while the system is observed.
  Deployment of other settings is not modelled.
* Models answer or fail, retryably or not. Classification picks any category.
* JSON and Markdown of a summary are one file, and removing the files of
  replaced summaries happens with the registering commit; a crash there only
  leaves files that no row names. `_resume_recovered` of a summary with one of
  its two files is therefore never reached.
* Clips are cut in two steps: `CutClips` replaces the files, one by one in the
  program and at once here, and `RegisterClips` their rows. Either may fail (fault
  "clips") without failing the job, and a crash may come between them. The bytes
  of clips cut from another transcription differ from the old ones, so a row of
  another revision is stale from the first replacement on.
* A write fails before its replacement (`WriteFails`: nothing changed) or after it
  (`SyncFails`, the fsync of the directory: the file is there, its row is not).
* `reconcile_markdown` has nothing to do in `Pipeline`: only handlers touch files.
  What it does with documents of an earlier version is in `Identity`.
* The API's search for a retranscription with the same hints is left out; every
  request has other hints. Who is assigned to which speaker is one flag, and
  only followed when renames are among the requests.
* `continue_to_documents = False` (status SPEAKER_REVIEW) is only used by the
  evaluation programs; the status is kept in the state machine, no step enters
  it.

Of `Intake`:

* A stamp stands for size and modification time; no two writes share one.
  `docs/progress/015` itself excludes files that are swapped with both unchanged.
  Names are those `_is_candidate` admits; temporary names and links are no files.
* A scan is one step, except that a candidate may vanish in it (`ScanAborts`).
  The files of a scan are taken in any order, the code sorts them.
* ffprobe answers by the content while the file is as at the first stat, and
  anything while it changes; the digest of a file that changed is its new
  content or a mixture (`Torn`). All verdicts but "audio" are one.
* The clock is a tick for all files at once, and only its distance from the
  threshold is kept.
* Jobs of the worker between two scans do not meet any of this state.

Of `SpeakerProfiles`:

* There is one embedding model and so one fingerprint; vectors are abstracted to
  what is decided from them: a score is 0 (below the threshold, or too close to
  the second best), 1 or 2, any of them for any speaker and eligible profile.
* A clip and the segment it was cut from share an identity. Segments without a
  clip teach nothing and are left out.
* `assign_segments` takes a set of segments; the exploration calls it with one.
* `Retranscribe` is the committing transaction: new segments and clips under the
  same speaker ids, nobody assigned.

Of `Speech`, `Provider` and `Transcripts`:

* The models' seconds are ticks of half a millisecond, so that rounding to the
  millisecond has ties. A number that is missing, not finite or no number is
  `None`, as is an answer that is none. Turns of one voice do not overlap
  (`TrackAssumption`): the pipeline gives a voice one track.
* Words and their times, languages and confidences are left out. A text is known
  by its length without the blanks around it.
* A character of the transcript is a pair of segment and place, so that a lost,
  repeated or misplaced one shows.
* A request is answered, unavailable (tried again by the job), refused (for good)
  or answered wrongly (corrected once). An answer is the set of segments it
  cites.

Of `Identity`:

* A character is a letter, a blank, a dot or a forbidden one (control characters
  that are no blanks included); a title keeps `MaxTitle` of them, 20 in the program.
  The first segment and the category are read in the transaction that needs them,
  so they may be any: a recording can be transcribed and classified again.
* Revisions are not told apart: `md` is the recording's last row. A document that
  somebody else deletes, which the reconciliation would write again, is left out.
* A document is written after the category was saved, so the fallback `recording`
  for a recording without one is not reached.

Bounds. `MaxWrites` counts writes and deletions of the folder. `MaxRevision` and `MaxJobs` limit requests and matches only: no job
that the worker itself adds is held back. `MaxFailures` counts crashes, stops
and failing calls of one behaviour, but no failing clips. `MaxAttempts` limits how often a stop
releases a job, which in the program is not limited because a release keeps its
attempt. `MaxEvents` of `SpeakerProfiles` counts edits, failures and crashes;
`Retry` and the steps of the jobs are not bounded. `Provider`'s `MaxAttempts` is
the job's three attempts, and the sets of answers are constants of `Speech`.

## 4. Properties

Types aside (`TypeOK`), the properties relate parts that different handlers
write.

| property | what could break it |
| --- | --- |
| `OneRunning` | a crash, stop, retry or recovery that loses a job or leaves two running |
| `TerminalJobs`, `AttemptLimit` | a retry or recovery that reopens an ended job or starts one a fourth time |
| `OneActiveKind`, `InputOnce` | the plain INSERTs of edits, matches and commits against the unique indexes |
| `JobsAreLedger` | any transaction that adds, drops or rewrites jobs otherwise than the queue promises |
| `OneOpenRequest` | a retranscription request that stays open after its job ended: no other could be made |
| `NothingAhead`, `NewRevisionHasJob` | handlers that began at an earlier revision; edits without a job for their revision |
| `RegisteredFilesExist`, `RegisteredIntact` | unlinking and replacing files that rows still name; crashes between file and row |
| `CompletedIsCurrent` | a recording COMPLETED with documents of another revision, transcription or category |
| `SummaryIsFresh` | an edit after which the summary is not made again |
| `ManualCategoryKept` | a classification or retranscription that overwrites the user's choice |
| `NotResummarised`, `NotReclassified` | recovery that pays a provider twice for a registered result |
| `SettledOrFailed`, `SettledOrDropped` | a recording that stops half-way with nothing queued and no failed job that shows where; the second exempts the dropped first summary of section 5 |
| `JobsEnd`, `Settles` | a job that is never claimed again; a system that never comes to rest |
| `WorkerStarts` | rows on which every start of the worker aborts |
| `RegisteredOnce` | one content under two names, or met again after a restart |
| `OnlyWholeAudio` | a file replaced between probe, hash and registration: one version's verdict for another's digest |
| `EveryFileAnswered` | a file that changed during its scan or ingest, or that was being examined when the worker died, and is not looked at again |
| `EveryAudioRegistered` | a complete file that is passed over for good |
| `ProfilesConfirmed` | a sample that is registered after its confirmation was withdrawn, or withdrawn in one recording and kept in a profile of several |
| `SamplesComplete` | a job that ends, fails, is redirected or is recovered with some clips embedded and some not |
| `OneSpeakerPerPerson` | two speakers who claim one person, or a match of somebody another speaker has already |
| `RejectedForGood` | a rejection read before the user rejected; segments and speakers replaced by a retranscription |
| `ManualKept` | a match applied to segments the user has assigned since, or before (refuted, section 5) |
| `SchemaHolds` | disorder, empty and half-millisecond segments that the transcript's own schema refuses after rounding |
| `AttributedByVoice` | turns clipped wrongly at the ends of a segment; ties; overlaps that only touch |
| `ClipsUsable` | clips of one speaker that share a moment; a speaker shown as ready with one clip |
| `EverythingShown` | the last slice lost, one repeated, a chunk too large |
| `EvidenceHolds` | facts of an earlier attempt or another chunk taken as evidence of this one |
| `RequestsBounded`, `CallEnds` | corrections and attempts that multiply or never end |
| `TitleIsName` | first words that leave nothing, a blank or a dot where a file name must not have it |
| `OneDocument` | a title or number made anew when the document is written again, in another transcription or category; a moved document whose old file goes before the new row is there |

Refuted in section 5 are `WorkerStarts` and `RegisteredFilesExist`, which hold and
are proved in smaller domains, `EveryAudioRegistered`, `ManualKept`, `RegisteredIntact`,
`SummaryUnderway`, `CompletedUpToDate`, `FinalizeRecovered`, `ProfilesRebuilt`,
`MatchedByProfile` and `TitleAccepted`.

## 5. The runs

Two categories, `meeting` (summarised by itself) and `memo` (not). Deadlock is
only checked in `intake` and `identity`: elsewhere the system rests when nothing is queued and
nobody asks.

| run | requests | failures | bounds | states | shows |
| --- | --- | --- | --- | --- | --- |
| `alone` | retry | up to 3: crash, retryable, final, write errors, source gone | 1 revision, 9 jobs | 231,227 | from registration to rest: TypeOK, OneRunning, AttemptLimit, TerminalJobs, CompletedIsCurrent, SummaryIsFresh, SettledOrFailed, NotResummarised, WorkerStarts, Settles |
| `calm` | all | clips only, any number | 3 revisions, 12 jobs | 213,310 | OneActiveKind, CompletedIsCurrent, RegisteredFilesExist, SummaryIsFresh, SettledOrDropped in every interleaving of requests and an otherwise healthy worker |
| `together` | all | 1: crash, stop, write error, no clips | 2 revisions, 10 jobs | 260,763 | JobsAreLedger, NothingAhead, InputOnce, NewRevisionHasJob |
| `redo` | retranscribe, category, match | 1: crash, final error | 3 revisions, 12 jobs | 50,520 | OneOpenRequest, ManualCategoryKept, NotReclassified, JobsEnd |
| `intake` | writes, deletions | 1: failing stat or read, failing probe, vanishing file, crash | 2 names, 3 contents (2 with audio), 3 writes, 1 tick | 57,419 | RegisteredOnce, OnlyWholeAudio, EveryFileAnswered |
| `profiles` | assign speaker or segments, other edits, retranscribe | failing model, crash; 3 with the edits | 2 recordings, 3 speakers, 6 clips, 2 persons (symmetric) | 590,738 | TypeOK, ProfilesConfirmed, SamplesComplete, OneSpeakerPerPerson, RejectedForGood |
| `identity` | documents written and moved | failing writes, restarts | 2 recordings, titles of 5 characters | 104,493 | TitleIsName, OneDocument |
| `transcripts` | classify or summarize | malformed answers, silent or failing clips, unavailable, refused and wrong requests | 12 ms, 2 voices, 4 answers heard, 17 aligned, 9 diarized; 3 characters a request, 2 attempts | 998,087 | SchemaHolds, AttributedByVoice, ClipsUsable, EverythingShown, EvidenceHolds, RequestsBounded, CallEnds |

Why these bounds. Three failures exhaust the three attempts of a job, which is
where the limits bite, and allow a crash during the recovery from another.
Two revisions show a job that is outdated by an edit; three show an edit of an
edit, a document rendered from a rendered document, and a summary of a revision
that is itself replaced. Twelve jobs let every revision have its full set. Three
writes are a file, its replacement while it is examined, and a copy under the
other name; which contents and names they have is open. `StableTime` is one
tick because only "not yet" and "long enough" differ.

In `profiles` a profile needs two samples: with two clips for each speaker one
recording can give a profile that the other's speakers are matched with, and two
speakers of one recording can claim the same person. Three events are a
confirmation in one recording, one in the other, and the edit, failure or crash
that interferes. In `transcripts` twelve milliseconds hold three segments of the
minimum length (2 ms, as 1 is half of that) and two clips that are far enough
apart (4 ms); the answers have disorder, ties, overlaps, ends beyond the
recording and half milliseconds. Texts of 0, 1, 2 and 5 characters against 3 a
request give nothing, a fit, two that share a chunk, and one that is cut with a
remainder.

Fairness (`alone`, `redo`). The worker loop takes its next step while the
process lives; the service manager starts it again after a crash
(`restart: unless-stopped` in `compose.yaml`); the clock reaches the end of a
backoff. In `intake`, likewise, the loop goes on, a dead worker starts again and
time passes. In `transcripts` a job that has asked goes on: each request ends at
its timeout (`timeout_seconds`, 60 or `summary_request_timeout_seconds`), and a
job that waits is claimed again. Each is weak fairness on a step that stays possible. Nothing is assumed
of users, and failures are finite because `MaxFailures` bounds them.

`identity` has one new recording and one with a document of the earlier version,
and every first segment of up to six characters, of which a title keeps five: one
forbidden character between blanks and letters fits, and so does a cut. In it the
worker may be restarted at any time and every write may fail.

### Where the code and its documents disagree

TLC ends each of these configurations with a counterexample. `f_start_aborts`,
`f_file_unlinked`, `f_missed_file` and `f_manual_overwritten` are runs of
PROJECT.json; the others are kept beside them, to be run by hand
(`tlc -config f_….cfg M.tla`, with `MCPipeline` for `f_unregistered_file`,
`f_summary_skipped`, `f_undocumented` and `f_finalize_refused`, `MCSpeakerProfiles`
for `f_profile_lost` and `f_stale_profile`, `MCIdentity` for `f_title_refused`).
Each takes seconds, `f_profile_lost` and `f_stale_profile` half a minute.

* `f_start_aborts`: an edit while classification runs lets two summary jobs
  compete. If the worker dies after the render registered its documents,
  `recover_stale_jobs` inserts the second one, the index rejects it, and the
  `IntegrityError` ends the start of the worker (`main` logs it and raises it again), now and at
  each later start.
* `f_file_unlinked`: a retranscription whose base is outdated is only refused
  after it replaced `revisions/<base+1>/transcript.json`; it then unlinks the
  file, which the present revision may have registered.
* `f_unregistered_file`: classification replaces `transcript.json` before it
  updates the row. A crash or a failed fsync between the two is refused by recovery
  (RECOVERY_INPUT_INVALID) instead of being repaired (`blueprint:755`).
* `f_summary_skipped`: a requested summary is dropped by a speaker edit, the
  render adds no other, and the recording stays SUMMARIZING; further requests
  are refused. (`docs/01_implementation_blueprint.md:420` and `:933`: SUMMARIZING is
  while a summary is being made, and one is made after a request.) This is why
  `calm` claims `SettledOrDropped` and not `SettledOrFailed`.
* `f_undocumented`: `request_summary` accepts FAILED. If classification failed
  after it registered its JSON, the summary completes a recording whose Markdown
  document was never written. (`blueprint:421`: COMPLETED means that all results
  are up to date.)
* `f_finalize_refused`: the clips of a retranscription replace files that rows of
  older revisions name with their digests. Recovery checks all of them, and so
  fails a `finalize_speakers` job of the present revision that only has to run
  again (`recovery.py:282`, `speaker_clips.py:134`; `docs/progress/095:19` says it
  goes its usual way).
* `f_missed_file`: the tracker marks a file as offered before it is ingested, and
  a failure does not take that back. A complete file whose ingest once failed
  (an I/O error, an ffprobe that took more than 15 s) is registered only after a
  restart or a touch. What does hold is `EveryFileAnswered`: its refusal is on
  record.
* `f_manual_overwritten`: a match found for a speaker updates all its segments,
  the ones the user gave to other persons included.
* `f_profile_lost`: the job after an edit is to compute the profiles of the
  previous and of the new person (`docs/progress/064_r6_02_person_profiles.md:25-27`).
  When a clip is given from one person to another, its embedding row changes its
  person before `_recording_person_ids` reads whom the recording concerns. The
  previous person, whose profile the edit disabled, is then missing from the list;
  its samples in other recordings stay without a profile until one of those is
  edited.
* `f_stale_profile`: the same note says an outdated profile is never a candidate.
  Scores are computed before the transaction that applies them
  (`speaker_embeddings.py:358-404`, `422-609`); it compares the revision of its own
  recording only, so a match may rest on a profile that an edit of another
  recording has disabled in between.

* `f_title_refused`: a forbidden character between two blanks is removed and leaves
  both ("a / b"). The title is saved, but `document_relative_path` only accepts a
  title that normalizing does not change: classification, render and each retry
  fail with its ValueError (`document_identity.py:47-48`; the order of cleaning is
  that of `docs/05_flat_obsidian_markdown_plan.md:35-38`). (So does a category slug of more than 20 characters, if
  it becomes the title.)

Four behaviours of the intake are in the model as they are, and no property says
they must not happen. A file that changes between the scan and the first stat is
registered although it was not stable (`ingest_file` does not compare with the
tracker; `blueprint:830` says files being written are not registered). A
candidate that vanishes inside `scan` raises outside `discover_once`'s `try` and
ends the worker process. `source_path` names the last copy that was seen; when
that copy is deleted and another remains, it dangles until the next restart. And
a file replaced under the same name makes a second recording, while the first
keeps the path: if it was not transcribed yet, it is transcribed from the new
content, since `_transcribe_real` does not check the digest.

Four more behaviours of the pipeline were met with wider settings of the model. They bound
what the passing runs may claim, and no run is kept for them.

* A speaker edit while the classifier writes its documents: the classifier queues
  the summary of the earlier revision, the render cannot queue its own and
  fails, the stale summary returns without work. The recording stays SUMMARIZING
  until the render is retried.
* A final error of a classification after its category was saved, then a
  category edit: documents are current, the status stays FAILED, and
  `recovery_action` offers nothing because the failed job is of an earlier
  revision.
* A classify job that waits while a retranscription commits works on the new
  revision; a crash there fails the job and leaves CLASSIFYING.
* A transcribe job that failed in recovery although its follow-up went on (clips
  missing, or the source unreadable at that moment) can still be retried once
  the recording is COMPLETED: `enqueue_retry` sets TRANSCRIBING, the job finds its
  follow-up done, and TRANSCRIBING stays. (So `alone` leaves out "clips", which
  `together` has.)

Five remarks on speakers and transcripts.

* A rename of a person or a category edit makes a revision and leaves the queued
  `finalize_speakers` job at its own: the job is outdated, and clips confirmed
  before never become samples. `SamplesComplete` speaks of jobs that were done
  for the present revision; these edits are the request "other".
* When the alignment answers fewer segments than were heard, they are paired by
  their position (`alignment.py:278-298`). If the one left out is not the last,
  later segments get the times of others and the last is kept twice;
  `docs/progress/034_r4_04_whisperx_alignment.md:18-20` says that the missing
  one is kept.
* At most three candidates for clips are chosen before silence is measured. A
  speaker with further, louder segments may end as "insufficient".
* The last request of a chunked classification carries all segments again
  (`openai_classification.py:114-131`), and so more than the context limit;
  `EverythingShown` exempts it.
* A segment is "assigned" when nobody overlaps in it, although several speakers may
  take turns in it. `ClipsUsable` says "assigned", not "heard alone".

`JobsEnd` and `Settles` likewise depend on their bounds: with speaker edits the
aborting start above repeats for good, so no job ends any more.

## 6. Proofs

| module | contents |
| --- | --- |
| `StoreProofs` | facts about the jobs table, the claim order, rows, files and recovery plans: what inserting, replacing, taking out and removing keep |
| `PipelineProofs` | the invariant of types and of the claim order, one lemma per action of worker, recovery and API, the theorems |
| `LedgerProofs` | the refinement of `JobLedger` and the properties of the jobs table |
| `UndisturbedProofs` | a recording nobody edits: where it rests, what its documents and its summary are |
| `FilesProofs` | registered documents keep their files |
| `IntakeProofs` | the invariant of `Intake`, one lemma per action, the theorems |
| `SpeakerProfilesProofs` | the invariant of `SpeakerProfiles`, one lemma per action, the theorems |
| `TranscriptsProofs` | induction and recursion, sorting, bounds of clips, who speaks, sizes and characters of slices and chunks, the invariants of `Speech` and `Provider`, the theorems |

### Types and jobs that run

Proved for all categories, bounds, requests and failures, from the six
assumptions of `Store` and that of `Pipeline` (automatic categories are
categories, `None` is no category, row, transcript or document, bounds are
numbers, scopes are subsets):

* `TypeCorrect`: `Spec => []TypeOK`. It is more than it sounds: revisions stay
  within range although five kinds of step raise them, and every path and
  document a handler holds is a legal one when it is written.
* `OneJobRuns`: `Spec => []OneRunning`. At most one row says running, it is the
  one the worker holds, and none while it is idle.
* `EndedJobsStay`: `Spec => TerminalJobs`. No step of anybody changes or removes
  a job that succeeded or failed.

None of them is inductive. The invariant is

    IInv == TableOk(jobs) /\ OrderOk(jobs, queue) /\ Row /\ Files /\ Hand /\ OneRunning

`TableOk` types the rows and says that a retranscription job leaves room for the
revision it will commit; `OrderOk` that the claim order has exactly due,
queued jobs, each once (a claim could otherwise start an ended job, which
`TerminalJobs` forbids); `Row` and `Files` are the types of the rest; `Hand` says what
the worker holds at each program counter: at `jsonFile` a document, at `commit`
the document of the revision after its job's, at `match` the row it read. A step
lemma proves `StepOk`, which is `IInv'` together with `Continues(jobs, jobs')`, the
fact from which `EndedJobsStay` follows.

### The jobs table

`LedgerProofs` proves, from the same assumptions,

* `LedgerImplemented`: `Spec => JobsAreLedger`, the refinement: every step is a
  step of `JobLedger` or a stutter;
* `OneActive`, `InputsOnce`, `OpenRequests`, `NeverAhead`: `OneActiveKind`,
  `InputOnce`, `OneOpenRequest` and `NothingAhead` are invariants;
* `ThreeAttempts`: so is `AttemptLimit`, if `Limited`. A stop puts a job back
  that keeps its attempt, so with stops among the faults the bound
  `MaxAttempts` must not exceed 3. (In the program stops are not bounded, and
  repeated ones can exceed three.)
* `RevisionsHaveJobs` and `ChosenCategoryStays`: the action properties
  `NewRevisionHasJob` and `ManualCategoryKept`.

The invariant adds to `IInv` what the plain inserts rely on:

    PInv == IInv /\ Tabled(jobs, rec.revision) /\ Knows /\ Registered

`Tabled` says that of each kind one job is active at most, that of jobs with the
same kind, revision and input only one has not failed, that only active
retranscriptions are open, that no job is ahead of the recording, and that a
queued job has an attempt left. None of these is kept by an insert alone:
`Knows` says at each program counter what the handler read is of a revision the
recording has reached, and that at `stage` and `commit` a retranscription is
about the revision after its job's, which no job has been about if the
recording is still at its base, as the commit asks. `Registered` is the same for artifacts. Each
action has a lemma that proves `Good`: `Tabled`, `Knows` and `Registered` after the
step, the ledger's step, and the two action properties.

### A recording nobody edits

`UndisturbedProofs` is about the domain of the run `alone`, for every number of
failures, stops and retries and all bounds:

    Undisturbed == Requests \subseteq {"retry"} /\ "clips" \notin Faults

Both halves are needed: with speaker edits `f_start_aborts` and
`f_summary_skipped` are counterexamples, and with clips that cannot be cut a
transcription fails although its follow-up goes on (section 5). If `Undisturbed`,

* `RestsSettled`: `Spec => []SettledOrFailed`;
* `CompletedDocuments` and `CompletedSummary`: `Spec => []CompletedIsCurrent` and
  `Spec => []SummaryIsFresh`;
* `SummarisedOnce` and `StartsNotAborted`: the action properties
  `NotResummarised` and `WorkerStarts`. The first exempts a job that waited for its
  own retry: if the fsync after its replacement failed, its summary is a file
  without a row, which the reconciliation at a restart registers in between, and
  as the job was never interrupted nobody inspects it before it asks again.

The invariant is about how far the recording has come:

    UInv == Lines /\ Words /\ Transcribing /\ Finalizing /\ Classifying /\ Summarizing

on top of `PInv`. `Lines`: there is one revision, every job is of it, and a retry
is younger than the job it replaces, and a running job has an attempt. `Words`: the documents in hand, on disk and
registered say whether they are classified. The other four take the kinds of jobs in the order
in which they follow each other. Each says at which places of its handler the
document is registered; that a job which was neither recovered nor
retried and finds it registered has its last steps before it (`FreshAt`: this is what
makes a crash or a failed fsync between a write and its row harmless), while of summaries
only a job at its first attempt promises so; and that a job of the next
kind exists exactly once it can do without the earlier one. `SettledOrFailed` then
follows at rest: the last kind that has a job has one that is not active; if
none succeeded, one failed and shows where, and if one did, the next kind has a job.

### Files

A refused retranscription unlinks the file it staged for the revision after its
base. If a render has registered its own document there meanwhile, that row has
lost its file: the finding `f_file_unlinked`. `FilesStay` says that this is the only
way, for all other requests, crashes and final errors:

    Undelayed == \/ "retranscribe" \notin Requests
                 \/ Faults \cap {"transient", "io", "stop"} = {}

`Undelayed => (Spec => []RegisteredFilesExist)`. Edits, retries by the user,
crashes and final errors stay; what is excluded is the release, retry or stop that puts
the retranscription's job back behind a render. The invariant on top of `PInv` is

    FInv == Line /\ Apart /\ Stored /\ SummaryStored

`Line`: while a retranscription is active no render runs, and no render is
before it in the claim order. So, `Apart`, the directory of a retranscription that
has not staged its document is free of registered documents; a document is registered
in the shared directory or in that of its own revision. `Stored` and
`SummaryStored`: every row has its file, and so has the row that the handler is
about to write. The argument is the order in the queue; recovery keeps it,
because it puts the job it finds running back in front.

### Profiles

For any recordings, speakers, clips and persons, from the four assumptions of
`SpeakerProfiles` (every speaker has a recording, every clip a speaker, `None` is
neither person nor recording, the bound is a number), the invariant is

    ProfileInv == TypeOK /\ AutoNamed /\ WorkerHolds /\ NotAhead /\ RowsFirst
                    /\ RejectionsRead /\ ProfilesConfirmed /\ Embedded /\ Collected

(`ProfileInvariant`). `MembersConfirmed` and `NothingLeftOut` are its consequences:
`Spec => []ProfilesConfirmed`, `Spec => []SamplesComplete`. The second is not
inductive, since nothing is complete while a job is at work. `Embedded` therefore
says of each confirmed clip that it is a sample or *will be* (`ToEmbed`): a
job of its recording is queued, failed or for another revision, or the running
one has not read its candidates yet, or has the clip among them. `Collected`
says the same of samples and eligible profiles. `WorkerHolds` ties what was read
to the running job; `RejectionsRead` says that what an evaluation says of
rejections is still so when it is applied, as no edit of a recording comes in
while its job runs, which gives `RejectedStays` (`Spec => RejectedForGood`); `MatchedApart`
(`Spec => OneSpeakerPerPerson`) rests on the applying transaction, which reads
who is assigned once more. The bound on edits is used nowhere but in `TypeOK`.

### Transcripts

For all answers of the models, texts, durations and limits, from the assumptions
of `Speech` (pieces and turns of answers are numbers, texts, voices or `None`;
ids are unique; an answer has finitely many turns, and those of one voice do not
overlap; `None` is no number and no text; a clip is no longer than the gap between
centres) and `Provider` (the limit and the number of attempts are not zero), every
safety property of `Transcripts`:

* `ClipsAlwaysUsable`: `Spec => []ClipsUsable`. `SpeechInv` follows times from the
  answers to the clips: they are natural numbers once clamped; sorting the
  segments loses and invents none (`Ranked`: in a finite set where one of two
  members comes first, the numbers of predecessors are exactly 0 to n - 1, by the
  pigeonhole principle); candidates are segments and pairwise `Apart`. Then
  `ClipInSegment` bounds a clip by half of `MaxClip` on either side of the centre,
  rounding included, and `ClipsApart` follows from `MaxClip <= MinCenterGap`.
* `SpeakersByVoice`: `Spec => []AttributedByVoice`, and `SchemaAccepts`:
  `Spec => []SchemaHolds`. The invariant `Attribution` says that accepted turns of
  one speaker do not overlap (`Spoken`: numbering the voices in the order of their
  first turns keeps them apart, `VoicesNumbered`) and that stored segments are
  those made of the alignment. The property counts the ticks in which somebody
  talks; the code adds up the lengths of the parts of turns. `TimesCounted` says
  that the sum is the count if the parts do not overlap, and `PrimaryAhead` that
  there is a speaker ahead of all others, so that the choice is one of them.
  `SortedValid` has the order the schema asks for: a segment behind another one is
  not earlier, since it would have fewer predecessors.
* `EvidenceAlwaysHolds`: `Spec => []EvidenceHolds`, inductive with the types of
  the call and of the facts and with an empty result before the first request.
* `NothingLost`: `Spec => []EverythingShown`. The invariant `Shown` says that what
  was shown is the text of the chunks that have their facts. `SlicesWhole` says
  that the slices of a segment have its characters, `ChunksWhole` that the chunks
  put one behind the other are the slices and that each is within the limit;
  `CharactersConcat` and `CharactersFlatten` carry that to the text. A transcript
  without chunks fits, as it has as many characters as its size says
  (`CharactersCounted`).
* `RequestsStayBounded`: `Spec => []RequestsBounded`. The invariant `Spent` counts
  twice the chunks that are done with, the tries of the open request and a full
  share for every earlier attempt.

`SpeakersByVoice` and `NothingLost` are about recursions: sums over sets, folds,
flattened sequences, the chunks. The library's induction theorems take an operator
and cannot be used, but induction over a *set* can be stated without one:
`Least` has the least member of a set of numbers from `Ranked`, and from it follow
`Induction`, `SubsetInduction` and `SequenceInduction`, and with `Recursion` and
`FoldExists` that the recursive definitions define a function at all.

### Intake

About `Intake`, for all names, contents, limits and failures, from its four
assumptions and that `None` is no snapshot:

* `WholeAudio`: `IntakeSpec => []OnlyWholeAudio`, and `OneRecording`:
  `IntakeSpec => []RegisteredOnce`.

The first needs the chain that leads to a registration:

    IntakeInv == IntakeTypeOK /\ Stamps /\ Batch /\ Examined /\ OnlyWholeAudio /\ RegisteredOnce

`Stamps` says that no stamp in use is newer than the last write, so a later
write cannot restore the stamp of the first stat; `Examined` says at each stage
what the worker knows *while the stamp is that of the first stat*: after the
probe, that audio lies there; after the hash, that the digest is what lies
there. The second stat discharges the condition, and from then on the digest is
of a whole file whatever happens to the file. `Batch` types the stamp in a
refusal.

### Only model-checked

All of `Identity`, which has no proofs; `SettledOrFailed`, `CompletedIsCurrent` and `SummaryIsFresh` with edits by the user
(run `calm`; what is proved is the domain of `alone`);
`NotReclassified`; `EveryFileAnswered`; and the liveness properties (`JobsEnd`,
`Settles`, `CallEnds`), since liveness under fairness and ENABLED are outside this
prover's reach.

## 7. Not modelled

PROJECT.json lists every component with its status.

* *Intake with the transcribe job.* `Pipeline` has the source present or gone. That a
  replaced source is transcribed under the earlier recording is described in
  section 5; a composition would show that and nothing else, since the two
  modules share no other state.
* *The worker lock* is `flock` of the operating system, taken before the first
  read (`worker.py:39`); a model of it would assume what it shows.
* *Migrations* run once for each version of the schema, before anything else.
* *Writing one artifact* is one replacement here; its temporary file, and the two
  files of a summary, are not told apart.
* *The frontend* sends the revision it last saw and shows the refusal; the API's
  side of that is the revision check in `ReviewApi`.
* *Evaluation and smoke programs* measure models offline.
* *Loading and running the models*, prompts, JSON schemas, layout of documents,
  settings and logging have no state that the properties are about.
