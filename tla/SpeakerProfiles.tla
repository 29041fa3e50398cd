--------------------------- MODULE SpeakerProfiles ---------------------------
(***************************************************************************)
(* What the program learns about voices.  A finalize_speakers job embeds   *)
(* the clips whose speaker the user has confirmed, rebuilds the profiles   *)
(* of the people concerned, scores the unresolved speakers against all     *)
(* profiles and stores the matches.  Every step is a transaction of its    *)
(* own; in between the user edits, in this recording or in another whose   *)
(* clips feed the same profiles.                                           *)
(*                                                                         *)
(* There is one embedding model, so one fingerprint.  A clip is cut from   *)
(* one segment, and segments without a clip teach nothing: clips and their *)
(* segments share their identity.                                          *)
(***************************************************************************)
EXTENDS Naturals, FiniteSets

CONSTANTS
    Recording,
    Speaker,      \* local speakers of all recordings
    Person,
    Clip,
    Home,         \* Home[s], the recording of speaker s
    SpeakerOf,    \* SpeakerOf[c], the speaker heard in clip c
    None,
    Requests,     \* kinds of edits explored
    MaxEvents     \* edits, failures and crashes explored

ASSUME HomeAssumption    == Home \in [Speaker -> Recording]
ASSUME ClipAssumption    == SpeakerOf \in [Clip -> Speaker]
ASSUME PersonAssumption  == None \notin Person \cup Recording
ASSUME BoundsAssumption  == MaxEvents \in Nat

VARIABLES
    revision,     \* recordings.revision
    speakers,     \* recording_speakers: person and source
    segments,     \* segments with a clip: person and source
    clips,        \* the clips that are registered
    embeddings,   \* speaker_embeddings; a vector exists while it is active
    profiles,     \* speaker_profiles with their members
    rejections,   \* speaker_match_rejections
    rendering,    \* recordings whose render job is active
    jobs,         \* the latest finalize_speakers job of each recording
    worker,       \* the running job: position and what it has read
    edits,        \* bound of the exploration
    failures      \* bound of the exploration

stored == <<speakers, segments, clips, embeddings, profiles, rejections>>
vars   == <<revision, stored, rendering, jobs, worker, edits, failures>>

Someone    == Person \cup {None}
Assignment == [person : Someone, source : {"unresolved", "manual", "auto"}]
Embedding  == [person : Someone, status : {"none", "active", "invalidated"}]
Profile    == [members : SUBSET Clip, status : {"none", "insufficient", "eligible"}]
Job        == [status : {"none", "queued", "running", "succeeded", "failed"}, revision : Nat]
Candidate  == [clip : Clip, person : Person]
\* score 0 is below the threshold or too close to the second best
Evaluation == [speaker : Speaker, person : Person, score : 0..2, rejected : BOOLEAN]
Steps      == {"idle", "begin", "embed", "rebuild", "score"}
Working    == [pc : Steps, recording : Recording \cup {None}, candidates : SUBSET Candidate,
               people : SUBSET Person, speakers : SUBSET Speaker,
               evaluations : SUBSET Evaluation]

Idle       == [pc |-> "idle", recording |-> None, candidates |-> {}, people |-> {},
               speakers |-> {}, evaluations |-> {}]
Unresolved == [person |-> None, source |-> "unresolved"]
Manual(p)  == [person |-> p, source |-> "manual"]
Matched(p) == [person |-> p, source |-> "auto"]
NoEmbedding == [person |-> None, status |-> "none"]

SpeakersOf(r) == {s \in Speaker : Home[s] = r}
ClipsOf(s)    == {c \in Clip : SpeakerOf[c] = s}
ClipsIn(r)    == {c \in Clip : Home[SpeakerOf[c]] = r}

\* Recordings come from their first transcription with a queued job.
Init ==
    /\ revision = [r \in Recording |-> 1]
    /\ speakers = [s \in Speaker |-> Unresolved]
    /\ segments = [c \in Clip |-> Unresolved]
    /\ clips = Clip
    /\ embeddings = [c \in Clip |-> NoEmbedding]
    /\ profiles = [p \in Person |-> [members |-> {}, status |-> "none"]]
    /\ rejections = {}
    /\ rendering = {}
    /\ jobs = [r \in Recording |-> [status |-> "queued", revision |-> 1]]
    /\ worker = Idle
    /\ edits = 0
    /\ failures = 0

-----------------------------------------------------------------------------
(* Edits of the user: speaker_review_api, recordings_api *)

\* Bound of the exploration, not of the program.
Room == edits + failures < MaxEvents

Asked(request) == request \in Requests /\ Room

\* _ensure_render_not_active, _ensure_finalize_not_running
SpeakersFree(r) == r \notin rendering /\ jobs[r].status # "running"

\* Mutant of Invalidated: the profiles keep the withdrawn members.
EmbeddingsInvalidated(withdrawn) ==
    /\ embeddings' = [c \in Clip |-> IF c \in withdrawn /\ embeddings[c].status = "active"
                                     THEN [embeddings[c] EXCEPT !.status = "invalidated"]
                                     ELSE embeddings[c]]
    /\ UNCHANGED profiles

\* invalidate_embeddings, _invalidate_profiles: the active embeddings of these
\* segments lose their vector, their people's profiles all their members.
Invalidated(withdrawn) ==
    LET active == {c \in withdrawn : embeddings[c].status = "active"}
        people == {embeddings[c].person : c \in active}
    IN  /\ embeddings' = [c \in Clip |-> IF c \in active
                                         THEN [embeddings[c] EXCEPT !.status = "invalidated"]
                                         ELSE embeddings[c]]
        /\ profiles' = [p \in Person |->
                IF p \in people /\ profiles[p].status # "none"
                THEN [members |-> {}, status |-> "insufficient"]
                ELSE profiles[p]]

\* _enqueue_finalize_speakers: a queued job is redirected to the new revision.
Enqueued(r) ==
    jobs' = [jobs EXCEPT ![r] = [status |-> "queued", revision |-> revision[r] + 1]]

\* _update_recording_revision, _enqueue_render
NewRevision(r) ==
    /\ revision' = [revision EXCEPT ![r] = @ + 1]
    /\ rendering' = rendering \cup {r}
    /\ edits' = edits + 1
    /\ UNCHANGED <<clips, worker, failures>>

\* assign_recording_speaker: all segments follow; taking an automatic match
\* back is remembered as a rejection.
AssignSpeaker(s, p) ==
    /\ Asked("speaker")
    /\ SpeakersFree(Home[s])
    /\ rejections' = IF speakers[s].source = "auto" /\ speakers[s].person # p
                     THEN rejections \cup {<<s, speakers[s].person>>}
                     ELSE rejections
    /\ Invalidated(ClipsOf(s))
    /\ speakers' = [speakers EXCEPT ![s] = Manual(p)]
    /\ segments' = [c \in Clip |-> IF SpeakerOf[c] = s THEN Manual(p) ELSE segments[c]]
    /\ Enqueued(Home[s])
    /\ NewRevision(Home[s])

\* assign_segment, assign_segments: segments of one recording, possibly of
\* several speakers; the speakers keep their person.
AssignSegments(r, chosen, p) ==
    /\ Asked("segments")
    /\ SpeakersFree(r)
    /\ Invalidated(chosen)
    /\ segments' = [c \in Clip |-> IF c \in chosen THEN Manual(p) ELSE segments[c]]
    /\ Enqueued(r)
    /\ NewRevision(r)
    /\ UNCHANGED <<speakers, rejections>>

\* update_category, and update_person of one recording's person: a new
\* revision without a job for the speakers.
EditOther(r) ==
    /\ Asked("other")
    /\ r \notin rendering
    /\ NewRevision(r)
    /\ UNCHANGED <<speakers, segments, embeddings, profiles, rejections, jobs>>

\* Mutant of Forgotten: the rejections go with the speakers.
AllForgotten(r) == {x \in rejections : Home[x[1]] # r}

\* Rejections survive a retranscription.
Forgotten(r) == rejections

\* commit_retranscription and the clips made after it.  Deleting speakers and
\* segments deletes their embeddings and memberships (ON DELETE CASCADE), but
\* the profile rows stay as they are.  Clips may fail to be made.
Retranscribe(r) ==
    /\ Asked("retranscribe")
    /\ worker.pc = "idle"
    /\ r \notin rendering
    /\ jobs[r].status \notin {"queued", "running"}
    /\ revision' = [revision EXCEPT ![r] = @ + 1]
    /\ speakers' = [s \in Speaker |-> IF Home[s] = r THEN Unresolved ELSE speakers[s]]
    /\ segments' = [c \in Clip |-> IF c \in ClipsIn(r) THEN Unresolved ELSE segments[c]]
    /\ embeddings' = [c \in Clip |-> IF c \in ClipsIn(r) THEN NoEmbedding ELSE embeddings[c]]
    /\ profiles' = [p \in Person |-> [profiles[p] EXCEPT !.members = @ \ ClipsIn(r)]]
    /\ rejections' = Forgotten(r)
    /\ \E made \in {ClipsIn(r), {}} : clips' = (clips \ ClipsIn(r)) \cup made
    /\ Enqueued(r)
    /\ edits' = edits + 1
    /\ UNCHANGED <<rendering, worker, failures>>

\* The documents of the last edit are made between two speaker jobs.
Render(r) ==
    /\ worker.pc = "idle"
    /\ r \in rendering
    /\ rendering' = rendering \ {r}
    /\ UNCHANGED <<revision, stored, jobs, worker, edits, failures>>

\* retry_recording_job of a failed job of the present revision, with no other
\* job of the recording active
Retry(r) ==
    /\ r \notin rendering
    /\ jobs[r] = [status |-> "failed", revision |-> revision[r]]
    /\ jobs' = [jobs EXCEPT ![r].status = "queued"]
    /\ UNCHANGED <<revision, stored, rendering, worker, edits, failures>>

-----------------------------------------------------------------------------
(* The finalize_speakers job: finalize_speaker_embeddings *)

Mine == worker.recording

\* complete_job, fail_job, release: the worker is free again.
Finish(status) ==
    /\ jobs' = [jobs EXCEPT ![Mine].status = status]
    /\ worker' = Idle

Outdated == revision[Mine] # jobs[Mine].revision

Claim(r) ==
    /\ worker.pc = "idle"
    /\ jobs[r].status = "queued"
    /\ jobs' = [jobs EXCEPT ![r].status = "running"]
    /\ worker' = [Idle EXCEPT !.pc = "begin", !.recording = r]
    /\ UNCHANGED <<revision, stored, rendering, edits, failures>>

\* The user has confirmed the speaker, and the segment for the same person.
Confirmed(c, p) == speakers[SpeakerOf[c]] = Manual(p) /\ segments[c] = Manual(p)

\* _eligible_clips
Eligible(r) == {x \in Candidate : /\ x.clip \in clips \cap ClipsIn(r)
                                  /\ Confirmed(x.clip, x.person)}

Begin ==
    /\ worker.pc = "begin"
    /\ IF Outdated
       THEN Finish("succeeded")
       ELSE /\ worker' = [worker EXCEPT !.pc = "embed", !.candidates = Eligible(Mine)]
            /\ UNCHANGED jobs
    /\ UNCHANGED <<revision, stored, rendering, edits, failures>>

\* SPEAKER_EMBEDDING_SOURCE_CHANGED otherwise, which SpeakersFree leaves no
\* room for.
StillConfirmed(x) == Confirmed(x.clip, x.person)

\* _register_embedding: the row of a clip is reused, for whomever it now is.
Embed(x) ==
    /\ worker.pc = "embed"
    /\ x \in worker.candidates
    /\ StillConfirmed(x)
    /\ embeddings' = [embeddings EXCEPT ![x.clip] = [person |-> x.person, status |-> "active"]]
    /\ worker' = [worker EXCEPT !.candidates = @ \ {x}]
    /\ UNCHANGED <<revision, speakers, segments, clips, profiles, rejections, rendering, jobs,
                   edits, failures>>

\* Mutant of Affected: rows without a person are taken along.
AffectedOrNone(r) == {embeddings[c].person : c \in ClipsIn(r)}
                     \cup {speakers[s].person : s \in SpeakersOf(r)}

\* _recording_person_ids
Affected(r) == Person \cap ({embeddings[c].person : c \in ClipsIn(r)}
                            \cup {speakers[s].person : s \in SpeakersOf(r)})

Collect ==
    /\ worker.pc = "embed"
    /\ worker.candidates = {}
    /\ worker' = [worker EXCEPT !.pc = "rebuild", !.people = Affected(Mine)]
    /\ UNCHANGED <<revision, stored, rendering, jobs, edits, failures>>

\* The samples of a profile: active embeddings that are still confirmed.
Samples(p) == {c \in Clip : /\ embeddings[c] = [person |-> p, status |-> "active"]
                            /\ Confirmed(c, p)}

Known(p) == profiles[p].status # "none" \/ \E c \in Clip : embeddings[c].person = p

\* _rebuild_profile
Rebuilt(p) == [members |-> Samples(p),
               status |-> IF Cardinality(Samples(p)) >= 2 THEN "eligible" ELSE "insufficient"]

Rebuild(p) ==
    /\ worker.pc = "rebuild"
    /\ p \in worker.people
    /\ profiles' = IF Known(p) THEN [profiles EXCEPT ![p] = Rebuilt(p)] ELSE profiles
    /\ worker' = [worker EXCEPT !.people = @ \ {p}]
    /\ UNCHANGED <<revision, speakers, segments, clips, embeddings, rejections, rendering, jobs,
                   edits, failures>>

\* _evaluate_unresolved_speakers: who has two clips, if there is any profile.
Unknown(r) == {s \in SpeakersOf(r) : /\ speakers[s].source = "unresolved"
                                     /\ Cardinality(ClipsOf(s) \cap clips) >= 2}

Survey ==
    /\ worker.pc = "rebuild"
    /\ worker.people = {}
    /\ worker' = [worker EXCEPT !.pc = "score", !.speakers =
                     IF \E p \in Person : profiles[p].status = "eligible"
                     THEN Unknown(Mine) ELSE {}]
    /\ UNCHANGED <<revision, stored, rendering, jobs, edits, failures>>

\* _profile_candidates: an eligible profile needs one member to be scored.
Comparable == {p \in Person : /\ profiles[p].status = "eligible"
                              /\ \E c \in profiles[p].members : embeddings[c].status = "active"}

\* The best candidate of one speaker, with any score.
Score(s) ==
    /\ worker.pc = "score"
    /\ s \in worker.speakers
    /\ ~Outdated
    /\ \/ /\ Comparable = {}
          /\ worker' = [worker EXCEPT !.speakers = @ \ {s}]
       \/ \E p \in Comparable, score \in 0..2 :
             worker' = [worker EXCEPT
                !.speakers = @ \ {s},
                !.evaluations = @ \cup {[speaker |-> s, person |-> p, score |-> score,
                                         rejected |-> <<s, p>> \in rejections]}]
    /\ UNCHANGED <<revision, stored, rendering, jobs, edits, failures>>

\* The revision changed before the next speaker: no evaluation counts.
GiveUp ==
    /\ worker.pc = "score"
    /\ worker.speakers # {}
    /\ Outdated
    /\ worker' = [worker EXCEPT !.speakers = {}, !.evaluations = {}]
    /\ UNCHANGED <<revision, stored, rendering, jobs, edits, failures>>

-----------------------------------------------------------------------------
(* Matching: _decide_auto_matches, _store_matches_and_apply *)

\* Mutant of Held: only matches count, and not the user's choices.
HeldByMatch(r) == {speakers[s].person : s \in {t \in SpeakersOf(r) : speakers[t].source = "auto"}}

Held(r) == {speakers[s].person : s \in SpeakersOf(r)} \ {None}

Confident == {e \in worker.evaluations : /\ speakers[e.speaker].source = "unresolved"
                                         /\ ~e.rejected
                                         /\ e.person \notin Held(Mine)
                                         /\ e.score > 0}

\* Mutant of Winners: of equal scores, both win.
WinnersOrEqual == {e \in Confident : \A f \in Confident \ {e} :
                                        f.person = e.person => f.score <= e.score}

\* Of the speakers that claim one person, the single best; of equals, none.
Winners == {e \in Confident : \A f \in Confident \ {e} :
                                 f.person = e.person => f.score < e.score}

MatchOf(s) == {e.person : e \in {w \in Winners : w.speaker = s}}

\* The matched speakers take all their segments with them, the ones the user
\* assigned one by one included.
Apply ==
    /\ worker.pc = "score"
    /\ worker.speakers = {}
    /\ ~Outdated
    /\ Winners # {}
    /\ Mine \notin rendering
    /\ speakers' = [s \in Speaker |->
            IF MatchOf(s) = {} THEN speakers[s] ELSE Matched(CHOOSE p \in MatchOf(s) : TRUE)]
    /\ segments' = [c \in Clip |->
            IF MatchOf(SpeakerOf[c]) = {} THEN segments[c]
            ELSE Matched(CHOOSE p \in MatchOf(SpeakerOf[c]) : TRUE)]
    /\ revision' = [revision EXCEPT ![Mine] = @ + 1]
    /\ rendering' = rendering \cup {Mine}
    /\ Finish("succeeded")
    /\ UNCHANGED <<clips, embeddings, profiles, rejections, edits, failures>>

\* Nobody is matched, or the job is outdated: nothing that matters is stored.
ApplyNothing ==
    /\ worker.pc = "score"
    /\ worker.speakers = {}
    /\ Outdated \/ Winners = {}
    /\ Finish("succeeded")
    /\ UNCHANGED <<revision, stored, rendering, edits, failures>>

\* An edit's render job is active: inserting another violates
\* jobs_one_active_kind, and the transaction is rolled back.
ApplyConflicts ==
    /\ worker.pc = "score"
    /\ worker.speakers = {}
    /\ ~Outdated
    /\ Winners # {}
    /\ Mine \in rendering
    /\ Finish("failed")
    /\ UNCHANGED <<revision, stored, rendering, edits, failures>>

\* The model fails, or a clip is gone: tried again, or for good.
Fail ==
    /\ Room
    /\ worker.pc \in {"embed", "score"}
    /\ failures' = failures + 1
    /\ \E status \in {"queued", "failed"} : Finish(status)
    /\ UNCHANGED <<revision, stored, rendering, edits>>

\* Mutant of Recovered: recovery takes the job for done, as it may a render.
RecoveredAsDone == IF Outdated THEN "failed" ELSE "succeeded"

\* recover_stale_jobs: RECOVERY_REVISION_CHANGED, or the job is done from the
\* start again; what it has registered is registered once more.
Recovered == IF Outdated THEN "failed" ELSE "queued"

\* The worker dies and starts again.
Crash ==
    /\ Room
    /\ worker.pc # "idle"
    /\ failures' = failures + 1
    /\ Finish(Recovered)
    /\ UNCHANGED <<revision, stored, rendering, edits>>

Edit ==
    \/ \E s \in Speaker, p \in Someone : AssignSpeaker(s, p)
    \/ \E c \in Clip, p \in Someone : AssignSegments(Home[SpeakerOf[c]], {c}, p)
    \/ \E r \in Recording : EditOther(r)

Work ==
    \/ \E r \in Recording : Claim(r)
    \/ Begin
    \/ \E x \in worker.candidates : Embed(x)
    \/ Collect
    \/ \E p \in worker.people : Rebuild(p)
    \/ Survey
    \/ \E s \in worker.speakers : Score(s)
    \/ GiveUp
    \/ Apply
    \/ ApplyNothing
    \/ ApplyConflicts

Next ==
    \/ Edit
    \/ \E r \in Recording : Retranscribe(r) \/ Render(r) \/ Retry(r)
    \/ Work
    \/ Fail
    \/ Crash

Spec == Init /\ [][Next]_vars

-----------------------------------------------------------------------------
(* Properties *)

TypeOK ==
    /\ revision \in [Recording -> Nat]
    /\ speakers \in [Speaker -> Assignment]
    /\ segments \in [Clip -> Assignment]
    /\ clips \subseteq Clip
    /\ embeddings \in [Clip -> Embedding]
    /\ profiles \in [Person -> Profile]
    /\ rejections \subseteq Speaker \X Person
    /\ rendering \subseteq Recording
    /\ jobs \in [Recording -> Job]
    /\ worker \in Working
    /\ edits \in 0..MaxEvents
    /\ failures \in 0..MaxEvents

\* A profile consists of voices the user stands by at this moment: withdrawing
\* a confirmation, one segment's or a speaker's, or retranscribing takes the
\* sample out of every profile before anything else can be read, also when the
\* job that registers it is halfway, fails or is run again.
ProfilesConfirmed ==
    \A p \in Person : \A c \in profiles[p].members : c \in Samples(p)

Rematched(s) == speakers'[s].source = "auto" /\ speakers'[s] # speakers[s]

\* The same person is never found for two speakers of a recording, whether
\* matched together, matched earlier or chosen by the user: a match gives a
\* speaker somebody whom no other speaker of the recording then has.
OneSpeakerPerPerson ==
    [][\A s, t \in Speaker :
          Rematched(s) /\ s # t /\ Home[s] = Home[t]
             => speakers'[t].person # speakers'[s].person]_vars

\* A match the user took back is on record, stays on record over edits,
\* retranscriptions and crashes, and is never made again.
RejectedForGood ==
    [][/\ rejections \subseteq rejections'
       /\ \A s \in Speaker :
             /\ Rematched(s) => <<s, speakers'[s].person>> \notin rejections
             /\ speakers[s].source = "auto" /\ speakers'[s].source = "manual"
                   => \/ speakers'[s].person = speakers[s].person
                      \/ <<s, speakers[s].person>> \in rejections']_vars

\* The speakers' job of the present revision has been done.
Done(r) == jobs[r] = [status |-> "succeeded", revision |-> revision[r]]

\* When the jobs of all recordings are done, every confirmed clip is a sample
\* of its person, and an eligible profile has all samples there are: crashes,
\* failures and redirected jobs leave no part of the work undone.
SamplesComplete ==
    (\A r \in Recording : Done(r)) =>
        /\ \A c \in clips, p \in Person : Confirmed(c, p) => c \in Samples(p)
        /\ \A p \in Person : profiles[p].status = "eligible" => profiles[p].members = Samples(p)

\* 01_implementation_blueprint.md:980 the user's choice of a speaker goes
\* before an automatic one; 546 allows it for single segments.  A step that is
\* no edit leaves the segments the user assigned.
ManualKept ==
    [][\A c \in Clip : segments[c].source = "manual" /\ segments'[c] # segments[c]
                          => edits' # edits]_vars

\* progress/064_r6_02_person_profiles.md:25-27 the job after an edit computes the
\* profiles of the previous and of the new person: when all jobs are done,
\* whoever has two samples has a profile.
ProfilesRebuilt ==
    (\A r \in Recording : Done(r)) =>
        \A p \in Person : Cardinality(Samples(p)) >= 2 => profiles[p].status = "eligible"

\* progress/064_r6_02_person_profiles.md:25-27 an edit disables the profiles at once,
\* so that an outdated one is never a candidate: nobody is matched without a
\* profile at that moment.
MatchedByProfile ==
    [][\A s \in Speaker :
          Rematched(s) => profiles[speakers'[s].person].status = "eligible"]_vars

=============================================================================
