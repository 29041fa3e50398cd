----------------------- MODULE SpeakerProfilesProofs -----------------------
(***************************************************************************)
(* Profiles hold what the user stands by, and all of it when the jobs are  *)
(* done; matches keep persons apart and rejected ones away: for all        *)
(* recordings, speakers, clips and persons, and any number of edits,       *)
(* failures and crashes.                                                   *)
(***************************************************************************)
EXTENDS SpeakerProfiles, TLAPS

\* A match has a person.
AutoNamed == \A s \in Speaker : speakers[s].source = "auto" => speakers[s].person \in Person

\* The worker holds a running job, and what it has read is of that recording.
WorkerHolds ==
    /\ worker.pc # "idle" \/ worker.evaluations # {}
          => Mine \in Recording /\ jobs[Mine].status = "running"
    /\ \A x \in worker.candidates : Home[SpeakerOf[x.clip]] = Mine
    /\ \A s \in worker.speakers : Home[s] = Mine
    /\ \A e \in worker.evaluations : Home[e.speaker] = Mine

\* A person without a profile row has no members in it.
RowsFirst == \A p \in Person : profiles[p].status = "none" => profiles[p].members = {}

\* What an evaluation says of rejections is still so.
RejectionsRead ==
    \A e \in worker.evaluations : <<e.speaker, e.person>> \in rejections => e.rejected

\* No job is for a revision that is still to come.
NotAhead == \A r \in Recording : jobs[r].revision <= revision[r]

\* A job of this recording is still to come, or it was for another revision.
Due(r) == jobs[r].status \in {"queued", "failed"} \/ jobs[r].revision # revision[r]

HomeOf(c) == Home[SpeakerOf[c]]

\* Clip c is going to be embedded for p.
ToEmbed(c, p) ==
    \/ Due(HomeOf(c))
    \/ Mine = HomeOf(c) /\ worker.pc = "begin"
    \/ Mine = HomeOf(c) /\ worker.pc = "embed" /\ [clip |-> c, person |-> p] \in worker.candidates

\* The profile of p is going to be rebuilt by the job that embeds clip c.
ToRebuild(c, p) ==
    \/ Due(HomeOf(c))
    \/ Mine = HomeOf(c) /\ worker.pc \in {"begin", "embed"}
    \/ Mine = HomeOf(c) /\ worker.pc = "rebuild" /\ p \in worker.people

\* A confirmed clip is a sample, or will be.
Embedded ==
    \A c \in Clip, p \in Person :
        c \in clips /\ Confirmed(c, p) => c \in Samples(p) \/ ToEmbed(c, p)

\* A sample is a member of its person's profile, if that is eligible, or will be.
Collected ==
    \A c \in Clip, p \in Person :
        profiles[p].status = "eligible" /\ c \in Samples(p)
            => c \in profiles[p].members \/ ToRebuild(c, p)

ProfileInv == /\ TypeOK
              /\ AutoNamed
              /\ WorkerHolds
              /\ NotAhead
              /\ RowsFirst
              /\ RejectionsRead
              /\ ProfilesConfirmed
              /\ Embedded
              /\ Collected

-----------------------------------------------------------------------------
(* Parts that several actions share *)

\* Where clips and speakers belong.
LEMMA Homes ==
    \A c \in Clip : /\ SpeakerOf[c] \in Speaker
                    /\ HomeOf(c) \in Recording
  BY HomeAssumption, ClipAssumption DEF HomeOf

\* The worker without a job has read nothing.
LEMMA IdleOk ==
    /\ Idle \in Working
    /\ Idle.pc = "idle" /\ Idle.candidates = {} /\ Idle.speakers = {} /\ Idle.evaluations = {}
  BY DEF Idle, Working, Steps

\* The worker is given back: the job succeeds only if it was outdated or has
\* done all it had to, and is otherwise due again.
LEMMA FinishOk ==
    ASSUME ProfileInv, worker.pc # "idle",
           NEW status \in {"queued", "succeeded", "failed"}, Finish(status),
           status = "succeeded" => Outdated \/ worker.pc = "score",
           UNCHANGED <<revision, stored, rendering>>,
           edits' \in 0..MaxEvents, failures' \in 0..MaxEvents
    PROVE  ProfileInv'
<1>1. /\ TypeOK /\ AutoNamed /\ WorkerHolds /\ NotAhead /\ RowsFirst /\ ProfilesConfirmed
      /\ Embedded /\ Collected
  BY DEF ProfileInv
<1>2. /\ Mine \in Recording
      /\ jobs' = [jobs EXCEPT ![Mine].status = status]
      /\ worker' = Idle
  BY <1>1 DEF Finish, WorkerHolds
<1>3. /\ jobs[Mine] \in Job
      /\ jobs' \in [Recording -> Job]
      /\ \A r \in Recording : jobs'[r].revision = jobs[r].revision
      /\ \A r \in Recording \ {Mine} : jobs'[r].status = jobs[r].status
      /\ jobs'[Mine].status = status
  BY <1>1, <1>2 DEF TypeOK, Job
<1>4. TypeOK'
  BY <1>1, <1>2, <1>3, IdleOk DEF TypeOK, stored
<1>5. AutoNamed' /\ RowsFirst' /\ NotAhead'
  BY <1>1, <1>3 DEF AutoNamed, RowsFirst, NotAhead, stored
<1>6. WorkerHolds' /\ RejectionsRead'
  BY <1>2, IdleOk DEF WorkerHolds, RejectionsRead
<1>7. \A c \in Clip, p \in Person :
          /\ c \in Samples(p) <=> c \in Samples(p)'
          /\ Confirmed(c, p) <=> Confirmed(c, p)'
  BY DEF Samples, Confirmed, stored
<1>8. ProfilesConfirmed'
  <2> SUFFICES ASSUME NEW p \in Person, NEW c \in profiles'[p].members
               PROVE  c \in Samples(p)'
    BY DEF ProfilesConfirmed
  <2>1. profiles' = profiles /\ profiles[p] \in Profile
    BY <1>1 DEF stored, TypeOK
  <2>2. c \in Clip /\ c \in Samples(p)
    BY <1>1, <2>1 DEF ProfilesConfirmed, Profile
  <2> QED  BY <1>7, <2>2
<1>9. /\ \A r \in Recording : Due(r) => Due(r)'
      /\ \A r \in Recording : r = Mine /\ worker.pc # "score" => Due(r)'
  BY <1>1, <1>2, <1>3 DEF Due, Outdated, WorkerHolds
<1>10. Embedded'
  BY <1>1, <1>2, <1>7, <1>9, Homes DEF Embedded, ToEmbed, stored
<1>11. Collected'
  BY <1>1, <1>2, <1>7, <1>9, Homes DEF Collected, ToRebuild, stored
<1> QED
  BY <1>4, <1>5, <1>6, <1>8, <1>10, <1>11 DEF ProfileInv

\* A step of the job that changes only what the worker knows.
LEMMA WorkerOk ==
    ASSUME ProfileInv, worker.pc # "idle",
           worker' \in Working, Mine' = Mine,
           UNCHANGED <<revision, stored, rendering, jobs, edits, failures>>,
           \A x \in worker'.candidates : Home[SpeakerOf[x.clip]] = Mine,
           \A s \in worker'.speakers : Home[s] = Mine,
           \A e \in worker'.evaluations : Home[e.speaker] = Mine,
           \A e \in worker'.evaluations : <<e.speaker, e.person>> \in rejections => e.rejected,
           \A c \in Clip, p \in Person :
               c \in clips /\ Confirmed(c, p) /\ ToEmbed(c, p) => ToEmbed(c, p)',
           \A c \in Clip, p \in Person :
               c \in Samples(p) /\ ToRebuild(c, p) => ToRebuild(c, p)'
    PROVE  ProfileInv'
<1>1. /\ TypeOK /\ AutoNamed /\ WorkerHolds /\ NotAhead /\ RowsFirst /\ ProfilesConfirmed
      /\ Embedded /\ Collected
  BY DEF ProfileInv
<1>2. TypeOK' /\ AutoNamed' /\ RowsFirst' /\ NotAhead'
  BY <1>1 DEF TypeOK, AutoNamed, RowsFirst, NotAhead, stored
<1>3. WorkerHolds' /\ RejectionsRead'
  BY <1>1 DEF WorkerHolds, RejectionsRead, stored
<1>4. \A c \in Clip, p \in Person :
          /\ c \in Samples(p) <=> c \in Samples(p)'
          /\ Confirmed(c, p) <=> Confirmed(c, p)'
  BY DEF Samples, Confirmed, stored
<1>5. ProfilesConfirmed'
  BY <1>1, <1>4 DEF ProfilesConfirmed, TypeOK, Profile, stored
<1>6. Embedded'
  BY <1>1, <1>4 DEF Embedded, stored
<1>7. Collected'
  BY <1>1, <1>4 DEF Collected, stored
<1> QED
  BY <1>2, <1>3, <1>5, <1>6, <1>7 DEF ProfileInv

-----------------------------------------------------------------------------
(* The job, step by step *)

\* A claim takes the recording's queued job.
LEMMA ClaimOk == ASSUME ProfileInv, NEW r \in Recording, Claim(r) PROVE ProfileInv'
<1>1. /\ TypeOK /\ AutoNamed /\ WorkerHolds /\ NotAhead /\ RowsFirst /\ ProfilesConfirmed
      /\ Embedded /\ Collected
  BY DEF ProfileInv
<1>2. /\ UNCHANGED <<revision, stored, rendering, edits, failures>>
      /\ worker.pc = "idle" /\ jobs[r].status = "queued"
      /\ jobs' = [jobs EXCEPT ![r].status = "running"]
      /\ worker' = [Idle EXCEPT !.pc = "begin", !.recording = r]
  BY DEF Claim
<1>3. /\ worker' \in Working
      /\ worker'.pc = "begin" /\ worker'.recording = r
      /\ worker'.candidates = {} /\ worker'.speakers = {} /\ worker'.evaluations = {}
  BY <1>2 DEF Idle, Working, Steps
<1>4. /\ jobs' \in [Recording -> Job]
      /\ jobs'[r].status = "running"
      /\ \A q \in Recording \ {r} : jobs'[q] = jobs[q]
  BY <1>1, <1>2 DEF TypeOK, Job
<1>5. TypeOK'
  BY <1>1, <1>2, <1>3, <1>4 DEF TypeOK, stored
<1>6. AutoNamed' /\ RowsFirst' /\ NotAhead'
  BY <1>1, <1>2, <1>4 DEF AutoNamed, RowsFirst, NotAhead, TypeOK, Job, stored
<1>7. WorkerHolds' /\ RejectionsRead'
  BY <1>3, <1>4 DEF WorkerHolds, RejectionsRead, Mine
<1>8. \A c \in Clip, p \in Person :
          /\ c \in Samples(p) <=> c \in Samples(p)'
          /\ Confirmed(c, p) <=> Confirmed(c, p)'
  BY <1>2 DEF Samples, Confirmed, stored
<1>9. ProfilesConfirmed'
  BY <1>1, <1>2, <1>8 DEF ProfilesConfirmed, TypeOK, Profile, stored
<1>10. \A c \in Clip : \/ HomeOf(c) = r
                       \/ Due(HomeOf(c)) => Due(HomeOf(c))'
  BY <1>2, <1>4, Homes DEF Due
<1>11. Embedded'
  BY <1>1, <1>2, <1>3, <1>8, <1>10 DEF Embedded, ToEmbed, Mine, stored
<1>12. Collected'
  BY <1>1, <1>2, <1>3, <1>8, <1>10 DEF Collected, ToRebuild, Mine, stored
<1> QED
  BY <1>5, <1>6, <1>7, <1>9, <1>11, <1>12 DEF ProfileInv

\* finalize_speakers reads its candidates.
LEMMA BeginOk == ASSUME ProfileInv, Begin PROVE ProfileInv'
<1>1. TypeOK /\ WorkerHolds
  BY DEF ProfileInv
<1>2. CASE Outdated
  <2>1. /\ Finish("succeeded") /\ worker.pc # "idle"
        /\ UNCHANGED <<revision, stored, rendering, edits, failures>>
    BY <1>2 DEF Begin
  <2> QED  BY <1>1, <1>2, <2>1, FinishOk DEF TypeOK
<1>3. CASE ~Outdated
  <2>1. /\ UNCHANGED <<revision, stored, rendering, jobs, edits, failures>>
        /\ worker.pc = "begin"
        /\ worker' = [worker EXCEPT !.pc = "embed", !.candidates = Eligible(Mine)]
    BY <1>3 DEF Begin
  <2>2. Eligible(Mine) \subseteq Candidate
    BY DEF Eligible
  <2>3. /\ worker' \in Working
        /\ worker'.pc = "embed" /\ worker'.recording = worker.recording
        /\ worker'.candidates = Eligible(Mine)
        /\ worker'.speakers = worker.speakers /\ worker'.evaluations = worker.evaluations
    BY <1>1, <2>1, <2>2 DEF TypeOK, Working, Steps
  <2>4. \A x \in worker'.candidates : Home[SpeakerOf[x.clip]] = Mine
    BY <2>3 DEF Eligible, ClipsIn
  <2>5. ASSUME NEW c \in Clip, NEW p \in Person,
               c \in clips, Confirmed(c, p), HomeOf(c) = Mine
        PROVE  [clip |-> c, person |-> p] \in Eligible(Mine)
    BY <2>5 DEF Eligible, Candidate, ClipsIn, HomeOf
  <2>6. \A c \in Clip : Due(HomeOf(c)) => Due(HomeOf(c))'
    BY <2>1 DEF Due
  <2>7. \A c \in Clip, p \in Person :
            c \in clips /\ Confirmed(c, p) /\ ToEmbed(c, p) => ToEmbed(c, p)'
    <3> SUFFICES ASSUME NEW c \in Clip, NEW p \in Person,
                        c \in clips, Confirmed(c, p), ToEmbed(c, p)
                 PROVE  ToEmbed(c, p)'
      OBVIOUS
    <3>1. CASE Due(HomeOf(c))  BY <2>6, <3>1 DEF ToEmbed
    <3>2. CASE Mine = HomeOf(c)  BY <2>3, <2>5, <3>2 DEF ToEmbed, Mine
    <3> QED  BY <3>1, <3>2 DEF ToEmbed
  <2>8. \A c \in Clip, p \in Person : ToRebuild(c, p) => ToRebuild(c, p)'
    BY <2>1, <2>3, <2>6 DEF ToRebuild, Mine
  <2> QED
    BY <1>1, <2>1, <2>3, <2>4, <2>7, <2>8, WorkerOk
       DEF ProfileInv, WorkerHolds, RejectionsRead, Mine
<1> QED  BY <1>2, <1>3

\* A candidate's embedding is registered in a transaction of its own.
LEMMA EmbedOk == ASSUME ProfileInv, NEW x \in worker.candidates, Embed(x) PROVE ProfileInv'
<1>1. /\ TypeOK /\ AutoNamed /\ WorkerHolds /\ NotAhead /\ RowsFirst /\ ProfilesConfirmed
      /\ Embedded /\ Collected /\ RejectionsRead
  BY DEF ProfileInv
<1>2. /\ UNCHANGED <<revision, speakers, segments, clips, profiles, rejections, rendering, jobs,
                     edits, failures>>
      /\ worker.pc = "embed"
      /\ Confirmed(x.clip, x.person)
      /\ embeddings' = [embeddings EXCEPT ![x.clip] = [person |-> x.person, status |-> "active"]]
      /\ worker' = [worker EXCEPT !.candidates = @ \ {x}]
  BY DEF Embed, StillConfirmed
<1>3. x.clip \in Clip /\ x.person \in Person /\ x = [clip |-> x.clip, person |-> x.person]
  BY <1>1 DEF TypeOK, Working, Candidate
<1>4. /\ embeddings' \in [Clip -> Embedding]
      /\ embeddings'[x.clip] = [person |-> x.person, status |-> "active"]
      /\ \A c \in Clip \ {x.clip} : embeddings'[c] = embeddings[c]
  BY <1>1, <1>2, <1>3 DEF TypeOK, Embedding, Someone
<1>5. /\ worker' \in Working
      /\ worker'.pc = "embed" /\ worker'.recording = worker.recording
      /\ worker'.candidates = worker.candidates \ {x}
      /\ worker'.speakers = worker.speakers /\ worker'.evaluations = worker.evaluations
  BY <1>1, <1>2 DEF TypeOK, Working
<1>6. TypeOK'
  BY <1>1, <1>2, <1>4, <1>5 DEF TypeOK
<1>7. AutoNamed' /\ RowsFirst' /\ NotAhead' /\ RejectionsRead'
  BY <1>1, <1>2, <1>5 DEF AutoNamed, RowsFirst, NotAhead, RejectionsRead
<1>8. WorkerHolds'
  BY <1>1, <1>2, <1>5 DEF WorkerHolds, Mine
<1>9. \A c \in Clip, p \in Person : Confirmed(c, p) <=> Confirmed(c, p)'
  BY <1>2 DEF Confirmed
<1>10. \A p \in Person : Confirmed(x.clip, p) => p = x.person
  BY <1>2 DEF Confirmed, Manual
\* Only the sample of this clip is new.
<1>11. /\ x.clip \in Samples(x.person)'
       /\ \A c \in Clip, p \in Person : c \in Samples(p) => c \in Samples(p)'
       /\ \A c \in Clip, p \in Person : c \in Samples(p)' /\ c # x.clip => c \in Samples(p)
  BY <1>2, <1>3, <1>4, <1>9, <1>10 DEF Samples
<1>12. ProfilesConfirmed'
  BY <1>1, <1>2, <1>11 DEF ProfilesConfirmed, TypeOK, Profile
<1>13. \A c \in Clip : Due(HomeOf(c)) => Due(HomeOf(c))'
  BY <1>2 DEF Due
<1>14. Embedded'
  <2> SUFFICES ASSUME NEW c \in Clip, NEW p \in Person, c \in clips', Confirmed(c, p)'
               PROVE  c \in Samples(p)' \/ ToEmbed(c, p)'
    BY DEF Embedded
  <2>1. CASE c = x.clip
    BY <1>9, <1>10, <1>11, <2>1
  <2>2. CASE c # x.clip
    <3>1. c \in Samples(p) \/ ToEmbed(c, p)
      BY <1>1, <1>2, <1>9 DEF Embedded
    <3>2. [clip |-> c, person |-> p] # x
      BY <2>2
    <3> QED  BY <1>5, <1>2, <1>11, <1>13, <3>1, <3>2 DEF ToEmbed, Mine
  <2> QED  BY <2>1, <2>2
<1>15. Collected'
  <2> SUFFICES ASSUME NEW c \in Clip, NEW p \in Person,
                      profiles'[p].status = "eligible", c \in Samples(p)'
               PROVE  c \in profiles'[p].members \/ ToRebuild(c, p)'
    BY DEF Collected
  <2>1. CASE HomeOf(c) = Mine
    BY <1>5, <2>1 DEF ToRebuild, Mine
  <2>2. CASE HomeOf(c) # Mine
    <3>1. c # x.clip
      BY <1>1, <2>2 DEF WorkerHolds, HomeOf
    <3>2. c \in profiles[p].members \/ ToRebuild(c, p)
      BY <1>1, <1>2, <1>11, <3>1 DEF Collected
    <3> QED  BY <1>2, <1>13, <2>2, <3>2 DEF ToRebuild
  <2> QED  BY <2>1, <2>2
<1> QED
  BY <1>6, <1>7, <1>8, <1>12, <1>14, <1>15 DEF ProfileInv

\* The persons to rebuild are read after the embeddings.
LEMMA CollectOk == ASSUME ProfileInv, Collect PROVE ProfileInv'
<1>1. TypeOK /\ WorkerHolds /\ RejectionsRead
  BY DEF ProfileInv
<1>2. /\ UNCHANGED <<revision, stored, rendering, jobs, edits, failures>>
      /\ worker.pc = "embed" /\ worker.candidates = {}
      /\ worker' = [worker EXCEPT !.pc = "rebuild", !.people = Affected(Mine)]
  BY DEF Collect
<1>3. Affected(Mine) \subseteq Person
  BY DEF Affected
<1>4. /\ worker' \in Working
      /\ worker'.pc = "rebuild" /\ worker'.recording = worker.recording
      /\ worker'.people = Affected(Mine) /\ worker'.candidates = worker.candidates
      /\ worker'.speakers = worker.speakers /\ worker'.evaluations = worker.evaluations
  BY <1>1, <1>2, <1>3 DEF TypeOK, Working, Steps
<1>5. \A c \in Clip : Due(HomeOf(c)) => Due(HomeOf(c))'
  BY <1>2 DEF Due
<1>6. \A c \in Clip, p \in Person : ToEmbed(c, p) => ToEmbed(c, p)'
  BY <1>2, <1>5 DEF ToEmbed
<1>7. \A c \in Clip, p \in Person :
          c \in Samples(p) /\ HomeOf(c) = Mine => p \in Affected(Mine)
  BY DEF Samples, Affected, ClipsIn, HomeOf
<1>8. \A c \in Clip, p \in Person :
          c \in Samples(p) /\ ToRebuild(c, p) => ToRebuild(c, p)'
  BY <1>2, <1>4, <1>5, <1>7 DEF ToRebuild, Mine
<1> QED
  BY <1>1, <1>2, <1>4, <1>6, <1>8, WorkerOk DEF WorkerHolds, RejectionsRead, Mine

\* A person's profile is rebuilt from the samples of that moment.
LEMMA RebuildOk == ASSUME ProfileInv, NEW p \in worker.people, Rebuild(p) PROVE ProfileInv'
<1>1. /\ TypeOK /\ AutoNamed /\ WorkerHolds /\ NotAhead /\ RowsFirst /\ ProfilesConfirmed
      /\ Embedded /\ Collected /\ RejectionsRead
  BY DEF ProfileInv
<1>2. /\ UNCHANGED <<revision, speakers, segments, clips, embeddings, rejections, rendering, jobs,
                     edits, failures>>
      /\ worker.pc = "rebuild"
      /\ profiles' = IF Known(p) THEN [profiles EXCEPT ![p] = Rebuilt(p)] ELSE profiles
      /\ worker' = [worker EXCEPT !.people = @ \ {p}]
  BY DEF Rebuild
<1>3. p \in Person
  BY <1>1 DEF TypeOK, Working
<1>4. /\ Rebuilt(p) \in Profile
      /\ Rebuilt(p).members = Samples(p)
      /\ Rebuilt(p).status # "none"
  BY DEF Rebuilt, Profile, Samples
<1>5. /\ profiles' \in [Person -> Profile]
      /\ Known(p) => profiles'[p] = Rebuilt(p)
      /\ ~Known(p) => profiles'[p] = profiles[p]
      /\ \A q \in Person \ {p} : profiles'[q] = profiles[q]
  BY <1>1, <1>2, <1>3, <1>4 DEF TypeOK
<1>6. /\ worker' \in Working
      /\ worker'.pc = "rebuild" /\ worker'.recording = worker.recording
      /\ worker'.people = worker.people \ {p} /\ worker'.candidates = worker.candidates
      /\ worker'.speakers = worker.speakers /\ worker'.evaluations = worker.evaluations
  BY <1>1, <1>2 DEF TypeOK, Working
<1>7. TypeOK'
  BY <1>1, <1>2, <1>5, <1>6 DEF TypeOK
<1>8. AutoNamed' /\ NotAhead' /\ RejectionsRead'
  BY <1>1, <1>2, <1>6 DEF AutoNamed, NotAhead, RejectionsRead
<1>9. WorkerHolds'
  BY <1>1, <1>2, <1>6 DEF WorkerHolds, Mine
<1>10. RowsFirst'
  BY <1>1, <1>4, <1>5 DEF RowsFirst
<1>11. \A c \in Clip, q \in Person :
           /\ Confirmed(c, q) <=> Confirmed(c, q)'
           /\ c \in Samples(q) <=> c \in Samples(q)'
  BY <1>2 DEF Confirmed, Samples
<1>12. ProfilesConfirmed'
  <2> SUFFICES ASSUME NEW q \in Person, NEW c \in profiles'[q].members
               PROVE  c \in Samples(q)'
    BY DEF ProfilesConfirmed
  <2>1. c \in Clip
    BY <1>5 DEF Profile
  <2>2. c \in Samples(q)
    BY <1>1, <1>4, <1>5 DEF ProfilesConfirmed
  <2> QED  BY <1>11, <2>1, <2>2
<1>13. \A c \in Clip : Due(HomeOf(c)) => Due(HomeOf(c))'
  BY <1>2 DEF Due
<1>14. Embedded'
  BY <1>1, <1>2, <1>11, <1>13 DEF Embedded, ToEmbed
<1>15. Collected'
  <2> SUFFICES ASSUME NEW c \in Clip, NEW q \in Person,
                      profiles'[q].status = "eligible", c \in Samples(q)'
               PROVE  c \in profiles'[q].members \/ ToRebuild(c, q)'
    BY DEF Collected
  <2>1. CASE q = p
    <3>1. Known(p)
      BY <1>5, <2>1 DEF Known
    <3> QED  BY <1>4, <1>5, <1>11, <2>1, <3>1
  <2>2. CASE q # p
    <3>1. c \in profiles[q].members \/ ToRebuild(c, q)
      BY <1>1, <1>5, <1>11, <2>2 DEF Collected
    <3> QED  BY <1>2, <1>5, <1>6, <1>13, <2>2, <3>1 DEF ToRebuild, Mine
  <2> QED  BY <2>1, <2>2
<1> QED
  BY <1>7, <1>8, <1>9, <1>10, <1>12, <1>14, <1>15 DEF ProfileInv

\* The speakers to be matched are read.
LEMMA SurveyOk == ASSUME ProfileInv, Survey PROVE ProfileInv'
<1>1. TypeOK /\ WorkerHolds /\ RejectionsRead
  BY DEF ProfileInv
<1> DEFINE chosen == IF \E p \in Person : profiles[p].status = "eligible"
                     THEN Unknown(Mine) ELSE {}
<1>2. /\ UNCHANGED <<revision, stored, rendering, jobs, edits, failures>>
      /\ worker.pc = "rebuild" /\ worker.people = {}
      /\ worker' = [worker EXCEPT !.pc = "score", !.speakers = chosen]
  BY DEF Survey
<1>3. chosen \subseteq Speaker /\ \A s \in chosen : Home[s] = Mine
  BY DEF Unknown, SpeakersOf
<1> HIDE DEF chosen
<1>4. /\ worker' \in Working
      /\ worker'.pc = "score" /\ worker'.recording = worker.recording
      /\ worker'.speakers = chosen
      /\ worker'.candidates = worker.candidates /\ worker'.evaluations = worker.evaluations
  BY <1>1, <1>2, <1>3 DEF TypeOK, Working, Steps
<1>5. \A c \in Clip : Due(HomeOf(c)) => Due(HomeOf(c))'
  BY <1>2 DEF Due
<1>6. \A c \in Clip, p \in Person : ToEmbed(c, p) => ToEmbed(c, p)'
  BY <1>2, <1>5 DEF ToEmbed
<1>7. \A c \in Clip, p \in Person : ToRebuild(c, p) => ToRebuild(c, p)'
  BY <1>2, <1>5 DEF ToRebuild
<1> QED
  BY <1>1, <1>2, <1>3, <1>4, <1>6, <1>7, WorkerOk DEF WorkerHolds, RejectionsRead, Mine

\* A speaker is scored against the profiles of that moment.
LEMMA ScoreOk == ASSUME ProfileInv, NEW s \in worker.speakers, Score(s) PROVE ProfileInv'
<1>1. TypeOK /\ WorkerHolds /\ RejectionsRead
  BY DEF ProfileInv
<1>2. /\ UNCHANGED <<revision, stored, rendering, jobs, edits, failures>>
      /\ worker.pc = "score"
  BY DEF Score
<1>3. s \in Speaker /\ Home[s] = Mine
  BY <1>1 DEF TypeOK, Working, WorkerHolds
<1>4. PICK found \in SUBSET Evaluation :
          /\ worker' = [worker EXCEPT !.speakers = @ \ {s}, !.evaluations = @ \cup found]
          /\ \A e \in found : e.speaker = s /\ e.rejected = (<<s, e.person>> \in rejections)
  <2>1. CASE worker' = [worker EXCEPT !.speakers = @ \ {s}]
    <3>1. worker' = [worker EXCEPT !.speakers = @ \ {s}, !.evaluations = @ \cup {}]
      BY <1>1, <2>1 DEF TypeOK, Working
    <3>2. {} \in SUBSET Evaluation
      OBVIOUS
    <3>3. \A e \in {} : e.speaker = s /\ e.rejected = (<<s, e.person>> \in rejections)
      OBVIOUS
    <3> QED  BY ONLY <3>1, <3>2, <3>3
  <2>2. ASSUME NEW p \in Comparable, NEW score \in 0..2,
               worker' = [worker EXCEPT
                  !.speakers = @ \ {s},
                  !.evaluations = @ \cup {[speaker |-> s, person |-> p, score |-> score,
                                           rejected |-> <<s, p>> \in rejections]}]
        PROVE  \E found \in SUBSET Evaluation :
                  /\ worker' = [worker EXCEPT !.speakers = @ \ {s}, !.evaluations = @ \cup found]
                  /\ \A e \in found : e.speaker = s
                                      /\ e.rejected = (<<s, e.person>> \in rejections)
    <3> DEFINE e == [speaker |-> s, person |-> p, score |-> score,
                     rejected |-> <<s, p>> \in rejections]
    <3>1. e \in Evaluation
      BY <1>3 DEF Evaluation, Comparable
    <3>2. e.speaker = s /\ e.person = p /\ e.rejected = (<<s, p>> \in rejections)
      OBVIOUS
    <3>3. worker' = [worker EXCEPT !.speakers = @ \ {s}, !.evaluations = @ \cup {e}]
      BY <2>2
    <3> HIDE DEF e
    <3>4. {e} \in SUBSET Evaluation
      BY <3>1
    <3>5. \A f \in {e} : f.speaker = s /\ f.rejected = (<<s, f.person>> \in rejections)
      BY <3>2
    <3> QED  BY <3>3, <3>4, <3>5
  <2> QED  BY <2>1, <2>2 DEF Score
<1>5. /\ worker' \in Working
      /\ worker'.pc = "score" /\ worker'.recording = worker.recording
      /\ worker'.candidates = worker.candidates
      /\ worker'.speakers = worker.speakers \ {s}
      /\ worker'.evaluations = worker.evaluations \cup found
  BY <1>1, <1>2, <1>4 DEF TypeOK, Working
<1>6. \A c \in Clip : Due(HomeOf(c)) => Due(HomeOf(c))'
  BY <1>2 DEF Due
<1>7. \A c \in Clip, p \in Person : ToEmbed(c, p) => ToEmbed(c, p)'
  BY <1>2, <1>6 DEF ToEmbed
<1>8. \A c \in Clip, p \in Person : ToRebuild(c, p) => ToRebuild(c, p)'
  BY <1>2, <1>6 DEF ToRebuild
<1>9. \A e \in worker'.evaluations :
          /\ Home[e.speaker] = Mine
          /\ <<e.speaker, e.person>> \in rejections => e.rejected
  BY <1>1, <1>3, <1>4, <1>5 DEF WorkerHolds, RejectionsRead
<1> QED
  BY <1>1, <1>2, <1>5, <1>7, <1>8, <1>9, WorkerOk DEF WorkerHolds, Mine

\* The revision changed: no evaluation counts.
LEMMA GiveUpOk == ASSUME ProfileInv, GiveUp PROVE ProfileInv'
<1>1. TypeOK /\ WorkerHolds
  BY DEF ProfileInv
<1>2. /\ UNCHANGED <<revision, stored, rendering, jobs, edits, failures>>
      /\ worker.pc = "score"
      /\ worker' = [worker EXCEPT !.speakers = {}, !.evaluations = {}]
  BY DEF GiveUp
<1>3. /\ worker' \in Working
      /\ worker'.pc = "score" /\ worker'.recording = worker.recording
      /\ worker'.candidates = worker.candidates
      /\ worker'.speakers = {} /\ worker'.evaluations = {}
  BY <1>1, <1>2 DEF TypeOK, Working
<1>4. \A c \in Clip : Due(HomeOf(c)) => Due(HomeOf(c))'
  BY <1>2 DEF Due
<1>5. \A c \in Clip, p \in Person : ToEmbed(c, p) => ToEmbed(c, p)'
  BY <1>2, <1>4 DEF ToEmbed
<1>6. \A c \in Clip, p \in Person : ToRebuild(c, p) => ToRebuild(c, p)'
  BY <1>2, <1>4 DEF ToRebuild
<1> QED
  BY <1>1, <1>2, <1>3, <1>5, <1>6, WorkerOk DEF WorkerHolds, Mine

\* A step of the job leaves room for the failures that are counted.
LEMMA FailOk == ASSUME ProfileInv, Fail PROVE ProfileInv'
<1>1. TypeOK
  BY DEF ProfileInv
<1>2. /\ UNCHANGED <<revision, stored, rendering, edits>>
      /\ worker.pc # "idle"
      /\ failures' = failures + 1 /\ edits + failures < MaxEvents
  BY DEF Fail, Room
<1>3. PICK status \in {"queued", "failed"} : Finish(status)
  BY DEF Fail
<1>4. edits' \in 0..MaxEvents /\ failures' \in 0..MaxEvents
  BY <1>1, <1>2, BoundsAssumption DEF TypeOK
<1> QED  BY <1>2, <1>3, <1>4, FinishOk

\* A crash forgets what the worker holds.
LEMMA CrashOk == ASSUME ProfileInv, Crash PROVE ProfileInv'
<1>1. TypeOK
  BY DEF ProfileInv
<1>2. /\ UNCHANGED <<revision, stored, rendering, edits>>
      /\ worker.pc # "idle"
      /\ failures' = failures + 1 /\ edits + failures < MaxEvents
      /\ Finish(Recovered)
  BY DEF Crash, Room
<1>3. Recovered \in {"queued", "failed"}
  BY DEF Recovered
<1>4. edits' \in 0..MaxEvents /\ failures' \in 0..MaxEvents
  BY <1>1, <1>2, BoundsAssumption DEF TypeOK
<1> QED  BY <1>2, <1>3, <1>4, FinishOk

\* Nothing is matched: the job is done.
LEMMA ApplyNothingOk == ASSUME ProfileInv, ApplyNothing PROVE ProfileInv'
<1>1. /\ UNCHANGED <<revision, stored, rendering, edits, failures>>
      /\ worker.pc = "score" /\ Finish("succeeded")
  BY DEF ApplyNothing
<1>2. edits' \in 0..MaxEvents /\ failures' \in 0..MaxEvents
  BY <1>1 DEF ProfileInv, TypeOK
<1> QED  BY <1>1, <1>2, FinishOk

\* The matches cannot be applied while a render job is active.
LEMMA ApplyConflictsOk == ASSUME ProfileInv, ApplyConflicts PROVE ProfileInv'
<1>1. /\ UNCHANGED <<revision, stored, rendering, edits, failures>>
      /\ worker.pc = "score" /\ Finish("failed")
  BY DEF ApplyConflicts
<1>2. edits' \in 0..MaxEvents /\ failures' \in 0..MaxEvents
  BY <1>1 DEF ProfileInv, TypeOK
<1> QED  BY <1>1, <1>2, FinishOk

\* Whom a speaker is matched with: an unresolved speaker of the job's
\* recording, somebody nobody there has and whom it was not rejected for.
LEMMA MatchesOk ==
    ASSUME TypeOK, WorkerHolds, NEW s \in Speaker, MatchOf(s) # {}
    PROVE  /\ (CHOOSE p \in MatchOf(s) : TRUE) \in Person
           /\ speakers[s].source = "unresolved" /\ Home[s] = Mine
           /\ \E e \in Winners : e.speaker = s /\ e.person = (CHOOSE p \in MatchOf(s) : TRUE)
<1> DEFINE p == CHOOSE q \in MatchOf(s) : TRUE
<1>1. p \in MatchOf(s)
  OBVIOUS
<1>2. PICK e \in Winners : e.speaker = s /\ e.person = p
  BY <1>1 DEF MatchOf
<1>3. e \in worker.evaluations /\ speakers[s].source = "unresolved"
  BY <1>2 DEF Winners, Confident
<1>4. e.person \in Person /\ Home[s] = Mine
  BY <1>2, <1>3 DEF TypeOK, Working, Evaluation, WorkerHolds
<1> QED  BY <1>2, <1>3, <1>4

\* The matches are applied in one transaction.
LEMMA ApplyOk == ASSUME ProfileInv, Apply PROVE ProfileInv'
<1>1. /\ TypeOK /\ AutoNamed /\ WorkerHolds /\ NotAhead /\ RowsFirst /\ ProfilesConfirmed
      /\ Embedded /\ Collected
  BY DEF ProfileInv
<1> DEFINE best == [s \in Speaker |-> CHOOSE p \in MatchOf(s) : TRUE]
<1>2. /\ worker.pc = "score" /\ ~Outdated
      /\ speakers' = [s \in Speaker |->
            IF MatchOf(s) = {} THEN speakers[s] ELSE Matched(best[s])]
      /\ segments' = [c \in Clip |->
            IF MatchOf(SpeakerOf[c]) = {} THEN segments[c] ELSE Matched(best[SpeakerOf[c]])]
      /\ revision' = [revision EXCEPT ![Mine] = @ + 1]
      /\ rendering' = rendering \cup {Mine}
      /\ Finish("succeeded")
      /\ UNCHANGED <<clips, embeddings, profiles, rejections, edits, failures>>
  BY ClipAssumption DEF Apply
<1>3. \A s \in Speaker : MatchOf(s) # {} =>
          best[s] \in Person /\ speakers[s].source = "unresolved" /\ Home[s] = Mine
  BY <1>1, MatchesOk
<1> HIDE DEF best
<1>4. \A s \in Speaker : MatchOf(s) # {} => Matched(best[s]) \in Assignment
  BY <1>3 DEF Matched, Assignment, Someone
<1>5. speakers' \in [Speaker -> Assignment] /\ segments' \in [Clip -> Assignment]
  BY <1>1, <1>2, <1>4, ClipAssumption DEF TypeOK
<1>6. /\ Mine \in Recording
      /\ jobs' = [jobs EXCEPT ![Mine].status = "succeeded"]
      /\ worker' = Idle
  BY <1>1, <1>2 DEF Finish, WorkerHolds
<1>7. /\ jobs' \in [Recording -> Job]
      /\ \A r \in Recording : jobs'[r].revision = jobs[r].revision
      /\ \A r \in Recording \ {Mine} : jobs'[r].status = jobs[r].status
  BY <1>1, <1>6 DEF TypeOK, Job
<1>8. /\ revision' \in [Recording -> Nat]
      /\ revision'[Mine] = revision[Mine] + 1
      /\ \A r \in Recording \ {Mine} : revision'[r] = revision[r]
  BY <1>1, <1>2, <1>6 DEF TypeOK
<1>9. TypeOK'
  BY <1>1, <1>2, <1>5, <1>6, <1>7, <1>8, IdleOk DEF TypeOK
<1>10. AutoNamed'
  BY <1>1, <1>2, <1>3 DEF AutoNamed, Matched
<1>11. WorkerHolds' /\ RejectionsRead' /\ RowsFirst'
  BY <1>1, <1>2, <1>6, IdleOk DEF WorkerHolds, RejectionsRead, RowsFirst
<1>12. NotAhead'
  BY <1>1, <1>6, <1>7, <1>8 DEF NotAhead, TypeOK, Job
\* A clip of a matched speaker was not confirmed, and is not now.
<1>13. ASSUME NEW c \in Clip, NEW p \in Person
       PROVE  Confirmed(c, p) <=> Confirmed(c, p)'
  <2>1. CASE MatchOf(SpeakerOf[c]) = {}
    BY <1>2, <2>1, ClipAssumption DEF Confirmed
  <2>2. CASE MatchOf(SpeakerOf[c]) # {}
    <3>1. speakers[SpeakerOf[c]].source = "unresolved"
      BY <1>3, <2>2, ClipAssumption
    <3>2. speakers'[SpeakerOf[c]].source = "auto"
      BY <1>2, <2>2, ClipAssumption DEF Matched
    <3> QED  BY <3>1, <3>2 DEF Confirmed, Manual
  <2> QED  BY <2>1, <2>2
<1>14. \A c \in Clip, p \in Person : c \in Samples(p) <=> c \in Samples(p)'
  BY <1>2, <1>13 DEF Samples
<1>15. ProfilesConfirmed'
  BY <1>1, <1>2, <1>14 DEF ProfilesConfirmed, TypeOK, Profile
<1>16. /\ \A r \in Recording : r = Mine => Due(r)'
       /\ \A r \in Recording : Due(r) => Due(r)'
  <2>1. jobs[Mine].revision = revision[Mine]
    BY <1>2 DEF Outdated, Mine
  <2>2. \A r \in Recording : r = Mine => jobs'[r].revision # revision'[r]
    BY <1>1, <1>6, <1>7, <1>8, <2>1 DEF TypeOK
  <2> QED  BY <1>7, <1>8, <2>2 DEF Due
<1>17. Embedded'
  BY <1>1, <1>2, <1>13, <1>14, <1>16, Homes DEF Embedded, ToEmbed
<1>18. Collected'
  BY <1>1, <1>2, <1>14, <1>16, Homes DEF Collected, ToRebuild
<1> QED
  BY <1>9, <1>10, <1>11, <1>12, <1>15, <1>17, <1>18 DEF ProfileInv

-----------------------------------------------------------------------------
(* The edits *)

\* A step that is not the job's: in the recording it changes, everything is
\* due again; elsewhere, no profile loses a sample and stays eligible.
LEMMA EditOk ==
    ASSUME ProfileInv, NEW r \in Recording,
           TypeOK', AutoNamed', NotAhead', RowsFirst', RejectionsRead', ProfilesConfirmed',
           UNCHANGED worker,
           jobs[r].status = "running" => jobs'[r].status = "running",
           Due(r)',
           \A q \in Recording \ {r} : jobs'[q] = jobs[q] /\ revision'[q] = revision[q],
           \A c \in Clip, p \in Person : HomeOf(c) # r =>
               /\ c \in clips <=> c \in clips'
               /\ Confirmed(c, p) <=> Confirmed(c, p)'
               /\ c \in Samples(p) <=> c \in Samples(p)'
               /\ c \in profiles[p].members /\ profiles'[p].status = "eligible"
                     => c \in profiles'[p].members,
           \A p \in Person :
               profiles'[p].status = "eligible" => profiles[p].status = "eligible"
    PROVE  ProfileInv'
<1>1. /\ TypeOK /\ WorkerHolds /\ Embedded /\ Collected
  BY DEF ProfileInv
<1>2. WorkerHolds'
  <2>1. Mine' = Mine
    BY DEF Mine
  <2>2. worker.pc # "idle" \/ worker.evaluations # {}
          => Mine \in Recording /\ jobs'[Mine].status = "running"
    BY <1>1 DEF WorkerHolds
  <2> QED  BY <1>1, <2>1, <2>2 DEF WorkerHolds
<1>3. \A q \in Recording : Due(q) => Due(q)'
  BY DEF Due
<1>4. \A c \in Clip : HomeOf(c) = r => Due(HomeOf(c))'
  BY DEF HomeOf
<1>5. Embedded'
  <2> SUFFICES ASSUME NEW c \in Clip, NEW p \in Person, c \in clips', Confirmed(c, p)'
               PROVE  c \in Samples(p)' \/ ToEmbed(c, p)'
    BY DEF Embedded
  <2>1. CASE HomeOf(c) = r  BY <1>4, <2>1 DEF ToEmbed
  <2>2. CASE HomeOf(c) # r
    <3>1. c \in Samples(p)' \/ ToEmbed(c, p)
      BY <1>1, <2>2 DEF Embedded
    <3> QED  BY <1>3, <3>1, Homes DEF ToEmbed, Mine, HomeOf
  <2> QED  BY <2>1, <2>2
<1>6. Collected'
  <2> SUFFICES ASSUME NEW c \in Clip, NEW p \in Person,
                      profiles'[p].status = "eligible", c \in Samples(p)'
               PROVE  c \in profiles'[p].members \/ ToRebuild(c, p)'
    BY DEF Collected
  <2>1. CASE HomeOf(c) = r  BY <1>4, <2>1 DEF ToRebuild
  <2>2. CASE HomeOf(c) # r
    <3>1. c \in profiles'[p].members \/ ToRebuild(c, p)
      BY <1>1, <2>2 DEF Collected
    <3> QED  BY <1>3, <3>1, Homes DEF ToRebuild, Mine, HomeOf
  <2> QED  BY <2>1, <2>2
<1> QED  BY <1>2, <1>5, <1>6 DEF ProfileInv

\* What a withdrawal of segments leaves in the embeddings and profiles.
LEMMA InvalidatedOk ==
    ASSUME ProfileInv, NEW withdrawn \in SUBSET Clip, Invalidated(withdrawn),
           \A c \in Clip \ withdrawn, p \in Person : Confirmed(c, p) <=> Confirmed(c, p)'
    PROVE  /\ embeddings' \in [Clip -> Embedding]
           /\ profiles' \in [Person -> Profile]
           /\ RowsFirst' /\ ProfilesConfirmed'
           /\ \A c \in Clip \ withdrawn, p \in Person :
                 /\ c \in Samples(p) <=> c \in Samples(p)'
                 /\ c \in profiles[p].members /\ profiles'[p].status = "eligible"
                       => c \in profiles'[p].members
           /\ \A p \in Person :
                 profiles'[p].status = "eligible" => profiles[p].status = "eligible"
<1>1. TypeOK /\ RowsFirst /\ ProfilesConfirmed
  BY DEF ProfileInv
<1> DEFINE active == {c \in withdrawn : embeddings[c].status = "active"}
           people == {embeddings[c].person : c \in active}
<1>2. /\ embeddings' = [c \in Clip |-> IF c \in active
                            THEN [embeddings[c] EXCEPT !.status = "invalidated"]
                            ELSE embeddings[c]]
      /\ profiles' = [p \in Person |->
             IF p \in people /\ profiles[p].status # "none"
             THEN [members |-> {}, status |-> "insufficient"]
             ELSE profiles[p]]
  BY DEF Invalidated
<1>3. \A c \in withdrawn : embeddings[c].status = "active" => embeddings[c].person \in people
  OBVIOUS
<1>4. active \subseteq withdrawn
  OBVIOUS
<1> HIDE DEF active, people
<1>5. /\ embeddings' \in [Clip -> Embedding]
      /\ \A c \in Clip \ withdrawn : embeddings'[c] = embeddings[c]
  <2>1. \A c \in Clip : [embeddings[c] EXCEPT !.status = "invalidated"] \in Embedding
    BY <1>1 DEF TypeOK, Embedding
  <2> QED  BY <1>1, <1>2, <1>4, <2>1 DEF TypeOK
<1>6. \A p \in Person : \/ profiles'[p] = profiles[p] /\ (p \notin people \/ profiles[p].status = "none")
                        \/ profiles'[p] = [members |-> {}, status |-> "insufficient"]
  BY <1>2
<1>7. profiles' \in [Person -> Profile]
  <2>1. [members |-> {}, status |-> "insufficient"] \in Profile
    BY DEF Profile
  <2> QED  BY <1>1, <1>2, <2>1 DEF TypeOK
<1>8. RowsFirst'
  BY <1>1, <1>6 DEF RowsFirst
<1>9. \A c \in Clip \ withdrawn, p \in Person : c \in Samples(p) <=> c \in Samples(p)'
  BY <1>5 DEF Samples
<1>10. ProfilesConfirmed'
  <2> SUFFICES ASSUME NEW p \in Person, NEW c \in profiles'[p].members
               PROVE  c \in Samples(p)'
    BY DEF ProfilesConfirmed
  <2>1. profiles'[p] = profiles[p] /\ p \notin people /\ c \in profiles[p].members
    BY <1>1, <1>6 DEF RowsFirst
  <2>2. c \in Samples(p) /\ c \in Clip
    BY <1>1, <2>1 DEF ProfilesConfirmed, Samples
  <2>3. embeddings[c].person = p /\ embeddings[c].status = "active"
    BY <2>2 DEF Samples
  <2>4. c \notin withdrawn
    BY <1>3, <2>1, <2>3
  <2> QED  BY <1>9, <2>2, <2>4
<1>11. \A p \in Person : profiles'[p].status = "eligible" => profiles'[p] = profiles[p]
  BY <1>6
<1> QED  BY <1>5, <1>7, <1>8, <1>9, <1>10, <1>11

\* A new revision of a recording that has none of its jobs running.
LEMMA NewRevisionOk ==
    ASSUME TypeOK, NotAhead, NEW r \in Recording, Room, NewRevision(r)
    PROVE  /\ revision' \in [Recording -> Nat]
           /\ revision'[r] = revision[r] + 1
           /\ \A q \in Recording \ {r} : revision'[q] = revision[q]
           /\ rendering' \subseteq Recording
           /\ edits' \in 0..MaxEvents /\ failures' \in 0..MaxEvents
           /\ clips' = clips /\ worker' = worker
  BY BoundsAssumption DEF TypeOK, NewRevision, Room

\* A finalize job that is inserted or redirected is for the present revision.
LEMMA EnqueuedOk ==
    ASSUME TypeOK, NotAhead, NEW r \in Recording, Enqueued(r),
           revision' = [revision EXCEPT ![r] = @ + 1]
    PROVE  /\ jobs' \in [Recording -> Job] /\ NotAhead' /\ Due(r)'
           /\ \A q \in Recording \ {r} : jobs'[q] = jobs[q]
<1>1. [status |-> "queued", revision |-> revision[r] + 1] \in Job
  BY DEF TypeOK, Job
<1>2. /\ jobs' = [jobs EXCEPT ![r] = [status |-> "queued", revision |-> revision[r] + 1]]
      /\ revision' \in [Recording -> Nat] /\ revision'[r] = revision[r] + 1
      /\ \A q \in Recording \ {r} : revision'[q] = revision[q]
  BY DEF TypeOK, Enqueued
<1>3. /\ jobs' \in [Recording -> Job]
      /\ jobs'[r].status = "queued" /\ jobs'[r].revision = revision[r] + 1
      /\ \A q \in Recording \ {r} : jobs'[q] = jobs[q]
  BY <1>1, <1>2 DEF TypeOK
<1>4. Due(r)'
  BY <1>3 DEF Due
<1>5. NotAhead'
  <2> SUFFICES ASSUME NEW q \in Recording PROVE jobs'[q].revision <= revision'[q]
    BY DEF NotAhead
  <2>1. CASE q = r  BY <1>2, <1>3, <2>1 DEF TypeOK
  <2>2. CASE q # r  BY <1>2, <1>3, <2>2 DEF NotAhead
  <2> QED  BY <2>1, <2>2
<1> QED  BY <1>3, <1>4, <1>5

\* A user assigns a speaker, or takes the person away.
LEMMA AssignSpeakerOk ==
    ASSUME ProfileInv, NEW s \in Speaker, NEW p \in Someone, AssignSpeaker(s, p)
    PROVE  ProfileInv'
<1>1. /\ TypeOK /\ AutoNamed /\ WorkerHolds /\ NotAhead /\ RejectionsRead
  BY DEF ProfileInv
<1> DEFINE r == Home[s]
<1>2. r \in Recording
  BY HomeAssumption
<1>3. /\ Room /\ jobs[r].status # "running"
      /\ rejections' = IF speakers[s].source = "auto" /\ speakers[s].person # p
                       THEN rejections \cup {<<s, speakers[s].person>>}
                       ELSE rejections
      /\ Invalidated(ClipsOf(s))
      /\ speakers' = [speakers EXCEPT ![s] = Manual(p)]
      /\ segments' = [c \in Clip |-> IF SpeakerOf[c] = s THEN Manual(p) ELSE segments[c]]
      /\ Enqueued(r) /\ NewRevision(r)
  BY DEF AssignSpeaker, Asked, SpeakersFree
<1>4. \A c \in ClipsOf(s) : HomeOf(c) = r
  BY DEF ClipsOf, HomeOf
<1> HIDE DEF r
<1>5. Manual(p) \in Assignment /\ Manual(p).source = "manual"
  BY DEF Manual, Assignment
<1>6. /\ speakers' \in [Speaker -> Assignment] /\ segments' \in [Clip -> Assignment]
      /\ \A t \in Speaker \ {s} : speakers'[t] = speakers[t]
      /\ speakers'[s].source = "manual"
  BY <1>1, <1>3, <1>5 DEF TypeOK
<1>7. /\ rejections' \subseteq Speaker \X Person
      /\ \A x \in rejections' \ rejections : x[1] = s
  BY <1>1, <1>3 DEF TypeOK, AutoNamed
<1>8. /\ revision' \in [Recording -> Nat]
      /\ \A q \in Recording \ {r} : revision'[q] = revision[q]
      /\ rendering' \subseteq Recording
      /\ edits' \in 0..MaxEvents /\ failures' \in 0..MaxEvents
      /\ clips' = clips /\ worker' = worker
  BY <1>1, <1>2, <1>3, NewRevisionOk
<1>9. /\ jobs' \in [Recording -> Job] /\ NotAhead' /\ Due(r)'
      /\ \A q \in Recording \ {r} : jobs'[q] = jobs[q]
  BY <1>1, <1>2, <1>3, EnqueuedOk DEF NewRevision
<1>10. \A c \in Clip \ ClipsOf(s), q \in Person : Confirmed(c, q) <=> Confirmed(c, q)'
  BY <1>1, <1>3, <1>6, Homes DEF Confirmed, ClipsOf
<1>11. ClipsOf(s) \in SUBSET Clip
  BY DEF ClipsOf
<1>12. /\ embeddings' \in [Clip -> Embedding]
       /\ profiles' \in [Person -> Profile]
       /\ RowsFirst' /\ ProfilesConfirmed'
       /\ \A c \in Clip \ ClipsOf(s), q \in Person :
             /\ c \in Samples(q) <=> c \in Samples(q)'
             /\ c \in profiles[q].members /\ profiles'[q].status = "eligible"
                   => c \in profiles'[q].members
       /\ \A q \in Person :
             profiles'[q].status = "eligible" => profiles[q].status = "eligible"
  BY <1>3, <1>10, <1>11, InvalidatedOk
<1>13. TypeOK'
  BY <1>1, <1>6, <1>7, <1>8, <1>9, <1>12 DEF TypeOK
<1>14. AutoNamed'
  BY <1>1, <1>6 DEF AutoNamed
\* The evaluations are of a recording whose job runs: not of this one.
<1>15. RejectionsRead'
  <2> SUFFICES ASSUME NEW e \in worker.evaluations, <<e.speaker, e.person>> \in rejections'
               PROVE  e.rejected
    BY <1>8 DEF RejectionsRead
  <2>1. Home[e.speaker] # r
    BY <1>1, <1>3 DEF WorkerHolds
  <2>2. e.speaker # s
    BY <2>1 DEF r
  <2> QED  BY <1>1, <1>7, <2>2 DEF RejectionsRead
<1> QED
  BY <1>2, <1>3, <1>4, <1>8, <1>9, <1>10, <1>12, <1>13, <1>14, <1>15, EditOk

\* A user assigns segments, which moves clips between persons.
LEMMA AssignSegmentsOk ==
    ASSUME ProfileInv, NEW c0 \in Clip, NEW p \in Someone, AssignSegments(HomeOf(c0), {c0}, p)
    PROVE  ProfileInv'
<1>1. /\ TypeOK /\ AutoNamed /\ WorkerHolds /\ NotAhead /\ RejectionsRead
  BY DEF ProfileInv
<1> DEFINE r == HomeOf(c0)
<1>2. r \in Recording
  BY Homes
<1>3. /\ Room /\ jobs[r].status # "running"
      /\ Invalidated({c0})
      /\ segments' = [c \in Clip |-> IF c \in {c0} THEN Manual(p) ELSE segments[c]]
      /\ Enqueued(r) /\ NewRevision(r)
      /\ UNCHANGED <<speakers, rejections>>
  BY DEF AssignSegments, Asked, SpeakersFree
<1>4. Manual(p) \in Assignment
  BY DEF Manual, Assignment
<1>5. segments' \in [Clip -> Assignment]
  BY <1>1, <1>3, <1>4 DEF TypeOK
<1>6. \A c \in Clip \ {c0} : HomeOf(c) # r => c \notin {c0}
  OBVIOUS
<1> HIDE DEF r
<1>7. /\ revision' \in [Recording -> Nat]
      /\ \A q \in Recording \ {r} : revision'[q] = revision[q]
      /\ rendering' \subseteq Recording
      /\ edits' \in 0..MaxEvents /\ failures' \in 0..MaxEvents
      /\ clips' = clips /\ worker' = worker
  BY <1>1, <1>2, <1>3, NewRevisionOk
<1>8. /\ jobs' \in [Recording -> Job] /\ NotAhead' /\ Due(r)'
      /\ \A q \in Recording \ {r} : jobs'[q] = jobs[q]
  BY <1>1, <1>2, <1>3, EnqueuedOk DEF NewRevision
<1>9. \A c \in Clip \ {c0}, q \in Person : Confirmed(c, q) <=> Confirmed(c, q)'
  BY <1>3 DEF Confirmed
<1>10. /\ embeddings' \in [Clip -> Embedding]
       /\ profiles' \in [Person -> Profile]
       /\ RowsFirst' /\ ProfilesConfirmed'
       /\ \A c \in Clip \ {c0}, q \in Person :
             /\ c \in Samples(q) <=> c \in Samples(q)'
             /\ c \in profiles[q].members /\ profiles'[q].status = "eligible"
                   => c \in profiles'[q].members
       /\ \A q \in Person :
             profiles'[q].status = "eligible" => profiles[q].status = "eligible"
  BY <1>3, <1>9, InvalidatedOk
<1>11. TypeOK'
  BY <1>1, <1>3, <1>5, <1>7, <1>8, <1>10 DEF TypeOK
<1>12. AutoNamed' /\ RejectionsRead'
  BY <1>1, <1>3, <1>7 DEF AutoNamed, RejectionsRead
<1>13. \A c \in Clip : HomeOf(c) # r => c \in Clip \ {c0}
  BY DEF r
<1> QED
  BY <1>2, <1>3, <1>7, <1>8, <1>9, <1>10, <1>11, <1>12, <1>13, EditOk

\* Another edit makes a revision.
LEMMA EditOtherOk == ASSUME ProfileInv, NEW r \in Recording, EditOther(r) PROVE ProfileInv'
<1>1. /\ TypeOK /\ AutoNamed /\ WorkerHolds /\ NotAhead /\ RowsFirst /\ RejectionsRead
      /\ ProfilesConfirmed
  BY DEF ProfileInv
<1>2. /\ Room /\ NewRevision(r)
      /\ UNCHANGED <<speakers, segments, embeddings, profiles, rejections, jobs>>
  BY DEF EditOther, Asked
<1>3. /\ revision' \in [Recording -> Nat]
      /\ revision'[r] = revision[r] + 1
      /\ \A q \in Recording \ {r} : revision'[q] = revision[q]
      /\ rendering' \subseteq Recording
      /\ edits' \in 0..MaxEvents /\ failures' \in 0..MaxEvents
      /\ clips' = clips /\ worker' = worker
  BY <1>1, <1>2, NewRevisionOk
<1>4. TypeOK'
  BY <1>1, <1>2, <1>3 DEF TypeOK
<1>5. AutoNamed' /\ RowsFirst' /\ RejectionsRead'
  BY <1>1, <1>2, <1>3 DEF AutoNamed, RowsFirst, RejectionsRead
<1>6. revision[r] \in Nat /\ jobs[r].revision \in Nat /\ jobs[r].revision <= revision[r]
  BY <1>1 DEF TypeOK, Job, NotAhead
<1>7. NotAhead'
  <2> SUFFICES ASSUME NEW q \in Recording PROVE jobs'[q].revision <= revision'[q]
    BY DEF NotAhead
  <2>1. CASE q = r  BY <1>2, <1>3, <1>6, <2>1
  <2>2. CASE q # r  BY <1>1, <1>2, <1>3, <2>2 DEF NotAhead
  <2> QED  BY <2>1, <2>2
<1>8. Due(r)'
  <2>1. jobs'[r].revision # revision'[r]
    BY <1>2, <1>3, <1>6
  <2> QED  BY <2>1 DEF Due
<1>9. \A c \in Clip, p \in Person :
          /\ Confirmed(c, p) <=> Confirmed(c, p)'
          /\ c \in Samples(p) <=> c \in Samples(p)'
  BY <1>2 DEF Confirmed, Samples
<1>10. ProfilesConfirmed'
  BY <1>1, <1>2, <1>9 DEF ProfilesConfirmed, TypeOK, Profile
<1> QED
  BY <1>2, <1>3, <1>4, <1>5, <1>7, <1>8, <1>9, <1>10, EditOk

\* A retranscription starts over with new speakers.
LEMMA RetranscribeOk == ASSUME ProfileInv, NEW r \in Recording, Retranscribe(r) PROVE ProfileInv'
<1>1. /\ TypeOK /\ AutoNamed /\ WorkerHolds /\ NotAhead /\ RowsFirst /\ RejectionsRead
      /\ ProfilesConfirmed
  BY DEF ProfileInv
<1>2. /\ Room
      /\ jobs[r].status # "running"
      /\ revision' = [revision EXCEPT ![r] = @ + 1]
      /\ speakers' = [s \in Speaker |-> IF Home[s] = r THEN Unresolved ELSE speakers[s]]
      /\ segments' = [c \in Clip |-> IF c \in ClipsIn(r) THEN Unresolved ELSE segments[c]]
      /\ embeddings' = [c \in Clip |-> IF c \in ClipsIn(r) THEN NoEmbedding ELSE embeddings[c]]
      /\ profiles' = [p \in Person |-> [profiles[p] EXCEPT !.members = @ \ ClipsIn(r)]]
      /\ rejections' = rejections
      /\ Enqueued(r)
      /\ edits' = edits + 1
      /\ UNCHANGED <<rendering, worker, failures>>
  BY DEF Retranscribe, Asked, Forgotten
<1>3. PICK made \in {ClipsIn(r), {}} : clips' = (clips \ ClipsIn(r)) \cup made
  BY DEF Retranscribe
<1>4. \A c \in Clip : HomeOf(c) = r <=> c \in ClipsIn(r)
  BY DEF HomeOf, ClipsIn
<1>5. ClipsIn(r) \subseteq Clip
  BY DEF ClipsIn
<1>6. /\ Unresolved \in Assignment /\ Unresolved.source = "unresolved"
      /\ NoEmbedding \in Embedding
  BY DEF Unresolved, Assignment, NoEmbedding, Embedding, Someone
<1>7. /\ profiles' \in [Person -> Profile]
      /\ \A p \in Person : /\ profiles'[p].status = profiles[p].status
                           /\ profiles'[p].members = profiles[p].members \ ClipsIn(r)
  BY <1>1, <1>2 DEF TypeOK, Profile
<1>8. /\ speakers' \in [Speaker -> Assignment] /\ segments' \in [Clip -> Assignment]
      /\ embeddings' \in [Clip -> Embedding] /\ clips' \subseteq Clip
      /\ revision' \in [Recording -> Nat]
      /\ \A q \in Recording \ {r} : revision'[q] = revision[q]
      /\ edits' \in 0..MaxEvents
  BY <1>1, <1>2, <1>3, <1>5, <1>6, BoundsAssumption DEF TypeOK, Room
<1>9. /\ jobs' \in [Recording -> Job] /\ NotAhead' /\ Due(r)'
      /\ \A q \in Recording \ {r} : jobs'[q] = jobs[q]
  BY <1>1, <1>2, EnqueuedOk
<1>10. TypeOK'
  BY <1>1, <1>2, <1>7, <1>8, <1>9 DEF TypeOK
<1>11. AutoNamed' /\ RowsFirst' /\ RejectionsRead'
  BY <1>1, <1>2, <1>6, <1>7 DEF AutoNamed, RowsFirst, RejectionsRead
<1>12. \A c \in Clip, p \in Person : HomeOf(c) # r =>
          /\ c \in clips <=> c \in clips'
          /\ Confirmed(c, p) <=> Confirmed(c, p)'
          /\ c \in Samples(p) <=> c \in Samples(p)'
          /\ c \in profiles[p].members => c \in profiles'[p].members
  <2> SUFFICES ASSUME NEW c \in Clip, NEW p \in Person, HomeOf(c) # r
               PROVE  /\ c \in clips <=> c \in clips'
                      /\ Confirmed(c, p) <=> Confirmed(c, p)'
                      /\ c \in Samples(p) <=> c \in Samples(p)'
                      /\ c \in profiles[p].members => c \in profiles'[p].members
    OBVIOUS
  <2>1. c \notin ClipsIn(r)
    BY <1>4
  <2>2. /\ embeddings'[c] = embeddings[c] /\ segments'[c] = segments[c]
        /\ speakers'[SpeakerOf[c]] = speakers[SpeakerOf[c]]
    BY <1>2, <2>1, Homes DEF HomeOf
  <2> QED  BY <1>3, <1>7, <2>1, <2>2 DEF Confirmed, Samples
<1>13. ProfilesConfirmed'
  <2> SUFFICES ASSUME NEW p \in Person, NEW c \in profiles'[p].members
               PROVE  c \in Samples(p)'
    BY DEF ProfilesConfirmed
  <2>1. c \in profiles[p].members /\ c \notin ClipsIn(r)
    BY <1>7
  <2>2. c \in Samples(p) /\ c \in Clip
    BY <1>1, <2>1 DEF ProfilesConfirmed, Samples
  <2> QED  BY <1>4, <1>12, <2>1, <2>2
<1> QED
  BY <1>2, <1>7, <1>8, <1>9, <1>10, <1>11, <1>12, <1>13, EditOk

\* The documents of an edit are made.
LEMMA RenderOk == ASSUME ProfileInv, NEW r \in Recording, Render(r) PROVE ProfileInv'
<1>1. /\ TypeOK /\ AutoNamed /\ WorkerHolds /\ NotAhead /\ RowsFirst /\ RejectionsRead
      /\ ProfilesConfirmed /\ Embedded /\ Collected
  BY DEF ProfileInv
<1>2. /\ rendering' = rendering \ {r}
      /\ UNCHANGED <<revision, stored, jobs, worker, edits, failures>>
  BY DEF Render
<1>3. TypeOK' /\ AutoNamed' /\ WorkerHolds' /\ NotAhead' /\ RowsFirst' /\ RejectionsRead'
  BY <1>1, <1>2
     DEF TypeOK, AutoNamed, WorkerHolds, NotAhead, RowsFirst, RejectionsRead, Mine, stored
<1>4. \A c \in Clip, p \in Person :
          /\ Confirmed(c, p) <=> Confirmed(c, p)'
          /\ c \in Samples(p) <=> c \in Samples(p)'
          /\ ToEmbed(c, p) <=> ToEmbed(c, p)'
          /\ ToRebuild(c, p) <=> ToRebuild(c, p)'
  BY <1>2 DEF Confirmed, Samples, ToEmbed, ToRebuild, Due, Mine, stored
<1>5. ProfilesConfirmed'
  BY <1>1, <1>2, <1>4 DEF ProfilesConfirmed, TypeOK, Profile, stored
<1>6. Embedded' /\ Collected'
  BY <1>1, <1>2, <1>4 DEF Embedded, Collected, stored
<1> QED  BY <1>3, <1>5, <1>6 DEF ProfileInv

\* A failed job is retried.
LEMMA RetryOk == ASSUME ProfileInv, NEW r \in Recording, Retry(r) PROVE ProfileInv'
<1>1. /\ TypeOK /\ AutoNamed /\ WorkerHolds /\ NotAhead /\ RowsFirst /\ RejectionsRead
      /\ ProfilesConfirmed
  BY DEF ProfileInv
<1>2. /\ jobs[r] = [status |-> "failed", revision |-> revision[r]]
      /\ jobs' = [jobs EXCEPT ![r].status = "queued"]
      /\ UNCHANGED <<revision, stored, rendering, worker, edits, failures>>
  BY DEF Retry
<1>3. /\ jobs' \in [Recording -> Job]
      /\ jobs'[r].status = "queued" /\ jobs'[r].revision = jobs[r].revision
      /\ \A q \in Recording \ {r} : jobs'[q] = jobs[q]
  BY <1>1, <1>2 DEF TypeOK, Job
<1>4. TypeOK' /\ AutoNamed' /\ NotAhead' /\ RowsFirst' /\ RejectionsRead'
  BY <1>1, <1>2, <1>3
     DEF TypeOK, AutoNamed, NotAhead, RowsFirst, RejectionsRead, stored
<1>5. \A c \in Clip, p \in Person :
          /\ Confirmed(c, p) <=> Confirmed(c, p)'
          /\ c \in Samples(p) <=> c \in Samples(p)'
  BY <1>2 DEF Confirmed, Samples, stored
<1>6. ProfilesConfirmed'
  BY <1>1, <1>2, <1>5 DEF ProfilesConfirmed, TypeOK, Profile, stored
<1>7. Due(r)' /\ jobs[r].status # "running"
  BY <1>2, <1>3 DEF Due
<1>8. /\ worker' = worker /\ clips' = clips /\ profiles' = profiles
      /\ \A q \in Recording \ {r} : jobs'[q] = jobs[q] /\ revision'[q] = revision[q]
  BY <1>2, <1>3 DEF stored
<1> QED
  BY <1>4, <1>5, <1>6, <1>7, <1>8, EditOk

-----------------------------------------------------------------------------
(* The invariant *)

\* The invariant holds initially,
LEMMA InitOk == Init => ProfileInv
<1> SUFFICES ASSUME Init PROVE ProfileInv
  OBVIOUS
<1>1. TypeOK
  BY IdleOk, BoundsAssumption
     DEF Init, TypeOK, Unresolved, Assignment, NoEmbedding, Embedding, Someone, Profile, Job
<1>2. AutoNamed /\ NotAhead /\ RowsFirst
  BY DEF Init, AutoNamed, NotAhead, RowsFirst, Unresolved
<1>3. WorkerHolds /\ RejectionsRead
  BY IdleOk DEF Init, WorkerHolds, RejectionsRead
<1>4. ProfilesConfirmed
  BY DEF Init, ProfilesConfirmed
<1>5. Embedded /\ Collected
  BY Homes DEF Init, Embedded, Collected, ToEmbed, Due
<1> QED  BY <1>1, <1>2, <1>3, <1>4, <1>5 DEF ProfileInv

\* .. in a step that changes nothing,
LEMMA StutterOk == ASSUME ProfileInv, UNCHANGED vars PROVE ProfileInv'
<1>1. /\ TypeOK /\ AutoNamed /\ WorkerHolds /\ NotAhead /\ RowsFirst /\ RejectionsRead
      /\ ProfilesConfirmed /\ Embedded /\ Collected
  BY DEF ProfileInv
<1>2. TypeOK' /\ AutoNamed' /\ WorkerHolds' /\ NotAhead' /\ RowsFirst' /\ RejectionsRead'
  BY <1>1
     DEF vars, stored, TypeOK, AutoNamed, WorkerHolds, NotAhead, RowsFirst, RejectionsRead, Mine
<1>3. \A c \in Clip, p \in Person :
          /\ Confirmed(c, p) <=> Confirmed(c, p)'
          /\ c \in Samples(p) <=> c \in Samples(p)'
          /\ ToEmbed(c, p) <=> ToEmbed(c, p)'
          /\ ToRebuild(c, p) <=> ToRebuild(c, p)'
  BY DEF Confirmed, Samples, ToEmbed, ToRebuild, Due, Mine, vars, stored
<1>4. ProfilesConfirmed'
  BY <1>1, <1>3 DEF ProfilesConfirmed, TypeOK, Profile, vars, stored
<1>5. Embedded' /\ Collected'
  BY <1>1, <1>3 DEF Embedded, Collected, vars, stored
<1> QED  BY <1>2, <1>4, <1>5 DEF ProfileInv

\* .. and in every step.
LEMMA NextOk == ProfileInv /\ [Next]_vars => ProfileInv'
<1> SUFFICES ASSUME ProfileInv, [Next]_vars PROVE ProfileInv'
  OBVIOUS
<1>1. CASE Edit
  <2>1. ASSUME NEW s \in Speaker, NEW p \in Someone, AssignSpeaker(s, p) PROVE ProfileInv'
    BY <2>1, AssignSpeakerOk
  <2>2. ASSUME NEW c \in Clip, NEW p \in Someone, AssignSegments(Home[SpeakerOf[c]], {c}, p)
        PROVE  ProfileInv'
    BY <2>2, AssignSegmentsOk DEF HomeOf
  <2>3. ASSUME NEW r \in Recording, EditOther(r) PROVE ProfileInv'
    BY <2>3, EditOtherOk
  <2> QED  BY <1>1, <2>1, <2>2, <2>3 DEF Edit
<1>2. ASSUME NEW r \in Recording, Retranscribe(r) \/ Render(r) \/ Retry(r) PROVE ProfileInv'
  BY <1>2, RetranscribeOk, RenderOk, RetryOk
<1>3. CASE Work
  <2>1. ASSUME NEW r \in Recording, Claim(r) PROVE ProfileInv'
    BY <2>1, ClaimOk
  <2>2. ASSUME NEW x \in worker.candidates, Embed(x) PROVE ProfileInv'
    BY <2>2, EmbedOk
  <2>3. ASSUME NEW p \in worker.people, Rebuild(p) PROVE ProfileInv'
    BY <2>3, RebuildOk
  <2>4. ASSUME NEW s \in worker.speakers, Score(s) PROVE ProfileInv'
    BY <2>4, ScoreOk
  <2>5. CASE Begin  BY <2>5, BeginOk
  <2>6. CASE Collect  BY <2>6, CollectOk
  <2>7. CASE Survey  BY <2>7, SurveyOk
  <2>8. CASE GiveUp  BY <2>8, GiveUpOk
  <2>9. CASE Apply  BY <2>9, ApplyOk
  <2>10. CASE ApplyNothing  BY <2>10, ApplyNothingOk
  <2>11. CASE ApplyConflicts  BY <2>11, ApplyConflictsOk
  <2> QED
    BY <1>3, <2>1, <2>2, <2>3, <2>4, <2>5, <2>6, <2>7, <2>8, <2>9, <2>10, <2>11 DEF Work
<1>4. CASE Fail  BY <1>4, FailOk
<1>5. CASE Crash  BY <1>5, CrashOk
<1>6. CASE UNCHANGED vars  BY <1>6, StutterOk
<1> QED  BY <1>1, <1>2, <1>3, <1>4, <1>5, <1>6 DEF Next

\* In every reachable state: the types, the worker's knowledge, and for every
\* confirmed clip and every sample where its way into the profile stands.
THEOREM ProfileInvariant == Spec => []ProfileInv
  BY InitOk, NextOk, PTL DEF Spec

-----------------------------------------------------------------------------
(* The properties *)

\* The tables and the worker hold values of their types.
THEOREM ProfileTypes == Spec => []TypeOK
<1>1. ProfileInv => TypeOK
  BY DEF ProfileInv
<1> QED  BY <1>1, ProfileInvariant, PTL

\* No profile contains a voice the user has withdrawn, whatever the job that
\* builds it was doing at that moment.
THEOREM MembersConfirmed == Spec => []ProfilesConfirmed
<1>1. ProfileInv => ProfilesConfirmed
  BY DEF ProfileInv
<1> QED  BY <1>1, ProfileInvariant, PTL

\* When no job is left, the invariant leaves no sample out.
LEMMA CompleteWhenDone == ProfileInv => SamplesComplete
<1> SUFFICES ASSUME ProfileInv, \A r \in Recording : Done(r)
             PROVE  /\ \A c \in clips, p \in Person : Confirmed(c, p) => c \in Samples(p)
                    /\ \A p \in Person : profiles[p].status = "eligible"
                                            => profiles[p].members = Samples(p)
  BY DEF SamplesComplete
<1>1. TypeOK /\ WorkerHolds /\ Embedded /\ Collected /\ ProfilesConfirmed
  BY DEF ProfileInv
<1>2. ASSUME NEW r \in Recording PROVE ~Due(r) /\ jobs[r].status # "running"
  <2>1. jobs[r] = [status |-> "succeeded", revision |-> revision[r]]
    BY DEF Done
  <2>2. jobs[r].status = "succeeded" /\ jobs[r].revision = revision[r]
    BY <2>1
  <2> QED  BY <2>2 DEF Due
<1>3. worker.pc = "idle"
  BY <1>1, <1>2 DEF WorkerHolds
<1>4. \A c \in Clip, p \in Person : ~ToEmbed(c, p) /\ ~ToRebuild(c, p)
  BY <1>2, <1>3, Homes DEF ToEmbed, ToRebuild
<1>5. ASSUME NEW c \in clips, NEW p \in Person, Confirmed(c, p) PROVE c \in Samples(p)
  BY <1>1, <1>4, <1>5 DEF Embedded, TypeOK
<1>6. ASSUME NEW p \in Person, profiles[p].status = "eligible"
      PROVE  profiles[p].members = Samples(p)
  <2>1. profiles[p].members \subseteq Samples(p)
    BY <1>1 DEF ProfilesConfirmed
  <2>2. Samples(p) \subseteq Clip
    BY DEF Samples
  <2>3. Samples(p) \subseteq profiles[p].members
    BY <1>1, <1>4, <1>6, <2>2 DEF Collected
  <2> QED  BY <2>1, <2>3
<1> QED  BY <1>5, <1>6

\* When the speakers' jobs of all recordings are done, every clip the user has
\* confirmed is a sample and every eligible profile is complete, whatever was
\* edited, failed, crashed or ran twice before.
THEOREM NothingLeftOut == Spec => []SamplesComplete
  BY CompleteWhenDone, ProfileInvariant, PTL

\* Who changes a speaker: the user, a retranscription or the matching.
LEMMA SpeakerChanges ==
    ASSUME [Next]_vars
    PROVE  \/ Apply
           \/ \E s \in Speaker, p \in Someone : AssignSpeaker(s, p)
           \/ \E r \in Recording : Retranscribe(r)
           \/ UNCHANGED <<speakers, rejections>>
<1>1. CASE Edit
  BY <1>1 DEF Edit, AssignSegments, EditOther
<1>2. ASSUME NEW r \in Recording, Retranscribe(r) \/ Render(r) \/ Retry(r)
      PROVE  Retranscribe(r) \/ UNCHANGED <<speakers, rejections>>
  BY <1>2 DEF Render, Retry, stored
<1>3. CASE Work
  BY <1>3 DEF Work, Claim, Begin, Embed, Collect, Rebuild, Survey, Score, GiveUp, ApplyNothing,
              ApplyConflicts, stored
<1>4. CASE Fail \/ Crash
  BY <1>4 DEF Fail, Crash, stored
<1>5. CASE UNCHANGED vars
  BY <1>5 DEF vars, stored
<1> QED  BY <1>1, <1>2, <1>3, <1>4, <1>5 DEF Next

\* A speaker is matched by Apply only, with the person of a winner.
LEMMA RematchedByWinner ==
    ASSUME ProfileInv, [Next]_vars, NEW s \in Speaker, Rematched(s)
    PROVE  /\ Apply
           /\ \E e \in Winners : e.speaker = s /\ e.person = speakers'[s].person
<1>1. TypeOK /\ WorkerHolds
  BY DEF ProfileInv
<1>2. ASSUME NEW t \in Speaker, NEW p \in Someone, AssignSpeaker(t, p) PROVE ~Rematched(s)
  BY <1>1, <1>2 DEF AssignSpeaker, Rematched, TypeOK, Manual
<1>3. ASSUME NEW r \in Recording, Retranscribe(r) PROVE ~Rematched(s)
  BY <1>3 DEF Retranscribe, Rematched, Unresolved
<1>4. Apply
  BY <1>2, <1>3, SpeakerChanges DEF Rematched
<1>5. speakers'[s] = IF MatchOf(s) = {} THEN speakers[s]
                     ELSE Matched(CHOOSE p \in MatchOf(s) : TRUE)
  BY <1>4 DEF Apply
<1>6. MatchOf(s) # {}
  BY <1>5 DEF Rematched
<1>7. speakers'[s].person = (CHOOSE p \in MatchOf(s) : TRUE)
  BY <1>5, <1>6 DEF Matched
<1> QED  BY <1>1, <1>4, <1>6, <1>7, MatchesOk

\* A match that is applied gives no person to two speakers.
LEMMA MatchedAlone ==
    ASSUME ProfileInv, [Next]_vars, NEW s \in Speaker, NEW t \in Speaker,
           Rematched(s), s # t, Home[s] = Home[t]
    PROVE  speakers'[t].person # speakers'[s].person
<1>1. TypeOK /\ WorkerHolds
  BY DEF ProfileInv
<1>2. PICK e \in Winners : e.speaker = s /\ e.person = speakers'[s].person
  BY RematchedByWinner
<1>3. /\ e \in worker.evaluations /\ e.person \notin Held(Mine)
      /\ e \in Confident
      /\ e \in Evaluation
  BY <1>1, <1>2 DEF Winners, Confident, TypeOK, Working
<1>4. e.person \in Person /\ Home[t] = Mine
  BY <1>1, <1>2, <1>3 DEF WorkerHolds, Evaluation
<1>5. CASE Rematched(t)
  <2>1. PICK f \in Winners : f.speaker = t /\ f.person = speakers'[t].person
    BY <1>5, RematchedByWinner
  <2>2. f # e /\ f \in Confident /\ f \in Evaluation
    BY <1>1, <1>2, <2>1 DEF Winners, Confident, TypeOK, Working
  <2>3. f.person = e.person => f.score < e.score /\ e.score < f.score
    BY <1>2, <1>3, <2>1, <2>2 DEF Winners
  <2>4. f.person # e.person
    BY <1>3, <2>2, <2>3 DEF Evaluation
  <2> QED  BY <1>2, <2>1, <2>4
<1>6. CASE ~Rematched(t)
  <2>1. Apply
    BY RematchedByWinner
  <2>2. speakers'[t] = IF MatchOf(t) = {} THEN speakers[t]
                       ELSE Matched(CHOOSE p \in MatchOf(t) : TRUE)
    BY <2>1 DEF Apply
  <2>3. speakers'[t] = speakers[t]
    BY <1>6, <2>2 DEF Rematched, Matched
  <2>4. speakers[t].person \in Held(Mine) \cup {None}
    BY <1>4 DEF Held, SpeakersOf
  <2> QED  BY <1>2, <1>3, <1>4, <2>3, <2>4, PersonAssumption
<1> QED  BY <1>5, <1>6

\* Two speakers of one recording are never given the same person by a match,
\* nor one speaker the person another already has.
THEOREM MatchedApart == Spec => OneSpeakerPerPerson
<1>1. ASSUME ProfileInv, [Next]_vars
      PROVE  [\A s, t \in Speaker : Rematched(s) /\ s # t /\ Home[s] = Home[t]
                 => speakers'[t].person # speakers'[s].person]_vars
  BY <1>1, MatchedAlone
<1> QED  BY <1>1, ProfileInvariant, PTL DEF Spec, OneSpeakerPerPerson

\* A rejected match is not applied again.
LEMMA RejectionStays ==
    ASSUME ProfileInv, [Next]_vars
    PROVE  /\ rejections \subseteq rejections'
           /\ \A s \in Speaker :
                 /\ Rematched(s) => <<s, speakers'[s].person>> \notin rejections
                 /\ speakers[s].source = "auto" /\ speakers'[s].source = "manual"
                       => \/ speakers'[s].person = speakers[s].person
                          \/ <<s, speakers[s].person>> \in rejections'
<1>1. TypeOK /\ RejectionsRead
  BY DEF ProfileInv
<1>2. rejections \subseteq rejections'
  BY SpeakerChanges DEF Apply, AssignSpeaker, Retranscribe, Forgotten
<1>3. ASSUME NEW s \in Speaker, Rematched(s)
      PROVE  <<s, speakers'[s].person>> \notin rejections
  <2>1. PICK e \in Winners : e.speaker = s /\ e.person = speakers'[s].person
    BY <1>3, RematchedByWinner
  <2>2. e \in worker.evaluations /\ ~e.rejected
    BY <2>1 DEF Winners, Confident
  <2> QED  BY <1>1, <2>1, <2>2 DEF RejectionsRead
<1>4. ASSUME NEW s \in Speaker, speakers[s].source = "auto", speakers'[s].source = "manual"
      PROVE  \/ speakers'[s].person = speakers[s].person
             \/ <<s, speakers[s].person>> \in rejections'
  <2>1. CASE Apply
    <3>1. speakers'[s] = IF MatchOf(s) = {} THEN speakers[s]
                         ELSE Matched(CHOOSE p \in MatchOf(s) : TRUE)
      BY <2>1 DEF Apply
    <3> QED  BY <1>4, <3>1 DEF Matched
  <2>2. ASSUME NEW t \in Speaker, NEW p \in Someone, AssignSpeaker(t, p)
        PROVE  \/ speakers'[s].person = speakers[s].person
               \/ <<s, speakers[s].person>> \in rejections'
    BY <1>1, <1>4, <2>2 DEF AssignSpeaker, TypeOK, Manual
  <2>3. ASSUME NEW r \in Recording, Retranscribe(r) PROVE FALSE
    BY <1>4, <2>3 DEF Retranscribe, Unresolved
  <2> QED  BY <2>1, <2>2, <2>3, SpeakerChanges
<1> QED  BY <1>2, <1>3, <1>4

\* A match the user took back is recorded at once, stays recorded, and is never
\* made again.
THEOREM RejectedStays == Spec => RejectedForGood
<1>1. ASSUME ProfileInv, [Next]_vars
      PROVE  [/\ rejections \subseteq rejections'
              /\ \A s \in Speaker :
                    /\ Rematched(s) => <<s, speakers'[s].person>> \notin rejections
                    /\ speakers[s].source = "auto" /\ speakers'[s].source = "manual"
                          => \/ speakers'[s].person = speakers[s].person
                             \/ <<s, speakers[s].person>> \in rejections']_vars
  BY <1>1, RejectionStays
<1> QED  BY <1>1, ProfileInvariant, PTL DEF Spec, RejectedForGood
=============================================================================
