-------------------------- MODULE UndisturbedProofs --------------------------
(***************************************************************************)
(* A recording that nobody edits: the worker takes it from its             *)
(* registration to the end while it crashes, is stopped, fails, retries    *)
(* and recovers, and while the user retries failed jobs.  It never comes   *)
(* to rest half-way without a failed job that shows where, and a recovered *)
(* or retried job never asks again for a summary that is registered.       *)
(***************************************************************************)
EXTENDS LedgerProofs

\* The user at most retries, and the speaker clips can be cut and registered.
Undisturbed == Requests \subseteq {"retry"} /\ "clips" \notin Faults

(* The inductive invariant *)

\* The worker has reached one of these places with a job of this kind.
Working(kind, places) == worker.pc \in places /\ Mine.kind = kind

Lost == {"down", "recovering"}

\* What the jobs table says of a kind: there is a job, one that has not
\* failed, one that succeeded.
Has(kind)       == \E j \in Ids : jobs[j].kind = kind
Kept(kind)      == \E j \in Ids : jobs[j].kind = kind /\ jobs[j].status # "failed"
Succeeded(kind) == \E j \in Ids : jobs[j].kind = kind /\ jobs[j].status = "succeeded"

\* .. or its handler has returned.
Ended(kind) == Succeeded(kind) \/ Working(kind, {"done"})

\* A job of this kind that has not ended has only its last step before it, or
\* lost its worker there.
Over(kind) ==
    \A j \in Ids : jobs[j].kind = kind /\ Active(j) =>
        jobs[j].status = "running" /\ worker.pc \in {"done"} \cup Lost

\* A job of this kind that was neither recovered nor retried is nowhere but at
\* these places.
FreshAt(kind, places) ==
    \A j \in Ids : jobs[j].kind = kind /\ Active(j) /\ ~jobs[j].revived =>
        jobs[j].status = "running" /\ worker.pc \in places \cup Lost

\* The settings fingerprint of all jobs of a kind.
InputOf(kind) == CASE kind = "transcribe" -> "input-v1"
                   [] kind = "summarize"  -> rec.category
                   [] OTHER               -> "current"

\* There is one revision and one line of jobs, each retried on its own line.
Lines ==
    /\ rec.revision = 1
    /\ rec.source # "manual"
    /\ \A j \in Ids :
          /\ jobs[j].kind # "render"
          /\ jobs[j].input = InputOf(jobs[j].kind)
          /\ jobs[j].retryOf # 0 => /\ jobs[j].retryOf \in Ids
                                    /\ jobs[j].retryOf < j
                                    /\ jobs[jobs[j].retryOf].kind = jobs[j].kind
                                    /\ jobs[j].kind # "summarize"
          /\ jobs[j].status = "running" => jobs[j].attempts >= 1
    /\ worker.resumed => Busy /\ Mine.revived
    /\ worker.pc # "resummarize"
    /\ worker.pc = "marking" => Mine.kind \in {"transcribe", "classify"}
    /\ worker.pc = "ready" => Mine.kind \in {"classify", "summarize"}

\* Every transcript has the words of the segments.
Told(doc) == doc # None => doc.revision = 1 /\ doc.text = 1 /\ speech.text = 1

Words == /\ Told(worker.doc)
         /\ Told(disk.json[0])
         /\ HasJson(1) => art.json[1].path = 0 /\ Told(art.json[1].content)

\* transcribe: the transcript is registered where its handler says it is, and
\* only a resumed handler finds it registered.
Transcribing ==
    /\ Has("transcribe")
    /\ HasJson(1) => FreshAt("transcribe", {"clips", "clipRows", "follow", "done"})
    /\ Working("transcribe", {"start", "model", "jsonFile", "jsonRow", "marking"})
          => ~HasJson(1)
    /\ Working("transcribe", {"clips", "clipRows", "follow", "settle"}) => HasJson(1)
    /\ Working("transcribe", {"follow", "settle"}) => ~speech.pending
    /\ Working("transcribe", {"model", "jsonFile", "jsonRow"}) => rec.status = "TRANSCRIBING"
    /\ Working("transcribe", {"jsonRow"}) => disk.json[0] = worker.doc
    /\ Ended("transcribe") => Has("finalize_speakers")

\* finalize_speakers: it follows a transcription that cannot fail any more,
\* and what it finds stays until there is a classification.
Finalizing ==
    /\ Has("finalize_speakers") =>
          HasJson(1) /\ ~speech.pending /\ Over("transcribe") /\ Kept("transcribe")
    /\ ~Has("classify") => rec.category = None
    /\ rec.status = "TRANSCRIBING" => rec.category = None
    /\ ~Has("classify") /\ HasJson(1) =>
          /\ Intact(art.json[1])
          /\ rec.status \in {"TRANSCRIBING", "FAILED"}
          /\ (\E j \in Ids : Active(j)) => rec.status = "TRANSCRIBING"
    /\ Ended("finalize_speakers") => Has("classify")
    /\ Has("classify") => /\ Has("finalize_speakers")
                          /\ \A j \in Ids : jobs[j].kind = "transcribe" => ~Active(j)

\* Both documents are there, and agree with the recordings row.
Documented ==
    /\ HasJson(1)
    /\ Intact(art.json[1])
    /\ art.json[1].content.graded
    /\ MatchesCategory(art.json[1].content)
    /\ art.md[1] = Rendered(art.json[1].content)
    /\ disk.md = art.md[1]

Writing == {"jsonFile", "jsonRow", "mdFile", "mdRow"}

\* classify: what it has written is what the place it has reached says, the
\* Markdown document is registered last, and nobody changes the documents
\* once it has returned.
Classifying ==
    /\ art.md[1] # None =>
          /\ rec.category # None
          /\ HasJson(1)
          /\ art.json[1].content.graded
          /\ art.json[1].content.category # None
          /\ art.md[1] = Rendered(art.json[1].content)
          /\ disk.md = art.md[1]
          /\ FreshAt("classify", {"follow", "ready", "done", "failing", "marking"})
    /\ Working("classify", {"failing", "marking"}) /\ worker.retry => art.md[1] = None
    /\ Working("classify", {"start", "model"} \cup Writing) => art.md[1] = None
    /\ Working("classify", {"model"}) => rec.status = "CLASSIFYING"
    /\ Working("classify", {"follow"} \cup Writing) =>
          worker.doc.graded /\ MatchesCategory(worker.doc)
    /\ Working("classify", {"jsonRow", "mdFile", "mdRow"}) => disk.json[0] = worker.doc
    /\ Working("classify", {"mdFile", "mdRow"}) =>
          HasJson(1) /\ art.json[1].content = worker.doc
    /\ Working("classify", {"mdRow"}) => disk.md = Rendered(worker.doc)
    /\ Working("classify", {"follow", "settle", "ready"}) => Documented
    /\ Working("classify", {"ready"}) => rec.category \notin AutoCategory
    /\ Ended("classify") =>
          /\ Documented
          /\ \/ Has("summarize")
             \/ rec.status = "COMPLETED" /\ rec.category \notin AutoCategory
    /\ Has("summarize") => Over("classify") /\ Kept("classify") /\ Documented

\* summarize: nothing is registered before its handler registers it, but for
\* the summary of a job that waited for its retry, because its first attempt
\* could not make the file durable; the recording is COMPLETED when it has
\* returned.
Summarizing ==
    /\ \A s \in art.sum \cup disk.sum : /\ s.revision = 1
                                        /\ s.category = rec.category
                                        /\ Has("summarize")
    /\ Working("summarize", {"model", "sumFile", "sumRow"}) =>
          /\ worker.seen.revision = 1
          /\ worker.seen.category = rec.category
          /\ worker.seen.status = rec.status
    /\ Working("summarize", {"start", "model"}) /\ Mine.revived => art.sum = {}
    /\ Working("summarize", {"sumRow"}) => NewSummary \in disk.sum
    /\ Working("summarize", {"ready"}) \/ Ended("summarize") => art.sum \cap disk.sum # {}
    /\ Ended("summarize") => rec.status = "COMPLETED"
    /\ art.sum # {} \/ disk.sum # {} =>
          \A j \in Ids : jobs[j].kind = "summarize" /\ Active(j) /\ ~jobs[j].revived =>
             /\ jobs[j].attempts >= 1
             /\ jobs[j].status = "running" /\ jobs[j].attempts = 1 =>
                   worker.pc \in {"sumRow", "ready", "done", "failing"} \cup Lost

\* The inductive invariant, on top of PInv.
UInv == Lines /\ Words /\ Transcribing /\ Finalizing /\ Classifying /\ Summarizing

-----------------------------------------------------------------------------
(* What the invariant says of a worker that is busy *)

\* The recording is at its first revision, and every job is about it.
LEMMA FirstRevision ==
    ASSUME PInv, Lines
    PROVE  /\ 1 \in Revision /\ 0 \in Path
           /\ \A j \in Ids : /\ jobs[j] \in Job /\ jobs[j].revision = 1
                            /\ ~Retranscription(j)
                            /\ jobs[j].kind \in Kind \ {"render"}
<1>1. 1 \in Revision /\ 0 \in Path
  BY BoundAssumption DEF Revision, Path
<1>2. ASSUME NEW j \in Ids
      PROVE  /\ jobs[j] \in Job /\ jobs[j].revision = 1 /\ ~Retranscription(j)
             /\ jobs[j].kind \in Kind \ {"render"}
  <2>1. jobs[j] \in Job /\ jobs[j].revision <= 1 /\ jobs[j].kind # "render"
    BY <1>2, RowsTyped DEF PInv, IInv, Tabled, Ids, Lines
  <2>2. jobs[j].revision \in 1..MaxRevision /\ jobs[j].kind \in Kind
    BY <2>1 DEF Job, Revision
  <2>3. ~Retranscription(j)
    BY <1>2 DEF Lines, InputOf, Retranscription
  <2>4. QED
    BY <2>1, <2>2, <2>3
<1>3. QED
  BY <1>1, <1>2

\* No two jobs of a kind have not failed.
LEMMA OneIsKept ==
    ASSUME PInv, Lines, NEW i \in Ids, NEW j \in Ids, jobs[i].kind = jobs[j].kind,
           jobs[i].status # "failed", jobs[j].status # "failed"
    PROVE  i = j
<1>1. SameWork(jobs[i], jobs[j]) /\ ~Redoes(jobs[i])
  BY FirstRevision DEF SameWork, Redoes, Retranscription, Lines
<1>2. QED
  BY <1>1 DEF PInv, Tabled, SoleInput, Ids

\* A busy worker holds the one running job, and no other job of its kind has
\* not failed.
LEMMA Lone ==
    ASSUME PInv, Lines, Busy
    PROVE  /\ worker \in Worker /\ worker.job \in Ids /\ worker.job # 0
           /\ Mine \in Job /\ Mine.status = "running" /\ Mine.revision = 1
           /\ Mine.input = InputOf(Mine.kind)
           /\ Mine.kind \in {"transcribe", "finalize_speakers", "classify", "summarize"}
           /\ ~Retranscription(worker.job)
           /\ Fits(worker, Mine.kind)
           /\ \A j \in Ids : jobs[j].status = "running" => j = worker.job
           /\ \A j \in Ids : jobs[j].kind = Mine.kind => j = worker.job \/ jobs[j].status = "failed"
<1>1. /\ worker \in Worker /\ worker.job \in Ids /\ worker.job # 0 /\ Mine \in Job
      /\ Mine.status = "running" /\ Fits(worker, Mine.kind) /\ RunningIn(jobs) = {worker.job}
  BY MineRunning, Employed DEF PInv, IInv, Hand, Busy
<1>2. /\ Mine.revision = 1 /\ ~Retranscription(worker.job)
      /\ Mine.kind \in {"transcribe", "finalize_speakers", "classify", "summarize"}
  BY <1>1, FirstRevision DEF Mine, Kind
<1>3. Mine.input = InputOf(Mine.kind)
  BY <1>1 DEF Lines, Mine
<1>4. \A j \in Ids : jobs[j].status = "running" => j = worker.job
  BY <1>1 DEF RunningIn, Ids
<1>5. \A j \in Ids : jobs[j].kind = Mine.kind => j = worker.job \/ jobs[j].status = "failed"
  BY <1>1, OneIsKept DEF Mine
<1>6. QED
  BY <1>1, <1>2, <1>3, <1>4, <1>5

\* How far the recording is while a job of a kind is running: what its
\* predecessors have left, and that its successors do not exist.
LEMMA Reached ==
    ASSUME PInv, UInv, Busy
    PROVE  /\ Mine.kind = "transcribe" => ~Has("classify") /\ ~Has("summarize")
           /\ Mine.kind = "transcribe" /\ worker.pc # "done" => ~Has("finalize_speakers")
           /\ Mine.kind # "transcribe" =>
                 /\ HasJson(1) /\ Has("finalize_speakers") /\ ~speech.pending
                 /\ \A j \in Ids : jobs[j].kind = "transcribe" => ~Active(j)
           /\ Mine.kind = "classify" /\ worker.pc # "done" => ~Has("summarize")
           /\ Mine.kind \in {"classify", "summarize"} => Has("classify")
           /\ Mine.kind = "summarize" =>
                 \A j \in Ids : jobs[j].kind = "classify" => ~Active(j)
           /\ ~Has("summarize") => art.sum = {} /\ disk.sum = {}
<1> USE DEF Has, Over, Kept, Active, IsActive, Ids, Mine, Lost
<1>1. /\ worker.job \in Ids /\ Mine.status = "running" /\ Mine.kind \in Kind \ {"render"}
      /\ \A j \in Ids : jobs[j].status = "running" => j = worker.job
      /\ worker.pc \notin Lost
  BY Lone DEF UInv, Busy, Kind
<1>2. /\ Has("summarize") => Over("classify") /\ Has("classify")
      /\ Has("classify") => /\ Has("finalize_speakers")
                            /\ \A j \in Ids : jobs[j].kind = "transcribe" => ~Active(j)
      /\ Has("finalize_speakers") => HasJson(1) /\ ~speech.pending /\ Over("transcribe")
  BY DEF UInv, Finalizing, Classifying
<1>3. ~Has("summarize") => art.sum = {} /\ disk.sum = {}
  BY DEF UInv, Summarizing
<1>4. QED
  BY <1>1, <1>2, <1>3 DEF Kind

\* An artifact row is a row.
LEMMA NotNone ==
    ASSUME NEW path \in Path, NEW content \in Transcript
    PROVE  [path |-> path, content |-> content] # None
  BY AbsenceAssumption DEF JsonRow

\* A handler goes to its next place.
LEMMA GotoIs ==
    ASSUME worker \in Worker, NEW pc, Goto(pc)
    PROVE  /\ worker'.pc = pc /\ worker'.job = worker.job /\ worker'.doc = worker.doc
           /\ worker'.seen = worker.seen /\ worker'.resumed = worker.resumed
           /\ worker'.retry = worker.retry
  BY DEF Goto, Worker

\* .. or returns.
LEMMA ReturnIs ==
    ASSUME Return
    PROVE  /\ worker'.pc = "done" /\ worker'.job = worker.job /\ worker'.doc = None
           /\ worker'.seen = None /\ ~worker'.resumed /\ ~worker'.retry
  BY DEF Return, Unemployed

\* .. or raises.
LEMMA RaiseIs ==
    ASSUME worker \in Worker, NEW retryable \in BOOLEAN, Raise(retryable)
    PROVE  /\ worker'.pc = IF MarksRecording THEN "marking" ELSE "failing"
           /\ worker'.job = worker.job /\ worker'.doc = None
           /\ worker'.seen = None /\ ~worker'.resumed
           /\ worker'.retry => retryable /\ ~worker.resumed
  BY DEF Raise, Unemployed, Worker



-----------------------------------------------------------------------------
(* A handler between its first and its last step *)
\* The summary model answers.
LEMMA SummarizedU == ASSUME PInv, UInv, Summarized PROVE UInv'
<1> USE DEF Working, Has, Kept, Succeeded, Ended, Over, FreshAt, Active, IsActive, Ids, Mine,
         Lost, HasJson
<1>1. /\ worker.pc = "model" /\ Mine.kind = "summarize" /\ worker \in Worker
      /\ UNCHANGED <<rec, speech, jobs, queue, art, disk>> /\ Lines
  BY DEF Summarized, At, Doing, PInv, IInv, Hand, UInv
<1>2. /\ worker.job \in Ids /\ Mine.status = "running"
      /\ \A j \in Ids : jobs[j].status = "running" => j = worker.job
      /\ \A j \in Ids : jobs[j].kind = Mine.kind => j = worker.job \/ jobs[j].status = "failed"
  BY <1>1, Lone DEF Busy
<1>3. /\ worker'.pc = "sumFile" /\ worker'.job = worker.job /\ worker'.doc = worker.doc
      /\ worker'.seen = worker.seen /\ worker'.resumed = worker.resumed
  BY <1>1, GotoIs DEF Summarized
<1>4. Lines'
  BY <1>1, <1>2, <1>3 DEF UInv, Lines, InputOf, Busy
<1>5. Words'
  BY <1>1, <1>2, <1>3 DEF UInv, Words, Told
<1>6. Transcribing'
  BY <1>1, <1>2, <1>3, Reached DEF UInv, Transcribing, Busy
<1>7. Finalizing'
  BY <1>1, <1>2, <1>3, Reached DEF UInv, Finalizing, Intact, Busy
<1>8. Classifying'
  BY <1>1, <1>2, <1>3, Reached DEF UInv, Classifying, Documented, Intact, MatchesCategory, Rendered, Writing, Busy
<1>9. Summarizing'
  BY <1>1, <1>2, <1>3, Reached DEF UInv, Summarizing, NewSummary, Busy
<1>10. QED
  BY <1>4, <1>5, <1>6, <1>7, <1>8, <1>9 DEF UInv

\* The embedding model answers.
LEMMA EmbeddedU == ASSUME PInv, UInv, Embedded PROVE UInv'
<1> USE DEF Working, Has, Kept, Succeeded, Ended, Over, FreshAt, Active, IsActive, Ids, Mine,
         Lost, HasJson
<1>1. /\ worker.pc = "model" /\ Mine.kind = "finalize_speakers" /\ worker \in Worker
      /\ UNCHANGED <<rec, speech, jobs, queue, art, disk>> /\ Lines
  BY DEF Embedded, At, Doing, PInv, IInv, Hand, UInv
<1>2. /\ worker.job \in Ids /\ Mine.status = "running"
      /\ \A j \in Ids : jobs[j].status = "running" => j = worker.job
      /\ \A j \in Ids : jobs[j].kind = Mine.kind => j = worker.job \/ jobs[j].status = "failed"
  BY <1>1, Lone DEF Busy
<1>3. /\ worker'.pc = "match" /\ worker'.job = worker.job /\ worker'.doc = worker.doc
      /\ worker'.seen = worker.seen /\ worker'.resumed = worker.resumed
  BY <1>1, GotoIs DEF Embedded
<1>4. Lines'
  BY <1>1, <1>2, <1>3 DEF UInv, Lines, InputOf, Busy
<1>5. Words'
  BY <1>1, <1>2, <1>3 DEF UInv, Words, Told
<1>6. Transcribing'
  BY <1>1, <1>2, <1>3, Reached DEF UInv, Transcribing, Busy
<1>7. Finalizing'
  BY <1>1, <1>2, <1>3, Reached DEF UInv, Finalizing, Intact, Busy
<1>8. Classifying'
  BY <1>1, <1>2, <1>3, Reached DEF UInv, Classifying, Documented, Intact, MatchesCategory, Rendered, Writing, Busy
<1>9. Summarizing'
  BY <1>1, <1>2, <1>3, Reached DEF UInv, Summarizing, NewSummary, Busy
<1>10. QED
  BY <1>4, <1>5, <1>6, <1>7, <1>8, <1>9 DEF UInv

\* transcript.json is replaced.
LEMMA WriteJsonU == ASSUME PInv, UInv, WriteJson PROVE UInv'
<1> USE DEF Working, Has, Kept, Succeeded, Ended, Over, FreshAt, Active, IsActive, Ids, Mine,
         Lost, HasJson
<1>1. /\ worker.pc = "jsonFile" /\ worker \in Worker /\ Lines
      /\ UNCHANGED <<rec, speech, jobs, art>>
  BY DEF WriteJson, At, PInv, IInv, Hand, UInv
<1>2. /\ worker.job \in Ids /\ Mine.status = "running"
      /\ \A j \in Ids : jobs[j].status = "running" => j = worker.job
      /\ \A j \in Ids : jobs[j].kind = Mine.kind => j = worker.job \/ jobs[j].status = "failed"
      /\ Mine.kind \in {"transcribe", "classify"}
      /\ worker.doc \in Transcript
  BY <1>1, Lone DEF Busy, Fits, Places, Holds
<1>3. /\ worker'.pc = "jsonRow"
      /\ worker'.job = worker.job /\ worker'.doc = worker.doc
      /\ worker'.seen = worker.seen /\ worker'.resumed = worker.resumed
  BY <1>1, GotoIs DEF WriteJson
<1>4. disk'.json[0] = worker.doc /\ disk'.md = disk.md /\ disk'.sum = disk.sum
  BY <1>1, <1>2, FirstRevision DEF WriteJson, JsonWritten, JsonPath, Doing, PInv, IInv, Files
<1>b. /\ Mine.kind = "transcribe" => ~HasJson(1)
      /\ art.md[1] = None
  BY <1>1, <1>2 DEF UInv, Transcribing, Classifying, Writing
<1>5. Lines'
  BY <1>1, <1>2, <1>3, <1>4, <1>b DEF UInv, Lines, InputOf, Busy
<1>6. Words'
  BY <1>1, <1>2, <1>3, <1>4, <1>b DEF UInv, Words, Told
<1>7. Transcribing'
  BY <1>1, <1>2, <1>3, <1>4, <1>b, Reached DEF UInv, Transcribing, Busy
<1>8. Finalizing'
  BY <1>1, <1>2, <1>3, <1>4, <1>b, Reached DEF UInv, Finalizing, Intact, Busy
<1>9. Classifying'
  BY <1>1, <1>2, <1>3, <1>4, <1>b, Reached DEF UInv, Classifying, Documented, Intact, MatchesCategory, Rendered, Writing, Busy
<1>10. Summarizing'
  BY <1>1, <1>2, <1>3, <1>4, <1>b, Reached DEF UInv, Summarizing, NewSummary, Busy
<1>11. QED
  BY <1>5, <1>6, <1>7, <1>8, <1>9, <1>10 DEF UInv

\* It is registered.
LEMMA RegisterTranscriptU == ASSUME PInv, UInv, RegisterTranscript PROVE UInv'
<1> USE DEF Working, Has, Kept, Succeeded, Ended, Over, FreshAt, Active, IsActive, Ids, Mine,
         Lost, HasJson
<1>1. /\ worker.pc = "jsonRow" /\ worker \in Worker /\ Lines
      /\ UNCHANGED <<rec, speech, jobs, disk>>
  BY DEF RegisterTranscript, At, PInv, IInv, Hand, UInv
<1>2. /\ worker.job \in Ids /\ Mine.status = "running"
      /\ \A j \in Ids : jobs[j].status = "running" => j = worker.job
      /\ \A j \in Ids : jobs[j].kind = Mine.kind => j = worker.job \/ jobs[j].status = "failed"
      /\ Mine.kind \in {"transcribe", "classify"}
      /\ worker.doc \in Transcript /\ worker.doc # None
  BY <1>1, Lone, AbsenceAssumption DEF Busy, Fits, Places, Holds
<1>3. /\ worker'.pc = IF Mine.kind = "transcribe" THEN "clips" ELSE "mdFile"
      /\ worker'.job = worker.job /\ worker'.doc = worker.doc
      /\ worker'.seen = worker.seen /\ worker'.resumed = worker.resumed
  BY <1>1, GotoIs DEF RegisterTranscript, Doing
<1>4. /\ art'.json[1] = [path |-> 0, content |-> worker.doc] /\ art'.json[1] # None
      /\ art'.md = art.md /\ art'.sum = art.sum
  <2>1. JsonPath = 0 /\ worker.doc.revision = 1 /\ 1 \in Revision
    BY <1>1, <1>2, FirstRevision DEF JsonPath, Doing, UInv, Words, Told
  <2>2. /\ art'.json[1] = [path |-> 0, content |-> worker.doc]
        /\ art'.md = art.md /\ art'.sum = art.sum
    BY <2>1 DEF RegisterTranscript, RegisterJson, PInv, IInv, Files
  <2>3. QED
    BY <1>1, <1>2, <2>2, FirstRevision, NotNone
<1>b. /\ Mine.kind = "transcribe" => ~HasJson(1)
      /\ art.md[1] = None
  BY <1>1, <1>2 DEF UInv, Transcribing, Classifying, Writing
<1>5. Lines'
  BY <1>1, <1>2, <1>3, <1>4, <1>b DEF UInv, Lines, InputOf, Busy
<1>6. Words'
  BY <1>1, <1>2, <1>3, <1>4, <1>b DEF UInv, Words, Told
<1>7. Transcribing'
  BY <1>1, <1>2, <1>3, <1>4, <1>b, Reached DEF UInv, Transcribing, Busy
<1>8. Finalizing'
  BY <1>1, <1>2, <1>3, <1>4, <1>b, Reached DEF UInv, Finalizing, Intact, Busy, Transcribing
<1>9. Classifying'
  BY <1>1, <1>2, <1>3, <1>4, <1>b, Reached DEF UInv, Classifying, Documented, Intact, MatchesCategory, Rendered, Writing, Busy
<1>10. Summarizing'
  BY <1>1, <1>2, <1>3, <1>4, <1>b, Reached DEF UInv, Summarizing, NewSummary, Busy
<1>11. QED
  BY <1>5, <1>6, <1>7, <1>8, <1>9, <1>10 DEF UInv

\* The Markdown document is replaced.
LEMMA WriteMarkdownU == ASSUME PInv, UInv, WriteMarkdown PROVE UInv'
<1> USE DEF Working, Has, Kept, Succeeded, Ended, Over, FreshAt, Active, IsActive, Ids, Mine,
         Lost, HasJson
<1>1. /\ worker.pc = "mdFile" /\ worker \in Worker /\ Lines
      /\ UNCHANGED <<rec, speech, jobs, art>>
  BY DEF WriteMarkdown, At, PInv, IInv, Hand, UInv
<1>2. /\ worker.job \in Ids /\ Mine.status = "running"
      /\ \A j \in Ids : jobs[j].status = "running" => j = worker.job
      /\ \A j \in Ids : jobs[j].kind = Mine.kind => j = worker.job \/ jobs[j].status = "failed"
      /\ Mine.kind = "classify"
  BY <1>1, Lone DEF Busy, Fits, Places
<1>3. /\ worker'.pc = "mdRow"
      /\ worker'.job = worker.job /\ worker'.doc = worker.doc
      /\ worker'.seen = worker.seen /\ worker'.resumed = worker.resumed
  BY <1>1, GotoIs DEF WriteMarkdown
<1>4. disk'.json = disk.json /\ disk'.md = Rendered(worker.doc) /\ disk'.sum = disk.sum
  BY DEF WriteMarkdown, MarkdownWritten, PInv, IInv, Files
<1>5. Lines'
  BY <1>1, <1>2, <1>3, <1>4 DEF UInv, Lines, InputOf, Busy
<1>6. Words'
  BY <1>1, <1>2, <1>3, <1>4 DEF UInv, Words, Told
<1>7. Transcribing'
  BY <1>1, <1>2, <1>3, <1>4, Reached DEF UInv, Transcribing, Busy
<1>8. Finalizing'
  BY <1>1, <1>2, <1>3, <1>4, Reached DEF UInv, Finalizing, Intact, Busy
<1>9. Classifying'
  BY <1>1, <1>2, <1>3, <1>4, Reached DEF UInv, Classifying, Documented, Intact, MatchesCategory, Rendered, Writing, Busy
<1>10. Summarizing'
  BY <1>1, <1>2, <1>3, <1>4, Reached DEF UInv, Summarizing, NewSummary, Busy
<1>11. QED
  BY <1>5, <1>6, <1>7, <1>8, <1>9, <1>10 DEF UInv

\* It is registered.
LEMMA RegisterMarkdownU == ASSUME PInv, UInv, RegisterMarkdown PROVE UInv'
<1> USE DEF Working, Has, Kept, Succeeded, Ended, Over, FreshAt, Active, IsActive, Ids, Mine,
         Lost, HasJson
<1>1. /\ worker.pc = "mdRow" /\ worker \in Worker /\ Lines
      /\ UNCHANGED <<rec, speech, jobs, disk>>
  BY DEF RegisterMarkdown, At, PInv, IInv, Hand, UInv
<1>2. /\ worker.job \in Ids /\ Mine.status = "running"
      /\ \A j \in Ids : jobs[j].status = "running" => j = worker.job
      /\ \A j \in Ids : jobs[j].kind = Mine.kind => j = worker.job \/ jobs[j].status = "failed"
      /\ Mine.kind = "classify"
      /\ worker.doc \in Transcript /\ worker.doc # None
  BY <1>1, Lone, AbsenceAssumption DEF Busy, Fits, Places, Holds
<1>3. /\ worker'.pc = IF worker.resumed THEN "settle" ELSE "follow"
      /\ worker'.job = worker.job /\ worker'.doc = worker.doc
      /\ worker'.seen = worker.seen /\ worker'.resumed = worker.resumed
  BY <1>1, GotoIs DEF RegisterMarkdown
<1>4. /\ art'.md[1] = Rendered(worker.doc)
      /\ art'.json = art.json /\ art'.sum = art.sum
  <2>1. worker.doc.revision = 1 /\ 1 \in Revision
    BY <1>1, <1>2, FirstRevision DEF UInv, Words, Told
  <2>2. QED
    BY <2>1 DEF RegisterMarkdown, PInv, IInv, Files
<1>a. worker.doc.category # None
  BY <1>1, <1>2 DEF UInv, Classifying, Writing, MatchesCategory
<1>b. Documented'
  BY <1>1, <1>2, <1>3, <1>4 DEF UInv, Words, Classifying, Documented, Intact,
     MatchesCategory, Writing
<1>5. Lines'
  BY <1>1, <1>2, <1>3, <1>4, <1>a, <1>b DEF UInv, Lines, InputOf, Busy
<1>6. Words'
  BY <1>1, <1>2, <1>3, <1>4, <1>a, <1>b DEF UInv, Words, Told
<1>7. Transcribing'
  BY <1>1, <1>2, <1>3, <1>4, <1>a, <1>b, Reached DEF UInv, Transcribing, Busy
<1>8. Finalizing'
  BY <1>1, <1>2, <1>3, <1>4, <1>a, <1>b, Reached DEF UInv, Finalizing, Intact, Busy
<1>9. Classifying'
  BY <1>1, <1>2, <1>3, <1>4, <1>a, <1>b, Reached DEF UInv, Classifying, Documented, Intact, MatchesCategory, Rendered, Writing, Busy, Lines
<1>10. Summarizing'
  BY <1>1, <1>2, <1>3, <1>4, <1>a, <1>b, Reached DEF UInv, Summarizing, NewSummary, Busy
<1>11. QED
  BY <1>5, <1>6, <1>7, <1>8, <1>9, <1>10 DEF UInv

\* The speaker clips are cut.
LEMMA CutClipsU == ASSUME PInv, UInv, CutClips PROVE UInv'
<1> USE DEF Working, Has, Kept, Succeeded, Ended, Over, FreshAt, Active, IsActive, Ids, Mine,
         Lost, HasJson
<1>1. /\ worker.pc = "clips" /\ worker \in Worker /\ Lines
      /\ UNCHANGED <<rec, jobs, art, disk>>
  BY DEF CutClips, At, PInv, IInv, Hand, UInv
<1>2. /\ worker.job \in Ids /\ Mine.status = "running"
      /\ \A j \in Ids : jobs[j].status = "running" => j = worker.job
      /\ \A j \in Ids : jobs[j].kind = Mine.kind => j = worker.job \/ jobs[j].status = "failed"
      /\ Mine.kind = "transcribe" /\ ~Retranscription(worker.job)
  BY <1>1, Lone DEF Busy, Fits, Places
<1>3. /\ worker'.pc = "clipRows"
      /\ worker'.job = worker.job /\ worker'.doc = worker.doc
      /\ worker'.seen = worker.seen /\ worker'.resumed = worker.resumed
  BY <1>1, <1>2, GotoIs DEF CutClips
<1>4. speech'.text = speech.text /\ speech'.pending = speech.pending
  BY DEF CutClips, PInv, IInv, Files, SpeechRow
<1>5. Lines'
  BY <1>1, <1>2, <1>3, <1>4 DEF UInv, Lines, InputOf, Busy
<1>6. Words'
  BY <1>1, <1>2, <1>3, <1>4 DEF UInv, Words, Told
<1>7. Transcribing'
  BY <1>1, <1>2, <1>3, <1>4, Reached DEF UInv, Transcribing, Busy, Lines
<1>8. Finalizing'
  BY <1>1, <1>2, <1>3, <1>4, Reached DEF UInv, Finalizing, Intact, Busy
<1>9. Classifying'
  BY <1>1, <1>2, <1>3, <1>4, Reached DEF UInv, Classifying, Documented, Intact, MatchesCategory, Rendered, Writing, Busy
<1>10. Summarizing'
  BY <1>1, <1>2, <1>3, <1>4, Reached DEF UInv, Summarizing, NewSummary, Busy
<1>11. QED
  BY <1>5, <1>6, <1>7, <1>8, <1>9, <1>10 DEF UInv

\* They are registered.
LEMMA RegisterClipsU == ASSUME Undisturbed, PInv, UInv, RegisterClips PROVE UInv'
<1> USE DEF Working, Has, Kept, Succeeded, Ended, Over, FreshAt, Active, IsActive, Ids, Mine,
         Lost, HasJson
<1>1. /\ worker.pc = "clipRows" /\ worker \in Worker /\ Lines
      /\ UNCHANGED <<rec, jobs, art, disk>>
  BY DEF RegisterClips, At, PInv, IInv, Hand, UInv
<1>2. /\ worker.job \in Ids /\ Mine.status = "running"
      /\ \A j \in Ids : jobs[j].status = "running" => j = worker.job
      /\ \A j \in Ids : jobs[j].kind = Mine.kind => j = worker.job \/ jobs[j].status = "failed"
      /\ Mine.kind = "transcribe" /\ ~Retranscription(worker.job)
  BY <1>1, Lone DEF Busy, Fits, Places
<1>3. /\ worker'.pc = IF worker.resumed THEN "settle" ELSE "follow"
      /\ worker'.job = worker.job /\ worker'.doc = worker.doc
      /\ worker'.seen = worker.seen /\ worker'.resumed = worker.resumed
  BY <1>1, <1>2, GotoIs DEF RegisterClips
<1>4. speech'.text = speech.text /\ ~speech'.pending
  BY DEF Undisturbed, RegisterClips, PInv, IInv, Files, SpeechRow
<1>5. Lines'
  BY <1>1, <1>2, <1>3, <1>4 DEF UInv, Lines, InputOf, Busy
<1>6. Words'
  BY <1>1, <1>2, <1>3, <1>4 DEF UInv, Words, Told
<1>7. Transcribing'
  BY <1>1, <1>2, <1>3, <1>4, Reached DEF UInv, Transcribing, Busy, Lines
<1>8. Finalizing'
  BY <1>1, <1>2, <1>3, <1>4, Reached DEF UInv, Finalizing, Intact, Busy
<1>9. Classifying'
  BY <1>1, <1>2, <1>3, <1>4, Reached DEF UInv, Classifying, Documented, Intact, MatchesCategory, Rendered, Writing, Busy
<1>10. Summarizing'
  BY <1>1, <1>2, <1>3, <1>4, Reached DEF UInv, Summarizing, NewSummary, Busy
<1>11. QED
  BY <1>5, <1>6, <1>7, <1>8, <1>9, <1>10 DEF UInv

-----------------------------------------------------------------------------
(* A handler that raises *)

\* The file a handler had just replaced when it raised: its row is not there,
\* and a transcript has the words of the segments.
LeavesFile ==
    \/ disk' = disk
    \/ /\ Mine.kind \in {"transcribe", "classify"}
       /\ Mine.kind = "transcribe" => ~HasJson(1)
       /\ art.md[1] = None
       /\ Told(disk.json[0])'
       /\ disk'.sum = disk.sum
    \/ /\ Mine.kind = "summarize"
       /\ \A f \in disk'.sum : f.revision = 1 /\ f.category = rec.category
       /\ disk'.json = disk.json /\ disk'.md = disk.md

\* What a handler may have left when it raises.
LEMMA RaisedU ==
    ASSUME PInv, UInv, Busy, worker.pc # "done", LeavesFile,
           UNCHANGED <<speech, jobs, art>>,
           \/ rec' = rec
           \/ Mine.kind = "classify" /\ rec' = [rec EXCEPT !.status = "CLASSIFYING"],
           worker'.pc \in {"marking", "failing"}, worker'.job = worker.job,
           worker'.doc = None, ~worker'.resumed,
           worker'.pc = "marking" => Mine.kind \in {"transcribe", "classify"},
           Mine.kind = "transcribe" =>
              ~HasJson(1) \/ (Mine.revived /\ worker'.pc = "failing"),
           Mine.kind = "classify" /\ worker'.retry => art.md[1] = None
    PROVE  UInv'
<1> USE DEF LeavesFile, Working, Has, Kept, Succeeded, Ended, Over, FreshAt, Active, IsActive, Ids, Mine,
         Lost, HasJson
<1>1. /\ worker.job \in Ids /\ Mine.status = "running"
      /\ \A j \in Ids : jobs[j].status = "running" => j = worker.job
      /\ \A j \in Ids : jobs[j].kind = Mine.kind => j = worker.job \/ jobs[j].status = "failed"
  BY Lone DEF UInv
<1>2. /\ rec'.revision = rec.revision /\ rec'.category = rec.category
      /\ rec'.source = rec.source
      /\ Mine.kind # "classify" => rec'.status = rec.status
      /\ rec'.status \in {rec.status, "CLASSIFYING"}
  BY DEF PInv, IInv, Row, RecordingRow
<1>3. Lines'
  BY <1>1, <1>2 DEF UInv, Lines, InputOf, Busy
<1>4. Words'
  BY <1>1, <1>2 DEF UInv, Words, Told
<1>5. Transcribing'
  BY <1>1, <1>2, Reached DEF UInv, Transcribing, Busy
<1>6. Finalizing'
  BY <1>1, <1>2, Reached DEF UInv, Finalizing, Intact, Busy
<1>7. Classifying'
  BY <1>1, <1>2, Reached DEF UInv, Classifying, Documented, Intact, MatchesCategory, Rendered, Writing, Busy
<1>8. Summarizing'
  <2>1. CASE Mine.kind = "summarize"
    <3>1. /\ \A s \in art'.sum \cup disk'.sum : s.revision = 1 /\ s.category = rec.category
          /\ worker'.pc = "failing"
      BY <2>1 DEF UInv, Summarizing
    <3>2. \A j \in Ids : jobs[j].kind = "summarize" /\ Active(j) =>
             j = worker.job /\ jobs[j].attempts >= 1
      BY <1>1, <2>1 DEF UInv, Lines
    <3>3. QED
      BY <1>1, <1>2, <2>1, <3>1, <3>2 DEF UInv, Summarizing, NewSummary, Busy
  <2>2. CASE Mine.kind # "summarize"
    BY <1>1, <1>2, <2>2, Reached DEF UInv, Summarizing, NewSummary, Busy
  <2>3. QED
    BY <2>1, <2>2
<1>9. QED
  BY <1>3, <1>4, <1>5, <1>6, <1>7, <1>8 DEF UInv

\* The same in terms of Raise.
LEMMA RaiseU ==
    ASSUME PInv, UInv, Busy, worker.pc # "done", LeavesFile,
           UNCHANGED <<speech, jobs, art>>,
           \/ rec' = rec
           \/ Mine.kind = "classify" /\ rec' = [rec EXCEPT !.status = "CLASSIFYING"],
           NEW retryable \in BOOLEAN, Raise(retryable),
           Mine.kind = "transcribe" => ~HasJson(1),
           Mine.kind = "classify" /\ retryable => art.md[1] = None
    PROVE  UInv'
<1>1. worker \in Worker
  BY DEF PInv, IInv, Hand
<1>2. /\ worker'.pc = IF MarksRecording THEN "marking" ELSE "failing"
      /\ worker'.job = worker.job /\ worker'.doc = None /\ ~worker'.resumed
      /\ worker'.retry => retryable
  BY <1>1, RaiseIs
<1>3. MarksRecording => Mine.kind \in {"transcribe", "classify"}
  BY DEF MarksRecording, Doing
<1>4. /\ worker'.pc \in {"marking", "failing"}
      /\ worker'.pc = "marking" => Mine.kind \in {"transcribe", "classify"}
  BY <1>2, <1>3
<1>5. /\ Mine.kind = "transcribe" =>
              ~HasJson(1) \/ (Mine.revived /\ worker'.pc = "failing")
      /\ Mine.kind = "classify" /\ worker'.retry => art.md[1] = None
  BY <1>2
<1>6. QED
  BY <1>2, <1>4, <1>5, RaisedU

\* Where a transcript is staged, the recording is edited, or the summary is
\* asked for by a render job, no handler comes.
LEMMA NoEdit ==
    ASSUME PInv, UInv
    PROVE  worker.pc \notin {"stage", "commit", "resummarize"}
<1>1. ASSUME worker.pc \in {"stage", "commit"}
      PROVE  FALSE
  <2>1. /\ worker.doc \in Transcript /\ Mine.revision = 1 /\ worker.doc.revision = 1 + 1
    BY <1>1, Lone DEF UInv, Busy, Fits, Holds, PInv, Knows, Ahead
  <2>2. worker.doc # None
    BY <2>1, AbsenceAssumption
  <2>3. QED
    BY <2>1, <2>2 DEF UInv, Words, Told
<1>2. QED
  BY <1>1 DEF UInv, Lines

\* The models fail.
LEMMA ModelFailsU == ASSUME PInv, UInv, ModelFails PROVE UInv'
<1>1. /\ worker.pc = "model" /\ Busy /\ UNCHANGED <<rec, speech, jobs, art, disk>>
      /\ \E retryable \in BOOLEAN : Raise(retryable)
  BY DEF ModelFails, At, Busy
<1>2. /\ worker.job \in Ids /\ Mine.status = "running"
  BY <1>1, Lone DEF UInv
<1>3. /\ Mine.kind = "transcribe" => ~HasJson(1)
      /\ Mine.kind = "classify" => art.md[1] = None
  BY <1>1, <1>2 DEF UInv, Transcribing, Classifying, Working, Mine
<1>4. QED
  BY <1>1, <1>3, RaiseU DEF LeavesFile

\* A file cannot be written.
LEMMA WriteFailsU == ASSUME PInv, UInv, WriteFails PROVE UInv'
<1>1. /\ worker.pc \in {"jsonFile", "mdFile", "sumFile"} /\ Busy
      /\ UNCHANGED <<rec, speech, jobs, art, disk>>
      /\ Raise(TRUE)
  BY NoEdit DEF WriteFails, At, Busy
<1>2. /\ worker.job \in Ids /\ Mine.status = "running" /\ Fits(worker, Mine.kind)
  BY <1>1, Lone DEF UInv
<1>3. /\ Mine.kind = "transcribe" => ~HasJson(1)
      /\ Mine.kind = "classify" => art.md[1] = None
  BY <1>1, <1>2 DEF UInv, Transcribing, Classifying, Working, Mine, Fits, Places, Writing
<1>4. QED
  BY <1>1, <1>3, RaiseU DEF LeavesFile

\* A file is replaced, but its directory cannot be synced.
LEMMA SyncFailsU == ASSUME PInv, UInv, SyncFails PROVE UInv'
<1>1. /\ worker.pc \in {"jsonFile", "mdFile", "sumFile"} /\ Busy
      /\ UNCHANGED <<rec, speech, jobs, art>>
      /\ Raise(TRUE) /\ Lines
  BY DEF SyncFails, At, Busy, UInv
<1>2. /\ worker.job \in Ids /\ Mine.status = "running" /\ Fits(worker, Mine.kind)
      /\ Mine.kind # "render"
  BY <1>1, Lone
<1>3. /\ Mine.kind = "transcribe" => ~HasJson(1)
      /\ Mine.kind \in {"transcribe", "classify"} => art.md[1] = None
  BY <1>1, <1>2 DEF UInv, Transcribing, Classifying, Working, Mine, Fits, Places, Writing
<1>4. CASE worker.pc = "jsonFile" /\ disk' = JsonWritten
  <2>1. Mine.kind \in {"transcribe", "classify"} /\ worker.doc \in Transcript
    BY <1>2, <1>4 DEF Fits, Places, Holds
  <2>2. disk'.json[0] = worker.doc /\ disk'.sum = disk.sum
    BY <1>2, <1>4, FirstRevision DEF JsonWritten, JsonPath, Doing, PInv, IInv, Files, UInv
  <2>3. Told(disk.json[0])'
    BY <1>1, <2>2 DEF UInv, Words, Told
  <2>4. QED
    BY <1>1, <1>3, <2>1, <2>2, <2>3, RaiseU DEF LeavesFile
<1>5. CASE worker.pc = "mdFile" /\ disk' = MarkdownWritten
  <2>1. Mine.kind \in {"transcribe", "classify"}
    BY <1>2, <1>5 DEF Fits, Places
  <2>2. disk'.json = disk.json /\ disk'.sum = disk.sum
    BY <1>5 DEF MarkdownWritten, PInv, IInv, Files
  <2>3. Told(disk.json[0])'
    BY <1>1, <2>2 DEF UInv, Words, Told
  <2>4. QED
    BY <1>1, <1>3, <2>1, <2>2, <2>3, RaiseU DEF LeavesFile
<1>6. CASE worker.pc = "sumFile" /\ disk' = SummaryWritten
  <2>1. Mine.kind = "summarize"
    BY <1>2, <1>6 DEF Fits, Places
  <2>2. /\ disk'.json = disk.json /\ disk'.md = disk.md
        /\ disk'.sum \subseteq disk.sum \cup {NewSummary}
    BY <1>6 DEF SummaryWritten, SummaryFileWritten, PInv, IInv, Files
  <2>3. \A f \in disk'.sum : f.revision = 1 /\ f.category = rec.category
    BY <1>6, <2>1, <2>2 DEF UInv, Summarizing, Working, NewSummary
  <2>4. QED
    BY <1>1, <1>3, <2>1, <2>2, <2>3, RaiseU DEF LeavesFile
<1>7. QED
  BY <1>4, <1>5, <1>6 DEF SyncFails, At

\* The Markdown document cannot be built.
LEMMA RendererFailsU == ASSUME PInv, UInv, RendererFails PROVE UInv'
<1>1. /\ worker.pc = "mdFile" /\ Mine.kind = "classify" /\ Busy
      /\ UNCHANGED <<rec, speech, jobs, art, disk>>
      /\ Raise(FALSE)
  <2>1. Busy
    BY DEF RendererFails, At, Busy
  <2>2. Mine.kind # "render"
    BY <2>1, Lone DEF UInv
  <2>3. QED
    BY <2>1, <2>2 DEF RendererFails, At, Doing
<1>2. QED
  BY <1>1, RaiseU DEF LeavesFile

-----------------------------------------------------------------------------
(* The first step of a handler *)

\* A handler that starts finds nothing of its own registered.
LEMMA StartsFresh ==
    ASSUME PInv, UInv, Starting
    PROVE  /\ Busy /\ worker.pc \in {"start", "claimed"}
           /\ Mine.kind = "transcribe" => ~HasJson(1)
           /\ Mine.kind = "classify" => art.md[1] = None
           /\ Mine.kind = "summarize" /\ (Mine.revived \/ Mine.attempts = 1) =>
                 art.sum = {} /\ (Mine.revived \/ disk.sum = {})
<1>1. Busy /\ worker.pc \in {"start", "claimed"} /\ (worker.pc = "claimed" => ~Mine.revived)
  BY DEF Starting, At, Busy
<1>2. worker.job \in Ids /\ Mine.status = "running"
  BY <1>1, Lone DEF UInv
<1>3. QED
  BY <1>1, <1>2 DEF UInv, Transcribing, Classifying, Summarizing, Working, FreshAt, Lost,
     Active, IsActive, Mine

\* It read the recordings row.
LEMMA ProceedIs ==
    ASSUME worker \in Worker, NEW pc, NEW doc, Proceed(pc, doc)
    PROVE  /\ worker'.pc = pc /\ worker'.job = worker.job /\ worker'.doc = doc
           /\ worker'.seen = rec /\ worker'.resumed = worker.resumed
  BY DEF Proceed, Worker

\* transcribe starts.
LEMMA StartTranscribeU == ASSUME PInv, UInv, StartTranscribe PROVE UInv'
<1> USE DEF Working, Has, Kept, Succeeded, Ended, Over, FreshAt, Active, IsActive, Ids, Mine,
         Lost, HasJson
<1>1. /\ worker.pc \in {"start", "claimed"} /\ Mine.kind = "transcribe"
      /\ worker \in Worker /\ Lines /\ Busy
      /\ UNCHANGED <<speech, jobs, art, disk>>
  BY StartsFresh DEF StartTranscribe, Doing, PInv, IInv, Hand, UInv
<1>2. /\ worker.job \in Ids /\ Mine.status = "running"
      /\ \A j \in Ids : jobs[j].status = "running" => j = worker.job
      /\ \A j \in Ids : jobs[j].kind = Mine.kind => j = worker.job \/ jobs[j].status = "failed"
  BY <1>1, Lone
<1>3. ~HasJson(1)
  BY <1>1, StartsFresh DEF StartTranscribe
<1>4. CASE Raise(FALSE) /\ UNCHANGED rec
  BY <1>1, <1>3, <1>4, RaiseU DEF LeavesFile
<1>5. CASE Transition("TRANSCRIBING") /\ Proceed("model", None)
  <2>1. /\ worker'.pc = "model" /\ worker'.job = worker.job /\ worker'.doc = None
        /\ worker'.seen = rec /\ worker'.resumed = worker.resumed
    BY <1>1, <1>5, ProceedIs
  <2>2. /\ rec'.revision = rec.revision /\ rec'.category = rec.category
        /\ rec'.source = rec.source /\ rec'.status = "TRANSCRIBING"
    BY <1>5 DEF Transition, PInv, IInv, Row, RecordingRow
  <2>3. Lines'
    BY <1>1, <1>2, <1>3, <2>1, <2>2 DEF UInv, Lines, InputOf, Busy
  <2>4. Words'
    BY <1>1, <1>2, <1>3, <2>1, <2>2 DEF UInv, Words, Told
  <2>5. Transcribing'
    BY <1>1, <1>2, <1>3, <2>1, <2>2, Reached DEF UInv, Transcribing, Busy
  <2>6. Finalizing'
    BY <1>1, <1>2, <1>3, <2>1, <2>2, Reached DEF UInv, Finalizing, Intact, Busy
  <2>7. Classifying'
    BY <1>1, <1>2, <1>3, <2>1, <2>2, Reached DEF UInv, Classifying, Documented, Intact, MatchesCategory, Rendered, Writing, Busy
  <2>8. Summarizing'
    BY <1>1, <1>2, <1>3, <2>1, <2>2, Reached DEF UInv, Summarizing, NewSummary, Busy
  <2>9. QED
    BY <2>3, <2>4, <2>5, <2>6, <2>7, <2>8 DEF UInv
<1>6. QED
  BY <1>1, <1>2, <1>4, <1>5, Lone DEF StartTranscribe

\* classify starts.
LEMMA StartClassifyU == ASSUME PInv, UInv, StartClassify PROVE UInv'
<1> USE DEF Working, Has, Kept, Succeeded, Ended, Over, FreshAt, Active, IsActive, Ids, Mine,
         Lost, HasJson
<1>1. /\ worker.pc \in {"start", "claimed"} /\ Mine.kind = "classify"
      /\ worker \in Worker /\ Lines /\ Busy
      /\ UNCHANGED <<speech, jobs, art, disk>>
  BY StartsFresh DEF StartClassify, Doing, PInv, IInv, Hand, UInv
<1>2. /\ worker.job \in Ids /\ Mine.status = "running"
      /\ \A j \in Ids : jobs[j].status = "running" => j = worker.job
      /\ \A j \in Ids : jobs[j].kind = Mine.kind => j = worker.job \/ jobs[j].status = "failed"
  BY <1>1, Lone
<1>3. art.md[1] = None
  BY <1>1, StartsFresh DEF StartClassify
<1>4. CASE Raise(FALSE) /\ UNCHANGED rec
  BY <1>1, <1>3, <1>4, RaiseU DEF LeavesFile
<1>5. CASE Transition("CLASSIFYING") /\ Raise(FileGone(ClassifyRevision))
  <2>1. FileGone(ClassifyRevision) \in BOOLEAN
    BY Zenon DEF FileGone
  <2>2. QED
    BY <1>1, <1>3, <1>5, <2>1, RaiseU DEF Transition, LeavesFile
<1>6. CASE /\ Transition("CLASSIFYING") /\ Loads(ClassifyRevision)
           /\ Proceed("model", FileAt(ClassifyRevision))
  <2>1. /\ worker'.pc = "model" /\ worker'.job = worker.job /\ worker'.doc = FileAt(1)
        /\ worker'.seen = rec /\ worker'.resumed = worker.resumed
    BY <1>1, <1>6, ProceedIs DEF ClassifyRevision, Lines
  <2>2. /\ rec'.revision = rec.revision /\ rec'.category = rec.category
        /\ rec'.source = rec.source /\ rec'.status = "CLASSIFYING"
    BY <1>6 DEF Transition, PInv, IInv, Row, RecordingRow
  <2>3. Lines'
    BY <1>1, <1>2, <1>3, <2>1, <2>2 DEF UInv, Lines, InputOf, Busy
  <2>4. Words'
    BY <1>1, <1>2, <1>3, <2>1, <2>2, Reached DEF UInv, Words, Told, FileAt
  <2>5. Transcribing'
    BY <1>1, <1>2, <1>3, <2>1, <2>2, Reached DEF UInv, Transcribing, Busy
  <2>6. Finalizing'
    BY <1>1, <1>2, <1>3, <2>1, <2>2, Reached DEF UInv, Finalizing, Intact, Busy
  <2>7. Classifying'
    BY <1>1, <1>2, <1>3, <2>1, <2>2, Reached DEF UInv, Classifying, Documented, Intact, MatchesCategory, Rendered, Writing, Busy
  <2>8. Summarizing'
    BY <1>1, <1>2, <1>3, <2>1, <2>2, Reached DEF UInv, Summarizing, NewSummary, Busy
  <2>9. QED
    BY <2>3, <2>4, <2>5, <2>6, <2>7, <2>8 DEF UInv
<1>7. QED
  BY <1>4, <1>5, <1>6 DEF StartClassify

\* finalize_speakers starts.
LEMMA StartFinalizeU == ASSUME PInv, UInv, StartFinalize PROVE UInv'
<1> USE DEF Working, Has, Kept, Succeeded, Ended, Over, FreshAt, Active, IsActive, Ids, Mine,
         Lost, HasJson
<1>1. /\ worker.pc \in {"start", "claimed"} /\ Mine.kind = "finalize_speakers"
      /\ worker \in Worker /\ Lines /\ Busy
      /\ UNCHANGED <<speech, jobs, art, disk>>
  BY StartsFresh DEF StartFinalize, Doing, PInv, IInv, Hand, UInv
<1>2. /\ worker.job \in Ids /\ Mine.status = "running"
      /\ \A j \in Ids : jobs[j].status = "running" => j = worker.job
      /\ \A j \in Ids : jobs[j].kind = Mine.kind => j = worker.job \/ jobs[j].status = "failed"
  BY <1>1, Lone
<1>3. ~FinalizeOutdated /\ UNCHANGED rec
  BY <1>1, Lone DEF FinalizeOutdated, Lines, StartFinalize
<1>4. /\ worker'.pc = "model" /\ worker'.job = worker.job /\ worker'.doc = None
      /\ worker'.seen = rec /\ worker'.resumed = worker.resumed
  BY <1>1, <1>3, ProceedIs DEF StartFinalize
<1>5. Lines'
  BY <1>1, <1>2, <1>3, <1>4 DEF UInv, Lines, InputOf, Busy
<1>6. Words'
  BY <1>1, <1>2, <1>3, <1>4 DEF UInv, Words, Told
<1>7. Transcribing'
  BY <1>1, <1>2, <1>3, <1>4, Reached DEF UInv, Transcribing, Busy
<1>8. Finalizing'
  BY <1>1, <1>2, <1>3, <1>4, Reached DEF UInv, Finalizing, Intact, Busy
<1>9. Classifying'
  BY <1>1, <1>2, <1>3, <1>4, Reached DEF UInv, Classifying, Documented, Intact, MatchesCategory, Rendered, Writing, Busy
<1>10. Summarizing'
  BY <1>1, <1>2, <1>3, <1>4, Reached DEF UInv, Summarizing, NewSummary, Busy
<1>11. QED
  BY <1>5, <1>6, <1>7, <1>8, <1>9, <1>10 DEF UInv

\* summarize starts.
LEMMA StartSummarizeU == ASSUME PInv, UInv, StartSummarize PROVE UInv'
<1> USE DEF Working, Has, Kept, Succeeded, Ended, Over, FreshAt, Active, IsActive, Ids, Mine,
         Lost, HasJson
<1>1. /\ worker.pc \in {"start", "claimed"} /\ Mine.kind = "summarize"
      /\ worker \in Worker /\ Lines /\ Busy
      /\ UNCHANGED <<speech, jobs, art, disk>>
  BY StartsFresh DEF StartSummarize, Doing, PInv, IInv, Hand, UInv
<1>2. /\ worker.job \in Ids /\ Mine.status = "running"
      /\ \A j \in Ids : jobs[j].status = "running" => j = worker.job
      /\ \A j \in Ids : jobs[j].kind = Mine.kind => j = worker.job \/ jobs[j].status = "failed"
  BY <1>1, Lone
<1>3. /\ ~SummarizeOutdated /\ UNCHANGED rec
      /\ Mine.revived \/ Mine.attempts = 1 =>
            art.sum = {} /\ (Mine.revived \/ disk.sum = {})
  <2>1. Mine.revision = 1 /\ Mine.input = rec.category
    BY <1>1, Lone DEF InputOf
  <2>2. QED
    BY <1>1, <2>1, StartsFresh DEF SummarizeOutdated, Lines, StartSummarize
<1>4. CASE Raise(FileGone(rec.revision))
  <2>1. FileGone(rec.revision) \in BOOLEAN
    BY Zenon DEF FileGone
  <2>2. QED
    BY <1>1, <1>3, <1>4, <2>1, RaiseU DEF LeavesFile
<1>5. CASE Proceed("model", None)
  <2>1. /\ worker'.pc = "model" /\ worker'.job = worker.job /\ worker'.doc = None
        /\ worker'.seen = rec /\ worker'.resumed = worker.resumed
    BY <1>1, <1>5, ProceedIs
  <2>2. Lines'
    BY <1>1, <1>2, <1>3, <2>1 DEF UInv, Lines, InputOf, Busy
  <2>3. Words'
    BY <1>1, <1>2, <1>3, <2>1 DEF UInv, Words, Told
  <2>4. Transcribing'
    BY <1>1, <1>2, <1>3, <2>1, Reached DEF UInv, Transcribing, Busy
  <2>5. Finalizing'
    BY <1>1, <1>2, <1>3, <2>1, Reached DEF UInv, Finalizing, Intact, Busy
  <2>6. Classifying'
    BY <1>1, <1>2, <1>3, <2>1, Reached DEF UInv, Classifying, Documented, Intact, MatchesCategory, Rendered, Writing, Busy
  <2>7. Summarizing'
    BY <1>1, <1>2, <1>3, <2>1, Reached DEF UInv, Summarizing, NewSummary, Busy, Lines
  <2>8. QED
    BY <2>2, <2>3, <2>4, <2>5, <2>6, <2>7 DEF UInv
<1>6. QED
  BY <1>3, <1>4, <1>5 DEF StartSummarize

-----------------------------------------------------------------------------
(* A handler between its models and its end *)

\* The transcription is there.
LEMMA TranscribedU == ASSUME PInv, UInv, Transcribed PROVE UInv'
<1> USE DEF Working, Has, Kept, Succeeded, Ended, Over, FreshAt, Active, IsActive, Ids, Mine,
         Lost, HasJson
<1>1. /\ worker.pc = "model" /\ Mine.kind = "transcribe" /\ worker \in Worker
      /\ UNCHANGED <<rec, jobs, art, disk>> /\ Lines
  BY DEF Transcribed, At, Doing, PInv, IInv, Hand, UInv
<1>2. /\ worker.job \in Ids /\ Mine.status = "running"
      /\ \A j \in Ids : jobs[j].status = "running" => j = worker.job
      /\ \A j \in Ids : jobs[j].kind = Mine.kind => j = worker.job \/ jobs[j].status = "failed"
      /\ ~Retranscription(worker.job)
      /\ worker.seen \in RecordingRow
  BY <1>1, Lone DEF Busy, Fits, Saw
<1>3. worker.seen.revision = 1
  <2>1. worker.seen.revision \in 1..MaxRevision /\ worker.seen.revision <= 1
    BY <1>1, <1>2, AbsenceAssumption DEF PInv, Knows, Lines, RecordingRow, Revision
  <2>2. QED
    BY <2>1
<1>4. /\ worker'.pc = "jsonFile" /\ worker'.doc = FreshTranscript(1)
      /\ worker'.job = worker.job /\ worker'.seen = worker.seen
      /\ worker'.resumed = worker.resumed
      /\ speech'.text = 1
  <2>1. /\ worker' = [worker EXCEPT !.pc = "jsonFile", !.doc = FreshTranscript(1)]
        /\ speech' = [speech EXCEPT !.text = 1, !.pending = @ \/ speech.text = 0]
    BY <1>1, <1>2, <1>3 DEF Transcribed
  <2>2. speech \in SpeechRow
    BY DEF PInv, IInv, Files
  <2>3. QED
    BY <1>1, <2>1, <2>2 DEF Worker, SpeechRow
<1>5. ~HasJson(1) /\ art.md[1] = None
  BY <1>1, <1>2 DEF UInv, Transcribing, Classifying
<1>6. disk.json[0] # None => disk.json[0].text = 1 /\ disk.json[0].revision = 1
  BY DEF UInv, Words, Told
<1>7. Lines'
  BY <1>1, <1>2, <1>4, <1>5 DEF UInv, Lines, InputOf, Busy
<1>8. Words'
  BY <1>1, <1>2, <1>4, <1>5, <1>6 DEF UInv, Words, Told, FreshTranscript
<1>9. Transcribing'
  BY <1>1, <1>2, <1>4, <1>5, Reached DEF UInv, Transcribing, Busy
<1>10. Finalizing'
  BY <1>1, <1>2, <1>4, <1>5, Reached DEF UInv, Finalizing, Intact, Busy
<1>11. Classifying'
  BY <1>1, <1>2, <1>4, <1>5, Reached DEF UInv, Classifying, Documented, Intact, MatchesCategory, Rendered, Writing, Busy
<1>12. Summarizing'
  BY <1>1, <1>2, <1>4, <1>5, Reached DEF UInv, Summarizing, NewSummary, Busy
<1>13. QED
  BY <1>7, <1>8, <1>9, <1>10, <1>11, <1>12 DEF UInv

\* The classification is there.
LEMMA ClassifiedU == ASSUME PInv, UInv, Classified PROVE UInv'
<1> USE DEF Working, Has, Kept, Succeeded, Ended, Over, FreshAt, Active, IsActive, Ids, Mine,
         Lost, HasJson
<1>1. /\ worker.pc = "model" /\ Mine.kind = "classify" /\ worker \in Worker
      /\ UNCHANGED <<speech, jobs, art, disk>> /\ Lines
  BY DEF Classified, At, Doing, PInv, IInv, Hand, UInv
<1>2. /\ worker.job \in Ids /\ Mine.status = "running"
      /\ \A j \in Ids : jobs[j].status = "running" => j = worker.job
      /\ \A j \in Ids : jobs[j].kind = Mine.kind => j = worker.job \/ jobs[j].status = "failed"
      /\ worker.doc \in Transcript /\ worker.doc # None
  BY <1>1, Lone, AbsenceAssumption DEF Busy, Fits, Holds
<1>3. PICK c \in Category :
         rec' = IF KeepsCategory THEN rec
                ELSE [rec EXCEPT !.category = c, !.source = "auto"]
  BY DEF Classified
<1>4. /\ rec'.category = c /\ c # None /\ rec'.source = "auto"
      /\ rec'.revision = rec.revision /\ rec'.status = rec.status
  BY <1>1, <1>3, NoneAssumption DEF KeepsCategory, Lines, PInv, IInv, Row, RecordingRow
<1>5. /\ worker'.pc = "jsonFile" /\ worker'.job = worker.job
      /\ worker'.seen = worker.seen /\ worker'.resumed = worker.resumed
      /\ worker'.doc.revision = worker.doc.revision
      /\ worker'.doc.text = worker.doc.text /\ worker'.doc.graded
      /\ worker'.doc.category = rec'.category /\ worker'.doc.source = rec'.source
  BY <1>1, <1>2 DEF Classified, Worker, Transcript
<1>6. art.md[1] = None /\ rec.status = "CLASSIFYING"
  BY <1>1, <1>2 DEF UInv, Classifying
<1>7. ~Has("summarize") /\ art.sum = {} /\ disk.sum = {} /\ Has("classify")
  BY <1>1, <1>2, Reached DEF Busy
<1>8. Lines'
  BY <1>1, <1>2, <1>4, <1>5, <1>6, <1>7 DEF UInv, Lines, InputOf, Busy
<1>9. Words'
  BY <1>1, <1>2, <1>4, <1>5, <1>6, <1>7 DEF UInv, Words, Told
<1>10. Transcribing'
  BY <1>1, <1>2, <1>4, <1>5, <1>6, <1>7, Reached DEF UInv, Transcribing, Busy
<1>11. Finalizing'
  BY <1>1, <1>2, <1>4, <1>5, <1>6, <1>7, Reached DEF UInv, Finalizing, Intact, Busy
<1>12. Classifying'
  BY <1>1, <1>2, <1>4, <1>5, <1>6, <1>7, Reached DEF UInv, Classifying, Documented, Intact, MatchesCategory, Rendered, Writing, Busy
<1>13. Summarizing'
  BY <1>1, <1>2, <1>4, <1>5, <1>6, <1>7, Reached DEF UInv, Summarizing, NewSummary, Busy
<1>14. QED
  BY <1>8, <1>9, <1>10, <1>11, <1>12, <1>13 DEF UInv

\* The speakers stay as they are.
LEMMA KeepSpeakersU == ASSUME PInv, UInv, KeepSpeakers PROVE UInv'
<1> USE DEF Working, Has, Kept, Succeeded, Ended, Over, FreshAt, Active, IsActive, Ids, Mine,
         Lost, HasJson
<1>1. /\ worker.pc = "match" /\ worker \in Worker
      /\ UNCHANGED <<rec, speech, jobs, art, disk>> /\ Lines
  BY DEF KeepSpeakers, At, PInv, IInv, Hand, UInv
<1>2. /\ worker.job \in Ids /\ Mine.status = "running"
      /\ \A j \in Ids : jobs[j].status = "running" => j = worker.job
      /\ \A j \in Ids : jobs[j].kind = Mine.kind => j = worker.job \/ jobs[j].status = "failed"
      /\ Mine.kind = "finalize_speakers"
      /\ ~FinalizeOutdated
  BY <1>1, Lone DEF Busy, Fits, Places, FinalizeOutdated, Lines
<1>3. /\ worker'.pc = "follow"
      /\ worker'.job = worker.job /\ worker'.doc = worker.doc
      /\ worker'.seen = worker.seen /\ worker'.resumed = worker.resumed
  BY <1>1, <1>2, GotoIs DEF KeepSpeakers
<1>4. Lines'
  BY <1>1, <1>2, <1>3 DEF UInv, Lines, InputOf, Busy
<1>5. Words'
  BY <1>1, <1>2, <1>3 DEF UInv, Words, Told
<1>6. Transcribing'
  BY <1>1, <1>2, <1>3, Reached DEF UInv, Transcribing, Busy
<1>7. Finalizing'
  BY <1>1, <1>2, <1>3, Reached DEF UInv, Finalizing, Intact, Busy
<1>8. Classifying'
  BY <1>1, <1>2, <1>3, Reached DEF UInv, Classifying, Documented, Intact, MatchesCategory, Rendered, Writing, Busy
<1>9. Summarizing'
  BY <1>1, <1>2, <1>3, Reached DEF UInv, Summarizing, NewSummary, Busy
<1>10. QED
  BY <1>4, <1>5, <1>6, <1>7, <1>8, <1>9 DEF UInv

\* The recording is marked as failed.
LEMMA MarkFailedU == ASSUME PInv, UInv, MarkFailed PROVE UInv'
<1> USE DEF Working, Has, Kept, Succeeded, Ended, Over, FreshAt, Active, IsActive, Ids, Mine,
         Lost, HasJson
<1>1. /\ worker.pc = "marking" /\ worker \in Worker /\ Lines
      /\ UNCHANGED <<speech, jobs, art, disk>>
  BY DEF MarkFailed, At, PInv, IInv, Hand, UInv
<1>2. /\ worker.job \in Ids /\ Mine.status = "running"
      /\ \A j \in Ids : jobs[j].status = "running" => j = worker.job
      /\ \A j \in Ids : jobs[j].kind = Mine.kind => j = worker.job \/ jobs[j].status = "failed"
      /\ Mine.kind \in {"transcribe", "classify"}
  BY <1>1, Lone DEF Busy, Lines
<1>3. /\ worker'.pc = "failing" /\ worker'.retry = worker.retry
      /\ worker'.job = worker.job /\ worker'.doc = worker.doc
      /\ worker'.seen = worker.seen /\ worker'.resumed = worker.resumed
  BY <1>1, GotoIs DEF MarkFailed
<1>4. /\ rec'.revision = rec.revision /\ rec'.category = rec.category
      /\ rec'.source = rec.source /\ rec'.status \in {rec.status, "FAILED"}
  BY DEF MarkFailed, Transition, PInv, IInv, Row, RecordingRow
<1>5. Mine.kind = "transcribe" => ~HasJson(1) /\ art.md[1] = None
  BY <1>1, <1>2 DEF UInv, Transcribing, Classifying
<1>6. Lines'
  BY <1>1, <1>2, <1>3, <1>4, <1>5 DEF UInv, Lines, InputOf, Busy
<1>7. Words'
  BY <1>1, <1>2, <1>3, <1>4, <1>5 DEF UInv, Words, Told
<1>8. Transcribing'
  BY <1>1, <1>2, <1>3, <1>4, <1>5, Reached DEF UInv, Transcribing, Busy
<1>9. Finalizing'
  BY <1>1, <1>2, <1>3, <1>4, <1>5, Reached DEF UInv, Finalizing, Intact, Busy
<1>10. Classifying'
  BY <1>1, <1>2, <1>3, <1>4, <1>5, Reached DEF UInv, Classifying, Documented, Intact, MatchesCategory, Rendered, Writing, Busy
<1>11. Summarizing'
  BY <1>1, <1>2, <1>3, <1>4, <1>5, Reached DEF UInv, Summarizing, NewSummary, Busy
<1>12. QED
  BY <1>6, <1>7, <1>8, <1>9, <1>10, <1>11 DEF UInv

\* A summary is written.
LEMMA WriteSummaryU == ASSUME PInv, UInv, WriteSummary PROVE UInv'
<1> USE DEF Working, Has, Kept, Succeeded, Ended, Over, FreshAt, Active, IsActive, Ids, Mine,
         Lost, HasJson
<1>1. /\ worker.pc = "sumFile" /\ worker \in Worker /\ Lines
      /\ UNCHANGED <<rec, speech, jobs, art>>
  BY DEF WriteSummary, At, PInv, IInv, Hand, UInv
<1>2. /\ worker.job \in Ids /\ Mine.status = "running"
      /\ \A j \in Ids : jobs[j].status = "running" => j = worker.job
      /\ \A j \in Ids : jobs[j].kind = Mine.kind => j = worker.job \/ jobs[j].status = "failed"
      /\ Mine.kind = "summarize"
  BY <1>1, Lone DEF Busy, Fits, Places
<1>3. /\ worker'.pc = "sumRow"
      /\ worker'.job = worker.job /\ worker'.doc = worker.doc
      /\ worker'.seen = worker.seen /\ worker'.resumed = worker.resumed
  BY <1>1, GotoIs DEF WriteSummary
<1>4. /\ disk'.json = disk.json /\ disk'.md = disk.md
      /\ disk'.sum = {f \in disk.sum : ~SamePath(f, NewSummary)} \cup {NewSummary}
  BY DEF WriteSummary, SummaryWritten, SummaryFileWritten, PInv, IInv, Files
<1>5. NewSummary.revision = 1 /\ NewSummary.category = rec.category
  BY <1>1, <1>2 DEF UInv, Summarizing, NewSummary
<1>6. Lines'
  BY <1>1, <1>2, <1>3, <1>4, <1>5 DEF UInv, Lines, InputOf, Busy
<1>7. Words'
  BY <1>1, <1>2, <1>3, <1>4, <1>5 DEF UInv, Words, Told
<1>8. Transcribing'
  BY <1>1, <1>2, <1>3, <1>4, <1>5, Reached DEF UInv, Transcribing, Busy
<1>9. Finalizing'
  BY <1>1, <1>2, <1>3, <1>4, <1>5, Reached DEF UInv, Finalizing, Intact, Busy
<1>10. Classifying'
  BY <1>1, <1>2, <1>3, <1>4, <1>5, Reached DEF UInv, Classifying, Documented, Intact, MatchesCategory, Rendered, Writing, Busy
<1>11. Summarizing'
  BY <1>1, <1>2, <1>3, <1>4, <1>5, Reached DEF UInv, Lines, Summarizing, NewSummary, Busy
<1>12. QED
  BY <1>6, <1>7, <1>8, <1>9, <1>10, <1>11 DEF UInv

\* It is registered.
LEMMA RegisterSummaryU == ASSUME PInv, UInv, RegisterSummary PROVE UInv'
<1> USE DEF Working, Has, Kept, Succeeded, Ended, Over, FreshAt, Active, IsActive, Ids, Mine,
         Lost, HasJson
<1>1. /\ worker.pc = "sumRow" /\ worker \in Worker /\ Lines
      /\ UNCHANGED <<rec, speech, jobs>>
  BY DEF RegisterSummary, At, PInv, IInv, Hand, UInv
<1>2. /\ worker.job \in Ids /\ Mine.status = "running"
      /\ \A j \in Ids : jobs[j].status = "running" => j = worker.job
      /\ \A j \in Ids : jobs[j].kind = Mine.kind => j = worker.job \/ jobs[j].status = "failed"
      /\ Mine.kind = "summarize"
  BY <1>1, Lone DEF Busy, Fits, Places
<1>3. /\ NewSummary \in disk.sum /\ worker.seen.status = rec.status
      /\ \A s \in art.sum : s.revision = NewSummary.revision
                         /\ s.category = NewSummary.category
  BY <1>1, <1>2 DEF UInv, Summarizing, NewSummary
<1>4. /\ art'.json = art.json /\ art'.md = art.md /\ art'.sum = {NewSummary}
      /\ disk' = disk
  <2>1. SummaryRowsAfter(NewSummary) = {NewSummary}
    BY <1>3 DEF SummaryRowsAfter
  <2>2. SummaryFilesAfter(NewSummary) = disk.sum
    BY <1>3 DEF SummaryFilesAfter
  <2>3. QED
    BY <2>1, <2>2 DEF RegisterSummary, PInv, IInv, Files
<1>5. /\ worker'.job = worker.job
      /\ worker'.doc \in {worker.doc, None} /\ (worker'.resumed => worker.resumed)
      /\ \/ worker'.pc = "done" /\ rec.status = "COMPLETED"
         \/ worker'.pc = "ready"
  BY <1>1, <1>3, GotoIs, ReturnIs DEF RegisterSummary
<1>6. Lines'
  BY <1>1, <1>2, <1>3, <1>4, <1>5 DEF UInv, Lines, InputOf, Busy
<1>7. Words'
  BY <1>1, <1>2, <1>3, <1>4, <1>5 DEF UInv, Words, Told
<1>8. Transcribing'
  BY <1>1, <1>2, <1>3, <1>4, <1>5, Reached DEF UInv, Transcribing, Busy
<1>9. Finalizing'
  BY <1>1, <1>2, <1>3, <1>4, <1>5, Reached DEF UInv, Finalizing, Intact, Busy
<1>10. Classifying'
  BY <1>1, <1>2, <1>3, <1>4, <1>5, Reached DEF UInv, Classifying, Documented, Intact, MatchesCategory, Rendered, Writing, Busy
<1>11. Summarizing'
  BY <1>1, <1>2, <1>3, <1>4, <1>5, Reached DEF UInv, Summarizing, NewSummary, Busy
<1>12. QED
  BY <1>6, <1>7, <1>8, <1>9, <1>10, <1>11 DEF UInv

\* The recording is COMPLETED.
LEMMA LastTransitionU == ASSUME PInv, UInv, LastTransition PROVE UInv'
<1> USE DEF Working, Has, Kept, Succeeded, Ended, Over, FreshAt, Active, IsActive, Ids, Mine,
         Lost, HasJson
<1>1. /\ worker.pc = "ready" /\ worker \in Worker /\ Lines /\ Busy
      /\ UNCHANGED <<speech, jobs, art, disk>>
  BY NoEdit DEF LastTransition, Busy, PInv, IInv, Hand, UInv
<1>2. /\ worker.job \in Ids /\ Mine.status = "running"
      /\ \A j \in Ids : jobs[j].status = "running" => j = worker.job
      /\ \A j \in Ids : jobs[j].kind = Mine.kind => j = worker.job \/ jobs[j].status = "failed"
      /\ Mine.kind \in {"classify", "summarize"}
  BY <1>1, Lone DEF Busy, Lines
<1>3. CASE Raise(FALSE) /\ UNCHANGED rec
  BY <1>1, <1>2, <1>3, RaiseU DEF LeavesFile
<1>4. CASE Transition("COMPLETED") /\ Return
  <2>1. /\ rec'.revision = rec.revision /\ rec'.category = rec.category
        /\ rec'.source = rec.source /\ rec'.status = "COMPLETED"
    BY <1>4 DEF Transition, PInv, IInv, Row, RecordingRow
  <2>2. /\ worker'.pc = "done" /\ worker'.job = worker.job /\ worker'.doc = None
        /\ ~worker'.resumed
    BY <1>4, ReturnIs
  <2>3. Lines'
    BY <1>1, <1>2, <2>1, <2>2 DEF UInv, Lines, InputOf, Busy
  <2>4. Words'
    BY <1>1, <1>2, <2>1, <2>2 DEF UInv, Words, Told
  <2>5. Transcribing'
    BY <1>1, <1>2, <2>1, <2>2, Reached DEF UInv, Transcribing, Busy
  <2>6. Finalizing'
    BY <1>1, <1>2, <2>1, <2>2, Reached DEF UInv, Finalizing, Intact, Busy
  <2>7. Classifying'
    BY <1>1, <1>2, <2>1, <2>2, Reached DEF UInv, Classifying, Documented, Intact, MatchesCategory, Rendered, Writing, Busy
  <2>8. Summarizing'
    BY <1>1, <1>2, <2>1, <2>2, Reached DEF UInv, Summarizing, NewSummary, Busy
  <2>9. QED
    BY <2>3, <2>4, <2>5, <2>6, <2>7, <2>8 DEF UInv
<1>5. QED
  BY <1>1, <1>3, <1>4 DEF LastTransition, At

-----------------------------------------------------------------------------
(* The last part of a handler: the follow-up job and the new status *)

\* A row is inserted.
LEMMA InsertIs ==
    ASSUME TableOk(jobs), NEW job, Insert(job)
    PROVE  \E n : /\ n \notin Ids /\ DOMAIN jobs' = Ids \cup {n} /\ n \in Nat
                  /\ jobs'[n] = job
                  /\ \A j \in Ids : jobs'[j] = jobs[j] /\ j < n
<1>1. /\ jobs \in Seq(Job) /\ jobs' = Append(jobs, job)
      /\ DOMAIN jobs = 1..Len(jobs) /\ Len(jobs) \in Nat
  BY DEF TableOk, Insert
<1>2. /\ DOMAIN jobs' = 1..(Len(jobs) + 1)
      /\ jobs'[Len(jobs) + 1] = job
      /\ \A j \in 1..Len(jobs) : jobs'[j] = jobs[j]
  BY <1>1
<1>3. 1..(Len(jobs) + 1) = 1..Len(jobs) \cup {Len(jobs) + 1}
  BY <1>1
<1>4. WITNESS Len(jobs) + 1
<1>5. QED
  BY <1>1, <1>2, <1>3 DEF Ids

\* A transcription ends with its finalize_speakers job.
LEMMA TranscribeEndsU ==
    ASSUME PInv, UInv, worker.pc \in {"follow", "settle"}, Mine.kind = "transcribe",
           Return, Insert(NewJob("finalize_speakers", 1, "current")),
           UNCHANGED <<rec, speech, art, disk>>
    PROVE  UInv'
<1> USE DEF Working, Has, Kept, Succeeded, Ended, Over, FreshAt, Active, IsActive, Ids, Mine,
         Lost, HasJson
<1>n. PICK n : /\ n \notin Ids /\ DOMAIN jobs' = Ids \cup {n} /\ n \in Nat
               /\ jobs'[n] = NewJob("finalize_speakers", 1, "current")
               /\ \A j \in Ids : jobs'[j] = jobs[j] /\ j < n
  BY InsertIs DEF PInv, IInv
<1>1. Busy /\ Lines /\ HasJson(1) /\ ~speech.pending
  BY DEF Busy, UInv, Transcribing
<1>2. /\ worker.job \in Ids /\ Mine.status = "running"
      /\ \A j \in Ids : jobs[j].status = "running" => j = worker.job
      /\ \A j \in Ids : jobs[j].kind = Mine.kind => j = worker.job \/ jobs[j].status = "failed"
  BY <1>1, Lone
<1>3. /\ worker'.pc = "done" /\ worker'.job = worker.job /\ worker'.doc = None
      /\ ~worker'.resumed
  BY ReturnIs
<1>4. /\ jobs'[n].kind = "finalize_speakers" /\ jobs'[n].status = "queued"
      /\ jobs'[n].input = "current" /\ jobs'[n].retryOf = 0
  BY <1>n DEF NewJob
<1>5. Lines'
  BY <1>n, <1>1, <1>2, <1>3, <1>4 DEF UInv, Lines, InputOf, Busy
<1>6. Words'
  BY <1>n, <1>1, <1>2, <1>3, <1>4 DEF UInv, Words, Told
<1>7. Transcribing'
  BY <1>n, <1>1, <1>2, <1>3, <1>4, Reached DEF UInv, Transcribing, Busy
<1>8. Finalizing'
  BY <1>n, <1>1, <1>2, <1>3, <1>4, Reached DEF UInv, Finalizing, Intact, Busy
<1>9. Classifying'
  BY <1>n, <1>1, <1>2, <1>3, <1>4, Reached DEF UInv, Classifying, Documented, Intact, MatchesCategory, Rendered, Writing, Busy
<1>10. Summarizing'
  BY <1>n, <1>1, <1>2, <1>3, <1>4, Reached DEF UInv, Summarizing, NewSummary, Busy
<1>11. QED
  BY <1>5, <1>6, <1>7, <1>8, <1>9, <1>10 DEF UInv

\* transcribe makes sure that its finalize_speakers job is there.
LEMMA FollowTranscribeU == ASSUME PInv, UInv, FollowTranscribe PROVE UInv'
<1>1. /\ worker.pc = "follow" /\ Mine.kind = "transcribe" /\ Busy /\ Lines
      /\ UNCHANGED <<rec, speech, art, disk>>
  BY DEF FollowTranscribe, At, Doing, Busy, UInv
<1>2. ~Has("finalize_speakers")
  BY <1>1, Reached
<1>3. worker.doc.revision = 1
  BY <1>1, Lone, AbsenceAssumption DEF UInv, Words, Told, Fits, Holds
<1>4. /\ SameInput("finalize_speakers", 1, "current") = {}
      /\ ~Conflicts("finalize_speakers")
  BY <1>2 DEF SameInput, Conflicts, ActiveKind, Has
<1>5. Return /\ Insert(NewJob("finalize_speakers", 1, "current"))
  BY <1>3, <1>4 DEF FollowTranscribe, CanEnqueue, Enqueue
<1>6. QED
  BY <1>1, <1>5, TranscribeEndsU

\* .. and so does a transcribe that was resumed.
LEMMA SettleTranscribeU == ASSUME PInv, UInv, SettleTranscribe PROVE UInv'
<1>1. /\ worker.pc = "settle" /\ Mine.kind = "transcribe" /\ Busy /\ Lines
      /\ UNCHANGED <<rec, speech, art, disk>>
  BY DEF SettleTranscribe, At, Doing, Busy, UInv
<1>2. ~Has("finalize_speakers")
  BY <1>1, Reached
<1>3. worker.doc.revision = 1
  BY <1>1, Lone, AbsenceAssumption DEF UInv, Words, Told, Fits, Holds
<1>4. /\ FollowMissing("finalize_speakers", 1)
      /\ ~Conflicts("finalize_speakers")
  BY <1>2 DEF FollowMissing, OfInput, Conflicts, ActiveKind, Has
<1>5. Return /\ Insert(NewJob("finalize_speakers", 1, "current"))
  BY <1>3, <1>4 DEF SettleTranscribe, FollowConflicts
<1>6. QED
  BY <1>1, <1>5, TranscribeEndsU

\* The recording waits for its classification.
LEMMA FollowFinalizeU == ASSUME PInv, UInv, FollowFinalize PROVE UInv'
<1> USE DEF Working, Has, Kept, Succeeded, Ended, Over, FreshAt, Active, IsActive, Ids, Mine,
         Lost, HasJson
<1>1. /\ worker.pc = "follow" /\ Mine.kind = "finalize_speakers" /\ Busy /\ Lines
      /\ UNCHANGED <<speech, art, disk>>
  BY DEF FollowFinalize, At, Doing, Busy, UInv
<1>2. /\ worker.job \in Ids /\ Mine.status = "running"
      /\ \A j \in Ids : jobs[j].status = "running" => j = worker.job
      /\ \A j \in Ids : jobs[j].kind = Mine.kind => j = worker.job \/ jobs[j].status = "failed"
      /\ HasJson(1)
  BY <1>1, Lone, Reached
<1>3. CASE /\ rec.status # "TRANSCRIBING" /\ Return /\ UNCHANGED <<rec, jobs>>
  <2>1. /\ worker'.pc = "done" /\ worker'.job = worker.job /\ worker'.doc = None
        /\ ~worker'.resumed
    BY <1>3, ReturnIs
  <2>2. Has("classify")
    BY <1>1, <1>2, <1>3 DEF UInv, Finalizing
  <2>3. Lines'
    BY <1>1, <1>2, <1>3, <2>1, <2>2 DEF UInv, Lines, InputOf, Busy
  <2>4. Words'
    BY <1>1, <1>2, <1>3, <2>1, <2>2 DEF UInv, Words, Told
  <2>5. Transcribing'
    BY <1>1, <1>2, <1>3, <2>1, <2>2, Reached DEF UInv, Transcribing, Busy
  <2>6. Finalizing'
    BY <1>1, <1>2, <1>3, <2>1, <2>2, Reached DEF UInv, Finalizing, Intact, Busy
  <2>7. Classifying'
    BY <1>1, <1>2, <1>3, <2>1, <2>2, Reached DEF UInv, Classifying, Documented, Intact, MatchesCategory, Rendered, Writing, Busy
  <2>8. Summarizing'
    BY <1>1, <1>2, <1>3, <2>1, <2>2, Reached DEF UInv, Summarizing, NewSummary, Busy
  <2>9. QED
    BY <2>3, <2>4, <2>5, <2>6, <2>7, <2>8 DEF UInv
<1>4. CASE rec.status = "TRANSCRIBING"
  <2>1. worker.seen.revision = 1
    <3>1. worker.seen \in RecordingRow
      BY <1>1, Lone DEF Fits, Saw
    <3>2. worker.seen.revision \in 1..MaxRevision /\ worker.seen.revision <= 1
      BY <1>1, <3>1, AbsenceAssumption DEF PInv, Knows, Lines, RecordingRow, Revision
    <3>3. QED
      BY <3>2
  <2>2. CanTransition("CLASSIFYING") /\ CanEnqueue("classify", 1, "current")
    <3>1. CanTransition("CLASSIFYING")
      BY <1>4 DEF CanTransition, Allowed
    <3>2. ActiveKind("classify") => SameInput("classify", 1, "current") # {}
      BY <1>1, FirstRevision DEF ActiveKind, SameInput, Lines, InputOf
    <3>3. QED
      BY <3>1, <3>2 DEF CanEnqueue, Conflicts
  <2>3. /\ Transition("CLASSIFYING") /\ Enqueue("classify", 1, "current") /\ Return
    BY <1>1, <1>4, <2>1, <2>2 DEF FollowFinalize, AwaitsClassification, TransitionAndEnqueue
  <2>4. /\ worker'.pc = "done" /\ worker'.job = worker.job /\ worker'.doc = None
        /\ ~worker'.resumed
    BY <2>3, ReturnIs
  <2>5. /\ rec'.revision = rec.revision /\ rec'.category = rec.category
        /\ rec'.source = rec.source /\ rec'.status = "CLASSIFYING"
    BY <2>3 DEF Transition, PInv, IInv, Row, RecordingRow
  <2>6. /\ art.md[1] = None /\ ~Succeeded("summarize")
        /\ Has("classify") /\ Succeeded("classify") => Has("summarize")
    BY <1>4 DEF UInv, Finalizing, Classifying, Summarizing
  <2>7. CASE SameInput("classify", 1, "current") # {} /\ UNCHANGED jobs
    <3>1. Has("classify")
      BY <2>7 DEF SameInput
    <3>2. Lines'
      BY <1>1, <1>2, <1>4, <2>4, <2>5, <2>6, <2>7, <3>1 DEF UInv, Lines, InputOf, Busy
    <3>3. Words'
      BY <1>1, <1>2, <1>4, <2>4, <2>5, <2>6, <2>7, <3>1 DEF UInv, Words, Told
    <3>4. Transcribing'
      BY <1>1, <1>2, <1>4, <2>4, <2>5, <2>6, <2>7, <3>1, Reached DEF UInv, Transcribing, Busy
    <3>5. Finalizing'
      BY <1>1, <1>2, <1>4, <2>4, <2>5, <2>6, <2>7, <3>1, Reached DEF UInv, Finalizing, Intact, Busy
    <3>6. Classifying'
      BY <1>1, <1>2, <1>4, <2>4, <2>5, <2>6, <2>7, <3>1, Reached DEF UInv, Classifying, Documented, Intact, MatchesCategory, Rendered, Writing, Busy
    <3>7. Summarizing'
      BY <1>1, <1>2, <1>4, <2>4, <2>5, <2>6, <2>7, <3>1, Reached DEF UInv, Summarizing, NewSummary, Busy
    <3>8. QED
      BY <3>2, <3>3, <3>4, <3>5, <3>6, <3>7 DEF UInv
  <2>8. CASE /\ SameInput("classify", 1, "current") = {}
             /\ Insert(NewJob("classify", 1, "current"))
    <3>n. PICK n : /\ n \notin Ids /\ DOMAIN jobs' = Ids \cup {n} /\ n \in Nat
                   /\ jobs'[n] = NewJob("classify", 1, "current")
                   /\ \A j \in Ids : jobs'[j] = jobs[j] /\ j < n
      BY <2>8, InsertIs DEF PInv, IInv
    <3>1. /\ jobs'[n].kind = "classify" /\ jobs'[n].status = "queued"
          /\ jobs'[n].input = "current" /\ jobs'[n].retryOf = 0
      BY <3>n DEF NewJob
    <3>2. ~Kept("classify") /\ ~Has("summarize")
      <4>1. ~Kept("classify")
        BY <1>1, <2>8, FirstRevision DEF SameInput, Lines, InputOf, Job, JobStatus
      <4>2. QED
        BY <4>1 DEF UInv, Classifying
    <3>3. Lines'
      BY <1>1, <1>2, <1>4, <2>4, <2>5, <2>6, <3>n, <3>1, <3>2 DEF UInv, Lines, InputOf, Busy
    <3>4. Words'
      BY <1>1, <1>2, <1>4, <2>4, <2>5, <2>6, <3>n, <3>1, <3>2 DEF UInv, Words, Told
    <3>5. Transcribing'
      BY <1>1, <1>2, <1>4, <2>4, <2>5, <2>6, <3>n, <3>1, <3>2, Reached DEF UInv, Transcribing, Busy
    <3>6. Finalizing'
      BY <1>1, <1>2, <1>4, <2>4, <2>5, <2>6, <3>n, <3>1, <3>2, Reached DEF UInv, Finalizing, Intact, Busy
    <3>7. Classifying'
      BY <1>1, <1>2, <1>4, <2>4, <2>5, <2>6, <3>n, <3>1, <3>2, Reached DEF UInv, Classifying, Documented, Intact, MatchesCategory, Rendered, Writing, Busy
    <3>8. Summarizing'
      BY <1>1, <1>2, <1>4, <2>4, <2>5, <2>6, <3>n, <3>1, <3>2, Reached DEF UInv, Summarizing, NewSummary, Busy
    <3>9. QED
      BY <3>3, <3>4, <3>5, <3>6, <3>7, <3>8 DEF UInv
  <2>9. QED
    BY <2>3, <2>7, <2>8 DEF Enqueue
<1>5. QED
  BY <1>1, <1>3, <1>4 DEF FollowFinalize, AwaitsClassification

\* A classification ends with its summary job ..
LEMMA ClassifyAsksU ==
    ASSUME PInv, UInv, Busy, worker.pc # "done", Mine.kind = "classify",
           Documented, Return, rec' = [rec EXCEPT !.status = "SUMMARIZING"],
           Insert(NewJob("summarize", 1, rec.category)),
           UNCHANGED <<speech, art, disk>>
    PROVE  UInv'
<1> USE DEF Working, Has, Kept, Succeeded, Ended, Over, FreshAt, Active, IsActive, Ids, Mine,
         Lost, HasJson
<1>n. PICK n : /\ n \notin Ids /\ DOMAIN jobs' = Ids \cup {n} /\ n \in Nat
               /\ jobs'[n] = NewJob("summarize", 1, rec.category)
               /\ \A j \in Ids : jobs'[j] = jobs[j] /\ j < n
  BY InsertIs DEF PInv, IInv
<1>1. /\ worker.job \in Ids /\ Mine.status = "running"
      /\ \A j \in Ids : jobs[j].status = "running" => j = worker.job
      /\ \A j \in Ids : jobs[j].kind = Mine.kind => j = worker.job \/ jobs[j].status = "failed"
      /\ ~Has("summarize") /\ art.sum = {} /\ disk.sum = {} /\ Has("classify")
  BY Lone, Reached DEF UInv
<1>2. /\ worker'.pc = "done" /\ worker'.job = worker.job /\ worker'.doc = None
      /\ ~worker'.resumed
  BY ReturnIs
<1>3. /\ jobs'[n].kind = "summarize" /\ jobs'[n].status = "queued"
      /\ jobs'[n].input = rec.category /\ jobs'[n].retryOf = 0
  BY <1>n DEF NewJob
<1>4. /\ rec'.revision = rec.revision /\ rec'.category = rec.category
      /\ rec'.source = rec.source /\ rec'.status = "SUMMARIZING"
  BY DEF PInv, IInv, Row, RecordingRow
<1>5. Documented'
  BY <1>1, <1>4 DEF Documented, Intact, MatchesCategory, Rendered
<1>6. Lines'
  BY <1>n, <1>1, <1>2, <1>3, <1>4, <1>5 DEF UInv, Lines, InputOf, Busy
<1>7. Words'
  BY <1>n, <1>1, <1>2, <1>3, <1>4, <1>5 DEF UInv, Words, Told
<1>8. Transcribing'
  BY <1>n, <1>1, <1>2, <1>3, <1>4, <1>5, Reached DEF UInv, Transcribing, Busy
<1>9. Finalizing'
  BY <1>n, <1>1, <1>2, <1>3, <1>4, <1>5, Reached DEF UInv, Finalizing, Intact, Busy
<1>10. Classifying'
  BY <1>n, <1>1, <1>2, <1>3, <1>4, <1>5, Reached DEF UInv, Classifying, Documented, Intact, MatchesCategory, Rendered, Writing, Busy
<1>11. Summarizing'
  BY <1>n, <1>1, <1>2, <1>3, <1>4, <1>5, Reached DEF UInv, Summarizing, NewSummary, Busy
<1>12. QED
  BY <1>6, <1>7, <1>8, <1>9, <1>10, <1>11 DEF UInv

\* .. or completes the recording, if it is not one that is summarised.
LEMMA ClassifyCompletesU ==
    ASSUME PInv, UInv, Busy, worker.pc # "done", Mine.kind = "classify",
           Documented, rec.category \notin AutoCategory,
           Return, rec' = [rec EXCEPT !.status = "COMPLETED"],
           UNCHANGED <<speech, jobs, art, disk>>
    PROVE  UInv'
<1> USE DEF Working, Has, Kept, Succeeded, Ended, Over, FreshAt, Active, IsActive, Ids, Mine,
         Lost, HasJson
<1>1. /\ worker.job \in Ids /\ Mine.status = "running"
      /\ \A j \in Ids : jobs[j].status = "running" => j = worker.job
      /\ \A j \in Ids : jobs[j].kind = Mine.kind => j = worker.job \/ jobs[j].status = "failed"
      /\ ~Has("summarize") /\ Has("classify")
  BY Lone, Reached DEF UInv
<1>2. /\ worker'.pc = "done" /\ worker'.job = worker.job /\ worker'.doc = None
      /\ ~worker'.resumed
  BY ReturnIs
<1>3. /\ rec'.revision = rec.revision /\ rec'.category = rec.category
      /\ rec'.source = rec.source /\ rec'.status = "COMPLETED"
  BY DEF PInv, IInv, Row, RecordingRow
<1>4. Documented'
  BY <1>1, <1>3 DEF Documented, Intact, MatchesCategory, Rendered
<1>5. Lines'
  BY <1>1, <1>2, <1>3, <1>4 DEF UInv, Lines, InputOf, Busy
<1>6. Words'
  BY <1>1, <1>2, <1>3, <1>4 DEF UInv, Words, Told
<1>7. Transcribing'
  BY <1>1, <1>2, <1>3, <1>4, Reached DEF UInv, Transcribing, Busy
<1>8. Finalizing'
  BY <1>1, <1>2, <1>3, <1>4, Reached DEF UInv, Finalizing, Intact, Busy
<1>9. Classifying'
  BY <1>1, <1>2, <1>3, <1>4, Reached DEF UInv, Classifying, Documented, Intact, MatchesCategory, Rendered, Writing, Busy
<1>10. Summarizing'
  BY <1>1, <1>2, <1>3, <1>4, Reached DEF UInv, Summarizing, NewSummary, Busy
<1>11. QED
  BY <1>5, <1>6, <1>7, <1>8, <1>9, <1>10 DEF UInv

\* Only the category decides whether the recording is summarised.
LEMMA SummarisesIs ==
    ASSUME UInv, NEW category
    PROVE  Summarises(1, category) <=> category \in AutoCategory
<1>1. \A s \in art.sum : s.revision = 1
  BY DEF UInv, Summarizing
<1>2. ~HadSummary(1)
  BY <1>1 DEF HadSummary
<1>3. QED
  BY <1>2 DEF Summarises

\* classify asks for the summary, or the recording is nearly done.
LEMMA FollowClassifyU == ASSUME PInv, UInv, FollowClassify PROVE UInv'
<1>1. /\ worker.pc = "follow" /\ Mine.kind = "classify" /\ Busy /\ Lines /\ worker \in Worker
      /\ UNCHANGED <<speech, art, disk>>
  BY DEF FollowClassify, At, Doing, Busy, UInv, PInv, IInv, Hand
<1>2. /\ worker.job \in Ids /\ Mine.status = "running"
      /\ \A j \in Ids : jobs[j].status = "running" => j = worker.job
      /\ \A j \in Ids : jobs[j].kind = Mine.kind => j = worker.job \/ jobs[j].status = "failed"
      /\ ~Has("summarize")
      /\ worker.doc.revision = 1
      /\ worker.doc.category = rec.category
      /\ Documented
  <2>1. worker.doc \in Transcript /\ worker.doc # None
    BY <1>1, Lone, AbsenceAssumption DEF Fits, Holds
  <2>2. worker.doc.revision = 1
    BY <2>1 DEF UInv, Words, Told
  <2>3. Documented /\ worker.doc.category = rec.category
    BY <1>1 DEF UInv, Classifying, Working, Writing, MatchesCategory
  <2>4. QED
    BY <1>1, <2>2, <2>3, Lone, Reached
<1>3. CASE rec.category \in AutoCategory
  <2>1. TransitionAndEnqueue("SUMMARIZING", "summarize", 1, rec.category)
    BY <1>2, <1>3, SummarisesIs DEF FollowClassify
  <2>2. SameInput("summarize", 1, rec.category) = {}
    BY <1>2 DEF SameInput, Has
  <2>3. CASE /\ Transition("SUMMARIZING") /\ Return
             /\ Insert(NewJob("summarize", 1, rec.category))
    BY <1>1, <1>2, <2>3, ClassifyAsksU DEF Transition
  <2>4. CASE Raise(FALSE) /\ UNCHANGED <<rec, jobs, queue>>
    BY <1>1, <2>4, RaiseU DEF LeavesFile
  <2>5. QED
    BY <2>1, <2>2, <2>3, <2>4 DEF TransitionAndEnqueue, Enqueue
<1>4. CASE rec.category \notin AutoCategory
  <2>1. /\ UNCHANGED jobs
        /\ \/ Transition("READY_FOR_SUMMARY") /\ Goto("ready")
           \/ Raise(FALSE) /\ UNCHANGED rec
    BY <1>2, <1>4, SummarisesIs DEF FollowClassify
  <2>2. CASE Raise(FALSE) /\ UNCHANGED rec
    BY <1>1, <2>1, <2>2, RaiseU DEF LeavesFile
  <2>3. CASE Transition("READY_FOR_SUMMARY") /\ Goto("ready")
    <3> USE DEF Working, Has, Kept, Succeeded, Ended, Over, FreshAt, Active, IsActive, Ids, Mine,
            Lost, HasJson
    <3>1. /\ worker'.pc = "ready" /\ worker'.job = worker.job /\ worker'.doc = worker.doc
          /\ worker'.seen = worker.seen /\ worker'.resumed = worker.resumed
      BY <1>1, <2>3, GotoIs
    <3>2. /\ rec'.revision = rec.revision /\ rec'.category = rec.category
          /\ rec'.source = rec.source /\ rec'.status = "READY_FOR_SUMMARY"
      BY <2>3 DEF Transition, PInv, IInv, Row, RecordingRow
    <3>3. Lines'
      BY <1>1, <1>2, <1>4, <2>1, <3>1, <3>2 DEF UInv, Lines, InputOf, Busy
    <3>4. Words'
      BY <1>1, <1>2, <1>4, <2>1, <3>1, <3>2 DEF UInv, Words, Told
    <3>5. Transcribing'
      BY <1>1, <1>2, <1>4, <2>1, <3>1, <3>2, Reached DEF UInv, Transcribing, Busy
    <3>6. Finalizing'
      BY <1>1, <1>2, <1>4, <2>1, <3>1, <3>2, Reached DEF UInv, Finalizing, Intact, Busy
    <3>7. Classifying'
      BY <1>1, <1>2, <1>4, <2>1, <3>1, <3>2, Reached DEF UInv, Classifying, Documented, Intact, MatchesCategory, Rendered, Writing, Busy
    <3>8. Summarizing'
      BY <1>1, <1>2, <1>4, <2>1, <3>1, <3>2, Reached DEF UInv, Summarizing, NewSummary, Busy
    <3>9. QED
      BY <3>3, <3>4, <3>5, <3>6, <3>7, <3>8 DEF UInv
  <2>4. QED
    BY <2>1, <2>2, <2>3
<1>5. QED
  BY <1>3, <1>4

-----------------------------------------------------------------------------
(* What inspect_recovery answers *)

\* The follow-up of a completion: there is at most one line of summaries, and
\* it is about the present category.
LEMMA SummaryFollows ==
    ASSUME PInv, Lines
    PROVE  /\ FollowMissing("summarize", 1) <=> ~Has("summarize")
           /\ ~FollowConflicts("summarize", 1)
           /\ ~FollowDiffers("summarize", 1, rec.category)
           /\ Succeeded("summarize") => FollowEnded("summarize", 1)
<1> DEFINE S == OfInput("summarize", 1)
<1>1. \A j \in Ids : jobs[j].revision = 1
  BY FirstRevision
<1>2. S = {j \in Ids : jobs[j].kind = "summarize"}
  BY <1>1 DEF OfInput
<1>3. /\ FollowMissing("summarize", 1) <=> ~Has("summarize")
      /\ ~FollowConflicts("summarize", 1)
  BY <1>2 DEF FollowMissing, FollowConflicts, Conflicts, ActiveKind, Has
<1>4. S # {} => Newest(S) \in S
  <2>1. Ids = 1..Len(jobs) /\ Len(jobs) \in Nat
    BY DEF PInv, IInv, TableOk, Ids
  <2>2. S \in SUBSET (1..Len(jobs))
    BY <1>2, <2>1
  <2> HIDE DEF S
  <2>3. QED
    BY <2>1, <2>2, LargestExists
<1>5. ~FollowDiffers("summarize", 1, rec.category)
  BY <1>2, <1>4 DEF FollowDiffers, FollowMissing, Lines, InputOf
<1>6. Succeeded("summarize") => FollowEnded("summarize", 1)
  <2>1. SUFFICES ASSUME NEW s \in Ids, jobs[s].kind = "summarize", jobs[s].status = "succeeded"
                 PROVE  FollowEnded("summarize", 1)
    BY DEF Succeeded
  <2>2. s \in S /\ S # {} /\ Newest(S) \in S
    BY <1>2, <1>4, <2>1
  <2>3. Newest(S) = s \/ jobs[Newest(S)].status = "failed"
    BY <1>2, <2>1, <2>2, OneIsKept
  <2>4. ~Active(Newest(S))
    BY <2>1, <2>3 DEF Active, IsActive
  <2>5. QED
    BY <2>2, <2>4 DEF FollowEnded, FollowMissing
<1>7. QED
  BY <1>3, <1>5, <1>6

\* The registered transcript is about the segments; what is left to inspect is
\* its file.
LEMMA InspectIs ==
    ASSUME PInv, UInv, NEW j \in Ids, NEW sourceOk \in BOOLEAN
    PROVE  /\ HasJson(1) => (JsonValid(1) <=> Intact(art.json[1])) /\ MatchesSegments(1)
           /\ Inspect(j, sourceOk) =
                IF HasJson(1) /\ ~Intact(art.json[1]) THEN Stop
                ELSE IF jobs[j].kind = "transcribe" THEN TranscribePlan(j, 1, sourceOk)
                ELSE IF ~HasJson(1) THEN Stop
                ELSE IF jobs[j].kind = "summarize" THEN SummaryPlan(j, 1)
                ELSE IF jobs[j].kind = "classify" THEN ClassifyPlan(1)
                ELSE FinalizePlan
<1>1. jobs[j].revision = 1 /\ jobs[j].kind # "render" /\ rec.revision = 1
  BY FirstRevision DEF UInv, Lines
<1>2. RevisionFits(j, 1)
  BY <1>1 DEF RevisionFits
<1>3. HasJson(1) => (JsonValid(1) <=> Intact(art.json[1])) /\ MatchesSegments(1)
  <2>1. SUFFICES ASSUME HasJson(1)
                 PROVE  art.json[1].content.revision = 1 /\ art.json[1].content.text = speech.text
    BY DEF JsonValid, MatchesSegments
  <2>2. art.json[1].content # None
    <3>1. art.json[1] \in JsonRow
      BY <2>1, FirstRevision DEF UInv, PInv, IInv, Files, HasJson
    <3>2. QED
      BY <3>1, AbsenceAssumption DEF JsonRow
  <2>3. QED
    BY <2>1, <2>2 DEF UInv, Words, Told
<1>4. QED
  BY <1>1, <1>2, <1>3 DEF Inspect

\* transcribe: nothing is left to do once the next job is there, and the
\* transcript is not written again where there is one.
LEMMA InspectTranscribe ==
    ASSUME PInv, UInv, NEW j \in Ids, NEW sourceOk \in BOOLEAN, jobs[j].kind = "transcribe",
           NEW plan, plan = Inspect(j, sourceOk)
    PROVE  /\ plan.action = "complete" => plan = Done /\ Has("finalize_speakers")
           /\ plan.action = "resume" => HasJson(1)
           /\ plan.action = "restart" => ~HasJson(1)
           /\ Has("finalize_speakers") /\ ~Has("classify") => plan = Done
<1> DEFINE finalized == \E f \in Ids : /\ jobs[f].kind = "finalize_speakers"
                                        /\ jobs[f].revision = 1
<1>1. /\ ~Retranscription(j) /\ jobs[j].revision = 1
      /\ finalized <=> Has("finalize_speakers")
  BY FirstRevision DEF UInv, Has
<1>2. TranscribePlan(j, 1, sourceOk) =
         IF HasJson(1)
         THEN IF finalized /\ ~speech.pending THEN Done
              ELSE IF sourceOk THEN Resume ELSE Stop
         ELSE IF sourceOk THEN Restart ELSE Stop
  BY <1>1 DEF TranscribePlan
<1> HIDE DEF finalized
<1>3. /\ Has("finalize_speakers") => HasJson(1) /\ ~speech.pending
      /\ ~Has("classify") /\ HasJson(1) => Intact(art.json[1])
  BY DEF UInv, Finalizing
<1>4. QED
  BY <1>1, <1>2, <1>3, InspectIs DEF Stop, Restart, Resume, Done, Plan

\* finalize_speakers starts over.
LEMMA InspectFinalize ==
    ASSUME PInv, UInv, NEW j \in Ids, NEW sourceOk \in BOOLEAN,
           jobs[j].kind = "finalize_speakers",
           NEW plan, plan = Inspect(j, sourceOk)
    PROVE  plan.action \in {"restart", "error"}
  BY InspectIs DEF FinalizePlan, Stop, Restart, Plan

\* classify: complete is what has both documents, and all that has; what is
\* resumed has no Markdown document, what starts over no category.
LEMMA InspectClassify ==
    ASSUME PInv, UInv, NEW j \in Ids, NEW sourceOk \in BOOLEAN, jobs[j].kind = "classify",
           NEW plan, plan = Inspect(j, sourceOk)
    PROVE  /\ plan.action = "complete" <=> Documented
           /\ plan.action = "complete" =>
                 plan = IF rec.category \in AutoCategory
                        THEN Plan("complete", "SUMMARIZING", TRUE)
                        ELSE Plan("complete", "COMPLETED", FALSE)
           /\ plan.action = "resume" =>
                 /\ HasJson(1) /\ art.md[1] = None
                 /\ art.json[1].content.graded /\ MatchesCategory(art.json[1].content)
           /\ plan.action = "restart" => art.md[1] = None
<1> DEFINE content == art.json[1].content
<1>1. CASE ~HasJson(1) \/ ~Intact(art.json[1])
  <2>1. plan = Stop /\ ~Documented
    BY <1>1, InspectIs DEF Documented
  <2>2. QED
    BY <2>1 DEF Stop, Plan
<1>2. CASE HasJson(1) /\ Intact(art.json[1])
  <2>1. plan = ClassifyPlan(1)
    BY <1>2, InspectIs
  <2>2. ClassifyPlan(1) = IF content.category = None THEN Restart
                          ELSE IF ~content.graded \/ ~MatchesCategory(content) THEN Stop
                          ELSE IF art.md[1] = None THEN Resume
                          ELSE IF art.md[1] # disk.md THEN Stop
                          ELSE IF content.category \in AutoCategory
                          THEN Plan("complete", "SUMMARIZING", TRUE)
                          ELSE Plan("complete", "COMPLETED", FALSE)
    BY SummarisesIs DEF ClassifyPlan, DocumentPlan
  <2>3. /\ MatchesCategory(content) => content.category # None /\ content.category = rec.category
        /\ art.md[1] # None => content.category # None /\ art.md[1] = Rendered(content)
    BY DEF MatchesCategory, UInv, Classifying
  <2>4. Documented <=> /\ content.graded /\ MatchesCategory(content)
                       /\ art.md[1] # None /\ art.md[1] = disk.md
    <3>1. Rendered(content) # None
      <4>1. art.json[1] \in JsonRow
        BY <1>2, FirstRevision DEF UInv, PInv, IInv, Files, HasJson
      <4>2. content \in Transcript
        BY <4>1 DEF JsonRow
      <4>3. QED
        BY <4>2, RenderedOk, AbsenceAssumption
    <3>2. QED
      BY <1>2, <2>3, <3>1 DEF Documented
  <2> HIDE DEF content
  <2>5. QED
    BY <1>2, <2>1, <2>2, <2>3, <2>4 DEF Stop, Restart, Resume, Plan, content
<1>3. QED
  BY <1>1, <1>2

\* summarize: what starts over has no registered summary, what is complete has
\* its summary registered with its file.
LEMMA InspectSummarize ==
    ASSUME PInv, UInv, NEW j \in Ids, NEW sourceOk \in BOOLEAN, jobs[j].kind = "summarize",
           NEW plan, plan = Inspect(j, sourceOk)
    PROVE  /\ plan.action \in {"complete", "restart", "error"}
           /\ plan.action = "complete" =>
                 plan = Plan("complete", "COMPLETED", FALSE) /\ art.sum \cap disk.sum # {}
           /\ plan.action = "restart" => art.sum = {}
<1> DEFINE rows == {s \in art.sum : s.revision = 1}
<1>1. rows = art.sum
  BY DEF UInv, Summarizing
<1>2. \/ plan = Stop
      \/ plan = Restart /\ rows = {}
      \/ /\ plan = Plan("complete", "COMPLETED", FALSE)
         /\ rows # {} /\ \A s \in rows : s \in disk.sum
  BY InspectIs DEF SummaryPlan
<1> HIDE DEF rows
<1>3. QED
  BY <1>1, <1>2 DEF Stop, Restart, Plan

-----------------------------------------------------------------------------
(* A job that is not fresh *)

\* An inspected job is found complete.
LEMMA ResumeCompleteU ==
    ASSUME PInv, UInv, Busy, worker.pc # "done", NEW sourceOk \in BOOLEAN,
           ResumeComplete(Inspect(worker.job, sourceOk)),
           UNCHANGED <<speech, art, disk>>
    PROVE  UInv'
<1> DEFINE plan == Inspect(worker.job, sourceOk)
<1>1. /\ worker.job \in Ids /\ Lines /\ rec.revision = 1
      /\ Mine.kind \in {"transcribe", "finalize_speakers", "classify", "summarize"}
  BY Lone DEF UInv, Lines
<1>2. plan.action = "complete" /\ ApplyCompletion(plan, jobs) /\ Return
  BY DEF ResumeComplete
<1> HIDE DEF plan
<1>3. CASE Mine.kind = "transcribe"
  BY <1>1, <1>2, <1>3, InspectTranscribe, Reached DEF Mine, plan
<1>4. CASE Mine.kind = "finalize_speakers"
  BY <1>1, <1>2, <1>4, InspectFinalize DEF Mine, plan
<1>5. CASE Mine.kind = "classify"
  <2>1. /\ Documented /\ ~Has("summarize")
        /\ plan = IF rec.category \in AutoCategory
                  THEN Plan("complete", "SUMMARIZING", TRUE)
                  ELSE Plan("complete", "COMPLETED", FALSE)
    BY <1>1, <1>2, <1>5, InspectClassify, Reached DEF Mine, plan
  <2>2. CASE rec.category \in AutoCategory
    <3>1. FollowMissing("summarize", 1)
      BY <1>1, <2>1, SummaryFollows
    <3>2. /\ CompletionStatus(plan) = "SUMMARIZING" /\ CompletionInserts(plan)
      BY <1>1, <2>1, <2>2, <3>1 DEF CompletionStatus, CompletionInserts, FollowEnded, Plan
    <3>3. /\ rec' = [rec EXCEPT !.status = "SUMMARIZING"]
          /\ Insert(NewJob("summarize", 1, rec.category))
      BY <1>1, <1>2, <3>2 DEF ApplyCompletion, Insert
    <3>4. QED
      BY <1>2, <1>5, <2>1, <3>3, ClassifyAsksU
  <2>3. CASE rec.category \notin AutoCategory
    <3>1. /\ CompletionStatus(plan) = "COMPLETED" /\ ~CompletionInserts(plan)
      BY <2>1, <2>3 DEF CompletionStatus, CompletionInserts, Plan
    <3>2. /\ rec' = [rec EXCEPT !.status = "COMPLETED"] /\ UNCHANGED jobs
      BY <1>2, <3>1 DEF ApplyCompletion
    <3>3. QED
      BY <1>2, <1>5, <2>1, <2>3, <3>2, ClassifyCompletesU
  <2>4. QED
    BY <2>2, <2>3
<1>6. CASE Mine.kind = "summarize"
  <2> USE DEF Working, Has, Kept, Succeeded, Ended, Over, FreshAt, Active, IsActive, Ids, Mine,
            Lost, HasJson
  <2>1. plan = Plan("complete", "COMPLETED", FALSE) /\ art.sum \cap disk.sum # {}
    BY <1>1, <1>2, <1>6, InspectSummarize DEF plan
  <2>2. /\ CompletionStatus(plan) = "COMPLETED" /\ ~CompletionInserts(plan)
    BY <2>1 DEF CompletionStatus, CompletionInserts, Plan
  <2>3. /\ rec' = [rec EXCEPT !.status = "COMPLETED"] /\ UNCHANGED jobs
    BY <1>2, <2>2 DEF ApplyCompletion
  <2>4. /\ rec'.revision = rec.revision /\ rec'.category = rec.category
        /\ rec'.source = rec.source /\ rec'.status = "COMPLETED"
    BY <2>3 DEF PInv, IInv, Row, RecordingRow
  <2>5. /\ worker'.pc = "done" /\ worker'.job = worker.job /\ worker'.doc = None
        /\ ~worker'.resumed
    BY <1>2, ReturnIs
  <2>6. /\ worker.job \in Ids /\ Mine.status = "running"
        /\ \A j \in Ids : jobs[j].status = "running" => j = worker.job
        /\ \A j \in Ids : jobs[j].kind = Mine.kind => j = worker.job \/ jobs[j].status = "failed"
    BY <1>1, Lone
  <2>7. Lines'
    BY <1>1, <1>6, <2>1, <2>3, <2>4, <2>5, <2>6 DEF UInv, Lines, InputOf, Busy
  <2>8. Words'
    BY <1>1, <1>6, <2>1, <2>3, <2>4, <2>5, <2>6 DEF UInv, Words, Told
  <2>9. Transcribing'
    BY <1>1, <1>6, <2>1, <2>3, <2>4, <2>5, <2>6, Reached DEF UInv, Transcribing, Busy
  <2>10. Finalizing'
    BY <1>1, <1>6, <2>1, <2>3, <2>4, <2>5, <2>6, Reached DEF UInv, Finalizing, Intact, Busy
  <2>11. Classifying'
    BY <1>1, <1>6, <2>1, <2>3, <2>4, <2>5, <2>6, Reached DEF UInv, Classifying, Documented, Intact, MatchesCategory, Rendered, Writing, Busy
  <2>12. Summarizing'
    BY <1>1, <1>6, <2>1, <2>3, <2>4, <2>5, <2>6, Reached DEF UInv, Summarizing, NewSummary, Busy
  <2>13. QED
    BY <2>7, <2>8, <2>9, <2>10, <2>11, <2>12 DEF UInv
<1>7. QED
  BY <1>1, <1>3, <1>4, <1>5, <1>6

\* It is refused.
LEMMA ResumeRefusedU ==
    ASSUME PInv, UInv, Busy, worker.pc # "done", Mine.kind = "transcribe" => Mine.revived,
           NEW plan, ResumeRefused(plan),
           UNCHANGED <<speech, art, disk>>
    PROVE  UInv'
<1>1. /\ worker'.pc = "failing" /\ worker'.job = worker.job /\ worker'.doc = None
      /\ ~worker'.resumed /\ ~worker'.retry /\ UNCHANGED <<rec, jobs>>
  BY DEF ResumeRefused, Unemployed
<1>2. QED
  BY <1>1, RaisedU DEF LeavesFile

\* It goes on half-way, transcribe at its clips, classify at its documents.
LEMMA ResumeHalfwayU ==
    ASSUME PInv, UInv, worker.pc = "claimed", Mine.revived, NEW sourceOk \in BOOLEAN,
           ResumeHalfway(Inspect(worker.job, sourceOk)),
           UNCHANGED <<speech, art, disk>>
    PROVE  UInv'
<1> USE DEF Working, Has, Kept, Succeeded, Ended, Over, FreshAt, Active, IsActive, Ids, Mine,
         Lost, HasJson
<1> DEFINE plan == Inspect(worker.job, sourceOk)
<1>1. /\ Busy /\ Lines /\ rec.revision = 1 /\ worker \in Worker
      /\ plan.action = "resume" /\ UNCHANGED <<rec, jobs>>
  BY DEF Busy, UInv, Lines, PInv, IInv, Hand, ResumeHalfway
<1>2. /\ worker.job \in Ids /\ Mine.status = "running"
      /\ \A j \in Ids : jobs[j].status = "running" => j = worker.job
      /\ \A j \in Ids : jobs[j].kind = Mine.kind => j = worker.job \/ jobs[j].status = "failed"
      /\ Mine.kind \in {"transcribe", "finalize_speakers", "classify", "summarize"}
  BY <1>1, Lone
<1> HIDE DEF plan
<1>3. /\ Mine.kind \in {"transcribe", "classify"} /\ HasJson(1)
      /\ Mine.kind = "classify" => /\ art.md[1] = None
                                   /\ art.json[1].content.graded
                                   /\ MatchesCategory(art.json[1].content)
  <2>1. /\ Mine.kind # "finalize_speakers" /\ Mine.kind # "summarize"
    BY <1>1, <1>2, InspectFinalize, InspectSummarize DEF plan
  <2>2. Mine.kind = "transcribe" => HasJson(1)
    BY <1>1, <1>2, InspectTranscribe DEF plan
  <2>3. Mine.kind = "classify" => /\ HasJson(1) /\ art.md[1] = None
                                 /\ art.json[1].content.graded
                                 /\ MatchesCategory(art.json[1].content)
    BY <1>1, <1>2, InspectClassify DEF plan
  <2>4. QED
    BY <1>2, <2>1, <2>2, <2>3
<1>4. /\ worker'.pc = IF Mine.kind = "transcribe" THEN "clips" ELSE "jsonFile"
      /\ worker'.job = worker.job /\ worker'.doc = art.json[1].content
      /\ worker'.resumed
  BY <1>1 DEF ResumeHalfway, Doing, Worker
<1>5. Lines'
  BY <1>1, <1>2, <1>3, <1>4 DEF UInv, Lines, InputOf, Busy
<1>6. Words'
  BY <1>1, <1>2, <1>3, <1>4 DEF UInv, Words, Told
<1>7. Transcribing'
  BY <1>1, <1>2, <1>3, <1>4, Reached DEF UInv, Transcribing, Busy
<1>8. Finalizing'
  BY <1>1, <1>2, <1>3, <1>4, Reached DEF UInv, Finalizing, Intact, Busy
<1>9. Classifying'
  BY <1>1, <1>2, <1>3, <1>4, Reached DEF UInv, Classifying, Documented, Intact, MatchesCategory, Rendered, Writing, Busy
<1>10. Summarizing'
  BY <1>1, <1>2, <1>3, <1>4, Reached DEF UInv, Summarizing, NewSummary, Busy
<1>11. QED
  BY <1>5, <1>6, <1>7, <1>8, <1>9, <1>10 DEF UInv

\* It starts over.
LEMMA StartOverU ==
    ASSUME PInv, UInv, worker.pc = "claimed", NEW sourceOk \in BOOLEAN,
           StartOver(Inspect(worker.job, sourceOk)),
           UNCHANGED <<speech, art, disk>>
    PROVE  UInv'
<1> USE DEF Working, Has, Kept, Succeeded, Ended, Over, FreshAt, Active, IsActive, Ids, Mine,
         Lost, HasJson
<1> DEFINE plan == Inspect(worker.job, sourceOk)
<1>1. /\ Busy /\ Lines /\ worker \in Worker
      /\ plan.action = "restart" /\ UNCHANGED <<rec, jobs>> /\ Goto("start")
  BY DEF Busy, UInv, PInv, IInv, Hand, StartOver
<1>2. /\ worker.job \in Ids /\ Mine.status = "running"
      /\ \A j \in Ids : jobs[j].status = "running" => j = worker.job
      /\ \A j \in Ids : jobs[j].kind = Mine.kind => j = worker.job \/ jobs[j].status = "failed"
      /\ Mine.kind \in {"transcribe", "finalize_speakers", "classify", "summarize"}
  BY <1>1, Lone
<1> HIDE DEF plan
<1>3. /\ Mine.kind = "transcribe" => ~HasJson(1)
      /\ Mine.kind = "classify" => art.md[1] = None
      /\ Mine.kind = "summarize" => art.sum = {}
  BY <1>1, <1>2, InspectTranscribe, InspectClassify, InspectSummarize DEF plan
<1>4. /\ worker'.pc = "start" /\ worker'.job = worker.job /\ worker'.doc = worker.doc
      /\ worker'.seen = worker.seen /\ worker'.resumed = worker.resumed
  BY <1>1, GotoIs
<1>5. Lines'
  BY <1>1, <1>2, <1>3, <1>4 DEF UInv, Lines, InputOf, Busy
<1>6. Words'
  BY <1>1, <1>2, <1>3, <1>4 DEF UInv, Words, Told
<1>7. Transcribing'
  BY <1>1, <1>2, <1>3, <1>4, Reached DEF UInv, Transcribing, Busy
<1>8. Finalizing'
  BY <1>1, <1>2, <1>3, <1>4, Reached DEF UInv, Finalizing, Intact, Busy
<1>9. Classifying'
  BY <1>1, <1>2, <1>3, <1>4, Reached DEF UInv, Classifying, Documented, Intact, MatchesCategory, Rendered, Writing, Busy
<1>10. Summarizing'
  BY <1>1, <1>2, <1>3, <1>4, Reached DEF UInv, Summarizing, NewSummary, Busy
<1>11. QED
  BY <1>5, <1>6, <1>7, <1>8, <1>9, <1>10 DEF UInv

\* _resume_recovered.
LEMMA ResumeRecoveredU == ASSUME PInv, UInv, ResumeRecovered PROVE UInv'
<1>1. PICK sourceOk \in SourceOutcomes :
         LET plan == Inspect(worker.job, sourceOk)
         IN  ResumeComplete(plan) \/ ResumeRefused(plan)
               \/ ResumeHalfway(plan) \/ StartOver(plan)
  BY DEF ResumeRecovered
<1>2. /\ worker.pc = "claimed" /\ Busy /\ Mine.revived /\ UNCHANGED <<speech, art, disk>>
      /\ sourceOk \in BOOLEAN
  BY DEF ResumeRecovered, At, Busy, SourceOutcomes
<1>3. QED
  BY <1>1, <1>2, ResumeCompleteU, ResumeRefusedU, ResumeHalfwayU, StartOverU

\* The end of a resumed classify.
LEMMA SettleClassifyU == ASSUME PInv, UInv, SettleClassify PROVE UInv'
<1>1. PICK sourceOk \in SourceOutcomes :
         LET plan == Inspect(worker.job, sourceOk)
         IN  \/ ResumeComplete(plan)
             \/ ResumeRefused(plan)
             \/ plan.action \in {"resume", "restart"}
  BY DEF SettleClassify
<1>2. /\ worker.pc = "settle" /\ Busy /\ Mine.kind = "classify" /\ UNCHANGED <<speech, art, disk>>
      /\ sourceOk \in BOOLEAN
  BY DEF SettleClassify, At, Doing, Busy, SourceOutcomes
<1>3. Inspect(worker.job, sourceOk).action = "complete"
  <2>1. Documented
    BY <1>2 DEF UInv, Classifying, Working
  <2>2. worker.job \in Ids
    BY <1>2, Lone DEF UInv
  <2>3. QED
    BY <1>2, <2>1, <2>2, InspectClassify DEF Mine
<1>4. QED
  BY <1>1, <1>2, <1>3, ResumeCompleteU, ResumeRefusedU

-----------------------------------------------------------------------------
(* The end of a job, and its beginning *)

\* A job's row changes its status, and may be marked as revived; a claim counts
\* one more attempt.
Becomes(j, status, revived) ==
    /\ DOMAIN jobs' = Ids
    /\ \A i \in Ids : i # j => jobs'[i] = jobs[i]
    /\ jobs'[j].kind = jobs[j].kind
    /\ jobs'[j].input = jobs[j].input
    /\ jobs'[j].retryOf = jobs[j].retryOf
    /\ jobs'[j].status = status
    /\ jobs'[j].revived = revived
    /\ jobs'[j].attempts = IF status = "running" THEN jobs[j].attempts + 1
                          ELSE jobs[j].attempts

\* finish_job, in these terms.
LEMMA FinishBecomes ==
    ASSUME TableOk(jobs), NEW j \in Ids, NEW status \in JobStatus \ {"running"},
           Finish(j, status)
    PROVE  Becomes(j, status, jobs[j].revived)
<1>1. jobs \in Seq(Job) /\ jobs[j] \in Job /\ jobs' = [jobs EXCEPT ![j] = Closed(jobs[j], status)]
  BY RowsTyped DEF TableOk, Ids, Finish
<1>2. LET job == Closed(jobs[j], status)
      IN  /\ job.kind = jobs[j].kind /\ job.input = jobs[j].input
          /\ job.retryOf = jobs[j].retryOf /\ job.status = status
          /\ job.revived = jobs[j].revived /\ job.attempts = jobs[j].attempts
  BY <1>1 DEF Closed, Job
<1>3. /\ DOMAIN jobs' = Ids /\ \A i \in Ids : i # j => jobs'[i] = jobs[i]
      /\ jobs'[j] = Closed(jobs[j], status)
  BY <1>1 DEF Ids
<1>4. QED
  BY <1>2, <1>3 DEF Becomes

\* .. and a new status alone.
LEMMA StatusBecomes ==
    ASSUME TableOk(jobs), NEW j \in Ids, NEW status \in JobStatus \ {"running"},
           jobs' = [jobs EXCEPT ![j].status = status]
    PROVE  Becomes(j, status, jobs[j].revived)
<1>1. jobs \in Seq(Job) /\ jobs[j] \in Job
  BY RowsTyped DEF TableOk, Ids
<1>2. /\ DOMAIN jobs' = Ids /\ \A i \in Ids : i # j => jobs'[i] = jobs[i]
      /\ jobs'[j] = [jobs[j] EXCEPT !.status = status]
  BY <1>1 DEF Ids
<1>3. QED
  BY <1>1, <1>2 DEF Becomes, Job

\* complete_job.
LEMMA CompleteJobU == ASSUME PInv, UInv, CompleteJob PROVE UInv'
<1> USE DEF Working, Has, Kept, Succeeded, Ended, Over, FreshAt, Active, IsActive, Ids, Mine,
         Lost, HasJson
<1>1. /\ worker.pc = "done" /\ Busy /\ UNCHANGED <<rec, speech, art, disk>>
      /\ TableOk(jobs) /\ Lines
  BY DEF CompleteJob, At, Busy, PInv, IInv, UInv
<1>2. /\ worker.job \in Ids /\ Mine.status = "running"
      /\ \A j \in Ids : jobs[j].status = "running" => j = worker.job
      /\ \A j \in Ids : jobs[j].kind = Mine.kind => j = worker.job \/ jobs[j].status = "failed"
  BY <1>1, Lone
<1>3. Becomes(worker.job, "succeeded", Mine.revived)
  BY <1>1, <1>2, FinishBecomes DEF CompleteJob, JobStatus
<1>4. /\ worker'.pc = "idle" /\ worker'.doc = None /\ ~worker'.resumed
  BY DEF CompleteJob, Unemployed
<1>5. Lines'
  BY <1>1, <1>2, <1>3, <1>4 DEF Becomes, UInv, Lines, InputOf, Busy
<1>6. Words'
  BY <1>1, <1>2, <1>3, <1>4 DEF Becomes, UInv, Words, Told
<1>7. Transcribing'
  BY <1>1, <1>2, <1>3, <1>4, Reached DEF Becomes, UInv, Transcribing, Busy
<1>8. Finalizing'
  BY <1>1, <1>2, <1>3, <1>4, Reached DEF Becomes, UInv, Finalizing, Intact, Busy
<1>9. Classifying'
  BY <1>1, <1>2, <1>3, <1>4, Reached DEF Becomes, UInv, Classifying, Documented, Intact, MatchesCategory, Rendered, Writing, Busy
<1>10. Summarizing'
  BY <1>1, <1>2, <1>3, <1>4, Reached DEF Becomes, UInv, Summarizing, NewSummary, Busy
<1>11. QED
  BY <1>5, <1>6, <1>7, <1>8, <1>9, <1>10 DEF UInv

\* fail_job: the job waits for its retry, or has failed.
LEMMA FailJobU == ASSUME PInv, UInv, FailJob PROVE UInv'
<1> USE DEF Working, Has, Kept, Succeeded, Ended, Over, FreshAt, Active, IsActive, Ids, Mine,
         Lost, HasJson
<1>1. /\ worker.pc = "failing" /\ Busy /\ UNCHANGED <<speech, art, disk>>
      /\ TableOk(jobs) /\ Lines
  BY DEF FailJob, At, Busy, PInv, IInv, UInv
<1>2. /\ worker.job \in Ids /\ Mine.status = "running"
      /\ \A j \in Ids : jobs[j].status = "running" => j = worker.job
      /\ \A j \in Ids : jobs[j].kind = Mine.kind => j = worker.job \/ jobs[j].status = "failed"
      /\ Mine.kind \in {"transcribe", "finalize_speakers", "classify", "summarize"}
  BY <1>1, Lone
<1>3. /\ worker'.pc = "idle" /\ worker'.doc = None /\ ~worker'.resumed
  BY DEF FailJob, Unemployed
<1>4. CASE Retries
  <2>1. /\ Becomes(worker.job, "queued", Mine.revived) /\ UNCHANGED rec
        /\ worker.retry
    BY <1>1, <1>2, <1>4, StatusBecomes DEF FailJob, JobStatus, Retries
  <2>2. Lines'
    BY <1>1, <1>2, <1>3, <2>1 DEF Becomes, UInv, Lines, InputOf, Busy
  <2>3. Words'
    BY <1>1, <1>2, <1>3, <2>1 DEF Becomes, UInv, Words, Told
  <2>4. Transcribing'
    BY <1>1, <1>2, <1>3, <2>1, Reached DEF Becomes, UInv, Transcribing, Busy
  <2>5. Finalizing'
    BY <1>1, <1>2, <1>3, <2>1, Reached DEF Becomes, UInv, Finalizing, Intact, Busy
  <2>6. Classifying'
    BY <1>1, <1>2, <1>3, <2>1, Reached DEF Becomes, UInv, Classifying, Documented, Intact, MatchesCategory, Rendered, Writing, Busy
  <2>7. Summarizing'
    BY <1>1, <1>2, <1>3, <2>1, Reached DEF Becomes, UInv, Lines, Summarizing, NewSummary, Busy
  <2>8. QED
    BY <2>2, <2>3, <2>4, <2>5, <2>6, <2>7 DEF UInv
<1>5. CASE ~Retries
  <2>1. /\ Becomes(worker.job, "failed", Mine.revived)
        /\ rec'.revision = rec.revision /\ rec'.category = rec.category
        /\ rec'.source = rec.source
        /\ \/ rec'.status = rec.status
           \/ Mine.kind = "summarize" /\ rec'.status = "FAILED"
    BY <1>1, <1>2, <1>5, FinishBecomes
       DEF FailJob, JobStatus, FailsSummary, Doing, Transition, PInv, IInv, Row, RecordingRow
  <2>2. Lines'
    BY <1>1, <1>2, <1>3, <2>1 DEF Becomes, UInv, Lines, InputOf, Busy
  <2>3. Words'
    BY <1>1, <1>2, <1>3, <2>1 DEF Becomes, UInv, Words, Told
  <2>4. Transcribing'
    BY <1>1, <1>2, <1>3, <2>1, Reached DEF Becomes, UInv, Transcribing, Busy
  <2>5. Finalizing'
    BY <1>1, <1>2, <1>3, <2>1, Reached DEF Becomes, UInv, Finalizing, Intact, Busy
  <2>6. Classifying'
    BY <1>1, <1>2, <1>3, <2>1, Reached DEF Becomes, UInv, Classifying, Documented, Intact, MatchesCategory, Rendered, Writing, Busy
  <2>7. Summarizing'
    BY <1>1, <1>2, <1>3, <2>1, Reached DEF Becomes, UInv, Summarizing, NewSummary, Busy
  <2>8. QED
    BY <2>2, <2>3, <2>4, <2>5, <2>6, <2>7 DEF UInv
<1>6. QED
  BY <1>4, <1>5

\* claim_next_job.
LEMMA ClaimU == ASSUME PInv, UInv, Claim PROVE UInv'
<1> USE DEF Working, Has, Kept, Succeeded, Ended, Over, FreshAt, Active, IsActive, Ids, Mine,
         Lost, HasJson
<1> DEFINE h == Head(queue)
<1>1. /\ worker.pc = "idle" /\ UNCHANGED <<rec, speech, art, disk>>
      /\ TableOk(jobs) /\ Lines
      /\ \A j \in Ids : jobs[j].status # "running"
  BY DEF Claim, At, PInv, IInv, UInv, OneRunning, Running
<1>2. h \in Ids /\ jobs[h].status = "queued" /\ jobs[h] \in Job
  <2>1. h = queue[1] /\ 1 \in DOMAIN queue
    BY DEF Claim, PInv, IInv, OrderOk
  <2>2. h \in Ids /\ jobs[h].status = "queued"
    BY <2>1 DEF PInv, IInv, OrderOk
  <2>3. QED
    BY <1>1, <2>2, RowsTyped
<1>3. Becomes(h, "running", jobs[h].revived)
  <2>1. jobs' = [jobs EXCEPT ![h] = [jobs[h] EXCEPT !.status = "running", !.attempts = @ + 1]]
    BY <1>1, <1>2 DEF Claim, TableOk
  <2>2. /\ DOMAIN jobs' = Ids /\ \A i \in Ids : i # h => jobs'[i] = jobs[i]
        /\ jobs'[h] = [jobs[h] EXCEPT !.status = "running", !.attempts = @ + 1]
    BY <1>1, <1>2, <2>1 DEF TableOk
  <2>3. QED
    BY <1>2, <2>2 DEF Becomes, Job
<1>4. worker'.pc = "claimed" /\ worker'.job = h /\ worker'.doc = None /\ ~worker'.resumed
  BY DEF Claim, Unemployed
<1> HIDE DEF h
<1>5. Lines'
  BY <1>1, <1>2, <1>3, <1>4 DEF Becomes, UInv, Lines, InputOf, Busy, Job
<1>6. Words'
  BY <1>1, <1>2, <1>3, <1>4 DEF Becomes, UInv, Words, Told
<1>7. Transcribing'
  BY <1>1, <1>2, <1>3, <1>4 DEF Becomes, UInv, Transcribing, Busy
<1>8. Finalizing'
  BY <1>1, <1>2, <1>3, <1>4 DEF Becomes, UInv, Finalizing, Intact, Busy
<1>9. Classifying'
  BY <1>1, <1>2, <1>3, <1>4 DEF Becomes, UInv, Classifying, Documented, Intact, MatchesCategory, Rendered, Writing, Busy
<1>10. Summarizing'
  BY <1>1, <1>2, <1>3, <1>4 DEF Becomes, UInv, Summarizing, NewSummary, Busy, Job
<1>11. QED
  BY <1>5, <1>6, <1>7, <1>8, <1>9, <1>10 DEF UInv

\* release_job.
LEMMA ReleaseU == ASSUME PInv, UInv, Release PROVE UInv'
<1> USE DEF Working, Has, Kept, Succeeded, Ended, Over, FreshAt, Active, IsActive, Ids, Mine,
         Lost, HasJson
<1>1. /\ worker.pc = "claimed" /\ Busy /\ UNCHANGED <<rec, speech, art, disk>>
      /\ TableOk(jobs) /\ Lines
  BY DEF Release, At, Busy, PInv, IInv, UInv
<1>2. /\ worker.job \in Ids /\ Mine.status = "running"
      /\ \A j \in Ids : jobs[j].status = "running" => j = worker.job
      /\ \A j \in Ids : jobs[j].kind = Mine.kind => j = worker.job \/ jobs[j].status = "failed"
  BY <1>1, Lone
<1>3. Becomes(worker.job, "queued", Mine.revived)
  BY <1>1, <1>2, StatusBecomes DEF Release, JobStatus
<1>4. /\ worker'.pc = "down" /\ worker'.doc = None /\ ~worker'.resumed
  BY DEF Release, Unemployed
<1>5. Lines'
  BY <1>1, <1>2, <1>3, <1>4 DEF Becomes, UInv, Lines, InputOf, Busy
<1>6. Words'
  BY <1>1, <1>2, <1>3, <1>4 DEF Becomes, UInv, Words, Told
<1>7. Transcribing'
  BY <1>1, <1>2, <1>3, <1>4, Reached DEF Becomes, UInv, Transcribing, Busy
<1>8. Finalizing'
  BY <1>1, <1>2, <1>3, <1>4, Reached DEF Becomes, UInv, Finalizing, Intact, Busy
<1>9. Classifying'
  BY <1>1, <1>2, <1>3, <1>4, Reached DEF Becomes, UInv, Classifying, Documented, Intact, MatchesCategory, Rendered, Writing, Busy
<1>10. Summarizing'
  BY <1>1, <1>2, <1>3, <1>4, Reached DEF Becomes, UInv, Lines, Summarizing, NewSummary, Busy
<1>11. QED
  BY <1>5, <1>6, <1>7, <1>8, <1>9, <1>10 DEF UInv

\* The process ends, whatever it was doing.
LEMMA LostU ==
    ASSUME PInv, UInv, worker' = Unemployed("down"),
           UNCHANGED <<rec, speech, jobs, art, disk>>
    PROVE  UInv'
<1> USE DEF Working, Has, Kept, Succeeded, Ended, Over, FreshAt, Active, IsActive, Ids, Mine,
         Lost, HasJson
<1>1. worker'.pc = "down" /\ worker'.doc = None /\ ~worker'.resumed /\ Lines
  BY DEF Unemployed, UInv
<1>2. \A j \in Ids : jobs[j].status = "running" => worker.pc # "idle"
  BY DEF PInv, IInv, OneRunning, Running
<1>3. /\ Busy => Mine.status = "running" /\ worker.job \in Ids
      /\ \A j \in Ids : jobs[j].status = "running" /\ Busy => j = worker.job
  BY Lone DEF UInv
<1>4. Lines'
  BY <1>1, <1>2, <1>3 DEF UInv, Lines, InputOf, Busy
<1>5. Words'
  BY <1>1, <1>2, <1>3 DEF UInv, Words, Told
<1>6. Transcribing'
  BY <1>1, <1>2, <1>3 DEF UInv, Transcribing, Busy
<1>7. Finalizing'
  BY <1>1, <1>2, <1>3 DEF UInv, Finalizing, Intact, Busy
<1>8. Classifying'
  BY <1>1, <1>2, <1>3 DEF UInv, Classifying, Documented, Intact, MatchesCategory, Rendered, Writing, Busy
<1>9. Summarizing'
  BY <1>1, <1>2, <1>3 DEF UInv, Summarizing, NewSummary, Busy
<1>10. QED
  BY <1>4, <1>5, <1>6, <1>7, <1>8, <1>9 DEF UInv

\* A backoff is over: the claim order is not what the invariant is about.
LEMMA BackoffExpiresU == ASSUME UInv, BackoffExpires PROVE UInv'
<1> USE DEF Working, Has, Kept, Succeeded, Ended, Over, FreshAt, Active, IsActive, Ids, Mine,
         Lost, HasJson
<1>1. UNCHANGED <<rec, speech, jobs, art, disk, worker>>
  BY DEF BackoffExpires
<1>2. Lines'
  BY <1>1 DEF UInv, Lines, InputOf, Busy
<1>3. Words'
  BY <1>1 DEF UInv, Words, Told
<1>4. Transcribing'
  BY <1>1 DEF UInv, Transcribing, Busy
<1>5. Finalizing'
  BY <1>1 DEF UInv, Finalizing, Intact, Busy
<1>6. Classifying'
  BY <1>1 DEF UInv, Classifying, Documented, Intact, MatchesCategory, Rendered, Writing, Busy
<1>7. Summarizing'
  BY <1>1 DEF UInv, Summarizing, NewSummary, Busy
<1>8. QED
  BY <1>2, <1>3, <1>4, <1>5, <1>6, <1>7 DEF UInv

-----------------------------------------------------------------------------
(* The worker's start *)

\* The job the last worker left running, like Lone and Reached.
LEMMA Interrupted ==
    ASSUME PInv, UInv, worker.pc = "recovering", NEW j \in Stale
    PROVE  /\ j \in Ids /\ jobs[j] \in Job /\ jobs[j].status = "running" /\ worker.pc = "recovering"
           /\ \A i \in Ids : jobs[i].status = "running" => i = j
           /\ \A i \in Ids : jobs[i].kind = jobs[j].kind => i = j \/ jobs[i].status = "failed"
           /\ jobs[j].kind \in {"transcribe", "finalize_speakers", "classify", "summarize"}
           /\ jobs[j].kind = "transcribe" => ~Has("classify") /\ ~Has("summarize")
           /\ jobs[j].kind # "transcribe" =>
                 /\ HasJson(1) /\ Has("finalize_speakers") /\ ~speech.pending
                 /\ \A i \in Ids : jobs[i].kind = "transcribe" => ~Active(i)
           /\ jobs[j].kind \in {"classify", "summarize"} => Has("classify")
           /\ jobs[j].kind = "summarize" =>
                 \A i \in Ids : jobs[i].kind = "classify" => ~Active(i)
           /\ ~Has("summarize") => art.sum = {} /\ disk.sum = {}
<1> USE DEF Working, Has, Kept, Succeeded, Ended, Over, FreshAt, Active, IsActive, Ids, Mine, Lost, HasJson
<1>1. j \in Ids /\ jobs[j].status = "running" /\ Lines
  BY DEF Stale, UInv
<1>2. \A i \in Ids : jobs[i].status = "running" => i = j
  BY <1>1 DEF PInv, IInv, OneRunning, Running
<1>3. /\ jobs[j] \in Job
      /\ jobs[j].kind \in {"transcribe", "finalize_speakers", "classify", "summarize"}
  BY <1>1, FirstRevision DEF Kind
<1>4. \A i \in Ids : jobs[i].kind = jobs[j].kind => i = j \/ jobs[i].status = "failed"
  BY <1>1, OneIsKept
<1>5. /\ Has("summarize") => Over("classify") /\ Has("classify")
      /\ Has("classify") => /\ Has("finalize_speakers")
                            /\ \A i \in Ids : jobs[i].kind = "transcribe" => ~Active(i)
      /\ Has("finalize_speakers") => HasJson(1) /\ ~speech.pending /\ Over("transcribe")
  BY DEF UInv, Finalizing, Classifying
<1>6. ~Has("summarize") => art.sum = {} /\ disk.sum = {}
  BY DEF UInv, Summarizing
<1>7. QED
  BY <1>1, <1>2, <1>3, <1>4, <1>5, <1>6

\* Reconciliation registers a summary where there is none.
LEMMA ReconcileU == ASSUME PInv, UInv, Reconcile PROVE UInv'
<1> USE DEF Working, Has, Kept, Succeeded, Ended, Over, FreshAt, Active, IsActive, Ids, Mine,
         Lost, HasJson
<1>1. /\ worker.pc = "down" /\ worker \in Worker /\ Lines
      /\ UNCHANGED <<rec, speech, jobs>>
  BY DEF Reconcile, PInv, IInv, Hand, UInv
<1>2. /\ worker'.pc = "recovering" /\ worker'.doc = worker.doc
      /\ worker'.resumed = worker.resumed
  BY <1>1 DEF Reconcile, Worker
<1>3. /\ art'.json = art.json /\ art'.md = art.md
      /\ disk'.json = disk.json /\ disk'.md = disk.md
      /\ \/ art'.sum = art.sum /\ disk'.sum = disk.sum
         \/ /\ art.sum = {} /\ disk'.sum = disk.sum
            /\ \E f \in disk.sum : art'.sum = {f}
  <2>1. CASE UNCHANGED <<art, disk>>
    BY <2>1
  <2>2. ASSUME NEW f \in LostSummaries,
               art' = [art EXCEPT !.sum = SummaryRowsAfter(f)],
               disk' = [disk EXCEPT !.sum = SummaryFilesAfter(f)]
        PROVE  /\ art'.json = art.json /\ art'.md = art.md
               /\ disk'.json = disk.json /\ disk'.md = disk.md
               /\ \/ art'.sum = art.sum /\ disk'.sum = disk.sum
                  \/ /\ art.sum = {} /\ disk'.sum = disk.sum
                     /\ \E g \in disk.sum : art'.sum = {g}
    <3>1. /\ f \in disk.sum /\ f.category = rec.category /\ f.revision = 1
          /\ \A s \in art.sum : ~SamePath(s, f)
      BY <1>1, <2>2 DEF LostSummaries, Lines
    <3>2. \A s \in art.sum : s.revision = 1 /\ s.category = rec.category
      BY DEF UInv, Summarizing
    <3>3. art.sum = {}
      BY <3>1, <3>2 DEF SamePath
    <3>4. SummaryRowsAfter(f) = {f} /\ SummaryFilesAfter(f) = disk.sum
      BY <3>3 DEF SummaryRowsAfter, SummaryFilesAfter
    <3>5. QED
      BY <2>2, <3>1, <3>3, <3>4 DEF PInv, IInv, Files
  <2>3. QED
    BY <2>1, <2>2 DEF Reconcile
<1>4. Lines'
  BY <1>1, <1>2, <1>3 DEF Becomes, UInv, Lines, InputOf, Busy
<1>5. Words'
  BY <1>1, <1>2, <1>3 DEF Becomes, UInv, Words, Told
<1>6. Transcribing'
  BY <1>1, <1>2, <1>3 DEF Becomes, UInv, Transcribing, Busy
<1>7. Finalizing'
  BY <1>1, <1>2, <1>3 DEF Becomes, UInv, Finalizing, Intact, Busy
<1>8. Classifying'
  BY <1>1, <1>2, <1>3 DEF Becomes, UInv, Classifying, Documented, Intact, MatchesCategory, Rendered, Writing, Busy
<1>9. Summarizing'
  BY <1>1, <1>2, <1>3 DEF Becomes, UInv, Summarizing, NewSummary, Busy
<1>10. QED
  BY <1>4, <1>5, <1>6, <1>7, <1>8, <1>9 DEF UInv

\* What recovery makes of the row.
LEMMA RecoveredBecomes ==
    ASSUME PInv, NEW j \in Stale, NEW status \in JobStatus \ {"running"},
           jobs' = Recovered(j, status)
    PROVE  Becomes(j, status, TRUE)
<1>1. jobs \in Seq(Job) /\ j \in Ids /\ jobs[j] \in Job
  BY RowsTyped DEF PInv, IInv, TableOk, Ids, Stale
<1>2. jobs' = [jobs EXCEPT ![j] = RecoveredRow(j, status)]
  BY <1>1 DEF Recovered, RecoveredRow
<1>3. /\ DOMAIN jobs' = Ids /\ \A i \in Ids : i # j => jobs'[i] = jobs[i]
      /\ jobs'[j] = RecoveredRow(j, status)
  BY <1>1, <1>2 DEF Ids
<1>4. QED
  BY <1>1, <1>3 DEF Becomes, RecoveredRow, Closed, Job

\* An interrupted job waits again, or has failed.
LEMMA RecoveredU ==
    ASSUME PInv, UInv, worker.pc = "recovering", NEW j \in Stale,
           NEW status \in {"queued", "failed"}, Becomes(j, status, TRUE),
           worker'.pc = "idle", worker'.doc = worker.doc, worker'.resumed = worker.resumed,
           UNCHANGED <<speech, art, disk>>,
           rec'.revision = rec.revision, rec'.category = rec.category,
           rec'.source = rec.source,
           \/ rec'.status = rec.status
           \/ /\ rec'.status = "FAILED" /\ status = "failed" /\ rec.status # "COMPLETED"
              /\ \A i \in Ids \ {j} : ~Active(i),
           jobs[j].kind = "transcribe" => ~Has("finalize_speakers"),
           jobs[j].kind = "classify" => ~Has("summarize")
    PROVE  UInv'
<1> USE DEF Working, Has, Kept, Succeeded, Ended, Over, FreshAt, Active, IsActive, Ids, Mine,
         Lost, HasJson
<1>1. /\ j \in Ids /\ jobs[j] \in Job /\ jobs[j].status = "running" /\ worker.pc = "recovering"
      /\ \A i \in Ids : jobs[i].status = "running" => i = j
      /\ \A i \in Ids : jobs[i].kind = jobs[j].kind => i = j \/ jobs[i].status = "failed"
      /\ jobs[j].kind \in {"transcribe", "finalize_speakers", "classify", "summarize"}
      /\ jobs[j].kind = "transcribe" => ~Has("classify") /\ ~Has("summarize")
      /\ jobs[j].kind # "transcribe" =>
            /\ HasJson(1) /\ Has("finalize_speakers") /\ ~speech.pending
            /\ \A i \in Ids : jobs[i].kind = "transcribe" => ~Active(i)
      /\ jobs[j].kind \in {"classify", "summarize"} => Has("classify")
      /\ jobs[j].kind = "summarize" =>
            \A i \in Ids : jobs[i].kind = "classify" => ~Active(i)
      /\ ~Has("summarize") => art.sum = {} /\ disk.sum = {}
  BY Interrupted
<1>2. Lines'
  BY <1>1 DEF Becomes, UInv, Lines, InputOf, Busy
<1>3. Words'
  BY <1>1 DEF Becomes, UInv, Words, Told
<1>4. Transcribing'
  BY <1>1 DEF Becomes, UInv, Transcribing, Busy
<1>5. Finalizing'
  BY <1>1 DEF Becomes, UInv, Finalizing, Intact, Busy
<1>6. Classifying'
  BY <1>1 DEF Becomes, UInv, Classifying, Documented, Intact, MatchesCategory, Rendered, Writing, Busy
<1>7. Summarizing'
  BY <1>1 DEF Becomes, UInv, Summarizing, NewSummary, Busy
<1>8. QED
  BY <1>2, <1>3, <1>4, <1>5, <1>6, <1>7 DEF UInv

\* recover_stale_jobs: the job is put back ..
LEMMA RecoverRequeueU ==
    ASSUME PInv, UInv, worker.pc = "recovering", worker' = [worker EXCEPT !.pc = "idle"],
           NEW j \in Stale, NEW sourceOk \in BOOLEAN,
           RecoverRequeue(j, Inspect(j, sourceOk)),
           UNCHANGED <<speech, art, disk>>
    PROVE  UInv'
<1> DEFINE plan == Inspect(j, sourceOk)
<1>1. plan.action \in {"resume", "restart"} /\ jobs' = Recovered(j, "queued") /\ UNCHANGED rec
  BY DEF RecoverRequeue
<1>2. Becomes(j, "queued", TRUE)
  BY <1>1, RecoveredBecomes DEF JobStatus
<1>3. worker'.pc = "idle" /\ worker'.doc = worker.doc /\ worker'.resumed = worker.resumed
  BY DEF PInv, IInv, Hand, Worker
<1> HIDE DEF plan
<1>4. jobs[j].kind = "transcribe" => ~Has("finalize_speakers")
  BY <1>1, Interrupted, InspectTranscribe DEF Done, Plan, plan
<1>5. jobs[j].kind = "classify" => ~Has("summarize")
  <2>1. Has("summarize") => Documented
    BY DEF UInv, Classifying
  <2>2. QED
    BY <1>1, <2>1, Interrupted, InspectClassify DEF plan
<1>6. QED
  BY <1>1, <1>2, <1>3, <1>4, <1>5, RecoveredU

\* .. or fails, and the recording with it if nothing else works on it.
LEMMA RecoverFailU ==
    ASSUME PInv, UInv, worker.pc = "recovering", worker' = [worker EXCEPT !.pc = "idle"],
           NEW j \in Stale, NEW sourceOk \in BOOLEAN,
           RecoverFail(j, Inspect(j, sourceOk)),
           UNCHANGED <<speech, art, disk>>
    PROVE  UInv'
<1> DEFINE plan == Inspect(j, sourceOk)
<1>1. /\ jobs' = Recovered(j, "failed")
      /\ \/ plan.action \in {"error", "resume", "restart"}
         \/ plan.action = "complete" /\ CompletionErrs(plan)
  BY DEF RecoverFail
<1>2. Becomes(j, "failed", TRUE)
  BY <1>1, RecoveredBecomes DEF JobStatus
<1>3. worker'.pc = "idle" /\ worker'.doc = worker.doc /\ worker'.resumed = worker.resumed
  BY DEF PInv, IInv, Hand, Worker
<1>4. /\ rec'.revision = rec.revision /\ rec'.category = rec.category
      /\ rec'.source = rec.source
      /\ \/ rec'.status = rec.status
         \/ /\ rec'.status = "FAILED" /\ rec.status # "COMPLETED"
            /\ \A i \in Ids \ {j} : ~Active(i)
  BY DEF RecoverFail, Transition, PInv, IInv, Row, RecordingRow
<1> HIDE DEF plan
<1>5. plan.action # "complete"
  <2>1. ~FollowDiffers("summarize", rec.revision, rec.category)
    BY SummaryFollows DEF UInv, Lines
  <2>2. QED
    BY <1>1, <2>1 DEF CompletionErrs
<1>6. jobs[j].kind = "transcribe" => ~Has("finalize_speakers")
  BY <1>5, Interrupted, InspectTranscribe DEF Done, Plan, plan
<1>7. jobs[j].kind = "classify" => ~Has("summarize")
  <2>1. Has("summarize") => Documented
    BY DEF UInv, Classifying
  <2>2. QED
    BY <1>5, <2>1, Interrupted, InspectClassify DEF plan
<1>8. QED
  BY <1>2, <1>3, <1>4, <1>6, <1>7, RecoveredU

\* .. or is found complete, with the summary job it was still to insert.
LEMMA RecoverCompleteU ==
    ASSUME PInv, UInv, worker.pc = "recovering", worker' = [worker EXCEPT !.pc = "idle"],
           NEW j \in Stale, NEW sourceOk \in BOOLEAN,
           RecoverComplete(j, Inspect(j, sourceOk)),
           UNCHANGED <<speech, art, disk>>
    PROVE  UInv'
<1> USE DEF Working, Has, Kept, Succeeded, Ended, Over, FreshAt, Active, IsActive, Ids, Mine,
         Lost, HasJson
<1> DEFINE plan == Inspect(j, sourceOk)
<1>1. /\ j \in Ids /\ jobs[j] \in Job /\ jobs[j].status = "running" /\ worker.pc = "recovering"
      /\ \A i \in Ids : jobs[i].status = "running" => i = j
      /\ \A i \in Ids : jobs[i].kind = jobs[j].kind => i = j \/ jobs[i].status = "failed"
      /\ jobs[j].kind \in {"transcribe", "finalize_speakers", "classify", "summarize"}
      /\ jobs[j].kind = "transcribe" => ~Has("classify") /\ ~Has("summarize")
      /\ jobs[j].kind # "transcribe" =>
            /\ HasJson(1) /\ Has("finalize_speakers") /\ ~speech.pending
            /\ \A i \in Ids : jobs[i].kind = "transcribe" => ~Active(i)
      /\ jobs[j].kind \in {"classify", "summarize"} => Has("classify")
      /\ jobs[j].kind = "summarize" =>
            \A i \in Ids : jobs[i].kind = "classify" => ~Active(i)
      /\ ~Has("summarize") => art.sum = {} /\ disk.sum = {}
  BY Interrupted
<1>2. plan.action = "complete" /\ ApplyCompletion(plan, Recovered(j, "succeeded"))
  BY DEF RecoverComplete
<1>3. worker'.pc = "idle" /\ worker'.doc = worker.doc /\ worker'.resumed = worker.resumed
  BY DEF PInv, IInv, Hand, Worker
<1>4. rec.revision = 1 /\ Lines
  BY DEF UInv, Lines
<1>5. /\ rec'.revision = rec.revision /\ rec'.category = rec.category
      /\ rec'.source = rec.source /\ rec'.status = CompletionStatus(plan)
  BY <1>2 DEF ApplyCompletion, PInv, IInv, Row, RecordingRow
<1>a. /\ rec'.revision = rec.revision /\ rec'.category = rec.category
      /\ rec'.source = rec.source /\ UNCHANGED <<speech, art, disk>> /\ Lines
  BY <1>4, <1>5
<1>6. ~CompletionInserts(plan) => Becomes(j, "succeeded", TRUE)
  BY <1>2, RecoveredBecomes DEF ApplyCompletion, JobStatus
<1> HIDE DEF plan
<1>7. CASE jobs[j].kind = "transcribe"
  <2>1. plan = Done /\ Has("finalize_speakers")
    BY <1>1, <1>2, <1>7, InspectTranscribe DEF plan
  <2>2. CompletionStatus(plan) = rec.status /\ ~CompletionInserts(plan)
    BY <2>1 DEF CompletionStatus, CompletionInserts, Done, Plan
  <2>3. rec'.status = rec.status /\ Becomes(j, "succeeded", TRUE)
    BY <1>5, <1>6, <2>2
  <2>4. Lines'
    BY <1>1, <1>3, <1>a, <1>7, <2>1, <2>3 DEF Becomes, UInv, Lines, InputOf, Busy
  <2>5. Words'
    BY <1>1, <1>3, <1>a, <1>7, <2>1, <2>3 DEF Becomes, UInv, Words, Told
  <2>6. Transcribing'
    BY <1>1, <1>3, <1>a, <1>7, <2>1, <2>3 DEF Becomes, UInv, Transcribing, Busy
  <2>7. Finalizing'
    BY <1>1, <1>3, <1>a, <1>7, <2>1, <2>3 DEF Becomes, UInv, Finalizing, Intact, Busy
  <2>8. Classifying'
    BY <1>1, <1>3, <1>a, <1>7, <2>1, <2>3 DEF Becomes, UInv, Classifying, Documented, Intact, MatchesCategory, Rendered, Writing, Busy
  <2>9. Summarizing'
    BY <1>1, <1>3, <1>a, <1>7, <2>1, <2>3 DEF Becomes, UInv, Summarizing, NewSummary, Busy
  <2>10. QED
    BY <2>4, <2>5, <2>6, <2>7, <2>8, <2>9 DEF UInv
<1>8. CASE jobs[j].kind = "finalize_speakers"
  BY <1>1, <1>2, <1>8, InspectFinalize DEF plan
<1>9. CASE jobs[j].kind = "classify"
  <2>1. /\ Documented
        /\ plan = IF rec.category \in AutoCategory
                  THEN Plan("complete", "SUMMARIZING", TRUE)
                  ELSE Plan("complete", "COMPLETED", FALSE)
    <3>1. j \in Ids
      BY <1>1
    <3> HIDE DEF Ids, HasJson
    <3>2. QED
      BY <1>2, <1>9, <3>1, InspectClassify DEF plan
  <2>a. Documented
    BY <2>1
  <2>2. Documented'
    BY <1>a, <2>a DEF Documented, Intact, MatchesCategory, Rendered
  <2>3. CASE rec.category \notin AutoCategory
    <3>1. CompletionStatus(plan) = "COMPLETED" /\ ~CompletionInserts(plan)
      BY <2>1, <2>3 DEF CompletionStatus, CompletionInserts, Plan
    <3>2. rec'.status = "COMPLETED" /\ Becomes(j, "succeeded", TRUE)
      BY <1>5, <1>6, <3>1
    <3>3. Lines'
      BY <1>1, <1>3, <1>a, <1>9, <2>a, <2>2, <2>3, <3>2 DEF Becomes, UInv, Lines, InputOf, Busy
    <3>4. Words'
      BY <1>1, <1>3, <1>a, <1>9, <2>a, <2>2, <2>3, <3>2 DEF Becomes, UInv, Words, Told
    <3>5. Transcribing'
      BY <1>1, <1>3, <1>a, <1>9, <2>a, <2>2, <2>3, <3>2 DEF Becomes, UInv, Transcribing, Busy
    <3>6. Finalizing'
      BY <1>1, <1>3, <1>a, <1>9, <2>a, <2>2, <2>3, <3>2 DEF Becomes, UInv, Finalizing, Intact, Busy
    <3>7. Classifying'
      BY <1>1, <1>3, <1>a, <1>9, <2>a, <2>2, <2>3, <3>2 DEF Becomes, UInv, Classifying, Documented, Intact, MatchesCategory, Rendered, Writing, Busy
    <3>8. Summarizing'
      BY <1>1, <1>3, <1>a, <1>9, <2>a, <2>2, <2>3, <3>2 DEF Becomes, UInv, Summarizing, NewSummary, Busy
    <3>9. QED
      BY <3>3, <3>4, <3>5, <3>6, <3>7, <3>8 DEF UInv
  <2>4. CASE rec.category \in AutoCategory /\ Has("summarize")
    <3>1. /\ ~CompletionInserts(plan)
          /\ CompletionStatus(plan) \in {"SUMMARIZING", rec.status}
          /\ Succeeded("summarize") => CompletionStatus(plan) = rec.status
      BY <1>4, <2>1, <2>4, SummaryFollows DEF CompletionStatus, CompletionInserts, Plan
    <3>2. /\ rec'.status \in {"SUMMARIZING", rec.status}
          /\ Succeeded("summarize") => rec'.status = rec.status
          /\ Becomes(j, "succeeded", TRUE)
      BY <1>5, <1>6, <3>1
    <3>3. Lines'
      BY <1>1, <1>3, <1>a, <1>9, <2>a, <2>2, <2>4, <3>2 DEF Becomes, UInv, Lines, InputOf, Busy
    <3>4. Words'
      BY <1>1, <1>3, <1>a, <1>9, <2>a, <2>2, <2>4, <3>2 DEF Becomes, UInv, Words, Told
    <3>5. Transcribing'
      BY <1>1, <1>3, <1>a, <1>9, <2>a, <2>2, <2>4, <3>2 DEF Becomes, UInv, Transcribing, Busy
    <3>6. Finalizing'
      BY <1>1, <1>3, <1>a, <1>9, <2>a, <2>2, <2>4, <3>2 DEF Becomes, UInv, Finalizing, Intact, Busy
    <3>7. Classifying'
      BY <1>1, <1>3, <1>a, <1>9, <2>a, <2>2, <2>4, <3>2 DEF Becomes, UInv, Classifying, Documented, Intact, MatchesCategory, Rendered, Writing, Busy
    <3>8. Summarizing'
      BY <1>1, <1>3, <1>a, <1>9, <2>a, <2>2, <2>4, <3>2 DEF Becomes, UInv, Summarizing, NewSummary, Busy
    <3>9. QED
      BY <3>3, <3>4, <3>5, <3>6, <3>7, <3>8 DEF UInv
  <2>5. CASE rec.category \in AutoCategory /\ ~Has("summarize")
    <3>1. FollowMissing("summarize", 1)
      BY <1>4, <2>5, SummaryFollows
    <3>2. CompletionInserts(plan) /\ CompletionStatus(plan) = "SUMMARIZING"
      BY <1>4, <2>1, <2>5, <3>1 DEF CompletionStatus, CompletionInserts, FollowEnded, Plan
    <3>3. jobs' = Append(Recovered(j, "succeeded"), NewJob("summarize", 1, rec.category))
      BY <1>2, <1>4, <3>2 DEF ApplyCompletion
    <3>4. PICK n : /\ n \notin Ids /\ DOMAIN jobs' = Ids \cup {n}
                   /\ jobs'[n] = NewJob("summarize", 1, rec.category)
                   /\ \A i \in Ids : i # j => jobs'[i] = jobs[i]
                   /\ jobs'[j].kind = jobs[j].kind /\ jobs'[j].input = jobs[j].input
                   /\ jobs'[j].retryOf = jobs[j].retryOf
                   /\ jobs'[j].status = "succeeded"
      <4> DEFINE t == Recovered(j, "succeeded")
      <4>1. jobs \in Seq(Job) /\ t = [jobs EXCEPT ![j] = RecoveredRow(j, "succeeded")]
        BY DEF PInv, IInv, TableOk, Recovered, RecoveredRow
      <4>2. RecoveredRow(j, "succeeded") \in Job
        BY <1>1 DEF RecoveredRow, Closed, Job, JobStatus, IsActive
      <4>3. /\ t \in Seq(Job) /\ Len(t) = Len(jobs) /\ DOMAIN t = 1..Len(jobs)
            /\ DOMAIN jobs = 1..Len(jobs) /\ Len(jobs) \in Nat
            /\ \A i \in 1..Len(jobs) : i # j => t[i] = jobs[i]
            /\ t[j] = RecoveredRow(j, "succeeded")
        BY <1>1, <4>1, <4>2
      <4>4. t[j].kind = jobs[j].kind /\ t[j].input = jobs[j].input
            /\ t[j].retryOf = jobs[j].retryOf /\ t[j].status = "succeeded"
        BY <1>1, <4>3 DEF RecoveredRow, Closed, Job
      <4> HIDE DEF t
      <4>5. /\ jobs' = Append(t, NewJob("summarize", 1, rec.category))
            /\ DOMAIN jobs' = 1..(Len(jobs) + 1)
            /\ jobs'[Len(jobs) + 1] = NewJob("summarize", 1, rec.category)
            /\ \A i \in 1..Len(jobs) : jobs'[i] = t[i]
        BY <3>3, <4>3 DEF t
      <4>6. 1..(Len(jobs) + 1) = 1..Len(jobs) \cup {Len(jobs) + 1}
        BY <4>3
      <4>7. WITNESS Len(jobs) + 1
      <4>8. QED
        BY <1>1, <4>3, <4>4, <4>5, <4>6
    <3>5. /\ jobs'[n].kind = "summarize" /\ jobs'[n].status = "queued"
          /\ jobs'[n].input = rec.category /\ jobs'[n].retryOf = 0
      BY <3>4 DEF NewJob
    <3>6. rec'.status = "SUMMARIZING"
      BY <1>5, <3>2
    <3>7. Lines'
      BY <1>1, <1>3, <1>a, <1>9, <2>a, <2>2, <2>5, <3>4, <3>5, <3>6 DEF Becomes, UInv, Lines, InputOf, Busy
    <3>8. Words'
      BY <1>1, <1>3, <1>a, <1>9, <2>a, <2>2, <2>5, <3>4, <3>5, <3>6 DEF Becomes, UInv, Words, Told
    <3>9. Transcribing'
      BY <1>1, <1>3, <1>a, <1>9, <2>a, <2>2, <2>5, <3>4, <3>5, <3>6 DEF Becomes, UInv, Transcribing, Busy
    <3>10. Finalizing'
      BY <1>1, <1>3, <1>a, <1>9, <2>a, <2>2, <2>5, <3>4, <3>5, <3>6 DEF Becomes, UInv, Finalizing, Intact, Busy
    <3>11. Classifying'
      BY <1>1, <1>3, <1>a, <1>9, <2>a, <2>2, <2>5, <3>4, <3>5, <3>6 DEF Becomes, UInv, Classifying, Documented, Intact, MatchesCategory, Rendered, Writing, Busy
    <3>12. Summarizing'
      BY <1>1, <1>3, <1>a, <1>9, <2>a, <2>2, <2>5, <3>4, <3>5, <3>6 DEF Becomes, UInv, Summarizing, NewSummary, Busy
    <3>13. QED
      BY <3>7, <3>8, <3>9, <3>10, <3>11, <3>12 DEF UInv
  <2>6. QED
    BY <2>3, <2>4, <2>5
<1>10. CASE jobs[j].kind = "summarize"
  <2>1. plan = Plan("complete", "COMPLETED", FALSE) /\ art.sum \cap disk.sum # {}
    BY <1>1, <1>2, <1>10, InspectSummarize DEF plan
  <2>2. CompletionStatus(plan) = "COMPLETED" /\ ~CompletionInserts(plan)
    BY <2>1 DEF CompletionStatus, CompletionInserts, Plan
  <2>3. rec'.status = "COMPLETED" /\ Becomes(j, "succeeded", TRUE)
    BY <1>5, <1>6, <2>2
  <2>4. Lines'
    BY <1>1, <1>3, <1>a, <1>10, <2>1, <2>3 DEF Becomes, UInv, Lines, InputOf, Busy
  <2>5. Words'
    BY <1>1, <1>3, <1>a, <1>10, <2>1, <2>3 DEF Becomes, UInv, Words, Told
  <2>6. Transcribing'
    BY <1>1, <1>3, <1>a, <1>10, <2>1, <2>3 DEF Becomes, UInv, Transcribing, Busy
  <2>7. Finalizing'
    BY <1>1, <1>3, <1>a, <1>10, <2>1, <2>3 DEF Becomes, UInv, Finalizing, Intact, Busy
  <2>8. Classifying'
    BY <1>1, <1>3, <1>a, <1>10, <2>1, <2>3 DEF Becomes, UInv, Classifying, Documented, Intact, MatchesCategory, Rendered, Writing, Busy
  <2>9. Summarizing'
    BY <1>1, <1>3, <1>a, <1>10, <2>1, <2>3 DEF Becomes, UInv, Summarizing, NewSummary, Busy
  <2>10. QED
    BY <2>4, <2>5, <2>6, <2>7, <2>8, <2>9 DEF UInv
<1>11. QED
  BY <1>1, <1>7, <1>8, <1>9, <1>10

\* recover_stale_jobs.
LEMMA RecoverU == ASSUME PInv, UInv, Recover PROVE UInv'
<1>1. /\ worker.pc = "recovering" /\ worker' = [worker EXCEPT !.pc = "idle"]
      /\ UNCHANGED <<speech, art, disk>>
  BY DEF Recover
<1>2. CASE Stale = {} /\ UNCHANGED <<rec, jobs, queue>>
  <2> USE DEF Working, Has, Kept, Succeeded, Ended, Over, FreshAt, Active, IsActive, Ids, Mine,
           Lost, HasJson
  <2>1. worker'.pc = "idle" /\ worker'.doc = worker.doc /\ worker'.resumed = worker.resumed
    BY <1>1 DEF PInv, IInv, Hand, Worker
  <2>2. \A j \in Ids : jobs[j].status # "running"
    BY <1>2 DEF Stale
  <2>3. Lines'
    BY <1>1, <1>2, <2>1, <2>2 DEF Becomes, UInv, Lines, InputOf, Busy
  <2>4. Words'
    BY <1>1, <1>2, <2>1, <2>2 DEF Becomes, UInv, Words, Told
  <2>5. Transcribing'
    BY <1>1, <1>2, <2>1, <2>2 DEF Becomes, UInv, Transcribing, Busy
  <2>6. Finalizing'
    BY <1>1, <1>2, <2>1, <2>2 DEF Becomes, UInv, Finalizing, Intact, Busy
  <2>7. Classifying'
    BY <1>1, <1>2, <2>1, <2>2 DEF Becomes, UInv, Classifying, Documented, Intact, MatchesCategory, Rendered, Writing, Busy
  <2>8. Summarizing'
    BY <1>1, <1>2, <2>1, <2>2 DEF Becomes, UInv, Summarizing, NewSummary, Busy
  <2>9. QED
    BY <2>3, <2>4, <2>5, <2>6, <2>7, <2>8 DEF UInv
<1>3. ASSUME NEW j \in Stale, NEW sourceOk \in SourceOutcomes,
             \/ RecoverComplete(j, Inspect(j, sourceOk))
             \/ RecoverRequeue(j, Inspect(j, sourceOk))
             \/ RecoverFail(j, Inspect(j, sourceOk))
      PROVE  UInv'
  <2>1. sourceOk \in BOOLEAN
    BY DEF SourceOutcomes
  <2>2. QED
    BY <1>1, <1>3, <2>1, RecoverCompleteU, RecoverRequeueU, RecoverFailU
<1>4. QED
  BY <1>2, <1>3 DEF Recover

\* No start is aborted: a summary job that would be in the way is the follow-up
\* itself.
LEMMA NoAbort == ASSUME PInv, UInv PROVE ~RecoverAborts
<1>1. ~FollowConflicts("summarize", rec.revision)
  BY SummaryFollows DEF UInv, Lines
<1>2. QED
  BY <1>1 DEF RecoverAborts, CompletionConflicts

-----------------------------------------------------------------------------
(* A retry, and every step *)

\* retry_recording_job: a job of a kind that has no other than failed ones.
LEMMA RetryJobU == ASSUME PInv, UInv, RetryJob PROVE UInv'
<1> USE DEF Working, Has, Kept, Succeeded, Ended, Over, FreshAt, Active, IsActive, Ids, Mine,
         Lost, HasJson
<1>1. PICK j \in Ids, sourceOk \in SourceOutcomes :
         /\ Retryable(j, sourceOk)
         /\ Insert([NewJob(jobs[j].kind, jobs[j].revision, jobs[j].input)
                       EXCEPT !.revived = TRUE, !.retryOf = j])
         /\ rec' = [rec EXCEPT !.status = RetriedStatus(jobs[j].kind)]
  BY DEF RetryJob
<1> DEFINE row == [NewJob(jobs[j].kind, jobs[j].revision, jobs[j].input)
                      EXCEPT !.revived = TRUE, !.retryOf = j]
<1>2. Lines /\ UNCHANGED <<speech, art, disk, worker>>
  BY DEF UInv, RetryJob
<1>3. /\ jobs[j].status = "failed"
      /\ \A i \in Ids : ~Active(i)
      /\ jobs[j].kind \in {"transcribe", "finalize_speakers", "classify"}
      /\ SameInput(jobs[j].kind, jobs[j].revision, jobs[j].input) = {}
  BY <1>1, <1>2, FirstRevision DEF Retryable, Kind
<1>4. ~Kept(jobs[j].kind)
  BY <1>2, <1>3, FirstRevision DEF SameInput, Lines, InputOf, Job, JobStatus
<1>5. /\ row.kind = jobs[j].kind /\ row.status = "queued" /\ row.input = jobs[j].input
      /\ row.retryOf = j /\ row.revived
  BY DEF NewJob
<1>6. Insert(row)
  BY <1>1
<1> HIDE DEF row
<1>7. PICK n : /\ n \notin Ids /\ DOMAIN jobs' = Ids \cup {n} /\ n \in Nat
               /\ jobs'[n] = row
               /\ \A i \in Ids : jobs'[i] = jobs[i] /\ i < n
  BY <1>6, InsertIs DEF PInv, IInv
<1>8. ~Busy
  BY <1>2, <1>3, Lone
<1>9. /\ Has("finalize_speakers") => Kept("transcribe")
      /\ Has("classify") => Has("finalize_speakers")
      /\ Has("summarize") => Kept("classify")
      /\ ~Has("classify") => rec.category = None
      /\ ~Has("classify") /\ HasJson(1) => rec.status \in {"TRANSCRIBING", "FAILED"}
      /\ rec.status = "TRANSCRIBING" => rec.category = None
      /\ Has("classify") => ~Has("finalize_speakers") \/ jobs[j].kind # "transcribe"
  BY <1>4 DEF UInv, Finalizing, Classifying
<1>10. /\ jobs[j].kind = "transcribe" =>
             /\ ~Has("finalize_speakers") /\ ~Has("classify") /\ ~Has("summarize")
             /\ rec'.status = "TRANSCRIBING"
       /\ jobs[j].kind = "classify" => ~Has("summarize") /\ rec'.status = "CLASSIFYING"
       /\ jobs[j].kind = "finalize_speakers" =>
             \/ rec.status # "FAILED" /\ rec'.status = rec.status
             \/ /\ rec.status = "FAILED"
                /\ rec'.status = IF rec.category = None THEN "TRANSCRIBING" ELSE "COMPLETED"
       /\ rec'.revision = rec.revision /\ rec'.category = rec.category
       /\ rec'.source = rec.source
  <2>1. /\ rec'.status = RetriedStatus(jobs[j].kind)
        /\ rec'.revision = rec.revision /\ rec'.category = rec.category
        /\ rec'.source = rec.source
    BY <1>1 DEF PInv, IInv, Row, RecordingRow
  <2>2. /\ jobs[j].kind = "transcribe" =>
             ~Has("finalize_speakers") /\ ~Has("classify") /\ ~Has("summarize")
        /\ jobs[j].kind = "classify" => ~Has("summarize")
    BY <1>4, <1>9
  <2>3. QED
    BY <1>3, <2>1, <2>2 DEF RetriedStatus
<1>11. Lines'
  BY <1>2, <1>3, <1>4, <1>5, <1>7, <1>8, <1>9, <1>10 DEF UInv, Lines, InputOf, Busy
<1>12. Words'
  BY <1>2, <1>3, <1>4, <1>5, <1>7, <1>8, <1>9, <1>10 DEF UInv, Words, Told
<1>13. Transcribing'
  BY <1>2, <1>3, <1>4, <1>5, <1>7, <1>8, <1>9, <1>10 DEF UInv, Transcribing, Busy
<1>14. Finalizing'
  <2>1. CASE jobs[j].kind = "transcribe"
    BY <2>1, <1>2, <1>3, <1>4, <1>5, <1>7, <1>8, <1>9, <1>10 DEF UInv, Finalizing, Intact, Busy
  <2>2. CASE jobs[j].kind = "finalize_speakers"
    <3>1. Has("classify")' <=> Has("classify")
      BY <1>5, <1>7, <2>2
    <3>2. Has("finalize_speakers")' /\ ~Ended("finalize_speakers")'
      BY <1>2, <1>3, <1>4, <1>5, <1>7, <1>8, <2>2 DEF Busy
    <3>3. /\ Has("finalize_speakers") => Over("transcribe")' /\ Kept("transcribe")'
          /\ \A i \in DOMAIN jobs' : jobs'[i].kind = "transcribe" => ~Active(i)'
      BY <1>3, <1>5, <1>7, <1>9, <2>2
    <3>4. /\ rec'.status = "TRANSCRIBING" => rec.category = None
          /\ ~Has("classify") /\ HasJson(1) => rec'.status = "TRANSCRIBING"
      BY <1>9, <1>10, <2>2
    <3>5. Has("finalize_speakers")
      BY <2>2
    <3> HIDE DEF Has, Over, Kept, Ended
    <3>6. QED
      BY <1>2, <1>9, <1>10, <3>1, <3>2, <3>3, <3>4, <3>5 DEF UInv, Finalizing, Intact
  <2>3. CASE jobs[j].kind = "classify"
    BY <2>3, <1>2, <1>3, <1>4, <1>5, <1>7, <1>8, <1>9, <1>10 DEF UInv, Finalizing, Intact, Busy
  <2>4. QED
    BY <1>3, <2>1, <2>2, <2>3
<1>15. Classifying'
  BY <1>2, <1>3, <1>4, <1>5, <1>7, <1>8, <1>9, <1>10 DEF UInv, Classifying, Documented, Intact, MatchesCategory, Rendered, Writing, Busy
<1>16. Summarizing'
  BY <1>2, <1>3, <1>4, <1>5, <1>7, <1>8, <1>9, <1>10 DEF UInv, Summarizing, NewSummary, Busy
<1>17. QED
  BY <1>11, <1>12, <1>13, <1>14, <1>15, <1>16 DEF UInv

\* No other request is made: neither the user nor a match edits the recording.
LEMMA NoRequest ==
    ASSUME Undisturbed
    PROVE  /\ ~EditSpeakers /\ ~RenamePerson /\ ~UpdateCategory /\ ~RequestSummary
           /\ ~CreateRetranscription /\ ~AutoMatch
<1>1. \A request \in {"speaker", "rename", "category", "summary", "retranscribe", "automatch"} :
         request \notin Requests
  BY DEF Undisturbed
<1>2. QED
  BY <1>1 DEF EditSpeakers, RenamePerson, UpdateCategory, RequestSummary,
     CreateRetranscription, AutoMatch, Asked

\* The invariant holds at the registration ..
LEMMA InitU == Init => UInv
<1> USE DEF Working, Has, Kept, Succeeded, Ended, Over, FreshAt, Active, IsActive, Ids, Mine,
         Lost, HasJson
<1> SUFFICES ASSUME Init PROVE UInv
  OBVIOUS
<1>1. /\ jobs = <<NewJob("transcribe", 1, "input-v1")>>
      /\ rec.revision = 1 /\ rec.category = None /\ rec.source = "none"
      /\ rec.status = "DISCOVERED"
      /\ worker.pc = "idle" /\ worker.doc = None /\ ~worker.resumed
      /\ art.sum = {} /\ disk.sum = {}
  BY DEF Init, Unemployed
<1>2. /\ DOMAIN jobs = {1} /\ jobs[1] = NewJob("transcribe", 1, "input-v1")
  BY <1>1
<1>3. /\ jobs[1].kind = "transcribe" /\ jobs[1].input = "input-v1" /\ jobs[1].retryOf = 0
      /\ jobs[1].status = "queued"
  BY <1>2 DEF NewJob
<1>4. art.json[1] = None /\ art.md[1] = None /\ disk.json[0] = None
  BY BoundAssumption DEF Init, Revision, Path
<1>5. Lines
  BY <1>1, <1>2, <1>3, <1>4 DEF UInv, Lines, InputOf, Busy
<1>6. Words
  BY <1>1, <1>2, <1>3, <1>4 DEF UInv, Words, Told
<1>7. Transcribing
  BY <1>1, <1>2, <1>3, <1>4 DEF UInv, Transcribing, Busy
<1>8. Finalizing
  BY <1>1, <1>2, <1>3, <1>4 DEF UInv, Finalizing, Intact, Busy
<1>9. Classifying
  BY <1>1, <1>2, <1>3, <1>4 DEF UInv, Classifying, Documented, Intact, MatchesCategory, Rendered, Writing, Busy
<1>10. Summarizing
  BY <1>1, <1>2, <1>3, <1>4 DEF UInv, Summarizing, NewSummary, Busy
<1>11. QED
  BY <1>5, <1>6, <1>7, <1>8, <1>9, <1>10 DEF UInv

\* .. and every step keeps it.
LEMMA NextU == ASSUME Undisturbed, PInv, UInv, [Next]_allVars PROVE UInv'
<1>1. CASE UNCHANGED allVars
  <2> USE DEF Working, Has, Kept, Succeeded, Ended, Over, FreshAt, Active, IsActive, Ids, Mine,
           Lost, HasJson
  <2>1. UNCHANGED <<rec, speech, jobs, art, disk, worker>>
    BY <1>1 DEF allVars, vars
  <2>2. Lines'
    BY <2>1 DEF UInv, Lines, InputOf, Busy
  <2>3. Words'
    BY <2>1 DEF UInv, Words, Told
  <2>4. Transcribing'
    BY <2>1 DEF UInv, Transcribing, Busy
  <2>5. Finalizing'
    BY <2>1 DEF UInv, Finalizing, Intact, Busy
  <2>6. Classifying'
    BY <2>1 DEF UInv, Classifying, Documented, Intact, MatchesCategory, Rendered, Writing, Busy
  <2>7. Summarizing'
    BY <2>1 DEF UInv, Summarizing, NewSummary, Busy
  <2>8. QED
    BY <2>2, <2>3, <2>4, <2>5, <2>6, <2>7 DEF UInv
<1>2. CASE Startup
  BY <1>2, ReconcileU, RecoverU, NoAbort DEF Startup
<1>3. CASE Claim \/ BackoffExpires \/ Request
  BY <1>3, ClaimU, BackoffExpiresU, RetryJobU, NoRequest DEF Request
<1>4. CASE Handle
  <2>1. CASE ResumeRecovered \/ SettleTranscribe \/ SettleClassify
    BY <2>1, ResumeRecoveredU, SettleTranscribeU, SettleClassifyU
  <2>2. CASE \/ StartTranscribe \/ StartClassify \/ StartFinalize \/ StartSummarize
             \/ StartRender
    <3>1. ~StartRender
      <4>1. SUFFICES ASSUME StartRender PROVE FALSE
        OBVIOUS
      <4>2. Busy /\ Mine.kind = "render"
        BY <4>1 DEF StartRender, Starting, At, Doing, Busy
      <4>3. QED
        BY <4>2, Lone DEF UInv
    <3>2. QED
      BY <2>2, <3>1, StartTranscribeU, StartClassifyU, StartFinalizeU, StartSummarizeU
  <2>3. CASE Transcribed \/ Classified \/ Summarized \/ Embedded
    BY <2>3, TranscribedU, ClassifiedU, SummarizedU, EmbeddedU
  <2>4. CASE \/ WriteJson \/ RegisterTranscript \/ WriteMarkdown \/ RegisterMarkdown
             \/ CutClips \/ RegisterClips
    BY <2>4, WriteJsonU, RegisterTranscriptU, WriteMarkdownU, RegisterMarkdownU, CutClipsU,
       RegisterClipsU
  <2>5. CASE StageRetranscription \/ CommitRetranscription \/ AbandonRetranscription
    BY <2>5, NoEdit DEF StageRetranscription, CommitRetranscription, AbandonRetranscription, At
  <2>6. CASE KeepSpeakers \/ AutoMatch
    BY <2>6, KeepSpeakersU, NoRequest
  <2>7. CASE FollowTranscribe \/ FollowFinalize \/ FollowClassify \/ FollowRender
    <3>1. ~FollowRender
      <4>1. SUFFICES ASSUME FollowRender PROVE FALSE
        OBVIOUS
      <4>2. Busy /\ Mine.kind = "render"
        BY <4>1 DEF FollowRender, At, Doing, Busy
      <4>3. QED
        BY <4>2, Lone DEF UInv
    <3>2. QED
      BY <2>7, <3>1, FollowTranscribeU, FollowFinalizeU, FollowClassifyU
  <2>8. CASE LastTransition \/ WriteSummary \/ RegisterSummary
    BY <2>8, LastTransitionU, WriteSummaryU, RegisterSummaryU
  <2>9. CASE MarkFailed \/ FailJob \/ CompleteJob
    BY <2>9, MarkFailedU, FailJobU, CompleteJobU
  <2>10. QED
    BY <1>4, <2>1, <2>2, <2>3, <2>4, <2>5, <2>6, <2>7, <2>8, <2>9 DEF Handle
<1>5. CASE Fail
  <2>1. CASE Crash \/ Shutdown
    BY <2>1, LostU DEF Crash, Shutdown
  <2>2. QED
    BY <1>5, <2>1, ModelFailsU, WriteFailsU, SyncFailsU, RendererFailsU, ReleaseU DEF Fail
<1>6. QED
  BY <1>1, <1>2, <1>3, <1>4, <1>5 DEF Next, Unfailing

\* UInv holds in every reachable state.
LEMMA UndisturbedInductive ==
    ASSUME Undisturbed
    PROVE  Spec => []UInv
<1>1. PInv /\ UInv /\ [Next]_allVars => UInv'
  BY NextU
<1>2. QED
  BY <1>1, InitU, LedgerInductive, PTL DEF Spec

-----------------------------------------------------------------------------
(* The theorems *)

\* Where nothing is due, running or waiting, and no failed job is without its
\* retry, a kind that has a job has one that succeeded: the last of its line
\* of retries.
LEMMA LastSucceeded ==
    ASSUME PInv, UInv, Quiet, ~VisibleFailure, NEW kind, Has(kind)
    PROVE  Succeeded(kind)
<1> DEFINE line == {j \in Ids : jobs[j].kind = kind}
           last == Newest(line)
<1>1. last \in line /\ \A j \in line : j <= last
  <2>1. Ids = 1..Len(jobs) /\ Len(jobs) \in Nat
    BY DEF PInv, IInv, TableOk, Ids
  <2>2. line \in SUBSET (1..Len(jobs)) /\ line # {}
    BY <2>1 DEF Has
  <2> HIDE DEF line
  <2>3. QED
    BY <2>1, <2>2, LargestExists
<1>2. last \in Ids /\ last \in Nat \ {0} /\ jobs[last].kind = kind
  BY <1>1 DEF PInv, IInv, TableOk, Ids
<1>3. jobs[last] \in Job /\ jobs[last].revision = rec.revision
  BY <1>2, FirstRevision DEF UInv, Lines
<1> HIDE DEF last
<1>4. jobs[last].status # "failed"
  <2>1. SUFFICES ASSUME jobs[last].status = "failed" PROVE FALSE
    OBVIOUS
  <2>2. PICK child \in Ids : jobs[child].retryOf = last
    BY <1>2, <1>3, <2>1 DEF VisibleFailure
  <2>3. last < child /\ jobs[child].kind = kind /\ child \in Nat
    BY <1>2, <2>2 DEF UInv, Lines, PInv, IInv, TableOk, Ids
  <2>4. child <= last
    BY <1>1, <2>3
  <2>5. QED
    BY <1>2, <2>3, <2>4
<1>5. jobs[last].status \notin {"queued", "running"}
  BY <1>2 DEF Quiet, Active, IsActive
<1>6. QED
  BY <1>2, <1>3, <1>4, <1>5 DEF Job, JobStatus, Succeeded

\* Then every part of the work is done, and its documents are there.
LEMMA WorkIsDone ==
    ASSUME PInv, UInv, Quiet, ~VisibleFailure
    PROVE  /\ rec.status = "COMPLETED"
           /\ Documented
           /\ rec.category \in AutoCategory => Succeeded("summarize")
<1>1. Succeeded("transcribe")
  BY LastSucceeded DEF UInv, Transcribing
<1>2. Succeeded("finalize_speakers")
  BY <1>1, LastSucceeded DEF UInv, Transcribing, Ended
<1>3. Succeeded("classify")
  BY <1>2, LastSucceeded DEF UInv, Finalizing, Ended
<1>4. /\ Documented
      /\ \/ Has("summarize")
         \/ rec.status = "COMPLETED" /\ rec.category \notin AutoCategory
  BY <1>3 DEF UInv, Classifying, Ended
<1>5. Has("summarize") => Succeeded("summarize") /\ rec.status = "COMPLETED"
  BY LastSucceeded DEF UInv, Summarizing, Ended
<1>6. QED
  BY <1>4, <1>5

\* However often the worker crashes, is stopped or fails, and whatever the user
\* retries: a recording at rest has ended, or a failed job shows where it is
\* stuck.
THEOREM RestsSettled ==
    ASSUME Undisturbed
    PROVE  Spec => []SettledOrFailed
<1>1. PInv /\ UInv => SettledOrFailed
  BY WorkIsDone DEF SettledOrFailed, Settled
<1>2. QED
  BY <1>1, LedgerInductive, UndisturbedInductive, PTL

\* COMPLETED is only said of a recording whose transcript and Markdown document
\* are registered, intact and of one another, or that has a failed job.
THEOREM CompletedDocuments ==
    ASSUME Undisturbed
    PROVE  Spec => []CompletedIsCurrent
<1>1. ASSUME PInv, UInv, Quiet, ~VisibleFailure
      PROVE  /\ HasJson(rec.revision) /\ JsonValid(rec.revision)
             /\ MatchesSegments(rec.revision)
             /\ MatchesCategory(art.json[rec.revision].content)
             /\ art.md[rec.revision] = disk.md
             /\ disk.md = Rendered(art.json[rec.revision].content)
  <2>1. Documented /\ rec.revision = 1
    BY <1>1, WorkIsDone DEF UInv, Lines
  <2>2. PICK j \in Ids : TRUE
    BY <1>1 DEF UInv, Transcribing, Has
  <2>3. JsonValid(1) /\ MatchesSegments(1)
    BY <1>1, <2>1, <2>2, InspectIs DEF Documented
  <2>4. QED
    BY <2>1, <2>3 DEF Documented
<1>2. PInv /\ UInv => CompletedIsCurrent
  BY <1>1 DEF CompletedIsCurrent, DocumentsCurrent
<1>3. QED
  BY <1>2, LedgerInductive, UndisturbedInductive, PTL

\* A recording of a category that is summarised by itself is not COMPLETED
\* without its summary, registered and in its file, or a failed job.
THEOREM CompletedSummary ==
    ASSUME Undisturbed
    PROVE  Spec => []SummaryIsFresh
<1>1. ASSUME PInv, UInv, Quiet, ~VisibleFailure,
             rec.category \in AutoCategory \/ \E s \in art.sum : s.revision < rec.revision
      PROVE  \E s \in art.sum \cap disk.sum : /\ s.revision = rec.revision
                                             /\ s.category = rec.category
  <2>1. /\ rec.revision = 1
        /\ \A s \in art.sum : s.revision = 1 /\ s.category = rec.category
    BY <1>1 DEF UInv, Lines, Summarizing
  <2>2. rec.category \in AutoCategory
    BY <1>1, <2>1
  <2>3. art.sum \cap disk.sum # {}
    BY <1>1, <2>2, WorkIsDone DEF UInv, Summarizing, Ended
  <2>4. QED
    BY <2>1, <2>3
<1>2. PInv /\ UInv => SummaryIsFresh
  BY <1>1 DEF SummaryIsFresh
<1>3. QED
  BY <1>2, LedgerInductive, UndisturbedInductive, PTL

\* The provider is not asked again for a summary that is registered, wherever
\* the worker was interrupted, but by a job that waited for its own retry.
THEOREM SummarisedOnce ==
    ASSUME Undisturbed
    PROVE  Spec => NotResummarised
<1>1. ASSUME PInv, UInv, Summarized, art.sum # {}
      PROVE  Mine.attempts > 1 /\ ~Mine.revived
  <2>1. worker.pc = "model" /\ Mine.kind = "summarize" /\ Busy
    BY <1>1 DEF Summarized, At, Doing, Busy
  <2>2. worker.job \in Ids /\ Mine \in Job /\ Mine.status = "running"
    BY <1>1, <2>1, Lone DEF UInv
  <2>3. ~Mine.revived
    BY <1>1, <2>1 DEF UInv, Summarizing, Working
  <2>4. Mine.attempts >= 1 /\ Mine.attempts # 1 /\ Mine.attempts \in Nat
    BY <1>1, <2>1, <2>2, <2>3 DEF UInv, Summarizing, Active, IsActive, Mine, Lost, Job
  <2>5. QED
    BY <2>3, <2>4
<1>2. PInv /\ UInv /\ [Next]_allVars =>
        [Summarized /\ HasSummary => Mine.attempts > 1 /\ ~Mine.revived]_allVars
  BY <1>1 DEF HasSummary
<1>3. QED
  BY <1>2, LedgerInductive, UndisturbedInductive, PTL DEF Spec, NotResummarised

\* No summary job stands in the way of the worker's start.
THEOREM StartsNotAborted ==
    ASSUME Undisturbed
    PROVE  Spec => WorkerStarts
<1>1. PInv /\ UInv /\ [Next]_allVars => [~RecoverAborts]_allVars
  BY NoAbort
<1>2. QED
  BY <1>1, LedgerInductive, UndisturbedInductive, PTL DEF Spec, WorkerStarts
=============================================================================
