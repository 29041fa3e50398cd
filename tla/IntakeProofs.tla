---------------------------- MODULE IntakeProofs ----------------------------
(***************************************************************************)
(* What Intake registers is a whole audio file, once, for every folder,    *)
(* every number of writes and failures.                                    *)
(***************************************************************************)
EXTENDS Intake, SequenceTheorems, TLAPS

\* No write that is still to come can bring back a stamp that was seen.
Stamps == /\ intake.before <= writes
          /\ \A f \in File : folder[f] # None => folder[f].stamp <= writes

\* The worker remembers the files it is about to look at, and the one it holds.
Batch == /\ \A f \in intake.batch : tracker[f] # None
         /\ intake.pc \in {"probe", "hash", "check", "register"} =>
                /\ intake.file \in File
                /\ tracker[intake.file] # None

\* While the file has the stamp of the first stat, what was probed and hashed is
\* what lies in it; after the second stat the digest no longer depends on it.
Examined ==
    /\ intake.pc = "hash" /\ Same => folder[intake.file].content \in Audio
    /\ intake.pc = "check" =>
          /\ intake.digest \in Digest
          /\ Same => intake.digest = folder[intake.file].content /\ intake.digest \in Audio
    /\ intake.pc = "register" => intake.digest \in Audio

IntakeInv == /\ IntakeTypeOK
             /\ Stamps
             /\ Batch
             /\ Examined
             /\ OnlyWholeAudio
             /\ RegisteredOnce

-----------------------------------------------------------------------------
(* Parts that several actions share *)

\* Between two files the worker holds nothing that the invariant speaks of.
LEMMA BetweenOk ==
    ASSUME IntakeInv, NEW batch \in SUBSET intake.batch, intake' = Between(batch),
           UNCHANGED <<folder, tracker, rows, writes>>,
           rejected' \in SUBSET [file : File, stamp : Nat], faults' \in Nat
    PROVE  IntakeInv'
<1>1. intake \in Intake /\ batch \in SUBSET File
  BY DEF IntakeInv, IntakeTypeOK, Intake
<1>2. /\ intake' \in Intake
      /\ intake'.pc = "loop" /\ intake'.before = 0 /\ intake'.batch = batch
  BY <1>1 DEF Between, Intake
<1>3. IntakeTypeOK'
  BY <1>2 DEF IntakeInv, IntakeTypeOK
<1>4. writes \in Nat
  BY DEF IntakeInv, IntakeTypeOK
<1>5. Stamps'
  BY <1>2, <1>4 DEF IntakeInv, Stamps
<1>6. Batch'
  BY <1>2 DEF IntakeInv, Batch
<1>7. Examined'
  BY <1>2 DEF Examined
<1>8. OnlyWholeAudio' /\ RegisteredOnce'
  BY DEF IntakeInv, OnlyWholeAudio, RegisteredOnce
<1> QED  BY <1>3, <1>5, <1>6, <1>7, <1>8 DEF IntakeInv

\* The stamp a refusal is recorded with is one the worker remembers.
LEMMA RejectOk ==
    ASSUME IntakeInv, NEW f \in File, tracker[f] # None, Reject(f),
           UNCHANGED <<folder, tracker, rows, writes>>, faults' \in Nat
    PROVE  IntakeInv'
<1>1. tracker[f] \in Snapshot /\ rejected \in SUBSET [file : File, stamp : Nat]
  BY DEF IntakeInv, IntakeTypeOK
<1>2. rejected' \in SUBSET [file : File, stamp : Nat]
  BY <1>1 DEF Reject, Snapshot
<1> QED  BY <1>2, BetweenOk DEF Reject

\* A step within ingest_file that changes nothing but the worker.
LEMMA WithinOk ==
    ASSUME IntakeInv, UNCHANGED <<folder, tracker, rows, rejected, writes, faults>>,
           intake' \in Intake, intake'.before <= writes, Examined',
           intake'.batch \subseteq intake.batch,
           intake'.file \in File, tracker[intake'.file] # None
    PROVE  IntakeInv'
<1>1. IntakeTypeOK'  BY DEF IntakeInv, IntakeTypeOK
<1>2. Stamps'  BY DEF IntakeInv, Stamps
<1>3. Batch'  BY DEF IntakeInv, Batch
<1>4. OnlyWholeAudio' /\ RegisteredOnce'
  BY DEF IntakeInv, OnlyWholeAudio, RegisteredOnce
<1> QED  BY <1>1, <1>2, <1>3, <1>4 DEF IntakeInv

\* The file the worker holds during an ingest.
LEMMA FileHeld ==
    ASSUME IntakeInv, intake.pc \in {"probe", "hash", "check", "register"}
    PROVE  /\ intake \in Intake /\ intake.before <= writes
           /\ intake.file \in File /\ tracker[intake.file] # None
           /\ folder[intake.file] \in Entry \cup {None}
  BY DEF IntakeInv, IntakeTypeOK, Batch, Stamps, Intake

-----------------------------------------------------------------------------
(* The folder and the clock *)

\* A change of one file keeps the invariant: its new stamp, if there is one,
\* is later than every stamp the worker has seen.
LEMMA FolderOk ==
    ASSUME IntakeInv, NEW f \in File, NEW e \in Entry \cup {None},
           e # None => e.stamp = writes + 1,
           folder' = [folder EXCEPT ![f] = e], writes' = writes + 1,
           UNCHANGED <<tracker, intake, rows, rejected, faults>>
    PROVE  IntakeInv'
<1>1. IntakeTypeOK /\ Stamps /\ Batch /\ Examined
  BY DEF IntakeInv
<1>2. IntakeTypeOK'
  BY <1>1 DEF IntakeTypeOK
<1>3. /\ writes \in Nat /\ intake \in Intake /\ intake.before \in Nat
      /\ \A g \in File : folder[g] # None => folder[g].stamp \in Nat
  BY <1>1 DEF IntakeTypeOK, Entry, Intake
<1>4. \A g \in File : folder'[g] = IF g = f THEN e ELSE folder[g]
  BY <1>1 DEF IntakeTypeOK
<1>5. Stamps'
  BY <1>1, <1>3, <1>4 DEF Stamps
<1>6. Batch'
  BY <1>1 DEF Batch
<1>7. Examined'
  <2>1. CASE intake.pc \in {"hash", "check"}
    <3>1. intake.file \in File
      BY <1>1, <2>1 DEF Batch
    <3>2. Same' => Same /\ folder'[intake.file] = folder[intake.file]
      BY <1>1, <1>3, <1>4, <3>1 DEF Same, Missing, Stamps
    <3> QED  BY <1>1, <2>1, <3>2 DEF Examined
  <2>2. CASE intake.pc \notin {"hash", "check"}
    BY <1>1, <2>2 DEF Examined
  <2> QED  BY <2>1, <2>2
<1>8. OnlyWholeAudio' /\ RegisteredOnce'
  BY DEF IntakeInv, OnlyWholeAudio, RegisteredOnce
<1> QED  BY <1>2, <1>5, <1>6, <1>7, <1>8 DEF IntakeInv

\* A file is written.
LEMMA WriteStep == ASSUME IntakeInv, NEW f \in File, Write(f) PROVE IntakeInv'
<1>1. PICK c \in Content : folder' = [folder EXCEPT ![f] = [content |-> c, stamp |-> writes']]
  BY DEF Write
<1> DEFINE e == [content |-> c, stamp |-> writes + 1]
<1>2. writes \in Nat
  BY DEF IntakeInv, IntakeTypeOK
<1>3. e \in Entry /\ e.stamp = writes + 1
  BY <1>2 DEF Entry
<1>4. folder' = [folder EXCEPT ![f] = e] /\ writes' = writes + 1
  BY <1>1 DEF Write
<1> QED  BY <1>3, <1>4, FolderOk DEF Write

\* A file is deleted.
LEMMA DeleteStep == ASSUME IntakeInv, NEW f \in File, Delete(f) PROVE IntakeInv'
  BY FolderOk DEF Delete

\* Time passes.
LEMMA TickStep == ASSUME IntakeInv, Tick PROVE IntakeInv'
<1>1. IntakeTypeOK /\ Batch
  BY DEF IntakeInv
<1>2. \A f \in Ageing : [tracker[f] EXCEPT !.age = @ + 1] \in Snapshot
  BY <1>1, LimitAssumption DEF Ageing, IntakeTypeOK, Snapshot
<1>3. tracker' \in [File -> Snapshot \cup {None}]
  BY <1>1, <1>2 DEF Tick, IntakeTypeOK
<1>4. \A f \in File : tracker[f] # None => tracker'[f] # None
  <2> SUFFICES ASSUME NEW f \in File, tracker[f] # None PROVE tracker'[f] # None
    OBVIOUS
  <2>1. tracker[f] \in Snapshot
    BY <1>1 DEF IntakeTypeOK
  <2>2. CASE f \in Ageing
    BY <2>2, <1>2, SnapshotAssumption DEF Tick
  <2> QED  BY <2>2 DEF Tick
<1>5. IntakeTypeOK'
  BY <1>1, <1>3 DEF Tick, IntakeTypeOK
<1>6. intake.batch \subseteq File
  BY <1>1 DEF IntakeTypeOK, Intake
<1>7. Batch'
  BY <1>1, <1>4, <1>6 DEF Tick, Batch
<1>8. Stamps' /\ Examined' /\ OnlyWholeAudio' /\ RegisteredOnce'
  BY DEF Tick, IntakeInv, Stamps, Examined, Same, Missing, OnlyWholeAudio, RegisteredOnce
<1> QED  BY <1>5, <1>7, <1>8 DEF IntakeInv

-----------------------------------------------------------------------------
(* StabilityTracker.scan *)

\* A scan offers remembered files only.
LEMMA ScanStep == ASSUME IntakeInv, Scan PROVE IntakeInv'
<1>1. IntakeTypeOK /\ Stamps /\ intake \in Intake
  BY DEF IntakeInv, IntakeTypeOK
<1>2. \A f \in File : /\ Remembered(f) \in Snapshot \cup {None}
                      /\ Offered(f) => Remembered(f) # None
  <2> SUFFICES ASSUME NEW f \in File
               PROVE  /\ Remembered(f) \in Snapshot \cup {None}
                      /\ Offered(f) => Remembered(f) # None
    OBVIOUS
  <2>1. folder[f] \in Entry \cup {None} /\ tracker[f] \in Snapshot \cup {None}
    BY <1>1 DEF IntakeTypeOK
  <2>2. CASE folder[f] = None
    BY <2>2 DEF Remembered, Offered
  <2>3. CASE folder[f] # None /\ Unchanged(f)
    <3>1. tracker[f] \in Snapshot
      BY <2>1, <2>3 DEF Unchanged
    <3>2. Remembered(f) = [tracker[f] EXCEPT !.emitted = tracker[f].emitted \/ Stable(f)]
      BY <2>3 DEF Remembered
    <3>3. (tracker[f].emitted \/ Stable(f)) \in BOOLEAN
      BY <3>1 DEF Snapshot
    <3>4. Remembered(f) \in Snapshot
      BY <3>1, <3>2, <3>3 DEF Snapshot
    <3> QED  BY <3>4, SnapshotAssumption
  <2>4. CASE folder[f] # None /\ ~Unchanged(f)
    <3>1. folder[f].stamp \in Nat
      BY <2>1, <2>4 DEF Entry
    <3>2. Remembered(f) = [stamp |-> folder[f].stamp, age |-> 0, emitted |-> FALSE]
      BY <2>4 DEF Remembered
    <3>3. [stamp |-> folder[f].stamp, age |-> 0, emitted |-> FALSE] \in Snapshot
      BY <3>1, LimitAssumption DEF Snapshot
    <3> QED  BY <2>4, <3>2, <3>3 DEF Offered, Stable
  <2> QED  BY <2>2, <2>3, <2>4
<1>3. tracker' \in [File -> Snapshot \cup {None}] /\ \A f \in File : tracker'[f] = Remembered(f)
  <2>1. tracker' = [f \in File |-> Remembered(f)]
    BY DEF Scan
  <2>2. \A f \in File : tracker'[f] = Remembered(f)
    BY <2>1, Zenon
  <2>3. \A f \in File : Remembered(f) \in Snapshot \cup {None}
    BY <1>2, Zenon
  <2>4. tracker' \in [File -> Snapshot \cup {None}]
    BY <2>1, <2>3, Zenon
  <2> QED  BY <2>2, <2>4
<1>4. /\ intake' \in Intake
      /\ intake'.pc = "loop" /\ intake'.before = 0
      /\ intake'.batch = {f \in File : Offered(f)}
  BY DEF Scan, Between, Intake
<1>5. IntakeTypeOK'
  BY <1>1, <1>3, <1>4 DEF Scan, IntakeTypeOK
<1>6. writes \in Nat
  BY <1>1 DEF IntakeTypeOK
<1>7. Stamps'
  BY <1>1, <1>4, <1>6 DEF Scan, Stamps
<1>8. Batch'
  BY <1>2, <1>3, <1>4 DEF Batch
<1>9. Examined' /\ OnlyWholeAudio' /\ RegisteredOnce'
  BY <1>4 DEF Scan, IntakeInv, Examined, OnlyWholeAudio, RegisteredOnce
<1> QED  BY <1>5, <1>7, <1>8, <1>9 DEF IntakeInv

-----------------------------------------------------------------------------
(* ingest_file *)

\* The first stat takes one file of the batch.
LEMMA FirstStatStep == ASSUME IntakeInv, FirstStat PROVE IntakeInv'
<1>1. PICK f \in intake.batch :
         IF folder[f] = None
         THEN Reject(f)
         ELSE /\ intake' = [intake EXCEPT !.pc = "probe", !.batch = @ \ {f}, !.file = f,
                                          !.before = folder[f].stamp]
              /\ UNCHANGED rejected
  BY DEF FirstStat
<1>2. /\ intake \in Intake /\ f \in File /\ tracker[f] # None /\ faults \in Nat
      /\ folder[f] \in Entry \cup {None}
  BY DEF IntakeInv, IntakeTypeOK, Intake, Batch
<1>3. CASE folder[f] = None
  BY <1>1, <1>2, <1>3, RejectOk DEF FirstStat
<1>4. CASE folder[f] # None
  <2>1. folder[f].stamp \in Nat /\ folder[f].stamp <= writes
    BY <1>2, <1>4 DEF IntakeInv, Stamps, Entry
  <2>2. /\ intake' \in Intake
        /\ intake'.pc = "probe" /\ intake'.file = f
        /\ intake'.before = folder[f].stamp /\ intake'.batch \subseteq intake.batch
    <3> DEFINE rest == intake.batch \ {f}
    <3>1. rest \in SUBSET File /\ rest \subseteq intake.batch
      BY <1>2 DEF Intake
    <3>2. intake' = [intake EXCEPT !.pc = "probe", !.batch = rest, !.file = f,
                                   !.before = folder[f].stamp]
      BY <1>1, <1>4
    <3> HIDE DEF rest
    <3> QED  BY <1>2, <2>1, <3>1, <3>2 DEF Intake
  <2>3. Examined'
    BY <2>2 DEF Examined
  <2> QED  BY <1>1, <1>2, <1>4, <2>1, <2>2, <2>3, WithinOk DEF FirstStat
<1> QED  BY <1>3, <1>4

\* ffprobe answers.
LEMMA ProbeStep == ASSUME IntakeInv, Probe PROVE IntakeInv'
<1>1. PICK audio \in ProbeAnswers :
         IF audio THEN Goes("hash") /\ UNCHANGED rejected ELSE Reject(intake.file)
  BY DEF Probe
<1>2. intake.pc = "probe"
  BY DEF Probe
<1>3. /\ intake \in Intake /\ intake.before <= writes
      /\ intake.file \in File /\ tracker[intake.file] # None
  BY <1>2, FileHeld
<1>4. CASE audio
  <2>1. /\ intake' \in Intake
        /\ intake'.pc = "hash" /\ intake'.file = intake.file
        /\ intake'.before = intake.before /\ intake'.batch = intake.batch
    BY <1>1, <1>3, <1>4 DEF Goes, Intake
  <2>2. Same => folder[intake.file].content \in Audio
    BY <1>4 DEF ProbeAnswers, Same
  <2>3. Same' = Same /\ folder' = folder
    BY <2>1 DEF Probe, Same, Missing
  <2>4. Examined'
    BY <2>1, <2>2, <2>3 DEF Examined
  <2> QED  BY <1>1, <1>3, <1>4, <2>1, <2>4, WithinOk DEF Probe
<1>5. CASE ~audio
  <2>1. faults \in Nat
    BY DEF IntakeInv, IntakeTypeOK
  <2> QED  BY <1>1, <1>3, <1>5, <2>1, RejectOk DEF Probe
<1> QED  BY <1>4, <1>5

\* The file is hashed.
LEMMA HashStep == ASSUME IntakeInv, Hash PROVE IntakeInv'
<1>1. intake.pc = "hash"
  BY DEF Hash
<1>2. /\ intake \in Intake /\ intake.before <= writes
      /\ intake.file \in File /\ tracker[intake.file] # None
      /\ folder[intake.file] \in Entry \cup {None}
  BY <1>1, FileHeld
<1>3. CASE Missing
  <2>1. faults \in Nat
    BY DEF IntakeInv, IntakeTypeOK
  <2> QED  BY <1>2, <1>3, <2>1, RejectOk DEF Hash
<1>4. CASE ~Missing
  <2>1. PICK d \in {folder[intake.file].content} \cup (IF Same THEN {} ELSE {Torn}) :
           intake' = [intake EXCEPT !.pc = "check", !.digest = d]
    BY <1>4 DEF Hash
  <2>2. d \in Digest /\ (Same => d = folder[intake.file].content /\ d \in Audio)
    BY <1>1, <1>2, <1>4, <2>1 DEF Digest, Missing, Entry, IntakeInv, Examined
  <2>3. /\ intake' \in Intake
        /\ intake'.pc = "check" /\ intake'.file = intake.file /\ intake'.digest = d
        /\ intake'.before = intake.before /\ intake'.batch = intake.batch
    BY <1>2, <2>1, <2>2 DEF Intake
  <2>4. Same' = Same /\ folder' = folder
    BY <2>3 DEF Hash, Same, Missing
  <2>5. Examined'
    BY <2>2, <2>3, <2>4 DEF Examined
  <2> QED  BY <1>2, <1>4, <2>3, <2>5, WithinOk DEF Hash
<1> QED  BY <1>3, <1>4

\* The second stat lets an unchanged file pass.
LEMMA SecondStatStep == ASSUME IntakeInv, SecondStat PROVE IntakeInv'
<1>1. intake.pc = "check"
  BY DEF SecondStat
<1>2. /\ intake \in Intake /\ intake.before <= writes
      /\ intake.file \in File /\ tracker[intake.file] # None /\ faults \in Nat
      /\ rejected \in SUBSET [file : File, stamp : Nat]
  BY <1>1, FileHeld DEF IntakeInv, IntakeTypeOK
<1>3. CASE Missing
  BY <1>2, <1>3, RejectOk DEF SecondStat
<1>4. CASE ~Missing /\ Settled
  <2>1. /\ intake' \in Intake
        /\ intake'.pc = "register" /\ intake'.file = intake.file
        /\ intake'.digest = intake.digest
        /\ intake'.before = intake.before /\ intake'.batch = intake.batch
    BY <1>2, <1>4 DEF SecondStat, Goes, Intake
  <2>2. intake.digest \in Audio
    BY <1>1, <1>4 DEF IntakeInv, Examined, Settled
  <2>3. Examined'
    BY <2>1, <2>2 DEF Examined
  <2> QED  BY <1>2, <1>4, <2>1, <2>3, WithinOk DEF SecondStat
<1>5. CASE ~Missing /\ ~Settled
  BY <1>2, <1>5, BetweenOk DEF SecondStat, Skip
<1> QED  BY <1>3, <1>4, <1>5

\* A registration adds a row for a new content only, and only for audio.
LEMMA RegisterStep == ASSUME IntakeInv, Register PROVE IntakeInv'
<1> DEFINE d == intake.digest
           known == Known(d)
<1>1. /\ intake.file \in File /\ d \in Audio /\ intake \in Intake
      /\ rows \in Seq([content : Digest, source : File])
  BY FileHeld DEF Register, IntakeInv, IntakeTypeOK, Examined
<1>2. d \in Digest
  BY <1>1, AudioAssumption DEF Digest
<1>3. \A i \in DOMAIN rows : rows[i] \in [content : Digest, source : File]
  BY <1>1, ElementOfSeq, LenProperties
<1>4. /\ rows' \in Seq([content : Digest, source : File])
      /\ OnlyWholeAudio' /\ RegisteredOnce'
  <2>1. CASE known # {}
    <3>1. rows' = [i \in DOMAIN rows |-> IF i \in known
                                         THEN [rows[i] EXCEPT !.source = intake.file]
                                         ELSE rows[i]]
      BY <2>1 DEF Register
    <3>2. \A i \in DOMAIN rows : /\ rows'[i].content = rows[i].content
                                 /\ rows'[i] \in [content : Digest, source : File]
      BY <1>1, <1>3, <3>1
    <3>3. DOMAIN rows' = DOMAIN rows
      BY <3>1
    <3>4. DOMAIN rows = 1..Len(rows) /\ Len(rows) \in Nat
      BY <1>1, LenProperties
    <3>5. rows' \in [1..Len(rows) -> [content : Digest, source : File]]
      BY <3>1, <3>2, <3>4
    <3>6. rows' \in Seq([content : Digest, source : File])
      BY <3>4, <3>5, SeqDef
    <3> QED  BY <3>2, <3>3, <3>6 DEF IntakeInv, OnlyWholeAudio, RegisteredOnce
  <2>2. CASE known = {}
    <3> DEFINE new == [content |-> d, source |-> intake.file]
    <3>1. rows' = Append(rows, new)
      BY <2>2 DEF Register
    <3>2. new \in [content : Digest, source : File]
      BY <1>1, <1>2
    <3>3. /\ rows' \in Seq([content : Digest, source : File])
          /\ Len(rows') = Len(rows) + 1
          /\ \A i \in 1..Len(rows) : rows'[i] = rows[i]
          /\ rows'[Len(rows) + 1] = new
      BY <1>1, <3>1, <3>2, AppendProperties
    <3>4. DOMAIN rows = 1..Len(rows) /\ DOMAIN rows' = 1..(Len(rows) + 1) /\ Len(rows) \in Nat
      BY <1>1, <3>3, LenProperties
    <3>5. \A i \in 1..Len(rows) : rows[i].content # d
      BY <2>2, <3>4 DEF Known
    <3>6. OnlyWholeAudio'
      BY <1>1, <3>3, <3>4 DEF IntakeInv, OnlyWholeAudio
    <3>7. RegisteredOnce'
      BY <3>3, <3>4, <3>5 DEF IntakeInv, RegisteredOnce
    <3> QED  BY <3>3, <3>6, <3>7
  <2> QED  BY <2>1, <2>2
<1>5. /\ intake' \in Intake
      /\ intake'.pc = "loop" /\ intake'.before = 0 /\ intake'.batch = intake.batch
  BY <1>1 DEF Register, Skip, Between, Intake
<1>6. IntakeTypeOK'
  BY <1>4, <1>5 DEF Register, IntakeInv, IntakeTypeOK
<1>7. Stamps' /\ Batch' /\ Examined'
  <2>1. writes \in Nat
    BY DEF IntakeInv, IntakeTypeOK
  <2> QED  BY <1>5, <2>1 DEF Register, IntakeInv, Stamps, Batch, Examined
<1> QED  BY <1>4, <1>6, <1>7 DEF IntakeInv

-----------------------------------------------------------------------------
(* Failures *)

\* The process ends: nothing is held any more.
LEMMA EndsOk ==
    ASSUME IntakeInv, Ends, UNCHANGED <<rows, rejected, writes>>, faults' \in Nat,
           folder' \in [File -> Entry \cup {None}],
           \A f \in File : folder'[f] # None => folder'[f] = folder[f]
    PROVE  IntakeInv'
<1>1. /\ intake' \in Intake
      /\ intake'.pc = "down" /\ intake'.before = 0 /\ intake'.batch = {}
  BY DEF Ends, Between, Intake
<1>2. IntakeTypeOK'
  BY <1>1 DEF IntakeInv, IntakeTypeOK, Ends, NothingSeen
<1>3. writes \in Nat
  BY DEF IntakeInv, IntakeTypeOK
<1>4. Stamps' /\ Batch' /\ Examined'
  BY <1>1, <1>3 DEF IntakeInv, Stamps, Batch, Examined
<1>5. OnlyWholeAudio' /\ RegisteredOnce'
  BY DEF IntakeInv, OnlyWholeAudio, RegisteredOnce
<1> QED  BY <1>2, <1>4, <1>5 DEF IntakeInv

\* A failure in an ingest, in a scan, or of the process.
LEMMA IntakeFailsStep == ASSUME IntakeInv, IntakeFails PROVE IntakeInv'
<1>1. faults' \in Nat
  BY DEF IntakeInv, IntakeTypeOK, IntakeFails
<1>2. folder \in [File -> Entry \cup {None}]
  BY DEF IntakeInv, IntakeTypeOK
<1>3. CASE IngestFails
  <2>1. PICK f \in File : tracker[f] # None /\ Reject(f)
    <3>1. intake.batch \subseteq File
      BY DEF IntakeInv, IntakeTypeOK, Intake
    <3> QED  BY <1>3, <3>1, FileHeld DEF IngestFails, IntakeInv, Batch
  <2> QED  BY <1>1, <1>3, <2>1, RejectOk DEF IngestFails
<1>4. CASE ScanAborts
  <2>1. PICK f \in File : folder' = [folder EXCEPT ![f] = None]
    BY <1>4 DEF ScanAborts
  <2>2. /\ folder' \in [File -> Entry \cup {None}]
        /\ \A g \in File : folder'[g] # None => folder'[g] = folder[g]
    BY <1>2, <2>1
  <2> QED  BY <1>1, <1>4, <2>2, EndsOk DEF ScanAborts
<1>5. CASE IntakeCrash
  BY <1>1, <1>2, <1>5, EndsOk DEF IntakeCrash
<1> QED  BY <1>3, <1>4, <1>5 DEF IntakeFails

\* The process is started again.
LEMMA RestartedStep == ASSUME IntakeInv, Restarted PROVE IntakeInv'
<1>1. faults \in Nat /\ rejected \in SUBSET [file : File, stamp : Nat]
  BY DEF IntakeInv, IntakeTypeOK
<1> QED  BY <1>1, BetweenOk DEF Restarted

-----------------------------------------------------------------------------
(* The theorems *)

\* The empty folder satisfies the invariant.
LEMMA IntakeInitOk == IntakeInit => IntakeInv
<1> SUFFICES ASSUME IntakeInit PROVE IntakeInv
  OBVIOUS
<1>1. /\ intake \in Intake
      /\ intake.pc = "loop" /\ intake.before = 0 /\ intake.batch = {}
  BY DEF IntakeInit, Between, Intake
<1>2. IntakeTypeOK
  BY <1>1 DEF IntakeInit, IntakeTypeOK, NothingSeen
<1>3. DOMAIN rows = {}
  BY DEF IntakeInit
<1> QED  BY <1>1, <1>2, <1>3 DEF IntakeInit, IntakeInv, Stamps, Batch, Examined,
                                OnlyWholeAudio, RegisteredOnce

\* Every step keeps it.
LEMMA IntakeNextOk == IntakeInv /\ [IntakeNext]_intakeVars => IntakeInv'
<1> SUFFICES ASSUME IntakeInv, [IntakeNext]_intakeVars PROVE IntakeInv'
  OBVIOUS
<1>1. CASE \E f \in File : Write(f) \/ Delete(f)
  BY <1>1, WriteStep, DeleteStep
<1>2. CASE Tick
  BY <1>2, TickStep
<1>3. CASE Loop
  BY <1>3, RestartedStep, ScanStep, FirstStatStep, ProbeStep, HashStep, SecondStatStep,
     RegisterStep DEF Loop
<1>4. CASE IntakeFails
  BY <1>4, IntakeFailsStep
<1>5. CASE UNCHANGED intakeVars
  BY <1>5 DEF intakeVars, IntakeInv, IntakeTypeOK, Stamps, Batch, Examined, Same, Missing,
     OnlyWholeAudio, RegisteredOnce
<1> QED  BY <1>1, <1>2, <1>3, <1>4, <1>5 DEF IntakeNext

\* What ingest_file registers was one whole file with audio, whatever was
\* written while it was probed, hashed and compared.
THEOREM WholeAudio == IntakeSpec => []OnlyWholeAudio
<1>1. IntakeInv => OnlyWholeAudio
  BY DEF IntakeInv
<1> QED  BY <1>1, IntakeInitOk, IntakeNextOk, PTL DEF IntakeSpec

\* register_recording makes one recording of a content, under however many
\* names it comes and however often the worker starts.
THEOREM OneRecording == IntakeSpec => []RegisteredOnce
<1>1. IntakeInv => RegisteredOnce
  BY DEF IntakeInv
<1> QED  BY <1>1, IntakeInitOk, IntakeNextOk, PTL DEF IntakeSpec
=============================================================================
