------------------------------- MODULE Intake -------------------------------
(***************************************************************************)
(* How a file becomes a recording: the worker scans the input folder,      *)
(* waits until a file has not changed for some time, probes and hashes it  *)
(* and registers its content.  People and file synchronisation write and   *)
(* delete files at any moment, and the worker's memory of what it saw is   *)
(* lost with the process.                                                  *)
(*                                                                         *)
(* A content is a model value; a file's stamp stands for its size and      *)
(* modification time, which no two writes share.                           *)
(***************************************************************************)
EXTENDS Integers, Sequences

CONSTANTS
    File,         \* the names of candidate files in the input folder
    Content,      \* what may lie in them, complete or not
    Audio,        \* the contents ffprobe finds an audio stream in
    None,         \* no file, nothing remembered
    Torn,         \* the digest of a file that changed while it was read
    StableTime,   \* FILE_STABLE_SECONDS, in ticks
    MaxWrites,    \* bound: writes and deletions in a behaviour
    MaxFaults,    \* bound: failures in a behaviour
    IntakeFaults  \* which failures may occur

IntakeFaultKinds == {"io", "probe", "vanish", "crash"}

ASSUME AudioAssumption == Audio \subseteq Content
ASSUME OutsideAssumption == None \notin Content /\ Torn \notin Content
ASSUME LimitAssumption == StableTime \in Nat \ {0} /\ MaxWrites \in Nat
                          /\ MaxFaults \in Nat
ASSUME FaultAssumption == IntakeFaults \subseteq IntakeFaultKinds

VARIABLES
    folder,    \* the file under each name
    tracker,   \* StabilityTracker._snapshots
    intake,    \* where discover_once is, and what it holds
    rows,      \* the recordings in order of registration: content and source
    rejected,  \* input_rejected events: the name, and which writing of it
    writes,    \* number of changes of the folder so far
    faults     \* number of failures so far

intakeVars == <<folder, tracker, intake, rows, rejected, writes, faults>>

-----------------------------------------------------------------------------
(* Types *)

Entry    == [content : Content, stamp : Nat]
Snapshot == [stamp : Nat, age : 0..StableTime, emitted : BOOLEAN]
Digest   == Content \cup {Torn}

ASSUME SnapshotAssumption == None \notin Snapshot

\* batch: the stable files of this scan that were not looked at yet; before:
\* the stamp of the first stat.
Intake == [pc : {"loop", "probe", "hash", "check", "register", "down"},
           batch : SUBSET File, file : File \cup {None}, before : Nat,
           digest : Digest \cup {None}]

IntakeTypeOK ==
    /\ folder \in [File -> Entry \cup {None}]
    /\ tracker \in [File -> Snapshot \cup {None}]
    /\ intake \in Intake
    /\ rows \in Seq([content : Digest, source : File])
    /\ rejected \in SUBSET [file : File, stamp : Nat]
    /\ writes \in Nat /\ faults \in Nat

Between(batch) == [pc |-> "loop", batch |-> batch, file |-> None, before |-> 0,
                   digest |-> None]
NothingSeen == [f \in File |-> None]

IntakeInit ==
    /\ folder = [f \in File |-> None]
    /\ tracker = NothingSeen
    /\ intake = Between({})
    /\ rows = <<>>
    /\ rejected = {}
    /\ writes = 0
    /\ faults = 0

-----------------------------------------------------------------------------
(* The folder and the clock *)

Write(f) ==
    /\ writes < MaxWrites
    /\ writes' = writes + 1
    /\ \E c \in Content : folder' = [folder EXCEPT ![f] = [content |-> c, stamp |-> writes']]
    /\ UNCHANGED <<tracker, intake, rows, rejected, faults>>

Delete(f) ==
    /\ writes < MaxWrites
    /\ folder[f] # None
    /\ writes' = writes + 1
    /\ folder' = [folder EXCEPT ![f] = None]
    /\ UNCHANGED <<tracker, intake, rows, rejected, faults>>

Ageing == {f \in File : tracker[f] # None /\ tracker[f].age < StableTime}

\* The monotonic clock advances for every remembered file.
Tick ==
    /\ Ageing # {}
    /\ tracker' = [f \in File |-> IF f \in Ageing THEN [tracker[f] EXCEPT !.age = @ + 1]
                                  ELSE tracker[f]]
    /\ UNCHANGED <<folder, intake, rows, rejected, writes, faults>>

-----------------------------------------------------------------------------
(* StabilityTracker.scan *)

Unchanged(f) == tracker[f] # None /\ tracker[f].stamp = folder[f].stamp
Stable(f)    == Unchanged(f) /\ tracker[f].age = StableTime
Offered(f)   == folder[f] # None /\ Stable(f) /\ ~tracker[f].emitted

\* Mutant of Remembered: a file that was offered once stays so when it changes.
RememberedForGood(f) ==
    IF folder[f] = None THEN None
    ELSE IF tracker[f] # None /\ tracker[f].emitted THEN tracker[f]
    ELSE IF Unchanged(f) THEN [tracker[f] EXCEPT !.emitted = @ \/ Stable(f)]
    ELSE [stamp |-> folder[f].stamp, age |-> 0, emitted |-> FALSE]

\* The snapshot after a scan: a changed file starts anew, a missing one is
\* forgotten.
Remembered(f) ==
    IF folder[f] = None THEN None
    ELSE IF Unchanged(f) THEN [tracker[f] EXCEPT !.emitted = @ \/ Stable(f)]
    ELSE [stamp |-> folder[f].stamp, age |-> 0, emitted |-> FALSE]

Scan ==
    /\ intake.pc = "loop"
    /\ intake.batch = {}
    /\ tracker' = [f \in File |-> Remembered(f)]
    /\ intake' = Between({f \in File : Offered(f)})
    /\ UNCHANGED <<folder, rows, rejected, writes, faults>>

-----------------------------------------------------------------------------
(* ingest_file *)

Goes(pc) == intake' = [intake EXCEPT !.pc = pc]
Skip     == intake' = Between(intake.batch)

\* discover_once records what it could not take; the file stays offered.
Reject(f) ==
    /\ rejected' = rejected \cup {[file |-> f, stamp |-> tracker[f].stamp]}
    /\ intake' = Between(intake.batch \ {f})

Missing == folder[intake.file] = None
Same    == ~Missing /\ folder[intake.file].stamp = intake.before

FirstStat ==
    /\ intake.pc = "loop"
    /\ \E f \in intake.batch :
          IF folder[f] = None
          THEN Reject(f)
          ELSE /\ intake' = [intake EXCEPT !.pc = "probe", !.batch = @ \ {f}, !.file = f,
                                           !.before = folder[f].stamp]
               /\ UNCHANGED rejected
    /\ UNCHANGED <<folder, tracker, rows, writes, faults>>

\* Whether ffprobe finds audio; of a file that is changing it may say anything.
ProbeAnswers ==
    IF Missing THEN {FALSE}
    ELSE IF Same THEN {folder[intake.file].content \in Audio} ELSE BOOLEAN

Probe ==
    /\ intake.pc = "probe"
    /\ \E audio \in ProbeAnswers :
          IF audio THEN Goes("hash") /\ UNCHANGED rejected ELSE Reject(intake.file)
    /\ UNCHANGED <<folder, tracker, rows, writes, faults>>

\* sha256_file
Hash ==
    /\ intake.pc = "hash"
    /\ IF Missing THEN Reject(intake.file)
       ELSE /\ \E d \in {folder[intake.file].content} \cup (IF Same THEN {} ELSE {Torn}) :
                  intake' = [intake EXCEPT !.pc = "check", !.digest = d]
            /\ UNCHANGED rejected
    /\ UNCHANGED <<folder, tracker, rows, writes, faults>>

\* Mutant of Settled: only that the file is still there.
StillThere == ~Missing

\* (before.st_size, before.st_mtime_ns) = (after.st_size, after.st_mtime_ns)
Settled == Same

\* FileChangedDuringIngestError is only logged: the next scan sees the change.
SecondStat ==
    /\ intake.pc = "check"
    /\ IF Missing THEN Reject(intake.file)
       ELSE /\ IF Settled THEN Goes("register") ELSE Skip
            /\ UNCHANGED rejected
    /\ UNCHANGED <<folder, tracker, rows, writes, faults>>

\* Mutant of Known: a recording is looked up by its file.
KnownByName(digest) == {i \in DOMAIN rows : /\ rows[i].content = digest
                                            /\ rows[i].source = intake.file}

Known(digest) == {i \in DOMAIN rows : rows[i].content = digest}

\* register_recording: a known content only gets its present source.
Register ==
    /\ intake.pc = "register"
    /\ rows' = IF Known(intake.digest) # {}
               THEN [i \in DOMAIN rows |-> IF i \in Known(intake.digest)
                                           THEN [rows[i] EXCEPT !.source = intake.file]
                                           ELSE rows[i]]
               ELSE Append(rows, [content |-> intake.digest, source |-> intake.file])
    /\ Skip
    /\ UNCHANGED <<folder, tracker, rejected, writes, faults>>

-----------------------------------------------------------------------------
(* Failures *)

\* A stat or read that fails, or an ffprobe that is not there or too slow.
IngestFails ==
    /\ \/ /\ "io" \in IntakeFaults /\ intake.pc = "loop"
          /\ \E f \in intake.batch : Reject(f)
       \/ /\ "io" \in IntakeFaults /\ intake.pc \in {"hash", "check"}
          /\ Reject(intake.file)
       \/ /\ "probe" \in IntakeFaults /\ intake.pc = "probe"
          /\ Reject(intake.file)
    /\ UNCHANGED <<folder, tracker, rows, writes>>

\* The process ends and forgets what it saw.
Ends == /\ intake' = [Between({}) EXCEPT !.pc = "down"]
        /\ tracker' = NothingSeen

\* A candidate is deleted between is_file() and resolve(strict=True) or stat():
\* the error leaves scan, discover_once and the process.
ScanAborts ==
    /\ "vanish" \in IntakeFaults
    /\ intake.pc = "loop" /\ intake.batch = {}
    /\ \E f \in File : folder[f] # None /\ folder' = [folder EXCEPT ![f] = None]
    /\ Ends
    /\ UNCHANGED <<rows, rejected, writes>>

IntakeCrash ==
    /\ "crash" \in IntakeFaults
    /\ intake.pc # "down"
    /\ Ends
    /\ UNCHANGED <<folder, rows, rejected, writes>>

Restarted ==
    /\ intake.pc = "down"
    /\ intake' = Between({})
    /\ UNCHANGED <<folder, tracker, rows, rejected, writes, faults>>

-----------------------------------------------------------------------------

Loop == Restarted \/ Scan \/ FirstStat \/ Probe \/ Hash \/ SecondStat \/ Register

IntakeFails == /\ faults < MaxFaults
               /\ faults' = faults + 1
               /\ IngestFails \/ ScanAborts \/ IntakeCrash

IntakeNext == \/ \E f \in File : Write(f) \/ Delete(f)
              \/ Tick
              \/ Loop
              \/ IntakeFails

IntakeSpec == IntakeInit /\ [][IntakeNext]_intakeVars

\* The worker's loop goes on, the process is started again, and time passes.
FairIntakeSpec == IntakeSpec /\ WF_intakeVars(Loop) /\ WF_intakeVars(Tick)

-----------------------------------------------------------------------------
(* Properties *)

\* One recording, and so one transcribe job, per content: whatever the names
\* it lay under, and however often it was seen (register_recording).
RegisteredOnce ==
    \A i, j \in DOMAIN rows : rows[i].content = rows[j].content => i = j

\* A registered content was one whole file with audio: not one version probed
\* and another hashed, nor a digest read across a change (ingest_file).
OnlyWholeAudio == \A i \in DOMAIN rows : rows[i].content \in Audio

Lies(f, c)    == folder[f] # None /\ folder[f].content = c
Registered(c) == \E i \in DOMAIN rows : rows[i].content = c
Refused(f)    == folder[f] # None /\ [file |-> f, stamp |-> folder[f].stamp] \in rejected

\* A file that is left alone is registered in the end or its refusal is on
\* record: no change during a scan or an ingest, and no crash, loses it.
EveryFileAnswered ==
    \A f \in File, c \in Content :
        <>[]Lies(f, c) => <>(Registered(c) \/ Refused(f))

\* A complete valid file that is left alone is registered in the end.
EveryAudioRegistered ==
    \A f \in File, c \in Audio : <>[]Lies(f, c) => <>Registered(c)
=============================================================================
