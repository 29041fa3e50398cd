------------------------------- MODULE Speech -------------------------------
(***************************************************************************)
(* From audio to segments and clips: the answers of the transcription, the *)
(* alignment and the diarization model are made into the segments of the   *)
(* transcript, each with the speaker who talks most in it, and up to       *)
(* MaxClips clips are cut for every speaker.                               *)
(*                                                                         *)
(* The models answer in ticks, half milliseconds (floating point seconds   *)
(* in the code); segments and clips are in milliseconds.                   *)
(***************************************************************************)
EXTENDS Integers, Sequences, FiniteSets, SequencesExt

CONSTANTS
    Voice,          \* labels of the diarization model, in their order
    Text, Length,   \* Length[t] characters are left of t without blanks around it
    None,
    Duration,       \* duration_ms of the recording
    Rank,           \* Rank[i], the place of segment i's id among the ids
    HeardAnswers, AlignedAnswers, TurnAnswers,  \* answers of the models explored
    MinSegment, MinCenterGap, MaxClip, MaxClips

\* A part of an answer that is missing, not finite or no text is None.
Piece == [start : Int \cup {None}, end : Int \cup {None}, text : Text \cup {None}]
Turn  == [start : Int \cup {None}, end : Int \cup {None}, voice : Voice \cup {None}]

ASSUME AnswerAssumption   == HeardAnswers \cup AlignedAnswers \subseteq Seq(Piece) \cup {None}
\* Ids are unique.
ASSUME RankAssumption     == /\ \A i, j \in DOMAIN Rank : Rank[i] \in Nat /\ (Rank[i] = Rank[j] => i = j)
                             /\ \A answer \in (HeardAnswers \cup AlignedAnswers) \ {None} :
                                    DOMAIN answer \subseteq DOMAIN Rank
ASSUME TurnAssumption     == \A answer \in TurnAnswers \ {None} : IsFiniteSet(answer) /\ answer \subseteq Turn
\* The pipeline gives a voice one track, so its turns do not overlap; if they
\* did, _assign_segment would count their time twice.
ASSUME TrackAssumption    == \A answer \in TurnAnswers \ {None} : \A t, u \in answer :
                                t.voice = u.voice /\ None \notin {t.start, t.end, u.start, u.end} =>
                                    t = u \/ t.end <= u.start \/ u.end <= t.start
ASSUME VoiceAssumption    == Voice \subseteq Int /\ None \notin Int \cup Text
ASSUME LengthAssumption   == Length \in [Text -> Nat]
ASSUME DurationAssumption == Duration \in Nat \ {0}
\* speaker_clips.py:16-19
ASSUME ClipAssumption     == /\ MaxClip \in Nat \ {0} /\ MinSegment \in Nat /\ MaxClips \in Nat
                             /\ MinCenterGap \in Nat /\ MaxClip <= MinCenterGap

VARIABLES
    stage,        \* what comes next
    heard,        \* segments of the transcription
    aligned,      \* segments of the alignment
    turns,        \* turns of the diarization
    transcript,   \* segments that are stored, in order
    place,        \* the segment the selection of clips looks at
    selected,     \* candidates for clips of each speaker
    clipped,      \* outcome for each speaker; None before
    clips         \* speaker_clips

speechVars == <<stage, heard, aligned, turns, transcript, place, selected, clipped, clips>>

Ticks == 2 * Duration
Lower(a, b)  == IF a <= b THEN a ELSE b
Higher(a, b) == IF a <= b THEN b ELSE a

SpeechInit ==
    /\ stage = "transcribe"
    /\ heard = <<>>
    /\ aligned = <<>>
    /\ turns = {}
    /\ transcript = <<>>
    /\ place = 1
    /\ selected = <<>>
    /\ clipped = <<>>
    /\ clips = {}

-----------------------------------------------------------------------------
(* The models' answers.  An answer that is no answer at all is None.        *)

Timed(x) == x.start # None /\ x.end # None

\* transcription._normalize_result
Hearable(x) == Timed(x) /\ 0 <= x.start /\ x.start <= x.end /\ x.text # None

Transcribe(answer) ==
    /\ stage = "transcribe"
    /\ IF answer # None /\ \A i \in DOMAIN answer : Hearable(answer[i])
       THEN stage' = "align" /\ heard' = answer
       ELSE stage' = "INVALID_RESPONSE" /\ UNCHANGED heard
    /\ UNCHANGED <<aligned, turns, transcript, place, selected, clipped, clips>>

\* _clamp_bounds, and the same lines of _normalize_turns
Clamped(x) ==
    LET from == Lower(Higher(x.start, 0), Ticks)
    IN  [x EXCEPT !.start = from, !.end = Lower(Higher(x.end, from), Ticks)]

\* _normalize_segment: what the model has no answer for is taken from the
\* transcription.
Mended(x, fallback) ==
    LET bounds == IF Timed(x) /\ x.start <= x.end THEN x ELSE fallback
    IN  Clamped([start |-> bounds.start, end |-> bounds.end,
                 text |-> IF x.text # None THEN x.text ELSE fallback.text])

Nothing == [start |-> None, end |-> None, text |-> None]

\* _normalize_alignment_result: no more segments than were heard are matched
\* with them one by one; more of them have to be complete.
Align(answer) ==
    /\ stage = "align"
    /\ IF answer # None /\ Len(answer) <= Len(heard)
       THEN /\ stage' = "diarize"
            /\ aligned' = [i \in DOMAIN heard |->
                  Mended(IF i \in DOMAIN answer THEN answer[i] ELSE Nothing, heard[i])]
       ELSE IF answer # None /\ \A i \in DOMAIN answer :
                  Timed(answer[i]) /\ answer[i].start <= answer[i].end /\ answer[i].text # None
       THEN stage' = "diarize" /\ aligned' = [i \in DOMAIN answer |-> Clamped(answer[i])]
       ELSE stage' = "INVALID_RESPONSE" /\ UNCHANGED aligned
    /\ UNCHANGED <<heard, turns, transcript, place, selected, clipped, clips>>

TurnBefore(t, u) ==
    \/ t.start < u.start
    \/ t.start = u.start /\ t.end < u.end
    \/ t.start = u.start /\ t.end = u.end /\ t.voice < u.voice

\* SPEAKER_00, SPEAKER_01, ... in the order in which the voices first speak
SpeakerId(all, voice) ==
    LET first == CHOOSE t \in all : /\ t.voice = voice
                                   /\ \A u \in all : u.voice = voice => u = t \/ TurnBefore(t, u)
    IN  Cardinality({u.voice : u \in {v \in all : TurnBefore(v, first)}})

\* diarization._normalize_turns
Diarize(answer) ==
    /\ stage = "diarize"
    /\ IF answer # None /\ \A t \in answer : Timed(t) /\ t.start < t.end /\ t.voice # None
       THEN /\ stage' = "store"
            /\ LET all == {t \in {Clamped(u) : u \in answer} : t.start < t.end}
               IN  turns' = {[start |-> t.start, end |-> t.end,
                              speaker |-> SpeakerId(all, t.voice)] : t \in all}
       ELSE stage' = "INVALID_RESPONSE" /\ UNCHANGED turns
    /\ UNCHANGED <<heard, aligned, transcript, place, selected, clipped, clips>>

-----------------------------------------------------------------------------
(* Who speaks: diarization._assign_segment *)

\* Mutant of Parts: turns that touch the segment count as a whole.
WholeTurns(x) ==
    {[start |-> t.start, end |-> t.end, speaker |-> t.speaker] :
        t \in {u \in turns : u.start < x.end /\ x.start < u.end}}

\* The parts of the turns within a segment.
Parts(x) ==
    {part \in {[start |-> Higher(x.start, t.start), end |-> Lower(x.end, t.end),
                speaker |-> t.speaker] : t \in turns} : part.start < part.end}

Total(parts, s) ==
    FoldSet(LAMBDA p, sum : sum + p.end - p.start, 0, {p \in parts : p.speaker = s})

FirstPart(parts, s) ==
    CHOOSE t \in {p.start : p \in parts} :
        /\ \E p \in parts : p.speaker = s /\ p.start = t
        /\ \A p \in parts : p.speaker = s => t <= p.start

\* The most time, then the earliest start, then the first id.
Ahead(parts, s, t) ==
    \/ Total(parts, s) > Total(parts, t)
    \/ /\ Total(parts, s) = Total(parts, t)
       /\ \/ FirstPart(parts, s) < FirstPart(parts, t)
          \/ FirstPart(parts, s) = FirstPart(parts, t) /\ s < t

Talkers(parts) == {p.speaker : p \in parts}

Primary(parts) ==
    IF parts = {} THEN None
    ELSE CHOOSE s \in Talkers(parts) : \A t \in Talkers(parts) \ {s} : Ahead(parts, s, t)

Overlapping(parts) ==
    {p.speaker : p \in {q \in parts : \E r \in parts :
        /\ q.speaker # r.speaker
        /\ Higher(q.start, r.start) < Lower(q.end, r.end)}}

AssignmentStatus(parts) ==
    IF parts = {} THEN "unassigned" ELSE IF Overlapping(parts) = {} THEN "assigned" ELSE "overlap"

-----------------------------------------------------------------------------
(* The transcript: normalize_real_transcript, _replace_segments *)

\* round(): half a millisecond goes to the even neighbour.
Rounded(t) == IF t % 2 = 0 THEN t \div 2 ELSE (t \div 2) + ((t \div 2) % 2)

Segment(i) ==
    LET x     == aligned[i]
        parts == Parts(x)
        start == Lower(Rounded(x.start), Duration)
    IN  [id |-> i, start |-> start, end |-> Lower(Higher(Rounded(x.end), start), Duration),
         text |-> x.text, speaker |-> Primary(parts), status |-> AssignmentStatus(parts),
         others |-> Overlapping(parts)]

Earlier(x, y) ==
    \/ x.start < y.start
    \/ x.start = y.start /\ x.end < y.end
    \/ x.start = y.start /\ x.end = y.end /\ Rank[x.id] < Rank[y.id]

\* Mutant of Sorted: the order the model answered in.
AsAnswered(segs) ==
    [i \in 1..Cardinality(segs) |->
        CHOOSE x \in segs : Cardinality({y \in segs : y.id < x.id}) = i - 1]

Sorted(segs) ==
    [i \in 1..Cardinality(segs) |->
        CHOOSE x \in segs : Cardinality({y \in segs : Earlier(y, x)}) = i - 1]

Worded == {x \in {Segment(i) : i \in DOMAIN aligned} : Length[x.text] > 0 /\ x.start < x.end}

\* schema.Segment, schema.Transcript
Valid(segs) ==
    /\ \A i \in DOMAIN segs :
        /\ 0 <= segs[i].start /\ segs[i].start < segs[i].end
        /\ segs[i].status = "unassigned" <=> segs[i].speaker = None
        /\ Cardinality(segs[i].others) >= 2 <=> segs[i].status = "overlap"
        /\ Cardinality(segs[i].others) # 1
    /\ \A i \in 1..Len(segs) - 1 :
        \/ segs[i].start < segs[i + 1].start
        \/ segs[i].start = segs[i + 1].start /\ segs[i].end <= segs[i + 1].end

SpeakersIn(segs) ==
    UNION {({segs[i].speaker} \ {None}) \cup segs[i].others : i \in DOMAIN segs}

Store ==
    /\ stage = "store"
    /\ \E segs \in {Sorted(Worded)} :
           IF segs # <<>> /\ Valid(segs)
           THEN /\ stage' = "select"
                /\ transcript' = segs
                /\ selected' = [s \in SpeakersIn(segs) |-> <<>>]
                /\ clipped' = [s \in SpeakersIn(segs) |-> None]
           ELSE /\ stage' = IF segs = <<>> THEN "INVALID_SPEECH_RESULT" ELSE "SCHEMA_REFUSED"
                /\ UNCHANGED <<transcript, selected, clipped>>
    /\ UNCHANGED <<heard, aligned, turns, place, clips>>

-----------------------------------------------------------------------------
(* Clips: select_clip_candidates, clip_bounds, generate_speaker_clips *)

\* ClipCandidate.center_ms
Center(x) == (x.start + x.end) \div 2

\* Two segments far enough from each other for a clip of each.
Apart(x, y) == Center(x) - Center(y) >= MinCenterGap \/ Center(y) - Center(x) >= MinCenterGap

Usable(x) == x.status = "assigned" /\ x.end - x.start >= MinSegment

\* Mutant of FarFrom: only the last one that was taken is looked at.
FarFromLast(x, taken) == taken # <<>> => Apart(x, taken[Len(taken)])

FarFrom(x, taken) == \A i \in DOMAIN taken : Apart(x, taken[i])

Taken(x) == Usable(x) /\ Len(selected[x.speaker]) < MaxClips /\ FarFrom(x, selected[x.speaker])

Select ==
    /\ stage = "select"
    /\ place <= Len(transcript)
    /\ place' = place + 1
    /\ LET x == transcript[place]
       IN  selected' = IF Taken(x) THEN [selected EXCEPT ![x.speaker] = Append(@, x)] ELSE selected
    /\ UNCHANGED <<stage, heard, aligned, turns, transcript, clipped, clips>>

SelectEnds ==
    /\ stage = "select"
    /\ place > Len(transcript)
    /\ stage' = "cut"
    /\ UNCHANGED <<heard, aligned, turns, transcript, place, selected, clipped, clips>>

\* clip_bounds: MaxClip in the middle of the segment
ClipBounds(x) ==
    LET length == Lower(x.end - x.start, MaxClip)
        start  == Higher(x.start, Center(x) - length \div 2)
        end    == Lower(x.end, start + length)
    IN  [start |-> Higher(x.start, end - length), end |-> end]

\* _render_clip, wav_silence_ratio
Cuts == {"loud", "silent", "error"}

Loud(cut) == {i \in DOMAIN cut : cut[i] = "loud"}

\* The clips of one speaker; a failure leaves none of them.
Cut(s, cut) ==
    /\ stage = "cut"
    /\ clipped[s] = None
    /\ \A t \in DOMAIN clipped : t < s => clipped[t] # None
    /\ cut \in [DOMAIN selected[s] -> Cuts]
    /\ LET loud   == IF \E i \in DOMAIN cut : cut[i] = "error" THEN {} ELSE Loud(cut)
           status == IF \E i \in DOMAIN cut : cut[i] = "error" THEN "failed"
                     ELSE IF Cardinality(loud) >= 2 THEN "ready" ELSE "insufficient"
       IN  clipped' = [clipped EXCEPT ![s] = [status |-> status, loud |-> loud]]
    /\ UNCHANGED <<stage, heard, aligned, turns, transcript, place, selected, clips>>

\* write_artifact fails: generation ends for all speakers, who stay pending,
\* and the job goes on (_generate_speaker_clips).
CutFails(s) ==
    /\ stage = "cut"
    /\ clipped[s] = None
    /\ selected[s] # <<>>
    /\ stage' = "stored"
    /\ clipped' = [t \in DOMAIN clipped |-> None]
    /\ UNCHANGED <<heard, aligned, turns, transcript, place, selected, clips>>

ClipsOf(s) ==
    {[speaker |-> s, index |-> Cardinality({j \in clipped[s].loud : j <= i}),
      segment |-> selected[s][i].id, bounds |-> ClipBounds(selected[s][i])] : i \in clipped[s].loud}

\* _register_clips
Register ==
    /\ stage = "cut"
    /\ \A s \in DOMAIN clipped : clipped[s] # None
    /\ stage' = "stored"
    /\ clips' = UNION {ClipsOf(s) : s \in DOMAIN clipped}
    /\ UNCHANGED <<heard, aligned, turns, transcript, place, selected, clipped>>

SpeechNext ==
    \/ \E answer \in HeardAnswers : Transcribe(answer)
    \/ \E answer \in AlignedAnswers : Align(answer)
    \/ \E answer \in TurnAnswers : Diarize(answer)
    \/ Store
    \/ Select
    \/ SelectEnds
    \/ \E s \in DOMAIN clipped : \E cut \in [DOMAIN selected[s] -> Cuts] : Cut(s, cut)
    \/ \E s \in DOMAIN clipped : CutFails(s)
    \/ Register

SpeechSpec == SpeechInit /\ [][SpeechNext]_speechVars
=============================================================================
