---------------------------- MODULE Transcripts ----------------------------
(***************************************************************************)
(* One recording's speech and documents without the jobs around them: the  *)
(* models' answers become a transcript, and the language model is asked    *)
(* for its category or its summary.                                        *)
(***************************************************************************)
EXTENDS Speech, Provider

vars == <<speechVars, providerVars>>

Init == SpeechInit /\ ProviderInit

\* The classify or summarize job reads the stored segments.
Document(kind) ==
    /\ stage = "stored"
    /\ Ask(kind, [i \in DOMAIN transcript |->
                     [id |-> transcript[i].id, length |-> Length[transcript[i].text]]])
    /\ UNCHANGED speechVars

Next ==
    \/ SpeechNext /\ UNCHANGED providerVars
    \/ \E kind \in {"classify", "summarize"} : Document(kind)
    \/ ProviderNext /\ UNCHANGED speechVars

Spec == Init /\ [][Next]_vars /\ WF_vars(ProviderNext /\ UNCHANGED speechVars)

-----------------------------------------------------------------------------
(* Properties of the transcript and its clips *)

\* The schema, which refuses segments out of order, without length or with
\* speakers that contradict their status, never refuses what the models
\* answered: it would make the transcription fail for good.
SchemaHolds == stage # "SCHEMA_REFUSED"

\* How long a speaker talks in a segment, counted tick by tick.
Talks(s, t) == \E u \in turns : u.speaker = s /\ u.start <= t /\ t < u.end
During(x)   == aligned[x.id].start .. aligned[x.id].end - 1
Time(s, x)  == Cardinality({t \in During(x) : Talks(s, t)})

\* The speaker of a segment is one nobody talks longer than in it; it has none
\* if nobody talks; and it is an overlap exactly if two talk at a time, who are
\* then named.
AttributedByVoice ==
    stage = "select" => \A i \in DOMAIN transcript :
        LET x    == transcript[i]
            all  == {u.speaker : u \in turns}
            time == [s \in all |-> Time(s, x)]
        IN  /\ x.speaker = None <=> \A s \in all : time[s] = 0
            /\ x.speaker # None => \A s \in all : time[s] <= time[x.speaker]
            /\ x.others = {s \in all : \E r \in all \ {s} :
                              \E t \in During(x) : Talks(s, t) /\ Talks(r, t)}

\* Clips of one speaker never share a moment of the recording, each lies in a
\* segment that only this speaker is said to speak in, and speakers shown as
\* ready have two of them at least, others fewer.
ClipsUsable ==
    /\ \A c, d \in clips : c.speaker = d.speaker =>
          \/ c = d
          \/ c.bounds.end <= d.bounds.start
          \/ d.bounds.end <= c.bounds.start
    /\ \A c \in clips : \E i \in DOMAIN transcript :
          /\ transcript[i].id = c.segment
          /\ transcript[i].speaker = c.speaker
          /\ transcript[i].status = "assigned"
          /\ transcript[i].start <= c.bounds.start
          /\ c.bounds.start < c.bounds.end
          /\ c.bounds.end <= transcript[i].end
    /\ stage = "stored" => \A s \in DOMAIN clipped : clipped[s] # None =>
          (clipped[s].status = "ready" <=> Cardinality({c \in clips : c.speaker = s}) >= 2)
=============================================================================
