------------------------------ MODULE Provider ------------------------------
(***************************************************************************)
(* Asking the language model: a transcript that fits is sent as a whole;   *)
(* of a longer one, facts (for a summary) or topics (for a classification) *)
(* are extracted chunk by chunk and then put together by a last request.   *)
(* An answer that does not hold is asked for once more; a provider that is *)
(* not available makes the job wait and begin again.                       *)
(*                                                                         *)
(* The characters of a segment's text are <<id, 1>>, <<id, 2>> and so on.  *)
(***************************************************************************)
EXTENDS Integers, Sequences, FiniteSets, SequencesExt

CONSTANTS
    MaxContext,    \* classification_context_max_chars, summary_context_max_chars
    MaxAttempts,   \* of a job
    Stranger       \* an id no segment has

ASSUME ContextAssumption == MaxContext \in Nat \ {0} /\ MaxAttempts \in Nat \ {0}

VARIABLES
    material,   \* the transcript: its segments' ids and lengths
    chunks,     \* what facts are extracted from, one chunk after the other
    call,       \* the job and its open request
    shown,      \* the text of the requests that were answered
    facts,      \* segments cited for each chunk so far
    result      \* segments cited by the summary

providerVars == <<material, chunks, call, shown, facts, result>>

ProviderInit ==
    /\ material = <<>>
    /\ chunks = <<>>
    /\ call = [kind |-> "none", pc |-> "idle", try |-> 0, attempt |-> 0, requests |-> 0]
    /\ shown = <<>>
    /\ facts = <<>>
    /\ result = {}

-----------------------------------------------------------------------------
(* chunk_transcript *)

Size(slices) == FoldLeft(LAMBDA sum, x : sum + x.to - x.from, 0, slices)

Whole(segs) == [i \in DOMAIN segs |-> [id |-> segs[i].id, from |-> 0, to |-> segs[i].length]]

\* Mutant of Slices: what is left over after the last whole slice is dropped.
WholeSlices(x) ==
    [p \in 1..(x.to \div MaxContext) |->
        [id |-> x.id, from |-> (p - 1) * MaxContext, to |-> p * MaxContext]]

\* _slice_segment
Slices(x) ==
    [p \in 1..((x.to + MaxContext - 1) \div MaxContext) |->
        [id   |-> x.id,
         from |-> (p - 1) * MaxContext,
         to   |-> IF p * MaxContext < x.to THEN p * MaxContext ELSE x.to]]

AllSlices(segs) == FlattenSeq([i \in DOMAIN segs |-> Slices(Whole(segs)[i])])

\* A chunk takes slices as long as they fit.
Chunks(segs) ==
    LET slices == AllSlices(segs)
        upto[n \in 0..Len(slices)] ==
            IF n = 0 THEN <<>>
            ELSE LET done == upto[n - 1]
                     x    == slices[n]
                 IN  IF done # <<>> /\ Size(Last(done)) + x.to - x.from <= MaxContext
                     THEN [done EXCEPT ![Len(done)] = Append(@, x)]
                     ELSE Append(done, <<x>>)
    IN  upto[Len(slices)]

Ids(slices) == {slices[i].id : i \in DOMAIN slices}

CharactersOf(slices) ==
    FlattenSeq([i \in DOMAIN slices |->
        [k \in 1..(slices[i].to - slices[i].from) |-> <<slices[i].id, slices[i].from + k>>]])

-----------------------------------------------------------------------------
(* summarize, _extract_facts, classify, extract *)

Fits(segs) == Size(Whole(segs)) <= MaxContext

\* The job's attempt begins; what an earlier attempt learned is gone.
Begin(kind, attempt, requests) ==
    /\ call' = [kind |-> kind, pc |-> IF chunks' = <<>> THEN "final" ELSE "extract", try |-> 1,
                attempt |-> attempt, requests |-> requests]
    /\ shown' = <<>>
    /\ facts' = <<>>
    /\ UNCHANGED result

Ask(kind, segs) ==
    /\ call.pc = "idle"
    /\ material' = segs
    /\ chunks' = IF Fits(segs) THEN <<>> ELSE Chunks(segs)
    /\ Begin(kind, 1, 0)

\* The next attempt cuts the same chunks from the same segments.
Again ==
    /\ call.pc = "waiting"
    /\ UNCHANGED <<material, chunks>>
    /\ Begin(call.kind, call.attempt + 1, call.requests)

Current == chunks[Len(facts) + 1]

\* The text of the open request.  A classification's last request has the
\* topics and, again, all segments.
Sent ==
    CASE call.pc = "extract" -> Current
      [] call.pc = "final" /\ (chunks = <<>> \/ call.kind = "classify") -> Whole(material)
      [] OTHER -> <<>>

Asking == call.pc \in {"extract", "final"}

\* Timeout, 408, 429, 5xx or no connection: the job is tried again.
Unavailable ==
    /\ Asking
    /\ call' = [call EXCEPT !.requests = @ + 1,
                            !.pc = IF call.attempt < MaxAttempts THEN "waiting" ELSE "failed"]
    /\ UNCHANGED <<material, chunks, shown, facts, result>>

\* Rejected, refused, incomplete or empty: for good.
Refused ==
    /\ Asking
    /\ call' = [call EXCEPT !.requests = @ + 1, !.pc = "failed"]
    /\ UNCHANGED <<material, chunks, shown, facts, result>>

\* Mutant of HoldsForChunk: any segment of the transcript may be cited.
HoldsAnywhere(cites) == cites # {} /\ cites \subseteq Ids(Whole(material))

\* validate_fact_evidence with allowed_ids
HoldsForChunk(cites) == cites # {} /\ cites \subseteq Ids(Current)

\* validate_summary_evidence; which lists may be empty is the template's.
HoldsForResult(cites) == cites \subseteq Ids(Whole(material))

\* Topics and categories cite nothing.
Facts(cites) ==
    /\ call.pc = "extract"
    /\ IF call.kind = "classify" THEN cites = {} ELSE HoldsForChunk(cites)
    /\ shown' = shown \o CharactersOf(Current)
    /\ facts' = Append(facts, cites)
    /\ call' = [call EXCEPT !.requests = @ + 1, !.try = 1,
                            !.pc = IF Len(facts) + 1 = Len(chunks) THEN "final" ELSE "extract"]
    /\ UNCHANGED <<material, chunks, result>>

Result(cites) ==
    /\ call.pc = "final"
    /\ IF call.kind = "classify" THEN cites = {} ELSE HoldsForResult(cites)
    /\ shown' = IF chunks = <<>> THEN CharactersOf(Whole(material)) ELSE shown
    /\ result' = cites
    /\ call' = [call EXCEPT !.requests = @ + 1, !.pc = "succeeded"]
    /\ UNCHANGED <<material, chunks, facts>>

\* Mutant of Corrected: the count of tries starts over, so it never gives up.
CorrectedForEver == [call EXCEPT !.try = IF @ < 2 THEN @ + 1 ELSE 1]

\* Mutant of Corrected: it is asked three times.
CorrectedTwice ==
    [call EXCEPT !.requests = @ + 1, !.try = @ + 1, !.pc = IF call.try < 3 THEN @ ELSE "failed"]

Corrected ==
    [call EXCEPT !.requests = @ + 1, !.try = @ + 1, !.pc = IF call.try < 2 THEN @ ELSE "failed"]

\* No JSON, not the schema, a disallowed category or evidence that does not
\* hold: asked for once more.
Wrong ==
    /\ Asking
    /\ call' = Corrected
    /\ UNCHANGED <<material, chunks, shown, facts, result>>

Citations == SUBSET (Ids(Whole(material)) \cup {Stranger})

ProviderNext ==
    \/ Again
    \/ Unavailable
    \/ Refused
    \/ Wrong
    \/ \E cites \in Citations : Facts(cites) \/ Result(cites)

-----------------------------------------------------------------------------
(* Properties *)

\* Nothing of a transcript is lost, repeated or taken out of order before the
\* result, and no request but a classification's last one carries more text
\* than fits: whatever the lengths, corrections and repeated attempts.
EverythingShown ==
    /\ call.pc = "succeeded" => shown = CharactersOf(Whole(material))
    /\ call.pc = "extract" \/ call.kind = "summarize" => Size(Sent) <= MaxContext

\* Every fact of a summary has evidence in the chunk it was extracted from,
\* every chunk has its facts or topics when the result is asked for, and the
\* result cites the transcript.
EvidenceHolds ==
    /\ call.pc \in {"final", "succeeded"} => Len(facts) = Len(chunks)
    /\ \A i \in DOMAIN facts : /\ call.kind = "summarize" => facts[i] # {}
                              /\ facts[i] \subseteq Ids(chunks[i])
    /\ result \subseteq Ids(Whole(material))

\* A job asks a provider twice for each chunk and for the result, at most, and
\* MaxAttempts times over.
RequestsBounded == call.requests <= MaxAttempts * 2 * (Len(chunks) + 1)

\* Every call ends, as every request ends at its timeout.
CallEnds == call.pc # "idle" ~> call.pc \in {"succeeded", "failed"}
=============================================================================
