--------------------------- MODULE MCTranscripts ---------------------------
(***************************************************************************)
(* An instance of Transcripts for TLC: two voices, three texts, answers of *)
(* the models that are partial, out of range, in disorder or none at all.  *)
(***************************************************************************)
EXTENDS Transcripts

X(from, to, words)  == [start |-> from, end |-> to, text |-> words]
T(from, to, voice)  == [start |-> from, end |-> to, voice |-> voice]

MCText   == {"blank", "word", "line", "talk"}
MCLength == [t \in MCText |-> CASE t = "blank" -> 0 [] t = "word" -> 1
                                [] t = "line"  -> 2 [] OTHER      -> 5]
MCRank   == [i \in 1..4 |-> 5 - i]

MCHeard == {<<>>, <<X(0, 8, "talk"), X(8, 30, "line")>>,
            <<X(0, 24, "word"), X(2, 6, "line"), X(4, 20, "talk")>>, <<X(4, 2, "word")>>}

MCPart  == {X(-3, 20, "talk"), X(None, 9, "blank"), X(11, 12, "word"), X(13, 30, None)}
MCAligned == {None} \cup {<<>>} \cup {<<x>> : x \in MCPart}
              \cup {<<x, y>> : x, y \in MCPart \ {X(-3, 20, "talk")}}
              \cup {<<X(2, 6, "line"), X(13, 24, "word"), X(0, 3, "talk")>>,
                    <<X(0, 24, "word"), X(2, 6, "line"), X(4, 20, "talk"), X(21, 24, "line")>>}

A == T(-2, 10, 2)
B == T(10, 26, 2)
C == T(6, 15, 1)
D == T(15, 24, 1)
MCTurns == {None, {}, {T(6, 6, 1)}, {A}, {A, B}, {C, D}, {A, D}, {B, C}, {A, B, C, D}}
=============================================================================
