--------------------------- MODULE MCSpeakerProfiles ---------------------------
(* Two speakers of one recording and one of another, with two clips each. *)
EXTENDS SpeakerProfiles, TLC

CONSTANTS first, second

MCHome      == [s \in Speaker |-> IF s = "host" THEN second ELSE first]
MCSpeakerOf == [c \in Clip |-> CASE c \in {"a1", "a2"} -> "alice"
                                 [] c \in {"b1", "b2"} -> "bob"
                                 [] OTHER              -> "host"]
People      == Permutations(Person)
=============================================================================
