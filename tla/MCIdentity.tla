----------------------------- MODULE MCIdentity -----------------------------
(* Texts of up to six characters, of which a title keeps five: enough for  *)
(* a forbidden character between blanks, and for a cut.                    *)
EXTENDS Identity

MCText == UNION {[1..n -> Character] : n \in 0..6}
MCSlug == {<<"letter", "letter">>}

=============================================================================
