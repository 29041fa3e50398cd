------------------------------ MODULE MCIntake ------------------------------
(***************************************************************************)
(* An instance of Intake for TLC: two names, two audio contents and a      *)
(* piece of one that is no audio yet.                                      *)
(***************************************************************************)
EXTENDS Intake

MCFile    == {"first.m4a", "second.m4a"}
MCContent == {"talk", "call", "piece"}
MCAudio   == {"talk", "call"}
=============================================================================
