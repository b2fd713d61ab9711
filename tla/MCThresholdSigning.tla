---- MODULE MCThresholdSigning ----
(***************************************************************************)
(* Two participants, of which one refuses one of the two subjects.         *)
(***************************************************************************)
EXTENDS ThresholdSigning, TLC

CONSTANTS p1, p2, m1, m2

AuthorisesValue == (p1 :> {m1, m2}) @@ (p2 :> {m1})
====
