---------------------------- MODULE LossyChannel ----------------------------
(***************************************************************************)
(* What a channel of numbered lines promises that may lose some: a line is *)
(* taken at most once, after it was offered, and never behind a later one. *)
(***************************************************************************)
EXTENDS Naturals

VARIABLES
  offered,  \* how many lines were offered: 1..offered
  taken     \* the last line that was taken

Init == offered = 0 /\ taken = 0

Offer == offered' = offered + 1 /\ UNCHANGED taken

Take == taken' \in (taken + 1)..offered /\ UNCHANGED offered

Spec == Init /\ [][Offer \/ Take]_<<offered, taken>>

=============================================================================
