----------------------------- MODULE MCGptUpdate -----------------------------
(* Instances of GptUpdate small enough for TLC. *)
EXTENDS GptUpdate

CONSTANTS l1, l2, tz, abl

TwoLuns   == {l1, l2}
TwoImages == {tz, abl}
OnePerLun == [i \in TwoImages |-> IF i = tz THEN l1 ELSE l2]

\* An eMMC disk, or a UFS device with all images on one of two LUNs.
OneLun    == {l1}
AllOnLun1 == [i \in TwoImages |-> l1]
=============================================================================
