---------------------------- MODULE MCFioBatch ----------------------------
(***************************************************************************)
(* An instance of FioBatch: two expanders of two slots, the first one with *)
(* two drives; batches nested once, in each other or in themselves.        *)
(***************************************************************************)
EXTENDS FioBatch, TLC

CONSTANTS d1, d2

MCDrive == {d1, d2}
MCSeat == d1 :> 0 @@ d2 :> 1

=============================================================================
