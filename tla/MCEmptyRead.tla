---------------------------- MODULE MCEmptyRead ----------------------------
(* The machine of MCCanvas for EmptyRead.                                  *)
EXTENDS MCCanvas, EmptyRead

=============================================================================
