------------------------ MODULE MCDynamicRingBuffer ------------------------
(***************************************************************************)
(* A ring of a few units, requests of one to four of them, two            *)
(* alignments.                                                             *)
(***************************************************************************)
EXTENDS DynamicRingBuffer

MCAligns == {1, 2}
MCSizes == {1, 2, 3, 4}
\* A ring that has been exactly full is past what the invariants speak of.
UntilFilled == ~filled
=============================================================================
