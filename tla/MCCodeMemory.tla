----------------------------- MODULE MCCodeMemory -----------------------------
(***************************************************************************)
(* A program of five bytes of one bit; the last three are copied to SRAM1.  *)
(***************************************************************************)
EXTENDS CodeMemory

MCBits == {1}
MCProgram == [a \in 0 .. 4 |-> IF a \in {1, 4} THEN {1} ELSE {}]
=============================================================================
