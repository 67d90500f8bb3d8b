------------------------------- MODULE MCDracoRace ------------------------------
(* Finite values of the constants of DracoRace for TLC.                     *)
EXTENDS DracoRace

MCVal == {0, 1}
MCArgBit == {0, 1}
MCBucket == {0}
MCHash == [k \in Keys |-> 0]

=============================================================================
