------------------------------ MODULE MCStreams ------------------------------
(* A connection and a guest that read two frames each, or two guests of    *)
(* which one reads two frames and the other one.                           *)
EXTENDS Streams
CONSTANTS c1, g1, g2

MCFrames == [r \in Readers |-> IF r = g2 THEN 1 ELSE 2]
MCCasts == {{c1, g1}, {g1, g2}}
=============================================================================
