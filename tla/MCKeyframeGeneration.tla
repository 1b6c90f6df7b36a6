------------------------ MODULE MCKeyframeGeneration ------------------------
(* KeyframeGeneration with two candidates a generation.                     *)
EXTENDS KeyframeGeneration

CONSTANTS d1, d2, p1, p2

AtFirst == [direction |-> d1, detail |-> p1]
=============================================================================
