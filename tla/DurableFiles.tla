---------------------------- MODULE DurableFiles ----------------------------
(***************************************************************************)
(* What the files of a project promise whoever writes and reads them: each *)
(* is replaced as a whole, a version at a time, and what a write that      *)
(* returned has put there is not lost, not even with the power; a version  *)
(* of which the write has not returned may be.                             *)
(***************************************************************************)
EXTENDS Integers

CONSTANT Things  \* files, and a project as a whole

VARIABLES
    content,  \* the version one finds of each, 0 for none
    settled   \* the version of each that is sure to stay

DurableInit ==
    /\ content = [x \in Things |-> 0]
    /\ settled = [x \in Things |-> 0]

Replace(x) ==
    /\ content' = [content EXCEPT ![x] = @ + 1]
    /\ UNCHANGED settled

Settle ==
    /\ \A x \in Things : settled'[x] \in settled[x]..content[x]
    /\ UNCHANGED content

(* What is left is what is on the disk, so it may as well be settled.      *)
LosePower ==
    \A x \in Things :
        /\ content'[x] \in settled[x]..content[x]
        /\ settled'[x] \in settled[x]..content'[x]

DurableSpec ==
    /\ DurableInit
    /\ [][Settle \/ (\E x \in Things : Replace(x)) \/ LosePower]_<<content, settled>>
=============================================================================
