------------------------- MODULE MCShotPublication -------------------------
(***************************************************************************)
(* Instances of ShotPublication for TLC: two directions, so that a take    *)
(* may be made for another one than the shot's, and a third generation of  *)
(* keyframes where all is for one of them.                                 *)
(***************************************************************************)
EXTENDS ShotPublication, TLC

CONSTANTS d1, d2, c1, c2

(* The candidates of a generation are alike.                               *)
AlikeCandidates == Permutations(Candidate)

(* Bounds the states: where there are two directions, there are only two   *)
(* generations of keyframes and one of videos.                             *)
OneDirection ==
    /\ disk.shot.direction = Default /\ planned \in {Unplanned, Default}
    /\ pending.copy # None => pending.copy.shot.direction = Default
    /\ \A job \in jobs \cup plans : job.made = Default
    /\ \A id \in DOMAIN disk.keyframes : disk.keyframes[id].made = {Default}
    /\ \A id \in DOMAIN disk.videos : disk.videos[id].made = Default

Few(shot) == shot.generation < 3 /\ shot.video < 2

MoreInOneDirection ==
    \/ OneDirection
    \/ /\ Few(disk.shot) /\ (pending.copy # None => Few(pending.copy.shot))
       /\ \A plan \in plans : plan.generation < 3
       /\ \A job \in jobs : job.id[1] < 2

(* Once things have gone astray nothing is promised any more, so TLC need  *)
(* not go on from there.                                                   *)
StillKept == ~astray

(* Only interruptions: no session goes on with an older copy.              *)
NoOlderCopy == pending = Idle /\ memory # None => memory = Found
=============================================================================
