---------------------------- MODULE ShotApproval ----------------------------
(***************************************************************************)
(* What the three files of a shot promise to hold when a writer is         *)
(* interrupted: one record of the shot's takes and of what the director    *)
(* approved among them, which each operation changes at once               *)
(* (docs/workflow/state-machine.md, "Selection and lock semantics").  The  *)
(* promise is kept until there are mishaps on top of mishaps: then there   *)
(* is none.                                                                *)
(***************************************************************************)
EXTENDS Naturals

CONSTANTS
    Direction,
    Keyframe,       \* <<generation, candidate>>
    Video           \* <<video generation, candidate>>

VARIABLES
    direction,      \* what the shot is directed to be now
    keyframe,       \* the standing of each keyframe candidate
    video,          \* the standing of each video candidate
    made,           \* the directions each keyframe is recorded to be made for
    source,         \* the keyframe and the direction each video was made from
    kept            \* whether the promise is kept still

record == <<direction, keyframe, video, made, source>>
vars == <<record, kept>>

Standing == {"none", "candidate", "selected", "locked", "superseded"}
Live == {"candidate", "selected", "locked"}

Current(standing) == {id \in DOMAIN standing : standing[id] \in Live}
Locked(standing) == {id \in DOMAIN standing : standing[id] = "locked"}

(* Taking out of play what is in play: records stay, as superseded.        *)
Superseded(standing) ==
    [id \in DOMAIN standing |->
        IF standing[id] \in Live THEN "superseded" ELSE standing[id]]

(* Choosing one among those in play moves the choice.                      *)
Choosing(standing, chosen) ==
    [id \in DOMAIN standing |->
        IF id = chosen THEN "selected"
        ELSE IF standing[id] = "selected" THEN "candidate" ELSE standing[id]]

Init ==
    /\ direction \in Direction
    /\ keyframe = [id \in Keyframe |-> "none"]
    /\ video = [id \in Video |-> "none"]
    /\ made = [id \in Keyframe |-> {}]
    /\ source = [id \in Video |-> {}]
    /\ kept = TRUE

Redirect(d) ==
    /\ direction' = d
    /\ UNCHANGED <<keyframe, video, made, source>>

(* A generation is published whole, under IDs that were never used, and    *)
(* never over a lock.                                                      *)
Publish(g) ==
    /\ Locked(keyframe) = {}
    /\ \A id \in Keyframe : id[1] = g => keyframe[id] = "none"
    /\ LET retired == Superseded(keyframe)
       IN  keyframe' = [id \in Keyframe |->
                           IF id[1] = g THEN "candidate" ELSE retired[id]]
    /\ \E d \in SUBSET Direction :
          made' = [id \in Keyframe |-> IF id[1] = g THEN d ELSE made[id]]
    /\ UNCHANGED <<direction, video, source>>

Choose(id) ==
    /\ Locked(keyframe) = {}
    /\ id \in Current(keyframe)
    /\ keyframe' = Choosing(keyframe, id)
    /\ UNCHANGED <<direction, video, made, source>>

(* Only the chosen keyframe is locked, and only while the shot is directed *)
(* as it was made for.                                                     *)
Lock(id) ==
    /\ keyframe[id] = "selected"
    /\ made[id] = {direction}
    /\ keyframe' = [keyframe EXCEPT ![id] = "locked"]
    /\ UNCHANGED <<direction, video, made, source>>

(* The explicit destructive exception: keyframes and videos alike.         *)
Reset ==
    /\ keyframe' = Superseded(keyframe)
    /\ video' = Superseded(video)
    /\ UNCHANGED <<direction, made, source>>

(* Candidates of which none is chosen may make way before those of the     *)
(* next generation are there.                                              *)
MakeWayForKeyframes ==
    /\ \A id \in Current(keyframe) : keyframe[id] = "candidate"
    /\ keyframe' = Superseded(keyframe)
    /\ UNCHANGED <<direction, video, made, source>>

(* The videos in play make way for those of a new generation.              *)
MakeWay ==
    /\ Locked(video) = {}
    /\ video' = Superseded(video)
    /\ UNCHANGED <<direction, keyframe, made, source>>

(* A paid video joins those in play or is kept aside; it is never dropped, *)
(* and its record never replaces another's.                                *)
Add(id) ==
    /\ video[id] = "none"
    /\ \E standing \in {"candidate", "superseded"} :
          video' = [video EXCEPT ![id] = standing]
    /\ \E from \in Keyframe, d \in Direction :
          source' = [source EXCEPT ![id] = {<<from, d>>}]
    /\ UNCHANGED <<direction, keyframe, made>>

ChooseVideo(id) ==
    /\ Locked(video) = {}
    /\ id \in Current(video)
    /\ video' = Choosing(video, id)
    /\ UNCHANGED <<direction, keyframe, made, source>>

(* Only a video made from the keyframe locked now, for the direction in    *)
(* force now, is locked, and one at a time.                                *)
LockVideo(id) ==
    /\ Locked(video) = {}
    /\ id \in Current(video)
    /\ \E from \in Locked(keyframe) : source[id] = {<<from, direction>>}
    /\ video' = [video EXCEPT ![id] = "locked"]
    /\ UNCHANGED <<direction, keyframe, made, source>>

Change ==
    \/ \E d \in Direction : Redirect(d)
    \/ \E id \in Keyframe : Publish(id[1]) \/ Choose(id) \/ Lock(id)
    \/ Reset
    \/ MakeWayForKeyframes
    \/ MakeWay
    \/ \E id \in Video : Add(id) \/ ChooseVideo(id) \/ LockVideo(id)

(* While the promise is kept the record changes by these alone.            *)
Keep == kept /\ kept' = TRUE /\ (Change \/ UNCHANGED record)

GoAstray == kept' = FALSE

Next == Keep \/ GoAstray

Spec == Init /\ [][Next]_vars
=============================================================================
