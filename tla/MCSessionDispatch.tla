------------------------- MODULE MCSessionDispatch -------------------------
(* SessionDispatch on two shots, one whose keyframe is locked already.      *)
EXTENDS SessionDispatch

CONSTANTS s1, s2

On(what, at) == [what |-> what, at |-> at]

(* One command of each class for the first place in play, and one for the  *)
(* second, which a shorter plan takes out of play.                         *)
EveryKind ==
    {On(what, 1) : what \in Kind \ {"lock"}} \cup {On("keyframes", 2), On("lock", 2)}

LateVideo == {On("videos", 1), On("reset", 1), On("keyframes", 1)}

BothInPlay == <<s1, s2>>
TwoPlans == {BothInPlay, <<s2>>}
OneInPlay == <<s1>>
OnePlan == {OneInPlay}

Untouched == [keyframes |-> {}, standing |-> "none", videos |-> {}]

FirstLocked ==
    [k \in Shot |-> IF k = s1 THEN [Untouched EXCEPT !.standing = "locked"]
                    ELSE [Untouched EXCEPT !.standing = "open"]]
=============================================================================
