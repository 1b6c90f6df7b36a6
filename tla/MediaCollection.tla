--------------------------- MODULE MediaCollection ---------------------------
(***************************************************************************)
(* What the director makes, locks and lets go: style samples, portraits of *)
(* a character, auditions of its voice and takes of a line, each made from *)
(* what is locked of the kind before (style.rs, cast.rs, voice.rs and      *)
(* dubbing.rs of crates/kineto-project, with what guards them in           *)
(* kineto-core), and the collection of media nobody needs any more         *)
(* (kineto-project/src/media.rs).                                          *)
(*                                                                         *)
(* Letting go takes two commands, a dry run and the collection it is given *)
(* to.  Both run alone, but anything else may come in between.  A request  *)
(* is made from what is locked when it starts, and the director may lock   *)
(* something else before it ends.  The process may stop between any two    *)
(* writes of a collection, and any of them may fail.  From outside, files  *)
(* change between commands.                                                *)
(*                                                                         *)
(* One character and one line of one scene; what is made is told by its    *)
(* kind and number.  Bytes are its own or not.  Files that are made one by *)
(* a hard link, which keep their bytes, are left out.                      *)
(***************************************************************************)
EXTENDS Naturals, Sequences

CONSTANTS
    MaxMade,        \* bounds what is made of each kind
    RecentTakes,    \* recent_window, at least 1
    MaxMediaStops,  \* bounds the process's stops
    Exposed,        \* bounds the files changed from outside
    NoMedia

Kinds == {"style", "cast", "voice", "line"}

(* What each kind depends on the lock of.                                  *)
MadeFrom == [cast |-> "style", voice |-> "cast", line |-> "voice"]

(* Mutant: a voice is locked whatever became of its cast, as a portrait is.*)
LockedFresh_Line == {"line"}

(* A selection that is stale is not locked; style and cast do not check.   *)
LockedFresh == {"voice", "line"}

Media == UNION {{k} \X (1..MaxMade[k]) : k \in Kinds}

MadeRecord == [from: Nat, status: {"candidate", "selected", "rejected"}, kept: BOOLEAN]

ASSUME MediaAssumption ==
    /\ MaxMade \in [Kinds -> Nat]
    /\ RecentTakes \in Nat \ {0}
    /\ MaxMediaStops \in Nat /\ Exposed \subseteq Media
    /\ NoMedia \notin Nat

VARIABLES
    made,       \* the log of each kind
    mediaLock,  \* the number locked of each kind, 0 for none
    mediaFile,  \* what the file of each item holds
    making,     \* a request under way for a kind: what it is made from
    mediaOpen,  \* whether a session is open
    dryRun,     \* the collection last worked out
    letting,    \* a collection under way: yet to mark, yet to remove
    meddled,    \* files changed from outside, ever
    mediaStops

mediaVars == <<made, mediaLock, mediaFile, making, mediaOpen, dryRun, letting, meddled,
               mediaStops>>

NoneLeft == [mark |-> {}, remove |-> {}]

MediaTypeOK ==
    /\ \A k \in Kinds : made[k] \in Seq(MadeRecord) /\ Len(made[k]) <= MaxMade[k]
    /\ \A k \in Kinds : mediaLock[k] \in 0..Len(made[k])
    /\ mediaFile \in [Media -> {"own", "other", "none"}]
    /\ making \in [Kinds -> Nat \cup {NoMedia}]
    /\ mediaOpen \in BOOLEAN
    /\ dryRun \in (SUBSET Media) \cup {NoMedia}
    /\ letting \in [mark: SUBSET Media, remove: SUBSET Media]
    /\ meddled \subseteq Exposed
    /\ mediaStops \in 0..MaxMediaStops

MediaInit ==
    /\ made = [k \in Kinds |-> <<>>] /\ mediaLock = [k \in Kinds |-> 0]
    /\ mediaFile = [i \in Media |-> "none"]
    /\ making = [k \in Kinds |-> NoMedia]
    /\ mediaOpen = TRUE /\ dryRun = NoMedia /\ letting = NoneLeft
    /\ meddled = {} /\ mediaStops = 0
-----------------------------------------------------------------------------
Recorded == {i \in Media : i[2] \in DOMAIN made[i[1]]}

RecordOf(i) == made[i[1]][i[2]]

(* What the lock of another kind was when i was made.                      *)
ParentOf(i) ==
    IF i[1] \in DOMAIN MadeFrom THEN {<<MadeFrom[i[1]], RecordOf(i).from>>} ELSE {}

WithParents(S) == S \cup UNION {ParentOf(i) : i \in S}

LockedMedia == {i \in Recorded : mediaLock[i[1]] = i[2]}

(* retention: locked work and everything it was made from; there are four  *)
(* kinds.                                                                  *)
Pinned == WithParents(WithParents(WithParents(LockedMedia)))

RecentMedia(i) == Len(made[i[1]]) - i[2] < RecentTakes

Collectable ==
    {i \in Recorded \ Pinned :
        RecordOf(i).kept /\ RecordOf(i).status = "rejected" /\ ~RecentMedia(i)}

(* stale_parents: what it was made from is still what is locked.           *)
Fresh(i) ==
    i[1] \in DOMAIN MadeFrom => RecordOf(i).from = mediaLock[MadeFrom[i[1]]]

(* The worker does one thing at a time.                                    *)
WorkerFree == mediaOpen /\ letting = NoneLeft

(* Plan, collection and anything else about everything wait for requests.  *)
Alone == WorkerFree /\ \A k \in Kinds : making[k] = NoMedia
-----------------------------------------------------------------------------
(* Making.                                                                 *)

(* A line is spoken in a voice that is not stale.                          *)
StartMaking(k) ==
    /\ WorkerFree /\ making[k] = NoMedia
    /\ Len(made[k]) < MaxMade[k]
    /\ k \in DOMAIN MadeFrom => mediaLock[MadeFrom[k]] # 0
    /\ k = "line" => Fresh(<<"voice", mediaLock["voice"]>>)
    /\ making' = [making EXCEPT ![k] =
           IF k \in DOMAIN MadeFrom THEN mediaLock[MadeFrom[k]] ELSE 0]
    /\ UNCHANGED <<made, mediaLock, mediaFile, mediaOpen, dryRun, letting, meddled, mediaStops>>

(* attach: a file first, then its record as the next.  The files of gone   *)
(* are removed besides.                                                    *)
AttachedMedia(S, gone) ==
    /\ made' = [k \in Kinds |->
           IF k \in S
           THEN Append(made[k], [from |-> making[k], status |-> "candidate", kept |-> TRUE])
           ELSE made[k]]
    /\ mediaFile' = [i \in Media |->
           IF i[1] \in S /\ i[2] = Len(made[i[1]]) + 1 THEN "own"
           ELSE IF i \in gone THEN "none" ELSE mediaFile[i]]

(* New media puts an earlier dry run aside.                                *)
FinishMaking(k) ==
    /\ WorkerFree /\ making[k] # NoMedia
    /\ AttachedMedia({k}, {}) \/ UNCHANGED <<made, mediaFile>>
    /\ making' = [making EXCEPT ![k] = NoMedia]
    /\ dryRun' = NoMedia
    /\ UNCHANGED <<mediaLock, mediaOpen, letting, meddled, mediaStops>>
-----------------------------------------------------------------------------
(* The director's decisions.                                               *)

MayDecideOn(i) == WorkerFree /\ making[i[1]] = NoMedia /\ i \in Recorded

Judged(k, log) ==
    /\ made' = [made EXCEPT ![k] = log]
    /\ UNCHANGED <<mediaLock, mediaFile, making, mediaOpen, dryRun, letting, meddled, mediaStops>>

SelectMedia(i) ==
    /\ MayDecideOn(i) /\ RecordOf(i).status = "candidate"
    /\ Judged(i[1], [n \in DOMAIN made[i[1]] |->
           [made[i[1]][n] EXCEPT !.status =
               IF n = i[2] THEN "selected" ELSE IF @ = "selected" THEN "candidate" ELSE @]])

RejectMedia(i) ==
    /\ MayDecideOn(i) /\ RecordOf(i).status # "rejected" /\ i \notin LockedMedia
    /\ Judged(i[1], [made[i[1]] EXCEPT ![i[2]].status = "rejected"])

(* check_media: the file holds the bytes its record names.                 *)
LockMedia(i) ==
    /\ MayDecideOn(i) /\ RecordOf(i).status = "selected" /\ i \notin LockedMedia
    /\ i[1] \in LockedFresh => Fresh(i)
    /\ mediaFile[i] = "own"
    /\ mediaLock' = [mediaLock EXCEPT ![i[1]] = i[2]]
    /\ UNCHANGED <<made, mediaFile, making, mediaOpen, dryRun, letting, meddled, mediaStops>>
-----------------------------------------------------------------------------
(* Letting go.                                                             *)

PlanCollection ==
    /\ Alone
    /\ dryRun' = Collectable
    /\ UNCHANGED <<made, mediaLock, mediaFile, making, mediaOpen, letting, meddled, mediaStops>>

(* Mutant: what the dry run listed is let go.                              *)
StillCollectable_Listed(i) == mediaFile[i] = "own"

(* Each item must be collectable now, and its file the one listed.         *)
StillCollectable(i) == i \in Collectable /\ mediaFile[i] = "own"

CollectMedia ==
    /\ Alone /\ dryRun # NoMedia
    /\ letting' = [NoneLeft EXCEPT !.mark = {i \in dryRun : StillCollectable(i)}]
    /\ dryRun' = NoMedia
    /\ UNCHANGED <<made, mediaLock, mediaFile, making, mediaOpen, meddled, mediaStops>>

(* evict: the items of one log, in one write.                              *)
MarkEvicted(k) ==
    /\ \E i \in letting.mark : i[1] = k
    /\ LET S == {i \in letting.mark : i[1] = k}
       IN  /\ made' = [made EXCEPT ![k] =
                  [n \in DOMAIN made[k] |->
                      [made[k][n] EXCEPT !.kept = @ /\ <<k, n>> \notin S]]]
           /\ letting' = [mark |-> letting.mark \ S, remove |-> letting.remove \cup S]
    /\ UNCHANGED <<mediaLock, mediaFile, making, mediaOpen, dryRun, meddled, mediaStops>>

RemoveMedia(i) ==
    /\ i \in letting.remove
    /\ mediaFile' = [mediaFile EXCEPT ![i] = "none"]
    /\ letting' = [letting EXCEPT !.remove = @ \ {i}]
    /\ UNCHANGED <<made, mediaLock, making, mediaOpen, dryRun, meddled, mediaStops>>

CollectionFails ==
    /\ letting # NoneLeft
    /\ letting' = NoneLeft
    /\ UNCHANGED <<made, mediaLock, mediaFile, making, mediaOpen, dryRun, meddled, mediaStops>>
-----------------------------------------------------------------------------
(* A file is changed, taken away or put back from outside, each once.      *)
Meddle(i, holds) ==
    /\ letting = NoneLeft
    /\ i \in Recorded \ meddled /\ holds # mediaFile[i]
    /\ mediaFile' = [mediaFile EXCEPT ![i] = holds]
    /\ meddled' = meddled \cup {i}
    /\ UNCHANGED <<made, mediaLock, making, mediaOpen, dryRun, letting, mediaStops>>

StopMedia ==
    /\ mediaOpen /\ mediaStops < MaxMediaStops
    /\ mediaStops' = mediaStops + 1
    /\ mediaOpen' = FALSE /\ dryRun' = NoMedia /\ letting' = NoneLeft
    /\ UNCHANGED <<made, mediaLock, mediaFile, making, meddled>>

(* The answers at hand are recorded, then reconcile_media removes the      *)
(* files an interrupted collection left; it may fail part of the way.      *)
OpenMedia ==
    /\ ~mediaOpen /\ mediaOpen' = TRUE
    /\ making' = [k \in Kinds |-> NoMedia]
    /\ \E S \in SUBSET {k \in Kinds : making[k] # NoMedia},
          gone \in SUBSET {i \in Recorded : ~RecordOf(i).kept /\ mediaFile[i] = "own"} :
           AttachedMedia(S, gone)
    /\ UNCHANGED <<mediaLock, dryRun, letting, meddled, mediaStops>>
-----------------------------------------------------------------------------
MediaNext ==
    \/ \E k \in Kinds : StartMaking(k) \/ FinishMaking(k) \/ MarkEvicted(k)
    \/ \E i \in Media : SelectMedia(i) \/ RejectMedia(i) \/ LockMedia(i) \/ RemoveMedia(i)
    \/ PlanCollection \/ CollectMedia \/ CollectionFails
    \/ \E i \in Exposed, holds \in {"own", "other", "none"} : Meddle(i, holds)
    \/ StopMedia \/ OpenMedia

MediaSpec == MediaInit /\ [][MediaNext]_mediaVars
-----------------------------------------------------------------------------
(* Properties.                                                             *)

(* "Locked, or required by something locked: never collected" (media.rs,   *)
(* of Pinned), read with "an interruption leaves at worst a record that    *)
(* says evicted beside a file still there" (collect): a record that says   *)
(* its media is kept has its bytes, but for what was done to the file from *)
(* outside; and a locked voice and a locked line have, with everything     *)
(* they were made from down to the portrait, media that is kept.  What a   *)
(* portrait was made from is another matter, since cast::lock does not ask *)
(* whether it is stale.                                                    *)
LockedIsWhole ==
    /\ \A i \in Recorded \ meddled : RecordOf(i).kept => mediaFile[i] = "own"
    /\ \A i \in WithParents(WithParents({l \in LockedMedia : l[1] \in {"voice", "line"}})) :
           i[1] # "style" => RecordOf(i).kept

(* What no step takes: media that is pinned, and a file of other bytes.    *)
NothingNeededGoes ==
    /\ \A i \in Pinned :
          /\ RecordOf(i)'.kept = RecordOf(i).kept
          /\ RecordOf(i).kept /\ i \notin meddled' => mediaFile'[i] = mediaFile[i]
    /\ \A i \in meddled : mediaFile[i] = "other" => mediaFile'[i] = "other"

(* Nothing locked, or required by something locked, is collected, however  *)
(* long ago the director saw the dry run; and a file that holds other      *)
(* bytes is left alone: "a file put there since is not touched"            *)
(* (reconcile).                                                            *)
PinnedIsNeverLetGo == [][NothingNeededGoes]_mediaVars
=============================================================================
