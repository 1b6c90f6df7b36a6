-------------------------- MODULE ShotPublication --------------------------
(***************************************************************************)
(* One shot's canonical files, crates/kineto-project/src/shot.rs:          *)
(* shot.json, artifacts.json and selection.json.  Each is replaced         *)
(* atomically, the three are not one transaction: an operation works on    *)
(* the copy a session holds in memory and writes the files it changes one  *)
(* after the other, and a crash or a failed write may come between any     *)
(* two.  Loading tells the mixtures apart and reconciles them in memory.   *)
(*                                                                         *)
(* A keyframe candidate is named by its generation and its place in it, a  *)
(* video candidate likewise, as in the artifact IDs.  A record keeps its   *)
(* status and what staleness is computed from: the direction (standing for *)
(* the whole intent) it was made for, and a video's first frame.  Left     *)
(* out: media files and hashes, locks of style and cast a keyframe may     *)
(* follow, closing frames, and records of an older format.  The turn keeps *)
(* other threads out of the files while an operation runs                  *)
(* (SessionDispatch), so none is started while writes are pending.         *)
(***************************************************************************)
EXTENDS Naturals, Sequences, FiniteSets

CONSTANTS
    Direction,
    Default,            \* ShotDirection::default()
    Unplanned,          \* no locked plan holds the shot
    Candidate,          \* the places of a generation's candidates
    Clips,              \* candidates a video request asks for
    MaxGenerations,     \* bounds the keyframe generations planned
    MaxVideos,          \* bounds the video generations asked for
    None

Keyframe == (1..MaxGenerations) \X Candidate
Video    == (1..MaxVideos) \X (1..Clips)

ASSUME PublicationAssumption ==
    /\ Default \in Direction
    /\ Unplanned \notin Direction
    /\ Candidate # {} /\ IsFiniteSet(Candidate)
    /\ {Clips, MaxGenerations, MaxVideos} \subseteq Nat \ {0}
    /\ None \notin Keyframe \cup Video

VARIABLES
    disk,       \* the three files
    memory,     \* the session's ShotWorkflow, or none
    pending,    \* what the operation under way has still to write
    planned,    \* the direction the locked shot plan gives the shot
    plans,      \* keyframe generations planned, whose outputs may arrive
    jobs,       \* videos asked for and not yet attached or given up
    left,       \* those the session no longer follows
    astray      \* whether an operation was interrupted over the mixture left
                \* by another, or a session went on with an older copy than
                \* the files (history)

vars == <<disk, memory, pending, planned, plans, jobs, left, astray>>

Status == {"candidate", "selected", "locked", "superseded"}
Live == {"candidate", "selected", "locked"}

Partial(D, R) == UNION {[S -> R] : S \in SUBSET D}

KeyframeRecord == [status: Status, made: SUBSET Direction]
VideoRecord == [status: Status, from: Keyframe, made: Direction]

Shot == [direction: Direction, generation: 0..MaxGenerations, video: 0..MaxVideos]
Selection == [candidates: SUBSET Keyframe, selected: Keyframe \cup {None}]

(* A ShotWorkflow, or the three files.                                     *)
IsCopy(c) ==
    /\ DOMAIN c = {"shot", "keyframes", "videos", "selection"}
    /\ c.shot \in Shot
    /\ DOMAIN c.keyframes \subseteq Keyframe
    /\ \A id \in DOMAIN c.keyframes : c.keyframes[id] \in KeyframeRecord
    /\ DOMAIN c.videos \subseteq Video
    /\ \A id \in DOMAIN c.videos : c.videos[id] \in VideoRecord
    /\ c.selection \in Selection

Plan == [generation: 1..MaxGenerations, made: Direction]
Job == [id: Video, from: Keyframe, made: Direction]

File == {"shot", "artifacts", "selection"}

Idle == [files |-> <<>>, copy |-> None, job |-> None, settled |-> TRUE]

TypeOK ==
    /\ IsCopy(disk)
    /\ memory # None => IsCopy(memory)
    /\ pending.files \in Seq(File) /\ Len(pending.files) <= 3
    /\ pending.files = <<>> => pending = Idle
    /\ pending.files # <<>> => IsCopy(pending.copy)
    /\ pending.job \in Video \cup {None}
    /\ pending.settled \in BOOLEAN
    /\ planned \in Direction \cup {Unplanned}
    /\ plans \subseteq Plan
    /\ jobs \subseteq Job
    /\ left \subseteq Video
    /\ astray \in BOOLEAN
-----------------------------------------------------------------------------
(* Reading a copy.                                                         *)

(* Mutant: the revision is counted on twice.                               *)
CandidateIds_Advanced(g) == {g + 1} \X Candidate

(* The IDs of one generation.                                              *)
CandidateIds(g) == {g} \X Candidate

LockedKeyframe(c) ==
    {id \in {c.selection.selected} \cap DOMAIN c.keyframes :
        c.keyframes[id].status = "locked"}

Locked(c) == LockedKeyframe(c) # {}

(* Whether a candidate was made for another intent than the shot's: its    *)
(* input hash and the intent noted beside it are both compared.            *)
Stale(c) ==
    \E id \in c.selection.candidates : c.keyframes[id].made # {c.shot.direction}

CurrentVideos(c) ==
    {id \in DOMAIN c.videos : /\ id[1] = c.shot.video
                              /\ c.videos[id].status # "superseded"}

LockedVideo(c) == \E id \in CurrentVideos(c) : c.videos[id].status = "locked"

(* A video follows the shot while it starts from the locked keyframe and   *)
(* its intent is the shot's.                                               *)
Follows(c, id) ==
    /\ c.videos[id].from \in LockedKeyframe(c)
    /\ c.videos[id].made = c.shot.direction

(* VideoState::Locked                                                      *)
VideoApproved(c) ==
    \E id \in CurrentVideos(c) : c.videos[id].status = "locked" /\ Follows(c, id)
-----------------------------------------------------------------------------
(* Loading: recover_partial_publication, then validate.                    *)

(* Mutant: only a selection that names nothing is made good.               *)
RecoverGeneration_First(c) ==
    LET expected == CandidateIds(c.shot.generation) IN
    IF /\ c.shot.generation > 0 /\ c.selection.candidates = {}
       /\ \A id \in expected : id \in DOMAIN c.keyframes /\ c.keyframes[id].status \in Live
    THEN [c EXCEPT !.selection = [candidates |-> expected, selected |-> None]]
    ELSE c

(* Artifacts published before the selection that names them.               *)
RecoverGeneration(c) ==
    LET expected == CandidateIds(c.shot.generation)
        published == \A id \in expected :
                        /\ id \in DOMAIN c.keyframes
                        /\ c.keyframes[id].status \in Live
    IN  IF c.shot.generation > 0 /\ c.selection.candidates # expected /\ published
        THEN [c EXCEPT !.selection = [candidates |-> expected, selected |-> None]]
        ELSE c

(* Mutant: what a reset leaves behind is not recognised.                   *)
RecoverCleared_Never(c) == c

(* A reset stopped before the selection was cleared.                       *)
RecoverCleared(c) ==
    IF /\ c.selection.candidates # {}
       /\ \A id \in c.selection.candidates :
             id \in DOMAIN c.keyframes /\ c.keyframes[id].status = "superseded"
    THEN [c EXCEPT !.selection = [candidates |-> {}, selected |-> None]]
    ELSE c

(* selection.json is the authority for the human choice.                   *)
Reconcilable(c) ==
    \A id \in DOMAIN c.keyframes :
        LET status == c.keyframes[id].status
        IN  IF id \notin c.selection.candidates THEN status \in {"candidate", "superseded"}
            ELSE IF id = c.selection.selected THEN status \in Live
            ELSE status \in {"candidate", "selected"}

ReconcileStatuses(c) ==
    [c EXCEPT !.keyframes = [id \in DOMAIN @ |->
        IF id \notin c.selection.candidates THEN @[id]
        ELSE IF id = c.selection.selected
             THEN IF @[id].status = "candidate" THEN [@[id] EXCEPT !.status = "selected"]
                                                ELSE @[id]
             ELSE [@[id] EXCEPT !.status = "candidate"]]]

Recovered(c) == RecoverCleared(RecoverGeneration(c))

Valid(c) ==
    /\ c.selection.selected \in c.selection.candidates \cup {None}
    /\ c.selection.candidates \subseteq DOMAIN c.keyframes

Loadable(c) == Reconcilable(Recovered(c)) /\ Valid(Recovered(c))

Loaded(c) == ReconcileStatuses(Recovered(c))
-----------------------------------------------------------------------------
(* Writing.                                                                *)

Replaced(files, file, c) ==
    CASE file = "shot"      -> [files EXCEPT !.shot = c.shot]
      [] file = "artifacts" -> [files EXCEPT !.keyframes = c.keyframes,
                                             !.videos = c.videos]
      [] file = "selection" -> [files EXCEPT !.selection = c.selection]

(* `settled' tells whether the files held what was loaded of them.         *)
Persist(files, c, job) ==
    pending' = [files |-> files, copy |-> c, job |-> job,
                settled |-> memory = disk]

Write(files, c) ==
    /\ Persist(files, c, None)
    /\ UNCHANGED <<disk, memory, planned, plans, jobs, left, astray>>

(* Mutant: the records before the revision.                                *)
PublishedInOrder_RecordsFirst == <<"artifacts", "shot", "selection">>

(* persist: the revision first, the records second, the pointer last.      *)
PublishedInOrder == <<"shot", "artifacts", "selection">>

Ready == pending = Idle /\ memory # None

WriteNext ==
    /\ pending # Idle
    /\ disk' = Replaced(disk, Head(pending.files), pending.copy)
    /\ IF Len(pending.files) > 1
       THEN /\ pending' = [pending EXCEPT !.files = Tail(@)]
            /\ UNCHANGED memory
       ELSE /\ pending' = Idle
            /\ memory' = pending.copy
    /\ UNCHANGED <<planned, plans, jobs, left, astray>>

(* A write that fails is an interruption, and worse when the session then  *)
(* goes on with a copy that is not what the files hold.                    *)
Interrupted(goesOn) ==
    astray' = (astray \/ ~pending.settled \/ (goesOn /\ memory # disk'))

(* Mutant: the copy stays when a video fails to attach, too.               *)
FailWrite_KeepsCopy ==
    /\ pending # Idle
    /\ disk' \in {disk, Replaced(disk, Head(pending.files), pending.copy)}
    /\ pending' = Idle
    /\ Interrupted(pending.job = None)
    /\ UNCHANGED <<memory, planned, plans, jobs, left>>

(* A write fails, before the file is replaced or after.  The copy in       *)
(* memory stays as it was; only a video's is read again.                   *)
FailWrite ==
    /\ pending # Idle
    /\ disk' \in {disk, Replaced(disk, Head(pending.files), pending.copy)}
    /\ pending' = Idle
    /\ Interrupted(pending.job = None)
    /\ IF pending.job = None THEN UNCHANGED <<memory, left>>
       ELSE /\ memory' = None
            /\ left' = left \cup {pending.job}
    /\ UNCHANGED <<planned, plans, jobs>>
-----------------------------------------------------------------------------
(* Keyframes.                                                              *)

SupersedeKeyframes(keyframes) ==
    [id \in DOMAIN keyframes |-> [keyframes[id] EXCEPT !.status = "superseded"]]

SupersedeVideos(videos) ==
    [id \in DOMAIN videos |-> [videos[id] EXCEPT !.status = "superseded"]]

SetDirection(d) ==
    /\ Ready
    /\ ~Locked(memory)
    /\ planned \in {Unplanned, d}
    /\ d # memory.shot.direction
    /\ Write(<<"shot">>, [memory EXCEPT !.shot.direction = d])

PlanGeneration ==
    /\ Ready
    /\ ~Locked(memory)
    /\ memory.shot.generation < MaxGenerations
    /\ plans' = plans \cup {[generation |-> memory.shot.generation + 1,
                             made |-> memory.shot.direction]}
    /\ UNCHANGED <<disk, memory, pending, planned, jobs, left, astray>>

Attached(c, plan) ==
    /\ c.shot.generation >= plan.generation
    /\ CandidateIds(plan.generation) \subseteq DOMAIN c.keyframes

AttachGeneration(plan) ==
    LET ids == CandidateIds(plan.generation) IN
    /\ Ready
    /\ ~Attached(memory, plan)
    /\ memory.shot.generation \in {plan.generation - 1, plan.generation}
    /\ ~Locked(memory)
    /\ ids \cap DOMAIN memory.keyframes = {}
    /\ Write(PublishedInOrder,
             [memory EXCEPT
                !.shot.generation = plan.generation,
                !.keyframes = [id \in DOMAIN @ \cup ids |->
                    IF id \in ids
                    THEN [status |-> "candidate",
                          made |-> {plan.made, memory.shot.direction}]
                    ELSE SupersedeKeyframes(@)[id]],
                !.selection = [candidates |-> ids, selected |-> None]])

Select(id) ==
    /\ Ready
    /\ ~Locked(memory)
    /\ id \in memory.selection.candidates
    /\ Write(<<"artifacts", "selection">>,
             [memory EXCEPT
                !.keyframes = [other \in DOMAIN @ |->
                    IF other = id THEN [@[other] EXCEPT !.status = "selected"]
                    ELSE IF other = memory.selection.selected
                         THEN [@[other] EXCEPT !.status = "candidate"]
                    ELSE @[other]],
                !.selection.selected = id])

Lock ==
    /\ Ready
    /\ ~Locked(memory)
    /\ ~Stale(memory)
    /\ memory.selection.selected # None
    /\ Write(<<"artifacts">>,
             [memory EXCEPT !.keyframes[memory.selection.selected].status = "locked"])

Reset ==
    /\ Ready
    /\ Write(PublishedInOrder,
             [memory EXCEPT
                !.shot.direction = IF planned = Unplanned THEN Default ELSE planned,
                !.keyframes = SupersedeKeyframes(@),
                !.videos = SupersedeVideos(@),
                !.selection = [candidates |-> {}, selected |-> None]])
-----------------------------------------------------------------------------
(* Videos.                                                                 *)

(* Whether the job of a planned candidate can be made: an attached video's *)
(* has been acknowledged, and one still open goes on only as it was asked. *)
MayAsk(job) ==
    /\ job.id \notin DOMAIN memory.videos
    /\ \A other \in jobs : other.id = job.id => other = job

(* Each candidate is a job of its own, asked for in turn until one is      *)
(* refused.  A shot whose videos are followed is not asked for others.     *)
StartVideos ==
    LET v == memory.shot.video + 1 IN
    /\ Ready
    /\ {job.id : job \in jobs} \subseteq left
    /\ ~VideoApproved(memory)
    /\ v <= MaxVideos
    /\ \E from \in LockedKeyframe(memory) :
          LET Ask(n) == [id |-> <<v, n>>, from |-> from, made |-> memory.shot.direction]
              asked == {Ask(n) : n \in {n \in 1..Clips : \A m \in 1..n : MayAsk(Ask(m))}}
          IN  /\ jobs' = jobs \cup asked
              /\ left' = left \ {job.id : job \in asked}
    /\ UNCHANGED <<disk, memory, pending, planned, plans, astray>>

(* A followed video has failed at its provider: its job is retired, and    *)
(* the shot is read again.  That one attached already should fail when it  *)
(* is asked for once more is left out.                                     *)
FailVideo(job) ==
    /\ pending = Idle
    /\ job.id \notin left \cup DOMAIN disk.videos
    /\ jobs' = jobs \ {job}
    /\ memory' = None
    /\ UNCHANGED <<disk, pending, planned, plans, left, astray>>

(* Mutant: a lock does not keep a newer generation out.                     *)
Late_DespiteLock(c, v) == v < c.shot.video

(* A candidate of an older generation, or of a newer one that comes after  *)
(* the director locked a video, is kept aside.                             *)
Late(c, v) == v < c.shot.video \/ (v > c.shot.video /\ LockedVideo(c))

WithVideo(c, job) ==
    LET v == job.id[1]
        late == Late(c, v)
        newer == ~late /\ v > c.shot.video
    IN  [c EXCEPT
            !.shot.video = IF newer THEN v ELSE @,
            !.videos = [id \in DOMAIN @ \cup {job.id} |->
                IF id = job.id
                THEN [status |-> IF late THEN "superseded" ELSE "candidate",
                      from |-> job.from, made |-> job.made]
                ELSE IF newer THEN SupersedeVideos(@)[id] ELSE @[id]]]

AttachVideo(job) ==
    /\ Ready
    /\ job.id \notin left
    /\ job.id \notin DOMAIN memory.videos
    /\ memory.shot.video + 1 >= job.id[1]
    /\ Persist(<<"shot", "artifacts">>, WithVideo(memory, job), job.id)
    /\ UNCHANGED <<disk, memory, planned, plans, jobs, left, astray>>

(* Attached, now or before an interruption: the job is acknowledged.       *)
Acknowledge(job) ==
    /\ Ready
    /\ job.id \notin left
    /\ job.id \in DOMAIN memory.videos
    /\ jobs' = jobs \ {job}
    /\ UNCHANGED <<disk, memory, pending, planned, plans, left, astray>>

SelectVideo(id) ==
    /\ Ready
    /\ ~LockedVideo(memory)
    /\ id \in CurrentVideos(memory)
    /\ Write(<<"artifacts">>,
             [memory EXCEPT !.videos = [other \in DOMAIN @ |->
                IF other = id THEN [@[other] EXCEPT !.status = "selected"]
                ELSE IF other \in CurrentVideos(memory)
                     THEN [@[other] EXCEPT !.status = "candidate"]
                ELSE @[other]]])

(* The chosen video, or the only one.                                      *)
Chosen(c) ==
    {id \in CurrentVideos(c) : \/ c.videos[id].status = "selected"
                               \/ CurrentVideos(c) = {id}}

LockVideo ==
    /\ Ready
    /\ ~LockedVideo(memory)
    /\ \E id \in Chosen(memory) :
          /\ Follows(memory, id)
          /\ Write(<<"artifacts">>, [memory EXCEPT !.videos[id].status = "locked"])
-----------------------------------------------------------------------------
(* The session and the shot plan.                                          *)

(* The shot is read when it is next used.                                  *)
Load ==
    /\ pending = Idle
    /\ memory = None
    /\ Loadable(disk)
    /\ memory' = Loaded(disk)
    /\ UNCHANGED <<disk, pending, planned, plans, jobs, left, astray>>

(* A locked plan's intent is written over shot.json, its revisions kept.   *)
Materialized(files, d) ==
    IF d = Unplanned THEN files ELSE [files EXCEPT !.shot.direction = d]

(* Mutant: the session keeps its copies.                                   *)
LockPlan_KeepsCopy(d) ==
    /\ pending = Idle
    /\ planned' = d
    /\ disk' = Materialized(disk, d)
    /\ UNCHANGED <<memory, pending, plans, jobs, left, astray>>

(* Locking a plan rewrites its shots and drops every copy.  When writing   *)
(* them fails, at this shot or a later one, this one's copy stays.         *)
LockPlan(d) ==
    /\ pending = Idle
    /\ planned' = d
    /\ \/ /\ disk' = Materialized(disk, d) /\ memory' = None
          /\ UNCHANGED astray
       \/ /\ disk' \in {disk, Materialized(disk, d)}
          /\ UNCHANGED memory
          /\ astray' = (astray \/ (memory # None /\ disk' # disk))
    /\ UNCHANGED <<pending, plans, jobs, left>>

(* Collecting media marks replaced takes in a copy of its own, as loaded,  *)
(* and drops the session's.                                                *)
Collect ==
    /\ pending = Idle
    /\ Loadable(disk)
    /\ \E takes \in {disk.keyframes, disk.videos} :
          \E id \in DOMAIN takes : takes[id].status = "superseded"
    /\ disk' = Replaced(disk, "artifacts", Loaded(disk))
    /\ memory' = None
    /\ UNCHANGED <<pending, planned, plans, jobs, left, astray>>

(* The session ends, by closing or by a crash between two writes, and the  *)
(* next one writes the plan's shots before it reads anything.              *)
Reopen ==
    /\ disk' = Materialized(disk, planned)
    /\ memory' = None
    /\ pending' = Idle
    /\ left' = {}
    /\ Interrupted(FALSE)
    /\ UNCHANGED <<planned, plans, jobs>>
-----------------------------------------------------------------------------
NewShot ==
    [shot |-> [direction |-> Default, generation |-> 0, video |-> 0],
     keyframes |-> <<>>, videos |-> <<>>,
     selection |-> [candidates |-> {}, selected |-> None]]

Init ==
    /\ disk = NewShot
    /\ memory = None
    /\ pending = Idle
    /\ planned = Unplanned
    /\ plans = {}
    /\ jobs = {}
    /\ left = {}
    /\ astray = FALSE

Next ==
    \/ \E d \in Direction : SetDirection(d) \/ LockPlan(d)
    \/ PlanGeneration
    \/ \E plan \in plans : AttachGeneration(plan)
    \/ \E id \in Keyframe : Select(id)
    \/ Lock
    \/ Reset
    \/ StartVideos
    \/ \E job \in jobs : FailVideo(job) \/ AttachVideo(job) \/ Acknowledge(job)
    \/ \E id \in Video : SelectVideo(id)
    \/ LockVideo
    \/ /\ pending # Idle
       /\ WriteNext \/ FailWrite
    \/ Load
    \/ Collect
    \/ Reopen

Spec == Init /\ [][Next]_vars
-----------------------------------------------------------------------------
(* Properties.                                                             *)

(* What a load would find.                                                 *)
Found == Loaded(disk)

(* "Every completed file boundary is recoverable after a process or power  *)
(* failure" (state-machine.md): the files load.                            *)
EveryBoundaryLoads == Loadable(disk)

(* Loading "never relies on reusing an already-published generation ID, so *)
(* the next generation remains possible" (state-machine.md).               *)
NextGenerationIsNew ==
    \A id \in DOMAIN disk.keyframes : id[1] <= disk.shot.generation

(* Both hold until an operation is interrupted over the mixture another    *)
(* left, or a failed write leaves the session with an older copy than the  *)
(* files: of one interruption, wherever it comes, everything is recovered. *)
OneMixtureIsRecovered ==
    ~astray => EveryBoundaryLoads /\ NextGenerationIsNew

(* Nor is the ID of a recorded video used again by the next generation of  *)
(* videos.                                                                 *)
NextVideoIsNew ==
    \A id \in DOMAIN disk.videos : id[1] <= disk.shot.video

(* Between operations the session's copy is what a load would find, so     *)
(* that what it decides by is what the files say: until a write fails that *)
(* leaves it with an older one, or interruptions come on top of each       *)
(* other.                                                                  *)
CopyIsCurrent == ~astray /\ pending = Idle /\ memory # None => memory = Found

(* A video's record stays, and goes on saying what the video was made      *)
(* from, whatever is interrupted or fails and whichever copy the session   *)
(* goes on with: "a paid video is never thrown away" (project-format.md).  *)
(* What two copies do to each other is SessionDispatch's, PaidIsKept.      *)
VideosAreKept ==
    [][\A id \in DOMAIN disk.videos :
          /\ id \in DOMAIN disk'.videos
          /\ disk'.videos[id].from = disk.videos[id].from
          /\ disk'.videos[id].made = disk.videos[id].made]_disk
-----------------------------------------------------------------------------
Standing(c) ==
    [id \in Keyframe |->
        IF id \notin DOMAIN c.keyframes THEN "none"
        ELSE IF id \in c.selection.candidates THEN c.keyframes[id].status
        ELSE "superseded"]

(* What a load would find each keyframe to be: CHOOSE from one, so that    *)
(* TLC loads once for it.                                                  *)
KeyframeStanding == CHOOSE standing \in {Standing(c) : c \in {Found}} : TRUE

VideoStanding(c) ==
    LET inPlay == CurrentVideos(c) IN
    [id \in Video |->
        IF id \notin DOMAIN c.videos THEN "none"
        ELSE IF id \in inPlay THEN c.videos[id].status
        ELSE "superseded"]

(* The directions keyframes are recorded to be made for, and what videos   *)
(* were made from.                                                         *)
Directions(c) ==
    [id \in Keyframe |-> IF id \in DOMAIN c.keyframes THEN c.keyframes[id].made ELSE {}]

Sources(c) ==
    [id \in Video |-> IF id \in DOMAIN c.videos
                      THEN {<<c.videos[id].from, c.videos[id].made>>} ELSE {}]

Approval == INSTANCE ShotApproval WITH
    direction <- disk.shot.direction,
    keyframe  <- KeyframeStanding,
    video     <- VideoStanding(disk),
    made      <- Directions(disk),
    source    <- Sources(disk),
    kept      <- ~astray

(* What a load finds changes as one record would wherever an operation is  *)
(* interrupted, until the mishaps that `astray' notes.                     *)
ImplementsApproval == Approval!Spec
=============================================================================
