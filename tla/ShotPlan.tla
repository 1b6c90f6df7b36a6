------------------------------- MODULE ShotPlan -------------------------------
(***************************************************************************)
(* The shot plan: crates/kineto-project/src/shot_plan.rs and               *)
(* crates/kineto-core/src/shot_plan.rs.                                    *)
(*                                                                         *)
(* A language model plans the shots of every scene of the locked           *)
(* screenplay, or one scene again; the director edits one scene.  Each     *)
(* makes the plan's next revision.  Locking a revision writes its shots    *)
(* into the project one file after another, and opening the project writes *)
(* them again.  A shot's ID is its identity: the takes and videos kept     *)
(* under it are its own, so a shot that is added must not take the ID of   *)
(* one removed earlier.                                                    *)
(*                                                                         *)
(* Commands that write plans run one at a time; screenplays and bibles may *)
(* be locked while a model is asked.  A plan is, scene by scene, a set of  *)
(* shots: their order and what continues from what are left out, and of    *)
(* what a shot is told to be only the revision that last said so is kept.  *)
(* A scene of the screenplay is a number that says which text it has.  The *)
(* bible's entries that a plan reads are one number.  That a paid answer   *)
(* is kept over a crash is PaidDocument's subject; a recovered answer is   *)
(* one that comes late.                                                    *)
(***************************************************************************)
EXTENDS Naturals, Sequences, FiniteSets

CONSTANTS
    Scenes,             \* IDs of scenes
    BootScene,          \* BOOTSTRAP_SCENE
    MaxNumber,          \* bounds the numbers in shot IDs
    Given,              \* bounds the IDs that come with a new shot
    MaxPlans,           \* bounds the plan's revisions
    MaxAdded,           \* bounds the shots ever added
    MaxChanges,         \* bounds the screenplays and bibles locked anew
    MaxPlanStops,       \* bounds the process's stops
    NoPlan

PlanRev == 1..MaxPlans

(* `<scene>_NN`.  A model or the director may give a shot another scene's. *)
ShotId == Scenes \X (1..MaxNumber)

(* who: which shot it is, whatever its ID; says: the revision whose intent *)
(* it has.                                                                 *)
PlannedShot == [id: ShotId, who: 1..MaxAdded, says: PlanRev]

Change == 1..(MaxChanges + 1)

Texts == [Scenes -> {0} \cup Change]      \* 0: the screenplay has no such scene

(* read, entry and base are the dependencies; from is the text each        *)
(* scene's shots were planned from.                                        *)
PlanRevision ==
    [shots: [Scenes -> SUBSET PlannedShot], status: {"candidate", "locked", "superseded"},
     read: Texts, entry: Change, base: 0..MaxPlans, from: Texts]

PlanRequest ==
    [scene: Scenes \cup {NoPlan}, read: Texts, entry: Change, used: SUBSET ShotId]

WrittenShot == [who: 0..MaxAdded, says: 0..MaxPlans]

ASSUME PlanAssumption ==
    /\ IsFiniteSet(Scenes) /\ BootScene \in Scenes /\ Given \subseteq ShotId
    /\ MaxNumber \in Nat \ {0} /\ MaxPlans \in Nat /\ MaxAdded \in Nat
    /\ MaxChanges \in Nat /\ MaxPlanStops \in Nat
    /\ NoPlan \notin Scenes \cup PlanRequest \cup WrittenShot

VARIABLES
    planLog,        \* shot_plan/revisions.json and the revisions' files
    script,         \* the locked screenplay
    bibleEntry,     \* the locked bible
    written,        \* scenes/<scene>/shots/<id>/shot.json
    planJob,        \* the model's answer awaited
    writing,        \* the shots materialize has yet to write
    behind,         \* whether the last materialize ended early
    planOpen,       \* whether a session has the project open
    planCount       \* what the bounds count

planVars == <<planLog, script, bibleEntry, written, planJob, writing, behind, planOpen,
              planCount>>

PlanTypeOK ==
    /\ planLog \in Seq(PlanRevision) /\ Len(planLog) <= MaxPlans
    /\ script \in Texts /\ bibleEntry \in Change
    /\ written \in [Scenes \X ShotId -> WrittenShot \cup {NoPlan}]
    /\ planJob \in PlanRequest \cup {NoPlan}
    /\ writing \subseteq Scenes \X PlannedShot
    /\ behind \in BOOLEAN /\ planOpen \in BOOLEAN
    /\ planCount \in [added: 0..MaxAdded, changes: 0..MaxChanges, stops: 0..MaxPlanStops]

(* The project's first shots are the bootstrap scene's, written when it is *)
(* created; a screenplay and a bible are locked, as they stay.             *)
PlanInit ==
    /\ planLog = <<>>
    /\ script = [s \in Scenes |-> 1] /\ bibleEntry = 1
    /\ written = [at \in Scenes \X ShotId |->
                    IF at = <<BootScene, <<BootScene, 1>>>> THEN [who |-> 0, says |-> 0]
                    ELSE NoPlan]
    /\ planJob = NoPlan /\ writing = {} /\ behind = FALSE /\ planOpen = TRUE
    /\ planCount = [added |-> 0, changes |-> 0, stops |-> 0]
-----------------------------------------------------------------------------
NewestPlan == Len(planLog)

PlansInPlay == {r \in DOMAIN planLog : planLog[r].status # "superseded"}

(* revisions::latest: the newest still in play.                            *)
IsLatestPlan(r) == r \in PlansInPlay /\ \A s \in PlansInPlay : s <= r

LockedPlans == {r \in DOMAIN planLog : planLog[r].status = "locked"}

ScenesOf(text) == {s \in Scenes : text[s] # 0}

ShotsIn(shots) == UNION {shots[s] : s \in Scenes}

IdsIn(shots) == {shot.id : shot \in ShotsIn(shots)}

(* check_against: the plan has the scenes of the screenplay.               *)
Covers(shots, text) == {s \in Scenes : shots[s] # {}} = ScenesOf(text)

ShotsLocated(id) == {s \in Scenes : written[<<s, id>>] # NoPlan}

(* Every ID a revision names, in play or not, or a scene has a shot of.    *)
UsedShotIds ==
    (UNION {IdsIn(planLog[r].shots) : r \in DOMAIN planLog})
        \cup {id \in ShotId : ShotsLocated(id) # {}}

PlansIdle == planOpen /\ planJob = NoPlan /\ writing = {}
-----------------------------------------------------------------------------
(* The IDs of what is added.                                               *)

(* The IDs of the base that the answer or the edit keeps.                  *)
KeptIds(base, added) == IdsIn(base) \ added

(* fresh_id: the scene's first number that no shot has used.               *)
IsFreshId(scene, id, taken) ==
    /\ id[1] = scene /\ id \notin taken
    /\ \A n \in 1..(id[2] - 1) : <<scene, n>> \in taken

(* Mutant: only IDs the base lacks count as added.                         *)
FreshIdFor_OfBase(scene, given, base, added, used, ids, id) ==
    IF given \notin IdsIn(base) /\ given \in used
    THEN IsFreshId(scene, id, used \cup ids) ELSE id = given

(* fresh_ids: `id` is what a shot given the ID `given` gets in a plan with *)
(* the IDs `ids`.                                                          *)
FreshIdFor(scene, given, base, added, used, ids, id) ==
    IF given \notin KeptIds(base, added) /\ given \in used
    THEN IsFreshId(scene, id, used \cup ids) ELSE id = given

NextPlan(revision) ==
    planLog' = Append([r \in DOMAIN planLog |->
                          IF planLog[r].status = "candidate"
                          THEN [planLog[r] EXCEPT !.status = "superseded"] ELSE planLog[r]],
                      revision)

ShotsAdded(count) == planCount' = [planCount EXCEPT !.added = @ + count]

(* A scene's shots said anew: those of the base that are kept, and at most *)
(* one more, which came with the ID `given` and has got another.           *)
SceneShots(kept, got) ==
    {[shot EXCEPT !.says = NewestPlan + 1] : shot \in kept}
        \cup {[id |-> id, who |-> planCount.added + 1, says |-> NewestPlan + 1] : id \in got}

AtMostOne(S) == {{}} \cup {{x} : x \in S}
-----------------------------------------------------------------------------
(* The model's plans.                                                      *)

GatherPlan(scene) ==
    planJob' = [scene |-> scene, read |-> script, entry |-> bibleEntry,
                used |-> UsedShotIds]

(* write, and replan_scene of the latest revision: what is read before the *)
(* model is asked.                                                         *)
AskPlan ==
    /\ PlansIdle /\ NewestPlan < MaxPlans
    /\ GatherPlan(NoPlan)
    /\ UNCHANGED <<planLog, script, bibleEntry, written, writing, behind, planOpen, planCount>>

AskReplan(scene) ==
    /\ PlansIdle /\ NewestPlan < MaxPlans
    /\ \E r \in PlansInPlay : IsLatestPlan(r) /\ planLog[r].shots[scene] # {}
    /\ GatherPlan(scene)
    /\ UNCHANGED <<planLog, script, bibleEntry, written, writing, behind, planOpen, planCount>>

(* A whole plan: a shot for each scene, all of them added.                 *)
PlanAnswered ==
    /\ planJob # NoPlan /\ planJob.scene = NoPlan
    /\ LET scenes == ScenesOf(planJob.read)
           none   == [s \in Scenes |-> {}]
           who    == CHOOSE w \in [scenes -> 1..Cardinality(scenes)] :
                         \A s, t \in scenes : w[s] = w[t] => s = t
           added  == planCount.added + Cardinality(scenes)
       IN  \E given \in [scenes -> Given], id \in [scenes -> ShotId] :
              /\ added <= MaxAdded
              /\ \A s, t \in scenes : given[s] = given[t] => s = t
              /\ \A s \in scenes :
                    FreshIdFor(s, given[s], none, {}, planJob.used,
                               {given[t] : t \in scenes}, id[s])
              /\ NextPlan([shots |-> [s \in Scenes |->
                                IF s \in scenes
                                THEN {[id |-> id[s], who |-> planCount.added + who[s],
                                       says |-> NewestPlan + 1]}
                                ELSE {}],
                           status |-> "candidate", read |-> planJob.read,
                           entry |-> planJob.entry, base |-> 0, from |-> planJob.read])
              /\ planCount' = [planCount EXCEPT !.added = added]
    /\ planJob' = NoPlan
    /\ UNCHANGED <<script, bibleEntry, written, writing, behind, planOpen>>

(* One scene of the latest revision again: an ID it has is that shot, any  *)
(* other is a new one.  The dependencies are those of the whole plan, as   *)
(* the screenplay and the bible were when the model was asked.             *)
ReplanAnswered ==
    /\ planJob # NoPlan /\ planJob.scene # NoPlan
    /\ \E r \in PlansInPlay, more \in AtMostOne(Given), got \in AtMostOne(ShotId) :
          LET base == planLog[r].shots
              s    == planJob.scene
          IN  /\ IsLatestPlan(r)
              /\ planCount.added + Cardinality(more) <= MaxAdded
              /\ more \cap IdsIn(base) = {}
              /\ Cardinality(got) = Cardinality(more)
              /\ \A given \in more, id \in got :
                    FreshIdFor(s, given, base, {}, planJob.used, IdsIn(base) \cup more, id)
              /\ \E kept \in SUBSET base[s] :
                    LET shots == [base EXCEPT ![s] = SceneShots(kept, got)]
                    IN  /\ shots[s] # {} /\ Covers(shots, planJob.read)
                        /\ NextPlan([shots |-> shots, status |-> "candidate",
                                     read |-> planJob.read, entry |-> planJob.entry,
                                     base |-> r,
                                     from |-> [planLog[r].from EXCEPT ![s] = planJob.read[s]]])
              /\ ShotsAdded(Cardinality(more))
    /\ planJob' = NoPlan
    /\ UNCHANGED <<script, bibleEntry, written, writing, behind, planOpen>>

PlanRefused ==
    /\ planJob # NoPlan
    /\ planJob' = NoPlan
    /\ UNCHANGED <<planLog, script, bibleEntry, written, writing, behind, planOpen, planCount>>
-----------------------------------------------------------------------------
(* The director's edits and locks.                                         *)

(* edit_scene, from the latest revision.  A shot the director added is new *)
(* though it is given the ID of one the same edit removed.  save_edit      *)
(* keeps the dependencies, but that on a plan.                             *)
EditScene(s) ==
    /\ PlansIdle /\ NewestPlan < MaxPlans
    /\ \E r \in PlansInPlay, more \in AtMostOne(Given), got \in AtMostOne(ShotId) :
          LET base == planLog[r].shots
          IN  /\ IsLatestPlan(r)
              /\ planCount.added + Cardinality(more) <= MaxAdded
              /\ Cardinality(got) = Cardinality(more)
              /\ \E kept \in SUBSET base[s] :
                    LET shots == [base EXCEPT ![s] = SceneShots(kept, got)]
                        rest  == IdsIn([base EXCEPT ![s] = kept])
                    IN  /\ more \cap rest = {}
                        /\ \A given \in more, id \in got :
                              FreshIdFor(s, given, base, more, UsedShotIds, rest \cup more, id)
                        /\ base[s] # {} /\ shots[s] # {} /\ Covers(shots, script)
                        /\ NextPlan([planLog[r] EXCEPT !.shots = shots, !.base = 0,
                                                       !.status = "candidate"])
              /\ ShotsAdded(Cardinality(more))
    /\ UNCHANGED <<script, bibleEntry, written, planJob, writing, behind, planOpen>>

ShotsOf(r) == UNION {{<<s, shot>> : shot \in planLog[r].shots[s]} : s \in Scenes}

(* lock: the revision covers the screenplay, and no shot of it is another  *)
(* scene's; then materialize, of a revision locked before too.             *)
LockPlanRevision(r) ==
    /\ PlansIdle
    /\ r \in PlansInPlay
    /\ Covers(planLog[r].shots, script)
    /\ \A at \in ShotsOf(r) : ShotsLocated(at[2].id) \subseteq {at[1]}
    /\ planLog' = IF r \in LockedPlans THEN planLog
                  ELSE [s \in DOMAIN planLog |-> [planLog[s] EXCEPT
                           !.status = IF s = r THEN "locked" ELSE "superseded"]]
    /\ writing' = ShotsOf(r)
    /\ UNCHANGED <<script, bibleEntry, written, planJob, behind, planOpen, planCount>>

(* A screenplay with a scene changed, removed or added is locked.          *)
LockScript(s) ==
    /\ planOpen /\ writing = {}
    /\ planCount.changes < MaxChanges
    /\ \E text \in {0, planCount.changes + 2} :
          /\ text # script[s]
          /\ script' = [script EXCEPT ![s] = text]
          /\ ScenesOf(script') # {}
    /\ planCount' = [planCount EXCEPT !.changes = @ + 1]
    /\ UNCHANGED <<planLog, bibleEntry, written, planJob, writing, behind, planOpen>>

LockBible ==
    /\ planOpen /\ writing = {}
    /\ planCount.changes < MaxChanges
    /\ bibleEntry' = planCount.changes + 2
    /\ planCount' = [planCount EXCEPT !.changes = @ + 1]
    /\ UNCHANGED <<planLog, script, written, planJob, writing, behind, planOpen>>
-----------------------------------------------------------------------------
(* materialize.                                                            *)

(* write_merged: a shot already written keeps what it has made.            *)
Merged(at, shot) ==
    [who |-> IF written[at] = NoPlan THEN shot.who ELSE written[at].who, says |-> shot.says]

(* The next shot of the locked plan, in an order that stays the same, if   *)
(* the screenplay has its scene.                                           *)
WriteShot ==
    /\ writing # {}
    /\ LET next == CHOOSE shot \in writing : TRUE
           at   == <<next[1], next[2].id>>
       IN  /\ script[next[1]] # 0
           /\ ShotsLocated(next[2].id) \subseteq {next[1]}
           /\ written' = [written EXCEPT ![at] = Merged(at, next[2])]
           /\ writing' = writing \ {next}
           /\ behind' = (behind /\ writing # {next})
    /\ UNCHANGED <<planLog, script, bibleEntry, planJob, planOpen, planCount>>

(* A write that fails, or a scene the locked screenplay no longer has.  A  *)
(* lock says so; an open goes on with what is on disk.                     *)
WritingFails ==
    /\ writing # {}
    /\ writing' = {} /\ behind' = TRUE
    /\ UNCHANGED <<planLog, script, bibleEntry, written, planJob, planOpen, planCount>>

StopPlans ==
    /\ planOpen
    /\ planCount.stops < MaxPlanStops
    /\ planCount' = [planCount EXCEPT !.stops = @ + 1]
    /\ planOpen' = FALSE /\ planJob' = NoPlan /\ writing' = {}
    /\ UNCHANGED <<planLog, script, bibleEntry, written, behind>>

(* Mutant: an open takes the shots as they are.                            *)
OpenPlans_AsTheyAre ==
    /\ ~planOpen
    /\ planOpen' = TRUE
    /\ UNCHANGED <<planLog, script, bibleEntry, written, planJob, writing, behind, planCount>>

(* find_shots: a plan locked by a session that stopped before writing its  *)
(* shots gets them now.                                                    *)
OpenPlans ==
    /\ ~planOpen
    /\ planOpen' = TRUE
    /\ writing' = UNION {ShotsOf(r) : r \in LockedPlans}
    /\ UNCHANGED <<planLog, script, bibleEntry, written, planJob, behind, planCount>>
-----------------------------------------------------------------------------
PlanNext ==
    \/ AskPlan \/ PlanAnswered \/ ReplanAnswered \/ PlanRefused
    \/ \E s \in Scenes : AskReplan(s) \/ EditScene(s) \/ LockScript(s)
    \/ \E r \in PlanRev : LockPlanRevision(r)
    \/ LockBible
    \/ WriteShot \/ WritingFails
    \/ StopPlans \/ OpenPlans

PlanSpec == PlanInit /\ [][PlanNext]_planVars
-----------------------------------------------------------------------------
(* Properties.                                                             *)

(* "A removed shot keeps its ID and its history, and no shot added later   *)
(* ever takes either, even one added in the same edit that removed it"     *)
(* (shot_plan.rs): over every revision, in play or not, and every shot     *)
(* written, one ID is one shot, in one scene.                              *)
AnIdIsOneShot ==
    /\ \A r, s \in DOMAIN planLog : \A x \in ShotsOf(r), y \in ShotsOf(s) :
          x[2].id = y[2].id => x[2].who = y[2].who /\ x[1] = y[1]
    /\ \A r \in DOMAIN planLog : \A x \in ShotsOf(r), s \in Scenes :
          written[<<s, x[2].id>>] # NoPlan => s = x[1] /\ written[<<s, x[2].id>>].who = x[2].who

(* What keyframes and videos are made from is the locked plan's intent:    *)
(* once an open or a lock is done, each shot in play is written and says   *)
(* what the locked revision says, unless a write failed and none has gone  *)
(* through since, wherever the process stopped.                            *)
PlayIsWritten ==
    planOpen /\ writing = {} /\ ~behind =>
        \A r \in LockedPlans : \A at \in ShotsOf(r) :
            written[<<at[1], at[2].id>>] = [who |-> at[2].who, says |-> at[2].says]

(* No run checks the following; the README says what TLC finds.            *)

(* staleness.                                                              *)
StaleCauses(r) ==
    LET rev == planLog[r]
    IN  {s \in Scenes : rev.read[s] # script[s]}
            \cup (IF rev.entry # bibleEntry THEN {"entry"} ELSE {})
            \cup (IF rev.base # 0 THEN {"plan"} ELSE {})

(* "It is stale when a scene changed, went or came, when an entry it read  *)
(* changed, or when the screenplay or bible is no longer locked"           *)
(* (docs/architecture/project-format.md), and else fresh.                  *)
StaleOnlyWhenChanged ==
    \A r \in DOMAIN planLog :
        StaleCauses(r) # {} => planLog[r].read # script \/ planLog[r].entry # bibleEntry

(* A plan in play without a cause has each scene's shots planned from what *)
(* the scene says now.                                                     *)
FreshIsFollowed ==
    \A r \in PlansInPlay : StaleCauses(r) = {} => planLog[r].from = script
=============================================================================
