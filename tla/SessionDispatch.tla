-------------------------- MODULE SessionDispatch --------------------------
(***************************************************************************)
(* One open project session, crates/kineto-core/src/session.rs with        *)
(* turn.rs: the worker thread and its inbox, the requests that run on      *)
(* threads of their own while a provider answers, the queue of those that  *)
(* wait, and the watchers of videos submitted earlier.                     *)
(*                                                                         *)
(* The turn lets one thread at a time read or write the project.  A        *)
(* request's thread holds it from taking it until its provider call, and   *)
(* from its provider's answer until its end: each stretch is one step of   *)
(* the model.  The worker holds it for a whole iteration of its loop: to   *)
(* take one message, to begin what need wait no longer, and to attach      *)
(* finished videos, which are steps of their own.                          *)
(*                                                                         *)
(* A shot is abstracted to what the writers of its files must not lose:    *)
(* the keyframe generations and the videos recorded, and whether its       *)
(* keyframe is locked.  Every write replaces the files by the writer's own *)
(* copy of the shot with its change, as ShotWorkflow's do.  Selecting a    *)
(* candidate goes with locking it.  Publishing is left out but for the     *)
(* shots it loads; so are the open, and threads that fail to spawn.  A     *)
(* kind of command other than those of a shot stands for its class: what   *)
(* works on everything, on one document, with and without a provider.  A   *)
(* video request submits one video, and only a keyframe request's thread   *)
(* may panic, after it has written.                                        *)
(***************************************************************************)
EXTENDS Naturals, Sequences, FiniteSets

CONSTANTS
    Shot,
    MaxRequests,    \* bounds how many commands the director gives
    Command,        \* what a command may ask, and of which place in play
    Plans,          \* lists of shots a locked shot plan may put in play
    FirstPlan,      \* the shots in play at the open
    FirstFiles,     \* what the open finds in each shot's files
    MaxParallel,    \* MAX_PARALLEL_REQUESTS
    NoShot

Request == 1..MaxRequests       \* tokens, in the order the commands come

Kind == {"keyframes", "videos", "lock", "reset", "plan", "document", "edit"}

Files == [keyframes: SUBSET Request, standing: {"none", "open", "locked"},
          videos: SUBSET Request]

ASSUME SessionAssumption ==
    /\ MaxRequests \in Nat
    /\ Command \subseteq [what: Kind, at: Nat \ {0}]
    /\ Plans \subseteq Seq(Shot)
    /\ FirstPlan \in Plans
    /\ FirstFiles \in [Shot -> Files]
    /\ MaxParallel \in Nat \ {0}
    /\ NoShot \notin Shot \cup Files
    /\ Shot \cap {"nothing", "documents", "everything"} = {}

VARIABLES
    closed,         \* the gate
    work,           \* the command of each request given so far, in order
    inbox,          \* commands and finished requests, as the worker gets them
    step,           \* where the worker's loop is
    waiting,        \* Dispatch::waiting
    running,        \* the requests under way on their own threads
    scope,          \* what each of those was found to work on as it began
    thread,         \* where each request's thread is
    answer,         \* what its provider answered
    copy,           \* the shot a request took with it
    on,             \* the shot it works on
    told,           \* the requests whose end has been delivered
    keys,           \* the shots in play
    shots,          \* the worker's loaded shots
    disk,           \* the shots' files
    video           \* how far the video each request submitted has come

dispatch == <<waiting, running, scope>>
requests == <<thread, answer, copy, on>>
project  == <<keys, shots, disk>>
vars == <<closed, work, inbox, step, dispatch, requests, told, project, video>>

Scope == Shot \cup {"nothing", "documents", "everything"}

Message == [done: BOOLEAN, request: Request]

TypeOK ==
    /\ closed \in BOOLEAN
    /\ work \in Seq(Command) /\ Len(work) <= MaxRequests
    /\ inbox \in Seq(Message)
    /\ step \in {"idle", "dispatching", "collecting", "joining", "ended"}
    /\ waiting \in Seq(Request)
    /\ running \subseteq Request /\ Cardinality(running) <= MaxParallel
    /\ scope \in [Request -> Scope]
    /\ thread \in [Request -> {"none", "spawned", "calling", "answered", "over"}]
    /\ answer \in [Request -> {"none", "ok", "failed"}]
    /\ copy \in [Request -> Files \cup {NoShot}]
    /\ on \in [Request -> Shot \cup {NoShot}]
    /\ told \subseteq Request
    /\ keys \in Plans
    /\ shots \in [Shot -> Files \cup {NoShot}]
    /\ disk \in [Shot -> Files]
    /\ video \in [Request -> {"none", "submitted", "followed", "ready",
                              "lost", "attached", "retired", "left"}]

Init ==
    /\ closed = FALSE
    /\ work = <<>>
    /\ inbox = <<>>
    /\ step = "idle"
    /\ waiting = <<>>
    /\ running = {}
    /\ scope = [t \in Request |-> "nothing"]
    /\ thread = [t \in Request |-> "none"]
    /\ answer = [t \in Request |-> "none"]
    /\ copy = [t \in Request |-> NoShot]
    /\ on = [t \in Request |-> NoShot]
    /\ told = {}
    /\ keys = FirstPlan
    /\ shots = [k \in Shot |-> IF \E i \in 1..Len(FirstPlan) : FirstPlan[i] = k
                               THEN FirstFiles[k] ELSE NoShot]
    /\ disk = FirstFiles
    /\ video = [t \in Request |-> "none"]
-----------------------------------------------------------------------------
(* What a command works on.                                                *)

Ask(t) == work[t].what

OfShot(t) == Ask(t) \in {"keyframes", "videos", "lock", "reset"}

Slow(t) == Ask(t) \in {"keyframes", "videos", "document"}

(* The shot a place in play names now, if any.                             *)
KeyOf(t) ==
    IF OfShot(t) /\ work[t].at <= Len(keys) THEN keys[work[t].at] ELSE NoShot

ScopeOf(t) ==
    IF Ask(t) = "plan" THEN "everything"
    ELSE IF ~OfShot(t) THEN "documents"
    ELSE IF KeyOf(t) = NoShot THEN "nothing" ELSE KeyOf(t)

Overlaps(a, b) ==
    /\ "nothing" \notin {a, b}
    /\ "everything" \in {a, b} \/ a = b

(* Mutant: only the requests under way are looked at, not those ahead.     *)
MustWait_NotAhead(t, ahead) ==
    \/ \E u \in running : Overlaps(scope[u], ScopeOf(t))
    \/ (Slow(t) /\ Cardinality(running) >= MaxParallel)

(* Mutant: one request too many.                                           *)
MustWait_OneMore(t, ahead) ==
    \/ \E u \in running : Overlaps(scope[u], ScopeOf(t))
    \/ \E i \in 1..ahead : Overlaps(ScopeOf(waiting[i]), ScopeOf(t))
    \/ (Slow(t) /\ Cardinality(running) > MaxParallel)

(* Mutant: a waiting request waits for itself too.                         *)
MustWait_Itself(t, ahead) ==
    \/ \E u \in running : Overlaps(scope[u], ScopeOf(t))
    \/ \E i \in 1..Len(waiting) : Overlaps(ScopeOf(waiting[i]), ScopeOf(t))
    \/ (Slow(t) /\ Cardinality(running) >= MaxParallel)

MustWait(t, ahead) ==
    \/ \E u \in running : Overlaps(scope[u], ScopeOf(t))
    \/ \E i \in 1..ahead : Overlaps(ScopeOf(waiting[i]), ScopeOf(t))
    \/ (Slow(t) /\ Cardinality(running) >= MaxParallel)

(* The turn is the worker's from the message it takes to the end of the    *)
(* iteration; it joins the threads without it.                             *)
TurnFree_JoinHolds == step \notin {"dispatching", "collecting", "joining"}

TurnFree == step \notin {"dispatching", "collecting"}
-----------------------------------------------------------------------------
(* The director gives commands, for shots in play, and may close.          *)

Send(t, done) == inbox' = Append(inbox, [done |-> done, request |-> t])

Submit(c) ==
    /\ ~closed
    /\ Len(work) < MaxRequests
    /\ c.what \in {"keyframes", "videos", "lock", "reset"} => c.at <= Len(keys)
    /\ work' = Append(work, c)
    /\ Send(Len(work) + 1, FALSE)
    /\ UNCHANGED <<closed, step, dispatch, requests, told, project, video>>

Close ==
    /\ ~closed
    /\ closed' = TRUE
    /\ UNCHANGED <<work, inbox, step, dispatch, requests, told, project, video>>
-----------------------------------------------------------------------------
(* A request's thread.                                                     *)

(* What the shot must be for the request to go on.                         *)
Applies(what, files) ==
    CASE what = "keyframes" -> files.standing # "locked"
      [] what = "videos"    -> files.standing = "locked"
      [] what = "lock"      -> files.standing = "open"
      [] OTHER              -> TRUE

(* With the turn: refused, or everything up to the provider call.          *)
Prepare(t) ==
    /\ thread[t] = "spawned"
    /\ TurnFree
    /\ \/ /\ on[t] # NoShot => Applies(Ask(t), copy[t])
          /\ thread' = [thread EXCEPT ![t] = "calling"]
          /\ UNCHANGED <<inbox, answer>>
       \/ /\ thread' = [thread EXCEPT ![t] = "over"]
          /\ answer' = [answer EXCEPT ![t] = "failed"]
          /\ Send(t, TRUE)
    /\ UNCHANGED <<closed, work, step, dispatch, copy, on, told, project, video>>

(* Without the turn.  A video is submitted once the provider answers.      *)
ProviderAnswers(t) ==
    /\ thread[t] = "calling"
    /\ thread' = [thread EXCEPT ![t] = "answered"]
    /\ \E a \in {"ok", "failed"} :
          /\ answer' = [answer EXCEPT ![t] = a]
          /\ video' = IF Ask(t) = "videos" /\ a = "ok"
                      THEN [video EXCEPT ![t] = "submitted"] ELSE video
    /\ UNCHANGED <<closed, work, inbox, step, dispatch, copy, on, told, project>>

(* attach_generation: new candidates supersede the old, whose records stay. *)
WithKeyframes(files, t) ==
    [files EXCEPT !.keyframes = @ \cup {t}, !.standing = "open"]

(* With the turn again: what came back is recorded from the copy the       *)
(* request holds, which goes back to the worker unless it panicked.        *)
Record(t) ==
    /\ thread[t] = "answered"
    /\ TurnFree
    /\ IF Ask(t) = "keyframes" /\ answer[t] = "ok"
       THEN LET files == WithKeyframes(copy[t], t)
            IN  /\ disk' = [disk EXCEPT ![on[t]] = files]
                /\ copy' \in {[copy EXCEPT ![t] = files], [copy EXCEPT ![t] = NoShot]}
       ELSE UNCHANGED <<disk, copy>>
    /\ thread' = [thread EXCEPT ![t] = "over"]
    /\ Send(t, TRUE)
    /\ UNCHANGED <<closed, work, step, dispatch, answer, on, told, keys, shots, video>>
-----------------------------------------------------------------------------
(* What the worker does with a request it begins.                          *)

Loaded(k) == IF shots[k] = NoShot THEN disk[k] ELSE shots[k]

(* Publishing shots loads those that are not.                              *)
Publishing(held, files, inPlay) ==
    [k \in Shot |-> IF held[k] = NoShot /\ k \in inPlay THEN files[k] ELSE held[k]]

InPlay == {keys[i] : i \in 1..Len(keys)}

Follows(k) == \E v \in Request : video[v] \in {"followed", "ready", "lost"} /\ on[v] = k

Changed(what, files) ==
    [files EXCEPT !.standing = IF what = "lock" THEN "locked" ELSE "none"]

(* run_now, for a shot: a lock or a reset publishes every shot in play.    *)
RunOnShot(t, k) ==
    LET files == IF Applies(Ask(t), Loaded(k))
                 THEN Changed(Ask(t), Loaded(k)) ELSE Loaded(k)
        held  == [shots EXCEPT ![k] = files]
    IN  /\ disk' = IF Applies(Ask(t), Loaded(k)) THEN [disk EXCEPT ![k] = files]
                                                 ELSE disk
        /\ shots' = Publishing(held, disk', InPlay)
        /\ keys' = keys

(* run_now, for LockShotPlan: refused, or the shots in play may change and *)
(* every loaded one is read again.                                         *)
RunPlan ==
    \/ UNCHANGED project
    \/ /\ keys' \in Plans
       /\ shots' = [k \in Shot |-> IF \E i \in 1..Len(keys') : keys'[i] = k
                                   THEN disk[k] ELSE NoShot]
       /\ disk' = disk

RunNow(t) ==
    /\ \/ (Ask(t) = "plan" /\ RunPlan)
       \/ (OfShot(t) /\ KeyOf(t) # NoShot /\ RunOnShot(t, KeyOf(t)))
       \/ (ScopeOf(t) \in {"nothing", "documents"} /\ UNCHANGED project)
    /\ told' = told \cup {t}
    /\ UNCHANGED <<running, scope, requests>>

(* A place that names no shot, and a video while one is followed.          *)
RefusedAtOnce(t) ==
    /\ OfShot(t)
    /\ KeyOf(t) = NoShot \/ (Ask(t) = "videos" /\ Follows(KeyOf(t)))

(* start: the shot leaves the worker's map and goes with the thread.       *)
Start(t) ==
    IF RefusedAtOnce(t)
    THEN /\ told' = told \cup {t}
         /\ UNCHANGED <<running, scope, requests, project>>
    ELSE LET k == KeyOf(t)
         IN  /\ running' = running \cup {t}
             /\ scope' = [scope EXCEPT ![t] = ScopeOf(t)]
             /\ thread' = [thread EXCEPT ![t] = "spawned"]
             /\ on' = [on EXCEPT ![t] = k]
             /\ IF k = NoShot THEN UNCHANGED <<copy, shots>>
                ELSE /\ copy' = [copy EXCEPT ![t] = Loaded(k)]
                     /\ shots' = [shots EXCEPT ![k] = NoShot]
             /\ UNCHANGED <<answer, told, keys, disk>>

Begin(t) == IF Slow(t) THEN Start(t) ELSE RunNow(t)
-----------------------------------------------------------------------------
(* The worker's loop.                                                      *)

(* A command arrives: it begins, or joins the queue.                       *)
Arrive ==
    /\ step = "idle" /\ ~closed
    /\ inbox # <<>> /\ ~Head(inbox).done
    /\ LET t == Head(inbox).request
       IN  IF MustWait(t, Len(waiting))
           THEN /\ waiting' = Append(waiting, t)
                /\ UNCHANGED <<running, scope, requests, told, project>>
           ELSE Begin(t) /\ waiting' = waiting
    /\ inbox' = Tail(inbox)
    /\ step' = "dispatching"
    /\ UNCHANGED <<closed, work, video>>

(* Mutant: what a request submitted is not handed to a watcher.            *)
Followed_Never(t) == video

(* watch_started: what the request submitted is followed.                  *)
Followed(t) ==
    IF video[t] = "submitted" THEN [video EXCEPT ![t] = "followed"] ELSE video

(* A request finished: its place is free, its shot comes back and is       *)
(* published, which loads it if the request panicked.                      *)
TakeIn ==
    /\ step = "idle" /\ ~closed
    /\ inbox # <<>> /\ Head(inbox).done
    /\ LET t == Head(inbox).request
       IN  /\ running' = running \ {t}
           /\ shots' = IF on[t] = NoShot THEN shots
                       ELSE Publishing([shots EXCEPT ![on[t]] = copy[t]],
                                       disk, InPlay \cap {on[t]})
           /\ video' = Followed(t)
           /\ told' = told \cup {t}
    /\ inbox' = Tail(inbox)
    /\ step' = "dispatching"
    /\ UNCHANGED <<closed, work, waiting, scope, requests, keys, disk>>

(* recv_timeout runs out; without a video to collect nothing comes of it.  *)
WakeUp ==
    /\ step = "idle" /\ ~closed
    /\ inbox = <<>>
    /\ \E v \in Request : video[v] \in {"ready", "lost"}
    /\ step' = "collecting"
    /\ UNCHANGED <<closed, work, inbox, dispatch, requests, told, project, video>>

Startable == {i \in 1..Len(waiting) : ~MustWait(waiting[i], i - 1)}

(* start_waiting: the first request that need wait no longer, then again   *)
(* from the front of the queue.                                            *)
StartWaiting ==
    /\ step = "dispatching"
    /\ \E i \in Startable :
          /\ \A j \in Startable : i <= j
          /\ Begin(waiting[i])
          /\ waiting' = SubSeq(waiting, 1, i - 1) \o SubSeq(waiting, i + 1, Len(waiting))
    /\ UNCHANGED <<closed, work, inbox, step, video>>

(* Mutant: the queue is not looked at again after what was begun.          *)
StartedAll_Once ==
    /\ step = "dispatching"
    /\ step' = "collecting"
    /\ UNCHANGED <<closed, work, inbox, dispatch, requests, told, project, video>>

StartedAll ==
    /\ step = "dispatching"
    /\ Startable = {}
    /\ step' = "collecting"
    /\ UNCHANGED <<closed, work, inbox, dispatch, requests, told, project, video>>

(* finish_videos: a video is attached to the worker's shot, read from disk *)
(* if it has none; a failed one is retired and the shot read again.        *)
FinishVideo ==
    /\ step = "collecting"
    /\ \E v \in Request :
          LET k == on[v]
              files == [Loaded(k) EXCEPT !.videos = @ \cup {v}]
          IN  \/ /\ video[v] = "ready"
                 /\ disk' = [disk EXCEPT ![k] = files]
                 /\ shots' = [shots EXCEPT ![k] = files]
                 /\ video' = [video EXCEPT ![v] = "attached"]
              \/ /\ video[v] = "lost"
                 /\ disk' = disk
                 /\ shots' = Publishing([shots EXCEPT ![k] = NoShot],
                                        disk, InPlay \cap {k})
                 /\ video' = [video EXCEPT ![v] = "retired"]
    /\ UNCHANGED <<closed, work, inbox, step, dispatch, requests, told, keys>>

(* The iteration ends and the turn is given back.                          *)
Rest ==
    /\ step = "collecting"
    /\ \A v \in Request : video[v] \notin {"ready", "lost"}
    /\ step' = "idle"
    /\ UNCHANGED <<closed, work, inbox, dispatch, requests, told, project, video>>

StopLoop ==
    /\ step = "idle" /\ closed
    /\ step' = "joining"
    /\ UNCHANGED <<closed, work, inbox, dispatch, requests, told, project, video>>

(* Mutant: the watchers are not joined.                                    *)
Joined_RequestsOnly == \A t \in Request : thread[t] \in {"none", "over"}

(* Dispatch::join, then Videos::join.                                      *)
Joined ==
    /\ \A t \in Request : thread[t] \in {"none", "over"}
    /\ \A v \in Request : video[v] # "followed"

(* The project and its writer lock are let go.                             *)
EndSession ==
    /\ step = "joining"
    /\ Joined
    /\ step' = "ended"
    /\ UNCHANGED <<closed, work, inbox, dispatch, requests, told, project, video>>
-----------------------------------------------------------------------------
(* A watcher: the remote task ends, or the session closes first.           *)
Watch(v) ==
    /\ video[v] = "followed"
    /\ \/ video' = [video EXCEPT ![v] = "ready"]
       \/ video' = [video EXCEPT ![v] = "lost"]
       \/ (closed /\ video' = [video EXCEPT ![v] = "left"])
    /\ UNCHANGED <<closed, work, inbox, step, dispatch, requests, told, project>>

WorkerStep ==
    \/ Arrive \/ TakeIn \/ WakeUp
    \/ StartWaiting \/ StartedAll
    \/ FinishVideo \/ Rest
    \/ StopLoop \/ EndSession

RequestStep(t) == Prepare(t) \/ ProviderAnswers(t) \/ Record(t)

Next ==
    \/ \E c \in Command : Submit(c)
    \/ Close
    \/ WorkerStep
    \/ \E t \in Request : RequestStep(t) \/ Watch(t)

Spec == Init /\ [][Next]_vars

(* The worker runs, a provider answers or its call times out, a watched    *)
(* task ends, and a thread that waits for the turn gets it once it stays   *)
(* free: the worker gives the turn back for every wait on its inbox, and a *)
(* bounded number of commands leaves it a bounded number of iterations.    *)
(* Nothing makes the director ask or close.                                *)
Fairness ==
    /\ WF_vars(WorkerStep)
    /\ \A t \in Request : WF_vars(RequestStep(t)) /\ WF_vars(Watch(t))

FairSpec == Spec /\ Fairness
-----------------------------------------------------------------------------
(* Properties.                                                             *)

Given(t) == t <= Len(work)

Begun(t) == (thread[t] # "none") \/ (t \in told)

(* Where a request that has not ended works: a thread on the shot it holds, *)
(* a waiting command on what its place in play names now.                  *)
WorksOn(t) ==
    IF thread[t] # "none" /\ on[t] # NoShot THEN on[t] ELSE ScopeOf(t)

(* Commands about the same thing run one after another in the order they   *)
(* were given, and one about everything runs alone, whatever the plan in   *)
(* force makes of their places meanwhile (native-boundary.md, "Order and   *)
(* the cap").                                                              *)
OneAtATimeInOrder ==
    [][\A b \in Request :
          (Given(b) /\ ~Begun(b) /\ Begun(b)') =>
              \A a \in (1..(b - 1)) \ told : ~Overlaps(WorksOn(a), WorksOn(b))]_vars

(* Between iterations no command waits that could have begun.              *)
NothingWaitsNeedlessly ==
    step = "idle" => \A i \in 1..Len(waiting) : MustWait(waiting[i], i - 1)

(* A shot never has two paid video generations under way: none is being    *)
(* asked for while another is on its way from the request that submitted   *)
(* it to its watcher, is watched, or waits to be attached.                 *)
OneVideoAtATime ==
    \A v, w \in Request :
        (/\ v # w
         /\ video[v] \in {"submitted", "followed", "ready", "lost"}
         /\ thread[w] \in {"calling", "answered"}
         /\ Ask(w) = "videos") => on[v] # on[w]

(* Once the session has let go of the project and its writer lock, no      *)
(* request or watcher of it is left to write: "the project and its writer  *)
(* lock outlive every one of them" (session.rs).                           *)
NothingAfterTheEnd == [][step # "ended"]_<<disk, requests, video, inbox>>

(* A generation or video once recorded in a shot's files stays recorded:   *)
(* "A request records after its call only what is its own or what it reads *)
(* again then" (native-boundary.md), and "A paid video is never thrown     *)
(* away" (shot.rs).                                                        *)
PaidIsKept ==
    [][\A k \in Shot : /\ disk[k].keyframes \subseteq disk'[k].keyframes
                       /\ disk[k].videos \subseteq disk'[k].videos]_vars

(* Every command is answered, unless the session closes first, and closing *)
(* ends, whatever is under way: closing joins every request's thread, and  *)
(* each of them needs the turn to record what it paid for.                 *)
CommandsAreAnswered ==
    /\ \A t \in Request : Given(t) ~> (t \in told \/ closed)
    /\ closed ~> (step = "ended")

(* A submitted video is attached or retired, unless the session closes.    *)
VideosSettle ==
    \A v \in Request : (video[v] = "submitted") ~>
                            (video[v] \in {"attached", "retired"} \/ closed)
=============================================================================
