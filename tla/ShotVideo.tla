------------------------------ MODULE ShotVideo ------------------------------
(***************************************************************************)
(* The videos of one shot, from the paid submission of a take to its       *)
(* record in the shot: crates/kineto-core/src/video.rs, with the session's *)
(* watchers (session.rs) and the job runtime below it.                     *)
(*                                                                         *)
(* A request submits its takes in turn.  What a take's submission came to  *)
(* is known from two files: the intent of the job runtime and a receipt,   *)
(* which is written before the call and holds the provider's task, or the  *)
(* attempt refused.  Takes submitted are followed on threads of their own, *)
(* and attached by the session's worker.  The process may stop between any *)
(* two writes, and any write may fail.                                     *)
(*                                                                         *)
(* Each operation of the runtime on an intent is one step here, as         *)
(* JobRuntime shows it may be taken to be, and so is attaching a take to   *)
(* the shot's files, which ShotPublication takes apart.  Left out are      *)
(* locked videos, other providers, and the checks and the prompt made      *)
(* before anything is written.                                             *)
(***************************************************************************)
EXTENDS Naturals, FiniteSets

CONSTANTS
    Takes,              \* MAX_VIDEO_CANDIDATES
    Works,              \* input hashes: direction, keyframe, notes, branch
    MaxTasks,           \* bounds the tasks the provider makes
    MaxSubmissions,     \* max_attempts of the provider's backoff policy
    MaxVideoRevision,   \* bounds the generations attached
    MaxAsks,            \* bounds the requests
    MaxStops,           \* bounds the process's stops
    Nil

(* A take's artifact ID, which is its job ID: generation and number.       *)
Take == (1..MaxVideoRevision) \X (1..Takes)

(* The provider's tasks, numbered as it makes them.                        *)
TaskIds == 1..MaxTasks

VideoIntent  == [state: {"prepared", "invoked", "reconciled"},
                 attempts: 0..MaxSubmissions, failed: BOOLEAN, hash: Works,
                 task: TaskIds \cup {Nil}]
VideoReceipt == [hash: Works, task: TaskIds \cup {Nil},
                 refused: 0..MaxSubmissions, clip: TaskIds \cup {Nil}]

TakeRecord   == [hash: Works, clip: TaskIds]

ProviderTask == [of: Take, hash: Works, state: {"running", "made", "failed"}]

AskStep == {"look", "forget", "prepare", "write", "count", "invoke", "sent",
            "accepted", "save", "refused", "lost"}

Ask == [revision: 1..MaxVideoRevision, hash: Works, count: 1..Takes,
        consent: BOOLEAN, at: 1..Takes, step: AskStep, task: TaskIds \cup {Nil}]

Watching   == [task: TaskIds, step: {"asking", "fetched", "done", "ended"}]
TakeEnding == [take: Take, step: {"acknowledge", "retire", "remove"}]

ASSUME VideoAssumption ==
    /\ Takes \in Nat \ {0} /\ MaxSubmissions \in Nat \ {0}
    /\ MaxVideoRevision \in Nat /\ MaxAsks \in Nat /\ MaxStops \in Nat
    /\ MaxTasks \in Nat /\ Nil \notin TaskIds
    /\ Nil \notin VideoIntent \cup VideoReceipt \cup TakeRecord \cup ProviderTask
                  \cup Ask \cup Watching \cup TakeEnding

VARIABLES
    videoRevision,  \* the shot's, in shot.json
    takeRecord,     \* artifacts.json
    clipFile,       \* whose bytes a take's media file holds
    videoIntent,    \* .kineto/jobs
    videoReceipt,   \* .kineto/generation
    task,           \* the provider's tasks
    ask,            \* the request under way
    started,        \* the takes it has submitted
    watch,          \* in_flight and the watchers: where each take's is
    finishing,      \* the finished take the worker is at
    videosOpen,     \* whether a session has the project open
    stranded,       \* takes this session has stopped following
    abandoned,      \* tasks the director risked paying twice for
    misread,        \* tasks given up on an error that was not their failure
    videoCount      \* what the bounds count

videoFiles == <<videoRevision, takeRecord, clipFile>>
videoJobs  == <<videoIntent, videoReceipt>>
videoWork  == <<ask, started, watch, finishing, videosOpen, stranded>>
videoPast  == <<abandoned, misread, videoCount>>
videoVars  == <<videoFiles, videoJobs, task, videoWork, videoPast>>

VideoTypeOK ==
    /\ videoRevision \in 0..MaxVideoRevision
    /\ takeRecord \in [Take -> TakeRecord \cup {Nil}]
    /\ clipFile \in [Take -> TaskIds \cup {Nil}]
    /\ videoIntent \in [Take -> VideoIntent \cup {Nil}]
    /\ videoReceipt \in [Take -> VideoReceipt \cup {Nil}]
    /\ task \in [TaskIds -> ProviderTask \cup {Nil}]
    /\ ask \in Ask \cup {Nil} /\ started \subseteq Take
    /\ watch \in [Take -> Watching \cup {Nil}]
    /\ finishing \in TakeEnding \cup {Nil}
    /\ videosOpen \in BOOLEAN /\ stranded \subseteq Take
    /\ abandoned \subseteq TaskIds /\ misread \subseteq TaskIds
    /\ videoCount \in [asks: 0..MaxAsks, stops: 0..MaxStops]

Nothing(S) == [c \in S |-> Nil]

VideoInit ==
    /\ videoRevision = 0
    /\ takeRecord = Nothing(Take) /\ clipFile = Nothing(Take)
    /\ videoIntent = Nothing(Take) /\ videoReceipt = Nothing(Take)
    /\ task = Nothing(TaskIds)
    /\ ask = Nil /\ started = {} /\ watch = Nothing(Take) /\ finishing = Nil
    /\ videosOpen = TRUE /\ stranded = {}
    /\ abandoned = {} /\ misread = {}
    /\ videoCount = [asks |-> 0, stops |-> 0]
-----------------------------------------------------------------------------
VideoIs(c, state) == videoIntent[c] # Nil /\ videoIntent[c].state = state

(* accepted_task: the task the provider accepted for this very input.      *)
AcceptedTask(c, hash) ==
    IF videoReceipt[c] # Nil /\ videoReceipt[c].hash = hash
    THEN videoReceipt[c].task ELSE Nil

RefusedLast(c) ==
    /\ videoReceipt[c] # Nil /\ videoReceipt[c].hash = videoIntent[c].hash
    /\ videoReceipt[c].refused = videoIntent[c].attempts

(* How the last submission of a prepared take ended.                       *)
LastAttempt(c) ==
    CASE videoIntent[c].attempts = 0 -> "none"
      [] videoIntent[c].attempts > 0 /\ AcceptedTask(c, videoIntent[c].hash) # Nil
            -> "accepted"
      [] videoIntent[c].attempts > 0 /\ AcceptedTask(c, videoIntent[c].hash) = Nil
            -> IF RefusedLast(c) THEN "refused" ELSE "unresolved"

(* A task that may still be, or has been, charged.                         *)
MayCharge(t) == task[t] # Nil /\ task[t].state # "failed"

TasksOf(c) == {t \in TaskIds : MayCharge(t) /\ task[t].of = c}
-----------------------------------------------------------------------------
(* A request, on a thread of its own: start_videos, submit_one.            *)

FollowsTake == \E c \in Take : watch[c] # Nil

(* Refused while a video of the shot is being followed.                    *)
AskVideos(count, hash, consent) ==
    /\ videosOpen /\ ask = Nil /\ finishing = Nil /\ ~FollowsTake
    /\ videoRevision < MaxVideoRevision
    /\ videoCount.asks < MaxAsks
    /\ ask' = [revision |-> videoRevision + 1, hash |-> hash, count |-> count,
               consent |-> consent, at |-> 1, step |-> "look", task |-> Nil]
    /\ videoCount' = [videoCount EXCEPT !.asks = @ + 1]
    /\ UNCHANGED <<videoFiles, videoJobs, task, started, watch, finishing, videosOpen,
                   stranded, abandoned, misread>>

Asked == <<ask.revision, ask.at>>

At(step) == ask # Nil /\ ask.step = step

Step(next) == ask' = [ask EXCEPT !.step = next] /\ UNCHANGED <<started, watch>>

(* Mutant: a failed take's error takes those before it along.              *)
FollowStarted_Dropped(S) == watch

(* watch_started: the takes submitted are followed, whatever ended the     *)
(* request.                                                                *)
FollowStarted(S) ==
    [c \in Take |-> IF c \in S THEN [task |-> videoIntent[c].task, step |-> "asking"]
                    ELSE watch[c]]

StopAsking == ask' = Nil /\ started' = {} /\ watch' = FollowStarted(started)

(* The take is submitted: on to the next one, if any.                      *)
Submitted(c, t) ==
    IF ask.at < ask.count
    THEN /\ ask' = [ask EXCEPT !.at = @ + 1, !.step = "look", !.task = Nil]
         /\ started' = started \cup {c} /\ watch' = watch
    ELSE /\ ask' = Nil /\ started' = {}
         /\ watch' = [FollowStarted(started) EXCEPT ![c] = [task |-> t, step |-> "asking"]]

AskKeeps == UNCHANGED <<videoFiles, finishing, videosOpen, stranded, misread, videoCount>>

(* Mutant: a take that may have been charged is given up unasked.          *)
MayRetire_Unasked(c) == LastAttempt(c) = "unresolved"

MayRetire(c) == LastAttempt(c) = "unresolved" /\ ask.consent

(* What an earlier attempt of the take left is given up, kept, or refused. *)
LookAtTake ==
    /\ At("look")
    /\ LET c == Asked
       IN  \/ /\ \/ ~VideoIs(c, "prepared")
                 \/ /\ VideoIs(c, "prepared")
                    /\ \/ LastAttempt(c) = "accepted"
                       \/ LastAttempt(c) = "none" /\ videoIntent[c].hash = ask.hash
                       \/ LastAttempt(c) = "refused" /\ ~videoIntent[c].failed
              /\ Step("prepare")
              /\ UNCHANGED <<videoIntent, abandoned>>
           \/ /\ VideoIs(c, "prepared")
              /\ \/ LastAttempt(c) = "none" /\ videoIntent[c].hash # ask.hash
                 \/ LastAttempt(c) = "refused" /\ videoIntent[c].failed
                 \/ MayRetire(c)
              /\ videoIntent' = [videoIntent EXCEPT ![c] = Nil]
              /\ abandoned' = IF LastAttempt(c) = "unresolved" /\ ask.consent
                              THEN abandoned \cup TasksOf(c) ELSE abandoned
              /\ Step("forget")
           \/ /\ VideoIs(c, "prepared") /\ LastAttempt(c) = "unresolved" /\ ~MayRetire(c)
              /\ StopAsking
              /\ UNCHANGED <<videoIntent, abandoned>>
    /\ AskKeeps /\ UNCHANGED <<videoReceipt, task>>

(* remove_receipt, best effort.                                            *)
ForgetReceipt ==
    /\ At("forget")
    /\ \/ videoReceipt' = [videoReceipt EXCEPT ![Asked] = Nil]
       \/ UNCHANGED videoReceipt
    /\ Step("prepare")
    /\ AskKeeps /\ UNCHANGED <<videoIntent, task, abandoned>>

(* A take of another input, or attached already, ends the request; one     *)
(* submitted already is followed.                                          *)
PrepareTake ==
    /\ At("prepare")
    /\ LET c == Asked
           other == videoIntent[c] # Nil /\ videoIntent[c].hash # ask.hash
       IN  \/ /\ videoIntent[c] = Nil
              /\ videoIntent' = [videoIntent EXCEPT ![c] =
                    [state |-> "prepared", attempts |-> 0, failed |-> FALSE,
                     hash |-> ask.hash, task |-> Nil]]
              /\ Step("write")
           \/ /\ VideoIs(c, "prepared") /\ ~other
              /\ Step("write")
              /\ UNCHANGED videoIntent
           \/ /\ VideoIs(c, "invoked") /\ ~other
              /\ Submitted(c, videoIntent[c].task)
              /\ UNCHANGED videoIntent
           \/ /\ other \/ VideoIs(c, "reconciled")
              /\ StopAsking
              /\ UNCHANGED videoIntent
    /\ AskKeeps /\ UNCHANGED <<videoReceipt, task, abandoned>>

(* Mutant: the receipt is written whatever it holds.                       *)
KeepsTask_Never(c) == FALSE

(* A receipt that holds an accepted task is kept.                          *)
KeepsTask(c) == AcceptedTask(c, ask.hash) # Nil

WriteReceipt ==
    /\ At("write")
    /\ videoReceipt' = IF KeepsTask(Asked) THEN videoReceipt
                       ELSE [videoReceipt EXCEPT ![Asked] =
                                [hash |-> ask.hash, task |-> Nil, refused |-> 0, clip |-> Nil]]
    /\ Step("count")
    /\ AskKeeps /\ UNCHANGED <<videoIntent, task, abandoned>>

(* A store or a file that cannot be read or written ends the request.      *)
AskFails ==
    /\ \/ At("look") \/ At("prepare") \/ At("write") \/ At("count") \/ At("save")
    /\ StopAsking
    /\ AskKeeps /\ UNCHANGED <<videoJobs, task, abandoned>>

(* invoke_prepared counts the attempt before the adapter is called.        *)
CountSubmission ==
    /\ At("count")
    /\ videoIntent[Asked].attempts < MaxSubmissions
    /\ videoIntent' = [videoIntent EXCEPT ![Asked].attempts = @ + 1, ![Asked].failed = FALSE]
    /\ Step("invoke")
    /\ AskKeeps /\ UNCHANGED <<videoReceipt, task, abandoned>>

(* Submit::invoke: a task accepted earlier is followed instead of paying.  *)
InvokeTake ==
    /\ At("invoke")
    /\ LET t == AcceptedTask(Asked, ask.hash)
       IN  ask' = [ask EXCEPT !.task = t, !.step = IF t # Nil THEN "save" ELSE "sent"]
    /\ UNCHANGED <<started, watch>>
    /\ AskKeeps /\ UNCHANGED <<videoJobs, task, abandoned>>

NewTask(t) ==
    /\ task[t] = Nil /\ \A s \in TaskIds : s < t => task[s] # Nil
    /\ task' = [task EXCEPT ![t] = [of |-> Asked, hash |-> ask.hash, state |-> "running"]]

TaskAccepted(t) ==
    /\ At("sent") /\ NewTask(t)
    /\ ask' = [ask EXCEPT !.task = t, !.step = "accepted"]
    /\ UNCHANGED <<started, watch>>
    /\ AskKeeps /\ UNCHANGED <<videoJobs, abandoned>>

(* The provider certainly did not accept; writing that down may fail.      *)
TaskRefused ==
    /\ At("sent")
    /\ \/ videoReceipt' = [videoReceipt EXCEPT ![Asked].refused = videoIntent[Asked].attempts]
       \/ UNCHANGED videoReceipt
    /\ Step("refused")
    /\ AskKeeps /\ UNCHANGED <<videoIntent, task, abandoned>>

(* The answer never comes, accepted or not.                                *)
AnswerLost ==
    /\ At("sent")
    /\ (\E t \in TaskIds : NewTask(t)) \/ UNCHANGED task
    /\ Step("lost")
    /\ AskKeeps /\ UNCHANGED <<videoJobs, abandoned>>

(* record_task, whose failure is not heeded: the intent is the other       *)
(* record.                                                                 *)
RecordTask ==
    /\ At("accepted")
    /\ \/ videoReceipt' = [videoReceipt EXCEPT ![Asked].task = ask.task]
       \/ UNCHANGED videoReceipt
    /\ Step("save")
    /\ AskKeeps /\ UNCHANGED <<videoIntent, task, abandoned>>

SaveInvoked ==
    /\ At("save")
    /\ videoIntent' = [videoIntent EXCEPT ![Asked].state = "invoked",
                                          ![Asked].task = ask.task]
    /\ Submitted(Asked, ask.task)
    /\ AskKeeps /\ UNCHANGED <<videoReceipt, task, abandoned>>

SaveFailure ==
    /\ At("refused") \/ At("lost")
    /\ \/ videoIntent' = [videoIntent EXCEPT ![Asked].failed = TRUE]
       \/ UNCHANGED videoIntent
    /\ StopAsking
    /\ AskKeeps /\ UNCHANGED <<videoReceipt, task, abandoned>>
-----------------------------------------------------------------------------
(* The provider.                                                           *)

TaskEnds(t, how) ==
    /\ task[t] # Nil /\ task[t].state = "running"
    /\ task' = [task EXCEPT ![t].state = how]
    /\ UNCHANGED <<videoFiles, videoJobs, videoWork, videoPast>>
-----------------------------------------------------------------------------
(* The watchers, one to a take: watch, fetch.                              *)

Watches(c, from, to) ==
    /\ watch[c] # Nil /\ watch[c].step = from
    /\ watch' = [watch EXCEPT ![c].step = to]
    /\ UNCHANGED <<videoRevision, takeRecord, videoIntent, task, ask, started, finishing,
                   videosOpen, stranded, abandoned, videoCount>>

FetchClip(c) ==
    /\ Watches(c, "asking", "fetched")
    /\ task[watch[c].task].state = "made"
    /\ clipFile' = [clipFile EXCEPT ![c] = watch[c].task]
    /\ UNCHANGED <<videoReceipt, misread>>

(* The clip's hash is noted in the receipt; if that cannot be written, the *)
(* provider is asked again, which is free.                                 *)
NoteClip(c) ==
    /\ videoReceipt[c] # Nil
    /\ \/ /\ Watches(c, "fetched", "done")
          /\ videoReceipt' = [videoReceipt EXCEPT ![c].clip = watch[c].task]
       \/ /\ Watches(c, "fetched", "asking")
          /\ UNCHANGED videoReceipt
    /\ UNCHANGED <<clipFile, misread>>

(* An error that is not for asking again ends the following: the task's    *)
(* failure, but also a key refused, a download refused, or a receipt that  *)
(* cannot be read.                                                         *)
StopWatching(c) ==
    /\ Watches(c, "asking", "ended") \/ Watches(c, "fetched", "ended")
    /\ misread' = IF MayCharge(watch[c].task) THEN misread \cup {watch[c].task} ELSE misread
    /\ UNCHANGED <<clipFile, videoReceipt>>
-----------------------------------------------------------------------------
(* The worker: finish_videos, video::finish.                               *)

WorkerKeeps == UNCHANGED <<task, ask, started, videosOpen, abandoned, misread, videoCount>>

Unwatch(c) == watch' = [watch EXCEPT ![c] = Nil]

(* Stopped short: the take is followed no more in this session.            *)
Strand(c) == finishing' = Nil /\ stranded' = stranded \cup {c}

(* attach_video: a newer generation becomes the shot's, a late take does   *)
(* not; a take attached before must be the same.                           *)
AttachTake(c) ==
    /\ watch[c] # Nil /\ watch[c].step = "done" /\ finishing = Nil
    /\ Unwatch(c)
    /\ \/ /\ videoReceipt[c] # Nil /\ videoReceipt[c].clip # Nil
          /\ videoReceipt[c].clip = clipFile[c]
          /\ c[1] <= videoRevision + 1
          /\ LET made == [hash |-> videoReceipt[c].hash, clip |-> clipFile[c]]
             IN  /\ takeRecord[c] \in {Nil, made}
                 /\ takeRecord' = [takeRecord EXCEPT ![c] = made]
                 /\ videoRevision' = IF takeRecord[c] = Nil /\ c[1] > videoRevision
                                     THEN c[1] ELSE videoRevision
          /\ finishing' = [take |-> c, step |-> "acknowledge"]
          /\ UNCHANGED stranded
       \/ Strand(c) /\ UNCHANGED <<videoRevision, takeRecord>>
    /\ WorkerKeeps /\ UNCHANGED <<clipFile, videoJobs>>

FailTake(c) ==
    /\ watch[c] # Nil /\ watch[c].step = "ended" /\ finishing = Nil
    /\ Unwatch(c)
    /\ finishing' = [take |-> c, step |-> "retire"]
    /\ WorkerKeeps /\ UNCHANGED <<videoFiles, videoJobs, stranded>>

Finishing(step) == finishing # Nil /\ finishing.step = step

Finish(next) == finishing' = [finishing EXCEPT !.step = next] /\ UNCHANGED stranded

AcknowledgeTake ==
    /\ Finishing("acknowledge")
    /\ \/ /\ VideoIs(finishing.take, "invoked")
          /\ videoIntent' = [videoIntent EXCEPT ![finishing.take].state = "reconciled"]
          /\ Finish("remove")
       \/ Strand(finishing.take) /\ UNCHANGED videoIntent
    /\ WorkerKeeps /\ UNCHANGED <<videoFiles, videoReceipt, watch>>

RetireRemoteFailure ==
    /\ Finishing("retire")
    /\ \/ /\ videoIntent' = [videoIntent EXCEPT ![finishing.take] =
                                IF VideoIs(finishing.take, "invoked") THEN Nil ELSE @]
          /\ Finish("remove")
       \/ Strand(finishing.take) /\ UNCHANGED videoIntent
    /\ WorkerKeeps /\ UNCHANGED <<videoFiles, videoReceipt, watch>>

RemoveReceipt ==
    /\ Finishing("remove")
    /\ \/ videoReceipt' = [videoReceipt EXCEPT ![finishing.take] = Nil]
       \/ UNCHANGED videoReceipt
    /\ finishing' = Nil
    /\ WorkerKeeps /\ UNCHANGED <<videoFiles, videoIntent, watch, stranded>>
-----------------------------------------------------------------------------
(* Stopping and opening again.                                             *)

StopVideos ==
    /\ videosOpen
    /\ videoCount.stops < MaxStops
    /\ videoCount' = [videoCount EXCEPT !.stops = @ + 1]
    /\ videosOpen' = FALSE
    /\ ask' = Nil /\ started' = {} /\ watch' = Nothing(Take) /\ finishing' = Nil
    /\ stranded' = {}
    /\ UNCHANGED <<videoFiles, videoJobs, task, abandoned, misread>>

(* A prepared take whose receipt holds its task was accepted.              *)
FoundAccepted(S) ==
    [c \in Take |->
        IF c \in S /\ VideoIs(c, "prepared") /\ AcceptedTask(c, videoIntent[c].hash) # Nil
        THEN [videoIntent[c] EXCEPT !.state = "invoked", !.failed = FALSE,
                                    !.task = AcceptedTask(c, videoIntent[c].hash)]
        ELSE videoIntent[c]]

InvokedIn(intents) == {c \in Take : intents[c] # Nil /\ intents[c].state = "invoked"}

(* in_flight and resume_videos: what was accepted is followed again; if    *)
(* the runtime fails half way, nothing is.                                 *)
OpenVideos ==
    /\ ~videosOpen
    /\ videosOpen' = TRUE
    /\ \/ /\ videoIntent' = FoundAccepted(Take)
          /\ watch' = [c \in Take |->
                IF c \in InvokedIn(videoIntent')
                THEN [task |-> videoIntent'[c].task, step |-> "asking"] ELSE Nil]
          /\ UNCHANGED stranded
       \/ /\ \E S \in SUBSET Take : videoIntent' = FoundAccepted(S)
          /\ stranded' = InvokedIn(videoIntent')
          /\ UNCHANGED watch
    /\ UNCHANGED <<videoFiles, videoReceipt, task, ask, started, finishing, videoPast>>
-----------------------------------------------------------------------------
AskSteps ==
    \/ LookAtTake \/ ForgetReceipt \/ PrepareTake \/ WriteReceipt \/ AskFails
    \/ CountSubmission \/ InvokeTake
    \/ \E t \in TaskIds : TaskAccepted(t)
    \/ TaskRefused \/ AnswerLost \/ RecordTask \/ SaveInvoked \/ SaveFailure

WorkerSteps ==
    \/ \E c \in Take : AttachTake(c) \/ FailTake(c)
    \/ AcknowledgeTake \/ RetireRemoteFailure \/ RemoveReceipt

VideoNext ==
    \/ \E count \in 1..Takes, hash \in Works, consent \in BOOLEAN :
          AskVideos(count, hash, consent)
    \/ AskSteps
    \/ \E t \in TaskIds, how \in {"made", "failed"} : TaskEnds(t, how)
    \/ \E c \in Take : FetchClip(c) \/ NoteClip(c) \/ StopWatching(c)
    \/ WorkerSteps
    \/ StopVideos \/ OpenVideos

VideoSpec == VideoInit /\ [][VideoNext]_videoVars
-----------------------------------------------------------------------------
(* Properties.                                                             *)

KnownTask(c, t) ==
    \/ takeRecord[c] # Nil /\ takeRecord[c].clip = t
    \/ videoIntent[c] # Nil /\ videoIntent[c].task = t
    \/ VideoIs(c, "prepared")
        /\ \/ AcceptedTask(c, videoIntent[c].hash) = t
           \/ LastAttempt(c) = "unresolved"
    \/ ask # Nil /\ Asked = c

(* No take is paid for twice, and none that may be charged is lost sight   *)
(* of: among the tasks a take was given at most one may be charged, but    *)
(* for those the director chose to risk and those the watcher gave up      *)
(* though they had not failed; and that one the shot has, or its job or    *)
(* receipt names, or only the director can have the take submitted again.  *)
(* Crashes, failed writes, refusals and other inputs for the same take do  *)
(* not change that.  "Those already submitted are followed" (video.rs),    *)
(* whatever became of the others of the request; only one whose attachment *)
(* failed, or whose open failed, waits for the next open.                  *)
VideoIsPaidOnceAndFollowed ==
    /\ \A c \in Take :
          LET charged == TasksOf(c) \ (abandoned \cup misread)
          IN  Cardinality(charged) <= 1 /\ \A t \in charged : KnownTask(c, t)
    /\ videosOpen /\ ask = Nil =>
          \A c \in Take : VideoIs(c, "invoked") =>
              \/ watch[c] # Nil /\ watch[c].task = videoIntent[c].task
              \/ finishing # Nil /\ finishing.take = c
              \/ c \in stranded

(* "From then on the video is paid for and is never submitted again"       *)
(* (video.rs, of a task the receipt holds): a take whose task has not      *)
(* failed is not given another, unless the director risked it.             *)
PaidIsNeverSubmittedAgain ==
    \A c \in Take : Cardinality(TasksOf(c) \ abandoned) <= 1
=============================================================================
