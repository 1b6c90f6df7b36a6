------------------------- MODULE KeyframeGeneration -------------------------
(***************************************************************************)
(* The keyframe generations of one shot,                                   *)
(* crates/kineto-core/src/generation.rs with the MiniMax adapter of        *)
(* minimax.rs, over the job runtime and the shot's files.                  *)
(*                                                                         *)
(* A generation prepares an intent for every candidate, calls the provider *)
(* for those not answered yet, attaches all candidates at once and         *)
(* acknowledges them.  An answer is kept in a receipt before the intent    *)
(* says so, a refusal in a file of its own.  The process may stop between  *)
(* any two writes; the next open finishes what was answered and calls no   *)
(* one.                                                                    *)
(*                                                                         *)
(* Each operation of the runtime on an intent is one step here, as         *)
(* JobRuntime shows it may be taken to be, and so is the publication of    *)
(* the three files of the shot.  The input hash of a keyframe covers the   *)
(* shot's direction, not the rest of its intent: the two are told apart.   *)
(* Left out are locking and resetting the shot, other providers, and the   *)
(* checks made before anything is written.                                 *)
(***************************************************************************)
EXTENDS Naturals, FiniteSets

CONSTANTS
    Candidates,         \* GENERATED_CANDIDATE_COUNT
    Directions,         \* what the input hash covers
    Details,            \* the rest of the intent, which a plan may rewrite
    FirstBrief,
    MaxAttempts,        \* max_attempts of the provider's backoff policy
    MaxRevision,        \* bounds the generations attached
    MaxGenerations,     \* bounds the generations asked for
    MaxChanges,         \* bounds the changes of the intent
    MaxCrashes,
    None

Slot  == 1..Candidates
Brief == [direction: Directions, detail: Details]

(* A candidate's artifact ID, which is its job ID: revision and index.     *)
Candidate == (1..MaxRevision) \X Slot

Intent  == [state: {"prepared", "invoked", "reconciled"},
            attempts: 0..MaxAttempts, failed: BOOLEAN, hash: Directions]
Receipt == [hash: Directions, made: Brief]
Record  == [hash: Directions, made: Brief, noted: Brief]

(* What a run works at; recovery has compiled no prompt.                   *)
Plan == [revision: 1..MaxRevision, hash: Directions, asked: Brief \cup {None}]

ASSUME GenerationAssumption ==
    /\ Candidates \in Nat \ {0}
    /\ FirstBrief \in Brief
    /\ MaxAttempts \in Nat \ {0}
    /\ MaxRevision \in Nat /\ MaxGenerations \in Nat
    /\ MaxChanges \in Nat /\ MaxCrashes \in Nat
    /\ None \notin Intent \cup Receipt \cup Record \cup Plan \cup Brief \cup Directions

VARIABLES
    brief,          \* the shot's intent, in shot.json
    revision,       \* its generation_revision
    record,         \* artifacts.json
    intent,         \* .kineto/jobs
    receipt,        \* .kineto/generation
    refusal,        \* the input hash of the call refused
    phase,          \* where the run under way is
    plan,           \* what it works at
    left,           \* the candidates its phase has yet to see
    call,           \* where each candidate's provider call is
    todo,           \* the interrupted generations an open has yet to finish
    outcome,        \* how the last run ended
    charged,        \* how often the provider accepted a call for a candidate
    consented,      \* how often the director risked paying twice for it
    asked, changed, crashed     \* what the bounds count

shot  == <<brief, revision, record>>
jobs  == <<intent, receipt, refusal>>
run   == <<phase, plan, left, call>>
count == <<asked, changed, crashed>>
vars  == <<shot, jobs, run, todo, outcome, charged, consented, count>>

CallState == {"none", "start", "counted", "sent", "accepted", "kept",
              "refused", "lost", "broken", "done", "error", "unresolved"}

TypeOK ==
    /\ brief \in Brief /\ revision \in 0..MaxRevision
    /\ record \in [Candidate -> Record \cup {None}]
    /\ intent \in [Candidate -> Intent \cup {None}]
    /\ receipt \in [Candidate -> Receipt \cup {None}]
    /\ refusal \in [Candidate -> Directions \cup {None}]
    /\ phase \in {"idle", "retiring", "preparing", "prepared", "calling",
                  "acknowledging", "closed"}
    /\ plan \in Plan \cup {None}
    /\ left \subseteq Slot
    /\ call \in [Slot -> CallState]
    /\ todo \subseteq Plan
    /\ outcome \in {"none", "attached", "unresolved", "failed", "blocked", "needs_call"}
    /\ charged \in [Candidate -> Nat] /\ consented \in [Candidate -> Nat]
    /\ asked \in 0..MaxGenerations /\ changed \in 0..MaxChanges
    /\ crashed \in 0..MaxCrashes

Quiet == [i \in Slot |-> "none"]

Init ==
    /\ brief = FirstBrief /\ revision = 0
    /\ record = [c \in Candidate |-> None]
    /\ intent = [c \in Candidate |-> None]
    /\ receipt = [c \in Candidate |-> None]
    /\ refusal = [c \in Candidate |-> None]
    /\ phase = "idle" /\ plan = None /\ left = {} /\ call = Quiet
    /\ todo = {} /\ outcome = "none"
    /\ charged = [c \in Candidate |-> 0]
    /\ consented = [c \in Candidate |-> 0]
    /\ asked = 0 /\ changed = 0 /\ crashed = 0
-----------------------------------------------------------------------------
Id(i) == <<plan.revision, i>>

Recovering == plan.asked = None

Is(c, state) == intent[c] # None /\ intent[c].state = state

(* Mutant: whatever answer is there is taken for the candidate's.          *)
Kept_AnyWork(c, hash) == receipt[c] # None

(* candidate_from_receipt: an answer kept for this very work.              *)
Kept(c, hash) == receipt[c] # None /\ receipt[c].hash = hash

(* may_call_again: a kept answer is used without a call, and a refusal     *)
(* proves that nothing was charged.                                        *)
MayCallAgain(c) == receipt[c] # None \/ refusal[c] = intent[c].hash

Unresolved(c) == Is(c, "prepared") /\ intent[c].attempts > 0 /\ ~MayCallAgain(c)

End(how) ==
    /\ phase' = "idle" /\ plan' = None /\ left' = {} /\ call' = Quiet
    /\ outcome' = how

Enter(next, slots) == phase' = next /\ left' = slots /\ UNCHANGED <<plan, call, outcome>>

(* The candidates are seen in order.                                       *)
Turn(i) == i \in left /\ \A j \in left : i <= j
-----------------------------------------------------------------------------
(* The director.                                                           *)

(* A direction set, or a plan locked that rewrites the shot's intent.      *)
ChangeBrief(b) ==
    /\ phase = "idle" /\ todo = {}
    /\ b # brief
    /\ changed < MaxChanges
    /\ brief' = b
    /\ changed' = changed + 1
    /\ UNCHANGED <<revision, record, jobs, run, todo, outcome, charged, consented,
                   asked, crashed>>

(* generate_noted: refused, or begun by giving up what is unresolved.      *)
Generate(consent) ==
    /\ phase = "idle" /\ todo = {}
    /\ revision < MaxRevision
    /\ asked < MaxGenerations
    /\ asked' = asked + 1
    /\ LET unresolved == {i \in Slot : Unresolved(<<revision + 1, i>>)}
       IN  \/ /\ unresolved # {} /\ ~consent
              /\ outcome' = "unresolved"
              /\ UNCHANGED run
           \/ /\ unresolved = {} \/ consent
              /\ plan' = [revision |-> revision + 1, hash |-> brief.direction,
                          asked |-> brief]
              /\ phase' = "retiring" /\ left' = unresolved
              /\ UNCHANGED <<call, outcome>>
    /\ UNCHANGED <<shot, jobs, todo, charged, consented, changed, crashed>>

RetireUnresolved(i) ==
    /\ phase = "retiring" /\ Turn(i)
    /\ intent' = [intent EXCEPT ![Id(i)] = None]
    /\ consented' = [consented EXCEPT ![Id(i)] = @ + 1]
    /\ Enter("retiring", left \ {i})
    /\ UNCHANGED <<shot, receipt, refusal, todo, charged, count>>

RetiredAll ==
    /\ phase = "retiring" /\ left = {}
    /\ Enter("preparing", Slot)
    /\ UNCHANGED <<shot, jobs, todo, charged, consented, count>>
-----------------------------------------------------------------------------
(* complete_inner: the intents.                                            *)

MustRetire(i) == ~Recovering /\ intent[Id(i)] # None /\ intent[Id(i)].failed

RetireFailed(i) ==
    /\ phase = "preparing" /\ Turn(i)
    /\ MustRetire(i)
    /\ intent' = [intent EXCEPT ![Id(i)] = None]
    /\ UNCHANGED <<shot, receipt, refusal, run, todo, outcome, charged, consented, count>>

(* Mutant: an intent of the same candidate is taken whatever it is for.    *)
OtherWork_Never(i) == FALSE

(* An intent of the same candidate for another input.                      *)
OtherWork(i) == intent[Id(i)] # None /\ intent[Id(i)].hash # plan.hash

Prepare(i) ==
    /\ phase = "preparing" /\ Turn(i)
    /\ ~MustRetire(i)
    /\ IF OtherWork(i)
       THEN End("blocked") /\ intent' = intent
       ELSE /\ Enter("preparing", left \ {i})
            /\ intent' = IF intent[Id(i)] # None THEN intent
                         ELSE [intent EXCEPT ![Id(i)] =
                                  [state |-> "prepared", attempts |-> 0,
                                   failed |-> FALSE, hash |-> plan.hash]]
    /\ UNCHANGED <<shot, receipt, refusal, todo, charged, consented, count>>

PreparedAll ==
    /\ phase = "preparing" /\ left = {}
    /\ Enter("prepared", {})
    /\ UNCHANGED <<shot, jobs, todo, charged, consented, count>>

Attached == revision >= plan.revision /\ \A i \in Slot : record[Id(i)] # None

(* check_attached, on what the answered candidates' receipts hold.         *)
Checked ==
    \A i \in Slot : Is(Id(i), "invoked") =>
        /\ Kept(Id(i), plan.hash)
        /\ record[Id(i)].hash = plan.hash
        /\ record[Id(i)].made = receipt[Id(i)].made

(* Attached before: only the acknowledgements are missing.  Otherwise the  *)
(* prepared candidates are called for, which recovery may not do, and the  *)
(* others' answers are read.                                               *)
Begin ==
    /\ phase = "prepared"
    /\ IF Attached
       THEN IF Checked THEN Enter("acknowledging", Slot) ELSE End("failed")
       ELSE IF Recovering /\ \E i \in Slot : Is(Id(i), "prepared")
       THEN End("needs_call")
       ELSE /\ phase' = "calling"
            /\ call' = [i \in Slot |-> IF Is(Id(i), "prepared") THEN "start"
                                       ELSE IF Kept(Id(i), plan.hash) THEN "done"
                                       ELSE "error"]
            /\ UNCHANGED <<plan, left, outcome>>
    /\ UNCHANGED <<shot, jobs, todo, charged, consented, count>>
-----------------------------------------------------------------------------
(* The calls, each on a thread of its own: MinimaxKeyframes::invoke within *)
(* JobRuntime::invoke_prepared.                                            *)

Calls(i, from, to) ==
    /\ phase = "calling" /\ call[i] = from
    /\ call' = [call EXCEPT ![i] = to]
    /\ UNCHANGED <<shot, phase, plan, left, todo, outcome, consented, count>>

(* Mutant: one attempt too many.                                           *)
Exhausted_Late(c) == intent[c].attempts > MaxAttempts

Exhausted(c) == intent[c].attempts >= MaxAttempts

(* The attempt is counted before anything is sent.                         *)
CountAttempt(i) ==
    \/ /\ Calls(i, "start", "counted")
       /\ ~Exhausted(Id(i))
       /\ intent' = [intent EXCEPT ![Id(i)].attempts = @ + 1, ![Id(i)].failed = FALSE]
       /\ UNCHANGED <<receipt, refusal, charged>>
    \/ /\ Calls(i, "start", "error")
       /\ Exhausted(Id(i))
       /\ UNCHANGED <<jobs, charged>>

(* A kept answer is used without a call.                                   *)
UseReceipt(i) ==
    /\ \/ Calls(i, "counted", "kept") /\ Kept(Id(i), plan.hash)
       \/ Calls(i, "counted", "broken") /\ receipt[Id(i)] # None /\ ~Kept(Id(i), plan.hash)
    /\ UNCHANGED <<jobs, charged>>

(* Mutant: the proof of an earlier refusal is left for a new call.         *)
ClearRefusal_Skipped(c) == refusal

(* A refusal speaks for its own call only.                                 *)
ClearRefusal(c) == [refusal EXCEPT ![c] = None]

(* Nothing is sent while the proof of an earlier refusal is still there.   *)
Send(i) ==
    /\ \/ /\ Calls(i, "counted", "sent")
          /\ refusal' = ClearRefusal(Id(i))
       \/ /\ Calls(i, "counted", "refused")
          /\ refusal[Id(i)] # None
          /\ UNCHANGED refusal
    /\ receipt[Id(i)] = None
    /\ UNCHANGED <<intent, receipt, charged>>

ProviderAccepts(i) ==
    /\ Calls(i, "sent", "accepted")
    /\ charged' = [charged EXCEPT ![Id(i)] = @ + 1]
    /\ UNCHANGED jobs

(* The refusal may fail to be written.                                     *)
ProviderRefuses(i) ==
    \/ /\ Calls(i, "sent", "refused")
       /\ refusal' = [refusal EXCEPT ![Id(i)] = plan.hash]
       /\ UNCHANGED <<intent, receipt, charged>>
    \/ /\ Calls(i, "sent", "refused")
       /\ UNCHANGED <<jobs, charged>>

(* A timeout, a malformed answer, or a file that cannot be written; or the *)
(* keyframe kept cannot be read back.                                      *)
LoseAnswer(i) ==
    /\ \/ Calls(i, "sent", "lost")
       \/ Calls(i, "accepted", "lost")
       \/ Calls(i, "kept", "broken")
    /\ UNCHANGED <<jobs, charged>>

(* The keyframe and its receipt are written.                               *)
KeepAnswer(i) ==
    /\ Calls(i, "accepted", "kept")
    /\ receipt' = [receipt EXCEPT ![Id(i)] = [hash |-> plan.hash, made |-> plan.asked]]
    /\ UNCHANGED <<intent, refusal, charged>>

(* The intent is saved as invoked, or the write fails.                     *)
RecordAnswer(i) ==
    \/ /\ Calls(i, "kept", "done")
       /\ intent' = [intent EXCEPT ![Id(i)].state = "invoked"]
       /\ UNCHANGED <<receipt, refusal, charged>>
    \/ /\ Calls(i, "kept", "error")
       /\ UNCHANGED <<jobs, charged>>

(* The failure is saved with the intent, or that fails too.  What may have *)
(* been charged is unresolved.                                             *)
RecordFailure(i) ==
    \E from \in {"refused", "lost", "broken"} :
        \/ /\ Calls(i, from, IF from = "refused" THEN "error" ELSE "unresolved")
           /\ intent' = [intent EXCEPT ![Id(i)].failed = TRUE]
           /\ UNCHANGED <<receipt, refusal, charged>>
        \/ /\ Calls(i, from, "error")
           /\ UNCHANGED <<jobs, charged>>

(* All candidates are attached, or none.                                   *)
Settle == \A i \in Slot : call[i] = "done"

(* attach_generation notes the shot's intent as it is now.                 *)
AttachGeneration ==
    /\ record' = [c \in Candidate |->
                    IF c[1] = plan.revision
                    THEN [hash |-> plan.hash, made |-> receipt[c].made, noted |-> brief]
                    ELSE record[c]]
    /\ revision' = plan.revision
    /\ brief' = brief

CallsEnd ==
    /\ phase = "calling"
    /\ \A i \in Slot : call[i] \in {"done", "error", "unresolved"}
    /\ \/ /\ \E i \in Slot : call[i] = "unresolved"
          /\ End("unresolved") /\ UNCHANGED shot
       \/ /\ \A i \in Slot : call[i] # "unresolved"
          /\ ~Settle \/ revision + 1 # plan.revision
          /\ End("failed") /\ UNCHANGED shot
       \/ /\ Settle /\ revision + 1 = plan.revision
          /\ AttachGeneration
          /\ Enter("acknowledging", Slot)
    /\ UNCHANGED <<jobs, todo, charged, consented, count>>
-----------------------------------------------------------------------------
(* The acknowledgements, in order, each before its answer is released.     *)

AcknowledgeResult(i) ==
    /\ phase = "acknowledging" /\ Turn(i)
    /\ Is(Id(i), "invoked")
    /\ intent' = [intent EXCEPT ![Id(i)].state = "reconciled"]
    /\ UNCHANGED <<shot, receipt, refusal, run, todo, outcome, charged, consented, count>>

(* Mutant: the answer is released first.                                   *)
MayRelease_First(i) == TRUE

MayRelease(i) == ~Is(Id(i), "invoked")

Release(i) ==
    /\ phase = "acknowledging" /\ Turn(i)
    /\ MayRelease(i)
    /\ receipt' = [receipt EXCEPT ![Id(i)] = None]
    /\ refusal' = [refusal EXCEPT ![Id(i)] = None]
    /\ Enter("acknowledging", left \ {i})
    /\ UNCHANGED <<shot, intent, todo, charged, consented, count>>

AcknowledgedAll ==
    /\ phase = "acknowledging" /\ left = {}
    /\ End("attached")
    /\ UNCHANGED <<shot, jobs, todo, charged, consented, count>>
-----------------------------------------------------------------------------
(* Stopping and opening again.                                             *)

Crash ==
    /\ phase # "closed"
    /\ crashed < MaxCrashes
    /\ crashed' = crashed + 1
    /\ phase' = "closed" /\ plan' = None /\ left' = {} /\ call' = Quiet
    /\ todo' = {}
    /\ UNCHANGED <<shot, jobs, outcome, charged, consented, asked, changed>>

(* reconcile_startup: a prepared intent whose answer was kept was invoked. *)
Reconciled ==
    [c \in Candidate |->
        IF Is(c, "prepared") /\ Kept(c, intent[c].hash)
        THEN [intent[c] EXCEPT !.state = "invoked", !.failed = FALSE] ELSE intent[c]]

(* Mutant: only what this open found answered is reported.                 *)
ResultReady_NewOnly(c) == Is(c, "prepared") /\ Kept(c, intent[c].hash)

ResultReady(c) == (Is(c, "prepared") \/ Is(c, "invoked")) /\ Kept(c, intent[c].hash)

(* unfinished_with: a plan per interrupted generation, but for those that  *)
(* await a call.                                                           *)
Unfinished ==
    {[revision |-> c[1], hash |-> intent[c].hash, asked |-> None] :
        c \in {d \in Candidate :
                 /\ ResultReady(d)
                 /\ \A i \in Slot : Is(<<d[1], i>>, "prepared") =>
                                       receipt[<<d[1], i>>] # None}}

Open ==
    /\ phase = "closed"
    /\ phase' = "idle"
    /\ intent' = Reconciled
    /\ todo' = Unfinished
    /\ UNCHANGED <<shot, receipt, refusal, plan, left, call, outcome, charged, consented,
                   count>>

(* Worker::recover, one plan after another.                                *)
Complete(p) ==
    /\ phase = "idle" /\ p \in todo
    /\ \A q \in todo : p.revision <= q.revision
    /\ todo' = todo \ {p}
    /\ plan' = p
    /\ phase' = "preparing" /\ left' = Slot
    /\ UNCHANGED <<shot, jobs, call, outcome, charged, consented, count>>
-----------------------------------------------------------------------------
CallStep(i) ==
    \/ CountAttempt(i) \/ UseReceipt(i) \/ Send(i)
    \/ ProviderAccepts(i) \/ ProviderRefuses(i) \/ LoseAnswer(i)
    \/ KeepAnswer(i) \/ RecordAnswer(i) \/ RecordFailure(i)

Progress ==
    \/ \E i \in Slot : RetireUnresolved(i) \/ RetireFailed(i) \/ Prepare(i)
    \/ RetiredAll \/ PreparedAll \/ Begin
    \/ \E i \in Slot : CallStep(i)
    \/ CallsEnd
    \/ \E i \in Slot : AcknowledgeResult(i) \/ Release(i)
    \/ AcknowledgedAll
    \/ Open
    \/ \E p \in todo : Complete(p)

Next ==
    \/ Progress
    \/ \E b \in Brief : ChangeBrief(b)
    \/ \E consent \in BOOLEAN : Generate(consent)
    \/ Crash

Spec == Init /\ [][Next]_vars

(* A run goes on, a provider's call ends by its time limit, and a project  *)
(* that stopped is opened again.  Nothing makes the director ask.          *)
FairSpec == Spec /\ WF_vars(Progress)
-----------------------------------------------------------------------------
(* Properties.                                                             *)

(* No candidate is paid for twice unless the director risked it: "a        *)
(* candidate whose last call may have been accepted without leaving its    *)
(* result is never called again unasked" (generation.rs), across crashes,  *)
(* refusals, lost answers and changes of the intent.                       *)
PaidOnceUnlessConsented == \A c \in Candidate : charged[c] <= 1 + consented[c]

(* An intent that says its provider answered has the answer kept beside it *)
(* until it is acknowledged, so the generation can be finished without     *)
(* paying again; and only what the shot's files hold is acknowledged, and  *)
(* forgotten.                                                              *)
AnswersAreKept ==
    \A c \in Candidate :
        /\ Is(c, "invoked") => Kept(c, intent[c].hash)
        /\ Is(c, "reconciled") => record[c] # None /\ record[c].hash = intent[c].hash

(* The input hash a candidate is recorded with is the hash of the prompt   *)
(* it was made from, whichever run attached it.                            *)
MadeForItsHash ==
    \A c \in Candidate : record[c] # None => record[c].hash = record[c].made.direction

(* A generation all of whose candidates were answered reaches the shot.    *)
AnsweredIsAttached ==
    \A r \in 1..MaxRevision :
        (\A i \in Slot : Is(<<r, i>>, "invoked"))
            ~> (\A i \in Slot : record[<<r, i>>] # None)

(* Whatever an earlier attempt left, the director can generate again,      *)
(* under some direction at least: "A candidate whose call never finished   *)
(* waits for the director to generate again" (generation.rs).              *)
SomeDirectionGenerates ==
    phase = "idle" /\ todo = {} /\ revision < MaxRevision =>
        \E d \in Directions :
            \A i \in Slot :
                LET c == <<revision + 1, i>>
                IN  intent[c] # None =>
                        intent[c].failed \/ Unresolved(c) \/ intent[c].hash = d

(* No run checks the following; the README says what TLC finds.            *)

(* A candidate's recorded intent, which staleness compares with the shot's *)
(* ("the intent fields that changed since it was made", shot.rs), is the   *)
(* intent it was made from.                                                *)
RecordedAsMade ==
    \A c \in Candidate : record[c] # None => record[c].noted = record[c].made
=============================================================================
