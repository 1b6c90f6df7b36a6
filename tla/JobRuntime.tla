----------------------------- MODULE JobRuntime -----------------------------
(***************************************************************************)
(* The durable paid-job runtime, crates/kineto-job-runtime: the intent     *)
(* files under .kineto/jobs/intents, the idempotency reservations beside   *)
(* them, and the runtimes of one process that work on them.                *)
(*                                                                         *)
(* A step of the model is one atomic file replacement or removal, because  *)
(* the process may stop between any two.  The process-global store lock is *)
(* held across the files of one operation: the operation under way is the  *)
(* record txn, and every access to the files waits for it to be idle.  The *)
(* per-job operation lock, held across a provider call, is op[j].          *)
(*                                                                         *)
(* Left out: read-only projects, undecodable or tampered files, records    *)
(* older than the reservation index, the modification times retention      *)
(* sorts by (any Reconciled record may be the oldest), and backoff delays, *)
(* which only advise the caller.                                           *)
(***************************************************************************)
EXTENDS Naturals, FiniteSets

CONSTANTS
    Runtime,        \* JobRuntime instances, each usable again once dropped
    Provider,       \* provider keys, the partitions of the store
    Job,            \* job IDs; every caller names the job after the artifact
    Key,            \* idempotency keys: an artifact and one input hash of it
    JobOf,          \* the job of each key
    ProviderOf,     \* the provider each runtime is opened for
    Ceiling,        \* each runtime's concurrency ceiling
    MaxAttempts,    \* the backoff policy's attempt limit
    MaxReconciled,  \* how many Reconciled intents retention keeps
    NoRuntime

ASSUME RuntimeAssumption ==
    /\ JobOf \in [Key -> Job]
    /\ ProviderOf \in [Runtime -> Provider]
    /\ Ceiling \in [Runtime -> Nat \ {0}]
    /\ MaxAttempts \in Nat \ {0}
    /\ MaxReconciled \in Nat
    /\ NoRuntime \notin Runtime

VARIABLES
    \* files, which survive a crash
    intent,         \* the intent file of each job
    reservation,    \* the reservation file of each provider and key
    \* memory of the process
    live,           \* the runtimes that exist
    claims,         \* LIVE_JOBS: the runtime that claimed each job
    txn,            \* the store operation under way, holder of the store lock
    op,             \* the holder of each job's operation lock
    waiting,        \* the call of each runtime on its way to a job's lock
    sweep,          \* the runtimes whose acknowledgement still has to prune
    \* history, for the properties
    paid,           \* work a provider accepted and nobody has given up
    acked           \* work that has been acknowledged

files  == <<intent, reservation>>
memory == <<live, claims, txn, op, waiting, sweep>>
vars   == <<files, memory, paid, acked>>

-----------------------------------------------------------------------------
Work == Provider \X Key

JobFor(w) == JobOf[w[2]]

NoIntent == [state |-> "none"]

Intent == [work: Work, state: {"prepared", "invoked", "reconciled"},
           handle: BOOLEAN, attempts: 0..MaxAttempts,
           err: {"none", "retryable", "terminal"}]

NewIntent(w) == [work |-> w, state |-> "prepared", handle |-> FALSE,
                 attempts |-> 0, err |-> "none"]

ReservationState == {"none", "reserved", "active", "pruning", "pruned"}

NoTxn == [step |-> "idle"]

(* The next file each multi-file operation replaces or removes:            *)
(*   prepare      reserve -> create -> activate                            *)
(*   retire_*     unlink -> unreserve                                      *)
(*   retention    mark -> discard -> tombstone, for each record of rest    *)
Txn == [step: {"reserve", "create", "activate", "unlink", "unreserve",
               "mark", "discard", "tombstone"},
        by: Runtime, work: Work, rest: SUBSET Job]

NoCall == [what |-> "none"]

Call == [what: {"invoke", "reconcile"}, job: Job]

NoOp == [phase |-> "idle"]

Op == [phase: {"calling", "accepted", "answered", "querying", "reported"},
       by: Runtime, rec: Intent,
       answer: {"none", "completed", "pending", "retryable", "terminal",
                "missing", "failed"},
       handle: BOOLEAN]

TypeOK ==
    /\ intent \in [Job -> Intent \cup {NoIntent}]
    /\ reservation \in [Work -> ReservationState]
    /\ live \subseteq Runtime
    /\ claims \in [Job -> Runtime \cup {NoRuntime}]
    /\ txn \in Txn \cup {NoTxn}
    /\ op \in [Job -> Op \cup {NoOp}]
    /\ waiting \in [Runtime -> Call \cup {NoCall}]
    /\ sweep \subseteq Runtime
    /\ paid \subseteq Work
    /\ acked \subseteq Work

Recorded(j) == intent[j].state # "none"

(* The intent of w is on disk.                                             *)
Holds(w) == Recorded(JobFor(w)) /\ intent[JobFor(w)].work = w

StoreFree == txn.step = "idle"

(* Mutant: two calls for one job get two different locks.                  *)
JobFree_Unlocked(j) == TRUE

JobFree(j) == op[j].phase = "idle"

Invoking(j) == op[j].phase \in {"calling", "accepted", "answered"}

(* ProviderPermit: one per invocation under way, counted by provider; the  *)
(* strictest ceiling of any live runtime holds for all.                    *)
InFlight(p) == Cardinality({j \in Job : Invoking(j) /\ op[j].rec.work[1] = p})

PermitFor(p) ==
    \A r \in live : ProviderOf[r] = p => InFlight(p) < Ceiling[r]

Claim(r, j) == IF claims[j] = NoRuntime THEN [claims EXCEPT ![j] = r] ELSE claims

ClaimedElsewhere(r, j) == claims[j] \notin {NoRuntime, r}

Init ==
    /\ intent = [j \in Job |-> NoIntent]
    /\ reservation = [w \in Work |-> "none"]
    /\ live = {}
    /\ claims = [j \in Job |-> NoRuntime]
    /\ txn = NoTxn
    /\ op = [j \in Job |-> NoOp]
    /\ waiting = [r \in Runtime |-> NoCall]
    /\ sweep = {}
    /\ paid = {}
    /\ acked = {}

-----------------------------------------------------------------------------
(* Runtimes come and go.                                                   *)

NewRuntime(r) ==
    /\ r \notin live
    /\ live' = live \cup {r}
    /\ UNCHANGED <<files, claims, txn, op, waiting, sweep, paid, acked>>

(* A runtime is borrowed by every call made through it.                    *)
Busy(r) ==
    \/ r \in sweep
    \/ waiting[r].what # "none"
    \/ txn.step # "idle" /\ txn.by = r
    \/ \E j \in Job : op[j].phase # "idle" /\ op[j].by = r

DropRuntime(r) ==
    /\ r \in live
    /\ ~Busy(r)
    /\ live' = live \ {r}
    /\ claims' = [j \in Job |-> IF claims[j] = r THEN NoRuntime ELSE claims[j]]
    /\ UNCHANGED <<files, txn, op, waiting, sweep, paid, acked>>
-----------------------------------------------------------------------------
(* prepare: find_by_idempotency, then create_with_reservation.             *)

SaveReservation(w, state) == reservation' = [reservation EXCEPT ![w] = state]

(* Mutant: the store lock is not released.                                 *)
EndTxn_KeepsLock == UNCHANGED txn

EndTxn == txn' = NoTxn

BeginTxn(r, step, w) == txn' = [step |-> step, by |-> r, work |-> w, rest |-> {}]

(* Mutant: the job's present intent is not looked up.                      *)
PrepareNew_AnyJob(r, w) ==
    /\ StoreFree
    /\ reservation[w] = "none"
    /\ SaveReservation(w, "reserved")
    /\ BeginTxn(r, "create", w)
    /\ UNCHANGED <<intent, claims>>

(* Reserved is written before the intent.  A job that already has an       *)
(* intent, of whatever key or provider, refuses (JobIdAlreadyExists).      *)
PrepareNew(r, w) ==
    /\ StoreFree
    /\ reservation[w] = "none"
    /\ ~Recorded(JobFor(w))
    /\ SaveReservation(w, "reserved")
    /\ BeginTxn(r, "create", w)
    /\ UNCHANGED <<intent, claims>>

(* A Reserved mapping whose intent never appeared, or was retired, is      *)
(* cleared and the work created afresh.                                    *)
PrepareClears(r, w) ==
    /\ StoreFree
    /\ reservation[w] = "reserved"
    /\ ~Recorded(JobFor(w))
    /\ SaveReservation(w, "none")
    /\ BeginTxn(r, "reserve", w)
    /\ UNCHANGED <<intent, claims>>

PrepareExisting(r, w) ==
    /\ StoreFree
    /\ reservation[w] \in {"reserved", "active"}
    /\ Holds(w)
    /\ SaveReservation(w, "active")
    /\ claims' = Claim(r, JobFor(w))
    /\ UNCHANGED <<intent, txn>>

(* An interrupted pruning is finished before the caller is told the work   *)
(* is over (ReconciledIntentPruned).                                       *)
PreparePruned(r, w) ==
    /\ StoreFree
    /\ reservation[w] = "pruning"
    /\ \/ ~Recorded(JobFor(w)) /\ BeginTxn(r, "tombstone", w)
       \/ /\ Holds(w)
          /\ intent[JobFor(w)].state = "reconciled"
          /\ BeginTxn(r, "discard", w)
    /\ UNCHANGED <<files, claims>>

Prepare(r, w) ==
    /\ r \in live
    /\ ProviderOf[r] = w[1]
    /\ \/ PrepareNew(r, w)
       \/ PrepareClears(r, w)
       \/ PrepareExisting(r, w)
       \/ PreparePruned(r, w)
    /\ UNCHANGED <<live, op, waiting, sweep, paid, acked>>

SaveReserved ==
    /\ txn.step = "reserve"
    /\ SaveReservation(txn.work, "reserved")
    /\ txn' = [txn EXCEPT !.step = "create"]
    /\ UNCHANGED <<intent, live, claims, op, waiting, sweep, paid, acked>>

SaveNewIntent ==
    /\ txn.step = "create"
    /\ intent' = [intent EXCEPT ![JobFor(txn.work)] = NewIntent(txn.work)]
    /\ txn' = [txn EXCEPT !.step = "activate"]
    /\ UNCHANGED <<reservation, live, claims, op, waiting, sweep, paid, acked>>

SaveActive ==
    /\ txn.step = "activate"
    /\ SaveReservation(txn.work, "active")
    /\ claims' = Claim(txn.by, JobFor(txn.work))
    /\ EndTxn
    /\ UNCHANGED <<intent, live, op, waiting, sweep, paid, acked>>
-----------------------------------------------------------------------------
(* invoke_prepared.                                                        *)

(* Mutant: one attempt too many.                                           *)
MayInvoke_OneMore(r, j) ==
    /\ Recorded(j)
    /\ intent[j].work[1] = ProviderOf[r]
    /\ intent[j].state = "prepared"
    /\ intent[j].err # "terminal"
    /\ intent[j].attempts <= MaxAttempts

MayInvoke(r, j) ==
    /\ Recorded(j)
    /\ intent[j].work[1] = ProviderOf[r]
    /\ intent[j].state = "prepared"
    /\ intent[j].err # "terminal"
    /\ intent[j].attempts < MaxAttempts

(* The job is claimed first, unless another runtime holds it; then the     *)
(* caller waits for the job's lock.                                        *)
StartInvoke(r, j) ==
    /\ r \in live
    /\ waiting[r] = NoCall
    /\ claims' = Claim(r, j)
    /\ waiting' = [waiting EXCEPT ![r] = [what |-> "invoke", job |-> j]]
    /\ UNCHANGED <<files, live, txn, op, sweep, paid, acked>>

(* The attempt is counted on disk before the provider is called.           *)
BeginInvoke(r) ==
    /\ waiting[r].what = "invoke"
    /\ StoreFree
    /\ LET j == waiting[r].job
           rec == [intent[j] EXCEPT !.attempts = @ + 1, !.err = "none"]
       IN  /\ JobFree(j)
           /\ IF PermitFor(ProviderOf[r]) /\ MayInvoke(r, j)
              THEN /\ intent' = [intent EXCEPT ![j] = rec]
                   /\ op' = [op EXCEPT ![j] =
                         [phase |-> "calling", by |-> r, rec |-> rec,
                          answer |-> "none", handle |-> FALSE]]
              ELSE UNCHANGED <<intent, op>>
    /\ waiting' = [waiting EXCEPT ![r] = NoCall]
    /\ UNCHANGED <<reservation, live, claims, txn, sweep, paid, acked>>

Advance(j, phase, answer, handle) ==
    op' = [op EXCEPT ![j] = [@ EXCEPT !.phase = phase, !.answer = answer,
                                      !.handle = handle]]

(* The provider accepts, and charges; its answer may still be lost.        *)
ProviderAccepts(j) ==
    /\ op[j].phase = "calling"
    /\ Advance(j, "accepted", "none", FALSE)
    /\ paid' = paid \cup {op[j].rec.work}
    /\ UNCHANGED <<files, live, claims, txn, waiting, sweep, acked>>

(* Completed and Pending follow an acceptance; an error may come before or *)
(* after one.                                                              *)
ProviderAnswers(j) ==
    /\ \/ /\ op[j].phase = "accepted"
          /\ \/ Advance(j, "answered", "completed", FALSE)
             \/ Advance(j, "answered", "pending", TRUE)
       \/ /\ op[j].phase \in {"calling", "accepted"}
          /\ \E class \in {"retryable", "terminal"} :
                Advance(j, "answered", class, FALSE)
    /\ UNCHANGED <<files, live, claims, txn, waiting, sweep, paid, acked>>

(* Mutant: the job's lock outlives the call.                               *)
Unlock_Leaks(j) == UNCHANGED op

Unlock(j) == op' = [op EXCEPT ![j] = NoOp]

(* What invoke_prepared saves is the record it read before the call.       *)
RecordAnswer(j) ==
    /\ op[j].phase = "answered"
    /\ StoreFree
    /\ intent' = [intent EXCEPT ![j] =
          IF op[j].answer \in {"completed", "pending"}
          THEN [op[j].rec EXCEPT !.state = "invoked", !.handle = op[j].handle]
          ELSE [op[j].rec EXCEPT !.err = op[j].answer]]
    /\ Unlock(j)
    /\ UNCHANGED <<reservation, live, claims, txn, waiting, sweep, paid, acked>>

(* The save fails; the intent file keeps the attempt and nothing else.     *)
LoseAnswer(j) ==
    /\ op[j].phase = "answered"
    /\ StoreFree
    /\ Unlock(j)
    /\ UNCHANGED <<files, live, claims, txn, waiting, sweep, paid, acked>>
-----------------------------------------------------------------------------
(* acknowledge_result, and the retention pass that follows it under a lock *)
(* of its own.                                                             *)

Acknowledge(r, j) ==
    /\ r \in live
    /\ StoreFree
    /\ JobFree(j)
    /\ Recorded(j)
    /\ intent[j].work[1] = ProviderOf[r]
    /\ intent[j].state \in {"invoked", "reconciled"}
    /\ intent' = [intent EXCEPT ![j].state = "reconciled"]
    /\ sweep' = sweep \cup {r}
    /\ acked' = acked \cup {intent[j].work}
    /\ UNCHANGED <<reservation, live, claims, txn, op, waiting, paid>>

(* Mutant: retention counts every intent that is not Prepared.             *)
ReconciledOf_Invoked(p) ==
    {j \in Job : Recorded(j) /\ intent[j].work[1] = p
                             /\ intent[j].state # "prepared"}

ReconciledOf(p) ==
    {j \in Job : Recorded(j) /\ intent[j].work[1] = p
                             /\ intent[j].state = "reconciled"}

Excess(p) == IF Cardinality(ReconciledOf(p)) > MaxReconciled
             THEN Cardinality(ReconciledOf(p)) - MaxReconciled ELSE 0

PruneReconciled(r) ==
    /\ r \in sweep
    /\ StoreFree
    /\ \E old \in SUBSET ReconciledOf(ProviderOf[r]) :
          /\ Cardinality(old) = Excess(ProviderOf[r])
          /\ IF old = {} THEN EndTxn
             ELSE \E j \in old : txn' = [step |-> "mark", by |-> r,
                                         work |-> intent[j].work, rest |-> old \ {j}]
    /\ sweep' = sweep \ {r}
    /\ UNCHANGED <<files, live, claims, op, waiting, paid, acked>>

SavePruning ==
    /\ txn.step = "mark"
    /\ SaveReservation(txn.work, "pruning")
    /\ txn' = [txn EXCEPT !.step = "discard"]
    /\ UNCHANGED <<intent, live, claims, op, waiting, sweep, paid, acked>>

DiscardIntent ==
    /\ txn.step = "discard"
    /\ intent' = [intent EXCEPT ![JobFor(txn.work)] = NoIntent]
    /\ txn' = [txn EXCEPT !.step = "tombstone"]
    /\ UNCHANGED <<reservation, live, claims, op, waiting, sweep, paid, acked>>

NextPruning ==
    IF txn.rest = {} THEN EndTxn
    ELSE \E j \in txn.rest :
            txn' = [txn EXCEPT !.step = "mark", !.work = intent[j].work,
                               !.rest = @ \ {j}]

(* Mutant: retention forgets the key altogether.                           *)
SavePruned_Forgets ==
    /\ txn.step = "tombstone"
    /\ SaveReservation(txn.work, "none")
    /\ NextPruning
    /\ UNCHANGED <<intent, live, claims, op, waiting, sweep, paid, acked>>

SavePruned ==
    /\ txn.step = "tombstone"
    /\ SaveReservation(txn.work, "pruned")
    /\ NextPruning
    /\ UNCHANGED <<intent, live, claims, op, waiting, sweep, paid, acked>>
-----------------------------------------------------------------------------
(* retire_where and the four retirements built on it.                      *)

RetireFailed(j)     == intent[j].state = "prepared" /\ intent[j].err # "none"
RetireUnresolved(j) == intent[j].state = "prepared" /\ intent[j].attempts > 0
(* Mutant: an attempt does not count.                                      *)
RetireUnattempted_Attempted(j) == intent[j].state = "prepared"

RetireUnattempted(j) ==
    intent[j].state = "prepared" /\ intent[j].attempts = 0
RetireRemoteFailure(r, j) ==
    /\ intent[j].state = "invoked"
    /\ intent[j].work[1] = ProviderOf[r]
    /\ intent[j].handle

(* Mutant: the intent is removed under an Active reservation.              *)
ReturnToReserved_Skipped(w) == UNCHANGED reservation

ReturnToReserved(w) == SaveReservation(w, "reserved")

(* The reservation goes back to Reserved first.  Every retirement but that *)
(* of an unattempted intent is a decision to give the paid work up.        *)
Retire(r, j) ==
    /\ r \in live
    /\ StoreFree
    /\ JobFree(j)
    /\ \/ /\ RetireFailed(j) \/ RetireUnresolved(j) \/ RetireRemoteFailure(r, j)
          /\ paid' = paid \ {intent[j].work}
       \/ /\ RetireUnattempted(j)
          /\ UNCHANGED paid
    /\ ReturnToReserved(intent[j].work)
    /\ BeginTxn(r, "unlink", intent[j].work)
    /\ UNCHANGED <<intent, live, claims, op, waiting, sweep, acked>>

UnlinkIntent ==
    /\ txn.step = "unlink"
    /\ intent' = [intent EXCEPT ![JobFor(txn.work)] = NoIntent]
    /\ txn' = [txn EXCEPT !.step = "unreserve"]
    /\ UNCHANGED <<reservation, live, claims, op, waiting, sweep, paid, acked>>

RemoveReservation ==
    /\ txn.step = "unreserve"
    /\ SaveReservation(txn.work, "none")
    /\ EndTxn
    /\ UNCHANGED <<intent, live, claims, op, waiting, sweep, paid, acked>>
-----------------------------------------------------------------------------
(* reconcile_startup.  The claim is looked at before the job's lock is     *)
(* taken; the record is read again under it.                               *)

PickUnfinished(r, j) ==
    /\ r \in live
    /\ StoreFree
    /\ waiting[r] = NoCall
    /\ Recorded(j)
    /\ intent[j].work[1] = ProviderOf[r]
    /\ intent[j].state # "reconciled"
    /\ ~ClaimedElsewhere(r, j)
    /\ waiting' = [waiting EXCEPT ![r] = [what |-> "reconcile", job |-> j]]
    /\ UNCHANGED <<files, live, claims, txn, op, sweep, paid, acked>>

BeginReconcile(r) ==
    /\ waiting[r].what = "reconcile"
    /\ StoreFree
    /\ LET j == waiting[r].job
       IN  /\ JobFree(j)
           /\ IF /\ Recorded(j)
                 /\ intent[j].work[1] = ProviderOf[r]
                 /\ intent[j].state # "reconciled"
              THEN op' = [op EXCEPT ![j] = [phase |-> "querying", by |-> r,
                            rec |-> intent[j], answer |-> "none", handle |-> FALSE]]
              ELSE op' = op
    /\ waiting' = [waiting EXCEPT ![r] = NoCall]
    /\ UNCHANGED <<files, live, claims, txn, sweep, paid, acked>>

(* By handle or by key, a provider may know the work, not know it, or fail *)
(* to answer; asking costs nothing.                                        *)
ProviderReports(j) ==
    /\ op[j].phase = "querying"
    /\ \/ \E answer \in {"completed", "pending"}, handle \in BOOLEAN :
             Advance(j, "reported", answer, handle)
       \/ \E answer \in {"missing", "failed"} :
             Advance(j, "reported", answer, FALSE)
    /\ UNCHANGED <<files, live, claims, txn, waiting, sweep, paid, acked>>

(* Only a Prepared intent the provider knows changes; an Invoked one keeps *)
(* its handle and goes to the caller as ResultReady, StillPending or       *)
(* NeedsAttention.                                                         *)
RecordReport(j) ==
    /\ op[j].phase = "reported"
    /\ StoreFree
    /\ IF op[j].rec.state = "prepared" /\ op[j].answer \in {"completed", "pending"}
       THEN intent' = [intent EXCEPT ![j] = [op[j].rec EXCEPT !.state = "invoked",
                                        !.handle = op[j].handle, !.err = "none"]]
       ELSE intent' = intent
    /\ Unlock(j)
    /\ UNCHANGED <<reservation, live, claims, txn, waiting, sweep, paid, acked>>
-----------------------------------------------------------------------------
(* A write or removal of a multi-file operation fails: the operation ends  *)
(* with an error and the process goes on.                                  *)
FailTxn ==
    /\ txn.step # "idle"
    /\ txn' = NoTxn
    /\ UNCHANGED <<files, live, claims, op, waiting, sweep, paid, acked>>

(* The process stops.  Files stay as they are.                             *)
Crash ==
    /\ live # {}
    /\ live' = {}
    /\ claims' = [j \in Job |-> NoRuntime]
    /\ txn' = NoTxn
    /\ op' = [j \in Job |-> NoOp]
    /\ waiting' = [r \in Runtime |-> NoCall]
    /\ sweep' = {}
    /\ UNCHANGED <<files, paid, acked>>

StoreStep ==
    \/ SaveReserved \/ SaveNewIntent \/ SaveActive
    \/ SavePruning \/ DiscardIntent \/ SavePruned
    \/ UnlinkIntent \/ RemoveReservation

RuntimeStep(r) ==
    \/ NewRuntime(r)
    \/ DropRuntime(r)
    \/ \E w \in Work : Prepare(r, w)
    \/ \E j \in Job : \/ StartInvoke(r, j)
                      \/ Acknowledge(r, j)
                      \/ Retire(r, j)
                      \/ PickUnfinished(r, j)
    \/ PruneReconciled(r)
    \/ BeginInvoke(r)
    \/ BeginReconcile(r)

JobStep(j) ==
    \/ ProviderAccepts(j)
    \/ ProviderAnswers(j)
    \/ RecordAnswer(j)
    \/ LoseAnswer(j)
    \/ ProviderReports(j)
    \/ RecordReport(j)

Next ==
    \/ \E r \in Runtime : RuntimeStep(r)
    \/ \E j \in Job : JobStep(j)
    \/ StoreStep
    \/ FailTxn
    \/ Crash

Spec == Init /\ [][Next]_vars

(* A thread that holds the store lock runs on, an HTTP call is answered or *)
(* times out, and a thread that waits for a mutex gets it in the end: each *)
(* caller makes finitely many calls.  Nothing makes a caller call.         *)
Fairness ==
    /\ WF_vars(StoreStep)
    /\ \A j \in Job : /\ WF_vars(ProviderAnswers(j))
                      /\ WF_vars(ProviderReports(j))
                      /\ SF_vars(RecordAnswer(j) \/ LoseAnswer(j))
                      /\ SF_vars(RecordReport(j))
    /\ \A r \in Runtime : /\ SF_vars(BeginInvoke(r))
                          /\ SF_vars(BeginReconcile(r))

FairSpec == Spec /\ Fairness
-----------------------------------------------------------------------------
(* Properties.                                                             *)

(* Accepted work leaves a trace until somebody gives it up: its intent on  *)
(* disk with the attempt counted, or the tombstone retention left.  Neither *)
(* a crash, a failed write, a retirement of never-attempted work nor a     *)
(* second key of the same job may lose it.                                 *)
PaidWorkIsRecorded ==
    \A w \in paid :
        \/ Holds(w) /\ intent[JobFor(w)].attempts > 0
        \/ ~Holds(w) /\ reservation[w] \in {"pruning", "pruned"}

(* Acknowledged work stays acknowledged for ever: as a Reconciled intent,  *)
(* or, once retention removed that, as a tombstone; and only acknowledged  *)
(* work has a tombstone.                                                   *)
AcknowledgedForever ==
    \A w \in Work :
        w \in acked <=>
            \/ Holds(w) /\ intent[JobFor(w)].state = "reconciled"
            \/ ~Holds(w) /\ reservation[w] \in {"pruning", "pruned"}

(* What invoke_prepared and reconcile_startup save after the provider has  *)
(* answered is the record they read before: nobody, retention and another  *)
(* runtime's retirement included, has changed the file in between.         *)
SnapshotIsFresh ==
    \A j \in Job : op[j].phase # "idle" => intent[j] = op[j].rec

(* Whatever a crash leaves, every intent has a mapping the next lookup can *)
(* repair, and no mapping is Active or Pruning without the intent that     *)
(* find_by_idempotency demands of it.                                      *)
NoDanglingMapping ==
    /\ \A j \in Job : Recorded(j) =>
          /\ JobFor(intent[j].work) = j
          /\ reservation[intent[j].work] \in {"reserved", "active", "pruning"}
    /\ \A w \in Work :
          /\ reservation[w] = "active" => Holds(w)
          /\ reservation[w] = "pruning" /\ Holds(w) =>
                intent[JobFor(w)].state = "reconciled"

(* What an operation checked before its first file still holds before each *)
(* later one: no second intent appears in the job being prepared, no call  *)
(* starts for an intent being unlinked, and retention discards only        *)
(* Reconciled intents that are already marked.                             *)
TxnPremises ==
    LET w == txn.work
        Finished(j) == Recorded(j) /\ intent[j].state = "reconciled"
    IN  /\ txn.step = "reserve" => reservation[w] = "none" /\ ~Recorded(JobFor(w))
        /\ txn.step = "create" => reservation[w] = "reserved" /\ ~Recorded(JobFor(w))
        /\ txn.step = "activate" =>
              reservation[w] = "reserved" /\ Holds(w) /\ JobFree(JobFor(w))
        /\ txn.step = "unlink" =>
              /\ reservation[w] = "reserved" /\ Holds(w) /\ JobFree(JobFor(w))
              /\ w \notin paid \cup acked
        /\ txn.step = "unreserve" =>
              /\ reservation[w] = "reserved" /\ ~Recorded(JobFor(w))
              /\ w \notin paid \cup acked
        /\ txn.step = "mark" => Holds(w) /\ Finished(JobFor(w))
        /\ txn.step = "discard" =>
              reservation[w] = "pruning" /\ Holds(w) /\ Finished(JobFor(w))
        /\ txn.step = "tombstone" => reservation[w] = "pruning" /\ ~Holds(w)
        /\ txn.step \in {"mark", "discard", "tombstone"} =>
              \A j \in txn.rest : Finished(j) /\ j # JobFor(w)

(* The ledger a project's intents and reservations amount to.              *)
StandingOf(w) ==
    IF Holds(w) /\ intent[JobFor(w)].state = "prepared" THEN "open"
    ELSE IF Holds(w) /\ intent[JobFor(w)].state = "invoked" THEN "invoked"
    ELSE IF Holds(w) \/ reservation[w] \in {"pruning", "pruned"} THEN "settled"
    ELSE "new"

Ledger == INSTANCE JobLedger WITH
    Slot     <- Job,
    SlotOf   <- [w \in Work |-> JobFor(w)],
    standing <- [w \in Work |-> StandingOf(w)],
    calling  <- {w \in Work : Invoking(JobFor(w)) /\ op[JobFor(w)].rec.work = w}

(* Files, reservations and locks together keep the ledger's promise: a     *)
(* provider is called only for open work, settled work is never offered    *)
(* again, and no work is given up during a call for it.                    *)
ImplementsLedger == Ledger!LedgerSpec

(* The store lock is never kept, and a call that waits for a job's lock    *)
(* gets it: the locks are taken in one order, job before store.            *)
LocksComeFree ==
    /\ txn.step # "idle" ~> StoreFree
    /\ \A r \in Runtime : waiting[r].what # "none" ~> waiting[r].what = "none"
=============================================================================
