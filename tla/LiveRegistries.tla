--------------------------- MODULE LiveRegistries ---------------------------
(***************************************************************************)
(* What the job runtimes of one process share, whichever project or thread *)
(* they serve: each provider's limiter, and the lock of each job under     *)
(* way (crates/kineto-job-runtime/src/lib.rs).                             *)
(*                                                                         *)
(* Both are kept in registries that do not keep them alive: an object      *)
(* lives as long as somebody holds it, and who comes after everybody let   *)
(* go makes a new one.  JobRuntime takes for granted what is shown here:   *)
(* that all who are at one provider, or one job, hold the same object.     *)
(*                                                                         *)
(* A stretch under a registry's or an object's own lock is one step.  Left *)
(* out is what a call does once it is permitted.                           *)
(***************************************************************************)
EXTENDS Naturals, FiniteSets

CONSTANTS
    Callers,        \* threads
    LiveRuntimes,   \* runtimes, each made and dropped any number of times
    CallJobs,       \* jobs
    Partitions,     \* provider keys
    Ceilings,       \* the policies' max_concurrency
    Objects,        \* limiters and locks, to be used again once dropped
    SweepAt,        \* how many locks the registry holds before it is swept
    Nobody

ASSUME RegistryAssumption ==
    /\ Ceilings \subseteq Nat \ {0} /\ Ceilings # {} /\ IsFiniteSet(Ceilings)
    /\ SweepAt \in Nat \ {0}
    /\ IsFiniteSet(Callers) /\ IsFiniteSet(LiveRuntimes) /\ IsFiniteSet(CallJobs)
    /\ Nobody \notin Objects \cup LiveRuntimes \cup Callers

VARIABLES
    limiterAt,      \* PROVIDER_LIMITERS: each partition's limiter
    limiter,        \* the limiters: registrations by ceiling, calls in flight
    live,           \* the runtimes: partition, ceiling, limiter held
    lockAt,         \* JOB_OPERATION_LOCKS: each job's lock
    heldBy,         \* who is inside each lock
    caller          \* the threads: runtime, job, lock held and how far

registryVars == <<limiterAt, limiter, live, lockAt, heldBy, caller>>

RuntimeAt == {"none", "live", "leaving"}
CallerAt  == {"idle", "came", "inside", "calling", "called", "leaving"}

RegistryTypeOK ==
    /\ limiterAt \in [Partitions -> Objects \cup {Nobody}]
    /\ limiter \in [Objects -> [registered: [Ceilings -> 0..Cardinality(LiveRuntimes)],
                                inFlight: 0..Cardinality(Callers)]]
    /\ live \in [LiveRuntimes -> [at: RuntimeAt, partition: Partitions \cup {Nobody},
                                  max: Ceilings \cup {0}, holds: Objects \cup {Nobody}]]
    /\ lockAt \in [CallJobs -> Objects \cup {Nobody}]
    /\ heldBy \in [Objects -> Callers \cup {Nobody}]
    /\ caller \in [Callers -> [at: CallerAt, runtime: LiveRuntimes \cup {Nobody},
                               job: CallJobs \cup {Nobody}, holds: Objects \cup {Nobody}]]

NoRuntimeYet == [at |-> "none", partition |-> Nobody, max |-> 0, holds |-> Nobody]
IdleCaller   == [at |-> "idle", runtime |-> Nobody, job |-> Nobody, holds |-> Nobody]
NewLimiter   == [registered |-> [c \in Ceilings |-> 0], inFlight |-> 0]

RegistryInit ==
    /\ limiterAt = [p \in Partitions |-> Nobody]
    /\ limiter = [o \in Objects |-> NewLimiter]
    /\ live = [r \in LiveRuntimes |-> NoRuntimeYet]
    /\ lockAt = [j \in CallJobs |-> Nobody]
    /\ heldBy = [o \in Objects |-> Nobody]
    /\ caller = [t \in Callers |-> IdleCaller]
-----------------------------------------------------------------------------
(* Who keeps an object alive: a limiter its runtimes, a lock its callers.  *)
(* A permit lives within a call on a runtime, which holds the limiter.     *)

LimiterLives(o) == \E r \in LiveRuntimes : live[r].holds = o

LockLives(o) == \E t \in Callers : caller[t].holds = o

(* An object nobody holds; one a dead reference still names is not used    *)
(* again until that reference is gone.                                     *)
FreshLimiter(o) == ~LimiterLives(o) /\ \A p \in Partitions : limiterAt[p] # o

FreshLock(o, references) == ~LockLives(o) /\ \A j \in CallJobs : references[j] # o
-----------------------------------------------------------------------------
(* ProviderLimiter::new, under the registry's lock.                        *)

(* retain: the dead references go.                                         *)
RetainedLimiters ==
    [p \in Partitions |->
        IF limiterAt[p] # Nobody /\ LimiterLives(limiterAt[p]) THEN limiterAt[p] ELSE Nobody]

Registered(registered, max, by) == [registered EXCEPT ![max] = by]

NewRuntime(r, p, max) ==
    /\ live[r].at = "none"
    /\ \E o \in Objects :
          /\ IF RetainedLimiters[p] # Nobody THEN o = RetainedLimiters[p]
             ELSE FreshLimiter(o)
          /\ limiterAt' = [RetainedLimiters EXCEPT ![p] = o]
          /\ limiter' = [limiter EXCEPT ![o] =
                LET was == IF RetainedLimiters[p] # Nobody THEN @ ELSE NewLimiter
                IN  [was EXCEPT !.registered =
                        Registered(was.registered, max, was.registered[max] + 1)]]
          /\ live' = [live EXCEPT ![r] =
                [at |-> "live", partition |-> p, max |-> max, holds |-> o]]
    /\ UNCHANGED <<lockAt, heldBy, caller>>

(* A runtime is dropped when no call of it is under way: first its ceiling *)
(* is unregistered,                                                        *)
DropRuntime(r) ==
    /\ live[r].at = "live"
    /\ \A t \in Callers : caller[t].runtime # r
    /\ limiter' = [limiter EXCEPT ![live[r].holds].registered =
                      Registered(@, live[r].max, @[live[r].max] - 1)]
    /\ live' = [live EXCEPT ![r].at = "leaving"]
    /\ UNCHANGED <<limiterAt, lockAt, heldBy, caller>>

(* and then the limiter is let go of.                                      *)
ReleaseLimiter(r) ==
    /\ live[r].at = "leaving"
    /\ live' = [live EXCEPT ![r] = NoRuntimeYet]
    /\ UNCHANGED <<limiterAt, limiter, lockAt, heldBy, caller>>
-----------------------------------------------------------------------------
(* job_operation_lock, under the registry's lock.                          *)

(* Mutant: a sweep takes every reference, not only the dead.               *)
Swept_All(others) == [j \in CallJobs |-> Nobody]

Swept(others) ==
    IF Cardinality({j \in CallJobs : others[j] # Nobody}) >= SweepAt
    THEN [j \in CallJobs |-> IF others[j] # Nobody /\ LockLives(others[j])
                             THEN others[j] ELSE Nobody]
    ELSE others

(* The job's lock is found alive, or its dead reference is removed, the    *)
(* registry swept if it is large, and a new one made.                      *)
ComeToJob(t, r, j) ==
    /\ caller[t].at = "idle" /\ live[r].at = "live"
    /\ \E o \in Objects :
          /\ IF lockAt[j] # Nobody /\ LockLives(lockAt[j])
             THEN o = lockAt[j] /\ UNCHANGED lockAt
             ELSE LET swept == Swept([lockAt EXCEPT ![j] = Nobody])
                  IN  /\ FreshLock(o, swept)
                      /\ lockAt' = [swept EXCEPT ![j] = o]
          /\ caller' = [caller EXCEPT ![t] =
                [at |-> "came", runtime |-> r, job |-> j, holds |-> o]]
    /\ UNCHANGED <<limiterAt, limiter, live, heldBy>>

GoesTo(t, at) == caller' = [caller EXCEPT ![t].at = at]

EnterJob(t) ==
    /\ caller[t].at = "came"
    /\ heldBy[caller[t].holds] = Nobody
    /\ heldBy' = [heldBy EXCEPT ![caller[t].holds] = t]
    /\ GoesTo(t, "inside")
    /\ UNCHANGED <<limiterAt, limiter, live, lockAt>>
-----------------------------------------------------------------------------
(* try_acquire: the strictest ceiling registered is the one that counts.   *)

Limit(t) == limiter[live[caller[t].runtime].holds]

(* Mutant: a runtime goes by its own ceiling.                              *)
EffectiveMax_Own(t) == live[caller[t].runtime].max

EffectiveMax(t) ==
    LET max == {c \in Ceilings : Limit(t).registered[c] > 0}
    IN  IF max = {} THEN live[caller[t].runtime].max
        ELSE CHOOSE c \in max : \A d \in max : c <= d

AcquirePermit(t) ==
    /\ caller[t].at = "inside"
    /\ Limit(t).inFlight < EffectiveMax(t)
    /\ limiter' = [limiter EXCEPT ![live[caller[t].runtime].holds].inFlight = @ + 1]
    /\ GoesTo(t, "calling")
    /\ UNCHANGED <<limiterAt, live, lockAt, heldBy>>

(* Refused, or an operation that makes no call: the job is left, and       *)
(* invoke_when_permitted comes again.                                      *)
LeaveUncalled(t) ==
    /\ caller[t].at = "inside"
    /\ heldBy' = [heldBy EXCEPT ![caller[t].holds] = Nobody]
    /\ GoesTo(t, "leaving")
    /\ UNCHANGED <<limiterAt, limiter, live, lockAt>>

(* The permit, the job's lock and the reference to it go in this order.    *)
ReleasePermit(t) ==
    /\ caller[t].at = "calling"
    /\ limiter' = [limiter EXCEPT ![live[caller[t].runtime].holds].inFlight = @ - 1]
    /\ GoesTo(t, "called")
    /\ UNCHANGED <<limiterAt, live, lockAt, heldBy>>

LeaveJob(t) ==
    /\ caller[t].at = "called"
    /\ heldBy' = [heldBy EXCEPT ![caller[t].holds] = Nobody]
    /\ GoesTo(t, "leaving")
    /\ UNCHANGED <<limiterAt, limiter, live, lockAt>>

ReleaseLock(t) ==
    /\ caller[t].at = "leaving"
    /\ caller' = [caller EXCEPT ![t] = IdleCaller]
    /\ UNCHANGED <<limiterAt, limiter, live, lockAt, heldBy>>
-----------------------------------------------------------------------------
RegistryNext ==
    \/ \E r \in LiveRuntimes, p \in Partitions, max \in Ceilings : NewRuntime(r, p, max)
    \/ \E r \in LiveRuntimes : DropRuntime(r) \/ ReleaseLimiter(r)
    \/ \E t \in Callers, r \in LiveRuntimes, j \in CallJobs : ComeToJob(t, r, j)
    \/ \E t \in Callers :
          \/ EnterJob(t) \/ AcquirePermit(t) \/ LeaveUncalled(t)
          \/ ReleasePermit(t) \/ LeaveJob(t) \/ ReleaseLock(t)

RegistrySpec == RegistryInit /\ [][RegistryNext]_registryVars
-----------------------------------------------------------------------------
(* Properties.                                                             *)

CallsTo(p) ==
    {t \in Callers : caller[t].at = "calling" /\ live[caller[t].runtime].partition = p}

PoliciesOf(p) == {live[r].max : r \in {s \in LiveRuntimes : live[s].at = "live"
                                                  /\ live[s].partition = p}}

InsideJob(j) ==
    {t \in Callers : caller[t].job = j /\ caller[t].at \in {"inside", "calling", "called"}}

(* "A wider runtime policy must never bypass a stricter live policy"       *)
(* (try_acquire), and a job's operations stay ordered ("Keeps state-       *)
(* changing operations for one project/job ordered"): however runtimes     *)
(* come and go, a call begins only if all the calls to its provider, of    *)
(* every runtime, are then within the ceiling of every live runtime, and   *)
(* an operation on a job only if no other is inside that job.              *)
LimitsHold ==
    [][/\ \A p \in Partitions :
             ~(CallsTo(p)' \subseteq CallsTo(p)) =>
                 \A max \in PoliciesOf(p) : Cardinality(CallsTo(p)') <= max
       /\ \A j \in CallJobs :
             ~(InsideJob(j)' \subseteq InsideJob(j)) => InsideJob(j) = {}]_registryVars
=============================================================================
