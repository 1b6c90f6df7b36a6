------------------------- MODULE Foundations_proofs -------------------------
(***************************************************************************)
(* Proofs about what the other modules stand on: LiveRegistries, for any   *)
(* number of threads, runtimes, jobs, providers and ceilings, and          *)
(* ProjectFiles, for any number of threads, files, versions and creators.  *)
(***************************************************************************)
EXTENDS LiveRegistries, ProjectFiles, SharedLemmas, FiniteSetTheorems, TLAPS

USE RegistryAssumption

Underway == {"came", "inside", "calling", "called", "leaving"}
Inside   == {"inside", "calling", "called"}

(* The live runtimes that registered a ceiling at a limiter, and the calls *)
(* in flight through it.                                                   *)
RegisteredAt(o, max) ==
    {r \in LiveRuntimes : live[r].at = "live" /\ live[r].holds = o /\ live[r].max = max}

InFlightAt(o) ==
    {t \in Callers : caller[t].at = "calling" /\ live[caller[t].runtime].holds = o}

(* The type of every variable but for the bounds of a limiter's counts,    *)
(* which are those of the sets they count.                                 *)
RegistryTypes ==
    /\ limiterAt \in [Partitions -> Objects \cup {Nobody}]
    /\ limiter \in [Objects -> [registered: [Ceilings -> Int], inFlight: Int]]
    /\ live \in [LiveRuntimes -> [at: RuntimeAt, partition: Partitions \cup {Nobody},
                                  max: Ceilings \cup {0}, holds: Objects \cup {Nobody}]]
    /\ lockAt \in [CallJobs -> Objects \cup {Nobody}]
    /\ heldBy \in [Objects -> Callers \cup {Nobody}]
    /\ caller \in [Callers -> [at: CallerAt, runtime: LiveRuntimes \cup {Nobody},
                               job: CallJobs \cup {Nobody}, holds: Objects \cup {Nobody}]]

(* A runtime that is not gone holds the limiter its provider's entry       *)
(* names; no two providers' entries name the same limiter.                 *)
OneLimiterEach ==
    /\ \A r \in LiveRuntimes :
          IF live[r].at = "none" THEN live[r].holds = Nobody
          ELSE /\ live[r].partition \in Partitions /\ live[r].max \in Ceilings
               /\ live[r].holds \in Objects
               /\ limiterAt[live[r].partition] = live[r].holds
    /\ \A p, q \in Partitions :
          limiterAt[p] = limiterAt[q] /\ limiterAt[p] # Nobody => p = q

(* A thread under way has a live runtime and holds the lock its job's      *)
(* entry names; no two jobs' entries name the same lock; a lock is held by *)
(* the thread inside its job.                                              *)
OneLockEach ==
    /\ \A t \in Callers :
          IF caller[t].at = "idle" THEN caller[t] = IdleCaller
          ELSE /\ caller[t].runtime \in LiveRuntimes
               /\ live[caller[t].runtime].at = "live"
               /\ caller[t].job \in CallJobs /\ caller[t].holds \in Objects
               /\ lockAt[caller[t].job] = caller[t].holds
    /\ \A j, k \in CallJobs : lockAt[j] = lockAt[k] /\ lockAt[j] # Nobody => j = k
    /\ \A t \in Callers : caller[t].at \in Inside => heldBy[caller[t].holds] = t

(* A limiter counts the live runtimes that hold it, by ceiling, and the    *)
(* calls under way through it.                                             *)
CountsAreExact ==
    \A o \in Objects :
        /\ \A max \in Ceilings :
              limiter[o].registered[max] = Cardinality(RegisteredAt(o, max))
        /\ limiter[o].inFlight = Cardinality(InFlightAt(o))

RegistryIInv == RegistryTypes /\ OneLimiterEach /\ OneLockEach /\ CountsAreExact
-----------------------------------------------------------------------------
(* The sets a limiter counts are finite.                                   *)
LEMMA CountedAreFinite ==
    ASSUME NEW o, NEW max
    PROVE  IsFiniteSet(RegisteredAt(o, max)) /\ IsFiniteSet(InFlightAt(o))
<1>1. RegisteredAt(o, max) \in SUBSET LiveRuntimes /\ InFlightAt(o) \in SUBSET Callers
    BY DEF RegisteredAt, InFlightAt
<1> QED BY <1>1, FS_Subset DEF RegistryAssumption

(* The references retained are among those there were, and keep every      *)
(* limiter that lives.                                                     *)
LEMMA RetainedKeepTheLiving ==
    ASSUME RegistryTypes
    PROVE  /\ RetainedLimiters \in [Partitions -> Objects \cup {Nobody}]
           /\ \A p \in Partitions :
                 /\ RetainedLimiters[p] \in {limiterAt[p], Nobody}
                 /\ LimiterLives(limiterAt[p]) => RetainedLimiters[p] = limiterAt[p]
                 /\ RetainedLimiters[p] # Nobody =>
                       RetainedLimiters[p] \in Objects
BY DEF RegistryTypes, RetainedLimiters

(* A sweep keeps every lock that lives.                                    *)
LEMMA SweptKeepTheLiving ==
    ASSUME NEW others \in [CallJobs -> Objects \cup {Nobody}]
    PROVE  /\ Swept(others) \in [CallJobs -> Objects \cup {Nobody}]
           /\ \A j \in CallJobs :
                 /\ Swept(others)[j] \in {others[j], Nobody}
                 /\ LockLives(others[j]) => Swept(others)[j] = others[j]
BY DEF Swept
-----------------------------------------------------------------------------
(* A limiter's record with one ceiling's count changed.                    *)
LimiterRecord == [registered: [Ceilings -> Int], inFlight: Int]

Counted(l, max, n) == [l EXCEPT !.registered = [@ EXCEPT ![max] = n]]

LEMMA CountedFields ==
    ASSUME NEW l \in LimiterRecord, NEW max \in Ceilings, NEW n \in Int
    PROVE  /\ Counted(l, max, n) \in LimiterRecord
           /\ Counted(l, max, n).inFlight = l.inFlight
           /\ Counted(l, max, n).registered[max] = n
           /\ \A c \in Ceilings \ {max} :
                 Counted(l, max, n).registered[c] = l.registered[c]
<1> DEFINE k == [l.registered EXCEPT ![max] = n]
<1>1. k \in [Ceilings -> Int] /\ k[max] = n /\ \A c \in Ceilings \ {max} : k[c] = l.registered[c]
    BY DEF LimiterRecord
<1>2. Counted(l, max, n) = [l EXCEPT !.registered = k]
    BY DEF Counted
<1> HIDE DEF k
<1>3. Counted(l, max, n) \in LimiterRecord
    BY <1>1, <1>2 DEF LimiterRecord
<1>4. Counted(l, max, n).inFlight = l.inFlight /\ Counted(l, max, n).registered = k
    BY <1>2 DEF LimiterRecord
<1> QED BY <1>1, <1>3, <1>4

(* What a new runtime finds or makes, field by field: the one limiter its  *)
(* provider's runtimes hold, else a fresh one with empty counts; it adds   *)
(* itself to that limiter's count of its ceiling.                          *)
NewRuntimeAt(r, p, max, o) ==
    /\ IF RetainedLimiters[p] # Nobody THEN o = RetainedLimiters[p] ELSE FreshLimiter(o)
    /\ limiterAt' = [RetainedLimiters EXCEPT ![p] = o]
    /\ limiter' \in [Objects -> LimiterRecord]
    /\ \A x \in Objects \ {o} : limiter'[x] = limiter[x]
    /\ LET was == IF RetainedLimiters[p] # Nobody THEN limiter[o] ELSE NewLimiter
       IN  /\ limiter'[o].inFlight = was.inFlight
           /\ limiter'[o].registered[max] = was.registered[max] + 1
           /\ \A c \in Ceilings \ {max} : limiter'[o].registered[c] = was.registered[c]
    /\ live' = [live EXCEPT ![r] = [at |-> "live", partition |-> p, max |-> max, holds |-> o]]

LEMMA NewRuntimeEffect ==
    ASSUME RegistryTypes, NEW r \in LiveRuntimes, NEW p \in Partitions, NEW max \in Ceilings,
           NewRuntime(r, p, max)
    PROVE  \E o \in Objects : NewRuntimeAt(r, p, max, o)
<1>1. PICK o \in Objects :
         /\ IF RetainedLimiters[p] # Nobody THEN o = RetainedLimiters[p]
            ELSE FreshLimiter(o)
         /\ limiterAt' = [RetainedLimiters EXCEPT ![p] = o]
         /\ limiter' = [limiter EXCEPT ![o] =
               LET was == IF RetainedLimiters[p] # Nobody THEN @ ELSE NewLimiter
               IN  [was EXCEPT !.registered =
                       Registered(was.registered, max, was.registered[max] + 1)]]
         /\ live' = [live EXCEPT ![r] =
               [at |-> "live", partition |-> p, max |-> max, holds |-> o]]
    BY DEF NewRuntime
<1> DEFINE was == IF RetainedLimiters[p] # Nobody THEN limiter[o] ELSE NewLimiter
           n   == was.registered[max] + 1
           y   == Counted(was, max, n)
<1>2. was \in LimiterRecord
    BY DEF RegistryTypes, NewLimiter, LimiterRecord
<1>3. n \in Int
  <2> HIDE DEF was
  <2>1. was.registered[max] \in Int
      BY <1>2 DEF LimiterRecord
  <2> QED BY <2>1
<1>4. limiter' = [limiter EXCEPT ![o] = y]
    BY <1>1 DEF Counted, Registered
<1> HIDE DEF n, was
<1>5. /\ y \in LimiterRecord /\ y.inFlight = was.inFlight /\ y.registered[max] = n
      /\ \A c \in Ceilings \ {max} : y.registered[c] = was.registered[c]
    BY <1>2, <1>3, CountedFields
<1> HIDE DEF y
<1>6. limiter \in [Objects -> LimiterRecord]
    BY DEF RegistryTypes, LimiterRecord
<1>7. /\ limiter' \in [Objects -> LimiterRecord]
      /\ \A x \in Objects \ {o} : limiter'[x] = limiter[x]
      /\ limiter'[o] = y
    BY <1>4, <1>5, <1>6
<1> QED BY <1>1, <1>5, <1>7 DEF NewRuntimeAt, was, n

(* A runtime that goes takes itself off its limiter's count, and nothing   *)
(* else.                                                                   *)
LEMMA DropEffect ==
    ASSUME RegistryTypes, OneLimiterEach, NEW r \in LiveRuntimes, DropRuntime(r)
    PROVE  /\ live[r].holds \in Objects /\ live[r].max \in Ceilings
           /\ limiter' \in [Objects -> LimiterRecord]
           /\ \A x \in Objects \ {live[r].holds} : limiter'[x] = limiter[x]
           /\ limiter'[live[r].holds].inFlight = limiter[live[r].holds].inFlight
           /\ limiter'[live[r].holds].registered[live[r].max]
                 = limiter[live[r].holds].registered[live[r].max] - 1
           /\ \A c \in Ceilings \ {live[r].max} :
                 limiter'[live[r].holds].registered[c]
                     = limiter[live[r].holds].registered[c]
<1> DEFINE o == live[r].holds
           n == limiter[o].registered[live[r].max] - 1
           y == Counted(limiter[o], live[r].max, n)
<1>1. o \in Objects /\ live[r].max \in Ceilings
    BY DEF DropRuntime, OneLimiterEach
<1>2. limiter \in [Objects -> LimiterRecord]
    BY DEF RegistryTypes, LimiterRecord
<1>3. n \in Int
  <2> HIDE DEF o
  <2>1. limiter[o].registered[live[r].max] \in Int
      BY <1>1, <1>2 DEF LimiterRecord
  <2> QED BY <2>1
<1>4. limiter' = [limiter EXCEPT ![o] = y]
    BY DEF DropRuntime, Counted, Registered
<1> HIDE DEF n, o
<1>5. /\ y \in LimiterRecord /\ y.inFlight = limiter[o].inFlight
      /\ y.registered[live[r].max] = n
      /\ \A c \in Ceilings \ {live[r].max} : y.registered[c] = limiter[o].registered[c]
  <2>1. limiter[o] \in LimiterRecord
      BY <1>1, <1>2
  <2> DEFINE l == limiter[o]
             m == live[r].max
  <2>2. l \in LimiterRecord /\ m \in Ceilings
      BY <1>1, <2>1
  <2> HIDE DEF l, m
  <2>3. /\ Counted(l, m, n) \in LimiterRecord /\ Counted(l, m, n).inFlight = l.inFlight
        /\ Counted(l, m, n).registered[m] = n
        /\ \A c \in Ceilings \ {m} : Counted(l, m, n).registered[c] = l.registered[c]
      BY <1>3, <2>2, CountedFields
  <2> QED BY <2>3 DEF l, m
<1> HIDE DEF y
<1>6. /\ limiter' \in [Objects -> LimiterRecord]
      /\ \A x \in Objects \ {o} : limiter'[x] = limiter[x]
      /\ limiter'[o] = y
    BY <1>1, <1>2, <1>4, <1>5
<1> QED BY <1>1, <1>5, <1>6 DEF n, o
-----------------------------------------------------------------------------
(* Types, one step per action.                                             *)
LEMMA TypesStep ==
    ASSUME RegistryTypes, OneLimiterEach, OneLockEach, [RegistryNext]_registryVars
    PROVE  RegistryTypes'
<1> USE DEF RegistryTypes, RuntimeAt, CallerAt
<1>0. \A c \in Ceilings : c \in Nat
    BY DEF RegistryAssumption
<1>1. ASSUME NEW r \in LiveRuntimes, NEW p \in Partitions, NEW max \in Ceilings,
             NewRuntime(r, p, max)
      PROVE  RegistryTypes'
  <2>1. PICK o \in Objects : NewRuntimeAt(r, p, max, o)
      BY <1>1, NewRuntimeEffect
  <2>2. limiterAt' \in [Partitions -> Objects \cup {Nobody}]
      BY <2>1, RetainedKeepTheLiving DEF NewRuntimeAt
  <2>5. limiter' \in [Objects -> LimiterRecord]
      BY <2>1 DEF NewRuntimeAt
  <2>6. live' \in [LiveRuntimes -> [at: RuntimeAt, partition: Partitions \cup {Nobody},
                                    max: Ceilings \cup {0}, holds: Objects \cup {Nobody}]]
      BY <1>1 DEF NewRuntime
  <2> QED BY <1>1, <2>2, <2>5, <2>6 DEF NewRuntime, LimiterRecord
<1>2. ASSUME NEW r \in LiveRuntimes, DropRuntime(r) PROVE RegistryTypes'
  <2>1. limiter' \in [Objects -> LimiterRecord]
      BY <1>2, DropEffect
  <2>2. live' \in [LiveRuntimes -> [at: RuntimeAt, partition: Partitions \cup {Nobody},
                                    max: Ceilings \cup {0}, holds: Objects \cup {Nobody}]]
    <3> DEFINE y == [live[r] EXCEPT !.at = "leaving"]
    <3>1. y \in [at: RuntimeAt, partition: Partitions \cup {Nobody},
                 max: Ceilings \cup {0}, holds: Objects \cup {Nobody}]
      <4>1. live[r] \in [at: RuntimeAt, partition: Partitions \cup {Nobody},
                         max: Ceilings \cup {0}, holds: Objects \cup {Nobody}]
          OBVIOUS
      <4> QED BY <4>1
    <3>2. live' = [live EXCEPT ![r] = y]
        BY <1>2 DEF DropRuntime
    <3> HIDE DEF y
    <3> QED BY <3>1, <3>2
  <2> QED BY <1>2, <2>1, <2>2 DEF DropRuntime, LimiterRecord
<1>3. ASSUME NEW r \in LiveRuntimes, ReleaseLimiter(r) PROVE RegistryTypes'
    BY <1>3 DEF ReleaseLimiter, NoRuntimeYet
<1>4. ASSUME NEW t \in Callers, NEW r \in LiveRuntimes, NEW j \in CallJobs, ComeToJob(t, r, j)
      PROVE  RegistryTypes'
  <2>1. [lockAt EXCEPT ![j] = Nobody] \in [CallJobs -> Objects \cup {Nobody}]
      OBVIOUS
  <2>2. Swept([lockAt EXCEPT ![j] = Nobody]) \in [CallJobs -> Objects \cup {Nobody}]
      BY <2>1, SweptKeepTheLiving
  <2>3. lockAt' \in [CallJobs -> Objects \cup {Nobody}]
      BY <1>4, <2>2 DEF ComeToJob
  <2>4. caller' \in [Callers -> [at: CallerAt, runtime: LiveRuntimes \cup {Nobody},
                                 job: CallJobs \cup {Nobody}, holds: Objects \cup {Nobody}]]
      BY <1>4 DEF ComeToJob
  <2> QED BY <1>4, <2>3, <2>4 DEF ComeToJob
<1>c. \A t \in Callers : caller[t].at # "idle" =>
          /\ caller[t].holds \in Objects /\ caller[t].runtime \in LiveRuntimes
          /\ live[caller[t].runtime].holds \in Objects
    BY DEF OneLockEach, OneLimiterEach
<1>g. \A t \in Callers, at \in CallerAt : GoesTo(t, at) =>
         caller' \in [Callers -> [at: CallerAt, runtime: LiveRuntimes \cup {Nobody},
                                  job: CallJobs \cup {Nobody}, holds: Objects \cup {Nobody}]]
  <2> SUFFICES ASSUME NEW t \in Callers, NEW at \in CallerAt, GoesTo(t, at)
               PROVE  caller' \in [Callers -> [at: CallerAt, runtime: LiveRuntimes \cup {Nobody},
                          job: CallJobs \cup {Nobody}, holds: Objects \cup {Nobody}]]
      OBVIOUS
  <2> DEFINE y == [caller[t] EXCEPT !.at = at]
  <2>1. y \in [at: CallerAt, runtime: LiveRuntimes \cup {Nobody},
               job: CallJobs \cup {Nobody}, holds: Objects \cup {Nobody}]
      OBVIOUS
  <2>2. caller' = [caller EXCEPT ![t] = y]
      BY DEF GoesTo
  <2> HIDE DEF y
  <2> QED BY <2>1, <2>2
<1>f. \A o \in Objects, n \in Int :
         [limiter EXCEPT ![o].inFlight = n]
             \in [Objects -> [registered: [Ceilings -> Int], inFlight: Int]]
    OBVIOUS
<1>5. ASSUME NEW t \in Callers, EnterJob(t) PROVE RegistryTypes'
    BY <1>5, <1>c, <1>g DEF EnterJob
<1>6. ASSUME NEW t \in Callers, AcquirePermit(t) PROVE RegistryTypes'
  <2>1. limiter' \in [Objects -> [registered: [Ceilings -> Int], inFlight: Int]]
      BY <1>6, <1>c, <1>f DEF AcquirePermit
  <2> QED BY <1>6, <2>1, <1>g DEF AcquirePermit
<1>7. ASSUME NEW t \in Callers, LeaveUncalled(t) PROVE RegistryTypes'
    BY <1>7, <1>c, <1>g DEF LeaveUncalled
<1>8. ASSUME NEW t \in Callers, ReleasePermit(t) PROVE RegistryTypes'
  <2>1. limiter' \in [Objects -> [registered: [Ceilings -> Int], inFlight: Int]]
      BY <1>8, <1>c, <1>f DEF ReleasePermit
  <2> QED BY <1>8, <2>1, <1>g DEF ReleasePermit
<1>9. ASSUME NEW t \in Callers, LeaveJob(t) PROVE RegistryTypes'
    BY <1>9, <1>c, <1>g DEF LeaveJob
<1>10. ASSUME NEW t \in Callers, ReleaseLock(t) PROVE RegistryTypes'
    BY <1>10 DEF ReleaseLock, IdleCaller
<1>11. CASE UNCHANGED registryVars
    BY <1>11 DEF registryVars
<1> QED BY <1>1, <1>2, <1>3, <1>4, <1>5, <1>6, <1>7, <1>8, <1>9, <1>10, <1>11
        DEF RegistryNext

(* However runtimes come and go, those at one provider hold one limiter.   *)
LEMMA OneLimiterStep ==
    ASSUME RegistryTypes, OneLimiterEach, OneLockEach, [RegistryNext]_registryVars
    PROVE  OneLimiterEach'
<1> USE DEF OneLimiterEach, RegistryTypes, RuntimeAt
<1>0. Nobody \notin Objects /\ RegistryTypes'
    BY TypesStep DEF RegistryAssumption
<1>1. ASSUME NEW r \in LiveRuntimes, NEW p \in Partitions, NEW max \in Ceilings,
             NewRuntime(r, p, max)
      PROVE  OneLimiterEach'
  <2>1. PICK o \in Objects :
           /\ IF RetainedLimiters[p] # Nobody THEN o = RetainedLimiters[p]
              ELSE FreshLimiter(o)
           /\ limiterAt' = [RetainedLimiters EXCEPT ![p] = o]
      BY <1>1 DEF NewRuntime
  <2>2. live' = [live EXCEPT ![r] = [at |-> "live", partition |-> p, max |-> max,
                                     holds |-> o]]
    <3>1. limiterAt'[p] = o
        BY <2>1, RetainedKeepTheLiving
    <3> QED BY <1>1, <3>1, RetainedKeepTheLiving DEF NewRuntime
  <2>3. \A s \in LiveRuntimes : live[s].at # "none" => LimiterLives(live[s].holds)
      BY DEF LimiterLives
  <2>4. \A s \in LiveRuntimes \ {r} : live[s].at # "none" =>
           limiterAt'[live[s].partition] = live[s].holds
    <3> SUFFICES ASSUME NEW s \in LiveRuntimes \ {r}, live[s].at # "none"
                 PROVE  limiterAt'[live[s].partition] = live[s].holds
        OBVIOUS
    <3>1. RetainedLimiters[live[s].partition] = live[s].holds
        BY <2>3, RetainedKeepTheLiving
    <3>2. live[s].partition = p => o = live[s].holds
        BY <2>1, <3>1, <1>0
    <3> QED BY <2>1, <3>1, <3>2, RetainedKeepTheLiving
  <2>5. \A q \in Partitions : q # p => limiterAt'[q] # o
      BY <2>1, <1>0, RetainedKeepTheLiving DEF FreshLimiter
  <2>6. \A q1, q2 \in Partitions :
           limiterAt'[q1] = limiterAt'[q2] /\ limiterAt'[q1] # Nobody => q1 = q2
      BY <2>1, <2>5, RetainedKeepTheLiving
  <2> QED BY <1>0, <2>1, <2>2, <2>4, <2>6, RetainedKeepTheLiving
<1>2. ASSUME NEW r \in LiveRuntimes, DropRuntime(r) PROVE OneLimiterEach'
    BY <1>2 DEF DropRuntime
<1>3. ASSUME NEW r \in LiveRuntimes, ReleaseLimiter(r) PROVE OneLimiterEach'
    BY <1>3 DEF ReleaseLimiter, NoRuntimeYet
<1>4. CASE UNCHANGED <<limiterAt, live>>
    BY <1>4
<1> QED BY <1>1, <1>2, <1>3, <1>4
        DEF RegistryNext, registryVars, ComeToJob, EnterJob, AcquirePermit, LeaveUncalled,
            ReleasePermit, LeaveJob, ReleaseLock

(* However threads come and go, those at one job hold one lock, and one is *)
(* inside.                                                                 *)
LEMMA OneLockStep ==
    ASSUME RegistryTypes, OneLimiterEach, OneLockEach, [RegistryNext]_registryVars
    PROVE  OneLockEach'
<1> USE DEF OneLockEach, Inside
<1>0. Nobody \notin Objects /\ Nobody \notin Callers
    BY DEF RegistryAssumption
<1>a. \A t \in Callers : caller[t].at # "idle" => LockLives(caller[t].holds)
    BY DEF LockLives
<1>g. ASSUME NEW t \in Callers, NEW at \in CallerAt \ {"idle"}, GoesTo(t, at),
             caller[t].at # "idle"
      PROVE  /\ \A u \in Callers \ {t} : caller'[u] = caller[u]
             /\ caller'[t].at = at /\ caller'[t].runtime = caller[t].runtime
             /\ caller'[t].job = caller[t].job /\ caller'[t].holds = caller[t].holds
    BY <1>g DEF GoesTo, RegistryTypes
<1>1. ASSUME NEW r \in LiveRuntimes, NEW p \in Partitions, NEW max \in Ceilings,
             NewRuntime(r, p, max)
      PROVE  OneLockEach'
    BY <1>1 DEF NewRuntime, RegistryTypes
<1>2. ASSUME NEW r \in LiveRuntimes, DropRuntime(r) PROVE OneLockEach'
    BY <1>2 DEF DropRuntime, RegistryTypes
<1>3. ASSUME NEW r \in LiveRuntimes, ReleaseLimiter(r) PROVE OneLockEach'
    BY <1>3 DEF ReleaseLimiter, RegistryTypes
<1>4. ASSUME NEW t \in Callers, NEW r \in LiveRuntimes, NEW j \in CallJobs, ComeToJob(t, r, j)
      PROVE  OneLockEach'
  <2> DEFINE others == [lockAt EXCEPT ![j] = Nobody]
  <2>1. PICK o \in Objects :
           /\ IF lockAt[j] # Nobody /\ LockLives(lockAt[j])
              THEN o = lockAt[j] /\ lockAt' = lockAt
              ELSE FreshLock(o, Swept(others)) /\ lockAt' = [Swept(others) EXCEPT ![j] = o]
           /\ caller' = [caller EXCEPT ![t] =
                 [at |-> "came", runtime |-> r, job |-> j, holds |-> o]]
      BY <1>4 DEF ComeToJob
  <2>2. others \in [CallJobs -> Objects \cup {Nobody}]
      BY DEF RegistryTypes
  <2>3. /\ Swept(others) \in [CallJobs -> Objects \cup {Nobody}]
        /\ \A k \in CallJobs : /\ Swept(others)[k] \in {others[k], Nobody}
                               /\ LockLives(others[k]) => Swept(others)[k] = others[k]
      BY <2>2, SweptKeepTheLiving
  <2>4. lockAt'[j] = o
      BY <2>1, <2>3
  <2>5. \A u \in Callers \ {t} : caller[u].at # "idle" =>
            lockAt'[caller[u].job] = caller[u].holds
    <3> SUFFICES ASSUME NEW u \in Callers \ {t}, caller[u].at # "idle"
                 PROVE  lockAt'[caller[u].job] = caller[u].holds
        OBVIOUS
    <3>1. caller[u].job \in CallJobs /\ lockAt[caller[u].job] = caller[u].holds
        OBVIOUS
    <3>2. caller[u].holds \in Objects /\ LockLives(lockAt[caller[u].job])
        BY <1>a, <3>1
    <3>3. CASE lockAt' = lockAt
        BY <3>1, <3>3
    <3>4. CASE lockAt' # lockAt
      <4>1. /\ ~(lockAt[j] # Nobody /\ LockLives(lockAt[j]))
            /\ lockAt' = [Swept(others) EXCEPT ![j] = o]
          BY <2>1, <3>4, Zenon
      <4>2. caller[u].job # j
          BY <1>0, <3>1, <3>2, <4>1
      <4>3. others[caller[u].job] = lockAt[caller[u].job]
          BY <3>1, <4>2 DEF RegistryTypes
      <4>4. Swept(others)[caller[u].job] = lockAt[caller[u].job]
          BY <2>3, <3>1, <3>2, <4>3
      <4> QED BY <2>3, <3>1, <4>1, <4>2, <4>4
    <3> QED BY <3>3, <3>4
  <2>6. ASSUME NEW k \in CallJobs, NEW l \in CallJobs,
               lockAt'[k] = lockAt'[l], lockAt'[k] # Nobody
        PROVE  k = l
    <3>1. CASE lockAt' = lockAt
        BY <2>6, <3>1
    <3>2. CASE lockAt' # lockAt
      <4>1. FreshLock(o, Swept(others)) /\ lockAt' = [Swept(others) EXCEPT ![j] = o]
          BY <2>1, <3>2, Zenon
      <4>2. \A i \in CallJobs : Swept(others)[i] # o
          BY <4>1 DEF FreshLock
      <4>3. \A i \in CallJobs \ {j} : Swept(others)[i] \in {lockAt[i], Nobody}
          BY <2>3 DEF RegistryTypes
      <4>4. /\ lockAt'[j] = o
            /\ \A i \in CallJobs \ {j} : lockAt'[i] = Swept(others)[i]
          BY <2>3, <4>1
      <4> HIDE DEF others
      <4>5. k # j /\ l # j => k = l
          BY <2>6, <4>3, <4>4
      <4> QED BY <2>6, <4>2, <4>4, <4>5
    <3> QED BY <3>1, <3>2
  <2> QED BY <1>4, <2>1, <2>4, <2>5, <2>6 DEF ComeToJob, RegistryTypes
<1>5. ASSUME NEW t \in Callers, EnterJob(t) PROVE OneLockEach'
  <2>1. /\ caller[t].at # "idle" /\ GoesTo(t, "inside")
        /\ heldBy' = [heldBy EXCEPT ![caller[t].holds] = t]
        /\ live' = live /\ lockAt' = lockAt
      BY <1>5 DEF EnterJob
  <2>2. /\ \A u \in Callers \ {t} : caller'[u] = caller[u]
        /\ caller'[t].at = "inside" /\ caller'[t].runtime = caller[t].runtime
        /\ caller'[t].job = caller[t].job /\ caller'[t].holds = caller[t].holds
      BY <1>g, <2>1 DEF CallerAt
  <2>3. \A u \in Callers : caller'[u].at \in Inside => heldBy'[caller'[u].holds] = u
      BY <1>5, <1>0, <2>1, <2>2 DEF EnterJob, RegistryTypes
  <2> QED BY <2>1, <2>2, <2>3
<1>6. ASSUME NEW t \in Callers, AcquirePermit(t) PROVE OneLockEach'
    BY <1>6, <1>g, <1>0 DEF AcquirePermit, CallerAt
<1>7. ASSUME NEW t \in Callers, LeaveUncalled(t) PROVE OneLockEach'
  <2>1. /\ caller[t].at # "idle" /\ GoesTo(t, "leaving")
        /\ heldBy' = [heldBy EXCEPT ![caller[t].holds] = Nobody]
        /\ live' = live /\ lockAt' = lockAt
      BY <1>7 DEF LeaveUncalled
  <2>2. /\ \A u \in Callers \ {t} : caller'[u] = caller[u]
        /\ caller'[t].at = "leaving" /\ caller'[t].runtime = caller[t].runtime
        /\ caller'[t].job = caller[t].job /\ caller'[t].holds = caller[t].holds
      BY <1>g, <2>1 DEF CallerAt
  <2>3. \A u \in Callers : caller'[u].at \in Inside => heldBy'[caller'[u].holds] = u
      BY <1>7, <1>0, <2>1, <2>2 DEF LeaveUncalled, RegistryTypes
  <2> QED BY <2>1, <2>2, <2>3
<1>8. ASSUME NEW t \in Callers, ReleasePermit(t) PROVE OneLockEach'
    BY <1>8, <1>g, <1>0 DEF ReleasePermit, CallerAt
<1>9. ASSUME NEW t \in Callers, LeaveJob(t) PROVE OneLockEach'
  <2>1. /\ caller[t].at # "idle" /\ GoesTo(t, "leaving")
        /\ heldBy' = [heldBy EXCEPT ![caller[t].holds] = Nobody]
        /\ live' = live /\ lockAt' = lockAt
      BY <1>9 DEF LeaveJob
  <2>2. /\ \A u \in Callers \ {t} : caller'[u] = caller[u]
        /\ caller'[t].at = "leaving" /\ caller'[t].runtime = caller[t].runtime
        /\ caller'[t].job = caller[t].job /\ caller'[t].holds = caller[t].holds
      BY <1>g, <2>1 DEF CallerAt
  <2>3. \A u \in Callers : caller'[u].at \in Inside => heldBy'[caller'[u].holds] = u
      BY <1>9, <1>0, <2>1, <2>2 DEF LeaveJob, RegistryTypes
  <2> QED BY <2>1, <2>2, <2>3
<1>10. ASSUME NEW t \in Callers, ReleaseLock(t) PROVE OneLockEach'
    BY <1>10 DEF ReleaseLock, IdleCaller, RegistryTypes
<1>11. CASE UNCHANGED registryVars
    BY <1>11 DEF registryVars
<1> QED BY <1>1, <1>2, <1>3, <1>4, <1>5, <1>6, <1>7, <1>8, <1>9, <1>10, <1>11
        DEF RegistryNext

(* Every limiter's counts stay those of the runtimes that hold it and of   *)
(* the calls under way through it.                                         *)
LEMMA CountsStep ==
    ASSUME RegistryTypes, OneLimiterEach, OneLockEach, CountsAreExact,
           [RegistryNext]_registryVars
    PROVE  CountsAreExact'
<1> USE DEF CountsAreExact
<1>0. \A o, max : IsFiniteSet(RegisteredAt(o, max)) /\ IsFiniteSet(InFlightAt(o))
    BY CountedAreFinite
<1>e. Cardinality({}) = 0
    BY FS_EmptySet
<1>c. \A t \in Callers : caller[t].at = "calling" =>
         caller[t].runtime \in LiveRuntimes /\ live[caller[t].runtime].at = "live"
    BY DEF OneLockEach
<1>1. ASSUME NEW r \in LiveRuntimes, NEW p \in Partitions, NEW max \in Ceilings,
             NewRuntime(r, p, max)
      PROVE  CountsAreExact'
  <2>1. PICK o \in Objects : NewRuntimeAt(r, p, max, o)
      BY <1>1, NewRuntimeEffect
  <2>2. /\ live[r].at = "none" /\ caller' = caller
        /\ live' = [live EXCEPT ![r] = [at |-> "live", partition |-> p, max |-> max, holds |-> o]]
      BY <1>1, <2>1 DEF NewRuntime, NewRuntimeAt
  <2>3. live'[r] = [at |-> "live", partition |-> p, max |-> max, holds |-> o]
      BY <2>2 DEF RegistryTypes
  <2>4. \A x \in LiveRuntimes \ {r} : live'[x] = live[x]
      BY <2>2 DEF RegistryTypes
  <2>5. \A x \in Objects : InFlightAt(x)' = InFlightAt(x)
      BY <1>c, <2>2, <2>4 DEF InFlightAt
  <2>6. \A x \in Objects, c \in Ceilings : (x # o \/ c # max) =>
           RegisteredAt(x, c)' = RegisteredAt(x, c)
      BY <2>2, <2>3, <2>4 DEF RegisteredAt
  <2>7. RegisteredAt(o, max)' = RegisteredAt(o, max) \cup {r} /\ r \notin RegisteredAt(o, max)
      BY <2>2, <2>3, <2>4 DEF RegisteredAt
  <2>8. Cardinality(RegisteredAt(o, max)') = Cardinality(RegisteredAt(o, max)) + 1
      BY <1>0, <2>7, FS_AddElement
  <2>9. \A x \in Objects \ {o} : limiter'[x] = limiter[x]
      BY <2>1 DEF NewRuntimeAt
  <2>10. CASE RetainedLimiters[p] # Nobody
    <3>1. /\ limiter'[o].inFlight = limiter[o].inFlight
          /\ limiter'[o].registered[max] = limiter[o].registered[max] + 1
          /\ \A c \in Ceilings \ {max} : limiter'[o].registered[c] = limiter[o].registered[c]
        BY <2>1, <2>10 DEF NewRuntimeAt
    <3> QED BY <2>5, <2>6, <2>8, <2>9, <3>1
  <2>11. CASE RetainedLimiters[p] = Nobody
    <3>1. ~LimiterLives(o)
        BY <2>1, <2>11 DEF NewRuntimeAt, FreshLimiter
    <3>2. \A c \in Ceilings : RegisteredAt(o, c) = {}
        BY <3>1 DEF LimiterLives, RegisteredAt
    <3>3. InFlightAt(o) = {}
        BY <1>c, <3>1 DEF LimiterLives, InFlightAt
    <3>4. /\ limiter'[o].inFlight = 0 /\ limiter'[o].registered[max] = 1
          /\ \A c \in Ceilings \ {max} : limiter'[o].registered[c] = 0
        BY <2>1, <2>11 DEF NewRuntimeAt, NewLimiter
    <3>5. limiter'[o].registered[max] = Cardinality(RegisteredAt(o, max)')
      <4>1. Cardinality(RegisteredAt(o, max)) = 0
          BY <1>e, <3>2
      <4> QED BY <2>8, <3>4, <4>1
    <3>6. \A c \in Ceilings \ {max} :
             limiter'[o].registered[c] = Cardinality(RegisteredAt(o, c)')
        BY <1>e, <2>6, <3>2, <3>4
    <3>7. limiter'[o].inFlight = Cardinality(InFlightAt(o)')
        BY <1>e, <2>5, <3>3, <3>4
    <3>8. ASSUME NEW x \in Objects \ {o}
          PROVE  /\ \A c \in Ceilings :
                       limiter'[x].registered[c] = Cardinality(RegisteredAt(x, c)')
                 /\ limiter'[x].inFlight = Cardinality(InFlightAt(x)')
        BY <2>5, <2>6, <2>9
    <3> QED BY <3>5, <3>6, <3>7, <3>8
  <2> QED BY <2>10, <2>11
<1>2. ASSUME NEW r \in LiveRuntimes, DropRuntime(r) PROVE CountsAreExact'
  <2>0. PICK o \in Objects, m \in Ceilings : o = live[r].holds /\ m = live[r].max
      BY <1>2, DropEffect
  <2>1. /\ \A x \in Objects \ {o} : limiter'[x] = limiter[x]
        /\ limiter'[o].inFlight = limiter[o].inFlight
        /\ limiter'[o].registered[m] = limiter[o].registered[m] - 1
        /\ \A c \in Ceilings \ {m} : limiter'[o].registered[c] = limiter[o].registered[c]
      BY <1>2, <2>0, DropEffect
  <2>2. /\ live[r].at = "live" /\ caller' = caller
        /\ live' = [live EXCEPT ![r].at = "leaving"]
      BY <1>2 DEF DropRuntime
  <2>3. /\ live'[r].at = "leaving" /\ live'[r].holds = live[r].holds
        /\ \A x \in LiveRuntimes \ {r} : live'[x] = live[x]
      BY <2>2 DEF RegistryTypes
  <2>4. \A x \in Objects : InFlightAt(x)' = InFlightAt(x)
      BY <1>c, <2>2, <2>3 DEF InFlightAt
  <2>5. \A x \in Objects, c \in Ceilings : (x # o \/ c # m) =>
           RegisteredAt(x, c)' = RegisteredAt(x, c)
      BY <2>0, <2>2, <2>3 DEF RegisteredAt
  <2>6. RegisteredAt(o, m)' = RegisteredAt(o, m) \ {r} /\ r \in RegisteredAt(o, m)
      BY <2>0, <2>2, <2>3 DEF RegisteredAt
  <2>7. Cardinality(RegisteredAt(o, m)') = Cardinality(RegisteredAt(o, m)) - 1
      BY <1>0, <2>6, FS_RemoveElement
  <2> QED BY <2>1, <2>4, <2>5, <2>7
<1>3. ASSUME NEW r \in LiveRuntimes, ReleaseLimiter(r) PROVE CountsAreExact'
  <2>1. /\ live[r].at = "leaving" /\ caller' = caller /\ limiter' = limiter
        /\ live' = [live EXCEPT ![r] = NoRuntimeYet]
      BY <1>3 DEF ReleaseLimiter
  <2>2. live'[r].at = "none" /\ \A x \in LiveRuntimes \ {r} : live'[x] = live[x]
      BY <2>1 DEF RegistryTypes, NoRuntimeYet
  <2>3. \A x \in Objects : InFlightAt(x)' = InFlightAt(x)
      BY <1>c, <2>1, <2>2 DEF InFlightAt
  <2>4. \A x \in Objects, c \in Ceilings : RegisteredAt(x, c)' = RegisteredAt(x, c)
      BY <2>1, <2>2 DEF RegisteredAt
  <2> QED BY <2>1, <2>3, <2>4
<1>q. ASSUME limiter' = limiter, live' = live,
             \A t \in Callers :
                 \/ caller'[t] = caller[t]
                 \/ caller[t].at # "calling" /\ caller'[t].at # "calling"
      PROVE  CountsAreExact'
  <2>1. \A x \in Objects : InFlightAt(x)' = InFlightAt(x)
      BY <1>q DEF InFlightAt
  <2>2. \A x \in Objects, c \in Ceilings : RegisteredAt(x, c)' = RegisteredAt(x, c)
      BY <1>q DEF RegisteredAt
  <2> QED BY <1>q, <2>1, <2>2
<1>g. ASSUME NEW t \in Callers, NEW at \in CallerAt, GoesTo(t, at)
      PROVE  /\ \A u \in Callers \ {t} : caller'[u] = caller[u]
             /\ caller'[t].at = at /\ caller'[t].runtime = caller[t].runtime
    BY <1>g DEF GoesTo, RegistryTypes
<1>4. ASSUME NEW t \in Callers, NEW r \in LiveRuntimes, NEW j \in CallJobs, ComeToJob(t, r, j)
      PROVE  CountsAreExact'
    BY <1>4, <1>q DEF ComeToJob, RegistryTypes
<1>5. ASSUME NEW t \in Callers, EnterJob(t) PROVE CountsAreExact'
    BY <1>5, <1>q, <1>g DEF EnterJob, CallerAt
<1>7. ASSUME NEW t \in Callers, LeaveUncalled(t) PROVE CountsAreExact'
    BY <1>7, <1>q, <1>g DEF LeaveUncalled, CallerAt
<1>9. ASSUME NEW t \in Callers, LeaveJob(t) PROVE CountsAreExact'
    BY <1>9, <1>q, <1>g DEF LeaveJob, CallerAt
<1>10. ASSUME NEW t \in Callers, ReleaseLock(t) PROVE CountsAreExact'
    BY <1>10, <1>q DEF ReleaseLock, IdleCaller, RegistryTypes
<1>r. ASSUME live' = live
      PROVE  \A x \in Objects, c \in Ceilings : RegisteredAt(x, c)' = RegisteredAt(x, c)
    BY <1>r DEF RegisteredAt
<1>i. ASSUME NEW o \in Objects, NEW n \in Int,
             limiter' = [limiter EXCEPT ![o].inFlight = n]
      PROVE  /\ limiter'[o].inFlight = n /\ limiter'[o].registered = limiter[o].registered
             /\ \A x \in Objects \ {o} : limiter'[x] = limiter[x]
    BY <1>i DEF RegistryTypes
<1>s. ASSUME NEW o \in Objects, NEW n \in Int, live' = live,
             limiter' = [limiter EXCEPT ![o].inFlight = n],
             \A x \in Objects \ {o} : InFlightAt(x)' = InFlightAt(x),
             Cardinality(InFlightAt(o)') = n
      PROVE  CountsAreExact'
  <2>1. /\ limiter'[o].inFlight = n /\ limiter'[o].registered = limiter[o].registered
        /\ \A x \in Objects \ {o} : limiter'[x] = limiter[x]
      BY <1>i, <1>s
  <2>2. \A x \in Objects, c \in Ceilings : RegisteredAt(x, c)' = RegisteredAt(x, c)
      BY <1>r, <1>s
  <2>3. ASSUME NEW x \in Objects
        PROVE  /\ \A c \in Ceilings :
                     limiter'[x].registered[c] = Cardinality(RegisteredAt(x, c)')
               /\ limiter'[x].inFlight = Cardinality(InFlightAt(x)')
    <3>1. CASE x = o
      <4>1. \A c \in Ceilings : limiter'[o].registered[c] = Cardinality(RegisteredAt(o, c)')
          BY <2>1, <2>2
      <4> QED BY <1>s, <2>1, <3>1, <4>1
    <3>2. CASE x # o
        BY <1>s, <2>1, <2>2, <3>2
    <3> QED BY <3>1, <3>2
  <2> QED BY <2>3
<1>6. ASSUME NEW t \in Callers, AcquirePermit(t) PROVE CountsAreExact'
  <2>0. PICK o \in Objects : o = live[caller[t].runtime].holds
      BY <1>6 DEF AcquirePermit, OneLockEach, OneLimiterEach
  <2> DEFINE n == limiter[o].inFlight + 1
  <2>1. caller[t].at = "inside" /\ live' = live /\ GoesTo(t, "calling")
      BY <1>6 DEF AcquirePermit
  <2>2. n \in Int /\ limiter' = [limiter EXCEPT ![o].inFlight = n]
      BY <1>6, <2>0 DEF AcquirePermit, RegistryTypes
  <2>3. /\ \A u \in Callers \ {t} : caller'[u] = caller[u]
        /\ caller'[t].at = "calling" /\ caller'[t].runtime = caller[t].runtime
      BY <1>g, <2>1 DEF CallerAt
  <2>4. \A x \in Objects \ {o} : InFlightAt(x)' = InFlightAt(x)
      BY <2>0, <2>1, <2>3 DEF InFlightAt
  <2>5. InFlightAt(o)' = InFlightAt(o) \cup {t} /\ t \notin InFlightAt(o)
      BY <2>0, <2>1, <2>3 DEF InFlightAt
  <2>6. Cardinality(InFlightAt(o)') = Cardinality(InFlightAt(o)) + 1
      BY <1>0, <2>5, FS_AddElement
  <2>7. Cardinality(InFlightAt(o)') = n
      BY <2>6
  <2> QED BY <1>s, <2>1, <2>2, <2>4, <2>7
<1>8. ASSUME NEW t \in Callers, ReleasePermit(t) PROVE CountsAreExact'
  <2>0. PICK o \in Objects : o = live[caller[t].runtime].holds
      BY <1>8 DEF ReleasePermit, OneLockEach, OneLimiterEach
  <2> DEFINE n == limiter[o].inFlight - 1
  <2>1. caller[t].at = "calling" /\ live' = live /\ GoesTo(t, "called")
      BY <1>8 DEF ReleasePermit
  <2>2. n \in Int /\ limiter' = [limiter EXCEPT ![o].inFlight = n]
      BY <1>8, <2>0 DEF ReleasePermit, RegistryTypes
  <2>3. /\ \A u \in Callers \ {t} : caller'[u] = caller[u]
        /\ caller'[t].at = "called"
      BY <1>g, <2>1 DEF CallerAt
  <2>4. \A x \in Objects \ {o} : InFlightAt(x)' = InFlightAt(x)
      BY <2>0, <2>1, <2>3 DEF InFlightAt
  <2>5. InFlightAt(o)' = InFlightAt(o) \ {t} /\ t \in InFlightAt(o)
      BY <2>0, <2>1, <2>3 DEF InFlightAt
  <2>6. Cardinality(InFlightAt(o)') = Cardinality(InFlightAt(o)) - 1
      BY <1>0, <2>5, FS_RemoveElement
  <2>7. Cardinality(InFlightAt(o)') = n
      BY <2>6
  <2> QED BY <1>s, <2>1, <2>2, <2>4, <2>7
<1>11. CASE UNCHANGED registryVars
    BY <1>11, <1>q DEF registryVars
<1> QED BY <1>1, <1>2, <1>3, <1>4, <1>5, <1>6, <1>7, <1>8, <1>9, <1>10, <1>11
        DEF RegistryNext
-----------------------------------------------------------------------------
(* The registries start empty.                                             *)
LEMMA RegistryStart == RegistryInit => RegistryIInv
<1> SUFFICES ASSUME RegistryInit PROVE RegistryIInv
    OBVIOUS
<1> USE DEF RegistryInit, NoRuntimeYet, IdleCaller, NewLimiter
<1>1. RegistryTypes
    BY DEF RegistryTypes, RuntimeAt, CallerAt
<1>2. OneLimiterEach /\ OneLockEach
    BY DEF OneLimiterEach, OneLockEach, Inside
<1>3. CountsAreExact
  <2>1. \A o \in Objects, max \in Ceilings : RegisteredAt(o, max) = {}
      BY DEF RegisteredAt
  <2>2. \A o \in Objects : InFlightAt(o) = {}
      BY DEF InFlightAt
  <2> QED BY <2>1, <2>2, FS_EmptySet DEF CountsAreExact
<1> QED BY <1>1, <1>2, <1>3 DEF RegistryIInv

(* What the registries show of every limiter, lock, runtime and thread     *)
(* holds at all times.                                                     *)
THEOREM RegistriesAreExact == RegistrySpec => []RegistryIInv
<1>1. RegistryIInv /\ [RegistryNext]_registryVars => RegistryIInv'
    BY TypesStep, OneLimiterStep, OneLockStep, CountsStep DEF RegistryIInv
<1> QED BY <1>1, RegistryStart, PTL DEF RegistrySpec

(* The counts stay within the number of runtimes and threads.              *)
LEMMA RegistryTypesFollow == RegistryIInv => RegistryTypeOK
<1> SUFFICES ASSUME RegistryIInv PROVE RegistryTypeOK
    OBVIOUS
<1> USE DEF RegistryIInv
<1>1. ASSUME NEW o \in Objects
      PROVE  limiter[o] \in [registered: [Ceilings -> 0..Cardinality(LiveRuntimes)],
                             inFlight: 0..Cardinality(Callers)]
  <2>1. Cardinality(LiveRuntimes) \in Nat /\ Cardinality(Callers) \in Nat
      BY FS_CardinalityType DEF RegistryAssumption
  <2>2. ASSUME NEW max \in Ceilings
        PROVE  limiter[o].registered[max] \in 0..Cardinality(LiveRuntimes)
    <3>1. RegisteredAt(o, max) \in SUBSET LiveRuntimes
        BY DEF RegisteredAt
    <3>2. Cardinality(RegisteredAt(o, max)) <= Cardinality(LiveRuntimes)
        BY <3>1, FS_Subset DEF RegistryAssumption
    <3>3. Cardinality(RegisteredAt(o, max)) \in Nat
        BY CountedAreFinite, FS_CardinalityType
    <3> QED BY <2>1, <3>2, <3>3 DEF CountsAreExact
  <2>3. limiter[o].inFlight \in 0..Cardinality(Callers)
    <3>1. InFlightAt(o) \in SUBSET Callers
        BY DEF InFlightAt
    <3>2. Cardinality(InFlightAt(o)) <= Cardinality(Callers)
        BY <3>1, FS_Subset DEF RegistryAssumption
    <3>3. Cardinality(InFlightAt(o)) \in Nat
        BY CountedAreFinite, FS_CardinalityType
    <3> QED BY <2>1, <3>2, <3>3 DEF CountsAreExact
  <2>4. limiter[o] \in [registered: [Ceilings -> Int], inFlight: Int]
      BY DEF RegistryTypes
  <2>5. limiter[o].registered \in [Ceilings -> 0..Cardinality(LiveRuntimes)]
      BY <2>2, <2>4
  <2> QED BY <2>3, <2>4, <2>5
<1>2. limiter \in [Objects -> [registered: [Ceilings -> 0..Cardinality(LiveRuntimes)],
                               inFlight: 0..Cardinality(Callers)]]
    BY <1>1 DEF RegistryTypes
<1> QED BY <1>2 DEF RegistryTypes, RegistryTypeOK

(* The variables have their types.                                         *)
THEOREM RegistryTypeCorrect == RegistrySpec => []RegistryTypeOK
BY RegistriesAreExact, RegistryTypesFollow, PTL

(* The ceiling a call goes by is at most that of every live runtime of its *)
(* provider.                                                               *)
LEMMA StrictestCounts ==
    ASSUME RegistryIInv, NEW t \in Callers, caller[t].at = "inside",
           NEW max \in PoliciesOf(live[caller[t].runtime].partition)
    PROVE  EffectiveMax(t) \in Ceilings /\ EffectiveMax(t) <= max
<1> USE DEF RegistryIInv
<1> DEFINE p == live[caller[t].runtime].partition
           o == live[caller[t].runtime].holds
           S == {c \in Ceilings : limiter[o].registered[c] > 0}
<1>1. /\ caller[t].runtime \in LiveRuntimes /\ live[caller[t].runtime].at = "live"
      /\ p \in Partitions /\ o \in Objects /\ limiterAt[p] = o
    BY DEF OneLockEach, OneLimiterEach
<1>2. PICK s \in LiveRuntimes :
         live[s].at = "live" /\ live[s].partition = p /\ live[s].max = max
    BY DEF PoliciesOf
<1>3. live[s].holds = o /\ max \in Ceilings
    BY <1>1, <1>2 DEF OneLimiterEach
<1>4. s \in RegisteredAt(o, max)
    BY <1>2, <1>3 DEF RegisteredAt
<1>5. Cardinality(RegisteredAt(o, max)) \in Nat \ {0}
    BY <1>4, CountedAreFinite, FS_CardinalityType, FS_EmptySet
<1>6. max \in S
    BY <1>1, <1>3, <1>5 DEF CountsAreExact
<1>7. S \subseteq Nat
    BY DEF RegistryAssumption
<1>8. PICK c \in S : \A d \in S : c <= d
    BY <1>6, <1>7, LeastOf
<1>9. EffectiveMax(t) = CHOOSE e \in S : \A d \in S : e <= d
    BY <1>6 DEF EffectiveMax, Limit
<1> HIDE DEF S
<1>10. EffectiveMax(t) \in S /\ EffectiveMax(t) <= max
    BY <1>6, <1>8, <1>9
<1> QED BY <1>10 DEF S

(* The calls to a provider are those in flight through its limiter.        *)
LEMMA CallsAreInFlight ==
    ASSUME RegistryIInv, NEW r \in LiveRuntimes, live[r].at = "live"
    PROVE  CallsTo(live[r].partition) = InFlightAt(live[r].holds)
<1> USE DEF RegistryIInv
<1>1. ASSUME NEW t \in Callers, caller[t].at = "calling"
      PROVE  live[caller[t].runtime].partition = live[r].partition
                 <=> live[caller[t].runtime].holds = live[r].holds
  <2>1. caller[t].runtime \in LiveRuntimes /\ live[caller[t].runtime].at = "live"
      BY <1>1 DEF OneLockEach
  <2>2. Nobody \notin Objects
      BY DEF RegistryAssumption
  <2> QED BY <2>1, <2>2 DEF OneLimiterEach
<1> QED BY <1>1 DEF CallsTo, InFlightAt

(* No step but a permit's begins a call.                                   *)
LEMMA OnlyPermitsBegin ==
    ASSUME RegistryIInv, [RegistryNext]_registryVars, NEW p \in Partitions,
           \A t \in Callers : ~AcquirePermit(t)
    PROVE  CallsTo(p)' \subseteq CallsTo(p)
<1> USE DEF RegistryIInv
<1>c. \A t \in Callers : caller[t].at = "calling" =>
         caller[t].runtime \in LiveRuntimes /\ live[caller[t].runtime].at = "live"
    BY DEF OneLockEach
<1>1. ASSUME caller' = caller,
             \A t \in Callers : caller[t].at = "calling" =>
                 live'[caller[t].runtime].partition = live[caller[t].runtime].partition
      PROVE  CallsTo(p)' \subseteq CallsTo(p)
    BY <1>1 DEF CallsTo
<1>2. ASSUME live' = live,
             \A t \in Callers : caller'[t] = caller[t] \/ caller'[t].at # "calling"
      PROVE  CallsTo(p)' \subseteq CallsTo(p)
    BY <1>2 DEF CallsTo
<1>g. \A t \in Callers, at \in CallerAt \ {"calling"} : GoesTo(t, at) =>
         \A u \in Callers : caller'[u] = caller[u] \/ caller'[u].at # "calling"
    BY DEF GoesTo, RegistryTypes
<1>3. ASSUME NEW r \in LiveRuntimes, NEW q \in Partitions, NEW max \in Ceilings,
             NewRuntime(r, q, max)
      PROVE  CallsTo(p)' \subseteq CallsTo(p)
    BY <1>1, <1>3, <1>c DEF NewRuntime, RegistryTypes
<1>4. ASSUME NEW r \in LiveRuntimes, DropRuntime(r) \/ ReleaseLimiter(r)
      PROVE  CallsTo(p)' \subseteq CallsTo(p)
    BY <1>1, <1>4, <1>c DEF DropRuntime, ReleaseLimiter, RegistryTypes
<1>5. ASSUME NEW t \in Callers, NEW r \in LiveRuntimes, NEW j \in CallJobs, ComeToJob(t, r, j)
      PROVE  CallsTo(p)' \subseteq CallsTo(p)
    BY <1>2, <1>5 DEF ComeToJob, RegistryTypes
<1>6. ASSUME NEW t \in Callers,
             \/ EnterJob(t) \/ LeaveUncalled(t) \/ ReleasePermit(t) \/ LeaveJob(t)
      PROVE  CallsTo(p)' \subseteq CallsTo(p)
  <2>1. live' = live /\ \E at \in CallerAt \ {"calling"} : GoesTo(t, at)
      BY <1>6 DEF EnterJob, LeaveUncalled, ReleasePermit, LeaveJob, CallerAt
  <2> QED BY <1>2, <1>g, <2>1
<1>7. ASSUME NEW t \in Callers, ReleaseLock(t) PROVE CallsTo(p)' \subseteq CallsTo(p)
    BY <1>2, <1>7 DEF ReleaseLock, IdleCaller, RegistryTypes
<1>8. CASE UNCHANGED registryVars
    BY <1>2, <1>8 DEF registryVars
<1> QED BY <1>3, <1>4, <1>5, <1>6, <1>7, <1>8 DEF RegistryNext

(* With a permit, the calls to the provider are within the ceiling of each *)
(* of its live runtimes.                                                   *)
LEMMA PermitsAreWithin ==
    ASSUME RegistryIInv, NEW t \in Callers, AcquirePermit(t), NEW p \in Partitions,
           ~(CallsTo(p)' \subseteq CallsTo(p)), NEW max \in PoliciesOf(p)
    PROVE  Cardinality(CallsTo(p)') <= max
<1> USE DEF RegistryIInv
<1>1. /\ caller[t].at = "inside" /\ live' = live
      /\ \A u \in Callers \ {t} : caller'[u] = caller[u]
      /\ caller'[t].at = "calling" /\ caller'[t].runtime = caller[t].runtime
    BY DEF AcquirePermit, GoesTo, RegistryTypes
<1>2. PICK r \in LiveRuntimes : r = caller[t].runtime /\ live[r].at = "live"
    BY <1>1 DEF OneLockEach
<1>3. p = live[r].partition
    BY <1>1, <1>2 DEF CallsTo
<1>4. CallsTo(p)' = CallsTo(p) \cup {t} /\ t \notin CallsTo(p)
    BY <1>1, <1>2, <1>3 DEF CallsTo
<1>5. PICK o \in Objects : o = live[r].holds
    BY <1>2 DEF OneLimiterEach
<1>6. CallsTo(p) = InFlightAt(o)
    BY <1>2, <1>3, <1>5, CallsAreInFlight
<1>7. Cardinality(CallsTo(p)') = Cardinality(InFlightAt(o)) + 1
  <2>1. IsFiniteSet(CallsTo(p))
      BY <1>6, CountedAreFinite
  <2>2. Cardinality(CallsTo(p) \cup {t}) = Cardinality(CallsTo(p)) + 1
      BY <1>4, <2>1, FS_AddElement
  <2> QED BY <1>4, <1>6, <2>2
<1>8. EffectiveMax(t) \in Nat /\ EffectiveMax(t) <= max
    BY <1>1, <1>2, <1>3, StrictestCounts DEF RegistryAssumption
<1>9. max \in Nat
    BY DEF PoliciesOf, OneLimiterEach, RegistryAssumption
<1>10. Cardinality(InFlightAt(o)) < EffectiveMax(t)
    BY <1>2, <1>5 DEF AcquirePermit, Limit, CountsAreExact
<1>11. Cardinality(InFlightAt(o)) \in Nat
    BY CountedAreFinite, FS_CardinalityType
<1> QED BY <1>7, <1>8, <1>9, <1>10, <1>11

(* An operation begins on a job only if no other is inside that job.       *)
LEMMA OneInsideAJob ==
    ASSUME RegistryIInv, [RegistryNext]_registryVars, NEW j \in CallJobs,
           ~(InsideJob(j)' \subseteq InsideJob(j))
    PROVE  InsideJob(j) = {}
<1> USE DEF RegistryIInv
<1>1. PICK t \in Callers :
         /\ caller'[t].job = j /\ caller'[t].at \in Inside
         /\ ~(caller[t].job = j /\ caller[t].at \in Inside)
    BY DEF InsideJob, Inside
<1>2. EnterJob(t)
  <2>1. ASSUME caller'[t] = caller[t] PROVE FALSE
      BY <1>1, <2>1
  <2>g. \A u \in Callers, at \in CallerAt : GoesTo(u, at) =>
           /\ u # t => caller'[t] = caller[t]
           /\ u = t => caller'[t].at = at /\ caller'[t].job = caller[t].job
      BY DEF GoesTo, RegistryTypes
  <2>2. ASSUME NEW u \in Callers, NEW r \in LiveRuntimes, NEW k \in CallJobs, ComeToJob(u, r, k)
        PROVE  FALSE
      BY <1>1, <2>1, <2>2 DEF ComeToJob, Inside, RegistryTypes
  <2>3. ASSUME NEW u \in Callers, ReleaseLock(u) PROVE FALSE
      BY <1>1, <2>1, <2>3 DEF ReleaseLock, IdleCaller, Inside, RegistryTypes
  <2>4. ASSUME NEW u \in Callers, AcquirePermit(u) \/ ReleasePermit(u) PROVE FALSE
    <3>1. caller[u].at \in Inside /\ \E at \in CallerAt : GoesTo(u, at)
        BY <2>4 DEF AcquirePermit, ReleasePermit, Inside, CallerAt
    <3> QED BY <1>1, <2>1, <2>g, <3>1
  <2>5. ASSUME NEW u \in Callers, LeaveUncalled(u) \/ LeaveJob(u) PROVE FALSE
    <3>1. GoesTo(u, "leaving") /\ "leaving" \in CallerAt /\ "leaving" \notin Inside
        BY <2>5 DEF LeaveUncalled, LeaveJob, Inside, CallerAt
    <3> QED BY <1>1, <2>1, <2>g, <3>1
  <2>6. ASSUME NEW u \in Callers, EnterJob(u) PROVE u = t
    <3>1. GoesTo(u, "inside") /\ "inside" \in CallerAt
        BY <2>6 DEF EnterJob, CallerAt
    <3> QED BY <2>1, <2>g, <3>1
  <2>7. ASSUME caller' = caller PROVE FALSE
      BY <2>1, <2>7
  <2> QED BY <2>2, <2>3, <2>4, <2>5, <2>6, <2>7
          DEF RegistryNext, registryVars, NewRuntime, DropRuntime, ReleaseLimiter
<1>3. caller[t].at = "came" /\ heldBy[caller[t].holds] = Nobody /\ caller[t].job = j
    BY <1>1, <1>2 DEF EnterJob, GoesTo, RegistryTypes
<1>4. ASSUME NEW u \in InsideJob(j) PROVE FALSE
  <2>1. u \in Callers /\ caller[u].job = j /\ caller[u].at \in Inside
      BY <1>4 DEF InsideJob, Inside
  <2>2. heldBy[caller[u].holds] = u /\ caller[u].holds = lockAt[j]
      BY <2>1 DEF OneLockEach, Inside
  <2>3. caller[t].holds = lockAt[j]
      BY <1>3 DEF OneLockEach
  <2> QED BY <1>3, <2>1, <2>2, <2>3 DEF RegistryAssumption
<1> QED BY <1>4

(* A wider policy never bypasses a stricter live one, and a job's          *)
(* operations stay ordered, however runtimes and threads come and go.      *)
THEOREM LimitsAlwaysHold == RegistrySpec => LimitsHold
<1>1. RegistryIInv /\ [RegistryNext]_registryVars =>
         /\ \A p \in Partitions :
               ~(CallsTo(p)' \subseteq CallsTo(p)) =>
                   \A max \in PoliciesOf(p) : Cardinality(CallsTo(p)') <= max
         /\ \A j \in CallJobs :
               ~(InsideJob(j)' \subseteq InsideJob(j)) => InsideJob(j) = {}
    BY OnlyPermitsBegin, PermitsAreWithin, OneInsideAJob
<1> QED BY <1>1, RegistriesAreExact, PTL DEF RegistrySpec, LimitsHold
-----------------------------------------------------------------------------
(* Files on the disk, for any number of threads, files, versions and       *)
(* creators: they implement DurableFiles.                                  *)

USE FilesAssumption

(* The type of every variable, with nothing torn in it.  An idle thread's  *)
(* file says nothing.                                                      *)
FilesTypes ==
    /\ fileWriter \in [FileThreads ->
           [step: WriteSteps, file: FilesOfDir \cup {NotWriting.file}, synced: BOOLEAN]]
    /\ dirThere \in BOOLEAN /\ dirNamed \in BOOLEAN
    /\ inPlace \in [FilesOfDir -> Nat]
    /\ mayStay \in [FilesOfDir -> SUBSET Nat]
    /\ returned \in [FilesOfDir -> Nat]
    /\ creating \in [Creators -> [step: CreateSteps, flushed: BOOLEAN]]
    /\ project \in {0, 1} /\ projectStay \subseteq {0, 1}
    /\ created \in BOOLEAN /\ lost \in BOOLEAN

(* A thread past makeDir has a directory to write in, and one that renames *)
(* has flushed the bytes; two threads write two files, and the version to  *)
(* be put in place is within the bound.                                    *)
WritersReady ==
    /\ dirNamed => dirThere
    /\ \A t \in FileThreads :
          /\ fileWriter[t].step # "idle" => fileWriter[t].file \in FilesOfDir
          /\ fileWriter[t].step \notin {"idle", "makeDir"} => dirThere
          /\ fileWriter[t].step = "rename" => fileWriter[t].synced
          /\ fileWriter[t].step \notin {"idle", "flush"} =>
                inPlace[fileWriter[t].file] < MaxWritten
    /\ \A t, u \in FileThreads :
          (/\ fileWriter[t].step # "idle" /\ fileWriter[u].step # "idle"
           /\ fileWriter[t].file = fileWriter[u].file) => t = u

(* What may be left of a file is a whole version, not older than what a    *)
(* write returned for and not newer than what is in place.                 *)
VersionsStay ==
    \A f \in FilesOfDir :
        /\ returned[f] <= inPlace[f] /\ inPlace[f] <= MaxWritten
        /\ \A v \in mayStay[f] : returned[f] <= v /\ v <= inPlace[f]

(* A project is renamed with its directories flushed; once a creation has  *)
(* returned the project stays.                                             *)
ProjectStays ==
    /\ project = 0 => 1 \notin projectStay
    /\ created => project = 1 /\ 0 \notin projectStay
    /\ \A c \in Creators :
          /\ creating[c].step = "rename" => creating[c].flushed
          /\ creating[c].step = "flush" => project = 1

FilesIInv == FilesTypes /\ WritersReady /\ VersionsStay /\ ProjectStays
-----------------------------------------------------------------------------
(* A project's files, and the project, as DurableFiles sees them.          *)
Content == [x \in Everything |-> IF x = "project" THEN project ELSE inPlace[x]]

Settled == [x \in Everything |->
               IF x = "project" THEN (IF created THEN 1 ELSE 0)
               ELSE IF dirNamed THEN returned[x] ELSE 0]

DurableStep ==
    [Durable!Settle \/ (\E x \in Everything : Durable!Replace(x)) \/ Durable!LosePower]_<<Content, Settled>>

(* A step that puts nothing in place and settles nothing.                  *)
LEMMA DurableStutter ==
    ASSUME UNCHANGED <<inPlace, project, created, dirNamed, returned>>
    PROVE  DurableStep
BY DEF DurableStep, Content, Settled

(* A step that only makes more of what is in place sure to stay.           *)
LEMMA DurableSettles ==
    ASSUME UNCHANGED <<inPlace, project>>,
           \A x \in Everything : Settled'[x] \in Settled[x]..Content[x]
    PROVE  DurableStep
BY DEF DurableStep, Durable!Settle, Content, Settled

(* A step that puts one new version in place.                              *)
LEMMA DurableReplaces ==
    ASSUME NEW x \in Everything, UNCHANGED <<created, dirNamed, returned>>,
           Content' = [Content EXCEPT ![x] = @ + 1]
    PROVE  DurableStep
<1>1. Settled' = Settled
    BY DEF Settled
<1>2. Durable!Replace(x)
    BY <1>1 DEF Durable!Replace, Content, Settled
<1> QED BY <1>2 DEF DurableStep

(* A step after which each thing is at a version that was settled or       *)
(* later, and no more is settled than is there.                            *)
LEMMA DurableLoses ==
    ASSUME \A x \in Everything : /\ Content'[x] \in Settled[x]..Content[x]
                                 /\ Settled'[x] \in Settled[x]..Content'[x]
    PROVE  DurableStep
BY DEF DurableStep, Durable!LosePower, Content, Settled

(* A thread's step keeps the others' records and its own file.             *)
LEMMA WriterGoesEffect ==
    ASSUME FilesTypes, NEW t \in FileThreads, NEW s \in WriteSteps, WriterGoes(t, s)
    PROVE  /\ fileWriter' \in [FileThreads ->
                 [step: WriteSteps, file: FilesOfDir \cup {NotWriting.file}, synced: BOOLEAN]]
           /\ \A u \in FileThreads \ {t} : fileWriter'[u] = fileWriter[u]
           /\ fileWriter'[t].step = s /\ fileWriter'[t].file = fileWriter[t].file
           /\ fileWriter'[t].synced = fileWriter[t].synced
<1> DEFINE y == [fileWriter[t] EXCEPT !.step = s]
<1>1. fileWriter[t] \in [step: WriteSteps, file: FilesOfDir \cup {NotWriting.file},
                         synced: BOOLEAN]
    BY DEF FilesTypes
<1>2. /\ y \in [step: WriteSteps, file: FilesOfDir \cup {NotWriting.file}, synced: BOOLEAN]
      /\ y.step = s /\ y.file = fileWriter[t].file /\ y.synced = fileWriter[t].synced
    BY <1>1
<1>3. fileWriter' = [fileWriter EXCEPT ![t] = y]
    BY DEF WriterGoes
<1> HIDE DEF y
<1> QED BY <1>2, <1>3 DEF FilesTypes

(* Whoever is not writing is as at the start.                              *)
LEMMA NotWritingType ==
    /\ NotWriting \in [step: WriteSteps, file: FilesOfDir \cup {NotWriting.file}, synced: BOOLEAN]
    /\ NotWriting.step = "idle"
BY DEF NotWriting, WriteSteps

(* The same of a creation.                                                 *)
LEMMA CreatorGoesEffect ==
    ASSUME FilesTypes, NEW c \in Creators, NEW s \in CreateSteps, CreatorGoes(c, s)
    PROVE  /\ creating' \in [Creators -> [step: CreateSteps, flushed: BOOLEAN]]
           /\ \A d \in Creators \ {c} : creating'[d] = creating[d]
           /\ creating'[c].step = s /\ creating'[c].flushed = creating[c].flushed
<1> DEFINE y == [creating[c] EXCEPT !.step = s]
<1>1. creating[c] \in [step: CreateSteps, flushed: BOOLEAN]
    BY DEF FilesTypes
<1>2. y \in [step: CreateSteps, flushed: BOOLEAN] /\ y.step = s /\ y.flushed = creating[c].flushed
    BY <1>1
<1>3. creating' = [creating EXCEPT ![c] = y]
    BY DEF CreatorGoes
<1> HIDE DEF y
<1> QED BY <1>2, <1>3 DEF FilesTypes
-----------------------------------------------------------------------------
(* The steps of a write, one step per action.                              *)
LEMMA WritesKeep ==
    ASSUME FilesIInv, NEW t \in FileThreads,
           \/ \E f \in FilesOfDir : BeginWrite(t, f)
           \/ MakeDir(t) \/ FlushUp(t) \/ WriteTemp(t) \/ SyncTemp(t)
           \/ RenameTemp(t) \/ FlushDir(t) \/ WriteFails(t)
    PROVE  FilesIInv' /\ DurableStep
<1> USE DEF FilesIInv, WriterAt, DirKeeps, NamesKeep, OtherKeep
<1>0. UNCHANGED createVars
    BY DEF BeginWrite, MakeDir, FlushUp, WriteTemp, SyncTemp, RenameTemp, FlushDir, WriteFails
<1>p. ProjectStays'
    BY <1>0 DEF ProjectStays, createVars
<1>1. ASSUME NEW f \in FilesOfDir, BeginWrite(t, f) PROVE FilesIInv' /\ DurableStep
  <2> DEFINE y == [step |-> IF dirThere THEN "write" ELSE "makeDir", file |-> f, synced |-> FALSE]
  <2>1. /\ inPlace[f] < MaxWritten /\ fileWriter' = [fileWriter EXCEPT ![t] = y]
        /\ \A o \in FileThreads : fileWriter[o].step = "idle" \/ fileWriter[o].file # f
        /\ UNCHANGED <<dirThere, dirNamed, inPlace, mayStay, returned, lost>>
      BY <1>1 DEF BeginWrite
  <2>2. /\ fileWriter'[t] = y /\ \A u \in FileThreads \ {t} : fileWriter'[u] = fileWriter[u]
        /\ fileWriter' \in [FileThreads ->
              [step: WriteSteps, file: FilesOfDir \cup {NotWriting.file}, synced: BOOLEAN]]
      BY <2>1 DEF FilesTypes, WriteSteps
  <2>3. FilesTypes'
      BY <1>0, <2>1, <2>2 DEF FilesTypes, createVars
  <2>4. WritersReady'
      BY <2>1, <2>2 DEF WritersReady
  <2>5. VersionsStay'
      BY <2>1 DEF VersionsStay
  <2> QED BY <1>0, <1>p, <2>1, <2>3, <2>4, <2>5, DurableStutter DEF createVars
<1>2. CASE MakeDir(t)
  <2>1. /\ fileWriter[t].step = "makeDir" /\ WriterGoes(t, "flushUp") /\ dirThere' = TRUE
        /\ UNCHANGED <<dirNamed, inPlace, mayStay, returned, lost>>
      BY <1>2 DEF MakeDir
  <2>2. FilesTypes'
      BY <1>0, <2>1, WriterGoesEffect DEF FilesTypes, createVars, WriteSteps
  <2>3. WritersReady'
      BY <2>1, WriterGoesEffect DEF WritersReady, WriteSteps
  <2>4. VersionsStay'
      BY <2>1 DEF VersionsStay
  <2> QED BY <1>0, <1>p, <2>1, <2>2, <2>3, <2>4, DurableStutter DEF createVars
<1>3. CASE FlushUp(t)
  <2>1. /\ fileWriter[t].step = "flushUp" /\ WriterGoes(t, "write") /\ dirNamed' = TRUE
        /\ UNCHANGED <<dirThere, inPlace, mayStay, returned, lost>>
      BY <1>3 DEF FlushUp
  <2>2. FilesTypes'
      BY <1>0, <2>1, WriterGoesEffect DEF FilesTypes, createVars, WriteSteps
  <2>3. WritersReady'
      BY <2>1, WriterGoesEffect DEF WritersReady, WriteSteps
  <2>4. VersionsStay'
      BY <2>1 DEF VersionsStay
  <2>5. \A x \in Everything : Settled'[x] \in Settled[x]..Content[x]
      BY <1>0, <2>1 DEF Settled, Content, Everything, FilesTypes, VersionsStay, ProjectStays, createVars
  <2>6. DurableStep
      BY <1>0, <2>1, <2>5, DurableSettles DEF createVars
  <2> QED BY <1>p, <2>2, <2>3, <2>4, <2>6
<1>4. CASE WriteTemp(t)
  <2>1. /\ fileWriter[t].step = "write" /\ WriterGoes(t, "sync")
        /\ UNCHANGED <<dirThere, dirNamed, inPlace, mayStay, returned, lost>>
      BY <1>4 DEF WriteTemp, WrittenThen
  <2>2. FilesTypes'
      BY <1>0, <2>1, WriterGoesEffect DEF FilesTypes, createVars, WriteSteps
  <2>3. WritersReady'
      BY <2>1, WriterGoesEffect DEF WritersReady, WriteSteps
  <2>4. VersionsStay'
      BY <2>1 DEF VersionsStay
  <2> QED BY <1>0, <1>p, <2>1, <2>2, <2>3, <2>4, DurableStutter DEF createVars
<1>5. CASE SyncTemp(t)
  <2> DEFINE y == [fileWriter[t] EXCEPT !.step = "rename", !.synced = TRUE]
  <2>1. /\ fileWriter[t].step = "sync" /\ fileWriter' = [fileWriter EXCEPT ![t] = y]
        /\ UNCHANGED <<dirThere, dirNamed, inPlace, mayStay, returned, lost>>
      BY <1>5 DEF SyncTemp
  <2>2. fileWriter[t] \in
            [step: WriteSteps, file: FilesOfDir \cup {NotWriting.file}, synced: BOOLEAN]
      BY DEF FilesTypes
  <2>3. /\ y \in [step: WriteSteps, file: FilesOfDir \cup {NotWriting.file}, synced: BOOLEAN]
        /\ y.step = "rename" /\ y.synced /\ y.file = fileWriter[t].file
      BY <2>2 DEF WriteSteps
  <2> HIDE DEF y
  <2>4. /\ fileWriter'[t] = y /\ \A u \in FileThreads \ {t} : fileWriter'[u] = fileWriter[u]
        /\ fileWriter' \in [FileThreads ->
              [step: WriteSteps, file: FilesOfDir \cup {NotWriting.file}, synced: BOOLEAN]]
      BY <2>1, <2>3 DEF FilesTypes
  <2>5. FilesTypes'
      BY <1>0, <2>1, <2>4 DEF FilesTypes, createVars
  <2>6. WritersReady'
      BY <2>1, <2>3, <2>4 DEF WritersReady
  <2>7. VersionsStay'
      BY <2>1 DEF VersionsStay
  <2> QED BY <1>0, <1>p, <2>1, <2>5, <2>6, <2>7, DurableStutter DEF createVars
<1>6. CASE RenameTemp(t)
  <2>0. fileWriter[t].step = "rename" /\ fileWriter[t].file \in FilesOfDir
      BY <1>6 DEF RenameTemp, WritersReady
  <2> DEFINE f == fileWriter[t].file
  <2>1. /\ WriterGoes(t, "flush") /\ inPlace[f] < MaxWritten
        /\ inPlace' = [inPlace EXCEPT ![f] = inPlace[f] + 1]
        /\ mayStay' = [mayStay EXCEPT ![f] = @ \cup {inPlace[f] + 1}]
        /\ UNCHANGED <<dirThere, dirNamed, returned, lost>>
      BY <1>6, <2>0 DEF RenameTemp, WritersReady
  <2>2. FilesTypes'
    <3>1. inPlace' \in [FilesOfDir -> Nat] /\ mayStay' \in [FilesOfDir -> SUBSET Nat]
        BY <2>0, <2>1 DEF FilesTypes
    <3> QED BY <1>0, <2>1, <3>1, WriterGoesEffect DEF FilesTypes, createVars, WriteSteps
  <2>3. WritersReady'
    <3>1. \A g \in FilesOfDir \ {f} : inPlace'[g] = inPlace[g]
        BY <2>1 DEF FilesTypes
    <3> QED BY <2>0, <2>1, <3>1, WriterGoesEffect DEF WritersReady, WriteSteps
  <2>4. VersionsStay'
      BY <2>0, <2>1 DEF VersionsStay, FilesTypes, FilesAssumption
  <2>5. DurableStep
    <3>1. CASE f = "project"
      <4>1. Content' = Content
          BY <1>0, <2>1, <3>1 DEF Content, FilesTypes, createVars, Everything
      <4>2. Settled' = Settled
          BY <1>0, <2>1 DEF Settled, createVars
      <4> QED BY <4>1, <4>2 DEF DurableStep
    <3>2. CASE f # "project"
      <4>1. Content' = [Content EXCEPT ![f] = @ + 1]
          BY <1>0, <2>0, <2>1, <3>2 DEF Content, FilesTypes, createVars, Everything
      <4> QED BY <1>0, <2>0, <2>1, <4>1, DurableReplaces DEF createVars, Everything
    <3> QED BY <3>1, <3>2
  <2> QED BY <1>p, <2>2, <2>3, <2>4, <2>5
<1>7. CASE FlushDir(t)
  <2>0. fileWriter[t].step = "flush" /\ fileWriter[t].file \in FilesOfDir
      BY <1>7 DEF FlushDir, WritersReady
  <2> DEFINE f == fileWriter[t].file
  <2>1. /\ fileWriter' = [fileWriter EXCEPT ![t] = NotWriting]
        /\ returned' = [returned EXCEPT ![f] = inPlace[f]]
        /\ UNCHANGED <<dirThere, dirNamed, inPlace, lost>>
      BY <1>7 DEF FlushDir
  <2>2. mayStay' = [g \in FilesOfDir |-> {inPlace[g]}]
    <3>1. \A g \in FilesOfDir : Torn \notin mayStay[g]
        BY DEF FilesTypes, Torn
    <3> QED BY <1>7, <3>1 DEF FlushDir
  <2>3. FilesTypes'
      BY <1>0, <2>0, <2>1, <2>2, NotWritingType DEF FilesTypes, createVars
  <2>4. WritersReady'
      BY <2>1, NotWritingType DEF WritersReady, FilesTypes
  <2>5. VersionsStay'
      BY <2>0, <2>1, <2>2 DEF VersionsStay, FilesTypes
  <2>6. \A x \in Everything : Settled'[x] \in Settled[x]..Content[x]
      BY <1>0, <2>0, <2>1 DEF Settled, Content, Everything, FilesTypes, VersionsStay, ProjectStays, createVars
  <2>7. DurableStep
      BY <1>0, <2>1, <2>6, DurableSettles DEF createVars
  <2> QED BY <1>p, <2>3, <2>4, <2>5, <2>7
<1>8. CASE WriteFails(t)
  <2>1. /\ fileWriter' = [fileWriter EXCEPT ![t] = NotWriting]
        /\ UNCHANGED <<dirThere, dirNamed, inPlace, mayStay, returned, lost>>
      BY <1>8 DEF WriteFails
  <2>2. FilesTypes'
      BY <1>0, <2>1, NotWritingType DEF FilesTypes, createVars
  <2>3. WritersReady'
      BY <2>1, NotWritingType DEF WritersReady, FilesTypes
  <2>4. VersionsStay'
      BY <2>1 DEF VersionsStay
  <2> QED BY <1>0, <1>p, <2>1, <2>2, <2>3, <2>4, DurableStutter DEF createVars
<1> QED BY <1>1, <1>2, <1>3, <1>4, <1>5, <1>6, <1>7, <1>8

(* The steps of a creation, one step per action.                           *)
LEMMA CreatesKeep ==
    ASSUME FilesIInv, NEW c \in Creators,
           \/ BeginCreate(c) \/ StageFiles(c) \/ FlushTree(c) \/ RenameProject(c)
           \/ FlushProject(c) \/ CreateFails(c)
    PROVE  FilesIInv' /\ DurableStep
<1> USE DEF FilesIInv, CreatorAt
<1>0. UNCHANGED <<fileWriter, dirThere, dirNamed, inPlace, mayStay, returned, lost>>
    BY DEF BeginCreate, StageFiles, FlushTree, RenameProject, FlushProject, CreateFails,
           FilesKeep, fileVars
<1>p. WritersReady' /\ VersionsStay'
    BY <1>0 DEF WritersReady, VersionsStay
<1>t. ASSUME creating' \in [Creators -> [step: CreateSteps, flushed: BOOLEAN]],
             project' \in {0, 1}, projectStay' \subseteq {0, 1}, created' \in BOOLEAN
      PROVE  FilesTypes'
    BY <1>0, <1>t DEF FilesTypes
<1>k. ASSUME NEW s \in CreateSteps \ {"rename"}, CreatorGoes(c, s),
             UNCHANGED <<project, projectStay, created>>, s = "flush" => project = 1
      PROVE  FilesIInv' /\ DurableStep
  <2>1. FilesTypes'
      BY <1>k, <1>t, CreatorGoesEffect DEF FilesTypes
  <2>2. ProjectStays'
      BY <1>k, CreatorGoesEffect DEF ProjectStays
  <2> QED BY <1>0, <1>p, <1>k, <2>1, <2>2, DurableStutter
<1>n. ASSUME creating' = [creating EXCEPT ![c] = NotCreating],
             UNCHANGED <<project, projectStay, created>>
      PROVE  FilesIInv' /\ DurableStep
  <2>1. FilesTypes'
      BY <1>n, <1>t DEF FilesTypes, NotCreating, CreateSteps
  <2>2. ProjectStays'
      BY <1>n DEF ProjectStays, FilesTypes, NotCreating
  <2> QED BY <1>0, <1>p, <1>n, <2>1, <2>2, DurableStutter
<1>1. CASE BeginCreate(c)
    BY <1>1, <1>k DEF BeginCreate, CreateSteps
<1>2. CASE StageFiles(c)
    BY <1>2, <1>k DEF StageFiles, StagedThen, CreateSteps
<1>3. CASE FlushTree(c)
  <2> DEFINE y == [creating[c] EXCEPT !.step = "rename", !.flushed = TRUE]
  <2>1. /\ creating' = [creating EXCEPT ![c] = y]
        /\ UNCHANGED <<project, projectStay, created>>
      BY <1>3 DEF FlushTree
  <2>2. creating[c] \in [step: CreateSteps, flushed: BOOLEAN]
      BY DEF FilesTypes
  <2>3. y \in [step: CreateSteps, flushed: BOOLEAN] /\ y.step = "rename" /\ y.flushed
      BY <2>2 DEF CreateSteps
  <2> HIDE DEF y
  <2>4. /\ creating' \in [Creators -> [step: CreateSteps, flushed: BOOLEAN]]
        /\ creating'[c] = y /\ \A d \in Creators \ {c} : creating'[d] = creating[d]
      BY <2>1, <2>3 DEF FilesTypes
  <2>5. FilesTypes'
      BY <1>t, <2>1, <2>4 DEF FilesTypes
  <2>6. ProjectStays'
      BY <2>1, <2>3, <2>4 DEF ProjectStays
  <2> QED BY <1>0, <1>p, <2>1, <2>5, <2>6, DurableStutter
<1>4. CASE RenameProject(c)
  <2>1. CASE project = 0
    <3>1. /\ project' = 1 /\ projectStay' = projectStay \cup {1} /\ created' = created
          /\ CreatorGoes(c, "flush")
        BY <1>4, <2>1 DEF RenameProject, ProjectStays
    <3>2. FilesTypes'
        BY <1>t, <3>1, CreatorGoesEffect DEF FilesTypes, CreateSteps
    <3>3. ProjectStays'
        BY <2>1, <3>1, CreatorGoesEffect DEF ProjectStays, CreateSteps
    <3>4. Content' = [Content EXCEPT !["project"] = @ + 1]
      <4>1. Content["project"] = 0 /\ "project" \in Everything
          BY <2>1 DEF Content, Everything
      <4>2. Content' = [x \in Everything |-> IF x = "project" THEN 1 ELSE Content[x]]
          BY <1>0, <3>1 DEF Content
      <4>3. Content = [x \in Everything |-> Content[x]]
          BY DEF Content
      <4> QED BY <4>1, <4>2, <4>3
    <3> QED BY <1>0, <1>p, <3>1, <3>2, <3>3, <3>4, DurableReplaces DEF Everything
  <2>2. CASE project # 0
      BY <1>4, <1>n, <2>2 DEF RenameProject
  <2> QED BY <2>1, <2>2
<1>5. CASE FlushProject(c)
  <2>1. /\ CreatorGoes(c, "done") /\ project = 1 /\ project' = project
        /\ projectStay' = projectStay \ {0} /\ created' = TRUE
      BY <1>5 DEF FlushProject, ProjectStays
  <2>2. FilesTypes'
      BY <1>t, <2>1, CreatorGoesEffect DEF FilesTypes, CreateSteps
  <2>3. ProjectStays'
      BY <2>1, CreatorGoesEffect DEF ProjectStays, CreateSteps
  <2>4. \A x \in Everything : Settled'[x] \in Settled[x]..Content[x]
      BY <1>0, <2>1 DEF Settled, Content, Everything, FilesTypes, VersionsStay
  <2>5. DurableStep
      BY <1>0, <2>1, <2>4, DurableSettles
  <2> QED BY <1>p, <2>2, <2>3, <2>5
<1>6. CASE CreateFails(c)
    BY <1>6, <1>n DEF CreateFails
<1> QED BY <1>1, <1>2, <1>3, <1>4, <1>5, <1>6

(* With the process every write and creation under way is over.            *)
LEMMA NothingRunsEffect ==
    ASSUME NothingRuns
    PROVE  /\ fileWriter' \in [FileThreads ->
                 [step: WriteSteps, file: FilesOfDir \cup {NotWriting.file}, synced: BOOLEAN]]
           /\ \A t \in FileThreads : fileWriter'[t].step = "idle"
           /\ creating' \in [Creators -> [step: CreateSteps, flushed: BOOLEAN]]
           /\ \A c \in Creators : creating'[c].step = "idle"
BY NotWritingType DEF NothingRuns, NotCreating, CreateSteps

(* A stop of the process changes nothing on the disk.                      *)
LEMMA StopKeeps ==
    ASSUME FilesIInv, StopProcess
    PROVE  FilesIInv' /\ DurableStep
<1> USE DEF FilesIInv, StopProcess
<1>1. FilesTypes'
    BY NothingRunsEffect DEF FilesTypes
<1>2. WritersReady'
    BY NothingRunsEffect DEF WritersReady
<1>3. VersionsStay' /\ ProjectStays'
    BY NothingRunsEffect DEF VersionsStay, ProjectStays
<1> QED BY <1>1, <1>2, <1>3, DurableStutter

(* A loss of power leaves of each file and of the project a whole version, *)
(* none of which had settled being lost.                                   *)
LEMMA PowerKeeps ==
    ASSUME FilesIInv, LoseThePower
    PROVE  FilesIInv' /\ DurableStep
<1> USE DEF FilesIInv
<1>1. /\ NothingRuns /\ dirNamed' = dirThere'
      /\ mayStay' = [f \in FilesOfDir |-> {inPlace'[f]}]
      /\ project' \in projectStay /\ projectStay' = {project'} /\ created' = created
    BY DEF LoseThePower
<1>2. /\ dirThere' \in BOOLEAN /\ lost' \in BOOLEAN
      /\ inPlace' \in [FilesOfDir -> Nat] /\ returned' \in [FilesOfDir -> Nat]
      /\ \A f \in FilesOfDir : returned'[f] <= inPlace'[f] /\ inPlace'[f] <= inPlace[f]
      /\ dirNamed => /\ dirThere'
                     /\ \A f \in FilesOfDir : returned[f] = returned'[f]
  <2>1. CASE LoseDir
    <3>1. /\ ~dirNamed /\ dirThere' = FALSE /\ inPlace' = [f \in FilesOfDir |-> 0]
          /\ returned' = [f \in FilesOfDir |-> 0]
        BY <2>1 DEF LoseDir
    <3>2. lost' \in BOOLEAN
        BY <2>1 DEF LoseDir
    <3>3. \A f \in FilesOfDir : returned'[f] = 0 /\ inPlace'[f] = 0 /\ inPlace[f] >= 0
        BY <3>1 DEF FilesTypes
    <3>4. inPlace' \in [FilesOfDir -> Nat] /\ returned' \in [FilesOfDir -> Nat]
        BY <3>1
    <3>5. \A f \in FilesOfDir : returned'[f] <= inPlace'[f] /\ inPlace'[f] <= inPlace[f]
        BY <3>3 DEF FilesTypes
    <3> QED BY <3>1, <3>2, <3>4, <3>5, Zenon
  <2>2. CASE KeepDir
    <3>1. /\ dirThere' = dirThere /\ returned' = returned /\ lost' = lost
          /\ inPlace' \in [FilesOfDir -> UNION {mayStay[f] : f \in FilesOfDir}]
          /\ \A f \in FilesOfDir : inPlace'[f] \in mayStay[f]
        BY <2>2 DEF KeepDir
    <3>2. \A f \in FilesOfDir : /\ inPlace'[f] \in Nat /\ returned[f] <= inPlace'[f]
                                /\ inPlace'[f] <= inPlace[f]
        BY <3>1 DEF FilesTypes, VersionsStay
    <3>3. inPlace' \in [FilesOfDir -> Nat]
        BY <3>1, <3>2
    <3> QED BY <3>1, <3>2, <3>3 DEF FilesTypes, WritersReady
  <2> QED BY <2>1, <2>2 DEF LoseThePower
<1>3. FilesTypes'
    BY <1>1, <1>2, NothingRunsEffect DEF FilesTypes
<1>4. WritersReady'
    BY <1>1, NothingRunsEffect DEF WritersReady
<1>5. VersionsStay'
    BY <1>1, <1>2 DEF VersionsStay, FilesTypes, FilesAssumption
<1>6. ProjectStays'
    BY <1>1, NothingRunsEffect DEF ProjectStays, FilesTypes
<1>7. ASSUME NEW x \in Everything
      PROVE  /\ Content'[x] \in Settled[x]..Content[x]
             /\ Settled'[x] \in Settled[x]..Content'[x]
  <2>1. CASE x = "project"
      BY <1>1, <2>1 DEF Content, Settled, FilesTypes, ProjectStays
  <2>2. CASE x # "project"
      BY <1>1, <1>2, <2>2 DEF Content, Settled, Everything, FilesTypes, VersionsStay
  <2> QED BY <2>1, <2>2
<1>8. DurableStep
    BY <1>7, DurableLoses
<1> QED BY <1>3, <1>4, <1>5, <1>6, <1>8
-----------------------------------------------------------------------------
(* At first there is nothing, and no directory to hold it.                 *)
LEMMA FilesStart == FilesInit => FilesIInv /\ Durable!DurableInit
<1> SUFFICES ASSUME FilesInit PROVE FilesIInv /\ Durable!DurableInit
    OBVIOUS
<1> USE DEF FilesInit
<1>1. FilesTypes
  <2>1. fileWriter \in [FileThreads ->
            [step: WriteSteps, file: FilesOfDir \cup {NotWriting.file}, synced: BOOLEAN]]
      BY NotWritingType
  <2>2. creating \in [Creators -> [step: CreateSteps, flushed: BOOLEAN]]
      BY DEF NotCreating, CreateSteps
  <2>3. /\ inPlace \in [FilesOfDir -> Nat] /\ returned \in [FilesOfDir -> Nat]
        /\ mayStay \in [FilesOfDir -> SUBSET Nat]
      OBVIOUS
  <2>4. project \in {0, 1} /\ projectStay \subseteq {0, 1}
      OBVIOUS
  <2>5. dirThere \in BOOLEAN /\ dirNamed \in BOOLEAN /\ created \in BOOLEAN /\ lost \in BOOLEAN
      BY Zenon
  <2> QED BY <2>1, <2>2, <2>3, <2>4, <2>5, Zenon DEF FilesTypes
<1>2. WritersReady
    BY NotWritingType DEF WritersReady
<1>3. VersionsStay /\ ProjectStays
    BY DEF VersionsStay, ProjectStays, NotCreating, FilesAssumption
<1>4. Durable!DurableInit
    BY DEF Durable!DurableInit, Everything
<1> QED BY <1>1, <1>2, <1>3, <1>4 DEF FilesIInv

(* Every step keeps the invariant and is a step of DurableFiles, or none.  *)
LEMMA FilesStep ==
    ASSUME FilesIInv, [FilesNext]_filesVars
    PROVE  FilesIInv' /\ DurableStep
<1>1. CASE UNCHANGED filesVars
    BY <1>1, DurableStutter
       DEF filesVars, fileVars, createVars, FilesIInv, FilesTypes, WritersReady,
           VersionsStay, ProjectStays
<1>2. CASE FilesNext
    BY <1>2, WritesKeep, CreatesKeep, StopKeeps, PowerKeeps
       DEF FilesNext, WritesNext, CreatesNext
<1> QED BY <1>1, <1>2

(* What the writers and creators rely on holds at all times.               *)
THEOREM FilesInvariance == FilesSpec => []FilesIInv
<1>1. FilesIInv /\ [FilesNext]_filesVars => FilesIInv'
    BY FilesStep
<1> QED BY <1>1, FilesStart, PTL DEF FilesSpec

(* The variables have their types.                                         *)
THEOREM FilesTypeCorrect ==
    ASSUME FilesOfDir # {}
    PROVE  FilesSpec => []FilesTypeOK
<1>1. FilesIInv => FilesTypeOK
  <2> SUFFICES ASSUME FilesIInv PROVE FilesTypeOK
      OBVIOUS
  <2> USE DEF FilesIInv
  <2>1. NotWriting.file \in FilesOfDir
      BY DEF NotWriting
  <2>2. inPlace \in [FilesOfDir -> Torn..MaxWritten]
      BY DEF FilesTypes, VersionsStay, Torn, FilesAssumption
  <2>3. mayStay \in [FilesOfDir -> SUBSET (Torn..MaxWritten)]
      BY DEF FilesTypes, VersionsStay, Torn, FilesAssumption
  <2>4. returned \in [FilesOfDir -> 0..MaxWritten]
      BY DEF FilesTypes, VersionsStay, FilesAssumption
  <2>5. fileWriter \in [FileThreads -> [step: WriteSteps, file: FilesOfDir, synced: BOOLEAN]]
      BY <2>1 DEF FilesTypes
  <2> QED BY <2>2, <2>3, <2>4, <2>5 DEF FilesTypes, FilesTypeOK
<1> QED BY <1>1, FilesInvariance, PTL

(* However steps fail and whenever the power is lost, each file and the    *)
(* project is a whole version of itself, and not older than what a write   *)
(* returned for once the directory's name is on the disk.                  *)
THEOREM DurableFilesImplemented == FilesSpec => ImplementsDurableFiles
<1>1. FilesIInv /\ [FilesNext]_filesVars => DurableStep
    BY FilesStep
<1> QED BY <1>1, FilesStart, FilesInvariance, PTL
        DEF FilesSpec, ImplementsDurableFiles, Durable!DurableSpec, DurableStep, Content, Settled
=============================================================================
