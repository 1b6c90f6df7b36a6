-------------------------- MODULE JobRuntime_proofs --------------------------
(***************************************************************************)
(* Proofs about JobRuntime, for any number of runtimes, providers, jobs    *)
(* and keys.                                                               *)
(***************************************************************************)
EXTENDS JobRuntime, TLAPS

USE RuntimeAssumption

(* A job's lock is held for a call on an unfinished intent of that job;    *)
(* the provider is called for an intent that counts the attempt.           *)
OpPremises ==
    \A j \in Job : op[j].phase # "idle" =>
        /\ JobFor(op[j].rec.work) = j
        /\ op[j].rec.state \in {"prepared", "invoked"}
        /\ Invoking(j) => op[j].rec.state = "prepared" /\ op[j].rec.attempts > 0
        /\ op[j].phase = "answered" =>
              op[j].answer \in {"completed", "pending", "retryable", "terminal"}

(* The inductive invariant.  SnapshotIsFresh and OpPremises say what a     *)
(* call relies on while no lock but its job's is held; TxnPremises what a  *)
(* multi-file operation relies on between two files; the others are the    *)
(* safety properties themselves.                                           *)
IInv ==
    /\ TypeOK
    /\ OpPremises
    /\ SnapshotIsFresh
    /\ NoDanglingMapping
    /\ TxnPremises
    /\ PaidWorkIsRecorded
    /\ AcknowledgedForever

(* A recorded intent is a full record, and so is the operation under way.  *)
LEMMA Shapes ==
    ASSUME TypeOK
    PROVE  /\ \A j \in Job : Recorded(j) => intent[j] \in Intent
           /\ ~StoreFree => txn \in Txn
           /\ \A j \in Job : ~JobFree(j) => op[j] \in Op
           /\ \A r \in Runtime : waiting[r].what # "none" => waiting[r] \in Call
BY DEF TypeOK, Recorded, NoIntent, StoreFree, NoTxn, JobFree, NoOp, NoCall

(* The job of a piece of work is a job.                                    *)
LEMMA JobForType == \A w \in Work : JobFor(w) \in Job
BY DEF Work, JobFor

(* Claiming keeps the table of claims well-formed.                         *)
LEMMA ClaimType ==
    ASSUME NEW r \in Runtime, NEW j \in Job, TypeOK
    PROVE  Claim(r, j) \in [Job -> Runtime \cup {NoRuntime}]
BY DEF TypeOK, Claim

(* An answer of the provider moves one call on and touches nothing else.    *)
LEMMA AdvanceEffect ==
    ASSUME TypeOK, NEW j \in Job, op[j] \in Op,
           NEW p \in {"calling", "accepted", "answered", "querying", "reported"},
           NEW a \in {"none", "completed", "pending", "retryable", "terminal",
                      "missing", "failed"},
           NEW h \in BOOLEAN,
           Advance(j, p, a, h)
    PROVE  /\ op' \in [Job -> Op \cup {NoOp}]
           /\ op'[j].phase = p /\ op'[j].rec = op[j].rec /\ op'[j].answer = a
           /\ \A k \in Job \ {j} : op'[k] = op[k]
<1> DEFINE y == [op[j] EXCEPT !.phase = p, !.answer = a, !.handle = h]
<1>1. y \in Op /\ y.phase = p /\ y.rec = op[j].rec /\ y.answer = a
    BY DEF Op
<1>2. op' = [op EXCEPT ![j] = y]
    BY DEF Advance
<1> HIDE DEF y
<1> QED BY <1>1, <1>2 DEF TypeOK

(* Type correctness, one step per action.                                  *)
LEMMA TypeStep ==
    ASSUME TypeOK, OpPremises, TxnPremises, [Next]_vars
    PROVE  TypeOK'
<1> USE DEF TypeOK
<1>s. /\ \A j \in Job : Recorded(j) => intent[j] \in Intent
      /\ ~StoreFree => txn \in Txn
      /\ \A j \in Job : ~JobFree(j) => op[j] \in Op
      /\ \A r \in Runtime : waiting[r].what # "none" => waiting[r] \in Call
    BY Shapes
<1>1. ASSUME NEW r \in Runtime, NewRuntime(r) PROVE TypeOK'
    BY <1>1 DEF NewRuntime, files
<1>2. ASSUME NEW r \in Runtime, DropRuntime(r) PROVE TypeOK'
    BY <1>2 DEF DropRuntime, files
<1>3. ASSUME NEW r \in Runtime, NEW w \in Work, Prepare(r, w) PROVE TypeOK'
  <2> USE <1>3, JobForType, ClaimType DEF Prepare, SaveReservation, BeginTxn, EndTxn, Txn, ReservationState, files
  <2>1. CASE PrepareNew(r, w)
      BY <2>1 DEF PrepareNew
  <2>2. CASE PrepareClears(r, w)
      BY <2>2 DEF PrepareClears
  <2>3. CASE PrepareExisting(r, w)
      BY <2>3 DEF PrepareExisting
  <2>4. CASE PreparePruned(r, w)
      BY <2>4 DEF PreparePruned
  <2> QED BY <2>1, <2>2, <2>3, <2>4
<1>4. ASSUME NEW r \in Runtime, NEW j \in Job, StartInvoke(r, j) PROVE TypeOK'
    BY <1>4, ClaimType DEF StartInvoke, Call, files
<1>5. ASSUME NEW r \in Runtime, BeginInvoke(r) PROVE TypeOK'
  <2> DEFINE j == waiting[r].job
             rec == [intent[j] EXCEPT !.attempts = @ + 1, !.err = "none"]
  <2>1. j \in Job
      BY <1>5, <1>s DEF BeginInvoke, Call
  <2>2. CASE PermitFor(ProviderOf[r]) /\ MayInvoke(r, j)
    <3>1. rec \in Intent
      <4>1. intent[j] \in Intent /\ intent[j].attempts < MaxAttempts
          BY <2>1, <2>2, <1>s DEF MayInvoke
      <4>2. intent[j].attempts + 1 \in 0..MaxAttempts
          BY <4>1 DEF Intent
      <4>3. \A n \in 0..MaxAttempts :
               [intent[j] EXCEPT !.attempts = n, !.err = "none"] \in Intent
          BY <4>1 DEF Intent
      <4> QED BY <4>2, <4>3
    <3>2. /\ intent' = [intent EXCEPT ![j] = rec]
          /\ op' = [op EXCEPT ![j] = [phase |-> "calling", by |-> r, rec |-> rec,
                                      answer |-> "none", handle |-> FALSE]]
        BY <1>5, <2>2 DEF BeginInvoke
    <3>3. [phase |-> "calling", by |-> r, rec |-> rec,
           answer |-> "none", handle |-> FALSE] \in Op
        BY <3>1 DEF Op
    <3>4. /\ intent' \in [Job -> Intent \cup {NoIntent}]
          /\ op' \in [Job -> Op \cup {NoOp}]
        BY <2>1, <3>1, <3>2, <3>3
    <3> QED BY <1>5, <3>4 DEF BeginInvoke
  <2>3. CASE ~(PermitFor(ProviderOf[r]) /\ MayInvoke(r, j))
      BY <1>5, <2>3 DEF BeginInvoke
  <2> QED BY <2>2, <2>3
<1>6. ASSUME NEW j \in Job, JobStep(j) PROVE TypeOK'
  <2> USE <1>s DEF files, JobFree
  <2>1. CASE ProviderAccepts(j)
    <3>1. op[j] \in Op /\ op[j].rec.work \in Work
        BY <2>1 DEF ProviderAccepts, Op, Intent
    <3>2. op' \in [Job -> Op \cup {NoOp}]
        BY <2>1, <3>1, AdvanceEffect DEF ProviderAccepts
    <3> QED BY <2>1, <3>1, <3>2 DEF ProviderAccepts
  <2>2. CASE ProviderAnswers(j)
    <3>1. op[j] \in Op
        BY <2>2 DEF ProviderAnswers
    <3>2. PICK a \in {"completed", "pending", "retryable", "terminal"}, h \in BOOLEAN :
             Advance(j, "answered", a, h)
        BY <2>2 DEF ProviderAnswers
    <3>3. op' \in [Job -> Op \cup {NoOp}]
        BY <3>1, <3>2, AdvanceEffect
    <3> QED BY <2>2, <3>3 DEF ProviderAnswers
  <2>3. CASE RecordAnswer(j)
    <3>1. op[j] \in Op /\ op[j].rec \in Intent /\ op[j].handle \in BOOLEAN
        BY <2>3 DEF RecordAnswer, Op
    <3>2. op[j].answer \in {"completed", "pending", "retryable", "terminal"}
        BY <2>3 DEF RecordAnswer, OpPremises
    <3> DEFINE y == [op[j].rec EXCEPT !.state = "invoked", !.handle = op[j].handle]
               z == [op[j].rec EXCEPT !.err = op[j].answer]
    <3>4. /\ y \in Intent
          /\ op[j].answer \notin {"completed", "pending"} => z \in Intent
        BY <3>1, <3>2 DEF Intent
    <3>5. intent' = [intent EXCEPT ![j] =
                        IF op[j].answer \in {"completed", "pending"} THEN y ELSE z]
        BY <2>3 DEF RecordAnswer
    <3> HIDE DEF y, z
    <3>3. intent' \in [Job -> Intent \cup {NoIntent}]
        BY <3>4, <3>5
    <3> QED BY <2>3, <3>3 DEF RecordAnswer, Unlock
  <2>4. CASE LoseAnswer(j)
      BY <2>4 DEF LoseAnswer, Unlock
  <2>5. CASE ProviderReports(j)
    <3>1. op[j] \in Op
        BY <2>5 DEF ProviderReports
    <3>2. PICK a \in {"completed", "pending", "missing", "failed"}, h \in BOOLEAN :
             Advance(j, "reported", a, h)
        BY <2>5 DEF ProviderReports
    <3>3. op' \in [Job -> Op \cup {NoOp}]
        BY <3>1, <3>2, AdvanceEffect
    <3> QED BY <2>5, <3>3 DEF ProviderReports
  <2>6. CASE RecordReport(j)
    <3>1. op[j] \in Op /\ op[j].rec \in Intent /\ op[j].handle \in BOOLEAN
        BY <2>6 DEF RecordReport, Op
    <3> DEFINE y == [op[j].rec EXCEPT !.state = "invoked", !.handle = op[j].handle,
                                      !.err = "none"]
    <3>3. y \in Intent
        BY <3>1 DEF Intent
    <3>4. intent' = intent \/ intent' = [intent EXCEPT ![j] = y]
        BY <2>6 DEF RecordReport
    <3> HIDE DEF y
    <3>2. intent' \in [Job -> Intent \cup {NoIntent}]
        BY <3>3, <3>4
    <3> QED BY <2>6, <3>2 DEF RecordReport, Unlock
  <2> QED BY <1>6, <2>1, <2>2, <2>3, <2>4, <2>5, <2>6 DEF JobStep
<1>7. ASSUME NEW r \in Runtime, NEW j \in Job, Acknowledge(r, j) PROVE TypeOK'
  <2>1. intent[j] \in Intent /\ intent[j].work \in Work
      BY <1>7, <1>s DEF Acknowledge, Intent
  <2>2. [intent[j] EXCEPT !.state = "reconciled"] \in Intent
      BY <2>1 DEF Intent
  <2>3. intent' \in [Job -> Intent \cup {NoIntent}]
      BY <1>7, <2>2 DEF Acknowledge
  <2> QED BY <1>7, <2>1, <2>3 DEF Acknowledge
<1>8. ASSUME NEW r \in Runtime, PruneReconciled(r) PROVE TypeOK'
    BY <1>8, <1>s DEF PruneReconciled, ReconciledOf, Excess, EndTxn, Txn, Intent, files
<1>9. ASSUME NEW r \in Runtime, NEW j \in Job, Retire(r, j) PROVE TypeOK'
  <2>1. intent[j].work \in Work
      BY <1>9, <1>s DEF Retire, RetireFailed, RetireUnresolved, RetireUnattempted,
                        RetireRemoteFailure, Recorded, Intent
  <2> QED BY <1>9, <2>1 DEF Retire, ReturnToReserved, SaveReservation, BeginTxn,
                            Txn, ReservationState
<1>10. ASSUME NEW r \in Runtime, NEW j \in Job, PickUnfinished(r, j) PROVE TypeOK'
    BY <1>10 DEF PickUnfinished, Call, files
<1>11. ASSUME NEW r \in Runtime, BeginReconcile(r) PROVE TypeOK'
  <2> DEFINE j == waiting[r].job
  <2>1. j \in Job
      BY <1>11, <1>s DEF BeginReconcile, Call
  <2>2. \/ op' = op
        \/ /\ Recorded(j)
           /\ op' = [op EXCEPT ![j] = [phase |-> "querying", by |-> r,
                         rec |-> intent[j], answer |-> "none", handle |-> FALSE]]
      BY <1>11 DEF BeginReconcile
  <2>3. op' \in [Job -> Op \cup {NoOp}]
    <3>1. Recorded(j) => [phase |-> "querying", by |-> r, rec |-> intent[j],
                          answer |-> "none", handle |-> FALSE] \in Op
        BY <1>s, <2>1 DEF Op
    <3> QED BY <2>1, <2>2, <3>1
  <2> QED BY <1>11, <2>3 DEF BeginReconcile, files
<1>12. CASE StoreStep
  <2> USE <1>s, JobForType DEF StoreFree, SaveReservation, EndTxn, Txn, ReservationState
  <2>1. CASE SaveReserved
      BY <2>1 DEF SaveReserved
  <2>2. CASE SaveNewIntent
      BY <2>2 DEF SaveNewIntent, NewIntent, Intent
  <2>3. CASE SaveActive
      BY <2>3, ClaimType DEF SaveActive
  <2>4. CASE SavePruning
      BY <2>4 DEF SavePruning
  <2>5. CASE DiscardIntent
      BY <2>5 DEF DiscardIntent
  <2>6. CASE SavePruned
    <3>1. txn \in Txn
        BY <2>6 DEF SavePruned
    <3>2. \A k \in Job, v \in Work :
             [txn EXCEPT !.step = "mark", !.work = v, !.rest = @ \ {k}] \in Txn
        BY <3>1 DEF Txn
    <3>3. ASSUME txn.rest = {} PROVE txn' \in Txn \cup {NoTxn}
        BY <2>6, <3>3 DEF SavePruned, NextPruning
    <3>4. ASSUME txn.rest # {} PROVE txn' \in Txn \cup {NoTxn}
      <4>1. PICK k \in txn.rest : txn' =
               [txn EXCEPT !.step = "mark", !.work = intent[k].work, !.rest = @ \ {k}]
          BY <2>6, <3>4 DEF SavePruned, NextPruning
      <4>2. k \in Job /\ intent[k].work \in Work
          BY <1>s, <2>6, <3>1, <4>1 DEF SavePruned, TxnPremises, Intent
      <4>3. [txn EXCEPT !.step = "mark", !.work = intent[k].work, !.rest = @ \ {k}]
               \in Txn
          BY <3>2, <4>2
      <4> QED BY <4>1, <4>3
    <3>5. txn' \in Txn \cup {NoTxn}
        BY <3>3, <3>4
    <3> QED BY <2>6, <3>1, <3>5 DEF SavePruned
  <2>7. CASE UnlinkIntent
      BY <2>7 DEF UnlinkIntent
  <2>8. CASE RemoveReservation
      BY <2>8 DEF RemoveReservation
  <2> QED BY <1>12, <2>1, <2>2, <2>3, <2>4, <2>5, <2>6, <2>7, <2>8 DEF StoreStep
<1>13. CASE FailTxn
    BY <1>13 DEF FailTxn, files
<1>14. CASE Crash
    BY <1>14 DEF Crash, files
<1>15. CASE UNCHANGED vars
    BY <1>15 DEF vars, files, memory
<1> QED BY <1>1, <1>2, <1>3, <1>4, <1>5, <1>6, <1>7, <1>8, <1>9, <1>10, <1>11,
           <1>12, <1>13, <1>14, <1>15 DEF Next, RuntimeStep

(* The rest of the invariant speaks of these variables only.  It is        *)
(* proved one piece of work and one job at a time: every step changes the  *)
(* files of a single piece of work.                                        *)
core == <<intent, reservation, txn, op, paid, acked>>

WorkOK(w) ==
    LET rec == intent[JobFor(w)]
    IN  /\ Holds(w) => reservation[w] \in {"reserved", "active", "pruning"}
        /\ reservation[w] = "active" => Holds(w)
        /\ reservation[w] = "pruning" /\ Holds(w) => rec.state = "reconciled"
        /\ w \in paid => \/ Holds(w) /\ rec.attempts > 0
                         \/ ~Holds(w) /\ reservation[w] \in {"pruning", "pruned"}
        /\ w \in acked <=> \/ Holds(w) /\ rec.state = "reconciled"
                           \/ ~Holds(w) /\ reservation[w] \in {"pruning", "pruned"}

JobOK(j) ==
    /\ Recorded(j) => JobFor(intent[j].work) = j
    /\ op[j].phase # "idle" =>
          /\ intent[j] = op[j].rec
          /\ JobFor(op[j].rec.work) = j
          /\ op[j].rec.state \in {"prepared", "invoked"}
          /\ Invoking(j) => op[j].rec.state = "prepared" /\ op[j].rec.attempts > 0
          /\ op[j].phase = "answered" =>
                op[j].answer \in {"completed", "pending", "retryable", "terminal"}

Rest ==
    /\ OpPremises
    /\ SnapshotIsFresh
    /\ NoDanglingMapping
    /\ TxnPremises
    /\ PaidWorkIsRecorded
    /\ AcknowledgedForever

(* A step on none of these variables keeps the rest of the invariant.      *)
LEMMA Frame ==
    ASSUME Rest, UNCHANGED core
    PROVE  Rest'
BY DEF Rest, core, OpPremises, SnapshotIsFresh, NoDanglingMapping, TxnPremises,
       PaidWorkIsRecorded, AcknowledgedForever, Invoking, Holds, Recorded, JobFree

(* What the proofs below take from the type of the state.                  *)
LEMMA Types ==
    ASSUME TypeOK
    PROVE  /\ intent \in [Job -> Intent \cup {NoIntent}]
           /\ reservation \in [Work -> ReservationState]
           /\ op \in [Job -> Op \cup {NoOp}]
           /\ \A w \in Work : JobFor(w) \in Job
           /\ \A j \in Job : Recorded(j) => /\ intent[j] \in Intent
                                            /\ intent[j].work \in Work
           /\ \A j \in Job : ~JobFree(j) => /\ op[j] \in Op
                                            /\ op[j].rec \in Intent
                                            /\ op[j].rec.work \in Work
           /\ ~StoreFree => txn \in Txn /\ txn.work \in Work /\ txn.rest \subseteq Job
BY Shapes, JobForType DEF TypeOK, Intent, Op, Txn

(* The invariant, one piece of work and one job at a time.                 *)
LEMMA TakeApart ==
    ASSUME IInv
    PROVE  /\ \A w \in Work : WorkOK(w)
           /\ \A j \in Job : JobOK(j)
<1> USE DEF IInv
<1>1. ASSUME NEW w \in Work PROVE WorkOK(w)
  <2>1. JobFor(w) \in Job
      BY Types
  <2> QED BY <2>1 DEF WorkOK, NoDanglingMapping, PaidWorkIsRecorded,
                      AcknowledgedForever, Holds
<1>2. ASSUME NEW j \in Job PROVE JobOK(j)
    BY DEF JobOK, OpPremises, SnapshotIsFresh, NoDanglingMapping
<1> QED BY <1>1, <1>2

(* And back again.                                                         *)
LEMMA PutTogether ==
    ASSUME TypeOK', \A w \in Work : WorkOK(w)', \A j \in Job : JobOK(j)', TxnPremises'
    PROVE  Rest'
<1> SUFFICES ASSUME TRUE PROVE Rest'
    OBVIOUS
<1>1. OpPremises' /\ SnapshotIsFresh'
    BY DEF OpPremises, SnapshotIsFresh, JobOK
<1>2. NoDanglingMapping'
  <2>1. ASSUME NEW j \in Job, Recorded(j)'
        PROVE  /\ JobFor(intent'[j].work) = j
               /\ reservation'[intent'[j].work] \in {"reserved", "active", "pruning"}
    <3>1. intent'[j].work \in Work
        BY <2>1 DEF TypeOK, Recorded, NoIntent, Intent
    <3>2. JobFor(intent'[j].work) = j
        BY <2>1 DEF JobOK
    <3> QED BY <2>1, <3>1, <3>2 DEF WorkOK, Holds
  <2> QED BY <2>1 DEF NoDanglingMapping, WorkOK
<1>3. PaidWorkIsRecorded'
    BY DEF PaidWorkIsRecorded, WorkOK, TypeOK
<1>4. AcknowledgedForever'
    BY DEF AcknowledgedForever, WorkOK
<1> QED BY <1>1, <1>2, <1>3, <1>4 DEF Rest

(* The ledger step a step of the runtime amounts to.                       *)
LedgerStep == [Ledger!LedgerNext]_(Ledger!ledger)

CallingFor(w) == Invoking(JobFor(w)) /\ op[JobFor(w)].rec.work = w

(* A step that changes no standing and no call is no ledger step.          *)
LEMMA LedgerStutter ==
    ASSUME \A w \in Work : /\ StandingOf(w)' = StandingOf(w)
                           /\ CallingFor(w)' <=> CallingFor(w)
    PROVE  LedgerStep
BY DEF LedgerStep, Ledger!ledger, CallingFor

(* A step that changes one standing changes one line of the ledger.        *)
LEMMA LedgerMove ==
    ASSUME NEW w \in Work, NEW s,
           StandingOf(w)' = s,
           \A v \in Work \ {w} : StandingOf(v)' = StandingOf(v)
    PROVE  [v \in Work |-> StandingOf(v)]'
              = [[v \in Work |-> StandingOf(v)] EXCEPT ![w] = s]
OBVIOUS

(* A step that changes nobody's call leaves the ledger's calls alone.      *)
LEMMA LedgerCalls ==
    ASSUME \A w \in Work : CallingFor(w)' <=> CallingFor(w)
    PROVE  UNCHANGED {w \in Work : Invoking(JobFor(w)) /\ op[JobFor(w)].rec.work = w}
BY DEF CallingFor

(* A call that starts joins the ledger's calls.                            *)
LEMMA LedgerCallStarts ==
    ASSUME NEW w \in Work, CallingFor(w)',
           \A v \in Work \ {w} : CallingFor(v)' <=> CallingFor(v)
    PROVE  {v \in Work : Invoking(JobFor(v)) /\ op[JobFor(v)].rec.work = v}'
              = {v \in Work : Invoking(JobFor(v)) /\ op[JobFor(v)].rec.work = v} \cup {w}
BY DEF CallingFor

(* A call that ends leaves the ledger's calls.                             *)
LEMMA LedgerCallEnds ==
    ASSUME NEW w \in Work, ~CallingFor(w)',
           \A v \in Work \ {w} : CallingFor(v)' <=> CallingFor(v)
    PROVE  {v \in Work : Invoking(JobFor(v)) /\ op[JobFor(v)].rec.work = v}'
              = {v \in Work : Invoking(JobFor(v)) /\ op[JobFor(v)].rec.work = v} \ {w}
BY DEF CallingFor

(* prepare, unknown work: Reserved is written, the ledger stands still.    *)
LEMMA PrepareNewStep ==
    ASSUME IInv, TypeOK', NEW r \in Runtime, NEW w \in Work, PrepareNew(r, w),
           UNCHANGED <<op, paid, acked>>
    PROVE  Rest' /\ LedgerStep
<1>1. /\ JobFor(w) \in Job
      /\ reservation[w] = "none" /\ ~Recorded(JobFor(w))
      /\ reservation' = [reservation EXCEPT ![w] = "reserved"]
      /\ txn'.step = "create" /\ txn'.work = w
      /\ UNCHANGED <<intent, op, paid, acked>>
    BY Types DEF IInv, PrepareNew, SaveReservation, BeginTxn
<1>2. ASSUME NEW v \in Work PROVE WorkOK(v)'
  <2>1. WorkOK(v) /\ JobFor(v) \in Job
      BY TakeApart, Types DEF IInv
  <2> QED BY <1>1, <2>1 DEF IInv, TypeOK, WorkOK, Holds, Recorded
<1>3. ASSUME NEW k \in Job PROVE JobOK(k)'
  <2>1. JobOK(k)
      BY TakeApart
  <2> QED BY <1>1, <2>1 DEF IInv, TypeOK, JobOK, Recorded, Invoking
<1>4. TxnPremises'
    BY <1>1 DEF IInv, TypeOK, TxnPremises, Holds, Recorded, JobFree
<1>5. LedgerStep
  <2>1. ASSUME NEW v \in Work
        PROVE  StandingOf(v)' = StandingOf(v) /\ (CallingFor(v)' <=> CallingFor(v))
    <3>1. WorkOK(v) /\ JobFor(v) \in Job
        BY TakeApart, Types DEF IInv
    <3> QED BY <1>1, <3>1 DEF IInv, TypeOK, WorkOK, StandingOf, CallingFor, Holds,
                              Recorded, Invoking
  <2> QED BY <2>1, LedgerStutter
<1> QED BY <1>2, <1>3, <1>4, <1>5, PutTogether

(* prepare, a Reserved mapping without an intent is cleared.               *)
LEMMA PrepareClearsStep ==
    ASSUME IInv, TypeOK', NEW r \in Runtime, NEW w \in Work, PrepareClears(r, w),
           UNCHANGED <<op, paid, acked>>
    PROVE  Rest' /\ LedgerStep
<1>1. /\ JobFor(w) \in Job
      /\ reservation[w] = "reserved" /\ ~Recorded(JobFor(w))
      /\ reservation' = [reservation EXCEPT ![w] = "none"]
      /\ txn'.step = "reserve" /\ txn'.work = w
      /\ UNCHANGED <<intent, op, paid, acked>>
    BY Types DEF IInv, PrepareClears, SaveReservation, BeginTxn
<1>2. ASSUME NEW v \in Work PROVE WorkOK(v)'
  <2>1. WorkOK(v) /\ JobFor(v) \in Job
      BY TakeApart, Types DEF IInv
  <2> QED BY <1>1, <2>1 DEF IInv, TypeOK, WorkOK, Holds, Recorded
<1>3. ASSUME NEW k \in Job PROVE JobOK(k)'
  <2>1. JobOK(k)
      BY TakeApart
  <2> QED BY <1>1, <2>1 DEF IInv, TypeOK, JobOK, Recorded, Invoking
<1>4. TxnPremises'
    BY <1>1 DEF IInv, TypeOK, TxnPremises, Holds, Recorded, JobFree
<1>5. LedgerStep
  <2>1. ASSUME NEW v \in Work
        PROVE  StandingOf(v)' = StandingOf(v) /\ (CallingFor(v)' <=> CallingFor(v))
    <3>1. WorkOK(v) /\ JobFor(v) \in Job
        BY TakeApart, Types DEF IInv
    <3> QED BY <1>1, <3>1 DEF IInv, TypeOK, WorkOK, StandingOf, CallingFor, Holds,
                              Recorded, Invoking
  <2> QED BY <2>1, LedgerStutter
<1> QED BY <1>2, <1>3, <1>4, <1>5, PutTogether

(* prepare, the intent exists and its mapping becomes Active.              *)
LEMMA PrepareExistingStep ==
    ASSUME IInv, TypeOK', NEW r \in Runtime, NEW w \in Work, PrepareExisting(r, w),
           UNCHANGED <<op, paid, acked>>
    PROVE  Rest' /\ LedgerStep
<1>1. /\ JobFor(w) \in Job
      /\ reservation[w] \in {"reserved", "active"} /\ Holds(w)
      /\ reservation' = [reservation EXCEPT ![w] = "active"]
      /\ txn'.step = "idle"
      /\ UNCHANGED <<intent, op, paid, acked>>
    BY Types DEF IInv, PrepareExisting, SaveReservation, StoreFree
<1>2. ASSUME NEW v \in Work PROVE WorkOK(v)'
  <2>1. WorkOK(v) /\ JobFor(v) \in Job
      BY TakeApart, Types DEF IInv
  <2> QED BY <1>1, <2>1 DEF IInv, TypeOK, WorkOK, Holds, Recorded
<1>3. ASSUME NEW k \in Job PROVE JobOK(k)'
  <2>1. JobOK(k)
      BY TakeApart
  <2> QED BY <1>1, <2>1 DEF IInv, TypeOK, JobOK, Recorded, Invoking
<1>4. TxnPremises'
    BY <1>1 DEF IInv, TypeOK, TxnPremises, Holds, Recorded, JobFree
<1>5. LedgerStep
  <2>1. ASSUME NEW v \in Work
        PROVE  StandingOf(v)' = StandingOf(v) /\ (CallingFor(v)' <=> CallingFor(v))
    <3>1. WorkOK(v) /\ JobFor(v) \in Job
        BY TakeApart, Types DEF IInv
    <3> QED BY <1>1, <3>1 DEF IInv, TypeOK, WorkOK, StandingOf, CallingFor, Holds,
                              Recorded, Invoking
  <2> QED BY <2>1, LedgerStutter
<1> QED BY <1>2, <1>3, <1>4, <1>5, PutTogether

(* prepare, an interrupted pruning is taken up again.                      *)
LEMMA PreparePrunedStep ==
    ASSUME IInv, TypeOK', NEW r \in Runtime, NEW w \in Work, PreparePruned(r, w),
           UNCHANGED <<op, paid, acked>>
    PROVE  Rest' /\ LedgerStep
<1>1. /\ JobFor(w) \in Job
      /\ reservation[w] = "pruning"
      /\ \/ ~Recorded(JobFor(w)) /\ txn'.step = "tombstone"
         \/ /\ Holds(w) /\ intent[JobFor(w)].state = "reconciled"
            /\ txn'.step = "discard"
      /\ txn'.work = w /\ txn'.rest = {}
      /\ UNCHANGED <<intent, reservation, op, paid, acked>>
    BY Types DEF IInv, PreparePruned, BeginTxn, files
<1>2. ASSUME NEW v \in Work PROVE WorkOK(v)'
  <2>1. WorkOK(v) /\ JobFor(v) \in Job
      BY TakeApart, Types DEF IInv
  <2> QED BY <1>1, <2>1 DEF IInv, TypeOK, WorkOK, Holds, Recorded
<1>3. ASSUME NEW k \in Job PROVE JobOK(k)'
  <2>1. JobOK(k)
      BY TakeApart
  <2> QED BY <1>1, <2>1 DEF IInv, TypeOK, JobOK, Recorded, Invoking
<1>4. TxnPremises'
    BY <1>1 DEF IInv, TypeOK, TxnPremises, Holds, Recorded, JobFree
<1>5. LedgerStep
  <2>1. ASSUME NEW v \in Work
        PROVE  StandingOf(v)' = StandingOf(v) /\ (CallingFor(v)' <=> CallingFor(v))
    <3>1. WorkOK(v) /\ JobFor(v) \in Job
        BY TakeApart, Types DEF IInv
    <3> QED BY <1>1, <3>1 DEF IInv, TypeOK, WorkOK, StandingOf, CallingFor, Holds,
                              Recorded, Invoking
  <2> QED BY <2>1, LedgerStutter
<1> QED BY <1>2, <1>3, <1>4, <1>5, PutTogether

(* Reserved is written for the work whose mapping was cleared.             *)
LEMMA SaveReservedStep ==
    ASSUME IInv, TypeOK', SaveReserved
    PROVE  Rest' /\ LedgerStep
<1> DEFINE w == txn.work
<1>1. /\ w \in Work /\ JobFor(w) \in Job /\ txn \in Txn
      /\ reservation[w] = "none" /\ ~Recorded(JobFor(w))
      /\ reservation' = [reservation EXCEPT ![w] = "reserved"]
      /\ txn' = [txn EXCEPT !.step = "create"]
      /\ UNCHANGED <<intent, op, paid, acked>>
    BY Types DEF IInv, SaveReserved, SaveReservation, StoreFree, TxnPremises
<1>2. ASSUME NEW v \in Work PROVE WorkOK(v)'
  <2>1. WorkOK(v) /\ JobFor(v) \in Job
      BY TakeApart, Types DEF IInv
  <2> QED BY <1>1, <2>1 DEF IInv, TypeOK, WorkOK, Holds, Recorded
<1>3. ASSUME NEW k \in Job PROVE JobOK(k)'
  <2>1. JobOK(k)
      BY TakeApart
  <2> QED BY <1>1, <2>1 DEF IInv, TypeOK, JobOK, Recorded, Invoking
<1>4. TxnPremises'
  <2>1. txn'.step = "create" /\ txn'.work = w
      BY <1>1 DEF Txn
  <2> QED BY <1>1, <2>1 DEF IInv, TypeOK, TxnPremises, Recorded
<1>5. LedgerStep
  <2>1. ASSUME NEW v \in Work
        PROVE  StandingOf(v)' = StandingOf(v) /\ (CallingFor(v)' <=> CallingFor(v))
    <3>1. WorkOK(v) /\ JobFor(v) \in Job
        BY TakeApart, Types DEF IInv
    <3> QED BY <1>1, <3>1 DEF IInv, TypeOK, WorkOK, StandingOf, CallingFor, Holds,
                              Recorded, Invoking
  <2> QED BY <2>1, LedgerStutter
<1> QED BY <1>2, <1>3, <1>4, <1>5, PutTogether

(* The new intent is written: the ledger opens the work.                   *)
LEMMA SaveNewIntentStep ==
    ASSUME IInv, TypeOK', SaveNewIntent
    PROVE  Rest' /\ LedgerStep
<1> DEFINE w == txn.work
<1>1. /\ w \in Work /\ JobFor(w) \in Job /\ txn \in Txn
      /\ reservation[w] = "reserved" /\ ~Recorded(JobFor(w))
      /\ intent' = [intent EXCEPT ![JobFor(w)] = NewIntent(w)]
      /\ txn' = [txn EXCEPT !.step = "activate"]
      /\ UNCHANGED <<reservation, op, paid, acked>>
    BY Types DEF IInv, SaveNewIntent, StoreFree, TxnPremises
<1>2. ASSUME NEW v \in Work PROVE WorkOK(v)'
  <2>1. WorkOK(v) /\ JobFor(v) \in Job
      BY TakeApart, Types DEF IInv
  <2> QED BY <1>1, <2>1 DEF IInv, TypeOK, WorkOK, Holds, Recorded, NewIntent
<1>3. ASSUME NEW k \in Job PROVE JobOK(k)'
  <2>1. JobOK(k)
      BY TakeApart
  <2> QED BY <1>1, <2>1 DEF IInv, TypeOK, JobOK, Recorded, Invoking, NewIntent
<1>4. TxnPremises'
  <2>1. JobFree(JobFor(w))'
      BY <1>1 DEF IInv, SnapshotIsFresh, JobFree, Recorded, OpPremises
  <2>2. txn'.step = "activate" /\ txn'.work = w
      BY <1>1 DEF Txn
  <2> QED BY <1>1, <2>1, <2>2 DEF IInv, TypeOK, TxnPremises, Holds, Recorded, NewIntent
<1>5. LedgerStep
  <2>0. PICK u \in Work : u = w
      BY <1>1
  <2>1. StandingOf(u) = "new" /\ StandingOf(u)' = "open"
      BY <1>1, <2>0 DEF IInv, TypeOK, StandingOf, Holds, Recorded, NewIntent
  <2>2. ASSUME NEW v \in Work \ {u} PROVE StandingOf(v)' = StandingOf(v)
    <3>1. WorkOK(v) /\ JobFor(v) \in Job
        BY TakeApart, Types DEF IInv
    <3> QED BY <1>1, <2>0, <3>1 DEF IInv, TypeOK, StandingOf, Holds, Recorded, NewIntent
  <2>3. ASSUME NEW v \in Work PROVE CallingFor(v)' <=> CallingFor(v)
    <3>1. JobFor(v) \in Job
        BY Types DEF IInv
    <3> QED BY <1>1, <2>0, <3>1 DEF IInv, TypeOK, CallingFor, Invoking
  <2>4. ASSUME NEW v \in Work, JobFor(v) = JobFor(u)
        PROVE  StandingOf(v) \notin {"open", "invoked"}
      BY <1>1, <2>0, <2>4 DEF StandingOf, Holds, Recorded
  <2>9. Ledger!Open(u)
      BY <1>1, <2>0, <2>1, <2>2, <2>3, <2>4, LedgerMove, LedgerCalls
         DEF Ledger!Open, Ledger!Unfinished
  <2> QED BY <2>9 DEF LedgerStep, Ledger!LedgerNext
<1> QED BY <1>2, <1>3, <1>4, <1>5, PutTogether

(* The mapping of a new intent becomes Active.                             *)
LEMMA SaveActiveStep ==
    ASSUME IInv, TypeOK', SaveActive
    PROVE  Rest' /\ LedgerStep
<1> DEFINE w == txn.work
<1>1. /\ w \in Work /\ JobFor(w) \in Job
      /\ reservation[w] = "reserved" /\ Holds(w)
      /\ reservation' = [reservation EXCEPT ![w] = "active"]
      /\ txn'.step = "idle"
      /\ UNCHANGED <<intent, op, paid, acked>>
    BY Types DEF IInv, SaveActive, SaveReservation, EndTxn, NoTxn, StoreFree, TxnPremises
<1>2. ASSUME NEW v \in Work PROVE WorkOK(v)'
  <2>1. WorkOK(v) /\ JobFor(v) \in Job
      BY TakeApart, Types DEF IInv
  <2> QED BY <1>1, <2>1 DEF IInv, TypeOK, WorkOK, Holds, Recorded
<1>3. ASSUME NEW k \in Job PROVE JobOK(k)'
  <2>1. JobOK(k)
      BY TakeApart
  <2> QED BY <1>1, <2>1 DEF IInv, TypeOK, JobOK, Recorded, Invoking
<1>4. TxnPremises'
    BY <1>1 DEF IInv, TypeOK, TxnPremises, Holds, Recorded, JobFree
<1>5. LedgerStep
  <2>1. ASSUME NEW v \in Work
        PROVE  StandingOf(v)' = StandingOf(v) /\ (CallingFor(v)' <=> CallingFor(v))
    <3>1. WorkOK(v) /\ JobFor(v) \in Job
        BY TakeApart, Types DEF IInv
    <3> QED BY <1>1, <3>1 DEF IInv, TypeOK, WorkOK, StandingOf, CallingFor, Holds,
                              Recorded, Invoking
  <2> QED BY <2>1, LedgerStutter
<1> QED BY <1>2, <1>3, <1>4, <1>5, PutTogether

(* Retention marks a Reconciled intent's mapping first.                    *)
LEMMA SavePruningStep ==
    ASSUME IInv, TypeOK', SavePruning
    PROVE  Rest' /\ LedgerStep
<1> DEFINE w == txn.work
<1>1. /\ w \in Work /\ JobFor(w) \in Job /\ txn \in Txn /\ txn.rest \subseteq Job
      /\ Holds(w) /\ intent[JobFor(w)].state = "reconciled"
      /\ \A i \in txn.rest : Recorded(i) /\ intent[i].state = "reconciled" /\ i # JobFor(w)
      /\ reservation' = [reservation EXCEPT ![w] = "pruning"]
      /\ txn' = [txn EXCEPT !.step = "discard"]
      /\ UNCHANGED <<intent, op, paid, acked>>
    BY Types DEF IInv, SavePruning, SaveReservation, StoreFree, TxnPremises
<1>2. ASSUME NEW v \in Work PROVE WorkOK(v)'
  <2>1. WorkOK(v) /\ JobFor(v) \in Job
      BY TakeApart, Types DEF IInv
  <2> QED BY <1>1, <2>1 DEF IInv, TypeOK, WorkOK, Holds, Recorded
<1>3. ASSUME NEW k \in Job PROVE JobOK(k)'
  <2>1. JobOK(k)
      BY TakeApart
  <2> QED BY <1>1, <2>1 DEF IInv, TypeOK, JobOK, Recorded, Invoking
<1>4. TxnPremises'
  <2>1. txn'.step = "discard" /\ txn'.work = w /\ txn'.rest = txn.rest
      BY <1>1 DEF Txn
  <2> QED BY <1>1, <2>1 DEF IInv, TypeOK, TxnPremises, Holds, Recorded
<1>5. LedgerStep
  <2>1. ASSUME NEW v \in Work
        PROVE  StandingOf(v)' = StandingOf(v) /\ (CallingFor(v)' <=> CallingFor(v))
    <3>1. WorkOK(v) /\ JobFor(v) \in Job
        BY TakeApart, Types DEF IInv
    <3> QED BY <1>1, <3>1 DEF IInv, TypeOK, WorkOK, StandingOf, CallingFor, Holds,
                              Recorded, Invoking
  <2> QED BY <2>1, LedgerStutter
<1> QED BY <1>2, <1>3, <1>4, <1>5, PutTogether

(* The intent goes; its marked mapping keeps the work settled.             *)
LEMMA DiscardIntentStep ==
    ASSUME IInv, TypeOK', DiscardIntent
    PROVE  Rest' /\ LedgerStep
<1> DEFINE w == txn.work
<1>1. /\ w \in Work /\ JobFor(w) \in Job /\ txn \in Txn /\ txn.rest \subseteq Job
      /\ reservation[w] = "pruning" /\ Holds(w) /\ intent[JobFor(w)].state = "reconciled"
      /\ \A i \in txn.rest : Recorded(i) /\ intent[i].state = "reconciled" /\ i # JobFor(w)
      /\ intent' = [intent EXCEPT ![JobFor(w)] = NoIntent]
      /\ txn' = [txn EXCEPT !.step = "tombstone"]
      /\ UNCHANGED <<reservation, op, paid, acked>>
    BY Types DEF IInv, DiscardIntent, StoreFree, TxnPremises
<1>2. ASSUME NEW v \in Work PROVE WorkOK(v)'
  <2>1. WorkOK(v) /\ JobFor(v) \in Job
      BY TakeApart, Types DEF IInv
  <2> QED BY <1>1, <2>1 DEF IInv, TypeOK, WorkOK, Holds, Recorded, NoIntent
<1>3. ASSUME NEW k \in Job PROVE JobOK(k)'
  <2>1. JobOK(k)
      BY TakeApart
  <2> QED BY <1>1, <2>1 DEF IInv, TypeOK, JobOK, Recorded, Invoking, NoIntent
<1>4. TxnPremises'
  <2>1. txn'.step = "tombstone" /\ txn'.work = w /\ txn'.rest = txn.rest
      BY <1>1 DEF Txn
  <2> QED BY <1>1, <2>1 DEF IInv, TypeOK, TxnPremises, Holds, Recorded, NoIntent
<1>5. LedgerStep
  <2>1. ASSUME NEW v \in Work
        PROVE  StandingOf(v)' = StandingOf(v) /\ (CallingFor(v)' <=> CallingFor(v))
    <3>1. WorkOK(v) /\ JobFor(v) \in Job
        BY TakeApart, Types DEF IInv
    <3> QED BY <1>1, <3>1 DEF IInv, TypeOK, WorkOK, StandingOf, CallingFor, Holds,
                              Recorded, Invoking, NoIntent
  <2> QED BY <2>1, LedgerStutter
<1> QED BY <1>2, <1>3, <1>4, <1>5, PutTogether

(* The tombstone is written and retention goes on to the next record.      *)
LEMMA SavePrunedStep ==
    ASSUME IInv, TypeOK', SavePruned
    PROVE  Rest' /\ LedgerStep
<1> DEFINE w == txn.work
<1>1. /\ w \in Work /\ JobFor(w) \in Job /\ txn \in Txn /\ txn.rest \subseteq Job
      /\ reservation[w] = "pruning" /\ ~Holds(w)
      /\ \A i \in txn.rest : Recorded(i) /\ intent[i].state = "reconciled" /\ i # JobFor(w)
      /\ reservation' = [reservation EXCEPT ![w] = "pruned"]
      /\ NextPruning
      /\ UNCHANGED <<intent, op, paid, acked>>
    BY Types DEF IInv, SavePruned, SaveReservation, StoreFree, TxnPremises
<1>2. ASSUME NEW v \in Work PROVE WorkOK(v)'
  <2>1. WorkOK(v) /\ JobFor(v) \in Job
      BY TakeApart, Types DEF IInv
  <2> QED BY <1>1, <2>1 DEF IInv, TypeOK, WorkOK, Holds, Recorded
<1>3. ASSUME NEW k \in Job PROVE JobOK(k)'
  <2>1. JobOK(k)
      BY TakeApart
  <2> QED BY <1>1, <2>1 DEF IInv, TypeOK, JobOK, Recorded, Invoking
<1>4. TxnPremises'
  <2>1. CASE txn.rest = {}
      BY <1>1, <2>1 DEF NextPruning, EndTxn, NoTxn, TxnPremises
  <2>2. CASE txn.rest # {}
    <3>1. PICK i \in txn.rest : txn' =
             [txn EXCEPT !.step = "mark", !.work = intent[i].work, !.rest = @ \ {i}]
        BY <1>1, <2>2 DEF NextPruning
    <3>2. /\ txn'.step = "mark"
          /\ txn'.work = intent[i].work
          /\ txn'.rest = txn.rest \ {i}
        BY <1>1, <3>1 DEF Txn
    <3>3. i \in Job /\ Recorded(i) /\ JobFor(intent[i].work) = i
        BY <1>1, TakeApart DEF JobOK
    <3> QED BY <1>1, <3>2, <3>3 DEF IInv, TypeOK, TxnPremises, Holds, Recorded
  <2> QED BY <2>1, <2>2
<1>5. LedgerStep
  <2>1. ASSUME NEW v \in Work
        PROVE  StandingOf(v)' = StandingOf(v) /\ (CallingFor(v)' <=> CallingFor(v))
    <3>1. WorkOK(v) /\ JobFor(v) \in Job
        BY TakeApart, Types DEF IInv
    <3> QED BY <1>1, <3>1 DEF IInv, TypeOK, WorkOK, StandingOf, CallingFor, Holds,
                              Recorded, Invoking
  <2> QED BY <2>1, LedgerStutter
<1> QED BY <1>2, <1>3, <1>4, <1>5, PutTogether

(* A retired intent goes: the ledger gives the work up.                    *)
LEMMA UnlinkIntentStep ==
    ASSUME IInv, TypeOK', UnlinkIntent
    PROVE  Rest' /\ LedgerStep
<1> DEFINE w == txn.work
<1>1. /\ w \in Work /\ JobFor(w) \in Job /\ txn \in Txn
      /\ reservation[w] = "reserved" /\ Holds(w) /\ op[JobFor(w)].phase = "idle"
      /\ w \notin paid /\ w \notin acked
      /\ intent' = [intent EXCEPT ![JobFor(w)] = NoIntent]
      /\ txn' = [txn EXCEPT !.step = "unreserve"]
      /\ UNCHANGED <<reservation, op, paid, acked>>
    BY Types DEF IInv, UnlinkIntent, StoreFree, TxnPremises, JobFree
<1>2. ASSUME NEW v \in Work PROVE WorkOK(v)'
  <2>1. WorkOK(v) /\ JobFor(v) \in Job
      BY TakeApart, Types DEF IInv
  <2> QED BY <1>1, <2>1 DEF IInv, TypeOK, WorkOK, Holds, Recorded, NoIntent
<1>3. ASSUME NEW k \in Job PROVE JobOK(k)'
  <2>1. JobOK(k)
      BY TakeApart
  <2> QED BY <1>1, <2>1 DEF IInv, TypeOK, JobOK, Recorded, Invoking, NoIntent
<1>4. TxnPremises'
  <2>1. txn'.step = "unreserve" /\ txn'.work = w
      BY <1>1 DEF Txn
  <2> QED BY <1>1, <2>1 DEF IInv, TypeOK, TxnPremises, Recorded, NoIntent
<1>5. LedgerStep
  <2>0. PICK u \in Work : u = w
      BY <1>1
  <2>1. StandingOf(u) \in {"open", "invoked"} /\ StandingOf(u)' = "new"
    <3>1. WorkOK(u)
        BY <1>1, <2>0, TakeApart
    <3>2. intent[JobFor(u)].state \in {"prepared", "invoked"}
        BY <1>1, <2>0, <3>1, Types DEF IInv, WorkOK, Holds, Intent
    <3> QED BY <1>1, <2>0, <3>2 DEF IInv, TypeOK, StandingOf, Holds, Recorded, NoIntent
  <2>2. ASSUME NEW v \in Work \ {u} PROVE StandingOf(v)' = StandingOf(v)
    <3>1. WorkOK(v) /\ JobFor(v) \in Job
        BY TakeApart, Types DEF IInv
    <3> QED BY <1>1, <2>0, <3>1 DEF IInv, TypeOK, StandingOf, Holds, Recorded, NoIntent
  <2>3. ASSUME NEW v \in Work PROVE CallingFor(v)' <=> CallingFor(v)
    <3>1. JobFor(v) \in Job
        BY Types DEF IInv
    <3> QED BY <1>1, <2>0, <3>1 DEF IInv, TypeOK, CallingFor, Invoking
  <2>4. ~CallingFor(u)
      BY <1>1, <2>0 DEF CallingFor, Invoking
  <2>9. Ledger!GiveUp(u)
      BY <1>1, <2>0, <2>1, <2>2, <2>3, <2>4, LedgerMove, LedgerCalls
         DEF Ledger!GiveUp, Ledger!Unfinished, CallingFor
  <2> QED BY <2>9 DEF LedgerStep, Ledger!LedgerNext
<1> QED BY <1>2, <1>3, <1>4, <1>5, PutTogether

(* A retired intent's mapping goes last.                                   *)
LEMMA RemoveReservationStep ==
    ASSUME IInv, TypeOK', RemoveReservation
    PROVE  Rest' /\ LedgerStep
<1> DEFINE w == txn.work
<1>1. /\ w \in Work /\ JobFor(w) \in Job
      /\ reservation[w] = "reserved" /\ ~Recorded(JobFor(w))
      /\ w \notin paid /\ w \notin acked
      /\ reservation' = [reservation EXCEPT ![w] = "none"]
      /\ txn'.step = "idle"
      /\ UNCHANGED <<intent, op, paid, acked>>
    BY Types DEF IInv, RemoveReservation, SaveReservation, EndTxn, NoTxn, StoreFree, TxnPremises
<1>2. ASSUME NEW v \in Work PROVE WorkOK(v)'
  <2>1. WorkOK(v) /\ JobFor(v) \in Job
      BY TakeApart, Types DEF IInv
  <2> QED BY <1>1, <2>1 DEF IInv, TypeOK, WorkOK, Holds, Recorded
<1>3. ASSUME NEW k \in Job PROVE JobOK(k)'
  <2>1. JobOK(k)
      BY TakeApart
  <2> QED BY <1>1, <2>1 DEF IInv, TypeOK, JobOK, Recorded, Invoking
<1>4. TxnPremises'
    BY <1>1 DEF IInv, TypeOK, TxnPremises, Holds, Recorded, JobFree
<1>5. LedgerStep
  <2>1. ASSUME NEW v \in Work
        PROVE  StandingOf(v)' = StandingOf(v) /\ (CallingFor(v)' <=> CallingFor(v))
    <3>1. WorkOK(v) /\ JobFor(v) \in Job
        BY TakeApart, Types DEF IInv
    <3> QED BY <1>1, <3>1 DEF IInv, TypeOK, WorkOK, StandingOf, CallingFor, Holds,
                              Recorded, Invoking
  <2> QED BY <2>1, LedgerStutter
<1> QED BY <1>2, <1>3, <1>4, <1>5, PutTogether

(* A retirement returns the mapping to Reserved before anything goes.      *)
LEMMA RetireStep ==
    ASSUME IInv, TypeOK', NEW r \in Runtime, NEW j \in Job, Retire(r, j)
    PROVE  Rest' /\ LedgerStep
<1> DEFINE w == intent[j].work
<1>1. /\ w \in Work /\ JobFor(w) = j
      /\ Holds(w) /\ intent[j].state # "reconciled" /\ op[j].phase = "idle"
      /\ w \notin paid'
      /\ paid' \subseteq paid /\ \A v \in Work \ {w} : v \in paid' <=> v \in paid
      /\ reservation' = [reservation EXCEPT ![w] = "reserved"]
      /\ txn'.step = "unlink" /\ txn'.work = w
      /\ UNCHANGED <<intent, op, acked>>
  <2>1. Recorded(j) /\ intent[j].state \in {"prepared", "invoked"}
      BY DEF Retire, RetireFailed, RetireUnresolved, RetireUnattempted,
             RetireRemoteFailure, Recorded
  <2>2. w \in Work /\ JobFor(w) = j
      BY <2>1, Types, TakeApart DEF IInv, JobOK
  <2>3. WorkOK(w)
      BY <2>2, TakeApart
  <2>4. intent[j].attempts = 0 => w \notin paid
      BY <2>1, <2>2, <2>3 DEF WorkOK, Holds
  <2> QED BY <2>1, <2>2, <2>4 DEF Retire, RetireUnattempted, ReturnToReserved,
                 SaveReservation, BeginTxn, JobFree, Holds
<1>2. ASSUME NEW v \in Work PROVE WorkOK(v)'
  <2>1. WorkOK(v) /\ JobFor(v) \in Job
      BY TakeApart, Types DEF IInv
  <2> QED BY <1>1, <2>1 DEF IInv, TypeOK, WorkOK, Holds, Recorded
<1>3. ASSUME NEW k \in Job PROVE JobOK(k)'
  <2>1. JobOK(k)
      BY TakeApart
  <2> QED BY <1>1, <2>1 DEF IInv, TypeOK, JobOK, Recorded, Invoking
<1>4. TxnPremises'
  <2>1. w \notin acked
      BY <1>1, TakeApart DEF WorkOK
  <2> QED BY <1>1, <2>1 DEF IInv, TypeOK, TxnPremises, Holds, Recorded, JobFree
<1>5. LedgerStep
  <2>1. ASSUME NEW v \in Work
        PROVE  StandingOf(v)' = StandingOf(v) /\ (CallingFor(v)' <=> CallingFor(v))
    <3>1. WorkOK(v) /\ JobFor(v) \in Job
        BY TakeApart, Types DEF IInv
    <3> QED BY <1>1, <3>1 DEF IInv, TypeOK, WorkOK, StandingOf, CallingFor, Holds,
                              Recorded, Invoking
  <2> QED BY <2>1, LedgerStutter
<1> QED BY <1>2, <1>3, <1>4, <1>5, PutTogether

(* The attempt is counted and the provider called: a ledger call.          *)
LEMMA BeginInvokeStep ==
    ASSUME IInv, TypeOK', NEW r \in Runtime, BeginInvoke(r),
           PermitFor(ProviderOf[r]), MayInvoke(r, waiting[r].job)
    PROVE  Rest' /\ LedgerStep
<1> DEFINE j == waiting[r].job
<1>1. /\ j \in Job /\ Recorded(j) /\ intent[j] \in Intent
      /\ intent'[j].work = intent[j].work /\ intent'[j].state = "prepared"
      /\ intent[j].state = "prepared" /\ intent'[j].attempts > 0
      /\ intent' = [intent EXCEPT ![j] = intent'[j]]
      /\ op' = [op EXCEPT ![j] = op'[j]] /\ op'[j].phase = "calling" /\ op'[j].rec = intent'[j]
      /\ txn'.step = "idle"
      /\ UNCHANGED <<reservation, paid, acked>>
  <2> DEFINE rec == [intent[j] EXCEPT !.attempts = @ + 1, !.err = "none"]
  <2>1. j \in Job /\ Recorded(j) /\ intent[j] \in Intent
      BY Shapes DEF IInv, BeginInvoke, Call, MayInvoke
  <2>2. /\ intent' = [intent EXCEPT ![j] = rec]
        /\ op' = [op EXCEPT ![j] = [phase |-> "calling", by |-> r, rec |-> rec,
                                    answer |-> "none", handle |-> FALSE]]
      BY DEF BeginInvoke
  <2>3. /\ rec.work = intent[j].work /\ rec.state = intent[j].state
        /\ rec.attempts = intent[j].attempts + 1
      BY <2>1 DEF Intent
  <2>4. intent[j].attempts + 1 > 0
      BY <2>1 DEF Intent
  <2> HIDE DEF rec
  <2> QED BY <2>1, <2>2, <2>3, <2>4 DEF IInv, TypeOK, BeginInvoke, MayInvoke, StoreFree
<1>2. ASSUME NEW v \in Work PROVE WorkOK(v)'
  <2>1. WorkOK(v) /\ JobFor(v) \in Job
      BY TakeApart, Types DEF IInv
  <2> QED BY <1>1, <2>1 DEF IInv, TypeOK, WorkOK, Holds, Recorded
<1>3. ASSUME NEW k \in Job PROVE JobOK(k)'
  <2>1. JobOK(k)
      BY TakeApart
  <2> QED BY <1>1, <2>1 DEF IInv, TypeOK, JobOK, Recorded, Invoking
<1>4. TxnPremises'
    BY <1>1 DEF TxnPremises
<1>5. LedgerStep
  <2>1. PICK w \in Work :
           w = intent[j].work /\ JobFor(w) = j /\ Holds(w) /\ Holds(w)'
      BY <1>1, Types, TakeApart DEF IInv, TypeOK, JobOK, Holds, Recorded
  <2>2. ASSUME NEW v \in Work PROVE StandingOf(v)' = StandingOf(v)
    <3>1. JobFor(v) \in Job
        BY Types DEF IInv
    <3> QED BY <1>1, <3>1 DEF IInv, TypeOK, StandingOf, Holds, Recorded
  <2>3. ASSUME NEW v \in Work \ {w} PROVE CallingFor(v)' <=> CallingFor(v)
    <3>1. JobFor(v) \in Job /\ ~Invoking(j)
        BY Types DEF IInv, BeginInvoke, JobFree, Invoking
    <3> QED BY <1>1, <2>1, <3>1 DEF IInv, TypeOK, CallingFor, Invoking
  <2>4. CallingFor(w)' /\ ~CallingFor(w)
      BY <1>1, <2>1 DEF IInv, TypeOK, CallingFor, Invoking, BeginInvoke, JobFree
  <2>5. StandingOf(w) = "open"
      BY <1>1, <2>1 DEF StandingOf
  <2>9. Ledger!Call(w)
      BY <2>1, <2>2, <2>3, <2>4, <2>5, LedgerCallStarts DEF Ledger!Call, CallingFor
  <2> QED BY <2>9 DEF LedgerStep, Ledger!LedgerNext
<1> QED BY <1>2, <1>3, <1>4, <1>5, PutTogether

(* The provider accepts: paid work, recorded with its attempt.             *)
LEMMA ProviderAcceptsStep ==
    ASSUME IInv, TypeOK', NEW j \in Job, ProviderAccepts(j)
    PROVE  Rest' /\ LedgerStep
<1> DEFINE w == op[j].rec.work
<1>1. /\ w \in Work /\ JobFor(w) = j /\ Holds(w) /\ intent[j].attempts > 0
      /\ op[j].phase = "calling" /\ op'[j].phase = "accepted" /\ op'[j].rec = op[j].rec
      /\ \A k \in Job \ {j} : op'[k] = op[k]
      /\ paid' = paid \cup {w}
      /\ UNCHANGED <<intent, reservation, txn, acked>>
  <2>1. op[j].phase = "calling" /\ op[j] \in Op
      BY Types DEF IInv, ProviderAccepts, JobFree
  <2>2. JobOK(j)
      BY TakeApart
  <2>3. w \in Work /\ Recorded(j)
      BY <2>1, <2>2 DEF JobOK, Op, Intent, Recorded
  <2>4. Advance(j, "accepted", "none", FALSE)
      BY DEF ProviderAccepts
  <2>5. /\ op'[j].phase = "accepted" /\ op'[j].rec = op[j].rec
        /\ \A k \in Job \ {j} : op'[k] = op[k]
      BY <2>1, <2>4, AdvanceEffect DEF IInv
  <2> QED BY <2>1, <2>2, <2>3, <2>5 DEF JobOK, Invoking, Holds, ProviderAccepts, files
<1>2. ASSUME NEW v \in Work PROVE WorkOK(v)'
  <2>1. WorkOK(v) /\ JobFor(v) \in Job
      BY TakeApart, Types DEF IInv
  <2> QED BY <1>1, <2>1 DEF IInv, TypeOK, WorkOK, Holds, Recorded
<1>3. ASSUME NEW k \in Job PROVE JobOK(k)'
  <2>1. JobOK(k)
      BY TakeApart
  <2> QED BY <1>1, <2>1 DEF IInv, TypeOK, JobOK, Recorded, Invoking
<1>4. TxnPremises'
  <2>1. CASE txn.step = "idle"
      BY <1>1, <2>1 DEF TxnPremises
  <2>2. CASE txn.step # "idle"
    <3>1. txn.work \in Work /\ JobFor(txn.work) \in Job
        BY <2>2, Types DEF IInv, StoreFree
    <3>2. JobFree(JobFor(txn.work)) => JobFor(txn.work) # j /\ JobFree(JobFor(txn.work))'
        BY <1>1, <3>1 DEF JobFree
    <3> QED BY <1>1, <3>1, <3>2 DEF IInv, TxnPremises, Holds, Recorded
  <2> QED BY <2>1, <2>2
<1>5. LedgerStep
  <2>1. ASSUME NEW v \in Work
        PROVE  StandingOf(v)' = StandingOf(v) /\ (CallingFor(v)' <=> CallingFor(v))
    <3>1. WorkOK(v) /\ JobFor(v) \in Job
        BY TakeApart, Types DEF IInv
    <3> QED BY <1>1, <3>1 DEF IInv, TypeOK, WorkOK, StandingOf, CallingFor, Holds,
                              Recorded, Invoking
  <2> QED BY <2>1, LedgerStutter
<1> QED BY <1>2, <1>3, <1>4, <1>5, PutTogether

(* The provider answers a call.                                            *)
LEMMA ProviderAnswersStep ==
    ASSUME IInv, TypeOK', NEW j \in Job, ProviderAnswers(j)
    PROVE  Rest' /\ LedgerStep
<1>1. /\ op[j].phase \in {"calling", "accepted"} /\ op'[j].phase = "answered" /\ op'[j].rec = op[j].rec
      /\ op'[j].answer \in {"completed", "pending", "retryable", "terminal"}
      /\ \A k \in Job \ {j} : op'[k] = op[k]
      /\ UNCHANGED <<intent, reservation, txn, paid, acked>>
  <2>1. op[j].phase \in {"calling", "accepted"} /\ op[j] \in Op
      BY Types DEF IInv, ProviderAnswers, JobFree
  <2>2. PICK a \in {"completed", "pending", "retryable", "terminal"}, h \in BOOLEAN :
           Advance(j, "answered", a, h)
      BY DEF ProviderAnswers
  <2>3. /\ op'[j].phase = "answered" /\ op'[j].rec = op[j].rec /\ op'[j].answer = a
        /\ \A k \in Job \ {j} : op'[k] = op[k]
      BY <2>1, <2>2, AdvanceEffect DEF IInv
  <2> QED BY <2>1, <2>3 DEF ProviderAnswers, files
<1>2. ASSUME NEW v \in Work PROVE WorkOK(v)'
  <2>1. WorkOK(v) /\ JobFor(v) \in Job
      BY TakeApart, Types DEF IInv
  <2> QED BY <1>1, <2>1 DEF IInv, TypeOK, WorkOK, Holds, Recorded
<1>3. ASSUME NEW k \in Job PROVE JobOK(k)'
  <2>1. JobOK(k)
      BY TakeApart
  <2> QED BY <1>1, <2>1 DEF IInv, TypeOK, JobOK, Recorded, Invoking
<1>4. TxnPremises'
  <2>1. CASE txn.step = "idle"
      BY <1>1, <2>1 DEF TxnPremises
  <2>2. CASE txn.step # "idle"
    <3>1. txn.work \in Work /\ JobFor(txn.work) \in Job
        BY <2>2, Types DEF IInv, StoreFree
    <3>2. JobFree(JobFor(txn.work)) => JobFor(txn.work) # j /\ JobFree(JobFor(txn.work))'
        BY <1>1, <3>1 DEF JobFree
    <3> QED BY <1>1, <3>1, <3>2 DEF IInv, TxnPremises, Holds, Recorded
  <2> QED BY <2>1, <2>2
<1>5. LedgerStep
  <2>1. ASSUME NEW v \in Work
        PROVE  StandingOf(v)' = StandingOf(v) /\ (CallingFor(v)' <=> CallingFor(v))
    <3>1. WorkOK(v) /\ JobFor(v) \in Job
        BY TakeApart, Types DEF IInv
    <3> QED BY <1>1, <3>1 DEF IInv, TypeOK, WorkOK, StandingOf, CallingFor, Holds,
                              Recorded, Invoking
  <2> QED BY <2>1, LedgerStutter
<1> QED BY <1>2, <1>3, <1>4, <1>5, PutTogether

(* The provider answers a query.                                           *)
LEMMA ProviderReportsStep ==
    ASSUME IInv, TypeOK', NEW j \in Job, ProviderReports(j)
    PROVE  Rest' /\ LedgerStep
<1>1. /\ op[j].phase \in {"querying"} /\ op'[j].phase = "reported" /\ op'[j].rec = op[j].rec
      /\ op'[j].answer \in {"completed", "pending", "missing", "failed"}
      /\ \A k \in Job \ {j} : op'[k] = op[k]
      /\ UNCHANGED <<intent, reservation, txn, paid, acked>>
  <2>1. op[j].phase \in {"querying"} /\ op[j] \in Op
      BY Types DEF IInv, ProviderReports, JobFree
  <2>2. PICK a \in {"completed", "pending", "missing", "failed"}, h \in BOOLEAN :
           Advance(j, "reported", a, h)
      BY DEF ProviderReports
  <2>3. /\ op'[j].phase = "reported" /\ op'[j].rec = op[j].rec /\ op'[j].answer = a
        /\ \A k \in Job \ {j} : op'[k] = op[k]
      BY <2>1, <2>2, AdvanceEffect DEF IInv
  <2> QED BY <2>1, <2>3 DEF ProviderReports, files
<1>2. ASSUME NEW v \in Work PROVE WorkOK(v)'
  <2>1. WorkOK(v) /\ JobFor(v) \in Job
      BY TakeApart, Types DEF IInv
  <2> QED BY <1>1, <2>1 DEF IInv, TypeOK, WorkOK, Holds, Recorded
<1>3. ASSUME NEW k \in Job PROVE JobOK(k)'
  <2>1. JobOK(k)
      BY TakeApart
  <2> QED BY <1>1, <2>1 DEF IInv, TypeOK, JobOK, Recorded, Invoking
<1>4. TxnPremises'
  <2>1. CASE txn.step = "idle"
      BY <1>1, <2>1 DEF TxnPremises
  <2>2. CASE txn.step # "idle"
    <3>1. txn.work \in Work /\ JobFor(txn.work) \in Job
        BY <2>2, Types DEF IInv, StoreFree
    <3>2. JobFree(JobFor(txn.work)) => JobFor(txn.work) # j /\ JobFree(JobFor(txn.work))'
        BY <1>1, <3>1 DEF JobFree
    <3> QED BY <1>1, <3>1, <3>2 DEF IInv, TxnPremises, Holds, Recorded
  <2> QED BY <2>1, <2>2
<1>5. LedgerStep
  <2>1. ASSUME NEW v \in Work
        PROVE  StandingOf(v)' = StandingOf(v) /\ (CallingFor(v)' <=> CallingFor(v))
    <3>1. WorkOK(v) /\ JobFor(v) \in Job
        BY TakeApart, Types DEF IInv
    <3> QED BY <1>1, <3>1 DEF IInv, TypeOK, WorkOK, StandingOf, CallingFor, Holds,
                              Recorded, Invoking
  <2> QED BY <2>1, LedgerStutter
<1> QED BY <1>2, <1>3, <1>4, <1>5, PutTogether

(* The answer is saved over a record nobody else has changed.              *)
LEMMA RecordAnswerStep ==
    ASSUME IInv, TypeOK', NEW j \in Job, RecordAnswer(j)
    PROVE  Rest' /\ LedgerStep
<1>1. /\ Recorded(j) /\ op[j].phase = "answered" /\ intent[j].state = "prepared"
      /\ intent'[j].work = intent[j].work /\ intent'[j].attempts = intent[j].attempts
      /\ intent'[j].state \in {"prepared", "invoked"}
      /\ intent' = [intent EXCEPT ![j] = intent'[j]]
      /\ op' = [op EXCEPT ![j] = NoOp]
      /\ txn'.step = "idle"
      /\ UNCHANGED <<reservation, paid, acked>>
  <2>1. op[j].phase = "answered" /\ op[j].rec \in Intent
      BY Types DEF IInv, RecordAnswer, JobFree
  <2>2. JobOK(j)
      BY TakeApart
  <2>3. intent[j] = op[j].rec /\ op[j].rec.state = "prepared" /\ Recorded(j)
      BY <2>1, <2>2 DEF JobOK, Invoking, Recorded
  <2> DEFINE y == [op[j].rec EXCEPT !.state = "invoked", !.handle = op[j].handle]
             z == [op[j].rec EXCEPT !.err = op[j].answer]
  <2>4. /\ y.work = op[j].rec.work /\ y.attempts = op[j].rec.attempts /\ y.state = "invoked"
        /\ z.work = op[j].rec.work /\ z.attempts = op[j].rec.attempts
        /\ z.state = op[j].rec.state
      BY <2>1 DEF Intent
  <2>5. \/ intent' = [intent EXCEPT ![j] = y]
        \/ intent' = [intent EXCEPT ![j] = z]
      BY DEF RecordAnswer
  <2> HIDE DEF y, z
  <2> QED BY <2>1, <2>3, <2>4, <2>5 DEF IInv, TypeOK, RecordAnswer, Unlock, StoreFree
<1>2. ASSUME NEW v \in Work PROVE WorkOK(v)'
  <2>1. WorkOK(v) /\ JobFor(v) \in Job
      BY TakeApart, Types DEF IInv
  <2> QED BY <1>1, <2>1 DEF IInv, TypeOK, WorkOK, Holds, Recorded
<1>3. ASSUME NEW k \in Job PROVE JobOK(k)'
  <2>1. JobOK(k)
      BY TakeApart
  <2> QED BY <1>1, <2>1 DEF IInv, TypeOK, JobOK, Recorded, Invoking, NoOp
<1>4. TxnPremises'
    BY <1>1 DEF TxnPremises
<1>5. LedgerStep
  <2>1. PICK w \in Work :
           /\ w = op[j].rec.work /\ JobFor(w) = j
           /\ Holds(w) /\ intent[j].state = "prepared"
           /\ Invoking(j)
      BY <1>1, Types, TakeApart DEF IInv, JobOK, JobFree, Invoking, Holds, Recorded, RecordAnswer
  <2>2. ASSUME NEW v \in Work \ {w} PROVE StandingOf(v)' = StandingOf(v)
    <3>1. JobFor(v) \in Job
        BY Types DEF IInv
    <3> QED BY <1>1, <2>1, <3>1 DEF IInv, TypeOK, StandingOf, Holds, Recorded
  <2>3. ASSUME NEW v \in Work \ {w} PROVE CallingFor(v)' <=> CallingFor(v)
    <3>1. JobFor(v) \in Job
        BY Types DEF IInv
    <3> QED BY <1>1, <2>1, <3>1 DEF IInv, TypeOK, CallingFor, Invoking, NoOp
  <2>4. ~CallingFor(w)' /\ CallingFor(w)
      BY <1>1, <2>1 DEF IInv, TypeOK, CallingFor, Invoking, NoOp
  <2>5. StandingOf(w)' \in {StandingOf(w), "invoked"}
      BY <1>1, <2>1 DEF IInv, TypeOK, StandingOf, Holds, Recorded
  <2>6. CASE StandingOf(w)' = StandingOf(w)
    <3>1. \A v \in Work : StandingOf(v)' = StandingOf(v)
        BY <2>2, <2>6
    <3>2. Ledger!Return(w)
        BY <2>1, <2>3, <2>4, <3>1, LedgerCallEnds DEF Ledger!Return, CallingFor
    <3> QED BY <2>1, <3>2 DEF LedgerStep, Ledger!LedgerNext
  <2>7. CASE StandingOf(w)' = "invoked"
    <3>1. Ledger!Return(w)
        BY <2>1, <2>2, <2>3, <2>4, <2>7, LedgerCallEnds, LedgerMove
           DEF Ledger!Return, CallingFor
    <3> QED BY <2>1, <3>1 DEF LedgerStep, Ledger!LedgerNext
  <2> QED BY <2>5, <2>6, <2>7
<1> QED BY <1>2, <1>3, <1>4, <1>5, PutTogether

(* The answer is not saved; the attempt stays on disk.                     *)
LEMMA LoseAnswerStep ==
    ASSUME IInv, TypeOK', NEW j \in Job, LoseAnswer(j)
    PROVE  Rest' /\ LedgerStep
<1>1. /\ op' = [op EXCEPT ![j] = NoOp]
      /\ txn'.step = "idle"
      /\ UNCHANGED <<intent, reservation, paid, acked>>
    BY DEF LoseAnswer, Unlock, StoreFree, files
<1>2. ASSUME NEW v \in Work PROVE WorkOK(v)'
  <2>1. WorkOK(v) /\ JobFor(v) \in Job
      BY TakeApart, Types DEF IInv
  <2> QED BY <1>1, <2>1 DEF IInv, TypeOK, WorkOK, Holds, Recorded
<1>3. ASSUME NEW k \in Job PROVE JobOK(k)'
  <2>1. JobOK(k)
      BY TakeApart
  <2> QED BY <1>1, <2>1 DEF IInv, TypeOK, JobOK, Recorded, Invoking, NoOp
<1>4. TxnPremises'
    BY <1>1 DEF TxnPremises
<1>5. LedgerStep
  <2>1. PICK w \in Work :
           /\ w = op[j].rec.work /\ JobFor(w) = j
           /\ Holds(w) /\ intent[j].state = "prepared"
           /\ Invoking(j)
      BY <1>1, Types, TakeApart DEF IInv, JobOK, JobFree, Invoking, Holds, Recorded, LoseAnswer
  <2>2. ASSUME NEW v \in Work \ {w} PROVE StandingOf(v)' = StandingOf(v)
    <3>1. JobFor(v) \in Job
        BY Types DEF IInv
    <3> QED BY <1>1, <2>1, <3>1 DEF IInv, TypeOK, StandingOf, Holds, Recorded
  <2>3. ASSUME NEW v \in Work \ {w} PROVE CallingFor(v)' <=> CallingFor(v)
    <3>1. JobFor(v) \in Job
        BY Types DEF IInv
    <3> QED BY <1>1, <2>1, <3>1 DEF IInv, TypeOK, CallingFor, Invoking, NoOp
  <2>4. ~CallingFor(w)' /\ CallingFor(w)
      BY <1>1, <2>1 DEF IInv, TypeOK, CallingFor, Invoking, NoOp
  <2>5. StandingOf(w)' \in {StandingOf(w), "invoked"}
      BY <1>1, <2>1 DEF IInv, TypeOK, StandingOf, Holds, Recorded
  <2>6. CASE StandingOf(w)' = StandingOf(w)
    <3>1. \A v \in Work : StandingOf(v)' = StandingOf(v)
        BY <2>2, <2>6
    <3>2. Ledger!Return(w)
        BY <2>1, <2>3, <2>4, <3>1, LedgerCallEnds DEF Ledger!Return, CallingFor
    <3> QED BY <2>1, <3>2 DEF LedgerStep, Ledger!LedgerNext
  <2>7. CASE StandingOf(w)' = "invoked"
    <3>1. Ledger!Return(w)
        BY <2>1, <2>2, <2>3, <2>4, <2>7, LedgerCallEnds, LedgerMove
           DEF Ledger!Return, CallingFor
    <3> QED BY <2>1, <3>1 DEF LedgerStep, Ledger!LedgerNext
  <2> QED BY <2>5, <2>6, <2>7
<1> QED BY <1>2, <1>3, <1>4, <1>5, PutTogether

(* A found result is saved: the ledger finds the call.                     *)
LEMMA RecordReportStep ==
    ASSUME IInv, TypeOK', NEW j \in Job, RecordReport(j)
    PROVE  Rest' /\ LedgerStep
<1>1. /\ Recorded(j)
      /\ \/ intent' = intent
         \/ /\ intent' = [intent EXCEPT ![j] = intent'[j]]
            /\ intent[j].state = "prepared" /\ intent'[j].state = "invoked"
            /\ intent'[j].work = intent[j].work
            /\ intent'[j].attempts = intent[j].attempts
      /\ op' = [op EXCEPT ![j] = NoOp]
      /\ txn'.step = "idle"
      /\ UNCHANGED <<reservation, paid, acked>>
  <2>1. op[j].phase = "reported" /\ op[j].rec \in Intent
      BY Types DEF IInv, RecordReport, JobFree
  <2>2. JobOK(j)
      BY TakeApart
  <2>3. intent[j] = op[j].rec /\ Recorded(j)
      BY <2>1, <2>2 DEF JobOK, Recorded
  <2> DEFINE y == [op[j].rec EXCEPT !.state = "invoked", !.handle = op[j].handle,
                                    !.err = "none"]
  <2>4. y.work = op[j].rec.work /\ y.attempts = op[j].rec.attempts /\ y.state = "invoked"
      BY <2>1 DEF Intent
  <2>5. \/ intent' = intent
        \/ op[j].rec.state = "prepared" /\ intent' = [intent EXCEPT ![j] = y]
      BY DEF RecordReport
  <2> HIDE DEF y
  <2> QED BY <2>3, <2>4, <2>5 DEF IInv, TypeOK, RecordReport, Unlock, StoreFree
<1>2. ASSUME NEW v \in Work PROVE WorkOK(v)'
  <2>1. WorkOK(v) /\ JobFor(v) \in Job
      BY TakeApart, Types DEF IInv
  <2> QED BY <1>1, <2>1 DEF IInv, TypeOK, WorkOK, Holds, Recorded
<1>3. ASSUME NEW k \in Job PROVE JobOK(k)'
  <2>1. JobOK(k)
      BY TakeApart
  <2> QED BY <1>1, <2>1 DEF IInv, TypeOK, JobOK, Recorded, Invoking, NoOp
<1>4. TxnPremises'
    BY <1>1 DEF TxnPremises
<1>5. LedgerStep
  <2>1. PICK w \in Work : w = intent[j].work /\ JobFor(w) = j /\ Holds(w)
      BY <1>1, Types, TakeApart DEF IInv, JobOK, Holds
  <2>2. ASSUME NEW v \in Work \ {w} PROVE StandingOf(v)' = StandingOf(v)
    <3>1. JobFor(v) \in Job
        BY Types DEF IInv
    <3> QED BY <1>1, <2>1, <3>1 DEF IInv, TypeOK, StandingOf, Holds, Recorded
  <2>3. ASSUME NEW v \in Work PROVE CallingFor(v)' <=> CallingFor(v)
    <3>1. JobFor(v) \in Job /\ ~Invoking(j)
        BY Types DEF IInv, RecordReport, Invoking
    <3> QED BY <1>1, <3>1 DEF IInv, TypeOK, CallingFor, Invoking, NoOp
  <2>4. CASE intent' = intent
    <3>1. StandingOf(w)' = StandingOf(w)
        BY <1>1, <2>4 DEF StandingOf, Holds, Recorded
    <3> QED BY <2>2, <2>3, <3>1, LedgerStutter
  <2>5. CASE intent' # intent
    <3>1. StandingOf(w) = "open" /\ StandingOf(w)' = "invoked"
        BY <1>1, <2>1, <2>5 DEF IInv, TypeOK, StandingOf, Holds, Recorded
    <3>2. ~CallingFor(w)
        BY <2>1 DEF CallingFor, Invoking, RecordReport
    <3>3. Ledger!Find(w)
        BY <2>1, <2>2, <2>3, <3>1, <3>2, LedgerMove, LedgerCalls
           DEF Ledger!Find, CallingFor
    <3> QED BY <2>1, <3>3 DEF LedgerStep, Ledger!LedgerNext
  <2> QED BY <2>4, <2>5
<1> QED BY <1>2, <1>3, <1>4, <1>5, PutTogether

(* Acknowledgement settles the work, once.                                 *)
LEMMA AcknowledgeStep ==
    ASSUME IInv, TypeOK', NEW r \in Runtime, NEW j \in Job, Acknowledge(r, j)
    PROVE  Rest' /\ LedgerStep
<1> DEFINE w == intent[j].work
<1>1. /\ w \in Work /\ JobFor(w) = j /\ Holds(w)
      /\ op[j].phase = "idle" /\ intent[j].state \in {"invoked", "reconciled"}
      /\ intent' = [intent EXCEPT ![j] = intent'[j]] /\ intent'[j].work = w
      /\ intent'[j].state = "reconciled" /\ intent'[j].attempts = intent[j].attempts
      /\ acked' = acked \cup {w}
      /\ txn'.step = "idle"
      /\ UNCHANGED <<reservation, op, paid>>
  <2>1. Recorded(j) /\ intent[j] \in Intent
      BY Types DEF IInv, Acknowledge
  <2>2. w \in Work /\ JobFor(w) = j
      BY <2>1, Types, TakeApart DEF IInv, JobOK
  <2> DEFINE y == [intent[j] EXCEPT !.state = "reconciled"]
  <2>3. y.work = intent[j].work /\ y.state = "reconciled" /\ y.attempts = intent[j].attempts
      BY <2>1 DEF Intent
  <2>4. intent' = [intent EXCEPT ![j] = y]
      BY DEF Acknowledge
  <2> HIDE DEF y
  <2> QED BY <2>1, <2>2, <2>3, <2>4 DEF IInv, TypeOK, Acknowledge, StoreFree, JobFree, Holds
<1>2. ASSUME NEW v \in Work PROVE WorkOK(v)'
  <2>1. WorkOK(v) /\ JobFor(v) \in Job
      BY TakeApart, Types DEF IInv
  <2> QED BY <1>1, <2>1 DEF IInv, TypeOK, WorkOK, Holds, Recorded
<1>3. ASSUME NEW k \in Job PROVE JobOK(k)'
  <2>1. JobOK(k)
      BY TakeApart
  <2> QED BY <1>1, <2>1 DEF IInv, TypeOK, JobOK, Recorded, Invoking
<1>4. TxnPremises'
    BY <1>1 DEF TxnPremises
<1>5. LedgerStep
  <2>0. PICK u \in Work : u = w
      BY <1>1
  <2>2. ASSUME NEW v \in Work \ {u} PROVE StandingOf(v)' = StandingOf(v)
    <3>1. WorkOK(v) /\ JobFor(v) \in Job
        BY TakeApart, Types DEF IInv
    <3> QED BY <1>1, <2>0, <3>1 DEF IInv, TypeOK, StandingOf, Holds, Recorded
  <2>3. ASSUME NEW v \in Work PROVE CallingFor(v)' <=> CallingFor(v)
    <3>1. JobFor(v) \in Job
        BY Types DEF IInv
    <3> QED BY <1>1, <2>0, <3>1 DEF IInv, TypeOK, CallingFor, Invoking
  <2>4. StandingOf(u)' = "settled" /\ StandingOf(u) \in {"invoked", "settled"}
      BY <1>1, <2>0 DEF IInv, TypeOK, StandingOf, Holds, Recorded
  <2>5. CASE StandingOf(u) = "settled"
      BY <2>2, <2>3, <2>4, <2>5, LedgerStutter
  <2>6. CASE StandingOf(u) = "invoked"
    <3>1. Ledger!Settle(u)
        BY <1>1, <2>0, <2>2, <2>3, <2>4, <2>6, LedgerMove, LedgerCalls DEF Ledger!Settle
    <3> QED BY <1>1, <2>0, <3>1 DEF LedgerStep, Ledger!LedgerNext
  <2> QED BY <2>4, <2>5, <2>6
<1> QED BY <1>2, <1>3, <1>4, <1>5, PutTogether

(* Retention chooses the records to remove.                                *)
LEMMA PruneReconciledStep ==
    ASSUME IInv, TypeOK', NEW r \in Runtime, PruneReconciled(r)
    PROVE  Rest' /\ LedgerStep
<1>1. /\ txn'.step = "idle" \/ txn'.step = "mark"
      /\ UNCHANGED <<intent, reservation, op, paid, acked>>
    BY DEF PruneReconciled, EndTxn, NoTxn, files
<1>2. ASSUME NEW v \in Work PROVE WorkOK(v)'
  <2>1. WorkOK(v) /\ JobFor(v) \in Job
      BY TakeApart, Types DEF IInv
  <2> QED BY <1>1, <2>1 DEF IInv, TypeOK, WorkOK, Holds, Recorded
<1>3. ASSUME NEW k \in Job PROVE JobOK(k)'
  <2>1. JobOK(k)
      BY TakeApart
  <2> QED BY <1>1, <2>1 DEF IInv, TypeOK, JobOK, Recorded, Invoking
<1>4. TxnPremises'
  <2>1. CASE txn'.step = "idle"
      BY <2>1 DEF TxnPremises
  <2>2. CASE txn'.step = "mark"
    <3>1. PICK old \in SUBSET ReconciledOf(ProviderOf[r]) : \E i \in old :
             txn' = [step |-> "mark", by |-> r, work |-> intent[i].work,
                     rest |-> old \ {i}]
        BY <2>2 DEF PruneReconciled, EndTxn, NoTxn
    <3> PICK i \in old : txn' = [step |-> "mark", by |-> r, work |-> intent[i].work,
                               rest |-> old \ {i}]
        BY <3>1
    <3>2. \A k \in old : k \in Job /\ Recorded(k) /\ intent[k].state = "reconciled"
        BY <3>1 DEF ReconciledOf
    <3>3. JobFor(intent[i].work) = i
        BY <3>1, <3>2, TakeApart DEF JobOK
    <3> QED BY <1>1, <3>1, <3>2, <3>3 DEF TxnPremises, Holds, Recorded
  <2> QED BY <1>1, <2>1, <2>2
<1>5. LedgerStep
  <2>1. ASSUME NEW v \in Work
        PROVE  StandingOf(v)' = StandingOf(v) /\ (CallingFor(v)' <=> CallingFor(v))
    <3>1. WorkOK(v) /\ JobFor(v) \in Job
        BY TakeApart, Types DEF IInv
    <3> QED BY <1>1, <3>1 DEF IInv, TypeOK, WorkOK, StandingOf, CallingFor, Holds,
                              Recorded, Invoking
  <2> QED BY <2>1, LedgerStutter
<1> QED BY <1>2, <1>3, <1>4, <1>5, PutTogether

(* Recovery takes a job's lock; nothing is on its way to the ledger.       *)
LEMMA BeginReconcileStep ==
    ASSUME IInv, TypeOK', NEW r \in Runtime, BeginReconcile(r)
    PROVE  Rest' /\ LedgerStep
<1>1. /\ \/ op' = op
         \/ \E j \in Job : /\ Recorded(j) /\ intent[j].state \in {"prepared", "invoked"}
                           /\ op' = [op EXCEPT ![j] = op'[j]]
                           /\ op'[j].phase = "querying" /\ op'[j].rec = intent[j]
      /\ txn'.step = "idle"
      /\ UNCHANGED <<intent, reservation, paid, acked>>
  <2> DEFINE j == waiting[r].job
  <2>1. j \in Job
      BY Shapes DEF IInv, BeginReconcile, Call
  <2>2. \/ op' = op
        \/ /\ Recorded(j) /\ intent[j].state # "reconciled"
           /\ op' = [op EXCEPT ![j] = [phase |-> "querying", by |-> r,
                         rec |-> intent[j], answer |-> "none", handle |-> FALSE]]
      BY DEF BeginReconcile
  <2>3. Recorded(j) /\ intent[j].state # "reconciled" =>
           intent[j].state \in {"prepared", "invoked"}
      BY <2>1, Types DEF IInv, Intent
  <2>4. txn'.step = "idle" /\ UNCHANGED <<intent, reservation, paid, acked>>
      BY DEF BeginReconcile, StoreFree, files
  <2> QED BY <2>1, <2>2, <2>3, <2>4 DEF IInv, TypeOK
<1>2. ASSUME NEW v \in Work PROVE WorkOK(v)'
  <2>1. WorkOK(v) /\ JobFor(v) \in Job
      BY TakeApart, Types DEF IInv
  <2> QED BY <1>1, <2>1 DEF IInv, TypeOK, WorkOK, Holds, Recorded
<1>3. ASSUME NEW k \in Job PROVE JobOK(k)'
  <2>1. JobOK(k)
      BY TakeApart
  <2> QED BY <1>1, <2>1 DEF IInv, TypeOK, JobOK, Recorded, Invoking
<1>4. TxnPremises'
    BY <1>1 DEF TxnPremises
<1>5. LedgerStep
  <2>1. ASSUME NEW v \in Work
        PROVE  StandingOf(v)' = StandingOf(v) /\ (CallingFor(v)' <=> CallingFor(v))
    <3>1. JobFor(v) \in Job
        BY Types DEF IInv
    <3>2. StandingOf(v)' = StandingOf(v)
        BY <1>1 DEF StandingOf, Holds, Recorded
    <3>3. ~Invoking(waiting[r].job)
        BY DEF BeginReconcile, JobFree, Invoking
    <3>4. CASE op' = op
        BY <3>2, <3>4 DEF CallingFor, Invoking
    <3>5. CASE op' # op
      <4>1. op' = [op EXCEPT ![waiting[r].job] = op'[waiting[r].job]]
            /\ op'[waiting[r].job].phase = "querying"
          BY <3>5, Shapes DEF IInv, TypeOK, BeginReconcile, Call
      <4> QED BY <3>1, <3>2, <3>3, <4>1 DEF IInv, TypeOK, CallingFor, Invoking
    <3> QED BY <3>4, <3>5
  <2> QED BY <2>1, LedgerStutter
<1> QED BY <1>2, <1>3, <1>4, <1>5, PutTogether

(* A multi-file operation stops half-way.                                  *)
LEMMA FailTxnStep ==
    ASSUME IInv, TypeOK', FailTxn
    PROVE  Rest' /\ LedgerStep
<1>1. /\ txn'.step = "idle"
      /\ UNCHANGED <<intent, reservation, op, paid, acked>>
    BY DEF FailTxn, NoTxn, files
<1>2. ASSUME NEW v \in Work PROVE WorkOK(v)'
  <2>1. WorkOK(v) /\ JobFor(v) \in Job
      BY TakeApart, Types DEF IInv
  <2> QED BY <1>1, <2>1 DEF IInv, TypeOK, WorkOK, Holds, Recorded
<1>3. ASSUME NEW k \in Job PROVE JobOK(k)'
  <2>1. JobOK(k)
      BY TakeApart
  <2> QED BY <1>1, <2>1 DEF IInv, TypeOK, JobOK, Recorded, Invoking
<1>4. TxnPremises'
    BY <1>1 DEF TxnPremises
<1>5. LedgerStep
  <2>1. ASSUME NEW v \in Work
        PROVE  StandingOf(v)' = StandingOf(v) /\ (CallingFor(v)' <=> CallingFor(v))
    <3>1. WorkOK(v) /\ JobFor(v) \in Job
        BY TakeApart, Types DEF IInv
    <3> QED BY <1>1, <3>1 DEF IInv, TypeOK, WorkOK, StandingOf, CallingFor, Holds,
                              Recorded, Invoking
  <2> QED BY <2>1, LedgerStutter
<1> QED BY <1>2, <1>3, <1>4, <1>5, PutTogether

(* The process stops: the ledger loses its calls and nothing else.         *)
LEMMA CrashStep ==
    ASSUME IInv, TypeOK', Crash
    PROVE  Rest' /\ LedgerStep
<1>1. /\ txn'.step = "idle" /\ op' = [j \in Job |-> NoOp]
      /\ UNCHANGED <<intent, reservation, paid, acked>>
    BY DEF Crash, NoTxn, files
<1>2. ASSUME NEW v \in Work PROVE WorkOK(v)'
  <2>1. WorkOK(v) /\ JobFor(v) \in Job
      BY TakeApart, Types DEF IInv
  <2> QED BY <1>1, <2>1 DEF IInv, TypeOK, WorkOK, Holds, Recorded
<1>3. ASSUME NEW k \in Job PROVE JobOK(k)'
  <2>1. JobOK(k)
      BY TakeApart
  <2> QED BY <1>1, <2>1 DEF IInv, TypeOK, JobOK, Recorded, Invoking, NoOp
<1>4. TxnPremises'
    BY <1>1 DEF TxnPremises
<1>5. LedgerStep
  <2>1. ASSUME NEW v \in Work
        PROVE  StandingOf(v)' = StandingOf(v) /\ ~CallingFor(v)'
    <3>1. JobFor(v) \in Job
        BY Types DEF IInv
    <3> QED BY <1>1, <3>1 DEF StandingOf, CallingFor, Holds, Recorded, Invoking, NoOp
  <2>2. Ledger!Stop
      BY <2>1 DEF Ledger!Stop, CallingFor
  <2> QED BY <2>2 DEF LedgerStep, Ledger!LedgerNext
<1> QED BY <1>2, <1>3, <1>4, <1>5, PutTogether

(* Every step keeps the invariant and is a ledger step or a stutter.       *)
LEMMA InvStep ==
    ASSUME IInv, [Next]_vars
    PROVE  IInv' /\ LedgerStep
<1>1. TypeOK'
    BY TypeStep DEF IInv
<1>2. ASSUME UNCHANGED core PROVE Rest' /\ LedgerStep
  <2>1. Rest'
      BY <1>2, Frame DEF IInv, Rest
  <2>2. LedgerStep
      BY <1>2, LedgerStutter DEF core, StandingOf, CallingFor, Holds, Recorded, Invoking
  <2> QED BY <2>1, <2>2
<1>3. ASSUME NEW r \in Runtime, RuntimeStep(r) PROVE Rest' /\ LedgerStep
  <2>1. CASE NewRuntime(r) \/ DropRuntime(r)
      BY <1>2, <2>1 DEF NewRuntime, DropRuntime, core, files
  <2>2. ASSUME NEW w \in Work, Prepare(r, w) PROVE Rest' /\ LedgerStep
    <3>1. UNCHANGED <<op, paid, acked>>
        BY <2>2 DEF Prepare
    <3> QED BY <1>1, <2>2, <3>1, PrepareNewStep, PrepareClearsStep, PrepareExistingStep,
               PreparePrunedStep DEF Prepare
  <2>3. ASSUME NEW j \in Job, StartInvoke(r, j) \/ PickUnfinished(r, j)
        PROVE  Rest' /\ LedgerStep
      BY <1>2, <2>3 DEF StartInvoke, PickUnfinished, core, files
  <2>4. ASSUME NEW j \in Job, Acknowledge(r, j) \/ Retire(r, j)
        PROVE  Rest' /\ LedgerStep
      BY <1>1, <2>4, AcknowledgeStep, RetireStep
  <2>5. CASE PruneReconciled(r) \/ BeginReconcile(r)
      BY <1>1, <2>5, PruneReconciledStep, BeginReconcileStep
  <2>6. CASE BeginInvoke(r)
    <3>1. CASE PermitFor(ProviderOf[r]) /\ MayInvoke(r, waiting[r].job)
        BY <1>1, <2>6, <3>1, BeginInvokeStep
    <3>2. CASE ~(PermitFor(ProviderOf[r]) /\ MayInvoke(r, waiting[r].job))
        BY <1>2, <2>6, <3>2 DEF BeginInvoke, core
    <3> QED BY <3>1, <3>2
  <2> QED BY <1>3, <2>1, <2>2, <2>3, <2>4, <2>5, <2>6 DEF RuntimeStep
<1>4. ASSUME NEW j \in Job, JobStep(j) PROVE Rest' /\ LedgerStep
    BY <1>1, <1>4, ProviderAcceptsStep, ProviderAnswersStep, ProviderReportsStep,
       RecordAnswerStep, LoseAnswerStep, RecordReportStep DEF JobStep
<1>5. ASSUME StoreStep PROVE Rest' /\ LedgerStep
    BY <1>1, <1>5, SaveReservedStep, SaveNewIntentStep, SaveActiveStep, SavePruningStep,
       DiscardIntentStep, SavePrunedStep, UnlinkIntentStep, RemoveReservationStep
       DEF StoreStep
<1>6. ASSUME FailTxn \/ Crash PROVE Rest' /\ LedgerStep
    BY <1>1, <1>6, FailTxnStep, CrashStep
<1>7. ASSUME UNCHANGED vars PROVE Rest' /\ LedgerStep
    BY <1>2, <1>7 DEF vars, files, memory, core
<1>8. Rest' /\ LedgerStep
    BY <1>3, <1>4, <1>5, <1>6, <1>7 DEF Next
<1> QED BY <1>1, <1>8 DEF IInv, Rest

(* An empty project satisfies the invariant.                               *)
LEMMA InvInit == Init => IInv
<1> SUFFICES ASSUME Init PROVE IInv
    OBVIOUS
<1>1. TypeOK
    BY DEF Init, TypeOK, ReservationState
<1>2. \A j \in Job : ~Recorded(j) /\ op[j].phase = "idle"
    BY DEF Init, Recorded, NoIntent, NoOp
<1>3. \A w \in Work : ~Holds(w) /\ reservation[w] = "none"
    BY <1>2, JobForType DEF Init, Holds
<1>4. txn.step = "idle" /\ paid = {} /\ acked = {}
    BY DEF Init, NoTxn
<1> QED BY <1>1, <1>2, <1>3, <1>4 DEF IInv, OpPremises, SnapshotIsFresh,
           NoDanglingMapping, TxnPremises, PaidWorkIsRecorded, AcknowledgedForever

(* In an empty project no work is known to the ledger.                     *)
LEMMA LedgerInitially == Init => Ledger!LedgerInit
<1> SUFFICES ASSUME Init PROVE Ledger!LedgerInit
    OBVIOUS
<1>1. ASSUME NEW w \in Work PROVE StandingOf(w) = "new" /\ ~Invoking(JobFor(w))
  <2>1. JobFor(w) \in Job
      BY JobForType
  <2> QED BY <2>1 DEF Init, StandingOf, Holds, Recorded, NoIntent, Invoking, NoOp
<1> QED BY <1>1 DEF Ledger!LedgerInit

(* The invariant holds in every reachable state.                           *)
THEOREM Invariance == Spec => []IInv
<1>1. IInv /\ [Next]_vars => IInv'
    BY InvStep
<1> QED BY InvInit, <1>1, PTL DEF Spec

(* Every variable keeps its type: attempts never exceed the policy's       *)
(* limit, and every operation under way has a complete record.             *)
THEOREM TypeCorrect == Spec => []TypeOK
<1>1. IInv => TypeOK
    BY DEF IInv
<1> QED BY Invariance, <1>1, PTL

(* Work a provider accepted is on disk, with its attempt counted, or has a *)
(* tombstone, until somebody deliberately gives it up.                     *)
THEOREM PaidWorkKept == Spec => []PaidWorkIsRecorded
<1>1. IInv => PaidWorkIsRecorded
    BY DEF IInv
<1> QED BY Invariance, <1>1, PTL

(* Acknowledged work is never offered again, and nothing but acknowledged  *)
(* work is treated as such.                                                *)
THEOREM AcknowledgedKept == Spec => []AcknowledgedForever
<1>1. IInv => AcknowledgedForever
    BY DEF IInv
<1> QED BY Invariance, <1>1, PTL

(* The record saved after a provider call is the one on disk before it,    *)
(* although the store lock was released during the call.                   *)
THEOREM SnapshotsFresh == Spec => []SnapshotIsFresh
<1>1. IInv => SnapshotIsFresh
    BY DEF IInv
<1> QED BY Invariance, <1>1, PTL

(* A crash or a failed write leaves no intent and no reservation that the  *)
(* next lookup cannot repair.                                              *)
THEOREM NoMappingDangles == Spec => []NoDanglingMapping
<1>1. IInv => NoDanglingMapping
    BY DEF IInv
<1> QED BY Invariance, <1>1, PTL

(* What a multi-file operation checked first still holds before each file. *)
THEOREM PremisesKept == Spec => []TxnPremises
<1>1. IInv => TxnPremises
    BY DEF IInv
<1> QED BY Invariance, <1>1, PTL

(* The runtime, its files, locks and reservations implement the ledger.    *)
THEOREM LedgerImplemented == Spec => ImplementsLedger
<1>1. IInv /\ [Next]_vars => LedgerStep
    BY InvStep
<1> QED BY Invariance, LedgerInitially, <1>1, PTL
        DEF Spec, ImplementsLedger, Ledger!LedgerSpec, LedgerStep
=============================================================================
