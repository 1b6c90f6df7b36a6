---------------------- MODULE KeyframeGeneration_proofs ----------------------
(***************************************************************************)
(* Proofs about KeyframeGeneration, for any number of candidates,          *)
(* generations, attempts, directions and crashes.                          *)
(***************************************************************************)
EXTENDS KeyframeGeneration, TLAPS

USE GenerationAssumption

Answered(c) == Is(c, "invoked") \/ Is(c, "reconciled")

(* What a charge the director has not risked again leaves on disk: its     *)
(* answer, or a call that was counted and of which no refusal is known.    *)
LeavesTrace(c) ==
    \/ receipt[c] # None \/ Answered(c)
    \/ Is(c, "prepared") /\ intent[c].attempts > 0 /\ refusal[c] = None

(* A call for the candidate would not pay for it a second time: nothing    *)
(* is charged, or there is an answer, so that none is sent.                *)
Cleared(c) == charged[c] <= consented[c] \/ receipt[c] # None \/ Answered(c)

(* What is true of a candidate at every time.  Only a prepared intent says *)
(* that it failed; the generations attached are those whose records are    *)
(* there, answered and for the same input; an answer is of the prompt its  *)
(* hash is of; what was answered is kept until it is attached.             *)
CandidateOK(c) ==
    /\ intent[c] # None /\ intent[c].failed => Is(c, "prepared")
    /\ record[c] # None <=> c[1] <= revision
    /\ record[c] # None => /\ Answered(c) /\ record[c].hash = intent[c].hash
                           /\ record[c].hash = record[c].made.direction
    /\ receipt[c] # None => receipt[c].hash = receipt[c].made.direction
    /\ Is(c, "invoked") => Kept(c, intent[c].hash)
    /\ Is(c, "reconciled") => record[c] # None
    /\ charged[c] <= 1 + consented[c]
    /\ charged[c] > consented[c] => LeavesTrace(c)

Ready(c) == intent[c] # None /\ intent[c].hash = plan.hash

(* What a call under way relies on, at each of its stages.                 *)
CallOK(i) ==
    /\ call[i] \in {"start", "counted", "sent", "accepted"} => ~Recovering
    /\ call[i] \in {"start", "counted", "sent", "accepted", "kept", "refused", "lost", "broken"}
          => Is(Id(i), "prepared")
    /\ call[i] \in {"start", "counted"} => Cleared(Id(i))
    /\ call[i] \in {"counted", "sent", "accepted", "kept"} =>
          ~intent[Id(i)].failed /\ intent[Id(i)].attempts > 0
    /\ call[i] = "sent" =>
          refusal[Id(i)] = None /\ charged[Id(i)] <= consented[Id(i)]
    /\ call[i] \in {"kept", "done"} => Kept(Id(i), plan.hash)
    /\ call[i] = "done" => Answered(Id(i))

(* What a run relies on for each of its candidates, at each of its phases. *)
SlotOK(i) ==
    /\ phase = "retiring" => IF i \in left THEN Unresolved(Id(i)) ELSE Cleared(Id(i))
    /\ phase \in {"preparing", "prepared"} /\ ~Recovering => Cleared(Id(i))
    /\ \/ phase = "preparing" /\ i \notin left
       \/ phase \in {"prepared", "calling"}
       => Ready(Id(i))
    /\ phase = "calling" => CallOK(i)
    /\ phase = "acknowledging" => record[Id(i)] # None

(* A run has a plan, for the next generation unless it recovers one; its   *)
(* hash is of the prompt it asks with.                                     *)
RunOK ==
    /\ IF phase \in {"idle", "closed"} THEN plan = None ELSE plan \in Plan
    /\ plan # None /\ ~Recovering =>
          /\ plan.hash = plan.asked.direction
          /\ phase # "acknowledging" => plan.revision = revision + 1
    /\ phase = "retiring" => ~Recovering
    /\ \A p \in todo : p.asked = None
    /\ plan # None => \A i \in Slot : SlotOK(i)

GenIInv == TypeOK /\ (\A c \in Candidate : CandidateOK(c)) /\ RunOK
-----------------------------------------------------------------------------
(* The candidates of a run are its revision's, one for each place.         *)
LEMMA Ids ==
    ASSUME plan \in Plan
    PROVE  /\ \A i \in Slot : Id(i) \in Candidate /\ Id(i)[1] = plan.revision
           /\ \A i, j \in Slot : Id(i) = Id(j) => i = j
           /\ \A c \in Candidate : c[1] = plan.revision => c[2] \in Slot /\ c = Id(c[2])
<1>1. plan.revision \in 1..MaxRevision
    BY DEF Plan
<1> QED BY <1>1 DEF Id, Candidate

(* What a candidate's files hold is whole.                                 *)
LEMMA Shapes ==
    ASSUME TypeOK, NEW c \in Candidate
    PROVE  /\ intent[c] # None => intent[c] \in Intent
           /\ receipt[c] # None => receipt[c] \in Receipt
           /\ record[c] # None => record[c] \in Record
           /\ charged[c] \in Nat /\ consented[c] \in Nat
BY DEF TypeOK

(* A candidate nothing of which changes stays as it must be.               *)
LEMMA CandidateFrame ==
    ASSUME NEW c \in Candidate, CandidateOK(c), revision' = revision,
           record'[c] = record[c], intent'[c] = intent[c], receipt'[c] = receipt[c],
           refusal'[c] = refusal[c], charged'[c] = charged[c], consented'[c] = consented[c]
    PROVE  CandidateOK(c)'
BY DEF CandidateOK, Answered, LeavesTrace, Is, Kept

(* So does one of which only the run knows more.                           *)
LEMMA SlotFrame ==
    ASSUME NEW j \in Slot, SlotOK(j), plan' = plan, phase' = phase,
           j \in left' <=> j \in left, call'[j] = call[j],
           record'[Id(j)] = record[Id(j)], intent'[Id(j)] = intent[Id(j)],
           receipt'[Id(j)] = receipt[Id(j)], refusal'[Id(j)] = refusal[Id(j)],
           charged'[Id(j)] = charged[Id(j)], consented'[Id(j)] = consented[Id(j)]
    PROVE  SlotOK(j)'
<1>1. Id(j)' = Id(j)
    BY DEF Id
<1> QED BY <1>1 DEF SlotOK, CallOK, Unresolved, MayCallAgain, Cleared, Answered, Ready, Is,
                    Kept, Recovering

(* A step of a run at one of its candidates.                               *)
LEMMA OneCandidate ==
    ASSUME GenIInv, TypeOK', plan # None, NEW i \in Slot, NEW c \in Candidate, c = Id(i),
           UNCHANGED <<revision, record, plan, phase, todo>>,
           \A d \in Candidate \ {c} :
               /\ intent'[d] = intent[d] /\ receipt'[d] = receipt[d]
               /\ refusal'[d] = refusal[d] /\ charged'[d] = charged[d]
               /\ consented'[d] = consented[d],
           \A j \in Slot \ {i} : (j \in left' <=> j \in left) /\ call'[j] = call[j],
           CandidateOK(c)', SlotOK(i)'
    PROVE  GenIInv'
<1>0. plan \in Plan
    BY DEF GenIInv, RunOK
<1>1. ASSUME NEW d \in Candidate PROVE CandidateOK(d)'
  <2>1. CASE d = c
      BY <2>1
  <2>2. CASE d # c
      BY <2>2, CandidateFrame DEF GenIInv
  <2> QED BY <2>1, <2>2
<1>2. ASSUME NEW j \in Slot PROVE SlotOK(j)'
  <2>1. CASE j = i
      BY <2>1
  <2>2. CASE j # i
    <3>1. Id(j) \in Candidate \ {c}
        BY <1>0, <2>2, Ids
    <3>2. SlotOK(j)
        BY DEF GenIInv, RunOK
    <3> QED BY <2>2, <3>1, <3>2, SlotFrame
  <2> QED BY <2>1, <2>2
<1>3. RunOK'
    BY <1>2 DEF GenIInv, RunOK, Recovering
<1> QED BY <1>1, <1>3 DEF GenIInv

(* A step of one call.                                                     *)
LEMMA CallStepKeeps ==
    ASSUME GenIInv, NEW i \in Slot, NEW c \in Candidate, c = Id(i),
           NEW from, NEW to \in CallState, Calls(i, from, to),
           intent' \in [Candidate -> Intent \cup {None}],
           receipt' \in [Candidate -> Receipt \cup {None}],
           refusal' \in [Candidate -> Directions \cup {None}],
           charged' \in [Candidate -> Nat],
           \A d \in Candidate \ {c} :
               /\ intent'[d] = intent[d] /\ receipt'[d] = receipt[d]
               /\ refusal'[d] = refusal[d] /\ charged'[d] = charged[d],
           CandidateOK(c)', Ready(c)', CallOK(i)'
    PROVE  GenIInv'
<1>1. /\ phase = "calling" /\ call' = [call EXCEPT ![i] = to]
      /\ UNCHANGED <<brief, revision, record, phase, plan, left, todo, outcome, consented,
                     asked, changed, crashed>>
    BY DEF Calls, shot, count
<1>2. TypeOK'
    BY <1>1 DEF GenIInv, TypeOK
<1>3. plan # None
    BY <1>1 DEF GenIInv, RunOK
<1>4. SlotOK(i)'
    BY <1>1 DEF SlotOK, Id
<1> QED BY <1>1, <1>2, <1>3, <1>4, OneCandidate DEF GenIInv, TypeOK
-----------------------------------------------------------------------------
(* The calls, one step per action.                                         *)

(* What every step of a call finds.                                        *)
LEMMA CallPremises ==
    ASSUME GenIInv, NEW i \in Slot, phase = "calling"
    PROVE  /\ plan \in Plan /\ Id(i) \in Candidate /\ CandidateOK(Id(i))
           /\ Ready(Id(i)) /\ intent[Id(i)] \in Intent /\ CallOK(i)
<1>1. plan \in Plan /\ plan # None /\ SlotOK(i)
    BY DEF GenIInv, RunOK
<1>2. Id(i) \in Candidate
    BY <1>1, Ids
<1>3. Ready(Id(i)) /\ CallOK(i)
    BY <1>1 DEF SlotOK
<1> QED BY <1>1, <1>2, <1>3, Shapes DEF GenIInv, Ready

(* A new call state and nothing else.                                      *)
LEMMA OnlyTheCall ==
    ASSUME GenIInv, NEW i \in Slot, NEW from, NEW to \in CallState, Calls(i, from, to),
           UNCHANGED <<jobs, charged>>,
           to \notin {"start", "counted", "sent", "accepted", "kept", "done"},
           to \in {"refused", "lost", "broken"} => Is(Id(i), "prepared")
    PROVE  GenIInv'
<1>1. phase = "calling"
    BY DEF Calls
<1>2. PICK c \in Candidate : c = Id(i)
    BY <1>1, CallPremises
<1>3. /\ Ready(c) /\ CallOK(i) /\ CandidateOK(c)
      /\ UNCHANGED <<intent, receipt, refusal, charged, record, revision, plan, consented>>
    BY <1>1, <1>2, CallPremises DEF Calls, shot, jobs
<1>4. CandidateOK(c)'
    BY <1>3, CandidateFrame
<1>5. Ready(c)'
    BY <1>3 DEF Ready
<1>6. call'[i] = to
    BY DEF Calls, GenIInv, TypeOK
<1>7. CallOK(i)'
    BY <1>2, <1>3, <1>6 DEF CallOK, Is, Id, Recovering, Kept, Cleared, Answered
<1> QED BY <1>2, <1>3, <1>4, <1>5, <1>7, CallStepKeeps DEF GenIInv, TypeOK

LEMMA CountAttemptKeeps ==
    ASSUME GenIInv, NEW i \in Slot, CountAttempt(i)
    PROVE  GenIInv'
<1>1. CASE Calls(i, "start", "error") /\ UNCHANGED <<jobs, charged>>
    BY <1>1, OnlyTheCall DEF CallState
<1>2. CASE /\ Calls(i, "start", "counted") /\ ~Exhausted(Id(i))
           /\ intent' = [intent EXCEPT ![Id(i)].attempts = @ + 1, ![Id(i)].failed = FALSE]
           /\ UNCHANGED <<receipt, refusal, charged>>
  <2>1. phase = "calling" /\ call[i] = "start"
      BY <1>2 DEF Calls
  <2>2. PICK c \in Candidate : c = Id(i)
      BY <2>1, CallPremises
  <2> DEFINE y == [intent[c] EXCEPT !.attempts = @ + 1, !.failed = FALSE]
  <2>3. /\ intent[c] \in Intent /\ Ready(c) /\ CallOK(i) /\ CandidateOK(c)
        /\ Is(c, "prepared") /\ Cleared(c) /\ ~Recovering
      BY <2>1, <2>2, CallPremises DEF CallOK
  <2>4. intent[c].attempts + 1 \in 0..MaxAttempts
      BY <1>2, <2>2, <2>3 DEF Exhausted, Intent
  <2>5. /\ y \in Intent /\ y.state = "prepared" /\ y.attempts > 0 /\ y.failed = FALSE
        /\ y.hash = intent[c].hash
    <3>1. PICK n \in Nat : n = intent[c].attempts
        BY <2>3 DEF Intent
    <3> DEFINE z == [intent[c] EXCEPT !.attempts = n + 1]
    <3>2. /\ z \in Intent /\ z.state = "prepared" /\ z.attempts = n + 1
          /\ z.hash = intent[c].hash
        BY <2>3, <2>4, <3>1 DEF Intent, Is
    <3>3. y = [z EXCEPT !.failed = FALSE]
        BY <3>1
    <3> HIDE DEF y, z
    <3>4. y \in Intent
        BY <3>2, <3>3 DEF Intent
    <3>5. y.failed = FALSE
        BY <3>2, <3>3 DEF Intent
    <3>6. y.state = "prepared" /\ y.attempts = n + 1 /\ y.hash = intent[c].hash
        BY <3>2, <3>3 DEF Intent
    <3> QED BY <3>4, <3>5, <3>6
  <2>6. intent' = [intent EXCEPT ![c] = y]
      BY <1>2, <2>2 DEF GenIInv, TypeOK
  <2> HIDE DEF y
  <2>7. /\ intent' \in [Candidate -> Intent \cup {None}] /\ intent'[c] = y
        /\ \A d \in Candidate \ {c} : intent'[d] = intent[d]
      BY <2>5, <2>6 DEF GenIInv, TypeOK
  <2>8. UNCHANGED <<record, revision, plan, consented>> /\ call'[i] = "counted"
      BY <1>2 DEF Calls, shot, GenIInv, TypeOK
  <2>9. y # None
      BY <2>5
  <2>10. CandidateOK(c)'
      BY <1>2, <2>3, <2>5, <2>7, <2>8, <2>9 DEF CandidateOK, Is, Answered, LeavesTrace, Cleared, Kept
  <2>11. Ready(c)'
      BY <2>3, <2>5, <2>7, <2>8, <2>9 DEF Ready
  <2>12. CallOK(i)'
      BY <1>2, <2>2, <2>3, <2>5, <2>7, <2>8, <2>9
         DEF CallOK, Is, Id, Recovering, Cleared, Answered
  <2> QED BY <1>2, <2>2, <2>7, <2>10, <2>11, <2>12, CallStepKeeps DEF GenIInv, TypeOK, CallState
<1> QED BY <1>1, <1>2 DEF CountAttempt

LEMMA UseReceiptKeeps ==
    ASSUME GenIInv, NEW i \in Slot, UseReceipt(i)
    PROVE  GenIInv'
<1>0. phase = "calling" /\ call[i] = "counted" /\ UNCHANGED <<jobs, charged>>
    BY DEF UseReceipt, Calls
<1>1. CASE Calls(i, "counted", "broken")
    BY <1>0, <1>1, CallPremises, OnlyTheCall DEF CallState, CallOK
<1>2. CASE Calls(i, "counted", "kept") /\ Kept(Id(i), plan.hash)
  <2>1. PICK c \in Candidate : c = Id(i)
      BY <1>0, CallPremises
  <2>2. /\ Ready(c) /\ CallOK(i) /\ CandidateOK(c)
        /\ UNCHANGED <<intent, receipt, refusal, charged, record, revision, plan, consented>>
        /\ call'[i] = "kept"
      BY <1>0, <1>2, <2>1, CallPremises DEF Calls, shot, jobs, GenIInv, TypeOK
  <2>3. CandidateOK(c)' /\ Ready(c)'
      BY <2>2, CandidateFrame DEF Ready
  <2>4. CallOK(i)'
      BY <1>0, <1>2, <2>1, <2>2 DEF CallOK, Is, Id, Kept
  <2> QED BY <1>2, <2>1, <2>2, <2>3, <2>4, CallStepKeeps DEF GenIInv, TypeOK, CallState
<1> QED BY <1>1, <1>2 DEF UseReceipt

LEMMA SendKeeps ==
    ASSUME GenIInv, NEW i \in Slot, Send(i)
    PROVE  GenIInv'
<1>0. phase = "calling" /\ call[i] = "counted" /\ receipt[Id(i)] = None
      /\ UNCHANGED <<intent, receipt, charged>>
    BY DEF Send, Calls
<1>1. CASE Calls(i, "counted", "refused") /\ UNCHANGED refusal
    BY <1>0, <1>1, CallPremises, OnlyTheCall DEF CallState, CallOK, jobs
<1>2. CASE Calls(i, "counted", "sent") /\ refusal' = ClearRefusal(Id(i))
  <2>1. PICK c \in Candidate : c = Id(i)
      BY <1>0, CallPremises
  <2>2. /\ Ready(c) /\ CallOK(i) /\ CandidateOK(c)
        /\ UNCHANGED <<record, revision, plan, consented>> /\ call'[i] = "sent"
      BY <1>0, <1>2, <2>1, CallPremises DEF Calls, shot, GenIInv, TypeOK
  <2>3. Is(c, "prepared") /\ charged[c] <= consented[c] /\ intent[c].attempts > 0
        /\ ~intent[c].failed /\ ~Recovering
      BY <1>0, <2>1, <2>2 DEF CallOK, Cleared, Answered, Is
  <2>4. /\ refusal' \in [Candidate -> Directions \cup {None}] /\ refusal'[c] = None
        /\ \A d \in Candidate \ {c} : refusal'[d] = refusal[d]
      BY <1>2, <2>1 DEF ClearRefusal, GenIInv, TypeOK
  <2>5. CandidateOK(c)'
      BY <1>0, <2>2, <2>3, <2>4 DEF CandidateOK, LeavesTrace, Answered, Is, Kept
  <2>6. Ready(c)'
      BY <1>0, <2>2 DEF Ready
  <2>7. CallOK(i)'
      BY <1>0, <2>1, <2>2, <2>3, <2>4 DEF CallOK, Is, Id, Recovering
  <2> QED BY <1>0, <1>2, <2>1, <2>4, <2>5, <2>6, <2>7, CallStepKeeps DEF GenIInv, TypeOK, CallState
<1> QED BY <1>1, <1>2 DEF Send

LEMMA ProviderAcceptsKeeps ==
    ASSUME GenIInv, NEW i \in Slot, ProviderAccepts(i)
    PROVE  GenIInv'
<1>0. /\ phase = "calling" /\ call[i] = "sent" /\ Calls(i, "sent", "accepted")
      /\ charged' = [charged EXCEPT ![Id(i)] = @ + 1]
      /\ UNCHANGED <<intent, receipt, refusal>>
    BY DEF ProviderAccepts, Calls, jobs
<1>1. PICK c \in Candidate : c = Id(i)
    BY <1>0, CallPremises
<1>2. /\ Ready(c) /\ CallOK(i) /\ CandidateOK(c)
      /\ UNCHANGED <<record, revision, plan, consented>> /\ call'[i] = "accepted"
    BY <1>0, <1>1, CallPremises DEF Calls, shot, GenIInv, TypeOK
<1>3. /\ Is(c, "prepared") /\ charged[c] <= consented[c] /\ intent[c].attempts > 0
      /\ ~intent[c].failed /\ refusal[c] = None /\ ~Recovering
    BY <1>0, <1>1, <1>2 DEF CallOK
<1>4. /\ charged' \in [Candidate -> Nat] /\ charged'[c] = charged[c] + 1
      /\ \A d \in Candidate \ {c} : charged'[d] = charged[d]
      /\ charged[c] \in Nat /\ consented[c] \in Nat
    BY <1>0, <1>1 DEF GenIInv, TypeOK
<1>5. CandidateOK(c)'
    BY <1>0, <1>2, <1>3, <1>4 DEF CandidateOK, LeavesTrace, Answered, Is, Kept
<1>6. Ready(c)'
    BY <1>0, <1>2 DEF Ready
<1>7. CallOK(i)'
    BY <1>0, <1>1, <1>2, <1>3 DEF CallOK, Is, Id, Recovering
<1> QED BY <1>0, <1>1, <1>4, <1>5, <1>6, <1>7, CallStepKeeps DEF GenIInv, TypeOK, CallState

LEMMA ProviderRefusesKeeps ==
    ASSUME GenIInv, NEW i \in Slot, ProviderRefuses(i)
    PROVE  GenIInv'
<1>0. phase = "calling" /\ call[i] = "sent" /\ Calls(i, "sent", "refused")
    BY DEF ProviderRefuses, Calls
<1>1. CASE UNCHANGED <<jobs, charged>>
    BY <1>0, <1>1, CallPremises, OnlyTheCall DEF CallState, CallOK
<1>2. CASE /\ refusal' = [refusal EXCEPT ![Id(i)] = plan.hash]
           /\ UNCHANGED <<intent, receipt, charged>>
  <2>1. PICK c \in Candidate : c = Id(i)
      BY <1>0, CallPremises
  <2>2. /\ Ready(c) /\ CallOK(i) /\ CandidateOK(c) /\ plan.hash \in Directions
        /\ UNCHANGED <<record, revision, plan, consented>> /\ call'[i] = "refused"
      BY <1>0, <2>1, CallPremises DEF Calls, shot, GenIInv, TypeOK, Plan
  <2>3. Is(c, "prepared") /\ charged[c] <= consented[c]
      BY <1>0, <2>1, <2>2 DEF CallOK
  <2>4. /\ refusal' \in [Candidate -> Directions \cup {None}]
        /\ \A d \in Candidate \ {c} : refusal'[d] = refusal[d]
      BY <1>2, <2>1, <2>2 DEF GenIInv, TypeOK
  <2>5. CandidateOK(c)'
    <3>1. charged[c] \in Nat /\ consented[c] \in Nat
        BY DEF GenIInv, TypeOK
    <3> QED BY <1>2, <2>2, <2>3, <3>1 DEF CandidateOK, Answered, Is, Kept
  <2>6. Ready(c)'
      BY <1>2, <2>2 DEF Ready
  <2>7. CallOK(i)'
      BY <1>2, <2>1, <2>2, <2>3 DEF CallOK, Is, Id
  <2> QED BY <1>0, <1>2, <2>1, <2>4, <2>5, <2>6, <2>7, CallStepKeeps DEF GenIInv, TypeOK, CallState
<1> QED BY <1>1, <1>2 DEF ProviderRefuses

LEMMA LoseAnswerKeeps ==
    ASSUME GenIInv, NEW i \in Slot, LoseAnswer(i)
    PROVE  GenIInv'
<1>1. phase = "calling" /\ call[i] \in {"sent", "accepted", "kept"}
    BY DEF LoseAnswer, Calls
<1>2. Is(Id(i), "prepared")
    BY <1>1, CallPremises DEF CallOK
<1> QED BY <1>2, OnlyTheCall DEF LoseAnswer, CallState

LEMMA KeepAnswerKeeps ==
    ASSUME GenIInv, NEW i \in Slot, KeepAnswer(i)
    PROVE  GenIInv'
<1> DEFINE y == [hash |-> plan.hash, made |-> plan.asked]
<1>0. /\ phase = "calling" /\ call[i] = "accepted" /\ Calls(i, "accepted", "kept")
      /\ receipt' = [receipt EXCEPT ![Id(i)] = y]
      /\ UNCHANGED <<intent, refusal, charged>>
    BY DEF KeepAnswer, Calls
<1>1. PICK c \in Candidate : c = Id(i)
    BY <1>0, CallPremises
<1>2. /\ Ready(c) /\ CallOK(i) /\ CandidateOK(c) /\ plan \in Plan
      /\ UNCHANGED <<record, revision, plan, consented>> /\ call'[i] = "kept"
    BY <1>0, <1>1, CallPremises DEF Calls, shot, GenIInv, TypeOK
<1>3. /\ Is(c, "prepared") /\ intent[c].attempts > 0 /\ ~intent[c].failed /\ ~Recovering
    BY <1>0, <1>1, <1>2 DEF CallOK
<1>4. /\ y \in Receipt /\ y.hash = plan.hash /\ y.hash = y.made.direction
    BY <1>2, <1>3 DEF Receipt, Plan, Recovering, GenIInv, RunOK
<1> HIDE DEF y
<1>5. /\ receipt' \in [Candidate -> Receipt \cup {None}] /\ receipt'[c] = y /\ y # None
      /\ \A d \in Candidate \ {c} : receipt'[d] = receipt[d]
    BY <1>0, <1>1, <1>4 DEF GenIInv, TypeOK
<1>6. CandidateOK(c)'
    BY <1>0, <1>2, <1>3, <1>4, <1>5 DEF CandidateOK, LeavesTrace, Answered, Is, Kept
<1>7. Ready(c)'
    BY <1>0, <1>2 DEF Ready
<1>8. CallOK(i)'
    BY <1>0, <1>1, <1>2, <1>3, <1>4, <1>5 DEF CallOK, Is, Id, Kept
<1> QED BY <1>0, <1>1, <1>5, <1>6, <1>7, <1>8, CallStepKeeps DEF GenIInv, TypeOK, CallState

LEMMA RecordAnswerKeeps ==
    ASSUME GenIInv, NEW i \in Slot, RecordAnswer(i)
    PROVE  GenIInv'
<1>1. CASE Calls(i, "kept", "error") /\ UNCHANGED <<jobs, charged>>
    BY <1>1, OnlyTheCall DEF CallState
<1>2. CASE /\ Calls(i, "kept", "done")
           /\ intent' = [intent EXCEPT ![Id(i)].state = "invoked"]
           /\ UNCHANGED <<receipt, refusal, charged>>
  <2>1. phase = "calling" /\ call[i] = "kept"
      BY <1>2 DEF Calls
  <2>2. PICK c \in Candidate : c = Id(i)
      BY <2>1, CallPremises
  <2> DEFINE y == [intent[c] EXCEPT !.state = "invoked"]
  <2>3. /\ intent[c] \in Intent /\ Ready(c) /\ CallOK(i) /\ CandidateOK(c)
        /\ UNCHANGED <<record, revision, plan, consented>> /\ call'[i] = "done"
      BY <1>2, <2>1, <2>2, CallPremises DEF Calls, shot, GenIInv, TypeOK
  <2>4. Is(c, "prepared") /\ ~intent[c].failed /\ Kept(c, plan.hash)
      BY <2>1, <2>2, <2>3 DEF CallOK
  <2>5. /\ y \in Intent /\ y.state = "invoked" /\ y.failed = intent[c].failed
        /\ y.hash = intent[c].hash
      BY <2>3 DEF Intent
  <2>6. intent' = [intent EXCEPT ![c] = y]
      BY <1>2, <2>2 DEF GenIInv, TypeOK
  <2> HIDE DEF y
  <2>7. /\ intent' \in [Candidate -> Intent \cup {None}] /\ intent'[c] = y /\ y # None
        /\ \A d \in Candidate \ {c} : intent'[d] = intent[d]
      BY <2>5, <2>6 DEF GenIInv, TypeOK
  <2>8. CandidateOK(c)'
      BY <1>2, <2>3, <2>4, <2>5, <2>7 DEF CandidateOK, Is, Answered, LeavesTrace, Kept, Ready
  <2>9. Ready(c)'
      BY <2>3, <2>5, <2>7 DEF Ready
  <2>10. CallOK(i)'
      BY <1>2, <2>2, <2>3, <2>4, <2>5, <2>7 DEF CallOK, Is, Id, Answered, Kept
  <2> QED BY <1>2, <2>2, <2>7, <2>8, <2>9, <2>10, CallStepKeeps DEF GenIInv, TypeOK, CallState
<1> QED BY <1>1, <1>2 DEF RecordAnswer

LEMMA RecordFailureKeeps ==
    ASSUME GenIInv, NEW i \in Slot, RecordFailure(i)
    PROVE  GenIInv'
<1>1. PICK from \in {"refused", "lost", "broken"}, to \in {"error", "unresolved"} :
         /\ Calls(i, from, to)
         /\ \/ /\ intent' = [intent EXCEPT ![Id(i)].failed = TRUE]
               /\ UNCHANGED <<receipt, refusal, charged>>
            \/ UNCHANGED <<jobs, charged>>
    BY DEF RecordFailure
<1>2. CASE UNCHANGED <<jobs, charged>>
    BY <1>1, <1>2, OnlyTheCall DEF CallState
<1>3. CASE /\ intent' = [intent EXCEPT ![Id(i)].failed = TRUE]
           /\ UNCHANGED <<receipt, refusal, charged>>
  <2>1. phase = "calling" /\ call[i] = from
      BY <1>1 DEF Calls
  <2>2. PICK c \in Candidate : c = Id(i)
      BY <2>1, CallPremises
  <2> DEFINE y == [intent[c] EXCEPT !.failed = TRUE]
  <2>3. /\ intent[c] \in Intent /\ Ready(c) /\ CallOK(i) /\ CandidateOK(c)
        /\ UNCHANGED <<record, revision, plan, consented>> /\ call'[i] = to
      BY <1>1, <2>1, <2>2, CallPremises DEF Calls, shot, GenIInv, TypeOK
  <2>4. Is(c, "prepared")
      BY <2>1, <2>2, <2>3 DEF CallOK
  <2>5. /\ y \in Intent /\ y.state = intent[c].state /\ y.attempts = intent[c].attempts
        /\ y.hash = intent[c].hash
      BY <2>3 DEF Intent
  <2>6. intent' = [intent EXCEPT ![c] = y]
      BY <1>3, <2>2 DEF GenIInv, TypeOK
  <2> HIDE DEF y
  <2>7. /\ intent' \in [Candidate -> Intent \cup {None}] /\ intent'[c] = y /\ y # None
        /\ \A d \in Candidate \ {c} : intent'[d] = intent[d]
      BY <2>5, <2>6 DEF GenIInv, TypeOK
  <2>8. CandidateOK(c)'
      BY <1>3, <2>3, <2>4, <2>5, <2>7 DEF CandidateOK, Is, Answered, LeavesTrace, Kept
  <2>9. Ready(c)'
      BY <2>3, <2>5, <2>7 DEF Ready
  <2>10. CallOK(i)'
      BY <2>3 DEF CallOK
  <2>11. to \in CallState /\ Calls(i, from, to)
      BY <1>1 DEF CallState
  <2> QED BY <1>3, <2>2, <2>7, <2>8, <2>9, <2>10, <2>11, CallStepKeeps DEF GenIInv, TypeOK
<1> QED BY <1>1, <1>2, <1>3
-----------------------------------------------------------------------------
(* The rest of a run.                                                      *)

(* Where no run is under way only the candidates matter.                   *)
LEMMA NoRun ==
    ASSUME GenIInv, TypeOK', plan' = None, phase' \in {"idle", "closed"},
           UNCHANGED <<revision, record, jobs, charged, consented>>,
           \A p \in todo' : p.asked = None
    PROVE  GenIInv'
<1>1. UNCHANGED <<intent, receipt, refusal>>
    BY DEF jobs
<1>2. \A c \in Candidate : CandidateOK(c)'
    BY <1>1, CandidateFrame DEF GenIInv
<1>3. RunOK'
    BY DEF RunOK
<1> QED BY <1>2, <1>3 DEF GenIInv

(* A run goes to its next phase.                                           *)
LEMMA NextPhase ==
    ASSUME GenIInv, TypeOK', phase \notin {"idle", "closed", "acknowledging"},
           phase' \notin {"idle", "closed", "retiring"},
           UNCHANGED <<revision, record, jobs, charged, consented, plan, todo>>,
           \A i \in Slot : SlotOK(i)'
    PROVE  GenIInv'
<1>1. UNCHANGED <<intent, receipt, refusal>>
    BY DEF jobs
<1>2. \A c \in Candidate : CandidateOK(c)'
    BY <1>1, CandidateFrame DEF GenIInv
<1>3. RunOK'
    BY DEF GenIInv, RunOK, Recovering
<1> QED BY <1>2, <1>3 DEF GenIInv

(* What a run under way has for each of its candidates.                    *)
LEMMA RunPremises ==
    ASSUME GenIInv, phase \notin {"idle", "closed"}
    PROVE  /\ plan \in Plan /\ plan # None
           /\ \A i \in Slot : Id(i) \in Candidate /\ CandidateOK(Id(i)) /\ SlotOK(i)
<1>1. plan \in Plan /\ plan # None
    BY DEF GenIInv, RunOK
<1> QED BY <1>1, Ids DEF GenIInv, RunOK

LEMMA RetireUnresolvedKeeps ==
    ASSUME GenIInv, NEW i \in Slot, RetireUnresolved(i)
    PROVE  GenIInv'
<1>0. /\ phase = "retiring" /\ phase' = "retiring" /\ i \in left /\ left' = left \ {i}
      /\ intent' = [intent EXCEPT ![Id(i)] = None]
      /\ consented' = [consented EXCEPT ![Id(i)] = @ + 1]
      /\ UNCHANGED <<brief, revision, record, receipt, refusal, plan, call, outcome, todo,
                     charged, asked, changed, crashed>>
    BY DEF RetireUnresolved, Turn, Enter, shot, count
<1>1. PICK c \in Candidate : c = Id(i)
    BY <1>0, RunPremises
<1>2. plan # None /\ CandidateOK(c) /\ SlotOK(i) /\ ~Recovering
    BY <1>0, <1>1, RunPremises DEF GenIInv, RunOK
<1>3. Is(c, "prepared")
    BY <1>0, <1>1, <1>2 DEF SlotOK, Unresolved
<1>4. /\ intent' \in [Candidate -> Intent \cup {None}] /\ intent'[c] = None
      /\ consented' \in [Candidate -> Nat] /\ consented'[c] = consented[c] + 1
      /\ \A d \in Candidate \ {c} : intent'[d] = intent[d] /\ consented'[d] = consented[d]
      /\ charged[c] \in Nat /\ consented[c] \in Nat
    BY <1>0, <1>1 DEF GenIInv, TypeOK
<1>5. TypeOK'
    BY <1>0, <1>4 DEF GenIInv, TypeOK
<1>6. CandidateOK(c)'
    BY <1>0, <1>2, <1>3, <1>4 DEF CandidateOK, Is, Answered
<1>7. SlotOK(i)'
    BY <1>0, <1>1, <1>2, <1>4, <1>6 DEF SlotOK, CandidateOK, Cleared, Id
<1> QED BY <1>0, <1>1, <1>2, <1>4, <1>5, <1>6, <1>7, OneCandidate

LEMMA RetiredAllKeeps == GenIInv /\ RetiredAll => GenIInv'
<1> SUFFICES ASSUME GenIInv, RetiredAll PROVE GenIInv'
    OBVIOUS
<1>1. /\ phase = "retiring" /\ left = {} /\ phase' = "preparing" /\ left' = Slot
      /\ UNCHANGED <<brief, revision, record, intent, receipt, refusal, plan, call, outcome,
                     todo, charged, consented, asked, changed, crashed>>
    BY DEF RetiredAll, Enter, shot, jobs, count
<1>2. TypeOK'
    BY <1>1 DEF GenIInv, TypeOK
<1>3. ASSUME NEW i \in Slot PROVE SlotOK(i)'
  <2>1. Cleared(Id(i))
      BY <1>1, RunPremises DEF SlotOK
  <2> QED BY <1>1, <2>1 DEF SlotOK, Cleared, Answered, Is, Id
<1> QED BY <1>1, <1>2, <1>3, NextPhase DEF jobs

LEMMA RetireFailedKeeps ==
    ASSUME GenIInv, NEW i \in Slot, RetireFailed(i)
    PROVE  GenIInv'
<1>0. /\ phase = "preparing" /\ i \in left /\ MustRetire(i)
      /\ intent' = [intent EXCEPT ![Id(i)] = None]
      /\ UNCHANGED <<brief, revision, record, receipt, refusal, phase, plan, left, call,
                     outcome, todo, charged, consented, asked, changed, crashed>>
    BY DEF RetireFailed, Turn, shot, run, count
<1>1. PICK c \in Candidate : c = Id(i)
    BY <1>0, RunPremises
<1>2. plan # None /\ CandidateOK(c) /\ SlotOK(i)
    BY <1>0, <1>1, RunPremises
<1>3. Is(c, "prepared") /\ Cleared(c)
    BY <1>0, <1>1, <1>2 DEF SlotOK, MustRetire, CandidateOK
<1>4. /\ intent' \in [Candidate -> Intent \cup {None}] /\ intent'[c] = None
      /\ \A d \in Candidate \ {c} : intent'[d] = intent[d]
      /\ charged[c] \in Nat /\ consented[c] \in Nat
    BY <1>0, <1>1 DEF GenIInv, TypeOK
<1>5. TypeOK'
    BY <1>0, <1>4 DEF GenIInv, TypeOK
<1>6. CandidateOK(c)' /\ Cleared(c)'
    BY <1>0, <1>2, <1>3, <1>4 DEF CandidateOK, Cleared, LeavesTrace, Is, Answered, Kept
<1>7. SlotOK(i)'
    BY <1>0, <1>1, <1>6 DEF SlotOK, Id
<1> QED BY <1>0, <1>1, <1>2, <1>4, <1>5, <1>6, <1>7, OneCandidate

(* A run that ends leaves its candidates as they are.                      *)
LEMMA EndKeeps ==
    ASSUME GenIInv, NEW how \in {"attached", "unresolved", "failed", "blocked", "needs_call"},
           End(how), UNCHANGED <<shot, jobs, todo, charged, consented, count>>
    PROVE  GenIInv'
<1>1. /\ phase' = "idle" /\ plan' = None /\ left' = {} /\ call' = Quiet /\ outcome' = how
      /\ UNCHANGED <<brief, revision, record, intent, receipt, refusal, todo, charged,
                     consented, asked, changed, crashed>>
    BY DEF End, shot, jobs, count
<1>2. TypeOK'
    BY <1>1 DEF GenIInv, TypeOK, Quiet, CallState
<1> QED BY <1>1, <1>2, NoRun DEF jobs, GenIInv, RunOK

LEMMA PrepareKeeps ==
    ASSUME GenIInv, NEW i \in Slot, Prepare(i)
    PROVE  GenIInv'
<1>0. /\ phase = "preparing" /\ i \in left
      /\ UNCHANGED <<brief, revision, record, receipt, refusal, todo, charged, consented,
                     asked, changed, crashed>>
    BY DEF Prepare, Turn, shot, count
<1>1. CASE End("blocked") /\ intent' = intent
    BY <1>0, <1>1, EndKeeps DEF shot, jobs, count
<1>2. CASE ~OtherWork(i) /\ Enter("preparing", left \ {i})
           /\ intent' = IF intent[Id(i)] # None THEN intent
                         ELSE [intent EXCEPT ![Id(i)] =
                                  [state |-> "prepared", attempts |-> 0,
                                   failed |-> FALSE, hash |-> plan.hash]]
  <2>1. PICK c \in Candidate : c = Id(i)
      BY <1>0, RunPremises
  <2>2. plan \in Plan /\ plan # None /\ CandidateOK(c) /\ SlotOK(i)
      BY <1>0, <2>1, RunPremises
  <2> DEFINE y == [state |-> "prepared", attempts |-> 0, failed |-> FALSE, hash |-> plan.hash]
  <2>3. /\ y \in Intent /\ y.state = "prepared" /\ y.attempts = 0 /\ y.failed = FALSE
        /\ y.hash = plan.hash
      BY <2>2 DEF Intent, Plan
  <2>4. intent' = IF intent[c] # None THEN intent ELSE [intent EXCEPT ![c] = y]
      BY <1>2, <2>1
  <2> HIDE DEF y
  <2>5. /\ intent' \in [Candidate -> Intent \cup {None}] /\ y # None
        /\ intent'[c] = IF intent[c] # None THEN intent[c] ELSE y
        /\ \A d \in Candidate \ {c} : intent'[d] = intent[d]
        /\ charged[c] \in Nat /\ consented[c] \in Nat
      BY <2>3, <2>4 DEF GenIInv, TypeOK
  <2>6. phase' = "preparing" /\ left' = left \ {i} /\ UNCHANGED <<plan, call, outcome>>
      BY <1>2 DEF Enter
  <2>7. TypeOK'
      BY <1>0, <2>5, <2>6 DEF GenIInv, TypeOK
  <2>8. CandidateOK(c)'
    <3>1. CASE intent[c] # None
        BY <1>0, <2>2, <2>5, <3>1, CandidateFrame
    <3>2. CASE intent[c] = None
        BY <1>0, <2>2, <2>3, <2>5, <3>2
           DEF CandidateOK, LeavesTrace, Is, Answered, Kept
    <3> QED BY <3>1, <3>2
  <2>9. Ready(c)'
      BY <1>2, <2>1, <2>3, <2>5, <2>6 DEF Ready, OtherWork
  <2>10. ~Recovering => Cleared(c)'
      BY <1>0, <2>1, <2>2, <2>5 DEF SlotOK, Cleared, Is, Answered
  <2>11. SlotOK(i)'
      BY <2>1, <2>6, <2>9, <2>10 DEF SlotOK, Id, Recovering
  <2> QED BY <1>0, <2>1, <2>2, <2>5, <2>6, <2>7, <2>8, <2>11, OneCandidate
<1> QED BY <1>1, <1>2 DEF Prepare

LEMMA PreparedAllKeeps == GenIInv /\ PreparedAll => GenIInv'
<1> SUFFICES ASSUME GenIInv, PreparedAll PROVE GenIInv'
    OBVIOUS
<1>1. /\ phase = "preparing" /\ left = {} /\ phase' = "prepared" /\ left' = {}
      /\ UNCHANGED <<brief, revision, record, intent, receipt, refusal, plan, call, outcome,
                     todo, charged, consented, asked, changed, crashed>>
    BY DEF PreparedAll, Enter, shot, jobs, count
<1>2. TypeOK'
    BY <1>1 DEF GenIInv, TypeOK
<1>3. ASSUME NEW i \in Slot PROVE SlotOK(i)'
  <2>1. Ready(Id(i)) /\ (~Recovering => Cleared(Id(i)))
      BY <1>1, RunPremises DEF SlotOK
  <2> QED BY <1>1, <2>1 DEF SlotOK, Cleared, Answered, Is, Id, Ready, Recovering
<1> QED BY <1>1, <1>2, <1>3, NextPhase DEF jobs

LEMMA BeginKeeps == GenIInv /\ Begin => GenIInv'
<1> SUFFICES ASSUME GenIInv, Begin PROVE GenIInv'
    OBVIOUS
<1>0. phase = "prepared" /\ UNCHANGED <<shot, jobs, todo, charged, consented, count>>
    BY DEF Begin
<1>1. CASE End("failed") \/ End("needs_call")
    BY <1>0, <1>1, EndKeeps
<1>2. CASE Attached /\ Enter("acknowledging", Slot)
  <2>1. TypeOK'
      BY <1>0, <1>2 DEF GenIInv, TypeOK, Enter, shot, jobs, count
  <2>2. ASSUME NEW i \in Slot PROVE SlotOK(i)'
      BY <1>0, <1>2 DEF SlotOK, Attached, Enter, Id, shot
  <2> QED BY <1>0, <1>2, <2>1, <2>2, NextPhase DEF Enter, shot
<1>3. CASE /\ ~(Recovering /\ \E i \in Slot : Is(Id(i), "prepared"))
           /\ phase' = "calling"
           /\ call' = [i \in Slot |-> IF Is(Id(i), "prepared") THEN "start"
                                      ELSE IF Kept(Id(i), plan.hash) THEN "done"
                                      ELSE "error"]
           /\ UNCHANGED <<plan, left, outcome>>
  <2>1. call' \in [Slot -> CallState]
      BY <1>3 DEF CallState
  <2>2. TypeOK'
      BY <1>0, <1>3, <2>1 DEF GenIInv, TypeOK, shot, jobs, count
  <2>3. ASSUME NEW i \in Slot PROVE SlotOK(i)'
    <3>1. PICK c \in Candidate : c = Id(i)
        BY <1>0, RunPremises
    <3>2. Ready(c) /\ (~Recovering => Cleared(c)) /\ intent[c] \in Intent
        BY <1>0, <3>1, RunPremises, Shapes DEF SlotOK, Ready, GenIInv
    <3>3. /\ call'[i] = IF Is(c, "prepared") THEN "start"
                        ELSE IF Kept(c, plan.hash) THEN "done" ELSE "error"
          /\ Is(c, "prepared") => ~Recovering
          /\ UNCHANGED <<intent, receipt, refusal, record, charged, consented, plan>>
        BY <1>0, <1>3, <3>1 DEF shot, jobs
    <3>4. ~Is(c, "prepared") => Answered(c)
        BY <3>2 DEF Ready, Is, Answered, Intent
    <3>5. CallOK(i)'
        BY <3>1, <3>2, <3>3, <3>4 DEF CallOK, Id, Is, Cleared, Answered, Kept, Recovering
    <3> QED BY <1>3, <3>1, <3>2, <3>3, <3>5 DEF SlotOK, Id, Ready
  <2> QED BY <1>0, <1>3, <2>2, <2>3, NextPhase DEF shot
<1> QED BY <1>1, <1>2, <1>3 DEF Begin

LEMMA CallsEndKeeps == GenIInv /\ CallsEnd => GenIInv'
<1> SUFFICES ASSUME GenIInv, CallsEnd PROVE GenIInv'
    OBVIOUS
<1>0. phase = "calling" /\ UNCHANGED <<jobs, todo, charged, consented, count>>
    BY DEF CallsEnd
<1>1. CASE (End("unresolved") \/ End("failed")) /\ UNCHANGED shot
    BY <1>0, <1>1, EndKeeps
<1>2. CASE Settle /\ revision + 1 = plan.revision /\ AttachGeneration
           /\ Enter("acknowledging", Slot)
  <2> DEFINE new(c) == [hash |-> plan.hash, made |-> receipt[c].made, noted |-> brief]
  <2>1. /\ phase' = "acknowledging" /\ left' = Slot /\ revision' = plan.revision
        /\ record' = [c \in Candidate |-> IF c[1] = plan.revision THEN new(c) ELSE record[c]]
        /\ UNCHANGED <<brief, plan, call, outcome, intent, receipt, refusal, todo, charged,
                       consented, asked, changed, crashed>>
      BY <1>0, <1>2 DEF AttachGeneration, Enter, jobs, count
  <2>2. plan \in Plan /\ plan # None /\ plan.revision \in 1..MaxRevision
      BY <1>0, RunPremises DEF Plan
  <2>3. ASSUME NEW c \in Candidate, c[1] = plan.revision
        PROVE  /\ Answered(c) /\ Ready(c) /\ Kept(c, plan.hash) /\ CandidateOK(c)
               /\ receipt[c] \in Receipt /\ new(c) \in Record
    <3>1. c[2] \in Slot /\ c = Id(c[2])
        BY <2>2, <2>3, Ids
    <3>2. /\ Ready(c) /\ CandidateOK(c) /\ Kept(c, plan.hash) /\ Answered(c)
        BY <1>0, <1>2, <3>1, CallPremises DEF Settle, CallOK
    <3>3. receipt[c] \in Receipt
        BY <3>2, Shapes DEF GenIInv, Kept
    <3>4. new(c) \in Record
        BY <2>2, <3>3 DEF Record, Receipt, Plan, GenIInv, TypeOK
    <3> QED BY <3>2, <3>3, <3>4
  <2>4. record' \in [Candidate -> Record \cup {None}]
    <3> HIDE DEF new
    <3> QED BY <2>1, <2>3 DEF GenIInv, TypeOK
  <2>5. TypeOK'
      BY <2>1, <2>2, <2>4 DEF GenIInv, TypeOK
  <2>6. ASSUME NEW c \in Candidate PROVE CandidateOK(c)'
    <3>1. c[1] \in Nat /\ revision \in Nat /\ CandidateOK(c)
        BY DEF Candidate, GenIInv, TypeOK
    <3>2. CASE c[1] = plan.revision
      <4>1. record'[c] = new(c) /\ c[1] <= revision'
          BY <2>1, <3>1, <3>2
      <4>2. new(c).hash = plan.hash /\ new(c).made = receipt[c].made /\ new(c) # None
          BY <2>3, <3>2
      <4> HIDE DEF new
      <4>3. /\ Answered(c)' /\ record'[c] # None /\ record'[c].hash = intent'[c].hash
            /\ record'[c].hash = record'[c].made.direction
          BY <2>1, <2>3, <3>1, <3>2, <4>1, <4>2
             DEF CandidateOK, Answered, Is, Kept, Ready
      <4> QED BY <2>1, <3>1, <4>1, <4>3 DEF CandidateOK, Answered, Is, Kept, LeavesTrace
    <3>3. CASE c[1] # plan.revision
      <4>1. record'[c] = record[c] /\ (c[1] <= revision' <=> c[1] <= revision)
          BY <1>2, <2>1, <2>2, <3>1, <3>3
      <4> QED BY <2>1, <3>1, <4>1 DEF CandidateOK, Answered, Is, Kept, LeavesTrace
    <3> QED BY <3>2, <3>3
  <2>7. ASSUME NEW i \in Slot PROVE SlotOK(i)'
    <3>1. Id(i) \in Candidate /\ Id(i)[1] = plan.revision /\ Id(i)' = Id(i)
        BY <2>1, <2>2, Ids DEF Id
    <3>2. record'[Id(i)] = new(Id(i))
        BY <2>1, <3>1
    <3>3. new(Id(i)) # None
        BY <2>3, <3>1
    <3> QED BY <2>1, <3>1, <3>2, <3>3 DEF SlotOK
  <2>8. RunOK'
      BY <1>0, <2>1, <2>7 DEF GenIInv, RunOK, Recovering
  <2> QED BY <2>5, <2>6, <2>8 DEF GenIInv
<1> QED BY <1>1, <1>2 DEF CallsEnd

LEMMA AcknowledgeResultKeeps ==
    ASSUME GenIInv, NEW i \in Slot, AcknowledgeResult(i)
    PROVE  GenIInv'
<1>0. /\ phase = "acknowledging" /\ Is(Id(i), "invoked")
      /\ intent' = [intent EXCEPT ![Id(i)].state = "reconciled"]
      /\ UNCHANGED <<brief, revision, record, receipt, refusal, phase, plan, left, call,
                     outcome, todo, charged, consented, asked, changed, crashed>>
    BY DEF AcknowledgeResult, shot, run, count
<1>1. PICK c \in Candidate : c = Id(i)
    BY <1>0, RunPremises
<1>2. plan # None /\ CandidateOK(c) /\ SlotOK(i) /\ intent[c] \in Intent
    BY <1>0, <1>1, RunPremises, Shapes DEF GenIInv, Is
<1>3. Is(c, "invoked") /\ record[c] # None
    BY <1>0, <1>1, <1>2 DEF SlotOK
<1> DEFINE y == [intent[c] EXCEPT !.state = "reconciled"]
<1>4. /\ y \in Intent /\ y.state = "reconciled" /\ y.failed = intent[c].failed
      /\ y.hash = intent[c].hash
    BY <1>2 DEF Intent
<1>5. intent' = [intent EXCEPT ![c] = y]
    BY <1>0, <1>1 DEF GenIInv, TypeOK
<1> HIDE DEF y
<1>6. /\ intent' \in [Candidate -> Intent \cup {None}] /\ intent'[c] = y /\ y # None
      /\ \A d \in Candidate \ {c} : intent'[d] = intent[d]
    BY <1>4, <1>5 DEF GenIInv, TypeOK
<1>7. TypeOK'
    BY <1>0, <1>6 DEF GenIInv, TypeOK
<1>8. CandidateOK(c)'
    BY <1>0, <1>2, <1>3, <1>4, <1>6 DEF CandidateOK, Is, Answered, LeavesTrace, Kept
<1>9. SlotOK(i)'
    BY <1>0, <1>1, <1>3 DEF SlotOK, Id
<1> QED BY <1>0, <1>1, <1>2, <1>6, <1>7, <1>8, <1>9, OneCandidate

LEMMA ReleaseKeeps ==
    ASSUME GenIInv, NEW i \in Slot, Release(i)
    PROVE  GenIInv'
<1>0. /\ phase = "acknowledging" /\ phase' = "acknowledging" /\ left' = left \ {i}
      /\ ~Is(Id(i), "invoked")
      /\ receipt' = [receipt EXCEPT ![Id(i)] = None]
      /\ refusal' = [refusal EXCEPT ![Id(i)] = None]
      /\ UNCHANGED <<brief, revision, record, intent, plan, call,
                     outcome, todo, charged, consented, asked, changed, crashed>>
    BY DEF Release, MayRelease, Enter, shot, count
<1>1. PICK c \in Candidate : c = Id(i)
    BY <1>0, RunPremises
<1>2. plan # None /\ CandidateOK(c) /\ SlotOK(i)
    BY <1>0, <1>1, RunPremises
<1>3. record[c] # None /\ Is(c, "reconciled") /\ ~Is(c, "invoked")
    BY <1>0, <1>1, <1>2 DEF SlotOK, CandidateOK, Answered
<1>4. /\ receipt' \in [Candidate -> Receipt \cup {None}] /\ receipt'[c] = None
      /\ refusal' \in [Candidate -> Directions \cup {None}]
      /\ \A d \in Candidate \ {c} : receipt'[d] = receipt[d] /\ refusal'[d] = refusal[d]
    BY <1>0, <1>1 DEF GenIInv, TypeOK
<1>5. TypeOK'
    BY <1>0, <1>4 DEF GenIInv, TypeOK
<1>6. CandidateOK(c)'
    BY <1>0, <1>2, <1>3, <1>4 DEF CandidateOK, Is, Answered, LeavesTrace
<1>7. SlotOK(i)'
    BY <1>0, <1>1, <1>3 DEF SlotOK, Id
<1> QED BY <1>0, <1>1, <1>2, <1>4, <1>5, <1>6, <1>7, OneCandidate

LEMMA AcknowledgedAllKeeps == GenIInv /\ AcknowledgedAll => GenIInv'
BY EndKeeps DEF AcknowledgedAll
-----------------------------------------------------------------------------
(* The director, stops and opens.                                          *)

LEMMA ChangeBriefKeeps ==
    ASSUME GenIInv, NEW b \in Brief, ChangeBrief(b)
    PROVE  GenIInv'
<1>1. /\ phase = "idle" /\ brief' = b /\ changed < MaxChanges /\ changed' = changed + 1
      /\ UNCHANGED <<revision, record, intent, receipt, refusal, phase, plan, left, call,
                     todo, outcome, charged, consented, asked, crashed>>
    BY DEF ChangeBrief, jobs, run
<1>2. TypeOK'
    BY <1>1 DEF GenIInv, TypeOK
<1> QED BY <1>1, <1>2, NoRun DEF jobs, GenIInv, RunOK

LEMMA GenerateKeeps ==
    ASSUME GenIInv, NEW consent \in BOOLEAN, Generate(consent)
    PROVE  GenIInv'
<1> DEFINE unresolved == {i \in Slot : Unresolved(<<revision + 1, i>>)}
           new == [revision |-> revision + 1, hash |-> brief.direction, asked |-> brief]
<1>0. /\ phase = "idle" /\ revision < MaxRevision /\ asked < MaxGenerations
      /\ asked' = asked + 1
      /\ UNCHANGED <<brief, revision, record, intent, receipt, refusal, todo, charged,
                     consented, changed, crashed>>
    BY DEF Generate, shot, jobs
<1>1. CASE outcome' = "unresolved" /\ UNCHANGED run
  <2>1. TypeOK'
      BY <1>0, <1>1 DEF GenIInv, TypeOK, run
  <2> QED BY <1>0, <1>1, <2>1, NoRun DEF run, jobs, GenIInv, RunOK
<1>2. CASE /\ plan' = new /\ phase' = "retiring" /\ left' = unresolved
           /\ UNCHANGED <<call, outcome>>
  <2>1. brief \in Brief /\ revision + 1 \in 1..MaxRevision
      BY <1>0 DEF GenIInv, TypeOK
  <2>2. /\ new \in Plan /\ new.revision = revision + 1 /\ new.asked = brief /\ new.asked # None
        /\ new.hash = new.asked.direction
      BY <2>1 DEF Plan, Brief
  <2>3. plan' = new /\ plan' # None /\ plan' \in Plan
      BY <1>2, <2>2
  <2>4. TypeOK'
      BY <1>0, <1>2, <2>3 DEF GenIInv, TypeOK
  <2>5. \A c \in Candidate : CandidateOK(c)'
      BY <1>0, CandidateFrame DEF GenIInv
  <2>6. ASSUME NEW i \in Slot PROVE SlotOK(i)'
    <3>1. PICK c \in Candidate : c = <<revision + 1, i>>
        BY <2>1 DEF Candidate
    <3>2. Id(i)' = c
        BY <1>0, <2>2, <2>3, <3>1 DEF Id
    <3>3. i \in left' <=> Unresolved(c)
        BY <1>2, <3>1
    <3>4. ~Unresolved(c) => Cleared(c)
      <4>1. charged[c] \in Nat /\ consented[c] \in Nat /\ CandidateOK(c) /\ refusal[c] = None =>
                refusal[c] # intent[c].hash \/ ~Is(c, "prepared")
          BY Shapes DEF GenIInv, TypeOK, Is, Intent
      <4> QED BY <4>1 DEF GenIInv, TypeOK, Unresolved, MayCallAgain, Cleared, CandidateOK,
                          LeavesTrace, Answered
    <3>5. Unresolved(c) => Unresolved(c)'
        BY <1>0 DEF Unresolved, MayCallAgain, Is
    <3>6. Cleared(c) => Cleared(c)'
        BY <1>0 DEF Cleared, Answered, Is
    <3> QED BY <1>2, <3>2, <3>3, <3>4, <3>5, <3>6 DEF SlotOK
  <2>7. RunOK'
      BY <1>0, <1>2, <2>2, <2>3, <2>6 DEF GenIInv, RunOK, Recovering
  <2> QED BY <2>4, <2>5, <2>7 DEF GenIInv
<1> QED BY <1>1, <1>2 DEF Generate

LEMMA CrashKeeps == GenIInv /\ Crash => GenIInv'
<1> SUFFICES ASSUME GenIInv, Crash PROVE GenIInv'
    OBVIOUS
<1>1. /\ crashed < MaxCrashes /\ crashed' = crashed + 1 /\ todo' = {}
      /\ phase' = "closed" /\ plan' = None /\ left' = {} /\ call' = Quiet
      /\ UNCHANGED <<brief, revision, record, intent, receipt, refusal, outcome, charged,
                     consented, asked, changed>>
    BY DEF Crash, shot, jobs
<1>2. TypeOK'
    BY <1>1 DEF GenIInv, TypeOK, Quiet, CallState
<1> QED BY <1>1, <1>2, NoRun DEF jobs

LEMMA OpenKeeps == GenIInv /\ Open => GenIInv'
<1> SUFFICES ASSUME GenIInv, Open PROVE GenIInv'
    OBVIOUS
<1>1. /\ phase = "closed" /\ phase' = "idle" /\ intent' = Reconciled /\ todo' = Unfinished
      /\ UNCHANGED <<brief, revision, record, receipt, refusal, plan, left, call, outcome,
                     charged, consented, asked, changed, crashed>>
    BY DEF Open, shot, count
<1>2. ASSUME NEW c \in Candidate
      PROVE  intent'[c] \in Intent \cup {None} /\ CandidateOK(c)'
  <2>1. CandidateOK(c) /\ intent[c] \in Intent \cup {None}
      BY DEF GenIInv, TypeOK
  <2>2. CASE Is(c, "prepared") /\ Kept(c, intent[c].hash)
    <3> DEFINE y == [intent[c] EXCEPT !.state = "invoked", !.failed = FALSE]
    <3>1. intent'[c] = y /\ intent[c] \in Intent
        BY <1>1, <2>1, <2>2 DEF Reconciled, Is
    <3>2. y \in Intent /\ y.state = "invoked" /\ y.failed = FALSE /\ y.hash = intent[c].hash
        BY <3>1 DEF Intent
    <3> HIDE DEF y
    <3>3. y # None
        BY <3>2
    <3> QED BY <1>1, <2>1, <2>2, <3>1, <3>2, <3>3
            DEF CandidateOK, Is, Answered, LeavesTrace, Kept
  <2>3. CASE ~(Is(c, "prepared") /\ Kept(c, intent[c].hash))
    <3>1. intent'[c] = intent[c]
        BY <1>1, <2>3 DEF Reconciled
    <3> QED BY <1>1, <2>1, <3>1, CandidateFrame
  <2> QED BY <2>2, <2>3
<1>3. intent' \in [Candidate -> Intent \cup {None}]
    BY <1>1, <1>2 DEF Reconciled
<1>4. todo' \subseteq Plan /\ \A p \in todo' : p.asked = None
  <2>1. ASSUME NEW p \in Unfinished PROVE p \in Plan /\ p.asked = None
    <3>1. PICK c \in Candidate :
              /\ ResultReady(c)
              /\ p = [revision |-> c[1], hash |-> intent[c].hash, asked |-> None]
        BY <2>1 DEF Unfinished
    <3>2. intent[c] \in Intent /\ c[1] \in 1..MaxRevision
        BY <3>1, Shapes DEF GenIInv, ResultReady, Is, Candidate
    <3> QED BY <3>1, <3>2 DEF Plan, Intent
  <2> QED BY <1>1, <2>1
<1>5. TypeOK'
    BY <1>1, <1>3, <1>4 DEF GenIInv, TypeOK
<1>6. RunOK'
    BY <1>1, <1>4 DEF GenIInv, RunOK
<1> QED BY <1>2, <1>5, <1>6 DEF GenIInv

LEMMA CompleteKeeps ==
    ASSUME GenIInv, NEW p \in todo, Complete(p)
    PROVE  GenIInv'
<1>1. /\ todo' = todo \ {p} /\ plan' = p /\ phase' = "preparing" /\ left' = Slot
      /\ UNCHANGED <<brief, revision, record, intent, receipt, refusal, call, outcome,
                     charged, consented, asked, changed, crashed>>
    BY DEF Complete, shot, jobs, count
<1>2. p \in Plan /\ p # None /\ p.asked = None
    BY DEF GenIInv, TypeOK, RunOK
<1>3. TypeOK'
    BY <1>1, <1>2 DEF GenIInv, TypeOK
<1>4. \A c \in Candidate : CandidateOK(c)'
    BY <1>1, CandidateFrame DEF GenIInv
<1>5. \A i \in Slot : SlotOK(i)'
    BY <1>1, <1>2 DEF SlotOK, Recovering
<1>6. RunOK'
    BY <1>1, <1>2, <1>5 DEF GenIInv, RunOK, Recovering
<1> QED BY <1>3, <1>4, <1>6 DEF GenIInv
-----------------------------------------------------------------------------
(* The invariant and what follows from it.                                 *)

LEMMA GenStart == Init => GenIInv
<1> SUFFICES ASSUME Init PROVE GenIInv
    OBVIOUS
<1>1. TypeOK
    BY DEF Init, TypeOK, Quiet, CallState
<1>2. ASSUME NEW c \in Candidate PROVE CandidateOK(c)
    BY DEF Init, CandidateOK, Candidate, Is, Answered
<1>3. RunOK
    BY DEF Init, RunOK
<1> QED BY <1>1, <1>2, <1>3 DEF GenIInv

LEMMA GenStep == GenIInv /\ [Next]_vars => GenIInv'
<1> SUFFICES ASSUME GenIInv, [Next]_vars PROVE GenIInv'
    OBVIOUS
<1>1. CASE UNCHANGED vars
  <2>1. UNCHANGED <<brief, revision, record, intent, receipt, refusal, phase, plan, left,
                    call, todo, outcome, charged, consented, asked, changed, crashed>>
      BY <1>1 DEF vars, shot, jobs, run, count
  <2>2. TypeOK'
      BY <2>1 DEF GenIInv, TypeOK
  <2>3. \A c \in Candidate : CandidateOK(c)'
      BY <2>1, CandidateFrame DEF GenIInv
  <2>4. RunOK'
      BY <2>1 DEF GenIInv, RunOK, Recovering, SlotOK, CallOK, Unresolved, MayCallAgain,
                  Cleared, Answered, Ready, Is, Kept, Id
  <2> QED BY <2>2, <2>3, <2>4 DEF GenIInv
<1>2. ASSUME NEW i \in Slot, CallStep(i) PROVE GenIInv'
    BY <1>2, CountAttemptKeeps, UseReceiptKeeps, SendKeeps, ProviderAcceptsKeeps,
       ProviderRefusesKeeps, LoseAnswerKeeps, KeepAnswerKeeps, RecordAnswerKeeps,
       RecordFailureKeeps DEF CallStep
<1>3. CASE Progress
    BY <1>2, <1>3, RetireUnresolvedKeeps, RetireFailedKeeps, PrepareKeeps, RetiredAllKeeps,
       PreparedAllKeeps, BeginKeeps, CallsEndKeeps, AcknowledgeResultKeeps, ReleaseKeeps,
       AcknowledgedAllKeeps, OpenKeeps, CompleteKeeps DEF Progress
<1> QED BY <1>1, <1>3, ChangeBriefKeeps, GenerateKeeps, CrashKeeps DEF Next

(* The invariant holds in every reachable state.                           *)
THEOREM GenerationInvariance == Spec => []GenIInv
BY GenStart, GenStep, PTL DEF Spec

(* Every variable keeps its type; in particular no intent counts more      *)
(* attempts than the provider's policy allows.                             *)
THEOREM GenerationTypeCorrect == Spec => []TypeOK
<1>1. GenIInv => TypeOK
    BY DEF GenIInv
<1> QED BY GenerationInvariance, <1>1, PTL

(* No candidate is charged for twice unless the director risked it.        *)
THEOREM CandidatesPaidOnce == Spec => []PaidOnceUnlessConsented
<1>1. GenIInv => PaidOnceUnlessConsented
    BY DEF GenIInv, CandidateOK, PaidOnceUnlessConsented
<1> QED BY GenerationInvariance, <1>1, PTL

(* What a provider answered is there until the shot's files hold it.       *)
THEOREM CandidatesAreKept == Spec => []AnswersAreKept
<1>1. GenIInv => AnswersAreKept
    BY DEF GenIInv, CandidateOK, AnswersAreKept
<1> QED BY GenerationInvariance, <1>1, PTL

(* A keyframe is recorded with the hash of the prompt it was made from.    *)
THEOREM RecordedForItsHash == Spec => []MadeForItsHash
<1>1. GenIInv => MadeForItsHash
    BY DEF GenIInv, CandidateOK, MadeForItsHash
<1> QED BY GenerationInvariance, <1>1, PTL
=============================================================================
