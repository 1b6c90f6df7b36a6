--------------------------- MODULE PaidCalls_proofs ---------------------------
(***************************************************************************)
(* Proofs about the parts that pay for what a provider is asked: documents *)
(* of language models, the videos of a shot, voice auditions and a         *)
(* character's casting images.                                             *)
(***************************************************************************)
EXTENDS PaidDocument, ShotVideo, SpokenTakes, PaidImages, SharedLemmas, TLAPS

(* Documents of a language model.                                          *)

(* The director has risked as often as it was paid for: it may be again.   *)
Uncharged(r) == docCharged[r] <= docRisked[r]

(* A revision paid for once more than was risked leaves a trace that       *)
(* settle_earlier_attempt or prepare refuses, or is in the log.            *)
LeavesDocTrace(r) ==
    \/ Uncharged(r)
    \/ DocIs(r, "invoked") \/ r \in DOMAIN docLog
    \/ /\ DocIs(r, "prepared") /\ docIntent[r].attempts > 0
       /\ docIntent[r].hash.model \in PaidModels /\ docRefusal[r] # docIntent[r].hash

(* What is true of each revision, whoever is at it.                        *)
DocRevOK(r) ==
    /\ docCharged[r] <= 1 + docRisked[r] /\ LeavesDocTrace(r)
    /\ r \in DOMAIN docLog => docFile[r] = docLog[r].text
    /\ DocIs(r, "invoked") => GoodReceipt(r) \/ r \in DOMAIN docLog \/ r \in overtaken
    /\ DocIs(r, "reconciled") => r \in DOMAIN docLog /\ docLog[r].hash # NoDoc
    /\ docReceipt[r] # NoDoc => docReceipt[r].hash # NoDoc

(* What a command under way knows of its revision at its steps.            *)
DocCallOK(r) ==
    /\ docJob.step \notin {"attach", "acknowledge", "remove"} => r = NextRev
    /\ docJob.step \in {"forget", "prepare"} => Uncharged(r) \/ DocIs(r, "invoked")
    /\ docJob.step = "prepare" => docRefusal[r] = NoDoc
    /\ docJob.step \in {"count", "ask"} => Uncharged(r) /\ docRefusal[r] = NoDoc
    /\ docJob.step \in {"count", "ask", "write", "receipt", "save", "failed"} =>
          DocIs(r, "prepared") /\ docIntent[r].hash = docJob.hash
    /\ docJob.step \in {"ask", "write", "receipt", "save", "failed"} =>
          docIntent[r].attempts > 0
    /\ docJob.step \in {"receipt", "save"} => docFile[r] = docJob.answer.text
    /\ docJob.step = "save" => docReceipt[r] = docJob.answer
    /\ docJob.step \in {"write", "receipt", "save", "attach", "acknowledge"} =>
          docJob.answer # NoDoc /\ (docJob.hash # NoDoc => docJob.answer.hash # NoDoc)
    /\ docJob.hash = NoDoc => docJob.step = "attach"
    /\ docJob.step \in {"read", "acknowledge"} => DocIs(r, "invoked")
    /\ docJob.step = "attach" /\ docJob.hash # NoDoc => DocIs(r, "invoked")
    /\ docJob.step = "acknowledge" => r \in DOMAIN docLog /\ docLog[r].hash # NoDoc
    /\ docJob.step = "remove" => DocIs(r, "reconciled")

DocJobOK == docJob # NoDoc => docJob.rev \notin docTodo /\ DocCallOK(docJob.rev)

DocSessionOK ==
    /\ ~docOpen => docJob = NoDoc /\ docTodo = {}
    /\ \A r \in docTodo : DocIs(r, "invoked") /\ docReceipt[r] # NoDoc

DocIInv == DocTypeOK /\ (\A r \in DocRev : DocRevOK(r)) /\ DocJobOK /\ DocSessionOK

LEMMA DocTypesAre ==
    ASSUME DocTypeOK
    PROVE  /\ Len(docLog) \in Nat /\ NextRev \in Nat /\ DOMAIN docLog = 1..Len(docLog)
           /\ DOMAIN docLog \subseteq DocRev /\ NextRev \notin DOMAIN docLog
           /\ \A r \in DOMAIN docLog : docLog[r] \in DocRecord
           /\ \A r \in DocRev : /\ docIntent[r] # NoDoc => docIntent[r] \in DocIntent
                                /\ docReceipt[r] # NoDoc => docReceipt[r] \in Answer
                                /\ docCharged[r] \in Nat /\ docRisked[r] \in Nat
           /\ docJob # NoDoc => docJob \in DocJob /\ docJob.rev \in DocRev
<1>1. docLog \in Seq(DocRecord) /\ Len(docLog) <= MaxDocRevision /\ MaxDocRevision \in Nat
    BY DocAssumption DEF DocTypeOK
<1>2. Len(docLog) \in Nat /\ DOMAIN docLog = 1..Len(docLog)
    BY <1>1, LenProperties
<1>3. \A r \in DOMAIN docLog : docLog[r] \in DocRecord
    BY <1>1, <1>2, ElementOfSeq
<1>4. DOMAIN docLog \subseteq DocRev
    BY <1>1, <1>2 DEF DocRev
<1>5. NextRev \in Nat /\ NextRev \notin DOMAIN docLog
    BY <1>2 DEF NextRev
<1> QED BY <1>2, <1>3, <1>4, <1>5 DEF DocTypeOK, DocJob

(* Nothing of r changes; the log may go on.                                *)
SameOfRev(r) ==
    /\ docCharged'[r] = docCharged[r] /\ docRisked'[r] = docRisked[r]
    /\ docFile'[r] = docFile[r] /\ docIntent'[r] = docIntent[r]
    /\ docReceipt'[r] = docReceipt[r] /\ docRefusal'[r] = docRefusal[r]
    /\ r \in overtaken' <=> r \in overtaken
    /\ r \in DOMAIN docLog' <=> r \in DOMAIN docLog
    /\ r \in DOMAIN docLog =>
          docLog'[r].text = docLog[r].text /\ docLog'[r].hash = docLog[r].hash

LEMMA DocRevStays ==
    ASSUME NEW r, DocRevOK(r), SameOfRev(r)
    PROVE  DocRevOK(r)'
BY DEF DocRevOK, SameOfRev, LeavesDocTrace, Uncharged, DocIs, GoodReceipt

LEMMA DocJobGoes ==
    ASSUME docJob \in DocJob, NEW next \in DocStep, DocGo(next)
    PROVE  /\ docJob' \in DocJob /\ docJob' # NoDoc /\ docJob'.step = next
           /\ docJob'.rev = docJob.rev /\ docJob'.hash = docJob.hash
           /\ docJob'.answer = docJob.answer
BY DocAssumption DEF DocGo, DocJob

(* What a step of a command may rely on.                                   *)
LEMMA DocCallHas ==
    ASSUME DocIInv, NEW step, DocAt(step)
    PROVE  /\ docJob \in DocJob /\ docJob # NoDoc /\ docJob.step = step /\ docOpen
           /\ DocTypeOK /\ DocSessionOK
           /\ \E r \in DocRev : r = docJob.rev /\ r \notin docTodo /\ DocRevOK(r) /\ DocCallOK(r)
<1>1. docJob # NoDoc /\ docJob.step = step /\ DocTypeOK /\ DocSessionOK
    BY DEF DocIInv, DocAt
<1>2. docJob \in DocJob /\ docJob.rev \in DocRev
    BY <1>1, DocTypesAre
<1>3. docJob.rev \notin docTodo /\ DocRevOK(docJob.rev) /\ DocCallOK(docJob.rev)
    BY <1>1, <1>2 DEF DocIInv, DocJobOK
<1>4. docOpen
    BY <1>1 DEF DocSessionOK
<1> QED BY <1>1, <1>2, <1>3, <1>4

(* A step of a command leaves the rest alone: what has to be shown of it.  *)
LEMMA DocCallKeeps ==
    ASSUME DocIInv, docJob # NoDoc, DocTypeOK', NEW r \in DocRev, r = docJob.rev,
           \A s \in DocRev : s # r => SameOfRev(s),
           DocRevOK(r)', docJob' = NoDoc \/ (docJob'.rev = r /\ DocCallOK(r)'),
           UNCHANGED <<docTodo, docOpen>>
    PROVE  DocIInv'
<1>0. /\ \A s \in DocRev : DocRevOK(s)
      /\ r \notin docTodo /\ DocSessionOK /\ docTodo \subseteq DocRev
    BY DEF DocIInv, DocJobOK, DocTypeOK
<1>1. ASSUME NEW s \in DocRev PROVE DocRevOK(s)'
  <2>1. CASE s = r
      BY <2>1
  <2>2. CASE s # r
      BY <2>2, <1>0, DocRevStays
  <2> QED BY <2>1, <2>2
<1>2. DocJobOK'
  <2>1. ASSUME docJob' # NoDoc PROVE docJob'.rev \notin docTodo' /\ DocCallOK(docJob.rev)'
    <3>1. docJob'.rev = r /\ DocCallOK(r)'
        BY <2>1
    <3> QED BY <3>1, <1>0 DEF DocCallOK
  <2> QED BY <2>1 DEF DocJobOK
<1>3. DocSessionOK'
  <2>1. \A s \in docTodo : docIntent'[s] = docIntent[s] /\ docReceipt'[s] = docReceipt[s]
      BY <1>0 DEF SameOfRev
  <2>2. docOpen
      BY <1>0 DEF DocSessionOK
  <2> QED BY <1>0, <2>1, <2>2 DEF DocSessionOK, DocIs
<1> QED BY <1>1, <1>2, <1>3 DEF DocIInv

LEMMA AskDocumentKeeps ==
    ASSUME DocIInv, NEW hash \in DocHash, NEW consent \in BOOLEAN, AskDocument(hash, consent)
    PROVE  DocIInv'
<1>0. /\ DocTypeOK /\ docOpen /\ docTodo = {} /\ NextRev \in DocRev
      /\ docCount.asks < MaxDocAsks /\ docCount' = [docCount EXCEPT !.asks = @ + 1]
      /\ docJob' = [rev |-> NextRev, hash |-> hash, answer |-> NoDoc,
                    step |-> IF consent THEN "risk" ELSE "settle"]
      /\ UNCHANGED <<docLog, docFile, docIntent, docReceipt, docRefusal, docTodo, docOpen,
                     docCharged, docRisked, overtaken>>
    BY DEF DocIInv, AskDocument, DocIdle, DocKeeps, docFiles, docJobs
<1>1. docJob' \in DocJob /\ docJob' # NoDoc /\ docJob'.rev = NextRev /\ docJob'.hash \in DocHash
      /\ docJob'.step \in {"risk", "settle"}
    BY <1>0, DocAssumption DEF DocJob, DocStep
<1>2. docJob'.hash # NoDoc
    BY <1>1, DocAssumption
<1>3. docCount' \in [texts: 0..MaxTexts, asks: 0..MaxDocAsks, stops: 0..MaxDocStops]
  <2>1. docCount \in [texts: 0..MaxTexts, asks: 0..MaxDocAsks, stops: 0..MaxDocStops]
      BY <1>0 DEF DocTypeOK
  <2>2. MaxDocAsks \in Nat
      BY DocAssumption
  <2>3. docCount.asks + 1 \in 0..MaxDocAsks
      BY <1>0, <2>1, <2>2
  <2> QED BY <1>0, <2>1, <2>3
<1>4. DocTypeOK'
    BY <1>0, <1>1, <1>3 DEF DocTypeOK
<1>5. \A r \in DocRev : DocRevOK(r)'
  <2> TAKE r \in DocRev
  <2>1. DocRevOK(r) /\ SameOfRev(r)
      BY <1>0 DEF DocIInv, SameOfRev
  <2> QED BY <2>1, DocRevStays
<1>6. DocJobOK'
    BY <1>0, <1>1, <1>2 DEF DocJobOK, DocCallOK, NextRev
<1>7. DocSessionOK'
    BY <1>0 DEF DocSessionOK
<1> QED BY <1>4, <1>5, <1>6, <1>7 DEF DocIInv

LEMMA RiskPayingTwiceKeeps ==
    ASSUME DocIInv, RiskPayingTwice
    PROVE  DocIInv'
<1>0. DocAt("risk") /\ DocGo("risked")
      /\ UNCHANGED <<docLog, docFile, docReceipt, docRefusal, docTodo, docOpen,
                     docCharged, overtaken, docCount>>
    BY DEF RiskPayingTwice, DocKeeps, docFiles
<1>1. docJob \in DocJob /\ docJob # NoDoc /\ docJob.step = "risk" /\ DocTypeOK
    BY <1>0, DocCallHas
<1>2. PICK r \in DocRev : r = docJob.rev /\ DocRevOK(r) /\ DocCallOK(r)
    BY <1>0, DocCallHas
<1>3. /\ docJob' \in DocJob /\ docJob' # NoDoc /\ docJob'.step = "risked"
      /\ docJob'.rev = r /\ docJob'.hash = docJob.hash
  <2>1. "risked" \in DocStep
      BY DEF DocStep
  <2> QED BY <2>1, <1>0, <1>1, <1>2, DocJobGoes
<1>4. CASE DocIs(r, "prepared") /\ docIntent[r].attempts > 0
  <2>1. /\ docIntent' = [docIntent EXCEPT ![r] = NoDoc]
        /\ docRisked' = [docRisked EXCEPT ![r] = @ + 1]
      BY <1>2, <1>4 DEF RiskPayingTwice
  <2>2. docIntent'[r] = NoDoc /\ docRisked'[r] = docRisked[r] + 1
      BY <1>1, <2>1 DEF DocTypeOK
  <2>3. DocTypeOK'
      BY <1>0, <1>1, <1>3, <2>1 DEF DocTypeOK
  <2>4. \A s \in DocRev : s # r => SameOfRev(s)
      BY <1>0, <1>1, <2>1 DEF SameOfRev, DocTypeOK
  <2>5. DocRevOK(r)'
      BY <1>0, <1>1, <1>2, <2>2, DocTypesAre
         DEF DocRevOK, LeavesDocTrace, Uncharged, DocIs, GoodReceipt
  <2>6. DocCallOK(r)'
      BY <1>0, <1>1, <1>2, <1>3 DEF DocCallOK, NextRev
  <2> QED BY <1>0, <1>1, <1>2, <1>3, <2>3, <2>4, <2>5, <2>6, DocCallKeeps
<1>5. CASE ~(DocIs(r, "prepared") /\ docIntent[r].attempts > 0)
  <2>1. UNCHANGED <<docIntent, docRisked>>
      BY <1>2, <1>5 DEF RiskPayingTwice
  <2>2. DocTypeOK'
      BY <1>0, <1>1, <1>3, <2>1 DEF DocTypeOK
  <2>3. \A s \in DocRev : SameOfRev(s)
      BY <1>0, <2>1 DEF SameOfRev
  <2>4. DocRevOK(r)'
      BY <1>2, <2>3, DocRevStays
  <2>5. DocCallOK(r)'
      BY <1>0, <1>1, <1>2, <1>3 DEF DocCallOK, NextRev
  <2> QED BY <1>0, <1>1, <1>2, <1>3, <2>2, <2>3, <2>4, <2>5, DocCallKeeps
<1> QED BY <1>4, <1>5

LEMMA SettleEarlierKeeps ==
    ASSUME DocIInv, SettleEarlier
    PROVE  DocIInv'
<1>0. DocAt("settle")
      /\ UNCHANGED <<docLog, docFile, docReceipt, docRefusal, docTodo, docOpen,
                     docCharged, docRisked, overtaken, docCount>>
    BY DEF SettleEarlier, DocKeeps, docFiles, docPast
<1>1. docJob \in DocJob /\ docJob # NoDoc /\ docJob.step = "settle" /\ DocTypeOK
    BY <1>0, DocCallHas
<1>2. PICK r \in DocRev : r = docJob.rev /\ DocRevOK(r) /\ DocCallOK(r)
    BY <1>0, DocCallHas
<1>3. CASE DocEnd /\ UNCHANGED docIntent
  <2>1. \A s \in DocRev : SameOfRev(s)
      BY <1>0, <1>3 DEF SameOfRev
  <2>2. DocTypeOK' /\ docJob' = NoDoc
      BY <1>0, <1>1, <1>3 DEF DocTypeOK, DocEnd
  <2>3. DocRevOK(r)'
      BY <1>2, <2>1, DocRevStays
  <2> QED BY <1>0, <1>1, <1>2, <2>1, <2>2, <2>3, DocCallKeeps
<1>4. CASE /\ ~UnresolvedAttempt(r, docJob.hash.model) /\ DocGo("forget")
           /\ docIntent' = IF DocIs(r, "prepared") /\ docIntent[r].failed
                           THEN [docIntent EXCEPT ![r] = NoDoc] ELSE docIntent
  <2>1. /\ docJob' \in DocJob /\ docJob' # NoDoc /\ docJob'.step = "forget"
        /\ docJob'.rev = r /\ docJob'.hash = docJob.hash
    <3>1. "forget" \in DocStep
        BY DEF DocStep
    <3> QED BY <3>1, <1>1, <1>2, <1>4, DocJobGoes
  <2>2. docIntent' \in [DocRev -> DocIntent \cup {NoDoc}]
        /\ docIntent'[r] = (IF DocIs(r, "prepared") /\ docIntent[r].failed
                            THEN NoDoc ELSE docIntent[r])
        /\ \A s \in DocRev : s # r => docIntent'[s] = docIntent[s]
      BY <1>1, <1>4 DEF DocTypeOK
  <2>3. DocTypeOK'
      BY <1>0, <1>1, <2>1, <2>2 DEF DocTypeOK
  <2>4. \A s \in DocRev : s # r => SameOfRev(s)
      BY <1>0, <2>2 DEF SameOfRev
  <2>5. r = NextRev /\ r \notin DOMAIN docLog
      BY <1>1, <1>2, DocTypesAre DEF DocCallOK
  <2>6. Uncharged(r) \/ DocIs(r, "invoked")
      BY <1>2, <1>4, <2>5 DEF DocRevOK, LeavesDocTrace, UnresolvedAttempt
  <2>7. DocRevOK(r)'
      BY <1>0, <1>2, <2>2, <2>6 DEF DocRevOK, LeavesDocTrace, Uncharged, DocIs, GoodReceipt
  <2>8. DocCallOK(r)'
      BY <1>0, <1>1, <1>2, <2>1, <2>2, <2>5, <2>6 DEF DocCallOK, NextRev, Uncharged, DocIs
  <2> QED BY <1>0, <1>1, <1>2, <2>1, <2>3, <2>4, <2>7, <2>8, DocCallKeeps
<1> QED BY <1>2, <1>3, <1>4 DEF SettleEarlier

LEMMA ForgetRefusalKeeps ==
    ASSUME DocIInv, ForgetRefusal
    PROVE  DocIInv'
<1>0. PICK at \in {<<"risked", "settle">>, <<"forget", "prepare">>} :
        /\ DocAt(at[1])
        /\ \/ docRefusal' = [docRefusal EXCEPT ![docJob.rev] = NoDoc] /\ DocGo(at[2])
           \/ docRefusal[docJob.rev] # NoDoc /\ UNCHANGED docRefusal /\ ForgetFails(at[2])
        /\ DocKeeps /\ UNCHANGED <<docFiles, docIntent, docReceipt, docPast>>
    BY Zenon DEF ForgetRefusal
<1>1. docJob \in DocJob /\ docJob # NoDoc /\ docJob.step = at[1] /\ DocTypeOK
      /\ UNCHANGED <<docLog, docFile, docIntent, docReceipt, docTodo, docOpen,
                     docCharged, docRisked, overtaken, docCount>>
    BY <1>0, DocCallHas DEF DocKeeps, docFiles, docPast
<1>2. PICK r \in DocRev : r = docJob.rev /\ DocRevOK(r) /\ DocCallOK(r)
    BY <1>0, DocCallHas
<1>3. CASE UNCHANGED docRefusal /\ ForgetFails(at[2])
  <2>1. \A s \in DocRev : SameOfRev(s)
      BY <1>1, <1>3 DEF SameOfRev
  <2>2. DocTypeOK' /\ docJob' = NoDoc
      BY <1>1, <1>3 DEF DocTypeOK, DocEnd, ForgetFails
  <2>3. DocRevOK(r)'
      BY <1>2, <2>1, DocRevStays
  <2> QED BY <1>1, <1>2, <2>1, <2>2, <2>3, DocCallKeeps
<1>4. CASE docRefusal' = [docRefusal EXCEPT ![r] = NoDoc] /\ DocGo(at[2])
  <2>1. /\ docJob' \in DocJob /\ docJob' # NoDoc /\ docJob'.step = at[2]
        /\ docJob'.rev = r /\ docJob'.hash = docJob.hash
    <3>1. at[2] \in DocStep
        BY DEF DocStep
    <3> QED BY <3>1, <1>1, <1>2, <1>4, DocJobGoes
  <2>2. docRefusal' \in [DocRev -> DocHash \cup {NoDoc}] /\ docRefusal'[r] = NoDoc
        /\ \A s \in DocRev : s # r => docRefusal'[s] = docRefusal[s]
      BY <1>1, <1>4 DEF DocTypeOK
  <2>3. DocTypeOK'
      BY <1>1, <2>1, <2>2 DEF DocTypeOK
  <2>4. \A s \in DocRev : s # r => SameOfRev(s)
      BY <1>1, <2>2 DEF SameOfRev
  <2>5. docIntent[r] # NoDoc => docIntent[r].hash # NoDoc
      BY <1>1, DocTypesAre, DocAssumption DEF DocIntent
  <2>6. DocRevOK(r)'
      BY <1>1, <1>2, <2>2, <2>5 DEF DocRevOK, LeavesDocTrace, Uncharged, DocIs, GoodReceipt
  <2>7. DocCallOK(r)'
    <3>1. CASE at = <<"risked", "settle">>
        BY <1>1, <1>2, <2>1, <3>1 DEF DocCallOK, NextRev
    <3>2. CASE at = <<"forget", "prepare">>
        BY <1>1, <1>2, <2>1, <2>2, <3>2 DEF DocCallOK, NextRev, Uncharged, DocIs
    <3> QED BY <3>1, <3>2
  <2> QED BY <1>1, <1>2, <2>1, <2>3, <2>4, <2>6, <2>7, DocCallKeeps
<1> QED BY <1>0, <1>2, <1>3, <1>4

(* An intent is made, or one of its fields set: what is left of the others. *)
LEMMA DocIntentBecomes ==
    ASSUME DocTypeOK, NEW r \in DocRev, NEW new \in DocIntent \cup {NoDoc},
           docIntent' = [docIntent EXCEPT ![r] = new]
    PROVE  /\ docIntent' \in [DocRev -> DocIntent \cup {NoDoc}] /\ docIntent'[r] = new
           /\ \A s \in DocRev : s # r => docIntent'[s] = docIntent[s]
BY DEF DocTypeOK

LEMMA PrepareDocumentKeeps ==
    ASSUME DocIInv, PrepareDocument
    PROVE  DocIInv'
<1>0. DocAt("prepare")
      /\ UNCHANGED <<docLog, docFile, docReceipt, docRefusal, docTodo, docOpen,
                     docCharged, docRisked, overtaken, docCount>>
    BY DEF PrepareDocument, DocKeeps, docFiles, docPast
<1>1. docJob \in DocJob /\ docJob # NoDoc /\ docJob.step = "prepare" /\ DocTypeOK
    BY <1>0, DocCallHas
<1>2. PICK r \in DocRev : r = docJob.rev /\ DocRevOK(r) /\ DocCallOK(r)
    BY <1>0, DocCallHas
<1>3. r = NextRev /\ r \notin DOMAIN docLog /\ docJob.hash \in DocHash
    BY <1>1, <1>2, DocTypesAre DEF DocCallOK, DocJob
<1>4. CASE /\ docIntent[r] = NoDoc /\ DocGo("count")
           /\ docIntent' = [docIntent EXCEPT ![r] =
                  [state |-> "prepared", attempts |-> 0, failed |-> FALSE, hash |-> docJob.hash]]
  <2>1. /\ docJob' \in DocJob /\ docJob' # NoDoc /\ docJob'.step = "count"
        /\ docJob'.rev = r /\ docJob'.hash = docJob.hash
    <3>1. "count" \in DocStep
        BY DEF DocStep
    <3> QED BY <3>1, <1>1, <1>2, <1>4, DocJobGoes
  <2>2. PICK new : new = [state |-> "prepared", attempts |-> 0, failed |-> FALSE,
                          hash |-> docJob.hash]
      OBVIOUS
  <2>3. new \in DocIntent /\ new # NoDoc
    <3>1. 0 \in 0..MaxTries
        BY DocAssumption
    <3>2. new \in DocIntent
        BY <1>3, <2>2, <3>1 DEF DocIntent
    <3> QED BY <3>2, DocAssumption
  <2>4. /\ docIntent' \in [DocRev -> DocIntent \cup {NoDoc}] /\ docIntent'[r] = new
        /\ \A s \in DocRev : s # r => docIntent'[s] = docIntent[s]
      BY <1>1, <1>4, <2>2, <2>3, DocIntentBecomes
  <2>5. DocTypeOK'
      BY <1>0, <1>1, <2>1, <2>4 DEF DocTypeOK
  <2>6. \A s \in DocRev : s # r => SameOfRev(s)
      BY <1>0, <2>4 DEF SameOfRev
  <2>7. Uncharged(r)
      BY <1>1, <1>2, <1>4 DEF DocCallOK, DocIs
  <2>8. DocRevOK(r)'
      BY <1>0, <1>2, <2>2, <2>4, <2>7
         DEF DocRevOK, LeavesDocTrace, Uncharged, DocIs, GoodReceipt
  <2>9. DocCallOK(r)'
      BY <1>0, <1>1, <1>2, <2>1, <2>2, <2>3, <2>4, <2>7
         DEF DocCallOK, NextRev, Uncharged, DocIs
  <2> QED BY <1>0, <1>1, <1>2, <2>1, <2>5, <2>6, <2>8, <2>9, DocCallKeeps
<1>5. CASE UNCHANGED docIntent /\ DocEnd
  <2>1. \A s \in DocRev : SameOfRev(s)
      BY <1>0, <1>5 DEF SameOfRev
  <2>2. DocTypeOK' /\ docJob' = NoDoc
      BY <1>0, <1>1, <1>5 DEF DocTypeOK, DocEnd
  <2>3. DocRevOK(r)'
      BY <1>2, <2>1, DocRevStays
  <2> QED BY <1>0, <1>1, <1>2, <2>1, <2>2, <2>3, DocCallKeeps
<1>6. CASE /\ UNCHANGED docIntent /\ docIntent[r].hash = docJob.hash
           /\ \/ DocIs(r, "prepared") /\ DocGo("count")
              \/ DocIs(r, "invoked") /\ DocGo("read")
  <2>1. PICK next \in {"count", "read"} :
            /\ DocGo(next)
            /\ next = "count" => DocIs(r, "prepared")
            /\ next = "read" => DocIs(r, "invoked")
      BY <1>6
  <2>2. /\ docJob' \in DocJob /\ docJob' # NoDoc /\ docJob'.step = next
        /\ docJob'.rev = r /\ docJob'.hash = docJob.hash
    <3>1. next \in DocStep
        BY DEF DocStep
    <3> QED BY <3>1, <1>1, <1>2, <2>1, DocJobGoes
  <2>3. \A s \in DocRev : SameOfRev(s)
      BY <1>0, <1>6 DEF SameOfRev
  <2>4. DocTypeOK'
      BY <1>0, <1>1, <1>6, <2>2 DEF DocTypeOK
  <2>5. DocRevOK(r)'
      BY <1>2, <2>3, DocRevStays
  <2>6. DocCallOK(r)'
      BY <1>0, <1>1, <1>2, <1>6, <2>1, <2>2 DEF DocCallOK, NextRev, Uncharged, DocIs
  <2> QED BY <1>0, <1>1, <1>2, <2>2, <2>3, <2>4, <2>5, <2>6, DocCallKeeps
<1> QED
  <2>1. \/ /\ docIntent[r] = NoDoc
           /\ docIntent' = [docIntent EXCEPT ![r] =
                  [state |-> "prepared", attempts |-> 0, failed |-> FALSE, hash |-> docJob.hash]]
           /\ DocGo("count")
        \/ /\ DocIs(r, "prepared")
           /\ ~(docIntent[r] # NoDoc /\ docIntent[r].hash # docJob.hash)
           /\ DocGo("count") /\ UNCHANGED docIntent
        \/ /\ DocIs(r, "invoked")
           /\ ~(docIntent[r] # NoDoc /\ docIntent[r].hash # docJob.hash)
           /\ DocGo("read") /\ UNCHANGED docIntent
        \/ DocEnd /\ UNCHANGED docIntent
      BY <1>2, Zenon DEF PrepareDocument
  <2> QED BY <2>1, <1>4, <1>5, <1>6 DEF DocIs

LEMMA ReadReceiptKeeps ==
    ASSUME DocIInv, ReadReceipt
    PROVE  DocIInv'
<1>0. DocAt("read")
      /\ UNCHANGED <<docLog, docFile, docIntent, docReceipt, docRefusal, docTodo, docOpen,
                     docCharged, docRisked, overtaken, docCount>>
    BY DEF ReadReceipt, DocKeeps, docFiles, docPast, docJobs
<1>1. docJob \in DocJob /\ docJob # NoDoc /\ docJob.step = "read" /\ DocTypeOK
    BY <1>0, DocCallHas
<1>2. PICK r \in DocRev : r = docJob.rev /\ DocRevOK(r) /\ DocCallOK(r)
    BY <1>0, DocCallHas
<1>3. \A s \in DocRev : SameOfRev(s)
    BY <1>0 DEF SameOfRev
<1>4. DocRevOK(r)'
    BY <1>2, <1>3, DocRevStays
<1>5. CASE GoodReceipt(r)
  <2>1. docJob' = [docJob EXCEPT !.step = "attach", !.answer = docReceipt[r]]
      BY <1>2, <1>5 DEF ReadReceipt
  <2>2. docReceipt[r] \in Answer /\ docReceipt[r] # NoDoc /\ docReceipt[r].hash # NoDoc
      BY <1>1, <1>2, <1>5, DocTypesAre DEF GoodReceipt, DocRevOK
  <2>3. /\ docJob' \in DocJob /\ docJob' # NoDoc /\ docJob'.step = "attach"
        /\ docJob'.rev = r /\ docJob'.hash = docJob.hash /\ docJob'.answer = docReceipt[r]
      BY <1>1, <1>2, <2>1, <2>2, DocAssumption DEF DocJob, DocStep
  <2>4. DocTypeOK'
      BY <1>0, <1>1, <2>3 DEF DocTypeOK
  <2>5. DocCallOK(r)'
      BY <1>0, <1>1, <1>2, <2>2, <2>3 DEF DocCallOK, DocIs
  <2> QED BY <1>0, <1>1, <1>2, <1>3, <1>4, <2>3, <2>4, <2>5, DocCallKeeps
<1>6. CASE ~GoodReceipt(r)
  <2>1. docJob' = NoDoc
      BY <1>2, <1>6 DEF ReadReceipt, DocEnd
  <2>2. DocTypeOK'
      BY <1>0, <1>1, <2>1 DEF DocTypeOK
  <2> QED BY <1>0, <1>1, <1>2, <1>3, <1>4, <2>1, <2>2, DocCallKeeps
<1> QED BY <1>5, <1>6

LEMMA CountTryKeeps ==
    ASSUME DocIInv, CountTry
    PROVE  DocIInv'
<1>0. DocAt("count")
      /\ UNCHANGED <<docLog, docFile, docReceipt, docRefusal, docTodo, docOpen,
                     docCharged, docRisked, overtaken, docCount>>
    BY DEF CountTry, DocKeeps, docFiles, docPast
<1>1. docJob \in DocJob /\ docJob # NoDoc /\ docJob.step = "count" /\ DocTypeOK
    BY <1>0, DocCallHas
<1>2. PICK r \in DocRev : r = docJob.rev /\ DocRevOK(r) /\ DocCallOK(r)
    BY <1>0, DocCallHas
<1>3. CASE DocEnd /\ UNCHANGED docIntent
  <2>1. \A s \in DocRev : SameOfRev(s)
      BY <1>0, <1>3 DEF SameOfRev
  <2>2. DocTypeOK' /\ docJob' = NoDoc
      BY <1>0, <1>1, <1>3 DEF DocTypeOK, DocEnd
  <2>3. DocRevOK(r)'
      BY <1>2, <2>1, DocRevStays
  <2> QED BY <1>0, <1>1, <1>2, <2>1, <2>2, <2>3, DocCallKeeps
<1>4. CASE /\ docIntent[r].attempts < MaxTries /\ DocGo("ask")
           /\ docIntent' = [docIntent EXCEPT ![r].attempts = @ + 1, ![r].failed = FALSE]
  <2>1. /\ docJob' \in DocJob /\ docJob' # NoDoc /\ docJob'.step = "ask"
        /\ docJob'.rev = r /\ docJob'.hash = docJob.hash
    <3>1. "ask" \in DocStep
        BY DEF DocStep
    <3> QED BY <3>1, <1>1, <1>2, <1>4, DocJobGoes
  <2>2. docIntent[r] \in DocIntent /\ docIntent[r] # NoDoc /\ DocIs(r, "prepared")
        /\ docIntent[r].hash = docJob.hash
      BY <1>1, <1>2, DocTypesAre DEF DocCallOK, DocIs
  <2>3. PICK new : new = [docIntent[r] EXCEPT !.attempts = @ + 1, !.failed = FALSE]
      OBVIOUS
  <2>4. /\ new.attempts = docIntent[r].attempts + 1 /\ new.state = "prepared"
        /\ new.hash = docJob.hash /\ docIntent[r].attempts \in Nat /\ new \in DocIntent
    <3>1. MaxTries \in Nat
        BY DocAssumption
    <3>2. docIntent[r].attempts \in Nat /\ docIntent[r].attempts + 1 \in 0..MaxTries
        BY <1>4, <2>2, <3>1 DEF DocIntent
    <3> QED BY <2>2, <2>3, <3>2 DEF DocIntent, DocIs
  <2>5. docIntent' = [docIntent EXCEPT ![r] = new]
      BY <1>1, <1>4, <2>2, <2>3 DEF DocTypeOK, DocIntent
  <2>6. /\ docIntent' \in [DocRev -> DocIntent \cup {NoDoc}] /\ docIntent'[r] = new
        /\ \A s \in DocRev : s # r => docIntent'[s] = docIntent[s]
      BY <1>1, <2>4, <2>5, DocIntentBecomes
  <2>7. DocTypeOK'
      BY <1>0, <1>1, <2>1, <2>6 DEF DocTypeOK
  <2>8. \A s \in DocRev : s # r => SameOfRev(s)
      BY <1>0, <2>6 DEF SameOfRev
  <2>9. Uncharged(r) /\ docRefusal[r] = NoDoc /\ new # NoDoc
      BY <1>1, <1>2, <2>4, DocAssumption DEF DocCallOK
  <2>10. DocRevOK(r)'
      BY <1>0, <1>2, <2>4, <2>6, <2>9
         DEF DocRevOK, LeavesDocTrace, Uncharged, DocIs, GoodReceipt
  <2>11. DocCallOK(r)'
      BY <1>0, <1>1, <1>2, <2>1, <2>4, <2>6, <2>9 DEF DocCallOK, NextRev, Uncharged, DocIs
  <2> QED BY <1>0, <1>1, <1>2, <2>1, <2>7, <2>8, <2>10, <2>11, DocCallKeeps
<1> QED BY <1>2, <1>3, <1>4 DEF CountTry

(* The call: paid for, the answer is under way and its attempt counted.    *)
LEMMA PaidIs ==
    ASSUME DocTypeOK, docJob \in DocJob, docJob.hash # NoDoc, Paid,
           NEW r \in DocRev, r = docJob.rev
    PROVE  /\ docCharged' \in [DocRev -> Nat]
           /\ docCharged'[r] = IF docJob.hash.model \in PaidModels
                               THEN docCharged[r] + 1 ELSE docCharged[r]
           /\ \A s \in DocRev : s # r => docCharged'[s] = docCharged[s]
<1>1. docCharged \in [DocRev -> Nat]
    BY DEF DocTypeOK
<1> QED BY <1>1 DEF Paid

LEMMA ModelAnswersKeeps ==
    ASSUME DocIInv, ModelAnswers
    PROVE  DocIInv'
<1>0. /\ DocAt("ask") /\ Paid /\ docCount.texts < MaxTexts
      /\ docCount' = [docCount EXCEPT !.texts = @ + 1]
      /\ docJob' = [docJob EXCEPT !.step = "write",
                       !.answer = [text |-> docCount.texts + 1, hash |-> docJob.hash]]
      /\ UNCHANGED <<docLog, docFile, docIntent, docReceipt, docRefusal, docTodo, docOpen,
                     docRisked, overtaken>>
    BY DEF ModelAnswers, DocKeeps, docFiles, docJobs
<1>1. docJob \in DocJob /\ docJob # NoDoc /\ docJob.step = "ask" /\ DocTypeOK
    BY <1>0, DocCallHas
<1>2. PICK r \in DocRev : r = docJob.rev /\ DocRevOK(r) /\ DocCallOK(r)
    BY <1>0, DocCallHas
<1>3. docJob.hash # NoDoc /\ docJob.hash \in DocHash
    BY <1>1, <1>2 DEF DocCallOK, DocJob
<1>4. /\ docCharged' \in [DocRev -> Nat]
      /\ docCharged'[r] = IF docJob.hash.model \in PaidModels
                          THEN docCharged[r] + 1 ELSE docCharged[r]
      /\ \A s \in DocRev : s # r => docCharged'[s] = docCharged[s]
    BY <1>0, <1>1, <1>2, <1>3, PaidIs
<1>5. docCount.texts \in Nat /\ MaxTexts \in Nat
    BY <1>1, DocAssumption DEF DocTypeOK
<1>6. docCount' \in [texts: 0..MaxTexts, asks: 0..MaxDocAsks, stops: 0..MaxDocStops]
  <2>1. docCount \in [texts: 0..MaxTexts, asks: 0..MaxDocAsks, stops: 0..MaxDocStops]
      BY <1>1 DEF DocTypeOK
  <2>2. docCount.texts + 1 \in 0..MaxTexts
      BY <1>0, <1>5
  <2> QED BY <1>0, <2>1, <2>2
<1>7. PICK answer : answer = [text |-> docCount.texts + 1, hash |-> docJob.hash]
    OBVIOUS
<1>8. answer \in Answer /\ answer.hash = docJob.hash
  <2>1. docCount.texts + 1 \in Text
      BY <1>0, <1>5 DEF Text
  <2> QED BY <2>1, <1>3, <1>7 DEF Answer
<1>9. /\ docJob' \in DocJob /\ docJob' # NoDoc /\ docJob'.step = "write"
      /\ docJob'.rev = r /\ docJob'.hash = docJob.hash /\ docJob'.answer = answer
      /\ answer # NoDoc
  <2>1. "write" \in DocStep
      BY DEF DocStep
  <2>2. docJob' = [docJob EXCEPT !.step = "write", !.answer = answer]
      BY <1>0, <1>7
  <2>3. /\ docJob' \in DocJob /\ docJob'.step = "write"
        /\ docJob'.rev = r /\ docJob'.hash = docJob.hash /\ docJob'.answer = answer
      BY <1>1, <1>2, <1>8, <2>1, <2>2 DEF DocJob
  <2> QED BY <2>3, <1>8, DocAssumption
<1>10. DocTypeOK'
    BY <1>0, <1>1, <1>4, <1>6, <1>9 DEF DocTypeOK
<1>11. \A s \in DocRev : s # r => SameOfRev(s)
    BY <1>0, <1>4 DEF SameOfRev
<1>12. DocRevOK(r)'
  <2>1. /\ Uncharged(r) /\ DocIs(r, "prepared") /\ docIntent[r].hash = docJob.hash
        /\ docIntent[r].attempts > 0 /\ docRefusal[r] = NoDoc
        /\ docCharged[r] \in Nat /\ docRisked[r] \in Nat
      BY <1>1, <1>2, DocTypesAre DEF DocCallOK
  <2>2. docCharged'[r] <= 1 + docRisked[r] /\ LeavesDocTrace(r)'
      BY <1>0, <1>3, <1>4, <2>1 DEF LeavesDocTrace, Uncharged, DocIs
  <2> QED BY <1>0, <1>2, <2>2 DEF DocRevOK, DocIs, GoodReceipt
<1>13. DocCallOK(r)'
    BY <1>0, <1>1, <1>2, <1>3, <1>8, <1>9 DEF DocCallOK, NextRev, DocIs
<1> QED BY <1>0, <1>1, <1>2, <1>9, <1>10, <1>11, <1>12, <1>13, DocCallKeeps

LEMMA ModelRefusesKeeps ==
    ASSUME DocIInv, ModelRefuses
    PROVE  DocIInv'
<1>0. /\ DocAt("ask") /\ DocGo("failed")
      /\ docRefusal' = [docRefusal EXCEPT ![docJob.rev] = docJob.hash] \/ UNCHANGED docRefusal
      /\ UNCHANGED <<docLog, docFile, docIntent, docReceipt, docTodo, docOpen,
                     docCharged, docRisked, overtaken, docCount>>
    BY DEF ModelRefuses, DocKeeps, docFiles, docPast
<1>1. docJob \in DocJob /\ docJob # NoDoc /\ docJob.step = "ask" /\ DocTypeOK
    BY <1>0, DocCallHas
<1>2. PICK r \in DocRev : r = docJob.rev /\ DocRevOK(r) /\ DocCallOK(r)
    BY <1>0, DocCallHas
<1>3. docJob.hash \in DocHash
    BY <1>1, <1>2 DEF DocCallOK, DocJob
<1>4. /\ docJob' \in DocJob /\ docJob' # NoDoc /\ docJob'.step = "failed"
      /\ docJob'.rev = r /\ docJob'.hash = docJob.hash
  <2>1. "failed" \in DocStep
      BY DEF DocStep
  <2> QED BY <2>1, <1>0, <1>1, <1>2, DocJobGoes
<1>5. /\ docRefusal' \in [DocRev -> DocHash \cup {NoDoc}]
      /\ \A s \in DocRev : s # r => docRefusal'[s] = docRefusal[s]
    BY <1>0, <1>1, <1>2, <1>3 DEF DocTypeOK
<1>6. DocTypeOK'
    BY <1>0, <1>1, <1>4, <1>5 DEF DocTypeOK
<1>7. \A s \in DocRev : s # r => SameOfRev(s)
    BY <1>0, <1>5 DEF SameOfRev
<1>8. DocRevOK(r)'
    BY <1>0, <1>1, <1>2 DEF DocRevOK, DocCallOK, LeavesDocTrace, Uncharged, DocIs, GoodReceipt
<1>9. DocCallOK(r)'
    BY <1>0, <1>1, <1>2, <1>4 DEF DocCallOK, NextRev, DocIs
<1> QED BY <1>0, <1>1, <1>2, <1>4, <1>6, <1>7, <1>8, <1>9, DocCallKeeps

LEMMA ModelAnswerLostKeeps ==
    ASSUME DocIInv, ModelAnswerLost
    PROVE  DocIInv'
<1>0. /\ DocAt("ask") /\ Paid /\ DocGo("failed")
      /\ UNCHANGED <<docLog, docFile, docIntent, docReceipt, docRefusal, docTodo, docOpen,
                     docRisked, overtaken, docCount>>
    BY DEF ModelAnswerLost, DocKeeps, docFiles, docJobs
<1>1. docJob \in DocJob /\ docJob # NoDoc /\ docJob.step = "ask" /\ DocTypeOK
    BY <1>0, DocCallHas
<1>2. PICK r \in DocRev : r = docJob.rev /\ DocRevOK(r) /\ DocCallOK(r)
    BY <1>0, DocCallHas
<1>3. docJob.hash # NoDoc /\ docJob.hash \in DocHash
    BY <1>1, <1>2 DEF DocCallOK, DocJob
<1>4. /\ docCharged' \in [DocRev -> Nat]
      /\ docCharged'[r] = IF docJob.hash.model \in PaidModels
                          THEN docCharged[r] + 1 ELSE docCharged[r]
      /\ \A s \in DocRev : s # r => docCharged'[s] = docCharged[s]
    BY <1>0, <1>1, <1>2, <1>3, PaidIs
<1>5. /\ docJob' \in DocJob /\ docJob' # NoDoc /\ docJob'.step = "failed"
      /\ docJob'.rev = r /\ docJob'.hash = docJob.hash
  <2>1. "failed" \in DocStep
      BY DEF DocStep
  <2> QED BY <2>1, <1>0, <1>1, <1>2, DocJobGoes
<1>6. DocTypeOK'
    BY <1>0, <1>1, <1>4, <1>5 DEF DocTypeOK
<1>7. \A s \in DocRev : s # r => SameOfRev(s)
    BY <1>0, <1>4 DEF SameOfRev
<1>8. DocRevOK(r)'
  <2>1. /\ Uncharged(r) /\ DocIs(r, "prepared") /\ docIntent[r].hash = docJob.hash
        /\ docIntent[r].attempts > 0 /\ docRefusal[r] = NoDoc
        /\ docCharged[r] \in Nat /\ docRisked[r] \in Nat
      BY <1>1, <1>2, DocTypesAre DEF DocCallOK
  <2>2. docCharged'[r] <= 1 + docRisked[r] /\ LeavesDocTrace(r)'
      BY <1>0, <1>3, <1>4, <2>1 DEF LeavesDocTrace, Uncharged, DocIs
  <2> QED BY <1>0, <1>2, <2>2 DEF DocRevOK, DocIs, GoodReceipt
<1>9. DocCallOK(r)'
    BY <1>0, <1>1, <1>2, <1>5 DEF DocCallOK, NextRev, DocIs
<1> QED BY <1>0, <1>1, <1>2, <1>5, <1>6, <1>7, <1>8, <1>9, DocCallKeeps

(* A command that ends and leaves the rest alone.                          *)
LEMMA DocEndsKeeps ==
    ASSUME DocIInv, DocEnd,
           UNCHANGED <<docLog, docFile, docIntent, docReceipt, docRefusal, docTodo, docOpen,
                       docCharged, docRisked, overtaken, docCount>>
    PROVE  DocIInv'
<1>1. \A s \in DocRev : SameOfRev(s) /\ DocRevOK(s)
    BY DEF SameOfRev, DocIInv
<1>2. \A s \in DocRev : DocRevOK(s)'
    BY <1>1, DocRevStays
<1>3. DocTypeOK' /\ DocSessionOK' /\ DocJobOK'
    BY DEF DocIInv, DocTypeOK, DocEnd, DocSessionOK, DocJobOK, DocIs
<1> QED BY <1>2, <1>3 DEF DocIInv

(* A command that goes on to note its failure.                             *)
LEMMA DocFailedKeeps ==
    ASSUME DocIInv, docJob # NoDoc, docJob.step \in {"write", "receipt"}, DocGo("failed"),
           UNCHANGED <<docLog, docFile, docIntent, docReceipt, docRefusal, docTodo, docOpen,
                       docCharged, docRisked, overtaken, docCount>>
    PROVE  DocIInv'
<1>0. DocAt(docJob.step)
    BY DEF DocAt
<1>1. docJob \in DocJob /\ DocTypeOK
    BY <1>0, DocCallHas
<1>2. PICK r \in DocRev : r = docJob.rev /\ DocRevOK(r) /\ DocCallOK(r)
    BY <1>0, DocCallHas
<1>3. /\ docJob' \in DocJob /\ docJob' # NoDoc /\ docJob'.step = "failed"
      /\ docJob'.rev = r /\ docJob'.hash = docJob.hash
  <2>1. "failed" \in DocStep
      BY DEF DocStep
  <2> QED BY <2>1, <1>1, <1>2, DocJobGoes
<1>4. \A s \in DocRev : SameOfRev(s)
    BY DEF SameOfRev
<1>5. DocRevOK(r)'
    BY <1>2, <1>4, DocRevStays
<1>6. DocTypeOK'
    BY <1>1, <1>3 DEF DocTypeOK
<1>7. DocCallOK(r)'
    BY <1>2, <1>3 DEF DocCallOK, NextRev, DocIs
<1> QED BY <1>2, <1>3, <1>4, <1>5, <1>6, <1>7, DocCallKeeps

LEMMA WriteAnswerKeeps ==
    ASSUME DocIInv, WriteAnswer
    PROVE  DocIInv'
<1>0. DocAt("write")
      /\ UNCHANGED <<docLog, docIntent, docReceipt, docRefusal, docTodo, docOpen,
                     docCharged, docRisked, overtaken, docCount>>
    BY DEF WriteAnswer, DocKeeps, docJobs, docPast
<1>1. docJob \in DocJob /\ docJob # NoDoc /\ docJob.step = "write" /\ DocTypeOK
    BY <1>0, DocCallHas
<1>2. PICK r \in DocRev : r = docJob.rev /\ DocRevOK(r) /\ DocCallOK(r)
    BY <1>0, DocCallHas
<1>3. CASE DocGo("failed") /\ UNCHANGED docFile
    BY <1>0, <1>1, <1>3, DocFailedKeeps
<1>4. CASE docFile' = [docFile EXCEPT ![r] = docJob.answer.text] /\ DocGo("receipt")
  <2>1. /\ docJob' \in DocJob /\ docJob' # NoDoc /\ docJob'.step = "receipt"
        /\ docJob'.rev = r /\ docJob'.hash = docJob.hash /\ docJob'.answer = docJob.answer
    <3>1. "receipt" \in DocStep
        BY DEF DocStep
    <3> QED BY <3>1, <1>1, <1>2, <1>4, DocJobGoes
  <2>2. r = NextRev /\ r \notin DOMAIN docLog /\ docJob.answer # NoDoc
        /\ DocIs(r, "prepared")
      BY <1>1, <1>2, DocTypesAre DEF DocCallOK
  <2>3. docJob.answer.text \in Text
      BY <1>1, <2>2 DEF DocJob, Answer
  <2>4. /\ docFile' \in [DocRev -> Text \cup {NoDoc}] /\ docFile'[r] = docJob.answer.text
        /\ \A s \in DocRev : s # r => docFile'[s] = docFile[s]
      BY <1>1, <1>4, <2>3 DEF DocTypeOK
  <2>5. DocTypeOK'
      BY <1>0, <1>1, <2>1, <2>4 DEF DocTypeOK
  <2>6. \A s \in DocRev : s # r => SameOfRev(s)
      BY <1>0, <2>4 DEF SameOfRev
  <2>7. DocRevOK(r)'
      BY <1>0, <1>2, <2>2 DEF DocRevOK, LeavesDocTrace, Uncharged, DocIs
  <2>8. DocCallOK(r)'
      BY <1>0, <1>1, <1>2, <2>1, <2>2, <2>4 DEF DocCallOK, NextRev, DocIs
  <2> QED BY <1>0, <1>1, <1>2, <2>1, <2>5, <2>6, <2>7, <2>8, DocCallKeeps
<1> QED BY <1>2, <1>3, <1>4 DEF WriteAnswer

LEMMA WriteDocReceiptKeeps ==
    ASSUME DocIInv, WriteDocReceipt
    PROVE  DocIInv'
<1>0. DocAt("receipt")
      /\ UNCHANGED <<docLog, docFile, docIntent, docRefusal, docTodo, docOpen,
                     docCharged, docRisked, overtaken, docCount>>
    BY DEF WriteDocReceipt, DocKeeps, docFiles, docPast
<1>1. docJob \in DocJob /\ docJob # NoDoc /\ docJob.step = "receipt" /\ DocTypeOK
    BY <1>0, DocCallHas
<1>2. PICK r \in DocRev : r = docJob.rev /\ DocRevOK(r) /\ DocCallOK(r)
    BY <1>0, DocCallHas
<1>3. CASE DocGo("failed") /\ UNCHANGED docReceipt
    BY <1>0, <1>1, <1>3, DocFailedKeeps
<1>4. CASE docReceipt' = [docReceipt EXCEPT ![r] = docJob.answer] /\ DocGo("save")
  <2>1. /\ docJob' \in DocJob /\ docJob' # NoDoc /\ docJob'.step = "save"
        /\ docJob'.rev = r /\ docJob'.hash = docJob.hash /\ docJob'.answer = docJob.answer
    <3>1. "save" \in DocStep
        BY DEF DocStep
    <3> QED BY <3>1, <1>1, <1>2, <1>4, DocJobGoes
  <2>2. r = NextRev /\ docJob.answer # NoDoc /\ docJob.answer.hash # NoDoc
        /\ DocIs(r, "prepared")
      BY <1>1, <1>2 DEF DocCallOK
  <2>3. docJob.answer \in Answer
      BY <1>1, <2>2 DEF DocJob
  <2>4. /\ docReceipt' \in [DocRev -> Answer \cup {NoDoc}] /\ docReceipt'[r] = docJob.answer
        /\ \A s \in DocRev : s # r => docReceipt'[s] = docReceipt[s]
      BY <1>1, <1>4, <2>3 DEF DocTypeOK
  <2>5. DocTypeOK'
      BY <1>0, <1>1, <2>1, <2>4 DEF DocTypeOK
  <2>6. \A s \in DocRev : s # r => SameOfRev(s)
      BY <1>0, <2>4 DEF SameOfRev
  <2>7. DocRevOK(r)'
      BY <1>0, <1>2, <2>2, <2>4 DEF DocRevOK, LeavesDocTrace, Uncharged, DocIs
  <2>8. DocCallOK(r)'
      BY <1>0, <1>1, <1>2, <2>1, <2>2, <2>4 DEF DocCallOK, NextRev, DocIs
  <2> QED BY <1>0, <1>1, <1>2, <2>1, <2>5, <2>6, <2>7, <2>8, DocCallKeeps
<1> QED BY <1>2, <1>3, <1>4 DEF WriteDocReceipt

LEMMA SaveAnsweredKeeps ==
    ASSUME DocIInv, SaveAnswered
    PROVE  DocIInv'
<1>0. DocAt("save") /\ DocGo("attach")
      /\ UNCHANGED <<docLog, docFile, docReceipt, docRefusal, docTodo, docOpen,
                     docCharged, docRisked, overtaken, docCount>>
    BY DEF SaveAnswered, DocKeeps, docFiles, docPast
<1>1. docJob \in DocJob /\ docJob # NoDoc /\ docJob.step = "save" /\ DocTypeOK
    BY <1>0, DocCallHas
<1>2. PICK r \in DocRev : r = docJob.rev /\ DocRevOK(r) /\ DocCallOK(r)
    BY <1>0, DocCallHas
<1>3. /\ docJob' \in DocJob /\ docJob' # NoDoc /\ docJob'.step = "attach"
      /\ docJob'.rev = r /\ docJob'.hash = docJob.hash /\ docJob'.answer = docJob.answer
  <2>1. "attach" \in DocStep
      BY DEF DocStep
  <2> QED BY <2>1, <1>0, <1>1, <1>2, DocJobGoes
<1>4. docIntent[r] \in DocIntent /\ docIntent[r] # NoDoc
    BY <1>1, <1>2, DocTypesAre DEF DocCallOK, DocIs
<1>5. PICK new : new = [docIntent[r] EXCEPT !.state = "invoked"]
    OBVIOUS
<1>6. new \in DocIntent /\ new # NoDoc /\ new.state = "invoked"
  <2>1. new \in DocIntent /\ new.state = "invoked"
      BY <1>4, <1>5 DEF DocIntent
  <2> QED BY <2>1, DocAssumption
<1>7. docIntent' = [docIntent EXCEPT ![r] = new]
    BY <1>1, <1>2, <1>5 DEF SaveAnswered, DocTypeOK
<1>8. /\ docIntent' \in [DocRev -> DocIntent \cup {NoDoc}] /\ docIntent'[r] = new
      /\ \A s \in DocRev : s # r => docIntent'[s] = docIntent[s]
    BY <1>1, <1>6, <1>7, DocIntentBecomes
<1>9. DocTypeOK'
    BY <1>0, <1>1, <1>3, <1>8 DEF DocTypeOK
<1>10. \A s \in DocRev : s # r => SameOfRev(s)
    BY <1>0, <1>8 DEF SameOfRev
<1>11. GoodReceipt(r) /\ docJob.answer # NoDoc
    BY <1>1, <1>2 DEF DocCallOK, GoodReceipt
<1>12. DocRevOK(r)'
    BY <1>0, <1>2, <1>6, <1>8, <1>11 DEF DocRevOK, LeavesDocTrace, Uncharged, DocIs, GoodReceipt
<1>13. DocCallOK(r)'
    BY <1>0, <1>1, <1>2, <1>3, <1>6, <1>8 DEF DocCallOK, NextRev, DocIs
<1> QED BY <1>0, <1>1, <1>2, <1>3, <1>9, <1>10, <1>12, <1>13, DocCallKeeps

LEMMA SaveDocFailureKeeps ==
    ASSUME DocIInv, SaveDocFailure
    PROVE  DocIInv'
<1>0. DocAt("failed") /\ DocEnd
      /\ UNCHANGED <<docLog, docFile, docReceipt, docRefusal, docTodo, docOpen,
                     docCharged, docRisked, overtaken, docCount>>
    BY DEF SaveDocFailure, DocKeeps, docFiles, docPast
<1>1. docJob \in DocJob /\ docJob # NoDoc /\ docJob.step = "failed" /\ DocTypeOK
    BY <1>0, DocCallHas
<1>2. PICK r \in DocRev : r = docJob.rev /\ DocRevOK(r) /\ DocCallOK(r)
    BY <1>0, DocCallHas
<1>3. CASE UNCHANGED docIntent
    BY <1>0, <1>3, DocEndsKeeps
<1>4. CASE docIntent' = [docIntent EXCEPT ![r].failed = TRUE]
  <2>1. docIntent[r] \in DocIntent /\ docIntent[r] # NoDoc /\ DocIs(r, "prepared")
      BY <1>1, <1>2, DocTypesAre DEF DocCallOK, DocIs
  <2>2. PICK new : new = [docIntent[r] EXCEPT !.failed = TRUE]
      OBVIOUS
  <2>3. /\ new \in DocIntent /\ new # NoDoc /\ new.state = "prepared"
        /\ new.attempts = docIntent[r].attempts /\ new.hash = docIntent[r].hash
    <3>1. /\ new \in DocIntent /\ new.state = "prepared"
          /\ new.attempts = docIntent[r].attempts /\ new.hash = docIntent[r].hash
        BY <2>1, <2>2 DEF DocIntent, DocIs
    <3> QED BY <3>1, DocAssumption
  <2>4. docIntent' = [docIntent EXCEPT ![r] = new]
      BY <1>1, <1>4, <2>2 DEF DocTypeOK
  <2>5. /\ docIntent' \in [DocRev -> DocIntent \cup {NoDoc}] /\ docIntent'[r] = new
        /\ \A s \in DocRev : s # r => docIntent'[s] = docIntent[s]
      BY <1>1, <2>3, <2>4, DocIntentBecomes
  <2>6. DocTypeOK' /\ docJob' = NoDoc
      BY <1>0, <1>1, <2>5 DEF DocTypeOK, DocEnd
  <2>7. \A s \in DocRev : s # r => SameOfRev(s)
      BY <1>0, <2>5 DEF SameOfRev
  <2>8. DocRevOK(r)'
      BY <1>0, <1>2, <2>1, <2>3, <2>5 DEF DocRevOK, LeavesDocTrace, Uncharged, DocIs, GoodReceipt
  <2> QED BY <1>0, <1>1, <1>2, <2>6, <2>7, <2>8, DocCallKeeps
<1> QED BY <1>2, <1>3, <1>4 DEF SaveDocFailure

LEMMA DocFailsKeeps ==
    ASSUME DocIInv, DocFails
    PROVE  DocIInv'
BY DocEndsKeeps DEF DocFails, DocKeeps, docFiles, docJobs, docPast

(* What a log becomes when a revision is added, or one is locked: the      *)
(* revisions it had keep their bytes and where they come from.             *)
LEMMA SupersededKeeps ==
    ASSUME DocTypeOK
    PROVE  /\ Superseded(docLog) \in Seq(DocRecord)
           /\ Len(Superseded(docLog)) = Len(docLog)
           /\ \A r \in DOMAIN docLog : /\ Superseded(docLog)[r].text = docLog[r].text
                                       /\ Superseded(docLog)[r].hash = docLog[r].hash
<1>1. /\ Len(docLog) \in Nat /\ DOMAIN docLog = 1..Len(docLog)
      /\ \A r \in DOMAIN docLog : docLog[r] \in DocRecord
    BY DocTypesAre
<1>2. PICK n \in Nat : n = Len(docLog)
    BY <1>1
<1>3. \A r \in 1..n :
          /\ Superseded(docLog)[r] \in DocRecord
          /\ Superseded(docLog)[r].text = docLog[r].text
          /\ Superseded(docLog)[r].hash = docLog[r].hash
  <2> TAKE r \in 1..n
  <2>1. docLog[r] \in DocRecord /\ Superseded(docLog)[r] =
            IF docLog[r].status = "candidate"
            THEN [docLog[r] EXCEPT !.status = "superseded"] ELSE docLog[r]
      BY <1>1, <1>2 DEF Superseded
  <2> QED BY <2>1 DEF DocRecord
<1>4. Superseded(docLog) \in [1..n -> DocRecord]
  <2>1. Superseded(docLog) = [r \in 1..n |-> Superseded(docLog)[r]]
      BY <1>1, <1>2 DEF Superseded
  <2> QED BY <1>3, <2>1
<1>5. Superseded(docLog) \in Seq(DocRecord)
    BY <1>4, SeqDef
<1>6. Len(Superseded(docLog)) = n
    BY <1>4, <1>5, LenProperties
<1> QED BY <1>1, <1>2, <1>3, <1>5, <1>6

LEMMA AttachRevisionKeeps ==
    ASSUME DocIInv, AttachRevision
    PROVE  DocIInv'
<1>0. DocAt("attach")
      /\ UNCHANGED <<docFile, docIntent, docReceipt, docRefusal, docTodo, docOpen,
                     docCharged, docRisked, overtaken, docCount>>
    BY DEF AttachRevision, DocKeeps, docJobs, docPast
<1>1. docJob \in DocJob /\ docJob # NoDoc /\ docJob.step = "attach" /\ DocTypeOK
    BY <1>0, DocCallHas
<1>2. PICK r \in DocRev : r = docJob.rev /\ DocRevOK(r) /\ DocCallOK(r)
    BY <1>0, DocCallHas
<1>3. /\ docJob.answer # NoDoc /\ docJob.answer \in Answer
      /\ docJob.hash # NoDoc => docJob.answer.hash # NoDoc /\ DocIs(r, "invoked")
    BY <1>1, <1>2 DEF DocCallOK, DocJob
<1>4. ASSUME DocGo("acknowledge")
      PROVE  /\ docJob' \in DocJob /\ docJob' # NoDoc /\ docJob'.step = "acknowledge"
             /\ docJob'.rev = r /\ docJob'.hash = docJob.hash
             /\ docJob'.answer = docJob.answer
  <2>1. "acknowledge" \in DocStep
      BY DEF DocStep
  <2> QED BY <2>1, <1>1, <1>2, <1>4, DocJobGoes
<1>5. CASE DocEnd /\ UNCHANGED docLog
    BY <1>0, <1>5, DocEndsKeeps
<1>6. CASE /\ r \in DOMAIN docLog /\ SameRecord(r, docJob.answer) /\ UNCHANGED docLog
           /\ docJob.hash # NoDoc /\ DocGo("acknowledge")
  <2>1. \A s \in DocRev : SameOfRev(s)
      BY <1>0, <1>6 DEF SameOfRev
  <2>2. DocRevOK(r)'
      BY <1>2, <2>1, DocRevStays
  <2>3. DocTypeOK'
      BY <1>0, <1>1, <1>4, <1>6 DEF DocTypeOK
  <2>4. DocCallOK(r)'
      BY <1>0, <1>3, <1>4, <1>6 DEF DocCallOK, DocIs, SameRecord
  <2> QED BY <1>0, <1>1, <1>2, <1>4, <1>6, <2>1, <2>2, <2>3, <2>4, DocCallKeeps
<1>7. CASE /\ r = NextRev /\ FileHolds(r, docJob.answer.text)
           /\ docLog' = Append(Superseded(docLog),
                          [text |-> docJob.answer.text, hash |-> docJob.answer.hash,
                           status |-> "candidate"])
           /\ (docJob.hash = NoDoc /\ DocEnd) \/ (docJob.hash # NoDoc /\ DocGo("acknowledge"))
  <2>1. PICK new : new = [text |-> docJob.answer.text, hash |-> docJob.answer.hash,
                          status |-> "candidate"]
      OBVIOUS
  <2>2. new \in DocRecord /\ new.text = docJob.answer.text /\ new.hash = docJob.answer.hash
      BY <1>3, <2>1 DEF DocRecord, Answer
  <2>3. PICK log : log = Superseded(docLog)
      OBVIOUS
  <2>4. /\ log \in Seq(DocRecord) /\ Len(log) = Len(docLog) /\ Len(docLog) \in Nat
        /\ DOMAIN docLog = 1..Len(docLog)
        /\ \A s \in DOMAIN docLog : log[s].text = docLog[s].text /\ log[s].hash = docLog[s].hash
      BY <1>1, <2>3, SupersededKeeps, DocTypesAre
  <2>5. docLog' = Append(log, new)
      BY <1>7, <2>1, <2>3
  <2>6. /\ docLog' \in Seq(DocRecord) /\ Len(docLog') = Len(docLog) + 1
        /\ DOMAIN docLog' = 1..(Len(docLog) + 1)
        /\ docLog'[Len(docLog) + 1] = new
        /\ \A s \in 1..Len(docLog) : docLog'[s] = log[s]
      BY <2>2, <2>4, <2>5, AppendProperties, LenProperties
  <2>7. r = Len(docLog) + 1
      BY <1>7 DEF NextRev
  <2>8. Len(docLog') <= MaxDocRevision
      BY <2>6, <2>7, DocAssumption DEF DocRev
  <2>9. DocTypeOK'
      BY <1>0, <1>1, <1>4, <1>7, <2>6, <2>8 DEF DocTypeOK, DocEnd
  <2>10. ASSUME NEW s \in DocRev, s # r PROVE SameOfRev(s)
    <3>1. s \in DOMAIN docLog' <=> s \in DOMAIN docLog
        BY <2>4, <2>6, <2>7, <2>10 DEF DocRev
    <3> QED BY <1>0, <2>4, <2>6, <3>1 DEF SameOfRev
  <2>11. r \in DOMAIN docLog' /\ docLog'[r] = new /\ r \notin DOMAIN docLog
      BY <2>4, <2>6, <2>7
  <2>12. DocRevOK(r)'
      BY <1>0, <1>2, <1>7, <2>2, <2>11
         DEF DocRevOK, LeavesDocTrace, Uncharged, DocIs, GoodReceipt, FileHolds
  <2>13. docJob' = NoDoc \/ (docJob'.rev = r /\ DocCallOK(r)')
      BY <1>0, <1>3, <1>4, <1>7, <2>2, <2>11 DEF DocCallOK, DocIs, DocEnd
  <2> QED BY <1>0, <1>1, <1>2, <2>9, <2>10, <2>12, <2>13, DocCallKeeps
<1> QED
  <2>1. \/ /\ r \in DOMAIN docLog /\ SameRecord(r, docJob.answer)
           /\ IF docJob.hash = NoDoc THEN DocEnd ELSE DocGo("acknowledge")
           /\ UNCHANGED docLog
        \/ /\ r = NextRev /\ FileHolds(r, docJob.answer.text)
           /\ docLog' = Append(Superseded(docLog),
                           [text |-> docJob.answer.text, hash |-> docJob.answer.hash,
                            status |-> "candidate"])
           /\ IF docJob.hash = NoDoc THEN DocEnd ELSE DocGo("acknowledge")
        \/ DocEnd /\ UNCHANGED docLog
      BY <1>2, Zenon DEF AttachRevision
  <2>2. CASE docJob.hash = NoDoc
      BY <2>1, <2>2, <1>5, <1>7, Zenon
  <2>3. CASE docJob.hash # NoDoc
      BY <2>1, <2>3, <1>5, <1>6, <1>7, Zenon
  <2> QED BY <2>2, <2>3

LEMMA AcknowledgeDocumentKeeps ==
    ASSUME DocIInv, AcknowledgeDocument
    PROVE  DocIInv'
<1>0. DocAt("acknowledge") /\ DocGo("remove")
      /\ UNCHANGED <<docLog, docFile, docReceipt, docRefusal, docTodo, docOpen,
                     docCharged, docRisked, overtaken, docCount>>
    BY DEF AcknowledgeDocument, DocKeeps, docFiles, docPast
<1>1. docJob \in DocJob /\ docJob # NoDoc /\ docJob.step = "acknowledge" /\ DocTypeOK
    BY <1>0, DocCallHas
<1>2. PICK r \in DocRev : r = docJob.rev /\ DocRevOK(r) /\ DocCallOK(r)
    BY <1>0, DocCallHas
<1>3. /\ docJob' \in DocJob /\ docJob' # NoDoc /\ docJob'.step = "remove"
      /\ docJob'.rev = r /\ docJob'.hash = docJob.hash
  <2>1. "remove" \in DocStep
      BY DEF DocStep
  <2> QED BY <2>1, <1>0, <1>1, <1>2, DocJobGoes
<1>4. /\ docIntent[r] \in DocIntent /\ docIntent[r] # NoDoc
      /\ r \in DOMAIN docLog /\ docLog[r].hash # NoDoc
    BY <1>1, <1>2, DocTypesAre DEF DocCallOK, DocIs
<1>5. PICK new : new = [docIntent[r] EXCEPT !.state = "reconciled"]
    OBVIOUS
<1>6. new \in DocIntent /\ new # NoDoc /\ new.state = "reconciled"
  <2>1. new \in DocIntent /\ new.state = "reconciled"
      BY <1>4, <1>5 DEF DocIntent
  <2> QED BY <2>1, DocAssumption
<1>7. docIntent' = [docIntent EXCEPT ![r] = new]
    BY <1>1, <1>2, <1>5 DEF AcknowledgeDocument, DocTypeOK
<1>8. /\ docIntent' \in [DocRev -> DocIntent \cup {NoDoc}] /\ docIntent'[r] = new
      /\ \A s \in DocRev : s # r => docIntent'[s] = docIntent[s]
    BY <1>1, <1>6, <1>7, DocIntentBecomes
<1>9. DocTypeOK'
    BY <1>0, <1>1, <1>3, <1>8 DEF DocTypeOK
<1>10. \A s \in DocRev : s # r => SameOfRev(s)
    BY <1>0, <1>8 DEF SameOfRev
<1>11. DocRevOK(r)'
    BY <1>0, <1>2, <1>4, <1>6, <1>8 DEF DocRevOK, LeavesDocTrace, Uncharged, DocIs, GoodReceipt
<1>12. DocCallOK(r)'
    BY <1>0, <1>1, <1>2, <1>3, <1>6, <1>8 DEF DocCallOK, NextRev, DocIs
<1> QED BY <1>0, <1>1, <1>2, <1>3, <1>9, <1>10, <1>11, <1>12, DocCallKeeps

LEMMA RemoveDocReceiptKeeps ==
    ASSUME DocIInv, RemoveDocReceipt
    PROVE  DocIInv'
<1>0. DocAt("remove") /\ DocEnd
      /\ UNCHANGED <<docLog, docFile, docIntent, docRefusal, docTodo, docOpen,
                     docCharged, docRisked, overtaken, docCount>>
    BY DEF RemoveDocReceipt, DocKeeps, docFiles, docPast
<1>1. docJob \in DocJob /\ docJob # NoDoc /\ docJob.step = "remove" /\ DocTypeOK
    BY <1>0, DocCallHas
<1>2. PICK r \in DocRev : r = docJob.rev /\ DocRevOK(r) /\ DocCallOK(r)
    BY <1>0, DocCallHas
<1>3. CASE UNCHANGED docReceipt
    BY <1>0, <1>3, DocEndsKeeps
<1>4. CASE docReceipt' = [docReceipt EXCEPT ![r] = NoDoc]
  <2>1. /\ docReceipt' \in [DocRev -> Answer \cup {NoDoc}] /\ docReceipt'[r] = NoDoc
        /\ \A s \in DocRev : s # r => docReceipt'[s] = docReceipt[s]
      BY <1>1, <1>4 DEF DocTypeOK
  <2>2. DocTypeOK' /\ docJob' = NoDoc
      BY <1>0, <1>1, <2>1 DEF DocTypeOK, DocEnd
  <2>3. \A s \in DocRev : s # r => SameOfRev(s)
      BY <1>0, <2>1 DEF SameOfRev
  <2>4. DocIs(r, "reconciled")
      BY <1>1, <1>2 DEF DocCallOK
  <2>5. DocRevOK(r)'
      BY <1>0, <1>2, <2>1, <2>4 DEF DocRevOK, LeavesDocTrace, Uncharged, DocIs, GoodReceipt
  <2> QED BY <1>0, <1>1, <1>2, <2>2, <2>3, <2>5, DocCallKeeps
<1> QED BY <1>2, <1>3, <1>4 DEF RemoveDocReceipt

LEMMA SaveEditKeeps ==
    ASSUME DocIInv, SaveEdit
    PROVE  DocIInv'
<1>0. /\ DocTypeOK /\ docOpen /\ docTodo = {} /\ docCount.texts < MaxTexts
      /\ docCount' = [docCount EXCEPT !.texts = @ + 1]
      /\ UNCHANGED <<docLog, docIntent, docReceipt, docRefusal, docTodo, docOpen,
                     docCharged, docRisked>>
    BY DEF DocIInv, SaveEdit, DocIdle, DocKeeps, docJobs
<1>1. PICK r \in DocRev : r = NextRev
    BY DEF SaveEdit
<1>2. docCount.texts \in Nat /\ MaxTexts \in Nat /\ r \notin DOMAIN docLog
    BY <1>0, <1>1, DocAssumption, DocTypesAre DEF DocTypeOK
<1>3. PICK text : text = docCount.texts + 1
    OBVIOUS
<1>4. text \in Text
    BY <1>0, <1>2, <1>3 DEF Text
<1>5. /\ docFile' = [docFile EXCEPT ![r] = text]
      /\ docJob' = [rev |-> r, hash |-> NoDoc, step |-> "attach",
                    answer |-> [text |-> text, hash |-> NoDoc]]
      /\ overtaken' = IF GoodReceipt(r) THEN overtaken \cup {r} ELSE overtaken
    BY <1>1, <1>3 DEF SaveEdit
<1>6. docCount' \in [texts: 0..MaxTexts, asks: 0..MaxDocAsks, stops: 0..MaxDocStops]
  <2>1. docCount \in [texts: 0..MaxTexts, asks: 0..MaxDocAsks, stops: 0..MaxDocStops]
      BY <1>0 DEF DocTypeOK
  <2>2. docCount.texts + 1 \in 0..MaxTexts
      BY <1>0, <1>2
  <2> QED BY <1>0, <2>1, <2>2
<1>7. PICK answer : answer = [text |-> text, hash |-> NoDoc]
    OBVIOUS
<1>8. answer \in Answer
    BY <1>4, <1>7 DEF Answer
<1>9. answer # NoDoc
    BY <1>8, DocAssumption
<1>10. /\ docJob' \in DocJob /\ docJob'.rev = r /\ docJob'.hash = NoDoc
       /\ docJob'.step = "attach" /\ docJob'.answer = answer
  <2>1. "attach" \in DocStep
      BY DEF DocStep
  <2> QED BY <1>5, <1>7, <1>8, <2>1 DEF DocJob
<1>11. /\ docFile' \in [DocRev -> Text \cup {NoDoc}] /\ docFile'[r] = text
       /\ \A s \in DocRev : s # r => docFile'[s] = docFile[s]
    BY <1>0, <1>4, <1>5 DEF DocTypeOK
<1>12. DocTypeOK'
    BY <1>0, <1>5, <1>6, <1>10, <1>11 DEF DocTypeOK
<1>13. ASSUME NEW s \in DocRev PROVE DocRevOK(s)'
  <2>1. DocRevOK(s)
      BY DEF DocIInv
  <2>2. CASE s # r
    <3>1. SameOfRev(s)
        BY <1>0, <1>5, <1>11, <2>2 DEF SameOfRev
    <3> QED BY <2>1, <3>1, DocRevStays
  <2>3. CASE s = r
    <3>1. DocIs(r, "invoked") => r \in overtaken'
        BY <1>2, <1>5, <2>1, <2>3 DEF DocRevOK
    <3> QED BY <1>0, <1>2, <2>1, <2>3, <3>1 DEF DocRevOK, LeavesDocTrace, Uncharged, DocIs
  <2> QED BY <2>2, <2>3
<1>14. DocJobOK'

  <2>2. DocJobOK' <=> (docJob' # NoDoc => docJob'.rev \notin docTodo' /\ DocCallOK(docJob.rev)')
      BY DEF DocJobOK
  <2>3. DocCallOK(docJob.rev)'
      BY <1>9, <1>10 DEF DocCallOK
  <2> QED BY <1>0, <2>2, <2>3
<1>15. DocSessionOK'
    BY <1>0 DEF DocSessionOK
<1> QED BY <1>12, <1>13, <1>14, <1>15 DEF DocIInv

LEMMA LockRevisionKeeps ==
    ASSUME DocIInv, NEW r \in DocRev, LockRevision(r)
    PROVE  DocIInv'
<1>0. /\ DocTypeOK /\ docJob = NoDoc
      /\ docLog' = [s \in DOMAIN docLog |->
                      [docLog[s] EXCEPT !.status = IF s = r THEN "locked" ELSE "superseded"]]
      /\ UNCHANGED <<docFile, docIntent, docReceipt, docRefusal, docJob, docTodo, docOpen,
                     docCharged, docRisked, overtaken, docCount>>
    BY DEF DocIInv, LockRevision, DocIdle, docJobs, docPast
<1>1. /\ Len(docLog) \in Nat /\ DOMAIN docLog = 1..Len(docLog)
      /\ \A s \in DOMAIN docLog : docLog[s] \in DocRecord
    BY <1>0, DocTypesAre
<1>2. PICK n \in Nat : n = Len(docLog)
    BY <1>1
<1>3. \A s \in 1..n : /\ docLog'[s] \in DocRecord
                      /\ docLog'[s].text = docLog[s].text /\ docLog'[s].hash = docLog[s].hash
  <2> TAKE s \in 1..n
  <2>1. docLog[s] \in DocRecord /\ docLog'[s] =
            [docLog[s] EXCEPT !.status = IF s = r THEN "locked" ELSE "superseded"]
      BY <1>0, <1>1, <1>2
  <2> QED BY <2>1 DEF DocRecord
<1>4. docLog' \in [1..n -> DocRecord]
  <2>1. docLog' = [s \in 1..n |-> docLog'[s]]
      BY <1>0, <1>1, <1>2
  <2> QED BY <1>3, <2>1
<1>5. docLog' \in Seq(DocRecord)
    BY <1>4, SeqDef
<1>6. Len(docLog') = n /\ DOMAIN docLog' = 1..n
    BY <1>4, <1>5, LenProperties
<1>7. DocTypeOK'
    BY <1>0, <1>2, <1>5, <1>6 DEF DocTypeOK
<1>8. \A s \in DocRev : DocRevOK(s)'
  <2> TAKE s \in DocRev
  <2>1. DocRevOK(s) /\ SameOfRev(s)
      BY <1>0, <1>1, <1>2, <1>3, <1>6 DEF DocIInv, SameOfRev
  <2> QED BY <2>1, DocRevStays
<1>9. DocJobOK' /\ DocSessionOK'
    BY <1>0 DEF DocIInv, DocJobOK, DocSessionOK, DocIs
<1> QED BY <1>7, <1>8, <1>9 DEF DocIInv

LEMMA StopDocumentsKeeps ==
    ASSUME DocIInv, StopDocuments
    PROVE  DocIInv'
<1>0. /\ DocTypeOK /\ docJob' = NoDoc /\ docTodo' = {} /\ docOpen' = FALSE
      /\ docCount.stops < MaxDocStops /\ docCount' = [docCount EXCEPT !.stops = @ + 1]
      /\ UNCHANGED <<docLog, docFile, docIntent, docReceipt, docRefusal,
                     docCharged, docRisked, overtaken>>
    BY DEF DocIInv, StopDocuments, DocEnd, docFiles, docJobs
<1>1. docCount' \in [texts: 0..MaxTexts, asks: 0..MaxDocAsks, stops: 0..MaxDocStops]
  <2>1. docCount \in [texts: 0..MaxTexts, asks: 0..MaxDocAsks, stops: 0..MaxDocStops]
      BY <1>0 DEF DocTypeOK
  <2>2. docCount.stops + 1 \in 0..MaxDocStops
      BY <1>0, <2>1, DocAssumption
  <2> QED BY <1>0, <2>1, <2>2
<1>2. DocTypeOK'
    BY <1>0, <1>1 DEF DocTypeOK
<1>3. \A s \in DocRev : DocRevOK(s)'
  <2> TAKE s \in DocRev
  <2>1. DocRevOK(s) /\ SameOfRev(s)
      BY <1>0 DEF DocIInv, SameOfRev
  <2> QED BY <2>1, DocRevStays
<1>4. DocJobOK' /\ DocSessionOK'
    BY <1>0 DEF DocJobOK, DocSessionOK
<1> QED BY <1>2, <1>3, <1>4 DEF DocIInv

LEMMA OpenDocumentsKeeps ==
    ASSUME DocIInv, OpenDocuments
    PROVE  DocIInv'
<1>0. /\ DocTypeOK /\ docJob = NoDoc /\ docTodo' = DocReady /\ docOpen' = TRUE
      /\ docIntent' = [r \in DocRev |->
            IF r \in DocReady THEN [docIntent[r] EXCEPT !.state = "invoked", !.failed = FALSE]
            ELSE docIntent[r]]
      /\ UNCHANGED <<docLog, docFile, docReceipt, docRefusal, docJob,
                     docCharged, docRisked, overtaken, docCount>>
    BY DEF DocIInv, DocSessionOK, OpenDocuments, docFiles, docPast
<1>1. \A r \in DocReady :
          /\ r \in DocRev /\ GoodReceipt(r) /\ docIntent[r] # NoDoc /\ docIntent[r] \in DocIntent
          /\ DocIs(r, "prepared") \/ DocIs(r, "invoked")
    BY <1>0, DocTypesAre DEF DocReady, DocIs
<1>2. \A r \in DocReady :
          docIntent'[r] \in DocIntent /\ docIntent'[r].state = "invoked"
  <2> TAKE r \in DocReady
  <2>1. docIntent'[r] = [docIntent[r] EXCEPT !.state = "invoked", !.failed = FALSE]
      BY <1>0, <1>1
  <2> QED BY <1>1, <2>1 DEF DocIntent
<1>3. \A r \in DocReady : docIntent'[r] # NoDoc
    BY <1>2, DocAssumption
<1>4. \A r \in DocRev : r \notin DocReady => docIntent'[r] = docIntent[r]
    BY <1>0
<1>5. docIntent' \in [DocRev -> DocIntent \cup {NoDoc}]
  <2>1. \A r \in DocRev : docIntent'[r] \in DocIntent \cup {NoDoc}
      BY <1>0, <1>2, <1>4 DEF DocTypeOK
  <2>2. docIntent' = [r \in DocRev |-> docIntent'[r]]
      BY <1>0
  <2> QED BY <2>1, <2>2
<1>6. DocReady \subseteq DocRev
    BY <1>1
<1>7. DocTypeOK'
    BY <1>0, <1>5, <1>6 DEF DocTypeOK
<1>8. ASSUME NEW r \in DocRev PROVE DocRevOK(r)'
  <2>1. DocRevOK(r)
      BY DEF DocIInv
  <2>2. CASE r \notin DocReady
    <3>1. SameOfRev(r)
        BY <1>0, <1>4, <2>2 DEF SameOfRev
    <3> QED BY <2>1, <3>1, DocRevStays
  <2>3. CASE r \in DocReady
      BY <1>0, <1>1, <1>2, <1>3, <2>1, <2>3
         DEF DocRevOK, LeavesDocTrace, Uncharged, DocIs, GoodReceipt
  <2> QED BY <2>2, <2>3
<1>9. DocJobOK'
    BY <1>0 DEF DocJobOK
<1>10. DocSessionOK'
    BY <1>0, <1>1, <1>2, <1>3 DEF DocSessionOK, DocIs, GoodReceipt
<1> QED BY <1>7, <1>8, <1>9, <1>10 DEF DocIInv

LEMMA RecoverDocumentKeeps ==
    ASSUME DocIInv, NEW r \in DocRev, RecoverDocument(r)
    PROVE  DocIInv'
<1>0. /\ DocTypeOK /\ docOpen /\ r \in docTodo /\ docTodo' = docTodo \ {r} /\ DocRevOK(r)
      /\ docJob' = [rev |-> r, hash |-> docIntent[r].hash, step |-> "attach",
                    answer |-> docReceipt[r]]
      /\ UNCHANGED <<docLog, docFile, docIntent, docReceipt, docRefusal, docOpen,
                     docCharged, docRisked, overtaken, docCount>>
    BY DEF DocIInv, RecoverDocument, docFiles, docJobs, docPast
<1>1. DocIs(r, "invoked") /\ docReceipt[r] # NoDoc /\ docReceipt[r].hash # NoDoc
    BY <1>0 DEF DocIInv, DocSessionOK, DocRevOK
<1>2. docReceipt[r] \in Answer /\ docIntent[r].hash \in DocHash
    BY <1>0, <1>1, DocTypesAre DEF DocIs, DocIntent
<1>3. /\ docJob' \in DocJob /\ docJob'.rev = r /\ docJob'.hash = docIntent[r].hash
      /\ docJob'.step = "attach" /\ docJob'.answer = docReceipt[r]
  <2>1. "attach" \in DocStep
      BY DEF DocStep
  <2> QED BY <1>0, <1>2, <2>1 DEF DocJob
<1>4. docJob'.hash # NoDoc
    BY <1>2, <1>3, DocAssumption
<1>5. DocTypeOK'
    BY <1>0, <1>3 DEF DocTypeOK
<1>6. \A s \in DocRev : DocRevOK(s)'
  <2> TAKE s \in DocRev
  <2>1. DocRevOK(s) /\ SameOfRev(s)
      BY <1>0 DEF DocIInv, SameOfRev
  <2> QED BY <2>1, DocRevStays
<1>7. DocJobOK'
  <2>1. DocCallOK(docJob.rev)'
      BY <1>0, <1>1, <1>3, <1>4 DEF DocCallOK, DocIs
  <2> QED BY <1>0, <1>3, <2>1 DEF DocJobOK
<1>8. DocSessionOK'
    BY <1>0 DEF DocIInv, DocSessionOK, DocIs
<1> QED BY <1>5, <1>6, <1>7, <1>8 DEF DocIInv

LEMMA DocStutterKeeps ==
    ASSUME DocIInv, UNCHANGED docVars
    PROVE  DocIInv'
<1>0. UNCHANGED <<docLog, docFile, docIntent, docReceipt, docRefusal, docJob, docTodo, docOpen,
                  docCharged, docRisked, overtaken, docCount>>
    BY DEF docVars, docFiles, docJobs, docPast
<1>1. \A s \in DocRev : DocRevOK(s)'
  <2> TAKE s \in DocRev
  <2>1. DocRevOK(s) /\ SameOfRev(s)
      BY <1>0 DEF DocIInv, SameOfRev
  <2> QED BY <2>1, DocRevStays
<1>2. DocTypeOK' /\ DocSessionOK'
    BY <1>0 DEF DocIInv, DocTypeOK, DocSessionOK, DocIs
<1>3. DocJobOK'
    BY <1>0 DEF DocIInv, DocJobOK, DocCallOK, NextRev, Uncharged, DocIs
<1> QED BY <1>1, <1>2, <1>3 DEF DocIInv

LEMMA DocStartsWell ==
    ASSUME DocInit
    PROVE  DocIInv
<1>1. docLog \in Seq(DocRecord) /\ Len(docLog) = 0 /\ DOMAIN docLog = {}
    BY DEF DocInit
<1>2. docCount \in [texts: 0..MaxTexts, asks: 0..MaxDocAsks, stops: 0..MaxDocStops]
    BY DocAssumption DEF DocInit
<1>3. DocTypeOK
    BY <1>1, <1>2, DocAssumption DEF DocInit, DocTypeOK
<1>4. \A r \in DocRev : DocRevOK(r)
    BY <1>1 DEF DocInit, DocRevOK, LeavesDocTrace, Uncharged, DocIs
<1>5. DocJobOK /\ DocSessionOK
    BY DEF DocInit, DocJobOK, DocSessionOK
<1> QED BY <1>3, <1>4, <1>5 DEF DocIInv

(* Whatever a command, an edit, a lock, a stop or an open does to the      *)
(* documents, a revision that was paid for leaves a trace the next request *)
(* meets, and every command knows what its steps rely on.                  *)
THEOREM DocInvariance == DocSpec => []DocIInv
<1>1. DocInit => DocIInv
    BY DocStartsWell
<1>2. DocIInv /\ [DocNext]_docVars => DocIInv'
  <2> SUFFICES ASSUME DocIInv, [DocNext]_docVars PROVE DocIInv'
      OBVIOUS
  <2>1. CASE UNCHANGED docVars
      BY <2>1, DocStutterKeeps
  <2>2. CASE \E hash \in DocHash, consent \in BOOLEAN : AskDocument(hash, consent)
      BY <2>2, AskDocumentKeeps
  <2>3. CASE DocSteps
    <3>1. CASE RiskPayingTwice \/ SettleEarlier \/ ForgetRefusal \/ PrepareDocument
               \/ ReadReceipt \/ CountTry
        BY <3>1, RiskPayingTwiceKeeps, SettleEarlierKeeps, ForgetRefusalKeeps,
           PrepareDocumentKeeps, ReadReceiptKeeps, CountTryKeeps
    <3>2. CASE ModelAnswers \/ ModelRefuses \/ ModelAnswerLost
        BY <3>2, ModelAnswersKeeps, ModelRefusesKeeps, ModelAnswerLostKeeps
    <3>3. CASE WriteAnswer \/ WriteDocReceipt \/ SaveAnswered \/ SaveDocFailure \/ DocFails
        BY <3>3, WriteAnswerKeeps, WriteDocReceiptKeeps, SaveAnsweredKeeps,
           SaveDocFailureKeeps, DocFailsKeeps
    <3>4. CASE AttachRevision \/ AcknowledgeDocument \/ RemoveDocReceipt
        BY <3>4, AttachRevisionKeeps, AcknowledgeDocumentKeeps, RemoveDocReceiptKeeps
    <3> QED BY <2>3, <3>1, <3>2, <3>3, <3>4 DEF DocSteps
  <2>4. CASE SaveEdit
      BY <2>4, SaveEditKeeps
  <2>5. CASE \E r \in DocRev : LockRevision(r)
      BY <2>5, LockRevisionKeeps
  <2>6. CASE StopDocuments \/ OpenDocuments
      BY <2>6, StopDocumentsKeeps, OpenDocumentsKeeps
  <2>7. CASE \E r \in DocRev : RecoverDocument(r)
      BY <2>7, RecoverDocumentKeeps
  <2> QED BY <2>1, <2>2, <2>3, <2>4, <2>5, <2>6, <2>7 DEF DocNext
<1> QED BY <1>1, <1>2, PTL DEF DocSpec

(* No model whose calls are charged one by one is paid twice for one       *)
(* revision unless the director risked it, every revision in the log keeps *)
(* the bytes it was recorded with, and an answer an intent speaks of is in *)
(* the log, or can be read back, or lost its number to the director's own  *)
(* edit.                                                                   *)
THEOREM DocumentsArePaidOnce == DocSpec => []DocumentIsPaidOnceAndKept
<1>1. DocIInv => DocumentIsPaidOnceAndKept
  <2> SUFFICES ASSUME DocIInv PROVE DocumentIsPaidOnceAndKept
      OBVIOUS
  <2>1. \A r \in DocRev : DocRevOK(r)
      BY DEF DocIInv
  <2>2. DOMAIN docLog \subseteq DocRev
      BY DocTypesAre DEF DocIInv
  <2> QED BY <2>1, <2>2 DEF DocumentIsPaidOnceAndKept, DocRevOK
<1> QED BY <1>1, DocInvariance, PTL

-----------------------------------------------------------------------------
(* The videos of a shot.                                                   *)

(* The tasks a take may be charged for, but for what the director risked   *)
(* and what the watcher gave up.                                           *)
Charged(c) == TasksOf(c) \ (abandoned \cup misread)

(* Where a charged task is to be found again, whatever is interrupted.     *)
TaskTraced(c, t) ==
    \/ takeRecord[c] # Nil /\ takeRecord[c].clip = t
    \/ videoIntent[c] # Nil /\ ~VideoIs(c, "prepared") /\ videoIntent[c].task = t
    \/ VideoIs(c, "prepared") /\ videoIntent[c].attempts > 0
        /\ \/ AcceptedTask(c, videoIntent[c].hash) = t
           \/ AcceptedTask(c, videoIntent[c].hash) = Nil /\ ~RefusedLast(c)

(* What is true of each take, whoever is at it.                            *)
VideoTakeOK(c) ==
    /\ \A s \in Charged(c), t \in Charged(c) : s = t
    /\ \A t \in Charged(c) : TaskTraced(c, t)
    /\ videoIntent[c] # Nil /\ ~VideoIs(c, "prepared") => videoIntent[c].task # Nil
    /\ VideoIs(c, "reconciled") => takeRecord[c] # Nil
    /\ takeRecord[c] # Nil => c[1] <= videoRevision

(* A watcher follows the task its take was given.                          *)
VideoWatchOK(c) ==
    watch[c] # Nil =>
        /\ VideoIs(c, "invoked") /\ videoIntent[c].task = watch[c].task
        /\ watch[c].step = "ended" => watch[c].task \notin Charged(c)

(* What a request knows of its take at its steps.                          *)
AskedTakeOK(c) ==
    /\ ask.step = "forget" => videoIntent[c] = Nil /\ Charged(c) = {}
    /\ ask.step = "prepare" /\ VideoIs(c, "prepared") =>
          Charged(c) \subseteq {AcceptedTask(c, videoIntent[c].hash)}
    /\ ask.step \notin {"look", "forget", "prepare"} =>
          VideoIs(c, "prepared") /\ videoIntent[c].hash = ask.hash
    /\ ask.step \in {"write", "count", "invoke"} =>
          Charged(c) \subseteq {AcceptedTask(c, ask.hash)}
    /\ ask.step \in {"count", "invoke", "sent", "accepted"} =>
          /\ videoReceipt[c] # Nil /\ videoReceipt[c].hash = ask.hash
          /\ videoReceipt[c].task = Nil => videoReceipt[c].refused = 0
    /\ ask.step \in {"invoke", "sent", "accepted"} => videoIntent[c].attempts > 0
    /\ ask.step \in {"sent", "accepted"} => videoReceipt[c].task = Nil
    /\ ask.step = "sent" => Charged(c) = {}
    /\ ask.step \in {"accepted", "save"} => ask.task # Nil /\ Charged(c) \subseteq {ask.task}

(* Nothing is followed while a request is under way, and the takes it has  *)
(* submitted are those before the one it is at.                            *)
VideoAskOK ==
    /\ ask = Nil => started = {}
    /\ ask # Nil => /\ videosOpen /\ finishing = Nil /\ ask.revision = videoRevision + 1
                    /\ \A c \in Take : watch[c] = Nil
                    /\ ask.at <= ask.count
                    /\ \A c \in started :
                          VideoIs(c, "invoked") /\ c[1] = ask.revision /\ c[2] < ask.at
                    /\ AskedTakeOK(Asked)

(* What the worker knows of the take it finishes.                          *)
VideoFinishOK ==
    finishing # Nil =>
        LET c == finishing.take
        IN  /\ watch[c] = Nil
            /\ finishing.step \in {"acknowledge", "retire"} => VideoIs(c, "invoked")
            /\ finishing.step = "acknowledge" => takeRecord[c] # Nil
            /\ finishing.step = "retire" => videoIntent[c].task \notin Charged(c)
            /\ finishing.step = "remove" => videoIntent[c] = Nil \/ VideoIs(c, "reconciled")

(* Every task accepted is followed, or given up for this session.          *)
VideoFollowOK ==
    /\ ~videosOpen => ask = Nil /\ finishing = Nil /\ \A c \in Take : watch[c] = Nil
    /\ videosOpen => \A c \in Take : VideoIs(c, "invoked") =>
          \/ watch[c] # Nil \/ c \in stranded \/ c \in started
          \/ finishing # Nil /\ finishing.take = c

VideoIInv ==
    /\ VideoTypeOK /\ (\A c \in Take : VideoTakeOK(c) /\ VideoWatchOK(c))
    /\ VideoAskOK /\ VideoFinishOK /\ VideoFollowOK

LEMMA VideoTypesAre ==
    ASSUME VideoTypeOK
    PROVE  /\ \A c \in Take :
                /\ videoIntent[c] # Nil => videoIntent[c] \in VideoIntent
                /\ videoReceipt[c] # Nil => videoReceipt[c] \in VideoReceipt
                /\ takeRecord[c] # Nil => takeRecord[c] \in TakeRecord
                /\ watch[c] # Nil => watch[c] \in Watching
                /\ c[1] \in 1..MaxVideoRevision /\ c[2] \in 1..Takes /\ c = <<c[1], c[2]>>
           /\ ask # Nil => ask \in Ask /\ Asked \in Take
                           /\ Asked[1] = ask.revision /\ Asked[2] = ask.at
           /\ finishing # Nil => finishing \in TakeEnding
<1>1. \A c \in Take : c[1] \in 1..MaxVideoRevision /\ c[2] \in 1..Takes /\ c = <<c[1], c[2]>>
    BY DEF Take
<1>2. ASSUME ask # Nil
      PROVE  /\ ask \in Ask /\ Asked \in Take
             /\ Asked[1] = ask.revision /\ Asked[2] = ask.at
  <2>1. ask \in Ask
      BY <1>2 DEF VideoTypeOK
  <2>2. ask.revision \in 1..MaxVideoRevision /\ ask.at \in 1..Takes
      BY <2>1 DEF Ask
  <2> QED BY <2>1, <2>2 DEF Asked, Take
<1>3. \A c \in Take :
          /\ videoIntent[c] # Nil => videoIntent[c] \in VideoIntent
          /\ videoReceipt[c] # Nil => videoReceipt[c] \in VideoReceipt
          /\ takeRecord[c] # Nil => takeRecord[c] \in TakeRecord
          /\ watch[c] # Nil => watch[c] \in Watching
    BY DEF VideoTypeOK
<1> QED BY <1>1, <1>2, <1>3 DEF VideoTypeOK

(* What a step leaves of a take: less charged at most, the same intent but *)
(* for its failure, the same receipt but for its clip, and its record.     *)
SameIntent(c) ==
    /\ videoIntent'[c] = Nil <=> videoIntent[c] = Nil
    /\ videoIntent[c] # Nil =>
          /\ videoIntent'[c].state = videoIntent[c].state
          /\ videoIntent'[c].attempts = videoIntent[c].attempts
          /\ videoIntent'[c].hash = videoIntent[c].hash
          /\ videoIntent'[c].task = videoIntent[c].task

SameReceipt(c) ==
    /\ videoReceipt'[c] = Nil <=> videoReceipt[c] = Nil
    /\ videoReceipt[c] # Nil =>
          /\ videoReceipt'[c].hash = videoReceipt[c].hash
          /\ videoReceipt'[c].task = videoReceipt[c].task
          /\ videoReceipt'[c].refused = videoReceipt[c].refused

SameOfTake(c) ==
    /\ Charged(c)' \subseteq Charged(c)
    /\ SameIntent(c)
    /\ VideoIs(c, "prepared") => SameReceipt(c)
    /\ takeRecord[c] # Nil => takeRecord'[c] = takeRecord[c]
    /\ takeRecord'[c] # Nil => c[1] <= videoRevision'

LEMMA VideoTakeStays ==
    ASSUME NEW c, VideoTakeOK(c), SameOfTake(c)
    PROVE  VideoTakeOK(c)'
<1>1. VideoIs(c, "prepared")' <=> VideoIs(c, "prepared")
    BY DEF SameOfTake, SameIntent, VideoIs
<1>2. ASSUME NEW t \in Charged(c)' PROVE TaskTraced(c, t)'
  <2>1. t \in Charged(c) /\ TaskTraced(c, t)
      BY <1>2 DEF SameOfTake, VideoTakeOK
  <2>2. CASE takeRecord[c] # Nil /\ takeRecord[c].clip = t
      BY <2>2 DEF SameOfTake, TaskTraced
  <2>3. CASE videoIntent[c] # Nil /\ ~VideoIs(c, "prepared") /\ videoIntent[c].task = t
      BY <2>3, <1>1 DEF SameOfTake, SameIntent, TaskTraced
  <2>4. CASE /\ VideoIs(c, "prepared") /\ videoIntent[c].attempts > 0
             /\ \/ AcceptedTask(c, videoIntent[c].hash) = t
                \/ AcceptedTask(c, videoIntent[c].hash) = Nil /\ ~RefusedLast(c)
    <3>1. SameReceipt(c) /\ SameIntent(c) /\ videoIntent[c] # Nil
        BY <2>4 DEF SameOfTake, VideoIs
    <3>2. AcceptedTask(c, videoIntent[c].hash)' = AcceptedTask(c, videoIntent[c].hash)
        BY <3>1 DEF SameReceipt, SameIntent, AcceptedTask
    <3>3. RefusedLast(c)' <=> RefusedLast(c)
        BY <3>1 DEF SameReceipt, SameIntent, RefusedLast
    <3>4. videoIntent'[c].attempts > 0
        BY <2>4, <3>1 DEF SameIntent
    <3> QED BY <2>4, <1>1, <3>2, <3>3, <3>4 DEF TaskTraced
  <2> QED BY <2>1, <2>2, <2>3, <2>4 DEF TaskTraced
<1>3. \A s \in Charged(c)', t \in Charged(c)' : s = t
    BY DEF SameOfTake, VideoTakeOK
<1>4. /\ videoIntent'[c] # Nil /\ ~VideoIs(c, "prepared")' => videoIntent'[c].task # Nil
      /\ VideoIs(c, "reconciled")' => takeRecord'[c] # Nil
      /\ takeRecord'[c] # Nil => c[1] <= videoRevision'
    BY <1>1 DEF SameOfTake, SameIntent, VideoTakeOK, VideoIs
<1> QED BY <1>2, <1>3, <1>4 DEF VideoTakeOK

(* What counts as charged only shrinks while no task is made.              *)
LEMMA ChargedStays ==
    ASSUME NEW c, UNCHANGED task, abandoned \subseteq abandoned', misread \subseteq misread'
    PROVE  Charged(c)' \subseteq Charged(c)
BY DEF Charged, TasksOf, MayCharge

LEMMA SameWhenUnchanged ==
    ASSUME NEW c, VideoTakeOK(c), UNCHANGED <<task, abandoned, misread, takeRecord, videoRevision>>,
           videoIntent'[c] = videoIntent[c], videoReceipt'[c] = videoReceipt[c]
    PROVE  SameOfTake(c)
BY ChargedStays DEF SameOfTake, SameIntent, SameReceipt, VideoTakeOK

(* A step of a request at its take, which goes on with the take.           *)
LEMMA AskStepKeeps ==
    ASSUME VideoIInv, ask # Nil, VideoTypeOK', NEW c \in Take, c = Asked,
           \A d \in Take : d # c => SameOfTake(d), VideoTakeOK(c)',
           ask' # Nil, ask'.revision = ask.revision, ask'.at = ask.at, ask'.count = ask.count,
           AskedTakeOK(c)', VideoIs(c, "invoked")' => VideoIs(c, "invoked"),
           UNCHANGED <<videoRevision, started, watch, finishing, videosOpen, stranded>>
    PROVE  VideoIInv'
<1>0. /\ VideoTypeOK /\ VideoAskOK /\ VideoFollowOK
      /\ \A d \in Take : VideoTakeOK(d) /\ VideoWatchOK(d)
    BY DEF VideoIInv
<1>1. Asked' = c /\ c[2] = ask.at
    BY <1>0, VideoTypesAre DEF Asked
<1>2. \A d \in Take : d # c => (VideoIs(d, "invoked")' <=> VideoIs(d, "invoked"))
    BY DEF SameOfTake, SameIntent, VideoIs
<1>3. started \subseteq Take /\ c \notin started
  <2>1. ask.at \in Nat
      BY <1>0, VideoTypesAre DEF Ask
  <2> QED BY <1>0, <1>1, <2>1 DEF VideoAskOK, VideoTypeOK
<1>4. \A d \in Take : VideoTakeOK(d)'
    BY <1>0, VideoTakeStays
<1>5. \A d \in Take : VideoWatchOK(d)'
    BY <1>0 DEF VideoAskOK, VideoWatchOK
<1>6. VideoAskOK'
  <2>1. \A d \in started' : VideoIs(d, "invoked")' /\ d[1] = ask'.revision /\ d[2] < ask'.at
      BY <1>0, <1>2, <1>3 DEF VideoAskOK
  <2>2. AskedTakeOK(Asked)'
      BY <1>1 DEF AskedTakeOK
  <2> QED BY <1>0, <2>1, <2>2 DEF VideoAskOK
<1>7. VideoFinishOK'
    BY <1>0 DEF VideoAskOK, VideoFinishOK
<1>8. VideoFollowOK'
    BY <1>0, <1>2 DEF VideoFollowOK, VideoAskOK
<1> QED BY <1>4, <1>5, <1>6, <1>7, <1>8 DEF VideoIInv

(* Those submitted are followed.                                           *)
LEMMA FollowStartedIs ==
    ASSUME VideoIInv, ask # Nil
    PROVE  /\ FollowStarted(started) \in [Take -> Watching \cup {Nil}]
           /\ \A c \in Take : c \notin started => FollowStarted(started)[c] = Nil
           /\ \A c \in started : /\ c \in Take /\ FollowStarted(started)[c] # Nil
                                 /\ FollowStarted(started)[c].task = videoIntent[c].task
                                 /\ FollowStarted(started)[c].step = "asking"
<1>1. /\ VideoTypeOK /\ started \subseteq Take /\ \A c \in Take : watch[c] = Nil /\ VideoTakeOK(c)
      /\ \A c \in started : VideoIs(c, "invoked")
    BY DEF VideoIInv, VideoAskOK, VideoTypeOK
<1>2. \A c \in started : videoIntent[c].task \in TaskIds
  <2> TAKE c \in started
  <2>1. c \in Take /\ videoIntent[c] # Nil /\ videoIntent[c].task # Nil
      BY <1>1 DEF VideoTakeOK, VideoIs
  <2>2. videoIntent[c] \in VideoIntent
      BY <1>1, <2>1, VideoTypesAre
  <2> QED BY <2>1, <2>2 DEF VideoIntent
<1>3. \A c \in Take : FollowStarted(started)[c] =
          IF c \in started THEN [task |-> videoIntent[c].task, step |-> "asking"] ELSE Nil
    BY <1>1 DEF FollowStarted
<1>4. \A c \in started : /\ FollowStarted(started)[c] \in Watching
                         /\ FollowStarted(started)[c].task = videoIntent[c].task
                         /\ FollowStarted(started)[c].step = "asking"
  <2> TAKE c \in started
  <2>1. PICK w : w = [task |-> videoIntent[c].task, step |-> "asking"]
      OBVIOUS
  <2>2. w \in Watching /\ w.task = videoIntent[c].task /\ w.step = "asking"
      BY <1>2, <2>1 DEF Watching
  <2>3. FollowStarted(started)[c] = w
      BY <1>1, <1>3, <2>1
  <2> QED BY <2>2, <2>3
<1>5. \A c \in started : FollowStarted(started)[c] # Nil
    BY <1>4, VideoAssumption
<1>6. FollowStarted(started) \in [Take -> Watching \cup {Nil}]
  <2>1. FollowStarted(started) = [c \in Take |-> FollowStarted(started)[c]]
      BY DEF FollowStarted
  <2>2. \A c \in Take : FollowStarted(started)[c] \in Watching \cup {Nil}
      BY <1>1, <1>3, <1>4
  <2> QED BY <2>1, <2>2
<1> QED BY <1>1, <1>3, <1>4, <1>5, <1>6

(* The request ends, and the takes before the one it is at are followed.   *)
LEMMA StopAskingKeeps ==
    ASSUME VideoIInv, ask # Nil, StopAsking, \A c \in Take : SameOfTake(c),
           videoIntent' \in [Take -> VideoIntent \cup {Nil}],
           UNCHANGED <<videoRevision, takeRecord, clipFile, videoReceipt, task, finishing,
                       videosOpen, stranded, abandoned, misread, videoCount>>
    PROVE  VideoIInv'
<1>0. /\ VideoTypeOK /\ VideoAskOK /\ VideoFollowOK
      /\ \A c \in Take : VideoTakeOK(c)
      /\ ask' = Nil /\ started' = {} /\ watch' = FollowStarted(started)
    BY DEF VideoIInv, StopAsking
<1>1. /\ watch' \in [Take -> Watching \cup {Nil}]
      /\ \A c \in Take : c \notin started => watch'[c] = Nil
      /\ \A c \in started : /\ c \in Take /\ watch'[c] # Nil
                            /\ watch'[c].task = videoIntent[c].task
                            /\ watch'[c].step = "asking"
    BY <1>0, FollowStartedIs
<1>2. VideoTypeOK'
    BY <1>0, <1>1 DEF VideoTypeOK
<1>3. \A c \in Take : VideoTakeOK(c)'
    BY <1>0, VideoTakeStays
<1>4. \A c \in Take : VideoIs(c, "invoked")' <=> VideoIs(c, "invoked")
    BY DEF SameOfTake, SameIntent, VideoIs
<1>5. \A c \in Take : VideoWatchOK(c)'
  <2> TAKE c \in Take
  <2>1. CASE c \in started
    <3>1. VideoIs(c, "invoked") /\ videoIntent[c] # Nil
        BY <1>0, <2>1 DEF VideoAskOK, VideoIs
    <3> QED BY <1>1, <1>4, <2>1, <3>1 DEF VideoWatchOK, SameOfTake, SameIntent
  <2>2. CASE c \notin started
      BY <1>1, <2>2 DEF VideoWatchOK
  <2> QED BY <2>1, <2>2
<1>6. VideoAskOK' /\ VideoFinishOK'
    BY <1>0 DEF VideoAskOK, VideoFinishOK
<1>7. VideoFollowOK'
    BY <1>0, <1>1, <1>4 DEF VideoFollowOK, VideoAskOK
<1> QED BY <1>2, <1>3, <1>5, <1>6, <1>7 DEF VideoIInv

(* The take is submitted, and the request goes on to the next or ends.     *)
LEMMA SubmittedKeeps ==
    ASSUME VideoIInv, ask # Nil, NEW c \in Take, c = Asked, NEW t \in TaskIds, Submitted(c, t),
           \A d \in Take : d # c => SameOfTake(d), VideoTakeOK(c)',
           videoIntent' \in [Take -> VideoIntent \cup {Nil}],
           VideoIs(c, "invoked")', videoIntent'[c].task = t,
           UNCHANGED <<videoRevision, takeRecord, clipFile, videoReceipt, task, finishing,
                       videosOpen, stranded, abandoned, misread, videoCount>>
    PROVE  VideoIInv'
<1>0. /\ VideoTypeOK /\ VideoAskOK /\ VideoFollowOK
      /\ \A d \in Take : VideoTakeOK(d) /\ watch[d] = Nil
    BY DEF VideoIInv, VideoAskOK
<1>1. /\ ask \in Ask /\ c[1] = ask.revision /\ c[2] = ask.at /\ ask.at \in Nat
      /\ ask.count \in 1..Takes /\ started \subseteq Take /\ c \notin started
  <2>1. ask \in Ask /\ c[1] = ask.revision /\ c[2] = ask.at
      BY <1>0, VideoTypesAre
  <2>2. ask.at \in Nat /\ ask.count \in 1..Takes
      BY <2>1 DEF Ask
  <2> QED BY <1>0, <2>1, <2>2 DEF VideoAskOK, VideoTypeOK
<1>2. \A d \in Take : d # c => (VideoIs(d, "invoked")' <=> VideoIs(d, "invoked"))
    BY DEF SameOfTake, SameIntent, VideoIs
<1>3. \A d \in Take : VideoTakeOK(d)'
    BY <1>0, VideoTakeStays
<1>4. CASE ask.at < ask.count
  <2>1. /\ ask' = [ask EXCEPT !.at = @ + 1, !.step = "look", !.task = Nil]
        /\ started' = started \cup {c} /\ watch' = watch
      BY <1>4 DEF Submitted
  <2>2. ask.at + 1 \in 1..Takes /\ ask.at + 1 <= ask.count
      BY <1>1, <1>4, VideoAssumption
  <2>3. /\ ask' \in Ask /\ ask'.at = ask.at + 1 /\ ask'.step = "look"
        /\ ask'.revision = ask.revision /\ ask'.count = ask.count
    <3>1. "look" \in AskStep
        BY DEF AskStep
    <3> QED BY <1>1, <2>1, <2>2, <3>1 DEF Ask
  <2>4. ask' # Nil
      BY <2>3, VideoAssumption
  <2>5. VideoTypeOK'
      BY <1>0, <2>1, <2>3 DEF VideoTypeOK
  <2>6. \A d \in Take : VideoWatchOK(d)'
      BY <1>0, <2>1 DEF VideoWatchOK
  <2>7. \A d \in started' : VideoIs(d, "invoked")' /\ d[1] = ask'.revision /\ d[2] < ask'.at
    <3> TAKE d \in started'
    <3>1. CASE d = c
        BY <1>1, <2>3, <3>1
    <3>2. CASE d # c
      <4>1. d \in started /\ d \in Take /\ VideoIs(d, "invoked")
            /\ d[1] = ask.revision /\ d[2] < ask.at
          BY <1>0, <1>1, <2>1, <3>2 DEF VideoAskOK
      <4>2. d[2] \in Nat
          BY <1>0, <4>1, VideoTypesAre
      <4> QED BY <1>1, <1>2, <2>3, <3>2, <4>1, <4>2
    <3> QED BY <3>1, <3>2
  <2>8. AskedTakeOK(Asked)'
      BY <2>3 DEF AskedTakeOK
  <2>9. VideoAskOK'
      BY <1>0, <2>1, <2>2, <2>3, <2>4, <2>7, <2>8 DEF VideoAskOK
  <2>10. VideoFinishOK' /\ VideoFollowOK'
      BY <1>0, <1>2, <2>1 DEF VideoFinishOK, VideoFollowOK, VideoAskOK
  <2> QED BY <1>3, <2>5, <2>6, <2>9, <2>10 DEF VideoIInv
<1>5. CASE ~(ask.at < ask.count)
  <2>1. /\ ask' = Nil /\ started' = {}
        /\ watch' = [FollowStarted(started) EXCEPT ![c] = [task |-> t, step |-> "asking"]]
      BY <1>5 DEF Submitted
  <2>2. PICK w : w = [task |-> t, step |-> "asking"]
      OBVIOUS
  <2>3. w \in Watching /\ w.task = t /\ w.step = "asking"
      BY <2>2 DEF Watching
  <2>4. w # Nil
      BY <2>3, VideoAssumption
  <2>5. PICK follow : follow = FollowStarted(started)
      OBVIOUS
  <2>6. /\ follow \in [Take -> Watching \cup {Nil}]
        /\ \A d \in Take : d \notin started => follow[d] = Nil
        /\ \A d \in started : /\ d \in Take /\ follow[d] # Nil
                              /\ follow[d].task = videoIntent[d].task
                              /\ follow[d].step = "asking"
      BY <2>5, FollowStartedIs
  <2>7. /\ watch' \in [Take -> Watching \cup {Nil}] /\ watch'[c] = w
        /\ \A d \in Take : d # c => watch'[d] = follow[d]
      BY <2>1, <2>2, <2>3, <2>5, <2>6
  <2>8. VideoTypeOK'
      BY <1>0, <2>1, <2>7 DEF VideoTypeOK
  <2>9. \A d \in Take : VideoWatchOK(d)'
    <3> TAKE d \in Take
    <3>1. CASE d = c
        BY <2>3, <2>7, <3>1 DEF VideoWatchOK
    <3>2. CASE d # c /\ d \in started
      <4>1. VideoIs(d, "invoked") /\ videoIntent[d] # Nil
          BY <1>0, <3>2 DEF VideoAskOK, VideoIs
      <4> QED BY <1>2, <2>6, <2>7, <3>2, <4>1 DEF VideoWatchOK, SameOfTake, SameIntent
    <3>3. CASE d # c /\ d \notin started
        BY <2>6, <2>7, <3>3 DEF VideoWatchOK
    <3> QED BY <3>1, <3>2, <3>3
  <2>10. VideoAskOK' /\ VideoFinishOK'
      BY <1>0, <2>1 DEF VideoAskOK, VideoFinishOK
  <2>11. VideoFollowOK'
      BY <1>0, <1>2, <2>4, <2>6, <2>7 DEF VideoFollowOK, VideoAskOK
  <2> QED BY <1>3, <2>8, <2>9, <2>10, <2>11 DEF VideoIInv
<1> QED BY <1>4, <1>5

(* What a request may count on, whatever its step.                         *)
LEMMA AskIs ==
    ASSUME VideoIInv, ask # Nil
    PROVE  /\ VideoTypeOK /\ ask \in Ask /\ Asked \in Take /\ AskedTakeOK(Asked)
           /\ takeRecord[Asked] = Nil
           /\ \A d \in Take : VideoTakeOK(d)
<1>1. /\ VideoTypeOK /\ AskedTakeOK(Asked) /\ ask.revision = videoRevision + 1
      /\ \A d \in Take : VideoTakeOK(d)
    BY DEF VideoIInv, VideoAskOK
<1>2. ask \in Ask /\ Asked \in Take /\ Asked[1] = ask.revision
    BY <1>1, VideoTypesAre
<1>3. videoRevision \in Nat
    BY <1>1, VideoAssumption DEF VideoTypeOK
<1> QED BY <1>1, <1>2, <1>3 DEF VideoTakeOK

LEMMA AskStepIs ==
    ASSUME ask \in Ask, NEW next \in AskStep, Step(next)
    PROVE  /\ ask' \in Ask /\ ask' # Nil /\ ask'.step = next
           /\ ask'.revision = ask.revision /\ ask'.at = ask.at /\ ask'.count = ask.count
           /\ ask'.hash = ask.hash /\ ask'.task = ask.task
           /\ Asked' = Asked /\ UNCHANGED <<started, watch>>
<1>1. ask' = [ask EXCEPT !.step = next] /\ UNCHANGED <<started, watch>>
    BY DEF Step
<1>2. /\ ask' \in Ask /\ ask'.step = next
      /\ ask'.revision = ask.revision /\ ask'.at = ask.at /\ ask'.count = ask.count
      /\ ask'.hash = ask.hash /\ ask'.task = ask.task
    BY <1>1 DEF Ask
<1> QED BY <1>1, <1>2, VideoAssumption DEF Asked

(* A prepared take whose last submission is resolved is charged only for   *)
(* the task its receipt holds.                                             *)
LEMMA ChargedOfPrepared ==
    ASSUME VideoTypeOK, NEW c \in Take, VideoTakeOK(c), takeRecord[c] = Nil,
           VideoIs(c, "prepared"), LastAttempt(c) # "unresolved"
    PROVE  /\ Charged(c) \subseteq {AcceptedTask(c, videoIntent[c].hash)}
           /\ LastAttempt(c) \in {"none", "refused"} => Charged(c) = {}
<1>1. videoIntent[c] # Nil /\ videoIntent[c].attempts \in Nat
  <2>1. videoIntent[c] # Nil /\ videoIntent[c] \in VideoIntent
      BY VideoTypesAre DEF VideoIs
  <2> QED BY <2>1, VideoAssumption DEF VideoIntent
<1>2. \A t \in Charged(c) : t \in TaskIds /\ t # Nil /\ TaskTraced(c, t)
    BY VideoAssumption DEF Charged, TasksOf, VideoTakeOK
<1>3. \A t \in Charged(c) :
          /\ videoIntent[c].attempts > 0
          /\ \/ AcceptedTask(c, videoIntent[c].hash) = t
             \/ AcceptedTask(c, videoIntent[c].hash) = Nil /\ ~RefusedLast(c)
    BY <1>2 DEF TaskTraced
<1>4. CASE videoIntent[c].attempts = 0
    BY <1>3, <1>4
<1>5. CASE videoIntent[c].attempts > 0 /\ AcceptedTask(c, videoIntent[c].hash) # Nil
  <2>1. LastAttempt(c) = "accepted"
      BY <1>1, <1>5 DEF LastAttempt
  <2> QED BY <1>3, <1>5, <2>1
<1>6. CASE videoIntent[c].attempts > 0 /\ AcceptedTask(c, videoIntent[c].hash) = Nil
  <2>1. LastAttempt(c) = IF RefusedLast(c) THEN "refused" ELSE "unresolved"
      BY <1>1, <1>6 DEF LastAttempt
  <2>2. RefusedLast(c)
      BY <2>1
  <2> QED BY <1>2, <1>3, <1>6, <2>2
<1> QED BY <1>1, <1>4, <1>5, <1>6

LEMMA AskVideosKeeps ==
    ASSUME VideoIInv, NEW count \in 1..Takes, NEW hash \in Works, NEW consent \in BOOLEAN,
           AskVideos(count, hash, consent)
    PROVE  VideoIInv'
<1>0. /\ VideoTypeOK /\ VideoAskOK /\ VideoFollowOK
      /\ \A d \in Take : VideoTakeOK(d)
      /\ ask = Nil /\ finishing = Nil /\ started = {} /\ videosOpen
      /\ \A d \in Take : watch[d] = Nil
    BY DEF VideoIInv, VideoAskOK, AskVideos, FollowsTake
<1>1. /\ ask' = [revision |-> videoRevision + 1, hash |-> hash, count |-> count,
                 consent |-> consent, at |-> 1, step |-> "look", task |-> Nil]
      /\ videoCount' = [videoCount EXCEPT !.asks = @ + 1]
      /\ videoCount.asks < MaxAsks /\ videoRevision < MaxVideoRevision
      /\ UNCHANGED <<videoFiles, videoJobs, task, started, watch, finishing, videosOpen,
                     stranded, abandoned, misread>>
    BY DEF AskVideos
<1>2. videoRevision + 1 \in 1..MaxVideoRevision /\ 1 \in 1..Takes /\ 1 <= count
    BY <1>0, <1>1, VideoAssumption DEF VideoTypeOK
<1>3. PICK new : new = [revision |-> videoRevision + 1, hash |-> hash, count |-> count,
                        consent |-> consent, at |-> 1, step |-> "look", task |-> Nil]
    OBVIOUS
<1>4. /\ new \in Ask /\ new.step = "look" /\ new.revision = videoRevision + 1
      /\ new.at = 1 /\ new.count = count
  <2>1. "look" \in AskStep
      BY DEF AskStep
  <2> QED BY <1>2, <1>3, <2>1 DEF Ask
<1>5. ask' = new /\ new # Nil
    BY <1>1, <1>3, <1>4, VideoAssumption
<1>6. videoCount' \in [asks: 0..MaxAsks, stops: 0..MaxStops]
  <2>1. videoCount \in [asks: 0..MaxAsks, stops: 0..MaxStops]
      BY <1>0 DEF VideoTypeOK
  <2>2. videoCount.asks + 1 \in 0..MaxAsks
      BY <2>1, <1>1, VideoAssumption
  <2> QED BY <1>1, <2>1, <2>2
<1>7. VideoTypeOK'
    BY <1>0, <1>1, <1>4, <1>5, <1>6 DEF VideoTypeOK, videoFiles, videoJobs
<1>8. \A d \in Take : SameOfTake(d)
    BY <1>0, <1>1, SameWhenUnchanged DEF videoFiles, videoJobs
<1>9. \A d \in Take : VideoTakeOK(d)' /\ VideoWatchOK(d)'
    BY <1>0, <1>1, <1>8, VideoTakeStays DEF VideoWatchOK
<1>10. VideoAskOK'
  <2>1. AskedTakeOK(Asked)'
      BY <1>4, <1>5 DEF AskedTakeOK
  <2> QED BY <1>0, <1>1, <1>2, <1>4, <1>5, <2>1 DEF VideoAskOK, videoFiles
<1>11. VideoFinishOK' /\ VideoFollowOK'
    BY <1>0, <1>1 DEF VideoFinishOK, VideoFollowOK, VideoIs, videoJobs
<1> QED BY <1>7, <1>9, <1>10, <1>11 DEF VideoIInv

LEMMA LookAtTakeKeeps ==
    ASSUME VideoIInv, LookAtTake
    PROVE  VideoIInv'
<1>c. PICK c : c = Asked
    OBVIOUS
<1>0. /\ ask # Nil /\ ask.step = "look"
      /\ UNCHANGED <<videoRevision, takeRecord, clipFile, videoReceipt, task, finishing,
                     videosOpen, stranded, misread, videoCount>>
    BY DEF LookAtTake, At, AskKeeps, videoFiles
<1>1. /\ VideoTypeOK /\ ask \in Ask /\ c \in Take /\ AskedTakeOK(c) /\ takeRecord[c] = Nil
      /\ \A d \in Take : VideoTakeOK(d)
    BY <1>0, <1>c, AskIs
<1>2. CASE /\ \/ ~VideoIs(c, "prepared")
              \/ /\ VideoIs(c, "prepared")
                 /\ \/ LastAttempt(c) = "accepted"
                    \/ LastAttempt(c) = "none" /\ videoIntent[c].hash = ask.hash
                    \/ LastAttempt(c) = "refused" /\ ~videoIntent[c].failed
           /\ Step("prepare")
           /\ UNCHANGED <<videoIntent, abandoned>>
  <2>1. /\ ask' \in Ask /\ ask' # Nil /\ ask'.step = "prepare"
        /\ ask'.revision = ask.revision /\ ask'.at = ask.at /\ ask'.count = ask.count
        /\ UNCHANGED <<started, watch>>
    <3>1. "prepare" \in AskStep
        BY DEF AskStep
    <3> QED BY <1>1, <1>2, <3>1, AskStepIs
  <2>2. \A d \in Take : SameOfTake(d)
      BY <1>0, <1>1, <1>2, SameWhenUnchanged
  <2>3. VideoTakeOK(c)'
      BY <1>1, <2>2, VideoTakeStays
  <2>4. VideoIs(c, "prepared") => Charged(c) \subseteq {AcceptedTask(c, videoIntent[c].hash)}
      BY <1>1, <1>2, ChargedOfPrepared
  <2>5. AskedTakeOK(c)'
      BY <1>0, <1>2, <2>1, <2>4
         DEF AskedTakeOK, VideoIs, Charged, TasksOf, MayCharge, AcceptedTask
  <2>6. VideoTypeOK'
      BY <1>0, <1>1, <1>2, <2>1 DEF VideoTypeOK
  <2> QED BY <1>0, <1>1, <1>2, <2>1, <2>2, <2>3, <2>5, <2>6, <1>c, AskStepKeeps DEF VideoIs
<1>3. CASE /\ VideoIs(c, "prepared")
           /\ \/ LastAttempt(c) = "none" /\ videoIntent[c].hash # ask.hash
              \/ LastAttempt(c) = "refused" /\ videoIntent[c].failed
              \/ MayRetire(c)
           /\ videoIntent' = [videoIntent EXCEPT ![c] = Nil]
           /\ abandoned' = IF LastAttempt(c) = "unresolved" /\ ask.consent
                           THEN abandoned \cup TasksOf(c) ELSE abandoned
           /\ Step("forget")
  <2>1. /\ ask' \in Ask /\ ask' # Nil /\ ask'.step = "forget"
        /\ ask'.revision = ask.revision /\ ask'.at = ask.at /\ ask'.count = ask.count
        /\ UNCHANGED <<started, watch>>
    <3>1. "forget" \in AskStep
        BY DEF AskStep
    <3> QED BY <1>1, <1>3, <3>1, AskStepIs
  <2>2. /\ videoIntent' \in [Take -> VideoIntent \cup {Nil}] /\ videoIntent'[c] = Nil
        /\ \A d \in Take : d # c => videoIntent'[d] = videoIntent[d]
      BY <1>1, <1>3 DEF VideoTypeOK
  <2>3. abandoned \subseteq abandoned' /\ abandoned' \subseteq TaskIds
      BY <1>1, <1>3 DEF VideoTypeOK, TasksOf
  <2>4. Charged(c)' = {}
    <3>1. CASE LastAttempt(c) \in {"none", "refused"}
      <4>1. Charged(c) = {}
          BY <1>1, <1>3, <3>1, ChargedOfPrepared
      <4> QED BY <1>0, <2>3, <4>1, ChargedStays
    <3>2. CASE MayRetire(c)
      <4>1. abandoned' = abandoned \cup TasksOf(c)
          BY <1>3, <3>2 DEF MayRetire
      <4>2. TasksOf(c)' = TasksOf(c)
          BY <1>0 DEF TasksOf, MayCharge
      <4> QED BY <4>1, <4>2 DEF Charged
    <3> QED BY <1>3, <3>1, <3>2
  <2>5. \A d \in Take : d # c => SameOfTake(d)
    <3> TAKE d \in Take
    <3>1. Charged(d)' \subseteq Charged(d)
        BY <1>0, <2>3, ChargedStays
    <3> QED BY <1>0, <1>1, <2>2, <3>1 DEF SameOfTake, SameIntent, SameReceipt, VideoTakeOK
  <2>6. VideoTakeOK(c)'
      BY <1>0, <1>1, <2>2, <2>4 DEF VideoTakeOK, VideoIs
  <2>7. AskedTakeOK(c)'
      BY <2>1, <2>2, <2>4 DEF AskedTakeOK
  <2>8. VideoTypeOK'
      BY <1>0, <1>1, <2>1, <2>2, <2>3 DEF VideoTypeOK
  <2>9. ~VideoIs(c, "invoked")'
      BY <2>2 DEF VideoIs
  <2> QED BY <1>0, <1>1, <2>1, <2>5, <2>6, <2>7, <2>8, <2>9, <1>c, AskStepKeeps
<1>4. CASE /\ VideoIs(c, "prepared") /\ LastAttempt(c) = "unresolved" /\ ~MayRetire(c)
           /\ StopAsking
           /\ UNCHANGED <<videoIntent, abandoned>>
  <2>1. \A d \in Take : SameOfTake(d)
      BY <1>0, <1>1, <1>4, SameWhenUnchanged
  <2> QED BY <1>0, <1>1, <1>4, <2>1, StopAskingKeeps DEF VideoTypeOK
<1> QED BY <1>2, <1>3, <1>4, <1>c, Zenon DEF LookAtTake

LEMMA ForgetReceiptKeeps ==
    ASSUME VideoIInv, ForgetReceipt
    PROVE  VideoIInv'
<1>c. PICK c : c = Asked
    OBVIOUS
<1>0. /\ ask # Nil /\ ask.step = "forget" /\ Step("prepare")
      /\ \/ videoReceipt' = [videoReceipt EXCEPT ![c] = Nil]
         \/ UNCHANGED videoReceipt
      /\ UNCHANGED <<videoRevision, takeRecord, clipFile, videoIntent, task, finishing,
                     videosOpen, stranded, abandoned, misread, videoCount>>
    BY <1>c DEF ForgetReceipt, At, AskKeeps, videoFiles
<1>1. /\ VideoTypeOK /\ ask \in Ask /\ c \in Take /\ AskedTakeOK(c) /\ takeRecord[c] = Nil
      /\ \A d \in Take : VideoTakeOK(d)
    BY <1>0, <1>c, AskIs
<1>2. videoIntent[c] = Nil
    BY <1>0, <1>1 DEF AskedTakeOK
<1>3. /\ ask' \in Ask /\ ask' # Nil /\ ask'.step = "prepare"
      /\ ask'.revision = ask.revision /\ ask'.at = ask.at /\ ask'.count = ask.count
      /\ UNCHANGED <<started, watch>>
  <2>1. "prepare" \in AskStep
      BY DEF AskStep
  <2> QED BY <1>0, <1>1, <2>1, AskStepIs
<1>4. /\ videoReceipt' \in [Take -> VideoReceipt \cup {Nil}]
      /\ \A d \in Take : d # c => videoReceipt'[d] = videoReceipt[d]
    BY <1>0, <1>1 DEF VideoTypeOK
<1>5. \A d \in Take : d # c => SameOfTake(d)
    BY <1>0, <1>1, <1>4, SameWhenUnchanged
<1>6. SameOfTake(c)
  <2>1. Charged(c)' \subseteq Charged(c)
      BY <1>0, ChargedStays
  <2> QED BY <1>0, <1>1, <1>2, <2>1 DEF SameOfTake, SameIntent, VideoIs
<1>7. VideoTakeOK(c)'
    BY <1>1, <1>6, VideoTakeStays
<1>8. AskedTakeOK(c)'
    BY <1>0, <1>2, <1>3 DEF AskedTakeOK, VideoIs
<1>9. VideoTypeOK'
    BY <1>0, <1>1, <1>3, <1>4 DEF VideoTypeOK
<1> QED BY <1>0, <1>1, <1>3, <1>5, <1>7, <1>8, <1>9, <1>c, AskStepKeeps DEF VideoIs

LEMMA PrepareTakeKeeps ==
    ASSUME VideoIInv, PrepareTake
    PROVE  VideoIInv'
<1>c. PICK c : c = Asked
    OBVIOUS
<1>0. /\ ask # Nil /\ ask.step = "prepare"
      /\ UNCHANGED <<videoRevision, takeRecord, clipFile, videoReceipt, task, finishing,
                     videosOpen, stranded, abandoned, misread, videoCount>>
    BY DEF PrepareTake, At, AskKeeps, videoFiles
<1>1. /\ VideoTypeOK /\ ask \in Ask /\ c \in Take /\ AskedTakeOK(c) /\ takeRecord[c] = Nil
      /\ \A d \in Take : VideoTakeOK(d)
    BY <1>0, <1>c, AskIs
<1>2. \/ /\ videoIntent[c] = Nil
         /\ videoIntent' = [videoIntent EXCEPT ![c] =
               [state |-> "prepared", attempts |-> 0, failed |-> FALSE,
                hash |-> ask.hash, task |-> Nil]]
         /\ Step("write")
      \/ /\ VideoIs(c, "prepared") /\ videoIntent[c].hash = ask.hash
         /\ Step("write") /\ UNCHANGED videoIntent
      \/ /\ VideoIs(c, "invoked")
         /\ Submitted(c, videoIntent[c].task) /\ UNCHANGED videoIntent
      \/ StopAsking /\ UNCHANGED videoIntent
    BY <1>c, Zenon DEF PrepareTake, VideoIs
<1>3. CASE Step("write")
  <2>1. /\ ask' \in Ask /\ ask' # Nil /\ ask'.step = "write" /\ ask'.hash = ask.hash
        /\ ask'.revision = ask.revision /\ ask'.at = ask.at /\ ask'.count = ask.count
        /\ UNCHANGED <<started, watch>>
    <3>1. "write" \in AskStep
        BY DEF AskStep
    <3> QED BY <1>1, <1>3, <3>1, AskStepIs
  <2>2. ~Submitted(c, videoIntent[c].task) /\ ~StopAsking
    <3>1. ask'.step # "look"
        BY <2>1
    <3>2. Submitted(c, videoIntent[c].task) => \/ ask' = Nil
              \/ ask' = [ask EXCEPT !.at = @ + 1, !.step = "look", !.task = Nil]
        BY Zenon DEF Submitted
    <3>3. [ask EXCEPT !.at = @ + 1, !.step = "look", !.task = Nil].step = "look"
        BY <1>1 DEF Ask
    <3>4. StopAsking => ask' = Nil
        BY DEF StopAsking
    <3> QED BY <2>1, <3>1, <3>2, <3>3, <3>4
  <2>3. /\ videoIntent' \in [Take -> VideoIntent \cup {Nil}]
        /\ \A d \in Take : d # c => videoIntent'[d] = videoIntent[d]
        /\ VideoIs(c, "prepared")' /\ videoIntent'[c].hash = ask.hash
        /\ VideoTakeOK(c)' /\ Charged(c)' \subseteq {AcceptedTask(c, ask.hash)'}
    <3>1. CASE videoIntent[c] = Nil
      <4>1. PICK new : new = [state |-> "prepared", attempts |-> 0, failed |-> FALSE,
                              hash |-> ask.hash, task |-> Nil]
          OBVIOUS
      <4>2. ask.hash \in Works /\ 0 \in 0..MaxSubmissions
          BY <1>1, VideoAssumption DEF Ask
      <4>3. new \in VideoIntent /\ new.state = "prepared" /\ new.hash = ask.hash
          BY <4>1, <4>2 DEF VideoIntent
      <4>4. new # Nil
          BY <4>3, VideoAssumption
      <4>5. videoIntent' = [videoIntent EXCEPT ![c] = new]
          BY <1>2, <2>2, <3>1, <4>1 DEF VideoIs
      <4>6. /\ videoIntent' \in [Take -> VideoIntent \cup {Nil}] /\ videoIntent'[c] = new
            /\ \A d \in Take : d # c => videoIntent'[d] = videoIntent[d]
          BY <1>1, <4>3, <4>5 DEF VideoTypeOK
      <4>7. Charged(c) = {}
          BY <1>1, <3>1 DEF VideoTakeOK, TaskTraced, VideoIs
      <4>8. Charged(c)' = {}
          BY <1>0, <4>7, ChargedStays
      <4>9. VideoTakeOK(c)'
          BY <1>0, <1>1, <4>3, <4>4, <4>6, <4>8 DEF VideoTakeOK, VideoIs
      <4> QED BY <4>3, <4>4, <4>6, <4>8, <4>9 DEF VideoIs
    <3>2. CASE videoIntent[c] # Nil
      <4>1. VideoIs(c, "prepared") /\ videoIntent[c].hash = ask.hash /\ UNCHANGED videoIntent
          BY <1>2, <2>2, <3>2
      <4>2. VideoTakeOK(c)'
          BY <1>0, <1>1, <4>1, SameWhenUnchanged, VideoTakeStays
      <4>3. Charged(c)' \subseteq {AcceptedTask(c, ask.hash)'}
          BY <1>0, <1>1, <2>1, <4>1 DEF AskedTakeOK, Charged, TasksOf, MayCharge, AcceptedTask
      <4> QED BY <1>1, <4>1, <4>2, <4>3 DEF VideoTypeOK, VideoIs
    <3> QED BY <3>1, <3>2
  <2>4. \A d \in Take : d # c => SameOfTake(d)
      BY <1>0, <1>1, <2>3, SameWhenUnchanged
  <2>5. AskedTakeOK(c)'
    <3>1. Charged(c)' \subseteq {AcceptedTask(c, ask.hash)'}
        BY <2>3
    <3> QED BY <2>1, <2>3, <3>1 DEF AskedTakeOK
  <2>6. VideoTypeOK'
      BY <1>0, <1>1, <2>1, <2>3 DEF VideoTypeOK
  <2>7. ~VideoIs(c, "invoked")'
      BY <2>3 DEF VideoIs
  <2> QED BY <1>0, <1>1, <1>c, <2>1, <2>3, <2>4, <2>5, <2>6, <2>7, AskStepKeeps
<1>4. CASE VideoIs(c, "invoked") /\ Submitted(c, videoIntent[c].task) /\ UNCHANGED videoIntent
  <2>1. videoIntent[c].task \in TaskIds
    <3>1. videoIntent[c] # Nil /\ videoIntent[c].task # Nil
        BY <1>1, <1>4 DEF VideoIs, VideoTakeOK
    <3>2. videoIntent[c] \in VideoIntent
        BY <1>1, <3>1, VideoTypesAre
    <3> QED BY <3>1, <3>2 DEF VideoIntent
  <2>2. \A d \in Take : SameOfTake(d)
      BY <1>0, <1>1, <1>4, SameWhenUnchanged
  <2>3. VideoTakeOK(c)'
      BY <1>1, <2>2, VideoTakeStays
  <2>4. VideoIs(c, "invoked")'
      BY <1>4 DEF VideoIs
  <2> QED BY <1>0, <1>1, <1>c, <1>4, <2>1, <2>2, <2>3, <2>4, SubmittedKeeps DEF VideoTypeOK
<1>5. CASE StopAsking /\ UNCHANGED videoIntent
  <2>1. \A d \in Take : SameOfTake(d)
      BY <1>0, <1>1, <1>5, SameWhenUnchanged
  <2> QED BY <1>0, <1>1, <1>5, <2>1, StopAskingKeeps DEF VideoTypeOK
<1> QED BY <1>2, <1>3, <1>4, <1>5

LEMMA WriteReceiptKeeps ==
    ASSUME VideoIInv, WriteReceipt
    PROVE  VideoIInv'
<1>c. PICK c : c = Asked
    OBVIOUS
<1>0. /\ ask # Nil /\ ask.step = "write" /\ Step("count")
      /\ videoReceipt' = IF KeepsTask(c) THEN videoReceipt
                         ELSE [videoReceipt EXCEPT ![c] =
                                [hash |-> ask.hash, task |-> Nil, refused |-> 0, clip |-> Nil]]
      /\ UNCHANGED <<videoRevision, takeRecord, clipFile, videoIntent, task, finishing,
                     videosOpen, stranded, abandoned, misread, videoCount>>
    BY <1>c DEF WriteReceipt, At, AskKeeps, videoFiles
<1>1. /\ VideoTypeOK /\ ask \in Ask /\ c \in Take /\ AskedTakeOK(c) /\ takeRecord[c] = Nil
      /\ \A d \in Take : VideoTakeOK(d)
    BY <1>0, <1>c, AskIs
<1>2. /\ VideoIs(c, "prepared") /\ videoIntent[c].hash = ask.hash
      /\ Charged(c) \subseteq {AcceptedTask(c, ask.hash)}
    BY <1>0, <1>1 DEF AskedTakeOK
<1>3. /\ ask' \in Ask /\ ask' # Nil /\ ask'.step = "count" /\ ask'.hash = ask.hash
      /\ ask'.revision = ask.revision /\ ask'.at = ask.at /\ ask'.count = ask.count
      /\ UNCHANGED <<started, watch>>
  <2>1. "count" \in AskStep
      BY DEF AskStep
  <2> QED BY <1>0, <1>1, <2>1, AskStepIs
<1>4. Charged(c)' \subseteq Charged(c) /\ (VideoIs(c, "prepared")' <=> VideoIs(c, "prepared"))
    BY <1>0, ChargedStays DEF VideoIs
<1>5. /\ videoReceipt' \in [Take -> VideoReceipt \cup {Nil}]
      /\ \A d \in Take : d # c => videoReceipt'[d] = videoReceipt[d]
      /\ videoReceipt'[c] # Nil /\ videoReceipt'[c].hash = ask.hash
      /\ videoReceipt'[c].task = Nil => videoReceipt'[c].refused = 0
      /\ VideoTakeOK(c)' /\ Charged(c)' \subseteq {AcceptedTask(c, ask.hash)'}
  <2>1. CASE KeepsTask(c)
    <3>1. /\ AcceptedTask(c, ask.hash) # Nil /\ UNCHANGED videoReceipt
          /\ videoReceipt[c] # Nil /\ videoReceipt[c].hash = ask.hash
          /\ videoReceipt[c].task # Nil
        BY <1>0, <2>1 DEF KeepsTask, AcceptedTask
    <3>2. VideoTakeOK(c)'
        BY <1>0, <1>1, <3>1, SameWhenUnchanged, VideoTakeStays
    <3>3. Charged(c)' \subseteq {AcceptedTask(c, ask.hash)'}
        BY <1>2, <1>3, <1>4, <3>1 DEF AcceptedTask
    <3> QED BY <1>1, <3>1, <3>2, <3>3 DEF VideoTypeOK
  <2>2. CASE ~KeepsTask(c)
    <3>1. PICK new : new = [hash |-> ask.hash, task |-> Nil, refused |-> 0, clip |-> Nil]
        OBVIOUS
    <3>2. ask.hash \in Works /\ 0 \in 0..MaxSubmissions
        BY <1>1, VideoAssumption DEF Ask
    <3>3. new \in VideoReceipt /\ new.hash = ask.hash /\ new.refused = 0
        BY <3>1, <3>2 DEF VideoReceipt
    <3>4. new # Nil
        BY <3>3, VideoAssumption
    <3>5. videoReceipt' = [videoReceipt EXCEPT ![c] = new]
        BY <1>0, <2>2, <3>1
    <3>6. /\ videoReceipt' \in [Take -> VideoReceipt \cup {Nil}] /\ videoReceipt'[c] = new
          /\ \A d \in Take : d # c => videoReceipt'[d] = videoReceipt[d]
        BY <1>1, <3>3, <3>5 DEF VideoTypeOK
    <3>7. Charged(c) = {}
      <4>1. AcceptedTask(c, ask.hash) = Nil
          BY <2>2 DEF KeepsTask
      <4> QED BY <1>2, <4>1, VideoAssumption DEF Charged, TasksOf
    <3>8. VideoTakeOK(c)'
        BY <1>0, <1>1, <1>2, <1>4, <3>7 DEF VideoTakeOK, VideoIs
    <3> QED BY <1>4, <3>3, <3>4, <3>6, <3>7, <3>8
  <2> QED BY <2>1, <2>2
<1>6. \A d \in Take : d # c => SameOfTake(d)
    BY <1>0, <1>1, <1>5, SameWhenUnchanged
<1>7. AskedTakeOK(c)'
  <2>1. VideoIs(c, "prepared")' /\ videoIntent'[c].hash = ask'.hash
      BY <1>0, <1>2, <1>3, <1>4
  <2>2. Charged(c)' \subseteq {AcceptedTask(c, ask.hash)'}
      BY <1>5
  <2> QED BY <1>3, <1>5, <2>1, <2>2 DEF AskedTakeOK
<1>8. VideoTypeOK'
    BY <1>0, <1>1, <1>3, <1>5 DEF VideoTypeOK
<1> QED BY <1>0, <1>1, <1>c, <1>3, <1>5, <1>6, <1>7, <1>8, AskStepKeeps DEF VideoIs

LEMMA AskFailsKeeps ==
    ASSUME VideoIInv, AskFails
    PROVE  VideoIInv'
<1>1. /\ ask # Nil /\ StopAsking
      /\ UNCHANGED <<videoRevision, takeRecord, clipFile, videoIntent, videoReceipt, task,
                     finishing, videosOpen, stranded, abandoned, misread, videoCount>>
    BY DEF AskFails, At, AskKeeps, videoFiles, videoJobs
<1>2. VideoTypeOK /\ \A d \in Take : VideoTakeOK(d)
    BY DEF VideoIInv
<1>3. \A d \in Take : SameOfTake(d)
    BY <1>1, <1>2, SameWhenUnchanged
<1> QED BY <1>1, <1>2, <1>3, StopAskingKeeps DEF VideoTypeOK

LEMMA CountSubmissionKeeps ==
    ASSUME VideoIInv, CountSubmission
    PROVE  VideoIInv'
<1>c. PICK c : c = Asked
    OBVIOUS
<1>0. /\ ask # Nil /\ ask.step = "count" /\ Step("invoke")
      /\ videoIntent[c].attempts < MaxSubmissions
      /\ videoIntent' = [videoIntent EXCEPT ![c].attempts = @ + 1, ![c].failed = FALSE]
      /\ UNCHANGED <<videoRevision, takeRecord, clipFile, videoReceipt, task, finishing,
                     videosOpen, stranded, abandoned, misread, videoCount>>
    BY <1>c DEF CountSubmission, At, AskKeeps, videoFiles
<1>1. /\ VideoTypeOK /\ ask \in Ask /\ c \in Take /\ AskedTakeOK(c) /\ takeRecord[c] = Nil
      /\ \A d \in Take : VideoTakeOK(d)
    BY <1>0, <1>c, AskIs
<1>2. /\ VideoIs(c, "prepared") /\ videoIntent[c] # Nil /\ videoIntent[c].hash = ask.hash
      /\ Charged(c) \subseteq {AcceptedTask(c, ask.hash)}
      /\ videoReceipt[c] # Nil /\ videoReceipt[c].hash = ask.hash
      /\ videoReceipt[c].task = Nil => videoReceipt[c].refused = 0
    BY <1>0, <1>1 DEF AskedTakeOK, VideoIs
<1>3. /\ ask' \in Ask /\ ask' # Nil /\ ask'.step = "invoke" /\ ask'.hash = ask.hash
      /\ ask'.revision = ask.revision /\ ask'.at = ask.at /\ ask'.count = ask.count
      /\ UNCHANGED <<started, watch>>
  <2>1. "invoke" \in AskStep
      BY DEF AskStep
  <2> QED BY <1>0, <1>1, <2>1, AskStepIs
<1>4. PICK new : new = [videoIntent[c] EXCEPT !.attempts = @ + 1, !.failed = FALSE]
    OBVIOUS
<1>5. /\ new \in VideoIntent /\ new.state = "prepared" /\ new.hash = ask.hash
      /\ new.attempts > 0
  <2>1. videoIntent[c] \in VideoIntent
      BY <1>1, <1>2, VideoTypesAre
  <2>2. videoIntent[c].attempts + 1 \in 0..MaxSubmissions /\ videoIntent[c].attempts + 1 > 0
      BY <2>1, <1>0, VideoAssumption DEF VideoIntent
  <2> QED BY <1>2, <1>4, <2>1, <2>2 DEF VideoIntent, VideoIs
<1>6. /\ videoIntent' \in [Take -> VideoIntent \cup {Nil}] /\ videoIntent'[c] = new
      /\ \A d \in Take : d # c => videoIntent'[d] = videoIntent[d]
      /\ new # Nil
  <2>1. videoIntent' = [videoIntent EXCEPT ![c] = new]
      BY <1>0, <1>1, <1>4 DEF VideoTypeOK
  <2> QED BY <1>1, <1>5, <2>1, VideoAssumption DEF VideoTypeOK
<1>7. \A d \in Take : d # c => SameOfTake(d)
    BY <1>0, <1>1, <1>6, SameWhenUnchanged
<1>8. Charged(c)' \subseteq Charged(c) /\ AcceptedTask(c, ask.hash)' = AcceptedTask(c, ask.hash)
  <2>1. AcceptedTask(c, ask.hash)' = AcceptedTask(c, ask.hash)
      BY <1>0, <1>3 DEF AcceptedTask
  <2> QED BY <1>0, <2>1, ChargedStays
<1>9. VideoTakeOK(c)'
  <2>1. \A t \in Charged(c)' : TaskTraced(c, t)'
    <3> TAKE t \in Charged(c)'
    <3>1. AcceptedTask(c, ask.hash) = t
        BY <1>2, <1>8
    <3>2. AcceptedTask(c, videoIntent[c].hash)' = t
        BY <1>0, <1>5, <1>6, <3>1 DEF AcceptedTask
    <3> QED BY <1>5, <1>6, <3>2 DEF TaskTraced, VideoIs
  <2> QED BY <1>0, <1>1, <1>5, <1>6, <1>8, <2>1 DEF VideoTakeOK, VideoIs
<1>10. AskedTakeOK(c)'
  <2>1. VideoIs(c, "prepared")' /\ videoIntent'[c].hash = ask'.hash /\ videoIntent'[c].attempts > 0
      BY <1>3, <1>5, <1>6 DEF VideoIs
  <2>2. Charged(c)' \subseteq {AcceptedTask(c, ask.hash)'}
      BY <1>2, <1>8
  <2> QED BY <1>0, <1>2, <1>3, <2>1, <2>2 DEF AskedTakeOK
<1>11. VideoTypeOK'
    BY <1>0, <1>1, <1>3, <1>6 DEF VideoTypeOK
<1>12. ~VideoIs(c, "invoked")'
    BY <1>5, <1>6 DEF VideoIs
<1> QED BY <1>0, <1>1, <1>c, <1>3, <1>7, <1>9, <1>10, <1>11, <1>12, AskStepKeeps

LEMMA InvokeTakeKeeps ==
    ASSUME VideoIInv, InvokeTake
    PROVE  VideoIInv'
<1>c. PICK c : c = Asked
    OBVIOUS
<1>0. /\ ask # Nil /\ ask.step = "invoke"
      /\ ask' = [ask EXCEPT !.task = AcceptedTask(c, ask.hash),
                            !.step = IF AcceptedTask(c, ask.hash) # Nil THEN "save" ELSE "sent"]
      /\ UNCHANGED <<videoRevision, takeRecord, clipFile, videoIntent, videoReceipt, task,
                     started, watch, finishing, videosOpen, stranded, abandoned, misread,
                     videoCount>>
    BY <1>c DEF InvokeTake, At, AskKeeps, videoFiles, videoJobs
<1>1. /\ VideoTypeOK /\ ask \in Ask /\ c \in Take /\ AskedTakeOK(c) /\ takeRecord[c] = Nil
      /\ \A d \in Take : VideoTakeOK(d)
    BY <1>0, <1>c, AskIs
<1>2. /\ VideoIs(c, "prepared") /\ videoIntent[c].hash = ask.hash /\ videoIntent[c].attempts > 0
      /\ Charged(c) \subseteq {AcceptedTask(c, ask.hash)}
      /\ videoReceipt[c] # Nil /\ videoReceipt[c].hash = ask.hash
      /\ videoReceipt[c].task = Nil => videoReceipt[c].refused = 0
      /\ AcceptedTask(c, ask.hash) = videoReceipt[c].task
    BY <1>0, <1>1 DEF AskedTakeOK, AcceptedTask
<1>3. videoReceipt[c].task \in TaskIds \cup {Nil}
  <2>1. videoReceipt[c] \in VideoReceipt
      BY <1>1, <1>2, VideoTypesAre
  <2> QED BY <2>1 DEF VideoReceipt
<1>4. /\ ask' \in Ask /\ ask'.task = videoReceipt[c].task /\ ask'.hash = ask.hash
      /\ ask'.step = IF videoReceipt[c].task # Nil THEN "save" ELSE "sent"
      /\ ask'.revision = ask.revision /\ ask'.at = ask.at /\ ask'.count = ask.count
  <2>1. "save" \in AskStep /\ "sent" \in AskStep
      BY DEF AskStep
  <2>2. PICK s : s = IF videoReceipt[c].task # Nil THEN "save" ELSE "sent"
      OBVIOUS
  <2>3. s \in AskStep /\ ask' = [ask EXCEPT !.task = videoReceipt[c].task, !.step = s]
      BY <1>0, <1>2, <2>1, <2>2
  <2> QED BY <1>1, <1>3, <2>2, <2>3 DEF Ask
<1>5. ask' # Nil
    BY <1>4, VideoAssumption
<1>6. \A d \in Take : SameOfTake(d)
    BY <1>0, <1>1, SameWhenUnchanged
<1>7. VideoTakeOK(c)'
    BY <1>1, <1>6, VideoTakeStays
<1>8. AskedTakeOK(c)'
  <2>1. VideoIs(c, "prepared")' /\ videoIntent'[c].hash = ask'.hash /\ videoIntent'[c].attempts > 0
      BY <1>0, <1>2, <1>4 DEF VideoIs
  <2>2. Charged(c)' \subseteq {videoReceipt[c].task}
      BY <1>0, <1>2, ChargedStays
  <2>3. CASE videoReceipt[c].task # Nil
      BY <1>4, <2>1, <2>2, <2>3 DEF AskedTakeOK
  <2>4. CASE videoReceipt[c].task = Nil
    <3>1. Charged(c)' = {}
        BY <2>2, <2>4, VideoAssumption DEF Charged, TasksOf
    <3> QED BY <1>0, <1>2, <1>4, <2>1, <2>4, <3>1 DEF AskedTakeOK
  <2> QED BY <2>3, <2>4
<1>9. VideoTypeOK'
    BY <1>0, <1>1, <1>4 DEF VideoTypeOK
<1> QED BY <1>0, <1>1, <1>c, <1>4, <1>5, <1>6, <1>7, <1>8, <1>9, AskStepKeeps DEF VideoIs

(* The provider makes a task for the take asked for, and for no other.     *)
LEMMA NewTaskIs ==
    ASSUME VideoTypeOK, ask # Nil, NEW c \in Take, c = Asked, NEW t \in TaskIds, NewTask(t),
           UNCHANGED <<abandoned, misread>>
    PROVE  /\ task' \in [TaskIds -> ProviderTask \cup {Nil}]
           /\ Charged(c)' \subseteq Charged(c) \cup {t}
           /\ \A d \in Take : d # c => Charged(d)' \subseteq Charged(d)
<1>1. PICK new : new = [of |-> c, hash |-> ask.hash, state |-> "running"]
    OBVIOUS
<1>2. new \in ProviderTask /\ new.of = c
  <2>1. ask.hash \in Works
      BY DEF VideoTypeOK, Ask
  <2> QED BY <1>1, <2>1 DEF ProviderTask
<1>3. task' = [task EXCEPT ![t] = new]
    BY <1>1 DEF NewTask
<1>4. /\ task' \in [TaskIds -> ProviderTask \cup {Nil}] /\ task'[t] = new
      /\ \A s \in TaskIds : s # t => task'[s] = task[s]
    BY <1>2, <1>3 DEF VideoTypeOK
<1> QED BY <1>2, <1>4 DEF Charged, TasksOf, MayCharge

(* A request at the point of asking the provider.                          *)
LEMMA AskSentIs ==
    ASSUME VideoIInv, ask # Nil, ask.step \in {"sent", "accepted"}
    PROVE  /\ VideoIs(Asked, "prepared") /\ videoIntent[Asked].hash = ask.hash
           /\ videoIntent[Asked].attempts > 0
           /\ videoReceipt[Asked] # Nil /\ videoReceipt[Asked].hash = ask.hash
           /\ videoReceipt[Asked].task = Nil /\ videoReceipt[Asked].refused = 0
           /\ AcceptedTask(Asked, ask.hash) = Nil /\ ~RefusedLast(Asked)
           /\ ask.step = "sent" => Charged(Asked) = {}
<1>1. AskedTakeOK(Asked)
    BY AskIs
<1>2. /\ VideoIs(Asked, "prepared") /\ videoIntent[Asked].hash = ask.hash
      /\ videoIntent[Asked].attempts > 0
      /\ videoReceipt[Asked] # Nil /\ videoReceipt[Asked].hash = ask.hash
      /\ videoReceipt[Asked].task = Nil /\ videoReceipt[Asked].refused = 0
      /\ ask.step = "sent" => Charged(Asked) = {}
    BY <1>1 DEF AskedTakeOK
<1> QED BY <1>2 DEF AcceptedTask, RefusedLast

(* A task made while the receipt holds none is traced by the attempt.      *)
LEMMA NewTaskKeeps ==
    ASSUME VideoIInv, ask # Nil, ask.step = "sent", NEW c \in Take, c = Asked,
           NEW t \in TaskIds, NewTask(t),
           UNCHANGED <<videoRevision, takeRecord, videoIntent, videoReceipt, abandoned, misread>>
    PROVE  /\ task' \in [TaskIds -> ProviderTask \cup {Nil}]
           /\ Charged(c)' \subseteq {t} /\ VideoTakeOK(c)'
           /\ \A d \in Take : d # c => SameOfTake(d)
<1>1. VideoTypeOK /\ takeRecord[c] = Nil /\ \A d \in Take : VideoTakeOK(d)
    BY AskIs
<1>2. /\ task' \in [TaskIds -> ProviderTask \cup {Nil}]
      /\ Charged(c)' \subseteq Charged(c) \cup {t}
      /\ \A d \in Take : d # c => Charged(d)' \subseteq Charged(d)
    BY <1>1, NewTaskIs
<1>3. /\ VideoIs(c, "prepared") /\ videoIntent[c].hash = ask.hash /\ videoIntent[c].attempts > 0
      /\ AcceptedTask(c, ask.hash) = Nil /\ ~RefusedLast(c) /\ Charged(c) = {}
    BY AskSentIs
<1>4. TaskTraced(c, t)'
    BY <1>3 DEF TaskTraced, VideoIs, AcceptedTask, RefusedLast
<1>5. VideoTakeOK(c)'
    BY <1>1, <1>2, <1>3, <1>4 DEF VideoTakeOK, VideoIs
<1>6. \A d \in Take : d # c => SameOfTake(d)
    BY <1>1, <1>2 DEF SameOfTake, SameIntent, SameReceipt, VideoTakeOK
<1> QED BY <1>2, <1>3, <1>5, <1>6

LEMMA TaskAcceptedKeeps ==
    ASSUME VideoIInv, NEW t \in TaskIds, TaskAccepted(t)
    PROVE  VideoIInv'
<1>c. PICK c : c = Asked
    OBVIOUS
<1>0. /\ ask # Nil /\ ask.step = "sent" /\ NewTask(t)
      /\ ask' = [ask EXCEPT !.task = t, !.step = "accepted"]
      /\ UNCHANGED <<videoRevision, takeRecord, clipFile, videoIntent, videoReceipt,
                     started, watch, finishing, videosOpen, stranded, abandoned, misread,
                     videoCount>>
    BY DEF TaskAccepted, At, AskKeeps, videoFiles, videoJobs
<1>1. /\ VideoTypeOK /\ ask \in Ask /\ c \in Take
    BY <1>0, <1>c, AskIs
<1>2. /\ task' \in [TaskIds -> ProviderTask \cup {Nil}]
      /\ Charged(c)' \subseteq {t} /\ VideoTakeOK(c)'
      /\ \A d \in Take : d # c => SameOfTake(d)
    BY <1>0, <1>1, <1>c, NewTaskKeeps
<1>3. /\ ask' \in Ask /\ ask'.step = "accepted" /\ ask'.task = t /\ ask'.hash = ask.hash
      /\ ask'.revision = ask.revision /\ ask'.at = ask.at /\ ask'.count = ask.count
  <2>1. "accepted" \in AskStep
      BY DEF AskStep
  <2> QED BY <1>0, <1>1, <2>1 DEF Ask
<1>4. ask' # Nil /\ t # Nil
    BY <1>3, VideoAssumption
<1>5. AskedTakeOK(c)'
  <2>1. /\ VideoIs(c, "prepared") /\ videoIntent[c].hash = ask.hash /\ videoIntent[c].attempts > 0
        /\ videoReceipt[c] # Nil /\ videoReceipt[c].hash = ask.hash
        /\ videoReceipt[c].task = Nil /\ videoReceipt[c].refused = 0
      BY <1>0, <1>c, AskSentIs
  <2>2. VideoIs(c, "prepared")'
      BY <1>0, <2>1 DEF VideoIs
  <2> QED BY <1>0, <1>2, <1>3, <1>4, <2>1, <2>2 DEF AskedTakeOK
<1>6. VideoTypeOK'
    BY <1>0, <1>1, <1>2, <1>3 DEF VideoTypeOK
<1> QED BY <1>0, <1>1, <1>c, <1>2, <1>3, <1>4, <1>5, <1>6, AskStepKeeps DEF VideoIs

LEMMA TaskRefusedKeeps ==
    ASSUME VideoIInv, TaskRefused
    PROVE  VideoIInv'
<1>c. PICK c : c = Asked
    OBVIOUS
<1>0. /\ ask # Nil /\ ask.step = "sent" /\ Step("refused")
      /\ \/ videoReceipt' = [videoReceipt EXCEPT ![c].refused = videoIntent[c].attempts]
         \/ UNCHANGED videoReceipt
      /\ UNCHANGED <<videoRevision, takeRecord, clipFile, videoIntent, task, finishing,
                     videosOpen, stranded, abandoned, misread, videoCount>>
    BY <1>c DEF TaskRefused, At, AskKeeps, videoFiles
<1>1. /\ VideoTypeOK /\ ask \in Ask /\ c \in Take /\ takeRecord[c] = Nil
      /\ \A d \in Take : VideoTakeOK(d)
    BY <1>0, <1>c, AskIs
<1>2. /\ VideoIs(c, "prepared") /\ videoIntent[c].hash = ask.hash
      /\ videoReceipt[c] # Nil /\ Charged(c) = {}
    BY <1>0, <1>c, AskSentIs
<1>3. /\ ask' \in Ask /\ ask' # Nil /\ ask'.step = "refused" /\ ask'.hash = ask.hash
      /\ ask'.revision = ask.revision /\ ask'.at = ask.at /\ ask'.count = ask.count
      /\ UNCHANGED <<started, watch>>
  <2>1. "refused" \in AskStep
      BY DEF AskStep
  <2> QED BY <1>0, <1>1, <2>1, AskStepIs
<1>4. /\ videoReceipt' \in [Take -> VideoReceipt \cup {Nil}]
      /\ \A d \in Take : d # c => videoReceipt'[d] = videoReceipt[d]
  <2>1. videoReceipt[c] \in VideoReceipt
      BY <1>1, <1>2, VideoTypesAre
  <2>2. videoIntent[c].attempts \in 0..MaxSubmissions
    <3>1. videoIntent[c] \in VideoIntent
        BY <1>1, <1>2, VideoTypesAre DEF VideoIs
    <3> QED BY <3>1 DEF VideoIntent
  <2>3. PICK new : new = [videoReceipt[c] EXCEPT !.refused = videoIntent[c].attempts]
      OBVIOUS
  <2>4. new \in VideoReceipt
      BY <2>1, <2>2, <2>3 DEF VideoReceipt
  <2>5. videoReceipt' = [videoReceipt EXCEPT ![c] = new] \/ UNCHANGED videoReceipt
      BY <1>0, <1>1, <2>3 DEF VideoTypeOK
  <2> QED BY <1>1, <2>4, <2>5 DEF VideoTypeOK
<1>5. \A d \in Take : d # c => SameOfTake(d)
    BY <1>0, <1>1, <1>4, SameWhenUnchanged
<1>6. Charged(c)' = {}
    BY <1>0, <1>2, ChargedStays
<1>7. VideoTakeOK(c)'
    BY <1>0, <1>1, <1>6 DEF VideoTakeOK, VideoIs
<1>8. AskedTakeOK(c)'
    BY <1>0, <1>2, <1>3 DEF AskedTakeOK, VideoIs
<1>9. VideoTypeOK'
    BY <1>0, <1>1, <1>3, <1>4 DEF VideoTypeOK
<1> QED BY <1>0, <1>1, <1>c, <1>3, <1>5, <1>7, <1>8, <1>9, AskStepKeeps DEF VideoIs

LEMMA AnswerLostKeeps ==
    ASSUME VideoIInv, AnswerLost
    PROVE  VideoIInv'
<1>c. PICK c : c = Asked
    OBVIOUS
<1>0. /\ ask # Nil /\ ask.step = "sent" /\ Step("lost")
      /\ (\E t \in TaskIds : NewTask(t)) \/ UNCHANGED task
      /\ UNCHANGED <<videoRevision, takeRecord, clipFile, videoIntent, videoReceipt,
                     finishing, videosOpen, stranded, abandoned, misread, videoCount>>
    BY DEF AnswerLost, At, AskKeeps, videoFiles, videoJobs
<1>1. /\ VideoTypeOK /\ ask \in Ask /\ c \in Take /\ \A d \in Take : VideoTakeOK(d)
    BY <1>0, <1>c, AskIs
<1>2. /\ ask' \in Ask /\ ask' # Nil /\ ask'.step = "lost" /\ ask'.hash = ask.hash
      /\ ask'.revision = ask.revision /\ ask'.at = ask.at /\ ask'.count = ask.count
      /\ UNCHANGED <<started, watch>>
  <2>1. "lost" \in AskStep
      BY DEF AskStep
  <2> QED BY <1>0, <1>1, <2>1, AskStepIs
<1>3. /\ task' \in [TaskIds -> ProviderTask \cup {Nil}]
      /\ VideoTakeOK(c)' /\ \A d \in Take : d # c => SameOfTake(d)
  <2>1. CASE \E t \in TaskIds : NewTask(t)
      BY <1>0, <1>1, <1>c, <2>1, NewTaskKeeps
  <2>2. CASE UNCHANGED task
    <3>1. \A d \in Take : SameOfTake(d)
        BY <1>0, <1>1, <2>2, SameWhenUnchanged
    <3> QED BY <1>1, <2>2, <3>1, VideoTakeStays DEF VideoTypeOK
  <2> QED BY <1>0, <2>1, <2>2
<1>4. AskedTakeOK(c)'
  <2>1. VideoIs(c, "prepared") /\ videoIntent[c].hash = ask.hash
      BY <1>0, <1>c, AskSentIs
  <2> QED BY <1>0, <1>2, <2>1 DEF AskedTakeOK, VideoIs
<1>5. VideoTypeOK'
    BY <1>0, <1>1, <1>2, <1>3 DEF VideoTypeOK
<1> QED BY <1>0, <1>1, <1>c, <1>2, <1>3, <1>4, <1>5, AskStepKeeps DEF VideoIs

LEMMA RecordTaskKeeps ==
    ASSUME VideoIInv, RecordTask
    PROVE  VideoIInv'
<1>c. PICK c : c = Asked
    OBVIOUS
<1>0. /\ ask # Nil /\ ask.step = "accepted" /\ Step("save")
      /\ \/ videoReceipt' = [videoReceipt EXCEPT ![c].task = ask.task]
         \/ UNCHANGED videoReceipt
      /\ UNCHANGED <<videoRevision, takeRecord, clipFile, videoIntent, task, finishing,
                     videosOpen, stranded, abandoned, misread, videoCount>>
    BY <1>c DEF RecordTask, At, AskKeeps, videoFiles
<1>1. /\ VideoTypeOK /\ ask \in Ask /\ c \in Take /\ takeRecord[c] = Nil /\ AskedTakeOK(c)
      /\ \A d \in Take : VideoTakeOK(d)
    BY <1>0, <1>c, AskIs
<1>2. /\ VideoIs(c, "prepared") /\ videoIntent[c].hash = ask.hash /\ videoIntent[c].attempts > 0
      /\ videoReceipt[c] # Nil /\ videoReceipt[c].hash = ask.hash
      /\ ask.task # Nil /\ Charged(c) \subseteq {ask.task}
    BY <1>0, <1>1 DEF AskedTakeOK
<1>3. /\ ask' \in Ask /\ ask' # Nil /\ ask'.step = "save" /\ ask'.hash = ask.hash
      /\ ask'.revision = ask.revision /\ ask'.at = ask.at /\ ask'.count = ask.count
      /\ ask'.task = ask.task /\ UNCHANGED <<started, watch>>
  <2>1. "save" \in AskStep
      BY DEF AskStep
  <2> QED BY <1>0, <1>1, <2>1, AskStepIs
<1>4. Charged(c)' \subseteq Charged(c)
    BY <1>0, ChargedStays
<1>5. /\ videoReceipt' \in [Take -> VideoReceipt \cup {Nil}]
      /\ \A d \in Take : d # c => videoReceipt'[d] = videoReceipt[d]
      /\ VideoTakeOK(c)'
  <2>1. CASE videoReceipt' = [videoReceipt EXCEPT ![c].task = ask.task]
    <3>1. PICK new : new = [videoReceipt[c] EXCEPT !.task = ask.task]
        OBVIOUS
    <3>2. new \in VideoReceipt /\ new.hash = ask.hash /\ new.task = ask.task
      <4>1. videoReceipt[c] \in VideoReceipt
          BY <1>1, <1>2, VideoTypesAre
      <4>2. ask.task \in TaskIds \cup {Nil}
          BY <1>1 DEF Ask
      <4> QED BY <1>2, <3>1, <4>1, <4>2 DEF VideoReceipt
    <3>3. videoReceipt' = [videoReceipt EXCEPT ![c] = new] /\ new # Nil
        BY <1>1, <2>1, <3>1, <3>2, VideoAssumption DEF VideoTypeOK
    <3>4. /\ videoReceipt' \in [Take -> VideoReceipt \cup {Nil}] /\ videoReceipt'[c] = new
          /\ \A d \in Take : d # c => videoReceipt'[d] = videoReceipt[d]
        BY <1>1, <3>2, <3>3 DEF VideoTypeOK
    <3>5. AcceptedTask(c, videoIntent[c].hash)' = ask.task
        BY <1>0, <1>2, <3>2, <3>3, <3>4 DEF AcceptedTask
    <3>6. \A t \in Charged(c)' : TaskTraced(c, t)'
        BY <1>0, <1>2, <1>4, <3>5 DEF TaskTraced, VideoIs
    <3>7. VideoTakeOK(c)'
        BY <1>0, <1>1, <1>2, <1>4, <3>6 DEF VideoTakeOK, VideoIs
    <3> QED BY <3>4, <3>7
  <2>2. CASE UNCHANGED videoReceipt
    <3>1. VideoTakeOK(c)'
        BY <1>0, <1>1, <2>2, SameWhenUnchanged, VideoTakeStays
    <3> QED BY <1>1, <2>2, <3>1 DEF VideoTypeOK
  <2> QED BY <1>0, <2>1, <2>2
<1>6. \A d \in Take : d # c => SameOfTake(d)
    BY <1>0, <1>1, <1>5, SameWhenUnchanged
<1>7. AskedTakeOK(c)'
    BY <1>0, <1>2, <1>3, <1>4 DEF AskedTakeOK, VideoIs
<1>8. VideoTypeOK'
    BY <1>0, <1>1, <1>3, <1>5 DEF VideoTypeOK
<1> QED BY <1>0, <1>1, <1>c, <1>3, <1>5, <1>6, <1>7, <1>8, AskStepKeeps DEF VideoIs

LEMMA SaveInvokedKeeps ==
    ASSUME VideoIInv, SaveInvoked
    PROVE  VideoIInv'
<1>c. PICK c : c = Asked
    OBVIOUS
<1>t. PICK t : t = ask.task
    OBVIOUS
<1>0. /\ ask # Nil /\ ask.step = "save" /\ Submitted(c, t)
      /\ videoIntent' = [videoIntent EXCEPT ![c].state = "invoked", ![c].task = t]
      /\ UNCHANGED <<videoRevision, takeRecord, clipFile, videoReceipt, task, finishing,
                     videosOpen, stranded, abandoned, misread, videoCount>>
    BY <1>c, <1>t DEF SaveInvoked, At, AskKeeps, videoFiles
<1>1. /\ VideoTypeOK /\ ask \in Ask /\ c \in Take /\ takeRecord[c] = Nil /\ AskedTakeOK(c)
      /\ \A d \in Take : VideoTakeOK(d)
    BY <1>0, <1>c, AskIs
<1>2. /\ videoIntent[c] # Nil /\ t # Nil /\ Charged(c) \subseteq {t}
    BY <1>0, <1>1, <1>t DEF AskedTakeOK, VideoIs
<1>3. t \in TaskIds
    BY <1>1, <1>2, <1>t DEF Ask
<1>4. PICK new : new = [videoIntent[c] EXCEPT !.state = "invoked", !.task = t]
    OBVIOUS
<1>5. new \in VideoIntent /\ new.state = "invoked" /\ new.task = t
  <2>1. videoIntent[c] \in VideoIntent
      BY <1>1, <1>2, VideoTypesAre
  <2> QED BY <1>3, <1>4, <2>1 DEF VideoIntent
<1>6. /\ videoIntent' \in [Take -> VideoIntent \cup {Nil}] /\ videoIntent'[c] = new /\ new # Nil
      /\ \A d \in Take : d # c => videoIntent'[d] = videoIntent[d]
  <2>1. videoIntent' = [videoIntent EXCEPT ![c] = new]
      BY <1>0, <1>1, <1>4 DEF VideoTypeOK
  <2> QED BY <1>1, <1>5, <2>1, VideoAssumption DEF VideoTypeOK
<1>7. \A d \in Take : d # c => SameOfTake(d)
    BY <1>0, <1>1, <1>6, SameWhenUnchanged
<1>8. VideoIs(c, "invoked")' /\ ~VideoIs(c, "prepared")' /\ ~VideoIs(c, "reconciled")'
    BY <1>5, <1>6 DEF VideoIs
<1>9. VideoTakeOK(c)'
  <2>1. Charged(c)' \subseteq {t}
      BY <1>0, <1>2, ChargedStays
  <2>2. TaskTraced(c, t)'
      BY <1>5, <1>6, <1>8 DEF TaskTraced
  <2> QED BY <1>0, <1>1, <1>2, <1>5, <1>6, <1>8, <2>1, <2>2 DEF VideoTakeOK
<1> QED BY <1>0, <1>1, <1>c, <1>3, <1>5, <1>6, <1>7, <1>8, <1>9, SubmittedKeeps

LEMMA SaveFailureKeeps ==
    ASSUME VideoIInv, SaveFailure
    PROVE  VideoIInv'
<1>c. PICK c : c = Asked
    OBVIOUS
<1>0. /\ ask # Nil /\ ask.step \in {"refused", "lost"} /\ StopAsking
      /\ \/ videoIntent' = [videoIntent EXCEPT ![c].failed = TRUE]
         \/ UNCHANGED videoIntent
      /\ UNCHANGED <<videoRevision, takeRecord, clipFile, videoReceipt, task, finishing,
                     videosOpen, stranded, abandoned, misread, videoCount>>
    BY <1>c DEF SaveFailure, At, AskKeeps, videoFiles
<1>1. /\ VideoTypeOK /\ ask \in Ask /\ c \in Take /\ AskedTakeOK(c)
      /\ \A d \in Take : VideoTakeOK(d)
    BY <1>0, <1>c, AskIs
<1>2. videoIntent[c] # Nil
    BY <1>0, <1>1 DEF AskedTakeOK, VideoIs
<1>3. CASE videoIntent' = [videoIntent EXCEPT ![c].failed = TRUE]
  <2>1. PICK new : new = [videoIntent[c] EXCEPT !.failed = TRUE]
      OBVIOUS
  <2>2. /\ new \in VideoIntent /\ new.state = videoIntent[c].state
        /\ new.attempts = videoIntent[c].attempts
        /\ new.hash = videoIntent[c].hash /\ new.task = videoIntent[c].task
    <3>1. videoIntent[c] \in VideoIntent
        BY <1>1, <1>2, VideoTypesAre
    <3> QED BY <2>1, <3>1 DEF VideoIntent
  <2>3. videoIntent' = [videoIntent EXCEPT ![c] = new] /\ new # Nil
      BY <1>1, <1>3, <2>1, <2>2, VideoAssumption DEF VideoTypeOK
  <2>4. /\ videoIntent' \in [Take -> VideoIntent \cup {Nil}] /\ videoIntent'[c] = new
        /\ \A d \in Take : d # c => videoIntent'[d] = videoIntent[d]
      BY <1>1, <2>2, <2>3 DEF VideoTypeOK
  <2>5. \A d \in Take : d # c => SameOfTake(d)
      BY <1>0, <1>1, <2>4, SameWhenUnchanged
  <2>6. SameOfTake(c)
    <3>1. Charged(c)' \subseteq Charged(c)
        BY <1>0, ChargedStays
    <3> QED BY <1>0, <1>1, <1>2, <2>2, <2>3, <2>4, <3>1
           DEF SameOfTake, SameIntent, SameReceipt, VideoTakeOK
  <2> QED BY <1>0, <2>4, <2>5, <2>6, StopAskingKeeps
<1>4. CASE UNCHANGED videoIntent
  <2>1. \A d \in Take : SameOfTake(d)
      BY <1>0, <1>1, <1>4, SameWhenUnchanged
  <2> QED BY <1>0, <1>1, <1>4, <2>1, StopAskingKeeps DEF VideoTypeOK
<1> QED BY <1>0, <1>3, <1>4

(* Nothing but the provider's tasks changes, and no task becomes one to be *)
(* charged for.                                                            *)
LEMMA TasksOnlyKeep ==
    ASSUME VideoIInv, task' \in [TaskIds -> ProviderTask \cup {Nil}],
           \A c \in Take : Charged(c)' \subseteq Charged(c),
           UNCHANGED <<videoFiles, videoJobs, videoWork, videoPast>>
    PROVE  VideoIInv'
<1>0. /\ VideoTypeOK /\ VideoAskOK /\ VideoFinishOK /\ VideoFollowOK
      /\ \A c \in Take : VideoTakeOK(c) /\ VideoWatchOK(c)
    BY DEF VideoIInv
<1>1. UNCHANGED <<videoRevision, takeRecord, clipFile, videoIntent, videoReceipt, ask, started,
                  watch, finishing, videosOpen, stranded, abandoned, misread, videoCount>>
    BY DEF videoFiles, videoJobs, videoWork, videoPast
<1>2. VideoTypeOK'
    BY <1>0, <1>1 DEF VideoTypeOK
<1>3. \A c \in Take : SameOfTake(c)
    BY <1>0, <1>1 DEF SameOfTake, SameIntent, SameReceipt, VideoTakeOK
<1>4. \A c \in Take : VideoTakeOK(c)'
    BY <1>0, <1>3, VideoTakeStays
<1>5. \A c \in Take : VideoWatchOK(c)'
    BY <1>0, <1>1 DEF VideoWatchOK, VideoIs
<1>6. VideoAskOK'
  <2>1. CASE ask = Nil
      BY <1>0, <1>1, <2>1 DEF VideoAskOK
  <2>2. CASE ask # Nil
    <3>c. PICK c : c = Asked
        OBVIOUS
    <3>1. c \in Take /\ AskedTakeOK(c)
        BY <2>2, <3>c, AskIs
    <3>2. Asked' = c
        BY <1>1, <3>c DEF Asked
    <3>3. AskedTakeOK(c)'
      <4>1. Charged(c)' \subseteq Charged(c)
          BY <3>1
      <4> QED BY <1>1, <3>1, <4>1 DEF AskedTakeOK, VideoIs, AcceptedTask
    <3>4. AskedTakeOK(Asked)'
        BY <3>2, <3>3 DEF AskedTakeOK
    <3> QED BY <1>0, <1>1, <2>2, <3>4 DEF VideoAskOK, VideoIs
  <2> QED BY <2>1, <2>2
<1>7. VideoFinishOK'
  <2>1. CASE finishing # Nil
    <3>1. finishing.take \in Take
        BY <1>0, <2>1 DEF VideoTypeOK, TakeEnding
    <3>2. Charged(finishing.take)' \subseteq Charged(finishing.take)
      <4>1. PICK c \in Take : c = finishing.take
          BY <3>1
      <4>2. Charged(c)' \subseteq Charged(c) /\ finishing'.take = c
          BY <1>1, <4>1
      <4> QED BY <4>1, <4>2 DEF Charged, TasksOf, MayCharge
    <3> QED BY <1>0, <1>1, <2>1, <3>2 DEF VideoFinishOK, VideoIs
  <2> QED BY <1>1, <2>1 DEF VideoFinishOK
<1>8. VideoFollowOK'
    BY <1>0, <1>1 DEF VideoFollowOK, VideoIs
<1> QED BY <1>2, <1>4, <1>5, <1>6, <1>7, <1>8 DEF VideoIInv

LEMMA VideoStutterKeeps ==
    ASSUME VideoIInv, UNCHANGED videoVars
    PROVE  VideoIInv'
<1>1. UNCHANGED <<videoFiles, videoJobs, videoWork, videoPast>> /\ UNCHANGED task
    BY DEF videoVars
<1>2. \A c \in Take : Charged(c)' \subseteq Charged(c)
    BY <1>1, ChargedStays DEF videoPast
<1> QED BY <1>1, <1>2, TasksOnlyKeep DEF VideoIInv, VideoTypeOK

LEMMA TaskEndsKeeps ==
    ASSUME VideoIInv, NEW t \in TaskIds, NEW how \in {"made", "failed"}, TaskEnds(t, how)
    PROVE  VideoIInv'
<1>0. /\ task[t] # Nil /\ task[t].state = "running"
      /\ task' = [task EXCEPT ![t].state = how]
      /\ UNCHANGED <<videoFiles, videoJobs, videoWork, videoPast>>
    BY DEF TaskEnds
<1>1. task \in [TaskIds -> ProviderTask \cup {Nil}]
    BY DEF VideoIInv, VideoTypeOK
<1>2. PICK new : new = [task[t] EXCEPT !.state = how]
    OBVIOUS
<1>3. new \in ProviderTask /\ new.of = task[t].of /\ new.state = how
  <2>1. task[t] \in ProviderTask
      BY <1>0, <1>1
  <2> QED BY <1>2, <2>1 DEF ProviderTask
<1>4. task' = [task EXCEPT ![t] = new]
    BY <1>0, <1>1, <1>2
<1>5. /\ task' \in [TaskIds -> ProviderTask \cup {Nil}] /\ task'[t] = new
      /\ \A s \in TaskIds : s # t => task'[s] = task[s]
    BY <1>1, <1>3, <1>4
<1>6. \A c \in Take : Charged(c)' \subseteq Charged(c)
    BY <1>0, <1>3, <1>5 DEF Charged, TasksOf, MayCharge, videoPast
<1> QED BY <1>0, <1>5, <1>6, TasksOnlyKeep

(* Nothing is asked for while a video is followed or finished.             *)
LEMMA NotAsking ==
    ASSUME VideoIInv, (\E c \in Take : watch[c] # Nil) \/ finishing # Nil
    PROVE  ask = Nil /\ started = {}
BY DEF VideoIInv, VideoAskOK

LEMMA WatchesIs ==
    ASSUME VideoIInv, NEW c \in Take, NEW from, NEW to \in {"asking", "fetched", "done", "ended"},
           Watches(c, from, to)
    PROVE  /\ watch[c] # Nil /\ watch[c] \in Watching /\ ask = Nil /\ started = {}
           /\ VideoIs(c, "invoked") /\ videoIntent[c].task = watch[c].task
           /\ watch' \in [Take -> Watching \cup {Nil}] /\ watch'[c] # Nil
           /\ watch'[c].task = watch[c].task /\ watch'[c].step = to
           /\ \A d \in Take : d # c => watch'[d] = watch[d]
           /\ \A d \in Take : watch'[d] = Nil <=> watch[d] = Nil
           /\ UNCHANGED <<videoRevision, takeRecord, videoIntent, task, ask, started, finishing,
                          videosOpen, stranded, abandoned, videoCount>>
<1>0. /\ watch[c] # Nil /\ watch' = [watch EXCEPT ![c].step = to]
      /\ UNCHANGED <<videoRevision, takeRecord, videoIntent, task, ask, started, finishing,
                     videosOpen, stranded, abandoned, videoCount>>
    BY DEF Watches
<1>1. watch \in [Take -> Watching \cup {Nil}] /\ VideoWatchOK(c)
    BY DEF VideoIInv, VideoTypeOK
<1>2. watch[c] \in Watching
    BY <1>0, <1>1
<1>3. PICK new : new = [watch[c] EXCEPT !.step = to]
    OBVIOUS
<1>4. new \in Watching /\ new.task = watch[c].task /\ new.step = to
    BY <1>2, <1>3 DEF Watching
<1>5. watch' = [watch EXCEPT ![c] = new] /\ new # Nil
    BY <1>0, <1>1, <1>3, <1>4, VideoAssumption
<1>6. /\ watch' \in [Take -> Watching \cup {Nil}] /\ watch'[c] = new
      /\ \A d \in Take : d # c => watch'[d] = watch[d]
    BY <1>1, <1>4, <1>5
<1>7. ask = Nil /\ started = {}
    BY <1>0, NotAsking
<1> QED BY <1>0, <1>1, <1>2, <1>4, <1>5, <1>6, <1>7 DEF VideoWatchOK

(* A watcher's step leaves what its take is charged for, but for what it   *)
(* gives up, and the intents.                                              *)
LEMMA WatchStepKeeps ==
    ASSUME VideoIInv, VideoTypeOK', ask = Nil,
           \A d \in Take : SameOfTake(d), \A d \in Take : VideoWatchOK(d)',
           \A d \in Take : watch'[d] = Nil <=> watch[d] = Nil,
           UNCHANGED <<videoRevision, takeRecord, videoIntent, ask, started, finishing,
                       videosOpen, stranded>>
    PROVE  VideoIInv'
<1>0. /\ VideoTypeOK /\ VideoAskOK /\ VideoFinishOK /\ VideoFollowOK
      /\ \A d \in Take : VideoTakeOK(d)
    BY DEF VideoIInv
<1>1. \A d \in Take : VideoTakeOK(d)'
    BY <1>0, VideoTakeStays
<1>2. VideoAskOK'
    BY <1>0 DEF VideoAskOK
<1>3. VideoFinishOK'
  <2>1. CASE finishing # Nil
    <3>1. PICK c : c = finishing.take
        OBVIOUS
    <3>2. c \in Take /\ finishing'.take = c
        BY <1>0, <2>1, <3>1 DEF VideoTypeOK, TakeEnding
    <3>3. Charged(c)' \subseteq Charged(c)
        BY <3>2 DEF SameOfTake
    <3>4. /\ watch[c] = Nil
          /\ finishing.step \in {"acknowledge", "retire"} => VideoIs(c, "invoked")
          /\ finishing.step = "acknowledge" => takeRecord[c] # Nil
          /\ finishing.step = "retire" => videoIntent[c].task \notin Charged(c)
          /\ finishing.step = "remove" => videoIntent[c] = Nil \/ VideoIs(c, "reconciled")
        BY <1>0, <2>1, <3>1 DEF VideoFinishOK
    <3>5. /\ watch'[c] = Nil
          /\ finishing'.step \in {"acknowledge", "retire"} => VideoIs(c, "invoked")'
          /\ finishing'.step = "acknowledge" => takeRecord'[c] # Nil
          /\ finishing'.step = "retire" => videoIntent'[c].task \notin Charged(c)'
          /\ finishing'.step = "remove" => videoIntent'[c] = Nil \/ VideoIs(c, "reconciled")'
        BY <3>2, <3>3, <3>4 DEF VideoIs
    <3> QED BY <3>2, <3>5 DEF VideoFinishOK, VideoIs, Charged, TasksOf, MayCharge
  <2> QED BY <2>1 DEF VideoFinishOK
<1>4. VideoFollowOK'
    BY <1>0 DEF VideoFollowOK, VideoIs
<1> QED BY <1>1, <1>2, <1>3, <1>4 DEF VideoIInv

LEMMA FetchClipKeeps ==
    ASSUME VideoIInv, NEW c \in Take, FetchClip(c)
    PROVE  VideoIInv'
<1>0. /\ Watches(c, "asking", "fetched") /\ UNCHANGED <<videoReceipt, misread>>
      /\ clipFile' = [clipFile EXCEPT ![c] = watch[c].task]
    BY DEF FetchClip
<1>1. /\ VideoTypeOK /\ \A d \in Take : VideoTakeOK(d) /\ VideoWatchOK(d)
    BY DEF VideoIInv
<1>2. /\ watch[c] # Nil /\ watch[c] \in Watching /\ ask = Nil
      /\ VideoIs(c, "invoked") /\ videoIntent[c].task = watch[c].task
      /\ watch' \in [Take -> Watching \cup {Nil}] /\ watch'[c] # Nil
      /\ watch'[c].task = watch[c].task /\ watch'[c].step = "fetched"
      /\ \A d \in Take : d # c => watch'[d] = watch[d]
      /\ \A d \in Take : watch'[d] = Nil <=> watch[d] = Nil
      /\ UNCHANGED <<videoRevision, takeRecord, videoIntent, task, ask, started, finishing,
                     videosOpen, stranded, abandoned, videoCount>>
    BY <1>0, WatchesIs
<1>3. clipFile' \in [Take -> TaskIds \cup {Nil}]
    BY <1>0, <1>1, <1>2 DEF VideoTypeOK, Watching
<1>4. VideoTypeOK'
    BY <1>0, <1>1, <1>2, <1>3 DEF VideoTypeOK
<1>5. \A d \in Take : SameOfTake(d)
    BY <1>0, <1>1, <1>2, SameWhenUnchanged
<1>6. \A d \in Take : VideoWatchOK(d)'
  <2> TAKE d \in Take
  <2>1. CASE d = c
      BY <1>2, <2>1 DEF VideoWatchOK, VideoIs
  <2>2. CASE d # c
    <3>1. Charged(d)' \subseteq Charged(d)
        BY <1>5 DEF SameOfTake
    <3> QED BY <1>1, <1>2, <2>2, <3>1 DEF VideoWatchOK, VideoIs
  <2> QED BY <2>1, <2>2
<1> QED BY <1>2, <1>4, <1>5, <1>6, WatchStepKeeps

LEMMA NoteClipKeeps ==
    ASSUME VideoIInv, NEW c \in Take, NoteClip(c)
    PROVE  VideoIInv'
<1>0. PICK to \in {"done", "asking"} :
          /\ Watches(c, "fetched", to) /\ videoReceipt[c] # Nil
          /\ UNCHANGED <<clipFile, misread>>
          /\ \/ videoReceipt' = [videoReceipt EXCEPT ![c].clip = watch[c].task]
             \/ UNCHANGED videoReceipt
    BY DEF NoteClip
<1>1. /\ VideoTypeOK /\ \A d \in Take : VideoTakeOK(d) /\ VideoWatchOK(d)
    BY DEF VideoIInv
<1>2. /\ watch[c] # Nil /\ watch[c] \in Watching /\ ask = Nil
      /\ VideoIs(c, "invoked") /\ videoIntent[c].task = watch[c].task
      /\ watch' \in [Take -> Watching \cup {Nil}] /\ watch'[c] # Nil
      /\ watch'[c].task = watch[c].task /\ watch'[c].step = to
      /\ \A d \in Take : d # c => watch'[d] = watch[d]
      /\ \A d \in Take : watch'[d] = Nil <=> watch[d] = Nil
      /\ UNCHANGED <<videoRevision, takeRecord, videoIntent, task, ask, started, finishing,
                     videosOpen, stranded, abandoned, videoCount>>
    BY <1>0, WatchesIs
<1>3. /\ videoReceipt' \in [Take -> VideoReceipt \cup {Nil}]
      /\ \A d \in Take : d # c => videoReceipt'[d] = videoReceipt[d]
  <2>1. PICK new : new = [videoReceipt[c] EXCEPT !.clip = watch[c].task]
      OBVIOUS
  <2>2. new \in VideoReceipt
    <3>1. videoReceipt[c] \in VideoReceipt /\ watch[c].task \in TaskIds \cup {Nil}
        BY <1>0, <1>1, <1>2, VideoTypesAre DEF Watching
    <3> QED BY <2>1, <3>1 DEF VideoReceipt
  <2>3. videoReceipt' = [videoReceipt EXCEPT ![c] = new] \/ UNCHANGED videoReceipt
      BY <1>0, <1>1, <2>1 DEF VideoTypeOK
  <2> QED BY <1>1, <2>2, <2>3 DEF VideoTypeOK
<1>4. VideoTypeOK'
    BY <1>0, <1>1, <1>2, <1>3 DEF VideoTypeOK
<1>5. \A d \in Take : SameOfTake(d)
  <2> TAKE d \in Take
  <2>1. CASE d = c
    <3>1. ~VideoIs(c, "prepared") /\ Charged(c)' \subseteq Charged(c)
        BY <1>0, <1>2, ChargedStays DEF VideoIs
    <3> QED BY <1>1, <1>2, <2>1, <3>1 DEF SameOfTake, SameIntent, VideoTakeOK
  <2>2. CASE d # c
      BY <1>0, <1>1, <1>2, <1>3, <2>2, SameWhenUnchanged
  <2> QED BY <2>1, <2>2
<1>6. \A d \in Take : VideoWatchOK(d)'
  <2> TAKE d \in Take
  <2>1. CASE d = c
      BY <1>0, <1>2, <2>1 DEF VideoWatchOK, VideoIs
  <2>2. CASE d # c
    <3>1. Charged(d)' \subseteq Charged(d)
        BY <1>5 DEF SameOfTake
    <3> QED BY <1>1, <1>2, <2>2, <3>1 DEF VideoWatchOK, VideoIs
  <2> QED BY <2>1, <2>2
<1> QED BY <1>2, <1>4, <1>5, <1>6, WatchStepKeeps

LEMMA StopWatchingKeeps ==
    ASSUME VideoIInv, NEW c \in Take, StopWatching(c)
    PROVE  VideoIInv'
<1>0. PICK from \in {"asking", "fetched"} :
          /\ Watches(c, from, "ended") /\ UNCHANGED <<clipFile, videoReceipt>>
          /\ misread' = IF MayCharge(watch[c].task) THEN misread \cup {watch[c].task} ELSE misread
    BY DEF StopWatching
<1>1. /\ VideoTypeOK /\ \A d \in Take : VideoTakeOK(d) /\ VideoWatchOK(d)
    BY DEF VideoIInv
<1>2. /\ watch[c] # Nil /\ watch[c] \in Watching /\ ask = Nil
      /\ VideoIs(c, "invoked") /\ videoIntent[c].task = watch[c].task
      /\ watch' \in [Take -> Watching \cup {Nil}] /\ watch'[c] # Nil
      /\ watch'[c].task = watch[c].task /\ watch'[c].step = "ended"
      /\ \A d \in Take : d # c => watch'[d] = watch[d]
      /\ \A d \in Take : watch'[d] = Nil <=> watch[d] = Nil
      /\ UNCHANGED <<videoRevision, takeRecord, videoIntent, task, ask, started, finishing,
                     videosOpen, stranded, abandoned, videoCount>>
    BY <1>0, WatchesIs
<1>3. misread \subseteq misread' /\ misread' \subseteq TaskIds
    BY <1>0, <1>1, <1>2 DEF VideoTypeOK, Watching
<1>4. VideoTypeOK'
    BY <1>0, <1>1, <1>2, <1>3 DEF VideoTypeOK
<1>5. \A d \in Take : SameOfTake(d)
  <2> TAKE d \in Take
  <2>1. Charged(d)' \subseteq Charged(d)
      BY <1>2, <1>3, ChargedStays
  <2> QED BY <1>0, <1>1, <1>2, <2>1 DEF SameOfTake, SameIntent, SameReceipt, VideoTakeOK
<1>6. watch[c].task \notin Charged(c)'
    BY <1>0, <1>2 DEF Charged, TasksOf, MayCharge
<1>7. \A d \in Take : VideoWatchOK(d)'
  <2> TAKE d \in Take
  <2>1. CASE d = c
      BY <1>2, <1>6, <2>1 DEF VideoWatchOK, VideoIs
  <2>2. CASE d # c
    <3>1. Charged(d)' \subseteq Charged(d)
        BY <1>5 DEF SameOfTake
    <3> QED BY <1>1, <1>2, <2>2, <3>1 DEF VideoWatchOK, VideoIs
  <2> QED BY <2>1, <2>2
<1> QED BY <1>2, <1>4, <1>5, <1>7, WatchStepKeeps

LEMMA AttachTakeKeeps ==
    ASSUME VideoIInv, NEW c \in Take, AttachTake(c)
    PROVE  VideoIInv'
<1>0. /\ VideoTypeOK /\ VideoAskOK /\ VideoFollowOK
      /\ \A d \in Take : VideoTakeOK(d) /\ VideoWatchOK(d)
    BY DEF VideoIInv
<1>1. /\ watch[c] # Nil /\ finishing = Nil
      /\ watch' = [watch EXCEPT ![c] = Nil]
      /\ UNCHANGED <<clipFile, videoIntent, videoReceipt, task, ask, started, videosOpen,
                     abandoned, misread, videoCount>>
    BY DEF AttachTake, Unwatch, WorkerKeeps, videoJobs
<1>2. /\ ask = Nil /\ started = {} /\ VideoIs(c, "invoked")
      /\ watch' \in [Take -> Watching \cup {Nil}] /\ watch'[c] = Nil
      /\ \A d \in Take : d # c => watch'[d] = watch[d]
    BY <1>0, <1>1, NotAsking DEF VideoTypeOK, VideoWatchOK
<1>3. \/ /\ videoReceipt[c] # Nil /\ videoReceipt[c].clip # Nil
         /\ videoReceipt[c].clip = clipFile[c]
         /\ takeRecord[c] \in {Nil, [hash |-> videoReceipt[c].hash, clip |-> clipFile[c]]}
         /\ takeRecord' = [takeRecord EXCEPT ![c] =
                              [hash |-> videoReceipt[c].hash, clip |-> clipFile[c]]]
         /\ videoRevision' = IF takeRecord[c] = Nil /\ c[1] > videoRevision
                             THEN c[1] ELSE videoRevision
         /\ finishing' = [take |-> c, step |-> "acknowledge"]
         /\ UNCHANGED stranded
      \/ /\ finishing' = Nil /\ stranded' = stranded \cup {c}
         /\ UNCHANGED <<videoRevision, takeRecord>>
    BY DEF AttachTake, Strand
<1>4. CASE /\ videoReceipt[c] # Nil /\ videoReceipt[c].clip # Nil
           /\ videoReceipt[c].clip = clipFile[c]
           /\ takeRecord[c] \in {Nil, [hash |-> videoReceipt[c].hash, clip |-> clipFile[c]]}
           /\ takeRecord' = [takeRecord EXCEPT ![c] =
                                [hash |-> videoReceipt[c].hash, clip |-> clipFile[c]]]
           /\ videoRevision' = IF takeRecord[c] = Nil /\ c[1] > videoRevision
                               THEN c[1] ELSE videoRevision
           /\ finishing' = [take |-> c, step |-> "acknowledge"]
           /\ UNCHANGED stranded
  <2>1. PICK made : made = [hash |-> videoReceipt[c].hash, clip |-> clipFile[c]]
      OBVIOUS
  <2>2. made \in TakeRecord
    <3>1. videoReceipt[c] \in VideoReceipt
        BY <1>0, <1>4, VideoTypesAre
    <3>2. videoReceipt[c].hash \in Works /\ clipFile[c] \in TaskIds
        BY <1>4, <3>1 DEF VideoReceipt
    <3> QED BY <2>1, <3>2 DEF TakeRecord
  <2>3. /\ takeRecord' \in [Take -> TakeRecord \cup {Nil}] /\ takeRecord'[c] = made
        /\ \A d \in Take : d # c => takeRecord'[d] = takeRecord[d]
        /\ made # Nil
    <3>1. takeRecord' = [takeRecord EXCEPT ![c] = made]
        BY <1>4, <2>1
    <3> QED BY <1>0, <2>2, <3>1, VideoAssumption DEF VideoTypeOK
  <2>4. /\ videoRevision' \in 0..MaxVideoRevision /\ videoRevision \in Nat
        /\ videoRevision <= videoRevision'
        /\ c[1] <= videoRevision'
    <3>1. videoRevision \in Nat /\ videoRevision \in 0..MaxVideoRevision
        BY <1>0, VideoAssumption DEF VideoTypeOK
    <3>2. c[1] \in 1..MaxVideoRevision /\ c[1] \in Nat
        BY <1>0, VideoTypesAre
    <3>3. takeRecord[c] # Nil => c[1] <= videoRevision
        BY <1>0 DEF VideoTakeOK
    <3>4. videoRevision' = videoRevision \/ (videoRevision' = c[1] /\ c[1] > videoRevision)
        BY <1>4
    <3>5. videoRevision' = videoRevision => c[1] <= videoRevision
      <4>1. CASE takeRecord[c] = Nil /\ c[1] > videoRevision
          BY <1>4, <3>1, <3>2, <4>1
      <4>2. CASE ~(takeRecord[c] = Nil /\ c[1] > videoRevision)
          BY <3>1, <3>2, <3>3, <4>2
      <4> QED BY <4>1, <4>2
    <3> QED BY <3>1, <3>2, <3>4, <3>5, VideoAssumption
  <2>5. \A d \in Take : SameOfTake(d)
    <3> TAKE d \in Take
    <3>1. Charged(d)' \subseteq Charged(d)
        BY <1>1, ChargedStays
    <3>2. takeRecord[d] # Nil => takeRecord'[d] = takeRecord[d]
        BY <1>4, <2>1, <2>3
    <3>3. takeRecord'[d] # Nil => d[1] <= videoRevision'
      <4>1. CASE d = c
          BY <2>4, <4>1
      <4>2. CASE d # c
        <5>1. d[1] \in Nat /\ videoRevision' \in Nat
            BY <1>0, <2>4, VideoTypesAre, VideoAssumption
        <5> QED BY <1>0, <2>3, <2>4, <4>2, <5>1 DEF VideoTakeOK
      <4> QED BY <4>1, <4>2
    <3> QED BY <1>1, <3>1, <3>2, <3>3 DEF SameOfTake, SameIntent, SameReceipt
  <2>6. PICK end : end = [take |-> c, step |-> "acknowledge"]
      OBVIOUS
  <2>7. end \in TakeEnding /\ end.take = c /\ end.step = "acknowledge"
      BY <2>6 DEF TakeEnding
  <2>8. finishing' = end /\ end # Nil
      BY <1>4, <2>6, <2>7, VideoAssumption
  <2>9. VideoTypeOK'
      BY <1>0, <1>1, <1>2, <1>4, <2>3, <2>4, <2>7, <2>8 DEF VideoTypeOK
  <2>10. \A d \in Take : VideoTakeOK(d)'
      BY <1>0, <2>5, VideoTakeStays
  <2>11. \A d \in Take : VideoWatchOK(d)'
      BY <1>0, <1>1, <1>2 DEF VideoWatchOK, VideoIs, Charged, TasksOf, MayCharge
  <2>12. VideoAskOK'
      BY <1>0, <1>1, <1>2 DEF VideoAskOK
  <2>13. VideoFinishOK'
      BY <1>1, <1>2, <2>3, <2>7, <2>8 DEF VideoFinishOK, VideoIs
  <2>14. VideoFollowOK'
      BY <1>0, <1>1, <1>2, <1>4, <2>7, <2>8 DEF VideoFollowOK, VideoIs
  <2> QED BY <2>9, <2>10, <2>11, <2>12, <2>13, <2>14 DEF VideoIInv
<1>5. CASE /\ finishing' = Nil /\ stranded' = stranded \cup {c}
           /\ UNCHANGED <<videoRevision, takeRecord>>
  <2>1. \A d \in Take : SameOfTake(d)
      BY <1>0, <1>1, <1>5, SameWhenUnchanged
  <2>2. VideoTypeOK'
      BY <1>0, <1>1, <1>2, <1>5 DEF VideoTypeOK
  <2>3. \A d \in Take : VideoTakeOK(d)'
      BY <1>0, <2>1, VideoTakeStays
  <2>4. \A d \in Take : VideoWatchOK(d)'
      BY <1>0, <1>1, <1>2 DEF VideoWatchOK, VideoIs, Charged, TasksOf, MayCharge
  <2>5. VideoAskOK' /\ VideoFinishOK'
      BY <1>0, <1>1, <1>2, <1>5 DEF VideoAskOK, VideoFinishOK
  <2>6. VideoFollowOK'
      BY <1>0, <1>1, <1>2, <1>5 DEF VideoFollowOK, VideoIs
  <2> QED BY <2>2, <2>3, <2>4, <2>5, <2>6 DEF VideoIInv
<1> QED BY <1>3, <1>4, <1>5

LEMMA FailTakeKeeps ==
    ASSUME VideoIInv, NEW c \in Take, FailTake(c)
    PROVE  VideoIInv'
<1>0. /\ VideoTypeOK /\ VideoAskOK /\ VideoFollowOK
      /\ \A d \in Take : VideoTakeOK(d) /\ VideoWatchOK(d)
    BY DEF VideoIInv
<1>1. /\ watch[c] # Nil /\ watch[c].step = "ended" /\ finishing = Nil
      /\ watch' = [watch EXCEPT ![c] = Nil]
      /\ finishing' = [take |-> c, step |-> "retire"]
      /\ UNCHANGED <<videoRevision, takeRecord, clipFile, videoIntent, videoReceipt, task, ask,
                     started, videosOpen, stranded, abandoned, misread, videoCount>>
    BY DEF FailTake, Unwatch, WorkerKeeps, videoFiles, videoJobs
<1>2. /\ ask = Nil /\ started = {} /\ VideoIs(c, "invoked")
      /\ videoIntent[c].task \notin Charged(c)
      /\ watch' \in [Take -> Watching \cup {Nil}] /\ watch'[c] = Nil
      /\ \A d \in Take : d # c => watch'[d] = watch[d]
    BY <1>0, <1>1, NotAsking DEF VideoTypeOK, VideoWatchOK
<1>3. PICK end : end = [take |-> c, step |-> "retire"]
    OBVIOUS
<1>4. end \in TakeEnding /\ end.take = c /\ end.step = "retire"
    BY <1>3 DEF TakeEnding
<1>5. finishing' = end /\ end # Nil
    BY <1>1, <1>3, <1>4, VideoAssumption
<1>6. VideoTypeOK'
    BY <1>0, <1>1, <1>2, <1>4, <1>5 DEF VideoTypeOK
<1>7. \A d \in Take : VideoTakeOK(d)'
    BY <1>0, <1>1, SameWhenUnchanged, VideoTakeStays
<1>8. \A d \in Take : VideoWatchOK(d)'
    BY <1>0, <1>1, <1>2 DEF VideoWatchOK, VideoIs, Charged, TasksOf, MayCharge
<1>9. VideoAskOK'
    BY <1>0, <1>1, <1>2 DEF VideoAskOK
<1>10. VideoFinishOK'
    BY <1>1, <1>2, <1>4, <1>5 DEF VideoFinishOK, VideoIs, Charged, TasksOf, MayCharge
<1>11. VideoFollowOK'
    BY <1>0, <1>1, <1>2, <1>4, <1>5 DEF VideoFollowOK, VideoIs
<1> QED BY <1>6, <1>7, <1>8, <1>9, <1>10, <1>11 DEF VideoIInv

(* What the worker's last steps on a take find.                            *)
LEMMA FinishingIs ==
    ASSUME VideoIInv, finishing # Nil
    PROVE  /\ VideoTypeOK /\ VideoAskOK /\ VideoFollowOK
           /\ \A d \in Take : VideoTakeOK(d) /\ VideoWatchOK(d)
           /\ ask = Nil /\ started = {} /\ finishing \in TakeEnding
           /\ finishing.take \in Take /\ watch[finishing.take] = Nil
BY NotAsking DEF VideoIInv, VideoTypeOK, VideoFinishOK, TakeEnding

LEMMA FinishIs ==
    ASSUME finishing \in TakeEnding, NEW next \in {"acknowledge", "retire", "remove"},
           finishing' = [finishing EXCEPT !.step = next]
    PROVE  /\ finishing' \in TakeEnding /\ finishing' # Nil
           /\ finishing'.take = finishing.take /\ finishing'.step = next
<1>1. /\ finishing' \in TakeEnding
      /\ finishing'.take = finishing.take /\ finishing'.step = next
    BY DEF TakeEnding
<1> QED BY <1>1, VideoAssumption

(* The worker stops short of finishing a take, which is then stranded.     *)
LEMMA StrandKeeps ==
    ASSUME VideoIInv, finishing # Nil, Strand(finishing.take),
           UNCHANGED <<videoRevision, takeRecord, clipFile, videoIntent, videoReceipt, task, ask,
                       started, watch, videosOpen, abandoned, misread, videoCount>>
    PROVE  VideoIInv'
<1>1. finishing' = Nil /\ stranded' = stranded \cup {finishing.take}
    BY DEF Strand
<1>2. /\ VideoTypeOK /\ VideoAskOK /\ VideoFollowOK
      /\ \A d \in Take : VideoTakeOK(d) /\ VideoWatchOK(d)
      /\ ask = Nil /\ started = {} /\ finishing.take \in Take
    BY FinishingIs
<1>3. VideoTypeOK'
    BY <1>1, <1>2 DEF VideoTypeOK
<1>4. \A d \in Take : VideoTakeOK(d)' /\ VideoWatchOK(d)'
  <2> TAKE d \in Take
  <2>1. VideoTakeOK(d)'
      BY <1>2, SameWhenUnchanged, VideoTakeStays
  <2>2. VideoWatchOK(d)'
      BY <1>2 DEF VideoWatchOK, VideoIs, Charged, TasksOf, MayCharge
  <2> QED BY <2>1, <2>2
<1>5. VideoAskOK' /\ VideoFinishOK'
    BY <1>1, <1>2 DEF VideoAskOK, VideoFinishOK
<1>6. VideoFollowOK'
    BY <1>1, <1>2 DEF VideoFollowOK, VideoIs
<1> QED BY <1>3, <1>4, <1>5, <1>6 DEF VideoIInv

LEMMA AcknowledgeTakeKeeps ==
    ASSUME VideoIInv, AcknowledgeTake
    PROVE  VideoIInv'
<1>c. PICK c : c = finishing.take
    OBVIOUS
<1>0. /\ finishing # Nil /\ finishing.step = "acknowledge"
      /\ UNCHANGED <<videoRevision, takeRecord, clipFile, videoReceipt, task, ask, started,
                     watch, videosOpen, abandoned, misread, videoCount>>
    BY DEF AcknowledgeTake, Finishing, WorkerKeeps, videoFiles
<1>1. /\ VideoTypeOK /\ VideoAskOK /\ VideoFollowOK
      /\ \A d \in Take : VideoTakeOK(d) /\ VideoWatchOK(d)
      /\ ask = Nil /\ started = {} /\ finishing \in TakeEnding
      /\ c \in Take /\ watch[c] = Nil
    BY <1>0, <1>c, FinishingIs
<1>2. CASE /\ VideoIs(c, "invoked")
           /\ videoIntent' = [videoIntent EXCEPT ![c].state = "reconciled"]
           /\ Finish("remove")
  <2>1. /\ finishing' \in TakeEnding /\ finishing' # Nil
        /\ finishing'.take = c /\ finishing'.step = "remove" /\ UNCHANGED stranded
      BY <1>1, <1>c, <1>2, FinishIs DEF Finish
  <2>2. PICK new : new = [videoIntent[c] EXCEPT !.state = "reconciled"]
      OBVIOUS
  <2>3. new \in VideoIntent /\ new.state = "reconciled" /\ new.task = videoIntent[c].task
    <3>1. videoIntent[c] \in VideoIntent
        BY <1>1, <1>2, VideoTypesAre DEF VideoIs
    <3> QED BY <2>2, <3>1 DEF VideoIntent
  <2>4. /\ videoIntent' \in [Take -> VideoIntent \cup {Nil}] /\ videoIntent'[c] = new /\ new # Nil
        /\ \A d \in Take : d # c => videoIntent'[d] = videoIntent[d]
    <3>1. videoIntent' = [videoIntent EXCEPT ![c] = new]
        BY <1>1, <1>2, <2>2 DEF VideoTypeOK
    <3> QED BY <1>1, <2>3, <3>1, VideoAssumption DEF VideoTypeOK
  <2>5. VideoTypeOK'
      BY <1>0, <1>1, <2>1, <2>4 DEF VideoTypeOK
  <2>6. \A d \in Take : VideoTakeOK(d)'
    <3> TAKE d \in Take
    <3>1. CASE d = c
      <4>1. Charged(c)' \subseteq Charged(c) /\ takeRecord[c] # Nil
          BY <1>0, <1>c, ChargedStays DEF VideoIInv, VideoFinishOK
      <4>2. ~VideoIs(c, "prepared") /\ videoIntent[c] # Nil /\ ~VideoIs(c, "prepared")'
          BY <1>2, <2>3, <2>4 DEF VideoIs
      <4>3. \A t \in Charged(c)' : TaskTraced(c, t)'
          BY <1>0, <1>1, <2>3, <2>4, <4>1, <4>2 DEF VideoTakeOK, TaskTraced
      <4> QED BY <1>0, <1>1, <2>3, <2>4, <3>1, <4>1, <4>2, <4>3 DEF VideoTakeOK
    <3>2. CASE d # c
        BY <1>0, <1>1, <2>4, <3>2, SameWhenUnchanged, VideoTakeStays
    <3> QED BY <3>1, <3>2
  <2>7. \A d \in Take : VideoWatchOK(d)'
      BY <1>0, <1>1, <2>4 DEF VideoWatchOK, VideoIs, Charged, TasksOf, MayCharge
  <2>8. VideoAskOK'
      BY <1>0, <1>1 DEF VideoAskOK
  <2>9. VideoFinishOK'
      BY <1>0, <1>1, <2>1, <2>3, <2>4 DEF VideoFinishOK, VideoIs
  <2>10. VideoFollowOK'
      BY <1>0, <1>1, <1>c, <2>1, <2>3, <2>4 DEF VideoFollowOK, VideoIs
  <2> QED BY <2>5, <2>6, <2>7, <2>8, <2>9, <2>10 DEF VideoIInv
<1>3. CASE Strand(c) /\ UNCHANGED videoIntent
    BY <1>0, <1>c, <1>3, StrandKeeps
<1> QED BY <1>c, <1>2, <1>3, Zenon DEF AcknowledgeTake

LEMMA RetireRemoteFailureKeeps ==
    ASSUME VideoIInv, RetireRemoteFailure
    PROVE  VideoIInv'
<1>c. PICK c : c = finishing.take
    OBVIOUS
<1>0. /\ finishing # Nil /\ finishing.step = "retire"
      /\ UNCHANGED <<videoRevision, takeRecord, clipFile, videoReceipt, task, ask, started,
                     watch, videosOpen, abandoned, misread, videoCount>>
    BY DEF RetireRemoteFailure, Finishing, WorkerKeeps, videoFiles
<1>1. /\ VideoTypeOK /\ VideoAskOK /\ VideoFollowOK
      /\ \A d \in Take : VideoTakeOK(d) /\ VideoWatchOK(d)
      /\ ask = Nil /\ started = {} /\ finishing \in TakeEnding
      /\ c \in Take /\ watch[c] = Nil
    BY <1>0, <1>c, FinishingIs
<1>i. VideoIs(c, "invoked") /\ videoIntent[c].task \notin Charged(c)
    BY <1>0, <1>c DEF VideoIInv, VideoFinishOK
<1>2. CASE /\ videoIntent' = [videoIntent EXCEPT ![c] = Nil]
           /\ Finish("remove")
  <2>1. /\ finishing' \in TakeEnding /\ finishing' # Nil
        /\ finishing'.take = c /\ finishing'.step = "remove" /\ UNCHANGED stranded
      BY <1>1, <1>c, <1>2, FinishIs DEF Finish
  <2>2. /\ videoIntent' \in [Take -> VideoIntent \cup {Nil}] /\ videoIntent'[c] = Nil
        /\ \A d \in Take : d # c => videoIntent'[d] = videoIntent[d]
      BY <1>1, <1>2 DEF VideoTypeOK
  <2>3. VideoTypeOK'
      BY <1>0, <1>1, <2>1, <2>2 DEF VideoTypeOK
  <2>4. \A d \in Take : VideoTakeOK(d)'
    <3> TAKE d \in Take
    <3>1. CASE d = c
      <4>1. Charged(c)' \subseteq Charged(c)
          BY <1>0, ChargedStays
      <4>2. \A t \in Charged(c) : takeRecord[c] # Nil /\ takeRecord[c].clip = t
          BY <1>1, <1>i DEF VideoTakeOK, TaskTraced, VideoIs
      <4>3. \A t \in Charged(c)' : TaskTraced(c, t)'
          BY <1>0, <4>1, <4>2 DEF TaskTraced
      <4> QED BY <1>0, <1>1, <2>2, <3>1, <4>1, <4>3 DEF VideoTakeOK, VideoIs
    <3>2. CASE d # c
        BY <1>0, <1>1, <2>2, <3>2, SameWhenUnchanged, VideoTakeStays
    <3> QED BY <3>1, <3>2
  <2>5. \A d \in Take : VideoWatchOK(d)'
      BY <1>0, <1>1, <2>2 DEF VideoWatchOK, VideoIs, Charged, TasksOf, MayCharge
  <2>6. VideoAskOK'
      BY <1>0, <1>1 DEF VideoAskOK
  <2>7. VideoFinishOK'
      BY <1>0, <1>1, <2>1, <2>2 DEF VideoFinishOK, VideoIs
  <2>8. VideoFollowOK'
      BY <1>0, <1>1, <1>c, <2>1, <2>2 DEF VideoFollowOK, VideoIs
  <2> QED BY <2>3, <2>4, <2>5, <2>6, <2>7, <2>8 DEF VideoIInv
<1>3. CASE Strand(c) /\ UNCHANGED videoIntent
    BY <1>0, <1>c, <1>3, StrandKeeps
<1>4. \/ /\ videoIntent' = [videoIntent EXCEPT ![c] = IF VideoIs(c, "invoked") THEN Nil ELSE @]
         /\ Finish("remove")
      \/ Strand(c) /\ UNCHANGED videoIntent
    BY <1>c, Zenon DEF RetireRemoteFailure
<1> QED BY <1>2, <1>3, <1>4, <1>i

LEMMA RemoveReceiptKeeps ==
    ASSUME VideoIInv, RemoveReceipt
    PROVE  VideoIInv'
<1>c. PICK c : c = finishing.take
    OBVIOUS
<1>0. /\ finishing # Nil /\ finishing.step = "remove" /\ finishing' = Nil
      /\ \/ videoReceipt' = [videoReceipt EXCEPT ![c] = Nil]
         \/ UNCHANGED videoReceipt
      /\ UNCHANGED <<videoRevision, takeRecord, clipFile, videoIntent, task, ask, started,
                     watch, videosOpen, stranded, abandoned, misread, videoCount>>
    BY <1>c DEF RemoveReceipt, Finishing, WorkerKeeps, videoFiles
<1>1. /\ VideoTypeOK /\ VideoAskOK /\ VideoFollowOK
      /\ \A d \in Take : VideoTakeOK(d) /\ VideoWatchOK(d)
      /\ ask = Nil /\ started = {} /\ c \in Take /\ watch[c] = Nil
    BY <1>0, <1>c, FinishingIs
<1>2. ~VideoIs(c, "prepared") /\ ~VideoIs(c, "invoked")
    BY <1>0, <1>c DEF VideoIInv, VideoFinishOK, VideoIs
<1>3. /\ videoReceipt' \in [Take -> VideoReceipt \cup {Nil}]
      /\ \A d \in Take : d # c => videoReceipt'[d] = videoReceipt[d]
    BY <1>0, <1>1 DEF VideoTypeOK
<1>4. VideoTypeOK'
    BY <1>0, <1>1, <1>3 DEF VideoTypeOK
<1>5. \A d \in Take : SameOfTake(d)
  <2> TAKE d \in Take
  <2>1. CASE d = c
    <3>1. Charged(d)' \subseteq Charged(d)
        BY <1>0, ChargedStays
    <3> QED BY <1>0, <1>1, <1>2, <2>1, <3>1 DEF SameOfTake, SameIntent, VideoTakeOK
  <2>2. CASE d # c
      BY <1>0, <1>1, <1>3, <2>2, SameWhenUnchanged
  <2> QED BY <2>1, <2>2
<1>6. \A d \in Take : VideoTakeOK(d)'
    BY <1>1, <1>5, VideoTakeStays
<1>7. \A d \in Take : VideoWatchOK(d)'
    BY <1>0, <1>1 DEF VideoWatchOK, VideoIs, Charged, TasksOf, MayCharge
<1>8. VideoAskOK' /\ VideoFinishOK'
    BY <1>0, <1>1 DEF VideoAskOK, VideoFinishOK
<1>9. VideoFollowOK'
    BY <1>0, <1>1, <1>c, <1>2 DEF VideoFollowOK, VideoIs
<1> QED BY <1>4, <1>6, <1>7, <1>8, <1>9 DEF VideoIInv

LEMMA StopVideosKeeps ==
    ASSUME VideoIInv, StopVideos
    PROVE  VideoIInv'
<1>0. /\ videoCount.stops < MaxStops
      /\ videoCount' = [videoCount EXCEPT !.stops = @ + 1]
      /\ videosOpen' = FALSE /\ ask' = Nil /\ started' = {} /\ watch' = Nothing(Take)
      /\ finishing' = Nil /\ stranded' = {}
      /\ UNCHANGED <<videoRevision, takeRecord, clipFile, videoIntent, videoReceipt, task,
                     abandoned, misread>>
    BY DEF StopVideos, videoFiles, videoJobs
<1>1. VideoTypeOK /\ \A d \in Take : VideoTakeOK(d)
    BY DEF VideoIInv
<1>2. watch' \in [Take -> Watching \cup {Nil}] /\ \A d \in Take : watch'[d] = Nil
    BY <1>0 DEF Nothing
<1>3. videoCount' \in [asks: 0..MaxAsks, stops: 0..MaxStops]
  <2>1. videoCount \in [asks: 0..MaxAsks, stops: 0..MaxStops]
      BY <1>1 DEF VideoTypeOK
  <2>2. videoCount.stops + 1 \in 0..MaxStops
      BY <2>1, <1>0, VideoAssumption
  <2> QED BY <1>0, <2>1, <2>2
<1>4. VideoTypeOK'
    BY <1>0, <1>1, <1>2, <1>3 DEF VideoTypeOK
<1>5. \A d \in Take : VideoTakeOK(d)' /\ VideoWatchOK(d)'
    BY <1>0, <1>1, <1>2, SameWhenUnchanged, VideoTakeStays DEF VideoWatchOK
<1>6. VideoAskOK' /\ VideoFinishOK' /\ VideoFollowOK'
    BY <1>0, <1>2 DEF VideoAskOK, VideoFinishOK, VideoFollowOK
<1> QED BY <1>4, <1>5, <1>6 DEF VideoIInv

(* A take found accepted holds the task its receipt held.                  *)
LEMMA FoundAcceptedIs ==
    ASSUME VideoTypeOK, \A c \in Take : VideoTakeOK(c), NEW S, S \subseteq Take,
           videoIntent' = FoundAccepted(S),
           UNCHANGED <<videoRevision, takeRecord, videoReceipt, task, abandoned, misread>>
    PROVE  /\ videoIntent' \in [Take -> VideoIntent \cup {Nil}]
           /\ \A c \in Take : VideoTakeOK(c)'
<1>1. \A c \in Take : videoIntent'[c] =
          IF c \in S /\ VideoIs(c, "prepared") /\ AcceptedTask(c, videoIntent[c].hash) # Nil
          THEN [videoIntent[c] EXCEPT !.state = "invoked", !.failed = FALSE,
                                      !.task = AcceptedTask(c, videoIntent[c].hash)]
          ELSE videoIntent[c]
    BY DEF FoundAccepted
<1>2. \A c \in Take : videoIntent'[c] \in VideoIntent \cup {Nil} /\ VideoTakeOK(c)'
  <2> TAKE c \in Take
  <2>1. CASE c \in S /\ VideoIs(c, "prepared") /\ AcceptedTask(c, videoIntent[c].hash) # Nil
    <3>t. PICK t : t = AcceptedTask(c, videoIntent[c].hash)
        OBVIOUS
    <3>1. videoIntent[c] \in VideoIntent /\ videoIntent[c] # Nil
        BY <2>1, VideoTypesAre DEF VideoIs
    <3>2. t \in TaskIds /\ t # Nil
      <4>1. videoReceipt[c] # Nil /\ t = videoReceipt[c].task /\ t # Nil
          BY <2>1, <3>t DEF AcceptedTask
      <4>2. videoReceipt[c] \in VideoReceipt
          BY <4>1, VideoTypesAre
      <4> QED BY <4>1, <4>2 DEF VideoReceipt
    <3>3. PICK new : new = [videoIntent[c] EXCEPT !.state = "invoked", !.failed = FALSE,
                                                  !.task = t]
        OBVIOUS
    <3>4. new \in VideoIntent /\ new.state = "invoked" /\ new.task = t
        BY <3>1, <3>2, <3>3 DEF VideoIntent
    <3>5. videoIntent'[c] = new /\ new # Nil
        BY <1>1, <2>1, <3>t, <3>3, <3>4, VideoAssumption
    <3>6. Charged(c)' \subseteq Charged(c)
        BY ChargedStays
    <3>7. VideoIs(c, "invoked")' /\ ~VideoIs(c, "prepared")' /\ ~VideoIs(c, "reconciled")'
        BY <3>4, <3>5 DEF VideoIs
    <3>8. \A s \in Charged(c)' : TaskTraced(c, s)'
      <4> TAKE s \in Charged(c)'
      <4>1. TaskTraced(c, s)
          BY <3>6 DEF VideoTakeOK
      <4>2. (takeRecord[c] # Nil /\ takeRecord[c].clip = s) \/ s = t
          BY <2>1, <3>t, <4>1 DEF TaskTraced
      <4> QED BY <3>4, <3>5, <3>7, <4>2 DEF TaskTraced
    <3> QED BY <3>2, <3>4, <3>5, <3>6, <3>7, <3>8 DEF VideoTakeOK
  <2>2. CASE ~(c \in S /\ VideoIs(c, "prepared") /\ AcceptedTask(c, videoIntent[c].hash) # Nil)
    <3>1. videoIntent'[c] = videoIntent[c]
        BY <1>1, <2>2
    <3>2. VideoTakeOK(c)'
        BY <3>1, SameWhenUnchanged, VideoTakeStays
    <3> QED BY <3>1, <3>2 DEF VideoTypeOK
  <2> QED BY <2>1, <2>2
<1>3. videoIntent' = [c \in Take |-> videoIntent'[c]]
    BY DEF FoundAccepted
<1> QED BY <1>2, <1>3

LEMMA OpenVideosKeeps ==
    ASSUME VideoIInv, OpenVideos
    PROVE  VideoIInv'
<1>0. /\ ~videosOpen /\ videosOpen' = TRUE
      /\ UNCHANGED <<videoRevision, takeRecord, clipFile, videoReceipt, task, ask, started,
                     finishing, abandoned, misread, videoCount>>
    BY DEF OpenVideos, videoFiles, videoPast
<1>1. /\ VideoTypeOK /\ ask = Nil /\ started = {} /\ finishing = Nil
      /\ \A d \in Take : VideoTakeOK(d) /\ watch[d] = Nil
    BY <1>0 DEF VideoIInv, VideoFollowOK, VideoAskOK
<1>2. PICK S \in SUBSET Take : videoIntent' = FoundAccepted(S)
  <2>1. Take \in SUBSET Take
      OBVIOUS
  <2> QED BY <2>1, Zenon DEF OpenVideos
<1>3. /\ videoIntent' \in [Take -> VideoIntent \cup {Nil}]
      /\ \A d \in Take : VideoTakeOK(d)'
    BY <1>0, <1>1, <1>2, FoundAcceptedIs
<1>4. VideoAskOK' /\ VideoFinishOK'
    BY <1>0, <1>1 DEF VideoAskOK, VideoFinishOK
<1>5. \A d \in Take : d \in InvokedIn(videoIntent') <=> VideoIs(d, "invoked")'
    BY DEF InvokedIn, VideoIs
<1>6. CASE /\ watch' = [c \in Take |-> IF c \in InvokedIn(videoIntent')
                                       THEN [task |-> videoIntent'[c].task, step |-> "asking"]
                                       ELSE Nil]
           /\ UNCHANGED stranded
  <2>1. \A d \in Take : VideoIs(d, "invoked")' =>
            /\ watch'[d] \in Watching /\ watch'[d] # Nil
            /\ watch'[d].task = videoIntent'[d].task /\ watch'[d].step = "asking"
    <3> TAKE d \in Take
    <3> HAVE VideoIs(d, "invoked")'
    <3>1. videoIntent'[d].task \in TaskIds
      <4>1. videoIntent'[d] # Nil /\ videoIntent'[d].task # Nil
          BY <1>3 DEF VideoIs, VideoTakeOK
      <4> QED BY <1>3, <4>1 DEF VideoIntent
    <3>2. PICK w : w = [task |-> videoIntent'[d].task, step |-> "asking"]
        OBVIOUS
    <3>3. w \in Watching /\ w.task = videoIntent'[d].task /\ w.step = "asking"
        BY <3>1, <3>2 DEF Watching
    <3>4. watch'[d] = w
        BY <1>5, <1>6, <3>2
    <3> QED BY <3>3, <3>4, VideoAssumption
  <2>2. \A d \in Take : ~VideoIs(d, "invoked")' => watch'[d] = Nil
      BY <1>5, <1>6
  <2>3. watch' \in [Take -> Watching \cup {Nil}]
    <3>1. watch' = [d \in Take |-> watch'[d]]
        BY <1>6
    <3> QED BY <2>1, <2>2, <3>1
  <2>4. VideoTypeOK'
      BY <1>0, <1>1, <1>3, <1>6, <2>3 DEF VideoTypeOK
  <2>5. \A d \in Take : VideoWatchOK(d)'
      BY <2>1, <2>2 DEF VideoWatchOK
  <2>6. VideoFollowOK'
      BY <1>0, <2>1 DEF VideoFollowOK
  <2> QED BY <1>3, <1>4, <2>4, <2>5, <2>6 DEF VideoIInv
<1>7. CASE stranded' = InvokedIn(videoIntent') /\ UNCHANGED watch
  <2>1. VideoTypeOK'
      BY <1>0, <1>1, <1>3, <1>7 DEF VideoTypeOK, InvokedIn
  <2>2. \A d \in Take : VideoWatchOK(d)'
      BY <1>1, <1>7 DEF VideoWatchOK
  <2>3. VideoFollowOK'
      BY <1>0, <1>5, <1>7 DEF VideoFollowOK
  <2> QED BY <1>3, <1>4, <2>1, <2>2, <2>3 DEF VideoIInv
<1> QED BY <1>6, <1>7, Zenon DEF OpenVideos

LEMMA VideoInitIs ==
    ASSUME VideoInit
    PROVE  VideoIInv
<1>0. /\ videoRevision = 0
      /\ takeRecord = [c \in Take |-> Nil] /\ clipFile = [c \in Take |-> Nil]
      /\ videoIntent = [c \in Take |-> Nil] /\ videoReceipt = [c \in Take |-> Nil]
      /\ task = [t \in TaskIds |-> Nil] /\ watch = [c \in Take |-> Nil]
      /\ ask = Nil /\ started = {} /\ finishing = Nil /\ videosOpen = TRUE /\ stranded = {}
      /\ abandoned = {} /\ misread = {} /\ videoCount = [asks |-> 0, stops |-> 0]
    BY DEF VideoInit, Nothing
<1>1. VideoTypeOK
    BY <1>0, VideoAssumption DEF VideoTypeOK
<1>2. \A c \in Take : VideoTakeOK(c) /\ VideoWatchOK(c)
    BY <1>0 DEF VideoTakeOK, VideoWatchOK, VideoIs, Charged, TasksOf, MayCharge
<1>3. VideoAskOK /\ VideoFinishOK /\ VideoFollowOK
    BY <1>0 DEF VideoAskOK, VideoFinishOK, VideoFollowOK, VideoIs
<1> QED BY <1>1, <1>2, <1>3 DEF VideoIInv

(* The invariant under the videos of a shot: whatever is interrupted, a    *)
(* task that may be charged can be found again from the take's record,     *)
(* intent or receipt, or is one of an attempt only the director may give   *)
(* up (video.rs: submit_one, finish; session.rs: finish_videos,            *)
(* resume_videos).                                                         *)
THEOREM VideoInvariance == VideoSpec => []VideoIInv
<1>1. VideoInit => VideoIInv
    BY VideoInitIs
<1>2. VideoIInv /\ [VideoNext]_videoVars => VideoIInv'
  <2> SUFFICES ASSUME VideoIInv, [VideoNext]_videoVars PROVE VideoIInv'
      OBVIOUS
  <2>1. CASE \E count \in 1..Takes, hash \in Works, consent \in BOOLEAN :
                AskVideos(count, hash, consent)
      BY <2>1, AskVideosKeeps
  <2>2. CASE AskSteps
    <3>1. CASE \E t \in TaskIds : TaskAccepted(t)
        BY <3>1, TaskAcceptedKeeps
    <3>2. CASE LookAtTake \/ ForgetReceipt \/ PrepareTake \/ WriteReceipt \/ AskFails
        BY <3>2, LookAtTakeKeeps, ForgetReceiptKeeps, PrepareTakeKeeps, WriteReceiptKeeps,
           AskFailsKeeps
    <3>3. CASE CountSubmission \/ InvokeTake \/ TaskRefused \/ AnswerLost \/ RecordTask
               \/ SaveInvoked \/ SaveFailure
        BY <3>3, CountSubmissionKeeps, InvokeTakeKeeps, TaskRefusedKeeps, AnswerLostKeeps,
           RecordTaskKeeps, SaveInvokedKeeps, SaveFailureKeeps
    <3> QED BY <2>2, <3>1, <3>2, <3>3 DEF AskSteps
  <2>3. CASE \E t \in TaskIds, how \in {"made", "failed"} : TaskEnds(t, how)
      BY <2>3, TaskEndsKeeps
  <2>4. CASE \E c \in Take : FetchClip(c) \/ NoteClip(c) \/ StopWatching(c)
      BY <2>4, FetchClipKeeps, NoteClipKeeps, StopWatchingKeeps
  <2>5. CASE WorkerSteps
      BY <2>5, AttachTakeKeeps, FailTakeKeeps, AcknowledgeTakeKeeps, RetireRemoteFailureKeeps,
         RemoveReceiptKeeps DEF WorkerSteps
  <2>6. CASE StopVideos \/ OpenVideos
      BY <2>6, StopVideosKeeps, OpenVideosKeeps
  <2>7. CASE UNCHANGED videoVars
      BY <2>7, VideoStutterKeeps
  <2> QED BY <2>1, <2>2, <2>3, <2>4, <2>5, <2>6, <2>7 DEF VideoNext
<1> QED BY <1>1, <1>2, PTL DEF VideoSpec

LEMMA TracedIsKnown ==
    ASSUME VideoTypeOK, NEW c \in Take, NEW t \in TaskIds, TaskTraced(c, t)
    PROVE  KnownTask(c, t)
<1>1. CASE takeRecord[c] # Nil /\ takeRecord[c].clip = t
    BY <1>1 DEF KnownTask
<1>2. CASE videoIntent[c] # Nil /\ ~VideoIs(c, "prepared") /\ videoIntent[c].task = t
    BY <1>2 DEF KnownTask
<1>3. CASE /\ VideoIs(c, "prepared") /\ videoIntent[c].attempts > 0
           /\ AcceptedTask(c, videoIntent[c].hash) = t
    BY <1>3 DEF KnownTask
<1>4. CASE /\ VideoIs(c, "prepared") /\ videoIntent[c].attempts > 0
           /\ AcceptedTask(c, videoIntent[c].hash) = Nil /\ ~RefusedLast(c)
  <2>1. videoIntent[c].attempts \in Nat
    <3>1. videoIntent[c] \in VideoIntent
        BY <1>4, VideoTypesAre DEF VideoIs
    <3> QED BY <3>1, VideoAssumption DEF VideoIntent
  <2>2. LastAttempt(c) = "unresolved"
      BY <1>4, <2>1 DEF LastAttempt
  <2> QED BY <1>4, <2>2 DEF KnownTask
<1> QED BY <1>1, <1>2, <1>3, <1>4 DEF TaskTraced

(* VideoIsPaidOnceAndFollowed for every number of takes, requests, tasks   *)
(* and stops: no take is paid for twice or lost sight of, and what was     *)
(* submitted is followed.                                                  *)
THEOREM VideosArePaidOnce == VideoSpec => []VideoIsPaidOnceAndFollowed
<1>1. VideoIInv => VideoIsPaidOnceAndFollowed
  <2> SUFFICES ASSUME VideoIInv PROVE VideoIsPaidOnceAndFollowed
      OBVIOUS
  <2>0. /\ VideoTypeOK /\ VideoAskOK /\ VideoFollowOK
        /\ \A c \in Take : VideoTakeOK(c) /\ VideoWatchOK(c)
      BY DEF VideoIInv
  <2>1. ASSUME NEW c \in Take
        PROVE  Cardinality(Charged(c)) <= 1 /\ \A t \in Charged(c) : KnownTask(c, t)
    <3>1. \A t \in Charged(c) : t \in TaskIds /\ KnownTask(c, t)
        BY <2>0, <2>1, TracedIsKnown DEF VideoTakeOK, Charged, TasksOf
    <3>2. Charged(c) = {} \/ \E t \in Charged(c) : Charged(c) = {t}
        BY <2>0, <2>1 DEF VideoTakeOK
    <3>3. Cardinality(Charged(c)) \in {0, 1}
        BY <3>2, FS_EmptySet, FS_Singleton
    <3> QED BY <3>1, <3>3
  <2>2. \A c \in Take : Cardinality(TasksOf(c) \ (abandoned \cup misread)) <= 1
                        /\ \A t \in TasksOf(c) \ (abandoned \cup misread) : KnownTask(c, t)
      BY <2>1 DEF Charged
  <2>3. ASSUME videosOpen, ask = Nil, NEW c \in Take, VideoIs(c, "invoked")
        PROVE  \/ watch[c] # Nil /\ watch[c].task = videoIntent[c].task
               \/ finishing # Nil /\ finishing.take = c
               \/ c \in stranded
      BY <2>0, <2>3 DEF VideoFollowOK, VideoAskOK, VideoWatchOK
  <2> QED BY <2>2, <2>3 DEF VideoIsPaidOnceAndFollowed
<1> QED BY <1>1, VideoInvariance, PTL

-----------------------------------------------------------------------------
(* Voice auditions.                                                        *)

(* Paid for no more often than the director risked paying again for.       *)
SpeechClear(j) == speechCharged[j] <= speechRisked[j]

(* What is true of each number, whoever is at it: one paid for once more   *)
(* than was risked was answered, or its call is unresolved.                *)
SpokenOK(j) ==
    /\ speechCharged[j] <= 1 + speechRisked[j]
    /\ SpeechClear(j) \/ SpeechIs(j, "invoked") \/ SpeechIs(j, "reconciled") \/ UnresolvedCall(j)
    /\ Sounds(j) => /\ SpeechIs(j, "invoked") \/ SpeechIs(j, "reconciled")
                    /\ audioFile[j] = auditions[j[1]][j[2]].clip
    /\ SpeechIs(j, "invoked") => Sounds(j) \/ Completed(j, speechIntent[j].hash)
    /\ SpeechIs(j, "reconciled") => Sounds(j)

VoiceOK(c) ==
    voiceLock[c] # 0 => /\ voiceLock[c] \in DOMAIN auditions[c]
                        /\ auditions[c][voiceLock[c]].status # "rejected"

(* The turn: its steps are one request's at a time, and none's while the   *)
(* session recovers.                                                       *)
TurnOK ==
    /\ \A c \in Characters, d \in Characters : InTurn(c) /\ InTurn(d) => c = d
    /\ speaker = NoSpeech => recovering = {} /\ \A c \in Characters : saying[c] = NoSpeech
    /\ recovering # {} => \A c \in Characters : ~InTurn(c)
    /\ \A j \in recovering : SpeechIs(j, "invoked") /\ ~SpeechClaimed(j)

(* What a request knows of the number it speaks.                           *)
SpeaksOK(c, j) ==
    /\ saying[c].step \in (OutsideTurn \ {"record", "over"}) \cup {"receipt"} =>
          SpeechIs(j, "prepared") /\ speechIntent[j].hash = saying[c].hash
    /\ saying[c].step \in {"receipt", "count"} => ~speechIntent[j].tried
    /\ saying[c].step \in {"call", "answered", "written", "save"} => speechIntent[j].tried
    /\ saying[c].step \in {"count", "call", "answered", "written", "save"} =>
          /\ speechReceipt[j] # NoSpeech /\ speechReceipt[j].hash = saying[c].hash
          /\ ~speechReceipt[j].refused
    /\ saying[c].step = "call" => SpeechClear(j)
    /\ saying[c].step \in {"answered", "written", "save"} => saying[c].clip # NoSpeech
    /\ saying[c].step \in {"written", "save"} => audioFile[j] = saying[c].clip
    /\ saying[c].step = "save" => speechReceipt[j].clip = saying[c].clip
    /\ saying[c].step = "record" => SpeechIs(j, "invoked")

(* What a request has yet to finish was answered, what it has to retire    *)
(* was not, and neither is another's.                                      *)
SayingOK(c) ==
    saying[c] # NoSpeech =>
        /\ saying[c].step \in {"finish", "retire"} =>
              /\ saying[c].number = 0
              /\ \A j \in saying[c].todo :
                    /\ ~SpeechClaimed(j)
                    /\ SpeechIs(j, IF saying[c].step = "finish" THEN "invoked" ELSE "prepared")
        /\ saying[c].step \notin {"finish", "retire"} =>
              saying[c].number # 0 /\ SpeaksOK(c, Numbered(c))

SpeechIInv ==
    /\ SpeechTypeOK /\ TurnOK
    /\ \A j \in Spoken : SpokenOK(j)
    /\ \A c \in Characters : VoiceOK(c) /\ SayingOK(c)

LEMMA SpeechTypesAre ==
    ASSUME SpeechTypeOK
    PROVE  /\ \A j \in Spoken :
                /\ speechIntent[j] # NoSpeech => speechIntent[j] \in SpeechIntent
                /\ speechReceipt[j] # NoSpeech => speechReceipt[j] \in SpeechReceipt
                /\ j[1] \in Characters /\ j[2] \in 1..MaxSpoken /\ j = <<j[1], j[2]>>
           /\ \A c \in Characters : saying[c] # NoSpeech => saying[c] \in Saying
<1>1. \A j \in Spoken : j[1] \in Characters /\ j[2] \in 1..MaxSpoken /\ j = <<j[1], j[2]>>
    BY DEF Spoken
<1>2. \A j \in Spoken :
          /\ speechIntent[j] # NoSpeech => speechIntent[j] \in SpeechIntent
          /\ speechReceipt[j] # NoSpeech => speechReceipt[j] \in SpeechReceipt
    BY DEF SpeechTypeOK
<1> QED BY <1>1, <1>2 DEF SpeechTypeOK

(* The records of the jobs and of the requests are not NoSpeech.           *)
LEMMA NoSpeechIsNone ==
    /\ \A x \in SpeechIntent : x # NoSpeech
    /\ \A x \in SpeechReceipt : x # NoSpeech
    /\ \A x \in Saying : x # NoSpeech
    /\ \A x \in Clip : x # NoSpeech
    /\ \A x \in Speakers : x # NoSpeech
BY SpeechAssumption

(* What a step leaves of a number.                                         *)
SameJob(j) ==
    /\ speechIntent'[j] = speechIntent[j] /\ speechReceipt'[j] = speechReceipt[j]
    /\ audioFile'[j] = audioFile[j]
    /\ speechCharged'[j] = speechCharged[j] /\ speechRisked'[j] = speechRisked[j]

LEMMA SpokenStays ==
    ASSUME NEW j \in Spoken, SpokenOK(j), SameJob(j), auditions'[j[1]] = auditions[j[1]]
    PROVE  SpokenOK(j)'
<1>1. /\ Sounds(j)' <=> Sounds(j)
      /\ \A state : SpeechIs(j, state)' <=> SpeechIs(j, state)
      /\ SpeechClear(j)' <=> SpeechClear(j)
    BY DEF SameJob, Sounds, SpeechIs, SpeechClear
<1>2. UnresolvedCall(j)' <=> UnresolvedCall(j)
    BY DEF SameJob, UnresolvedCall, RefusedCall, HasReceipt, SpeechIs
<1>3. Completed(j, speechIntent[j].hash)' <=> Completed(j, speechIntent[j].hash)
    BY DEF SameJob, Completed, HasReceipt
<1> QED BY <1>1, <1>2, <1>3 DEF SpokenOK, SameJob

(* The number a request speaks, and no other's.                            *)
LEMMA NumberedIs ==
    ASSUME SpeechTypeOK, NEW c \in Characters, saying[c] # NoSpeech, saying[c].number # 0
    PROVE  /\ Numbered(c) \in Spoken /\ Numbered(c)[1] = c
           /\ Numbered(c)[2] = saying[c].number /\ SpeechClaimed(Numbered(c))
<1>1. saying[c] \in Saying
    BY SpeechTypesAre
<1>2. saying[c].number \in 1..MaxSpoken
    BY <1>1 DEF Saying
<1> QED BY <1>2 DEF Numbered, Spoken, SpeechClaimed

(* A request that waits goes on knowing what it knows of its number.       *)
LEMMA SayingStays ==
    ASSUME SpeechTypeOK, NEW c \in Characters, SayingOK(c), ~InTurn(c), saying'[c] = saying[c],
           \A j \in Spoken : j[1] = c /\ SpeechClaimed(j) => SameJob(j)
    PROVE  SayingOK(c)' /\ ~InTurn(c)'
<1>1. CASE saying[c] = NoSpeech
    BY <1>1 DEF SayingOK, InTurn
<1>2. CASE saying[c] # NoSpeech
  <2>1. saying[c].step \in OutsideTurn /\ saying[c].step \notin {"finish", "retire"}
      BY <1>2 DEF InTurn, OutsideTurn
  <2>2. saying[c].number # 0 /\ SpeaksOK(c, Numbered(c))
      BY <1>2, <2>1 DEF SayingOK
  <2>3. PICK j : j = Numbered(c)
      OBVIOUS
  <2>4. Numbered(c)' = j /\ SameJob(j)
      BY <1>2, <2>2, <2>3, NumberedIs DEF Numbered
  <2>5. SpeaksOK(c, j)'
      BY <1>2, <2>2, <2>3, <2>4 DEF SpeaksOK, SameJob, SpeechIs, SpeechClear
  <2>6. SpeaksOK(c, Numbered(c))'
      BY <2>4, <2>5 DEF SpeaksOK
  <2> QED BY <1>2, <2>1, <2>2, <2>6 DEF SayingOK, InTurn
<1> QED BY <1>1, <1>2

(* A step of a request outside the turn, at its own number only.           *)
LEMMA OutsideStepKeeps ==
    ASSUME SpeechIInv, NEW c \in Characters, saying[c] # NoSpeech,
           saying[c].step \in OutsideTurn, SpeechTypeOK',
           NEW s, saying' = [saying EXCEPT ![c] = s], s # NoSpeech,
           s.number = saying[c].number, s.step \in OutsideTurn,
           NEW k \in Spoken, k = Numbered(c), \A j \in Spoken : j # k => SameJob(j),
           SpokenOK(k)', SpeaksOK(c, k)',
           UNCHANGED <<auditions, voiceLock, speaker, recovering>>
    PROVE  SpeechIInv'
<1>0. /\ SpeechTypeOK /\ TurnOK
      /\ \A j \in Spoken : SpokenOK(j)
      /\ \A d \in Characters : VoiceOK(d) /\ SayingOK(d)
    BY DEF SpeechIInv
<1>1. /\ saying'[c] = s /\ \A d \in Characters : d # c => saying'[d] = saying[d]
      /\ ~InTurn(c) /\ ~InTurn(c)' /\ \A d \in Characters : d # c => (InTurn(d)' <=> InTurn(d))
    BY <1>0 DEF SpeechTypeOK, InTurn
<1>2. saying[c].number # 0 /\ Numbered(c)' = k
    BY <1>0, <1>1 DEF SayingOK, OutsideTurn, Numbered
<1>3. \A j \in Spoken : /\ SpeechClaimed(j)' <=> SpeechClaimed(j)
                        /\ ~SpeechClaimed(j) => j # k
                        /\ j[1] # c => j # k
    BY <1>0, <1>1, <1>2, NumberedIs, SpeechTypesAre DEF SpeechClaimed
<1>4. \A j \in Spoken : SpokenOK(j)'
    BY <1>0, SpokenStays
<1>5. TurnOK'
  <2>1. recovering \subseteq Spoken
      BY <1>0 DEF SpeechTypeOK
  <2>2. \A j \in recovering' : SpeechIs(j, "invoked")' /\ ~SpeechClaimed(j)'
      BY <1>0, <1>3, <2>1 DEF TurnOK, SameJob, SpeechIs
  <2>3. speaker' # NoSpeech
      BY <1>0 DEF TurnOK
  <2> QED BY <1>0, <1>1, <2>2, <2>3 DEF TurnOK
<1>6. \A d \in Characters : VoiceOK(d)'
    BY <1>0 DEF VoiceOK
<1>7. ASSUME NEW d \in Characters PROVE SayingOK(d)'
  <2>1. CASE d = c
    <3>1. SpeaksOK(c, Numbered(c))'
        BY <1>2 DEF SpeaksOK
    <3> QED BY <1>1, <1>2, <2>1, <3>1 DEF SayingOK, OutsideTurn
  <2>2. CASE d # c /\ ~InTurn(d)
      BY <1>0, <1>1, <1>3, <2>2, SayingStays
  <2>3. CASE d # c /\ InTurn(d)
    <3>1. CASE saying[d].step \in {"finish", "retire"}
      <4>1. saying[d].todo \subseteq Spoken
        <5>1. saying[d] \in Saying
            BY <1>0, <2>3, SpeechTypesAre DEF InTurn
        <5> QED BY <5>1 DEF Saying
      <4>2. \A j \in saying[d].todo : SpeechIs(j, "invoked")' <=> SpeechIs(j, "invoked")
          BY <1>0, <1>3, <2>3, <3>1, <4>1 DEF SayingOK, InTurn, SameJob, SpeechIs
      <4>3. \A j \in saying[d].todo : SpeechIs(j, "prepared")' <=> SpeechIs(j, "prepared")
          BY <1>0, <1>3, <2>3, <3>1, <4>1 DEF SayingOK, InTurn, SameJob, SpeechIs
      <4> QED BY <1>0, <1>1, <1>3, <2>3, <3>1, <4>1, <4>2, <4>3 DEF SayingOK, InTurn
    <3>2. CASE saying[d].step \notin {"finish", "retire"}
      <4>1. saying[d].number # 0 /\ SpeaksOK(d, Numbered(d))
          BY <1>0, <2>3, <3>2 DEF SayingOK, InTurn
      <4>2. PICK j : j = Numbered(d)
          OBVIOUS
      <4>3. Numbered(d)' = j /\ SameJob(j)
          BY <1>0, <1>1, <1>3, <2>3, <4>1, <4>2, NumberedIs DEF Numbered, InTurn
      <4>4. SpeaksOK(d, j)'
          BY <1>1, <2>3, <4>1, <4>2, <4>3 DEF SpeaksOK, SameJob, SpeechIs, SpeechClear
      <4>5. SpeaksOK(d, Numbered(d))'
          BY <4>3, <4>4 DEF SpeaksOK
      <4> QED BY <1>1, <2>3, <3>2, <4>1, <4>5 DEF SayingOK
    <3> QED BY <3>1, <3>2
  <2> QED BY <2>1, <2>2, <2>3
<1> QED BY <1>4, <1>5, <1>6, <1>7 DEF SpeechIInv

(* A step with the turn: no other request's number is touched.             *)
LEMMA TurnStepKeeps ==
    ASSUME SpeechIInv, NEW c \in Characters, HasTurn(c), speaker # NoSpeech, SpeechTypeOK',
           NEW s, saying' = [saying EXCEPT ![c] = s],
           \A j \in Spoken : j[1] # c /\ SpeechClaimed(j) => SameJob(j),
           \A j \in Spoken : SpokenOK(j)', \A d \in Characters : VoiceOK(d)',
           SayingOK(c)', UNCHANGED <<speaker, recovering>>
    PROVE  SpeechIInv'
<1>0. /\ SpeechTypeOK /\ TurnOK
      /\ \A d \in Characters : SayingOK(d)
    BY DEF SpeechIInv
<1>1. /\ recovering' = {} /\ \A d \in Characters : d # c => ~InTurn(d)
      /\ \A d \in Characters : d # c => saying'[d] = saying[d]
    BY <1>0 DEF HasTurn, SpeechTypeOK
<1>2. \A d \in Characters : d # c => SayingOK(d)' /\ ~InTurn(d)'
    BY <1>0, <1>1, SayingStays
<1>3. TurnOK'
    BY <1>1, <1>2 DEF TurnOK
<1> QED BY <1>2, <1>3 DEF SpeechIInv

LEMMA LogsAre ==
    ASSUME SpeechTypeOK, NEW c \in Characters
    PROVE  /\ auditions[c] \in Seq(Audition) /\ Len(auditions[c]) \in 0..MaxSpoken
           /\ DOMAIN auditions[c] = 1..Len(auditions[c])
           /\ \A n \in DOMAIN auditions[c] : auditions[c][n] \in Audition
<1>1. auditions[c] \in Seq(Audition) /\ Len(auditions[c]) <= MaxSpoken
    BY DEF SpeechTypeOK
<1>2. Len(auditions[c]) \in Nat /\ DOMAIN auditions[c] = 1..Len(auditions[c])
    BY <1>1, LenProperties
<1>3. \A n \in 1..Len(auditions[c]) : auditions[c][n] \in Audition
    BY <1>1, ElementOfSeq
<1> QED BY <1>1, <1>2, <1>3, SpeechAssumption

(* An answer attached to the log of its character is the audition of its   *)
(* number, and no other one of the log changes.                            *)
LEMMA AttachesIs ==
    ASSUME SpeechTypeOK, NEW j \in Spoken, Completed(j, speechIntent[j].hash), Attaches(j)
    PROVE  /\ auditions' \in [Characters -> Seq(Audition)]
           /\ \A c \in Characters : Len(auditions'[c]) <= MaxSpoken
           /\ \A i \in Spoken : Sounds(i) =>
                Sounds(i)' /\ auditions'[i[1]][i[2]] = auditions[i[1]][i[2]]
           /\ \A i \in Spoken : Sounds(i)' => Sounds(i) \/ i = j
           /\ \A c \in Characters : \A n \in DOMAIN auditions[c] :
                n \in DOMAIN auditions'[c] /\ auditions'[c][n] = auditions[c][n]
           /\ Sounds(j)' /\ auditions'[j[1]][j[2]].clip = audioFile[j]
<1>1. j[1] \in Characters /\ j[2] \in 1..MaxSpoken /\ j = <<j[1], j[2]>>
    BY SpeechTypesAre
<1>2. PICK log : log = auditions[j[1]]
    OBVIOUS
<1>3. /\ log \in Seq(Audition) /\ Len(log) \in 0..MaxSpoken /\ DOMAIN log = 1..Len(log)
      /\ \A n \in DOMAIN log : log[n] \in Audition
    BY <1>1, <1>2, LogsAre
<1>4. CASE /\ Sounds(j) /\ [log[j[2]] EXCEPT !.status = "candidate"] = AuditionOf(j)
           /\ UNCHANGED auditions
  <2>1. log[j[2]] \in Audition
      BY <1>2, <1>3, <1>4 DEF Sounds
  <2>2. log[j[2]].clip = audioFile[j]
      BY <1>4, <2>1 DEF Audition, AuditionOf
  <2> QED BY <1>2, <1>4, <2>2 DEF Sounds, SpeechTypeOK
<1>5. CASE /\ j[2] = Len(log) + 1
           /\ auditions' = [auditions EXCEPT ![j[1]] = Append(log, AuditionOf(j))]
  <2>1. PICK new : new = AuditionOf(j)
      OBVIOUS
  <2>2. new \in Audition /\ new.clip = audioFile[j]
    <3>1. speechReceipt[j] \in SpeechReceipt /\ audioFile[j] # NoSpeech
        BY SpeechTypesAre DEF Completed, HasReceipt
    <3>2. speechReceipt[j].hash \in SpeechHash /\ audioFile[j] \in Clip
        BY <3>1 DEF SpeechReceipt, SpeechTypeOK
    <3> QED BY <2>1, <3>2 DEF AuditionOf, Audition
  <2>3. PICK longer : longer = Append(log, new)
      OBVIOUS
  <2>4. /\ longer \in Seq(Audition) /\ Len(longer) = Len(log) + 1
        /\ \A n \in 1..Len(log) : longer[n] = log[n]
        /\ longer[Len(log) + 1] = new
      BY <1>3, <2>2, <2>3, AppendProperties
  <2>5. DOMAIN longer = 1..(Len(log) + 1)
      BY <2>4, LenProperties
  <2>6. /\ auditions' = [auditions EXCEPT ![j[1]] = longer]
        /\ auditions'[j[1]] = longer
        /\ \A c \in Characters : c # j[1] => auditions'[c] = auditions[c]
        /\ auditions' \in [Characters -> Seq(Audition)]
      BY <1>1, <1>5, <2>1, <2>3, <2>4 DEF SpeechTypeOK
  <2>7. j[2] \in DOMAIN longer /\ longer[j[2]] = new /\ j[2] \notin DOMAIN log
      BY <1>1, <1>3, <1>5, <2>4, <2>5
  <2>8. \A n \in DOMAIN log : n \in DOMAIN longer /\ longer[n] = log[n]
      BY <1>3, <2>4, <2>5
  <2>9. \A n \in DOMAIN longer : n \in DOMAIN log \/ n = j[2]
      BY <1>3, <1>5, <2>5
  <2>10. \A c \in Characters : Len(auditions'[c]) <= MaxSpoken
    <3> SUFFICES ASSUME NEW c \in Characters PROVE Len(auditions'[c]) <= MaxSpoken
        OBVIOUS
    <3>1. CASE c = j[1]
        BY <1>1, <1>3, <1>5, <2>4, <2>6, <3>1, SpeechAssumption
    <3>2. CASE c # j[1]
        BY <2>6, <3>2 DEF SpeechTypeOK
    <3> QED BY <3>1, <3>2
  <2>11. \A i \in Spoken : /\ i[1] \in Characters
                           /\ i[1] = j[1] /\ i[2] = j[2] => i = j
      BY <1>1, SpeechTypesAre
  <2>12. \A c \in Characters : \A n \in DOMAIN auditions[c] :
            n \in DOMAIN auditions'[c] /\ auditions'[c][n] = auditions[c][n]
      BY <1>2, <2>6, <2>8
  <2>13. \A i \in Spoken : Sounds(i) =>
            Sounds(i)' /\ auditions'[i[1]][i[2]] = auditions[i[1]][i[2]]
      BY <2>11, <2>12 DEF Sounds
  <2>14. \A i \in Spoken : Sounds(i)' => Sounds(i) \/ i = j
      BY <1>2, <2>6, <2>9, <2>11 DEF Sounds
  <2>15. Sounds(j)' /\ auditions'[j[1]][j[2]].clip = audioFile[j]
      BY <2>2, <2>6, <2>7 DEF Sounds
  <2> QED BY <2>6, <2>10, <2>12, <2>13, <2>14, <2>15
<1> QED BY <1>2, <1>4, <1>5 DEF Attaches

(* Recording an answer, as far as it gets, leaves what is true of every    *)
(* number, and changes no other number's job.                              *)
LEMMA RecordAnswerIs ==
    ASSUME SpeechTypeOK, \A i \in Spoken : SpokenOK(i), \A c \in Characters : VoiceOK(c),
           NEW j \in Spoken, SpeechIs(j, "invoked"), RecordAnswer(j),
           UNCHANGED <<voiceLock, audioFile, speechCharged, speechRisked>>
    PROVE  /\ auditions' \in [Characters -> Seq(Audition)]
           /\ \A c \in Characters : Len(auditions'[c]) <= MaxSpoken
           /\ speechIntent' \in [Spoken -> SpeechIntent \cup {NoSpeech}]
           /\ speechReceipt' \in [Spoken -> SpeechReceipt \cup {NoSpeech}]
           /\ \A i \in Spoken : i # j => SameJob(i)
           /\ \A i \in Spoken : SpokenOK(i)'
           /\ \A c \in Characters : VoiceOK(c)'
<1>1. CASE UNCHANGED <<auditions, speechJobs>>
  <2>1. \A i \in Spoken : SameJob(i)
      BY <1>1 DEF SameJob, speechJobs
  <2>2. \A i \in Spoken : SpokenOK(i)'
      BY <1>1, <2>1, SpokenStays
  <2>3. \A c \in Characters : VoiceOK(c)'
      BY <1>1 DEF VoiceOK
  <2> QED BY <1>1, <2>1, <2>2, <2>3 DEF SpeechTypeOK, speechJobs
<1>2. CASE /\ Completed(j, speechIntent[j].hash) /\ Attaches(j)
           /\ \/ UNCHANGED speechJobs
              \/ Acknowledges(j) /\ (Forgets(j) \/ UNCHANGED speechReceipt)
  <2>1. /\ auditions' \in [Characters -> Seq(Audition)]
        /\ \A c \in Characters : Len(auditions'[c]) <= MaxSpoken
        /\ \A i \in Spoken : Sounds(i) =>
              Sounds(i)' /\ auditions'[i[1]][i[2]] = auditions[i[1]][i[2]]
        /\ \A i \in Spoken : Sounds(i)' => Sounds(i) \/ i = j
        /\ \A c \in Characters : \A n \in DOMAIN auditions[c] :
              n \in DOMAIN auditions'[c] /\ auditions'[c][n] = auditions[c][n]
        /\ Sounds(j)' /\ auditions'[j[1]][j[2]].clip = audioFile[j]
      BY <1>2, AttachesIs
  <2>2. \A c \in Characters : VoiceOK(c)'
      BY <2>1 DEF VoiceOK
  <2>3. speechIntent[j] \in SpeechIntent /\ speechIntent[j] # NoSpeech
      BY SpeechTypesAre DEF SpeechIs
  <2>4. PICK done : done = [speechIntent[j] EXCEPT !.state = "reconciled"]
      OBVIOUS
  <2>5. done \in SpeechIntent /\ done.state = "reconciled"
      BY <2>3, <2>4 DEF SpeechIntent
  <2>6. Acknowledges(j) => speechIntent' = [speechIntent EXCEPT ![j] = done]
      BY <2>4 DEF Acknowledges, SpeechTypeOK
  <2>7. /\ speechIntent' \in [Spoken -> SpeechIntent \cup {NoSpeech}]
        /\ \A i \in Spoken : i # j => speechIntent'[i] = speechIntent[i]
        /\ speechIntent'[j] = speechIntent[j] \/ speechIntent'[j] = done
      BY <1>2, <2>5, <2>6 DEF SpeechTypeOK, speechJobs
  <2>8. /\ speechReceipt' \in [Spoken -> SpeechReceipt \cup {NoSpeech}]
        /\ \A i \in Spoken : i # j => speechReceipt'[i] = speechReceipt[i]
      BY <1>2 DEF SpeechTypeOK, speechJobs, Forgets
  <2>9. \A i \in Spoken : i # j => SameJob(i)
      BY <2>7, <2>8 DEF SameJob
  <2>10. SpokenOK(j)'
    <3>1. SpeechIs(j, "invoked")' \/ SpeechIs(j, "reconciled")'
        BY <2>5, <2>7, NoSpeechIsNone DEF SpeechIs
    <3> QED BY <2>1, <3>1 DEF SpokenOK
  <2>11. ASSUME NEW i \in Spoken, i # j PROVE SpokenOK(i)'
    <3>1. SameJob(i) /\ SpokenOK(i)
        BY <2>9, <2>11
    <3>2. /\ Sounds(i)' <=> Sounds(i)
          /\ Sounds(i) => auditions'[i[1]][i[2]] = auditions[i[1]][i[2]]
        BY <2>1, <2>11
    <3>3. /\ \A state : SpeechIs(i, state)' <=> SpeechIs(i, state)
          /\ SpeechClear(i)' <=> SpeechClear(i)
        BY <3>1 DEF SameJob, SpeechIs, SpeechClear
    <3>4. UnresolvedCall(i)' <=> UnresolvedCall(i)
        BY <3>1 DEF SameJob, UnresolvedCall, RefusedCall, HasReceipt, SpeechIs
    <3>5. Completed(i, speechIntent[i].hash)' <=> Completed(i, speechIntent[i].hash)
        BY <3>1 DEF SameJob, Completed, HasReceipt
    <3> QED BY <3>1, <3>2, <3>3, <3>4, <3>5 DEF SpokenOK, SameJob
  <2> QED BY <2>1, <2>2, <2>7, <2>8, <2>9, <2>10, <2>11
<1> QED BY <1>1, <1>2 DEF RecordAnswer

(* Jobs whose audio is at hand become answered; no claimed one is among    *)
(* them.                                                                   *)
LEMMA SaveReadyIs ==
    ASSUME SpeechTypeOK, \A i \in Spoken : SpokenOK(i), NEW P, NEW S \in SUBSET ReadyFor(P),
           SaveReady(S),
           UNCHANGED <<auditions, audioFile, speechReceipt, speechCharged, speechRisked>>
    PROVE  /\ speechIntent' \in [Spoken -> SpeechIntent \cup {NoSpeech}]
           /\ \A j \in Spoken : SpeechClaimed(j) => SameJob(j)
           /\ \A j \in S : j \in Spoken /\ SpeechIs(j, "invoked")' /\ ~SpeechClaimed(j)
           /\ \A j \in Spoken : SpokenOK(j)'
<1>1. \A j \in S : /\ j \in Spoken /\ ~SpeechClaimed(j) /\ speechIntent[j] # NoSpeech
                   /\ speechIntent[j] \in SpeechIntent
                   /\ Completed(j, speechIntent[j].hash)
    BY SpeechTypesAre DEF ReadyFor, SeenBy
<1>2. ASSUME NEW j \in S
      PROVE  /\ speechIntent'[j] \in SpeechIntent /\ speechIntent'[j] # NoSpeech
             /\ speechIntent'[j].state = "invoked"
             /\ speechIntent'[j].hash = speechIntent[j].hash
  <2>1. speechIntent'[j] = [speechIntent[j] EXCEPT !.state = "invoked", !.failed = FALSE]
      BY <1>1 DEF SaveReady
  <2>2. PICK saved : saved = [speechIntent[j] EXCEPT !.state = "invoked", !.failed = FALSE]
      OBVIOUS
  <2>3. /\ saved \in SpeechIntent /\ saved.state = "invoked"
        /\ saved.hash = speechIntent[j].hash
      BY <1>1, <2>2 DEF SpeechIntent
  <2> QED BY <2>1, <2>2, <2>3, NoSpeechIsNone
<1>3. \A j \in Spoken : j \notin S => speechIntent'[j] = speechIntent[j]
    BY DEF SaveReady
<1>4. speechIntent' \in [Spoken -> SpeechIntent \cup {NoSpeech}]
  <2>1. \A j \in Spoken : speechIntent'[j] \in SpeechIntent \cup {NoSpeech}
      BY <1>2, <1>3 DEF SpeechTypeOK
  <2>2. PICK f : f = speechIntent'
      OBVIOUS
  <2>3. f = [j \in Spoken |-> f[j]]
      BY <2>2 DEF SaveReady
  <2> QED BY <2>1, <2>2, <2>3
<1>5. \A j \in Spoken : j \notin S => SameJob(j)
    BY <1>3 DEF SameJob
<1>6. ASSUME NEW j \in Spoken PROVE SpokenOK(j)'
  <2>1. CASE j \notin S
      BY <1>5, <2>1, SpokenStays
  <2>2. CASE j \in S
    <3>1. SpeechIs(j, "invoked")' /\ ~SpeechIs(j, "reconciled")'
        BY <1>2, <2>2 DEF SpeechIs
    <3>2. Completed(j, speechIntent[j].hash)'
        BY <1>1, <1>2, <2>2 DEF Completed, HasReceipt
    <3>3. Sounds(j) => audioFile[j] = auditions[j[1]][j[2]].clip
        BY DEF SpokenOK
    <3>4. speechCharged[j] <= 1 + speechRisked[j]
        BY DEF SpokenOK
    <3> QED BY <3>1, <3>2, <3>3, <3>4 DEF SpokenOK, Sounds
  <2> QED BY <2>1, <2>2
<1> QED BY <1>1, <1>2, <1>4, <1>5, <1>6 DEF SpeechIs

LEMMA SpeechInvIs ==
    ASSUME SpeechIInv
    PROVE  /\ SpeechTypeOK /\ TurnOK
           /\ \A j \in Spoken : SpokenOK(j)
           /\ \A c \in Characters : /\ VoiceOK(c) /\ SayingOK(c)
                                    /\ saying[c] # NoSpeech =>
                                         saying[c] \in Saying /\ speaker # NoSpeech
BY SpeechTypesAre DEF SpeechIInv, TurnOK

LEMMA JobsStay ==
    ASSUME \A j \in Spoken : SpokenOK(j), \A c \in Characters : VoiceOK(c),
           UNCHANGED <<speechFiles, speechJobs, speechCharged, speechRisked>>
    PROVE  /\ \A j \in Spoken : SameJob(j) /\ SpokenOK(j)'
           /\ \A c \in Characters : VoiceOK(c)'
<1>1. \A j \in Spoken : SameJob(j) /\ auditions'[j[1]] = auditions[j[1]]
    BY DEF SameJob, speechFiles, speechJobs
<1>2. \A c \in Characters : VoiceOK(c)'
    BY DEF VoiceOK, speechFiles
<1> QED BY <1>1, <1>2, SpokenStays

LEMMA SayGoIs ==
    ASSUME SpeechTypeOK, NEW c \in Characters, saying[c] # NoSpeech, NEW step \in SayStep,
           SayGo(c, step)
    PROVE  \E s \in Saying :
              /\ saying' = [saying EXCEPT ![c] = s] /\ s # NoSpeech
              /\ s.step = step /\ s.number = saying[c].number /\ s.hash = saying[c].hash
              /\ s.clip = saying[c].clip /\ s.todo = saying[c].todo
<1>1. PICK s : s = [saying[c] EXCEPT !.step = step]
    OBVIOUS
<1>2. saying[c] \in Saying
    BY SpeechTypesAre
<1>3. /\ s \in Saying /\ s.step = step /\ s.number = saying[c].number
      /\ s.hash = saying[c].hash /\ s.clip = saying[c].clip /\ s.todo = saying[c].todo
    BY <1>1, <1>2 DEF Saying
<1>4. saying' = [saying EXCEPT ![c] = s]
    BY <1>1 DEF SayGo, SpeechTypeOK
<1> QED BY <1>3, <1>4, NoSpeechIsNone

(* A request that ends with the turn.                                      *)
LEMMA EndsKeeps ==
    ASSUME SpeechIInv, NEW c \in Characters, saying[c] # NoSpeech, HasTurn(c), SayEnd(c),
           UNCHANGED <<speechFiles, speechJobs, speaker, recovering, speechPast>>
    PROVE  SpeechIInv'
<1>1. /\ SpeechTypeOK /\ speaker # NoSpeech
      /\ \A j \in Spoken : SpokenOK(j)
      /\ \A d \in Characters : VoiceOK(d)
    BY SpeechInvIs
<1>2. /\ \A j \in Spoken : SameJob(j) /\ SpokenOK(j)'
      /\ \A d \in Characters : VoiceOK(d)'
    BY <1>1, JobsStay DEF speechPast
<1>3. saying' = [saying EXCEPT ![c] = NoSpeech] /\ saying'[c] = NoSpeech
    BY <1>1 DEF SayEnd, SpeechTypeOK
<1>4. SpeechTypeOK'
    BY <1>1, <1>3 DEF SpeechTypeOK, speechFiles, speechJobs, speechPast
<1>5. SayingOK(c)'
    BY <1>3 DEF SayingOK
<1> QED BY <1>1, <1>2, <1>3, <1>4, <1>5, TurnStepKeeps

LEMMA AskAuditionKeeps ==
    ASSUME SpeechIInv, NEW c \in Characters, NEW line \in Lines, NEW risks \in BOOLEAN,
           AskAudition(c, line, risks)
    PROVE  SpeechIInv'
<1>0. /\ speaker # NoSpeech /\ saying[c] = NoSpeech /\ HasTurn(c)
      /\ speechCount.asks < MaxSpeechAsks
      /\ speechCount' = [speechCount EXCEPT !.asks = @ + 1]
      /\ UNCHANGED <<auditions, voiceLock, audioFile, speechReceipt, speaker, recovering,
                     speechCharged, speechRisked>>
    BY DEF AskAudition, SpeechKeeps
<1>1. /\ SpeechTypeOK /\ \A j \in Spoken : SpokenOK(j)
 /\ \A d \in Characters : VoiceOK(d)
    BY SpeechInvIs
<1>2. speechCount' \in [clips: 0..MaxClips, asks: 0..MaxSpeechAsks, stops: 0..MaxSpeechStops]
  <2>1. speechCount.asks + 1 \in 0..MaxSpeechAsks
      BY <1>0, <1>1, SpeechAssumption DEF SpeechTypeOK
  <2> QED BY <1>0, <1>1, <2>1 DEF SpeechTypeOK
<1>3. \A d \in Characters : VoiceOK(d)'
    BY <1>0, <1>1 DEF VoiceOK
<1>4. ASSUME NEW S \in SUBSET ReadyFor({speaker}), SaveReady(S)
      PROVE  /\ speechIntent' \in [Spoken -> SpeechIntent \cup {NoSpeech}]
             /\ \A j \in Spoken : SpeechClaimed(j) => SameJob(j)
             /\ \A j \in S : j \in Spoken /\ SpeechIs(j, "invoked")' /\ ~SpeechClaimed(j)
             /\ \A j \in Spoken : SpokenOK(j)'
    BY <1>0, <1>1, <1>4, SaveReadyIs
<1>5. CASE /\ SaveReady(ReadyFor({speaker}))
           /\ saying' = [saying EXCEPT ![c] =
                [hash |-> [by |-> speaker, line |-> line], risks |-> risks,
                 step |-> "finish", number |-> 0, todo |-> ReadyFor({speaker}),
                 clip |-> NoSpeech]]
  <2>1. PICK S : S = ReadyFor({speaker})
      OBVIOUS
  <2>2. /\ speechIntent' \in [Spoken -> SpeechIntent \cup {NoSpeech}]
        /\ \A j \in Spoken : SpeechClaimed(j) => SameJob(j)
        /\ \A j \in S : j \in Spoken /\ SpeechIs(j, "invoked")' /\ ~SpeechClaimed(j)
        /\ \A j \in Spoken : SpokenOK(j)'
      BY <1>4, <1>5, <2>1
  <2>3. PICK s : s = [hash |-> [by |-> speaker, line |-> line], risks |-> risks,
                      step |-> "finish", number |-> 0, todo |-> S, clip |-> NoSpeech]
      OBVIOUS
  <2>4. /\ s \in Saying /\ s # NoSpeech /\ s.step = "finish" /\ s.number = 0 /\ s.todo = S
        /\ saying' = [saying EXCEPT ![c] = s]
    <3>1. [by |-> speaker, line |-> line] \in SpeechHash
        BY <1>0, <1>1 DEF SpeechTypeOK, SpeechHash
    <3>2. S \subseteq Spoken /\ 0 \in 0..MaxSpoken /\ "finish" \in SayStep
        BY <2>2, SpeechAssumption DEF SayStep
    <3>3. s \in Saying
        BY <2>3, <3>1, <3>2 DEF Saying
    <3> QED BY <1>5, <2>1, <2>3, <3>3, NoSpeechIsNone
  <2>5. /\ saying'[c] = s /\ saying' \in [Characters -> Saying \cup {NoSpeech}]
        /\ \A d \in Characters : d # c => saying'[d] = saying[d]
      BY <1>1, <2>4 DEF SpeechTypeOK
  <2>6. \A j \in S : ~SpeechClaimed(j)'
    <3>1. \A j \in S : j[1] \in Characters /\ j[2] # 0
        BY <1>1, <2>2, SpeechTypesAre
    <3> QED BY <2>2, <2>4, <2>5, <3>1 DEF SpeechClaimed
  <2>7. SayingOK(c)'
      BY <2>2, <2>4, <2>5, <2>6 DEF SayingOK
  <2>8. SpeechTypeOK'
      BY <1>0, <1>1, <1>2, <2>2, <2>5 DEF SpeechTypeOK
  <2> QED BY <1>0, <1>3, <2>2, <2>4, <2>7, <2>8, TurnStepKeeps
<1>6. CASE (\E S \in SUBSET ReadyFor({speaker}) : SaveReady(S)) /\ UNCHANGED saying
  <2>1. /\ speechIntent' \in [Spoken -> SpeechIntent \cup {NoSpeech}]
        /\ \A j \in Spoken : SpeechClaimed(j) => SameJob(j)
        /\ \A j \in Spoken : SpokenOK(j)'
      BY <1>4, <1>6
  <2>2. saying' = [saying EXCEPT ![c] = NoSpeech]
      BY <1>0, <1>1, <1>6 DEF SpeechTypeOK
  <2>3. SayingOK(c)'
      BY <1>0, <1>6 DEF SayingOK
  <2>4. SpeechTypeOK'
      BY <1>0, <1>1, <1>2, <1>6, <2>1 DEF SpeechTypeOK
  <2> QED BY <1>0, <1>3, <2>1, <2>2, <2>3, <2>4, TurnStepKeeps
<1> QED BY <1>5, <1>6 DEF AskAudition

(* What a request with the turn has left to do, less the job it is at.     *)
LEMMA LessTodoIs ==
    ASSUME SpeechTypeOK, NEW c \in Characters, saying[c] # NoSpeech, NEW j,
           saying' = [saying EXCEPT ![c].todo = @ \ {j}]
    PROVE  \E s \in Saying :
              /\ saying' = [saying EXCEPT ![c] = s] /\ s # NoSpeech
              /\ s.step = saying[c].step /\ s.number = saying[c].number
              /\ s.todo = saying[c].todo \ {j}
<1>1. PICK s : s = [saying[c] EXCEPT !.todo = saying[c].todo \ {j}]
    OBVIOUS
<1>2. saying[c] \in Saying
    BY SpeechTypesAre
<1>3. /\ s \in Saying /\ s.step = saying[c].step /\ s.number = saying[c].number
      /\ s.todo = saying[c].todo \ {j}
    BY <1>1, <1>2 DEF Saying
<1>4. saying' = [saying EXCEPT ![c] = s]
    BY <1>1 DEF SpeechTypeOK
<1> QED BY <1>3, <1>4, NoSpeechIsNone

(* A job a request has to finish or to retire is no live request's, and no *)
(* job it has left to do changes when that one does.                       *)
LEMMA TodoStepKeeps ==
    ASSUME SpeechIInv, NEW c \in Characters, HasTurn(c), NEW step \in {"finish", "retire"},
           SayAt(c, step), NEW j \in saying[c].todo,
           saying' = [saying EXCEPT ![c].todo = @ \ {j}],
           \A i \in Spoken : i # j => SameJob(i), \A i \in Spoken : SpokenOK(i)',
           \A d \in Characters : VoiceOK(d)',
           auditions' \in [Characters -> Seq(Audition)],
           \A d \in Characters : Len(auditions'[d]) <= MaxSpoken,
           speechIntent' \in [Spoken -> SpeechIntent \cup {NoSpeech}],
           speechReceipt' \in [Spoken -> SpeechReceipt \cup {NoSpeech}],
           speechRisked' \in [Spoken -> Nat],
           UNCHANGED <<voiceLock, audioFile, speaker, recovering, speechCharged, speechCount>>
    PROVE  SpeechIInv'
<1>1. /\ SpeechTypeOK /\ SayingOK(c) /\ saying[c] # NoSpeech /\ speaker # NoSpeech
      /\ saying[c] \in Saying /\ saying[c].step = step
    BY SpeechInvIs DEF SayAt
<1>2. /\ saying[c].number = 0 /\ saying[c].todo \subseteq Spoken
      /\ \A i \in saying[c].todo :
            ~SpeechClaimed(i) /\ SpeechIs(i, IF step = "finish" THEN "invoked" ELSE "prepared")
    BY <1>1 DEF SayingOK, Saying
<1>3. PICK s \in Saying :
          /\ saying' = [saying EXCEPT ![c] = s] /\ s # NoSpeech
          /\ s.step = saying[c].step /\ s.number = saying[c].number
          /\ s.todo = saying[c].todo \ {j}
    BY <1>1, LessTodoIs
<1>4. /\ saying'[c] = s /\ saying' \in [Characters -> Saying \cup {NoSpeech}]
      /\ \A d \in Characters : d # c => saying'[d] = saying[d]
    BY <1>1, <1>3 DEF SpeechTypeOK
<1>5. \A i \in s.todo : ~SpeechClaimed(i)'
  <2>1. \A i \in s.todo : i[1] \in Characters /\ i[2] # 0 /\ ~SpeechClaimed(i)
      BY <1>1, <1>2, <1>3, SpeechTypesAre
  <2> QED BY <1>2, <1>3, <1>4, <2>1 DEF SpeechClaimed
<1>6. \A i \in s.todo : SpeechIs(i, IF step = "finish" THEN "invoked" ELSE "prepared")'
  <2>1. \A i \in s.todo : SameJob(i)
      BY <1>2, <1>3
  <2> QED BY <1>2, <1>3, <2>1 DEF SpeechIs, SameJob
<1>7. SayingOK(c)'
    BY <1>1, <1>2, <1>3, <1>4, <1>5, <1>6 DEF SayingOK
<1>8. SpeechTypeOK'
    BY <1>1, <1>4 DEF SpeechTypeOK
<1>9. \A i \in Spoken : i[1] # c /\ SpeechClaimed(i) => SameJob(i)
    BY <1>2
<1> QED BY <1>1, <1>3, <1>7, <1>8, <1>9, TurnStepKeeps

LEMMA FinishAnswerKeeps ==
    ASSUME SpeechIInv, NEW c \in Characters, NEW j \in Spoken, FinishAnswer(c, j)
    PROVE  SpeechIInv'
<1>0. /\ SayAt(c, "finish") /\ HasTurn(c) /\ j \in saying[c].todo /\ RecordAnswer(j)
      /\ saying' = [saying EXCEPT ![c].todo = @ \ {j}]
      /\ UNCHANGED <<voiceLock, audioFile, speaker, recovering, speechCharged, speechRisked,
                     speechCount>>
    BY DEF FinishAnswer, SpeechKeeps, speechPast
<1>1. /\ SpeechTypeOK /\ \A i \in Spoken : SpokenOK(i)
 /\ \A d \in Characters : VoiceOK(d)
    BY SpeechInvIs
<1>2. SpeechIs(j, "invoked")
    BY <1>0, SpeechInvIs DEF SayingOK, SayAt
<1>3. /\ auditions' \in [Characters -> Seq(Audition)]
      /\ \A d \in Characters : Len(auditions'[d]) <= MaxSpoken
      /\ speechIntent' \in [Spoken -> SpeechIntent \cup {NoSpeech}]
      /\ speechReceipt' \in [Spoken -> SpeechReceipt \cup {NoSpeech}]
      /\ \A i \in Spoken : i # j => SameJob(i)
      /\ \A i \in Spoken : SpokenOK(i)'
      /\ \A d \in Characters : VoiceOK(d)'
    BY <1>0, <1>1, <1>2, RecordAnswerIs
<1>4. speechRisked' \in [Spoken -> Nat]
    BY <1>0, <1>1 DEF SpeechTypeOK
<1> QED BY <1>0, <1>3, <1>4, TodoStepKeeps

LEMMA RetireCallKeeps ==
    ASSUME SpeechIInv, NEW c \in Characters, NEW j \in Spoken, RetireCall(c, j)
    PROVE  SpeechIInv'
<1>0. /\ SayAt(c, "retire") /\ HasTurn(c) /\ j \in saying[c].todo
      /\ saying' = [saying EXCEPT ![c].todo = @ \ {j}]
      /\ UNCHANGED <<auditions, voiceLock, audioFile, speaker, recovering, speechCharged,
                     speechCount>>
    BY DEF RetireCall, SpeechKeeps
<1>1. /\ SpeechTypeOK /\ \A i \in Spoken : SpokenOK(i)
 /\ \A d \in Characters : VoiceOK(d)
    BY SpeechInvIs
<1>2. SpeechIs(j, "prepared")
    BY <1>0, SpeechInvIs DEF SayingOK, SayAt
<1>3. CASE /\ Retires(c, j)
           /\ speechIntent' = [speechIntent EXCEPT ![j] = NoSpeech]
           /\ Forgets(j) \/ UNCHANGED speechReceipt
           /\ speechRisked' = IF UnresolvedCall(j) /\ j[1] = c
                              THEN [speechRisked EXCEPT ![j] = @ + 1] ELSE speechRisked
  <2>1. /\ speechIntent' \in [Spoken -> SpeechIntent \cup {NoSpeech}]
        /\ speechReceipt' \in [Spoken -> SpeechReceipt \cup {NoSpeech}]
        /\ speechIntent'[j] = NoSpeech
        /\ \A i \in Spoken : i # j => /\ speechIntent'[i] = speechIntent[i]
                                      /\ speechReceipt'[i] = speechReceipt[i]
      BY <1>1, <1>3 DEF SpeechTypeOK, Forgets
  <2>2. speechCharged[j] \in Nat /\ speechRisked[j] \in Nat
      BY <1>1 DEF SpeechTypeOK
  <2>3. /\ speechRisked' \in [Spoken -> Nat]
        /\ \A i \in Spoken : i # j => speechRisked'[i] = speechRisked[i]
        /\ speechRisked'[j] \in Nat /\ speechRisked'[j] >= speechRisked[j]
        /\ UnresolvedCall(j) => speechRisked'[j] = speechRisked[j] + 1
    <3>1. UnresolvedCall(j) => j[1] = c
        BY <1>3 DEF Retires
    <3>2. CASE UnresolvedCall(j)
        BY <1>1, <1>3, <2>2, <3>1, <3>2 DEF SpeechTypeOK
    <3>3. CASE ~UnresolvedCall(j)
        BY <1>1, <1>3, <2>2, <3>3 DEF SpeechTypeOK
    <3> QED BY <3>2, <3>3
  <2>4. SpeechClear(j)'
    <3>1. SpeechClear(j) \/ UnresolvedCall(j)
        BY <1>1, <1>2 DEF SpokenOK, SpeechIs
    <3>2. speechCharged[j] <= 1 + speechRisked[j]
        BY <1>1 DEF SpokenOK
    <3> QED BY <1>0, <2>2, <2>3, <3>1, <3>2 DEF SpeechClear
  <2>5. SpokenOK(j)'
    <3>1. ~Sounds(j)'
        BY <1>0, <1>1, <1>2 DEF SpokenOK, SpeechIs, Sounds
    <3>2. \A state : ~SpeechIs(j, state)'
        BY <2>1 DEF SpeechIs
    <3>3. speechCharged'[j] <= 1 + speechRisked'[j]
        BY <1>0, <2>2, <2>3, <2>4 DEF SpeechClear
    <3> QED BY <2>4, <3>1, <3>2, <3>3 DEF SpokenOK
  <2>6. \A i \in Spoken : i # j => SameJob(i)
      BY <1>0, <2>1, <2>3 DEF SameJob
  <2>7. \A i \in Spoken : SpokenOK(i)'
      BY <1>0, <1>1, <2>5, <2>6, SpokenStays
  <2>8. \A d \in Characters : VoiceOK(d)'
      BY <1>0, <1>1 DEF VoiceOK
  <2>9. /\ auditions' \in [Characters -> Seq(Audition)]
        /\ \A d \in Characters : Len(auditions'[d]) <= MaxSpoken
      BY <1>0, <1>1 DEF SpeechTypeOK
  <2> QED BY <1>0, <2>1, <2>3, <2>6, <2>7, <2>8, <2>9, TodoStepKeeps
<1>4. CASE UNCHANGED <<speechJobs, speechRisked>>
  <2>1. /\ \A i \in Spoken : SameJob(i) /\ SpokenOK(i)'
        /\ \A d \in Characters : VoiceOK(d)'
      BY <1>0, <1>1, <1>4, JobsStay DEF speechFiles
  <2>2. /\ auditions' \in [Characters -> Seq(Audition)]
        /\ \A d \in Characters : Len(auditions'[d]) <= MaxSpoken
        /\ speechIntent' \in [Spoken -> SpeechIntent \cup {NoSpeech}]
        /\ speechReceipt' \in [Spoken -> SpeechReceipt \cup {NoSpeech}]
        /\ speechRisked' \in [Spoken -> Nat]
      BY <1>0, <1>1, <1>4 DEF SpeechTypeOK, speechJobs
  <2> QED BY <1>0, <2>1, <2>2, TodoStepKeeps
<1> QED BY <1>3, <1>4 DEF RetireCall

LEMMA MaySpeakKeeps ==
    ASSUME SpeechIInv, NEW c \in Characters, MaySpeak(c)
    PROVE  SpeechIInv'
<1>c. PICK todo : todo = {j \in SeenBy({saying[c].hash.by}) : SpeechIs(j, "prepared")}
    OBVIOUS
<1>0. /\ SayAt(c, "finish") /\ HasTurn(c) /\ saying[c] # NoSpeech /\ saying[c].step = "finish"
      /\ SayEnd(c) \/ saying' = [saying EXCEPT ![c].step = "retire", ![c].todo = todo]
      /\ UNCHANGED <<speechFiles, speechJobs, speaker, recovering, speechPast>>
    BY <1>c DEF MaySpeak, SayAt, SpeechKeeps, speechFiles
<1>1. /\ SpeechTypeOK /\ saying[c] \in Saying /\ SayingOK(c) /\ speaker # NoSpeech
      /\ \A j \in Spoken : SpokenOK(j)
      /\ \A d \in Characters : VoiceOK(d)
    BY <1>0, SpeechInvIs
<1>2. CASE SayEnd(c)
    BY <1>0, <1>2, EndsKeeps
<1>3. CASE saying' = [saying EXCEPT ![c].step = "retire", ![c].todo = todo]
  <2>1. PICK s : s = [saying[c] EXCEPT !.step = "retire", !.todo = todo]
      OBVIOUS
  <2>2. todo \subseteq Spoken /\ \A j \in todo : SpeechIs(j, "prepared") /\ ~SpeechClaimed(j)
      BY <1>c DEF SeenBy
  <2>3. /\ s \in Saying /\ s.step = "retire" /\ s.todo = todo /\ s.number = saying[c].number
    <3>1. "retire" \in SayStep
        BY DEF SayStep
    <3> QED BY <1>1, <2>1, <2>2, <3>1 DEF Saying
  <2>4. s # NoSpeech /\ s.number = 0
      BY <1>0, <1>1, <2>3, NoSpeechIsNone DEF SayingOK
  <2>5. /\ saying' = [saying EXCEPT ![c] = s] /\ saying'[c] = s
        /\ saying' \in [Characters -> Saying \cup {NoSpeech}]
        /\ \A d \in Characters : d # c => saying'[d] = saying[d]
      BY <1>1, <1>3, <2>1, <2>3 DEF SpeechTypeOK
  <2>6. /\ \A j \in Spoken : SameJob(j) /\ SpokenOK(j)'
        /\ \A d \in Characters : VoiceOK(d)'
      BY <1>0, <1>1, JobsStay DEF speechPast
  <2>7. \A j \in todo : ~SpeechClaimed(j)' /\ SpeechIs(j, "prepared")'
    <3>1. \A j \in todo : j[1] \in Characters /\ j[2] # 0
        BY <1>1, <2>2, SpeechTypesAre
    <3> QED BY <2>2, <2>4, <2>5, <2>6, <3>1 DEF SpeechClaimed, SpeechIs, SameJob
  <2>8. SayingOK(c)'
      BY <2>3, <2>4, <2>5, <2>7 DEF SayingOK
  <2>9. SpeechTypeOK'
      BY <1>0, <1>1, <2>5 DEF SpeechTypeOK, speechFiles, speechJobs, speechPast
  <2> QED BY <1>0, <1>1, <2>5, <2>6, <2>8, <2>9, TurnStepKeeps
<1> QED BY <1>0, <1>2, <1>3

LEMMA ChooseNumberKeeps ==
    ASSUME SpeechIInv, NEW c \in Characters, ChooseNumber(c)
    PROVE  SpeechIInv'
<1>c. PICK next : next = Len(auditions[c]) + 1
    OBVIOUS
<1>0. /\ SayAt(c, "retire") /\ HasTurn(c) /\ saying[c] # NoSpeech
      /\ \/ SayEnd(c)
         \/ /\ Len(auditions[c]) # MaxSpoken
            /\ saying' = [saying EXCEPT ![c].step = "prepare", ![c].number = next]
      /\ UNCHANGED <<speechFiles, speechJobs, speaker, recovering, speechPast>>
    BY <1>c DEF ChooseNumber, SayAt, SpeechKeeps, speechFiles
<1>1. /\ SpeechTypeOK /\ saying[c] \in Saying /\ speaker # NoSpeech
      /\ \A j \in Spoken : SpokenOK(j)
      /\ \A d \in Characters : VoiceOK(d)
    BY <1>0, SpeechInvIs
<1>2. CASE SayEnd(c)
    BY <1>0, <1>2, EndsKeeps
<1>3. CASE /\ Len(auditions[c]) # MaxSpoken
           /\ saying' = [saying EXCEPT ![c].step = "prepare", ![c].number = next]
  <2>1. PICK s : s = [saying[c] EXCEPT !.step = "prepare", !.number = next]
      OBVIOUS
  <2>2. next \in 0..MaxSpoken /\ next # 0
    <3>1. Len(auditions[c]) \in 0..MaxSpoken
        BY <1>1, LogsAre
    <3> QED BY <1>c, <1>3, <3>1, SpeechAssumption
  <2>3. s \in Saying /\ s.step = "prepare" /\ s.number = next
    <3>1. "prepare" \in SayStep
        BY DEF SayStep
    <3> QED BY <1>1, <2>1, <2>2, <3>1 DEF Saying
  <2>4. /\ saying' = [saying EXCEPT ![c] = s] /\ saying'[c] = s
        /\ saying' \in [Characters -> Saying \cup {NoSpeech}]
      BY <1>1, <1>3, <2>1, <2>3 DEF SpeechTypeOK
  <2>5. /\ \A j \in Spoken : SameJob(j) /\ SpokenOK(j)'
        /\ \A d \in Characters : VoiceOK(d)'
      BY <1>0, <1>1, JobsStay DEF speechPast
  <2>6. SayingOK(c)'
      BY <2>2, <2>3, <2>4 DEF SayingOK, SpeaksOK, OutsideTurn
  <2>7. SpeechTypeOK'
      BY <1>0, <1>1, <2>4 DEF SpeechTypeOK, speechFiles, speechJobs, speechPast
  <2> QED BY <1>0, <1>1, <2>4, <2>5, <2>6, <2>7, TurnStepKeeps
<1> QED BY <1>0, <1>2, <1>3

(* What a request at its number knows of it.                               *)
LEMMA SpeaksIs ==
    ASSUME SpeechIInv, NEW c \in Characters, saying[c] # NoSpeech,
           saying[c].step \notin {"finish", "retire"}
    PROVE  /\ SpeechTypeOK /\ saying[c] \in Saying /\ speaker # NoSpeech
           /\ saying[c].number # 0 /\ Numbered(c) \in Spoken /\ Numbered(c)[1] = c
           /\ SpeaksOK(c, Numbered(c)) /\ SpokenOK(Numbered(c))
           /\ saying[c].hash \in SpeechHash
<1>1. /\ SpeechTypeOK /\ saying[c] \in Saying /\ speaker # NoSpeech /\ SayingOK(c)
      /\ \A j \in Spoken : SpokenOK(j)
    BY SpeechInvIs
<1>2. saying[c].number # 0 /\ SpeaksOK(c, Numbered(c))
    BY <1>1 DEF SayingOK
<1>3. saying[c].hash \in SpeechHash
    BY <1>1 DEF Saying
<1> QED BY <1>1, <1>2, <1>3, NumberedIs

(* A step of a request at its number while it has the turn.                *)
LEMMA NumberTurnStepKeeps ==
    ASSUME SpeechIInv, NEW c \in Characters, saying[c] # NoSpeech, HasTurn(c),
           saying[c].step \notin {"finish", "retire"}, NEW k \in Spoken, k = Numbered(c),
           NEW step \in SayStep \ {"finish", "retire"}, SayGo(c, step),
           \A j \in Spoken : j # k => SameJob(j), SpokenOK(k)',
           saying'[c] # NoSpeech /\ saying'[c].step = step /\ saying'[c].hash = saying[c].hash
              => SpeaksOK(c, k)',
           speechIntent' \in [Spoken -> SpeechIntent \cup {NoSpeech}],
           speechReceipt' \in [Spoken -> SpeechReceipt \cup {NoSpeech}],
           UNCHANGED <<speechFiles, speaker, recovering, speechPast>>
    PROVE  SpeechIInv'
<1>1. /\ SpeechTypeOK /\ speaker # NoSpeech /\ saying[c].number # 0 /\ k[1] = c
      /\ \A j \in Spoken : SpokenOK(j)
      /\ \A d \in Characters : VoiceOK(d)
    BY SpeaksIs, SpeechInvIs
<1>2. PICK s \in Saying :
          /\ saying' = [saying EXCEPT ![c] = s] /\ s # NoSpeech
          /\ s.step = step /\ s.number = saying[c].number /\ s.hash = saying[c].hash
    BY <1>1, SayGoIs
<1>3. saying'[c] = s /\ saying' \in [Characters -> Saying \cup {NoSpeech}]
    BY <1>1, <1>2 DEF SpeechTypeOK
<1>4. SayingOK(c)'
  <2>1. Numbered(c)' = k
      BY <1>2, <1>3 DEF Numbered
  <2>2. SpeaksOK(c, Numbered(c))'
      BY <1>2, <1>3, <2>1 DEF SpeaksOK
  <2> QED BY <1>1, <1>2, <1>3, <2>2 DEF SayingOK
<1>5. \A j \in Spoken : SpokenOK(j)'
    BY <1>1, SpokenStays DEF speechFiles
<1>6. \A d \in Characters : VoiceOK(d)'
    BY <1>1 DEF VoiceOK, speechFiles
<1>7. SpeechTypeOK'
    BY <1>1, <1>3 DEF SpeechTypeOK, speechFiles, speechPast
<1>8. \A j \in Spoken : j[1] # c /\ SpeechClaimed(j) => SameJob(j)
    BY <1>1
<1> QED BY <1>1, <1>2, <1>4, <1>5, <1>6, <1>7, <1>8, TurnStepKeeps

LEMMA PrepareSpeechKeeps ==
    ASSUME SpeechIInv, NEW c \in Characters, PrepareSpeech(c)
    PROVE  SpeechIInv'
<1>c. PICK k : k = Numbered(c)
    OBVIOUS
<1>0. /\ SayAt(c, "prepare") /\ HasTurn(c) /\ saying[c] # NoSpeech /\ saying[c].step = "prepare"
      /\ UNCHANGED <<speechFiles, speechReceipt, speaker, recovering, speechPast>>
    BY DEF PrepareSpeech, SayAt, SpeechKeeps, speechFiles
<1>1. /\ SpeechTypeOK /\ k \in Spoken /\ SpokenOK(k) /\ saying[c].hash \in SpeechHash
    BY <1>c, <1>0, SpeaksIs
<1>2. CASE speechIntent[k] # NoSpeech
  <2>1. SayEnd(c) /\ UNCHANGED speechJobs
      BY <1>c, <1>0, <1>2 DEF PrepareSpeech, speechJobs
  <2> QED BY <1>0, <2>1, EndsKeeps
<1>3. CASE speechIntent[k] = NoSpeech
  <2>1. PICK new : new = [state |-> "prepared", tried |-> FALSE, failed |-> FALSE,
                          hash |-> saying[c].hash]
      OBVIOUS
  <2>2. /\ new \in SpeechIntent /\ new # NoSpeech /\ new.state = "prepared"
        /\ new.hash = saying[c].hash /\ ~new.tried
      BY <1>1, <2>1, NoSpeechIsNone DEF SpeechIntent
  <2>3. speechIntent' = [speechIntent EXCEPT ![k] = new] /\ SayGo(c, "receipt")
      BY <1>c, <1>3, <2>1 DEF PrepareSpeech
  <2>4. /\ speechIntent' \in [Spoken -> SpeechIntent \cup {NoSpeech}]
        /\ speechIntent'[k] = new
        /\ \A j \in Spoken : j # k => speechIntent'[j] = speechIntent[j]
      BY <1>1, <2>2, <2>3 DEF SpeechTypeOK
  <2>5. \A j \in Spoken : j # k => SameJob(j)
      BY <1>0, <2>4 DEF SameJob, speechFiles, speechPast
  <2>6. SpeechClear(k) /\ ~Sounds(k) /\ speechCharged[k] <= 1 + speechRisked[k]
      BY <1>1, <1>3 DEF SpokenOK, SpeechIs, UnresolvedCall
  <2>7. SpokenOK(k)'
    <3>1. SpeechClear(k)' /\ ~Sounds(k)' /\ speechCharged'[k] <= 1 + speechRisked'[k]
        BY <1>0, <2>6 DEF SpeechClear, Sounds, speechFiles, speechPast
    <3>2. ~SpeechIs(k, "invoked")' /\ ~SpeechIs(k, "reconciled")'
        BY <2>2, <2>4 DEF SpeechIs
    <3> QED BY <3>1, <3>2 DEF SpokenOK
  <2>8. saying'[c] # NoSpeech /\ saying'[c].step = "receipt" /\ saying'[c].hash = saying[c].hash
           => SpeaksOK(c, k)'
      BY <2>2, <2>4 DEF SpeaksOK, SpeechIs, OutsideTurn
  <2>9. "receipt" \in SayStep \ {"finish", "retire"}
      BY DEF SayStep
  <2>10. speechReceipt' \in [Spoken -> SpeechReceipt \cup {NoSpeech}]
      BY <1>0, <1>1 DEF SpeechTypeOK
  <2> QED BY <1>c, <1>0, <1>1, <2>3, <2>4, <2>5, <2>7, <2>8, <2>9, <2>10, NumberTurnStepKeeps
<1> QED BY <1>2, <1>3

LEMMA NewReceiptKeeps ==
    ASSUME SpeechIInv, NEW c \in Characters, NewReceipt(c)
    PROVE  SpeechIInv'
<1>c. PICK k : k = Numbered(c)
    OBVIOUS
<1>d. PICK new : new = [hash |-> saying[c].hash, refused |-> FALSE, clip |-> NoSpeech]
    OBVIOUS
<1>0. /\ SayAt(c, "receipt") /\ HasTurn(c) /\ saying[c] # NoSpeech /\ saying[c].step = "receipt"
      /\ speechReceipt' = [speechReceipt EXCEPT ![k] = new] /\ SayGo(c, "count")
      /\ UNCHANGED <<speechFiles, speechIntent, speaker, recovering, speechPast>>
    BY <1>c, <1>d DEF NewReceipt, SayAt, SpeechKeeps, speechFiles
<1>1. /\ SpeechTypeOK /\ k \in Spoken /\ SpokenOK(k) /\ SpeaksOK(c, k)
      /\ saying[c].hash \in SpeechHash
    BY <1>c, <1>0, SpeaksIs
<1>2. /\ new \in SpeechReceipt /\ new # NoSpeech /\ new.hash = saying[c].hash /\ ~new.refused
    BY <1>d, <1>1, NoSpeechIsNone DEF SpeechReceipt
<1>3. /\ speechReceipt' \in [Spoken -> SpeechReceipt \cup {NoSpeech}]
      /\ speechReceipt'[k] = new
      /\ \A j \in Spoken : j # k => speechReceipt'[j] = speechReceipt[j]
    BY <1>0, <1>1, <1>2 DEF SpeechTypeOK
<1>4. \A j \in Spoken : j # k => SameJob(j)
    BY <1>0, <1>3 DEF SameJob, speechFiles, speechPast
<1>5. SpeechIs(k, "prepared") /\ speechIntent[k].hash = saying[c].hash /\ ~speechIntent[k].tried
    BY <1>0, <1>1 DEF SpeaksOK
<1>6. SpeechClear(k) /\ ~Sounds(k) /\ speechCharged[k] <= 1 + speechRisked[k]
    BY <1>1, <1>5 DEF SpokenOK, SpeechIs, UnresolvedCall
<1>7. SpokenOK(k)'
  <2>1. SpeechClear(k)' /\ ~Sounds(k)' /\ speechCharged'[k] <= 1 + speechRisked'[k]
      BY <1>0, <1>6 DEF SpeechClear, Sounds, speechFiles, speechPast
  <2>2. ~SpeechIs(k, "invoked")' /\ ~SpeechIs(k, "reconciled")'
      BY <1>0, <1>5 DEF SpeechIs
  <2> QED BY <2>1, <2>2 DEF SpokenOK
<1>8. saying'[c] # NoSpeech /\ saying'[c].step = "count" /\ saying'[c].hash = saying[c].hash
         => SpeaksOK(c, k)'
    BY <1>0, <1>2, <1>3, <1>5 DEF SpeaksOK, SpeechIs
<1>9. "count" \in SayStep \ {"finish", "retire"}
    BY DEF SayStep
<1>10. speechIntent' \in [Spoken -> SpeechIntent \cup {NoSpeech}]
    BY <1>0, <1>1 DEF SpeechTypeOK
<1> QED BY <1>c, <1>0, <1>1, <1>3, <1>4, <1>7, <1>8, <1>9, <1>10, NumberTurnStepKeeps

LEMMA EndSpeechKeeps ==
    ASSUME SpeechIInv, NEW c \in Characters, EndSpeech(c)
    PROVE  SpeechIInv'
<1>1. /\ saying[c] # NoSpeech /\ HasTurn(c) /\ SayEnd(c)
      /\ UNCHANGED <<speechFiles, speechJobs, speaker, recovering, speechPast>>
    BY DEF EndSpeech, SayAt, SpeechKeeps, speechFiles
<1> QED BY <1>1, EndsKeeps

LEMMA RecordSpeechKeeps ==
    ASSUME SpeechIInv, NEW c \in Characters, RecordSpeech(c)
    PROVE  SpeechIInv'
<1>c. PICK k : k = Numbered(c)
    OBVIOUS
<1>0. /\ HasTurn(c) /\ saying[c] # NoSpeech /\ saying[c].step = "record"
      /\ RecordAnswer(k) /\ saying' = [saying EXCEPT ![c] = NoSpeech]
      /\ UNCHANGED <<voiceLock, audioFile, speaker, recovering, speechCharged, speechRisked,
                     speechCount>>
    BY <1>c DEF RecordSpeech, SayAt, SayEnd, SpeechKeeps, speechPast
<1>1. /\ SpeechTypeOK /\ k \in Spoken /\ k[1] = c /\ speaker # NoSpeech
      /\ \A i \in Spoken : SpokenOK(i)
      /\ \A d \in Characters : VoiceOK(d)
    BY <1>c, <1>0, SpeaksIs, SpeechInvIs
<1>2. SpeechIs(k, "invoked")
    BY <1>c, <1>0, SpeaksIs DEF SpeaksOK
<1>3. /\ auditions' \in [Characters -> Seq(Audition)]
      /\ \A d \in Characters : Len(auditions'[d]) <= MaxSpoken
      /\ speechIntent' \in [Spoken -> SpeechIntent \cup {NoSpeech}]
      /\ speechReceipt' \in [Spoken -> SpeechReceipt \cup {NoSpeech}]
      /\ \A i \in Spoken : i # k => SameJob(i)
      /\ \A i \in Spoken : SpokenOK(i)'
      /\ \A d \in Characters : VoiceOK(d)'
    BY <1>0, <1>1, <1>2, RecordAnswerIs
<1>4. saying'[c] = NoSpeech /\ saying' \in [Characters -> Saying \cup {NoSpeech}]
    BY <1>0, <1>1 DEF SpeechTypeOK
<1>5. SayingOK(c)'
    BY <1>4 DEF SayingOK
<1>6. SpeechTypeOK'
    BY <1>0, <1>1, <1>3, <1>4 DEF SpeechTypeOK
<1>7. \A i \in Spoken : i[1] # c /\ SpeechClaimed(i) => SameJob(i)
    BY <1>1, <1>3
<1> QED BY <1>0, <1>1, <1>3, <1>5, <1>6, <1>7, TurnStepKeeps

GoesOn(c, step) ==
    /\ saying'[c] # NoSpeech /\ saying'[c].step = step
    /\ saying'[c].hash = saying[c].hash /\ saying'[c].clip = saying[c].clip

(* A step outside the turn to the next one, at the request's own number.   *)
LEMMA NumberStepKeeps ==
    ASSUME SpeechIInv, NEW c \in Characters, saying[c] # NoSpeech,
           saying[c].step \in OutsideTurn, NEW k \in Spoken, k = Numbered(c),
           NEW step \in OutsideTurn, SayGo(c, step),
           \A j \in Spoken : j # k => SameJob(j), SpokenOK(k)',
           GoesOn(c, step) => SpeaksOK(c, k)',
           audioFile' \in [Spoken -> Clip \cup {NoSpeech}],
           speechIntent' \in [Spoken -> SpeechIntent \cup {NoSpeech}],
           speechReceipt' \in [Spoken -> SpeechReceipt \cup {NoSpeech}],
           speechCharged' \in [Spoken -> Nat], speechRisked' \in [Spoken -> Nat],
           UNCHANGED <<auditions, voiceLock, speaker, recovering, speechCount>>
    PROVE  SpeechIInv'
<1>1. SpeechTypeOK /\ OutsideTurn \subseteq SayStep
    BY SpeechInvIs DEF OutsideTurn, SayStep
<1>2. PICK s \in Saying :
          /\ saying' = [saying EXCEPT ![c] = s] /\ s # NoSpeech
          /\ s.step = step /\ s.number = saying[c].number /\ s.hash = saying[c].hash
          /\ s.clip = saying[c].clip
    BY <1>1, SayGoIs
<1>3. saying'[c] = s /\ saying' \in [Characters -> Saying \cup {NoSpeech}]
    BY <1>1, <1>2 DEF SpeechTypeOK
<1>4. SpeaksOK(c, k)'
    BY <1>2, <1>3 DEF GoesOn
<1>5. SpeechTypeOK'
    BY <1>1, <1>3 DEF SpeechTypeOK
<1> QED BY <1>2, <1>4, <1>5, OutsideStepKeeps

(* A number whose call is under way has no audition, and no audio that is  *)
(* known of.                                                               *)
LEMMA UnderWayIs ==
    ASSUME SpeechIInv, NEW c \in Characters, saying[c] # NoSpeech,
           saying[c].step \in OutsideTurn \ {"record", "over"}, NEW k, k = Numbered(c)
    PROVE  /\ SpeechTypeOK /\ k \in Spoken /\ SpeaksOK(c, k) /\ SpokenOK(k)
           /\ SpeechIs(k, "prepared") /\ speechIntent[k].hash = saying[c].hash
           /\ speechIntent[k] \in SpeechIntent /\ speechIntent[k] # NoSpeech
           /\ ~SpeechIs(k, "invoked") /\ ~SpeechIs(k, "reconciled") /\ ~Sounds(k)
           /\ speechCharged[k] \in Nat /\ speechRisked[k] \in Nat
           /\ SpeechClear(k) \/ UnresolvedCall(k)
<1>1. saying[c].step \notin {"finish", "retire"}
    BY DEF OutsideTurn
<1>2. SpeechTypeOK /\ k \in Spoken /\ SpeaksOK(c, k) /\ SpokenOK(k)
    BY <1>1, SpeaksIs
<1>3. SpeechIs(k, "prepared") /\ speechIntent[k].hash = saying[c].hash
    BY <1>2 DEF SpeaksOK
<1>4. ~SpeechIs(k, "invoked") /\ ~SpeechIs(k, "reconciled") /\ speechIntent[k] # NoSpeech
    BY <1>3 DEF SpeechIs
<1>5. ~Sounds(k) /\ (SpeechClear(k) \/ UnresolvedCall(k))
    BY <1>2, <1>4 DEF SpokenOK
<1>6. speechIntent[k] \in SpeechIntent
    BY <1>2, <1>4, SpeechTypesAre
<1>7. speechCharged[k] \in Nat /\ speechRisked[k] \in Nat
    BY <1>2 DEF SpeechTypeOK
<1> QED BY <1>2, <1>3, <1>4, <1>5, <1>6, <1>7

LEMMA CountCallKeeps ==
    ASSUME SpeechIInv, NEW c \in Characters, CountCall(c)
    PROVE  SpeechIInv'
<1>c. PICK k : k = Numbered(c)
    OBVIOUS
<1>0. /\ saying[c] # NoSpeech /\ saying[c].step = "count" /\ SayGo(c, "call")
      /\ speechIntent' = [speechIntent EXCEPT ![k].tried = TRUE]
      /\ UNCHANGED <<auditions, voiceLock, audioFile, speechReceipt, speaker, recovering,
                     speechCharged, speechRisked, speechCount>>
    BY <1>c DEF CountCall, SayAt, SpeechKeeps, speechPast
<1>o. saying[c].step \in OutsideTurn \ {"record", "over"} /\ "call" \in OutsideTurn
    BY <1>0 DEF OutsideTurn
<1>1. /\ SpeechTypeOK /\ k \in Spoken /\ SpeaksOK(c, k) /\ SpokenOK(k)
      /\ SpeechIs(k, "prepared") /\ speechIntent[k].hash = saying[c].hash
      /\ speechIntent[k] \in SpeechIntent /\ ~Sounds(k)
    BY <1>c, <1>0, <1>o, UnderWayIs
<1>2. PICK new : new = [speechIntent[k] EXCEPT !.tried = TRUE]
    OBVIOUS
<1>3. /\ new \in SpeechIntent /\ new # NoSpeech /\ new.tried
      /\ new.state = "prepared" /\ new.hash = saying[c].hash
    BY <1>1, <1>2, NoSpeechIsNone DEF SpeechIntent, SpeechIs
<1>4. /\ speechIntent' \in [Spoken -> SpeechIntent \cup {NoSpeech}]
      /\ speechIntent'[k] = new
      /\ \A j \in Spoken : j # k => speechIntent'[j] = speechIntent[j]
    BY <1>0, <1>1, <1>2, <1>3 DEF SpeechTypeOK
<1>5. \A j \in Spoken : j # k => SameJob(j)
    BY <1>0, <1>4 DEF SameJob
<1>6. ~speechIntent[k].tried /\ SpeechClear(k)
  <2>1. ~speechIntent[k].tried
      BY <1>0, <1>1 DEF SpeaksOK
  <2> QED BY <1>c, <1>0, <1>o, <2>1, UnderWayIs DEF UnresolvedCall
<1>7. SpeechClear(k)' /\ SpokenOK(k)'
  <2>1. SpeechClear(k)' /\ ~Sounds(k)' /\ speechCharged'[k] <= 1 + speechRisked'[k]
      BY <1>0, <1>1, <1>6 DEF SpeechClear, Sounds, SpokenOK
  <2>2. ~SpeechIs(k, "invoked")' /\ ~SpeechIs(k, "reconciled")'
      BY <1>3, <1>4 DEF SpeechIs
  <2> QED BY <2>1, <2>2 DEF SpokenOK
<1>8. GoesOn(c, "call") => SpeaksOK(c, k)'
    BY <1>0, <1>1, <1>3, <1>4, <1>7 DEF GoesOn, SpeaksOK, SpeechIs
<1> QED BY <1>c, <1>0, <1>o, <1>1, <1>4, <1>5, <1>7, <1>8, NumberStepKeeps DEF SpeechTypeOK

(* A charge for the call under way, whose intent says it was tried.        *)
LEMMA ChargedIs ==
    ASSUME SpeechIInv, NEW c \in Characters, saying[c] # NoSpeech, saying[c].step = "call",
           NEW k, k = Numbered(c), MayBeCharged(c),
           UNCHANGED <<auditions, audioFile, speechJobs, speechRisked>>
    PROVE  /\ speechCharged' \in [Spoken -> Nat]
           /\ \A j \in Spoken : j # k => SameJob(j)
           /\ SpokenOK(k)'
           /\ SpeechIs(k, "prepared")' /\ speechIntent'[k].hash = saying[c].hash
           /\ speechIntent'[k].tried /\ speechReceipt'[k] # NoSpeech
           /\ speechReceipt'[k].hash = saying[c].hash /\ ~speechReceipt'[k].refused
<1>o. saying[c].step \in OutsideTurn \ {"record", "over"}
    BY DEF OutsideTurn
<1>1. /\ SpeechTypeOK /\ k \in Spoken /\ SpeaksOK(c, k)
      /\ SpeechIs(k, "prepared") /\ speechIntent[k].hash = saying[c].hash /\ ~Sounds(k)
      /\ ~SpeechIs(k, "invoked") /\ ~SpeechIs(k, "reconciled")
      /\ speechCharged[k] \in Nat /\ speechRisked[k] \in Nat
    BY <1>o, UnderWayIs
<1>2. /\ speechIntent[k].tried /\ SpeechClear(k) /\ speechReceipt[k] # NoSpeech
      /\ speechReceipt[k].hash = saying[c].hash /\ ~speechReceipt[k].refused
    BY <1>1 DEF SpeaksOK
<1>3. /\ speechCharged' \in [Spoken -> Nat] /\ speechCharged'[k] = speechCharged[k] + 1
      /\ \A j \in Spoken : j # k => speechCharged'[j] = speechCharged[j]
    BY <1>1 DEF MayBeCharged, SpeechTypeOK
<1>4. \A j \in Spoken : j # k => SameJob(j)
    BY <1>3 DEF SameJob, speechJobs
<1>5. UnresolvedCall(k)'
    BY <1>1, <1>2 DEF UnresolvedCall, RefusedCall, SpeechIs, speechJobs
<1>6. speechCharged'[k] <= 1 + speechRisked'[k]
    BY <1>1, <1>2, <1>3 DEF SpeechClear
<1>7. ~SpeechIs(k, "invoked")' /\ ~SpeechIs(k, "reconciled")' /\ ~Sounds(k)'
    BY <1>1 DEF SpeechIs, Sounds, speechJobs
<1> QED BY <1>1, <1>2, <1>3, <1>4, <1>5, <1>6, <1>7 DEF SpokenOK, SpeechIs, speechJobs

LEMMA SpeechAnsweredKeeps ==
    ASSUME SpeechIInv, NEW c \in Characters, SpeechAnswered(c)
    PROVE  SpeechIInv'
<1>c. PICK k : k = Numbered(c)
    OBVIOUS
<1>d. PICK clip : clip = speechCount.clips + 1
    OBVIOUS
<1>0. /\ saying[c] # NoSpeech /\ saying[c].step = "call" /\ speechCount.clips < MaxClips
      /\ speechCount' = [speechCount EXCEPT !.clips = clip]
      /\ saying' = [saying EXCEPT ![c].step = "answered", ![c].clip = clip]
      /\ MayBeCharged(c)
      /\ UNCHANGED <<auditions, voiceLock, audioFile, speechJobs, speaker, recovering,
                     speechRisked>>
    BY <1>d DEF SpeechAnswered, SayAt, SpeechKeeps
<1>o. saying[c].step \in OutsideTurn \ {"record", "over"} /\ "answered" \in OutsideTurn
      /\ "answered" \in SayStep
    BY <1>0 DEF OutsideTurn, SayStep
<1>1. /\ SpeechTypeOK /\ k \in Spoken /\ saying[c] \in Saying
    BY <1>c, <1>0, <1>o, UnderWayIs, SpeechInvIs
<1>2. clip \in Clip /\ clip # NoSpeech /\ clip \in 0..MaxClips
  <2>1. speechCount.clips \in 0..MaxClips
      BY <1>1 DEF SpeechTypeOK
  <2>2. clip \in 1..MaxClips
      BY <1>d, <1>0, <2>1, SpeechAssumption
  <2> QED BY <2>2, NoSpeechIsNone, SpeechAssumption DEF Clip
<1>3. PICK s : s = [saying[c] EXCEPT !.step = "answered", !.clip = clip]
    OBVIOUS
<1>4. /\ s \in Saying /\ s # NoSpeech /\ s.step = "answered" /\ s.clip = clip
      /\ s.number = saying[c].number /\ s.hash = saying[c].hash
    BY <1>o, <1>1, <1>2, <1>3, NoSpeechIsNone DEF Saying
<1>5. /\ saying' = [saying EXCEPT ![c] = s] /\ saying'[c] = s
      /\ saying' \in [Characters -> Saying \cup {NoSpeech}]
    BY <1>0, <1>1, <1>3, <1>4 DEF SpeechTypeOK
<1>6. /\ speechCharged' \in [Spoken -> Nat]
      /\ \A j \in Spoken : j # k => SameJob(j)
      /\ SpokenOK(k)'
      /\ SpeechIs(k, "prepared")' /\ speechIntent'[k].hash = saying[c].hash
      /\ speechIntent'[k].tried /\ speechReceipt'[k] # NoSpeech
      /\ speechReceipt'[k].hash = saying[c].hash /\ ~speechReceipt'[k].refused
    BY <1>c, <1>0, ChargedIs
<1>7. SpeaksOK(c, k)'
    BY <1>2, <1>4, <1>5, <1>6 DEF SpeaksOK
<1>8. SpeechTypeOK'
    BY <1>0, <1>1, <1>2, <1>5, <1>6 DEF SpeechTypeOK, speechJobs
<1>9. UNCHANGED <<auditions, voiceLock, speaker, recovering>> /\ saying[c] # NoSpeech
    BY <1>0
<1> QED BY <1>c, <1>o, <1>1, <1>4, <1>5, <1>6, <1>7, <1>8, <1>9, OutsideStepKeeps

LEMMA SpeechLostKeeps ==
    ASSUME SpeechIInv, NEW c \in Characters, SpeechLost(c)
    PROVE  SpeechIInv'
<1>c. PICK k : k = Numbered(c)
    OBVIOUS
<1>0. /\ saying[c] # NoSpeech /\ saying[c].step = "call" /\ SayGo(c, "failed")
      /\ MayBeCharged(c)
      /\ UNCHANGED <<auditions, voiceLock, audioFile, speechJobs, speaker, recovering,
                     speechRisked, speechCount>>
    BY DEF SpeechLost, SayAt, SpeechKeeps
<1>o. saying[c].step \in OutsideTurn \ {"record", "over"} /\ "failed" \in OutsideTurn
    BY <1>0 DEF OutsideTurn
<1>1. SpeechTypeOK /\ k \in Spoken
    BY <1>c, <1>0, <1>o, UnderWayIs
<1>2. /\ speechCharged' \in [Spoken -> Nat]
      /\ \A j \in Spoken : j # k => SameJob(j)
      /\ SpokenOK(k)'
      /\ SpeechIs(k, "prepared")' /\ speechIntent'[k].hash = saying[c].hash
    BY <1>c, <1>0, ChargedIs
<1>3. GoesOn(c, "failed") => SpeaksOK(c, k)'
    BY <1>2 DEF GoesOn, SpeaksOK
<1>4. /\ audioFile' \in [Spoken -> Clip \cup {NoSpeech}]
      /\ speechIntent' \in [Spoken -> SpeechIntent \cup {NoSpeech}]
      /\ speechReceipt' \in [Spoken -> SpeechReceipt \cup {NoSpeech}]
      /\ speechRisked' \in [Spoken -> Nat]
    BY <1>0, <1>1 DEF SpeechTypeOK, speechJobs
<1> QED BY <1>c, <1>0, <1>o, <1>1, <1>2, <1>3, <1>4, NumberStepKeeps

(* What is true of a number whose call is under way stays so when no job   *)
(* but its own changes, and it is still prepared and as clear as it was.   *)
LEMMA UnderWayStays ==
    ASSUME SpeechIInv, NEW c \in Characters, saying[c] # NoSpeech,
           saying[c].step \in OutsideTurn \ {"record", "over"}, NEW k, k = Numbered(c),
           UNCHANGED <<auditions, speechCharged, speechRisked>>, SpeechIs(k, "prepared")',
           UnresolvedCall(k) => UnresolvedCall(k)'
    PROVE  SpokenOK(k)'
<1>1. SpokenOK(k) /\ ~Sounds(k) /\ (SpeechClear(k) \/ UnresolvedCall(k))
    BY UnderWayIs
<1>2. ~SpeechIs(k, "invoked")' /\ ~SpeechIs(k, "reconciled")'
    BY DEF SpeechIs
<1>3. ~Sounds(k)' /\ (SpeechClear(k) => SpeechClear(k)')
    BY <1>1 DEF Sounds, SpeechClear
<1> QED BY <1>1, <1>2, <1>3 DEF SpokenOK

LEMMA SpeechRefusedKeeps ==
    ASSUME SpeechIInv, NEW c \in Characters, SpeechRefused(c)
    PROVE  SpeechIInv'
<1>c. PICK k : k = Numbered(c)
    OBVIOUS
<1>0. /\ saying[c] # NoSpeech /\ saying[c].step = "call" /\ SayGo(c, "failed")
      /\ \/ speechReceipt' = [speechReceipt EXCEPT ![k].refused = TRUE]
         \/ UNCHANGED speechReceipt
      /\ UNCHANGED <<auditions, voiceLock, audioFile, speechIntent, speaker, recovering,
                     speechCharged, speechRisked, speechCount>>
    BY <1>c DEF SpeechRefused, SayAt, SpeechKeeps, speechPast
<1>o. saying[c].step \in OutsideTurn \ {"record", "over"} /\ "failed" \in OutsideTurn
    BY <1>0 DEF OutsideTurn
<1>1. /\ SpeechTypeOK /\ k \in Spoken /\ SpeaksOK(c, k) /\ SpokenOK(k)
      /\ SpeechIs(k, "prepared") /\ speechIntent[k].hash = saying[c].hash /\ ~Sounds(k)
    BY <1>c, <1>0, <1>o, UnderWayIs
<1>2. SpeechClear(k) /\ speechReceipt[k] # NoSpeech /\ speechReceipt[k] \in SpeechReceipt
    BY <1>0, <1>1, SpeechTypesAre DEF SpeaksOK
<1>3. /\ speechReceipt' \in [Spoken -> SpeechReceipt \cup {NoSpeech}]
      /\ \A j \in Spoken : j # k => speechReceipt'[j] = speechReceipt[j]
  <2>1. PICK new : new = [speechReceipt[k] EXCEPT !.refused = TRUE]
      OBVIOUS
  <2>2. new \in SpeechReceipt
      BY <1>2, <2>1 DEF SpeechReceipt
  <2>3. speechReceipt' = [speechReceipt EXCEPT ![k] = new] \/ UNCHANGED speechReceipt
      BY <1>0, <1>1, <2>1 DEF SpeechTypeOK
  <2> QED BY <1>1, <2>2, <2>3 DEF SpeechTypeOK
<1>4. \A j \in Spoken : j # k => SameJob(j)
    BY <1>0, <1>3 DEF SameJob
<1>5. SpokenOK(k)'
  <2>1. SpeechClear(k)' /\ ~Sounds(k)' /\ speechCharged'[k] <= 1 + speechRisked'[k]
      BY <1>0, <1>1, <1>2 DEF SpeechClear, Sounds, SpokenOK
  <2>2. ~SpeechIs(k, "invoked")' /\ ~SpeechIs(k, "reconciled")'
      BY <1>0, <1>1 DEF SpeechIs
  <2> QED BY <2>1, <2>2 DEF SpokenOK
<1>6. GoesOn(c, "failed") => SpeaksOK(c, k)'
    BY <1>0, <1>1 DEF GoesOn, SpeaksOK, SpeechIs
<1> QED BY <1>c, <1>0, <1>o, <1>1, <1>3, <1>4, <1>5, <1>6, NumberStepKeeps DEF SpeechTypeOK

LEMMA WriteAudioKeeps ==
    ASSUME SpeechIInv, NEW c \in Characters, WriteAudio(c)
    PROVE  SpeechIInv'
<1>c. PICK k : k = Numbered(c)
    OBVIOUS
<1>0. /\ saying[c] # NoSpeech /\ saying[c].step = "answered"
      /\ \/ audioFile' = [audioFile EXCEPT ![k] = saying[c].clip] /\ SayGo(c, "written")
         \/ SayGo(c, "failed") /\ UNCHANGED audioFile
      /\ UNCHANGED <<auditions, voiceLock, speechIntent, speechReceipt, speaker, recovering,
                     speechCharged, speechRisked, speechCount>>
    BY <1>c DEF WriteAudio, SayAt, speechPast, speechJobs
<1>o. saying[c].step \in OutsideTurn \ {"record", "over"} /\ {"written", "failed"} \subseteq OutsideTurn
    BY <1>0 DEF OutsideTurn
<1>1. /\ SpeechTypeOK /\ k \in Spoken /\ SpeaksOK(c, k)
      /\ SpeechIs(k, "prepared") /\ speechIntent[k].hash = saying[c].hash
    BY <1>c, <1>0, <1>o, UnderWayIs
<1>2. /\ speechIntent[k].tried /\ speechReceipt[k] # NoSpeech
      /\ speechReceipt[k].hash = saying[c].hash /\ ~speechReceipt[k].refused
      /\ saying[c].clip # NoSpeech
    BY <1>0, <1>1 DEF SpeaksOK
<1>3. /\ audioFile' \in [Spoken -> Clip \cup {NoSpeech}]
      /\ \A j \in Spoken : j # k => audioFile'[j] = audioFile[j]
      /\ audioFile' = [audioFile EXCEPT ![k] = saying[c].clip] => audioFile'[k] = saying[c].clip
  <2>1. saying[c] \in Saying
      BY <1>0, SpeechInvIs
  <2>2. saying[c].clip \in Clip \cup {NoSpeech}
      BY <2>1 DEF Saying
  <2> QED BY <1>0, <1>1, <2>2 DEF SpeechTypeOK
<1>4. \A j \in Spoken : j # k => SameJob(j)
    BY <1>0, <1>3 DEF SameJob
<1>5. SpokenOK(k)'
  <2>1. SpeechIs(k, "prepared")' /\ (UnresolvedCall(k) => UnresolvedCall(k)')
      BY <1>0, <1>1 DEF SpeechIs, UnresolvedCall, RefusedCall, HasReceipt
  <2> QED BY <1>c, <1>0, <1>o, <2>1, UnderWayStays
<1>6. CASE audioFile' = [audioFile EXCEPT ![k] = saying[c].clip] /\ SayGo(c, "written")
  <2>1. GoesOn(c, "written") => SpeaksOK(c, k)'
      BY <1>0, <1>1, <1>2, <1>3, <1>6 DEF GoesOn, SpeaksOK, SpeechIs
  <2> QED BY <1>c, <1>0, <1>o, <1>1, <1>3, <1>4, <1>5, <1>6, <2>1, NumberStepKeeps
          DEF SpeechTypeOK
<1>7. CASE SayGo(c, "failed")
  <2>1. GoesOn(c, "failed") => SpeaksOK(c, k)'
      BY <1>0, <1>1 DEF GoesOn, SpeaksOK, SpeechIs
  <2> QED BY <1>c, <1>0, <1>o, <1>1, <1>3, <1>4, <1>5, <1>7, <2>1, NumberStepKeeps
          DEF SpeechTypeOK
<1> QED BY <1>0, <1>6, <1>7

LEMMA NoteAudioKeeps ==
    ASSUME SpeechIInv, NEW c \in Characters, NoteAudio(c)
    PROVE  SpeechIInv'
<1>c. PICK k : k = Numbered(c)
    OBVIOUS
<1>0. /\ saying[c] # NoSpeech /\ saying[c].step = "written"
      /\ \/ speechReceipt' = [speechReceipt EXCEPT ![k].clip = saying[c].clip] /\ SayGo(c, "save")
         \/ SayGo(c, "failed") /\ UNCHANGED speechReceipt
      /\ UNCHANGED <<auditions, voiceLock, audioFile, speechIntent, speaker, recovering,
                     speechCharged, speechRisked, speechCount>>
    BY <1>c DEF NoteAudio, SayAt, SpeechKeeps, speechPast
<1>o. saying[c].step \in OutsideTurn \ {"record", "over"} /\ {"save", "failed"} \subseteq OutsideTurn
    BY <1>0 DEF OutsideTurn
<1>1. /\ SpeechTypeOK /\ k \in Spoken /\ SpeaksOK(c, k)
      /\ SpeechIs(k, "prepared") /\ speechIntent[k].hash = saying[c].hash
    BY <1>c, <1>0, <1>o, UnderWayIs
<1>2. /\ speechIntent[k].tried /\ speechReceipt[k] # NoSpeech
      /\ speechReceipt[k].hash = saying[c].hash /\ ~speechReceipt[k].refused
      /\ saying[c].clip # NoSpeech /\ audioFile[k] = saying[c].clip
    BY <1>0, <1>1 DEF SpeaksOK
<1>3. /\ audioFile' \in [Spoken -> Clip \cup {NoSpeech}]
      /\ speechIntent' \in [Spoken -> SpeechIntent \cup {NoSpeech}]
      /\ speechCharged' \in [Spoken -> Nat] /\ speechRisked' \in [Spoken -> Nat]
    BY <1>0, <1>1 DEF SpeechTypeOK
<1>4. CASE speechReceipt' = [speechReceipt EXCEPT ![k].clip = saying[c].clip] /\ SayGo(c, "save")
  <2>1. PICK new : new = [speechReceipt[k] EXCEPT !.clip = saying[c].clip]
      OBVIOUS
  <2>2. /\ new \in SpeechReceipt /\ new # NoSpeech /\ new.clip = saying[c].clip
        /\ new.hash = saying[c].hash /\ ~new.refused
    <3>1. speechReceipt[k] \in SpeechReceipt /\ saying[c] \in Saying
        BY <1>0, <1>1, <1>2, SpeechTypesAre, SpeechInvIs
    <3>2. saying[c].clip \in Clip \cup {NoSpeech}
        BY <3>1 DEF Saying
    <3> QED BY <1>2, <2>1, <3>1, <3>2, NoSpeechIsNone DEF SpeechReceipt
  <2>3. /\ speechReceipt' \in [Spoken -> SpeechReceipt \cup {NoSpeech}]
        /\ speechReceipt'[k] = new
        /\ \A j \in Spoken : j # k => speechReceipt'[j] = speechReceipt[j]
      BY <1>1, <1>4, <2>1, <2>2 DEF SpeechTypeOK
  <2>4. \A j \in Spoken : j # k => SameJob(j)
      BY <1>0, <2>3 DEF SameJob
  <2>5. SpokenOK(k)'
    <3>1. SpeechIs(k, "prepared")' /\ (UnresolvedCall(k) => UnresolvedCall(k)')
        BY <1>0, <1>1, <1>2, <2>2, <2>3 DEF SpeechIs, UnresolvedCall, RefusedCall, HasReceipt
    <3> QED BY <1>c, <1>0, <1>o, <3>1, UnderWayStays
  <2>6. GoesOn(c, "save") => SpeaksOK(c, k)'
      BY <1>0, <1>1, <1>2, <2>2, <2>3 DEF GoesOn, SpeaksOK, SpeechIs
  <2> QED BY <1>c, <1>0, <1>o, <1>1, <1>3, <1>4, <2>3, <2>4, <2>5, <2>6, NumberStepKeeps
<1>5. CASE SayGo(c, "failed") /\ UNCHANGED speechReceipt
  <2>1. \A j \in Spoken : SameJob(j)
      BY <1>0, <1>5 DEF SameJob
  <2>2. SpokenOK(k)'
      BY <1>0, <1>1, <1>c, <1>o, <2>1, UnderWayIs, SpokenStays
  <2>3. GoesOn(c, "failed") => SpeaksOK(c, k)'
      BY <1>0, <1>1 DEF GoesOn, SpeaksOK, SpeechIs
  <2>4. speechReceipt' \in [Spoken -> SpeechReceipt \cup {NoSpeech}]
      BY <1>1, <1>5 DEF SpeechTypeOK
  <2> QED BY <1>c, <1>0, <1>o, <1>1, <1>3, <1>5, <2>1, <2>2, <2>3, <2>4, NumberStepKeeps
<1> QED BY <1>0, <1>4, <1>5

LEMMA SaveSpokenKeeps ==
    ASSUME SpeechIInv, NEW c \in Characters, SaveSpoken(c)
    PROVE  SpeechIInv'
<1>c. PICK k : k = Numbered(c)
    OBVIOUS
<1>0. /\ saying[c] # NoSpeech /\ saying[c].step = "save" /\ SayGo(c, "record")
      /\ speechIntent' = [speechIntent EXCEPT ![k].state = "invoked"]
      /\ UNCHANGED <<auditions, voiceLock, audioFile, speechReceipt, speaker, recovering,
                     speechCharged, speechRisked, speechCount>>
    BY <1>c DEF SaveSpoken, SayAt, SpeechKeeps, speechPast
<1>o. saying[c].step \in OutsideTurn \ {"record", "over"} /\ "record" \in OutsideTurn
    BY <1>0 DEF OutsideTurn
<1>1. /\ SpeechTypeOK /\ k \in Spoken /\ SpeaksOK(c, k) /\ SpokenOK(k)
      /\ speechIntent[k].hash = saying[c].hash
      /\ speechIntent[k] \in SpeechIntent /\ ~Sounds(k)
    BY <1>c, <1>0, <1>o, UnderWayIs
<1>2. PICK new : new = [speechIntent[k] EXCEPT !.state = "invoked"]
    OBVIOUS
<1>3. /\ new \in SpeechIntent /\ new # NoSpeech
      /\ new.state = "invoked" /\ new.hash = saying[c].hash
    BY <1>1, <1>2, NoSpeechIsNone DEF SpeechIntent
<1>4. /\ speechIntent' \in [Spoken -> SpeechIntent \cup {NoSpeech}]
      /\ speechIntent'[k] = new
      /\ \A j \in Spoken : j # k => speechIntent'[j] = speechIntent[j]
    BY <1>0, <1>1, <1>2, <1>3 DEF SpeechTypeOK
<1>5. \A j \in Spoken : j # k => SameJob(j)
    BY <1>0, <1>4 DEF SameJob
<1>6. /\ speechReceipt[k] # NoSpeech /\ speechReceipt[k].hash = saying[c].hash
      /\ saying[c].clip # NoSpeech /\ audioFile[k] = saying[c].clip
      /\ speechReceipt[k].clip = saying[c].clip
    BY <1>0, <1>1 DEF SpeaksOK
<1>7. SpeechIs(k, "invoked")' /\ ~SpeechIs(k, "reconciled")'
    BY <1>3, <1>4 DEF SpeechIs
<1>8. SpokenOK(k)'
  <2>1. Completed(k, speechIntent[k].hash)'
      BY <1>0, <1>3, <1>4, <1>6 DEF Completed, HasReceipt
  <2>2. ~Sounds(k)' /\ speechCharged'[k] <= 1 + speechRisked'[k]
      BY <1>0, <1>1 DEF Sounds, SpokenOK
  <2> QED BY <1>7, <2>1, <2>2 DEF SpokenOK
<1>9. GoesOn(c, "record") => SpeaksOK(c, k)'
    BY <1>7 DEF GoesOn, SpeaksOK
<1> QED BY <1>c, <1>0, <1>o, <1>1, <1>4, <1>5, <1>8, <1>9, NumberStepKeeps DEF SpeechTypeOK

LEMMA SaveSpeechFailureKeeps ==
    ASSUME SpeechIInv, NEW c \in Characters, SaveSpeechFailure(c)
    PROVE  SpeechIInv'
<1>c. PICK k : k = Numbered(c)
    OBVIOUS
<1>0. /\ saying[c] # NoSpeech /\ saying[c].step = "failed" /\ SayGo(c, "over")
      /\ \/ speechIntent' = [speechIntent EXCEPT ![k].failed = TRUE]
         \/ UNCHANGED speechIntent
      /\ UNCHANGED <<auditions, voiceLock, audioFile, speechReceipt, speaker, recovering,
                     speechCharged, speechRisked, speechCount>>
    BY <1>c DEF SaveSpeechFailure, SayAt, SpeechKeeps, speechPast
<1>o. saying[c].step \in OutsideTurn \ {"record", "over"} /\ "over" \in OutsideTurn
    BY <1>0 DEF OutsideTurn
<1>1. /\ SpeechTypeOK /\ k \in Spoken /\ SpeechIs(k, "prepared")
      /\ speechIntent[k] \in SpeechIntent /\ speechIntent[k] # NoSpeech
    BY <1>c, <1>0, <1>o, UnderWayIs
<1>2. PICK new : new = [speechIntent[k] EXCEPT !.failed = TRUE]
    OBVIOUS
<1>3. /\ new \in SpeechIntent /\ new # NoSpeech /\ new.state = speechIntent[k].state
      /\ new.tried = speechIntent[k].tried /\ new.hash = speechIntent[k].hash
    BY <1>1, <1>2, NoSpeechIsNone DEF SpeechIntent
<1>4. speechIntent' = [speechIntent EXCEPT ![k] = new] \/ UNCHANGED speechIntent
    BY <1>0, <1>1, <1>2 DEF SpeechTypeOK
<1>5. /\ speechIntent' \in [Spoken -> SpeechIntent \cup {NoSpeech}]
      /\ speechIntent'[k] = new \/ speechIntent'[k] = speechIntent[k]
      /\ \A j \in Spoken : j # k => speechIntent'[j] = speechIntent[j]
    BY <1>1, <1>3, <1>4 DEF SpeechTypeOK
<1>6. \A j \in Spoken : j # k => SameJob(j)
    BY <1>0, <1>5 DEF SameJob
<1>7. SpokenOK(k)'
  <2>1. SpeechIs(k, "prepared")' /\ (UnresolvedCall(k) => UnresolvedCall(k)')
      BY <1>0, <1>1, <1>3, <1>5 DEF SpeechIs, UnresolvedCall, RefusedCall, HasReceipt
  <2> QED BY <1>c, <1>0, <1>o, <2>1, UnderWayStays
<1>8. GoesOn(c, "over") => SpeaksOK(c, k)'
    BY DEF GoesOn, SpeaksOK
<1> QED BY <1>c, <1>0, <1>o, <1>1, <1>5, <1>6, <1>7, <1>8, NumberStepKeeps DEF SpeechTypeOK

LEMMA SayFailsKeeps ==
    ASSUME SpeechIInv, NEW c \in Characters, SayFails(c)
    PROVE  SpeechIInv'
<1>c. PICK k : k = Numbered(c)
    OBVIOUS
<1>0. /\ saying[c] # NoSpeech
      /\ \/ HasTurn(c) /\ SayEnd(c)
         \/ saying[c].step \in {"count", "save"} /\ SayGo(c, "over")
      /\ UNCHANGED <<speechFiles, speechJobs, speaker, recovering, speechPast>>
    BY DEF SayFails, SayAt, SpeechKeeps, speechFiles
<1>1. CASE HasTurn(c) /\ SayEnd(c)
    BY <1>0, <1>1, EndsKeeps
<1>2. CASE saying[c].step \in {"count", "save"} /\ SayGo(c, "over")
  <2>o. saying[c].step \in OutsideTurn \ {"record", "over"} /\ "over" \in OutsideTurn
      BY <1>2 DEF OutsideTurn
  <2>1. SpeechTypeOK /\ k \in Spoken
      BY <1>c, <1>0, <2>o, UnderWayIs
  <2>2. \A j \in Spoken : SameJob(j) /\ SpokenOK(j)'
      BY <1>0, SpeechInvIs, JobsStay DEF speechPast
  <2>3. GoesOn(c, "over") => SpeaksOK(c, k)'
      BY DEF GoesOn, SpeaksOK
  <2>4. UNCHANGED <<auditions, voiceLock, audioFile, speechIntent, speechReceipt, speaker,
                    recovering, speechCharged, speechRisked, speechCount>>
      BY <1>0 DEF speechFiles, speechJobs, speechPast
  <2> QED BY <1>c, <1>0, <1>2, <2>o, <2>1, <2>2, <2>3, <2>4, NumberStepKeeps DEF SpeechTypeOK
<1> QED BY <1>0, <1>1, <1>2

(* What the director says of a character's auditions changes no audio.     *)
LEMMA SaysKeeps ==
    ASSUME SpeechIInv, NEW c \in Characters, DirectorMay(c), NEW log \in Seq(Audition),
           Says(c, log), DOMAIN log = DOMAIN auditions[c],
           \A n \in DOMAIN log : log[n].clip = auditions[c][n].clip,
           \A n \in DOMAIN log : n = voiceLock[c] /\ auditions[c][n].status # "rejected"
              => log[n].status # "rejected"
    PROVE  SpeechIInv'
<1>0. /\ speaker # NoSpeech /\ saying[c] = NoSpeech /\ HasTurn(c)
      /\ auditions' = [auditions EXCEPT ![c] = log]
      /\ UNCHANGED <<voiceLock, audioFile, speechIntent, speechReceipt, speaker, saying,
                     recovering, speechCharged, speechRisked, speechCount>>
    BY DEF DirectorMay, Says, SpeechKeeps, speechJobs, speechPast
<1>1. /\ SpeechTypeOK /\ \A j \in Spoken : SpokenOK(j)
      /\ \A d \in Characters : VoiceOK(d)
    BY SpeechInvIs
<1>2. /\ auditions' \in [Characters -> Seq(Audition)] /\ auditions'[c] = log
      /\ \A d \in Characters : d # c => auditions'[d] = auditions[d]
    BY <1>0, <1>1 DEF SpeechTypeOK
<1>3. Len(log) = Len(auditions[c])
  <2>1. /\ auditions[c] \in Seq(Audition) /\ Len(auditions[c]) \in Nat
        /\ DOMAIN auditions[c] = 1..Len(auditions[c])
      BY <1>1, LogsAre, LenProperties
  <2> QED BY <2>1, LenProperties
<1>4. \A j \in Spoken : SameJob(j)
    BY <1>0 DEF SameJob
<1>5. ASSUME NEW j \in Spoken PROVE SpokenOK(j)'
  <2>1. j[1] \in Characters
      BY <1>1, SpeechTypesAre
  <2>2. CASE j[1] # c
      BY <1>1, <1>2, <1>4, <2>1, <2>2, SpokenStays
  <2>3. CASE j[1] = c
    <3>1. /\ Sounds(j)' <=> Sounds(j)
          /\ Sounds(j) => auditions'[j[1]][j[2]].clip = auditions[j[1]][j[2]].clip
        BY <1>2, <2>3 DEF Sounds
    <3>2. /\ \A state : SpeechIs(j, state)' <=> SpeechIs(j, state)
          /\ SpeechClear(j)' <=> SpeechClear(j)
        BY <1>0 DEF SpeechIs, SpeechClear
    <3>3. UnresolvedCall(j)' <=> UnresolvedCall(j)
        BY <1>0 DEF UnresolvedCall, RefusedCall, HasReceipt, SpeechIs
    <3>4. Completed(j, speechIntent[j].hash)' <=> Completed(j, speechIntent[j].hash)
        BY <1>0 DEF Completed, HasReceipt
    <3> QED BY <1>0, <1>1, <3>1, <3>2, <3>3, <3>4 DEF SpokenOK
  <2> QED BY <2>2, <2>3
<1>6. \A d \in Characters : VoiceOK(d)'
    BY <1>0, <1>1, <1>2 DEF VoiceOK
<1>7. SpeechTypeOK'
  <2>1. \A d \in Characters : Len(auditions'[d]) <= MaxSpoken
      BY <1>1, <1>2, <1>3 DEF SpeechTypeOK
  <2> QED BY <1>0, <1>1, <1>2, <2>1 DEF SpeechTypeOK
<1>8. saying' = [saying EXCEPT ![c] = NoSpeech] /\ SayingOK(c)'
    BY <1>0, <1>1 DEF SpeechTypeOK, SayingOK
<1> QED BY <1>0, <1>4, <1>5, <1>6, <1>7, <1>8, TurnStepKeeps

LEMMA SelectAuditionKeeps ==
    ASSUME SpeechIInv, NEW c \in Characters, NEW n \in 1..MaxSpoken, SelectAudition(c, n)
    PROVE  SpeechIInv'
<1>1. PICK log : log = [m \in DOMAIN auditions[c] |->
           [auditions[c][m] EXCEPT !.status =
               IF m = n THEN "selected" ELSE IF @ = "selected" THEN "candidate" ELSE @]]
    OBVIOUS
<1>2. /\ auditions[c] \in Seq(Audition) /\ Len(auditions[c]) \in Nat
      /\ DOMAIN auditions[c] = 1..Len(auditions[c])
      /\ \A m \in DOMAIN auditions[c] : auditions[c][m] \in Audition
    BY SpeechInvIs, LogsAre, LenProperties
<1>3. ASSUME NEW m \in DOMAIN auditions[c]
      PROVE  /\ log[m] \in Audition /\ log[m].clip = auditions[c][m].clip
             /\ auditions[c][m].status # "rejected" => log[m].status # "rejected"
  <2>1. PICK a : a = auditions[c][m]
      OBVIOUS
  <2>2. PICK said : said = IF m = n THEN "selected"
                           ELSE IF a.status = "selected" THEN "candidate" ELSE a.status
      OBVIOUS
  <2>3. a \in Audition
      BY <1>2, <2>1
  <2>4. /\ said \in {"candidate", "selected", "rejected"}
        /\ a.status # "rejected" => said # "rejected"
    <3>1. a.status \in {"candidate", "selected", "rejected"}
        BY <2>3 DEF Audition
    <3> QED BY <2>2, <3>1
  <2>5. log[m] = [a EXCEPT !.status = said]
      BY <1>1, <2>1, <2>2
  <2> QED BY <2>1, <2>3, <2>4, <2>5 DEF Audition
<1>4. log \in Seq(Audition) /\ DOMAIN log = DOMAIN auditions[c]
  <2>1. DOMAIN log = 1..Len(auditions[c])
      BY <1>1, <1>2
  <2>2. log \in [1..Len(auditions[c]) -> Audition]
      BY <1>1, <1>2, <1>3, <2>1
  <2> QED BY <1>2, <2>1, <2>2, SeqDef
<1>5. DirectorMay(c) /\ Says(c, log)
    BY <1>1 DEF SelectAudition
<1> QED BY <1>3, <1>4, <1>5, SaysKeeps

LEMMA RejectAuditionKeeps ==
    ASSUME SpeechIInv, NEW c \in Characters, NEW n \in 1..MaxSpoken, RejectAudition(c, n)
    PROVE  SpeechIInv'
<1>1. PICK log : log = [auditions[c] EXCEPT ![n].status = "rejected"]
    OBVIOUS
<1>2. /\ auditions[c] \in Seq(Audition) /\ Len(auditions[c]) \in Nat
      /\ DOMAIN auditions[c] = 1..Len(auditions[c])
      /\ \A m \in DOMAIN auditions[c] : auditions[c][m] \in Audition
    BY SpeechInvIs, LogsAre, LenProperties
<1>3. /\ DirectorMay(c) /\ Says(c, log)
      /\ n \in DOMAIN auditions[c] /\ voiceLock[c] # n
    BY <1>1 DEF RejectAudition
<1>4. PICK a : a = [auditions[c][n] EXCEPT !.status = "rejected"]
    OBVIOUS
<1>5. a \in Audition /\ a.clip = auditions[c][n].clip
    BY <1>2, <1>3, <1>4 DEF Audition
<1>6. /\ log = [auditions[c] EXCEPT ![n] = a] /\ DOMAIN log = DOMAIN auditions[c]
      /\ log[n] = a /\ \A m \in DOMAIN log : m # n => log[m] = auditions[c][m]
    BY <1>1, <1>2, <1>3, <1>4
<1>7. log \in Seq(Audition)
    BY <1>2, <1>3, <1>5, <1>6, ExceptSeq
<1> QED BY <1>3, <1>5, <1>6, <1>7, SaysKeeps

LEMMA LockVoiceKeeps ==
    ASSUME SpeechIInv, NEW c \in Characters, NEW n \in 1..MaxSpoken, LockVoice(c, n)
    PROVE  SpeechIInv'
<1>0. /\ speaker # NoSpeech /\ saying[c] = NoSpeech /\ HasTurn(c)
      /\ n \in DOMAIN auditions[c] /\ auditions[c][n].status = "selected"
      /\ voiceLock' = [voiceLock EXCEPT ![c] = n]
      /\ UNCHANGED <<auditions, audioFile, speechIntent, speechReceipt, speaker, saying,
                     recovering, speechCharged, speechRisked, speechCount>>
    BY DEF LockVoice, DirectorMay, speechJobs, speechPast
<1>1. /\ SpeechTypeOK /\ \A j \in Spoken : SpokenOK(j)
      /\ \A d \in Characters : VoiceOK(d)
    BY SpeechInvIs
<1>2. /\ voiceLock' \in [Characters -> 0..MaxSpoken] /\ voiceLock'[c] = n
      /\ \A d \in Characters : d # c => voiceLock'[d] = voiceLock[d]
  <2>1. n \in 0..MaxSpoken
      BY SpeechAssumption
  <2> QED BY <1>0, <1>1, <2>1 DEF SpeechTypeOK
<1>3. \A d \in Characters : VoiceOK(d)'
    BY <1>0, <1>1, <1>2 DEF VoiceOK
<1>4. \A j \in Spoken : SameJob(j)
    BY <1>0 DEF SameJob
<1>5. \A j \in Spoken : SpokenOK(j)'
    BY <1>0, <1>1, <1>4, SpokenStays
<1>6. SpeechTypeOK'
    BY <1>0, <1>1, <1>2 DEF SpeechTypeOK
<1>7. saying' = [saying EXCEPT ![c] = NoSpeech] /\ SayingOK(c)'
    BY <1>0, <1>1 DEF SpeechTypeOK, SayingOK
<1> QED BY <1>0, <1>3, <1>4, <1>5, <1>6, <1>7, TurnStepKeeps

LEMMA StopSpeechKeeps ==
    ASSUME SpeechIInv, StopSpeech
    PROVE  SpeechIInv'
<1>0. /\ speechCount.stops < MaxSpeechStops
      /\ speechCount' = [speechCount EXCEPT !.stops = @ + 1]
      /\ speaker' = NoSpeech /\ recovering' = {}
      /\ saying' = [c \in Characters |-> NoSpeech]
      /\ UNCHANGED <<speechFiles, speechJobs, speechCharged, speechRisked>>
    BY DEF StopSpeech
<1>1. /\ SpeechTypeOK /\ \A j \in Spoken : SpokenOK(j)
      /\ \A d \in Characters : VoiceOK(d)
    BY SpeechInvIs
<1>2. speechCount' \in [clips: 0..MaxClips, asks: 0..MaxSpeechAsks, stops: 0..MaxSpeechStops]
  <2>1. speechCount.stops + 1 \in 0..MaxSpeechStops
      BY <1>0, <1>1, SpeechAssumption DEF SpeechTypeOK
  <2> QED BY <1>0, <1>1, <2>1 DEF SpeechTypeOK
<1>3. SpeechTypeOK'
    BY <1>0, <1>1, <1>2 DEF SpeechTypeOK, speechFiles, speechJobs
<1>4. \A c \in Characters : SayingOK(c)' /\ ~InTurn(c)'
    BY <1>0 DEF SayingOK, InTurn
<1>5. TurnOK'
    BY <1>0, <1>4 DEF TurnOK
<1>6. /\ \A j \in Spoken : SpokenOK(j)'
      /\ \A d \in Characters : VoiceOK(d)'
    BY <1>0, <1>1, JobsStay
<1> QED BY <1>3, <1>4, <1>5, <1>6 DEF SpeechIInv

(* A step of the session as it recovers, when no request has the turn.     *)
LEMMA RecoverStepKeeps ==
    ASSUME SpeechIInv, \A c \in Characters : ~InTurn(c), SpeechTypeOK', UNCHANGED saying,
           \A j \in Spoken : SpeechClaimed(j) => SameJob(j),
           \A j \in Spoken : SpokenOK(j)', \A c \in Characters : VoiceOK(c)',
           speaker' # NoSpeech,
           \A j \in recovering' : SpeechIs(j, "invoked")' /\ ~SpeechClaimed(j)
    PROVE  SpeechIInv'
<1>1. SpeechTypeOK /\ \A c \in Characters : SayingOK(c)
    BY SpeechInvIs
<1>2. \A c \in Characters : SayingOK(c)' /\ ~InTurn(c)'
    BY <1>1, SayingStays
<1>3. \A j : SpeechClaimed(j)' <=> SpeechClaimed(j)
    BY DEF SpeechClaimed
<1>4. TurnOK'
    BY <1>2, <1>3 DEF TurnOK
<1> QED BY <1>2, <1>4 DEF SpeechIInv

(* Recovering the jobs of some providers, as a session opens or after a    *)
(* request.                                                                *)
LEMMA RecoversKeeps ==
    ASSUME SpeechIInv, \A c \in Characters : ~InTurn(c), NEW P, Recovers(P),
           speaker' \in Speakers, UNCHANGED <<speechFiles, speechReceipt, saying, speechPast>>
    PROVE  SpeechIInv'
<1>1. PICK saved \in SUBSET ReadyFor(P) :
          SaveReady(saved) /\ \E S \in SUBSET saved : recovering' = S
    BY DEF Recovers
<1>2. /\ SpeechTypeOK /\ \A j \in Spoken : SpokenOK(j)
      /\ \A d \in Characters : VoiceOK(d)
    BY SpeechInvIs
<1>3. /\ UNCHANGED <<auditions, voiceLock, audioFile, speechReceipt, saying, speechCharged,
                     speechRisked, speechCount>>
      /\ recovering' \subseteq saved
    BY <1>1 DEF speechFiles, speechPast
<1>4. /\ speechIntent' \in [Spoken -> SpeechIntent \cup {NoSpeech}]
      /\ \A j \in Spoken : SpeechClaimed(j) => SameJob(j)
      /\ \A j \in saved : j \in Spoken /\ SpeechIs(j, "invoked")' /\ ~SpeechClaimed(j)
      /\ \A j \in Spoken : SpokenOK(j)'
    BY <1>1, <1>2, <1>3, SaveReadyIs
<1>5. SpeechTypeOK'
    BY <1>2, <1>3, <1>4 DEF SpeechTypeOK
<1>6. \A d \in Characters : VoiceOK(d)'
    BY <1>2, <1>3 DEF VoiceOK
<1>7. speaker' # NoSpeech
    BY NoSpeechIsNone
<1> QED BY <1>3, <1>4, <1>5, <1>6, <1>7, RecoverStepKeeps

LEMMA OpenSpeechKeeps ==
    ASSUME SpeechIInv, NEW by \in Speakers, OpenSpeech(by)
    PROVE  SpeechIInv'
<1>1. /\ speaker = NoSpeech /\ speaker' = by /\ Recovers(BuiltIn \cup {by})
      /\ UNCHANGED <<speechFiles, speechReceipt, saying, speechPast>>
    BY DEF OpenSpeech
<1>2. \A c \in Characters : ~InTurn(c)
    BY <1>1, SpeechInvIs DEF TurnOK, InTurn
<1> QED BY <1>1, <1>2, RecoversKeeps

LEMMA RecoverAgainKeeps ==
    ASSUME SpeechIInv, RecoverAgain
    PROVE  SpeechIInv'
<1>1. /\ speaker # NoSpeech /\ UNCHANGED speaker /\ Recovers(BuiltIn \cup {speaker})
      /\ \A c \in Characters : ~InTurn(c)
      /\ UNCHANGED <<speechFiles, speechReceipt, saying, speechPast>>
    BY DEF RecoverAgain
<1>2. speaker' \in Speakers
    BY <1>1, SpeechInvIs DEF SpeechTypeOK
<1> QED BY <1>1, <1>2, RecoversKeeps

LEMMA RecoverAnswerKeeps ==
    ASSUME SpeechIInv, NEW j \in Spoken, RecoverAnswer(j)
    PROVE  SpeechIInv'
<1>0. /\ j \in recovering /\ recovering' = recovering \ {j} /\ RecordAnswer(j)
      /\ UNCHANGED <<voiceLock, audioFile, speaker, saying, speechCharged, speechRisked,
                     speechCount>>
    BY DEF RecoverAnswer, SpeechKeeps, speechPast
<1>1. /\ SpeechTypeOK /\ TurnOK /\ \A i \in Spoken : SpokenOK(i)
      /\ \A d \in Characters : VoiceOK(d)
    BY SpeechInvIs
<1>2. /\ \A i \in recovering : SpeechIs(i, "invoked") /\ ~SpeechClaimed(i)
      /\ recovering \subseteq Spoken /\ speaker # NoSpeech
      /\ \A c \in Characters : ~InTurn(c)
    BY <1>0, <1>1 DEF TurnOK, SpeechTypeOK
<1>3. /\ auditions' \in [Characters -> Seq(Audition)]
      /\ \A d \in Characters : Len(auditions'[d]) <= MaxSpoken
      /\ speechIntent' \in [Spoken -> SpeechIntent \cup {NoSpeech}]
      /\ speechReceipt' \in [Spoken -> SpeechReceipt \cup {NoSpeech}]
      /\ \A i \in Spoken : i # j => SameJob(i)
      /\ \A i \in Spoken : SpokenOK(i)'
      /\ \A d \in Characters : VoiceOK(d)'
    BY <1>0, <1>1, <1>2, RecordAnswerIs
<1>4. SpeechTypeOK'
    BY <1>0, <1>1, <1>3 DEF SpeechTypeOK
<1>5. \A i \in recovering' : SpeechIs(i, "invoked")' /\ ~SpeechClaimed(i)
    BY <1>0, <1>2, <1>3 DEF SpeechIs, SameJob
<1>6. \A i \in Spoken : SpeechClaimed(i) => SameJob(i)
    BY <1>0, <1>2, <1>3
<1> QED BY <1>0, <1>2, <1>3, <1>4, <1>5, <1>6, RecoverStepKeeps

LEMMA SpeechStutterKeeps ==
    ASSUME SpeechIInv, UNCHANGED speechVars
    PROVE  SpeechIInv'
<1>1. UNCHANGED <<auditions, voiceLock, audioFile, speechIntent, speechReceipt, speaker, saying,
                  recovering, speechCharged, speechRisked, speechCount>>
    BY DEF speechVars, speechFiles, speechJobs, speechPast
<1>2. SpeechTypeOK' /\ TurnOK'
    BY <1>1, SpeechInvIs DEF SpeechTypeOK, TurnOK, InTurn, SpeechIs, SpeechClaimed
<1>3. \A j \in Spoken : SameJob(j)
    BY <1>1 DEF SameJob
<1>4. \A j \in Spoken : SpokenOK(j)'
    BY <1>1, <1>3, SpeechInvIs, SpokenStays
<1>5. \A c \in Characters : VoiceOK(c)' /\ SayingOK(c)'
    BY <1>1, SpeechInvIs DEF VoiceOK, SayingOK, SpeaksOK, SpeechIs, SpeechClear, SpeechClaimed,
       Numbered
<1> QED BY <1>2, <1>4, <1>5 DEF SpeechIInv

LEMMA SpeechInitIs ==
    ASSUME SpeechInit
    PROVE  SpeechIInv
<1>0. /\ auditions = [c \in Characters |-> <<>>] /\ voiceLock = [c \in Characters |-> 0]
      /\ audioFile = [j \in Spoken |-> NoSpeech] /\ speechIntent = [j \in Spoken |-> NoSpeech]
      /\ speechReceipt = [j \in Spoken |-> NoSpeech] /\ speaker \in Speakers
      /\ saying = [c \in Characters |-> NoSpeech] /\ recovering = {}
      /\ speechCharged = [j \in Spoken |-> 0] /\ speechRisked = [j \in Spoken |-> 0]
      /\ speechCount = [clips |-> 0, asks |-> 0, stops |-> 0]
    BY DEF SpeechInit
<1>1. SpeechTypeOK
  <2>1. <<>> \in Seq(Audition) /\ Len(<<>>) = 0
      BY EmptySeq
  <2> QED BY <1>0, <2>1, SpeechAssumption DEF SpeechTypeOK
<1>2. \A j \in Spoken : SpokenOK(j)
  <2>1. \A j \in Spoken : j[1] \in Characters
      BY <1>1, SpeechTypesAre
  <2> QED BY <1>0, <2>1 DEF SpokenOK, SpeechIs, SpeechClear, Sounds
<1>3. TurnOK /\ \A c \in Characters : VoiceOK(c) /\ SayingOK(c)
    BY <1>0, NoSpeechIsNone DEF TurnOK, VoiceOK, SayingOK, InTurn
<1> QED BY <1>1, <1>2, <1>3 DEF SpeechIInv

(* The invariant under voice auditions: a number paid for once more than   *)
(* the director risked was answered or has a call nobody gives up without  *)
(* the director, an answered one has its audio in the log or at hand, and  *)
(* no request touches the number another one speaks (speech.rs:            *)
(* SpeechJobs::open, speak, finish; turn.rs: outside).                     *)
THEOREM SpeechInvariance == SpeechSpec => []SpeechIInv
<1>1. SpeechInit => SpeechIInv
    BY SpeechInitIs
<1>2. SpeechIInv /\ [SpeechNext]_speechVars => SpeechIInv'
  <2> SUFFICES ASSUME SpeechIInv, [SpeechNext]_speechVars PROVE SpeechIInv'
      OBVIOUS
  <2>1. ASSUME NEW c \in Characters, SpeechOf(c) PROVE SpeechIInv'
    <3>1. CASE \E line \in Lines, risks \in BOOLEAN : AskAudition(c, line, risks)
        BY <3>1, AskAuditionKeeps
    <3>2. CASE \E j \in Spoken : FinishAnswer(c, j) \/ RetireCall(c, j)
        BY <3>2, FinishAnswerKeeps, RetireCallKeeps
    <3>3. CASE MaySpeak(c) \/ ChooseNumber(c) \/ PrepareSpeech(c) \/ NewReceipt(c) \/ SayFails(c)
        BY <3>3, MaySpeakKeeps, ChooseNumberKeeps, PrepareSpeechKeeps, NewReceiptKeeps,
           SayFailsKeeps
    <3>4. CASE CountCall(c) \/ SpeechAnswered(c) \/ SpeechRefused(c) \/ SpeechLost(c)
               \/ WriteAudio(c) \/ NoteAudio(c) \/ SaveSpoken(c) \/ SaveSpeechFailure(c)
        BY <3>4, CountCallKeeps, SpeechAnsweredKeeps, SpeechRefusedKeeps, SpeechLostKeeps,
           WriteAudioKeeps, NoteAudioKeeps, SaveSpokenKeeps, SaveSpeechFailureKeeps
    <3>5. CASE RecordSpeech(c) \/ EndSpeech(c)
        BY <3>5, RecordSpeechKeeps, EndSpeechKeeps
    <3>6. CASE \E n \in 1..MaxSpoken :
                  SelectAudition(c, n) \/ RejectAudition(c, n) \/ LockVoice(c, n)
        BY <3>6, SelectAuditionKeeps, RejectAuditionKeeps, LockVoiceKeeps
    <3> QED BY <2>1, <3>1, <3>2, <3>3, <3>4, <3>5, <3>6 DEF SpeechOf
  <2>2. CASE StopSpeech \/ RecoverAgain
      BY <2>2, StopSpeechKeeps, RecoverAgainKeeps
  <2>3. CASE \E by \in Speakers : OpenSpeech(by)
      BY <2>3, OpenSpeechKeeps
  <2>4. CASE \E j \in Spoken : RecoverAnswer(j)
      BY <2>4, RecoverAnswerKeeps
  <2>5. CASE UNCHANGED speechVars
      BY <2>5, SpeechStutterKeeps
  <2> QED BY <2>1, <2>2, <2>3, <2>4, <2>5 DEF SpeechNext
<1> QED BY <1>1, <1>2, PTL DEF SpeechSpec

(* Speech is an explicit, chosen spend: an audition is paid for once, and  *)
(* once more each time the director risked it for that character; what was *)
(* paid for stays as it was recorded, or is at hand to be; and a locked    *)
(* voice is one of the auditions and not rejected (speech.rs: SpeechJobs;  *)
(* kineto-project, voice.rs: attach, select, reject, lock).                *)
THEOREM SpeechIsPaidOnce == SpeechSpec => []SpeechIsPaidOnceAndKept
<1>1. SpeechIInv => SpeechIsPaidOnceAndKept
  <2> SUFFICES ASSUME SpeechIInv PROVE SpeechIsPaidOnceAndKept
      OBVIOUS
  <2>1. /\ \A j \in Spoken : SpokenOK(j)
        /\ \A c \in Characters : VoiceOK(c)
      BY SpeechInvIs
  <2> QED BY <2>1 DEF SpokenOK, VoiceOK, SpeechIsPaidOnceAndKept
<1> QED BY <1>1, SpeechInvariance, PTL

(* A character's casting images.                                           *)

(* A number has been paid for once more than was risked.                   *)
ImageSpent(n) == imagePast.charged[n] > imagePast.risked[n]

(* A number that is spent leaves an attempt counted, and no proof of a     *)
(* refusal.                                                                *)
ImagePaidOK(n) ==
    n \notin imagePast.unheard =>
       /\ imagePast.charged[n] <= 1 + imagePast.risked[n]
       /\ ImageSpent(n) => /\ imageIntent[n] # NoImage /\ imageIntent[n].attempts > 0
                           /\ refusedCall[n] = NoImage

(* What a job says is known, and what is recorded is not under way.        *)
ImageKeptOK(n) ==
    /\ ImageIs(n, "invoked") =>
          imageReceipt[n] # NoImage /\ imageReceipt[n].hash = imageIntent[n].hash
    /\ ImageIs(n, "reconciled") =>
          n \in DOMAIN castLog /\ castLog[n].hash = imageIntent[n].hash
    /\ n \notin imagePast.overtaken =>
          /\ ImageIs(n, "invoked") =>
                n \in DOMAIN castLog \/ imageReceipt[n].picture = imageFile[n]
          /\ n \in DOMAIN castLog =>
                imageFile[n] = castLog[n].picture /\ ~ImageIs(n, "prepared")

(* A job of the generator at work that is prepared and has no answer.      *)
ImageSilent(n) ==
    /\ ImageIs(n, "prepared") /\ imageIntent[n].hash.by = drawing.by
    /\ imageReceipt[n] = NoImage

(* No call of the number has ended.                                        *)
ImageAhead(n) == imageCall[n] = NoImage \/ imageCall[n].step \in {"waits", "sent"}

(* What an audition or a recovery knows of a number at its steps: a silent *)
(* job is among those that wait once it was looked at, and not spent once  *)
(* those that waited are retired.                                          *)
ImageDrawnOK(n) ==
    drawing # NoImage =>
       /\ n \in drawing.waiting =>
             /\ ImageSilent(n) /\ n \notin drawing.todo
             /\ drawing.step \in {"look", "finish", "retire"}
       /\ drawing.step = "look" /\ n \in drawing.todo => n \in Unfinished(drawing.by)
       /\ drawing.step = "look" /\ ImageSilent(n) =>
             n \in drawing.todo \/ n \in drawing.waiting \/ n \in imagePast.unheard
       /\ drawing.step \in {"finish", "retire"} /\ ImageSilent(n) =>
             n \in drawing.waiting \/ n \in imagePast.unheard
       /\ drawing.step \in {"prepare", "calls"} /\ ImageSilent(n) /\ ImageAhead(n) =>
             ~ImageSpent(n) \/ n \in imagePast.unheard
       /\ drawing.step \in {"finish", "attach"} /\ n \in drawing.todo => ImageIs(n, "invoked")
       /\ drawing.step = "retire" => drawing.risks \/ n \notin Unresolved
       /\ drawing.step = "prepare" /\ n \in drawing.todo => imageCall[n] # NoImage

(* What a call knows of its number.                                        *)
ImageCallOK(n) ==
    imageCall[n] # NoImage =>
       /\ drawing # NoImage /\ drawing.step \in {"prepare", "calls"}
       /\ imageCall[n].hash.by = drawing.by /\ n \notin DOMAIN castLog
       /\ drawing.step = "calls" \/ n \notin drawing.todo =>
             imageIntent[n] # NoImage /\ imageIntent[n].hash = imageCall[n].hash
       /\ drawing.step = "prepare" => imageCall[n].step = "waits"
       /\ imageCall[n].step = "sent" =>
             /\ ImageIs(n, "prepared") /\ imageIntent[n].attempts > 0
             /\ imageReceipt[n] = NoImage /\ refusedCall[n] = NoImage
       /\ imageCall[n].step = "save" => Answered(n, imageCall[n].hash)
       /\ imageCall[n].step = "done" => ImageIs(n, "invoked")

ImageSessionOK == drawing # NoImage => generator # NoImage

ImageIInv ==
    /\ ImagesTypeOK /\ ImageSessionOK
    /\ \A n \in Image : ImagePaidOK(n) /\ ImageKeptOK(n) /\ ImageDrawnOK(n) /\ ImageCallOK(n)

LEMMA ImageTypesAre ==
    ASSUME ImagesTypeOK
    PROVE  /\ \A n \in Image : imageIntent[n] # NoImage =>
                 /\ imageIntent[n] \in ImageIntent /\ imageIntent[n].hash \in ImageHash
                 /\ imageIntent[n].hash # NoImage /\ imageIntent[n].hash.by \in Generators
                 /\ imageIntent[n].attempts \in 0..MaxImageTries
                 /\ imageIntent[n].state \in {"prepared", "invoked", "reconciled"}
           /\ \A n \in Image : imageReceipt[n] # NoImage =>
                 /\ imageReceipt[n] \in ImageReceipt /\ imageReceipt[n].hash \in ImageHash
                 /\ imageReceipt[n].hash # NoImage /\ imageReceipt[n].picture \in Picture
                 /\ imageReceipt[n].picture # NoImage
           /\ \A n \in Image : imageCall[n] # NoImage =>
                 /\ imageCall[n] \in ImageCall /\ imageCall[n].hash \in ImageHash
                 /\ imageCall[n].hash # NoImage /\ imageCall[n].hash.by \in Generators
                 /\ imageCall[n].step \in {"waits", "sent", "save", "done", "error"}
           /\ drawing # NoImage =>
                 /\ drawing \in Drawing /\ drawing.by \in Generators
                 /\ drawing.for \in {"recovery", "audition"} /\ drawing.step \in DrawStep
                 /\ drawing.todo \subseteq Image /\ drawing.waiting \subseteq Image
                 /\ drawing.count \in Nat /\ drawing.risks \in BOOLEAN
           /\ imagePast \in ImagePast
           /\ imagePast.charged \in [Image -> Nat] /\ imagePast.risked \in [Image -> Nat]
           /\ imagePast.unheard \subseteq Image /\ imagePast.overtaken \subseteq Image
           /\ imagePast.pictures \in 0..MaxPictures
           /\ \A n \in DOMAIN castLog : n \in Image /\ castLog[n] \in CastImage
<1>1. \A n \in Image : imageIntent[n] # NoImage =>
         /\ imageIntent[n] \in ImageIntent /\ imageIntent[n].hash \in ImageHash
         /\ imageIntent[n].hash # NoImage /\ imageIntent[n].hash.by \in Generators
         /\ imageIntent[n].attempts \in 0..MaxImageTries
         /\ imageIntent[n].state \in {"prepared", "invoked", "reconciled"}
    BY ImageAssumption DEF ImagesTypeOK, ImageIntent, ImageHash
<1>2. \A n \in Image : imageReceipt[n] # NoImage =>
         /\ imageReceipt[n] \in ImageReceipt /\ imageReceipt[n].hash \in ImageHash
         /\ imageReceipt[n].hash # NoImage /\ imageReceipt[n].picture \in Picture
         /\ imageReceipt[n].picture # NoImage
    BY ImageAssumption DEF ImagesTypeOK, ImageReceipt
<1>3. \A n \in Image : imageCall[n] # NoImage =>
         /\ imageCall[n] \in ImageCall /\ imageCall[n].hash \in ImageHash
         /\ imageCall[n].hash # NoImage /\ imageCall[n].hash.by \in Generators
         /\ imageCall[n].step \in {"waits", "sent", "save", "done", "error"}
    BY ImageAssumption DEF ImagesTypeOK, ImageCall, ImageHash
<1>4. drawing # NoImage =>
         /\ drawing \in Drawing /\ drawing.by \in Generators
         /\ drawing.for \in {"recovery", "audition"} /\ drawing.step \in DrawStep
         /\ drawing.todo \subseteq Image /\ drawing.waiting \subseteq Image
         /\ drawing.count \in Nat /\ drawing.risks \in BOOLEAN
    BY DEF ImagesTypeOK, Drawing
<1>5. /\ imagePast \in ImagePast
      /\ imagePast.charged \in [Image -> Nat] /\ imagePast.risked \in [Image -> Nat]
      /\ imagePast.unheard \subseteq Image /\ imagePast.overtaken \subseteq Image
      /\ imagePast.pictures \in 0..MaxPictures
    BY DEF ImagesTypeOK, ImagePast
<1>6. \A n \in DOMAIN castLog : n \in Image /\ castLog[n] \in CastImage
    BY DEF ImagesTypeOK
<1> QED BY <1>1, <1>2, <1>3, <1>4, <1>5, <1>6

(* What the invariant is made of.                                          *)
LEMMA ImageIInvIs ==
    ASSUME ImageIInv
    PROVE  /\ ImagesTypeOK /\ ImageSessionOK
           /\ \A n \in Image : ImagePaidOK(n)
           /\ \A n \in Image : ImageKeptOK(n)
           /\ \A n \in Image : ImageDrawnOK(n)
           /\ \A n \in Image : ImageCallOK(n)
BY DEF ImageIInv

(* The last number recorded.                                               *)
LEMMA LastImageIs ==
    ASSUME ImagesTypeOK
    PROVE  LastImage \in 0..MaxImages /\ \A n \in DOMAIN castLog : n <= LastImage
<1>1. CASE DOMAIN castLog = {}
    BY <1>1, ImageAssumption DEF LastImage
<1>2. CASE DOMAIN castLog # {}
  <2>1. DOMAIN castLog \subseteq 1..MaxImages /\ MaxImages \in Nat
      BY ImageAssumption DEF ImagesTypeOK, Image
  <2>2. PICK S : S = {MaxImages - n : n \in DOMAIN castLog}
      OBVIOUS
  <2>3. S \subseteq Nat /\ S # {}
      BY <1>2, <2>1, <2>2
  <2>4. PICK c \in S : \A d \in S : c <= d
      BY <2>3, LeastOf
  <2>5. PICK n \in DOMAIN castLog : c = MaxImages - n
      BY <2>2, <2>4
  <2>6. \A o \in DOMAIN castLog : o <= n
    <3> TAKE o \in DOMAIN castLog
    <3>1. c <= MaxImages - o
        BY <2>2, <2>4
    <3> QED BY <2>1, <2>5, <3>1
  <2>7. LastImage \in DOMAIN castLog /\ \A o \in DOMAIN castLog : o <= LastImage
      BY <1>2, <2>6 DEF LastImage
  <2> QED BY <2>1, <2>7
<1> QED BY <1>1, <1>2

(* Nothing of a number that the invariant tells of changes.                *)
SameImage(n) ==
    /\ n \in DOMAIN castLog' <=> n \in DOMAIN castLog
    /\ n \in DOMAIN castLog => castLog'[n].hash = castLog[n].hash
                               /\ castLog'[n].picture = castLog[n].picture
    /\ imageFile'[n] = imageFile[n] /\ imageIntent'[n] = imageIntent[n]
    /\ imageReceipt'[n] = imageReceipt[n] /\ refusedCall'[n] = refusedCall[n]
    /\ imagePast'.charged[n] = imagePast.charged[n]
    /\ imagePast'.risked[n] = imagePast.risked[n]
    /\ n \in imagePast'.unheard <=> n \in imagePast.unheard
    /\ n \in imagePast'.overtaken <=> n \in imagePast.overtaken

LEMMA ImageStays ==
    ASSUME NEW n \in Image, SameImage(n), ImagePaidOK(n), ImageKeptOK(n)
    PROVE  ImagePaidOK(n)' /\ ImageKeptOK(n)'
BY DEF SameImage, ImagePaidOK, ImageKeptOK, ImageSpent, ImageIs

LEMMA ImagesUntouched ==
    ASSUME UNCHANGED <<imageFiles, imageIntent, imageReceipt, refusedCall, imagePast>>
    PROVE  /\ UNCHANGED <<castLog, imageFile>> /\ \A n \in Image : SameImage(n)
BY DEF SameImage, imageFiles

(* No call stands outside the steps of calls.                              *)
LEMMA NoImageCalls ==
    ASSUME ImageIInv, drawing # NoImage => drawing.step \notin {"prepare", "calls"}
    PROVE  \A n \in Image : imageCall[n] = NoImage
BY DEF ImageIInv, ImageCallOK

(* An audition or a recovery that begins, or none.                         *)
NewDrawing ==
    \/ drawing' = NoImage
    \/ /\ drawing' \in Drawing /\ drawing' # NoImage /\ generator' # NoImage
       /\ drawing'.step = "look" /\ drawing'.todo = Unfinished(drawing'.by)
       /\ drawing'.waiting = {}

LEMMA LookThroughIs ==
    ASSUME NEW for \in {"recovery", "audition"}, NEW by \in Generators, NEW count \in Nat,
           NEW risks \in BOOLEAN, drawing' = LookThrough(for, by, count, risks),
           generator' # NoImage
    PROVE  NewDrawing
<1>1. Unfinished(by) \subseteq Image
    BY DEF Unfinished
<1>2. PICK d : d = LookThrough(for, by, count, risks)
    OBVIOUS
<1>3. /\ d \in Drawing /\ d.by = by /\ d.step = "look" /\ d.todo = Unfinished(by)
      /\ d.waiting = {}
    BY <1>1, <1>2 DEF LookThrough, Drawing, DrawStep
<1> QED BY <1>2, <1>3, ImageAssumption DEF NewDrawing

LEMMA RecoverPluginIs ==
    ASSUME NEW by \in Generators, drawing' = RecoverPlugin(by), generator' # NoImage
    PROVE  NewDrawing
<1>1. CASE drawing' = NoImage
    BY <1>1 DEF NewDrawing
<1>2. CASE drawing' = LookThrough("recovery", by, 0, FALSE)
    BY <1>2, LookThroughIs
<1> QED BY <1>1, <1>2 DEF RecoverPlugin, Recovery

LEMMA RecoverIs ==
    ASSUME NEW by \in Generators, drawing' = Recover(by), generator' # NoImage
    PROVE  NewDrawing
<1>1. CASE drawing' = RecoverPlugin(by)
    BY <1>1, RecoverPluginIs
<1>2. CASE drawing' = LookThrough("recovery", MiniMax, 0, FALSE)
    BY <1>2, LookThroughIs, ImageAssumption
<1> QED BY <1>1, <1>2 DEF Recover, Recovery

LEMMA EndDrawingIs ==
    ASSUME ImageIInv, drawing # NoImage, UNCHANGED generator, EndDrawing \/ EndRecovery
    PROVE  NewDrawing
<1>1. generator \in Generators /\ generator' # NoImage
    BY ImageAssumption DEF ImageIInv, ImagesTypeOK, ImageSessionOK
<1>2. CASE drawing' = NoImage
    BY <1>2 DEF NewDrawing
<1>3. CASE drawing' = Recover(generator)
    BY <1>1, <1>3, RecoverIs
<1>4. CASE drawing' = RecoverPlugin(generator)
    BY <1>1, <1>4, RecoverPluginIs
<1> QED BY <1>2, <1>3, <1>4 DEF EndDrawing, EndRecovery

LEMMA NewDrawingKeeps ==
    ASSUME ImagesTypeOK, NewDrawing, UNCHANGED imageIntent,
           \A n \in Image : imageCall'[n] = NoImage
    PROVE  /\ drawing' \in Drawing \cup {NoImage} /\ ImageSessionOK'
           /\ \A n \in Image : ImageDrawnOK(n)' /\ ImageCallOK(n)'
<1>1. \A n \in Image : ImageCallOK(n)'
    BY DEF ImageCallOK
<1>2. CASE drawing' = NoImage
    BY <1>1, <1>2 DEF ImageDrawnOK, ImageSessionOK
<1>3. CASE drawing' # NoImage
  <2>1. /\ drawing' \in Drawing /\ generator' # NoImage /\ drawing'.step = "look"
        /\ drawing'.waiting = {}
        /\ \A n \in Image : n \in drawing'.todo <=>
              /\ imageIntent'[n] # NoImage /\ imageIntent'[n].hash.by = drawing'.by
              /\ imageIntent'[n].state # "reconciled"
    BY <1>3 DEF NewDrawing, Unfinished
  <2>2. \A n \in Image : ImageDrawnOK(n)'
    <3> TAKE n \in Image
    <3>1. n \in drawing'.todo => (n \in Unfinished(drawing.by))'
        BY <2>1 DEF Unfinished
    <3>2. ImageSilent(n)' => n \in drawing'.todo
        BY <2>1 DEF ImageSilent, ImageIs
    <3> QED BY <2>1, <3>1, <3>2 DEF ImageDrawnOK
  <2> QED BY <1>1, <2>1, <2>2 DEF ImageSessionOK
<1> QED BY <1>2, <1>3

(* What an audition or a recovery finds that looks at a job.               *)
LEMMA LooksAtIs ==
    ASSUME ImageIInv, NEW n \in Image, LooksAt(n)
    PROVE  /\ drawing # NoImage /\ drawing \in Drawing /\ drawing.step = "look"
           /\ n \in drawing.todo
           /\ imageIntent[n] # NoImage /\ imageIntent[n] \in ImageIntent
           /\ imageIntent[n].hash.by = drawing.by
           /\ imageIntent[n].state \in {"prepared", "invoked"}
           /\ \A m \in Image : imageCall[m] = NoImage
<1>1. /\ drawing # NoImage /\ drawing \in Drawing /\ drawing.step = "look"
      /\ n \in drawing.todo
    BY ImageIInvIs, ImageTypesAre DEF LooksAt, DrawAt
<1>2. n \in Unfinished(drawing.by)
    BY <1>1, ImageIInvIs DEF ImageDrawnOK
<1>3. \A m \in Image : imageCall[m] = NoImage
    BY <1>1, NoImageCalls
<1>4. imageIntent[n] # NoImage
    BY <1>2 DEF Unfinished
<1>5. imageIntent[n] \in ImageIntent /\ imageIntent[n].state \in {"prepared", "invoked", "reconciled"}
    BY <1>4, ImageIInvIs, ImageTypesAre
<1> QED BY <1>1, <1>2, <1>3, <1>5 DEF Unfinished

(* The look goes on.                                                       *)
LEMMA LookedKeeps ==
    ASSUME ImageIInv, NEW n \in Image, LooksAt(n), NEW waits \in BOOLEAN, Looked(n, waits),
           UNCHANGED <<generator, imageCall>>,
           \A m \in Image : m # n => SameImage(m),
           waits => ImageSilent(n)',
           ~waits => ~ImageSilent(n)' \/ n \in imagePast'.unheard
    PROVE  /\ drawing' \in Drawing \cup {NoImage} /\ ImageSessionOK'
           /\ \A m \in Image : ImageDrawnOK(m)' /\ ImageCallOK(m)'
<1>1. /\ drawing # NoImage /\ drawing \in Drawing /\ drawing.step = "look"
      /\ n \in drawing.todo /\ \A m \in Image : imageCall[m] = NoImage
    BY LooksAtIs
<1>2. PICK W : W = IF waits THEN drawing.waiting \cup {n} ELSE drawing.waiting
    OBVIOUS
<1>3. /\ drawing' = [drawing EXCEPT !.todo = drawing.todo \ {n}, !.waiting = W]
      /\ W \subseteq Image
    BY <1>1, <1>2 DEF Looked, Drawing
<1>4. /\ drawing' \in Drawing /\ drawing'.step = "look" /\ drawing'.by = drawing.by
      /\ drawing'.todo = drawing.todo \ {n} /\ drawing'.waiting = W
    BY <1>1, <1>3 DEF Drawing
<1>5. drawing' # NoImage /\ generator' # NoImage
    BY <1>1, <1>4, ImageAssumption, ImageIInvIs DEF ImageSessionOK
<1>6. \A m \in Image : ImageDrawnOK(m)'
  <2> TAKE m \in Image
  <2>1. ImageDrawnOK(m)
      BY ImageIInvIs
  <2>2. CASE m = n
    <3>1. m \notin drawing'.todo
        BY <1>4, <2>2
    <3>2. m \in drawing'.waiting => ImageSilent(m)'
      <4>1. CASE waits
          BY <2>2, <4>1
      <4>2. CASE ~waits
        <5>1. n \notin drawing.waiting
            BY <1>1, ImageIInvIs DEF ImageDrawnOK
        <5> QED BY <1>2, <1>4, <2>2, <4>2, <5>1
      <4> QED BY <4>1, <4>2
    <3>3. ImageSilent(m)' => m \in drawing'.waiting \/ m \in imagePast'.unheard
        BY <1>2, <1>4, <2>2
    <3> QED BY <1>4, <3>1, <3>2, <3>3 DEF ImageDrawnOK
  <2>3. CASE m # n
    <3>1. SameImage(m) /\ (m \in drawing'.todo <=> m \in drawing.todo)
          /\ (m \in drawing'.waiting <=> m \in drawing.waiting)
        BY <1>2, <1>4, <2>3
    <3>2. ImageSilent(m)' <=> ImageSilent(m)
        BY <1>4, <3>1 DEF ImageSilent, ImageIs, SameImage
    <3>3. (m \in Unfinished(drawing.by))' <=> m \in Unfinished(drawing.by)
        BY <1>4, <3>1 DEF Unfinished, SameImage
    <3> QED BY <1>1, <1>4, <2>1, <3>1, <3>2, <3>3 DEF ImageDrawnOK, SameImage
  <2> QED BY <2>2, <2>3
<1>7. \A m \in Image : ImageCallOK(m)'
    BY <1>1 DEF ImageCallOK
<1> QED BY <1>4, <1>5, <1>6, <1>7 DEF ImageSessionOK

LEMMA ImageIntentBecomes ==
    ASSUME ImagesTypeOK, NEW n \in Image, NEW new \in ImageIntent \cup {NoImage},
           imageIntent' = [imageIntent EXCEPT ![n] = new]
    PROVE  /\ imageIntent' \in [Image -> ImageIntent \cup {NoImage}] /\ imageIntent'[n] = new
           /\ \A m \in Image : m # n => imageIntent'[m] = imageIntent[m]
BY DEF ImagesTypeOK

LEMMA FoundAnswerIs ==
    ASSUME ImagesTypeOK, NEW n \in Image, imageIntent[n] # NoImage, FoundAnswer(n)
    PROVE  /\ imageIntent' \in [Image -> ImageIntent \cup {NoImage}]
           /\ imageIntent'[n] # NoImage /\ imageIntent'[n].state = "invoked"
           /\ imageIntent'[n].hash = imageIntent[n].hash
           /\ imageIntent'[n].attempts = imageIntent[n].attempts
           /\ \A m \in Image : m # n => imageIntent'[m] = imageIntent[m]
<1>1. imageIntent[n] \in ImageIntent
    BY ImageTypesAre
<1>2. PICK new : new = [imageIntent[n] EXCEPT !.state = "invoked", !.terminal = FALSE]
    OBVIOUS
<1>3. /\ new \in ImageIntent /\ new.state = "invoked" /\ new.hash = imageIntent[n].hash
      /\ new.attempts = imageIntent[n].attempts
    BY <1>1, <1>2 DEF ImageIntent
<1>4. imageIntent' = [imageIntent EXCEPT ![n] = new]
    BY <1>2 DEF FoundAnswer, ImagesTypeOK
<1> QED BY <1>3, <1>4, ImageIntentBecomes, ImageAssumption

LEMMA ImageFaultsAre ==
    ASSUME ImagesTypeOK, DrawFails \/ DrawKeeps
    PROVE  imageFaults' \in 0..MaxImageFaults /\ UNCHANGED generator
BY ImageAssumption DEF ImagesTypeOK, DrawFails, DrawKeeps

(* An audition or a recovery begins or none is under way any more, and no  *)
(* number is touched.                                                      *)
LEMMA AnotherDrawingKeeps ==
    ASSUME ImageIInv, NewDrawing,
           UNCHANGED <<imageFiles, imageIntent, imageReceipt, sentCall, refusedCall>>,
           imagePlan' \in [Image -> ImageHash \cup {NoImage}],
           \A n \in Image : imageCall'[n] = NoImage,
           imageCall' \in [Image -> ImageCall \cup {NoImage}],
           imagePast' \in ImagePast, \A n \in Image : SameImage(n),
           imageFaults' \in 0..MaxImageFaults, generator' \in Generators \cup {NoImage}
    PROVE  ImageIInv'
<1>1. UNCHANGED <<castLog, imageFile>>
    BY DEF imageFiles
<1>2. /\ drawing' \in Drawing \cup {NoImage} /\ ImageSessionOK'
      /\ \A n \in Image : ImageDrawnOK(n)' /\ ImageCallOK(n)'
    BY ImageIInvIs, NewDrawingKeeps
<1>3. \A n \in Image : ImagePaidOK(n)' /\ ImageKeptOK(n)'
    BY ImageIInvIs, ImageStays
<1>4. ImagesTypeOK'
    BY <1>1, <1>2, ImageIInvIs DEF ImagesTypeOK
<1> QED BY <1>2, <1>3, <1>4 DEF ImageIInv

(* An audition or a recovery ends, and nothing else happens.               *)
LEMMA EndedKeeps ==
    ASSUME ImageIInv, drawing # NoImage, EndDrawing \/ EndRecovery, DrawKeeps \/ DrawFails,
           UNCHANGED <<imageFiles, imageJobs, imageCall, imagePast>>,
           drawing.step \notin {"prepare", "calls"}
    PROVE  ImageIInv'
<1>1. imageFaults' \in 0..MaxImageFaults /\ UNCHANGED generator
    BY ImageIInvIs, ImageFaultsAre
<1>2. NewDrawing
    BY <1>1, EndDrawingIs
<1>3. \A n \in Image : imageCall'[n] = NoImage
    BY NoImageCalls
<1>4. \A n \in Image : SameImage(n)
    BY ImagesUntouched DEF imageJobs
<1>5. /\ generator' \in Generators \cup {NoImage} /\ imagePast' \in ImagePast
      /\ imageCall' \in [Image -> ImageCall \cup {NoImage}]
    BY <1>1, ImageIInvIs DEF ImagesTypeOK
<1>6. /\ UNCHANGED <<imageFiles, imageIntent, imageReceipt, sentCall, refusedCall>>
      /\ imagePlan' \in [Image -> ImageHash \cup {NoImage}]
    BY ImageIInvIs DEF ImagesTypeOK, imageJobs
<1> QED BY <1>1, <1>2, <1>3, <1>4, <1>5, <1>6, AnotherDrawingKeeps

(* Of what a look at a job writes, the invariant at the other numbers.     *)
LEMMA LookKeeps ==
    ASSUME ImageIInv, NEW n \in Image, LooksAt(n), NEW waits \in BOOLEAN, Looked(n, waits),
           UNCHANGED <<generator, imageCall>>,
           \A m \in Image : m # n => SameImage(m),
           waits => ImageSilent(n)',
           ~waits => ~ImageSilent(n)' \/ n \in imagePast'.unheard,
           ImagePaidOK(n)', ImageKeptOK(n)',
           drawing' \in Drawing \cup {NoImage} => ImagesTypeOK'
    PROVE  ImageIInv'
<1>1. /\ drawing' \in Drawing \cup {NoImage} /\ ImageSessionOK'
      /\ \A m \in Image : ImageDrawnOK(m)' /\ ImageCallOK(m)'
    BY LookedKeeps
<1>2. \A m \in Image : ImagePaidOK(m)' /\ ImageKeptOK(m)'
    BY ImageIInvIs, ImageStays
<1> QED BY <1>1, <1>2 DEF ImageIInv

LEMMA KeptAnswerKeeps ==
    ASSUME ImageIInv, NEW n \in Image, KeptAnswer(n)
    PROVE  ImageIInv'
<1>0. /\ LooksAt(n) /\ Answered(n, imageIntent[n].hash)
      /\ UNCHANGED <<castLog, imageFile, imagePlan, imageReceipt, sentCall, refusedCall,
                     imageCall, imagePast>>
    BY DEF KeptAnswer, imageFiles
<1>1. /\ drawing # NoImage /\ imageIntent[n] # NoImage
      /\ \A m \in Image : imageCall[m] = NoImage
    BY <1>0, LooksAtIs
<1>2. CASE FoundAnswer(n) /\ Looked(n, FALSE) /\ DrawKeeps
  <2>1. /\ imageIntent' \in [Image -> ImageIntent \cup {NoImage}]
        /\ imageIntent'[n] # NoImage /\ imageIntent'[n].state = "invoked"
        /\ imageIntent'[n].hash = imageIntent[n].hash
        /\ imageIntent'[n].attempts = imageIntent[n].attempts
        /\ \A m \in Image : m # n => imageIntent'[m] = imageIntent[m]
      BY <1>1, <1>2, ImageIInvIs, FoundAnswerIs
  <2>2. \A m \in Image : m # n => SameImage(m)
      BY <1>0, <2>1 DEF SameImage
  <2>3. ~ImageSilent(n)'
      BY <2>1 DEF ImageSilent, ImageIs
  <2>4. ImagePaidOK(n)'
      BY <1>0, <2>1, ImageIInvIs DEF ImagePaidOK, ImageSpent
  <2>5. ImageKeptOK(n)'
      BY <1>0, <2>1, ImageIInvIs DEF ImageKeptOK, ImageIs, Answered
  <2>6. imageFaults' \in 0..MaxImageFaults /\ UNCHANGED generator
      BY <1>2, ImageIInvIs, ImageFaultsAre
  <2>7. drawing' \in Drawing \cup {NoImage} => ImagesTypeOK'
      BY <1>0, <2>1, <2>6, ImageIInvIs DEF ImagesTypeOK
  <2> QED BY <1>0, <1>2, <2>2, <2>3, <2>4, <2>5, <2>6, <2>7, LookKeeps
<1>3. CASE FoundAnswerFails(n) /\ DrawFails
  <2>1. /\ UNCHANGED <<imageFiles, imageJobs, imageCall, imagePast>>
        /\ EndDrawing
      BY <1>0, <1>3 DEF FoundAnswerFails, imageFiles, imageJobs
  <2>2. drawing.step = "look"
      BY <1>0, LooksAtIs
  <2> QED BY <1>1, <1>3, <2>1, <2>2, EndedKeeps
<1> QED BY <1>2, <1>3 DEF KeptAnswer

LEMMA UnreadableAnswerKeeps ==
    ASSUME ImageIInv, NEW n \in Image, UnreadableAnswer(n)
    PROVE  ImageIInv'
<1>0. /\ LooksAt(n) /\ Looked(n, FALSE) /\ imageReceipt[n] # NoImage /\ DrawKeeps
      /\ UNCHANGED <<imageFiles, imageIntent, imagePlan, imageReceipt, sentCall, refusedCall,
                     imageCall, imagePast>>
    BY DEF UnreadableAnswer, BadReceipt, imageJobs
<1>1. UNCHANGED <<castLog, imageFile>> /\ \A m \in Image : SameImage(m)
    BY <1>0, ImagesUntouched
<1>2. ImagePaidOK(n)' /\ ImageKeptOK(n)'
    BY <1>1, ImageIInvIs, ImageStays
<1>3. ~ImageSilent(n)'
    BY <1>0 DEF ImageSilent
<1>4. imageFaults' \in 0..MaxImageFaults /\ UNCHANGED generator
    BY <1>0, ImageIInvIs, ImageFaultsAre
<1>5. drawing' \in Drawing \cup {NoImage} => ImagesTypeOK'
    BY <1>0, <1>1, <1>4, ImageIInvIs DEF ImagesTypeOK
<1> QED BY <1>0, <1>1, <1>2, <1>3, <1>4, <1>5, LookKeeps

LEMMA NoAnswerKeeps ==
    ASSUME ImageIInv, NEW n \in Image, NoAnswer(n)
    PROVE  ImageIInv'
<1>0. /\ LooksAt(n) /\ Looked(n, ImageIs(n, "prepared")) /\ imageReceipt[n] = NoImage
      /\ DrawKeeps
      /\ UNCHANGED <<castLog, imageFile, imageIntent, imagePlan, imageReceipt, sentCall,
                     imageCall, imagePast>>
    BY DEF NoAnswer, imageFiles
<1>1. /\ imageIntent[n] # NoImage /\ imageIntent[n].hash.by = drawing.by
      /\ imageIntent[n].hash \in ImageHash
    BY <1>0, LooksAtIs, ImageTypesAre, ImageIInvIs
<1>2. /\ refusedCall' \in [Image -> ImageHash \cup {NoImage}]
      /\ \A m \in Image : m # n => refusedCall'[m] = refusedCall[m]
      /\ refusedCall'[n] # refusedCall[n] => imagePast.charged[n] = 0
  <2>1. CASE UNCHANGED refusedCall
      BY <2>1, ImageIInvIs DEF ImagesTypeOK
  <2>2. CASE /\ imagePast.charged[n] = 0
             /\ refusedCall' = [refusedCall EXCEPT ![n] = imageIntent[n].hash]
      BY <1>1, <2>2, ImageIInvIs DEF ImagesTypeOK
  <2> QED BY <2>1, <2>2 DEF NoAnswer
<1>3. \A m \in Image : m # n => SameImage(m)
    BY <1>0, <1>2 DEF SameImage
<1>4. ImagePaidOK(n)'
  <2>1. imagePast.charged[n] \in Nat /\ imagePast.risked[n] \in Nat
      BY ImageIInvIs, ImageTypesAre
  <2> QED BY <1>0, <1>2, <2>1, ImageIInvIs DEF ImagePaidOK, ImageSpent
<1>5. ImageKeptOK(n)'
    BY <1>0, ImageIInvIs DEF ImageKeptOK, ImageIs
<1>6. imageFaults' \in 0..MaxImageFaults /\ UNCHANGED generator
    BY <1>0, ImageIInvIs, ImageFaultsAre
<1>7. drawing' \in Drawing \cup {NoImage} => ImagesTypeOK'
    BY <1>0, <1>2, <1>6, ImageIInvIs DEF ImagesTypeOK
<1>8. ImageIs(n, "prepared")' <=> ImageIs(n, "prepared")
    BY <1>0 DEF ImageIs
<1>9. drawing'.by = drawing.by
    BY <1>0, LooksAtIs DEF Looked, Drawing
<1>10. CASE ImageIs(n, "prepared")
  <2>1. ImageSilent(n)'
      BY <1>0, <1>1, <1>8, <1>9, <1>10 DEF ImageSilent
  <2>2. Looked(n, TRUE)
      BY <1>0, <1>10 DEF Looked
  <2> QED BY <1>0, <1>3, <1>4, <1>5, <1>6, <1>7, <2>1, <2>2, LookKeeps
<1>11. CASE ~ImageIs(n, "prepared")
  <2>1. ~ImageSilent(n)'
      BY <1>8, <1>11 DEF ImageSilent
  <2>2. Looked(n, FALSE)
      BY <1>0, <1>11 DEF Looked
  <2> QED BY <1>0, <1>3, <1>4, <1>5, <1>6, <1>7, <2>1, <2>2, LookKeeps
<1> QED BY <1>10, <1>11

LEMMA PluginUnheardKeeps ==
    ASSUME ImageIInv, NEW n \in Image, PluginUnheard(n)
    PROVE  ImageIInv'
<1>0. /\ LooksAt(n) /\ Looked(n, FALSE) /\ DrawFails
      /\ imagePast' = [imagePast EXCEPT !.unheard = imagePast.unheard \cup {n}]
      /\ UNCHANGED <<castLog, imageFile, imageIntent, imagePlan, imageReceipt, sentCall,
                     refusedCall, imageCall>>
    BY DEF PluginUnheard, Past, imageFiles, imageJobs
<1>1. imagePast \in ImagePast
    BY ImageIInvIs, ImageTypesAre
<1>2. /\ imagePast' \in ImagePast /\ imagePast'.unheard = imagePast.unheard \cup {n}
      /\ imagePast'.charged = imagePast.charged /\ imagePast'.risked = imagePast.risked
      /\ imagePast'.overtaken = imagePast.overtaken
    BY <1>0, <1>1 DEF ImagePast
<1>3. \A m \in Image : m # n => SameImage(m)
    BY <1>0, <1>2 DEF SameImage
<1>4. ImagePaidOK(n)'
    BY <1>2 DEF ImagePaidOK
<1>5. ImageKeptOK(n)'
    BY <1>0, <1>2, ImageIInvIs DEF ImageKeptOK, ImageIs
<1>6. imageFaults' \in 0..MaxImageFaults /\ UNCHANGED generator
    BY <1>0, ImageIInvIs, ImageFaultsAre
<1>7. drawing' \in Drawing \cup {NoImage} => ImagesTypeOK'
    BY <1>0, <1>2, <1>6, ImageIInvIs DEF ImagesTypeOK
<1>8. n \in imagePast'.unheard
    BY <1>2
<1> QED BY <1>0, <1>3, <1>4, <1>5, <1>6, <1>7, <1>8, LookKeeps

LEMMA PluginAnswersKeeps ==
    ASSUME ImageIInv, NEW n \in Image, PluginAnswers(n)
    PROVE  ImageIInv'
<1>p. PICK picture : picture = imagePast.pictures + 1
    OBVIOUS
<1>0. /\ LooksAt(n) /\ MayBeAsked(n) /\ imagePast.pictures < MaxPictures
      /\ imageFile' = [imageFile EXCEPT ![n] = picture]
      /\ UNCHANGED <<castLog, imagePlan, sentCall, refusedCall, imageCall>>
    BY <1>p DEF PluginAnswers
<1>1. /\ drawing # NoImage /\ imageIntent[n] # NoImage /\ imageIntent[n] \in ImageIntent
      /\ imageIntent[n].state \in {"prepared", "invoked"}
      /\ imageIntent[n].hash \in ImageHash
      /\ \A m \in Image : imageCall[m] = NoImage
    BY <1>0, LooksAtIs, ImageTypesAre, ImageIInvIs
<1>2. ImageIs(n, "prepared") /\ imageReceipt[n] = NoImage
    BY <1>0, <1>1, ImageIInvIs DEF ImageKeptOK, ImageIs, MayBeAsked
<1>3. n \in DOMAIN castLog => n \in imagePast.overtaken
    BY <1>2, ImageIInvIs DEF ImageKeptOK
<1>4. imagePast \in ImagePast /\ picture \in 0..MaxPictures /\ picture \in Picture
    BY <1>0, <1>p, ImageIInvIs, ImageTypesAre, ImageAssumption DEF Picture
<1>5. /\ imageFile' \in [Image -> Picture \cup {NoImage}] /\ imageFile'[n] = picture
      /\ \A m \in Image : m # n => imageFile'[m] = imageFile[m]
    BY <1>0, <1>4, ImageIInvIs DEF ImagesTypeOK
<1>r. PICK receipt : receipt = [hash |-> imageIntent[n].hash, picture |-> picture]
    OBVIOUS
<1>6. /\ receipt \in ImageReceipt /\ receipt # NoImage /\ receipt.picture = picture
      /\ receipt.hash = imageIntent[n].hash
    BY <1>1, <1>4, <1>r, ImageAssumption DEF ImageReceipt
<1>7. ASSUME imageReceipt' = [imageReceipt EXCEPT ![n] = receipt],
             imagePast' = [imagePast EXCEPT !.pictures = picture]
      PROVE  /\ imageReceipt' \in [Image -> ImageReceipt \cup {NoImage}]
             /\ imageReceipt'[n] = receipt
             /\ \A m \in Image : m # n => imageReceipt'[m] = imageReceipt[m]
             /\ imagePast' \in ImagePast
             /\ imagePast'.charged = imagePast.charged /\ imagePast'.risked = imagePast.risked
             /\ imagePast'.unheard = imagePast.unheard
             /\ imagePast'.overtaken = imagePast.overtaken
  <2>1. /\ imageReceipt' \in [Image -> ImageReceipt \cup {NoImage}] /\ imageReceipt'[n] = receipt
        /\ \A m \in Image : m # n => imageReceipt'[m] = imageReceipt[m]
      BY <1>6, <1>7, ImageIInvIs DEF ImagesTypeOK
  <2>2. /\ imagePast' \in ImagePast
        /\ imagePast'.charged = imagePast.charged /\ imagePast'.risked = imagePast.risked
        /\ imagePast'.unheard = imagePast.unheard /\ imagePast'.overtaken = imagePast.overtaken
      BY <1>4, <1>7 DEF ImagePast
  <2> QED BY <2>1, <2>2
<1>8. CASE /\ imageReceipt' = [imageReceipt EXCEPT ![n] = receipt]
           /\ FoundAnswer(n) /\ Looked(n, FALSE) /\ DrawKeeps
           /\ imagePast' = [imagePast EXCEPT !.pictures = picture]
  <2>1. /\ imageReceipt' \in [Image -> ImageReceipt \cup {NoImage}] /\ imageReceipt'[n] = receipt
        /\ \A m \in Image : m # n => imageReceipt'[m] = imageReceipt[m]
        /\ imagePast' \in ImagePast
        /\ imagePast'.charged = imagePast.charged /\ imagePast'.risked = imagePast.risked
        /\ imagePast'.unheard = imagePast.unheard /\ imagePast'.overtaken = imagePast.overtaken
      BY <1>7, <1>8
  <2>2. /\ imageIntent' \in [Image -> ImageIntent \cup {NoImage}]
        /\ imageIntent'[n] # NoImage /\ imageIntent'[n].state = "invoked"
        /\ imageIntent'[n].hash = imageIntent[n].hash
        /\ imageIntent'[n].attempts = imageIntent[n].attempts
        /\ \A m \in Image : m # n => imageIntent'[m] = imageIntent[m]
      BY <1>1, <1>8, ImageIInvIs, FoundAnswerIs
  <2>3. \A m \in Image : m # n => SameImage(m)
      BY <1>0, <1>5, <2>1, <2>2 DEF SameImage
  <2>4. ~ImageSilent(n)'
      BY <2>2 DEF ImageSilent, ImageIs
  <2>5. ImagePaidOK(n)'
      BY <1>0, <2>1, <2>2, ImageIInvIs DEF ImagePaidOK, ImageSpent
  <2>6. ImageKeptOK(n)'
      BY <1>0, <1>3, <1>5, <1>6, <2>1, <2>2 DEF ImageKeptOK, ImageIs
  <2>7. imageFaults' \in 0..MaxImageFaults /\ UNCHANGED generator
      BY <1>8, ImageIInvIs, ImageFaultsAre
  <2>8. drawing' \in Drawing \cup {NoImage} => ImagesTypeOK'
      BY <1>0, <1>5, <2>1, <2>2, <2>7, ImageIInvIs DEF ImagesTypeOK
  <2> QED BY <1>0, <1>8, <2>3, <2>4, <2>5, <2>6, <2>7, <2>8, LookKeeps
<1>9. CASE /\ imageReceipt' = [imageReceipt EXCEPT ![n] = receipt]
           /\ FoundAnswerFails(n) /\ DrawFails
           /\ imagePast' = [imagePast EXCEPT !.pictures = picture]
  <2>1. /\ imageReceipt' \in [Image -> ImageReceipt \cup {NoImage}] /\ imageReceipt'[n] = receipt
        /\ \A m \in Image : m # n => imageReceipt'[m] = imageReceipt[m]
        /\ imagePast' \in ImagePast
        /\ imagePast'.charged = imagePast.charged /\ imagePast'.risked = imagePast.risked
        /\ imagePast'.unheard = imagePast.unheard /\ imagePast'.overtaken = imagePast.overtaken
      BY <1>7, <1>9
  <2>2. UNCHANGED imageIntent /\ EndDrawing
      BY <1>9 DEF FoundAnswerFails
  <2>3. \A m \in Image : m # n => SameImage(m)
      BY <1>0, <1>5, <2>1, <2>2 DEF SameImage
  <2>4. ImagePaidOK(n)'
      BY <1>0, <2>1, <2>2, ImageIInvIs DEF ImagePaidOK, ImageSpent
  <2>5. ImageKeptOK(n)'
      BY <1>0, <1>2, <1>3, <2>1, <2>2 DEF ImageKeptOK, ImageIs
  <2>6. imageFaults' \in 0..MaxImageFaults /\ UNCHANGED generator
      BY <1>9, ImageIInvIs, ImageFaultsAre
  <2>7. NewDrawing
      BY <1>1, <2>2, <2>6, EndDrawingIs
  <2>8. /\ drawing' \in Drawing \cup {NoImage} /\ ImageSessionOK'
        /\ \A m \in Image : ImageDrawnOK(m)' /\ ImageCallOK(m)'
      BY <1>0, <1>1, <2>2, <2>7, ImageIInvIs, NewDrawingKeeps
  <2>9. ImagesTypeOK'
      BY <1>0, <1>5, <2>1, <2>2, <2>6, <2>8, ImageIInvIs DEF ImagesTypeOK
  <2>10. \A m \in Image : ImagePaidOK(m)' /\ ImageKeptOK(m)'
      BY <2>3, <2>4, <2>5, ImageIInvIs, ImageStays
  <2> QED BY <2>8, <2>9, <2>10 DEF ImageIInv
<1>10. CASE /\ UNCHANGED <<imageReceipt, imageIntent>> /\ Looked(n, FALSE)
            /\ imagePast' = [imagePast EXCEPT !.pictures = picture, !.unheard = @ \cup {n}]
            /\ DrawFails
  <2>1. /\ imagePast' \in ImagePast /\ n \in imagePast'.unheard
        /\ \A m \in Image : m # n => (m \in imagePast'.unheard <=> m \in imagePast.unheard)
        /\ imagePast'.charged = imagePast.charged /\ imagePast'.risked = imagePast.risked
        /\ imagePast'.overtaken = imagePast.overtaken
      BY <1>4, <1>10 DEF ImagePast
  <2>2. \A m \in Image : m # n => SameImage(m)
      BY <1>0, <1>5, <1>10, <2>1 DEF SameImage
  <2>3. ImagePaidOK(n)'
      BY <2>1 DEF ImagePaidOK
  <2>4. ImageKeptOK(n)'
      BY <1>0, <1>2, <1>3, <1>10, <2>1 DEF ImageKeptOK, ImageIs
  <2>5. imageFaults' \in 0..MaxImageFaults /\ UNCHANGED generator
      BY <1>10, ImageIInvIs, ImageFaultsAre
  <2>6. drawing' \in Drawing \cup {NoImage} => ImagesTypeOK'
      BY <1>0, <1>5, <1>10, <2>1, <2>5, ImageIInvIs DEF ImagesTypeOK
  <2> QED BY <1>0, <1>10, <2>1, <2>2, <2>3, <2>4, <2>5, <2>6, LookKeeps
<1> QED BY <1>p, <1>r, <1>8, <1>9, <1>10 DEF PluginAnswers, Past

(* Only the audition or the recovery goes on.                              *)
LEMMA DrawingAloneKeeps ==
    ASSUME ImageIInv, UNCHANGED <<imageFiles, imageJobs>>,
           drawing' \in Drawing \cup {NoImage}, ImageSessionOK',
           imageCall' \in [Image -> ImageCall \cup {NoImage}],
           \A n \in Image : SameImage(n), imagePast' \in ImagePast,
           \A n \in Image : ImageDrawnOK(n)' /\ ImageCallOK(n)',
           imageFaults' \in 0..MaxImageFaults, generator' \in Generators \cup {NoImage}
    PROVE  ImageIInv'
<1>1. UNCHANGED <<castLog, imageFile, imageIntent, imageReceipt, refusedCall, imagePlan, sentCall>>
    BY DEF imageJobs, imageFiles
<1>2. \A n \in Image : ImagePaidOK(n)' /\ ImageKeptOK(n)'
    BY ImageIInvIs, ImageStays
<1>3. ImagesTypeOK'
    BY <1>1, ImageIInvIs DEF ImagesTypeOK
<1> QED BY <1>2, <1>3 DEF ImageIInv

LEMMA LookedThroughKeeps ==
    ASSUME ImageIInv, LookedThrough
    PROVE  ImageIInv'
<1>s. PICK S : S = {n \in Unfinished(drawing.by) :
                      ImageIs(n, "invoked") /\ Answered(n, imageIntent[n].hash)}
    OBVIOUS
<1>0. /\ drawing # NoImage /\ drawing.step = "look" /\ drawing.todo = {} /\ DrawKeeps
      /\ drawing' = [drawing EXCEPT !.step = "finish", !.todo = S]
      /\ UNCHANGED <<imageFiles, imageJobs, imageCall, imagePast>>
    BY <1>s DEF LookedThrough, DrawAt
<1>1. /\ UNCHANGED <<castLog, imageFile, imageIntent, imageReceipt, refusedCall>>
      /\ \A n \in Image : SameImage(n)
    BY <1>0, ImagesUntouched DEF imageJobs
<1>2. S \subseteq Image /\ \A n \in S : ImageIs(n, "invoked")
    BY <1>s DEF Unfinished
<1>3. /\ drawing' \in Drawing /\ drawing'.step = "finish" /\ drawing'.todo = S
      /\ drawing'.by = drawing.by /\ drawing'.waiting = drawing.waiting
    BY <1>0, <1>2, ImageIInvIs, ImageTypesAre DEF Drawing, DrawStep
<1>4. \A n \in Image : imageCall[n] = NoImage
    BY <1>0, NoImageCalls
<1>5. \A n \in Image : ImageDrawnOK(n)' /\ ImageCallOK(n)'
  <2> TAKE n \in Image
  <2>1. ImageDrawnOK(n)
      BY ImageIInvIs
  <2>2. ImageSilent(n)' <=> ImageSilent(n)
      BY <1>1, <1>3 DEF ImageSilent, ImageIs
  <2>3. n \in S => ~ImageSilent(n) /\ ImageIs(n, "invoked")'
      BY <1>1, <1>2 DEF ImageSilent, ImageIs
  <2>4. ImageDrawnOK(n)'
      BY <1>0, <1>3, <2>1, <2>2, <2>3 DEF ImageDrawnOK
  <2> QED BY <1>0, <1>4, <2>4 DEF ImageCallOK
<1>6. drawing' # NoImage /\ ImageSessionOK'
    BY <1>0, <1>3, ImageAssumption, ImageIInvIs DEF ImageSessionOK, DrawKeeps
<1>7. imageFaults' \in 0..MaxImageFaults /\ generator' \in Generators \cup {NoImage}
    BY <1>0, ImageIInvIs, ImageFaultsAre DEF ImagesTypeOK
<1>8. imagePast' \in ImagePast /\ imageCall' \in [Image -> ImageCall \cup {NoImage}]
    BY <1>0, ImageIInvIs DEF ImagesTypeOK
<1> QED BY <1>0, <1>1, <1>3, <1>5, <1>6, <1>7, <1>8, DrawingAloneKeeps

LEMMA FinishedKeeps ==
    ASSUME ImageIInv, Finished \/ OpenRefused \/ EndAudition
    PROVE  ImageIInv'
BY EndedKeeps DEF Finished, OpenRefused, EndAudition, DrawAt

LEMMA AskImagesKeeps ==
    ASSUME ImageIInv, NEW count \in 1..2, NEW risks \in BOOLEAN, AskImages(count, risks)
    PROVE  ImageIInv'
<1>0. /\ generator # NoImage /\ drawing = NoImage /\ imagePast.asks < MaxImageAsks
      /\ drawing' = LookThrough("audition", generator, count, risks)
      /\ imagePast' = [imagePast EXCEPT !.asks = imagePast.asks + 1]
      /\ DrawKeeps /\ UNCHANGED <<imageFiles, imageJobs, imageCall>>
    BY DEF AskImages, Past
<1>1. imageFaults' \in 0..MaxImageFaults /\ UNCHANGED generator
    BY <1>0, ImageIInvIs, ImageFaultsAre
<1>2. generator \in Generators /\ generator' # NoImage
    BY <1>0, <1>1, ImageIInvIs DEF ImagesTypeOK
<1>3. NewDrawing
    BY <1>0, <1>2, LookThroughIs
<1>4. \A n \in Image : imageCall'[n] = NoImage
    BY <1>0, NoImageCalls
<1>5. /\ imagePast' \in ImagePast
      /\ imagePast'.charged = imagePast.charged /\ imagePast'.risked = imagePast.risked
      /\ imagePast'.unheard = imagePast.unheard /\ imagePast'.overtaken = imagePast.overtaken
  <2>1. imagePast \in ImagePast
      BY ImageIInvIs, ImageTypesAre
  <2>2. imagePast.asks + 1 \in 0..MaxImageAsks
      BY <1>0, <2>1, ImageAssumption DEF ImagePast
  <2> QED BY <1>0, <2>1, <2>2 DEF ImagePast
<1>6. \A n \in Image : SameImage(n)
    BY <1>0, <1>5 DEF SameImage, imageFiles, imageJobs
<1>7. /\ generator' \in Generators \cup {NoImage}
      /\ imageCall' \in [Image -> ImageCall \cup {NoImage}]
    BY <1>0, <1>1, ImageIInvIs DEF ImagesTypeOK
<1>8. /\ UNCHANGED <<imageFiles, imageIntent, imageReceipt, sentCall, refusedCall>>
      /\ imagePlan' \in [Image -> ImageHash \cup {NoImage}]
    BY <1>0, ImageIInvIs DEF ImagesTypeOK, imageJobs
<1> QED BY <1>0, <1>1, <1>3, <1>4, <1>5, <1>6, <1>7, <1>8, AnotherDrawingKeeps

LEMMA StopImagesKeeps ==
    ASSUME ImageIInv, StopImages
    PROVE  ImageIInv'
<1>0. /\ imageFaults < MaxImageFaults /\ imageFaults' = imageFaults + 1
      /\ generator' = NoImage /\ drawing' = NoImage
      /\ imageCall' = [n \in Image |-> NoImage]
      /\ UNCHANGED <<imageFiles, imageJobs, imagePast>>
    BY DEF StopImages
<1>1. imageFaults' \in 0..MaxImageFaults /\ imagePast' \in ImagePast
    BY <1>0, ImageIInvIs, ImageAssumption DEF ImagesTypeOK
<1>2. \A n \in Image : SameImage(n)
    BY <1>0, ImagesUntouched DEF imageJobs
<1>3. NewDrawing
    BY <1>0 DEF NewDrawing
<1>4. /\ UNCHANGED <<imageFiles, imageIntent, imageReceipt, sentCall, refusedCall>>
      /\ imagePlan' \in [Image -> ImageHash \cup {NoImage}]
    BY <1>0, ImageIInvIs DEF ImagesTypeOK, imageJobs
<1> QED BY <1>0, <1>1, <1>2, <1>3, <1>4, AnotherDrawingKeeps

LEMMA OpenImagesKeeps ==
    ASSUME ImageIInv, NEW by \in Generators, OpenImages(by)
    PROVE  ImageIInv'
<1>0. /\ generator = NoImage /\ generator' = by /\ drawing' = Recover(by)
      /\ UNCHANGED <<imageFiles, imageJobs, imageCall, imageFaults, imagePast>>
    BY DEF OpenImages
<1>1. NewDrawing
    BY <1>0, RecoverIs, ImageAssumption
<1>2. drawing = NoImage
    BY <1>0, ImageIInvIs DEF ImageSessionOK
<1>3. \A n \in Image : imageCall'[n] = NoImage /\ SameImage(n)
    BY <1>0, <1>2, NoImageCalls, ImagesUntouched DEF imageJobs
<1>4. /\ imageCall' \in [Image -> ImageCall \cup {NoImage}] /\ imagePast' \in ImagePast
      /\ imageFaults' \in 0..MaxImageFaults
    BY <1>0, ImageIInvIs DEF ImagesTypeOK
<1>5. /\ UNCHANGED <<imageFiles, imageIntent, imageReceipt, sentCall, refusedCall>>
      /\ imagePlan' \in [Image -> ImageHash \cup {NoImage}]
    BY <1>0, ImageIInvIs DEF ImagesTypeOK, imageJobs
<1> QED BY <1>0, <1>1, <1>3, <1>4, <1>5, AnotherDrawingKeeps

(* What is recorded with an image more.                                    *)
LEMMA LogWithIs ==
    ASSUME ImagesTypeOK, NEW n \in Image, NEW image \in CastImage, castLog' = LogWith(n, image)
    PROVE  /\ DOMAIN castLog' = DOMAIN castLog \cup {n} /\ DOMAIN castLog' \subseteq Image
           /\ \A m \in DOMAIN castLog' : castLog'[m] \in CastImage
           /\ \A m \in DOMAIN castLog : castLog'[m] = castLog[m]
           /\ n \notin DOMAIN castLog => castLog'[n] = image
BY DEF ImagesTypeOK, LogWith

(* What is left of a number's files is of their types, and no other        *)
(* number's change.                                                        *)
LEMMA ReleasedIs ==
    ASSUME ImagesTypeOK, NEW n \in Image, Released(n) \/ ReleasedSome(n)
    PROVE  /\ imageReceipt' \in [Image -> ImageReceipt \cup {NoImage}]
           /\ sentCall' \in [Image -> ImageHash \cup {NoImage}]
           /\ refusedCall' \in [Image -> ImageHash \cup {NoImage}]
           /\ imagePlan' \in [Image -> ImageHash \cup {NoImage}]
           /\ imageReceipt'[n] \in {imageReceipt[n], NoImage}
           /\ refusedCall'[n] \in {refusedCall[n], NoImage}
           /\ \A m \in Image : m # n =>
                 imageReceipt'[m] = imageReceipt[m] /\ refusedCall'[m] = refusedCall[m]
           /\ imageFaults' \in 0..MaxImageFaults /\ UNCHANGED generator
<1>1. imageFaults' \in 0..MaxImageFaults /\ UNCHANGED generator
    BY ImageFaultsAre DEF Released, ReleasedSome
<1>2. imageReceipt' \in {imageReceipt, [imageReceipt EXCEPT ![n] = NoImage]}
    BY DEF Released, ReleasedSome
<1>3. sentCall' \in {sentCall, [sentCall EXCEPT ![n] = NoImage]}
    BY DEF Released, ReleasedSome, Unsent
<1>4. refusedCall' \in {refusedCall, [refusedCall EXCEPT ![n] = NoImage]}
    BY DEF Released, ReleasedSome
<1>5. imagePlan' \in {imagePlan, [imagePlan EXCEPT ![n] = NoImage]}
    BY DEF Released, ReleasedSome
<1> QED BY <1>1, <1>2, <1>3, <1>4, <1>5 DEF ImagesTypeOK

LEMMA RecordImageKeeps ==
    ASSUME ImageIInv, NEW n \in Image, NEW planned, RecordImage(n, planned),
           drawing # NoImage, drawing.step \in {"finish", "attach"}, n \in drawing.todo,
           drawing' = [drawing EXCEPT !.todo = @ \ {n}],
           UNCHANGED <<imageFile, imageCall, imagePast>>
    PROVE  ImageIInv'
<1>1. /\ ImageIs(n, "invoked") /\ imageIntent[n] # NoImage /\ imageIntent[n] \in ImageIntent
      /\ imageReceipt[n] # NoImage /\ imageReceipt[n] \in ImageReceipt
      /\ imageReceipt[n].hash = imageIntent[n].hash
      /\ \A m \in Image : imageCall[m] = NoImage
    BY ImageIInvIs, ImageTypesAre, NoImageCalls DEF ImageDrawnOK, ImageKeptOK, ImageIs
<1>2. /\ drawing' \in Drawing /\ drawing'.step = drawing.step /\ drawing'.by = drawing.by
      /\ drawing'.todo = drawing.todo \ {n} /\ drawing'.waiting = drawing.waiting
    BY ImageIInvIs, ImageTypesAre DEF Drawing
<1>3. ASSUME imageIntent'[n] # NoImage, imageIntent'[n].state \in {"invoked", "reconciled"},
             \A m \in Image : m # n => SameImage(m), UNCHANGED generator
      PROVE  ImageSessionOK' /\ \A m \in Image : ImageDrawnOK(m)' /\ ImageCallOK(m)'
  <2>1. drawing' # NoImage /\ ImageSessionOK'
      BY <1>2, <1>3, ImageAssumption, ImageIInvIs DEF ImageSessionOK
  <2>2. \A m \in Image : ImageCallOK(m)'
      BY <1>1 DEF ImageCallOK
  <2>3. ~ImageSilent(n)' /\ n \notin drawing.waiting
    <3>1. ~ImageSilent(n)' /\ ~ImageSilent(n)
        BY <1>1, <1>3 DEF ImageSilent, ImageIs
    <3> QED BY <3>1, ImageIInvIs DEF ImageDrawnOK
  <2>4. \A m \in Image : ImageDrawnOK(m)'
    <3> TAKE m \in Image
    <3>1. CASE m = n
        BY <1>2, <2>3, <3>1 DEF ImageDrawnOK
    <3>2. CASE m # n
      <4>1. SameImage(m) /\ ImageDrawnOK(m)
          BY <1>3, <3>2, ImageIInvIs
      <4>2. /\ ImageSilent(m)' <=> ImageSilent(m)
            /\ ImageIs(m, "invoked")' <=> ImageIs(m, "invoked")
          BY <1>2, <4>1 DEF ImageSilent, ImageIs, SameImage
      <4> QED BY <1>2, <3>2, <4>1, <4>2 DEF ImageDrawnOK, SameImage
    <3> QED BY <3>1, <3>2
  <2> QED BY <2>1, <2>2, <2>4
<1>4. CASE UNCHANGED <<castLog, imageJobs>> /\ (DrawKeeps \/ DrawFails)
  <2>1. /\ UNCHANGED <<castLog, imageFile, imageIntent, imageReceipt, refusedCall>>
        /\ UNCHANGED <<imageFiles, imageJobs>> /\ \A m \in Image : SameImage(m)
      BY <1>4, ImagesUntouched DEF imageJobs, imageFiles
  <2>2. imageFaults' \in 0..MaxImageFaults /\ UNCHANGED generator
      BY <1>4, ImageIInvIs, ImageFaultsAre
  <2>3. ImageSessionOK' /\ \A m \in Image : ImageDrawnOK(m)' /\ ImageCallOK(m)'
    <3>1. imageIntent'[n] # NoImage /\ imageIntent'[n].state \in {"invoked", "reconciled"}
        BY <1>1, <2>1 DEF ImageIs
    <3> QED BY <1>3, <2>1, <2>2, <3>1
  <2>4. /\ generator' \in Generators \cup {NoImage} /\ imagePast' \in ImagePast
        /\ imageCall' \in [Image -> ImageCall \cup {NoImage}]
      BY <2>2, ImageIInvIs DEF ImagesTypeOK
  <2> QED BY <1>2, <2>1, <2>2, <2>3, <2>4, DrawingAloneKeeps
<1>5. CASE /\ MayAttach(n, planned) /\ castLog' = WithImage(n)
           /\ \/ UNCHANGED imageJobs /\ DrawFails
              \/ /\ imageIntent' = [imageIntent EXCEPT ![n].state = "reconciled"]
                 /\ \/ Released(n)
                    \/ DrawFails /\ UNCHANGED <<imageReceipt, sentCall, refusedCall, imagePlan>>
  <2>1. PICK image : image = ImageOf(n)
      OBVIOUS
  <2>2. /\ image \in CastImage /\ image.hash = imageIntent[n].hash
        /\ image.picture = imageReceipt[n].picture
      BY <1>1, <2>1 DEF ImageOf, CastImage, ImageReceipt
  <2>3. /\ DOMAIN castLog' = DOMAIN castLog \cup {n} /\ DOMAIN castLog' \subseteq Image
        /\ \A m \in DOMAIN castLog' : castLog'[m] \in CastImage
        /\ \A m \in DOMAIN castLog : castLog'[m] = castLog[m]
        /\ n \notin DOMAIN castLog => castLog'[n] = image
      BY <1>5, <2>1, <2>2, ImageIInvIs, LogWithIs DEF WithImage
  <2>4. /\ castLog'[n].hash = imageIntent[n].hash
        /\ n \notin imagePast.overtaken => imageFile[n] = castLog'[n].picture
    <3>1. CASE n \in DOMAIN castLog
      <4>1. ~(n > LastImage)
        <5>1. LastImage \in Nat /\ n <= LastImage /\ n \in Nat
            BY <3>1, ImageIInvIs, LastImageIs DEF Image
        <5> QED BY <5>1
      <4>2. castLog[n] \in CastImage /\ [castLog[n] EXCEPT !.rejected = FALSE] = image
          BY <1>5, <2>1, <3>1, <4>1, ImageIInvIs, ImageTypesAre DEF MayAttach
      <4>3. castLog'[n].hash = imageIntent[n].hash
          BY <2>2, <2>3, <3>1, <4>2 DEF CastImage
      <4>4. n \notin imagePast.overtaken => imageFile[n] = castLog'[n].picture
          BY <2>3, <3>1, ImageIInvIs DEF ImageKeptOK
      <4> QED BY <4>3, <4>4
    <3>2. CASE n \notin DOMAIN castLog
        BY <1>5, <2>2, <2>3, <3>2 DEF MayAttach
    <3> QED BY <3>1, <3>2
  <2>5. \A m \in Image : m # n => (m \in DOMAIN castLog' <=> m \in DOMAIN castLog)
      BY <2>3
  <2>6. CASE UNCHANGED imageJobs /\ DrawFails
    <3>1. UNCHANGED <<imageIntent, imageReceipt, refusedCall, imagePlan, sentCall>>
        BY <2>6 DEF imageJobs
    <3>2. \A m \in Image : m # n => SameImage(m)
        BY <2>3, <2>5, <3>1 DEF SameImage
    <3>3. imageFaults' \in 0..MaxImageFaults /\ UNCHANGED generator
        BY <2>6, ImageIInvIs, ImageFaultsAre
    <3>4. ImageSessionOK' /\ \A m \in Image : ImageDrawnOK(m)' /\ ImageCallOK(m)'
      <4>1. imageIntent'[n] # NoImage /\ imageIntent'[n].state \in {"invoked", "reconciled"}
          BY <1>1, <3>1 DEF ImageIs
      <4> QED BY <1>3, <3>2, <3>3, <4>1
    <3>5. ImagePaidOK(n)'
        BY <3>1, ImageIInvIs DEF ImagePaidOK, ImageSpent
    <3>6. ImageKeptOK(n)'
        BY <1>1, <2>3, <2>4, <3>1 DEF ImageKeptOK, ImageIs
    <3>7. \A m \in Image : ImagePaidOK(m)' /\ ImageKeptOK(m)'
        BY <3>2, <3>5, <3>6, ImageIInvIs, ImageStays
    <3>8. ImagesTypeOK'
        BY <1>2, <2>3, <3>1, <3>3, ImageIInvIs DEF ImagesTypeOK
    <3> QED BY <3>4, <3>7, <3>8 DEF ImageIInv
  <2>7. CASE /\ imageIntent' = [imageIntent EXCEPT ![n].state = "reconciled"]
             /\ \/ Released(n)
                \/ DrawFails /\ UNCHANGED <<imageReceipt, sentCall, refusedCall, imagePlan>>
    <3>1. PICK new : new = [imageIntent[n] EXCEPT !.state = "reconciled"]
        OBVIOUS
    <3>2. /\ new \in ImageIntent /\ new # NoImage /\ new.state = "reconciled"
          /\ new.hash = imageIntent[n].hash /\ new.attempts = imageIntent[n].attempts
        BY <1>1, <3>1, ImageAssumption DEF ImageIntent
    <3>3. imageIntent' = [imageIntent EXCEPT ![n] = new]
        BY <2>7, <3>1, ImageIInvIs DEF ImagesTypeOK
    <3>4. /\ imageIntent' \in [Image -> ImageIntent \cup {NoImage}] /\ imageIntent'[n] = new
          /\ \A m \in Image : m # n => imageIntent'[m] = imageIntent[m]
        BY <3>2, <3>3, ImageIInvIs, ImageIntentBecomes
    <3>5. /\ imageReceipt' \in [Image -> ImageReceipt \cup {NoImage}]
          /\ sentCall' \in [Image -> ImageHash \cup {NoImage}]
          /\ refusedCall' \in [Image -> ImageHash \cup {NoImage}]
          /\ imagePlan' \in [Image -> ImageHash \cup {NoImage}]
          /\ refusedCall'[n] \in {refusedCall[n], NoImage}
          /\ \A m \in Image : m # n =>
                imageReceipt'[m] = imageReceipt[m] /\ refusedCall'[m] = refusedCall[m]
          /\ imageFaults' \in 0..MaxImageFaults /\ UNCHANGED generator
      <4>1. CASE Released(n)
          BY <4>1, ImageIInvIs, ReleasedIs
      <4>2. CASE DrawFails /\ UNCHANGED <<imageReceipt, sentCall, refusedCall, imagePlan>>
          BY <4>2, ImageIInvIs, ImageFaultsAre DEF ImagesTypeOK
      <4> QED BY <2>7, <4>1, <4>2
    <3>6. \A m \in Image : m # n => SameImage(m)
        BY <2>3, <2>5, <3>4, <3>5 DEF SameImage
    <3>7. ImageSessionOK' /\ \A m \in Image : ImageDrawnOK(m)' /\ ImageCallOK(m)'
        BY <1>3, <3>2, <3>4, <3>5, <3>6
    <3>8. ImagePaidOK(n)'
        BY <1>1, <3>2, <3>4, <3>5, ImageIInvIs DEF ImagePaidOK, ImageSpent
    <3>9. ImageKeptOK(n)'
        BY <2>3, <2>4, <3>2, <3>4 DEF ImageKeptOK, ImageIs
    <3>10. \A m \in Image : ImagePaidOK(m)' /\ ImageKeptOK(m)'
        BY <3>6, <3>8, <3>9, ImageIInvIs, ImageStays
    <3>11. ImagesTypeOK'
        BY <1>2, <2>3, <3>4, <3>5, ImageIInvIs DEF ImagesTypeOK
    <3> QED BY <3>7, <3>10, <3>11 DEF ImageIInv
  <2> QED BY <1>5, <2>6, <2>7
<1> QED BY <1>4, <1>5 DEF RecordImage

LEMMA FinishImageKeeps ==
    ASSUME ImageIInv, NEW n \in Image, FinishImage(n) \/ AttachImage(n)
    PROVE  ImageIInv'
BY RecordImageKeeps DEF FinishImage, AttachImage, DrawAt

LEMMA OpenRetiresKeeps ==
    ASSUME ImageIInv, OpenRetires
    PROVE  ImageIInv'
<1>0. /\ drawing # NoImage /\ drawing.step = "finish" /\ drawing.todo = {} /\ ~Refused
      /\ drawing' = [drawing EXCEPT !.step = "retire"]
      /\ DrawKeeps /\ UNCHANGED <<imageFiles, imageJobs, imageCall, imagePast>>
    BY DEF OpenRetires, DrawAt, DrawGo
<1>1. /\ UNCHANGED <<castLog, imageFile, imageIntent, imageReceipt, refusedCall>>
      /\ \A n \in Image : SameImage(n)
    BY <1>0, ImagesUntouched DEF imageJobs
<1>2. /\ drawing' \in Drawing /\ drawing'.step = "retire" /\ drawing'.todo = {}
      /\ drawing'.by = drawing.by /\ drawing'.waiting = drawing.waiting
      /\ drawing'.risks = drawing.risks
    BY <1>0, ImageIInvIs, ImageTypesAre DEF Drawing, DrawStep
<1>3. \A n \in Image : imageCall[n] = NoImage
    BY <1>0, NoImageCalls
<1>4. \A n \in Image : n \in Unresolved' => n \in Unresolved
    BY <1>1, <1>2 DEF Unresolved, Answered
<1>5. drawing.risks \/ Unresolved = {}
    BY <1>0 DEF Refused
<1>6. \A n \in Image : ImageDrawnOK(n)' /\ ImageCallOK(n)'
  <2> TAKE n \in Image
  <2>1. ImageDrawnOK(n)
      BY ImageIInvIs
  <2>2. ImageSilent(n)' <=> ImageSilent(n)
      BY <1>1, <1>2 DEF ImageSilent, ImageIs
  <2>3. ImageDrawnOK(n)'
      BY <1>0, <1>2, <1>4, <1>5, <2>1, <2>2 DEF ImageDrawnOK
  <2> QED BY <1>0, <1>3, <2>3 DEF ImageCallOK
<1>7. drawing' # NoImage /\ ImageSessionOK'
    BY <1>0, <1>2, ImageAssumption, ImageIInvIs DEF ImageSessionOK, DrawKeeps
<1>8. imageFaults' \in 0..MaxImageFaults /\ generator' \in Generators \cup {NoImage}
    BY <1>0, ImageIInvIs, ImageFaultsAre DEF ImagesTypeOK
<1>9. imagePast' \in ImagePast /\ imageCall' \in [Image -> ImageCall \cup {NoImage}]
    BY <1>0, ImageIInvIs DEF ImagesTypeOK
<1> QED BY <1>0, <1>1, <1>2, <1>6, <1>7, <1>8, <1>9, DrawingAloneKeeps

LEMMA RetireImageKeeps ==
    ASSUME ImageIInv, NEW n \in Image, RetireImage(n)
    PROVE  ImageIInv'
<1>0. /\ drawing # NoImage /\ drawing.step = "retire" /\ n \in drawing.waiting
      /\ UNCHANGED <<castLog, imageFile, imageFiles, imageCall>>
    BY DEF RetireImage, DrawAt, imageFiles
<1>1. CASE /\ imageIntent' = [imageIntent EXCEPT ![n] = NoImage]
           /\ Released(n) \/ ReleasedSome(n)
           /\ drawing' = [drawing EXCEPT !.waiting = @ \ {n}]
           /\ IF drawing.risks /\ n \in Unresolved
              THEN Past("risked", [imagePast.risked EXCEPT ![n] = @ + 1])
              ELSE UNCHANGED imagePast
  <2>1. /\ imageReceipt' \in [Image -> ImageReceipt \cup {NoImage}]
        /\ sentCall' \in [Image -> ImageHash \cup {NoImage}]
        /\ refusedCall' \in [Image -> ImageHash \cup {NoImage}]
        /\ imagePlan' \in [Image -> ImageHash \cup {NoImage}]
        /\ \A m \in Image : m # n =>
              imageReceipt'[m] = imageReceipt[m] /\ refusedCall'[m] = refusedCall[m]
        /\ imageFaults' \in 0..MaxImageFaults /\ UNCHANGED generator
      BY <1>1, ImageIInvIs, ReleasedIs
  <2>2. /\ imageIntent' \in [Image -> ImageIntent \cup {NoImage}] /\ imageIntent'[n] = NoImage
        /\ \A m \in Image : m # n => imageIntent'[m] = imageIntent[m]
      BY <1>1, ImageIInvIs, ImageIntentBecomes
  <2>3. /\ drawing' \in Drawing /\ drawing'.step = "retire" /\ drawing'.todo = drawing.todo
        /\ drawing'.by = drawing.by /\ drawing'.waiting = drawing.waiting \ {n}
        /\ drawing'.risks = drawing.risks
      BY <1>0, <1>1, ImageIInvIs, ImageTypesAre DEF Drawing
  <2>4. drawing' # NoImage /\ ImageSessionOK'
      BY <1>0, <2>1, <2>3, ImageAssumption, ImageIInvIs DEF ImageSessionOK
  <2>5. /\ imagePast \in ImagePast /\ imagePast.charged \in [Image -> Nat]
        /\ imagePast.risked \in [Image -> Nat]
      BY ImageIInvIs, ImageTypesAre
  <2>6. /\ imagePast' \in ImagePast /\ imagePast'.charged = imagePast.charged
        /\ imagePast'.unheard = imagePast.unheard /\ imagePast'.overtaken = imagePast.overtaken
        /\ \A m \in Image : m # n => imagePast'.risked[m] = imagePast.risked[m]
        /\ imagePast'.risked[n] =
              IF drawing.risks /\ n \in Unresolved THEN imagePast.risked[n] + 1
              ELSE imagePast.risked[n]
    <3>1. CASE drawing.risks /\ n \in Unresolved
      <4>1. PICK r : r = [imagePast.risked EXCEPT ![n] = imagePast.risked[n] + 1]
          OBVIOUS
      <4>2. /\ r \in [Image -> Nat] /\ r[n] = imagePast.risked[n] + 1
            /\ \A m \in Image : m # n => r[m] = imagePast.risked[m]
          BY <2>5, <4>1
      <4>3. imagePast' = [imagePast EXCEPT !.risked = r]
          BY <1>1, <3>1, <4>1 DEF Past
      <4> QED BY <2>5, <3>1, <4>2, <4>3 DEF ImagePast
    <3>2. CASE ~(drawing.risks /\ n \in Unresolved)
        BY <1>1, <2>5, <3>2
    <3> QED BY <3>1, <3>2
  <2>7. \A m \in Image : m # n => SameImage(m)
      BY <1>0, <2>1, <2>2, <2>6 DEF SameImage
  <2>8. n \notin imagePast.unheard /\ ImageSpent(n) => drawing.risks /\ n \in Unresolved
    <3> HAVE n \notin imagePast.unheard /\ ImageSpent(n)
    <3>1. imageIntent[n] # NoImage /\ imageIntent[n].attempts > 0 /\ refusedCall[n] = NoImage
        BY ImageIInvIs DEF ImagePaidOK
    <3>2. ImageSilent(n) /\ (drawing.risks \/ n \notin Unresolved)
        BY <1>0, ImageIInvIs DEF ImageDrawnOK
    <3>3. imageIntent[n].hash # NoImage
        BY <3>1, ImageIInvIs, ImageTypesAre
    <3>4. n \in Unresolved
        BY <1>0, <3>1, <3>2, <3>3 DEF Unresolved, ImageSilent, Answered
    <3> QED BY <3>2, <3>4
  <2>9. ImagePaidOK(n)'
    <3>1. n \notin imagePast.unheard => imagePast'.charged[n] <= imagePast'.risked[n]
      <4>1. imagePast.charged[n] \in Nat /\ imagePast.risked[n] \in Nat
          BY <2>5
      <4> QED BY <2>6, <2>8, <4>1, ImageIInvIs DEF ImagePaidOK, ImageSpent
    <3>2. imagePast'.charged[n] \in Nat /\ imagePast'.risked[n] \in Nat
        BY <2>6 DEF ImagePast
    <3> QED BY <2>6, <3>1, <3>2 DEF ImagePaidOK, ImageSpent
  <2>10. ImageKeptOK(n)'
      BY <1>0, <2>2, <2>6, ImageIInvIs DEF ImageKeptOK, ImageIs
  <2>11. \A m \in Image : ImageCallOK(m)'
      BY <1>0, NoImageCalls DEF ImageCallOK
  <2>12. \A m \in Image : ImageDrawnOK(m)'
    <3> TAKE m \in Image
    <3>0. ImageDrawnOK(m)
        BY ImageIInvIs
    <3>1. CASE m = n
        BY <2>2, <2>3, <3>1 DEF ImageDrawnOK, ImageSilent, ImageIs, Unresolved
    <3>2. CASE m # n
      <4>1. ImageSilent(m)' <=> ImageSilent(m)
          BY <2>3, <2>7, <3>2 DEF ImageSilent, ImageIs, SameImage
      <4>2. m \in Unresolved' => m \in Unresolved
          BY <2>3, <2>7, <3>2 DEF Unresolved, Answered, SameImage
      <4> QED BY <1>0, <2>3, <2>6, <3>0, <3>2, <4>1, <4>2 DEF ImageDrawnOK
    <3> QED BY <3>1, <3>2
  <2>13. \A m \in Image : ImagePaidOK(m)' /\ ImageKeptOK(m)'
      BY <2>7, <2>9, <2>10, ImageIInvIs, ImageStays
  <2>14. ImagesTypeOK'
      BY <1>0, <2>1, <2>2, <2>3, <2>6, ImageIInvIs DEF ImagesTypeOK
  <2> QED BY <2>4, <2>11, <2>12, <2>13, <2>14 DEF ImageIInv
<1>2. CASE EndDrawing /\ UNCHANGED <<imageJobs, imagePast>> /\ DrawFails
    BY <1>0, <1>2, EndedKeeps
<1> QED BY <1>1, <1>2 DEF RetireImage

LEMMA NumberImagesKeeps ==
    ASSUME ImageIInv, NumberImages
    PROVE  ImageIInv'
<1>0. /\ drawing # NoImage /\ drawing.step = "retire" /\ drawing.waiting = {}
      /\ DrawKeeps /\ UNCHANGED <<imageFiles, imageJobs, imagePast>>
    BY DEF NumberImages, DrawAt
<1>1. drawing \in Drawing /\ drawing.by \in Generators /\ drawing.count \in Nat
    BY <1>0, ImageIInvIs, ImageTypesAre
<1>h. PICK have : have = Cardinality(Counting)
    OBVIOUS
<1>n. PICK new : new = IF drawing.count > have THEN drawing.count - have ELSE 0
    OBVIOUS
<1>b. PICK batch : batch = LastImage + 1..LastImage + new
    OBVIOUS
<1>2. have \in Nat
  <2>1. IsFiniteSet(1..MaxImages)
      BY ImageAssumption, FS_Interval
  <2>2. Counting \subseteq 1..MaxImages
      BY ImageIInvIs, ImageTypesAre DEF Counting, Image
  <2>3. IsFiniteSet(Counting)
      BY <2>1, <2>2, FS_Subset
  <2> QED BY <1>h, <2>3, FS_CardinalityType
<1>3. new \in Nat
    BY <1>1, <1>2, <1>n
<1>4. LastImage \in Nat /\ \A n \in DOMAIN castLog : n <= LastImage
    BY ImageIInvIs, LastImageIs
<1>5. PICK looks \in [1..new -> 1..Looks] :
         /\ batch \subseteq Image
         /\ imageCall' = [n \in Image |->
                IF n \in batch
                THEN [hash |-> [by |-> drawing.by, look |-> looks[n - LastImage]],
                      step |-> "waits"]
                ELSE NoImage]
         /\ drawing' = [drawing EXCEPT !.step = "prepare", !.todo = batch]
    BY <1>h, <1>n, <1>b DEF NumberImages
<1>6. \A n \in Image : n \in batch =>
         /\ n \notin DOMAIN castLog
         /\ imageCall'[n] \in ImageCall /\ imageCall'[n] # NoImage
         /\ imageCall'[n].hash.by = drawing.by /\ imageCall'[n].step = "waits"
  <2> SUFFICES ASSUME NEW n \in Image, n \in batch
               PROVE  /\ n \notin DOMAIN castLog
                      /\ imageCall'[n] \in ImageCall /\ imageCall'[n] # NoImage
                      /\ imageCall'[n].hash.by = drawing.by /\ imageCall'[n].step = "waits"
      OBVIOUS
  <2>1. n \in Nat /\ n >= LastImage + 1 /\ n <= LastImage + new
      BY <1>3, <1>4, <1>b DEF Image
  <2>2. n \notin DOMAIN castLog
      BY <1>4, <2>1
  <2>3. looks[n - LastImage] \in 1..Looks
      BY <1>3, <1>4, <1>5, <2>1
  <2>4. PICK hash : hash = [by |-> drawing.by, look |-> looks[n - LastImage]]
      OBVIOUS
  <2>5. hash \in ImageHash /\ hash.by = drawing.by
      BY <1>1, <2>3, <2>4 DEF ImageHash
  <2>6. PICK call : call = [hash |-> hash, step |-> "waits"]
      OBVIOUS
  <2>7. call \in ImageCall /\ call.hash = hash /\ call.step = "waits"
      BY <2>5, <2>6 DEF ImageCall
  <2>8. imageCall'[n] = call
      BY <1>5, <2>4, <2>6
  <2> QED BY <2>2, <2>5, <2>7, <2>8, ImageAssumption
<1>7. \A n \in Image : n \notin batch => imageCall'[n] = NoImage
    BY <1>5
<1>8. imageCall' \in [Image -> ImageCall \cup {NoImage}]
  <2>1. imageCall' = [n \in Image |-> imageCall'[n]]
      BY <1>5
  <2> QED BY <1>6, <1>7, <2>1
<1>9. /\ drawing' \in Drawing /\ drawing'.step = "prepare" /\ drawing'.todo = batch
      /\ drawing'.by = drawing.by /\ drawing'.waiting = {}
    BY <1>0, <1>1, <1>5 DEF Drawing, DrawStep
<1>10. /\ UNCHANGED <<castLog, imageFile, imageIntent, imageReceipt, refusedCall>>
       /\ \A n \in Image : SameImage(n)
    BY <1>0, ImagesUntouched DEF imageJobs
<1>11. drawing' # NoImage /\ ImageSessionOK'
    BY <1>0, <1>9, ImageAssumption, ImageIInvIs DEF ImageSessionOK, DrawKeeps
<1>12. \A n \in Image : ImageDrawnOK(n)'
  <2> TAKE n \in Image
  <2>1. ImageSilent(n)' => n \in imagePast'.unheard
    <3>1. ImageSilent(n)' <=> ImageSilent(n)
        BY <1>9, <1>10 DEF ImageSilent, ImageIs
    <3> QED BY <1>0, <3>1, ImageIInvIs DEF ImageDrawnOK
  <2> QED BY <1>6, <1>9, <2>1 DEF ImageDrawnOK
<1>13. \A n \in Image : ImageCallOK(n)'
    BY <1>6, <1>7, <1>9, <1>10, <1>11 DEF ImageCallOK
<1>14. imageFaults' \in 0..MaxImageFaults /\ generator' \in Generators \cup {NoImage}
    BY <1>0, ImageIInvIs, ImageFaultsAre DEF ImagesTypeOK
<1>15. imagePast' \in ImagePast
    BY <1>0, ImageIInvIs DEF ImagesTypeOK
<1> QED BY <1>0, <1>8, <1>9, <1>10, <1>11, <1>12, <1>13, <1>14, <1>15, DrawingAloneKeeps

LEMMA PrepareImageKeeps ==
    ASSUME ImageIInv, NEW n \in Image, PrepareImage(n)
    PROVE  ImageIInv'
<1>h. PICK hash : hash = imageCall[n].hash
    OBVIOUS
<1>0. /\ drawing # NoImage /\ drawing.step = "prepare" /\ n \in drawing.todo
      /\ UNCHANGED <<castLog, imageFile, imageReceipt, sentCall, refusedCall, imagePast>>
    BY DEF PrepareImage, DrawAt, imageFiles
<1>1. /\ imageCall[n] # NoImage /\ hash \in ImageHash /\ hash # NoImage
      /\ hash.by = drawing.by /\ n \notin DOMAIN castLog
    BY <1>0, <1>h, ImageIInvIs, ImageTypesAre DEF ImageDrawnOK, ImageCallOK
<1>2. CASE /\ imagePlan' = [imagePlan EXCEPT ![n] = hash]
           /\ \/ /\ imageIntent[n] = NoImage
                 /\ imageIntent' = [imageIntent EXCEPT ![n] =
                       [state |-> "prepared", attempts |-> 0, terminal |-> FALSE,
                        hash |-> hash]]
              \/ /\ imageIntent[n] # NoImage /\ imageIntent[n].hash = hash
                 /\ UNCHANGED imageIntent
           /\ drawing' = [drawing EXCEPT !.todo = @ \ {n}]
           /\ UNCHANGED imageCall /\ DrawKeeps
  <2>1. imagePlan' \in [Image -> ImageHash \cup {NoImage}]
      BY <1>1, <1>2, ImageIInvIs DEF ImagesTypeOK
  <2>2. /\ imageIntent' \in [Image -> ImageIntent \cup {NoImage}]
        /\ imageIntent'[n] # NoImage /\ imageIntent'[n].hash = hash
        /\ \A m \in Image : m # n => imageIntent'[m] = imageIntent[m]
        /\ imageIntent[n] = NoImage => imageIntent'[n].state = "prepared"
        /\ imageIntent[n] # NoImage => imageIntent'[n] = imageIntent[n]
    <3>1. CASE /\ imageIntent[n] = NoImage
               /\ imageIntent' = [imageIntent EXCEPT ![n] =
                     [state |-> "prepared", attempts |-> 0, terminal |-> FALSE, hash |-> hash]]
      <4>1. PICK new : new = [state |-> "prepared", attempts |-> 0, terminal |-> FALSE,
                              hash |-> hash]
          OBVIOUS
      <4>2. new \in ImageIntent /\ new.hash = hash /\ new.state = "prepared"
          BY <1>1, <4>1, ImageAssumption DEF ImageIntent
      <4>3. imageIntent' = [imageIntent EXCEPT ![n] = new]
          BY <3>1, <4>1
      <4> QED BY <3>1, <4>2, <4>3, ImageIInvIs, ImageIntentBecomes, ImageAssumption
    <3>2. CASE /\ imageIntent[n] # NoImage /\ imageIntent[n].hash = hash
               /\ UNCHANGED imageIntent
        BY <3>2, ImageIInvIs DEF ImagesTypeOK
    <3> QED BY <1>2, <3>1, <3>2
  <2>3. /\ drawing' \in Drawing /\ drawing'.step = "prepare" /\ drawing'.by = drawing.by
        /\ drawing'.todo = drawing.todo \ {n} /\ drawing'.waiting = drawing.waiting
      BY <1>0, <1>2, ImageIInvIs, ImageTypesAre DEF Drawing
  <2>4. imageFaults' \in 0..MaxImageFaults /\ UNCHANGED generator
      BY <1>2, ImageIInvIs, ImageFaultsAre
  <2>5. drawing' # NoImage /\ ImageSessionOK'
      BY <1>0, <2>3, <2>4, ImageAssumption, ImageIInvIs DEF ImageSessionOK
  <2>6. \A m \in Image : m # n => SameImage(m)
      BY <1>0, <2>2 DEF SameImage
  <2>7. imageIntent[n] = NoImage => n \in imagePast.unheard \/ ~ImageSpent(n)
      BY ImageIInvIs DEF ImagePaidOK
  <2>8. ImagePaidOK(n)'
      BY <1>0, <2>2, <2>7, ImageIInvIs DEF ImagePaidOK, ImageSpent
  <2>9. ImageKeptOK(n)'
    <3>1. CASE imageIntent[n] = NoImage
        BY <1>0, <1>1, <2>2, <3>1 DEF ImageKeptOK, ImageIs
    <3>2. CASE imageIntent[n] # NoImage
        BY <1>0, <1>1, <2>2, <3>2, ImageIInvIs DEF ImageKeptOK, ImageIs
    <3> QED BY <3>1, <3>2
  <2>10. \A m \in Image : ImageDrawnOK(m)'
    <3> TAKE m \in Image
    <3>0. ImageDrawnOK(m)
        BY ImageIInvIs
    <3>w. m \notin drawing.waiting
        BY <1>0, <3>0 DEF ImageDrawnOK
    <3>1. ImageSilent(m)' /\ ImageAhead(m)' => ~ImageSpent(m)' \/ m \in imagePast'.unheard
      <4> HAVE ImageSilent(m)' /\ ImageAhead(m)'
      <4>1. CASE m = n /\ imageIntent[n] = NoImage
          BY <1>0, <2>7, <4>1 DEF ImageSpent
      <4>2. CASE m # n \/ imageIntent[n] # NoImage
        <5>1. ImageSilent(m) /\ ImageAhead(m)
            BY <1>0, <1>2, <2>2, <2>3, <2>6, <4>2
               DEF ImageSilent, ImageAhead, ImageIs, SameImage
        <5> QED BY <1>0, <3>0, <5>1 DEF ImageDrawnOK, ImageSpent
      <4> QED BY <4>1, <4>2
    <3> QED BY <1>0, <1>2, <2>3, <3>0, <3>w, <3>1 DEF ImageDrawnOK
  <2>11. \A m \in Image : ImageCallOK(m)'
    <3> TAKE m \in Image
    <3>0. ImageCallOK(m)
        BY ImageIInvIs
    <3>1. CASE m = n
        BY <1>0, <1>1, <1>2, <1>h, <2>2, <2>3, <2>5, <3>0, <3>1 DEF ImageCallOK
    <3>2. CASE m # n
        BY <1>0, <1>2, <2>3, <2>5, <2>6, <3>0, <3>2 DEF ImageCallOK, SameImage
    <3> QED BY <3>1, <3>2
  <2>12. \A m \in Image : ImagePaidOK(m)' /\ ImageKeptOK(m)'
      BY <2>6, <2>8, <2>9, ImageIInvIs, ImageStays
  <2>13. ImagesTypeOK'
      BY <1>0, <1>2, <2>1, <2>2, <2>3, <2>4, ImageIInvIs DEF ImagesTypeOK
  <2> QED BY <2>5, <2>10, <2>11, <2>12, <2>13 DEF ImageIInv
<1>3. CASE /\ \/ UNCHANGED imagePlan /\ DrawFails
              \/ /\ imagePlan' = [imagePlan EXCEPT ![n] = hash]
                 /\ DrawFails \/ DrawKeeps
           /\ EndDrawing /\ imageCall' = [o \in Image |-> NoImage]
           /\ UNCHANGED imageIntent
  <2>1. imagePlan' \in [Image -> ImageHash \cup {NoImage}]
      BY <1>1, <1>3, ImageIInvIs DEF ImagesTypeOK
  <2>2. imageFaults' \in 0..MaxImageFaults /\ UNCHANGED generator
      BY <1>3, ImageIInvIs, ImageFaultsAre
  <2>3. NewDrawing
      BY <1>0, <1>3, <2>2, EndDrawingIs
  <2>4. \A m \in Image : SameImage(m)
      BY <1>0, <1>3, ImagesUntouched DEF imageFiles
  <2>5. /\ UNCHANGED <<imageFiles, imageIntent, imageReceipt, sentCall, refusedCall>>
        /\ generator' \in Generators \cup {NoImage} /\ imagePast' \in ImagePast
        /\ imageCall' \in [Image -> ImageCall \cup {NoImage}]
        /\ \A m \in Image : imageCall'[m] = NoImage
      BY <1>0, <1>3, <2>2, ImageIInvIs DEF ImagesTypeOK, imageFiles
  <2> QED BY <2>1, <2>2, <2>3, <2>4, <2>5, AnotherDrawingKeeps
<1>4. \/ /\ imagePlan' = [imagePlan EXCEPT ![n] = hash]
         /\ \/ /\ imageIntent[n] = NoImage
               /\ imageIntent' = [imageIntent EXCEPT ![n] =
                     [state |-> "prepared", attempts |-> 0, terminal |-> FALSE, hash |-> hash]]
            \/ /\ imageIntent[n] # NoImage /\ imageIntent[n].hash = hash
               /\ UNCHANGED imageIntent
         /\ drawing' = [drawing EXCEPT !.todo = @ \ {n}]
         /\ UNCHANGED imageCall /\ DrawKeeps
      \/ /\ \/ UNCHANGED imagePlan /\ DrawFails
            \/ /\ imagePlan' = [imagePlan EXCEPT ![n] = hash]
               /\ DrawFails \/ DrawKeeps
         /\ EndDrawing /\ imageCall' = [o \in Image |-> NoImage]
         /\ UNCHANGED imageIntent
    BY <1>h DEF PrepareImage
<1> QED BY <1>2, <1>3, <1>4

LEMMA PreparedAllKeeps ==
    ASSUME ImageIInv, PreparedAll
    PROVE  ImageIInv'
<1>0. /\ drawing # NoImage /\ drawing.step = "prepare" /\ drawing.todo = {}
      /\ drawing' = [drawing EXCEPT !.step = "calls"]
      /\ DrawKeeps /\ UNCHANGED <<imageFiles, imageJobs, imageCall, imagePast>>
    BY DEF PreparedAll, DrawAt, DrawGo
<1>1. /\ UNCHANGED <<castLog, imageFile, imageIntent, imageReceipt, refusedCall>>
      /\ \A n \in Image : SameImage(n)
    BY <1>0, ImagesUntouched DEF imageJobs
<1>2. /\ drawing' \in Drawing /\ drawing'.step = "calls" /\ drawing'.todo = {}
      /\ drawing'.by = drawing.by /\ drawing'.waiting = drawing.waiting
    BY <1>0, ImageIInvIs, ImageTypesAre DEF Drawing, DrawStep
<1>3. drawing' # NoImage /\ ImageSessionOK'
    BY <1>0, <1>2, ImageAssumption, ImageIInvIs DEF ImageSessionOK, DrawKeeps
<1>4. \A n \in Image : ImageDrawnOK(n)'
  <2> TAKE n \in Image
  <2>1. ImageDrawnOK(n) /\ n \notin drawing.waiting
      BY <1>0, ImageIInvIs DEF ImageDrawnOK
  <2>2. /\ ImageSilent(n)' <=> ImageSilent(n)
        /\ ImageAhead(n)' <=> ImageAhead(n)
      BY <1>0, <1>1, <1>2 DEF ImageSilent, ImageIs, ImageAhead
  <2> QED BY <1>0, <1>2, <2>1, <2>2 DEF ImageDrawnOK, ImageSpent
<1>5. \A n \in Image : ImageCallOK(n)'
    BY <1>0, <1>1, <1>2, <1>3, ImageIInvIs DEF ImageCallOK
<1>6. imageFaults' \in 0..MaxImageFaults /\ generator' \in Generators \cup {NoImage}
    BY <1>0, ImageIInvIs, ImageFaultsAre DEF ImagesTypeOK
<1>7. imagePast' \in ImagePast /\ imageCall' \in [Image -> ImageCall \cup {NoImage}]
    BY <1>0, ImageIInvIs DEF ImagesTypeOK
<1> QED BY <1>0, <1>1, <1>2, <1>3, <1>4, <1>5, <1>6, <1>7, DrawingAloneKeeps

(* What a call finds.                                                      *)
LEMMA ImageAtIs ==
    ASSUME ImageIInv, NEW n \in Image, NEW step, ImageAt(n, step)
    PROVE  /\ drawing # NoImage /\ drawing.step = "calls"
           /\ imageCall[n] # NoImage /\ imageCall[n] \in ImageCall /\ imageCall[n].step = step
           /\ imageCall[n].hash \in ImageHash /\ imageCall[n].hash # NoImage
           /\ imageIntent[n] # NoImage /\ imageIntent[n] \in ImageIntent
           /\ imageIntent[n].hash = imageCall[n].hash /\ imageCall[n].hash.by = drawing.by
           /\ n \notin DOMAIN castLog
           /\ imagePast \in ImagePast
           /\ imagePast.charged[n] \in Nat /\ imagePast.risked[n] \in Nat
<1>1. /\ drawing # NoImage /\ drawing.step = "calls" /\ imageCall[n] # NoImage
      /\ imageCall[n].step = step
    BY DEF ImageAt, DrawAt
<1>2. /\ imageIntent[n] # NoImage /\ imageIntent[n].hash = imageCall[n].hash
      /\ imageCall[n].hash.by = drawing.by /\ n \notin DOMAIN castLog
    BY <1>1, ImageIInvIs DEF ImageCallOK
<1>3. /\ imageCall[n] \in ImageCall /\ imageCall[n].hash \in ImageHash
      /\ imageCall[n].hash # NoImage /\ imageIntent[n] \in ImageIntent
      /\ imagePast \in ImagePast
      /\ imagePast.charged \in [Image -> Nat] /\ imagePast.risked \in [Image -> Nat]
    BY <1>1, <1>2, ImageIInvIs, ImageTypesAre
<1> QED BY <1>1, <1>2, <1>3

(* A call that waits or is sent pays for what was risked, unless a plugin  *)
(* could not be asked.                                                     *)
LEMMA UnspentIs ==
    ASSUME ImageIInv, NEW n \in Image, NEW step \in {"waits", "sent"}, ImageAt(n, step),
           ImageIs(n, "prepared"), imageReceipt[n] = NoImage
    PROVE  n \in imagePast.unheard \/ imagePast.charged[n] <= imagePast.risked[n]
<1>1. ImageSilent(n) /\ ImageAhead(n)
    BY ImageAtIs DEF ImageSilent, ImageAhead
<1> QED BY <1>1, ImageAtIs, ImageIInvIs DEF ImageDrawnOK, ImageSpent

(* A step of a call keeps the invariant where it keeps what it tells of    *)
(* the call's number.                                                      *)
LEMMA ImageCallStepKeeps ==
    ASSUME ImageIInv, NEW n \in Image, NEW old, ImageAt(n, old),
           NEW new \in {"sent", "save", "done", "error"}, ImageGoes(n, new),
           UNCHANGED <<castLog, imagePlan, drawing, generator>>,
           imageFaults' \in 0..MaxImageFaults, imagePast' \in ImagePast,
           imageFile' \in [Image -> Picture \cup {NoImage}],
           imageIntent' \in [Image -> ImageIntent \cup {NoImage}],
           imageReceipt' \in [Image -> ImageReceipt \cup {NoImage}],
           sentCall' \in [Image -> ImageHash \cup {NoImage}],
           refusedCall' \in [Image -> ImageHash \cup {NoImage}],
           \A m \in Image : m # n => SameImage(m),
           imageIntent'[n] # NoImage, imageIntent'[n].hash = imageIntent[n].hash,
           ImagePaidOK(n)', ImageKeptOK(n)',
           new = "sent" =>
              /\ ImageIs(n, "prepared")' /\ imageIntent'[n].attempts > 0
              /\ imageReceipt'[n] = NoImage /\ refusedCall'[n] = NoImage
              /\ n \in imagePast'.unheard \/ imagePast'.charged[n] <= imagePast'.risked[n],
           new = "save" =>
              /\ imageReceipt'[n] # NoImage /\ imageReceipt'[n].hash = imageCall[n].hash
              /\ imageReceipt'[n].picture = imageFile'[n],
           new = "done" => ImageIs(n, "invoked")'
    PROVE  ImageIInv'
<1>1. /\ drawing # NoImage /\ drawing.step = "calls" /\ imageCall[n] \in ImageCall
      /\ imageIntent[n].hash = imageCall[n].hash /\ imageCall[n].hash.by = drawing.by
      /\ n \notin DOMAIN castLog
    BY ImageAtIs
<1>2. PICK call : call = [imageCall[n] EXCEPT !.step = new]
    OBVIOUS
<1>3. call \in ImageCall /\ call.hash = imageCall[n].hash /\ call.step = new
    BY <1>1, <1>2 DEF ImageCall
<1>4. imageCall' = [imageCall EXCEPT ![n] = call]
    BY <1>2, ImageIInvIs DEF ImageGoes, ImagesTypeOK
<1>5. /\ imageCall' \in [Image -> ImageCall \cup {NoImage}] /\ imageCall'[n] = call
      /\ imageCall'[n] # NoImage /\ \A m \in Image : m # n => imageCall'[m] = imageCall[m]
    BY <1>3, <1>4, ImageIInvIs, ImageAssumption DEF ImagesTypeOK
<1>6. \A m \in Image : ImagePaidOK(m)' /\ ImageKeptOK(m)'
    BY ImageIInvIs, ImageStays
<1>7. \A m \in Image : ImageDrawnOK(m)'
  <2> TAKE m \in Image
  <2>1. ImageDrawnOK(m) /\ m \notin drawing.waiting
      BY <1>1, ImageIInvIs DEF ImageDrawnOK
  <2>2. ImageSilent(m)' /\ ImageAhead(m)' => ~ImageSpent(m)' \/ m \in imagePast'.unheard
    <3> HAVE ImageSilent(m)' /\ ImageAhead(m)'
    <3>1. CASE m = n
      <4>1. new = "sent"
          BY <1>3, <1>5, <3>1 DEF ImageAhead
      <4>2. imagePast'.charged[n] \in Nat /\ imagePast'.risked[n] \in Nat
          BY DEF ImagePast
      <4> QED BY <3>1, <4>1, <4>2 DEF ImageSpent
    <3>2. CASE m # n
      <4>1. ImageSilent(m) /\ ImageAhead(m)
          BY <1>5, <3>2 DEF ImageSilent, ImageAhead, ImageIs, SameImage
      <4> QED BY <1>1, <2>1, <3>2, <4>1 DEF ImageDrawnOK, ImageSpent, SameImage
    <3> QED BY <3>1, <3>2
  <2> QED BY <1>1, <2>1, <2>2 DEF ImageDrawnOK
<1>8. \A m \in Image : ImageCallOK(m)'
  <2> TAKE m \in Image
  <2>1. CASE m = n
      BY <1>1, <1>3, <1>5, <2>1 DEF ImageCallOK, Answered
  <2>2. CASE m # n
    <3>1. ImageCallOK(m) /\ SameImage(m)
        BY <2>2, ImageIInvIs
    <3> QED BY <1>1, <1>5, <2>2, <3>1 DEF ImageCallOK, SameImage, ImageIs, Answered
  <2> QED BY <2>1, <2>2
<1>9. ImagesTypeOK'
    BY <1>5, ImageIInvIs DEF ImagesTypeOK
<1>10. ImageSessionOK'
    BY ImageIInvIs DEF ImageSessionOK
<1> QED BY <1>6, <1>7, <1>8, <1>9, <1>10 DEF ImageIInv

(* An attempt is counted.                                                  *)
LEMMA CountedIs ==
    ASSUME ImagesTypeOK, NEW n \in Image, MayCall(n), NEW terminal \in BOOLEAN,
           Counted(n, terminal)
    PROVE  /\ imageIntent' \in [Image -> ImageIntent \cup {NoImage}]
           /\ imageIntent'[n] # NoImage /\ imageIntent'[n].hash = imageIntent[n].hash
           /\ imageIntent'[n].state = "prepared" /\ imageIntent'[n].attempts > 0
           /\ \A m \in Image : m # n => imageIntent'[m] = imageIntent[m]
<1>1. /\ imageIntent[n] \in ImageIntent /\ imageIntent[n].state = "prepared"
      /\ imageIntent[n].attempts \in 0..MaxImageTries
      /\ imageIntent[n].attempts < MaxImageTries
    BY ImageTypesAre DEF MayCall, ImageIs
<1>2. PICK new : new = [imageIntent[n] EXCEPT !.attempts = imageIntent[n].attempts + 1,
                                              !.terminal = terminal]
    OBVIOUS
<1>3. imageIntent[n].attempts + 1 \in 0..MaxImageTries /\ imageIntent[n].attempts + 1 > 0
    BY <1>1, ImageAssumption
<1>4. /\ new \in ImageIntent /\ new.hash = imageIntent[n].hash
      /\ new.state = "prepared" /\ new.attempts > 0
    BY <1>1, <1>2, <1>3 DEF ImageIntent
<1>5. imageIntent' = [imageIntent EXCEPT ![n] = new]
    BY <1>2 DEF ImagesTypeOK, Counted
<1> QED BY <1>4, <1>5, ImageIntentBecomes, ImageAssumption

(* A call's failure is saved.                                              *)
LEMMA CallEndsIs ==
    ASSUME ImagesTypeOK, NEW n \in Image, imageIntent[n] # NoImage, NEW terminal \in BOOLEAN,
           CallEnds(n, terminal)
    PROVE  /\ ImageGoes(n, "error")
           /\ imageIntent' \in [Image -> ImageIntent \cup {NoImage}]
           /\ imageIntent'[n] # NoImage /\ imageIntent'[n].hash = imageIntent[n].hash
           /\ imageIntent'[n].state = imageIntent[n].state
           /\ imageIntent'[n].attempts = imageIntent[n].attempts
           /\ \A m \in Image : m # n => imageIntent'[m] = imageIntent[m]
<1>1. imageIntent[n] \in ImageIntent
    BY ImageTypesAre
<1>2. PICK new : new = [imageIntent[n] EXCEPT !.terminal = terminal]
    OBVIOUS
<1>3. /\ new \in ImageIntent /\ new.hash = imageIntent[n].hash
      /\ new.state = imageIntent[n].state /\ new.attempts = imageIntent[n].attempts
    BY <1>1, <1>2 DEF ImageIntent
<1>4. imageIntent' = [imageIntent EXCEPT ![n] = new]
    BY <1>2 DEF ImagesTypeOK, CallEnds
<1>5. ImageGoes(n, "error")
    BY DEF CallEnds
<1> QED BY <1>3, <1>4, <1>5, ImageIntentBecomes, ImageAssumption

LEMMA CallFaultsAre ==
    ASSUME ImagesTypeOK, CallKeeps \/ CallFaults
    PROVE  /\ imageFaults' \in 0..MaxImageFaults
           /\ UNCHANGED <<generator, castLog, imagePlan, drawing>>
BY ImageFaultsAre DEF CallKeeps, CallFaults

LEMMA NotCalledKeeps ==
    ASSUME ImageIInv, NEW n \in Image, NotCalled(n)
    PROVE  ImageIInv'
<1>0. /\ ImageAt(n, "waits") /\ ImageGoes(n, "error")
      /\ CallFaults \/ CallKeeps
      /\ UNCHANGED <<imageFile, imageIntent, imageReceipt, sentCall, refusedCall, imagePast>>
    BY DEF NotCalled
<1>1. /\ imageFaults' \in 0..MaxImageFaults
      /\ UNCHANGED <<generator, castLog, imagePlan, drawing>>
    BY <1>0, ImageIInvIs, CallFaultsAre
<1>2. \A m \in Image : SameImage(m)
    BY <1>0, <1>1, ImagesUntouched DEF imageFiles
<1>3. ImagePaidOK(n)' /\ ImageKeptOK(n)'
    BY <1>2, ImageIInvIs, ImageStays
<1>4. imageIntent'[n] # NoImage /\ imageIntent'[n].hash = imageIntent[n].hash
    BY <1>0, ImageAtIs
<1>5. /\ imagePast' \in ImagePast
      /\ imageFile' \in [Image -> Picture \cup {NoImage}]
      /\ imageIntent' \in [Image -> ImageIntent \cup {NoImage}]
      /\ imageReceipt' \in [Image -> ImageReceipt \cup {NoImage}]
      /\ sentCall' \in [Image -> ImageHash \cup {NoImage}]
      /\ refusedCall' \in [Image -> ImageHash \cup {NoImage}]
    BY <1>0, ImageIInvIs DEF ImagesTypeOK
<1> QED BY <1>0, <1>1, <1>2, <1>3, <1>4, <1>5, ImageCallStepKeeps

LEMMA BeginCallKeeps ==
    ASSUME ImageIInv, NEW n \in Image, BeginCall(n)
    PROVE  ImageIInv'
<1>h. PICK hash : hash = imageCall[n].hash
    OBVIOUS
<1>0. /\ ImageAt(n, "waits") /\ MayCall(n)
      /\ UNCHANGED <<imageFile, imageReceipt, imagePast>>
    BY DEF BeginCall
<1>1. /\ hash \in ImageHash /\ imageIntent[n] # NoImage /\ imageIntent[n].hash = hash
      /\ n \notin DOMAIN castLog /\ ImageIs(n, "prepared")
      /\ imagePast.charged[n] \in Nat /\ imagePast.risked[n] \in Nat
    BY <1>0, <1>h, ImageAtIs DEF MayCall
<1>2. PICK new \in {"save", "error", "sent"}, terminal \in BOOLEAN :
         /\ ImageGoes(n, new) /\ Counted(n, terminal) /\ (CallKeeps \/ CallFaults)
         /\ refusedCall' \in {refusedCall, [refusedCall EXCEPT ![n] = NoImage]}
         /\ sentCall' \in {sentCall, [sentCall EXCEPT ![n] = hash]}
         /\ new = "save" => Answered(n, hash)
         /\ new = "sent" => /\ imageReceipt[n] = NoImage
                            /\ refusedCall' = [refusedCall EXCEPT ![n] = NoImage]
  <2>1. CASE /\ Answered(n, hash) /\ ImageGoes(n, "save") /\ Counted(n, FALSE)
             /\ UNCHANGED <<refusedCall, sentCall>> /\ CallKeeps
      BY <2>1
  <2>2. CASE /\ ImageGoes(n, "error") /\ Counted(n, TRUE)
             /\ UNCHANGED <<refusedCall, sentCall>> /\ CallKeeps
      BY <2>2
  <2>3. CASE /\ imageReceipt[n] = NoImage
             /\ refusedCall' = [refusedCall EXCEPT ![n] = NoImage]
             /\ sentCall' = IF hash.by = MiniMax THEN sentCall
                            ELSE [sentCall EXCEPT ![n] = hash]
             /\ ImageGoes(n, "sent") /\ Counted(n, FALSE) /\ CallKeeps
      BY <2>3
  <2>4. CASE /\ refusedCall' \in {refusedCall, [refusedCall EXCEPT ![n] = NoImage]}
             /\ UNCHANGED sentCall /\ ImageGoes(n, "error") /\ Counted(n, FALSE) /\ CallFaults
      BY <2>4
  <2> QED BY <1>h, <2>1, <2>2, <2>3, <2>4 DEF BeginCall
<1>3. /\ imageFaults' \in 0..MaxImageFaults
      /\ UNCHANGED <<generator, castLog, imagePlan, drawing>>
    BY <1>2, ImageIInvIs, CallFaultsAre
<1>4. /\ imageIntent' \in [Image -> ImageIntent \cup {NoImage}]
      /\ imageIntent'[n] # NoImage /\ imageIntent'[n].hash = imageIntent[n].hash
      /\ imageIntent'[n].state = "prepared" /\ imageIntent'[n].attempts > 0
      /\ \A m \in Image : m # n => imageIntent'[m] = imageIntent[m]
    BY <1>0, <1>2, ImageIInvIs, CountedIs
<1>5. /\ refusedCall' \in [Image -> ImageHash \cup {NoImage}]
      /\ sentCall' \in [Image -> ImageHash \cup {NoImage}]
      /\ refusedCall'[n] \in {refusedCall[n], NoImage}
      /\ new = "sent" => refusedCall'[n] = NoImage
      /\ \A m \in Image : m # n => refusedCall'[m] = refusedCall[m]
    BY <1>1, <1>2, ImageIInvIs DEF ImagesTypeOK
<1>6. \A m \in Image : m # n => SameImage(m)
    BY <1>0, <1>3, <1>4, <1>5 DEF SameImage
<1>7. ImagePaidOK(n)'
    BY <1>0, <1>1, <1>4, <1>5, ImageIInvIs DEF ImagePaidOK, ImageSpent
<1>8. ImageKeptOK(n)'
    BY <1>1, <1>3, <1>4 DEF ImageKeptOK, ImageIs
<1>9. new = "sent" =>
         /\ ImageIs(n, "prepared")' /\ imageIntent'[n].attempts > 0
         /\ imageReceipt'[n] = NoImage /\ refusedCall'[n] = NoImage
         /\ n \in imagePast'.unheard \/ imagePast'.charged[n] <= imagePast'.risked[n]
  <2> HAVE new = "sent"
  <2>1. imageReceipt[n] = NoImage
      BY <1>2
  <2>2. n \in imagePast.unheard \/ imagePast.charged[n] <= imagePast.risked[n]
      BY <1>0, <1>1, <2>1, UnspentIs
  <2> QED BY <1>0, <1>4, <1>5, <2>1, <2>2 DEF ImageIs
<1>10. new = "save" =>
          /\ imageReceipt'[n] # NoImage /\ imageReceipt'[n].hash = imageCall[n].hash
          /\ imageReceipt'[n].picture = imageFile'[n]
    BY <1>0, <1>2, <1>h DEF Answered
<1>11. /\ imagePast' \in ImagePast
       /\ imageFile' \in [Image -> Picture \cup {NoImage}]
       /\ imageReceipt' \in [Image -> ImageReceipt \cup {NoImage}]
    BY <1>0, ImageIInvIs DEF ImagesTypeOK
<1> QED BY <1>0, <1>2, <1>3, <1>4, <1>5, <1>6, <1>7, <1>8, <1>9, <1>10, <1>11,
           ImageCallStepKeeps

(* A call may have been charged.                                           *)
LEMMA ChargedOnceIs ==
    ASSUME ImageIInv, NEW n \in Image, NEW pictures \in 0..MaxPictures,
           imagePast' = [imagePast EXCEPT !.charged = ChargedOnce(n), !.pictures = pictures]
    PROVE  /\ imagePast' \in ImagePast
           /\ imagePast'.charged[n] = imagePast.charged[n] + 1
           /\ \A m \in Image : m # n => imagePast'.charged[m] = imagePast.charged[m]
           /\ imagePast'.risked = imagePast.risked
           /\ imagePast'.unheard = imagePast.unheard
           /\ imagePast'.overtaken = imagePast.overtaken
<1>1. imagePast \in ImagePast /\ imagePast.charged \in [Image -> Nat]
    BY ImageIInvIs, ImageTypesAre
<1>2. PICK c : c = ChargedOnce(n)
    OBVIOUS
<1>3. /\ c \in [Image -> Nat] /\ c[n] = imagePast.charged[n] + 1
      /\ \A m \in Image : m # n => c[m] = imagePast.charged[m]
    BY <1>1, <1>2 DEF ChargedOnce
<1>4. imagePast' = [imagePast EXCEPT !.charged = c, !.pictures = pictures]
    BY <1>2
<1> QED BY <1>1, <1>3, <1>4 DEF ImagePast

(* What a call that was sent finds, and what it leaves of the payments.    *)
LEMMA SentIs ==
    ASSUME ImageIInv, NEW n \in Image, ImageAt(n, "sent")
    PROVE  /\ ImageIs(n, "prepared") /\ imageIntent[n] # NoImage /\ imageIntent[n].attempts > 0
           /\ imageReceipt[n] = NoImage /\ refusedCall[n] = NoImage
           /\ n \in imagePast.unheard \/ imagePast.charged[n] <= imagePast.risked[n]
<1>1. /\ ImageIs(n, "prepared") /\ imageIntent[n].attempts > 0
      /\ imageReceipt[n] = NoImage /\ refusedCall[n] = NoImage
    BY ImageAtIs, ImageIInvIs DEF ImageCallOK
<1> QED BY <1>1, UnspentIs, ImageAtIs

LEMMA CallAnsweredKeeps ==
    ASSUME ImageIInv, NEW n \in Image, CallAnswered(n)
    PROVE  ImageIInv'
<1>p. PICK picture : picture = imagePast.pictures + 1
    OBVIOUS
<1>r. PICK receipt : receipt = [hash |-> imageCall[n].hash, picture |-> picture]
    OBVIOUS
<1>0. /\ ImageAt(n, "sent") /\ picture \in Picture
      /\ imagePast' = [imagePast EXCEPT !.charged = ChargedOnce(n), !.pictures = picture]
      /\ UNCHANGED <<sentCall, refusedCall>>
    BY <1>p DEF CallAnswered
<1>1. /\ imageCall[n].hash \in ImageHash /\ imageIntent[n] # NoImage
      /\ imageIntent[n].hash = imageCall[n].hash /\ n \notin DOMAIN castLog
      /\ imagePast.charged[n] \in Nat /\ imagePast.risked[n] \in Nat
    BY <1>0, ImageAtIs
<1>2. /\ ImageIs(n, "prepared") /\ imageIntent[n].attempts > 0
      /\ imageReceipt[n] = NoImage /\ refusedCall[n] = NoImage
      /\ n \in imagePast.unheard \/ imagePast.charged[n] <= imagePast.risked[n]
    BY <1>0, SentIs
<1>3. /\ imagePast' \in ImagePast
      /\ imagePast'.charged[n] = imagePast.charged[n] + 1
      /\ \A m \in Image : m # n => imagePast'.charged[m] = imagePast.charged[m]
      /\ imagePast'.risked = imagePast.risked /\ imagePast'.unheard = imagePast.unheard
      /\ imagePast'.overtaken = imagePast.overtaken
  <2>1. picture \in 0..MaxPictures
      BY <1>0, ImageAssumption DEF Picture
  <2> QED BY <1>0, <2>1, ChargedOnceIs
<1>4. /\ receipt \in ImageReceipt /\ receipt # NoImage /\ receipt.picture = picture
      /\ receipt.hash = imageCall[n].hash
    BY <1>0, <1>1, <1>r, ImageAssumption DEF ImageReceipt
<1>5. PICK new \in {"save", "error"} :
         /\ ImageGoes(n, new) /\ (CallKeeps \/ CallFaults)
         /\ imageFile' \in {imageFile, [imageFile EXCEPT ![n] = picture]}
         /\ imageReceipt' \in {imageReceipt, [imageReceipt EXCEPT ![n] = receipt]}
         /\ new = "save" => /\ imageReceipt' = [imageReceipt EXCEPT ![n] = receipt]
                            /\ imageFile' = [imageFile EXCEPT ![n] = picture]
         /\ imageIntent' \in [Image -> ImageIntent \cup {NoImage}]
         /\ imageIntent'[n] # NoImage /\ imageIntent'[n].hash = imageIntent[n].hash
         /\ imageIntent'[n].state = imageIntent[n].state
         /\ imageIntent'[n].attempts = imageIntent[n].attempts
         /\ \A m \in Image : m # n => imageIntent'[m] = imageIntent[m]
  <2>1. CASE /\ imageFile' = [imageFile EXCEPT ![n] = picture]
             /\ imageReceipt' = [imageReceipt EXCEPT ![n] = receipt]
             /\ ImageGoes(n, "save") /\ UNCHANGED imageIntent /\ CallKeeps
    <3>1. imageIntent' \in [Image -> ImageIntent \cup {NoImage}]
        BY <2>1, ImageIInvIs DEF ImagesTypeOK
    <3> QED BY <1>1, <2>1, <3>1
  <2>2. CASE /\ imageFile' \in {imageFile, [imageFile EXCEPT ![n] = picture]}
             /\ UNCHANGED imageReceipt /\ CallEnds(n, FALSE) /\ CallFaults
    <3>1. /\ ImageGoes(n, "error")
          /\ imageIntent' \in [Image -> ImageIntent \cup {NoImage}]
          /\ imageIntent'[n] # NoImage /\ imageIntent'[n].hash = imageIntent[n].hash
          /\ imageIntent'[n].state = imageIntent[n].state
          /\ imageIntent'[n].attempts = imageIntent[n].attempts
          /\ \A m \in Image : m # n => imageIntent'[m] = imageIntent[m]
        BY <1>1, <2>2, ImageIInvIs, CallEndsIs
    <3> QED BY <2>2, <3>1
  <2> QED BY <1>p, <1>r, <2>1, <2>2 DEF CallAnswered
<1>6. /\ imageFaults' \in 0..MaxImageFaults
      /\ UNCHANGED <<generator, castLog, imagePlan, drawing>>
    BY <1>5, ImageIInvIs, CallFaultsAre
<1>7. /\ imageFile' \in [Image -> Picture \cup {NoImage}]
      /\ imageReceipt' \in [Image -> ImageReceipt \cup {NoImage}]
      /\ \A m \in Image : m # n =>
            imageFile'[m] = imageFile[m] /\ imageReceipt'[m] = imageReceipt[m]
      /\ new = "save" => imageFile'[n] = picture /\ imageReceipt'[n] = receipt
    BY <1>0, <1>4, <1>5, ImageIInvIs DEF ImagesTypeOK
<1>8. \A m \in Image : m # n => SameImage(m)
    BY <1>0, <1>3, <1>5, <1>6, <1>7 DEF SameImage
<1>9. ImagePaidOK(n)'
    BY <1>0, <1>1, <1>2, <1>3, <1>5 DEF ImagePaidOK, ImageSpent
<1>10. ImageKeptOK(n)'
    BY <1>1, <1>2, <1>5, <1>6 DEF ImageKeptOK, ImageIs
<1>11. new = "save" =>
          /\ imageReceipt'[n] # NoImage /\ imageReceipt'[n].hash = imageCall[n].hash
          /\ imageReceipt'[n].picture = imageFile'[n]
    BY <1>4, <1>7
<1>12. /\ sentCall' \in [Image -> ImageHash \cup {NoImage}]
       /\ refusedCall' \in [Image -> ImageHash \cup {NoImage}]
    BY <1>0, ImageIInvIs DEF ImagesTypeOK
<1> QED BY <1>0, <1>3, <1>5, <1>6, <1>7, <1>8, <1>9, <1>10, <1>11, <1>12, ImageCallStepKeeps

(* The same of a call whose answer was lost.                               *)
LEMMA ImageChargedIs ==
    ASSUME ImageIInv, NEW n \in Image,
           \/ imagePast' = [imagePast EXCEPT !.charged = ChargedOnce(n)]
           \/ UNCHANGED imagePast
    PROVE  /\ imagePast' \in ImagePast
           /\ imagePast'.charged[n] \in {imagePast.charged[n], imagePast.charged[n] + 1}
           /\ \A m \in Image : m # n => imagePast'.charged[m] = imagePast.charged[m]
           /\ imagePast'.risked = imagePast.risked
           /\ imagePast'.unheard = imagePast.unheard
           /\ imagePast'.overtaken = imagePast.overtaken
<1>1. imagePast \in ImagePast /\ imagePast.charged \in [Image -> Nat]
    BY ImageIInvIs, ImageTypesAre
<1>2. PICK c : c = ChargedOnce(n)
    OBVIOUS
<1>3. /\ c \in [Image -> Nat] /\ c[n] = imagePast.charged[n] + 1
      /\ \A m \in Image : m # n => c[m] = imagePast.charged[m]
    BY <1>1, <1>2 DEF ChargedOnce
<1>4. CASE imagePast' = [imagePast EXCEPT !.charged = c]
    BY <1>1, <1>3, <1>4 DEF ImagePast
<1>5. CASE UNCHANGED imagePast
    BY <1>1, <1>5
<1> QED BY <1>2, <1>4, <1>5

(* A call that was sent and came to nothing: what is left of its number is *)
(* as the invariant says, if no proof of a refusal stays with a charge.    *)
LEMMA SentEndsKeeps ==
    ASSUME ImageIInv, NEW n \in Image, ImageAt(n, "sent"),
           NEW terminal \in BOOLEAN, CallEnds(n, terminal), CallKeeps \/ CallFaults,
           UNCHANGED <<imageFile, imageReceipt, sentCall>>,
           refusedCall' \in [Image -> ImageHash \cup {NoImage}],
           \A m \in Image : m # n => refusedCall'[m] = refusedCall[m],
           imagePast' \in ImagePast,
           imagePast'.charged[n] \in {imagePast.charged[n], imagePast.charged[n] + 1},
           \A m \in Image : m # n => imagePast'.charged[m] = imagePast.charged[m],
           imagePast'.risked = imagePast.risked, imagePast'.unheard = imagePast.unheard,
           imagePast'.overtaken = imagePast.overtaken,
           refusedCall'[n] = NoImage \/ imagePast'.charged[n] = imagePast.charged[n]
    PROVE  ImageIInv'
<1>1. /\ ImageIs(n, "prepared") /\ imageIntent[n] # NoImage /\ imageIntent[n].attempts > 0
      /\ imageReceipt[n] = NoImage /\ refusedCall[n] = NoImage
      /\ n \in imagePast.unheard \/ imagePast.charged[n] <= imagePast.risked[n]
      /\ imagePast.charged[n] \in Nat /\ imagePast.risked[n] \in Nat
      /\ n \notin DOMAIN castLog
    BY SentIs, ImageAtIs
<1>2. /\ ImageGoes(n, "error")
      /\ imageIntent' \in [Image -> ImageIntent \cup {NoImage}]
      /\ imageIntent'[n] # NoImage /\ imageIntent'[n].hash = imageIntent[n].hash
      /\ imageIntent'[n].state = imageIntent[n].state
      /\ imageIntent'[n].attempts = imageIntent[n].attempts
      /\ \A m \in Image : m # n => imageIntent'[m] = imageIntent[m]
    BY <1>1, ImageIInvIs, CallEndsIs
<1>3. /\ imageFaults' \in 0..MaxImageFaults
      /\ UNCHANGED <<generator, castLog, imagePlan, drawing>>
    BY ImageIInvIs, CallFaultsAre
<1>4. \A m \in Image : m # n => SameImage(m)
    BY <1>2, <1>3 DEF SameImage
<1>5. ImagePaidOK(n)'
    BY <1>1, <1>2 DEF ImagePaidOK, ImageSpent
<1>6. ImageKeptOK(n)'
    BY <1>1, <1>2, <1>3 DEF ImageKeptOK, ImageIs
<1>7. /\ imageFile' \in [Image -> Picture \cup {NoImage}]
      /\ imageReceipt' \in [Image -> ImageReceipt \cup {NoImage}]
      /\ sentCall' \in [Image -> ImageHash \cup {NoImage}]
    BY ImageIInvIs DEF ImagesTypeOK
<1> QED BY <1>2, <1>3, <1>4, <1>5, <1>6, <1>7, ImageCallStepKeeps

LEMMA CallRefusedKeeps ==
    ASSUME ImageIInv, NEW n \in Image, CallRefused(n)
    PROVE  ImageIInv'
<1>0. /\ ImageAt(n, "sent")
      /\ UNCHANGED <<imageFile, imageReceipt, sentCall, imagePast>>
      /\ CallKeeps \/ CallFaults
      /\ refusedCall' \in {refusedCall, [refusedCall EXCEPT ![n] = imageCall[n].hash]}
    BY DEF CallRefused
<1>1. PICK terminal \in BOOLEAN : CallEnds(n, terminal)
    BY DEF CallRefused, Class
<1>2. imageCall[n].hash \in ImageHash /\ imagePast \in ImagePast
    BY <1>0, ImageAtIs
<1>3. /\ refusedCall' \in [Image -> ImageHash \cup {NoImage}]
      /\ \A m \in Image : m # n => refusedCall'[m] = refusedCall[m]
    BY <1>0, <1>2, ImageIInvIs DEF ImagesTypeOK
<1> QED BY <1>0, <1>1, <1>2, <1>3, SentEndsKeeps

LEMMA CallLostKeeps ==
    ASSUME ImageIInv, NEW n \in Image, CallLost(n)
    PROVE  ImageIInv'
<1>0. /\ ImageAt(n, "sent") /\ CallKeeps
      /\ UNCHANGED <<imageFile, imageReceipt, sentCall, refusedCall>>
      /\ \/ imagePast' = [imagePast EXCEPT !.charged = ChargedOnce(n)]
         \/ UNCHANGED imagePast
    BY DEF CallLost
<1>1. PICK terminal \in BOOLEAN : CallEnds(n, terminal)
    BY DEF CallLost, Class
<1>2. /\ imagePast' \in ImagePast
      /\ imagePast'.charged[n] \in {imagePast.charged[n], imagePast.charged[n] + 1}
      /\ \A m \in Image : m # n => imagePast'.charged[m] = imagePast.charged[m]
      /\ imagePast'.risked = imagePast.risked /\ imagePast'.unheard = imagePast.unheard
      /\ imagePast'.overtaken = imagePast.overtaken
    BY <1>0, ImageChargedIs
<1>3. /\ refusedCall' \in [Image -> ImageHash \cup {NoImage}] /\ refusedCall'[n] = NoImage
    BY <1>0, SentIs, ImageIInvIs DEF ImagesTypeOK
<1> QED BY <1>0, <1>1, <1>2, <1>3, SentEndsKeeps

LEMMA SaveInvokedImageKeeps ==
    ASSUME ImageIInv, NEW n \in Image, SaveInvokedImage(n)
    PROVE  ImageIInv'
<1>0. /\ ImageAt(n, "save")
      /\ UNCHANGED <<imageFile, imageReceipt, sentCall, refusedCall, imagePast>>
    BY DEF SaveInvokedImage
<1>1. /\ imageIntent[n] # NoImage /\ imageIntent[n] \in ImageIntent
      /\ imageIntent[n].hash = imageCall[n].hash /\ n \notin DOMAIN castLog
      /\ imagePast \in ImagePast /\ Answered(n, imageCall[n].hash)
    BY <1>0, ImageAtIs, ImageIInvIs DEF ImageCallOK
<1>2. PICK new \in {"done", "error"}, intent \in ImageIntent :
         /\ ImageGoes(n, new) /\ (CallKeeps \/ CallFaults)
         /\ imageIntent' = [imageIntent EXCEPT ![n] = intent]
         /\ intent.hash = imageIntent[n].hash /\ intent.attempts = imageIntent[n].attempts
         /\ \/ intent = imageIntent[n] /\ new = "error"
            \/ intent.state = "invoked"
  <2>1. CASE /\ imageIntent' = [imageIntent EXCEPT ![n].state = "invoked"]
             /\ ImageGoes(n, "done") /\ CallKeeps
    <3>1. PICK intent : intent = [imageIntent[n] EXCEPT !.state = "invoked"]
        OBVIOUS
    <3>2. /\ intent \in ImageIntent /\ intent.hash = imageIntent[n].hash
          /\ intent.attempts = imageIntent[n].attempts /\ intent.state = "invoked"
        BY <1>1, <3>1 DEF ImageIntent
    <3>3. imageIntent' = [imageIntent EXCEPT ![n] = intent]
        BY <2>1, <3>1
    <3> QED BY <2>1, <3>2, <3>3
  <2>2. CASE UNCHANGED imageIntent /\ ImageGoes(n, "error") /\ CallFaults
    <3>1. imageIntent' = [imageIntent EXCEPT ![n] = imageIntent[n]]
        BY <2>2, ImageIInvIs DEF ImagesTypeOK
    <3> QED BY <1>1, <2>2, <3>1
  <2> QED BY <2>1, <2>2 DEF SaveInvokedImage
<1>3. /\ imageFaults' \in 0..MaxImageFaults
      /\ UNCHANGED <<generator, castLog, imagePlan, drawing>>
    BY <1>2, ImageIInvIs, CallFaultsAre
<1>4. /\ imageIntent' \in [Image -> ImageIntent \cup {NoImage}]
      /\ imageIntent'[n] = intent /\ intent # NoImage
      /\ \A m \in Image : m # n => imageIntent'[m] = imageIntent[m]
    BY <1>2, ImageIInvIs, ImageIntentBecomes, ImageAssumption
<1>5. \A m \in Image : m # n => SameImage(m)
    BY <1>0, <1>3, <1>4 DEF SameImage
<1>6. ImagePaidOK(n)'
    BY <1>0, <1>2, <1>4, ImageIInvIs DEF ImagePaidOK, ImageSpent
<1>7. ImageKeptOK(n)'
  <2>1. CASE intent = imageIntent[n]
      BY <1>0, <1>3, <1>4, <2>1, ImageIInvIs DEF ImageKeptOK, ImageIs
  <2>2. CASE intent.state = "invoked"
      BY <1>0, <1>1, <1>2, <1>3, <1>4, <2>2 DEF ImageKeptOK, ImageIs, Answered
  <2> QED BY <1>2, <2>1, <2>2
<1>8. new = "done" => ImageIs(n, "invoked")'
    BY <1>2, <1>4 DEF ImageIs
<1>9. /\ imageFile' \in [Image -> Picture \cup {NoImage}]
      /\ imageReceipt' \in [Image -> ImageReceipt \cup {NoImage}]
      /\ sentCall' \in [Image -> ImageHash \cup {NoImage}]
      /\ refusedCall' \in [Image -> ImageHash \cup {NoImage}] /\ imagePast' \in ImagePast
    BY <1>0, ImageIInvIs DEF ImagesTypeOK
<1> QED BY <1>0, <1>1, <1>2, <1>3, <1>4, <1>5, <1>6, <1>7, <1>8, <1>9, ImageCallStepKeeps

LEMMA CallsEndKeeps ==
    ASSUME ImageIInv, CallsEnd
    PROVE  ImageIInv'
<1>0. /\ drawing # NoImage /\ drawing.step = "calls"
      /\ drawing' = [drawing EXCEPT !.step = "attach", !.todo =
                        {n \in Image : imageCall[n] # NoImage /\ imageCall[n].step = "done"}]
      /\ imageCall' = [n \in Image |-> NoImage]
      /\ DrawKeeps /\ UNCHANGED <<imageFiles, imageJobs, imagePast>>
    BY DEF CallsEnd, DrawAt
<1>1. PICK todo : todo = {n \in Image : imageCall[n] # NoImage /\ imageCall[n].step = "done"}
    OBVIOUS
<1>2. /\ drawing' \in Drawing /\ drawing'.step = "attach" /\ drawing'.todo = todo
      /\ drawing'.waiting = drawing.waiting /\ drawing'.by = drawing.by
    BY <1>0, <1>1, ImageIInvIs, ImageTypesAre DEF Drawing, DrawStep
<1>3. \A n \in Image : SameImage(n)
    BY <1>0, ImagesUntouched DEF imageJobs
<1>4. ImageSessionOK'
    BY <1>0, ImageIInvIs DEF ImageSessionOK, DrawKeeps
<1>5. \A n \in Image : n \in todo => ImageIs(n, "invoked")
    BY <1>1, ImageIInvIs DEF ImageCallOK
<1>6. \A n \in Image : n \notin drawing.waiting
    BY <1>0, ImageIInvIs DEF ImageDrawnOK
<1>7. \A n \in Image : ImageDrawnOK(n)' /\ ImageCallOK(n)'
    BY <1>0, <1>2, <1>5, <1>6 DEF ImageDrawnOK, ImageCallOK, ImageIs, imageJobs
<1>8. /\ imageCall' \in [Image -> ImageCall \cup {NoImage}] /\ imagePast' \in ImagePast
      /\ imageFaults' \in 0..MaxImageFaults /\ generator' \in Generators \cup {NoImage}
    BY <1>0, ImageIInvIs DEF ImagesTypeOK, DrawKeeps
<1> QED BY <1>0, <1>2, <1>3, <1>4, <1>7, <1>8, DrawingAloneKeeps

(* Between the auditions the invariant is what it says of the files.       *)
LEMMA NoDrawingKeeps ==
    ASSUME ImageIInv, drawing = NoImage, UNCHANGED <<imageJobs, drawing, imageCall>>,
           DOMAIN castLog' \subseteq Image,
           \A n \in DOMAIN castLog' : castLog'[n] \in CastImage,
           imageFile' \in [Image -> Picture \cup {NoImage}],
           imageFaults' \in 0..MaxImageFaults, UNCHANGED generator, imagePast' \in ImagePast,
           \A n \in Image : ImagePaidOK(n)' /\ ImageKeptOK(n)'
    PROVE  ImageIInv'
<1>1. \A n \in Image : imageCall'[n] = NoImage
    BY NoImageCalls
<1>2. ImageSessionOK' /\ \A n \in Image : ImageDrawnOK(n)' /\ ImageCallOK(n)'
    BY <1>1 DEF ImageSessionOK, ImageDrawnOK, ImageCallOK
<1>3. ImagesTypeOK'
    BY ImageIInvIs DEF ImagesTypeOK, imageJobs
<1> QED BY <1>2, <1>3 DEF ImageIInv

LEMMA ImportPortraitKeeps ==
    ASSUME ImageIInv, ImportPortrait
    PROVE  ImageIInv'
<1>n. PICK n : n = LastImage + 1
    OBVIOUS
<1>p. PICK picture : picture = imagePast.pictures + 1
    OBVIOUS
<1>i. PICK image : image = [hash |-> NoImage, picture |-> picture, rejected |-> FALSE]
    OBVIOUS
<1>o. PICK taken : taken = IF imageIntent[n] # NoImage
                           THEN imagePast.overtaken \cup {n} ELSE imagePast.overtaken
    OBVIOUS
<1>0. /\ generator # NoImage /\ drawing = NoImage /\ n \in Image
      /\ imagePast.edits < MaxImageEdits /\ imagePast.pictures < MaxPictures
      /\ imageFile' = [imageFile EXCEPT ![n] = picture]
      /\ castLog' \in {castLog, LogWith(n, image)}
      /\ DrawFails \/ DrawKeeps
      /\ imagePast' = [imagePast EXCEPT !.pictures = picture, !.edits = @ + 1,
                                        !.overtaken = taken]
      /\ UNCHANGED <<imageJobs, drawing, imageCall>>
    BY <1>n, <1>p, <1>i, <1>o DEF ImportPortrait
<1>1. n \notin DOMAIN castLog
  <2>1. LastImage \in 0..MaxImages /\ \A m \in DOMAIN castLog : m <= LastImage
      BY ImageIInvIs, LastImageIs
  <2> QED BY <1>n, <2>1, ImageAssumption
<1>2. /\ imagePast \in ImagePast /\ imagePast.pictures \in 0..MaxPictures
      /\ imagePast.overtaken \subseteq Image /\ imagePast.edits \in 0..MaxImageEdits
    BY ImageIInvIs, ImageTypesAre DEF ImagePast
<1>3. picture \in Picture /\ taken \subseteq Image
    BY <1>0, <1>2, <1>p, <1>o, ImageAssumption DEF Picture
<1>4. image \in CastImage
    BY <1>3, <1>i DEF CastImage
<1>5. /\ imagePast' \in ImagePast /\ imagePast'.charged = imagePast.charged
      /\ imagePast'.risked = imagePast.risked /\ imagePast'.unheard = imagePast.unheard
      /\ imagePast'.overtaken = taken
  <2>1. PICK edits : edits = imagePast.edits + 1
      OBVIOUS
  <2>2. edits \in 0..MaxImageEdits /\ picture \in 0..MaxPictures
      BY <1>0, <1>2, <1>p, <2>1, ImageAssumption
  <2>3. imagePast' = [imagePast EXCEPT !.pictures = picture, !.edits = edits,
                                       !.overtaken = taken]
      BY <1>0, <2>1
  <2> QED BY <1>2, <1>3, <2>2, <2>3 DEF ImagePast
<1>6. /\ DOMAIN castLog' \subseteq Image /\ \A m \in DOMAIN castLog' : castLog'[m] \in CastImage
      /\ \A m \in Image : m # n => (m \in DOMAIN castLog' <=> m \in DOMAIN castLog)
      /\ \A m \in DOMAIN castLog : castLog'[m] = castLog[m]
      /\ n \in DOMAIN castLog' => castLog'[n] = image
  <2>1. CASE UNCHANGED castLog
      BY <1>1, <2>1, ImageIInvIs, ImageTypesAre DEF ImagesTypeOK
  <2>2. CASE castLog' = LogWith(n, image)
      BY <1>0, <1>1, <1>4, <2>2, ImageIInvIs, LogWithIs
  <2> QED BY <1>0, <2>1, <2>2
<1>7. /\ imageFile' \in [Image -> Picture \cup {NoImage}] /\ imageFile'[n] = picture
      /\ \A m \in Image : m # n => imageFile'[m] = imageFile[m]
    BY <1>0, <1>3, ImageIInvIs DEF ImagesTypeOK
<1>8. \A m \in Image : m # n => SameImage(m)
    BY <1>0, <1>5, <1>6, <1>7, <1>o DEF SameImage, imageJobs
<1>9. ImagePaidOK(n)'
    BY <1>0, <1>5, ImageIInvIs DEF ImagePaidOK, ImageSpent, imageJobs
<1>10. ImageKeptOK(n)'
  <2>1. ~ImageIs(n, "reconciled")
      BY <1>0, <1>1, ImageIInvIs DEF ImageKeptOK
  <2>2. imageIntent[n] = NoImage \/ n \in taken
      BY <1>o
  <2>3. n \in DOMAIN castLog' => castLog'[n].picture = picture
      BY <1>6, <1>i
  <2>4. ImageIs(n, "invoked") =>
           imageReceipt[n] # NoImage /\ imageReceipt[n].hash = imageIntent[n].hash
      BY <1>0, ImageIInvIs DEF ImageKeptOK
  <2> QED BY <1>0, <1>5, <1>7, <2>1, <2>2, <2>3, <2>4 DEF ImageKeptOK, ImageIs, imageJobs
<1>11. \A m \in Image : ImagePaidOK(m)' /\ ImageKeptOK(m)'
    BY <1>8, <1>9, <1>10, ImageIInvIs, ImageStays
<1>12. imageFaults' \in 0..MaxImageFaults /\ UNCHANGED generator
    BY <1>0, ImageIInvIs, ImageFaultsAre
<1> QED BY <1>0, <1>5, <1>6, <1>7, <1>11, <1>12, NoDrawingKeeps

LEMMA RejectPortraitKeeps ==
    ASSUME ImageIInv, NEW n \in Image, RejectPortrait(n)
    PROVE  ImageIInv'
<1>0. /\ drawing = NoImage /\ n \in DOMAIN castLog
      /\ castLog' = [castLog EXCEPT ![n].rejected = TRUE]
      /\ imagePast.edits < MaxImageEdits /\ Past("edits", imagePast.edits + 1)
      /\ DrawKeeps /\ UNCHANGED <<imageFile, imageJobs, drawing, imageCall>>
    BY DEF RejectPortrait, Counting
<1>1. \A m \in DOMAIN castLog : m \in Image /\ castLog[m] \in CastImage
    BY ImageIInvIs, ImageTypesAre
<1>2. PICK image : image = [castLog[n] EXCEPT !.rejected = TRUE]
    OBVIOUS
<1>3. /\ image \in CastImage /\ image.hash = castLog[n].hash
      /\ image.picture = castLog[n].picture
    BY <1>0, <1>1, <1>2 DEF CastImage
<1>4. /\ DOMAIN castLog' = DOMAIN castLog /\ castLog'[n] = image
      /\ \A m \in DOMAIN castLog : m # n => castLog'[m] = castLog[m]
    BY <1>0, <1>2
<1>5. /\ imagePast' \in ImagePast /\ imagePast'.charged = imagePast.charged
      /\ imagePast'.risked = imagePast.risked /\ imagePast'.unheard = imagePast.unheard
      /\ imagePast'.overtaken = imagePast.overtaken
  <2>1. imagePast \in ImagePast /\ imagePast.edits \in 0..MaxImageEdits
      BY ImageIInvIs, ImageTypesAre DEF ImagePast
  <2>2. PICK edits : edits = imagePast.edits + 1
      OBVIOUS
  <2>3. edits \in 0..MaxImageEdits
      BY <1>0, <2>1, <2>2, ImageAssumption
  <2>4. imagePast' = [imagePast EXCEPT !.edits = edits]
      BY <1>0, <2>2 DEF Past
  <2> QED BY <2>1, <2>3, <2>4 DEF ImagePast
<1>6. \A m \in Image : SameImage(m)
    BY <1>0, <1>3, <1>4, <1>5 DEF SameImage, imageJobs
<1>7. \A m \in Image : ImagePaidOK(m)' /\ ImageKeptOK(m)'
    BY <1>6, ImageIInvIs, ImageStays
<1>8. imageFaults' \in 0..MaxImageFaults /\ UNCHANGED generator
    BY <1>0, ImageIInvIs, ImageFaultsAre
<1>9. imageFile' \in [Image -> Picture \cup {NoImage}]
    BY <1>0, ImageIInvIs DEF ImagesTypeOK
<1> QED BY <1>0, <1>1, <1>3, <1>4, <1>5, <1>7, <1>8, <1>9, NoDrawingKeeps

LEMMA ImagesInitOK ==
    ASSUME ImagesInit
    PROVE  ImageIInv
<1>1. PICK none : none = [n \in Image |-> 0]
    OBVIOUS
<1>2. none \in [Image -> Nat] /\ \A n \in Image : none[n] = 0
    BY <1>1
<1>3. /\ castLog = <<>> /\ drawing = NoImage /\ generator \in Generators /\ imageFaults = 0
      /\ \A n \in Image : /\ imageFile[n] = NoImage /\ imageIntent[n] = NoImage
                          /\ imageReceipt[n] = NoImage /\ refusedCall[n] = NoImage
                          /\ imageCall[n] = NoImage
      /\ imagePast = [charged |-> none, risked |-> none, unheard |-> {}, overtaken |-> {},
                      pictures |-> 0, asks |-> 0, edits |-> 0]
    BY <1>1 DEF ImagesInit
<1>4. imagePast \in ImagePast /\ imagePast.charged = none /\ imagePast.risked = none
    BY <1>2, <1>3, ImageAssumption DEF ImagePast
<1>5. DOMAIN castLog = {}
    BY <1>3
<1>6. ImagesTypeOK
    BY <1>3, <1>4, <1>5, ImageAssumption DEF ImagesInit, ImagesTypeOK
<1>7. \A n \in Image : ImagePaidOK(n)
    BY <1>2, <1>4 DEF ImagePaidOK, ImageSpent
<1>8. \A n \in Image : ImageKeptOK(n) /\ ImageDrawnOK(n) /\ ImageCallOK(n)
    BY <1>3, <1>5 DEF ImageKeptOK, ImageIs, ImageDrawnOK, ImageCallOK
<1> QED BY <1>3, <1>6, <1>7, <1>8 DEF ImageIInv, ImageSessionOK

LEMMA ImagesStepOK ==
    ASSUME ImageIInv, [ImagesNext]_imageVars
    PROVE  ImageIInv'
<1>1. ASSUME NEW n \in Image,
             \/ KeptAnswer(n) \/ UnreadableAnswer(n) \/ NoAnswer(n)
             \/ PluginUnheard(n) \/ PluginAnswers(n) \/ FinishImage(n)
             \/ RetireImage(n) \/ PrepareImage(n)
             \/ NotCalled(n) \/ BeginCall(n)
             \/ CallAnswered(n) \/ CallRefused(n) \/ CallLost(n)
             \/ SaveInvokedImage(n) \/ AttachImage(n)
             \/ RejectPortrait(n)
      PROVE  ImageIInv'
    BY <1>1, KeptAnswerKeeps, UnreadableAnswerKeeps, NoAnswerKeeps, PluginUnheardKeeps,
       PluginAnswersKeeps, FinishImageKeeps, RetireImageKeeps, PrepareImageKeeps,
       NotCalledKeeps, BeginCallKeeps, CallAnsweredKeeps, CallRefusedKeeps, CallLostKeeps,
       SaveInvokedImageKeeps, RejectPortraitKeeps
<1>2. CASE \/ LookedThrough \/ Finished \/ OpenRefused \/ OpenRetires
           \/ NumberImages \/ PreparedAll \/ CallsEnd \/ EndAudition
    BY <1>2, LookedThroughKeeps, FinishedKeeps, OpenRetiresKeeps, NumberImagesKeeps,
       PreparedAllKeeps, CallsEndKeeps
<1>3. ASSUME NEW count \in 1..2, NEW risks \in BOOLEAN, AskImages(count, risks)
      PROVE  ImageIInv'
    BY <1>3, AskImagesKeeps
<1>4. CASE ImportPortrait \/ StopImages
    BY <1>4, ImportPortraitKeeps, StopImagesKeeps
<1>5. ASSUME NEW by \in Generators, OpenImages(by)
      PROVE  ImageIInv'
    BY <1>5, OpenImagesKeeps
<1>6. CASE UNCHANGED imageVars
    BY <1>6 DEF ImageIInv, ImagesTypeOK, ImageSessionOK, ImagePaidOK, ImageSpent, ImageKeptOK,
       ImageDrawnOK, ImageCallOK, ImageIs, ImageSilent, ImageAhead, Unfinished, Unresolved,
       Answered, imageVars, imageFiles, imageJobs
<1> QED BY <1>1, <1>2, <1>3, <1>4, <1>5, <1>6 DEF ImagesNext

(* What casting images keep true at every step: see ImageIInv.             *)
THEOREM ImageInvariance == ImagesSpec => []ImageIInv
<1>1. ImagesInit => ImageIInv
    BY ImagesInitOK
<1>2. ImageIInv /\ [ImagesNext]_imageVars => ImageIInv'
    BY ImagesStepOK
<1> QED BY <1>1, <1>2, PTL DEF ImagesSpec

(* A number of a character's images is paid for once, and once more for    *)
(* each risk the director took, unless a plugin could not be asked about   *)
(* its call; and what a job was answered is at hand or recorded, with the  *)
(* picture it was recorded with, unless an import took the number from a   *)
(* call (paid_image.rs, cast.rs).                                          *)
THEOREM ImagesArePaidOnce == ImagesSpec => []ImagesArePaidOnceAndKept
<1>1. ImageIInv => ImagesArePaidOnceAndKept
  <2> SUFFICES ASSUME ImageIInv PROVE ImagesArePaidOnceAndKept
      OBVIOUS
  <2>1. \A n \in Image \ imagePast.unheard :
           imagePast.charged[n] <= 1 + imagePast.risked[n]
      BY ImageIInvIs DEF ImagePaidOK
  <2>2. \A n \in Image \ imagePast.overtaken :
           /\ ImageIs(n, "invoked") => n \in DOMAIN castLog \/ Answered(n, imageIntent[n].hash)
           /\ ImageIs(n, "reconciled") =>
                 n \in DOMAIN castLog /\ castLog[n].hash = imageIntent[n].hash
           /\ n \in DOMAIN castLog => imageFile[n] = castLog[n].picture
      BY ImageIInvIs DEF ImageKeptOK, Answered
  <2> QED BY <2>1, <2>2 DEF ImagesArePaidOnceAndKept
<1> QED BY <1>1, ImageInvariance, PTL
=============================================================================
