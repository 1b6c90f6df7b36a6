---------------------------- MODULE PaidDocument ----------------------------
(***************************************************************************)
(* One kind of document a language model writes and the director edits:    *)
(* crates/kineto-core/src/documents.rs over the revisions of               *)
(* crates/kineto-project/src/revisions.rs.                                 *)
(*                                                                         *)
(* A document's next revision is one paid job.  The answer is written as   *)
(* the revision's file, then in a receipt, then the intent says so; then   *)
(* the revision is added to the log, and the job acknowledged.  An edit    *)
(* writes the same file and the same log.  Commands about one kind run one *)
(* at a time, as the session's scopes have it, but the process may stop    *)
(* between any two writes, and any write may fail.                         *)
(*                                                                         *)
(* Each operation of the runtime on an intent is one step here.  An answer *)
(* or an edit is a number of its own, which stands for its bytes and their *)
(* hash.  Left out are what a document says, dependencies, and the         *)
(* rendering of the screenplay.                                            *)
(***************************************************************************)
EXTENDS Naturals, Sequences, FiniteSets

CONSTANTS
    Models,             \* provider keys of the language models
    PaidModels,         \* those charged per call
    Inputs,             \* what a document is asked from
    MaxDocRevision,     \* MAX_REVISION
    MaxTries,           \* max_attempts of the backoff policy
    MaxTexts,           \* bounds the answers and edits
    MaxDocAsks,         \* bounds the requests
    MaxDocStops,        \* bounds the process's stops
    NoDoc

DocRev == 1..MaxDocRevision
Text   == 1..MaxTexts

(* The input hash covers the provider.                                     *)
DocHash == [model: Models, input: Inputs]

DocRecord == [text: Text, hash: DocHash \cup {NoDoc},
              status: {"candidate", "locked", "superseded"}]
DocIntent == [state: {"prepared", "invoked", "reconciled"},
              attempts: 0..MaxTries, failed: BOOLEAN, hash: DocHash]
Answer    == [text: Text, hash: DocHash \cup {NoDoc}]

DocStep == {"risk", "risked", "settle", "forget", "prepare", "read", "count", "ask",
            "write", "receipt", "save", "failed", "attach", "acknowledge", "remove"}
DocJob  == [rev: DocRev, hash: DocHash \cup {NoDoc}, step: DocStep,
            answer: Answer \cup {NoDoc}]

ASSUME DocAssumption ==
    /\ PaidModels \subseteq Models
    /\ MaxDocRevision \in Nat \ {0} /\ MaxTries \in Nat \ {0}
    /\ MaxTexts \in Nat /\ MaxDocAsks \in Nat /\ MaxDocStops \in Nat
    /\ NoDoc \notin DocHash \cup DocIntent \cup Answer \cup DocJob \cup Text

VARIABLES
    docLog,         \* revisions.json
    docFile,        \* the revisions' files
    docIntent,      \* .kineto/jobs
    docReceipt,     \* .kineto/generation
    docRefusal,     \* the input hash of the call refused
    docJob,         \* the command under way
    docTodo,        \* the answers an open has yet to attach
    docOpen,        \* whether a session has the project open
    docCharged,     \* how often a model was paid for a revision
    docRisked,      \* how often the director risked paying twice for it
    overtaken,      \* revisions an edit wrote over an answer kept for them
    docCount        \* what the bounds count

docFiles == <<docLog, docFile>>
docJobs  == <<docIntent, docReceipt, docRefusal>>
docPast  == <<docCharged, docRisked, overtaken, docCount>>
docVars  == <<docFiles, docJobs, docJob, docTodo, docOpen, docPast>>

DocTypeOK ==
    /\ docLog \in Seq(DocRecord) /\ Len(docLog) <= MaxDocRevision
    /\ docFile \in [DocRev -> Text \cup {NoDoc}]
    /\ docIntent \in [DocRev -> DocIntent \cup {NoDoc}]
    /\ docReceipt \in [DocRev -> Answer \cup {NoDoc}]
    /\ docRefusal \in [DocRev -> DocHash \cup {NoDoc}]
    /\ docJob \in DocJob \cup {NoDoc} /\ docTodo \subseteq DocRev
    /\ docOpen \in BOOLEAN
    /\ docCharged \in [DocRev -> Nat] /\ docRisked \in [DocRev -> Nat]
    /\ overtaken \subseteq DocRev
    /\ docCount \in [texts: 0..MaxTexts, asks: 0..MaxDocAsks, stops: 0..MaxDocStops]

DocInit ==
    /\ docLog = <<>>
    /\ docFile = [r \in DocRev |-> NoDoc]
    /\ docIntent = [r \in DocRev |-> NoDoc]
    /\ docReceipt = [r \in DocRev |-> NoDoc]
    /\ docRefusal = [r \in DocRev |-> NoDoc]
    /\ docJob = NoDoc /\ docTodo = {} /\ docOpen = TRUE
    /\ docCharged = [r \in DocRev |-> 0]
    /\ docRisked = [r \in DocRev |-> 0]
    /\ overtaken = {}
    /\ docCount = [texts |-> 0, asks |-> 0, stops |-> 0]
-----------------------------------------------------------------------------
DocIs(r, state) == docIntent[r] # NoDoc /\ docIntent[r].state = state

(* read_receipt: a receipt is only as good as the file it names.           *)
GoodReceipt(r) == docReceipt[r] # NoDoc /\ docReceipt[r].text = docFile[r]

(* Mutant: revisions no longer in play are not counted.                    *)
NextRev_InPlay ==
    Cardinality({r \in DOMAIN docLog : docLog[r].status # "superseded"}) + 1

NextRev == Len(docLog) + 1

(* The newest revision still in play.                                      *)
InPlay == {r \in DOMAIN docLog : docLog[r].status # "superseded"}

Latest(r) == r \in InPlay /\ \A s \in InPlay : s <= r

(* One command about the document at a time, none before the open's        *)
(* recovery is done.                                                       *)
DocIdle == docOpen /\ docJob = NoDoc /\ docTodo = {}

DocAt(step) == docJob # NoDoc /\ docJob.step = step

DocGo(next) == docJob' = [docJob EXCEPT !.step = next]

DocEnd == docJob' = NoDoc

DocKeeps == UNCHANGED <<docTodo, docOpen>>
-----------------------------------------------------------------------------
(* generate.                                                               *)

(* A request on the director's explicit decision begins by giving up what  *)
(* is unresolved.                                                          *)
AskDocument(hash, consent) ==
    /\ DocIdle
    /\ NextRev \in DocRev
    /\ docCount.asks < MaxDocAsks
    /\ docJob' = [rev |-> NextRev, hash |-> hash, answer |-> NoDoc,
                  step |-> IF consent THEN "risk" ELSE "settle"]
    /\ docCount' = [docCount EXCEPT !.asks = @ + 1]
    /\ DocKeeps /\ UNCHANGED <<docFiles, docJobs, docCharged, docRisked, overtaken>>

(* risk_paying_twice: retire_unresolved.                                   *)
RiskPayingTwice ==
    /\ DocAt("risk")
    /\ LET r == docJob.rev
       IN  IF DocIs(r, "prepared") /\ docIntent[r].attempts > 0
           THEN /\ docIntent' = [docIntent EXCEPT ![r] = NoDoc]
                /\ docRisked' = [docRisked EXCEPT ![r] = @ + 1]
           ELSE UNCHANGED <<docIntent, docRisked>>
    /\ DocGo("risked")
    /\ DocKeeps
    /\ UNCHANGED <<docFiles, docReceipt, docRefusal, docCharged, overtaken, docCount>>

(* Mutant: only the request's own model is taken to charge per call.       *)
Unresolved_OwnModel(r, model) ==
    /\ DocIs(r, "prepared") /\ docIntent[r].attempts > 0
    /\ model \in PaidModels
    /\ docRefusal[r] # docIntent[r].hash

(* An attempt that may have been answered without its answer being kept.   *)
(* Whether another provider charges per call is not known; it is taken to. *)
UnresolvedAttempt(r, model) ==
    /\ DocIs(r, "prepared") /\ docIntent[r].attempts > 0
    /\ model \in PaidModels \/ docIntent[r].hash.model # model
    /\ docRefusal[r] # docIntent[r].hash

(* settle_earlier_attempt: refused, or what failed is retired.             *)
SettleEarlier ==
    /\ DocAt("settle")
    /\ LET r == docJob.rev
       IN  \/ /\ UnresolvedAttempt(r, docJob.hash.model)
              /\ DocEnd /\ UNCHANGED docIntent
           \/ /\ ~UnresolvedAttempt(r, docJob.hash.model)
              /\ DocGo("forget")
              /\ docIntent' = IF DocIs(r, "prepared") /\ docIntent[r].failed
                              THEN [docIntent EXCEPT ![r] = NoDoc] ELSE docIntent
    /\ DocKeeps /\ UNCHANGED <<docFiles, docReceipt, docRefusal, docPast>>

(* Mutant: a refusal that cannot be removed is left where it is.           *)
ForgetFails_GoesOn(next) == DocGo(next)

(* Failing to remove it is an error: it could pass a later, unresolved     *)
(* call as refused.                                                        *)
ForgetFails(next) == DocEnd

ForgetRefusal ==
    \E at \in {<<"risked", "settle">>, <<"forget", "prepare">>} :
        /\ DocAt(at[1])
        /\ \/ docRefusal' = [docRefusal EXCEPT ![docJob.rev] = NoDoc] /\ DocGo(at[2])
           \/ docRefusal[docJob.rev] # NoDoc /\ UNCHANGED docRefusal /\ ForgetFails(at[2])
        /\ DocKeeps /\ UNCHANGED <<docFiles, docIntent, docReceipt, docPast>>

PrepareDocument ==
    /\ DocAt("prepare")
    /\ LET r == docJob.rev
           other == docIntent[r] # NoDoc /\ docIntent[r].hash # docJob.hash
       IN  \/ /\ docIntent[r] = NoDoc
              /\ docIntent' = [docIntent EXCEPT ![r] =
                    [state |-> "prepared", attempts |-> 0, failed |-> FALSE,
                     hash |-> docJob.hash]]
              /\ DocGo("count")
           \/ /\ DocIs(r, "prepared") /\ ~other
              /\ DocGo("count") /\ UNCHANGED docIntent
           \/ /\ DocIs(r, "invoked") /\ ~other
              /\ DocGo("read") /\ UNCHANGED docIntent
           \/ /\ other \/ DocIs(r, "reconciled")
              /\ DocEnd /\ UNCHANGED docIntent
    /\ DocKeeps /\ UNCHANGED <<docFiles, docReceipt, docRefusal, docPast>>

(* Answered before an interruption: that answer is kept.                   *)
ReadReceipt ==
    /\ DocAt("read")
    /\ IF GoodReceipt(docJob.rev)
       THEN docJob' = [docJob EXCEPT !.step = "attach", !.answer = docReceipt[docJob.rev]]
       ELSE DocEnd
    /\ DocKeeps /\ UNCHANGED <<docFiles, docJobs, docPast>>

CountTry ==
    /\ DocAt("count")
    /\ IF docIntent[docJob.rev].attempts < MaxTries
       THEN /\ docIntent' = [docIntent EXCEPT ![docJob.rev].attempts = @ + 1,
                                              ![docJob.rev].failed = FALSE]
            /\ DocGo("ask")
       ELSE DocEnd /\ UNCHANGED docIntent
    /\ DocKeeps /\ UNCHANGED <<docFiles, docReceipt, docRefusal, docPast>>

(* A call of a paid model, answered or not told to have failed, is paid.   *)
Paid ==
    docCharged' = IF docJob.hash.model \in PaidModels
                  THEN [docCharged EXCEPT ![docJob.rev] = @ + 1] ELSE docCharged

ModelAnswers ==
    /\ DocAt("ask")
    /\ docCount.texts < MaxTexts
    /\ docCount' = [docCount EXCEPT !.texts = @ + 1]
    /\ docJob' = [docJob EXCEPT !.step = "write",
                     !.answer = [text |-> docCount.texts + 1, hash |-> docJob.hash]]
    /\ Paid
    /\ DocKeeps /\ UNCHANGED <<docFiles, docJobs, docRisked, overtaken>>

(* The call failed before an answer, or the answer was refused; writing    *)
(* that down may fail.                                                     *)
ModelRefuses ==
    /\ DocAt("ask")
    /\ \/ docRefusal' = [docRefusal EXCEPT ![docJob.rev] = docJob.hash]
       \/ UNCHANGED docRefusal
    /\ DocGo("failed")
    /\ DocKeeps /\ UNCHANGED <<docFiles, docIntent, docReceipt, docPast>>

(* may_have_lost_an_answer.                                                *)
ModelAnswerLost ==
    /\ DocAt("ask")
    /\ Paid
    /\ DocGo("failed")
    /\ DocKeeps /\ UNCHANGED <<docFiles, docJobs, docRisked, overtaken, docCount>>

WriteAnswer ==
    /\ DocAt("write")
    /\ \/ /\ docFile' = [docFile EXCEPT ![docJob.rev] = docJob.answer.text]
          /\ DocGo("receipt")
       \/ DocGo("failed") /\ UNCHANGED docFile
    /\ DocKeeps /\ UNCHANGED <<docLog, docJobs, docPast>>

WriteDocReceipt ==
    /\ DocAt("receipt")
    /\ \/ /\ docReceipt' = [docReceipt EXCEPT ![docJob.rev] = docJob.answer]
          /\ DocGo("save")
       \/ DocGo("failed") /\ UNCHANGED docReceipt
    /\ DocKeeps /\ UNCHANGED <<docFiles, docIntent, docRefusal, docPast>>

SaveAnswered ==
    /\ DocAt("save")
    /\ docIntent' = [docIntent EXCEPT ![docJob.rev].state = "invoked"]
    /\ DocGo("attach")
    /\ DocKeeps /\ UNCHANGED <<docFiles, docReceipt, docRefusal, docPast>>

SaveDocFailure ==
    /\ DocAt("failed")
    /\ \/ docIntent' = [docIntent EXCEPT ![docJob.rev].failed = TRUE]
       \/ UNCHANGED docIntent
    /\ DocEnd
    /\ DocKeeps /\ UNCHANGED <<docFiles, docReceipt, docRefusal, docPast>>

(* A store or a file that cannot be read or written ends the command.      *)
DocFails ==
    /\ \E step \in {"risk", "settle", "prepare", "count", "read", "save", "attach",
                    "acknowledge"} : DocAt(step)
    /\ DocEnd
    /\ DocKeeps /\ UNCHANGED <<docFiles, docJobs, docPast>>
-----------------------------------------------------------------------------
(* revisions::attach, and what follows it for an answer.                   *)

Superseded(log) ==
    [r \in DOMAIN log |->
        IF log[r].status = "candidate" THEN [log[r] EXCEPT !.status = "superseded"]
        ELSE log[r]]

SameRecord(r, answer) == docLog[r].text = answer.text /\ docLog[r].hash = answer.hash

FileHolds(r, text) == docFile[r] = text

AttachRevision ==
    /\ DocAt("attach")
    /\ LET r == docJob.rev
           next == IF docJob.hash = NoDoc THEN DocEnd ELSE DocGo("acknowledge")
       IN  \/ /\ r \in DOMAIN docLog /\ SameRecord(r, docJob.answer)
              /\ next /\ UNCHANGED docLog
           \/ /\ r = NextRev /\ FileHolds(r, docJob.answer.text)
              /\ docLog' = Append(Superseded(docLog),
                              [text |-> docJob.answer.text, hash |-> docJob.answer.hash,
                               status |-> "candidate"])
              /\ next
           \/ /\ \/ r \in DOMAIN docLog /\ ~SameRecord(r, docJob.answer)
                 \/ r >= NextRev /\ (r > NextRev \/ ~FileHolds(r, docJob.answer.text))
              /\ DocEnd /\ UNCHANGED docLog
    /\ DocKeeps /\ UNCHANGED <<docFile, docJobs, docPast>>

AcknowledgeDocument ==
    /\ DocAt("acknowledge")
    /\ docIntent' = [docIntent EXCEPT ![docJob.rev].state = "reconciled"]
    /\ DocGo("remove")
    /\ DocKeeps /\ UNCHANGED <<docFiles, docReceipt, docRefusal, docPast>>

RemoveDocReceipt ==
    /\ DocAt("remove")
    /\ \/ docReceipt' = [docReceipt EXCEPT ![docJob.rev] = NoDoc]
       \/ UNCHANGED docReceipt
    /\ DocEnd
    /\ DocKeeps /\ UNCHANGED <<docFiles, docIntent, docRefusal, docPast>>
-----------------------------------------------------------------------------
(* The director's edits and locks.                                         *)

(* save_edit, from the latest revision only: the next revision's file,     *)
(* then its record.                                                        *)
SaveEdit ==
    /\ DocIdle
    /\ \E based \in DOMAIN docLog : Latest(based)
    /\ NextRev \in DocRev
    /\ docCount.texts < MaxTexts
    /\ LET text == docCount.texts + 1
       IN  /\ docFile' = [docFile EXCEPT ![NextRev] = text]
           /\ docJob' = [rev |-> NextRev, hash |-> NoDoc, step |-> "attach",
                         answer |-> [text |-> text, hash |-> NoDoc]]
    /\ overtaken' = IF GoodReceipt(NextRev) THEN overtaken \cup {NextRev} ELSE overtaken
    /\ docCount' = [docCount EXCEPT !.texts = @ + 1]
    /\ DocKeeps /\ UNCHANGED <<docLog, docJobs, docCharged, docRisked>>

LockRevision(r) ==
    /\ DocIdle
    /\ r \in DOMAIN docLog /\ docLog[r].status = "candidate"
    /\ docLog' = [s \in DOMAIN docLog |->
                    [docLog[s] EXCEPT !.status = IF s = r THEN "locked" ELSE "superseded"]]
    /\ UNCHANGED <<docFile, docJobs, docJob, docTodo, docOpen, docPast>>
-----------------------------------------------------------------------------
(* Stopping and opening again.                                             *)

StopDocuments ==
    /\ docOpen
    /\ docCount.stops < MaxDocStops
    /\ docCount' = [docCount EXCEPT !.stops = @ + 1]
    /\ docOpen' = FALSE /\ DocEnd /\ docTodo' = {}
    /\ UNCHANGED <<docFiles, docJobs, docCharged, docRisked, overtaken>>

(* reconcile_startup asks for a receipt by the artifact ID, whatever the   *)
(* input: an intent with one was answered.                                 *)
DocReady == {r \in DocRev : (DocIs(r, "prepared") \/ DocIs(r, "invoked")) /\ GoodReceipt(r)}

OpenDocuments ==
    /\ ~docOpen
    /\ docOpen' = TRUE
    /\ docIntent' = [r \in DocRev |->
          IF r \in DocReady THEN [docIntent[r] EXCEPT !.state = "invoked", !.failed = FALSE]
          ELSE docIntent[r]]
    /\ docTodo' = DocReady
    /\ UNCHANGED <<docFiles, docReceipt, docRefusal, docJob, docPast>>

(* recover: one after another, each as its receipt has it.                 *)
RecoverDocument(r) ==
    /\ docOpen /\ docJob = NoDoc /\ r \in docTodo
    /\ docTodo' = docTodo \ {r}
    /\ docJob' = [rev |-> r, hash |-> docIntent[r].hash, step |-> "attach",
                  answer |-> docReceipt[r]]
    /\ UNCHANGED <<docFiles, docJobs, docOpen, docPast>>
-----------------------------------------------------------------------------
DocSteps ==
    \/ RiskPayingTwice \/ SettleEarlier \/ ForgetRefusal \/ PrepareDocument
    \/ ReadReceipt \/ CountTry
    \/ ModelAnswers \/ ModelRefuses \/ ModelAnswerLost
    \/ WriteAnswer \/ WriteDocReceipt \/ SaveAnswered \/ SaveDocFailure \/ DocFails
    \/ AttachRevision \/ AcknowledgeDocument \/ RemoveDocReceipt

DocNext ==
    \/ \E hash \in DocHash, consent \in BOOLEAN : AskDocument(hash, consent)
    \/ DocSteps
    \/ SaveEdit
    \/ \E r \in DocRev : LockRevision(r)
    \/ StopDocuments \/ OpenDocuments
    \/ \E r \in DocRev : RecoverDocument(r)

DocSpec == DocInit /\ [][DocNext]_docVars
-----------------------------------------------------------------------------
(* Properties.                                                             *)

(* "A model whose calls are charged one by one is never asked twice for    *)
(* one answer unasked" (documents.rs): whatever stops or fails, and        *)
(* whichever models are asked, a revision is paid for once, and once more  *)
(* each time the director risked it.  "A new revision never overwrites an  *)
(* earlier one" (revisions.rs): every revision in the log has the bytes it *)
(* was recorded with, though answers, edits and recovered answers are      *)
(* written to one numbering.  An intent that says its model answered has   *)
(* that answer in the log or to be read back from its receipt, unless the  *)
(* director's edit took its number in a session that failed to attach it;  *)
(* one acknowledged has an answer in the log, never an edit.               *)
DocumentIsPaidOnceAndKept ==
    /\ \A r \in DocRev : docCharged[r] <= 1 + docRisked[r]
    /\ \A r \in DOMAIN docLog : docFile[r] = docLog[r].text
    /\ \A r \in DocRev :
          /\ DocIs(r, "invoked") =>
                GoodReceipt(r) \/ r \in DOMAIN docLog \/ r \in overtaken
          /\ DocIs(r, "reconciled") => r \in DOMAIN docLog /\ docLog[r].hash # NoDoc
=============================================================================
