----------------------------- MODULE SpokenTakes -----------------------------
(***************************************************************************)
(* Voice auditions: paid speech numbered per character                     *)
(* (crates/kineto-core/src/speech.rs and voice.rs, over the audition logs  *)
(* of crates/kineto-project/src/voice.rs).                                 *)
(*                                                                         *)
(* A character's next audition is one paid job, whose ID is the number     *)
(* after the log's last.  A request first records what interrupted ones    *)
(* left and retires the calls that came to nothing, then speaks.  Requests *)
(* for different characters run at once, but one thread has the session's  *)
(* turn, which is let go of only around a call, from before its attempt is *)
(* counted until its intent says how it ended.  The jobs are kept apart by *)
(* provider; a session has one, and a later session may have another.      *)
(*                                                                         *)
(* The process may stop between any two writes and any write may fail:     *)
(* where several writes follow each other under the turn, a step takes     *)
(* some first ones of them.  Each operation of the runtime on an intent is *)
(* one write.  An answer is a number of its own, which stands for its      *)
(* audio.  Left out are what is said, and rejecting by retention.          *)
(***************************************************************************)
EXTENDS Naturals, Sequences, FiniteSets

CONSTANTS
    Speakers,       \* speech providers
    BuiltIn,        \* those every open recovers: SPEECH_PROVIDERS
    Characters,
    Lines,          \* what an audition may be asked to say, and how
    MaxSpoken,      \* bounds the auditions of a character
    MaxClips,       \* bounds the answers
    MaxSpeechAsks,  \* bounds the requests
    MaxSpeechStops, \* bounds the process's stops
    NoSpeech

Spoken == Characters \X (1..MaxSpoken)
Clip   == 1..MaxClips

(* The input hash covers the provider.                                     *)
SpeechHash == [by: Speakers, line: Lines]

Audition      == [hash: SpeechHash, clip: Clip,
                  status: {"candidate", "selected", "rejected"}]
SpeechIntent  == [state: {"prepared", "invoked", "reconciled"}, tried: BOOLEAN,
                  failed: BOOLEAN, hash: SpeechHash]
SpeechReceipt == [hash: SpeechHash, refused: BOOLEAN, clip: Clip \cup {NoSpeech}]

SayStep == {"finish", "retire", "prepare", "receipt", "count", "call", "answered",
            "written", "save", "failed", "record", "over"}
Saying  == [hash: SpeechHash, risks: BOOLEAN, step: SayStep, number: 0..MaxSpoken,
            todo: SUBSET Spoken, clip: Clip \cup {NoSpeech}]

ASSUME SpeechAssumption ==
    /\ BuiltIn \subseteq Speakers
    /\ MaxSpoken \in Nat \ {0} /\ MaxClips \in Nat
    /\ MaxSpeechAsks \in Nat /\ MaxSpeechStops \in Nat
    /\ NoSpeech \notin Clip \cup Speakers \cup SpeechIntent \cup SpeechReceipt \cup Saying

VARIABLES
    auditions,      \* voice_auditions.json of each character
    voiceLock,      \* voice.json: which audition is locked, 0 for none
    audioFile,      \* whose audio each audition's file holds
    speechIntent,   \* .kineto/jobs
    speechReceipt,  \* .kineto/generation
    speaker,        \* the session's provider, none while closed
    saying,         \* the request under way for each character
    recovering,     \* what the worker has yet to record, as it opens
    speechCharged,  \* how often a call for an audition may have been charged
    speechRisked,   \* how often the director risked paying twice for it
    speechCount     \* what the bounds count

speechFiles == <<auditions, voiceLock, audioFile>>
speechJobs  == <<speechIntent, speechReceipt>>
speechPast  == <<speechCharged, speechRisked, speechCount>>
speechVars  == <<speechFiles, speechJobs, speaker, saying, recovering, speechPast>>

SpeechTypeOK ==
    /\ auditions \in [Characters -> Seq(Audition)]
    /\ \A c \in Characters : Len(auditions[c]) <= MaxSpoken
    /\ voiceLock \in [Characters -> 0..MaxSpoken]
    /\ audioFile \in [Spoken -> Clip \cup {NoSpeech}]
    /\ speechIntent \in [Spoken -> SpeechIntent \cup {NoSpeech}]
    /\ speechReceipt \in [Spoken -> SpeechReceipt \cup {NoSpeech}]
    /\ speaker \in Speakers \cup {NoSpeech}
    /\ saying \in [Characters -> Saying \cup {NoSpeech}]
    /\ recovering \subseteq Spoken
    /\ speechCharged \in [Spoken -> Nat] /\ speechRisked \in [Spoken -> Nat]
    /\ speechCount \in [clips: 0..MaxClips, asks: 0..MaxSpeechAsks,
                        stops: 0..MaxSpeechStops]

SpeechInit ==
    /\ auditions = [c \in Characters |-> <<>>]
    /\ voiceLock = [c \in Characters |-> 0]
    /\ audioFile = [j \in Spoken |-> NoSpeech]
    /\ speechIntent = [j \in Spoken |-> NoSpeech]
    /\ speechReceipt = [j \in Spoken |-> NoSpeech]
    /\ speaker \in Speakers
    /\ saying = [c \in Characters |-> NoSpeech] /\ recovering = {}
    /\ speechCharged = [j \in Spoken |-> 0] /\ speechRisked = [j \in Spoken |-> 0]
    /\ speechCount = [clips |-> 0, asks |-> 0, stops |-> 0]
-----------------------------------------------------------------------------
SpeechIs(j, state) == speechIntent[j] # NoSpeech /\ speechIntent[j].state = state

(* read_receipt: one for another input is none.                            *)
HasReceipt(j, hash) == speechReceipt[j] # NoSpeech /\ speechReceipt[j].hash = hash

(* completed, spoken_from: the receipt names audio, and the file holds it. *)
Completed(j, hash) ==
    /\ HasReceipt(j, hash)
    /\ speechReceipt[j].clip # NoSpeech /\ speechReceipt[j].clip = audioFile[j]

(* last_attempt                                                            *)
RefusedCall(j) ==
    /\ SpeechIs(j, "prepared") /\ speechIntent[j].tried
    /\ HasReceipt(j, speechIntent[j].hash) /\ speechReceipt[j].refused

UnresolvedCall(j) ==
    SpeechIs(j, "prepared") /\ speechIntent[j].tried /\ ~RefusedCall(j)

(* Outside the turn: from invoke_when_permitted to its return, which waits *)
(* for the turn.                                                           *)
OutsideTurn == {"count", "call", "answered", "written", "save", "failed", "record",
                "over"}

InTurn(c) == saying[c] # NoSpeech /\ saying[c].step \notin OutsideTurn

(* No other thread has the turn.                                           *)
HasTurn(c) == recovering = {} /\ \A d \in Characters \ {c} : ~InTurn(d)

SayAt(c, step) == saying[c] # NoSpeech /\ saying[c].step = step

SayGo(c, next) == saying' = [saying EXCEPT ![c].step = next]

SayEnd(c) == saying' = [saying EXCEPT ![c] = NoSpeech]

(* The number a request speaks.                                            *)
Numbered(c) == <<c, saying[c].number>>

(* A request's runtime claims its job while it lives.                      *)
SpeechClaimed(j) ==
    saying[j[1]] # NoSpeech /\ saying[j[1]].number = j[2]
-----------------------------------------------------------------------------
(* finish: what earlier calls left.                                        *)

(* reconcile_startup sees the jobs of its own provider that no live        *)
(* runtime claims.                                                         *)
SeenBy(providers) ==
    {j \in Spoken : /\ speechIntent[j] # NoSpeech
                    /\ speechIntent[j].hash.by \in providers
                    /\ speechIntent[j].state # "reconciled" /\ ~SpeechClaimed(j)}

ReadyFor(providers) ==
    {j \in SeenBy(providers) : Completed(j, speechIntent[j].hash)}

(* A prepared job whose audio is at hand was answered.                     *)
SaveReady(S) ==
    speechIntent' = [j \in Spoken |->
        IF j \in S THEN [speechIntent[j] EXCEPT !.state = "invoked", !.failed = FALSE]
        ELSE speechIntent[j]]

AuditionOf(j) == [hash |-> speechReceipt[j].hash, clip |-> audioFile[j],
                  status |-> "candidate"]

Sounds(j) == j[2] \in DOMAIN auditions[j[1]]

(* voice::attach: numbered right after the last; one recorded already must *)
(* be the same, but for what the director said of it.                      *)
Attaches(j) ==
    LET log == auditions[j[1]]
    IN  \/ /\ Sounds(j)
           /\ [log[j[2]] EXCEPT !.status = "candidate"] = AuditionOf(j)
           /\ UNCHANGED auditions
        \/ /\ j[2] = Len(log) + 1
           /\ auditions' = [auditions EXCEPT ![j[1]] = Append(@, AuditionOf(j))]

Acknowledges(j) == speechIntent' = [speechIntent EXCEPT ![j].state = "reconciled"]

Forgets(j) == speechReceipt' = [speechReceipt EXCEPT ![j] = NoSpeech]

(* Attach, acknowledge and remove the receipt: what stops or fails first   *)
(* leaves the rest undone.                                                 *)
RecordAnswer(j) ==
    \/ UNCHANGED <<auditions, speechJobs>>
    \/ /\ Completed(j, speechIntent[j].hash) /\ Attaches(j)
       /\ \/ UNCHANGED speechJobs
          \/ Acknowledges(j) /\ (Forgets(j) \/ UNCHANGED speechReceipt)

SpeechKeeps == UNCHANGED <<voiceLock, audioFile, speaker>>
-----------------------------------------------------------------------------
(* audition, SpeechJobs::open.                                             *)

AskAudition(c, line, risks) ==
    /\ speaker # NoSpeech /\ saying[c] = NoSpeech /\ HasTurn(c)
    /\ speechCount.asks < MaxSpeechAsks
    /\ speechCount' = [speechCount EXCEPT !.asks = @ + 1]
    /\ \/ /\ SaveReady(ReadyFor({speaker}))
          /\ saying' = [saying EXCEPT ![c] =
                [hash |-> [by |-> speaker, line |-> line], risks |-> risks,
                 step |-> "finish", number |-> 0, todo |-> ReadyFor({speaker}),
                 clip |-> NoSpeech]]
       \/ /\ \E S \in SUBSET ReadyFor({speaker}) : SaveReady(S)
          /\ UNCHANGED saying
    /\ SpeechKeeps /\ UNCHANGED <<auditions, speechReceipt, recovering, speechCharged,
                                  speechRisked>>

FinishAnswer(c, j) ==
    /\ SayAt(c, "finish") /\ HasTurn(c)
    /\ j \in saying[c].todo
    /\ RecordAnswer(j)
    /\ saying' = [saying EXCEPT ![c].todo = @ \ {j}]
    /\ SpeechKeeps /\ UNCHANGED <<recovering, speechPast>>

(* Refused while a call of this numbering may have been charged.           *)
MaySpeak(c) ==
    /\ SayAt(c, "finish") /\ HasTurn(c) /\ saying[c].todo = {}
    /\ LET unresolved == {j \in SeenBy({saying[c].hash.by}) :
                              j[1] = c /\ UnresolvedCall(j)}
       IN  IF unresolved # {} /\ ~saying[c].risks
           THEN SayEnd(c)
           ELSE saying' = [saying EXCEPT ![c].step = "retire",
                    ![c].todo = {j \in SeenBy({saying[c].hash.by}) : SpeechIs(j, "prepared")}]
    /\ SpeechKeeps /\ UNCHANGED <<auditions, speechJobs, recovering, speechPast>>

(* Mutant: the director's risk is taken for every character's calls.       *)
Retires_Any(c, j) == TRUE

(* A call that may have been charged is given up only in the numbering the *)
(* director accepted the risk for; one refused, only once its intent says  *)
(* that it failed.                                                         *)
Retires(c, j) ==
    /\ UnresolvedCall(j) => j[1] = c
    /\ RefusedCall(j) => speechIntent[j].failed

RetireCall(c, j) ==
    /\ SayAt(c, "retire") /\ HasTurn(c)
    /\ j \in saying[c].todo
    /\ IF Retires(c, j)
       THEN /\ speechIntent' = [speechIntent EXCEPT ![j] = NoSpeech]
            /\ Forgets(j) \/ UNCHANGED speechReceipt
            /\ speechRisked' = IF UnresolvedCall(j) /\ j[1] = c
                               THEN [speechRisked EXCEPT ![j] = @ + 1] ELSE speechRisked
       ELSE UNCHANGED <<speechJobs, speechRisked>>
    /\ saying' = [saying EXCEPT ![c].todo = @ \ {j}]
    /\ SpeechKeeps /\ UNCHANGED <<auditions, recovering, speechCharged, speechCount>>

(* A voice that said the line, and was not rejected, is not asked again.   *)
Heard(c) ==
    \E n \in DOMAIN auditions[c] : /\ auditions[c][n].hash = saying[c].hash
                                   /\ auditions[c][n].status # "rejected"

ChooseNumber(c) ==
    /\ SayAt(c, "retire") /\ HasTurn(c) /\ saying[c].todo = {}
    /\ IF Heard(c) \/ Len(auditions[c]) = MaxSpoken
       THEN SayEnd(c)
       ELSE saying' = [saying EXCEPT ![c].step = "prepare",
                                     ![c].number = Len(auditions[c]) + 1]
    /\ SpeechKeeps /\ UNCHANGED <<auditions, speechJobs, recovering, speechPast>>

(* speak: whatever holds the number already ends the request.              *)
PrepareSpeech(c) ==
    /\ SayAt(c, "prepare") /\ HasTurn(c)
    /\ LET j == Numbered(c)
       IN  IF speechIntent[j] = NoSpeech
           THEN /\ speechIntent' = [speechIntent EXCEPT ![j] =
                     [state |-> "prepared", tried |-> FALSE, failed |-> FALSE,
                      hash |-> saying[c].hash]]
                /\ SayGo(c, "receipt")
           ELSE SayEnd(c) /\ UNCHANGED speechIntent
    /\ SpeechKeeps /\ UNCHANGED <<auditions, speechReceipt, recovering, speechPast>>

NewReceipt(c) ==
    /\ SayAt(c, "receipt") /\ HasTurn(c)
    /\ speechReceipt' = [speechReceipt EXCEPT ![Numbered(c)] =
           [hash |-> saying[c].hash, refused |-> FALSE, clip |-> NoSpeech]]
    /\ SayGo(c, "count")
    /\ SpeechKeeps /\ UNCHANGED <<auditions, speechIntent, recovering, speechPast>>

(* What cannot be read or written ends the request.                        *)
SayFails(c) ==
    /\ \/ /\ \E step \in {"finish", "retire", "prepare", "receipt"} : SayAt(c, step)
          /\ HasTurn(c) /\ SayEnd(c)
       \/ (SayAt(c, "count") \/ SayAt(c, "save")) /\ SayGo(c, "over")
    /\ SpeechKeeps /\ UNCHANGED <<auditions, speechJobs, recovering, speechPast>>
-----------------------------------------------------------------------------
(* invoke_prepared and Speaker::invoke, without the turn.                  *)

CountCall(c) ==
    /\ SayAt(c, "count")
    /\ speechIntent' = [speechIntent EXCEPT ![Numbered(c)].tried = TRUE]
    /\ SayGo(c, "call")
    /\ SpeechKeeps /\ UNCHANGED <<auditions, speechReceipt, recovering, speechPast>>

MayBeCharged(c) ==
    speechCharged' = [speechCharged EXCEPT ![Numbered(c)] = @ + 1]

SpeechAnswered(c) ==
    /\ SayAt(c, "call")
    /\ speechCount.clips < MaxClips
    /\ speechCount' = [speechCount EXCEPT !.clips = @ + 1]
    /\ saying' = [saying EXCEPT ![c].step = "answered", ![c].clip = speechCount.clips + 1]
    /\ MayBeCharged(c)
    /\ SpeechKeeps /\ UNCHANGED <<auditions, speechJobs, recovering, speechRisked>>

(* Certainly not accepted; writing that down may fail.                     *)
SpeechRefused(c) ==
    /\ SayAt(c, "call")
    /\ \/ speechReceipt' = [speechReceipt EXCEPT ![Numbered(c)].refused = TRUE]
       \/ UNCHANGED speechReceipt
    /\ SayGo(c, "failed")
    /\ SpeechKeeps /\ UNCHANGED <<auditions, speechIntent, recovering, speechPast>>

SpeechLost(c) ==
    /\ SayAt(c, "call")
    /\ MayBeCharged(c)
    /\ SayGo(c, "failed")
    /\ SpeechKeeps
    /\ UNCHANGED <<auditions, speechJobs, recovering, speechRisked, speechCount>>

WriteAudio(c) ==
    /\ SayAt(c, "answered")
    /\ \/ /\ audioFile' = [audioFile EXCEPT ![Numbered(c)] = saying[c].clip]
          /\ SayGo(c, "written")
       \/ SayGo(c, "failed") /\ UNCHANGED audioFile
    /\ UNCHANGED <<auditions, voiceLock, speaker, speechJobs, recovering, speechPast>>

NoteAudio(c) ==
    /\ SayAt(c, "written")
    /\ \/ /\ speechReceipt' = [speechReceipt EXCEPT ![Numbered(c)].clip = saying[c].clip]
          /\ SayGo(c, "save")
       \/ SayGo(c, "failed") /\ UNCHANGED speechReceipt
    /\ SpeechKeeps /\ UNCHANGED <<auditions, speechIntent, recovering, speechPast>>

SaveSpoken(c) ==
    /\ SayAt(c, "save")
    /\ speechIntent' = [speechIntent EXCEPT ![Numbered(c)].state = "invoked"]
    /\ SayGo(c, "record")
    /\ SpeechKeeps /\ UNCHANGED <<auditions, speechReceipt, recovering, speechPast>>

SaveSpeechFailure(c) ==
    /\ SayAt(c, "failed")
    /\ \/ speechIntent' = [speechIntent EXCEPT ![Numbered(c)].failed = TRUE]
       \/ UNCHANGED speechIntent
    /\ SayGo(c, "over")
    /\ SpeechKeeps /\ UNCHANGED <<auditions, speechReceipt, recovering, speechPast>>

(* With the turn again.                                                    *)
RecordSpeech(c) ==
    /\ SayAt(c, "record") /\ HasTurn(c)
    /\ RecordAnswer(Numbered(c))
    /\ SayEnd(c)
    /\ SpeechKeeps /\ UNCHANGED <<recovering, speechPast>>

EndSpeech(c) ==
    /\ SayAt(c, "over") /\ HasTurn(c)
    /\ SayEnd(c)
    /\ SpeechKeeps /\ UNCHANGED <<auditions, speechJobs, recovering, speechPast>>
-----------------------------------------------------------------------------
(* The director: voice::select, reject and lock.                           *)

DirectorMay(c) == speaker # NoSpeech /\ saying[c] = NoSpeech /\ HasTurn(c)

Says(c, status) ==
    /\ auditions' = [auditions EXCEPT ![c] = status]
    /\ SpeechKeeps /\ UNCHANGED <<speechJobs, saying, recovering, speechPast>>

SelectAudition(c, n) ==
    /\ DirectorMay(c)
    /\ n \in DOMAIN auditions[c] /\ auditions[c][n].status = "candidate"
    /\ Says(c, [m \in DOMAIN auditions[c] |->
           [auditions[c][m] EXCEPT !.status =
               IF m = n THEN "selected" ELSE IF @ = "selected" THEN "candidate" ELSE @]])

RejectAudition(c, n) ==
    /\ DirectorMay(c)
    /\ n \in DOMAIN auditions[c] /\ auditions[c][n].status # "rejected"
    /\ voiceLock[c] # n
    /\ Says(c, [auditions[c] EXCEPT ![n].status = "rejected"])

LockVoice(c, n) ==
    /\ DirectorMay(c)
    /\ n \in DOMAIN auditions[c] /\ auditions[c][n].status = "selected"
    /\ audioFile[<<c, n>>] = auditions[c][n].clip
    /\ voiceLock' = [voiceLock EXCEPT ![c] = n]
    /\ UNCHANGED <<auditions, audioFile, speechJobs, speaker, saying, recovering, speechPast>>
-----------------------------------------------------------------------------
(* Stopping, and opening again with any provider.                          *)

StopSpeech ==
    /\ speaker # NoSpeech
    /\ speechCount.stops < MaxSpeechStops
    /\ speechCount' = [speechCount EXCEPT !.stops = @ + 1]
    /\ speaker' = NoSpeech
    /\ saying' = [c \in Characters |-> NoSpeech] /\ recovering' = {}
    /\ UNCHANGED <<speechFiles, speechJobs, speechCharged, speechRisked>>

(* recover_providers: each provider for itself, and one may fail.          *)
Recovers(providers) ==
    \E saved \in SUBSET ReadyFor(providers) :
        SaveReady(saved) /\ \E S \in SUBSET saved : recovering' = S

OpenSpeech(by) ==
    /\ speaker = NoSpeech
    /\ speaker' = by
    /\ Recovers(BuiltIn \cup {by})
    /\ UNCHANGED <<speechFiles, speechReceipt, saying, speechPast>>

(* note_unresolved_voices: after a request for auditions, all is recovered *)
(* again.                                                                  *)
RecoverAgain ==
    /\ speaker # NoSpeech /\ recovering = {}
    /\ \A c \in Characters : ~InTurn(c)
    /\ ReadyFor(BuiltIn \cup {speaker}) # {}
    /\ Recovers(BuiltIn \cup {speaker})
    /\ UNCHANGED <<speechFiles, speechReceipt, speaker, saying, speechPast>>

RecoverAnswer(j) ==
    /\ j \in recovering
    /\ recovering' = recovering \ {j}
    /\ RecordAnswer(j)
    /\ SpeechKeeps /\ UNCHANGED <<saying, speechPast>>
-----------------------------------------------------------------------------
SpeechOf(c) ==
    \/ \E line \in Lines, risks \in BOOLEAN : AskAudition(c, line, risks)
    \/ \E j \in Spoken : FinishAnswer(c, j) \/ RetireCall(c, j)
    \/ MaySpeak(c) \/ ChooseNumber(c) \/ PrepareSpeech(c) \/ NewReceipt(c) \/ SayFails(c)
    \/ CountCall(c) \/ SpeechAnswered(c) \/ SpeechRefused(c) \/ SpeechLost(c)
    \/ WriteAudio(c) \/ NoteAudio(c) \/ SaveSpoken(c) \/ SaveSpeechFailure(c)
    \/ RecordSpeech(c) \/ EndSpeech(c)
    \/ \E n \in 1..MaxSpoken :
          SelectAudition(c, n) \/ RejectAudition(c, n) \/ LockVoice(c, n)

SpeechNext ==
    \/ \E c \in Characters : SpeechOf(c)
    \/ StopSpeech \/ RecoverAgain
    \/ \E by \in Speakers : OpenSpeech(by)
    \/ \E j \in Spoken : RecoverAnswer(j)

SpeechSpec == SpeechInit /\ [][SpeechNext]_speechVars
-----------------------------------------------------------------------------
(* Properties.                                                             *)

(* Speech is "an explicit, chosen spend" (speech.rs): whatever stops or    *)
(* fails, and whichever provider a session has, an audition is paid for    *)
(* once, and once more each time the director risked it for that character *)
(* ("An unresolved call outside `numbering` is left as it is: no risk was  *)
(* accepted for it").  What was paid for is kept: every audition in a log  *)
(* sounds as it was recorded, though a number may have been called for     *)
(* more than once; a locked voice is one of them and not rejected; and an  *)
(* intent that says it was answered has its audio in the log or at hand to *)
(* be recorded.                                                            *)
SpeechIsPaidOnceAndKept ==
    /\ \A j \in Spoken : speechCharged[j] <= 1 + speechRisked[j]
    /\ \A j \in Spoken : Sounds(j) => audioFile[j] = auditions[j[1]][j[2]].clip
    /\ \A c \in Characters : voiceLock[c] # 0 =>
          /\ voiceLock[c] \in DOMAIN auditions[c]
          /\ auditions[c][voiceLock[c]].status # "rejected"
    /\ \A j \in Spoken :
          /\ SpeechIs(j, "invoked") => Sounds(j) \/ Completed(j, speechIntent[j].hash)
          /\ SpeechIs(j, "reconciled") => Sounds(j)

(* A failed call is given up "whichever provider made it; a director who   *)
(* chose another provider after a failure asks again with it"              *)
(* (job-runtime, of retire_failed), and opening for speech retires "intents *)
(* never called or certainly refused" (speech.rs): no failed call holds    *)
(* the number a request is about to take.                                  *)
AnotherProviderMaySpeak ==
    \A c \in Characters :
        SayAt(c, "prepare") =>
            ~(SpeechIs(Numbered(c), "prepared") /\ speechIntent[Numbered(c)].failed)
=============================================================================
