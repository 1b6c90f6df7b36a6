------------------------------ MODULE PaidImages ------------------------------
(***************************************************************************)
(* A character's casting images: paid calls of an image generator, several *)
(* at once (crates/kineto-core/src/paid_image.rs and cast.rs, with the     *)
(* generators minimax.rs and plugin.rs, over the casting log of            *)
(* crates/kineto-project/src/cast.rs).                                     *)
(*                                                                         *)
(* An audition first finishes what earlier ones left with the session's    *)
(* generator, then numbers the portraits that are missing after the log's  *)
(* last, prepares them all, calls for all at once and records what came,   *)
(* in order.  Every audition ends, and every session begins, with finishing*)
(* what is left.  MiniMax's answer is known from its receipt alone; a      *)
(* plugin is asked again for an answer that was lost.                      *)
(*                                                                         *)
(* Requests for one character run one after the other, so nothing comes    *)
(* between an audition's steps but its own calls and the process stopping. *)
(* A call touches its own number's files alone, so the writes before it    *)
(* are one step here and those after its answer another, of which the last *)
(* ones may be missing.  Any write may fail.  A picture is a number of its *)
(* own, and all are of one format.  The character's bible entry and the    *)
(* locked style stay as they are.  Selecting and locking a portrait are in *)
(* MediaCollection; another character's images are numbered apart.         *)
(***************************************************************************)
EXTENDS Naturals, Sequences, FiniteSets

CONSTANTS
    Generators,     \* image generators
    MiniMax,        \* MiniMax, whose images every session recovers
    Looks,          \* how many looks there are to cast
    MaxImages,      \* bounds the images
    MaxPictures,    \* bounds the answers
    MaxImageTries,  \* the backoff policy's max_attempts
    MaxImageAsks,   \* bounds the auditions
    MaxImageEdits,  \* bounds the imports and rejections
    MaxImageFaults, \* bounds the stops, and the writes and questions that fail
    NoImage

Image   == 1..MaxImages
Picture == 1..MaxPictures

(* What the input hash tells apart here.                                   *)
ImageHash == [by: Generators, look: 1..Looks]

CastImage    == [hash: ImageHash \cup {NoImage}, picture: Picture, rejected: BOOLEAN]
ImageIntent  == [state: {"prepared", "invoked", "reconciled"}, attempts: 0..MaxImageTries,
                 terminal: BOOLEAN, hash: ImageHash]
ImageReceipt == [hash: ImageHash, picture: Picture]

ImageCall == [hash: ImageHash, step: {"waits", "sent", "save", "done", "error"}]

DrawStep == {"look", "finish", "retire", "prepare", "calls", "attach"}
Drawing  == [for: {"recovery", "audition"}, by: Generators, step: DrawStep,
             todo: SUBSET Image, waiting: SUBSET Image, count: Nat, risks: BOOLEAN]

(* What was charged and risked of each number, see ImagesInit.             *)
ImagePast == [charged: [Image -> Nat], risked: [Image -> Nat],
              unheard: SUBSET Image, overtaken: SUBSET Image,
              pictures: 0..MaxPictures, asks: 0..MaxImageAsks, edits: 0..MaxImageEdits]

ASSUME ImageAssumption ==
    /\ MiniMax \in Generators
    /\ Looks \in Nat \ {0} /\ MaxImageTries \in Nat \ {0}
    /\ MaxImages \in Nat /\ MaxPictures \in Nat
    /\ MaxImageAsks \in Nat /\ MaxImageEdits \in Nat /\ MaxImageFaults \in Nat
    /\ NoImage \notin Generators \cup Picture \cup ImageHash \cup ImageIntent
                      \cup ImageReceipt \cup ImageCall \cup Drawing

VARIABLES
    castLog,       \* casting.json: the images recorded, by number
    imageFile,     \* whose picture each image's file holds
    imageIntent,   \* .kineto/jobs
    imagePlan,     \* <id>.cast.json: the input an image was planned with
    imageReceipt,  \* <id>.json
    sentCall,      \* <id>.sent.json: the call a plugin was sent
    refusedCall,   \* <id>.refused.json: the call that certainly was not taken
    generator,     \* the session's generator, none while closed
    drawing,       \* the audition or recovery under way
    imageCall,     \* its calls
    imageFaults,   \* how many faults there were
    imagePast      \* charges, risks, what the bounds count; see ImagesInit

imageFiles == <<castLog, imageFile>>
imageJobs  == <<imageIntent, imagePlan, imageReceipt, sentCall, refusedCall>>
imageVars  == <<imageFiles, imageJobs, generator, drawing, imageCall,
               imageFaults, imagePast>>

ImagesTypeOK ==
    /\ DOMAIN castLog \subseteq Image /\ \A n \in DOMAIN castLog : castLog[n] \in CastImage
    /\ imageFile \in [Image -> Picture \cup {NoImage}]
    /\ imageIntent \in [Image -> ImageIntent \cup {NoImage}]
    /\ imagePlan \in [Image -> ImageHash \cup {NoImage}]
    /\ imageReceipt \in [Image -> ImageReceipt \cup {NoImage}]
    /\ sentCall \in [Image -> ImageHash \cup {NoImage}]
    /\ refusedCall \in [Image -> ImageHash \cup {NoImage}]
    /\ generator \in Generators \cup {NoImage}
    /\ drawing \in Drawing \cup {NoImage}
    /\ imageCall \in [Image -> ImageCall \cup {NoImage}]
    /\ imageFaults \in 0..MaxImageFaults
    /\ imagePast \in ImagePast

(* Of each number: calls that may have been charged, risks of paying twice *)
(* the director took; numbers whose plugin could not be asked about a call *)
(* that was sent, and numbers taken by an import from a call under them.   *)
ImagesInit ==
    /\ castLog = <<>>
    /\ imageFile = [n \in Image |-> NoImage]
    /\ imageIntent = [n \in Image |-> NoImage] /\ imagePlan = [n \in Image |-> NoImage]
    /\ imageReceipt = [n \in Image |-> NoImage]
    /\ sentCall = [n \in Image |-> NoImage] /\ refusedCall = [n \in Image |-> NoImage]
    /\ generator \in Generators
    /\ drawing = NoImage /\ imageCall = [n \in Image |-> NoImage]
    /\ imageFaults = 0
    /\ imagePast = [charged |-> [n \in Image |-> 0], risked |-> [n \in Image |-> 0],
                    unheard |-> {}, overtaken |-> {},
                    pictures |-> 0, asks |-> 0, edits |-> 0]
-----------------------------------------------------------------------------
ImageIs(n, state) == imageIntent[n] # NoImage /\ imageIntent[n].state = state

(* candidate_from_receipt: the receipt is for this input, and the file is  *)
(* what it names.                                                          *)
Answered(n, hash) ==
    /\ imageReceipt[n] # NoImage /\ imageReceipt[n].hash = hash
    /\ imageReceipt[n].picture = imageFile[n]

(* A receipt that does not prove a picture is an error, never "no answer". *)
BadReceipt(n, hash) == imageReceipt[n] # NoImage /\ ~Answered(n, hash)

LastImage == IF DOMAIN castLog = {} THEN 0
             ELSE CHOOSE n \in DOMAIN castLog : \A o \in DOMAIN castLog : o <= n

DrawAt(step) == drawing # NoImage /\ drawing.step = step

DrawGo(step) == drawing' = [drawing EXCEPT !.step = step]

Past(field, value) == imagePast' = [imagePast EXCEPT ![field] = value]

ChargedOnce(n) == [imagePast.charged EXCEPT ![n] = @ + 1]

DrawKeeps == UNCHANGED <<generator, imageFaults>>

(* A write fails, or a question to a plugin.                               *)
DrawFails ==
    /\ imageFaults < MaxImageFaults /\ imageFaults' = imageFaults + 1
    /\ UNCHANGED generator

(* reconcile_startup takes every unfinished job of the generator's         *)
(* partition, by number.                                                   *)
Unfinished(by) ==
    {n \in Image : /\ imageIntent[n] # NoImage /\ imageIntent[n].hash.by = by
                   /\ imageIntent[n].state # "reconciled"}

LookThrough(for, by, count, risks) ==
    [for |-> for, by |-> by, step |-> "look", todo |-> Unfinished(by), waiting |-> {},
     count |-> count, risks |-> risks]

Recovery(by) == LookThrough("recovery", by, 0, FALSE)

(* recover_for: MiniMax's jobs, where there are any, and then a plugin's.  *)
RecoverPlugin(by) ==
    IF by # MiniMax /\ Unfinished(by) # {} THEN Recovery(by) ELSE NoImage

Recover(by) ==
    IF Unfinished(MiniMax) # {} THEN Recovery(MiniMax) ELSE RecoverPlugin(by)

(* An audition however it ended is followed by a recovery                  *)
(* (note_unresolved_casting); one that fails is the last of its own.       *)
EndDrawing ==
    drawing' = IF drawing.for = "audition" THEN Recover(generator) ELSE NoImage

EndRecovery ==
    drawing' = IF drawing.by = generator THEN NoImage ELSE RecoverPlugin(generator)
-----------------------------------------------------------------------------
(* finish: reconcile_startup, then what it found.                          *)

LooksAt(n) ==
    /\ DrawAt("look") /\ n \in drawing.todo /\ \A o \in drawing.todo : n <= o

Looked(n, waits) ==
    drawing' = [drawing EXCEPT !.todo = @ \ {n},
                               !.waiting = IF waits THEN @ \cup {n} ELSE @]

(* A job whose answer is at hand was invoked; finish records it.           *)
FoundAnswer(n) ==
    imageIntent' = [imageIntent EXCEPT ![n].state = "invoked", ![n].terminal = FALSE]

(* The save fails, and all that was to follow with it.                     *)
FoundAnswerFails(n) == UNCHANGED imageIntent /\ EndDrawing

KeptAnswer(n) ==
    /\ LooksAt(n) /\ Answered(n, imageIntent[n].hash)
    /\ \/ FoundAnswer(n) /\ Looked(n, FALSE) /\ DrawKeeps
       \/ ImageIs(n, "prepared") /\ FoundAnswerFails(n) /\ DrawFails
    /\ UNCHANGED <<imageFiles, imagePlan, imageReceipt, sentCall, refusedCall, imageCall,
                   imagePast>>

UnreadableAnswer(n) ==
    /\ LooksAt(n) /\ BadReceipt(n, imageIntent[n].hash) /\ Looked(n, FALSE)
    /\ DrawKeeps /\ UNCHANGED <<imageFiles, imageJobs, imageCall, imagePast>>

(* PluginImages::reconcile_by_idempotency_key: a call that was sent and    *)
(* not refused.                                                            *)
MayBeAsked(n) ==
    /\ imageIntent[n].hash.by # MiniMax /\ imageReceipt[n] = NoImage
    /\ refusedCall[n] # imageIntent[n].hash /\ sentCall[n] = imageIntent[n].hash

(* Jobs that wait: prepared ones nothing is known of.                      *)
NoAnswer(n) ==
    /\ LooksAt(n) /\ imageReceipt[n] = NoImage
    /\ Looked(n, ImageIs(n, "prepared"))
    /\ MayBeAsked(n) /\ imagePast.charged[n] = 0 =>
          refusedCall' \in {refusedCall, [refusedCall EXCEPT ![n] = imageIntent[n].hash]}
    /\ ~(MayBeAsked(n) /\ imagePast.charged[n] = 0) => UNCHANGED refusedCall
    /\ DrawKeeps
    /\ UNCHANGED <<imageFiles, imageIntent, imagePlan, imageReceipt, sentCall, imageCall,
                   imagePast>>

(* The plugin cannot be asked, or its answer cannot be kept: the job needs *)
(* a person's attention and is not among those that wait.                  *)
PluginUnheard(n) ==
    /\ LooksAt(n) /\ MayBeAsked(n) /\ Looked(n, FALSE)
    /\ Past("unheard", imagePast.unheard \cup {n})
    /\ DrawFails /\ UNCHANGED <<imageFiles, imageJobs, imageCall>>

(* The plugin kept its answer: keep, write by write.                       *)
PluginAnswers(n) ==
    /\ LooksAt(n) /\ MayBeAsked(n) /\ imagePast.charged[n] > 0
    /\ imagePast.pictures < MaxPictures
    /\ LET picture == imagePast.pictures + 1
           unheard == [imagePast EXCEPT !.pictures = picture, !.unheard = @ \cup {n}]
       IN  /\ imageFile' = [imageFile EXCEPT ![n] = picture]
           /\ \/ /\ imageReceipt' = [imageReceipt EXCEPT ![n] =
                        [hash |-> imageIntent[n].hash, picture |-> picture]]
                 /\ \/ FoundAnswer(n) /\ Looked(n, FALSE) /\ DrawKeeps
                    \/ ImageIs(n, "prepared") /\ FoundAnswerFails(n) /\ DrawFails
                 /\ Past("pictures", picture)
              \/ UNCHANGED <<imageReceipt, imageIntent>> /\ Looked(n, FALSE)
                 /\ imagePast' = unheard /\ DrawFails
    /\ UNCHANGED <<castLog, imagePlan, sentCall, refusedCall, imageCall>>

LookedThrough ==
    /\ DrawAt("look") /\ drawing.todo = {}
    /\ drawing' = [drawing EXCEPT !.step = "finish", !.todo =
           {n \in Unfinished(drawing.by) : ImageIs(n, "invoked") /\ Answered(n, imageIntent[n].hash)}]
    /\ DrawKeeps /\ UNCHANGED <<imageFiles, imageJobs, imageCall, imagePast>>

ImageOf(n) == [hash |-> imageReceipt[n].hash, picture |-> imageReceipt[n].picture,
               rejected |-> FALSE]

(* image_of and attach: the answer is to the plan's input; numbered after  *)
(* the last, its file what it says, unless it is recorded already just so. *)
MayAttach(n, planned) ==
    /\ planned = imageReceipt[n].hash
    /\ \/ n \in DOMAIN castLog /\ [castLog[n] EXCEPT !.rejected = FALSE] = ImageOf(n)
       \/ n > LastImage /\ imageFile[n] = imageReceipt[n].picture

LogWith(n, image) ==
    [m \in DOMAIN castLog \cup {n} |-> IF m \in DOMAIN castLog THEN castLog[m] ELSE image]

WithImage(n) == LogWith(n, ImageOf(n))

(* Only a plugin's release knows of a call that was sent.                  *)
Unsent(n) ==
    IF drawing.by = MiniMax THEN sentCall ELSE [sentCall EXCEPT ![n] = NoImage]

(* release and remove_plan.                                                *)
Released(n) ==
    /\ imageReceipt' = [imageReceipt EXCEPT ![n] = NoImage]
    /\ sentCall' = Unsent(n)
    /\ refusedCall' = [refusedCall EXCEPT ![n] = NoImage]
    /\ imagePlan' = [imagePlan EXCEPT ![n] = NoImage]
    /\ DrawKeeps

(* Any of the files may stay.                                              *)
ReleasedSome(n) ==
    /\ imageReceipt' \in {imageReceipt, [imageReceipt EXCEPT ![n] = NoImage]}
    /\ sentCall' \in {sentCall, Unsent(n)}
    /\ refusedCall' \in {refusedCall, [refusedCall EXCEPT ![n] = NoImage]}
    /\ imagePlan' \in {imagePlan, [imagePlan EXCEPT ![n] = NoImage]}
    /\ DrawFails

(* Attach, acknowledge and release: what fails first leaves the rest.      *)
(* What stays of a number that is recorded is not read again, so all of it *)
(* stays here, or none.                                                    *)
RecordImage(n, planned) ==
    \/ ~MayAttach(n, planned) /\ UNCHANGED <<castLog, imageJobs>> /\ DrawKeeps
    \/ MayAttach(n, planned) /\ UNCHANGED <<castLog, imageJobs>> /\ DrawFails
    \/ /\ MayAttach(n, planned) /\ castLog' = WithImage(n)
       /\ \/ UNCHANGED imageJobs /\ DrawFails
          \/ /\ imageIntent' = [imageIntent EXCEPT ![n].state = "reconciled"]
             /\ \/ Released(n)
                \/ DrawFails /\ UNCHANGED <<imageReceipt, sentCall, refusedCall, imagePlan>>

FinishImage(n) ==
    /\ DrawAt("finish") /\ n \in drawing.todo /\ \A o \in drawing.todo : n <= o
    /\ RecordImage(n, imagePlan[n])
    /\ drawing' = [drawing EXCEPT !.todo = @ \ {n}]
    /\ UNCHANGED <<imageFile, imageCall, imagePast>>

(* may_call_again                                                          *)
Unresolved ==
    {n \in drawing.waiting : /\ imageIntent[n].attempts > 0
                             /\ ~Answered(n, imageIntent[n].hash)
                             /\ refusedCall[n] # imageIntent[n].hash}

Finished ==
    /\ DrawAt("finish") /\ drawing.todo = {} /\ drawing.for = "recovery" /\ EndRecovery
    /\ DrawKeeps /\ UNCHANGED <<imageFiles, imageJobs, imageCall, imagePast>>
-----------------------------------------------------------------------------
(* audition, Jobs::open.                                                   *)

AskImages(count, risks) ==
    /\ generator # NoImage /\ drawing = NoImage /\ imagePast.asks < MaxImageAsks
    /\ drawing' = LookThrough("audition", generator, count, risks)
    /\ Past("asks", imagePast.asks + 1)
    /\ DrawKeeps /\ UNCHANGED <<imageFiles, imageJobs, imageCall>>

(* Mutant: an unresolved image does not keep the next from being asked.    *)
Refused_Never == FALSE

Refused == ~drawing.risks /\ Unresolved # {}

OpenRefused ==
    /\ DrawAt("finish") /\ drawing.todo = {} /\ drawing.for = "audition" /\ Refused
    /\ EndDrawing
    /\ DrawKeeps /\ UNCHANGED <<imageFiles, imageJobs, imageCall, imagePast>>

OpenRetires ==
    /\ DrawAt("finish") /\ drawing.todo = {} /\ drawing.for = "audition" /\ ~Refused
    /\ DrawGo("retire")
    /\ DrawKeeps /\ UNCHANGED <<imageFiles, imageJobs, imageCall, imagePast>>

(* retire_unattempted or retire_unresolved, then release.                  *)
RetireImage(n) ==
    /\ DrawAt("retire") /\ n \in drawing.waiting /\ \A o \in drawing.waiting : n <= o
    /\ \/ /\ imageIntent' = [imageIntent EXCEPT ![n] = NoImage]
          /\ Released(n) \/ ReleasedSome(n)
          /\ drawing' = [drawing EXCEPT !.waiting = @ \ {n}]
          /\ IF drawing.risks /\ n \in Unresolved
             THEN Past("risked", [imagePast.risked EXCEPT ![n] = @ + 1])
             ELSE UNCHANGED imagePast
       \/ EndDrawing /\ UNCHANGED <<imageJobs, imagePast>> /\ DrawFails
    /\ UNCHANGED <<imageFiles, imageCall>>

(* The portraits that count, whoever made them.                            *)
Counting == {n \in DOMAIN castLog : ~castLog[n].rejected}

Drawn(images) == {n \in images : castLog[n].hash # NoImage}

(* The next look: one that no portrait that counts has while there is one, *)
(* of these the least used, of these the first.                            *)
NextLook(chosen) ==
    LET kept == {castLog[n].hash.look : n \in Drawn(Counting)} \cup {chosen[i] : i \in DOMAIN chosen}
        uses(l) == Cardinality({n \in Drawn(DOMAIN castLog) : castLog[n].hash.look = l})
                   + Cardinality({i \in DOMAIN chosen : chosen[i] = l})
        Before(l, o) == \/ l \notin kept /\ o \in kept
                        \/ (l \in kept <=> o \in kept) /\ uses(l) < uses(o)
                        \/ (l \in kept <=> o \in kept) /\ uses(l) = uses(o) /\ l <= o
    IN  CHOOSE l \in 1..Looks : \A o \in 1..Looks : Before(l, o)

(* next_artifact_ids: after the last recorded.                             *)
NumberImages ==
    /\ DrawAt("retire") /\ drawing.waiting = {}
    /\ LET have  == Cardinality(Counting)
           new   == IF drawing.count > have THEN drawing.count - have ELSE 0
           batch == LastImage + 1..LastImage + new
       IN  /\ batch \subseteq Image
           /\ \E looks \in [1..new -> 1..Looks] :
                /\ \A i \in 1..new : looks[i] = NextLook(SubSeq(looks, 1, i - 1))
                /\ imageCall' = [n \in Image |->
                     IF n \in batch
                     THEN [hash |-> [by |-> drawing.by, look |-> looks[n - LastImage]],
                           step |-> "waits"]
                     ELSE NoImage]
           /\ drawing' = [drawing EXCEPT !.step = "prepare", !.todo = batch]
    /\ DrawKeeps /\ UNCHANGED <<imageFiles, imageJobs, imagePast>>
-----------------------------------------------------------------------------
(* generate_all: prepare every image, then call for all.                   *)

(* The plan is written first.  A job of the same input is taken as it is;  *)
(* of another input, or another generator, it stands in the way.           *)
PrepareImage(n) ==
    /\ DrawAt("prepare") /\ n \in drawing.todo /\ \A o \in drawing.todo : n <= o
    /\ LET hash == imageCall[n].hash
       IN  \/ /\ imagePlan' = [imagePlan EXCEPT ![n] = hash]
              /\ \/ /\ imageIntent[n] = NoImage
                    /\ imageIntent' = [imageIntent EXCEPT ![n] =
                          [state |-> "prepared", attempts |-> 0, terminal |-> FALSE,
                           hash |-> hash]]
                 \/ /\ imageIntent[n] # NoImage /\ imageIntent[n].hash = hash
                    /\ UNCHANGED imageIntent
              /\ drawing' = [drawing EXCEPT !.todo = @ \ {n}]
              /\ UNCHANGED imageCall /\ DrawKeeps
           \/ /\ \/ UNCHANGED imagePlan /\ DrawFails
                 \/ /\ imagePlan' = [imagePlan EXCEPT ![n] = hash]
                    /\ IF imageIntent[n] = NoImage THEN DrawFails
                       ELSE imageIntent[n].hash # hash /\ DrawKeeps
              /\ EndDrawing /\ imageCall' = [o \in Image |-> NoImage]
              /\ UNCHANGED imageIntent
    /\ UNCHANGED <<imageFiles, imageReceipt, sentCall, refusedCall, imagePast>>

PreparedAll ==
    /\ DrawAt("prepare") /\ drawing.todo = {} /\ DrawGo("calls")
    /\ DrawKeeps /\ UNCHANGED <<imageFiles, imageJobs, imageCall, imagePast>>

ImageAt(n, step) == DrawAt("calls") /\ imageCall[n] # NoImage /\ imageCall[n].step = step

ImageGoes(n, step) == imageCall' = [imageCall EXCEPT ![n].step = step]

(* An attempt is counted before the call, and its failure saved after it.  *)
Counted(n, terminal) ==
    imageIntent' = [imageIntent EXCEPT ![n].attempts = @ + 1, ![n].terminal = terminal]

CallEnds(n, terminal) ==
    /\ ImageGoes(n, "error")
    /\ imageIntent' = [imageIntent EXCEPT ![n].terminal = terminal]

CallKeeps == DrawKeeps /\ UNCHANGED <<castLog, imagePlan, drawing>>

CallFaults == DrawFails /\ UNCHANGED <<castLog, imagePlan, drawing>>

(* invoke_prepared: prepared, not ended for good, attempts left.           *)
MayCall(n) ==
    /\ ImageIs(n, "prepared") /\ ~imageIntent[n].terminal
    /\ imageIntent[n].attempts < MaxImageTries

(* It may not be called; or no permit comes free, or the count is not      *)
(* written.                                                                *)
NotCalled(n) ==
    /\ ImageAt(n, "waits") /\ ImageGoes(n, "error")
    /\ IF MayCall(n) THEN CallFaults ELSE CallKeeps
    /\ UNCHANGED <<imageFile, imageIntent, imageReceipt, sentCall, refusedCall, imagePast>>

(* The generator's invoke: an answer at hand is taken, a receipt that does *)
(* not prove one ends the job; else the proof of an earlier refusal is     *)
(* removed, and a plugin's call written down before it is sent.            *)
BeginCall(n) ==
    LET hash == imageCall[n].hash
    IN  /\ ImageAt(n, "waits") /\ MayCall(n)
        /\ \/ /\ Answered(n, hash) /\ ImageGoes(n, "save") /\ Counted(n, FALSE)
              /\ UNCHANGED <<refusedCall, sentCall>> /\ CallKeeps
           \/ /\ BadReceipt(n, hash) /\ ImageGoes(n, "error") /\ Counted(n, TRUE)
              /\ UNCHANGED <<refusedCall, sentCall>> /\ CallKeeps
           \/ /\ imageReceipt[n] = NoImage
              /\ refusedCall' = [refusedCall EXCEPT ![n] = NoImage]
              /\ sentCall' = IF hash.by = MiniMax THEN sentCall
                             ELSE [sentCall EXCEPT ![n] = hash]
              /\ ImageGoes(n, "sent") /\ Counted(n, FALSE) /\ CallKeeps
           \/ /\ imageReceipt[n] = NoImage
              /\ refusedCall' \in {refusedCall, [refusedCall EXCEPT ![n] = NoImage]}
              /\ UNCHANGED sentCall /\ ImageGoes(n, "error") /\ Counted(n, FALSE) /\ CallFaults
        /\ UNCHANGED <<imageFile, imageReceipt, imagePast>>

(* The picture is written, then the receipt.                               *)
CallAnswered(n) ==
    LET picture == imagePast.pictures + 1
    IN  /\ ImageAt(n, "sent") /\ picture \in Picture
        /\ \/ /\ imageFile' = [imageFile EXCEPT ![n] = picture]
              /\ imageReceipt' = [imageReceipt EXCEPT ![n] =
                    [hash |-> imageCall[n].hash, picture |-> picture]]
              /\ ImageGoes(n, "save") /\ UNCHANGED imageIntent /\ CallKeeps
           \/ /\ imageFile' \in {imageFile, [imageFile EXCEPT ![n] = picture]}
              /\ UNCHANGED imageReceipt /\ CallEnds(n, FALSE) /\ CallFaults
        /\ imagePast' = [imagePast EXCEPT !.charged = ChargedOnce(n), !.pictures = picture]
        /\ UNCHANGED <<sentCall, refusedCall>>

(* The class of a failure.  MiniMax's is not told apart: a job it failed   *)
(* is retired before its number is called again.                           *)
Class(n) == IF imageCall[n].hash.by = MiniMax THEN {FALSE} ELSE BOOLEAN

(* Certainly not accepted; the proof of it may not be written.             *)
CallRefused(n) ==
    /\ ImageAt(n, "sent") /\ \E terminal \in Class(n) : CallEnds(n, terminal)
    /\ \/ refusedCall' = [refusedCall EXCEPT ![n] = imageCall[n].hash] /\ CallKeeps
       \/ UNCHANGED refusedCall /\ CallFaults
    /\ UNCHANGED <<imageFile, imageReceipt, sentCall, imagePast>>

(* No answer, or none that can be used; charged, unless a plugin can later *)
(* say it was not.                                                         *)
CallLost(n) ==
    /\ ImageAt(n, "sent") /\ \E terminal \in Class(n) : CallEnds(n, terminal)
    /\ \/ imagePast' = [imagePast EXCEPT !.charged = ChargedOnce(n)]
       \/ imageCall[n].hash.by # MiniMax /\ UNCHANGED imagePast
    /\ CallKeeps /\ UNCHANGED <<imageFile, imageReceipt, sentCall, refusedCall>>

SaveInvokedImage(n) ==
    /\ ImageAt(n, "save")
    /\ \/ /\ imageIntent' = [imageIntent EXCEPT ![n].state = "invoked"]
          /\ ImageGoes(n, "done") /\ CallKeeps
       \/ UNCHANGED imageIntent /\ ImageGoes(n, "error") /\ CallFaults
    /\ UNCHANGED <<imageFile, imageReceipt, sentCall, refusedCall, imagePast>>

(* All threads are joined.                                                 *)
CallsEnd ==
    /\ DrawAt("calls")
    /\ \A n \in Image : imageCall[n] # NoImage => imageCall[n].step \in {"done", "error"}
    /\ drawing' = [drawing EXCEPT !.step = "attach", !.todo =
                      {n \in Image : imageCall[n] # NoImage /\ imageCall[n].step = "done"}]
    /\ imageCall' = [n \in Image |-> NoImage]
    /\ DrawKeeps /\ UNCHANGED <<imageFiles, imageJobs, imagePast>>

AttachImage(n) ==
    /\ DrawAt("attach") /\ n \in drawing.todo /\ \A o \in drawing.todo : n <= o
    /\ RecordImage(n, imageReceipt[n].hash)
    /\ drawing' = [drawing EXCEPT !.todo = @ \ {n}]
    /\ UNCHANGED <<imageFile, imageCall, imagePast>>

EndAudition ==
    /\ DrawAt("attach") /\ drawing.todo = {} /\ EndDrawing
    /\ DrawKeeps /\ UNCHANGED <<imageFiles, imageJobs, imageCall, imagePast>>
-----------------------------------------------------------------------------
(* The director, and the process.                                          *)

(* import_portrait: written under the next number, then recorded.          *)
ImportPortrait ==
    /\ generator # NoImage /\ drawing = NoImage
    /\ imagePast.edits < MaxImageEdits /\ imagePast.pictures < MaxPictures
    /\ LET n == LastImage + 1
           picture == imagePast.pictures + 1
       IN  /\ n \in Image
           /\ imageFile' = [imageFile EXCEPT ![n] = picture]
           /\ \/ UNCHANGED castLog /\ DrawFails
              \/ /\ castLog' = LogWith(n, [hash |-> NoImage, picture |-> picture,
                                         rejected |-> FALSE])
                 /\ DrawKeeps
           /\ imagePast' = [imagePast EXCEPT
                  !.pictures = picture, !.edits = @ + 1,
                  !.overtaken = IF imageIntent[n] # NoImage THEN @ \cup {n} ELSE @]
    /\ UNCHANGED <<imageJobs, drawing, imageCall>>

RejectPortrait(n) ==
    /\ generator # NoImage /\ drawing = NoImage /\ n \in Counting
    /\ castLog' = [castLog EXCEPT ![n].rejected = TRUE]
    /\ imagePast.edits < MaxImageEdits /\ Past("edits", imagePast.edits + 1)
    /\ DrawKeeps /\ UNCHANGED <<imageFile, imageJobs, drawing, imageCall>>

StopImages ==
    /\ generator # NoImage
    /\ imageFaults < MaxImageFaults /\ imageFaults' = imageFaults + 1
    /\ generator' = NoImage /\ drawing' = NoImage
    /\ imageCall' = [n \in Image |-> NoImage]
    /\ UNCHANGED <<imageFiles, imageJobs, imagePast>>

OpenImages(by) ==
    /\ generator = NoImage /\ generator' = by /\ drawing' = Recover(by)
    /\ UNCHANGED <<imageFiles, imageJobs, imageCall, imageFaults, imagePast>>

ImagesNext ==
    \/ \E n \in Image :
          \/ KeptAnswer(n) \/ UnreadableAnswer(n) \/ NoAnswer(n)
          \/ PluginUnheard(n) \/ PluginAnswers(n) \/ FinishImage(n)
          \/ RetireImage(n) \/ PrepareImage(n)
          \/ NotCalled(n) \/ BeginCall(n)
          \/ CallAnswered(n) \/ CallRefused(n) \/ CallLost(n)
          \/ SaveInvokedImage(n) \/ AttachImage(n)
          \/ RejectPortrait(n)
    \/ LookedThrough \/ Finished \/ OpenRefused \/ OpenRetires
    \/ NumberImages \/ PreparedAll \/ CallsEnd \/ EndAudition
    \/ \E count \in 1..2, risks \in BOOLEAN : AskImages(count, risks)
    \/ ImportPortrait \/ StopImages
    \/ \E by \in Generators : OpenImages(by)

ImagesSpec == ImagesInit /\ [][ImagesNext]_imageVars
-----------------------------------------------------------------------------
(* Properties.                                                             *)

(* "An image whose call may have been accepted without its result being    *)
(* kept is never paid for again unasked" (paid_image.rs): a number is paid *)
(* for once, and once more each time the director risked it, unless a      *)
(* plugin could not be asked about it (ImagesPaidOnce leaves that out).    *)
(* What a job says was answered is recorded or at hand, and what it says   *)
(* was recorded is; every image recorded keeps its picture.  An import     *)
(* under the number of a call that is not settled is the exception.        *)
ImagesArePaidOnceAndKept ==
    /\ \A n \in Image \ imagePast.unheard :
          imagePast.charged[n] <= 1 + imagePast.risked[n]
    /\ \A n \in Image \ imagePast.overtaken :
          /\ ImageIs(n, "invoked") => n \in DOMAIN castLog \/ Answered(n, imageIntent[n].hash)
          /\ ImageIs(n, "reconciled") =>
                n \in DOMAIN castLog /\ castLog[n].hash = imageIntent[n].hash
          /\ n \in DOMAIN castLog => imageFile[n] = castLog[n].picture

(* No run checks the following; the README says what TLC finds.            *)

(* The same of every number, as paid_image.rs has it.                      *)
ImagesPaidOnce ==
    \A n \in Image : imagePast.charged[n] <= 1 + imagePast.risked[n]

(* "accepted media is never silently overwritten" (state-machine.md).      *)
PicturesAreKept ==
    \A n \in DOMAIN castLog : imageFile[n] = castLog[n].picture

(* "An interrupted image is recorded from disk when the project opens or   *)
(* before the next image of its kind" (paid_image.rs): one that waits for  *)
(* that is never numbered below the last.                                  *)
NoneIsPassedOver ==
    generator # NoImage /\ drawing = NoImage =>
        \A n \in 1..LastImage : n \in DOMAIN castLog \/ ~ImageIs(n, "invoked")
=============================================================================
