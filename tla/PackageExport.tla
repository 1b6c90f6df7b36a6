---------------------------- MODULE PackageExport ----------------------------
(***************************************************************************)
(* Writing a package of the locked videos outside the project, under a     *)
(* name the director gives (kineto-core/src/export.rs): the package is     *)
(* made in a folder beside the name and put in place, exchanged with an    *)
(* earlier one in one step where the file system can, by way of a folder   *)
(* it is set aside in where it cannot.                                     *)
(*                                                                         *)
(* Exports of a session run alone.  Removing a folder is many steps, and   *)
(* so is writing one; anything may fail part of the way, and the process   *)
(* may stop anywhere.  Meanwhile the director may take the package at the  *)
(* name away, to an editor say.  One name; what is in a package is the     *)
(* export it is of, and whether it is all there.  Left out are others who  *)
(* put folders of their own under these names, and losing what was renamed *)
(* but never flushed.                                                      *)
(***************************************************************************)
EXTENDS Naturals

CONSTANTS
    MaxExports,  \* bounds the exports asked for
    MaxTaken,    \* bounds the packages the director takes away
    NoPackage

(* The name, ".name.partial" and ".name.replaced".                         *)
Folders == {"target", "staging", "replaced"}

Package == [of: 1..MaxExports, whole: BOOLEAN]

(* Steps that remove a folder, and which.                                  *)
Removing == [dropAside |-> "replaced", clear |-> "staging", dropOld |-> "replaced",
             tidy |-> "replaced", discard |-> "staging"]

ExportStep == {"none", "restore", "create", "write", "place", "setAside", "moveIn", "putBack"}
              \cup DOMAIN Removing

ASSUME ExportAssumption ==
    /\ MaxExports \in Nat \ {0} /\ MaxTaken \in Nat
    /\ NoPackage \notin Package

VARIABLES
    folder,     \* what each folder holds
    exporting,  \* the export under way: its step, the director's word
    exported,   \* exports asked for; the last one's packages bear it
    exchanges,  \* whether the file system exchanges two folders
    taken,      \* packages the director took away
    careless    \* whether one was taken with another set aside

exportVars == <<folder, exporting, exported, exchanges, taken, careless>>

ExportTypeOK ==
    /\ folder \in [Folders -> Package \cup {NoPackage}]
    /\ exporting \in [step: ExportStep, replace: BOOLEAN]
    /\ exported \in 0..MaxExports /\ taken \in 0..MaxTaken
    /\ exchanges \in BOOLEAN /\ careless \in BOOLEAN

NoExport == [step |-> "none", replace |-> FALSE]

ExportInit ==
    /\ folder = [f \in Folders |-> NoPackage]
    /\ exporting = NoExport /\ exported = 0
    /\ exchanges \in BOOLEAN
    /\ taken = 0 /\ careless = FALSE
-----------------------------------------------------------------------------
There(f) == folder[f] # NoPackage

(* An export that has ended forgets the director's word.                   *)
ExportGoes(step) ==
    exporting' = IF step = "none" THEN NoExport ELSE [exporting EXCEPT !.step = step]

(* The step's folders and what follows it; the rest stays.                 *)
Goes(step, holds) ==
    /\ ExportGoes(step) /\ folder' = holds
    /\ UNCHANGED <<exported, exchanges, taken, careless>>

(* Folder f takes the name of folder g, which is not there.                *)
RenamedTo(f, g) == [folder EXCEPT ![g] = folder[f], ![f] = NoPackage]

(* Mutant: put back without looking whether the name holds one.            *)
SetAsideIsGarbage_Never == FALSE

(* restore_interrupted: the name holds a package.                          *)
SetAsideIsGarbage == There("target")

(* readiness: every shot is ready, or some are and the director asked for  *)
(* a package of these; else the export is refused.                         *)
AskExport(ready, partial, replace) ==
    /\ exporting = NoExport /\ exported < MaxExports
    /\ ready = "all" \/ (ready = "some" /\ partial)
    /\ exported' = exported + 1
    /\ exporting' = [step |-> "restore", replace |-> replace]
    /\ UNCHANGED <<folder, exchanges, taken, careless>>

(* What an interrupted replacement set aside is put back, or removed.      *)
Restore ==
    /\ exporting.step = "restore" /\ There("replaced")
    /\ \/ SetAsideIsGarbage /\ Goes("dropAside", folder)
       \/ ~SetAsideIsGarbage /\ Goes("create", RenamedTo("replaced", "target"))

NothingToRestore ==
    exporting.step = "restore" /\ ~There("replaced") /\ Goes("create", folder)

(* Mutant: a package of the name is no reason to refuse.                   *)
NameIsFree_Always == TRUE

NameIsFree == There("target") => exporting.replace

(* The package is begun anew, what an earlier one left behind removed.     *)
Create ==
    /\ exporting.step = "create" /\ NameIsFree
    /\ \/ There("staging") /\ Goes("clear", folder)
       \/ ~There("staging") /\ Goes("write",
              [folder EXCEPT !["staging"] = [of |-> exported, whole |-> FALSE]])

AlreadyExists == exporting.step = "create" /\ ~NameIsFree /\ Goes("none", folder)

WritePackage ==
    /\ exporting.step = "write"
    /\ Goes("place", [folder EXCEPT !["staging"].whole = TRUE])

(* put_in_place: a new name is one rename.                                 *)
PutInPlace ==
    /\ exporting.step = "place"
    /\ IF ~There("target") THEN Goes("none", RenamedTo("staging", "target"))
       ELSE IF exchanges
       THEN Goes("discard", [folder EXCEPT !["target"] = folder["staging"],
                                           !["staging"] = folder["target"]])
       ELSE Goes(IF There("replaced") THEN "dropOld" ELSE "setAside", folder)

SetAside ==
    /\ exporting.step = "setAside" /\ There("target")
    /\ Goes("moveIn", RenamedTo("target", "replaced"))

MoveIn ==
    exporting.step = "moveIn" /\ Goes("tidy", RenamedTo("staging", "target"))

(* The new package does not move in; the earlier one goes back, if it can. *)
PutBack ==
    /\ exporting.step = "putBack"
    /\ \/ Goes("discard", RenamedTo("replaced", "target"))
       \/ Goes("discard", folder)

(* remove_dir_all begins with a file of the folder and ends with it gone.  *)
RemoveFile ==
    /\ exporting.step \in DOMAIN Removing
    /\ LET f == Removing[exporting.step]
       IN  /\ There(f) /\ folder[f].whole
           /\ Goes(exporting.step, [folder EXCEPT ![f].whole = FALSE])

RemoveFolder ==
    /\ exporting.step \in DOMAIN Removing
    /\ LET after == [dropAside |-> "create", clear |-> "create", dropOld |-> "setAside",
                     tidy |-> "none", discard |-> "none"]
       IN  Goes(after[exporting.step],
                [folder EXCEPT ![Removing[exporting.step]] = NoPackage])

(* A step fails: with nothing of its own there yet, or once its package    *)
(* is in place, the export ends; otherwise its package is removed, the     *)
(* earlier one put back first.                                             *)
StepFails ==
    /\ exporting.step # "putBack"
    /\ CASE exporting.step = "moveIn" -> Goes("putBack", folder)
         [] exporting.step \in {"write", "place", "dropOld", "setAside"} -> Goes("discard", folder)
         [] exporting.step \in {"restore", "dropAside", "create", "clear", "tidy", "discard"} ->
                Goes("none", folder)
         [] OTHER -> FALSE

StopExport == exporting # NoExport /\ Goes("none", folder)

(* The director takes away what is under the name.                         *)
TakeAway ==
    /\ There("target") /\ taken < MaxTaken
    /\ folder' = [folder EXCEPT !["target"] = NoPackage]
    /\ taken' = taken + 1
    /\ careless' = (careless \/ There("replaced"))
    /\ UNCHANGED <<exporting, exported, exchanges>>
-----------------------------------------------------------------------------
ExportNext ==
    \/ \E ready \in {"all", "some", "none"}, partial, replace \in BOOLEAN :
           AskExport(ready, partial, replace)
    \/ Restore \/ NothingToRestore \/ Create \/ AlreadyExists \/ WritePackage
    \/ PutInPlace \/ SetAside \/ MoveIn \/ PutBack
    \/ RemoveFile \/ RemoveFolder \/ StepFails \/ StopExport
    \/ TakeAway

ExportSpec == ExportInit /\ [][ExportNext]_exportVars
-----------------------------------------------------------------------------
(* Properties.                                                             *)

(* The package the director has: the one under the name, or the one that   *)
(* an interrupted replacement set aside and "the next export puts back".   *)
Held == IF There("target") THEN folder["target"] ELSE folder["replaced"]

(* "An interruption never leaves half a package under its name" (the       *)
(* module's comment), nor does a failure; where folders are exchanged the  *)
(* name never goes without; and the package the director has is given up   *)
(* only for a whole new one, on the word to replace it.  A package taken   *)
(* away while another is set aside is the exception: what was set aside is *)
(* then taken for the one an interruption left.                            *)
PackageIsKept ==
    /\ [](~careless /\ Held # NoPackage => Held.whole)
    /\ [](exchanges => ~There("replaced"))
    /\ [][Held # NoPackage /\ Held' # Held /\ taken' = taken /\ ~careless =>
              exporting.replace /\ Held' = [of |-> exported, whole |-> TRUE]]_exportVars
=============================================================================
