---------------------------- MODULE Parts_proofs ----------------------------
(***************************************************************************)
(* Proofs about the parts that keep what was made: exports, a shot's       *)
(* files, the shot plan, and media.                                        *)
(***************************************************************************)
EXTENDS PackageExport, ShotPublication, ShotPlan, MediaCollection, SharedLemmas, TLAPS

(* What an export knows at its steps: nothing is set aside once restoring  *)
(* is done, its package is the whole one it wrote, whatever the name held  *)
(* is to be replaced, and what is being removed has a package in its place. *)
PlacesOK ==
    /\ exporting.step # "dropOld" /\ (exporting.step # "none" => exported # 0)
    /\ exporting.step \in {"create", "clear", "write", "place", "setAside"} => ~There("replaced")
    /\ exporting.step = "write" => folder["staging"] = [of |-> exported, whole |-> FALSE]
    /\ exporting.step \in {"place", "setAside", "moveIn"} =>
          folder["staging"] = [of |-> exported, whole |-> TRUE]
    /\ exporting.step \in {"write", "place", "setAside"} /\ There("target") => exporting.replace
    /\ exporting.step = "moveIn" => exporting.replace
    /\ exporting.step \in {"moveIn", "putBack"} => ~There("target")
    /\ exporting.step \in {"dropAside", "tidy"} /\ There("replaced") /\ ~careless => There("target")

ExportIInv ==
    /\ ExportTypeOK /\ PlacesOK
    /\ ~careless /\ There("target") => folder["target"].whole
    /\ ~careless /\ ~There("target") /\ There("replaced") => folder["replaced"].whole
    /\ exchanges => /\ ~There("replaced")
                    /\ exporting.step \notin {"dropAside", "setAside", "moveIn", "putBack", "tidy"}

(* What the director has changes only for a whole new package, on the word. *)
HeldKept ==
    Held # NoPackage /\ Held' # Held /\ taken' = taken /\ ~careless =>
        exporting.replace /\ Held' = [of |-> exported, whole |-> TRUE]

LEMMA ExportStart ==
    ASSUME ExportInit
    PROVE  ExportIInv
<1>1. /\ folder = [f \in Folders |-> NoPackage] /\ exporting = [step |-> "none", replace |-> FALSE]
      /\ exported = 0 /\ exchanges \in BOOLEAN /\ taken = 0 /\ careless = FALSE
    BY DEF ExportInit, NoExport
<1>2. "none" \in ExportStep
    BY DEF ExportStep
<1>3. ExportTypeOK
  <2>1. 0 \in 0..MaxExports /\ 0 \in 0..MaxTaken
      BY ExportAssumption DEF ExportAssumption
  <2> QED BY <1>1, <1>2, <2>1 DEF ExportTypeOK
<1>4. ~There("target") /\ ~There("replaced") /\ exporting.step = "none"
    BY <1>1 DEF There, Folders
<1> QED BY <1>3, <1>4 DEF ExportIInv, PlacesOK

(* The types of the steps' parts.                                          *)
LEMMA ExportTypes ==
    ASSUME ExportIInv
    PROVE  /\ ExportTypeOK /\ PlacesOK
           /\ folder \in [Folders -> Package \cup {NoPackage}]
           /\ \A f \in Folders : folder[f] # NoPackage => folder[f] \in Package
           /\ exporting \in [step: ExportStep, replace: BOOLEAN]
           /\ exported \in 0..MaxExports /\ MaxExports \in Nat /\ taken \in 0..MaxTaken /\ MaxTaken \in Nat
           /\ "target" \in Folders /\ "staging" \in Folders /\ "replaced" \in Folders
           /\ NoPackage \notin Package
BY ExportAssumption DEF ExportAssumption, ExportIInv, ExportTypeOK, Folders

(* A step of an export, by the folders it leaves.                          *)
LEMMA ExportGoesOn ==
    ASSUME ExportIInv, NEW step \in ExportStep,
           NEW holds \in [Folders -> Package \cup {NoPackage}], Goes(step, holds)
    PROVE  /\ ExportTypeOK'
           /\ folder' = holds /\ exported' = exported /\ exchanges' = exchanges
           /\ taken' = taken /\ careless' = careless
           /\ exporting'.step = step /\ (step # "none" => exporting'.replace = exporting.replace)
<1>1. /\ folder' = holds /\ exported' = exported /\ exchanges' = exchanges
      /\ taken' = taken /\ careless' = careless
    BY DEF Goes
<1>2. /\ exporting' \in [step: ExportStep, replace: BOOLEAN]
      /\ exporting'.step = step /\ (step # "none" => exporting'.replace = exporting.replace)
    BY ExportTypes DEF Goes, ExportGoes, NoExport
<1> QED BY <1>1, <1>2, ExportTypes DEF ExportTypeOK

(* A folder that takes another's name.                                     *)
LEMMA Renaming ==
    ASSUME ExportIInv, NEW f \in Folders, NEW g \in Folders, f # g
    PROVE  /\ RenamedTo(f, g) \in [Folders -> Package \cup {NoPackage}]
           /\ RenamedTo(f, g)[g] = folder[f] /\ RenamedTo(f, g)[f] = NoPackage
           /\ \A h \in Folders \ {f, g} : RenamedTo(f, g)[h] = folder[h]
BY ExportTypes DEF RenamedTo

(* The folders stay, and the step goes on to one that knows no more.       *)
LEMMA ExportHolds ==
    ASSUME ExportIInv, NEW step \in ExportStep, Goes(step, folder),
           step # "none" => exporting.step # "none", step \notin {"dropOld", "setAside", "tidy", "write"},
           step = "create" => ~There("replaced"), step = "clear" => ~There("replaced"),
           step = "place" => FALSE, step = "moveIn" => FALSE,
           step = "putBack" => ~There("target") /\ ~exchanges,
           step = "dropAside" => There("target") /\ There("replaced")
    PROVE  ExportIInv' /\ HeldKept
<1>1. /\ ExportTypeOK' /\ folder' = folder /\ exported' = exported /\ exchanges' = exchanges
      /\ taken' = taken /\ careless' = careless /\ exporting'.step = step
    BY ExportTypes, ExportGoesOn
<1>2. PlacesOK'
    BY <1>1, ExportTypes DEF PlacesOK, There
<1>3. ExportIInv'
    BY <1>1, <1>2 DEF ExportIInv, There
<1>4. HeldKept
    BY <1>1 DEF HeldKept, Held, There
<1> QED BY <1>3, <1>4

(* Putting back what was set aside changes nothing of what the director has. *)
LEMMA ExportPutsBack ==
    ASSUME ExportIInv, ~There("target"), NEW step \in {"create", "discard"},
           exporting.step # "none",
           Goes(step, RenamedTo("replaced", "target"))
    PROVE  ExportIInv' /\ HeldKept
<1>1. /\ RenamedTo("replaced", "target") \in [Folders -> Package \cup {NoPackage}]
      /\ RenamedTo("replaced", "target")["target"] = folder["replaced"]
      /\ RenamedTo("replaced", "target")["replaced"] = NoPackage
    BY ExportTypes, Renaming
<1>2. step \in ExportStep /\ step # "none"
    BY DEF ExportStep, Removing
<1>3. /\ ExportTypeOK' /\ exported' = exported /\ exchanges' = exchanges
      /\ taken' = taken /\ careless' = careless /\ exporting'.step = step
      /\ folder'["target"] = folder["replaced"] /\ folder'["replaced"] = NoPackage
    BY <1>1, <1>2, ExportGoesOn
<1>4. PlacesOK'
    BY <1>3, ExportTypes DEF PlacesOK, There
<1>5. ExportIInv'
    BY <1>3, <1>4 DEF ExportIInv, There
<1>6. HeldKept
    BY <1>3 DEF HeldKept, Held, There
<1> QED BY <1>5, <1>6

LEMMA ExportRestore ==
    ASSUME ExportIInv, Restore
    PROVE  ExportIInv' /\ HeldKept
<1>1. "dropAside" \in ExportStep /\ ("dropAside" = "create" <=> FALSE)
    BY DEF ExportStep, Removing
<1>2. CASE There("target") /\ Goes("dropAside", folder)
    BY <1>1, <1>2, ExportHolds DEF Restore
<1>3. CASE ~There("target") /\ Goes("create", RenamedTo("replaced", "target"))
    BY <1>3, ExportPutsBack DEF Restore
<1> QED BY <1>2, <1>3 DEF Restore, SetAsideIsGarbage

LEMMA ExportNothingToRestore ==
    ASSUME ExportIInv, NothingToRestore
    PROVE  ExportIInv' /\ HeldKept
<1>1. "create" \in ExportStep
    BY DEF ExportStep
<1> QED BY <1>1, ExportHolds DEF NothingToRestore

LEMMA ExportCreate ==
    ASSUME ExportIInv, Create
    PROVE  ExportIInv' /\ HeldKept
<1>1. /\ ~There("replaced") /\ (There("target") => exporting.replace)
      /\ exporting.step # "none"
    BY ExportTypes DEF Create, PlacesOK, NameIsFree
<1>2. CASE Goes("clear", folder)
  <2>1. "clear" \in ExportStep
      BY DEF ExportStep, Removing
  <2> QED BY <1>1, <1>2, <2>1, ExportHolds
<1>3. CASE Goes("write", [folder EXCEPT !["staging"] = [of |-> exported, whole |-> FALSE]])
  <2>1. "write" \in ExportStep /\ exported \in 1..MaxExports
    <3>1. exporting.step # "none" /\ exported # 0
        BY ExportTypes DEF Create, PlacesOK
    <3> QED BY <3>1, ExportTypes DEF ExportStep
  <2>2. PICK n : n = [folder EXCEPT !["staging"] = [of |-> exported, whole |-> FALSE]]
      OBVIOUS
  <2>3. /\ n \in [Folders -> Package \cup {NoPackage}]
        /\ n["target"] = folder["target"] /\ n["replaced"] = folder["replaced"]
        /\ n["staging"] = [of |-> exported, whole |-> FALSE]
      BY <2>1, <2>2, ExportTypes DEF Package
  <2>4. /\ ExportTypeOK' /\ folder' = n /\ exported' = exported /\ exchanges' = exchanges
        /\ taken' = taken /\ careless' = careless /\ exporting'.step = "write"
        /\ exporting'.replace = exporting.replace
      BY <1>3, <2>1, <2>2, <2>3, ExportGoesOn
  <2>5. PlacesOK'
      BY <1>1, <2>1, <2>3, <2>4 DEF PlacesOK, There
  <2>6. ExportIInv'
      BY <2>3, <2>4, <2>5 DEF ExportIInv, There
  <2>7. HeldKept
      BY <2>3, <2>4 DEF HeldKept, Held, There
  <2> QED BY <2>6, <2>7
<1> QED BY <1>2, <1>3 DEF Create

LEMMA ExportAlreadyExists ==
    ASSUME ExportIInv, AlreadyExists
    PROVE  ExportIInv' /\ HeldKept
<1>1. "none" \in ExportStep
    BY DEF ExportStep
<1> QED BY <1>1, ExportHolds DEF AlreadyExists

(* A package once it is written.                                           *)
LEMMA NowWhole ==
    ASSUME NEW e, NEW x, x = [of |-> e, whole |-> FALSE]
    PROVE  [x EXCEPT !.whole = TRUE] = [of |-> e, whole |-> TRUE]
<1>1. DOMAIN x = {"of", "whole"} /\ x.of = e
    OBVIOUS
<1>2. PICK y : y = [x EXCEPT !.whole = TRUE]
    OBVIOUS
<1>3. DOMAIN y = {"of", "whole"} /\ y.of = e /\ y.whole = TRUE
    BY <1>1, <1>2
<1>4. PICK z : z = [of |-> e, whole |-> TRUE]
    OBVIOUS
<1>5. DOMAIN z = {"of", "whole"} /\ z.of = e /\ z.whole = TRUE
    BY <1>4
<1> QED BY <1>2, <1>3, <1>4, <1>5

LEMMA ExportWrites ==
    ASSUME ExportIInv, WritePackage
    PROVE  ExportIInv' /\ HeldKept
<1>1. /\ exporting.step = "write" /\ folder["staging"] = [of |-> exported, whole |-> FALSE]
      /\ exported # 0 /\ ~There("replaced") /\ (There("target") => exporting.replace)
    BY ExportTypes DEF WritePackage, PlacesOK
<1>2. PICK n : n = [folder EXCEPT !["staging"].whole = TRUE]
    OBVIOUS
<1>3. /\ n \in [Folders -> Package \cup {NoPackage}]
      /\ n["target"] = folder["target"] /\ n["replaced"] = folder["replaced"]
      /\ n["staging"] = [of |-> exported, whole |-> TRUE]
  <2>1. n = [folder EXCEPT !["staging"] = [of |-> exported, whole |-> TRUE]]
    <3>1. [folder["staging"] EXCEPT !.whole = TRUE] = [of |-> exported, whole |-> TRUE]
        BY <1>1, NowWhole, Zenon
    <3>2. n = [folder EXCEPT !["staging"] = [folder["staging"] EXCEPT !.whole = TRUE]]
        BY <1>2, Zenon
    <3> QED BY <3>1, <3>2
  <2>2. exported \in 1..MaxExports
      BY <1>1, ExportTypes
  <2> QED BY <2>1, <2>2, ExportTypes DEF Package
<1>4. "place" \in ExportStep /\ Goes("place", n)
    BY <1>2 DEF ExportStep, WritePackage
<1>5. /\ ExportTypeOK' /\ folder' = n /\ exported' = exported /\ exchanges' = exchanges
      /\ taken' = taken /\ careless' = careless /\ exporting'.step = "place"
      /\ exporting'.replace = exporting.replace
    BY <1>3, <1>4, ExportGoesOn
<1>6. PlacesOK'
    BY <1>1, <1>3, <1>5 DEF PlacesOK, There
<1>7. ExportIInv'
    BY <1>3, <1>5, <1>6 DEF ExportIInv, There
<1>8. HeldKept
    BY <1>3, <1>5 DEF HeldKept, Held, There
<1> QED BY <1>7, <1>8

LEMMA ExportPutsInPlace ==
    ASSUME ExportIInv, PutInPlace
    PROVE  ExportIInv' /\ HeldKept
<1>1. /\ exporting.step = "place" /\ folder["staging"] = [of |-> exported, whole |-> TRUE]
      /\ exported # 0 /\ ~There("replaced") /\ (There("target") => exporting.replace)
    BY ExportTypes DEF PutInPlace, PlacesOK
<1>2. folder["staging"] \in Package /\ folder["staging"].whole = TRUE
    BY <1>1, ExportTypes DEF Package
<1>3. CASE ~There("target") /\ Goes("none", RenamedTo("staging", "target"))
  <2>1. /\ RenamedTo("staging", "target") \in [Folders -> Package \cup {NoPackage}]
        /\ RenamedTo("staging", "target")["target"] = folder["staging"]
        /\ RenamedTo("staging", "target")["replaced"] = folder["replaced"]
      BY ExportTypes, Renaming
  <2>2. /\ ExportTypeOK' /\ exported' = exported /\ exchanges' = exchanges
        /\ taken' = taken /\ careless' = careless /\ exporting'.step = "none"
        /\ folder'["target"] = folder["staging"] /\ folder'["replaced"] = folder["replaced"]
      BY <1>3, <2>1, ExportGoesOn DEF ExportStep
  <2>3. PlacesOK'
      BY <2>2 DEF PlacesOK
  <2>4. ExportIInv'
      BY <1>1, <1>2, <2>2, <2>3 DEF ExportIInv, There
  <2>5. HeldKept
      BY <1>1, <1>3, <2>2 DEF HeldKept, Held, There
  <2> QED BY <2>4, <2>5
<1>4. CASE /\ There("target")
           /\ Goes("discard", [folder EXCEPT !["target"] = folder["staging"],
                                             !["staging"] = folder["target"]])
  <2>1. PICK n : n = [folder EXCEPT !["target"] = folder["staging"], !["staging"] = folder["target"]]
      OBVIOUS
  <2>2. /\ n \in [Folders -> Package \cup {NoPackage}]
        /\ n["target"] = folder["staging"] /\ n["replaced"] = folder["replaced"]
      BY <2>1, ExportTypes
  <2>3. "discard" \in ExportStep /\ Goes("discard", n)
      BY <1>4, <2>1 DEF ExportStep, Removing
  <2>4. /\ ExportTypeOK' /\ exported' = exported /\ exchanges' = exchanges
        /\ taken' = taken /\ careless' = careless /\ exporting'.step = "discard"
        /\ folder'["target"] = folder["staging"] /\ folder'["replaced"] = folder["replaced"]
      BY <2>2, <2>3, ExportGoesOn
  <2>5. PlacesOK'
      BY <1>1, <2>4 DEF PlacesOK
  <2>6. ExportIInv'
      BY <1>1, <1>2, <2>4, <2>5 DEF ExportIInv, There
  <2>7. HeldKept
      BY <1>1, <1>2, <1>4, <2>4, ExportTypes DEF HeldKept, Held, There
  <2> QED BY <2>6, <2>7
<1>5. CASE There("target") /\ ~exchanges /\ Goes("setAside", folder)
  <2>1. "setAside" \in ExportStep
      BY DEF ExportStep
  <2>2. /\ ExportTypeOK' /\ folder' = folder /\ exported' = exported /\ exchanges' = exchanges
        /\ taken' = taken /\ careless' = careless /\ exporting'.step = "setAside"
        /\ exporting'.replace = exporting.replace
      BY <1>5, <2>1, ExportTypes, ExportGoesOn
  <2>3. PlacesOK'
      BY <1>1, <2>2 DEF PlacesOK, There
  <2>4. ExportIInv'
      BY <1>5, <2>2, <2>3 DEF ExportIInv, There
  <2>5. HeldKept
      BY <2>2 DEF HeldKept, Held, There
  <2> QED BY <2>4, <2>5
<1> QED BY <1>1, <1>3, <1>4, <1>5 DEF PutInPlace

LEMMA ExportSetsAside ==
    ASSUME ExportIInv, SetAside
    PROVE  ExportIInv' /\ HeldKept
<1>1. /\ exporting.step = "setAside" /\ folder["staging"] = [of |-> exported, whole |-> TRUE]
      /\ exported # 0 /\ ~There("replaced") /\ There("target") /\ exporting.replace
      /\ exchanges = FALSE
    BY ExportTypes DEF SetAside, PlacesOK, ExportIInv, ExportTypeOK
<1>2. /\ RenamedTo("target", "replaced") \in [Folders -> Package \cup {NoPackage}]
      /\ RenamedTo("target", "replaced")["target"] = NoPackage
      /\ RenamedTo("target", "replaced")["replaced"] = folder["target"]
      /\ RenamedTo("target", "replaced")["staging"] = folder["staging"]
    BY ExportTypes, Renaming
<1>3. "moveIn" \in ExportStep
    BY DEF ExportStep
<1>4. /\ ExportTypeOK' /\ exported' = exported /\ exchanges' = exchanges
      /\ taken' = taken /\ careless' = careless /\ exporting'.step = "moveIn"
      /\ exporting'.replace = exporting.replace
      /\ folder'["target"] = NoPackage /\ folder'["replaced"] = folder["target"]
      /\ folder'["staging"] = folder["staging"]
    BY <1>2, <1>3, ExportGoesOn DEF SetAside
<1>5. PlacesOK'
    BY <1>1, <1>4 DEF PlacesOK, There
<1>6. ExportIInv'
    BY <1>1, <1>4, <1>5 DEF ExportIInv, There
<1>7. HeldKept
    BY <1>1, <1>4 DEF HeldKept, Held, There
<1> QED BY <1>6, <1>7

LEMMA ExportMovesIn ==
    ASSUME ExportIInv, MoveIn
    PROVE  ExportIInv' /\ HeldKept
<1>1. /\ exporting.step = "moveIn" /\ folder["staging"] = [of |-> exported, whole |-> TRUE]
      /\ exported # 0 /\ ~There("target") /\ exporting.replace
      /\ exchanges = FALSE
    BY ExportTypes DEF MoveIn, PlacesOK, ExportIInv, ExportTypeOK
<1>2. folder["staging"] # NoPackage /\ folder["staging"].whole = TRUE
  <2>1. exported \in 1..MaxExports
      BY <1>1, ExportTypes
  <2>2. [of |-> exported, whole |-> TRUE] \in Package
      BY <2>1 DEF Package
  <2>3. NoPackage \notin Package
      BY ExportTypes
  <2>4. folder["staging"].whole = TRUE
      BY <1>1
  <2> QED BY <1>1, <2>2, <2>3, <2>4, Zenon
<1>3. /\ RenamedTo("staging", "target") \in [Folders -> Package \cup {NoPackage}]
      /\ RenamedTo("staging", "target")["target"] = folder["staging"]
      /\ RenamedTo("staging", "target")["replaced"] = folder["replaced"]
    BY ExportTypes, Renaming
<1>4. "tidy" \in ExportStep
    BY DEF ExportStep, Removing
<1>5. /\ ExportTypeOK' /\ exported' = exported /\ exchanges' = exchanges
      /\ taken' = taken /\ careless' = careless /\ exporting'.step = "tidy"
      /\ folder'["target"] = folder["staging"] /\ folder'["replaced"] = folder["replaced"]
    BY <1>3, <1>4, ExportGoesOn DEF MoveIn
<1>6. PlacesOK'
    BY <1>1, <1>2, <1>5 DEF PlacesOK, There
<1>7. ExportIInv'
    BY <1>1, <1>2, <1>5, <1>6 DEF ExportIInv, There
<1>8. HeldKept
    BY <1>1, <1>2, <1>5 DEF HeldKept, Held, There
<1> QED BY <1>7, <1>8

LEMMA ExportPutBack ==
    ASSUME ExportIInv, PutBack
    PROVE  ExportIInv' /\ HeldKept
<1>1. exporting.step = "putBack" /\ ~There("target") /\ "discard" \in ExportStep
    BY ExportTypes DEF PutBack, PlacesOK, ExportStep, Removing
<1>2. CASE Goes("discard", RenamedTo("replaced", "target"))
    BY <1>1, <1>2, ExportPutsBack
<1>3. CASE Goes("discard", folder)
    BY <1>1, <1>3, ExportHolds
<1> QED BY <1>2, <1>3 DEF PutBack

(* Of a folder that is being removed: it is not the name's, and what the   *)
(* director has is not in it.                                              *)
LEMMA ExportRemoves ==
    ASSUME ExportIInv, NEW step \in ExportStep, NEW f \in {"staging", "replaced"},
           NEW x \in Package \cup {NoPackage}, Goes(step, [folder EXCEPT ![f] = x]),
           exporting.step \in {"dropAside", "clear", "tidy", "discard"},
           f = "staging" <=> exporting.step \in {"clear", "discard"},
           x = NoPackage \/ There(f),
           \/ step = exporting.step
           \/ step = "create" /\ (f = "replaced" => x = NoPackage) /\ exporting.step \in {"dropAside", "clear"}
           \/ step = "none"
    PROVE  ExportIInv' /\ HeldKept
<1>1. PICK n : n = [folder EXCEPT ![f] = x]
    OBVIOUS
<1>2. /\ n \in [Folders -> Package \cup {NoPackage}] /\ n["target"] = folder["target"]
      /\ n["replaced"] = IF f = "replaced" THEN x ELSE folder["replaced"]
    BY <1>1, ExportTypes DEF Folders
<1>3. /\ ExportTypeOK' /\ folder' = n /\ exported' = exported /\ exchanges' = exchanges
      /\ taken' = taken /\ careless' = careless /\ exporting'.step = step
    BY <1>1, <1>2, ExportGoesOn
<1>4. /\ exporting.step \in {"dropAside", "tidy"} /\ There("replaced") /\ ~careless => There("target")
      /\ exporting.step = "clear" => ~There("replaced")
      /\ exported # 0
    BY ExportTypes DEF PlacesOK
<1>5. PlacesOK'
    BY <1>2, <1>3, <1>4 DEF PlacesOK, There
<1>6. ExportIInv'
  <2>1. ~careless' /\ There("target")' => folder'["target"].whole
      BY <1>2, <1>3 DEF ExportIInv, There
  <2>2. ~careless' /\ ~There("target")' /\ There("replaced")' => folder'["replaced"].whole
      BY <1>2, <1>3, <1>4 DEF ExportIInv, There
  <2>3. exchanges' => /\ ~There("replaced")'
                      /\ exporting'.step \notin {"dropAside", "setAside", "moveIn", "putBack", "tidy"}
      BY <1>2, <1>3, <1>4 DEF ExportIInv, There
  <2> QED BY <1>3, <1>5, <2>1, <2>2, <2>3 DEF ExportIInv
<1>7. HeldKept
    BY <1>2, <1>3, <1>4 DEF HeldKept, Held, There
<1> QED BY <1>6, <1>7

LEMMA ExportRemovesFile ==
    ASSUME ExportIInv, RemoveFile
    PROVE  ExportIInv' /\ HeldKept
<1>1. exporting.step \in {"dropAside", "clear", "tidy", "discard"}
    BY ExportTypes DEF RemoveFile, Removing, PlacesOK
<1>2. PICK f \in {"staging", "replaced"} :
          f = Removing[exporting.step] /\ (f = "staging" <=> exporting.step \in {"clear", "discard"})
    BY <1>1 DEF Removing
<1>3. There(f) /\ Goes(exporting.step, [folder EXCEPT ![f].whole = FALSE])
    BY <1>2 DEF RemoveFile
<1>4. PICK x : x = [folder[f] EXCEPT !.whole = FALSE]
    OBVIOUS
<1>5. x \in Package
    BY <1>2, <1>3, <1>4, ExportTypes DEF There, Package, Folders
<1>6. Goes(exporting.step, [folder EXCEPT ![f] = x])
    BY <1>3, <1>4, Zenon
<1>7. exporting.step \in ExportStep
    BY ExportTypes
<1> QED BY <1>1, <1>2, <1>3, <1>5, <1>6, <1>7, ExportRemoves

LEMMA ExportRemovesFolder ==
    ASSUME ExportIInv, RemoveFolder
    PROVE  ExportIInv' /\ HeldKept
<1>1. exporting.step \in {"dropAside", "clear", "tidy", "discard"}
    BY ExportTypes DEF RemoveFolder, Removing, PlacesOK
<1>2. PICK f \in {"staging", "replaced"} :
          f = Removing[exporting.step] /\ (f = "staging" <=> exporting.step \in {"clear", "discard"})
    BY <1>1 DEF Removing
<1>3. PICK step \in {"create", "none"} :
          /\ step = IF exporting.step \in {"dropAside", "clear"} THEN "create" ELSE "none"
          /\ Goes(step, [folder EXCEPT ![f] = NoPackage])
    BY <1>1, <1>2 DEF RemoveFolder
<1>4. step \in ExportStep
    BY DEF ExportStep
<1> QED BY <1>1, <1>2, <1>3, <1>4, ExportRemoves

LEMMA ExportStepFails ==
    ASSUME ExportIInv, StepFails
    PROVE  ExportIInv' /\ HeldKept
<1>1. /\ "putBack" \in ExportStep /\ "discard" \in ExportStep /\ "none" \in ExportStep
    BY DEF ExportStep, Removing
<1>2. CASE exporting.step = "moveIn" /\ Goes("putBack", folder)
  <2>1. ~There("target") /\ ~exchanges
      BY <1>2, ExportTypes DEF PlacesOK, ExportIInv
  <2> QED BY <1>1, <1>2, <2>1, ExportHolds
<1>3. CASE exporting.step # "none" /\ Goes("discard", folder)
    BY <1>1, <1>3, ExportHolds
<1>4. CASE Goes("none", folder)
    BY <1>1, <1>4, ExportHolds
<1> QED BY <1>2, <1>3, <1>4 DEF StepFails

LEMMA ExportStops ==
    ASSUME ExportIInv, StopExport
    PROVE  ExportIInv' /\ HeldKept
<1>1. "none" \in ExportStep
    BY DEF ExportStep
<1> QED BY <1>1, ExportHolds DEF StopExport

LEMMA ExportTakenAway ==
    ASSUME ExportIInv, TakeAway
    PROVE  ExportIInv' /\ HeldKept
<1>1. /\ There("target") /\ taken < MaxTaken /\ folder' = [folder EXCEPT !["target"] = NoPackage]
      /\ taken' = taken + 1 /\ careless' = (careless \/ There("replaced"))
      /\ exporting' = exporting /\ exported' = exported /\ exchanges' = exchanges
    BY DEF TakeAway
<1>2. /\ folder' \in [Folders -> Package \cup {NoPackage}] /\ folder'["target"] = NoPackage
      /\ folder'["replaced"] = folder["replaced"] /\ folder'["staging"] = folder["staging"]
    BY <1>1, ExportTypes DEF Folders
<1>3. taken' # taken /\ taken' \in 0..MaxTaken
    BY <1>1, ExportTypes
<1>4. careless' \in BOOLEAN
    BY <1>1, ExportTypes DEF ExportTypeOK, There
<1>5. ExportTypeOK'
    BY <1>1, <1>2, <1>3, <1>4, ExportTypes DEF ExportTypeOK
<1>6. PlacesOK'
    BY <1>1, <1>2, ExportTypes DEF PlacesOK, There
<1>7. ExportIInv'
    BY <1>1, <1>2, <1>5, <1>6 DEF ExportIInv, There
<1> QED BY <1>3, <1>7 DEF HeldKept

LEMMA ExportAsked ==
    ASSUME ExportIInv, NEW ready \in {"all", "some", "none"}, NEW partial \in BOOLEAN,
           NEW replace \in BOOLEAN, AskExport(ready, partial, replace)
    PROVE  ExportIInv' /\ HeldKept
<1>1. /\ exported' = exported + 1 /\ exported < MaxExports
      /\ exporting' = [step |-> "restore", replace |-> replace]
      /\ folder' = folder /\ exchanges' = exchanges /\ taken' = taken /\ careless' = careless
    BY DEF AskExport
<1>2. /\ exported' \in 0..MaxExports /\ exported' # 0 /\ exporting'.step = "restore"
      /\ exporting' \in [step: ExportStep, replace: BOOLEAN]
    BY <1>1, ExportTypes DEF ExportStep
<1>3. ExportTypeOK'
    BY <1>1, <1>2, ExportTypes DEF ExportTypeOK
<1>4. PlacesOK'
    BY <1>2 DEF PlacesOK
<1>5. ExportIInv'
    BY <1>1, <1>2, <1>3, <1>4 DEF ExportIInv, There
<1>6. HeldKept
    BY <1>1 DEF HeldKept, Held, There
<1> QED BY <1>5, <1>6

LEMMA ExportStays ==
    ASSUME ExportIInv, UNCHANGED exportVars
    PROVE  ExportIInv' /\ HeldKept
<1>1. /\ folder' = folder /\ exporting' = exporting /\ exported' = exported
      /\ exchanges' = exchanges /\ taken' = taken /\ careless' = careless
    BY DEF exportVars
<1>2. ExportTypeOK' /\ PlacesOK'
    BY <1>1, ExportTypes DEF ExportTypeOK, PlacesOK, There
<1>3. ExportIInv'
    BY <1>1, <1>2 DEF ExportIInv, There
<1>4. HeldKept
    BY <1>1 DEF HeldKept, Held, There
<1> QED BY <1>3, <1>4

LEMMA ExportStepKeeps ==
    ASSUME ExportIInv, [ExportNext]_exportVars
    PROVE  ExportIInv' /\ HeldKept
<1>1. ASSUME NEW ready \in {"all", "some", "none"}, NEW partial \in BOOLEAN,
             NEW replace \in BOOLEAN, AskExport(ready, partial, replace)
      PROVE  ExportIInv' /\ HeldKept
    BY <1>1, ExportAsked
<1>2. CASE Restore
    BY <1>2, ExportRestore
<1>3. CASE NothingToRestore
    BY <1>3, ExportNothingToRestore
<1>4. CASE Create
    BY <1>4, ExportCreate
<1>5. CASE AlreadyExists
    BY <1>5, ExportAlreadyExists
<1>6. CASE WritePackage
    BY <1>6, ExportWrites
<1>7. CASE PutInPlace
    BY <1>7, ExportPutsInPlace
<1>8. CASE SetAside
    BY <1>8, ExportSetsAside
<1>9. CASE MoveIn
    BY <1>9, ExportMovesIn
<1>10. CASE PutBack
    BY <1>10, ExportPutBack
<1>11. CASE RemoveFile
    BY <1>11, ExportRemovesFile
<1>12. CASE RemoveFolder
    BY <1>12, ExportRemovesFolder
<1>13. CASE StepFails
    BY <1>13, ExportStepFails
<1>14. CASE StopExport
    BY <1>14, ExportStops
<1>15. CASE TakeAway
    BY <1>15, ExportTakenAway
<1>16. CASE UNCHANGED exportVars
    BY <1>16, ExportStays
<1> QED BY <1>1, <1>2, <1>3, <1>4, <1>5, <1>6, <1>7, <1>8, <1>9, <1>10, <1>11, <1>12, <1>13,
           <1>14, <1>15, <1>16 DEF ExportNext

(* Exports keep to their steps wherever they fail or stop and whenever the *)
(* director takes a package away (export.rs).                              *)
THEOREM ExportInvariance == ExportSpec => []ExportIInv
<1>1. ExportInit => ExportIInv
    BY ExportStart
<1>2. ExportIInv /\ [ExportNext]_exportVars => ExportIInv'
    BY ExportStepKeeps
<1> QED BY <1>1, <1>2, PTL DEF ExportSpec

(* The director always has a whole package, which is given up only for a   *)
(* whole new one on the word to replace it (export.rs).                    *)
THEOREM PackagesAreKept == ExportSpec => PackageIsKept
<1>1. /\ ExportIInv => (~careless /\ Held # NoPackage => Held.whole)
      /\ ExportIInv => (exchanges => ~There("replaced"))
    BY DEF ExportIInv, Held, There
<1>2. ExportIInv /\ [ExportNext]_exportVars =>
          [Held # NoPackage /\ Held' # Held /\ taken' = taken /\ ~careless =>
              exporting.replace /\ Held' = [of |-> exported, whole |-> TRUE]]_exportVars
    BY ExportStepKeeps DEF HeldKept
<1>3. ExportSpec => [](~careless /\ Held # NoPackage => Held.whole)
    BY <1>1, ExportInvariance, PTL
<1>4. ExportSpec => [](exchanges => ~There("replaced"))
    BY <1>1, ExportInvariance, PTL
<1>5. ExportSpec => [][Held # NoPackage /\ Held' # Held /\ taken' = taken /\ ~careless =>
              exporting.replace /\ Held' = [of |-> exported, whole |-> TRUE]]_exportVars
    BY <1>2, ExportInvariance, PTL DEF ExportSpec
<1> QED BY <1>3, <1>4, <1>5 DEF PackageIsKept
-----------------------------------------------------------------------------
(* A shot's files.                                                         *)

(* Records of some of the names, whatever they are of.                     *)
RecordsOf(f, D, R) == f \in [DOMAIN f -> R] /\ DOMAIN f \subseteq D

Copy(s, k, v, e) == [shot |-> s, keyframes |-> k, videos |-> v, selection |-> e]

CopyOK(c) ==
    /\ c = Copy(c.shot, c.keyframes, c.videos, c.selection)
    /\ c.shot \in Shot /\ c.selection \in Selection
    /\ RecordsOf(c.keyframes, Keyframe, KeyframeRecord)
    /\ RecordsOf(c.videos, Video, VideoRecord)

(* The files an operation has still to write.                              *)
ToWrite == {<<"shot">>, <<"artifacts">>, <<"selection">>, <<"shot", "artifacts">>,
            <<"artifacts", "selection">>, <<"shot", "artifacts", "selection">>}

PendingOK ==
    \/ pending = Idle
    \/ /\ pending = [files |-> pending.files, copy |-> pending.copy,
                     job |-> pending.job, settled |-> pending.settled]
       /\ pending.files \in ToWrite /\ CopyOK(pending.copy)
       /\ pending.job \in Video \cup {None} /\ pending.settled \in BOOLEAN

ShotTypes ==
    /\ CopyOK(disk) /\ (memory # None => CopyOK(memory)) /\ PendingOK
    /\ planned \in Direction \cup {Unplanned}
    /\ plans \subseteq Plan /\ jobs \subseteq Job /\ left \subseteq Video /\ astray \in BOOLEAN

(* What a copy holds of videos, another holds as well.                     *)
Keeps(b, a) ==
    \A id \in DOMAIN a.videos :
        /\ id \in DOMAIN b.videos
        /\ b.videos[id].from = a.videos[id].from /\ b.videos[id].made = a.videos[id].made

(* What is being written has every video there is, and what it may be given *)
(* up for has them too, but for the one whose failing drops it.            *)
ShotIInv ==
    /\ ShotTypes
    /\ pending # Idle => Keeps(pending.copy, disk)
    /\ pending # Idle /\ pending.job = None /\ memory # None => Keeps(memory, pending.copy)
    /\ pending.job = None /\ memory # None => Keeps(memory, disk)

(* The candidates that are not superseded.                                 *)
InPlay(c) == {id \in DOMAIN c.keyframes : c.keyframes[id].status # "superseded"}

(* A generation's candidates, or none.                                     *)
OfOne(ids, c) == ids = {} \/ \E g \in 1..c.shot.generation : ids = CandidateIds(g)

Within(c) ==
    /\ \A id \in DOMAIN c.keyframes : id[1] <= c.shot.generation
    /\ OfOne(c.selection.candidates, c)
    /\ c.selection.candidates \subseteq DOMAIN c.keyframes
    /\ c.selection.selected \in c.selection.candidates \cup {None}

(* What a reader makes whole: the candidates in play are those of the       *)
(* selection, or none, or those a generation was published with whose      *)
(* selection was not written.                                              *)
Sound(c) ==
    /\ Within(c) /\ OfOne(InPlay(c), c)
    /\ \/ InPlay(c) = c.selection.candidates
       \/ InPlay(c) = {}
       \/ /\ InPlay(c) = CandidateIds(c.shot.generation)
          /\ \A id \in InPlay(c) : c.keyframes[id].status = "candidate"
    /\ \A id \in InPlay(c) : c.keyframes[id].status = "locked" => id = c.selection.selected

(* What needs no making whole.                                             *)
Coherent(c) ==
    /\ Within(c) /\ InPlay(c) = c.selection.candidates
    /\ \A id \in InPlay(c) :
          c.keyframes[id].status # "candidate" <=> id = c.selection.selected

(* A copy with some of its files written over the others'.                 *)
Mixture(d, c, files) ==
    Copy(IF "shot" \in files THEN c.shot ELSE d.shot,
         IF "artifacts" \in files THEN c.keyframes ELSE d.keyframes,
         IF "artifacts" \in files THEN c.videos ELSE d.videos,
         IF "selection" \in files THEN c.selection ELSE d.selection)

Recoverable(c) ==
    Loadable(c) /\ \A id \in DOMAIN c.keyframes : id[1] <= c.shot.generation

(* The first n of the files.                                               *)
Written(files, n) == {files[i] : i \in 1..n}

(* A boundary of an operation that writes copy c over d: the files load,   *)
(* and are sound unless d was a mixture itself.  At its end they are made  *)
(* whole as the copy.                                                      *)
Boundary(d, c, files, settled) ==
    LET m == Mixture(d, c, files) IN Recoverable(m) /\ (settled => Sound(m))

Ends(d, c, files) ==
    LET m == Mixture(d, c, files) IN Sound(m) /\ Loaded(m) = c

BoundariesOK(d, c, files, settled) ==
    /\ \A n \in 0..Len(files) : Boundary(d, c, Written(files, n), settled)
    /\ Ends(d, c, Written(files, Len(files)))

(* What is so until the shot goes astray.                                  *)
RecoveryIInv ==
    /\ ShotIInv
    /\ pending = Idle => Sound(disk) /\ (memory # None => memory = Loaded(disk))
    /\ pending # Idle =>
          /\ BoundariesOK(disk, pending.copy, pending.files, pending.settled)
          /\ Loaded(memory) = memory

LEMMA PublicationFacts ==
    /\ None \notin Keyframe /\ None \notin Video /\ Default \in Direction
    /\ Unplanned \notin Direction
    /\ MaxGenerations \in Nat \ {0} /\ MaxVideos \in Nat \ {0} /\ Clips \in Nat \ {0}
    /\ \E place : place \in Candidate
BY PublicationAssumption DEF PublicationAssumption

LEMMA CopyFields ==
    ASSUME NEW s, NEW k, NEW v, NEW e, NEW c, c = Copy(s, k, v, e)
    PROVE  c.shot = s /\ c.keyframes = k /\ c.videos = v /\ c.selection = e
BY DEF Copy

LEMMA CopyMade ==
    ASSUME NEW s \in Shot, NEW k, RecordsOf(k, Keyframe, KeyframeRecord),
           NEW v, RecordsOf(v, Video, VideoRecord), NEW e \in Selection,
           NEW c, c = Copy(s, k, v, e)
    PROVE  CopyOK(c) /\ c.shot = s /\ c.keyframes = k /\ c.videos = v /\ c.selection = e
<1>1. c.shot = s /\ c.keyframes = k /\ c.videos = v /\ c.selection = e
    BY CopyFields
<1> QED BY <1>1 DEF CopyOK

LEMMA CopyParts ==
    ASSUME NEW c, CopyOK(c)
    PROVE  /\ c = Copy(c.shot, c.keyframes, c.videos, c.selection)
           /\ c.shot \in Shot /\ c.shot.direction \in Direction
           /\ c.shot.generation \in 0..MaxGenerations /\ c.shot.generation \in Nat
           /\ c.shot.video \in 0..MaxVideos /\ c.shot.video \in Nat
           /\ c.selection \in Selection /\ c.selection.candidates \subseteq Keyframe
           /\ RecordsOf(c.keyframes, Keyframe, KeyframeRecord)
           /\ DOMAIN c.keyframes \subseteq Keyframe
           /\ \A id \in DOMAIN c.keyframes :
                 c.keyframes[id] \in KeyframeRecord /\ c.keyframes[id].status \in Status
           /\ RecordsOf(c.videos, Video, VideoRecord)
           /\ DOMAIN c.videos \subseteq Video
           /\ \A id \in DOMAIN c.videos : c.videos[id] \in VideoRecord
<1>1. /\ c = Copy(c.shot, c.keyframes, c.videos, c.selection)
      /\ c.shot \in Shot /\ c.selection \in Selection
      /\ RecordsOf(c.keyframes, Keyframe, KeyframeRecord)
      /\ RecordsOf(c.videos, Video, VideoRecord)
    BY DEF CopyOK
<1>2. /\ c.shot.direction \in Direction /\ c.shot.generation \in 0..MaxGenerations
      /\ c.shot.video \in 0..MaxVideos
    BY <1>1 DEF Shot
<1>3. c.shot.generation \in Nat /\ c.shot.video \in Nat
    BY <1>2, PublicationFacts
<1>4. c.selection.candidates \subseteq Keyframe
    BY <1>1 DEF Selection
<1>5. /\ DOMAIN c.keyframes \subseteq Keyframe
      /\ \A id \in DOMAIN c.keyframes : c.keyframes[id] \in KeyframeRecord
      /\ DOMAIN c.videos \subseteq Video
      /\ \A id \in DOMAIN c.videos : c.videos[id] \in VideoRecord
    BY <1>1 DEF RecordsOf
<1>6. \A id \in DOMAIN c.keyframes : c.keyframes[id].status \in Status
    BY <1>5 DEF KeyframeRecord
<1> QED BY <1>1, <1>2, <1>3, <1>4, <1>5, <1>6

(* Records taken out of play.                                              *)
LEMMA KeyframesSuperseded ==
    ASSUME NEW k, RecordsOf(k, Keyframe, KeyframeRecord), NEW n, n = SupersedeKeyframes(k)
    PROVE  /\ RecordsOf(n, Keyframe, KeyframeRecord) /\ DOMAIN n = DOMAIN k
           /\ \A id \in DOMAIN n : n[id].status = "superseded" /\ n[id].made = k[id].made
<1>1. DOMAIN n = DOMAIN k /\ \A id \in DOMAIN n : n[id] = [k[id] EXCEPT !.status = "superseded"]
    BY DEF SupersedeKeyframes
<1>2. \A id \in DOMAIN k : k[id] \in KeyframeRecord
    BY DEF RecordsOf
<1>3. \A r \in KeyframeRecord :
         /\ [r EXCEPT !.status = "superseded"] \in KeyframeRecord
         /\ [r EXCEPT !.status = "superseded"].status = "superseded"
         /\ [r EXCEPT !.status = "superseded"].made = r.made
    BY DEF KeyframeRecord, Status
<1>4. n \in [DOMAIN n -> KeyframeRecord]
    BY <1>1, <1>2, <1>3 DEF SupersedeKeyframes
<1>5. RecordsOf(n, Keyframe, KeyframeRecord)
  <2>1. DOMAIN k \subseteq Keyframe
      BY DEF RecordsOf
  <2> QED BY <1>1, <1>4, <2>1 DEF RecordsOf
<1>6. \A id \in DOMAIN n : k[id] \in KeyframeRecord
    BY <1>1, <1>2
<1>7. ASSUME NEW id \in DOMAIN n
      PROVE  n[id].status = "superseded" /\ n[id].made = k[id].made
  <2>1. PICK r : r = k[id]
      OBVIOUS
  <2>2. r \in KeyframeRecord /\ n[id] = [r EXCEPT !.status = "superseded"]
      BY <1>1, <1>6, <2>1
  <2> QED BY <1>3, <2>1, <2>2
<1> QED BY <1>1, <1>5, <1>7

LEMMA VideosSuperseded ==
    ASSUME NEW v, RecordsOf(v, Video, VideoRecord), NEW n, n = SupersedeVideos(v)
    PROVE  /\ RecordsOf(n, Video, VideoRecord) /\ DOMAIN n = DOMAIN v
           /\ \A id \in DOMAIN n : /\ n[id].status = "superseded"
                                   /\ n[id].from = v[id].from /\ n[id].made = v[id].made
<1>1. DOMAIN n = DOMAIN v /\ \A id \in DOMAIN n : n[id] = [v[id] EXCEPT !.status = "superseded"]
    BY DEF SupersedeVideos
<1>2. \A id \in DOMAIN v : v[id] \in VideoRecord
    BY DEF RecordsOf
<1>3. \A r \in VideoRecord :
         /\ [r EXCEPT !.status = "superseded"] \in VideoRecord
         /\ [r EXCEPT !.status = "superseded"].status = "superseded"
         /\ [r EXCEPT !.status = "superseded"].from = r.from
         /\ [r EXCEPT !.status = "superseded"].made = r.made
    BY DEF VideoRecord, Status
<1>4. n \in [DOMAIN n -> VideoRecord]
    BY <1>1, <1>2, <1>3 DEF SupersedeVideos
<1>5. RecordsOf(n, Video, VideoRecord)
  <2>1. DOMAIN v \subseteq Video
      BY DEF RecordsOf
  <2> QED BY <1>1, <1>4, <2>1 DEF RecordsOf
<1>6. \A id \in DOMAIN n : v[id] \in VideoRecord
    BY <1>1, <1>2
<1>7. ASSUME NEW id \in DOMAIN n
      PROVE  n[id].status = "superseded" /\ n[id].from = v[id].from /\ n[id].made = v[id].made
  <2>1. PICK r : r = v[id]
      OBVIOUS
  <2>2. r \in VideoRecord /\ n[id] = [r EXCEPT !.status = "superseded"]
      BY <1>1, <1>6, <2>1
  <2> QED BY <1>3, <2>1, <2>2
<1> QED BY <1>1, <1>5, <1>7

LEMMA SelectionWritten ==
    ASSUME NEW m, CopyOK(m), NEW e \in Selection, NEW l, l = [m EXCEPT !.selection = e]
    PROVE  /\ CopyOK(l) /\ l.selection = e /\ l.shot = m.shot
           /\ l.keyframes = m.keyframes /\ l.videos = m.videos
<1>1. l = Copy(m.shot, m.keyframes, m.videos, e)
    BY DEF CopyOK, Copy
<1>2. /\ m.shot \in Shot /\ RecordsOf(m.keyframes, Keyframe, KeyframeRecord)
      /\ RecordsOf(m.videos, Video, VideoRecord)
    BY DEF CopyOK
<1> QED BY <1>1, <1>2, CopyMade

(* What loading makes of a copy, whether it may be loaded or not.          *)
LEMMA RecoveredIs ==
    ASSUME NEW c, CopyOK(c), NEW n, n = Recovered(c)
    PROVE  CopyOK(n) /\ n.shot = c.shot /\ n.keyframes = c.keyframes /\ n.videos = c.videos
<1>2. PICK g : g = RecoverGeneration(c)
    OBVIOUS
<1>3. CopyOK(g) /\ g.shot = c.shot /\ g.keyframes = c.keyframes /\ g.videos = c.videos
  <2> DEFINE e == [candidates |-> CandidateIds(c.shot.generation), selected |-> None]
  <2>1. CASE c.shot.generation > 0
    <3>1. CandidateIds(c.shot.generation) \subseteq Keyframe
        BY <2>1, CopyParts DEF CandidateIds, Keyframe
    <3>2. e \in Selection
        BY <3>1 DEF Selection
    <3>3. g = c \/ g = [c EXCEPT !.selection = e]
        BY <1>2 DEF RecoverGeneration
    <3>4. CASE g = c
        BY <3>4
    <3>5. CASE g = [c EXCEPT !.selection = e]
      <4>1. PICK f : f = e
          OBVIOUS
      <4>2. f \in Selection /\ g = [c EXCEPT !.selection = f]
          BY <3>2, <3>5, <4>1
      <4> QED BY <4>2, SelectionWritten
    <3> QED BY <3>3, <3>4, <3>5
  <2>2. CASE ~(c.shot.generation > 0)
      BY <1>2, <2>2 DEF RecoverGeneration
  <2> QED BY <2>1, <2>2
<1>4. PICK f : f = [candidates |-> {}, selected |-> None]
    OBVIOUS
<1>5. f \in Selection
    BY <1>4 DEF Selection
<1>6. n = g \/ n = [g EXCEPT !.selection = f]
    BY <1>2, <1>4 DEF Recovered, RecoverCleared
<1>7. CASE n = g
    BY <1>3, <1>7
<1>8. CASE n = [g EXCEPT !.selection = f]
  <2>1. CopyOK(n) /\ n.shot = g.shot /\ n.keyframes = g.keyframes /\ n.videos = g.videos
      BY <1>3, <1>5, <1>8, SelectionWritten
  <2> QED BY <1>3, <2>1
<1> QED BY <1>6, <1>7, <1>8

(* What reconciling makes of a candidate's record.                         *)
Reconciled(r, id, e) ==
    IF id \notin e.candidates THEN r
    ELSE IF id = e.selected
         THEN IF r.status = "candidate" THEN [r EXCEPT !.status = "selected"] ELSE r
         ELSE [r EXCEPT !.status = "candidate"]

LEMMA LoadedIs ==
    ASSUME NEW c, CopyOK(c), NEW n, n = Loaded(c)
    PROVE  /\ CopyOK(n) /\ n.shot = c.shot /\ n.videos = c.videos
           /\ n.selection = Recovered(c).selection
           /\ n.keyframes = [id \in DOMAIN c.keyframes |->
                                Reconciled(c.keyframes[id], id, Recovered(c).selection)]
<1>1. PICK r : r = Recovered(c)
    OBVIOUS
<1>2. CopyOK(r) /\ r.shot = c.shot /\ r.keyframes = c.keyframes /\ r.videos = c.videos
    BY <1>1, RecoveredIs
<1>3. PICK k : k = [id \in DOMAIN r.keyframes |-> Reconciled(r.keyframes[id], id, r.selection)]
    OBVIOUS
<1>4. n = [r EXCEPT !.keyframes = k]
    BY <1>1, <1>3 DEF Loaded, ReconcileStatuses, Reconciled
<1>5. n = Copy(r.shot, k, r.videos, r.selection)
    BY <1>2, <1>4 DEF CopyOK, Copy
<1>6. RecordsOf(k, Keyframe, KeyframeRecord)
  <2>1. \A q \in KeyframeRecord : \A id, e : Reconciled(q, id, e) \in KeyframeRecord
      BY DEF Reconciled, KeyframeRecord, Status
  <2> QED BY <1>2, <1>3, <2>1 DEF CopyOK, RecordsOf
<1>7. CopyOK(n) /\ n.shot = r.shot /\ n.keyframes = k /\ n.videos = r.videos /\ n.selection = r.selection
  <2>1. r.shot \in Shot /\ r.selection \in Selection /\ RecordsOf(r.videos, Video, VideoRecord)
      BY <1>2, CopyParts
  <2> QED BY <1>5, <1>6, <2>1, CopyMade
<1> QED BY <1>1, <1>2, <1>3, <1>7

(* Keeping videos.                                                         *)
LEMMA KeepsItsOwn == ASSUME NEW a, NEW b, a.videos = b.videos PROVE Keeps(b, a)
BY DEF Keeps

LEMMA KeepsFurther == ASSUME NEW a, NEW b, NEW c, Keeps(b, a), Keeps(c, b) PROVE Keeps(c, a)
BY DEF Keeps

(* An operation that has something to write.                               *)
Begins(files, n, job) ==
    /\ pending = Idle /\ memory # None /\ Persist(files, n, job)
    /\ UNCHANGED <<disk, memory, planned, plans, jobs, left, astray>>

Under(files, n, job) ==
    /\ pending' # Idle
    /\ pending'.files = files /\ pending'.copy = n /\ pending'.job = job
    /\ pending'.settled = (memory = disk) /\ memory' = memory /\ disk' = disk

LEMMA NotIdle ==
    ASSUME NEW p, p.files # <<>>
    PROVE  p # Idle
BY DEF Idle

LEMMA ToWriteIs ==
    ASSUME NEW files \in ToWrite
    PROVE  /\ files # <<>> /\ Len(files) \in Nat \ {0} /\ files[1] \in File /\ Head(files) = files[1]
           /\ \A n \in 1..Len(files) : files[n] \in File
           /\ Len(files) > 1 => /\ Tail(files) \in ToWrite /\ Len(Tail(files)) = Len(files) - 1
                                /\ \A n \in 1..(Len(files) - 1) : Tail(files)[n] = files[n + 1]
<1>1. files \in Seq(File) /\ files # <<>>
  <2>1. \A a, b, c \in File : /\ <<a>> \in Seq(File) /\ <<a>> # <<>>
                             /\ <<a, b>> \in Seq(File) /\ <<a, b>> # <<>>
                             /\ <<a, b, c>> \in Seq(File) /\ <<a, b, c>> # <<>>
      OBVIOUS
  <2>2. "shot" \in File /\ "artifacts" \in File /\ "selection" \in File
      BY DEF File
  <2> QED BY <2>1, <2>2 DEF ToWrite
<1>2. /\ Len(files) \in Nat \ {0} /\ \A n \in 1..Len(files) : files[n] \in File
      /\ Head(files) = files[1] /\ files[1] \in File
      /\ \A n \in 1..(Len(files) - 1) : Tail(files)[n] = files[n + 1]
  <2>1. \A rest : rest = Tail(files) =>
           /\ Len(files) \in Nat \ {0} /\ Head(files) = files[1] /\ files[1] \in File
           /\ \A n \in 1..(Len(files) - 1) : rest[n] = files[n + 1]
      BY <1>1, TakenFirst
  <2>2. \A n \in 1..Len(files) : files[n] \in File
      BY <1>1, ElementOfSeq
  <2> QED BY <2>1, <2>2
<1>3. Len(Tail(files)) = Len(files) - 1
    BY <1>1, HeadTailProperties
<1>4. Len(files) > 1 => Tail(files) \in ToWrite
  <2>1. CASE files \in {<<"shot">>, <<"artifacts">>, <<"selection">>}
    <3>1. Len(<<"shot">>) = 1 /\ Len(<<"artifacts">>) = 1 /\ Len(<<"selection">>) = 1
        OBVIOUS
    <3>2. Len(files) = 1
        BY <2>1, <3>1
    <3> QED BY <3>2
  <2>2. CASE files = <<"shot", "artifacts">>
    <3>1. Tail(files) = <<"artifacts">>
        BY <2>2
    <3> QED BY <3>1 DEF ToWrite
  <2>3. CASE files = <<"artifacts", "selection">>
    <3>1. Tail(files) = <<"selection">>
        BY <2>3
    <3> QED BY <3>1 DEF ToWrite
  <2>4. CASE files = <<"shot", "artifacts", "selection">>
    <3>1. Tail(files) = <<"artifacts", "selection">>
        BY <2>4
    <3> QED BY <3>1 DEF ToWrite
  <2> QED BY <2>1, <2>2, <2>3, <2>4 DEF ToWrite
<1> QED BY <1>1, <1>2, <1>3, <1>4

LEMMA Begun ==
    ASSUME ShotIInv, NEW files \in ToWrite, NEW n, NEW job \in Video \cup {None},
           Begins(files, n, job), CopyOK(n), Keeps(n, memory),
           job = None => Keeps(memory, n)
    PROVE  ShotIInv' /\ Under(files, n, job)
<1>1. /\ pending' = [files |-> files, copy |-> n, job |-> job, settled |-> memory = disk]
      /\ disk' = disk /\ memory' = memory /\ planned' = planned /\ plans' = plans
      /\ jobs' = jobs /\ left' = left /\ astray' = astray /\ pending = Idle /\ memory # None
    BY DEF Begins, Persist
<1>2. /\ pending'.files = files /\ pending'.copy = n /\ pending'.job = job
      /\ pending'.settled = (memory = disk)
      /\ pending' = [files |-> pending'.files, copy |-> pending'.copy,
                     job |-> pending'.job, settled |-> pending'.settled]
    BY <1>1
<1>3. pending' # Idle
    BY <1>2, ToWriteIs, NotIdle
<1>4. PendingOK'
  <2>1. pending'.settled \in BOOLEAN
      BY <1>2
  <2> QED BY <1>2, <2>1 DEF PendingOK
<1>5. ShotTypes'
    BY <1>1, <1>4 DEF ShotIInv, ShotTypes
<1>6. Keeps(memory, disk)
    BY <1>1 DEF ShotIInv, Idle
<1>7. Keeps(n, disk)
    BY <1>6, KeepsFurther
<1>8. (pending # Idle => Keeps(pending.copy, disk))'
    BY <1>1, <1>2, <1>7
<1>9. (pending # Idle /\ pending.job = None /\ memory # None => Keeps(memory, pending.copy))'
    BY <1>1, <1>2
<1>10. (pending.job = None /\ memory # None => Keeps(memory, disk))'
    BY <1>1, <1>6
<1>11. ShotIInv'
    BY <1>5, <1>8, <1>9, <1>10 DEF ShotIInv
<1> QED BY <1>1, <1>2, <1>3, <1>11 DEF Under

(* A session's copy, once it has been read.                                *)
LEMMA ReadyCopy ==
    ASSUME ShotIInv, Ready
    PROVE  pending = Idle /\ memory # None /\ CopyOK(memory) /\ CopyOK(disk)
BY DEF Ready, ShotIInv, ShotTypes

LEMMA SetDirectionBegins ==
    ASSUME ShotIInv, NEW d \in Direction, SetDirection(d), NEW n, n = pending'.copy
    PROVE  /\ Begins(<<"shot">>, n, None) /\ CopyOK(n)
           /\ n.shot = [memory.shot EXCEPT !.direction = d] /\ n.keyframes = memory.keyframes
           /\ n.videos = memory.videos /\ n.selection = memory.selection
<1>1. pending = Idle /\ memory # None /\ CopyOK(memory)
    BY ReadyCopy DEF SetDirection
<1>2. n = [memory EXCEPT !.shot.direction = d] /\ Begins(<<"shot">>, n, None)
    BY <1>1 DEF SetDirection, Write, Begins, Persist
<1>3. PICK s : s = [memory.shot EXCEPT !.direction = d]
    OBVIOUS
<1>4. n = Copy(s, memory.keyframes, memory.videos, memory.selection)
    BY <1>1, <1>2, <1>3 DEF CopyOK, Copy
<1>5. s \in Shot
    BY <1>1, <1>3, CopyParts DEF Shot
<1>6. CopyOK(n) /\ n.shot = s /\ n.keyframes = memory.keyframes /\ n.videos = memory.videos
      /\ n.selection = memory.selection
    BY <1>1, <1>4, <1>5, CopyMade, CopyParts
<1> QED BY <1>2, <1>3, <1>6

(* What attaching a generation makes of the keyframes: its candidates are   *)
(* in play, the others are not.                                            *)
Generating(a, n, ids, directions) ==
    /\ DOMAIN n.keyframes = DOMAIN a.keyframes \cup ids
    /\ \A id \in DOMAIN n.keyframes :
          n.keyframes[id].status = IF id \in ids THEN "candidate" ELSE "superseded"
    /\ n.selection = [candidates |-> ids, selected |-> None]
    /\ \A id \in DOMAIN a.keyframes : n.keyframes[id].made = a.keyframes[id].made
    /\ \A id \in ids : n.keyframes[id].made = directions

LEMMA AttachGenerationBegins ==
    ASSUME ShotIInv, NEW plan \in plans, AttachGeneration(plan), NEW n, n = pending'.copy,
           NEW ids, ids = CandidateIds(plan.generation)
    PROVE  /\ Begins(<<"shot", "artifacts", "selection">>, n, None) /\ CopyOK(n)
           /\ n.shot = [memory.shot EXCEPT !.generation = plan.generation]
           /\ plan.generation \in 1..MaxGenerations /\ ids \cap DOMAIN memory.keyframes = {}
           /\ memory.shot.generation \in {plan.generation - 1, plan.generation}
           /\ Generating(memory, n, ids, {plan.made, memory.shot.direction})
           /\ ~Locked(memory) /\ plan.made \in Direction /\ n.videos = memory.videos
<1>1. pending = Idle /\ memory # None /\ CopyOK(memory)
    BY ReadyCopy DEF AttachGeneration
<1>2. PICK k : k = [id \in DOMAIN memory.keyframes \cup ids |->
                      IF id \in ids
                      THEN [status |-> "candidate", made |-> {plan.made, memory.shot.direction}]
                      ELSE SupersedeKeyframes(memory.keyframes)[id]]
    OBVIOUS
<1>3. PICK s : s = [memory.shot EXCEPT !.generation = plan.generation]
    OBVIOUS
<1>4. PICK e : e = [candidates |-> ids, selected |-> None]
    OBVIOUS
<1>5. /\ n = [memory EXCEPT !.shot.generation = plan.generation, !.keyframes = k, !.selection = e]
      /\ Begins(<<"shot", "artifacts", "selection">>, n, None)
    BY <1>1, <1>2, <1>4 DEF AttachGeneration, Write, Begins, Persist, PublishedInOrder
<1>6. n = Copy(s, k, memory.videos, e)
    BY <1>1, <1>3, <1>5 DEF CopyOK, Copy
<1>7. plan.generation \in 1..MaxGenerations /\ plan.made \in Direction
    BY DEF ShotIInv, ShotTypes, Plan
<1>8. s \in Shot
  <2>1. plan.generation \in 0..MaxGenerations
      BY <1>7, PublicationFacts
  <2> QED BY <1>1, <1>3, <2>1, CopyParts DEF Shot
<1>9. ids \subseteq Keyframe
    BY <1>7 DEF CandidateIds, Keyframe
<1>10. e \in Selection
    BY <1>4, <1>9 DEF Selection
<1>11. PICK q : q = SupersedeKeyframes(memory.keyframes)
    OBVIOUS
<1>12. /\ RecordsOf(q, Keyframe, KeyframeRecord) /\ DOMAIN q = DOMAIN memory.keyframes
       /\ \A id \in DOMAIN q : /\ q[id].status = "superseded"
                               /\ q[id].made = memory.keyframes[id].made
    BY <1>1, <1>11, KeyframesSuperseded, CopyParts
<1>13. PICK r : r = [status |-> "candidate", made |-> {plan.made, memory.shot.direction}]
    OBVIOUS
<1>14. /\ r \in KeyframeRecord /\ r.status = "candidate"
       /\ r.made = {plan.made, memory.shot.direction}
  <2>1. memory.shot.direction \in Direction
      BY <1>1, CopyParts
  <2>2. {plan.made, memory.shot.direction} \subseteq Direction
      BY <2>1, <1>7
  <2> QED BY <1>13, <2>2 DEF KeyframeRecord, Status
<1>15. k = [id \in DOMAIN q \cup ids |-> IF id \in ids THEN r ELSE q[id]]
    BY <1>2, <1>11, <1>12, <1>13
<1>16. /\ RecordsOf(k, Keyframe, KeyframeRecord) /\ DOMAIN k = DOMAIN memory.keyframes \cup ids
       /\ \A id \in DOMAIN k :
             k[id].status = IF id \in ids THEN "candidate" ELSE "superseded"
       /\ \A id \in ids : k[id].made = {plan.made, memory.shot.direction}
       /\ \A id \in DOMAIN memory.keyframes : id \notin ids =>
             k[id].made = memory.keyframes[id].made
    BY <1>9, <1>12, <1>14, <1>15 DEF RecordsOf
<1>17. /\ CopyOK(n) /\ n.shot = s /\ n.keyframes = k /\ n.videos = memory.videos
       /\ n.selection = e
    BY <1>1, <1>6, <1>8, <1>10, <1>16, CopyMade, CopyParts
<1>18. /\ ids \cap DOMAIN memory.keyframes = {}
       /\ memory.shot.generation \in {plan.generation - 1, plan.generation}
       /\ ~Locked(memory)
    BY DEF AttachGeneration
<1>19. Generating(memory, n, ids, {plan.made, memory.shot.direction})
    BY <1>4, <1>16, <1>17, <1>18 DEF Generating
<1> QED BY <1>3, <1>5, <1>7, <1>17, <1>18, <1>19

LEMMA KeyframeMarked ==
    ASSUME NEW r \in KeyframeRecord, NEW x \in Status, NEW m, m = [r EXCEPT !.status = x]
    PROVE  m \in KeyframeRecord /\ m.status = x /\ m.made = r.made
BY DEF KeyframeRecord

LEMMA VideoMarked ==
    ASSUME NEW r \in VideoRecord, NEW x \in Status, NEW m, m = [r EXCEPT !.status = x]
    PROVE  m \in VideoRecord /\ m.status = x /\ m.from = r.from /\ m.made = r.made
BY DEF VideoRecord

LEMMA SelectBegins ==
    ASSUME ShotIInv, NEW id \in Keyframe, Select(id), NEW n, n = pending'.copy
    PROVE  /\ Begins(<<"artifacts", "selection">>, n, None) /\ CopyOK(n)
           /\ ~Locked(memory) /\ id \in memory.selection.candidates
           /\ n.shot = memory.shot /\ n.videos = memory.videos
           /\ DOMAIN n.keyframes = DOMAIN memory.keyframes
           /\ \A other \in DOMAIN n.keyframes :
                 n.keyframes[other].status =
                    IF other = id THEN "selected"
                    ELSE IF other = memory.selection.selected THEN "candidate"
                    ELSE memory.keyframes[other].status
           /\ \A other \in DOMAIN n.keyframes :
                 n.keyframes[other].made = memory.keyframes[other].made
           /\ n.selection = [candidates |-> memory.selection.candidates, selected |-> id]
<1>1. pending = Idle /\ memory # None /\ CopyOK(memory)
    BY ReadyCopy DEF Select
<1>2. PICK k : k = [other \in DOMAIN memory.keyframes |->
                      IF other = id THEN [memory.keyframes[other] EXCEPT !.status = "selected"]
                      ELSE IF other = memory.selection.selected
                           THEN [memory.keyframes[other] EXCEPT !.status = "candidate"]
                      ELSE memory.keyframes[other]]
    OBVIOUS
<1>3. PICK e : e = [memory.selection EXCEPT !.selected = id]
    OBVIOUS
<1>4. /\ n = [memory EXCEPT !.keyframes = k, !.selection.selected = id]
      /\ Begins(<<"artifacts", "selection">>, n, None)
      /\ ~Locked(memory) /\ id \in memory.selection.candidates
    BY <1>1, <1>2 DEF Select, Write, Begins, Persist
<1>5. n = Copy(memory.shot, k, memory.videos, e)
    BY <1>1, <1>3, <1>4 DEF CopyOK, Copy
<1>6. /\ e \in Selection /\ e = [candidates |-> memory.selection.candidates, selected |-> id]
    BY <1>1, <1>3, CopyParts DEF Selection
<1>7. \A other \in DOMAIN memory.keyframes :
         /\ k[other] \in KeyframeRecord
         /\ k[other].status = IF other = id THEN "selected"
                              ELSE IF other = memory.selection.selected THEN "candidate"
                              ELSE memory.keyframes[other].status
         /\ k[other].made = memory.keyframes[other].made
  <2> SUFFICES ASSUME NEW other \in DOMAIN memory.keyframes
               PROVE  /\ k[other] \in KeyframeRecord
                      /\ k[other].status = IF other = id THEN "selected"
                              ELSE IF other = memory.selection.selected THEN "candidate"
                              ELSE memory.keyframes[other].status
                      /\ k[other].made = memory.keyframes[other].made
      OBVIOUS
  <2>1. PICK r : r = memory.keyframes[other]
      OBVIOUS
  <2>2. r \in KeyframeRecord
      BY <1>1, <2>1, CopyParts
  <2>3. "selected" \in Status /\ "candidate" \in Status
      BY DEF Status
  <2>4. k[other] = IF other = id THEN [r EXCEPT !.status = "selected"]
                   ELSE IF other = memory.selection.selected
                        THEN [r EXCEPT !.status = "candidate"] ELSE r
      BY <1>2, <2>1
  <2> QED BY <2>1, <2>2, <2>3, <2>4, KeyframeMarked
<1>8. RecordsOf(k, Keyframe, KeyframeRecord) /\ DOMAIN k = DOMAIN memory.keyframes
  <2>1. DOMAIN k = DOMAIN memory.keyframes /\ k = [other \in DOMAIN k |-> k[other]]
      BY <1>2
  <2>2. DOMAIN memory.keyframes \subseteq Keyframe
      BY <1>1, CopyParts
  <2> QED BY <1>7, <2>1, <2>2 DEF RecordsOf
<1>9. /\ CopyOK(n) /\ n.shot = memory.shot /\ n.keyframes = k /\ n.videos = memory.videos
      /\ n.selection = e
    BY <1>1, <1>5, <1>6, <1>8, CopyMade, CopyParts
<1> QED BY <1>4, <1>6, <1>7, <1>8, <1>9

LEMMA LockBegins ==
    ASSUME ShotIInv, Lock, NEW n, n = pending'.copy
    PROVE  /\ Begins(<<"artifacts">>, n, None) /\ CopyOK(n)
           /\ memory.selection.selected # None /\ ~Locked(memory) /\ ~Stale(memory)
           /\ n.shot = memory.shot /\ n.videos = memory.videos /\ n.selection = memory.selection
           /\ DOMAIN n.keyframes = DOMAIN memory.keyframes
           /\ \A id \in DOMAIN n.keyframes :
                 n.keyframes[id].status = IF id = memory.selection.selected THEN "locked"
                                          ELSE memory.keyframes[id].status
           /\ \A id \in DOMAIN n.keyframes :
                 n.keyframes[id].made = memory.keyframes[id].made
<1>1. pending = Idle /\ memory # None /\ CopyOK(memory)
    BY ReadyCopy DEF Lock
<1>2. PICK chosen : chosen = memory.selection.selected
    OBVIOUS
<1>3. PICK k : k = [memory.keyframes EXCEPT ![chosen].status = "locked"]
    OBVIOUS
<1>4. /\ n = [memory EXCEPT !.keyframes[chosen].status = "locked"]
      /\ Begins(<<"artifacts">>, n, None) /\ chosen # None
      /\ ~Locked(memory) /\ ~Stale(memory)
    BY <1>1, <1>2 DEF Lock, Write, Begins, Persist
<1>5. n = Copy(memory.shot, k, memory.videos, memory.selection)
    BY <1>1, <1>3, <1>4 DEF CopyOK, Copy
<1>6. /\ DOMAIN k = DOMAIN memory.keyframes /\ k = [id \in DOMAIN k |-> k[id]]
      /\ \A id \in DOMAIN k :
            k[id] = IF id = chosen THEN [memory.keyframes[id] EXCEPT !.status = "locked"]
                    ELSE memory.keyframes[id]
  <2>1. memory.keyframes \in [DOMAIN memory.keyframes -> KeyframeRecord]
      BY <1>1, CopyParts DEF RecordsOf
  <2> QED BY <1>3, <2>1
<1>7. \A id \in DOMAIN k : /\ k[id] \in KeyframeRecord
                           /\ k[id].status = IF id = chosen THEN "locked"
                                             ELSE memory.keyframes[id].status
                           /\ k[id].made = memory.keyframes[id].made
  <2> SUFFICES ASSUME NEW id \in DOMAIN k
               PROVE  /\ k[id] \in KeyframeRecord
                      /\ k[id].status = IF id = chosen THEN "locked"
                                        ELSE memory.keyframes[id].status
                      /\ k[id].made = memory.keyframes[id].made
      OBVIOUS
  <2>1. PICK r : r = memory.keyframes[id]
      OBVIOUS
  <2>2. r \in KeyframeRecord
      BY <1>1, <1>6, <2>1, CopyParts
  <2>3. "locked" \in Status
      BY DEF Status
  <2>4. k[id] = IF id = chosen THEN [r EXCEPT !.status = "locked"] ELSE r
      BY <1>6, <2>1
  <2> QED BY <2>1, <2>2, <2>3, <2>4, KeyframeMarked
<1>8. RecordsOf(k, Keyframe, KeyframeRecord)
  <2>1. DOMAIN memory.keyframes \subseteq Keyframe
      BY <1>1, CopyParts
  <2> QED BY <1>6, <1>7, <2>1 DEF RecordsOf
<1>9. /\ CopyOK(n) /\ n.shot = memory.shot /\ n.keyframes = k /\ n.videos = memory.videos
      /\ n.selection = memory.selection
    BY <1>1, <1>5, <1>8, CopyMade, CopyParts
<1> QED BY <1>2, <1>4, <1>6, <1>7, <1>9

LEMMA ResetBegins ==
    ASSUME ShotIInv, Reset, NEW n, n = pending'.copy
    PROVE  /\ Begins(<<"shot", "artifacts", "selection">>, n, None) /\ CopyOK(n)
           /\ \E d \in Direction : n.shot = [memory.shot EXCEPT !.direction = d]
           /\ DOMAIN n.keyframes = DOMAIN memory.keyframes
           /\ \A id \in DOMAIN n.keyframes : n.keyframes[id].status = "superseded"
           /\ \A id \in DOMAIN n.keyframes :
                 n.keyframes[id].made = memory.keyframes[id].made
           /\ DOMAIN n.videos = DOMAIN memory.videos
           /\ \A id \in DOMAIN n.videos : n.videos[id].status = "superseded"
           /\ n.selection = [candidates |-> {}, selected |-> None]
           /\ Keeps(n, memory) /\ Keeps(memory, n)
<1>1. pending = Idle /\ memory # None /\ CopyOK(memory)
    BY ReadyCopy DEF Reset
<1>2. PICK d : d = IF planned = Unplanned THEN Default ELSE planned
    OBVIOUS
<1>3. d \in Direction
    BY <1>2, PublicationFacts DEF ShotIInv, ShotTypes
<1>4. PICK k : k = SupersedeKeyframes(memory.keyframes)
    OBVIOUS
<1>5. PICK v : v = SupersedeVideos(memory.videos)
    OBVIOUS
<1>6. PICK e : e = [candidates |-> {}, selected |-> None]
    OBVIOUS
<1>7. PICK s : s = [memory.shot EXCEPT !.direction = d]
    OBVIOUS
<1>8. /\ n = [memory EXCEPT !.shot.direction = d, !.keyframes = k, !.videos = v, !.selection = e]
      /\ Begins(<<"shot", "artifacts", "selection">>, n, None)
    BY <1>1, <1>2, <1>4, <1>5, <1>6 DEF Reset, Write, Begins, Persist, PublishedInOrder
<1>9. n = Copy(s, k, v, e)
    BY <1>1, <1>7, <1>8 DEF CopyOK, Copy
<1>10. /\ RecordsOf(k, Keyframe, KeyframeRecord) /\ DOMAIN k = DOMAIN memory.keyframes
       /\ \A id \in DOMAIN k : /\ k[id].status = "superseded"
                               /\ k[id].made = memory.keyframes[id].made
    BY <1>1, <1>4, KeyframesSuperseded, CopyParts
<1>11. /\ RecordsOf(v, Video, VideoRecord) /\ DOMAIN v = DOMAIN memory.videos
       /\ \A id \in DOMAIN v : /\ v[id].status = "superseded"
                               /\ v[id].from = memory.videos[id].from
                               /\ v[id].made = memory.videos[id].made
    BY <1>1, <1>5, VideosSuperseded, CopyParts
<1>12. s \in Shot
    BY <1>1, <1>3, <1>7, CopyParts DEF Shot
<1>13. e \in Selection
    BY <1>6 DEF Selection
<1>14. CopyOK(n) /\ n.shot = s /\ n.keyframes = k /\ n.videos = v /\ n.selection = e
    BY <1>9, <1>10, <1>11, <1>12, <1>13, CopyMade
<1>15. Keeps(n, memory) /\ Keeps(memory, n)
    BY <1>11, <1>14 DEF Keeps
<1> QED BY <1>3, <1>6, <1>7, <1>8, <1>10, <1>11, <1>14, <1>15

(* What attaching a video makes of the videos: it joins those in play, or  *)
(* is kept aside, and of a newer generation takes the others out of play.  *)
Attaching(a, n, job, late) ==
    LET newer == ~late /\ job.id[1] > a.shot.video IN
    /\ job.id \notin DOMAIN a.videos /\ job.from \in Keyframe /\ job.made \in Direction
    /\ n.shot.video = IF newer THEN job.id[1] ELSE a.shot.video
    /\ DOMAIN n.videos = DOMAIN a.videos \cup {job.id}
    /\ n.videos[job.id].status = IF late THEN "superseded" ELSE "candidate"
    /\ n.videos[job.id].from = job.from /\ n.videos[job.id].made = job.made
    /\ \A id \in DOMAIN a.videos :
          IF newer THEN n.videos[id].status = "superseded" ELSE n.videos[id] = a.videos[id]

LEMMA AttachVideoBegins ==
    ASSUME ShotIInv, NEW job \in jobs, AttachVideo(job), NEW n, n = pending'.copy
    PROVE  /\ Begins(<<"shot", "artifacts">>, n, job.id) /\ CopyOK(n) /\ job.id \in Video
           /\ \E v \in 0..MaxVideos : n.shot = [memory.shot EXCEPT !.video = v]
           /\ n.keyframes = memory.keyframes /\ n.selection = memory.selection
           /\ Keeps(n, memory) /\ Attaching(memory, n, job, Late(memory, job.id[1]))
<1>1. pending = Idle /\ memory # None /\ CopyOK(memory)
    BY ReadyCopy DEF AttachVideo
<1>2. job \in Job /\ job.id \in Video /\ job.from \in Keyframe /\ job.made \in Direction
    BY DEF ShotIInv, ShotTypes, Job
<1>3. PICK late : late = Late(memory, job.id[1])
    OBVIOUS
<1>4. PICK newer : newer = (~late /\ job.id[1] > memory.shot.video)
    OBVIOUS
<1>5. PICK q : q = SupersedeVideos(memory.videos)
    OBVIOUS
<1>6. PICK r : r = [status |-> IF late THEN "superseded" ELSE "candidate",
                    from |-> job.from, made |-> job.made]
    OBVIOUS
<1>7. PICK v : v = [id \in DOMAIN memory.videos \cup {job.id} |->
                      IF id = job.id THEN r
                      ELSE IF newer THEN q[id] ELSE memory.videos[id]]
    OBVIOUS
<1>8. PICK x : x = IF newer THEN job.id[1] ELSE memory.shot.video
    OBVIOUS
<1>9. PICK s : s = [memory.shot EXCEPT !.video = x]
    OBVIOUS
<1>10. /\ n = WithVideo(memory, job) /\ Begins(<<"shot", "artifacts">>, n, job.id)
       /\ job.id \notin DOMAIN memory.videos
    BY <1>1 DEF AttachVideo, Begins, Persist
<1>11. n = [memory EXCEPT !.shot.video = x, !.videos = v]
    BY <1>3, <1>4, <1>5, <1>6, <1>7, <1>8, <1>10 DEF WithVideo
<1>12. n = Copy(s, memory.keyframes, v, memory.selection)
    BY <1>1, <1>9, <1>11 DEF CopyOK, Copy
<1>13. x \in 0..MaxVideos
  <2>1. job.id[1] \in 1..MaxVideos
      BY <1>2 DEF Video
  <2> QED BY <1>1, <1>8, <2>1, CopyParts, PublicationFacts
<1>14. s \in Shot
    BY <1>1, <1>9, <1>13, CopyParts DEF Shot
<1>15. /\ RecordsOf(q, Video, VideoRecord) /\ DOMAIN q = DOMAIN memory.videos
       /\ \A id \in DOMAIN q : /\ q[id].status = "superseded"
                               /\ q[id].from = memory.videos[id].from
                               /\ q[id].made = memory.videos[id].made
    BY <1>1, <1>5, VideosSuperseded, CopyParts
<1>16. r \in VideoRecord
    BY <1>2, <1>6 DEF VideoRecord, Status
<1>17. RecordsOf(v, Video, VideoRecord)
  <2>1. /\ DOMAIN memory.videos \subseteq Video
        /\ \A id \in DOMAIN memory.videos : memory.videos[id] \in VideoRecord
      BY <1>1, CopyParts
  <2>2. \A id \in DOMAIN v : v[id] \in VideoRecord
      BY <1>7, <1>15, <1>16, <2>1 DEF RecordsOf
  <2>3. DOMAIN v \subseteq Video /\ v = [id \in DOMAIN v |-> v[id]]
      BY <1>2, <1>7, <2>1
  <2> QED BY <2>2, <2>3 DEF RecordsOf
<1>18. /\ CopyOK(n) /\ n.shot = s /\ n.keyframes = memory.keyframes /\ n.videos = v
       /\ n.selection = memory.selection
    BY <1>1, <1>12, <1>14, <1>17, CopyMade, CopyParts
<1>19. Keeps(n, memory)
    BY <1>7, <1>10, <1>15, <1>18 DEF Keeps
<1>20. n.shot.video = x
    BY <1>1, <1>9, <1>18, CopyParts DEF Shot
<1>21. DOMAIN n.videos = DOMAIN memory.videos \cup {job.id}
    BY <1>7, <1>18
<1>22. /\ n.videos[job.id].status = IF late THEN "superseded" ELSE "candidate"
       /\ n.videos[job.id].from = job.from /\ n.videos[job.id].made = job.made
  <2>1. n.videos[job.id] = r
      BY <1>7, <1>18
  <2> QED BY <1>6, <2>1
<1>23. \A id \in DOMAIN memory.videos :
          IF newer THEN n.videos[id].status = "superseded" ELSE n.videos[id] = memory.videos[id]
  <2>1. \A id \in DOMAIN memory.videos :
           n.videos[id] = IF newer THEN q[id] ELSE memory.videos[id]
      BY <1>7, <1>10, <1>18
  <2> QED BY <1>15, <2>1
<1>24. Attaching(memory, n, job, late)
    BY <1>2, <1>4, <1>8, <1>10, <1>20, <1>21, <1>22, <1>23 DEF Attaching
<1> QED BY <1>2, <1>3, <1>9, <1>10, <1>13, <1>18, <1>19, <1>24

(* Marking videos, one or some.                                            *)
Marks(v, w) ==
    /\ DOMAIN v = DOMAIN w /\ v = [id \in DOMAIN v |-> v[id]]
    /\ \A id \in DOMAIN v : \/ v[id] = w[id]
                            \/ \E x \in Status : v[id] = [w[id] EXCEPT !.status = x]

LEMMA VideosMarked ==
    ASSUME NEW c, CopyOK(c), NEW v, Marks(v, c.videos),
           NEW n, n = Copy(c.shot, c.keyframes, v, c.selection)
    PROVE  /\ CopyOK(n) /\ n.shot = c.shot /\ n.keyframes = c.keyframes /\ n.selection = c.selection
           /\ n.videos = v /\ Keeps(n, c) /\ Keeps(c, n)
<1>1. ASSUME NEW id \in DOMAIN v
      PROVE  v[id] \in VideoRecord /\ v[id].from = c.videos[id].from /\ v[id].made = c.videos[id].made
  <2>1. PICK r : r = c.videos[id]
      OBVIOUS
  <2>2. r \in VideoRecord
      BY <2>1, CopyParts DEF Marks
  <2>3. v[id] = r \/ \E x \in Status : v[id] = [r EXCEPT !.status = x]
      BY <2>1 DEF Marks
  <2>4. CASE v[id] = r
      BY <2>1, <2>2, <2>4 DEF VideoRecord
  <2>5. ASSUME NEW x \in Status, v[id] = [r EXCEPT !.status = x]
        PROVE  v[id] \in VideoRecord /\ v[id].from = r.from /\ v[id].made = r.made
      BY <2>2, <2>5, VideoMarked
  <2> QED BY <2>1, <2>3, <2>4, <2>5
<1>2. RecordsOf(v, Video, VideoRecord)
  <2>1. DOMAIN v = DOMAIN c.videos /\ v = [id \in DOMAIN v |-> v[id]]
      BY DEF Marks
  <2> QED BY <1>1, <2>1, CopyParts DEF RecordsOf
<1>3. /\ CopyOK(n) /\ n.shot = c.shot /\ n.keyframes = c.keyframes /\ n.selection = c.selection
      /\ n.videos = v
    BY <1>2, CopyMade, CopyParts
<1> QED BY <1>1, <1>3 DEF Keeps, Marks

LEMMA SelectVideoBegins ==
    ASSUME ShotIInv, NEW id \in Video, SelectVideo(id), NEW n, n = pending'.copy
    PROVE  /\ Begins(<<"artifacts">>, n, None) /\ CopyOK(n)
           /\ n.shot = memory.shot /\ n.keyframes = memory.keyframes /\ n.selection = memory.selection
           /\ Keeps(n, memory) /\ Keeps(memory, n)
           /\ ~LockedVideo(memory) /\ id \in CurrentVideos(memory)
           /\ DOMAIN n.videos = DOMAIN memory.videos
           /\ \A other \in DOMAIN memory.videos :
                 n.videos[other].status =
                    IF other = id THEN "selected"
                    ELSE IF other \in CurrentVideos(memory) THEN "candidate"
                    ELSE memory.videos[other].status
<1>1. pending = Idle /\ memory # None /\ CopyOK(memory)
    BY ReadyCopy DEF SelectVideo
<1>2. PICK v : v = [other \in DOMAIN memory.videos |->
                IF other = id THEN [memory.videos[other] EXCEPT !.status = "selected"]
                ELSE IF other \in CurrentVideos(memory)
                     THEN [memory.videos[other] EXCEPT !.status = "candidate"]
                ELSE memory.videos[other]]
    OBVIOUS
<1>3. n = [memory EXCEPT !.videos = v] /\ Begins(<<"artifacts">>, n, None)
    BY <1>1, <1>2 DEF SelectVideo, Write, Begins, Persist
<1>4. n = Copy(memory.shot, memory.keyframes, v, memory.selection)
    BY <1>1, <1>3 DEF CopyOK, Copy
<1>5. DOMAIN v = DOMAIN memory.videos /\ v = [other \in DOMAIN v |-> v[other]]
    BY <1>2
<1>6. \A other \in DOMAIN v : \/ v[other] = memory.videos[other]
                              \/ \E x \in Status : v[other] = [memory.videos[other] EXCEPT !.status = x]
  <2>1. "selected" \in Status /\ "candidate" \in Status
      BY DEF Status
  <2> QED BY <1>2, <2>1, Zenon
<1>7. Marks(v, memory.videos)
    BY <1>5, <1>6, Zenon DEF Marks
<1>8. n.videos = v
    BY <1>1, <1>4, <1>7, VideosMarked
<1>9. ASSUME NEW other \in DOMAIN memory.videos
      PROVE  v[other].status = IF other = id THEN "selected"
                               ELSE IF other \in CurrentVideos(memory) THEN "candidate"
                               ELSE memory.videos[other].status
  <2>1. PICK r : r = memory.videos[other]
      OBVIOUS
  <2>2. r \in VideoRecord /\ "selected" \in Status /\ "candidate" \in Status
      BY <1>1, <2>1, CopyParts DEF Status
  <2>3. v[other] = IF other = id THEN [r EXCEPT !.status = "selected"]
                   ELSE IF other \in CurrentVideos(memory)
                        THEN [r EXCEPT !.status = "candidate"] ELSE r
      BY <1>2, <2>1
  <2> QED BY <2>1, <2>2, <2>3, VideoMarked
<1>10. ~LockedVideo(memory) /\ id \in CurrentVideos(memory)
    BY DEF SelectVideo
<1>11. /\ CopyOK(n) /\ n.shot = memory.shot /\ n.keyframes = memory.keyframes
       /\ n.selection = memory.selection /\ Keeps(n, memory) /\ Keeps(memory, n)
    BY <1>1, <1>4, <1>7, VideosMarked
<1> QED BY <1>3, <1>5, <1>8, <1>9, <1>10, <1>11

LEMMA LockVideoBegins ==
    ASSUME ShotIInv, LockVideo, NEW n, n = pending'.copy
    PROVE  /\ Begins(<<"artifacts">>, n, None) /\ CopyOK(n)
           /\ n.shot = memory.shot /\ n.keyframes = memory.keyframes /\ n.selection = memory.selection
           /\ Keeps(n, memory) /\ Keeps(memory, n)
           /\ ~LockedVideo(memory) /\ DOMAIN n.videos = DOMAIN memory.videos
           /\ \E id \in CurrentVideos(memory) :
                 /\ Follows(memory, id)
                 /\ \A other \in DOMAIN memory.videos :
                       n.videos[other].status =
                          IF other = id THEN "locked" ELSE memory.videos[other].status
<1>1. pending = Idle /\ memory # None /\ CopyOK(memory)
    BY ReadyCopy DEF LockVideo
<1>2. PICK id \in Chosen(memory) :
         /\ Follows(memory, id)
         /\ Write(<<"artifacts">>, [memory EXCEPT !.videos[id].status = "locked"])
    BY DEF LockVideo
<1>3. PICK v : v = [memory.videos EXCEPT ![id].status = "locked"]
    OBVIOUS
<1>4. n = [memory EXCEPT !.videos[id].status = "locked"] /\ Begins(<<"artifacts">>, n, None)
    BY <1>1, <1>2 DEF Write, Begins, Persist
<1>5. n = Copy(memory.shot, memory.keyframes, v, memory.selection)
    BY <1>1, <1>3, <1>4 DEF CopyOK, Copy
<1>6. /\ DOMAIN v = DOMAIN memory.videos /\ v = [other \in DOMAIN v |-> v[other]]
      /\ \A other \in DOMAIN v :
            v[other] = IF other = id THEN [memory.videos[other] EXCEPT !.status = "locked"]
                       ELSE memory.videos[other]
  <2>1. memory.videos \in [DOMAIN memory.videos -> VideoRecord]
      BY <1>1, CopyParts DEF RecordsOf
  <2> QED BY <1>3, <2>1
<1>7. \A other \in DOMAIN v : \/ v[other] = memory.videos[other]
                              \/ \E x \in Status : v[other] = [memory.videos[other] EXCEPT !.status = x]
  <2>1. "locked" \in Status
      BY DEF Status
  <2> QED BY <1>6, <2>1, Zenon
<1>8. Marks(v, memory.videos)
    BY <1>6, <1>7, Zenon DEF Marks
<1>9. /\ CopyOK(n) /\ n.shot = memory.shot /\ n.keyframes = memory.keyframes /\ n.videos = v
      /\ n.selection = memory.selection /\ Keeps(n, memory) /\ Keeps(memory, n)
    BY <1>1, <1>5, <1>8, VideosMarked
<1>10. ASSUME NEW other \in DOMAIN memory.videos
       PROVE  v[other].status = IF other = id THEN "locked" ELSE memory.videos[other].status
  <2>1. PICK r : r = memory.videos[other]
      OBVIOUS
  <2>2. r \in VideoRecord /\ "locked" \in Status
      BY <1>1, <2>1, CopyParts DEF Status
  <2>3. v[other] = IF other = id THEN [r EXCEPT !.status = "locked"] ELSE r
      BY <1>6, <2>1
  <2> QED BY <2>1, <2>2, <2>3, VideoMarked
<1>11. ~LockedVideo(memory) /\ id \in CurrentVideos(memory)
    BY DEF LockVideo, Chosen
<1> QED BY <1>2, <1>4, <1>6, <1>9, <1>10, <1>11

(* The files as a plan's shots are written.                                *)
LEMMA MaterializedIs ==
    ASSUME NEW c, CopyOK(c), NEW d \in Direction \cup {Unplanned}, NEW n, n = Materialized(c, d)
    PROVE  /\ CopyOK(n) /\ n.keyframes = c.keyframes /\ n.videos = c.videos
           /\ n.selection = c.selection
           /\ n.shot = c.shot \/ \E x \in Direction : n.shot = [c.shot EXCEPT !.direction = x]
<1>1. CASE d = Unplanned
    BY <1>1 DEF Materialized
<1>2. CASE d \in Direction
  <2>1. n = [c EXCEPT !.shot.direction = d]
      BY <1>2, PublicationFacts DEF Materialized
  <2>2. PICK s : s = [c.shot EXCEPT !.direction = d]
      OBVIOUS
  <2>3. n = Copy(s, c.keyframes, c.videos, c.selection)
      BY <2>1, <2>2 DEF CopyOK, Copy
  <2>4. s \in Shot
      BY <1>2, <2>2, CopyParts DEF Shot
  <2>5. /\ CopyOK(n) /\ n.shot = s /\ n.keyframes = c.keyframes /\ n.videos = c.videos
        /\ n.selection = c.selection
      BY <2>3, <2>4, CopyMade, CopyParts
  <2> QED BY <1>2, <2>2, <2>5
<1> QED BY <1>1, <1>2

(* A file written over.                                                    *)
LEMMA ReplacedIs ==
    ASSUME NEW a, CopyOK(a), NEW c, CopyOK(c), NEW file \in File
    PROVE  /\ Replaced(a, file, c) = Mixture(a, c, {file})
           /\ CopyOK(Replaced(a, file, c))
           /\ Replaced(a, file, c).videos = IF file = "artifacts" THEN c.videos ELSE a.videos
<1>0. PICK n : n = Replaced(a, file, c)
    OBVIOUS
<1>1. CASE file = "shot"
  <2>1. n = [a EXCEPT !.shot = c.shot]
      BY <1>0, <1>1 DEF Replaced
  <2>2. n = Copy(c.shot, a.keyframes, a.videos, a.selection)
      BY <2>1 DEF CopyOK, Copy
  <2> QED BY <1>0, <1>1, <2>2, CopyMade, CopyParts DEF Mixture
<1>2. CASE file = "artifacts"
  <2>1. n = [a EXCEPT !.keyframes = c.keyframes, !.videos = c.videos]
      BY <1>0, <1>2 DEF Replaced
  <2>2. n = Copy(a.shot, c.keyframes, c.videos, a.selection)
      BY <2>1 DEF CopyOK, Copy
  <2> QED BY <1>0, <1>2, <2>2, CopyMade, CopyParts DEF Mixture
<1>3. CASE file = "selection"
  <2>1. n = [a EXCEPT !.selection = c.selection]
      BY <1>0, <1>3 DEF Replaced
  <2>2. n = Copy(a.shot, a.keyframes, a.videos, c.selection)
      BY <2>1 DEF CopyOK, Copy
  <2> QED BY <1>0, <1>3, <2>2, CopyMade, CopyParts DEF Mixture
<1> QED BY <1>1, <1>2, <1>3 DEF File

LEMMA IdleIs ==
    /\ Idle.files = <<>> /\ Idle.job = None /\ Idle.copy = None /\ Idle.settled = TRUE
BY DEF Idle

(* A step that leaves nothing to write.                                    *)
LEMMA NothingBegun ==
    ASSUME ShotTypes', pending' = Idle, memory' # None => Keeps(memory', disk')
    PROVE  ShotIInv'
<1>1. ~(pending' # Idle)
    OBVIOUS
<1>2. (pending # Idle => Keeps(pending.copy, disk))'
    BY <1>1
<1>3. (pending # Idle /\ pending.job = None /\ memory # None => Keeps(memory, pending.copy))'
    BY <1>1
<1>4. (pending.job = None /\ memory # None => Keeps(memory, disk))'
    OBVIOUS
<1> QED BY <1>2, <1>3, <1>4 DEF ShotIInv

(* The operation under way writes a file more.                             *)
LEMMA UnderWay ==
    ASSUME ShotIInv, pending # Idle, NEW n, n = Replaced(disk, Head(pending.files), pending.copy)
    PROVE  /\ CopyOK(n) /\ Keeps(n, disk) /\ Keeps(pending.copy, n)
           /\ pending.job = None /\ memory # None => Keeps(memory, n)
           /\ pending = [files |-> pending.files, copy |-> pending.copy,
                         job |-> pending.job, settled |-> pending.settled]
           /\ CopyOK(disk) /\ CopyOK(pending.copy) /\ pending.files \in ToWrite
           /\ pending.job \in Video \cup {None} /\ pending.settled \in BOOLEAN
           /\ (memory # None => CopyOK(memory))
<1>1. /\ CopyOK(disk) /\ CopyOK(pending.copy) /\ pending.files \in ToWrite
      /\ pending = [files |-> pending.files, copy |-> pending.copy,
                    job |-> pending.job, settled |-> pending.settled]
      /\ pending.job \in Video \cup {None} /\ pending.settled \in BOOLEAN
      /\ Keeps(pending.copy, disk) /\ (memory # None => CopyOK(memory))
      /\ pending.job = None /\ memory # None => Keeps(memory, disk) /\ Keeps(memory, pending.copy)
    BY DEF ShotIInv, ShotTypes, PendingOK
<1>2. PICK file \in File : file = Head(pending.files)
    BY <1>1, ToWriteIs
<1>3. CopyOK(n) /\ (n.videos = disk.videos \/ n.videos = pending.copy.videos)
  <2>1. PICK c : c = pending.copy
      OBVIOUS
  <2>2. n = Replaced(disk, file, c) /\ CopyOK(disk) /\ CopyOK(c)
      BY <1>1, <1>2, <2>1
  <2>3. /\ CopyOK(Replaced(disk, file, c))
        /\ Replaced(disk, file, c).videos = IF file = "artifacts" THEN c.videos ELSE disk.videos
      BY <2>2, ReplacedIs
  <2> QED BY <2>1, <2>2, <2>3
<1>4. Keeps(n, disk) /\ Keeps(pending.copy, n)
    BY <1>1, <1>3 DEF Keeps
<1>5. pending.job = None /\ memory # None => Keeps(memory, n)
    BY <1>1, <1>3 DEF Keeps
<1> QED BY <1>1, <1>3, <1>4, <1>5

LEMMA WriteNextKeeps ==
    ASSUME ShotIInv, pending # Idle, WriteNext
    PROVE  ShotIInv' /\ Keeps(disk', disk)
<1>1. /\ disk' = Replaced(disk, Head(pending.files), pending.copy)
      /\ planned' = planned /\ plans' = plans /\ jobs' = jobs /\ left' = left
      /\ astray' = astray
    BY DEF WriteNext
<1>2. /\ CopyOK(disk') /\ Keeps(disk', disk) /\ Keeps(pending.copy, disk')
      /\ pending.job = None /\ memory # None => Keeps(memory, disk')
    BY <1>1, UnderWay
<1>3. /\ pending = [files |-> pending.files, copy |-> pending.copy,
                    job |-> pending.job, settled |-> pending.settled]
      /\ CopyOK(pending.copy) /\ pending.files \in ToWrite
      /\ pending.job \in Video \cup {None} /\ pending.settled \in BOOLEAN
      /\ (memory # None => CopyOK(memory))
    BY <1>1, UnderWay
<1>4. CASE Len(pending.files) > 1
  <2>1. memory' = memory /\ pending' = [pending EXCEPT !.files = Tail(pending.files)]
      BY <1>4 DEF WriteNext
  <2>2. pending' = [files |-> Tail(pending.files), copy |-> pending.copy,
                    job |-> pending.job, settled |-> pending.settled]
      BY <1>3, <2>1
  <2>3. /\ pending' = [files |-> pending'.files, copy |-> pending'.copy,
                       job |-> pending'.job, settled |-> pending'.settled]
        /\ pending'.files = Tail(pending.files) /\ pending'.copy = pending.copy
        /\ pending'.job = pending.job /\ pending'.settled = pending.settled
      BY <2>2
  <2>4. pending'.files \in ToWrite
      BY <1>3, <1>4, <2>3, ToWriteIs
  <2>5. PendingOK'
      BY <1>3, <2>3, <2>4 DEF PendingOK
  <2>6. ShotTypes'
      BY <1>1, <1>2, <1>3, <2>1, <2>5 DEF ShotIInv, ShotTypes
  <2>7. (pending # Idle => Keeps(pending.copy, disk))'
      BY <1>2, <2>3
  <2>8. (pending # Idle /\ pending.job = None /\ memory # None => Keeps(memory, pending.copy))'
      BY <2>1, <2>3 DEF ShotIInv
  <2>9. (pending.job = None /\ memory # None => Keeps(memory, disk))'
      BY <1>2, <2>1, <2>3
  <2> QED BY <1>2, <2>6, <2>7, <2>8, <2>9 DEF ShotIInv
<1>5. CASE ~(Len(pending.files) > 1)
  <2>1. memory' = pending.copy /\ pending' = Idle
      BY <1>5 DEF WriteNext
  <2>2. PendingOK'
      BY <2>1 DEF PendingOK
  <2>3. ShotTypes'
      BY <1>1, <1>2, <1>3, <2>1, <2>2 DEF ShotIInv, ShotTypes
  <2> QED BY <1>2, <2>1, <2>3, NothingBegun
<1> QED BY <1>4, <1>5

LEMMA FailWriteKeeps ==
    ASSUME ShotIInv, pending # Idle, FailWrite
    PROVE  ShotIInv' /\ Keeps(disk', disk)
<1>1. /\ disk' \in {disk, Replaced(disk, Head(pending.files), pending.copy)}
      /\ pending' = Idle /\ planned' = planned /\ plans' = plans /\ jobs' = jobs
      /\ astray' \in BOOLEAN
    BY DEF FailWrite, Interrupted
<1>2. /\ CopyOK(disk') /\ Keeps(disk', disk)
      /\ pending.job = None /\ memory # None => Keeps(memory, disk')
  <2>1. CASE disk' = disk
      BY <2>1, KeepsItsOwn DEF ShotIInv, ShotTypes
  <2>2. CASE disk' = Replaced(disk, Head(pending.files), pending.copy)
      BY <2>2, UnderWay
  <2> QED BY <1>1, <2>1, <2>2
<1>3. pending.job \in Video \cup {None} /\ (memory # None => CopyOK(memory))
    BY DEF ShotIInv, ShotTypes, PendingOK
<1>4. PendingOK'
    BY <1>1 DEF PendingOK
<1>5. CASE pending.job = None
  <2>1. memory' = memory /\ left' = left
      BY <1>5 DEF FailWrite
  <2>2. ShotTypes'
      BY <1>1, <1>2, <1>3, <1>4, <2>1 DEF ShotIInv, ShotTypes
  <2> QED BY <1>1, <1>2, <1>5, <2>1, <2>2, NothingBegun
<1>6. CASE pending.job # None
  <2>1. memory' = None /\ left' = left \cup {pending.job}
      BY <1>6 DEF FailWrite
  <2>2. ShotTypes'
      BY <1>1, <1>2, <1>3, <1>4, <1>6, <2>1 DEF ShotIInv, ShotTypes
  <2> QED BY <1>1, <1>2, <2>1, <2>2, NothingBegun
<1> QED BY <1>5, <1>6

(* Steps that leave the files and what is written to them.                 *)
Rests == UNCHANGED <<disk, memory, pending>>

LEMMA RestingKeeps ==
    ASSUME ShotIInv, Rests, planned' = planned, plans' \subseteq Plan, jobs' \subseteq Job,
           left' \subseteq Video, astray' = astray
    PROVE  ShotIInv' /\ Keeps(disk', disk)
<1>1. disk' = disk /\ memory' = memory /\ pending' = pending
    BY DEF Rests
<1>2. ShotTypes'
    BY <1>1 DEF ShotIInv, ShotTypes, PendingOK
<1> QED BY <1>1, <1>2, KeepsItsOwn DEF ShotIInv

LEMMA PlanGenerationKeeps ==
    ASSUME ShotIInv, PlanGeneration
    PROVE  ShotIInv' /\ Keeps(disk', disk)
<1>1. /\ plans' = plans \cup {[generation |-> memory.shot.generation + 1,
                               made |-> memory.shot.direction]}
      /\ memory.shot.generation < MaxGenerations /\ Rests
      /\ planned' = planned /\ jobs' = jobs /\ left' = left /\ astray' = astray
    BY DEF PlanGeneration, Rests
<1>2. CopyOK(memory)
    BY ReadyCopy DEF PlanGeneration
<1>3. memory.shot.generation + 1 \in 1..MaxGenerations /\ memory.shot.direction \in Direction
    BY <1>1, <1>2, CopyParts, PublicationFacts
<1>4. plans' \subseteq Plan
    BY <1>1, <1>3 DEF ShotIInv, ShotTypes, Plan
<1> QED BY <1>1, <1>4, RestingKeeps DEF ShotIInv, ShotTypes

LEMMA StartVideosKeeps ==
    ASSUME ShotIInv, StartVideos
    PROVE  ShotIInv' /\ Keeps(disk', disk)
<1>1. PICK v : v = memory.shot.video + 1
    OBVIOUS
<1>2. CopyOK(memory)
    BY ReadyCopy DEF StartVideos
<1>3. /\ v <= MaxVideos /\ Rests /\ planned' = planned /\ plans' = plans
      /\ astray' = astray
    BY <1>1 DEF StartVideos, Rests
<1>4. \E from \in LockedKeyframe(memory) : \E asked :
         /\ jobs' = jobs \cup asked /\ left' = left \ {job.id : job \in asked}
         /\ asked \subseteq {[id |-> <<v, n>>, from |-> from, made |-> memory.shot.direction] :
                                n \in 1..Clips}
  <2>1. PICK from \in LockedKeyframe(memory) :
           LET Ask(n) == [id |-> <<v, n>>, from |-> from, made |-> memory.shot.direction]
               asked == {Ask(n) : n \in {n \in 1..Clips : \A m \in 1..n : MayAsk(Ask(m))}}
           IN  /\ jobs' = jobs \cup asked
               /\ left' = left \ {job.id : job \in asked}
      BY <1>1 DEF StartVideos
  <2> DEFINE Ask(n) == [id |-> <<v, n>>, from |-> from, made |-> memory.shot.direction]
             chosen == {Ask(n) : n \in {n \in 1..Clips : \A m \in 1..n : MayAsk(Ask(m))}}
  <2>2. jobs' = jobs \cup chosen /\ left' = left \ {job.id : job \in chosen}
      BY <2>1, Zenon
  <2>3. chosen \subseteq {Ask(n) : n \in 1..Clips}
      OBVIOUS
  <2>4. PICK asked : asked = chosen
      OBVIOUS
  <2> HIDE DEF chosen
  <2>5. /\ jobs' = jobs \cup asked /\ left' = left \ {job.id : job \in asked}
        /\ asked \subseteq {[id |-> <<v, n>>, from |-> from, made |-> memory.shot.direction] :
                                n \in 1..Clips}
      BY <2>2, <2>3, <2>4, Zenon
  <2> QED BY <2>5
<1>5. PICK from \in LockedKeyframe(memory) : \E asked :
         /\ jobs' = jobs \cup asked /\ left' = left \ {job.id : job \in asked}
         /\ asked \subseteq {[id |-> <<v, n>>, from |-> from, made |-> memory.shot.direction] :
                                n \in 1..Clips}
    BY <1>4
<1>6. PICK asked :
         /\ jobs' = jobs \cup asked /\ left' = left \ {job.id : job \in asked}
         /\ asked \subseteq {[id |-> <<v, n>>, from |-> from, made |-> memory.shot.direction] :
                                n \in 1..Clips}
    BY <1>5
<1>7. v \in 1..MaxVideos
    BY <1>1, <1>2, <1>3, CopyParts, PublicationFacts
<1>8. from \in Keyframe
    BY <1>2, <1>5, CopyParts DEF LockedKeyframe
<1>9. memory.shot.direction \in Direction
    BY <1>2, CopyParts
<1>10. \A n \in 1..Clips : [id |-> <<v, n>>, from |-> from, made |-> memory.shot.direction] \in Job
    BY <1>7, <1>8, <1>9 DEF Job, Video
<1>11. asked \subseteq Job
    BY <1>6, <1>10
<1>12. jobs' \subseteq Job /\ left' \subseteq Video /\ plans' \subseteq Plan
    BY <1>3, <1>6, <1>11 DEF ShotIInv, ShotTypes
<1> QED BY <1>3, <1>12, RestingKeeps

LEMMA AcknowledgeKeeps ==
    ASSUME ShotIInv, NEW job \in jobs, Acknowledge(job)
    PROVE  ShotIInv' /\ Keeps(disk', disk)
<1>1. /\ Rests /\ planned' = planned /\ plans' \subseteq Plan /\ jobs' \subseteq Job
      /\ left' \subseteq Video /\ astray' = astray
    BY DEF Acknowledge, Rests, ShotIInv, ShotTypes
<1> QED BY <1>1, RestingKeeps

(* Steps that read the files again, or write them at once.                 *)
LEMMA RereadKeeps ==
    ASSUME ShotIInv, pending' = Idle, CopyOK(disk'), disk'.videos = disk.videos,
           memory' # None => CopyOK(memory') /\ Keeps(memory', disk),
           planned' \in Direction \cup {Unplanned}, plans' = plans, jobs' \subseteq jobs,
           left' \subseteq left, astray' \in BOOLEAN
    PROVE  ShotIInv' /\ Keeps(disk', disk)
<1>1. PendingOK'
    BY DEF PendingOK
<1>2. ShotTypes'
    BY <1>1 DEF ShotIInv, ShotTypes
<1>3. Keeps(disk', disk) /\ (memory' # None => Keeps(memory', disk'))
    BY DEF Keeps
<1> QED BY <1>2, <1>3, NothingBegun

LEMMA ShotParts ==
    ASSUME ShotIInv
    PROVE  /\ CopyOK(disk) /\ planned \in Direction \cup {Unplanned} /\ astray \in BOOLEAN
           /\ pending = Idle /\ memory # None => CopyOK(memory) /\ Keeps(memory, disk)
BY IdleIs DEF ShotIInv, ShotTypes

LEMMA FailVideoKeeps ==
    ASSUME ShotIInv, NEW job \in jobs, FailVideo(job)
    PROVE  ShotIInv' /\ Keeps(disk', disk)
<1>1. /\ disk' = disk /\ pending' = Idle /\ memory' = None /\ planned' = planned /\ plans' = plans
      /\ jobs' \subseteq jobs /\ left' \subseteq left /\ astray' = astray
    BY DEF FailVideo
<1>2. CopyOK(disk') /\ disk'.videos = disk.videos
    BY <1>1, ShotParts
<1>3. planned' \in Direction \cup {Unplanned} /\ astray' \in BOOLEAN
    BY <1>1, ShotParts
<1> QED BY <1>1, <1>2, <1>3, RereadKeeps

LEMMA LoadKeeps ==
    ASSUME ShotIInv, Load
    PROVE  ShotIInv' /\ Keeps(disk', disk)
<1>1. /\ disk' = disk /\ pending' = Idle /\ memory' = Loaded(disk) /\ planned' = planned
      /\ plans' = plans /\ jobs' \subseteq jobs /\ left' \subseteq left /\ astray' = astray
    BY DEF Load
<1>2. /\ CopyOK(disk') /\ disk'.videos = disk.videos /\ planned' \in Direction \cup {Unplanned}
      /\ astray' \in BOOLEAN
    BY <1>1, ShotParts
<1>3. CopyOK(memory') /\ memory'.videos = disk.videos
    BY <1>1, ShotParts, LoadedIs
<1>4. Keeps(memory', disk)
    BY <1>3, KeepsItsOwn
<1> QED BY <1>1, <1>2, <1>3, <1>4, RereadKeeps

LEMMA LockPlanKeeps ==
    ASSUME ShotIInv, NEW d \in Direction, LockPlan(d)
    PROVE  ShotIInv' /\ Keeps(disk', disk)
<1>1. /\ pending = Idle /\ pending' = Idle /\ planned' = d /\ plans' = plans /\ jobs' = jobs
      /\ left' = left /\ (memory' = None \/ memory' = memory)
      /\ disk' = disk \/ disk' = Materialized(disk, d)
    BY DEF LockPlan
<1>2. CopyOK(disk') /\ disk'.videos = disk.videos
    BY <1>1, ShotParts, MaterializedIs
<1>0. astray' \in BOOLEAN
  <2>1. astray' = astray \/ astray' = (astray \/ (memory # None /\ disk' # disk))
      BY DEF LockPlan
  <2> QED BY <2>1, ShotParts
<1>3. memory' # None => CopyOK(memory') /\ Keeps(memory', disk)
    BY <1>1, ShotParts
<1> QED BY <1>0, <1>1, <1>2, <1>3, RereadKeeps

LEMMA CollectKeeps ==
    ASSUME ShotIInv, Collect
    PROVE  ShotIInv' /\ Keeps(disk', disk)
<1>1. /\ disk' = Replaced(disk, "artifacts", Loaded(disk)) /\ pending' = Idle /\ memory' = None
      /\ planned' = planned /\ plans' = plans /\ jobs' = jobs /\ left' = left
      /\ astray' = astray
    BY DEF Collect
<1>2. PICK c : c = Loaded(disk)
    OBVIOUS
<1>3. CopyOK(c) /\ c.videos = disk.videos
    BY <1>2, ShotParts, LoadedIs
<1>4. CopyOK(disk') /\ disk'.videos = c.videos
  <2>1. disk' = Replaced(disk, "artifacts", c) /\ "artifacts" \in File /\ CopyOK(disk)
      BY <1>1, <1>2, ShotParts DEF File
  <2> QED BY <1>3, <2>1, ReplacedIs
<1>5. planned' \in Direction \cup {Unplanned} /\ astray' \in BOOLEAN
    BY <1>1, ShotParts
<1> QED BY <1>1, <1>3, <1>4, <1>5, RereadKeeps

LEMMA ReopenKeeps ==
    ASSUME ShotIInv, Reopen
    PROVE  ShotIInv' /\ Keeps(disk', disk)
<1>1. /\ disk' = Materialized(disk, planned) /\ pending' = Idle /\ memory' = None
      /\ planned' = planned /\ plans' = plans /\ jobs' = jobs /\ left' = {}
      /\ astray' \in BOOLEAN
    BY DEF Reopen, Interrupted
<1>2. CopyOK(disk') /\ disk'.videos = disk.videos
    BY <1>1, ShotParts, MaterializedIs
<1>3. planned' \in Direction \cup {Unplanned}
    BY <1>1, ShotParts
<1> QED BY <1>1, <1>2, <1>3, RereadKeeps

(* The operations that begin to write.                                     *)
LEMMA BegunKeeps ==
    ASSUME ShotIInv,
           \/ \E d \in Direction : SetDirection(d)
           \/ \E plan \in plans : AttachGeneration(plan)
           \/ \E id \in Keyframe : Select(id)
           \/ Lock \/ Reset
           \/ \E job \in jobs : AttachVideo(job)
           \/ \E id \in Video : SelectVideo(id)
           \/ LockVideo
    PROVE  ShotIInv' /\ Keeps(disk', disk)
<1>1. PICK n : n = pending'.copy
    OBVIOUS
<1>2. ASSUME NEW files \in ToWrite, NEW job \in Video \cup {None}, Begins(files, n, job), CopyOK(n),
             Keeps(n, memory), job = None => Keeps(memory, n)
      PROVE  ShotIInv' /\ Keeps(disk', disk)
  <2>1. ShotIInv'
      BY <1>2, Begun
  <2>2. disk' = disk
      BY <1>2 DEF Begins
  <2> QED BY <2>1, <2>2, KeepsItsOwn
<1>3. ASSUME NEW files \in ToWrite, Begins(files, n, None), CopyOK(n), n.videos = memory.videos
      PROVE  ShotIInv' /\ Keeps(disk', disk)
    BY <1>2, <1>3, KeepsItsOwn
<1>4. /\ <<"shot">> \in ToWrite /\ <<"artifacts">> \in ToWrite /\ <<"artifacts", "selection">> \in ToWrite
      /\ <<"shot", "artifacts">> \in ToWrite /\ <<"shot", "artifacts", "selection">> \in ToWrite
    BY DEF ToWrite
<1>5. ASSUME NEW d \in Direction, SetDirection(d)
      PROVE  ShotIInv' /\ Keeps(disk', disk)
  <2>1. Begins(<<"shot">>, n, None) /\ CopyOK(n) /\ n.videos = memory.videos
      BY <1>1, <1>5, SetDirectionBegins
  <2> QED BY <1>3, <1>4, <2>1
<1>6. ASSUME NEW plan \in plans, AttachGeneration(plan)
      PROVE  ShotIInv' /\ Keeps(disk', disk)
  <2>1. Begins(<<"shot", "artifacts", "selection">>, n, None) /\ CopyOK(n) /\ n.videos = memory.videos
      BY <1>1, <1>6, AttachGenerationBegins
  <2> QED BY <1>3, <1>4, <2>1
<1>7. ASSUME NEW id \in Keyframe, Select(id)
      PROVE  ShotIInv' /\ Keeps(disk', disk)
  <2>1. Begins(<<"artifacts", "selection">>, n, None) /\ CopyOK(n) /\ n.videos = memory.videos
      BY <1>1, <1>7, SelectBegins
  <2> QED BY <1>3, <1>4, <2>1
<1>8. CASE Lock
  <2>1. Begins(<<"artifacts">>, n, None) /\ CopyOK(n) /\ n.videos = memory.videos
      BY <1>1, <1>8, LockBegins
  <2> QED BY <1>3, <1>4, <2>1
<1>9. CASE Reset
  <2>1. /\ Begins(<<"shot", "artifacts", "selection">>, n, None) /\ CopyOK(n)
        /\ Keeps(n, memory) /\ Keeps(memory, n)
      BY <1>1, <1>9, ResetBegins
  <2> QED BY <1>2, <1>4, <2>1
<1>10. ASSUME NEW job \in jobs, AttachVideo(job)
       PROVE  ShotIInv' /\ Keeps(disk', disk)
  <2>1. Begins(<<"shot", "artifacts">>, n, job.id) /\ CopyOK(n) /\ job.id \in Video /\ Keeps(n, memory)
      BY <1>1, <1>10, AttachVideoBegins
  <2>2. job.id # None
      BY <2>1, PublicationFacts
  <2> QED BY <1>2, <1>4, <2>1, <2>2
<1>11. ASSUME NEW id \in Video, SelectVideo(id)
       PROVE  ShotIInv' /\ Keeps(disk', disk)
  <2>1. Begins(<<"artifacts">>, n, None) /\ CopyOK(n) /\ Keeps(n, memory) /\ Keeps(memory, n)
      BY <1>1, <1>11, SelectVideoBegins
  <2> QED BY <1>2, <1>4, <2>1
<1>12. CASE LockVideo
  <2>1. Begins(<<"artifacts">>, n, None) /\ CopyOK(n) /\ Keeps(n, memory) /\ Keeps(memory, n)
      BY <1>1, <1>12, LockVideoBegins
  <2> QED BY <1>2, <1>4, <2>1
<1> QED BY <1>5, <1>6, <1>7, <1>8, <1>9, <1>10, <1>11, <1>12

LEMMA ShotStart ==
    ASSUME Init
    PROVE  ShotIInv
<1>1. /\ disk = NewShot /\ memory = None /\ pending = Idle /\ planned = Unplanned
      /\ plans = {} /\ jobs = {} /\ left = {} /\ astray = FALSE
    BY DEF Init
<1>2. PICK s : s = [direction |-> Default, generation |-> 0, video |-> 0]
    OBVIOUS
<1>3. PICK e : e = [candidates |-> {}, selected |-> None]
    OBVIOUS
<1>4. disk = Copy(s, <<>>, <<>>, e)
    BY <1>1, <1>2, <1>3 DEF NewShot, Copy
<1>5. s \in Shot
  <2>1. Default \in Direction /\ 0 \in 0..MaxGenerations /\ 0 \in 0..MaxVideos
      BY PublicationFacts
  <2> QED BY <1>2, <2>1 DEF Shot
<1>6. e \in Selection
    BY <1>3 DEF Selection
<1>7. RecordsOf(<<>>, Keyframe, KeyframeRecord) /\ RecordsOf(<<>>, Video, VideoRecord)
  <2>1. DOMAIN <<>> = {} /\ <<>> = [i \in {} |-> i]
      OBVIOUS
  <2> QED BY <2>1 DEF RecordsOf
<1>8. CopyOK(disk)
    BY <1>4, <1>5, <1>6, <1>7, CopyMade
<1>9. ShotTypes
    BY <1>1, <1>8 DEF ShotTypes, PendingOK
<1> QED BY <1>1, <1>9 DEF ShotIInv

LEMMA ShotStepKeeps ==
    ASSUME ShotIInv, [Next]_vars
    PROVE  ShotIInv' /\ Keeps(disk', disk)
<1>1. CASE UNCHANGED vars
  <2>1. /\ Rests /\ planned' = planned /\ plans' \subseteq Plan /\ jobs' \subseteq Job
        /\ left' \subseteq Video /\ astray' = astray
      BY <1>1 DEF vars, Rests, ShotIInv, ShotTypes
  <2> QED BY <2>1, RestingKeeps
<1>2. CASE Next
  <2>1. CASE \/ \E d \in Direction : SetDirection(d)
             \/ \E plan \in plans : AttachGeneration(plan)
             \/ \E id \in Keyframe : Select(id)
             \/ Lock \/ Reset
             \/ \E job \in jobs : AttachVideo(job)
             \/ \E id \in Video : SelectVideo(id)
             \/ LockVideo
      BY <2>1, BegunKeeps
  <2>2. ASSUME NEW d \in Direction, LockPlan(d) PROVE ShotIInv' /\ Keeps(disk', disk)
      BY <2>2, LockPlanKeeps
  <2>3. ASSUME NEW job \in jobs, FailVideo(job) PROVE ShotIInv' /\ Keeps(disk', disk)
      BY <2>3, FailVideoKeeps
  <2>4. ASSUME NEW job \in jobs, Acknowledge(job) PROVE ShotIInv' /\ Keeps(disk', disk)
      BY <2>4, AcknowledgeKeeps
  <2>5. CASE PlanGeneration
      BY <2>5, PlanGenerationKeeps
  <2>6. CASE StartVideos
      BY <2>6, StartVideosKeeps
  <2>7. CASE pending # Idle /\ WriteNext
      BY <2>7, WriteNextKeeps
  <2>8. CASE pending # Idle /\ FailWrite
      BY <2>8, FailWriteKeeps
  <2>9. CASE Load
      BY <2>9, LoadKeeps
  <2>10. CASE Collect
      BY <2>10, CollectKeeps
  <2>11. CASE Reopen
      BY <2>11, ReopenKeeps
  <2> QED BY <1>2, <2>1, <2>2, <2>3, <2>4, <2>5, <2>6, <2>7, <2>8, <2>9, <2>10, <2>11, Zenon DEF Next
<1> QED BY <1>1, <1>2

(* The session's copy, what is being written and the files of a shot hold  *)
(* what they may, and every video of the files is in both of the others    *)
(* that may replace them (shot.rs).                                        *)
THEOREM ShotInvariance == Spec => []ShotIInv
<1>1. Init => ShotIInv
    BY ShotStart
<1>2. ShotIInv /\ [Next]_vars => ShotIInv'
    BY ShotStepKeeps
<1> QED BY <1>1, <1>2, PTL DEF Spec

(* The files of a shot, the copy and the jobs keep their types (shot.rs).  *)
THEOREM ShotTypeCorrect == Spec => []TypeOK
<1>1. ASSUME NEW c, CopyOK(c) PROVE IsCopy(c)
  <2>1. DOMAIN c = {"shot", "keyframes", "videos", "selection"}
      BY <1>1 DEF CopyOK, Copy
  <2> QED BY <1>1, <2>1, CopyParts DEF IsCopy
<1>2. ASSUME ShotIInv PROVE TypeOK
  <2>1. IsCopy(disk) /\ (memory # None => IsCopy(memory))
      BY <1>1, <1>2 DEF ShotIInv, ShotTypes
  <2>2. CASE pending = Idle
    <3>1. pending.files = <<>> /\ pending.job = None /\ pending.settled = TRUE
        BY <2>2, IdleIs
    <3>2. pending.files \in Seq(File) /\ Len(pending.files) <= 3
        BY <3>1
    <3> QED BY <1>2, <2>1, <2>2, <3>1, <3>2 DEF TypeOK, ShotIInv, ShotTypes
  <2>3. CASE pending # Idle
    <3>1. /\ pending.files \in ToWrite /\ CopyOK(pending.copy)
          /\ pending.job \in Video \cup {None} /\ pending.settled \in BOOLEAN
        BY <1>2, <2>3 DEF ShotIInv, ShotTypes, PendingOK
    <3>2. pending.files \in Seq(File) /\ Len(pending.files) <= 3
      <4>1. \A a, b, c \in File : /\ <<a>> \in Seq(File) /\ Len(<<a>>) <= 3
                                  /\ <<a, b>> \in Seq(File) /\ Len(<<a, b>>) <= 3
                                  /\ <<a, b, c>> \in Seq(File) /\ Len(<<a, b, c>>) <= 3
          OBVIOUS
      <4>2. "shot" \in File /\ "artifacts" \in File /\ "selection" \in File
          BY DEF File
      <4> QED BY <3>1, <4>1, <4>2 DEF ToWrite
    <3>3. pending.files # <<>>
        BY <3>1, ToWriteIs
    <3>4. IsCopy(pending.copy)
        BY <1>1, <3>1
    <3> QED BY <1>2, <2>1, <3>1, <3>2, <3>3, <3>4 DEF TypeOK, ShotIInv, ShotTypes
  <2> QED BY <2>2, <2>3
<1> QED BY <1>2, ShotInvariance, PTL

(* Whatever is interrupted or fails, and whichever copy the session goes   *)
(* on with, a paid video's record stays and goes on saying what it was     *)
(* made from (shot.rs, attach_video and the operations that write          *)
(* artifacts.json).                                                        *)
THEOREM PaidVideosAreKept == Spec => VideosAreKept
<1>1. ShotIInv /\ [Next]_vars =>
          [\A id \in DOMAIN disk.videos :
              /\ id \in DOMAIN disk'.videos
              /\ disk'.videos[id].from = disk.videos[id].from
              /\ disk'.videos[id].made = disk.videos[id].made]_disk
    BY ShotStepKeeps DEF Keeps
<1> QED BY <1>1, ShotInvariance, PTL DEF Spec, VideosAreKept

(* A generation's candidates are its own.                                  *)
LEMMA IdsOfOne ==
    ASSUME NEW g \in Nat, NEW h \in Nat
    PROVE  /\ CandidateIds(g) # {}
           /\ CandidateIds(g) \cap CandidateIds(h) # {} => g = h
           /\ \A id \in CandidateIds(g) : id[1] = g
<1>1. CandidateIds(g) # {}
  <2>1. PICK place : place \in Candidate
      BY PublicationFacts
  <2>2. <<g, place>> \in CandidateIds(g)
      BY <2>1 DEF CandidateIds
  <2> QED BY <2>2
<1>2. /\ \A id \in CandidateIds(g) : id[1] = g
      /\ \A id \in CandidateIds(h) : id[1] = h
    BY DEF CandidateIds
<1> QED BY <1>1, <1>2

LEMMA StatusIs ==
    ASSUME NEW c, CopyOK(c), NEW id \in DOMAIN c.keyframes
    PROVE  /\ c.keyframes[id].status \in Live <=> c.keyframes[id].status # "superseded"
           /\ c.keyframes[id].status # "superseded" <=> id \in InPlay(c)
           /\ id # None /\ id \in Keyframe
           /\ c.keyframes[id].status \in {"candidate", "selected", "locked", "superseded"}
BY CopyParts, PublicationFacts DEF Status, Live, InPlay

(* What loading does about the selection.                                  *)
LEMMA PublishedIs ==
    ASSUME NEW c, CopyOK(c), NEW n, n = RecoverGeneration(c),
           NEW ids, ids = CandidateIds(c.shot.generation)
    PROVE  /\ /\ c.shot.generation > 0 /\ c.selection.candidates # ids /\ ids \subseteq InPlay(c)
              => n.selection = [candidates |-> ids, selected |-> None]
           /\ ~(c.shot.generation > 0 /\ c.selection.candidates # ids /\ ids \subseteq InPlay(c))
              => n = c
           /\ CopyOK(n) /\ n.keyframes = c.keyframes /\ n.shot = c.shot
<1>1. (\A id \in ids : id \in DOMAIN c.keyframes /\ c.keyframes[id].status \in Live)
          <=> ids \subseteq InPlay(c)
    BY StatusIs DEF InPlay
<1>2. PICK e : e = [candidates |-> ids, selected |-> None]
    OBVIOUS
<1>3. n = IF c.shot.generation > 0 /\ c.selection.candidates # ids /\ ids \subseteq InPlay(c)
          THEN [c EXCEPT !.selection = e] ELSE c
    BY <1>1, <1>2 DEF RecoverGeneration
<1>4. CASE c.shot.generation > 0 /\ c.selection.candidates # ids /\ ids \subseteq InPlay(c)
  <2>1. e \in Selection
      BY <1>2, <1>4, CopyParts DEF InPlay, Selection
  <2>2. n = [c EXCEPT !.selection = e]
      BY <1>3, <1>4
  <2> QED BY <1>2, <1>4, <2>1, <2>2, SelectionWritten
<1>5. CASE ~(c.shot.generation > 0 /\ c.selection.candidates # ids /\ ids \subseteq InPlay(c))
    BY <1>3, <1>5
<1> QED BY <1>4, <1>5

LEMMA ClearedIs ==
    ASSUME NEW c, CopyOK(c), c.selection.candidates \subseteq DOMAIN c.keyframes,
           NEW n, n = RecoverCleared(c)
    PROVE  /\ /\ c.selection.candidates # {} /\ c.selection.candidates \cap InPlay(c) = {}
              => n.selection = [candidates |-> {}, selected |-> None]
           /\ ~(c.selection.candidates # {} /\ c.selection.candidates \cap InPlay(c) = {})
              => n = c
           /\ CopyOK(n) /\ n.keyframes = c.keyframes /\ n.shot = c.shot
<1>1. (\A id \in c.selection.candidates :
          id \in DOMAIN c.keyframes /\ c.keyframes[id].status = "superseded")
          <=> c.selection.candidates \cap InPlay(c) = {}
    BY StatusIs
<1>2. PICK e : e = [candidates |-> {}, selected |-> None]
    OBVIOUS
<1>3. n = IF c.selection.candidates # {} /\ c.selection.candidates \cap InPlay(c) = {}
          THEN [c EXCEPT !.selection = e] ELSE c
    BY <1>1, <1>2 DEF RecoverCleared
<1>4. CASE c.selection.candidates # {} /\ c.selection.candidates \cap InPlay(c) = {}
  <2>1. e \in Selection
      BY <1>2 DEF Selection
  <2>2. n = [c EXCEPT !.selection = e]
      BY <1>3, <1>4
  <2> QED BY <1>2, <1>4, <2>1, <2>2, SelectionWritten
<1>5. CASE ~(c.selection.candidates # {} /\ c.selection.candidates \cap InPlay(c) = {})
    BY <1>3, <1>5
<1> QED BY <1>4, <1>5

(* The selection a reader gives a sound copy.                              *)
LEMMA SoundSelection ==
    ASSUME NEW c, CopyOK(c), Sound(c)
    PROVE  /\ InPlay(c) = c.selection.candidates => Recovered(c).selection = c.selection
           /\ InPlay(c) # c.selection.candidates =>
                 Recovered(c).selection = [candidates |-> InPlay(c), selected |-> None]
<1>1. PICK ids : ids = CandidateIds(c.shot.generation)
    OBVIOUS
<1>2. PICK n : n = RecoverGeneration(c)
    OBVIOUS
<1>3. PICK r : r = RecoverCleared(n)
    OBVIOUS
<1>4. r = Recovered(c)
    BY <1>2, <1>3 DEF Recovered
<1>5. PICK L : L = InPlay(c)
    OBVIOUS
<1>6. c.shot.generation \in Nat
    BY CopyParts
<1>7. ids # {} /\ \A g \in 1..c.shot.generation : ids \subseteq CandidateIds(g) => ids = CandidateIds(g)
    BY <1>1, <1>6, IdsOfOne
<1>8. /\ L = {} \/ \E g \in 1..c.shot.generation : L = CandidateIds(g)
      /\ c.selection.candidates \subseteq DOMAIN c.keyframes
      /\ L = c.selection.candidates \/ L = {} \/ L = ids
    BY <1>1, <1>5 DEF Sound, OfOne, Within
<1>9. /\ c.shot.generation > 0 /\ c.selection.candidates # ids /\ ids \subseteq L
          => n.selection = [candidates |-> ids, selected |-> None]
      /\ CopyOK(n) /\ n.keyframes = c.keyframes /\ InPlay(n) = L
  <2>1. /\ c.shot.generation > 0 /\ c.selection.candidates # ids /\ ids \subseteq InPlay(c)
           => n.selection = [candidates |-> ids, selected |-> None]
        /\ CopyOK(n) /\ n.keyframes = c.keyframes
      BY <1>1, <1>2, PublishedIs
  <2> QED BY <1>5, <2>1 DEF InPlay
<1>10. CASE L = c.selection.candidates
  <2>1. ~(c.selection.candidates # ids /\ ids \subseteq L)
      BY <1>7, <1>8, <1>10
  <2>2. n = c
      BY <1>1, <1>2, <1>5, <2>1, PublishedIs
  <2>3. ~(c.selection.candidates # {} /\ c.selection.candidates \cap L = {})
      BY <1>10
  <2>4. r = n
      BY <1>3, <1>5, <1>8, <2>2, <2>3, ClearedIs
  <2> QED BY <1>4, <1>5, <1>10, <2>2, <2>4
<1>11. CASE L = {} /\ L # c.selection.candidates
  <2>1. n = c
      BY <1>1, <1>2, <1>5, <1>7, <1>11, PublishedIs
  <2>2. r.selection = [candidates |-> {}, selected |-> None]
      BY <1>3, <1>5, <1>8, <1>11, <2>1, ClearedIs
  <2> QED BY <1>4, <1>5, <1>11, <2>2
<1>12. CASE L = ids /\ L # c.selection.candidates
  <2>1. c.shot.generation > 0
      BY <1>6, <1>7, <1>8, <1>12
  <2>2. n.selection = [candidates |-> ids, selected |-> None]
      BY <1>9, <1>12, <2>1
  <2>3. CopyOK(n) /\ n.selection.candidates = ids /\ n.keyframes = c.keyframes
      BY <1>9, <2>2
  <2>4. ids \subseteq DOMAIN n.keyframes
      BY <1>5, <1>12, <2>3 DEF InPlay
  <2>5. ~(n.selection.candidates \cap InPlay(n) = {})
      BY <1>7, <1>9, <1>12, <2>3
  <2>6. r = n
      BY <1>3, <2>3, <2>4, <2>5, ClearedIs
  <2> QED BY <1>4, <1>5, <1>12, <2>2, <2>6
<1> QED BY <1>5, <1>8, <1>10, <1>11, <1>12

(* A candidate's record once reconciled with a selection of those in play. *)
LEMMA ReconciledIs ==
    ASSUME NEW r \in KeyframeRecord, NEW id, NEW e, NEW n, n = Reconciled(r, id, e)
    PROVE  /\ id \notin e.candidates => n = r
           /\ id \in e.candidates /\ id = e.selected =>
                 /\ r.status = "candidate" => n.status = "selected"
                 /\ r.status # "candidate" => n = r
           /\ id \in e.candidates /\ id # e.selected => n.status = "candidate"
           /\ id \in e.candidates /\ id # e.selected /\ r.status = "candidate" => n = r
           /\ n \in KeyframeRecord
           /\ Reconciled(n, id, e) = n
<1>1. /\ id \notin e.candidates => n = r
      /\ id \in e.candidates /\ id = e.selected /\ r.status = "candidate" =>
            n = [r EXCEPT !.status = "selected"]
      /\ id \in e.candidates /\ id = e.selected /\ r.status # "candidate" => n = r
      /\ id \in e.candidates /\ id # e.selected => n = [r EXCEPT !.status = "candidate"]
    BY DEF Reconciled
<1>2. PICK s : s = [r EXCEPT !.status = "selected"]
    OBVIOUS
<1>3. PICK c : c = [r EXCEPT !.status = "candidate"]
    OBVIOUS
<1>4. /\ s \in KeyframeRecord /\ s.status = "selected"
      /\ c \in KeyframeRecord /\ c.status = "candidate"
      /\ [c EXCEPT !.status = "candidate"] = c
      /\ r.status = "candidate" => c = r
    BY <1>2, <1>3 DEF KeyframeRecord, Status
<1>5. /\ id \in e.candidates /\ id = e.selected /\ r.status = "candidate" => n = s
      /\ id \in e.candidates /\ id # e.selected => n = c
    BY <1>1, <1>2, <1>3
<1>6. Reconciled(n, id, e) = n
    BY <1>1, <1>4, <1>5 DEF Reconciled
<1> QED BY <1>1, <1>4, <1>5, <1>6

(* A sound copy loads, and what is loaded is coherent.                     *)
LEMMA SoundIsMadeWhole ==
    ASSUME NEW c, CopyOK(c), Sound(c), NEW n, n = Loaded(c)
    PROVE  /\ Loadable(c) /\ Recoverable(c)
           /\ CopyOK(n) /\ Coherent(n) /\ n.shot = c.shot /\ n.videos = c.videos
           /\ n.selection = IF InPlay(c) = c.selection.candidates THEN c.selection
                            ELSE [candidates |-> InPlay(c), selected |-> None]
           /\ DOMAIN n.keyframes = DOMAIN c.keyframes /\ InPlay(n) = InPlay(c)
           /\ n.keyframes = [id \in DOMAIN c.keyframes |->
                                Reconciled(c.keyframes[id], id, n.selection)]
<1>1. /\ CopyOK(n) /\ n.shot = c.shot /\ n.videos = c.videos
      /\ n.selection = Recovered(c).selection
      /\ n.keyframes = [id \in DOMAIN c.keyframes |->
                           Reconciled(c.keyframes[id], id, n.selection)]
  <2>1. /\ CopyOK(n) /\ n.shot = c.shot /\ n.videos = c.videos
        /\ n.selection = Recovered(c).selection
        /\ n.keyframes = [id \in DOMAIN c.keyframes |->
                             Reconciled(c.keyframes[id], id, Recovered(c).selection)]
      BY LoadedIs
  <2> QED BY <2>1
<1>2. PICK e : e = n.selection
    OBVIOUS
<1>3. PICK L : L = InPlay(c)
    OBVIOUS
<1>4. /\ L = c.selection.candidates => e = c.selection
      /\ L # c.selection.candidates => e = [candidates |-> L, selected |-> None]
    BY <1>1, <1>2, <1>3, SoundSelection
<1>5. /\ e.candidates = L /\ e.selected \in L \cup {None}
      /\ L \subseteq DOMAIN c.keyframes
    BY <1>3, <1>4 DEF Sound, Within, InPlay
<1>6. \A id \in DOMAIN c.keyframes : n.keyframes[id] = Reconciled(c.keyframes[id], id, e)
    BY <1>1, <1>2
<1>7. ASSUME NEW id \in DOMAIN c.keyframes
      PROVE  /\ id \notin L => n.keyframes[id].status = "superseded"
             /\ id \in L => /\ n.keyframes[id].status # "superseded"
                            /\ n.keyframes[id].status # "candidate" <=> id = e.selected
             /\ id # None
  <2>1. PICK r : r = c.keyframes[id]
      OBVIOUS
  <2>2. r \in KeyframeRecord /\ (r.status # "superseded" <=> id \in L) /\ id # None
      BY <1>3, <2>1, StatusIs, CopyParts
  <2>3. PICK m : m = Reconciled(r, id, e)
      OBVIOUS
  <2>4. /\ id \notin L => m = r
        /\ id \in L /\ id = e.selected => /\ r.status = "candidate" => m.status = "selected"
                                          /\ r.status # "candidate" => m = r
        /\ id \in L /\ id # e.selected => m.status = "candidate"
      BY <1>5, <2>2, <2>3, ReconciledIs
  <2>5. n.keyframes[id] = m
      BY <1>6, <2>1, <2>3
  <2> QED BY <2>2, <2>4, <2>5
<1>8. DOMAIN n.keyframes = DOMAIN c.keyframes
    BY <1>1
<1>9. InPlay(n) = L
    BY <1>5, <1>7, <1>8 DEF InPlay
<1>10. Coherent(n)
  <2>1. /\ \A id \in DOMAIN n.keyframes : id[1] <= n.shot.generation
        /\ OfOne(n.selection.candidates, n)
      BY <1>1, <1>2, <1>3, <1>5, <1>8 DEF Sound, Within, OfOne
  <2>2. Within(n)
      BY <1>2, <1>5, <1>8, <2>1 DEF Within
  <2>3. \A id \in InPlay(n) : n.keyframes[id].status # "candidate" <=> id = n.selection.selected
      BY <1>2, <1>5, <1>7, <1>9
  <2> QED BY <1>2, <1>5, <1>9, <2>2, <2>3 DEF Coherent
<1>11. Loadable(c)
  <2>1. PICK r : r = Recovered(c)
      OBVIOUS
  <2>2. r.keyframes = c.keyframes /\ r.selection = e
      BY <1>1, <1>2, <2>1, RecoveredIs
  <2>3. ASSUME NEW id \in DOMAIN c.keyframes
        PROVE  IF id \notin e.candidates THEN c.keyframes[id].status \in {"candidate", "superseded"}
               ELSE IF id = e.selected THEN c.keyframes[id].status \in Live
               ELSE c.keyframes[id].status \in {"candidate", "selected"}
    <3>1. /\ c.keyframes[id].status \in Live <=> c.keyframes[id].status # "superseded"
          /\ c.keyframes[id].status # "superseded" <=> id \in L
          /\ c.keyframes[id].status \in {"candidate", "selected", "locked", "superseded"}
        BY <1>3, StatusIs
    <3>2. CASE id \notin L
        BY <1>5, <3>1, <3>2
    <3>3. CASE id \in L /\ id = e.selected
        BY <1>5, <3>1, <3>3
    <3>4. CASE id \in L /\ id # e.selected
      <4>1. c.keyframes[id].status # "locked"
        <5>1. c.keyframes[id].status = "locked" => id = c.selection.selected
            BY <1>3, <3>4 DEF Sound
        <5>2. L # c.selection.candidates => c.keyframes[id].status = "candidate"
            BY <1>3, <3>4 DEF Sound
        <5> QED BY <1>4, <3>4, <5>1, <5>2
      <4> QED BY <1>5, <3>1, <3>4, <4>1
    <3> QED BY <3>2, <3>3, <3>4
  <2>4. Reconcilable(r)
      BY <2>2, <2>3 DEF Reconcilable
  <2>5. Valid(r)
      BY <1>5, <2>2 DEF Valid
  <2> QED BY <2>1, <2>4, <2>5 DEF Loadable
<1>12. Recoverable(c)
    BY <1>11 DEF Recoverable, Sound, Within
<1>13. n.selection = IF L = c.selection.candidates THEN c.selection
                     ELSE [candidates |-> L, selected |-> None]
    BY <1>2, <1>4
<1> QED BY <1>1, <1>3, <1>8, <1>9, <1>10, <1>11, <1>12, <1>13

(* A coherent copy is loaded as it is.                                     *)
LEMMA CoherentIsWhole ==
    ASSUME NEW c, CopyOK(c), Coherent(c)
    PROVE  Sound(c) /\ Loaded(c) = c
<1>1. Sound(c)
  <2>1. Within(c) /\ InPlay(c) = c.selection.candidates
      BY DEF Coherent
  <2>2. OfOne(InPlay(c), c)
      BY <2>1 DEF Within
  <2>3. \A id \in InPlay(c) : c.keyframes[id].status = "locked" => id = c.selection.selected
      BY DEF Coherent
  <2> QED BY <2>1, <2>2, <2>3 DEF Sound
<1>2. PICK n : n = Loaded(c)
    OBVIOUS
<1>3. /\ CopyOK(n) /\ n.shot = c.shot /\ n.videos = c.videos /\ n.selection = c.selection
      /\ n.keyframes = [id \in DOMAIN c.keyframes |->
                           Reconciled(c.keyframes[id], id, n.selection)]
  <2>1. InPlay(c) = c.selection.candidates
      BY DEF Coherent
  <2>2. /\ CopyOK(n) /\ n.shot = c.shot /\ n.videos = c.videos
        /\ n.selection = IF InPlay(c) = c.selection.candidates THEN c.selection
                         ELSE [candidates |-> InPlay(c), selected |-> None]
        /\ n.keyframes = [id \in DOMAIN c.keyframes |->
                             Reconciled(c.keyframes[id], id, n.selection)]
      BY <1>1, <1>2, SoundIsMadeWhole
  <2> QED BY <2>1, <2>2
<1>4. ASSUME NEW id \in DOMAIN c.keyframes
      PROVE  Reconciled(c.keyframes[id], id, c.selection) = c.keyframes[id]
  <2>1. PICK r : r = c.keyframes[id]
      OBVIOUS
  <2>2. r \in KeyframeRecord
      BY <2>1, CopyParts
  <2>3. id \in c.selection.candidates => (r.status # "candidate" <=> id = c.selection.selected)
      BY <2>1 DEF Coherent
  <2>4. Reconciled(r, id, c.selection) = r
      BY <2>2, <2>3, ReconciledIs
  <2> QED BY <2>1, <2>4
<1>5. n.keyframes = c.keyframes
  <2>1. c.keyframes = [id \in DOMAIN c.keyframes |-> c.keyframes[id]]
      BY CopyParts DEF RecordsOf
  <2> QED BY <1>3, <1>4, <2>1
<1>6. n = c
    BY <1>3, <1>5 DEF CopyOK
<1> QED BY <1>1, <1>2, <1>6

(* A sound copy stays one, and is made whole alike, when its records are   *)
(* written over with those a reader made whole and its generation and      *)
(* selection stay.                                                         *)
LEMMA WrittenOver ==
    ASSUME NEW d, CopyOK(d), Sound(d), NEW c, c = Loaded(d), NEW m, CopyOK(m),
           m.shot.generation = d.shot.generation, m.selection = d.selection,
           m.keyframes = d.keyframes \/ m.keyframes = c.keyframes
    PROVE  Sound(m) /\ Loaded(m) = Copy(m.shot, c.keyframes, m.videos, c.selection)
<1>1. /\ CopyOK(c) /\ Coherent(c) /\ DOMAIN c.keyframes = DOMAIN d.keyframes
      /\ InPlay(c) = InPlay(d)
      /\ c.selection = IF InPlay(d) = d.selection.candidates THEN d.selection
                       ELSE [candidates |-> InPlay(d), selected |-> None]
      /\ c.keyframes = [id \in DOMAIN d.keyframes |->
                           Reconciled(d.keyframes[id], id, c.selection)]
    BY SoundIsMadeWhole
<1>2. DOMAIN m.keyframes = DOMAIN d.keyframes /\ InPlay(m) = InPlay(d)
    BY <1>1 DEF InPlay
<1>3. Within(m) /\ OfOne(InPlay(m), m)
  <2>1. Within(d) /\ OfOne(InPlay(d), d)
      BY DEF Sound
  <2> QED BY <1>2, <2>1 DEF Within, OfOne
<1>4. /\ c.selection.candidates = InPlay(d)
      /\ \A id \in InPlay(d) :
            c.keyframes[id].status # "candidate" <=> id = c.selection.selected
    BY <1>1 DEF Coherent
<1>5. \A id \in InPlay(d) : id # None
    BY StatusIs DEF InPlay
<1>6. /\ \/ InPlay(m) = m.selection.candidates
         \/ InPlay(m) = {}
         \/ /\ InPlay(m) = CandidateIds(m.shot.generation)
            /\ \A id \in InPlay(m) : m.keyframes[id].status = "candidate"
      /\ \A id \in InPlay(m) : m.keyframes[id].status = "locked" => id = m.selection.selected
  <2>1. /\ \/ InPlay(d) = d.selection.candidates
           \/ InPlay(d) = {}
           \/ /\ InPlay(d) = CandidateIds(d.shot.generation)
              /\ \A id \in InPlay(d) : d.keyframes[id].status = "candidate"
        /\ \A id \in InPlay(d) : d.keyframes[id].status = "locked" => id = d.selection.selected
      BY DEF Sound
  <2>2. CASE m.keyframes = d.keyframes
      BY <1>2, <2>1, <2>2
  <2>3. CASE m.keyframes = c.keyframes
    <3>1. CASE InPlay(d) = d.selection.candidates
        BY <1>1, <1>2, <1>4, <2>3, <3>1
    <3>2. CASE InPlay(d) # d.selection.candidates
      <4>1. c.selection.selected = None
          BY <1>1, <3>2
      <4>2. \A id \in InPlay(d) : c.keyframes[id].status = "candidate"
          BY <1>4, <1>5, <4>1
      <4> QED BY <1>2, <2>1, <2>3, <3>2, <4>2
    <3> QED BY <3>1, <3>2
  <2> QED BY <2>2, <2>3
<1>7. Sound(m)
    BY <1>3, <1>6 DEF Sound
<1>8. PICK n : n = Loaded(m)
    OBVIOUS
<1>9. /\ CopyOK(n) /\ n.shot = m.shot /\ n.videos = m.videos
      /\ n.selection = IF InPlay(m) = m.selection.candidates THEN m.selection
                       ELSE [candidates |-> InPlay(m), selected |-> None]
      /\ n.keyframes = [id \in DOMAIN m.keyframes |->
                           Reconciled(m.keyframes[id], id, n.selection)]
    BY <1>7, <1>8, SoundIsMadeWhole
<1>10. n.selection = c.selection
    BY <1>1, <1>2, <1>9
<1>11. ASSUME NEW id \in DOMAIN d.keyframes
       PROVE  Reconciled(m.keyframes[id], id, c.selection) = c.keyframes[id]
  <2>1. PICK r : r = d.keyframes[id]
      OBVIOUS
  <2>2. r \in KeyframeRecord
      BY <2>1, CopyParts
  <2>3. PICK q : q = Reconciled(r, id, c.selection)
      OBVIOUS
  <2>4. c.keyframes[id] = q
      BY <1>1, <2>1, <2>3
  <2>5. Reconciled(q, id, c.selection) = q
      BY <2>2, <2>3, ReconciledIs
  <2> QED BY <2>1, <2>3, <2>4, <2>5
<1>12. n.keyframes = c.keyframes
  <2>1. c.keyframes = [id \in DOMAIN d.keyframes |-> c.keyframes[id]]
      BY <1>1
  <2> QED BY <1>2, <1>9, <1>10, <1>11, <2>1
<1>13. n = Copy(m.shot, c.keyframes, m.videos, c.selection)
    BY <1>9, <1>10, <1>12 DEF CopyOK
<1> QED BY <1>7, <1>8, <1>13

(* A mixture of two copies.                                                *)
LEMMA MixtureIs ==
    ASSUME NEW d, CopyOK(d), NEW c, CopyOK(c), NEW files
    PROVE  /\ CopyOK(Mixture(d, c, files))
           /\ Mixture(d, c, files).shot = (IF "shot" \in files THEN c.shot ELSE d.shot)
           /\ Mixture(d, c, files).keyframes =
                 (IF "artifacts" \in files THEN c.keyframes ELSE d.keyframes)
           /\ Mixture(d, c, files).videos =
                 (IF "artifacts" \in files THEN c.videos ELSE d.videos)
           /\ Mixture(d, c, files).selection =
                 (IF "selection" \in files THEN c.selection ELSE d.selection)
<1>0. PICK m : m = Mixture(d, c, files)
    OBVIOUS
<1>1. PICK s : s = IF "shot" \in files THEN c.shot ELSE d.shot
    OBVIOUS
<1>2. PICK k : k = IF "artifacts" \in files THEN c.keyframes ELSE d.keyframes
    OBVIOUS
<1>3. PICK v : v = IF "artifacts" \in files THEN c.videos ELSE d.videos
    OBVIOUS
<1>4. PICK e : e = IF "selection" \in files THEN c.selection ELSE d.selection
    OBVIOUS
<1>5. m = Copy(s, k, v, e)
    BY <1>0, <1>1, <1>2, <1>3, <1>4, Zenon DEF Mixture
<1>6. /\ s \in Shot /\ RecordsOf(k, Keyframe, KeyframeRecord)
      /\ RecordsOf(v, Video, VideoRecord) /\ e \in Selection
    BY <1>1, <1>2, <1>3, <1>4, CopyParts
<1>7. CopyOK(m) /\ m.shot = s /\ m.keyframes = k /\ m.videos = v /\ m.selection = e
    BY <1>5, <1>6, CopyMade
<1> QED BY <1>0, <1>1, <1>2, <1>3, <1>4, <1>7

LEMMA Mixtures ==
    ASSUME NEW d, CopyOK(d), NEW c, CopyOK(c), NEW m
    PROVE  /\ m = Mixture(d, c, {"shot"}) =>
                 /\ CopyOK(m) /\ m.shot = c.shot /\ m.keyframes = d.keyframes
                 /\ m.videos = d.videos /\ m.selection = d.selection
           /\ m = Mixture(d, c, {"artifacts"}) =>
                 /\ CopyOK(m) /\ m.shot = d.shot /\ m.keyframes = c.keyframes
                 /\ m.videos = c.videos /\ m.selection = d.selection
           /\ m = Mixture(d, c, {"shot", "artifacts"}) =>
                 /\ CopyOK(m) /\ m.shot = c.shot /\ m.keyframes = c.keyframes
                 /\ m.videos = c.videos /\ m.selection = d.selection
<1>1. \A files : LET x == Mixture(d, c, files) IN
         /\ CopyOK(x)
         /\ x.shot = (IF "shot" \in files THEN c.shot ELSE d.shot)
         /\ x.keyframes = (IF "artifacts" \in files THEN c.keyframes ELSE d.keyframes)
         /\ x.videos = (IF "artifacts" \in files THEN c.videos ELSE d.videos)
         /\ x.selection = (IF "selection" \in files THEN c.selection ELSE d.selection)
    BY MixtureIs
<1> QED BY <1>1

LEMMA SoundIsBoundary ==
    ASSUME NEW d, CopyOK(d), NEW c, CopyOK(c), NEW files,
           Sound(Mixture(d, c, files)), NEW settled
    PROVE  Boundary(d, c, files, settled)
<1>1. PICK m : m = Mixture(d, c, files)
    OBVIOUS
<1>2. CopyOK(m) /\ Sound(m)
    BY <1>1, MixtureIs
<1>3. Recoverable(m)
    BY <1>2, SoundIsMadeWhole
<1> QED BY <1>1, <1>2, <1>3 DEF Boundary

LEMMA NothingWritten ==
    ASSUME NEW d, CopyOK(d), NEW c
    PROVE  Mixture(d, c, {}) = d
BY DEF Mixture, CopyOK

LEMMA WrittenIs ==
    ASSUME NEW files
    PROVE  /\ Written(files, 0) = {}
           /\ Written(files, 1) = {files[1]}
           /\ Written(files, 2) = {files[1], files[2]}
           /\ Written(files, 3) = {files[1], files[2], files[3]}
<1>1. 1..0 = {} /\ 1..1 = {1} /\ 1..2 = {1, 2} /\ 1..3 = {1, 2, 3}
    OBVIOUS
<1> QED BY <1>1 DEF Written

LEMMA BoundariesOf ==
    ASSUME NEW d, CopyOK(d), Sound(d), NEW c, CopyOK(c), NEW settled \in BOOLEAN,
           NEW files \in ToWrite, Ends(d, c, Written(files, Len(files))),
           Len(files) > 1 => Boundary(d, c, {files[1]}, settled),
           Len(files) > 2 => Boundary(d, c, {files[1], files[2]}, settled)
    PROVE  BoundariesOK(d, c, files, settled)
<1>1. Len(files) \in {1, 2, 3}
  <2>1. \A a, b, e : /\ Len(<<a>>) = 1 /\ Len(<<a, b>>) = 2 /\ Len(<<a, b, e>>) = 3
      OBVIOUS
  <2> QED BY <2>1 DEF ToWrite
<1>2. PICK l : l = Len(files)
    OBVIOUS
<1>3. Boundary(d, c, Written(files, 0), settled)
  <2>1. Mixture(d, c, {}) = d
      BY NothingWritten
  <2> QED BY <2>1, WrittenIs, SoundIsBoundary
<1>4. Boundary(d, c, Written(files, l), settled)
  <2>1. Sound(Mixture(d, c, Written(files, l)))
      BY <1>2 DEF Ends
  <2> QED BY <2>1, SoundIsBoundary
<1>5. l > 1 => Boundary(d, c, Written(files, 1), settled)
    BY <1>2, WrittenIs
<1>6. l > 2 => Boundary(d, c, Written(files, 2), settled)
    BY <1>2, WrittenIs
<1>7. l \in {1, 2, 3} /\ \A n \in 0..l : n = 0 \/ n = l \/ (n = 1 /\ l > 1) \/ (n = 2 /\ l > 2)
    BY <1>1, <1>2
<1>8. \A n \in 0..l : Boundary(d, c, Written(files, n), settled)
    BY <1>3, <1>4, <1>5, <1>6, <1>7
<1> QED BY <1>2, <1>8 DEF BoundariesOK

(* What the session's copy is between operations.                          *)
LEMMA ReadyIsCurrent ==
    ASSUME RecoveryIInv, Ready
    PROVE  /\ pending = Idle /\ CopyOK(disk) /\ Sound(disk) /\ memory = Loaded(disk)
           /\ CopyOK(memory) /\ Coherent(memory)
           /\ memory.shot = disk.shot /\ memory.videos = disk.videos
           /\ memory.selection = IF InPlay(disk) = disk.selection.candidates THEN disk.selection
                                 ELSE [candidates |-> InPlay(disk), selected |-> None]
           /\ DOMAIN memory.keyframes = DOMAIN disk.keyframes /\ InPlay(memory) = InPlay(disk)
           /\ memory = disk => InPlay(disk) = disk.selection.candidates
<1>1. /\ pending = Idle /\ CopyOK(disk) /\ Sound(disk) /\ memory = Loaded(disk)
    BY ReadyCopy DEF RecoveryIInv, Ready
<1>2. /\ CopyOK(memory) /\ Coherent(memory)
      /\ memory.shot = disk.shot /\ memory.videos = disk.videos
      /\ memory.selection = IF InPlay(disk) = disk.selection.candidates THEN disk.selection
                            ELSE [candidates |-> InPlay(disk), selected |-> None]
      /\ DOMAIN memory.keyframes = DOMAIN disk.keyframes /\ InPlay(memory) = InPlay(disk)
    BY <1>1, SoundIsMadeWhole
<1>3. memory = disk => InPlay(disk) = disk.selection.candidates
    BY <1>2 DEF Coherent
<1> QED BY <1>1, <1>2, <1>3

(* Shots and videos are written over, the keyframes and the selection only *)
(* as a reader made them whole.                                            *)
LEMMA OverKeyframes ==
    ASSUME NEW d, CopyOK(d), Sound(d), NEW c, c = Loaded(d), NEW n, CopyOK(n),
           n.shot.generation = c.shot.generation, n.keyframes = c.keyframes,
           n.selection = c.selection, NEW files, "selection" \notin files
    PROVE  /\ Sound(Mixture(d, n, files))
           /\ ("shot" \in files \/ n.shot = c.shot) /\ ("artifacts" \in files \/ n.videos = c.videos)
              => Ends(d, n, files)
<1>1. CopyOK(c) /\ c.shot = d.shot /\ c.videos = d.videos
    BY LoadedIs
<1>2. PICK m : m = Mixture(d, n, files)
    OBVIOUS
<1>3. /\ CopyOK(m) /\ m.selection = d.selection
      /\ m.shot = (IF "shot" \in files THEN n.shot ELSE d.shot)
      /\ m.keyframes = (IF "artifacts" \in files THEN n.keyframes ELSE d.keyframes)
      /\ m.videos = (IF "artifacts" \in files THEN n.videos ELSE d.videos)
  <2>1. /\ CopyOK(Mixture(d, n, files)) /\ Mixture(d, n, files).selection = d.selection
        /\ Mixture(d, n, files).shot = (IF "shot" \in files THEN n.shot ELSE d.shot)
        /\ Mixture(d, n, files).keyframes =
              (IF "artifacts" \in files THEN n.keyframes ELSE d.keyframes)
        /\ Mixture(d, n, files).videos = (IF "artifacts" \in files THEN n.videos ELSE d.videos)
      BY MixtureIs
  <2> QED BY <1>2, <2>1
<1>4. /\ m.shot.generation = d.shot.generation
      /\ m.keyframes = d.keyframes \/ m.keyframes = c.keyframes
    BY <1>1, <1>3
<1>5. Sound(m) /\ Loaded(m) = Copy(m.shot, c.keyframes, m.videos, c.selection)
    BY <1>3, <1>4, WrittenOver
<1>6. ASSUME "shot" \in files \/ n.shot = c.shot, "artifacts" \in files \/ n.videos = c.videos
      PROVE  Loaded(m) = n
  <2>1. m.shot = n.shot /\ m.videos = n.videos
      BY <1>1, <1>3, <1>6
  <2> QED BY <1>5, <2>1 DEF CopyOK
<1> QED BY <1>2, <1>5, <1>6 DEF Ends

LEMMA AllWritten ==
    ASSUME NEW d, CopyOK(d), NEW c, CopyOK(c), Coherent(c), NEW files,
           "shot" \in files \/ c.shot = d.shot,
           "artifacts" \in files,
           "selection" \in files \/ c.selection = d.selection
    PROVE  Ends(d, c, files)
<1>1. PICK m : m = Mixture(d, c, files)
    OBVIOUS
<1>2. CopyOK(m) /\ m.shot = c.shot /\ m.keyframes = c.keyframes /\ m.videos = c.videos
      /\ m.selection = c.selection
  <2>1. /\ CopyOK(Mixture(d, c, files))
        /\ Mixture(d, c, files).shot = (IF "shot" \in files THEN c.shot ELSE d.shot)
        /\ Mixture(d, c, files).keyframes =
              (IF "artifacts" \in files THEN c.keyframes ELSE d.keyframes)
        /\ Mixture(d, c, files).videos = (IF "artifacts" \in files THEN c.videos ELSE d.videos)
        /\ Mixture(d, c, files).selection =
              (IF "selection" \in files THEN c.selection ELSE d.selection)
      BY MixtureIs
  <2> QED BY <1>1, <2>1
<1>3. m = c
    BY <1>2 DEF CopyOK
<1> QED BY <1>1, <1>3, CoherentIsWhole DEF Ends

LEMMA SetDirectionBounded ==
    ASSUME RecoveryIInv, NEW d \in Direction, SetDirection(d), NEW n, n = pending'.copy,
           NEW settled \in BOOLEAN
    PROVE  BoundariesOK(disk, n, <<"shot">>, settled)
<1>1. Ready /\ ShotIInv
    BY DEF SetDirection, RecoveryIInv
<1>2. /\ CopyOK(disk) /\ Sound(disk) /\ memory = Loaded(disk) /\ CopyOK(memory)
    BY <1>1, ReadyIsCurrent
<1>3. /\ CopyOK(n) /\ n.shot = [memory.shot EXCEPT !.direction = d]
      /\ n.keyframes = memory.keyframes /\ n.videos = memory.videos /\ n.selection = memory.selection
    BY <1>1, SetDirectionBegins
<1>4. n.shot.generation = memory.shot.generation
    BY <1>2, <1>3, CopyParts DEF Shot
<1>5. Ends(disk, n, {"shot"})
    BY <1>2, <1>3, <1>4, OverKeyframes
<1>6. PICK files : files = <<"shot">>
    OBVIOUS
<1>7. files \in ToWrite /\ Len(files) = 1 /\ files[1] = "shot"
    BY <1>6 DEF ToWrite
<1>8. Written(files, Len(files)) = {"shot"}
    BY <1>7, WrittenIs
<1>9. Ends(disk, n, Written(files, Len(files))) /\ ~(Len(files) > 1) /\ ~(Len(files) > 2)
    BY <1>5, <1>7, <1>8
<1>10. CopyOK(disk) /\ Sound(disk) /\ CopyOK(n) /\ files \in ToWrite
    BY <1>2, <1>3, <1>7
<1>11. BoundariesOK(disk, n, files, settled)
    BY <1>9, <1>10, BoundariesOf
<1> QED BY <1>6, <1>11

(* Writing only records of videos.                                         *)
LEMMA VideosBounded ==
    ASSUME RecoveryIInv, Ready, NEW n, CopyOK(n), n.shot = memory.shot,
           n.keyframes = memory.keyframes, n.selection = memory.selection, NEW settled \in BOOLEAN
    PROVE  BoundariesOK(disk, n, <<"artifacts">>, settled)
<1>1. /\ CopyOK(disk) /\ Sound(disk) /\ memory = Loaded(disk)
    BY ReadyIsCurrent
<1>2. Ends(disk, n, {"artifacts"})
    BY <1>1, OverKeyframes
<1>3. PICK files : files = <<"artifacts">>
    OBVIOUS
<1>4. files \in ToWrite /\ Len(files) = 1 /\ files[1] = "artifacts"
    BY <1>3 DEF ToWrite
<1>5. Written(files, Len(files)) = {"artifacts"}
    BY <1>4, WrittenIs
<1>6. Ends(disk, n, Written(files, Len(files))) /\ ~(Len(files) > 1) /\ ~(Len(files) > 2)
    BY <1>2, <1>4, <1>5
<1>7. BoundariesOK(disk, n, files, settled)
    BY <1>1, <1>4, <1>6, BoundariesOf
<1> QED BY <1>3, <1>7

LEMMA AttachVideoBounded ==
    ASSUME RecoveryIInv, NEW job \in jobs, AttachVideo(job), NEW n, n = pending'.copy,
           NEW settled \in BOOLEAN
    PROVE  BoundariesOK(disk, n, <<"shot", "artifacts">>, settled)
<1>1. Ready /\ ShotIInv
    BY DEF AttachVideo, RecoveryIInv
<1>2. /\ CopyOK(disk) /\ Sound(disk) /\ memory = Loaded(disk) /\ CopyOK(memory)
    BY <1>1, ReadyIsCurrent
<1>3. PICK v \in 0..MaxVideos : n.shot = [memory.shot EXCEPT !.video = v]
    BY <1>1, AttachVideoBegins
<1>4. CopyOK(n) /\ n.keyframes = memory.keyframes /\ n.selection = memory.selection
    BY <1>1, AttachVideoBegins
<1>5. n.shot.generation = memory.shot.generation
    BY <1>2, <1>3, CopyParts DEF Shot
<1>6. Sound(Mixture(disk, n, {"shot"})) /\ Ends(disk, n, {"shot", "artifacts"})
    BY <1>2, <1>4, <1>5, OverKeyframes
<1>7. Boundary(disk, n, {"shot"}, settled)
    BY <1>2, <1>4, <1>6, SoundIsBoundary
<1>8. PICK files : files = <<"shot", "artifacts">>
    OBVIOUS
<1>9. files \in ToWrite /\ Len(files) = 2 /\ files[1] = "shot" /\ files[2] = "artifacts"
    BY <1>8 DEF ToWrite
<1>10. Written(files, Len(files)) = {"shot", "artifacts"}
    BY <1>9, WrittenIs
<1>11. /\ Ends(disk, n, Written(files, Len(files))) /\ ~(Len(files) > 2)
       /\ Boundary(disk, n, {files[1]}, settled)
    BY <1>6, <1>7, <1>9, <1>10
<1>12. CopyOK(disk) /\ Sound(disk) /\ CopyOK(n) /\ files \in ToWrite
    BY <1>2, <1>4, <1>9
<1>13. BoundariesOK(disk, n, files, settled)
    BY <1>11, <1>12, BoundariesOf
<1> QED BY <1>8, <1>13

LEMMA LockBounded ==
    ASSUME RecoveryIInv, Lock, NEW n, n = pending'.copy, NEW settled \in BOOLEAN
    PROVE  BoundariesOK(disk, n, <<"artifacts">>, settled)
<1>1. Ready /\ ShotIInv
    BY DEF Lock, RecoveryIInv
<1>2. /\ CopyOK(disk) /\ Sound(disk) /\ CopyOK(memory) /\ Coherent(memory)
      /\ memory.shot = disk.shot
      /\ memory.selection = IF InPlay(disk) = disk.selection.candidates THEN disk.selection
                            ELSE [candidates |-> InPlay(disk), selected |-> None]
    BY <1>1, ReadyIsCurrent
<1>3. /\ CopyOK(n) /\ memory.selection.selected # None
      /\ n.shot = memory.shot /\ n.selection = memory.selection
      /\ DOMAIN n.keyframes = DOMAIN memory.keyframes
      /\ \A id \in DOMAIN n.keyframes :
            n.keyframes[id].status = IF id = memory.selection.selected THEN "locked"
                                     ELSE memory.keyframes[id].status
    BY <1>1, LockBegins
<1>4. n.selection = disk.selection /\ n.shot = disk.shot
    BY <1>2, <1>3
<1>5. Coherent(n)
  <2>1. /\ Within(memory) /\ InPlay(memory) = memory.selection.candidates
        /\ \A id \in InPlay(memory) :
              memory.keyframes[id].status # "candidate" <=> id = memory.selection.selected
      BY <1>2 DEF Coherent
  <2>2. memory.selection.selected \in InPlay(memory)
      BY <1>3, <2>1 DEF Within
  <2>3. InPlay(n) = InPlay(memory)
      BY <1>3, <2>2 DEF InPlay
  <2>4. Within(n)
      BY <1>3, <2>1 DEF Within, OfOne
  <2>5. \A id \in InPlay(n) : n.keyframes[id].status # "candidate" <=> id = n.selection.selected
      BY <1>3, <2>1, <2>3 DEF InPlay
  <2> QED BY <1>3, <2>1, <2>3, <2>4, <2>5 DEF Coherent
<1>6. Ends(disk, n, {"artifacts"})
    BY <1>2, <1>3, <1>4, <1>5, AllWritten
<1>7. PICK files : files = <<"artifacts">>
    OBVIOUS
<1>8. files \in ToWrite /\ Len(files) = 1 /\ files[1] = "artifacts"
    BY <1>7 DEF ToWrite
<1>9. Written(files, Len(files)) = {"artifacts"}
    BY <1>8, WrittenIs
<1>10. CopyOK(disk) /\ Sound(disk) /\ CopyOK(n)
    BY <1>2, <1>3
<1>11. Ends(disk, n, Written(files, Len(files))) /\ ~(Len(files) > 1) /\ ~(Len(files) > 2)
    BY <1>6, <1>8, <1>9
<1>12. BoundariesOK(disk, n, files, settled)
    BY <1>8, <1>10, <1>11, BoundariesOf
<1> QED BY <1>7, <1>12

(* Three files, the first two boundaries of which are given.               *)
LEMMA ThreeBounded ==
    ASSUME NEW d, CopyOK(d), Sound(d), NEW n, CopyOK(n), Coherent(n), NEW settled \in BOOLEAN,
           Boundary(d, n, {"shot"}, settled), Sound(Mixture(d, n, {"shot", "artifacts"}))
    PROVE  BoundariesOK(d, n, <<"shot", "artifacts", "selection">>, settled)
<1>1. Ends(d, n, {"shot", "artifacts", "selection"})
    BY AllWritten
<1>2. Boundary(d, n, {"shot", "artifacts"}, settled)
    BY SoundIsBoundary
<1>3. PICK files : files = <<"shot", "artifacts", "selection">>
    OBVIOUS
<1>4. /\ files \in ToWrite /\ Len(files) = 3
      /\ files[1] = "shot" /\ files[2] = "artifacts" /\ files[3] = "selection"
    BY <1>3 DEF ToWrite
<1>5. Written(files, Len(files)) = {"shot", "artifacts", "selection"}
    BY <1>4, WrittenIs
<1>6. /\ Ends(d, n, Written(files, Len(files)))
      /\ Boundary(d, n, {files[1]}, settled) /\ Boundary(d, n, {files[1], files[2]}, settled)
    BY <1>1, <1>2, <1>4, <1>5
<1>7. BoundariesOK(d, n, files, settled)
    BY <1>4, <1>6, BoundariesOf
<1> QED BY <1>3, <1>7

LEMMA ResetBounded ==
    ASSUME RecoveryIInv, Reset, NEW n, n = pending'.copy, NEW settled \in BOOLEAN
    PROVE  BoundariesOK(disk, n, <<"shot", "artifacts", "selection">>, settled)
<1>1. Ready /\ ShotIInv
    BY DEF Reset, RecoveryIInv
<1>2. /\ CopyOK(disk) /\ Sound(disk) /\ memory = Loaded(disk) /\ CopyOK(memory) /\ Coherent(memory)
      /\ memory.shot = disk.shot /\ DOMAIN memory.keyframes = DOMAIN disk.keyframes
    BY <1>1, ReadyIsCurrent
<1>3. PICK d \in Direction : n.shot = [memory.shot EXCEPT !.direction = d]
    BY <1>1, ResetBegins
<1>4. /\ CopyOK(n) /\ DOMAIN n.keyframes = DOMAIN memory.keyframes
      /\ \A id \in DOMAIN n.keyframes : n.keyframes[id].status = "superseded"
      /\ n.selection = [candidates |-> {}, selected |-> None]
    BY <1>1, ResetBegins
<1>5. n.shot.generation = memory.shot.generation
    BY <1>2, <1>3, CopyParts DEF Shot
<1>6. \A id \in DOMAIN disk.keyframes : id[1] <= n.shot.generation
    BY <1>2, <1>5 DEF Sound, Within
<1>7. Coherent(n)
  <2>1. Within(n)
      BY <1>2, <1>4, <1>6 DEF Within, OfOne
  <2>2. InPlay(n) = {}
      BY <1>4 DEF InPlay
  <2> QED BY <1>4, <2>1, <2>2 DEF Coherent
<1>8. Sound(Mixture(disk, n, {"shot"}))
  <2>1. PICK m : m = Mixture(disk, n, {"shot"})
      OBVIOUS
  <2>2. /\ CopyOK(m) /\ m.shot = n.shot /\ m.keyframes = disk.keyframes
        /\ m.selection = disk.selection
      BY <1>2, <1>4, <2>1, Mixtures
  <2>3. Sound(m)
      BY <1>2, <1>5, <2>2, WrittenOver
  <2> QED BY <2>1, <2>3
<1>9. Boundary(disk, n, {"shot"}, settled)
    BY <1>2, <1>4, <1>8, SoundIsBoundary
<1>10. Sound(Mixture(disk, n, {"shot", "artifacts"}))
  <2>1. PICK m : m = Mixture(disk, n, {"shot", "artifacts"})
      OBVIOUS
  <2>2. /\ CopyOK(m) /\ m.shot = n.shot /\ m.keyframes = n.keyframes
        /\ m.selection = disk.selection
      BY <1>2, <1>4, <2>1, Mixtures
  <2>3. InPlay(m) = {}
      BY <1>4, <2>2 DEF InPlay
  <2>4. Within(m)
      BY <1>2, <1>4, <1>5, <1>6, <2>2 DEF Sound, Within, OfOne
  <2>5. Sound(m)
      BY <2>3, <2>4 DEF Sound, OfOne
  <2> QED BY <2>1, <2>5
<1> QED BY <1>2, <1>4, <1>7, <1>9, <1>10, ThreeBounded

LEMMA SelectBounded ==
    ASSUME RecoveryIInv, NEW id \in Keyframe, Select(id), NEW n, n = pending'.copy,
           NEW settled \in BOOLEAN, settled => memory = disk
    PROVE  BoundariesOK(disk, n, <<"artifacts", "selection">>, settled)
<1>1. Ready /\ ShotIInv
    BY DEF Select, RecoveryIInv
<1>2. /\ CopyOK(disk) /\ Sound(disk) /\ CopyOK(memory) /\ Coherent(memory)
      /\ memory.shot = disk.shot /\ InPlay(memory) = InPlay(disk)
      /\ DOMAIN memory.keyframes = DOMAIN disk.keyframes
      /\ memory = disk => InPlay(disk) = disk.selection.candidates
    BY <1>1, ReadyIsCurrent
<1>3. /\ CopyOK(n) /\ ~Locked(memory) /\ id \in memory.selection.candidates
      /\ n.shot = memory.shot /\ DOMAIN n.keyframes = DOMAIN memory.keyframes
      /\ \A other \in DOMAIN n.keyframes :
            n.keyframes[other].status =
               IF other = id THEN "selected"
               ELSE IF other = memory.selection.selected THEN "candidate"
               ELSE memory.keyframes[other].status
      /\ n.selection = [candidates |-> memory.selection.candidates, selected |-> id]
    BY <1>1, SelectBegins
<1>4. PICK L : L = InPlay(memory)
    OBVIOUS
<1>5. /\ Within(memory) /\ L = memory.selection.candidates /\ id \in L
      /\ memory.selection.selected \in L \cup {None} /\ L \subseteq DOMAIN memory.keyframes
      /\ \A other \in L :
            memory.keyframes[other].status # "candidate" <=> other = memory.selection.selected
    BY <1>2, <1>3, <1>4 DEF Coherent, Within
<1>6. \A other \in DOMAIN n.keyframes :
         /\ other \in L <=> memory.keyframes[other].status # "superseded"
         /\ other \in L /\ other = id => n.keyframes[other].status = "selected"
         /\ other \in L /\ other # id => n.keyframes[other].status = "candidate"
         /\ other \notin L => n.keyframes[other].status = "superseded"
  <2>1. \A other \in DOMAIN n.keyframes :
           /\ other # None
           /\ other \in L <=> memory.keyframes[other].status # "superseded"
      BY <1>2, <1>3, <1>4, StatusIs DEF InPlay
  <2> QED BY <1>3, <1>5, <2>1
<1>7. InPlay(n) = L
    BY <1>3, <1>5, <1>6 DEF InPlay
<1>8. Coherent(n)
  <2>1. Within(n)
      BY <1>3, <1>5 DEF Within, OfOne
  <2>2. \A other \in InPlay(n) : n.keyframes[other].status # "candidate" <=> other = n.selection.selected
      BY <1>3, <1>5, <1>6, <1>7
  <2> QED BY <1>3, <1>5, <1>7, <2>1, <2>2 DEF Coherent
<1>9. Ends(disk, n, {"artifacts", "selection"})
    BY <1>2, <1>3, <1>8, AllWritten
<1>10. PICK m : m = Mixture(disk, n, {"artifacts"})
    OBVIOUS
<1>11. /\ CopyOK(m) /\ m.shot = disk.shot /\ m.keyframes = n.keyframes
       /\ m.selection = disk.selection
    BY <1>2, <1>3, <1>10, Mixtures
<1>12. InPlay(m) = L /\ InPlay(disk) = L
    BY <1>2, <1>4, <1>7, <1>11 DEF InPlay
<1>13. Within(m) /\ OfOne(L, m)
    BY <1>2, <1>3, <1>11, <1>12 DEF Sound, Within, OfOne
<1>14. ASSUME L = disk.selection.candidates
       PROVE  Boundary(disk, n, {"artifacts"}, settled)
  <2>1. \A other \in InPlay(m) : m.keyframes[other].status # "locked"
      BY <1>3, <1>5, <1>6, <1>11, <1>12
  <2>2. Sound(m)
      BY <1>11, <1>12, <1>13, <1>14, <2>1 DEF Sound
  <2>3. Sound(Mixture(disk, n, {"artifacts"})) /\ CopyOK(disk) /\ CopyOK(n)
      BY <1>2, <1>3, <1>10, <2>2
  <2> QED BY <2>3, SoundIsBoundary
<1>15. ASSUME L # disk.selection.candidates
       PROVE  Boundary(disk, n, {"artifacts"}, settled)
  <2>1. PICK ids : ids = CandidateIds(m.shot.generation)
      OBVIOUS
  <2>2. L = ids /\ m.selection.candidates # ids
      BY <1>2, <1>5, <1>11, <1>12, <1>15, <2>1 DEF Sound
  <2>3. m.shot.generation > 0
    <3>1. m.shot.generation \in Nat
        BY <1>11, CopyParts
    <3>2. \E g \in 1..m.shot.generation : L = CandidateIds(g)
        BY <1>5, <1>13 DEF OfOne
    <3> QED BY <3>1, <3>2
  <2>4. PICK r : r = RecoverGeneration(m)
      OBVIOUS
  <2>5. /\ r.selection = [candidates |-> ids, selected |-> None]
        /\ CopyOK(r) /\ r.keyframes = m.keyframes
    <3>1. ids \subseteq InPlay(m)
        BY <1>12, <2>2
    <3> QED BY <1>11, <2>1, <2>2, <2>3, <2>4, <3>1, PublishedIs
  <2>6. /\ r.selection.candidates = L /\ r.selection.selected = None
        /\ L \subseteq DOMAIN r.keyframes /\ InPlay(r) = L
      BY <1>3, <1>5, <1>11, <1>12, <2>2, <2>5 DEF InPlay
  <2>7. PICK q : q = RecoverCleared(r)
      OBVIOUS
  <2>8. q = r
    <3>1. ~(r.selection.candidates # {} /\ r.selection.candidates \cap InPlay(r) = {})
        BY <1>5, <2>6
    <3> QED BY <2>5, <2>6, <2>7, <3>1, ClearedIs
  <2>9. r = Recovered(m)
      BY <2>4, <2>7, <2>8 DEF Recovered
  <2>10. \A other \in DOMAIN r.keyframes : other # None
      BY <2>5, StatusIs
  <2>11. Reconcilable(r)
      BY <1>3, <1>6, <1>11, <2>5, <2>6, <2>10 DEF Reconcilable
  <2>12. Valid(r)
      BY <2>6 DEF Valid
  <2>13. Recoverable(m)
      BY <1>13, <2>9, <2>11, <2>12 DEF Recoverable, Loadable, Within
  <2>14. ~settled
      BY <1>2, <1>12, <1>15
  <2> QED BY <1>10, <2>13, <2>14 DEF Boundary
<1>16. Boundary(disk, n, {"artifacts"}, settled)
    BY <1>14, <1>15
<1>17. PICK files : files = <<"artifacts", "selection">>
    OBVIOUS
<1>18. files \in ToWrite /\ Len(files) = 2 /\ files[1] = "artifacts" /\ files[2] = "selection"
    BY <1>17 DEF ToWrite
<1>19. Written(files, Len(files)) = {"artifacts", "selection"}
    BY <1>18, WrittenIs
<1>20. CopyOK(disk) /\ Sound(disk) /\ CopyOK(n)
    BY <1>2, <1>3
<1>21. /\ Ends(disk, n, Written(files, Len(files))) /\ ~(Len(files) > 2)
       /\ Boundary(disk, n, {files[1]}, settled)
    BY <1>9, <1>16, <1>18, <1>19
<1>22. BoundariesOK(disk, n, files, settled)
    BY <1>18, <1>20, <1>21, BoundariesOf
<1> QED BY <1>17, <1>22

LEMMA AttachGenerationBounded ==
    ASSUME RecoveryIInv, NEW plan \in plans, AttachGeneration(plan), NEW n, n = pending'.copy,
           NEW settled \in BOOLEAN, settled => memory = disk
    PROVE  BoundariesOK(disk, n, <<"shot", "artifacts", "selection">>, settled)
<1>1. Ready /\ ShotIInv
    BY DEF AttachGeneration, RecoveryIInv
<1>2. PICK ids : ids = CandidateIds(plan.generation)
    OBVIOUS
<1>3. /\ CopyOK(disk) /\ Sound(disk) /\ CopyOK(memory)
      /\ memory.shot = disk.shot /\ DOMAIN memory.keyframes = DOMAIN disk.keyframes
      /\ memory = disk => InPlay(disk) = disk.selection.candidates
    BY <1>1, ReadyIsCurrent
<1>4. /\ CopyOK(n) /\ n.shot = [memory.shot EXCEPT !.generation = plan.generation]
      /\ plan.generation \in 1..MaxGenerations /\ ids \cap DOMAIN memory.keyframes = {}
      /\ memory.shot.generation \in {plan.generation - 1, plan.generation}
      /\ DOMAIN n.keyframes = DOMAIN memory.keyframes \cup ids
      /\ \A id \in DOMAIN n.keyframes :
            n.keyframes[id].status = IF id \in ids THEN "candidate" ELSE "superseded"
      /\ n.selection = [candidates |-> ids, selected |-> None]
    BY <1>1, <1>2, AttachGenerationBegins DEF Generating
<1>5. PICK g : g = plan.generation
    OBVIOUS
<1>6. PICK h : h = disk.shot.generation
    OBVIOUS
<1>7. /\ n.shot.generation = g /\ g \in Nat /\ h \in Nat /\ h <= g /\ g >= 1
      /\ ids = CandidateIds(g) /\ ids # {} /\ \A id \in ids : id[1] = g
  <2>1. n.shot.generation = g
      BY <1>3, <1>4, <1>5, CopyParts DEF Shot
  <2>2. g \in Nat /\ h \in Nat /\ h <= g /\ g >= 1
      BY <1>3, <1>4, <1>5, <1>6, CopyParts, PublicationFacts
  <2> QED BY <1>2, <1>5, <2>1, <2>2, IdsOfOne
<1>8. \A id \in DOMAIN n.keyframes : id # None
    BY <1>4, StatusIs
<1>9. \A id \in DOMAIN disk.keyframes : id[1] <= g /\ id \notin ids
  <2>1. \A id \in DOMAIN disk.keyframes : id[1] <= h /\ id[1] \in Nat
    <3>1. \A id \in Keyframe : id[1] \in Nat
        BY PublicationFacts DEF Keyframe
    <3> QED BY <1>3, <1>6, <3>1, CopyParts DEF Sound, Within
  <2> QED BY <1>3, <1>4, <1>7, <2>1
<1>10. \A id \in DOMAIN n.keyframes : id[1] <= g
    BY <1>3, <1>4, <1>7, <1>9
<1>11. InPlay(n) = ids
    BY <1>4 DEF InPlay
<1>12. g \in 1..g
    BY <1>7
<1>13. Coherent(n)
  <2>1. Within(n)
      BY <1>4, <1>7, <1>10, <1>12 DEF Within, OfOne
  <2> QED BY <1>4, <1>8, <1>11, <2>1 DEF Coherent
<1>14. /\ disk.selection.candidates \subseteq DOMAIN disk.keyframes
       /\ disk.selection.selected \in disk.selection.candidates \cup {None}
       /\ \/ disk.selection.candidates = {}
          \/ \E o \in 1..g : disk.selection.candidates = CandidateIds(o)
       /\ InPlay(disk) = {} \/ \E o \in 1..g : InPlay(disk) = CandidateIds(o)
  <2>1. 1..h \subseteq 1..g
      BY <1>7
  <2> QED BY <1>3, <1>6, <2>1 DEF Sound, Within, OfOne
<1>15. Sound(Mixture(disk, n, {"shot", "artifacts"}))
  <2>1. PICK m : m = Mixture(disk, n, {"shot", "artifacts"})
      OBVIOUS
  <2>2. /\ CopyOK(m) /\ m.shot = n.shot /\ m.keyframes = n.keyframes
        /\ m.selection = disk.selection
      BY <1>3, <1>4, <2>1, Mixtures
  <2>3. InPlay(m) = ids
      BY <1>11, <2>2 DEF InPlay
  <2>4. Within(m)
      BY <1>3, <1>4, <1>7, <1>10, <1>14, <2>2 DEF Within, OfOne
  <2>5. OfOne(ids, m)
      BY <1>7, <1>12, <2>2 DEF OfOne
  <2>6. \A id \in InPlay(m) : m.keyframes[id].status = "candidate"
      BY <1>4, <2>2, <2>3
  <2>7. Sound(m)
      BY <1>7, <2>2, <2>3, <2>4, <2>5, <2>6 DEF Sound
  <2> QED BY <2>1, <2>7
<1>16. PICK m : m = Mixture(disk, n, {"shot"})
    OBVIOUS
<1>17. /\ CopyOK(m) /\ m.shot = n.shot /\ m.keyframes = disk.keyframes
       /\ m.selection = disk.selection
    BY <1>3, <1>4, <1>16, Mixtures
<1>18. InPlay(m) = InPlay(disk) /\ Within(m)
    BY <1>7, <1>9, <1>14, <1>17 DEF InPlay, Within, OfOne
<1>19. settled => Sound(m)
  <2>1. settled => InPlay(disk) = disk.selection.candidates
      BY <1>3
  <2>2. OfOne(InPlay(m), m)
      BY <1>7, <1>14, <1>17, <1>18 DEF OfOne
  <2>3. \A id \in InPlay(m) : m.keyframes[id].status = "locked" => id = m.selection.selected
      BY <1>3, <1>17, <1>18 DEF Sound
  <2> QED BY <1>17, <1>18, <2>1, <2>2, <2>3 DEF Sound
<1>20. Loadable(m)
  <2>1. PICK r : r = RecoverGeneration(m)
      OBVIOUS
  <2>2. ~(ids \subseteq InPlay(m))
      BY <1>7, <1>9, <1>18 DEF InPlay
  <2>3. r = m
      BY <1>7, <1>17, <2>1, <2>2, PublishedIs
  <2>4. PICK q : q = RecoverCleared(m)
      OBVIOUS
  <2>5. q = Recovered(m)
      BY <2>1, <2>3, <2>4 DEF Recovered
  <2>6. m.selection.candidates \subseteq DOMAIN m.keyframes
      BY <1>14, <1>17
  <2>7. ASSUME NEW id \in DOMAIN m.keyframes
        PROVE  /\ m.keyframes[id].status \in Live <=> id \in InPlay(m)
               /\ id \notin InPlay(m) => m.keyframes[id].status = "superseded"
               /\ m.keyframes[id].status \in {"candidate", "selected", "locked", "superseded"}
               /\ m.keyframes[id].status = "locked" => id = m.selection.selected
               /\ InPlay(m) # m.selection.candidates /\ id \in InPlay(m) =>
                     m.keyframes[id].status = "candidate"
    <3>1. /\ m.keyframes[id].status \in Live <=> id \in InPlay(m)
          /\ id \notin InPlay(m) => m.keyframes[id].status = "superseded"
          /\ m.keyframes[id].status \in {"candidate", "selected", "locked", "superseded"}
        BY <1>17, StatusIs
    <3>2. id \in InPlay(disk) /\ disk.keyframes[id].status = "locked" => id = disk.selection.selected
        BY <1>3 DEF Sound
    <3>3. InPlay(disk) # disk.selection.candidates /\ id \in InPlay(disk) =>
              disk.keyframes[id].status = "candidate"
        BY <1>3 DEF Sound
    <3> QED BY <1>17, <1>18, <3>1, <3>2, <3>3 DEF Live
  <2>8. CASE m.selection.candidates # {} /\ m.selection.candidates \cap InPlay(m) = {}
    <3>1. q.selection = [candidates |-> {}, selected |-> None] /\ q.keyframes = m.keyframes
        BY <1>17, <2>4, <2>6, <2>8, ClearedIs
    <3>2. InPlay(m) # m.selection.candidates
        BY <2>8
    <3>3. Reconcilable(q)
        BY <2>7, <3>1, <3>2 DEF Reconcilable
    <3>4. Valid(q)
        BY <3>1 DEF Valid
    <3> QED BY <2>5, <3>3, <3>4 DEF Loadable
  <2>9. CASE m.selection.candidates = {}
    <3>1. q = m
        BY <1>17, <2>4, <2>6, <2>9, ClearedIs
    <3>2. \A id \in DOMAIN m.keyframes : m.keyframes[id].status \in {"candidate", "superseded"}
      <4>1. CASE InPlay(m) # m.selection.candidates
          BY <2>7, <4>1
      <4>2. CASE InPlay(m) = m.selection.candidates
          BY <2>7, <2>9, <4>2
      <4> QED BY <4>1, <4>2
    <3>3. Reconcilable(q)
        BY <2>9, <3>1, <3>2 DEF Reconcilable
    <3>4. Valid(q)
        BY <1>14, <1>17, <3>1 DEF Valid
    <3> QED BY <2>5, <3>3, <3>4 DEF Loadable
  <2>10. CASE m.selection.candidates # {} /\ m.selection.candidates \cap InPlay(m) # {}
    <3>1. q = m
        BY <1>17, <2>4, <2>6, <2>10, ClearedIs
    <3>2. InPlay(m) = m.selection.candidates
      <4>1. PICK o \in 1..g : m.selection.candidates = CandidateIds(o)
          BY <1>14, <1>17, <2>10
      <4>2. PICK p \in 1..g : InPlay(m) = CandidateIds(p)
          BY <1>14, <1>18, <2>10
      <4>3. o \in Nat /\ p \in Nat
          BY <1>7
      <4> QED BY <2>10, <4>1, <4>2, <4>3, IdsOfOne
    <3>3. Reconcilable(q)
      <4>1. ASSUME NEW id \in DOMAIN m.keyframes
            PROVE  IF id \notin m.selection.candidates
                   THEN m.keyframes[id].status \in {"candidate", "superseded"}
                   ELSE IF id = m.selection.selected THEN m.keyframes[id].status \in Live
                   ELSE m.keyframes[id].status \in {"candidate", "selected"}
        <5>1. /\ m.keyframes[id].status \in Live <=> id \in m.selection.candidates
              /\ id \notin m.selection.candidates => m.keyframes[id].status = "superseded"
              /\ m.keyframes[id].status = "locked" => id = m.selection.selected
            BY <2>7, <3>2
        <5> QED BY <5>1 DEF Live
      <4> QED BY <3>1, <4>1 DEF Reconcilable
    <3>4. Valid(q)
        BY <1>14, <1>17, <3>1 DEF Valid
    <3> QED BY <2>5, <3>3, <3>4 DEF Loadable
  <2> QED BY <2>8, <2>9, <2>10
<1>21. Recoverable(m)
    BY <1>18, <1>20 DEF Recoverable, Within
<1>22. Boundary(disk, n, {"shot"}, settled)
    BY <1>16, <1>19, <1>21 DEF Boundary
<1>23. CopyOK(disk) /\ Sound(disk) /\ CopyOK(n)
    BY <1>3, <1>4
<1> QED BY <1>13, <1>15, <1>22, <1>23, ThreeBounded

(* An operation begun with boundaries to recover from.                     *)
LEMMA BegunRecovers ==
    ASSUME ShotIInv, NEW files \in ToWrite, NEW n, n = pending'.copy,
           NEW job \in Video \cup {None}, Begins(files, n, job), CopyOK(n), Keeps(n, memory),
           job = None => Keeps(memory, n), Loaded(memory) = memory,
           \A settled \in BOOLEAN : (settled => memory = disk) =>
               BoundariesOK(disk, n, files, settled)
    PROVE  RecoveryIInv'
<1>1. ShotIInv' /\ Under(files, n, job)
    BY Begun
<1>2. PICK settled : settled = pending'.settled
    OBVIOUS
<1>3. pending' # Idle /\ pending'.files = files /\ disk' = disk
    BY <1>1 DEF Under
<1>4. settled \in BOOLEAN
    BY <1>1, <1>2, <1>3 DEF ShotIInv, ShotTypes, PendingOK
<1>5. settled => memory = disk
    BY <1>1, <1>2 DEF Under
<1>6. BoundariesOK(disk, n, files, settled)
    BY <1>4, <1>5
<1>7. BoundariesOK(disk', pending'.copy, pending'.files, pending'.settled)
    BY <1>2, <1>3, <1>6
<1>8. Loaded(memory') = memory'
  <2>1. memory' = memory
      BY <1>1 DEF Under
  <2> QED BY <2>1
<1> QED BY <1>1, <1>3, <1>7, <1>8 DEF RecoveryIInv

(* What begins to write works on a copy.                                   *)
LEMMA OnlyOnACopy ==
    /\ \A d : SetDirection(d) => Ready
    /\ \A plan : AttachGeneration(plan) => Ready
    /\ \A id : Select(id) => Ready
    /\ \A id : SelectVideo(id) => Ready
    /\ \A job : AttachVideo(job) => Ready
    /\ Lock => Ready
    /\ Reset => Ready
    /\ LockVideo => Ready
<1>1. ASSUME NEW d, SetDirection(d) PROVE Ready
    BY <1>1 DEF SetDirection
<1>2. ASSUME NEW plan, AttachGeneration(plan) PROVE Ready
    BY <1>2 DEF AttachGeneration
<1>3. ASSUME NEW id, Select(id) PROVE Ready
    BY <1>3 DEF Select
<1>4. ASSUME NEW id, SelectVideo(id) PROVE Ready
    BY <1>4 DEF SelectVideo
<1>5. ASSUME NEW job, AttachVideo(job) PROVE Ready
    BY <1>5 DEF AttachVideo
<1>6. (Lock => Ready) /\ (Reset => Ready) /\ (LockVideo => Ready)
    BY DEF Lock, Reset, LockVideo
<1> QED BY <1>1, <1>2, <1>3, <1>4, <1>5, <1>6

LEMMA BeginningRecovers ==
    ASSUME RecoveryIInv,
           \/ \E d \in Direction : SetDirection(d)
           \/ \E plan \in plans : AttachGeneration(plan)
           \/ \E id \in Keyframe : Select(id)
           \/ Lock \/ Reset
           \/ \E job \in jobs : AttachVideo(job)
           \/ \E id \in Video : SelectVideo(id)
           \/ LockVideo
    PROVE  RecoveryIInv'
<1>1. PICK n : n = pending'.copy
    OBVIOUS
<1>2. ShotIInv /\ Ready /\ Loaded(memory) = memory
  <2>1. Ready
      BY OnlyOnACopy, Zenon
  <2> QED BY <2>1, ReadyIsCurrent, CoherentIsWhole DEF RecoveryIInv
<1>3. /\ <<"shot">> \in ToWrite /\ <<"artifacts">> \in ToWrite /\ <<"artifacts", "selection">> \in ToWrite
      /\ <<"shot", "artifacts">> \in ToWrite /\ <<"shot", "artifacts", "selection">> \in ToWrite
    BY DEF ToWrite
<1>4. ASSUME NEW files \in ToWrite, Begins(files, n, None), CopyOK(n),
             Keeps(n, memory), Keeps(memory, n),
             \A settled \in BOOLEAN : (settled => memory = disk) =>
                 BoundariesOK(disk, n, files, settled)
      PROVE  RecoveryIInv'
    BY <1>1, <1>2, <1>4, BegunRecovers
<1>5. ASSUME NEW d \in Direction, SetDirection(d)
      PROVE  RecoveryIInv'
  <2>1. /\ Begins(<<"shot">>, n, None) /\ CopyOK(n) /\ Keeps(n, memory) /\ Keeps(memory, n)
      BY <1>1, <1>2, <1>5, SetDirectionBegins, KeepsItsOwn
  <2>2. \A settled \in BOOLEAN : BoundariesOK(disk, n, <<"shot">>, settled)
      BY <1>1, <1>5, SetDirectionBounded
  <2> QED BY <1>3, <1>4, <2>1, <2>2
<1>6. ASSUME NEW plan \in plans, AttachGeneration(plan)
      PROVE  RecoveryIInv'
  <2>1. /\ Begins(<<"shot", "artifacts", "selection">>, n, None) /\ CopyOK(n)
        /\ Keeps(n, memory) /\ Keeps(memory, n)
      BY <1>1, <1>2, <1>6, AttachGenerationBegins, KeepsItsOwn
  <2>2. \A settled \in BOOLEAN : (settled => memory = disk) =>
            BoundariesOK(disk, n, <<"shot", "artifacts", "selection">>, settled)
      BY <1>1, <1>6, AttachGenerationBounded
  <2> QED BY <1>3, <1>4, <2>1, <2>2
<1>7. ASSUME NEW id \in Keyframe, Select(id)
      PROVE  RecoveryIInv'
  <2>1. /\ Begins(<<"artifacts", "selection">>, n, None) /\ CopyOK(n)
        /\ Keeps(n, memory) /\ Keeps(memory, n)
      BY <1>1, <1>2, <1>7, SelectBegins, KeepsItsOwn
  <2>2. \A settled \in BOOLEAN : (settled => memory = disk) =>
            BoundariesOK(disk, n, <<"artifacts", "selection">>, settled)
      BY <1>1, <1>7, SelectBounded
  <2> QED BY <1>3, <1>4, <2>1, <2>2
<1>8. CASE Lock
  <2>1. Begins(<<"artifacts">>, n, None) /\ CopyOK(n) /\ Keeps(n, memory) /\ Keeps(memory, n)
      BY <1>1, <1>2, <1>8, LockBegins, KeepsItsOwn
  <2>2. \A settled \in BOOLEAN : BoundariesOK(disk, n, <<"artifacts">>, settled)
      BY <1>1, <1>8, LockBounded
  <2> QED BY <1>3, <1>4, <2>1, <2>2
<1>9. CASE Reset
  <2>1. /\ Begins(<<"shot", "artifacts", "selection">>, n, None) /\ CopyOK(n)
        /\ Keeps(n, memory) /\ Keeps(memory, n)
      BY <1>1, <1>2, <1>9, ResetBegins
  <2>2. \A settled \in BOOLEAN : BoundariesOK(disk, n, <<"shot", "artifacts", "selection">>, settled)
      BY <1>1, <1>9, ResetBounded
  <2> QED BY <1>3, <1>4, <2>1, <2>2
<1>10. ASSUME NEW job \in jobs, AttachVideo(job)
       PROVE  RecoveryIInv'
  <2>1. /\ Begins(<<"shot", "artifacts">>, n, job.id) /\ CopyOK(n) /\ job.id \in Video
        /\ Keeps(n, memory)
      BY <1>1, <1>2, <1>10, AttachVideoBegins
  <2>2. job.id # None
      BY <2>1, PublicationFacts
  <2>3. \A settled \in BOOLEAN : BoundariesOK(disk, n, <<"shot", "artifacts">>, settled)
      BY <1>1, <1>10, AttachVideoBounded
  <2> QED BY <1>1, <1>2, <1>3, <2>1, <2>2, <2>3, BegunRecovers
<1>11. ASSUME Begins(<<"artifacts">>, n, None), CopyOK(n), Keeps(n, memory), Keeps(memory, n),
              n.shot = memory.shot, n.keyframes = memory.keyframes, n.selection = memory.selection
       PROVE  RecoveryIInv'
  <2>1. \A settled \in BOOLEAN : BoundariesOK(disk, n, <<"artifacts">>, settled)
      BY <1>2, <1>11, VideosBounded
  <2> QED BY <1>3, <1>4, <1>11, <2>1
<1>12. ASSUME NEW id \in Video, SelectVideo(id)
       PROVE  RecoveryIInv'
    BY <1>1, <1>2, <1>11, <1>12, SelectVideoBegins
<1>13. CASE LockVideo
    BY <1>1, <1>2, <1>11, <1>13, LockVideoBegins
<1> QED BY <1>5, <1>6, <1>7, <1>8, <1>9, <1>10, <1>12, <1>13

(* Writing some files and then others is writing them all.                 *)
LEMMA MixtureFurther ==
    ASSUME NEW d, CopyOK(d), NEW c, CopyOK(c), NEW first, NEW rest
    PROVE  Mixture(Mixture(d, c, first), c, rest) = Mixture(d, c, first \cup rest)
<1>1. PICK m : m = Mixture(d, c, first)
    OBVIOUS
<1>2. /\ m.shot = (IF "shot" \in first THEN c.shot ELSE d.shot)
      /\ m.keyframes = (IF "artifacts" \in first THEN c.keyframes ELSE d.keyframes)
      /\ m.videos = (IF "artifacts" \in first THEN c.videos ELSE d.videos)
      /\ m.selection = (IF "selection" \in first THEN c.selection ELSE d.selection)
  <2>1. /\ Mixture(d, c, first).shot = (IF "shot" \in first THEN c.shot ELSE d.shot)
        /\ Mixture(d, c, first).keyframes =
              (IF "artifacts" \in first THEN c.keyframes ELSE d.keyframes)
        /\ Mixture(d, c, first).videos = (IF "artifacts" \in first THEN c.videos ELSE d.videos)
        /\ Mixture(d, c, first).selection =
              (IF "selection" \in first THEN c.selection ELSE d.selection)
      BY MixtureIs
  <2> QED BY <1>1, <2>1
<1>3. \A name : name \in first \cup rest <=> name \in first \/ name \in rest
    OBVIOUS
<1>4. Mixture(m, c, rest) = Mixture(d, c, first \cup rest)
    BY <1>2, <1>3 DEF Mixture
<1> QED BY <1>1, <1>4

LEMMA WrittenFurther ==
    ASSUME NEW files \in ToWrite, Len(files) > 1, NEW n \in 0..Len(Tail(files))
    PROVE  /\ n + 1 \in 0..Len(files)
           /\ Written(files, n + 1) = {files[1]} \cup Written(Tail(files), n)
           /\ Len(Tail(files)) + 1 = Len(files)
<1>1. PICK l \in Nat : l = Len(files)
    BY ToWriteIs
<1>2. PICK rest : rest = Tail(files)
    OBVIOUS
<1>3. Len(rest) = l - 1 /\ l > 1 /\ \A i \in 1..(l - 1) : rest[i] = files[i + 1]
    BY <1>1, <1>2, ToWriteIs
<1>4. n \in 0..(l - 1)
    BY <1>2, <1>3
<1>5. ASSUME NEW x PROVE x \in Written(files, n + 1) <=> x \in {files[1]} \cup Written(rest, n)
  <2>1. ASSUME NEW i \in 1..(n + 1), x = files[i]
        PROVE  x \in {files[1]} \cup Written(rest, n)
    <3>1. CASE i = 1
        BY <2>1, <3>1
    <3>2. CASE i # 1
      <4>1. i - 1 \in 1..n /\ i - 1 \in 1..(l - 1) /\ (i - 1) + 1 = i
          BY <1>4, <3>2
      <4>2. rest[i - 1] = x
          BY <1>3, <2>1, <4>1
      <4> QED BY <4>1, <4>2 DEF Written
    <3> QED BY <3>1, <3>2
  <2>2. ASSUME NEW i \in 1..n, x = rest[i]
        PROVE  x \in Written(files, n + 1)
    <3>1. i + 1 \in 1..(n + 1) /\ i \in 1..(l - 1)
        BY <1>4
    <3>2. files[i + 1] = x
        BY <1>3, <2>2, <3>1
    <3> QED BY <3>1, <3>2 DEF Written
  <2>3. 1 \in 1..(n + 1)
      BY <1>4
  <2> QED BY <2>1, <2>2, <2>3 DEF Written
<1> QED BY <1>1, <1>2, <1>3, <1>4, <1>5

(* What is left to write goes on from what was written.                    *)
LEMMA MixtureAfter ==
    ASSUME NEW d, CopyOK(d), NEW c, CopyOK(c), NEW files \in ToWrite, Len(files) > 1,
           NEW b, b = Mixture(d, c, {files[1]}), NEW n \in 0..Len(Tail(files))
    PROVE  /\ n + 1 \in 0..Len(files)
           /\ Mixture(b, c, Written(Tail(files), n)) = Mixture(d, c, Written(files, n + 1))
<1>1. PICK w : w = Written(Tail(files), n)
    OBVIOUS
<1>2. n + 1 \in 0..Len(files) /\ Written(files, n + 1) = {files[1]} \cup w
    BY <1>1, WrittenFurther
<1>3. PICK first : first = {files[1]}
    OBVIOUS
<1>4. Mixture(Mixture(d, c, first), c, w) = Mixture(d, c, first \cup w)
    BY MixtureFurther
<1> QED BY <1>1, <1>2, <1>3, <1>4

(* The first of the files left to write.                                   *)
LEMMA FirstFile ==
    ASSUME ShotIInv, pending # Idle, NEW n, n = Replaced(disk, Head(pending.files), pending.copy)
    PROVE  /\ CopyOK(disk) /\ CopyOK(pending.copy) /\ pending.files \in ToWrite
           /\ n = Mixture(disk, pending.copy, {pending.files[1]})
<1>1. CopyOK(disk) /\ CopyOK(pending.copy) /\ pending.files \in ToWrite
    BY DEF ShotIInv, ShotTypes, PendingOK
<1>2. n = Replaced(disk, pending.files[1], pending.copy) /\ pending.files[1] \in File
    BY <1>1, ToWriteIs
<1>3. n = Mixture(disk, pending.copy, {pending.files[1]})
    BY <1>1, <1>2, ReplacedIs
<1> QED BY <1>1, <1>3

LEMMA FileWritten ==
    ASSUME ShotIInv, pending # Idle, WriteNext
    PROVE  /\ CopyOK(disk) /\ CopyOK(pending.copy) /\ pending.files \in ToWrite
           /\ disk' = Mixture(disk, pending.copy, {pending.files[1]})
BY FirstFile DEF WriteNext

LEMMA FilesLeft ==
    ASSUME ShotIInv, pending # Idle, WriteNext, Len(pending.files) > 1
    PROVE  /\ pending' # Idle /\ pending'.files = Tail(pending.files)
           /\ pending'.copy = pending.copy /\ pending'.settled = pending.settled
<1>1. pending' = [pending EXCEPT !.files = Tail(pending.files)]
    BY DEF WriteNext
<1>2. pending = [files |-> pending.files, copy |-> pending.copy,
                 job |-> pending.job, settled |-> pending.settled]
    BY DEF ShotIInv, ShotTypes, PendingOK
<1>3. pending' = [files |-> Tail(pending.files), copy |-> pending.copy,
                  job |-> pending.job, settled |-> pending.settled]
    BY <1>1, <1>2
<1>4. /\ pending'.files = Tail(pending.files) /\ pending'.copy = pending.copy
      /\ pending'.settled = pending.settled
    BY <1>3
<1>5. Tail(pending.files) # <<>>
  <2>1. pending.files \in ToWrite
      BY FileWritten
  <2> QED BY <2>1, ToWriteIs
<1> QED BY <1>4, <1>5, NotIdle

(* The operation under way writes a file: the boundaries left are those    *)
(* still to come, and after the last one the copy is what would be loaded. *)
LEMMA WriteNextRecovers ==
    ASSUME RecoveryIInv, pending # Idle, WriteNext
    PROVE  RecoveryIInv'
<1>1. ShotIInv /\ ShotIInv'
    BY WriteNextKeeps DEF RecoveryIInv
<1>2. PICK files : files = pending.files
    OBVIOUS
<1>3. PICK c : c = pending.copy
    OBVIOUS
<1>4. PICK settled : settled = pending.settled
    OBVIOUS
<1>5. /\ CopyOK(disk) /\ CopyOK(c) /\ files \in ToWrite
      /\ disk' = Mixture(disk, c, {files[1]})
    BY <1>1, <1>2, <1>3, FileWritten
<1>6. BoundariesOK(disk, c, files, settled)
    BY <1>2, <1>3, <1>4 DEF RecoveryIInv
<1>7. CASE Len(files) > 1
  <2>1. /\ pending' # Idle /\ pending'.files = Tail(files) /\ pending'.copy = c
        /\ pending'.settled = settled
      BY <1>1, <1>2, <1>3, <1>4, <1>7, FilesLeft
  <2>2. ASSUME NEW n \in 0..Len(Tail(files))
        PROVE  /\ n + 1 \in 0..Len(files)
               /\ Mixture(disk', c, Written(Tail(files), n)) = Mixture(disk, c, Written(files, n + 1))
      BY <1>5, <1>7, MixtureAfter
  <2>3. ASSUME NEW n \in 0..Len(Tail(files))
        PROVE  Boundary(disk', c, Written(Tail(files), n), settled)
    <3>1. Boundary(disk, c, Written(files, n + 1), settled)
        BY <1>6, <2>2 DEF BoundariesOK
    <3> QED BY <2>2, <3>1 DEF Boundary
  <2>4. Ends(disk', c, Written(Tail(files), Len(Tail(files))))
    <3>1. PICK l : l = Len(Tail(files))
        OBVIOUS
    <3>2. l \in 0..Len(Tail(files)) /\ l + 1 = Len(files)
      <4>1. l \in Nat
          BY <1>5, <1>7, <3>1, ToWriteIs
      <4>2. l \in 0..Len(Tail(files))
          BY <3>1, <4>1
      <4> QED BY <1>5, <1>7, <3>1, <4>2, WrittenFurther
    <3>3. Mixture(disk', c, Written(Tail(files), l)) = Mixture(disk, c, Written(files, Len(files)))
        BY <2>2, <3>2
    <3>4. Ends(disk, c, Written(files, Len(files)))
        BY <1>6 DEF BoundariesOK
    <3> QED BY <3>1, <3>3, <3>4 DEF Ends
  <2>5. BoundariesOK(disk', c, Tail(files), settled)
      BY <2>3, <2>4 DEF BoundariesOK
  <2>6. BoundariesOK(disk', pending'.copy, pending'.files, pending'.settled)
      BY <2>1, <2>5
  <2>7. Loaded(memory') = memory'
    <3>1. memory' = memory
        BY <1>2, <1>7 DEF WriteNext
    <3> QED BY <3>1 DEF RecoveryIInv
  <2> QED BY <1>1, <2>1, <2>6, <2>7 DEF RecoveryIInv
<1>8. CASE ~(Len(files) > 1)
  <2>1. pending' = Idle /\ memory' = c
      BY <1>2, <1>3, <1>8 DEF WriteNext
  <2>2. Len(files) = 1
    <3>1. PICK l : l = Len(files)
        OBVIOUS
    <3>2. l \in Nat \ {0}
        BY <1>5, <3>1, ToWriteIs
    <3> QED BY <1>8, <3>1, <3>2
  <2>3. Ends(disk, c, {files[1]})
      BY <1>6, <2>2, WrittenIs DEF BoundariesOK
  <2>4. Sound(disk') /\ Loaded(disk') = c
      BY <1>5, <2>3 DEF Ends
  <2> QED BY <1>1, <2>1, <2>4 DEF RecoveryIInv
<1> QED BY <1>7, <1>8

(* Between operations, and before one whose files were settled writes any. *)
LEMMA SettledIsSound ==
    ASSUME RecoveryIInv
    PROVE  CopyOK(disk) /\ Recoverable(disk) /\ (pending.settled => Sound(disk))
<1>1. CopyOK(disk)
    BY DEF RecoveryIInv, ShotIInv, ShotTypes
<1>2. CASE pending = Idle
  <2>1. Sound(disk)
      BY <1>2 DEF RecoveryIInv
  <2> QED BY <1>1, <2>1, SoundIsMadeWhole
<1>3. CASE pending # Idle
  <2>1. BoundariesOK(disk, pending.copy, pending.files, pending.settled)
      BY <1>3 DEF RecoveryIInv
  <2>2. 0 \in 0..Len(pending.files)
    <3>1. pending.files \in ToWrite
        BY <1>3 DEF RecoveryIInv, ShotIInv, ShotTypes, PendingOK
    <3>2. Len(pending.files) \in Nat
        BY <3>1, ToWriteIs
    <3> QED BY <3>2
  <2>3. Boundary(disk, pending.copy, Written(pending.files, 0), pending.settled)
      BY <2>1, <2>2 DEF BoundariesOK
  <2>4. Mixture(disk, pending.copy, Written(pending.files, 0)) = disk
      BY <1>1, WrittenIs, NothingWritten
  <2> QED BY <1>1, <2>3, <2>4 DEF Boundary
<1> QED BY <1>2, <1>3

(* Steps that leave nothing to write.                                      *)
LEMMA RereadRecovers ==
    ASSUME ShotIInv', pending' = Idle, Sound(disk'), memory' # None => memory' = Loaded(disk')
    PROVE  RecoveryIInv'
BY DEF RecoveryIInv

LEMMA RestingRecovers ==
    ASSUME RecoveryIInv, Rests, ShotIInv'
    PROVE  RecoveryIInv'
<1>1. disk' = disk /\ memory' = memory /\ pending' = pending
    BY DEF Rests
<1> QED BY <1>1 DEF RecoveryIInv

LEMMA MaterializedIsSound ==
    ASSUME NEW c, CopyOK(c), Sound(c), NEW d \in Direction \cup {Unplanned}
    PROVE  Sound(Materialized(c, d))
<1>1. PICK n : n = Materialized(c, d)
    OBVIOUS
<1>2. /\ CopyOK(n) /\ n.keyframes = c.keyframes /\ n.selection = c.selection
      /\ n.shot = c.shot \/ \E x \in Direction : n.shot = [c.shot EXCEPT !.direction = x]
    BY <1>1, MaterializedIs
<1>3. n.shot.generation = c.shot.generation
    BY <1>2, CopyParts DEF Shot
<1>4. PICK l : l = Loaded(c)
    OBVIOUS
<1>5. Sound(n)
    BY <1>2, <1>3, <1>4, WrittenOver
<1> QED BY <1>1, <1>5

LEMMA FailVideoRecovers ==
    ASSUME RecoveryIInv, NEW job \in jobs, FailVideo(job)
    PROVE  RecoveryIInv'
<1>1. pending = Idle /\ disk' = disk /\ pending' = Idle /\ memory' = None
    BY DEF FailVideo
<1>2. ShotIInv'
    BY FailVideoKeeps DEF RecoveryIInv
<1>3. Sound(disk')
    BY <1>1 DEF RecoveryIInv
<1> QED BY <1>1, <1>2, <1>3, RereadRecovers

LEMMA LoadRecovers ==
    ASSUME RecoveryIInv, Load
    PROVE  RecoveryIInv'
<1>1. pending = Idle /\ disk' = disk /\ pending' = Idle /\ memory' = Loaded(disk')
    BY DEF Load
<1>2. ShotIInv'
    BY LoadKeeps DEF RecoveryIInv
<1>3. Sound(disk')
    BY <1>1 DEF RecoveryIInv
<1> QED BY <1>1, <1>2, <1>3, RereadRecovers

(* When the plan's shots are not all written, either this one was not, or   *)
(* no copy of it was held.                                                 *)
LEMMA LockPlanRecovers ==
    ASSUME RecoveryIInv, NEW d \in Direction, LockPlan(d), ~astray'
    PROVE  RecoveryIInv'
<1>1. /\ pending = Idle /\ pending' = Idle
      /\ disk' = disk \/ disk' = Materialized(disk, d)
      /\ memory' = None \/ (memory' = memory /\ (memory = None \/ disk' = disk))
    BY DEF LockPlan
<1>2. ShotIInv'
    BY LockPlanKeeps DEF RecoveryIInv
<1>3. CopyOK(disk) /\ Sound(disk) /\ (memory # None => memory = Loaded(disk))
    BY <1>1 DEF RecoveryIInv, ShotIInv, ShotTypes
<1>4. Sound(disk')
    BY <1>1, <1>3, MaterializedIsSound
<1>5. memory' # None => memory' = Loaded(disk')
    BY <1>1, <1>3
<1> QED BY <1>1, <1>2, <1>4, <1>5, RereadRecovers

LEMMA CollectRecovers ==
    ASSUME RecoveryIInv, Collect
    PROVE  RecoveryIInv'
<1>1. PICK c : c = Loaded(disk)
    OBVIOUS
<1>2. pending = Idle /\ disk' = Replaced(disk, "artifacts", c) /\ pending' = Idle /\ memory' = None
    BY <1>1 DEF Collect
<1>3. ShotIInv'
    BY CollectKeeps DEF RecoveryIInv
<1>4. CopyOK(disk) /\ Sound(disk)
    BY <1>2 DEF RecoveryIInv, ShotIInv, ShotTypes
<1>5. CopyOK(c)
    BY <1>1, <1>4, LoadedIs
<1>6. PICK m : m = Mixture(disk, c, {"artifacts"})
    OBVIOUS
<1>7. /\ CopyOK(m) /\ m.shot = disk.shot /\ m.keyframes = c.keyframes
      /\ m.selection = disk.selection
    BY <1>4, <1>5, <1>6, Mixtures
<1>8. Sound(m)
    BY <1>1, <1>4, <1>7, WrittenOver
<1>9. disk' = m
  <2>1. "artifacts" \in File
      BY DEF File
  <2> QED BY <1>2, <1>4, <1>5, <1>6, <2>1, ReplacedIs
<1> QED BY <1>2, <1>3, <1>8, <1>9, RereadRecovers

(* What is interrupted is the writing over settled files.                  *)
LEMMA ReopenRecovers ==
    ASSUME RecoveryIInv, Reopen, ~astray'
    PROVE  RecoveryIInv'
<1>1. /\ pending.settled /\ disk' = Materialized(disk, planned) /\ pending' = Idle
      /\ memory' = None
    BY DEF Reopen, Interrupted
<1>2. ShotIInv' /\ planned \in Direction \cup {Unplanned}
    BY ReopenKeeps DEF RecoveryIInv, ShotIInv, ShotTypes
<1>3. CopyOK(disk) /\ Sound(disk)
    BY <1>1, SettledIsSound
<1>4. Sound(disk')
    BY <1>1, <1>2, <1>3, MaterializedIsSound
<1> QED BY <1>1, <1>2, <1>4, RereadRecovers

(* The copy is given up, or the files are as it has them.                  *)
LEMMA FailWriteRecovers ==
    ASSUME RecoveryIInv, pending # Idle, FailWrite, ~astray'
    PROVE  RecoveryIInv'
<1>1. /\ disk' \in {disk, Replaced(disk, Head(pending.files), pending.copy)}
      /\ pending' = Idle /\ pending.settled
      /\ memory' = None \/ (memory' = memory /\ memory = disk')
    BY DEF FailWrite, Interrupted
<1>2. ShotIInv' /\ ShotIInv
    BY FailWriteKeeps DEF RecoveryIInv
<1>3. Sound(disk')
  <2>1. CASE disk' = disk
      BY <1>1, <2>1, SettledIsSound
  <2>2. CASE disk' = Replaced(disk, Head(pending.files), pending.copy)
    <3>1. /\ pending.files \in ToWrite
          /\ disk' = Mixture(disk, pending.copy, {pending.files[1]})
        BY <1>2, <2>2, FirstFile
    <3>2. 1 \in 0..Len(pending.files)
      <4>1. Len(pending.files) \in Nat \ {0}
          BY <3>1, ToWriteIs
      <4> QED BY <4>1
    <3>3. Boundary(disk, pending.copy, Written(pending.files, 1), pending.settled)
        BY <3>2 DEF RecoveryIInv, BoundariesOK
    <3> QED BY <1>1, <3>1, <3>3, WrittenIs DEF Boundary
  <2> QED BY <1>1, <2>1, <2>2
<1>4. memory' # None => memory' = Loaded(disk')
  <2>1. Loaded(memory) = memory
      BY DEF RecoveryIInv
  <2> QED BY <1>1, <2>1
<1> QED BY <1>1, <1>2, <1>3, <1>4, RereadRecovers

LEMMA RecoveryStart ==
    ASSUME Init
    PROVE  RecoveryIInv
<1>1. ShotIInv /\ disk = NewShot /\ memory = None /\ pending = Idle
    BY ShotStart DEF Init
<1>2. CopyOK(disk)
    BY <1>1 DEF ShotIInv, ShotTypes
<1>3. /\ DOMAIN disk.keyframes = {} /\ disk.selection.candidates = {}
      /\ disk.selection.selected = None
    BY <1>1 DEF NewShot
<1>4. InPlay(disk) = {}
    BY <1>3 DEF InPlay
<1>5. Coherent(disk)
    BY <1>3, <1>4 DEF Coherent, Within, OfOne
<1>6. Sound(disk)
    BY <1>2, <1>5, CoherentIsWhole
<1> QED BY <1>1, <1>6 DEF RecoveryIInv

LEMMA RecoveryStep ==
    ASSUME RecoveryIInv, [Next]_vars, ~astray'
    PROVE  RecoveryIInv'
<1>1. ShotIInv'
    BY ShotStepKeeps DEF RecoveryIInv
<1>2. CASE UNCHANGED vars
  <2>1. Rests
      BY <1>2 DEF vars, Rests
  <2> QED BY <1>1, <2>1, RestingRecovers
<1>3. CASE Next
  <2>1. CASE \/ \E d \in Direction : SetDirection(d)
             \/ \E plan \in plans : AttachGeneration(plan)
             \/ \E id \in Keyframe : Select(id)
             \/ Lock \/ Reset
             \/ \E job \in jobs : AttachVideo(job)
             \/ \E id \in Video : SelectVideo(id)
             \/ LockVideo
      BY <2>1, BeginningRecovers
  <2>2. ASSUME NEW d \in Direction, LockPlan(d) PROVE RecoveryIInv'
      BY <2>2, LockPlanRecovers
  <2>3. ASSUME NEW job \in jobs, FailVideo(job) PROVE RecoveryIInv'
      BY <2>3, FailVideoRecovers
  <2>4. ASSUME NEW job \in jobs, Acknowledge(job) PROVE RecoveryIInv'
    <3>1. Rests
        BY <2>4 DEF Acknowledge, Rests
    <3> QED BY <1>1, <3>1, RestingRecovers
  <2>5. CASE PlanGeneration \/ StartVideos
    <3>1. Rests
        BY <2>5 DEF PlanGeneration, StartVideos, Rests
    <3> QED BY <1>1, <3>1, RestingRecovers
  <2>6. CASE pending # Idle /\ WriteNext
      BY <2>6, WriteNextRecovers
  <2>7. CASE pending # Idle /\ FailWrite
      BY <2>7, FailWriteRecovers
  <2>8. CASE Load
      BY <2>8, LoadRecovers
  <2>9. CASE Collect
      BY <2>9, CollectRecovers
  <2>10. CASE Reopen
      BY <2>10, ReopenRecovers
  <2> QED BY <1>3, <2>1, <2>2, <2>3, <2>4, <2>5, <2>6, <2>7, <2>8, <2>9, <2>10, Zenon DEF Next
<1> QED BY <1>2, <1>3

(* A shot that has gone astray has gone for good.                          *)
LEMMA AstrayStays ==
    ASSUME ShotIInv, [Next]_vars, astray
    PROVE  astray'
<1>1. CASE UNCHANGED vars
    BY <1>1 DEF vars
<1>2. CASE Next
  <2>1. CASE pending # Idle /\ (WriteNext \/ FailWrite)
      BY <2>1 DEF WriteNext, FailWrite, Interrupted
  <2>2. CASE Reopen
      BY <2>2 DEF Reopen, Interrupted
  <2>3. ASSUME NEW d \in Direction, SetDirection(d) \/ LockPlan(d) PROVE astray'
      BY <2>3 DEF SetDirection, LockPlan, Write
  <2>4. ASSUME NEW plan \in plans, AttachGeneration(plan) PROVE astray'
      BY <2>4 DEF AttachGeneration, Write
  <2>5. ASSUME NEW id \in Keyframe, Select(id) PROVE astray'
      BY <2>5 DEF Select, Write
  <2>6. ASSUME NEW job \in jobs, FailVideo(job) \/ AttachVideo(job) \/ Acknowledge(job)
        PROVE  astray'
      BY <2>6 DEF FailVideo, AttachVideo, Acknowledge
  <2>7. ASSUME NEW id \in Video, SelectVideo(id) PROVE astray'
      BY <2>7 DEF SelectVideo, Write
  <2>8. CASE PlanGeneration \/ Lock \/ Reset \/ StartVideos \/ LockVideo \/ Load \/ Collect
      BY <2>8 DEF PlanGeneration, Lock, Reset, StartVideos, LockVideo, Load, Collect, Write
  <2> QED BY <1>2, <2>1, <2>2, <2>3, <2>4, <2>5, <2>6, <2>7, <2>8, Zenon DEF Next
<1> QED BY <1>1, <1>2

(* Until an operation is interrupted over the mixture another left, or a   *)
(* failed write leaves the session with an older copy than the files,      *)
(* every file boundary still ahead of the operation under way can be       *)
(* recovered from (shot.rs, persist, and load's                            *)
(* recover_partial_publication).                                           *)
THEOREM RecoveryInvariance == Spec => [](~astray => RecoveryIInv)
<1>1. Init => (~astray => RecoveryIInv)
    BY RecoveryStart
<1>2. ShotIInv /\ (~astray => RecoveryIInv) /\ [Next]_vars => (~astray => RecoveryIInv)'
    BY RecoveryStep, AstrayStays
<1> QED BY <1>1, <1>2, ShotInvariance, PTL DEF Spec

(* Wherever one writer is interrupted, the files load and the next         *)
(* generation's IDs name no record (shot.rs, recover_partial_publication). *)
THEOREM BoundariesAreRecoverable == Spec => []OneMixtureIsRecovered
<1>1. (~astray => RecoveryIInv) => OneMixtureIsRecovered
    BY SettledIsSound
       DEF OneMixtureIsRecovered, EveryBoundaryLoads, NextGenerationIsNew, Recoverable
<1> QED BY <1>1, RecoveryInvariance, PTL

(* And between operations the copy a session works on is what a load would *)
(* find (shot.rs, the copy persist leaves in memory).                      *)
THEOREM CopiesAreCurrent == Spec => []CopyIsCurrent
<1>1. (~astray => RecoveryIInv) => CopyIsCurrent
    BY DEF RecoveryIInv, CopyIsCurrent, Found
<1> QED BY <1>1, RecoveryInvariance, PTL

-----------------------------------------------------------------------------
(* The three files as one record of takes and approvals.                   *)

(* What a reader finds the keyframes to be.                                *)
Seen(c) == Standing(Loaded(c))

KeyframesStay(a, b) == Seen(b) = Seen(a) /\ Directions(b) = Directions(a)
VideosStay(a, b) == VideoStanding(b) = VideoStanding(a) /\ Sources(b) = Sources(a)

(* The record's steps, between two copies.                                 *)
Publishes(a, b, g) ==
    /\ Approval!Locked(Seen(a)) = {}
    /\ \A id \in Keyframe : id[1] = g => Seen(a)[id] = "none"
    /\ Seen(b) = [id \in Keyframe |-> IF id[1] = g THEN "candidate"
                                      ELSE Approval!Superseded(Seen(a))[id]]
    /\ \E d \in SUBSET Direction :
          Directions(b) = [id \in Keyframe |-> IF id[1] = g THEN d ELSE Directions(a)[id]]

Chooses(a, b, id) ==
    /\ Approval!Locked(Seen(a)) = {} /\ id \in Approval!Current(Seen(a))
    /\ Seen(b) = Approval!Choosing(Seen(a), id) /\ Directions(b) = Directions(a)

Locks(a, b, id) ==
    /\ Seen(a)[id] = "selected" /\ Directions(a)[id] = {a.shot.direction}
    /\ Seen(b) = [Seen(a) EXCEPT ![id] = "locked"] /\ Directions(b) = Directions(a)

Resets(a, b) ==
    /\ Seen(b) = Approval!Superseded(Seen(a)) /\ Directions(b) = Directions(a)
    /\ VideoStanding(b) = Approval!Superseded(VideoStanding(a)) /\ Sources(b) = Sources(a)

MakesWayForKeyframes(a, b) ==
    /\ \A id \in Approval!Current(Seen(a)) : Seen(a)[id] = "candidate"
    /\ Seen(b) = Approval!Superseded(Seen(a)) /\ Directions(b) = Directions(a)

MakesWay(a, b) ==
    /\ Approval!Locked(VideoStanding(a)) = {}
    /\ VideoStanding(b) = Approval!Superseded(VideoStanding(a)) /\ Sources(b) = Sources(a)

Adds(a, b, id) ==
    /\ VideoStanding(a)[id] = "none"
    /\ \E standing \in {"candidate", "superseded"} :
          VideoStanding(b) = [VideoStanding(a) EXCEPT ![id] = standing]
    /\ \E from \in Keyframe, d \in Direction :
          Sources(b) = [Sources(a) EXCEPT ![id] = {<<from, d>>}]

ChoosesVideo(a, b, id) ==
    /\ Approval!Locked(VideoStanding(a)) = {} /\ id \in Approval!Current(VideoStanding(a))
    /\ VideoStanding(b) = Approval!Choosing(VideoStanding(a), id) /\ Sources(b) = Sources(a)

LocksVideo(a, b, id) ==
    /\ Approval!Locked(VideoStanding(a)) = {} /\ id \in Approval!Current(VideoStanding(a))
    /\ \E from \in Approval!Locked(Seen(a)) : Sources(a)[id] = {<<from, a.shot.direction>>}
    /\ VideoStanding(b) = [VideoStanding(a) EXCEPT ![id] = "locked"] /\ Sources(b) = Sources(a)

(* A new direction alone, or none of it and one step of the takes.         *)
KeyframesChange(a, b) ==
    \/ MakesWayForKeyframes(a, b)
    \/ \E id \in Keyframe : Publishes(a, b, id[1]) \/ Chooses(a, b, id) \/ Locks(a, b, id)

VideosChange(a, b) ==
    \/ MakesWay(a, b)
    \/ \E id \in Video : Adds(a, b, id) \/ ChoosesVideo(a, b, id) \/ LocksVideo(a, b, id)

Approves(a, b) ==
    \/ KeyframesStay(a, b) /\ VideosStay(a, b)
    \/ /\ b.shot.direction = a.shot.direction
       /\ \/ KeyframesChange(a, b) /\ VideosStay(a, b)
          \/ KeyframesStay(a, b) /\ VideosChange(a, b)
          \/ Resets(a, b)

(* A video of a generation the shot has not come to is kept aside.         *)
Behind(c) ==
    \A id \in DOMAIN c.videos : id[1] > c.shot.video => c.videos[id].status = "superseded"

Steps(a, b) == Behind(b) /\ Approves(a, b)

(* Each of an operation's writes is a step of the record.                  *)
StepsOf(d, c, files) ==
    \A n \in 1..Len(files) :
        Steps(Mixture(d, c, Written(files, n - 1)), Mixture(d, c, Written(files, n)))

ApprovalIInv ==
    /\ RecoveryIInv
    /\ Behind(disk)
    /\ pending # Idle => StepsOf(disk, pending.copy, pending.files)

(* What a coherent copy shows.                                             *)
LEMMA CoherentShows ==
    ASSUME NEW c, CopyOK(c), Coherent(c), NEW k, k = Standing(c)
    PROVE  /\ k = [id \in Keyframe |->
                      IF id \in DOMAIN c.keyframes THEN c.keyframes[id].status ELSE "none"]
           /\ DOMAIN k = Keyframe
<1>1. \A id \in DOMAIN c.keyframes :
         id \notin c.selection.candidates => c.keyframes[id].status = "superseded"
    BY DEF Coherent, InPlay
<1>2. k = [id \in Keyframe |->
              IF id \notin DOMAIN c.keyframes THEN "none"
              ELSE IF id \in c.selection.candidates THEN c.keyframes[id].status
              ELSE "superseded"]
    BY DEF Standing
<1>3. k = [id \in Keyframe |->
              IF id \in DOMAIN c.keyframes THEN c.keyframes[id].status ELSE "none"]
    BY <1>1, <1>2
<1> QED BY <1>3

LEMMA LoadedShows ==
    ASSUME NEW c, CopyOK(c), NEW n, n = Loaded(c)
    PROVE  /\ Seen(c) = Standing(n) /\ Directions(c) = Directions(n)
           /\ VideoStanding(c) = VideoStanding(n) /\ Sources(c) = Sources(n)
           /\ n.shot = c.shot
<1>1. Seen(c) = Standing(n)
    BY DEF Seen
<1>2. /\ CopyOK(n) /\ n.shot = c.shot /\ n.videos = c.videos
      /\ n.keyframes = [id \in DOMAIN c.keyframes |->
                           Reconciled(c.keyframes[id], id, n.selection)]
  <2>1. /\ CopyOK(n) /\ n.shot = c.shot /\ n.videos = c.videos
        /\ n.selection = Recovered(c).selection
        /\ n.keyframes = [id \in DOMAIN c.keyframes |->
                             Reconciled(c.keyframes[id], id, Recovered(c).selection)]
      BY LoadedIs
  <2> QED BY <2>1
<1>3. DOMAIN n.keyframes = DOMAIN c.keyframes
    BY <1>2
<1>4. \A id \in DOMAIN c.keyframes : n.keyframes[id].made = c.keyframes[id].made
  <2>1. \A q \in KeyframeRecord : \A id, e : Reconciled(q, id, e).made = q.made
      BY DEF Reconciled, KeyframeRecord
  <2>2. \A id \in DOMAIN c.keyframes : c.keyframes[id] \in KeyframeRecord
      BY CopyParts
  <2>3. \A id \in DOMAIN c.keyframes :
           n.keyframes[id] = Reconciled(c.keyframes[id], id, n.selection)
      BY <1>2
  <2> QED BY <2>1, <2>2, <2>3
<1>5. Directions(c) = Directions(n)
    BY <1>3, <1>4 DEF Directions
<1>6. Sources(c) = Sources(n) /\ VideoStanding(c) = VideoStanding(n)
    BY <1>2 DEF Sources, VideoStanding, CurrentVideos
<1> QED BY <1>1, <1>2, <1>5, <1>6

LEMMA KeyframesStayIf ==
    ASSUME NEW a, CopyOK(a), NEW b, CopyOK(b), NEW m, m = Loaded(a), NEW n, n = Loaded(b),
           n.keyframes = m.keyframes, n.selection = m.selection
    PROVE  KeyframesStay(a, b)
<1>1. Seen(a) = Standing(m) /\ Seen(b) = Standing(n)
    BY DEF Seen
<1>2. Directions(a) = Directions(m) /\ Directions(b) = Directions(n)
    BY LoadedShows
<1>3. Standing(m) = Standing(n) /\ Directions(m) = Directions(n)
    BY DEF Standing, Directions
<1> QED BY <1>1, <1>2, <1>3 DEF KeyframesStay

LEMMA VideosStayIf ==
    ASSUME NEW a, NEW b, b.videos = a.videos, b.shot.video = a.shot.video
    PROVE  VideosStay(a, b) /\ (Behind(a) => Behind(b))
BY DEF VideosStay, VideoStanding, Sources, CurrentVideos, Behind

(* Writing over keyframes with what a reader made of them shows the same.  *)
LEMMA OverStays ==
    ASSUME NEW d, CopyOK(d), Sound(d), NEW c, c = Loaded(d), NEW m, CopyOK(m),
           m.shot.generation = d.shot.generation, m.selection = d.selection,
           m.keyframes = d.keyframes \/ m.keyframes = c.keyframes
    PROVE  KeyframesStay(d, m) /\ KeyframesStay(m, d)
<1>1. PICK n : n = Loaded(m)
    OBVIOUS
<1>2. CopyOK(c) /\ CopyOK(n)
    BY <1>1, LoadedIs
<1>3. n = Copy(m.shot, c.keyframes, m.videos, c.selection)
    BY <1>1, WrittenOver
<1>4. n.keyframes = c.keyframes /\ n.selection = c.selection
    BY <1>3, CopyFields
<1> QED BY <1>1, <1>4, KeyframesStayIf DEF KeyframesStay

(* Operations that write one, two or three files.                          *)
LEMMA StepsAre ==
    ASSUME NEW d, CopyOK(d), NEW c, NEW files \in ToWrite,
           NEW m1, m1 = Mixture(d, c, {files[1]}), Steps(d, m1),
           NEW m2, m2 = Mixture(d, c, {files[1], files[2]}), Len(files) > 1 => Steps(m1, m2),
           NEW m3, m3 = Mixture(d, c, {files[1], files[2], files[3]}),
           Len(files) > 2 => Steps(m2, m3)
    PROVE  StepsOf(d, c, files)
<1>1. Len(files) \in {1, 2, 3}
  <2>1. \A a, b, e : /\ Len(<<a>>) = 1 /\ Len(<<a, b>>) = 2 /\ Len(<<a, b, e>>) = 3
      OBVIOUS
  <2> QED BY <2>1 DEF ToWrite
<1>2. /\ Mixture(d, c, Written(files, 0)) = d /\ Mixture(d, c, Written(files, 1)) = m1
      /\ Mixture(d, c, Written(files, 2)) = m2 /\ Mixture(d, c, Written(files, 3)) = m3
  <2>1. Mixture(d, c, Written(files, 0)) = d
      BY WrittenIs, NothingWritten
  <2> QED BY <2>1, WrittenIs
<1>3. ASSUME NEW n \in 1..Len(files)
      PROVE  Steps(Mixture(d, c, Written(files, n - 1)), Mixture(d, c, Written(files, n)))
  <2>1. n = 1 \/ (n = 2 /\ Len(files) > 1) \/ (n = 3 /\ Len(files) > 2)
    <3>1. PICK l : l = Len(files)
        OBVIOUS
    <3>2. l \in {1, 2, 3} /\ n \in 1..l
        BY <1>1, <3>1
    <3>3. n = 1 \/ (n = 2 /\ l > 1) \/ (n = 3 /\ l > 2)
        BY <3>2
    <3> QED BY <3>1, <3>3
  <2>2. CASE n = 1
    <3>1. n - 1 = 0
        BY <2>2
    <3> QED BY <1>2, <2>2, <3>1
  <2>3. CASE n = 2 /\ Len(files) > 1
    <3>1. n - 1 = 1
        BY <2>3
    <3> QED BY <1>2, <2>3, <3>1
  <2>4. CASE n = 3 /\ Len(files) > 2
    <3>1. n - 1 = 2
        BY <2>4
    <3> QED BY <1>2, <2>4, <3>1
  <2> QED BY <2>1, <2>2, <2>3, <2>4
<1> QED BY <1>3 DEF StepsOf

LEMMA ShotChanged ==
    ASSUME NEW s \in Shot, NEW x, NEW t
    PROVE  /\ t = [s EXCEPT !.direction = x] =>
                 t.direction = x /\ t.video = s.video /\ t.generation = s.generation
           /\ t = [s EXCEPT !.generation = x] =>
                 t.generation = x /\ t.direction = s.direction /\ t.video = s.video
           /\ t = [s EXCEPT !.video = x] =>
                 t.video = x /\ t.direction = s.direction /\ t.generation = s.generation
BY DEF Shot

(* Files written over that at most redirect the shot.                      *)
LEMMA Redirects ==
    ASSUME NEW d, CopyOK(d), Sound(d), Behind(d), NEW c, c = Loaded(d), NEW m, CopyOK(m),
           m.shot.generation = d.shot.generation, m.shot.video = d.shot.video,
           m.videos = d.videos, m.selection = d.selection,
           m.keyframes = d.keyframes \/ m.keyframes = c.keyframes
    PROVE  Steps(d, m)
<1>1. KeyframesStay(d, m)
    BY OverStays
<1>2. VideosStay(d, m) /\ Behind(m)
    BY VideosStayIf
<1> QED BY <1>1, <1>2 DEF Steps, Approves

LEMMA SetDirectionSteps ==
    ASSUME RecoveryIInv, Behind(disk), NEW d \in Direction, SetDirection(d),
           NEW n, n = pending'.copy
    PROVE  StepsOf(disk, n, <<"shot">>)
<1>1. Ready /\ ShotIInv
    BY DEF SetDirection, RecoveryIInv
<1>2. /\ CopyOK(disk) /\ Sound(disk) /\ CopyOK(memory) /\ memory.shot = disk.shot
    BY <1>1, ReadyIsCurrent
<1>3. CopyOK(n) /\ n.shot = [memory.shot EXCEPT !.direction = d]
    BY <1>1, SetDirectionBegins
<1>4. PICK m : m = Mixture(disk, n, {"shot"})
    OBVIOUS
<1>5. /\ CopyOK(m) /\ m.shot = n.shot /\ m.keyframes = disk.keyframes
      /\ m.videos = disk.videos /\ m.selection = disk.selection
    BY <1>2, <1>3, <1>4, Mixtures
<1>6. m.shot.generation = disk.shot.generation /\ m.shot.video = disk.shot.video
    BY <1>2, <1>3, <1>5, ShotChanged, CopyParts
<1>7. Steps(disk, m)
  <2>1. PICK c : c = Loaded(disk)
      OBVIOUS
  <2> QED BY <1>2, <1>5, <1>6, <2>1, Redirects
<1>8. PICK files : files = <<"shot">>
    OBVIOUS
<1>9. files \in ToWrite /\ Len(files) = 1 /\ files[1] = "shot"
    BY <1>8 DEF ToWrite
<1>10. m = Mixture(disk, n, {files[1]}) /\ ~(Len(files) > 1) /\ ~(Len(files) > 2)
    BY <1>4, <1>9
<1>11. StepsOf(disk, n, files)
    BY <1>2, <1>7, <1>9, <1>10, StepsAre
<1> QED BY <1>8, <1>11

(* What a reader finds a video to be.                                      *)
LEMMA VideoShown ==
    ASSUME NEW c, NEW v, v = VideoStanding(c)
    PROVE  /\ DOMAIN v = Video /\ v = [id \in Video |-> v[id]]
           /\ \A id \in Video :
                 v[id] = IF id \notin DOMAIN c.videos THEN "none"
                         ELSE IF id[1] = c.shot.video THEN c.videos[id].status
                         ELSE "superseded"
BY DEF VideoStanding, CurrentVideos

LEMMA VideoStatusIs ==
    ASSUME NEW c, CopyOK(c), NEW id \in DOMAIN c.videos
    PROVE  /\ id \in Video /\ id[1] \in Nat
           /\ c.videos[id].status \in {"candidate", "selected", "locked", "superseded"}
<1>1. \A x \in Video : x[1] \in Nat
    BY PublicationFacts DEF Video
<1>2. id \in Video /\ c.videos[id] \in VideoRecord
    BY CopyParts
<1> QED BY <1>1, <1>2 DEF VideoRecord, Status

(* No video that is in play is locked.                                     *)
LEMMA NoneLocked ==
    ASSUME NEW c, CopyOK(c), ~LockedVideo(c), NEW v, v = VideoStanding(c)
    PROVE  Approval!Locked(v) = {}
<1>1. ASSUME NEW id \in Video, v[id] = "locked"
      PROVE  FALSE
  <2>1. id \in DOMAIN c.videos /\ id[1] = c.shot.video /\ c.videos[id].status = "locked"
      BY <1>1, VideoShown
  <2> QED BY <2>1 DEF LockedVideo, CurrentVideos
<1> QED BY <1>1, VideoShown DEF Approval!Locked

(* The files as a video is attached: those in play make way for one of a   *)
(* newer generation, and it joins them or is kept aside.                   *)
LEMMA AttachingMakesWay ==
    ASSUME NEW a, CopyOK(a), Behind(a), NEW n, NEW job, job.id \in Video,
           Attaching(a, n, job, Late(a, job.id[1])),
           NEW m, m.shot = n.shot, m.videos = a.videos
    PROVE  Behind(m) /\ (VideosStay(a, m) \/ MakesWay(a, m))
<1>1. PICK late \in BOOLEAN : late = Late(a, job.id[1])
    BY DEF Late
<1>2. PICK newer \in BOOLEAN : newer = (~late /\ job.id[1] > a.shot.video)
    OBVIOUS
<1>3. /\ n.shot.video = IF newer THEN job.id[1] ELSE a.shot.video
      /\ job.id[1] \in Nat /\ a.shot.video \in Nat
  <2>1. \A x \in Video : x[1] \in Nat
      BY PublicationFacts DEF Video
  <2> QED BY <1>1, <1>2, <2>1, CopyParts DEF Attaching
<1>4. CASE ~newer
  <2>1. m.shot.video = a.shot.video
      BY <1>3, <1>4
  <2> QED BY <2>1, VideosStayIf
<1>5. CASE newer
  <2>1. m.shot.video = job.id[1] /\ job.id[1] > a.shot.video /\ ~LockedVideo(a)
      BY <1>1, <1>2, <1>3, <1>5 DEF Late
  <2>2. Behind(m)
    <3>1. \A id \in DOMAIN m.videos : id[1] > m.shot.video => id[1] > a.shot.video
      <4>1. \A id \in DOMAIN m.videos : id[1] \in Nat
          BY VideoStatusIs
      <4> QED BY <1>3, <2>1, <4>1
    <3> QED BY <3>1 DEF Behind
  <2>3. PICK v : v = VideoStanding(a)
      OBVIOUS
  <2>4. PICK w : w = VideoStanding(m)
      OBVIOUS
  <2>5. ASSUME NEW id \in Video
        PROVE  w[id] = IF v[id] \in Approval!Live THEN "superseded" ELSE v[id]
    <3>1. v[id] = IF id \notin DOMAIN a.videos THEN "none"
                  ELSE IF id[1] = a.shot.video THEN a.videos[id].status ELSE "superseded"
        BY <2>3, VideoShown
    <3>2. w[id] = IF id \notin DOMAIN a.videos THEN "none"
                  ELSE IF id[1] = job.id[1] THEN a.videos[id].status ELSE "superseded"
      <4>1. w[id] = IF id \notin DOMAIN m.videos THEN "none"
                    ELSE IF id[1] = m.shot.video THEN m.videos[id].status ELSE "superseded"
          BY <2>4, VideoShown
      <4> QED BY <2>1, <4>1
    <3>3. CASE id \notin DOMAIN a.videos
        BY <3>1, <3>2, <3>3 DEF Approval!Live
    <3>4. CASE id \in DOMAIN a.videos
      <4>1. w[id] = "superseded"
          BY <2>1, <3>2, <3>4 DEF Behind
      <4>2. v[id] \in {"candidate", "selected", "locked", "superseded"}
          BY <3>1, <3>4, VideoStatusIs
      <4> QED BY <4>1, <4>2 DEF Approval!Live
    <3> QED BY <3>3, <3>4
  <2>6. w = Approval!Superseded(v)
    <3>1. /\ DOMAIN v = Video /\ DOMAIN w = Video /\ w = [id \in Video |-> w[id]]
        BY <2>3, <2>4, VideoShown
    <3> QED BY <2>5, <3>1 DEF Approval!Superseded
  <2>7. Approval!Locked(v) = {}
      BY <2>1, <2>3, NoneLocked
  <2>8. Sources(m) = Sources(a)
      BY DEF Sources
  <2> QED BY <2>2, <2>3, <2>4, <2>6, <2>7, <2>8 DEF MakesWay
<1> QED BY <1>4, <1>5

LEMMA AttachingAdds ==
    ASSUME NEW a, CopyOK(a), Behind(a), NEW n, CopyOK(n), Keeps(n, a),
           NEW job, job.id \in Video, Attaching(a, n, job, Late(a, job.id[1])),
           NEW l, l.shot = n.shot, l.videos = a.videos,
           NEW m, m.shot = n.shot, m.videos = n.videos
    PROVE  Behind(m) /\ Adds(l, m, job.id)
<1>1. PICK late \in BOOLEAN : late = Late(a, job.id[1])
    BY DEF Late
<1>2. PICK newer \in BOOLEAN : newer = (~late /\ job.id[1] > a.shot.video)
    OBVIOUS
<1>3. PICK new : new = job.id
    OBVIOUS
<1>4. /\ n.shot.video = IF newer THEN new[1] ELSE a.shot.video
      /\ new \in Video /\ new \notin DOMAIN a.videos
      /\ DOMAIN n.videos = DOMAIN a.videos \cup {new}
      /\ n.videos[new].status = IF late THEN "superseded" ELSE "candidate"
      /\ n.videos[new].from = job.from /\ n.videos[new].made = job.made
      /\ job.from \in Keyframe /\ job.made \in Direction
      /\ \A id \in DOMAIN a.videos :
            IF newer THEN n.videos[id].status = "superseded" ELSE n.videos[id] = a.videos[id]
    BY <1>1, <1>2, <1>3 DEF Attaching
<1>5. new[1] \in Nat /\ a.shot.video \in Nat
  <2>1. \A x \in Video : x[1] \in Nat
      BY PublicationFacts DEF Video
  <2> QED BY <1>4, <2>1, CopyParts
<1>6. /\ ~late => new[1] = n.shot.video
      /\ newer => new[1] > a.shot.video
  <2>1. ~late => ~(new[1] < a.shot.video)
      BY <1>1, <1>3 DEF Late
  <2>2. /\ newer => new[1] > a.shot.video
        /\ ~late /\ ~newer => ~(new[1] > a.shot.video)
      BY <1>2, <1>3, Zenon
  <2>3. CASE newer
      BY <1>4, <2>2, <2>3
  <2>4. CASE ~newer
      BY <1>4, <1>5, <2>1, <2>2, <2>4
  <2> QED BY <2>3, <2>4
<1>7. Behind(m)
  <2>1. ASSUME NEW id \in DOMAIN a.videos, id[1] > n.shot.video
        PROVE  n.videos[id].status = "superseded"
    <3>1. id[1] \in Nat
        BY VideoStatusIs
    <3>2. CASE newer
        BY <1>4, <3>2
    <3>3. CASE ~newer
        BY <1>4, <2>1, <3>3 DEF Behind
    <3> QED BY <3>2, <3>3
  <2>2. new[1] > n.shot.video => n.videos[new].status = "superseded"
      BY <1>4, <1>5, <1>6
  <2> QED BY <1>4, <2>1, <2>2 DEF Behind
<1>8. PICK v : v = VideoStanding(l)
    OBVIOUS
<1>9. PICK w : w = VideoStanding(m)
    OBVIOUS
<1>10. PICK standing : standing = IF late THEN "superseded" ELSE "candidate"
    OBVIOUS
<1>11. \A id \in Video : v[id] = IF id \notin DOMAIN a.videos THEN "none"
                                 ELSE IF id[1] = n.shot.video THEN a.videos[id].status
                                 ELSE "superseded"
  <2>1. \A id \in Video : v[id] = IF id \notin DOMAIN l.videos THEN "none"
                                ELSE IF id[1] = l.shot.video THEN l.videos[id].status
                                ELSE "superseded"
      BY <1>8, VideoShown
  <2> QED BY <2>1
<1>12. \A id \in Video : w[id] = IF id \notin DOMAIN n.videos THEN "none"
                                 ELSE IF id[1] = n.shot.video THEN n.videos[id].status
                                 ELSE "superseded"
  <2>1. \A id \in Video : w[id] = IF id \notin DOMAIN m.videos THEN "none"
                                ELSE IF id[1] = m.shot.video THEN m.videos[id].status
                                ELSE "superseded"
      BY <1>9, VideoShown
  <2> QED BY <2>1
<1>13. w[new] = standing
    BY <1>4, <1>6, <1>10, <1>12
<1>14. ASSUME NEW id \in Video, id # new
       PROVE  w[id] = v[id]
  <2>1. CASE id \notin DOMAIN a.videos
      BY <1>4, <1>11, <1>12, <1>14, <2>1
  <2>2. CASE id \in DOMAIN a.videos /\ ~newer
      BY <1>4, <1>11, <1>12, <2>2
  <2>3. CASE id \in DOMAIN a.videos /\ newer
    <3>1. id[1] = n.shot.video => a.videos[id].status = "superseded"
        BY <1>4, <1>6, <2>3 DEF Behind
    <3> QED BY <1>4, <1>11, <1>12, <2>3, <3>1
  <2> QED BY <2>1, <2>2, <2>3
<1>15. w = [v EXCEPT ![new] = standing]
  <2>1. /\ DOMAIN v = Video /\ v = [id \in Video |-> v[id]]
        /\ DOMAIN w = Video /\ w = [id \in Video |-> w[id]]
      BY <1>8, <1>9, VideoShown
  <2> QED BY <1>13, <1>14, <2>1
<1>16. Sources(m) = [Sources(l) EXCEPT ![new] = {<<job.from, job.made>>}]
  <2>1. \A id \in Video :
           Sources(m)[id] = IF id \in DOMAIN n.videos
                            THEN {<<n.videos[id].from, n.videos[id].made>>} ELSE {}
      BY DEF Sources
  <2>2. \A id \in Video :
           Sources(l)[id] = IF id \in DOMAIN a.videos
                            THEN {<<a.videos[id].from, a.videos[id].made>>} ELSE {}
      BY DEF Sources
  <2>3. \A id \in DOMAIN a.videos : /\ n.videos[id].from = a.videos[id].from
                                    /\ n.videos[id].made = a.videos[id].made
      BY DEF Keeps
  <2>4. /\ DOMAIN Sources(m) = Video /\ Sources(m) = [id \in Video |-> Sources(m)[id]]
        /\ DOMAIN Sources(l) = Video /\ Sources(l) = [id \in Video |-> Sources(l)[id]]
      BY DEF Sources
  <2>5. Sources(m)[new] = {<<job.from, job.made>>}
      BY <1>4, <2>1
  <2>6. ASSUME NEW id \in Video, id # new
        PROVE  Sources(m)[id] = Sources(l)[id]
    <3>1. CASE id \in DOMAIN a.videos
      <4>1. id \in DOMAIN n.videos
          BY <1>4, <3>1
      <4> QED BY <2>1, <2>2, <2>3, <3>1, <4>1
    <3>2. CASE id \notin DOMAIN a.videos
      <4>1. id \notin DOMAIN n.videos
          BY <1>4, <2>6, <3>2
      <4> QED BY <2>1, <2>2, <3>2, <4>1
    <3> QED BY <3>1, <3>2
  <2> QED BY <1>4, <2>4, <2>5, <2>6
<1>17. v[new] = "none"
    BY <1>4, <1>11
<1>18. standing \in {"candidate", "superseded"}
    BY <1>10
<1> QED BY <1>3, <1>4, <1>7, <1>8, <1>9, <1>15, <1>16, <1>17, <1>18 DEF Adds

LEMMA AttachVideoSteps ==
    ASSUME RecoveryIInv, Behind(disk), NEW job \in jobs, AttachVideo(job),
           NEW n, n = pending'.copy
    PROVE  StepsOf(disk, n, <<"shot", "artifacts">>)
<1>1. Ready /\ ShotIInv
    BY DEF AttachVideo, RecoveryIInv
<1>2. /\ CopyOK(disk) /\ Sound(disk) /\ memory = Loaded(disk) /\ CopyOK(memory)
      /\ memory.shot = disk.shot /\ memory.videos = disk.videos
    BY <1>1, ReadyIsCurrent
<1>3. /\ CopyOK(n) /\ job.id \in Video /\ Keeps(n, memory)
      /\ \E v \in 0..MaxVideos : n.shot = [memory.shot EXCEPT !.video = v]
      /\ n.keyframes = memory.keyframes
      /\ Attaching(memory, n, job, Late(memory, job.id[1]))
    BY <1>1, AttachVideoBegins
<1>4. n.shot.direction = disk.shot.direction /\ n.shot.generation = disk.shot.generation
    BY <1>2, <1>3, ShotChanged, CopyParts
<1>5. Behind(memory)
    BY <1>2 DEF Behind
<1>6. PICK l : l = Mixture(disk, n, {"shot"})
    OBVIOUS
<1>7. PICK m : m = Mixture(disk, n, {"shot", "artifacts"})
    OBVIOUS
<1>8. /\ CopyOK(l) /\ l.shot = n.shot /\ l.keyframes = disk.keyframes
      /\ l.videos = disk.videos /\ l.selection = disk.selection
    BY <1>2, <1>3, <1>6, Mixtures
<1>9. /\ CopyOK(m) /\ m.shot = n.shot /\ m.keyframes = n.keyframes
      /\ m.videos = n.videos /\ m.selection = disk.selection
    BY <1>2, <1>3, <1>7, Mixtures
<1>10. KeyframesStay(disk, l) /\ KeyframesStay(l, m)
  <2>1. KeyframesStay(disk, l)
      BY <1>2, <1>4, <1>8, OverStays
  <2>2. KeyframesStay(disk, m)
      BY <1>2, <1>3, <1>4, <1>9, OverStays
  <2> QED BY <2>1, <2>2 DEF KeyframesStay
<1>11. Behind(l) /\ (VideosStay(disk, l) \/ MakesWay(disk, l))
  <2>1. Behind(l) /\ (VideosStay(memory, l) \/ MakesWay(memory, l))
      BY <1>2, <1>3, <1>5, <1>8, AttachingMakesWay
  <2>2. VideoStanding(memory) = VideoStanding(disk) /\ Sources(memory) = Sources(disk)
      BY <1>2, LoadedShows
  <2> QED BY <2>1, <2>2 DEF VideosStay, MakesWay
<1>12. Behind(m) /\ Adds(l, m, job.id)
    BY <1>2, <1>3, <1>5, <1>8, <1>9, AttachingAdds
<1>13. Steps(disk, l)
    BY <1>4, <1>8, <1>10, <1>11 DEF Steps, Approves, VideosChange
<1>14. Steps(l, m)
    BY <1>3, <1>8, <1>9, <1>10, <1>12 DEF Steps, Approves, VideosChange
<1>15. PICK files : files = <<"shot", "artifacts">>
    OBVIOUS
<1>16. files \in ToWrite /\ Len(files) = 2 /\ files[1] = "shot" /\ files[2] = "artifacts"
    BY <1>15 DEF ToWrite
<1>17. /\ l = Mixture(disk, n, {files[1]}) /\ m = Mixture(disk, n, {files[1], files[2]})
       /\ ~(Len(files) > 2)
    BY <1>6, <1>7, <1>16
<1>18. StepsOf(disk, n, files)
    BY <1>2, <1>13, <1>14, <1>16, <1>17, StepsAre
<1> QED BY <1>15, <1>18

(* Records of videos are written, with the keyframes as a reader made      *)
(* them.                                                                   *)
LEMMA VideosSteps ==
    ASSUME RecoveryIInv, Ready, NEW n, CopyOK(n), n.shot = memory.shot,
           n.keyframes = memory.keyframes,
           Behind(n), VideosChange(memory, n)
    PROVE  StepsOf(disk, n, <<"artifacts">>)
<1>1. /\ CopyOK(disk) /\ Sound(disk) /\ memory = Loaded(disk) /\ CopyOK(memory)
      /\ memory.shot = disk.shot /\ memory.videos = disk.videos
      /\ Coherent(memory)
    BY ReadyIsCurrent
<1>2. PICK m : m = Mixture(disk, n, {"artifacts"})
    OBVIOUS
<1>3. /\ CopyOK(m) /\ m.shot = disk.shot /\ m.keyframes = n.keyframes
      /\ m.videos = n.videos /\ m.selection = disk.selection
    BY <1>1, <1>2, Mixtures
<1>4. KeyframesStay(disk, m)
    BY <1>1, <1>3, OverStays
<1>5. VideosStay(n, m) /\ Behind(m)
    BY <1>1, <1>3, VideosStayIf
<1>6. VideoStanding(memory) = VideoStanding(disk) /\ Sources(memory) = Sources(disk)
    BY <1>1, LoadedShows
<1>7. Seen(memory) = Seen(disk)
    BY <1>1, CoherentIsWhole DEF Seen
<1>8. VideosChange(disk, m)
  <2>1. ASSUME NEW id \in Video
        PROVE  /\ Adds(memory, n, id) => Adds(disk, m, id)
               /\ ChoosesVideo(memory, n, id) => ChoosesVideo(disk, m, id)
               /\ LocksVideo(memory, n, id) => LocksVideo(disk, m, id)
      BY <1>1, <1>5, <1>6, <1>7 DEF Adds, ChoosesVideo, LocksVideo, VideosStay
  <2>2. MakesWay(memory, n) => MakesWay(disk, m)
      BY <1>5, <1>6 DEF MakesWay, VideosStay
  <2> QED BY <2>1, <2>2 DEF VideosChange
<1>9. Steps(disk, m)
    BY <1>3, <1>4, <1>5, <1>8 DEF Steps, Approves
<1>10. PICK files : files = <<"artifacts">>
    OBVIOUS
<1>11. files \in ToWrite /\ Len(files) = 1 /\ files[1] = "artifacts"
    BY <1>10 DEF ToWrite
<1>12. m = Mixture(disk, n, {files[1]}) /\ ~(Len(files) > 1) /\ ~(Len(files) > 2)
    BY <1>2, <1>11
<1>13. StepsOf(disk, n, files)
    BY <1>1, <1>9, <1>11, <1>12, StepsAre
<1> QED BY <1>10, <1>13

LEMMA SourcesKept ==
    ASSUME NEW a, NEW b, Keeps(b, a), DOMAIN b.videos = DOMAIN a.videos
    PROVE  Sources(b) = Sources(a)
<1>1. \A id \in DOMAIN a.videos : /\ b.videos[id].from = a.videos[id].from
                                  /\ b.videos[id].made = a.videos[id].made
    BY DEF Keeps
<1> QED BY <1>1 DEF Sources

LEMMA SelectVideoSteps ==
    ASSUME RecoveryIInv, Behind(disk), NEW chosen \in Video, SelectVideo(chosen),
           NEW n, n = pending'.copy
    PROVE  StepsOf(disk, n, <<"artifacts">>)
<1>1. Ready /\ ShotIInv
    BY DEF SelectVideo, RecoveryIInv
<1>2. CopyOK(memory) /\ memory.shot = disk.shot /\ memory.videos = disk.videos
    BY <1>1, ReadyIsCurrent
<1>3. Behind(memory)
    BY <1>2 DEF Behind
<1>4. /\ CopyOK(n) /\ n.shot = memory.shot /\ n.keyframes = memory.keyframes
      /\ Keeps(n, memory) /\ ~LockedVideo(memory) /\ chosen \in CurrentVideos(memory)
      /\ DOMAIN n.videos = DOMAIN memory.videos
      /\ \A other \in DOMAIN memory.videos :
            n.videos[other].status = IF other = chosen THEN "selected"
                                     ELSE IF other \in CurrentVideos(memory) THEN "candidate"
                                     ELSE memory.videos[other].status
    BY <1>1, SelectVideoBegins
<1>5. PICK v : v = VideoStanding(memory)
    OBVIOUS
<1>6. PICK w : w = VideoStanding(n)
    OBVIOUS
<1>7. /\ DOMAIN v = Video /\ v = [id \in Video |-> v[id]]
      /\ DOMAIN w = Video /\ w = [id \in Video |-> w[id]]
    BY <1>5, <1>6, VideoShown
<1>8. Approval!Locked(v) = {}
    BY <1>2, <1>4, <1>5, NoneLocked
<1>9. ASSUME NEW id \in DOMAIN memory.videos
      PROVE  /\ id \in CurrentVideos(memory) <=>
                   id[1] = memory.shot.video /\ memory.videos[id].status # "superseded"
             /\ id \in CurrentVideos(memory) =>
                   memory.videos[id].status \in {"candidate", "selected"}
             /\ id \notin CurrentVideos(memory) /\ id[1] = memory.shot.video =>
                   memory.videos[id].status = "superseded"
             /\ id \in Video
  <2>1. /\ id \in Video
        /\ memory.videos[id].status \in {"candidate", "selected", "locked", "superseded"}
      BY <1>2, VideoStatusIs
  <2>2. id \in CurrentVideos(memory) => memory.videos[id].status # "locked"
      BY <1>4 DEF LockedVideo
  <2> QED BY <2>1, <2>2 DEF CurrentVideos
<1>10. Behind(n)
  <2>1. ASSUME NEW id \in DOMAIN memory.videos, id[1] > memory.shot.video
        PROVE  n.videos[id].status = "superseded"
    <3>1. memory.videos[id].status = "superseded"
        BY <1>3, <2>1 DEF Behind
    <3>2. id \notin CurrentVideos(memory) /\ id # chosen
        BY <1>4, <1>9, <3>1
    <3> QED BY <1>4, <3>1, <3>2
  <2> QED BY <1>4, <2>1 DEF Behind
<1>11. \A id \in Video :
          v[id] = IF id \notin DOMAIN memory.videos THEN "none"
                  ELSE IF id[1] = memory.shot.video THEN memory.videos[id].status
                  ELSE "superseded"
    BY <1>5, VideoShown
<1>12. \A id \in Video :
          w[id] = IF id \notin DOMAIN memory.videos THEN "none"
                  ELSE IF id[1] = memory.shot.video THEN n.videos[id].status
                  ELSE "superseded"
  <2>1. \A id \in Video :
           w[id] = IF id \notin DOMAIN n.videos THEN "none"
                   ELSE IF id[1] = n.shot.video THEN n.videos[id].status
                   ELSE "superseded"
      BY <1>6, VideoShown
  <2> QED BY <1>4, <2>1
<1>13. ASSUME NEW id \in Video
       PROVE  w[id] = IF id = chosen THEN "selected"
                      ELSE IF v[id] = "selected" THEN "candidate" ELSE v[id]
  <2>1. chosen \in DOMAIN memory.videos /\ chosen[1] = memory.shot.video
      BY <1>4 DEF CurrentVideos
  <2>2. CASE id \notin DOMAIN memory.videos
      BY <1>11, <1>12, <2>1, <2>2
  <2>3. CASE id = chosen
      BY <1>4, <1>12, <2>1, <2>3
  <2>4. CASE id \in CurrentVideos(memory) /\ id # chosen
    <3>1. id \in DOMAIN memory.videos
        BY <2>4 DEF CurrentVideos
    <3> QED BY <1>4, <1>9, <1>11, <1>12, <2>4, <3>1
  <2>5. CASE id \in DOMAIN memory.videos /\ id \notin CurrentVideos(memory) /\ id # chosen
      BY <1>4, <1>9, <1>11, <1>12, <2>5
  <2> QED BY <2>2, <2>3, <2>4, <2>5
<1>14. w = Approval!Choosing(v, chosen)
    BY <1>7, <1>13 DEF Approval!Choosing
<1>15. chosen \in Approval!Current(v)
  <2>1. chosen \in DOMAIN memory.videos /\ chosen[1] = memory.shot.video
      BY <1>4 DEF CurrentVideos
  <2>2. v[chosen] \in {"candidate", "selected"}
      BY <1>4, <1>9, <1>11, <2>1
  <2> QED BY <1>7, <2>2 DEF Approval!Current, Approval!Live
<1>16. Sources(n) = Sources(memory)
    BY <1>4, SourcesKept
<1>17. ChoosesVideo(memory, n, chosen)
    BY <1>5, <1>6, <1>8, <1>14, <1>15, <1>16 DEF ChoosesVideo
<1>18. VideosChange(memory, n)
    BY <1>17 DEF VideosChange
<1> QED BY <1>1, <1>4, <1>10, <1>18, VideosSteps

LEMMA LockVideoSteps ==
    ASSUME RecoveryIInv, Behind(disk), LockVideo, NEW n, n = pending'.copy
    PROVE  StepsOf(disk, n, <<"artifacts">>)
<1>1. Ready /\ ShotIInv
    BY DEF LockVideo, RecoveryIInv
<1>2. /\ CopyOK(memory) /\ Coherent(memory)
      /\ memory.shot = disk.shot /\ memory.videos = disk.videos
    BY <1>1, ReadyIsCurrent
<1>3. Behind(memory)
    BY <1>2 DEF Behind
<1>4. /\ CopyOK(n) /\ n.shot = memory.shot /\ n.keyframes = memory.keyframes
      /\ Keeps(n, memory) /\ ~LockedVideo(memory) /\ DOMAIN n.videos = DOMAIN memory.videos
    BY <1>1, LockVideoBegins
<1>5. PICK id \in CurrentVideos(memory) :
         /\ Follows(memory, id)
         /\ \A other \in DOMAIN memory.videos :
               n.videos[other].status =
                  IF other = id THEN "locked" ELSE memory.videos[other].status
    BY <1>1, LockVideoBegins
<1>6. /\ id \in DOMAIN memory.videos /\ id[1] = memory.shot.video
      /\ memory.videos[id].status # "superseded"
      /\ id \in Video /\ memory.videos[id].status \in {"candidate", "selected", "locked", "superseded"}
    BY <1>2, VideoStatusIs DEF CurrentVideos
<1>7. PICK v : v = VideoStanding(memory)
    OBVIOUS
<1>8. PICK w : w = VideoStanding(n)
    OBVIOUS
<1>9. /\ DOMAIN v = Video /\ v = [other \in Video |-> v[other]]
      /\ DOMAIN w = Video /\ w = [other \in Video |-> w[other]]
    BY <1>7, <1>8, VideoShown
<1>10. \A other \in Video :
          v[other] = IF other \notin DOMAIN memory.videos THEN "none"
                     ELSE IF other[1] = memory.shot.video THEN memory.videos[other].status
                     ELSE "superseded"
    BY <1>7, VideoShown
<1>11. \A other \in Video :
          w[other] = IF other \notin DOMAIN memory.videos THEN "none"
                     ELSE IF other[1] = memory.shot.video THEN n.videos[other].status
                     ELSE "superseded"
  <2>1. \A other \in Video :
           w[other] = IF other \notin DOMAIN n.videos THEN "none"
                      ELSE IF other[1] = n.shot.video THEN n.videos[other].status
                      ELSE "superseded"
      BY <1>8, VideoShown
  <2> QED BY <1>4, <2>1
<1>12. w = [v EXCEPT ![id] = "locked"]
  <2>1. w[id] = "locked"
      BY <1>5, <1>6, <1>11
  <2>2. \A other \in Video : other # id => w[other] = v[other]
      BY <1>5, <1>10, <1>11
  <2> QED BY <1>6, <1>9, <2>1, <2>2
<1>13. Behind(n)
  <2>1. ASSUME NEW other \in DOMAIN memory.videos, other[1] > memory.shot.video
        PROVE  n.videos[other].status = "superseded"
    <3>1. memory.videos[other].status = "superseded"
        BY <1>3, <2>1 DEF Behind
    <3> QED BY <1>5, <1>6, <3>1
  <2> QED BY <1>4, <2>1 DEF Behind
<1>14. Approval!Locked(v) = {}
    BY <1>2, <1>4, <1>7, NoneLocked
<1>15. id \in Approval!Current(v)
  <2>1. v[id] = memory.videos[id].status
      BY <1>6, <1>10
  <2> QED BY <1>6, <1>9, <2>1 DEF Approval!Current, Approval!Live
<1>16. PICK from \in LockedKeyframe(memory) :
          memory.videos[id].from = from /\ memory.videos[id].made = memory.shot.direction
    BY <1>5 DEF Follows
<1>17. Sources(memory)[id] = {<<from, memory.shot.direction>>}
    BY <1>6, <1>16 DEF Sources
<1>18. from \in Approval!Locked(Seen(memory))
  <2>1. PICK k : k = Standing(memory)
      OBVIOUS
  <2>2. /\ k = [x \in Keyframe |-> IF x \in DOMAIN memory.keyframes
                                   THEN memory.keyframes[x].status ELSE "none"]
      BY <1>2, <2>1, CoherentShows
  <2>3. from \in DOMAIN memory.keyframes /\ memory.keyframes[from].status = "locked"
      BY <1>16 DEF LockedKeyframe
  <2>4. from \in Keyframe
      BY <1>2, <2>3, CopyParts
  <2>5. from \in Approval!Locked(k)
      BY <2>2, <2>3, <2>4 DEF Approval!Locked
  <2>6. Seen(memory) = k
      BY <1>2, <2>1, CoherentIsWhole DEF Seen
  <2> QED BY <2>5, <2>6
<1>19. Sources(n) = Sources(memory)
    BY <1>4, SourcesKept
<1>20. LocksVideo(memory, n, id)
    BY <1>7, <1>8, <1>12, <1>14, <1>15, <1>17, <1>18, <1>19 DEF LocksVideo
<1>21. VideosChange(memory, n)
    BY <1>6, <1>20 DEF VideosChange
<1> QED BY <1>1, <1>4, <1>13, <1>21, VideosSteps

(* What a reader finds a keyframe to be, by the selection it reads.        *)
LEMMA SeenIs ==
    ASSUME NEW c, CopyOK(c), NEW k, k = Seen(c), NEW e, e = Recovered(c).selection
    PROVE  /\ DOMAIN k = Keyframe /\ k = [id \in Keyframe |-> k[id]]
           /\ \A id \in Keyframe : id \notin DOMAIN c.keyframes => k[id] = "none"
           /\ \A id \in DOMAIN c.keyframes :
                 k[id] = IF id \notin e.candidates THEN "superseded"
                         ELSE IF id # e.selected THEN "candidate"
                         ELSE IF c.keyframes[id].status = "candidate" THEN "selected"
                         ELSE c.keyframes[id].status
           /\ \A id \in DOMAIN c.keyframes :
                 k[id] \in {"candidate", "selected", "locked", "superseded"}
<1>1. PICK n : n = Loaded(c)
    OBVIOUS
<1>2. /\ CopyOK(n) /\ n.selection = e
      /\ n.keyframes = [id \in DOMAIN c.keyframes |-> Reconciled(c.keyframes[id], id, e)]
    BY <1>1, LoadedIs
<1>3. k = Standing(n) /\ DOMAIN n.keyframes = DOMAIN c.keyframes
    BY <1>1, <1>2 DEF Seen
<1>4. /\ DOMAIN k = Keyframe /\ k = [id \in Keyframe |-> k[id]]
      /\ \A id \in Keyframe : id \notin DOMAIN c.keyframes => k[id] = "none"
    BY <1>3 DEF Standing
<1>5. ASSUME NEW id \in DOMAIN c.keyframes
      PROVE  /\ k[id] = IF id \notin e.candidates THEN "superseded"
                        ELSE IF id # e.selected THEN "candidate"
                        ELSE IF c.keyframes[id].status = "candidate" THEN "selected"
                        ELSE c.keyframes[id].status
             /\ k[id] \in {"candidate", "selected", "locked", "superseded"}
  <2>1. PICK r : r = c.keyframes[id]
      OBVIOUS
  <2>2. /\ r \in KeyframeRecord /\ id \in Keyframe
        /\ r.status \in {"candidate", "selected", "locked", "superseded"}
      BY <2>1, CopyParts, StatusIs
  <2>3. PICK q : q = Reconciled(r, id, e)
      OBVIOUS
  <2>4. n.keyframes[id] = q
      BY <1>2, <2>1, <2>3
  <2>5. k[id] = IF id \in e.candidates THEN q.status ELSE "superseded"
      BY <1>2, <1>3, <2>2, <2>4 DEF Standing
  <2>6. /\ id \in e.candidates /\ id = e.selected =>
              /\ r.status = "candidate" => q.status = "selected"
              /\ r.status # "candidate" => q = r
        /\ id \in e.candidates /\ id # e.selected => q.status = "candidate"
      BY <2>2, <2>3, ReconciledIs
  <2>7. k[id] = IF id \notin e.candidates THEN "superseded"
                ELSE IF id # e.selected THEN "candidate"
                ELSE IF r.status = "candidate" THEN "selected" ELSE r.status
      BY <2>5, <2>6
  <2> QED BY <2>1, <2>2, <2>7
<1> QED BY <1>4, <1>5

(* The same is found where the same selection is read and the records'     *)
(* standings in it are the same.                                           *)
LEMMA SameSeen ==
    ASSUME NEW a, CopyOK(a), NEW b, CopyOK(b), DOMAIN a.keyframes = DOMAIN b.keyframes,
           Recovered(a).selection = Recovered(b).selection, a.keyframes = b.keyframes
    PROVE  KeyframesStay(a, b)
<1>1. PICK m : m = Loaded(a)
    OBVIOUS
<1>2. PICK n : n = Loaded(b)
    OBVIOUS
<1>3. PICK e : e = Recovered(a).selection
    OBVIOUS
<1>4. /\ m.selection = e
      /\ m.keyframes = [id \in DOMAIN a.keyframes |-> Reconciled(a.keyframes[id], id, e)]
    BY <1>1, <1>3, LoadedIs
<1>5. /\ n.selection = e
      /\ n.keyframes = [id \in DOMAIN b.keyframes |-> Reconciled(b.keyframes[id], id, e)]
    BY <1>2, <1>3, LoadedIs
<1>6. n.keyframes = m.keyframes /\ n.selection = m.selection
    BY <1>4, <1>5
<1> QED BY <1>1, <1>2, <1>6, KeyframesStayIf

LEMMA DirectionsKept ==
    ASSUME NEW a, NEW b, DOMAIN b.keyframes = DOMAIN a.keyframes,
           \A id \in DOMAIN b.keyframes : b.keyframes[id].made = a.keyframes[id].made
    PROVE  Directions(b) = Directions(a)
BY DEF Directions

(* After an operation's last write its copy is what a reader finds.        *)
LEMMA LastShows ==
    ASSUME NEW d, CopyOK(d), NEW c, CopyOK(c), NEW files, Ends(d, c, files),
           NEW m, m = Mixture(d, c, files)
    PROVE  /\ CopyOK(m) /\ Loaded(m) = c /\ Coherent(c) /\ m.shot = c.shot
           /\ Seen(m) = Standing(c) /\ Directions(m) = Directions(c)
           /\ VideoStanding(m) = VideoStanding(c) /\ Sources(m) = Sources(c)
<1>1. CopyOK(m)
    BY MixtureIs
<1>2. Sound(m) /\ Loaded(m) = c
    BY DEF Ends
<1>3. Coherent(c)
    BY <1>1, <1>2, SoundIsMadeWhole
<1> QED BY <1>1, <1>2, <1>3, LoadedShows

(* What the session works by is what a reader finds.                       *)
LEMMA ReadyShows ==
    ASSUME RecoveryIInv, Ready
    PROVE  /\ Seen(disk) = Standing(memory) /\ Directions(disk) = Directions(memory)
           /\ VideoStanding(disk) = VideoStanding(memory) /\ Sources(disk) = Sources(memory)
           /\ memory.shot = disk.shot
<1>1. CopyOK(disk) /\ memory = Loaded(disk)
    BY ReadyIsCurrent
<1> QED BY <1>1, LoadedShows

(* No keyframe in play is locked where the selection's is not.             *)
LEMMA NoKeyframeLocked ==
    ASSUME NEW c, CopyOK(c), Coherent(c), ~Locked(c), NEW k, k = Standing(c)
    PROVE  /\ Approval!Locked(k) = {}
           /\ \A id \in DOMAIN c.keyframes : c.keyframes[id].status # "locked"
<1>1. \A id \in DOMAIN c.keyframes : c.keyframes[id].status # "locked"
  <2>1. ASSUME NEW id \in DOMAIN c.keyframes, c.keyframes[id].status = "locked"
        PROVE  FALSE
    <3>1. id \in InPlay(c)
        BY <2>1 DEF InPlay
    <3>2. id = c.selection.selected
        BY <2>1, <3>1 DEF Coherent
    <3> QED BY <2>1, <3>2 DEF Locked, LockedKeyframe
  <2> QED BY <2>1
<1>2. /\ k = [id \in Keyframe |->
                IF id \in DOMAIN c.keyframes THEN c.keyframes[id].status ELSE "none"]
      /\ DOMAIN k = Keyframe
    BY CoherentShows
<1> QED BY <1>1, <1>2 DEF Approval!Locked

LEMMA LockSteps ==
    ASSUME RecoveryIInv, Behind(disk), Lock, NEW n, n = pending'.copy
    PROVE  StepsOf(disk, n, <<"artifacts">>)
<1>1. Ready /\ ShotIInv
    BY DEF Lock, RecoveryIInv
<1>2. CopyOK(disk) /\ CopyOK(memory) /\ Coherent(memory) /\ memory.shot = disk.shot
      /\ memory.videos = disk.videos
    BY <1>1, ReadyIsCurrent
<1>3. /\ Seen(disk) = Standing(memory) /\ Directions(disk) = Directions(memory)
    BY <1>1, ReadyShows
<1>4. PICK id : id = memory.selection.selected
    OBVIOUS
<1>5. /\ CopyOK(n) /\ id # None /\ ~Locked(memory) /\ ~Stale(memory)
      /\ n.shot = memory.shot /\ n.videos = memory.videos
      /\ DOMAIN n.keyframes = DOMAIN memory.keyframes
      /\ \A x \in DOMAIN n.keyframes :
            n.keyframes[x].status = IF x = id THEN "locked" ELSE memory.keyframes[x].status
      /\ \A x \in DOMAIN n.keyframes : n.keyframes[x].made = memory.keyframes[x].made
    BY <1>1, <1>4, LockBegins
<1>6. BoundariesOK(disk, n, <<"artifacts">>, TRUE)
    BY LockBounded
<1>7. PICK files : files = <<"artifacts">>
    OBVIOUS
<1>8. files \in ToWrite /\ Len(files) = 1 /\ files[1] = "artifacts"
    BY <1>7 DEF ToWrite
<1>9. PICK m : m = Mixture(disk, n, {"artifacts"})
    OBVIOUS
<1>10. Ends(disk, n, {"artifacts"})
  <2>1. Ends(disk, n, Written(files, Len(files)))
      BY <1>6, <1>7 DEF BoundariesOK
  <2>2. Written(files, Len(files)) = {"artifacts"}
      BY <1>8, WrittenIs
  <2> QED BY <2>1, <2>2
<1>11. /\ CopyOK(m) /\ Coherent(n) /\ Seen(m) = Standing(n) /\ Directions(m) = Directions(n)
    BY <1>2, <1>5, <1>9, <1>10, LastShows
<1>12. /\ id \in DOMAIN memory.keyframes /\ id \in Keyframe
       /\ id \in memory.selection.candidates
       /\ memory.keyframes[id].status = "selected"
  <2>1. id \in memory.selection.candidates /\ id \in InPlay(memory)
      BY <1>2, <1>4, <1>5 DEF Coherent, Within
  <2>2. id \in DOMAIN memory.keyframes /\ memory.keyframes[id].status # "candidate"
      BY <1>2, <1>4, <2>1 DEF Coherent, InPlay
  <2>3. /\ memory.keyframes[id].status \in {"candidate", "selected", "locked", "superseded"}
        /\ memory.keyframes[id].status # "superseded" /\ id \in Keyframe
      BY <1>2, <2>1, <2>2, StatusIs
  <2>4. PICK k : k = Standing(memory)
      OBVIOUS
  <2>5. memory.keyframes[id].status # "locked"
      BY <1>2, <1>5, <2>2, <2>4, NoKeyframeLocked
  <2> QED BY <2>1, <2>2, <2>3, <2>5
<1>13. PICK j : j = Standing(memory)
    OBVIOUS
<1>14. PICK k : k = Standing(n)
    OBVIOUS
<1>15. /\ j = [x \in Keyframe |->
                 IF x \in DOMAIN memory.keyframes THEN memory.keyframes[x].status ELSE "none"]
       /\ k = [x \in Keyframe |->
                 IF x \in DOMAIN n.keyframes THEN n.keyframes[x].status ELSE "none"]
    BY <1>2, <1>5, <1>11, <1>13, <1>14, CoherentShows
<1>16. j[id] = "selected" /\ k = [j EXCEPT ![id] = "locked"]
    BY <1>5, <1>12, <1>15
<1>17. Directions(m) = Directions(disk)
    BY <1>3, <1>5, <1>11, DirectionsKept
<1>18. Directions(disk)[id] = {disk.shot.direction}
  <2>1. memory.keyframes[id].made = {memory.shot.direction}
      BY <1>5, <1>12 DEF Stale
  <2> QED BY <1>2, <1>3, <1>12, <2>1 DEF Directions
<1>19. Locks(disk, m, id)
    BY <1>3, <1>11, <1>13, <1>14, <1>16, <1>17, <1>18 DEF Locks
<1>20. m.shot = disk.shot /\ m.videos = disk.videos
    BY <1>2, <1>5, <1>9, Mixtures
<1>21. VideosStay(disk, m) /\ Behind(m)
    BY <1>20, VideosStayIf
<1>22. Steps(disk, m)
    BY <1>12, <1>19, <1>20, <1>21 DEF Steps, Approves, KeyframesChange
<1>23. m = Mixture(disk, n, {files[1]}) /\ ~(Len(files) > 1) /\ ~(Len(files) > 2)
    BY <1>8, <1>9
<1>24. StepsOf(disk, n, files)
    BY <1>2, <1>8, <1>22, <1>23, StepsAre
<1> QED BY <1>7, <1>24

(* Taking out of play all there is.                                        *)
LEMMA SupersededIs ==
    ASSUME NEW D, NEW k, DOMAIN k = D, k = [id \in D |-> k[id]],
           NEW j, DOMAIN j = D, j = [id \in D |-> j[id]], NEW E,
           \A id \in D : id \notin E => j[id] = "none" /\ k[id] = "none",
           \A id \in E : k[id] = "superseded",
           \A id \in E : j[id] \in {"candidate", "selected", "locked", "superseded"}
    PROVE  k = Approval!Superseded(j)
<1>1. ASSUME NEW id \in D
      PROVE  k[id] = IF j[id] \in Approval!Live THEN "superseded" ELSE j[id]
  <2>1. CASE id \in E
      BY <2>1 DEF Approval!Live
  <2>2. CASE id \notin E
      BY <2>2 DEF Approval!Live
  <2> QED BY <2>1, <2>2
<1> QED BY <1>1 DEF Approval!Superseded

LEMMA ThreeWritten ==
    ASSUME NEW d, CopyOK(d), NEW n, CopyOK(n),
           NEW m1, m1 = Mixture(d, n, {"shot"}), Steps(d, m1),
           NEW m2, m2 = Mixture(d, n, {"shot", "artifacts"}), Steps(m1, m2),
           NEW m3, m3 = Mixture(d, n, {"shot", "artifacts", "selection"}), Steps(m2, m3)
    PROVE  StepsOf(d, n, <<"shot", "artifacts", "selection">>)
<1>1. PICK files : files = <<"shot", "artifacts", "selection">>
    OBVIOUS
<1>2. /\ files \in ToWrite
      /\ files[1] = "shot" /\ files[2] = "artifacts" /\ files[3] = "selection"
    BY <1>1 DEF ToWrite
<1>3. /\ m1 = Mixture(d, n, {files[1]}) /\ m2 = Mixture(d, n, {files[1], files[2]})
      /\ m3 = Mixture(d, n, {files[1], files[2], files[3]})
    BY <1>2
<1>4. StepsOf(d, n, files)
    BY <1>2, <1>3, StepsAre
<1> QED BY <1>1, <1>4

(* The last of three files, over what is there of the others already.      *)
LEMMA SelectionLast ==
    ASSUME NEW d, CopyOK(d), NEW n, CopyOK(n), Coherent(n),
           NEW m2, m2 = Mixture(d, n, {"shot", "artifacts"}), Seen(m2) = Standing(n), Behind(m2),
           NEW m3, m3 = Mixture(d, n, {"shot", "artifacts", "selection"})
    PROVE  Steps(m2, m3)
<1>1. /\ CopyOK(m2) /\ m2.shot = n.shot /\ m2.keyframes = n.keyframes /\ m2.videos = n.videos
    BY Mixtures
<1>2. Ends(d, n, {"shot", "artifacts", "selection"})
    BY AllWritten
<1>3. /\ Seen(m3) = Standing(n) /\ Directions(m3) = Directions(n)
    BY <1>2, LastShows
<1>4. m3.shot = n.shot /\ m3.videos = n.videos
    BY DEF Mixture, Copy
<1>5. Directions(m2) = Directions(n)
    BY <1>1, DirectionsKept
<1>6. KeyframesStay(m2, m3)
    BY <1>3, <1>5 DEF KeyframesStay
<1>7. VideosStay(m2, m3) /\ Behind(m3)
    BY <1>1, <1>4, VideosStayIf
<1> QED BY <1>6, <1>7 DEF Steps, Approves

LEMMA ResetSteps ==
    ASSUME RecoveryIInv, Behind(disk), Reset, NEW n, n = pending'.copy
    PROVE  StepsOf(disk, n, <<"shot", "artifacts", "selection">>)
<1>1. Ready /\ ShotIInv
    BY DEF Reset, RecoveryIInv
<1>2. /\ CopyOK(disk) /\ Sound(disk) /\ memory = Loaded(disk) /\ CopyOK(memory)
      /\ memory.shot = disk.shot /\ memory.videos = disk.videos
      /\ DOMAIN memory.keyframes = DOMAIN disk.keyframes
    BY <1>1, ReadyIsCurrent
<1>3. Directions(disk) = Directions(memory)
    BY <1>1, ReadyShows
<1>4. PICK d \in Direction : n.shot = [memory.shot EXCEPT !.direction = d]
    BY <1>1, ResetBegins
<1>5. /\ CopyOK(n) /\ DOMAIN n.keyframes = DOMAIN memory.keyframes
      /\ \A id \in DOMAIN n.keyframes : n.keyframes[id].status = "superseded"
      /\ \A id \in DOMAIN n.keyframes : n.keyframes[id].made = memory.keyframes[id].made
      /\ DOMAIN n.videos = DOMAIN memory.videos
      /\ \A id \in DOMAIN n.videos : n.videos[id].status = "superseded"
      /\ n.selection = [candidates |-> {}, selected |-> None] /\ Keeps(n, memory)
  <2>1. CopyOK(n) /\ Keeps(n, memory)
      BY <1>1, ResetBegins
  <2>2. /\ DOMAIN n.keyframes = DOMAIN memory.keyframes
        /\ \A id \in DOMAIN n.keyframes : n.keyframes[id].status = "superseded"
        /\ \A id \in DOMAIN n.keyframes : n.keyframes[id].made = memory.keyframes[id].made
      BY <1>1, ResetBegins
  <2>3. /\ DOMAIN n.videos = DOMAIN memory.videos
        /\ \A id \in DOMAIN n.videos : n.videos[id].status = "superseded"
      BY <1>1, ResetBegins
  <2>4. n.selection = [candidates |-> {}, selected |-> None]
      BY <1>1, ResetBegins
  <2> QED BY <2>1, <2>2, <2>3, <2>4
<1>6. n.shot.generation = disk.shot.generation /\ n.shot.video = disk.shot.video
    BY <1>2, <1>4, ShotChanged, CopyParts
<1>7. Coherent(n)
  <2>1. \A id \in DOMAIN disk.keyframes : id[1] <= n.shot.generation
      BY <1>2, <1>6 DEF Sound, Within
  <2>2. Within(n)
      BY <1>2, <1>5, <2>1 DEF Within, OfOne
  <2>3. InPlay(n) = {}
      BY <1>5 DEF InPlay
  <2> QED BY <1>5, <2>2, <2>3 DEF Coherent
<1>8. PICK m1 : m1 = Mixture(disk, n, {"shot"})
    OBVIOUS
<1>9. /\ CopyOK(m1) /\ m1.shot = n.shot /\ m1.keyframes = disk.keyframes
      /\ m1.videos = disk.videos /\ m1.selection = disk.selection
    BY <1>2, <1>5, <1>8, Mixtures
<1>10. Steps(disk, m1)
    BY <1>2, <1>6, <1>9, Redirects
<1>11. PICK m2 : m2 = Mixture(disk, n, {"shot", "artifacts"})
    OBVIOUS
<1>12. /\ CopyOK(m2) /\ m2.shot = n.shot /\ m2.keyframes = n.keyframes
       /\ m2.videos = n.videos /\ m2.selection = disk.selection
    BY <1>2, <1>5, <1>11, Mixtures
<1>13. PICK k : k = Seen(m2)
    OBVIOUS
<1>14. PICK j : j = Seen(m1)
    OBVIOUS
<1>15. Recovered(m2).selection.candidates = {}
  <2>1. InPlay(m2) = {}
      BY <1>5, <1>12 DEF InPlay
  <2>2. Sound(m2)
    <3>1. Within(disk)
        BY <1>2 DEF Sound
    <3>2. Within(m2)
        BY <1>2, <1>5, <1>6, <1>12, <3>1 DEF Within, OfOne
    <3> QED BY <2>1, <3>2 DEF Sound, OfOne
  <2>3. \/ {} = m2.selection.candidates /\ Recovered(m2).selection = m2.selection
        \/ Recovered(m2).selection = [candidates |-> {}, selected |-> None]
      BY <1>12, <2>1, <2>2, SoundSelection
  <2> QED BY <2>3
<1>16. /\ DOMAIN k = Keyframe /\ k = [id \in Keyframe |-> k[id]]
       /\ \A id \in Keyframe : id \notin DOMAIN n.keyframes => k[id] = "none"
       /\ \A id \in DOMAIN n.keyframes : k[id] = "superseded"
    BY <1>12, <1>13, <1>15, SeenIs
<1>17. /\ DOMAIN j = Keyframe /\ j = [id \in Keyframe |-> j[id]]
       /\ \A id \in Keyframe : id \notin DOMAIN n.keyframes => j[id] = "none"
       /\ \A id \in DOMAIN n.keyframes : j[id] \in {"candidate", "selected", "locked", "superseded"}
  <2>1. DOMAIN m1.keyframes = DOMAIN n.keyframes
      BY <1>2, <1>5, <1>9
  <2>2. PICK e : e = Recovered(m1).selection
      OBVIOUS
  <2> QED BY <1>9, <1>14, <2>1, <2>2, SeenIs
<1>18. k = Approval!Superseded(j)
  <2>1. \A id \in Keyframe : id \notin DOMAIN n.keyframes => j[id] = "none" /\ k[id] = "none"
      BY <1>16, <1>17
  <2>2. PICK E : E = DOMAIN n.keyframes
      OBVIOUS
  <2>3. PICK D : D = Keyframe
      OBVIOUS
  <2>4. /\ DOMAIN k = D /\ k = [id \in D |-> k[id]]
        /\ DOMAIN j = D /\ j = [id \in D |-> j[id]]
        /\ \A id \in D : id \notin E => j[id] = "none" /\ k[id] = "none"
        /\ \A id \in E : k[id] = "superseded"
        /\ \A id \in E : j[id] \in {"candidate", "selected", "locked", "superseded"}
      BY <1>16, <1>17, <2>1, <2>2, <2>3
  <2> QED BY <2>4, SupersededIs
<1>19. k = Standing(n)
  <2>1. PICK s : s = Standing(n)
      OBVIOUS
  <2>2. s = [id \in Keyframe |->
                IF id \in DOMAIN n.keyframes THEN n.keyframes[id].status ELSE "none"]
      BY <1>5, <1>7, <2>1, CoherentShows
  <2>3. \A id \in Keyframe : k[id] = s[id]
      BY <1>5, <1>16, <2>2
  <2> QED BY <1>16, <2>1, <2>2, <2>3
<1>20. PICK v : v = VideoStanding(m1)
    OBVIOUS
<1>21. PICK w : w = VideoStanding(m2)
    OBVIOUS
<1>22. w = Approval!Superseded(v)
  <2>1. /\ DOMAIN v = Video /\ v = [id \in Video |-> v[id]]
        /\ DOMAIN w = Video /\ w = [id \in Video |-> w[id]]
      BY <1>20, <1>21, VideoShown
  <2>2. DOMAIN m1.videos = DOMAIN n.videos /\ DOMAIN n.videos \subseteq Video
      BY <1>2, <1>5, <1>9, CopyParts
  <2>3. \A id \in Video : id \notin DOMAIN n.videos => v[id] = "none" /\ w[id] = "none"
      BY <1>12, <1>20, <1>21, <2>2, VideoShown
  <2>4. \A id \in DOMAIN n.videos : w[id] = "superseded"
    <3>1. \A id \in Video :
             w[id] = IF id \notin DOMAIN m2.videos THEN "none"
                     ELSE IF id[1] = m2.shot.video THEN m2.videos[id].status ELSE "superseded"
        BY <1>21, VideoShown
    <3> QED BY <1>5, <1>12, <2>2, <3>1
  <2>5. \A id \in DOMAIN n.videos : v[id] \in {"candidate", "selected", "locked", "superseded"}
    <3>1. \A id \in DOMAIN m1.videos :
             m1.videos[id].status \in {"candidate", "selected", "locked", "superseded"}
        BY <1>9, VideoStatusIs
    <3>2. \A id \in Video :
             v[id] = IF id \notin DOMAIN m1.videos THEN "none"
                     ELSE IF id[1] = m1.shot.video THEN m1.videos[id].status ELSE "superseded"
        BY <1>20, VideoShown
    <3> QED BY <2>2, <3>1, <3>2
  <2>6. PICK E : E = DOMAIN n.videos
      OBVIOUS
  <2>7. PICK D : D = Video
      OBVIOUS
  <2>8. /\ DOMAIN w = D /\ w = [id \in D |-> w[id]]
        /\ DOMAIN v = D /\ v = [id \in D |-> v[id]]
        /\ \A id \in D : id \notin E => v[id] = "none" /\ w[id] = "none"
        /\ \A id \in E : w[id] = "superseded"
        /\ \A id \in E : v[id] \in {"candidate", "selected", "locked", "superseded"}
      BY <2>1, <2>3, <2>4, <2>5, <2>6, <2>7
  <2> QED BY <2>8, SupersededIs
<1>23. Directions(m2) = Directions(m1)
  <2>1. Directions(n) = Directions(memory)
      BY <1>5, DirectionsKept
  <2>2. Directions(m2) = Directions(n) /\ Directions(m1) = Directions(disk)
      BY <1>9, <1>12 DEF Directions
  <2> QED BY <1>3, <2>1, <2>2
<1>24. Sources(m2) = Sources(m1)
  <2>1. Keeps(m2, m1) /\ DOMAIN m2.videos = DOMAIN m1.videos
      BY <1>2, <1>5, <1>9, <1>12 DEF Keeps
  <2> QED BY <2>1, SourcesKept
<1>25. Resets(m1, m2)
    BY <1>13, <1>14, <1>18, <1>20, <1>21, <1>22, <1>23, <1>24 DEF Resets
<1>26. Behind(m2)
    BY <1>5, <1>12 DEF Behind
<1>27. Steps(m1, m2)
    BY <1>9, <1>12, <1>25, <1>26 DEF Steps, Approves
<1>28. PICK m3 : m3 = Mixture(disk, n, {"shot", "artifacts", "selection"})
    OBVIOUS
<1>29. Steps(m2, m3)
    BY <1>2, <1>5, <1>7, <1>11, <1>13, <1>19, <1>26, <1>28, SelectionLast
<1> QED BY <1>2, <1>5, <1>8, <1>10, <1>11, <1>27, <1>28, <1>29, ThreeWritten

(* What a reader makes of a generation whose selection was not written.    *)
LEMMA PublishedSelection ==
    ASSUME NEW m, CopyOK(m), NEW ids, ids = CandidateIds(m.shot.generation),
           m.shot.generation > 0, InPlay(m) = ids, m.selection.candidates # ids
    PROVE  Recovered(m).selection = [candidates |-> ids, selected |-> None]
<1>1. PICK r : r = RecoverGeneration(m)
    OBVIOUS
<1>2. /\ r.selection = [candidates |-> ids, selected |-> None]
      /\ CopyOK(r) /\ r.keyframes = m.keyframes
    BY <1>1, PublishedIs
<1>3. /\ r.selection.candidates = ids /\ InPlay(r) = ids /\ ids \subseteq DOMAIN r.keyframes
    BY <1>2 DEF InPlay
<1>4. PICK q : q = RecoverCleared(r)
    OBVIOUS
<1>5. q = r
  <2>1. ~(r.selection.candidates # {} /\ r.selection.candidates \cap InPlay(r) = {})
      BY <1>3
  <2> QED BY <1>2, <1>3, <1>4, <2>1, ClearedIs
<1>6. r = Recovered(m)
    BY <1>1, <1>4, <1>5 DEF Recovered
<1> QED BY <1>2, <1>6

LEMMA SelectSteps ==
    ASSUME RecoveryIInv, Behind(disk), NEW id \in Keyframe, Select(id), NEW n, n = pending'.copy
    PROVE  StepsOf(disk, n, <<"artifacts", "selection">>)
<1>1. Ready /\ ShotIInv
    BY DEF Select, RecoveryIInv
<1>2. /\ CopyOK(disk) /\ Sound(disk) /\ CopyOK(memory) /\ Coherent(memory)
      /\ memory.shot = disk.shot /\ memory.videos = disk.videos /\ InPlay(memory) = InPlay(disk)
      /\ memory.selection = IF InPlay(disk) = disk.selection.candidates THEN disk.selection
                            ELSE [candidates |-> InPlay(disk), selected |-> None]
      /\ DOMAIN memory.keyframes = DOMAIN disk.keyframes
    BY <1>1, ReadyIsCurrent
<1>3. PICK sel : sel = memory.selection.selected
    OBVIOUS
<1>4. /\ CopyOK(n) /\ ~Locked(memory) /\ id \in memory.selection.candidates
      /\ n.shot = memory.shot /\ n.videos = memory.videos
      /\ DOMAIN n.keyframes = DOMAIN memory.keyframes
      /\ \A other \in DOMAIN n.keyframes :
            n.keyframes[other].status =
               IF other = id THEN "selected"
               ELSE IF other = sel THEN "candidate" ELSE memory.keyframes[other].status
      /\ \A other \in DOMAIN n.keyframes :
            n.keyframes[other].made = memory.keyframes[other].made
      /\ n.selection = [candidates |-> memory.selection.candidates, selected |-> id]
    BY <1>1, <1>3, SelectBegins
<1>5. PICK L : L = InPlay(memory)
    OBVIOUS
<1>6. /\ Within(memory) /\ L = memory.selection.candidates /\ id \in L
      /\ sel \in L \cup {None} /\ L \subseteq DOMAIN memory.keyframes
      /\ \A other \in L : memory.keyframes[other].status # "candidate" <=> other = sel
    BY <1>2, <1>3, <1>4, <1>5 DEF Coherent, Within
<1>7. \A other \in DOMAIN memory.keyframes :
         /\ other # None
         /\ other \in L => memory.keyframes[other].status = IF other = sel THEN "selected"
                                                           ELSE "candidate"
         /\ other \notin L => memory.keyframes[other].status = "superseded"
  <2> SUFFICES ASSUME NEW other \in DOMAIN memory.keyframes
               PROVE  /\ other # None
                      /\ other \in L => memory.keyframes[other].status =
                                           IF other = sel THEN "selected" ELSE "candidate"
                      /\ other \notin L => memory.keyframes[other].status = "superseded"
      OBVIOUS
  <2>1. /\ other # None
        /\ other \in L <=> memory.keyframes[other].status # "superseded"
        /\ memory.keyframes[other].status \in {"candidate", "selected", "locked", "superseded"}
      BY <1>2, <1>5, StatusIs
  <2>2. memory.keyframes[other].status # "locked"
    <3>1. PICK k : k = Standing(memory)
        OBVIOUS
    <3> QED BY <1>2, <1>4, <3>1, NoKeyframeLocked
  <2> QED BY <1>6, <2>1, <2>2
<1>8. \A other \in DOMAIN memory.keyframes :
         /\ other \in L => n.keyframes[other].status = IF other = id THEN "selected"
                                                      ELSE "candidate"
         /\ other \notin L => n.keyframes[other].status = "superseded"
    BY <1>4, <1>6, <1>7
<1>9. InPlay(n) = L
    BY <1>4, <1>5, <1>6, <1>8 DEF InPlay
<1>10. Coherent(n)
  <2>1. Within(n)
      BY <1>4, <1>6 DEF Within, OfOne
  <2>2. \A other \in InPlay(n) : n.keyframes[other].status # "candidate" <=> other = n.selection.selected
      BY <1>4, <1>6, <1>8, <1>9
  <2> QED BY <1>4, <1>6, <1>9, <2>1, <2>2 DEF Coherent
<1>11. PICK m : m = Mixture(disk, n, {"artifacts"})
    OBVIOUS
<1>12. /\ CopyOK(m) /\ m.shot = disk.shot /\ m.keyframes = n.keyframes
       /\ m.videos = n.videos /\ m.selection = disk.selection
    BY <1>2, <1>4, <1>11, Mixtures
<1>13. InPlay(m) = L /\ InPlay(disk) = L
    BY <1>2, <1>5, <1>9, <1>12 DEF InPlay
<1>14. Recovered(m).selection = memory.selection
  <2>1. CASE L = disk.selection.candidates
    <3>1. Within(m) /\ OfOne(L, m)
        BY <1>2, <1>4, <1>12, <1>13 DEF Sound, Within, OfOne
    <3>2. \A other \in InPlay(m) : m.keyframes[other].status # "locked"
        BY <1>6, <1>8, <1>12, <1>13
    <3>3. Sound(m)
        BY <1>12, <1>13, <2>1, <3>1, <3>2 DEF Sound
    <3>4. Recovered(m).selection = m.selection
        BY <1>12, <1>13, <2>1, <3>3, SoundSelection
    <3> QED BY <1>2, <1>12, <1>13, <2>1, <3>4
  <2>2. CASE L # disk.selection.candidates
    <3>1. PICK ids : ids = CandidateIds(m.shot.generation)
        OBVIOUS
    <3>2. L = ids /\ m.selection.candidates # ids
        BY <1>2, <1>6, <1>12, <1>13, <2>2, <3>1 DEF Sound
    <3>3. m.shot.generation > 0
      <4>1. m.shot.generation \in Nat
          BY <1>12, CopyParts
      <4>2. \E g \in 1..m.shot.generation : L = CandidateIds(g)
          BY <1>2, <1>6, <1>12, <1>13 DEF Sound, OfOne
      <4> QED BY <4>1, <4>2
    <3>4. Recovered(m).selection = [candidates |-> ids, selected |-> None]
        BY <1>12, <1>13, <3>1, <3>2, <3>3, PublishedSelection
    <3> QED BY <1>2, <1>13, <2>2, <3>2, <3>4
  <2> QED BY <2>1, <2>2
<1>15. PICK j : j = Standing(memory)
    OBVIOUS
<1>16. /\ DOMAIN j = Keyframe /\ j = [x \in Keyframe |-> j[x]]
       /\ \A x \in Keyframe : x \notin DOMAIN memory.keyframes => j[x] = "none"
       /\ \A x \in DOMAIN memory.keyframes : j[x] = memory.keyframes[x].status
  <2>1. j = [x \in Keyframe |->
                IF x \in DOMAIN memory.keyframes THEN memory.keyframes[x].status ELSE "none"]
      BY <1>2, <1>15, CoherentShows
  <2>2. DOMAIN memory.keyframes \subseteq Keyframe
      BY <1>2, CopyParts
  <2> QED BY <2>1, <2>2
<1>17. PICK k : k = Standing(n)
    OBVIOUS
<1>18. /\ DOMAIN k = Keyframe /\ k = [x \in Keyframe |-> k[x]]
       /\ \A x \in Keyframe : x \notin DOMAIN memory.keyframes => k[x] = "none"
       /\ \A x \in DOMAIN memory.keyframes : k[x] = n.keyframes[x].status
  <2>1. k = [x \in Keyframe |->
                IF x \in DOMAIN n.keyframes THEN n.keyframes[x].status ELSE "none"]
      BY <1>4, <1>10, <1>17, CoherentShows
  <2>2. DOMAIN memory.keyframes \subseteq Keyframe
      BY <1>2, CopyParts
  <2> QED BY <1>4, <2>1, <2>2
<1>19. PICK i : i = Seen(m)
    OBVIOUS
<1>20. i = j
  <2>1. PICK e : e = Recovered(m).selection
      OBVIOUS
  <2>2. e.candidates = L /\ e.selected = sel
      BY <1>3, <1>6, <1>14, <2>1
  <2>3. /\ DOMAIN i = Keyframe /\ i = [x \in Keyframe |-> i[x]]
        /\ \A x \in Keyframe : x \notin DOMAIN m.keyframes => i[x] = "none"
        /\ \A x \in DOMAIN m.keyframes :
              i[x] = IF x \notin e.candidates THEN "superseded"
                     ELSE IF x # e.selected THEN "candidate"
                     ELSE IF m.keyframes[x].status = "candidate" THEN "selected"
                     ELSE m.keyframes[x].status
      BY <1>12, <1>19, <2>1, SeenIs
  <2>4. DOMAIN m.keyframes = DOMAIN memory.keyframes
      BY <1>4, <1>12
  <2>5. \A x \in DOMAIN memory.keyframes : i[x] = j[x]
      BY <1>7, <1>8, <1>12, <1>16, <2>2, <2>3, <2>4
  <2>6. \A x \in Keyframe : i[x] = j[x]
      BY <1>16, <2>3, <2>4, <2>5
  <2> QED BY <1>16, <2>3, <2>6
<1>21. Directions(disk) = Directions(memory) /\ Seen(disk) = j
    BY <1>1, <1>15, ReadyShows
<1>22. Directions(m) = Directions(disk)
  <2>1. Directions(m) = Directions(memory)
      BY <1>4, <1>12, DirectionsKept
  <2> QED BY <1>21, <2>1
<1>23. KeyframesStay(disk, m)
    BY <1>19, <1>20, <1>21, <1>22 DEF KeyframesStay
<1>24. VideosStay(disk, m) /\ Behind(m)
    BY <1>2, <1>4, <1>12, VideosStayIf
<1>25. Steps(disk, m)
    BY <1>23, <1>24 DEF Steps, Approves
<1>26. PICK l : l = Mixture(disk, n, {"artifacts", "selection"})
    OBVIOUS
<1>27. Ends(disk, n, {"artifacts", "selection"})
    BY <1>2, <1>4, <1>10, AllWritten
<1>28. Seen(l) = k /\ Directions(l) = Directions(n)
    BY <1>2, <1>4, <1>17, <1>26, <1>27, LastShows
<1>29. l.shot = disk.shot /\ l.videos = n.videos
    BY <1>26 DEF Mixture, Copy
<1>30. Directions(l) = Directions(m)
  <2>1. Directions(n) = Directions(memory)
      BY <1>4, DirectionsKept
  <2> QED BY <1>21, <1>22, <1>28, <2>1
<1>31. Approval!Locked(j) = {} /\ id \in Approval!Current(j)
  <2>1. Approval!Locked(j) = {}
      BY <1>2, <1>4, <1>15, NoKeyframeLocked
  <2>2. id \in DOMAIN memory.keyframes /\ j[id] \in {"selected", "candidate"}
      BY <1>6, <1>7, <1>16
  <2> QED BY <1>16, <2>1, <2>2 DEF Approval!Current, Approval!Live
<1>32. k = Approval!Choosing(j, id)
  <2>1. \A x \in Keyframe : k[x] = IF x = id THEN "selected"
                                   ELSE IF j[x] = "selected" THEN "candidate" ELSE j[x]
    <3>1. ASSUME NEW x \in Keyframe
          PROVE  k[x] = IF x = id THEN "selected"
                        ELSE IF j[x] = "selected" THEN "candidate" ELSE j[x]
      <4>1. CASE x \in DOMAIN memory.keyframes
        <5>1. k[x] = n.keyframes[x].status /\ j[x] = memory.keyframes[x].status
            BY <1>16, <1>18, <4>1
        <5>2. CASE x \in L
          <6>1. k[x] = IF x = id THEN "selected" ELSE "candidate"
              BY <1>8, <4>1, <5>1, <5>2
          <6>2. j[x] = IF x = sel THEN "selected" ELSE "candidate"
              BY <1>7, <4>1, <5>1, <5>2
          <6> QED BY <6>1, <6>2
        <5>3. CASE x \notin L
          <6>1. k[x] = "superseded" /\ j[x] = "superseded" /\ x # id
              BY <1>6, <1>7, <1>8, <4>1, <5>1, <5>3
          <6> QED BY <6>1
        <5> QED BY <5>2, <5>3
      <4>2. CASE x \notin DOMAIN memory.keyframes
          BY <1>6, <1>16, <1>18, <4>2
      <4> QED BY <4>1, <4>2
    <3> QED BY <3>1
  <2> QED BY <1>16, <1>18, <2>1 DEF Approval!Choosing
<1>33. Chooses(m, l, id)
    BY <1>19, <1>20, <1>28, <1>30, <1>31, <1>32 DEF Chooses
<1>34. VideosStay(m, l) /\ Behind(l)
    BY <1>12, <1>24, <1>29, VideosStayIf
<1>35. Steps(m, l)
    BY <1>12, <1>29, <1>33, <1>34 DEF Steps, Approves, KeyframesChange
<1>36. PICK files : files = <<"artifacts", "selection">>
    OBVIOUS
<1>37. files \in ToWrite /\ Len(files) = 2 /\ files[1] = "artifacts" /\ files[2] = "selection"
    BY <1>36 DEF ToWrite
<1>38. /\ m = Mixture(disk, n, {files[1]}) /\ l = Mixture(disk, n, {files[1], files[2]})
       /\ ~(Len(files) > 2)
    BY <1>11, <1>26, <1>37
<1>39. StepsOf(disk, n, files)
    BY <1>2, <1>25, <1>35, <1>37, <1>38, StepsAre
<1> QED BY <1>36, <1>39

(* The revision counted on, before any record of the generation is there:  *)
(* a reader finds what it found, unless the candidates in play were never  *)
(* written into the selection and nothing tells now whose they are.        *)
LEMMA RevisionAhead ==
    ASSUME NEW d, CopyOK(d), Sound(d), NEW m, CopyOK(m), m.keyframes = d.keyframes,
           m.selection = d.selection, NEW ids, ids = CandidateIds(m.shot.generation),
           ids # {}, ids \cap DOMAIN d.keyframes = {}
    PROVE  KeyframesStay(d, m) \/ MakesWayForKeyframes(d, m)
<1>1. PICK L : L = InPlay(d)
    OBVIOUS
<1>2. PICK S : S = d.selection.candidates
    OBVIOUS
<1>3. InPlay(m) = L /\ m.selection.candidates = S /\ L \subseteq DOMAIN d.keyframes
    BY <1>1, <1>2 DEF InPlay
<1>4. /\ L = S => Recovered(d).selection = d.selection
      /\ L # S => Recovered(d).selection = [candidates |-> L, selected |-> None]
    BY <1>1, <1>2, SoundSelection
<1>5. PICK q : q = RecoverCleared(m)
    OBVIOUS
<1>6. q = Recovered(m)
  <2>1. PICK r : r = RecoverGeneration(m)
      OBVIOUS
  <2>2. ~(ids \subseteq InPlay(m))
      BY <1>3
  <2>3. r = m
      BY <2>1, <2>2, PublishedIs
  <2> QED BY <1>5, <2>1, <2>3 DEF Recovered
<1>7. S \subseteq DOMAIN d.keyframes
    BY <1>2 DEF Sound, Within
<1>8. /\ S # {} /\ S \cap L = {} => q.selection = [candidates |-> {}, selected |-> None]
      /\ ~(S # {} /\ S \cap L = {}) => q = m
    BY <1>3, <1>5, <1>7, ClearedIs
<1>9. CASE L = S
  <2>1. Recovered(m).selection = Recovered(d).selection
      BY <1>4, <1>6, <1>8, <1>9
  <2> QED BY <2>1, SameSeen
<1>10. CASE L = {} /\ L # S
  <2>1. Recovered(m).selection = Recovered(d).selection
      BY <1>4, <1>6, <1>8, <1>10
  <2> QED BY <2>1, SameSeen
<1>11. CASE L # {} /\ L # S
  <2>1. PICK h : h = d.shot.generation
      OBVIOUS
  <2>2. /\ h \in Nat /\ L = CandidateIds(h)
        /\ \A id \in L : d.keyframes[id].status = "candidate"
      BY <1>1, <1>2, <1>11, <2>1, CopyParts DEF Sound
  <2>3. S \cap L = {}
    <3>1. S = {} \/ \E o \in 1..h : S = CandidateIds(o)
        BY <1>2, <2>1 DEF Sound, Within, OfOne
    <3>2. CASE S = {}
        BY <3>2
    <3>3. ASSUME NEW o \in 1..h, S = CandidateIds(o)
          PROVE  S \cap L = {}
      <4>1. o \in Nat /\ o # h
          BY <1>11, <2>2, <3>3
      <4> QED BY <2>2, <3>3, <4>1, IdsOfOne
    <3> QED BY <3>1, <3>2, <3>3
  <2>4. PICK e : e = Recovered(m).selection
      OBVIOUS
  <2>5. e.candidates = {}
      BY <1>3, <1>6, <1>8, <2>3, <2>4
  <2>6. PICK f : f = Recovered(d).selection
      OBVIOUS
  <2>7. f.candidates = L /\ f.selected = None
      BY <1>4, <1>11, <2>6
  <2>8. PICK j : j = Seen(d)
      OBVIOUS
  <2>9. PICK k : k = Seen(m)
      OBVIOUS
  <2>10. PICK E : E = DOMAIN d.keyframes
      OBVIOUS
  <2>11. /\ DOMAIN j = Keyframe /\ j = [id \in Keyframe |-> j[id]]
         /\ \A id \in Keyframe : id \notin E => j[id] = "none"
         /\ \A id \in E : j[id] = IF id \notin L THEN "superseded" ELSE "candidate"
    <3>1. /\ DOMAIN j = Keyframe /\ j = [id \in Keyframe |-> j[id]]
          /\ \A id \in Keyframe : id \notin DOMAIN d.keyframes => j[id] = "none"
          /\ \A id \in DOMAIN d.keyframes :
                j[id] = IF id \notin f.candidates THEN "superseded"
                        ELSE IF id # f.selected THEN "candidate"
                        ELSE IF d.keyframes[id].status = "candidate" THEN "selected"
                        ELSE d.keyframes[id].status
        BY <2>6, <2>8, SeenIs
    <3>2. \A id \in DOMAIN d.keyframes : id # None
        BY StatusIs
    <3> QED BY <2>7, <2>10, <3>1, <3>2
  <2>12. /\ DOMAIN k = Keyframe /\ k = [id \in Keyframe |-> k[id]]
         /\ \A id \in Keyframe : id \notin E => k[id] = "none"
         /\ \A id \in E : k[id] = "superseded"
    <3>1. /\ DOMAIN k = Keyframe /\ k = [id \in Keyframe |-> k[id]]
          /\ \A id \in Keyframe : id \notin DOMAIN m.keyframes => k[id] = "none"
          /\ \A id \in DOMAIN m.keyframes :
                k[id] = IF id \notin e.candidates THEN "superseded"
                        ELSE IF id # e.selected THEN "candidate"
                        ELSE IF m.keyframes[id].status = "candidate" THEN "selected"
                        ELSE m.keyframes[id].status
        BY <2>4, <2>9, SeenIs
    <3> QED BY <2>5, <2>10, <3>1
  <2>13. k = Approval!Superseded(j)
    <3>1. PICK D : D = Keyframe
        OBVIOUS
    <3>2. /\ DOMAIN k = D /\ k = [id \in D |-> k[id]]
          /\ DOMAIN j = D /\ j = [id \in D |-> j[id]]
          /\ \A id \in D : id \notin E => j[id] = "none" /\ k[id] = "none"
          /\ \A id \in E : k[id] = "superseded"
          /\ \A id \in E : j[id] \in {"candidate", "selected", "locked", "superseded"}
        BY <2>11, <2>12, <3>1
    <3> QED BY <3>2, SupersededIs
  <2>14. \A id \in Approval!Current(j) : j[id] = "candidate"
    <3>1. ASSUME NEW id \in Keyframe, j[id] \in {"candidate", "selected", "locked"}
          PROVE  j[id] = "candidate"
      <4>1. CASE id \in E
          BY <2>11, <3>1, <4>1
      <4>2. CASE id \notin E
          BY <2>11, <3>1, <4>2
      <4> QED BY <4>1, <4>2
    <3> QED BY <2>11, <3>1 DEF Approval!Current, Approval!Live
  <2>15. Directions(m) = Directions(d)
      BY DirectionsKept
  <2> QED BY <2>8, <2>9, <2>13, <2>14, <2>15 DEF MakesWayForKeyframes
<1> QED BY <1>9, <1>10, <1>11

LEMMA AttachGenerationSteps ==
    ASSUME RecoveryIInv, Behind(disk), NEW plan \in plans, AttachGeneration(plan),
           NEW n, n = pending'.copy
    PROVE  StepsOf(disk, n, <<"shot", "artifacts", "selection">>)
<1>1. Ready /\ ShotIInv
    BY DEF AttachGeneration, RecoveryIInv
<1>2. PICK ids : ids = CandidateIds(plan.generation)
    OBVIOUS
<1>3. /\ CopyOK(disk) /\ Sound(disk) /\ CopyOK(memory) /\ Coherent(memory)
      /\ memory.shot = disk.shot /\ DOMAIN memory.keyframes = DOMAIN disk.keyframes
      /\ memory.videos = disk.videos
    BY <1>1, ReadyIsCurrent
<1>4. /\ CopyOK(n) /\ n.shot = [memory.shot EXCEPT !.generation = plan.generation]
      /\ plan.generation \in 1..MaxGenerations /\ ids \cap DOMAIN memory.keyframes = {}
      /\ memory.shot.generation \in {plan.generation - 1, plan.generation}
      /\ ~Locked(memory) /\ plan.made \in Direction /\ n.videos = memory.videos
    BY <1>1, <1>2, AttachGenerationBegins
<1>5. /\ DOMAIN n.keyframes = DOMAIN memory.keyframes \cup ids
      /\ \A id \in DOMAIN n.keyframes :
            n.keyframes[id].status = IF id \in ids THEN "candidate" ELSE "superseded"
      /\ \A id \in DOMAIN memory.keyframes :
            n.keyframes[id].made = memory.keyframes[id].made
      /\ \A id \in ids : n.keyframes[id].made = {plan.made, memory.shot.direction}
      /\ n.selection = [candidates |-> ids, selected |-> None]
  <2>1. Generating(memory, n, ids, {plan.made, memory.shot.direction})
      BY <1>1, <1>2, AttachGenerationBegins
  <2> QED BY <2>1 DEF Generating
<1>6. PICK g : g = plan.generation
    OBVIOUS
<1>7. PICK h : h = disk.shot.generation
    OBVIOUS
<1>8. /\ n.shot.generation = g /\ n.shot.video = disk.shot.video
      /\ n.shot.direction = disk.shot.direction
      /\ g \in Nat /\ h \in Nat /\ h <= g /\ g >= 1 /\ g \in 1..g
      /\ ids = CandidateIds(g) /\ ids # {} /\ \A id \in ids : id[1] = g
  <2>1. /\ n.shot.generation = g /\ n.shot.video = disk.shot.video
        /\ n.shot.direction = disk.shot.direction
      BY <1>3, <1>4, <1>6, ShotChanged, CopyParts
  <2>2. g \in Nat /\ h \in Nat /\ h <= g /\ g >= 1 /\ g \in 1..g
      BY <1>3, <1>4, <1>6, <1>7, CopyParts, PublicationFacts
  <2> QED BY <1>2, <1>6, <2>1, <2>2, IdsOfOne
<1>9. /\ \A id \in Keyframe : id[1] = g => id \in ids
      /\ ids \subseteq Keyframe
  <2>1. \A id \in Keyframe : id[1] = g => id \in CandidateIds(g)
      BY DEF Keyframe, CandidateIds
  <2>2. CandidateIds(g) \subseteq Keyframe
      BY <1>4, <1>6 DEF Keyframe, CandidateIds
  <2> QED BY <1>8, <2>1, <2>2
<1>10. \A id \in DOMAIN n.keyframes : id[1] <= g /\ id # None
  <2>1. \A id \in DOMAIN disk.keyframes : id[1] <= h /\ id[1] \in Nat
    <3>1. \A id \in Keyframe : id[1] \in Nat
        BY PublicationFacts DEF Keyframe
    <3> QED BY <1>3, <1>7, <3>1, CopyParts DEF Sound, Within
  <2>2. \A id \in DOMAIN disk.keyframes : id[1] <= g
      BY <1>8, <2>1
  <2>3. \A id \in DOMAIN n.keyframes : id # None
      BY <1>4, StatusIs
  <2> QED BY <1>3, <1>5, <1>8, <2>2, <2>3
<1>11. InPlay(n) = ids
    BY <1>5 DEF InPlay
<1>12. Coherent(n)
  <2>1. Within(n)
      BY <1>5, <1>8, <1>10 DEF Within, OfOne
  <2> QED BY <1>5, <1>10, <1>11, <2>1 DEF Coherent
<1>13. PICK m1 : m1 = Mixture(disk, n, {"shot"})
    OBVIOUS
<1>14. /\ CopyOK(m1) /\ m1.shot = n.shot /\ m1.keyframes = disk.keyframes
       /\ m1.videos = disk.videos /\ m1.selection = disk.selection
    BY <1>3, <1>4, <1>13, Mixtures
<1>15. KeyframesStay(disk, m1) \/ MakesWayForKeyframes(disk, m1)
  <2>1. ids = CandidateIds(m1.shot.generation) /\ ids \cap DOMAIN disk.keyframes = {}
      BY <1>3, <1>4, <1>8, <1>14
  <2> QED BY <1>3, <1>8, <1>14, <2>1, RevisionAhead
<1>16. VideosStay(disk, m1) /\ Behind(m1)
    BY <1>8, <1>14, VideosStayIf
<1>17. Steps(disk, m1)
    BY <1>8, <1>14, <1>15, <1>16 DEF Steps, Approves, KeyframesChange
<1>18. PICK m2 : m2 = Mixture(disk, n, {"shot", "artifacts"})
    OBVIOUS
<1>19. /\ CopyOK(m2) /\ m2.shot = n.shot /\ m2.keyframes = n.keyframes
       /\ m2.videos = n.videos /\ m2.selection = disk.selection
    BY <1>3, <1>4, <1>18, Mixtures
<1>20. Recovered(m2).selection = [candidates |-> ids, selected |-> None]
  <2>1. InPlay(m2) = ids
      BY <1>11, <1>19 DEF InPlay
  <2>2. m2.selection.candidates # ids
    <3>1. disk.selection.candidates \subseteq DOMAIN disk.keyframes
        BY <1>3 DEF Sound, Within
    <3> QED BY <1>3, <1>4, <1>8, <1>19, <3>1
  <2>3. ids = CandidateIds(m2.shot.generation) /\ m2.shot.generation > 0
      BY <1>8, <1>19
  <2> QED BY <1>19, <2>1, <2>2, <2>3, PublishedSelection
<1>21. PICK k : k = Seen(m2)
    OBVIOUS
<1>22. /\ DOMAIN k = Keyframe /\ k = [id \in Keyframe |-> k[id]]
       /\ \A id \in ids : k[id] = "candidate"
       /\ \A id \in DOMAIN memory.keyframes : k[id] = "superseded"
       /\ \A id \in Keyframe : id \notin ids /\ id \notin DOMAIN memory.keyframes =>
             k[id] = "none"
  <2>1. PICK e : e = Recovered(m2).selection
      OBVIOUS
  <2>2. e.candidates = ids /\ e.selected = None
      BY <1>20, <2>1
  <2>3. /\ DOMAIN k = Keyframe /\ k = [id \in Keyframe |-> k[id]]
        /\ \A id \in Keyframe : id \notin DOMAIN m2.keyframes => k[id] = "none"
        /\ \A id \in DOMAIN m2.keyframes :
              k[id] = IF id \notin e.candidates THEN "superseded"
                      ELSE IF id # e.selected THEN "candidate"
                      ELSE IF m2.keyframes[id].status = "candidate" THEN "selected"
                      ELSE m2.keyframes[id].status
      BY <1>19, <1>21, <2>1, SeenIs
  <2>4. \A id \in DOMAIN n.keyframes :
           k[id] = IF id \in ids THEN "candidate" ELSE "superseded"
    <3>1. ASSUME NEW id \in DOMAIN n.keyframes
          PROVE  k[id] = IF id \in ids THEN "candidate" ELSE "superseded"
      <4>1. id \in DOMAIN m2.keyframes /\ id # None
          BY <1>10, <1>19
      <4> QED BY <2>2, <2>3, <4>1
    <3> QED BY <3>1
  <2>5. \A id \in DOMAIN memory.keyframes : id \notin ids
      BY <1>4
  <2>6. \A id \in Keyframe : id \notin DOMAIN n.keyframes => k[id] = "none"
      BY <1>19, <2>3
  <2> QED BY <1>5, <2>3, <2>4, <2>5, <2>6
<1>23. PICK j : j = Seen(m1)
    OBVIOUS
<1>24. /\ DOMAIN j = Keyframe /\ j = [id \in Keyframe |-> j[id]]
       /\ \A id \in Keyframe : id \notin DOMAIN memory.keyframes => j[id] = "none"
       /\ \A id \in DOMAIN memory.keyframes :
             j[id] \in {"candidate", "selected", "locked", "superseded"}
  <2>1. PICK e : e = Recovered(m1).selection
      OBVIOUS
  <2>2. DOMAIN m1.keyframes = DOMAIN memory.keyframes
      BY <1>3, <1>14
  <2> QED BY <1>14, <1>23, <2>1, <2>2, SeenIs
<1>25. Approval!Locked(j) = {}
  <2>1. PICK i : i = Seen(disk)
      OBVIOUS
  <2>2. Approval!Locked(i) = {}
    <3>1. i = Standing(memory)
        BY <1>1, <2>1, ReadyShows
    <3> QED BY <1>3, <1>4, <3>1, NoKeyframeLocked
  <2>3. CASE j = i
      BY <2>2, <2>3
  <2>4. CASE j = Approval!Superseded(i)
    <3>1. \A id \in DOMAIN i : j[id] = IF i[id] \in Approval!Live THEN "superseded" ELSE i[id]
        BY <2>4 DEF Approval!Superseded
    <3>2. DOMAIN j = DOMAIN i
        BY <2>4 DEF Approval!Superseded
    <3> QED BY <3>1, <3>2 DEF Approval!Locked, Approval!Live
  <2> QED BY <1>15, <1>23, <2>1, <2>3, <2>4 DEF KeyframesStay, MakesWayForKeyframes
<1>26. PICK s : s = Approval!Superseded(j)
    OBVIOUS
<1>27. k = [id \in Keyframe |-> IF id[1] = g THEN "candidate" ELSE s[id]]
  <2>1. ASSUME NEW id \in Keyframe
        PROVE  k[id] = IF id[1] = g THEN "candidate" ELSE s[id]
    <3>1. s[id] = IF j[id] \in {"candidate", "selected", "locked"} THEN "superseded" ELSE j[id]
        BY <1>24, <1>26 DEF Approval!Superseded, Approval!Live
    <3>2. CASE id \in ids
        BY <1>8, <1>22, <3>2
    <3>3. CASE id \notin ids /\ id \in DOMAIN memory.keyframes
      <4>1. s[id] = "superseded" /\ k[id] = "superseded" /\ id[1] # g
          BY <1>9, <1>22, <1>24, <3>1, <3>3
      <4> QED BY <4>1
    <3>4. CASE id \notin ids /\ id \notin DOMAIN memory.keyframes
      <4>1. s[id] = "none" /\ k[id] = "none" /\ id[1] # g
          BY <1>9, <1>22, <1>24, <3>1, <3>4
      <4> QED BY <4>1
    <3> QED BY <3>2, <3>3, <3>4
  <2> QED BY <1>22, <2>1
<1>28. \A id \in Keyframe : id[1] = g => j[id] = "none"
    BY <1>4, <1>9, <1>24
<1>29. \E d \in SUBSET Direction :
          Directions(m2) = [id \in Keyframe |-> IF id[1] = g THEN d ELSE Directions(m1)[id]]
  <2>1. PICK d : d = {plan.made, memory.shot.direction}
      OBVIOUS
  <2>2. d \in SUBSET Direction
      BY <1>3, <1>4, <2>1, CopyParts
  <2>3. PICK a : a = Directions(m1)
      OBVIOUS
  <2>4. PICK b : b = Directions(m2)
      OBVIOUS
  <2>5. /\ a = [id \in Keyframe |-> IF id \in DOMAIN memory.keyframes
                                    THEN memory.keyframes[id].made ELSE {}]
        /\ b = [id \in Keyframe |-> IF id \in DOMAIN n.keyframes
                                    THEN n.keyframes[id].made ELSE {}]
    <3>1. a = Directions(memory)
      <4>1. Directions(m1) = Directions(disk)
          BY <1>14, DirectionsKept
      <4> QED BY <1>1, <2>3, <4>1, ReadyShows
    <3>2. b = Directions(n)
        BY <1>19, <2>4, DirectionsKept
    <3> QED BY <3>1, <3>2 DEF Directions
  <2>6. ASSUME NEW id \in Keyframe
        PROVE  b[id] = IF id[1] = g THEN d ELSE a[id]
    <3>1. CASE id \in ids
        BY <1>5, <1>8, <2>1, <2>5, <3>1
    <3>2. CASE id \notin ids /\ id \in DOMAIN memory.keyframes
      <4>1. id[1] # g
          BY <1>9, <3>2
      <4>2. a[id] = memory.keyframes[id].made /\ b[id] = n.keyframes[id].made
          BY <1>5, <2>5, <3>2
      <4> QED BY <1>5, <3>2, <4>1, <4>2
    <3>3. CASE id \notin ids /\ id \notin DOMAIN memory.keyframes
      <4>1. id[1] # g /\ a[id] = {} /\ b[id] = {}
          BY <1>5, <1>9, <2>5, <3>3
      <4> QED BY <4>1
    <3> QED BY <3>1, <3>2, <3>3
  <2>7. b = [id \in Keyframe |-> IF id[1] = g THEN d ELSE a[id]]
      BY <2>5, <2>6
  <2> QED BY <2>2, <2>3, <2>4, <2>7
<1>30. Publishes(m1, m2, g)
    BY <1>21, <1>23, <1>25, <1>26, <1>27, <1>28, <1>29 DEF Publishes
<1>31. VideosStay(m1, m2) /\ Behind(m2)
    BY <1>3, <1>4, <1>14, <1>16, <1>19, VideosStayIf
<1>32. KeyframesChange(m1, m2)
  <2>1. PICK id \in ids : id \in Keyframe /\ id[1] = g
      BY <1>8, <1>9
  <2> QED BY <1>9, <1>30, <2>1 DEF KeyframesChange
<1>33. Steps(m1, m2)
    BY <1>14, <1>19, <1>31, <1>32 DEF Steps, Approves
<1>34. PICK m3 : m3 = Mixture(disk, n, {"shot", "artifacts", "selection"})
    OBVIOUS
<1>35. k = Standing(n)
  <2>1. PICK t : t = Standing(n)
      OBVIOUS
  <2>2. t = [id \in Keyframe |->
                IF id \in DOMAIN n.keyframes THEN n.keyframes[id].status ELSE "none"]
      BY <1>4, <1>12, <2>1, CoherentShows
  <2>3. ASSUME NEW id \in Keyframe
        PROVE  k[id] = t[id]
    <3>1. CASE id \in ids
        BY <1>5, <1>22, <2>2, <3>1
    <3>2. CASE id \notin ids /\ id \in DOMAIN memory.keyframes
        BY <1>5, <1>22, <2>2, <3>2
    <3>3. CASE id \notin ids /\ id \notin DOMAIN memory.keyframes
        BY <1>5, <1>22, <2>2, <3>3
    <3> QED BY <3>1, <3>2, <3>3
  <2> QED BY <1>22, <2>1, <2>2, <2>3
<1>36. Steps(m2, m3)
    BY <1>3, <1>4, <1>12, <1>18, <1>21, <1>31, <1>34, <1>35, SelectionLast
<1> QED BY <1>3, <1>4, <1>13, <1>17, <1>18, <1>33, <1>34, <1>36, ThreeWritten

(* The first of the files left is a step of the record.                    *)
LEMMA FirstStep ==
    ASSUME ApprovalIInv, pending # Idle
    PROVE  Steps(disk, Replaced(disk, Head(pending.files), pending.copy))
<1>1. PICK n : n = Replaced(disk, Head(pending.files), pending.copy)
    OBVIOUS
<1>2. PICK files : files = pending.files
    OBVIOUS
<1>3. PICK c : c = pending.copy
    OBVIOUS
<1>4. CopyOK(disk) /\ files \in ToWrite /\ n = Mixture(disk, c, {files[1]})
  <2>1. ShotIInv
      BY DEF ApprovalIInv, RecoveryIInv
  <2> QED BY <1>1, <1>2, <1>3, <2>1, FirstFile
<1>5. 1 \in 1..Len(files) /\ 1 - 1 = 0
  <2>1. Len(files) \in Nat \ {0}
      BY <1>4, ToWriteIs
  <2> QED BY <2>1
<1>6. Steps(Mixture(disk, c, Written(files, 1 - 1)), Mixture(disk, c, Written(files, 1)))
    BY <1>2, <1>3, <1>5 DEF ApprovalIInv, StepsOf
<1>7. Mixture(disk, c, Written(files, 0)) = disk
    BY <1>4, WrittenIs, NothingWritten
<1>8. Steps(disk, n)
    BY <1>4, <1>5, <1>6, <1>7, WrittenIs
<1> QED BY <1>1, <1>8

(* A file is written: one step of the record, the rest still ahead.        *)
LEMMA WriteNextApproves ==
    ASSUME ApprovalIInv, pending # Idle, WriteNext
    PROVE  ApprovalIInv' /\ Approves(disk, disk')
<1>1. RecoveryIInv /\ RecoveryIInv' /\ ShotIInv
    BY WriteNextRecovers DEF ApprovalIInv, RecoveryIInv
<1>2. PICK files : files = pending.files
    OBVIOUS
<1>3. PICK c : c = pending.copy
    OBVIOUS
<1>4. /\ CopyOK(disk) /\ CopyOK(c) /\ files \in ToWrite
      /\ disk' = Mixture(disk, c, {files[1]})
    BY <1>1, <1>2, <1>3, FileWritten
<1>5. StepsOf(disk, c, files)
    BY <1>2, <1>3 DEF ApprovalIInv
<1>6. PICK l \in Nat \ {0} : l = Len(files)
    BY <1>4, ToWriteIs
<1>7. Steps(disk, disk')
    BY FirstStep DEF WriteNext
<1>8. CASE l > 1
  <2>1. pending' # Idle /\ pending'.files = Tail(files) /\ pending'.copy = c
      BY <1>1, <1>2, <1>3, <1>6, <1>8, FilesLeft
  <2>2. PICK k \in Nat : k = Len(Tail(files))
      BY <1>4, <1>6, <1>8, ToWriteIs
  <2>3. ASSUME NEW n \in 1..k
        PROVE  Steps(Mixture(disk', c, Written(Tail(files), n - 1)),
                     Mixture(disk', c, Written(Tail(files), n)))
    <3>1. n \in 0..k /\ n - 1 \in 0..k /\ (n - 1) + 1 = n /\ (n + 1) - 1 = n
        BY <2>2
    <3>2. /\ Mixture(disk', c, Written(Tail(files), n)) = Mixture(disk, c, Written(files, n + 1))
          /\ n + 1 \in 0..l
        BY <1>4, <1>6, <1>8, <2>2, <3>1, MixtureAfter
    <3>3. PICK i : i = n - 1
        OBVIOUS
    <3>4. Mixture(disk', c, Written(Tail(files), i)) = Mixture(disk, c, Written(files, i + 1))
        BY <1>4, <1>6, <1>8, <2>2, <3>1, <3>3, MixtureAfter
    <3>5. Mixture(disk', c, Written(Tail(files), n - 1)) = Mixture(disk, c, Written(files, n))
        BY <3>1, <3>3, <3>4
    <3>6. n + 1 \in 1..l
        BY <3>1, <3>2
    <3>7. Steps(Mixture(disk, c, Written(files, (n + 1) - 1)),
                Mixture(disk, c, Written(files, n + 1)))
        BY <1>5, <1>6, <3>6 DEF StepsOf
    <3> QED BY <3>1, <3>2, <3>5, <3>7
  <2>4. StepsOf(disk', c, Tail(files))
      BY <2>2, <2>3 DEF StepsOf
  <2>5. StepsOf(disk', pending'.copy, pending'.files)
      BY <2>1, <2>4
  <2> QED BY <1>1, <1>7, <2>5 DEF ApprovalIInv, Steps
<1>9. CASE ~(l > 1)
  <2>1. pending' = Idle
      BY <1>2, <1>6, <1>9 DEF WriteNext
  <2> QED BY <1>1, <1>7, <2>1 DEF ApprovalIInv, Steps
<1> QED BY <1>8, <1>9

LEMMA BegunApproves ==
    ASSUME RecoveryIInv', Behind(disk), NEW files, NEW n, n = pending'.copy, NEW job,
           Begins(files, n, job), StepsOf(disk, n, files)
    PROVE  ApprovalIInv' /\ disk' = disk
<1>1. pending'.files = files /\ disk' = disk
    BY DEF Begins, Persist
<1>2. StepsOf(disk', pending'.copy, pending'.files)
    BY <1>1
<1>3. Behind(disk')
    BY <1>1
<1> QED BY <1>1, <1>2, <1>3 DEF ApprovalIInv

LEMMA BeginningApproves ==
    ASSUME ApprovalIInv,
           \/ \E d \in Direction : SetDirection(d)
           \/ \E plan \in plans : AttachGeneration(plan)
           \/ \E id \in Keyframe : Select(id)
           \/ Lock \/ Reset
           \/ \E job \in jobs : AttachVideo(job)
           \/ \E id \in Video : SelectVideo(id)
           \/ LockVideo
    PROVE  ApprovalIInv' /\ disk' = disk
<1>1. PICK n : n = pending'.copy
    OBVIOUS
<1>2. RecoveryIInv /\ Behind(disk) /\ ShotIInv
    BY DEF ApprovalIInv, RecoveryIInv
<1>3. RecoveryIInv'
    BY <1>2, BeginningRecovers
<1>4. ASSUME NEW files, NEW job, Begins(files, n, job), StepsOf(disk, n, files)
      PROVE  ApprovalIInv' /\ disk' = disk
    BY <1>1, <1>2, <1>3, <1>4, BegunApproves
<1>5. ASSUME NEW d \in Direction, SetDirection(d) PROVE ApprovalIInv' /\ disk' = disk
  <2>1. Begins(<<"shot">>, n, None)
      BY <1>1, <1>2, <1>5, SetDirectionBegins
  <2>2. StepsOf(disk, n, <<"shot">>)
      BY <1>1, <1>2, <1>5, SetDirectionSteps
  <2> QED BY <1>4, <2>1, <2>2
<1>6. ASSUME NEW plan \in plans, AttachGeneration(plan) PROVE ApprovalIInv' /\ disk' = disk
  <2>1. Begins(<<"shot", "artifacts", "selection">>, n, None)
      BY <1>1, <1>2, <1>6, AttachGenerationBegins
  <2>2. StepsOf(disk, n, <<"shot", "artifacts", "selection">>)
      BY <1>1, <1>2, <1>6, AttachGenerationSteps
  <2> QED BY <1>4, <2>1, <2>2
<1>7. ASSUME NEW id \in Keyframe, Select(id) PROVE ApprovalIInv' /\ disk' = disk
  <2>1. Begins(<<"artifacts", "selection">>, n, None)
      BY <1>1, <1>2, <1>7, SelectBegins
  <2>2. StepsOf(disk, n, <<"artifacts", "selection">>)
      BY <1>1, <1>2, <1>7, SelectSteps
  <2> QED BY <1>4, <2>1, <2>2
<1>8. CASE Lock
  <2>1. Begins(<<"artifacts">>, n, None)
      BY <1>1, <1>2, <1>8, LockBegins
  <2>2. StepsOf(disk, n, <<"artifacts">>)
      BY <1>1, <1>2, <1>8, LockSteps
  <2> QED BY <1>4, <2>1, <2>2
<1>9. CASE Reset
  <2>1. Begins(<<"shot", "artifacts", "selection">>, n, None)
      BY <1>1, <1>2, <1>9, ResetBegins
  <2>2. StepsOf(disk, n, <<"shot", "artifacts", "selection">>)
      BY <1>1, <1>2, <1>9, ResetSteps
  <2> QED BY <1>4, <2>1, <2>2
<1>10. ASSUME NEW job \in jobs, AttachVideo(job) PROVE ApprovalIInv' /\ disk' = disk
  <2>1. Begins(<<"shot", "artifacts">>, n, job.id)
      BY <1>1, <1>2, <1>10, AttachVideoBegins
  <2>2. StepsOf(disk, n, <<"shot", "artifacts">>)
      BY <1>1, <1>2, <1>10, AttachVideoSteps
  <2> QED BY <1>4, <2>1, <2>2
<1>11. ASSUME NEW id \in Video, SelectVideo(id) PROVE ApprovalIInv' /\ disk' = disk
  <2>1. Begins(<<"artifacts">>, n, None)
      BY <1>1, <1>2, <1>11, SelectVideoBegins
  <2>2. StepsOf(disk, n, <<"artifacts">>)
      BY <1>1, <1>2, <1>11, SelectVideoSteps
  <2> QED BY <1>4, <2>1, <2>2
<1>12. CASE LockVideo
  <2>1. Begins(<<"artifacts">>, n, None)
      BY <1>1, <1>2, <1>12, LockVideoBegins
  <2>2. StepsOf(disk, n, <<"artifacts">>)
      BY <1>1, <1>2, <1>12, LockVideoSteps
  <2> QED BY <1>4, <2>1, <2>2
<1> QED BY <1>5, <1>6, <1>7, <1>8, <1>9, <1>10, <1>11, <1>12

(* Steps that leave nothing to write, or leave everything as it was.       *)
LEMMA RereadApproves ==
    ASSUME RecoveryIInv', pending' = Idle, Steps(disk, disk')
    PROVE  ApprovalIInv' /\ Approves(disk, disk')
BY DEF ApprovalIInv, Steps

LEMMA SameFiles ==
    ASSUME ApprovalIInv, RecoveryIInv', disk' = disk,
           pending' = pending \/ pending' = Idle
    PROVE  ApprovalIInv' /\ Approves(disk, disk')
<1>1. Approves(disk, disk')
    BY DEF Approves, KeyframesStay, VideosStay
<1>2. ApprovalIInv'
  <2>1. CASE pending' = pending
      BY <2>1 DEF ApprovalIInv
  <2>2. CASE pending' = Idle
      BY <2>2 DEF ApprovalIInv
  <2> QED BY <2>1, <2>2
<1> QED BY <1>1, <1>2

LEMMA MaterializedSteps ==
    ASSUME NEW c, CopyOK(c), Sound(c), Behind(c), NEW d \in Direction \cup {Unplanned}
    PROVE  Steps(c, Materialized(c, d))
<1>1. PICK n : n = Materialized(c, d)
    OBVIOUS
<1>2. /\ CopyOK(n) /\ n.keyframes = c.keyframes /\ n.videos = c.videos
      /\ n.selection = c.selection
      /\ n.shot = c.shot \/ \E x \in Direction : n.shot = [c.shot EXCEPT !.direction = x]
    BY <1>1, MaterializedIs
<1>3. n.shot.generation = c.shot.generation /\ n.shot.video = c.shot.video
  <2>1. PICK s \in Shot : s = c.shot
      BY CopyParts
  <2>2. CASE n.shot = c.shot
      BY <2>2
  <2>3. ASSUME NEW x \in Direction, n.shot = [s EXCEPT !.direction = x]
        PROVE  n.shot.generation = s.generation /\ n.shot.video = s.video
      BY <2>3, ShotChanged
  <2> QED BY <1>2, <2>1, <2>2, <2>3
<1>4. PICK l : l = Loaded(c)
    OBVIOUS
<1>5. Steps(c, n)
    BY <1>2, <1>3, <1>4, Redirects
<1> QED BY <1>1, <1>5

LEMMA LockPlanApproves ==
    ASSUME ApprovalIInv, NEW d \in Direction, LockPlan(d), ~astray'
    PROVE  ApprovalIInv' /\ Approves(disk, disk')
<1>1. pending = Idle /\ pending' = Idle /\ (disk' = disk \/ disk' = Materialized(disk, d))
    BY DEF LockPlan
<1>2. RecoveryIInv'
    BY LockPlanRecovers DEF ApprovalIInv
<1>3. CASE disk' = disk
    BY <1>1, <1>2, <1>3, SameFiles
<1>4. CASE disk' = Materialized(disk, d)
  <2>1. CopyOK(disk) /\ Sound(disk) /\ Behind(disk)
      BY <1>1 DEF ApprovalIInv, RecoveryIInv, ShotIInv, ShotTypes
  <2>2. Steps(disk, disk')
      BY <1>4, <2>1, MaterializedSteps
  <2> QED BY <1>1, <1>2, <2>2, RereadApproves
<1> QED BY <1>1, <1>3, <1>4

LEMMA CollectApproves ==
    ASSUME ApprovalIInv, Collect
    PROVE  ApprovalIInv' /\ Approves(disk, disk')
<1>1. PICK c : c = Loaded(disk)
    OBVIOUS
<1>2. pending = Idle /\ disk' = Replaced(disk, "artifacts", c) /\ pending' = Idle
    BY <1>1 DEF Collect
<1>3. RecoveryIInv'
    BY CollectRecovers DEF ApprovalIInv
<1>4. CopyOK(disk) /\ Sound(disk) /\ Behind(disk)
    BY <1>2 DEF ApprovalIInv, RecoveryIInv, ShotIInv, ShotTypes
<1>5. CopyOK(c) /\ c.videos = disk.videos
    BY <1>1, <1>4, LoadedIs
<1>6. PICK m : m = Mixture(disk, c, {"artifacts"})
    OBVIOUS
<1>7. /\ CopyOK(m) /\ m.shot = disk.shot /\ m.keyframes = c.keyframes
      /\ m.videos = c.videos /\ m.selection = disk.selection
    BY <1>4, <1>5, <1>6, Mixtures
<1>8. Steps(disk, m)
    BY <1>1, <1>4, <1>5, <1>7, Redirects
<1>9. disk' = m
  <2>1. "artifacts" \in File
      BY DEF File
  <2> QED BY <1>2, <1>4, <1>5, <1>6, <2>1, ReplacedIs
<1> QED BY <1>2, <1>3, <1>8, <1>9, RereadApproves

LEMMA ReopenApproves ==
    ASSUME ApprovalIInv, Reopen, ~astray'
    PROVE  ApprovalIInv' /\ Approves(disk, disk')
<1>1. pending.settled /\ disk' = Materialized(disk, planned) /\ pending' = Idle
    BY DEF Reopen, Interrupted
<1>2. RecoveryIInv' /\ planned \in Direction \cup {Unplanned}
    BY ReopenRecovers DEF ApprovalIInv, RecoveryIInv, ShotIInv, ShotTypes
<1>3. CopyOK(disk) /\ Sound(disk) /\ Behind(disk)
    BY <1>1, SettledIsSound DEF ApprovalIInv
<1>4. Steps(disk, disk')
    BY <1>1, <1>2, <1>3, MaterializedSteps
<1> QED BY <1>1, <1>2, <1>4, RereadApproves

LEMMA FailWriteApproves ==
    ASSUME ApprovalIInv, pending # Idle, FailWrite, ~astray'
    PROVE  ApprovalIInv' /\ Approves(disk, disk')
<1>1. /\ disk' \in {disk, Replaced(disk, Head(pending.files), pending.copy)}
      /\ pending' = Idle
    BY DEF FailWrite
<1>2. RecoveryIInv'
    BY FailWriteRecovers DEF ApprovalIInv
<1>3. CASE disk' = disk
    BY <1>1, <1>2, <1>3, SameFiles
<1>4. CASE disk' = Replaced(disk, Head(pending.files), pending.copy)
    BY <1>1, <1>2, <1>4, FirstStep, RereadApproves
<1> QED BY <1>1, <1>3, <1>4

LEMMA ApprovalKept ==
    ASSUME ApprovalIInv, [Next]_vars, ~astray'
    PROVE  ApprovalIInv' /\ Approves(disk, disk')
<1>1. RecoveryIInv /\ RecoveryIInv'
    BY RecoveryStep DEF ApprovalIInv
<1>2. CASE UNCHANGED vars
  <2>1. disk' = disk /\ pending' = pending
      BY <1>2 DEF vars
  <2> QED BY <1>1, <2>1, SameFiles
<1>3. CASE Next
  <2>1. CASE \/ \E d \in Direction : SetDirection(d)
             \/ \E plan \in plans : AttachGeneration(plan)
             \/ \E id \in Keyframe : Select(id)
             \/ Lock \/ Reset
             \/ \E job \in jobs : AttachVideo(job)
             \/ \E id \in Video : SelectVideo(id)
             \/ LockVideo
    <3>1. ApprovalIInv' /\ disk' = disk
        BY <2>1, BeginningApproves
    <3> QED BY <3>1 DEF Approves, KeyframesStay, VideosStay
  <2>2. ASSUME NEW d \in Direction, LockPlan(d)
        PROVE  ApprovalIInv' /\ Approves(disk, disk')
      BY <2>2, LockPlanApproves
  <2>3. ASSUME NEW job \in jobs, FailVideo(job) \/ Acknowledge(job)
        PROVE  ApprovalIInv' /\ Approves(disk, disk')
    <3>1. disk' = disk /\ pending' = pending
        BY <2>3 DEF FailVideo, Acknowledge
    <3> QED BY <1>1, <3>1, SameFiles
  <2>4. CASE PlanGeneration \/ StartVideos \/ Load
    <3>1. disk' = disk /\ pending' = pending
        BY <2>4 DEF PlanGeneration, StartVideos, Load
    <3> QED BY <1>1, <3>1, SameFiles
  <2>5. CASE pending # Idle /\ WriteNext
      BY <2>5, WriteNextApproves
  <2>6. CASE pending # Idle /\ FailWrite
      BY <2>6, FailWriteApproves
  <2>7. CASE Collect
      BY <2>7, CollectApproves
  <2>8. CASE Reopen
      BY <2>8, ReopenApproves
  <2> QED BY <1>3, <2>1, <2>2, <2>3, <2>4, <2>5, <2>6, <2>7, <2>8, Zenon DEF Next
<1> QED BY <1>2, <1>3

LEMMA ApprovalStart ==
    ASSUME Init
    PROVE  ApprovalIInv
<1>1. RecoveryIInv /\ disk = NewShot /\ pending = Idle
    BY RecoveryStart DEF Init
<1>2. Behind(disk)
    BY <1>1 DEF Behind, NewShot
<1> QED BY <1>1, <1>2 DEF ApprovalIInv

(* The one record's step that a step of the files amounts to.              *)
ApprovalStep == [Approval!Next]_(Approval!vars)

LEMMA StandingSeen == KeyframeStanding = Seen(disk)
<1>1. \A x : (CHOOSE s \in {Standing(c) : c \in {x}} : TRUE) = Standing(x)
    OBVIOUS
<1> QED BY <1>1 DEF KeyframeStanding, Found, Seen

LEMMA Approved ==
    ASSUME CopyOK(disk), CopyOK(disk'), Approves(disk, disk')
    PROVE  Approval!Change
<1>1. KeyframeStanding = Seen(disk)
    BY StandingSeen
<1>2. KeyframeStanding' = Seen(disk')
  <2>1. \A x : (CHOOSE s \in {Standing(c) : c \in {x}} : TRUE) = Standing(x)
      OBVIOUS
  <2> QED BY <2>1 DEF KeyframeStanding, Found, Seen
<1>3. ASSUME disk'.shot.direction = disk.shot.direction, VideosStay(disk, disk')
      PROVE  /\ MakesWayForKeyframes(disk, disk') => Approval!MakeWayForKeyframes
             /\ \A id \in Keyframe :
                   /\ Publishes(disk, disk', id[1]) => Approval!Publish(id[1])
                   /\ Chooses(disk, disk', id) => Approval!Choose(id)
                   /\ Locks(disk, disk', id) => Approval!Lock(id)
  <2>1. ASSUME NEW id \in Keyframe, Publishes(disk, disk', id[1]) PROVE Approval!Publish(id[1])
      BY <1>1, <1>2, <1>3, <2>1 DEF Publishes, VideosStay, Approval!Publish
  <2>2. ASSUME NEW id \in Keyframe, Chooses(disk, disk', id) PROVE Approval!Choose(id)
      BY <1>1, <1>2, <1>3, <2>2 DEF Chooses, VideosStay, Approval!Choose
  <2>3. ASSUME NEW id \in Keyframe, Locks(disk, disk', id) PROVE Approval!Lock(id)
      BY <1>1, <1>2, <1>3, <2>3 DEF Locks, VideosStay, Approval!Lock
  <2>4. ASSUME MakesWayForKeyframes(disk, disk') PROVE Approval!MakeWayForKeyframes
      BY <1>1, <1>2, <1>3, <2>4
         DEF MakesWayForKeyframes, VideosStay, Approval!MakeWayForKeyframes
  <2> QED BY <2>1, <2>2, <2>3, <2>4
<1>4. ASSUME disk'.shot.direction = disk.shot.direction, KeyframesStay(disk, disk')
      PROVE  /\ MakesWay(disk, disk') => Approval!MakeWay
             /\ \A id \in Video :
                   /\ Adds(disk, disk', id) => Approval!Add(id)
                   /\ ChoosesVideo(disk, disk', id) => Approval!ChooseVideo(id)
                   /\ LocksVideo(disk, disk', id) => Approval!LockVideo(id)
  <2>1. ASSUME NEW id \in Video, Adds(disk, disk', id) PROVE Approval!Add(id)
      BY <1>1, <1>2, <1>4, <2>1 DEF Adds, KeyframesStay, Approval!Add
  <2>2. ASSUME NEW id \in Video, ChoosesVideo(disk, disk', id) PROVE Approval!ChooseVideo(id)
      BY <1>1, <1>2, <1>4, <2>2 DEF ChoosesVideo, KeyframesStay, Approval!ChooseVideo
  <2>3. ASSUME NEW id \in Video, LocksVideo(disk, disk', id) PROVE Approval!LockVideo(id)
      BY <1>1, <1>2, <1>4, <2>3 DEF LocksVideo, KeyframesStay, Approval!LockVideo
  <2>4. ASSUME MakesWay(disk, disk') PROVE Approval!MakeWay
      BY <1>1, <1>2, <1>4, <2>4 DEF MakesWay, KeyframesStay, Approval!MakeWay
  <2> QED BY <2>1, <2>2, <2>3, <2>4
<1>5. ASSUME disk'.shot.direction = disk.shot.direction, Resets(disk, disk')
      PROVE  Approval!Reset
    BY <1>1, <1>2, <1>5 DEF Resets, Approval!Reset
<1>6. Approval!Change
  <2>1. CASE KeyframesStay(disk, disk') /\ VideosStay(disk, disk')
    <3>1. PICK d \in Direction : d = disk'.shot.direction
        BY CopyParts
    <3>2. Approval!Redirect(d)
        BY <1>1, <1>2, <2>1, <3>1 DEF Approval!Redirect, KeyframesStay, VideosStay
    <3> QED BY <3>2 DEF Approval!Change
  <2>2. CASE /\ disk'.shot.direction = disk.shot.direction
             /\ KeyframesChange(disk, disk') /\ VideosStay(disk, disk')
      BY <1>3, <2>2 DEF KeyframesChange, Approval!Change
  <2>3. CASE /\ disk'.shot.direction = disk.shot.direction
             /\ KeyframesStay(disk, disk') /\ VideosChange(disk, disk')
      BY <1>4, <2>3 DEF VideosChange, Approval!Change
  <2>4. CASE disk'.shot.direction = disk.shot.direction /\ Resets(disk, disk')
      BY <1>5, <2>4 DEF Approval!Change
  <2> QED BY <2>1, <2>2, <2>3, <2>4 DEF Approves
<1> QED BY <1>6

LEMMA ApprovalInitially == Init => Approval!Init
<1> SUFFICES ASSUME Init PROVE Approval!Init
    OBVIOUS
<1>1. CopyOK(disk) /\ Sound(disk) /\ disk = NewShot /\ astray = FALSE
    BY RecoveryStart DEF Init, RecoveryIInv, ShotIInv, ShotTypes
<1>2. /\ disk.shot.direction \in Direction
      /\ DOMAIN disk.keyframes = {} /\ DOMAIN disk.videos = {}
  <2>1. disk.shot.direction \in Direction
      BY <1>1, CopyParts
  <2> QED BY <1>1, <2>1 DEF NewShot
<1>3. KeyframeStanding = [id \in Keyframe |-> "none"]
  <2>1. PICK k : k = Seen(disk)
      OBVIOUS
  <2>2. PICK e : e = Recovered(disk).selection
      OBVIOUS
  <2>3. k = [id \in Keyframe |-> k[id]] /\ \A id \in Keyframe : k[id] = "none"
      BY <1>1, <1>2, <2>1, <2>2, SeenIs
  <2> QED BY <2>1, <2>3, StandingSeen
<1>4. VideoStanding(disk) = [id \in Video |-> "none"]
    BY <1>2 DEF VideoStanding
<1>5. Directions(disk) = [id \in Keyframe |-> {}] /\ Sources(disk) = [id \in Video |-> {}]
    BY <1>2 DEF Directions, Sources
<1> QED BY <1>1, <1>2, <1>3, <1>4, <1>5 DEF Approval!Init

(* A step that does not go astray keeps the promise, any other gives it up.*)
LEMMA ApprovalSteps ==
    ASSUME ShotIInv, ~astray => ApprovalIInv, [Next]_vars
    PROVE  ApprovalStep
<1>1. astray \in BOOLEAN /\ astray' \in BOOLEAN
    BY ShotStepKeeps DEF ShotIInv, ShotTypes
<1>2. CASE astray'
    BY <1>1, <1>2 DEF ApprovalStep, Approval!Next, Approval!GoAstray
<1>3. CASE ~astray'
  <2>1. ~astray
      BY <1>3, AstrayStays
  <2>2. ApprovalIInv' /\ Approves(disk, disk')
      BY <1>3, <2>1, ApprovalKept
  <2>3. CopyOK(disk) /\ CopyOK(disk')
      BY <2>2 DEF ApprovalIInv, RecoveryIInv, ShotIInv, ShotTypes
  <2>4. Approval!Change
      BY <2>2, <2>3, Approved
  <2> QED BY <1>1, <1>3, <2>1, <2>4 DEF ApprovalStep, Approval!Next, Approval!Keep
<1> QED BY <1>2, <1>3

(* Until an operation is interrupted over the mixture another left, or a   *)
(* failed write leaves the session with an older copy than the files, each *)
(* file an operation has still to write takes what a reader finds one step *)
(* of the one record further, or leaves it (shot.rs, persist and the order *)
(* of its writes).                                                         *)
THEOREM ApprovalInvariance == Spec => [](~astray => ApprovalIInv)
<1>1. Init => (~astray => ApprovalIInv)
    BY ApprovalStart
<1>2. ShotIInv /\ (~astray => ApprovalIInv) /\ [Next]_vars => (~astray => ApprovalIInv)'
    BY ApprovalKept, AstrayStays
<1> QED BY <1>1, <1>2, ShotInvariance, PTL DEF Spec

(* Until then the three files, read at any moment, change as one record of *)
(* takes and approvals would (shot.rs,                                     *)
(* attach_keyframe_generation..lock_video).                                *)
THEOREM ApprovalIsImplemented == Spec => ImplementsApproval
<1>1. ShotIInv /\ (~astray => ApprovalIInv) /\ [Next]_vars => ApprovalStep
    BY ApprovalSteps
<1> QED BY <1>1, ShotInvariance, ApprovalInvariance, ApprovalInitially, PTL
        DEF Spec, ImplementsApproval, Approval!Spec, ApprovalStep

-----------------------------------------------------------------------------
(* The shot plan.                                                          *)

(* The shots of a plan, each with its scene.                               *)
Numbered(shots) == UNION {{<<s, shot>> : shot \in shots[s]} : s \in Scenes}

(* A model is asked, and shots are written, only in an open project and    *)
(* one thing at a time; the answer meets the IDs that were read.           *)
PlanSessionOK ==
    /\ ~planOpen => planJob = NoPlan /\ writing = {}
    /\ planJob # NoPlan => /\ writing = {} /\ planJob.used = UsedShotIds
                           /\ NewestPlan < MaxPlans
    /\ writing # {} => \E r \in LockedPlans : writing \subseteq ShotsOf(r)

(* Within a revision an ID is there once.                                  *)
IdsApart(shots) == \A x, y \in Numbered(shots) : x[2].id = y[2].id => x = y

OneLockedPlan == \A r, s \in LockedPlans : r = s

IsWritten(at) == written[<<at[1], at[2].id>>] = [who |-> at[2].who, says |-> at[2].says]

(* A shot in play is written or about to be, unless writing failed.        *)
PlayIsReached ==
    planOpen /\ (writing # {} \/ ~behind) =>
        \A r \in LockedPlans : \A at \in ShotsOf(r) : at \in writing \/ IsWritten(at)

PlanIInv ==
    /\ PlanTypeOK /\ PlanSessionOK /\ AnIdIsOneShot /\ OneLockedPlan /\ PlayIsReached
    /\ \A r \in DOMAIN planLog : IdsApart(planLog[r].shots)

LEMMA NumberedIs ==
    ASSUME NEW shots
    PROVE  \A x : x \in Numbered(shots) <=> \E s \in Scenes : \E shot \in shots[s] : x = <<s, shot>>
BY DEF Numbered

LEMMA ShotsNumbered ==
    ASSUME NEW r
    PROVE  ShotsOf(r) = Numbered(planLog[r].shots)
BY DEF ShotsOf, Numbered

LEMMA UsedIs ==
    ASSUME NEW id
    PROVE  id \in UsedShotIds <=>
              \/ \E r \in DOMAIN planLog : \E x \in ShotsOf(r) : x[2].id = id
              \/ id \in ShotId /\ \E s \in Scenes : written[<<s, id>>] # NoPlan
<1>1. ASSUME NEW r
      PROVE  id \in IdsIn(planLog[r].shots) <=> \E x \in ShotsOf(r) : x[2].id = id
  <2>1. ASSUME NEW s \in Scenes, NEW shot \in planLog[r].shots[s], shot.id = id
        PROVE  \E x \in ShotsOf(r) : x[2].id = id
    <3>1. <<s, shot>> \in ShotsOf(r) /\ <<s, shot>>[2].id = id
        BY <2>1, ShotsNumbered, NumberedIs
    <3> QED BY <3>1
  <2>2. ASSUME NEW x \in ShotsOf(r), x[2].id = id PROVE id \in IdsIn(planLog[r].shots)
    <3>1. PICK s, shot : s \in Scenes /\ shot \in planLog[r].shots[s] /\ x = <<s, shot>>
        BY ShotsNumbered, NumberedIs
    <3>2. shot \in ShotsIn(planLog[r].shots) /\ shot.id = id
        BY <2>2, <3>1 DEF ShotsIn
    <3> QED BY <3>2 DEF IdsIn
  <2> QED BY <2>1, <2>2 DEF IdsIn, ShotsIn
<1>2. id \in {i \in ShotId : ShotsLocated(i) # {}} <=>
          id \in ShotId /\ \E s \in Scenes : written[<<s, id>>] # NoPlan
  <2>1. ShotsLocated(id) # {} <=> \E s \in Scenes : written[<<s, id>>] # NoPlan
      BY DEF ShotsLocated
  <2> QED BY <2>1
<1>3. id \in UsedShotIds <=> \/ \E r \in DOMAIN planLog : id \in IdsIn(planLog[r].shots)
                            \/ id \in {i \in ShotId : ShotsLocated(i) # {}}
    BY DEF UsedShotIds
<1> QED BY <1>1, <1>2, <1>3

LEMMA PlanLogIs ==
    ASSUME planLog \in Seq(PlanRevision)
    PROVE  /\ NewestPlan \in Nat /\ DOMAIN planLog = 1..NewestPlan
           /\ \A r \in DOMAIN planLog : planLog[r] \in PlanRevision
BY LenProperties, ElementOfSeq DEF NewestPlan

LEMMA ShotsOfRevision ==
    ASSUME NEW rev \in PlanRevision, NEW x \in Numbered(rev.shots)
    PROVE  x[1] \in Scenes /\ x[2] \in rev.shots[x[1]] /\ x[2] \in PlannedShot /\ x = <<x[1], x[2]>>
<1>1. PICK s, shot : s \in Scenes /\ shot \in rev.shots[s] /\ x = <<s, shot>>
    BY NumberedIs
<1>2. rev.shots \in [Scenes -> SUBSET PlannedShot]
    BY DEF PlanRevision
<1> QED BY <1>1, <1>2

(* The log with a revision more.                                           *)
LEMMA NextPlanIs ==
    ASSUME PlanTypeOK, NEW rev \in PlanRevision, NewestPlan < MaxPlans, NextPlan(rev)
    PROVE  /\ planLog' \in Seq(PlanRevision) /\ Len(planLog') <= MaxPlans
           /\ DOMAIN planLog' = 1..(NewestPlan + 1) /\ DOMAIN planLog = 1..NewestPlan
           /\ NewestPlan \in Nat
           /\ \A r \in 1..NewestPlan :
                 /\ planLog'[r].shots = planLog[r].shots
                 /\ planLog'[r].status = "locked" <=> planLog[r].status = "locked"
           /\ planLog'[NewestPlan + 1] = rev
<1>1. PICK n \in Nat : n = NewestPlan /\ n = Len(planLog) /\ n < MaxPlans /\ MaxPlans \in Nat
    BY PlanLogIs, PlanAssumption DEF PlanTypeOK, NewestPlan
<1>2. DOMAIN planLog = 1..n /\ \A r \in 1..n : planLog[r] \in PlanRevision
    BY <1>1, PlanLogIs DEF PlanTypeOK
<1>3. PICK old : old = [r \in DOMAIN planLog |->
                          IF planLog[r].status = "candidate"
                          THEN [planLog[r] EXCEPT !.status = "superseded"] ELSE planLog[r]]
    OBVIOUS
<1>4. ASSUME NEW r \in 1..n
      PROVE  /\ old[r] \in PlanRevision /\ old[r].shots = planLog[r].shots
             /\ old[r].status = "locked" <=> planLog[r].status = "locked"
  <2>1. planLog[r] \in PlanRevision
      BY <1>2
  <2>2. CASE planLog[r].status = "candidate"
    <3>1. old[r] = [planLog[r] EXCEPT !.status = "superseded"]
        BY <1>2, <1>3, <2>2
    <3> QED BY <2>1, <2>2, <3>1 DEF PlanRevision
  <2>3. CASE planLog[r].status # "candidate"
    <3>1. old[r] = planLog[r]
        BY <1>2, <1>3, <2>3
    <3> QED BY <2>1, <3>1
  <2> QED BY <2>2, <2>3
<1>5. old \in Seq(PlanRevision) /\ Len(old) = n
  <2>1. old \in [1..n -> PlanRevision]
      BY <1>2, <1>3, <1>4
  <2> QED BY <1>1, <2>1, SeqDef, LenProperties
<1>6. planLog' = Append(old, rev)
    BY <1>3 DEF NextPlan
<1>7. /\ planLog' \in Seq(PlanRevision) /\ Len(planLog') = n + 1 /\ planLog'[n + 1] = rev
      /\ DOMAIN planLog' = 1..(n + 1) /\ \A r \in 1..n : planLog'[r] = old[r]
    BY <1>5, <1>6, OneMore
<1> QED BY <1>1, <1>2, <1>4, <1>7

(* Each shot is one an earlier revision has, or has an ID never used.      *)
NewOrKept(shots) ==
    \A x \in Numbered(shots) :
        \/ x[2].id \notin UsedShotIds
        \/ \E r \in DOMAIN planLog : \E y \in ShotsOf(r) :
              y[2].id = x[2].id /\ y[2].who = x[2].who /\ y[1] = x[1]

PlanCounts == [added: 0..MaxAdded, changes: 0..MaxChanges, stops: 0..MaxPlanStops]

LEMMA NextPlanKeeps ==
    ASSUME PlanIInv, NEW rev \in PlanRevision, rev.status = "candidate",
           NewestPlan < MaxPlans, NextPlan(rev), NewOrKept(rev.shots), IdsApart(rev.shots),
           writing = {}, planJob' = NoPlan, planCount' \in PlanCounts,
           UNCHANGED <<script, bibleEntry, written, writing, behind, planOpen>>
    PROVE  PlanIInv'
<1>1. PICK n : n = NewestPlan
    OBVIOUS
<1>2. /\ planLog' \in Seq(PlanRevision) /\ Len(planLog') <= MaxPlans
      /\ DOMAIN planLog' = 1..(n + 1) /\ DOMAIN planLog = 1..n /\ n \in Nat
      /\ \A r \in 1..n : /\ planLog'[r].shots = planLog[r].shots
                         /\ planLog'[r].status = "locked" <=> planLog[r].status = "locked"
      /\ planLog'[n + 1] = rev
    BY <1>1, NextPlanIs DEF PlanIInv
<1>3. PlanTypeOK'
    BY <1>2 DEF PlanIInv, PlanTypeOK, PlanCounts
<1>4. /\ \A r \in 1..n : ShotsOf(r)' = ShotsOf(r)
      /\ ShotsOf(n + 1)' = Numbered(rev.shots)
      /\ \A r \in 1..(n + 1) : r \in 1..n \/ r = n + 1
    BY <1>2 DEF ShotsOf, Numbered
<1>5. LockedPlans' = LockedPlans /\ LockedPlans \subseteq 1..n
    BY <1>2, <1>4 DEF LockedPlans
<1>6. PlanSessionOK'
    BY <1>5 DEF PlanIInv, PlanSessionOK
<1>7. OneLockedPlan' /\ PlayIsReached'
  <2>1. \A r \in LockedPlans : ShotsOf(r)' = ShotsOf(r)
      BY <1>4, <1>5
  <2>2. \A at : IsWritten(at)' = IsWritten(at)
      BY DEF IsWritten
  <2> QED BY <1>5, <2>1, <2>2 DEF PlanIInv, OneLockedPlan, PlayIsReached
<1>8. \A r \in (DOMAIN planLog)' : IdsApart(planLog'[r].shots)
    BY <1>2, <1>4 DEF PlanIInv
<1>9. ASSUME NEW x \in Numbered(rev.shots), NEW r \in 1..n, NEW y \in ShotsOf(r),
             x[2].id = y[2].id
      PROVE  x[2].who = y[2].who /\ x[1] = y[1]
  <2>1. x[2].id \in UsedShotIds
      BY <1>2, <1>9, UsedIs
  <2>2. PICK s, z : s \in DOMAIN planLog /\ z \in ShotsOf(s) /\
            z[2].id = x[2].id /\ z[2].who = x[2].who /\ z[1] = x[1]
      BY <2>1 DEF NewOrKept
  <2>3. z[2].who = y[2].who /\ z[1] = y[1]
      BY <1>2, <1>9, <2>2 DEF PlanIInv, AnIdIsOneShot
  <2> QED BY <2>2, <2>3
<1>10. ASSUME NEW x \in Numbered(rev.shots), NEW s \in Scenes, written[<<s, x[2].id>>] # NoPlan
       PROVE  s = x[1] /\ written[<<s, x[2].id>>].who = x[2].who
  <2>1. x[2].id \in ShotId
      BY ShotsOfRevision DEF PlannedShot
  <2>2. x[2].id \in UsedShotIds
      BY <1>10, <2>1, UsedIs
  <2>3. PICK r, z : r \in DOMAIN planLog /\ z \in ShotsOf(r) /\
            z[2].id = x[2].id /\ z[2].who = x[2].who /\ z[1] = x[1]
      BY <2>2 DEF NewOrKept
  <2>4. s = z[1] /\ written[<<s, z[2].id>>].who = z[2].who
      BY <1>10, <2>3 DEF PlanIInv, AnIdIsOneShot
  <2> QED BY <2>3, <2>4
<1>11. AnIdIsOneShot'
  <2>1. ASSUME NEW r \in 1..(n + 1), NEW s \in 1..(n + 1), NEW x \in ShotsOf(r)',
               NEW y \in ShotsOf(s)', x[2].id = y[2].id
        PROVE  x[2].who = y[2].who /\ x[1] = y[1]
    <3>1. CASE r \in 1..n /\ s \in 1..n
      <4>1. x \in ShotsOf(r) /\ y \in ShotsOf(s)
          BY <1>4, <3>1
      <4> QED BY <1>2, <2>1, <3>1, <4>1 DEF PlanIInv, AnIdIsOneShot
    <3>2. CASE r = n + 1 /\ s \in 1..n
        BY <1>4, <1>9, <2>1, <3>2
    <3>3. CASE r \in 1..n /\ s = n + 1
        BY <1>4, <1>9, <2>1, <3>3
    <3>4. CASE r = n + 1 /\ s = n + 1
        BY <1>4, <2>1, <3>4 DEF IdsApart
    <3> QED BY <1>4, <3>1, <3>2, <3>3, <3>4
  <2>2. ASSUME NEW r \in 1..(n + 1), NEW x \in ShotsOf(r)', NEW s \in Scenes,
               written'[<<s, x[2].id>>] # NoPlan
        PROVE  s = x[1] /\ written'[<<s, x[2].id>>].who = x[2].who
    <3>1. CASE r \in 1..n
      <4>1. x \in ShotsOf(r)
          BY <1>4, <3>1
      <4> QED BY <1>2, <2>2, <3>1, <4>1 DEF PlanIInv, AnIdIsOneShot
    <3>2. CASE r = n + 1
        BY <1>4, <1>10, <2>2, <3>2
    <3> QED BY <1>4, <3>1, <3>2
  <2> QED BY <1>2, <2>1, <2>2 DEF AnIdIsOneShot
<1> QED BY <1>3, <1>6, <1>7, <1>8, <1>11 DEF PlanIInv

(* A fresh ID is one never used, and a given one that is kept is, too.     *)
LEMMA FreshIs ==
    ASSUME NEW scene, NEW given, NEW base, NEW added, NEW used, NEW ids, NEW id,
           given \notin KeptIds(base, added), FreshIdFor(scene, given, base, added, used, ids, id)
    PROVE  /\ id \notin used
           /\ id = given \/ (id[1] = scene /\ id \notin ids)
BY DEF FreshIdFor, IsFreshId

(* A scene said anew: the kept shots of a revision and at most one more.   *)
Anew(r, scene, kept, got) == [planLog[r].shots EXCEPT ![scene] = SceneShots(kept, got)]

SaidAnew(r, scene, kept, more, got) ==
    /\ NewestPlan < MaxPlans /\ r \in DOMAIN planLog /\ scene \in Scenes
    /\ kept \subseteq planLog[r].shots[scene]
    /\ more \in AtMostOne(Given) /\ got \in AtMostOne(ShotId)
    /\ Cardinality(got) = Cardinality(more)
    /\ planCount.added + Cardinality(more) <= MaxAdded
    /\ \A id \in got : id \notin UsedShotIds

Counted(n) == [planCount EXCEPT !.added = @ + n]

LEMMA SceneSaidAnew ==
    ASSUME PlanIInv, NEW r, NEW scene, NEW kept, NEW more, NEW got,
           SaidAnew(r, scene, kept, more, got)
    PROVE  /\ Anew(r, scene, kept, got) \in [Scenes -> SUBSET PlannedShot]
           /\ NewOrKept(Anew(r, scene, kept, got)) /\ IdsApart(Anew(r, scene, kept, got))
           /\ Counted(Cardinality(more)) \in PlanCounts
<1> USE DEF SaidAnew
<1>0. PICK all : all = Anew(r, scene, kept, got)
    OBVIOUS
<1>1. PICK base : base = planLog[r].shots
    OBVIOUS
<1>2. /\ base \in [Scenes -> SUBSET PlannedShot] /\ NewestPlan + 1 \in PlanRev
      /\ planCount \in PlanCounts
    BY <1>1, PlanLogIs, PlanAssumption DEF PlanIInv, PlanTypeOK, PlanRevision, PlanRev, PlanCounts
<1>3. /\ Cardinality(more) \in {0, 1} /\ Cardinality(got) = Cardinality(more)
      /\ got # {} => Cardinality(more) = 1
  <2>1. \A x : Cardinality({x}) = 1 /\ Cardinality({}) = 0
      BY FS_Singleton, FS_EmptySet
  <2> QED BY <2>1 DEF AtMostOne
<1>4. Counted(Cardinality(more)) \in PlanCounts
  <2>1. PICK m \in {0, 1} : m = Cardinality(more)
      BY <1>3
  <2>2. planCount.added + m \in 0..MaxAdded
      BY <1>2, <2>1, PlanAssumption DEF PlanCounts
  <2> QED BY <1>2, <2>1, <2>2 DEF PlanCounts, Counted
<1>5. PICK new : new = SceneShots(kept, got)
    OBVIOUS
<1>6. \A shot \in new : \/ \E old \in kept : shot = [old EXCEPT !.says = NewestPlan + 1]
                        \/ \E id \in got : shot = [id |-> id, who |-> planCount.added + 1,
                                                   says |-> NewestPlan + 1]
    BY <1>5 DEF SceneShots
<1>7. ASSUME NEW shot \in new
      PROVE  /\ shot \in PlannedShot
             /\ \/ shot.id \in got
                \/ \E old \in kept : shot = [old EXCEPT !.says = NewestPlan + 1]
                                     /\ shot.id = old.id /\ shot.who = old.who
  <2>1. ASSUME NEW old \in kept, shot = [old EXCEPT !.says = NewestPlan + 1]
        PROVE  shot \in PlannedShot /\ shot.id = old.id /\ shot.who = old.who
    <3>1. old \in PlannedShot
        BY <1>1, <1>2
    <3> QED BY <1>2, <2>1, <3>1 DEF PlannedShot
  <2>2. ASSUME NEW id \in got, shot = [id |-> id, who |-> planCount.added + 1,
                                       says |-> NewestPlan + 1]
        PROVE  shot \in PlannedShot /\ shot.id \in got
    <3>1. id \in ShotId
        BY DEF AtMostOne
    <3>2. planCount.added + 1 \in 1..MaxAdded
      <4>1. Cardinality(more) = 1
          BY <1>3, <2>2
      <4> QED BY <1>2, <4>1, PlanAssumption DEF PlanCounts
    <3> QED BY <1>2, <2>2, <3>1, <3>2 DEF PlannedShot
  <2> QED BY <1>6, <2>1, <2>2
<1>8. all \in [Scenes -> SUBSET PlannedShot] /\ all[scene] = new
      /\ \A s \in Scenes : s # scene => all[s] = base[s]
    BY <1>0, <1>1, <1>2, <1>5, <1>7 DEF Anew
<1>9. ASSUME NEW x \in Numbered(all)
      PROVE  /\ x[1] \in Scenes /\ x[2] \in all[x[1]] /\ x = <<x[1], x[2]>>
             /\ \/ x[1] = scene /\ x[2].id \in got /\ x[2].id \notin UsedShotIds
                   /\ x[2] = [id |-> x[2].id, who |-> planCount.added + 1,
                              says |-> NewestPlan + 1]
                \/ \E old : /\ <<x[1], old>> \in ShotsOf(r)
                            /\ old.id = x[2].id /\ old.who = x[2].who
                            /\ x[2] = IF x[1] = scene
                                      THEN [old EXCEPT !.says = NewestPlan + 1] ELSE old
  <2>0. PICK s \in Scenes : \E shot \in all[s] : x = <<s, shot>>
      BY <1>9, NumberedIs
  <2>1. PICK shot \in all[s] : x = <<s, shot>>
      BY <2>0
  <2>2. x[1] = s /\ x[2] = shot
      BY <2>1
  <2>3. CASE s # scene
    <3>1. <<s, shot>> \in ShotsOf(r)
        BY <1>1, <1>8, <2>1, <2>3, ShotsNumbered, NumberedIs
    <3> QED BY <2>1, <2>2, <2>3, <3>1
  <2>4. CASE s = scene
    <3>1. shot \in new
        BY <1>8, <2>1, <2>4
    <3>2. ASSUME NEW old \in kept, shot = [old EXCEPT !.says = NewestPlan + 1],
                 shot.id = old.id, shot.who = old.who
          PROVE  \E o : /\ <<x[1], o>> \in ShotsOf(r)
                        /\ o.id = x[2].id /\ o.who = x[2].who
                        /\ x[2] = IF x[1] = scene
                                  THEN [o EXCEPT !.says = NewestPlan + 1] ELSE o
      <4>1. <<scene, old>> \in ShotsOf(r)
          BY <1>1, ShotsNumbered, NumberedIs
      <4> QED BY <2>1, <2>2, <2>4, <3>2, <4>1
    <3>3. ASSUME NEW id \in got, shot = [id |-> id, who |-> planCount.added + 1,
                                         says |-> NewestPlan + 1]
          PROVE  /\ x[2].id \in got /\ x[2].id \notin UsedShotIds
                 /\ x[2] = [id |-> x[2].id, who |-> planCount.added + 1,
                            says |-> NewestPlan + 1]
        BY <2>2, <3>3
    <3>4. ASSUME NEW old \in kept, shot = [old EXCEPT !.says = NewestPlan + 1]
          PROVE  shot.id = old.id /\ shot.who = old.who
      <4>1. old \in PlannedShot
          BY <1>1, <1>2
      <4> QED BY <3>4, <4>1 DEF PlannedShot
    <3> QED BY <1>6, <2>1, <2>2, <2>4, <3>1, <3>2, <3>3, <3>4
  <2> QED BY <2>3, <2>4
<1>10. NewOrKept(all)
  <2>1. ASSUME NEW x \in Numbered(all), x[2].id \in UsedShotIds
        PROVE  \E y \in ShotsOf(r) : y[2].id = x[2].id /\ y[2].who = x[2].who /\ y[1] = x[1]
    <3>1. PICK old : /\ <<x[1], old>> \in ShotsOf(r)
                     /\ old.id = x[2].id /\ old.who = x[2].who
        BY <1>9, <2>1
    <3> QED BY <3>1
  <2> QED BY <2>1 DEF NewOrKept
<1>11. IdsApart(all)
  <2>1. ASSUME NEW x \in Numbered(all), NEW y \in Numbered(all), x[2].id = y[2].id
        PROVE  x = y
    <3>1. CASE x[2].id \in UsedShotIds
      <4>1. PICK o : /\ <<x[1], o>> \in ShotsOf(r) /\ o.id = x[2].id
                     /\ x[2] = IF x[1] = scene THEN [o EXCEPT !.says = NewestPlan + 1] ELSE o
          BY <1>9, <3>1
      <4>2. PICK q : /\ <<y[1], q>> \in ShotsOf(r) /\ q.id = y[2].id
                     /\ y[2] = IF y[1] = scene THEN [q EXCEPT !.says = NewestPlan + 1] ELSE q
          BY <1>9, <2>1, <3>1
      <4>3. <<x[1], o>> = <<y[1], q>>
        <5>1. PICK u : u = <<x[1], o>>
            OBVIOUS
        <5>2. PICK v : v = <<y[1], q>>
            OBVIOUS
        <5>3. u \in ShotsOf(r) /\ v \in ShotsOf(r) /\ u[2].id = v[2].id
            BY <2>1, <4>1, <4>2, <5>1, <5>2
        <5>4. u = v
            BY <5>3, ShotsNumbered DEF PlanIInv, IdsApart
        <5> QED BY <5>1, <5>2, <5>4
      <4>4. x[1] = y[1] /\ o = q
          BY <4>3
      <4>5. x[2] = y[2]
          BY <4>1, <4>2, <4>4
      <4> QED BY <1>9, <4>4, <4>5
    <3>2. CASE x[2].id \notin UsedShotIds
      <4>1. ASSUME NEW z \in Numbered(all), z[2].id = x[2].id
            PROVE  z[1] = scene /\ z[2] = [id |-> z[2].id, who |-> planCount.added + 1,
                                           says |-> NewestPlan + 1]
        <5>1. ASSUME NEW old, <<z[1], old>> \in ShotsOf(r), old.id = z[2].id PROVE FALSE
          <6>1. <<z[1], old>>[2].id = x[2].id
              BY <4>1, <5>1
          <6> QED BY <3>2, <5>1, <6>1, UsedIs
        <5> QED BY <1>9, <4>1, <5>1
      <4>2. x[1] = scene /\ x[2] = [id |-> x[2].id, who |-> planCount.added + 1,
                                    says |-> NewestPlan + 1]
          BY <4>1, Zenon
      <4>3. y[1] = scene /\ y[2] = [id |-> y[2].id, who |-> planCount.added + 1,
                                    says |-> NewestPlan + 1]
          BY <2>1, <4>1, Zenon
      <4>4. x[1] = y[1] /\ x[2] = y[2]
          BY <2>1, <4>2, <4>3, Zenon
      <4> QED BY <1>9, <4>4
    <3> QED BY <3>1, <3>2
  <2> QED BY <2>1 DEF IdsApart
<1> QED BY <1>0, <1>4, <1>8, <1>10, <1>11, Zenon

(* What the steps that add no revision leave of the log.                   *)
LEMMA LogStays ==
    ASSUME PlanIInv, PlanTypeOK', UNCHANGED <<planLog, written, writing, behind, planOpen>>,
           planJob' # NoPlan => writing = {} /\ planOpen /\ NewestPlan < MaxPlans
                                /\ planJob'.used = UsedShotIds
    PROVE  PlanIInv'
<1>1. UsedShotIds' = UsedShotIds /\ NewestPlan' = NewestPlan /\ LockedPlans' = LockedPlans
    BY DEF UsedShotIds, ShotsLocated, NewestPlan, LockedPlans
<1>2. \A r : ShotsOf(r)' = ShotsOf(r)
    BY DEF ShotsOf
<1>3. \A at : IsWritten(at)' = IsWritten(at)
    BY DEF IsWritten
<1>4. PlanSessionOK'
    BY <1>1, <1>2 DEF PlanIInv, PlanSessionOK
<1>5. OneLockedPlan' /\ PlayIsReached'
    BY <1>1, <1>2, <1>3 DEF PlanIInv, OneLockedPlan, PlayIsReached
<1>6. AnIdIsOneShot'
    BY <1>2 DEF PlanIInv, AnIdIsOneShot
<1>7. (\A r \in DOMAIN planLog : IdsApart(planLog[r].shots))'
    BY DEF PlanIInv, IdsApart, Numbered
<1> QED BY <1>4, <1>5, <1>6, <1>7 DEF PlanIInv

LEMMA AskingKeeps ==
    ASSUME PlanIInv, AskPlan \/ \E scene \in Scenes : AskReplan(scene)
    PROVE  PlanIInv'
<1>1. PICK scene \in Scenes \cup {NoPlan} : GatherPlan(scene)
    BY DEF AskPlan, AskReplan
<1>2. /\ PlansIdle /\ NewestPlan < MaxPlans
      /\ UNCHANGED <<planLog, script, bibleEntry, written, writing, behind, planOpen, planCount>>
    BY DEF AskPlan, AskReplan
<1>3. UsedShotIds \subseteq ShotId
  <2>1. ASSUME NEW id \in UsedShotIds PROVE id \in ShotId
    <3>1. ASSUME NEW r \in DOMAIN planLog, NEW x \in ShotsOf(r), x[2].id = id
          PROVE  id \in ShotId
      <4>1. planLog[r] \in PlanRevision
          BY PlanLogIs DEF PlanIInv, PlanTypeOK
      <4>2. x[2] \in PlannedShot
          BY <4>1, ShotsNumbered, ShotsOfRevision
      <4> QED BY <3>1, <4>2 DEF PlannedShot
    <3> QED BY <2>1, <3>1, UsedIs
  <2> QED BY <2>1
<1>4. planJob' \in PlanRequest /\ planJob'.used = UsedShotIds
    BY <1>1, <1>3 DEF GatherPlan, PlanRequest, PlanIInv, PlanTypeOK
<1>5. PlanTypeOK'
    BY <1>2, <1>4 DEF PlanIInv, PlanTypeOK
<1> QED BY <1>2, <1>4, <1>5, LogStays DEF PlansIdle

LEMMA RefusedKeeps ==
    ASSUME PlanIInv, PlanRefused
    PROVE  PlanIInv'
<1>1. /\ planJob' = NoPlan
      /\ UNCHANGED <<planLog, script, bibleEntry, written, writing, behind, planOpen, planCount>>
    BY DEF PlanRefused
<1>2. PlanTypeOK'
    BY <1>1 DEF PlanIInv, PlanTypeOK
<1> QED BY <1>1, <1>2, LogStays

LEMMA LockedAnewKeeps ==
    ASSUME PlanIInv, LockBible \/ \E s \in Scenes : LockScript(s)
    PROVE  PlanIInv'
<1>1. /\ planCount.changes < MaxChanges /\ planOpen /\ writing = {}
      /\ planCount' = [planCount EXCEPT !.changes = @ + 1]
      /\ UNCHANGED <<planLog, written, planJob, writing, behind, planOpen>>
    BY DEF LockBible, LockScript
<1>2. /\ planCount \in PlanCounts /\ planCount.changes \in 0..MaxChanges
      /\ script \in Texts /\ bibleEntry \in Change
    BY DEF PlanIInv, PlanTypeOK, PlanCounts
<1>3. planCount.changes + 2 \in Change /\ planCount.changes + 1 \in 0..MaxChanges
    BY <1>1, <1>2, PlanAssumption DEF Change
<1>4. planCount' \in PlanCounts
    BY <1>1, <1>2, <1>3 DEF PlanCounts
<1>5. script' \in Texts /\ bibleEntry' \in Change
  <2>1. CASE LockBible
      BY <1>2, <1>3, <2>1 DEF LockBible
  <2>2. ASSUME NEW s \in Scenes, LockScript(s) PROVE script' \in Texts /\ bibleEntry' \in Change
      BY <1>2, <1>3, <2>2 DEF LockScript, Texts
  <2> QED BY <2>1, <2>2
<1>6. PlanTypeOK'
    BY <1>1, <1>4, <1>5 DEF PlanIInv, PlanTypeOK, PlanCounts
<1> QED BY <1>1, <1>6, LogStays DEF PlanIInv, PlanSessionOK

LEMMA AddedTogether ==
    ASSUME NEW more \in AtMostOne(Given), NEW got \in AtMostOne(ShotId),
           Cardinality(got) = Cardinality(more), NEW id \in got
    PROVE  more # {}
<1>1. Cardinality({id}) = 1 /\ Cardinality({}) = 0
    BY FS_Singleton, FS_EmptySet
<1>2. got = {id}
    BY DEF AtMostOne
<1>3. ASSUME more = {} PROVE FALSE
  <2>1. Cardinality(got) = 1
      BY <1>1, <1>2
  <2>2. Cardinality(more) = 0
      BY <1>1, <1>3, Zenon
  <2>3. 1 = 0
      BY <2>1, <2>2, Zenon
  <2> QED BY <2>3
<1> QED BY <1>3

LEMMA SceneAnewKeeps ==
    ASSUME PlanIInv, writing = {}, NEW r, NEW scene, NEW kept, NEW more, NEW got,
           SaidAnew(r, scene, kept, more, got), ShotsAdded(Cardinality(more)), NEW rev,
           Anew(r, scene, kept, got) \in [Scenes -> SUBSET PlannedShot] => rev \in PlanRevision,
           rev.shots = Anew(r, scene, kept, got), rev.status = "candidate", NextPlan(rev),
           planJob' = NoPlan,
           UNCHANGED <<script, bibleEntry, written, writing, behind, planOpen>>
    PROVE  PlanIInv'
<1>1. /\ rev.shots \in [Scenes -> SUBSET PlannedShot]
      /\ NewOrKept(rev.shots) /\ IdsApart(rev.shots)
      /\ Counted(Cardinality(more)) \in PlanCounts
  <2>1. /\ Anew(r, scene, kept, got) \in [Scenes -> SUBSET PlannedShot]
        /\ NewOrKept(Anew(r, scene, kept, got)) /\ IdsApart(Anew(r, scene, kept, got))
        /\ Counted(Cardinality(more)) \in PlanCounts
      BY SceneSaidAnew, Zenon
  <2> QED BY <2>1, Zenon
<1>2. rev \in PlanRevision /\ NewestPlan < MaxPlans
    BY <1>1 DEF SaidAnew
<1>3. planCount' \in PlanCounts
    BY <1>1 DEF ShotsAdded, Counted
<1> QED BY <1>1, <1>2, <1>3, NextPlanKeeps, Zenon

LEMMA ReplanKeeps ==
    ASSUME PlanIInv, ReplanAnswered
    PROVE  PlanIInv'
<1>1. /\ planJob # NoPlan /\ planJob.scene # NoPlan /\ planJob' = NoPlan
      /\ UNCHANGED <<script, bibleEntry, written, writing, behind, planOpen>>
    BY DEF ReplanAnswered
<1>2. /\ writing = {} /\ planJob.used = UsedShotIds /\ NewestPlan < MaxPlans
      /\ planJob \in PlanRequest /\ planJob.scene \in Scenes
    BY <1>1 DEF PlanIInv, PlanTypeOK, PlanSessionOK, PlanRequest
<1>3. PICK scene : scene = planJob.scene
    OBVIOUS
<1>4. PICK r \in PlansInPlay, more \in AtMostOne(Given), got \in AtMostOne(ShotId) :
          /\ planCount.added + Cardinality(more) <= MaxAdded
          /\ more \cap IdsIn(planLog[r].shots) = {}
          /\ Cardinality(got) = Cardinality(more)
          /\ \A given \in more, id \in got :
                FreshIdFor(scene, given, planLog[r].shots, {}, planJob.used,
                           IdsIn(planLog[r].shots) \cup more, id)
          /\ \E kept \in SUBSET planLog[r].shots[scene] :
                NextPlan([shots |-> [planLog[r].shots EXCEPT ![scene] = SceneShots(kept, got)],
                          status |-> "candidate",
                          read |-> planJob.read, entry |-> planJob.entry, base |-> r,
                          from |-> [planLog[r].from EXCEPT ![scene] = planJob.read[scene]]])
          /\ ShotsAdded(Cardinality(more))
    BY <1>3, Zenon DEF ReplanAnswered
<1>5. PICK kept \in SUBSET planLog[r].shots[scene] :
          NextPlan([shots |-> [planLog[r].shots EXCEPT ![scene] = SceneShots(kept, got)],
                    status |-> "candidate",
                    read |-> planJob.read, entry |-> planJob.entry, base |-> r,
                    from |-> [planLog[r].from EXCEPT ![scene] = planJob.read[scene]]])
    BY <1>4, Zenon
<1>6. PICK shots : shots = Anew(r, scene, kept, got)
    OBVIOUS
<1>7. PICK from : from = [planLog[r].from EXCEPT ![scene] = planJob.read[scene]]
    OBVIOUS
<1>8. PICK rev : rev = [shots |-> shots, status |-> "candidate", read |-> planJob.read,
                        entry |-> planJob.entry, base |-> r, from |-> from]
    OBVIOUS
<1>9. r \in DOMAIN planLog /\ r \in 0..MaxPlans /\ planLog[r] \in PlanRevision
    BY PlanLogIs, PlanAssumption DEF PlansInPlay, PlanIInv, PlanTypeOK, NewestPlan
<1>10. shots \in [Scenes -> SUBSET PlannedShot] => rev \in PlanRevision
  <2>1. from \in Texts
      BY <1>2, <1>3, <1>7, <1>9 DEF PlanRevision, PlanRequest, Texts
  <2> QED BY <1>2, <1>8, <1>9, <2>1 DEF PlanRevision, PlanRequest
<1>11. ASSUME NEW id \in got PROVE id \notin UsedShotIds
  <2>1. PICK given \in more : TRUE
      BY <1>4, <1>11, AddedTogether
  <2>2. given \notin KeptIds(planLog[r].shots, {})
      BY <1>4 DEF KeptIds
  <2> QED BY <1>2, <1>4, <2>2, FreshIs
<1>12. NextPlan(rev)
    BY <1>5, <1>6, <1>7, <1>8, Zenon DEF Anew
<1>13. SaidAnew(r, scene, kept, more, got)
    BY <1>2, <1>3, <1>4, <1>9, <1>11 DEF SaidAnew
<1>14. rev.shots = shots /\ rev.status = "candidate"
    BY <1>8
<1> QED BY <1>1, <1>2, <1>4, <1>6, <1>10, <1>12, <1>13, <1>14, SceneAnewKeeps, Zenon

LEMMA EditKeeps ==
    ASSUME PlanIInv, NEW scene \in Scenes, EditScene(scene)
    PROVE  PlanIInv'
<1>1. /\ writing = {} /\ NewestPlan < MaxPlans /\ planJob' = NoPlan
      /\ UNCHANGED <<script, bibleEntry, written, writing, behind, planOpen>>
    BY DEF EditScene, PlansIdle
<1>2. PICK r \in PlansInPlay, more \in AtMostOne(Given), got \in AtMostOne(ShotId) :
          /\ planCount.added + Cardinality(more) <= MaxAdded
          /\ Cardinality(got) = Cardinality(more)
          /\ \E kept \in SUBSET planLog[r].shots[scene] :
                /\ \A given \in more, id \in got :
                      FreshIdFor(scene, given, planLog[r].shots, more, UsedShotIds,
                                 IdsIn([planLog[r].shots EXCEPT ![scene] = kept]) \cup more, id)
                /\ NextPlan([planLog[r] EXCEPT
                        !.shots = [planLog[r].shots EXCEPT ![scene] = SceneShots(kept, got)],
                        !.base = 0, !.status = "candidate"])
          /\ ShotsAdded(Cardinality(more))
    BY Zenon DEF EditScene
<1>3. PICK kept \in SUBSET planLog[r].shots[scene] :
          /\ \A given \in more, id \in got :
                FreshIdFor(scene, given, planLog[r].shots, more, UsedShotIds,
                           IdsIn([planLog[r].shots EXCEPT ![scene] = kept]) \cup more, id)
          /\ NextPlan([planLog[r] EXCEPT
                  !.shots = [planLog[r].shots EXCEPT ![scene] = SceneShots(kept, got)],
                  !.base = 0, !.status = "candidate"])
    BY <1>2, Zenon
<1>4. PICK shots : shots = Anew(r, scene, kept, got)
    OBVIOUS
<1>5. PICK rev : rev = [planLog[r] EXCEPT !.shots = shots, !.base = 0, !.status = "candidate"]
    OBVIOUS
<1>6. r \in DOMAIN planLog /\ planLog[r] \in PlanRevision /\ 0 \in 0..MaxPlans
    BY PlanLogIs, PlanAssumption DEF PlansInPlay, PlanIInv, PlanTypeOK
<1>7. /\ shots \in [Scenes -> SUBSET PlannedShot] => rev \in PlanRevision
      /\ rev.shots = shots /\ rev.status = "candidate"
    BY <1>5, <1>6 DEF PlanRevision
<1>8. ASSUME NEW id \in got PROVE id \notin UsedShotIds
  <2>1. PICK given \in more : TRUE
      BY <1>2, <1>8, AddedTogether
  <2>2. given \notin KeptIds(planLog[r].shots, more)
      BY DEF KeptIds
  <2>3. PICK ids : ids = IdsIn([planLog[r].shots EXCEPT ![scene] = kept]) \cup more
      OBVIOUS
  <2>4. FreshIdFor(scene, given, planLog[r].shots, more, UsedShotIds, ids, id)
      BY <1>3, <2>3, Zenon
  <2> QED BY <2>2, <2>4, FreshIs
<1>9. NextPlan(rev)
    BY <1>3, <1>4, <1>5, Zenon DEF Anew
<1>10. SaidAnew(r, scene, kept, more, got)
    BY <1>1, <1>2, <1>6, <1>8 DEF SaidAnew
<1> QED BY <1>1, <1>2, <1>4, <1>7, <1>9, <1>10, SceneAnewKeeps, Zenon

(* Distinct shots are counted: each of a finite set has a number.          *)
LEMMA CountedOnce ==
    ASSUME NEW S, IsFiniteSet(S)
    PROVE  /\ Cardinality(S) \in Nat
           /\ \E w \in [S -> 1..Cardinality(S)] : \A s, t \in S : w[s] = w[t] => s = t
<1>1. Cardinality(S) \in Nat /\ ExistsBijection(1..Cardinality(S), S)
    BY FS_CardinalityType
<1>2. PICK f \in [1..Cardinality(S) -> S] : \A s \in S : \E i \in 1..Cardinality(S) : f[i] = s
    BY <1>1 DEF ExistsBijection, Bijection, Injection, Surjection
<1>3. PICK w : w = [s \in S |-> CHOOSE i \in 1..Cardinality(S) : f[i] = s]
    OBVIOUS
<1>4. \A s \in S : w[s] \in 1..Cardinality(S) /\ f[w[s]] = s
    BY <1>2, <1>3
<1>5. w \in [S -> 1..Cardinality(S)]
    BY <1>3, <1>4
<1> QED BY <1>1, <1>4, <1>5

LEMMA AnsweredKeeps ==
    ASSUME PlanIInv, PlanAnswered
    PROVE  PlanIInv'
<1>1. /\ planJob # NoPlan /\ planJob.scene = NoPlan /\ planJob' = NoPlan
      /\ UNCHANGED <<script, bibleEntry, written, writing, behind, planOpen>>
    BY DEF PlanAnswered
<1>2. /\ writing = {} /\ planJob.used = UsedShotIds /\ NewestPlan < MaxPlans
      /\ planJob \in PlanRequest /\ planCount \in PlanCounts
    BY <1>1 DEF PlanIInv, PlanTypeOK, PlanSessionOK, PlanCounts
<1> DEFINE scenes == ScenesOf(planJob.read)
           who == CHOOSE w \in [scenes -> 1..Cardinality(scenes)] :
                      \A s, t \in scenes : w[s] = w[t] => s = t
           n == Cardinality(scenes)
           ids(given) == {given[t] : t \in scenes}
           shots(id) == [s \in Scenes |->
                            IF s \in scenes
                            THEN {[id |-> id[s], who |-> planCount.added + who[s],
                                   says |-> NewestPlan + 1]}
                            ELSE {}]
<1>6. PICK given \in [scenes -> Given], id \in [scenes -> ShotId] :
          /\ planCount.added + n <= MaxAdded
          /\ \A s, t \in scenes : given[s] = given[t] => s = t
          /\ \A s \in scenes :
                FreshIdFor(s, given[s], [t \in Scenes |-> {}], {}, planJob.used,
                           ids(given), id[s])
          /\ NextPlan([shots |-> shots(id), status |-> "candidate", read |-> planJob.read,
                       entry |-> planJob.entry, base |-> 0, from |-> planJob.read])
          /\ planCount' = [planCount EXCEPT !.added = planCount.added + n]
    BY Zenon DEF PlanAnswered
<1>7. \A s \in Scenes : shots(id)[s] = IF s \in scenes
                                       THEN {[id |-> id[s], who |-> planCount.added + who[s],
                                              says |-> NewestPlan + 1]}
                                       ELSE {}
    OBVIOUS
<1>8. PICK rev : rev = [shots |-> shots(id), status |-> "candidate", read |-> planJob.read,
                        entry |-> planJob.entry, base |-> 0, from |-> planJob.read]
    OBVIOUS
<1>9. NextPlan(rev)
    BY <1>6, <1>8, Zenon
<1>10. scenes \subseteq Scenes /\ IsFiniteSet(scenes)
    BY PlanAssumption, FS_Subset DEF ScenesOf
<1>11. n \in Nat /\ \A s \in scenes : who[s] \in 1..n
  <2>1. \E w \in [scenes -> 1..n] : \A s, t \in scenes : w[s] = w[t] => s = t
      BY <1>10, CountedOnce
  <2>2. who \in [scenes -> 1..n]
      BY <2>1
  <2>3. n \in Nat
      BY <1>10, CountedOnce
  <2> HIDE DEF who, n, scenes
  <2> QED BY <2>2, <2>3
<1> HIDE DEF who, n, scenes
<1>12. ASSUME NEW s \in scenes
       PROVE  [id |-> id[s], who |-> planCount.added + who[s], says |-> NewestPlan + 1]
                  \in PlannedShot
  <2>1. PICK w : w = who[s] /\ w \in 1..n
      BY <1>11
  <2>2. planCount.added + w \in 1..MaxAdded
      BY <1>2, <1>6, <1>11, <2>1, PlanAssumption DEF PlanCounts
  <2>3. NewestPlan + 1 \in PlanRev
      BY <1>2, PlanLogIs, PlanAssumption DEF PlanIInv, PlanTypeOK, PlanRev
  <2> QED BY <2>1, <2>2, <2>3 DEF PlannedShot
<1>13. shots(id) \in [Scenes -> SUBSET PlannedShot]
  <2>1. \A s \in Scenes : shots(id)[s] \in SUBSET PlannedShot
      BY <1>7, <1>12
  <2> QED BY <1>7, <2>1
<1>14. rev \in PlanRevision /\ rev.shots = shots(id) /\ rev.status = "candidate"
  <2>1. 0 \in 0..MaxPlans
      BY PlanAssumption
  <2> QED BY <1>2, <1>8, <1>13, <2>1 DEF PlanRevision, PlanRequest
<1>15. planCount' \in PlanCounts
  <2>1. planCount.added + n \in 0..MaxAdded
      BY <1>2, <1>6, <1>11, PlanAssumption DEF PlanCounts
  <2> QED BY <1>2, <1>6, <2>1 DEF PlanCounts
<1> HIDE DEF shots
<1>16. ASSUME NEW s \in scenes
       PROVE  /\ id[s] \notin UsedShotIds
              /\ id[s] = given[s] \/ (id[s][1] = s /\ id[s] \notin ids(given))
  <2>1. PICK none : none = [t \in Scenes |-> {}]
      OBVIOUS
  <2>2. given[s] \notin KeptIds(none, {})
      BY <2>1 DEF KeptIds, IdsIn, ShotsIn
  <2>3. FreshIdFor(s, given[s], none, {}, planJob.used, ids(given), id[s])
      BY <1>6, <2>1, Zenon
  <2> QED BY <1>2, <2>2, <2>3, FreshIs
<1>17. ASSUME NEW s \in scenes, NEW t \in scenes, id[s] = id[t] PROVE s = t
  <2>1. given[s] \in ids(given) /\ given[t] \in ids(given)
      OBVIOUS
  <2>2. given[s] = given[t] => s = t
      BY <1>6
  <2> QED BY <1>16, <1>17, <2>1, <2>2
<1>18. ASSUME NEW x \in Numbered(shots(id))
       PROVE  /\ x[1] \in scenes /\ x[2].id = id[x[1]]
              /\ x = <<x[1], [id |-> id[x[1]], who |-> planCount.added + who[x[1]],
                             says |-> NewestPlan + 1]>>
  <2>1. PICK s \in Scenes : \E shot \in shots(id)[s] : x = <<s, shot>>
      BY <1>18, NumberedIs
  <2>2. PICK shot \in shots(id)[s] : x = <<s, shot>>
      BY <2>1
  <2>3. s \in scenes /\ shot = [id |-> id[s], who |-> planCount.added + who[s],
                                says |-> NewestPlan + 1]
      BY <1>7, <2>2
  <2> QED BY <2>2, <2>3
<1>19. NewOrKept(rev.shots)
    BY <1>14, <1>16, <1>18 DEF NewOrKept
<1>20. IdsApart(rev.shots)
  <2>1. ASSUME NEW x \in Numbered(shots(id)), NEW y \in Numbered(shots(id)), x[2].id = y[2].id
        PROVE  x = y
    <3>1. x[1] = y[1]
        BY <1>17, <1>18, <2>1
    <3>2. PICK s : s = x[1] /\ s = y[1]
        BY <3>1
    <3>3. PICK shot : shot = [id |-> id[s], who |-> planCount.added + who[s],
                              says |-> NewestPlan + 1]
        OBVIOUS
    <3>4. x = <<s, shot>> /\ y = <<s, shot>>
        BY <1>18, <3>2, <3>3, Zenon
    <3> QED BY <3>4
  <2> QED BY <1>14, <2>1 DEF IdsApart
<1> QED BY <1>1, <1>2, <1>9, <1>14, <1>15, <1>19, <1>20, NextPlanKeeps, Zenon

(* Locking a revision: the shots of the one locked plan are to be written. *)
LEMMA LockRevisionKeeps ==
    ASSUME PlanIInv, NEW r, LockPlanRevision(r)
    PROVE  PlanIInv'
<1>1. /\ planOpen /\ planJob = NoPlan /\ writing = {} /\ r \in DOMAIN planLog
      /\ planLog' = IF r \in LockedPlans THEN planLog
                    ELSE [s \in DOMAIN planLog |-> [planLog[s] EXCEPT
                             !.status = IF s = r THEN "locked" ELSE "superseded"]]
      /\ writing' = ShotsOf(r)
      /\ UNCHANGED <<script, bibleEntry, written, planJob, behind, planOpen, planCount>>
    BY DEF LockPlanRevision, PlansIdle, PlansInPlay
<1>2. PICK n \in Nat : n = NewestPlan /\ n = Len(planLog) /\ n <= MaxPlans
    BY PlanLogIs DEF PlanIInv, PlanTypeOK, NewestPlan
<1>3. DOMAIN planLog = 1..n /\ \A s \in 1..n : planLog[s] \in PlanRevision
    BY <1>2, PlanLogIs DEF PlanIInv, PlanTypeOK
<1>4. /\ planLog' \in Seq(PlanRevision) /\ Len(planLog') = n /\ DOMAIN planLog' = 1..n
      /\ \A s \in 1..n : planLog'[s].shots = planLog[s].shots
      /\ LockedPlans' = {r}
  <2>1. CASE r \in LockedPlans
    <3>1. planLog' = planLog
        BY <1>1, <2>1
    <3>2. LockedPlans = {r}
        BY <2>1 DEF PlanIInv, OneLockedPlan
    <3> QED BY <1>2, <1>3, <3>1, <3>2 DEF PlanIInv, PlanTypeOK, LockedPlans
  <2>2. CASE r \notin LockedPlans
    <3>1. planLog' = [s \in 1..n |-> [planLog[s] EXCEPT
                         !.status = IF s = r THEN "locked" ELSE "superseded"]]
        BY <1>1, <1>3, <2>2
    <3>2. ASSUME NEW s \in 1..n
          PROVE  /\ planLog'[s] \in PlanRevision /\ planLog'[s].shots = planLog[s].shots
                 /\ planLog'[s].status = "locked" <=> s = r
      <4>1. planLog'[s] = [planLog[s] EXCEPT !.status = IF s = r THEN "locked" ELSE "superseded"]
          BY <3>1
      <4>2. planLog[s] \in PlanRevision
          BY <1>3
      <4> QED BY <4>1, <4>2 DEF PlanRevision
    <3>3. planLog' \in [1..n -> PlanRevision]
        BY <3>1, <3>2
    <3>4. planLog' \in Seq(PlanRevision) /\ Len(planLog') = n /\ DOMAIN planLog' = 1..n
        BY <1>2, <3>3, SeqDef, LenProperties
    <3>5. LockedPlans' = {r}
        BY <1>1, <1>3, <3>2, <3>4 DEF LockedPlans
    <3> QED BY <3>2, <3>4, <3>5
  <2> QED BY <2>1, <2>2
<1>5. \A s \in 1..n : ShotsOf(s)' = ShotsOf(s)
    BY <1>4 DEF ShotsOf
<1>6. writing' \subseteq Scenes \X PlannedShot
  <2>1. ASSUME NEW x \in ShotsOf(r) PROVE x \in Scenes \X PlannedShot
    <3>1. planLog[r] \in PlanRevision
        BY <1>1, <1>3
    <3>2. x[1] \in Scenes /\ x[2] \in PlannedShot /\ x = <<x[1], x[2]>>
        BY <2>1, <3>1, ShotsNumbered, ShotsOfRevision
    <3> QED BY <3>2
  <2> QED BY <1>1, <2>1
<1>7. PlanTypeOK'
    BY <1>1, <1>2, <1>4, <1>6 DEF PlanIInv, PlanTypeOK
<1>8. writing' = ShotsOf(r)'
    BY <1>1, <1>3, <1>5
<1>9. PlanSessionOK'
    BY <1>1, <1>4, <1>8 DEF PlanSessionOK
<1>10. OneLockedPlan' /\ PlayIsReached'
    BY <1>4, <1>8 DEF OneLockedPlan, PlayIsReached
<1>11. AnIdIsOneShot'
    BY <1>1, <1>3, <1>4, <1>5 DEF PlanIInv, AnIdIsOneShot
<1>12. (\A s \in DOMAIN planLog : IdsApart(planLog[s].shots))'
    BY <1>3, <1>4 DEF PlanIInv
<1> QED BY <1>7, <1>9, <1>10, <1>11, <1>12 DEF PlanIInv

(* A shot of the locked plan is written under its ID.                      *)
LEMMA WriteShotKeeps ==
    ASSUME PlanIInv, WriteShot
    PROVE  PlanIInv'
<1>1. PICK next : next = CHOOSE shot \in writing : TRUE
    OBVIOUS
<1>2. PICK at : at = <<next[1], next[2].id>>
    OBVIOUS
<1>3. /\ writing # {} /\ next \in writing
      /\ written' = [written EXCEPT ![at] = Merged(at, next[2])]
      /\ writing' = writing \ {next} /\ behind' = (behind /\ writing # {next})
      /\ UNCHANGED <<planLog, script, bibleEntry, planJob, planOpen, planCount>>
    BY <1>1, <1>2 DEF WriteShot
<1>4. planOpen /\ planJob = NoPlan
    BY <1>3 DEF PlanIInv, PlanSessionOK
<1>5. PICK r \in LockedPlans : writing \subseteq ShotsOf(r)
    BY <1>3 DEF PlanIInv, PlanSessionOK
<1>6. /\ r \in DOMAIN planLog /\ next \in ShotsOf(r) /\ planLog[r] \in PlanRevision
      /\ next[1] \in Scenes /\ next[2] \in PlannedShot /\ next = <<next[1], next[2]>>
      /\ \A s \in LockedPlans : s = r
  <2>1. r \in DOMAIN planLog /\ next \in ShotsOf(r) /\ planLog[r] \in PlanRevision
      BY <1>3, <1>5, PlanLogIs DEF LockedPlans, PlanIInv, PlanTypeOK
  <2>2. next[1] \in Scenes /\ next[2] \in PlannedShot /\ next = <<next[1], next[2]>>
      BY <2>1, ShotsNumbered, ShotsOfRevision
  <2> QED BY <2>1, <2>2 DEF PlanIInv, OneLockedPlan
<1>7. at \in Scenes \X ShotId
    BY <1>2, <1>6 DEF PlannedShot
<1>8. /\ DOMAIN written = Scenes \X ShotId
      /\ written \in [Scenes \X ShotId -> WrittenShot \cup {NoPlan}]
    BY DEF PlanIInv, PlanTypeOK
<1>9. Merged(at, next[2]) = [who |-> next[2].who, says |-> next[2].says]
  <2>1. CASE written[at] = NoPlan
      BY <2>1 DEF Merged
  <2>2. CASE written[at] # NoPlan
    <3>1. written[<<next[1], next[2].id>>].who = next[2].who
        BY <1>2, <1>6, <2>2 DEF PlanIInv, AnIdIsOneShot
    <3> QED BY <1>2, <2>2, <3>1 DEF Merged
  <2> QED BY <2>1, <2>2
<1>10. [who |-> next[2].who, says |-> next[2].says] \in WrittenShot
    BY <1>6, PlanAssumption DEF PlannedShot, WrittenShot, PlanRev
<1>11. /\ written' \in [Scenes \X ShotId -> WrittenShot \cup {NoPlan}]
       /\ written'[at] = [who |-> next[2].who, says |-> next[2].says] /\ written'[at] # NoPlan
       /\ \A other \in Scenes \X ShotId : other # at => written'[other] = written[other]
    BY <1>3, <1>7, <1>8, <1>9, <1>10, PlanAssumption
<1>12. PlanTypeOK'
    BY <1>3, <1>11 DEF PlanIInv, PlanTypeOK
<1>13. LockedPlans' = LockedPlans /\ \A s : ShotsOf(s)' = ShotsOf(s)
    BY <1>3 DEF LockedPlans, ShotsOf
<1>14. PlanSessionOK'
    BY <1>3, <1>4, <1>5, <1>13 DEF PlanSessionOK
<1>15. \A x \in ShotsOf(r) : x[2].id = next[2].id => x = next
    BY <1>6, ShotsNumbered DEF PlanIInv, IdsApart
<1>16. ASSUME NEW x \in ShotsOf(r), x \in writing \/ IsWritten(x)
       PROVE  x \in writing' \/ IsWritten(x)'
  <2>1. x[1] \in Scenes /\ x[2].id \in ShotId /\ x = <<x[1], x[2]>>
      BY <1>6, <1>16, ShotsNumbered, ShotsOfRevision DEF PlannedShot
  <2>2. CASE x = next
    <3>1. written'[<<x[1], x[2].id>>] = [who |-> x[2].who, says |-> x[2].says]
        BY <1>2, <1>11, <2>2
    <3> QED BY <3>1 DEF IsWritten
  <2>3. CASE x # next
    <3>1. <<x[1], x[2].id>> # at
        BY <1>2, <1>15, <1>16, <2>3
    <3>2. written'[<<x[1], x[2].id>>] = written[<<x[1], x[2].id>>]
        BY <1>11, <2>1, <3>1
    <3> QED BY <1>3, <1>16, <2>3, <3>2 DEF IsWritten
  <2> QED BY <2>2, <2>3
<1>17. PlayIsReached'
  <2>1. \A s \in LockedPlans : \A x \in ShotsOf(s) : x \in writing \/ IsWritten(x)
      BY <1>3, <1>4 DEF PlanIInv, PlayIsReached
  <2> QED BY <1>5, <1>6, <1>13, <1>16, <2>1 DEF PlayIsReached
<1>18. OneLockedPlan' /\ (\A s \in DOMAIN planLog : IdsApart(planLog[s].shots))'
    BY <1>3, <1>13 DEF PlanIInv, OneLockedPlan, IdsApart, Numbered
<1>19. AnIdIsOneShot'
  <2>1. ASSUME NEW s \in DOMAIN planLog, NEW x \in ShotsOf(s), NEW scene \in Scenes,
               written'[<<scene, x[2].id>>] # NoPlan
        PROVE  scene = x[1] /\ written'[<<scene, x[2].id>>].who = x[2].who
    <3>1. x[1] \in Scenes /\ x[2].id \in ShotId
      <4>1. planLog[s] \in PlanRevision
          BY PlanLogIs DEF PlanIInv, PlanTypeOK
      <4> QED BY <4>1, ShotsNumbered, ShotsOfRevision DEF PlannedShot
    <3>2. CASE <<scene, x[2].id>> = at
      <4>1. scene = next[1] /\ x[2].id = next[2].id
          BY <1>2, <3>2
      <4>2. x[2].who = next[2].who /\ x[1] = next[1]
          BY <1>6, <4>1 DEF PlanIInv, AnIdIsOneShot
      <4> QED BY <1>11, <3>2, <4>1, <4>2
    <3>3. CASE <<scene, x[2].id>> # at
      <4>1. written'[<<scene, x[2].id>>] = written[<<scene, x[2].id>>]
          BY <1>11, <3>1, <3>3
      <4> QED BY <2>1, <4>1 DEF PlanIInv, AnIdIsOneShot
    <3> QED BY <3>2, <3>3
  <2> QED BY <1>3, <1>13, <2>1 DEF PlanIInv, AnIdIsOneShot
<1> QED BY <1>12, <1>14, <1>17, <1>18, <1>19 DEF PlanIInv

(* What ends or begins writing leaves what is written.                     *)
LEMMA WritingEndsKeeps ==
    ASSUME PlanIInv, WritingFails \/ StopPlans \/ OpenPlans
    PROVE  PlanIInv'
<1>1. UNCHANGED <<planLog, script, bibleEntry, written>> /\ planJob' = NoPlan
    BY DEF WritingFails, StopPlans, OpenPlans, PlanIInv, PlanSessionOK
<1>2. LockedPlans' = LockedPlans /\ \A s : ShotsOf(s)' = ShotsOf(s)
    BY <1>1 DEF LockedPlans, ShotsOf
<1>3. OneLockedPlan' /\ AnIdIsOneShot' /\ (\A s \in DOMAIN planLog : IdsApart(planLog[s].shots))'
    BY <1>1, <1>2 DEF PlanIInv, OneLockedPlan, AnIdIsOneShot, IdsApart, Numbered
<1>4. ASSUME NEW r \in LockedPlans PROVE ShotsOf(r) \subseteq Scenes \X PlannedShot
  <2>1. planLog[r] \in PlanRevision
      BY PlanLogIs DEF PlanIInv, PlanTypeOK, LockedPlans
  <2>2. ASSUME NEW x \in ShotsOf(r) PROVE x \in Scenes \X PlannedShot
    <3>1. x[1] \in Scenes /\ x[2] \in PlannedShot /\ x = <<x[1], x[2]>>
        BY <2>1, <2>2, ShotsNumbered, ShotsOfRevision
    <3> QED BY <3>1
  <2> QED BY <2>2
<1>5. CASE WritingFails
  <2>1. /\ writing' = {} /\ behind' = TRUE /\ UNCHANGED <<planOpen, planCount, planJob>>
        /\ planOpen
      BY <1>5 DEF WritingFails, PlanIInv, PlanSessionOK
  <2>2. PlanTypeOK'
      BY <1>1, <2>1 DEF PlanIInv, PlanTypeOK
  <2> QED BY <1>1, <1>3, <2>1, <2>2 DEF PlanIInv, PlanSessionOK, PlayIsReached
<1>6. CASE StopPlans
  <2>1. /\ writing' = {} /\ planOpen' = FALSE /\ UNCHANGED behind
        /\ planCount.stops < MaxPlanStops
        /\ planCount' = [planCount EXCEPT !.stops = @ + 1]
      BY <1>6 DEF StopPlans
  <2>2. planCount' \in PlanCounts
    <3>1. planCount \in PlanCounts
        BY DEF PlanIInv, PlanTypeOK, PlanCounts
    <3>2. planCount.stops + 1 \in 0..MaxPlanStops
        BY <2>1, <3>1, PlanAssumption DEF PlanCounts
    <3> QED BY <2>1, <3>1, <3>2 DEF PlanCounts
  <2>3. PlanTypeOK'
      BY <1>1, <2>1, <2>2 DEF PlanIInv, PlanTypeOK, PlanCounts
  <2> QED BY <1>1, <1>3, <2>1, <2>3 DEF PlanIInv, PlanSessionOK, PlayIsReached
<1>7. CASE OpenPlans
  <2>1. /\ writing' = UNION {ShotsOf(r) : r \in LockedPlans} /\ planOpen' = TRUE
        /\ UNCHANGED <<behind, planCount>>
      BY <1>7 DEF OpenPlans
  <2>2. \A r \in LockedPlans : writing' = ShotsOf(r)
      BY <2>1 DEF PlanIInv, OneLockedPlan
  <2>3. writing' # {} => \E r \in LockedPlans : TRUE
      BY <2>1
  <2>4. writing' \subseteq Scenes \X PlannedShot
      BY <1>4, <2>2, <2>3
  <2>5. PlanTypeOK'
      BY <1>1, <2>1, <2>4 DEF PlanIInv, PlanTypeOK
  <2>6. PlanSessionOK'
      BY <1>1, <1>2, <2>1, <2>2, <2>3 DEF PlanSessionOK
  <2>7. PlayIsReached'
      BY <1>2, <2>2 DEF PlayIsReached
  <2> QED BY <1>3, <2>5, <2>6, <2>7 DEF PlanIInv
<1> QED BY <1>5, <1>6, <1>7

LEMMA PlanStart ==
    ASSUME PlanInit
    PROVE  PlanIInv
<1>1. /\ planLog = <<>> /\ planJob = NoPlan /\ writing = {} /\ planOpen = TRUE /\ behind = FALSE
      /\ script = [s \in Scenes |-> 1] /\ bibleEntry = 1
      /\ planCount = [added |-> 0, changes |-> 0, stops |-> 0]
      /\ written = [at \in Scenes \X ShotId |->
                       IF at = <<BootScene, <<BootScene, 1>>>> THEN [who |-> 0, says |-> 0]
                       ELSE NoPlan]
    BY DEF PlanInit
<1>2. planLog \in Seq(PlanRevision) /\ Len(planLog) = 0 /\ DOMAIN planLog = {}
    BY <1>1, EmptySeq
<1>3. written \in [Scenes \X ShotId -> WrittenShot \cup {NoPlan}]
  <2>1. [who |-> 0, says |-> 0] \in WrittenShot
      BY PlanAssumption DEF WrittenShot
  <2> QED BY <1>1, <2>1
<1>4. PlanTypeOK
  <2>1. 1 \in Change /\ script \in Texts
      BY <1>1, PlanAssumption DEF Change, Texts
  <2>2. planCount \in [added: 0..MaxAdded, changes: 0..MaxChanges, stops: 0..MaxPlanStops]
      BY <1>1, PlanAssumption
  <2>3. Len(planLog) <= MaxPlans
      BY <1>2, PlanAssumption
  <2> QED BY <1>1, <1>2, <1>3, <2>1, <2>2, <2>3 DEF PlanTypeOK
<1>5. LockedPlans = {}
    BY <1>2 DEF LockedPlans
<1>6. PlanSessionOK /\ AnIdIsOneShot /\ OneLockedPlan /\ PlayIsReached
    BY <1>1, <1>2, <1>5 DEF PlanSessionOK, AnIdIsOneShot, OneLockedPlan, PlayIsReached
<1> QED BY <1>2, <1>4, <1>6 DEF PlanIInv

LEMMA PlanStepKeeps ==
    ASSUME PlanIInv, [PlanNext]_planVars
    PROVE  PlanIInv'
<1>1. CASE UNCHANGED planVars
    BY <1>1, LogStays DEF planVars, PlanIInv, PlanTypeOK, PlanSessionOK
<1>2. CASE PlanNext
  <2>1. ASSUME NEW s \in Scenes, AskReplan(s) \/ EditScene(s) \/ LockScript(s)
        PROVE  PlanIInv'
      BY <2>1, AskingKeeps, EditKeeps, LockedAnewKeeps
  <2>2. ASSUME NEW r \in PlanRev, LockPlanRevision(r)
        PROVE  PlanIInv'
      BY <2>2, LockRevisionKeeps
  <2> QED BY <1>2, <2>1, <2>2, AskingKeeps, AnsweredKeeps, ReplanKeeps, RefusedKeeps,
             LockedAnewKeeps, WriteShotKeeps, WritingEndsKeeps, Zenon DEF PlanNext
<1> QED BY <1>1, <1>2

(* The invariant of the plan, with the types: what is awaited and written  *)
(* belongs to the session, each revision has an ID once, at most one       *)
(* revision is locked, and its shots are written or about to be            *)
(* (shot_plan.rs of both crates).                                          *)
THEOREM PlanInvariance == PlanSpec => []PlanIInv
<1>1. PlanInit => PlanIInv
    BY PlanStart
<1>2. PlanIInv /\ [PlanNext]_planVars => PlanIInv'
    BY PlanStepKeeps
<1> QED BY <1>1, <1>2, PTL DEF PlanSpec

(* The log, the written shots and the requests keep their types.           *)
THEOREM PlanTypeCorrect == PlanSpec => []PlanTypeOK
<1>1. PlanIInv => PlanTypeOK
    BY DEF PlanIInv
<1> QED BY <1>1, PlanInvariance, PTL

(* Over every revision and every shot written one ID is one shot in one    *)
(* scene: fresh_ids gives none that was ever used (shot_plan.rs).          *)
THEOREM IdsAreForever == PlanSpec => []AnIdIsOneShot
<1>1. PlanIInv => AnIdIsOneShot
    BY DEF PlanIInv
<1> QED BY <1>1, PlanInvariance, PTL

(* Whenever no write has failed since, what is written of the shots in     *)
(* play is what the locked revision says (materialize, find_shots).        *)
THEOREM PlayFollowsThePlan == PlanSpec => []PlayIsWritten
<1>1. PlanIInv => PlayIsWritten
    BY DEF PlanIInv, PlayIsReached, PlayIsWritten, IsWritten
<1> QED BY <1>1, PlanInvariance, PTL

-----------------------------------------------------------------------------
(* What the director makes, locks and lets go.                             *)

(* The items of S and what the log says each of them was made from.        *)
Above(log, S) ==
    S \cup UNION {IF i[1] \in DOMAIN MadeFrom THEN {<<MadeFrom[i[1]], log[i[1]][i[2]].from>>}
                  ELSE {} : i \in S}

LockedFreshly == {l \in LockedMedia : l[1] \in {"voice", "line"}}

NeededFresh == Above(made, Above(made, LockedFreshly))

(* The logs and the locks: what anything was made from is in its log, what *)
(* was let go was rejected, what is locked is kept, and so is what a voice *)
(* or a line that is locked was made from, down to the portrait.           *)
LogsOK ==
    /\ made \in [Kinds -> Seq(MadeRecord)] /\ mediaLock \in [Kinds -> Nat]
    /\ \A k \in Kinds : Len(made[k]) <= MaxMade[k] /\ mediaLock[k] <= Len(made[k])
    /\ \A i \in Recorded :
          /\ i[1] \in DOMAIN MadeFrom => RecordOf(i).from \in DOMAIN made[MadeFrom[i[1]]]
          /\ ~RecordOf(i).kept => RecordOf(i).status = "rejected"
    /\ \A i \in LockedMedia : RecordOf(i).kept
    /\ \A i \in NeededFresh : i[1] # "style" => RecordOf(i).kept

(* A request has a number left to take, and what it is made from is there. *)
MakingOK ==
    \A k \in Kinds : making[k] # NoMedia =>
        /\ Len(made[k]) < MaxMade[k]
        /\ k \in DOMAIN MadeFrom => making[k] \in DOMAIN made[MadeFrom[k]]

(* A collection runs alone; what it has still to mark is rejected and not  *)
(* pinned, what it has still to remove is marked, and nobody has changed   *)
(* the file of either.                                                     *)
LettingOK ==
    /\ letting # NoneLeft => mediaOpen /\ \A k \in Kinds : making[k] = NoMedia
    /\ \A i \in letting.mark :
          /\ i \in Recorded \ Pinned /\ mediaFile[i] = "own"
          /\ RecordOf(i).kept /\ RecordOf(i).status = "rejected"
    /\ \A i \in letting.remove : i \in Recorded /\ ~RecordOf(i).kept /\ mediaFile[i] = "own"

KeptHaveFiles == \A i \in Recorded \ meddled : RecordOf(i).kept => mediaFile[i] = "own"

MediaIInv ==
    /\ MediaTypeOK /\ LogsOK /\ MakingOK /\ LettingOK
    /\ KeptHaveFiles /\ meddled \subseteq Recorded

LEMMA KindsAre ==
    /\ Kinds = {"style", "cast", "voice", "line"}
    /\ DOMAIN MadeFrom = {"cast", "voice", "line"}
    /\ MadeFrom["cast"] = "style" /\ MadeFrom["voice"] = "cast" /\ MadeFrom["line"] = "voice"
    /\ \A k \in DOMAIN MadeFrom : k \in Kinds /\ MadeFrom[k] \in Kinds /\ MadeFrom[k] # k
BY DEF Kinds, MadeFrom

LEMMA MediaAre ==
    \A i : i \in Media <=> \E k \in Kinds : \E n \in 1..MaxMade[k] : i = <<k, n>>
BY DEF Media

LEMMA AboveIs ==
    ASSUME NEW log, NEW S, NEW x
    PROVE  x \in Above(log, S) <=>
              \/ x \in S
              \/ \E i \in S : i[1] \in DOMAIN MadeFrom /\ x = <<MadeFrom[i[1]], log[i[1]][i[2]].from>>
BY DEF Above

LEMMA AboveEach ==
    ASSUME NEW log, NEW S, NEW x
    PROVE  x \in Above(log, S) <=> \E z \in S : x \in Above(log, {z})
<1>1. ASSUME NEW z
      PROVE  x \in Above(log, {z}) <=>
                \/ x = z
                \/ z[1] \in DOMAIN MadeFrom /\ x = <<MadeFrom[z[1]], log[z[1]][z[2]].from>>
  <2>1. \A y : y \in {z} <=> y = z
      OBVIOUS
  <2> QED BY <2>1, AboveIs
<1>2. x \in Above(log, S) <=>
          \/ x \in S
          \/ \E i \in S : i[1] \in DOMAIN MadeFrom /\ x = <<MadeFrom[i[1]], log[i[1]][i[2]].from>>
    BY AboveIs
<1> QED BY <1>1, <1>2, Zenon

LEMMA AboveStays ==
    ASSUME NEW log, NEW new, NEW S,
           \A i \in S : i[1] \in DOMAIN MadeFrom => new[i[1]][i[2]].from = log[i[1]][i[2]].from
    PROVE  Above(new, S) = Above(log, S)
<1>1. \A x : x \in Above(new, S) <=> x \in Above(log, S)
  <2> TAKE x
  <2> QED BY AboveIs
<1> QED BY <1>1, Zenon

LEMMA PinnedIs ==
    /\ Pinned = Above(made, Above(made, Above(made, LockedMedia)))
    /\ WithParents(WithParents(LockedFreshly)) = NeededFresh
BY Zenon DEF Pinned, NeededFresh, WithParents, Above, ParentOf, RecordOf

LEMMA LogsAre ==
    ASSUME LogsOK
    PROVE  /\ \A k \in Kinds : /\ made[k] \in Seq(MadeRecord) /\ Len(made[k]) \in Nat
                               /\ DOMAIN made[k] = 1..Len(made[k])
                               /\ \A n \in 1..Len(made[k]) : made[k][n] \in MadeRecord
                               /\ MaxMade[k] \in Nat
           /\ \A i : i \in Recorded <=> \E k \in Kinds : \E n \in 1..Len(made[k]) : i = <<k, n>>
           /\ \A i : i \in LockedMedia <=>
                 \E k \in Kinds : mediaLock[k] # 0 /\ i = <<k, mediaLock[k]>>
<1>1. ASSUME NEW k \in Kinds
      PROVE  /\ made[k] \in Seq(MadeRecord) /\ Len(made[k]) \in Nat
             /\ DOMAIN made[k] = 1..Len(made[k])
             /\ \A n \in 1..Len(made[k]) : made[k][n] \in MadeRecord
             /\ MaxMade[k] \in Nat
  <2>1. made[k] \in Seq(MadeRecord) /\ MaxMade[k] \in Nat
      BY MediaAssumption DEF LogsOK
  <2> QED BY <2>1, LenProperties, ElementOfSeq
<1>2. ASSUME NEW i
      PROVE  i \in Recorded <=> \E k \in Kinds : \E n \in 1..Len(made[k]) : i = <<k, n>>
  <2>1. ASSUME i \in Recorded PROVE \E k \in Kinds : \E n \in 1..Len(made[k]) : i = <<k, n>>
    <3>1. PICK k \in Kinds : \E n \in 1..MaxMade[k] : i = <<k, n>>
        BY <2>1, MediaAre DEF Recorded
    <3>2. PICK n : i = <<k, n>>
        BY <3>1
    <3>3. n \in DOMAIN made[k]
        BY <2>1, <3>2 DEF Recorded
    <3> QED BY <3>2, <3>3, <1>1
  <2>2. ASSUME NEW k \in Kinds, NEW n \in 1..Len(made[k]), i = <<k, n>> PROVE i \in Recorded
    <3>1. n \in 1..MaxMade[k]
        BY <1>1 DEF LogsOK
    <3>2. i \in Media /\ i[1] = k /\ i[2] = n
        BY <3>1, <2>2, MediaAre
    <3> QED BY <3>2, <1>1, <2>2 DEF Recorded
  <2> QED BY <2>1, <2>2
<1>3. ASSUME NEW i
      PROVE  i \in LockedMedia <=> \E k \in Kinds : mediaLock[k] # 0 /\ i = <<k, mediaLock[k]>>
  <2>1. ASSUME i \in LockedMedia PROVE \E k \in Kinds : mediaLock[k] # 0 /\ i = <<k, mediaLock[k]>>
    <3>1. PICK k \in Kinds : \E n \in 1..Len(made[k]) : i = <<k, n>>
        BY <2>1, <1>2 DEF LockedMedia
    <3>2. PICK n \in 1..Len(made[k]) : i = <<k, n>>
        BY <3>1
    <3>3. mediaLock[k] = n /\ n # 0
        BY <2>1, <3>2, <1>1 DEF LockedMedia
    <3> QED BY <3>2, <3>3
  <2>2. ASSUME NEW k \in Kinds, mediaLock[k] # 0, i = <<k, mediaLock[k]>> PROVE i \in LockedMedia
    <3>1. mediaLock[k] \in 1..Len(made[k])
        BY <2>2, <1>1 DEF LogsOK
    <3>2. i \in Recorded /\ i[1] = k /\ i[2] = mediaLock[k]
        BY <2>2, <3>1, <1>2
    <3> QED BY <3>2 DEF LockedMedia
  <2> QED BY <2>1, <2>2
<1> QED BY <1>1, <1>2, <1>3

(* What anything recorded was made from is recorded.                       *)
LEMMA AboveRecorded ==
    ASSUME LogsOK, NEW S, S \subseteq Recorded
    PROVE  Above(made, S) \subseteq Recorded
<1>1. ASSUME NEW i \in S, i[1] \in DOMAIN MadeFrom
      PROVE  <<MadeFrom[i[1]], made[i[1]][i[2]].from>> \in Recorded
  <2>1. RecordOf(i).from \in DOMAIN made[MadeFrom[i[1]]] /\ MadeFrom[i[1]] \in Kinds
      BY <1>1, KindsAre DEF LogsOK
  <2>2. made[i[1]][i[2]].from \in 1..Len(made[MadeFrom[i[1]]])
      BY <2>1, LogsAre DEF RecordOf
  <2> QED BY <2>1, <2>2, LogsAre
<1> QED BY <1>1, AboveIs

(* The logs go on from where they were: nothing is taken out of them and   *)
(* what it was made from stays; nothing else is locked.                    *)
LogsGoOn ==
    /\ mediaLock' = mediaLock /\ Recorded \subseteq Recorded' /\ LockedMedia' = LockedMedia
    /\ \A i \in Recorded : RecordOf(i)'.from = RecordOf(i).from

LEMMA NeedsStay ==
    ASSUME LogsOK, LogsGoOn
    PROVE  /\ Pinned' = Pinned /\ Pinned \subseteq Recorded
           /\ NeededFresh' = NeededFresh /\ NeededFresh \subseteq Pinned
<1>1. PICK S : S = LockedMedia
    OBVIOUS
<1>2. PICK F : F = LockedFreshly
    OBVIOUS
<1>3. S \subseteq Recorded /\ F \subseteq S /\ LockedMedia' = S /\ LockedFreshly' = F
    BY <1>1, <1>2 DEF LockedMedia, LockedFreshly, LogsGoOn
<1>4. ASSUME NEW T, T \subseteq Recorded
      PROVE  Above(made', T) = Above(made, T) /\ Above(made, T) \subseteq Recorded
  <2>1. \A i \in T : made'[i[1]][i[2]].from = made[i[1]][i[2]].from
      BY <1>4 DEF LogsGoOn, RecordOf
  <2> QED BY <1>4, <2>1, AboveStays, AboveRecorded
<1>5. /\ Above(made', S) = Above(made, S) /\ Above(made, S) \subseteq Recorded
      /\ Above(made', F) = Above(made, F) /\ Above(made, F) \subseteq Recorded
    BY <1>3, <1>4
<1>6. /\ Above(made', Above(made, S)) = Above(made, Above(made, S))
      /\ Above(made, Above(made, S)) \subseteq Recorded
      /\ Above(made', Above(made, F)) = Above(made, Above(made, F))
    BY <1>4, <1>5
<1>7. /\ Above(made', Above(made, Above(made, S))) = Above(made, Above(made, Above(made, S)))
      /\ Above(made, Above(made, Above(made, S))) \subseteq Recorded
    BY <1>4, <1>6
<1>8. Pinned' = Above(made', Above(made', Above(made', S)))
  <2>1. Pinned' = Above(made', Above(made', Above(made', LockedMedia')))
      BY Zenon DEF Pinned, WithParents, Above, ParentOf, RecordOf
  <2> QED BY <2>1, <1>3
<1>9. Pinned = Above(made, Above(made, Above(made, S)))
    BY <1>1, PinnedIs
<1>10. NeededFresh = Above(made, Above(made, F)) /\ NeededFresh' = Above(made', Above(made', F))
    BY <1>2, <1>3 DEF NeededFresh
<1>11. Above(made, Above(made, F)) \subseteq Above(made, Above(made, Above(made, S)))
  <2>1. \A T, U : T \subseteq U => Above(made, T) \subseteq Above(made, U)
      BY AboveIs
  <2>2. Above(made, F) \subseteq Above(made, S)
      BY <2>1, <1>3
  <2>3. Above(made, Above(made, F)) \subseteq Above(made, Above(made, S))
      BY <2>1, <2>2
  <2> QED BY <2>3, AboveIs
<1> QED BY <1>5, <1>6, <1>7, <1>8, <1>9, <1>10, <1>11

(* Recording what S's requests made and removing the files of gone.        *)
LEMMA AttachedIs ==
    ASSUME MediaIInv, NEW S \in SUBSET {k \in Kinds : making[k] # NoMedia},
           NEW gone \in SUBSET {i \in Recorded : ~RecordOf(i).kept /\ mediaFile[i] = "own"},
           AttachedMedia(S, gone), mediaLock' = mediaLock
    PROVE  /\ made' \in [Kinds -> Seq(MadeRecord)]
           /\ \A k \in Kinds :
                 /\ k \in S => /\ Len(made'[k]) = Len(made[k]) + 1 /\ Len(made'[k]) <= MaxMade[k]
                               /\ made'[k][Len(made[k]) + 1] =
                                     [from |-> making[k], status |-> "candidate", kept |-> TRUE]
                 /\ k \notin S => made'[k] = made[k]
                 /\ \A n \in 1..Len(made[k]) : made'[k][n] = made[k][n]
                 /\ Len(made'[k]) \in Nat /\ DOMAIN made'[k] = 1..Len(made'[k])
                 /\ Len(made[k]) <= Len(made'[k])
           /\ \A i \in Recorded : /\ i \in Recorded' /\ RecordOf(i)' = RecordOf(i)
                                  /\ mediaFile'[i] = IF i \in gone THEN "none" ELSE mediaFile[i]
           /\ \A i \in Recorded' \ Recorded :
                 /\ i[1] \in S /\ mediaFile'[i] = "own"
                 /\ RecordOf(i)' = [from |-> making[i[1]], status |-> "candidate", kept |-> TRUE]
           /\ LockedMedia' = LockedMedia
           /\ mediaFile' \in [Media -> {"own", "other", "none"}]
<1>0. LogsOK /\ MakingOK /\ MediaTypeOK
    BY DEF MediaIInv
<1> DEFINE new(k) == [from |-> making[k], status |-> "candidate", kept |-> TRUE]
<1>1. ASSUME NEW k \in Kinds, k \in S
      PROVE  /\ new(k) \in MadeRecord /\ made'[k] = Append(made[k], new(k))
             /\ Len(made[k]) < MaxMade[k]
  <2>1. making[k] \in Nat
      BY <1>0, <1>1 DEF MediaTypeOK
  <2>2. new(k) \in MadeRecord
      BY <2>1 DEF MadeRecord
  <2>3. made'[k] = Append(made[k], new(k))
      BY <1>1 DEF AttachedMedia
  <2> QED BY <2>2, <2>3, <1>0, <1>1 DEF MakingOK
<1> HIDE DEF new
<1>2. ASSUME NEW k \in Kinds
      PROVE  /\ made'[k] \in Seq(MadeRecord) /\ Len(made'[k]) \in Nat
             /\ DOMAIN made'[k] = 1..Len(made'[k]) /\ Len(made[k]) <= Len(made'[k])
             /\ k \in S => /\ Len(made'[k]) = Len(made[k]) + 1 /\ Len(made'[k]) <= MaxMade[k]
                           /\ made'[k][Len(made[k]) + 1] = new(k)
             /\ k \notin S => made'[k] = made[k]
             /\ \A n \in 1..Len(made[k]) : made'[k][n] = made[k][n]
  <2>1. CASE k \in S
    <3>1. made[k] \in Seq(MadeRecord) /\ Len(made[k]) \in Nat /\ MaxMade[k] \in Nat
        BY <1>0, LogsAre
    <3>2. PICK old : old = made[k]
        OBVIOUS
    <3>3. /\ Append(old, new(k)) \in Seq(MadeRecord) /\ Len(Append(old, new(k))) = Len(old) + 1
          /\ \A n \in 1..Len(old) : Append(old, new(k))[n] = old[n]
          /\ Append(old, new(k))[Len(old) + 1] = new(k)
        BY <1>1, <2>1, <3>1, <3>2, AppendProperties
    <3>4. made'[k] \in Seq(MadeRecord) /\ Len(made'[k]) = Len(made[k]) + 1
        BY <1>1, <2>1, <3>2, <3>3
    <3>5. DOMAIN made'[k] = 1..Len(made'[k])
        BY <3>4, LenProperties
    <3> QED BY <1>1, <2>1, <3>1, <3>2, <3>3, <3>4, <3>5
  <2>2. CASE k \notin S
    <3>1. made'[k] = made[k]
        BY <2>2 DEF AttachedMedia
    <3> QED BY <2>2, <3>1, <1>0, LogsAre
  <2> QED BY <2>1, <2>2
<1>3. made' \in [Kinds -> Seq(MadeRecord)]
  <2>1. made' = [k \in Kinds |-> made'[k]]
      BY DEF AttachedMedia
  <2> QED BY <2>1, <1>2
<1>4. ASSUME NEW k \in Kinds PROVE Len(made'[k]) <= MaxMade[k]
  <2>1. k \notin S => Len(made'[k]) <= MaxMade[k]
      BY <1>0, <1>2 DEF LogsOK
  <2> QED BY <2>1, <1>2
<1>5. \A i : i \in Recorded' <=> \E k \in Kinds : \E n \in 1..Len(made'[k]) : i = <<k, n>>
  <2> TAKE i
  <2>1. ASSUME i \in Recorded' PROVE \E k \in Kinds : \E n \in 1..Len(made'[k]) : i = <<k, n>>
    <3>1. i \in Media /\ i[2] \in DOMAIN made'[i[1]]
        BY <2>1 DEF Recorded
    <3>2. PICK k \in Kinds : \E n \in 1..MaxMade[k] : i = <<k, n>>
        BY <3>1, MediaAre
    <3>3. PICK n : i = <<k, n>>
        BY <3>2
    <3> QED BY <3>1, <3>3, <1>2
  <2>2. ASSUME NEW k \in Kinds, NEW n \in 1..Len(made'[k]), i = <<k, n>> PROVE i \in Recorded'
    <3>1. n \in 1..MaxMade[k]
        BY <1>0, <1>2, <1>4, LogsAre
    <3>2. i \in Media /\ i[1] = k /\ i[2] = n
        BY <3>1, <2>2, MediaAre
    <3> QED BY <3>2, <1>2, <2>2 DEF Recorded
  <2> QED BY <2>1, <2>2
<1>6. ASSUME NEW i \in Recorded
      PROVE  /\ i \in Recorded' /\ RecordOf(i)' = RecordOf(i)
             /\ mediaFile'[i] = IF i \in gone THEN "none" ELSE mediaFile[i]
  <2>1. PICK k \in Kinds : \E n \in 1..Len(made[k]) : i = <<k, n>>
      BY <1>0, LogsAre
  <2>2. PICK n \in 1..Len(made[k]) : i = <<k, n>>
      BY <2>1
  <2>3. n \in 1..Len(made'[k]) /\ made'[k][n] = made[k][n] /\ n # Len(made[k]) + 1
      BY <1>0, <1>2, <2>2, LogsAre
  <2>4. i \in Recorded' /\ RecordOf(i)' = RecordOf(i)
      BY <2>2, <2>3, <1>5 DEF RecordOf
  <2>5. i \in Media /\ i[2] # Len(made[i[1]]) + 1
      BY <2>2, <2>3 DEF Recorded
  <2>6. mediaFile'[i] = IF i \in gone THEN "none" ELSE mediaFile[i]
      BY <2>5 DEF AttachedMedia
  <2> QED BY <2>4, <2>6
<1>7. ASSUME NEW i \in Recorded' \ Recorded
      PROVE  i[1] \in S /\ mediaFile'[i] = "own" /\ RecordOf(i)' = new(i[1])
  <2>1. PICK k \in Kinds : \E n \in 1..Len(made'[k]) : i = <<k, n>>
      BY <1>5
  <2>2. PICK n \in 1..Len(made'[k]) : i = <<k, n>>
      BY <2>1
  <2>3. ~(n \in 1..Len(made[k]))
      BY <1>0, <2>2, LogsAre
  <2>4. k \in S /\ n = Len(made[k]) + 1
      BY <1>0, <1>2, <2>2, <2>3, LogsAre
  <2>5. i \in Media /\ i[1] = k /\ i[2] = n
      BY <2>2 DEF Recorded
  <2>6. mediaFile'[i] = "own"
      BY <2>4, <2>5 DEF AttachedMedia
  <2> QED BY <2>4, <2>5, <2>6, <1>2 DEF RecordOf
<1>8. LockedMedia' = LockedMedia
  <2>1. ASSUME NEW i \in Recorded' \ Recorded PROVE mediaLock[i[1]] # i[2]
    <3>1. PICK k \in Kinds : \E n \in 1..Len(made'[k]) : i = <<k, n>>
        BY <1>5
    <3>2. PICK n \in 1..Len(made'[k]) : i = <<k, n>>
        BY <3>1
    <3>3. ~(n \in 1..Len(made[k]))
        BY <1>0, <3>2, <2>1, LogsAre
    <3>4. mediaLock[k] <= Len(made[k]) /\ mediaLock[k] \in Nat
        BY <1>0 DEF LogsOK
    <3> QED BY <3>2, <3>3, <3>4, <1>0, <1>2, LogsAre
  <2> QED BY <2>1, <1>6 DEF LockedMedia
<1>9. mediaFile' \in [Media -> {"own", "other", "none"}]
    BY <1>0 DEF AttachedMedia, MediaTypeOK
<1> QED BY <1>2, <1>3, <1>6, <1>7, <1>8, <1>9 DEF new

(* Logs that go on keep their invariant when what is new in them was made  *)
(* from what was there, and nothing else is let go.                        *)
LEMMA LogsKept ==
    ASSUME LogsOK, LogsGoOn, made' \in [Kinds -> Seq(MadeRecord)],
           \A k \in Kinds : /\ Len(made'[k]) \in Nat /\ Len(made'[k]) <= MaxMade[k]
                            /\ Len(made[k]) <= Len(made'[k]),
           \A i \in Recorded :
               /\ RecordOf(i)'.kept \/ RecordOf(i)'.status = "rejected"
               /\ i \in Pinned => RecordOf(i)'.kept = RecordOf(i).kept,
           \A i \in Recorded' \ Recorded :
               /\ RecordOf(i)'.kept
               /\ i[1] \in DOMAIN MadeFrom => RecordOf(i)'.from \in DOMAIN made[MadeFrom[i[1]]]
    PROVE  LogsOK'
<1>1. /\ Pinned' = Pinned /\ Pinned \subseteq Recorded
      /\ NeededFresh' = NeededFresh /\ NeededFresh \subseteq Pinned
    BY NeedsStay
<1>2. LockedMedia \subseteq Pinned
    BY PinnedIs, AboveIs
<1>3. \A k \in Kinds : DOMAIN made[k] \subseteq DOMAIN made'[k]
  <2> TAKE k \in Kinds
  <2>1. made'[k] \in Seq(MadeRecord) /\ DOMAIN made'[k] = 1..Len(made'[k])
      BY LenProperties
  <2> QED BY <2>1, LogsAre
<1>4. mediaLock' \in [Kinds -> Nat] /\ \A k \in Kinds : mediaLock'[k] <= Len(made'[k])
  <2>1. ASSUME NEW k \in Kinds PROVE mediaLock'[k] <= Len(made'[k])
    <3>1. mediaLock[k] \in Nat /\ mediaLock[k] <= Len(made[k]) /\ mediaLock' = mediaLock
        BY DEF LogsOK, LogsGoOn
    <3> QED BY <3>1, LogsAre
  <2> QED BY <2>1 DEF LogsOK, LogsGoOn
<1>5. ASSUME NEW i \in Recorded', i[1] \in DOMAIN MadeFrom
      PROVE  RecordOf(i)'.from \in DOMAIN made'[MadeFrom[i[1]]]
  <2>1. RecordOf(i)'.from \in DOMAIN made[MadeFrom[i[1]]]
    <3>1. CASE i \in Recorded
        BY <3>1, <1>5 DEF LogsOK, LogsGoOn
    <3>2. CASE i \notin Recorded
        BY <3>2, <1>5
    <3> QED BY <3>1, <3>2
  <2> QED BY <2>1, <1>3, <1>5, KindsAre
<1>6. ASSUME NEW i \in Recorded', ~RecordOf(i)'.kept PROVE RecordOf(i)'.status = "rejected"
    BY <1>6
<1>7. ASSUME NEW i \in LockedMedia' PROVE RecordOf(i)'.kept
    BY <1>1, <1>2, <1>7 DEF LogsOK, LogsGoOn
<1>8. ASSUME NEW i \in NeededFresh', i[1] # "style" PROVE RecordOf(i)'.kept
    BY <1>1, <1>8 DEF LogsOK
<1> QED BY <1>4, <1>5, <1>6, <1>7, <1>8 DEF LogsOK

(* Nothing of it changes while logs and locks stay.                        *)
LEMMA LogsStand ==
    ASSUME MediaIInv, UNCHANGED <<made, mediaLock>>
    PROVE  /\ LogsOK' /\ Pinned' = Pinned /\ Pinned \subseteq Recorded
           /\ Recorded' = Recorded /\ \A i : RecordOf(i)' = RecordOf(i)
<1>1. Recorded' = Recorded /\ \A i : RecordOf(i)' = RecordOf(i)
    BY DEF Recorded, RecordOf
<1>2. LockedMedia' = LockedMedia
    BY <1>1 DEF LockedMedia
<1>3. LogsGoOn
    BY <1>1, <1>2 DEF LogsGoOn
<1>4. LogsOK
    BY DEF MediaIInv
<1>5. /\ Pinned' = Pinned /\ Pinned \subseteq Recorded /\ NeededFresh' = NeededFresh
    BY <1>3, <1>4, NeedsStay
<1>6. LogsOK'
    BY <1>1, <1>2, <1>4, <1>5 DEF LogsOK
<1> QED BY <1>1, <1>5, <1>6

(* Decisions about items: one log has other statuses.                      *)
LEMMA JudgedKeeps ==
    ASSUME MediaIInv, letting = NoneLeft, NEW k \in Kinds, NEW log \in Seq(MadeRecord),
           Len(log) = Len(made[k]),
           \A n \in 1..Len(made[k]) :
               /\ log[n].from = made[k][n].from /\ log[n].kept = made[k][n].kept
               /\ made[k][n].status = "rejected" => log[n].status = "rejected",
           Judged(k, log)
    PROVE  MediaIInv' /\ NothingNeededGoes
<1>0. /\ LogsOK /\ MediaTypeOK /\ mediaLock' = mediaLock /\ mediaFile' = mediaFile
      /\ meddled' = meddled /\ letting' = letting /\ making' = making
    BY DEF MediaIInv, Judged
<1>1. made' = [made EXCEPT ![k] = log] /\ made \in [Kinds -> Seq(MadeRecord)]
    BY <1>0 DEF Judged, LogsOK
<1>2. made' \in [Kinds -> Seq(MadeRecord)] /\ \A j \in Kinds : Len(made'[j]) = Len(made[j])
    BY <1>1
<1>3. \A j \in Kinds : DOMAIN made'[j] = DOMAIN made[j] /\ Len(made[j]) \in Nat
    BY <1>0, <1>2, LogsAre, LenProperties
<1>4. Recorded' = Recorded
  <2>1. \A i \in Media : i[1] \in Kinds
      BY MediaAre
  <2> QED BY <2>1, <1>3 DEF Recorded
<1>5. ASSUME NEW i \in Recorded
      PROVE  /\ RecordOf(i)'.from = RecordOf(i).from /\ RecordOf(i)'.kept = RecordOf(i).kept
             /\ RecordOf(i).status = "rejected" => RecordOf(i)'.status = "rejected"
  <2>1. PICK j \in Kinds : \E n \in 1..Len(made[j]) : i = <<j, n>>
      BY <1>0, LogsAre
  <2>2. PICK n \in 1..Len(made[j]) : i = <<j, n>>
      BY <2>1
  <2>3. RecordOf(i) = made[j][n] /\ RecordOf(i)' = made'[j][n]
      BY <2>2 DEF RecordOf
  <2>4. CASE j = k
      BY <2>3, <2>4, <1>1
  <2>5. CASE j # k
      BY <2>3, <2>5, <1>1
  <2> QED BY <2>4, <2>5
<1>6. LockedMedia' = LockedMedia
    BY <1>0, <1>4 DEF LockedMedia
<1>7. LogsGoOn
    BY <1>0, <1>4, <1>5, <1>6 DEF LogsGoOn
<1>8. Pinned' = Pinned /\ Pinned \subseteq Recorded
    BY <1>0, <1>7, NeedsStay
<1>9. LogsOK'
  <2>1. \A i \in Recorded : RecordOf(i)'.kept \/ RecordOf(i)'.status = "rejected"
      BY <1>0, <1>5 DEF LogsOK
  <2>2. \A j \in Kinds : /\ Len(made'[j]) \in Nat /\ Len(made'[j]) <= MaxMade[j]
                         /\ Len(made[j]) <= Len(made'[j])
      BY <1>0, <1>2, <1>3, LogsAre DEF LogsOK
  <2> QED BY <2>1, <2>2, <1>0, <1>2, <1>4, <1>5, <1>7, LogsKept
<1>10. MakingOK'
  <2>1. MakingOK
      BY DEF MediaIInv
  <2> QED BY <2>1, <1>0, <1>2, <1>3, KindsAre DEF MakingOK
<1>11. LettingOK'
    BY <1>0 DEF LettingOK, NoneLeft
<1>12. KeptHaveFiles' /\ meddled' \subseteq Recorded'
    BY <1>0, <1>4, <1>5 DEF MediaIInv, KeptHaveFiles
<1>13. MediaTypeOK'
  <2>1. \A j \in Kinds : made'[j] \in Seq(MadeRecord) /\ Len(made'[j]) <= MaxMade[j]
      BY <1>0, <1>2 DEF MediaTypeOK
  <2>2. \A j \in Kinds : mediaLock'[j] \in 0..Len(made'[j])
      BY <1>0, <1>2 DEF MediaTypeOK
  <2> QED BY <1>0, <2>1, <2>2 DEF MediaTypeOK, Judged
<1>14. NothingNeededGoes
    BY <1>0, <1>5, <1>8 DEF NothingNeededGoes
<1> QED BY <1>9, <1>10, <1>11, <1>12, <1>13, <1>14 DEF MediaIInv

LEMMA SelectMediaKeeps ==
    ASSUME MediaIInv, NEW i \in Media, SelectMedia(i)
    PROVE  MediaIInv' /\ NothingNeededGoes
<1>1. PICK k \in Kinds : \E n \in 1..MaxMade[k] : i = <<k, n>>
    BY MediaAre
<1>2. PICK m : i = <<k, m>> /\ k = i[1] /\ m = i[2]
    BY <1>1
<1>3. /\ letting = NoneLeft /\ i \in Recorded /\ RecordOf(i).status = "candidate"
    BY DEF SelectMedia, MayDecideOn, WorkerFree
<1>4. PICK log : log = [n \in DOMAIN made[k] |-> [made[k][n] EXCEPT !.status =
                           IF n = m THEN "selected" ELSE IF @ = "selected" THEN "candidate" ELSE @]]
    OBVIOUS
<1>5. Judged(k, log)
    BY <1>2, <1>4, Zenon DEF SelectMedia
<1>6. PICK last \in Nat : last = Len(made[k])
    BY LogsAre DEF MediaIInv
<1>7. /\ DOMAIN made[k] = 1..last /\ made[k][m].status = "candidate"
      /\ \A n \in 1..last : made[k][n] \in MadeRecord
    BY <1>2, <1>3, <1>6, LogsAre DEF MediaIInv, RecordOf
<1>8. ASSUME NEW n \in 1..last
      PROVE  /\ log[n] \in MadeRecord
             /\ log[n].from = made[k][n].from /\ log[n].kept = made[k][n].kept
             /\ made[k][n].status = "rejected" => log[n].status = "rejected"
    BY <1>4, <1>7 DEF MadeRecord
<1>9. log \in Seq(MadeRecord) /\ Len(log) = last
  <2>1. log \in [1..last -> MadeRecord]
      BY <1>4, <1>7, <1>8
  <2> QED BY <2>1, SeqDef, LenProperties
<1> QED BY <1>3, <1>5, <1>6, <1>8, <1>9, JudgedKeeps

LEMMA RejectMediaKeeps ==
    ASSUME MediaIInv, NEW i \in Media, RejectMedia(i)
    PROVE  MediaIInv' /\ NothingNeededGoes
<1>1. PICK k \in Kinds : \E n \in 1..MaxMade[k] : i = <<k, n>>
    BY MediaAre
<1>2. PICK m : i = <<k, m>> /\ k = i[1] /\ m = i[2]
    BY <1>1
<1>3. letting = NoneLeft /\ i \in Recorded
    BY DEF RejectMedia, MayDecideOn, WorkerFree
<1>4. PICK log : log = [made[k] EXCEPT ![m].status = "rejected"]
    OBVIOUS
<1>5. Judged(k, log)
    BY <1>2, <1>4, Zenon DEF RejectMedia
<1>6. PICK last \in Nat : last = Len(made[k])
    BY LogsAre DEF MediaIInv
<1>7. /\ DOMAIN made[k] = 1..last /\ made[k] \in Seq(MadeRecord)
      /\ \A n \in 1..last : made[k][n] \in MadeRecord
    BY <1>6, LogsAre DEF MediaIInv
<1>8. ASSUME NEW n \in 1..last
      PROVE  /\ log[n] \in MadeRecord
             /\ log[n].from = made[k][n].from /\ log[n].kept = made[k][n].kept
             /\ made[k][n].status = "rejected" => log[n].status = "rejected"
    BY <1>4, <1>7 DEF MadeRecord
<1>9. log \in Seq(MadeRecord) /\ Len(log) = last
  <2>1. log \in [1..last -> MadeRecord]
      BY <1>4, <1>7, <1>8
  <2> QED BY <2>1, SeqDef, LenProperties
<1> QED BY <1>3, <1>5, <1>6, <1>8, <1>9, JudgedKeeps

(* What is locked afresh was selected, so it is kept; a voice and a line    *)
(* that are fresh are of what is locked, which is kept as well.             *)
LEMMA LockMediaKeeps ==
    ASSUME MediaIInv, NEW i \in Media, LockMedia(i)
    PROVE  MediaIInv' /\ NothingNeededGoes
<1>0. /\ LogsOK /\ MediaTypeOK /\ letting = NoneLeft /\ i \in Recorded
      /\ RecordOf(i).status = "selected"
      /\ i[1] \in LockedFresh => Fresh(i)
      /\ mediaLock' = [mediaLock EXCEPT ![i[1]] = i[2]]
      /\ UNCHANGED <<made, mediaFile, making, mediaOpen, dryRun, letting, meddled, mediaStops>>
    BY DEF MediaIInv, LockMedia, MayDecideOn, WorkerFree
<1>1. PICK k \in Kinds : \E n \in 1..Len(made[k]) : i = <<k, n>>
    BY <1>0, LogsAre
<1>2. PICK m \in 1..Len(made[k]) : i = <<k, m>> /\ k = i[1] /\ m = i[2]
    BY <1>1
<1>3. Recorded' = Recorded /\ \A x : RecordOf(x)' = RecordOf(x)
    BY <1>0 DEF Recorded, RecordOf
<1>4. RecordOf(i).kept
    BY <1>0 DEF LogsOK
<1>5. LockedMedia' \subseteq LockedMedia \cup {i}
  <2>1. ASSUME NEW x \in LockedMedia' PROVE x \in LockedMedia \/ x = i
    <3>1. x \in Recorded /\ mediaLock'[x[1]] = x[2]
        BY <1>3 DEF LockedMedia
    <3>2. PICK j \in Kinds : \E n \in 1..Len(made[j]) : x = <<j, n>>
        BY <1>0, <3>1, LogsAre
    <3>3. PICK n : x = <<j, n>>
        BY <3>2
    <3>4. j # k => x \in LockedMedia
        BY <1>0, <1>2, <3>1, <3>3 DEF LockedMedia, LogsOK
    <3>5. j = k => x = i
        BY <1>0, <1>2, <3>1, <3>3 DEF LogsOK
    <3> QED BY <3>4, <3>5
  <2> QED BY <2>1
<1>6. /\ LockedFreshly' \subseteq LockedFreshly \cup {x \in {i} : x[1] \in {"voice", "line"}}
      /\ \A x \in LockedMedia : RecordOf(x).kept
    BY <1>0, <1>5 DEF LockedFreshly, LogsOK
<1>7. NeededFresh' = Above(made, Above(made, LockedFreshly'))
    BY <1>0 DEF NeededFresh
<1>8. \A x : x \in NeededFresh /\ x[1] # "style" => RecordOf(x).kept
    BY <1>0 DEF LogsOK
<1>9. ASSUME NEW x \in Above(made, Above(made, {i})), x[1] # "style", k \in {"voice", "line"}
      PROVE  RecordOf(x).kept
  <2>1. PICK p : p = <<MadeFrom[k], mediaLock[MadeFrom[k]]>>
      OBVIOUS
  <2>2. made[k][m].from = mediaLock[MadeFrom[k]] /\ k \in DOMAIN MadeFrom
      BY <1>0, <1>2, <1>9, KindsAre DEF LockedFresh, Fresh, RecordOf
  <2>3. Above(made, {i}) \subseteq {i, p}
      BY <1>2, <2>1, <2>2, AboveIs
  <2>4. p \in LockedMedia /\ p[1] = MadeFrom[k]
    <3>1. made[k][m].from \in DOMAIN made[MadeFrom[k]] /\ MadeFrom[k] \in Kinds
        BY <1>0, <1>2, <2>2, KindsAre DEF LogsOK, RecordOf
    <3>2. mediaLock[MadeFrom[k]] # 0
        BY <1>0, <2>2, <3>1, LogsAre
    <3> QED BY <1>0, <2>1, <3>1, <3>2, LogsAre
  <2>5. CASE x = i
      BY <2>5, <1>4
  <2>6. CASE x = p
      BY <2>6, <2>4, <1>6
  <2>7. CASE x # i /\ x # p
    <3>1. PICK y : y \in {i, p} /\ y[1] \in DOMAIN MadeFrom
                   /\ x = <<MadeFrom[y[1]], made[y[1]][y[2]].from>>
        BY <1>9, <2>3, <2>7, AboveIs
    <3>2. y # i
        BY <3>1, <2>7, <2>1, <2>2, <1>2
    <3>3. y = p /\ x[1] = MadeFrom[MadeFrom[k]]
        BY <3>1, <3>2, <2>4
    <3>4. k = "line" /\ p \in LockedFreshly
        BY <3>3, <1>9, <2>4, KindsAre DEF LockedFreshly
    <3>5. x \in NeededFresh
        BY <3>1, <3>3, <3>4, AboveIs DEF NeededFresh
    <3> QED BY <3>5, <1>8, <1>9
  <2> QED BY <2>5, <2>6, <2>7
<1>10. ASSUME NEW x \in NeededFresh', x[1] # "style" PROVE RecordOf(x)'.kept
  <2>1. PICK F : F = LockedFreshly'
      OBVIOUS
  <2>2. PICK y : y \in F /\ x \in Above(made, Above(made, {y}))
    <3>1. x \in Above(made, Above(made, F))
        BY <1>7, <1>10, <2>1
    <3>2. PICK z : z \in Above(made, F) /\ x \in Above(made, {z})
        BY <3>1, AboveEach
    <3>3. PICK y : y \in F /\ z \in Above(made, {y})
        BY <3>2, AboveEach
    <3> QED BY <3>2, <3>3, AboveEach
  <2>3. CASE y \in LockedFreshly
    <3>1. x \in NeededFresh
        BY <2>2, <2>3, AboveIs DEF NeededFresh
    <3> QED BY <3>1, <1>3, <1>8, <1>10
  <2>4. CASE y \notin LockedFreshly
    <3>1. y = i /\ k \in {"voice", "line"}
        BY <2>1, <2>2, <2>4, <1>2, <1>6
    <3> QED BY <3>1, <2>2, <1>3, <1>9, <1>10
  <2> QED BY <2>3, <2>4
<1>11. mediaLock' \in [Kinds -> Nat] /\ \A j \in Kinds : mediaLock'[j] <= Len(made[j])
    BY <1>0, <1>2, LogsAre DEF LogsOK
<1>12. LogsOK'
  <2>1. \A x \in LockedMedia' : RecordOf(x).kept
      BY <1>4, <1>5, <1>6
  <2> QED BY <2>1, <1>0, <1>3, <1>10, <1>11 DEF LogsOK
<1>13. MediaTypeOK'
  <2>1. \A j \in Kinds : mediaLock'[j] \in 0..Len(made[j])
      BY <1>0, <1>11, LogsAre
  <2> QED BY <2>1, <1>0 DEF MediaTypeOK
<1>14. MakingOK' /\ KeptHaveFiles' /\ meddled' \subseteq Recorded'
    BY <1>0, <1>3 DEF MediaIInv, MakingOK, KeptHaveFiles
<1>15. LettingOK'
    BY <1>0 DEF LettingOK, NoneLeft
<1>16. NothingNeededGoes
    BY <1>0, <1>3 DEF NothingNeededGoes
<1> QED BY <1>12, <1>13, <1>14, <1>15, <1>16 DEF MediaIInv

(* What requests made is recorded while nothing is let go: whatever else   *)
(* they and an open change.                                                *)
LEMMA AttachedKeeps ==
    ASSUME MediaIInv, NEW S \in SUBSET {k \in Kinds : making[k] # NoMedia},
           NEW gone \in SUBSET {i \in Recorded : ~RecordOf(i).kept /\ mediaFile[i] = "own"},
           AttachedMedia(S, gone), mediaLock' = mediaLock, meddled' = meddled,
           making' \in [Kinds -> Nat \cup {NoMedia}],
           \A k \in Kinds : making'[k] \in {making[k], NoMedia} /\ (k \in S => making'[k] = NoMedia),
           letting = NoneLeft, letting' = NoneLeft, mediaOpen' \in BOOLEAN,
           dryRun' \in {dryRun, NoMedia}, mediaStops' = mediaStops
    PROVE  MediaIInv' /\ NothingNeededGoes
<1>0. LogsOK /\ MakingOK /\ MediaTypeOK /\ meddled \subseteq Recorded /\ KeptHaveFiles
    BY DEF MediaIInv
<1>1. /\ made' \in [Kinds -> Seq(MadeRecord)]
      /\ \A k \in Kinds :
            /\ k \in S => /\ Len(made'[k]) = Len(made[k]) + 1 /\ Len(made'[k]) <= MaxMade[k]
            /\ k \notin S => made'[k] = made[k]
            /\ Len(made'[k]) \in Nat /\ DOMAIN made'[k] = 1..Len(made'[k])
            /\ Len(made[k]) <= Len(made'[k])
      /\ \A i \in Recorded : /\ i \in Recorded' /\ RecordOf(i)' = RecordOf(i)
                             /\ mediaFile'[i] = IF i \in gone THEN "none" ELSE mediaFile[i]
      /\ \A i \in Recorded' \ Recorded :
            /\ i[1] \in S /\ mediaFile'[i] = "own"
            /\ RecordOf(i)' = [from |-> making[i[1]], status |-> "candidate", kept |-> TRUE]
      /\ LockedMedia' = LockedMedia
      /\ mediaFile' \in [Media -> {"own", "other", "none"}]
    BY AttachedIs
<1>2. LogsGoOn
    BY <1>1 DEF LogsGoOn
<1>3. Pinned' = Pinned /\ Pinned \subseteq Recorded
    BY <1>0, <1>2, NeedsStay
<1>4. \A k \in Kinds : Len(made'[k]) <= MaxMade[k]
    BY <1>0, <1>1 DEF LogsOK
<1>5. LogsOK'
  <2>1. \A i \in Recorded : RecordOf(i)'.kept \/ RecordOf(i)'.status = "rejected"
      BY <1>0, <1>1 DEF LogsOK
  <2>2. ASSUME NEW i \in Recorded' \ Recorded
        PROVE  /\ RecordOf(i)'.kept
               /\ i[1] \in DOMAIN MadeFrom => RecordOf(i)'.from \in DOMAIN made[MadeFrom[i[1]]]
    <3>1. /\ i[1] \in S
          /\ RecordOf(i)' = [from |-> making[i[1]], status |-> "candidate", kept |-> TRUE]
        BY <1>1, <2>2
    <3>2. i[1] \in DOMAIN MadeFrom => making[i[1]] \in DOMAIN made[MadeFrom[i[1]]]
        BY <1>0, <3>1 DEF MakingOK
    <3> QED BY <3>1, <3>2
  <2>3. \A i \in Recorded : RecordOf(i)'.kept = RecordOf(i).kept
      BY <1>1
  <2> QED BY <2>1, <2>2, <2>3, <1>0, <1>1, <1>2, <1>4, LogsKept
<1>6. MakingOK'
  <2>1. ASSUME NEW k \in Kinds, making'[k] # NoMedia
        PROVE  /\ Len(made'[k]) < MaxMade[k]
               /\ k \in DOMAIN MadeFrom => making'[k] \in DOMAIN made'[MadeFrom[k]]
    <3>1. making'[k] = making[k] /\ k \notin S
        BY <2>1
    <3>2. made'[k] = made[k]
        BY <1>1, <3>1
    <3>3. \A j \in Kinds : DOMAIN made[j] \subseteq DOMAIN made'[j]
        BY <1>0, <1>1, LogsAre
    <3> QED BY <1>0, <2>1, <3>1, <3>2, <3>3, KindsAre DEF MakingOK
  <2> QED BY <2>1 DEF MakingOK
<1>7. LettingOK'
    BY DEF LettingOK, NoneLeft
<1>8. KeptHaveFiles' /\ meddled' \subseteq Recorded'
    BY <1>0, <1>1 DEF KeptHaveFiles
<1>9. MediaTypeOK'
  <2>1. \A k \in Kinds : made'[k] \in Seq(MadeRecord) /\ Len(made'[k]) <= MaxMade[k]
      BY <1>1, <1>4
  <2>2. \A k \in Kinds : mediaLock'[k] \in 0..Len(made'[k])
      BY <1>5, <1>1 DEF LogsOK
  <2>3. letting' \in [mark: SUBSET Media, remove: SUBSET Media]
      BY DEF NoneLeft
  <2> QED BY <2>1, <2>2, <2>3, <1>0, <1>1 DEF MediaTypeOK
<1>10. NothingNeededGoes
  <2>1. ASSUME NEW i \in Pinned
        PROVE  /\ RecordOf(i)'.kept = RecordOf(i).kept
               /\ RecordOf(i).kept /\ i \notin meddled' => mediaFile'[i] = mediaFile[i]
      BY <1>1, <1>3
  <2>2. ASSUME NEW i \in meddled, mediaFile[i] = "other" PROVE mediaFile'[i] = "other"
      BY <1>0, <1>1, <2>2
  <2> QED BY <2>1, <2>2 DEF NothingNeededGoes
<1> QED BY <1>5, <1>6, <1>7, <1>8, <1>9, <1>10 DEF MediaIInv

LEMMA FinishMakingKeeps ==
    ASSUME MediaIInv, NEW k \in Kinds, FinishMaking(k)
    PROVE  MediaIInv' /\ NothingNeededGoes
<1>0. /\ LogsOK /\ MakingOK /\ MediaTypeOK /\ letting = NoneLeft /\ making[k] # NoMedia
      /\ making' = [making EXCEPT ![k] = NoMedia] /\ dryRun' = NoMedia
      /\ UNCHANGED <<mediaLock, mediaOpen, letting, meddled, mediaStops>>
    BY DEF MediaIInv, FinishMaking, WorkerFree
<1>1. /\ making' \in [Kinds -> Nat \cup {NoMedia}] /\ mediaOpen' \in BOOLEAN
      /\ \A j \in Kinds : making'[j] \in {making[j], NoMedia} /\ (j \in {k} => making'[j] = NoMedia)
    BY <1>0 DEF MediaTypeOK
<1>2. CASE AttachedMedia({k}, {})
    BY <1>0, <1>1, <1>2, AttachedKeeps
<1>3. CASE UNCHANGED <<made, mediaFile>>
  <2>1. /\ LogsOK' /\ Pinned' = Pinned /\ Pinned \subseteq Recorded
        /\ Recorded' = Recorded /\ \A i : RecordOf(i)' = RecordOf(i)
      BY <1>0, <1>3, LogsStand
  <2>2. MakingOK'
      BY <1>0, <1>1, <1>3 DEF MakingOK
  <2>3. LettingOK'
      BY <1>0 DEF LettingOK, NoneLeft
  <2>4. MediaTypeOK'
      BY <1>0, <1>1, <1>3 DEF MediaTypeOK
  <2> QED BY <2>1, <2>2, <2>3, <2>4, <1>0, <1>3 DEF MediaIInv, KeptHaveFiles, NothingNeededGoes
<1> QED BY <1>2, <1>3 DEF FinishMaking

LEMMA OpenMediaKeeps ==
    ASSUME MediaIInv, OpenMedia
    PROVE  MediaIInv' /\ NothingNeededGoes
<1>0. /\ ~mediaOpen /\ mediaOpen' = TRUE /\ making' = [k \in Kinds |-> NoMedia]
      /\ UNCHANGED <<mediaLock, dryRun, letting, meddled, mediaStops>>
    BY DEF OpenMedia
<1>1. letting = NoneLeft
    BY <1>0 DEF MediaIInv, LettingOK
<1>2. PICK S \in SUBSET {k \in Kinds : making[k] # NoMedia} :
          \E gone \in SUBSET {i \in Recorded : ~RecordOf(i).kept /\ mediaFile[i] = "own"} :
              AttachedMedia(S, gone)
    BY Zenon DEF OpenMedia
<1>3. PICK gone \in SUBSET {i \in Recorded : ~RecordOf(i).kept /\ mediaFile[i] = "own"} :
          AttachedMedia(S, gone)
    BY <1>2
<1>4. /\ making' \in [Kinds -> Nat \cup {NoMedia}]
      /\ \A k \in Kinds : making'[k] \in {making[k], NoMedia} /\ (k \in S => making'[k] = NoMedia)
    BY <1>0
<1> QED BY <1>0, <1>1, <1>3, <1>4, AttachedKeeps

LEMMA StartMakingKeeps ==
    ASSUME MediaIInv, NEW k \in Kinds, StartMaking(k)
    PROVE  MediaIInv' /\ NothingNeededGoes
<1>0. /\ LogsOK /\ MakingOK /\ MediaTypeOK /\ letting = NoneLeft
      /\ Len(made[k]) < MaxMade[k]
      /\ k \in DOMAIN MadeFrom => mediaLock[MadeFrom[k]] # 0
      /\ making' = [making EXCEPT ![k] =
                       IF k \in DOMAIN MadeFrom THEN mediaLock[MadeFrom[k]] ELSE 0]
      /\ UNCHANGED <<made, mediaLock, mediaFile, mediaOpen, dryRun, letting, meddled, mediaStops>>
    BY DEF MediaIInv, StartMaking, WorkerFree
<1>1. /\ LogsOK' /\ Pinned' = Pinned /\ Pinned \subseteq Recorded
      /\ Recorded' = Recorded /\ \A i : RecordOf(i)' = RecordOf(i)
    BY <1>0, LogsStand
<1>2. k \in DOMAIN MadeFrom => mediaLock[MadeFrom[k]] \in DOMAIN made[MadeFrom[k]]
  <2> HAVE k \in DOMAIN MadeFrom
  <2>1. MadeFrom[k] \in Kinds
      BY KindsAre
  <2>2. /\ mediaLock[MadeFrom[k]] \in Nat /\ mediaLock[MadeFrom[k]] # 0
        /\ mediaLock[MadeFrom[k]] <= Len(made[MadeFrom[k]])
      BY <1>0, <2>1 DEF LogsOK
  <2> QED BY <1>0, <2>1, <2>2, LogsAre
<1>3. making' \in [Kinds -> Nat \cup {NoMedia}]
    BY <1>0, KindsAre DEF MediaTypeOK, LogsOK
<1>4. MakingOK'
    BY <1>0, <1>2 DEF MakingOK, MediaTypeOK
<1>5. LettingOK'
    BY <1>0 DEF LettingOK, NoneLeft
<1>6. MediaTypeOK'
    BY <1>0, <1>3 DEF MediaTypeOK
<1> QED BY <1>0, <1>1, <1>4, <1>5, <1>6 DEF MediaIInv, KeptHaveFiles, NothingNeededGoes

(* A collection marks the items of one log: they were rejected and nothing *)
(* needs them.                                                             *)
LEMMA MarkEvictedKeeps ==
    ASSUME MediaIInv, NEW k \in Kinds, MarkEvicted(k)
    PROVE  MediaIInv' /\ NothingNeededGoes
<1> DEFINE gone == {i \in letting.mark : i[1] = k}
<1>0. /\ LogsOK /\ MakingOK /\ MediaTypeOK /\ LettingOK /\ letting # NoneLeft
      /\ meddled \subseteq Recorded /\ KeptHaveFiles
      /\ letting' = [mark |-> letting.mark \ gone, remove |-> letting.remove \cup gone]
      /\ UNCHANGED <<mediaLock, mediaFile, making, mediaOpen, dryRun, meddled, mediaStops>>
  <2>1. letting # NoneLeft
      BY DEF MarkEvicted, NoneLeft
  <2> QED BY <2>1, Zenon DEF MediaIInv, MarkEvicted
<1>1. PICK log : log = [n \in DOMAIN made[k] |->
                           [made[k][n] EXCEPT !.kept = @ /\ <<k, n>> \notin gone]]
                 /\ made' = [made EXCEPT ![k] = log]
    BY Zenon DEF MarkEvicted
<1>2. made' = [made EXCEPT ![k] = log]
    BY <1>1
<1>3. PICK last \in Nat : last = Len(made[k])
    BY <1>0, LogsAre
<1>4. /\ DOMAIN made[k] = 1..last
      /\ \A n \in 1..last : made[k][n] \in MadeRecord
    BY <1>0, <1>3, LogsAre
<1>5. ASSUME NEW n \in 1..last
      PROVE  /\ log[n] \in MadeRecord
             /\ log[n].from = made[k][n].from /\ log[n].status = made[k][n].status
             /\ log[n].kept <=> made[k][n].kept /\ <<k, n>> \notin gone
  <2>1. log[n] = [made[k][n] EXCEPT !.kept = made[k][n].kept /\ <<k, n>> \notin gone]
      BY <1>1, <1>4
  <2>2. PICK b \in BOOLEAN : b <=> made[k][n].kept /\ <<k, n>> \notin gone
      OBVIOUS
  <2>3. log[n] = [made[k][n] EXCEPT !.kept = b]
      BY <2>1, <2>2
  <2> QED BY <2>2, <2>3, <1>4 DEF MadeRecord
<1>6. log \in Seq(MadeRecord) /\ Len(log) = last
  <2>1. log \in [1..last -> MadeRecord]
      BY <1>1, <1>4, <1>5
  <2> QED BY <2>1, SeqDef, LenProperties
<1>7. made' \in [Kinds -> Seq(MadeRecord)] /\ \A j \in Kinds : Len(made'[j]) = Len(made[j])
    BY <1>0, <1>2, <1>3, <1>6 DEF LogsOK
<1>8. \A j \in Kinds : DOMAIN made'[j] = DOMAIN made[j] /\ Len(made[j]) \in Nat
    BY <1>0, <1>7, LogsAre, LenProperties
<1>9. Recorded' = Recorded
  <2>1. \A i \in Media : i[1] \in Kinds
      BY MediaAre
  <2> QED BY <2>1, <1>8 DEF Recorded
<1>10. ASSUME NEW i \in Recorded
       PROVE  /\ RecordOf(i)'.from = RecordOf(i).from /\ RecordOf(i)'.status = RecordOf(i).status
              /\ RecordOf(i)'.kept <=> RecordOf(i).kept /\ i \notin gone
  <2>1. PICK j \in Kinds : \E n \in 1..Len(made[j]) : i = <<j, n>>
      BY <1>0, LogsAre
  <2>2. PICK n \in 1..Len(made[j]) : i = <<j, n>>
      BY <2>1
  <2>3. RecordOf(i) = made[j][n] /\ RecordOf(i)' = made'[j][n]
      BY <2>2 DEF RecordOf
  <2>4. CASE j = k
    <3>1. made'[j][n] = log[n] /\ n \in 1..last
        BY <1>0, <1>2, <1>3, <2>4 DEF LogsOK
    <3> QED BY <2>2, <2>3, <2>4, <3>1, <1>5
  <2>5. CASE j # k
    <3>1. made'[j] = made[j]
        BY <1>0, <1>2, <2>5 DEF LogsOK
    <3>2. i \notin gone
        BY <2>2, <2>5
    <3> QED BY <2>3, <3>1, <3>2
  <2> QED BY <2>4, <2>5
<1>11. LockedMedia' = LockedMedia
    BY <1>0, <1>9 DEF LockedMedia
<1>12. LogsGoOn
    BY <1>0, <1>9, <1>10, <1>11 DEF LogsGoOn
<1>13. Pinned' = Pinned /\ Pinned \subseteq Recorded
    BY <1>0, <1>12, NeedsStay
<1>14. \A i \in gone : i \in Recorded \ Pinned /\ RecordOf(i).status = "rejected"
                       /\ mediaFile[i] = "own"
    BY <1>0 DEF LettingOK
<1>15. ASSUME NEW i \in Recorded
       PROVE  RecordOf(i).kept \in BOOLEAN /\ RecordOf(i)'.kept \in BOOLEAN
  <2>1. PICK j \in Kinds : \E n \in 1..Len(made[j]) : i = <<j, n>>
      BY <1>0, LogsAre
  <2>2. PICK n \in 1..Len(made[j]) : i = <<j, n>>
      BY <2>1
  <2>3. RecordOf(i) = made[j][n] /\ RecordOf(i)' = made'[j][n]
      BY <2>2 DEF RecordOf
  <2>4. made[j][n] \in MadeRecord /\ made'[j][n] \in MadeRecord
      BY <1>0, <1>7, LogsAre, ElementOfSeq
  <2> QED BY <2>3, <2>4 DEF MadeRecord
<1>16. LogsOK'
  <2>1. \A i \in Recorded : /\ RecordOf(i)'.kept \/ RecordOf(i)'.status = "rejected"
                            /\ i \in Pinned => RecordOf(i)'.kept = RecordOf(i).kept
      BY <1>0, <1>10, <1>14, <1>15 DEF LogsOK
  <2>2. \A j \in Kinds : /\ Len(made'[j]) \in Nat /\ Len(made'[j]) <= MaxMade[j]
                         /\ Len(made[j]) <= Len(made'[j])
      BY <1>0, <1>7, <1>8 DEF LogsOK
  <2> QED BY <2>1, <2>2, <1>0, <1>7, <1>9, <1>12, LogsKept
<1>17. MakingOK'
    BY <1>0 DEF MakingOK, LettingOK
<1>18. LettingOK'
  <2>1. letting'.mark \subseteq letting.mark /\ letting'.remove = letting.remove \cup gone
        /\ \A i \in letting'.mark : i \notin gone
      BY <1>0
  <2>2. ASSUME NEW i \in letting'.mark
        PROVE  /\ i \in Recorded' \ Pinned' /\ mediaFile'[i] = "own"
               /\ RecordOf(i)'.kept /\ RecordOf(i)'.status = "rejected"
      BY <1>0, <1>9, <1>10, <1>13, <2>1 DEF LettingOK
  <2>3. ASSUME NEW i \in letting'.remove
        PROVE  i \in Recorded' /\ ~RecordOf(i)'.kept /\ mediaFile'[i] = "own"
      BY <1>0, <1>9, <1>10, <1>14, <2>1 DEF LettingOK
  <2>4. mediaOpen' /\ \A j \in Kinds : making'[j] = NoMedia
      BY <1>0 DEF LettingOK
  <2> QED BY <2>2, <2>3, <2>4 DEF LettingOK
<1>19. KeptHaveFiles' /\ meddled' \subseteq Recorded'
    BY <1>0, <1>9, <1>10 DEF KeptHaveFiles
<1>20. MediaTypeOK'
  <2>1. \A j \in Kinds : made'[j] \in Seq(MadeRecord) /\ Len(made'[j]) <= MaxMade[j]
      BY <1>0, <1>7 DEF MediaTypeOK
  <2>2. \A j \in Kinds : mediaLock'[j] \in 0..Len(made'[j])
      BY <1>0, <1>7 DEF MediaTypeOK
  <2>3. letting' \in [mark: SUBSET Media, remove: SUBSET Media]
      BY <1>0 DEF MediaTypeOK
  <2> QED BY <1>0, <2>1, <2>2, <2>3 DEF MediaTypeOK
<1>21. NothingNeededGoes
    BY <1>0, <1>10, <1>13, <1>14, <1>15 DEF NothingNeededGoes
<1> QED BY <1>16, <1>17, <1>18, <1>19, <1>20, <1>21 DEF MediaIInv

(* The rest leaves the logs and the locks alone.                           *)
LEMMA CollectingKeeps ==
    ASSUME MediaIInv,
           PlanCollection \/ CollectMedia \/ CollectionFails \/ StopMedia
    PROVE  MediaIInv' /\ NothingNeededGoes
<1>0. /\ MediaTypeOK /\ MakingOK /\ LettingOK /\ KeptHaveFiles /\ meddled \subseteq Recorded
      /\ UNCHANGED <<made, mediaLock, mediaFile, making, meddled>>
    BY DEF MediaIInv, PlanCollection, CollectMedia, CollectionFails, StopMedia
<1>1. /\ LogsOK' /\ Pinned' = Pinned /\ Pinned \subseteq Recorded
      /\ Recorded' = Recorded /\ \A i : RecordOf(i)' = RecordOf(i)
    BY <1>0, LogsStand
<1>2. Collectable \subseteq Media /\ Recorded \subseteq Media
    BY DEF Collectable, Recorded
<1>3. MediaTypeOK' /\ LettingOK'
  <2>1. CASE PlanCollection
    <3>1. letting = NoneLeft /\ letting' = letting
        BY <2>1 DEF PlanCollection, Alone, WorkerFree
    <3>2. LettingOK'
        BY <3>1 DEF LettingOK, NoneLeft
    <3>3. MediaTypeOK'
        BY <2>1, <1>0, <1>2 DEF PlanCollection, MediaTypeOK
    <3> QED BY <3>2, <3>3
  <2>2. CASE CollectMedia
    <3>1. /\ mediaOpen /\ \A k \in Kinds : making[k] = NoMedia
          /\ letting' = [NoneLeft EXCEPT !.mark = {i \in dryRun : StillCollectable(i)}]
          /\ dryRun' = NoMedia /\ UNCHANGED <<mediaOpen, mediaStops>>
        BY <2>2 DEF CollectMedia, Alone, WorkerFree
    <3>2. letting' = [mark |-> {i \in dryRun : StillCollectable(i)}, remove |-> {}]
        BY <3>1 DEF NoneLeft
    <3>3. ASSUME NEW i \in letting'.mark
          PROVE  /\ i \in Media /\ i \in Recorded \ Pinned /\ mediaFile[i] = "own"
                 /\ RecordOf(i).kept /\ RecordOf(i).status = "rejected"
        BY <3>2, <1>2 DEF StillCollectable, Collectable
    <3>4. LettingOK'
        BY <3>1, <3>2, <3>3, <1>0, <1>1 DEF LettingOK
    <3>5. letting' \in [mark: SUBSET Media, remove: SUBSET Media] /\ mediaOpen' = mediaOpen
      <4>1. PICK D : D = {i \in dryRun : StillCollectable(i)}
          OBVIOUS
      <4>2. D \in SUBSET Media
          BY <1>2, <4>1 DEF StillCollectable
      <4>3. letting' = [mark |-> D, remove |-> {}]
          BY <3>2, <4>1
      <4>4. letting' \in [mark: SUBSET Media, remove: SUBSET Media]
          BY <4>2, <4>3
      <4> QED BY <3>1, <4>4
    <3>6. MediaTypeOK'
        BY <3>1, <3>5, <1>0 DEF MediaTypeOK
    <3> QED BY <3>4, <3>6
  <2>3. CASE CollectionFails
    <3>1. letting' = NoneLeft /\ UNCHANGED <<mediaOpen, dryRun, mediaStops>>
        BY <2>3 DEF CollectionFails
    <3> QED BY <3>1, <1>0 DEF LettingOK, MediaTypeOK, NoneLeft
  <2>4. CASE StopMedia
    <3>1. /\ mediaStops < MaxMediaStops /\ mediaStops' = mediaStops + 1
          /\ mediaOpen' = FALSE /\ dryRun' = NoMedia /\ letting' = NoneLeft
        BY <2>4 DEF StopMedia
    <3>2. mediaStops' \in 0..MaxMediaStops
        BY <3>1, <1>0, MediaAssumption DEF MediaTypeOK
    <3> QED BY <3>1, <3>2, <1>0 DEF LettingOK, MediaTypeOK, NoneLeft
  <2> QED BY <2>1, <2>2, <2>3, <2>4
<1>4. MakingOK' /\ KeptHaveFiles' /\ meddled' \subseteq Recorded'
    BY <1>0, <1>1 DEF MakingOK, KeptHaveFiles
<1>5. NothingNeededGoes
    BY <1>0, <1>1 DEF NothingNeededGoes
<1> QED BY <1>1, <1>3, <1>4, <1>5 DEF MediaIInv

LEMMA RemoveMediaKeeps ==
    ASSUME MediaIInv, NEW i \in Media, RemoveMedia(i)
    PROVE  MediaIInv' /\ NothingNeededGoes
<1>0. /\ MediaTypeOK /\ MakingOK /\ LettingOK /\ KeptHaveFiles /\ meddled \subseteq Recorded
      /\ i \in letting.remove
      /\ mediaFile' = [mediaFile EXCEPT ![i] = "none"]
      /\ letting' = [letting EXCEPT !.remove = @ \ {i}]
      /\ UNCHANGED <<made, mediaLock, making, mediaOpen, dryRun, meddled, mediaStops>>
    BY DEF MediaIInv, RemoveMedia
<1>1. /\ LogsOK' /\ Pinned' = Pinned /\ Pinned \subseteq Recorded
      /\ Recorded' = Recorded /\ \A x : RecordOf(x)' = RecordOf(x)
    BY <1>0, LogsStand
<1>2. /\ letting'.mark = letting.mark /\ letting'.remove = letting.remove \ {i}
      /\ letting \in [mark: SUBSET Media, remove: SUBSET Media]
      /\ letting' \in [mark: SUBSET Media, remove: SUBSET Media]
    BY <1>0 DEF MediaTypeOK
<1>3. letting # NoneLeft
    BY <1>0 DEF NoneLeft
<1>4. ~RecordOf(i).kept /\ mediaFile[i] = "own" /\ i \in Recorded
    BY <1>0 DEF LettingOK
<1>5. \A x \in Media : x # i => mediaFile'[x] = mediaFile[x]
    BY <1>0 DEF MediaTypeOK
<1>6. \A x \in letting.mark : x # i
  <2>1. ASSUME i \in letting.mark PROVE FALSE
    <3>1. i \in Recorded /\ i \notin Pinned
        BY <2>1, <1>0 DEF LettingOK
    <3> QED BY <2>1, <1>0, <1>4, <3>1 DEF LettingOK
  <2> QED BY <2>1
<1>7. LettingOK'
    BY <1>0, <1>1, <1>2, <1>3, <1>5, <1>6 DEF LettingOK
<1>8. MediaTypeOK'
    BY <1>0, <1>2 DEF MediaTypeOK
<1>9. MakingOK' /\ KeptHaveFiles' /\ meddled' \subseteq Recorded'
    BY <1>0, <1>1, <1>4, <1>5 DEF MakingOK, KeptHaveFiles, Recorded
<1>10. NothingNeededGoes
    BY <1>0, <1>1, <1>4, <1>5 DEF NothingNeededGoes, Recorded
<1> QED BY <1>1, <1>7, <1>8, <1>9, <1>10 DEF MediaIInv

LEMMA MeddleKeeps ==
    ASSUME MediaIInv, NEW i \in Exposed, NEW holds \in {"own", "other", "none"}, Meddle(i, holds)
    PROVE  MediaIInv' /\ NothingNeededGoes
<1>0. /\ MediaTypeOK /\ MakingOK /\ LettingOK /\ KeptHaveFiles /\ meddled \subseteq Recorded
      /\ letting = NoneLeft /\ i \in Recorded \ meddled
      /\ mediaFile' = [mediaFile EXCEPT ![i] = holds] /\ meddled' = meddled \cup {i}
      /\ UNCHANGED <<made, mediaLock, making, mediaOpen, dryRun, letting, mediaStops>>
    BY DEF MediaIInv, Meddle
<1>1. /\ LogsOK' /\ Pinned' = Pinned /\ Pinned \subseteq Recorded
      /\ Recorded' = Recorded /\ \A x : RecordOf(x)' = RecordOf(x)
    BY <1>0, LogsStand
<1>2. \A x \in Media : x # i => mediaFile'[x] = mediaFile[x]
    BY <1>0 DEF MediaTypeOK
<1>3. LettingOK'
    BY <1>0 DEF LettingOK, NoneLeft
<1>4. MediaTypeOK'
    BY <1>0 DEF MediaTypeOK
<1>5. MakingOK' /\ KeptHaveFiles' /\ meddled' \subseteq Recorded'
    BY <1>0, <1>1, <1>2 DEF MakingOK, KeptHaveFiles, Recorded
<1>6. NothingNeededGoes
    BY <1>0, <1>1, <1>2 DEF NothingNeededGoes, Recorded
<1> QED BY <1>1, <1>3, <1>4, <1>5, <1>6 DEF MediaIInv

LEMMA MediaStart == MediaInit => MediaIInv
<1> SUFFICES ASSUME MediaInit PROVE MediaIInv
    OBVIOUS
<1>1. \A k \in Kinds : made[k] = << >> /\ mediaLock[k] = 0 /\ making[k] = NoMedia
    BY DEF MediaInit
<1>2. << >> \in Seq(MadeRecord) /\ Len(<< >>) = 0
    OBVIOUS
<1>3. \A k \in Kinds : MaxMade[k] \in Nat
    BY MediaAssumption
<1>4. Recorded = {} /\ LockedMedia = {}
  <2>1. \A i \in Media : made[i[1]] = << >>
      BY <1>1, MediaAre
  <2> QED BY <2>1 DEF Recorded, LockedMedia
<1>5. NeededFresh = {}
    BY <1>4 DEF NeededFresh, LockedFreshly, Above
<1>6. LogsOK
    BY <1>1, <1>2, <1>3, <1>4, <1>5 DEF LogsOK, MediaInit
<1>7. MediaTypeOK
    BY <1>1, <1>2, <1>3, MediaAssumption DEF MediaTypeOK, MediaInit, NoneLeft
<1> QED BY <1>1, <1>4, <1>6, <1>7
        DEF MediaIInv, MakingOK, LettingOK, KeptHaveFiles, MediaInit, NoneLeft

LEMMA MediaStepKeeps == MediaIInv /\ MediaNext => MediaIInv' /\ NothingNeededGoes
BY StartMakingKeeps, FinishMakingKeeps, MarkEvictedKeeps, SelectMediaKeeps, RejectMediaKeeps,
   LockMediaKeeps, RemoveMediaKeeps, CollectingKeeps, MeddleKeeps, OpenMediaKeeps,
   Zenon DEF MediaNext

LEMMA MediaRests == MediaIInv /\ UNCHANGED mediaVars => MediaIInv'
<1> SUFFICES ASSUME MediaIInv, UNCHANGED mediaVars PROVE MediaIInv'
    OBVIOUS
<1>1. /\ UNCHANGED <<made, mediaLock, mediaFile, making, mediaOpen, dryRun, letting, meddled,
                     mediaStops>>
      /\ MediaTypeOK /\ MakingOK /\ LettingOK /\ KeptHaveFiles /\ meddled \subseteq Recorded
    BY DEF MediaIInv, mediaVars
<1>2. /\ LogsOK' /\ Pinned' = Pinned
      /\ Recorded' = Recorded /\ \A x : RecordOf(x)' = RecordOf(x)
    BY <1>1, LogsStand
<1> QED BY <1>1, <1>2 DEF MediaIInv, MediaTypeOK, MakingOK, LettingOK, KeptHaveFiles

(* The invariant of what is made and let go, with the types: a collection  *)
(* runs alone and has in hand only what was rejected, nothing needs and    *)
(* nobody has changed; what is locked is kept (media.rs, style.rs,         *)
(* cast.rs, voice.rs and dubbing.rs).                                      *)
THEOREM MediaInvariance == MediaSpec => []MediaIInv
<1>1. MediaInit => MediaIInv
    BY MediaStart
<1>2. MediaIInv /\ [MediaNext]_mediaVars => MediaIInv'
    BY MediaStepKeeps, MediaRests
<1> QED BY <1>1, <1>2, PTL DEF MediaSpec

(* Whatever is kept has its bytes, but for what was done to files from     *)
(* outside, and a locked voice or line has all it was made from.           *)
THEOREM LockedStaysWhole == MediaSpec => []LockedIsWhole
<1>1. MediaIInv => LockedIsWhole
  <2> SUFFICES ASSUME MediaIInv PROVE LockedIsWhole
      OBVIOUS
  <2>1. \A i \in NeededFresh : i[1] # "style" => RecordOf(i).kept
      BY DEF MediaIInv, LogsOK
  <2>2. WithParents(WithParents(LockedFreshly)) = NeededFresh
      BY PinnedIs
  <2>3. \A i \in WithParents(WithParents(LockedFreshly)) : i[1] # "style" => RecordOf(i).kept
      BY <2>1, <2>2
  <2>4. \A i \in Recorded \ meddled : RecordOf(i).kept => mediaFile[i] = "own"
      BY DEF MediaIInv, KeptHaveFiles
  <2> QED BY <2>3, <2>4, Zenon DEF LockedIsWhole, LockedFreshly
<1> QED BY <1>1, MediaInvariance, PTL

(* No step marks or removes what is locked or needed by what is, nor       *)
(* touches a file of other bytes, however old the dry run (collect,        *)
(* reconcile).                                                             *)
THEOREM PinnedStays == MediaSpec => PinnedIsNeverLetGo
<1>1. MediaIInv /\ [MediaNext]_mediaVars => [NothingNeededGoes]_mediaVars
    BY MediaStepKeeps
<1> QED BY <1>1, MediaInvariance, PTL DEF MediaSpec, PinnedIsNeverLetGo
=============================================================================
