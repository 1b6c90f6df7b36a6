---------------------------- MODULE ProjectFiles ----------------------------
(***************************************************************************)
(* How a project's files come to the disk: write_atomic with the directory *)
(* it writes in (crates/kineto-project/src/fs.rs), which every other       *)
(* module takes as one step, and create_with_files, which makes a project  *)
(* (manifest.rs).                                                          *)
(*                                                                         *)
(* Threads write files of one directory of a project, which is not there   *)
(* at first.  A file has one writer at a time; the turn and the lock of    *)
(* the job store see to that.  Others try to create one project elsewhere. *)
(* Any step may fail, the process may stop anywhere, and so may the power: *)
(* then the bytes of a file that were not flushed are lost, and a name     *)
(* that was given, or given anew, and whose directory was not flushed      *)
(* since may be lost or not.  The versions of a file are numbered.  Left   *)
(* out: links and other things in a file's place, and the lock of the      *)
(* one session that writes, which is the operating system's.               *)
(***************************************************************************)
EXTENDS Integers

CONSTANTS
    FileThreads,  \* threads that write
    FilesOfDir,   \* files of the directory
    MaxWritten,   \* bounds the versions of a file
    Creators      \* who tries to create the project

ASSUME FilesAssumption == MaxWritten \in Nat

Torn == -1  \* a file, or a project, of which something is missing

WriteSteps == {"idle", "makeDir", "flushUp", "write", "sync", "rename", "flush"}
CreateSteps == {"idle", "stage", "flushTree", "rename", "flush", "done"}

VARIABLES
    fileWriter,  \* the threads' writes under way
    dirThere,    \* whether the directory is there
    dirNamed,    \* and would be after the power was lost
    inPlace,     \* the version one finds under each name
    mayStay,     \* the versions a loss of power may leave there
    returned,    \* the version the last write that returned put there
    creating,    \* the creations under way
    project,     \* the project, a version of which there is but one
    projectStay, \* what a loss of power may leave of it
    created,     \* whether a creation has returned
    lost         \* whether a written file went with its directory

fileVars == <<fileWriter, dirThere, dirNamed, inPlace, mayStay, returned>>
createVars == <<creating, project, projectStay, created>>
filesVars == <<fileVars, createVars, lost>>

FilesTypeOK ==
    /\ fileWriter \in [FileThreads ->
           [step: WriteSteps, file: FilesOfDir, synced: BOOLEAN]]
    /\ dirThere \in BOOLEAN /\ dirNamed \in BOOLEAN
    /\ inPlace \in [FilesOfDir -> Torn..MaxWritten]
    /\ mayStay \in [FilesOfDir -> SUBSET (Torn..MaxWritten)]
    /\ returned \in [FilesOfDir -> 0..MaxWritten]
    /\ creating \in [Creators -> [step: CreateSteps, flushed: BOOLEAN]]
    /\ project \in {Torn, 0, 1} /\ projectStay \subseteq {Torn, 0, 1}
    /\ created \in BOOLEAN /\ lost \in BOOLEAN

NotWriting ==
    [step |-> "idle", file |-> CHOOSE f \in FilesOfDir : TRUE, synced |-> FALSE]
NotCreating == [step |-> "idle", flushed |-> FALSE]

FilesInit ==
    /\ fileWriter = [t \in FileThreads |-> NotWriting]
    /\ dirThere = FALSE /\ dirNamed = FALSE
    /\ inPlace = [f \in FilesOfDir |-> 0]
    /\ mayStay = [f \in FilesOfDir |-> {0}]
    /\ returned = [f \in FilesOfDir |-> 0]
    /\ creating = [c \in Creators |-> NotCreating]
    /\ project = 0 /\ projectStay = {0} /\ created = FALSE
    /\ lost = FALSE
-----------------------------------------------------------------------------
(* write_atomic.                                                           *)

WriterAt(t, step) == fileWriter[t].step = step

WriterGoes(t, step) == fileWriter' = [fileWriter EXCEPT ![t].step = step]

DirKeeps == UNCHANGED <<dirThere, dirNamed>>
NamesKeep == UNCHANGED <<inPlace, mayStay, returned>>
OtherKeep == UNCHANGED <<createVars, lost>>

(* ensure_directory begins: a directory that is there is taken as it is.   *)
BeginWrite(t, f) ==
    /\ WriterAt(t, "idle") /\ inPlace[f] < MaxWritten
    /\ \A o \in FileThreads : WriterAt(o, "idle") \/ fileWriter[o].file # f
    /\ fileWriter' = [fileWriter EXCEPT ![t] =
           [step |-> IF dirThere THEN "write" ELSE "makeDir",
            file |-> f, synced |-> FALSE]]
    /\ DirKeeps /\ NamesKeep /\ OtherKeep

(* create_dir; whoever finds that another one made it meanwhile goes on    *)
(* just the same.                                                          *)
MakeDir(t) ==
    /\ WriterAt(t, "makeDir") /\ WriterGoes(t, "flushUp")
    /\ dirThere' = TRUE /\ UNCHANGED dirNamed
    /\ NamesKeep /\ OtherKeep

(* The directory above is flushed, and with it this one's name.            *)
FlushUp(t) ==
    /\ WriterAt(t, "flushUp") /\ WriterGoes(t, "write")
    /\ dirNamed' = TRUE /\ UNCHANGED dirThere
    /\ NamesKeep /\ OtherKeep

(* Mutant: a file's bytes are not flushed before it is renamed.            *)
WrittenThen_Rename == "rename"

WrittenThen == "sync"

WriteTemp(t) ==
    /\ WriterAt(t, "write") /\ WriterGoes(t, WrittenThen)
    /\ DirKeeps /\ NamesKeep /\ OtherKeep

SyncTemp(t) ==
    /\ WriterAt(t, "sync")
    /\ fileWriter' = [fileWriter EXCEPT ![t].step = "rename", ![t].synced = TRUE]
    /\ DirKeeps /\ NamesKeep /\ OtherKeep

RenameTemp(t) ==
    LET f == fileWriter[t].file
        version == inPlace[f] + 1
    IN  /\ WriterAt(t, "rename") /\ WriterGoes(t, "flush")
        /\ inPlace' = [inPlace EXCEPT ![f] = version]
        /\ mayStay' = [mayStay EXCEPT ![f] =
               @ \cup {IF fileWriter[t].synced THEN version ELSE Torn}]
        /\ UNCHANGED returned /\ DirKeeps /\ OtherKeep

(* The directory is flushed with every name in it, and the write returns.  *)
FlushDir(t) ==
    LET f == fileWriter[t].file
    IN  /\ WriterAt(t, "flush")
        /\ fileWriter' = [fileWriter EXCEPT ![t] = NotWriting]
        /\ mayStay' = [g \in FilesOfDir |->
               IF Torn \in mayStay[g] THEN mayStay[g] \ (0..inPlace[g] - 1)
               ELSE {inPlace[g]}]
        /\ returned' = [returned EXCEPT ![f] = inPlace[f]]
        /\ UNCHANGED inPlace /\ DirKeeps /\ OtherKeep

(* A step fails; the file beside is removed.  The directory, or the new    *)
(* version if it has its name already, stays.                              *)
WriteFails(t) ==
    /\ ~WriterAt(t, "idle") /\ fileWriter' = [fileWriter EXCEPT ![t] = NotWriting]
    /\ DirKeeps /\ NamesKeep /\ OtherKeep
-----------------------------------------------------------------------------
(* create_with_files.                                                      *)

CreatorAt(c, step) == creating[c].step = step

CreatorGoes(c, step) == creating' = [creating EXCEPT ![c].step = step]

FilesKeep == UNCHANGED <<fileVars, lost>>

(* Nothing is under the name; a directory beside it is begun.              *)
BeginCreate(c) ==
    /\ CreatorAt(c, "idle") /\ project = 0 /\ CreatorGoes(c, "stage")
    /\ UNCHANGED <<project, projectStay, created>> /\ FilesKeep

(* Mutant: the project is renamed before its directories are flushed.      *)
StagedThen_Rename == "rename"

StagedThen == "flushTree"

(* Source, further files and manifest, each flushed as it is written.      *)
StageFiles(c) ==
    /\ CreatorAt(c, "stage") /\ CreatorGoes(c, StagedThen)
    /\ UNCHANGED <<project, projectStay, created>> /\ FilesKeep

FlushTree(c) ==
    /\ CreatorAt(c, "flushTree")
    /\ creating' = [creating EXCEPT ![c].step = "rename", ![c].flushed = TRUE]
    /\ UNCHANGED <<project, projectStay, created>> /\ FilesKeep

(* A project that another has put there is not renamed over.               *)
RenameProject(c) ==
    /\ CreatorAt(c, "rename")
    /\ \/ /\ project = 0 /\ project' = 1 /\ CreatorGoes(c, "flush")
          /\ projectStay' =
                 projectStay \cup {IF creating[c].flushed THEN 1 ELSE Torn}
       \/ /\ project # 0 /\ creating' = [creating EXCEPT ![c] = NotCreating]
          /\ UNCHANGED <<project, projectStay>>
    /\ UNCHANGED created /\ FilesKeep

FlushProject(c) ==
    /\ CreatorAt(c, "flush") /\ CreatorGoes(c, "done")
    /\ projectStay' = projectStay \ {0} /\ created' = TRUE
    /\ UNCHANGED project /\ FilesKeep

(* The directory beside is removed; the project, if it has its name        *)
(* already, stays though the creation says it failed.                      *)
CreateFails(c) ==
    /\ creating[c].step \notin {"idle", "done"}
    /\ creating' = [creating EXCEPT ![c] = NotCreating]
    /\ UNCHANGED <<project, projectStay, created>> /\ FilesKeep
-----------------------------------------------------------------------------
NothingRuns ==
    /\ fileWriter' = [t \in FileThreads |-> NotWriting]
    /\ creating' = [c \in Creators |-> NotCreating]

StopProcess ==
    /\ NothingRuns
    /\ UNCHANGED <<dirThere, dirNamed, inPlace, mayStay, returned>>
    /\ UNCHANGED <<project, projectStay, created, lost>>

(* A directory that was never flushed above may go with all in it.         *)
LoseDir ==
    /\ dirThere /\ ~dirNamed /\ dirThere' = FALSE
    /\ inPlace' = [f \in FilesOfDir |-> 0]
    /\ returned' = [f \in FilesOfDir |-> 0]
    /\ lost' = (lost \/ \E f \in FilesOfDir : returned[f] > 0)

KeepDir ==
    /\ inPlace' \in {p \in [FilesOfDir -> UNION {mayStay[f] : f \in FilesOfDir}] :
                        \A f \in FilesOfDir : p[f] \in mayStay[f]}
    /\ UNCHANGED <<dirThere, returned, lost>>

LoseThePower ==
    /\ NothingRuns
    /\ LoseDir \/ KeepDir
    /\ dirNamed' = dirThere'
    /\ mayStay' = [f \in FilesOfDir |-> {inPlace'[f]}]
    /\ project' \in projectStay /\ projectStay' = {project'}
    /\ UNCHANGED created

WritesNext ==
    \/ \E t \in FileThreads :
          \/ \E f \in FilesOfDir : BeginWrite(t, f)
          \/ MakeDir(t) \/ FlushUp(t) \/ WriteTemp(t) \/ SyncTemp(t)
          \/ RenameTemp(t) \/ FlushDir(t) \/ WriteFails(t)
    \/ StopProcess \/ LoseThePower

CreatesNext ==
    \/ \E c \in Creators :
          \/ BeginCreate(c) \/ StageFiles(c) \/ FlushTree(c) \/ RenameProject(c)
          \/ FlushProject(c) \/ CreateFails(c)
    \/ StopProcess \/ LoseThePower

FilesNext == WritesNext \/ CreatesNext

FilesSpec == FilesInit /\ [][FilesNext]_filesVars
-----------------------------------------------------------------------------
(* Properties.                                                             *)

Everything == FilesOfDir \cup {"project"}

(* What is written is sure to stay once its directory's name is flushed.   *)
Durable == INSTANCE DurableFiles WITH
    Things <- Everything,
    content <- [x \in Everything |-> IF x = "project" THEN project ELSE inPlace[x]],
    settled <- [x \in Everything |->
        IF x = "project" THEN (IF created THEN 1 ELSE 0)
        ELSE IF dirNamed THEN returned[x] ELSE 0]

(* "A crash can leave an unpublished temp file, but never a partially      *)
(* truncated canonical file" (fs.rs), and of a project being created       *)
(* "either none of them or all of them" (manifest.rs): whichever steps     *)
(* fail and whenever the power is lost, each file is one of its versions,  *)
(* whole, and not older than what a write returned for, once the name of   *)
(* the directory they are in is on the disk.                               *)
ImplementsDurableFiles == Durable!DurableSpec

(* No run checks the following; the README says what TLC finds.            *)

(* "Flush it so a file later published inside this directory cannot        *)
(* outlive the directory's own name after a crash" (fs.rs).                *)
WrittenIsKept == ~lost
=============================================================================
