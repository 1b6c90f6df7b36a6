------------------------------ MODULE MCParts ------------------------------
(***************************************************************************)
(* Instances for TLC of the parts that are modelled each for itself: shot  *)
(* videos, paid documents, the shot plan, voice auditions, the collection  *)
(* of media, the agents' desk, the runtime's registries of limiters and    *)
(* locks, a shot's files under writes that fail, exports, casting images,  *)
(* calls of processes, and files on the disk.  They share no state here,   *)
(* so one of them is chosen to run and the others stay as they begin; the  *)
(* states are the sum of theirs and not their product, and an invariant of *)
(* one part holds of the others' first state.                              *)
(***************************************************************************)
EXTENDS ShotVideo, PaidDocument, ShotPlan, SpokenTakes, MediaCollection,
        AgentDesk, AgentGrants, LiveRegistries, ShotPublication, PackageExport,
        PaidImages, ProcessCalls, ProjectFiles, TLC

CONSTANTS h1, api, agent, p, q, a, b, s1, s2, d1, g1, g2

VARIABLE part

partsVars == <<videoVars, docVars, planVars, speechVars, mediaVars, deskVars,
               grantVars, registryVars, vars, exportVars,
               imageVars, processVars, filesVars, part>>

Parts == {"video", "document", "plan", "speech", "media", "desk", "grants",
          "registries", "files", "export", "images", "processes", "disk", "creation"}

(* The first shot's ID and the next one.                                   *)
MCGiven == {<<s1, 1>>, <<s1, 2>>}

(* The sample that the other one may replace.                              *)
MCExposed == {<<"style", 1>>}

MCMaxMade == [style |-> 2, cast |-> 2, voice |-> 1, line |-> 1]

PartsTypeOK ==
    /\ part = "video" => VideoTypeOK
    /\ part = "document" => DocTypeOK
    /\ part = "plan" => PlanTypeOK
    /\ part = "speech" => SpeechTypeOK
    /\ part = "media" => MediaTypeOK
    /\ part = "desk" => DeskTypeOK
    /\ part = "grants" => GrantsTypeOK
    /\ part = "registries" => RegistryTypeOK
    /\ part = "files" => TypeOK
    /\ part = "export" => ExportTypeOK
    /\ part = "images" => ImagesTypeOK
    /\ part = "processes" => ProcessTypeOK
    /\ part \in {"disk", "creation"} => FilesTypeOK

PartsInit ==
    /\ part \in Parts
    /\ VideoInit /\ DocInit /\ PlanInit /\ SpeechInit /\ MediaInit /\ DeskInit
    /\ GrantsInit /\ RegistryInit /\ Init /\ ExportInit /\ ImagesInit
    /\ ProcessInit /\ FilesInit
    /\ part # "speech" => speaker = p
    /\ part # "export" => exchanges
    /\ part # "images" => generator = g1
    /\ part # "processes" => asking.kind = "plugin"

Rest(others) == part' = part /\ UNCHANGED others

(* The two inputs of videos are interchangeable, and so are the two        *)
(* characters: the first request is for h1, the first audition is a's.     *)
FirstInput == videoCount.asks = 0 /\ ask' # Nil => ask'.hash = h1

FirstCharacter == speechCount.asks = 0 => saying'[b] = saying[b]

PartsNext ==
    \/ /\ part = "video" /\ VideoNext /\ FirstInput
       /\ Rest(<<docVars, planVars, speechVars, mediaVars, deskVars,
                 grantVars, registryVars, vars, exportVars, imageVars,
                 processVars, filesVars>>)
    \/ /\ part = "document" /\ DocNext
       /\ Rest(<<videoVars, planVars, speechVars, mediaVars, deskVars,
                 grantVars, registryVars, vars, exportVars, imageVars,
                 processVars, filesVars>>)
    \/ /\ part = "plan" /\ PlanNext
       /\ Rest(<<videoVars, docVars, speechVars, mediaVars, deskVars,
                 grantVars, registryVars, vars, exportVars, imageVars,
                 processVars, filesVars>>)
    \/ /\ part = "speech" /\ SpeechNext /\ FirstCharacter
       /\ Rest(<<videoVars, docVars, planVars, mediaVars, deskVars,
                 grantVars, registryVars, vars, exportVars, imageVars,
                 processVars, filesVars>>)
    \/ /\ part = "media" /\ MediaNext
       /\ Rest(<<videoVars, docVars, planVars, speechVars, deskVars,
                 grantVars, registryVars, vars, exportVars, imageVars,
                 processVars, filesVars>>)
    \/ /\ part = "desk" /\ DeskNextStep
       /\ Rest(<<videoVars, docVars, planVars, speechVars, mediaVars,
                 grantVars, registryVars, vars, exportVars, imageVars,
                 processVars, filesVars>>)
    \/ /\ part = "grants" /\ GrantsNext
       /\ Rest(<<videoVars, docVars, planVars, speechVars, mediaVars,
                 deskVars, registryVars, vars, exportVars, imageVars,
                 processVars, filesVars>>)
    \/ /\ part = "registries" /\ RegistryNext
       /\ Rest(<<videoVars, docVars, planVars, speechVars, mediaVars,
                 deskVars, grantVars, vars, exportVars, imageVars,
                 processVars, filesVars>>)
    \/ /\ part = "files" /\ Next
       /\ Rest(<<videoVars, docVars, planVars, speechVars, mediaVars,
                 deskVars, grantVars, registryVars, exportVars, imageVars,
                 processVars, filesVars>>)
    \/ /\ part = "export" /\ ExportNext
       /\ Rest(<<videoVars, docVars, planVars, speechVars, mediaVars,
                 deskVars, grantVars, registryVars, vars, imageVars,
                 processVars, filesVars>>)
    \/ /\ part = "images" /\ ImagesNext
       /\ Rest(<<videoVars, docVars, planVars, speechVars, mediaVars,
                 deskVars, grantVars, registryVars, vars, exportVars,
                 processVars, filesVars>>)
    \/ /\ part = "processes" /\ ProcessNext
       /\ Rest(<<videoVars, docVars, planVars, speechVars, mediaVars,
                 deskVars, grantVars, registryVars, vars, exportVars,
                 imageVars, filesVars>>)
    \/ /\ \/ part = "disk" /\ WritesNext
          \/ part = "creation" /\ CreatesNext
       /\ Rest(<<videoVars, docVars, planVars, speechVars, mediaVars,
                 deskVars, grantVars, registryVars, vars, exportVars,
                 imageVars, processVars>>)

PartsSpec == PartsInit /\ [][PartsNext]_partsVars
=============================================================================
