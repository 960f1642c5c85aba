-------------------------- MODULE ProductionStartProofs -------------------------
(***************************************************************************)
(* Proofs about ProductionStart, for all installations and any number of   *)
(* callers, replacements and inodes.                                       *)
(*                                                                         *)
(* A step of one caller leaves the others where they are (CallerIsLocal).  *)
(* What remains to be shown of each part of the invariant is what the step *)
(* does to its own caller, and to the path, the key and the entries that   *)
(* all of them share.                                                      *)
(***************************************************************************)
EXTENDS ProductionStart, TLAPS

Phases ==
  {"off", "models", "cameras", "infrared", "visible", "manifest", "verify",
   "commit", "check", "storage", "first", "second", "boundary", "look", "bind",
   "chmod", "unbind", "stat", "spawn", "serving", "closing", "unlink", "store"}
Errands == {"none", "serve", "doctor", "store"}

\* The types that the proofs need.
StartOK ==
  /\ phase \in [Callers -> Phases]
  /\ errand \in [Callers -> Errands]
  /\ DOMAIN loaded = Callers
  /\ DOMAIN reading = Callers
  /\ DOMAIN cameras = Callers
  /\ \A c \in Callers : DOMAIN cameras[c] = Modalities
  /\ place \in [Callers -> Places]
  /\ DOMAIN draft = Callers
  /\ drawn \in Nat
  /\ own \in [Callers -> Inodes \cup {None}]
  /\ identity \in [Callers -> Inodes \cup {None}]
  /\ socket \in Inodes \cup {None}

\* The steps of one caller.
CallerStep(c) ==
  \/ BeginServe(c) \/ BeginDoctor(c) \/ BeginStore(c)
  \/ Inspect(c) \/ Discover(c)
  \/ (\E m \in Modalities : OpenCamera(c, m))
  \/ ReadManifest(c) \/ VerifyModel(c) \/ CommitModel(c) \/ CheckLoaded(c)
  \/ InspectStore(c) \/ LoadKey(c)
  \/ InspectPath(c) \/ LookAgain(c) \/ Bind(c) \/ Chmod(c)
  \/ ChmodFails(c) \/ Unbind(c) \/ Stat(c) \/ Spawn(c) \/ Stop(c)
  \/ Close(c) \/ Unlink(c) \/ Die(c)

\* The others stay where they are.
Local(c) ==
  /\ UNCHANGED <<installation, models>>
  /\ \A d \in Callers \ {c} :
       /\ phase'[d] = phase[d]
       /\ errand'[d] = errand[d]
       /\ reading'[d] = reading[d]
       /\ loaded'[d] = loaded[d]
       /\ d \in swapped' <=> d \in swapped
       /\ cameras'[d] = cameras[d]
       /\ place'[d] = place[d]
       /\ draft'[d] = draft[d]
       /\ own'[d] = own[d]
       /\ identity'[d] = identity[d]

LEMMA InitOK == StartInit => StartOK
BY KeyAssumption DEF StartInit, Init, StartOK, Phases, Errands, Places, NoCameras

\* The steps of MachineKey that LoadKey and Die take.
KeyStep(c) ==
  \/ Call(c) \/ Look(c) \/ Draw(c) \/ WriteBlob(c) \/ Rename(c) \/ Create(c)
  \/ WriteKey(c) \/ Read(c) \/ SyncDirectory(c) \/ SyncKey(c) \/ Fail(c)

KeyOK ==
  /\ place \in [Callers -> Places]
  /\ DOMAIN draft = Callers
  /\ drawn \in Nat

LEMMA KeyLocal ==
  ASSUME KeyOK, NEW c \in Callers, KeyStep(c)
  PROVE  /\ KeyOK'
         /\ \A d \in Callers \ {c} : place'[d] = place[d] /\ draft'[d] = draft[d]
<1> USE DEF KeyOK, Places
<1>1. CASE Call(c) \/ Look(c) \/ WriteBlob(c) \/ Rename(c) \/ WriteKey(c)
  BY <1>1 DEF Call, Look, WriteBlob, Rename, WriteKey, Goes
<1>2. CASE Draw(c) \/ Create(c)
  BY <1>2 DEF Draw, Create, Goes
<1>3. CASE Read(c) \/ SyncDirectory(c) \/ SyncKey(c) \/ Fail(c)
  BY <1>3 DEF Read, SyncDirectory, SyncKey, Fail, Returns
<1> QED
  BY <1>1, <1>2, <1>3 DEF KeyStep

\* What a caller knows of its own start.
ProgressOK ==
  /\ phase \in [Callers -> Phases]
  /\ errand \in [Callers -> Errands]
  /\ DOMAIN loaded = Callers
  /\ DOMAIN reading = Callers
  /\ DOMAIN cameras = Callers
  /\ \A c \in Callers : DOMAIN cameras[c] = Modalities

ProgressLocal(c) ==
  \A d \in Callers \ {c} :
    /\ phase'[d] = phase[d]
    /\ errand'[d] = errand[d]
    /\ reading'[d] = reading[d]
    /\ loaded'[d] = loaded[d]
    /\ d \in swapped' <=> d \in swapped
    /\ cameras'[d] = cameras[d]

LEMMA BecomesOK ==
  ASSUME ProgressOK, NEW c \in Callers, Becomes(c, "off")
  PROVE  ProgressOK' /\ ProgressLocal(c) /\ phase'[c] = "off" /\ errand'[c] = "none"
BY DEF ProgressOK, ProgressLocal, Becomes, Phases, Errands, NoCameras

LEMMA ProceedsOK ==
  ASSUME ProgressOK, NEW c \in Callers, NEW to \in Phases, Proceeds(c, to)
  PROVE  /\ ProgressOK' /\ ProgressLocal(c)
         /\ phase'[c] = to /\ UNCHANGED <<errand, loaded, swapped, cameras>>
BY DEF ProgressOK, ProgressLocal, Proceeds

LEMMA GotOK ==
  ASSUME ProgressOK, NEW c \in Callers, NEW key, Got(c, key)
  PROVE  /\ ProgressOK' /\ ProgressLocal(c)
         /\ \/ UNCHANGED progress
            \/ phase'[c] = "off" /\ errand'[c] = "none" /\ phase[c] # "serving"
            \/ /\ phase[c] = "first" /\ phase'[c] = "second"
               /\ UNCHANGED <<errand, loaded, swapped, cameras>>
            \/ /\ phase[c] = "second" /\ phase'[c] = "boundary"
               /\ errand[c] = "serve"
               /\ UNCHANGED <<errand, loaded, swapped, cameras>>
<1>1. CASE UNCHANGED progress
  BY <1>1 DEF ProgressOK, ProgressLocal, progress
<1>2. CASE Becomes(c, "off") /\ phase[c] # "serving"
  BY <1>2, BecomesOK
<1>3. CASE Proceeds(c, "boundary") /\ phase[c] = "second" /\ errand[c] = "serve"
  BY <1>3, ProceedsOK DEF Phases
<1>4. CASE /\ phase[c] = "first"
           /\ phase' = [phase EXCEPT ![c] = "second"]
           /\ UNCHANGED <<errand, cameras, reading, loaded, swapped>>
  BY <1>4 DEF ProgressOK, ProgressLocal, Phases
<1> QED
  BY <1>1, <1>2, <1>3, <1>4 DEF Got

\* One step of load_key, and what comes of it.
LEMMA LoadKeyCases ==
  ASSUME ProgressOK, KeyOK, NEW c \in Callers, LoadKey(c)
  PROVE  /\ KeyStep(c)
         /\ UNCHANGED <<site, listening, path>>
         /\ phase[c] \in {"first", "second", "serving", "store"}
         /\ ProgressOK' /\ ProgressLocal(c)
         /\ UNCHANGED progress \/ place'[c] = "resting"
         /\ \/ UNCHANGED progress
            \/ phase'[c] = "off" /\ errand'[c] = "none" /\ phase[c] # "serving"
            \/ /\ phase[c] = "first" /\ phase'[c] = "second"
               /\ UNCHANGED <<errand, loaded, swapped, cameras>>
            \/ /\ phase[c] = "second" /\ phase'[c] = "boundary"
               /\ errand[c] = "serve"
               /\ UNCHANGED <<errand, loaded, swapped, cameras>>
<1>1. /\ UNCHANGED <<site, listening, path>>
      /\ phase[c] \in {"first", "second", "serving", "store"}
  BY DEF LoadKey
<1>2. CASE UNCHANGED progress /\ KeyStep(c)
  BY <1>1, <1>2 DEF progress, ProgressOK, ProgressLocal
<1>3. CASE /\ Read(c) \/ SyncDirectory(c) \/ SyncKey(c) \/ Fail(c)
           /\ \E key : Got(c, key)
  <2>1. place'[c] = "resting"
    BY <1>3 DEF Read, SyncDirectory, SyncKey, Fail, Returns, KeyOK
  <2>2. PICK key : Got(c, key)
    BY <1>3
  <2> QED
    BY <1>1, <1>3, <2>1, <2>2, GotOK DEF KeyStep
<1>4. \/ UNCHANGED progress /\ KeyStep(c)
      \/ /\ Read(c) \/ SyncDirectory(c) \/ SyncKey(c) \/ Fail(c)
         /\ \E key : Got(c, key)
  BY DEF LoadKey, KeyStep
<1> QED
  BY <1>2, <1>3, <1>4

\* The key is left alone by every other step, except that of a process that dies.
LEMMA CallerIsLocal ==
  ASSUME StartOK, NEW c \in Callers, CallerStep(c)
  PROVE  StartOK' /\ Local(c)
<1> DEFINE ListeningOK == /\ own \in [Callers -> Inodes \cup {None}]
                          /\ identity \in [Callers -> Inodes \cup {None}]
                          /\ socket \in Inodes \cup {None}
           ListeningLocal == \A d \in Callers \ {c} :
                               own'[d] = own[d] /\ identity'[d] = identity[d]
<1>1. ProgressOK /\ KeyOK /\ ListeningOK
  BY DEF StartOK, ProgressOK, KeyOK
<1>2. UNCHANGED <<installation, models>>
  BY DEF CallerStep, BeginServe, BeginDoctor, BeginStore, Begin, Inspect,
         Passes, Discover, OpenCamera, ReadManifest, VerifyModel, CommitModel,
         CheckLoaded, InspectStore, LoadKey, InspectPath, LookAgain, Bind,
         Chmod, ChmodFails, Unbind, Stat, Spawn, Stop, Close, Unlink, Die, site
<1>3. CASE LoadKey(c)
  <2>1. KeyOK' /\ \A d \in Callers \ {c} :
                    place'[d] = place[d] /\ draft'[d] = draft[d]
    BY <1>1, <1>3, LoadKeyCases, KeyLocal
  <2>2. ProgressOK' /\ ProgressLocal(c) /\ UNCHANGED <<listening, path>>
    BY <1>1, <1>3, LoadKeyCases
  <2> QED
    BY <1>1, <1>2, <2>1, <2>2
    DEF StartOK, ProgressOK, KeyOK, Local, ProgressLocal, listening, path
<1>4. CASE Die(c)
  <2>1. KeyOK' /\ \A d \in Callers \ {c} :
                    place'[d] = place[d] /\ draft'[d] = draft[d]
    BY <1>1, <1>4, KeyLocal DEF Die, KeyStep, vars, KeyOK
  <2>2. ProgressOK' /\ ProgressLocal(c)
    BY <1>1, <1>4, BecomesOK DEF Die
  <2>3. ListeningOK' /\ ListeningLocal
    BY <1>1, <1>4 DEF Die, Closes, Leaves
  <2> QED
    BY <1>1, <1>2, <2>1, <2>2, <2>3
    DEF StartOK, ProgressOK, KeyOK, Local, ProgressLocal
<1>5. CASE ~LoadKey(c) /\ ~Die(c)
  <2>1. UNCHANGED vars
    BY <1>5
    DEF CallerStep, BeginServe, BeginDoctor, BeginStore, Begin, Inspect, Passes,
        Discover, OpenCamera, ReadManifest, VerifyModel, CommitModel,
        CheckLoaded, InspectStore, InspectPath, LookAgain, Bind, Chmod,
        ChmodFails, Unbind, Stat, Spawn, Stop, Close, Unlink
  <2>2. ListeningOK' /\ ListeningLocal
    <3>1. CASE Bind(c)
      BY <1>1, <3>1 DEF Bind, listening, path
    <3>2. CASE Stat(c) \/ Unbind(c) \/ Close(c) \/ Unlink(c)
      BY <1>1, <3>2
      DEF Stat, Unbind, Close, Unlink, Closes, Clears, Leaves, listening, path
    <3>3. CASE UNCHANGED <<listening, path>>
      BY <1>1, <3>3 DEF listening, path
    <3> QED
      BY <1>5, <3>1, <3>2, <3>3
      DEF CallerStep, BeginServe, BeginDoctor, BeginStore, Begin, Inspect,
          Passes, Discover, OpenCamera, ReadManifest, VerifyModel, CommitModel,
          CheckLoaded, InspectStore, InspectPath, LookAgain, Chmod, ChmodFails,
          Spawn, Stop
  <2>3. ProgressOK' /\ ProgressLocal(c)
    <3>1. CASE Becomes(c, "off")
      BY <1>1, <3>1, BecomesOK
    <3>2. CASE \E to \in Phases : Proceeds(c, to)
      BY <1>1, <3>2, ProceedsOK
    <3>3. CASE BeginServe(c) \/ BeginDoctor(c) \/ BeginStore(c)
      BY <1>1, <3>1, <3>3
      DEF BeginServe, BeginDoctor, BeginStore, Begin, ProgressOK, ProgressLocal,
          Phases, Errands
    <3>4. CASE Discover(c)
      BY <1>1, <3>1, <3>4 DEF Discover, ProgressOK, ProgressLocal, Phases
    <3>5. CASE \E m \in Modalities : OpenCamera(c, m)
      BY <1>1, <3>1, <3>5
      DEF OpenCamera, ProgressOK, ProgressLocal, Phases, Modalities
    <3>6. CASE ReadManifest(c) \/ CommitModel(c)
      BY <1>1, <3>1, <3>6
      DEF ReadManifest, CommitModel, ProgressOK, ProgressLocal, Phases
    <3> QED
      BY <1>5, <3>1, <3>2, <3>3, <3>4, <3>5, <3>6
      DEF CallerStep, Inspect, Passes, VerifyModel, CheckLoaded, InspectStore,
          InspectPath, LookAgain, Bind, Chmod, ChmodFails, Unbind, Stat, Spawn,
          Stop, Close, Unlink, Phases
  <2> QED
    BY <1>1, <1>2, <2>1, <2>2, <2>3
    DEF StartOK, ProgressOK, Local, ProgressLocal, vars
<1> QED
  BY <1>3, <1>4, <1>5

\* Whoever else acts changes no caller's progress, unless the power fails.
LEMMA OthersOK ==
  ASSUME StartOK, RemoveSocket \/ ReplaceModel \/ Replug \/ PowerFails
  PROVE  StartOK' /\ UNCHANGED installation
<1>1. CASE RemoveSocket \/ ReplaceModel \/ Replug
  BY <1>1
  DEF RemoveSocket, ReplaceModel, Replug, Clears, StartOK, vars, site, progress,
      listening, path
<1>2. CASE PowerFails
  BY <1>2
  DEF PowerFails, LosePower, Clears, StartOK, Phases, Errands, Places, NoCameras,
      site
<1> QED
  BY <1>1, <1>2

LEMMA StutterOK == ASSUME StartOK, UNCHANGED startVars PROVE StartOK'
BY DEF StartOK, startVars, vars, progress, listening, path

LEMMA NextOK == StartOK /\ [StartNext]_startVars => StartOK'
BY CallerIsLocal, OthersOK, StutterOK DEF StartNext, CallerStep

-------------------------------------------------------------------------------
(***************************************************************************)
(* The models.                                                             *)
(***************************************************************************)

Calibrated(c) == CalibratedFor(config, LoadedIdentity(c))

\* What is executed are the artifacts that the manifests name, and the one that
\* is about to be opened is still the one that was checked.
Faithful(c) ==
  c \notin swapped =>
    /\ \E S : loaded[c] \in Seq(S) /\ \A m \in S : m.graph = m.manifest.digest
    /\ phase[c] = "commit" =>
         models[Loading(c)].artifact.digest = reading[c].digest

FaithfulInv == \A c \in Callers : Faithful(c)

\* The engine is built, or its models at least have been compared.
Compared(c) ==
  \/ Built(c) \/ phase[c] = "storage"
  \/ phase[c] \in {"first", "second"} /\ errand[c] = "serve"

CalibrationInv == \A c \in Callers : Compared(c) => Calibrated(c)

\* Who has loaded the same models under the same configuration ...
LEMMA SameModels ==
  ASSUME UNCHANGED installation, NEW c \in Callers, loaded'[c] = loaded[c],
         Calibrated(c)
  PROVE  Calibrated(c)'
BY DEF Calibrated, CalibratedFor, LoadedIdentity, config

\* ... and only validate_loaded_calibration lets a caller pass.
LEMMA ComparedEarlier ==
  ASSUME StartOK, CalibrationInv, NEW c \in Callers, CallerStep(c), Compared(c)'
  PROVE  loaded'[c] = loaded[c] /\ Calibrated(c)
<1>1. ProgressOK /\ KeyOK
  BY DEF StartOK, ProgressOK, KeyOK
<1>2. ASSUME Becomes(c, "off") PROVE FALSE
  BY <1>1, <1>2, BecomesOK DEF Compared, Built
<1>3. ASSUME NEW to \in Phases, Proceeds(c, to)
      PROVE  /\ loaded' = loaded /\ errand' = errand /\ phase'[c] = to
             /\ to \in {"first", "second", "storage", "boundary", "look", "bind",
                        "chmod", "unbind", "stat", "spawn", "serving", "closing",
                        "unlink"}
  BY <1>1, <1>3, ProceedsOK DEF Compared, Built, Phases
<1>4. CASE Compared(c) /\ loaded'[c] = loaded[c]
  BY <1>4 DEF CalibrationInv
<1>5. CASE BeginServe(c) \/ BeginDoctor(c) \/ BeginStore(c)
  BY <1>1, <1>2, <1>5
  DEF BeginServe, BeginDoctor, BeginStore, Begin, Compared, Built, ProgressOK
<1>6. CASE Discover(c) \/ (\E m \in Modalities : OpenCamera(c, m))
  BY <1>1, <1>2, <1>6
  DEF Discover, OpenCamera, Compared, Built, ProgressOK
<1>7. CASE ReadManifest(c) \/ VerifyModel(c) \/ CommitModel(c)
  BY <1>1, <1>2, <1>3, <1>7
  DEF ReadManifest, VerifyModel, CommitModel, Compared, Built, ProgressOK, Phases
<1>8. CASE CheckLoaded(c)
  BY <1>2, <1>3, <1>8 DEF CheckLoaded, Calibrated, Phases
<1>9. CASE LoadKey(c)
  BY <1>1, <1>4, <1>9, LoadKeyCases DEF Compared, Built, progress
<1>10. CASE Inspect(c) \/ InspectStore(c) \/ InspectPath(c)
  BY <1>1, <1>2, <1>3, <1>4, <1>10
  DEF Inspect, InspectStore, InspectPath, Passes, Compared, Built, Phases
<1>11. CASE \/ LookAgain(c) \/ Bind(c) \/ Chmod(c) \/ ChmodFails(c) \/ Unbind(c)
            \/ Stat(c) \/ Spawn(c) \/ Stop(c) \/ Close(c) \/ Unlink(c) \/ Die(c)
  BY <1>1, <1>2, <1>3, <1>4, <1>11
  DEF LookAgain, Bind, Chmod, ChmodFails, Unbind, Stat, Spawn, Stop, Close,
      Unlink, Die, Compared, Built, Phases
<1> QED
  BY <1>5, <1>6, <1>7, <1>8, <1>9, <1>10, <1>11 DEF CallerStep

LEMMA CalibrationNext ==
  ASSUME StartOK, CalibrationInv, [StartNext]_startVars
  PROVE  CalibrationInv'
<1>1. ASSUME NEW c \in Callers, CallerStep(c) PROVE CalibrationInv'
  <2>1. Local(c)
    BY <1>1, CallerIsLocal
  <2>2. ASSUME NEW d \in Callers, Compared(d)' PROVE Calibrated(d)'
    <3>1. loaded'[d] = loaded[d] /\ Calibrated(d)
      BY <1>1, <2>1, <2>2, ComparedEarlier
      DEF Local, Compared, Built, CalibrationInv
    <3> QED
      BY <2>1, <3>1, SameModels DEF Local
  <2> QED
    BY <2>2 DEF CalibrationInv
<1>2. CASE RemoveSocket \/ ReplaceModel \/ Replug \/ UNCHANGED startVars
  <2>1. UNCHANGED <<installation, phase, errand, loaded>>
    BY <1>2
    DEF RemoveSocket, ReplaceModel, Replug, startVars, site, progress
  <2> QED
    BY <2>1, SameModels DEF CalibrationInv, Compared, Built
<1>3. CASE PowerFails
  BY <1>3 DEF PowerFails, CalibrationInv, Compared, Built
<1> QED
  BY <1>1, <1>2, <1>3 DEF StartNext, CallerStep

LEMMA FaithfulInit == StartInit => FaithfulInv
<1> SUFFICES ASSUME StartInit, NEW c \in Callers PROVE Faithful(c)
  BY DEF FaithfulInv
<1>1. loaded[c] = <<>> /\ phase[c] = "off"
  BY DEF StartInit
<1>2. loaded[c] \in Seq({})
  BY <1>1
<1>3. \E S : loaded[c] \in Seq(S) /\ \A m \in S : m.graph = m.manifest.digest
  <2> WITNESS {}
  <2> QED
    BY <1>2
<1> QED
  BY <1>1, <1>3, Zenon DEF Faithful

\* Only VerifyModel leads to the opening of an artifact, and only CommitModel adds
\* a graph.
LEMMA FaithfulStep ==
  ASSUME StartOK, NEW c \in Callers, Faithful(c), CallerStep(c)
  PROVE  Faithful(c)'
<1>1. ProgressOK /\ KeyOK
  BY DEF StartOK, ProgressOK, KeyOK
<1>2. CASE Becomes(c, "off")
  <2>1. loaded'[c] = <<>> /\ phase'[c] = "off"
    BY <1>1, <1>2 DEF Becomes, ProgressOK
  <2>2. <<>> \in Seq({})
    OBVIOUS
  <2> QED
    BY <2>1, <2>2 DEF Faithful
<1>3. ASSUME loaded'[c] = loaded[c], c \in swapped' <=> c \in swapped,
             phase'[c] # "commit"
      PROVE  Faithful(c)'
  BY <1>3 DEF Faithful
<1>4. ASSUME NEW to \in Phases \ {"commit"}, Proceeds(c, to) PROVE Faithful(c)'
  BY <1>1, <1>3, <1>4, ProceedsOK DEF Proceeds
<1>5. CASE VerifyModel(c) /\ ~Becomes(c, "off")
  <2>1. /\ Proceeds(c, "commit")
        /\ models[Loading(c)].artifact.digest = reading[c].digest
        /\ UNCHANGED <<installation, models>>
    BY <1>5 DEF VerifyModel, site
  <2>2. UNCHANGED <<loaded, reading, swapped>>
    BY <2>1 DEF Proceeds
  <2>3. Loading(c)' = Loading(c)
    BY <2>1, <2>2 DEF Loading, config
  <2> QED
    BY <2>1, <2>2, <2>3 DEF Faithful
<1>6. CASE CommitModel(c) /\ ~Becomes(c, "off")
  <2> DEFINE new == [manifest |-> reading[c],
                     graph |-> models[Loading(c)].artifact.digest]
             old == loaded[c]
  <2>1. /\ phase[c] = "commit" /\ swapped' = swapped
        /\ loaded' = [loaded EXCEPT ![c] = Append(@, new)]
        /\ phase' = [phase EXCEPT ![c] =
             IF Len(loaded'[c]) = Len(config.models) THEN "check" ELSE "manifest"]
    BY <1>6 DEF CommitModel
  <2>2. loaded'[c] = Append(old, new) /\ phase'[c] # "commit"
    BY <1>1, <2>1 DEF ProgressOK
  <2>3. ASSUME c \notin swapped
        PROVE  \E S : /\ loaded'[c] \in Seq(S)
                      /\ \A m \in S : m.graph = m.manifest.digest
    <3>1. PICK S : old \in Seq(S) /\ \A m \in S : m.graph = m.manifest.digest
      BY <2>3 DEF Faithful
    <3>2. new.graph = new.manifest.digest
      BY <2>1, <2>3 DEF Faithful
    <3> HIDE DEF old, new
    <3>3. Append(old, new) \in Seq(S \cup {new})
      BY <3>1
    <3> QED
      BY <2>2, <3>1, <3>2, <3>3
  <2> QED
    BY <2>1, <2>2, <2>3 DEF Faithful
<1>7. CASE LoadKey(c)
  <2>1. CASE UNCHANGED progress
    BY <1>3, <1>7, <2>1 DEF LoadKey, progress
  <2>2. CASE ~UNCHANGED progress
    BY <1>1, <1>2, <1>3, <1>7, <2>2, LoadKeyCases DEF LoadKey, Got, Becomes,
       Proceeds, ProgressOK
  <2> QED
    BY <2>1, <2>2
<1>8. CASE BeginServe(c) \/ BeginDoctor(c) \/ BeginStore(c)
  BY <1>1, <1>2, <1>3, <1>8
  DEF BeginServe, BeginDoctor, BeginStore, Begin, ProgressOK
<1>9. CASE Discover(c) \/ (\E m \in Modalities : OpenCamera(c, m)) \/ ReadManifest(c)
  BY <1>1, <1>2, <1>3, <1>9 DEF Discover, OpenCamera, ReadManifest, ProgressOK
<1>10. CASE Inspect(c) \/ CheckLoaded(c) \/ InspectStore(c) \/ InspectPath(c)
  BY <1>2, <1>4, <1>10
  DEF Inspect, CheckLoaded, InspectStore, InspectPath, Passes, Phases
<1>11. CASE \/ LookAgain(c) \/ Bind(c) \/ Chmod(c) \/ ChmodFails(c) \/ Unbind(c)
            \/ Stat(c) \/ Spawn(c) \/ Stop(c) \/ Close(c) \/ Unlink(c) \/ Die(c)
  BY <1>2, <1>4, <1>11
  DEF LookAgain, Bind, Chmod, ChmodFails, Unbind, Stat, Spawn, Stop, Close,
      Unlink, Die, Phases
<1> QED
  BY <1>2, <1>5, <1>6, <1>7, <1>8, <1>9, <1>10, <1>11 DEF CallerStep

LEMMA FaithfulNext ==
  ASSUME StartOK, FaithfulInv, [StartNext]_startVars PROVE FaithfulInv'
<1>1. ASSUME NEW c \in Callers, CallerStep(c) PROVE FaithfulInv'
  <2>1. Local(c)
    BY <1>1, CallerIsLocal
  <2>2. ASSUME NEW d \in Callers \ {c} PROVE Faithful(d)'
    <3>1. Faithful(d) /\ Loading(d)' = Loading(d)
      BY <2>1, <2>2 DEF FaithfulInv, Local, Loading, config
    <3> QED
      BY <2>1, <2>2, <3>1 DEF Local, Faithful
  <2>3. Faithful(c)'
    BY <1>1, FaithfulStep DEF FaithfulInv
  <2> QED
    BY <2>2, <2>3 DEF FaithfulInv
<1>2. CASE ReplaceModel
  <2> SUFFICES ASSUME NEW c \in Callers PROVE Faithful(c)'
    BY DEF FaithfulInv
  <2>1. UNCHANGED <<installation, phase, reading, loaded>>
    BY <1>2 DEF ReplaceModel
  <2>2. Loading(c)' = Loading(c)
    BY <2>1 DEF Loading, config
  <2>3. c \notin swapped' =>
          /\ c \notin swapped
          /\ phase[c] = "commit" =>
               models'[Loading(c)].artifact = models[Loading(c)].artifact
    BY <1>2 DEF ReplaceModel
  <2> QED
    BY <2>1, <2>2, <2>3 DEF FaithfulInv, Faithful
<1>3. CASE RemoveSocket \/ Replug \/ UNCHANGED startVars
  <2>1. UNCHANGED <<installation, models, progress>>
    BY <1>3 DEF RemoveSocket, Replug, startVars, site
  <2> QED
    BY <2>1 DEF progress, FaithfulInv, Faithful, Loading, config
<1>4. CASE PowerFails
  <2> SUFFICES ASSUME NEW c \in Callers PROVE Faithful(c)'
    BY DEF FaithfulInv
  <2>1. loaded'[c] = <<>> /\ phase'[c] = "off"
    BY <1>4 DEF PowerFails
  <2>2. <<>> \in Seq({})
    OBVIOUS
  <2> QED
    BY <2>1, <2>2 DEF Faithful
<1> QED
  BY <1>1, <1>2, <1>3, <1>4 DEF StartNext, CallerStep

\* The models of an engine are those its thresholds were measured with,
\* whatever replaces the files while it is built (validate_loaded_calibration);
\* and unless an artifact is replaced between the check of its digest and its
\* opening, what is executed is what the manifests name (OnnxSession::load).
THEOREM ModelsCorrect == StartSpec => []BuiltAsCalibrated
<1> DEFINE Inv == StartOK /\ CalibrationInv /\ FaithfulInv
<1>1. StartInit => Inv
  BY InitOK, FaithfulInit DEF StartInit, CalibrationInv, Compared, Built
<1>2. Inv /\ [StartNext]_startVars => Inv'
  BY NextOK, CalibrationNext, FaithfulNext
<1>3. Inv => BuiltAsCalibrated
  <2> SUFFICES ASSUME Inv, NEW c \in Callers, Built(c)
               PROVE  /\ Calibrated(c)
                      /\ c \notin swapped =>
                           \A i \in DOMAIN loaded[c] :
                             loaded[c][i].graph = loaded[c][i].manifest.digest
    BY DEF BuiltAsCalibrated, Calibrated
  <2>1. Calibrated(c)
    BY DEF CalibrationInv, Compared
  <2>2. ASSUME c \notin swapped, NEW i \in DOMAIN loaded[c]
        PROVE  loaded[c][i].graph = loaded[c][i].manifest.digest
    <3> DEFINE old == loaded[c]
    <3>1. PICK S : old \in Seq(S) /\ \A m \in S : m.graph = m.manifest.digest
      BY <2>2 DEF FaithfulInv, Faithful
    <3>2. i \in DOMAIN old
      BY <2>2
    <3> HIDE DEF old
    <3>3. old[i] \in S
      BY <3>1, <3>2
    <3> QED
      BY <3>1, <3>3 DEF old
  <2> QED
    BY <2>1, <2>2
<1> HIDE DEF Inv
<1> QED
  BY <1>1, <1>2, <1>3, PTL DEF StartSpec

-------------------------------------------------------------------------------
(***************************************************************************)
(* The socket.                                                             *)
(***************************************************************************)

\* A caller has bound a socket, and knows its identity.
Bound == {"chmod", "unbind", "stat", "spawn", "serving", "closing", "unlink"}
Known == {"spawn", "serving", "closing", "unlink"}

\* The identity is that of the caller's own socket, unless that one was removed
\* between a look and an act; it is so even then if its own is at the path.
PathInv ==
  /\ \A c \in Callers :
       /\ own[c] # None <=> phase[c] \in Bound
       /\ identity[c] # None <=> phase[c] \in Known
       /\ c \in removals => own[c] # None /\ own[c] # socket
       /\ c \in removals /\ phase[c] \in Between => torn
       /\ own[c] # None /\ c \notin removals /\ ~torn => socket = own[c]
       /\ identity[c] # None /\ (~torn \/ socket = own[c]) => identity[c] = own[c]
  /\ \A c, d \in Callers : own[c] = own[d] /\ own[c] # None => c = d
  /\ socket # None => left # "nothing" \/ \E c \in Callers : own[c] = socket

LEMMA PathInit == StartInit => PathInv
BY DEF StartInit, PathInv, Bound, Known, Between

LEMMA PathStill ==
  ASSUME PathInv, UNCHANGED <<listening, path>>,
         \A c \in Callers :
           /\ phase'[c] \in Bound <=> phase[c] \in Bound
           /\ phase'[c] \in Known <=> phase[c] \in Known
           /\ phase'[c] \in Between => phase[c] \in Between \/ c \notin removals
                                                           \/ torn
  PROVE  PathInv'
BY DEF PathInv, listening, path, Bound, Known, Between

\* Nothing but the path is looked at before Bind.
LEMMA PathEarly ==
  ASSUME StartOK, PathInv, NEW c \in Callers,
         \/ BeginServe(c) \/ BeginDoctor(c) \/ BeginStore(c)
         \/ Inspect(c) \/ Discover(c)
         \/ (\E m \in Modalities : OpenCamera(c, m))
         \/ ReadManifest(c) \/ VerifyModel(c) \/ CommitModel(c) \/ CheckLoaded(c)
         \/ InspectStore(c) \/ LoadKey(c)
         \/ InspectPath(c) \/ LookAgain(c)
  PROVE  PathInv'
<1>1. ProgressOK /\ KeyOK
  BY DEF StartOK, ProgressOK, KeyOK
<1>2. CallerStep(c) /\ Local(c)
  BY CallerIsLocal DEF CallerStep
<1>3. UNCHANGED <<listening, path>>
  BY LoadKeyCases, <1>1
  DEF BeginServe, BeginDoctor, BeginStore, Begin, Inspect, Passes, Discover,
      OpenCamera, ReadManifest, VerifyModel, CommitModel, CheckLoaded,
      InspectStore, InspectPath, LookAgain
<1>4. \/ phase'[c] = phase[c]
      \/ phase[c] \notin Bound /\ phase'[c] \notin Bound
  <2>1. CASE LoadKey(c)
    BY <1>1, <2>1, LoadKeyCases DEF Bound, progress
  <2>2. CASE ~LoadKey(c)
    BY <1>1, <2>2
    DEF BeginServe, BeginDoctor, BeginStore, Begin, Inspect, Passes, Discover,
        OpenCamera, ReadManifest, VerifyModel, CommitModel, CheckLoaded,
        InspectStore, InspectPath, LookAgain, Becomes, Proceeds, Resting, Bound,
        ProgressOK, Modalities
  <2> QED
    BY <2>1, <2>2
<1> QED
  BY <1>2, <1>3, <1>4, PathStill DEF Local, Bound, Known, Between

LEMMA PathBind == ASSUME StartOK, PathInv, NEW c \in Callers, Bind(c) PROVE PathInv'
<1>1. ProgressOK /\ Local(c)
  BY CallerIsLocal DEF CallerStep, StartOK, ProgressOK
<1>2. CASE Becomes(c, "off") /\ UNCHANGED <<listening, path>>
  BY <1>1, <1>2, PathStill, BecomesOK DEF Bind, Local, Bound, Known, Between
<1>3. CASE socket = None /\ Proceeds(c, "chmod")
  <2>1. PICK i \in Inodes : /\ \A d \in Callers : own[d] # i
                            /\ socket' = i
                            /\ own' = [own EXCEPT ![c] = i]
    BY <1>3 DEF Bind
  <2>2. phase[c] = "bind" /\ phase'[c] = "chmod"
    BY <1>1, <1>3, ProceedsOK DEF Bind, Phases
  <2>3. i # None /\ own'[c] = i /\ UNCHANGED <<identity, left, removals, torn>>
    BY <1>3, <2>1, StartAssumption DEF Bind, StartOK
  <2>4. own[c] = None /\ identity[c] = None /\ c \notin removals
    BY <2>2 DEF PathInv, Bound, Known
  <2> QED
    BY <1>1, <1>3, <2>1, <2>2, <2>3, <2>4
    DEF PathInv, Local, Bound, Known, Between
<1> QED
  BY <1>2, <1>3 DEF Bind

\* These change no more than the caller's phase.
LEMMA PathProceeds ==
  ASSUME StartOK, PathInv, NEW c \in Callers,
         Chmod(c) \/ ChmodFails(c) \/ Spawn(c) \/ Stop(c)
  PROVE  PathInv'
<1>1. ProgressOK /\ Local(c)
  BY CallerIsLocal DEF CallerStep, StartOK, ProgressOK
<1>2. CASE Chmod(c) \/ ChmodFails(c)
  BY <1>1, <1>2, PathStill, ProceedsOK
  DEF Chmod, ChmodFails, Local, Bound, Known, Between, Phases
<1>3. CASE Spawn(c) \/ Stop(c)
  BY <1>1, <1>3, PathStill, ProceedsOK
  DEF Spawn, Stop, Local, Bound, Known, Between, Phases
<1> QED
  BY <1>2, <1>3

\* A listener that closes: its own inode and identity are gone.
LEMMA PathCloses ==
  ASSUME StartOK, PathInv, NEW c \in Callers, Local(c), Closes(c),
         phase'[c] = "off",
         \* what is left at the path is nothing, ...
         \/ /\ socket' = None
            \* ... and the others' sockets are where they were, ...
            /\ \A d \in Callers \ {c} :
                 own[d] # None /\ d \notin removals => torn
         \* ... or what was there, of others or left behind.
         \/ /\ socket' = socket
            /\ left' = left \/ left' # "nothing"
            /\ socket # None /\ socket = own[c] => left' # "nothing"
  PROVE  PathInv'
<1>1. own'[c] = None /\ identity'[c] = None
  BY DEF Closes, StartOK
<1>2. removals' = removals \ {c}
  BY DEF Closes
<1>3. ~torn => ~torn'
  BY DEF Closes
<1>4. ASSUME NEW d \in Callers \ {c}, own[d] # None, ~torn' PROVE ~torn
  BY <1>4 DEF Closes
<1>5. ASSUME NEW d \in Callers
      PROVE  /\ own'[d] # None <=> phase'[d] \in Bound
             /\ identity'[d] # None <=> phase'[d] \in Known
             /\ d \in removals' => own'[d] # None /\ own'[d] # socket'
             /\ d \in removals' /\ phase'[d] \in Between => torn'
             /\ own'[d] # None /\ d \notin removals' /\ ~torn' => socket' = own'[d]
             /\ identity'[d] # None /\ (~torn' \/ socket' = own'[d]) =>
                  identity'[d] = own'[d]
  <2>1. CASE d = c
    BY <1>1, <1>2, <2>1 DEF Bound, Known
  <2>2. CASE d # c
    <3>1. /\ own'[d] = own[d] /\ identity'[d] = identity[d] /\ phase'[d] = phase[d]
          /\ d \in removals' <=> d \in removals
      BY <1>2, <2>2 DEF Local
    <3>2. /\ own[d] # None <=> phase[d] \in Bound
          /\ identity[d] # None <=> phase[d] \in Known
          /\ d \in removals => own[d] # None /\ own[d] # socket
          /\ d \in removals /\ phase[d] \in Between => torn
          /\ own[d] # None /\ d \notin removals /\ ~torn => socket = own[d]
          /\ identity[d] # None /\ (~torn \/ socket = own[d]) =>
               identity[d] = own[d]
      BY DEF PathInv
    <3>3. identity[d] # None => own[d] # None
      BY <3>2 DEF Bound, Known
    <3> QED
      BY <1>4, <2>2, <3>1, <3>2, <3>3
  <2> QED
    BY <2>1, <2>2
<1>6. \A d, e \in Callers : own'[d] = own'[e] /\ own'[d] # None => d = e
  BY <1>1 DEF PathInv, Local
<1>7. socket' # None => left' # "nothing" \/ \E d \in Callers : own'[d] = socket'
  BY DEF PathInv, Local
<1> QED
  BY <1>5, <1>6, <1>7 DEF PathInv

\* What a caller removes is its own socket, unless that was removed before by an
\* administrator.
LEMMA PathRemoves ==
  ASSUME StartOK, PathInv, NEW c \in Callers, Unbind(c) \/ Unlink(c)
  PROVE  PathInv'
<1>1. ProgressOK /\ Local(c)
  BY CallerIsLocal DEF CallerStep, StartOK, ProgressOK
<1>2. phase[c] \in {"unbind", "unlink"} /\ phase'[c] = "off" /\ Closes(c)
  BY <1>1, BecomesOK DEF Unbind, Unlink
<1>3. CASE Clears
  <2>1. own[c] # None /\ (~torn => socket = own[c])
    BY <1>2 DEF PathInv, Bound, Between
  <2>2. ASSUME NEW d \in Callers \ {c}, own[d] # None, d \notin removals, ~torn
        PROVE  FALSE
    BY <2>1, <2>2 DEF PathInv
  <2> QED
    BY <1>1, <1>2, <1>3, <2>2, PathCloses DEF Clears
<1>4. CASE Leaves(c, "failed")
  BY <1>1, <1>2, <1>4, PathCloses DEF Leaves
<1> QED
  BY <1>3, <1>4 DEF Unbind, Unlink

LEMMA PathStat == ASSUME StartOK, PathInv, NEW c \in Callers, Stat(c) PROVE PathInv'
<1>1. ProgressOK /\ Local(c)
  BY CallerIsLocal DEF CallerStep, StartOK, ProgressOK
<1>2. CASE /\ socket # None /\ Proceeds(c, "spawn")
           /\ identity' = [identity EXCEPT ![c] = socket]
           /\ UNCHANGED <<own, path>>
  <2>1. phase[c] = "stat" /\ phase'[c] = "spawn" /\ identity'[c] = socket
    BY <1>1, <1>2, ProceedsOK DEF Stat, Phases, StartOK
  <2>2. UNCHANGED <<own, socket, left, removals, torn>>
    BY <1>2 DEF path
  <2> QED
    BY <1>1, <1>2, <2>1, <2>2 DEF PathInv, Local, Bound, Known, Between
<1>3. CASE Leaves(c, "failed") /\ Becomes(c, "off") /\ Closes(c)
  BY <1>1, <1>3, BecomesOK, PathCloses DEF Leaves
<1> QED
  BY <1>2, <1>3 DEF Stat

\* If nobody came between, the identity that is found at the path is that of a
\* socket which has not been removed.
LEMMA PathClose == ASSUME StartOK, PathInv, NEW c \in Callers, Close(c) PROVE PathInv'
<1>1. ProgressOK /\ Local(c) /\ phase[c] = "closing"
  BY CallerIsLocal DEF CallerStep, StartOK, ProgressOK, Close
<1>2. identity[c] # None /\ own[c] # None
  BY <1>1 DEF PathInv, Bound, Known
<1>3. CASE /\ socket = identity[c] /\ Proceeds(c, "unlink")
           /\ UNCHANGED <<listening, path>>
  <2>1. c \notin removals \/ torn
    BY <1>2, <1>3 DEF PathInv
  <2>2. phase'[c] = "unlink"
    BY <1>1, <1>3, ProceedsOK DEF Phases
  <2> QED
    BY <1>1, <1>3, <2>1, <2>2, PathStill DEF Local, Bound, Known, Between
<1>4. CASE /\ socket # identity[c] /\ Becomes(c, "off") /\ Closes(c)
           /\ UNCHANGED <<socket, left>>
  <2>1. socket # own[c]
    BY <1>2, <1>4 DEF PathInv
  <2> QED
    BY <1>1, <1>4, <2>1, BecomesOK, PathCloses
<1>5. CASE Leaves(c, "failed") /\ Becomes(c, "off") /\ Closes(c)
  BY <1>1, <1>5, BecomesOK, PathCloses DEF Leaves
<1> QED
  BY <1>3, <1>4, <1>5 DEF Close

LEMMA PathDie == ASSUME StartOK, PathInv, NEW c \in Callers, Die(c) PROVE PathInv'
<1>1. ProgressOK /\ Local(c)
  BY CallerIsLocal DEF CallerStep, StartOK, ProgressOK
<1> QED
  BY <1>1, BecomesOK, PathCloses DEF Die, Leaves

LEMMA PathOthers ==
  ASSUME StartOK, PathInv,
         RemoveSocket \/ ReplaceModel \/ Replug \/ PowerFails \/ UNCHANGED startVars
  PROVE  PathInv'
<1>1. CASE RemoveSocket
  <2>1. UNCHANGED <<phase, own, identity>> /\ socket' = None /\ socket # None
    BY <1>1 DEF RemoveSocket, Clears, progress, listening
  <2>2. removals' = removals \cup {c \in Callers : own[c] = socket}
    BY <1>1 DEF RemoveSocket
  <2>3. torn' <=> torn \/ \E c \in Callers : own[c] = socket /\ phase[c] \in Between
    BY <1>1 DEF RemoveSocket
  <2> QED
    BY <2>1, <2>2, <2>3 DEF PathInv, Bound, Known
<1>2. CASE ReplaceModel \/ Replug \/ UNCHANGED startVars
  BY <1>2, PathStill DEF ReplaceModel, Replug, startVars, progress
<1>3. CASE PowerFails
  BY <1>3 DEF PowerFails, Clears, PathInv, Bound, Known, Between
<1> QED
  BY <1>1, <1>2, <1>3

LEMMA PathNext ==
  ASSUME StartOK, PathInv, [StartNext]_startVars PROVE PathInv'
BY PathEarly, PathBind, PathProceeds, PathStat, PathRemoves, PathClose, PathDie,
   PathOthers
DEF StartNext

LEMMA PathCorrect == StartSpec => []PathInv
<1>1. StartInit => StartOK /\ PathInv
  BY InitOK, PathInit
<1>2. StartOK /\ PathInv /\ [StartNext]_startVars => StartOK' /\ PathInv'
  BY NextOK, PathNext
<1> QED
  BY <1>1, <1>2, PTL DEF StartSpec

\* Who serves can be reached at the path, however many daemons start, fail, end
\* and die beside it, unless an administrator came between a look at the path and
\* an act (bind_owned, remove_owned_path).
THEOREM ServingCorrect == StartSpec => []ServingIsReachable
<1>1. PathInv => ServingIsReachable
  BY DEF PathInv, ServingIsReachable, Bound
<1> QED
  BY <1>1, PathCorrect, PTL

\* Every start that fails and every orderly end removes its socket, as long as the
\* calls of the file system on it succeed (bind_owned, Drop).
THEOREM StartClean == StartSpec => []StartLeavesNothing
<1>1. PathInv => StartLeavesNothing
  BY DEF PathInv, StartLeavesNothing
<1> QED
  BY <1>1, PathCorrect, PTL

-------------------------------------------------------------------------------
(***************************************************************************)
(* The key.                                                                *)
(***************************************************************************)

\* A daemon past the inspection of the storage: there is a key, since nothing
\* but a loss of power takes one away.
Keyed(c) ==
  errand[c] = "serve" /\ (phase[c] \in {"first", "second"} \/ Built(c))

KeyInv ==
  \A c \in Callers :
    /\ place[c] # "resting" => phase[c] \in {"first", "second", "serving", "store"}
    /\ place[c] \in {"writing", "renaming"} => draft[c] # None
    /\ phase[c] = "store" => errand[c] # "serve"
    /\ Keyed(c) => file # None
    /\ errand[c] = "serve" => place[c] \in {"resting", "looking", "reading"}

LEMMA KeyInit == StartInit => KeyInv
<1> SUFFICES ASSUME StartInit, NEW c \in Callers
             PROVE  place[c] = "resting" /\ phase[c] = "off" /\ errand[c] = "none"
  BY DEF KeyInv, Keyed, Built
<1>1. place[c] = "resting"
  BY DEF StartInit, Init
<1>2. phase[c] = "off" /\ errand[c] = "none"
  BY DEF StartInit
<1> QED
  BY <1>1, <1>2

LEMMA KeyLasts ==
  ASSUME KeyOK, KeyInv, NEW c \in Callers, KeyStep(c), file # None
  PROVE  file' # None
<1>1. CASE Rename(c) \/ WriteKey(c)
  BY <1>1 DEF KeyInv, Rename, WriteKey, Goes
<1>2. CASE ~Rename(c) /\ ~WriteKey(c)
  BY <1>2
  DEF KeyStep, Call, Look, Draw, WriteBlob, Create, Read, SyncDirectory, SyncKey,
      Fail
<1> QED
  BY <1>1, <1>2

\* A key that is drawn is one.
LEMMA DraftIsKey ==
  ASSUME KeyOK, KeyInv, NEW c \in Callers, KeyStep(c),
         place'[c] \in {"writing", "renaming"}
  PROVE  draft'[c] # None
<1>1. CASE Call(c) \/ Look(c) \/ WriteBlob(c) \/ Rename(c) \/ WriteKey(c)
  BY <1>1 DEF KeyOK, KeyInv, Call, Look, WriteBlob, Rename, WriteKey, Goes
<1>2. CASE Draw(c) \/ Create(c)
  BY <1>2, KeyAssumption DEF KeyOK, KeyInv, Draw, Create, Goes
<1>3. CASE Read(c) \/ SyncDirectory(c) \/ SyncKey(c) \/ Fail(c)
  BY <1>3 DEF KeyOK, Read, SyncDirectory, SyncKey, Fail, Returns
<1> QED
  BY <1>1, <1>2, <1>3 DEF KeyStep

\* Who finds a key only reads it.
LEMMA KeyIsRead ==
  ASSUME KeyOK, NEW c \in Callers, KeyStep(c), file # None,
         place[c] \in {"resting", "looking", "reading"}
  PROVE  /\ place'[c] \in {"resting", "looking", "reading"}
         /\ draft'[c] \in {draft[c], None}
BY DEF KeyOK, KeyStep, Call, Look, Draw, WriteBlob, Rename, Create, WriteKey,
       Read, SyncDirectory, SyncKey, Fail, Goes, Returns

LEMMA KeyLoadKey ==
  ASSUME StartOK, KeyInv, NEW c \in Callers, LoadKey(c) PROVE KeyInv'
<1>1. ProgressOK /\ KeyOK /\ Local(c)
  BY CallerIsLocal DEF StartOK, ProgressOK, KeyOK, CallerStep
<1>2. KeyStep(c) /\ phase[c] \in {"first", "second", "serving", "store"}
  BY <1>1, LoadKeyCases
<1>3. file # None => file' # None
  BY <1>1, <1>2, KeyLasts
<1>4. ASSUME NEW d \in Callers \ {c}, Keyed(d)' PROVE file' # None
  BY <1>1, <1>3, <1>4 DEF KeyInv, Keyed, Built, Local
<1>5. \/ UNCHANGED progress
      \/ /\ place'[c] = "resting"
         /\ \/ phase'[c] = "off" /\ errand'[c] = "none"
            \/ /\ phase[c] = "first" /\ phase'[c] = "second"
               /\ UNCHANGED errand
            \/ /\ phase[c] = "second" /\ phase'[c] = "boundary"
               /\ UNCHANGED errand
  BY <1>1, LoadKeyCases
<1>6. Keyed(c)' => file' # None
  BY <1>2, <1>3, <1>5 DEF KeyInv, Keyed, Built, progress
<1>7. errand'[c] = "serve" => place'[c] \in {"resting", "looking", "reading"}
  BY <1>1, <1>2, <1>5, KeyIsRead DEF KeyInv, Keyed, Built, progress
<1>8. place'[c] # "resting" =>
        phase'[c] \in {"first", "second", "serving", "store"}
  BY <1>2, <1>5 DEF progress
<1>9. phase'[c] = "store" => errand'[c] # "serve"
  BY <1>5 DEF KeyInv, progress
<1>10. place'[c] \in {"writing", "renaming"} => draft'[c] # None
  BY <1>1, <1>2, DraftIsKey
<1> QED
  BY <1>1, <1>4, <1>6, <1>7, <1>8, <1>9, <1>10 DEF KeyInv, Local

LEMMA KeyElsewhere ==
  ASSUME StartOK, KeyInv, NEW c \in Callers, CallerStep(c), ~LoadKey(c)
  PROVE  KeyInv'
<1>1. ProgressOK /\ KeyOK /\ Local(c)
  BY CallerIsLocal DEF StartOK, ProgressOK, KeyOK
<1>2. file' = file
  BY DEF CallerStep, BeginServe, BeginDoctor, BeginStore, Begin, Inspect,
         Passes, Discover, OpenCamera, ReadManifest, VerifyModel, CommitModel,
         CheckLoaded, InspectStore, InspectPath, LookAgain, Bind, Chmod,
         ChmodFails, Unbind, Stat, Spawn, Stop, Close, Unlink, Die, Fail, vars
<1>3. ASSUME NEW d \in Callers \ {c}, Keyed(d)' PROVE file' # None
  BY <1>1, <1>2, <1>3 DEF KeyInv, Keyed, Built, Local
<1>4. CASE Die(c)
  <2>1. phase'[c] = "off" /\ errand'[c] = "none" /\ place'[c] = "resting"
    BY <1>1, <1>4, BecomesOK DEF Die, Fail, Returns, KeyOK, vars
  <2> QED
    BY <1>1, <1>3, <2>1 DEF KeyInv, Local, Keyed, Built
<1>5. CASE ~Die(c)
  <2>1. UNCHANGED vars
    BY <1>5
    DEF CallerStep, BeginServe, BeginDoctor, BeginStore, Begin, Inspect, Passes,
        Discover, OpenCamera, ReadManifest, VerifyModel, CommitModel,
        CheckLoaded, InspectStore, InspectPath, LookAgain, Bind, Chmod,
        ChmodFails, Unbind, Stat, Spawn, Stop, Close, Unlink
  <2>2. place[c] = "resting"
    BY <1>5
    DEF CallerStep, BeginServe, BeginDoctor, BeginStore, Begin, Inspect, Passes,
        Discover, OpenCamera, ReadManifest, VerifyModel, CommitModel,
        CheckLoaded, InspectStore, InspectPath, LookAgain, Bind, Chmod,
        ChmodFails, Unbind, Stat, Spawn, Stop, Close, Unlink, Resting,
        Modalities, KeyInv
  <2>3. phase'[c] = "store" => errand'[c] # "serve"
    BY <1>1, <1>5
    DEF CallerStep, BeginServe, BeginDoctor, BeginStore, Begin, Inspect, Passes,
        Discover, OpenCamera, ReadManifest, VerifyModel, CommitModel,
        CheckLoaded, InspectStore, InspectPath, LookAgain, Bind, Chmod,
        ChmodFails, Unbind, Stat, Spawn, Stop, Close, Unlink, Becomes, Proceeds,
        Modalities, ProgressOK
  <2>4. Keyed(c)' => file # None
    <3>1. CASE InspectStore(c)
      BY <1>1, <3>1, BecomesOK
      DEF InspectStore, Passes, InspectStorage, TrustedRegular, Blob, Keyed, Built
    <3>2. CASE ~InspectStore(c)
      <4>1. Keyed(c)' => Keyed(c)
        BY <1>1, <1>5, <3>2
        DEF CallerStep, BeginServe, BeginDoctor, BeginStore, Begin, Inspect,
            Passes, Discover, OpenCamera, ReadManifest, VerifyModel,
            CommitModel, CheckLoaded, InspectPath, LookAgain, Bind, Chmod,
            ChmodFails, Unbind, Stat, Spawn, Stop, Close, Unlink, Becomes,
            Proceeds, Modalities, ProgressOK, Keyed, Built
      <4> QED
        BY <4>1 DEF KeyInv
    <3> QED
      BY <3>1, <3>2
  <2> QED
    BY <1>1, <1>2, <1>3, <2>1, <2>2, <2>3, <2>4 DEF KeyInv, Local, vars
<1> QED
  BY <1>4, <1>5

LEMMA KeyOthers ==
  ASSUME StartOK, KeyInv,
         RemoveSocket \/ ReplaceModel \/ Replug \/ PowerFails \/ UNCHANGED startVars
  PROVE  KeyInv'
<1>1. CASE PowerFails
  BY <1>1 DEF PowerFails, LosePower, KeyInv, Keyed, Built
<1>2. CASE UNCHANGED <<vars, phase, errand>>
  BY <1>2 DEF vars, KeyInv, Keyed, Built
<1> QED
  BY <1>1, <1>2 DEF RemoveSocket, ReplaceModel, Replug, startVars, progress

LEMMA KeyNext == ASSUME StartOK, KeyInv, [StartNext]_startVars PROVE KeyInv'
BY KeyLoadKey, KeyElsewhere, KeyOthers DEF StartNext, CallerStep

\* A daemon never makes up a key for templates encrypted under another, however
\* its loads interleave with the doctor's and with other daemons'
\* (inspect_storage, load_key).
THEOREM KeyCorrect == StartSpec => DaemonDrawsNoKey
<1> DEFINE Draws == \A c \in Callers :
                      errand[c] = "serve" => draft'[c] \in {draft[c], None}
<1>1. StartInit => StartOK /\ KeyInv
  BY InitOK, KeyInit
<1>2. StartOK /\ KeyInv /\ [StartNext]_startVars => StartOK' /\ KeyInv'
  BY NextOK, KeyNext
<1>3. ASSUME StartOK, KeyInv, [StartNext]_startVars PROVE [Draws]_startVars
  <2>1. ASSUME NEW c \in Callers, CallerStep(c) PROVE Draws
    <3>1. Local(c)
      BY <1>3, <2>1, CallerIsLocal
    <3>2. errand[c] = "serve" => draft'[c] \in {draft[c], None}
      <4>1. ProgressOK /\ KeyOK
        BY <1>3 DEF StartOK, ProgressOK, KeyOK
      <4>2. CASE LoadKey(c)
        BY <1>3, <4>1, <4>2, LoadKeyCases, KeyIsRead DEF KeyInv, Keyed, Built
      <4>3. CASE Die(c)
        BY <4>1, <4>3 DEF Die, Fail, Returns, KeyOK, vars
      <4>4. CASE ~LoadKey(c) /\ ~Die(c)
        BY <2>1, <4>4
        DEF CallerStep, BeginServe, BeginDoctor, BeginStore, Begin, Inspect,
            Passes, Discover, OpenCamera, ReadManifest, VerifyModel,
            CommitModel, CheckLoaded, InspectStore, InspectPath, LookAgain,
            Bind, Chmod, ChmodFails, Unbind, Stat, Spawn, Stop, Close, Unlink,
            vars
      <4> QED
        BY <4>2, <4>3, <4>4
    <3> QED
      BY <3>1, <3>2 DEF Local
  <2>2. CASE RemoveSocket \/ ReplaceModel \/ Replug
    BY <2>2 DEF RemoveSocket, ReplaceModel, Replug, vars
  <2>3. CASE PowerFails
    BY <2>3 DEF PowerFails, LosePower
  <2> QED
    BY <1>3, <2>1, <2>2, <2>3 DEF StartNext, CallerStep
<1> QED
  BY <1>1, <1>2, <1>3, PTL DEF StartSpec, DaemonDrawsNoKey

\* A key that is not known to be on the disk: the directory of a key file is
\* never synced, so that a loss of power may take the file that was created.
DiskInv ==
  /\ file \in disk
  /\ \A c \in Callers :
       /\ place[c] \in {"renaming", "settling"} => provider = "sealed"
       /\ place[c] = "syncing" => provider = "file" /\ None \in disk
       /\ place[c] = "writing" /\ provider = "file" => None \in disk

LEMMA DiskInit == StartInit => DiskInv
<1> SUFFICES ASSUME StartInit PROVE DiskInv
  OBVIOUS
<1>1. file \in disk
  BY DEF StartInit, Init
<1>2. \A c \in Callers : place[c] = "resting"
  BY DEF StartInit, Init
<1> QED
  BY <1>1, <1>2 DEF DiskInv

\* Whatever a caller does is a step of MachineKey, or none at all.
LEMMA StepsOfKey ==
  ASSUME StartOK, [StartNext]_startVars
  PROVE  UNCHANGED vars \/ LosePower \/ \E c \in Callers : KeyStep(c)
<1>1. ASSUME NEW c \in Callers, CallerStep(c) PROVE UNCHANGED vars \/ KeyStep(c)
  <2>1. CASE LoadKey(c)
    BY <2>1, LoadKeyCases DEF StartOK, ProgressOK, KeyOK
  <2>2. CASE Die(c)
    BY <2>2 DEF Die, KeyStep
  <2>3. CASE ~LoadKey(c) /\ ~Die(c)
    BY <1>1, <2>3
    DEF CallerStep, BeginServe, BeginDoctor, BeginStore, Begin, Inspect, Passes,
        Discover, OpenCamera, ReadManifest, VerifyModel, CommitModel,
        CheckLoaded, InspectStore, InspectPath, LookAgain, Bind, Chmod,
        ChmodFails, Unbind, Stat, Spawn, Stop, Close, Unlink
  <2> QED
    BY <2>1, <2>2, <2>3
<1>2. CASE RemoveSocket \/ ReplaceModel \/ Replug
  BY <1>2 DEF RemoveSocket, ReplaceModel, Replug
<1>3. CASE PowerFails
  BY <1>3 DEF PowerFails
<1>4. CASE UNCHANGED startVars
  BY <1>4 DEF startVars
<1> QED
  BY <1>1, <1>2, <1>3, <1>4 DEF StartNext, CallerStep

LEMMA DiskStep ==
  ASSUME KeyOK, DiskInv, NEW c \in Callers, KeyStep(c)
  PROVE  DiskInv'
<1> USE DEF KeyOK, DiskInv
<1>1. CASE Call(c) \/ Look(c)
  BY <1>1 DEF Call, Look, Goes
<1>2. CASE Draw(c) \/ WriteBlob(c)
  BY <1>2 DEF Draw, WriteBlob, Goes
<1>3. CASE Rename(c)
  BY <1>3 DEF Rename, Goes
<1>4. CASE Create(c)
  BY <1>4 DEF Create, Goes
<1>5. CASE WriteKey(c)
  BY <1>5 DEF WriteKey, Goes
<1>6. CASE Read(c) \/ Fail(c)
  BY <1>6 DEF Read, Fail, Returns
<1>7. CASE SyncDirectory(c) \/ SyncKey(c)
  BY <1>7 DEF SyncDirectory, SyncKey, Returns
<1> QED
  BY <1>1, <1>2, <1>3, <1>4, <1>5, <1>6, <1>7 DEF KeyStep

LEMMA DiskNext == ASSUME StartOK, DiskInv, [StartNext]_startVars PROVE DiskInv'
<1>1. ASSUME NEW c \in Callers, KeyStep(c) PROVE DiskInv'
  BY <1>1, DiskStep DEF StartOK, KeyOK
<1>2. CASE LosePower
  BY <1>2 DEF LosePower, DiskInv
<1>3. CASE UNCHANGED vars
  BY <1>3 DEF vars, DiskInv
<1> QED
  BY <1>1, <1>2, <1>3, StepsOfKey

\* With a key on the disk and no creator, no step makes one.
LEMMA SettledStep ==
  ASSUME KeyOK, DiskInv, Settled, NEW c \in Callers, KeyStep(c)
  PROVE  Settled' /\ UNCHANGED file
<1>1. \A d \in Callers : place[d] \notin {"creating", "writing", "renaming"}
  BY DEF Settled, Creating
<1>2. file # None /\ file \in Keys /\ disk = {file}
  BY KeyAssumption DEF Settled, Keys
<1>3. place[c] # "syncing"
  BY <1>2 DEF DiskInv
<1>4. file' = file /\ disk' = disk
  BY <1>1, <1>2, <1>3
  DEF KeyStep, Call, Look, Draw, WriteBlob, Rename, Create, WriteKey, Read,
      SyncDirectory, SyncKey, Fail, Goes
<1>5. place'[c] \notin {"creating", "writing", "renaming"}
  BY <1>1, <1>2
  DEF KeyStep, Call, Look, Draw, WriteBlob, Rename, Create, WriteKey, Read,
      SyncDirectory, SyncKey, Fail, Goes, Returns, KeyOK
<1>6. \A d \in Callers \ {c} : place'[d] = place[d]
  BY KeyLocal
<1> QED
  BY <1>1, <1>2, <1>4, <1>5, <1>6 DEF Settled, Creating, Keys

\* A key that has reached the disk is never replaced or lost, whatever the
\* daemons, the doctor and the power do (load_key, create_sealed_key).
THEOREM SettledCorrect == StartSpec => SettledKeyStands
<1>1. StartInit => StartOK /\ DiskInv
  BY InitOK, DiskInit
<1>2. StartOK /\ DiskInv /\ [StartNext]_startVars => StartOK' /\ DiskInv'
  BY NextOK, DiskNext
<1>3. ASSUME StartOK, DiskInv, [StartNext]_startVars
      PROVE  [Settled => Settled' /\ UNCHANGED file]_vars
  <2>1. ASSUME NEW c \in Callers, KeyStep(c), Settled
        PROVE  Settled' /\ UNCHANGED file
    BY <1>3, <2>1, SettledStep DEF StartOK, KeyOK
  <2>2. CASE LosePower /\ Settled
    BY <2>2 DEF LosePower, Settled, Creating, Keys
  <2> QED
    BY <1>3, <2>1, <2>2, StepsOfKey
<1> QED
  BY <1>1, <1>2, <1>3, PTL DEF StartSpec, SettledKeyStands

-------------------------------------------------------------------------------
(***************************************************************************)
(* The cameras.                                                            *)
(***************************************************************************)

\* Both cameras are open, and only then.
Equipped(c) ==
  phase[c] \in {"manifest", "verify", "commit", "check"} \/ Compared(c)

CameraInv ==
  /\ installation \in DOMAIN Installations
  /\ \E p \in DOMAIN Installations[installation].plugged :
       entries = Installations[installation].plugged[p]
  /\ \A c \in Callers :
       /\ phase[c] = "visible" => cameras[c]["infrared"].sensor = "infrared"
       /\ Equipped(c) => \A m \in Modalities : cameras[c][m].sensor = m

LEMMA CameraInit == StartInit => CameraInv
<1> SUFFICES ASSUME StartInit PROVE CameraInv
  OBVIOUS
<1>1. \A c \in Callers : phase[c] = "off"
  BY DEF StartInit
<1>2. /\ installation \in DOMAIN Installations
      /\ entries = Installations[installation].plugged[1]
  BY DEF StartInit
<1>3. 1 \in DOMAIN Installations[installation].plugged
  BY <1>2, StartAssumption
<1> QED
  BY <1>1, <1>2, <1>3 DEF CameraInv, Equipped, Compared, Built

\* What opens under a valid format senses what that format is of.
LEMMA OpensFits ==
  ASSUME CameraInv, NEW e \in entries, NEW spec, NEW m \in Modalities,
         Opens(e, spec, m)
  PROVE  e.sensor = m
<1> DEFINE f == <<spec.format, spec.size>>
<1>1. f \in e.formats
  BY DEF Opens, SetTo
<1>2. e.sensor = IF f[1] = "Gray8" THEN "infrared" ELSE "visible"
  <2> HIDE DEF f
  <2> QED
    BY <1>1, StartAssumption DEF CameraInv
<1>3. f[1] = spec.format
  OBVIOUS
<1>4. spec.format = "Gray8" <=> m = "infrared"
  BY DEF Opens, ValidCapture, Modalities
<1> QED
  BY <1>2, <1>3, <1>4 DEF Modalities

LEMMA CameraOpen ==
  ASSUME StartOK, CameraInv, NEW c \in Callers, NEW m \in Modalities,
         OpenCamera(c, m)
  PROVE  /\ phase'[c] = "visible" => cameras'[c]["infrared"].sensor = "infrared"
         /\ Equipped(c)' => \A n \in Modalities : cameras'[c][n].sensor = n
<1>1. ProgressOK
  BY DEF StartOK, ProgressOK
<1>2. CASE Becomes(c, "off")
  BY <1>1, <1>2, BecomesOK DEF Equipped, Compared, Built
<1>3. CASE ~Becomes(c, "off")
  <2>1. PICK e \in entries :
          /\ Opens(e, config.capture[m], m)
          /\ cameras' = [cameras EXCEPT ![c][m] = e]
          /\ phase' = [phase EXCEPT ![c] =
               IF m = "infrared" THEN "visible" ELSE "manifest"]
    BY <1>3 DEF OpenCamera
  <2>2. e.sensor = m /\ phase[c] = m
    BY <2>1, OpensFits DEF OpenCamera
  <2>3. /\ cameras'[c][m] = e
        /\ \A n \in Modalities \ {m} : cameras'[c][n] = cameras[c][n]
    BY <1>1, <2>1 DEF ProgressOK
  <2>4. phase'[c] = IF m = "infrared" THEN "visible" ELSE "manifest"
    BY <1>1, <2>1 DEF ProgressOK
  <2>5. CASE m = "infrared"
    BY <2>2, <2>3, <2>4, <2>5 DEF Equipped, Compared, Built
  <2>6. CASE m = "visible"
    BY <2>2, <2>3, <2>4, <2>6 DEF CameraInv, Modalities
  <2> QED
    BY <2>5, <2>6 DEF Modalities
<1> QED
  BY <1>2, <1>3

\* Every other step has the cameras as they were, or has none yet or no more.
LEMMA CameraElsewhere ==
  ASSUME StartOK, NEW c \in Callers, CallerStep(c),
         ~\E m \in Modalities : OpenCamera(c, m)
  PROVE  /\ phase'[c] = "visible" => phase[c] = "visible" /\ UNCHANGED cameras
         /\ Equipped(c)' => Equipped(c) /\ UNCHANGED cameras
<1> USE DEF Equipped, Compared, Built
<1>1. ProgressOK /\ KeyOK
  BY DEF StartOK, ProgressOK, KeyOK
<1>2. CASE Becomes(c, "off")
  BY <1>1, <1>2, BecomesOK
<1>3. CASE LoadKey(c)
  BY <1>1, <1>3, LoadKeyCases DEF progress
<1>4. CASE BeginServe(c) \/ BeginDoctor(c) \/ BeginStore(c)
  BY <1>1, <1>2, <1>4
  DEF BeginServe, BeginDoctor, BeginStore, Begin, ProgressOK
<1>5. CASE \/ Discover(c) \/ ReadManifest(c) \/ VerifyModel(c) \/ CommitModel(c)
  BY <1>1, <1>2, <1>5
  DEF Discover, ReadManifest, VerifyModel, CommitModel, Proceeds, ProgressOK
<1>6. CASE Inspect(c) \/ InspectStore(c) \/ InspectPath(c) \/ CheckLoaded(c)
  BY <1>1, <1>2, <1>6
  DEF Inspect, InspectStore, InspectPath, CheckLoaded, Passes, Proceeds,
      ProgressOK
<1>7. CASE \/ LookAgain(c) \/ Bind(c) \/ Chmod(c) \/ ChmodFails(c) \/ Unbind(c)
           \/ Stat(c) \/ Spawn(c) \/ Stop(c) \/ Close(c) \/ Unlink(c) \/ Die(c)
  BY <1>1, <1>2, <1>7
  DEF LookAgain, Bind, Chmod, ChmodFails, Unbind, Stat, Spawn, Stop, Close,
      Unlink, Die, Proceeds, ProgressOK
<1> QED
  BY <1>3, <1>4, <1>5, <1>6, <1>7 DEF CallerStep

LEMMA CameraNext == ASSUME StartOK, CameraInv, [StartNext]_startVars PROVE CameraInv'
<1>1. ASSUME NEW c \in Callers, CallerStep(c) PROVE CameraInv'
  <2>1. Local(c)
    BY <1>1, CallerIsLocal
  <2>2. UNCHANGED entries
    BY <1>1
    DEF CallerStep, BeginServe, BeginDoctor, BeginStore, Begin, Inspect, Passes,
        Discover, OpenCamera, ReadManifest, VerifyModel, CommitModel,
        CheckLoaded, InspectStore, LoadKey, InspectPath, LookAgain, Bind, Chmod,
        ChmodFails, Unbind, Stat, Spawn, Stop, Close, Unlink, Die, site
  <2>3. /\ phase'[c] = "visible" => cameras'[c]["infrared"].sensor = "infrared"
        /\ Equipped(c)' => \A m \in Modalities : cameras'[c][m].sensor = m
    BY <1>1, CameraOpen, CameraElsewhere DEF CameraInv
  <2>4. ASSUME NEW d \in Callers \ {c}
        PROVE  /\ phase'[d] = "visible" =>
                    cameras'[d]["infrared"].sensor = "infrared"
               /\ Equipped(d)' => \A m \in Modalities : cameras'[d][m].sensor = m
    BY <2>1 DEF Local, CameraInv, Equipped, Compared, Built
  <2> QED
    BY <2>1, <2>2, <2>3, <2>4 DEF CameraInv, Local
<1>2. CASE RemoveSocket \/ ReplaceModel \/ UNCHANGED startVars
  <2>1. UNCHANGED <<installation, entries, phase, errand, cameras>>
    BY <1>2 DEF RemoveSocket, ReplaceModel, startVars, site, progress
  <2> QED
    BY <2>1 DEF CameraInv, Equipped, Compared, Built
<1>3. CASE Replug
  <2>1. UNCHANGED <<installation, phase, errand, cameras>>
    BY <1>3 DEF Replug, progress
  <2>2. \E p \in DOMAIN Installations[installation].plugged :
          entries' = Installations[installation].plugged[p]
    BY <1>3 DEF Replug
  <2> QED
    BY <2>1, <2>2 DEF CameraInv, Equipped, Compared, Built
<1>4. CASE PowerFails
  BY <1>4 DEF PowerFails, site, CameraInv, Equipped, Compared, Built
<1> QED
  BY <1>1, <1>2, <1>3, <1>4 DEF StartNext, CallerStep

\* Each camera of an engine senses what it is taken to sense, whichever nodes
\* change hands while it starts (CaptureSpec::validate, V4l2CaptureDevice::open).
THEOREM CamerasCorrect == StartSpec => []CamerasFitModality
<1>1. StartInit => StartOK /\ CameraInv
  BY InitOK, CameraInit
<1>2. StartOK /\ CameraInv /\ [StartNext]_startVars => StartOK' /\ CameraInv'
  BY NextOK, CameraNext
<1>3. CameraInv => CamerasFitModality
  BY DEF CameraInv, CamerasFitModality, Equipped, Compared
<1> QED
  BY <1>1, <1>2, <1>3, PTL DEF StartSpec

===============================================================================
