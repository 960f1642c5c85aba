----------------------------- MODULE ProductionStart ---------------------------
(***************************************************************************)
(* The start of the production authentication composition, its end, and    *)
(* what several of them, the storage doctor, administrators and the        *)
(* service manager do to each other through the key, the model files and   *)
(* the socket's path.                                                      *)
(*                                                                         *)
(* Each caller is a process that runs one of these at a time:              *)
(*   serve   run_production_authentication_composition, which main does    *)
(*           not call yet: its serve command stops at the report;          *)
(*   doctor  main's storage-doctor, the self-test of the TPM's key;        *)
(*   store   a program that uses the file key, which production refuses.   *)
(* A refusal of an inspection and an error of the devices, the models, the *)
(* TPM or the socket turn it off.  Nothing but sockets is ever at the      *)
(* socket's path.                                                          *)
(*                                                                         *)
(* Slip definitions are deliberate errors, as in SessionManager.           *)
(***************************************************************************)
EXTENDS MachineKey, Configuration

CONSTANTS
  Installations,   \* a sequence of records
                   \* [config, host, models, updates, plugged]: a configuration,
                   \* the host, its model files, what may replace one of them,
                   \* and the entries udev may have, the first ones first
  MaxReplacements, \* bound on the replacements of models and entries
  Inodes           \* inodes that a socket may have

\* A configuration lists models by the roles there are.  A camera offers grey
\* pictures only if it senses infrared, and others only if it does not.
ASSUME StartAssumption ==
  /\ None \notin Inodes
  /\ \A i \in DOMAIN Installations :
       /\ 1 \in DOMAIN Installations[i].plugged
       /\ Installations[i].config.models \in Seq(Range(Suite))
       /\ \A p \in DOMAIN Installations[i].plugged :
            \A e \in Installations[i].plugged[p] : \A f \in e.formats :
              e.sensor = IF f[1] = "Gray8" THEN "infrared" ELSE "visible"

VARIABLES
  installation, \* the index of the one at hand
  models,    \* the file installed for each role
  entries,   \* udev's entries of the cameras
  replaced,  \* replacements of either so far
  phase,     \* where each caller stands
  errand,    \* what it runs
  cameras,   \* for each caller and modality the node that was resolved, and
             \* then the entry of what was opened there
  reading,   \* the manifest of the model it is loading
  loaded,    \* the models it has loaded, in the suite's order, each a record
             \* [manifest, graph] whose graph is the digest of the artifact that
             \* was loaded
  swapped,   \* history: who loads from an artifact that was replaced after its
             \* digest was checked
  first,     \* the key that the self-test loaded first
  socket,    \* the inode at the socket's path
  own,       \* the inode each caller's listener is bound to
  identity,  \* SecureListener::identity
  left,      \* history: why the socket has no listener: its process was killed,
             \* or a call of the file system failed
  removals,  \* history: callers whose socket was removed by an administrator
  torn       \* history: one was removed between a look at the path and what was
             \* then done to it

site == <<installation, models, entries, replaced>>
progress == <<phase, errand, cameras, reading, loaded, swapped, first>>
listening == <<own, identity>>
path == <<socket, left, removals, torn>>
\* No camera, of a caller that has not come to them.
NoCameras == [m \in Modalities |-> None]

startVars == <<vars, site, progress, listening, path>>

config == Installations[installation].config
host == Installations[installation].host

\* A creator of a key makes the directory if it is missing.
KeyDirectory ==
  [host.keys EXCEPT !.kind = IF @ = "missing" /\ drawn > 0 THEN "directory" ELSE @]

\* What is at the key's path.  Key 1 is there from the start if any is; one that
\* a provider makes is root's alone.
Blob ==
  IF file = None \/ (host.blob.kind = "file" /\ file = 1)
  THEN [host.blob EXCEPT !.kind = IF file = None THEN "missing" ELSE "file"]
  ELSE [kind |-> "file", owner |-> Root, writers |-> {}, readers |-> {},
        length |-> 1, content |-> "key", link |-> FALSE,
        above |-> {KeyDirectory} \cup KeyDirectory.above]

StartInit ==
  /\ Init
  /\ installation \in DOMAIN Installations
  /\ provider = (IF config.key = "Tpm" THEN "sealed" ELSE "file")
  /\ (file = None) = (host.blob.kind = "missing")
  /\ models = Installations[installation].models
  /\ entries = Installations[installation].plugged[1]
  /\ replaced = 0
  /\ phase = [c \in Callers |-> "off"]
  /\ errand = [c \in Callers |-> "none"]
  /\ cameras = [c \in Callers |-> NoCameras]
  /\ reading = [c \in Callers |-> None]
  /\ loaded = [c \in Callers |-> <<>>]
  /\ swapped = {}
  /\ first = [c \in Callers |-> None]
  /\ socket = None
  /\ own = [c \in Callers |-> None]
  /\ identity = [c \in Callers |-> None]
  /\ left = "nothing"
  /\ removals = {}
  /\ torn = FALSE

-------------------------------------------------------------------------------

Resting(c) == phase[c] = "off"

\* What a caller has built is dropped when it is done, for better or worse.
Becomes(c, to) ==
  /\ phase' = [phase EXCEPT ![c] = to]
  /\ errand' = [errand EXCEPT ![c] = "none"]
  /\ cameras' = [cameras EXCEPT ![c] = NoCameras]
  /\ reading' = [reading EXCEPT ![c] = None]
  /\ loaded' = [loaded EXCEPT ![c] = <<>>]
  /\ swapped' = swapped \ {c}
  /\ first' = [first EXCEPT ![c] = None]

Proceeds(c, to) ==
  /\ phase' = [phase EXCEPT ![c] = to]
  /\ UNCHANGED <<errand, cameras, reading, loaded, swapped, first>>

\* An inspection is passed, or refuses the start.
Passes(c, from, to, inspection) ==
  /\ phase[c] = from
  /\ \/ inspection /\ Proceeds(c, to)
     \/ ~inspection /\ Becomes(c, "off")
  /\ UNCHANGED <<vars, site, listening, path>>

Begin(c, task, at) ==
  /\ Resting(c)
  /\ phase' = [phase EXCEPT ![c] = at]
  /\ errand' = [errand EXCEPT ![c] = task]
  /\ UNCHANGED <<vars, site, cameras, reading, loaded, swapped, first, listening,
                path>>

\* A start begins with validate.  Later builders repeat it.
BeginServe(c) ==
  \/ ValidConfig(config) /\ Begin(c, "serve", "models")
  \/ /\ ~ValidConfig(config)
     /\ Resting(c)
     /\ Becomes(c, "off")
     /\ UNCHANGED <<vars, site, listening, path>>

BeginDoctor(c) == provider = "sealed" /\ Begin(c, "doctor", "first")
BeginStore(c) == provider = "file" /\ Begin(c, "store", "store")

-------------------------------------------------------------------------------
(***************************************************************************)
(* build_production_biometric_engines.                                     *)
(***************************************************************************)

Inspect(c) ==
  Passes(c, "models", "cameras",
         /\ InspectModels(config, host, models)
         /\ InspectCalibration(config, host, models))

\* Each camera is known by its node from here on.
Discover(c) ==
  /\ phase[c] = "cameras"
  /\ \/ /\ InspectCameras(config, entries)
        /\ cameras' = [cameras EXCEPT ![c] =
             [m \in Modalities |->
                Resolved(Discovered(entries), config[m]).node]]
        /\ phase' = [phase EXCEPT ![c] = "infrared"]
        /\ UNCHANGED <<errand, reading, loaded, swapped, first>>
     \/ ~InspectCameras(config, entries) /\ Becomes(c, "off")
  /\ UNCHANGED <<vars, site, listening, path>>

\* The infrared camera is opened first; whatever has the node by now is opened.
OpenCamera(c, m) ==
  /\ phase[c] = m
  /\ \/ \E e \in entries :
          /\ e.node = cameras[c][m]
          /\ Opens(e, config.capture[m], m)
          /\ cameras' = [cameras EXCEPT ![c][m] = e]
          /\ phase' = [phase EXCEPT ![c] =
               IF m = "infrared" THEN "visible" ELSE "manifest"]
          /\ UNCHANGED <<errand, reading, loaded, swapped, first>>
     \/ Becomes(c, "off")
  /\ UNCHANGED <<vars, site, listening, path>>

\* The role of the model that a caller is loading.
Loading(c) == config.models[Len(loaded[c]) + 1]

\* The files may have changed since they were inspected, so that the manifest is
\* read anew.  It is validated only with its artifact.
ReadManifest(c) ==
  LET model == models[Loading(c)]
  IN /\ phase[c] = "manifest"
     /\ \/ /\ model.trusted
           /\ model.manifest.role = Loading(c)
           /\ reading' = [reading EXCEPT ![c] = model.manifest]
           /\ phase' = [phase EXCEPT ![c] = "verify"]
           /\ UNCHANGED <<errand, cameras, loaded, swapped, first>>
        \/ Becomes(c, "off")
     /\ UNCHANGED <<vars, site, listening, path>>

\* OnnxSession::load reads the artifact once for its digest (verify_file), ...
VerifyModel(c) ==
  LET model == models[Loading(c)]
  IN /\ phase[c] = "verify"
     /\ \/ /\ model.trusted
           /\ reading[c].valid
           /\ model.artifact.digest = reading[c].digest
           /\ TrustedRegular(host.library)
           /\ Proceeds(c, "commit")
        \/ Becomes(c, "off")
     /\ UNCHANGED <<vars, site, listening, path>>

\* ... and opens it again, by its path, for the graph (commit_from_file).  The
\* identity of the session is that of the manifest.
CommitModel(c) ==
  LET artifact == models[Loading(c)].artifact
  IN /\ phase[c] = "commit"
     /\ \/ /\ artifact.contract = reading[c].contract
           /\ loaded' = [loaded EXCEPT ![c] =
                Append(@, [manifest |-> reading[c], graph |-> artifact.digest])]
           /\ reading' = [reading EXCEPT ![c] = None]
           /\ phase' = [phase EXCEPT ![c] =
                IF Len(loaded'[c]) = Len(config.models) THEN "check"
                                                        ELSE "manifest"]
           /\ UNCHANGED <<errand, cameras, swapped, first>>
        \/ Becomes(c, "off")
     /\ UNCHANGED <<vars, site, listening, path>>

\* The sessions are taken by role.
LoadedIdentity(c) ==
  [role \in Range(config.models) |->
     LET at == CHOOSE i \in DOMAIN config.models : config.models[i] = role
     IN loaded[c][at].manifest]

\* What was inspected is taken for what was loaded.
SlipCheckLoaded(c) ==
  /\ phase[c] = "check"
  /\ Proceeds(c, "storage")
  /\ UNCHANGED <<vars, site, listening, path>>

\* validate_loaded_calibration, of the sessions and not of the files.
CheckLoaded(c) ==
  /\ phase[c] = "check"
  /\ \/ CalibratedFor(config, LoadedIdentity(c)) /\ Proceeds(c, "storage")
     \/ ~CalibratedFor(config, LoadedIdentity(c)) /\ Becomes(c, "off")
  /\ UNCHANGED <<vars, site, listening, path>>

-------------------------------------------------------------------------------
(***************************************************************************)
(* build_production_template_store.                                        *)
(***************************************************************************)

InspectStore(c) ==
  Passes(c, "storage", "first",
         InspectStorage(config, host, Blob))

\* What a caller makes of the key that load_key returned.
Got(c, key) ==
  \/ phase[c] = "serving" /\ UNCHANGED progress
  \/ phase[c] = "store" /\ Becomes(c, "off")
  \/ phase[c] \in {"first", "second"} /\ key = None /\ Becomes(c, "off")
  \/ /\ phase[c] = "first"
     /\ key # None
     /\ phase' = [phase EXCEPT ![c] = "second"]
     /\ first' = [first EXCEPT ![c] = key]
     /\ UNCHANGED <<errand, cameras, reading, loaded, swapped>>
  \/ /\ phase[c] = "second"
     /\ key # None
     /\ IF key = first[c] /\ errand[c] = "serve"
        THEN Proceeds(c, "boundary") ELSE Becomes(c, "off")

\* A store's method looks at its directory before it loads the key.
MayCall(c) == phase[c] = "serving" => PreparedDirectory(host.templates)

\* FileKeyProvider looks at the path first, TpmKeyProvider before it unseals.
MayLook == provider = "file" => TrustedChain(KeyDirectory) /\ ReplaceTarget(Blob)

\* unseal_key and read_blob.
MayRead == TrustedChain(KeyDirectory) /\ ReplaceTarget(Blob) /\ PrivateFile(Blob)

\* The steps of load_key: of self_test's two loads, or of a store's method.  What
\* it may not do it fails to do.
LoadKey(c) ==
  /\ phase[c] \in {"first", "second", "serving", "store"}
  /\ \/ MayCall(c) /\ Call(c) /\ UNCHANGED progress
     \/ MayLook /\ Look(c) /\ UNCHANGED progress
     \/ PreparedDirectory(KeyDirectory) /\ Draw(c) /\ UNCHANGED progress
     \/ ReplaceTarget(Blob) /\ WriteBlob(c) /\ UNCHANGED progress
     \/ Rename(c) /\ UNCHANGED progress
     \/ Create(c) /\ UNCHANGED progress
     \/ WriteKey(c) /\ UNCHANGED progress
     \/ MayRead /\ Read(c) /\ Got(c, IF file \in Keys THEN file ELSE None)
     \/ SyncDirectory(c) /\ Got(c, draft[c])
     \/ SyncKey(c) /\ Got(c, draft[c])
     \/ Fail(c) /\ Got(c, None)
  /\ UNCHANGED <<site, listening, path>>

-------------------------------------------------------------------------------
(***************************************************************************)
(* build_production_authentication_boundary and SecureListener.            *)
(***************************************************************************)

InspectPath(c) ==
  Passes(c, "boundary", "look",
         /\ InspectReview(config, host, "authorization")
         /\ InspectBoundary(config, host, socket # None))

\* bind_owned looks once more, and takes no link for the directory.
LookAgain(c) ==
  /\ phase[c] = "look"
  /\ IF socket = None /\ ~host.run.link THEN Proceeds(c, "bind")
                                        ELSE Becomes(c, "off")
  /\ UNCHANGED <<vars, site, listening, path>>

\* The system gives the socket an inode that nobody has, and never replaces what
\* is at the path.
Bind(c) ==
  /\ phase[c] = "bind"
  /\ \/ socket # None /\ Becomes(c, "off") /\ UNCHANGED <<listening, path>>
     \/ /\ socket = None
        /\ \E i \in Inodes :
             /\ \A d \in Callers : own[d] # i
             /\ socket' = i
             /\ own' = [own EXCEPT ![c] = i]
        /\ Proceeds(c, "chmod")
        /\ UNCHANGED <<identity, left, removals, torn>>
  /\ UNCHANGED <<vars, site>>

Closes(c) ==
  /\ own' = [own EXCEPT ![c] = None]
  /\ identity' = [identity EXCEPT ![c] = None]
  /\ removals' = removals \ {c}
  /\ torn' = (torn /\ \E d \in Callers \ {c} : own[d] # None)

\* What is at the path is removed, whatever it is.
Clears == socket' = None /\ left' = "nothing"

\* What is at the path stays there, without a listener if it is the caller's.
Leaves(c, why) ==
  /\ socket' = socket
  /\ left' = IF socket # None /\ socket = own[c] THEN why ELSE left

Chmod(c) ==
  /\ phase[c] = "chmod"
  /\ socket # None
  /\ Proceeds(c, "stat")
  /\ UNCHANGED <<vars, site, listening, path>>

\* The listener is given up with its socket where it is.
SlipChmodFails(c) ==
  /\ phase[c] = "chmod"
  /\ Becomes(c, "off")
  /\ Closes(c)
  /\ UNCHANGED <<vars, site, socket, left>>

\* Permissions cannot be set, ...
ChmodFails(c) ==
  /\ phase[c] = "chmod"
  /\ Proceeds(c, "unbind")
  /\ UNCHANGED <<vars, site, listening, path>>

\* ... which takes the path with them, if it can be removed.
Unbind(c) ==
  /\ phase[c] = "unbind"
  /\ Clears \/ Leaves(c, "failed")
  /\ Becomes(c, "off")
  /\ Closes(c)
  /\ UNCHANGED <<vars, site>>

\* The identity is that of what is now at the path.  If there is nothing, or
\* the call fails, the path is left alone.
Stat(c) ==
  /\ phase[c] = "stat"
  /\ \/ /\ socket # None
        /\ identity' = [identity EXCEPT ![c] = socket]
        /\ Proceeds(c, "spawn")
        /\ UNCHANGED <<own, path>>
     \/ Leaves(c, "failed") /\ Becomes(c, "off") /\ Closes(c)
  /\ UNCHANGED <<vars, site>>

\* The supervisor starts both services, or fails and drops what it was given.
Spawn(c) ==
  /\ phase[c] = "spawn"
  /\ Proceeds(c, "serving") \/ Proceeds(c, "closing")
  /\ UNCHANGED <<vars, site, listening, path>>

\* The listener returns: shutdown, a fatal connection, a failure or the end of
\* its budget.
Stop(c) ==
  /\ phase[c] = "serving"
  /\ place[c] = "resting"
  /\ Proceeds(c, "closing")
  /\ UNCHANGED <<vars, site, listening, path>>

\* Whatever is at the path is taken for the listener's.
SlipClose(c) ==
  /\ phase[c] = "closing"
  /\ Proceeds(c, "unlink")
  /\ UNCHANGED <<vars, site, listening, path>>

\* The drop of the listener, which still has its inode, looks at the path
\* (remove_owned_path).  An error of this look is ignored.
Close(c) ==
  /\ phase[c] = "closing"
  /\ \/ /\ socket = identity[c]
        /\ Proceeds(c, "unlink")
        /\ UNCHANGED <<listening, path>>
     \/ /\ socket # identity[c]
        /\ Becomes(c, "off")
        /\ Closes(c)
        /\ UNCHANGED <<socket, left>>
     \/ Leaves(c, "failed") /\ Becomes(c, "off") /\ Closes(c)
  /\ UNCHANGED <<vars, site>>

\* What is then removed is what is at the path by now.  An error is ignored.
Unlink(c) ==
  /\ phase[c] = "unlink"
  /\ Clears \/ Leaves(c, "failed")
  /\ Becomes(c, "off")
  /\ Closes(c)
  /\ UNCHANGED <<vars, site>>

\* The process is killed, or ends without its listener after the grace period.
Die(c) ==
  /\ ~Resting(c)
  /\ \/ place[c] = "resting" /\ UNCHANGED vars
     \/ place[c] # "resting" /\ Fail(c)
  /\ Leaves(c, "killed")
  /\ Becomes(c, "off")
  /\ Closes(c)
  /\ UNCHANGED site

-------------------------------------------------------------------------------
(***************************************************************************)
(* The others.                                                             *)
(***************************************************************************)

\* A caller is about to do something to the path that it takes for its own.
Between == {"chmod", "unbind", "stat", "unlink"}

\* An administrator clears the path, or the service manager the directory.
RemoveSocket ==
  /\ socket # None
  /\ Clears
  /\ LET owners == {c \in Callers : own[c] = socket}
     IN /\ removals' = removals \cup owners
        /\ torn' = (torn \/ \E c \in owners : phase[c] \in Between)
  /\ UNCHANGED <<vars, site, progress, listening>>

\* A model is updated in place of another.
ReplaceModel ==
  /\ replaced < MaxReplacements
  /\ replaced' = replaced + 1
  /\ \E update \in Installations[installation].updates :
       models' = [models EXCEPT ![update.for] = update.model]
  /\ swapped' = swapped \cup
       {c \in Callers :
          /\ phase[c] = "commit"
          /\ models'[Loading(c)].artifact # models[Loading(c)].artifact}
  /\ UNCHANGED <<vars, installation, entries, phase, errand, cameras, reading,
                loaded, first, listening, path>>

\* Cameras are plugged in anew and get other nodes.  What is open stays open.
Replug ==
  /\ replaced < MaxReplacements
  /\ replaced' = replaced + 1
  /\ \E i \in DOMAIN Installations[installation].plugged :
       entries' = Installations[installation].plugged[i]
  /\ entries' # entries
  /\ UNCHANGED <<vars, installation, models, progress, listening, path>>

\* The socket's directory does not outlive the power.
PowerFails ==
  /\ LosePower
  /\ phase' = [c \in Callers |-> "off"]
  /\ errand' = [c \in Callers |-> "none"]
  /\ cameras' = [c \in Callers |-> NoCameras]
  /\ reading' = [c \in Callers |-> None]
  /\ loaded' = [c \in Callers |-> <<>>]
  /\ swapped' = {}
  /\ first' = [c \in Callers |-> None]
  /\ own' = [c \in Callers |-> None]
  /\ identity' = [c \in Callers |-> None]
  /\ Clears
  /\ removals' = {}
  /\ torn' = FALSE
  /\ UNCHANGED site

StartNext ==
  \/ RemoveSocket
  \/ ReplaceModel
  \/ Replug
  \/ PowerFails
  \/ \E c \in Callers :
       \/ BeginServe(c) \/ BeginDoctor(c) \/ BeginStore(c)
       \/ Inspect(c) \/ Discover(c)
       \/ (\E m \in Modalities : OpenCamera(c, m))
       \/ ReadManifest(c) \/ VerifyModel(c) \/ CommitModel(c) \/ CheckLoaded(c)
       \/ InspectStore(c) \/ LoadKey(c)
       \/ InspectPath(c) \/ LookAgain(c) \/ Bind(c) \/ Chmod(c)
       \/ ChmodFails(c) \/ Unbind(c) \/ Stat(c) \/ Spawn(c) \/ Stop(c)
       \/ Close(c) \/ Unlink(c) \/ Die(c)

StartSpec == StartInit /\ [][StartNext]_startVars

-------------------------------------------------------------------------------

Built(c) ==
  phase[c] \in {"boundary", "look", "bind", "chmod", "unbind", "stat", "spawn",
                "serving", "closing", "unlink"}

\* The models of an engine are those its thresholds were measured with, even if
\* model files are replaced between the inspection and the loading
\* (validate_loaded_calibration): the identities are the calibrated ones, and
\* what was loaded are the artifacts that their manifests name.
\* OnnxSession::load leaves one window, in which an artifact that is replaced
\* after its digest was checked is loaded under the identity of its manifest.
BuiltAsCalibrated ==
  \A c \in Callers : Built(c) =>
    /\ CalibratedFor(config, LoadedIdentity(c))
    /\ c \notin swapped =>
         \A i \in DOMAIN loaded[c] :
           loaded[c][i].graph = loaded[c][i].manifest.digest

\* Each camera of an engine senses the light that it is taken to sense, even if
\* the nodes change hands between the discovery and the opening
\* (CaptureSpec::validate, V4l2CaptureDevice::open): a color camera has no grey
\* format.  That it is the camera of the selector is not looked at again.
CamerasFitModality ==
  \A c \in Callers, m \in Modalities :
    Built(c) => cameras[c][m].sensor = m

\* Who serves can be reached: the path leads to its own listener, whatever other
\* daemons start and end, unless its socket was removed by an administrator.
\* bind_owned and remove_owned_path leave windows between a look at the path and
\* what is then done to it: if a socket is removed in one of them and another
\* daemon binds its own, that one may be taken for the first, and removed for it.
ServingIsReachable ==
  ~torn => \A c \in Callers \ removals :
             phase[c] = "serving" => socket = own[c]

\* A start that fails and an orderly end leave no socket that would keep the next
\* daemon from starting (bind_owned, Drop): if one has no listener, its process
\* was killed, or it was the file system that failed, in the look at the socket
\* just bound (which bind_owned then leaves there) or in its removal.
StartLeavesNothing ==
  socket # None => left # "nothing" \/ \E c \in Callers : own[c] = socket

\* The two promises without their windows, as the documents have them; TLC
\* refutes both.  The graph that runs is the one whose digest was verified
\* (docs/production-readiness.md:58), ...
LoadedIsVerified ==
  \A c \in Callers : Built(c) =>
    \A i \in DOMAIN loaded[c] :
      loaded[c][i].graph = loaded[c][i].manifest.digest

\* ... and a daemon that ends never removes a path that was replaced
\* (docs/ipc.md:35, remove_owned_path).
ReplacedPathStays ==
  \A c \in Callers \ removals : phase[c] = "serving" => socket = own[c]

\* A daemon never makes up a new key for templates that were encrypted under
\* another: it starts only if there is one (inspect_storage), and then the key
\* stays.
DaemonDrawsNoKey ==
  [][\A c \in Callers :
       errand[c] = "serve" => draft'[c] \in {draft[c], None}]_startVars

===============================================================================
