------------------------------ MODULE Configuration ----------------------------
(***************************************************************************)
(* The production configuration, the inspection of the host it is meant    *)
(* for, and the discovery of its cameras.                                  *)
(*                                                                         *)
(* A part that has a validate method of its own, and whose bounds another  *)
(* module knows, is a name in config.sound if that method accepts it.  A   *)
(* file, directory or device is a record                                   *)
(*   [kind, owner, writers, readers, length, content, link, above]         *)
(* whose writers are those besides its owner who may write it, whose       *)
(* readers have any right to it, and whose "above" are its ancestors.  One *)
(* that is missing is of kind "missing"; for one whose name is a link, the *)
(* rest is said of what the link leads to.                                 *)
(*                                                                         *)
(* Slip definitions are deliberate errors, as in SessionManager.           *)
(***************************************************************************)
EXTENDS Authorization, FiniteSets

CONSTANTS
  Suite,     \* REQUIRED_MODEL_ROLES, in their order
  Unset,     \* Option::None of a selector's field
  MaxLength  \* the limits on what is read, in units of the lengths at hand

ASSUME ConfigurationAssumption ==
  IsInjective(Suite) /\ Suite # <<>> /\ Suite \in Seq(Range(Suite))

-------------------------------------------------------------------------------
(***************************************************************************)
(* Cameras.  An entry of udev's is a record                                *)
(*   [node, vendor, product, serials, path, capabilities, formats, rates,  *)
(*    sensor]                                                              *)
(* whose serials are the short one and the long one, and whose last three  *)
(* are the driver's and the hardware's, which discovery does not see.      *)
(***************************************************************************)

\* camera_from_udev, of an entry that has a node.
CameraOf(entry) ==
  [node |-> entry.node,
   usb |-> IF Unset \in {entry.vendor, entry.product} THEN Unset
           ELSE <<entry.vendor, entry.product>>,
   serial |-> IF entry.serials[1] # Unset THEN entry.serials[1]
              ELSE entry.serials[2],
   path |-> entry.path,
   capture |-> "capture" \in entry.capabilities]

\* discover.
Discovered(entries) == {CameraOf(e) : e \in {f \in entries : f.node # Unset}}

\* CameraDevice::matches.  What a USB camera is (vendor and product) must be
\* the same, its serial and its place only where the selector has them.
Matches(device, selector) ==
  /\ device.usb # Unset
  /\ device.usb = selector.usb
  /\ selector.serial \in {Unset, device.serial}
  /\ selector.path \in {Unset, device.path}

\* resolve_one: the capture nodes that match, of which there must be one.
Matching(devices, selector) ==
  {d \in devices : d.capture /\ Matches(d, selector)}

\* resolve_pair.
ResolvesPair(devices, infrared, visible) ==
  /\ Cardinality(Matching(devices, infrared)) = 1
  /\ Cardinality(Matching(devices, visible)) = 1
  /\ \A d \in Matching(devices, infrared), e \in Matching(devices, visible) :
       d.node # e.node

\* resolve_one's camera, once there is just one.
Resolved(devices, selector) == CHOOSE d \in Matching(devices, selector) : TRUE

Modalities == {"infrared", "visible"}

\* CaptureSpec::validate.  What the size, the rate and the bounds are beyond
\* their being there does not matter here.
ValidCapture(spec, modality) ==
  /\ spec.format \in (IF modality = "infrared" THEN {"Gray8"}
                                              ELSE {"Yuyv", "Mjpeg"})
  /\ 0 \notin {spec.size, spec.rate, spec.timeout, spec.limit}
  /\ spec.buffers \in 2 .. 16
  /\ spec.warmup <= 30

\* What a driver makes of a request: the thing itself, or one that it can do.
SetTo(offers, wanted) ==
  IF wanted \in offers THEN {wanted} ELSE offers

\* The answer of the driver is taken as it is.
SlipOpens(entry, spec, modality) ==
  ValidCapture(spec, modality)

\* V4l2CaptureDevice::open: the format, the size and the rate are set, and must
\* be what was asked for.
Opens(entry, spec, modality) ==
  /\ ValidCapture(spec, modality)
  /\ SetTo(entry.formats, <<spec.format, spec.size>>) = {<<spec.format, spec.size>>}
  /\ SetTo(entry.rates, spec.rate) = {spec.rate}

-------------------------------------------------------------------------------
(***************************************************************************)
(* ProductionConfig::validate.                                             *)
(***************************************************************************)

Parts == {"schema", "pairing", "runtime", "recognition", "detection",
          "quality", "pad", "challenge", "enrollment", "management",
          "supervision", "transport", "session", "paths", "digests"}

\* validate_camera_selector: a serial or a place that is not empty.
ValidSelector(selector) ==
  /\ selector.usb # <<"malformed", "malformed">>
  /\ {selector.serial, selector.path} \ {Unset, ""} # {}

\* The models are the required suite, each role once.
ValidSuite(models) ==
  /\ Len(models) = Len(Suite)
  /\ IsInjective(models)
  /\ Range(models) = Range(Suite)

\* validate_required_authorization_rules.
RequiredRules(rules) ==
  /\ {"ScreenUnlock", "Login", "Polkit"} \subseteq
       {rules[i].purpose : i \in DOMAIN rules}
  /\ \E i \in DOMAIN rules : /\ rules[i].service = "faceauth-enroll"
                             /\ rules[i].purpose = "Polkit"
                             /\ rules[i].caller = "RootOnly"

\* What production demands of the recognition policy beyond its bounds.
ValidRecognition(recognition) ==
  /\ recognition.visible
  /\ recognition.liveness = "PassiveAndActive"
  /\ recognition.fallback

\* validate_authentication_boundary.
ValidBoundary(boundary) ==
  /\ boundary.mode \in {"0600", "0660"}
  /\ boundary.fallback

ValidConfig(config) ==
  /\ config.sound = Parts
  /\ ValidSelector(config.infrared)
  /\ ValidSelector(config.visible)
  /\ config.infrared # config.visible
  /\ \A m \in Modalities : ValidCapture(config.capture[m], m)
  /\ ValidSuite(config.models)
  /\ ValidRecognition(config.recognition)
  /\ ValidPolicy(config.rules)
  /\ RequiredRules(config.rules)
  /\ config.managed
  /\ ValidBoundary(config.boundary)

-------------------------------------------------------------------------------
(***************************************************************************)
(* What a path must be to be trusted by an inspection, which follows links *)
(* (canonicalize).                                                         *)
(***************************************************************************)

\* verify_ancestors.
TrustedAncestors(path) ==
  \A d \in path.above : /\ d.kind = "directory"
                        /\ d.owner = Root
                        /\ d.writers = {}

TrustedRegular(path) ==
  /\ path.kind = "file"
  /\ path.owner = Root
  /\ path.writers = {}
  /\ path.length \in 1 .. MaxLength
  /\ TrustedAncestors(path)

TrustedDirectory(path) ==
  /\ path.kind = "directory"
  /\ path.owner = Root
  /\ path.writers = {}
  /\ TrustedAncestors(path)

\* A device that its group may write is trusted.
TrustedDevice(path) ==
  /\ path.kind = "device"
  /\ path.owner = Root
  /\ path.writers \subseteq {"group"}
  /\ TrustedAncestors(path)

-------------------------------------------------------------------------------
(***************************************************************************)
(* What it must be for the template store and the key providers, which     *)
(* follow no link and let nobody else read a file of theirs: an inspection *)
(* may pass what they then refuse.  Each check is there twice, once for    *)
(* either's errors.                                                        *)
(***************************************************************************)

\* verify_directory_chain: the directory and all that lead to it.
TrustedChain(directory) ==
  \A d \in {directory} \cup directory.above :
    d.kind = "directory" /\ ~d.link /\ d.owner = Root /\ d.writers = {}

\* prepare_directory: one that is missing is made, if those above it are trusted.
PreparedDirectory(directory) ==
  \/ TrustedChain(directory)
  \/ /\ directory.kind = "missing" /\ ~directory.link
     /\ \A d \in directory.above : TrustedChain(d)

\* verify_open_file.
PrivateFile(path) ==
  path.kind = "file" /\ path.owner = Root /\ path.readers = {}

\* verify_replace_target: there is nothing, or a file that nobody else uses.
ReplaceTarget(path) ==
  ~path.link /\ (path.kind = "missing" \/ PrivateFile(path))

-------------------------------------------------------------------------------

\* verify_reviewed_evidence: a trusted file with the digest that was reviewed.
Reviewed(config, host, subject) ==
  /\ TrustedRegular(host.evidence[subject])
  /\ host.evidence[subject].content = config.evidence[subject]

-------------------------------------------------------------------------------
(***************************************************************************)
(* The inspections of a start.  A model is a record                        *)
(*   [manifest, artifact, trusted]                                         *)
(* of its manifest [role, digest, contract, valid], its artifact [digest,  *)
(* contract], and whether root alone may write both files.  Its identity   *)
(* (compatibility_sha256) is a digest of the whole manifest, for which the *)
(* manifest itself stands.                                                 *)
(***************************************************************************)

\* inspect_models, by verify_model_installation: the suite's installed models,
\* each of the role that the configuration gives it.
InspectModels(config, host, models) ==
  \A role \in Range(config.models) :
    /\ Reviewed(config, host, role)
    /\ models[role].trusted
    /\ models[role].manifest.valid
    /\ models[role].manifest.role = role
    /\ models[role].manifest.digest = models[role].artifact.digest

\* The thresholds were measured with models of these identities.  The landmark
\* model is named twice.
CalibratedFor(config, identity) ==
  \A c \in config.calibrated : identity[c.role] = c.identity

Measurements == {"recognition", "quality", "pad", "challenge", "enrollment"}

\* inspect_calibration, of the identities that inspect_models found.
InspectCalibration(config, host, models) ==
  /\ CalibratedFor(config, [role \in Range(config.models) |->
                              models[role].manifest])
  /\ \A subject \in Measurements : Reviewed(config, host, subject)

\* No look at the key.
SlipInspectStorage(config, host, blob) ==
  /\ TrustedDirectory(host.templates)
  /\ Reviewed(config, host, "recovery")
  /\ config.key = "Tpm"
  /\ TrustedDevice(host.tpm)

\* inspect_storage: a key of the TPM's, which must be there already.
InspectStorage(config, host, blob) ==
  /\ TrustedDirectory(host.templates)
  /\ Reviewed(config, host, "recovery")
  /\ config.key = "Tpm"
  /\ TrustedDevice(host.tpm)
  /\ TrustedRegular(blob)

\* inspect_authorization and inspect_management.
InspectReview(config, host, subject) == Reviewed(config, host, subject)

\* inspect_authentication_boundary: nothing is at the socket's path.
InspectBoundary(config, host, bound) ==
  /\ TrustedDirectory(host.run)
  /\ ~bound
  /\ Reviewed(config, host, "boundary")

\* inspect_cameras, by discover and resolve_pair.
InspectCameras(config, entries) ==
  ResolvesPair(Discovered(entries), config.infrared, config.visible)

===============================================================================
