---------------------------- MODULE MCProductionStart --------------------------
(* Small installations for ProductionStart: one that starts, and one for each *)
(* inspection that can refuse it.                                             *)
EXTENDS ProductionStart, TLC

CONSTANT Other  \* a uid that is not root's

RootDirectory ==
  [kind |-> "directory", owner |-> Root, writers |-> {}, link |-> FALSE,
   above |-> {}]

FileOf(content) ==
  [kind |-> "file", owner |-> Root, writers |-> {}, readers |-> {}, length |-> 1,
   content |-> content, link |-> FALSE, above |-> {RootDirectory}]

Subjects == Range(Suite) \cup Measurements \cup
            {"recovery", "authorization", "management", "boundary"}

\* A camera that is known by its serial, one without any, and the second node
\* of a camera, which has no pictures.
Camera(node, serial, sensor) ==
  [node |-> node, vendor |-> "04f2", product |-> "b769",
   serials |-> <<Unset, serial>>, path |-> "port",
   capabilities |-> {"capture"},
   formats |-> IF sensor = "infrared" THEN {<<"Gray8", 1>>}
               ELSE {<<"Yuyv", 1>>, <<"Mjpeg", 1>>},
   rates |-> {1}, sensor |-> sensor]

Metadata(node, serial) ==
  [Camera(node, serial, "infrared") EXCEPT !.capabilities = {}, !.formats = {}]

Infrared(node) == Camera(node, "ir", "infrared")
Visible(node) == Camera(node, "rgb", "visible")

GoodEntries == {Infrared("video0"), Metadata("video1", "ir"), Visible("video2")}

\* The cameras have changed places, or another one is in the way.
OtherEntries ==
  {Infrared("video2"), Metadata("video1", "ir"), Visible("video0")}
NewEntries ==
  {Camera("video0", "new", "infrared"), Infrared("video1"), Visible("video2")}

CaptureOf(format) ==
  [format |-> format, size |-> 1, rate |-> 1, buffers |-> 2, warmup |-> 0,
   timeout |-> 1, limit |-> 1]

SelectorOf(serial) ==
  [usb |-> <<"04f2", "b769">>, serial |-> serial, path |-> Unset]

RuleOf(service, purpose, caller) ==
  [service |-> service, purpose |-> purpose, caller |-> caller,
   executables |-> <<"helper">>]

Manifest(role, digest) ==
  [role |-> role, digest |-> digest, contract |-> "shape", valid |-> TRUE]

GoodConfig ==
  [sound |-> Parts,
   infrared |-> SelectorOf("ir"), visible |-> SelectorOf("rgb"),
   capture |-> [infrared |-> CaptureOf("Gray8"), visible |-> CaptureOf("Yuyv")],
   models |-> Suite,
   calibrated |-> {[role |-> r, identity |-> Manifest(r, "measured")] :
                     r \in Range(Suite)},
   recognition |-> [visible |-> TRUE, liveness |-> "PassiveAndActive",
                    fallback |-> TRUE],
   rules |-> <<RuleOf("kde", "ScreenUnlock", "TargetUser"),
               RuleOf("sddm", "Login", "RootOnly"),
               RuleOf("faceauth-enroll", "Polkit", "RootOnly")>>,
   managed |-> TRUE,
   boundary |-> [mode |-> "0660", fallback |-> TRUE],
   key |-> "Tpm",
   evidence |-> [s \in Subjects |-> s]]

GoodHost ==
  [library |-> FileOf("library"),
   evidence |-> [s \in Subjects |-> FileOf(s)],
   templates |-> RootDirectory,
   run |-> RootDirectory,
   keys |-> RootDirectory,
   blob |-> FileOf("key"),
   tpm |-> [kind |-> "device", owner |-> Root, writers |-> {"group"},
            above |-> {RootDirectory}]]

Artifact(digest) == [digest |-> digest, contract |-> "shape"]

Model(role) ==
  [manifest |-> Manifest(role, "measured"), artifact |-> Artifact("measured"),
   trusted |-> TRUE]

GoodModels == [r \in Range(Suite) |-> Model(r)]

\* An update that is just another model, one of another role, one that does not
\* match its manifest, one whose graph is not what the manifest says, and one
\* that others may write.
Updates ==
  LET role == Suite[1]
  IN {[for |-> role, model |-> m] :
        m \in {[Model(role) EXCEPT !.manifest = Manifest(role, "new"),
                                   !.artifact = Artifact("new")],
               [Model(role) EXCEPT !.manifest.role = Suite[2]],
               [Model(role) EXCEPT !.artifact = Artifact("new")],
               [Model(role) EXCEPT !.manifest = Manifest(role, "odd"),
                                   !.artifact = [digest |-> "odd",
                                                 contract |-> "other"]],
               [Model(role) EXCEPT !.trusted = FALSE]}}

Installed(c, h, m, u, p) ==
  [config |-> c, host |-> h, models |-> m, updates |-> u, plugged |-> p]

Configured(c) == Installed(c, GoodHost, GoodModels, {}, <<GoodEntries>>)
Hosted(h) == Installed(GoodConfig, h, GoodModels, {}, <<GoodEntries>>)
Plugged(p) == Installed(GoodConfig, GoodHost, GoodModels, {}, p)

BadConfigs ==
  <<[GoodConfig EXCEPT !.sound = Parts \ {"pairing"}],
    [GoodConfig EXCEPT !.infrared = SelectorOf(Unset)],
    [GoodConfig EXCEPT !.capture.infrared.format = "Yuyv"],
    [GoodConfig EXCEPT !.visible = SelectorOf("ir")],
    [GoodConfig EXCEPT !.models = [i \in DOMAIN Suite |-> Suite[1]]],
    [GoodConfig EXCEPT !.recognition.liveness = "Passive"],
    [GoodConfig EXCEPT !.rules = SubSeq(@, 1, 2)],
    [GoodConfig EXCEPT !.rules[3].caller = "RootOrTargetUser"],
    [GoodConfig EXCEPT !.managed = FALSE],
    [GoodConfig EXCEPT !.boundary.mode = "0666"],
    [GoodConfig EXCEPT !.evidence["recovery"] = "another"],
    [GoodConfig EXCEPT !.calibrated =
       @ \cup {[role |-> Suite[2], identity |-> Manifest(Suite[2], "old")]}]>>

BadHosts ==
  <<[GoodHost EXCEPT !.library.writers = {"others"}],
    [GoodHost EXCEPT !.evidence["quality"].content = "another"],
    [GoodHost EXCEPT !.evidence["boundary"].owner = Other],
    [GoodHost EXCEPT !.evidence["authorization"].length = 0],
    [GoodHost EXCEPT !.templates.above = {[RootDirectory EXCEPT !.owner = Other]}],
    [GoodHost EXCEPT !.tpm.kind = "missing"],
    [GoodHost EXCEPT !.blob.kind = "missing"],
    [GoodHost EXCEPT !.keys.kind = "missing", !.blob.kind = "missing"],
    [GoodHost EXCEPT !.keys.link = TRUE, !.blob.kind = "missing"],
    [GoodHost EXCEPT !.blob.readers = {"group"}],
    [GoodHost EXCEPT !.blob.writers = {"group"}, !.blob.readers = {"group"}],
    [GoodHost EXCEPT !.templates.link = TRUE]>>

\* No infrared camera; two; one that is not USB's; and one that has another
\* format than the one that is asked for.
BadEntries ==
  <<{Visible("video2")},
    GoodEntries \cup {Infrared("video3")},
    {Visible("video2"), [Infrared("video0") EXCEPT !.vendor = Unset]},
    {Visible("video2"), [Infrared("video0") EXCEPT !.formats = {<<"Gray8", 2>>}]}>>

\* Cameras that change places, where the start ends at the socket.
Replugged ==
  Installed(GoodConfig, [GoodHost EXCEPT !.run.link = TRUE], GoodModels, {},
            <<GoodEntries, OtherEntries, NewEntries>>)

\* Two selectors that find the same camera, by its serial and by its place.
OneCamera ==
  Installed([GoodConfig EXCEPT
               !.visible = [usb |-> <<"04f2", "b769">>, serial |-> Unset,
                            path |-> "port"]],
            GoodHost, GoodModels, {}, <<{Infrared("video0")}>>)

\* The file key, which is made when it is first needed.
FileKey ==
  Installed([GoodConfig EXCEPT !.key = "RootOnlyFile"],
            [GoodHost EXCEPT !.blob.kind = "missing"], GoodModels, {},
            <<GoodEntries>>)

MCInstallations ==
  <<Installed(GoodConfig, GoodHost, GoodModels, Updates, <<GoodEntries>>),
    Replugged, OneCamera, FileKey>>
  \o [i \in DOMAIN BadConfigs |-> Configured(BadConfigs[i])]
  \o [i \in DOMAIN BadHosts |-> Hosted(BadHosts[i])]
  \o [i \in DOMAIN BadEntries |-> Plugged(<<BadEntries[i]>>)]

Alike == Permutations(Callers) \cup Permutations(Inodes)

MCSuite == <<"Detector", "Landmarks">>

===============================================================================
