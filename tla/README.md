# TLA+ models of faceauth-rs

This directory holds the models of faceauth-rs, a local face-authentication
service for Linux: a root daemon that owns an infrared and a visible-light
camera, authenticates PAM clients over a Unix socket, enrols users through a
D-Bus interface and keeps their encrypted templates. The models are translated
from the source; the documents under `docs/` were used only to find out what
the code is meant to do. TLC checks the models on small instances, and the
theorems in the `*Proofs` modules are proved with TLAPS for all values of the
constants.

    tlc -workers 2 -config MCLoginService.cfg MCLoginService   # one run
    tlapm LoginServiceProofs.tla                               # one module of proofs

`PROJECT.json` lists the runs with their configurations, the lines each
definition stands for, the hazards each property is aimed at, and for every
property an error in the code that would break it. Those errors are the `Slip`
definitions of the modules; no specification uses one.

## The system

| part | source | state | interacts with |
| --- | --- | --- | --- |
| session manager | `faceauth-session` | one active transaction with deadline and cancellation token | called by the daemon's coordinator |
| authentication daemon | `faceauth-daemon/src/{lib,engine,resource}.rs` | connection, coordinator, request and update channels, active flag, biometric lease | session manager, transport, shutdown token |
| production composition | `faceauth-daemon/src/{production,main}.rs` | what has been built so far | opens cameras, models, store and socket; joins listener, engine and supervisor |
| supervision | `faceauth-daemon/src/supervision.rs` | shutdown flag, waker list, service threads, first failure, grace period | every service of the daemon |
| enrollment worker and control | `faceauth-daemon/src/enrollment_engine.rs` | job, channel, active flag, lease, controller slot | management coordinator, D-Bus service, template store |
| management coordinator | `faceauth-management` | one active operation with its deadline | D-Bus service, relay |
| D-Bus service | `faceauth-management-dbus` | owner of the operation, signals, name watcher | coordinator, controller, PolicyKit |
| observation pipeline | `faceauth-daemon/src/observation.rs` | challenge, previous pair, attempt counters | capture, liveness, inference, quality, both engines |
| capture, camera | `faceauth-capture`, `faceauth-camera` | two frame streams | observation pipeline, start-up |
| active liveness | `faceauth-liveness` | phase, streaks, last frames of one challenge | observation pipeline |
| enrollment session | `faceauth-enrollment` | accepted samples | enrollment worker |
| template storage | `faceauth-storage/src/lib.rs` | template file, lock file, temporary files, key file | daemon, enrollment worker, command line |
| sealed key | `faceauth-storage/src/tpm.rs` | sealed blob | template storage, storage doctor |
| authorization, policy | `faceauth-authz`, `faceauth-core` | none (functions of credentials and evidence) | daemon, D-Bus service |
| protocol, transport | `faceauth-protocol`, `faceauth-transport` | socket path, connections, accept budget | daemon, PAM module |
| PAM module | `pam-faceauth` | one exchange | daemon |
| UI model | `faceauth-ui-model` | what one screen shows | PAM module, D-Bus service |
| quality, inference, model | `faceauth-{quality,inference,model}` | a run of a graph with its watchdog | observation pipeline, start-up |
| presence | `faceauth-presence` | cache of presence and inhibition hints | nothing yet |
| KDE module, command line | `ui/kde`, `faceauth-cli` | one pending call; none | D-Bus service |

What is hard about it:

* **Concurrency.** The listener, the engine worker, the enrollment worker, the
  relay, the D-Bus tasks and the supervisor are threads or tasks that share
  flags, single-place channels, a lease and two mutexes, and that wait for each
  other with time-outs. Decisions are taken by whoever comes first: deadline,
  client, departing client, engine, shutdown. Other processes share the socket's
  path, the key and the model files, and exit while they are being identified.
* **Failure.** A write to a client, a capture, a template save, a D-Bus signal,
  a thread spawn, a graph or a system call under the storage lock may each fail,
  or hang, in the middle of a handler.
* **Crashes.** The template and key files must survive a process or the power
  going away between any two system calls, and a dead daemon's socket must not
  be mistaken for a live one's.
* **Stale looks.** Models, cameras, keys, paths and processes are inspected
  first and used later.
* **Ordering and numbers.** Capture times, sequence numbers, sample intervals,
  deadlines and generations must be strictly increasing, and are compared at
  their limits; pictures are sampled, cropped and aligned up to their borders.

Each part's correctness, in a sentence: a session has one decision, earned
before the deadline; PAM succeeds only on its own session's acceptance, granted
to the process that asked; the pipeline serves one job, whose cancellation is
never lost; the operation, its owner, its worker and its relay agree on when it
ended; the supervisor always returns and never hides a failure; a template is
an atomic register with generations that survives a loss of power; a key, once
it is on the disk, stays; a challenge passes only on fresh, uninterrupted
evidence; a verdict rests on models, frames, policies and a template that
belong together; what is built is what was inspected and calibrated.

## The modules

    OneShot <= Session -- SessionManager       VersionedTemplate <= TemplateStore
                 |             |
    LoginService (+ Authorization, Experience) AuthDaemon     Supervisor
    EnrollmentControl -- ManagementCoordinator
    Observation -- Challenge, EnrollmentSamples        ActiveChallenge -- Challenge
    Perception -- Quality, Decision -- Inference -- ModelManifest
    ProductionStart -- MachineKey, Configuration -- Authorization

`A <= B` reads: B is shown to implement A. `--` is EXTENDS or INSTANCE.

### Sessions: `SessionManager`, `Session`, `OneShot`

`SessionManager` has the manager's state (`slot`, the started sessions, the
signalled tokens, the last reply) and one action per method: `Start`,
`Progress`, `Complete`, `Cancel`, `Expire`, with the order of the code's checks
(binding, deadline, reserved decision). It has no behaviour of its own.
`Session` lets any connection call any method at any time; `AuthDaemon` and
`LoginService` drive the same module from the daemon. `OneShot` is the promise:
sessions are served one after the other, and each is decided once.

### Logins: `LoginService`, `Authorization`, `Experience`

A login from end to end. Processes fork and exit, and their identifiers are
used again; a PAM call connects, waits in the backlog, and reads responses up
to its limits (`ReadResponse`, `ReadFails`). The listener accepts within its
budgets, takes the credentials of the peer, opens the executable through
`/proc`, looks whether the process is still the same (`VerifyPeer`,
`OpenExecutable`, `VerifyAgain`), and admits the transaction or refuses it by
the rules of `Authorization`. The engine captures pairs (`CapturePair`) and
reports progress and a decision at any time; both go through `SessionManager`. A
decision is completed at the capture time of its evidence and a failure at the
present, as in `send_derived_completion` and `send_engine_failure`, so that an
acceptance may come after the deadline of its session here as it may in the code.
`Experience` is the screen, which follows this login and management operations
at once.

A process that executes another program closes its connection (the descriptor
is close-on-exec), so it has one program here. PAM's early returns (arguments,
user, service) are processes that never connect. No time passes between the
clock sample of `handle_one` and its reply; `AuthDaemon` has that. `Expire`, and calls with another's token, are
not made by the daemon; what `LoginServiceProofs` shows of `Session` covers
them.

### Authentication daemon: `AuthDaemon`

Listener thread, engine worker thread, clients, and the shutdown. `lpc` and
`wpc` are places between the code's blocking points and lock operations:
`Accept`, `Prefetch` and the reads and writes of frames are those of
`handle_one` and `coordinate_started_authentication`; `Reserve`/`Enqueue` are
the lease and the channel of `AuthenticationEngineClient::submit`;
`ReportProgress`, `FinishJob`, `ReportResult`, `ReleaseActive` and `DropRequest`
are `run_job` in the order of its statements, because the order in which the
terminal update, the active flag and the lease go is what the next client
depends on. The handler's return and its request of a shutdown after an error
are two steps (`Return`, `RequestFatal`), between which a job may run on that
nobody has cancelled: after a failed write of a progress response, and only then
(`OrphanIsCancelled`). What the engine computes is a choice; what it was computed from (a
job and a capture time) is kept, so that an acceptance can be traced to its
frames.

### Enrollment: `ManagementCoordinator`, `EnrollmentControl`

`ManagementCoordinator` is the operation slot, one action per method.
`EnrollmentControl` extends it with the D-Bus method handlers (suspended at
their awaits and between their critical sections), the watcher of bus names,
which ends with the first signal it cannot send,
the controller bridge, the relay and the enrollment worker with its template
commit. An action is one critical section.

### Supervision: `Supervisor`

The shutdown token (flag, waker list, drain), a thread per service, `run_until`
and the drop of the supervisor. Services may end, fail, unwind, hang, or request
the shutdown. The branch of `run_until` for a closed event channel is left out:
the supervisor keeps services, and so senders, while it waits.

### Template store: `TemplateStore`, `VersionedTemplate`

The template file of one account under concurrent callers. Each system call of
`atomic_write` is a step, any of which may fail; a process may end anywhere; the
power may be lost, which keeps any directory entry renamed since the last sync
of the directory and nothing of a file that was not synced. Key-provider
errors, permission and trust checks are the action `Fail`; left-over temporary
files have fresh names and are never read; a load is one step, since an open
file that was renamed into place is never written again. `VersionedTemplate` is
the promise: a register with generations on which every mutation takes effect
at one moment; the store implements it at its rename.

### Start-up: `ProductionStart`, `MachineKey`, `Configuration`

Several processes start the production composition
(`run_production_authentication_composition`), run the storage doctor or use a
file key, while models are replaced, cameras are plugged in anew, an
administrator removes the socket, system calls fail, processes die and the power
is lost. `Configuration` has `validate`, the inspections of the host that the
builders make, the discovery and resolution of cameras and what opening
one asks of its driver. `MachineKey` is `load_key` of both providers step by
step, under callers that no lock orders; the TPM unseals what it sealed, or
fails. `ProductionStart` follows a start from its inspections through cameras,
models, calibration, store and key self-test to the socket, where each system
call of `bind_owned` is a step, and then to the removal of the socket. A model is
loaded in the three reads of the code: its manifest (`ReadManifest`), the
artifact for its digest (`VerifyModel`), and the artifact again, by its path, for
the graph (`CommitModel`). A listener that is dropped first looks at the path
(`Close`) and then removes what is there (`Unlink`); either call may fail, which
`Drop` ignores.

Paths are records of what the checks look at. The `serve` command of `main`
never calls the composition, since the report always blocks on the gate of the
composition itself; the model is of the library function. The report, which
repeats the inspections, is not modelled. Whoever deletes the key file while
daemons run is outside it, and `DaemonDrawsNoKey` would not hold then.

The code has windows between a look and the use of what was seen. They are in
the model, and history variables tell the properties of them: an artifact that is
replaced between its verification and its opening is loaded all the same
(`swapped`); a socket that an administrator removes between a look at the path
and the next step of its owner lets that step take, or remove, the socket of
another daemon (`torn`); and the look at the socket just bound, if it fails,
leaves the socket there, as do failed removals (`left`). Without these exceptions
the properties do not hold (Disagreements). Stale sockets may be removed by
somebody: that is the runtime directory of the service unit.

### Challenge: `Challenge`, `ActiveChallenge`

`Challenge` is `ChallengeSession` as a value, with `observe_cancellable` as the
operator `Observed`; poses stand for eye openness and yaw. `ActiveChallenge`
offers a session every sequence of observations and keeps the accepted ones, so
that the phase the code counts along can be compared with the phase that the
whole history amounts to.

### Observation: `Observation`, `EnrollmentSamples`

`Observation` is `run_session`, the loop that both engines share: it reads
pairs of frames until they are aligned (`capture_pair_cancellable`), refuses a
pair that shows nothing new, leads the user through a `Challenge`, and derives an
observation of every pair from the one that completed the challenge on. Whose
consumer it has is open until the first observation is handed over: that of an
authentication breaks with it, that of an enrollment feeds `EnrollmentSamples`
(`EnrollmentSession` as a value, and the accumulator before it). An action is a
read or an inference together with the look at the cancellation that follows
it, so that a cancellation falls between any two of them. What the models say
of a pair is a choice here.

### Perception: `Perception`, `Inference`, `Quality`, `Decision`, `ModelManifest`

What becomes of one pair of frames, `process_pair` and `derive_observation` with
the six models they run, each beside a watchdog that terminates it at its
deadline. `ModelManifest` says which declarations of a model are admitted;
`Inference` has preprocessing (both samplers, YUYV, tensor layouts), decoding of
boxes, overlap suppression, crops, the similarity transform, the reading of
outputs by their meaning, and embeddings; `Quality` the measures, scores and
aggregate of a picture; `Decision` the policy and its verdict. What a graph
returns is a choice among tensors of the declared shapes.

What the decoders do is told apart from whether they err: `ReadsFaces`,
`ReadsLandmarks`, `ReadsEmbedding` and `ReadsScore` are the conditions of the
`extract_*` functions, `Detections`, `FacialLandmarks`, `FaceEmbedding` and
`PassiveScore` what they return. `suppress_overlaps` sorts the faces and walks
through them; `Retained` is the set it ends with, the one set whose members are
the faces that no member before them overlaps too much. The limit on the faces
is reached during the walk in the code and counted after it here, which errs in
the same cases.

Numbers are integers in units of 1/`One`, rounded down where the code divides;
where a property compares, fractions are kept. The rounding of `f32` is
therefore not modelled, nor the constant that scales the Laplacian, except in
its limit. All errors
of a check are one refusal, as they are to every caller.

## The runs

| run | what it shows | bounds |
| --- | --- | --- |
| `login` | PAM accepts only its own accepted session, grants are the peer's own, deadlines decide by capture time, tokens follow sessions, refinement of `OneShot`, screens keep their flow, PAM returns | 2 processes and pids, 2 programs, 2 rules, duration 1, clock to 1, 2 responses, 1 progress update, 1 management operation |
| `daemon_safety` | order of responses, exclusive pipeline, no orphan that is not cancelled but for one window, acceptances are earned | 2 clients, duration 1, clock to 2, 2 frames of a client, 1 progress update, 2 polls of the drain |
| `daemon_live` | transactions are answered, nothing is kept, the shutdown completes | the same with clock to 1, 1 frame, 1 poll, no symmetry |
| `enroll_safety` | one terminal signal and only of an operation that has ended, enrolled means stored, the lease covers the job | 2 senders of one account, 2 operations, 2 interruptions, 1 progress update |
| `enroll_live` | the lease returns, operations are decided | 1 sender, 1 operation |
| `enroll_late_terminal` | (violated) a late cancellation blocks the controller for good | as `enroll_safety` |
| `supervisor` | the shutdown spreads: the supervisor returns and every cooperating service stops | 3 services, two waiting, one hanging, grace 2 |
| `store` | acknowledged mutations last, refinement of `VersionedTemplate`, every call returns | 2 callers, 2 records, last generation 2, 2 mutations each, 1 loss of power |
| `active_challenge` | the phase is the one earned, evidence is fresh | 5 observations, streaks 2, times to 7, sequence numbers modulo 2 |
| `observation` | a template is earned: samples after the challenge, apart in time, alike, of enough poses, for a job that is not cancelled | 4 observations of a challenge, 2 to 3 samples, 3 derived pairs, 9 prompts, 1 replacement, times to 11, sequence numbers modulo 3 |
| `perception` | admitted models can be read, second faces are seen, samples stay in the frame, the alignment is a best fit, the quality is conservative, cancellation stops inference, acceptance is evidenced, pairs end | 6 models with inputs of up to 3 by 5, frames of up to 8 by 4, numbers in quarters, a deployment and a pair for each thing that can be wrong |
| `startup` | calibrated models, cameras of the right light, reachable sockets, nothing left behind, keys stand and daemons draw none | 2 processes, 2 keys, 2 loads each, 1 loss of power, 1 replacement, 2 inodes, 32 installations: 4 that differ in what happens to them, and one for each inspection that refuses |

Two clients, processes, senders or callers are the smallest number with which
one can be served, be drained or die while the next is let in; a third adds a
longer queue and no new pair of steps (the supervisor has three services, because
two may fail while a third watches). Two transactions, operations or
generations after the first are enough for a stale identifier to meet a newer
one, which every comparison in the code is about. Durations of one or two ticks
reach the time before, at and after a deadline. In `observation` sequence numbers
wrap after three, since a camera advances by at most two between two pairs; the
clock's horizon admits a challenge of four pairs, the samples after it beyond
the enrollment's deadline, and as many pairs as the capture limit; the limits on
prompts, captures, derived pairs and the challenge's budget are all reached.
Three samples are needed because similarity is not transitive. Where the clock
has reached its horizon a camera only fails, which the code must expect anyway.
Checks up to a permutation of clients, senders, callers or inodes are used only
in runs without liveness.

Deadlock checking is off where the system may stop (bounded calls are used up,
or everything has shut down); that nothing stops earlier is what the liveness
properties say.

Type invariants are stated in each module. Those of sessions, supervisor, store,
challenge, `EnrollmentControl` and `Observation` are proved; those of
`AuthDaemon` and `MachineKey` hold when they are added to the runs
`daemon_safety` and `startup`, and the proofs about these modules have their own
(`DataInv`, `StartOK`).

### Fairness

* `LoginService`: a PAM process that waits is scheduled, and its reads return,
  with a response or with the read timeout. Nothing is assumed of the daemon.
* `AuthDaemon`: the listener and the worker thread keep running, and the
  supervisor notices a service that returned. The engine's `authenticate`
  returns, since its captures and observations are bounded and every device read
  has a time-out. Nothing is assumed of clients or of the clock.
* `EnrollmentControl`: the bus executor runs tasks that can run, the watcher,
  the relay and the worker keep running, an authentication gives the lease back.
  Senders, PolicyKit, the clock, and `expire`, which nothing calls, owe nothing.
* `Supervisor`: threads run and time passes; only cooperative services return
  when asked.
* `Perception`: the worker and the watchdog run, the deadline comes, and a graph
  that was told to terminate does so. A graph may otherwise run for ever.
* `TemplateStore`: a caller inside a method goes on. The lock needs no more than
  weak fairness of the waiting caller because the calls of a behaviour are
  bounded; the kernel's lock is not claimed to be fair.

## Disagreements

One is a run that TLC refutes, listed as a finding: a terminal update that finds
its operation already ended leaves the controller set, and no enrollment can be
begun after it (`LateTerminalCleansUp`). The modules state the following as
well, each refuted by TLC under the module's `Spec` with the configuration of its
safety run:

* `AuthDaemon!NoLateAcceptance`: a completion is judged at the capture time of
  its evidence (`lib.rs`, `send_derived_completion`), so an acceptance can be
  written after the deadline, against `docs/ipc.md:123`. `DeadlineDecides` of
  `LoginService` says what does hold: the evidence is of the session's lifetime.
* `AuthDaemon!DisconnectSignalsToken`: a client that left is noticed by the
  write of a progress response, which returns at once and neither cancels nor
  drains; only the shutdown that is requested next stops the job, against the comment of `coordinate_authentication_connection`.
* `AuthDaemon!ChannelLossIsEarly`: an orderly shutdown can end the engine worker
  with `RequestChannelClosed`, because the listener may drop the channel between
  two looks of the worker at the flag.
* `EnrollmentControl!CancellationMaps`: the worker's cancellation is passed to
  `complete`, which refuses reserved results, against `docs/enrollment.md:84`.
* `EnrollmentControl!OnlyOwnerCancels`: `cancel_enrollment_impl` cancels the
  worker before it compares the sender with the owner, against
  `docs/management.md:56`.
* `EnrollmentControl!DepartedOwnsNothing`: a client that leaves during the
  PolicyKit dialog ends up owning an operation, against `docs/kde-ui.md:15`.
* `Supervisor!EarlyReturnIsFatal`: whether a service returned early is judged
  when its event is received.
* `MachineKey!KeysAgree` (with the configuration of `startup`): two creators of a
  sealed key that both find none use different keys, since the second rename
  replaces the blob (`tpm.rs:294`), against `tpm.rs:48` and `docs/storage.md:44`.
* `ProductionStart!LoadedIsVerified`: `OnnxSession::load` checks the digest of an
  artifact and opens it again by its path (`inference/src/lib.rs:711`, `724`), with
  the identity taken from the manifest, so a file replaced in between runs under
  the calibrated identity, against `docs/production-readiness.md:58`.
* `ProductionStart!ReplacedPathStays`: `remove_owned_path` compares the inode and
  then removes whatever is at the path (`transport/src/lib.rs:156`, `164`),
  `bind_owned` removes it without a look when permissions cannot be set (`81`), and
  takes as its own what it finds after that (`84`). If the socket is removed in
  between and another daemon binds its own, that one is removed, against
  `docs/ipc.md:35`, or taken for the first.

More can be read off the modules:

* A pair without a single usable face (`ProcessFindsNoFace` of `Observation`)
  never reaches the challenge, so it does not interrupt a streak that
  `docs/liveness.md` calls consecutive.
* Every derived pair costs two of the 32 updates of a job, and each pair without
  a face one. The updates therefore run out, as `Internal`, before
  `MAX_DERIVED_OBSERVATION_ATTEMPTS` or the capture attempts do: an enrollment
  whose frames are merely too close together fails that way, although
  `docs/enrollment.md` says that they are discarded.
* `derive_observation` ends the session when the face in a frame is too small to
  be assessed or crosses the border, although `docs/enrollment.md` lets
  observations of low quality be retried.
* The readiness report follows links, and looks less closely at the key blob than
  the providers do: the socket's directory, the templates and the blob may pass
  the inspection and be refused by `bind_owned`, the store or the provider
  (`LookAgain`, `MayCall`, `MayRead` of `ProductionStart`), so that an installation
  reported as ready does not start.
* `bind_owned` leaves its socket at the path when its look at it fails
  (`transport/src/lib.rs:84`), which keeps the next daemon from starting.
* A camera is opened by its node, and that it is still the camera of the selector
  is not looked at again. `CamerasFitModality` shows what remains: the format
  tells infrared from color.
* The accept loop counts connections over the life of the listener
  (`transport/src/lib.rs:249`), after which the service ends; and a screen that is
  `Active` cannot be reset (`ui-model/src/lib.rs:311`), so one whose daemon died
  stays until its host is restarted.

## The proofs

`LoginServiceProofs` begins with `Session`. `Inv` says that the slot holds the
newest token, that exactly the tokens of ended sessions are signalled, and that
exactly they have a decision. `TokenFollowsSlot` and `DecidedOnce` are not
inductive on their own because a start could reuse a token; the numbering of the
starts rules it out. `StepShape` reduces every method to "starts, ends or leaves
the slot", and the theorems, the refinement of `OneShot` among them, follow from
it. `UsesSession` then shows that every step of the login service is a step of
`Session`, whose completions may speak of an earlier time, or leaves it alone, so
that the theorems about sessions hold of the whole service (`LoginTokens`,
`LoginOneShot`). `LoginDeadline` needs that the last capture lies between the
start of the active session and the present. `EvidenceCorrect` needs to know
where the listener stands: the process that was opened is the peer because the
second look found the peer alive, with the identifier that its connection was
made with, and identifiers are unique among the living. `AcceptedCorrect`
follows a terminal from the decision to the inbox of its own connection and from
there to the return code. `ScreenCorrect` needs no invariant: it goes through
the methods of the screen, in any state, and through the steps that call them.

`AuthDaemonProofs`: the listener and the worker run at the same time, so nothing
follows from one of them alone. `DaemonInv` ties the listener's place to the
lease, the active flag, the request place and the worker's: the lease belongs to
whoever submits or to the one job there is (`LeaseInv`), and the coordinator
leaves a job that has not reported only with an error, which is at once or in
the next step a request of shutdown (`AttendedInv`). The flag may stay up, when a worker that stops drops a
queued request, but then nothing is submitted again (`ActiveInv`). It gives
`PipelineExclusive` and `OrphanIsCancelled`. `TalkInv` adds what the client has
read: from `Started` on the slot is the served client's, and only progress and
rejections follow, until the response that ends the session; it gives
`ResponseOrder`. `EvidenceInv` adds times: the session in the slot is the newest,
what a worker holds is gone with its job, and the channel, the capture and the
result are no older than the session that waits for them; with
`OnlyEvidenceAccepts` (one step alone writes an acceptance) it gives
`AcceptanceIsEarned`. `ListenerKinds` reduces the eighteen steps of the listener
to six kinds.

`SupervisorProofs`: the invariant has a part about who made the request and
whether it is draining, a part about wakers (a parked service is registered, or
is woken, or a drain that will wake it is under way), one about joined services,
and one that relates the two clocks. It gives `NoWaiterLost`, `CleanReport`,
`GraceIsGiven` and `NoServiceOrphaned`.

`TemplateStoreProofs`: the lock has one holder, and it stands behind `Lock`; the
payload read under the lock is the template until the rename; a generation is
never reached twice, which is why a payload seen with the template's generation
is the template; the disk holds whole payloads no older than the acknowledged
one. It gives `AcknowledgedLasts`, `GenerationsSucceed` and `ReplacesWhatItSaw`,
and the refinement of `VersionedTemplate`, which maps a mutation to its rename.

`EnrollmentControlProofs`: the types come in four parts, by who may disturb them
(`SlotTypes`, `CallTypes`, `ChannelTypes`, `WorkTypes`), and `StepGroups` sorts
the steps of `Next` accordingly. `EnrollmentHoldsLease` and `OneTerminalSignal`
are not inductive. For the first, the lease of an enrollment is that of the
request in the queue or of the job, and there is never one of both. For
`EnrolledIsStored` a success is followed through the worker, the channel and the
relay (`StoredInv`), which says something about an operation only since relay,
receiver and controller have the same one (`RelayInv`): a channel that a later
submission replaced would otherwise bring the news of an earlier job. For
`OneTerminalSignal` the invariant looks at who is about to signal
(`TellInv`): the coordinator's slot gives each operation away once, to a call,
the watcher or the relay, and whoever has it is the only teller until it told.

`ObservationProofs`, the challenge: the session counts along and forgets; the
properties speak of the whole history. `ChallengeInv` ties the two: what the
session remembers is the last accepted observation (`MemoryMatches`), the action
streak is no longer than the run of action poses that ends the history and began
at `actionStarted` (`ActionCounted`), and the recovery streak is a run of neutral
poses after a performed action (`RecoveryCounted`). A streak may be shorter than
its run, since it saturates; it is never longer, and that is what a pass needs
(`PassIsEarned`). The converse, that a history which amounts to a pass has passed,
needs more: that a streak which is not saturated is the whole run, that nothing
before the first neutral pose counts, and that the recovery begins with the first
action that was performed (`ActionExact`, `RecoveryExact`). Both directions give
`PhaseIsEarned`. `Steps` reduces an observation to "refused" or "taken", and
`TakenPhase` says what a taken one does in each phase.

`ObservationProofs`, the session: `CountersMatch` bounds what the loop counts by
the place it is at. `Earned` is why a template is: the samples in the session are
spaced, alike two by two and spread in yaw as far as it is complete
(`SoundSamples`, preserved by the acceptance of one more sample), what is derived
is the pair last captured after a challenge that has passed, pairs are captured
one after the other, and the session finishes only at a look that found the job
alive. It gives `TemplateIsEarned`, for any cameras and any enrollment policy.

`PerceptionProofs`: a graph started after the cancellation is the only one, since
its end leads to the verdict (`LateGraph`). The other theorems rest on
three invariants. `EvidenceInv` says place by place what the evidence collected so far
came from; an acceptance is a decision on all of it (`AcceptanceNeedsAll`).
`SoundInv` says what was looked at and still holds: the models are admitted, the
detection policy is valid, the input that was prepared fits its frame, and the
outputs that wait to be read are copies, in their shapes, of what the right
models returned. From it follow

* `SamplesCorrect`: the two samplers never leave the frame, for any width,
  height, format, crop and model, and agree on the whole frame. That the tensor is
  filled once is a numeral system of three digits (`MixedRadix`: quotients and
  remainders give the cell back). `DimensionProduct` is a recursive function, so
  the products of two, three and four dimensions are derived from its equation,
  which exists because every prefix has one (`ProductExists`).
* `SecondFaceCorrect`: `Retained` is a `CHOOSE`, so it must be shown that there is
  such a set. Score and index give each face a number (`OrderCounts`), and the set
  is built along the numbers (`Kernel`). The face that is left alone is surer than
  all, and each other one covers more than half of it (`HalfShared`), along either
  axis (`HalfAlong`); two boxes that do so meet (`HalvesMeet`).
* `OutputsCorrect`: for each role, what `ModelManifest` demands of names, meanings
  and shapes is what the decoder looks for (`ValuesAre`), down to the number of
  values; a decoder can refuse only the numbers themselves.
* `QualityCorrect`: each score lies between nought and one (`ScoresAreScored`), so
  it divides `Scale` (`ScaleIs`). The sums are folds over finite sets; that a fold
  adds up is shown once, by induction on subsets (`FoldExists`, `SumSteps`), and
  with it that sums are linear and monotonic. The aggregate is the smaller of a
  weighted harmonic mean and of a ceiling: the mean lies above the weakest
  component because no reciprocal is larger than that one's
  (`AggregateIsConservative`), and both rise with each component
  (`AggregateIsMonotonic`).
* `AlignmentCorrect`: `Fit` solves the normal equations, so the error of another
  similarity exceeds its own by a multiple of the square of their distance
  (`ErrorIs`, `FitIsBest`), and the map that finds the place of a pixel is undone
  by the similarity (`PixelLands`).

The last two of these speak of what was judged of the picture on the way, which a
third invariant keeps, `JudgedInv`: when the embedding is about to run, the
landmarks are numbers, the alignment was not refused, and the quality is that of
this very frame under this configuration.

`PairIsBounded` is the safety half of `PairEnds`: `Measure` counts what is left to
do, and every step of the worker, the watchdog, the graph or the canceller lowers
it. What `PairEnds` adds, and TLC checks, is that a step is always possible and
that fairness takes it.

Induction is done with sets there (`SetInduction`, `SubsetInduction`), from the
well-founded order of the naturals and, for subsets, of their cardinalities, since
an induction theorem over a predicate cannot be instantiated.

`ProductionStartProofs`: a step of one caller leaves the others where they are
(`CallerIsLocal`), for any number of callers. On top of that there are six
invariants. `CalibrationInv`: whoever stands behind `CheckLoaded` has loaded
what was calibrated, and nothing loads after it. `FaithfulInv`: a caller about
to open an artifact has verified the one that is installed, unless that was
replaced since, and so each graph it has loaded is the one its manifest names.
`PathInv`: inodes of living listeners differ; a listener's identity is its own
inode, and a caller that is about to act on the path finds its own there or
nothing, unless a socket was removed in between (`torn`); and once its inode has
left the path it never comes back, which is why a listener that finds another
identity there leaves nothing of its own. A socket without a listener got there
by one of the steps that `left` records. `KeyInv`: behind the inspection of the
storage there is a key, no step takes it away, and who finds one only reads.
`DiskInv`: a directory entry that was never synced may be lost. `CameraInv`:
what opened under a valid format senses that light, from the assumption
(`StartAssumption`) that color cameras offer no grey format.

All are proved for any constants that satisfy the named assumptions, which are
what the constructors of the code validate, or facts about the host that are
stated with them.

Only model-checked are the liveness properties (outside the prover's reach, like
ENABLED): `NothingIsKept`, `StartedIsAnswered`, `ShutdownCompletes`,
`LeaseReturns`, `OperationIsDecided`, `ShutdownSpreads`, `EveryCallReturns`,
`PairEnds` and `PamReturns`. Every safety property of the passing runs has a
theorem.

## Not modelled

* Encodings (messages, template envelopes, D-Bus types, the configuration file),
  encryption, the commands of the TPM, V4L2 buffers and pixels beyond small
  pictures: data to these properties, or I/O without state.
* `faceauth-presence`: a cache that no other crate calls. The KDE module: a C++
  client whose calls are those of the senders in `EnrollmentControl`. The command
  line, which prints a policy.
* `GetEnrollmentState` of the D-Bus service with its bounded state worker, which
  only reads.
* The graphs of the models and ONNX Runtime, PolicyKit, udev, the kernel and the
  bus: choices among the answers the code can get, marked external in the map
  where they have a definition.

## What could come next

`GetEnrollmentState` and the KDE module as one more client of
`EnrollmentControl`; measures like that of `PairIsBounded` behind the other
liveness properties, where the system is to come to rest.
