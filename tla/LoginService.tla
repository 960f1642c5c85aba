------------------------------ MODULE LoginService -----------------------------
(***************************************************************************)
(* A login, end to end: the processes that carry the PAM module, the       *)
(* socket, the listener's accept loop and its authorization of each peer,  *)
(* the session manager, and the screen that follows the responses.         *)
(*                                                                         *)
(* A process makes one PAM call, hence one connection and one transaction, *)
(* and its name stands for all of them.  Processes exit and their pids are *)
(* used again.  A process that replaces its program closes the connection  *)
(* (the descriptor is close-on-exec), so a process has one program here.   *)
(*                                                                         *)
(* What the coordinator does between admission and completion is           *)
(* AuthDaemon's subject; here the engine captures, reports progress and    *)
(* decides at any time.  handle_one takes the clock before it reads, and   *)
(* no time passes here until it has answered.                              *)
(*                                                                         *)
(* Slip definitions are deliberate errors, as in SessionManager.           *)
(***************************************************************************)
EXTENDS Session, Authorization, Experience, Integers

CONSTANTS
  Pids,            \* process identifiers
  Programs,        \* executable files
  User,            \* the uid of the user who logs in
  Rules,           \* the authorization policy's rules
  MaxResponses,    \* MAX_RESPONSES of the PAM module
  MaxProgress,     \* MAX_PROGRESS_UPDATES of the engine
  MaxConnections,  \* AcceptLoopConfig::max_connections
  MaxFailures,     \* AcceptLoopConfig::max_consecutive_failures
  Operations,      \* management operations that use the same screen
  Results,         \* results they may have
  Unborn,          \* no process yet
  Nobody           \* no process

ASSUME LoginAssumption ==
  /\ Connections = Transactions
  /\ Unborn \notin Pids \cup {Gone}
  /\ Gone \notin Pids
  /\ Nobody \notin Connections
  /\ ValidPolicy(Rules)
  /\ MaxResponses \in Nat \ {0}
  /\ MaxProgress \in Nat
  /\ MaxConnections \in Nat \ {0}
  /\ MaxFailures \in Nat \ {0}

VARIABLES
  pid,       \* the pid of each process
  program,   \* the executable file it runs, and the uid it has
  cred,      \* SO_PEERCRED's pid of each connection
  call,      \* where each process's PAM call stands
  got,       \* responses the call has read
  inbox,     \* responses on their way to it
  taken,     \* connections taken from the listen backlog
  place,     \* where the listener stands
  peer,      \* the connection being served
  opened,    \* the process whose executable file was opened
  failures,  \* consecutive connections that could not be initialized
  served,    \* AcceptLoopReport::accepted_connections
  captured,  \* capture time of the newest frame pair of the session served
  granted,   \* history: whose executable each connection was granted for
  owner,     \* history: whose transaction each session was
  screen     \* ExperienceModel

processes == <<pid, program, cred>>
clients == <<call, got, inbox>>
listener == <<taken, place, peer, opened, failures, served, captured>>
history == <<granted, owner>>
loginVars == <<vars, processes, clients, listener, history, screen>>

NoCapture == -1

LoginInit ==
  /\ Init
  /\ pid = [c \in Connections |-> Unborn]
  /\ program = [c \in Connections |-> Unborn]
  /\ cred = [c \in Connections |-> Unborn]
  /\ call = [c \in Connections |-> "idle"]
  /\ got = [c \in Connections |-> 0]
  /\ inbox = [c \in Connections |-> <<>>]
  /\ taken = {}
  /\ place = "accept"
  /\ peer = Nobody
  /\ opened = Nobody
  /\ failures = 0
  /\ served = 0
  /\ captured = NoCapture
  /\ granted = [c \in Connections |-> Nobody]
  /\ owner = [n \in Tokens |-> Nobody]
  /\ screen = IdleScreen

-------------------------------------------------------------------------------
(***************************************************************************)
(* Processes and the PAM call.                                             *)
(***************************************************************************)

Alive(c) == pid[c] \in Pids

\* The process still holds its end of the connection.
Reads(c) == call[c] = "waiting"

\* A process starts with a pid that no living process has.
Fork(c) ==
  /\ pid[c] = Unborn
  /\ \E n \in Pids : /\ \A d \in Connections : pid[d] # n
                     /\ pid' = [pid EXCEPT ![c] = n]
  /\ \E file \in Programs : program' = [program EXCEPT ![c] = file]
  /\ UNCHANGED <<vars, cred, clients, listener, history, screen>>

Exit(c) ==
  /\ Alive(c)
  /\ pid' = [pid EXCEPT ![c] = Gone]
  /\ call' = [call EXCEPT ![c] = IF Reads(c) THEN "left" ELSE @]
  /\ UNCHANGED <<vars, program, cred, got, inbox, listener, history, screen>>

\* The connection and the request; the kernel notes the peer's pid.  A call that
\* authenticate gives up before (module arguments, another service, no user or
\* no uid, nobody who listens, or somebody who is not root) is a process that
\* never connects.
Connect(c) ==
  /\ Alive(c)
  /\ call[c] = "idle"
  /\ place # "stopped"
  /\ call' = [call EXCEPT ![c] = "waiting"]
  /\ cred' = [cred EXCEPT ![c] = pid[c]]
  /\ UNCHANGED <<vars, pid, program, got, inbox, listener, history, screen>>

\* Any completion is a success.
SlipVerdict(c, response) ==
  CASE response.kind \in {"Started", "Progress"} -> "waiting"
    [] response.kind = "Completed" -> "accepted"
    [] OTHER -> "ignored"

\* What one response makes of the call.
Verdict(c, response) ==
  CASE response.kind \in {"Started", "Progress"} /\ response.transaction = c
         -> "waiting"
    [] /\ response.kind = "Completed"
       /\ response.transaction = c
       /\ response.decision = "Accepted" -> "accepted"
    [] OTHER -> "ignored"

\* The screen's host applies the response to the experience model.
Shown(response) ==
  CASE response.kind = "Started"
         -> BeginFlow(screen, Authentication(response.transaction))
    [] response.kind = "Progress"
         -> ProgressFlow(screen, Authentication(response.transaction), "HoldStill")
    [] response.kind = "Completed"
         -> CompleteFlow(screen, Authentication(response.transaction),
                         AuthenticationOutcome(response.decision))
    [] OTHER -> RejectFlow(screen, response.transaction)

\* One round of exchange.  After a response that does not end the call, the
\* next round is refused if it would be one too many, or if MAX_TRANSACTION_
\* DURATION has passed, which may be at any time.
ReadResponse(c) ==
  /\ Reads(c)
  /\ inbox[c] # <<>>
  /\ LET response == Head(inbox[c])
         more == Verdict(c, response) = "waiting"
     IN /\ screen' = Shown(response)
        /\ \/ /\ more => got[c] + 1 < MaxResponses
              /\ call' = [call EXCEPT ![c] = Verdict(c, response)]
           \/ more /\ call' = [call EXCEPT ![c] = "ignored"]
  /\ got' = [got EXCEPT ![c] = @ + 1]
  /\ inbox' = [inbox EXCEPT ![c] = Tail(@)]
  /\ UNCHANGED <<vars, processes, listener, history>>

\* A read without a time limit ends only when the daemon closes.
SlipReadFails(c) ==
  /\ Reads(c)
  /\ inbox[c] = <<>>
  /\ c \in taken
  /\ peer # c
  /\ call' = [call EXCEPT ![c] = "ignored"]
  /\ UNCHANGED <<vars, processes, got, inbox, listener, history, screen>>

\* A read with nothing to read fails, at the end of the stream or after two
\* seconds, whatever the daemon is doing.
ReadFails(c) ==
  /\ Reads(c)
  /\ inbox[c] = <<>>
  /\ call' = [call EXCEPT ![c] = "ignored"]
  /\ UNCHANGED <<vars, processes, got, inbox, listener, history, screen>>

-------------------------------------------------------------------------------
(***************************************************************************)
(* The listener.                                                           *)
(***************************************************************************)

Goto(label) ==
  /\ place' = label
  /\ UNCHANGED <<taken, peer, opened, failures, served, captured>>

\* The handler's return.  An error requests the daemon's shutdown, and the
\* accept loop ends once max_connections were accepted.
Return(ok) ==
  /\ place' = IF ok /\ served < MaxConnections
              THEN "accept" ELSE "stopped"
  /\ peer' = Nobody
  /\ opened' = Nobody
  /\ captured' = NoCapture
  /\ UNCHANGED <<taken, failures, served>>

\* write_message; it fails when the peer has closed its end.
Send(response) ==
  inbox' = IF Reads(peer) THEN [inbox EXCEPT ![peer] = Append(@, response)]
                          ELSE inbox

\* The listen backlog also holds connections whose client has left.
Pending(c) == call[c] \notin {"idle", "accepted"} /\ cred[c] # Unborn /\ c \notin taken

\* run_accept_loop takes a connection, and PeerStream::connect captures the
\* peer's credentials and pidfd.
Accept(c) ==
  /\ place = "accept"
  /\ Pending(c)
  /\ taken' = taken \cup {c}
  /\ place' = "verify"
  /\ peer' = c
  /\ failures' = 0
  /\ served' = served + 1
  /\ UNCHANGED <<vars, processes, clients, opened, captured, history, screen>>

\* The kernel gives no pidfd for a process that has exited.
AcceptFails(c) ==
  /\ place = "accept"
  /\ Pending(c)
  /\ pid[c] = Gone
  /\ taken' = taken \cup {c}
  /\ failures' = failures + 1
  /\ place' = IF failures' >= MaxFailures THEN "stopped" ELSE "accept"
  /\ UNCHANGED <<vars, processes, clients, peer, opened, served, captured,
                 history, screen>>

\* The loop finds that shutdown was requested.
StopListening ==
  /\ place = "accept"
  /\ place' = "stopped"
  /\ UNCHANGED <<vars, processes, clients, taken, peer, opened, failures,
                 served, captured, history, screen>>

Rejected(reason) ==
  [kind |-> "Rejected", transaction |-> peer, reason |-> reason]

\* A rejection is the handler's answer.
Reject(reason) ==
  /\ Send(Rejected(reason))
  /\ Return(Reads(peer))
  /\ UNCHANGED <<vars, processes, call, got, history, screen>>

\* The pidfd still names the process that connected.
Pinned == VerifyPidfd(cred[peer], pid[peer])

\* VerifiedExecutable::from_peer, step by step.
VerifyPeer ==
  /\ place = "verify"
  /\ \/ ~Pinned /\ Reject("UnauthorizedPeer")
     \/ /\ Pinned
        /\ Goto("open")
        /\ UNCHANGED <<vars, processes, clients, history, screen>>

\* /proc/<pid>/exe is of whichever process has the pid now.
OpenExecutable ==
  /\ place = "open"
  /\ \/ /\ \A q \in Connections : pid[q] # cred[peer]
        /\ Reject("UnauthorizedPeer")
     \/ \E q \in Connections :
          /\ pid[q] = cred[peer]
          /\ opened' = q
          /\ place' = "reverify"
          /\ UNCHANGED <<vars, processes, clients, taken, peer, failures,
                         served, captured, history, screen>>

\* The pid is not looked at again after the executable was opened.
SlipVerifyAgain ==
  /\ place = "reverify"
  /\ Goto("authorize")
  /\ UNCHANGED <<vars, processes, clients, history, screen>>

VerifyAgain ==
  /\ place = "reverify"
  /\ \/ ~Pinned /\ Reject("UnauthorizedPeer")
     \/ /\ Pinned
        /\ Goto("authorize")
        /\ UNCHANGED <<vars, processes, clients, history, screen>>

\* The request of the PAM module's exchange.
Request == [service |-> "faceauth-test", purpose |-> "Test", target |-> User]

Authorized ==
  LET file == program[opened] IN
    IF VerifiedFile(file)
    THEN Authorize(Rules, program[peer].uid, file.fingerprint, Request)
    ELSE "ExecutableError"

RejectionFor(error) ==
  IF error = "ServiceNotAllowed" THEN error ELSE "UnauthorizedPeer"

RefusePeer ==
  /\ place = "authorize"
  /\ Authorized # "Granted"
  /\ Reject(RejectionFor(Authorized))

\* The manager's answer is sent.  One the client does not get is the handler's
\* error, and leaves a started session where it is.
AdmitPeer ==
  /\ place = "authorize"
  /\ Authorized = "Granted"
  /\ starts < MaxStarts
  /\ Start(peer, peer, now)
  /\ Recorded
  /\ granted' = [granted EXCEPT ![peer] = opened]
  /\ \/ /\ reply' = Started(peer)
        /\ owner' = [owner EXCEPT ![starts'] = peer]
        /\ Send(reply')
        /\ \/ Reads(peer) /\ Goto("serve")
           \/ ~Reads(peer) /\ Return(FALSE)
     \/ /\ reply' # Started(peer)
        /\ UNCHANGED owner
        /\ Send(Rejected(IF reply'.error = "Busy" THEN "Busy"
                                                   ELSE "ServiceUnavailable"))
        /\ Return(Reads(peer))
  /\ UNCHANGED <<processes, call, got, screen>>

\* send_progress.  Started was the first response.
EngineProgress ==
  /\ place = "serve"
  /\ got[peer] + Len(inbox[peer]) <= MaxProgress
  /\ Progress(peer, peer, now)
  /\ Recorded
  /\ Send(reply')
  /\ \/ ~Reads(peer) /\ Return(FALSE)
     \/ Reads(peer) /\ slot' = Idle /\ Return(TRUE)
     \/ Reads(peer) /\ slot' # Idle /\ Goto("serve")
  /\ UNCHANGED <<processes, call, got, history, screen>>

\* The engine has a frame pair that is new.
CapturePair ==
  /\ place = "serve"
  /\ captured' = now
  /\ UNCHANGED <<vars, processes, clients, taken, place, peer, opened, failures,
                 served, history, screen>>

\* send_derived_completion judges the evidence at the time it was captured,
\* send_engine_failure a failure at the present time.
EngineResult ==
  /\ place = "serve"
  /\ \/ /\ captured # NoCapture
        /\ \E d \in PolicyDecisions : Complete(peer, peer, d, captured)
     \/ Complete(peer, peer, "InternalError", now)
  /\ Recorded
  /\ Send(reply')
  /\ Return(Reads(peer))
  /\ UNCHANGED <<processes, call, got, history, screen>>

\* The coordinator finds the client gone.
NoticeDeparture ==
  /\ place = "serve"
  /\ ~Reads(peer)
  /\ Cancel(peer, peer, now)
  /\ Recorded
  /\ Return(FALSE)
  /\ UNCHANGED <<processes, clients, history, screen>>

-------------------------------------------------------------------------------
(***************************************************************************)
(* The screen's other uses, and time.                                      *)
(***************************************************************************)

\* Updates of an enrollment, as late or as often as signals may come.
ManagementEvent ==
  /\ \E o \in Operations :
       \/ screen' = BeginFlow(screen, Enrollment(o))
       \/ screen' = ProgressFlow(screen, Enrollment(o), "ActiveChallenge")
       \/ \E result \in Results :
            screen' = CompleteFlow(screen, Enrollment(o),
                                   ManagementOutcome(result))
  /\ UNCHANGED <<vars, processes, clients, listener, history>>

ResetTheScreen ==
  /\ screen' = ResetScreen(screen)
  /\ UNCHANGED <<vars, processes, clients, listener, history>>

TimePasses ==
  /\ place \in {"accept", "serve", "stopped"}
  /\ Tick
  /\ UNCHANGED <<processes, clients, listener, history, screen>>

PamStep(c) == ReadResponse(c) \/ ReadFails(c)

LoginNext ==
  \/ \E c \in Connections :
       \/ Fork(c)
       \/ Exit(c)
       \/ Connect(c)
       \/ PamStep(c)
       \/ Accept(c)
       \/ AcceptFails(c)
  \/ StopListening
  \/ VerifyPeer
  \/ OpenExecutable
  \/ VerifyAgain
  \/ RefusePeer
  \/ AdmitPeer
  \/ EngineProgress
  \/ CapturePair
  \/ EngineResult
  \/ NoticeDeparture
  \/ ManagementEvent
  \/ ResetTheScreen
  \/ TimePasses

\* A process that waits runs: its reads return.  Nothing is asked of the
\* daemon, which may hang anywhere.
LoginSpec ==
  /\ LoginInit
  /\ [][LoginNext]_loginVars
  /\ \A c \in Connections : WF_loginVars(PamStep(c))

-------------------------------------------------------------------------------
(***************************************************************************)
(* Properties.                                                             *)
(***************************************************************************)

\* PAM is told of a success only when a session of this very transaction was
\* decided to be one: no refusal, timeout, rejection or other client's decision
\* passes for it (exchange of the PAM module).
AcceptedIsDecided ==
  \A c \in Connections : call[c] = "accepted" =>
    \E n \in Tokens : owner[n] = c /\ outcome[n] = "Accepted"

\* A transaction is granted for the executable of the process that made the
\* connection, never for that of a process that got its pid later
\* (VerifiedExecutable::from_peer).
EvidenceIsOfPeer ==
  \A c \in Connections : granted[c] \in {c, Nobody}

\* The newest frame pair was captured in the lifetime of the active session.
CapturedInTime == captured \in (slot.deadline - Duration)..(slot.deadline - 1)

\* A deadline decides by the time that each result speaks of: a session times
\* out at its deadline and never before, one that outlives it ends otherwise
\* only by a decision about evidence of its own lifetime, however late that
\* comes, and nothing but such evidence is ever accepted (complete,
\* send_derived_completion, send_engine_failure, cancel, update).
DeadlineDecides ==
  [][Ends =>
       LET decision == reply'.decision
       IN /\ decision = "TimedOut" => now >= slot.deadline
          /\ decision # "TimedOut" /\ now >= slot.deadline
               => decision \in PolicyDecisions /\ CapturedInTime
          /\ decision = "Accepted" => CapturedInTime]_loginVars

\* A login is never held up: the PAM call returns whatever the daemon does, be
\* it busy with another client, hung, or gone (PeerStream's time limits and the
\* bounds of exchange).
PamReturns == \A c \in Connections : Reads(c) ~> ~Reads(c)

\* The screen stays with the operation it shows until that very operation ends,
\* whatever updates of other transactions arrive meanwhile (require_active,
\* begin, reset).
ScreenKeepsFlow ==
  [][ShowsBusy(screen) =>
       screen' # IdleScreen /\ screen'.flow = screen.flow]_loginVars

===============================================================================
