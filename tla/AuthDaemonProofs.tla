---------------------------- MODULE AuthDaemonProofs ---------------------------
(***************************************************************************)
(* Proofs about AuthDaemon, for any clients, durations, clock range and    *)
(* bounds: the lease brackets one job, a job nobody waits for is a         *)
(* cancelled one, a client reads its responses in order, and an acceptance *)
(* rests on evidence of the session it ends.                               *)
(***************************************************************************)
EXTENDS AuthDaemon, SequenceTheorems, TLAPS

\* What travels in the update channel, and what a job's result may be.
AnyUpdate ==
  {ProgressUpdate, Failure, NoResult}
    \cup {Evidence(match, at) : match \in BOOLEAN, at \in Int}

DataInv ==
  /\ starts \in Nat
  /\ clock \in Int
  /\ captured \in Int
  /\ result \in AnyUpdate
  /\ updates \in Seq(AnyUpdate)

Unreported == {"start", "work", "recheck", "report"}
InJob == Unreported \cup {"release", "drop"}
Submitting == {"reserve", "enqueue"}
Attending == {"wait", "poll", "serve", "drain"}
Away == {"accept", "fatal", "stopped"}

\* The daemon goes down: the shutdown is requested, or the next step of the
\* listener requests it.
Doomed == shutdown \/ lpc = "fatal"

\* A job that was submitted and has not reported, and the token it has.
Pending == queue # 0 \/ wpc \in Unreported
Job == IF queue # 0 THEN queue ELSE wjob

HasTerminal(u) == \E i \in 1..Len(u) : u[i] # ProgressUpdate

\* The newest reply was given to a connection that was admitted, and not to one
\* whose first frame has not been read.
ReplyInv ==
  /\ lpc \notin Away => peer \in admitted
  /\ \A c \in Clients : reply = SM!Started(c) => c \in admitted
  /\ lpc = "admit" => reply # SM!Started(peer)

\* A submission finds the session that was just started.
TokenInv == lpc \in {"acquire"} \cup Submitting => Token # 0

\* The lease belongs to whoever submits, or to the one job there is.
LeaseInv ==
  /\ lpc \in Submitting => lease = Token /\ queue = 0 /\ wjob = 0
  /\ queue # 0 => lease = queue /\ wjob = 0
  /\ wjob # 0 => lease = wjob /\ queue = 0
  /\ lease # 0 /\ lpc \notin Submitting => lease \in {queue, wjob}
  /\ wjob # 0 <=> wpc \in InJob

\* The active flag is up from the reservation to the release; a worker that
\* dropped a queued request leaves it up, but then nothing is submitted again.
ActiveInv ==
  /\ active => \/ queue # 0
               \/ wpc \in InJob \ {"drop"}
               \/ lpc = "enqueue"
               \/ Doomed /\ lpc \in Away \cup Attending \cup {"giveup"}
  /\ lpc = "reserve" => ~active

\* The coordinator leaves a job that has not reported only with an error, which
\* shuts the daemon down.
AttendedInv ==
  /\ Pending => \/ lpc \in Attending /\ attached = Job
                \/ lpc \in Away /\ Doomed
  /\ Pending /\ lpc \in Attending => ~HasTerminal(updates)
  /\ fault # "none" /\ wpc # "failed" => Doomed
  /\ wpc = "failing" => fault # "none"

DaemonInv ==
  DataInv /\ ReplyInv /\ TokenInv /\ LeaseInv /\ ActiveInv /\ AttendedInv

-------------------------------------------------------------------------------
(***************************************************************************)
(* The update channel.                                                     *)
(***************************************************************************)

LEMMA TerminalHead ==
  ASSUME NEW S, NEW u \in Seq(S), u # <<>>, Head(u) # ProgressUpdate
  PROVE  HasTerminal(u)
<1>1. Len(u) \in Nat \ {0} /\ Head(u) = u[1]
  OBVIOUS
<1>2. 1 \in 1..Len(u)
  BY <1>1
<1> QED
  BY <1>1, <1>2 DEF HasTerminal

LEMMA TerminalTail ==
  ASSUME NEW S, NEW u \in Seq(S), u # <<>>, HasTerminal(Tail(u))
  PROVE  HasTerminal(u)
<1>1. PICK i \in 1..Len(Tail(u)) : Tail(u)[i] # ProgressUpdate
  BY DEF HasTerminal
<1>2. i + 1 \in 1..Len(u) /\ u[i + 1] = Tail(u)[i]
  OBVIOUS
<1> QED
  BY <1>1, <1>2 DEF HasTerminal

LEMMA TerminalProgress ==
  ASSUME NEW S, NEW u \in Seq(S), HasTerminal(Append(u, ProgressUpdate))
  PROVE  HasTerminal(u)
<1>1. PICK i \in 1..Len(Append(u, ProgressUpdate)) :
        Append(u, ProgressUpdate)[i] # ProgressUpdate
  BY DEF HasTerminal
<1>2. i \in 1..Len(u) /\ u[i] = Append(u, ProgressUpdate)[i]
  BY <1>1
<1> QED
  BY <1>1, <1>2 DEF HasTerminal

LEMMA NothingTerminal == ~HasTerminal(<<>>)
BY DEF HasTerminal

-------------------------------------------------------------------------------
(***************************************************************************)
(* The manager's methods.                                                  *)
(***************************************************************************)

\* A start alone is answered Started, and only its own transaction.
LEMMA StartAnswers ==
  ASSUME starts \in Nat, NEW c, NEW t, NEW at, SM!Start(c, t, at)
  PROVE  /\ starts' \in Nat
         /\ \A d : reply' = SM!Started(d) => d = t /\ Token' # 0
BY DEF SM!Start, SM!Refuse, SM!Failed, SM!Started, Token

LEMMA RefusalAnswers ==
  ASSUME NEW e, SM!Refuse(e)
  PROVE  UNCHANGED starts /\ \A d : reply' # SM!Started(d)
BY DEF SM!Refuse, SM!Failed, SM!Started

LEMMA TerminalAnswers ==
  ASSUME NEW d, SM!TakeTerminal(d)
  PROVE  UNCHANGED starts /\ \A t : reply' # SM!Started(t)
BY DEF SM!TakeTerminal, SM!Completed, SM!Started

LEMMA UnboundAnswers ==
  ASSUME NEW c, NEW t, SM!RefuseUnbound(c, t)
  PROVE  UNCHANGED starts /\ \A d : reply' # SM!Started(d)
BY RefusalAnswers DEF SM!RefuseUnbound

LEMMA CancelAnswers ==
  ASSUME NEW c, NEW t, NEW at, SM!Cancel(c, t, at)
  PROVE  UNCHANGED starts /\ \A d : reply' # SM!Started(d)
BY UnboundAnswers, TerminalAnswers DEF SM!Cancel, SM!Finish

LEMMA CompleteAnswers ==
  ASSUME NEW c, NEW t, NEW d, NEW at, SM!Complete(c, t, d, at)
  PROVE  UNCHANGED starts /\ \A e : reply' # SM!Started(e)
BY UnboundAnswers, TerminalAnswers, RefusalAnswers DEF SM!Complete, SM!Finish

LEMMA ProgressAnswers ==
  ASSUME NEW c, NEW t, NEW at, SM!Progress(c, t, at)
  PROVE  UNCHANGED starts /\ \A d : reply' # SM!Started(d)
BY UnboundAnswers, TerminalAnswers
   DEF SM!Progress, SM!Progressed, SM!Started

\* handle_one: what it leaves alone, and what it may have answered.
LEMMA HandleAnswers ==
  ASSUME starts \in Nat, HandleOne
  PROVE  /\ starts' \in Nat
         /\ UNCHANGED <<clock, reads, admitted>>
         /\ \A d : reply' = SM!Started(d) =>
              reply = SM!Started(d) \/ (d = peer /\ Token' # 0)
<1>1. UNCHANGED <<clock, reads, admitted>>
  BY DEF HandleOne, TakeFrame
<1>2. CASE HandleUnauthorized
  BY <1>1, <1>2 DEF HandleUnauthorized, manager
<1>3. CASE HandleAuthenticate
  <2>1. SM!Start(peer, peer, sampled)
    BY <1>3 DEF HandleAuthenticate
  <2> QED BY <1>1, <2>1, StartAnswers
<1>4. CASE HandleCancel
  <2>1. \E t : SM!Cancel(peer, t, sampled)
    BY <1>4 DEF HandleCancel
  <2> QED BY <1>1, <2>1, CancelAnswers
<1> QED
  BY <1>2, <1>3, <1>4 DEF HandleOne

-------------------------------------------------------------------------------
(***************************************************************************)
(* The kinds of steps of the listener thread.                              *)
(***************************************************************************)

Quiet ==
  UNCHANGED <<clock, wpc, wjob, captured, result, fault, queue, active, lease>>

Comes ==
  /\ Quiet /\ UNCHANGED <<updates, attached, shutdown>>
  /\ lpc = "accept" /\ ~shutdown /\ lpc' = "admit"

Halts ==
  /\ Quiet /\ UNCHANGED <<updates, attached, shutdown>>
  /\ lpc = "accept" /\ lpc' = "stopped"

Begins ==
  /\ Quiet /\ UNCHANGED <<updates, attached, shutdown>>
  /\ lpc = "admit" /\ lpc' = "acquire" /\ Token' # 0

\* The handler returns: with a job that has not reported only in an error.
Leaves ==
  /\ Quiet /\ updates' = <<>> /\ UNCHANGED shutdown
  /\ lpc \in {"admit", "giveup"} \cup Attending /\ lpc' \in {"accept", "fatal"}
  /\ Pending => lpc' = "fatal"

\* The error requests the shutdown.
Requests ==
  /\ Quiet /\ UNCHANGED <<updates, attached>>
  /\ lpc = "fatal" /\ lpc' = "accept" /\ shutdown'

\* The coordinator goes on with its job, or gives up what has reported.
Moves ==
  /\ Quiet /\ UNCHANGED <<attached, shutdown>>
  /\ lpc \in Attending /\ lpc' \in Attending \cup {"giveup"}
  /\ lpc = "drain" => lpc' = "drain"
  /\ lpc' = "giveup" => ~Pending
  /\ updates' = updates \/ (updates # <<>> /\ updates' = Tail(updates))

Submits == SubmitAcquire \/ SubmitReserve \/ SubmitEnqueue

LEMMA ReturnShape ==
  ASSUME NEW ok, Return(ok)
  PROVE  /\ lpc' \in {"accept", "fatal"} /\ updates' = <<>>
         /\ UNCHANGED shutdown
         /\ ~ok => lpc' = "fatal"
BY DEF Return

\* A job whose sender is gone, or that sent its last update, has reported.
LEMMA GoneIsReported ==
  ASSUME DaemonInv, lpc \in Attending,
         Disconnected \/ (updates # <<>> /\ Head(updates) # ProgressUpdate)
  PROVE  ~Pending
<1>1. CASE Disconnected
  BY <1>1 DEF DaemonInv, AttendedInv, Disconnected, Job, Pending, Attending, Away,
              Unreported, InJob, LeaseInv
<1>2. CASE updates # <<>> /\ Head(updates) # ProgressUpdate
  <2>1. HasTerminal(updates)
    BY <1>2, TerminalHead DEF DaemonInv, DataInv
  <2> QED BY <2>1 DEF DaemonInv, AttendedInv
<1> QED BY <1>1, <1>2

\* No job is unreported while a connection is admitted or given up.
LEMMA NonePending ==
  ASSUME DaemonInv, lpc \in {"admit", "giveup"} PROVE ~Pending
BY DEF DaemonInv, AttendedInv, Attending, Away

LEMMA ListenerKinds ==
  ASSUME DaemonInv, ListenerStep \/ AcceptLoopFails
  PROVE  Comes \/ Halts \/ Begins \/ Leaves \/ Requests \/ Moves \/ Submits
<1> USE DEF Quiet, worker, engine
<1>1. ASSUME NEW c \in Clients, Accept(c) PROVE Comes
  BY <1>1 DEF Accept, EnterHandler, Comes
<1>2. CASE AcceptLoopStops \/ AcceptLoopFails
  BY <1>2 DEF AcceptLoopStops, AcceptLoopFails, Halts
<1>3. CASE AdmitFrame
  <2>1. /\ lpc = "admit" /\ HandleOne
        /\ UNCHANGED <<wpc, wjob, captured, result, fault, queue, active, lease>>
    BY <1>3 DEF AdmitFrame
  <2>2. UNCHANGED clock /\ (reply' = SM!Started(peer) => Token' # 0)
    BY <2>1, HandleAnswers DEF DaemonInv, DataInv, ReplyInv
  <2>3. CASE Return(TRUE) \/ Return(FALSE)
    BY <2>1, <2>2, <2>3, ReturnShape, NonePending DEF Leaves
  <2>4. CASE reply' = SM!Started(peer) /\ Goto("acquire")
    BY <2>1, <2>2, <2>4 DEF Goto, Begins
  <2> QED BY <1>3, <2>3, <2>4 DEF AdmitFrame
<1>4. CASE AdmitFails
  BY <1>4, ReturnShape, NonePending DEF AdmitFails, ReadFails, Leaves
<1>5. CASE GiveUp
  <2>1. lpc = "giveup" /\ Quiet /\ Return(Delivers)
    BY <1>5 DEF GiveUp
  <2> QED BY <2>1, ReturnShape, NonePending DEF Leaves
<1>6. CASE RelayProgress
  <2>1. lpc = "wait" /\ updates # <<>> /\ Quiet
    BY <1>6 DEF RelayProgress
  <2>2. CASE Return(FALSE)
    BY <2>1, <2>2, ReturnShape DEF Leaves, Attending
  <2>3. CASE updates' = Tail(updates) /\ Drain(TRUE)
    BY <2>1, <2>3 DEF Drain, Moves, Attending
  <2>4. CASE /\ updates' = Tail(updates) /\ lpc' = "poll"
             /\ UNCHANGED <<attached, shutdown>>
    BY <2>1, <2>4 DEF Moves, Attending
  <2> QED BY <1>6, <2>2, <2>3, <2>4 DEF RelayProgress
<1>7. CASE CompleteWithEvidence
  <2>1. /\ lpc = "wait" /\ Quiet /\ Return(Delivers)
        /\ updates # <<>> /\ Head(updates).kind = "Evidence"
    BY <1>7 DEF CompleteWithEvidence
  <2>2. Head(updates) # ProgressUpdate
    BY <2>1 DEF ProgressUpdate
  <2>3. ~Pending
    BY <2>1, <2>2, GoneIsReported DEF Attending
  <2> QED BY <2>1, <2>3, ReturnShape DEF Leaves, Attending
<1>8. CASE EngineFailed
  <2>1. Failure # ProgressUpdate
    BY DEF Failure, ProgressUpdate
  <2>2. ~Pending
    BY <1>8, <2>1, GoneIsReported DEF EngineFailed, Attending
  <2> QED BY <1>8, <2>2 DEF EngineFailed, Goto, Moves, Attending
<1>9. CASE UpdateTimeout
  BY <1>9 DEF UpdateTimeout, Goto, Moves, Attending
<1>10. CASE PollClient
  BY <1>10 DEF PollClient, Goto, EnterHandler, Moves, Attending
<1>11. CASE ServeFrame
  <2>1. lpc = "serve" /\ HandleOne
    BY <1>11 DEF ServeFrame
  <2>2. UNCHANGED clock
    BY <2>1, HandleAnswers DEF DaemonInv, DataInv
  <2>3. \/ Drain(TRUE) /\ UNCHANGED updates
        \/ Goto("wait")
    BY <1>11 DEF ServeFrame
  <2> QED BY <1>11, <2>1, <2>2, <2>3 DEF ServeFrame, Drain, Goto, Moves, Attending
<1>12. CASE ServeFails
  <2>1. lpc = "serve" /\ Drain(FALSE) /\ UNCHANGED <<updates, worker, queue, active, lease>>
    BY <1>12 DEF ServeFails
  <2>2. UNCHANGED clock
    BY <1>12, HandleAnswers DEF ServeFails, ReadFails, TakeFrame, DaemonInv, DataInv
  <2> QED BY <2>1, <2>2 DEF Drain, Moves, Attending
<1>13. CASE PollFails
  BY <1>13 DEF PollFails, Drain, Moves, Attending
<1>14. CASE DrainRound
  <2>1. lpc = "drain" /\ Quiet
    BY <1>14 DEF DrainRound
  <2>2. CASE updates # <<>> /\ Head(updates) # ProgressUpdate /\ Return(drainOk)
    <3>1. ~Pending
      BY <2>1, <2>2, GoneIsReported DEF Attending
    <3> QED BY <2>1, <2>2, <3>1, ReturnShape DEF Leaves, Attending
  <2>3. CASE Return(FALSE)
    BY <2>1, <2>3, ReturnShape DEF Leaves, Attending
  <2>4. CASE /\ UNCHANGED <<lpc, attached, shutdown>>
             /\ \/ updates # <<>> /\ updates' = Tail(updates)
                \/ UNCHANGED updates
    BY <2>1, <2>4 DEF Moves, Attending
  <2> QED BY <1>14, <2>2, <2>3, <2>4 DEF DrainRound
<1>15. CASE DrainGivesUp
  BY <1>15, ReturnShape DEF DrainGivesUp, Leaves, Attending
<1>16. CASE RequestFatal
  BY <1>16 DEF RequestFatal, Requests
<1> QED
  BY <1>1, <1>2, <1>3, <1>4, <1>5, <1>6, <1>7, <1>8, <1>9, <1>10, <1>11, <1>12,
     <1>13, <1>14, <1>15, <1>16 DEF ListenerStep, Submits

-------------------------------------------------------------------------------
(***************************************************************************)
(* The replies and the data.                                               *)
(***************************************************************************)

\* A step that is none of the listener's.
Elsewhere ==
  /\ UNCHANGED <<manager, admitted, lpc, peer, attached>>
  /\ \/ WorkerStep
     \/ CapturePair
     \/ RequestShutdown
     \/ UNCHANGED <<worker, engine, shutdown>>

LEMMA Others ==
  ASSUME [Next]_vars, ~(ListenerStep \/ AcceptLoopFails)
  PROVE  Elsewhere
<1> USE DEF Elsewhere, listener, sockets, engine, worker
<1>1. CASE WorkerStep
  <2>1. UNCHANGED <<manager, sockets, listener>>
    BY <1>1 DEF WorkerStep, WorkerChecks, WaitTimeout, RequestChannelCloses,
         TakeRequest, WorkerStops, BeginJob, ReportProgress, FinishJob,
         RecheckCancelled, ReportResult, ReleaseActive, DropRequest
  <2> QED BY <1>1, <2>1
<1>2. CASE CapturePair
  BY <1>2 DEF CapturePair
<1>3. CASE ClientStep \/ Tick
  BY <1>3 DEF ClientStep, Disconnect, Tick
<1>4. CASE RequestShutdown
  BY <1>4 DEF RequestShutdown
<1>5. CASE UNCHANGED vars
  BY <1>5 DEF vars
<1> QED
  BY <1>1, <1>2, <1>3, <1>4, <1>5 DEF Next

\* What the listener's step answers: Started to nobody but the served client.
LEMMA ListenerAnswers ==
  ASSUME DaemonInv, ListenerStep \/ AcceptLoopFails
  PROVE  /\ starts' \in Nat
         /\ admitted \subseteq admitted'
         /\ \A d : reply' = SM!Started(d) =>
              reply = SM!Started(d) \/ (d = peer /\ lpc \notin Away)
<1> USE DEF DaemonInv, DataInv, Away, manager, sockets
<1>1. CASE (\E c \in Clients : Accept(c)) \/ AcceptLoopStops \/ AcceptLoopFails
  BY <1>1 DEF Accept, AcceptLoopStops, AcceptLoopFails
<1>2. CASE AdmitFrame \/ ServeFrame
  <2>1. HandleOne /\ lpc \notin Away
    BY <1>2 DEF AdmitFrame, ServeFrame
  <2> QED BY <2>1, HandleAnswers
<1>3. CASE AdmitFails \/ Submits \/ EngineFailed \/ UpdateTimeout \/ PollClient
           \/ DrainRound \/ DrainGivesUp \/ RequestFatal
  BY <1>3 DEF AdmitFails, ReadFails, Submits, SubmitAcquire, SubmitReserve,
       SubmitEnqueue, EngineFailed, UpdateTimeout, PollClient, DrainRound,
       DrainGivesUp, RequestFatal
<1>4. CASE GiveUp
  BY <1>4, CompleteAnswers DEF GiveUp
<1>5. CASE RelayProgress
  BY <1>5, ProgressAnswers DEF RelayProgress
<1>6. CASE CompleteWithEvidence
  BY <1>6, CompleteAnswers DEF CompleteWithEvidence
<1>7. CASE ServeFails
  <2>1. CASE ReadFails /\ SM!Cancel(peer, peer, clock)
    BY <2>1, CancelAnswers DEF ReadFails
  <2>2. CASE HandleOne
    BY <1>7, <2>2, HandleAnswers DEF ServeFails
  <2>3. CASE TakeFrame /\ SM!Cancel(peer, peer, clock)
    BY <2>3, CancelAnswers DEF TakeFrame
  <2> QED BY <1>7, <2>1, <2>2, <2>3 DEF ServeFails
<1>8. CASE PollFails
  BY <1>8, CancelAnswers DEF PollFails
<1> QED
  BY <1>1, <1>2, <1>3, <1>4, <1>5, <1>6, <1>7, <1>8 DEF ListenerStep, Submits

\* Only Accept chooses whom the listener serves.
LEMMA PeerStays ==
  ASSUME ListenerStep \/ AcceptLoopFails, lpc' \notin Away,
         \A c \in Clients : ~Accept(c)
  PROVE  peer' = peer /\ lpc \notin Away /\ lpc' # "admit"
<1> USE DEF Away
<1>1. ~Return(TRUE) /\ ~Return(FALSE) /\ ~Return(Delivers) /\ ~Return(drainOk)
  BY DEF Return
<1>2. CASE AdmitFrame \/ ServeFrame \/ ServeFails \/ PollFails \/ RelayProgress
  BY <1>1, <1>2 DEF AdmitFrame, ServeFrame, ServeFails, PollFails, RelayProgress,
       Goto, Drain
<1>3. CASE AdmitFails \/ GiveUp \/ CompleteWithEvidence \/ DrainGivesUp
           \/ AcceptLoopStops \/ AcceptLoopFails \/ RequestFatal
  BY <1>1, <1>3 DEF AdmitFails, GiveUp, CompleteWithEvidence, DrainGivesUp,
       AcceptLoopStops, AcceptLoopFails, RequestFatal
<1>4. CASE Submits \/ EngineFailed \/ UpdateTimeout \/ PollClient \/ DrainRound
  BY <1>1, <1>4 DEF Submits, SubmitAcquire, SubmitReserve, SubmitEnqueue,
       EngineFailed, UpdateTimeout, PollClient, DrainRound, Goto, EnterHandler
<1> QED
  BY <1>2, <1>3, <1>4 DEF ListenerStep, Submits

LEMMA ReplyNext ==
  ASSUME DaemonInv, [Next]_vars PROVE ReplyInv'
<1> USE DEF DaemonInv, ReplyInv
<1>1. CASE Elsewhere
  BY <1>1 DEF Elsewhere, manager, SM!Started
<1>2. ASSUME NEW c \in Clients, Accept(c) PROVE ReplyInv'
  <2>1. /\ c \notin admitted /\ admitted' = admitted \cup {c} /\ peer' = c
        /\ UNCHANGED reply /\ lpc' = "admit"
    BY <1>2 DEF Accept, EnterHandler, manager
  <2> QED BY <2>1 DEF SM!Started
<1>3. CASE /\ ListenerStep \/ AcceptLoopFails
           /\ \A c \in Clients : ~Accept(c)
  <2>1. lpc' \notin Away => peer' \in admitted' /\ lpc' # "admit"
    BY <1>3, PeerStays, ListenerAnswers
  <2>2. \A c \in Clients : reply' = SM!Started(c) => c \in admitted'
    BY <1>3, ListenerAnswers
  <2>3. lpc' # "admit"
    BY <2>1 DEF Away
  <2> QED BY <2>1, <2>2, <2>3 DEF SM!Started
<1> QED
  BY <1>1, <1>2, <1>3, Others

LEMMA DataNext ==
  ASSUME DaemonInv, [Next]_vars PROVE DataInv'
<1> USE DEF DaemonInv, DataInv, manager, worker, engine
<1>1. CASE ListenerStep \/ AcceptLoopFails
  <2>1. starts' \in Nat
    BY <1>1, ListenerAnswers
  <2>2. UNCHANGED <<clock, captured, result>>
    BY <1>1, ListenerKinds DEF Submits, SubmitAcquire, SubmitReserve, SubmitEnqueue,
         Comes, Halts, Begins, Leaves, Requests, Moves, Quiet
  <2>3. \/ updates' = <<>> \/ updates' = updates
        \/ updates # <<>> /\ updates' = Tail(updates)
    BY <1>1, ListenerKinds DEF Submits, SubmitAcquire, SubmitReserve, SubmitEnqueue,
         Comes, Halts, Begins, Leaves, Requests, Moves, Goto
  <2>4. updates' \in Seq(AnyUpdate)
    <3>1. updates \in Seq(AnyUpdate)
      OBVIOUS
    <3>2. CASE updates' = <<>>
      BY <3>2
    <3>3. CASE updates # <<>> /\ updates' = Tail(updates)
      BY <3>1, <3>3, HeadTailProperties
    <3> QED BY <2>3, <3>1, <3>2, <3>3
  <2> QED BY <2>1, <2>2, <2>4
<1>2. CASE WorkerChecks \/ WaitTimeout \/ RequestChannelCloses \/ TakeRequest
           \/ WorkerStops \/ ReleaseActive
  BY <1>2 DEF WorkerChecks, WaitTimeout, RequestChannelCloses, TakeRequest,
       WorkerStops, ReleaseActive
<1>3. CASE BeginJob \/ RecheckCancelled
  BY <1>3 DEF BeginJob, RecheckCancelled, AnyUpdate
<1>4. CASE ReportProgress
  BY <1>4 DEF ReportProgress, AnyUpdate
<1>5. CASE FinishJob
  <2>1. result' \in AnyUpdate
    BY <1>5 DEF FinishJob, AnyUpdate
  <2> QED BY <1>5, <2>1 DEF FinishJob
<1>6. CASE ReportResult
  BY <1>6 DEF ReportResult
<1>7. CASE DropRequest
  BY <1>7 DEF DropRequest, AnyUpdate, NoCapture
<1>8. CASE CapturePair
  BY <1>8 DEF CapturePair
<1>9. CASE ClientStep \/ Tick \/ RequestShutdown
  BY <1>9 DEF ClientStep, Disconnect, Tick, RequestShutdown
<1>10. CASE UNCHANGED vars
  BY <1>10 DEF vars
<1> QED
  BY <1>1, <1>2, <1>3, <1>4, <1>5, <1>6, <1>7, <1>8, <1>9, <1>10 DEF Next, WorkerStep

LEMMA TokenNext ==
  ASSUME DaemonInv, [Next]_vars PROVE TokenInv'
<1> USE DEF DaemonInv, TokenInv, Submitting, Token
<1>1. CASE Elsewhere
  BY <1>1 DEF Elsewhere, manager
<1>2. CASE Comes \/ Halts \/ Begins \/ Leaves \/ Requests \/ Moves
  BY <1>2 DEF Comes, Halts, Begins, Leaves, Requests, Moves, Attending
<1>3. CASE Submits
  BY <1>3 DEF Submits, SubmitAcquire, SubmitReserve, SubmitEnqueue, Goto, manager
<1> QED
  BY <1>1, <1>2, <1>3, Others, ListenerKinds

-------------------------------------------------------------------------------
(***************************************************************************)
(* The lease, the active flag and the attended job.                        *)
(***************************************************************************)

LEMMA LeaseNext ==
  ASSUME DaemonInv, [Next]_vars PROVE LeaseInv'
<1> USE DEF DaemonInv, LeaseInv, Submitting, InJob, Unreported
<1>1. CASE Comes \/ Halts \/ Begins \/ Leaves \/ Requests \/ Moves
  BY <1>1 DEF Comes, Halts, Begins, Leaves, Requests, Moves, Quiet, Attending
<1>2. CASE SubmitAcquire
  BY <1>2 DEF SubmitAcquire, Goto, manager, worker, Token
<1>3. CASE SubmitReserve
  <2>1. /\ lease = Token /\ queue = 0 /\ wjob = 0
        /\ UNCHANGED <<slot, wpc, wjob, queue>>
    BY <1>3 DEF SubmitReserve, manager, worker
  <2>2. \/ lpc' = "giveup" /\ lease' = 0
        \/ lpc' = "enqueue" /\ UNCHANGED lease
    BY <1>3 DEF SubmitReserve, Goto
  <2> QED BY <2>1, <2>2 DEF Token
<1>4. CASE SubmitEnqueue
  <2>1. /\ lease = Token /\ queue = 0 /\ wjob = 0
        /\ UNCHANGED <<slot, wpc, wjob>>
    BY <1>4 DEF SubmitEnqueue, manager, worker
  <2>2. \/ lpc' = "giveup" /\ lease' = 0 /\ queue' = queue
        \/ lpc' = "wait" /\ queue' = Token /\ UNCHANGED lease
    BY <1>4 DEF SubmitEnqueue, Goto
  <2> QED BY <2>1, <2>2 DEF Token
<1>5. CASE Elsewhere
  <2>1. UNCHANGED <<lpc, slot>>
    BY <1>5 DEF Elsewhere, manager
  <2> USE DEF Token
  <2>2. CASE WorkerChecks \/ WaitTimeout \/ RequestChannelCloses \/ BeginJob
             \/ ReportProgress \/ FinishJob \/ RecheckCancelled \/ ReportResult
             \/ ReleaseActive
    BY <2>1, <2>2 DEF WorkerChecks, WaitTimeout, RequestChannelCloses, BeginJob,
         ReportProgress, FinishJob, RecheckCancelled, ReportResult, ReleaseActive,
         engine
  <2>3. CASE TakeRequest
    BY <2>1, <2>3 DEF TakeRequest
  <2>4. CASE WorkerStops
    BY <2>1, <2>4 DEF WorkerStops
  <2>5. CASE DropRequest
    BY <2>1, <2>5 DEF DropRequest
  <2>6. CASE CapturePair \/ RequestShutdown \/ UNCHANGED <<worker, engine, shutdown>>
    BY <2>1, <2>6 DEF CapturePair, RequestShutdown, worker, engine
  <2> QED BY <1>5, <2>2, <2>3, <2>4, <2>5, <2>6 DEF Elsewhere, WorkerStep
<1> QED
  BY <1>1, <1>2, <1>3, <1>4, <1>5, Others, ListenerKinds DEF Submits

LEMMA ActiveNext ==
  ASSUME DaemonInv, [Next]_vars PROVE ActiveInv'
<1> USE DEF DaemonInv, ActiveInv, Submitting, InJob, Unreported, Away, Attending,
            Doomed
<1>1. CASE Comes \/ Halts \/ Begins \/ Leaves \/ Requests \/ Moves
  BY <1>1 DEF Comes, Halts, Begins, Leaves, Requests, Moves, Quiet
<1>2. CASE SubmitAcquire
  BY <1>2 DEF SubmitAcquire, Goto, worker, LeaseInv
<1>3. CASE SubmitReserve
  BY <1>3 DEF SubmitReserve, Goto, worker
<1>4. CASE SubmitEnqueue
  BY <1>4 DEF SubmitEnqueue, Goto, worker, TokenInv
<1>5. CASE Elsewhere
  <2>1. UNCHANGED lpc
    BY <1>5 DEF Elsewhere
  <2>2. CASE WorkerChecks \/ WaitTimeout \/ RequestChannelCloses \/ BeginJob
             \/ ReportProgress \/ FinishJob \/ RecheckCancelled \/ ReportResult
    BY <2>1, <2>2 DEF WorkerChecks, WaitTimeout, RequestChannelCloses, BeginJob,
         ReportProgress, FinishJob, RecheckCancelled, ReportResult, engine
  <2>3. CASE TakeRequest \/ ReleaseActive \/ DropRequest
    BY <2>1, <2>3 DEF TakeRequest, ReleaseActive, DropRequest
  <2>4. CASE WorkerStops
    \* A queued request is dropped only while the daemon goes down.
    <3>1. queue # 0 => Doomed /\ lpc \in Away \cup Attending
      BY <2>4 DEF WorkerStops, AttendedInv, Pending
    <3> QED BY <2>1, <2>4, <3>1 DEF WorkerStops
  <2>5. CASE CapturePair \/ RequestShutdown \/ UNCHANGED <<worker, engine, shutdown>>
    BY <2>1, <2>5 DEF CapturePair, RequestShutdown, worker, engine
  <2> QED BY <1>5, <2>2, <2>3, <2>4, <2>5 DEF Elsewhere, WorkerStep
<1> QED
  BY <1>1, <1>2, <1>3, <1>4, <1>5, Others, ListenerKinds DEF Submits

LEMMA AttendedNext ==
  ASSUME DaemonInv, [Next]_vars PROVE AttendedInv'
<1> USE DEF DaemonInv, DataInv, AttendedInv, Pending, Job, Submitting, InJob,
            Unreported, Away, Attending, Doomed
<1>1. CASE Comes \/ Halts \/ Begins
  BY <1>1 DEF Comes, Halts, Begins, Quiet
<1>2. CASE Leaves \/ Requests
  BY <1>2 DEF Leaves, Requests, Quiet
<1>3. CASE Moves
  <2>1. HasTerminal(updates') => HasTerminal(updates)
    BY <1>3, TerminalTail DEF Moves
  <2> QED BY <1>3, <2>1 DEF Moves, Quiet
<1>4. CASE SubmitAcquire \/ SubmitReserve
  BY <1>4 DEF SubmitAcquire, SubmitReserve, Goto, worker
<1>5. CASE SubmitEnqueue
  BY <1>5, NothingTerminal DEF SubmitEnqueue, Goto, worker, LeaseInv
<1>6. CASE Elsewhere
  <2>1. UNCHANGED <<lpc, attached>>
    BY <1>6 DEF Elsewhere
  <2>2. CASE WorkerChecks \/ WaitTimeout \/ RequestChannelCloses \/ BeginJob
             \/ FinishJob \/ RecheckCancelled
    BY <2>1, <2>2 DEF WorkerChecks, WaitTimeout, RequestChannelCloses, BeginJob,
         FinishJob, RecheckCancelled, engine
  <2>3. CASE TakeRequest
    BY <2>1, <2>3 DEF TakeRequest, LeaseInv
  <2>4. CASE WorkerStops
    BY <2>1, <2>4 DEF WorkerStops
  <2>5. CASE ReportProgress
    <3>1. HasTerminal(updates') => HasTerminal(updates)
      BY <2>5, TerminalProgress DEF ReportProgress
    <3> QED BY <2>1, <2>5, <3>1 DEF ReportProgress
  <2>6. CASE ReportResult
    \* Whoever has left this job has left with an error.
    <3>1. attached # wjob => Doomed
      BY <2>6 DEF ReportResult, LeaseInv
    <3> QED BY <2>1, <2>6, <3>1 DEF ReportResult, LeaseInv
  <2>7. CASE ReleaseActive \/ DropRequest
    BY <2>1, <2>7 DEF ReleaseActive, DropRequest
  <2>8. CASE CapturePair \/ RequestShutdown \/ UNCHANGED <<worker, engine, shutdown>>
    BY <2>1, <2>8 DEF CapturePair, RequestShutdown, worker, engine
  <2> QED BY <1>6, <2>2, <2>3, <2>4, <2>5, <2>6, <2>7, <2>8 DEF Elsewhere, WorkerStep
<1> QED
  BY <1>1, <1>2, <1>3, <1>4, <1>5, <1>6, Others, ListenerKinds DEF Submits

-------------------------------------------------------------------------------

LEMMA DaemonStarts == Init => DaemonInv
<1> SUFFICES ASSUME Init PROVE DaemonInv
  OBVIOUS
<1>1. DataInv
  BY DEF Init, SM!ManagerInit, DataInv, AnyUpdate, NoCapture
<1>2. ReplyInv
  BY DEF Init, SM!ManagerInit, SM!NoReply, SM!Started, ReplyInv, Away
<1>3. TokenInv /\ LeaseInv /\ ActiveInv /\ AttendedInv
  BY DEF Init, TokenInv, LeaseInv, ActiveInv, AttendedInv, Submitting, InJob,
         Unreported, Pending
<1> QED BY <1>1, <1>2, <1>3 DEF DaemonInv

LEMMA DaemonGoesOn == DaemonInv /\ [Next]_vars => DaemonInv'
BY DataNext, ReplyNext, TokenNext, LeaseNext, ActiveNext, AttendedNext DEF DaemonInv

\* One job at a time is in the pipeline, it holds the lease from its submission
\* to the last statement of run_job, and a submission that got the lease is not
\* refused by the active flag (submit, run_job).
THEOREM JobsExclusive == Spec => []PipelineExclusive
<1>1. DaemonInv => PipelineExclusive
  BY DEF DaemonInv, LeaseInv, ActiveInv, PipelineExclusive, Submitting
<1> QED BY DaemonStarts, DaemonGoesOn, <1>1, PTL DEF Spec

-------------------------------------------------------------------------------
(***************************************************************************)
(* What a connection reads.                                                *)
(***************************************************************************)

\* From Started on, and before anything ends the session.
Talking == {"acquire", "reserve", "enqueue", "giveup", "wait", "poll", "serve"}

Opened(o) ==
  /\ Len(o) > 0 /\ o[1].kind = "Started"
  /\ \A i \in 2..Len(o) : o[i].kind \in {"Progress", "Rejected"}

\* ResponseOrder of any sequence.
Ordered(o) ==
  \A i, j \in 1..Len(o) :
    /\ o[i].kind \in {"Progress", "Completed"} =>
         \E k \in 1..(i - 1) : o[k].kind = "Started"
    /\ o[i].kind = "Completed" => j <= i
    /\ o[i].kind = "Started" /\ o[j].kind = "Started" => i = j

SlotIsPeers == slot # Idle /\ slot.connection = peer /\ slot.transaction = peer

\* The slot follows the connection: it is the served client's while they talk,
\* and empty before the first frame and after the session.
TalkInv ==
  /\ clock \in Nat /\ sampled \in Nat
  /\ \E S : output \in Seq(S)
  /\ lpc \notin Away => peer \in Clients
  /\ lpc \in Talking => Opened(output) /\ SlotIsPeers
  /\ lpc = "admit" => output = <<>>
  /\ lpc \in {"admit", "drain"} => slot = Idle
  /\ lpc \in Away /\ ~Doomed => slot = Idle
  /\ Ordered(output)

LEMMA AppendShape ==
  ASSUME NEW S, NEW o \in Seq(S), NEW r
  PROVE  /\ Append(o, r) \in Seq(S \cup {r})
         /\ Len(o) \in Nat /\ Len(Append(o, r)) = Len(o) + 1
         /\ \A i \in 1..Len(o) : Append(o, r)[i] = o[i]
         /\ Append(o, r)[Len(o) + 1] = r
<1>1. o \in Seq(S \cup {r})
  OBVIOUS
<1> QED
  BY <1>1, AppendProperties

LEMMA OpenedOrdered ==
  ASSUME NEW S, NEW o \in Seq(S), Opened(o)
  PROVE  Ordered(o)
<1>1. Len(o) \in Nat
  OBVIOUS
<1>2. \A i \in 1..Len(o) : i # 1 => o[i].kind \in {"Progress", "Rejected"}
  BY <1>1 DEF Opened
<1>3. 1 \in 1..Len(o) /\ o[1].kind = "Started"
  BY <1>1 DEF Opened
<1> SUFFICES ASSUME NEW i \in 1..Len(o), NEW j \in 1..Len(o)
    PROVE  /\ o[i].kind \in {"Progress", "Completed"} =>
                \E k \in 1..(i - 1) : o[k].kind = "Started"
           /\ o[i].kind = "Completed" => j <= i
           /\ o[i].kind = "Started" /\ o[j].kind = "Started" => i = j
  BY DEF Ordered
<1>4. o[i].kind \in {"Progress", "Completed"} => 1 \in 1..(i - 1)
  BY <1>1, <1>3
<1>5. o[i].kind # "Completed"
  BY <1>2, <1>3
<1>6. o[i].kind = "Started" /\ o[j].kind = "Started" => i = j
  BY <1>2, <1>3
<1> QED BY <1>3, <1>4, <1>5, <1>6

LEMMA OpenedGrows ==
  ASSUME NEW S, NEW o \in Seq(S), Opened(o), NEW r,
         r.kind \in {"Progress", "Rejected"}
  PROVE  Opened(Append(o, r))
<1> DEFINE p == Append(o, r)
<1>1. /\ Len(o) \in Nat /\ Len(p) = Len(o) + 1 /\ p[Len(o) + 1] = r
      /\ \A i \in 1..Len(o) : p[i] = o[i]
  BY AppendShape
<1>2. p[1].kind = "Started" /\ Len(p) > 0
  BY <1>1 DEF Opened
<1>3. ASSUME NEW i \in 2..Len(p) PROVE p[i].kind \in {"Progress", "Rejected"}
  <2>1. CASE i = Len(o) + 1
    BY <1>1, <2>1
  <2>2. CASE i # Len(o) + 1
    BY <1>1, <2>2 DEF Opened
  <2> QED BY <2>1, <2>2
<1> QED BY <1>2, <1>3 DEF Opened

\* The terminal response of an opened connection comes last.
LEMMA OpenedEnds ==
  ASSUME NEW S, NEW o \in Seq(S), Opened(o), NEW r, r.kind = "Completed"
  PROVE  Ordered(Append(o, r))
<1> DEFINE p == Append(o, r)
<1>1. /\ Len(o) \in Nat \ {0} /\ Len(p) = Len(o) + 1 /\ p[Len(o) + 1] = r
      /\ \A i \in 1..Len(o) : p[i] = o[i]
  BY AppendShape DEF Opened
<1>2. p[1].kind = "Started"
  BY <1>1 DEF Opened
<1>3. \A i \in 1..Len(p) : i # 1 =>
        \/ i = Len(p) /\ p[i].kind = "Completed"
        \/ p[i].kind \in {"Progress", "Rejected"}
  BY <1>1 DEF Opened
<1> HIDE DEF p
<1> SUFFICES ASSUME NEW i \in 1..Len(p), NEW j \in 1..Len(p)
    PROVE  /\ p[i].kind \in {"Progress", "Completed"} =>
                \E k \in 1..(i - 1) : p[k].kind = "Started"
           /\ p[i].kind = "Completed" => j <= i
           /\ p[i].kind = "Started" /\ p[j].kind = "Started" => i = j
  BY DEF Ordered, p
<1>4. p[i].kind \in {"Progress", "Completed"} => 1 \in 1..(i - 1)
  BY <1>1, <1>2
<1>5. p[i].kind = "Completed" => j <= i
  BY <1>1, <1>2, <1>3
<1>6. p[i].kind = "Started" /\ p[j].kind = "Started" => i = j
  BY <1>2, <1>3
<1> QED BY <1>2, <1>4, <1>5, <1>6

LEMMA FirstResponse ==
  ASSUME NEW r
  PROVE  /\ r.kind = "Started" => Opened(Append(<<>>, r))
         /\ r.kind = "Rejected" => Ordered(Append(<<>>, r))
<1>1. Append(<<>>, r) = <<r>> /\ Len(<<r>>) = 1 /\ <<r>>[1] = r
  OBVIOUS
<1> QED BY <1>1 DEF Opened, Ordered

LEMMA NothingRead == Ordered(<<>>)
BY DEF Ordered

-------------------------------------------------------------------------------

\* A response of this kind is written, if the client still reads.
Says(kind) == \E r : r.kind = kind /\ Respond(r)

LEMMA RefusedSays ==
  ASSUME NEW e, SM!Refuse(e), Respond(BoundaryReply(reply'))
  PROVE  Says("Rejected") /\ UNCHANGED slot
<1>1. reply'.kind = "Error" /\ UNCHANGED slot
  BY DEF SM!Refuse, SM!Failed
<1>2. BoundaryReply(reply').kind = "Rejected"
  BY <1>1 DEF BoundaryReply, Rejection
<1> QED BY <1>1, <1>2 DEF Says

LEMMA FinishSays ==
  ASSUME NEW d, NEW at, SM!Finish(d, at)
  PROVE  /\ slot' = Idle /\ reply'.kind = "Completed"
         /\ BoundaryReply(reply') = reply'
<1>1. PICK e : SM!TakeTerminal(e)
  BY DEF SM!Finish
<1>2. slot' = Idle /\ reply'.kind = "Completed"
  BY <1>1 DEF SM!TakeTerminal, SM!Completed
<1> QED BY <1>2 DEF BoundaryReply

LEMMA PeerIsBound ==
  ASSUME SlotIsPeers
  PROVE  SM!Bound(peer, peer) /\ ~SM!RefuseUnbound(peer, peer)
BY DEF SlotIsPeers, SM!Bound, SM!RefuseUnbound

LEMMA CancelEnds ==
  ASSUME SlotIsPeers, NEW at, SM!Cancel(peer, peer, at)
  PROVE  SM!Finish("Cancelled", at)
BY PeerIsBound DEF SM!Cancel

LEMMA CompleteEnds ==
  ASSUME SlotIsPeers, NEW d, d \notin SM!ReservedDecisions, NEW at,
         SM!Complete(peer, peer, d, at)
  PROVE  SM!Finish(d, at)
BY PeerIsBound DEF SM!Complete

\* A frame of the served client refuses something, or ends the session.
LEMMA HandleTalks ==
  ASSUME SlotIsPeers, peer \in Clients, HandleOne
  PROVE  \/ UNCHANGED slot /\ Says("Rejected")
         \/ slot' = Idle /\ Says("Completed")
<1>1. CASE HandleUnauthorized
  BY <1>1 DEF HandleUnauthorized, manager, Says
<1>2. CASE HandleAuthenticate
  <2>1. SM!Refuse("Busy") /\ Respond(BoundaryReply(reply'))
    BY <1>2 DEF HandleAuthenticate, SM!Start, SlotIsPeers
  <2> QED BY <2>1, RefusedSays
<1>3. CASE SM!Cancel(peer, peer, sampled) /\ Respond(BoundaryReply(reply'))
  <2>1. slot' = Idle /\ reply'.kind = "Completed" /\ Respond(reply')
    BY <1>3, CancelEnds, FinishSays
  <2> QED BY <2>1 DEF Says
<1>4. CASE /\ SM!Cancel(peer, OtherTransaction, sampled)
           /\ Respond(BoundaryReply(reply'))
  <2>1. slot.transaction # OtherTransaction
    BY DaemonAssumption DEF SlotIsPeers, OtherTransaction
  <2>2. \E e : SM!Refuse(e)
    BY <1>4, <2>1 DEF SM!Cancel, SM!Bound, SM!RefuseUnbound
  <2> QED BY <1>4, <2>2, RefusedSays
<1> QED BY <1>1, <1>2, <1>3, <1>4 DEF HandleOne, HandleCancel

\* The first frame is refused, or starts the session of the served client.
LEMMA HandleAdmits ==
  ASSUME slot = Idle, peer \in Clients, sampled \in Nat, starts \in Nat,
         reply # SM!Started(peer), HandleOne
  PROVE  \/ reply' # SM!Started(peer) /\ UNCHANGED slot /\ Says("Rejected")
         \/ /\ reply' = SM!Started(peer) /\ Says("Started")
            /\ peer' = peer => SlotIsPeers'
<1>1. CASE HandleUnauthorized
  BY <1>1 DEF HandleUnauthorized, manager, Says
<1>2. CASE HandleCancel
  <2>1. \E e : SM!Refuse(e)
    BY <1>2 DEF HandleCancel, SM!Cancel, SM!Bound, SM!RefuseUnbound
  <2>2. Respond(BoundaryReply(reply'))
    BY <1>2 DEF HandleCancel
  <2> QED BY <2>1, <2>2, RefusedSays, RefusalAnswers
<1>3. CASE HandleAuthenticate
  <2>1. SM!Start(peer, peer, sampled) /\ Respond(BoundaryReply(reply'))
    BY <1>3 DEF HandleAuthenticate
  <2>2. CASE \E e : SM!Refuse(e)
    BY <2>1, <2>2, RefusedSays, RefusalAnswers
  <2>3. CASE ~\E e : SM!Refuse(e)
    <3>1. /\ sampled + Duration <= ClockMax /\ reply' = SM!Started(peer)
          /\ slot' = [connection |-> peer, transaction |-> peer,
                      deadline |-> sampled + Duration, token |-> starts + 1]
      BY <2>1, <2>3 DEF SM!Start
    <3>2. slot' \in SM!Sessions
      BY <3>1, SlotAssumption DEF SM!Sessions
    <3>3. slot' # Idle /\ slot'.connection = peer /\ slot'.transaction = peer
      BY <3>1, <3>2, SlotAssumption
    <3>4. BoundaryReply(reply') = reply' /\ reply'.kind = "Started"
      BY <3>1 DEF BoundaryReply, SM!Started
    <3> QED BY <2>1, <3>1, <3>3, <3>4 DEF SlotIsPeers, Says
  <2> QED BY <2>2, <2>3
<1> QED BY <1>1, <1>2, <1>3 DEF HandleOne

\* What the client has read once something has been written.
LEMMA Heard ==
  ASSUME NEW S, output \in Seq(S), NEW kind, Says(kind)
  PROVE  /\ \E T : output' \in Seq(T)
         /\ Opened(output) /\ kind \in {"Progress", "Rejected"} => Opened(output')
         /\ Opened(output) /\ kind = "Completed" => Ordered(output')
         /\ output = <<>> /\ Delivers =>
              /\ kind = "Started" => Opened(output')
              /\ kind = "Rejected" => Ordered(output')
<1>1. PICK r : r.kind = kind /\ Respond(r)
  BY DEF Says
<1>2. CASE Delivers
  <2>1. output' = Append(output, r)
    BY <1>1, <1>2 DEF Respond
  <2>2. \E T : output' \in Seq(T)
    BY <2>1, AppendShape
  <2>3. Opened(output) /\ kind \in {"Progress", "Rejected"} => Opened(Append(output, r))
    BY <1>1, OpenedGrows
  <2>4. Opened(output) /\ kind = "Completed" => Ordered(Append(output, r))
    BY <1>1, OpenedEnds
  <2>5. output = <<>> =>
          /\ kind = "Started" => Opened(Append(output, r))
          /\ kind = "Rejected" => Ordered(Append(output, r))
    BY <1>1, FirstResponse
  <2> QED BY <2>1, <2>2, <2>3, <2>4, <2>5
<1>3. CASE ~Delivers
  <2>1. output' = output
    BY <1>1, <1>3 DEF Respond
  <2> QED BY <1>3, <2>1, OpenedOrdered
<1> QED BY <1>2, <1>3

\* The listener's way out: to the backlog, or to draining.
LEMMA TalkEnds ==
  ASSUME TalkInv, UNCHANGED clock, sampled' \in Nat,
         \E T : output' \in Seq(T), Ordered(output'),
         \/ lpc' \in {"accept", "fatal"}
         \/ lpc' = "drain" /\ peer' \in Clients /\ slot' = Idle,
         slot' = Idle \/ Doomed'
  PROVE  TalkInv'
BY DEF TalkInv, Away, Talking

\* The session goes on.
LEMMA TalkGoesOn ==
  ASSUME TalkInv, lpc \in Talking, UNCHANGED <<clock, slot, peer>>,
         sampled' \in Nat, \E T : output' \in Seq(T), Opened(output'),
         lpc' \in Talking
  PROVE  TalkInv'
<1>1. Ordered(output')
  BY OpenedOrdered
<1> QED BY <1>1 DEF TalkInv, Away, Talking, SlotIsPeers

\* The served client's session, while they talk.
LEMMA TalkShape ==
  ASSUME TalkInv, lpc \in Talking
  PROVE  /\ SlotIsPeers /\ peer \in Clients /\ Opened(output)
         /\ \E S : output \in Seq(S)
         /\ clock \in Nat /\ sampled \in Nat
BY DEF TalkInv, Talking, Away

LEMMA ReturnSample ==
  ASSUME NEW ok, Return(ok)
  PROVE  lpc' \in {"accept", "fatal"} /\ sampled' \in Nat /\ (~ok => Doomed')
BY DEF Return, Doomed

LEMMA TalkAdmit ==
  ASSUME DaemonInv, TalkInv, AdmitFrame PROVE TalkInv'
<1>1. /\ lpc = "admit" /\ HandleOne /\ slot = Idle /\ output = <<>> /\ UNCHANGED clock
      /\ sampled \in Nat /\ peer \in Clients /\ reply # SM!Started(peer)
  BY HandleAnswers DEF AdmitFrame, TalkInv, Away, DaemonInv, DataInv, ReplyInv
<1>2. \/ reply' # SM!Started(peer) /\ UNCHANGED slot /\ Says("Rejected")
      \/ /\ reply' = SM!Started(peer) /\ Says("Started")
         /\ peer' = peer => SlotIsPeers'
  BY <1>1, HandleAdmits DEF DaemonInv, DataInv
<1>3. \E S : output \in Seq(S)
  BY DEF TalkInv
<1>4. CASE ~Delivers /\ Return(FALSE)
  <2>1. output' = output
    BY <1>2, <1>4 DEF Says, Respond
  <2> QED BY <1>1, <1>3, <1>4, <2>1, ReturnSample, TalkEnds DEF TalkInv
<1>5. CASE Delivers /\ reply' = SM!Started(peer) /\ Goto("acquire")
  <2>1. /\ lpc' = "acquire" /\ UNCHANGED <<peer, sampled, shutdown>>
    BY <1>5 DEF Goto
  <2>2. SlotIsPeers' /\ Says("Started")
    BY <1>2, <1>5, <2>1
  <2>3. Opened(output') /\ \E T : output' \in Seq(T)
    BY <1>1, <1>3, <1>5, <2>2, Heard
  <2>4. Ordered(output')
    BY <2>3, OpenedOrdered
  <2> QED BY <1>1, <2>1, <2>2, <2>3, <2>4 DEF TalkInv, Away, Talking
<1>6. CASE Delivers /\ reply' # SM!Started(peer) /\ Return(TRUE)
  <2>1. slot' = Idle /\ Says("Rejected")
    BY <1>1, <1>2, <1>6
  <2>2. Ordered(output') /\ \E T : output' \in Seq(T)
    BY <1>1, <1>3, <1>6, <2>1, Heard
  <2> QED BY <1>1, <1>6, <2>1, <2>2, ReturnSample, TalkEnds
<1> QED BY <1>4, <1>5, <1>6 DEF AdmitFrame

\* A completion ends the session and is the last that is written.
LEMMA TalkCompletes ==
  ASSUME TalkInv, lpc \in Talking, UNCHANGED clock,
         NEW d \in {"Accepted", "Refused", "InternalError"}, NEW at,
         SM!Complete(peer, peer, d, at), Respond(reply'), Return(Delivers)
  PROVE  TalkInv'
<1>1. d \notin SM!ReservedDecisions
  BY DEF SM!ReservedDecisions
<1>2. slot' = Idle /\ reply'.kind = "Completed"
  BY <1>1, TalkShape, CompleteEnds, FinishSays
<1>3. Says("Completed")
  BY <1>2 DEF Says
<1>4. Ordered(output') /\ \E T : output' \in Seq(T)
  BY <1>3, TalkShape, Heard
<1> QED BY <1>2, <1>4, ReturnSample, TalkEnds

LEMMA TalkProgress ==
  ASSUME TalkInv, RelayProgress PROVE TalkInv'
<1>1. /\ lpc \in Talking /\ UNCHANGED clock /\ SM!Progress(peer, peer, clock)
      /\ Respond(reply')
  BY DEF RelayProgress, Talking
<1>2. \/ slot' = Idle /\ reply'.kind = "Completed"
      \/ slot' = slot /\ reply'.kind = "Progress"
  BY <1>1, TalkShape, PeerIsBound
     DEF SM!Progress, SM!TakeTerminal, SM!Completed, SM!Progressed
<1>3. CASE ~Delivers /\ Return(FALSE)
  <2>1. output' = output
    BY <1>1, <1>3 DEF Respond
  <2> QED BY <1>1, <1>3, <2>1, TalkShape, ReturnSample, TalkEnds DEF TalkInv
<1>4. CASE Delivers /\ slot' = Idle /\ Drain(TRUE)
  <2>1. slot # Idle /\ Says("Completed")
    BY <1>1, <1>2, <1>4, TalkShape DEF SlotIsPeers, Says
  <2>2. Ordered(output') /\ \E T : output' \in Seq(T)
    BY <1>1, <2>1, TalkShape, Heard
  <2> QED BY <1>1, <1>4, <2>2, TalkShape, TalkEnds DEF Drain
<1>5. CASE /\ Delivers /\ slot' # Idle /\ lpc' = "poll"
           /\ UNCHANGED <<peer, sampled>>
  <2>1. slot' = slot /\ Says("Progress")
    BY <1>1, <1>2, <1>5 DEF Says
  <2>2. Opened(output') /\ \E T : output' \in Seq(T)
    BY <1>1, <2>1, TalkShape, Heard
  <2> QED BY <1>1, <1>5, <2>1, <2>2, TalkShape, TalkGoesOn DEF Talking
<1> QED BY <1>3, <1>4, <1>5 DEF RelayProgress

LEMMA TalkServes ==
  ASSUME DaemonInv, TalkInv, ServeFrame PROVE TalkInv'
<1>1. lpc \in Talking /\ HandleOne /\ UNCHANGED clock
  BY HandleAnswers DEF ServeFrame, Talking, DaemonInv, DataInv
<1>2. \/ UNCHANGED slot /\ Says("Rejected")
      \/ slot' = Idle /\ Says("Completed")
  BY <1>1, TalkShape, HandleTalks
<1>3. slot # Idle
  BY <1>1, TalkShape DEF SlotIsPeers
<1>4. CASE slot' = Idle /\ Drain(TRUE)
  <2>1. Says("Completed")
    BY <1>2, <1>3, <1>4
  <2>2. Ordered(output') /\ \E T : output' \in Seq(T)
    BY <1>1, <2>1, TalkShape, Heard
  <2> QED BY <1>1, <1>4, <2>2, TalkShape, TalkEnds DEF Drain
<1>5. CASE slot' # Idle /\ Goto("wait")
  <2>1. UNCHANGED slot /\ Says("Rejected")
    BY <1>2, <1>5
  <2>2. Opened(output') /\ \E T : output' \in Seq(T)
    BY <1>1, <2>1, TalkShape, Heard
  <2>3. lpc' = "wait" /\ UNCHANGED <<peer, sampled>>
    BY <1>5 DEF Goto
  <2> QED BY <1>1, <2>1, <2>2, <2>3, TalkShape, TalkGoesOn DEF Talking
<1> QED BY <1>4, <1>5 DEF ServeFrame

\* Whatever fails, the session is cancelled and nothing more is written.
LEMMA TalkFails ==
  ASSUME DaemonInv, TalkInv, ServeFails \/ PollFails PROVE TalkInv'
<1>1. lpc \in Talking /\ Drain(FALSE)
  BY DEF ServeFails, PollFails, Talking
<1>2. SlotIsPeers /\ peer \in Clients
  BY <1>1, TalkShape
<1>3. UNCHANGED <<clock, output>> /\ slot' = Idle
  <2>1. CASE /\ UNCHANGED <<clock, output>>
             /\ SM!Cancel(peer, peer, clock)
    BY <1>2, <2>1, CancelEnds, FinishSays
  <2>2. CASE ~Delivers /\ HandleOne /\ slot' = Idle
    <3>1. Says("Rejected") \/ Says("Completed")
      BY <1>2, <2>2, HandleTalks
    <3>2. output' = output
      BY <2>2, <3>1 DEF Says, Respond
    <3> QED BY <2>2, <3>2, HandleAnswers DEF DaemonInv, DataInv
  <2> QED BY <2>1, <2>2 DEF ServeFails, PollFails, ReadFails, TakeFrame, sockets
<1>4. Ordered(output) /\ \E T : output \in Seq(T)
  BY DEF TalkInv
<1> QED BY <1>1, <1>2, <1>3, <1>4, TalkEnds DEF TalkInv, Drain

\* The steps that neither write nor touch the slot.
LEMMA TalkStays ==
  ASSUME TalkInv, UNCHANGED <<slot, output, peer, lpc>>, shutdown => shutdown',
         clock' \in Nat, sampled' \in Nat
  PROVE  TalkInv'
BY DEF TalkInv, SlotIsPeers, Doomed

LEMMA TalkNext ==
  ASSUME DaemonInv, TalkInv, [Next]_vars PROVE TalkInv'
<1>0. clock \in Nat /\ sampled \in Nat /\ Ordered(output) /\ \E S : output \in Seq(S)
  BY DEF TalkInv
<1>1. CASE WorkerStep \/ CapturePair
  <2>1. UNCHANGED <<slot, output, peer, lpc, clock, sampled, shutdown>>
    BY <1>1 DEF WorkerStep, WorkerChecks, WaitTimeout, RequestChannelCloses,
         TakeRequest, WorkerStops, BeginJob, ReportProgress, FinishJob,
         RecheckCancelled, ReportResult, ReleaseActive, DropRequest, CapturePair,
         manager, sockets, listener
  <2> QED BY <1>0, <2>1, TalkStays
<1>2. CASE ClientStep \/ Tick \/ RequestShutdown \/ UNCHANGED vars
  <2>1. /\ UNCHANGED <<slot, output, peer, lpc, sampled>>
        /\ shutdown => shutdown'
        /\ clock' = clock \/ clock' = clock + 1
    BY <1>2 DEF ClientStep, Disconnect, Tick, RequestShutdown, vars, manager,
         sockets, listener
  <2>2. clock' \in Nat
    BY <1>0, <2>1
  <2> QED BY <1>0, <2>1, <2>2, TalkStays
<1>3. ASSUME NEW c \in Clients, Accept(c) PROVE TalkInv'
  <2>1. /\ lpc = "accept" /\ ~shutdown /\ lpc' = "admit" /\ peer' = c
        /\ output' = <<>> /\ UNCHANGED <<slot, clock>> /\ sampled' = clock
    BY <1>3 DEF Accept, EnterHandler, manager
  <2>2. slot = Idle
    BY <2>1 DEF TalkInv, Away, Doomed
  <2>3. output' \in Seq({})
    BY <2>1
  <2> QED BY <1>0, <2>1, <2>2, <2>3, NothingRead DEF TalkInv, Away, Talking
<1>4. CASE AcceptLoopStops \/ AcceptLoopFails
  <2>1. /\ lpc = "accept" /\ lpc' = "stopped"
        /\ UNCHANGED <<slot, output, peer, clock, sampled, shutdown>>
    BY <1>4 DEF AcceptLoopStops, AcceptLoopFails, manager, sockets
  <2> QED BY <2>1 DEF TalkInv, Away, Talking, Doomed
<1>5. CASE AdmitFrame
  BY <1>5, TalkAdmit
<1>6. CASE AdmitFails
  <2>1. UNCHANGED <<slot, clock, output>> /\ Return(FALSE)
    BY <1>6 DEF AdmitFails, ReadFails, manager, sockets
  <2> QED BY <1>0, <2>1, ReturnSample, TalkEnds
<1>7. CASE Submits \/ EngineFailed \/ UpdateTimeout \/ PollClient
  <2>1. /\ lpc \in Talking /\ lpc' \in Talking /\ sampled' \in {sampled, clock}
        /\ UNCHANGED <<slot, clock, output, peer>>
    BY <1>7 DEF Submits, SubmitAcquire, SubmitReserve, SubmitEnqueue, EngineFailed,
         UpdateTimeout, PollClient, Goto, EnterHandler, Talking, manager, sockets
  <2>2. Opened(output)
    BY <2>1, TalkShape
  <2> QED BY <1>0, <2>1, <2>2, TalkGoesOn
<1>8. CASE DrainRound \/ DrainGivesUp
  <2>1. /\ lpc = "drain" /\ UNCHANGED <<slot, clock, output>>
        /\ \/ Return(drainOk) \/ Return(FALSE)
           \/ UNCHANGED <<lpc, peer, sampled>>
    BY <1>8 DEF DrainRound, DrainGivesUp, manager, sockets
  <2>2. slot = Idle /\ peer \in Clients
    BY <2>1 DEF TalkInv, Away
  <2>3. CASE Return(drainOk) \/ Return(FALSE)
    BY <1>0, <2>1, <2>2, <2>3, ReturnSample, TalkEnds
  <2>4. CASE UNCHANGED <<lpc, peer, sampled>>
    <3>1. lpc' = "drain" /\ slot' = Idle /\ peer' \in Clients /\ sampled' \in Nat
      BY <1>0, <2>1, <2>2, <2>4
    <3> QED BY <1>0, <2>1, <3>1, TalkEnds
  <2> QED BY <2>1, <2>3, <2>4
<1>9. CASE GiveUp
  <2>1. /\ lpc \in Talking /\ UNCHANGED clock /\ Respond(reply') /\ Return(Delivers)
        /\ SM!Complete(peer, peer, "InternalError", clock)
    BY <1>9 DEF GiveUp, Talking
  <2> QED BY <2>1, TalkCompletes
<1>10. CASE CompleteWithEvidence
  <2>1. lpc \in Talking /\ UNCHANGED clock /\ Respond(reply') /\ Return(Delivers)
    BY <1>10 DEF CompleteWithEvidence, Talking
  <2>2. PICK d \in DecisionsFor(Head(updates).match) :
          SM!Complete(peer, peer, d, Head(updates).at)
    BY <1>10 DEF CompleteWithEvidence
  <2>3. d \in {"Accepted", "Refused", "InternalError"}
    BY DEF DecisionsFor
  <2> QED BY <2>1, <2>2, <2>3, TalkCompletes
<1>11. CASE RelayProgress
  BY <1>11, TalkProgress
<1>12. CASE ServeFrame
  BY <1>12, TalkServes
<1>13. CASE ServeFails \/ PollFails
  BY <1>13, TalkFails
<1>14. CASE RequestFatal
  <2>1. UNCHANGED <<slot, output, clock, sampled>> /\ lpc' = "accept" /\ shutdown'
    BY <1>14 DEF RequestFatal, manager, sockets
  <2> QED BY <1>0, <2>1, TalkEnds DEF Doomed
<1> QED
  BY <1>1, <1>2, <1>3, <1>4, <1>5, <1>6, <1>7, <1>8, <1>9, <1>10, <1>11, <1>12, <1>13,
     <1>14
  DEF Next, ListenerStep, Submits

LEMMA TalkStarts == Init => TalkInv
<1> SUFFICES ASSUME Init PROVE TalkInv
  OBVIOUS
<1>1. output \in Seq({})
  BY DEF Init
<1> QED
  BY <1>1, NothingRead DEF Init, SM!ManagerInit, TalkInv, Away, Talking

\* A connection is told Started once and first, at most one decision, and
\* nothing after it, whatever frames it sends, whenever it leaves and however
\* the engine ends (coordinate_authentication_connection).
THEOREM ResponsesOrdered == Spec => []ResponseOrder
<1>1. TalkInv => ResponseOrder
  <2> SUFFICES ASSUME TalkInv PROVE ResponseOrder
    OBVIOUS
  <2>1. DOMAIN output = 1..Len(output) /\ Ordered(output)
    BY DEF TalkInv
  <2> QED BY <2>1 DEF Ordered, ResponseOrder, Kind
<1>2. DaemonInv /\ TalkInv /\ [Next]_vars => (DaemonInv /\ TalkInv)'
  BY DaemonGoesOn, TalkNext
<1> QED
  BY DaemonStarts, TalkStarts, <1>1, <1>2, PTL DEF Spec

-------------------------------------------------------------------------------
(***************************************************************************)
(* What an acceptance rests on.                                            *)
(***************************************************************************)

Chatting == {"wait", "poll", "serve"}
Begun == slot.deadline - Duration

\* The session in the slot is the newest, it began in the past, and its token
\* is unset.
SessionInv ==
  /\ sampled <= clock
  /\ signalled \subseteq 0..starts
  /\ slot # Idle => /\ Token = starts /\ Token \notin signalled
                    /\ slot.deadline \in Int /\ Begun <= clock

\* Evidence is no older than the session that waits for it: an earlier job has
\* left nothing behind, and the update channel is the session's own.
FreshInv ==
  /\ wjob = 0 => captured = NoCapture /\ result = NoResult
  /\ lpc \in Chatting =>
       /\ attached = Token
       /\ captured # NoCapture => Begun <= captured
       /\ result.kind = "Evidence" => Begun <= result.at
       /\ \A i \in 1..Len(updates) :
            updates[i].kind = "Evidence" => Begun <= updates[i].at

EvidenceInv == SessionInv /\ FreshInv

\* What a step may do to the slot.
SlotStep ==
  \/ UNCHANGED <<slot, starts, signalled>>
  \/ /\ slot # Idle /\ slot' = Idle /\ UNCHANGED starts
     /\ signalled' = signalled \cup {slot.token}
  \/ /\ slot = Idle /\ starts' = starts + 1 /\ UNCHANGED signalled
     /\ slot'.token = starts + 1 /\ slot'.deadline = sampled + Duration

LEMMA MethodSteps ==
  ASSUME NEW c, NEW t, NEW d, NEW at,
         \/ SM!Start(c, t, sampled) \/ SM!Progress(c, t, at)
         \/ SM!Complete(c, t, d, at) \/ SM!Cancel(c, t, at)
  PROVE  SlotStep
<1>1. ASSUME NEW e, SM!Refuse(e) PROVE SlotStep
  BY <1>1 DEF SM!Refuse, SlotStep
<1>2. ASSUME NEW e, slot # Idle, SM!TakeTerminal(e) PROVE SlotStep
  BY <1>2 DEF SM!TakeTerminal, SlotStep
<1>3. CASE SM!RefuseUnbound(c, t)
  BY <1>1, <1>3 DEF SM!RefuseUnbound
<1>4. ASSUME SM!Bound(c, t), NEW e, SM!Finish(e, at) PROVE SlotStep
  BY <1>2, <1>4 DEF SM!Bound, SM!Finish
<1>5. CASE SM!Start(c, t, sampled)
  BY <1>1, <1>5 DEF SM!Start, SlotStep
<1>6. CASE SM!Progress(c, t, at)
  BY <1>2, <1>3, <1>6 DEF SM!Progress, SM!Bound, SlotStep
<1>7. CASE SM!Complete(c, t, d, at)
  BY <1>1, <1>3, <1>4, <1>7 DEF SM!Complete
<1>8. CASE SM!Cancel(c, t, at)
  BY <1>3, <1>4, <1>8 DEF SM!Cancel
<1> QED BY <1>5, <1>6, <1>7, <1>8

LEMMA HandleSteps == ASSUME HandleOne PROVE SlotStep
<1>1. CASE HandleUnauthorized
  BY <1>1 DEF HandleUnauthorized, manager, SlotStep
<1>2. CASE HandleAuthenticate \/ HandleCancel
  BY <1>2, MethodSteps DEF HandleAuthenticate, HandleCancel
<1> QED BY <1>1, <1>2 DEF HandleOne

LEMMA SlotSteps ==
  ASSUME [Next]_vars PROVE SlotStep
<1>1. CASE Elsewhere
  BY <1>1 DEF Elsewhere, manager, SlotStep
<1>2. CASE \/ (\E c \in Clients : Accept(c)) \/ AcceptLoopStops \/ AcceptLoopFails
           \/ AdmitFails \/ Submits \/ EngineFailed \/ UpdateTimeout \/ PollClient
           \/ DrainRound \/ DrainGivesUp \/ RequestFatal
  BY <1>2 DEF Accept, AcceptLoopStops, AcceptLoopFails, AdmitFails, Submits,
       SubmitAcquire, SubmitReserve, SubmitEnqueue, EngineFailed, UpdateTimeout,
       PollClient, DrainRound, DrainGivesUp, RequestFatal, manager, SlotStep
<1>3. CASE AdmitFrame \/ ServeFrame
  BY <1>3, HandleSteps DEF AdmitFrame, ServeFrame
<1>4. CASE GiveUp \/ RelayProgress \/ CompleteWithEvidence \/ PollFails
  BY <1>4, MethodSteps DEF GiveUp, RelayProgress, CompleteWithEvidence, PollFails
<1>5. CASE ServeFails
  BY <1>5, MethodSteps, HandleSteps DEF ServeFails
<1> QED
  BY <1>1, <1>2, <1>3, <1>4, <1>5, Others DEF ListenerStep, Submits

LEMMA SampleSteps ==
  ASSUME DaemonInv, [Next]_vars
  PROVE  sampled' \in {0, sampled, clock} /\ clock' \in {clock, clock + 1}
<1> USE DEF DaemonInv, DataInv, listener, sockets, manager
<1>1. CASE WorkerStep \/ CapturePair
  BY <1>1 DEF WorkerStep, WorkerChecks, WaitTimeout, RequestChannelCloses,
       TakeRequest, WorkerStops, BeginJob, ReportProgress, FinishJob,
       RecheckCancelled, ReportResult, ReleaseActive, DropRequest, CapturePair
<1>2. CASE ClientStep \/ Tick \/ RequestShutdown \/ UNCHANGED vars
  BY <1>2 DEF ClientStep, Disconnect, Tick, RequestShutdown, vars
<1>3. CASE \/ (\E c \in Clients : Accept(c)) \/ AcceptLoopStops \/ AcceptLoopFails
           \/ AdmitFails \/ Submits \/ EngineFailed \/ UpdateTimeout \/ PollClient
           \/ DrainRound \/ DrainGivesUp \/ RequestFatal
  BY <1>3 DEF Accept, AcceptLoopStops, AcceptLoopFails, AdmitFails, ReadFails, Submits,
       SubmitAcquire, SubmitReserve, SubmitEnqueue, EngineFailed, UpdateTimeout,
       PollClient, DrainRound, DrainGivesUp, RequestFatal, EnterHandler, Return, Goto
<1>4. CASE AdmitFrame \/ ServeFrame
  <2>1. UNCHANGED clock
    BY <1>4, HandleAnswers DEF AdmitFrame, ServeFrame
  <2> QED BY <1>4, <2>1 DEF AdmitFrame, ServeFrame, Return, Goto, Drain
<1>5. CASE GiveUp \/ RelayProgress \/ CompleteWithEvidence \/ PollFails
  BY <1>5 DEF GiveUp, RelayProgress, CompleteWithEvidence, PollFails, Return, Drain
<1>6. CASE ServeFails
  <2>1. UNCHANGED clock
    BY <1>6, HandleAnswers DEF ServeFails, ReadFails, TakeFrame
  <2> QED BY <1>6, <2>1 DEF ServeFails, Drain
<1> QED
  BY <1>1, <1>2, <1>3, <1>4, <1>5, <1>6 DEF Next, ListenerStep, Submits

LEMMA SessionNext ==
  ASSUME DaemonInv, TalkInv, SessionInv, [Next]_vars PROVE SessionInv'
<1>1. sampled' \in {0, sampled, clock} /\ clock' \in {clock, clock + 1}
  BY SampleSteps
<1>2. /\ clock \in Nat /\ sampled \in Nat /\ starts \in Nat /\ Duration \in Nat
  BY SlotAssumption DEF DaemonInv, DataInv, TalkInv
<1> USE DEF SessionInv, Begun, Token
<1>0. sampled' <= clock'
  BY <1>1, <1>2
<1>3. CASE UNCHANGED <<slot, starts, signalled>>
  BY <1>1, <1>2, <1>3
<1>4. CASE /\ slot # Idle /\ slot' = Idle /\ UNCHANGED starts
           /\ signalled' = signalled \cup {slot.token}
  <2>1. signalled' = signalled \cup {starts} /\ starts \in 0..starts
    BY <1>2, <1>4
  <2>2. signalled' \subseteq 0..starts'
    BY <1>4, <2>1
  <2> QED BY <1>0, <1>4, <2>2
<1>5. CASE /\ slot = Idle /\ starts' = starts + 1 /\ UNCHANGED signalled
           /\ slot'.token = starts + 1 /\ slot'.deadline = sampled + Duration
  <2>1. signalled' \subseteq 0..starts' /\ starts + 1 \notin signalled
    BY <1>2, <1>5
  <2>2. slot'.deadline \in Int /\ slot'.deadline - Duration <= clock'
    BY <1>1, <1>2, <1>5
  <2> QED BY <1>0, <1>5, <2>1, <2>2
<1> QED
  BY <1>3, <1>4, <1>5, SlotSteps DEF SlotStep

\* While they talk, only the submission and the coordinator's own moves touch
\* the slot, the channel and the place in the coordinator.
LEMMA ChatSteps ==
  ASSUME DaemonInv, TalkInv, [Next]_vars, lpc' \in Chatting
  PROVE  /\ UNCHANGED slot
         /\ \/ Elsewhere
            \/ SubmitEnqueue /\ lpc' = "wait"
            \/ lpc \in Chatting /\ Moves
<1> USE DEF Chatting
<1>1. CASE Elsewhere
  BY <1>1 DEF Elsewhere, manager
<1>2. CASE ListenerStep \/ AcceptLoopFails
  <2>1. ~(Comes \/ Halts \/ Begins \/ Leaves \/ Requests)
    BY DEF Comes, Halts, Begins, Leaves, Requests
  <2>2. CASE Submits
    <3>1. ~SubmitAcquire /\ ~SubmitReserve
      BY DEF SubmitAcquire, SubmitReserve, Goto
    <3>2. UNCHANGED slot /\ lpc' = "wait"
      BY <2>2, <3>1 DEF Submits, SubmitEnqueue, Goto, manager
    <3> QED BY <2>2, <3>1, <3>2 DEF Submits
  <2>3. CASE Moves
    <3>1. lpc \in Chatting
      BY <2>3 DEF Moves, Attending
    <3>2. slot # Idle /\ slot' # Idle
      BY <3>1, TalkNext DEF TalkInv, Talking, SlotIsPeers
    <3> QED BY <2>3, <3>1, <3>2, SlotSteps DEF SlotStep
  <2> QED BY <1>2, <2>1, <2>2, <2>3, ListenerKinds
<1> QED BY <1>1, <1>2, Others

\* Nothing is left of a job that is over.
LEMMA LeavesNothing ==
  ASSUME DaemonInv, FreshInv, [Next]_vars
  PROVE  wjob' = 0 => captured' = NoCapture /\ result' = NoResult
<1> USE DEF DaemonInv, LeaseInv, InJob, Unreported, FreshInv
<1>1. CASE ListenerStep \/ AcceptLoopFails
  BY <1>1, ListenerKinds DEF Comes, Halts, Begins, Leaves, Requests, Moves, Quiet,
       Submits, SubmitAcquire, SubmitReserve, SubmitEnqueue, worker
<1>2. CASE WorkerChecks \/ WaitTimeout \/ RequestChannelCloses \/ TakeRequest
           \/ WorkerStops \/ ReleaseActive
  BY <1>2 DEF WorkerChecks, WaitTimeout, RequestChannelCloses, TakeRequest,
       WorkerStops, ReleaseActive
<1>3. CASE BeginJob \/ ReportProgress \/ FinishJob \/ RecheckCancelled
           \/ ReportResult \/ CapturePair
  BY <1>3 DEF BeginJob, ReportProgress, FinishJob, RecheckCancelled, ReportResult,
       CapturePair
<1>4. CASE DropRequest
  BY <1>4 DEF DropRequest
<1>5. CASE ClientStep \/ Tick \/ RequestShutdown \/ UNCHANGED vars
  BY <1>5 DEF ClientStep, Disconnect, Tick, RequestShutdown, vars, worker
<1> QED
  BY <1>1, <1>2, <1>3, <1>4, <1>5 DEF Next, WorkerStep

\* An update that joins the channel, or one that leaves it.
LEMMA EvidenceJoins ==
  ASSUME NEW S, NEW u \in Seq(S), NEW r, NEW from,
         \A i \in 1..Len(u) : u[i].kind = "Evidence" => from <= u[i].at,
         r.kind = "Evidence" => from <= r.at
  PROVE  \A i \in 1..Len(Append(u, r)) :
           Append(u, r)[i].kind = "Evidence" => from <= Append(u, r)[i].at
<1> DEFINE v == Append(u, r)
<1>1. /\ Len(u) \in Nat /\ Len(v) = Len(u) + 1 /\ v[Len(u) + 1] = r
      /\ \A i \in 1..Len(u) : v[i] = u[i]
  BY AppendShape
<1> HIDE DEF v
<1> SUFFICES ASSUME NEW i \in 1..Len(v), v[i].kind = "Evidence"
    PROVE  from <= v[i].at
  BY DEF v
<1>2. CASE i = Len(u) + 1
  BY <1>1, <1>2
<1>3. CASE i # Len(u) + 1
  BY <1>1, <1>3
<1> QED BY <1>2, <1>3

LEMMA EvidenceLeaves ==
  ASSUME NEW S, NEW u \in Seq(S), u # <<>>, NEW from,
         \A i \in 1..Len(u) : u[i].kind = "Evidence" => from <= u[i].at
  PROVE  \A i \in 1..Len(Tail(u)) :
           Tail(u)[i].kind = "Evidence" => from <= Tail(u)[i].at
<1>1. \A i \in 1..Len(Tail(u)) : i + 1 \in 1..Len(u) /\ Tail(u)[i] = u[i + 1]
  OBVIOUS
<1> QED BY <1>1

\* The evidence there is while the coordinator serves a session.
LEMMA FreshNext ==
  ASSUME DaemonInv, TalkInv, EvidenceInv, [Next]_vars, lpc' \in Chatting
  PROVE  /\ attached' = Token'
         /\ captured' # NoCapture => Begun' <= captured'
         /\ result'.kind = "Evidence" => Begun' <= result'.at
         /\ \A i \in 1..Len(updates') :
              updates'[i].kind = "Evidence" => Begun' <= updates'[i].at
<1> USE DEF EvidenceInv, FreshInv
<1>1. UNCHANGED slot /\ Token' = Token /\ Begun' = Begun
  BY ChatSteps DEF Token, Begun
<1>2. updates \in Seq(AnyUpdate)
  BY DEF DaemonInv, DataInv
<1>3. NoResult.kind # "Evidence" /\ Failure.kind # "Evidence"
      /\ ProgressUpdate.kind # "Evidence"
  BY DEF NoResult, Failure, ProgressUpdate
<1>4. CASE SubmitEnqueue /\ lpc' = "wait"
  <2>1. wjob = 0
    BY <1>4 DEF SubmitEnqueue, DaemonInv, LeaseInv, Submitting
  <2>2. /\ attached' = Token /\ updates' = <<>> /\ UNCHANGED <<captured, result>>
    BY <1>4 DEF SubmitEnqueue, Goto, worker
  <2> QED BY <1>1, <1>3, <2>1, <2>2
<1>5. CASE lpc \in Chatting /\ Moves
  <2>1. UNCHANGED <<attached, captured, result>>
    BY <1>5 DEF Moves, Quiet
  <2>2. CASE updates' = updates
    BY <1>1, <1>5, <2>1, <2>2
  <2>3. CASE updates # <<>> /\ updates' = Tail(updates)
    <3>1. \A i \in 1..Len(Tail(updates)) :
            Tail(updates)[i].kind = "Evidence" => Begun <= Tail(updates)[i].at
      BY <1>2, <1>5, <2>3, EvidenceLeaves
    <3> QED BY <1>1, <1>5, <2>1, <2>3, <3>1
  <2> QED BY <1>5, <2>2, <2>3 DEF Moves
<1>6. CASE Elsewhere
  <2>1. UNCHANGED <<lpc, attached>>
    BY <1>6 DEF Elsewhere
  <2>2. CASE WorkerChecks \/ WaitTimeout \/ RequestChannelCloses \/ TakeRequest
             \/ WorkerStops \/ ReleaseActive \/ RequestShutdown
             \/ UNCHANGED <<worker, engine, shutdown>>
    BY <1>1, <2>1, <2>2 DEF WorkerChecks, WaitTimeout, RequestChannelCloses,
         TakeRequest, WorkerStops, ReleaseActive, RequestShutdown, worker, engine
  <2>3. CASE BeginJob \/ RecheckCancelled
    <3>1. /\ result' \in {result, Failure} /\ UNCHANGED <<captured, updates>>
      BY <2>3 DEF BeginJob, RecheckCancelled, engine
    <3> QED BY <1>1, <1>3, <2>1, <3>1
  <2>4. CASE CapturePair
    <3>1. slot # Idle
      BY <2>1 DEF TalkInv, Talking, Chatting, SlotIsPeers
    <3>2. Begun <= clock /\ captured' = clock /\ UNCHANGED <<result, updates>>
      BY <2>4, <3>1 DEF CapturePair, SessionInv, engine
    <3> QED BY <1>1, <2>1, <3>2
  <2>5. CASE ReportProgress
    <3>1. /\ result' \in {result, Failure} /\ UNCHANGED captured
          /\ updates' \in {updates, Append(updates, ProgressUpdate)}
      BY <2>5 DEF ReportProgress
    <3>2. \A i \in 1..Len(Append(updates, ProgressUpdate)) :
            Append(updates, ProgressUpdate)[i].kind = "Evidence" =>
              Begun <= Append(updates, ProgressUpdate)[i].at
      BY <1>2, <1>3, <2>1, EvidenceJoins
    <3> QED BY <1>1, <1>3, <2>1, <3>1, <3>2
  <2>6. CASE FinishJob
    <3>1. /\ \/ result' = Failure
             \/ captured # NoCapture /\ result'.at = captured
          /\ UNCHANGED <<captured, updates>>
      BY <2>6 DEF FinishJob, Evidence, engine
    <3> QED BY <1>1, <1>3, <2>1, <3>1
  <2>7. CASE ReportResult
    <3>1. /\ UNCHANGED <<captured, result>>
          /\ updates' \in {updates, Append(updates, result)}
      BY <2>7 DEF ReportResult
    <3>2. \A i \in 1..Len(Append(updates, result)) :
            Append(updates, result)[i].kind = "Evidence" =>
              Begun <= Append(updates, result)[i].at
      BY <1>2, <2>1, EvidenceJoins
    <3> QED BY <1>1, <2>1, <3>1, <3>2
  <2>8. CASE DropRequest
    BY <1>1, <1>3, <2>1, <2>8 DEF DropRequest
  <2> QED BY <1>6, <2>2, <2>3, <2>4, <2>5, <2>6, <2>7, <2>8 DEF Elsewhere, WorkerStep
<1> QED BY <1>4, <1>5, <1>6, ChatSteps

LEMMA EvidenceNext ==
  DaemonInv /\ TalkInv /\ EvidenceInv /\ [Next]_vars => EvidenceInv'
BY SessionNext, LeavesNothing, FreshNext DEF EvidenceInv, FreshInv, Chatting

LEMMA EvidenceStarts == Init => EvidenceInv
BY DEF Init, SM!ManagerInit, EvidenceInv, SessionInv, FreshInv, Chatting

-------------------------------------------------------------------------------

\* A response that does not accept anybody.
Spares(r) == r.kind # "Completed" \/ r.decision # "Accepted"

\* The response that was appended is the one that was written.
LEMMA WrittenIs ==
  ASSUME NEW S, output \in Seq(S), NEW r, NEW x, Respond(x), Writes(r)
  PROVE  Delivers /\ x = r
<1>1. Len(Append(output, r)) # Len(output)
  BY AppendShape
<1>2. Delivers
  BY <1>1 DEF Respond, Writes
<1>3. Append(output, x) = Append(output, r)
  BY <1>2 DEF Respond, Writes
<1>4. Append(output, x)[Len(output) + 1] = x /\ Append(output, r)[Len(output) + 1] = r
  BY AppendShape
<1> QED BY <1>2, <1>3, <1>4

LEMMA FinishSpares ==
  ASSUME NEW d, d # "Accepted", NEW at, SM!Finish(d, at)
  PROVE  Spares(reply') /\ BoundaryReply(reply') = reply'
BY FinishSays DEF SM!Finish, SM!TakeTerminal, SM!Completed, Spares

LEMMA RefusalSpares ==
  ASSUME NEW e, SM!Refuse(e) PROVE Spares(BoundaryReply(reply'))
BY DEF SM!Refuse, SM!Failed, BoundaryReply, Rejection, Spares

\* No frame is answered with an acceptance.
LEMMA HandleSpares ==
  ASSUME HandleOne PROVE \E x : Respond(x) /\ Spares(x)
<1>1. CASE HandleUnauthorized
  BY <1>1 DEF HandleUnauthorized, Spares
<1>2. CASE HandleAuthenticate
  <2>1. SM!Start(peer, peer, sampled) /\ Respond(BoundaryReply(reply'))
    BY <1>2 DEF HandleAuthenticate
  <2>2. (\E e : SM!Refuse(e)) \/ reply' = SM!Started(peer)
    BY <2>1 DEF SM!Start
  <2>3. reply' = SM!Started(peer) => Spares(BoundaryReply(reply'))
    BY DEF SM!Started, BoundaryReply, Spares
  <2> QED BY <2>1, <2>2, <2>3, RefusalSpares
<1>3. CASE HandleCancel
  <2>1. (\E t : SM!Cancel(peer, t, sampled)) /\ Respond(BoundaryReply(reply'))
    BY <1>3 DEF HandleCancel
  <2>2. (\E e : SM!Refuse(e)) \/ SM!Finish("Cancelled", sampled)
    BY <2>1 DEF SM!Cancel, SM!RefuseUnbound
  <2>3. Spares(BoundaryReply(reply'))
    BY <2>2, RefusalSpares, FinishSpares
  <2> QED BY <2>1, <2>3
<1> QED BY <1>1, <1>2, <1>3 DEF HandleOne

LEMMA AcceptedIs ==
  ASSUME NEW c
  PROVE  ~Spares(SM!Completed(c, "Accepted"))
BY DEF Spares, SM!Completed

\* The completion with evidence alone writes an acceptance.
LEMMA OnlyEvidenceAccepts ==
  ASSUME DaemonInv, TalkInv, [Next]_vars, NEW c, Writes(SM!Completed(c, "Accepted"))
  PROVE  CompleteWithEvidence
<1> DEFINE r == SM!Completed(c, "Accepted")
<1>0. \E S : output \in Seq(S)
  BY DEF TalkInv
<1>1. output' # output /\ output' # <<>>
  BY <1>0, AppendShape DEF Writes
<1>2. \A x : Respond(x) => ~Spares(x)
  BY <1>0, WrittenIs, AcceptedIs
<1>3. CASE \/ WorkerStep \/ CapturePair \/ ClientStep \/ Tick \/ RequestShutdown
           \/ UNCHANGED vars
  <2>1. UNCHANGED output
    BY <1>3 DEF WorkerStep, WorkerChecks, WaitTimeout, RequestChannelCloses,
         TakeRequest, WorkerStops, BeginJob, ReportProgress, FinishJob,
         RecheckCancelled, ReportResult, ReleaseActive, DropRequest, CapturePair,
         ClientStep, Disconnect, Tick, RequestShutdown, vars, sockets
  <2> QED BY <1>1, <2>1
<1>4. CASE \/ (\E d \in Clients : Accept(d)) \/ AcceptLoopStops \/ AcceptLoopFails
           \/ AdmitFails \/ Submits \/ EngineFailed \/ UpdateTimeout \/ PollClient
           \/ DrainRound \/ DrainGivesUp \/ PollFails \/ RequestFatal
  <2>1. output' \in {<<>>, output}
    BY <1>4 DEF Accept, AcceptLoopStops, AcceptLoopFails, AdmitFails, ReadFails,
         Submits, SubmitAcquire, SubmitReserve, SubmitEnqueue, EngineFailed,
         UpdateTimeout, PollClient, DrainRound, DrainGivesUp, PollFails,
         RequestFatal, sockets
  <2> QED BY <1>1, <2>1
<1>5. CASE AdmitFrame \/ ServeFrame \/ ServeFails
  <2>1. HandleOne \/ output' = output
    BY <1>5 DEF AdmitFrame, ServeFrame, ServeFails, ReadFails, sockets
  <2> QED BY <1>1, <1>2, <2>1, HandleSpares
<1>6. CASE GiveUp
  <2>1. SlotIsPeers
    BY <1>6, TalkShape DEF GiveUp, Talking
  <2>2. SM!Finish("InternalError", clock)
    BY <1>6, <2>1, CompleteEnds DEF GiveUp, SM!ReservedDecisions
  <2> QED BY <1>2, <1>6, <2>2, FinishSpares DEF GiveUp
<1>7. CASE RelayProgress
  <2>1. SlotIsPeers
    BY <1>7, TalkShape DEF RelayProgress, Talking
  <2>2. Spares(reply')
    BY <1>7, <2>1, PeerIsBound DEF RelayProgress, SM!Progress, SM!TakeTerminal,
       SM!Completed, SM!Progressed, Spares
  <2> QED BY <1>2, <1>7, <2>2 DEF RelayProgress
<1> QED
  BY <1>3, <1>4, <1>5, <1>6, <1>7 DEF Next, ListenerStep, Submits

\* An acceptance is the answer to evidence captured for this very session, in
\* its lifetime, while nothing had cancelled it: nothing of an earlier job, or
\* of a session that ended, can be accepted (send_derived_completion, run_job).
THEOREM AcceptancesEarned == Spec => AcceptanceIsEarned
<1> DEFINE Earned ==
      \A c \in Clients : Writes(SM!Completed(c, "Accepted")) =>
       /\ peer = c /\ slot # Idle /\ slot.connection = c
       /\ attached = Token /\ Token \notin signalled
       /\ Head(updates).match
       /\ Head(updates).at \in (slot.deadline - Duration)..(slot.deadline - 1)
<1>1. ASSUME DaemonInv, TalkInv, EvidenceInv, [Next]_vars PROVE Earned
  <2> SUFFICES ASSUME NEW c \in Clients, Writes(SM!Completed(c, "Accepted"))
      PROVE  /\ peer = c /\ slot # Idle /\ slot.connection = c
             /\ attached = Token /\ Token \notin signalled
             /\ Head(updates).match
             /\ Head(updates).at \in (slot.deadline - Duration)..(slot.deadline - 1)
    OBVIOUS
  <2>1. CompleteWithEvidence
    BY <1>1, OnlyEvidenceAccepts
  <2>2. /\ lpc = "wait" /\ Respond(reply') /\ SlotIsPeers
        /\ updates # <<>> /\ updates \in Seq(AnyUpdate) /\ Head(updates).kind = "Evidence"
    BY <1>1, <2>1, TalkShape DEF CompleteWithEvidence, Talking, DaemonInv, DataInv
  <2>3. PICK d \in DecisionsFor(Head(updates).match) :
          SM!Complete(peer, peer, d, Head(updates).at)
    BY <2>1 DEF CompleteWithEvidence
  <2>4. SM!Finish(d, Head(updates).at)
    BY <2>2, <2>3, CompleteEnds DEF DecisionsFor, SM!ReservedDecisions
  <2>5. reply' = SM!Completed(c, "Accepted")
    BY <1>1, <2>2, WrittenIs DEF TalkInv
  <2>6. /\ d = "Accepted" /\ slot.transaction = c /\ ~(Head(updates).at >= slot.deadline)
    BY <2>4, <2>5 DEF SM!Finish, SM!TakeTerminal, SM!Completed, SM!DeadlineReached
  <2>7. Head(updates).match
    BY <2>3, <2>6 DEF DecisionsFor
  <2>8. attached = Token /\ Begun <= Head(updates).at
    <3>1. Head(updates) = updates[1] /\ 1 \in 1..Len(updates)
      BY <2>2
    <3> QED BY <1>1, <2>2, <3>1 DEF EvidenceInv, FreshInv, Chatting
  <2>9. Head(updates).at \in Int
    <3>1. Head(updates) \in AnyUpdate
      BY <2>2
    <3> QED BY <2>2, <3>1
        DEF AnyUpdate, ProgressUpdate, Failure, NoResult, Evidence
  <2>10. slot # Idle /\ Token \notin signalled /\ slot.deadline \in Int /\ Duration \in Nat
    BY <1>1, <2>2, SlotAssumption DEF EvidenceInv, SessionInv, SlotIsPeers
  <2>11. Head(updates).at \in (slot.deadline - Duration)..(slot.deadline - 1)
    BY <2>6, <2>8, <2>9, <2>10 DEF Begun
  <2> QED BY <2>2, <2>6, <2>7, <2>8, <2>10, <2>11 DEF SlotIsPeers
<1>2. DaemonInv /\ TalkInv /\ EvidenceInv /\ [Next]_vars
        => (DaemonInv /\ TalkInv /\ EvidenceInv)'
  BY DaemonGoesOn, TalkNext, EvidenceNext
<1>3. DaemonInv /\ TalkInv /\ EvidenceInv /\ [Next]_vars => [Earned]_vars
  BY <1>1
<1> QED
  BY DaemonStarts, TalkStarts, EvidenceStarts, <1>2, <1>3, PTL
  DEF Spec, AcceptanceIsEarned

-------------------------------------------------------------------------------
(***************************************************************************)
(* The job that nobody waits for.                                          *)
(***************************************************************************)

\* Whoever drains has signalled the job's token.  A handler that leaves a job
\* behind with its token unset has found its client gone.
OrphanInv ==
  /\ lpc = "drain" => attached \in signalled
  /\ lpc = "fatal" /\ Pending => Job \in signalled \/ ~Delivers

\* The listener comes to drain from the session it attends, which it ends.
LEMMA DrainSignals ==
  ASSUME DaemonInv, TalkInv, EvidenceInv, OrphanInv, [Next]_vars, lpc' = "drain"
  PROVE  attached' \in signalled'
<1>1. signalled \subseteq signalled'
  BY SlotSteps DEF SlotStep
<1>2. CASE Elsewhere
  BY <1>1, <1>2 DEF Elsewhere, OrphanInv
<1>3. CASE ListenerStep \/ AcceptLoopFails
  <2>1. Moves
    BY <1>3, ListenerKinds DEF Comes, Halts, Begins, Leaves, Requests, Submits,
       SubmitAcquire, SubmitReserve, SubmitEnqueue, Goto
  <2>2. CASE lpc = "drain"
    BY <1>1, <2>1, <2>2 DEF Moves, OrphanInv
  <2>3. CASE lpc \in Chatting
    <3>1. slot # Idle /\ attached = slot.token
      BY <2>3 DEF TalkInv, Talking, Chatting, SlotIsPeers, EvidenceInv, FreshInv, Token
    <3>2. slot' = Idle
      BY TalkNext DEF TalkInv
    <3>3. signalled' = signalled \cup {slot.token}
      BY <3>1, <3>2, SlotSteps DEF SlotStep
    <3> QED BY <2>1, <3>1, <3>3 DEF Moves
  <2> QED BY <2>1, <2>2, <2>3 DEF Moves, Attending, Chatting
<1> QED BY <1>2, <1>3, Others

\* The handler leaves a job behind only for a client that is gone, or after it
\* has drained.
LEMMA LeftBehind ==
  ASSUME DaemonInv, OrphanInv, ListenerStep \/ AcceptLoopFails, Pending,
         lpc' = "fatal"
  PROVE  /\ UNCHANGED <<wpc, wjob, queue>>
         /\ Job \in signalled' \/ ~Delivers'
<1>1. Leaves /\ ~Submits
  BY ListenerKinds DEF Comes, Halts, Begins, Requests, Moves, Attending, Submits,
     SubmitAcquire, SubmitReserve, SubmitEnqueue, Goto
<1>2. UNCHANGED <<wpc, wjob, queue>>
  BY <1>1 DEF Leaves, Quiet
<1>3. lpc \in Attending /\ attached = Job
  BY <1>1, NonePending DEF Leaves, DaemonInv, AttendedInv, Away, Attending
<1>4. CASE lpc = "drain"
  <2>1. UNCHANGED manager
    BY <1>4 DEF ListenerStep, Accept, AcceptLoopStops, AcceptLoopFails, AdmitFrame,
       AdmitFails, SubmitAcquire, SubmitReserve, SubmitEnqueue, GiveUp,
       RelayProgress, CompleteWithEvidence, EngineFailed, UpdateTimeout,
       PollClient, ServeFrame, ServeFails, PollFails, DrainRound, DrainGivesUp,
       RequestFatal
  <2> QED BY <1>2, <1>3, <1>4, <2>1 DEF OrphanInv, manager
<1>5. CASE lpc # "drain"
  <2>1. RelayProgress \/ CompleteWithEvidence
    BY <1>1, <1>3, <1>5 DEF Attending, ListenerStep, Accept, AcceptLoopStops,
       AcceptLoopFails, AdmitFrame, AdmitFails, Submits, GiveUp, EngineFailed,
       UpdateTimeout, PollClient, ServeFrame, ServeFails, PollFails, DrainRound,
       DrainGivesUp, RequestFatal, Goto, Drain, EnterHandler
  <2>2. UNCHANGED reads /\ \E ok : Return(ok) /\ (~ok => ~Delivers)
    BY <2>1 DEF RelayProgress, CompleteWithEvidence, Drain
  <2>3. ~Delivers /\ UNCHANGED <<reads, peer>>
    BY <2>2 DEF Return
  <2> QED BY <1>2, <2>3 DEF Delivers
<1> QED BY <1>4, <1>5

\* Who stopped reading does not come back.
LEMMA ReadersLeave ==
  ASSUME DaemonInv, [Next]_vars PROVE reads' \subseteq reads
<1>1. CASE WorkerStep \/ CapturePair \/ Tick \/ RequestShutdown \/ UNCHANGED vars
  BY <1>1 DEF WorkerStep, WorkerChecks, WaitTimeout, RequestChannelCloses,
       TakeRequest, WorkerStops, BeginJob, ReportProgress, FinishJob,
       RecheckCancelled, ReportResult, ReleaseActive, DropRequest, CapturePair,
       Tick, RequestShutdown, vars, sockets
<1>2. CASE ClientStep
  BY <1>2 DEF ClientStep, Disconnect
<1>3. CASE \/ (\E c \in Clients : Accept(c)) \/ AcceptLoopStops \/ AcceptLoopFails
           \/ AdmitFails \/ Submits \/ EngineFailed \/ UpdateTimeout \/ PollClient
           \/ DrainRound \/ DrainGivesUp \/ PollFails \/ RequestFatal
           \/ GiveUp \/ RelayProgress \/ CompleteWithEvidence
  BY <1>3 DEF Accept, AcceptLoopStops, AcceptLoopFails, AdmitFails, ReadFails,
       Submits, SubmitAcquire, SubmitReserve, SubmitEnqueue, EngineFailed,
       UpdateTimeout, PollClient, DrainRound, DrainGivesUp, PollFails,
       RequestFatal, GiveUp, RelayProgress, CompleteWithEvidence, sockets
<1>4. CASE AdmitFrame \/ ServeFrame \/ ServeFails
  <2>1. HandleOne \/ TakeFrame \/ ReadFails
    BY <1>4 DEF AdmitFrame, ServeFrame, ServeFails
  <2> QED BY <2>1, HandleAnswers DEF TakeFrame, ReadFails, sockets, DaemonInv, DataInv
<1> QED
  BY <1>1, <1>2, <1>3, <1>4 DEF Next, ListenerStep, Submits

LEMMA OrphanNext ==
  ASSUME DaemonInv, TalkInv, EvidenceInv, OrphanInv, [Next]_vars
  PROVE  OrphanInv'
<1> SUFFICES ASSUME lpc' = "fatal", Pending' PROVE (Job \in signalled \/ ~Delivers)'
  BY DrainSignals DEF OrphanInv
<1> USE DEF Pending, Job, Unreported
<1>1. CASE ListenerStep \/ AcceptLoopFails
  <2>1. UNCHANGED <<wpc, wjob, queue>>
    BY <1>1, ListenerKinds DEF Comes, Halts, Begins, Leaves, Requests, Moves, Quiet,
       Submits, SubmitAcquire, SubmitReserve, SubmitEnqueue, Goto
  <2>2. Pending /\ Job' = Job
    BY <2>1
  <2> QED BY <1>1, <2>2, LeftBehind
<1>2. CASE Elsewhere
  <2>1. lpc = "fatal" /\ UNCHANGED <<signalled, peer>> /\ reads' \subseteq reads
    BY <1>2, ReadersLeave DEF Elsewhere, manager
  <2>2. Pending /\ Job' = Job
    BY <1>2 DEF Elsewhere, WorkerStep, worker, engine, WorkerChecks, WaitTimeout,
       RequestChannelCloses, TakeRequest, WorkerStops, BeginJob, ReportProgress,
       FinishJob, RecheckCancelled, ReportResult, ReleaseActive, DropRequest,
       CapturePair, RequestShutdown, DaemonInv, LeaseInv, InJob
  <2> QED BY <2>1, <2>2 DEF OrphanInv, Delivers
<1> QED BY <1>1, <1>2, Others

\* A job that nobody waits for is a cancelled one: whatever takes the
\* coordinator away signals the job's token or shuts the daemon down.  Only the
\* failed write of a progress response does so one step late: in between the
\* job of a client that is gone runs on (coordinate_started_authentication, the
\* listener's handler).
THEOREM OrphansCancelled == Spec => []OrphanIsCancelled
<1> DEFINE Inv == DaemonInv /\ TalkInv /\ EvidenceInv /\ OrphanInv
<1>1. DaemonInv /\ OrphanInv => OrphanIsCancelled
  BY DEF DaemonInv, AttendedInv, LeaseInv, Pending, Job, Attending, Away,
         Unreported, InJob, OrphanInv, Doomed, OrphanIsCancelled, Cancelled
<1>2. Init => OrphanInv
  BY DEF Init, OrphanInv
<1>3. Inv /\ [Next]_vars => Inv'
  BY DaemonGoesOn, TalkNext, EvidenceNext, OrphanNext
<1> QED
  BY DaemonStarts, TalkStarts, EvidenceStarts, <1>1, <1>2, <1>3, PTL DEF Spec

===============================================================================
