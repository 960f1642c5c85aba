------------------------------- MODULE Supervisor -----------------------------
(***************************************************************************)
(* The service supervisor of faceauth-daemon and its shutdown token.       *)
(*                                                                         *)
(* Threads: the main thread, which spawns the services and runs run_until, *)
(* and one thread per service.  A blocking service looks at the token's    *)
(* flag; a waiting service awaits the token's future, whose waker the      *)
(* requester of the shutdown takes out of a list under a lock.  The        *)
(* channel of service events is a set: its order only decides which of     *)
(* several failures is the one reported.                                   *)
(*                                                                         *)
(* Slip definitions are deliberate errors, as in SessionManager.           *)
(***************************************************************************)
EXTENDS Naturals

CONSTANTS
  Services,     \* the supervised services
  Waiting,      \* those that await the token's future
  Cooperative,  \* those that return once they see the request
  Grace,        \* SupervisorConfig::shutdown_grace, in clock ticks
  Main,         \* the main thread
  Nobody        \* no thread

ASSUME SupervisorAssumption ==
  /\ Waiting \subseteq Services
  /\ Cooperative \subseteq Services
  /\ Grace \in Nat \ {0}
  /\ Main \notin Services
  /\ Nobody \notin Services \cup {Main}

VARIABLES
  requested,  \* ShutdownState::requested
  drainer,    \* the thread that made the request and has yet to wake waiters
  waiters,    \* ShutdownState::waiters: services whose waker is in the list
  registered, \* services whose future holds a waker
  woken,      \* services whose waker was called since they last polled
  place,      \* where each service thread stands
  outcome,    \* how each service returned
  events,     \* service events not yet received
  stopped,    \* services the supervisor has joined
  early,      \* history: services that returned before the request
  main,       \* where the main thread stands
  pending,    \* the first failure received
  elapsed,    \* ticks since shutdown_started, capped at Grace
  started,    \* shutdown_started is set
  notice,     \* history: ticks since the request, capped at Grace
  verdict     \* what the supervisor returned

token == <<requested, drainer, waiters, registered, woken>>
threads == <<place, outcome, events, early>>
supervisor == <<stopped, main, pending, started, verdict>>
times == <<elapsed, notice>>
vars == <<token, threads, supervisor, times>>

Outcomes == {"Completed", "Failed", "Panicked"}
Failures == {"Exited", "Failed", "Panicked"}
Places == {"unborn", "running", "poll", "register", "look", "parked", "ready",
           "returned"}

Init ==
  /\ requested = FALSE
  /\ drainer = Nobody
  /\ waiters = {}
  /\ registered = {}
  /\ woken = {}
  /\ place = [s \in Services |-> "unborn"]
  /\ outcome = [s \in Services |-> "none"]
  /\ events = {}
  /\ stopped = {}
  /\ early = {}
  /\ main = "spawn"
  /\ pending = "none"
  /\ elapsed = 0
  /\ started = FALSE
  /\ notice = 0
  /\ verdict = "none"

-------------------------------------------------------------------------------
(***************************************************************************)
(* The shutdown token.                                                     *)
(***************************************************************************)

\* Thread t sets the flag.  The first to do so goes on to wake the waiters.
Request(t) ==
  /\ requested' = TRUE
  /\ drainer' = IF requested THEN drainer ELSE t

\* Its second half: the list is emptied under the lock, every waker called.
Drain ==
  /\ drainer # Nobody
  /\ drainer' = Nobody
  /\ woken' = woken \cup waiters
  /\ waiters' = {}
  /\ UNCHANGED <<requested, registered, threads, supervisor, times>>

\* A thread in the middle of its request does nothing else.
Free(t) == drainer # t

Moves(s, to) == place' = [place EXCEPT ![s] = to]

\* ShutdownFuture::poll, first look at the flag.
PollFuture(s) ==
  /\ Free(s)
  /\ place[s] = "poll"
  /\ Moves(s, IF requested THEN "ready" ELSE "register")
  /\ UNCHANGED <<token, outcome, events, early, supervisor, times>>

\* The waker is registered under the lock, unless the flag was set meanwhile or
\* the future holds a waker already.
RegisterWaker(s) ==
  /\ Free(s)
  /\ place[s] = "register"
  /\ \/ /\ s \in registered
        /\ Moves(s, "look")
        /\ UNCHANGED <<waiters, registered>>
     \/ /\ s \notin registered
        /\ requested
        /\ Moves(s, "ready")
        /\ UNCHANGED <<waiters, registered>>
     \/ /\ s \notin registered
        /\ ~requested
        /\ waiters' = waiters \cup {s}
        /\ registered' = registered \cup {s}
        /\ Moves(s, "look")
  /\ UNCHANGED <<requested, drainer, woken, outcome, events, early, supervisor,
                 times>>

\* The last look at the flag before Pending is returned.
LookAgain(s) ==
  /\ Free(s)
  /\ place[s] = "look"
  /\ Moves(s, IF requested THEN "ready" ELSE "parked")
  /\ UNCHANGED <<token, outcome, events, early, supervisor, times>>

\* The executor polls again when the waker was called.
Wake(s) ==
  /\ place[s] = "parked"
  /\ s \in woken
  /\ woken' = woken \ {s}
  /\ Moves(s, "poll")
  /\ UNCHANGED <<requested, drainer, waiters, registered, outcome, events,
                 early, supervisor, times>>

\* It also polls when the service's other work, joined to the future by
\* select, has something to do.
OtherWork(s) ==
  /\ place[s] = "parked"
  /\ Moves(s, "poll")
  /\ UNCHANGED <<token, outcome, events, early, supervisor, times>>

-------------------------------------------------------------------------------
(***************************************************************************)
(* The service threads.                                                    *)
(***************************************************************************)

\* The task of service s ends, and its event is sent.
Returns(s, how) ==
  /\ Moves(s, "returned")
  /\ outcome' = [outcome EXCEPT ![s] = how]
  /\ events' = events \cup {s}
  /\ early' = IF requested THEN early ELSE early \cup {s}
  /\ UNCHANGED <<token, supervisor, times>>

\* A service ends by itself: it fails, unwinds, or simply returns.
Ends(s) ==
  /\ Free(s)
  /\ place[s] \in {"running", "parked"}
  /\ \E how \in Outcomes : Returns(s, how)

\* A service ends because it saw the request.
Stops(s) ==
  /\ Free(s)
  /\ \/ place[s] = "running" /\ requested
     \/ place[s] = "ready"
  /\ \E how \in {"Completed", "Failed"} : Returns(s, how)

\* A service requests the shutdown and goes on, as the listener does when a
\* handler fails.
Requests(s) ==
  /\ place[s] = "running"
  /\ ~requested
  /\ Request(s)
  /\ UNCHANGED <<waiters, registered, woken, threads, supervisor, times>>

-------------------------------------------------------------------------------
(***************************************************************************)
(* The main thread.                                                        *)
(***************************************************************************)

\* The supervisor is consumed; dropping it requests the shutdown.
Leaves(result) ==
  /\ main' = "returned"
  /\ verdict' = result
  /\ Request(Main)

Spawn(s) ==
  /\ main = "spawn"
  /\ place[s] = "unborn"
  /\ ~requested
  /\ Moves(s, IF s \in Waiting THEN "poll" ELSE "running")
  /\ UNCHANGED <<token, outcome, events, early, supervisor, times>>

\* A service cannot be spawned: the shutdown was requested, or the system
\* refused the thread.  Those already spawned are detached.
SpawnFails ==
  /\ main = "spawn"
  /\ \E s \in Services : place[s] = "unborn"
  /\ Leaves("Refused")
  /\ UNCHANGED <<waiters, registered, woken, threads, stopped, pending, started,
                 times>>

RunUntil ==
  /\ main = "spawn"
  /\ \A s \in Services : place[s] # "unborn"
  /\ main' = "outside"
  /\ UNCHANGED <<token, threads, stopped, pending, started, verdict, times>>

\* shutdown_started is set to the present.
StartGrace == started' = TRUE /\ elapsed' = 0

\* The external callback asks for the shutdown, or does not.
AskOutside ==
  /\ main = "outside"
  /\ main' = "receive"
  /\ \/ ~requested /\ Request(Main) /\ StartGrace
     \/ UNCHANGED <<requested, drainer, started, elapsed>>
  /\ UNCHANGED <<waiters, registered, woken, threads, stopped, pending, verdict,
                 notice>>

\* A return without error counts as a failure only before the request.
FailureOf(s) ==
  CASE outcome[s] # "Completed" -> outcome[s]
    [] outcome[s] = "Completed" /\ ~requested -> "Exited"
    [] OTHER -> "none"

\* pending_failure after the event of service s: the first failure stays.
Keeps(s) == IF pending = "none" THEN FailureOf(s) ELSE pending

\* An event is received and its thread joined.  A failure requests shutdown.
ReceiveEvent(s) ==
  /\ main = "receive"
  /\ Free(Main)
  /\ s \in events
  /\ events' = events \ {s}
  /\ stopped' = stopped \cup {s}
  /\ pending' = Keeps(s)
  /\ \/ pending' # "none" /\ ~requested /\ Request(Main) /\ StartGrace
     \/ /\ pending' = "none" \/ requested
        /\ UNCHANGED <<requested, drainer, started, elapsed>>
  /\ main' = "check"
  /\ UNCHANGED <<waiters, registered, woken, place, outcome, early, verdict,
                 notice>>

ReceiveTimeout ==
  /\ main = "receive"
  /\ Free(Main)
  /\ events = {}
  /\ main' = "check"
  /\ UNCHANGED <<token, threads, stopped, pending, started, verdict, times>>

\* Every service was joined.
Report ==
  /\ main = "check"
  /\ Free(Main)
  /\ stopped = Services
  /\ Leaves(IF pending = "none" THEN "Ok" ELSE pending)
  /\ UNCHANGED <<waiters, registered, woken, threads, stopped, pending, started,
                 times>>

\* The grace period is over and services remain.
GiveUp ==
  /\ main = "check"
  /\ Free(Main)
  /\ stopped # Services
  /\ started
  /\ elapsed >= Grace
  /\ Leaves("Timeout")
  /\ UNCHANGED <<waiters, registered, woken, threads, stopped, pending, started,
                 times>>

\* The grace period is that of the supervisor's own requests alone.
SlipGoOnWaits ==
  /\ main = "check"
  /\ Free(Main)
  /\ stopped # Services
  /\ started => elapsed < Grace
  /\ main' = "outside"
  /\ UNCHANGED <<token, threads, stopped, pending, started, verdict, times>>

\* Another round.  A request of somebody else starts the grace period here.
GoOn ==
  /\ main = "check"
  /\ Free(Main)
  /\ stopped # Services
  /\ started => elapsed < Grace
  /\ main' = "outside"
  /\ \/ requested /\ ~started /\ StartGrace
     \/ ~(requested /\ ~started) /\ UNCHANGED <<started, elapsed>>
  /\ UNCHANGED <<token, threads, stopped, pending, verdict, notice>>

Later(n) == IF n < Grace THEN n + 1 ELSE n

Tick ==
  /\ requested \/ started
  /\ elapsed < Grace \/ notice < Grace
  /\ elapsed' = IF started THEN Later(elapsed) ELSE elapsed
  /\ notice' = IF requested THEN Later(notice) ELSE notice
  /\ UNCHANGED <<token, threads, supervisor>>

-------------------------------------------------------------------------------

MainStep ==
  \/ \E s \in Services : Spawn(s)
  \/ requested /\ SpawnFails
  \/ RunUntil
  \/ AskOutside
  \/ \E s \in Services : ReceiveEvent(s)
  \/ ReceiveTimeout
  \/ Report
  \/ GiveUp
  \/ GoOn

FutureStep(s) == PollFuture(s) \/ RegisterWaker(s) \/ LookAgain(s) \/ Wake(s)

Next ==
  \/ MainStep
  \/ SpawnFails
  \/ \E s \in Services :
       FutureStep(s) \/ OtherWork(s) \/ Ends(s) \/ Stops(s) \/ Requests(s)
  \/ Drain
  \/ Tick

Spec == Init /\ [][Next]_vars

\* Threads keep running and time passes.  A cooperative service returns once it
\* has seen the request; any other may run on forever, and the external
\* callback need never ask.
Fairness ==
  /\ WF_vars(MainStep)
  /\ WF_vars(Drain)
  /\ WF_vars(Tick)
  /\ \A s \in Services : WF_vars(FutureStep(s))
  /\ \A s \in Cooperative : WF_vars(Stops(s))

FairSpec == Spec /\ Fairness

-------------------------------------------------------------------------------
(***************************************************************************)
(* Properties.                                                             *)
(***************************************************************************)

\* The values of the variables.
TypeOK ==
  /\ requested \in BOOLEAN
  /\ drainer \in Services \cup {Main, Nobody}
  /\ waiters \subseteq Services
  /\ registered \subseteq Services
  /\ woken \subseteq Services
  /\ place \in [Services -> Places]
  /\ outcome \in [Services -> Outcomes \cup {"none"}]
  /\ events \subseteq Services
  /\ stopped \subseteq Services
  /\ early \subseteq Services
  /\ main \in {"spawn", "outside", "receive", "check", "returned"}
  /\ pending \in Failures \cup {"none"}
  /\ elapsed \in 0..Grace
  /\ started \in BOOLEAN
  /\ notice \in 0..Grace
  /\ verdict \in Failures \cup {"none", "Ok", "Timeout", "Refused"}

\* No wake-up is lost between the future's looks at the flag and the requester's
\* swap and drain: once the waiters were woken, no service is left asleep.
NoWaiterLost ==
  \A s \in Services :
    requested /\ drainer = Nobody /\ place[s] = "parked" => s \in woken

\* run_until reports success only when every service was joined and none
\* failed or panicked, in whatever order their events came.
CleanReport ==
  verdict = "Ok" => \A s \in Services : s \in stopped /\ outcome[s] = "Completed"

\* A service is reported as ignoring shutdown only after it had the whole grace
\* period to obey.
GraceIsGiven == verdict = "Timeout" => requested /\ notice = Grace

\* The supervisor never goes away, not even when a spawn fails, without telling
\* the services it started to stop.
NoServiceOrphaned == verdict # "none" => requested

\* The end of any service, or a request, brings the whole daemon down, even if
\* other services hang, and every service that cooperates with it, be it
\* blocking or waiting.
ShutdownSpreads ==
  /\ (requested \/ \E s \in Services : place[s] = "returned") ~> main = "returned"
  /\ \A s \in Cooperative : requested ~> place[s] \in {"unborn", "returned"}

(***************************************************************************)
(* What the documentation says and the code does not do.                   *)
(***************************************************************************)

\* spawn: "Returning Ok(()) before shutdown is itself fatal".  An early return
\* is judged when its event is received; if shutdown was requested in the
\* meantime, it passes as an orderly stop.
EarlyReturnIsFatal == verdict = "Ok" => early = {}

===============================================================================
