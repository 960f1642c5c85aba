--------------------------- MODULE LoginServiceProofs --------------------------
(***************************************************************************)
(* Proofs about Session, for any connections, transactions, duration,      *)
(* clock range and number of sessions, and about LoginService, for any     *)
(* processes, pids, programs, policy and limits.                           *)
(*                                                                         *)
(* First the session manager under any callers; then that a connection is  *)
(* judged by its own process; then that a login uses the session manager   *)
(* as Session lets any caller use it, which gives it what was shown of the *)
(* manager, and what its deadlines decide; at last that PAM accepts nothing but its own transaction's     *)
(* acceptance.                                                             *)
(***************************************************************************)
EXTENDS LoginService, TLAPS

(***************************************************************************)
(* The session manager.                                                    *)
(***************************************************************************)

\* The inductive invariant.  The token in the slot is the last one handed
\* out: without it nothing bounds the token whose outcome is recorded.
Inv ==
  /\ TypeOK
  /\ slot # Idle => slot.token = starts
  /\ TokenFollowsSlot
  /\ DecidedOnce

\* The three things a step can do to the slot.
BeginStep ==
  /\ slot = Idle
  /\ starts < MaxStarts
  /\ slot' \in Sessions
  /\ slot'.token = starts + 1
  /\ starts' = starts + 1
  /\ UNCHANGED <<signalled, outcome, now>>
  /\ reply' \in Replies

EndStep ==
  \E d \in Decisions :
    /\ slot # Idle
    /\ slot' = Idle
    /\ signalled' = signalled \cup {slot.token}
    /\ outcome' = [outcome EXCEPT ![slot.token] = d]
    /\ reply' = Completed(slot.transaction, d)
    /\ UNCHANGED <<starts, now>>

QuietStep ==
  /\ UNCHANGED <<slot, starts, signalled, outcome>>
  /\ reply' \in Replies
  /\ now' \in 0..ClockMax

-------------------------------------------------------------------------------

\* A refused call leaves the manager as it was.
LEMMA RefusedIsQuiet ==
  ASSUME TypeOK, NEW e \in Errors, Refuse(e), Recorded
  PROVE  QuietStep
BY DEF TypeOK, Refuse, Recorded, Ends, QuietStep, Replies, Sessions

\* A call that does not match the slot's binding leaves the manager as it was.
LEMMA UnboundIsQuiet ==
  ASSUME TypeOK, NEW c, NEW t, RefuseUnbound(c, t), Recorded
  PROVE  QuietStep
BY RefusedIsQuiet DEF RefuseUnbound, Errors

\* Emptying the slot ends a session.
LEMMA TerminalEnds ==
  ASSUME TypeOK, slot # Idle, NEW d \in Decisions, TakeTerminal(d), Recorded
  PROVE  EndStep
BY DEF TakeTerminal, Recorded, Ends, EndStep, Completed

\* Finish ends a session, whatever decision and time it is given.
LEMMA FinishEnds ==
  ASSUME TypeOK, slot # Idle, NEW d \in Decisions, NEW at, Finish(d, at), Recorded
  PROVE  EndStep
BY TerminalEnds DEF Finish, Decisions, ReservedDecisions

\* Every step of Session begins a session, ends one, or leaves the slot alone.
LEMMA StepShape ==
  ASSUME TypeOK, [Next]_vars
  PROVE  BeginStep \/ EndStep \/ QuietStep
<1>1. CASE CallStart
  <2>1. PICK c \in Connections, t \in Transactions : Start(c, t, now)
    BY <1>1 DEF CallStart
  <2>2. Recorded /\ starts < MaxStarts
    BY <1>1 DEF CallStart
  <2>3. CASE slot # Idle /\ Refuse("Busy")
    BY <2>2, <2>3, RefusedIsQuiet DEF Errors
  <2>4. CASE Refuse("DeadlineOverflow")
    BY <2>2, <2>4, RefusedIsQuiet DEF Errors
  <2>5. CASE /\ slot = Idle
             /\ now + Duration <= ClockMax
             /\ slot' = [connection |-> c, transaction |-> t,
                         deadline |-> now + Duration, token |-> starts + 1]
             /\ starts' = starts + 1
             /\ reply' = Started(t)
             /\ UNCHANGED signalled
    <3>1. slot' \in Sessions
      BY <2>5, SessionAssumption DEF TypeOK, Sessions
    <3>2. reply' \in Replies
      BY <2>5 DEF Replies
    <3>3. BeginStep
      BY <2>2, <2>5, <3>1, <3>2 DEF BeginStep, Recorded, Ends
    <3> QED
      BY <3>3
  <2> QED
    BY <2>1, <2>3, <2>4, <2>5 DEF Start
<1>2. CASE CallProgress
  <2>1. PICK c \in Connections, t \in Transactions : Progress(c, t, now)
    BY <1>2 DEF CallProgress
  <2>2. Recorded
    BY <1>2 DEF CallProgress
  <2>3. CASE RefuseUnbound(c, t)
    BY <2>2, <2>3, UnboundIsQuiet
  <2>4. CASE Bound(c, t) /\ DeadlineReached(now) /\ TakeTerminal("TimedOut")
    BY <2>2, <2>4, TerminalEnds
       DEF Bound, DeadlineReached, Decisions, ReservedDecisions
  <2>5. CASE /\ Bound(c, t)
             /\ reply' = Progressed(t)
             /\ UNCHANGED <<slot, starts, signalled>>
    BY <2>2, <2>5 DEF Recorded, Ends, QuietStep, Bound, Replies, TypeOK
  <2> QED
    BY <2>1, <2>3, <2>4, <2>5 DEF Progress
<1>3. CASE CallComplete
  <2>1. PICK c \in Connections, t \in Transactions, d \in Decisions, at \in 0..now :
          Complete(c, t, d, at)
    BY <1>3 DEF CallComplete
  <2>2. Recorded
    BY <1>3 DEF CallComplete
  <2>3. CASE Refuse("ReservedDecision")
    BY <2>2, <2>3, RefusedIsQuiet DEF Errors
  <2>4. CASE RefuseUnbound(c, t)
    BY <2>2, <2>4, UnboundIsQuiet
  <2>5. CASE d \notin ReservedDecisions /\ Bound(c, t) /\ Finish(d, at)
    BY <2>2, <2>5, FinishEnds DEF Bound, ReservedDecisions
  <2> QED
    BY <2>1, <2>3, <2>4, <2>5 DEF Complete
<1>4. CASE CallCancel
  <2>1. PICK c \in Connections, t \in Transactions : Cancel(c, t, now)
    BY <1>4 DEF CallCancel
  <2>2. Recorded
    BY <1>4 DEF CallCancel
  <2>3. CASE RefuseUnbound(c, t)
    BY <2>2, <2>3, UnboundIsQuiet
  <2>4. CASE Bound(c, t) /\ Finish("Cancelled", now)
    BY <2>2, <2>4, FinishEnds DEF Bound, Decisions, ReservedDecisions
  <2> QED
    BY <2>1, <2>3, <2>4 DEF Cancel
<1>5. CASE CallExpire
  <2>1. CASE slot # Idle /\ DeadlineReached(now)
    BY <1>5, <2>1, TerminalEnds
       DEF CallExpire, Expire, DeadlineReached, Decisions, ReservedDecisions
  <2>2. CASE ~(slot # Idle /\ DeadlineReached(now))
    BY <1>5, <2>2
       DEF CallExpire, Expire, Recorded, Ends, QuietStep, Replies, TypeOK
  <2> QED
    BY <2>1, <2>2
<1>6. CASE Tick
  BY <1>6, SessionAssumption DEF Tick, QuietStep, TypeOK
<1>7. CASE UNCHANGED vars
  BY <1>7 DEF vars, QuietStep, TypeOK
<1> QED
  BY <1>1, <1>2, <1>3, <1>4, <1>5, <1>6, <1>7 DEF Next

-------------------------------------------------------------------------------

\* The invariant holds initially and is preserved by every step.
LEMMA InvInit == Init => Inv
BY StartsAssumption, SessionAssumption
   DEF Init, ManagerInit, Inv, TypeOK, TokenFollowsSlot, DecidedOnce,
       ActiveToken, Tokens, Replies

LEMMA InvStep == Inv /\ [Next]_vars => Inv'
<1> SUFFICES ASSUME Inv, [Next]_vars
             PROVE  Inv'
  OBVIOUS
<1> USE StartsAssumption
<1>1. CASE BeginStep
  <2>1. TypeOK'
    BY <1>1 DEF BeginStep, Inv, TypeOK
  <2>2. (slot # Idle => slot.token = starts)'
    BY <1>1 DEF BeginStep
  <2>3. slot' # Idle
    BY <1>1, SessionAssumption DEF BeginStep
  <2>4. TokenFollowsSlot'
    BY <1>1, <2>3 DEF BeginStep, Inv, TypeOK, TokenFollowsSlot, ActiveToken
  <2>5. DecidedOnce'
    BY <1>1, <2>3
       DEF BeginStep, Inv, TypeOK, DecidedOnce, ActiveToken, Tokens
  <2> QED
    BY <2>1, <2>2, <2>4, <2>5 DEF Inv
<1>2. CASE EndStep
  <2>1. PICK d \in Decisions :
          /\ slot # Idle
          /\ slot' = Idle
          /\ signalled' = signalled \cup {slot.token}
          /\ outcome' = [outcome EXCEPT ![slot.token] = d]
          /\ reply' = Completed(slot.transaction, d)
          /\ UNCHANGED <<starts, now>>
    BY <1>2 DEF EndStep
  <2>2. slot.token = starts /\ slot.token \in Tokens
    BY <2>1 DEF Inv, TypeOK, Sessions, Tokens
  <2>3. reply' \in Replies
    BY <2>1 DEF Inv, TypeOK, Sessions, Replies
  <2>4. TypeOK'
    BY <2>1, <2>2, <2>3 DEF Inv, TypeOK
  <2>5. TokenFollowsSlot'
    BY <2>1, <2>2 DEF Inv, TypeOK, TokenFollowsSlot, ActiveToken, Tokens
  <2>6. DecidedOnce'
    <3> SUFFICES ASSUME NEW n \in Tokens
                 PROVE  outcome'[n] # "none" <=> n \in 1..starts
      BY <2>1 DEF DecidedOnce, ActiveToken
    <3>1. d # "none"
      BY DEF Decisions, PolicyDecisions, ReservedDecisions
    <3>2. CASE n = slot.token
      BY <2>1, <2>2, <3>1, <3>2 DEF Inv, TypeOK, Tokens
    <3>3. CASE n # slot.token
      BY <2>1, <2>2, <3>3 DEF Inv, TypeOK, DecidedOnce, ActiveToken, Tokens
    <3> QED
      BY <3>2, <3>3
  <2> QED
    BY <2>1, <2>4, <2>5, <2>6 DEF Inv
<1>3. CASE QuietStep
  BY <1>3 DEF QuietStep, Inv, TypeOK, TokenFollowsSlot, DecidedOnce, ActiveToken
<1> QED
  BY <1>1, <1>2, <1>3, StepShape DEF Inv

\* Inv is an invariant of every behaviour of Session.
THEOREM InvCorrect == Spec => []Inv
BY InvInit, InvStep, PTL DEF Spec

\* The variables keep their types.
THEOREM TypeCorrect == Spec => []TypeOK
<1>1. Inv => TypeOK
  BY DEF Inv
<1> QED
  BY <1>1, InvCorrect, PTL

\* A session's cancellation token is set exactly when the session has ended.
THEOREM TokensCorrect == Spec => []TokenFollowsSlot
<1>1. Inv => TokenFollowsSlot
  BY DEF Inv
<1> QED
  BY <1>1, InvCorrect, PTL

\* Every session but the active one has its one decision.
THEOREM DecidedCorrect == Spec => []DecidedOnce
<1>1. Inv => DecidedOnce
  BY DEF Inv
<1> QED
  BY <1>1, InvCorrect, PTL

\* No step changes a decision once it has been emitted.
THEOREM DecisionCorrect == Spec => DecisionStands
<1>1. Inv /\ [Next]_vars =>
        [\A n \in Tokens : outcome[n] # "none" => outcome'[n] = outcome[n]]_vars
  <2> SUFFICES ASSUME Inv, [Next]_vars, NEW n \in Tokens, outcome[n] # "none"
               PROVE  outcome'[n] = outcome[n]
    OBVIOUS
  <2>1. CASE EndStep
    <3>1. n # slot.token
      BY <2>1 DEF EndStep, Inv, DecidedOnce, ActiveToken
    <3> QED
      BY <2>1, <3>1 DEF EndStep, Inv, TypeOK
  <2>2. CASE BeginStep \/ QuietStep
    BY <2>2 DEF BeginStep, QuietStep
  <2> QED
    BY <2>1, <2>2, StepShape DEF Inv
<1> QED
  BY <1>1, InvCorrect, PTL DEF Spec, DecisionStands

-------------------------------------------------------------------------------

\* The phases of the sessions, as OneShot sees them.
Phases == [n \in Tokens |-> PhaseOf(n)]

\* A session that began and is not active has a decision for its phase.
LEMMA PastPhase ==
  ASSUME Inv, NEW n \in Tokens, n \in (1..starts) \ ActiveToken
  PROVE  PhaseOf(n) \in Decisions
BY DEF Inv, TypeOK, DecidedOnce, PhaseOf, Tokens

\* Session implements OneShot: a start begins the next operation after all
\* the others have ended, an end gives the active one its result, and every
\* other call is invisible.
THEOREM Refinement == Spec => ImplementsOneShot
<1>1. Init => Promise!Init
  BY StartsAssumption
     DEF Init, ManagerInit, Promise!Init, PhaseOf, Tokens
<1>2. Inv /\ Inv' /\ [Next]_vars => [Promise!Next]_Phases
  <2> SUFFICES ASSUME Inv, Inv', [Next]_vars
               PROVE  Promise!Next \/ Phases' = Phases
    BY DEF Phases
  <2> USE StartsAssumption
  <2>1. CASE BeginStep
    <3>1. starts \in Nat /\ starts + 1 \in Tokens
      BY <2>1 DEF BeginStep, Inv, TypeOK, Tokens
    <3>2. ActiveToken = {} /\ ActiveToken' = {starts + 1}
      BY <2>1, SessionAssumption DEF BeginStep, ActiveToken
    <3>3. Phases[starts + 1] = "unborn"
      BY <3>1 DEF Phases, PhaseOf
    <3>4. ASSUME NEW m \in Tokens, m < starts + 1
          PROVE  Phases[m] \in Decisions
      BY <3>1, <3>2, <3>4, PastPhase DEF Phases, Tokens
    <3>5. Phases' = [Phases EXCEPT ![starts + 1] = "active"]
      <4> SUFFICES ASSUME NEW m \in Tokens
                   PROVE  PhaseOf(m)' = IF m = starts + 1 THEN "active"
                                        ELSE PhaseOf(m)
        BY <3>1 DEF Phases
      <4> QED
        BY <2>1, <3>1, <3>2 DEF BeginStep, PhaseOf, Tokens
    <3> QED
      BY <3>1, <3>3, <3>4, <3>5 DEF Promise!Next, Promise!Begin, Phases
  <2>2. CASE EndStep
    <3>1. PICK d \in Decisions :
            /\ slot # Idle
            /\ slot' = Idle
            /\ outcome' = [outcome EXCEPT ![slot.token] = d]
            /\ starts' = starts
      BY <2>2 DEF EndStep
    <3>2. slot.token = starts /\ starts \in Tokens
      BY <3>1 DEF Inv, TypeOK, Sessions, Tokens
    <3>3. ActiveToken = {starts} /\ ActiveToken' = {}
      BY <3>1, <3>2 DEF ActiveToken
    <3>4. Phases[starts] = "active"
      BY <3>2, <3>3 DEF Phases, PhaseOf, Tokens
    <3>5. Phases' = [Phases EXCEPT ![starts] = d]
      <4> SUFFICES ASSUME NEW m \in Tokens
                   PROVE  PhaseOf(m)' = IF m = starts THEN d ELSE PhaseOf(m)
        BY <3>2 DEF Phases
      <4> QED
        BY <3>1, <3>2, <3>3 DEF PhaseOf, Inv, TypeOK, Tokens
    <3> QED
      BY <3>2, <3>4, <3>5 DEF Promise!Next, Promise!End, Phases
  <2>3. CASE QuietStep
    BY <2>3 DEF QuietStep, Phases, PhaseOf, ActiveToken
  <2> QED
    BY <2>1, <2>2, <2>3, StepShape DEF Inv
<1> QED
  BY <1>1, <1>2, InvCorrect, PTL
     DEF Spec, ImplementsOneShot, Promise!Spec, Phases

-------------------------------------------------------------------------------
(***************************************************************************)
(* The connection and its process.                                         *)
(***************************************************************************)

Calls == {"idle", "waiting", "accepted", "ignored", "left"}
Handling == {"verify", "open", "reverify", "authorize", "serve"}

\* What is known of the connection being handled.  Between the open and the
\* second look at the pidfd the file may be another process's, but then the
\* pid is no longer the peer's, and never will be again.
PeerInv ==
  /\ pid \in [Connections -> Pids \cup {Unborn, Gone}]
  /\ cred \in [Connections -> Pids \cup {Unborn}]
  /\ call \in [Connections -> Calls]
  /\ granted \in [Connections -> Connections \cup {Nobody}]
  /\ \A c, d \in Connections : pid[c] \in Pids /\ pid[c] = pid[d] => c = d
  /\ \A c \in Connections : cred[c] # Unborn => pid[c] # Unborn /\ call[c] # "idle"
  /\ place \in Handling => peer \in Connections /\ cred[peer] # Unborn
  /\ place = "reverify" => opened \in Connections
  /\ place = "reverify" => opened = peer \/ pid[peer] # cred[peer]
  /\ place = "authorize" => opened = peer
  /\ EvidenceIsOfPeer

-------------------------------------------------------------------------------
(***************************************************************************)
(* The process of a connection.                                            *)
(***************************************************************************)

LEMMA PeerInit == LoginInit => PeerInv
BY LoginAssumption DEF LoginInit, PeerInv, Calls, Handling, EvidenceIsOfPeer

\* A step that leaves processes, grants and the handler alone.
LEMMA Elsewhere ==
  ASSUME PeerInv, UNCHANGED <<pid, cred, call, granted, place, peer, opened>>
  PROVE  PeerInv'
BY DEF PeerInv, EvidenceIsOfPeer

\* The handler moves on with the connection it has, but not to a place that the
\* executable matters for.
LEMMA HandlerMoves ==
  ASSUME PeerInv, UNCHANGED <<pid, cred, call, granted>>,
         place' \notin {"reverify", "authorize"},
         place' \in Handling => place \in Handling /\ peer' = peer
  PROVE  PeerInv'
BY DEF PeerInv, EvidenceIsOfPeer

\* Return stops the handler or goes back to the accept loop.
LEMMA HandlerReturns ==
  ASSUME PeerInv, UNCHANGED <<pid, cred, call, granted>>, NEW ok, Return(ok)
  PROVE  PeerInv'
<1>1. place' \notin Handling
  BY DEF Return, Handling
<1> QED
  BY <1>1, HandlerMoves DEF Handling

LEMMA ForkKeepsPeer ==
  ASSUME PeerInv, NEW c \in Connections, Fork(c)
  PROVE  PeerInv'
<1>1. PICK n \in Pids : /\ \A d \in Connections : pid[d] # n
                        /\ pid' = [pid EXCEPT ![c] = n]
  BY DEF Fork
<1>2. pid[c] = Unborn /\ UNCHANGED <<cred, call, granted, place, peer, opened>>
  BY DEF Fork, clients, listener, history
<1>3. cred[c] = Unborn
  BY <1>2 DEF PeerInv
<1> QED
  BY <1>1, <1>2, <1>3, LoginAssumption DEF PeerInv, EvidenceIsOfPeer, Handling

LEMMA ExitKeepsPeer ==
  ASSUME PeerInv, NEW c \in Connections, Exit(c)
  PROVE  PeerInv'
<1>1. /\ pid[c] \in Pids /\ pid' = [pid EXCEPT ![c] = Gone]
      /\ call' = [call EXCEPT ![c] = IF Reads(c) THEN "left" ELSE @]
      /\ UNCHANGED <<cred, granted, place, peer, opened>>
  BY DEF Exit, Alive, listener, history
<1>2. Gone \notin Pids /\ Unborn \notin Pids \cup {Gone}
  BY LoginAssumption
<1>3. \A d \in Connections : cred[d] # Unborn => pid'[d] # Unborn
  BY <1>1, <1>2 DEF PeerInv
<1>4. place = "reverify" => opened = peer \/ pid'[peer] # cred[peer]
  BY <1>1, <1>2 DEF PeerInv, Handling
<1>5. \A d, e \in Connections : pid'[d] \in Pids /\ pid'[d] = pid'[e] => d = e
  BY <1>1, <1>2 DEF PeerInv
<1>6. pid' \in [Connections -> Pids \cup {Unborn, Gone}]
  BY <1>1 DEF PeerInv
<1>7. /\ call' \in [Connections -> Calls]
      /\ \A d \in Connections : cred[d] # Unborn => call'[d] # "idle"
  BY <1>1 DEF PeerInv, Calls
<1> QED
  BY <1>1, <1>3, <1>4, <1>5, <1>6, <1>7 DEF PeerInv, EvidenceIsOfPeer

LEMMA ConnectKeepsPeer ==
  ASSUME PeerInv, NEW c \in Connections, Connect(c)
  PROVE  PeerInv'
<1>1. /\ pid[c] \in Pids /\ cred' = [cred EXCEPT ![c] = pid[c]]
      /\ call[c] = "idle" /\ call' = [call EXCEPT ![c] = "waiting"]
      /\ UNCHANGED <<pid, granted, place, peer, opened>>
  BY DEF Connect, Alive, listener, history
<1>2. pid[c] # Unborn
  BY <1>1, LoginAssumption
<1>3. place \in Handling => peer # c
  BY <1>1 DEF PeerInv
<1>4. /\ cred' \in [Connections -> Pids \cup {Unborn}]
      /\ call' \in [Connections -> Calls]
      /\ \A d \in Connections :
           cred'[d] # Unborn => pid[d] # Unborn /\ call'[d] # "idle"
  BY <1>1, <1>2 DEF PeerInv, Calls
<1>5. place \in Handling => peer \in Connections /\ cred'[peer] = cred[peer]
  BY <1>1, <1>3 DEF PeerInv
<1> QED
  BY <1>1, <1>4, <1>5 DEF PeerInv, EvidenceIsOfPeer, Handling

\* A call goes on waiting or ends, whatever it reads.
LEMMA PamStepKeepsPeer ==
  ASSUME PeerInv, NEW c \in Connections, PamStep(c)
  PROVE  PeerInv'
<1>1. UNCHANGED <<pid, cred, granted, place, peer, opened>>
  BY DEF PamStep, ReadResponse, ReadFails, processes, listener, history
<1>2. PICK a \in {"waiting", "accepted", "ignored"} :
        call' = [call EXCEPT ![c] = a]
  BY DEF PamStep, ReadResponse, ReadFails, Verdict
<1> QED
  BY <1>1, <1>2 DEF PeerInv, Calls, EvidenceIsOfPeer

LEMMA AcceptKeepsPeer ==
  ASSUME PeerInv, NEW c \in Connections, Accept(c)
  PROVE  PeerInv'
<1>1. /\ cred[c] # Unborn /\ place' = "verify" /\ peer' = c
      /\ UNCHANGED <<pid, cred, call, granted>>
  BY DEF Accept, Pending, processes, clients, history
<1> QED
  BY <1>1 DEF PeerInv, EvidenceIsOfPeer, Handling

\* A rejection changes nothing but the inbox and the handler.
LEMMA RejectKeepsPeer ==
  ASSUME PeerInv, NEW r, Reject(r)
  PROVE  PeerInv'
<1>1. UNCHANGED <<pid, cred, call, granted>> /\ Return(Reads(peer))
  BY DEF Reject, processes, history
<1> QED
  BY <1>1, HandlerReturns

LEMMA VerifyKeepsPeer == ASSUME PeerInv, VerifyPeer PROVE PeerInv'
<1>1. CASE Reject("UnauthorizedPeer")
  BY <1>1, RejectKeepsPeer
<1>2. CASE Goto("open") /\ UNCHANGED <<vars, processes, clients, history, screen>>
  <2>1. /\ place = "verify" /\ place' = "open"
        /\ UNCHANGED <<pid, cred, call, granted, peer>>
    BY <1>2 DEF VerifyPeer, Goto, processes, clients, history
  <2> QED
    BY <2>1, HandlerMoves DEF Handling
<1> QED
  BY <1>1, <1>2 DEF VerifyPeer

LEMMA OpenKeepsPeer == ASSUME PeerInv, OpenExecutable PROVE PeerInv'
<1>1. CASE Reject("UnauthorizedPeer")
  BY <1>1, RejectKeepsPeer
<1>2. ASSUME NEW q \in Connections, pid[q] = cred[peer], opened' = q,
             place' = "reverify",
             UNCHANGED <<vars, processes, clients, taken, peer, failures,
                         history, screen>>
      PROVE  PeerInv'
  <2>1. UNCHANGED <<pid, cred, call, granted, peer>>
    BY <1>2 DEF processes, clients, history
  <2>2. peer \in Connections /\ cred[peer] \in Pids
    BY DEF OpenExecutable, PeerInv, Handling
  <2>3. q = peer \/ pid[peer] # cred[peer]
    BY <1>2, <2>2 DEF PeerInv
  <2>4. cred[peer] # Unborn
    BY DEF OpenExecutable, PeerInv, Handling
  <2> QED
    BY <1>2, <2>1, <2>2, <2>3, <2>4 DEF PeerInv, EvidenceIsOfPeer, Handling
<1> QED
  BY <1>1, <1>2 DEF OpenExecutable

LEMMA ReverifyKeepsPeer == ASSUME PeerInv, VerifyAgain PROVE PeerInv'
<1>1. CASE Reject("UnauthorizedPeer")
  BY <1>1, RejectKeepsPeer
<1>2. CASE /\ Pinned /\ Goto("authorize")
           /\ UNCHANGED <<vars, processes, clients, history, screen>>
  <2>1. /\ place = "reverify" /\ place' = "authorize"
        /\ UNCHANGED <<pid, cred, call, granted, peer, opened>>
    BY <1>2 DEF VerifyAgain, Goto, processes, clients, history
  <2>2. pid[peer] = cred[peer]
    BY <1>2 DEF Pinned, VerifyPidfd
  <2>3. opened = peer
    BY <2>1, <2>2 DEF PeerInv
  <2> QED
    BY <2>1, <2>3 DEF PeerInv, EvidenceIsOfPeer, Handling
<1> QED
  BY <1>1, <1>2 DEF VerifyAgain

\* The only step that grants anything.
LEMMA AdmitKeepsPeer == ASSUME PeerInv, AdmitPeer PROVE PeerInv'
<1>1. /\ place = "authorize" /\ granted' = [granted EXCEPT ![peer] = opened]
      /\ UNCHANGED <<pid, cred, call>>
  BY DEF AdmitPeer, processes
<1>2. opened = peer /\ peer \in Connections
  BY <1>1 DEF PeerInv, Handling
<1>3. /\ granted' \in [Connections -> Connections \cup {Nobody}]
      /\ EvidenceIsOfPeer'
  BY <1>1, <1>2 DEF PeerInv, EvidenceIsOfPeer
<1>4. \/ place' = "serve" /\ peer' = peer
      \/ place' \in {"accept", "stopped"}
  BY DEF AdmitPeer, Goto, Return
<1> QED
  BY <1>1, <1>3, <1>4 DEF PeerInv, Handling

\* While the engine works the handler stays or returns.
LEMMA ServeKeepsPeer ==
  ASSUME PeerInv, EngineProgress \/ EngineResult \/ NoticeDeparture
  PROVE  PeerInv'
<1>1. place = "serve" /\ UNCHANGED <<pid, cred, call, granted>>
  BY DEF EngineProgress, EngineResult, NoticeDeparture, processes, clients, history
<1>2. \/ place' = "serve" /\ peer' = peer
      \/ place' \in {"accept", "stopped"}
  BY DEF EngineProgress, EngineResult, NoticeDeparture, Goto, Return
<1> QED
  BY <1>1, <1>2, HandlerMoves DEF Handling

LEMMA PeerNext == PeerInv /\ [LoginNext]_loginVars => PeerInv'
<1> SUFFICES ASSUME PeerInv, [LoginNext]_loginVars PROVE PeerInv'
  OBVIOUS
<1>1. ASSUME NEW c \in Connections, Fork(c) \/ Exit(c) \/ Connect(c) \/ PamStep(c)
      PROVE  PeerInv'
  BY <1>1, ForkKeepsPeer, ExitKeepsPeer, ConnectKeepsPeer, PamStepKeepsPeer
<1>2. ASSUME NEW c \in Connections, Accept(c) PROVE PeerInv'
  BY <1>2, AcceptKeepsPeer
<1>3. ASSUME NEW c \in Connections, AcceptFails(c) PROVE PeerInv'
  <2>1. UNCHANGED <<pid, cred, call, granted>> /\ place' \in {"stopped", "accept"}
    BY <1>3 DEF AcceptFails, processes, clients, history
  <2> QED
    BY <2>1, HandlerMoves DEF Handling
<1>4. CASE StopListening
  <2>1. UNCHANGED <<pid, cred, call, granted>> /\ place' = "stopped"
    BY <1>4 DEF StopListening, processes, clients, history
  <2> QED
    BY <2>1, HandlerMoves DEF Handling
<1>5. CASE VerifyPeer \/ OpenExecutable \/ VerifyAgain
  BY <1>5, VerifyKeepsPeer, OpenKeepsPeer, ReverifyKeepsPeer
<1>6. CASE RefusePeer
  BY <1>6, RejectKeepsPeer DEF RefusePeer
<1>7. CASE AdmitPeer
  BY <1>7, AdmitKeepsPeer
<1>8. CASE EngineProgress \/ EngineResult \/ NoticeDeparture
  BY <1>8, ServeKeepsPeer
<1>9. CASE \/ CapturePair \/ ManagementEvent \/ ResetTheScreen \/ TimePasses
           \/ UNCHANGED loginVars
  <2>1. UNCHANGED <<pid, cred, call, granted, place, peer, opened>>
    BY <1>9 DEF CapturePair, ManagementEvent, ResetTheScreen, TimePasses, loginVars,
                processes, clients, listener, history
  <2> QED
    BY <2>1, Elsewhere
<1> QED
  BY <1>1, <1>2, <1>3, <1>4, <1>5, <1>6, <1>7, <1>8, <1>9 DEF LoginNext

\* A transaction is granted for the executable of the process that connected,
\* however pids are used again (VerifiedExecutable::from_peer).
THEOREM EvidenceCorrect == LoginSpec => []EvidenceIsOfPeer
<1>1. PeerInv => EvidenceIsOfPeer
  BY DEF PeerInv
<1> QED
  BY <1>1, PeerInit, PeerNext, PTL DEF LoginSpec

-------------------------------------------------------------------------------
(***************************************************************************)
(* The session manager of a login is Session's.                            *)
(***************************************************************************)

\* A pair that counts was captured since the session began, and there is one
\* only while a connection is served.
CaptureInv ==
  /\ captured \in {NoCapture} \cup 0..now
  /\ captured # NoCapture => place = "serve"
  /\ slot # Idle => slot.deadline - Duration <= now
  /\ captured # NoCapture /\ slot # Idle => slot.deadline - Duration <= captured

ServiceInv == Inv /\ PeerInv /\ CaptureInv

LEMMA HandlerSteps ==
  ASSUME Inv, PeerInv, CaptureInv, AdmitPeer \/ EngineProgress \/ EngineResult \/ NoticeDeparture
  PROVE  Next
<1>1. peer \in Connections /\ peer \in Transactions
  BY LoginAssumption
     DEF AdmitPeer, EngineProgress, EngineResult, NoticeDeparture, PeerInv, Handling
<1>2. CASE AdmitPeer
  BY <1>1, <1>2 DEF AdmitPeer, CallStart, Next
<1>3. CASE EngineProgress
  BY <1>1, <1>3 DEF EngineProgress, CallProgress, Next
<1>4. CASE EngineResult
  <2>1. \E d \in Decisions, at \in 0..now : Complete(peer, peer, d, at)
    BY <1>4 DEF EngineResult, CaptureInv, Inv, TypeOK, Decisions, PolicyDecisions
  <2> QED
    BY <1>1, <1>4, <2>1 DEF EngineResult, CallComplete, Next
<1>5. CASE NoticeDeparture
  BY <1>1, <1>5 DEF NoticeDeparture, CallCancel, Next
<1> QED
  BY <1>2, <1>3, <1>4, <1>5

LEMMA OtherStepsQuiet ==
  ASSUME [LoginNext]_loginVars,
         ~(AdmitPeer \/ EngineProgress \/ EngineResult \/ NoticeDeparture)
  PROVE  UNCHANGED vars \/ Tick
<1>1. ASSUME NEW c \in Connections,
             Fork(c) \/ Exit(c) \/ Connect(c) \/ PamStep(c) \/ Accept(c) \/ AcceptFails(c)
      PROVE  UNCHANGED vars
  BY <1>1 DEF Fork, Exit, Connect, PamStep, ReadResponse, ReadFails, Accept, AcceptFails
<1>2. CASE StopListening \/ VerifyPeer \/ OpenExecutable \/ VerifyAgain \/ RefusePeer
  BY <1>2 DEF StopListening, VerifyPeer, OpenExecutable, VerifyAgain, RefusePeer, Reject
<1>3. CASE CapturePair \/ ManagementEvent \/ ResetTheScreen \/ UNCHANGED loginVars
  BY <1>3 DEF CapturePair, ManagementEvent, ResetTheScreen, loginVars
<1>4. CASE TimePasses
  BY <1>4 DEF TimePasses
<1> QED
  BY <1>1, <1>2, <1>3, <1>4 DEF LoginNext

LEMMA ManagerStep == ServiceInv /\ [LoginNext]_loginVars => [Next]_vars
BY HandlerSteps, OtherStepsQuiet DEF Next, ServiceInv

\* What a completion, a cancellation or an update does to the slot.
LEMMA ServeShape ==
  ASSUME EngineProgress \/ EngineResult \/ NoticeDeparture
  PROVE  /\ slot' \in {slot, Idle}
         /\ now' = now
         /\ \/ captured' = captured /\ place' = place
            \/ captured' = NoCapture
BY DEF EngineProgress, EngineResult, NoticeDeparture, Progress, Complete, Cancel,
       RefuseUnbound, Refuse, Finish, TakeTerminal, Recorded, Goto, Return

LEMMA CaptureNext ==
  ASSUME ServiceInv, [LoginNext]_loginVars
  PROVE  CaptureInv'
<1> USE DEF CaptureInv
<1>1. /\ captured \in {NoCapture} \cup 0..now /\ now \in Nat /\ Duration \in Nat
      /\ slot # Idle => slot.deadline \in Nat
  BY SessionAssumption DEF ServiceInv, Inv, TypeOK, Sessions
<1>2. CASE AdmitPeer
  <2>1. captured = NoCapture /\ captured' = NoCapture /\ now' = now
    BY <1>2 DEF AdmitPeer, ServiceInv, Goto, Return, Recorded
  <2>2. slot' = slot \/ slot'.deadline = now + Duration
    BY <1>2 DEF AdmitPeer, Start, Refuse
  <2> QED
    BY <1>1, <2>1, <2>2 DEF ServiceInv, NoCapture
<1>3. CASE EngineProgress \/ EngineResult \/ NoticeDeparture
  BY <1>1, <1>3, ServeShape DEF ServiceInv
<1>4. CASE CapturePair
  BY <1>1, <1>4 DEF CapturePair, ServiceInv, vars
<1>5. CASE TimePasses
  <2>1. now' = now + 1 /\ UNCHANGED <<slot, captured, place>>
    BY <1>5 DEF TimePasses, Tick, listener
  <2> QED
    BY <1>1, <2>1 DEF ServiceInv
<1>6. CASE ~(\/ AdmitPeer \/ EngineProgress \/ EngineResult \/ NoticeDeparture
             \/ CapturePair \/ TimePasses)
  <2>1. UNCHANGED vars
    BY <1>6, OtherStepsQuiet DEF TimePasses, LoginNext, Fork, Exit, Connect, PamStep,
       ReadResponse, ReadFails, Accept, AcceptFails, StopListening, VerifyPeer,
       OpenExecutable, VerifyAgain, RefusePeer, Reject, ManagementEvent,
       ResetTheScreen, loginVars
  <2>2. \/ UNCHANGED <<captured, place>>
        \/ place # "serve" /\ captured' \in {captured, NoCapture}
    BY <1>6 DEF LoginNext, Fork, Exit, Connect, PamStep,
       ReadResponse, ReadFails, Accept, AcceptFails, StopListening, VerifyPeer,
       OpenExecutable, VerifyAgain, RefusePeer, Reject, ManagementEvent,
       ResetTheScreen, loginVars, listener, Goto, Return
  <2>3. UNCHANGED <<slot, now>>
    BY <2>1 DEF vars
  <2> QED
    BY <1>1, <2>2, <2>3 DEF ServiceInv
<1> QED
  BY <1>2, <1>3, <1>4, <1>5, <1>6

LEMMA ServiceInit == LoginInit => ServiceInv
BY PeerInit, InvInit
   DEF LoginInit, Init, ManagerInit, ServiceInv, CaptureInv, NoCapture

LEMMA ServiceNext == ServiceInv /\ [LoginNext]_loginVars => ServiceInv'
BY PeerNext, ManagerStep, InvStep, CaptureNext DEF ServiceInv

\* Whatever processes, peers and the listener do, the session manager is used
\* as Session describes it.
THEOREM UsesSession == LoginSpec => Spec
<1>1. LoginInit => Init
  BY DEF LoginInit
<1> QED
  BY <1>1, ServiceInit, ServiceNext, ManagerStep, PTL DEF LoginSpec, Spec

\* A session of a login ends as timed out at its deadline and never before, and
\* after its deadline otherwise only by a decision about a pair captured in its
\* lifetime, as every acceptance rests on one.
THEOREM LoginDeadline == LoginSpec => DeadlineDecides
<1> DEFINE decision == reply'.decision
           Right == /\ decision = "TimedOut" => now >= slot.deadline
                    /\ decision # "TimedOut" /\ now >= slot.deadline
                         => decision \in PolicyDecisions /\ CapturedInTime
                    /\ decision = "Accepted" => CapturedInTime
<1>1. ASSUME ServiceInv, LoginNext, Ends PROVE Right
  <2>1. /\ captured \in {NoCapture} \cup 0..now /\ now \in Nat /\ Duration \in Nat
        /\ slot.deadline \in Nat
        /\ captured # NoCapture => slot.deadline - Duration <= captured
    BY <1>1, SessionAssumption
       DEF ServiceInv, CaptureInv, Inv, TypeOK, Sessions, Ends
  <2>2. EngineProgress \/ EngineResult \/ NoticeDeparture
    <3>1. CASE AdmitPeer
      BY <1>1, <3>1, SessionAssumption DEF AdmitPeer, Start, Refuse, Ends
    <3> QED
      BY <1>1, <3>1, OtherStepsQuiet DEF Ends, vars, Tick
  <2>3. ASSUME NEW d, NEW at, Finish(d, at)
        PROVE  \/ decision = "TimedOut" /\ at >= slot.deadline
               \/ decision = d /\ ~(at >= slot.deadline)
    BY <2>3 DEF Finish, DeadlineReached, TakeTerminal, Completed
  <2>4. CASE EngineProgress
    <3>1. DeadlineReached(now) /\ TakeTerminal("TimedOut")
      BY <1>1, <2>4 DEF EngineProgress, Progress, RefuseUnbound, Refuse, Ends
    <3> QED
      BY <3>1 DEF DeadlineReached, TakeTerminal, Completed
  <2>5. CASE NoticeDeparture
    <3>1. Finish("Cancelled", now)
      BY <1>1, <2>5 DEF NoticeDeparture, Cancel, RefuseUnbound, Refuse, Ends
    <3> QED
      BY <2>1, <2>3, <3>1
  <2>6. ASSUME EngineResult, NEW d \in PolicyDecisions, NEW at,
               Complete(peer, peer, d, at)
        PROVE  Finish(d, at)
    BY <1>1, <2>6 DEF Complete, RefuseUnbound, Refuse, Ends
  <2>7. CASE EngineResult
    <3>1. CASE Complete(peer, peer, "InternalError", now)
      <4>1. Finish("InternalError", now)
        BY <2>6, <2>7, <3>1 DEF PolicyDecisions
      <4> QED
        BY <2>1, <2>3, <4>1
    <3>2. ASSUME captured # NoCapture, NEW d \in PolicyDecisions,
                 Complete(peer, peer, d, captured)
          PROVE  Right
      <4>1. Finish(d, captured)
        BY <2>6, <2>7, <3>2
      <4>2. \/ decision = "TimedOut" /\ captured >= slot.deadline
            \/ decision = d /\ ~(captured >= slot.deadline)
        BY <2>3, <4>1
      <4>3. captured \in 0..now
        BY <2>1, <3>2
      <4> QED
        BY <2>1, <3>2, <4>2, <4>3 DEF CapturedInTime, PolicyDecisions
    <3> QED
      BY <2>7, <3>1, <3>2 DEF EngineResult
  <2> QED
    BY <2>2, <2>4, <2>5, <2>7
<1>2. ServiceInv /\ [LoginNext]_loginVars => [Ends => Right]_loginVars
  BY <1>1
<1> QED
  BY <1>2, ServiceInit, ServiceNext, PTL DEF LoginSpec, DeadlineDecides

\* The workers of all logins see their tokens set exactly when their sessions
\* have ended.
THEOREM LoginTokens == LoginSpec => []TokenFollowsSlot
BY UsesSession, TokensCorrect, PTL

\* And the logins of all clients are serial, with one final decision each.
THEOREM LoginOneShot == LoginSpec => ImplementsOneShot
BY UsesSession, Refinement, PTL

-------------------------------------------------------------------------------
(***************************************************************************)
(* What PAM accepts.                                                       *)
(***************************************************************************)

Rejections ==
  {[kind |-> "Rejected", transaction |-> t, reason |-> r] :
     t \in Connections,
     r \in {"UnauthorizedPeer", "ServiceNotAllowed", "Busy", "ServiceUnavailable"}}

Answers == Replies \cup Rejections

\* A session of this client's was decided to be a success.
Decided(c) == \E n \in Tokens : owner[n] = c /\ outcome[n] = "Accepted"

\* A response that makes PAM succeed.
Accepting(c, response) ==
  /\ response.kind = "Completed"
  /\ response.transaction = c
  /\ response.decision = "Accepted"

InboxHonest ==
  \A c \in Connections : \A i \in 1..Len(inbox[c]) :
    Accepting(c, inbox[c][i]) => Decided(c)

MailInv ==
  /\ inbox \in [Connections -> Seq(Answers)]
  /\ owner \in [Tokens -> Connections \cup {Nobody}]
  /\ slot # Idle => owner[slot.token] = slot.connection
  /\ InboxHonest
  /\ AcceptedIsDecided

LoginInv == Inv /\ PeerInv /\ CaptureInv /\ MailInv

LEMMA TailAt ==
  ASSUME NEW S, NEW s \in Seq(S), s # <<>>, NEW i \in 1..Len(Tail(s))
  PROVE  i + 1 \in 1..Len(s) /\ Tail(s)[i] = s[i + 1]
OBVIOUS

LEMMA AppendAt ==
  ASSUME NEW S, NEW s \in Seq(S), NEW x \in S, NEW i \in 1..Len(Append(s, x))
  PROVE  \/ i = Len(s) + 1 /\ Append(s, x)[i] = x
         \/ i \in 1..Len(s) /\ Append(s, x)[i] = s[i]
OBVIOUS

LEMMA MailInit == LoginInit => MailInv
<1> SUFFICES ASSUME LoginInit PROVE MailInv
  OBVIOUS
<1>1. /\ inbox = [c \in Connections |-> <<>>]
      /\ owner = [n \in Tokens |-> Nobody]
      /\ call = [c \in Connections |-> "idle"]
      /\ slot = Idle
  BY DEF LoginInit, Init, ManagerInit
<1>2. inbox \in [Connections -> Seq(Answers)] /\ InboxHonest
  BY <1>1 DEF InboxHonest
<1> QED
  BY <1>1, <1>2 DEF MailInv, AcceptedIsDecided

\* What was decided stays so, whoever owns the sessions that follow.
LEMMA DecidedStays ==
  ASSUME Inv, [Next]_vars, NEW c, Decided(c),
         \A n \in Tokens : n <= starts => owner'[n] = owner[n]
  PROVE  Decided(c)'
<1>1. PICK n \in Tokens : owner[n] = c /\ outcome[n] = "Accepted"
  BY DEF Decided
<1>2. n \in (1..starts) \ ActiveToken
  BY <1>1 DEF Inv, DecidedOnce
<1>3. owner'[n] = c
  BY <1>1, <1>2, StartsAssumption DEF Inv, TypeOK, Tokens
<1>4. outcome'[n] = "Accepted"
  <2>1. CASE EndStep
    <3>1. n # slot.token
      BY <1>2, <2>1 DEF EndStep, ActiveToken
    <3> QED
      BY <1>1, <2>1, <3>1 DEF EndStep, Inv, TypeOK
  <2>2. CASE BeginStep \/ QuietStep
    BY <1>1, <2>2 DEF BeginStep, QuietStep
  <2> QED
    BY <2>1, <2>2, StepShape DEF Inv
<1> QED
  BY <1>3, <1>4 DEF Decided

\* A step that reads, sends and admits nothing.
LEMMA MailRests ==
  ASSUME LoginInv, [Next]_vars, UNCHANGED <<inbox, owner>>,
         slot' \in {slot, Idle},
         \A c \in Connections : call'[c] = "accepted" => call[c] = "accepted"
  PROVE  MailInv'
<1>1. \A c \in Connections : Decided(c) => Decided(c)'
  BY DecidedStays DEF LoginInv
<1>2. InboxHonest'
  BY <1>1 DEF InboxHonest, LoginInv, MailInv
<1>3. AcceptedIsDecided'
  <2> SUFFICES ASSUME NEW c \in Connections, call'[c] = "accepted"
               PROVE  Decided(c)'
    BY DEF AcceptedIsDecided, Decided, Tokens
  <2> QED
    BY <1>1 DEF AcceptedIsDecided, Decided, LoginInv, MailInv
<1> QED
  BY <1>2, <1>3 DEF LoginInv, MailInv, Tokens

\* PAM takes the head of its inbox, which is honest.
LEMMA ReadKeepsMail ==
  ASSUME LoginInv, NEW c \in Connections, ReadResponse(c)
  PROVE  MailInv'
<1> DEFINE r == Head(inbox[c])
<1>1. /\ inbox[c] \in Seq(Answers) /\ inbox[c] # <<>>
      /\ inbox' = [inbox EXCEPT ![c] = Tail(inbox[c])]
      /\ UNCHANGED <<owner, outcome, slot>>
  BY DEF ReadResponse, LoginInv, MailInv, vars, listener, history
<1>2. \A d \in Connections : Decided(d)' <=> Decided(d)
  BY <1>1 DEF Decided, Tokens
<1>3. inbox' \in [Connections -> Seq(Answers)]
  BY <1>1 DEF LoginInv, MailInv
<1>4. InboxHonest'
  <2> SUFFICES ASSUME NEW d \in Connections, NEW i \in 1..Len(inbox'[d]),
                      Accepting(d, inbox'[d][i])
               PROVE  Decided(d)
    BY <1>2 DEF InboxHonest, Accepting
  <2>1. CASE d # c
    BY <1>1, <2>1 DEF InboxHonest, LoginInv, MailInv
  <2>2. CASE d = c
    <3>1. inbox'[c] = Tail(inbox[c])
      BY <1>1 DEF LoginInv, MailInv
    <3>2. i + 1 \in 1..Len(inbox[c]) /\ inbox'[c][i] = inbox[c][i + 1]
      BY <1>1, <2>2, <3>1, TailAt
    <3> QED
      BY <2>2, <3>2 DEF InboxHonest, LoginInv, MailInv
  <2> QED
    BY <2>1, <2>2
<1>5. call'[c] = "accepted" => Decided(c)
  <2>1. call'[c] \in {Verdict(c, r), "ignored"}
    BY DEF ReadResponse, LoginInv, PeerInv
  <2>2. r = inbox[c][1] /\ 1 \in 1..Len(inbox[c])
    BY <1>1
  <2>3. Accepting(c, r) => Decided(c)
    BY <2>2 DEF InboxHonest, LoginInv, MailInv
  <2> QED
    BY <2>1, <2>3 DEF Verdict, Accepting
<1>6. \A d \in Connections : d # c => call'[d] = call[d]
  BY DEF ReadResponse, LoginInv, PeerInv
<1>7. AcceptedIsDecided'
  BY <1>2, <1>5, <1>6 DEF AcceptedIsDecided, Decided, LoginInv, MailInv
<1> QED
  BY <1>1, <1>3, <1>4, <1>7 DEF LoginInv, MailInv, Tokens

\* One more honest answer in the peer's inbox.
LEMMA SendKeepsMail ==
  ASSUME LoginInv, [Next]_vars, UNCHANGED call, NEW p \in Connections, p = peer,
         NEW r \in Answers, Send(r), Accepting(p, r) => Decided(p)',
         \A n \in Tokens : n <= starts => owner'[n] = owner[n],
         owner' \in [Tokens -> Connections \cup {Nobody}],
         slot' # Idle => owner'[slot'.token] = slot'.connection
  PROVE  MailInv'
<1>1. \A c \in Connections : Decided(c) => Decided(c)'
  BY DecidedStays DEF LoginInv
<1>2. CASE inbox' = inbox
  <2>1. InboxHonest'
    BY <1>1, <1>2 DEF InboxHonest, Accepting, LoginInv, MailInv
  <2>2. AcceptedIsDecided'
    BY <1>1 DEF AcceptedIsDecided, Decided, LoginInv, MailInv
  <2> QED
    BY <1>2, <2>1, <2>2 DEF LoginInv, MailInv, Tokens
<1>3. CASE inbox' = [inbox EXCEPT ![p] = Append(@, r)]
  <2>1. inbox' \in [Connections -> Seq(Answers)]
    BY <1>3 DEF LoginInv, MailInv
  <2>2. InboxHonest'
    <3> SUFFICES ASSUME NEW d \in Connections, NEW i \in 1..Len(inbox'[d]),
                        Accepting(d, inbox'[d][i])
                 PROVE  Decided(d)'
      BY DEF InboxHonest, Accepting
    <3>1. inbox[d] \in Seq(Answers)
      BY DEF LoginInv, MailInv
    <3>2. CASE d = p
      <4>1. inbox'[d] = Append(inbox[d], r)
        BY <1>3, <3>2 DEF LoginInv, MailInv
      <4>2. \/ inbox'[d][i] = r
            \/ i \in 1..Len(inbox[d]) /\ inbox'[d][i] = inbox[d][i]
        <5>1. i \in 1..Len(Append(inbox[d], r))
          BY <4>1
        <5> QED
          BY <3>1, <4>1, <5>1, AppendAt
      <4> QED
        BY <1>1, <3>2, <4>2 DEF InboxHonest, LoginInv, MailInv
    <3>3. CASE d # p
      <4>1. inbox'[d] = inbox[d]
        BY <1>3, <3>3 DEF LoginInv, MailInv
      <4> QED
        BY <1>1, <4>1 DEF InboxHonest, LoginInv, MailInv
    <3> QED
      BY <3>2, <3>3
  <2>3. AcceptedIsDecided'
    BY <1>1 DEF AcceptedIsDecided, Decided, LoginInv, MailInv
  <2> QED
    BY <2>1, <2>2, <2>3 DEF LoginInv, MailInv, Tokens
<1> QED
  BY <1>2, <1>3 DEF Send

\* A rejection is sent, and nothing else is done to sessions.
LEMMA RejectKeepsMail ==
  ASSUME LoginInv, [Next]_vars, place \in Handling,
         NEW reason \in {"UnauthorizedPeer", "ServiceNotAllowed"}, Reject(reason)
  PROVE  MailInv'
<1>1. PICK p \in Connections : p = peer
  BY DEF LoginInv, PeerInv
<1>2. /\ Send([kind |-> "Rejected", transaction |-> p, reason |-> reason])
      /\ UNCHANGED <<call, owner, slot>>
  BY <1>1 DEF Reject, Rejected, vars, history
<1>3. [kind |-> "Rejected", transaction |-> p, reason |-> reason] \in Answers
  BY DEF Answers, Rejections
<1>4. ~Accepting(p, [kind |-> "Rejected", transaction |-> p, reason |-> reason])
  BY DEF Accepting
<1>5. /\ \A n \in Tokens : n <= starts => owner'[n] = owner[n]
      /\ owner' \in [Tokens -> Connections \cup {Nobody}]
      /\ slot' # Idle => owner'[slot'.token] = slot'.connection
  BY <1>2 DEF LoginInv, MailInv
<1> QED
  BY <1>1, <1>2, <1>3, <1>4, <1>5, SendKeepsMail

LEMMA AdmitKeepsMail == ASSUME LoginInv, AdmitPeer PROVE MailInv'
<1>1. PICK p \in Connections : p = peer /\ p \in Transactions
  BY LoginAssumption DEF AdmitPeer, LoginInv, PeerInv, Handling
<1>2. Next
  BY HandlerSteps DEF LoginInv
<1>3. UNCHANGED call /\ Start(p, p, now) /\ Recorded /\ starts < MaxStarts
  BY <1>1 DEF AdmitPeer
<1>4. CASE reply' = Started(p) /\ owner' = [owner EXCEPT ![starts'] = p] /\ Send(reply')
  <2>1. /\ starts' = starts + 1 /\ slot'.token = starts + 1 /\ slot'.connection = p
    BY <1>3, <1>4 DEF Start, Refuse, Failed, Started
  <2>2. starts + 1 \in Tokens /\ starts \in Nat
    BY <1>3, StartsAssumption DEF LoginInv, Inv, TypeOK, Tokens
  <2>3. /\ \A n \in Tokens : n <= starts => owner'[n] = owner[n]
        /\ owner' \in [Tokens -> Connections \cup {Nobody}]
        /\ owner'[slot'.token] = slot'.connection
    BY <1>4, <2>1, <2>2 DEF LoginInv, MailInv, Tokens
  <2>4. reply' \in Answers /\ ~Accepting(p, reply')
    BY <1>1, <1>4 DEF Answers, Replies, Accepting, Started
  <2> QED
    BY <1>1, <1>2, <1>3, <1>4, <2>3, <2>4, SendKeepsMail
<1>5. ASSUME NEW e \in {"Busy", "ServiceUnavailable"}, reply' # Started(p),
             UNCHANGED owner,
             Send([kind |-> "Rejected", transaction |-> p, reason |-> e])
      PROVE  MailInv'
  <2>1. UNCHANGED slot
    BY <1>3, <1>5 DEF Start, Refuse
  <2>2. [kind |-> "Rejected", transaction |-> p, reason |-> e] \in Answers
    BY DEF Answers, Rejections
  <2>3. ~Accepting(p, [kind |-> "Rejected", transaction |-> p, reason |-> e])
    BY DEF Accepting
  <2>4. /\ \A n \in Tokens : n <= starts => owner'[n] = owner[n]
        /\ owner' \in [Tokens -> Connections \cup {Nobody}]
        /\ slot' # Idle => owner'[slot'.token] = slot'.connection
    BY <1>5, <2>1 DEF LoginInv, MailInv
  <2> QED
    BY <1>1, <1>2, <1>3, <1>5, <2>2, <2>3, <2>4, SendKeepsMail
<1> QED
  BY <1>1, <1>4, <1>5 DEF AdmitPeer, Rejected

\* A session ends with the decision that is recorded for it, and sent.
LEMMA EngineKeepsMail ==
  ASSUME LoginInv, EngineProgress \/ EngineResult
  PROVE  MailInv'
<1>1. PICK p \in Connections : p = peer /\ p \in Transactions
  BY LoginAssumption DEF EngineProgress, EngineResult, LoginInv, PeerInv, Handling
<1>2. Next
  BY HandlerSteps DEF LoginInv
<1>3. Recorded /\ Send(reply') /\ UNCHANGED <<call, owner>>
  BY DEF EngineProgress, EngineResult, history
<1>4. reply' \in Answers
  BY <1>2, InvStep DEF LoginInv, Inv, TypeOK, Answers
<1>5. PICK d \in PolicyDecisions, at \in {now, captured} :
        Progress(p, p, now) \/ Complete(p, p, d, at)
  BY <1>1 DEF EngineProgress, EngineResult, PolicyDecisions
<1>6. slot' \in {slot, Idle}
  BY <1>5 DEF Progress, Complete, RefuseUnbound, Refuse, Finish, TakeTerminal
<1>7. Accepting(p, reply') => Decided(p)'
  <2> SUFFICES ASSUME Accepting(p, reply') PROVE Decided(p)'
    OBVIOUS
  <2>1. /\ slot # Idle /\ slot.connection = p /\ slot' = Idle
    BY <1>5 DEF Accepting, Progress, Complete, RefuseUnbound, Refuse, Finish,
                TakeTerminal, Bound, Failed, Progressed, Completed
  <2>2. slot.token \in Tokens /\ owner[slot.token] = p
    BY <2>1, StartsAssumption DEF LoginInv, MailInv, Inv, TypeOK, Sessions, Tokens
  <2>3. outcome'[slot.token] = "Accepted"
    BY <1>3, <2>1, <2>2 DEF Recorded, Ends, Accepting, LoginInv, Inv, TypeOK
  <2> QED
    BY <1>3, <2>2, <2>3 DEF Decided, Tokens
<1>8. /\ \A n \in Tokens : n <= starts => owner'[n] = owner[n]
      /\ owner' \in [Tokens -> Connections \cup {Nobody}]
      /\ slot' # Idle => owner'[slot'.token] = slot'.connection
  BY <1>3, <1>6 DEF LoginInv, MailInv
<1> QED
  BY <1>1, <1>2, <1>3, <1>4, <1>7, <1>8, SendKeepsMail

\* Of the steps that send nothing none makes PAM accept.
LEMMA QuietKeepsMail ==
  ASSUME LoginInv, [LoginNext]_loginVars, UNCHANGED <<inbox, owner>>,
         ~(AdmitPeer \/ EngineProgress \/ EngineResult),
         \A c \in Connections : ~ReadResponse(c)
  PROVE  MailInv'
<1>1. [Next]_vars
  BY ManagerStep DEF LoginInv, ServiceInv
<1>2. slot' \in {slot, Idle}
  <2>1. CASE NoticeDeparture
    BY <2>1 DEF NoticeDeparture, Cancel, RefuseUnbound, Refuse, Finish, TakeTerminal
  <2>2. CASE ~NoticeDeparture
    BY <2>2, OtherStepsQuiet DEF vars, Tick
  <2> QED
    BY <2>1, <2>2
<1>3. \A c \in Connections : call'[c] = "accepted" => call[c] = "accepted"
  <2>1. ASSUME NEW c \in Connections, Exit(c) \/ Connect(c) \/ ReadFails(c)
        PROVE  \A d \in Connections : call'[d] = "accepted" => call[d] = "accepted"
    BY <2>1 DEF Exit, Connect, ReadFails, LoginInv, PeerInv
  <2>2. ASSUME NEW c \in Connections, Fork(c) \/ Accept(c) \/ AcceptFails(c)
        PROVE  UNCHANGED call
    BY <2>2 DEF Fork, Accept, AcceptFails, clients
  <2>3. CASE StopListening \/ VerifyPeer \/ OpenExecutable \/ VerifyAgain \/ RefusePeer
    BY <2>3 DEF StopListening, VerifyPeer, OpenExecutable, VerifyAgain, RefusePeer,
                Reject, clients
  <2>4. CASE \/ NoticeDeparture \/ CapturePair \/ ManagementEvent \/ ResetTheScreen
             \/ TimePasses \/ UNCHANGED loginVars
    BY <2>4 DEF NoticeDeparture, CapturePair, ManagementEvent, ResetTheScreen, TimePasses,
                loginVars, clients
  <2> QED
    BY <2>1, <2>2, <2>3, <2>4 DEF LoginNext, PamStep
<1> QED
  BY <1>1, <1>2, <1>3, MailRests

LEMMA MailNext == LoginInv /\ [LoginNext]_loginVars => MailInv'
<1> SUFFICES ASSUME LoginInv, [LoginNext]_loginVars PROVE MailInv'
  OBVIOUS
<1>1. [Next]_vars
  BY ManagerStep DEF LoginInv, ServiceInv
<1>2. CASE AdmitPeer
  BY <1>2, AdmitKeepsMail
<1>3. CASE EngineProgress \/ EngineResult
  BY <1>3, EngineKeepsMail
<1>4. ASSUME NEW c \in Connections, ReadResponse(c) PROVE MailInv'
  BY <1>4, ReadKeepsMail
<1>5. CASE VerifyPeer \/ OpenExecutable \/ VerifyAgain \/ RefusePeer
  <2>1. place \in Handling
    BY <1>5 DEF VerifyPeer, OpenExecutable, VerifyAgain, RefusePeer, Handling
  <2>2. ASSUME NEW r \in {"UnauthorizedPeer", "ServiceNotAllowed"}, Reject(r)
        PROVE  MailInv'
    BY <1>1, <2>1, <2>2, RejectKeepsMail
  <2>3. \A error : RejectionFor(error) \in {"UnauthorizedPeer", "ServiceNotAllowed"}
    BY DEF RejectionFor
  <2>4. \/ \E r \in {"UnauthorizedPeer", "ServiceNotAllowed"} : Reject(r)
        \/ UNCHANGED <<vars, processes, clients, history, screen>>
    BY <1>5, <2>3 DEF VerifyPeer, OpenExecutable, VerifyAgain, RefusePeer
  <2>5. CASE UNCHANGED <<vars, processes, clients, history, screen>>
    BY <1>1, <2>5, MailRests DEF vars, clients, history
  <2> QED
    BY <2>2, <2>4, <2>5
<1>6. CASE /\ ~(AdmitPeer \/ EngineProgress \/ EngineResult)
           /\ \A c \in Connections : ~ReadResponse(c)
           /\ ~(VerifyPeer \/ OpenExecutable \/ VerifyAgain \/ RefusePeer)
  <2>1. UNCHANGED <<inbox, owner>>
    BY <1>6 DEF LoginNext, Fork, Exit, Connect, PamStep, ReadFails, Accept,
                AcceptFails, StopListening, NoticeDeparture, CapturePair, ManagementEvent,
                ResetTheScreen, TimePasses, loginVars, clients, history
  <2> QED
    BY <1>6, <2>1, QuietKeepsMail
<1> QED
  BY <1>2, <1>3, <1>4, <1>5, <1>6

\* PAM succeeds only for a client whose own session was decided to be accepted,
\* whatever it is sent and however late it reads it (exchange).
THEOREM AcceptedCorrect == LoginSpec => []AcceptedIsDecided
<1>1. LoginInit => LoginInv
  BY ServiceInit, MailInit DEF LoginInv, ServiceInv
<1>2. LoginInv /\ [LoginNext]_loginVars => LoginInv'
  BY ServiceNext, MailNext DEF LoginInv, ServiceInv
<1>3. LoginInv => AcceptedIsDecided
  BY DEF LoginInv, MailInv
<1> QED
  BY <1>1, <1>2, <1>3, PTL DEF LoginSpec


-------------------------------------------------------------------------------
(***************************************************************************)
(* The screen.                                                             *)
(***************************************************************************)

\* A screen with an operation either still has it, or shows how it ended.
Keeps(before, after) ==
  /\ after # IdleScreen
  /\ after.flow = before.flow

\* No method of ExperienceModel takes an operation off the screen.
LEMMA MethodsKeep ==
  ASSUME NEW s, ShowsBusy(s)
  PROVE  /\ Keeps(s, s)
         /\ \A f : BeginFlow(s, f) = s
         /\ \A f, p : Keeps(s, ProgressFlow(s, f, p))
         /\ \A f, o : Keeps(s, CompleteFlow(s, f, o))
         /\ \A t : RejectFlow(s, t) = s
         /\ ResetScreen(s) = s
<1>1. s.state = "Active"
  BY DEF ShowsBusy
<1>2. IdleScreen.state = "Idle"
  BY DEF IdleScreen
<1>3. s # IdleScreen
  BY <1>1, <1>2
<1>4. ASSUME NEW f, NEW p PROVE Keeps(s, ProgressFlow(s, f, p))
  <2>1. CASE s.flow = f
    <3>1. ActiveScreen(f, CueOf(p)).state = "Active"
          /\ ActiveScreen(f, CueOf(p)).flow = f
      BY DEF ActiveScreen
    <3>2. ProgressFlow(s, f, p) = ActiveScreen(f, CueOf(p))
      BY <1>1, <2>1 DEF ProgressFlow, RequireActive
    <3>3. QED
      BY <1>2, <2>1, <3>1, <3>2 DEF Keeps
  <2>2. CASE s.flow # f
    BY <1>3, <2>2 DEF ProgressFlow, RequireActive, Keeps
  <2>3. QED
    BY <2>1, <2>2
<1>5. ASSUME NEW f, NEW o PROVE Keeps(s, CompleteFlow(s, f, o))
  <2>1. CASE s.flow = f
    <3>1. TerminalScreen(f, o).state = "Terminal" /\ TerminalScreen(f, o).flow = f
      BY DEF TerminalScreen
    <3>2. CompleteFlow(s, f, o) = TerminalScreen(f, o)
      BY <1>1, <2>1 DEF CompleteFlow, RequireActive
    <3>3. QED
      BY <1>2, <2>1, <3>1, <3>2 DEF Keeps
  <2>2. CASE s.flow # f
    BY <1>3, <2>2 DEF CompleteFlow, RequireActive, Keeps
  <2>3. QED
    BY <2>1, <2>2
<1>6. QED
  BY <1>1, <1>3, <1>4, <1>5 DEF Keeps, BeginFlow, RejectFlow, ResetScreen

\* Whatever clients read in whatever order, however management events and
\* resets fall between: an operation leaves the screen only when the host
\* takes away its result (require_active, reset of ExperienceModel).
THEOREM ScreenCorrect == LoginSpec => ScreenKeepsFlow
<1>1. ASSUME LoginNext, ShowsBusy(screen) PROVE Keeps(screen, screen')
  <2>1. CASE \E c \in Connections : ReadResponse(c)
    <3>1. PICK c \in Connections : screen' = Shown(Head(inbox[c]))
      BY <2>1 DEF ReadResponse
    <3>2. \A response : Keeps(screen, Shown(response))
      BY <1>1, MethodsKeep DEF Shown
    <3>3. QED
      BY <3>1, <3>2
  <2>2. CASE ManagementEvent
    BY <1>1, <2>2, MethodsKeep DEF ManagementEvent
  <2>3. CASE ResetTheScreen
    BY <1>1, <2>3, MethodsKeep DEF ResetTheScreen
  <2>4. CASE /\ \A c \in Connections : ~ReadResponse(c)
             /\ ~ManagementEvent /\ ~ResetTheScreen
    <3>1. screen' = screen
      BY <1>1, <2>4 DEF LoginNext, Fork, Exit, Connect, PamStep, ReadFails,
           Accept, AcceptFails, StopListening, VerifyPeer, OpenExecutable,
           VerifyAgain, RefusePeer, Reject, AdmitPeer, EngineProgress,
           EngineResult, NoticeDeparture, CapturePair, TimePasses
    <3>2. QED
      BY <1>1, <3>1, MethodsKeep
  <2>5. QED
    BY <2>1, <2>2, <2>3, <2>4
<1>2. QED
  BY <1>1, PTL DEF LoginSpec, ScreenKeepsFlow, Keeps

===============================================================================
