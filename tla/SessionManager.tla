---------------------------- MODULE SessionManager ----------------------------
(***************************************************************************)
(* The single-slot authentication transaction manager of faceauth-session. *)
(*                                                                         *)
(* The module holds the manager's state and one action per method.  It has *)
(* no behaviour of its own: Session drives it with every caller the API    *)
(* admits, and AuthDaemon with the daemon's connection coordinator.        *)
(*                                                                         *)
(* A method's result is the value it gives to reply.  Each started session *)
(* owns one CancellationToken; it is named by the ordinal of the start.    *)
(*                                                                         *)
(* A definition whose name begins with Slip is a deliberate error in the   *)
(* definition after it.  No specification uses it: it stands in for that   *)
(* definition to show that a property can fail.                            *)
(***************************************************************************)
EXTENDS Naturals

CONSTANTS
  Connections,   \* ConnectionToken values
  Transactions,  \* TransactionId values
  Duration,      \* SessionConfig::transaction_duration_micros
  ClockMax,      \* u64::MAX, the largest monotonic time
  Idle           \* Option::None for the active slot

Sessions ==
  [connection : Connections, transaction : Transactions,
   deadline : 0..ClockMax, token : Nat \ {0}]

ASSUME SessionAssumption ==
  /\ Duration \in Nat \ {0}
  /\ ClockMax \in Nat
  /\ Idle \notin Sessions

VARIABLES
  slot,       \* SessionManager::active
  starts,     \* sessions started so far; the last one's token
  signalled,  \* tokens whose cancelled flag is set
  reply       \* result of the last call

\* Decisions a caller of complete may supply.  Refused stands for the six
\* policy refusals, which the manager treats alike.
PolicyDecisions == {"Accepted", "Refused", "InternalError"}
ReservedDecisions == {"Cancelled", "TimedOut"}
Decisions == PolicyDecisions \cup ReservedDecisions

Errors == {"Busy", "DeadlineOverflow", "NoActiveTransaction",
           "WrongConnection", "WrongTransaction", "ReservedDecision"}

NoReply == [kind |-> "None"]
Started(t) == [kind |-> "Started", transaction |-> t]
Progressed(t) == [kind |-> "Progress", transaction |-> t]
Completed(t, d) == [kind |-> "Completed", transaction |-> t, decision |-> d]
Failed(e) == [kind |-> "Error", error |-> e]

Replies ==
  {NoReply} \cup {Started(t) : t \in Transactions}
            \cup {Progressed(t) : t \in Transactions}
            \cup {Completed(t, d) : t \in Transactions, d \in Decisions}
            \cup {Failed(e) : e \in Errors}

-------------------------------------------------------------------------------

ManagerInit ==
  /\ slot = Idle
  /\ starts = 0
  /\ signalled = {}
  /\ reply = NoReply

Refuse(error) ==
  /\ reply' = Failed(error)
  /\ UNCHANGED <<slot, starts, signalled>>

Bound(c, t) ==
  /\ slot # Idle
  /\ slot.connection = c
  /\ slot.transaction = t

\* verify_binding: the connection is compared before the transaction.
RefuseUnbound(c, t) ==
  \/ slot = Idle /\ Refuse("NoActiveTransaction")
  \/ slot # Idle /\ slot.connection # c /\ Refuse("WrongConnection")
  \/ /\ slot # Idle
     /\ slot.connection = c
     /\ slot.transaction # t
     /\ Refuse("WrongTransaction")

\* The deadline itself still counts as in time.
SlipDeadlineReached(at) == at > slot.deadline

DeadlineReached(at) == at >= slot.deadline

\* The session leaves the slot without its worker being told.
SlipTakeTerminal(decision) ==
  /\ reply' = Completed(slot.transaction, decision)
  /\ slot' = Idle
  /\ UNCHANGED <<starts, signalled>>

\* take_terminal: empty the slot, set its token's flag, answer the session's
\* own transaction.
TakeTerminal(decision) ==
  /\ reply' = Completed(slot.transaction, decision)
  /\ slot' = Idle
  /\ signalled' = signalled \cup {slot.token}
  /\ UNCHANGED starts

\* The end of a session at time at, unless its deadline came first.
Finish(decision, at) ==
  \/ DeadlineReached(at) /\ TakeTerminal("TimedOut")
  \/ ~DeadlineReached(at) /\ TakeTerminal(decision)

\* A session gets the cancellation token of the one before it.
SlipStartShares(c, t, at) ==
  \/ slot # Idle /\ Refuse("Busy")
  \/ slot = Idle /\ at + Duration > ClockMax /\ Refuse("DeadlineOverflow")
  \/ /\ slot = Idle
     /\ at + Duration <= ClockMax
     /\ starts' = 1
     /\ slot' = [connection |-> c, transaction |-> t,
                 deadline |-> at + Duration, token |-> starts']
     /\ reply' = Started(t)
     /\ UNCHANGED signalled

Start(c, t, at) ==
  \/ slot # Idle /\ Refuse("Busy")
  \/ slot = Idle /\ at + Duration > ClockMax /\ Refuse("DeadlineOverflow")
  \/ /\ slot = Idle
     /\ at + Duration <= ClockMax
     /\ slot' = [connection |-> c, transaction |-> t,
                 deadline |-> at + Duration, token |-> starts + 1]
     /\ starts' = starts + 1
     /\ reply' = Started(t)
     /\ UNCHANGED signalled

Progress(c, t, at) ==
  \/ RefuseUnbound(c, t)
  \/ Bound(c, t) /\ DeadlineReached(at) /\ TakeTerminal("TimedOut")
  \/ /\ Bound(c, t)
     /\ ~DeadlineReached(at)
     /\ reply' = Progressed(t)
     /\ UNCHANGED <<slot, starts, signalled>>

Complete(c, t, decision, at) ==
  \/ decision \in ReservedDecisions /\ Refuse("ReservedDecision")
  \/ decision \notin ReservedDecisions /\ RefuseUnbound(c, t)
  \/ decision \notin ReservedDecisions /\ Bound(c, t) /\ Finish(decision, at)

Cancel(c, t, at) ==
  \/ RefuseUnbound(c, t)
  \/ Bound(c, t) /\ Finish("Cancelled", at)

Expire(at) ==
  IF slot # Idle /\ DeadlineReached(at)
  THEN TakeTerminal("TimedOut")
  ELSE reply' = NoReply /\ UNCHANGED <<slot, starts, signalled>>

===============================================================================
