------------------------- MODULE ManagementCoordinator ------------------------
(***************************************************************************)
(* The single-slot enrollment operation coordinator of faceauth-management.*)
(*                                                                         *)
(* The module holds the coordinator's state and one action per method, as  *)
(* SessionManager does for authentication.  It differs from the session    *)
(* manager in what a caller must present (a UID, then the operation), in   *)
(* minting the identifier itself, and in having no cancellation token: the *)
(* worker's cancellation belongs to the controller of EnrollmentControl.   *)
(*                                                                         *)
(* A method's result is the value it gives to reply.  Operation            *)
(* identifiers are random; here they are numbered in the order of issue.   *)
(* Slip definitions are deliberate errors, as in SessionManager.           *)
(***************************************************************************)
EXTENDS Naturals

CONSTANTS
  Uids,      \* numeric accounts
  Duration,  \* ManagementConfig::operation_duration_micros
  ClockMax,  \* u64::MAX
  Idle       \* Option::None for the active slot

Operations ==
  [id : Nat \ {0}, uid : Uids, deadline : 0..ClockMax]

ASSUME ManagementAssumption ==
  /\ Duration \in Nat \ {0}
  /\ ClockMax \in Nat
  /\ Idle \notin Operations

VARIABLES
  operation,  \* ManagementCoordinator::active
  issued,     \* operations started so far; the newest identifier
  reply       \* result of the last call

WorkerResults == {"Completed", "Failed"}
ReservedResults == {"Cancelled", "TimedOut"}
Results == WorkerResults \cup ReservedResults

Errors == {"Busy", "DeadlineOverflow", "NoActiveOperation", "WrongUid",
           "WrongOperation", "ReservedResult"}

NoReply == [kind |-> "None"]
Progressed(o) == [kind |-> "Progress", id |-> o]
Completed(o, r) == [kind |-> "Completed", id |-> o, result |-> r]
Failed(e) == [kind |-> "Error", error |-> e]

-------------------------------------------------------------------------------

CoordinatorInit ==
  /\ operation = Idle
  /\ issued = 0
  /\ reply = NoReply

Refuse(error) ==
  /\ reply' = Failed(error)
  /\ UNCHANGED <<operation, issued>>

Bound(u, o) ==
  /\ operation # Idle
  /\ operation.uid = u
  /\ operation.id = o

\* verify: the account is compared before the identifier.
RefuseUnbound(u, o) ==
  \/ operation = Idle /\ Refuse("NoActiveOperation")
  \/ operation # Idle /\ operation.uid # u /\ Refuse("WrongUid")
  \/ /\ operation # Idle
     /\ operation.uid = u
     /\ operation.id # o
     /\ Refuse("WrongOperation")

DeadlineReached(at) == at >= operation.deadline

\* The operation is answered and stays in the slot.
SlipTakeTerminal(result) ==
  /\ reply' = Completed(operation.id, result)
  /\ UNCHANGED <<operation, issued>>

TakeTerminal(result) ==
  /\ reply' = Completed(operation.id, result)
  /\ operation' = Idle
  /\ UNCHANGED issued

\* The end of an operation at time at, unless its deadline came first.
Finish(result, at) ==
  \/ DeadlineReached(at) /\ TakeTerminal("TimedOut")
  \/ ~DeadlineReached(at) /\ TakeTerminal(result)

Start(u, at) ==
  \/ operation # Idle /\ Refuse("Busy")
  \/ operation = Idle /\ at + Duration > ClockMax /\ Refuse("DeadlineOverflow")
  \/ /\ operation = Idle
     /\ at + Duration <= ClockMax
     /\ operation' = [id |-> issued + 1, uid |-> u, deadline |-> at + Duration]
     /\ issued' = issued + 1
     /\ reply' = Progressed(issued + 1)

Progress(u, o, at) ==
  \/ RefuseUnbound(u, o)
  \/ Bound(u, o) /\ DeadlineReached(at) /\ TakeTerminal("TimedOut")
  \/ /\ Bound(u, o)
     /\ ~DeadlineReached(at)
     /\ reply' = Progressed(o)
     /\ UNCHANGED <<operation, issued>>

Cancel(u, o, at) ==
  \/ RefuseUnbound(u, o)
  \/ Bound(u, o) /\ Finish("Cancelled", at)

\* A reserved result is refused before the binding is looked at.
Complete(u, o, result, at) ==
  \/ result \in ReservedResults /\ Refuse("ReservedResult")
  \/ result \notin ReservedResults /\ RefuseUnbound(u, o)
  \/ result \notin ReservedResults /\ Bound(u, o) /\ Finish(result, at)

Expire(at) ==
  IF operation # Idle /\ DeadlineReached(at)
  THEN TakeTerminal("TimedOut")
  ELSE reply' = NoReply /\ UNCHANGED <<operation, issued>>

===============================================================================
