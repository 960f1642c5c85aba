---------------------------- MODULE VersionedTemplate --------------------------
(***************************************************************************)
(* What the template store promises its callers about one account: the     *)
(* template is a register; each call updates it at most once, in one step, *)
(* to the next generation; a conditional call does so only while the       *)
(* register holds the very payload its caller loaded; and a loss of power  *)
(* undoes no acknowledged update.                                          *)
(***************************************************************************)
EXTENDS Naturals

CONSTANTS
  Callers,
  Payloads,   \* what the register holds; each has a state and a generation
  Requests,   \* the calls; each has a kind and the record it stores
  Unseen,     \* the caller has loaded no live payload
  Resting,    \* the caller has no call in progress
  Done        \* its call has made its update

VARIABLES
  template,      \* the payload a load returns
  acknowledged,  \* the generation of the newest acknowledged update
  seen,          \* seen[c]: the live payload c loaded last
  request        \* request[c]: what c's call has yet to do

vars == <<template, acknowledged, seen, request>>

Init ==
  /\ template \in {p \in Payloads : p.generation = 0}
  /\ acknowledged = 0
  /\ seen = [c \in Callers |-> Unseen]
  /\ request = [c \in Callers |-> Resting]

Load(c) ==
  /\ request[c] = Resting
  /\ seen' = [seen EXCEPT ![c] = IF template.state = "live" THEN template ELSE Unseen]
  /\ UNCHANGED <<template, acknowledged, request>>

Ask(c) ==
  /\ request[c] = Resting
  /\ \E r \in Requests : request' = [request EXCEPT ![c] = r]
  /\ UNCHANGED <<template, acknowledged, seen>>

\* A save meets any payload, the other calls a live one.
Permitted(c, r) ==
  /\ r.kind # "save" => template.state = "live"
  /\ r.kind \in {"replace", "deleteIf"} => template = seen[c]

Update(c) ==
  /\ request[c] \in Requests
  /\ Permitted(c, request[c])
  /\ template' =
       [state |-> IF request[c].kind \in {"save", "replace"} THEN "live" ELSE "deleted",
        generation |-> template.generation + 1,
        record |-> request[c].record]
  /\ request' = [request EXCEPT ![c] = Done]
  /\ UNCHANGED <<acknowledged, seen>>

\* Success is reported of an update that has been made.
Acknowledge(c) ==
  /\ request[c] = Done
  /\ acknowledged' = template.generation
  /\ request' = [request EXCEPT ![c] = Resting]
  /\ UNCHANGED <<template, seen>>

\* A call may fail before its update or after it; a caller may end.
Abandon(c) ==
  /\ request' = [request EXCEPT ![c] = Resting]
  /\ seen' \in {seen, [seen EXCEPT ![c] = Unseen]}
  /\ UNCHANGED <<template, acknowledged>>

LosePower ==
  /\ template' \in {p \in Payloads : p.generation \in acknowledged..template.generation}
  /\ seen' = [c \in Callers |-> Unseen]
  /\ request' = [c \in Callers |-> Resting]
  /\ UNCHANGED acknowledged

Next ==
  \/ LosePower
  \/ \E c \in Callers :
       Load(c) \/ Ask(c) \/ Update(c) \/ Acknowledge(c) \/ Abandon(c)

Spec == Init /\ [][Next]_vars

===============================================================================
