-------------------------------- MODULE Session -------------------------------
(***************************************************************************)
(* SessionManager under every caller its interface admits: any connection  *)
(* may call any method with any transaction, at the time the daemon's      *)
(* monotonic clock shows, or, with a decision, at one it has shown: that   *)
(* of the evidence the decision rests on.                                  *)
(***************************************************************************)
EXTENDS SessionManager

CONSTANT MaxStarts   \* bound on the sessions of one behaviour

ASSUME StartsAssumption == MaxStarts \in Nat

VARIABLES
  now,      \* the monotonic clock
  outcome   \* history: outcome[n] is the terminal decision of session n

vars == <<slot, starts, signalled, reply, now, outcome>>

Tokens == 1..MaxStarts

Init ==
  /\ ManagerInit
  /\ now = 0
  /\ outcome = [n \in Tokens |-> "none"]

\* The session in the slot ends in this step.
Ends == slot # Idle /\ slot' = Idle

\* Every method call keeps the clock; one that empties the slot records why.
Recorded ==
  /\ now' = now
  /\ outcome' = IF Ends
                THEN [outcome EXCEPT ![slot.token] = reply'.decision]
                ELSE outcome

CallStart ==
  /\ starts < MaxStarts
  /\ \E c \in Connections, t \in Transactions : Start(c, t, now)
  /\ Recorded

CallProgress ==
  \E c \in Connections, t \in Transactions : Progress(c, t, now) /\ Recorded

CallComplete ==
  \E c \in Connections, t \in Transactions, d \in Decisions, at \in 0..now :
    Complete(c, t, d, at) /\ Recorded

CallCancel ==
  \E c \in Connections, t \in Transactions : Cancel(c, t, now) /\ Recorded

CallExpire == Expire(now) /\ Recorded

Tick ==
  /\ now < ClockMax
  /\ now' = now + 1
  /\ UNCHANGED <<slot, starts, signalled, reply, outcome>>

Next ==
  \/ CallStart
  \/ CallProgress
  \/ CallComplete
  \/ CallCancel
  \/ CallExpire
  \/ Tick

Spec == Init /\ [][Next]_vars

-------------------------------------------------------------------------------
(***************************************************************************)
(* Properties.                                                             *)
(***************************************************************************)

\* The values of the variables.
TypeOK ==
  /\ slot \in Sessions \cup {Idle}
  /\ starts \in 0..MaxStarts
  /\ signalled \subseteq Tokens
  /\ reply \in Replies
  /\ now \in 0..ClockMax
  /\ outcome \in [Tokens -> Decisions \cup {"none"}]

\* The token in the slot, if any.
ActiveToken == IF slot = Idle THEN {} ELSE {slot.token}

\* A worker that holds a session's token sees it set exactly when the session
\* has ended: every way out of the slot (completion, cancellation, timeout
\* found by progress, expire) signals it, and nothing signals it earlier.
TokenFollowsSlot == signalled = (1..starts) \ ActiveToken

\* Every started session but the active one has ended with exactly one
\* decision, and no decision exists for a session that was never started.
DecidedOnce ==
  \A n \in Tokens : outcome[n] # "none" <=> n \in (1..starts) \ ActiveToken

\* A recorded decision is never replaced: no late completion, second cancel or
\* expire can speak for a session that has ended.
DecisionStands ==
  [][\A n \in Tokens : outcome[n] # "none" => outcome'[n] = outcome[n]]_vars

\* Session implements OneShot.
PhaseOf(n) ==
  IF n > starts THEN "unborn"
  ELSE IF n \in ActiveToken THEN "active"
  ELSE outcome[n]

Promise == INSTANCE OneShot WITH
  Operations <- Tokens,
  Results <- Decisions,
  phase <- [n \in Tokens |-> PhaseOf(n)]

\* The manager is a one-shot, single-capacity service: sessions are serial and
\* each has one final decision.
ImplementsOneShot == Promise!Spec

===============================================================================
