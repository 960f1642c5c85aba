---------------------------- MODULE SupervisorProofs --------------------------
(***************************************************************************)
(* Proofs about Supervisor, for any services, any of them waiting or       *)
(* cooperative, and any grace period.                                      *)
(***************************************************************************)
EXTENDS Supervisor, TLAPS

\* The requester has made the request, and so has whoever started the grace
\* period or let the supervisor go.
RequestFirst ==
  /\ drainer # Nobody => requested
  /\ started => requested
  /\ verdict # "none" => requested /\ main = "returned"

\* Until the list of waiters is drained, every registered waker is in it; a
\* service that is about to sleep, or sleeps, has registered one.
WakersListed ==
  /\ ~requested \/ drainer # Nobody => registered \subseteq waiters
  /\ \A s \in Services : place[s] \in {"look", "parked"} => s \in registered

\* Events and joins are of services that returned; as long as no failure is
\* pending, those joined completed.
JoinsAreSound ==
  /\ \A s \in Services : s \in stopped \cup events => place[s] = "returned"
  /\ \A s \in Services : place[s] = "returned" => outcome[s] \in Outcomes
  /\ pending = "none" => \A s \in stopped : outcome[s] = "Completed"
  /\ verdict = "Ok" => stopped = Services /\ pending = "none"

\* The grace period never runs ahead of the request.
GraceFollowsRequest ==
  /\ started => elapsed <= notice
  /\ verdict = "Timeout" => notice = Grace

\* The inductive invariant.
Inv ==
  /\ TypeOK
  /\ RequestFirst
  /\ WakersListed
  /\ NoWaiterLost
  /\ JoinsAreSound
  /\ GraceFollowsRequest

-------------------------------------------------------------------------------

\* The clocks may be set to zero.
LEMMA ZeroInRange == 0 \in 0..Grace
BY SupervisorAssumption

\* Every step keeps the types.
LEMMA TypeStep ==
  ASSUME TypeOK, [Next]_vars
  PROVE  TypeOK'
<1> USE SupervisorAssumption, ZeroInRange DEF TypeOK, Places, Outcomes, Failures,
         vars, token, threads, supervisor, times
<1>1. CASE \E s \in Services : Spawn(s)
  <2>1. PICK s \in Services : Spawn(s)
    BY <1>1
  <2>2. QED
    BY <2>1 DEF Spawn, Moves
<1>2. CASE SpawnFails
  BY <1>2 DEF SpawnFails, Leaves, Request
<1>3. CASE RunUntil
  BY <1>3 DEF RunUntil
<1>4. CASE AskOutside
  BY <1>4 DEF AskOutside, Request, StartGrace
<1>5. CASE \E s \in Services : ReceiveEvent(s)
  <2>1. PICK s \in Services : ReceiveEvent(s)
    BY <1>5
  <2>2. QED
    BY <2>1 DEF ReceiveEvent, Keeps, FailureOf, Request, StartGrace, Free
<1>6. CASE ReceiveTimeout
  BY <1>6 DEF ReceiveTimeout
<1>7. CASE Report
  BY <1>7 DEF Report, Leaves, Request
<1>8. CASE GiveUp
  BY <1>8 DEF GiveUp, Leaves, Request
<1>9. CASE GoOn
  BY <1>9 DEF GoOn, StartGrace
<1>10. CASE \E s \in Services : PollFuture(s)
  <2>1. PICK s \in Services : PollFuture(s)
    BY <1>10
  <2>2. QED
    BY <2>1 DEF PollFuture, Moves
<1>11. CASE \E s \in Services : RegisterWaker(s)
  <2>1. PICK s \in Services : RegisterWaker(s)
    BY <1>11
  <2>2. QED
    BY <2>1 DEF RegisterWaker, Moves
<1>12. CASE \E s \in Services : LookAgain(s)
  <2>1. PICK s \in Services : LookAgain(s)
    BY <1>12
  <2>2. QED
    BY <2>1 DEF LookAgain, Moves
<1>13. CASE \E s \in Services : Wake(s)
  <2>1. PICK s \in Services : Wake(s)
    BY <1>13
  <2>2. QED
    BY <2>1 DEF Wake, Moves
<1>14. CASE \E s \in Services : OtherWork(s)
  <2>1. PICK s \in Services : OtherWork(s)
    BY <1>14
  <2>2. QED
    BY <2>1 DEF OtherWork, Moves
<1>15. CASE \E s \in Services : Ends(s)
  <2>1. PICK s \in Services, how \in Outcomes :
                 place[s] \in {"running", "parked"} /\ Returns(s, how)
    BY <1>15 DEF Ends, Stops, Outcomes
  <2>2. QED
    BY <2>1 DEF Returns, Moves
<1>16. CASE \E s \in Services : Stops(s)
  <2>1. PICK s \in Services, how \in Outcomes :
                 place[s] \in {"running", "ready"} /\ Returns(s, how)
    BY <1>16 DEF Ends, Stops, Outcomes
  <2>2. QED
    BY <2>1 DEF Returns, Moves
<1>17. CASE \E s \in Services : Requests(s)
  <2>1. PICK s \in Services : Requests(s)
    BY <1>17
  <2>2. QED
    BY <2>1 DEF Requests, Request
<1>18. CASE Drain
  BY <1>18 DEF Drain
<1>19. CASE Tick
  BY <1>19 DEF Tick, Later
<1>20. CASE UNCHANGED vars
  BY <1>20
<1>21. QED
  BY <1>1, <1>2, <1>3, <1>4, <1>5, <1>6, <1>7, <1>8, <1>9, <1>10,
     <1>11, <1>12, <1>13, <1>14, <1>15, <1>16, <1>17, <1>18, <1>19, <1>20
     DEF Next, MainStep, FutureStep

\* Nothing precedes the request.
LEMMA RequestStep ==
  ASSUME TypeOK, RequestFirst, [Next]_vars
  PROVE  RequestFirst'
<1> USE SupervisorAssumption, ZeroInRange DEF TypeOK, RequestFirst,
         vars, token, threads, supervisor, times
<1>1. CASE \E s \in Services : Spawn(s)
  <2>1. PICK s \in Services : Spawn(s)
    BY <1>1
  <2>2. QED
    BY <2>1 DEF Spawn, Moves
<1>2. CASE SpawnFails
  BY <1>2 DEF SpawnFails, Leaves, Request
<1>3. CASE RunUntil
  BY <1>3 DEF RunUntil
<1>4. CASE AskOutside
  BY <1>4 DEF AskOutside, Request, StartGrace
<1>5. CASE \E s \in Services : ReceiveEvent(s)
  <2>1. PICK s \in Services : ReceiveEvent(s)
    BY <1>5
  <2>2. QED
    BY <2>1 DEF ReceiveEvent, Keeps, FailureOf, Request, StartGrace, Free
<1>6. CASE ReceiveTimeout
  BY <1>6 DEF ReceiveTimeout
<1>7. CASE Report
  BY <1>7 DEF Report, Leaves, Request
<1>8. CASE GiveUp
  BY <1>8 DEF GiveUp, Leaves, Request
<1>9. CASE GoOn
  BY <1>9 DEF GoOn, StartGrace
<1>10. CASE \E s \in Services : PollFuture(s)
  <2>1. PICK s \in Services : PollFuture(s)
    BY <1>10
  <2>2. QED
    BY <2>1 DEF PollFuture, Moves
<1>11. CASE \E s \in Services : RegisterWaker(s)
  <2>1. PICK s \in Services : RegisterWaker(s)
    BY <1>11
  <2>2. QED
    BY <2>1 DEF RegisterWaker, Moves
<1>12. CASE \E s \in Services : LookAgain(s)
  <2>1. PICK s \in Services : LookAgain(s)
    BY <1>12
  <2>2. QED
    BY <2>1 DEF LookAgain, Moves
<1>13. CASE \E s \in Services : Wake(s)
  <2>1. PICK s \in Services : Wake(s)
    BY <1>13
  <2>2. QED
    BY <2>1 DEF Wake, Moves
<1>14. CASE \E s \in Services : OtherWork(s)
  <2>1. PICK s \in Services : OtherWork(s)
    BY <1>14
  <2>2. QED
    BY <2>1 DEF OtherWork, Moves
<1>15. CASE \E s \in Services : Ends(s)
  <2>1. PICK s \in Services, how \in Outcomes :
                 place[s] \in {"running", "parked"} /\ Returns(s, how)
    BY <1>15 DEF Ends, Stops, Outcomes
  <2>2. QED
    BY <2>1 DEF Returns, Moves
<1>16. CASE \E s \in Services : Stops(s)
  <2>1. PICK s \in Services, how \in Outcomes :
                 place[s] \in {"running", "ready"} /\ Returns(s, how)
    BY <1>16 DEF Ends, Stops, Outcomes
  <2>2. QED
    BY <2>1 DEF Returns, Moves
<1>17. CASE \E s \in Services : Requests(s)
  <2>1. PICK s \in Services : Requests(s)
    BY <1>17
  <2>2. QED
    BY <2>1 DEF Requests, Request
<1>18. CASE Drain
  BY <1>18 DEF Drain
<1>19. CASE Tick
  BY <1>19 DEF Tick, Later
<1>20. CASE UNCHANGED vars
  BY <1>20
<1>21. QED
  BY <1>1, <1>2, <1>3, <1>4, <1>5, <1>6, <1>7, <1>8, <1>9, <1>10,
     <1>11, <1>12, <1>13, <1>14, <1>15, <1>16, <1>17, <1>18, <1>19, <1>20
     DEF Next, MainStep, FutureStep

\* No waker leaves the list before it is called.
LEMMA WakersStep ==
  ASSUME TypeOK, RequestFirst, WakersListed, NoWaiterLost, [Next]_vars
  PROVE  WakersListed' /\ NoWaiterLost'
<1> USE SupervisorAssumption, ZeroInRange DEF TypeOK, RequestFirst, WakersListed, NoWaiterLost,
         vars, token, threads, supervisor, times
<1>1. CASE \E s \in Services : Spawn(s)
  <2>1. PICK s \in Services : Spawn(s)
    BY <1>1
  <2>2. QED
    BY <2>1 DEF Spawn, Moves
<1>2. CASE SpawnFails
  BY <1>2 DEF SpawnFails, Leaves, Request
<1>3. CASE RunUntil
  BY <1>3 DEF RunUntil
<1>4. CASE AskOutside
  BY <1>4 DEF AskOutside, Request, StartGrace
<1>5. CASE \E s \in Services : ReceiveEvent(s)
  <2>1. PICK s \in Services : ReceiveEvent(s)
    BY <1>5
  <2>2. QED
    BY <2>1 DEF ReceiveEvent, Keeps, FailureOf, Request, StartGrace, Free
<1>6. CASE ReceiveTimeout
  BY <1>6 DEF ReceiveTimeout
<1>7. CASE Report
  BY <1>7 DEF Report, Leaves, Request
<1>8. CASE GiveUp
  BY <1>8 DEF GiveUp, Leaves, Request
<1>9. CASE GoOn
  BY <1>9 DEF GoOn, StartGrace
<1>10. CASE \E s \in Services : PollFuture(s)
  <2>1. PICK s \in Services : PollFuture(s)
    BY <1>10
  <2>2. QED
    BY <2>1 DEF PollFuture, Moves
<1>11. CASE \E s \in Services : RegisterWaker(s)
  <2>1. PICK s \in Services : RegisterWaker(s)
    BY <1>11
  <2>2. QED
    BY <2>1 DEF RegisterWaker, Moves
<1>12. CASE \E s \in Services : LookAgain(s)
  <2>1. PICK s \in Services : LookAgain(s)
    BY <1>12
  <2>2. QED
    BY <2>1 DEF LookAgain, Moves
<1>13. CASE \E s \in Services : Wake(s)
  <2>1. PICK s \in Services : Wake(s)
    BY <1>13
  <2>2. QED
    BY <2>1 DEF Wake, Moves
<1>14. CASE \E s \in Services : OtherWork(s)
  <2>1. PICK s \in Services : OtherWork(s)
    BY <1>14
  <2>2. QED
    BY <2>1 DEF OtherWork, Moves
<1>15. CASE \E s \in Services : Ends(s)
  <2>1. PICK s \in Services, how \in Outcomes :
                 place[s] \in {"running", "parked"} /\ Returns(s, how)
    BY <1>15 DEF Ends, Stops, Outcomes
  <2>2. QED
    BY <2>1 DEF Returns, Moves
<1>16. CASE \E s \in Services : Stops(s)
  <2>1. PICK s \in Services, how \in Outcomes :
                 place[s] \in {"running", "ready"} /\ Returns(s, how)
    BY <1>16 DEF Ends, Stops, Outcomes
  <2>2. QED
    BY <2>1 DEF Returns, Moves
<1>17. CASE \E s \in Services : Requests(s)
  <2>1. PICK s \in Services : Requests(s)
    BY <1>17
  <2>2. QED
    BY <2>1 DEF Requests, Request
<1>18. CASE Drain
  BY <1>18 DEF Drain
<1>19. CASE Tick
  BY <1>19 DEF Tick, Later
<1>20. CASE UNCHANGED vars
  BY <1>20
<1>21. QED
  BY <1>1, <1>2, <1>3, <1>4, <1>5, <1>6, <1>7, <1>8, <1>9, <1>10,
     <1>11, <1>12, <1>13, <1>14, <1>15, <1>16, <1>17, <1>18, <1>19, <1>20
     DEF Next, MainStep, FutureStep

\* Joins record what the services did.
LEMMA JoinsStep ==
  ASSUME TypeOK, RequestFirst, JoinsAreSound, [Next]_vars
  PROVE  JoinsAreSound'
<1> USE SupervisorAssumption, ZeroInRange DEF TypeOK, RequestFirst, JoinsAreSound, Outcomes, Failures,
         vars, token, threads, supervisor, times
<1>1. CASE \E s \in Services : Spawn(s)
  <2>1. PICK s \in Services : Spawn(s)
    BY <1>1
  <2>2. QED
    BY <2>1 DEF Spawn, Moves
<1>2. CASE SpawnFails
  BY <1>2 DEF SpawnFails, Leaves, Request
<1>3. CASE RunUntil
  BY <1>3 DEF RunUntil
<1>4. CASE AskOutside
  BY <1>4 DEF AskOutside, Request, StartGrace
<1>5. CASE \E s \in Services : ReceiveEvent(s)
  <2>1. PICK s \in Services : ReceiveEvent(s)
    BY <1>5
  <2>2. QED
    BY <2>1 DEF ReceiveEvent, Keeps, FailureOf, Request, StartGrace, Free
<1>6. CASE ReceiveTimeout
  BY <1>6 DEF ReceiveTimeout
<1>7. CASE Report
  BY <1>7 DEF Report, Leaves, Request
<1>8. CASE GiveUp
  BY <1>8 DEF GiveUp, Leaves, Request
<1>9. CASE GoOn
  BY <1>9 DEF GoOn, StartGrace
<1>10. CASE \E s \in Services : PollFuture(s)
  <2>1. PICK s \in Services : PollFuture(s)
    BY <1>10
  <2>2. QED
    BY <2>1 DEF PollFuture, Moves
<1>11. CASE \E s \in Services : RegisterWaker(s)
  <2>1. PICK s \in Services : RegisterWaker(s)
    BY <1>11
  <2>2. QED
    BY <2>1 DEF RegisterWaker, Moves
<1>12. CASE \E s \in Services : LookAgain(s)
  <2>1. PICK s \in Services : LookAgain(s)
    BY <1>12
  <2>2. QED
    BY <2>1 DEF LookAgain, Moves
<1>13. CASE \E s \in Services : Wake(s)
  <2>1. PICK s \in Services : Wake(s)
    BY <1>13
  <2>2. QED
    BY <2>1 DEF Wake, Moves
<1>14. CASE \E s \in Services : OtherWork(s)
  <2>1. PICK s \in Services : OtherWork(s)
    BY <1>14
  <2>2. QED
    BY <2>1 DEF OtherWork, Moves
<1>15. CASE \E s \in Services : Ends(s)
  <2>1. PICK s \in Services, how \in Outcomes :
                 place[s] \in {"running", "parked"} /\ Returns(s, how)
    BY <1>15 DEF Ends, Stops, Outcomes
  <2>2. QED
    BY <2>1 DEF Returns, Moves
<1>16. CASE \E s \in Services : Stops(s)
  <2>1. PICK s \in Services, how \in Outcomes :
                 place[s] \in {"running", "ready"} /\ Returns(s, how)
    BY <1>16 DEF Ends, Stops, Outcomes
  <2>2. QED
    BY <2>1 DEF Returns, Moves
<1>17. CASE \E s \in Services : Requests(s)
  <2>1. PICK s \in Services : Requests(s)
    BY <1>17
  <2>2. QED
    BY <2>1 DEF Requests, Request
<1>18. CASE Drain
  BY <1>18 DEF Drain
<1>19. CASE Tick
  BY <1>19 DEF Tick, Later
<1>20. CASE UNCHANGED vars
  BY <1>20
<1>21. QED
  BY <1>1, <1>2, <1>3, <1>4, <1>5, <1>6, <1>7, <1>8, <1>9, <1>10,
     <1>11, <1>12, <1>13, <1>14, <1>15, <1>16, <1>17, <1>18, <1>19, <1>20
     DEF Next, MainStep, FutureStep

\* The grace period starts with or after the request.
LEMMA GraceStep ==
  ASSUME TypeOK, RequestFirst, GraceFollowsRequest, [Next]_vars
  PROVE  GraceFollowsRequest'
<1> USE SupervisorAssumption, ZeroInRange DEF TypeOK, RequestFirst, GraceFollowsRequest, Failures,
         vars, token, threads, supervisor, times
<1>1. CASE \E s \in Services : Spawn(s)
  <2>1. PICK s \in Services : Spawn(s)
    BY <1>1
  <2>2. QED
    BY <2>1 DEF Spawn, Moves
<1>2. CASE SpawnFails
  BY <1>2 DEF SpawnFails, Leaves, Request
<1>3. CASE RunUntil
  BY <1>3 DEF RunUntil
<1>4. CASE AskOutside
  BY <1>4 DEF AskOutside, Request, StartGrace
<1>5. CASE \E s \in Services : ReceiveEvent(s)
  <2>1. PICK s \in Services : ReceiveEvent(s)
    BY <1>5
  <2>2. QED
    BY <2>1 DEF ReceiveEvent, Keeps, FailureOf, Request, StartGrace, Free
<1>6. CASE ReceiveTimeout
  BY <1>6 DEF ReceiveTimeout
<1>7. CASE Report
  BY <1>7 DEF Report, Leaves, Request
<1>8. CASE GiveUp
  BY <1>8 DEF GiveUp, Leaves, Request
<1>9. CASE GoOn
  BY <1>9 DEF GoOn, StartGrace
<1>10. CASE \E s \in Services : PollFuture(s)
  <2>1. PICK s \in Services : PollFuture(s)
    BY <1>10
  <2>2. QED
    BY <2>1 DEF PollFuture, Moves
<1>11. CASE \E s \in Services : RegisterWaker(s)
  <2>1. PICK s \in Services : RegisterWaker(s)
    BY <1>11
  <2>2. QED
    BY <2>1 DEF RegisterWaker, Moves
<1>12. CASE \E s \in Services : LookAgain(s)
  <2>1. PICK s \in Services : LookAgain(s)
    BY <1>12
  <2>2. QED
    BY <2>1 DEF LookAgain, Moves
<1>13. CASE \E s \in Services : Wake(s)
  <2>1. PICK s \in Services : Wake(s)
    BY <1>13
  <2>2. QED
    BY <2>1 DEF Wake, Moves
<1>14. CASE \E s \in Services : OtherWork(s)
  <2>1. PICK s \in Services : OtherWork(s)
    BY <1>14
  <2>2. QED
    BY <2>1 DEF OtherWork, Moves
<1>15. CASE \E s \in Services : Ends(s)
  <2>1. PICK s \in Services, how \in Outcomes :
                 place[s] \in {"running", "parked"} /\ Returns(s, how)
    BY <1>15 DEF Ends, Stops, Outcomes
  <2>2. QED
    BY <2>1 DEF Returns, Moves
<1>16. CASE \E s \in Services : Stops(s)
  <2>1. PICK s \in Services, how \in Outcomes :
                 place[s] \in {"running", "ready"} /\ Returns(s, how)
    BY <1>16 DEF Ends, Stops, Outcomes
  <2>2. QED
    BY <2>1 DEF Returns, Moves
<1>17. CASE \E s \in Services : Requests(s)
  <2>1. PICK s \in Services : Requests(s)
    BY <1>17
  <2>2. QED
    BY <2>1 DEF Requests, Request
<1>18. CASE Drain
  BY <1>18 DEF Drain
<1>19. CASE Tick
  BY <1>19 DEF Tick, Later
<1>20. CASE UNCHANGED vars
  BY <1>20
<1>21. QED
  BY <1>1, <1>2, <1>3, <1>4, <1>5, <1>6, <1>7, <1>8, <1>9, <1>10,
     <1>11, <1>12, <1>13, <1>14, <1>15, <1>16, <1>17, <1>18, <1>19, <1>20
     DEF Next, MainStep, FutureStep

-------------------------------------------------------------------------------

\* The invariant holds in every reachable state.
THEOREM InvCorrect == Spec => []Inv
<1>1. Init => Inv
  <2>1. Init => TypeOK
    BY ZeroInRange DEF Init, TypeOK, Places, Outcomes, Failures
  <2>2. Init => RequestFirst /\ GraceFollowsRequest
    BY DEF Init, RequestFirst, GraceFollowsRequest
  <2>3. Init => WakersListed /\ NoWaiterLost /\ JoinsAreSound
    BY DEF Init, WakersListed, NoWaiterLost, JoinsAreSound
  <2>4. QED
    BY <2>1, <2>2, <2>3 DEF Inv
<1>2. Inv /\ [Next]_vars => Inv'
  BY TypeStep, RequestStep, WakersStep, JoinsStep, GraceStep DEF Inv
<1>3. QED
  BY <1>1, <1>2, PTL DEF Spec

\* The variables keep their types.
THEOREM TypeCorrect == Spec => []TypeOK
<1>1. Inv => TypeOK
  BY DEF Inv
<1>2. QED
  BY <1>1, InvCorrect, PTL

\* ShutdownFuture: whatever the interleaving of its looks at the flag with
\* ShutdownToken::request, no waiting service sleeps through the request.
THEOREM NoWaiterLostCorrect == Spec => []NoWaiterLost
<1>1. Inv => NoWaiterLost
  BY DEF Inv
<1>2. QED
  BY <1>1, InvCorrect, PTL

\* run_until: Ok means that every service was joined and completed.
THEOREM CleanReportCorrect == Spec => []CleanReport
<1>1. Inv => CleanReport
  BY DEF Inv, JoinsAreSound, CleanReport
<1>2. QED
  BY <1>1, InvCorrect, PTL

\* run_until: a timeout is reported only a whole grace period after the request.
THEOREM GraceIsGivenCorrect == Spec => []GraceIsGiven
<1>1. Inv => GraceIsGiven
  BY DEF Inv, RequestFirst, GraceFollowsRequest, GraceIsGiven
<1>2. QED
  BY <1>1, InvCorrect, PTL

\* ServiceSupervisor: it does not go away without requesting the shutdown.
THEOREM NoServiceOrphanedCorrect == Spec => []NoServiceOrphaned
<1>1. Inv => NoServiceOrphaned
  BY DEF Inv, RequestFirst, NoServiceOrphaned
<1>2. QED
  BY <1>1, InvCorrect, PTL

===============================================================================
