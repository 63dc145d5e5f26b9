------------------------- MODULE ServerLifecycleProofs -------------------------
(* Theorems about ServerLifecycle, for any number of calls in progress. *)
EXTENDS ServerLifecycle, TLAPS

LEMMA LifeInit == Init => LifeInv
  BY DEF Init, LifeInv, TypeOK, StopInv, NoCalls, ExitInv, ExitStatusTrue

LEMMA ProcessLife == ASSUME LifeInv, Process PROVE LifeInv'
<1> USE DEF LifeInv, TypeOK, StopInv, NoCalls, ExitInv, ExitStatusTrue
<1>1. CASE StartFails
  BY <1>1 DEF StartFails
<1>2. CASE StartServing
  BY <1>2 DEF StartServing
<1>3. CASE Listen
  BY <1>3 DEF Listen
<1>4. CASE ServeFails
  <2>1. serve' = "failed" /\ broken' = TRUE /\ main = "serving"
        /\ UNCHANGED <<main, status, signalled, shutdown, graceful, forced, open, running, conn>>
    BY <1>4 DEF ServeFails
  <2>2. QED
    BY <2>1
<1>5. CASE ServeCalled
  <2>1. CASE graceful = "off" /\ ~forced
    BY <1>5, <2>1 DEF ServeCalled
  <2>2. CASE ~(graceful = "off" /\ ~forced)
    BY <1>5, <2>2 DEF ServeCalled, ServeRefused
  <2>3. QED
    BY <2>1, <2>2
<1>6. CASE ServeEnds
  BY <1>6 DEF ServeEnds
<1>7. CASE BeginShutdown
  BY <1>7 DEF BeginShutdown
<1>8. CASE Quit
  BY <1>8 DEF Quit
<1>9. CASE GoAway
  BY <1>9 DEF GoAway
<1>10. CASE GracefulStopped
  BY <1>10 DEF GracefulStopped
<1>11. CASE ShutdownReturns
  BY <1>11 DEF ShutdownReturns, Stopped
<1>12. CASE ForceStop
  BY <1>12 DEF ForceStop, TimedOut
<1>13. CASE ServeReturns
  <2>1. CASE serve = "failed"
    BY <1>13, <2>1 DEF ServeReturns
  <2>2. CASE serve = "ended"
    BY <1>13, <2>2 DEF ServeReturns
  <2>3. QED
    BY <1>13, <2>1, <2>2 DEF ServeReturns
<1>14. CASE ClosePool
  BY <1>14 DEF ClosePool
<1>15. QED
  BY <1>1, <1>2, <1>3, <1>4, <1>5, <1>6, <1>7, <1>8, <1>9, <1>10, <1>11, <1>12, <1>13, <1>14
     DEF Process

LEMMA LifeStep == ASSUME LifeInv, [Next]_lifeVars PROVE LifeInv'
<1> USE DEF LifeInv, TypeOK, StopInv, NoCalls, ExitInv, ExitStatusTrue
<1>1. CASE Signal
  BY <1>1 DEF Signal
<1>2. ASSUME NEW h \in Handlers, Accept(h) PROVE LifeInv'
  BY <1>2 DEF Accept, Alive
<1>3. ASSUME NEW h \in Handlers, Acquire(h) PROVE LifeInv'
  BY <1>3 DEF Acquire
<1>4. ASSUME NEW h \in Handlers, Release(h) PROVE LifeInv'
  BY <1>4 DEF Release
<1>5. ASSUME NEW h \in Handlers, Finish(h) PROVE LifeInv'
  BY <1>5 DEF Finish
<1>6. CASE UNCHANGED lifeVars
  BY <1>6 DEF lifeVars
<1>7. QED
  BY <1>1, <1>2, <1>3, <1>4, <1>5, <1>6, ProcessLife DEF Next

(* The invariant of the life of a server process. *)
THEOREM LifeInvariant == Spec => []LifeInv
  BY LifeInit, LifeStep, PTL DEF Spec

(***************************************************************************)
(* A stop whose time does not run out leaves no call unanswered.           *)
(***************************************************************************)
THEOREM StopAnswersCalls == Spec => []AnsweredBeforeExit
<1>1. LifeInv => AnsweredBeforeExit
  BY DEF LifeInv, StopInv, NoCalls, AnsweredBeforeExit
<1>2. QED
  BY <1>1, LifeInvariant, PTL

(***************************************************************************)
(* The exit status is 1 just when starting or serving has failed.          *)
(***************************************************************************)
THEOREM StatusTellsFailure == Spec => []ExitStatusTrue
<1>1. LifeInv => ExitStatusTrue
  BY DEF LifeInv, ExitInv
<1>2. QED
  BY <1>1, LifeInvariant, PTL

(* Who has a connection of the pool: only a stop changes many calls at once, and it
   leaves no call running on. *)
LEMMA ConnStep == ASSUME LifeInv, ConnInv, [Next]_lifeVars PROVE ConnInv'
<1> USE DEF ConnInv
<1>1. CASE ForceStop
  BY <1>1 DEF ForceStop, LifeInv, TypeOK
<1>2. CASE UNCHANGED <<forced, running, conn>>
  BY <1>2
<1>3. ASSUME NEW h \in Handlers, Accept(h) PROVE ConnInv'
  <2>1. ~forced /\ forced' = forced /\ conn' = conn
    BY <1>3 DEF Accept, LifeInv, StopInv
  <2>2. \A g \in Handlers : running'[g] = IF g = h THEN "yes" ELSE running[g]
    BY <1>3 DEF Accept, LifeInv, TypeOK
  <2>3. conn \subseteq Handlers
    BY DEF LifeInv, TypeOK
  <2> QED BY <2>1, <2>2, <2>3
<1>4. ASSUME NEW h \in Handlers, Acquire(h) \/ Release(h) PROVE ConnInv'
  BY <1>4 DEF Acquire, Release
<1>5. ASSUME NEW h \in Handlers, Finish(h) PROVE ConnInv'
  <2>1. h \notin conn /\ conn' = conn /\ forced' = forced
    BY <1>5 DEF Finish
  <2>2. \A g \in Handlers : running'[g] = IF g = h THEN "no" ELSE running[g]
    BY <1>5 DEF Finish, LifeInv, TypeOK
  <2>3. conn \subseteq Handlers
    BY DEF LifeInv, TypeOK
  <2> QED BY <2>1, <2>2, <2>3
<1> QED
  BY <1>1, <1>2, <1>3, <1>4, <1>5
     DEF Next, Process, lifeVars, Signal, StartFails, StartServing, Listen, ServeFails,
         ServeCalled, ServeEnds, BeginShutdown, Quit, GoAway, GracefulStopped,
         ShutdownReturns, ServeReturns, ClosePool

(***************************************************************************)
(* When main closes the pool, the calls are over or cut off: Close waits   *)
(* for no call that could go on at its leisure.                            *)
(***************************************************************************)
THEOREM PoolClosesWithoutWaiting == Spec => []PoolClosesSoon
<1>1. Init => PoolInv
  BY LifeInit DEF Init, PoolInv, ConnInv
<1>2. PoolInv /\ [Next]_lifeVars => PoolInv'
  BY LifeStep, ConnStep DEF PoolInv
<1>3. PoolInv => PoolClosesSoon
  <2>1. ASSUME PoolInv, main = "closing", NEW h \in conn PROVE running[h] = "cut"
    <3>1. h \in Handlers /\ running[h] \in {"no", "yes", "cut"} /\ running[h] # "no"
      BY <2>1 DEF PoolInv, LifeInv, TypeOK, ConnInv
    <3>2. forced \/ NoCalls
      BY <2>1 DEF PoolInv, LifeInv, StopInv
    <3> QED BY <2>1, <3>1, <3>2 DEF PoolInv, ConnInv, NoCalls
  <2> QED BY <2>1 DEF PoolClosesSoon
<1> QED BY <1>1, <1>2, <1>3, PTL DEF Spec
==============================================================================
