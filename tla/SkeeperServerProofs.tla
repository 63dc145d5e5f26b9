-------------------------- MODULE SkeeperServerProofs --------------------------
(***************************************************************************)
(* Theorems about SkeeperServer.  A stopping process changes when requests *)
(* run and which of them are cut off, and requests change when it can      *)
(* stop; neither does anything its own specification does not allow.  What *)
(* is proved of ServerLifecycle and of SyncServer holds of the two         *)
(* together.                                                               *)
(***************************************************************************)
EXTENDS SkeeperServer, TLAPS

LifeP == INSTANCE ServerLifecycleProofs
SyncP == INSTANCE SyncServerProofs

(* What the process does on its own, and what a request makes it do. *)
LEMMA StepIsLife == ASSUME [Next]_vars PROVE [LifeP!Next]_(LifeP!lifeVars)
<1>1. CASE UNCHANGED vars
  BY <1>1 DEF vars, lifeVars, LifeP!lifeVars
<1>2. CASE ProcessStep
  <2>1. Life!Signal => LifeP!Signal
    BY DEF Life!Signal, LifeP!Signal
  <2>2. Life!Process => LifeP!Process
    <3>1. CASE Life!StartFails
      BY <3>1 DEF Life!StartFails, LifeP!StartFails, LifeP!Process
    <3>2. CASE Life!StartServing
      BY <3>2 DEF Life!StartServing, LifeP!StartServing, LifeP!Process
    <3>3. CASE Life!Listen
      BY <3>3 DEF Life!Listen, LifeP!Listen, LifeP!Process
    <3>4. CASE Life!ServeFails
      BY <3>4 DEF Life!ServeFails, LifeP!ServeFails, LifeP!Process
    <3>5. CASE Life!ServeCalled
      BY <3>5 DEF Life!ServeCalled, LifeP!ServeCalled, Life!ServeRefused, LifeP!ServeRefused,
                  LifeP!Process
    <3>6. CASE Life!ServeEnds
      BY <3>6 DEF Life!ServeEnds, LifeP!ServeEnds, LifeP!Process
    <3>7. CASE Life!BeginShutdown
      BY <3>7 DEF Life!BeginShutdown, LifeP!BeginShutdown, LifeP!Process
    <3>8. CASE Life!Quit
      BY <3>8 DEF Life!Quit, LifeP!Quit, Life!Alive, LifeP!Alive, LifeP!Process
    <3>9. CASE Life!GoAway
      BY <3>9 DEF Life!GoAway, LifeP!GoAway, Life!Alive, LifeP!Alive, LifeP!Process
    <3>10. CASE Life!GracefulStopped
      BY <3>10 DEF Life!GracefulStopped, LifeP!GracefulStopped, Life!Alive, LifeP!Alive,
                   LifeP!Process
    <3>11. CASE Life!ShutdownReturns
      BY <3>11 DEF Life!ShutdownReturns, LifeP!ShutdownReturns, Life!Stopped, LifeP!Stopped,
                   LifeP!Process
    <3>12. CASE Life!ForceStop
      BY <3>12 DEF Life!ForceStop, LifeP!ForceStop, Life!TimedOut, LifeP!TimedOut, LifeP!Process
    <3>13. CASE Life!ServeReturns
      BY <3>13 DEF Life!ServeReturns, LifeP!ServeReturns, LifeP!Process
    <3>14. CASE Life!ClosePool
      BY <3>14 DEF Life!ClosePool, LifeP!ClosePool, LifeP!Process
    <3>15. QED
      BY <3>1, <3>2, <3>3, <3>4, <3>5, <3>6, <3>7, <3>8, <3>9, <3>10, <3>11, <3>12, <3>13, <3>14
         DEF Life!Process
  <2>3. QED
    BY <1>2, <2>1, <2>2 DEF ProcessStep, LifeP!Next
<1>3. ASSUME NEW h \in Handlers, Life!Accept(h) PROVE LifeP!Next
  BY <1>3 DEF Life!Accept, LifeP!Accept, Life!Alive, LifeP!Alive, LifeP!Next
<1>4. ASSUME NEW h \in Handlers, Life!Acquire(h) PROVE LifeP!Next
  BY <1>4 DEF Life!Acquire, LifeP!Acquire, Life!PoolOpen, LifeP!PoolOpen, LifeP!Next
<1>5. ASSUME NEW h \in Handlers, Life!Release(h) PROVE LifeP!Next
  BY <1>5 DEF Life!Release, LifeP!Release, Life!Alive, LifeP!Alive, LifeP!Next
<1>6. ASSUME NEW h \in Handlers, Life!Finish(h) PROVE LifeP!Next
  BY <1>6 DEF Life!Finish, LifeP!Finish, Life!Alive, LifeP!Alive, LifeP!Next
<1>7. ASSUME UNCHANGED lifeVars PROVE UNCHANGED LifeP!lifeVars
  BY <1>7 DEF lifeVars, LifeP!lifeVars
<1>8. QED
  BY <1>1, <1>2, <1>3, <1>4, <1>5, <1>6, <1>7
     DEF Next, Receive, BeginUpsert, VisitRow, TakeRow, EndUpsert, GiveUp, Life!GiveUp,
         BeginSelect, Select, Fail, Return

(* A step of the process is none of a request, or one a request may take. *)
LEMMA StepIsSync == ASSUME [Next]_vars PROVE [SyncP!Next]_(SyncP!vars)
<1>1. ASSUME UNCHANGED syncVars PROVE UNCHANGED SyncP!vars
  BY <1>1 DEF syncVars, SyncP!vars
<1>2. ASSUME NEW h \in Handlers, NEW batch \in Batches, NEW since \in Cursors,
             Sync!Receive(h, batch, since)
      PROVE  SyncP!Next
  BY <1>2 DEF Sync!Receive, SyncP!Receive, Sync!Idle, SyncP!Idle, Sync!NoRows, SyncP!NoRows,
              SyncP!Next
<1>3. ASSUME NEW h \in Handlers, NEW u \in Ids, Sync!VisitRow(h, u) PROVE SyncP!Next
  BY <1>3 DEF Sync!VisitRow, SyncP!VisitRow, SyncP!Next
<1>4. ASSUME NEW h \in Handlers, Sync!BeginUpsert(h) PROVE SyncP!Next
  BY <1>4 DEF Sync!BeginUpsert, SyncP!BeginUpsert, Sync!Stored, SyncP!Stored, SyncP!Next
<1>5. ASSUME NEW h \in Handlers, Sync!TakeRow(h) PROVE SyncP!Next
  BY <1>5 DEF Sync!TakeRow, SyncP!TakeRow, Sync!IsNewer, SyncP!IsNewer, SyncP!Next
<1>6. ASSUME NEW h \in Handlers, Sync!Commit(h) PROVE SyncP!Next
  BY <1>6 DEF Sync!Commit, SyncP!Commit, Sync!Released, SyncP!Released, Sync!Reported,
              SyncP!Reported, SyncP!Next
<1>7. ASSUME NEW h \in Handlers, Sync!Rollback(h) PROVE SyncP!Next
  BY <1>7 DEF Sync!Rollback, SyncP!Rollback, Sync!Released, SyncP!Released, Sync!Idle,
              SyncP!Idle, Sync!NoRows, SyncP!NoRows, SyncP!Next
<1>8. ASSUME NEW h \in Handlers, Sync!Select(h) PROVE SyncP!Next
  BY <1>8 DEF Sync!Select, SyncP!Select, SyncP!Next
<1>9. ASSUME NEW h \in Handlers, Sync!Fail(h) PROVE SyncP!Next
  BY <1>9 DEF Sync!Fail, SyncP!Fail, Sync!Idle, SyncP!Idle, Sync!NoRows, SyncP!NoRows, SyncP!Next
<1>10. ASSUME NEW h \in Handlers, Sync!Return(h) PROVE SyncP!Next
  BY <1>10 DEF Sync!Return, SyncP!Return, Sync!Idle, SyncP!Idle, Sync!NoRows, SyncP!NoRows,
               SyncP!Next
<1>11. CASE UNCHANGED vars
  BY <1>1, <1>11 DEF vars
<1>12. QED
  BY <1>1, <1>2, <1>3, <1>4, <1>5, <1>6, <1>7, <1>8, <1>9, <1>10, <1>11
     DEF Next, ProcessStep, Receive, BeginUpsert, VisitRow, TakeRow, EndUpsert, GiveUp,
         BeginSelect, Select, Fail, Return

(* SkeeperServer implements each of its parts. *)
LEMMA ImplementsLife == Spec => LifeP!Spec
<1>1. Init => LifeP!Init
  BY DEF Init, Life!Init, LifeP!Init
<1>2. QED
  BY <1>1, StepIsLife, PTL DEF Spec, LifeP!Spec

LEMMA ImplementsSync == Spec => SyncP!Spec
<1>1. Init => SyncP!Init
  BY DEF Init, Sync!Init, SyncP!Init, Sync!Idle, SyncP!Idle, Sync!NoRows, SyncP!NoRows
<1>2. QED
  BY <1>1, StepIsSync, PTL DEF Spec, SyncP!Spec

(***************************************************************************)
(* Unless the graceful stop times out, no request of the process is        *)
(* unanswered when it exits.                                               *)
(***************************************************************************)
THEOREM RequestsAreAnswered == Spec => []AnsweredBeforeExit
<1>1. LifeP!AnsweredBeforeExit => AnsweredBeforeExit
  BY DEF AnsweredBeforeExit, Life!AnsweredBeforeExit, LifeP!AnsweredBeforeExit
<1>2. QED
  BY <1>1, ImplementsLife, LifeP!StopAnswersCalls, PTL

(***************************************************************************)
(* The exit status is 1 just when starting or serving has failed.          *)
(***************************************************************************)
THEOREM StatusIsTrue == Spec => []ExitStatusTrue
<1>1. LifeP!ExitStatusTrue => ExitStatusTrue
  BY DEF ExitStatusTrue, Life!ExitStatusTrue, LifeP!ExitStatusTrue
<1>2. QED
  BY <1>1, ImplementsLife, LifeP!StatusTellsFailure, PTL

(***************************************************************************)
(* The pool is closed when the requests that still have a connection are   *)
(* all cut off.                                                            *)
(***************************************************************************)
THEOREM PoolIsFreed == Spec => []PoolClosesSoon
<1>1. LifeP!PoolClosesSoon => PoolClosesSoon
  BY DEF PoolClosesSoon, Life!PoolClosesSoon, LifeP!PoolClosesSoon
<1>2. QED
  BY <1>1, ImplementsLife, LifeP!PoolClosesWithoutWaiting, PTL

(***************************************************************************)
(* The process and the statements of its requests keep their invariants,   *)
(* also where the stop cuts a statement off.                               *)
(***************************************************************************)
LEMMA LifeInvIs == LifeP!LifeInv => Life!LifeInv
<1>1. LifeP!TypeOK => Life!TypeOK
  BY DEF LifeP!TypeOK, Life!TypeOK
<1>2. LifeP!StopInv => Life!StopInv
  BY DEF LifeP!StopInv, Life!StopInv, LifeP!NoCalls, Life!NoCalls
<1>3. LifeP!ExitInv => Life!ExitInv
  BY DEF LifeP!ExitInv, Life!ExitInv, LifeP!ExitStatusTrue, Life!ExitStatusTrue
<1>4. QED
  BY <1>1, <1>2, <1>3 DEF LifeP!LifeInv, Life!LifeInv

LEMMA UpsertInvIs == SyncP!UpsertInv => Sync!UpsertInv
<1>1. SyncP!TypeOK => Sync!TypeOK
  BY DEF SyncP!TypeOK, Sync!TypeOK, SyncP!Table, Sync!Table, SyncP!Call, Sync!Call
<1>2. ASSUME NEW h \in Handlers PROVE SyncP!HoldsLocks(h) => Sync!HoldsLocks(h)
  BY DEF SyncP!HoldsLocks, Sync!HoldsLocks, SyncP!Visited, Sync!Visited, SyncP!Stored,
         Sync!Stored, SyncP!IsNewer, Sync!IsNewer
<1>3. ASSUME NEW h \in Handlers
      PROVE  /\ SyncP!NotSelected(h) => Sync!NotSelected(h)
             /\ SyncP!NotUpserted(h) => Sync!NotUpserted(h)
  BY DEF SyncP!NotSelected, Sync!NotSelected, SyncP!NotUpserted, Sync!NotUpserted,
         SyncP!NoRows, Sync!NoRows
<1>4. QED
  BY <1>1, <1>2, <1>3 DEF SyncP!UpsertInv, Sync!UpsertInv

(***************************************************************************)
(* The invariants of the process and of the locks of its statements, also  *)
(* where the stop cuts a statement off.                                    *)
(***************************************************************************)
THEOREM ServerInvariant == Spec => []UpsertInv
<1>1. LifeP!LifeInv /\ SyncP!UpsertInv => UpsertInv
  BY LifeInvIs, UpsertInvIs DEF UpsertInv
<1>2. SyncP!Spec => []SyncP!UpsertInv
  BY RowAssumption, NoneAssumption, RequestAssumption, SyncP!UpsertInvariant
     DEF Table, SyncP!Table
<1>3. QED
  BY <1>1, <1>2, ImplementsLife, ImplementsSync, LifeP!LifeInvariant, PTL

(***************************************************************************)
(* The rows an answer calls applied are in the table while the answer is   *)
(* on its way.                                                             *)
(***************************************************************************)
THEOREM AnswersStayTaken == Spec => []AnswersTaken
<1>1. SyncP!AnswersTaken => AnswersTaken
  BY DEF AnswersTaken, Sync!AnswersTaken, SyncP!AnswersTaken
<1>2. SyncP!Spec => []SyncP!AnswersTaken
  BY RowAssumption, NoneAssumption, RequestAssumption, SyncP!ReportedRowsAreTaken
     DEF Table, SyncP!Table
<1>3. QED
  BY <1>1, <1>2, ImplementsSync, PTL

(***************************************************************************)
(* Uploads take effect at one instant or not at all, whatever the stop and *)
(* the deadlocks cut off.                                                  *)
(***************************************************************************)
THEOREM UploadsStayAtomic == Spec => TableSpec
<1>1. SyncP!Spec => SyncP!TableSpec
  BY RowAssumption, NoneAssumption, RequestAssumption, SyncP!UploadsAreAtomic
     DEF Table, SyncP!Table
<1>2. SyncP!TableSpec => TableSpec
  <2>1. /\ Sync!Uploads!vars = SyncP!Uploads!vars
        /\ Sync!Uploads!Init <=> SyncP!Uploads!Init
    BY DEF Sync!Uploads!vars, SyncP!Uploads!vars, Sync!Uploads!Init, SyncP!Uploads!Init,
           Sync!Uploads!None, SyncP!Uploads!None, Sync!Uploads!NoRows, SyncP!Uploads!NoRows,
           Sync!Seen, SyncP!Seen, Sync!Stage, SyncP!Stage
  <2>2. [SyncP!Uploads!Next]_(SyncP!Uploads!vars) => [Sync!Uploads!Next]_(Sync!Uploads!vars)
    <3>1. ASSUME NEW h \in Handlers, SyncP!Uploads!Ask(h) PROVE Sync!Uploads!Ask(h)
      BY <3>1
         DEF Sync!Uploads!Ask, SyncP!Uploads!Ask, Sync!Uploads!None, SyncP!Uploads!None,
             Sync!Uploads!NoRows, SyncP!Uploads!NoRows, Sync!Seen, SyncP!Seen, Sync!Stage,
             SyncP!Stage
    <3>2. ASSUME NEW h \in Handlers, SyncP!Uploads!Apply(h) PROVE Sync!Uploads!Apply(h)
      BY <3>2
         DEF Sync!Uploads!Apply, SyncP!Uploads!Apply, Sync!Uploads!Newer,
             SyncP!Uploads!Newer, Sync!Uploads!Stored, SyncP!Uploads!Stored, Sync!Seen,
             SyncP!Seen, Sync!Stage, SyncP!Stage
    <3>3. ASSUME NEW h \in Handlers, SyncP!Uploads!Pull(h) PROVE Sync!Uploads!Pull(h)
      BY <3>3
         DEF Sync!Uploads!Pull, SyncP!Uploads!Pull, Sync!Seen, SyncP!Seen, Sync!Stage,
             SyncP!Stage
    <3>4. ASSUME NEW h \in Handlers, SyncP!Uploads!End(h) PROVE Sync!Uploads!End(h)
      BY <3>4
         DEF Sync!Uploads!End, SyncP!Uploads!End, Sync!Uploads!None, SyncP!Uploads!None,
             Sync!Uploads!NoRows, SyncP!Uploads!NoRows, Sync!Seen, SyncP!Seen, Sync!Stage,
             SyncP!Stage
    <3>5. SyncP!Uploads!Next => Sync!Uploads!Next
      BY <3>1, <3>2, <3>3, <3>4 DEF SyncP!Uploads!Next, Sync!Uploads!Next
    <3>6. UNCHANGED SyncP!Uploads!vars => UNCHANGED Sync!Uploads!vars
      BY DEF SyncP!Uploads!vars, Sync!Uploads!vars, Sync!Seen, SyncP!Seen, Sync!Stage,
             SyncP!Stage
    <3>7. QED
      BY <3>5, <3>6
  <2>3. QED
    BY <2>1, <2>2, PTL
       DEF TableSpec, Sync!TableSpec, SyncP!TableSpec, Sync!Uploads!Spec, SyncP!Uploads!Spec
<1>3. QED
  BY <1>1, <1>2, ImplementsSync
==============================================================================
