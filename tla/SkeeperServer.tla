----------------------------- MODULE SkeeperServer -----------------------------
(***************************************************************************)
(* A skeeper process: the calls of ServerLifecycle are the requests of     *)
(* SyncServer.  Each statement takes a connection of the pool and gives it *)
(* back; the stop of the process cuts requests off between and within      *)
(* their statements, and Postgres ends a statement whether or not the      *)
(* process that has sent it still runs.                                    *)
(***************************************************************************)
EXTENDS SyncRows

VARIABLES
  main, status, signalled, broken, serve, shutdown, graceful, forced, open, running, conn,
  table, lock, call

Life == INSTANCE ServerLifecycle
Sync == INSTANCE SyncServer

lifeVars == <<main, status, signalled, broken, serve, shutdown, graceful, forced, open,
              running, conn>>
syncVars == <<table, lock, call>>
vars == <<lifeVars, syncVars>>

Init == Life!Init /\ Sync!Init

------------------------------------------------------------------------------
(* The life of the process goes on beside its requests. *)
ProcessStep == (Life!Signal \/ Life!Process) /\ UNCHANGED syncVars

Receive(h, batch, since) ==
  Life!Accept(h) /\ Sync!Receive(h, batch, since)

BeginUpsert(h) ==
  /\ Sync!BeginUpsert(h)
  /\ IF Stored(call[h].batch) = {} THEN Life!Alive /\ UNCHANGED lifeVars ELSE Life!Acquire(h)

(* Postgres runs the statement. *)
VisitRow(h, u) == Sync!VisitRow(h, u) /\ UNCHANGED lifeVars
TakeRow(h) == Sync!TakeRow(h) /\ UNCHANGED lifeVars

(* The statement ends, and its connection is free unless the process has died
   or the handler has given it up. *)
EndUpsert(h) ==
  /\ Sync!Commit(h) \/ Sync!Rollback(h)
  /\ IF h \in conn /\ Life!Alive THEN Life!Release(h) ELSE UNCHANGED lifeVars

GiveUp(h) == Life!GiveUp(h) /\ UNCHANGED syncVars

(* GetUpdatedAfter takes a connection, which is busy until its rows are read. *)
BeginSelect(h) ==
  /\ call[h].pc = "upserted"
  /\ Life!Acquire(h)
  /\ UNCHANGED syncVars

Select(h) == Sync!Select(h) /\ Life!Release(h)

(* An error between the statements, or of the one that selects. *)
Fail(h) ==
  /\ Life!Alive
  /\ Sync!Fail(h)
  /\ IF h \in conn THEN Life!Release(h) ELSE UNCHANGED lifeVars

Return(h) == Life!Finish(h) /\ Sync!Return(h)

Next ==
  \/ ProcessStep
  \/ \E h \in Handlers :
       \/ \E batch \in Batches, since \in Cursors : Receive(h, batch, since)
       \/ \E u \in Ids : VisitRow(h, u)
       \/ BeginUpsert(h) \/ TakeRow(h) \/ EndUpsert(h) \/ GiveUp(h)
       \/ BeginSelect(h) \/ Select(h) \/ Fail(h) \/ Return(h)

Spec == Init /\ [][Next]_vars /\ Life!LifeFairness /\ Sync!DatabaseFairness

------------------------------------------------------------------------------
(* The process and the locks of its statements: see SyncServer. *)
UpsertInv == Life!LifeInv /\ Sync!UpsertInv

AnswersTaken == Sync!AnswersTaken
AnsweredBeforeExit == Life!AnsweredBeforeExit
ExitStatusTrue == Life!ExitStatusTrue
PoolClosesSoon == Life!PoolClosesSoon
StopsWhenTold == Life!StopsWhenTold

(* Uploads take effect at one instant, also those the stop cuts off. *)
TableSpec == Sync!TableSpec

(***************************************************************************)
(* No upload is blocked for ever: requests that upsert the same rows in    *)
(* different orders wait for each other only until Postgres ends one.      *)
(***************************************************************************)
UploadsEnd == \A h \in Handlers : call[h].pc = "upserting" ~> call[h].pc # "upserting"
==============================================================================
