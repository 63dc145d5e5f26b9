---------------------------- MODULE ServerLifecycle ----------------------------
(***************************************************************************)
(* The life of a server process, skeeper and auther alike: main builds its *)
(* parts, Server.Serve runs the listener and the shutdown in two           *)
(* goroutines of an errgroup, and a signal stops both.  The shutdown races *)
(* GracefulStop, which waits for every call in progress, against           *)
(* GracefulTimeout, after which Stop cuts the calls off.  main then closes *)
(* the connection pool, which waits for every connection in use, and       *)
(* exits.                                                                  *)
(***************************************************************************)
EXTENDS Naturals

CONSTANT Handlers    \* calls in progress at a time

VARIABLES
  main,        \* how far main is
  status,      \* the exit status of the process
  signalled,   \* SIGINT or SIGTERM has arrived
  broken,      \* history: starting, listening or accepting has failed
  serve,       \* the goroutine of serveGRPC
  shutdown,    \* the goroutine of shutdownGRPC
  graceful,    \* the goroutine of GracefulStop
  forced,      \* Stop has been called
  open,        \* the server takes new calls
  running,     \* running[h]: none, in progress, or in progress with a dead context
  conn         \* the calls that hold a connection of the pool

lifeVars == <<main, status, signalled, broken, serve, shutdown, graceful, forced, open,
              running, conn>>

TypeOK ==
  /\ main \in {"starting", "serving", "closing", "exited"}
  /\ status \in {0, 1}
  /\ {signalled, broken, forced, open} \subseteq BOOLEAN
  /\ serve \in {"off", "listening", "accepting", "ended", "failed"}
  /\ shutdown \in {"waiting", "stopping", "returned"}
  /\ graceful \in {"off", "quit", "draining", "done"}
  /\ running \in [Handlers -> {"no", "yes", "cut"}]
  /\ conn \subseteq Handlers

Init ==
  /\ main = "starting" /\ status = 0
  /\ signalled = FALSE /\ broken = FALSE
  /\ serve = "off" /\ shutdown = "waiting" /\ graceful = "off"
  /\ forced = FALSE /\ open = FALSE
  /\ running = [h \in Handlers |-> "no"]
  /\ conn = {}

------------------------------------------------------------------------------
(* main and the two goroutines of Serve. *)

Alive == main # "exited"

Signal ==
  /\ ~signalled /\ main # "exited"
  /\ signalled' = TRUE
  /\ UNCHANGED <<main, status, broken, serve, shutdown, graceful, forced, open, running, conn>>

(* Configuration, keys, TLS files or the pool: main exits at once. *)
StartFails ==
  /\ main = "starting"
  /\ main' = "exited" /\ status' = 1 /\ broken' = TRUE
  /\ UNCHANGED <<signalled, serve, shutdown, graceful, forced, open, running, conn>>

StartServing ==
  /\ main = "starting"
  /\ main' = "serving"
  /\ UNCHANGED <<status, signalled, broken, serve, shutdown, graceful, forced, open, running, conn>>

Listen ==
  /\ main = "serving" /\ serve = "off"
  /\ serve' = "listening"
  /\ UNCHANGED <<main, status, signalled, broken, shutdown, graceful, forced, open, running, conn>>

(* The address cannot be listened on, or Accept fails for good. *)
ServeFails ==
  /\ main = "serving"
  /\ \/ serve = "off"
     \/ serve = "accepting" /\ graceful = "off" /\ ~forced
  /\ serve' = "failed" /\ broken' = TRUE
  /\ UNCHANGED <<main, status, signalled, shutdown, graceful, forced, open, running, conn>>

(* Mutant of ServeRefused: ErrServerStopped is an error like any other. *)
RefusedFailed == "failed"

(* ErrServerStopped is what Serve returns when the stop has overtaken it. *)
ServeRefused == "ended"

ServeCalled ==
  /\ serve = "listening"
  /\ IF graceful = "off" /\ ~forced
       THEN serve' = "accepting" /\ open' = TRUE
       ELSE serve' = ServeRefused /\ open' = open
  /\ UNCHANGED <<main, status, signalled, broken, shutdown, graceful, forced, running, conn>>

(* Once the server stops, Serve returns nil, but not before the stop is over. *)
ServeEnds ==
  /\ serve = "accepting"
  /\ graceful = "done" \/ forced
  /\ serve' = "ended"
  /\ UNCHANGED <<main, status, signalled, broken, shutdown, graceful, forced, open, running, conn>>

(* The group's context is done on a signal and when serveGRPC fails. *)
BeginShutdown ==
  /\ main = "serving" /\ shutdown = "waiting"
  /\ signalled \/ serve = "failed"
  /\ shutdown' = "stopping"
  /\ UNCHANGED <<main, status, signalled, broken, serve, graceful, forced, open, running, conn>>

(* GracefulStop: refuse Serve; tell the connections, which may bring a last
   call until then; wait for the calls. *)
Quit ==
  /\ Alive /\ shutdown # "waiting" /\ graceful = "off"
  /\ graceful' = "quit"
  /\ UNCHANGED <<main, status, signalled, broken, serve, shutdown, forced, open, running, conn>>

GoAway ==
  /\ Alive /\ graceful = "quit"
  /\ graceful' = "draining" /\ open' = FALSE
  /\ UNCHANGED <<main, status, signalled, broken, serve, shutdown, forced, running, conn>>

GracefulStopped ==
  /\ Alive /\ graceful = "draining"
  /\ \A h \in Handlers : running[h] = "no"
  /\ graceful' = "done"
  /\ UNCHANGED <<main, status, signalled, broken, serve, shutdown, forced, open, running, conn>>

(* Mutant of Stopped: shutdownGRPC does not wait for GracefulStop. *)
StoppedAtOnce == shutdown = "stopping"

Stopped == shutdown = "stopping" /\ graceful = "done"

ShutdownReturns ==
  /\ Stopped
  /\ shutdown' = "returned"
  /\ UNCHANGED <<main, status, signalled, broken, serve, graceful, forced, open, running, conn>>

(* Mutant of TimedOut: no time limit. *)
TimedOutNever == FALSE

TimedOut == shutdown = "stopping"

(* Mutant of ForceStop: the wait is over, and no call is cut off. *)
ForceStopUncut ==
  /\ TimedOut
  /\ forced' = TRUE /\ open' = FALSE /\ shutdown' = "returned"
  /\ UNCHANGED <<main, status, signalled, broken, serve, graceful, running, conn>>

(* The limit may pass at any time.  Stop closes the connections, which cancels
   the context of every call, and does not wait for the handlers. *)
ForceStop ==
  /\ TimedOut
  /\ forced' = TRUE /\ open' = FALSE /\ shutdown' = "returned"
  /\ running' = [h \in Handlers |-> IF running[h] = "yes" THEN "cut" ELSE running[h]]
  /\ UNCHANGED <<main, status, signalled, broken, serve, graceful, conn>>

(* os.Exit runs no deferred call: the pool is not closed. *)
ServeReturns ==
  /\ main = "serving" /\ shutdown = "returned"
  /\ serve \in {"ended", "failed"}
  /\ IF serve = "failed" THEN main' = "exited" /\ status' = 1
                         ELSE main' = "closing" /\ status' = status
  /\ UNCHANGED <<signalled, broken, serve, shutdown, graceful, forced, open, running, conn>>

(* Close waits until every connection is back. *)
ClosePool ==
  /\ main = "closing" /\ conn = {}
  /\ main' = "exited"
  /\ UNCHANGED <<status, signalled, broken, serve, shutdown, graceful, forced, open, running, conn>>

------------------------------------------------------------------------------
(* Calls. *)

PoolOpen == main = "serving"

Accept(h) ==
  /\ open /\ Alive /\ running[h] = "no"
  /\ running' = [running EXCEPT ![h] = "yes"]
  /\ UNCHANGED <<main, status, signalled, broken, serve, shutdown, graceful, forced, open, conn>>

(* A dead context gets no connection. *)
Acquire(h) ==
  /\ PoolOpen /\ running[h] = "yes" /\ h \notin conn
  /\ conn' = conn \cup {h}
  /\ UNCHANGED <<main, status, signalled, broken, serve, shutdown, graceful, forced, open, running>>

Release(h) ==
  /\ Alive /\ h \in conn
  /\ conn' = conn \ {h}
  /\ UNCHANGED <<main, status, signalled, broken, serve, shutdown, graceful, forced, open, running>>

(* A query whose context dies gives up its connection; Postgres may be running
   the statement for a while. *)
GiveUp(h) == running[h] = "cut" /\ Release(h)

Finish(h) ==
  /\ Alive /\ running[h] # "no" /\ h \notin conn
  /\ running' = [running EXCEPT ![h] = "no"]
  /\ UNCHANGED <<main, status, signalled, broken, serve, shutdown, graceful, forced, open, conn>>

Process ==
  \/ StartFails \/ StartServing \/ Listen \/ ServeFails \/ ServeCalled \/ ServeEnds
  \/ BeginShutdown \/ Quit \/ GoAway \/ GracefulStopped \/ ShutdownReturns \/ ForceStop
  \/ ServeReturns \/ ClosePool

Next ==
  \/ Signal \/ Process
  \/ \E h \in Handlers : Accept(h) \/ Acquire(h) \/ Release(h) \/ Finish(h)

Spec == Init /\ [][Next]_lifeVars

(* Goroutines run, timers fire, and a query notices that its context is dead.
   Nothing is assumed of a call that is not cut off: its client or the database
   may be as slow as it likes. *)
LifeFairness ==
  /\ WF_lifeVars(StartFails \/ StartServing)
  /\ WF_lifeVars(Listen \/ ServeFails)
  /\ WF_lifeVars(ServeCalled)
  /\ WF_lifeVars(ServeEnds)
  /\ WF_lifeVars(BeginShutdown)
  /\ WF_lifeVars(ForceStop)
  /\ WF_lifeVars(ServeReturns)
  /\ WF_lifeVars(ClosePool)
  /\ \A h \in Handlers : WF_lifeVars(GiveUp(h))

------------------------------------------------------------------------------
(***************************************************************************)
(* Unless its time runs out, a stop waits: when Serve has returned, every  *)
(* call the server has taken is answered.                                  *)
(***************************************************************************)
AnsweredBeforeExit ==
  main \in {"closing", "exited"} /\ ~forced => \A h \in Handlers : running[h] = "no"

(***************************************************************************)
(* The exit status tells a stop from a failure: it is 1 just when          *)
(* starting, listening or accepting has failed, however the failure, the   *)
(* signal and the timeout interleave.                                      *)
(***************************************************************************)
ExitStatusTrue == main = "exited" => (status = 1 <=> broken)

(***************************************************************************)
(* Closing the pool never waits for a call that may take as long as it     *)
(* likes: every connection still in use is that of a call whose context is *)
(* dead.  It is the part of StopsWhenTold that no fairness gives.          *)
(***************************************************************************)
PoolClosesSoon == main = "closing" => \A h \in conn : running[h] = "cut"

(***************************************************************************)
(* A signalled process ends, whatever the calls in progress do.            *)
(***************************************************************************)
StopsWhenTold == signalled ~> main = "exited"

------------------------------------------------------------------------------
(***************************************************************************)
(* Inductive invariant: once the stop waits for the calls in progress none *)
(* are added, and main does not go on before the stop is over.             *)
(***************************************************************************)
NoCalls == \A h \in Handlers : running[h] = "no"

StopInv ==
  /\ open => graceful \in {"off", "quit"} /\ ~forced
  /\ graceful = "done" => NoCalls
  /\ shutdown = "returned" => forced \/ graceful = "done"
  /\ main = "starting" => ~open /\ NoCalls /\ serve = "off"
  /\ main = "closing" => shutdown = "returned"
  /\ main = "exited" => shutdown = "returned" \/ (~open /\ NoCalls /\ serve = "off")

ExitInv ==
  /\ main # "exited" => status = 0
  /\ main = "starting" => ~broken
  /\ main = "serving" => (broken <=> serve = "failed")
  /\ main = "closing" => ~broken
  /\ ExitStatusTrue

LifeInv == TypeOK /\ StopInv /\ ExitInv

(* A connection is that of a call in progress, and a call in progress when the
   stop was forced, or since, has a dead context. *)
ConnInv ==
  /\ \A h \in conn : running[h] # "no"
  /\ forced => \A h \in Handlers : running[h] # "yes"

PoolInv == LifeInv /\ ConnInv
==============================================================================
