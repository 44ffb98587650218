-------------------------- MODULE ProcessLifecycle --------------------------
(***************************************************************************)
(* The API process: the HTTP server with its requests, the scheduler with  *)
(* one goroutine per job, and the order in which modules.Run stops them    *)
(* and closes the connection pool.  Requests and jobs matter here by being *)
(* in progress and by the transaction (a pooled connection) they hold.     *)
(***************************************************************************)
EXTENDS Naturals

CONSTANTS Requests, Jobs
ASSUME DistinctAssumption == Requests \cap Jobs = {}

VARIABLES
  signalled,  \* signalCtx is done: SIGINT or SIGTERM has arrived
  coolOff,    \* the goroutine that waits for the signal, sleeps, cancels serverCtx
  listener,   \* Open, Failed (ListenAndServe returned an error) or Closed
  main,       \* where modules.Run is
  timedOut,   \* ShutdownTimeout has elapsed
  req,        \* each request: None, Running, Cut (its context is cancelled) or Done
  job,        \* each job's goroutine: Waiting in select, Executing, Stopped
  inTx        \* requests and jobs that hold a connection

vars == <<signalled, coolOff, listener, main, timedOut, req, job, inTx>>

\* The type invariant of the process.
TypeOK ==
  /\ signalled \in BOOLEAN /\ timedOut \in BOOLEAN
  /\ coolOff \in {"Waiting", "Sleeping", "Done"}
  /\ listener \in {"Open", "Failed", "Closed"}
  /\ main \in {"Serving", "Draining", "Joining", "ClosingPool", "Exited"}
  /\ req \in [Requests -> {"None", "Running", "Cut", "Done"}]
  /\ job \in [Jobs -> {"Waiting", "Executing", "Stopped"}]
  /\ inTx \subseteq Requests \cup Jobs

\* Start: every job executes at once, before its first tick.
Init ==
  /\ signalled = FALSE /\ timedOut = FALSE
  /\ coolOff = "Waiting" /\ listener = "Open" /\ main = "Serving"
  /\ req = [q \in Requests |-> "None"]
  /\ job = [j \in Jobs |-> "Executing"]
  /\ inTx = {}

Alive == main # "Exited"
PoolOpen == main \notin {"ClosingPool", "Exited"}

-----------------------------------------------------------------------------
(* Requests and jobs *)

Accept(q) ==
  /\ listener = "Open" /\ req[q] = "None" /\ Alive
  /\ req' = [req EXCEPT ![q] = "Running"]
  /\ UNCHANGED <<signalled, coolOff, listener, main, timedOut, job, inTx>>

\* A context that is still valid can begin a transaction.
CanBegin(x) ==
  \/ x \in Requests /\ req[x] = "Running"
  \/ x \in Jobs /\ job[x] = "Executing" /\ ~signalled

BeginTx(x) ==
  /\ Alive /\ PoolOpen
  /\ CanBegin(x) /\ x \notin inTx
  /\ inTx' = inTx \cup {x}
  /\ UNCHANGED <<signalled, coolOff, listener, main, timedOut, req, job>>

\* The handler of x is in progress, with a valid context or not.
InProgress(x) ==
  \/ x \in Requests /\ req[x] \in {"Running", "Cut"}
  \/ x \in Jobs /\ job[x] = "Executing"

\* WithinTransaction commits, or rolls back on an error, a panic or a cancelled
\* context, and the connection returns to the pool.  Only the handler does this:
\* nobody else ends a transaction that a handler leaves open.
EndTx(x) ==
  /\ Alive /\ x \in inTx /\ InProgress(x)
  /\ inTx' = inTx \ {x}
  /\ UNCHANGED <<signalled, coolOff, listener, main, timedOut, req, job>>

FinishRequest(q) ==
  /\ Alive /\ req[q] \in {"Running", "Cut"} /\ q \notin inTx
  /\ req' = [req EXCEPT ![q] = "Done"]
  /\ UNCHANGED <<signalled, coolOff, listener, main, timedOut, job, inTx>>

\* runJob's ticker; select may prefer it to a done context.
Execute(j) ==
  /\ Alive /\ job[j] = "Waiting"
  /\ job' = [job EXCEPT ![j] = "Executing"]
  /\ UNCHANGED <<signalled, coolOff, listener, main, timedOut, req, inTx>>

\* The handler returns, with an error or without.
JobReturns(j) ==
  /\ Alive /\ job[j] = "Executing" /\ j \notin inTx
  /\ job' = [job EXCEPT ![j] = "Waiting"]
  /\ UNCHANGED <<signalled, coolOff, listener, main, timedOut, req, inTx>>

\* Mutation: no recover, so the panic ends the job's loop.
PanicEndsJob(j) ==
  /\ Alive /\ job[j] = "Executing"
  /\ job' = [job EXCEPT ![j] = "Stopped"]
  /\ inTx' = inTx \ {j}
  /\ UNCHANGED <<signalled, coolOff, listener, main, timedOut, req>>

\* Mutation: no rollback on a panic, so the connection is never given back.
PanicKeepsConnection(j) ==
  /\ Alive /\ job[j] = "Executing"
  /\ job' = [job EXCEPT ![j] = "Waiting"]
  /\ UNCHANGED <<signalled, coolOff, listener, main, timedOut, req, inTx>>

\* The handler panics: the transaction is rolled back and execute recovers.
JobPanics(j) ==
  /\ Alive /\ job[j] = "Executing"
  /\ job' = [job EXCEPT ![j] = "Waiting"]
  /\ inTx' = inTx \ {j}
  /\ UNCHANGED <<signalled, coolOff, listener, main, timedOut, req>>

StopJob(j) ==
  /\ Alive /\ job[j] = "Waiting" /\ signalled
  /\ job' = [job EXCEPT ![j] = "Stopped"]
  /\ UNCHANGED <<signalled, coolOff, listener, main, timedOut, req, inTx>>

-----------------------------------------------------------------------------
(* Shutdown *)

Signal ==
  /\ ~signalled /\ Alive
  /\ signalled' = TRUE
  /\ UNCHANGED <<coolOff, listener, main, timedOut, req, job, inTx>>

StartCoolOff ==
  /\ signalled /\ coolOff = "Waiting" /\ Alive
  /\ coolOff' = "Sleeping"
  /\ UNCHANGED <<signalled, listener, main, timedOut, req, job, inTx>>

\* cancelServer after the three seconds.
EndCoolOff ==
  /\ coolOff = "Sleeping" /\ Alive
  /\ coolOff' = "Done"
  /\ UNCHANGED <<signalled, listener, main, timedOut, req, job, inTx>>

\* HTTPServer.Run: ListenAndServe fails and Run returns the error.
ListenFails ==
  /\ main = "Serving" /\ listener = "Open"
  /\ listener' = "Failed" /\ main' = "Joining"
  /\ UNCHANGED <<signalled, coolOff, timedOut, req, job, inTx>>

\* Mutation: the listener stays open while the server drains.
KeepListening ==
  /\ main = "Serving" /\ coolOff = "Done"
  /\ main' = "Draining"
  /\ UNCHANGED <<signalled, coolOff, listener, timedOut, req, job, inTx>>

\* HTTPServer.Run: serverCtx is done, and server.Shutdown closes the listener.
BeginShutdown ==
  /\ main = "Serving" /\ coolOff = "Done"
  /\ listener' = "Closed" /\ main' = "Draining"
  /\ UNCHANGED <<signalled, coolOff, timedOut, req, job, inTx>>

Drained ==
  /\ main = "Draining" /\ \A q \in Requests : req[q] \in {"None", "Done"}
  /\ main' = "Joining"
  /\ UNCHANGED <<signalled, coolOff, listener, timedOut, req, job, inTx>>

\* ShutdownTimeout: server.Close cancels what is still running.
CutRequests ==
  /\ main = "Draining" /\ \E q \in Requests : req[q] = "Running"
  /\ timedOut' = TRUE /\ main' = "Joining"
  /\ req' = [q \in Requests |-> IF req[q] = "Running" THEN "Cut" ELSE req[q]]
  /\ UNCHANGED <<signalled, coolOff, listener, job, inTx>>

\* Mutation: Run returns without waiting for the scheduler.
SkipJoin ==
  /\ main = "Joining"
  /\ main' = "ClosingPool"
  /\ UNCHANGED <<signalled, coolOff, listener, timedOut, req, job, inTx>>

\* bgScheduler.Stop returns; Redis and the pool begin to close.
Joined ==
  /\ main = "Joining" /\ \A j \in Jobs : job[j] = "Stopped"
  /\ main' = "ClosingPool"
  /\ UNCHANGED <<signalled, coolOff, listener, timedOut, req, job, inTx>>

\* pool.Close waits for every connection.
Exit ==
  /\ main = "ClosingPool" /\ inTx = {}
  /\ main' = "Exited"
  /\ UNCHANGED <<signalled, coolOff, listener, timedOut, req, job, inTx>>

Next ==
  \/ \E q \in Requests : Accept(q) \/ FinishRequest(q)
  \/ \E x \in Requests \cup Jobs : BeginTx(x) \/ EndTx(x)
  \/ \E j \in Jobs : Execute(j) \/ JobReturns(j) \/ JobPanics(j) \/ StopJob(j)
  \/ Signal \/ StartCoolOff \/ EndCoolOff \/ ListenFails \/ BeginShutdown
  \/ Drained \/ CutRequests \/ Joined \/ Exit

Spec == Init /\ [][Next]_vars

\* A job's handler ends, its ticker ticks, and select chooses at random among
\* the ready cases (strong fairness).  A request is only known to end once its
\* context is cancelled.  Timers run out and the main goroutine proceeds.
Fairness ==
  /\ \A j \in Jobs : /\ WF_vars(EndTx(j)) /\ WF_vars(JobReturns(j) \/ JobPanics(j))
                     /\ WF_vars(Execute(j)) /\ SF_vars(StopJob(j))
  /\ \A q \in Requests : WF_vars(req[q] = "Cut" /\ EndTx(q))
  /\ WF_vars(StartCoolOff) /\ WF_vars(EndCoolOff) /\ WF_vars(BeginShutdown)
  /\ WF_vars(Drained) /\ WF_vars(CutRequests) /\ WF_vars(Joined) /\ WF_vars(Exit)

FairSpec == Spec /\ Fairness

-----------------------------------------------------------------------------
(* Properties *)

\* The connections under a running job are never closed: the pool closes only
\* when all jobs have stopped.
JobsHaveDatabase == \A j \in Jobs : job[j] = "Executing" => PoolOpen

\* A request that was accepted and is not cut off keeps its database, too: it is
\* waited for, or told by its context, before the pool closes, although the listener
\* accepts during the cool-off and the jobs stop meanwhile.  Only a listener that
\* has failed leaves its requests behind: that path does not drain.
RequestsHaveDatabase ==
  \A q \in Requests : req[q] = "Running" => PoolOpen \/ listener = "Failed"

\* A signal ends the process, although requests may hang and jobs may be in the
\* middle of a pass or panic in a transaction: a connection that is not given back
\* would keep the pool from closing.  It also ends one whose listener has failed, unless
\* a request is in a transaction: that path cuts off no request.
SignalEndsProcess ==
  signalled ~> \/ ~Alive
               \/ listener = "Failed" /\ \E q \in Requests : q \in inTx

\* A job that fails or panics runs again until the process is told to stop.
JobsKeepRunning == \A j \in Jobs : [](~signalled => <>(job[j] = "Executing" \/ signalled))
=============================================================================
