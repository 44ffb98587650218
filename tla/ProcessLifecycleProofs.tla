----------------------- MODULE ProcessLifecycleProofs -----------------------
(***************************************************************************)
(* The order of shutdown, for any number of requests and jobs.             *)
(***************************************************************************)
EXTENDS ProcessLifecycle, TLAPS

\* The pool closes after the last job has stopped.  A server that has begun to stop
\* accepts nothing, and one that has stopped left nothing running, unless it failed.
ShutdownInv ==
  /\ DOMAIN job = Jobs /\ DOMAIN req = Requests
  /\ ~PoolOpen => \A j \in Jobs : job[j] = "Stopped"
  /\ main # "Serving" => listener # "Open"
  /\ main \notin {"Serving", "Draining"} /\ listener # "Failed" =>
       \A q \in Requests : req[q] # "Running"

LEMMA ShutdownInit == Init => ShutdownInv
BY DEF Init, ShutdownInv, PoolOpen, Alive

LEMMA ShutdownNext == ShutdownInv /\ [Next]_vars => ShutdownInv'
<1> SUFFICES ASSUME ShutdownInv, [Next]_vars PROVE ShutdownInv'
  OBVIOUS
<1> USE DEF ShutdownInv, PoolOpen, Alive
<1>1. ASSUME NEW q \in Requests, Accept(q) \/ FinishRequest(q) PROVE ShutdownInv'
  BY <1>1 DEF Accept, FinishRequest
<1>2. ASSUME NEW x \in Requests \cup Jobs, BeginTx(x) \/ EndTx(x) PROVE ShutdownInv'
  BY <1>2 DEF BeginTx, EndTx
<1>3. ASSUME NEW j \in Jobs, Execute(j) PROVE ShutdownInv'
  BY <1>3 DEF Execute
<1>4. ASSUME NEW j \in Jobs, JobReturns(j) \/ JobPanics(j) PROVE ShutdownInv'
  BY <1>4 DEF JobReturns, JobPanics
<1>5. ASSUME NEW j \in Jobs, StopJob(j) PROVE ShutdownInv'
  BY <1>5 DEF StopJob
<1>6. CASE Signal \/ StartCoolOff \/ EndCoolOff
  BY <1>6 DEF Signal, StartCoolOff, EndCoolOff
<1>7. CASE ListenFails \/ BeginShutdown \/ Drained \/ CutRequests
  BY <1>7 DEF ListenFails, BeginShutdown, Drained, CutRequests
<1>8. CASE Joined \/ Exit
  BY <1>8 DEF Joined, Exit
<1>9. CASE UNCHANGED vars
  BY <1>9 DEF vars
<1> QED BY <1>1, <1>2, <1>3, <1>4, <1>5, <1>6, <1>7, <1>8, <1>9 DEF Next

\* No job ever works on a pool that is closing, whatever panics, hangs or fails.
THEOREM JobsAreServed == Spec => []JobsHaveDatabase
<1>1. ShutdownInv => JobsHaveDatabase
  BY DEF ShutdownInv, JobsHaveDatabase
<1> QED BY <1>1, ShutdownInit, ShutdownNext, PTL DEF Spec

\* No request that was accepted and not cut off meets a closed pool, unless the
\* listener has failed.
THEOREM RequestsAreServed == Spec => []RequestsHaveDatabase
<1>1. ShutdownInv => RequestsHaveDatabase
  BY DEF ShutdownInv, RequestsHaveDatabase, PoolOpen
<1> QED BY <1>1, ShutdownInit, ShutdownNext, PTL DEF Spec
=============================================================================
