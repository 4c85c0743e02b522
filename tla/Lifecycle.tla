----------------------------- MODULE Lifecycle -----------------------------
(***************************************************************************)
(* One gateway process from boot to exit (cmd/server/main.go), with the    *)
(* requests it serves and the writes to Redis they leave behind: when      *)
(* Kubernetes stops the pod, main shuts the HTTP server down, waits for    *)
(* the background writes it counts in BgWG, flushes its traces and ends,   *)
(* which takes every other goroutine with it.                              *)
(*                                                                         *)
(* Time passes in ticks.  A request is its place in the handler and the    *)
(* one write it may start; what the two compute is left out.               *)
(***************************************************************************)
EXTENDS Integers, FiniteSets

CONSTANTS
  Requests,
  KindOf,          \* which handler serves a request
  BootSteps,       \* number of calls main makes before it listens
  IndexStep,       \* the one whose error is ignored (InitializeIndex)
  ShutdownBudget,  \* ticks srv.Shutdown may take (10 s in the code)
  DrainBudget,     \* ticks main waits for BgWG (5 s in the code)
  GracePeriod      \* ticks from SIGTERM to SIGKILL (Kubernetes default, 30 s)

(* "v2": its write runs in a goroutine counted in BgWG (saveToCacheAsync).   *)
(* "v1": its writes run in goroutines nobody counts (Execute,                *)
(*       ExecuteWithSession, a cache hit of ExecuteStreamWithSession).       *)
(* "stream": its writes run in the pump, before the pump closes the pipe the *)
(*       handler reads to its end.                                           *)
Kinds == {"v1", "stream", "v2"}

ASSUME LifecycleAssumption ==
  /\ IsFiniteSet(Requests)
  /\ KindOf \in [Requests -> Kinds]
  /\ BootSteps \in Nat \ {0}
  /\ IndexStep \in 1..BootSteps
  /\ ShutdownBudget \in Nat \ {0}
  /\ DrainBudget \in Nat \ {0}
  /\ GracePeriod \in Nat
  /\ GracePeriod > ShutdownBudget + DrainBudget

VARIABLES
  stage,    \* where main is
  boot,     \* boot steps taken
  exit,     \* how the process ended
  elapsed,  \* ticks main has spent in srv.Shutdown or in the drain
  signal,   \* ticks since SIGTERM
  clean,    \* srv.Shutdown returned nil
  drained,  \* the goroutine that waits for BgWG has closed bgDone
  wg,       \* the counter of BgWG
  handler,  \* the place of each request
  write,    \* its write
  age       \* ticks since the write was started, up to DrainBudget

vars == <<stage, boot, exit, elapsed, signal, clean, drained, wg, handler, write, age>>

Stages == {"boot", "listening", "serving", "stopping", "draining", "flushing", "exited"}
Places == {"none", "accepted", "running", "replying", "done"}
Writes == {"none", "running", "done"}

mainVars == <<stage, boot, exit, elapsed, signal, clean, drained>>
requestVars == <<wg, handler, write, age>>

Alive == stage # "exited"

-----------------------------------------------------------------------------
(* main: boot *)

Exit(how) ==
  /\ stage' = "exited"
  /\ exit' = how
  /\ UNCHANGED <<boot, elapsed, signal, clean, drained, requestVars>>

\* A call of the boot sequence succeeds, or it is the one that need not.
BootStep ==
  /\ stage = "boot"
  /\ boot < BootSteps
  /\ boot' = boot + 1
  /\ UNCHANGED <<stage, exit, elapsed, signal, clean, drained, requestVars>>

BootFails ==
  /\ stage = "boot"
  /\ boot < BootSteps
  /\ boot + 1 # IndexStep
  /\ Exit("fatal")

\* The goroutine that calls ListenAndServe starts; signals are not yet caught.
ListenAndServe ==
  /\ stage = "boot"
  /\ boot = BootSteps
  /\ stage' = "listening"
  /\ UNCHANGED <<boot, exit, elapsed, signal, clean, drained, requestVars>>

Notify ==
  /\ stage = "listening"
  /\ stage' = "serving"
  /\ UNCHANGED <<boot, exit, elapsed, signal, clean, drained, requestVars>>

\* The port is taken or the listener breaks: os.Exit(1), whatever is in flight.
ServerCrashes ==
  /\ stage \in {"listening", "serving"}
  /\ Exit("fatal")

-----------------------------------------------------------------------------
(* main: shutdown *)

\* Before signal.Notify the default action of SIGTERM ends the process.
TerminatedEarly ==
  /\ stage \in {"boot", "listening"}
  /\ Exit("killed")

\* SIGTERM reaches main, which calls srv.Shutdown.  A second one stays in quit.
Terminated ==
  /\ stage = "serving"
  /\ stage' = "stopping"
  /\ UNCHANGED <<boot, exit, elapsed, signal, clean, drained, requestVars>>

Active == {r \in Requests : handler[r] \in {"accepted", "running", "replying"}}

\* A context without a deadline, a channel nobody sends on.
NeverTimesOut == FALSE

\* The timers of main: shutdownCtx and time.After.
ShutdownTimedOut == stage = "stopping" /\ elapsed = ShutdownBudget

DrainTimedOut == stage = "draining" /\ elapsed = DrainBudget

\* srv.Close() instead of srv.Shutdown().
ShutdownNotWaiting ==
  /\ stage = "stopping"
  /\ stage' = "draining"
  /\ elapsed' = 0
  /\ clean' = TRUE
  /\ UNCHANGED <<boot, exit, signal, drained, requestVars>>

\* srv.Shutdown polls until no connection is active, or its context is done.
ShutdownReturns ==
  /\ stage = "stopping"
  /\ \/ Active = {} /\ clean' = TRUE
     \/ ShutdownTimedOut /\ clean' = FALSE
  /\ stage' = "draining"
  /\ elapsed' = 0
  /\ UNCHANGED <<boot, exit, signal, drained, requestVars>>

\* BgWG.Wait() returns in its goroutine, which closes bgDone.
WaitReturns ==
  /\ stage = "draining"
  /\ ~drained
  /\ wg = 0
  /\ drained' = TRUE
  /\ UNCHANGED <<stage, boot, exit, elapsed, signal, clean, requestVars>>

\* A drain that gives up as soon as it has to wait.
ImpatientDrainEnds ==
  /\ stage = "draining"
  /\ stage' = "flushing"
  /\ UNCHANGED <<boot, exit, elapsed, signal, clean, drained, requestVars>>

\* bgDone is closed, or the timeout is over.
DrainEnds ==
  /\ stage = "draining"
  /\ drained \/ DrainTimedOut
  /\ stage' = "flushing"
  /\ UNCHANGED <<boot, exit, elapsed, signal, clean, drained, requestVars>>

\* The deferred tp.Shutdown has sent the last spans; main returns.
MainReturns ==
  /\ stage = "flushing"
  /\ Exit("graceful")

-----------------------------------------------------------------------------
(* Time *)

\* SIGKILL, when the grace period is over.
Killed ==
  /\ stage \in {"stopping", "draining", "flushing"}
  /\ signal = GracePeriod
  /\ Exit("killed")

\* main takes a timer that has fired before the next tick.
Tick ==
  /\ stage \in {"serving", "stopping", "draining", "flushing"}
  /\ ~ShutdownTimedOut
  /\ ~DrainTimedOut
  /\ signal < GracePeriod
  /\ elapsed' = IF stage \in {"stopping", "draining"} THEN elapsed + 1 ELSE elapsed
  /\ signal' = IF stage = "serving" THEN signal ELSE signal + 1
  /\ age' = [r \in Requests |->
               IF write[r] = "running" /\ age[r] < DrainBudget THEN age[r] + 1 ELSE age[r]]
  /\ UNCHANGED <<stage, boot, exit, clean, drained, wg, handler, write>>

-----------------------------------------------------------------------------
(* Requests *)

\* The listener accepts a connection; srv.Shutdown closes the listener.
Accept(r) ==
  /\ stage \in {"listening", "serving"}
  /\ handler[r] = "none"
  /\ handler' = [handler EXCEPT ![r] = "accepted"]
  /\ UNCHANGED <<mainVars, wg, write, age>>

\* The request arrives on it, or the connection is closed without one.
Serve(r) ==
  /\ Alive
  /\ handler[r] = "accepted"
  /\ \E next \in {"running", "done"} : handler' = [handler EXCEPT ![r] = next]
  /\ UNCHANGED <<mainVars, wg, write, age>>

\* saveToCacheAsync that calls Add in the goroutine, after the handler went on.
UncountedStartWrite(r) ==
  /\ Alive
  /\ handler[r] = "running"
  /\ write[r] = "none"
  /\ write' = [write EXCEPT ![r] = "running"]
  /\ handler' = [handler EXCEPT ![r] = "replying"]
  /\ UNCHANGED <<mainVars, wg, age>>

\* The answer is there: its write starts.  A detached write lets the handler go
\* on; the pump of a stream holds the handler until it closes the pipe.
StartWrite(r) ==
  /\ Alive
  /\ handler[r] = "running"
  /\ write[r] = "none"
  /\ write' = [write EXCEPT ![r] = "running"]
  /\ handler' = [handler EXCEPT ![r] = IF KindOf[r] = "stream" THEN "running" ELSE "replying"]
  /\ wg' = IF KindOf[r] = "v2" THEN wg + 1 ELSE wg
  /\ UNCHANGED <<mainVars, age>>

\* Nothing to store, or the pump has stored it and closed the pipe.
StartReply(r) ==
  /\ Alive
  /\ handler[r] = "running"
  /\ write[r] # "running"
  /\ handler' = [handler EXCEPT ![r] = "replying"]
  /\ UNCHANGED <<mainVars, wg, write, age>>

Reply(r) ==
  /\ Alive
  /\ handler[r] = "replying"
  /\ handler' = [handler EXCEPT ![r] = "done"]
  /\ UNCHANGED <<mainVars, wg, write, age>>

\* The write has succeeded or failed; saveToCacheAsync defers BgWG.Done().
EndWrite(r) ==
  /\ Alive
  /\ write[r] = "running"
  /\ write' = [write EXCEPT ![r] = "done"]
  /\ wg' = IF KindOf[r] = "v2" THEN wg - 1 ELSE wg
  /\ UNCHANGED <<mainVars, handler, age>>

Ended ==
  /\ ~Alive
  /\ UNCHANGED vars

-----------------------------------------------------------------------------
(* Specification *)

Init ==
  /\ stage = "boot"
  /\ boot = 0
  /\ exit = "none"
  /\ elapsed = 0
  /\ signal = 0
  /\ clean = FALSE
  /\ drained = FALSE
  /\ wg = 0
  /\ handler = [r \in Requests |-> "none"]
  /\ write = [r \in Requests |-> "none"]
  /\ age = [r \in Requests |-> 0]

Main ==
  \/ BootStep \/ BootFails \/ ListenAndServe \/ Notify
  \/ Terminated \/ ShutdownReturns \/ WaitReturns \/ DrainEnds \/ MainReturns

Request(r) ==
  \/ Accept(r) \/ Serve(r) \/ StartWrite(r) \/ StartReply(r) \/ Reply(r) \/ EndWrite(r)

Next ==
  \/ Main
  \/ ServerCrashes \/ TerminatedEarly \/ Killed
  \/ Tick
  \/ \E r \in Requests : Request(r)
  \/ Ended

Spec == Init /\ [][Next]_vars

\* Time passes, and main goes on when it can.  No request needs to be answered and
\* no write to end: a remote call may take longer than all budgets (the bot client
\* waits 65 s, the Gemini client for ever).
FairSpec ==
  Spec /\ WF_vars(Tick) /\ WF_vars(ShutdownReturns) /\ WF_vars(WaitReturns) /\ WF_vars(DrainEnds)

-----------------------------------------------------------------------------
(* Properties *)

TypeOK ==
  /\ stage \in Stages
  /\ boot \in 0..BootSteps
  /\ exit \in {"none", "fatal", "killed", "graceful"}
  /\ elapsed \in 0..GracePeriod
  /\ signal \in 0..GracePeriod
  /\ clean \in BOOLEAN
  /\ drained \in BOOLEAN
  /\ wg \in 0..Cardinality({r \in Requests : KindOf[r] = "v2"})
  /\ handler \in [Requests -> Places]
  /\ write \in [Requests -> Writes]
  /\ age \in [Requests -> 0..DrainBudget]

DrainOver == stage = "flushing" \/ exit = "graceful"

\* What a shutdown in which no request outlived srv.Shutdown may lose: writes of the
\* V1 handlers that nobody counts, and counted writes that have had the whole drain
\* budget since their Add - never the write of a stream.
CleanShutdownLoses ==
  DrainOver /\ clean =>
    \A r \in Requests : write[r] = "running" =>
      \/ KindOf[r] = "v1"
      \/ KindOf[r] = "v2" /\ age[r] >= DrainBudget

\* BgWG.Add is never called concurrently with BgWG.Wait, as sync.WaitGroup asks, when
\* srv.Shutdown saw every request out.
NoAddDuringWait ==
  [][stage = "draining" /\ clean => wg' =< wg]_vars

\* The counter of BgWG is the number of V2 writes in flight, at every moment main
\* could read it.
CounterExact ==
  wg = Cardinality({r \in Requests : KindOf[r] = "v2" /\ write[r] = "running"})

\* SIGKILL finds main past the drain: the two budgets fit in the grace period.
KilledOnlyAfterDrain ==
  [][exit' = "killed" /\ exit = "none" => stage \in {"boot", "listening", "flushing"}]_vars

\* A SIGTERM that main catches always leads through the drain, even if no request
\* is ever answered and no write ever ends.
SignalLeadsThroughDrain ==
  stage = "stopping" ~> DrainOver

\* main.go:202,213: "Wait for any mid-flight Redis cache writes to finish!", and after
\* it "All background goroutines drained cleanly."
AllWritesDrained ==
  drained => \A r \in Requests : write[r] # "running"
=============================================================================
