--------------------------- MODULE LifecycleProofs ---------------------------
(***************************************************************************)
(* Proofs about Lifecycle, for any finite set of requests of any kinds,    *)
(* any number of boot steps, and any budgets whose sum is below the grace  *)
(* period.                                                                 *)
(***************************************************************************)
EXTENDS Lifecycle, FiniteSetTheorems, TLAPS

-----------------------------------------------------------------------------
(* The inductive invariant *)

\* A request and its write: a stream holds its handler while it writes, and a
\* detached write begins when the handler goes on to the reply.
RequestInv(r) ==
  write[r] = "running" =>
    handler[r] \in IF KindOf[r] = "stream" THEN {"running"} ELSE {"replying", "done"}

\* The process has ended in one of three ways, or not yet.
ExitInv == stage = "exited" <=> exit # "none"

\* SIGTERM starts the clock: what main has spent in srv.Shutdown and in the drain
\* bounds the time since then.
TimeInv ==
  /\ stage \in {"boot", "listening", "serving"} => elapsed = 0 /\ signal = 0
  /\ stage = "stopping" => elapsed =< ShutdownBudget /\ signal =< elapsed
  /\ stage = "draining" => elapsed =< DrainBudget /\ signal =< ShutdownBudget + elapsed

\* After a clean srv.Shutdown no request is active, and none can be accepted.
ShutdownInv ==
  /\ clean \/ drained => stage \in {"draining", "flushing", "exited"}
  /\ clean => Active = {}

\* After a clean srv.Shutdown the counted writes that run are as old as the drain, and
\* once the drain has seen the counter at zero there are none.
DrainInv ==
  clean =>
    /\ drained => wg = 0
    /\ stage = "draining" =>
         \A r \in Requests : KindOf[r] = "v2" /\ write[r] = "running" => age[r] >= elapsed

IInv ==
  /\ TypeOK
  /\ CounterExact
  /\ \A r \in Requests : RequestInv(r)
  /\ ExitInv /\ TimeInv /\ ShutdownInv /\ DrainInv
  /\ CleanShutdownLoses

-----------------------------------------------------------------------------
(* Lemmas *)

Counted == {r \in Requests : KindOf[r] = "v2"}

InFlight == {r \in Requests : KindOf[r] = "v2" /\ write[r] = "running"}

\* BgWG counts a finite set, which one Add or Done changes by one.
LEMMA InFlightFinite ==
  /\ IsFiniteSet(InFlight)
  /\ Cardinality(InFlight) \in 0..Cardinality(Counted)
  /\ Cardinality(Counted) \in Nat
  /\ Cardinality(InFlight) = 0 <=> InFlight = {}
<1>1. IsFiniteSet(Counted) /\ InFlight \in SUBSET Counted
  BY LifecycleAssumption, FS_Subset DEF Counted, InFlight
<1>2. QED
  BY <1>1, FS_Subset, FS_CardinalityType, FS_EmptySet

\* Nothing has started: the invariant holds.
LEMMA InitIInv == Init => IInv
<1> SUFFICES ASSUME Init PROVE IInv
  OBVIOUS
<1> USE LifecycleAssumption
<1>1. InFlight = {}
  BY DEF Init, InFlight
<1>2. CounterExact
  BY <1>1, FS_EmptySet DEF Init, CounterExact, InFlight
<1>3. TypeOK
  <2>1. 0 \in 0..Cardinality({r \in Requests : KindOf[r] = "v2"})
    BY InFlightFinite DEF Counted
  <2>2. elapsed \in 0..GracePeriod /\ signal \in 0..GracePeriod /\ boot \in 0..BootSteps
    BY DEF Init
  <2>3. handler \in [Requests -> Places] /\ write \in [Requests -> Writes]
        /\ age \in [Requests -> 0..DrainBudget]
    BY DEF Init, Places, Writes
  <2>4. QED
    BY <2>1, <2>2, <2>3 DEF Init, TypeOK, Stages
<1>4. QED
  BY <1>2, <1>3
     DEF Init, IInv, RequestInv, ExitInv, TimeInv, ShutdownInv, DrainInv, CleanShutdownLoses, DrainOver

\* main and time leave the requests and the counter alone.
LEMMA MainStep ==
  ASSUME IInv, UNCHANGED <<wg, handler, write>>
  PROVE  CounterExact' /\ \A r \in Requests : RequestInv(r)'
BY DEF IInv, CounterExact, RequestInv

\* The steps of main keep the invariant.
LEMMA MainInv ==
  ASSUME IInv, Main \/ ServerCrashes \/ TerminatedEarly \/ Killed
  PROVE  IInv'
<1> USE LifecycleAssumption
<1>u. UNCHANGED <<wg, handler, write, age, signal>>
  BY DEF Main, BootStep, BootFails, ListenAndServe, Notify, Terminated, ShutdownReturns,
         WaitReturns, DrainEnds, MainReturns, ServerCrashes, TerminatedEarly, Killed,
         Exit, requestVars
<1>1. CounterExact' /\ (\A r \in Requests : RequestInv(r)')
  BY <1>u, MainStep
<1>2. CASE BootStep
  BY <1>2, <1>u, <1>1
     DEF BootStep, IInv, TypeOK, ExitInv, TimeInv, ShutdownInv, DrainInv, Active, CleanShutdownLoses, DrainOver
<1>3. CASE BootFails \/ ServerCrashes \/ TerminatedEarly \/ Killed
  BY <1>3, <1>u, <1>1
     DEF BootFails, ServerCrashes, TerminatedEarly, Killed, Exit,
         IInv, TypeOK, Stages, ExitInv, TimeInv, ShutdownInv, DrainInv, Active, CleanShutdownLoses, DrainOver
<1>4. CASE ListenAndServe \/ Notify \/ Terminated
  BY <1>4, <1>u, <1>1
     DEF ListenAndServe, Notify, Terminated, IInv, TypeOK, Stages, ExitInv, TimeInv, ShutdownInv,
         DrainInv, Active, CleanShutdownLoses, DrainOver
<1>5. CASE ShutdownReturns
  <2>a. TypeOK' /\ ExitInv'
    <3>1. clean' \in BOOLEAN
      BY <1>5, Zenon DEF ShutdownReturns
    <3>2. stage = "stopping" /\ stage' = "draining" /\ elapsed' = 0
          /\ UNCHANGED <<boot, exit, signal, drained, requestVars>>
      BY <1>5 DEF ShutdownReturns
    <3>3. QED
      BY <3>1, <3>2 DEF IInv, TypeOK, Stages, ExitInv, requestVars
  <2>1. TimeInv'
    BY <1>5, <1>u DEF ShutdownReturns, IInv, TypeOK, TimeInv
  <2>2. ShutdownInv'
    BY <1>5, <1>u DEF ShutdownReturns, IInv, ShutdownInv, Active
  <2>3. DrainInv'
    BY <1>5, <1>u DEF ShutdownReturns, IInv, TypeOK, ShutdownInv, DrainInv
  <2>4. CleanShutdownLoses'
    BY <1>5, <1>u DEF ShutdownReturns, IInv, ExitInv, CleanShutdownLoses, DrainOver
  <2>5. QED
    BY <1>1, <2>a, <2>1, <2>2, <2>3, <2>4 DEF IInv
<1>6. CASE WaitReturns
  BY <1>6, <1>u, <1>1
     DEF WaitReturns, IInv, TypeOK, ExitInv, TimeInv, ShutdownInv, DrainInv, Active,
         CleanShutdownLoses, DrainOver
<1>7. CASE DrainEnds
  <2>1. ASSUME clean, NEW r \in Requests, write[r] = "running"
        PROVE  KindOf[r] = "v1" \/ (KindOf[r] = "v2" /\ age[r] >= DrainBudget)
    <3>1. KindOf[r] # "stream"
      BY <2>1 DEF IInv, RequestInv, ShutdownInv, Active
    <3>2. ASSUME KindOf[r] = "v2", drained PROVE FALSE
      BY <2>1, <3>2, InFlightFinite DEF IInv, DrainInv, CounterExact, InFlight
    <3>3. ASSUME KindOf[r] = "v2", DrainTimedOut PROVE age[r] >= DrainBudget
      BY <2>1, <3>3 DEF IInv, DrainInv, DrainTimedOut
    <3>4. QED
      BY <1>7, <3>1, <3>2, <3>3 DEF DrainEnds, Kinds
  <2>2. CleanShutdownLoses'
    BY <1>7, <1>u, <2>1 DEF DrainEnds, CleanShutdownLoses
  <2>3. QED
    BY <1>7, <1>u, <1>1, <2>2
       DEF DrainEnds, IInv, TypeOK, Stages, ExitInv, TimeInv, ShutdownInv, DrainInv, Active
<1>8. CASE MainReturns
  BY <1>8, <1>u, <1>1
     DEF MainReturns, Exit, IInv, TypeOK, Stages, ExitInv, TimeInv, ShutdownInv, DrainInv, Active,
         CleanShutdownLoses, DrainOver
<1>9. QED
  BY <1>2, <1>3, <1>4, <1>5, <1>6, <1>7, <1>8 DEF Main

\* Time keeps the invariant: in the drain every counted write ages with main's timer.
LEMMA TickInv ==
  ASSUME IInv, Tick
  PROVE  IInv'
<1> USE LifecycleAssumption
<1>1. CounterExact' /\ \A r \in Requests : RequestInv(r)'
  BY MainStep DEF Tick
<1>2. TypeOK'
  BY DEF Tick, IInv, TypeOK, TimeInv, ShutdownTimedOut, DrainTimedOut
<1>3. TimeInv'
  BY DEF Tick, IInv, TypeOK, TimeInv, ShutdownTimedOut, DrainTimedOut
<1>4. ExitInv' /\ ShutdownInv'
  BY DEF Tick, IInv, ExitInv, ShutdownInv, Active
<1>5. DrainInv'
  <2>1. ASSUME clean, stage = "draining",
               NEW r \in Requests, KindOf[r] = "v2", write[r] = "running"
        PROVE  age'[r] >= elapsed'
    BY <2>1 DEF Tick, IInv, TypeOK, DrainInv, TimeInv, DrainTimedOut
  <2>2. QED
    BY <2>1 DEF Tick, IInv, DrainInv
<1>6. CleanShutdownLoses'
  BY DEF Tick, IInv, TypeOK, CleanShutdownLoses, DrainOver
<1>7. QED
  BY <1>1, <1>2, <1>3, <1>4, <1>5, <1>6 DEF IInv

\* A step of a request leaves main alone, and is taken by an active one or accepts it:
\* not after a clean srv.Shutdown, but for the end of a write.
LEMMA RequestStep ==
  ASSUME IInv, NEW r \in Requests, Request(r)
  PROVE  IInv'
<1> USE LifecycleAssumption
<1>u. UNCHANGED mainVars
  BY DEF Request, Accept, Serve, StartWrite, StartReply, Reply, EndWrite
<1>a. age' = age
  BY DEF Request, Accept, Serve, StartWrite, StartReply, Reply, EndWrite
<1>t. TypeOK
  BY DEF IInv
<1>1. handler' \in [Requests -> Places] /\ write' \in [Requests -> Writes]
  BY <1>t DEF Request, Accept, Serve, StartWrite, StartReply, Reply, EndWrite, TypeOK, Places, Writes
<1>2. CounterExact'
  <2>1. CASE Accept(r) \/ Serve(r) \/ StartReply(r) \/ Reply(r)
    BY <2>1 DEF Accept, Serve, StartReply, Reply, IInv, CounterExact
  <2>2. CASE StartWrite(r)
    <3>1. InFlight' = IF KindOf[r] = "v2" THEN InFlight \cup {r} ELSE InFlight
      BY <1>t, <2>2 DEF StartWrite, InFlight, TypeOK
    <3>2. r \notin InFlight
      BY <2>2 DEF StartWrite, InFlight
    <3>3. wg = Cardinality(InFlight)
      BY DEF IInv, CounterExact, InFlight
    <3>4. wg' = Cardinality(InFlight')
      BY <2>2, <3>1, <3>2, <3>3, InFlightFinite, FS_AddElement DEF StartWrite
    <3>5. QED
      BY <3>4 DEF CounterExact, InFlight
  <2>3. CASE EndWrite(r)
    <3>1. InFlight' = IF KindOf[r] = "v2" THEN InFlight \ {r} ELSE InFlight
      BY <1>t, <2>3 DEF EndWrite, InFlight, TypeOK
    <3>2. KindOf[r] = "v2" => r \in InFlight
      BY <2>3 DEF EndWrite, InFlight
    <3>3. wg = Cardinality(InFlight)
      BY DEF IInv, CounterExact, InFlight
    <3>4. wg' = Cardinality(InFlight')
      BY <2>3, <3>1, <3>2, <3>3, InFlightFinite, FS_RemoveElement DEF EndWrite
    <3>5. QED
      BY <3>4 DEF CounterExact, InFlight
  <2>4. QED
    BY <2>1, <2>2, <2>3 DEF Request
<1>3. TypeOK'
  <2>1. wg' \in 0..Cardinality(Counted)
    <3>1. InFlight' \in SUBSET Counted /\ wg' = Cardinality(InFlight')
      BY <1>2 DEF CounterExact, InFlight, Counted
    <3>2. IsFiniteSet(Counted) /\ Cardinality(Counted) \in Nat
      BY LifecycleAssumption, InFlightFinite, FS_Subset DEF Counted
    <3>3. QED
      BY <3>1, <3>2, FS_Subset, FS_CardinalityType
  <2>2. QED
    BY <1>t, <1>u, <1>a, <1>1, <2>1 DEF TypeOK, mainVars, Counted
<1>4. ASSUME NEW p \in Requests PROVE RequestInv(p)'
  <2>1. RequestInv(p)
    BY DEF IInv
  <2>2. QED
    BY <1>t, <2>1 DEF Request, Accept, Serve, StartWrite, StartReply, Reply, EndWrite,
                      RequestInv, TypeOK
<1>5. ASSUME clean PROVE EndWrite(r)
  BY <1>5 DEF Request, Accept, Serve, StartWrite, StartReply, Reply, Alive, IInv, ShutdownInv, Active
<1>6. ExitInv' /\ TimeInv'
  BY <1>u DEF IInv, ExitInv, TimeInv, mainVars
<1>7. ShutdownInv'
  BY <1>u, <1>5 DEF IInv, ShutdownInv, mainVars, Active, EndWrite, Alive, Request,
         Accept, Serve, StartWrite, StartReply, Reply
<1>8. DrainInv'
  <2>1. CASE ~clean
    BY <1>u, <2>1 DEF DrainInv, mainVars
  <2>2. CASE clean
    <3>1. EndWrite(r)
      BY <1>5, <2>2
    <3>2. \A p \in Requests : write'[p] = "running" => write[p] = "running"
      BY <1>t, <3>1 DEF EndWrite, TypeOK
    <3>3. drained => KindOf[r] # "v2"
      BY <2>2, <3>1, InFlightFinite DEF IInv, DrainInv, CounterExact, EndWrite, InFlight
    <3>4. drained => wg' = 0
      BY <2>2, <3>1, <3>3 DEF IInv, DrainInv, EndWrite
    <3>5. QED
      BY <1>u, <1>a, <2>2, <3>2, <3>4 DEF IInv, DrainInv, mainVars
  <2>3. QED
    BY <2>1, <2>2
<1>9. CleanShutdownLoses'
  BY <1>u, <1>a, <1>5, <1>t DEF IInv, CleanShutdownLoses, DrainOver, mainVars, EndWrite, TypeOK
<1>10. QED
  BY <1>2, <1>3, <1>4, <1>6, <1>7, <1>8, <1>9 DEF IInv

-----------------------------------------------------------------------------
(* The theorems *)

\* Every step keeps the inductive invariant.
LEMMA StepIInv == IInv /\ [Next]_vars => IInv'
<1> SUFFICES ASSUME IInv, [Next]_vars PROVE IInv'
  OBVIOUS
<1>1. CASE Main \/ ServerCrashes \/ TerminatedEarly \/ Killed
  BY <1>1, MainInv
<1>2. CASE Tick
  BY <1>2, TickInv
<1>3. CASE \E r \in Requests : Request(r)
  BY <1>3, RequestStep
<1>4. CASE UNCHANGED vars
  BY <1>4, MainStep
     DEF vars, IInv, TypeOK, ExitInv, TimeInv, ShutdownInv, DrainInv, Active, CleanShutdownLoses, DrainOver
<1>5. QED
  BY <1>1, <1>2, <1>3, <1>4 DEF Next, Ended

\* IInv holds in every reachable state.
THEOREM Invariance == Spec => []IInv
BY InitIInv, StepIInv, PTL DEF Spec

\* Every variable of main, of the counter and of the requests keeps its type.
THEOREM TypeCorrect == Spec => []TypeOK
<1>1. IInv => TypeOK
  BY DEF IInv
<1>2. QED
  BY Invariance, <1>1, PTL

\* BgWG holds the number of V2 writes in flight, whatever else runs (server.go:60).
THEOREM CounterIsExact == Spec => []CounterExact
<1>1. IInv => CounterExact
  BY DEF IInv
<1>2. QED
  BY Invariance, <1>1, PTL

\* After a clean srv.Shutdown the drain loses only writes of V1, and V2 writes that
\* had its whole budget (main.go:196-216).
THEOREM CleanShutdownLosesLittle == Spec => []CleanShutdownLoses
<1>1. IInv => CleanShutdownLoses
  BY DEF IInv
<1>2. QED
  BY Invariance, <1>1, PTL

\* No BgWG.Add runs concurrently with BgWG.Wait after a clean srv.Shutdown.
THEOREM AddBeforeWait == Spec => NoAddDuringWait
<1>1. IInv /\ [Next]_vars => [stage = "draining" /\ clean => wg' =< wg]_vars
  <2> SUFFICES ASSUME IInv, Next, stage = "draining", clean PROVE wg' =< wg
    BY DEF vars
  <2>1. wg \in Int
    BY DEF IInv, TypeOK
  <2>2. ASSUME NEW r \in Requests, Request(r) PROVE wg' =< wg
    <3>1. handler[r] \notin {"accepted", "running", "replying"}
      BY DEF IInv, ShutdownInv, Active
    <3>2. EndWrite(r)
      BY <2>2, <3>1 DEF Request, Accept, Serve, StartWrite, StartReply, Reply
    <3>3. QED
      BY <2>1, <3>2 DEF EndWrite
  <2>3. ASSUME ~ \E r \in Requests : Request(r) PROVE wg' = wg
    BY <2>3 DEF Next, Main, BootStep, BootFails, ListenAndServe, Notify, Terminated,
           ShutdownReturns, WaitReturns, DrainEnds, MainReturns, ServerCrashes,
           TerminatedEarly, Killed, Exit, Tick, Ended, requestVars, vars
  <2>4. QED
    BY <2>1, <2>2, <2>3
<1>2. QED
  BY Invariance, <1>1, PTL DEF Spec, NoAddDuringWait

\* SIGKILL never interrupts srv.Shutdown or the drain: their budgets fit in the grace
\* period (main.go:190, main.go:205).
THEOREM BudgetsFitInGracePeriod == Spec => KilledOnlyAfterDrain
<1>1. IInv /\ [Next]_vars =>
        [exit' = "killed" /\ exit = "none" => stage \in {"boot", "listening", "flushing"}]_vars
  <2> SUFFICES ASSUME IInv, Next, exit' = "killed", exit = "none"
               PROVE  stage \in {"boot", "listening", "flushing"}
    BY DEF vars
  <2>1. TerminatedEarly \/ Killed
    BY DEF Next, Main, BootStep, BootFails, ListenAndServe, Notify, Terminated,
           ShutdownReturns, WaitReturns, DrainEnds, MainReturns, ServerCrashes, Exit, Tick,
           Request, Accept, Serve, StartWrite, StartReply, Reply, EndWrite, Ended, vars, mainVars
  <2>2. CASE TerminatedEarly
    BY <2>2 DEF TerminatedEarly
  <2>3. CASE Killed
    BY <2>3, LifecycleAssumption DEF Killed, IInv, TypeOK, TimeInv
  <2>4. QED
    BY <2>1, <2>2, <2>3
<1>2. QED
  BY Invariance, <1>1, PTL DEF Spec, KilledOnlyAfterDrain
=============================================================================
