------------------------ MODULE BotSupervisor_proofs ------------------------
(***************************************************************************)
(* Theorems about BotSupervisor, for any bots, users, handles, coroutines  *)
(* and plans.  Typing first, then the inductive invariant, then what       *)
(* follows from it.                                                        *)
(***************************************************************************)
EXTENDS BotSupervisor, TLAPS

-----------------------------------------------------------------------------
(***************************************************************************)
(* Type correctness.                                                       *)
(***************************************************************************)

\* The part of TypeOK about the variables a worker's step writes.
WorkerTypeOK ==
    /\ state \in [Handles -> States]
    /\ pc \in [Handles -> Pcs]
    /\ clean \in [Handles -> BOOLEAN]
    /\ companion \in [Handles -> {"none", "planned", "alive", "cancelled", "gone"}]

\* The ways a step can end leave the worker's variables typed.
LEMMA HelpersTyped ==
    ASSUME WorkerTypeOK, NEW h \in Handles
    PROVE  /\ \A n \in BOOLEAN : AfterFinally(h, n) /\ UNCHANGED <<clean, companion>> => WorkerTypeOK'
           /\ \A n \in BOOLEAN : Unwind(h, n) => WorkerTypeOK'
           /\ Fail(h) => WorkerTypeOK'
           /\ EndOfBar(h) => WorkerTypeOK'
           /\ TradeBar(h) => WorkerTypeOK'
<1> USE DEF WorkerTypeOK, States, Live, Pcs, LoopPcs, ExitPcs, Goto, SetState
<1>1. \A n \in BOOLEAN : AfterFinally(h, n) /\ UNCHANGED <<clean, companion>> => WorkerTypeOK'
  BY DEF AfterFinally
<1>2. \A n \in BOOLEAN : Unwind(h, n) => WorkerTypeOK'
  BY DEF Unwind, AfterFinally
<1>3. Fail(h) => WorkerTypeOK'
  BY DEF Fail
<1>4. EndOfBar(h) => WorkerTypeOK'
  BY DEF EndOfBar
<1>5. TradeBar(h) => WorkerTypeOK'
  BY <1>3, <1>4 DEF TradeBar
<1> QED BY <1>1, <1>2, <1>3, <1>4, <1>5

\* Every variable keeps its type through a step of a worker.
LEMMA WorkerTyped ==
    ASSUME TypeOK, NEW h \in Handles, Worker(h)
    PROVE  TypeOK'
<1>0. WorkerTypeOK
  BY DEF TypeOK, WorkerTypeOK
<1>1. WorkerTypeOK' /\ cancelling' \in [Handles -> BOOLEAN] /\ lostStart' \in [Handles -> BOOLEAN]
  <2> USE DEF TypeOK
  <2>1. CASE BeginRun(h) /\ UNCHANGED cancelling
    BY <1>0, <2>1 DEF BeginRun, WorkerTypeOK, States, Live, Pcs, LoopPcs, Goto, SetState
  <2>2. CASE Started(h) /\ UNCHANGED cancelling
    BY <1>0, <2>2 DEF Started, WorkerTypeOK, Pcs, LoopPcs, Goto
  <2>3. CASE StartedLost(h) /\ UNCHANGED cancelling
    BY <1>0, <2>3 DEF StartedLost, WorkerTypeOK, Pcs, Goto
  <2>4. CASE IdlePublished(h) /\ UNCHANGED cancelling
    BY <1>0, <2>4 DEF IdlePublished, WorkerTypeOK, Pcs, LoopPcs, Goto
  <2>5. CASE ResumedPublished(h) /\ UNCHANGED cancelling
    BY <1>0, <2>5, HelpersTyped DEF ResumedPublished
  <2>6. CASE Submitted(h) /\ UNCHANGED cancelling
    BY <1>0, <2>6, HelpersTyped DEF Submitted
  <2>7. CASE TripPublished(h) /\ UNCHANGED cancelling
    BY <1>0, <2>7 DEF TripPublished, WorkerTypeOK, Pcs, ExitPcs, Goto
  <2>8. CASE Leave(h) /\ UNCHANGED cancelling
    BY <1>0, <2>8, HelpersTyped DEF Leave
  <2>9. CASE StoppedPublished(h) /\ UNCHANGED cancelling
    BY <1>0, <2>9 DEF StoppedPublished, WorkerTypeOK, Pcs, Goto
  <2>10. CASE TeardownDone(h)
    <3>1. clean[h] \in BOOLEAN
      BY <1>0 DEF WorkerTypeOK
    <3> QED BY <1>0, <2>10, <3>1, HelpersTyped DEF TeardownDone
  <2>11. CASE CancelDelivered(h)
    <3>1. CASE Unwind(h, FALSE)
      BY <1>0, <2>11, <3>1, HelpersTyped DEF CancelDelivered
    <3>2. CASE Goto(h, "done") /\ UNCHANGED <<state, clean, companion>>
      BY <1>0, <2>11, <3>2 DEF CancelDelivered, WorkerTypeOK, Pcs, Goto
    <3> QED BY <2>11, <3>1, <3>2 DEF CancelDelivered
  <2>12. CASE LoopEnds(h) /\ UNCHANGED cancelling
    BY <1>0, <2>12, HelpersTyped DEF LoopEnds
  <2>13. CASE BarWhileClosed(h) /\ UNCHANGED cancelling
    BY <1>0, <2>13 DEF BarWhileClosed, WorkerTypeOK, States, Live, Pcs, LoopPcs, Goto, SetState
  <2>14. CASE BarWhileOpen(h) /\ UNCHANGED cancelling
    <3>1. CASE TradeBar(h)
      BY <1>0, <2>14, <3>1, HelpersTyped DEF BarWhileOpen
    <3>2. CASE ~TradeBar(h)
      BY <1>0, <2>14, <3>2
         DEF BarWhileOpen, WorkerTypeOK, States, Live, Pcs, LoopPcs, Goto, SetState
    <3> QED BY <3>1, <3>2
  <2>15. CASE AwaitRaises(h) /\ UNCHANGED cancelling
    BY <1>0, <2>15, HelpersTyped DEF AwaitRaises
  <2>16. CASE CompanionEnds(h) /\ UNCHANGED cancelling
    BY <1>0, <2>16 DEF CompanionEnds, WorkerTypeOK
  <2> QED
    BY <2>1, <2>2, <2>3, <2>4, <2>5, <2>6, <2>7, <2>8, <2>9, <2>10, <2>11, <2>12,
       <2>13, <2>14, <2>15, <2>16 DEF Worker, Proceeds
<1>2. UNCHANGED <<current, botOf, reqVars, phase, killedPub>>
  BY DEF Worker
<1> QED BY <1>1, <1>2 DEF TypeOK, WorkerTypeOK, reqVars

\* Every variable keeps its type when a bot is started.
LEMMA StartTyped ==
    ASSUME TypeOK, NEW b \in Bots, NEW h \in Handles, Start(b, h)
    PROVE  TypeOK'
<1>1. PICK plan \in Plans : companion' = [companion EXCEPT ![h] = plan]
  BY DEF Start
<1>2. plan \in {"none", "planned"}
  BY ConstantsAssumption
<1>3. companion' \in [Handles -> {"none", "planned", "alive", "cancelled", "gone"}]
  BY <1>1, <1>2 DEF TypeOK
<1> QED BY <1>3 DEF Start, TypeOK, Goto, Pcs, LoopPcs, reqVars

\* Taking down the handle registered for b keeps the types.
LEMMA TakeDownTyped ==
    ASSUME TypeOK, NEW r \in Reqs, NEW b \in Bots,
           NEW op \in {"stop", "kill", "kill_all", "shutdown"}, TakeDown(r, op, b)
    PROVE  /\ state' \in [Handles -> States]
           /\ cancelling' \in [Handles -> BOOLEAN]
           /\ rh' \in [Reqs -> Handles \cup {NoHandle}]
           /\ rpc' \in [Reqs -> {"idle", "await_task", "cancel_open", "pub_killed"}]
<1>1. current[b] \in Handles
  BY DEF TakeDown, TypeOK
<1>2. Verdict(op) \in States
  BY DEF Verdict, States
<1> QED BY <1>1, <1>2 DEF TakeDown, TypeOK, SetState, Cancel

\* Beginning a stop, kill, kill_all or shutdown keeps the types.
LEMMA BeginTyped ==
    ASSUME TypeOK, NEW r \in Reqs, NEW op \in {"stop", "kill", "kill_all", "shutdown"},
           NEW ids \in SUBSET Bots, NEW scope, Begin(r, op, ids, scope),
           phase' \in {"serving", "stopping", "down"}
    PROVE  TypeOK'
<1>1. PICK b \in ids : TakeDown(r, op, b) /\ targets' = [targets EXCEPT ![r] = ids \ {b}]
  BY DEF Begin
<1>2. b \in Bots
  OBVIOUS
<1>3. Born(scope) \in SUBSET Handles
  BY DEF Born
<1>4. seen' \in [Reqs -> SUBSET Handles] /\ rop' \in [Reqs -> {"stop", "kill", "kill_all", "shutdown"}]
  BY <1>3 DEF Begin, TypeOK
<1>5. targets' \in [Reqs -> SUBSET Bots]
  BY <1>1 DEF TypeOK
<1>6. UNCHANGED <<current, botOf, pc, clean, companion, killedPub, lostStart>>
  BY DEF Begin
<1> QED BY <1>1, <1>2, <1>4, <1>5, <1>6, TakeDownTyped DEF TypeOK

\* The part of TypeOK about the variables a coroutine's step writes.
RequestTypeOK ==
    /\ state \in [Handles -> States]
    /\ cancelling \in [Handles -> BOOLEAN]
    /\ rpc \in [Reqs -> {"idle", "await_task", "cancel_open", "pub_killed"}]
    /\ rop \in [Reqs -> {"stop", "kill", "kill_all", "shutdown"}]
    /\ rh \in [Reqs -> Handles \cup {NoHandle}]
    /\ targets \in [Reqs -> SUBSET Bots]
    /\ seen \in [Reqs -> SUBSET Handles]

\* A returning coroutine keeps the types.
LEMMA ReturnTyped ==
    ASSUME TypeOK, NEW r \in Reqs, Return(r)
    PROVE  RequestTypeOK'
BY DEF Return, TypeOK, RequestTypeOK

\* Going on to the next bot, or returning, keeps the types.
LEMMA VisitNextTyped ==
    ASSUME TypeOK, NEW r \in Reqs, VisitNext(r)
    PROVE  RequestTypeOK' /\ phase' \in {"serving", "stopping", "down"}
<1>1. CASE Return(r) /\ phase' = IF rop[r] = "shutdown" THEN "down" ELSE phase
  BY <1>1, ReturnTyped DEF TypeOK, RequestTypeOK
<1>2. ASSUME NEW b \in targets[r], TakeDown(r, rop[r], b),
             targets' = [targets EXCEPT ![r] = @ \ {b}], UNCHANGED <<rop, seen, phase>>
      PROVE  RequestTypeOK' /\ phase' \in {"serving", "stopping", "down"}
  <2>1. b \in Bots /\ rop[r] \in {"stop", "kill", "kill_all", "shutdown"}
    BY <1>2 DEF TypeOK
  <2> QED BY <1>2, <2>1, TakeDownTyped DEF TypeOK, RequestTypeOK
<1> QED BY <1>1, <1>2 DEF VisitNext

\* Every variable keeps its type through a step of an API coroutine.
LEMMA RequestTyped ==
    ASSUME TypeOK, NEW r \in Reqs, Request(r)
    PROVE  TypeOK'
<1>1. UNCHANGED <<current, botOf, pc, clean, companion, lostStart>>
  BY DEF Request
<1>2. CASE TaskJoined(r)
  <2>1. CASE VisitNext(r)
    BY <1>1, <1>2, <2>1, VisitNextTyped DEF TaskJoined, TypeOK, RequestTypeOK
  <2>2. CASE ~VisitNext(r)
    BY <1>1, <1>2, <2>2 DEF TaskJoined, TypeOK
  <2> QED BY <2>1, <2>2
<1>3. CASE OrdersCancelled(r)
  BY <1>1, <1>3 DEF OrdersCancelled, TypeOK
<1>4. CASE KilledPublished(r)
  <2>1. killedPub' \in [Handles -> BOOLEAN] /\ VisitNext(r)
    BY <1>4 DEF KilledPublished, TypeOK
  <2> QED BY <1>1, <2>1, VisitNextTyped DEF TypeOK, RequestTypeOK
<1>5. CASE KilledLost(r)
  <2>1. Return(r) /\ UNCHANGED <<phase, killedPub>>
    BY <1>5 DEF KilledLost
  <2> QED BY <1>1, <2>1, ReturnTyped DEF TypeOK, RequestTypeOK
<1> QED BY <1>2, <1>3, <1>4, <1>5 DEF Request

\* Every variable keeps its type when a request comes in.
LEMMA ApiTyped ==
    ASSUME TypeOK, NEW r \in Reqs, Api(r)
    PROVE  TypeOK'
<1>1. ASSUME NEW b \in Bots, StopBot(r, b) \/ KillBot(r, b) PROVE TypeOK'
  <2>1. phase' \in {"serving", "stopping", "down"}
    BY <1>1 DEF StopBot, KillBot, TypeOK
  <2>2. {b} \in SUBSET Bots
    BY <1>1
  <2> QED BY <1>1, <2>1, <2>2, BeginTyped DEF StopBot, KillBot
<1>2. ASSUME NEW u \in Users, KillAll(r, u) PROVE TypeOK'
  <2>1. phase' \in {"serving", "stopping", "down"}
    BY <1>2 DEF KillAll, TypeOK
  <2>2. KillTargets(u) \in SUBSET Bots
    BY DEF KillTargets
  <2> QED BY <1>2, <2>1, <2>2, BeginTyped DEF KillAll
<1>3. CASE Shutdown(r)
  <2>1. CASE Begin(r, "shutdown", RunningBots, Bots) /\ phase' = "stopping"
    <3>1. RunningBots \in SUBSET Bots
      BY DEF RunningBots
    <3> QED BY <2>1, <3>1, BeginTyped
  <2>2. CASE ~(Begin(r, "shutdown", RunningBots, Bots) /\ phase' = "stopping")
    BY <1>3, <2>2 DEF Shutdown, TypeOK, workerVars, reqVars
  <2> QED BY <2>1, <2>2
<1> QED BY <1>1, <1>2, <1>3 DEF Api

\* TypeOK of BotSupervisor, for every instance: the type invariant of the
\* supervisor's handles, tasks and coroutines.
THEOREM Typing == Spec => []TypeOK
<1>1. Init => TypeOK
  BY ConstantsAssumption DEF Init, TypeOK, States, Live, Pcs
<1>2. TypeOK /\ [Next]_vars => TypeOK'
  <2> SUFFICES ASSUME TypeOK, [Next]_vars PROVE TypeOK'
    OBVIOUS
  <2>1. ASSUME NEW h \in Handles, Worker(h) PROVE TypeOK'
    BY <2>1, WorkerTyped
  <2>2. ASSUME NEW h \in Handles, NEW b \in Bots, Start(b, h) PROVE TypeOK'
    BY <2>2, StartTyped
  <2>3. ASSUME NEW r \in Reqs, Request(r) PROVE TypeOK'
    BY <2>3, RequestTyped
  <2>4. ASSUME NEW r \in Reqs, Api(r) PROVE TypeOK'
    BY <2>4, ApiTyped
  <2>5. CASE UNCHANGED vars
    BY <2>5 DEF vars, TypeOK
  <2> QED BY <2>1, <2>2, <2>3, <2>4, <2>5 DEF Next, Exited
<1> QED BY <1>1, <1>2, PTL DEF Spec

-----------------------------------------------------------------------------
(***************************************************************************)
(* The inductive invariant.  It ties the state a handle shows to the place *)
(* its task is at and to a pending cancellation, which no single property  *)
(* of the supervisor does.                                                 *)
(***************************************************************************)

\* The registry holds handles of the right bot that have been created.
Registered ==
    \A b \in Bots :
        current[b] # NoHandle => botOf[current[b]] = b /\ pc[current[b]] # "unborn"

\* One handle: the state it shows against the await its task is at.
StateInv(h) ==
    /\ pc[h] = "unborn" => ~cancelling[h] /\ state[h] = "STARTING" /\ botOf[h] = NoBot
    /\ pc[h] # "unborn" => botOf[h] \in Bots
    /\ state[h] = "STARTING" => pc[h] \in {"unborn", "created"}
    /\ Trading(h) => state[h] \in Live
    /\ cancelling[h] => state[h] \notin Live /\ pc[h] # "done"
    /\ pc[h] \in ExitPcs /\ state[h] \in Live => pc[h] = "teardown" /\ clean[h]
    /\ pc[h] = "done" /\ state[h] \in Live => lostStart[h]

\* One handle: a companion runs only inside the try, and is cancelled only in
\* the finally.
CompanionInv(h) ==
    /\ pc[h] = "unborn" => companion[h] = "none"
    /\ companion[h] \in {"alive", "cancelled"} =>
            pc[h] \notin {"created", "pub_started", "pub_stopped", "done"}
    /\ companion[h] = "cancelled" => pc[h] = "teardown"

\* A worker that can trade is the one the registry knows.
TraderInv ==
    \A h \in Handles : Trading(h) => current[botOf[h]] = h

\* A kill past its join holds a handle whose task has ended, and so does every
\* handle bot_killed was published for.
JoinInv ==
    /\ \A r \in Reqs :
          /\ rpc[r] # "idle" => rh[r] \in Handles /\ pc[rh[r]] # "unborn"
          /\ rpc[r] \in {"cancel_open", "pub_killed"} => pc[rh[r]] = "done"
    /\ \A h \in Handles : killedPub[h] => pc[h] = "done"

\* What a takedown remembers are handles that exist.
SeenInv == \A r \in Reqs, h \in Handles : h \in seen[r] => pc[h] # "unborn"

\* There is one shutdown at most, it runs alone, and it has seen everything.
ShutdownInv ==
    /\ \A q, r \in Reqs :
          rpc[r] # "idle" /\ rop[r] = "shutdown" /\ rpc[q] # "idle" => q = r
    /\ \A r \in Reqs : rpc[r] # "idle" /\ rop[r] = "shutdown" => phase = "stopping"
    /\ \A r \in Reqs, h \in Handles :
          rpc[r] # "idle" /\ rop[r] = "shutdown" /\ pc[h] # "unborn" => h \in seen[r]
    /\ ShutdownStopsAll

IInv ==
    /\ TypeOK
    /\ Registered
    /\ \A h \in Handles : StateInv(h) /\ CompanionInv(h)
    /\ TraderInv
    /\ JoinInv
    /\ SeenInv
    /\ TakedownCovers
    /\ ShutdownInv

\* A step of worker h leaves the other workers alone.
LEMMA WorkerFrame ==
    ASSUME TypeOK, NEW h \in Handles, Worker(h), NEW g \in Handles, g # h
    PROVE  /\ state'[g] = state[g] /\ pc'[g] = pc[g] /\ cancelling'[g] = cancelling[g]
           /\ clean'[g] = clean[g] /\ companion'[g] = companion[g]
           /\ lostStart'[g] = lostStart[g]
<1> USE DEF TypeOK, Goto, SetState
<1>1. ASSUME NEW n \in BOOLEAN, Unwind(h, n) \/ (AfterFinally(h, n) /\ UNCHANGED <<clean, companion>>)
      PROVE  /\ state'[g] = state[g] /\ pc'[g] = pc[g]
             /\ clean'[g] = clean[g] /\ companion'[g] = companion[g]
  BY <1>1 DEF Unwind, AfterFinally
<1>2. ASSUME TradeBar(h) \/ EndOfBar(h) \/ Fail(h)
      PROVE  /\ state'[g] = state[g] /\ pc'[g] = pc[g]
             /\ clean'[g] = clean[g] /\ companion'[g] = companion[g]
  BY <1>2 DEF TradeBar, EndOfBar, Fail
<1>3. CASE Proceeds(h)
  <2>1. CASE BeginRun(h) \/ Started(h) \/ StartedLost(h) \/ IdlePublished(h) \/ TripPublished(h) \/ StoppedPublished(h)
    BY <1>3, <2>1 DEF BeginRun, Started, StartedLost, IdlePublished, TripPublished,
                      StoppedPublished, Proceeds, TeardownDone, CancelDelivered, Resumes
  <2>2. CASE (ResumedPublished(h) \/ Submitted(h)) /\ UNCHANGED cancelling
    BY <1>2, <2>2 DEF ResumedPublished, Submitted
  <2>3. CASE Leave(h) /\ UNCHANGED cancelling
    BY <1>1, <2>3 DEF Leave
  <2>4. CASE TeardownDone(h)
    <3>1. clean[h] \in BOOLEAN
      OBVIOUS
    <3> QED BY <1>1, <2>4, <3>1 DEF TeardownDone
  <2>5. CASE CancelDelivered(h)
    <3>1. CASE Unwind(h, FALSE)
      BY <1>1, <2>5, <3>1 DEF CancelDelivered
    <3>2. CASE Goto(h, "done") /\ UNCHANGED <<state, clean, companion>>
      BY <2>5, <3>2 DEF CancelDelivered
    <3> QED BY <2>5, <3>1, <3>2 DEF CancelDelivered
  <2> QED BY <1>3, <2>1, <2>2, <2>3, <2>4, <2>5 DEF Proceeds
<1>4. CASE LoopEnds(h) /\ UNCHANGED cancelling
  BY <1>1, <1>4 DEF LoopEnds
<1>5. CASE BarWhileClosed(h) /\ UNCHANGED cancelling
  BY <1>5 DEF BarWhileClosed
<1>6. CASE BarWhileOpen(h) /\ UNCHANGED cancelling
  BY <1>2, <1>6 DEF BarWhileOpen
<1>7. CASE AwaitRaises(h) /\ UNCHANGED cancelling
  BY <1>2, <1>7 DEF AwaitRaises
<1>8. CASE CompanionEnds(h) /\ UNCHANGED cancelling
  BY <1>8 DEF CompanionEnds
<1> QED BY <1>3, <1>4, <1>5, <1>6, <1>7, <1>8 DEF Worker

\* What a step of worker h does to itself: it keeps the invariant of its
\* handle, never gains the right to trade, and never leaves an end state.
StepOK(h) ==
    /\ StateInv(h)' /\ CompanionInv(h)'
    /\ Trading(h)' => Trading(h)
    /\ pc[h] # "unborn" /\ pc[h] # "done" /\ pc'[h] # "unborn"
    /\ state[h] \notin Live => state'[h] \notin Live

LEMMA WorkerLocal ==
    ASSUME TypeOK, NEW h \in Handles, StateInv(h), CompanionInv(h), Worker(h)
    PROVE  StepOK(h)
<1> USE DEF TypeOK, StateInv, CompanionInv, StepOK, Trading, LoopPcs, ExitPcs, Live,
            Resumes, Goto, SetState
<1>0. UNCHANGED botOf
  BY DEF Worker
<1>1. CASE BeginRun(h) /\ UNCHANGED cancelling
  BY <1>0, <1>1 DEF BeginRun
<1>2. CASE Started(h) /\ UNCHANGED cancelling
  BY <1>0, <1>2 DEF Started
<1>3. CASE StartedLost(h) /\ UNCHANGED cancelling
  BY <1>0, <1>3 DEF StartedLost
<1>4. CASE IdlePublished(h) /\ UNCHANGED cancelling
  BY <1>0, <1>4 DEF IdlePublished
<1>5. CASE ResumedPublished(h) /\ UNCHANGED cancelling
  BY <1>0, <1>5 DEF ResumedPublished, TradeBar, EndOfBar, Fail
<1>6. CASE Submitted(h) /\ UNCHANGED cancelling
  BY <1>0, <1>6 DEF Submitted, EndOfBar
<1>7. CASE TripPublished(h) /\ UNCHANGED cancelling
  BY <1>0, <1>7 DEF TripPublished
<1>8. CASE Leave(h) /\ UNCHANGED cancelling
  BY <1>0, <1>8 DEF Leave, Unwind, AfterFinally
<1>9. CASE StoppedPublished(h) /\ UNCHANGED cancelling
  BY <1>0, <1>9 DEF StoppedPublished
<1>10. CASE TeardownDone(h)
  BY <1>0, <1>10 DEF TeardownDone, AfterFinally
<1>11. CASE CancelDelivered(h)
  <2>1. CASE Unwind(h, FALSE) /\ pc[h] \notin {"created", "pub_started", "pub_stopped"}
    BY <1>0, <1>11, <2>1 DEF CancelDelivered, Unwind, AfterFinally
  <2>2. CASE pc[h] \in {"created", "pub_started", "pub_stopped"}
    BY <1>0, <1>11, <2>2 DEF CancelDelivered
  <2> QED BY <1>11, <2>1, <2>2 DEF CancelDelivered
<1>12. CASE LoopEnds(h) /\ UNCHANGED cancelling
  BY <1>0, <1>12 DEF LoopEnds, Unwind, AfterFinally
<1>13. CASE BarWhileClosed(h) /\ UNCHANGED cancelling
  BY <1>0, <1>13 DEF BarWhileClosed
<1>14. CASE BarWhileOpen(h) /\ UNCHANGED cancelling
  BY <1>0, <1>14 DEF BarWhileOpen, TradeBar, EndOfBar, Fail
<1>15. CASE AwaitRaises(h) /\ UNCHANGED cancelling
  BY <1>0, <1>15 DEF AwaitRaises, Fail
<1>16. CASE CompanionEnds(h) /\ UNCHANGED cancelling
  BY <1>0, <1>16 DEF CompanionEnds
<1> QED
  BY <1>1, <1>2, <1>3, <1>4, <1>5, <1>6, <1>7, <1>8, <1>9, <1>10, <1>11, <1>12,
     <1>13, <1>14, <1>15, <1>16 DEF Worker, Proceeds

\* A step of a worker keeps the inductive invariant.
LEMMA WorkerInductive ==
    ASSUME IInv, NEW h \in Handles, Worker(h)
    PROVE  IInv'
<1>1. TypeOK'
  BY WorkerTyped DEF IInv
<1>2. UNCHANGED <<current, botOf, rpc, rop, rh, targets, seen, phase, killedPub>>
  BY DEF Worker, reqVars
<1>3. StepOK(h)
  BY WorkerLocal DEF IInv
<1>4. ASSUME NEW g \in Handles
      PROVE  /\ StateInv(g)' /\ CompanionInv(g)'
             /\ Trading(g)' => Trading(g)
             /\ pc'[g] = "unborn" <=> pc[g] = "unborn"
             /\ pc[g] = "done" => pc'[g] = "done"
  <2>1. CASE g = h
    BY <1>3, <2>1 DEF StepOK
  <2>2. CASE g # h
    <3>1. /\ state'[g] = state[g] /\ pc'[g] = pc[g] /\ cancelling'[g] = cancelling[g]
          /\ clean'[g] = clean[g] /\ companion'[g] = companion[g]
          /\ lostStart'[g] = lostStart[g]
      BY <2>2, WorkerFrame DEF IInv
    <3> QED BY <1>2, <3>1 DEF IInv, StateInv, CompanionInv, Trading
  <2> QED BY <2>1, <2>2
<1>5. Registered' /\ TraderInv' /\ JoinInv' /\ SeenInv'
  BY <1>2, <1>4 DEF IInv, TypeOK, Registered, TraderInv, JoinInv, SeenInv
<1>6. TakedownCovers'
  BY <1>2, <1>4 DEF IInv, TakedownCovers
<1>7. ShutdownInv'
  BY <1>2, <1>4 DEF IInv, ShutdownInv, ShutdownStopsAll
<1> QED BY <1>1, <1>4, <1>5, <1>6, <1>7 DEF IInv

\* Starting a bot keeps the inductive invariant: start() refuses while the
\* registered handle looks live, and by StateInv a worker that can trade does.
LEMMA StartInductive ==
    ASSUME IInv, NEW b \in Bots, NEW h \in Handles, Start(b, h)
    PROVE  IInv'
<1> USE DEF IInv, TypeOK
<1>1. TypeOK'
  BY StartTyped
<1>2. PICK plan \in {"none", "planned"} : companion' = [companion EXCEPT ![h] = plan]
  BY ConstantsAssumption DEF Start
<1>3. /\ current' = [current EXCEPT ![b] = h]
      /\ botOf' = [botOf EXCEPT ![h] = b]
      /\ pc' = [pc EXCEPT ![h] = "created"]
      /\ pc[h] = "unborn"
      /\ phase = "serving"
      /\ UNCHANGED <<state, cancelling, clean, rpc, rop, rh, targets, seen, phase,
                      killedPub, lostStart>>
  BY DEF Start, Goto, reqVars
<1>4. \A g \in Handles : StateInv(g)' /\ CompanionInv(g)'
  BY <1>2, <1>3 DEF StateInv, CompanionInv, Trading, LoopPcs, ExitPcs, Live
<1>5. Registered'
  BY <1>3, ConstantsAssumption DEF Registered
<1>6. TraderInv'
  <2> SUFFICES ASSUME NEW g \in Handles, Trading(g)'
               PROVE  current'[botOf'[g]] = g
    BY DEF TraderInv
  <2>1. CASE g = h
    BY <1>3, <2>1
  <2>2. CASE g # h
    <3>1. Trading(g) /\ botOf'[g] = botOf[g] /\ botOf[g] \in Bots
      BY <1>3, <2>2 DEF Trading, StateInv, LoopPcs
    <3>2. current[botOf[g]] = g /\ state[g] \in Live
      BY <3>1 DEF TraderInv, StateInv
    <3>3. botOf[g] # b
      BY <3>2, ConstantsAssumption DEF Start
    <3> QED BY <1>3, <3>1, <3>2, <3>3
  <2> QED BY <2>1, <2>2
<1>7. JoinInv' /\ SeenInv'
  BY <1>3 DEF JoinInv, SeenInv
<1>8. TakedownCovers'
  BY <1>3 DEF TakedownCovers, SeenInv, Trading
<1>9. ShutdownInv'
  BY <1>3 DEF ShutdownInv, ShutdownStopsAll
<1> QED BY <1>1, <1>4, <1>5, <1>6, <1>7, <1>8, <1>9

\* Taking down bot b: its handle shows an end state, none of the workers of b
\* can trade afterwards, and nobody else is disturbed.
LEMMA TakeDownLocal ==
    ASSUME IInv, NEW r \in Reqs, NEW b \in Bots,
           NEW op \in {"stop", "kill", "kill_all", "shutdown"}, TakeDown(r, op, b),
           UNCHANGED <<current, botOf, pc, clean, companion, lostStart>>
    PROVE  /\ current[b] \in Handles /\ pc[current[b]] # "unborn"
           /\ Registered' /\ TraderInv'
           /\ \A g \in Handles :
                 /\ StateInv(g)' /\ CompanionInv(g)'
                 /\ Trading(g)' => Trading(g) /\ botOf[g] # b
                 /\ state[g] \notin Live => state'[g] \notin Live
<1> USE DEF IInv, TypeOK
<1>1. current[b] \in Handles /\ pc[current[b]] # "unborn"
  BY DEF TakeDown, Registered
<1>2. Verdict(op) \in {"STOPPING", "KILLED"}
  BY DEF Verdict
<1>3. /\ state' = [state EXCEPT ![current[b]] = Verdict(op)]
      /\ cancelling' = [cancelling EXCEPT ![current[b]] = pc[current[b]] # "done"]
  BY DEF TakeDown, SetState, Cancel
<1>4. ASSUME NEW g \in Handles
      PROVE  /\ StateInv(g)' /\ CompanionInv(g)'
             /\ Trading(g)' => Trading(g) /\ botOf[g] # b
             /\ state[g] \notin Live => state'[g] \notin Live
  <2>1. CompanionInv(g)'
    BY DEF CompanionInv
  <2>2. CASE g = current[b]
    BY <1>1, <1>2, <1>3, <2>1, <2>2 DEF StateInv, Trading, Live, LoopPcs, ExitPcs
  <2>3. CASE g # current[b]
    <3>1. state'[g] = state[g] /\ cancelling'[g] = cancelling[g]
      BY <1>3, <2>3
    <3>2. StateInv(g)' /\ (Trading(g)' => Trading(g))
      BY <3>1 DEF StateInv, Trading
    <3>3. Trading(g) => botOf[g] # b
      BY <2>3 DEF TraderInv
    <3> QED BY <2>1, <3>1, <3>2, <3>3
  <2> QED BY <2>2, <2>3
<1>5. Registered' /\ TraderInv'
  BY <1>4 DEF Registered, TraderInv
<1> QED BY <1>1, <1>4, <1>5

\* A takedown may begin when it is going to visit every worker that can trade
\* for the bots it was asked about.
LEMMA BeginInductive ==
    ASSUME IInv, NEW r \in Reqs, NEW op \in {"stop", "kill", "kill_all", "shutdown"},
           NEW ids \in SUBSET Bots, NEW scope \in SUBSET Bots, Begin(r, op, ids, scope),
           \A h \in Handles : Trading(h) /\ botOf[h] \in scope => botOf[h] \in ids,
           phase = "serving",
           \/ op # "shutdown" /\ phase' = "serving"
           \/ /\ op = "shutdown" /\ phase' = "stopping" /\ scope = Bots
              /\ \A q \in Reqs : rpc[q] = "idle"
    PROVE  IInv'
<1>1. TypeOK'
  BY BeginTyped DEF IInv
<1>2. PICK b \in ids : TakeDown(r, op, b) /\ targets' = [targets EXCEPT ![r] = ids \ {b}]
  BY DEF Begin
<1>3. b \in Bots
  OBVIOUS
<1>4. /\ UNCHANGED <<current, botOf, pc, clean, companion, killedPub, lostStart>>
      /\ rpc[r] = "idle"
      /\ rop' = [rop EXCEPT ![r] = op]
      /\ seen' = [seen EXCEPT ![r] = Born(scope)]
  BY DEF Begin
<1>5. /\ current[b] \in Handles /\ pc[current[b]] # "unborn"
      /\ Registered' /\ TraderInv'
      /\ \A g \in Handles :
            /\ StateInv(g)' /\ CompanionInv(g)'
            /\ Trading(g)' => Trading(g) /\ botOf[g] # b
  BY <1>2, <1>3, <1>4, TakeDownLocal
<1>6. rh' = [rh EXCEPT ![r] = current[b]] /\ rpc' = [rpc EXCEPT ![r] = "await_task"]
  BY <1>2 DEF TakeDown
<1> USE DEF IInv, TypeOK
<1>7. JoinInv'
  BY <1>4, <1>5, <1>6 DEF JoinInv
<1>8. SeenInv'
  BY <1>4, ConstantsAssumption DEF SeenInv, Born, StateInv
<1>9. TakedownCovers'
  <2> SUFFICES ASSUME NEW q \in Reqs, NEW h \in Handles,
                      rpc'[q] # "idle", h \in seen'[q], Trading(h)'
               PROVE  botOf[h] \in targets'[q]
    BY <1>4 DEF TakedownCovers
  <2>1. Trading(h) /\ botOf[h] # b
    BY <1>5
  <2>2. CASE q = r
    BY <1>2, <1>4, <2>1, <2>2 DEF Born
  <2>3. CASE q # r
    BY <1>2, <1>4, <1>6, <2>1, <2>3 DEF TakedownCovers
  <2> QED BY <2>2, <2>3
<1>10. ShutdownInv'
  <2>1. ShutdownStopsAll'
    BY DEF ShutdownStopsAll
  <2>2. \A q \in Reqs : ~(rpc[q] # "idle" /\ rop[q] = "shutdown")
    BY ConstantsAssumption DEF ShutdownInv
  <2>3. CASE op # "shutdown"
    <3>1. \A q \in Reqs : ~(rpc'[q] # "idle" /\ rop'[q] = "shutdown")
      BY <1>4, <1>6, <2>2, <2>3
    <3> QED BY <2>1, <3>1 DEF ShutdownInv
  <2>4. CASE op = "shutdown"
    <3>1. \A q \in Reqs : rpc'[q] # "idle" => q = r
      BY <1>6, <2>4
    <3>2. \A h \in Handles : pc'[h] # "unborn" => h \in seen'[r]
      BY <1>4, <2>4 DEF Born, StateInv
    <3> QED BY <2>1, <2>4, <3>1, <3>2 DEF ShutdownInv
  <2> QED BY <2>3, <2>4
<1> QED BY <1>1, <1>5, <1>7, <1>8, <1>9, <1>10

\* Every request that comes in keeps the inductive invariant.
LEMMA ApiInductive ==
    ASSUME IInv, NEW r \in Reqs, Api(r)
    PROVE  IInv'
<1> USE DEF IInv
<1>1. ASSUME NEW b \in Bots, StopBot(r, b) \/ KillBot(r, b) PROVE IInv'
  <2>1. {b} \in SUBSET Bots
    OBVIOUS
  <2>2. CASE StopBot(r, b)
    BY <2>1, <2>2, BeginInductive DEF StopBot
  <2>3. CASE KillBot(r, b)
    BY <2>1, <2>3, BeginInductive DEF KillBot
  <2> QED BY <1>1, <2>2, <2>3
<1>2. ASSUME NEW u \in Users, KillAll(r, u) PROVE IInv'
  <2>1. KillTargets(u) \in SUBSET Bots /\ {b \in Bots : UserOf[b] = u} \in SUBSET Bots
    BY DEF KillTargets
  <2>2. \A h \in Handles : Trading(h) /\ botOf[h] \in {b \in Bots : UserOf[b] = u}
                             => botOf[h] \in KillTargets(u)
    BY ConstantsAssumption DEF KillTargets, TraderInv, StateInv, Live
  <2> QED BY <1>2, <2>1, <2>2, BeginInductive DEF KillAll
<1>3. CASE Shutdown(r)
  <2>1. \A h \in Handles : Trading(h) /\ botOf[h] \in Bots => botOf[h] \in RunningBots
    <3> SUFFICES ASSUME NEW h \in Handles, Trading(h), botOf[h] \in Bots
                 PROVE  botOf[h] \in RunningBots
      OBVIOUS
    <3>1. state[h] \in Live /\ current[botOf[h]] = h
      BY DEF StateInv, TraderInv
    <3>2. state[h] # "STARTING"
      BY <1>3 DEF Shutdown, StateInv, Trading, LoopPcs
    <3> QED BY <3>1, <3>2, ConstantsAssumption DEF RunningBots, Live
  <2>2. CASE Begin(r, "shutdown", RunningBots, Bots) /\ phase' = "stopping"
    <3>1. RunningBots \in SUBSET Bots /\ Bots \in SUBSET Bots
      BY DEF RunningBots
    <3> QED BY <1>3, <2>1, <2>2, <3>1, BeginInductive DEF Shutdown
  <2>3. CASE /\ RunningBots = {} /\ phase' = "down"
             /\ UNCHANGED <<current, botOf, workerVars, cancelling, reqVars, killedPub, lostStart>>
    <3>1. TypeOK'
      BY ApiTyped
    <3>2. UNCHANGED <<current, botOf, state, pc, clean, companion, cancelling, rpc, rop,
                      rh, targets, seen, killedPub, lostStart>>
      BY <2>3 DEF workerVars, reqVars
    <3>3. \A h \in Handles : ~Trading(h)
      BY <2>1, <2>3 DEF StateInv, Trading, LoopPcs
    <3>4. \A q \in Reqs : rpc[q] = "idle"
      BY <1>3 DEF Shutdown
    <3>5. Registered' /\ TraderInv' /\ JoinInv' /\ SeenInv' /\ TakedownCovers'
      BY <3>2 DEF Registered, TraderInv, JoinInv, SeenInv, TakedownCovers, Trading
    <3>6. \A h \in Handles : StateInv(h)' /\ CompanionInv(h)'
      BY <3>2 DEF StateInv, CompanionInv, Trading
    <3>7. ShutdownInv'
      BY <3>2, <3>3, <3>4 DEF ShutdownInv, ShutdownStopsAll, Trading
    <3> QED BY <3>1, <3>5, <3>6, <3>7
  <2> QED BY <1>3, <2>2, <2>3 DEF Shutdown
<1> QED BY <1>1, <1>2, <1>3 DEF Api

\* A coroutine that returns keeps the inductive invariant.  It may bring the
\* process down only if nothing trades any more.
LEMMA ReturnInductive ==
    ASSUME IInv, NEW r \in Reqs, Return(r), TypeOK',
           UNCHANGED <<current, botOf, pc, clean, companion, lostStart>>,
           \A h \in Handles : killedPub'[h] => pc[h] = "done",
           \/ UNCHANGED phase
           \/ phase' = "down" /\ rpc[r] # "idle" /\ rop[r] = "shutdown" /\ targets[r] = {}
    PROVE  IInv'
<1> USE DEF IInv, TypeOK
<1>1. /\ rpc' = [rpc EXCEPT ![r] = "idle"]
      /\ rop' = [rop EXCEPT ![r] = "stop"]
      /\ rh' = [rh EXCEPT ![r] = NoHandle]
      /\ targets' = [targets EXCEPT ![r] = {}]
      /\ seen' = [seen EXCEPT ![r] = {}]
      /\ UNCHANGED <<state, cancelling>>
  BY DEF Return
<1>2. /\ \A h \in Handles : StateInv(h)' /\ CompanionInv(h)' /\ Trading(h)' = Trading(h)
      /\ Registered' /\ TraderInv'
  BY <1>1 DEF StateInv, CompanionInv, Registered, TraderInv, Trading
<1>3. JoinInv' /\ SeenInv' /\ TakedownCovers'
  BY <1>1, <1>2 DEF JoinInv, SeenInv, TakedownCovers
<1>4. ShutdownInv'
  <2>1. CASE UNCHANGED phase
    BY <1>1, <1>2, <2>1 DEF ShutdownInv, ShutdownStopsAll
  <2>2. CASE phase' = "down" /\ rpc[r] # "idle" /\ rop[r] = "shutdown" /\ targets[r] = {}
    <3>1. \A q \in Reqs : rpc'[q] = "idle"
      BY <1>1, <2>2 DEF ShutdownInv
    <3>2. \A h \in Handles : ~Trading(h)
      BY <2>2 DEF ShutdownInv, TakedownCovers, Trading, LoopPcs
    <3> QED BY <1>2, <3>1, <3>2 DEF ShutdownInv, ShutdownStopsAll
  <2> QED BY <2>1, <2>2
<1> QED BY <1>2, <1>3, <1>4

\* Going on to the next bot keeps the inductive invariant.
LEMMA VisitNextInductive ==
    ASSUME IInv, NEW r \in Reqs, VisitNext(r), TypeOK', rpc[r] # "idle",
           UNCHANGED <<current, botOf, pc, clean, companion, lostStart>>,
           \A h \in Handles : killedPub'[h] => pc[h] = "done"
    PROVE  IInv'
<1>1. CASE /\ targets[r] = {} /\ Return(r)
           /\ phase' = IF rop[r] = "shutdown" THEN "down" ELSE phase
  BY <1>1, ReturnInductive
<1>2. ASSUME NEW b \in targets[r], TakeDown(r, rop[r], b),
             targets' = [targets EXCEPT ![r] = @ \ {b}], UNCHANGED <<rop, seen, phase>>
      PROVE  IInv'
  <2> USE DEF IInv, TypeOK
  <2>1. b \in Bots /\ rop[r] \in {"stop", "kill", "kill_all", "shutdown"}
    BY <1>2
  <2>2. /\ current[b] \in Handles /\ pc[current[b]] # "unborn"
        /\ Registered' /\ TraderInv'
        /\ \A g \in Handles :
              /\ StateInv(g)' /\ CompanionInv(g)'
              /\ Trading(g)' => Trading(g) /\ botOf[g] # b
    BY <1>2, <2>1, TakeDownLocal
  <2>3. rh' = [rh EXCEPT ![r] = current[b]] /\ rpc' = [rpc EXCEPT ![r] = "await_task"]
    BY <1>2 DEF TakeDown
  <2>4. JoinInv' /\ SeenInv'
    BY <1>2, <2>2, <2>3 DEF JoinInv, SeenInv
  <2>5. TakedownCovers'
    <3> SUFFICES ASSUME NEW q \in Reqs, NEW h \in Handles,
                        rpc'[q] # "idle", h \in seen'[q], Trading(h)'
                 PROVE  botOf[h] \in targets'[q]
      BY DEF TakedownCovers
    <3>1. Trading(h) /\ botOf[h] # b
      BY <2>2
    <3>2. rpc[q] # "idle"
      BY <2>3
    <3>3. botOf[h] \in targets[q]
      BY <1>2, <3>1, <3>2 DEF TakedownCovers
    <3> QED BY <1>2, <3>1, <3>3
  <2>6. ShutdownInv'
    BY <1>2, <2>2, <2>3 DEF ShutdownInv, ShutdownStopsAll
  <2> QED BY <2>2, <2>4, <2>5, <2>6
<1> QED BY <1>1, <1>2 DEF VisitNext

\* A step of an API coroutine keeps the inductive invariant.
LEMMA RequestInductive ==
    ASSUME IInv, NEW r \in Reqs, Request(r)
    PROVE  IInv'
<1>1. TypeOK'
  BY RequestTyped DEF IInv
<1>2. UNCHANGED <<current, botOf, pc, clean, companion, lostStart>>
  BY DEF Request
<1> USE DEF IInv, TypeOK
<1>3. ASSUME rpc' = [rpc EXCEPT ![r] = IF rpc[r] = "await_task" THEN "cancel_open" ELSE "pub_killed"],
             rpc[r] # "idle", pc[rh[r]] = "done",
             UNCHANGED <<state, cancelling, rop, rh, targets, seen, phase, killedPub>>
      PROVE  IInv'
  <2>1. /\ \A h \in Handles : StateInv(h)' /\ CompanionInv(h)' /\ Trading(h)' = Trading(h)
        /\ Registered' /\ TraderInv' /\ SeenInv'
    BY <1>2, <1>3 DEF StateInv, CompanionInv, Registered, TraderInv, SeenInv, Trading
  <2>2. JoinInv'
    BY <1>2, <1>3 DEF JoinInv
  <2>3. TakedownCovers' /\ ShutdownInv'
    BY <1>2, <1>3, <2>1 DEF TakedownCovers, ShutdownInv, ShutdownStopsAll
  <2> QED BY <1>1, <2>1, <2>2, <2>3
<1>4. CASE TaskJoined(r)
  <2>1. CASE VisitNext(r)
    BY <1>1, <1>2, <1>4, <2>1, VisitNextInductive DEF TaskJoined, JoinInv
  <2>2. CASE ~VisitNext(r)
    BY <1>3, <1>4, <2>2 DEF TaskJoined
  <2> QED BY <2>1, <2>2
<1>5. CASE OrdersCancelled(r)
  BY <1>3, <1>5 DEF OrdersCancelled, JoinInv
<1>6. CASE KilledPublished(r)
  <2>1. \A h \in Handles : killedPub'[h] => pc[h] = "done"
    BY <1>6 DEF KilledPublished, JoinInv
  <2> QED BY <1>1, <1>2, <1>6, <2>1, VisitNextInductive DEF KilledPublished
<1>7. CASE KilledLost(r)
  BY <1>1, <1>2, <1>7, ReturnInductive DEF KilledLost, JoinInv
<1> QED BY <1>4, <1>5, <1>6, <1>7 DEF Request

\* The inductive invariant holds in every reachable state.
LEMMA Inductive == Spec => []IInv
<1>1. Init => IInv
  <2> SUFFICES ASSUME Init PROVE IInv
    OBVIOUS
  <2>1. TypeOK
    BY ConstantsAssumption DEF Init, TypeOK, States, Live, Pcs
  <2>2. \A h \in Handles : StateInv(h) /\ CompanionInv(h) /\ ~Trading(h)
    BY DEF Init, StateInv, CompanionInv, Trading, LoopPcs, ExitPcs
  <2>3. Registered /\ TraderInv /\ JoinInv /\ SeenInv /\ TakedownCovers /\ ShutdownInv
    BY <2>2 DEF Init, Registered, TraderInv, JoinInv, SeenInv, TakedownCovers, ShutdownInv,
                ShutdownStopsAll
  <2> QED BY <2>1, <2>2, <2>3 DEF IInv
<1>2. IInv /\ [Next]_vars => IInv'
  <2> SUFFICES ASSUME IInv, [Next]_vars PROVE IInv'
    OBVIOUS
  <2>1. ASSUME NEW h \in Handles, Worker(h) PROVE IInv'
    BY <2>1, WorkerInductive
  <2>2. ASSUME NEW h \in Handles, NEW b \in Bots, Start(b, h) PROVE IInv'
    BY <2>2, StartInductive
  <2>3. ASSUME NEW r \in Reqs, Request(r) PROVE IInv'
    BY <2>3, RequestInductive
  <2>4. ASSUME NEW r \in Reqs, Api(r) PROVE IInv'
    BY <2>4, ApiInductive
  <2>5. CASE UNCHANGED vars
    BY <2>5 DEF vars, IInv, TypeOK, Registered, StateInv, CompanionInv, TraderInv, JoinInv,
                SeenInv, TakedownCovers, ShutdownInv, ShutdownStopsAll, Trading
  <2> QED BY <2>1, <2>2, <2>3, <2>4, <2>5 DEF Next, Exited
<1> QED BY <1>1, <1>2, PTL DEF Spec

-----------------------------------------------------------------------------
(***************************************************************************)
(* What follows from the inductive invariant.                              *)
(***************************************************************************)

\* A bot never has two workers that can trade, whatever the number of bots,
\* restarts and concurrent requests (supervisor.py:1-6).
THEOREM TraderExclusion == Spec => []AtMostOneTrader
<1>1. IInv => AtMostOneTrader
  BY DEF IInv, TraderInv, AtMostOneTrader
<1> QED BY <1>1, Inductive, PTL

\* A stop, kill, kill_all or shutdown misses no worker that was there when it
\* began (supervisor.py:170-215, main.py:41-42).
THEOREM TakedownComplete == Spec => []TakedownCovers
<1>1. IInv => TakedownCovers
  BY DEF IInv
<1> QED BY <1>1, Inductive, PTL

\* Nothing trades when the shutdown hook has returned (main.py:41-42).
THEOREM ShutdownComplete == Spec => []ShutdownStopsAll
<1>1. IInv => ShutdownStopsAll
  BY DEF IInv, ShutdownInv
<1> QED BY <1>1, Inductive, PTL

\* A worker's companion never outlives it (supervisor.py:353-361).
THEOREM CompanionContained == Spec => []NoOrphanCompanion
<1>1. IInv => NoOrphanCompanion
  BY DEF IInv, CompanionInv, NoOrphanCompanion
<1> QED BY <1>1, Inductive, PTL

\* bot_killed is the last word on a worker (supervisor.py:192-203).
THEOREM KillFinality == Spec => []KilledIsFinal
<1>1. IInv => KilledIsFinal
  BY DEF IInv, JoinInv, CompanionInv, KilledIsFinal
<1> QED BY <1>1, Inductive, PTL

\* A handle that blocks start() has a worker, unless the publish of
\* bot_started raised (supervisor.py:296-299).
THEOREM NoZombieButLostStart == Spec => []LiveHandleHasWorker
<1>1. IInv => LiveHandleHasWorker
  BY DEF IInv, StateInv, LiveHandleHasWorker
<1> QED BY <1>1, Inductive, PTL

-----------------------------------------------------------------------------
(***************************************************************************)
(* Steps: what no step does, and the refinement of WorkerSlot.             *)
(***************************************************************************)

\* What a step does to the rights of the workers that exist: it takes at most
\* one away, and brings no ended handle back.
RightsOnlyShrink ==
    /\ UNCHANGED botOf
    /\ \A g \in Handles : state[g] \notin Live => state'[g] \notin Live
    /\ \/ \A g \in Handles : Right(g)' = Right(g)
       \/ \E k \in Handles :
             /\ Right(k) = "trading" /\ Right(k)' = "spent"
             /\ \A g \in Handles : g # k => Right(g)' = Right(g)

LEMMA WorkerShrinks ==
    ASSUME IInv, NEW h \in Handles, Worker(h)
    PROVE  RightsOnlyShrink
<1>1. StepOK(h)
  BY WorkerLocal DEF IInv
<1>2. ASSUME NEW g \in Handles, g # h
      PROVE  state'[g] = state[g] /\ Right(g)' = Right(g)
  BY <1>2, WorkerFrame DEF IInv, Right, Trading
<1>3. UNCHANGED botOf
  BY DEF Worker
<1>4. Right(h)' = Right(h) \/ (Right(h) = "trading" /\ Right(h)' = "spent")
  BY <1>1 DEF StepOK, Right
<1>5. \A g \in Handles : state[g] \notin Live => state'[g] \notin Live
  BY <1>1, <1>2 DEF StepOK
<1> QED BY <1>2, <1>3, <1>4, <1>5 DEF RightsOnlyShrink

LEMMA TakeDownShrinks ==
    ASSUME IInv, NEW r \in Reqs, NEW b \in Bots,
           NEW op \in {"stop", "kill", "kill_all", "shutdown"}, TakeDown(r, op, b),
           UNCHANGED <<current, botOf, pc, clean, companion, lostStart>>
    PROVE  RightsOnlyShrink
<1>1. /\ current[b] \in Handles
      /\ \A g \in Handles : Trading(g)' => Trading(g) /\ botOf[g] # b
      /\ \A g \in Handles : state[g] \notin Live => state'[g] \notin Live
  BY TakeDownLocal
<1>2. \A g \in Handles : g # current[b] => Right(g)' = Right(g)
  BY DEF TakeDown, Cancel, Right, Trading, IInv, TypeOK
<1>3. LET k == current[b]
      IN  Right(k)' = Right(k) \/ (Right(k) = "trading" /\ Right(k)' = "spent")
  BY <1>1 DEF Right
<1> QED BY <1>1, <1>2, <1>3 DEF RightsOnlyShrink

LEMMA BeginShrinks ==
    ASSUME IInv, NEW r \in Reqs, NEW op \in {"stop", "kill", "kill_all", "shutdown"},
           NEW ids \in SUBSET Bots, NEW scope, Begin(r, op, ids, scope)
    PROVE  RightsOnlyShrink
<1>1. PICK b \in ids : TakeDown(r, op, b)
  BY DEF Begin
<1>2. b \in Bots /\ UNCHANGED <<current, botOf, pc, clean, companion, lostStart>>
  BY DEF Begin
<1> QED BY <1>1, <1>2, TakeDownShrinks

LEMMA ApiShrinks ==
    ASSUME IInv, NEW r \in Reqs, Api(r)
    PROVE  RightsOnlyShrink
<1>1. ASSUME NEW b \in Bots, StopBot(r, b) \/ KillBot(r, b) PROVE RightsOnlyShrink
  <2>1. {b} \in SUBSET Bots
    OBVIOUS
  <2> QED BY <1>1, <2>1, BeginShrinks DEF StopBot, KillBot
<1>2. ASSUME NEW u \in Users, KillAll(r, u) PROVE RightsOnlyShrink
  <2>1. KillTargets(u) \in SUBSET Bots
    BY DEF KillTargets
  <2> QED BY <1>2, <2>1, BeginShrinks DEF KillAll
<1>3. CASE Shutdown(r)
  <2>1. RunningBots \in SUBSET Bots
    BY DEF RunningBots
  <2>2. CASE Begin(r, "shutdown", RunningBots, Bots)
    BY <2>1, <2>2, BeginShrinks
  <2>3. CASE UNCHANGED <<botOf, workerVars, cancelling>>
    BY <2>3 DEF RightsOnlyShrink, Right, Trading, workerVars
  <2> QED BY <1>3, <2>2, <2>3 DEF Shutdown
<1> QED BY <1>1, <1>2, <1>3 DEF Api

LEMMA RequestShrinks ==
    ASSUME IInv, NEW r \in Reqs, Request(r)
    PROVE  RightsOnlyShrink
<1>1. UNCHANGED <<current, botOf, pc, clean, companion, lostStart>>
  BY DEF Request
<1>2. ASSUME UNCHANGED <<state, cancelling>> PROVE RightsOnlyShrink
  BY <1>1, <1>2 DEF RightsOnlyShrink, Right, Trading
<1>3. ASSUME VisitNext(r) PROVE RightsOnlyShrink
  <2>1. ASSUME NEW b \in targets[r], TakeDown(r, rop[r], b) PROVE RightsOnlyShrink
    <3>1. b \in Bots /\ rop[r] \in {"stop", "kill", "kill_all", "shutdown"}
      BY <2>1 DEF IInv, TypeOK
    <3> QED BY <1>1, <2>1, <3>1, TakeDownShrinks
  <2> QED BY <1>2, <1>3, <2>1 DEF VisitNext, Return
<1> QED
  BY <1>2, <1>3 DEF Request, TaskJoined, OrdersCancelled, KilledPublished, KilledLost, Return

\* A start grants the right to a new worker, of a bot nobody may trade.
LEMMA StartGrants ==
    ASSUME IInv, NEW b \in Bots, NEW h \in Handles, Start(b, h)
    PROVE  /\ UNCHANGED state
           /\ Right(h) = "fresh" /\ Right(h)' = "trading"
           /\ \A g \in Handles : g # h => Right(g)' = Right(g)
           /\ \A g \in Handles : botOf[g] = b => Right(g) # "trading"
           /\ botOf' = [botOf EXCEPT ![h] = b]
<1> USE DEF IInv, TypeOK
<1>1. /\ pc[h] = "unborn" /\ pc' = [pc EXCEPT ![h] = "created"]
      /\ UNCHANGED <<state, cancelling>> /\ botOf' = [botOf EXCEPT ![h] = b]
  BY DEF Start, Goto
<1>2. ~cancelling[h]
  BY <1>1 DEF StateInv
<1>3. \A g \in Handles : botOf[g] = b => ~Trading(g)
  BY ConstantsAssumption DEF Start, TraderInv, StateInv
<1> QED BY <1>1, <1>2, <1>3 DEF Right, Trading, LoopPcs

\* No handle comes back from a state that ends a bot (supervisor.py:38-40).
THEOREM EndStatesAreFinal == Spec => EndedStaysEnded
<1>1. IInv /\ [Next]_vars
        => [\A h \in Handles : state[h] \notin Live => state'[h] \notin Live]_vars
  <2> SUFFICES ASSUME IInv, [Next]_vars, NEW h \in Handles, state[h] \notin Live
               PROVE  state'[h] \notin Live \/ UNCHANGED vars
    OBVIOUS
  <2>1. ASSUME NEW g \in Handles, Worker(g) PROVE state'[h] \notin Live
    BY <2>1, WorkerShrinks DEF RightsOnlyShrink
  <2>2. ASSUME NEW g \in Handles, NEW b \in Bots, Start(b, g) PROVE state'[h] \notin Live
    BY <2>2, StartGrants
  <2>3. ASSUME NEW r \in Reqs, Request(r) PROVE state'[h] \notin Live
    BY <2>3, RequestShrinks DEF RightsOnlyShrink
  <2>4. ASSUME NEW r \in Reqs, Api(r) PROVE state'[h] \notin Live
    BY <2>4, ApiShrinks DEF RightsOnlyShrink
  <2> QED BY <2>1, <2>2, <2>3, <2>4 DEF Next, Exited
<1> QED BY <1>1, Inductive, PTL DEF Spec, EndedStaysEnded

\* The supervisor implements WorkerSlot: its tasks, cancellations and API
\* coroutines only ever grant the right to trade to a new worker of a bot
\* nobody may trade, and take it away for good.
THEOREM Refinement == Spec => SlotSpec
<1> USE DEF Slot!Init, Slot!Next, Slot!vars, Slot!Grant, Slot!Revoke
<1>1. Init => Slot!Init
  BY DEF Init, Right
<1>2. IInv /\ [Next]_vars => [Slot!Next]_(Slot!vars)
  <2> SUFFICES ASSUME IInv, [Next]_vars PROVE [Slot!Next]_(Slot!vars)
    OBVIOUS
  <2>1. ASSUME RightsOnlyShrink PROVE [Slot!Next]_(Slot!vars)
    <3>1. CASE \A g \in Handles : Right(g)' = Right(g)
      BY <2>1, <3>1 DEF RightsOnlyShrink
    <3>2. ASSUME NEW k \in Handles, Right(k) = "trading", Right(k)' = "spent",
                 \A g \in Handles : g # k => Right(g)' = Right(g)
          PROVE  Slot!Revoke(k)
      BY <2>1, <3>2 DEF RightsOnlyShrink
    <3> QED BY <2>1, <3>1, <3>2 DEF RightsOnlyShrink
  <2>2. ASSUME NEW g \in Handles, Worker(g) PROVE [Slot!Next]_(Slot!vars)
    BY <2>1, <2>2, WorkerShrinks
  <2>3. ASSUME NEW g \in Handles, NEW b \in Bots, Start(b, g)
        PROVE  Slot!Grant(b, g)
    BY <2>3, StartGrants
  <2>4. ASSUME NEW r \in Reqs, Request(r) PROVE [Slot!Next]_(Slot!vars)
    BY <2>1, <2>4, RequestShrinks
  <2>5. ASSUME NEW r \in Reqs, Api(r) PROVE [Slot!Next]_(Slot!vars)
    BY <2>1, <2>5, ApiShrinks
  <2>6. CASE UNCHANGED vars
    BY <2>6 DEF vars, Right, Trading
  <2> QED BY <2>2, <2>3, <2>4, <2>5, <2>6 DEF Next, Exited
<1> QED BY <1>1, <1>2, Inductive, PTL DEF Spec, SlotSpec, Slot!Spec
=============================================================================
