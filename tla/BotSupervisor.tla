--------------------------- MODULE BotSupervisor ----------------------------
(***************************************************************************)
(* The bot engine's Supervisor (apps/bot-engine/app/runtime/supervisor.py) *)
(* on one asyncio event loop: the bots' worker tasks, their companions,    *)
(* and the API coroutines that start, stop and kill them.                  *)
(*                                                                         *)
(* The loop is cooperative, so an action is what one coroutine does from   *)
(* the moment it resumes to its next await.  pc[h] and rpc[r] name the     *)
(* await a coroutine is suspended at.  Task.cancel() only sets a flag; the *)
(* task sees CancelledError in place of the result of the await it is at.  *)
(*                                                                         *)
(* Abstracted: prices and PnL (whether the breaker trips is a choice), the *)
(* market clock (open or closed is a choice at each bar), what an intent   *)
(* is, and the router behind submit and cancel_open, which OrderRouter     *)
(* models.  Handles is a finite pool of BotHandle objects: it bounds how   *)
(* many times the bots are started.                                        *)
(***************************************************************************)
EXTENDS FiniteSets

CONSTANTS
    Bots,      \* scoped ids "<user>:<bot>"
    Users,
    UserOf,    \* the user in a scoped id
    Handles,   \* BotHandle objects, each with its task; one per start
    Reqs,      \* API coroutines that may be in flight together
    Ops,       \* what the API coroutines are asked to do
    Plans,     \* what a launch plan may say of a companion
    NoHandle,  \* a bot that was never started
    NoBot      \* a handle object that does not exist yet

ASSUME ConstantsAssumption ==
    /\ UserOf \in [Bots -> Users]
    /\ NoHandle \notin Handles
    /\ NoBot \notin Bots
    /\ Ops \subseteq {"stop", "kill", "kill_all", "shutdown"}
    /\ Plans \subseteq {"none", "planned"}

VARIABLES
    current,    \* Supervisor._handles: the handle registered under a bot id
    botOf,      \* handle.bot_id
    state,      \* handle.state
    pc,         \* the await the handle's task is suspended at
    cancelling, \* Task.cancel() was called and is not delivered yet
    clean,      \* the finally was entered from a loop that ended normally
    companion,  \* the sibling task of an ai_signal bot
    rpc, rop,   \* an API coroutine: the await it is at, what it is doing,
    rh,         \*   the handle it holds in a local variable,
    targets,    \*   the ids kill_all or the shutdown has still to visit
    phase,      \* serving requests, running the shutdown hook, or down
    killedPub,  \* history: bot_killed was published for this handle
    lostStart,  \* history: the publish of bot_started raised
    seen        \* history: handles that existed when a request began

workerVars == <<state, pc, clean, companion>>
reqVars    == <<rpc, rop, rh, targets, seen>>
vars == <<current, botOf, state, pc, cancelling, clean, companion, rpc, rop,
          rh, targets, phase, killedPub, lostStart, seen>>

\* The states in which start() refuses a second worker.
Live == {"STARTING", "RUNNING", "IDLE"}
States == Live \cup {"STOPPING", "STOPPED", "ERRORED", "PAUSED", "KILLED"}

\* The awaits from which a worker can still take up a bar and trade it.
LoopPcs == {"created", "pub_started", "await_bar", "pub_idle", "pub_resumed",
            "submit"}
\* The awaits on the way out of _run.
ExitPcs == {"pub_tripped", "cancel_open", "pub_error", "teardown", "pub_stopped"}
Pcs == LoopPcs \cup ExitPcs \cup {"unborn", "done"}

Init ==
    /\ current = [b \in Bots |-> NoHandle]
    /\ botOf = [h \in Handles |-> NoBot]
    /\ state = [h \in Handles |-> "STARTING"]
    /\ pc = [h \in Handles |-> "unborn"]
    /\ cancelling = [h \in Handles |-> FALSE]
    /\ clean = [h \in Handles |-> FALSE]
    /\ companion = [h \in Handles |-> "none"]
    /\ rpc = [r \in Reqs |-> "idle"]
    /\ rop = [r \in Reqs |-> "stop"]
    /\ rh = [r \in Reqs |-> NoHandle]
    /\ targets = [r \in Reqs |-> {}]
    /\ phase = "serving"
    /\ killedPub = [h \in Handles |-> FALSE]
    /\ lostStart = [h \in Handles |-> FALSE]
    /\ seen = [r \in Reqs |-> {}]

-----------------------------------------------------------------------------
(***************************************************************************)
(* The worker task: Supervisor._run.                                       *)
(***************************************************************************)

\* Task h is resumed at await p with a result, not with a cancellation.
Resumes(h, p) == pc[h] = p /\ ~cancelling[h]

Goto(h, p) == pc' = [pc EXCEPT ![h] = p]
SetState(h, s) == state' = [state EXCEPT ![h] = s]

\* Mutant: the state after a normal end is a name BotState does not have.
AfterFinallyMisnamed(h, normally) ==
    IF normally THEN SetState(h, "ENDED") /\ Goto(h, "pub_stopped")
                ELSE UNCHANGED state /\ Goto(h, "done")

\* The code after the finally: only a loop that ended normally reaches it.
AfterFinally(h, normally) ==
    IF normally THEN SetState(h, "STOPPED") /\ Goto(h, "pub_stopped")
                ELSE UNCHANGED state /\ Goto(h, "done")

\* Mutant: no finally, the companion is left to itself.
UnwindNoTeardown(h, normally) == AfterFinally(h, normally) /\ UNCHANGED <<clean, companion>>

\* Mutant: the finally awaits the companion without cancelling it.
UnwindNoCancel(h, normally) ==
    \/ /\ companion[h] = "alive"
       /\ clean' = [clean EXCEPT ![h] = normally]
       /\ Goto(h, "teardown")
       /\ UNCHANGED <<state, companion>>
    \/ /\ companion[h] # "alive"
       /\ AfterFinally(h, normally)
       /\ UNCHANGED <<clean, companion>>

\* The finally: cancel the companion and await it, if it is still running.
Unwind(h, normally) ==
    \/ /\ companion[h] = "alive"
       /\ companion' = [companion EXCEPT ![h] = "cancelled"]
       /\ clean' = [clean EXCEPT ![h] = normally]
       /\ Goto(h, "teardown")
       /\ UNCHANGED state
    \/ /\ companion[h] # "alive"
       /\ AfterFinally(h, normally)
       /\ UNCHANGED <<clean, companion>>

\* Mutant: the error is published but not written to the handle.
FailUnrecorded(h) == Goto(h, "pub_error") /\ UNCHANGED <<state, clean, companion>>

\* Mutant: the error is recorded and the loop goes on.
FailAndContinue(h) ==
    SetState(h, "ERRORED") /\ Goto(h, "await_bar") /\ UNCHANGED <<clean, companion>>

\* except Exception: the bot is ERRORED before bot_error is published.
Fail(h) ==
    /\ SetState(h, "ERRORED")
    /\ Goto(h, "pub_error")
    /\ UNCHANGED <<clean, companion>>

\* The intents of the bar are done: the breaker trips, or the loop goes on.
EndOfBar(h) ==
    /\ \/ SetState(h, "PAUSED") /\ Goto(h, "pub_tripped")
       \/ UNCHANGED state /\ Goto(h, "await_bar")
    /\ UNCHANGED <<clean, companion>>

\* on_bar returns intents, returns none, or raises.
TradeBar(h) ==
    \/ Goto(h, "submit") /\ UNCHANGED <<state, clean, companion>>
    \/ EndOfBar(h)
    \/ Fail(h)

\* First step of the task.
BeginRun(h) ==
    /\ Resumes(h, "created")
    /\ SetState(h, "RUNNING")
    /\ Goto(h, "pub_started")
    /\ UNCHANGED <<clean, companion, lostStart>>

\* bot_started is out: create the companion and wait for the first bar.
Started(h) ==
    /\ Resumes(h, "pub_started")
    /\ companion' = [companion EXCEPT ![h] = IF @ = "planned" THEN "alive" ELSE @]
    /\ Goto(h, "await_bar")
    /\ UNCHANGED <<state, clean, lostStart>>

\* The publish of bot_started raises.  It stands before the try, so nothing
\* handles it: the task ends and the handle keeps saying RUNNING.
StartedLost(h) ==
    /\ Resumes(h, "pub_started")
    /\ lostStart' = [lostStart EXCEPT ![h] = TRUE]
    /\ Goto(h, "done")
    /\ UNCHANGED <<state, clean, companion>>

\* The stream is exhausted, or a bar finds the state STOPPING: break.
LoopEnds(h) ==
    /\ Resumes(h, "await_bar")
    /\ Unwind(h, TRUE)
    /\ UNCHANGED lostStart

\* A bar arrives while the market is closed: go IDLE and say so, once.
BarWhileClosed(h) ==
    /\ Resumes(h, "await_bar")
    /\ state[h] \notin {"STOPPING", "IDLE"}
    /\ SetState(h, "IDLE")
    /\ Goto(h, "pub_idle")
    /\ UNCHANGED <<clean, companion, lostStart>>

\* A bar arrives with the market open: an idle bot announces it is back, any
\* other trades the bar at once.
BarWhileOpen(h) ==
    /\ Resumes(h, "await_bar")
    /\ state[h] # "STOPPING"
    /\ \/ /\ state[h] = "IDLE"
          /\ SetState(h, "RUNNING")
          /\ Goto(h, "pub_resumed")
          /\ UNCHANGED <<clean, companion>>
       \/ state[h] # "IDLE" /\ TradeBar(h)
    /\ UNCHANGED lostStart

IdlePublished(h) ==
    /\ Resumes(h, "pub_idle")
    /\ Goto(h, "await_bar")
    /\ UNCHANGED <<state, clean, companion, lostStart>>

\* bot_resumed is out: trade the bar that woke the bot.
ResumedPublished(h) ==
    /\ Resumes(h, "pub_resumed")
    /\ TradeBar(h)
    /\ UNCHANGED lostStart

\* router.submit returns: there may be another intent, or the bar is over.
Submitted(h) ==
    /\ Resumes(h, "submit")
    /\ EndOfBar(h)
    /\ UNCHANGED lostStart

\* The bar source, the router or a publish inside the try raises.
AwaitRaises(h) ==
    /\ \E p \in {"await_bar", "pub_idle", "pub_resumed", "submit", "pub_tripped"} :
          Resumes(h, p)
    /\ Fail(h)
    /\ UNCHANGED lostStart

\* bot_circuit_tripped is out: cancel the resting orders.
TripPublished(h) ==
    /\ Resumes(h, "pub_tripped")
    /\ Goto(h, "cancel_open")
    /\ UNCHANGED <<state, clean, companion, lostStart>>

\* The orders are cancelled (or that failed and was logged): return.  Nor does
\* it matter whether the publish of bot_error raised.
Leave(h) ==
    /\ Resumes(h, "cancel_open") \/ Resumes(h, "pub_error")
    /\ Unwind(h, FALSE)
    /\ UNCHANGED lostStart

\* The publish of bot_stopped returned or raised; _run has nothing after it.
StoppedPublished(h) ==
    /\ Resumes(h, "pub_stopped")
    /\ Goto(h, "done")
    /\ UNCHANGED <<state, clean, companion, lostStart>>

\* The companion has ended and the await in the finally returns.  The finally
\* swallows CancelledError, the task's own included.
TeardownDone(h) ==
    /\ pc[h] = "teardown"
    /\ companion[h] = "gone"
    /\ cancelling' = [cancelling EXCEPT ![h] = FALSE]
    /\ AfterFinally(h, clean[h])
    /\ UNCHANGED <<clean, companion, lostStart>>

\* Mutant: a CancelledError out of router.submit is swallowed like an error of
\* the venue, and the loop goes on.
CancelSwallowed(h) ==
    /\ cancelling[h]
    /\ pc[h] # "teardown"
    /\ cancelling' = [cancelling EXCEPT ![h] = FALSE]
    /\ \/ /\ pc[h] \in {"created", "pub_started", "pub_stopped"}
          /\ Goto(h, "done")
          /\ UNCHANGED <<state, clean, companion>>
       \/ /\ pc[h] = "submit"
          /\ Goto(h, "await_bar")
          /\ UNCHANGED <<state, clean, companion>>
       \/ /\ pc[h] \notin {"created", "pub_started", "pub_stopped", "submit"}
          /\ Unwind(h, FALSE)
    /\ UNCHANGED lostStart

\* CancelledError is raised at the await.  Outside the try it ends the task,
\* inside it goes through the finally.
CancelDelivered(h) ==
    /\ cancelling[h]
    /\ pc[h] # "teardown"
    /\ cancelling' = [cancelling EXCEPT ![h] = FALSE]
    /\ \/ /\ pc[h] \in {"created", "pub_started", "pub_stopped"}
          /\ Goto(h, "done")
          /\ UNCHANGED <<state, clean, companion>>
       \/ /\ pc[h] \notin {"created", "pub_started", "pub_stopped"}
          /\ Unwind(h, FALSE)
    /\ UNCHANGED lostStart

\* The companion task ends: it was cancelled, or it failed by itself.
CompanionEnds(h) ==
    /\ companion[h] \in {"alive", "cancelled"}
    /\ companion' = [companion EXCEPT ![h] = "gone"]
    /\ UNCHANGED <<state, pc, clean, lostStart>>

\* Steps the event loop takes without waiting for a bar.
Proceeds(h) ==
    \/ /\ \/ BeginRun(h) \/ Started(h) \/ StartedLost(h) \/ IdlePublished(h)
          \/ ResumedPublished(h) \/ Submitted(h) \/ TripPublished(h)
          \/ Leave(h) \/ StoppedPublished(h)
       /\ UNCHANGED cancelling
    \/ TeardownDone(h)
    \/ CancelDelivered(h)

Worker(h) ==
    /\ \/ Proceeds(h)
       \/ /\ LoopEnds(h) \/ BarWhileClosed(h) \/ BarWhileOpen(h)
             \/ AwaitRaises(h) \/ CompanionEnds(h)
          /\ UNCHANGED cancelling
    /\ UNCHANGED <<current, botOf, reqVars, phase, killedPub>>

-----------------------------------------------------------------------------
(***************************************************************************)
(* The API coroutines: start, stop, kill, kill_all and the shutdown hook.  *)
(* Supervisor._lock is held across no await, so start is one step.         *)
(***************************************************************************)

\* Mutant: an IDLE bot may be started again.
StartOverIdle(b, h) ==
    /\ phase = "serving"
    /\ pc[h] = "unborn"
    /\ current[b] # NoHandle => state[current[b]] \notin Live \ {"IDLE"}
    /\ current' = [current EXCEPT ![b] = h]
    /\ botOf' = [botOf EXCEPT ![h] = b]
    /\ Goto(h, "created")
    /\ \E plan \in Plans : companion' = [companion EXCEPT ![h] = plan]
    /\ UNCHANGED <<state, cancelling, clean, reqVars, phase, killedPub, lostStart>>

\* start(): refused with a 409 while the registered handle looks live.
Start(b, h) ==
    /\ phase = "serving"
    /\ pc[h] = "unborn"
    /\ current[b] # NoHandle => state[current[b]] \notin Live
    /\ current' = [current EXCEPT ![b] = h]
    /\ botOf' = [botOf EXCEPT ![h] = b]
    /\ Goto(h, "created")
    /\ \E plan \in Plans : companion' = [companion EXCEPT ![h] = plan]
    /\ UNCHANGED <<state, cancelling, clean, reqVars, phase, killedPub, lostStart>>

\* Mutant: stop and kill trust the loop to notice the state.
CancelForgotten(h) == UNCHANGED cancelling

\* Task.cancel(): nothing happens to a task that has ended.
Cancel(h) == cancelling' = [cancelling EXCEPT ![h] = pc[h] # "done"]

\* What stop and kill write to the handle before they cancel its task.
Verdict(op) == IF op \in {"stop", "shutdown"} THEN "STOPPING" ELSE "KILLED"

\* The part of stop() and kill() before their first await.
TakeDown(r, op, b) ==
    /\ current[b] # NoHandle
    /\ SetState(current[b], Verdict(op))
    /\ Cancel(current[b])
    /\ rh' = [rh EXCEPT ![r] = current[b]]
    /\ rpc' = [rpc EXCEPT ![r] = "await_task"]

Born(bs) == {h \in Handles : botOf[h] \in bs}

\* A coroutine takes down the bots in ids one by one; scope is the set of the
\* bots it was asked about.
Begin(r, op, ids, scope) ==
    /\ rpc[r] = "idle" /\ op \in Ops
    /\ \E b \in ids :
          /\ TakeDown(r, op, b)
          /\ targets' = [targets EXCEPT ![r] = ids \ {b}]
    /\ rop' = [rop EXCEPT ![r] = op]
    /\ seen' = [seen EXCEPT ![r] = Born(scope)]
    /\ UNCHANGED <<current, botOf, pc, clean, companion, killedPub, lostStart>>

\* POST /bots/{id}/stop and /kill: 404 for an id that was never started.
StopBot(r, b) ==
    phase = "serving" /\ Begin(r, "stop", {b}, {b}) /\ UNCHANGED phase

KillBot(r, b) ==
    phase = "serving" /\ Begin(r, "kill", {b}, {b}) /\ UNCHANGED phase

\* Mutant: kill_all takes only the bots that are RUNNING.
KillTargetsRunning(u) ==
    {b \in Bots : /\ UserOf[b] = u
                  /\ current[b] # NoHandle
                  /\ state[current[b]] = "RUNNING"}

\* The ids kill_all snapshots: whatever is not known to be over.
KillTargets(u) ==
    {b \in Bots : /\ UserOf[b] = u
                  /\ current[b] # NoHandle
                  /\ state[current[b]] \notin {"STOPPED", "ERRORED", "KILLED"}}

KillAll(r, u) ==
    /\ phase = "serving"
    /\ Begin(r, "kill_all", KillTargets(u), {b \in Bots : UserOf[b] = u})
    /\ UNCHANGED phase

\* Mutant: a bot waiting for its market is not counted as running.
RunningBotsNotIdle ==
    {b \in Bots : current[b] # NoHandle /\ state[current[b]] = "RUNNING"}

\* running_bots(): the ids the shutdown hook stops.
RunningBots ==
    {b \in Bots : current[b] # NoHandle /\ state[current[b]] \in {"RUNNING", "IDLE"}}

\* The server has answered every request before the lifespan hook runs, and
\* the loop has by then given every new task its first step.
Shutdown(r) ==
    /\ phase = "serving" /\ "shutdown" \in Ops
    /\ \A q \in Reqs : rpc[q] = "idle"
    /\ \A h \in Handles : pc[h] # "created"
    /\ \/ /\ Begin(r, "shutdown", RunningBots, Bots)
          /\ phase' = "stopping"
       \/ /\ RunningBots = {}
          /\ phase' = "down"
          /\ UNCHANGED <<current, botOf, workerVars, cancelling, reqVars,
                         killedPub, lostStart>>

\* The coroutine returns or raises; its local variables are gone.
Return(r) ==
    /\ rpc' = [rpc EXCEPT ![r] = "idle"]
    /\ rop' = [rop EXCEPT ![r] = "stop"]
    /\ rh' = [rh EXCEPT ![r] = NoHandle]
    /\ targets' = [targets EXCEPT ![r] = {}]
    /\ seen' = [seen EXCEPT ![r] = {}]
    /\ UNCHANGED <<state, cancelling>>

\* One bot is dealt with: go on to the next, or return.
VisitNext(r) ==
    \/ /\ targets[r] = {}
       /\ Return(r)
       /\ phase' = IF rop[r] = "shutdown" THEN "down" ELSE phase
    \/ /\ \E b \in targets[r] :
             /\ TakeDown(r, rop[r], b)
             /\ targets' = [targets EXCEPT ![r] = @ \ {b}]
       /\ UNCHANGED <<rop, seen, phase>>

\* Mutant: kill cancels the task and does not wait for it.
TaskNotJoined(r) ==
    /\ rpc[r] = "await_task"
    /\ \/ /\ Verdict(rop[r]) = "STOPPING"
          /\ pc[rh[r]] = "done"
          /\ VisitNext(r)
       \/ /\ Verdict(rop[r]) = "KILLED"
          /\ rpc' = [rpc EXCEPT ![r] = "cancel_open"]
          /\ UNCHANGED <<state, cancelling, rop, rh, targets, seen, phase>>
    /\ UNCHANGED killedPub

\* The await on the task returns, however the task ended: stop is finished,
\* kill goes on to cancel the orders.
TaskJoined(r) ==
    /\ rpc[r] = "await_task"
    /\ pc[rh[r]] = "done"
    /\ \/ /\ Verdict(rop[r]) = "STOPPING"
          /\ VisitNext(r)
       \/ /\ Verdict(rop[r]) = "KILLED"
          /\ rpc' = [rpc EXCEPT ![r] = "cancel_open"]
          /\ UNCHANGED <<state, cancelling, rop, rh, targets, seen, phase>>
    /\ UNCHANGED killedPub

\* _cancel_open never raises.
OrdersCancelled(r) ==
    /\ rpc[r] = "cancel_open"
    /\ rpc' = [rpc EXCEPT ![r] = "pub_killed"]
    /\ UNCHANGED <<state, cancelling, rop, rh, targets, seen, phase, killedPub>>

KilledPublished(r) ==
    /\ rpc[r] = "pub_killed"
    /\ killedPub' = [killedPub EXCEPT ![rh[r]] = TRUE]
    /\ VisitNext(r)

\* The publish of bot_killed raises: kill_all stops where it is.
KilledLost(r) ==
    /\ rpc[r] = "pub_killed"
    /\ Return(r)
    /\ UNCHANGED <<phase, killedPub>>

Request(r) ==
    /\ TaskJoined(r) \/ OrdersCancelled(r) \/ KilledPublished(r) \/ KilledLost(r)
    /\ UNCHANGED <<current, botOf, pc, clean, companion, lostStart>>

Api(r) ==
    \/ \E b \in Bots : StopBot(r, b) \/ KillBot(r, b)
    \/ \E u \in Users : KillAll(r, u)
    \/ Shutdown(r)

\* The process is going away; nothing is left to do.
Exited == phase = "down" /\ UNCHANGED vars

Next ==
    \/ \E h \in Handles : Worker(h) \/ \E b \in Bots : Start(b, h)
    \/ \E r \in Reqs : Request(r) \/ Api(r)
    \/ Exited

Spec == Init /\ [][Next]_vars

\* The event loop runs every coroutine that can go on; nobody promises a bar,
\* another request, or that a companion fails by itself.
Fairness ==
    /\ \A h \in Handles :
          /\ WF_vars(Worker(h) /\ Proceeds(h))
          /\ WF_vars(Worker(h) /\ CompanionEnds(h) /\ companion[h] = "cancelled")
    /\ \A r \in Reqs : WF_vars(Request(r))

FairSpec == Spec /\ Fairness

-----------------------------------------------------------------------------
TypeOK ==
    /\ current \in [Bots -> Handles \cup {NoHandle}]
    /\ botOf \in [Handles -> Bots \cup {NoBot}]
    /\ state \in [Handles -> States]
    /\ pc \in [Handles -> Pcs]
    /\ cancelling \in [Handles -> BOOLEAN]
    /\ clean \in [Handles -> BOOLEAN]
    /\ companion \in [Handles -> {"none", "planned", "alive", "cancelled", "gone"}]
    /\ rpc \in [Reqs -> {"idle", "await_task", "cancel_open", "pub_killed"}]
    /\ rop \in [Reqs -> {"stop", "kill", "kill_all", "shutdown"}]
    /\ rh \in [Reqs -> Handles \cup {NoHandle}]
    /\ targets \in [Reqs -> SUBSET Bots]
    /\ phase \in {"serving", "stopping", "down"}
    /\ killedPub \in [Handles -> BOOLEAN]
    /\ lostStart \in [Handles -> BOOLEAN]
    /\ seen \in [Reqs -> SUBSET Handles]

\* The worker can still take up a bar: it is in its loop and will not find a
\* CancelledError when it resumes.
Trading(h) == pc[h] \in LoopPcs /\ ~cancelling[h]

\* However starts, stops, kills, trips and errors interleave, a bot never has
\* two workers that can trade: the promise of supervisor.py:1-6, for workers
\* that are still able to place an order.
AtMostOneTrader ==
    \A g, h \in Handles : Trading(g) /\ Trading(h) /\ botOf[g] = botOf[h] => g = h

\* Once a stop, kill, kill_all or shutdown has come to its last bot, none of
\* the workers there were when it began can trade, whatever was started or
\* ended in between; before that, only those of bots it has still to visit.
TakedownCovers ==
    \A r \in Reqs, h \in Handles :
        rpc[r] # "idle" /\ h \in seen[r] /\ Trading(h) => botOf[h] \in targets[r]

\* After the shutdown hook returns no worker trades into a closing process.
ShutdownStopsAll == phase = "down" => \A h \in Handles : ~Trading(h)

\* "no orphan task keeps consulting" (supervisor.py:354-355): whichever way
\* the worker ended, its companion has ended before it.
NoOrphanCompanion ==
    \A h \in Handles : pc[h] = "done" => companion[h] \notin {"alive", "cancelled"}

\* When subscribers hear bot_killed, neither the worker nor its companion runs
\* any more, so no later event of that worker can contradict it.
KilledIsFinal ==
    \A h \in Handles :
        killedPub[h] => pc[h] = "done" /\ companion[h] \notin {"alive", "cancelled"}

\* A handle that blocks start() with "already running" has a worker behind
\* it, unless the publish of bot_started was lost.
LiveHandleHasWorker ==
    \A h \in Handles :
        pc[h] = "done" /\ state[h] \in Live => lostStart[h]

\* "It will not resume without an explicit restart" (supervisor.py:38-40), of
\* PAUSED and of every other state that ends a bot: no handle comes back from
\* one to a live state, whatever its task was about to write.
EndedStaysEnded ==
    [][\A h \in Handles : state[h] \notin Live => state'[h] \notin Live]_vars

\* stop and kill await the task they cancelled, kill_all and the shutdown
\* several in a row: all of them return.
RequestsReturn == \A r \in Reqs : rpc[r] # "idle" ~> rpc[r] = "idle"

\* A worker that was cancelled, tripped or failed reaches its end, through
\* its companion's teardown.
ExitsComplete ==
    \A h \in Handles : cancelling[h] \/ pc[h] \in ExitPcs ~> pc[h] = "done"

\* The supervisor implements WorkerSlot: a worker holds the right to trade
\* from its creation to its cancellation or its way out, whichever is first.
Right(h) == IF pc[h] = "unborn" THEN "fresh"
            ELSE IF Trading(h) THEN "trading" ELSE "spent"

Slot == INSTANCE WorkerSlot WITH
            Workers <- Handles,
            status  <- [h \in Handles |-> Right(h)],
            serves  <- botOf

SlotSpec == Slot!Spec

(***************************************************************************)
(* What the documentation says and the code does not do.                   *)
(***************************************************************************)

\* "guarantees no two workers ever run the same bot" (supervisor.py:4-5), of
\* the tasks as such.
AtMostOneWorker ==
    \A g, h \in Handles :
        /\ pc[g] \notin {"unborn", "done"}
        /\ pc[h] \notin {"unborn", "done"}
        /\ botOf[g] = botOf[h]
        => g = h
=============================================================================
