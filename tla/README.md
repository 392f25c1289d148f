# A verification development for xbottrader

xbottrader runs trading bots for its users: a TypeScript gateway in front, a
Python bot engine that runs the bots and places their orders, and a Python AI
engine that writes strategies, backtests them and answers the bots' questions.
This directory holds TLA+ models of that code, the configurations that check
them with TLC, and proofs that TLAPS checks. `PROJECT.json` maps every
definition to the lines it was translated from.

What can lose money silently is the bot engine: workers that should have
stopped, orders nobody will cancel any more, events that contradict the
database. The development starts there, and follows an order from the
dashboard's form to the venue and its event back to the browser.

    tlc -workers 2 -config Router.cfg MCOrderRouter      # a run
    tlapm OrderRouter_proofs.tla                         # a proof

Contents: 1 inventory, 2 modules, 3 runs, 4 fairness, 5 what the
runs found, 6 proofs, 7 outside the models, 8 plan.

## 1. Inventory

Paths are below `src/`; `BE` is `apps/bot-engine/app`, `AI` is
`apps/ai-engine/app`, `GW` is `apps/gateway/src`, `XC` is
`packages/xbt-core/xbt_core`.

### Bot engine

**Supervisor** (`BE/runtime/supervisor.py`).
*State*: `_handles`, one `BotHandle` per scoped bot id (state, task, companion,
router, ledger, error). *Operations*: `start`, `stop`, `kill`, `kill_all`,
`running_bots`, and `_run`, the body of each bot's task. *Interacts*: called by
the API coroutines and by the shutdown hook; `_run` awaits the bar source, the
router and the publisher, and owns the companion task. *Hard*: everything runs
on one event loop and every `await` is a point where another coroutine may
change the handle; `Task.cancel()` is delivered only at the next await; the
`finally` of `_run` swallows cancellations; `bot_started` is published outside
the `try`. *Correct when*: a bot never has two workers that can trade; a stop or
kill disarms the workers it was asked about, whatever starts or ends meanwhile;
end states are final; the companion never outlives its bot; every request
returns.

**Bots API and lifespan** (`BE/api/bots.py`, `BE/main.py`, `BE/api/auth.py`).
*State*: none of its own. *Operations*: start, stop, kill, kill-all, get; the
shutdown hook. *Interacts*: with the supervisor only; requests come HMAC-signed
from the gateway and ids are scoped by user. *Correct when*: no request crosses
users; nothing trades after the shutdown hook.

**ExchangeOrderRouter** (`BE/runtime/router.py`). *State*: `_open_orders`, the
orders acknowledged without a fill. *Operations*: `submit`, `cancel_open`,
`deliver_fills`. *Interacts*: the exchange adapter, one database transaction per
operation, and the event stream, in that order; called by its worker and by any
number of kills. *Hard*: the venue cannot be rolled back, the transaction can;
each await may raise or be interrupted; `cancel_open` empties `_open_orders`
before its first await. *Correct when*: an event is never seen without its rows;
rows and audit trail agree; no order is cancelled, written or announced by two
callers; a row never says cancelled for an order that can still execute; a
resting order stays within reach of the kill switch.

**PnL ledger and circuit breaker** (`PnLLedger` and `_tripped` in
`BE/runtime/supervisor.py`). *State*: the position and the net cash paid out
(PnL is position times mark minus that cash), and the last mark. *Hard*: the
backtest keeps the same account another way; a stale mark or a closed market must
not trip. *Correct when*: on the same bars the bot's PnL is the backtest's; a trip
is permanent.

**AI companion and ai_signal** (`BE/runtime/ai_companion.py`,
`BE/clients/ai_engine.py`, `XC/strategies/ai_signal.py`). *State*: the signal
slot shared with `on_bar`, the window of closes, the held quantity, consults today.
*Hard*: a decision arrives after bars have been traded; the daily counter is lost
on restart; the held quantity follows intents and not fills, which may come late, in
part or never. *Correct when*: a decision is acted on at most once and at the position it
was made for; belief and position differ only by orders that have not executed; the cap
holds.

**Trading database** (`BE/db/*`). Orders, fills, the audit log and bot configs,
written in transactions.

**Event publisher** (`BE/events/publisher.py`). `XADD` to one capped Redis
stream. A publish may fail with or without effect.

**Exchange adapters** (`XC/exchanges/*`, `BE/exchanges/ccxt_adapter.py`). The
paper venue's matching and fees, the session guard, the ccxt translation of an
order's answer to a status and fills. *Hard*: the guard refuses what the strategy
has booked; resting orders fill at a mark nobody asked about.

**Live bar sources** (`BE/exchanges/ccxt_live.py`, `alpaca_data.py`). *State*: the
timestamp of the last bar. *Operations*: poll, choose the latest closed candle,
yield it once. *Hard*: late polls, venues that leave out periods, requests that reach
back a few days only; a candle counts as closed when its successor exists, so the last one
of a session comes when the next session trades. *Correct when*: no forming candle (which
the code keeps but for one case, section 5) and no candle twice; a closed candle is not
held back for ever.

**Launchers** (`BE/launchers/*`, `BE/api/launcher.py`, `BE/api/schemas.py`). *State*:
the `bot_configs` row, looked up and inserted in one transaction. *Hard*:
concurrent first starts; refusals after the row is committed. *Correct when*: a
running bot has its row, and a start is refused for a reason.

**Key vault** (`BE/security/keys.py`), **market data API** (`BE/api/market.py`).

### Shared Python core

**Strategies** (`XC/strategies/*`): rule engine, crossover, grid, DCA, momentum,
each a function of the bars and a little state. *Correct when*: each keeps its
contract (an interval between buys, one position, lots unwound last in first out, a
rule fires when its condition rises) however late the bot joined the stream.
**Market session** (`XC/market/session.py`): when equities trade.
**Strategy configuration** (`XC/strategy_config.py`): validation, repeated in the
gateway's zod schema and in the strategies' constructors. *Correct when*: what one
stage produces the next one accepts.

### AI engine

**Backtest** (`AI/backtest/engine.py`): replays bars through a strategy and the
paper venue. **Authoring** (`AI/llm/author.py`): a bounded repair loop over
the two validations. **Signal and copilot** (`AI/llm/*`), **API**
(`AI/api/*`).

### Gateway

**Event fan-out** (`GW/ws/*`). *State*: the consumer group's position and pending
entries, the registry of sockets. *Hard*: restarts between read and ack, a slow
or closed socket, trimming. *Correct when*: a client sees its own bots' events
only, in order and none twice, and none that was acknowledged is lost.

**Billing** (`GW/billing/routes.ts`, `GW/db/repos.ts`). *State*: one subscription row
per user. *Hard*: concurrent checkouts, webhooks reordered or delivered twice.
*Correct when*: the live-trading gate follows the latest state of the
subscription.

**Auth and sessions** (`GW/auth/*`). *State*: users with their two-factor secret,
sessions in Redis. *Hard*: an enrolment between the two awaits of an activation.
**Keys** (`GW/keys/*`): stored envelopes. **Proxies** (`GW/routes/*`,
`GW/clients/*`): the start route passes three gates, one await each. *Correct when*:
nothing starts that was never allowed to.

### Front end and glue

**Web dashboard** (`apps/web`), with a rule editor that knows flat rules only and
flattens the others; **shared schemas** (`packages/shared`); deployment files.

The hazards these parts are exposed to, each at its line and with the property
that covers it, are listed in `PROJECT.json`.

## 2. Modules

| module | models | about |
|---|---|---|
| `WorkerSlot` | the promise of `supervisor.py:1-6` and `38-40` | abstract: the right to trade for a bot is granted to one fresh worker at a time and never comes back |
| `BotSupervisor` | `supervisor.py`, the routes of `api/bots.py`, the hook of `main.py` | worker tasks, companions, requests, shutdown |
| `BotSupervisor_proofs` | | theorems about it |
| `OrderRouter` | `router.py` against venue, database and stream | submit, cancel_open, deliver_fills, with failures and interruptions at every await |
| `OrderRouter_proofs` | | theorems about it |
| `EventChannel` | what `ws/consumer.ts:26-31` promises a client | abstract: each connection sees events of its user, in order, none twice, each fanned out once |
| `EventDelivery` | `events/publisher.py`, `ws/*`, the `/ws` route and the shutdown of `server.ts` | stream, consumer group, gateway processes, sockets |
| `EventDelivery_proofs` | | theorems about it |
| `BarSource` | `ccxt_live.py`, the rows of `alpaca_data.py` | the polling generator, used by `AiBot` |
| `AiBot` | `ai_companion.py`, `clients/ai_engine.py`, `ai_signal.py`, the loop of `_run` | an ai_signal bot over several runs and days |
| `AiBot_proofs` | | theorems about it |
| `Strategies` | `XC/strategies/*` but `ai_signal` | `on_bar` as functions |
| `Recursion_proofs` | | induction over numbers, and what it says of recursive functions and concatenations |
| `Strategies_proofs` | | facts about the operators of `Strategies` |
| `PaperVenue`, `MarketSession` | `paper.py`, `session_guard.py`; `session.py` | functions |
| `Replay` | `backtest/engine.py`, `PnLLedger`, `_tripped`, the loop of `_run` | a backtest and a paper bot on the same bars; composes the three above |
| `Replay_proofs` | | theorems about it |
| `StrategyConfig` | `bot.ts`, `strategy_config.py`, the constructors behind `build_strategy`, the rule editor of `page.tsx` | the stages a configuration passes, as predicates and conversions |
| `Billing` | `billing/routes.ts`, the subscriptions of `db/repos.ts` | checkouts and webhooks |
| `StartPipeline` | `routes/bots.ts`, two-factor and key routes, `api/bots.py`, `launchers/production.py`, `llm/author.py` | the way of a start request; composes the two above |
| `StartPipeline_proofs` | | theorems about it, about `Billing` alone and about the rule editor |
| `MC...` | | small instances for TLC |

### How actions correspond to code

asyncio is cooperative, so one action is what one coroutine does from the moment
it is resumed to its next suspending await. The value of `pc` (a worker), `rpc`
(a request), `cpc` (a `cancel_open`) or `feed.at` (a `deliver_fills`) names the
await it is suspended at. Consecutive synchronous code is never split and
an await is never jumped over. `Task.cancel()` sets a flag; the action that finds
it at the await (`CancelDelivered`, or the `...Breaks` actions of the router)
stands for the `CancelledError`.

`BotSupervisor`:

* `BeginRun`, `Started`, `StartedLost` are the head of `_run`;
  `BarWhileClosed`, `BarWhileOpen`, `IdlePublished`, `ResumedPublished`, `Submitted`
  its loop; `AwaitRaises` the `except Exception`; `TripPublished` and `Leave` the
  breaker and the ways out; `Unwind`, `TeardownDone`, `AfterFinally`,
  `StoppedPublished` the `finally` and what stands after it.
* `Start` is `Supervisor.start` as one step, because `_lock` is held across no
  await. `TakeDown` is what `stop` and `kill` do before their first await,
  `TaskJoined`, `OrdersCancelled`, `KilledPublished` and `KilledLost` the rest;
  `kill_all` and the shutdown hook repeat it over the ids they collected
  (`KillTargets`, `RunningBots`).
* A handle object stays in the model after it is replaced in `_handles`
  (`current`): its task may still be on its way out.
* History variables: `killedPub`, `lostStart`, `seen`.

`OrderRouter`:

* `Submit` .. `FillPublished` are `submit`; `BeginCancel` .. `CancelPublished` are
  `cancel_open`, run by the worker (`Task`) after a trip or by a kill once the
  worker has ended; `DeliverFill` .. `LateFillPublished` are `deliver_fills`.
* Each await has two outcomes: it returns, or it breaks. It breaks because the
  other side fails (`Faults`) or because the task is cancelled, and then the
  effect at the other side may or may not have happened (the venue may have
  accepted the order, the commit may have been applied, the event may be in the
  stream).
* A session is one transaction, so its writes appear at the commit
  (`WriteOrder`, `WriteCancels`), and until then they live in the caller
  (`done`). `session.add` and `execute` on an open session are part of the step
  that contains them.
* The venue is external: it answers with any combination of status and fill the
  adapters can return, fills standing orders at any time, and either tolerates or
  refuses the cancel of an order it no longer holds (the paper venue tolerates,
  ccxt venues refuse).
* `deliver_fills` may be called for an order whose `submit` is still in progress.
* History variable: `lost`, the orders that were in hand when an await broke.

Abstracted in both: prices, quantities, symbols, the PnL (whether the breaker
trips is a choice) and the market clock (open or closed is a choice at each bar).
`BotSupervisor` treats `submit` and `cancel_open` as awaits that may return or
raise, `OrderRouter` treats the supervisor as whoever interrupts the worker; the
composition is planned (section 8).

`EventDelivery`: an action is what happens between two awaits of the consumer's loop,
of the `/ws` handler, or at Redis. `Read` is the moment Redis serves `XREADGROUP`,
which makes the entries pending whether or not the answer arrives (`BatchArrives`);
`Acked` and `AckFails` are the two outcomes of the ack, and the loop handles the next
entry in the same step (`Dispatch`), since `sendTo` is synchronous. `Connect`,
`Register`, `Unauthenticated` and `CloseEvent` are the `/ws` route around its one
await; `Exit` is the end of a process, crash or not. Each member of `Gateways` is one
start of a gateway, so a restart is a second member and a rolling restart two at once.
History: `inbox`, `handled`, `since`, `base`, `skipped`.

`AiBot`: `BarOpen` is everything from the yield of a bar to the next suspension:
`on_bar` and, with an order, the call of `submit`. `Tick` is `run()` from the end of its
sleep to the consult or the announcement; `Decide` writes the slot and calls `_emit`;
`Announced` and `AnnounceFails` end that await. Both coroutines share `closes`,
`slot`, `consumed` and `held`. `Ends` cancels the worker anywhere, `Restart` begins a new
run with a new `StrategyState`. `BarSource`'s generator moves only while the loop
waits for it. A quantity is the set of the buys it stands for, so that a sell can be
compared with what was bought. A buy may execute in `Parts` units: `Outcome` gives each of
them, when `submit` returns or is broken off, to `executed`, `open` or `unfilled` (a ccxt
venue may acknowledge a market order without a fill, or with some, and cancel or expire the
rest), and `ExecutesLater` and `RestIsOver` go on with what is open, which nobody reports to the
bot. `Rows` are the newest candles of the last `Window` periods, as `_lookback_start` asks for
them; a venue without such a window is an instance with a `Window` beyond `MaxPeriod`.

`Replay`: a step is one bar, for `run_backtest` and for the bot at once. Nothing
between two bars touches the strategy, the venue or the ledger of a bot that is not
stopped, so the interleavings of the other modules are left out here. A bar reaches the
bot when its successor begins (`due`), so a session's last bar comes at the next opening,
hours or days old. From there on the clock may go on by one slot, before any of the bar's orders
or before the breaker's check, each of which reads it anew (`Clock`, `Doors`). Left out are a
candle that is alone in the answer and so comes while it forms (`AiBot` has it), and that a
bot that is started gets the last closed candle at once and not when the next one closes.
Prices, quotes and rates are integers chosen so that
every quotient of an instance is exact: rounding is not modelled. Conditions of a rule are
records that hold records, and every function over them looks at nestings up to
`MaxNesting`: `Levels` is the parts of a condition, level by level, and a condition's truth
is the function on its parts that satisfies the equation of `_eval`. The schema bounds no
nesting, so the theorems hold for every `MaxNesting` and the strategies nested up to it.

`StrategyConfig` and `StartPipeline`: a decimal is the text it is sent as, with a value
if `Decimal()` takes it, and plain if the gateway's expression matches it. Each gate is
a step because each is an await; `LaunchLooks` and `LaunchInserts` are the two statements of
the row's session, `Launch` everything after its commit, which awaits nothing until the
supervisor has the bot. A row is the request whose configuration it stores. The answers are the statuses of the routes; `duplicate` is the
500 of a violated primary key. A *scenario* names the actors of one behaviour (which
requests, checkouts, activations, model answers), because a product of all of them
says no more than their sum: they meet only in the account that the gates read.

## 3. Runs

| run | instance | properties | shows |
|---|---|---|---|
| `SupervisorSafety` | 2 bots of one user, 2 starts, 2 requests, companions or none, every operation | `TypeOK`, `NoOrphanCompanion`, `KilledIsFinal`, `LiveHandleHasWorker`, `ShutdownStopsAll`, `AtMostOneTrader`, `TakedownCovers`, `EndedStaysEnded`, `SlotSpec` | the worker's life against two overlapping requests, and that it implements `WorkerSlot` |
| `SupervisorLiveness` | 2 bots with companions, 2 starts, 1 request of any kind | `RequestsReturn`, `ExitsComplete` | no request hangs, no cancelled worker stays |
| `Router` | 2 orders, worker and 2 kills, every fault | `TypeOK`, `PaperTrail`, `AuditAgrees`, `OneHandPerOrder`, `CancelledIsWithdrawn`, `RestingIsAccountedFor`, `CancelOpenReturns` | database, stream and venue stay consistent whatever breaks, and every kill gets through |
| `Delivery` | 2 gateway processes, 2 users, 2 events in a stream of 1, 1 socket, batches of 2, every fault | `TypeOK`, `AckedWasHandled`, `OpenSocketSeesAll`, `OnlyTheRaceLeaks`, `ChannelSpec`, `NothingStalls` | what at-most-once delivery keeps and loses, and that it implements `EventChannel` |
| `AiBot` | 2 runs, 2 decisions per run, buys of 2 units, no cap, 7 periods, each with its candle, 2 in the window | `TypeOK`, `ActedOnce`, `AtMostOneBehind`, `HeldAgainstPosition` | the state two coroutines share, and the venue's executions, over a restart |
| `AiFeed` | 2 runs, 2 days, 2 decisions per run, cap 1, 1 failing consult per run and day; 4 periods of which 2 may be empty, 3 in the window | `BudgetKept`, `BarFeed` | the companion's counter over midnight, a restart and failures; the polling against a sparse venue and a bounded request |
| `Replay` | 8 scenarios: each strategy, crypto and equity, 5 to 7 bars | `EquityMatchesLedger`, `InventoryGap`, `RuleFiresExactly`, `StrategyContracts`, `WarmStartConverges`, `SessionRespected` | the strategies against their contracts, the bot against the backtest, the market's hours |
| `Pipeline` | 9 scenarios: billing, live starts, concurrent starts, authoring | `RowSettles`, `StartsSettle`, `WarnedOrFaithful`, `GatesHold` | the account and the configuration on the way to a bot |
| `SupervisorOneWorker`, `RouterRejection`, `RouterKill`, `AiDailyCap` | smaller | one each | section 5 |

Bounds. `Handles` is the number of starts: two of one bot are enough for a worker
and its successor. A bot that is restarted while a `kill_all` is at the other bot would
be a third: for any number of starts `TraderExclusion` and `TakedownComplete` are proved
(section 6). Two bots give `kill_all` and the
shutdown a list with a rest. Two requests make every pair race (stop against kill,
kill_all against stop); a third would be a further cancel of a task already
cancelled, which writes the same flag again. `Orders` = 2 gives `cancel_open` a
second order for the first one's failure to affect, and `Kills` = 2 with the worker
gives three callers of `cancel_open` at once. Nothing else is bounded: the
variables are finite, no counter is capped and no constraint cuts the state space.
`Symmetry` (handles, requests; orders, kills) is used only in runs without a
temporal property of the liveness kind. `Router` has none for that reason.

`Delivery`: two events in a stream that may be trimmed to one make the group lag, skip
and read a batch of two; two processes give a restart and an overlap; one socket is
enough because sockets do not see each other, and two users tell its events from
others. `AiBot` and `AiFeed` are two instances of one module, because the
product of executions, days and gaps has more states than it has cases: neither the days nor the
gaps touch an order, and the candles do not touch the counter. Two decisions
and two runs give a decision overwritten in the slot, a sell of a buy that was refused or is half
executed, and lots left behind by a run; two units per buy are some and the rest; seven periods
are bars enough to fill the window and act on both decisions in both runs, since a run's first bar
needs a candle and a successor. `AiFeed`: a cap of one is
reached in one day or left open across midnight, with a failure before, between or after, and two
decisions per run are what two days allow; four periods with two gaps and a window of three
give a lone candle at the start and after a pause, and a candle that follows a pause with another
behind it. `Replay`: each scenario is long enough for its strategy's window to fill,
slide, and see a rise, a fall and a second rise; prices contain a zero, a grid line and a
close between lines; the calendar has a holiday, a weekend and days before, in and
after hours, `gaps` put the next bar into the same session, behind its bell or into the next one,
and a mark may be two slots old (`MaxMarkAge`) before the breaker mistrusts it. `Pipeline`: two checkouts, four statuses of one subscription, two
activations and secrets, three starts of one bot, and conditions nested two deep over
two comparisons, with three calls of the model. The bounds are `MaxEvents`, `MaxPeriod`,
`MaxGaps`, `MaxRuns`, `MaxDays`, `MaxSeq`, `MaxFails`, `Parts`, `MaxNesting` (1 for `Replay`'s rules, 2 for the
editor's), and per scenario `maxBars`, `statuses`, `secrets`.

Deadlock is checked in every run but `Pipeline`: a supervisor whose process has exited
(`Exited`), a router whose worker has ended and whose calls have returned (`Quiet`), and
the ends of `EventDelivery`, `AiBot` (`Over`) and `Replay` (`Done`) stutter explicitly, so
any other state without a successor would be reported. The requests of `StartPipeline`
are finitely many and the program may really stop when they are answered.

What the properties say, beyond the comments above them:

* `TakedownCovers` is about a snapshot that goes stale: `kill_all` collects ids,
  and while it awaits one worker, another of its bots may be stopped, end, and be
  started anew. The old workers are disarmed all the same; a worker started after
  the request is not promised anything.
* `EndedStaysEnded` rests on `STOPPING`, `STOPPED`, `KILLED`, `PAUSED` and
  `ERRORED` never being overwritten by a live state, although the worker and the
  requests write the same field with awaits in between. An end state may still be
  replaced by another.
* `LiveHandleHasWorker` has an exception on purpose: the publish of `bot_started`
  stands before the `try`, and when it raises the handle stays `RUNNING` with no
  task behind it (a stop or a kill releases it).
* `RestingIsAccountedFor` is the exact extent of the kill switch: an order that
  rests untouched is tracked, in the hands of a running `cancel_open`, in the
  submit in progress, or in `lost`. That `lost` is needed is a fact about the code:
  a failed or interrupted `submit` and a failed `cancel_open` forget orders.
* `CancelOpenReturns` covers a kill's wait for the worker it interrupted, wherever
  that worker is.

* `AckedWasHandled` is the at-most-once half of delivery: entries may stay pending for
  ever (nobody claims them) or be trimmed unread, but none is acknowledged that was not
  handed to the sockets. `OpenSocketSeesAll` is what is left for a client: no hole
  between its registration and its close, as far as its own gateway got.
* `OnlyTheRaceLeaks` bounds a leak that exists: a socket whose close event fires while the
  session is being resolved is registered afterwards and stays. It is never sent to.
* `AtMostOneBehind` says how old the picture behind a decision can be: the companion
  reads the position before its await, and `on_bar` may act meanwhile on the one decision
  that was already in the slot.
* `HeldAgainstPosition` explains every difference between what an `ai_signal` bot believes and
  what it has, unit by unit: bought and not executed, sold and not executed, or left by an earlier
  run. `ai_signal.py:15-16` says it "can never oversell"; it does, by what has not executed
  of its buys and no more, since a sell never names a buy twice. `InventoryGap` is the
  same for the other strategies on the paper venue.
* `BudgetKept` is what the counter of `run()` does bound: consults of one run and one day
  that did not fail. The cap that is documented, per bot and day, is `DailyCap` (section 5).
* `SessionRespected` says when a bot trades and when it does not: its strategy has been given
  exactly the bars that arrived in market hours, it is idle exactly from a bar that arrived outside them
  to the next one inside, it has tripped on a loss at a time when market and mark could be trusted, it
  goes on with a loss only if they could not, and a refused order means that the bell
  rang between the arrival of its bar and its submission.
* `EquityMatchesLedger` compares two implementations of one account. They agree also
  because both drop the fills of resting limit orders: `backtest/engine.py:62` and the
  `mark_sink` of `ccxt_live.py:108-109` discard what `update_mark` returns.
* `RuleFiresExactly` evaluates each rule on the whole history, where the engine keeps a
  window and one previous value; `WarmStartConverges` says after how many bars a bot that
  joined late agrees with it.
* `RowSettles` names the two ways a subscription row can end up wrong: checkouts that raced
  for the customer, and a snapshot older than the last one applied. Without them it is right.
* `StartsSettle` gives each refusal a cause. A bot that is refused after its row was
  committed leaves the row; a start needs it to exist, not to be its own.
* `BarFeed` has a safety half, `FormingIsAlone`: a candle that was yielded while it formed had no
  other in the window of the request, which is the exception the code makes; and a
  progress half: a candle with a successor is yielded or passed over for a later one, unless it
  drops out of the window first.
* `WarnedOrFaithful` evaluates the authored and the rebuilt condition under every truth
  assignment of their comparisons.

## 4. Fairness

`BotSupervisor.Fairness`: the event loop resumes a coroutine whose await has an
outcome (`WF` of `Proceeds` per worker and of `Request` per coroutine), and a
companion that was cancelled ends. The awaits in `Proceeds` are publishes,
submits, `cancel_open` and the teardown. That each has an outcome is an assumption on the
environment: the HTTP clients have timeouts, of the database and of Redis it is
taken for granted. No fairness is given to bars, to the end of the bar stream, to a companion failing by
itself, or to new requests: a bot may wait for a bar for ever, and a stop must
return all the same.

`OrderRouter.FairSpec`: the worker continues once its call has an outcome
(`WorkerGoesOn`), and so does every `cancel_open` (`Caller`). New orders, fills,
trips, stops and kills are not promised. Which outcome is never promised
either: any call may fail.

`EventDelivery.FairSpec`: each consumer loop goes on once its call has an outcome
(`Loop`). Publishers, clients, signals and boots are not promised, and any call may fail;
`NothingStalls` excepts loops that were stopped or have broken.

`AiBot.FairSpec`: the bar loop goes on (`BarLoop`): polls answer, sleeps end, submits
return. New candles are not promised, nor answers of the model.

`Replay` and `StartPipeline` have no liveness: a bar or a request either comes or not.

Weak fairness is enough throughout. An enabled continuation stays enabled until
it is taken or the cancellation of the same coroutine takes its place, and both
belong to the same fair action.

## 5. What the runs found

Four statements of the code's own documentation do not hold, each shown by a run
that TLC ends with a counterexample.

1. `supervisor.py:4-5`, "guarantees no two workers ever run the same bot"
   (`SupervisorOneWorker`). A `STOPPING`, `KILLED`, `PAUSED` or `ERRORED` bot can be
   started again before its task has ended. The old worker can no longer trade
   (`AtMostOneTrader`, proved), but two tasks, two routers and two publishers exist
   for one bot.
2. `router.py:80-82`, a venue that rejects a cancel "does not block the others"
   (`RouterRejection`). The rejection leaves the loop: the remaining orders are not
   cancelled and nothing tracks them any more.
3. `supervisor.py:182`, "cancel its open orders" (`RouterKill`). A kill that
   interrupts a tripped worker inside its own `cancel_open` finds the set of tracked
   orders empty and returns while an order rests at the venue.
4. `entrypoint.py:11` and `91`, `clients/ai_engine.py:58` and `ai_companion.py:69`: a cap on
   consults "per bot per UTC day" (`AiDailyCap`). The counter lives in `run()`
   (`ai_companion.py:77`): a restart on the same day starts it over. A consult that fails is
   not counted either (`ai_companion.py:125-128`); the run needs no failure. What holds is
   `BudgetKept`, proved.

2 and 3 are checked with `Faults = {}`: nothing fails in them.

Smaller observations made while modelling. None is a run of its own; the properties
named in brackets state what holds instead.

* `ARCHITECTURE.md:734` calls delivery "durable, at-least-once" and `publisher.py:39`
  "durable-replay". The consumer reads only `>`, never claims pending entries, and its
  name contains its process id: delivery is at most once (`ChannelSpec`,
  `AckedWasHandled`). `consumer.ts:28-30` says so itself.
* A grid that fell exactly onto a line, rose without reaching the next one and falls again
  buys that line twice, so it can hold more lots than it has intervals and spend more
  than `total_quote` (`StrategyContracts`).
* Under `not`, a comparison without enough history is false and its negation true: such a
  rule fires during warm-up (`rule_engine.py:368`, `382-383`).
* A resting paper order matches at any mark, also outside market hours, and slippage is
  applied to limit fills as well. `next_open_ms` is used by tests only.
* `supervisor.py:185` says of `stop` that it "lets the current bar finish"; it cancels the task at
  whatever await it is at, in the middle of an order too.
* `supervisor.py:186-187` calls killing an already-terminal bot "a no-op": `kill` has no test of
  the state, rewrites `STOPPED` or `ERRORED` to `KILLED` and publishes `bot_killed` again
  (`EndedStaysEnded` allows it).
* `ccxt_live.py:68-70` says that the source "yields each newly-closed bar" and uses "the last
  *closed* candle", and `alpaca_data.py:67` that a request reaches "far enough back to hold `limit`
  bars". Of a symbol that traded once in the six or seven days a request reaches back, the
  answer is one row, and `_latest_closed` returns it while it forms. The strategy decides on it,
  and the closed bar, which has the same timestamp, never comes (`FormingIsAlone`).
* `dca.py:9-10` promises a buy "at least once per session"; an interval longer than the time
  between two sessions gives none in some (`DcaCadence` is what holds).
* `production.py:42-44` says the limit on the mark's age "never false-trips intraday". It may miss
  a loss intraday: of a stock that trades rarely a bar comes with the next trade, and if that is
  more than 15 minutes later, the breaker does not look (`SessionRespected`).
* Executions after `submit` has returned never reach the ledger or the strategy: nobody calls
  `deliver_fills` (`HeldAgainstPosition`).
* A second subscription of one customer overwrites the row, and the end of either locks the
  user out (`RowSettles`).
* `bot.ts:30-31` and `88-91` say that what the gateway lets through wrongly surfaces as a
  400. What pydantic refuses is a 422, and malformed parameters of a Python strategy raise
  something that is no `ValueError` and end in a 500 (`StartsSettle`).
* An inverted grid passes both schemas and is refused only by its constructor, after its
  `bot_configs` row was committed.
* Of two concurrent first starts of a bot one is answered 500 (`StartsSettle`).
* A comparison that carries `terms` hides its operands from `_referenced_tokens`; the
  engine's own check finds them. Decimals in scientific notation pass the author's
  validation and not the gateway's expression (`WarnedOrFaithful`).
* A partially filled order is never tracked by the router, as `router.py:42-46` says.
  `deliver_fills` writes the venue's order id where the schema expects the id of an order;
  only tests call it.

## 6. Proofs

Every safety property the passing runs check is proved, for all values of the constants
under named assumptions:

* `ConstantsAssumption` (ids belong to users; `NoHandle` and `NoBot` are not members of the
  sets they complete; operations and plans are among the known ones), `RouterAssumption`
  (the worker is not a kill, `NoOrder` is no order, faults are among the known ones),
  `DeliveryAssumption` (events belong to users, bounds are numbers);
* `AiBotAssumption` and `BarSourceAssumption` (bounds, cap and limits are numbers, the
  lookback is at least two, and so is the number of rows a poll asks for, which every
  caller leaves at 2: with one row every candle would be yielded as it forms);
* `ReplayAssumption` (times, prices, cash and the loss limit are numbers, bars come at
  different times, and `ValidParams`: the parameters are what the constructors accept),
  `StrategiesAssumption`, `VenueAssumption` (slippage and fee are numbers of basis points),
  and `SessionAssumption` (the market opens before it closes, on the same day; any days may
  be holidays);
* `BillingAssumption` (`None` is neither a checkout nor a row), `ConfigAssumption` (what the
  gateway's expression matches, `Decimal()` takes) and `PipelineAssumption` (a scenario's
  actors are among those of the instance, and what the model sends has the shape of a rule
  strategy: `RulesConfig` says which fields there are, and nothing of their values).

TLC evaluates each on every run of its module. In particular the numbers of bots, restarts,
requests, orders, kills, events, gateways, sockets, decisions, bars, rules, checkouts and
repairs are arbitrary, and so is the length of every stream of bars.

### BotSupervisor_proofs

`Typing`, `TraderExclusion`, `TakedownComplete`, `ShutdownComplete`,
`CompanionContained`, `KillFinality`, `NoZombieButLostStart`, `EndStatesAreFinal`, and
`Refinement`, which says that the supervisor implements `WorkerSlot`.

None of the properties is inductive alone. `IInv` adds to typing: the registry holds
handles of the right bot (`Registered`); for each handle, how the state it shows
relates to the await its task is at and to the cancel flag (`StateInv`), and where
its companion can be (`CompanionInv`); every worker that can trade is the registered
one (`TraderInv`); a request that is past its join holds a handle whose task is done
(`JoinInv`); the handles a request has seen exist (`SeenInv`); a shutdown in progress
has seen every handle (`ShutdownInv`). `TraderInv` is the heart of it: `start()` tests
only the state it finds registered, so exclusion needs both that a live worker is
registered and that a handle which does not look live has no worker that trades.
One frame lemma says that a worker's step leaves other workers alone, so the step
lemmas reason about one handle. `EndStatesAreFinal` is an action property proved
from `IInv`; `Refinement` maps the step of every action to `Grant`, to `Revoke`s, or to a
stutter, using that rights only shrink except at `Start`.

### OrderRouter_proofs

`RouterTyping`, `EventsHavePaperTrail`, `RowsAgreeWithAudit`, `OrdersAreShared`,
`CancelledStaysWithdrawn`, `RestingOrdersAccountedFor`.

The inductive invariant adds four facts to the properties. `SubmitInv`: how far the
rows of the submitted order are at each await, and that only an acknowledged order
without a fill can rest. `ReachInv`: `RestingIsAccountedFor` in the stronger form that
holds across `Persisted`. `CancelInv`: a `cancel_open` holds orders only between its
first and last await, everything it has `done` no longer stands, and after the
commit has rows that say so. `RowInv`: whatever is tracked or held has a row, which is
what makes `AuditAgrees` survive the commit of a cancel, and what keeps the order being
submitted out of everybody's hands. Each action has one lemma,
and `RouterInductive` puts them together.

### EventDelivery_proofs

`DeliveryTyping`, `NothingAckedUnhandled`, `OpenSocketsAreServed`,
`RegistryLeaksOnlyByRace`, and `Refinement`: delivery implements `EventChannel`.

The step of the abstract channel that must be justified is the fan-out: the entry is
fanned out by nobody else, ever, and is later than anything the socket has. So the
invariant says where an entry is. `BatchInv`: a gateway holds a batch only while it
handles or acknowledges, ascending and no later than the group's position. `FreshInv`:
what is still to be handled by a gateway is to be handled or has been handled by no other,
and is later than everything its sockets were sent. `TrimInv`: an entry that was trimmed before it was read
is recorded as skipped, which is what the group's position may pass over. `SocketInv`
relates the three places a socket lives in (the client's connection, the route's handler,
the registry), and its inbox to what its gateway has handled since it was registered.

### AiBot_proofs

`AiTyping`, `DecisionsActOnce`, `DecisionsAreTimely`, `HoldingsAreExplained`, `CapIsKept`,
`FormingBarsAreAlone`.

`SeqInv` counts decisions: acted on, consumed, in the slot, made; and while a consult is
under way, what the next bar will act on was already in the companion's snapshot, which is
the reason why a decision is at most one behind. `OrderInv`: every order is named by a
decision no later than the last one consumed, so the next order is new. `HeldInv`: what is
held was bought in this run and not sold since, a buy in flight is already held, and a sell
in flight has emptied the held quantity; and, unit by unit, an order whose `submit` has returned is
executed, open or over, whatever the venue does with it later. From it `HeldAgainstPosition`
survives the places where belief and position part: the bar, the outcome of the order, a late
execution, the restart.
`CostInv` relates the companion's counters to what was spent on their day, by where the
companion is. That the chosen candle is one of the rows needs that a set of periods has a
last one, a lemma from the well-foundedness of the numbers. `FormingBarsAreAlone` counts those
rows: if the window holds a candle before that of the current period, the answer has two, and the
one before the last is chosen.

### Recursion_proofs

The library's induction theorems take an operator, which the provers cannot instantiate.
`Induction` states induction for a set of numbers instead (a set that contains 0 and with
each number the next contains all of them), from the well-foundedness of `<`: the least
number outside would contradict it. `BoundedInduction` stops at a bound. `Recursion` says that
a function that is defined as a `CHOOSE` of a recursive equation satisfies it, which is what
makes sums and levels usable in a proof. `Flattening` and the lemmas after it say the same of
the concatenation of sequences.

### Strategies_proofs and Replay_proofs

`EquityMatches`, `InventoryIsTraded`, `RulesFireExactly`, `WarmStarts`, `ContractsKept`,
`SessionKept`: each property of the run `Replay`, for every stream of bars, every bar the
bot joins at, every parameter the constructors accept, and every slippage and fee.

`Strategies_proofs` describes one bar: what each `on_bar` may order in which state
(`StepOK`), sums, members of a finite set in ascending order, and that sliding a window and
cutting it from the history give the same closes. `Replay_proofs` puts the bars together. A
step is nothing, `Joins`, or `BarComes(bar)`, and each invariant is `BaseInv` (the inputs, the
locals of the backtest and of the bot keep their shape) and what the property needs besides:

* `ParityInv`, for a bot that joined at the first bar of a market that never closes: both venues hold the same resting orders, and the
  bot's position and cash are the backtest's; an order has at most one fill, and both
  sides book it.
* `InventoryIsTraded` follows each order of a bar: what changes what the strategy holds is filled
  in the ledger, or refused and recorded as refused.
* `RuleInv`: the window of closes is the end of the history, the remembered values and truths
  are those of the whole history at the bar before, the last firing of each rule is the latest
  bar at which it fired. That values computed from the window are those of the history
  needs that no indicator looks further back than the window the constructor computed.
* `MemoryInv`, for a bot that joined late: what it has seen is the end of the history. Its
  values agree once its window is full, its remembered values one bar later and hence the
  truths of its crossings, and its rises one bar after that.
* `PromiseInv`, per strategy: `DcaInv` (the time remembered is the time of the latest
  buy), `PositionInv` (the orders so far pair up, and the last one is unpaired exactly if the
  strategy is in the position), `GridInv` (the lots held are the buys that no sell has undone, in
  order, and they are no more than the lines above the price and the times a fall ended exactly
  on a line, which is the second buy of section 5).
  None of the contracts is inductive without what the strategy remembers.
* `HoursInv` gives `SessionKept`: which bars were given to the strategy, by their arrival
  (`Reached`), and of the last one, where the bot stands and what the breaker saw
  (`KeepsHours`). The arrival of a bar is fixed only when its successor begins, so the step of
  a new bar first has to leave the arrivals before it alone (`ArrivalsStay`). That an
  order is refused only at the bell follows the orders of one bar, each with its own clock
  (`RefusedOnlyAtBell`).

### StartPipeline_proofs

`SubscriptionSettles` is about `Billing` alone (`BillingSpec`: any of its steps in any order).
The invariant: the newest status of a subscription was applied or is on its way
(`NewestInv`), a checkout that got to its session works for the row's customer unless it raced
(`LinkInv`), and what the row says of its subscription is the newest applied unless an older
one came last (`RowInv`). `SubscriptionRowSettles` carries it to the pipeline: each of its steps
is a step of `BillingSpec` or a stutter of it.

`GatesHeld` and `StartsSettled` rest on `PipelineInv`. `AccountInv`: a secret that was
checked or is enabled is one a code was given of. `AuthorInv`: what was authored was accepted
by both validations, and what is in the editor is its form. Per request, `GateInv` says which
gates it has found open where it stands, `PassInv` which stages have accepted its
configuration, and `RefusalInv` what is behind the way it was refused. `BotInv`: a running bot is
one of the started and has its row. What makes these inductive is that the configuration of a request
that has arrived does not change any more, although it may come from the editor.

`EditorFaithful` is about conversions. The conditions of a strategy are followed through
`AuthoredToForm` and `BuildCustomRules`: by induction over the nesting, the leaves the editor
shows of a condition are the comparisons in it (`LeavesOK`); what is rebuilt is one comparison or one
conjunction or disjunction of them, of nesting at most one (`FlatParts`); and where the editor did not warn, the
authored condition had that form, so that both are true under the same truths of their
comparisons (`FlatHolds`, `RemadeAgrees`). The numbers survive because the validations accepted
them.

### Only model-checked

Liveness: `RequestsReturn`, `ExitsComplete`, `CancelOpenReturns`, `NothingStalls` and the second half of
`BarFeed`, since fairness is out of the prover's reach. And the four counterexamples, which
are runs.

## 7. Outside the models

* The transport between gateway and engine, HMAC checks, encryption of keys, password
  hashing and one-time codes: cryptography and pure functions of one request.
* Registration, login, session cookies and their expiry: a session is looked up or it is
  not, which is a choice in `EventDelivery`.
* The web dashboard apart from its rule editor, the market data pass-through, prompts and
  the parsing of model answers, the copilot: no state that another part relies on.
* The ccxt adapter's parsing of an order's dictionary (which answers it can give is in
  `OrderRouter`), the formats of symbols, the conversion of UTC to the exchange's time zone, the backtest's report
  (drawdown, win rate): arithmetic and parsing without a protocol. `next_open_ms`, which only
  tests call. The rounding of `Decimal`, and the fees of an equity bot (none, where the backtest
  takes 10 basis points): `EquityMatchesLedger` is about bots with the backtest's fees.
* The decryption of credentials at a live start, whose failure (`InvalidTag`) is a 500
  after the row was committed; the demo launcher, which starts paper bots on made-up bars.
* A crash of the bot engine's process: `_handles` and `_open_orders` live in memory
  only, and on restart nothing is resumed. What remains is the database and the
  stream, which `PaperTrail` and `AuditAgrees` describe at every point where a
  process may stop, since both hold in every state.
* The database is trusted to make a transaction atomic.
* Everything listed in section 8.

## 8. Plan

Done: `WorkerSlot`, `BotSupervisor` and `OrderRouter`; `EventDelivery` with
`EventChannel`; `AiBot` on `BarSource`; the strategies, the paper venue, the market's hours
and the backtest in `Replay`; `Billing`, the configuration's stages and the start route in
`StartPipeline`; the theorems of section 6.

Left, in this order:

1. `TradingBot`: a worker, its routers and one venue over several runs, which would state
   what a restart forgets (`_open_orders`) and which fills never reach a ledger.
2. Its theorems, and that the router's and the supervisor's abstractions of each other fit.
3. The ccxt adapter's fill extraction, as an algorithm.
