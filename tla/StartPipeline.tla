---------------------------- MODULE StartPipeline ----------------------------
(***************************************************************************)
(* The way of a start request of one user, from the dashboard to the       *)
(* supervisor: the schemas of StrategyConfig, the gates of the gateway     *)
(* (routes/bots.ts) over the user's subscription (Billing), two-factor     *)
(* state and stored keys (auth/routes.ts, keys/routes.ts), and the bot     *)
(* engine's launcher with its bot_configs row (launchers/production.py).   *)
(* Every await is a step, so the account may change between two gates.     *)
(*                                                                         *)
(* A scenario says what may happen in a behaviour, so that one instance    *)
(* can look closely at one part at a time.                                 *)
(***************************************************************************)
EXTENDS StrategyConfig, Billing

CONSTANTS
    Scenarios,
    Requests,       \* start requests
    Activations,    \* requests to /v1/auth/2fa/activate
    KeyIds,         \* keys stored for the venue of the requests
    MaxRepairs      \* MAX_REPAIRS of llm/author.py

\* A configuration as the model may send it: a rule strategy of the right shape,
\* its conditions nested no deeper than the instance looks.
RulesConfig(cfg) ==
    /\ cfg = [kind |-> "rules", indicators |-> cfg.indicators, rules |-> cfg.rules]
    /\ cfg.indicators \in Seq(ToSet(cfg.indicators)) /\ cfg.rules \in Seq(ToSet(cfg.rules))
    /\ \A i \in ToSet(cfg.indicators) :
          i = [name |-> i.name, fn |-> i.fn, period |-> i.period, value |-> i.value]
    /\ \A r \in ToSet(cfg.rules) :
          /\ r.do = [side |-> r.do.side, type |-> r.do.type, quote |-> r.do.quote,
                     offset |-> r.do.offset]
          /\ \A p \in Parts(r.when, Ops) :
                /\ p = [op |-> p.op, left |-> p.left, right |-> p.right, terms |-> p.terms]
                /\ p.terms \in Seq(ToSet(p.terms))
          /\ \A p \in Levels(r.when, Ops)[MaxNesting] : p.terms = <<>>

ASSUME PipelineAssumption ==
    /\ MaxRepairs \in Nat /\ None \notin Requests
    /\ \A s \in Scenarios :
          /\ s.checkouts \subseteq Checkouts /\ s.statuses \in Nat
          /\ DOMAIN s.starts \subseteq Requests
          /\ s.activations \subseteq Activations /\ s.secrets \in Nat
          /\ s.keys \subseteq KeyIds
          /\ \A cfg \in s.ideas : RulesConfig(cfg)

VARIABLES
    sc,        \* the scenario: input
    user,      \* the user's totpSecret and totpEnabled, and the secrets issued
    act,       \* per activation: where it is and the secret it read
    proven,    \* history: secrets the user has given a valid code of
    keys,      \* the stored keys
    author,    \* StrategyAuthor.author: calls of the model, and its result
    form,      \* the dashboard's rule editor, or None
    pc,        \* per request: where it is, or how it was answered
    rows,      \* bot_configs: per bot the request whose configuration is
               \*   stored, or None
    bots,      \* the supervisor: per bot the request it runs, or None
    shut,      \* history: per request the gates not open at any time since
               \*   it arrived
    rivals     \* history: per request, others of its bot under way with it

accountVars == <<user, act, proven, keys>>
authorVars == <<author, form>>
startVars == <<pc, rows, bots>>
vars == <<sc, billingVars, accountVars, authorVars, startVars, shut, rivals>>

Gates == {"subscription", "2fa", "key"}
Bots == {sc.starts[r].bot : r \in DOMAIN sc.starts}
Started == {r \in DOMAIN sc.starts : pc[r] = "started"}
Answers == {"400", "403", "409", "422", "500", "duplicate", "started"}
UnderWay == {r \in DOMAIN sc.starts : pc[r] \notin Answers \cup {"idle"}}

Init ==
    /\ BillingInit
    /\ sc \in Scenarios
    /\ user = [secret |-> 0, enabled |-> FALSE, issued |-> 0] /\ proven = {}
    /\ act = [a \in Activations |-> [pc |-> "idle", secret |-> 0]]
    /\ keys = {}
    /\ author = [calls |-> 0, result |-> None] /\ form = None
    /\ pc = [r \in Requests |-> "idle"]
    /\ rows = [b \in Bots |-> None] /\ bots = [b \in Bots |-> None]
    /\ shut = [r \in Requests |-> Gates] /\ rivals = [r \in Requests |-> {}]

-----------------------------------------------------------------------------
(* The account.                                                            *)

\* /2fa/enroll: a new secret is stored, with 2FA off until it is confirmed.
Enroll ==
    /\ user.issued < sc.secrets
    /\ user' = [secret |-> user.issued + 1, enabled |-> FALSE, issued |-> user.issued + 1]
    /\ UNCHANGED <<act, proven, keys>>

\* /2fa/activate reads the user and checks the code against the secret ...
ActivateReads(a) ==
    /\ act[a].pc = "idle" /\ user.secret # 0
    /\ act' = [act EXCEPT ![a] = [pc |-> "checked", secret |-> user.secret]]
    /\ proven' = proven \cup {user.secret}
    /\ UNCHANGED <<user, keys>>

\* Mutant: only the flag is updated.
ActivateFlags(a) ==
    /\ act[a].pc = "checked"
    /\ act' = [act EXCEPT ![a].pc = "done"]
    /\ user' = [user EXCEPT !.enabled = TRUE]
    /\ UNCHANGED <<proven, keys>>

\* ... and stores that secret, with 2FA on.
ActivateStores(a) ==
    /\ act[a].pc = "checked"
    /\ act' = [act EXCEPT ![a].pc = "done"]
    /\ user' = [user EXCEPT !.secret = act[a].secret, !.enabled = TRUE]
    /\ UNCHANGED <<proven, keys>>

AddKey(k) == k \notin keys /\ keys' = keys \cup {k} /\ UNCHANGED <<user, act, proven>>
RemoveKey(k) == k \in keys /\ keys' = keys \ {k} /\ UNCHANGED <<user, act, proven>>

Account ==
    \/ Enroll
    \/ \E a \in sc.activations : ActivateReads(a) \/ ActivateStores(a)
    \/ \E k \in sc.keys : AddKey(k) \/ RemoveKey(k)

-----------------------------------------------------------------------------
(* Authoring.                                                              *)

\* A call of the model, whose tool input is anything.  What _validate accepts
\* is the result; what it refuses is handed back, MAX_REPAIRS times.
AuthorCall(cfg) ==
    /\ author.result = None /\ author.calls <= MaxRepairs
    /\ author' = [calls |-> author.calls + 1,
                  result |-> IF SchemaAccepts(cfg) /\ Builds(cfg) THEN cfg ELSE None]
    /\ UNCHANGED form

\* The dashboard loads the authored strategy into its editor.
LoadForm ==
    /\ author.result # None /\ form = None
    /\ form' = AuthoredToForm(author.result)
    /\ UNCHANGED author

Authoring == LoadForm \/ \E cfg \in sc.ideas : AuthorCall(cfg)

-----------------------------------------------------------------------------
(* A start request.                                                        *)

\* The configuration of a request is its own, or what is in the editor.
ConfigOf(r) == IF sc.starts[r].config = None THEN BuildCustomRules(form)
               ELSE sc.starts[r].config
Live(r) == sc.starts[r].live
Bot(r) == sc.starts[r].bot
Needs(r) == (IF Live(r) THEN Gates ELSE {})
            \cup (IF ConfigOf(r).kind = "ai" THEN {"subscription"} ELSE {})

\* Request r goes from one place to another.
Step(r, from, to) == pc[r] = from /\ pc' = [pc EXCEPT ![r] = to] /\ UNCHANGED <<rows, bots>>

\* It arrives and the gateway parses it.
Arrive(r) ==
    /\ sc.starts[r].config = None => form # None
    /\ Step(r, "idle", IF ~ZodAccepts(ConfigOf(r)) THEN "400"
                       ELSE IF Needs(r) = {} THEN "engine" ELSE "subscription")

\* The subscription gate.
GateSubscription(r) ==
    Step(r, "subscription", IF ~IsActive THEN "403"
                            ELSE IF Live(r) THEN "2fa" ELSE "engine")

\* The two-factor gate.
GateTwoFactor(r) == Step(r, "2fa", IF user.enabled THEN "key" ELSE "403")

\* The key gate: any key of the venue serves.
GateKey(r) == Step(r, "key", IF keys # {} THEN "engine" ELSE "400")

\* The bot engine parses the request and the launcher looks for the row.
LaunchLooks(r) ==
    Step(r, "engine", IF ~SchemaAccepts(Forwarded(ConfigOf(r))) THEN "422"
                      ELSE IF rows[Bot(r)] = None THEN "insert" ELSE "build")

\* Mutant: the session is closed without a commit.
LaunchInsertsUncommitted(r) ==
    Step(r, "insert", IF rows[Bot(r)] # None THEN "duplicate" ELSE "build")

\* The missing row is inserted and committed.  If another start has done so
\* since, the database refuses it, which is a 500 as well.
LaunchInserts(r) ==
    /\ pc[r] = "insert"
    /\ pc' = [pc EXCEPT ![r] = IF rows[Bot(r)] # None THEN "duplicate" ELSE "build"]
    /\ rows' = [rows EXCEPT ![Bot(r)] = IF @ = None THEN r ELSE @]
    /\ UNCHANGED bots

\* The database raises.
LaunchFails(r) == \E at \in {"engine", "insert"} : Step(r, at, "500")

\* What the launcher refuses once the row is there: parameters the strategy
\* does not take (those a dict lookup or Decimal trips over are no ValueError),
\* live trading switched off, a companion without an AI engine.
Refusals(r) ==
    LET cfg == Forwarded(ConfigOf(r))
    IN  (IF cfg.kind = "python" /\ cfg.key = "momentum" /\ cfg.params = "malformed"
         THEN {"500"} ELSE IF ~Builds(cfg) THEN {"400"} ELSE {})
        \cup (IF Live(r) /\ ~sc.allowLive THEN {"400"} ELSE {})
        \cup (IF cfg.kind = "ai" /\ ~sc.aiEngine THEN {"400"} ELSE {})

\* The strategy and the launch plan are built and the supervisor starts the
\* bot, unless it runs already.
Launch(r) ==
    /\ pc[r] = "build"
    /\ \/ /\ Refusals(r) # {}
          /\ \E answer \in Refusals(r) : pc' = [pc EXCEPT ![r] = answer]
          /\ UNCHANGED bots
       \/ /\ Refusals(r) = {} /\ bots[Bot(r)] # None
          /\ pc' = [pc EXCEPT ![r] = "409"]
          /\ UNCHANGED bots
       \/ /\ Refusals(r) = {} /\ bots[Bot(r)] = None
          /\ pc' = [pc EXCEPT ![r] = "started"]
          /\ bots' = [bots EXCEPT ![Bot(r)] = r]
    /\ UNCHANGED rows

\* A running bot is stopped or ends.
BotEnds(b) ==
    /\ bots[b] # None
    /\ bots' = [bots EXCEPT ![b] = None]
    /\ UNCHANGED <<pc, rows>>

Start(r) ==
    \/ Arrive(r) \/ GateSubscription(r) \/ GateTwoFactor(r) \/ GateKey(r)
    \/ LaunchLooks(r) \/ LaunchInserts(r) \/ LaunchFails(r) \/ Launch(r)

-----------------------------------------------------------------------------
ShutGates == (IF IsActive THEN {} ELSE {"subscription"})
             \cup (IF user.enabled THEN {} ELSE {"2fa"})
             \cup (IF keys # {} THEN {} ELSE {"key"})

\* What the histories record of a step.  The gates a request finds shut on
\* arrival are those before the step.
Record ==
    /\ shut' = [r \in Requests |->
                   IF r \notin UnderWay' THEN shut[r]
                   ELSE (IF r \in UnderWay THEN shut[r] ELSE ShutGates) \cap ShutGates']
    /\ rivals' = [r \in Requests |->
                     IF r \notin UnderWay' THEN rivals[r]
                     ELSE rivals[r] \cup {q \in UnderWay' \ {r} : Bot(q) = Bot(r)}]

BillingStep ==
    \/ \E k \in sc.checkouts : Checkout(k) \/ Pay(k) \/ StatusChanges(k, sc.statuses)
    \/ Webhook

Next ==
    /\ UNCHANGED sc
    /\ \/ BillingStep /\ UNCHANGED <<accountVars, authorVars, startVars>>
       \/ Account /\ UNCHANGED <<billingVars, authorVars, startVars>>
       \/ Authoring /\ UNCHANGED <<billingVars, accountVars, startVars>>
       \/ /\ (\E r \in DOMAIN sc.starts : Start(r)) \/ (\E b \in Bots : BotEnds(b))
          /\ UNCHANGED <<billingVars, accountVars, authorVars>>
    /\ Record

Spec == Init /\ [][Next]_vars

-----------------------------------------------------------------------------
(* Properties.                                                             *)

\* A bot is started only for a request during which each gate it needs was
\* open at some time, whatever happened to the account meanwhile; and two-factor
\* authentication is on only with a secret the user has given a code of, however
\* enrolments and activations overlap.
GatesHold ==
    /\ []( user.enabled => user.secret \in proven )
    /\ [][ \A r \in Started' \ Started : Needs(r) \cap shut[r] \cap ShutGates' = {} ]_vars

\* A running bot has its row in bot_configs, which its orders refer to, and a
\* configuration every stage accepts.  Of a start that needs no gate only a
\* configuration no bot could run is refused as such; any other refusal has
\* another start of the same bot behind it: one that has started it (409), or
\* one that was under way at the same time and stored the row first.
Acceptable(r) ==
    LET cfg == ConfigOf(r)
    IN  ZodAccepts(cfg) /\ SchemaAccepts(Forwarded(cfg)) /\ Refusals(r) = {}
StartsSettle ==
    /\ \A b \in Bots : bots[b] # None => rows[b] # None /\ Acceptable(bots[b])
    /\ \A r \in DOMAIN sc.starts :
          (pc[r] \in {"400", "403", "422"} /\ Needs(r) = {}) => ~Acceptable(r)
    /\ \A r \in DOMAIN sc.starts :
          /\ pc[r] = "409" => \E q \in Started : Bot(q) = Bot(r)
          /\ pc[r] = "duplicate" => rivals[r] # {}

\* What the user sees of an authored strategy is what was authored, or the rule
\* is flagged: rebuilt from the editor, a rule without a warning has a condition
\* that is true exactly when the authored one is, and the same order and
\* cooldown, over the same indicators.  No comparison is lost, warned of or not,
\* and the rebuilt strategy is accepted on the whole way, if its decimals are
\* written plainly.
HoldsIf(c, true) ==
    LET holds[p \in Parts(c, BoolOps)] ==
            CASE p.op = "not" -> ~holds[p.terms[1]]
              [] p.op = "and" -> \A i \in DOMAIN p.terms : holds[p.terms[i]]
              [] p.op = "or" -> \E i \in DOMAIN p.terms : holds[p.terms[i]]
              [] OTHER -> Comparison(p.op, p.left, p.right) \in true
    IN  holds[c]
Texts(cfg) ==
    {cfg.rules[i].do.quote : i \in DOMAIN cfg.rules}
    \cup ({cfg.rules[i].do.offset : i \in DOMAIN cfg.rules} \ {NoText})
    \cup {cfg.indicators[i].value : i \in DOMAIN cfg.indicators}
WarnedOrFaithful ==
    form # None =>
        LET authored == author.result
            rebuilt == BuildCustomRules(form)
            needed(d) == IF d.type = "limit" THEN d ELSE [d EXCEPT !.offset = NoText]
        IN  /\ \A i \in DOMAIN authored.rules :
                  LET old == authored.rules[i]
                      new == rebuilt.rules[i]
                  IN  /\ new.do = needed(old.do) /\ new.cooldown = old.cooldown
                      /\ ToSet(Leaves(new.when)) = ToSet(Leaves(old.when))
                      /\ i \notin form.warned =>
                            \A true \in SUBSET ToSet(Leaves(old.when)) :
                                HoldsIf(new.when, true) <=> HoldsIf(old.when, true)
            /\ \A i \in DOMAIN authored.indicators :
                  LET old == authored.indicators[i]
                      new == rebuilt.indicators[i]
                  IN  /\ new.name = old.name /\ new.fn = old.fn
                      /\ old.fn \in Windowed => new.period = old.period
                      /\ old.fn = "value" => new.value = old.value
            /\ Texts(rebuilt) \subseteq PlainTexts =>
                  /\ ZodAccepts(rebuilt) /\ Forwarded(rebuilt) = rebuilt
                  /\ SchemaAccepts(rebuilt) /\ Builds(rebuilt)
=============================================================================
