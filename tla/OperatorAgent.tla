---------------------------- MODULE OperatorAgent ----------------------------
(***************************************************************************)
(* The operator agent of src/arcsettle: threads that run propose_settle,   *)
(* propose_redeem and status (main.py), offline against one in-process     *)
(* model of the contract or live against a node (chain.py), with one       *)
(* action limiter (guardrails.py) and one store of runs (state.py), made   *)
(* at the first call.                                                      *)
(*                                                                         *)
(* The offline model, the limiter and the store have a lock each, held for *)
(* one call: a step is one such call, or one request to the node, and      *)
(* threads interleave between steps.  The lock under which the store is    *)
(* made is held while its backend is asked, a step of its own.  In memory  *)
(* a call of the store cannot fail; a remote one may raise, applied or     *)
(* not.  An exception ends the call it is in: no step catches one, but the *)
(* search for equal runs.                                                  *)
(***************************************************************************)
EXTENDS Integers, Sequences, FiniteSets

CONSTANTS
    Thread,
    Environment,           \* the environments the process may be started in
    Contract,              \* the contract on the chain, block by block
    UsdcAmount,            \* amounts proposed, valid or not
    ONE,                   \* base units in one USDC
    UINT256_MAX,
    DefaultReserves,       \* _DEFAULT_STATE, in base units
    Figure,                \* reserves a later attestation may publish
    MaxPerCycle, MaxPerHour,                     \* of the ActionPolicy
    HOUR, CYCLE_TTL_SECONDS, MAX_TRACKED_CYCLES,
    MaxAge, ChainTime,     \* max_age; what set_now may set
    WINDOW, FindLimit, MaxPriorIds,              \* of the search for equal runs
    MaxRuns, MaxFallibleRuns,                    \* bounds: runs, and runs where calls can
    MaxAttestations, MaxFailures, MaxClock       \* fail or time has passed; attestations;
                                                 \* failing store calls; the clock

Toggle == [shared : {"unset", "no", "yes"}, own : {"unset", "no", "yes"}]

Setting == {"unset", "malformed", "zero", "wrong", "ok"}

ASSUME AgentAssumption ==
    /\ Environment \subseteq
          [IN_MEMORY_STATE : Toggle, REQUIRE_DURABLE_STATE : Toggle, DRY_RUN : BOOLEAN,
           offline : BOOLEAN, rpc_url : Setting \ {"zero", "wrong"},
           settlement_address : Setting, oracle_address : Setting,
           settler_address : Setting, settle_recipient : Setting]
    /\ Contract \in Seq([supply : Nat, effective : Nat]) /\ Contract # <<>>
    /\ UsdcAmount \subseteq Int
    /\ ONE \in Nat \ {0}
    /\ UINT256_MAX \in Nat
    /\ DefaultReserves \in 0 .. UINT256_MAX
    /\ Figure \subseteq 0 .. UINT256_MAX
    /\ ChainTime \subseteq Nat
    /\ {MaxPerCycle, MaxPerHour, HOUR, CYCLE_TTL_SECONDS, MAX_TRACKED_CYCLES,
        MaxAge, WINDOW, FindLimit, MaxPriorIds, MaxRuns, MaxFallibleRuns,
        MaxAttestations, MaxFailures, MaxClock} \subseteq Nat

VARIABLES
    environ,               \* the environment variables
    chain,                 \* _STATE
    block,                 \* the latest block of the chain
    clock,                 \* the time of day
    recent, cycleCounts,   \* the limiter: times of allowed actions, count per run
    store,                 \* _store, and how many there have been
    runs,                  \* the documents: run 1, run 2, ...
    thread,                \* where each thread is in its call
    failures               \* how many calls of the store have raised

vars == <<environ, chain, block, clock, recent, cycleCounts, store, runs, thread, failures>>

\* The limiter, guardrails.py, and the live mode of chain.py.
Limiter == INSTANCE ActionLimiter
Live == INSTANCE LiveChain

RunId == 1 .. Len(runs)

\* What is due next in a call; "idle" between calls.
Steps == {"idle", "create", "start", "domain", "precheck", "limit", "apply",
          "guardrail", "data", "find", "sign", "status", "snapshot"}

\* What a run ends as, by the guardrail that stopped it or the change it made.
Decision == [none |-> "started", AMOUNT_DOMAIN |-> "rejected", RESERVE_GATE |-> "refused",
             ACTION_LIMITER |-> "blocked", REDEEM |-> "refused",
             settle |-> "settled", redeem |-> "redeemed"]

\* What a search for equal runs comes to: how many with this one, and which it names.
NoRecurrence == [count |-> 0, prior_run_ids |-> {}]

\* store: the one the call got; shows: whether it ends in a snapshot; reads: the
\* blocks a snapshot's reads were answered at.
Idle == [step |-> "idle", kind |-> "none", amount |-> 0, store |-> 0, run |-> 0,
         why |-> "none", prior |-> NoRecurrence, shows |-> FALSE, reads |-> <<>>]

NoStore == [id |-> 0, backend |-> "none"]

Init ==
    /\ environ \in Environment
    /\ chain = [reserves |-> DefaultReserves, supply |-> 0, attested_at |-> 0, now |-> 0,
                attestation_id |-> 1, pending_redemptions |-> 0, redemption_debt_id |-> 0]
    /\ block = 1
    /\ clock = 0
    /\ Limiter!LimiterInit
    /\ store = NoStore
    /\ runs = <<>>
    /\ thread = [t \in Thread |-> Idle]
    /\ failures = 0

------------------------------------------------------------------------------
(* The offline model of the contract, chain.py. *)

NettedDebt == IF chain.attestation_id > chain.redemption_debt_id
              THEN 0 ELSE chain.pending_redemptions

\* Only set_now backwards makes an attestation future dated here.
Fresh == /\ chain.attested_at <= chain.now
         /\ chain.now - chain.attested_at <= MaxAge

effective_reserves ==
    IF Fresh /\ chain.reserves > NettedDebt THEN chain.reserves - NettedDebt ELSE 0

would_revert(amount) ==
    \/ ~Fresh
    \/ chain.supply + amount > effective_reserves
    \/ chain.supply + amount > UINT256_MAX

\* The state after a settlement, and after a redemption, that goes through.
Settled(amount) ==
    [chain EXCEPT !.supply = @ + amount,
                  !.pending_redemptions =
                     IF chain.attestation_id > chain.redemption_debt_id THEN 0 ELSE @]

Redeemed(amount) ==
    IF chain.attestation_id > chain.redemption_debt_id
    THEN [chain EXCEPT !.supply = @ - amount, !.pending_redemptions = amount,
                       !.redemption_debt_id = chain.attestation_id]
    ELSE [chain EXCEPT !.supply = @ - amount, !.pending_redemptions = @ + amount]

------------------------------------------------------------------------------
(* The store, config.py and state.py. *)

\* A variable of the app's own, if set to anything, wins over the shared one.
Resolved_NoIsUnset(toggle) == toggle.own = "yes" \/ toggle.shared = "yes"

Resolved(toggle) ==
    IF toggle.own # "unset" THEN toggle.own = "yes" ELSE toggle.shared = "yes"

use_in_memory_state == Resolved(environ.IN_MEMORY_STATE)
require_durable_state == Resolved(environ.REQUIRE_DURABLE_STATE)

\* create: what the store may be made on, "none" when it raises.
Backends ==
    IF use_in_memory_state THEN {"memory"}
    ELSE {"remote", IF require_durable_state THEN "none" ELSE "degraded"}

\* A call of the store that would make the documents docs and let thread t go on as next.
Write(t, docs, next) ==
    \/ /\ runs' = docs
       /\ thread' = [thread EXCEPT ![t] = next]
       /\ UNCHANGED failures
    \/ /\ store.backend = "remote" /\ failures < MaxFailures
       /\ runs' \in {runs, docs}
       /\ thread' = [thread EXCEPT ![t] = Idle]
       /\ failures' = failures + 1

------------------------------------------------------------------------------
(* The calls, main.py.  At(t, step): thread t is to take that step. *)

At(t, step) == thread[t].step = step

\* _store_lock is held while a thread asks for a backend, and taken by every call.
StoreLockFree_NoLock == TRUE
StoreLockFree == \A u \in Thread : ~At(u, "create")

Goto(t, step) == thread' = [thread EXCEPT ![t].step = step]

Raises(t) == thread' = [thread EXCEPT ![t] = Idle]

Run(t) == thread[t].run

Units(t) == thread[t].amount * ONE

\* Record a guardrail, then the status the call ends with.
Conclude(t, why) ==
    thread' = [thread EXCEPT ![t].step = "guardrail", ![t].why = why,
                             ![t].shows = At(t, "precheck") /\ Live!use_chain]

\* The change is made: record it.
Applied(t) == thread' = [thread EXCEPT ![t].step = "data", ![t].why = thread[t].kind]

Earlier(amount) == {r \in RunId : runs[r].signed /\ runs[r].amount = amount}

\* Bounds: where calls can fail, or time has passed, there are fewer runs; and time passes
\* only where no call can fail.
RunBound == IF Live!use_chain \/ store.backend = "remote" \/ clock > 0
            THEN MaxFallibleRuns ELSE MaxRuns

TimeBound == IF ~Live!use_chain /\ store.backend \in {"memory", "degraded"} /\ Len(runs) < MaxRuns
             THEN MaxClock ELSE 0

\* A call begins, in get_store: with the store made before, or about to make it.
Propose(t, kind, amount) ==
    /\ At(t, "idle") /\ StoreLockFree
    /\ Len(runs) + Cardinality({u \in Thread : At(u, "create") \/ At(u, "start")}) < RunBound
    /\ thread' = [thread EXCEPT ![t] =
                     [Idle EXCEPT !.step = IF store = NoStore THEN "create" ELSE "start",
                                  !.kind = kind, !.amount = amount, !.store = store.id]]
    /\ UNCHANGED <<environ, chain, block, clock, recent, cycleCounts, store, runs, failures>>

\* The store is made, or the call raises.
Create(t) ==
    /\ At(t, "create")
    /\ \/ /\ \E backend \in Backends \ {"none"} :
                store' = [id |-> store.id + 1, backend |-> backend]
          /\ thread' = [thread EXCEPT ![t].step = "start", ![t].store = store'.id]
       \/ "none" \in Backends /\ Raises(t) /\ UNCHANGED store
    /\ UNCHANGED <<environ, chain, block, clock, recent, cycleCounts, runs, failures>>

\* start_run.  earlier is history: the equal settlements signed before.
StartRun(t) ==
    /\ At(t, "start")
    /\ Write(t, Append(runs, [kind |-> thread[t].kind, amount |-> thread[t].amount,
                              store |-> thread[t].store, status |-> "started",
                              guardrail |-> "none", data |-> FALSE, signed |-> FALSE,
                              recurrence |-> NoRecurrence, started_at |-> clock,
                              earlier |-> Earlier(thread[t].amount)]),
                [thread[t] EXCEPT !.step = "domain", !.run = Len(runs) + 1])
    /\ UNCHANGED <<environ, chain, block, clock, recent, cycleCounts, store>>

\* A redemption of more than a word is left to apply_redeem to refuse.
CheckDomain(t) ==
    /\ At(t, "domain")
    /\ IF thread[t].amount <= 0 THEN Conclude(t, "AMOUNT_DOMAIN")
       ELSE IF thread[t].kind = "redeem" THEN Goto(t, "apply")
       ELSE IF Units(t) > UINT256_MAX THEN Conclude(t, "AMOUNT_DOMAIN")
       ELSE Goto(t, "precheck")
    /\ UNCHANGED <<environ, chain, block, clock, recent, cycleCounts, store, runs, failures>>

\* would_revert in live mode: raise, refuse, or let the call go on.
AskChain(t, GoesOn) ==
    IF ~Live!DryRunReady THEN Raises(t)
    ELSE \E outcome \in Live!DryRun(Units(t)) :
            CASE outcome = "raises" -> Raises(t)
              [] outcome = "passes" -> GoesOn
              [] OTHER              -> Conclude(t, outcome)

Precheck(t) ==
    /\ At(t, "precheck")
    /\ IF Live!use_chain THEN AskChain(t, Goto(t, "limit"))
       ELSE IF would_revert(Units(t)) THEN Conclude(t, "RESERVE_GATE") ELSE Goto(t, "limit")
    /\ UNCHANGED <<environ, chain, block, clock, recent, cycleCounts, store, runs, failures>>

\* The clock may be read before the lock is taken: that is in IncidentDesk.
CheckLimiter(t) ==
    /\ At(t, "limit")
    /\ \/ environ.DRY_RUN /\ Conclude(t, "ACTION_LIMITER") /\ UNCHANGED <<recent, cycleCounts>>
       \/ /\ ~environ.DRY_RUN
          /\ \/ Limiter!CheckAllows(Run(t), clock) /\ Goto(t, "apply")
             \/ Limiter!CheckBlocks(Run(t), clock) /\ Conclude(t, "ACTION_LIMITER")
    /\ UNCHANGED <<environ, chain, block, clock, store, runs, failures>>

\* Offline: the same check again, and the change, under one lock.
ApplySettle_TrustsPrecheck(t) ==
    /\ At(t, "apply") /\ thread[t].kind = "settle" /\ ~Live!use_chain
    /\ chain' = Settled(Units(t)) /\ Applied(t)
    /\ UNCHANGED <<environ, block, clock, recent, cycleCounts, store, runs, failures>>

ApplySettle_IgnoresResult(t) ==
    /\ At(t, "apply") /\ thread[t].kind = "settle" /\ ~Live!use_chain
    /\ chain' = (IF would_revert(Units(t)) THEN chain ELSE Settled(Units(t)))
    /\ Applied(t)
    /\ UNCHANGED <<environ, block, clock, recent, cycleCounts, store, runs, failures>>

ApplySettle(t) ==
    /\ At(t, "apply") /\ thread[t].kind = "settle" /\ ~Live!use_chain
    /\ IF would_revert(Units(t))
       THEN Conclude(t, "RESERVE_GATE") /\ UNCHANGED chain
       ELSE chain' = Settled(Units(t)) /\ Applied(t)
    /\ UNCHANGED <<environ, block, clock, recent, cycleCounts, store, runs, failures>>

ApplyRedeem_AnyAmount(t) ==
    /\ At(t, "apply") /\ thread[t].kind = "redeem" /\ ~Live!use_chain
    /\ chain' = Redeemed(Units(t)) /\ Applied(t)
    /\ UNCHANGED <<environ, block, clock, recent, cycleCounts, store, runs, failures>>

ApplyRedeem(t) ==
    /\ At(t, "apply") /\ thread[t].kind = "redeem" /\ ~Live!use_chain
    /\ IF Units(t) > UINT256_MAX \/ Units(t) > chain.supply
       THEN Conclude(t, "REDEEM") /\ UNCHANGED chain
       ELSE chain' = Redeemed(Units(t)) /\ Applied(t)
    /\ UNCHANGED <<environ, block, clock, recent, cycleCounts, store, runs, failures>>

\* Live: a settlement is dry-run again; what would go through is not broadcast, it raises.
ApplyLive(t) ==
    /\ At(t, "apply") /\ Live!use_chain
    /\ IF thread[t].kind = "settle" THEN AskChain(t, Raises(t)) ELSE Raises(t)
    /\ UNCHANGED <<environ, chain, block, clock, recent, cycleCounts, store, runs, failures>>

\* record_guardrail
RecordGuardrail_Returns(t) ==
    /\ At(t, "guardrail")
    /\ Write(t, [runs EXCEPT ![Run(t)].guardrail = thread[t].why], Idle)
    /\ UNCHANGED <<environ, chain, block, clock, recent, cycleCounts, store>>

RecordGuardrail(t) ==
    /\ At(t, "guardrail")
    /\ Write(t, [runs EXCEPT ![Run(t)].guardrail = thread[t].why],
                [thread[t] EXCEPT !.step = "status"])
    /\ UNCHANGED <<environ, chain, block, clock, recent, cycleCounts, store>>

\* set_data
SetData(t) ==
    /\ At(t, "data")
    /\ Write(t, [runs EXCEPT ![Run(t)].data = TRUE],
                [thread[t] EXCEPT !.step = IF thread[t].kind = "settle" THEN "find" ELSE "status"])
    /\ UNCHANGED <<environ, chain, block, clock, recent, cycleCounts, store>>

\* detect_recurrence: look for equal runs, or do without; then, in a call of its own,
\* sign.  In memory the search sees the runs of its own store; remotely it sees every
\* one, and is given no more than a page, in no stated order.
Matches_SettledOnly(t) ==
    {r \in Earlier(thread[t].amount) \ {Run(t)} :
        /\ store.backend = "remote" \/ runs[r].store = thread[t].store
        /\ runs[r].status = "settled"}

Matches(t) ==
    {r \in Earlier(thread[t].amount) \ {Run(t)} :
        store.backend = "remote" \/ runs[r].store = thread[t].store}

Found(t) ==
    IF store.backend = "remote" /\ Cardinality(Matches(t)) > FindLimit
    THEN {found \in SUBSET Matches(t) : Cardinality(found) = FindLimit}
    ELSE {Matches(t)}

\* Of those, the ones within the window; of these, the latest are named.
Recent_StrictWindow(found) == {r \in found : runs[r].started_at + WINDOW > clock}

Recent(found) == {r \in found : runs[r].started_at + WINDOW >= clock}

Latest_Oldest(rs) ==
    IF Cardinality(rs) <= MaxPriorIds THEN {rs}
    ELSE {ids \in SUBSET rs :
             /\ Cardinality(ids) = MaxPriorIds
             /\ \A i \in ids, r \in rs \ ids : runs[i].started_at <= runs[r].started_at}

Latest(rs) ==
    IF Cardinality(rs) <= MaxPriorIds THEN {rs}
    ELSE {ids \in SUBSET rs :
             /\ Cardinality(ids) = MaxPriorIds
             /\ \A i \in ids, r \in rs \ ids : runs[i].started_at >= runs[r].started_at}

Recurrence(rs, ids) ==
    IF rs = {} THEN NoRecurrence ELSE [count |-> Cardinality(rs) + 1, prior_run_ids |-> ids]

FindPrior(t) ==
    /\ At(t, "find")
    /\ \/ /\ \E found \in Found(t) : \E ids \in Latest(Recent(found)) :
                thread' = [thread EXCEPT ![t].step = "sign",
                                         ![t].prior = Recurrence(Recent(found), ids)]
          /\ UNCHANGED failures
       \/ /\ store.backend = "remote" /\ failures < MaxFailures
          /\ Goto(t, "sign")
          /\ failures' = failures + 1
    /\ UNCHANGED <<environ, chain, block, clock, recent, cycleCounts, store, runs>>

Sign(t) ==
    /\ At(t, "sign")
    /\ Write(t, [runs EXCEPT ![Run(t)].signed = TRUE, ![Run(t)].recurrence = thread[t].prior],
                [thread[t] EXCEPT !.step = "status"])
    /\ UNCHANGED <<environ, chain, block, clock, recent, cycleCounts, store>>

\* set_status, the last thing the store hears of a call.
SetStatus(t) ==
    /\ At(t, "status")
    /\ Write(t, [runs EXCEPT ![Run(t)].status = Decision[thread[t].why]],
                IF thread[t].shows THEN [thread[t] EXCEPT !.step = "snapshot"] ELSE Idle)
    /\ UNCHANGED <<environ, chain, block, clock, recent, cycleCounts, store>>

\* status in live mode, and a refusal at the pre-check, read a snapshot: one request
\* after the other, any of which may raise.  Offline it is one locked read.
Status(t) ==
    /\ At(t, "idle") /\ Live!use_chain
    /\ IF Live!validate_chain_config THEN Goto(t, "snapshot") ELSE UNCHANGED thread
    /\ UNCHANGED <<environ, chain, block, clock, recent, cycleCounts, store, runs, failures>>

Snapshot_Retries(t) ==
    /\ At(t, "snapshot")
    /\ LET read == Len(thread[t].reads)
       IN  \/ read = Len(Live!Reads) /\ Raises(t)
           \/ read < Len(Live!Reads) /\ thread' = [thread EXCEPT ![t].reads = <<>>]
           \/ /\ read < Len(Live!Reads) /\ Live!Answers(Live!Reads[read + 1])
              /\ thread' = [thread EXCEPT ![t].reads = Append(@, block)]
    /\ UNCHANGED <<environ, chain, block, clock, recent, cycleCounts, store, runs, failures>>

Snapshot(t) ==
    /\ At(t, "snapshot")
    /\ LET read == Len(thread[t].reads)
       IN  \/ Raises(t)            \* also what it does when it has them all: it returns
           \/ /\ read < Len(Live!Reads) /\ Live!Answers(Live!Reads[read + 1])
              /\ thread' = [thread EXCEPT ![t].reads = Append(@, block)]
    /\ UNCHANGED <<environ, chain, block, clock, recent, cycleCounts, store, runs, failures>>

\* What a thread inside a call does next.
Advance(t) ==
    \/ Create(t) \/ StartRun(t) \/ CheckDomain(t) \/ Precheck(t) \/ CheckLimiter(t)
    \/ ApplySettle(t) \/ ApplyRedeem(t) \/ ApplyLive(t)
    \/ RecordGuardrail(t) \/ SetData(t) \/ FindPrior(t) \/ Sign(t)
    \/ SetStatus(t) \/ Snapshot(t)

------------------------------------------------------------------------------
(* The rest of the process, and the chain. *)

\* set_reserves.  In live mode nothing reads the offline model.
SetReserves(reserves, attested_at) ==
    /\ ~Live!use_chain /\ chain.attestation_id < MaxAttestations
    /\ chain' = [chain EXCEPT !.reserves = reserves, !.attested_at = attested_at,
                              !.attestation_id = @ + 1]
    /\ UNCHANGED <<environ, block, clock, recent, cycleCounts, store, runs, thread, failures>>

\* set_now, in any direction
SetNow(ts) ==
    /\ ~Live!use_chain
    /\ chain' = [chain EXCEPT !.now = ts]
    /\ UNCHANGED <<environ, block, clock, recent, cycleCounts, store, runs, thread, failures>>

\* Offline nothing reads the chain.
NewBlock ==
    /\ Live!use_chain /\ block < Len(Contract)
    /\ block' = block + 1
    /\ UNCHANGED <<environ, chain, clock, recent, cycleCounts, store, runs, thread, failures>>

Tick ==
    /\ clock < TimeBound
    /\ clock' = clock + 1
    /\ UNCHANGED <<environ, chain, block, recent, cycleCounts, store, runs, thread, failures>>

Next ==
    \/ \E t \in Thread, kind \in {"settle", "redeem"}, amount \in UsdcAmount :
          Propose(t, kind, amount)
    \/ \E t \in Thread : Status(t) \/ Advance(t)
    \/ \E r \in Figure, ts \in ChainTime : SetReserves(r, ts)
    \/ \E ts \in ChainTime : SetNow(ts)
    \/ NewBlock
    \/ Tick

\* A call once made is carried on: its thread is scheduled, the locks it takes are held
\* for single calls that end, and requests have timeouts.
Fairness == \A t \in Thread : WF_vars(Advance(t))

Spec == Init /\ [][Next]_vars /\ Fairness

------------------------------------------------------------------------------
(* Properties. *)

\* Every thread is at a step of its call, in a run of its own that is not concluded; the
\* limiter's table, cut to its ceiling before an insertion, stands at one over it at most
\* (guardrails.py:196-199).
TypeOK ==
    /\ chain.supply \in 0 .. UINT256_MAX /\ chain.pending_redemptions \in Nat
    /\ cycleCounts \in [DOMAIN cycleCounts -> [count : Nat, seen : Nat]]
    /\ Cardinality(DOMAIN cycleCounts) <= MAX_TRACKED_CYCLES + 1
    /\ store.id \in {0, 1} /\ block \in DOMAIN Contract
    /\ \A t \in Thread :
          /\ thread[t].step \in Steps
          /\ thread[t].step \notin {"idle", "create", "start", "snapshot"}
                => Run(t) \in RunId /\ runs[Run(t)].status = "started"
    /\ \A t, u \in Thread : t # u /\ Run(t) = Run(u) => Run(t) = 0

\* A run whose change is on the ledger: concluded so, or about to be.
Done(kind) ==
    {r \in RunId : \/ runs[r].status = Decision[kind]
                   \/ \E t \in Thread : Run(t) = r /\ thread[t].why = kind}

\* A run left "started" by a call that has ended.
Orphans == {r \in RunId : runs[r].status = "started" /\ \A t \in Thread : Run(t) # r}

\* The sum of the amounts of these runs, in base units: a run of amount n is n pairs.
Total(kind, lost) ==
    ONE * Cardinality(UNION {{r} \X (1 .. runs[r].amount) :
                                r \in Done(kind) \cup {r \in lost : runs[r].kind = kind}})

\* The audit trail accounts for the supply to the unit, however calls interleave: what the
\* runs say was settled, less what they say was redeemed (main.py:124-149), but for the runs
\* whose call was cut short by an exception, each of which may have made its change or not.
AuditMatchesLedger ==
    \E lost \in SUBSET Orphans :
       chain.supply = Total("settle", lost) - Total("redeem", lost)

\* No run is left "started" unless a store or a node failed its call: every return of
\* the two calls concludes its run (main.py:84-149).
OnlyFailuresOrphan == Orphans # {} => Live!use_chain \/ failures > 0

\* A refusal costs no quota (main.py:15-16): a refused run has taken no slot.
RefusalCostsNoQuota ==
    \A r \in RunId : runs[r].status = "refused" => r \notin DOMAIN cycleCounts

\* Every call returns or raises, whatever the store and the node do (main.py:84-149).
EveryCallEnds == \A t \in Thread : ~At(t, "idle") ~> At(t, "idle")

\* The equal settlements that were signed before a call began and are in the window still.
Due(r) == {e \in runs[r].earlier : runs[e].started_at + WINDOW >= clock}

\* A page of the remote search holds every equal run there is.
Returned(r) ==
    store.backend = "remote" => Cardinality(Earlier(runs[r].amount) \ {r}) <= FindLimit

\* Recurrence detection sees earlier runs, in the one store of the process (main.py:34-36):
\* what a call whose search did not fail records counts every equal settlement signed before
\* the call began that is in the window yet, and leaves one out by name only for later ones.
\* It names none that was out of the window when the call began (state.py:334-353).
RecurrenceSeesEarlier ==
    \A r \in RunId : runs[r].signed =>
       LET ids == runs[r].recurrence.prior_run_ids
       IN  /\ failures = 0 /\ Returned(r) /\ Due(r) # {}
                 => runs[r].recurrence.count > Cardinality(Due(r))
           /\ failures = 0 /\ Returned(r) => \A e \in Due(r) \ ids :
                 /\ Cardinality(ids) = MaxPriorIds
                 /\ \A i \in ids : runs[i].started_at >= runs[e].started_at
           /\ \A i \in ids : runs[i].started_at + WINDOW >= runs[r].started_at

\* The app's own variable, if set, wins (config.py:108-110): told by its own variables not
\* to use memory and to require durability, it records nothing in memory, whatever the shared
\* ones say and however the backend answers.
OwnSettingsWin ==
    environ.IN_MEMORY_STATE.own = "no" /\ environ.REQUIRE_DURABLE_STATE.own = "yes"
       => store.backend \notin {"memory", "degraded"}

\* A snapshot's figures may be of different blocks, but of none older than the block number
\* it states (chain.py:285-309).
SnapshotNoOlderThanStated ==
    \A t \in Thread, i, j \in 1 .. Len(Live!Reads) :
       i \in DOMAIN thread[t].reads /\ j \in DOMAIN thread[t].reads
          /\ Live!Reads[i] = "block_number" => thread[t].reads[j] >= thread[t].reads[i]

\* A live mode that is misconfigured costs nothing (chain.py:236): no settlement takes a slot
\* of the limiter, or is decided on but for its amount.
MisconfiguredCostsNothing ==
    /\ Live!use_chain
    /\ \/ "malformed" \in {environ.rpc_url, environ.settlement_address, environ.oracle_address,
                           environ.settler_address, environ.settle_recipient}
       \/ environ.settle_recipient = "zero"
       \/ environ.settle_recipient = "unset" /\ environ.settler_address \in {"unset", "zero"}
    => /\ recent = {}
       /\ \A r \in RunId : runs[r].guardrail \in {"none", "AMOUNT_DOMAIN"}

\* The offline model spends its attestations the way the contract does, with
\* any number of threads on it (chain.py:155-160, main.py:113-118).
Budget == INSTANCE ProofBudget WITH
    supply <- chain.supply, charged <- chain.supply + NettedDebt, proven <- chain.reserves

OfflineKeepsBudget == Budget!Spec
==============================================================================
