# ArcSettle in TLA+

ArcSettle settles USDC claims on chain only against proven reserves. This directory
models its two contracts, what happens between them, and the agent that operates them;
TLC checks the models on small instances, and TLAPS proves the safety properties for
every instance.
Paths below are relative to the repository unless they end in `.tla` or `.cfg`.

## 1. The system

| part | state it keeps | operations | talks to |
|---|---|---|---|
| `src/ArcSettlement.sol`, the gate | an ERC-20 of claims, owners and settlers, the oracle and freshness bound in force, one standing proposal, redemption debt and the attestation id it is booked against | settle, redeem, transfer, approve, transferFrom, setSettler, propose/commit/cancelOracle, two-step ownership; two views | reads an oracle's three getters by STATICCALL |
| `src/ReserveAttestationOracle.sol` | the figure in force, its time, id and nonce; attestors and announcements; owners | submitAttestation (anybody), announce/confirm/cancel/revokeAttestor, two-step ownership | verifies off-chain signatures |
| `src/mocks/MockReserveOracle.sol` | a settable reading | publish, restate, fail | stands for an oracle in tests |
| `arcsettle/chain.py`, offline | `_STATE`, a copy of the gate's arithmetic, under one lock | would_revert, apply_settle, apply_redeem, set_reserves, set_now | |
| `arcsettle/chain.py`, live | none: which variables are set, and a node's answers | validate_chain_config, dry run, snapshot; apply_* refuse to broadcast | a node, by JSON-RPC |
| `arcsettle/main.py`, the agent | the one store of the process; a call is a sequence of steps | get_store, propose_settle, propose_redeem, status | the chain, offline or live, the limiter and the store |
| `agent_core/config.py`, `arcsettle/config.py` | the environment | the app's own variable over the shared one | |
| `agent_core/guardrails.py`, limiter | times of allowed actions, a counter per run, under one lock | check | the clock |
| `agent_core/state.py`, run store | a document per run, in memory, in Firestore or in a supplied backend; which, and whether degraded | create, start_run, and the calls that change a document: update, set_data, append, record_guardrail, detect_recurrence, set_status, fail | Firestore |
| `agent_core/sinks.py`, Notifier | the run it is bound to | send_alert, open_ticket | limiter, recorder, Slack, GitHub or an endpoint |
| `agent_core/router.py`, Router | none; a registry and tables | route | Notifier |
| `agent_core/demo.py` | a cycle: run, incidents, routes | run_demo | all of `agent_core` above |
| screens, runner, skills, MCP, page | see "Not modelled" | | |

What is hard here. On chain every call is atomic, so the interleavings are of *whole*
transactions by different parties, and of transactions with time and with the oracle:
an attestation signed, then relayed late; an oracle that fails, restates, or is
replaced while a debt is booked under its id; proposals and announcements overwritten,
forgotten, inherited or revoked; arithmetic left unchecked. Off chain, two threads
interleave between locked calls: between a pre-check and a submission, between a
submission and the record of it, between a reading of the clock and the lock; requests
are accepted and their answers lost; a store fails between two writes, or is another
store after a restart; a live snapshot is several requests, between which blocks are made.
`PROJECT.json` lists each hazard at its line with the properties that would catch it.

What makes each part correct:

* gate: claims add up; issue only within what is proven and not yet spent; no refund of
  headroom by redeeming; holders can always leave; the view is truthful; no change of
  oracle or freshness without its full notice.
* oracle: the figure in force is one an attestor signed, in order; no key speaks that
  holders had no notice of.
* both: claims are covered by USDC, up to what a late relay hides.
* agent: the record accounts for the ledger, but for the calls an exception cut short;
  only a failure leaves a run unconcluded; every call ends; the offline model keeps the
  gate's promise under threads; an earlier equal settlement in the window is noticed.
* live mode: a snapshot is no older than it says; a misconfigured mode costs nothing.
* configuration: the app's own variables win, also when they say no.
* store: a call on a document is atomic; no acknowledged write is lost unless the store said
  it could be; no call waits for ever.
* delivery: what is recorded as live was delivered, what is recorded as suppressed was not;
  every incident is put to the handlers its domain asks for; the caps hold.

## 2. Modules

| module | what it is |
|---|---|
| `ArcSettlement` | the gate: one action per external function, oracles as environment |
| `ArcSettlementHistory` | the gate with history variables, for promises about the past |
| `ProofBudget` | abstract: what a reserve gate promises (each proof is a budget, nothing is refunded) |
| `MCArcSettlement` | both together for TLC: the refinement `GateKeepsBudget` |
| `ArcSettlementProofs`, `ArcSettlementHistoryProofs` | the theorems about the gate, and about its past |
| `ReserveAttestationOracle`, `...History` | the oracle, and since when each key was known |
| `ArcSettle`, `ArcSettleHistory` | gate and oracle composed (two `INSTANCE`s over shared variables) with the USDC and the attestors; what was paid out, and observed |
| `ReserveAttestationOracleProofs`, `ArcSettleProofs` | the theorems about the oracle, and about both contracts |
| `ActionLimiter` | the limiter, as operators and actions the two below instantiate |
| `LiveChain` | live mode, as operators: configuration, dry run, snapshot, what a block answers |
| `OperatorAgent`, `MCOperatorAgent` | threads of the agent, offline or live, on the limiter and the store |
| `OperatorAgentProofs` | the theorems about the agent |
| `IncidentDesk`, `MCIncidentDesk` | cycles that route incidents and deliver them, on the limiter and the sinks |
| `IncidentDeskProofs`, `IncidentDeskCapsProofs` | the theorems about delivery, and about the limiter under it |
| `RunStore` | the store: choice of a backend, calls of several threads, failures, restarts |
| `AtomicStore` | abstract: what a store of runs promises (a call happens at once and at most once) |
| `RunStoreProofs` | theorems about the store |

### How they correspond to the code

*Transactions.* A Solidity call either completes or reverts with no effect, and every
oracle call is a STATICCALL, so an action is one call; its guard is the conjunction of
the conditions that would revert it, in no order. Checked arithmetic is a guard
(`totalSupply + amount <= UINT_MAX`); `unchecked` arithmetic is `Wrap`, modulo the word.
The pending oracle, bound and eta, always written together, are one record `proposal`.

*Oracles as the gate sees them.* `feed[o]` is what oracle `o` would answer: a status
and three numbers. `Publish`, `Restate` and `SetStatus` follow the mocks, `"malformed"` is
an address whose answer does not decode. Behind the real oracle, `ArcSettle` replaces
`feed` by the oracle's getters, and `GateSpec` checks that the gate then sees nothing its
own model does not already allow. That model lets an oracle restate a figure under an old
id, as the mock does; that the real one does not is a conjunct of `GateSpec` of its own.

*Signatures.* A digest is the record it hashes; a signature is a key and a digest;
`signed` is the set of all that exist, and any may be submitted at any time by
anybody. `ecrecover` answers the key for the digest signed and an unrelated address for
another. `_recover`'s checks are on the form the bytes come in.

*Threads.* In `OperatorAgent` a step is one locked call of the limiter, the offline model or
the store, or one request to the node. `thread[t].step` names what is due next. A run's
`guardrail`, `data`, `signed` and `recurrence` are kept so that every store write is a step of
its own. The hours of the limiter, and readings of the clock overtaken before its lock, are in
`IncidentDesk`.

*The agent's store* is made at the first call (`Create`): `get_store` looks for one and makes
one under `_store_lock`, held while the backend is pinged, so a second first call waits
(`StoreLockFree`; without it `agent` finds two stores). It is, by the environment:
memory, Firestore (`"remote"`), memory after a failed ping (`"degraded"`), or no store, in
which case the call raises. In memory a call cannot fail; a remote one may raise, applied or
not (`Write`), and the exception ends the agent's call, wherever it is. Only the search for
equal runs catches it. How the remote store is inside is `RunStore`.

*Recurrence* is a search, in the store the call got, and a write. In memory every equal run
is found; a remote search is given at most a page (`FindLimit`, 50 in the code), in no stated
order (`Found`); then the runs older than the window are dropped (`Recent`, seven days) and the
latest are named (`Latest`, ten), though all are counted. A run's `started_at` is the clock at
`start_run` and always parses, which leaves out the branch that skips those that do not.

*Environment.* A variable is unset, malformed, zero (the zero address), `"wrong"` (well formed,
but an account that is no settler, or an address without code) or ok.
`validate_chain_config` does not look at `settle_recipient`, the dry run does; both before
any request.

*Live requests.* `Contract` is the deployed gate's state per block, `NewBlock` makes the
next one. A dry run's request may raise, be answered by the contract at the latest block, or
by an error of the node's own, with a code or without (`DryRunAnswers`). `Refusal` is
how `chain.py:343-348` tells these apart: by the presence of a code, so that the
node's errors are refusals too, and recorded as `RESERVE_GATE` (`main.py:103`), and an error
without a code passes. `Reads` is the order of a snapshot's
requests, each answered at the block latest then. Nothing is ever broadcast: what would
go through raises (`chain.py:352-362`).

*Sums and lists.* The limiter's list of times is only filtered and counted, so it is a bag:
the copies of a time `s` are the pairs `<<s, 1>>, <<s, 2>>, ...`. A sum over runs is the
number of pairs (run, unit), a count over cycles that of pairs (cycle, action). Written so,
they are sizes of sets, which can be reasoned about without induction over data.

*Eviction.* `_evict` sorts by last use and breaks ties by insertion order; `Kept` leaves
ties open, so what is checked holds for any order.

*Destinations.* A configured sink's outcome is whether it accepted, what the caller makes of
it, whether the answer told an identifier, and whether one is reported: from GitHub always, as
"#" and the number or "#None" (`sinks.py:150`). A timeout or an unreadable answer is
"accepted, error". A text is the set of signals it matches, so classification takes the first
of them in the order of precedence and then of signals. A step of `IncidentDesk` runs up to
the next access to what cycles share. The recorder's failures are swallowed by the code and so
leave no state; a store that raises on `append` ends the cycle.

*The USDC reserve.* `vault` is what the reserve holds less what redeemers are still owed,
and may be negative; an attestor finds `found`, never less than nothing.

*Documents.* In `RunStore` a document is the set of the writes it shows. Firestore's part,
external, is: a transaction commits if what it read has not changed, is retried a bounded
number of times, and may raise whether or not it was applied.

*Names.* `Operator_Mistake` is `Operator` with a bug a programmer might make. No action
uses it: it shows that a property of a run notices that bug.

## 3. Runs

Passing runs, each explored exhaustively:

| run | question | instance |
|---|---|---|
| `claims` | do claims add up, are approvals kept, can holders leave, in an outage too? | 2 accounts, word 0..3, one proof, id getter failing at will |
| `debt` | is the debt netted exactly what the proof has not seen, and does the gate implement `ProofBudget`? | 2 accounts, word 0..5, three figures, three ids, restatements, other getters failing |
| `rotation` | can the oracle or the bound change without notice? | 2 oracles, 2 owners, timelock 2, window 1, six ticks; bounds proposed below, in and above the range |
| `oracle` | whose figure is in force, and who may speak? | 2 keys, 2 owners, 2 domains, 4 forms |
| `compose` | are claims covered by USDC, and how long does a revoked word live? | 1 holder, 1 key, two signatures, stamps in the past and future |
| `agent` | do record and ledger agree, is an earlier equal run noticed, does a misconfigured live mode cost nothing, does every call end? | 2 threads, 3 runs (2 where calls can fail or time has passed), one tick, one failing store call, seven environments, two blocks, limiter and table at their ceilings, one new attestation |
| `desk` | do records say what was delivered, is every route served, do the caps hold? | 2 cycles, 1 incident each and one more action, 3 actions an hour and 2 a run, one tick |
| `store` | is every call atomic, an acknowledged write kept, or its loss announced; does every call return? | 2 threads, 4 calls, 2 lives, every setting and backend, 2 attempts |

Why the bounds are enough to meet the hazards: two accounts give every aliasing of the
arguments of a transfer, self-transfer included; word sizes are small so that sums reach
the top of the word; timelocks and windows are short against `MaxTime` so that a proposal
can be early, ripe, expired, replaced and inherited in one behaviour; two proofs and a
first reading of id 0 or 1 give a debt booked under an older, the same and a later id;
two redemptions and a settlement fit under one proof; in `agent` the headroom fits one
of two equal proposals, so the second is refused at the pre-check or at the submission;
`MaxRuns` of 3 is enough for an equal settlement before two that overlap, and one tick against
a window of 0 for one at the window's edge and one past it (a full page of the remote search,
and a list of names too short for runs of different times, are in `RecurrenceIsSeen` only);
`MAX_TRACKED_CYCLES` of 0 puts the table at its ceiling with the first counter; where calls
can fail or time has passed there are two runs, and one failure (`MaxFallibleRuns`,
`MaxFailures`) puts an exception at every step of a call beside another,
and two blocks let a settlement that passed the first dry run revert at the second;
in `desk` six actions compete for three slots, a cycle can stall across the tick between
clock and lock, and the override sends infra incidents to a handler that does not exist
and one that refuses them; in `store` two threads meet on one document twice, so that a
transaction is retried and gives up, and the second life may find another backend.
`StartTime` exceeds the delays because block time does: time 0 means "never".
One account in `compose` is enough because neither contract lets two holders differ in
what it proves; the two-holder cases are in `claims`. Runs split the state (`claims`
has the token and one proof, `debt` the proofs and no approvals) to stay exhaustive.

Runs that end in a counterexample, each a sentence of the repository that the code does
not keep (details in `PROJECT.json`):

* `relay_lag`: a figure signed before a redemption and relayed after it clears the
  redemption's debt, though it has not "actually observed the USDC outflow". What does
  hold is `SolventUpToRelay`: claims exceed the USDC in the reserve by at most what was
  paid out between a figure's signing and its landing.
* `outage`: a redemption while `attestationId()` reverts is booked under the old id, so
  the *same* attestation clears it when it is readable again; the comment says headroom
  stays shut. A rotation compares ids of two oracles in the same way; this run, of one oracle,
  does not show that case.
* `dead_oracle`: an answer that does not decode reverts `redeem` itself, past its
  `try`; the comment says redemption is never blocked by the oracle. With that one
  exception `RedemptionAlwaysAvailable` holds and is proved.
* `quota`: of two threads after the same headroom, the one refused on submit has spent a
  slot of the limiter; the module's docstring says a refusal costs no quota.

Beside these, smaller divergences are visible in the models:

* The limiter evicts before it inserts, so its table stands at one over its "hard ceiling"
  (`guardrails.py:204`); the bound in `OperatorAgent`'s `TypeOK` is what holds.
* With more equal runs in Firestore than a page of the search, the page may be all old ones
  (`Found`), and a settlement repeated within the window gets no recurrence, which the docstring
  promises (`state.py:326-327`). Up to a page, `RecurrenceSeesEarlier` holds.
* A live node's own error refuses a settlement the contract would accept, in the name of
  `RESERVE_GATE` (`Refusal`), while `chain.py:11-12` says the reason is the contract's own.
  No property rules it out: none would hold.
* A GitHub answer without a number makes the artifact "#None", which no destination returned
  (`router.py:263-264`); `RecordsClaimOnlyDeliveries` therefore excepts GitHub (`Identified`).
* A request that times out after the destination accepted it is reported as synthetic,
  "nothing left the process" (`sinks.py:79-80`). `DeniedOnlyByError` is what does hold: only
  an "error" can hide a delivery.
* "Every decision passes agent-core's action guardrail and is recorded" (`main.py:11`):
  a redemption never meets the limiter, and a call whose store or node raises leaves its run
  "started" for ever. `OnlyFailuresOrphan` and `AuditMatchesLedger` are what holds.
* A dry run is called "authoritative" (`chain.py:358`). Against an address without code
  `eth_call` answers `0x`, and that counts as success.

`HourlyCap` and `CycleCap` count actions whose clock reading was not overtaken by a tick
while they waited for the lock: an overtaken one is entered with the older time and is
forgotten that much sooner. `CycleCap` holds for tables below their ceiling; past it a
run may get its quota back.

Deadlock is checked in every run but `desk`, whose cycles end.

*Fairness.* `EveryCallEnds`, `EveryCycleEnds` and `EveryCallReturns` assume weak
fairness of each thread's next step: the operating system schedules a running thread,
the locks are held for single calls that end, and requests have timeouts. `RunStore`'s
fallback lock is held across calls of a backend, so taking it has strong fairness: a lock
released again and again is granted in time. Starting a call is never fair, nor is a new
block or the service's recovery. The contracts promise nothing
that must happen: nobody is obliged to call them, so no fairness is assumed there.

## 4. Proofs

`ArcSettlementProofs` proves, from `GateAssumption` alone (finitely many accounts, a
zero address that is none of them, arguments within their types, block time past the
freshness ceiling):

* `TypeCorrect`: types, and the freshness bound between its limits.
* `SupplyIsConserved`: balances add up to `totalSupply`. The sum is the cardinality of
  the set of pairs (holder, i) with i up to the holder's balance, so that adding
  to a balance adds an interval of pairs, and lemmas on finite sets replace induction on
  the accounts. Inductive: `Conserved == TypeOK /\ ClaimsConserved`; types are needed
  because a sum outside the word would wrap, and conservation because it bounds every
  balance by `totalSupply`, which is why the unchecked additions never do wrap.
* `RedemptionIsAvailable`: redeem's one checked addition cannot overflow. Inductive:
  `RedeemInv == Conserved /\ DebtFits`, that claims and booked debt together fit in a word.
  The debt alone is not inductive: settle restores it against the reserves,
  redeem moves from claims to debt.
* `HeadroomIsExact`: from types alone, the view and `settle`, which compute the debt by
  different code, agree on every amount.
* `HeadroomComesFromProof`: if the id is always answered (`"noId" \notin Status`, kept
  by `IdAlwaysAnswered`), no issue, transfer or redemption raises the headroom. Without
  that assumption it is false, as `outage` shows.

`ArcSettlementHistoryProofs` proves, over the gate with its history:

* `ApprovalsBoundSpending`: `SpentWithinApproval`, with the types of the history.
* `ChangesHadNotice`: `ChangeHadFullNotice`. `NoticeInv` ties the eta of a standing proposal
  to the time since when it stands.
* `DebtIsExact` and `GateImplementsBudget`: `DebtIsExactlyUnseen` and the refinement
  `GateKeepsBudget`. Both assume what the code's comments take for granted and `outage`
  shows to be needed: the id is always answered (`"noId" \notin Status`) and one oracle stays
  in force (`OracleStays`). `DebtInv` says by cases which id
  the debt is booked under; the proof in force never has a lower one.

`ReserveAttestationOracleProofs` proves, from `OracleAssumption` alone:

* `OracleTypes`, `InForceIsSigned`, `ReadingMovesForward`. `OracleInv`: types, no announcement
  of the zero address (which a failed recovery yields), the figure in force is one of those
  signed, and its nonce is its id.
* `NobodyUnannouncedSigns`, `RegistrationInWindow`, `AcceptedFiguresHadNotice`. `NoticeInv`
  ties every standing announcement's eta to when it was announced: this is what a revocation
  that left the announcement standing would break.

`ArcSettleProofs` proves, from `ArcSettleAssumption` (those of both contracts):

* `GateMeetsItsModel`: the composition implements `GateSpec`. The gate's actions in the two
  instances are the same formula; each call of the oracle is one of the environment's
  actions of `ArcSettlement` or a stutter, and moves a reading only with the next id
  (`StepRaisesId`). Ids stay within the gate's model because every
  one has a signature of its own and signatures are counted (`ProofInv`). With it the gate's
  own invariants carry over.
* `ClaimsCoveredUpToRelay`: `SolventUpToRelay`. `SolventInv` relates every signature in the
  world to what was paid out before it was made (`Backed`): whichever lands next, its figure
  was in the reserve then. The lag is the most any landing has missed so far: claims issued
  under a late figure outlive it, so the figure in force alone bounds nothing. What was paid
  out and not observed is in the netted debt or in the lag, of which the debt is discharged
  only with the id that explains it.
* `RevokedWordDies`: `RevokedWordExpires`. `WordInv`: a figure is dated before the present
  when it lands, so before its key's revocation.

`OperatorAgentProofs` proves, from `AgentAssumption` alone, for any threads, runs, amounts,
environments, chains, and calls that fail at any point:

* `AgentTypes`. `AgentInv`: types, and that a call at a step has what the step goes on with
  (`Placed`): a run of its own, open and of its amount. The other theorems see a step through
  two views of it proved once: `Moves`, where a call can go next, why it stops and when an
  exception may end it, and `Writes`, what may happen to the documents, only the call's own.
  `Bounded`, that the limiter's table is finite and cut in time, is an invariant of its own.
* `RunsAreConcluded` (`Attended`: offline and without failures an open run has a thread),
  `SnapshotsStateTheOldest` (`ReadsInv`: requests are answered in order, the block number
  first), `MisconfiguredIsFree` (`StoppedInv`: no call gets past the pre-check).
* `RecurrenceIsSeen`: `RecurrenceSeesEarlier`. `OneStore`: only one thread makes a store, and
  every call is in that one. `SeenInv`: what was signed before a call began stays signed until
  the call has looked; what its search came to is then right of what is due (`Told`) and of what
  is named (`Names`), and stays so while time only shortens what is due (`DueShrinks`).
* `AuditAccountsForSupply`: `AuditMatchesLedger`. Which runs have made their change cannot
  be read off the state: a call cut short leaves a run that says "started" either way. The
  inductive invariant therefore names them (`\E made : Accounted(made)`): a call inside a run
  knows whether its run is among them (`Tells`), a concluded document says so (`Accounts`),
  and the supply is what they moved. Every step but the change itself leaves `made` alone,
  whatever fails; the change adds its own run, whose pairs are disjoint from the others'
  (`MovedOne`). What only `made` knows of are the `lost` runs of the property.
* `OfflineImplementsBudget`: every step of every thread is a step of `ProofBudget` or none.
  Inductive: debt is never booked under an attestation still to come (`BookedInv`). Here no
  `OracleStays` is needed: the offline model has one oracle.

`IncidentDeskProofs` proves, from `DeskAssumption` alone, whatever the limiter does:

* `DeskTypes`, `RecordsAreTrue`, `DenialsAreErrors`. `CycleInv` says the same of an incident
  being delivered as of those recorded: results and deliveries agree both ways (`Honest`), but
  for an identifier GitHub did not tell, and no delivery is ahead of the incident a cycle is at.
* `RoutesAreServed`: under `RoutingAsks` (the table asks for a ticket always, and for an
  alert for security and finance, as the default one does; an override that leaves them out
  says what it wants). A handler that can handle the domain is waiting or has a result
  (`Served`), whatever came of the others.

`IncidentDeskCapsProofs` proves that the limiter limits, for any number of cycles, incidents
and ticks, with the clock read before the lock. Both rest on `TimeInv`: a reading is not
ahead of the clock, nor behind what its own cycle was allowed.

* `HourIsCapped`: `HourlyCap`, from `DeskAssumption` alone. What a later check will count is
  `recent`, what the property counts is history: `ListInv` maps the actions of every hour not
  yet over one to one into `recent`, each to a copy of its own time (`Listed`). A stale
  reading cannot drop an entry such an hour still counts, and the length of `recent` never
  exceeds the cap. An hour that is over stays as it was.
* `CycleIsCapped`: `CycleCap`, if there are no more cycles than `MAX_TRACKED_CYCLES`
  (`Tracked`). The assumption is the code's own limit: past it `_evict` drops counters of
  runs in use, and TLC shows `CycleCap` violated. `TableInv`: the counter of a run is there
  while its lifetime lasts, and is not below the actions of any lifetime not yet over.

`RunStoreProofs` proves, from `StoreAssumption` alone, for any number of threads, calls,
attempts and lives of the process:

* `DurabilityIsNeverSilent`: `LossIsAnnounced`. Inductive: `StoreInv`, which adds that the
  store in use already says what its acknowledgements will say (`Announced`), and that no
  call runs while the process is down.
* `WritersDoNotLoseWrites`: `AcknowledgedWritesKept`. Alone it is not inductive, since the
  commit and the set that end a call replace a document. `KeepInv` adds what makes each
  replacement an addition: a call under the lock has read what is still there, and only one
  thread can be there; a started run has a mark no other call and no document has
  (`CallsHold`, `CallsAgree`, `RunsIssued`). Then documents only grow (`Grows`) while a
  process lives, one lemma per step, and a crash takes nothing Firestore holds.
* `StoreIsAtomic`: `CallsAreAtomic`, the refinement of `AtomicStore`. There a call is one
  step: it adds its mark to what the document holds *then*, or finds no document; it is
  answered in that step or never. The steps of a call that read, take the lock, give up a
  commit or raise before it map to stutters, the one that writes to `Apply`, a crash to `Lose`.
  That the write adds to the present document is `KeepInv`; that it is the call's first and
  only effect is `MarksApart`: the mark of a call in progress is in no document and no answer.
* `StoreTypes`: `TypeOK`, of which the point is the lock: `LockInv` says who holds it, step
  by step, so each way out of `_mutate` gives it back.

Only model-checked: `OwnSettingsWin`, which is a table of four variables and needs no
invariant; the three liveness properties (`EveryCallEnds`, `EveryCycleEnds`,
`EveryCallReturns`), which are out of the prover's reach under fairness; and the
counterexamples of the violation runs, which are small instances by nature. Every other
property of a passing run is a theorem.

## 5. Not modelled

* Events, names, decimals and gas of the contracts.
* `abi.py` and the SQL and content screens of `guardrails.py`: pure functions on bytes and
  text with no state, where a model would repeat the code.
* The command line, `_wei_fields` and the rendering of records and of `status`; the numbers,
  names and models of the configuration. They change no state and no property is about them.
* Runner, skills and MCP server: adapters, whose behaviour is their libraries'.
* `ActionLimiter.reset_cycle` has no caller and `tracked_cycles` only reads: the limiter is
  therefore `partly` modelled.
* A `Notifier` shared by concurrent cycles: no caller does so; `bind_run` (`sinks.py:58`)
  would then mix their quotas and records.
* The probes and printing of `demo.py`, and the browser simulation of `ui/index.html`.
* Attestors who lie about the figure: no contract can tell. (The *time* they put on it is
  free in the model.)
* Several agent processes on one Firestore: each has a limiter and an offline model of its
  own by design; what they share, the documents, is in `RunStore`.

## 6. Plan

Written first, because the gate is what the system is for: `ArcSettlement`, its history,
`ProofBudget`, the gate's proofs; then the oracle, the composition, the agent; then the
limiter, the desk and the store; then live mode, the environment and failing stores in the
agent, the proofs of every other component, and `AtomicStore` with its refinement. What is left:

1. An abstract rate limiter that `ActionLimiter` implements for clocks not overtaken.
2. `OperatorAgent` on `RunStore` itself instead of its outcomes, with restarts of the process
   between two calls.
