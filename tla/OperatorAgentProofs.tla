------------------------ MODULE OperatorAgentProofs -------------------------
(***************************************************************************)
(* Theorems about the operator agent: where its threads are, that what it  *)
(* records of a call is what happened, and that its records account for    *)
(* the supply, for any number of threads and runs, any environment, any    *)
(* chain, and calls that fail at any point.                                *)
(***************************************************************************)
EXTENDS OperatorAgent, FiniteSetsExt, SequenceTheorems, FiniteSetTheorems, TLAPS

------------------------------------------------------------------------------
(* Types, and what a call at a step has to go on with. *)

Kind == {"none", "settle", "redeem"}

Why == {"none", "AMOUNT_DOMAIN", "RESERVE_GATE", "ACTION_LIMITER", "REDEEM", "settle", "redeem"}

Statuses == {"started", "rejected", "refused", "blocked", "settled", "redeemed"}

Word == 0 .. UINT256_MAX

Chain == [reserves : Word, supply : Word, attested_at : Nat, now : Nat, attestation_id : Nat,
          pending_redemptions : Nat, redemption_debt_id : Nat]

\* What a search for equal runs comes to.
Memory == [count : Nat, prior_run_ids : SUBSET Nat]

Doc == [kind : Kind, amount : Int, store : Nat, status : Statuses, guardrail : Why,
        data : BOOLEAN, signed : BOOLEAN, recurrence : Memory, started_at : Nat,
        earlier : SUBSET Nat]

Frame == [step : Steps, kind : Kind, amount : Int, store : Nat, run : Nat, why : Why,
          prior : Memory, shows : BOOLEAN, reads : Seq(Nat)]

Typed ==
    /\ environ \in Environment
    /\ chain \in Chain
    /\ cycleCounts \in [DOMAIN cycleCounts -> [count : Nat, seen : Nat]]
    /\ store.id \in Nat
    /\ block \in DOMAIN Contract /\ clock \in Nat
    /\ failures \in Nat
    /\ runs \in Seq(Doc)
    /\ thread \in [Thread -> Frame]

\* In these steps a call has a run of its own that is not concluded.
InRun == Steps \ {"idle", "create", "start", "snapshot"}

Place(f, docs) ==
    /\ f.run \in 0 .. Len(docs)
    /\ f.step \in {"idle", "create", "start"} => f.run = 0
    /\ f.step = "idle" => f = Idle
    /\ f.step \in InRun =>
          f.run > 0 /\ docs[f.run].status = "started" /\ docs[f.run].amount = f.amount
    /\ f.step \in InRun \cup {"create", "start"} => f.kind # "none"
    /\ f.step \in {"precheck", "limit", "apply"} => f.amount > 0
    /\ f.step \in {"precheck", "limit"} => f.kind = "settle"
    /\ f.step \in {"guardrail", "data", "find", "sign", "status"} => f.why # "none"

Placed ==
    /\ \A t \in Thread : Place(thread[t], runs)
    /\ \A t, u \in Thread : t # u /\ Run(t) = Run(u) => Run(t) = 0

AgentInv == Typed /\ Placed

LEMMA IdlePlaced == Idle \in Frame /\ Idle.step = "idle" /\ Idle.run = 0
<1>1. <<>> \in Seq(Nat) /\ NoRecurrence \in Memory
  BY EmptySeq DEF NoRecurrence, Memory
<1> QED BY <1>1 DEF Idle, Frame, Steps, Kind, Why

LEMMA Decided ==
    ASSUME NEW w \in Why \ {"none"}
    PROVE  Decision[w] \in Statuses /\ Decision[w] # "started"
<1>1. /\ Decision["AMOUNT_DOMAIN"] = "rejected" /\ Decision["RESERVE_GATE"] = "refused"
      /\ Decision["ACTION_LIMITER"] = "blocked" /\ Decision["REDEEM"] = "refused"
      /\ Decision["settle"] = "settled" /\ Decision["redeem"] = "redeemed"
  BY DEF Decision
<1> QED BY <1>1 DEF Why, Statuses

LEMMA RunFacts ==
    ASSUME AgentInv
    PROVE  /\ Len(runs) \in Nat /\ RunId = 1 .. Len(runs) /\ DOMAIN runs = RunId
           /\ \A r \in RunId : runs[r] \in Doc
           /\ \A t \in Thread : thread[t] \in Frame
<1>1. runs \in Seq(Doc) /\ thread \in [Thread -> Frame]
  BY DEF AgentInv, Typed
<1>2. Len(runs) \in Nat /\ DOMAIN runs = 1 .. Len(runs) /\ runs \in [1 .. Len(runs) -> Doc]
  BY <1>1, LenProperties
<1> QED BY <1>1, <1>2 DEF RunId

\* The document of one run, changed.
LEMMA DocChange ==
    ASSUME AgentInv, NEW r \in RunId, NEW d \in Doc
    PROVE  /\ [runs EXCEPT ![r] = d] \in Seq(Doc)
           /\ Len([runs EXCEPT ![r] = d]) = Len(runs)
           /\ [runs EXCEPT ![r] = d][r] = d
           /\ \A q \in RunId \ {r} : [runs EXCEPT ![r] = d][q] = runs[q]
  BY ExceptSeq, RunFacts DEF AgentInv, Typed

\* Thread t goes on as f, on documents where only its own run may have changed.
LEMMA MoveKeeps ==
    ASSUME AgentInv, NEW t \in Thread, NEW f \in Frame, thread' = [thread EXCEPT ![t] = f],
           runs' \in Seq(Doc), Len(runs') >= Len(runs),
           \A r \in RunId : r # Run(t) => runs'[r] = runs[r],
           Place(f, runs'),
           f.run \in {0, Run(t)} \/ f.run > Len(runs)
    PROVE  /\ thread' \in [Thread -> Frame] /\ Placed'
           /\ thread'[t] = f /\ \A u \in Thread \ {t} : thread'[u] = thread[u]
<1>1. /\ thread' \in [Thread -> Frame] /\ thread'[t] = f
      /\ \A u \in Thread \ {t} : thread'[u] = thread[u]
  BY DEF AgentInv, Typed
<1>2. Len(runs) \in Nat /\ Len(runs') \in Nat /\ RunId = 1 .. Len(runs)
  BY RunFacts, LenProperties
<1>3. \A u \in Thread : Place(thread[u], runs) /\ thread[u].run \in 0 .. Len(runs)
  BY DEF AgentInv, Placed, Place
<1>4. ASSUME NEW u \in Thread \ {t}
      PROVE  Place(thread[u], runs') /\ (thread[u].run = f.run => f.run = 0)
  <2>1. thread[u].run = thread[t].run => thread[u].run = 0
    BY DEF AgentInv, Placed, Run
  <2>2. thread[u].run # 0 => runs'[thread[u].run] = runs[thread[u].run]
    BY <1>2, <1>3, <2>1 DEF Run
  <2>3. Place(thread[u], runs')
    BY <1>2, <1>3, <2>2 DEF Place
  <2>4. thread[u].run = f.run => f.run = 0
    BY <1>2, <1>3, <2>1 DEF Run, Frame
  <2> QED BY <2>3, <2>4
<1>5. \A u \in Thread : Place(thread'[u], runs')
  BY <1>1, <1>4
<1>6. \A u, v \in Thread : u # v /\ thread'[u].run = thread'[v].run => thread'[u].run = 0
  BY <1>1, <1>4 DEF AgentInv, Placed, Run
<1> QED BY <1>1, <1>5, <1>6 DEF Placed, Run

\* Between calls of the store: the documents stay.
LEMMA GoKeeps ==
    ASSUME AgentInv, NEW t \in Thread, NEW f \in Frame, thread' = [thread EXCEPT ![t] = f],
           UNCHANGED runs, Place(f, runs), f.run \in {0, Run(t)}
    PROVE  /\ thread' \in [Thread -> Frame] /\ Placed'
           /\ thread'[t] = f /\ \A u \in Thread \ {t} : thread'[u] = thread[u]
<1>1. runs' \in Seq(Doc) /\ Len(runs') >= Len(runs)
  BY RunFacts DEF AgentInv, Typed
<1> QED BY <1>1, MoveKeeps

\* An exception.
LEMMA RaiseKeeps ==
    ASSUME AgentInv, NEW t \in Thread, Raises(t), UNCHANGED runs
    PROVE  /\ thread' \in [Thread -> Frame] /\ Placed'
           /\ thread'[t] = Idle /\ \A u \in Thread \ {t} : thread'[u] = thread[u]
<1>1. Place(Idle, runs)
  BY IdlePlaced, RunFacts DEF Place, InRun
<1> QED BY <1>1, GoKeeps, IdlePlaced DEF Raises

\* A call of the store that writes docs, or fails before or after it does.
LEMMA WriteKeeps ==
    ASSUME AgentInv, NEW t \in Thread, NEW docs \in Seq(Doc), NEW f \in Frame,
           Write(t, docs, f), Len(docs) >= Len(runs),
           \A r \in RunId : r # Run(t) => docs[r] = runs[r],
           Place(f, docs), f.run \in {0, Run(t)} \/ f.run > Len(runs),
           UNCHANGED <<environ, chain, block, clock, recent, cycleCounts, store>>
    PROVE  AgentInv'
<1>1. runs \in Seq(Doc) /\ Len(runs) \in Nat /\ Len(docs) \in Nat /\ failures \in Nat
  BY LenProperties DEF AgentInv, Typed
<1>2. runs' \in Seq(Doc) /\ Len(runs') >= Len(runs) /\ failures' \in Nat
  BY <1>1 DEF Write
<1>3. \A r \in RunId : r # Run(t) => runs'[r] = runs[r]
  BY DEF Write
<1>4. thread' \in [Thread -> Frame] /\ Placed'
  <2>1. CASE runs' = docs /\ thread' = [thread EXCEPT ![t] = f]
    BY <1>2, <1>3, <2>1, MoveKeeps
  <2>2. CASE thread' = [thread EXCEPT ![t] = Idle]
    <3>1. Len(runs') \in Nat
      BY <1>2, LenProperties
    <3>2. Place(Idle, runs')
      BY <3>1, IdlePlaced DEF Place, InRun
    <3> QED BY <1>2, <1>3, <2>2, <3>2, IdlePlaced, MoveKeeps
  <2> QED BY <2>1, <2>2 DEF Write
<1> QED BY <1>2, <1>4 DEF AgentInv, Typed

\* A step that touches neither the store nor the chain.
LEMMA StepTyped ==
    ASSUME AgentInv, thread' \in [Thread -> Frame] /\ Placed',
           UNCHANGED <<environ, block, clock, store, runs, failures>>,
           chain' \in Chain,
           cycleCounts' \in [DOMAIN cycleCounts' -> [count : Nat, seen : Nat]]
    PROVE  AgentInv'
  BY DEF AgentInv, Typed

LEMMA FrameFacts ==
    ASSUME AgentInv, NEW t \in Thread
    PROVE  /\ thread[t] \in Frame /\ Place(thread[t], runs)
           /\ thread[t].amount \in Int /\ Units(t) \in Int
           /\ thread[t].amount > 0 => Units(t) > 0
<1>1. thread[t] \in Frame /\ Place(thread[t], runs)
  BY RunFacts DEF AgentInv, Placed
<1>2. thread[t].amount \in Int /\ ONE \in Nat \ {0}
  BY <1>1, AgentAssumption DEF Frame
<1>3. \A a \in Int, b \in Nat \ {0} : a * b \in Int /\ (a > 0 => a * b > 0)
  OBVIOUS
<1> QED BY <1>1, <1>2, <1>3 DEF Units

LEMMA GotoKeeps ==
    ASSUME AgentInv, NEW t \in Thread, NEW s \in InRun, thread[t].step \in InRun, Goto(t, s),
           UNCHANGED runs,
           s \in {"precheck", "limit", "apply"} => thread[t].amount > 0,
           s \in {"precheck", "limit"} => thread[t].kind = "settle",
           s \in {"guardrail", "data", "find", "sign", "status"} => thread[t].why # "none"
    PROVE  /\ thread' \in [Thread -> Frame] /\ Placed'
           /\ thread'[t] = [thread[t] EXCEPT !.step = s]
           /\ \A u \in Thread \ {t} : thread'[u] = thread[u]
<1> DEFINE f == [thread[t] EXCEPT !.step = s]
<1>1. thread[t] \in Frame /\ Place(thread[t], runs)
  BY FrameFacts
<1>2. f \in Frame /\ f.step = s
  BY <1>1 DEF Frame, InRun
<1>3. thread' = [thread EXCEPT ![t] = f]
  BY DEF Goto
<1>4. Place(f, runs) /\ f.run = Run(t)
  BY <1>1 DEF Place, Frame, InRun, Run
<1> HIDE DEF f
<1>5. /\ thread' \in [Thread -> Frame] /\ Placed' /\ thread'[t] = f
      /\ \A u \in Thread \ {t} : thread'[u] = thread[u]
  BY <1>2, <1>3, <1>4, GoKeeps
<1> QED BY <1>5 DEF f

LEMMA ConcludeKeeps ==
    ASSUME AgentInv, NEW t \in Thread, NEW w \in Why \ {"none"}, thread[t].step \in InRun,
           Conclude(t, w), UNCHANGED runs
    PROVE  /\ thread' \in [Thread -> Frame] /\ Placed'
           /\ thread'[t] = [thread[t] EXCEPT !.step = "guardrail", !.why = w,
                                    !.shows = At(t, "precheck") /\ Live!use_chain]
           /\ \A u \in Thread \ {t} : thread'[u] = thread[u]
<1> DEFINE shows == At(t, "precheck") /\ Live!use_chain
           f == [thread[t] EXCEPT !.step = "guardrail", !.why = w, !.shows = shows]
<1>1. thread[t] \in Frame /\ Place(thread[t], runs)
  BY FrameFacts
<1>2. shows \in BOOLEAN
  BY DEF At, Live!use_chain
<1>3. thread' = [thread EXCEPT ![t] = f]
  BY DEF Conclude
<1> HIDE DEF shows
<1>4. f \in Frame /\ f.step = "guardrail"
  BY <1>1, <1>2 DEF Frame, Steps
<1>5. Place(f, runs) /\ f.run = Run(t)
  BY <1>1 DEF Place, Frame, InRun, Run, Steps
<1> HIDE DEF f
<1>6. /\ thread' \in [Thread -> Frame] /\ Placed' /\ thread'[t] = f
      /\ \A u \in Thread \ {t} : thread'[u] = thread[u]
  BY <1>3, <1>4, <1>5, GoKeeps
<1> QED BY <1>6 DEF f, shows

LEMMA AppliedKeeps ==
    ASSUME AgentInv, NEW t \in Thread, thread[t].step = "apply", Applied(t), UNCHANGED runs
    PROVE  /\ thread' \in [Thread -> Frame] /\ Placed'
           /\ thread'[t] = [thread[t] EXCEPT !.step = "data", !.why = thread[t].kind]
           /\ \A u \in Thread \ {t} : thread'[u] = thread[u]
<1> DEFINE f == [thread[t] EXCEPT !.step = "data", !.why = thread[t].kind]
<1>1. thread[t] \in Frame /\ Place(thread[t], runs)
  BY FrameFacts
<1>2. f \in Frame /\ f.step = "data"
  BY <1>1 DEF Frame, Steps, Kind, Why
<1>3. thread' = [thread EXCEPT ![t] = f]
  BY DEF Applied
<1>4. Place(f, runs) /\ f.run = Run(t)
  BY <1>1 DEF Place, Frame, InRun, Run, Steps, Kind
<1> HIDE DEF f
<1>5. /\ thread' \in [Thread -> Frame] /\ Placed' /\ thread'[t] = f
      /\ \A u \in Thread \ {t} : thread'[u] = thread[u]
  BY <1>2, <1>3, <1>4, GoKeeps
<1> QED BY <1>5 DEF f

\* A call as it begins.
Opened(kind, amount) ==
    [Idle EXCEPT !.step = IF store = NoStore THEN "create" ELSE "start",
                 !.kind = kind, !.amount = amount, !.store = store.id]

LEMMA ProposeKeeps ==
    ASSUME AgentInv, NEW t \in Thread, NEW kind \in {"settle", "redeem"},
           NEW amount \in UsdcAmount, Propose(t, kind, amount)
    PROVE  /\ AgentInv'
           /\ thread'[t] = Opened(kind, amount)
           /\ \A u \in Thread \ {t} : thread'[u] = thread[u]
<1> DEFINE step == IF store = NoStore THEN "create" ELSE "start"
           f == [Idle EXCEPT !.step = step, !.kind = kind, !.amount = amount,
                             !.store = store.id]
<1>1. step \in {"create", "start"} /\ store.id \in Nat
  BY DEF AgentInv, Typed
<1>2. thread' = [thread EXCEPT ![t] = f]
  BY DEF Propose
<1> HIDE DEF step
<1>3. f \in Frame /\ f.step = step /\ f.run = 0 /\ f.kind = kind
  BY <1>1, IdlePlaced, AgentAssumption DEF Idle, Frame, Steps, Kind
<1>4. Place(f, runs)
  BY <1>1, <1>3, RunFacts DEF Place, InRun
<1> HIDE DEF f
<1>5. /\ thread' \in [Thread -> Frame] /\ Placed' /\ thread'[t] = f
      /\ \A u \in Thread \ {t} : thread'[u] = thread[u]
  BY <1>2, <1>3, <1>4, GoKeeps DEF Propose
<1>6. Typed'
  BY <1>5 DEF Propose, AgentInv, Typed
<1>7. f = Opened(kind, amount)
  BY DEF f, step, Opened
<1> QED BY <1>5, <1>6, <1>7 DEF AgentInv

LEMMA CreateKeeps ==
    ASSUME AgentInv, NEW t \in Thread, Create(t)
    PROVE  AgentInv'
<1>1. /\ thread[t] \in Frame /\ Place(thread[t], runs) /\ thread[t].step = "create"
      /\ store.id \in Nat
  BY FrameFacts DEF Create, At, AgentInv, Typed
<1>2. UNCHANGED <<environ, chain, block, clock, recent, cycleCounts, runs, failures>>
  BY DEF Create
<1>3. CASE Raises(t) /\ UNCHANGED store
  BY <1>2, <1>3, RaiseKeeps, StepTyped DEF AgentInv, Typed
<1>4. CASE /\ \E backend \in Backends \ {"none"} :
                store' = [id |-> store.id + 1, backend |-> backend]
           /\ thread' = [thread EXCEPT ![t].step = "start", ![t].store = store'.id]
  <2> DEFINE f == [thread[t] EXCEPT !.step = "start", !.store = store'.id]
  <2>1. store'.id \in Nat
    BY <1>1, <1>4
  <2>2. f \in Frame /\ f.step = "start" /\ f.run = Run(t) /\ f.kind = thread[t].kind
    BY <1>1, <2>1 DEF Frame, Steps, Run
  <2>3. thread' = [thread EXCEPT ![t] = f]
    BY <1>4
  <2> HIDE DEF f
  <2>4. Place(f, runs)
    BY <1>1, <2>2 DEF Place, InRun, Run, Steps
  <2>5. thread' \in [Thread -> Frame] /\ Placed'
    BY <1>2, <2>2, <2>3, <2>4, GoKeeps
  <2> QED BY <1>2, <2>1, <2>5 DEF AgentInv, Typed
<1> QED BY <1>3, <1>4 DEF Create

\* The document a call starts with.
NewDoc(t) ==
    [kind |-> thread[t].kind, amount |-> thread[t].amount, store |-> thread[t].store,
     status |-> "started", guardrail |-> "none", data |-> FALSE, signed |-> FALSE,
     recurrence |-> NoRecurrence, started_at |-> clock,
     earlier |-> Earlier(thread[t].amount)]

LEMMA BlockNat == AgentInv => block \in Nat /\ DOMAIN Contract = 1 .. Len(Contract)
<1>1. Contract \in Seq([supply : Nat, effective : Nat])
  BY AgentAssumption
<1>2. DOMAIN Contract = 1 .. Len(Contract) /\ Len(Contract) \in Nat
  BY <1>1, LenProperties
<1> QED BY <1>2 DEF AgentInv, Typed

LEMMA NewDocFacts ==
    ASSUME AgentInv, NEW t \in Thread
    PROVE  /\ NewDoc(t) \in Doc
           /\ Append(runs, NewDoc(t)) \in Seq(Doc)
           /\ Len(Append(runs, NewDoc(t))) = Len(runs) + 1
           /\ Append(runs, NewDoc(t))[Len(runs) + 1] = NewDoc(t)
           /\ \A r \in RunId : Append(runs, NewDoc(t))[r] = runs[r]
<1>1. thread[t] \in Frame
  BY FrameFacts
<1>2. block \in Nat /\ clock \in Nat /\ NoRecurrence \in Memory
  BY BlockNat, IdlePlaced DEF AgentInv, Typed, NoRecurrence, Memory
<1>3. Earlier(thread[t].amount) \in SUBSET Nat
  BY RunFacts DEF Earlier
<1>4. NewDoc(t) \in Doc
  BY <1>1, <1>2, <1>3 DEF NewDoc, Doc, Frame, Statuses, Why
<1>5. runs \in Seq(Doc)
  BY DEF AgentInv, Typed
<1> QED BY <1>4, <1>5, RunFacts

LEMMA StartRunKeeps ==
    ASSUME AgentInv, NEW t \in Thread, StartRun(t)
    PROVE  AgentInv'
<1> DEFINE f == [thread[t] EXCEPT !.step = "domain", !.run = Len(runs) + 1]
           docs == Append(runs, NewDoc(t))
<1>1. thread[t] \in Frame /\ Place(thread[t], runs) /\ thread[t].step = "start"
  BY FrameFacts DEF StartRun, At
<1>2. Len(runs) \in Nat /\ RunId = 1 .. Len(runs)
  BY RunFacts
<1>3. /\ f \in Frame /\ f.step = "domain" /\ f.run = Len(runs) + 1
      /\ f.amount = thread[t].amount /\ f.kind = thread[t].kind /\ f.store = thread[t].store
  <2>1. "domain" \in Steps /\ Len(runs) + 1 \in Nat
    BY <1>2 DEF Steps
  <2> QED BY <1>1, <2>1 DEF Frame
<1>4. /\ docs \in Seq(Doc) /\ Len(docs) = Len(runs) + 1
      /\ \A r \in RunId : docs[r] = runs[r]
      /\ docs[Len(runs) + 1].status = "started"
      /\ docs[Len(runs) + 1].amount = thread[t].amount
  <2>1. NewDoc(t).status = "started" /\ NewDoc(t).amount = thread[t].amount
    BY DEF NewDoc
  <2> QED BY <2>1, NewDocFacts
<1>5. Write(t, docs, f)
  BY DEF StartRun, NewDoc, Write
<1>6. UNCHANGED <<environ, chain, block, clock, recent, cycleCounts, store>>
  BY DEF StartRun
<1> HIDE DEF f, docs
<1>7. Place(f, docs)
  BY <1>1, <1>2, <1>3, <1>4 DEF Place, InRun, Steps
<1> QED BY <1>2, <1>3, <1>4, <1>5, <1>6, <1>7, WriteKeeps

LEMMA CheckDomainKeeps ==
    ASSUME AgentInv, NEW t \in Thread, CheckDomain(t)
    PROVE  AgentInv'
<1>1. /\ thread[t] \in Frame /\ Place(thread[t], runs) /\ thread[t].step = "domain"
      /\ thread[t].amount \in Int /\ thread[t].kind \in {"settle", "redeem"}
  BY FrameFacts DEF CheckDomain, At, Place, InRun, Steps, Frame, Kind
<1>2. /\ "domain" \in InRun /\ "apply" \in InRun /\ "precheck" \in InRun
      /\ "AMOUNT_DOMAIN" \in Why \ {"none"}
  BY DEF InRun, Steps, Why
<1>3. UNCHANGED <<environ, chain, block, clock, recent, cycleCounts, store, runs, failures>>
  BY DEF CheckDomain
<1>4. thread' \in [Thread -> Frame] /\ Placed'
  <2>1. CASE Conclude(t, "AMOUNT_DOMAIN")
    BY <1>1, <1>2, <1>3, <2>1, ConcludeKeeps
  <2>2. CASE Goto(t, "apply") /\ thread[t].amount > 0
    BY <1>1, <1>2, <1>3, <2>2, GotoKeeps
  <2>3. CASE Goto(t, "precheck") /\ thread[t].amount > 0 /\ thread[t].kind # "redeem"
    BY <1>1, <1>2, <1>3, <2>3, GotoKeeps
  <2> QED BY <1>1, <2>1, <2>2, <2>3 DEF CheckDomain
<1> QED BY <1>3, <1>4, StepTyped DEF AgentInv, Typed

\* What asking the chain comes to.
LEMMA AskChainKinds ==
    ASSUME NEW t, NEW GoesOn, AskChain(t, GoesOn)
    PROVE  \/ Raises(t)
           \/ GoesOn /\ Live!DryRunReady
           \/ Conclude(t, "RESERVE_GATE") /\ Live!DryRunReady
  BY DEF AskChain, Live!DryRun

LEMMA PrecheckKeeps ==
    ASSUME AgentInv, NEW t \in Thread, Precheck(t)
    PROVE  AgentInv'
<1>1. /\ thread[t].step = "precheck" /\ Place(thread[t], runs)
      /\ thread[t].amount > 0 /\ thread[t].kind = "settle"
  BY FrameFacts DEF Precheck, At, Place
<1>2. "precheck" \in InRun /\ "limit" \in InRun /\ "RESERVE_GATE" \in Why \ {"none"}
  BY DEF InRun, Steps, Why
<1>3. UNCHANGED <<environ, chain, block, clock, recent, cycleCounts, store, runs, failures>>
  BY DEF Precheck
<1>4. thread' \in [Thread -> Frame] /\ Placed'
  <2>1. CASE Conclude(t, "RESERVE_GATE")
    BY <1>1, <1>2, <1>3, <2>1, ConcludeKeeps
  <2>2. CASE Goto(t, "limit")
    BY <1>1, <1>2, <1>3, <2>2, GotoKeeps
  <2>3. CASE Raises(t)
    BY <1>3, <2>3, RaiseKeeps
  <2> QED BY <2>1, <2>2, <2>3, AskChainKinds DEF Precheck
<1> QED BY <1>3, <1>4, StepTyped DEF AgentInv, Typed

LEMMA LimiterTypes ==
    ASSUME cycleCounts \in [DOMAIN cycleCounts -> [count : Nat, seen : Nat]], NEW run,
           clock \in Nat,
           Limiter!CheckAllows(run, clock) \/ Limiter!CheckBlocks(run, clock)
           \/ UNCHANGED cycleCounts
    PROVE  cycleCounts' \in [DOMAIN cycleCounts' -> [count : Nat, seen : Nat]]
<1>1. ASSUME NEW kept \in SUBSET DOMAIN cycleCounts,
             \/ cycleCounts' = Limiter!Counted(run, clock, kept)
             \/ cycleCounts' = [r \in kept |-> cycleCounts[r]]
      PROVE  cycleCounts' \in [DOMAIN cycleCounts' -> [count : Nat, seen : Nat]]
  <2>1. \A r \in DOMAIN cycleCounts : cycleCounts[r].count \in Nat
    OBVIOUS
  <2>2. Limiter!Used(run, kept) + 1 \in Nat
    BY <2>1 DEF Limiter!Used
  <2>3. Limiter!Counted(run, clock, kept) \in [kept \cup {run} -> [count : Nat, seen : Nat]]
    BY <2>2 DEF Limiter!Counted
  <2>4. [r \in kept |-> cycleCounts[r]] \in [kept -> [count : Nat, seen : Nat]]
    OBVIOUS
  <2> QED BY <1>1, <2>3, <2>4
<1>2. \A kept \in Limiter!Kept(clock) : kept \subseteq DOMAIN cycleCounts
  BY DEF Limiter!Kept
<1> QED BY <1>1, <1>2 DEF Limiter!CheckAllows, Limiter!CheckBlocks

LEMMA CheckLimiterKeeps ==
    ASSUME AgentInv, NEW t \in Thread, CheckLimiter(t)
    PROVE  AgentInv'
<1>1. /\ thread[t].step = "limit" /\ Place(thread[t], runs)
      /\ thread[t].amount > 0 /\ thread[t].kind = "settle"
  BY FrameFacts DEF CheckLimiter, At, Place
<1>2. "limit" \in InRun /\ "apply" \in InRun /\ "ACTION_LIMITER" \in Why \ {"none"}
  BY DEF InRun, Steps, Why
<1>3. UNCHANGED <<environ, chain, block, clock, store, runs, failures>>
  BY DEF CheckLimiter
<1>4. thread' \in [Thread -> Frame] /\ Placed'
  <2>1. CASE Conclude(t, "ACTION_LIMITER")
    BY <1>1, <1>2, <1>3, <2>1, ConcludeKeeps
  <2>2. CASE Goto(t, "apply")
    BY <1>1, <1>2, <1>3, <2>2, GotoKeeps
  <2> QED BY <2>1, <2>2 DEF CheckLimiter
<1>5. cycleCounts' \in [DOMAIN cycleCounts' -> [count : Nat, seen : Nat]]
  BY LimiterTypes DEF CheckLimiter, AgentInv, Typed
<1> QED BY <1>3, <1>4, <1>5, StepTyped DEF AgentInv, Typed

LEMMA SettledTypes ==
    ASSUME chain \in Chain, NEW amount \in Nat, ~would_revert(amount)
    PROVE  Settled(amount) \in Chain
<1>1. chain.supply + amount \in Word
  <2>1. chain.supply \in Word /\ UINT256_MAX \in Nat
    BY AgentAssumption DEF Chain
  <2>2. ~(chain.supply + amount > UINT256_MAX)
    BY DEF would_revert
  <2> QED BY <2>1, <2>2 DEF Word
<1> QED BY <1>1 DEF Settled, Chain

LEMMA RedeemedTypes ==
    ASSUME chain \in Chain, NEW amount \in Nat, amount <= chain.supply
    PROVE  Redeemed(amount) \in Chain
<1>1. chain.supply - amount \in Word /\ chain.pending_redemptions + amount \in Nat
  <2>1. chain.supply \in Word /\ UINT256_MAX \in Nat /\ chain.pending_redemptions \in Nat
    BY AgentAssumption DEF Chain
  <2> QED BY <2>1 DEF Word
<1> QED BY <1>1 DEF Redeemed, Chain

LEMMA ApplyKeeps ==
    ASSUME AgentInv, NEW t \in Thread, ApplySettle(t) \/ ApplyRedeem(t)
    PROVE  AgentInv'
<1>1. thread[t].step = "apply" /\ Units(t) \in Nat /\ chain \in Chain
  BY FrameFacts DEF ApplySettle, ApplyRedeem, At, Place, AgentInv, Typed
<1>2. "apply" \in InRun /\ {"RESERVE_GATE", "REDEEM"} \subseteq Why \ {"none"}
  BY DEF InRun, Steps, Why
<1>3. UNCHANGED <<environ, block, clock, recent, cycleCounts, store, runs, failures>>
  BY DEF ApplySettle, ApplyRedeem
<1>4. thread' \in [Thread -> Frame] /\ Placed'
  <2>1. ASSUME NEW w \in {"RESERVE_GATE", "REDEEM"}, Conclude(t, w)
        PROVE  thread' \in [Thread -> Frame] /\ Placed'
    BY <1>1, <1>2, <1>3, <2>1, ConcludeKeeps
  <2>2. CASE Applied(t)
    BY <1>1, <1>3, <2>2, AppliedKeeps
  <2> QED BY <2>1, <2>2 DEF ApplySettle, ApplyRedeem
<1>5. chain' \in Chain
  <2>1. CASE ApplySettle(t)
    BY <1>1, <2>1, SettledTypes DEF ApplySettle
  <2>2. CASE ApplyRedeem(t)
    <3>1. CASE Units(t) > UINT256_MAX \/ Units(t) > chain.supply
      BY <1>1, <2>2, <3>1 DEF ApplyRedeem
    <3>2. CASE ~(Units(t) > UINT256_MAX \/ Units(t) > chain.supply)
      <4>1. Units(t) <= chain.supply
        BY <1>1, <3>2 DEF Chain, Word
      <4> QED BY <1>1, <2>2, <3>2, <4>1, RedeemedTypes DEF ApplyRedeem
    <3> QED BY <3>1, <3>2
  <2> QED BY <2>1, <2>2
<1> QED BY <1>3, <1>4, <1>5, StepTyped DEF AgentInv, Typed

LEMMA ApplyLiveKeeps ==
    ASSUME AgentInv, NEW t \in Thread, ApplyLive(t)
    PROVE  AgentInv'
<1>1. thread[t].step = "apply"
  BY DEF ApplyLive, At
<1>2. "apply" \in InRun /\ "RESERVE_GATE" \in Why \ {"none"}
  BY DEF InRun, Steps, Why
<1>3. UNCHANGED <<environ, chain, block, clock, recent, cycleCounts, store, runs, failures>>
  BY DEF ApplyLive
<1>4. thread' \in [Thread -> Frame] /\ Placed'
  <2>1. CASE Conclude(t, "RESERVE_GATE")
    BY <1>1, <1>2, <1>3, <2>1, ConcludeKeeps
  <2>2. CASE Raises(t)
    BY <1>3, <2>2, RaiseKeeps
  <2> QED BY <2>1, <2>2, AskChainKinds DEF ApplyLive
<1> QED BY <1>3, <1>4, StepTyped DEF AgentInv, Typed

\* The document of the thread's own run is written as d, and the call goes on as f.
LEMMA DocWriteKeeps ==
    ASSUME AgentInv, NEW t \in Thread, thread[t].step \in InRun,
           NEW d \in Doc, d.amount = runs[Run(t)].amount,
           NEW f \in Frame,
           \/ f = Idle
           \/ f.run = Run(t) /\ f.step = "snapshot"
           \/ /\ f.run = Run(t) /\ f.step \in {"find", "sign", "status"}
              /\ f.kind = thread[t].kind /\ f.amount = thread[t].amount
              /\ f.store = thread[t].store /\ f.why = thread[t].why
              /\ f.why # "none" /\ d.status = "started",
           Write(t, [runs EXCEPT ![Run(t)] = d], f),
           UNCHANGED <<environ, chain, block, clock, recent, cycleCounts, store>>
    PROVE  AgentInv'
<1> DEFINE docs == [runs EXCEPT ![Run(t)] = d]
<1>1. thread[t] \in Frame /\ Place(thread[t], runs) /\ Run(t) \in RunId
  BY FrameFacts, RunFacts DEF Place, Run
<1>2. /\ docs \in Seq(Doc) /\ Len(docs) = Len(runs) /\ docs[Run(t)] = d
      /\ \A r \in RunId \ {Run(t)} : docs[r] = runs[r]
  BY <1>1, DocChange
<1>3. Len(runs) \in Nat /\ RunId = 1 .. Len(runs)
  BY RunFacts
<1>4. Write(t, docs, f)
  OBVIOUS
<1> HIDE DEF docs
<1>5. Place(f, docs) /\ f.run \in {0, Run(t)}
  BY <1>1, <1>2, <1>3, IdlePlaced DEF Place, InRun, Steps, Run
<1> QED BY <1>2, <1>3, <1>4, <1>5, WriteKeeps

LEMMA OwnDoc ==
    ASSUME AgentInv, NEW t \in Thread, thread[t].step \in InRun
    PROVE  /\ Run(t) \in RunId /\ runs[Run(t)] \in Doc /\ runs[Run(t)].status = "started"
           /\ runs[Run(t)].amount = thread[t].amount
           /\ thread[t].kind \in {"settle", "redeem"}
<1>1. thread[t] \in Frame /\ Place(thread[t], runs)
  BY FrameFacts
<1> QED BY <1>1, RunFacts DEF Place, Run, Frame, Kind

LEMMA RecordGuardrailKeeps ==
    ASSUME AgentInv, NEW t \in Thread, RecordGuardrail(t)
    PROVE  AgentInv'
<1> DEFINE d == [runs[Run(t)] EXCEPT !.guardrail = thread[t].why]
           f == [thread[t] EXCEPT !.step = "status"]
<1>1. /\ thread[t] \in Frame /\ thread[t].step = "guardrail" /\ thread[t].step \in InRun
      /\ thread[t].why # "none"
  BY FrameFacts DEF RecordGuardrail, At, InRun, Steps, Place
<1>2. d \in Doc /\ d.amount = runs[Run(t)].amount /\ d.status = "started"
  BY <1>1, OwnDoc DEF Doc, Frame
<1>3. /\ f \in Frame /\ f.step = "status" /\ f.run = Run(t) /\ f.why = thread[t].why
      /\ f.kind = thread[t].kind /\ f.amount = thread[t].amount /\ f.store = thread[t].store
  BY <1>1 DEF Frame, Steps, Run
<1>4. Write(t, [runs EXCEPT ![Run(t)] = d], f)
  BY DEF RecordGuardrail, Write
<1>5. UNCHANGED <<environ, chain, block, clock, recent, cycleCounts, store>>
  BY DEF RecordGuardrail
<1> HIDE DEF d, f
<1> QED BY <1>1, <1>2, <1>3, <1>4, <1>5, DocWriteKeeps

LEMMA SetDataKeeps ==
    ASSUME AgentInv, NEW t \in Thread, SetData(t)
    PROVE  AgentInv'
<1> DEFINE next == IF thread[t].kind = "settle" THEN "find" ELSE "status"
           d == [runs[Run(t)] EXCEPT !.data = TRUE]
           f == [thread[t] EXCEPT !.step = next]
<1>1. /\ thread[t] \in Frame /\ thread[t].step \in InRun /\ thread[t].why # "none"
  BY FrameFacts DEF SetData, At, InRun, Steps, Place
<1>2. d \in Doc /\ d.amount = runs[Run(t)].amount /\ d.status = "started"
  BY <1>1, OwnDoc DEF Doc
<1>3. Write(t, [runs EXCEPT ![Run(t)] = d], f)
  BY DEF SetData, Write
<1>4. next \in {"find", "status"}
  OBVIOUS
<1>5. UNCHANGED <<environ, chain, block, clock, recent, cycleCounts, store>>
  BY DEF SetData
<1> HIDE DEF d, next
<1>6. /\ f \in Frame /\ f.step = next /\ f.run = Run(t) /\ f.why = thread[t].why
      /\ f.kind = thread[t].kind /\ f.amount = thread[t].amount /\ f.store = thread[t].store
  BY <1>1, <1>4 DEF Frame, Steps, Run
<1> HIDE DEF f
<1> QED BY <1>1, <1>2, <1>3, <1>4, <1>5, <1>6, DocWriteKeeps

LEMMA Searches ==
    ASSUME AgentInv, NEW t, NEW found \in Found(t), NEW ids \in Latest(Recent(found))
    PROVE  /\ found \subseteq Matches(t) /\ Recent(found) \subseteq found
           /\ Matches(t) \subseteq RunId /\ ids \subseteq Recent(found)
           /\ IsFiniteSet(Recent(found)) /\ IsFiniteSet(Matches(t))
           /\ Recurrence(Recent(found), ids) \in Memory
           /\ Recurrence(Recent(found), ids).prior_run_ids \subseteq ids
           /\ Recurrence(Recent(found), ids).prior_run_ids \subseteq Recent(found)
<1>1. found \subseteq Matches(t) /\ Recent(found) \subseteq found /\ ids \subseteq Recent(found)
  BY DEF Found, Recent, Latest
<1>2. Matches(t) \subseteq RunId /\ RunId \subseteq Nat /\ IsFiniteSet(RunId)
  BY RunFacts, FS_Interval DEF Matches, Earlier
<1>3. IsFiniteSet(Recent(found)) /\ IsFiniteSet(Matches(t))
  BY <1>1, <1>2, FS_Subset
<1>4. Cardinality(Recent(found)) + 1 \in Nat /\ ids \in SUBSET Nat
  <2>1. Cardinality(Recent(found)) \in Nat
    BY <1>3, FS_CardinalityType
  <2>2. ids \in SUBSET Nat
    BY <1>1, <1>2
  <2> QED BY <2>1, <2>2
<1>5. Recurrence(Recent(found), ids) \in Memory
  BY <1>4, IdlePlaced DEF Recurrence, NoRecurrence, Memory
<1>6. Recurrence(Recent(found), ids).prior_run_ids \subseteq ids
  BY DEF Recurrence, NoRecurrence
<1> QED BY <1>1, <1>2, <1>3, <1>5, <1>6

LEMMA FindPriorKeeps ==
    ASSUME AgentInv, NEW t \in Thread, FindPrior(t)
    PROVE  AgentInv'
<1>1. /\ thread[t] \in Frame /\ thread[t].step \in InRun /\ thread[t].why # "none"
      /\ Place(thread[t], runs)
  BY FrameFacts DEF FindPrior, At, InRun, Steps, Place
<1>2. UNCHANGED <<environ, chain, block, clock, recent, cycleCounts, store, runs>>
  BY DEF FindPrior
<1>3. "sign" \in InRun
  BY DEF InRun, Steps
<1>4. thread' \in [Thread -> Frame] /\ Placed'
  <2>1. ASSUME NEW m \in Memory,
               thread' = [thread EXCEPT ![t].step = "sign", ![t].prior = m]
        PROVE  thread' \in [Thread -> Frame] /\ Placed'
    <3> DEFINE f == [thread[t] EXCEPT !.step = "sign", !.prior = m]
    <3>1. /\ f \in Frame /\ f.step = "sign" /\ f.run = Run(t) /\ f.why = thread[t].why
          /\ f.kind = thread[t].kind /\ f.amount = thread[t].amount
          /\ f.store = thread[t].store
      BY <1>1 DEF Frame, Steps, Run
    <3>2. thread' = [thread EXCEPT ![t] = f]
      BY <2>1
    <3> HIDE DEF f
    <3>3. Place(f, runs)
      BY <1>1, <3>1 DEF Place, InRun, Steps, Run
    <3> QED BY <1>2, <3>1, <3>2, <3>3, GoKeeps
  <2>2. CASE Goto(t, "sign")
    BY <1>1, <1>2, <1>3, <2>2, GotoKeeps
  <2> QED BY <2>1, <2>2, Searches DEF FindPrior
<1>5. failures' \in Nat
  BY DEF FindPrior, AgentInv, Typed
<1> QED BY <1>2, <1>4, <1>5 DEF AgentInv, Typed

LEMMA SignKeeps ==
    ASSUME AgentInv, NEW t \in Thread, Sign(t)
    PROVE  AgentInv'
<1> DEFINE d == [runs[Run(t)] EXCEPT !.signed = TRUE, !.recurrence = thread[t].prior]
           f == [thread[t] EXCEPT !.step = "status"]
<1>1. /\ thread[t] \in Frame /\ thread[t].step \in InRun /\ thread[t].why # "none"
  BY FrameFacts DEF Sign, At, InRun, Steps, Place
<1>2. d \in Doc /\ d.amount = runs[Run(t)].amount /\ d.status = "started"
  BY <1>1, OwnDoc DEF Doc, Frame
<1>3. /\ f \in Frame /\ f.step = "status" /\ f.run = Run(t) /\ f.why = thread[t].why
      /\ f.kind = thread[t].kind /\ f.amount = thread[t].amount /\ f.store = thread[t].store
  BY <1>1 DEF Frame, Steps, Run
<1>4. Write(t, [runs EXCEPT ![Run(t)] = d], f)
  BY DEF Sign, Write
<1>5. UNCHANGED <<environ, chain, block, clock, recent, cycleCounts, store>>
  BY DEF Sign
<1> HIDE DEF d, f
<1> QED BY <1>1, <1>2, <1>3, <1>4, <1>5, DocWriteKeeps

LEMMA SetStatusKeeps ==
    ASSUME AgentInv, NEW t \in Thread, SetStatus(t)
    PROVE  AgentInv'
<1> DEFINE d == [runs[Run(t)] EXCEPT !.status = Decision[thread[t].why]]
           f == IF thread[t].shows THEN [thread[t] EXCEPT !.step = "snapshot"] ELSE Idle
<1>1. /\ thread[t] \in Frame /\ thread[t].step \in InRun
      /\ thread[t].why \in Why \ {"none"}
  BY FrameFacts DEF SetStatus, At, InRun, Steps, Place, Frame
<1>2. d \in Doc /\ d.amount = runs[Run(t)].amount
  BY <1>1, OwnDoc, Decided DEF Doc
<1>3. f \in Frame /\ (f = Idle \/ (f.step = "snapshot" /\ f.run = Run(t)))
  BY <1>1, IdlePlaced DEF Frame, Steps, Run
<1>4. Write(t, [runs EXCEPT ![Run(t)] = d], f)
  BY DEF SetStatus, Write
<1>5. UNCHANGED <<environ, chain, block, clock, recent, cycleCounts, store>>
  BY DEF SetStatus
<1> HIDE DEF d, f
<1> QED BY <1>1, <1>2, <1>3, <1>4, <1>5, DocWriteKeeps

LEMMA StatusKeeps ==
    ASSUME AgentInv, NEW t \in Thread, Status(t)
    PROVE  AgentInv'
<1> DEFINE f == [thread[t] EXCEPT !.step = "snapshot"]
<1>1. thread[t] \in Frame /\ Place(thread[t], runs) /\ thread[t].step = "idle"
  BY FrameFacts DEF Status, At
<1>2. UNCHANGED <<environ, chain, block, clock, recent, cycleCounts, store, runs, failures>>
  BY DEF Status
<1>3. CASE UNCHANGED thread
  BY <1>2, <1>3 DEF AgentInv, Typed, Placed, Run
<1>4. CASE Goto(t, "snapshot")
  <2>1. f \in Frame /\ f.step = "snapshot" /\ f.run = Run(t)
    BY <1>1 DEF Frame, Steps, Run
  <2>2. thread' = [thread EXCEPT ![t] = f]
    BY <1>4 DEF Goto
  <2> HIDE DEF f
  <2>3. Place(f, runs)
    BY <1>1, <2>1 DEF Place, InRun, Run
  <2>4. thread' \in [Thread -> Frame] /\ Placed'
    BY <1>2, <2>1, <2>2, <2>3, GoKeeps
  <2> QED BY <1>2, <2>4, StepTyped DEF AgentInv, Typed
<1> QED BY <1>3, <1>4 DEF Status

LEMMA SnapshotKeeps ==
    ASSUME AgentInv, NEW t \in Thread, Snapshot(t)
    PROVE  AgentInv'
<1> DEFINE f == [thread[t] EXCEPT !.reads = Append(@, block)]
<1>1. thread[t] \in Frame /\ Place(thread[t], runs) /\ thread[t].step = "snapshot"
  BY FrameFacts DEF Snapshot, At
<1>2. UNCHANGED <<environ, chain, block, clock, recent, cycleCounts, store, runs, failures>>
  BY DEF Snapshot
<1>3. CASE Raises(t)
  BY <1>2, <1>3, RaiseKeeps, StepTyped DEF AgentInv, Typed
<1>4. CASE thread' = [thread EXCEPT ![t].reads = Append(@, block)]
  <2>1. Append(thread[t].reads, block) \in Seq(Nat)
    BY <1>1, BlockNat DEF Frame
  <2>2. f \in Frame /\ f.step = "snapshot" /\ f.run = Run(t)
    BY <1>1, <2>1 DEF Frame, Run
  <2>3. thread' = [thread EXCEPT ![t] = f]
    BY <1>4
  <2> HIDE DEF f
  <2>4. Place(f, runs)
    BY <1>1, <2>2 DEF Place, InRun, Run
  <2>5. thread' \in [Thread -> Frame] /\ Placed'
    BY <1>2, <2>2, <2>3, <2>4, GoKeeps
  <2> QED BY <1>2, <2>5, StepTyped DEF AgentInv, Typed
<1> QED BY <1>3, <1>4 DEF Snapshot

\* The rest of the process, and the chain.
OtherNext ==
    \/ \E r \in Figure, ts \in ChainTime : SetReserves(r, ts)
    \/ \E ts \in ChainTime : SetNow(ts)
    \/ NewBlock
    \/ Tick

LEMMA OtherKinds ==
    ASSUME OtherNext \/ UNCHANGED vars
    PROVE  /\ UNCHANGED <<environ, recent, cycleCounts, store, runs, thread, failures>>
           /\ clock' = clock \/ clock' = clock + 1
           /\ \/ UNCHANGED <<chain, block>>
              \/ UNCHANGED chain /\ block < Len(Contract) /\ block' = block + 1
              \/ /\ UNCHANGED block
                 /\ \/ \E r \in Figure, ts \in ChainTime : SetReserves(r, ts)
                    \/ \E ts \in ChainTime : SetNow(ts)
<1> DEFINE rest == <<environ, recent, cycleCounts, store, runs, thread, failures>>
<1>1. ASSUME NEW r \in Figure, NEW ts \in ChainTime, SetReserves(r, ts)
      PROVE  UNCHANGED rest /\ UNCHANGED <<block, clock>>
  BY <1>1 DEF SetReserves
<1>2. ASSUME NEW ts \in ChainTime, SetNow(ts)
      PROVE  UNCHANGED rest /\ UNCHANGED <<block, clock>>
  BY <1>2 DEF SetNow
<1>3. ASSUME NewBlock
      PROVE  /\ UNCHANGED rest /\ UNCHANGED <<chain, clock>>
             /\ block < Len(Contract) /\ block' = block + 1
  BY <1>3 DEF NewBlock
<1>4. ASSUME Tick PROVE UNCHANGED rest /\ UNCHANGED <<chain, block>> /\ clock' = clock + 1
  BY <1>4 DEF Tick
<1>5. CASE UNCHANGED vars
  BY <1>5 DEF vars
<1>6. CASE OtherNext
  BY <1>1, <1>2, <1>3, <1>4, <1>6 DEF OtherNext
<1> QED BY <1>5, <1>6

LEMMA OtherKeeps ==
    ASSUME AgentInv, OtherNext \/ UNCHANGED vars
    PROVE  /\ AgentInv'
           /\ UNCHANGED <<environ, recent, cycleCounts, store, runs, thread, failures>>
           /\ block <= block' /\ clock <= clock'
<1>1. UNCHANGED <<environ, recent, cycleCounts, store, runs, thread, failures>>
  BY OtherKinds
<1>2. Placed'
  BY <1>1 DEF AgentInv, Placed, Run
<1>3. block' \in DOMAIN Contract /\ block <= block'
  <2>1. Len(Contract) \in Nat
    BY AgentAssumption, LenProperties
  <2>2. block \in 1 .. Len(Contract) /\ DOMAIN Contract = 1 .. Len(Contract)
    BY BlockNat DEF AgentInv, Typed
  <2> QED BY <2>1, <2>2, OtherKinds
<1>4. chain' \in Chain
  <2>1. chain \in Chain
    BY DEF AgentInv, Typed
  <2>2. ASSUME NEW r \in Figure, NEW ts \in ChainTime, SetReserves(r, ts)
        PROVE  chain' \in Chain
    <3>1. r \in Word /\ ts \in Nat /\ chain.attestation_id + 1 \in Nat
      <4>1. r \in Word /\ ts \in Nat
        BY AgentAssumption DEF Word
      <4>2. chain.attestation_id \in Nat
        BY <2>1 DEF Chain
      <4> QED BY <4>1, <4>2
    <3>2. chain' = [chain EXCEPT !.reserves = r, !.attested_at = ts,
                                 !.attestation_id = chain.attestation_id + 1]
      BY <2>2 DEF SetReserves
    <3> QED BY <2>1, <3>1, <3>2 DEF Chain
  <2>3. ASSUME NEW ts \in ChainTime, SetNow(ts)
        PROVE  chain' \in Chain
    <3>1. ts \in Nat
      BY AgentAssumption
    <3>2. chain' = [chain EXCEPT !.now = ts]
      BY <2>3 DEF SetNow
    <3> QED BY <2>1, <3>1, <3>2 DEF Chain
  <2> QED BY <2>1, <2>2, <2>3, OtherKinds
<1>5. clock' \in Nat /\ clock <= clock'
  BY OtherKinds DEF AgentInv, Typed
<1> QED BY <1>1, <1>2, <1>3, <1>4, <1>5 DEF AgentInv, Typed

LEMMA InitAgent == Init => AgentInv
<1> SUFFICES ASSUME Init PROVE AgentInv
  OBVIOUS
<1>1. runs = <<>> /\ runs \in Seq(Doc) /\ Len(runs) = 0
  BY EmptySeq DEF Init
<1>2. thread \in [Thread -> Frame] /\ \A t \in Thread : thread[t] = Idle
  BY IdlePlaced DEF Init
<1>3. block \in DOMAIN Contract
  <2>1. /\ Len(Contract) \in Nat \ {0} /\ DOMAIN Contract = 1 .. Len(Contract)
    BY AgentAssumption, EmptySeq, LenProperties
  <2> QED BY <2>1 DEF Init
<1>4. chain \in Chain
  BY AgentAssumption DEF Init, Chain, Word
<1>5. cycleCounts \in [DOMAIN cycleCounts -> [count : Nat, seen : Nat]]
  BY DEF Init, Limiter!LimiterInit
<1>6. Placed
  BY <1>1, <1>2, IdlePlaced DEF Placed, Place, InRun, Run
<1> QED BY <1>1, <1>2, <1>3, <1>4, <1>5, <1>6 DEF Init, AgentInv, Typed, NoStore

LEMMA NextKinds ==
    ASSUME [Next]_vars
    PROVE  \/ \E t \in Thread, kind \in {"settle", "redeem"}, amount \in UsdcAmount :
                 Propose(t, kind, amount)
           \/ \E t \in Thread : Status(t) \/ Advance(t)
           \/ OtherNext \/ UNCHANGED vars
  BY DEF Next, OtherNext

LEMMA NextAgent == AgentInv /\ [Next]_vars => AgentInv'
<1> SUFFICES ASSUME AgentInv, [Next]_vars PROVE AgentInv'
  OBVIOUS
<1>1. ASSUME NEW t \in Thread, Advance(t) PROVE AgentInv'
  BY <1>1, CreateKeeps, StartRunKeeps, CheckDomainKeeps, PrecheckKeeps, CheckLimiterKeeps,
     ApplyKeeps, ApplyLiveKeeps, RecordGuardrailKeeps, SetDataKeeps, FindPriorKeeps, SignKeeps,
     SetStatusKeeps, SnapshotKeeps DEF Advance
<1> QED BY <1>1, NextKinds, ProposeKeeps, StatusKeeps, OtherKeeps

\* At one over its ceiling at most (guardrails.py:196-199).
TableBounded == Cardinality(DOMAIN cycleCounts) <= MAX_TRACKED_CYCLES + 1

LEMMA TypesFollow ==
    ASSUME AgentInv, TableBounded, store.id \in {0, 1}
    PROVE  TypeOK
<1>1. chain.supply \in 0 .. UINT256_MAX /\ chain.pending_redemptions \in Nat
  BY DEF AgentInv, Typed, Chain, Word
<1>2. ASSUME NEW t \in Thread
      PROVE  /\ thread[t].step \in Steps
             /\ thread[t].step \notin {"idle", "create", "start", "snapshot"}
                   => Run(t) \in RunId /\ runs[Run(t)].status = "started"
  <2>1. thread[t].step \in Steps
    BY FrameFacts DEF Frame
  <2> QED BY <2>1, OwnDoc DEF InRun
<1> QED BY <1>1, <1>2 DEF TypeOK, TableBounded, AgentInv, Typed, Placed

------------------------------------------------------------------------------
(* What a step of a call does, to its own place and to its own document.    *)

\* Why a call stops where it is.
Stops(t, w) ==
    \/ thread[t].step = "domain" /\ w = "AMOUNT_DOMAIN"
    \/ thread[t].step = "limit" /\ w = "ACTION_LIMITER"
    \/ thread[t].step \in {"precheck", "apply"} /\ (Live!use_chain => Live!DryRunReady)

\* How it goes on, when it does.
GoesOn(t, g) ==
    /\ g.amount = thread[t].amount /\ g.kind = thread[t].kind
    /\ g.store = IF thread[t].step = "create" THEN store'.id ELSE thread[t].store
    /\ thread[t].step # "find" => g.prior = thread[t].prior
    /\ \/ thread[t].step = "start" /\ g.step = "domain" /\ g.run = Len(runs) + 1
       \/ /\ g.run = Run(t)
          /\ \/ thread[t].step = "create" /\ g.step = "start"
             \/ thread[t].step = "domain" /\ g.step = "apply" /\ g.kind = "redeem"
             \/ thread[t].step = "domain" /\ g.step = "precheck"
             \/ /\ thread[t].step = "precheck" /\ g.step = "limit"
                /\ Live!use_chain => Live!DryRunReady
             \/ thread[t].step = "limit" /\ g.step = "apply"
             \/ thread[t].step = "apply" /\ g.step = "data" /\ ~Live!use_chain
             \/ g.step = "guardrail" /\ Stops(t, g.why)
             \/ thread[t].step = "guardrail" /\ g.step = "status"
             \/ thread[t].step = "data" /\ g.step \in {"find", "status"}
             \/ /\ thread[t].step = "find" /\ g.step = "sign"
                /\ \/ \E found \in Found(t) : \E ids \in Latest(Recent(found)) :
                         g.prior = Recurrence(Recent(found), ids)
                   \/ failures' # failures /\ g.prior = thread[t].prior
             \/ thread[t].step = "sign" /\ g.step = "status"
             \/ /\ thread[t].step = "status" /\ g.step = "snapshot" /\ thread[t].shows
                /\ g.reads = thread[t].reads
             \/ /\ thread[t].step = "snapshot" /\ g.step = "snapshot"
                /\ g.reads = Append(thread[t].reads, block)
                /\ Len(thread[t].reads) < Len(Live!Reads)
    /\ g.step # "snapshot" => g.reads = thread[t].reads
    /\ g.shows => thread[t].shows \/ Live!use_chain

\* An exception leaves the run as it was, or a call of the store has failed, or a request.
Leaves(t) ==
    \/ failures' = failures + 1 \/ Live!use_chain \/ thread[t].step = "create"
    \/ thread[t].step = "status" /\ ~thread[t].shows /\ failures' = failures

Moves(t) ==
    /\ \A u \in Thread \ {t} : thread'[u] = thread[u]
    /\ failures' \in {failures, failures + 1}
    /\ \/ thread'[t] = Idle /\ Leaves(t)
       \/ GoesOn(t, thread'[t])

LEMMA ConcludeMoves ==
    ASSUME AgentInv, NEW t \in Thread, NEW w \in Why \ {"none"}, thread[t].step \in InRun,
           Conclude(t, w), UNCHANGED <<runs, failures>>, Stops(t, w)
    PROVE  Moves(t)
<1>1. thread[t] \in Frame
  BY FrameFacts
<1>2. At(t, "precheck") /\ Live!use_chain => Live!use_chain
  OBVIOUS
<1>3. /\ thread'[t] = [thread[t] EXCEPT !.step = "guardrail", !.why = w,
                               !.shows = At(t, "precheck") /\ Live!use_chain]
      /\ \A u \in Thread \ {t} : thread'[u] = thread[u]
  BY ConcludeKeeps
<1>4. /\ thread'[t].amount = thread[t].amount /\ thread'[t].kind = thread[t].kind
      /\ thread'[t].run = Run(t) /\ thread'[t].step = "guardrail" /\ thread'[t].why = w
      /\ thread'[t].reads = thread[t].reads /\ thread'[t].store = thread[t].store
      /\ thread'[t].prior = thread[t].prior
      /\ thread'[t].shows = (At(t, "precheck") /\ Live!use_chain)
  BY <1>1, <1>3 DEF Frame, Run
<1>5. GoesOn(t, thread'[t])
  BY <1>4 DEF GoesOn, InRun
<1> QED BY <1>3, <1>5 DEF Moves, AgentInv, Typed

LEMMA GotoMoves ==
    ASSUME AgentInv, NEW t \in Thread, NEW s, Goto(t, s), UNCHANGED failures,
           \/ thread[t].step = "domain" /\ s = "apply" /\ thread[t].kind = "redeem"
           \/ thread[t].step = "domain" /\ s = "precheck"
           \/ thread[t].step = "precheck" /\ s = "limit" /\ (Live!use_chain => Live!DryRunReady)
           \/ thread[t].step = "limit" /\ s = "apply"
    PROVE  Moves(t)
<1>1. thread[t] \in Frame /\ thread \in [Thread -> Frame]
  BY FrameFacts DEF AgentInv, Typed
<1>2. /\ thread'[t] = [thread[t] EXCEPT !.step = s]
      /\ \A u \in Thread \ {t} : thread'[u] = thread[u]
  BY <1>1 DEF Goto
<1>3. /\ thread'[t].amount = thread[t].amount /\ thread'[t].kind = thread[t].kind
      /\ thread'[t].run = Run(t) /\ thread'[t].step = s
      /\ thread'[t].reads = thread[t].reads /\ thread'[t].shows = thread[t].shows
      /\ thread'[t].store = thread[t].store /\ thread'[t].prior = thread[t].prior
  BY <1>1, <1>2 DEF Frame, Run
<1>4. GoesOn(t, thread'[t])
  BY <1>3 DEF GoesOn
<1> QED BY <1>2, <1>4 DEF Moves, AgentInv, Typed

LEMMA RaiseMoves ==
    ASSUME AgentInv, NEW t \in Thread, thread' = [thread EXCEPT ![t] = Idle],
           failures' \in {failures, failures + 1}, Leaves(t)
    PROVE  Moves(t)
<1>1. thread'[t] = Idle /\ \A u \in Thread \ {t} : thread'[u] = thread[u]
  BY DEF AgentInv, Typed
<1> QED BY <1>1 DEF Moves

LEMMA WriteMoves ==
    ASSUME AgentInv, NEW t \in Thread, NEW docs, NEW f, Write(t, docs, f),
           GoesOn(t, f) \/ (f = Idle /\ thread[t].step = "status" /\ ~thread[t].shows)
    PROVE  Moves(t)
<1>1. CASE thread' = [thread EXCEPT ![t] = f] /\ UNCHANGED failures
  <2>1. thread'[t] = f /\ \A u \in Thread \ {t} : thread'[u] = thread[u]
    BY <1>1 DEF AgentInv, Typed
  <2> QED BY <1>1, <2>1 DEF Moves, Leaves
<1>2. CASE thread' = [thread EXCEPT ![t] = Idle] /\ failures' = failures + 1
  BY <1>2, RaiseMoves DEF Leaves
<1> QED BY <1>1, <1>2 DEF Write

LEMMA WriteCallsMove ==
    ASSUME AgentInv, NEW t \in Thread,
           \/ StartRun(t) \/ RecordGuardrail(t) \/ SetData(t) \/ Sign(t) \/ SetStatus(t)
    PROVE  Moves(t)
<1>1. thread[t] \in Frame
  BY FrameFacts
<1>2. CASE StartRun(t)
  <2> DEFINE f == [thread[t] EXCEPT !.step = "domain", !.run = Len(runs) + 1]
  <2>1. /\ f.step = "domain" /\ f.run = Len(runs) + 1 /\ f.amount = thread[t].amount
        /\ f.kind = thread[t].kind /\ f.reads = thread[t].reads /\ f.shows = thread[t].shows
        /\ f.store = thread[t].store /\ f.prior = thread[t].prior
    BY <1>1 DEF Frame
  <2>2. \E docs : Write(t, docs, f)
    BY <1>2 DEF StartRun
  <2> HIDE DEF f
  <2>3. GoesOn(t, f)
    BY <1>2, <2>1 DEF GoesOn, StartRun, At
  <2> QED BY <2>2, <2>3, WriteMoves
<1>3. CASE RecordGuardrail(t) \/ Sign(t)
  <2> DEFINE f == [thread[t] EXCEPT !.step = "status"]
  <2>1. /\ f.step = "status" /\ f.run = Run(t) /\ f.amount = thread[t].amount
        /\ f.kind = thread[t].kind /\ f.reads = thread[t].reads /\ f.shows = thread[t].shows
        /\ f.store = thread[t].store /\ f.prior = thread[t].prior
    BY <1>1 DEF Frame, Run
  <2>2. \E docs : Write(t, docs, f)
    BY <1>3 DEF RecordGuardrail, Sign
  <2> HIDE DEF f
  <2>3. GoesOn(t, f)
    BY <1>3, <2>1 DEF GoesOn, RecordGuardrail, Sign, At
  <2> QED BY <2>2, <2>3, WriteMoves
<1>4. CASE SetData(t)
  <2> DEFINE next == IF thread[t].kind = "settle" THEN "find" ELSE "status"
             f == [thread[t] EXCEPT !.step = next]
  <2>1. \E docs : Write(t, docs, f)
    BY <1>4 DEF SetData
  <2>2. next \in {"find", "status"}
    OBVIOUS
  <2> HIDE DEF next
  <2>3. /\ f.step = next /\ f.run = Run(t) /\ f.amount = thread[t].amount
        /\ f.kind = thread[t].kind /\ f.reads = thread[t].reads /\ f.shows = thread[t].shows
        /\ f.store = thread[t].store /\ f.prior = thread[t].prior
    BY <1>1 DEF Frame, Run
  <2> HIDE DEF f
  <2>4. GoesOn(t, f)
    BY <1>4, <2>2, <2>3 DEF GoesOn, SetData, At
  <2> QED BY <2>1, <2>4, WriteMoves
<1>5. CASE SetStatus(t)
  <2> DEFINE g == [thread[t] EXCEPT !.step = "snapshot"]
  <2>1. \E docs : Write(t, docs, IF thread[t].shows THEN g ELSE Idle)
    BY <1>5 DEF SetStatus
  <2>2. /\ g.step = "snapshot" /\ g.run = Run(t) /\ g.amount = thread[t].amount
        /\ g.kind = thread[t].kind /\ g.shows = thread[t].shows
        /\ g.reads = thread[t].reads /\ g.store = thread[t].store /\ g.prior = thread[t].prior
    BY <1>1 DEF Frame, Run
  <2> HIDE DEF g
  <2>3. thread[t].step = "status"
    BY <1>5 DEF SetStatus, At
  <2>4. CASE thread[t].shows
    <3>1. GoesOn(t, g)
      BY <2>2, <2>3, <2>4 DEF GoesOn
    <3> QED BY <2>1, <2>4, <3>1, WriteMoves
  <2>5. CASE ~thread[t].shows
    BY <2>1, <2>3, <2>5, WriteMoves
  <2> QED BY <2>4, <2>5
<1> QED BY <1>2, <1>3, <1>4, <1>5

LEMMA AskMoves ==
    ASSUME AgentInv, NEW t \in Thread, thread[t].step \in {"precheck", "apply"}, Live!use_chain,
           NEW GoesOnThen, AskChain(t, GoesOnThen), UNCHANGED <<runs, failures>>,
           GoesOnThen /\ Live!DryRunReady => Moves(t)
    PROVE  Moves(t)
<1>1. CASE Conclude(t, "RESERVE_GATE") /\ Live!DryRunReady
  <2>1. Stops(t, "RESERVE_GATE")
    BY <1>1 DEF Stops
  <2>2. thread[t].step \in InRun /\ "RESERVE_GATE" \in Why \ {"none"}
    BY DEF InRun, Steps, Why
  <2> QED BY <1>1, <2>1, <2>2, ConcludeMoves
<1>2. CASE Raises(t)
  BY <1>2, RaiseMoves DEF Raises, Leaves
<1> QED BY <1>1, <1>2, AskChainKinds

LEMMA StepsMove ==
    ASSUME AgentInv, NEW t \in Thread,
           \/ CheckDomain(t) \/ Precheck(t) \/ CheckLimiter(t) \/ ApplySettle(t)
           \/ ApplyRedeem(t) \/ ApplyLive(t)
    PROVE  Moves(t)
<1>1. /\ {"domain", "precheck", "limit", "apply"} \subseteq InRun
      /\ {"AMOUNT_DOMAIN", "RESERVE_GATE", "ACTION_LIMITER", "REDEEM"} \subseteq Why \ {"none"}
  BY DEF InRun, Steps, Why
<1>2. UNCHANGED <<runs, failures>>
  BY DEF CheckDomain, Precheck, CheckLimiter, ApplySettle, ApplyRedeem, ApplyLive
<1>3. CASE CheckDomain(t)
  <2>1. thread[t].step = "domain"
    BY <1>3 DEF CheckDomain, At
  <2>2. CASE Conclude(t, "AMOUNT_DOMAIN")
    BY <1>1, <1>2, <2>1, <2>2, ConcludeMoves DEF Stops
  <2>3. CASE thread[t].kind = "redeem" /\ Goto(t, "apply")
    BY <1>2, <2>1, <2>3, GotoMoves
  <2>4. CASE Goto(t, "precheck")
    BY <1>2, <2>1, <2>4, GotoMoves
  <2> QED BY <1>3, <2>2, <2>3, <2>4 DEF CheckDomain
<1>4. CASE Precheck(t)
  <2>1. thread[t].step = "precheck"
    BY <1>4 DEF Precheck, At
  <2>2. CASE Live!use_chain
    <3>1. Goto(t, "limit") /\ Live!DryRunReady => Moves(t)
      BY <1>2, <2>1, GotoMoves
    <3> QED BY <1>2, <1>4, <2>1, <2>2, <3>1, AskMoves DEF Precheck
  <2>3. CASE ~Live!use_chain
    <3>1. Conclude(t, "RESERVE_GATE") => Moves(t)
      BY <1>1, <1>2, <2>1, <2>3, ConcludeMoves DEF Stops
    <3>2. Goto(t, "limit") => Moves(t)
      BY <1>2, <2>1, <2>3, GotoMoves
    <3> QED BY <1>4, <2>3, <3>1, <3>2 DEF Precheck
  <2> QED BY <2>2, <2>3
<1>5. CASE CheckLimiter(t)
  <2>1. thread[t].step = "limit"
    BY <1>5 DEF CheckLimiter, At
  <2>2. Conclude(t, "ACTION_LIMITER") => Moves(t)
    BY <1>1, <1>2, <2>1, ConcludeMoves DEF Stops
  <2>3. Goto(t, "apply") => Moves(t)
    BY <1>2, <2>1, GotoMoves
  <2> QED BY <1>5, <2>2, <2>3 DEF CheckLimiter
<1>6. CASE ApplySettle(t) \/ ApplyRedeem(t)
  <2>1. thread[t].step = "apply" /\ ~Live!use_chain
    BY <1>6 DEF ApplySettle, ApplyRedeem, At
  <2>2. \A w \in {"RESERVE_GATE", "REDEEM"} : Conclude(t, w) => Moves(t)
    BY <1>1, <1>2, <2>1, ConcludeMoves DEF Stops
  <2>3. Applied(t) => Moves(t)
    <3>1. SUFFICES ASSUME Applied(t) PROVE Moves(t)
      OBVIOUS
    <3>2. /\ thread'[t] = [thread[t] EXCEPT !.step = "data", !.why = thread[t].kind]
          /\ \A u \in Thread \ {t} : thread'[u] = thread[u]
      BY <1>2, <2>1, <3>1, AppliedKeeps
    <3>3. thread[t] \in Frame
      BY FrameFacts
    <3>4. /\ thread'[t].amount = thread[t].amount /\ thread'[t].kind = thread[t].kind
          /\ thread'[t].run = Run(t) /\ thread'[t].step = "data"
          /\ thread'[t].reads = thread[t].reads /\ thread'[t].shows = thread[t].shows
          /\ thread'[t].store = thread[t].store /\ thread'[t].prior = thread[t].prior
      BY <3>2, <3>3 DEF Frame, Run
    <3>5. GoesOn(t, thread'[t])
      BY <2>1, <3>4 DEF GoesOn
    <3> QED BY <1>2, <3>2, <3>5 DEF Moves, AgentInv, Typed
  <2> QED BY <1>6, <2>2, <2>3 DEF ApplySettle, ApplyRedeem
<1>7. CASE ApplyLive(t)
  <2>1. thread[t].step = "apply" /\ Live!use_chain
    BY <1>7 DEF ApplyLive, At
  <2>2. Raises(t) => Moves(t)
    BY <1>2, <2>1, RaiseMoves DEF Raises, Leaves
  <2> QED BY <1>2, <1>7, <2>1, <2>2, AskMoves DEF ApplyLive
<1> QED BY <1>3, <1>4, <1>5, <1>6, <1>7

LEMMA CreateMoves ==
    ASSUME AgentInv, NEW t \in Thread, Create(t)
    PROVE  Moves(t)
<1>1. /\ thread[t] \in Frame /\ thread \in [Thread -> Frame] /\ thread[t].step = "create"
      /\ UNCHANGED failures
  BY FrameFacts DEF AgentInv, Typed, Create, At
<1>2. CASE Raises(t)
  BY <1>1, <1>2, RaiseMoves DEF Raises, Leaves
<1>3. CASE thread' = [thread EXCEPT ![t].step = "start", ![t].store = store'.id]
  <2>1. /\ thread'[t] = [thread[t] EXCEPT !.step = "start", !.store = store'.id]
        /\ \A u \in Thread \ {t} : thread'[u] = thread[u]
    BY <1>1, <1>3
  <2>2. /\ thread'[t].amount = thread[t].amount /\ thread'[t].kind = thread[t].kind
        /\ thread'[t].run = Run(t) /\ thread'[t].step = "start"
        /\ thread'[t].reads = thread[t].reads /\ thread'[t].shows = thread[t].shows
        /\ thread'[t].store = store'.id /\ thread'[t].prior = thread[t].prior
    BY <1>1, <2>1 DEF Frame, Run
  <2>3. GoesOn(t, thread'[t])
    BY <1>1, <2>2 DEF GoesOn
  <2> QED BY <1>1, <2>1, <2>3 DEF Moves
<1> QED BY <1>2, <1>3 DEF Create

LEMMA FindPriorMoves ==
    ASSUME AgentInv, NEW t \in Thread, FindPrior(t)
    PROVE  Moves(t)
<1>1. thread[t] \in Frame /\ thread \in [Thread -> Frame] /\ failures \in Nat
  BY FrameFacts DEF AgentInv, Typed
<1>2. \A u \in Thread \ {t} : thread'[u] = thread[u]
  BY <1>1 DEF FindPrior, Goto
<1>3. ASSUME NEW found \in Found(t), NEW ids \in Latest(Recent(found)), UNCHANGED failures,
             thread' = [thread EXCEPT ![t].step = "sign",
                                      ![t].prior = Recurrence(Recent(found), ids)]
      PROVE  Moves(t)
  <2> DEFINE m == Recurrence(Recent(found), ids)
  <2>1. thread'[t] = [thread[t] EXCEPT !.step = "sign", !.prior = m]
    BY <1>1, <1>3
  <2>2. \E seen \in Found(t) : \E named \in Latest(Recent(seen)) :
           m = Recurrence(Recent(seen), named)
    BY <1>3
  <2> HIDE DEF m
  <2>3. /\ thread'[t].amount = thread[t].amount /\ thread'[t].kind = thread[t].kind
        /\ thread'[t].run = Run(t) /\ thread'[t].step = "sign" /\ thread'[t].prior = m
        /\ thread'[t].reads = thread[t].reads /\ thread'[t].shows = thread[t].shows
        /\ thread'[t].store = thread[t].store
    BY <1>1, <2>1 DEF Frame, Run
  <2>4. GoesOn(t, thread'[t])
    BY <2>2, <2>3 DEF GoesOn, FindPrior, At
  <2> QED BY <1>2, <1>3, <2>4 DEF Moves
<1>4. CASE Goto(t, "sign") /\ failures' = failures + 1
  <2>1. thread'[t] = [thread[t] EXCEPT !.step = "sign"]
    BY <1>1, <1>4 DEF Goto
  <2>2. /\ thread'[t].amount = thread[t].amount /\ thread'[t].kind = thread[t].kind
        /\ thread'[t].run = Run(t) /\ thread'[t].step = "sign"
        /\ thread'[t].reads = thread[t].reads /\ thread'[t].shows = thread[t].shows
        /\ thread'[t].store = thread[t].store /\ thread'[t].prior = thread[t].prior
    BY <1>1, <2>1 DEF Frame, Run
  <2>3. failures' # failures
    BY <1>1, <1>4
  <2>4. GoesOn(t, thread'[t])
    BY <2>2, <2>3 DEF GoesOn, FindPrior, At
  <2> QED BY <1>2, <1>4, <2>4 DEF Moves
<1> QED BY <1>3, <1>4 DEF FindPrior

LEMMA SnapshotMoves ==
    ASSUME AgentInv, NEW t \in Thread, Snapshot(t), Live!use_chain
    PROVE  Moves(t)
<1>1. thread[t] \in Frame /\ thread \in [Thread -> Frame] /\ thread[t].step = "snapshot"
  BY FrameFacts DEF AgentInv, Typed, Snapshot, At
<1>2. UNCHANGED failures
  BY DEF Snapshot
<1>3. CASE Raises(t)
  BY <1>2, <1>3, RaiseMoves DEF Raises, Leaves
<1>4. CASE /\ thread' = [thread EXCEPT ![t].reads = Append(@, block)]
           /\ Len(thread[t].reads) < Len(Live!Reads)
  <2>1. /\ thread'[t] = [thread[t] EXCEPT !.reads = Append(thread[t].reads, block)]
        /\ \A u \in Thread \ {t} : thread'[u] = thread[u]
    BY <1>1, <1>4
  <2>2. /\ thread'[t].amount = thread[t].amount /\ thread'[t].kind = thread[t].kind
        /\ thread'[t].run = Run(t) /\ thread'[t].step = "snapshot"
        /\ thread'[t].reads = Append(thread[t].reads, block)
        /\ thread'[t].shows = thread[t].shows
        /\ thread'[t].store = thread[t].store /\ thread'[t].prior = thread[t].prior
    BY <1>1, <2>1 DEF Frame, Run
  <2>3. GoesOn(t, thread'[t])
    BY <1>1, <1>4, <2>2 DEF GoesOn
  <2> QED BY <1>2, <2>1, <2>3 DEF Moves
<1> QED BY <1>3, <1>4 DEF Snapshot

\* The own document before and after.
OwnWrite(t, e, d) ==
    /\ d.amount = e.amount /\ d.kind = e.kind /\ d.earlier = e.earlier
    /\ d.store = e.store /\ d.started_at = e.started_at
    /\ d.guardrail = e.guardrail
          \/ (thread[t].step = "guardrail" /\ d.guardrail = thread[t].why)
    /\ \/ d.signed = e.signed /\ d.recurrence = e.recurrence
       \/ thread[t].step = "sign" /\ d.signed /\ d.recurrence = thread[t].prior
    /\ \/ d.status = e.status /\ (thread[t].step = "status" => failures' = failures + 1)
       \/ thread[t].step = "status" /\ d.status \in Statuses \ {"started"}

Writes(t) ==
    \/ runs' = runs /\ (thread[t].step = "status" => failures' = failures + 1)
    \/ thread[t].step = "start" /\ runs' = Append(runs, NewDoc(t))
    \/ /\ thread[t].step \in InRun
       /\ \E d \in Doc : /\ runs' = [runs EXCEPT ![Run(t)] = d]
                         /\ OwnWrite(t, runs[Run(t)], d)

LEMMA AdvanceWrites ==
    ASSUME AgentInv, NEW t \in Thread, Advance(t)
    PROVE  Writes(t)
<1>1. thread[t] \in Frame
  BY FrameFacts
<1>2. CASE StartRun(t)
  <2>1. thread[t].step = "start" /\ \E f : Write(t, Append(runs, NewDoc(t)), f)
    BY <1>2 DEF StartRun, At, NewDoc
  <2> QED BY <2>1 DEF Writes, Write
<1>3. ASSUME thread[t].step \in InRun, NEW d \in Doc, OwnWrite(t, runs[Run(t)], d), NEW f,
             Write(t, [runs EXCEPT ![Run(t)] = d], f)
      PROVE  Writes(t)
  BY <1>3 DEF Write, Writes
<1>4. CASE RecordGuardrail(t)
  <2> DEFINE d == [runs[Run(t)] EXCEPT !.guardrail = thread[t].why]
  <2>1. thread[t].step = "guardrail" /\ thread[t].step \in InRun
    BY <1>4 DEF RecordGuardrail, At, InRun, Steps
  <2>2. \E f : Write(t, [runs EXCEPT ![Run(t)] = d], f)
    BY <1>4 DEF RecordGuardrail, Write
  <2>3. d \in Doc
    <3>1. runs[Run(t)] \in Doc /\ thread[t].why \in Why
      BY <1>1, <2>1, OwnDoc DEF Frame
    <3> QED BY <3>1 DEF Doc
  <2>4. OwnWrite(t, runs[Run(t)], d)
    BY <2>1, OwnDoc DEF OwnWrite, Doc
  <2> HIDE DEF d
  <2> QED BY <1>3, <2>1, <2>2, <2>3, <2>4
<1>5. CASE SetData(t)
  <2> DEFINE d == [runs[Run(t)] EXCEPT !.data = TRUE]
  <2>1. thread[t].step = "data" /\ thread[t].step \in InRun
    BY <1>5 DEF SetData, At, InRun, Steps
  <2>2. \E f : Write(t, [runs EXCEPT ![Run(t)] = d], f)
    BY <1>5 DEF SetData, Write
  <2>3. d \in Doc
    <3>1. runs[Run(t)] \in Doc
      BY <2>1, OwnDoc
    <3> QED BY <3>1 DEF Doc
  <2>4. OwnWrite(t, runs[Run(t)], d)
    BY <2>1, OwnDoc DEF OwnWrite, Doc
  <2> HIDE DEF d
  <2> QED BY <1>3, <2>1, <2>2, <2>3, <2>4
<1>6. CASE Sign(t)
  <2> DEFINE d == [runs[Run(t)] EXCEPT !.signed = TRUE, !.recurrence = thread[t].prior]
  <2>1. thread[t].step = "sign" /\ thread[t].step \in InRun
    BY <1>6 DEF Sign, At, InRun, Steps
  <2>2. \E f : Write(t, [runs EXCEPT ![Run(t)] = d], f)
    BY <1>6 DEF Sign, Write
  <2>3. d \in Doc
    <3>1. runs[Run(t)] \in Doc /\ thread[t].prior \in Memory
      BY <1>1, <2>1, OwnDoc DEF Frame
    <3> QED BY <3>1 DEF Doc
  <2>4. OwnWrite(t, runs[Run(t)], d)
    BY <2>1, OwnDoc DEF OwnWrite, Doc
  <2> HIDE DEF d
  <2> QED BY <1>3, <2>1, <2>2, <2>3, <2>4
<1>7. CASE SetStatus(t)
  <2> DEFINE d == [runs[Run(t)] EXCEPT !.status = Decision[thread[t].why]]
  <2>1. /\ thread[t].step = "status" /\ thread[t].step \in InRun
        /\ thread[t].why \in Why \ {"none"}
    BY <1>7, FrameFacts DEF SetStatus, At, InRun, Steps, Place, Frame
  <2>2. PICK f : Write(t, [runs EXCEPT ![Run(t)] = d], f)
    BY <1>7 DEF SetStatus, Write
  <2>3. Decision[thread[t].why] \in Statuses \ {"started"}
    BY <2>1, Decided
  <2>4. d \in Doc
    <3>1. runs[Run(t)] \in Doc
      BY <2>1, OwnDoc
    <3> QED BY <2>3, <3>1 DEF Doc
  <2>5. OwnWrite(t, runs[Run(t)], d)
    BY <2>1, <2>3, OwnDoc DEF OwnWrite, Doc
  <2> HIDE DEF d
  <2> QED BY <1>3, <2>1, <2>2, <2>4, <2>5
<1>8. CASE \/ Create(t) \/ CheckDomain(t) \/ Precheck(t) \/ CheckLimiter(t) \/ ApplySettle(t)
           \/ ApplyRedeem(t) \/ ApplyLive(t) \/ FindPrior(t) \/ Snapshot(t)
  <2>1. runs' = runs /\ thread[t].step # "status"
    BY <1>8 DEF Create, CheckDomain, Precheck, CheckLimiter, ApplySettle, ApplyRedeem,
       ApplyLive, FindPrior, Snapshot, At
  <2> QED BY <2>1 DEF Writes
<1> QED BY <1>2, <1>4, <1>5, <1>6, <1>7, <1>8 DEF Advance

LEMMA WritesFacts ==
    ASSUME AgentInv, NEW t \in Thread, Writes(t), AgentInv'
    PROVE  /\ RunId \subseteq RunId' /\ RunId' = 1 .. Len(runs')
           /\ \A r \in RunId \ {Run(t)} : runs'[r] = runs[r]
           /\ \A r \in RunId' \ RunId : /\ r = Len(runs) + 1 /\ runs'[r] = NewDoc(t)
                                        /\ thread[t].step = "start"
           /\ Run(t) \in RunId => \/ runs'[Run(t)] = runs[Run(t)]
                                     /\ (thread[t].step = "status" => failures' = failures + 1)
                                  \/ OwnWrite(t, runs[Run(t)], runs'[Run(t)])
<1>1. Len(runs) \in Nat /\ RunId = 1 .. Len(runs)
  BY RunFacts
<1>2. RunId' = 1 .. Len(runs')
  BY DEF RunId
<1>3. CASE runs' = runs /\ (thread[t].step = "status" => failures' = failures + 1)
  BY <1>1, <1>2, <1>3
<1>4. CASE thread[t].step = "start" /\ runs' = Append(runs, NewDoc(t))
  <2>1. Run(t) \notin RunId
    BY <1>1, <1>4, FrameFacts DEF Place, Run
  <2> QED BY <1>1, <1>2, <1>4, <2>1, NewDocFacts
<1>5. CASE /\ thread[t].step \in InRun
           /\ \E d \in Doc : /\ runs' = [runs EXCEPT ![Run(t)] = d]
                             /\ OwnWrite(t, runs[Run(t)], d)
  <2>1. Run(t) \in RunId
    BY <1>5, OwnDoc
  <2>2. PICK d \in Doc : runs' = [runs EXCEPT ![Run(t)] = d] /\ OwnWrite(t, runs[Run(t)], d)
    BY <1>5
  <2>3. /\ Len(runs') = Len(runs) /\ runs'[Run(t)] = d
        /\ \A q \in RunId \ {Run(t)} : runs'[q] = runs[q]
    BY <2>1, <2>2, DocChange
  <2> QED BY <1>1, <1>2, <2>1, <2>2, <2>3
<1> QED BY <1>3, <1>4, <1>5 DEF Writes

\* A call that is to end in a snapshot is one of a live process.
ShowInv == \A t \in Thread : thread[t].shows \/ thread[t].step = "snapshot" => Live!use_chain

CallInv == AgentInv /\ ShowInv

LEMMA InitCall == Init => CallInv
  BY InitAgent DEF Init, CallInv, ShowInv, Idle

LEMMA EnvironStays ==
    ASSUME [Next]_vars
    PROVE  environ' = environ /\ (Live!use_chain' <=> Live!use_chain)
<1>1. environ' = environ
  <2>1. ASSUME NEW t \in Thread, Advance(t) PROVE environ' = environ
    BY <2>1 DEF Advance, Create, StartRun, CheckDomain, Precheck, CheckLimiter,
       ApplySettle, ApplyRedeem, ApplyLive, RecordGuardrail, SetData, FindPrior, Sign,
       SetStatus, Snapshot
  <2>2. OtherNext \/ UNCHANGED vars => environ' = environ
    BY OtherKinds
  <2> QED BY <2>1, <2>2, NextKinds DEF Propose, Status
<1> QED BY <1>1 DEF Live!use_chain

\* Every step of a call is such a move.
LEMMA AdvanceMoves ==
    ASSUME CallInv, NEW t \in Thread, Advance(t)
    PROVE  Moves(t) /\ Writes(t) /\ AgentInv' /\ UNCHANGED <<block, clock>>
<1>1. Moves(t)
  <2>1. Snapshot(t) => Live!use_chain
    BY DEF Snapshot, At, CallInv, ShowInv
  <2> QED BY <2>1, WriteCallsMove, StepsMove, CreateMoves, FindPriorMoves, SnapshotMoves
     DEF Advance, CallInv
<1>2. UNCHANGED <<block, clock>>
  BY DEF Advance, Create, StartRun, CheckDomain, Precheck, CheckLimiter, ApplySettle,
     ApplyRedeem, ApplyLive, RecordGuardrail, SetData, FindPrior, Sign, SetStatus, Snapshot
<1>3. AgentInv'
  BY NextAgent DEF Next, CallInv
<1> QED BY <1>1, <1>2, <1>3, AdvanceWrites DEF CallInv

\* How a step looks to the documents and to the threads: a call begins, or moves on, or a
\* snapshot is asked for, or something else happens.
LEMMA NextMoves ==
    ASSUME CallInv, [Next]_vars
    PROVE  \/ \E t \in Thread :
                 /\ Advance(t) /\ Moves(t) /\ Writes(t) /\ UNCHANGED <<block, clock>>
           \/ \E t \in Thread :
                 /\ UNCHANGED <<runs, block, clock, recent, store, failures>>
                 /\ thread[t] = Idle
                 /\ \A u \in Thread \ {t} : thread'[u] = thread[u]
                 /\ thread'[t].run = 0 /\ thread'[t].why = "none" /\ ~thread'[t].shows
                 /\ thread'[t].reads = <<>> /\ thread'[t].prior = NoRecurrence
                 /\ thread'[t].step \in {"idle", "create", "start", "snapshot"}
                 /\ thread'[t].step = "snapshot" => Live!use_chain
           \/ /\ UNCHANGED <<runs, thread, recent, store, failures>>
              /\ block <= block' /\ clock <= clock'
<1>1. ASSUME NEW t \in Thread, Advance(t)
      PROVE  Advance(t) /\ Moves(t) /\ Writes(t) /\ UNCHANGED <<block, clock>>
  BY <1>1, AdvanceMoves
<1>2. ASSUME NEW t \in Thread, At(t, "idle") PROVE thread[t] = Idle
  BY <1>2, FrameFacts DEF Place, At, CallInv
<1>3. /\ Idle.run = 0 /\ Idle.why = "none" /\ ~Idle.shows /\ Idle.reads = <<>>
      /\ Idle.step = "idle" /\ Idle.prior = NoRecurrence
  BY DEF Idle
<1>4. ASSUME NEW t \in Thread, NEW kind \in {"settle", "redeem"}, NEW amount \in UsdcAmount,
             Propose(t, kind, amount)
      PROVE  /\ UNCHANGED <<runs, block, clock, recent, store, failures>> /\ thread[t] = Idle
             /\ \A u \in Thread \ {t} : thread'[u] = thread[u]
             /\ thread'[t].run = 0 /\ thread'[t].why = "none" /\ ~thread'[t].shows
             /\ thread'[t].reads = <<>> /\ thread'[t].step \in {"create", "start"}
             /\ thread'[t].prior = NoRecurrence
  <2>1. UNCHANGED <<runs, block, clock, recent, store, failures>> /\ thread[t] = Idle
    BY <1>2, <1>4 DEF Propose
  <2> DEFINE step == IF store = NoStore THEN "create" ELSE "start"
  <2>2. /\ thread'[t] = Opened(kind, amount)
        /\ \A u \in Thread \ {t} : thread'[u] = thread[u]
    <3>1. AgentInv
      BY DEF CallInv
    <3> QED BY <1>4, <3>1, ProposeKeeps
  <2>3. step \in {"create", "start"}
    OBVIOUS
  <2> HIDE DEF step
  <2>4. /\ thread'[t].run = 0 /\ thread'[t].why = "none" /\ ~thread'[t].shows
        /\ thread'[t].reads = <<>> /\ thread'[t].step = step
        /\ thread'[t].prior = NoRecurrence
    BY <2>2 DEF Opened, Idle, step
  <2> QED BY <2>1, <2>2, <2>3, <2>4
<1>5. ASSUME NEW t \in Thread, Status(t)
      PROVE  /\ UNCHANGED <<runs, block, clock, recent, store, failures>> /\ thread[t] = Idle
             /\ \A u \in Thread \ {t} : thread'[u] = thread[u]
             /\ thread'[t].run = 0 /\ thread'[t].why = "none" /\ ~thread'[t].shows
             /\ thread'[t].reads = <<>> /\ thread'[t].step \in {"idle", "snapshot"}
             /\ thread'[t].prior = NoRecurrence /\ Live!use_chain
  <2>1. /\ UNCHANGED <<runs, block, clock, recent, store, failures>>
        /\ thread[t] = Idle /\ Live!use_chain
    BY <1>2, <1>5 DEF Status
  <2>2. CASE UNCHANGED thread
    BY <1>3, <2>1, <2>2
  <2>3. CASE Goto(t, "snapshot")
    <3>1. /\ thread'[t] = [Idle EXCEPT !.step = "snapshot"]
          /\ \A u \in Thread \ {t} : thread'[u] = thread[u]
      BY <2>1, <2>3 DEF Goto, CallInv, AgentInv, Typed
    <3>2. /\ thread'[t].run = 0 /\ thread'[t].why = "none" /\ ~thread'[t].shows
          /\ thread'[t].reads = <<>> /\ thread'[t].step = "snapshot"
          /\ thread'[t].prior = NoRecurrence
      BY <3>1 DEF Idle
    <3> QED BY <2>1, <3>1, <3>2
  <2> QED BY <1>5, <2>2, <2>3 DEF Status
<1>6. ASSUME OtherNext \/ UNCHANGED vars
      PROVE  /\ UNCHANGED <<runs, thread, recent, store, failures>>
             /\ block <= block' /\ clock <= clock'
  BY <1>6, OtherKeeps DEF CallInv
<1> QED BY <1>1, <1>4, <1>5, <1>6, NextKinds

LEMMA NextCall == CallInv /\ [Next]_vars => CallInv'
<1> SUFFICES ASSUME CallInv, [Next]_vars PROVE CallInv'
  OBVIOUS
<1>1. AgentInv' /\ (Live!use_chain' <=> Live!use_chain)
  BY NextAgent, EnvironStays DEF CallInv
<1>2. ASSUME NEW t \in Thread, Moves(t) PROVE ShowInv'
  <2>1. thread'[t].shows \/ thread'[t].step = "snapshot" => Live!use_chain
    BY <1>2 DEF Moves, GoesOn, Idle, CallInv, ShowInv
  <2> QED BY <1>1, <1>2, <2>1 DEF Moves, CallInv, ShowInv
<1> QED BY <1>1, <1>2, NextMoves DEF CallInv, ShowInv

------------------------------------------------------------------------------
(* The one store of the process. *)

\* It is made once, by the thread that holds the lock; what is past that has it.
OneStore ==
    /\ store = NoStore \/ store.id = 1
    /\ \A t \in Thread :
          /\ At(t, "create") => store = NoStore /\ \A u \in Thread : At(u, "create") => u = t
          /\ thread[t].step \in InRun \cup {"start"} => store # NoStore /\ thread[t].store = 1
    /\ \A r \in RunId : store # NoStore /\ runs[r].store = 1

LEMMA StoreStays ==
    ASSUME NEW t \in Thread, Advance(t), ~Create(t)
    PROVE  store' = store /\ thread[t].step # "create"
  BY DEF Advance, StartRun, CheckDomain, Precheck, CheckLimiter, ApplySettle, ApplyRedeem,
     ApplyLive, RecordGuardrail, SetData, FindPrior, Sign, SetStatus, Snapshot, At

LEMMA NextOnce == CallInv /\ OneStore /\ [Next]_vars => OneStore'
<1> SUFFICES ASSUME CallInv, OneStore, [Next]_vars PROVE OneStore'
  OBVIOUS
<1>1. AgentInv /\ AgentInv'
  BY NextCall DEF CallInv
<1>2. ASSUME NEW t \in Thread, Advance(t), ~Create(t) PROVE OneStore'
  <2>1. store' = store /\ thread[t].step # "create" /\ Moves(t) /\ Writes(t)
    BY <1>2, StoreStays, AdvanceMoves
  <2>2. /\ thread'[t].step # "create"
        /\ thread'[t].step \in InRun \cup {"start"}
              => thread[t].step \in InRun \cup {"start"} /\ thread'[t].store = thread[t].store
    <3>1. CASE thread'[t] = Idle
      BY <3>1, IdlePlaced DEF InRun
    <3>2. CASE GoesOn(t, thread'[t])
      BY <2>1, <3>2 DEF GoesOn, Stops, InRun, Steps
    <3> QED BY <2>1, <3>1, <3>2 DEF Moves
  <2>3. \A u \in Thread \ {t} : thread'[u] = thread[u]
    BY <2>1 DEF Moves
  <2>4. ASSUME NEW r \in RunId' PROVE store' # NoStore /\ runs'[r].store = 1
    <3>1. CASE r \in RunId
      <4>1. runs'[r].store = runs[r].store
        BY <1>1, <2>1, <3>1, WritesFacts DEF OwnWrite
      <4> QED BY <2>1, <3>1, <4>1 DEF OneStore
    <3>2. CASE r \notin RunId
      <4>1. runs'[r] = NewDoc(t) /\ thread[t].step = "start"
        BY <1>1, <2>1, <3>2, WritesFacts
      <4> QED BY <2>1, <4>1 DEF OneStore, NewDoc
    <3> QED BY <3>1, <3>2
  <2> QED BY <2>1, <2>2, <2>3, <2>4 DEF OneStore, At
<1>3. ASSUME NEW t \in Thread, Create(t) PROVE OneStore'
  <2>1. /\ thread[t].step = "create" /\ store = NoStore /\ store.id = 0 /\ runs' = runs
        /\ RunId = {} /\ RunId' = {} /\ thread \in [Thread -> Frame] /\ thread[t] \in Frame
    BY <1>1, <1>3, FrameFacts DEF Create, At, OneStore, NoStore, AgentInv, Typed, RunId
  <2>2. \A u \in Thread \ {t} : thread[u].step \notin InRun \cup {"create", "start"}
    BY <2>1 DEF OneStore, At
  <2>3. CASE Raises(t) /\ UNCHANGED store
    <3>1. thread'[t] = Idle /\ \A u \in Thread \ {t} : thread'[u] = thread[u]
      BY <2>1, <2>3 DEF Raises
    <3> QED BY <2>1, <2>2, <2>3, <3>1, IdlePlaced DEF OneStore, At, InRun
  <2>4. ASSUME NEW backend, store' = [id |-> store.id + 1, backend |-> backend],
               thread' = [thread EXCEPT ![t].step = "start", ![t].store = store'.id]
        PROVE  OneStore'
    <3>1. store'.id = 1 /\ store' # NoStore
      BY <2>1, <2>4 DEF NoStore
    <3>2. /\ thread'[t] = [thread[t] EXCEPT !.step = "start", !.store = store'.id]
          /\ \A u \in Thread \ {t} : thread'[u] = thread[u]
      BY <2>1, <2>4
    <3>3. thread'[t].step = "start" /\ thread'[t].store = 1
      BY <2>1, <3>1, <3>2 DEF Frame
    <3> QED BY <2>1, <2>2, <3>1, <3>2, <3>3 DEF OneStore, At, InRun
  <2> QED BY <1>3, <2>3, <2>4 DEF Create
<1>4. ASSUME NEW t \in Thread, NEW kind \in {"settle", "redeem"}, NEW amount \in UsdcAmount,
             Propose(t, kind, amount)
      PROVE  OneStore'
  <2>1. /\ thread'[t] = Opened(kind, amount) /\ \A u \in Thread \ {t} : thread'[u] = thread[u]
    BY <1>1, <1>4, ProposeKeeps
  <2>2. /\ thread'[t].step = IF store = NoStore THEN "create" ELSE "start"
        /\ thread'[t].store = store.id
    BY <2>1 DEF Opened, Idle
  <2>3. /\ runs' = runs /\ store' = store /\ RunId' = RunId
        /\ \A u \in Thread : thread[u].step # "create"
    BY <1>4 DEF Propose, StoreLockFree, At, RunId
  <2> QED BY <2>1, <2>2, <2>3 DEF OneStore, At, InRun, Steps
<1>5. ASSUME NEW t \in Thread, Status(t) PROVE OneStore'
  <2>1. runs' = runs /\ store' = store /\ RunId' = RunId
    BY <1>5 DEF Status, RunId
  <2>2. ASSUME NEW u \in Thread
        PROVE  thread'[u] = thread[u] \/ thread'[u].step \notin InRun \cup {"create", "start"}
    <3>1. CASE UNCHANGED thread
      BY <3>1
    <3>2. CASE Goto(t, "snapshot")
      <4>1. thread \in [Thread -> Frame] /\ thread[t] \in Frame
        BY <1>1, FrameFacts DEF AgentInv, Typed
      <4>2. thread'[u] = IF u = t THEN [thread[t] EXCEPT !.step = "snapshot"] ELSE thread[u]
        BY <3>2, <4>1 DEF Goto
      <4>3. [thread[t] EXCEPT !.step = "snapshot"].step = "snapshot"
        BY <4>1 DEF Frame
      <4> QED BY <4>2, <4>3 DEF InRun
    <3> QED BY <1>5, <3>1, <3>2 DEF Status
  <2> QED BY <2>1, <2>2 DEF OneStore, At
<1>6. ASSUME OtherNext \/ UNCHANGED vars PROVE OneStore'
  <2>1. UNCHANGED <<store, runs, thread>> /\ RunId' = RunId
    BY <1>6, OtherKinds DEF RunId
  <2> QED BY <2>1 DEF OneStore, At
<1> QED BY <1>2, <1>3, <1>4, <1>5, <1>6, NextKinds

LEMMA InitOnce == Init => OneStore
<1> SUFFICES ASSUME Init PROVE OneStore
  OBVIOUS
<1>1. RunId = {} /\ store = NoStore /\ \A t \in Thread : thread[t].step = "idle"
  BY EmptySeq DEF Init, RunId, Idle
<1> QED BY <1>1 DEF OneStore, At, InRun

------------------------------------------------------------------------------
(* What is said of a call afterwards. *)

\* Offline, and while no call of the store fails, every open run is some thread's.
Attended ==
    ~Live!use_chain /\ failures = 0 =>
       \A r \in RunId : runs[r].status = "started" => \E t \in Thread : Run(t) = r

LEMMA NextAttended == CallInv /\ Attended /\ [Next]_vars => Attended'
<1> SUFFICES ASSUME CallInv, Attended, [Next]_vars, ~Live!use_chain, failures' = 0,
                    NEW r \in RunId', runs'[r].status = "started"
             PROVE  \E t \in Thread : thread'[t].run = r
  BY EnvironStays DEF Attended, Run
<1>1. failures \in Nat /\ AgentInv /\ AgentInv'
  BY NextCall DEF CallInv, AgentInv, Typed
<1>2. ASSUME NEW t \in Thread, Moves(t), Writes(t)
      PROVE  \E u \in Thread : thread'[u].run = r
  <2>1. failures' = failures /\ failures = 0
    BY <1>1, <1>2 DEF Moves
  <2>2. thread[t] \in Frame /\ Place(thread[t], runs)
    BY <1>1, FrameFacts
  <2>3. CASE r \in RunId /\ r # Run(t)
    <3>1. runs'[r] = runs[r]
      BY <1>1, <1>2, <2>3, WritesFacts
    <3>2. PICK u \in Thread : Run(u) = r
      BY <2>1, <2>3, <3>1 DEF Attended
    <3>3. thread'[u] = thread[u]
      BY <1>2, <2>3, <3>2 DEF Moves
    <3> QED BY <3>2, <3>3 DEF Run
  <2>4. CASE r \in RunId /\ r = Run(t)
    <3>1. thread[t].step # "status"
      BY <1>1, <1>2, <2>1, <2>4, WritesFacts DEF OwnWrite
    <3>2. thread[t].step \notin {"create", "start"}
      BY <1>1, <2>2, <2>4, RunFacts DEF Place, Run
    <3>3. GoesOn(t, thread'[t])
      BY <1>1, <1>2, <2>1, <3>1, <3>2 DEF Moves, Leaves
    <3>4. thread'[t].run = Run(t)
      BY <3>2, <3>3 DEF GoesOn
    <3> QED BY <2>4, <3>4
  <2>5. CASE r \notin RunId
    <3>1. r = Len(runs) + 1 /\ thread[t].step = "start"
      BY <1>1, <1>2, <2>5, WritesFacts
    <3>2. GoesOn(t, thread'[t])
      BY <1>1, <1>2, <2>1, <3>1 DEF Moves, Leaves
    <3>3. CASE thread'[t].run = Len(runs) + 1
      BY <3>1, <3>3
    <3>4. CASE thread'[t].run # Len(runs) + 1
      BY <3>1, <3>2, <3>4 DEF GoesOn, Stops
    <3> QED BY <3>3, <3>4
  <2> QED BY <2>3, <2>4, <2>5
<1>3. CASE /\ UNCHANGED <<runs, failures>>
           /\ \A t \in Thread : thread[t].run # 0 => thread'[t] = thread[t]
  <2>1. RunId' = RunId /\ \A q \in RunId : q # 0
    BY <1>1, <1>3, RunFacts DEF RunId
  <2>2. PICK u \in Thread : Run(u) = r
    BY <1>3, <2>1 DEF Attended
  <2> QED BY <1>3, <2>1, <2>2 DEF Run
<1>4. Idle.run = 0
  BY DEF Idle
<1> QED BY <1>2, <1>3, <1>4, NextMoves

\* No run is left "started" unless a store or a node failed its call: every return of the two
\* calls concludes its run (main.py:84-149).
THEOREM RunsAreConcluded == Spec => []OnlyFailuresOrphan
<1>1. Init => CallInv /\ Attended
  <2>1. Init => RunId = {}
    BY EmptySeq DEF Init, RunId
  <2> QED BY <2>1, InitCall DEF Attended
<1>2. CallInv /\ Attended => OnlyFailuresOrphan
  <2> SUFFICES ASSUME CallInv, Attended, NEW r \in Orphans, ~Live!use_chain, failures <= 0
               PROVE  FALSE
    BY DEF OnlyFailuresOrphan, CallInv, AgentInv, Typed
  <2>1. failures = 0
    BY DEF CallInv, AgentInv, Typed
  <2> QED BY <2>1 DEF Attended, Orphans
<1> QED BY <1>1, <1>2, NextCall, NextAttended, PTL DEF Spec

\* The reads of a snapshot were answered in order.
InOrder(reads) ==
    /\ \A i \in 1 .. Len(reads) : reads[i] <= block
    /\ \A i, j \in 1 .. Len(reads) : i <= j => reads[i] <= reads[j]

ReadsInv == \A t \in Thread : InOrder(thread[t].reads)

LEMMA NextReads == CallInv /\ ReadsInv /\ [Next]_vars => ReadsInv'
<1> SUFFICES ASSUME CallInv, ReadsInv, [Next]_vars PROVE ReadsInv'
  OBVIOUS
<1>1. block \in Nat /\ block' \in Nat /\ AgentInv
  <2>1. CallInv'
    BY NextCall
  <2>2. DOMAIN Contract \subseteq Nat
    BY BlockNat DEF CallInv
  <2> QED BY <2>1, <2>2 DEF CallInv, AgentInv, Typed
<1>2. block <= block'
  BY <1>1, NextMoves
<1>3. ASSUME NEW t \in Thread PROVE InOrder(thread[t].reads)'
      <=> /\ \A i \in 1 .. Len(thread'[t].reads) : thread'[t].reads[i] <= block'
          /\ \A i, j \in 1 .. Len(thread'[t].reads) :
                i <= j => thread'[t].reads[i] <= thread'[t].reads[j]
  BY DEF InOrder
<1>4. ASSUME NEW t \in Thread, thread'[t].reads = thread[t].reads PROVE InOrder(thread[t].reads)'
  <2>1. InOrder(thread[t].reads) /\ thread[t].reads \in Seq(Nat)
    BY <1>1, FrameFacts DEF ReadsInv, Frame
  <2>2. \A i \in 1 .. Len(thread[t].reads) : thread[t].reads[i] \in Nat
    BY <2>1
  <2> QED BY <1>1, <1>2, <1>4, <2>1, <2>2 DEF InOrder
<1>5. ASSUME NEW t \in Thread, thread'[t].reads = <<>> PROVE InOrder(thread[t].reads)'
  BY <1>3, <1>5
<1>6. ASSUME NEW t \in Thread, thread'[t].reads = Append(thread[t].reads, block), block' = block
      PROVE  InOrder(thread[t].reads)'
  <2> DEFINE old == thread[t].reads
             n == Len(old)
  <2>1. InOrder(old) /\ old \in Seq(Nat) /\ n \in Nat
    BY <1>1, FrameFacts, LenProperties DEF ReadsInv, Frame
  <2>2. /\ Len(Append(old, block)) = n + 1 /\ Append(old, block)[n + 1] = block
        /\ \A i \in 1 .. n : Append(old, block)[i] = old[i] /\ old[i] \in Nat /\ old[i] <= block
        /\ \A i, j \in 1 .. n : i <= j => old[i] <= old[j]
    <3>1. /\ Len(Append(old, block)) = n + 1 /\ Append(old, block)[n + 1] = block
          /\ \A i \in 1 .. n : Append(old, block)[i] = old[i]
      BY <1>1, <2>1, AppendProperties
    <3>2. \A i \in 1 .. n : old[i] \in Nat
      BY <2>1
    <3>3. /\ \A i \in 1 .. n : old[i] <= block
          /\ \A i, j \in 1 .. n : i <= j => old[i] <= old[j]
      BY <2>1 DEF InOrder
    <3> QED BY <3>1, <3>2, <3>3
  <2> HIDE DEF old, n
  <2>3. \A i \in 1 .. n + 1 : i \in 1 .. n \/ i = n + 1
    BY <2>1
  <2>4. thread'[t].reads = Append(old, block)
    BY <1>6 DEF old
  <2>5. Len(thread'[t].reads) = n + 1 /\ n \in Nat
    BY <2>1, <2>2, <2>4
  <2>6. \A i \in 1 .. n + 1 : thread'[t].reads[i] <= block'
    BY <1>1, <1>6, <2>2, <2>3, <2>4
  <2>7. \A i, j \in 1 .. n + 1 : i <= j => thread'[t].reads[i] <= thread'[t].reads[j]
    <3>1. ASSUME NEW i \in 1 .. n + 1, NEW j \in 1 .. n + 1, i <= j
          PROVE  Append(old, block)[i] <= Append(old, block)[j]
      <4>1. CASE j \in 1 .. n
        <5>1. i \in 1 .. n
          BY <2>1, <3>1, <4>1
        <5> QED BY <2>2, <3>1, <4>1, <5>1
      <4>2. CASE j = n + 1
        BY <1>1, <2>2, <2>3, <4>2
      <4> QED BY <2>3, <4>1, <4>2
    <3> QED BY <2>4, <3>1
  <2> QED BY <1>3, <2>5, <2>6, <2>7
<1>7. ASSUME NEW t \in Thread, Moves(t), block' = block PROVE ReadsInv'
  <2>1. ASSUME NEW u \in Thread \ {t} PROVE InOrder(thread[u].reads)'
    BY <1>4, <1>7 DEF Moves
  <2>2. \/ thread'[t].reads = <<>> \/ thread'[t].reads = thread[t].reads
        \/ thread'[t].reads = Append(thread[t].reads, block)
    BY <1>7 DEF Moves, GoesOn, Idle, Stops
  <2>3. InOrder(thread[t].reads)'
    BY <1>4, <1>5, <1>6, <1>7, <2>2
  <2> QED BY <2>1, <2>3 DEF ReadsInv
<1>8. CASE \A u \in Thread : thread'[u] = thread[u] \/ thread'[u].reads = <<>>
  BY <1>4, <1>5, <1>8 DEF ReadsInv
<1> QED BY <1>7, <1>8, NextMoves

\* A snapshot's figures may be of different blocks, but of none older than the block number it
\* states (chain.py:285-309).
THEOREM SnapshotsStateTheOldest == Spec => []SnapshotNoOlderThanStated
<1>1. Init => CallInv /\ ReadsInv
  <2>1. Init => \A t \in Thread : thread[t].reads = <<>>
    BY DEF Init, Idle
  <2> QED BY <2>1, InitCall DEF ReadsInv, InOrder
<1>2. CallInv /\ ReadsInv => SnapshotNoOlderThanStated
  <2> SUFFICES ASSUME CallInv, ReadsInv, NEW t \in Thread,
                      NEW i \in 1 .. Len(Live!Reads), NEW j \in 1 .. Len(Live!Reads),
                      i \in DOMAIN thread[t].reads, j \in DOMAIN thread[t].reads,
                      Live!Reads[i] = "block_number"
               PROVE  thread[t].reads[j] >= thread[t].reads[i]
    BY DEF SnapshotNoOlderThanStated
  <2>1. i = 1
    BY DEF Live!Reads
  <2>2. thread[t].reads \in Seq(Nat)
    BY FrameFacts DEF CallInv, Frame
  <2>3. i \in 1 .. Len(thread[t].reads) /\ j \in 1 .. Len(thread[t].reads) /\ i <= j
    BY <2>1, <2>2
  <2>4. thread[t].reads[i] <= thread[t].reads[j]
    BY <2>3 DEF ReadsInv, InOrder
  <2>5. thread[t].reads[i] \in Nat /\ thread[t].reads[j] \in Nat
    BY <2>2, <2>3
  <2> QED BY <2>4, <2>5
<1> QED BY <1>1, <1>2, NextCall, NextReads, PTL DEF Spec

\* What a search comes to, against the runs that were due to it, and when those it names began.
Told(docs, due, m) ==
    /\ due # {} => m.count > Cardinality(due)
    /\ \A e \in due \ m.prior_run_ids :
          /\ Cardinality(m.prior_run_ids) = MaxPriorIds
          /\ \A i \in m.prior_run_ids : docs[i].started_at >= docs[e].started_at

Names(docs, r, m) ==
    \A i \in m.prior_run_ids :
       i \in DOMAIN docs /\ docs[i].started_at + WINDOW >= docs[r].started_at

SeenInv ==
    /\ \A r \in RunId :
          /\ runs[r].started_at <= clock
          /\ r \notin runs[r].earlier /\ runs[r].earlier \subseteq Earlier(runs[r].amount)
          /\ Names(runs, r, runs[r].recurrence)
          /\ failures = 0 /\ Returned(r) /\ runs[r].signed
                => Told(runs, Due(r), runs[r].recurrence)
    /\ \A t \in Thread :
          /\ Run(t) = 0 => thread[t].prior = NoRecurrence
          /\ \A r \in RunId : Run(t) = r =>
                /\ Names(runs, r, thread[t].prior)
                /\ failures = 0 /\ Returned(r) /\ thread[t].step = "sign"
                      => Told(runs, Due(r), thread[t].prior)

LEMMA DueFinite ==
    ASSUME AgentInv, SeenInv, NEW r \in RunId
    PROVE  Due(r) \subseteq RunId /\ IsFiniteSet(Due(r)) /\ Cardinality(Due(r)) \in Nat
<1>1. Due(r) \subseteq RunId
  BY DEF SeenInv, Due, Earlier
<1>2. IsFiniteSet(RunId)
  BY RunFacts, FS_Interval
<1> QED BY <1>1, <1>2, FS_Subset, FS_CardinalityType

\* A search that is given all there is tells of what is due.
LEMMA SearchTells ==
    ASSUME AgentInv, OneStore, SeenInv, NEW t \in Thread, thread[t].step = "find",
           NEW r \in RunId, r = Run(t), NEW found \in Found(t), NEW ids \in Latest(Recent(found)),
           NEW m, m = Recurrence(Recent(found), ids)
    PROVE  Names(runs, r, m) /\ (Returned(r) => Told(runs, Due(r), m))
<1>1. /\ runs[r].amount = thread[t].amount /\ thread[t].store = 1
      /\ \A q \in RunId : runs[q].store = 1
  BY OwnDoc DEF OneStore, InRun, Steps
<1>2. Matches(t) = Earlier(runs[r].amount) \ {r}
  BY <1>1 DEF Matches, Earlier
<1>3. /\ found \subseteq Matches(t) /\ Recent(found) \subseteq found /\ Matches(t) \subseteq RunId
      /\ IsFiniteSet(Recent(found)) /\ IsFiniteSet(Matches(t)) /\ ids \subseteq Recent(found)
      /\ m.prior_run_ids \subseteq Recent(found)
  BY Searches
<1>4. /\ clock \in Nat /\ WINDOW \in Nat /\ FindLimit \in Nat /\ DOMAIN runs = RunId
      /\ \A q \in RunId : runs[q].started_at \in Nat
  BY RunFacts, AgentAssumption DEF AgentInv, Typed, Doc
<1>5. Names(runs, r, m)
  <2>1. \A i \in Recent(found) : i \in RunId /\ runs[i].started_at + WINDOW >= clock
    BY <1>3 DEF Recent
  <2>2. runs[r].started_at <= clock
    BY DEF SeenInv
  <2> QED BY <1>3, <1>4, <2>1, <2>2 DEF Names
<1>6. ASSUME Returned(r) PROVE Told(runs, Due(r), m)
  <2>1. found = Matches(t)
    <3>1. Cardinality(Matches(t)) \in Nat
      BY <1>3, FS_CardinalityType
    <3>2. ~(store.backend = "remote" /\ Cardinality(Matches(t)) > FindLimit)
      BY <1>2, <1>4, <1>6, <3>1 DEF Returned
    <3> QED BY <3>2 DEF Found
  <2>2. Due(r) \subseteq Recent(found)
    BY <1>2, <2>1 DEF SeenInv, Due, Recent
  <2>3. CASE Recent(found) = {}
    BY <2>2, <2>3 DEF Told
  <2>4. CASE Recent(found) # {}
    <3>1. m = [count |-> Cardinality(Recent(found)) + 1, prior_run_ids |-> ids]
      BY <2>4 DEF Recurrence
    <3>2. m.count = Cardinality(Recent(found)) + 1 /\ m.prior_run_ids = ids
      BY <3>1
    <3>3. /\ Cardinality(Due(r)) \in Nat /\ Cardinality(Recent(found)) \in Nat
          /\ Cardinality(Due(r)) <= Cardinality(Recent(found))
      BY <1>3, <2>2, FS_Subset, FS_CardinalityType
    <3>4. \/ ids = Recent(found)
          \/ /\ Cardinality(ids) = MaxPriorIds
             /\ \A i \in ids, e \in Recent(found) \ ids : runs[i].started_at >= runs[e].started_at
      BY DEF Latest
    <3>5. m.count > Cardinality(Due(r))
      BY <3>2, <3>3
    <3> QED BY <2>2, <3>2, <3>4, <3>5 DEF Told
  <2> QED BY <2>3, <2>4
<1> QED BY <1>5, <1>6

\* Documents are added to, time goes on, and the store stays.
Grows ==
    /\ clock <= clock' /\ store' = store /\ RunId \subseteq RunId'
    /\ \A r \in RunId :
          /\ runs'[r].amount = runs[r].amount /\ runs'[r].earlier = runs[r].earlier
          /\ runs'[r].started_at = runs[r].started_at /\ (runs[r].signed => runs'[r].signed)

LEMMA DueShrinks ==
    ASSUME AgentInv, AgentInv', SeenInv, Grows, NEW r \in RunId
    PROVE  Due(r)' \subseteq Due(r) /\ (Returned(r)' => Returned(r))
<1>1. /\ clock \in Nat /\ clock' \in Nat /\ clock <= clock' /\ WINDOW \in Nat
      /\ FindLimit \in Nat /\ \A q \in RunId : runs[q].started_at \in Nat
  BY RunFacts, AgentAssumption DEF AgentInv, Typed, Doc, Grows
<1>2. Due(r)' \subseteq Due(r)
  <2> SUFFICES ASSUME NEW e \in runs'[r].earlier, runs'[e].started_at + WINDOW >= clock'
               PROVE  e \in runs[r].earlier /\ runs[e].started_at + WINDOW >= clock
    BY DEF Due
  <2>1. e \in runs[r].earlier /\ e \in RunId
    BY DEF SeenInv, Earlier, Grows
  <2>2. runs'[e].started_at = runs[e].started_at
    BY <2>1 DEF Grows
  <2> QED BY <1>1, <2>1, <2>2
<1> DEFINE before == Earlier(runs[r].amount) \ {r}
           after == {q \in RunId' : runs'[q].signed /\ runs'[q].amount = runs'[r].amount} \ {r}
<1>3. before \subseteq after /\ IsFiniteSet(after)
  <2>1. before \subseteq after
    BY DEF Grows, Earlier
  <2>2. Len(runs') \in Nat /\ RunId' = 1 .. Len(runs')
    BY LenProperties DEF AgentInv, Typed, RunId
  <2>3. IsFiniteSet(RunId') /\ after \subseteq RunId'
    BY <2>2, FS_Interval
  <2> QED BY <2>1, <2>3, FS_Subset
<1>4. /\ Cardinality(before) \in Nat /\ Cardinality(after) \in Nat
      /\ Cardinality(before) <= Cardinality(after)
  <2> HIDE DEF before, after
  <2>1. IsFiniteSet(before)
    BY <1>3, FS_Subset
  <2> QED BY <1>3, <2>1, FS_Subset, FS_CardinalityType
<1>5. Returned(r) <=> (store.backend = "remote" => Cardinality(before) <= FindLimit)
  BY DEF Returned
<1>6. Returned(r)' <=> (store'.backend = "remote" => Cardinality(after) <= FindLimit)
  BY DEF Returned, Earlier
<1> HIDE DEF before, after
<1>7. Returned(r)' => Returned(r)
  BY <1>1, <1>4, <1>5, <1>6 DEF Grows
<1> QED BY <1>2, <1>7

\* What was told stays told.
LEMMA ToldStays ==
    ASSUME AgentInv, AgentInv', SeenInv, Grows, NEW r \in RunId, NEW m \in Memory,
           Names(runs, r, m)
    PROVE  /\ Names(runs', r, m)
           /\ Returned(r)' /\ (Returned(r) => Told(runs, Due(r), m)) => Told(runs', Due(r)', m)
<1>1. DOMAIN runs = RunId /\ DOMAIN runs' = RunId' /\ RunId \subseteq RunId'
  <2>1. Len(runs') \in Nat /\ DOMAIN runs' = 1 .. Len(runs')
    BY LenProperties DEF AgentInv, Typed
  <2> QED BY <2>1, RunFacts DEF Grows, RunId
<1>2. \A i \in RunId : runs'[i].started_at = runs[i].started_at
  BY DEF Grows
<1>3. m.prior_run_ids \subseteq RunId
  BY <1>1 DEF Names
<1>4. Names(runs', r, m)
  BY <1>1, <1>2, <1>3 DEF Names
<1>5. ASSUME Returned(r)', Returned(r) => Told(runs, Due(r), m)
      PROVE  Told(runs', Due(r)', m)
  <2> DEFINE due == Due(r)
             now == Due(r)'
  <2>1. Told(runs, due, m) /\ now \subseteq due /\ due \subseteq RunId /\ IsFiniteSet(due)
    BY <1>5, DueShrinks, DueFinite
  <2> HIDE DEF due, now
  <2>2. /\ Cardinality(now) \in Nat /\ Cardinality(due) \in Nat
        /\ Cardinality(now) <= Cardinality(due)
    BY <2>1, FS_Subset, FS_CardinalityType
  <2>3. now # {} => m.count > Cardinality(now)
    <3>1. (now # {} => m.count > Cardinality(due)) /\ m.count \in Nat
      BY <2>1 DEF Told, Memory
    <3> QED BY <2>2, <3>1
  <2>4. Told(runs', now, m)
    BY <1>2, <1>3, <2>1, <2>3 DEF Told
  <2> QED BY <2>4 DEF now
<1> QED BY <1>4, <1>5

LEMMA NextSeen == CallInv /\ OneStore /\ SeenInv /\ [Next]_vars => SeenInv'
<1> SUFFICES ASSUME CallInv, OneStore, SeenInv, [Next]_vars PROVE SeenInv'
  OBVIOUS
<1>1. /\ AgentInv /\ AgentInv' /\ failures \in Nat /\ clock \in Nat /\ clock' \in Nat
      /\ \A u \in Thread : Run(u) \in RunId \cup {0} /\ thread[u].prior \in Memory
      /\ \A r \in RunId : runs[r].recurrence \in Memory
  <2>1. AgentInv /\ AgentInv'
    BY NextCall DEF CallInv
  <2>2. failures \in Nat /\ clock \in Nat /\ clock' \in Nat
    BY <2>1 DEF AgentInv, Typed
  <2>3. \A r \in RunId : runs[r].recurrence \in Memory
    BY <2>1, RunFacts DEF Doc
  <2>4. \A u \in Thread : Run(u) \in RunId \cup {0}
    BY <2>1, RunFacts, FrameFacts DEF Place, Run
  <2>5. \A u \in Thread : thread[u].prior \in Memory
    BY <2>1, RunFacts DEF Frame
  <2> QED BY <2>1, <2>2, <2>3, <2>4, <2>5
<1>2. ASSUME NEW r \in RunId, Grows, failures' = 0 => failures = 0,
             runs'[r].signed = runs[r].signed, runs'[r].recurrence = runs[r].recurrence
      PROVE  /\ Names(runs', r, runs'[r].recurrence)
             /\ failures' = 0 /\ Returned(r)' /\ runs'[r].signed
                   => Told(runs', Due(r)', runs'[r].recurrence)
  BY <1>1, <1>2, ToldStays DEF SeenInv
<1>3. ASSUME NEW r \in RunId, Grows
      PROVE  /\ r \in RunId' /\ runs'[r].started_at <= clock' /\ r \notin runs'[r].earlier
             /\ runs'[r].earlier
                   \subseteq {q \in RunId' : runs'[q].signed /\ runs'[q].amount = runs'[r].amount}
  <2>1. runs[r].started_at \in Nat
    BY <1>1, RunFacts DEF Doc
  <2> QED BY <1>1, <1>3, <2>1 DEF SeenInv, Grows, Earlier
<1>4. ASSUME NEW u \in Thread, Grows, failures' = 0 => failures = 0, thread'[u] = thread[u]
      PROVE  /\ thread'[u].run = 0 => thread'[u].prior = NoRecurrence
             /\ \A r \in RunId' : thread'[u].run = r =>
                   /\ Names(runs', r, thread'[u].prior)
                   /\ failures' = 0 /\ Returned(r)' /\ thread'[u].step = "sign"
                         => Told(runs', Due(r)', thread'[u].prior)
  <2>1. thread'[u].run = 0 => thread'[u].prior = NoRecurrence
    BY <1>4 DEF SeenInv, Run
  <2>2. ASSUME NEW r \in RunId', thread'[u].run = r
        PROVE  /\ Names(runs', r, thread'[u].prior)
               /\ failures' = 0 /\ Returned(r)' /\ thread'[u].step = "sign"
                     => Told(runs', Due(r)', thread'[u].prior)
    <3>1. r \in RunId /\ r = Run(u)
      BY <1>1, <1>4, <2>2, LenProperties DEF Run, RunId
    <3> QED BY <1>1, <1>4, <3>1, ToldStays DEF SeenInv
  <2> QED BY <2>1, <2>2
<1>5. NoRecurrence.prior_run_ids = {} /\ \A docs, r : Names(docs, r, NoRecurrence)
  BY DEF NoRecurrence, Names
<1>6. ASSUME NEW t \in Thread, Moves(t), Writes(t), store' = store, clock' = clock
      PROVE  SeenInv'
  <2>1. thread[t] \in Frame /\ Place(thread[t], runs)
    BY <1>1, FrameFacts
  <2>2. failures' = 0 => failures = 0 /\ failures' = failures
    BY <1>1, <1>6 DEF Moves
  <2>3. ASSUME NEW r \in RunId
        PROVE  /\ r \in RunId'
               /\ runs'[r].started_at = runs[r].started_at /\ runs'[r].amount = runs[r].amount
               /\ runs'[r].earlier = runs[r].earlier
               /\ \/ runs'[r].signed = runs[r].signed /\ runs'[r].recurrence = runs[r].recurrence
                  \/ /\ r = Run(t) /\ thread[t].step = "sign"
                     /\ runs'[r].signed /\ runs'[r].recurrence = thread[t].prior
    <3>1. CASE r # Run(t)
      BY <1>1, <1>6, <3>1, WritesFacts
    <3>2. CASE r = Run(t)
      BY <1>1, <1>6, <3>2, WritesFacts DEF OwnWrite
    <3> QED BY <3>1, <3>2
  <2>4. Grows
    BY <1>1, <1>6, <2>3 DEF Grows
  <2>5. ASSUME NEW r \in RunId'
        PROVE  /\ runs'[r].started_at <= clock' /\ r \notin runs'[r].earlier
               /\ runs'[r].earlier
                     \subseteq {q \in RunId' : runs'[q].signed /\ runs'[q].amount = runs'[r].amount}
               /\ Names(runs', r, runs'[r].recurrence)
               /\ failures' = 0 /\ Returned(r)' /\ runs'[r].signed
                     => Told(runs', Due(r)', runs'[r].recurrence)
    <3>1. CASE /\ r \in RunId /\ runs'[r].signed = runs[r].signed
               /\ runs'[r].recurrence = runs[r].recurrence
      BY <1>2, <1>3, <2>2, <2>4, <3>1
    <3>2. CASE /\ r \in RunId /\ r = Run(t) /\ thread[t].step = "sign"
               /\ runs'[r].recurrence = thread[t].prior
      <4> DEFINE m == thread[t].prior
      <4>1. Names(runs, r, m) /\ (failures = 0 /\ Returned(r) => Told(runs, Due(r), m))
        BY <3>2 DEF SeenInv
      <4>2. /\ Names(runs', r, m)
            /\ failures' = 0 /\ Returned(r)' => Told(runs', Due(r)', m)
        BY <1>1, <2>2, <2>4, <3>2, <4>1, ToldStays
      <4> QED BY <1>3, <2>4, <3>2, <4>2
    <3>3. CASE r \notin RunId
      <4>1. runs'[r] = NewDoc(t)
        BY <1>1, <1>6, <3>3, WritesFacts
      <4>2. /\ runs'[r].started_at = clock /\ runs'[r].earlier = Earlier(thread[t].amount)
            /\ runs'[r].amount = thread[t].amount /\ ~runs'[r].signed
            /\ runs'[r].recurrence = NoRecurrence
        BY <4>1 DEF NewDoc
      <4>3. r \notin Earlier(thread[t].amount)
        BY <3>3 DEF Earlier
      <4>4. Earlier(thread[t].amount)
               \subseteq {q \in RunId' : runs'[q].signed /\ runs'[q].amount = runs'[r].amount}
        BY <2>4, <4>2 DEF Earlier, Grows
      <4> QED BY <1>1, <1>5, <1>6, <4>2, <4>3, <4>4
    <3> QED BY <2>3, <3>1, <3>2, <3>3
  <2>6. ASSUME NEW u \in Thread
        PROVE  /\ thread'[u].run = 0 => thread'[u].prior = NoRecurrence
               /\ \A r \in RunId' : thread'[u].run = r =>
                     /\ Names(runs', r, thread'[u].prior)
                     /\ failures' = 0 /\ Returned(r)' /\ thread'[u].step = "sign"
                           => Told(runs', Due(r)', thread'[u].prior)
    <3>1. CASE u # t
      BY <1>4, <1>6, <2>2, <2>4, <3>1 DEF Moves
    <3>2. CASE u = t /\ thread'[t] = Idle
      BY <1>5, <3>2 DEF Idle
    <3>3. CASE u = t /\ GoesOn(t, thread'[t]) /\ thread[t].step = "start"
      <4>1. thread'[t].prior = NoRecurrence
        BY <2>1, <3>3 DEF GoesOn, SeenInv, Place, Run
      <4>2. thread'[t].step # "sign"
        BY <3>3 DEF GoesOn
      <4> QED BY <1>5, <3>3, <4>1, <4>2
    <3>4. CASE u = t /\ GoesOn(t, thread'[t]) /\ thread[t].step = "find"
      <4>1. Run(t) \in RunId /\ thread'[t].run = Run(t)
        BY <1>1, <3>4, OwnDoc DEF GoesOn, InRun, Steps
      <4>2. \/ \E found \in Found(t) : \E ids \in Latest(Recent(found)) :
                  thread'[t].prior = Recurrence(Recent(found), ids)
            \/ failures' # failures /\ thread'[t].prior = thread[t].prior
            \/ thread'[t].step = "guardrail"
        BY <3>4 DEF GoesOn
      <4>3. thread'[t].step # "guardrail"
        BY <3>4 DEF GoesOn, Stops
      <4>4. PICK r \in RunId : r = Run(t)
        BY <4>1
      <4>5. PICK m \in Memory : m = thread'[t].prior
        BY <1>1, <4>2, <4>3, Searches
      <4>6. Names(runs, r, m) /\ (failures' = 0 /\ Returned(r) => Told(runs, Due(r), m))
        <5>1. CASE \E found \in Found(t) : \E ids \in Latest(Recent(found)) :
                      m = Recurrence(Recent(found), ids)
          BY <1>1, <3>4, <4>4, <5>1, SearchTells
        <5>2. CASE failures' # failures /\ m = thread[t].prior
          BY <2>2, <4>4, <5>2 DEF SeenInv
        <5> QED BY <4>2, <4>3, <4>5, <5>1, <5>2
      <4>7. Names(runs', r, m) /\ (failures' = 0 /\ Returned(r)' => Told(runs', Due(r)', m))
        BY <1>1, <2>4, <4>6, ToldStays
      <4>8. thread'[t].run = r /\ r # 0
        BY <1>1, <4>1, <4>4, RunFacts
      <4> QED BY <3>4, <4>5, <4>7, <4>8
    <3>5. CASE u = t /\ GoesOn(t, thread'[t]) /\ thread[t].step \notin {"start", "find"}
      <4>1. /\ thread'[t].run = Run(t) /\ thread'[t].prior = thread[t].prior
            /\ thread'[t].step # "sign"
        BY <3>5 DEF GoesOn
      <4>2. ASSUME NEW r \in RunId', Run(t) = r PROVE Names(runs', r, thread[t].prior)
        <5>1. r \in RunId
          BY <1>1, <4>2, LenProperties DEF RunId
        <5> QED BY <1>1, <2>4, <4>2, <5>1, ToldStays DEF SeenInv
      <4> QED BY <3>5, <4>1, <4>2 DEF SeenInv
    <3> QED BY <1>6, <3>1, <3>2, <3>3, <3>4, <3>5 DEF Moves
  <2> QED BY <2>5, <2>6 DEF SeenInv, Earlier, Run
<1>7. ASSUME NEW t \in Thread, Moves(t), Writes(t), thread[t].step = "create"
      PROVE  SeenInv'
  <2>1. RunId = {} /\ Run(t) = 0
    BY <1>1, <1>7, FrameFacts DEF OneStore, At, Place, Run
  <2>2. runs' = runs /\ RunId' = {}
    BY <1>7, <2>1 DEF Writes, InRun, RunId
  <2>3. ASSUME NEW u \in Thread PROVE thread'[u].run = 0 => thread'[u].prior = NoRecurrence
    <3>1. CASE u # t
      BY <1>7, <3>1 DEF Moves, SeenInv, Run
    <3>2. CASE u = t /\ thread'[t] = Idle
      BY <3>2 DEF Idle
    <3>3. CASE u = t /\ GoesOn(t, thread'[t])
      BY <1>7, <2>1, <3>3 DEF GoesOn, SeenInv
    <3> QED BY <1>7, <3>1, <3>2, <3>3 DEF Moves
  <2> QED BY <2>2, <2>3 DEF SeenInv, Run
<1>8. CASE /\ UNCHANGED <<runs, store, failures>> /\ clock <= clock'
           /\ \A u \in Thread : \/ thread'[u] = thread[u]
                                \/ thread'[u].run = 0 /\ thread'[u].prior = NoRecurrence
  <2>1. RunId' = RunId /\ Grows
    BY <1>8 DEF RunId, Grows
  <2>2. ASSUME NEW r \in RunId
        PROVE  /\ runs'[r].started_at <= clock' /\ r \notin runs'[r].earlier
               /\ runs'[r].earlier
                     \subseteq {q \in RunId' : runs'[q].signed /\ runs'[q].amount = runs'[r].amount}
               /\ Names(runs', r, runs'[r].recurrence)
               /\ failures' = 0 /\ Returned(r)' /\ runs'[r].signed
                     => Told(runs', Due(r)', runs'[r].recurrence)
    BY <1>2, <1>3, <1>8, <2>1
  <2>3. ASSUME NEW u \in Thread
        PROVE  /\ thread'[u].run = 0 => thread'[u].prior = NoRecurrence
               /\ \A r \in RunId' : thread'[u].run = r =>
                     /\ Names(runs', r, thread'[u].prior)
                     /\ failures' = 0 /\ Returned(r)' /\ thread'[u].step = "sign"
                           => Told(runs', Due(r)', thread'[u].prior)
    <3>1. CASE thread'[u] = thread[u]
      BY <1>4, <1>8, <2>1, <3>1
    <3>2. CASE thread'[u].run = 0 /\ thread'[u].prior = NoRecurrence
      <4>1. 0 \notin RunId'
        BY <1>1, <2>1, RunFacts
      <4> QED BY <3>2, <4>1
    <3> QED BY <1>8, <3>1, <3>2
  <2> QED BY <2>1, <2>2, <2>3 DEF SeenInv, Earlier, Run
<1>9. ASSUME NEW t \in Thread, Advance(t), Moves(t), Writes(t), clock' = clock PROVE SeenInv'
  <2>1. CASE Create(t)
    BY <1>7, <1>9, <2>1 DEF Create, At
  <2>2. CASE ~Create(t)
    BY <1>6, <1>9, <2>2, StoreStays
  <2> QED BY <2>1, <2>2
<1>10. Idle.run = 0 /\ Idle.prior = NoRecurrence
  BY DEF Idle
<1> QED BY <1>1, <1>8, <1>9, <1>10, NextMoves

\* Recurrence detection sees earlier runs, in the one store of the process (main.py:34-36):
\* what a call whose search did not fail, and was given all there is, records counts every
\* equal settlement signed before the call began that is in the window yet, and leaves one out
\* by name only for later ones; it names none that was out of the window when the call began.
THEOREM RecurrenceIsSeen == Spec => []RecurrenceSeesEarlier
<1>1. Init => CallInv /\ OneStore /\ SeenInv
  <2>1. Init => RunId = {} /\ \A t \in Thread : thread[t].prior = NoRecurrence
    BY EmptySeq DEF Init, RunId, Idle
  <2> QED BY <2>1, InitCall, InitOnce DEF SeenInv
<1>2. SeenInv => RecurrenceSeesEarlier
  BY DEF SeenInv, RecurrenceSeesEarlier, Told, Names
<1> QED BY <1>1, <1>2, NextCall, NextOnce, NextSeen, PTL DEF Spec

\* A live process that is misconfigured.
Misconfigured ==
    /\ Live!use_chain
    /\ \/ "malformed" \in {environ.rpc_url, environ.settlement_address, environ.oracle_address,
                           environ.settler_address, environ.settle_recipient}
       \/ environ.settle_recipient = "zero"
       \/ environ.settle_recipient = "unset" /\ environ.settler_address \in {"unset", "zero"}

\* Its calls get no further than the pre-check.
StoppedInv ==
    Misconfigured =>
       /\ recent = {}
       /\ \A r \in RunId : runs[r].guardrail \in {"none", "AMOUNT_DOMAIN"}
       /\ \A t \in Thread :
             /\ thread[t].step # "limit"
             /\ thread[t].step = "apply" => thread[t].kind = "redeem"
             /\ thread[t].step = "guardrail" => thread[t].why = "AMOUNT_DOMAIN"

LEMMA MisconfiguredNotReady == Misconfigured => ~Live!DryRunReady
  BY DEF Misconfigured, Live!DryRunReady, Live!validate_chain_config, Live!Recipient

LEMMA RecentStays ==
    ASSUME NEW t \in Thread, Advance(t), thread[t].step # "limit"
    PROVE  recent' = recent
  BY DEF Advance, Create, StartRun, CheckDomain, Precheck, CheckLimiter, ApplySettle,
     ApplyRedeem, ApplyLive, RecordGuardrail, SetData, FindPrior, Sign, SetStatus, Snapshot, At

LEMMA NextStopped == CallInv /\ StoppedInv /\ [Next]_vars => StoppedInv'
<1> SUFFICES ASSUME CallInv, StoppedInv, [Next]_vars, Misconfigured
             PROVE  /\ recent' = {}
                    /\ \A r \in RunId' : runs'[r].guardrail \in {"none", "AMOUNT_DOMAIN"}
                    /\ \A t \in Thread :
                          /\ thread'[t].step # "limit"
                          /\ thread'[t].step = "apply" => thread'[t].kind = "redeem"
                          /\ thread'[t].step = "guardrail" => thread'[t].why = "AMOUNT_DOMAIN"
  <2>1. ASSUME [Next]_vars PROVE Misconfigured' <=> Misconfigured
    BY <2>1, EnvironStays DEF Misconfigured, Live!use_chain
  <2> QED BY <2>1 DEF StoppedInv
<1>1. AgentInv /\ AgentInv' /\ Live!use_chain /\ ~Live!DryRunReady
  BY NextCall, MisconfiguredNotReady DEF CallInv, Misconfigured
<1>2. ASSUME NEW t \in Thread, Advance(t), Moves(t), Writes(t)
      PROVE  /\ recent' = {}
             /\ \A r \in RunId' : runs'[r].guardrail \in {"none", "AMOUNT_DOMAIN"}
             /\ \A u \in Thread :
                   /\ thread'[u].step # "limit"
                   /\ thread'[u].step = "apply" => thread'[u].kind = "redeem"
                   /\ thread'[u].step = "guardrail" => thread'[u].why = "AMOUNT_DOMAIN"
  <2>1. thread[t].step # "limit"
    BY DEF StoppedInv
  <2>2. recent' = {}
    BY <1>2, <2>1, RecentStays DEF StoppedInv
  <2>3. ASSUME NEW r \in RunId' PROVE runs'[r].guardrail \in {"none", "AMOUNT_DOMAIN"}
    <3>1. CASE r \in RunId /\ r # Run(t)
      BY <1>1, <1>2, <3>1, WritesFacts DEF StoppedInv
    <3>2. CASE r \in RunId /\ r = Run(t)
      <4>1. runs[r].guardrail \in {"none", "AMOUNT_DOMAIN"}
        BY <3>2 DEF StoppedInv
      <4>2. runs'[r].guardrail = runs[r].guardrail
              \/ (thread[t].step = "guardrail" /\ runs'[r].guardrail = thread[t].why)
        BY <1>1, <1>2, <3>2, WritesFacts DEF OwnWrite
      <4> QED BY <4>1, <4>2 DEF StoppedInv
    <3>3. CASE r \notin RunId
      <4>1. runs'[r] = NewDoc(t)
        BY <1>1, <1>2, <3>3, WritesFacts
      <4> QED BY <4>1 DEF NewDoc
    <3> QED BY <3>1, <3>2, <3>3
  <2>4. ASSUME NEW u \in Thread
        PROVE  /\ thread'[u].step # "limit"
               /\ thread'[u].step = "apply" => thread'[u].kind = "redeem"
               /\ thread'[u].step = "guardrail" => thread'[u].why = "AMOUNT_DOMAIN"
    <3>1. CASE u # t
      BY <1>2, <3>1 DEF Moves, StoppedInv
    <3>2. CASE u = t /\ thread'[t] = Idle
      BY <3>2 DEF Idle
    <3>3. CASE u = t /\ GoesOn(t, thread'[t])
      BY <1>1, <2>1, <3>3 DEF GoesOn, Stops, StoppedInv
    <3> QED BY <1>2, <3>1, <3>2, <3>3 DEF Moves
  <2> QED BY <2>2, <2>3, <2>4
<1>3. CASE /\ runs' = runs /\ recent' = recent
           /\ \A t \in Thread : \/ thread'[t] = thread[t]
                                \/ thread'[t].step \in {"idle", "create", "start", "snapshot"}
  <2>1. RunId' = RunId
    BY <1>3 DEF RunId
  <2> QED BY <1>3, <2>1 DEF StoppedInv
<1> QED BY <1>2, <1>3, NextMoves

\* A live mode that is misconfigured costs nothing (chain.py:236): no settlement takes a slot
\* of the limiter, or is decided on but for its amount.
THEOREM MisconfiguredIsFree == Spec => []MisconfiguredCostsNothing
<1>1. Init => CallInv /\ StoppedInv
  <2>1. Init => RunId = {} /\ recent = {} /\ \A t \in Thread : thread[t].step = "idle"
    BY EmptySeq DEF Init, RunId, Idle, Limiter!LimiterInit
  <2> QED BY <2>1, InitCall DEF StoppedInv
<1>2. StoppedInv => MisconfiguredCostsNothing
  BY DEF StoppedInv, MisconfiguredCostsNothing, Misconfigured
<1> QED BY <1>1, <1>2, NextCall, NextStopped, PTL DEF Spec

------------------------------------------------------------------------------
(* The limiter's table, and the offline ledger. *)

\* The table is finite, so that it has a size.
Bounded == IsFiniteSet(DOMAIN cycleCounts) /\ TableBounded

LEMMA SameWords ==
    /\ \A S : Limiter!Cardinality(S) = Cardinality(S)
    /\ \A S : Limiter!Min(S) = Min(S)
<1>1. \A S : Limiter!Cardinality(S) = Cardinality(S)
  BY Zenon DEF Limiter!Cardinality, Cardinality
<1>2. \A S : Limiter!Min(S) = Min(S)
  BY Zenon DEF Limiter!Min, Min
<1> QED BY <1>1, <1>2

LEMMA KeptIsBounded ==
    ASSUME NEW kept \in Limiter!Kept(clock), IsFiniteSet(DOMAIN cycleCounts), NEW run
    PROVE  /\ IsFiniteSet(kept \cup {run})
           /\ Cardinality(kept) <= MAX_TRACKED_CYCLES
           /\ Cardinality(kept \cup {run}) <= MAX_TRACKED_CYCLES + 1
           /\ IsFiniteSet(kept)
<1> DEFINE live == {r \in DOMAIN cycleCounts : clock - cycleCounts[r].seen <= CYCLE_TTL_SECONDS}
           n == Cardinality(live)
<1>1. kept \in SUBSET live /\ Cardinality(kept) = Min({n, MAX_TRACKED_CYCLES})
  BY SameWords DEF Limiter!Kept
<1>2. IsFiniteSet(live) /\ n \in Nat
  BY FS_Subset, FS_CardinalityType
<1>3. IsFiniteSet(kept) /\ Cardinality(kept) \in Nat
  BY <1>1, <1>2, FS_Subset, FS_CardinalityType
<1> HIDE DEF n
<1>4. MAX_TRACKED_CYCLES \in Nat
  BY AgentAssumption
<1>5. Cardinality(kept) <= MAX_TRACKED_CYCLES
  <2>1. \E x \in {n, MAX_TRACKED_CYCLES} : \A y \in {n, MAX_TRACKED_CYCLES} : x <= y
    BY <1>2, <1>4
  <2>2. \A y \in {n, MAX_TRACKED_CYCLES} : Min({n, MAX_TRACKED_CYCLES}) <= y
    BY <2>1 DEF Min
  <2> QED BY <1>1, <2>2
<1>6. /\ IsFiniteSet(kept \cup {run})
      /\ Cardinality(kept \cup {run})
            = IF run \in kept THEN Cardinality(kept) ELSE Cardinality(kept) + 1
  BY <1>3, FS_AddElement
<1> QED BY <1>3, <1>4, <1>5, <1>6

LEMMA NextBounded == Bounded /\ [Next]_vars => Bounded'
<1> SUFFICES ASSUME Bounded, [Next]_vars PROVE Bounded'
  OBVIOUS
<1>1. CASE UNCHANGED cycleCounts
  BY <1>1 DEF Bounded, TableBounded
<1>2. ASSUME NEW t \in Thread, CheckLimiter(t) PROVE Bounded'
  <2>1. ASSUME Limiter!CheckAllows(Run(t), clock) PROVE Bounded'
    <3>1. PICK kept \in Limiter!Kept(clock) : cycleCounts' = Limiter!Counted(Run(t), clock, kept)
      BY <2>1 DEF Limiter!CheckAllows
    <3>2. DOMAIN cycleCounts' = kept \cup {Run(t)}
      BY <3>1 DEF Limiter!Counted
    <3> QED BY <3>2, KeptIsBounded DEF Bounded, TableBounded
  <2>2. ASSUME Limiter!CheckBlocks(Run(t), clock) PROVE Bounded'
    <3>1. PICK kept \in Limiter!Kept(clock) : cycleCounts' = [r \in kept |-> cycleCounts[r]]
      BY <2>2 DEF Limiter!CheckBlocks
    <3>2. DOMAIN cycleCounts' = kept
      BY <3>1
    <3>3. Cardinality(kept) \in Nat /\ MAX_TRACKED_CYCLES \in Nat
      BY KeptIsBounded, FS_CardinalityType, AgentAssumption DEF Bounded
    <3>4. IsFiniteSet(kept) /\ Cardinality(kept) <= MAX_TRACKED_CYCLES
      BY KeptIsBounded DEF Bounded
    <3> QED BY <3>2, <3>3, <3>4 DEF Bounded, TableBounded
  <2> QED BY <1>1, <1>2, <2>1, <2>2 DEF CheckLimiter
<1>3. ASSUME NEW t \in Thread, Advance(t) PROVE CheckLimiter(t) \/ UNCHANGED cycleCounts
  BY <1>3 DEF Advance, Create, StartRun, CheckDomain, Precheck, ApplySettle, ApplyRedeem,
     ApplyLive, RecordGuardrail, SetData, FindPrior, Sign, SetStatus, Snapshot
<1>4. OtherNext \/ UNCHANGED vars => UNCHANGED cycleCounts
  BY OtherKinds
<1> QED BY <1>1, <1>2, <1>3, <1>4, NextKinds DEF Propose, Status

\* Every thread is at a step of its call, in a run of its own that is not concluded
\* (main.py:84-149), whatever its store and its node do to it, and the limiter's table, cut
\* to its ceiling before an insertion, stands at one over it at most (guardrails.py:196-199).
THEOREM AgentTypes == Spec => []TypeOK
<1>1. Init => Bounded
  <2>1. Init => DOMAIN cycleCounts = {}
    BY DEF Init, Limiter!LimiterInit
  <2> QED BY <2>1, FS_EmptySet, AgentAssumption DEF Bounded, TableBounded
<1>2. CallInv /\ OneStore /\ Bounded => TypeOK
  BY TypesFollow DEF Bounded, CallInv, OneStore, NoStore
<1> QED BY <1>1, <1>2, InitCall, NextCall, InitOnce, NextOnce, NextBounded, PTL DEF Spec

\* Debt is never booked under an attestation still to come.
BookedInv == AgentInv /\ chain.redemption_debt_id <= chain.attestation_id

Charged == chain.supply + NettedDebt

LEMMA SettledCharges ==
    ASSUME BookedInv, NEW amount \in Nat \ {0}, ~would_revert(amount), chain' = Settled(amount)
    PROVE  Budget!Settle /\ chain'.redemption_debt_id <= chain'.attestation_id
<1>1. chain \in Chain /\ UINT256_MAX \in Nat
  BY AgentAssumption DEF BookedInv, AgentInv, Typed
<1>2. /\ chain.supply \in Nat /\ chain.reserves \in Nat /\ chain.pending_redemptions \in Nat
      /\ chain.attestation_id \in Nat /\ chain.redemption_debt_id \in Nat
  BY <1>1 DEF Chain, Word
<1>3. /\ chain'.supply = chain.supply + amount /\ chain'.reserves = chain.reserves
      /\ chain'.attestation_id = chain.attestation_id
      /\ chain'.redemption_debt_id = chain.redemption_debt_id
      /\ chain'.pending_redemptions = IF chain.attestation_id > chain.redemption_debt_id
                                      THEN 0 ELSE chain.pending_redemptions
  BY <1>1 DEF Settled, Chain
<1>4. NettedDebt \in Nat /\ NettedDebt' = NettedDebt
  BY <1>2, <1>3 DEF NettedDebt
<1>5. chain.supply + amount <= effective_reserves
  <2>1. effective_reserves \in Nat
    BY <1>2, <1>4 DEF effective_reserves
  <2> QED BY <1>2, <2>1 DEF would_revert
<1>6. chain.supply + amount + NettedDebt <= chain.reserves
  BY <1>2, <1>4, <1>5 DEF effective_reserves
<1>7. chain'.supply + NettedDebt' = chain.supply + NettedDebt + amount
  BY <1>2, <1>3, <1>4
<1> QED BY <1>2, <1>3, <1>4, <1>6, <1>7 DEF Budget!Settle, BookedInv

LEMMA RedeemedCharges ==
    ASSUME BookedInv, NEW amount \in Nat \ {0}, amount <= chain.supply, chain' = Redeemed(amount)
    PROVE  Budget!Redeem /\ chain'.redemption_debt_id <= chain'.attestation_id
<1>1. chain \in Chain
  BY DEF BookedInv, AgentInv, Typed
<1>2. /\ chain.supply \in Nat /\ chain.reserves \in Nat /\ chain.pending_redemptions \in Nat
      /\ chain.attestation_id \in Nat /\ chain.redemption_debt_id \in Nat
  BY <1>1 DEF Chain, Word
<1>3. CASE chain.attestation_id > chain.redemption_debt_id
  <2>1. /\ chain'.supply = chain.supply - amount /\ chain'.reserves = chain.reserves
        /\ chain'.attestation_id = chain.attestation_id
        /\ chain'.redemption_debt_id = chain.attestation_id
        /\ chain'.pending_redemptions = amount
    BY <1>1, <1>3 DEF Redeemed, Chain
  <2>2. NettedDebt = 0 /\ NettedDebt' = amount
    BY <1>2, <1>3, <2>1 DEF NettedDebt
  <2> QED BY <1>2, <2>1, <2>2 DEF Budget!Redeem
<1>4. CASE ~(chain.attestation_id > chain.redemption_debt_id)
  <2>1. /\ chain'.supply = chain.supply - amount /\ chain'.reserves = chain.reserves
        /\ chain'.attestation_id = chain.attestation_id
        /\ chain'.redemption_debt_id = chain.redemption_debt_id
        /\ chain'.pending_redemptions = chain.pending_redemptions + amount
    BY <1>1, <1>4 DEF Redeemed, Chain
  <2>2. NettedDebt = chain.pending_redemptions
        /\ NettedDebt' = chain.pending_redemptions + amount
    BY <1>2, <1>4, <2>1 DEF NettedDebt
  <2> QED BY <1>2, <2>1, <2>2 DEF Budget!Redeem, BookedInv
<1> QED BY <1>3, <1>4

LEMMA AttestedCharges ==
    ASSUME BookedInv, NEW r \in Figure, NEW ts \in ChainTime, SetReserves(r, ts)
    PROVE  Budget!NewProof /\ chain'.redemption_debt_id <= chain'.attestation_id
<1>1. chain \in Chain
  BY DEF BookedInv, AgentInv, Typed
<1>2. chain.attestation_id \in Nat /\ chain.redemption_debt_id \in Nat /\ chain.supply \in Nat
  BY <1>1 DEF Chain, Word
<1>3. chain' = [chain EXCEPT !.reserves = r, !.attested_at = ts,
                             !.attestation_id = chain.attestation_id + 1]
  BY DEF SetReserves
<1>4. /\ chain'.supply = chain.supply /\ chain'.reserves = r
      /\ chain'.attestation_id = chain.attestation_id + 1
      /\ chain'.redemption_debt_id = chain.redemption_debt_id
  BY <1>1, <1>3 DEF Chain
<1>5. NettedDebt' = 0
  BY <1>2, <1>4 DEF NettedDebt, BookedInv
<1>6. r \in Nat
  BY AgentAssumption
<1> QED BY <1>2, <1>4, <1>5, <1>6 DEF Budget!NewProof, BookedInv

LEMMA StepCharges ==
    ASSUME BookedInv, [Next]_vars
    PROVE  BookedInv' /\ [Budget!Next]_<<chain.supply, Charged, chain.reserves>>
<1>1. AgentInv' /\ AgentInv
  BY NextAgent DEF BookedInv
<1>2. ASSUME UNCHANGED chain
      PROVE  BookedInv' /\ UNCHANGED <<chain.supply, Charged, chain.reserves>>
  BY <1>1, <1>2 DEF BookedInv, Charged, NettedDebt
<1>3. ASSUME NEW t \in Thread, Advance(t)
      PROVE  \/ UNCHANGED chain
             \/ /\ Budget!Settle \/ Budget!Redeem
                /\ chain'.redemption_debt_id <= chain'.attestation_id
  <2>1. ASSUME ApplySettle(t) \/ ApplyRedeem(t)
        PROVE  Units(t) \in Nat \ {0}
    <3>1. thread[t].step = "apply"
      BY <2>1 DEF ApplySettle, ApplyRedeem, At
    <3>2. thread[t].amount > 0 /\ Units(t) \in Int /\ Units(t) > 0
      BY <1>1, <3>1, FrameFacts DEF Place
    <3> QED BY <3>2
  <2>2. CASE ApplySettle(t)
    BY <2>1, <2>2, SettledCharges DEF ApplySettle
  <2>3. CASE ApplyRedeem(t)
    <3>1. chain.supply \in Nat
      BY <1>1 DEF AgentInv, Typed, Chain, Word
    <3> QED BY <2>1, <2>3, <3>1, RedeemedCharges DEF ApplyRedeem
  <2>4. CASE ~ApplySettle(t) /\ ~ApplyRedeem(t)
    BY <1>3, <2>4 DEF Advance, Create, StartRun, CheckDomain, Precheck, CheckLimiter,
       ApplyLive, RecordGuardrail, SetData, FindPrior, Sign, SetStatus, Snapshot
  <2> QED BY <2>2, <2>3, <2>4
<1>4. ASSUME OtherNext \/ UNCHANGED vars
      PROVE  \/ UNCHANGED <<chain.supply, Charged, chain.reserves>>
                /\ chain'.redemption_debt_id <= chain'.attestation_id
             \/ Budget!NewProof /\ chain'.redemption_debt_id <= chain'.attestation_id
  <2>1. ASSUME NEW ts \in ChainTime, SetNow(ts)
        PROVE  /\ UNCHANGED <<chain.supply, Charged, chain.reserves>>
               /\ chain'.redemption_debt_id <= chain'.attestation_id
    <3>1. chain \in Chain /\ chain' = [chain EXCEPT !.now = ts]
      BY <1>1, <2>1 DEF AgentInv, Typed, SetNow
    <3>2. /\ chain'.supply = chain.supply /\ chain'.reserves = chain.reserves
          /\ chain'.attestation_id = chain.attestation_id
          /\ chain'.redemption_debt_id = chain.redemption_debt_id
          /\ chain'.pending_redemptions = chain.pending_redemptions
      BY <3>1 DEF Chain
    <3> QED BY <3>2 DEF Charged, NettedDebt, BookedInv
  <2> QED BY <1>2, <1>4, <2>1, OtherKinds, AttestedCharges DEF BookedInv
<1>5. ASSUME NEW t \in Thread,
             \/ Status(t)
             \/ \E kind \in {"settle", "redeem"}, amount \in UsdcAmount : Propose(t, kind, amount)
      PROVE  UNCHANGED chain
  BY <1>5 DEF Status, Propose
<1> QED BY <1>1, <1>2, <1>3, <1>4, <1>5, NextKinds DEF Budget!Next, BookedInv

\* The offline model spends its attestations the way the contract does, with any number of
\* threads on it (chain.py:155-160, main.py:113-118).
THEOREM OfflineImplementsBudget == Spec => OfflineKeepsBudget
<1>1. Init => BookedInv /\ Budget!Init
  <2>1. Init => /\ chain.supply = 0 /\ chain.reserves = DefaultReserves
                /\ chain.attestation_id = 1 /\ chain.redemption_debt_id = 0
    BY DEF Init
  <2>2. Init => NettedDebt = 0
    BY <2>1 DEF NettedDebt
  <2>3. DefaultReserves \in Nat
    BY AgentAssumption
  <2> QED BY <2>1, <2>2, <2>3, InitAgent DEF BookedInv, Budget!Init
<1>2. BookedInv /\ [Next]_vars
         => BookedInv' /\ [Budget!Next]_<<chain.supply, chain.supply + NettedDebt, chain.reserves>>
  BY StepCharges DEF Charged
<1> QED BY <1>1, <1>2, PTL DEF Spec, OfflineKeepsBudget, Budget!Spec
------------------------------------------------------------------------------
(* The audit trail and the ledger.  made is the set of the runs whose change *)
(* is on the ledger, those cut short by an exception included.               *)

Pairs(kind, made) ==
    UNION {{r} \X (1 .. runs[r].amount) : r \in {q \in made : runs[q].kind = kind}}

Moved(kind, made) == ONE * Cardinality(Pairs(kind, made))

Early == {"idle", "create", "start", "domain", "precheck", "limit", "apply"}

\* A call inside a run knows whether it has made the run's change.
Tells(f, docs, made) ==
    /\ f.run = 0 \/ f.step \in Early => f.why = "none"
    /\ f.run # 0 => /\ docs[f.run].kind = f.kind
                    /\ f.run \in made <=> f.why \in {"settle", "redeem"}
                    /\ f.why \in {"settle", "redeem"} => f.why = f.kind

\* So does the document of a run that is concluded.
Accounts(docs, r, made) ==
    docs[r].status # "started" =>
       /\ r \in made <=> docs[r].status \in {"settled", "redeemed"}
       /\ r \in made => docs[r].status = Decision[docs[r].kind]

Accounted(made) ==
    /\ made \subseteq RunId
    /\ \A t \in Thread : Tells(thread[t], runs, made)
    /\ \A r \in RunId : Accounts(runs, r, made)
    /\ chain.supply = Moved("settle", made) - Moved("redeem", made)

LEMMA Changes ==
    ASSUME NEW w \in Why \ {"none"}
    PROVE  Decision[w] \in {"settled", "redeemed"} <=> w \in {"settle", "redeem"}
<1>1. /\ Decision["AMOUNT_DOMAIN"] = "rejected" /\ Decision["RESERVE_GATE"] = "refused"
      /\ Decision["ACTION_LIMITER"] = "blocked" /\ Decision["REDEEM"] = "refused"
      /\ Decision["settle"] = "settled" /\ Decision["redeem"] = "redeemed"
  BY DEF Decision
<1> QED BY <1>1 DEF Why

LEMMA UptoIsFinite ==
    ASSUME NEW n \in Int
    PROVE  IsFiniteSet(1 .. n) /\ (n \in Nat => Cardinality(1 .. n) = n)
<1>1. IsFiniteSet(1 .. n) /\ Cardinality(1 .. n) = IF 1 > n THEN 0 ELSE n - 1 + 1
  BY FS_Interval
<1> QED BY <1>1

LEMMA PairsFinite ==
    ASSUME AgentInv, NEW made \in SUBSET RunId, NEW kind
    PROVE  IsFiniteSet(Pairs(kind, made)) /\ Cardinality(Pairs(kind, made)) \in Nat
<1> DEFINE of == {q \in made : runs[q].kind = kind}
           sets == {{r} \X (1 .. runs[r].amount) : r \in of}
<1>1. IsFiniteSet(of)
  <2>1. IsFiniteSet(RunId)
    BY RunFacts, FS_Interval
  <2>2. of \in SUBSET RunId
    OBVIOUS
  <2> HIDE DEF of
  <2> QED BY <2>1, <2>2, FS_Subset
<1>2. \A r \in of : IsFiniteSet({r} \X (1 .. runs[r].amount))
  <2>1. ASSUME NEW r \in of
        PROVE  IsFiniteSet({r} \X (1 .. runs[r].amount))
    <3>1. runs[r].amount \in Int
      BY RunFacts DEF Doc
    <3>2. IsFiniteSet({r})
      BY FS_Singleton
    <3>3. IsFiniteSet(1 .. runs[r].amount)
      BY <3>1, UptoIsFinite
    <3> QED BY <3>2, <3>3, FS_Product
  <2> QED BY <2>1
<1> HIDE DEF of
<1>3. IsFiniteSet(sets)
  <2> DEFINE f == [r \in of |-> {r} \X (1 .. runs[r].amount)]
  <2>1. f \in Surjection(of, sets)
    BY DEF Surjection
  <2> HIDE DEF f, sets
  <2> QED BY <1>1, <2>1, FS_Surjection
<1>4. \A T \in sets : IsFiniteSet(T)
  BY <1>2
<1> HIDE DEF sets
<1>5. IsFiniteSet(UNION sets)
  BY <1>3, <1>4, FS_UNION
<1> QED BY <1>5, FS_CardinalityType DEF Pairs, sets, of

LEMMA MovedType ==
    ASSUME AgentInv, NEW made \in SUBSET RunId, NEW kind
    PROVE  Moved(kind, made) \in Int
<1>1. Cardinality(Pairs(kind, made)) \in Nat /\ ONE \in Nat
  BY PairsFinite, AgentAssumption
<1>2. \A a, b \in Nat : a * b \in Int
  OBVIOUS
<1> QED BY <1>1, <1>2 DEF Moved

\* One more run moves its amount.
LEMMA MovedOne ==
    ASSUME AgentInv, NEW made \in SUBSET RunId, NEW r \in RunId \ made, runs[r].amount > 0
    PROVE  /\ Moved(runs[r].kind, made \cup {r})
                 = Moved(runs[r].kind, made) + runs[r].amount * ONE
           /\ \A kind : kind # runs[r].kind => Moved(kind, made \cup {r}) = Moved(kind, made)
<1> DEFINE kind == runs[r].kind
           n == runs[r].amount
           own == {r} \X (1 .. n)
<1>1. n \in Nat /\ n > 0 /\ ONE \in Nat
  <2>1. runs[r] \in Doc /\ ONE \in Nat
    BY RunFacts, AgentAssumption
  <2>2. runs[r].amount \in Int
    BY <2>1 DEF Doc
  <2> QED BY <2>1, <2>2
<1>2. IsFiniteSet(own) /\ Cardinality(own) = n
  <2>1. IsFiniteSet({r}) /\ Cardinality({r}) = 1
    BY FS_Singleton
  <2>2. IsFiniteSet(1 .. n) /\ Cardinality(1 .. n) = n
    BY <1>1, UptoIsFinite
  <2>3. IsFiniteSet(own) /\ Cardinality(own) = 1 * n
    BY <2>1, <2>2, FS_Product
  <2> QED BY <1>1, <2>3
<1>3. Pairs(kind, made \cup {r}) = Pairs(kind, made) \cup own
  BY DEF Pairs
<1>4. Pairs(kind, made) \cap own = {}
  BY DEF Pairs
<1>5. \A k : k # kind => Pairs(k, made \cup {r}) = Pairs(k, made)
  BY DEF Pairs
<1> DEFINE before == Pairs(kind, made)
<1>6. IsFiniteSet(before) /\ Cardinality(before) \in Nat
  BY PairsFinite
<1> HIDE DEF own, n, before
<1>7. Cardinality(before \cup own) = Cardinality(before) + n
  <2>1. Cardinality(before \cap own) = 0
    BY <1>4, FS_EmptySet DEF before
  <2>2. Cardinality(before \cup own)
           = Cardinality(before) + Cardinality(own) - Cardinality(before \cap own)
    BY <1>2, <1>6, FS_Union
  <2> QED BY <1>1, <1>2, <1>6, <2>1, <2>2
<1>8. \A a, b \in Nat : ONE * (a + b) = ONE * a + b * ONE
  BY <1>1
<1>9. ONE * Cardinality(before \cup own) = ONE * Cardinality(before) + n * ONE
  BY <1>1, <1>6, <1>7, <1>8
<1> QED BY <1>3, <1>5, <1>9 DEF Moved, before, n

LEMMA MovedStays ==
    ASSUME NEW made \in SUBSET RunId, NEW kind,
           \A r \in RunId : runs'[r].kind = runs[r].kind /\ runs'[r].amount = runs[r].amount
    PROVE  Moved(kind, made)' = Moved(kind, made)
<1>1. Pairs(kind, made)' = Pairs(kind, made)
  BY DEF Pairs
<1> QED BY <1>1 DEF Moved

\* A step of thread t that changes its own document at most, and no supply.
LEMMA StepAccounted ==
    ASSUME AgentInv, NEW made, Accounted(made), NEW t \in Thread,
           \A u \in Thread \ {t} : thread'[u] = thread[u],
           Len(runs') \in Nat, Len(runs) <= Len(runs'),
           \A r \in RunId : runs'[r].kind = runs[r].kind /\ runs'[r].amount = runs[r].amount,
           \A r \in RunId : r # Run(t) => runs'[r] = runs[r],
           \A r \in RunId' : r = Run(t) \/ r \notin RunId => Accounts(runs', r, made),
           Tells(thread'[t], runs', made), chain'.supply = chain.supply
    PROVE  Accounted(made)'
<1>1. Len(runs) \in Nat /\ RunId = 1 .. Len(runs) /\ RunId' = 1 .. Len(runs')
  BY RunFacts DEF RunId
<1>2. made \subseteq RunId /\ made \subseteq RunId'
  BY <1>1 DEF Accounted
<1>3. ASSUME NEW u \in Thread \ {t}
      PROVE  Tells(thread'[u], runs', made)
  <2>1. Tells(thread[u], runs, made) /\ thread[u].run \in 0 .. Len(runs)
    BY FrameFacts DEF Accounted, Place
  <2>2. thread[u].run # 0 => runs'[thread[u].run].kind = runs[thread[u].run].kind
    BY <1>1, <2>1
  <2> QED BY <2>1, <2>2 DEF Tells
<1>4. \A r \in RunId' : Accounts(runs', r, made)
  BY <1>1 DEF Accounted, Accounts
<1>5. chain'.supply = Moved("settle", made)' - Moved("redeem", made)'
  BY <1>2, MovedStays DEF Accounted
<1> QED BY <1>2, <1>3, <1>4, <1>5 DEF Accounted

LEMMA GoAccounted ==
    ASSUME AgentInv, NEW made, Accounted(made), NEW t \in Thread,
           \A u \in Thread \ {t} : thread'[u] = thread[u],
           UNCHANGED runs, Tells(thread'[t], runs, made), chain'.supply = chain.supply
    PROVE  Accounted(made)'
<1>1. Len(runs) \in Nat /\ RunId' = RunId
  BY RunFacts DEF RunId
<1> QED BY <1>1, StepAccounted DEF Accounted

LEMMA IdleTells == ASSUME NEW docs, NEW made PROVE Tells(Idle, docs, made)
  BY DEF Idle, Tells


LEMMA RaiseAccounted ==
    ASSUME AgentInv, NEW made, Accounted(made), NEW t \in Thread, Raises(t),
           UNCHANGED <<chain, runs>>
    PROVE  Accounted(made)'
<1>1. thread'[t] = Idle /\ \A u \in Thread \ {t} : thread'[u] = thread[u]
  BY RaiseKeeps
<1> QED BY <1>1, IdleTells, GoAccounted

LEMMA GotoAccounted ==
    ASSUME AgentInv, NEW made, Accounted(made), NEW t \in Thread, NEW s, Goto(t, s),
           UNCHANGED <<chain, runs>>, s \in Early => thread[t].step \in Early
    PROVE  Accounted(made)'
<1>1. thread[t] \in Frame /\ Tells(thread[t], runs, made)
  BY FrameFacts DEF Accounted
<1>2. /\ thread'[t] = [thread[t] EXCEPT !.step = s]
      /\ \A u \in Thread \ {t} : thread'[u] = thread[u]
  BY DEF Goto, AgentInv, Typed
<1>3. /\ thread'[t].run = thread[t].run /\ thread'[t].why = thread[t].why
      /\ thread'[t].kind = thread[t].kind /\ thread'[t].step = s
  BY <1>1, <1>2 DEF Frame
<1>4. Tells(thread'[t], runs, made)
  BY <1>1, <1>3 DEF Tells
<1> QED BY <1>2, <1>4, GoAccounted

LEMMA ConcludeAccounted ==
    ASSUME AgentInv, NEW made, Accounted(made), NEW t \in Thread,
           NEW w \in Why \ {"none", "settle", "redeem"}, Conclude(t, w),
           thread[t].step \in Early \cap InRun, UNCHANGED <<chain, runs>>
    PROVE  Accounted(made)'
<1>1. thread[t] \in Frame /\ Tells(thread[t], runs, made) /\ Run(t) # 0
  BY FrameFacts DEF Accounted, Place, Run
<1>2. /\ thread'[t] = [thread[t] EXCEPT !.step = "guardrail", !.why = w,
                               !.shows = At(t, "precheck") /\ Live!use_chain]
      /\ \A u \in Thread \ {t} : thread'[u] = thread[u]
  BY ConcludeKeeps
<1>3. /\ thread'[t].run = thread[t].run /\ thread'[t].why = w
      /\ thread'[t].kind = thread[t].kind /\ thread'[t].step = "guardrail"
  BY <1>1, <1>2 DEF Frame
<1>4. Tells(thread'[t], runs, made)
  BY <1>1, <1>3 DEF Tells, Early, Run
<1> QED BY <1>2, <1>4, GoAccounted

\* A call of the store that writes docs, or fails before or after it does.
LEMMA WriteAccounted ==
    ASSUME AgentInv, NEW made, Accounted(made), NEW t \in Thread,
           NEW docs \in Seq(Doc), NEW f, Write(t, docs, f), UNCHANGED chain,
           Len(runs) <= Len(docs),
           \A r \in RunId : docs[r].kind = runs[r].kind /\ docs[r].amount = runs[r].amount,
           \A r \in RunId : r # Run(t) => docs[r] = runs[r],
           \A r \in 1 .. Len(docs) : r = Run(t) \/ r \notin RunId => Accounts(docs, r, made),
           Tells(f, docs, made)
    PROVE  Accounted(made)'
<1>1. /\ Len(runs) \in Nat /\ RunId = 1 .. Len(runs) /\ RunId' = 1 .. Len(runs')
      /\ Len(docs) \in Nat
  BY RunFacts, LenProperties DEF RunId
<1>2. CASE thread' = [thread EXCEPT ![t] = Idle] /\ runs' = runs
  <2>1. Raises(t)
    BY <1>2 DEF Raises
  <2> QED BY <1>2, <2>1, RaiseAccounted
<1>3. ASSUME NEW g \in {Idle, f}, thread' = [thread EXCEPT ![t] = g], runs' = docs
      PROVE  Accounted(made)'
  <2>1. thread'[t] = g /\ \A u \in Thread \ {t} : thread'[u] = thread[u]
    BY <1>3 DEF AgentInv, Typed
  <2>2. Tells(thread'[t], runs', made)
    BY <1>3, <2>1, IdleTells
  <2> QED BY <1>1, <1>3, <2>1, <2>2, StepAccounted
<1> QED BY <1>2, <1>3 DEF Write

\* The document of the thread's own run is written as d, and the call goes on as f.
LEMMA DocAccounted ==
    ASSUME AgentInv, NEW made, Accounted(made), NEW t \in Thread,
           thread[t].step \in InRun \ Early,
           NEW d \in Doc, d.kind = runs[Run(t)].kind, d.amount = runs[Run(t)].amount,
           d.status \in {"started", Decision[thread[t].why]},
           NEW f, \/ f = Idle
                  \/ /\ f.run = Run(t) /\ f.kind = thread[t].kind /\ f.why = thread[t].why
                     /\ f.step \notin Early,
           Write(t, [runs EXCEPT ![Run(t)] = d], f), UNCHANGED chain
    PROVE  Accounted(made)'
<1> DEFINE docs == [runs EXCEPT ![Run(t)] = d]
<1>1. /\ thread[t] \in Frame /\ Tells(thread[t], runs, made) /\ thread[t].why # "none"
  BY FrameFacts DEF Accounted, Place, InRun, Early, Steps
<1>2. Run(t) \in RunId /\ Run(t) # 0
  BY OwnDoc, RunFacts
<1>3. /\ docs \in Seq(Doc) /\ Len(docs) = Len(runs) /\ docs[Run(t)] = d
      /\ \A r \in RunId \ {Run(t)} : docs[r] = runs[r]
  BY <1>2, DocChange
<1>4. Write(t, docs, f)
  OBVIOUS
<1> HIDE DEF docs
<1>5. Accounts(docs, Run(t), made)
  <2>1. /\ Run(t) \in made <=> thread[t].why \in {"settle", "redeem"}
        /\ thread[t].why \in {"settle", "redeem"} => thread[t].why = d.kind
    BY <1>1, <1>2 DEF Tells, Run
  <2>2. d.status # "started"
           => (d.status \in {"settled", "redeemed"} <=> thread[t].why \in {"settle", "redeem"})
    BY <1>1, Changes DEF Frame
  <2> QED BY <1>3, <2>1, <2>2 DEF Accounts
<1>6. Tells(f, docs, made)
  <2>1. CASE f = Idle
    BY <2>1, IdleTells
  <2>2. CASE f # Idle
    BY <1>1, <1>2, <1>3, <2>2 DEF Tells, Run
  <2> QED BY <2>1, <2>2
<1>7. Len(runs) \in Nat /\ RunId = 1 .. Len(runs)
  BY RunFacts
<1> QED BY <1>3, <1>4, <1>5, <1>6, <1>7, WriteAccounted

LEMMA StartRunAccounted ==
    ASSUME AgentInv, NEW made, Accounted(made), NEW t \in Thread, StartRun(t)
    PROVE  Accounted(made)'
<1> DEFINE f == [thread[t] EXCEPT !.step = "domain", !.run = Len(runs) + 1]
           docs == Append(runs, NewDoc(t))
<1>1. /\ thread[t] \in Frame /\ Tells(thread[t], runs, made) /\ thread[t].step = "start"
      /\ Run(t) = 0
  BY FrameFacts DEF StartRun, At, Accounted, Place, Run
<1>2. Len(runs) \in Nat /\ RunId = 1 .. Len(runs) /\ made \subseteq RunId
  BY RunFacts DEF Accounted
<1>3. /\ f.step = "domain" /\ f.run = Len(runs) + 1
      /\ f.kind = thread[t].kind /\ f.why = thread[t].why
  BY <1>1 DEF Frame
<1>4. /\ docs \in Seq(Doc) /\ Len(docs) = Len(runs) + 1
      /\ \A r \in RunId : docs[r] = runs[r]
      /\ docs[Len(runs) + 1].status = "started"
      /\ docs[Len(runs) + 1].kind = thread[t].kind
  <2>1. NewDoc(t).status = "started" /\ NewDoc(t).kind = thread[t].kind
    BY DEF NewDoc
  <2> QED BY <2>1, NewDocFacts
<1>5. Write(t, docs, f) /\ UNCHANGED chain
  BY DEF StartRun, NewDoc, Write
<1> HIDE DEF f, docs
<1>6. Tells(f, docs, made)
  BY <1>1, <1>2, <1>3, <1>4 DEF Tells, Early
<1>7. \A r \in 1 .. Len(docs) : r = Run(t) \/ r \notin RunId => Accounts(docs, r, made)
  BY <1>1, <1>2, <1>4 DEF Accounts
<1> QED BY <1>2, <1>4, <1>5, <1>6, <1>7, WriteAccounted

\* What a call does before it changes anything: it goes on, stops there, or raises.
LEMMA ChecksAccounted ==
    ASSUME AgentInv, NEW made, Accounted(made), NEW t \in Thread,
           CheckDomain(t) \/ Precheck(t) \/ CheckLimiter(t) \/ ApplyLive(t)
    PROVE  Accounted(made)'
<1>1. thread[t].step \in Early \cap InRun /\ UNCHANGED <<chain, runs>>
  BY DEF CheckDomain, Precheck, CheckLimiter, ApplyLive, At, Early, InRun, Steps
<1>2. ASSUME NEW w \in {"AMOUNT_DOMAIN", "RESERVE_GATE", "ACTION_LIMITER"},
             Conclude(t, w)
      PROVE  Accounted(made)'
  <2>1. w \in Why \ {"none", "settle", "redeem"}
    BY DEF Why
  <2> QED BY <1>1, <1>2, <2>1, ConcludeAccounted
<1>3. ASSUME NEW s, Goto(t, s)
      PROVE  Accounted(made)'
  BY <1>1, <1>3, GotoAccounted
<1>4. CASE Raises(t)
  BY <1>1, <1>4, RaiseAccounted
<1>5. CASE CheckDomain(t)
  BY <1>2, <1>3, <1>5 DEF CheckDomain
<1>6. CASE Precheck(t)
  BY <1>2, <1>3, <1>4, <1>6, AskChainKinds DEF Precheck
<1>7. CASE CheckLimiter(t)
  BY <1>2, <1>3, <1>7 DEF CheckLimiter
<1>8. CASE ApplyLive(t)
  BY <1>2, <1>4, <1>8, AskChainKinds DEF ApplyLive
<1> QED BY <1>5, <1>6, <1>7, <1>8

\* What it does when the change is made: the documents say what the ledger does.
LEMMA RecordsAccounted ==
    ASSUME AgentInv, NEW made, Accounted(made), NEW t \in Thread,
           RecordGuardrail(t) \/ SetData(t) \/ FindPrior(t) \/ Sign(t) \/ SetStatus(t)
    PROVE  Accounted(made)'
<1> DEFINE To(s) == [thread[t] EXCEPT !.step = s]
<1>1. /\ thread[t] \in Frame /\ thread[t].step \in InRun \ Early
      /\ UNCHANGED chain /\ thread[t].why \in Why \ {"none"}
  BY FrameFacts DEF RecordGuardrail, SetData, FindPrior, Sign, SetStatus, At, Early, InRun,
     Steps, Place, Frame
<1>2. runs[Run(t)] \in Doc /\ runs[Run(t)].status = "started"
  BY <1>1, OwnDoc
<1>3. ASSUME NEW s \in {"find", "sign", "status", "snapshot"}
      PROVE  /\ To(s).run = Run(t) /\ To(s).kind = thread[t].kind
             /\ To(s).why = thread[t].why /\ To(s).step \notin Early
  BY <1>1 DEF Frame, Run, Early
<1>4. CASE RecordGuardrail(t)
  <2> DEFINE d == [runs[Run(t)] EXCEPT !.guardrail = thread[t].why]
  <2>1. /\ d \in Doc /\ d.kind = runs[Run(t)].kind /\ d.amount = runs[Run(t)].amount
        /\ d.status = "started"
    BY <1>1, <1>2 DEF Doc
  <2>2. Write(t, [runs EXCEPT ![Run(t)] = d], To("status"))
    BY <1>4 DEF RecordGuardrail, Write
  <2> HIDE DEF d, To
  <2> QED BY <1>1, <1>3, <2>1, <2>2, DocAccounted
<1>5. CASE SetData(t)
  <2> DEFINE d == [runs[Run(t)] EXCEPT !.data = TRUE]
             next == IF thread[t].kind = "settle" THEN "find" ELSE "status"
  <2>1. /\ d \in Doc /\ d.kind = runs[Run(t)].kind /\ d.amount = runs[Run(t)].amount
        /\ d.status = "started"
    BY <1>2 DEF Doc
  <2>2. Write(t, [runs EXCEPT ![Run(t)] = d], To(next))
    BY <1>5 DEF SetData, Write
  <2>3. next \in {"find", "status"}
    OBVIOUS
  <2> HIDE DEF d, To, next
  <2> QED BY <1>1, <1>3, <2>1, <2>2, <2>3, DocAccounted
<1>6. CASE FindPrior(t)
  <2>1. UNCHANGED <<chain, runs>> /\ Tells(thread[t], runs, made)
    BY <1>6 DEF FindPrior, Accounted
  <2>2. CASE Goto(t, "sign")
    BY <2>1, <2>2, GotoAccounted DEF Early
  <2>3. ASSUME NEW m, thread' = [thread EXCEPT ![t].step = "sign", ![t].prior = m]
        PROVE  Accounted(made)'
    <3>1. /\ thread'[t] = [thread[t] EXCEPT !.step = "sign", !.prior = m]
          /\ \A u \in Thread \ {t} : thread'[u] = thread[u]
      BY <2>3 DEF AgentInv, Typed
    <3>2. /\ thread'[t].run = thread[t].run /\ thread'[t].why = thread[t].why
          /\ thread'[t].kind = thread[t].kind /\ thread'[t].step = "sign"
      BY <1>1, <3>1 DEF Frame
    <3>3. Tells(thread'[t], runs, made)
      BY <2>1, <3>2 DEF Tells, Early
    <3> QED BY <2>1, <3>1, <3>3, GoAccounted
  <2> QED BY <1>6, <2>2, <2>3 DEF FindPrior
<1>7. CASE Sign(t)
  <2> DEFINE d == [runs[Run(t)] EXCEPT !.signed = TRUE, !.recurrence = thread[t].prior]
  <2>1. /\ d \in Doc /\ d.kind = runs[Run(t)].kind /\ d.amount = runs[Run(t)].amount
        /\ d.status = "started"
    BY <1>1, <1>2 DEF Doc, Frame
  <2>2. Write(t, [runs EXCEPT ![Run(t)] = d], To("status"))
    BY <1>7 DEF Sign, Write
  <2> HIDE DEF d, To
  <2> QED BY <1>1, <1>3, <2>1, <2>2, DocAccounted
<1>8. CASE SetStatus(t)
  <2> DEFINE d == [runs[Run(t)] EXCEPT !.status = Decision[thread[t].why]]
             f == IF thread[t].shows THEN To("snapshot") ELSE Idle
  <2>1. /\ d \in Doc /\ d.kind = runs[Run(t)].kind /\ d.amount = runs[Run(t)].amount
        /\ d.status = Decision[thread[t].why]
    BY <1>1, <1>2, Decided DEF Doc
  <2>2. Write(t, [runs EXCEPT ![Run(t)] = d], f)
    BY <1>8 DEF SetStatus, Write
  <2>3. f \in {Idle, To("snapshot")}
    OBVIOUS
  <2> HIDE DEF d, To, f
  <2> QED BY <1>1, <1>3, <2>1, <2>2, <2>3, DocAccounted
<1> QED BY <1>4, <1>5, <1>6, <1>7, <1>8

\* The change itself, and the place in the call that tells of it.
LEMMA ApplyAccounted ==
    ASSUME AgentInv, NEW made, Accounted(made), NEW t \in Thread,
           ApplySettle(t) \/ ApplyRedeem(t)
    PROVE  \E more : Accounted(more)'
<1>1. /\ thread[t] \in Frame /\ Place(thread[t], runs) /\ Tells(thread[t], runs, made)
      /\ thread[t].step = "apply" /\ thread[t].step \in Early \cap InRun /\ UNCHANGED runs
      /\ thread[t].amount > 0 /\ thread[t].why = "none"
  BY FrameFacts DEF ApplySettle, ApplyRedeem, At, Accounted, Place, Tells, Early, InRun, Steps
<1>2. /\ Run(t) \in RunId \ made /\ Run(t) # 0 /\ runs[Run(t)].kind = thread[t].kind
      /\ runs[Run(t)].amount = thread[t].amount
  BY <1>1, OwnDoc, RunFacts DEF Tells, Run
<1>3. CASE UNCHANGED chain /\ \E w \in {"RESERVE_GATE", "REDEEM"} : Conclude(t, w)
  <2>1. {"RESERVE_GATE", "REDEEM"} \subseteq Why \ {"none", "settle", "redeem"}
    BY DEF Why
  <2> QED BY <1>1, <1>3, <2>1, ConcludeAccounted
<1>4. ASSUME NEW more, more = made \cup {Run(t)}, Applied(t),
             \/ thread[t].kind = "settle" /\ chain'.supply = chain.supply + Units(t)
             \/ thread[t].kind = "redeem" /\ chain'.supply = chain.supply - Units(t)
      PROVE  Accounted(more)'
  <2>1. /\ thread'[t] = [thread[t] EXCEPT !.step = "data", !.why = thread[t].kind]
        /\ \A u \in Thread \ {t} : thread'[u] = thread[u]
    BY <1>1, <1>4, AppliedKeeps
  <2>2. /\ thread'[t].run = Run(t) /\ thread'[t].why = thread[t].kind
        /\ thread'[t].kind = thread[t].kind /\ thread'[t].step = "data"
    BY <1>1, <2>1 DEF Frame, Run
  <2>3. RunId' = RunId /\ more \subseteq RunId /\ made \subseteq RunId
    BY <1>1, <1>2, <1>4 DEF RunId, Accounted
  <2>4. Tells(thread'[t], runs', more)
    BY <1>1, <1>2, <1>4, <2>2 DEF Tells, Early
  <2>5. ASSUME NEW u \in Thread \ {t}
        PROVE  Tells(thread'[u], runs', more)
    <3>1. Tells(thread[u], runs, made) /\ thread[u].run # Run(t)
      BY <1>2 DEF Accounted, AgentInv, Placed, Run
    <3> QED BY <1>1, <1>4, <2>1, <3>1 DEF Tells
  <2>6. ASSUME NEW r \in RunId'
        PROVE  Accounts(runs', r, more)
    <3>1. runs[Run(t)].status = "started"
      BY <1>1, OwnDoc
    <3>2. Accounts(runs, r, made)
      BY <2>3, <2>6 DEF Accounted
    <3> QED BY <1>1, <1>4, <3>1, <3>2 DEF Accounts
  <2>7. chain'.supply = Moved("settle", more)' - Moved("redeem", more)'
    <3>1. /\ Moved("settle", made) \in Int /\ Moved("redeem", made) \in Int
          /\ Units(t) \in Int
      BY <2>3, MovedType, FrameFacts
    <3>2. /\ Moved("settle", more)' = Moved("settle", more)
          /\ Moved("redeem", more)' = Moved("redeem", more)
      BY <1>1, <2>3, MovedStays
    <3>3. /\ Moved(thread[t].kind, more) = Moved(thread[t].kind, made) + Units(t)
          /\ \A kind : kind # thread[t].kind => Moved(kind, more) = Moved(kind, made)
      BY <1>1, <1>2, <1>4, <2>3, MovedOne DEF Units
    <3>4. chain.supply = Moved("settle", made) - Moved("redeem", made)
      BY DEF Accounted
    <3>5. /\ thread[t].kind = "settle"
                => /\ Moved("settle", more) = Moved("settle", made) + Units(t)
                   /\ Moved("redeem", more) = Moved("redeem", made)
          /\ thread[t].kind = "redeem"
                => /\ Moved("redeem", more) = Moved("redeem", made) + Units(t)
                   /\ Moved("settle", more) = Moved("settle", made)
      BY <3>3
    <3>6. \/ thread[t].kind = "settle" /\ chain'.supply = chain.supply + Units(t)
          \/ thread[t].kind = "redeem" /\ chain'.supply = chain.supply - Units(t)
      BY <1>4
    <3>7. chain'.supply = Moved("settle", more) - Moved("redeem", more)
      BY <3>1, <3>4, <3>5, <3>6
    <3> QED BY <3>2, <3>7
  <2> QED BY <2>1, <2>3, <2>4, <2>5, <2>6, <2>7 DEF Accounted
<1>5. chain \in Chain
  BY DEF AgentInv, Typed
<1>6. CASE ApplySettle(t)
  <2>1. Settled(Units(t)).supply = chain.supply + Units(t)
    BY <1>5 DEF Settled, Chain
  <2> QED BY <1>3, <1>4, <1>6, <2>1 DEF ApplySettle
<1>7. CASE ApplyRedeem(t)
  <2>1. Redeemed(Units(t)).supply = chain.supply - Units(t)
    BY <1>5 DEF Redeemed, Chain
  <2> QED BY <1>3, <1>4, <1>7, <2>1 DEF ApplyRedeem
<1> QED BY <1>6, <1>7

LEMMA OtherAccounted ==
    ASSUME AgentInv, NEW made, Accounted(made), UNCHANGED <<runs, thread>>,
           chain'.supply = chain.supply
    PROVE  Accounted(made)'
<1>1. RunId' = RunId /\ made \subseteq RunId
  BY DEF RunId, Accounted
<1>2. /\ Moved("settle", made)' = Moved("settle", made)
      /\ Moved("redeem", made)' = Moved("redeem", made)
  BY <1>1, MovedStays
<1>3. \A t \in Thread : Tells(thread'[t], runs', made)
  BY DEF Accounted
<1>4. \A r \in RunId' : Accounts(runs', r, made)
  BY <1>1 DEF Accounted, Accounts
<1> QED BY <1>1, <1>2, <1>3, <1>4 DEF Accounted

LEMMA CallAccounted ==
    ASSUME AgentInv, NEW made, Accounted(made), NEW t \in Thread,
           \/ Status(t) \/ Create(t) \/ Snapshot(t)
           \/ \E kind \in {"settle", "redeem"}, amount \in UsdcAmount : Propose(t, kind, amount)
    PROVE  Accounted(made)'
<1>1. thread[t] \in Frame /\ Tells(thread[t], runs, made) /\ Place(thread[t], runs)
  BY FrameFacts DEF Accounted
<1>2. UNCHANGED <<chain, runs>>
  BY DEF Status, Create, Snapshot, Propose
<1>3. CASE Status(t)
  <2>1. CASE UNCHANGED thread
    BY <1>2, <2>1, OtherAccounted
  <2>2. CASE Goto(t, "snapshot")
    BY <1>2, <2>2, GotoAccounted DEF Early
  <2> QED BY <1>3, <2>1, <2>2 DEF Status
<1>4. CASE Snapshot(t)
  <2>1. CASE Raises(t)
    BY <1>2, <2>1, RaiseAccounted
  <2>2. CASE thread' = [thread EXCEPT ![t].reads = Append(@, block)]
    <3>1. /\ thread'[t] = [thread[t] EXCEPT !.reads = Append(@, block)]
          /\ \A u \in Thread \ {t} : thread'[u] = thread[u]
      BY <2>2 DEF AgentInv, Typed
    <3>2. /\ thread'[t].run = thread[t].run /\ thread'[t].why = thread[t].why
          /\ thread'[t].kind = thread[t].kind /\ thread'[t].step = thread[t].step
      BY <1>1, <3>1 DEF Frame
    <3>3. Tells(thread'[t], runs, made)
      BY <1>1, <3>2 DEF Tells
    <3> QED BY <1>2, <3>1, <3>3, GoAccounted
  <2> QED BY <1>4, <2>1, <2>2 DEF Snapshot
<1>5. ASSUME NEW kind \in {"settle", "redeem"}, NEW amount \in UsdcAmount,
             Propose(t, kind, amount)
      PROVE  Accounted(made)'
  <2>1. thread'[t] = Opened(kind, amount) /\ \A u \in Thread \ {t} : thread'[u] = thread[u]
    BY <1>5, ProposeKeeps
  <2>2. thread'[t].run = 0 /\ thread'[t].why = "none"
    BY <2>1 DEF Opened, Idle
  <2>3. Tells(thread'[t], runs, made)
    BY <2>2 DEF Tells
  <2> QED BY <1>2, <2>1, <2>3, GoAccounted
<1>6. CASE Create(t)
  <2>1. CASE Raises(t)
    BY <1>2, <2>1, RaiseAccounted
  <2>2. CASE thread' = [thread EXCEPT ![t].step = "start", ![t].store = store'.id]
    <3>1. /\ thread'[t] = [thread[t] EXCEPT !.step = "start", !.store = store'.id]
          /\ \A u \in Thread \ {t} : thread'[u] = thread[u]
      BY <2>2 DEF AgentInv, Typed
    <3>2. /\ thread'[t].run = thread[t].run /\ thread'[t].why = thread[t].why
          /\ thread'[t].kind = thread[t].kind /\ thread[t].step \in Early
      BY <1>1, <1>6, <3>1 DEF Frame, Create, At, Early
    <3>3. Tells(thread'[t], runs, made)
      BY <1>1, <3>2 DEF Tells
    <3> QED BY <1>2, <3>1, <3>3, GoAccounted
  <2> QED BY <1>6, <2>1, <2>2 DEF Create
<1> QED BY <1>3, <1>4, <1>5, <1>6

LedgerInv == AgentInv /\ \E made : Accounted(made)

LEMMA NextLedger == LedgerInv /\ [Next]_vars => LedgerInv'
<1> SUFFICES ASSUME LedgerInv, [Next]_vars PROVE LedgerInv'
  OBVIOUS
<1>1. AgentInv /\ AgentInv'
  BY NextAgent DEF LedgerInv
<1>2. PICK made : Accounted(made)
  BY DEF LedgerInv
<1>3. ASSUME NEW t \in Thread, Advance(t)
      PROVE  \E more : Accounted(more)'
  BY <1>1, <1>2, <1>3, StartRunAccounted, ChecksAccounted, RecordsAccounted, ApplyAccounted,
     CallAccounted DEF Advance
<1>4. ASSUME OtherNext \/ UNCHANGED vars
      PROVE  Accounted(made)'
  <2>1. chain'.supply = chain.supply
    <3>1. chain \in Chain
      BY <1>1 DEF AgentInv, Typed
    <3>2. ASSUME NEW r \in Figure, NEW ts \in ChainTime, SetReserves(r, ts)
          PROVE  chain'.supply = chain.supply
      BY <3>1, <3>2 DEF SetReserves, Chain
    <3>3. ASSUME NEW ts \in ChainTime, SetNow(ts)
          PROVE  chain'.supply = chain.supply
      BY <3>1, <3>3 DEF SetNow, Chain
    <3> QED BY <1>4, <3>2, <3>3, OtherKinds
  <2> QED BY <1>1, <1>2, <1>4, <2>1, OtherKinds, OtherAccounted
<1>5. \E more : Accounted(more)'
  BY <1>1, <1>2, <1>3, <1>4, NextKinds, CallAccounted
<1> QED BY <1>1, <1>5 DEF LedgerInv

\* The runs cut short are those of made that nothing else tells of.
LEMMA LedgerMatches == LedgerInv => AuditMatchesLedger
<1> SUFFICES ASSUME AgentInv, NEW made, Accounted(made) PROVE AuditMatchesLedger
  BY DEF LedgerInv
<1> DEFINE lost == made \cap Orphans
<1>1. made \subseteq RunId /\ DOMAIN runs = RunId /\ 0 \notin RunId
  BY RunFacts DEF Accounted
<1>2. ASSUME NEW kind \in {"settle", "redeem"}
      PROVE  {q \in made : runs[q].kind = kind} = Done(kind) \cup {r \in lost : runs[r].kind = kind}
  <2>1. /\ Decision[kind] = IF kind = "settle" THEN "settled" ELSE "redeemed"
        /\ Decision["settle"] = "settled" /\ Decision["redeem"] = "redeemed"
        /\ Decision["none"] = "started"
    BY DEF Decision
  <2>2. ASSUME NEW r \in Done(kind)
        PROVE  r \in made /\ runs[r].kind = kind
    <3>1. r \in RunId
      BY DEF Done
    <3>2. CASE runs[r].status = Decision[kind]
      <4>1. runs[r].kind \in {"none", "settle", "redeem"} /\ Accounts(runs, r, made)
        BY <3>1, RunFacts DEF Accounted, Doc, Kind
      <4> QED BY <2>1, <3>2, <4>1 DEF Accounts
    <3>3. ASSUME NEW t \in Thread, Run(t) = r, thread[t].why = kind
          PROVE  r \in made /\ runs[r].kind = kind
      BY <1>1, <3>1, <3>3 DEF Accounted, Tells, Run
    <3> QED BY <3>2, <3>3 DEF Done
  <2>3. ASSUME NEW r \in made, runs[r].kind = kind, r \notin Done(kind)
        PROVE  r \in Orphans
    <3>1. r \in RunId /\ Accounts(runs, r, made)
      BY <1>1 DEF Accounted
    <3>2. runs[r].status = "started"
      BY <2>3, <3>1 DEF Accounts, Done
    <3>3. ASSUME NEW t \in Thread, Run(t) = r
          PROVE  FALSE
      <4>1. thread[t].why = kind
        BY <1>1, <2>3, <3>1, <3>3 DEF Accounted, Tells, Run
      <4> QED BY <2>3, <3>1, <3>3, <4>1 DEF Done
    <3> QED BY <3>1, <3>2, <3>3 DEF Orphans
  <2> QED BY <2>2, <2>3
<1>3. ASSUME NEW kind \in {"settle", "redeem"}
      PROVE  Total(kind, lost) = Moved(kind, made)
  BY <1>2 DEF Total, Moved, Pairs
<1> HIDE DEF lost
<1>4. chain.supply = Total("settle", lost) - Total("redeem", lost)
  BY <1>3 DEF Accounted
<1>5. lost \in SUBSET Orphans
  BY DEF lost
<1> QED BY <1>4, <1>5 DEF AuditMatchesLedger

\* The audit trail accounts for the supply to the unit, however calls interleave: what the
\* runs say was settled, less what they say was redeemed (main.py:124-149), but for the runs
\* whose call was cut short by an exception, each of which may have made its change or not.
THEOREM AuditAccountsForSupply == Spec => []AuditMatchesLedger
<1>1. Init => LedgerInv
  <2> SUFFICES ASSUME Init PROVE Accounted({})
    BY InitAgent DEF LedgerInv
  <2>1. /\ RunId = {} /\ chain.supply = 0 /\ \A t \in Thread : thread[t] = Idle
    <3>1. Len(runs) = 0
      BY EmptySeq DEF Init
    <3> QED BY <3>1 DEF Init, RunId
  <2>2. \A t \in Thread : Tells(thread[t], runs, {})
    BY <2>1, IdleTells
  <2>3. \A kind : Moved(kind, {}) = 0
    <3>1. \A kind : Pairs(kind, {}) = {}
      BY DEF Pairs
    <3>2. Cardinality({}) = 0 /\ ONE * 0 = 0
      BY FS_EmptySet, AgentAssumption
    <3> QED BY <3>1, <3>2 DEF Moved
  <2> QED BY <2>1, <2>2, <2>3 DEF Accounted
<1> QED BY <1>1, NextLedger, LedgerMatches, PTL DEF Spec
==============================================================================
