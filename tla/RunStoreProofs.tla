--------------------------- MODULE RunStoreProofs ----------------------------
(***************************************************************************)
(* Theorems about RunStore: durability is never silent, and concurrent     *)
(* writers lose no acknowledged write, for any number of threads, calls    *)
(* and lives of the process.                                               *)
(***************************************************************************)
EXTENDS RunStore, TLAPS

\* A store in memory that was meant to be Firestore is one that says so, and that was
\* allowed to be; no call runs while the process is down.
Announced ==
    /\ store.backend = "none" => store = Down
    /\ store.backend = "supplied" => settings.backend = "supplied"
    /\ store.backend # "none" /\ ~durable /\ settings.backend = "firestore"
         /\ ~settings.use_in_memory_state
           => store.degraded /\ ~settings.require_durable_state

DownIsIdle == store = Down => \A t \in Thread : At(t, "idle")

StoreInv == Announced /\ DownIsIdle /\ LossIsAnnounced /\ settings \in Settings

LEMMA InitAnnounced == Init => StoreInv
  BY DEF Init, StoreInv, Announced, DownIsIdle, LossIsAnnounced, Down, durable, At, Idle

\* A step of a call returns, raises or goes on: the store stays as it is, and what is
\* acknowledged carries what readiness() says now.
LEMMA StepAnnounces ==
    ASSUME StoreInv, NEW t \in Thread, Step(t)
    PROVE  StoreInv'
<1>1. store # Down
  <2>1. ~At(t, "idle")
    BY DEF Step, StartRun, MutateInMemory, ReadInTransaction, Commit, TakeLock, Get, PutBack, At
  <2> QED BY <2>1 DEF StoreInv, DownIsIdle
<1>2. UNCHANGED <<store, settings, life>>
  BY DEF Step, StartRun, MutateInMemory, ReadInTransaction, Commit, TakeLock, Get, PutBack
<1>3. \/ UNCHANGED acked
      \/ Returns(t)
  BY DEF Step, StartRun, MutateInMemory, ReadInTransaction, Commit, TakeLock, Get, PutBack, Raises
<1>4. Announced' /\ DownIsIdle' /\ (settings \in Settings)'
  BY <1>1, <1>2 DEF StoreInv, Announced, DownIsIdle, durable
<1>5. LossIsAnnounced'
  <2>1. CASE UNCHANGED acked
    BY <1>2, <2>1 DEF StoreInv, LossIsAnnounced
  <2>2. CASE Returns(t)
    <3> DEFINE w0 == [run |-> call[t].run, mark |-> call[t].mark, life |-> life,
                      known |-> Known(t) \/ At(t, "set"),
                      durable |-> durable, degraded |-> store.degraded]
    <3>1. acked' = acked \cup {w0}
      BY <2>2 DEF Returns
    <3>2. w0.durable = durable /\ w0.degraded = store.degraded
      OBVIOUS
    <3>3. store.backend # "none"
      BY <1>1 DEF StoreInv, Announced
    <3>4. ~w0.durable /\ settings.backend = "firestore" /\ ~settings.use_in_memory_state
             => w0.degraded /\ ~settings.require_durable_state
      BY <3>2, <3>3 DEF StoreInv, Announced
    <3> HIDE DEF w0
    <3> QED BY <1>2, <3>1, <3>4 DEF StoreInv, LossIsAnnounced
  <2> QED BY <1>3, <2>1, <2>2
<1> QED BY <1>4, <1>5 DEF StoreInv

LEMMA CreateAnnounces ==
    ASSUME StoreInv, Create
    PROVE  StoreInv'
<1>1. UNCHANGED <<settings, acked, call>>
  BY DEF Create
<1>2. PICK answers \in BOOLEAN :
         store' = IF settings.use_in_memory_state THEN [backend |-> "memory", degraded |-> FALSE]
                  ELSE IF answers THEN [backend |-> settings.backend, degraded |-> FALSE]
                  ELSE IF settings.require_durable_state THEN Down
                  ELSE Fallback
  BY DEF Create
<1>3. LossIsAnnounced' /\ (settings \in Settings)'
  BY <1>1 DEF StoreInv, LossIsAnnounced
<1>4. DownIsIdle'
  BY <1>1 DEF StoreInv, DownIsIdle, Create, At
<1>5. settings.backend \in {"firestore", "supplied"}
  BY DEF StoreInv, Settings
<1>6. Announced'
  <2>1. CASE settings.use_in_memory_state
    BY <1>1, <1>2, <2>1 DEF Announced, durable
  <2>2. CASE ~settings.use_in_memory_state /\ answers
    BY <1>1, <1>2, <1>5, <2>2 DEF Announced, durable
  <2>3. CASE ~settings.use_in_memory_state /\ ~answers /\ settings.require_durable_state
    BY <1>1, <1>2, <2>3 DEF Announced, durable, Down
  <2>4. CASE ~settings.use_in_memory_state /\ ~answers /\ ~settings.require_durable_state
    BY <1>1, <1>2, <2>4 DEF Announced, durable, Fallback
  <2> QED BY <2>1, <2>2, <2>3, <2>4
<1> QED BY <1>3, <1>4, <1>6 DEF StoreInv

LEMMA NextAnnounces == StoreInv /\ [Next]_vars => StoreInv'
<1> SUFFICES ASSUME StoreInv, [Next]_vars PROVE StoreInv'
  OBVIOUS
<1>1. CASE Create
  BY <1>1, CreateAnnounces
<1>2. CASE Crash
  BY <1>2 DEF Crash, StoreInv, Announced, DownIsIdle, LossIsAnnounced, Down, durable, At, Idle
<1>3. CASE Flip
  BY <1>3 DEF Flip, StoreInv, Announced, DownIsIdle, LossIsAnnounced, durable, At
<1>4. ASSUME NEW t \in Thread, NEW run \in 1 .. calls + 1, Begin(t, run)
      PROVE  StoreInv'
  BY <1>4 DEF Begin, StoreInv, Announced, DownIsIdle, LossIsAnnounced, durable
<1>5. ASSUME NEW t \in Thread, Step(t) PROVE StoreInv'
  BY <1>5, StepAnnounces
<1>6. CASE UNCHANGED vars
  BY <1>6 DEF vars, StoreInv, Announced, DownIsIdle, LossIsAnnounced, durable, At
<1> QED BY <1>1, <1>2, <1>3, <1>4, <1>5, <1>6 DEF Next

\* Durability is never silent (state.py:25-29): in every reachable state a process that
\* wanted Firestore and acknowledged a write it could lose was saying so, and had not
\* been told to require durable state.
THEOREM DurabilityIsNeverSilent == Spec => []LossIsAnnounced
<1>1. StoreInv => LossIsAnnounced
  BY DEF StoreInv
<1> QED BY <1>1, InitAnnounced, NextAnnounces, PTL DEF Spec

------------------------------------------------------------------------------
(* Concurrent writers do not lose writes. *)

Mark == Nat

Docs == UNION {[D -> SUBSET Mark] : D \in SUBSET Mark}

Call == [step : {"idle", "set", "mutate", "read", "commit", "lock", "get", "put"},
         run : Nat, mark : Nat, read : SUBSET Mark, attempt : Nat]

Types ==
    /\ settings \in Settings
    /\ store \in [backend : {"none", "memory", "firestore", "supplied"}, degraded : BOOLEAN]
    /\ store.backend = "none" => store = Down
    /\ docs \in [{"process", "firestore"} -> Docs]
    /\ call \in [Thread -> Call]
    /\ calls \in Nat /\ life \in Nat

\* A call runs on the backend its step belongs to, under a mark of its own.
CallsAgree ==
    /\ \A t \in Thread : ~At(t, "idle") => call[t].mark \in 1 .. calls /\ store # Down
    /\ \A t, u \in Thread :
          t # u /\ ~At(t, "idle") /\ ~At(u, "idle") => call[t].mark # call[u].mark
    /\ \A t \in Thread :
          /\ At(t, "mutate") => store.backend = "memory"
          /\ At(t, "read") \/ At(t, "commit") => store.backend = "firestore"
          /\ At(t, "lock") \/ At(t, "get") \/ At(t, "put") => store.backend = "supplied"

\* What a call holds is still so: a run to be started has no document, one to be
\* changed has; under the lock, the document is as it was read.
CallsHold ==
    /\ \A t \in Thread : At(t, "set") => call[t].run = call[t].mark /\ ~Known(t)
    /\ \A t \in Thread : At(t, "commit") \/ At(t, "put") => Known(t)
    /\ \A t \in Thread : At(t, "get") \/ At(t, "put") => fallbackLock = t
    /\ \A t \in Thread : At(t, "put") => docs[Home][call[t].run] = call[t].read

RunsIssued == \A p \in {"process", "firestore"} : DOMAIN docs[p] \subseteq 1 .. calls

AcksOfThisLife ==
    \A w \in acked : /\ w.life \in Nat /\ w.life <= life
                     /\ w.life = life /\ store # Down => w.durable = durable

KeepInv ==
    /\ Types /\ CallsAgree /\ CallsHold /\ RunsIssued
    /\ AcksOfThisLife /\ AcknowledgedWritesKept

\* No document loses a write or goes away.
Grows ==
    \A p \in {"process", "firestore"} : \A r \in DOMAIN docs[p] :
       r \in DOMAIN docs'[p] /\ docs[p][r] \subseteq docs'[p][r]

LEMMA HomeIsPlace == Home \in {"process", "firestore"}
  BY DEF Home

\* Put changes one document of the home, or adds it.
LEMMA PutFacts ==
    ASSUME Types, NEW run \in Mark, NEW doc \in SUBSET Mark, Put(run, doc)
    PROVE  /\ docs' \in [{"process", "firestore"} -> Docs]
           /\ DOMAIN docs'[Home] = Runs \cup {run}
           /\ docs'[Home][run] = doc
           /\ \A r \in Runs \ {run} : docs'[Home][r] = docs[Home][r]
           /\ \A p \in {"process", "firestore"} \ {Home} : docs'[p] = docs[p]
<1> DEFINE f == [r \in Runs \cup {run} |-> IF r = run THEN doc ELSE docs[Home][r]]
<1>1. docs' = [docs EXCEPT ![Home] = f]
  BY DEF Put
<1>2. PICK D \in SUBSET Mark : docs[Home] \in [D -> SUBSET Mark]
  BY HomeIsPlace DEF Types, Docs
<1>3. Runs = D
  BY <1>2 DEF Runs
<1>4. f \in [D \cup {run} -> SUBSET Mark]
  BY <1>2, <1>3
<1>5. f \in Docs
  BY <1>4, D \cup {run} \in SUBSET Mark DEF Docs
<1>6. docs'[Home] = f /\ \A p \in {"process", "firestore"} \ {Home} : docs'[p] = docs[p]
  BY <1>1, HomeIsPlace DEF Types
<1>7. docs' \in [{"process", "firestore"} -> Docs]
  BY <1>1, <1>5, HomeIsPlace DEF Types
<1> QED BY <1>6, <1>7

\* Adding to a document, or a new one, loses nothing.
LEMMA PutGrows ==
    ASSUME Types, NEW run \in Mark, NEW doc \in SUBSET Mark, Put(run, doc),
           run \in Runs => docs[Home][run] \subseteq doc
    PROVE  Grows
<1>1. \A r \in Runs : r \in DOMAIN docs'[Home] /\ docs[Home][r] \subseteq docs'[Home][r]
  BY PutFacts
<1> QED BY <1>1, PutFacts DEF Grows, Runs

\* When documents only grow and the store stays, every write acknowledged before is
\* kept, and so is one more if it is shown.
LEMMA GrowthKeeps ==
    ASSUME AcksOfThisLife, AcknowledgedWritesKept, life \in Nat,
           UNCHANGED <<store, life>>, Grows,
           NEW new, acked' = acked \cup new,
           \A w \in new :
              /\ w.life = life /\ w.durable = durable
              /\ w.known => w.run \in DOMAIN docs'[Home] /\ w.mark \in docs'[Home][w.run]
    PROVE  AcksOfThisLife' /\ AcknowledgedWritesKept'
<1>1. Home' = Home /\ durable' = durable
  BY DEF Home, durable
<1>2. durable <=> Home = "firestore"
  BY DEF Home
<1>3. AcksOfThisLife'
  BY <1>1 DEF AcksOfThisLife
<1>4. ASSUME NEW w \in acked', w.known
      PROVE  IF w.durable
             THEN w.run \in DOMAIN docs'.firestore /\ w.mark \in docs'.firestore[w.run]
             ELSE store' # Down /\ w.life = life' => Shown(w)'
  <2>1. CASE w \in acked /\ w.durable
    <3>1. w.run \in DOMAIN docs.firestore /\ w.mark \in docs.firestore[w.run]
      BY <1>4, <2>1 DEF AcknowledgedWritesKept
    <3> QED BY <2>1, <3>1 DEF Grows
  <2>2. CASE w \in acked /\ ~w.durable
    <3>1. store # Down /\ w.life = life => w.run \in DOMAIN docs[Home] /\ w.mark \in docs[Home][w.run]
      BY <1>4, <2>2 DEF AcknowledgedWritesKept, Shown, Runs
    <3> QED BY <1>1, <2>2, <3>1, HomeIsPlace DEF Grows, Shown, Runs
  <2>3. CASE w \in new
    <3>1. w.durable = durable /\ w.run \in DOMAIN docs'[Home] /\ w.mark \in docs'[Home][w.run]
      BY <1>4, <2>3
    <3>2. CASE w.durable
      BY <1>2, <3>1, <3>2
    <3>3. CASE ~w.durable
      BY <1>1, <3>1, <3>3 DEF Shown, Runs
    <3> QED BY <3>2, <3>3
  <2> QED BY <1>4, <2>1, <2>2, <2>3
<1> QED BY <1>3, <1>4 DEF AcknowledgedWritesKept

\* One call moving on, under its mark and on its backend.
LEMMA CallMoves ==
    ASSUME Types, CallsAgree, NEW t \in Thread, NEW c \in Call,
           call' = [call EXCEPT ![t] = c],
           UNCHANGED <<store, calls>>,
           c.step # "idle" =>
              /\ ~At(t, "idle") /\ c.mark = call[t].mark
              /\ c.step = "mutate" => store.backend = "memory"
              /\ c.step \in {"read", "commit"} => store.backend = "firestore"
              /\ c.step \in {"lock", "get", "put"} => store.backend = "supplied"
    PROVE  /\ call' \in [Thread -> Call]
           /\ CallsAgree'
           /\ call'[t] = c
           /\ \A u \in Thread \ {t} : call'[u] = call[u]
<1>1. call' \in [Thread -> Call] /\ call'[t] = c
  BY DEF Types
<1>2. \A u \in Thread \ {t} : call'[u] = call[u]
  BY DEF Types
<1> QED BY <1>1, <1>2 DEF CallsAgree, At

\* The step writes nothing, or the document of its own run, and loses none of it.
Writes(t) ==
    \/ UNCHANGED docs
    \/ /\ At(t, "set") \/ At(t, "mutate") \/ At(t, "commit") \/ At(t, "put")
       /\ ~At(t, "set") => Known(t)
       /\ \E doc \in SUBSET Mark :
             /\ Put(call[t].run, doc)
             /\ Known(t) => docs[Home][call[t].run] \subseteq doc

LEMMA WritesFacts ==
    ASSUME KeepInv, NEW t \in Thread, Writes(t), UNCHANGED <<store, calls>>
    PROVE  /\ docs' \in [{"process", "firestore"} -> Docs]
           /\ Grows
           /\ Runs \subseteq DOMAIN docs'[Home]
           /\ DOMAIN docs'[Home] \subseteq Runs \cup {call[t].run}
           /\ \A r \in Runs \ {call[t].run} : docs'[Home][r] = docs[Home][r]
           /\ RunsIssued'
<1>1. CASE UNCHANGED docs
  BY <1>1 DEF KeepInv, Types, Grows, Runs, RunsIssued
<1>2. CASE ~UNCHANGED docs
  <2>1. PICK doc \in SUBSET Mark :
           /\ Put(call[t].run, doc)
           /\ Known(t) => docs[Home][call[t].run] \subseteq doc
    BY <1>2 DEF Writes
  <2>2. call[t].run \in Mark
    BY DEF KeepInv, Types, Call, Mark
  <2>3. /\ docs' \in [{"process", "firestore"} -> Docs]
        /\ DOMAIN docs'[Home] = Runs \cup {call[t].run}
        /\ \A r \in Runs \ {call[t].run} : docs'[Home][r] = docs[Home][r]
        /\ \A p \in {"process", "firestore"} \ {Home} : docs'[p] = docs[p]
    BY <2>1, <2>2, PutFacts DEF KeepInv
  <2>4. Grows
    BY <2>1, <2>2, PutGrows DEF KeepInv, Known
  <2>5. call[t].run \in 1 .. calls
    <3>1. CASE At(t, "set")
      BY <3>1 DEF KeepInv, CallsHold, CallsAgree, At
    <3>2. CASE ~At(t, "set")
      BY <1>2, <3>2, HomeIsPlace DEF Writes, Known, Runs, KeepInv, RunsIssued
    <3> QED BY <3>1, <3>2
  <2>6. RunsIssued'
    BY <2>3, <2>5, HomeIsPlace DEF KeepInv, RunsIssued, Runs
  <2> QED BY <2>3, <2>4, <2>6
<1> QED BY <1>1, <1>2

\* What the other calls hold is not disturbed.
LEMMA OthersHold ==
    ASSUME KeepInv, NEW t \in Thread, NEW u \in Thread \ {t}, call'[u] = call[u],
           Writes(t), UNCHANGED <<store, calls>>,
           fallbackLock' = fallbackLock \/ fallbackLock \in {t, NoThread}
    PROVE  /\ At(u, "set")' => call'[u].run = call'[u].mark /\ ~Known(u)'
           /\ At(u, "commit")' \/ At(u, "put")' => Known(u)'
           /\ At(u, "get")' \/ At(u, "put")' => fallbackLock' = u
           /\ At(u, "put")' => docs'[Home'][call'[u].run] = call'[u].read
<1>1. Home' = Home
  BY DEF Home, durable
<1>2. ASSUME At(u, "set") PROVE call[u].run = call[u].mark /\ call[u].run \notin DOMAIN docs'[Home]
  <2>1. call[u].run = call[u].mark /\ call[u].run \notin Runs
    BY <1>2 DEF KeepInv, CallsHold, Known
  <2>2. CASE UNCHANGED docs
    BY <2>1, <2>2 DEF Runs
  <2>3. CASE ~UNCHANGED docs /\ At(t, "set")
    <3>1. call[t].run = call[t].mark /\ call[t].mark # call[u].mark
      BY <1>2, <2>3 DEF KeepInv, CallsHold, CallsAgree, At
    <3> QED BY <2>1, <3>1, WritesFacts
  <2>4. CASE ~UNCHANGED docs /\ ~At(t, "set")
    <3>1. call[t].run \in Runs
      BY <2>4 DEF Writes, Known
    <3> QED BY <2>1, <3>1, WritesFacts
  <2> QED BY <2>1, <2>2, <2>3, <2>4
<1>3. ASSUME At(u, "commit") \/ At(u, "put") PROVE call[u].run \in DOMAIN docs'[Home]
  BY <1>3, WritesFacts DEF KeepInv, CallsHold, Known
<1>4. ASSUME At(u, "get") \/ At(u, "put") PROVE fallbackLock' = u
  <2>1. fallbackLock = u
    BY <1>4 DEF KeepInv, CallsHold
  <2> QED BY <2>1, StoreAssumption
<1>5. ASSUME At(u, "put") PROVE docs'[Home][call[u].run] = call[u].read
  <2>1. call[u].run \in Runs /\ docs[Home][call[u].run] = call[u].read /\ fallbackLock = u
    BY <1>5 DEF KeepInv, CallsHold, Known
  <2>2. CASE UNCHANGED docs
    BY <2>1, <2>2
  <2>3. CASE ~UNCHANGED docs
    <3>1. At(t, "set")
      <4>1. ~At(t, "mutate") /\ ~At(t, "commit")
        BY <1>5 DEF KeepInv, CallsAgree
      <4>2. ~At(t, "put")
        BY <2>1 DEF KeepInv, CallsHold
      <4> QED BY <2>3, <4>1, <4>2 DEF Writes
    <3>2. call[t].run \notin Runs
      BY <3>1 DEF KeepInv, CallsHold, Known
    <3> QED BY <2>1, <3>2, WritesFacts
  <2> QED BY <2>2, <2>3
<1> QED BY <1>1, <1>2, <1>3, <1>4, <1>5 DEF At, Known, Runs

\* A step of one call keeps the invariant, when it writes as above and its call holds
\* what it should afterwards.
LEMMA MovingKeeps ==
    ASSUME KeepInv, NEW t \in Thread, NEW c \in Call, NEW new,
           call' = [call EXCEPT ![t] = c], acked' = acked \cup new,
           UNCHANGED <<settings, store, life, calls>>,
           Writes(t), fallbackLock' = fallbackLock \/ fallbackLock \in {t, NoThread},
           c.step # "idle" =>
              /\ ~At(t, "idle") /\ c.mark = call[t].mark
              /\ c.step = "mutate" => store.backend = "memory"
              /\ c.step \in {"read", "commit"} => store.backend = "firestore"
              /\ c.step \in {"lock", "get", "put"} => store.backend = "supplied",
           c.step # "set",
           c.step \in {"commit", "put"} => Known(t) /\ c.run = call[t].run,
           c.step \in {"get", "put"} => fallbackLock' = t,
           c.step = "put" => UNCHANGED docs /\ docs[Home][c.run] = c.read,
           \A w \in new :
              /\ w.life = life /\ w.durable = durable
              /\ w.known => w.run \in DOMAIN docs'[Home] /\ w.mark \in docs'[Home][w.run]
    PROVE  KeepInv'
<1>1. /\ docs' \in [{"process", "firestore"} -> Docs]
      /\ Grows /\ RunsIssued' /\ Runs \subseteq DOMAIN docs'[Home]
  BY WritesFacts
<1>2. /\ call' \in [Thread -> Call] /\ CallsAgree' /\ call'[t] = c
      /\ \A u \in Thread \ {t} : call'[u] = call[u]
  BY CallMoves DEF KeepInv
<1>3. Types'
  BY <1>1, <1>2 DEF KeepInv, Types
<1>4. AcksOfThisLife' /\ AcknowledgedWritesKept'
  BY <1>1, GrowthKeeps DEF KeepInv, Types
<1>5. Home' = Home
  BY DEF Home, durable
<1>6. ASSUME NEW u \in Thread
      PROVE  /\ At(u, "set")' => call'[u].run = call'[u].mark /\ ~Known(u)'
             /\ At(u, "commit")' \/ At(u, "put")' => Known(u)'
             /\ At(u, "get")' \/ At(u, "put")' => fallbackLock' = u
             /\ At(u, "put")' => docs'[Home'][call'[u].run] = call'[u].read
  <2>1. CASE u = t
    BY <1>1, <1>2, <1>5, <2>1 DEF At, Known, Runs
  <2>2. CASE u # t
    BY <1>2, <2>2, OthersHold
  <2> QED BY <2>1, <2>2
<1>7. CallsHold'
  BY <1>6 DEF CallsHold
<1> QED BY <1>1, <1>2, <1>3, <1>4, <1>7 DEF KeepInv

\* A call that ends leaves its thread nothing to hold.
LEMMA EndingKeeps ==
    ASSUME KeepInv, NEW t \in Thread, NEW new,
           call' = [call EXCEPT ![t] = Idle], acked' = acked \cup new,
           UNCHANGED <<settings, store, life, calls>>,
           Writes(t), fallbackLock' = fallbackLock \/ fallbackLock \in {t, NoThread},
           \A w \in new :
              /\ w.life = life /\ w.durable = durable
              /\ w.known => w.run \in DOMAIN docs'[Home] /\ w.mark \in docs'[Home][w.run]
    PROVE  KeepInv'
<1>1. Idle \in Call /\ Idle.step = "idle"
  BY DEF Idle, Call, Mark
<1>2. PICK c \in Call : c = Idle /\ c.step = "idle"
  BY <1>1
<1>3. call' = [call EXCEPT ![t] = c]
  BY <1>2
<1>4. /\ c.step # "set" /\ ~(c.step \in {"commit", "put"})
      /\ ~(c.step \in {"get", "put"}) /\ c.step # "put"
  BY <1>2
<1> QED BY <1>2, <1>3, <1>4, MovingKeeps

\* A call that raises acknowledges nothing.
LEMMA RaisingKeeps ==
    ASSUME KeepInv, NEW t \in Thread, Raises(t), Writes(t),
           UNCHANGED <<settings, store, life, calls>>,
           fallbackLock' = fallbackLock \/ fallbackLock \in {t, NoThread}
    PROVE  KeepInv'
<1> DEFINE new == {}
<1>1. call' = [call EXCEPT ![t] = Idle] /\ acked' = acked \cup new
  BY DEF Raises
<1>2. \A w \in new : FALSE
  OBVIOUS
<1> HIDE DEF new
<1> QED BY <1>1, <1>2, EndingKeeps

\* A call that returns has its mark where the store looks.
LEMMA ReturningKeeps ==
    ASSUME KeepInv, NEW t \in Thread, Returns(t), Writes(t),
           UNCHANGED <<settings, store, life, calls>>,
           fallbackLock' = fallbackLock \/ fallbackLock \in {t, NoThread},
           Known(t) \/ At(t, "set") =>
              /\ call[t].run \in DOMAIN docs'[Home]
              /\ call[t].mark \in docs'[Home][call[t].run]
    PROVE  KeepInv'
<1> DEFINE w0 == [run |-> call[t].run, mark |-> call[t].mark, life |-> life,
                  known |-> Known(t) \/ At(t, "set"),
                  durable |-> durable, degraded |-> store.degraded]
           new == {w0}
<1>1. call' = [call EXCEPT ![t] = Idle] /\ acked' = acked \cup new
  BY DEF Returns
<1>3. /\ w0.life = life /\ w0.durable = durable /\ w0.run = call[t].run
      /\ w0.mark = call[t].mark
  OBVIOUS
<1>4. w0.known = (Known(t) \/ At(t, "set"))
  OBVIOUS
<1> HIDE DEF w0
<1>2. \A w \in new :
         /\ w.life = life /\ w.durable = durable
         /\ w.known => w.run \in DOMAIN docs'[Home] /\ w.mark \in docs'[Home][w.run]
  BY <1>3, <1>4
<1> HIDE DEF new
<1> QED BY <1>1, <1>2, EndingKeeps

LEMMA CallTypes ==
    ASSUME KeepInv, NEW t \in Thread
    PROVE  /\ call[t] \in Call /\ call[t].run \in Mark /\ call[t].mark \in Mark
           /\ call[t].read \in SUBSET Mark
           /\ Known(t) => docs[Home][call[t].run] \in SUBSET Mark
<1>1. call[t] \in Call
  BY DEF KeepInv, Types
<1>2. call[t].run \in Mark /\ call[t].mark \in Mark /\ call[t].read \in SUBSET Mark
  BY <1>1 DEF Call, Mark
<1>3. PICK D \in SUBSET Mark : docs[Home] \in [D -> SUBSET Mark]
  BY HomeIsPlace DEF KeepInv, Types, Docs
<1>4. Known(t) => docs[Home][call[t].run] \in SUBSET Mark
  BY <1>3 DEF Known, Runs
<1> QED BY <1>1, <1>2, <1>4

\* A call that writes its run's document with its mark in it has written.
LEMMA PutWrites ==
    ASSUME KeepInv, NEW t \in Thread, NEW doc \in SUBSET Mark,
           Put(call[t].run, doc), call[t].mark \in doc,
           At(t, "set") \/ At(t, "mutate") \/ At(t, "commit") \/ At(t, "put"),
           ~At(t, "set") => Known(t),
           Known(t) => docs[Home][call[t].run] \subseteq doc
    PROVE  /\ Writes(t)
           /\ call[t].run \in DOMAIN docs'[Home]
           /\ call[t].mark \in docs'[Home][call[t].run]
<1>1. Writes(t)
  BY DEF Writes
<1>2. docs'[Home][call[t].run] = doc /\ DOMAIN docs'[Home] = Runs \cup {call[t].run}
  BY CallTypes, PutFacts DEF KeepInv
<1> QED BY <1>1, <1>2

LEMMA StartRunKeeps ==
    ASSUME KeepInv, NEW t \in Thread, StartRun(t)
    PROVE  KeepInv'
<1>1. At(t, "set") /\ UNCHANGED <<settings, store, life, calls>> /\ UNCHANGED fallbackLock
  BY DEF StartRun
<1>2. ~Known(t)
  BY <1>1 DEF KeepInv, CallsHold
<1>3. CASE Put(call[t].run, {call[t].mark}) /\ (Returns(t) \/ Raises(t))
  <2>1. {call[t].mark} \in SUBSET Mark
    BY CallTypes
  <2>2. /\ Writes(t)
        /\ call[t].run \in DOMAIN docs'[Home]
        /\ call[t].mark \in docs'[Home][call[t].run]
    BY <1>1, <1>2, <1>3, <2>1, PutWrites
  <2> QED BY <1>1, <1>3, <2>2, ReturningKeeps, RaisingKeeps
<1>4. CASE Raises(t) /\ UNCHANGED docs
  BY <1>1, <1>4, RaisingKeeps DEF Writes
<1> QED BY <1>3, <1>4 DEF StartRun

LEMMA MutateInMemoryKeeps ==
    ASSUME KeepInv, NEW t \in Thread, MutateInMemory(t)
    PROVE  KeepInv'
<1>1. At(t, "mutate") /\ UNCHANGED <<settings, store, life, calls>> /\ UNCHANGED fallbackLock
      /\ Returns(t) /\ ~At(t, "set")
  BY DEF MutateInMemory, At
<1>2. CASE Known(t)
  <2> DEFINE doc == docs[Home][call[t].run] \cup {call[t].mark}
  <2>1. doc \in SUBSET Mark /\ Put(call[t].run, doc)
    BY <1>2, CallTypes DEF MutateInMemory
  <2>2. call[t].mark \in doc /\ docs[Home][call[t].run] \subseteq doc
    OBVIOUS
  <2> HIDE DEF doc
  <2>3. /\ Writes(t)
        /\ call[t].run \in DOMAIN docs'[Home]
        /\ call[t].mark \in docs'[Home][call[t].run]
    BY <1>1, <1>2, <2>1, <2>2, PutWrites
  <2> QED BY <1>1, <2>3, ReturningKeeps
<1>3. CASE ~Known(t)
  <2>1. Writes(t)
    BY <1>3 DEF MutateInMemory, Writes
  <2> QED BY <1>1, <1>3, <2>1, ReturningKeeps
<1> QED BY <1>2, <1>3

LEMMA ReadInTransactionKeeps ==
    ASSUME KeepInv, NEW t \in Thread, ReadInTransaction(t)
    PROVE  KeepInv'
<1>1. At(t, "read") /\ UNCHANGED <<settings, store, life, calls>> /\ UNCHANGED fallbackLock
      /\ ~At(t, "set") /\ ~At(t, "idle") /\ Writes(t) /\ UNCHANGED docs
  BY DEF ReadInTransaction, At, Writes
<1>2. CASE ~Known(t) /\ Returns(t)
  BY <1>1, <1>2, ReturningKeeps
<1>3. CASE Raises(t)
  BY <1>1, <1>3, RaisingKeeps
<1>4. CASE /\ Known(t) /\ UNCHANGED acked
           /\ call' = [call EXCEPT ![t].step = "commit", ![t].read = docs[Home][call[t].run]]
  <2> DEFINE c == [call[t] EXCEPT !.step = "commit", !.read = docs[Home][call[t].run]]
             new == {}
  <2>1. call[t] \in Call /\ docs[Home][call[t].run] \in SUBSET Mark
    BY <1>4, CallTypes
  <2>2. /\ c \in Call /\ c.step = "commit" /\ c.mark = call[t].mark /\ c.run = call[t].run
    BY <2>1 DEF Call
  <2>3. call' = [call EXCEPT ![t] = c]
    BY <1>4, <2>1 DEF KeepInv, Types
  <2>4. acked' = acked \cup new /\ \A w \in new : FALSE
    BY <1>4
  <2>5. store.backend = "firestore"
    BY <1>1 DEF KeepInv, CallsAgree
  <2> HIDE DEF c, new
  <2> QED BY <1>1, <1>4, <2>2, <2>3, <2>4, <2>5, MovingKeeps
<1> QED BY <1>2, <1>3, <1>4 DEF ReadInTransaction

LEMMA CommitKeeps ==
    ASSUME KeepInv, NEW t \in Thread, Commit(t)
    PROVE  KeepInv'
<1>1. At(t, "commit") /\ UNCHANGED <<settings, store, life, calls>> /\ UNCHANGED fallbackLock
      /\ ~At(t, "set") /\ ~At(t, "idle")
  BY DEF Commit, At
<1>2. Known(t) /\ store.backend = "firestore"
  BY <1>1 DEF KeepInv, CallsHold, CallsAgree
<1>3. CASE /\ Unchanged(t) /\ Put(call[t].run, call[t].read \cup {call[t].mark})
           /\ Returns(t) \/ Raises(t)
  <2> DEFINE doc == call[t].read \cup {call[t].mark}
  <2>1. doc \in SUBSET Mark /\ Put(call[t].run, doc)
    BY <1>3, CallTypes
  <2>2. call[t].mark \in doc /\ docs[Home][call[t].run] \subseteq doc
    BY <1>3 DEF Unchanged
  <2> HIDE DEF doc
  <2>3. /\ Writes(t)
        /\ call[t].run \in DOMAIN docs'[Home]
        /\ call[t].mark \in docs'[Home][call[t].run]
    BY <1>1, <1>2, <2>1, <2>2, PutWrites
  <2> QED BY <1>1, <1>3, <2>3, ReturningKeeps, RaisingKeeps
<1>4. CASE /\ UNCHANGED docs /\ UNCHANGED acked
           /\ call' = [call EXCEPT ![t].step = "read", ![t].attempt = @ + 1]
  <2> DEFINE c == [call[t] EXCEPT !.step = "read", !.attempt = @ + 1]
             new == {}
  <2>1. call[t] \in Call /\ call[t].attempt + 1 \in Nat
    BY CallTypes DEF Call
  <2>2. /\ c \in Call /\ c.step = "read" /\ c.mark = call[t].mark /\ c.run = call[t].run
    BY <2>1 DEF Call
  <2>3. call' = [call EXCEPT ![t] = c]
    BY <1>4, <2>1 DEF KeepInv, Types
  <2>4. acked' = acked \cup new /\ \A w \in new : FALSE
    BY <1>4
  <2>5. Writes(t)
    BY <1>4 DEF Writes
  <2> HIDE DEF c, new
  <2> QED BY <1>1, <1>2, <2>2, <2>3, <2>4, <2>5, MovingKeeps
<1>5. CASE Raises(t) /\ UNCHANGED docs
  BY <1>1, <1>5, RaisingKeeps DEF Writes
<1> QED BY <1>3, <1>4, <1>5 DEF Commit

LEMMA TakeLockKeeps ==
    ASSUME KeepInv, NEW t \in Thread, TakeLock(t)
    PROVE  KeepInv'
<1>1. /\ At(t, "lock") /\ ~At(t, "idle") /\ UNCHANGED <<settings, store, life, calls>>
      /\ fallbackLock = NoThread /\ fallbackLock' = t /\ Writes(t)
  BY DEF TakeLock, At, Writes
<1>2. store.backend = "supplied"
  BY <1>1 DEF KeepInv, CallsAgree
<1> DEFINE c == [call[t] EXCEPT !.step = "get"]
           new == {}
<1>3. call[t] \in Call
  BY CallTypes
<1>4. /\ c \in Call /\ c.step = "get" /\ c.mark = call[t].mark
  BY <1>3 DEF Call
<1>5. call' = [call EXCEPT ![t] = c]
  BY <1>3 DEF KeepInv, Types, TakeLock
<1>6. acked' = acked \cup new /\ \A w \in new : FALSE
  BY DEF TakeLock
<1> HIDE DEF c, new
<1> QED BY <1>1, <1>2, <1>4, <1>5, <1>6, MovingKeeps

LEMMA GetKeeps ==
    ASSUME KeepInv, NEW t \in Thread, Get(t)
    PROVE  KeepInv'
<1>1. /\ At(t, "get") /\ ~At(t, "idle") /\ ~At(t, "set")
      /\ UNCHANGED <<settings, store, life, calls>> /\ UNCHANGED docs /\ Writes(t)
  BY DEF Get, At, Writes
<1>2. fallbackLock = t /\ store.backend = "supplied"
  BY <1>1 DEF KeepInv, CallsHold, CallsAgree
<1>3. CASE /\ Known(t) /\ UNCHANGED <<fallbackLock, acked>>
           /\ call' = [call EXCEPT ![t].step = "put", ![t].read = docs[Home][call[t].run]]
  <2> DEFINE c == [call[t] EXCEPT !.step = "put", !.read = docs[Home][call[t].run]]
             new == {}
  <2>1. call[t] \in Call /\ docs[Home][call[t].run] \in SUBSET Mark
    BY <1>3, CallTypes
  <2>2. /\ c \in Call /\ c.step = "put" /\ c.mark = call[t].mark /\ c.run = call[t].run
        /\ c.read = docs[Home][call[t].run]
    BY <2>1 DEF Call
  <2>3. call' = [call EXCEPT ![t] = c]
    BY <1>3, <2>1 DEF KeepInv, Types
  <2>4. acked' = acked \cup new /\ \A w \in new : FALSE
    BY <1>3
  <2> HIDE DEF c, new
  <2> QED BY <1>1, <1>2, <1>3, <2>2, <2>3, <2>4, MovingKeeps
<1>4. CASE Raises(t) /\ fallbackLock' = NoThread
  BY <1>1, <1>2, <1>4, RaisingKeeps
<1>5. CASE ~Known(t) /\ Returns(t) /\ fallbackLock' = NoThread
  BY <1>1, <1>2, <1>5, ReturningKeeps
<1> QED BY <1>3, <1>4, <1>5 DEF Get

LEMMA PutBackKeeps ==
    ASSUME KeepInv, NEW t \in Thread, PutBack(t)
    PROVE  KeepInv'
<1>1. At(t, "put") /\ ~At(t, "set") /\ UNCHANGED <<settings, store, life, calls>>
  BY DEF PutBack, At
<1>2. Known(t) /\ fallbackLock = t /\ docs[Home][call[t].run] = call[t].read
  BY <1>1 DEF KeepInv, CallsHold
<1>3. CASE /\ Put(call[t].run, call[t].read \cup {call[t].mark})
           /\ Returns(t) \/ Raises(t)
  <2> DEFINE doc == call[t].read \cup {call[t].mark}
  <2>1. doc \in SUBSET Mark /\ Put(call[t].run, doc)
    BY <1>3, CallTypes
  <2>2. call[t].mark \in doc /\ docs[Home][call[t].run] \subseteq doc
    BY <1>2
  <2> HIDE DEF doc
  <2>3. /\ Writes(t)
        /\ call[t].run \in DOMAIN docs'[Home]
        /\ call[t].mark \in docs'[Home][call[t].run]
    BY <1>1, <1>2, <2>1, <2>2, PutWrites
  <2> QED BY <1>1, <1>2, <1>3, <2>3, ReturningKeeps, RaisingKeeps
<1>4. CASE UNCHANGED docs /\ Raises(t)
  BY <1>1, <1>2, <1>4, RaisingKeeps DEF Writes
<1> QED BY <1>3, <1>4 DEF PutBack

\* A call begins under a mark, and perhaps for a run, that nobody has seen.
LEMMA BeginKeeps ==
    ASSUME KeepInv, NEW t \in Thread, NEW run \in 1 .. calls + 1, Begin(t, run)
    PROVE  KeepInv'
<1> DEFINE step == IF run = calls + 1 THEN "set" ELSE FirstStep
           c == [Idle EXCEPT !.step = step, !.run = run, !.mark = calls + 1]
<1>1. /\ store # Down /\ calls' = calls + 1 /\ calls \in Nat
      /\ UNCHANGED <<settings, life, store, docs, reachable, fallbackLock, acked>>
  BY DEF Begin, KeepInv, Types
<1>2. store.backend \in {"memory", "firestore", "supplied"}
  BY <1>1 DEF KeepInv, Types
<1>3. /\ step \in {"set", "mutate", "read", "lock"}
      /\ step = "set" => run = calls + 1
      /\ step = "mutate" => store.backend = "memory"
      /\ step = "read" => store.backend = "firestore"
      /\ step = "lock" => store.backend = "supplied"
  BY <1>2 DEF FirstStep
<1> HIDE DEF step
<1>4. Idle \in Call
  BY DEF Idle, Call, Mark
<1>5. call' = [call EXCEPT ![t] = c]
  BY DEF Begin, step
<1>6. c \in Call /\ c.step = step /\ c.run = run /\ c.mark = calls + 1
  <2>1. run \in Nat /\ calls + 1 \in Nat
    BY <1>1
  <2>2. step \in {"idle", "set", "mutate", "read", "commit", "lock", "get", "put"}
    BY <1>3
  <2>3. c \in Call
    BY <1>4, <2>1, <2>2 DEF Call
  <2>4. c.step = step /\ c.run = run /\ c.mark = calls + 1
    BY <1>4 DEF Call
  <2> QED BY <2>3, <2>4
<1> HIDE DEF c
<1>7. call' \in [Thread -> Call] /\ call'[t] = c /\ \A u \in Thread \ {t} : call'[u] = call[u]
  BY <1>5, <1>6 DEF KeepInv, Types
<1>8. Home' = Home /\ Runs' = Runs
  BY <1>1 DEF Home, durable, Runs
<1>9. Types' /\ RunsIssued'
  BY <1>1, <1>7 DEF KeepInv, Types, RunsIssued
<1>10. CallsAgree'
  <2>1. \A u \in Thread : ~At(u, "idle")' => call'[u].mark \in 1 .. calls' /\ store' # Down
    BY <1>1, <1>6, <1>7 DEF KeepInv, CallsAgree, At
  <2>2. \A u \in Thread \ {t} : ~At(u, "idle")' => call'[u].mark # call'[t].mark
    BY <1>1, <1>6, <1>7 DEF KeepInv, CallsAgree, At
  <2>3. \A u, v \in Thread :
           u # v /\ ~At(u, "idle")' /\ ~At(v, "idle")' => call'[u].mark # call'[v].mark
    BY <1>7, <2>2 DEF KeepInv, CallsAgree, At
  <2>4. \A u \in Thread :
          /\ At(u, "mutate")' => store'.backend = "memory"
          /\ At(u, "read")' \/ At(u, "commit")' => store'.backend = "firestore"
          /\ At(u, "lock")' \/ At(u, "get")' \/ At(u, "put")' => store'.backend = "supplied"
    BY <1>1, <1>3, <1>6, <1>7 DEF KeepInv, CallsAgree, At
  <2> QED BY <2>1, <2>3, <2>4 DEF CallsAgree
<1>11. CallsHold'
  <2>1. At(t, "set")' => call'[t].run = call'[t].mark /\ ~Known(t)'
    <3>1. calls + 1 \notin Runs
      BY <1>1, HomeIsPlace DEF KeepInv, RunsIssued, Runs
    <3> QED BY <1>3, <1>6, <1>7, <1>8, <3>1 DEF At, Known
  <2>2. ~(At(t, "commit")' \/ At(t, "get")' \/ At(t, "put")')
    BY <1>3, <1>6, <1>7 DEF At
  <2> QED BY <1>1, <1>7, <1>8, <2>1, <2>2 DEF KeepInv, CallsHold, At, Known
<1>12. AcksOfThisLife' /\ AcknowledgedWritesKept'
  BY <1>1, <1>8 DEF KeepInv, AcksOfThisLife, AcknowledgedWritesKept, Shown, durable
<1> QED BY <1>9, <1>10, <1>11, <1>12 DEF KeepInv

\* A new life starts with no call, and no acknowledgement is of it.
LEMMA CreateKeeps ==
    ASSUME KeepInv, Create
    PROVE  KeepInv'
<1>1. /\ store = Down /\ life' = life + 1 /\ life \in Nat
      /\ UNCHANGED <<settings, docs, reachable, fallbackLock, call, calls, acked>>
  BY DEF Create, KeepInv, Types
<1>2. PICK answers \in BOOLEAN :
         store' = IF settings.use_in_memory_state THEN [backend |-> "memory", degraded |-> FALSE]
                  ELSE IF answers THEN [backend |-> settings.backend, degraded |-> FALSE]
                  ELSE IF settings.require_durable_state THEN Down
                  ELSE Fallback
  BY DEF Create
<1>3. /\ store' \in [backend : {"none", "memory", "firestore", "supplied"}, degraded : BOOLEAN]
      /\ store'.backend = "none" => store' = Down
  BY <1>2 DEF Fallback, Down, KeepInv, Types, Settings
<1>4. \A t \in Thread : At(t, "idle")
  BY <1>1 DEF KeepInv, CallsAgree
<1>5. Types' /\ RunsIssued'
  BY <1>1, <1>3 DEF KeepInv, Types, RunsIssued
<1>6. CallsAgree' /\ CallsHold'
  BY <1>1, <1>4 DEF CallsAgree, CallsHold, At
<1>7. \A w \in acked : w.life \in Nat /\ w.life <= life' /\ w.life # life'
  BY <1>1 DEF KeepInv, AcksOfThisLife
<1>8. AcksOfThisLife' /\ AcknowledgedWritesKept'
  BY <1>1, <1>7 DEF KeepInv, AcksOfThisLife, AcknowledgedWritesKept
<1> QED BY <1>5, <1>6, <1>8 DEF KeepInv

\* What Firestore holds survives the process; nothing else was promised to.
LEMMA CrashKeeps ==
    ASSUME KeepInv, Crash
    PROVE  KeepInv'
<1>1. /\ store' = Down /\ docs' = [docs EXCEPT !.process = NoDocs]
      /\ fallbackLock' = NoThread /\ call' = [t \in Thread |-> Idle]
      /\ UNCHANGED <<settings, life, reachable, calls, acked>>
  BY DEF Crash
<1>2. NoDocs \in [{} -> SUBSET Mark] /\ DOMAIN NoDocs = {}
  BY DEF NoDocs
<1>3. NoDocs \in Docs
  BY <1>2 DEF Docs
<1>4. docs' \in [{"process", "firestore"} -> Docs] /\ docs'.firestore = docs.firestore
      /\ docs'.process = NoDocs
  BY <1>1, <1>3 DEF KeepInv, Types
<1>5. Idle \in Call /\ Idle.step = "idle"
  BY DEF Idle, Call, Mark
<1>6. Types'
  BY <1>1, <1>4, <1>5 DEF KeepInv, Types, Down
<1>7. RunsIssued'
  BY <1>1, <1>2, <1>4 DEF KeepInv, RunsIssued
<1>8. CallsAgree' /\ CallsHold'
  BY <1>1, <1>5 DEF CallsAgree, CallsHold, At
<1>9. AcksOfThisLife' /\ AcknowledgedWritesKept'
  BY <1>1, <1>4 DEF KeepInv, AcksOfThisLife, AcknowledgedWritesKept
<1> QED BY <1>6, <1>7, <1>8, <1>9 DEF KeepInv

LEMMA StillKeeps ==
    ASSUME KeepInv,
           UNCHANGED <<settings, life, store, docs, fallbackLock, call, calls, acked>>
    PROVE  KeepInv'
  BY DEF KeepInv, Types, CallsAgree, CallsHold, RunsIssued, AcksOfThisLife,
         AcknowledgedWritesKept, Shown, Known, At, Runs, Home, durable

LEMMA InitKeeps == Init => KeepInv
<1> SUFFICES ASSUME Init PROVE KeepInv
  OBVIOUS
<1>1. NoDocs \in [{} -> SUBSET Mark] /\ DOMAIN NoDocs = {}
  BY DEF NoDocs
<1>2. NoDocs \in Docs
  BY <1>1 DEF Docs
<1>3. Idle \in Call /\ Idle.step = "idle"
  BY DEF Idle, Call, Mark
<1>4. Types /\ RunsIssued
  BY <1>1, <1>2, <1>3 DEF Init, Types, RunsIssued, Down
<1>5. CallsAgree /\ CallsHold
  BY <1>3 DEF Init, CallsAgree, CallsHold, At
<1>6. AcksOfThisLife /\ AcknowledgedWritesKept
  BY DEF Init, AcksOfThisLife, AcknowledgedWritesKept
<1> QED BY <1>4, <1>5, <1>6 DEF KeepInv

LEMMA NextKeeps == KeepInv /\ [Next]_vars => KeepInv'
<1> SUFFICES ASSUME KeepInv, [Next]_vars PROVE KeepInv'
  OBVIOUS
<1>1. CASE Create
  BY <1>1, CreateKeeps
<1>2. CASE Crash
  BY <1>2, CrashKeeps
<1>3. CASE Flip
  BY <1>3, StillKeeps DEF Flip
<1>4. ASSUME NEW t \in Thread, NEW run \in 1 .. calls + 1, Begin(t, run)
      PROVE  KeepInv'
  BY <1>4, BeginKeeps
<1>5. ASSUME NEW t \in Thread, Step(t) PROVE KeepInv'
  BY <1>5, StartRunKeeps, MutateInMemoryKeeps, ReadInTransactionKeeps, CommitKeeps,
     TakeLockKeeps, GetKeeps, PutBackKeeps DEF Step
<1>6. CASE UNCHANGED vars
  BY <1>6, StillKeeps DEF vars
<1> QED BY <1>1, <1>2, <1>3, <1>4, <1>5, <1>6 DEF Next

\* Concurrent writers do not lose writes (state.py:31-34): in every reachable state,
\* what a call acknowledged is in its run's document, for as long as the process lives,
\* and on Firestore through every restart, unless the run had no document.
THEOREM WritersDoNotLoseWrites == Spec => []AcknowledgedWritesKept
<1>1. KeepInv => AcknowledgedWritesKept
  BY DEF KeepInv
<1> QED BY <1>1, InitKeeps, NextKeeps, PTL DEF Spec

------------------------------------------------------------------------------
(* The fallback lock is given back, and degraded means in memory.           *)

LockInv ==
    /\ \A t \in Thread : fallbackLock = t => call[t].step \in {"get", "put"}
    /\ store.degraded => store.backend = "memory"

StoreTypesInv == StoreInv /\ KeepInv /\ LockInv

LEMMA InitLock == Init => LockInv
  BY StoreAssumption DEF Init, LockInv, Down

\* A step of one call takes the lock only to read under it, and ends with giving it back.
LEMMA StepLocks ==
    ASSUME KeepInv, LockInv, NEW t \in Thread, Step(t)
    PROVE  LockInv'
<1>1. store' = store
  BY DEF Step, StartRun, MutateInMemory, ReadInTransaction, Commit, TakeLock, Get, PutBack
<1>2. ASSUME NEW c, call' = [call EXCEPT ![t] = c],
             \/ fallbackLock' = NoThread
             \/ fallbackLock' = t /\ c.step \in {"get", "put"}
             \/ fallbackLock' = fallbackLock /\ fallbackLock # t
      PROVE  LockInv'
  BY <1>1, <1>2, StoreAssumption DEF KeepInv, Types, LockInv
<1>3. fallbackLock = t => At(t, "get") \/ At(t, "put")
  BY DEF LockInv, At
<1>4. call[t] \in Call
  BY DEF KeepInv, Types
<1>5. ASSUME Returns(t) \/ Raises(t), fallbackLock' = NoThread \/
                (fallbackLock' = fallbackLock /\ ~At(t, "get") /\ ~At(t, "put"))
      PROVE  LockInv'
  <2>1. call' = [call EXCEPT ![t] = Idle]
    BY <1>5 DEF Returns, Raises
  <2> QED BY <1>2, <1>3, <1>5, <2>1
<1>6. CASE StartRun(t) \/ MutateInMemory(t)
  BY <1>5, <1>6 DEF StartRun, MutateInMemory, At
<1>7. CASE ReadInTransaction(t) \/ Commit(t)
  <2>1. fallbackLock' = fallbackLock /\ ~At(t, "get") /\ ~At(t, "put")
    BY <1>7 DEF ReadInTransaction, Commit, At
  <2>2. CASE Returns(t) \/ Raises(t)
    BY <1>5, <2>1, <2>2
  <2>3. CASE call' = [call EXCEPT ![t].step = "commit", ![t].read = docs[Home][call[t].run]]
    <3>1. call' = [call EXCEPT ![t] = [call[t] EXCEPT !.step = "commit",
                                                      !.read = docs[Home][call[t].run]]]
      BY <2>3
    <3> QED BY <1>2, <1>3, <2>1, <3>1
  <2>4. CASE call' = [call EXCEPT ![t].step = "read", ![t].attempt = @ + 1]
    <3>1. call' = [call EXCEPT ![t] = [call[t] EXCEPT !.step = "read", !.attempt = @ + 1]]
      BY <2>4
    <3> QED BY <1>2, <1>3, <2>1, <3>1
  <2> QED BY <1>7, <2>2, <2>3, <2>4 DEF ReadInTransaction, Commit
<1>8. CASE TakeLock(t)
  <2>1. call' = [call EXCEPT ![t] = [call[t] EXCEPT !.step = "get"]] /\ fallbackLock' = t
    BY <1>8 DEF TakeLock
  <2>2. [call[t] EXCEPT !.step = "get"].step = "get"
    BY <1>4 DEF Call
  <2> QED BY <1>2, <2>1, <2>2
<1>9. CASE Get(t) \/ PutBack(t)
  <2>1. CASE fallbackLock' = NoThread /\ (Returns(t) \/ Raises(t))
    BY <1>5, <2>1
  <2>2. CASE /\ call' = [call EXCEPT ![t].step = "put", ![t].read = docs[Home][call[t].run]]
             /\ UNCHANGED fallbackLock /\ At(t, "get")
    <3> DEFINE c == [call[t] EXCEPT !.step = "put", !.read = docs[Home][call[t].run]]
    <3>1. call' = [call EXCEPT ![t] = c] /\ fallbackLock' = t
      BY <2>2 DEF KeepInv, CallsHold
    <3>2. c.step = "put"
      BY <1>4 DEF Call
    <3> HIDE DEF c
    <3> QED BY <1>2, <3>1, <3>2
  <2> QED BY <1>9, <2>1, <2>2 DEF Get, PutBack
<1> QED BY <1>6, <1>7, <1>8, <1>9 DEF Step

LEMMA NextLock == KeepInv /\ LockInv /\ [Next]_vars => LockInv'
<1> SUFFICES ASSUME KeepInv, LockInv, [Next]_vars PROVE LockInv'
  OBVIOUS
<1>1. CASE Create
  BY <1>1 DEF Create, LockInv, Down, Fallback
<1>2. CASE Crash
  BY <1>2, StoreAssumption DEF Crash, LockInv, Down
<1>3. CASE Flip \/ UNCHANGED vars
  BY <1>3 DEF Flip, vars, LockInv
<1>4. ASSUME NEW t \in Thread, NEW run \in 1 .. calls + 1, Begin(t, run)
      PROVE  LockInv'
  BY <1>4 DEF Begin, KeepInv, Types, LockInv, At
<1>5. ASSUME NEW t \in Thread, Step(t) PROVE LockInv'
  BY <1>5, StepLocks
<1> QED BY <1>1, <1>2, <1>3, <1>4, <1>5 DEF Next

\* The lock over a supplied backend is held by the call between its get and its set, and
\* by nobody else, in every reachable state: each way out of _mutate gives it back.
THEOREM StoreTypes == Spec => []TypeOK
<1>1. StoreTypesInv => TypeOK
  BY DEF StoreTypesInv, StoreInv, DownIsIdle, KeepInv, CallsHold, LockInv, TypeOK, At
<1>2. Init => StoreTypesInv
  BY InitAnnounced, InitKeeps, InitLock DEF StoreTypesInv
<1>3. StoreTypesInv /\ [Next]_vars => StoreTypesInv'
  BY NextAnnounces, NextKeeps, NextLock DEF StoreTypesInv
<1> QED BY <1>1, <1>2, <1>3, PTL DEF Spec

------------------------------------------------------------------------------
(* Every call is atomic: the store implements AtomicStore. *)

Answered == {[run |-> w.run, mark |-> w.mark, known |-> w.known, durable |-> w.durable]
                : w \in acked}

\* Marks are those of calls, and the mark of a call in progress is nowhere yet.
MarksApart ==
    /\ \A p \in {"process", "firestore"} : \A r \in DOMAIN docs[p] : docs[p][r] \subseteq 1 .. calls
    /\ \A w \in acked : w.mark \in 1 .. calls
    /\ \A t \in Thread : ~At(t, "idle") =>
          /\ call[t].run \in 1 .. calls
          /\ \A p \in {"process", "firestore"} : \A r \in DOMAIN docs[p] :
                call[t].mark \notin docs[p][r]
          /\ \A w \in acked : w.mark # call[t].mark

AtomicInv == KeepInv /\ MarksApart

\* A call in progress may still happen.
LEMMA CallIsPending ==
    ASSUME AtomicInv, NEW t \in Thread, ~At(t, "idle")
    PROVE  /\ Atomic!Pending(call[t].mark)
           /\ call[t].run \in 1 .. calls /\ call[t].mark \in 1 .. calls
<1>1. call[t].run \in 1 .. calls /\ call[t].mark \in 1 .. calls
  BY DEF AtomicInv, MarksApart, KeepInv, CallsAgree
<1>2. \A p \in Atomic!Place : \A r \in DOMAIN docs[p] : call[t].mark \notin docs[p][r]
  BY DEF AtomicInv, MarksApart, Atomic!Place
<1>3. \A a \in Answered : a.mark # call[t].mark
  BY DEF AtomicInv, MarksApart, Answered
<1> QED BY <1>1, <1>2, <1>3 DEF Atomic!Pending, Answered

\* What is answered is what is acknowledged.
LEMMA ReturnAnswers ==
    ASSUME NEW t \in Thread, Returns(t)
    PROVE  Answered' = Answered \cup
              {[run |-> call[t].run, mark |-> call[t].mark,
                known |-> Known(t) \/ At(t, "set"), durable |-> durable]}
<1> DEFINE w0 == [run |-> call[t].run, mark |-> call[t].mark, life |-> life,
                  known |-> Known(t) \/ At(t, "set"),
                  durable |-> durable, degraded |-> store.degraded]
<1>1. acked' = acked \cup {w0}
  BY DEF Returns
<1>2. [run |-> w0.run, mark |-> w0.mark, known |-> w0.known, durable |-> w0.durable]
        = [run |-> call[t].run, mark |-> call[t].mark,
           known |-> Known(t) \/ At(t, "set"), durable |-> durable]
  OBVIOUS
<1> HIDE DEF w0
<1> QED BY <1>1, <1>2 DEF Answered

\* A call that goes on keeps its mark to itself.
LEMMA GoingOnApart ==
    ASSUME AtomicInv, NEW t \in Thread, ~At(t, "idle"), NEW c,
           call' = [call EXCEPT ![t] = c],
           c.mark = call[t].mark, c.run = call[t].run,
           UNCHANGED <<docs, acked, calls>>
    PROVE  MarksApart'
<1>1. call'[t] = c /\ \A u \in Thread \ {t} : call'[u] = call[u]
  BY DEF AtomicInv, KeepInv, Types
<1> QED BY <1>1 DEF AtomicInv, MarksApart, At

\* A call that ends may leave its mark in documents and in its acknowledgement: no
\* other call has it.
LEMMA EndingApart ==
    ASSUME AtomicInv, NEW t \in Thread, ~At(t, "idle"),
           Returns(t) \/ Raises(t), UNCHANGED calls,
           \A p \in {"process", "firestore"} : \A r \in DOMAIN docs'[p] :
              docs'[p][r] \subseteq {call[t].mark} \/
              (r \in DOMAIN docs[p] /\ docs'[p][r] \subseteq docs[p][r] \cup {call[t].mark})
    PROVE  MarksApart'
<1>1. call' = [call EXCEPT ![t] = Idle]
  BY DEF Returns, Raises
<1>2. call'[t] = Idle /\ \A u \in Thread \ {t} : call'[u] = call[u]
  BY <1>1 DEF AtomicInv, KeepInv, Types
<1>3. \A w \in acked' : w \in acked \/ w.mark = call[t].mark
  BY DEF Returns, Raises
<1>4. call[t].mark \in 1 .. calls
  BY DEF AtomicInv, KeepInv, CallsAgree
<1>5. \A p \in {"process", "firestore"} : \A r \in DOMAIN docs'[p] : docs'[p][r] \subseteq 1 .. calls'
  BY <1>4 DEF AtomicInv, MarksApart
<1>6. \A w \in acked' : w.mark \in 1 .. calls'
  BY <1>3, <1>4 DEF AtomicInv, MarksApart
<1>7. ASSUME NEW u \in Thread, ~At(u, "idle")'
      PROVE  /\ call'[u].run \in 1 .. calls'
             /\ \A p \in {"process", "firestore"} : \A r \in DOMAIN docs'[p] :
                   call'[u].mark \notin docs'[p][r]
             /\ \A w \in acked' : w.mark # call'[u].mark
  <2>1. u # t /\ call'[u] = call[u] /\ ~At(u, "idle")
    BY <1>2, <1>7 DEF At, Idle
  <2>2. call[u].mark # call[t].mark
    BY <2>1 DEF AtomicInv, KeepInv, CallsAgree
  <2>3. call[u].run \in 1 .. calls'
    BY <2>1 DEF AtomicInv, MarksApart
  <2>4. \A p \in {"process", "firestore"} : \A r \in DOMAIN docs'[p] : call[u].mark \notin docs'[p][r]
    BY <2>1, <2>2 DEF AtomicInv, MarksApart
  <2>5. \A w \in acked' : w.mark # call[u].mark
    BY <1>3, <2>1, <2>2 DEF AtomicInv, MarksApart
  <2> QED BY <2>1, <2>3, <2>4, <2>5
<1> QED BY <1>5, <1>6, <1>7 DEF MarksApart

\* A call that writes what its run's document holds, and its mark, has happened: the
\* document is as the step finds it, whatever it was when the call read it.
LEMMA Happens ==
    ASSUME AtomicInv, NEW t \in Thread, ~At(t, "idle"), Known(t) \/ At(t, "set"),
           Put(call[t].run, Atomic!Before(Home, call[t].run) \cup {call[t].mark}),
           Returns(t) \/ Raises(t), UNCHANGED <<calls, store>>
    PROVE  Atomic!Next /\ MarksApart'
<1> DEFINE run == call[t].run
           mark == call[t].mark
           doc == Atomic!Before(Home, run) \cup {mark}
<1>1. run \in Runs \/ run = mark
  BY DEF Known, AtomicInv, KeepInv, CallsHold
<1>2. run \in 1 .. calls /\ mark \in 1 .. calls /\ Atomic!Pending(mark) /\ Home \in Atomic!Place
  BY CallIsPending, HomeIsPlace DEF Atomic!Place
<1>3. docs' = [docs EXCEPT ![Home] = [r \in DOMAIN docs[Home] \cup {run} |->
                  IF r = run THEN doc ELSE docs[Home][r]]]
  BY DEF Put, Runs
<1>4. Atomic!Answer(Home, run, mark, TRUE) \/ UNCHANGED Answered
  <2>1. CASE Returns(t)
    <3>1. (Known(t) \/ At(t, "set")) = TRUE
      BY DEF Known, At
    <3>2. durable = (Home = "firestore")
      BY DEF Home, durable
    <3>3. [run |-> run, mark |-> mark, known |-> Known(t) \/ At(t, "set"), durable |-> durable]
            = [run |-> run, mark |-> mark, known |-> TRUE, durable |-> Home = "firestore"]
      BY <3>1, <3>2
    <3> QED BY <2>1, <3>3, ReturnAnswers DEF Atomic!Answer, Answered
  <2>2. CASE Raises(t)
    BY <2>2 DEF Raises, Answered
  <2> QED BY <2>1, <2>2
<1>5. Atomic!Apply(Home, run, mark)
  BY <1>1, <1>2, <1>3, <1>4 DEF Atomic!Apply, Answered, Runs
<1>6. Atomic!Next
  BY <1>2, <1>5 DEF Atomic!Next, Atomic!Apply, Atomic!Pending, Atomic!Answer, Atomic!Before
<1>7. MarksApart'
  <2>1. /\ DOMAIN docs'[Home] = Runs \cup {run}
        /\ docs'[Home][run] = doc
        /\ \A r \in Runs \ {run} : docs'[Home][r] = docs[Home][r]
        /\ \A p \in {"process", "firestore"} \ {Home} : docs'[p] = docs[p]
    BY <1>3, HomeIsPlace DEF AtomicInv, KeepInv, Types, Runs
  <2>2. doc \subseteq {mark} \/ (run \in Runs /\ doc \subseteq docs[Home][run] \cup {mark})
    BY DEF Atomic!Before, Runs
  <2> HIDE DEF doc
  <2>3. \A p \in {"process", "firestore"} : \A r \in DOMAIN docs'[p] :
           docs'[p][r] \subseteq {mark} \/
           (r \in DOMAIN docs[p] /\ docs'[p][r] \subseteq docs[p][r] \cup {mark})
    <3> SUFFICES ASSUME NEW p \in {"process", "firestore"}, NEW r \in DOMAIN docs'[p]
                 PROVE  docs'[p][r] \subseteq {mark} \/
                        (r \in DOMAIN docs[p] /\ docs'[p][r] \subseteq docs[p][r] \cup {mark})
      OBVIOUS
    <3>1. CASE p = Home /\ r = run
      BY <2>1, <2>2, <3>1 DEF Runs
    <3>2. CASE p = Home /\ r # run
      BY <2>1, <3>2 DEF Runs
    <3>3. CASE p # Home
      BY <2>1, <3>3
    <3> QED BY <3>1, <3>2, <3>3
  <2> QED BY <2>3, EndingApart
<1> QED BY <1>6, <1>7

\* A call that returns without a write found no document of its run.
LEMMA IsIgnored ==
    ASSUME AtomicInv, NEW t \in Thread, ~At(t, "idle"), ~At(t, "set"), ~Known(t),
           Returns(t), UNCHANGED <<docs, calls>>
    PROVE  Atomic!Next /\ MarksApart'
<1> DEFINE run == call[t].run
           mark == call[t].mark
<1>1. run \in 1 .. calls /\ mark \in 1 .. calls /\ Atomic!Pending(mark) /\ Home \in Atomic!Place
  BY CallIsPending, HomeIsPlace DEF Atomic!Place
<1>2. run \notin DOMAIN docs[Home]
  BY DEF Known, Runs
<1>3. Atomic!Answer(Home, run, mark, FALSE)
  <2>1. (Known(t) \/ At(t, "set")) = FALSE
    BY DEF Known, At
  <2>2. durable = (Home = "firestore")
    BY DEF Home, durable
  <2>3. [run |-> run, mark |-> mark, known |-> Known(t) \/ At(t, "set"), durable |-> durable]
          = [run |-> run, mark |-> mark, known |-> FALSE, durable |-> Home = "firestore"]
    BY <2>1, <2>2
  <2> QED BY <2>3, ReturnAnswers DEF Atomic!Answer, Answered
<1>4. Atomic!Ignore(Home, run, mark)
  BY <1>1, <1>2, <1>3 DEF Atomic!Ignore
<1>5. MarksApart'
  BY EndingApart
<1> QED BY <1>1, <1>4, <1>5 DEF Atomic!Next, Atomic!Ignore, Atomic!Pending, Atomic!Answer

\* A call that raises without a write has not happened, and nobody is told anything.
LEMMA HasNotHappened ==
    ASSUME AtomicInv, NEW t \in Thread, ~At(t, "idle"), Raises(t), UNCHANGED <<docs, calls>>
    PROVE  UNCHANGED <<docs, calls, Answered>> /\ MarksApart'
<1>1. MarksApart'
  BY EndingApart
<1> QED BY <1>1 DEF Raises, Answered

\* A step of a call is the call's happening, or nothing to the abstract store.
Refines == MarksApart' /\ (Atomic!Next \/ UNCHANGED <<docs, calls, Answered>>)

LEMMA GoingOnRefines ==
    ASSUME AtomicInv, NEW t \in Thread, ~At(t, "idle"), NEW c,
           call' = [call EXCEPT ![t] = c],
           c.mark = call[t].mark, c.run = call[t].run,
           UNCHANGED <<docs, acked, calls>>
    PROVE  Refines
  BY GoingOnApart DEF Refines, Answered

LEMMA StepRefines ==
    ASSUME AtomicInv, NEW t \in Thread, Step(t)
    PROVE  Refines
<1>1. ~At(t, "idle") /\ UNCHANGED <<calls, store>>
  BY DEF Step, StartRun, MutateInMemory, ReadInTransaction, Commit, TakeLock, Get, PutBack, At
<1>2. call[t] \in Call
  BY CallTypes DEF AtomicInv
<1>3. ASSUME UNCHANGED docs, Raises(t) PROVE Refines
  BY <1>1, <1>3, HasNotHappened DEF Refines
<1>4. ASSUME UNCHANGED docs, ~Known(t), ~At(t, "set"), Returns(t) PROVE Refines
  BY <1>1, <1>4, IsIgnored DEF Refines
<1>5. ASSUME NEW doc, Put(call[t].run, doc \cup {call[t].mark}), Returns(t) \/ Raises(t),
             IF At(t, "set") THEN doc = {} ELSE Known(t) /\ doc = docs[Home][call[t].run]
      PROVE  Refines
  <2>1. At(t, "set") => ~Known(t)
    BY DEF AtomicInv, KeepInv, CallsHold
  <2>2. doc = Atomic!Before(Home, call[t].run)
    BY <1>5, <2>1 DEF Atomic!Before, Known, Runs
  <2> QED BY <1>1, <1>5, <2>2, Happens DEF Refines
<1>6. CASE StartRun(t)
  <2>1. {call[t].mark} = {} \cup {call[t].mark}
    OBVIOUS
  <2>2. CASE Put(call[t].run, {call[t].mark}) /\ (Returns(t) \/ Raises(t))
    <3>1. Put(call[t].run, {} \cup {call[t].mark})
      BY <2>1, <2>2
    <3> QED BY <1>5, <1>6, <2>2, <3>1 DEF StartRun
  <2> QED BY <1>3, <1>6, <2>2 DEF StartRun
<1>7. CASE MutateInMemory(t)
  BY <1>4, <1>5, <1>7 DEF MutateInMemory, At
<1>8. CASE ReadInTransaction(t)
  <2>1. ~At(t, "set") /\ UNCHANGED docs
    BY <1>8 DEF ReadInTransaction, At
  <2>2. CASE call' = [call EXCEPT ![t].step = "commit", ![t].read = docs[Home][call[t].run]]
             /\ UNCHANGED acked
    <3> DEFINE c == [call[t] EXCEPT !.step = "commit", !.read = docs[Home][call[t].run]]
    <3>1. call' = [call EXCEPT ![t] = c] /\ c.mark = call[t].mark /\ c.run = call[t].run
      BY <1>2, <2>2 DEF AtomicInv, KeepInv, Types, Call
    <3> HIDE DEF c
    <3> QED BY <1>1, <2>1, <2>2, <3>1, GoingOnRefines
  <2> QED BY <1>3, <1>4, <1>8, <2>1, <2>2 DEF ReadInTransaction
<1>9. CASE Commit(t)
  <2>1. ~At(t, "set") /\ Known(t)
    BY <1>9 DEF Commit, At, AtomicInv, KeepInv, CallsHold
  <2>2. CASE Unchanged(t) /\ Put(call[t].run, call[t].read \cup {call[t].mark})
             /\ (Returns(t) \/ Raises(t))
    BY <1>5, <2>1, <2>2 DEF Unchanged
  <2>3. CASE call' = [call EXCEPT ![t].step = "read", ![t].attempt = @ + 1]
             /\ UNCHANGED <<acked, docs>>
    <3> DEFINE c == [call[t] EXCEPT !.step = "read", !.attempt = @ + 1]
    <3>1. call' = [call EXCEPT ![t] = c] /\ c.mark = call[t].mark /\ c.run = call[t].run
      BY <1>2, <2>3 DEF AtomicInv, KeepInv, Types, Call
    <3> HIDE DEF c
    <3> QED BY <1>1, <2>3, <3>1, GoingOnRefines
  <2> QED BY <1>3, <1>9, <2>2, <2>3 DEF Commit
<1>10. CASE TakeLock(t)
  <2> DEFINE c == [call[t] EXCEPT !.step = "get"]
  <2>1. call' = [call EXCEPT ![t] = c] /\ c.mark = call[t].mark /\ c.run = call[t].run
    BY <1>2, <1>10 DEF TakeLock, AtomicInv, KeepInv, Types, Call
  <2> HIDE DEF c
  <2> QED BY <1>1, <1>10, <2>1, GoingOnRefines DEF TakeLock
<1>11. CASE Get(t)
  <2>1. ~At(t, "set") /\ UNCHANGED docs
    BY <1>11 DEF Get, At
  <2>2. CASE call' = [call EXCEPT ![t].step = "put", ![t].read = docs[Home][call[t].run]]
             /\ UNCHANGED acked
    <3> DEFINE c == [call[t] EXCEPT !.step = "put", !.read = docs[Home][call[t].run]]
    <3>1. call' = [call EXCEPT ![t] = c] /\ c.mark = call[t].mark /\ c.run = call[t].run
      BY <1>2, <2>2 DEF AtomicInv, KeepInv, Types, Call
    <3> HIDE DEF c
    <3> QED BY <1>1, <2>1, <2>2, <3>1, GoingOnRefines
  <2> QED BY <1>3, <1>4, <1>11, <2>1, <2>2 DEF Get
<1>12. CASE PutBack(t)
  <2>1. ~At(t, "set") /\ Known(t) /\ docs[Home][call[t].run] = call[t].read
    BY <1>12 DEF PutBack, At, AtomicInv, KeepInv, CallsHold
  <2> QED BY <1>3, <1>5, <1>12, <2>1 DEF PutBack
<1> QED BY <1>6, <1>7, <1>8, <1>9, <1>10, <1>11, <1>12 DEF Step

\* A call begins under a mark that is nowhere yet.
LEMMA BeginRefines ==
    ASSUME AtomicInv, NEW t \in Thread, NEW run \in 1 .. calls + 1, Begin(t, run)
    PROVE  Refines
<1>1. calls \in Nat /\ calls' = calls + 1 /\ UNCHANGED <<docs, acked>>
  BY DEF Begin, AtomicInv, KeepInv, Types
<1>2. call'[t].run = run /\ call'[t].mark = calls + 1 /\ \A u \in Thread \ {t} : call'[u] = call[u]
  BY DEF Begin, AtomicInv, KeepInv, Types, Idle
<1>3. \A p \in {"process", "firestore"} : \A r \in DOMAIN docs[p] : docs[p][r] \subseteq 1 .. calls
  BY DEF AtomicInv, MarksApart
<1>4. \A w \in acked : w.mark \in 1 .. calls
  BY DEF AtomicInv, MarksApart
<1>5. 1 .. calls \subseteq 1 .. calls' /\ run \in 1 .. calls' /\ calls + 1 \notin 1 .. calls
  BY <1>1
<1>6. ASSUME NEW u \in Thread, ~At(u, "idle")'
      PROVE  /\ call'[u].run \in 1 .. calls'
             /\ \A p \in {"process", "firestore"} : \A r \in DOMAIN docs[p] :
                   call'[u].mark \notin docs[p][r]
             /\ \A w \in acked : w.mark # call'[u].mark
  <2>1. CASE u = t
    BY <1>2, <1>3, <1>4, <1>5, <2>1
  <2>2. CASE u # t
    <3>1. call'[u] = call[u] /\ ~At(u, "idle")
      BY <1>2, <1>6, <2>2 DEF At
    <3> QED BY <1>5, <3>1 DEF AtomicInv, MarksApart
  <2> QED BY <2>1, <2>2
<1>7. MarksApart'
  BY <1>1, <1>3, <1>4, <1>5, <1>6 DEF MarksApart
<1>8. Atomic!Issue
  BY <1>1 DEF Atomic!Issue
<1> QED BY <1>7, <1>8 DEF Refines, Atomic!Next

\* A crash takes the documents of the process, and the calls.
LEMMA CrashRefines ==
    ASSUME AtomicInv, Crash
    PROVE  Refines
<1>1. /\ docs' = [docs EXCEPT !.process = NoDocs] /\ UNCHANGED <<calls, acked>>
      /\ call' = [t \in Thread |-> Idle]
  BY DEF Crash
<1>2. docs'.firestore = docs.firestore /\ docs'.process = NoDocs /\ DOMAIN NoDocs = {}
  BY <1>1 DEF NoDocs, AtomicInv, KeepInv, Types
<1>3. \A t \in Thread : At(t, "idle")'
  BY <1>1 DEF At, Idle
<1>4. MarksApart'
  BY <1>1, <1>2, <1>3 DEF AtomicInv, MarksApart
<1>5. Atomic!Lose
  BY <1>1 DEF Atomic!Lose, NoDocs
<1> QED BY <1>4, <1>5 DEF Refines, Atomic!Next

LEMMA NextRefines ==
    ASSUME AtomicInv, [Next]_vars
    PROVE  Refines
<1>1. CASE Create \/ Flip \/ UNCHANGED vars
  BY <1>1 DEF Create, Flip, vars, AtomicInv, MarksApart, Refines, Answered, At
<1>2. CASE Crash
  BY <1>2, CrashRefines
<1>3. ASSUME NEW t \in Thread, NEW run \in 1 .. calls + 1, Begin(t, run)
      PROVE  Refines
  BY <1>3, BeginRefines
<1>4. ASSUME NEW t \in Thread, Step(t) PROVE Refines
  BY <1>4, StepRefines
<1> QED BY <1>1, <1>2, <1>3, <1>4 DEF Next

\* A call on a run is atomic (state.py:31-34): every behaviour of the threads, the service
\* and the process is one of AtomicStore, in which a call happens in one instant, at most
\* once, and is answered in that instant or never.
THEOREM StoreIsAtomic == Spec => CallsAreAtomic
<1>1. Init => AtomicInv
  <2>1. Init => MarksApart
    BY DEF Init, MarksApart, NoDocs, At, Idle
  <2> QED BY <2>1, InitKeeps DEF AtomicInv
<1>2. Init => Atomic!Init
  BY DEF Init, Atomic!Init, Atomic!Place, NoDocs
<1>3. AtomicInv /\ [Next]_vars
         => AtomicInv' /\ [Atomic!Next]_<<docs, calls, Answered>>
  BY NextRefines, NextKeeps DEF AtomicInv, Refines
<1> QED BY <1>1, <1>2, <1>3, PTL DEF Spec, CallsAreAtomic, Atomic!Spec, Answered
==============================================================================
