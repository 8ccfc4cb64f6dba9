------------------------------ MODULE RunStore -------------------------------
(***************************************************************************)
(* The store of runs of src/agent_core/state.py: the choice of a backend   *)
(* when a process starts, and calls on run documents by its threads.       *)
(*                                                                         *)
(* A document is the set of the writes it shows: a call that appends to a  *)
(* list or sets a field adds its own mark to what it read.  Firestore is   *)
(* external: it may be unreachable, it commits a transaction only if the   *)
(* document it read has not changed, and its answer may be lost.  The      *)
(* supplied backend stands for one handed in through backend_factory that  *)
(* has no mutate: it lives in the process, and any of its calls may raise. *)
(***************************************************************************)
EXTENDS Integers, FiniteSets

CONSTANTS
    Thread, NoThread,
    MaxAttempts,           \* of a Firestore transaction
    MaxCalls, MaxLives     \* bounds

ASSUME StoreAssumption ==
    /\ NoThread \notin Thread
    /\ {MaxAttempts, MaxCalls, MaxLives} \subseteq Nat \ {0}

VARIABLES
    settings,              \* the configuration, the same in every life
    life,                  \* how many times the process has started
    store,                 \* the StateStore of this life
    docs,                  \* the documents, in the process and in Firestore
    reachable,             \* whether Firestore answers
    fallbackLock,          \* who holds _fallback_lock
    call,                  \* where each thread is in its call
    calls,                 \* how many calls there have been: a call's mark
    acked                  \* history: calls that returned, and what readiness() said

vars == <<settings, life, store, docs, reachable, fallbackLock, call, calls, acked>>

Settings == [use_in_memory_state : BOOLEAN, require_durable_state : BOOLEAN,
             backend : {"firestore", "supplied"}]

Down == [backend |-> "none", degraded |-> FALSE]

Idle == [step |-> "idle", run |-> 0, mark |-> 0, read |-> {}, attempt |-> 0]

NoDocs == [r \in {} |-> {}]

Init ==
    /\ settings \in Settings
    /\ life = 0
    /\ store = Down
    /\ docs = [process |-> NoDocs, firestore |-> NoDocs]
    /\ reachable \in BOOLEAN
    /\ fallbackLock = NoThread
    /\ call = [t \in Thread |-> Idle]
    /\ calls = 0
    /\ acked = {}

durable == store.backend = "firestore"

\* Where the backend in use keeps its documents.
Home == IF durable THEN "firestore" ELSE "process"

Runs == DOMAIN docs[Home]

------------------------------------------------------------------------------
(* The life of the process. *)

\* create: the backend that answers a ping, or memory.
Fallback_Silent == [backend |-> "memory", degraded |-> FALSE]

Fallback == [backend |-> "memory", degraded |-> TRUE]

Create ==
    /\ store = Down /\ life < MaxLives
    /\ life' = life + 1
    /\ \E answers \in (IF settings.backend = "firestore" THEN {reachable} ELSE BOOLEAN) :
          store' = IF settings.use_in_memory_state THEN [backend |-> "memory", degraded |-> FALSE]
                   ELSE IF answers THEN [backend |-> settings.backend, degraded |-> FALSE]
                   ELSE IF settings.require_durable_state THEN Down
                   ELSE Fallback
    /\ UNCHANGED <<settings, docs, reachable, fallbackLock, call, calls, acked>>

\* The process dies, and all that is in it.
Crash ==
    /\ store # Down
    /\ store' = Down
    /\ docs' = [docs EXCEPT !.process = NoDocs]
    /\ fallbackLock' = NoThread
    /\ call' = [t \in Thread |-> Idle]
    /\ UNCHANGED <<settings, life, reachable, calls, acked>>

\* Firestore becomes unreachable, or reachable again.
Flip ==
    /\ reachable' = ~reachable
    /\ UNCHANGED <<settings, life, store, docs, fallbackLock, call, calls, acked>>

------------------------------------------------------------------------------
(* Calls.  One either returns, and is acknowledged, or raises. *)

At(t, step) == call[t].step = step

Known(t) == call[t].run \in Runs

Returns(t) ==
    /\ call' = [call EXCEPT ![t] = Idle]
    /\ acked' = acked \cup {[run |-> call[t].run, mark |-> call[t].mark, life |-> life,
                             known |-> Known(t) \/ At(t, "set"),
                             durable |-> durable, degraded |-> store.degraded]}

Raises(t) == call' = [call EXCEPT ![t] = Idle] /\ UNCHANGED acked

Put(run, doc) ==
    docs' = [docs EXCEPT ![Home] = [r \in Runs \cup {run} |-> IF r = run THEN doc ELSE @[r]]]

\* A call on a new run (start_run), or on an id that some caller has (update, set_data,
\* append, ...), whether this backend holds a document of that run or not.
FirstStep == CASE store.backend = "memory"    -> "mutate"
               [] store.backend = "firestore" -> "read"
               [] store.backend = "supplied"  -> "lock"

Begin(t, run) ==
    /\ store # Down /\ At(t, "idle") /\ calls < MaxCalls
    /\ calls' = calls + 1
    /\ call' = [call EXCEPT ![t] = [Idle EXCEPT !.step = IF run = calls + 1 THEN "set" ELSE FirstStep,
                                                !.run = run, !.mark = calls + 1]]
    /\ UNCHANGED <<settings, life, store, docs, reachable, fallbackLock, acked>>

\* start_run: one set, of a document nobody else knows of yet.
StartRun(t) ==
    /\ At(t, "set")
    /\ \/ /\ durable => reachable
          /\ Put(call[t].run, {call[t].mark})
          /\ Returns(t) \/ (store.backend # "memory" /\ Raises(t))
       \/ /\ store.backend # "memory"
          /\ Raises(t) /\ UNCHANGED docs
    /\ UNCHANGED <<settings, life, store, reachable, fallbackLock, calls>>

\* _InMemoryBackend.mutate: all of it under one lock.  As on every backend, a call on a
\* run that has no document does nothing, and returns.
MutateInMemory(t) ==
    /\ At(t, "mutate")
    /\ IF Known(t) THEN Put(call[t].run, docs[Home][call[t].run] \cup {call[t].mark})
       ELSE UNCHANGED docs
    /\ Returns(t)
    /\ UNCHANGED <<settings, life, store, reachable, fallbackLock, calls>>

\* _FirestoreBackend.mutate: read in a transaction, ...
ReadInTransaction(t) ==
    /\ At(t, "read")
    /\ \/ reachable /\ ~Known(t) /\ Returns(t)
       \/ /\ reachable /\ Known(t)
          /\ call' = [call EXCEPT ![t].step = "commit", ![t].read = docs[Home][call[t].run]]
          /\ UNCHANGED acked
       \/ ~reachable /\ Raises(t)
    /\ UNCHANGED <<settings, life, store, docs, reachable, fallbackLock, calls>>

Unchanged_NotLooked(t) == TRUE

Unchanged(t) == docs[Home][call[t].run] = call[t].read

\* ... commit if it still holds, or read again, up to so many times.
Commit(t) ==
    /\ At(t, "commit")
    /\ \/ /\ reachable /\ Unchanged(t)
          /\ Put(call[t].run, call[t].read \cup {call[t].mark})
          /\ Returns(t) \/ Raises(t)
       \/ /\ reachable /\ ~Unchanged(t)
          /\ IF call[t].attempt + 1 < MaxAttempts
             THEN /\ call' = [call EXCEPT ![t].step = "read", ![t].attempt = @ + 1]
                  /\ UNCHANGED acked
             ELSE Raises(t)
          /\ UNCHANGED docs
       \/ ~reachable /\ Raises(t) /\ UNCHANGED docs
    /\ UNCHANGED <<settings, life, store, reachable, fallbackLock, calls>>

\* _mutate on a backend without mutate: get and set under _fallback_lock.
TakeLock(t) ==
    /\ At(t, "lock") /\ fallbackLock = NoThread
    /\ fallbackLock' = t
    /\ call' = [call EXCEPT ![t].step = "get"]
    /\ UNCHANGED <<settings, life, store, docs, reachable, calls, acked>>

Get_KeepsLock(t) ==
    /\ At(t, "get")
    /\ \/ /\ Known(t)
          /\ call' = [call EXCEPT ![t].step = "put", ![t].read = docs[Home][call[t].run]]
          /\ UNCHANGED <<fallbackLock, acked>>
       \/ ~Known(t) /\ Returns(t) /\ fallbackLock' = NoThread
       \/ Raises(t) /\ UNCHANGED fallbackLock
    /\ UNCHANGED <<settings, life, store, docs, reachable, calls>>

Get(t) ==
    /\ At(t, "get")
    /\ \/ /\ Known(t)
          /\ call' = [call EXCEPT ![t].step = "put", ![t].read = docs[Home][call[t].run]]
          /\ UNCHANGED <<fallbackLock, acked>>
       \/ (Raises(t) \/ (~Known(t) /\ Returns(t))) /\ fallbackLock' = NoThread
    /\ UNCHANGED <<settings, life, store, docs, reachable, calls>>

PutBack(t) ==
    /\ At(t, "put")
    /\ \/ Put(call[t].run, call[t].read \cup {call[t].mark}) /\ (Returns(t) \/ Raises(t))
       \/ UNCHANGED docs /\ Raises(t)
    /\ fallbackLock' = NoThread
    /\ UNCHANGED <<settings, life, store, reachable, calls>>

Step(t) ==
    \/ StartRun(t) \/ MutateInMemory(t) \/ ReadInTransaction(t) \/ Commit(t)
    \/ TakeLock(t) \/ Get(t) \/ PutBack(t)

\* A run's id is the mark of the call that starts it.
Next ==
    \/ Create \/ Crash \/ Flip
    \/ \E t \in Thread, run \in 1 .. calls + 1 : Begin(t, run)
    \/ \E t \in Thread : Step(t)

\* A thread in a call is scheduled; one that waits for the lock gets its turn.
Fairness == \A t \in Thread : WF_vars(Step(t)) /\ SF_vars(TakeLock(t))

Spec == Init /\ [][Next]_vars /\ Fairness

------------------------------------------------------------------------------
(* Properties. *)

\* The lock is held by the thread between its get and its set, and only there;
\* a store is degraded only in memory; a dead process runs no call.
TypeOK ==
    /\ \A t \in Thread : fallbackLock = t <=> call[t].step \in {"get", "put"}
    /\ store.degraded => store.backend = "memory"
    /\ store = Down => \A t \in Thread : At(t, "idle")
    /\ \A t \in Thread : call[t].step \in {"commit", "put"} => Known(t)

\* Is the write to be seen where the store now looks?
Shown(w) == w.run \in Runs /\ w.mark \in docs[Home][w.run]

\* Concurrent writers do not lose writes (state.py:31-34): what was acknowledged is in the
\* document for as long as its backend keeps it, and through every restart on Firestore,
\* unless the run had no document to begin with.
AcknowledgedWritesKept ==
    \A w \in {v \in acked : v.known} :
       IF w.durable
       THEN w.run \in DOMAIN docs.firestore /\ w.mark \in docs.firestore[w.run]
       ELSE store # Down /\ w.life = life => Shown(w)

\* Durability is never silent (state.py:25-29): a process that wanted Firestore and
\* acknowledged a write it could lose was saying so on readiness(), and had not been
\* told to require durable state.
LossIsAnnounced ==
    \A w \in acked :
       ~w.durable /\ settings.backend = "firestore" /\ ~settings.use_in_memory_state
          => w.degraded /\ ~settings.require_durable_state

\* A call on a run is atomic (state.py:31-34): whatever the threads interleave and the
\* service does, it happens in one instant, at most once, and is answered only if it did.
Atomic == INSTANCE AtomicStore WITH
    issued <- calls,
    answered <- {[run |-> w.run, mark |-> w.mark, known |-> w.known, durable |-> w.durable]
                    : w \in acked}

CallsAreAtomic == Atomic!Spec

\* Every call returns or raises, unless the process dies first: no contention, failure
\* or exception leaves another call waiting.
EveryCallReturns == \A t \in Thread : ~At(t, "idle") ~> At(t, "idle")
==============================================================================
