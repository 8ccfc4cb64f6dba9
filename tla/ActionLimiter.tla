---------------------------- MODULE ActionLimiter ----------------------------
(***************************************************************************)
(* The process-wide limiter of src/agent_core/guardrails.py: at most so    *)
(* many actions per run, and so many per hour.  One lock is held for the   *)
(* whole of a check except its reading of the clock, which comes first:    *)
(* now is a parameter, and checks may take the lock in another order.      *)
(***************************************************************************)
EXTENDS Integers, FiniteSets, FiniteSetsExt

CONSTANTS
    MaxPerCycle, MaxPerHour,                        \* of the ActionPolicy
    HOUR, CYCLE_TTL_SECONDS, MAX_TRACKED_CYCLES

VARIABLES
    recent,                \* times of allowed actions, each with its number among equals
    cycleCounts            \* per run: how many, and when last

LimiterInit ==
    /\ recent = {}
    /\ cycleCounts = [r \in {} |-> [count |-> 0, seen |-> 0]]

\* The list of times is only filtered and counted, so it is a bag: the copies of a time s
\* are <<s, 1>>, <<s, 2>>, ...
Within(now) == {s \in recent : now - s[1] < HOUR}

Stamp(now) == <<now, Cardinality({s \in Within(now) : s[1] = now}) + 1>>

\* The runs _evict may keep: none that is stale and, of the others, those used
\* last.  Which of two used at the same time is kept depends on insertion order,
\* and is left open.
Kept_DropsAtTTL(now) ==
    LET live == {r \in DOMAIN cycleCounts : now - cycleCounts[r].seen < CYCLE_TTL_SECONDS}
    IN  {k \in SUBSET live :
            /\ Cardinality(k) = Min({Cardinality(live), MAX_TRACKED_CYCLES})
            /\ \A r \in k, q \in live \ k : cycleCounts[q].seen <= cycleCounts[r].seen}

Kept_NoCeiling(now) ==
    {{r \in DOMAIN cycleCounts : now - cycleCounts[r].seen <= CYCLE_TTL_SECONDS}}

Kept(now) ==
    LET live == {r \in DOMAIN cycleCounts : now - cycleCounts[r].seen <= CYCLE_TTL_SECONDS}
    IN  {k \in SUBSET live :
            /\ Cardinality(k) = Min({Cardinality(live), MAX_TRACKED_CYCLES})
            /\ \A r \in k, q \in live \ k : cycleCounts[q].seen <= cycleCounts[r].seen}

Used(run, kept) == IF run \in kept THEN cycleCounts[run].count ELSE 0

Allows_OneMore(run, now, kept) ==
    Cardinality(Within(now)) <= MaxPerHour /\ Used(run, kept) < MaxPerCycle

Allows(run, now, kept) ==
    Cardinality(Within(now)) < MaxPerHour /\ Used(run, kept) < MaxPerCycle

Counted(run, now, kept) ==
    [r \in kept \cup {run} |->
        IF r = run THEN [count |-> Used(run, kept) + 1, seen |-> now] ELSE cycleCounts[r]]

\* check, from the lock on; the caller learns whether the action is allowed.
CheckAllows(run, now) ==
    \E kept \in Kept(now) :
        /\ Allows(run, now, kept)
        /\ recent' = Within(now) \cup {Stamp(now)}
        /\ cycleCounts' = Counted(run, now, kept)

CheckBlocks(run, now) ==
    \E kept \in Kept(now) :
        /\ ~Allows(run, now, kept)
        /\ recent' = Within(now)
        /\ cycleCounts' = [r \in kept |-> cycleCounts[r]]
==============================================================================
