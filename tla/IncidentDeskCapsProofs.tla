----------------------- MODULE IncidentDeskCapsProofs ------------------------
(***************************************************************************)
(* Theorems about the quotas of the action limiter: in no hour are more    *)
(* actions allowed than the policy's, and no cycle is given its quota back *)
(* while it is in use; for any number of cycles, clock readings that wait  *)
(* for the lock in any order, and any quotas, hour and time to live.       *)
(***************************************************************************)
EXTENDS IncidentDeskProofs, FiniteSetTheorems

------------------------------------------------------------------------------
(* Clock readings. *)

\* A reading is never ahead of the clock, nor behind what its cycle has done.
TimeInv ==
    \A c \in Cycle :
       /\ cycle[c].now <= clock
       /\ \A i \in DOMAIN taken[c] :
             /\ taken[c][i].at <= clock
             /\ At(c, "limit") => taken[c][i].at <= cycle[c].now

\* A step of cycle c that does not come to the limiter: it may read the clock.
Elsewhere(c) ==
    /\ UNCHANGED <<clock, recent, cycleCounts, taken>>
    /\ cycle'[c].now \in {0, cycle[c].now, clock}
    /\ cycle'[c].step = "limit" => cycle'[c].now = clock
    /\ \A u \in Cycle \ {c} : cycle'[u] = cycle[u]

LEMMA HandledElsewhere ==
    ASSUME DeskInv, NEW c \in Cycle, NEW r, Handled(c, r),
           UNCHANGED <<clock, recent, cycleCounts, taken>>
    PROVE  Elsewhere(c)
<1>1. cycle[c] \in Frame /\ cycle \in [Cycle -> Frame]
  BY DeskFacts DEF DeskInv, Typed
<1>2. cycle'[c].now = 0 /\ cycle'[c].step = "handler"
  BY <1>1 DEF Handled, Frame
<1> QED BY <1>1, <1>2 DEF Elsewhere, Handled

LEMMA BetweenElsewhere ==
    ASSUME DeskInv, NEW c \in Cycle, NEW s, s # "limit", cycle' = [cycle EXCEPT ![c] = Between(s)],
           UNCHANGED <<clock, recent, cycleCounts, taken>>
    PROVE  Elsewhere(c)
  BY DEF Elsewhere, Between, DeskInv, Typed

LEMMA GotoElsewhere ==
    ASSUME DeskInv, NEW c \in Cycle, NEW s, s # "limit", Goto(c, s),
           UNCHANGED <<clock, recent, cycleCounts, taken>>
    PROVE  Elsewhere(c)
<1>1. cycle[c] \in Frame /\ cycle \in [Cycle -> Frame]
  BY DeskFacts DEF DeskInv, Typed
<1>2. cycle'[c].now = cycle[c].now /\ cycle'[c].step = s
  BY <1>1 DEF Goto, Frame
<1> QED BY <1>1, <1>2 DEF Elsewhere, Goto

LEMMA ReadElsewhere ==
    ASSUME DeskInv, NEW c \in Cycle, cycle' = [cycle EXCEPT ![c].step = "limit", ![c].now = clock],
           UNCHANGED <<clock, recent, cycleCounts, taken>>
    PROVE  Elsewhere(c)
<1>1. cycle[c] \in Frame /\ cycle \in [Cycle -> Frame]
  BY DeskFacts DEF DeskInv, Typed
<1>2. cycle'[c].now = clock
  BY <1>1 DEF Frame
<1> QED BY <1>1, <1>2 DEF Elsewhere

LEMMA NextHandlerElsewhere ==
    ASSUME DeskInv, NEW c \in Cycle, NextHandler(c)
    PROVE  Elsewhere(c)
<1> DEFINE name == Head(cycle[c].queue)
<1>1. UNCHANGED <<clock, recent, cycleCounts, taken>>
  BY DEF NextHandler
<1>2. CASE Handled(c, Result(name, "error", FALSE, FALSE))
  BY <1>1, <1>2, HandledElsewhere
<1>3. CASE cycle' = [cycle EXCEPT ![c].queue = Tail(@)]
  <2>1. cycle[c] \in Frame /\ cycle \in [Cycle -> Frame] /\ cycle[c].step = "handler"
    BY DeskFacts DEF NextHandler, At, DeskInv, Typed
  <2>2. cycle'[c].now = cycle[c].now /\ cycle'[c].step = "handler"
    BY <1>3, <2>1 DEF Frame
  <2> QED BY <1>1, <1>3, <2>1, <2>2 DEF Elsewhere
<1>4. CASE ReadClock(c)
  BY <1>1, <1>4, HandledElsewhere, ReadElsewhere DEF ReadClock
<1> QED BY <1>2, <1>3, <1>4 DEF NextHandler

LEMMA ClassifyElsewhere ==
    ASSUME DeskInv, NEW c \in Cycle, NEW text, Classify(c, text)
    PROVE  Elsewhere(c)
<1>1. cycle[c] \in Frame /\ cycle \in [Cycle -> Frame]
  BY DeskFacts DEF DeskInv, Typed
<1>2. cycle'[c].now = cycle[c].now /\ cycle'[c].step = "handler"
  BY <1>1 DEF Classify, Frame
<1> QED BY <1>1, <1>2 DEF Elsewhere, Classify

LEMMA AdvanceElsewhere ==
    ASSUME DeskInv, NEW c \in Cycle, Start(c) \/ Advance(c)
    PROVE  CheckLimiter(c) \/ Elsewhere(c)
<1>1. CASE Start(c)
  BY <1>1, GotoElsewhere DEF Start
<1>2. CASE \E text \in Text : Classify(c, text)
  BY <1>2, ClassifyElsewhere
<1>3. CASE Deliver(c)
  <2>1. /\ \E r : Handled(c, r)
        /\ UNCHANGED <<clock, recent, cycleCounts, taken>>
    BY <1>3 DEF Deliver
  <2> QED BY <2>1, HandledElsewhere
<1>4. CASE AppendRoute(c)
  BY <1>4, BetweenElsewhere DEF AppendRoute
<1>5. CASE Remediate(c)
  BY <1>5, GotoElsewhere, ReadElsewhere DEF Remediate
<1>6. CASE Complete(c)
  BY <1>6, GotoElsewhere DEF Complete
<1> QED BY <1>1, <1>2, <1>3, <1>4, <1>5, <1>6, NextHandlerElsewhere DEF Advance

\* What a cycle at the limiter comes to: an action more, or not.
Allowing(c) ==
    /\ Limiter!CheckAllows(c, cycle[c].now)
    /\ taken' = [taken EXCEPT ![c] = Append(@, [at |-> clock, fresh |-> cycle[c].now = clock])]

Blocking(c) == Limiter!CheckBlocks(c, cycle[c].now) /\ UNCHANGED taken

LEMMA LimiterMoves ==
    ASSUME DeskInv, NEW c \in Cycle, CheckLimiter(c)
    PROVE  /\ clock' = clock /\ cycle[c].step = "limit"
           /\ cycle'[c].now = 0 /\ cycle'[c].step # "limit"
           /\ \A u \in Cycle \ {c} : cycle'[u] = cycle[u]
           /\ Allowing(c) \/ Blocking(c)
<1>1. cycle[c] \in Frame /\ cycle \in [Cycle -> Frame]
  BY DeskFacts DEF DeskInv, Typed
<1>2. clock' = clock /\ cycle[c].step = "limit"
  BY DEF CheckLimiter, At
<1>3. ASSUME cycle' = [cycle EXCEPT
                          ![c].step = IF cycle[c].queue = <<>> THEN "complete" ELSE "deliver",
                          ![c].now = 0]
      PROVE  /\ cycle'[c].now = 0 /\ cycle'[c].step # "limit"
             /\ \A u \in Cycle \ {c} : cycle'[u] = cycle[u]
  <2> DEFINE next == IF cycle[c].queue = <<>> THEN "complete" ELSE "deliver"
  <2>1. next # "limit"
    OBVIOUS
  <2>2. cycle' = [cycle EXCEPT ![c].step = next, ![c].now = 0]
    BY <1>3
  <2> HIDE DEF next
  <2> QED BY <1>1, <2>1, <2>2 DEF Frame
<1>4. ASSUME NEW r, Handled(c, r)
      PROVE  /\ cycle'[c].now = 0 /\ cycle'[c].step # "limit"
             /\ \A u \in Cycle \ {c} : cycle'[u] = cycle[u]
  BY <1>1, <1>4 DEF Handled, Frame
<1>5. ASSUME cycle' = [cycle EXCEPT ![c] = Between("complete")]
      PROVE  /\ cycle'[c].now = 0 /\ cycle'[c].step # "limit"
             /\ \A u \in Cycle \ {c} : cycle'[u] = cycle[u]
  BY <1>1, <1>5 DEF Between
<1> QED BY <1>2, <1>3, <1>4, <1>5 DEF CheckLimiter, Allowing, Blocking

\* The three kinds of steps that a quota depends on.
LEMMA DeskMoves ==
    ASSUME DeskInv, [Next]_vars
    PROVE  \/ clock' = clock + 1 /\ UNCHANGED <<cycle, recent, cycleCounts, taken>>
           \/ UNCHANGED <<clock, cycle, recent, cycleCounts, taken>>
           \/ \E c \in Cycle : Elsewhere(c) \/ CheckLimiter(c)
  BY AdvanceElsewhere DEF Next, Tick, vars

\* One action more of cycle c, now.
LEMMA TakenFacts ==
    ASSUME DeskInv, NEW c \in Cycle, Allowing(c)
    PROVE  /\ \A u \in Cycle : DOMAIN taken[u] = 1 .. Len(taken[u]) /\ Len(taken[u]) \in Nat
           /\ \A u \in Cycle : \A i \in DOMAIN taken[u] :
                 taken[u][i] \in Action /\ i \in DOMAIN taken'[u] /\ taken'[u][i] = taken[u][i]
           /\ DOMAIN taken'[c] = DOMAIN taken[c] \cup {Len(taken[c]) + 1}
           /\ Len(taken[c]) + 1 \notin DOMAIN taken[c]
           /\ taken'[c][Len(taken[c]) + 1].at = clock
           /\ taken'[c][Len(taken[c]) + 1].fresh <=> cycle[c].now = clock
           /\ \A u \in Cycle \ {c} : taken'[u] = taken[u]
<1> DEFINE n == Len(taken[c])
           a == [at |-> clock, fresh |-> cycle[c].now = clock]
<1>1. taken \in [Cycle -> Seq(Action)] /\ clock \in Nat
  BY DEF DeskInv, Typed
<1>2. a \in Action
  BY <1>1 DEF Action
<1>3. taken'[c] = Append(taken[c], a) /\ \A u \in Cycle \ {c} : taken'[u] = taken[u]
  BY <1>1 DEF Allowing
<1>4. \A u \in Cycle : /\ DOMAIN taken[u] = 1 .. Len(taken[u]) /\ Len(taken[u]) \in Nat
                       /\ \A i \in DOMAIN taken[u] : taken[u][i] \in Action
  BY <1>1, LenProperties
<1> HIDE DEF a
<1>5. /\ taken'[c] \in Seq(Action) /\ Len(taken'[c]) = n + 1 /\ taken'[c][n + 1] = a
      /\ \A i \in 1 .. n : taken'[c][i] = taken[c][i]
  BY <1>1, <1>2, <1>3, AppendProperties
<1>6. DOMAIN taken'[c] = 1 .. n + 1
  BY <1>5, LenProperties
<1>7. n \in Nat /\ DOMAIN taken[c] = 1 .. n /\ 1 .. n + 1 = (1 .. n) \cup {n + 1}
      /\ n + 1 \notin 1 .. n
  BY <1>4
<1>8. a.at = clock /\ (a.fresh <=> cycle[c].now = clock)
  BY DEF a
<1> QED BY <1>3, <1>4, <1>5, <1>6, <1>7, <1>8

LEMMA NextTime == DeskInv /\ TimeInv /\ [Next]_vars => TimeInv'
<1> SUFFICES ASSUME DeskInv, TimeInv, [Next]_vars PROVE TimeInv'
  OBVIOUS
<1>1. clock \in Nat /\ \A u \in Cycle : cycle[u] \in Frame /\ cycle[u].now \in Nat
  BY DEF DeskInv, Typed, Frame
<1>2. \A u \in Cycle : \A i \in DOMAIN taken[u] : taken[u][i].at \in Nat
  <2>1. \A u \in Cycle : taken[u] \in Seq(Action)
    BY DEF DeskInv, Typed
  <2>2. \A u \in Cycle : \A i \in DOMAIN taken[u] : taken[u][i] \in Action
    BY <2>1, LenProperties
  <2> QED BY <2>2 DEF Action
<1>3. CASE clock' = clock + 1 /\ UNCHANGED <<cycle, taken>>
  BY <1>1, <1>2, <1>3 DEF TimeInv, At
<1>4. CASE UNCHANGED <<clock, cycle, taken>>
  BY <1>4 DEF TimeInv, At
<1>5. ASSUME NEW c \in Cycle, Elsewhere(c) PROVE TimeInv'
  BY <1>1, <1>2, <1>5 DEF TimeInv, Elsewhere, At
<1>6. ASSUME NEW c \in Cycle, CheckLimiter(c) PROVE TimeInv'
  <2>1. /\ clock' = clock /\ cycle'[c].now = 0 /\ cycle'[c].step # "limit"
        /\ \A u \in Cycle \ {c} : cycle'[u] = cycle[u]
        /\ Allowing(c) \/ Blocking(c)
    BY <1>6, LimiterMoves
  <2>2. CASE Blocking(c)
    BY <1>1, <1>2, <2>1, <2>2 DEF Blocking, TimeInv, At
  <2>3. CASE Allowing(c)
    <3>1. /\ DOMAIN taken'[c] = DOMAIN taken[c] \cup {Len(taken[c]) + 1}
          /\ taken'[c][Len(taken[c]) + 1].at = clock
          /\ \A i \in DOMAIN taken[c] : taken'[c][i] = taken[c][i]
          /\ \A u \in Cycle \ {c} : taken'[u] = taken[u]
      BY <2>3, TakenFacts
    <3>2. ASSUME NEW u \in Cycle, NEW i \in DOMAIN taken'[u] PROVE taken'[u][i].at <= clock
      BY <1>1, <3>1 DEF TimeInv
    <3> QED BY <1>1, <2>1, <3>1, <3>2 DEF TimeInv, At
  <2> QED BY <2>1, <2>2, <2>3
<1> QED BY <1>3, <1>4, <1>5, <1>6, DeskMoves

LEMMA InitTime == Init => TimeInv
<1>1. Init => \A c \in Cycle : cycle[c].now = 0 /\ DOMAIN taken[c] = {}
  BY EmptySeq DEF Init, Between
<1> QED BY <1>1 DEF TimeInv, Init

------------------------------------------------------------------------------
(* The list of times. *)

\* Copies of a time are numbered from 1.
Numbered(list) ==
    /\ IsFiniteSet(list) /\ list \subseteq Nat \X (Nat \ {0})
    /\ \A s \in list : \A k \in 1 .. s[2] : <<s[1], k>> \in list

\* The actions allowed in the hour that ends at T, of every cycle.
InHour(T) == UNION {{c} \X Allowed(c, T - HOUR + 1 .. T) : c \in Cycle}

\* Each of them is on the list at its own time, no two at one place.
Listed(T) ==
    \E f \in Injection(InHour(T), recent) :
       \A a \in InHour(T) : f[a][1] = taken[a[1]][a[2]].at

\* Of an hour still open the list knows every action; an hour that is over stays as it is.
ListInv ==
    /\ Numbered(recent) /\ Cardinality(recent) <= MaxPerHour
    /\ \A T \in Nat : clock <= T => Listed(T)
    /\ HourlyCap

LEMMA SameCardinality == \A S : Limiter!Cardinality(S) = Cardinality(S)
  BY Zenon DEF Limiter!Cardinality, Cardinality

LEMMA SameMin == \A S : Limiter!Min(S) = Min(S)
  BY Zenon DEF Limiter!Min, Min

\* Numbered as they are, the copies of a time are 1 to their number.
LEMMA CopiesNumbered ==
    ASSUME NEW list, Numbered(list), NEW now \in Nat,
           NEW k, k = Cardinality({s \in list : s[1] = now})
    PROVE  /\ k \in Nat /\ <<now, k + 1>> \notin list
           /\ \A j \in 1 .. k : <<now, j>> \in list
<1> DEFINE copies == {s \in list : s[1] = now}
           Upto(j) == {now} \X (1 .. j)
<1>1. IsFiniteSet(copies) /\ k \in Nat
  BY FS_Subset, FS_CardinalityType DEF Numbered
<1>2. ASSUME NEW j \in Nat PROVE IsFiniteSet(Upto(j)) /\ Cardinality(Upto(j)) = j
  <2>1. IsFiniteSet({now}) /\ Cardinality({now}) = 1
    BY FS_Singleton
  <2>2. IsFiniteSet(1 .. j) /\ Cardinality(1 .. j) = j
    BY FS_Interval
  <2>3. IsFiniteSet(Upto(j)) /\ Cardinality(Upto(j)) = 1 * j
    BY <2>1, <2>2, FS_Product
  <2> QED BY <2>3
<1>3. \A s \in list : s[2] \in Nat \ {0} /\ s = <<s[1], s[2]>>
  BY DEF Numbered
<1>4. <<now, k + 1>> \notin list
  <2> SUFFICES ASSUME <<now, k + 1>> \in list PROVE FALSE
    OBVIOUS
  <2>1. Upto(k + 1) \subseteq copies
    BY <1>1 DEF Numbered
  <2>2. Cardinality(Upto(k + 1)) <= k
    BY <1>1, <2>1, FS_Subset
  <2> QED BY <1>1, <1>2, <2>2
<1>5. ASSUME NEW j \in 1 .. k PROVE <<now, j>> \in list
  <2> SUFFICES ASSUME <<now, j>> \notin list PROVE FALSE
    OBVIOUS
  <2>1. j - 1 \in Nat
    BY <1>1
  <2>2. ASSUME NEW s \in copies PROVE s \in Upto(j - 1)
    <3>1. s[1] = now /\ s[2] \in Nat \ {0} /\ s = <<now, s[2]>> /\ s \in list
      BY <1>3
    <3>2. ~(j \in 1 .. s[2])
      BY <3>1 DEF Numbered
    <3>3. s[2] \in 1 .. j - 1
      BY <1>1, <3>1, <3>2
    <3> QED BY <3>1, <3>3
  <2>3. copies \in SUBSET Upto(j - 1)
    BY <2>2
  <2>4. IsFiniteSet(Upto(j - 1)) /\ Cardinality(Upto(j - 1)) = j - 1
    BY <1>2, <2>1
  <2> HIDE DEF Upto
  <2>5. Cardinality(copies) <= j - 1
    BY <2>3, <2>4, FS_Subset
  <2> QED BY <1>1, <2>1, <2>5
<1> QED BY <1>1, <1>4, <1>5

\* Whatever a reading drops from the list, and whatever it stamps, the rest stays numbered.
LEMMA WithinNumbered ==
    ASSUME Numbered(recent), NEW now \in Nat
    PROVE  /\ Limiter!Within(now) \subseteq recent /\ Numbered(Limiter!Within(now))
           /\ Cardinality(Limiter!Within(now)) \in Nat
           /\ Cardinality(Limiter!Within(now)) <= Cardinality(recent)
<1>1. Limiter!Within(now) \in SUBSET recent
  BY DEF Limiter!Within
<1>2. IsFiniteSet(Limiter!Within(now))
  BY <1>1, FS_Subset DEF Numbered
<1>3. ASSUME NEW s \in Limiter!Within(now), NEW k \in 1 .. s[2]
      PROVE  <<s[1], k>> \in Limiter!Within(now)
  BY DEF Limiter!Within, Numbered
<1> QED BY <1>1, <1>2, <1>3, FS_Subset, FS_CardinalityType DEF Numbered

LEMMA StampNumbered ==
    ASSUME Numbered(recent), NEW now \in Nat
    PROVE  /\ Limiter!Stamp(now)[1] = now /\ Limiter!Stamp(now) \notin Limiter!Within(now)
           /\ Numbered(Limiter!Within(now) \cup {Limiter!Stamp(now)})
           /\ Cardinality(Limiter!Within(now) \cup {Limiter!Stamp(now)})
                 = Cardinality(Limiter!Within(now)) + 1
<1> DEFINE list == Limiter!Within(now)
           k == Cardinality({s \in list : s[1] = now})
           stamp == Limiter!Stamp(now)
<1>1. stamp = <<now, k + 1>>
  BY SameCardinality DEF Limiter!Stamp
<1>2. Numbered(list)
  BY WithinNumbered
<1> HIDE DEF list, stamp
<1>3. k \in Nat /\ <<now, k + 1>> \notin list /\ \A j \in 1 .. k : <<now, j>> \in list
  BY <1>2, CopiesNumbered
<1> HIDE DEF k
<1>4. /\ IsFiniteSet(list \cup {stamp})
      /\ Cardinality(list \cup {stamp}) = Cardinality(list) + 1
  BY <1>1, <1>2, <1>3, FS_AddElement DEF Numbered
<1>5. ASSUME NEW s \in list \cup {stamp}, NEW j \in 1 .. s[2]
      PROVE  <<s[1], j>> \in list \cup {stamp}
  <2>1. CASE s \in list
    BY <1>2, <2>1 DEF Numbered
  <2>2. CASE s = stamp
    BY <1>1, <1>3, <2>2
  <2> QED BY <2>1, <2>2
<1>6. list \cup {stamp} \subseteq Nat \X (Nat \ {0})
  BY <1>1, <1>2, <1>3 DEF Numbered
<1>7. Numbered(list \cup {stamp})
  BY <1>4, <1>5, <1>6 DEF Numbered
<1> QED BY <1>1, <1>3, <1>4, <1>7 DEF list, stamp

------------------------------------------------------------------------------
(* The hour. *)

\* One action more of cycle c is one more allowed at a time if it is fresh and at that time.
LEMMA AllowedMore ==
    ASSUME DeskInv, NEW c \in Cycle, Allowing(c), NEW times
    PROVE  /\ \A u \in Cycle \ {c} : Allowed(u, times)' = Allowed(u, times)
           /\ Len(taken[c]) + 1 \notin Allowed(c, times)
           /\ Allowed(c, times)'
                 = IF cycle[c].now = clock /\ clock \in times
                   THEN Allowed(c, times) \cup {Len(taken[c]) + 1} ELSE Allowed(c, times)
<1> DEFINE n == Len(taken[c]) + 1
<1>1. /\ DOMAIN taken'[c] = DOMAIN taken[c] \cup {n} /\ n \notin DOMAIN taken[c]
      /\ taken'[c][n].at = clock
      /\ taken'[c][n].fresh <=> cycle[c].now = clock
      /\ \A i \in DOMAIN taken[c] : taken'[c][i] = taken[c][i]
      /\ \A u \in Cycle \ {c} : taken'[u] = taken[u]
  BY TakenFacts
<1> HIDE DEF n
<1>2. \A u \in Cycle \ {c} : Allowed(u, times)' = Allowed(u, times)
  BY <1>1 DEF Allowed
<1>3. n \notin Allowed(c, times)
  BY <1>1 DEF Allowed
<1>4. Allowed(c, times)' = IF cycle[c].now = clock /\ clock \in times
                          THEN Allowed(c, times) \cup {n} ELSE Allowed(c, times)
  BY <1>1 DEF Allowed
<1> QED BY <1>2, <1>3, <1>4 DEF n

LEMMA InHourMore ==
    ASSUME DeskInv, NEW c \in Cycle, Allowing(c), NEW T, NEW x, x = <<c, Len(taken[c]) + 1>>
    PROVE  /\ x \notin InHour(T)
           /\ InHour(T)' = IF cycle[c].now = clock /\ clock \in T - HOUR + 1 .. T
                           THEN InHour(T) \cup {x} ELSE InHour(T)
           /\ taken'[x[1]][x[2]].at = clock
           /\ \A a \in InHour(T) :
                 /\ taken[a[1]][a[2]].at \in T - HOUR + 1 .. T
                 /\ taken'[a[1]][a[2]] = taken[a[1]][a[2]]
<1> DEFINE n == Len(taken[c]) + 1
           times == T - HOUR + 1 .. T
<1>1. /\ \A u \in Cycle \ {c} : Allowed(u, times)' = Allowed(u, times)
      /\ n \notin Allowed(c, times)
      /\ Allowed(c, times)' = IF cycle[c].now = clock /\ clock \in times
                              THEN Allowed(c, times) \cup {n} ELSE Allowed(c, times)
  BY AllowedMore
<1>2. /\ taken'[c][n].at = clock
      /\ \A u \in Cycle : \A i \in DOMAIN taken[u] : taken'[u][i] = taken[u][i]
  BY TakenFacts
<1>3. \A a \in InHour(T) : /\ a[1] \in Cycle /\ a[2] \in DOMAIN taken[a[1]]
                           /\ taken[a[1]][a[2]].at \in times
  BY DEF InHour, Allowed
<1> HIDE DEF n, times
<1>4. x = <<c, n>>
  BY DEF n
<1>5. InHour(T) = UNION {{u} \X Allowed(u, times) : u \in Cycle}
  BY DEF InHour, times
<1>6. InHour(T)' = UNION {{u} \X Allowed(u, times)' : u \in Cycle}
  BY DEF InHour, times
<1>7. x \notin InHour(T)
  BY <1>1, <1>4, <1>5
<1>8. CASE cycle[c].now = clock /\ clock \in times
  <2>1. Allowed(c, times)' = Allowed(c, times) \cup {n}
    BY <1>1, <1>8
  <2>2. ASSUME NEW a PROVE a \in InHour(T)' <=> a \in InHour(T) \cup {x}
    BY <1>1, <1>4, <1>5, <1>6, <2>1
  <2>3. InHour(T)' = InHour(T) \cup {x}
    BY <2>2
  <2> QED BY <1>2, <1>3, <1>4, <1>7, <1>8, <2>3 DEF times
<1>9. CASE ~(cycle[c].now = clock /\ clock \in times)
  <2>1. \A u \in Cycle : Allowed(u, times)' = Allowed(u, times)
    BY <1>1, <1>9
  <2>2. InHour(T)' = InHour(T)
    BY <1>5, <1>6, <2>1
  <2> QED BY <1>2, <1>3, <1>4, <1>7, <1>9, <2>2 DEF times
<1> QED BY <1>8, <1>9

\* A reading drops from the list nothing that an open hour needs.
LEMMA WithinKeepsListed ==
    ASSUME DeskInv, TimeInv, NEW c \in Cycle, NEW T \in Nat, clock <= T,
           NEW f \in Injection(InHour(T), recent),
           \A a \in InHour(T) : f[a][1] = taken[a[1]][a[2]].at
    PROVE  \A a \in InHour(T) : f[a] \in Limiter!Within(cycle[c].now)
<1>1. clock \in Nat /\ cycle[c].now \in Nat /\ cycle[c].now <= clock /\ HOUR \in Nat
  BY DeskAssumption DEF DeskInv, Typed, Frame, TimeInv
<1> SUFFICES ASSUME NEW a \in InHour(T) PROVE f[a] \in Limiter!Within(cycle[c].now)
  OBVIOUS
<1>2. f[a] \in recent
  BY DEF Injection
<1>3. f[a][1] \in T - HOUR + 1 .. T
  BY DEF InHour, Allowed
<1>4. cycle[c].now - f[a][1] < HOUR
  BY <1>1, <1>3
<1> QED BY <1>2, <1>4 DEF Limiter!Within

LEMMA ListedStays ==
    ASSUME NEW T, NEW f \in Injection(InHour(T), recent),
           \A a \in InHour(T) : f[a] \in recent' /\ f[a][1] = taken[a[1]][a[2]].at,
           InHour(T)' = InHour(T),
           \A a \in InHour(T) : taken'[a[1]][a[2]] = taken[a[1]][a[2]]
    PROVE  Listed(T)'
<1>1. f \in Injection(InHour(T)', recent')
  BY DEF Injection, IsInjective
<1> QED BY <1>1 DEF Listed

LEMMA ListedMore ==
    ASSUME NEW T, NEW f \in Injection(InHour(T), recent),
           \A a \in InHour(T) : f[a] \in recent' /\ f[a][1] = taken[a[1]][a[2]].at,
           NEW x, x \notin InHour(T), InHour(T)' = InHour(T) \cup {x},
           NEW s \in recent', \A a \in InHour(T) : f[a] # s, s[1] = taken'[x[1]][x[2]].at,
           \A a \in InHour(T) : taken'[a[1]][a[2]] = taken[a[1]][a[2]]
    PROVE  Listed(T)'
<1> DEFINE g == [a \in InHour(T) \cup {x} |-> IF a = x THEN s ELSE f[a]]
<1>1. g[x] = s /\ \A a \in InHour(T) : g[a] = f[a]
  OBVIOUS
<1>2. g \in Injection(InHour(T)', recent')
  BY DEF Injection, IsInjective
<1>3. \A a \in InHour(T)' : g[a][1] = taken'[a[1]][a[2]].at
  BY <1>1
<1> HIDE DEF g
<1> QED BY <1>2, <1>3 DEF Listed

LEMMA BlockingKeepsListed ==
    ASSUME DeskInv, TimeInv, ListInv, NEW c \in Cycle, Blocking(c), clock' = clock,
           NEW T \in Nat, clock <= T
    PROVE  Listed(T)'
<1>1. PICK f \in Injection(InHour(T), recent) :
         \A a \in InHour(T) : f[a][1] = taken[a[1]][a[2]].at
  BY DEF ListInv, Listed
<1>2. taken' = taken /\ recent' = Limiter!Within(cycle[c].now)
  BY DEF Blocking, Limiter!CheckBlocks
<1>3. InHour(T)' = InHour(T)
  BY <1>2 DEF InHour, Allowed
<1> QED BY <1>1, <1>2, <1>3, WithinKeepsListed, ListedStays

LEMMA AllowingKeepsListed ==
    ASSUME DeskInv, TimeInv, ListInv, NEW c \in Cycle, Allowing(c), clock' = clock,
           NEW T \in Nat, clock <= T
    PROVE  Listed(T)'
<1> DEFINE x == <<c, Len(taken[c]) + 1>>
           now == cycle[c].now
           stamp == Limiter!Stamp(now)
<1>1. PICK f \in Injection(InHour(T), recent) :
         \A a \in InHour(T) : f[a][1] = taken[a[1]][a[2]].at
  BY DEF ListInv, Listed
<1>2. now \in Nat
  BY DEF DeskInv, Typed, Frame
<1>3. recent' = Limiter!Within(now) \cup {stamp}
  BY DEF Allowing, Limiter!CheckAllows
<1>4. stamp[1] = now /\ stamp \notin Limiter!Within(now)
  BY <1>2, StampNumbered DEF ListInv
<1>5. \A a \in InHour(T) : f[a] \in recent' /\ f[a] # stamp
  BY <1>1, <1>3, <1>4, WithinKeepsListed
<1>6. /\ x \notin InHour(T)
      /\ InHour(T)' = IF now = clock /\ clock \in T - HOUR + 1 .. T
                      THEN InHour(T) \cup {x} ELSE InHour(T)
      /\ taken'[x[1]][x[2]].at = clock
      /\ \A a \in InHour(T) : taken'[a[1]][a[2]] = taken[a[1]][a[2]]
  BY InHourMore
<1> HIDE DEF x, now, stamp
<1>7. CASE now = clock /\ clock \in T - HOUR + 1 .. T
  BY <1>1, <1>3, <1>4, <1>5, <1>6, <1>7, ListedMore
<1>8. CASE ~(now = clock /\ clock \in T - HOUR + 1 .. T)
  BY <1>1, <1>5, <1>6, <1>8, ListedStays
<1> QED BY <1>7, <1>8

\* What is on the list bounds what is listed.
LEMMA ListBounds ==
    ASSUME NEW S, NEW list, Numbered(list), Cardinality(list) <= MaxPerHour,
           NEW f \in Injection(S, list)
    PROVE  Cardinality(S) <= MaxPerHour
<1>1. IsFiniteSet(S) /\ Cardinality(S) <= Cardinality(list)
  BY FS_Injection DEF Numbered
<1>2. Cardinality(S) \in Nat /\ Cardinality(list) \in Nat /\ MaxPerHour \in Nat
  BY <1>1, FS_CardinalityType, DeskAssumption DEF Numbered
<1> QED BY <1>1, <1>2

LEMMA NextList == DeskInv /\ TimeInv /\ ListInv /\ [Next]_vars => ListInv'
<1> SUFFICES ASSUME DeskInv, TimeInv, ListInv, [Next]_vars PROVE ListInv'
  OBVIOUS
<1>1. clock \in Nat /\ MaxPerHour \in Nat /\ \A u \in Cycle : cycle[u].now \in Nat
  BY DeskAssumption DEF DeskInv, Typed, Frame
<1>2. CASE clock' = clock + 1 /\ UNCHANGED <<recent, taken>>
  <2>1. \A T : /\ InHour(T)' = InHour(T)
               /\ Listed(T)' <=> Listed(T)
    BY <1>2 DEF InHour, Allowed, Listed
  <2>2. HourlyCap'
    BY <1>2 DEF ListInv, HourlyCap, Allowed
  <2>3. \A T \in Nat : clock + 1 <= T => clock <= T
    BY <1>1
  <2> QED BY <1>1, <1>2, <2>1, <2>2, <2>3 DEF ListInv, Numbered
<1>3. CASE UNCHANGED <<clock, recent, taken>>
  <2>1. \A T : Listed(T)' <=> Listed(T)
    BY <1>3 DEF InHour, Allowed, Listed
  <2>2. HourlyCap'
    BY <1>3 DEF ListInv, HourlyCap, Allowed
  <2> QED BY <1>3, <2>1, <2>2 DEF ListInv, Numbered
<1>4. ASSUME NEW c \in Cycle, CheckLimiter(c) PROVE ListInv'
  <2>1. clock' = clock /\ (Allowing(c) \/ Blocking(c))
    BY <1>4, LimiterMoves
  <2>2. Numbered(recent)' /\ (Cardinality(recent) <= MaxPerHour)'
    <3>1. /\ Numbered(Limiter!Within(cycle[c].now))
          /\ Cardinality(Limiter!Within(cycle[c].now)) \in Nat
          /\ Cardinality(Limiter!Within(cycle[c].now)) <= Cardinality(recent)
          /\ Cardinality(recent) \in Nat
      BY <1>1, WithinNumbered, FS_CardinalityType DEF ListInv, Numbered
    <3>2. CASE Blocking(c)
      <4>1. recent' = Limiter!Within(cycle[c].now)
        BY <3>2 DEF Blocking, Limiter!CheckBlocks
      <4> QED BY <1>1, <3>1, <4>1 DEF ListInv, Numbered
    <3>3. CASE Allowing(c)
      <4>1. /\ recent' = Limiter!Within(cycle[c].now) \cup {Limiter!Stamp(cycle[c].now)}
            /\ Cardinality(Limiter!Within(cycle[c].now)) < MaxPerHour
        BY <3>3, SameCardinality DEF Allowing, Limiter!CheckAllows, Limiter!Allows
      <4>2. /\ Numbered(Limiter!Within(cycle[c].now) \cup {Limiter!Stamp(cycle[c].now)})
            /\ Cardinality(Limiter!Within(cycle[c].now) \cup {Limiter!Stamp(cycle[c].now)})
                  = Cardinality(Limiter!Within(cycle[c].now)) + 1
        BY <1>1, StampNumbered DEF ListInv
      <4> QED BY <1>1, <3>1, <4>1, <4>2 DEF Numbered
    <3> QED BY <2>1, <3>2, <3>3
  <2>3. \A T \in Nat : clock <= T => Listed(T)'
    BY <2>1, AllowingKeepsListed, BlockingKeepsListed
  <2>4. ASSUME NEW T \in 0 .. MaxClock PROVE Cardinality(InHour(T)') <= MaxPerHour
    <3>1. CASE clock <= T
      <4>1. T \in Nat /\ Listed(T)'
        BY <2>3, <3>1
      <4>2. PICK f : f \in Injection(InHour(T)', recent')
        BY <4>1 DEF Listed
      <4>3. Numbered(recent') /\ Cardinality(recent') <= MaxPerHour
        BY <2>2
      <4> QED BY <4>2, <4>3, ListBounds
    <3>2. CASE ~(clock <= T)
      <4>1. clock \notin T - HOUR + 1 .. T
        BY <1>1, <3>2
      <4>2. InHour(T)' = InHour(T)
        <5>1. CASE Blocking(c)
          BY <5>1 DEF Blocking, InHour, Allowed
        <5>2. CASE Allowing(c)
          BY <4>1, <5>2, InHourMore
        <5> QED BY <2>1, <5>1, <5>2
      <4> QED BY <4>2 DEF ListInv, HourlyCap, InHour
    <3> QED BY <3>1, <3>2
  <2>5. HourlyCap'
    BY <2>4 DEF HourlyCap, InHour
  <2> QED BY <2>1, <2>2, <2>3, <2>5 DEF ListInv
<1> QED BY <1>2, <1>3, <1>4, DeskMoves DEF Elsewhere

\* A runaway loop is throttled across cycles (guardrails.py:191-194): in no hour, of the real
\* clock, are more actions allowed than the policy's.
THEOREM HourIsCapped == Spec => []HourlyCap
<1>1. Init => ListInv
  <2> SUFFICES ASSUME Init PROVE ListInv
    OBVIOUS
  <2>1. recent = {} /\ \A c \in Cycle : DOMAIN taken[c] = {}
    BY EmptySeq DEF Init, Limiter!LimiterInit
  <2>2. Numbered(recent) /\ Cardinality(recent) = 0 /\ MaxPerHour \in Nat
    BY <2>1, FS_EmptySet, DeskAssumption DEF Numbered
  <2>3. ASSUME NEW T PROVE InHour(T) = {}
    BY <2>1 DEF InHour, Allowed
  <2>4. ASSUME NEW T PROVE Listed(T)
    <3> DEFINE none == [a \in {} |-> <<0, 0>>]
    <3>1. none \in Injection({}, recent)
      BY DEF Injection, IsInjective
    <3> QED BY <2>3, <3>1 DEF Listed
  <2>5. HourlyCap
    <3>1. \A T : Cardinality(InHour(T)) = 0
      BY <2>3, FS_EmptySet
    <3> QED BY <2>2, <3>1 DEF HourlyCap, InHour
  <2> QED BY <2>2, <2>4, <2>5 DEF ListInv
<1>2. ListInv => HourlyCap
  BY DEF ListInv
<1> QED BY <1>1, <1>2, InitDesk, NextDesk, InitTime, NextTime, NextList, PTL DEF Spec

------------------------------------------------------------------------------
(* The cycle. *)

\* Past its ceiling the table drops counters of cycles in use: as many cycles as it holds.
Tracked == IsFiniteSet(Cycle) /\ Cardinality(Cycle) <= MAX_TRACKED_CYCLES

\* The actions of a cycle in the lifetime that ends at T are in its counter.
InLifetime(T, c) == Allowed(c, T - CYCLE_TTL_SECONDS .. T)

Counts(T, c) ==
    /\ InLifetime(T, c) # {} => c \in DOMAIN cycleCounts
    /\ c \in DOMAIN cycleCounts =>
          /\ Cardinality(InLifetime(T, c)) <= cycleCounts[c].count
          /\ \A i \in InLifetime(T, c) : taken[c][i].at <= cycleCounts[c].seen

TableInv ==
    /\ DOMAIN cycleCounts \subseteq Cycle
    /\ cycleCounts \in [DOMAIN cycleCounts -> [count : 0 .. MaxPerCycle, seen : Nat]]
    /\ \A T \in Nat : clock <= T => \A c \in Cycle : Counts(T, c)
    /\ CycleCap

LEMMA IndicesFinite ==
    ASSUME NEW s \in Seq(Action), NEW S \in SUBSET DOMAIN s
    PROVE  IsFiniteSet(S)
<1>1. PICK n \in Nat : DOMAIN s = 1 .. n
  BY LenProperties
<1>2. n \in Int /\ 1 \in Int
  OBVIOUS
<1>3. IsFiniteSet(1 .. n)
  BY <1>2, FS_Interval
<1> QED BY <1>1, <1>3, FS_Subset

\* What a reading keeps, as long as the table is below its ceiling.
Live(now) == {r \in DOMAIN cycleCounts : now - cycleCounts[r].seen <= CYCLE_TTL_SECONDS}

LEMMA KeptIsLive ==
    ASSUME Tracked, TableInv, NEW now, NEW kept \in Limiter!Kept(now)
    PROVE  kept = Live(now)
<1> DEFINE live == Live(now)
           n == Cardinality(live)
<1>1. kept \in SUBSET live /\ Cardinality(kept) = Min({n, MAX_TRACKED_CYCLES})
  BY SameCardinality, SameMin DEF Limiter!Kept, Live
<1>2. live \in SUBSET Cycle
  BY DEF TableInv, Live
<1> HIDE DEF live
<1>3. IsFiniteSet(live) /\ n \in Nat /\ n <= MAX_TRACKED_CYCLES
  <2>1. IsFiniteSet(live) /\ n <= Cardinality(Cycle)
    BY <1>2, FS_Subset DEF Tracked
  <2>2. n \in Nat /\ Cardinality(Cycle) \in Nat /\ MAX_TRACKED_CYCLES \in Nat
    BY <2>1, FS_CardinalityType, DeskAssumption DEF Tracked
  <2> QED BY <2>1, <2>2 DEF Tracked
<1> HIDE DEF n
<1>4. Min({n, MAX_TRACKED_CYCLES}) = n
  BY <1>3, DeskAssumption DEF Min
<1>5. kept = live
  BY <1>1, <1>3, <1>4, FS_Subset DEF n
<1> QED BY <1>5 DEF live

\* A cycle with an action in an open lifetime is not dropped.
LEMMA InUseIsLive ==
    ASSUME DeskInv, TimeInv, TableInv, NEW c \in Cycle, NEW u \in Cycle,
           NEW T \in Nat, clock <= T, InLifetime(T, u) # {}
    PROVE  u \in Live(cycle[c].now)
<1>1. clock \in Nat /\ cycle[c].now \in Nat /\ cycle[c].now <= clock
      /\ CYCLE_TTL_SECONDS \in Nat
  BY DeskAssumption DEF DeskInv, Typed, Frame, TimeInv
<1>2. PICK i \in InLifetime(T, u) : TRUE
  OBVIOUS
<1>3. taken[u][i].at \in T - CYCLE_TTL_SECONDS .. T
  BY <1>2 DEF InLifetime, Allowed
<1>4. u \in DOMAIN cycleCounts /\ taken[u][i].at <= cycleCounts[u].seen
  BY <1>2 DEF TableInv, Counts
<1>5. cycleCounts[u].seen \in Nat
  BY <1>4 DEF TableInv
<1>6. cycle[c].now - cycleCounts[u].seen <= CYCLE_TTL_SECONDS
  BY <1>1, <1>3, <1>4, <1>5
<1> QED BY <1>4, <1>6 DEF Live

\* A cycle whose actions stay, and whose counter does unless it is dropped.
LEMMA CountsStay ==
    ASSUME DeskInv, TimeInv, TableInv, NEW c \in Cycle, NEW u \in Cycle,
           NEW T \in Nat, clock <= T,
           InLifetime(T, u)' = InLifetime(T, u), taken'[u] = taken[u],
           u \in DOMAIN cycleCounts' <=> u \in Live(cycle[c].now),
           u \in Live(cycle[c].now) => cycleCounts'[u] = cycleCounts[u]
    PROVE  Counts(T, u)'
<1>1. Counts(T, u)
  BY DEF TableInv
<1>2. u \in Live(cycle[c].now) => u \in DOMAIN cycleCounts
  BY DEF Live
<1>3. InLifetime(T, u) # {} => u \in Live(cycle[c].now)
  BY InUseIsLive
<1> QED BY <1>1, <1>2, <1>3 DEF Counts

\* The cycle that is allowed one action more.
LEMMA CountsMore ==
    ASSUME DeskInv, TimeInv, TableInv, NEW c \in Cycle, cycle[c].step = "limit", Allowing(c),
           NEW T \in Nat, clock <= T,
           NEW used \in Nat, used = Limiter!Used(c, Live(cycle[c].now)),
           c \in DOMAIN cycleCounts', cycleCounts'[c] = [count |-> used + 1, seen |-> cycle[c].now]
    PROVE  Counts(T, c)'
<1> DEFINE n == Len(taken[c]) + 1
           old == InLifetime(T, c)
           now == cycle[c].now
<1>1. now \in Nat /\ IsFiniteSet(old)
  <2>1. old \in SUBSET DOMAIN taken[c] /\ taken[c] \in Seq(Action)
    BY DEF InLifetime, Allowed, DeskInv, Typed
  <2>2. IsFiniteSet(old)
    BY <2>1, IndicesFinite
  <2>3. now \in Nat
    BY DEF DeskInv, Typed, Frame
  <2> QED BY <2>2, <2>3
<1>2. Cardinality(old) \in Nat /\ Cardinality(old) <= used
  <2>1. CASE c \in Live(now)
    BY <1>1, <2>1, FS_CardinalityType DEF Live, TableInv, Counts, Limiter!Used
  <2>2. CASE c \notin Live(now)
    <3>1. old = {}
      BY <2>2, InUseIsLive
    <3> QED BY <3>1, FS_EmptySet
  <2> QED BY <2>1, <2>2
<1>3. \A i \in old : taken[c][i].at <= now
  BY DEF InLifetime, Allowed, TimeInv, At
<1>4. /\ n \notin old
      /\ old' = IF now = clock /\ clock \in T - CYCLE_TTL_SECONDS .. T THEN old \cup {n} ELSE old
  BY AllowedMore DEF InLifetime
<1>5. taken'[c][n].at = clock /\ \A i \in old : taken'[c][i] = taken[c][i]
  BY TakenFacts DEF InLifetime, Allowed
<1> HIDE DEF n, old, now
<1>6. Cardinality(old') <= used + 1
  <2>1. Cardinality(old \cup {n}) = Cardinality(old) + 1
    BY <1>1, <1>4, FS_AddElement
  <2>2. Cardinality(old') \in {Cardinality(old), Cardinality(old \cup {n})}
    BY <1>4
  <2> QED BY <1>2, <2>1, <2>2
<1>7. \A i \in old' : taken'[c][i].at <= now
  BY <1>1, <1>3, <1>4, <1>5
<1>8. cycleCounts'[c].count = used + 1 /\ cycleCounts'[c].seen = now
  BY DEF now
<1>9. old' = InLifetime(T, c)'
  BY DEF old
<1> QED BY <1>6, <1>7, <1>8, <1>9 DEF Counts

\* A lifetime that is over holds what it held.
LEMMA LifetimeOver ==
    ASSUME DeskInv, NEW c \in Cycle, Allowing(c) \/ Blocking(c), NEW u \in Cycle,
           NEW T \in Nat, ~(clock <= T)
    PROVE  InLifetime(T, u)' = InLifetime(T, u)
<1>1. CASE Blocking(c)
  BY <1>1 DEF Blocking, InLifetime, Allowed
<1>2. CASE Allowing(c)
  <2>1. clock \notin T - CYCLE_TTL_SECONDS .. T
    BY DeskAssumption DEF DeskInv, Typed
  <2> QED BY <1>2, <2>1, AllowedMore DEF InLifetime
<1> QED BY <1>1, <1>2

LEMMA BlockingKeepsTable ==
    ASSUME Tracked, DeskInv, TimeInv, TableInv, NEW c \in Cycle, Blocking(c)
    PROVE  /\ DOMAIN cycleCounts' \subseteq Cycle
           /\ cycleCounts' \in [DOMAIN cycleCounts' -> [count : 0 .. MaxPerCycle, seen : Nat]]
           /\ \A T \in Nat : clock <= T => \A u \in Cycle : Counts(T, u)'
<1>1. cycleCounts' = [r \in Live(cycle[c].now) |-> cycleCounts[r]]
  BY KeptIsLive DEF Blocking, Limiter!CheckBlocks
<1>2. Live(cycle[c].now) \subseteq DOMAIN cycleCounts
  BY DEF Live
<1>3. ASSUME NEW T \in Nat, clock <= T, NEW u \in Cycle PROVE Counts(T, u)'
  <2>1. taken'[u] = taken[u] /\ InLifetime(T, u)' = InLifetime(T, u)
    BY DEF Blocking, InLifetime, Allowed
  <2> QED BY <1>1, <1>3, <2>1, CountsStay
<1> QED BY <1>1, <1>2, <1>3 DEF TableInv

LEMMA AllowingKeepsTable ==
    ASSUME Tracked, DeskInv, TimeInv, TableInv, NEW c \in Cycle, Allowing(c),
           cycle[c].step = "limit"
    PROVE  /\ DOMAIN cycleCounts' \subseteq Cycle
           /\ cycleCounts' \in [DOMAIN cycleCounts' -> [count : 0 .. MaxPerCycle, seen : Nat]]
           /\ \A T \in Nat : clock <= T => \A u \in Cycle : Counts(T, u)'
<1> DEFINE now == cycle[c].now
           kept == Live(now)
           used == Limiter!Used(c, kept)
           entry == [count |-> used + 1, seen |-> now]
<1>1. cycleCounts' = Limiter!Counted(c, now, kept) /\ used < MaxPerCycle
  BY KeptIsLive DEF Allowing, Limiter!CheckAllows, Limiter!Allows
<1>2. kept \subseteq DOMAIN cycleCounts /\ now \in Nat
  BY DEF Live, DeskInv, Typed, Frame
<1>3. used \in Nat
  BY <1>2 DEF Limiter!Used, TableInv
<1>4. cycleCounts' = [r \in kept \cup {c} |-> IF r = c THEN entry ELSE cycleCounts[r]]
  BY <1>1 DEF Limiter!Counted
<1>5. entry \in [count : 0 .. MaxPerCycle, seen : Nat]
  BY <1>1, <1>2, <1>3, DeskAssumption
<1> HIDE DEF used, entry
<1>6. DOMAIN cycleCounts' = kept \cup {c} /\ cycleCounts'[c] = entry
      /\ \A r \in kept \ {c} : cycleCounts'[r] = cycleCounts[r]
  BY <1>4
<1>7. cycleCounts' \in [kept \cup {c} -> [count : 0 .. MaxPerCycle, seen : Nat]]
  BY <1>2, <1>4, <1>5 DEF TableInv
<1>8. ASSUME NEW T \in Nat, clock <= T, NEW u \in Cycle PROVE Counts(T, u)'
  <2>1. CASE u = c
    <3>1. c \in DOMAIN cycleCounts' /\ cycleCounts'[c] = [count |-> used + 1, seen |-> now]
      BY <1>6 DEF entry
    <3> QED BY <1>3, <1>8, <2>1, <3>1, CountsMore DEF used
  <2>2. CASE u # c
    <3>1. taken'[u] = taken[u] /\ InLifetime(T, u)' = InLifetime(T, u)
      <4>1. \A v \in Cycle \ {c} : taken'[v] = taken[v]
        BY TakenFacts
      <4>2. \A v \in Cycle \ {c} :
               Allowed(v, T - CYCLE_TTL_SECONDS .. T)' = Allowed(v, T - CYCLE_TTL_SECONDS .. T)
        BY AllowedMore
      <4> QED BY <2>2, <4>1, <4>2 DEF InLifetime
    <3> QED BY <1>6, <1>8, <2>2, <3>1, CountsStay
  <2> QED BY <2>1, <2>2
<1> QED BY <1>2, <1>6, <1>7, <1>8 DEF TableInv

LEMMA NextTable == Tracked /\ DeskInv /\ TimeInv /\ TableInv /\ [Next]_vars => TableInv'
<1> SUFFICES ASSUME Tracked, DeskInv, TimeInv, TableInv, [Next]_vars PROVE TableInv'
  OBVIOUS
<1>1. clock \in Nat
  BY DEF DeskInv, Typed
<1>2. CASE clock' \in {clock, clock + 1} /\ UNCHANGED <<cycleCounts, taken>>
  <2>1. \A T, u : Counts(T, u)' <=> Counts(T, u)
    BY <1>2 DEF Counts, InLifetime, Allowed
  <2>2. CycleCap'
    BY <1>2 DEF TableInv, CycleCap, Allowed
  <2>3. \A T \in Nat : clock' <= T => clock <= T
    BY <1>1, <1>2
  <2> QED BY <1>2, <2>1, <2>2, <2>3 DEF TableInv
<1>3. ASSUME NEW c \in Cycle, CheckLimiter(c) PROVE TableInv'
  <2>1. clock' = clock /\ cycle[c].step = "limit" /\ (Allowing(c) \/ Blocking(c))
    BY <1>3, LimiterMoves
  <2>2. /\ DOMAIN cycleCounts' \subseteq Cycle
        /\ cycleCounts' \in [DOMAIN cycleCounts' -> [count : 0 .. MaxPerCycle, seen : Nat]]
        /\ \A T \in Nat : clock <= T => \A u \in Cycle : Counts(T, u)'
    BY <2>1, AllowingKeepsTable, BlockingKeepsTable
  <2>3. ASSUME NEW T \in 0 .. MaxClock, NEW u \in Cycle
        PROVE  Cardinality(InLifetime(T, u)') <= MaxPerCycle
    <3>1. CASE clock <= T
      <4>1. Counts(T, u)'
        BY <2>2, <3>1
      <4>2. CASE InLifetime(T, u)' = {}
        BY <4>2, FS_EmptySet, DeskAssumption
      <4>3. CASE InLifetime(T, u)' # {}
        <5>1. u \in DOMAIN cycleCounts' /\ Cardinality(InLifetime(T, u)') <= cycleCounts'[u].count
          BY <4>1, <4>3 DEF Counts
        <5>2. cycleCounts'[u].count \in 0 .. MaxPerCycle
          BY <2>2, <5>1
        <5>3. DeskInv'
          BY NextDesk
        <5>4. IsFiniteSet(InLifetime(T, u)')
          <6>1. taken'[u] \in Seq(Action)
            BY <5>3 DEF DeskInv, Typed
          <6>2. InLifetime(T, u)' \in SUBSET DOMAIN taken'[u]
            BY DEF InLifetime, Allowed
          <6> QED BY <6>1, <6>2, IndicesFinite
        <5>5. Cardinality(InLifetime(T, u)') \in Nat
          BY <5>4, FS_CardinalityType
        <5> QED BY <5>1, <5>2, <5>5, DeskAssumption
      <4> QED BY <4>2, <4>3
    <3>2. CASE ~(clock <= T)
      <4>1. InLifetime(T, u)' = InLifetime(T, u)
        BY <2>1, <3>2, LifetimeOver
      <4> QED BY <4>1 DEF TableInv, CycleCap, InLifetime
    <3> QED BY <3>1, <3>2
  <2>4. CycleCap'
    BY <2>3 DEF CycleCap, InLifetime
  <2> QED BY <2>1, <2>2, <2>4 DEF TableInv
<1> QED BY <1>2, <1>3, DeskMoves DEF Elsewhere

\* Eviction never gives a run in use its quota back (guardrails.py:196-199), as long as no more
\* run ids are in use than the table is allowed to hold.
THEOREM CycleIsCapped == Tracked => (Spec => []CycleCap)
<1> SUFFICES ASSUME Tracked PROVE Spec => []CycleCap
  OBVIOUS
<1>1. Init => TableInv
  <2> SUFFICES ASSUME Init PROVE TableInv
    OBVIOUS
  <2>1. DOMAIN cycleCounts = {} /\ \A c \in Cycle : DOMAIN taken[c] = {}
    BY EmptySeq DEF Init, Limiter!LimiterInit
  <2>2. cycleCounts = [r \in {} |-> [count |-> 0, seen |-> 0]]
    BY DEF Init, Limiter!LimiterInit
  <2>3. \A c \in Cycle : \A times : Allowed(c, times) = {}
    BY <2>1 DEF Allowed
  <2>4. \A T \in Nat, c \in Cycle : Counts(T, c)
    BY <2>1, <2>3 DEF Counts, InLifetime
  <2>5. CycleCap
    <3>1. \A c \in Cycle : \A times : Cardinality(Allowed(c, times)) = 0
      BY <2>3, FS_EmptySet
    <3> QED BY <3>1, DeskAssumption DEF CycleCap
  <2> QED BY <2>1, <2>2, <2>4, <2>5 DEF TableInv
<1>2. TableInv => CycleCap
  BY DEF TableInv
<1>3. DeskInv /\ TimeInv /\ TableInv /\ [Next]_vars => TableInv'
  BY NextTable
<1> QED BY <1>1, <1>2, <1>3, InitDesk, NextDesk, InitTime, NextTime, PTL DEF Spec
==============================================================================
