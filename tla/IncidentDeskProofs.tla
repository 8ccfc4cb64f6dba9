-------------------------- MODULE IncidentDeskProofs --------------------------
(***************************************************************************)
(* Theorems about the delivery of incidents: what the record of a cycle    *)
(* claims was delivered was, what it denies was not, and every incident is *)
(* put to the handlers its domain asks for; for any number of cycles, any  *)
(* texts, any routing table, sinks that fail at any time, and a limiter    *)
(* that blocks whatever it likes.                                          *)
(***************************************************************************)
EXTENDS IncidentDesk, SequenceTheorems, TLAPS

------------------------------------------------------------------------------
(* Types. *)

Names == Name \cup Registry

Res == [handler : Names, status : {"fired", "error", "suppressed", "noop"},
        synthetic : BOOLEAN, id : BOOLEAN]

Saying == SUBSET (Domain \ {"unknown"})

Route == [text : Saying, domain : Domain, handlers : Seq(Res), artifacts : BOOLEAN,
          delivery_mode : {"live", "synthetic"}]

Frame == [step : Steps, text : Saying, queue : Seq(Names), results : Seq(Res), now : Nat]

RunDoc == [status : {"none", "started", "complete"}, routes : Seq(Route)]

Action == [at : Nat, fresh : BOOLEAN]

Delivery == [cycle : Cycle, incident : Nat, handler : Names, id : BOOLEAN]

Typed ==
    /\ cycle \in [Cycle -> Frame]
    /\ run \in [Cycle -> RunDoc]
    /\ clock \in Nat
    /\ delivered \subseteq Delivery
    /\ taken \in [Cycle -> Seq(Action)]

------------------------------------------------------------------------------
(* What holds of a cycle c, at f in its course, with its document, its allowed *)
(* actions, and the deliveries there have been.                                *)

InIncident(f) == f.step \in {"handler", "deliver"} \/ (f.step = "limit" /\ f.queue # <<>>)

Flow(f, doc, took) ==
    /\ f.step = "start" <=> doc.status = "none"
    /\ doc.status = "complete" => f.step = "ended" /\ Len(doc.routes) = MaxIncidents
    /\ f.step # "ended" => Len(doc.routes) <= MaxIncidents
    /\ f.step = "complete" \/ (f.step = "limit" /\ f.queue = <<>>) => Len(doc.routes) = MaxIncidents
    /\ InIncident(f) => Len(doc.routes) < MaxIncidents
    /\ ~InIncident(f) => f.results = <<>> /\ f.queue = <<>>
    /\ f.step = "deliver" => f.queue # <<>> /\ took # <<>>

\* The results of incident i of cycle c agree with the deliveries, both ways.
Honest(c, i, results, dels) ==
    /\ \A k \in DOMAIN results :
          Shows(results[k]) => \E d \in dels : /\ d.cycle = c /\ d.incident = i
                                               /\ results[k].id => Identified(d)
    /\ \A d \in dels : d.cycle = c /\ d.incident = i =>
          \E k \in DOMAIN results : /\ results[k].handler = d.handler
                                    /\ results[k].status \in {"fired", "error"}

\* Whoever of the domain's route can handle it is still to come or has a result.
Served(domain, queue, results) ==
    \A n \in ToSet(RouteFor(domain)) :
       CanHandle(n, domain) => \/ n \in ToSet(queue)
                               \/ \E k \in DOMAIN results : results[k].handler = n

Recorded(c, routes, dels) ==
    \A i \in DOMAIN routes :
       /\ Honest(c, i, routes[i].handlers, dels)
       /\ routes[i].delivery_mode = "live" =>
             \E k \in DOMAIN routes[i].handlers : Shows(routes[i].handlers[k])
       /\ routes[i].artifacts =>
             \E k \in DOMAIN routes[i].handlers :
                Shows(routes[i].handlers[k]) /\ routes[i].handlers[k].id
       /\ routes[i].domain = Classified(routes[i].text)
       /\ Served(routes[i].domain, <<>>, routes[i].handlers)

CycleInv(c, f, doc, took, dels) ==
    /\ Flow(f, doc, took)
    /\ Recorded(c, doc.routes, dels)
    /\ f.step # "ended" => Honest(c, Len(doc.routes) + 1, f.results, dels)
    /\ InIncident(f) => Served(Classified(f.text), f.queue, f.results)
    /\ \A d \in dels : d.cycle = c => d.incident <= Len(doc.routes) + 1

DeskInv ==
    /\ Typed
    /\ \A c \in Cycle : CycleInv(c, cycle[c], run[c], taken[c], delivered)

LEMMA DeskFacts ==
    ASSUME DeskInv, NEW c \in Cycle
    PROVE  /\ cycle[c] \in Frame /\ run[c] \in RunDoc /\ taken[c] \in Seq(Action)
           /\ run[c].routes \in Seq(Route) /\ Len(run[c].routes) \in Nat
           /\ DOMAIN run[c].routes = 1 .. Len(run[c].routes)
           /\ CycleInv(c, cycle[c], run[c], taken[c], delivered)
<1>1. cycle[c] \in Frame /\ run[c] \in RunDoc /\ taken[c] \in Seq(Action)
  BY DEF DeskInv, Typed
<1>2. run[c].routes \in Seq(Route)
  BY <1>1 DEF RunDoc
<1> QED BY <1>1, <1>2, LenProperties DEF DeskInv

\* Deliveries of another cycle are nothing to a cycle.
LEMMA OtherDeliveries ==
    ASSUME NEW c, NEW f, NEW doc, NEW took, NEW dels, NEW new,
           \A d \in new : d.cycle # c,
           CycleInv(c, f, doc, took, dels)
    PROVE  CycleInv(c, f, doc, took, dels \cup new)
<1>1. ASSUME NEW i, NEW results, Honest(c, i, results, dels)
      PROVE  Honest(c, i, results, dels \cup new)
  BY <1>1 DEF Honest
<1>2. Recorded(c, doc.routes, dels \cup new)
  BY <1>1 DEF CycleInv, Recorded
<1>3. \A d \in dels \cup new : d.cycle = c => d.incident <= Len(doc.routes) + 1
  BY DEF CycleInv
<1> QED BY <1>1, <1>2, <1>3 DEF CycleInv

\* Cycle c takes a step.
LEMMA MoveKeeps ==
    ASSUME DeskInv, NEW c \in Cycle, NEW f \in Frame, NEW doc \in RunDoc,
           NEW took \in Seq(Action), NEW new \in SUBSET Delivery, \A d \in new : d.cycle = c,
           cycle' = [cycle EXCEPT ![c] = f], run' = [run EXCEPT ![c] = doc],
           taken' = [taken EXCEPT ![c] = took], delivered' = delivered \cup new,
           clock' = clock, CycleInv(c, f, doc, took, delivered \cup new)
    PROVE  DeskInv'
<1>1. Typed'
  BY DEF DeskInv, Typed
<1>2. cycle'[c] = f /\ run'[c] = doc /\ taken'[c] = took
  BY DEF DeskInv, Typed
<1>3. ASSUME NEW u \in Cycle \ {c}
      PROVE  cycle'[u] = cycle[u] /\ run'[u] = run[u] /\ taken'[u] = taken[u]
  BY DEF DeskInv, Typed
<1>4. ASSUME NEW u \in Cycle PROVE CycleInv(u, cycle'[u], run'[u], taken'[u], delivered')
  <2>1. CASE u = c
    BY <1>2, <2>1
  <2>2. CASE u # c
    <3>1. CycleInv(u, cycle[u], run[u], taken[u], delivered) /\ \A d \in new : d.cycle # u
      BY <2>2 DEF DeskInv
    <3>2. CycleInv(u, cycle[u], run[u], taken[u], delivered \cup new)
      BY <3>1, OtherDeliveries
    <3> QED BY <1>3, <2>2, <3>2
  <2> QED BY <2>1, <2>2
<1> QED BY <1>1, <1>4 DEF DeskInv

\* A step that concerns nothing but where the cycle is.
LEMMA GoKeeps ==
    ASSUME DeskInv, NEW c \in Cycle, NEW f \in Frame, cycle' = [cycle EXCEPT ![c] = f],
           UNCHANGED <<run, clock, delivered, taken>>,
           CycleInv(c, f, run[c], taken[c], delivered)
    PROVE  DeskInv'
<1>1. run' = [run EXCEPT ![c] = run[c]] /\ taken' = [taken EXCEPT ![c] = taken[c]]
  BY DEF DeskInv, Typed
<1> DEFINE none == {}
<1>2. /\ delivered' = delivered \cup none /\ delivered \cup none = delivered
      /\ none \in SUBSET Delivery /\ \A d \in none : d.cycle = c
  OBVIOUS
<1>3. CycleInv(c, f, run[c], taken[c], delivered \cup none)
  BY <1>2
<1>4. run[c] \in RunDoc /\ taken[c] \in Seq(Action) /\ clock' = clock
  BY DeskFacts
<1> HIDE DEF none
<1> QED BY <1>1, <1>2, <1>3, <1>4, MoveKeeps

------------------------------------------------------------------------------
(* Texts, routes and sequences. *)

LEMMA ClassifiedFacts ==
    ASSUME NEW text \in SUBSET (Domain \ {"unknown"})
    PROVE  /\ Classified(text) \in Domain
           /\ text # {} => Classified(text) \in text
           /\ "security" \in text => Classified(text) = "security"
           /\ text \cap {"security", "finance"} # {} => Classified(text) \in {"security", "finance"}
<1> DEFINE order == Precedence \o DEFAULT_SIGNALS
           hits == {i \in DOMAIN order : order[i] \in text}
<1>1. /\ DOMAIN order = 1 .. 6
      /\ order[1] = "security" /\ order[2] = "finance" /\ order[3] = "security"
      /\ order[4] = "infra" /\ order[5] = "data_quality" /\ order[6] = "finance"
  <2>1. /\ Precedence \in Seq(Domain) /\ Len(Precedence) = 2
        /\ Precedence[1] = "security" /\ Precedence[2] = "finance"
    BY DEF Precedence, Domain
  <2>2. /\ DEFAULT_SIGNALS \in Seq(Domain) /\ Len(DEFAULT_SIGNALS) = 4
        /\ DEFAULT_SIGNALS[1] = "security" /\ DEFAULT_SIGNALS[2] = "infra"
        /\ DEFAULT_SIGNALS[3] = "data_quality" /\ DEFAULT_SIGNALS[4] = "finance"
    BY DEF DEFAULT_SIGNALS, Domain
  <2>3. /\ order \in Seq(Domain) /\ Len(order) = 6
        /\ \A i \in 1 .. 6 : order[i] = IF i <= 2 THEN Precedence[i] ELSE DEFAULT_SIGNALS[i - 2]
    <3>1. /\ order \in Seq(Domain) /\ Len(order) = Len(Precedence) + Len(DEFAULT_SIGNALS)
          /\ \A i \in 1 .. Len(Precedence) + Len(DEFAULT_SIGNALS) :
                order[i] = IF i <= Len(Precedence) THEN Precedence[i]
                           ELSE DEFAULT_SIGNALS[i - Len(Precedence)]
      BY <2>1, <2>2, ConcatProperties, Zenon
    <3> HIDE DEF order
    <3>2. Len(Precedence) + Len(DEFAULT_SIGNALS) = 6
      BY <2>1, <2>2
    <3> QED BY <2>1, <3>1, <3>2
  <2>4. DOMAIN order = 1 .. 6
    BY <2>3, LenProperties
  <2> HIDE DEF order
  <2> QED BY <2>1, <2>2, <2>3, <2>4
<1> HIDE DEF order
<1>2. CASE text = {}
  BY <1>2 DEF Classified, Domain
<1>3. CASE text # {}
  <2>1. PICK d \in text : TRUE
    BY <1>3
  <2>2. hits \subseteq 1 .. 6 /\ hits # {}
    <3>1. d \in {"security", "finance", "infra", "data_quality"}
      BY DEF Domain
    <3> QED BY <1>1, <2>1, <3>1
  <2>3. \E i \in hits : \A j \in hits : i <= j
    <3>1. CASE 1 \in hits
      BY <2>2, <3>1
    <3>2. CASE 1 \notin hits /\ 2 \in hits
      BY <2>2, <3>2
    <3>3. CASE 1 \notin hits /\ 2 \notin hits /\ 3 \in hits
      BY <2>2, <3>3
    <3>4. CASE 1 \notin hits /\ 2 \notin hits /\ 3 \notin hits /\ 4 \in hits
      BY <2>2, <3>4
    <3>5. CASE 1 \notin hits /\ 2 \notin hits /\ 3 \notin hits /\ 4 \notin hits
      BY <2>2, <3>5
    <3> QED BY <3>1, <3>2, <3>3, <3>4, <3>5
  <2>4. Min(hits) \in hits /\ \A j \in hits : Min(hits) <= j
    BY <2>3 DEF Min
  <2>5. Classified(text) = order[Min(hits)]
    BY <1>3 DEF Classified, order
  <2>6. Classified(text) \in text
    BY <2>4, <2>5
  <2>7. ASSUME "security" \in text PROVE Classified(text) = "security"
    <3>1. 1 \in hits
      BY <1>1, <2>7
    <3>2. Min(hits) = 1
      BY <2>2, <2>4, <3>1
    <3> QED BY <1>1, <2>5, <3>2
  <2>8. ASSUME "finance" \in text PROVE Classified(text) \in {"security", "finance"}
    <3>1. 2 \in hits
      BY <1>1, <2>8
    <3>2. Min(hits) \in {1, 2}
      BY <2>2, <2>4, <3>1
    <3> QED BY <1>1, <2>5, <3>2
  <2> QED BY <2>6, <2>7, <2>8
<1> QED BY <1>2, <1>3

LEMMA RouteIsNames ==
    ASSUME NEW d \in Domain
    PROVE  RouteFor(d) \in Seq(Names)
<1>1. <<"alert", "ticket">> \in Seq(Names) /\ <<"ticket">> \in Seq(Names)
  BY DEF Names, Registry
<1>2. DEFAULT_ROUTING[d] \in Seq(Names)
  BY <1>1 DEF DEFAULT_ROUTING
<1>3. ASSUME d \in DOMAIN Override PROVE Override[d] \in Seq(Names)
  <2>1. Override[d] \in Seq(Name)
    BY <1>3, DeskAssumption
  <2> QED BY <2>1 DEF Names
<1> QED BY <1>2, <1>3 DEF RouteFor

LEMMA QueueFacts ==
    ASSUME NEW s \in Seq(Names), s # <<>>
    PROVE  /\ Head(s) \in Names /\ Tail(s) \in Seq(Names)
           /\ ToSet(s) = {Head(s)} \cup ToSet(Tail(s))
<1>1. Head(s) \in Names /\ Tail(s) \in Seq(Names)
  BY HeadTailProperties
<1>2. /\ Len(s) \in Nat \ {0} /\ DOMAIN s = 1 .. Len(s) /\ Head(s) = s[1]
      /\ Len(Tail(s)) = Len(s) - 1 /\ DOMAIN Tail(s) = 1 .. Len(s) - 1
      /\ \A i \in 1 .. Len(s) - 1 : Tail(s)[i] = s[i + 1]
  BY HeadTailProperties, EmptySeq, LenProperties
<1>3. ASSUME NEW i \in DOMAIN s PROVE s[i] \in {Head(s)} \cup ToSet(Tail(s))
  <2>1. CASE i = 1
    BY <1>2, <2>1
  <2>2. CASE i # 1
    <3>1. i - 1 \in 1 .. Len(s) - 1 /\ (i - 1) + 1 = i
      BY <1>2, <1>3, <2>2
    <3>2. Tail(s)[i - 1] = s[i]
      BY <1>2, <3>1
    <3> QED BY <1>2, <3>1, <3>2 DEF ToSet
  <2> QED BY <2>1, <2>2
<1>4. ASSUME NEW i \in DOMAIN Tail(s) PROVE Tail(s)[i] \in ToSet(s)
  <2>1. i + 1 \in 1 .. Len(s) /\ Tail(s)[i] = s[i + 1]
    BY <1>2, <1>4
  <2> QED BY <1>2, <2>1 DEF ToSet
<1>5. Head(s) \in ToSet(s)
  BY <1>2 DEF ToSet
<1> QED BY <1>1, <1>3, <1>4, <1>5 DEF ToSet

LEMMA ResultsFacts ==
    ASSUME NEW results \in Seq(Res), NEW r \in Res
    PROVE  /\ Append(results, r) \in Seq(Res)
           /\ DOMAIN Append(results, r) = DOMAIN results \cup {Len(results) + 1}
           /\ Append(results, r)[Len(results) + 1] = r
           /\ \A k \in DOMAIN results : Append(results, r)[k] = results[k]
<1>1. Len(results) \in Nat /\ DOMAIN results = 1 .. Len(results)
  BY LenProperties
<1>2. /\ Append(results, r) \in Seq(Res) /\ Len(Append(results, r)) = Len(results) + 1
      /\ Append(results, r)[Len(results) + 1] = r
      /\ \A k \in 1 .. Len(results) : Append(results, r)[k] = results[k]
  BY AppendProperties
<1>3. DOMAIN Append(results, r) = 1 .. Len(results) + 1
  BY <1>2, LenProperties
<1> QED BY <1>1, <1>2, <1>3

------------------------------------------------------------------------------
(* A handler comes to a result. *)

LEMMA HonestAppend ==
    ASSUME NEW c, NEW i, NEW results \in Seq(Res), NEW r \in Res, NEW dels, NEW new,
           Honest(c, i, results, dels),
           Shows(r) => \E d \in new : d.cycle = c /\ d.incident = i /\ (r.id => Identified(d)),
           \A d \in new : d.handler = r.handler /\ r.status \in {"fired", "error"}
    PROVE  Honest(c, i, Append(results, r), dels \cup new)
<1> DEFINE after == Append(results, r)
<1>1. /\ DOMAIN after = DOMAIN results \cup {Len(results) + 1} /\ after[Len(results) + 1] = r
      /\ \A k \in DOMAIN results : after[k] = results[k]
  BY ResultsFacts
<1> HIDE DEF after
<1>2. ASSUME NEW k \in DOMAIN after, Shows(after[k])
      PROVE  \E d \in dels \cup new : /\ d.cycle = c /\ d.incident = i
                                      /\ after[k].id => Identified(d)
  BY <1>1, <1>2 DEF Honest
<1>3. ASSUME NEW d \in dels \cup new, d.cycle = c, d.incident = i
      PROVE  \E k \in DOMAIN after : /\ after[k].handler = d.handler
                                     /\ after[k].status \in {"fired", "error"}
  <2>1. CASE d \in dels
    <3>1. PICK k \in DOMAIN results : /\ results[k].handler = d.handler
                                      /\ results[k].status \in {"fired", "error"}
      BY <1>3, <2>1 DEF Honest
    <3> QED BY <1>1, <3>1
  <2>2. CASE d \in new
    BY <1>1, <2>2
  <2> QED BY <2>1, <2>2
<1>4. Honest(c, i, after, dels \cup new)
  BY <1>2, <1>3 DEF Honest
<1> QED BY <1>4 DEF after

LEMMA ServedAppend ==
    ASSUME NEW domain, NEW queue \in Seq(Names), queue # <<>>, NEW results \in Seq(Res),
           NEW r \in Res, r.handler = Head(queue), Served(domain, queue, results)
    PROVE  Served(domain, Tail(queue), Append(results, r))
<1> DEFINE after == Append(results, r)
<1>1. /\ DOMAIN after = DOMAIN results \cup {Len(results) + 1} /\ after[Len(results) + 1] = r
      /\ \A k \in DOMAIN results : after[k] = results[k]
  BY ResultsFacts
<1>2. ToSet(queue) = {Head(queue)} \cup ToSet(Tail(queue))
  BY QueueFacts
<1> HIDE DEF after
<1>3. ASSUME NEW n \in ToSet(RouteFor(domain)), CanHandle(n, domain)
      PROVE  n \in ToSet(Tail(queue)) \/ \E k \in DOMAIN after : after[k].handler = n
  <2>1. CASE n \in ToSet(queue)
    BY <1>1, <1>2, <2>1
  <2>2. CASE \E k \in DOMAIN results : results[k].handler = n
    BY <1>1, <2>2
  <2> QED BY <1>3, <2>1, <2>2 DEF Served
<1>4. Served(domain, Tail(queue), after)
  BY <1>3 DEF Served
<1> QED BY <1>4 DEF after

\* The handler at the head of the queue comes to r, with deliveries new.
LEMMA HandledKeeps ==
    ASSUME DeskInv, NEW c \in Cycle, NEW r \in Res, NEW new \in SUBSET Delivery,
           cycle[c].queue # <<>>, InIncident(cycle[c]), Handled(c, r),
           r.handler = Head(cycle[c].queue),
           delivered' = delivered \cup new,
           \A d \in new : /\ d.cycle = c /\ d.incident = Len(run[c].routes) + 1
                          /\ d.handler = r.handler /\ r.status \in {"fired", "error"},
           Shows(r) => \E d \in new : r.id => Identified(d),
           UNCHANGED <<run, clock, taken>>
    PROVE  DeskInv'
<1> DEFINE f == [cycle[c] EXCEPT !.step = "handler", !.now = 0, !.queue = Tail(cycle[c].queue),
                                 !.results = Append(cycle[c].results, r)]
           i == Len(run[c].routes) + 1
<1>1. /\ cycle[c] \in Frame /\ run[c] \in RunDoc /\ taken[c] \in Seq(Action) /\ i \in Nat
      /\ CycleInv(c, cycle[c], run[c], taken[c], delivered)
      /\ cycle[c].queue \in Seq(Names) /\ cycle[c].results \in Seq(Res)
  BY DeskFacts DEF Frame
<1>2. Append(cycle[c].results, r) \in Seq(Res) /\ Tail(cycle[c].queue) \in Seq(Names)
  BY <1>1, ResultsFacts, QueueFacts
<1>3. f \in Frame
  BY <1>1, <1>2 DEF Frame, Steps
<1>4. /\ f.step = "handler" /\ f.queue = Tail(cycle[c].queue) /\ f.text = cycle[c].text
      /\ f.results = Append(cycle[c].results, r)
  BY <1>1 DEF Frame
<1>5. cycle' = [cycle EXCEPT ![c] = f]
  BY DEF Handled
<1> HIDE DEF f
<1>6. Honest(c, i, f.results, delivered \cup new)
  <2>1. Honest(c, i, cycle[c].results, delivered)
    BY <1>1 DEF CycleInv, InIncident
  <2>2. Shows(r) => \E d \in new : d.cycle = c /\ d.incident = i /\ (r.id => Identified(d))
    OBVIOUS
  <2>3. \A d \in new : d.handler = r.handler /\ r.status \in {"fired", "error"}
    OBVIOUS
  <2> HIDE DEF i
  <2>4. Honest(c, i, Append(cycle[c].results, r), delivered \cup new)
    BY <1>1, <2>1, <2>2, <2>3, HonestAppend
  <2> QED BY <1>4, <2>4
<1>7. Served(Classified(f.text), f.queue, f.results)
  <2>1. Served(Classified(cycle[c].text), cycle[c].queue, cycle[c].results)
    BY <1>1 DEF CycleInv
  <2> QED BY <1>1, <1>4, <2>1, ServedAppend
<1>8. Recorded(c, run[c].routes, delivered \cup new)
  <2>1. \A d \in new : d.incident \notin DOMAIN run[c].routes
    BY <1>1, DeskFacts
  <2>2. Recorded(c, run[c].routes, delivered)
    BY <1>1 DEF CycleInv
  <2>3. ASSUME NEW j \in DOMAIN run[c].routes, Honest(c, j, run[c].routes[j].handlers, delivered)
        PROVE  Honest(c, j, run[c].routes[j].handlers, delivered \cup new)
    BY <2>1, <2>3 DEF Honest
  <2> QED BY <2>2, <2>3 DEF Recorded
<1>9. Flow(f, run[c], taken[c])
  BY <1>1, <1>4 DEF CycleInv, Flow, InIncident
<1>10. \A d \in delivered \cup new : d.cycle = c => d.incident <= i
  BY <1>1 DEF CycleInv
<1>11. CycleInv(c, f, run[c], taken[c], delivered \cup new)
  BY <1>6, <1>7, <1>8, <1>9, <1>10 DEF CycleInv
<1>12. run' = [run EXCEPT ![c] = run[c]] /\ taken' = [taken EXCEPT ![c] = taken[c]]
  BY DEF DeskInv, Typed
<1>13. clock' = clock /\ \A d \in new : d.cycle = c
  OBVIOUS
<1>14. /\ run[c] \in RunDoc /\ taken[c] \in Seq(Action) /\ new \in SUBSET Delivery
       /\ delivered' = delivered \cup new
  BY <1>1
<1> HIDE DEF i
<1> QED BY ONLY DeskInv, <1>3, <1>5, <1>11, <1>12, <1>13, <1>14, MoveKeeps

------------------------------------------------------------------------------
(* The steps of a cycle. *)

LEMMA BetweenFacts ==
    ASSUME NEW s \in Steps
    PROVE  /\ Between(s) \in Frame /\ Between(s).step = s /\ Between(s).queue = <<>>
           /\ Between(s).results = <<>>
<1>1. <<>> \in Seq(Names) /\ <<>> \in Seq(Res) /\ {} \in Saying
  BY EmptySeq DEF Saying
<1> QED BY <1>1 DEF Between, Frame

LEMMA StartKeeps ==
    ASSUME DeskInv, NEW c \in Cycle, Start(c)
    PROVE  DeskInv'
<1> DEFINE f == [cycle[c] EXCEPT !.step = "incident"]
           doc == [run[c] EXCEPT !.status = "started"]
           none == {}
<1>1. /\ cycle[c] \in Frame /\ run[c] \in RunDoc /\ taken[c] \in Seq(Action)
      /\ CycleInv(c, cycle[c], run[c], taken[c], delivered) /\ cycle[c].step = "start"
  BY DeskFacts DEF Start, At
<1>2. /\ f \in Frame /\ f.step = "incident" /\ f.queue = cycle[c].queue
      /\ f.results = cycle[c].results
  BY <1>1 DEF Frame, Steps
<1>3. doc \in RunDoc /\ doc.status = "started" /\ doc.routes = run[c].routes
  BY <1>1 DEF RunDoc
<1>4. cycle' = [cycle EXCEPT ![c] = f] /\ run' = [run EXCEPT ![c] = doc]
  BY DEF Start, Goto
<1>5. /\ taken' = [taken EXCEPT ![c] = taken[c]] /\ clock' = clock
      /\ delivered' = delivered \cup none /\ delivered \cup none = delivered
      /\ none \in SUBSET Delivery /\ \A d \in none : d.cycle = c
  BY DEF Start, DeskInv, Typed
<1> HIDE DEF f, doc, none
<1>6. CycleInv(c, f, doc, taken[c], delivered \cup none)
  BY <1>1, <1>2, <1>3, <1>5 DEF CycleInv, Flow, InIncident
<1> QED BY <1>1, <1>2, <1>3, <1>4, <1>5, <1>6, MoveKeeps

LEMMA ClassifyKeeps ==
    ASSUME DeskInv, NEW c \in Cycle, NEW text \in Text, Classify(c, text)
    PROVE  DeskInv'
<1> DEFINE route == RouteFor(Classified(text))
           f == [cycle[c] EXCEPT !.step = "handler", !.text = text, !.results = <<>>,
                                 !.queue = route]
<1>1. /\ cycle[c] \in Frame /\ run[c] \in RunDoc /\ Len(run[c].routes) \in Nat
      /\ CycleInv(c, cycle[c], run[c], taken[c], delivered) /\ cycle[c].step = "incident"
      /\ Len(run[c].routes) < MaxIncidents
  BY DeskFacts DEF Classify, At
<1>2. text \in Saying /\ route \in Seq(Names)
  BY ClassifiedFacts, RouteIsNames, DeskAssumption DEF Saying
<1>3. <<>> \in Seq(Res)
  BY EmptySeq
<1>4. cycle' = [cycle EXCEPT ![c] = f] /\ UNCHANGED <<run, clock, delivered, taken>>
  BY DEF Classify
<1> HIDE DEF route
<1>5. /\ f \in Frame /\ f.step = "handler" /\ f.text = text /\ f.results = <<>>
      /\ f.queue = route
  BY <1>1, <1>2, <1>3 DEF Frame, Steps
<1> HIDE DEF f
<1>6. Flow(f, run[c], taken[c])
  BY <1>1, <1>5 DEF CycleInv, Flow, InIncident
<1>7. Honest(c, Len(run[c].routes) + 1, f.results, delivered)
  BY <1>1, <1>5 DEF CycleInv, Flow, InIncident
<1>8. Served(Classified(f.text), f.queue, f.results)
  BY <1>5 DEF Served, route
<1>9. CycleInv(c, f, run[c], taken[c], delivered)
  BY <1>1, <1>6, <1>7, <1>8 DEF CycleInv
<1> QED BY <1>4, <1>5, <1>9, GoKeeps

LEMMA ReadClockKeeps ==
    ASSUME DeskInv, NEW c \in Cycle, cycle[c].step = "handler", cycle[c].queue # <<>>,
           ReadClock(c), UNCHANGED <<run, clock, delivered, taken>>
    PROVE  DeskInv'
<1>1. /\ cycle[c] \in Frame /\ CycleInv(c, cycle[c], run[c], taken[c], delivered)
      /\ clock \in Nat
  BY DeskFacts DEF DeskInv, Typed
<1>2. CASE DryRun
  <2> DEFINE r == Result(Head(cycle[c].queue), "suppressed", TRUE, FALSE)
             none == {}
  <2>1. r \in Res /\ r.handler = Head(cycle[c].queue) /\ ~Shows(r)
    BY <1>1, QueueFacts DEF Result, Res, Shows, Frame
  <2>2. Handled(c, r)
    BY <1>2 DEF ReadClock
  <2>3. none \in SUBSET Delivery /\ delivered' = delivered \cup none /\ \A d \in none : FALSE
    OBVIOUS
  <2>4. InIncident(cycle[c])
    BY DEF InIncident
  <2> HIDE DEF r, none
  <2> QED BY <2>1, <2>2, <2>3, <2>4, HandledKeeps
<1>3. CASE ~DryRun
  <2> DEFINE f == [cycle[c] EXCEPT !.step = "limit", !.now = clock]
  <2>1. /\ f \in Frame /\ f.step = "limit" /\ f.queue = cycle[c].queue /\ f.text = cycle[c].text
        /\ f.results = cycle[c].results
    BY <1>1 DEF Frame, Steps
  <2>2. cycle' = [cycle EXCEPT ![c] = f]
    BY <1>3 DEF ReadClock
  <2> HIDE DEF f
  <2>3. CycleInv(c, f, run[c], taken[c], delivered)
    BY <1>1, <2>1 DEF CycleInv, Flow, InIncident
  <2> QED BY <2>1, <2>2, <2>3, GoKeeps
<1> QED BY <1>2, <1>3

LEMMA NextHandlerKeeps ==
    ASSUME DeskInv, NEW c \in Cycle, NextHandler(c)
    PROVE  DeskInv'
<1> DEFINE name == Head(cycle[c].queue)
           domain == Classified(cycle[c].text)
<1>1. /\ cycle[c] \in Frame /\ CycleInv(c, cycle[c], run[c], taken[c], delivered)
      /\ cycle[c].step = "handler" /\ cycle[c].queue # <<>>
      /\ cycle[c].queue \in Seq(Names) /\ name \in Names
  BY DeskFacts, QueueFacts DEF NextHandler, At, Frame
<1>2. UNCHANGED <<run, clock, delivered, taken>>
  BY DEF NextHandler
<1>3. CASE name \notin Registry
  <2> DEFINE r == Result(name, "error", FALSE, FALSE)
             none == {}
  <2>1. r \in Res /\ r.handler = name /\ ~Shows(r)
    BY <1>1 DEF Result, Res, Shows
  <2>2. Handled(c, r)
    BY <1>3 DEF NextHandler
  <2>3. none \in SUBSET Delivery /\ delivered' = delivered \cup none /\ \A d \in none : FALSE
    BY <1>2
  <2>4. InIncident(cycle[c])
    BY <1>1 DEF InIncident
  <2> HIDE DEF r, none
  <2> QED BY <1>1, <1>2, <2>1, <2>2, <2>3, <2>4, HandledKeeps
<1>4. CASE name \in Registry /\ ~CanHandle(name, domain)
  <2> DEFINE f == [cycle[c] EXCEPT !.queue = Tail(cycle[c].queue)]
  <2>1. /\ Tail(cycle[c].queue) \in Seq(Names)
        /\ ToSet(cycle[c].queue) = {name} \cup ToSet(Tail(cycle[c].queue))
    BY <1>1, QueueFacts
  <2>2. /\ f \in Frame /\ f.step = "handler" /\ f.queue = Tail(cycle[c].queue)
        /\ f.text = cycle[c].text /\ f.results = cycle[c].results
    BY <1>1, <2>1 DEF Frame, Steps
  <2>3. cycle' = [cycle EXCEPT ![c] = f]
    BY <1>4 DEF NextHandler
  <2> HIDE DEF f
  <2>4. Served(Classified(f.text), f.queue, f.results)
    <3>1. Served(domain, cycle[c].queue, cycle[c].results)
      BY <1>1 DEF CycleInv, InIncident
    <3> QED BY <1>4, <2>1, <2>2, <3>1 DEF Served
  <2>5. CycleInv(c, f, run[c], taken[c], delivered)
    BY <1>1, <2>2, <2>4 DEF CycleInv, Flow, InIncident
  <2> QED BY <1>2, <2>2, <2>3, <2>5, GoKeeps
<1>5. CASE ReadClock(c)
  BY <1>1, <1>2, <1>5, ReadClockKeeps
<1> QED BY <1>3, <1>4, <1>5 DEF NextHandler

LEMMA CheckLimiterKeeps ==
    ASSUME DeskInv, NEW c \in Cycle, CheckLimiter(c)
    PROVE  DeskInv'
<1> DEFINE none == {}
<1>1. /\ cycle[c] \in Frame /\ run[c] \in RunDoc /\ taken[c] \in Seq(Action)
      /\ CycleInv(c, cycle[c], run[c], taken[c], delivered)
      /\ cycle[c].step = "limit" /\ cycle[c].queue \in Seq(Names)
      /\ clock \in Nat
  BY DeskFacts DEF CheckLimiter, At, Frame, DeskInv, Typed
<1>2. /\ UNCHANGED <<run, clock>> /\ delivered' = delivered \cup none
      /\ delivered \cup none = delivered /\ none \in SUBSET Delivery
      /\ \A d \in none : d.cycle = c
  BY DEF CheckLimiter
<1>3. \A d \in none : FALSE
  OBVIOUS
<1> HIDE DEF none
<1>4. CASE /\ cycle' = [cycle EXCEPT
                           ![c].step = IF cycle[c].queue = <<>> THEN "complete" ELSE "deliver",
                           ![c].now = 0]
           /\ taken' = [taken EXCEPT
                           ![c] = Append(@, [at |-> clock, fresh |-> cycle[c].now = clock])]
  <2> DEFINE next == IF cycle[c].queue = <<>> THEN "complete" ELSE "deliver"
             f == [cycle[c] EXCEPT !.step = next, !.now = 0]
             took == Append(taken[c], [at |-> clock, fresh |-> cycle[c].now = clock])
  <2>1. cycle' = [cycle EXCEPT ![c] = f]
    BY <1>4
  <2>2. taken' = [taken EXCEPT ![c] = took]
    BY <1>4
  <2>3. took \in Seq(Action) /\ took # <<>>
    <3>1. [at |-> clock, fresh |-> cycle[c].now = clock] \in Action
      BY <1>1 DEF Action
    <3> QED BY <1>1, <3>1, AppendProperties
  <2>4. /\ next \in {"complete", "deliver"} /\ (next = "complete" <=> cycle[c].queue = <<>>)
    OBVIOUS
  <2> HIDE DEF next
  <2>5. /\ f \in Frame /\ f.step = next /\ f.queue = cycle[c].queue /\ f.text = cycle[c].text
        /\ f.results = cycle[c].results
    BY <1>1, <2>4 DEF Frame, Steps
  <2> HIDE DEF f, took
  <2>6. Flow(f, run[c], took)
    BY <1>1, <2>3, <2>4, <2>5 DEF CycleInv, Flow, InIncident
  <2>7. CycleInv(c, f, run[c], took, delivered \cup none)
    BY <1>1, <1>2, <2>4, <2>5, <2>6 DEF CycleInv, InIncident
  <2>8. run' = [run EXCEPT ![c] = run[c]]
    BY <1>2 DEF DeskInv, Typed
  <2> QED BY <1>1, <1>2, <2>1, <2>2, <2>3, <2>5, <2>7, <2>8, MoveKeeps
<1>5. CASE /\ UNCHANGED taken /\ cycle[c].queue = <<>>
           /\ cycle' = [cycle EXCEPT ![c] = Between("complete")]
  <2>1. /\ Between("complete") \in Frame /\ Between("complete").step = "complete"
        /\ Between("complete").queue = <<>> /\ Between("complete").results = <<>>
    BY BetweenFacts DEF Steps
  <2>2. CycleInv(c, Between("complete"), run[c], taken[c], delivered)
    BY <1>1, <1>5, <2>1 DEF CycleInv, Flow, InIncident
  <2>3. delivered' = delivered
    BY <1>2
  <2> QED BY <1>2, <1>5, <2>1, <2>2, <2>3, GoKeeps
<1>6. CASE /\ UNCHANGED taken /\ cycle[c].queue # <<>>
           /\ Handled(c, Result(Head(cycle[c].queue), "suppressed", TRUE, FALSE))
  <2> DEFINE r == Result(Head(cycle[c].queue), "suppressed", TRUE, FALSE)
  <2>1. r \in Res /\ r.handler = Head(cycle[c].queue) /\ ~Shows(r)
    BY <1>1, <1>6, QueueFacts DEF Result, Res, Shows
  <2>2. Handled(c, r) /\ InIncident(cycle[c])
    BY <1>1, <1>6 DEF InIncident
  <2> HIDE DEF r
  <2> QED BY <1>2, <1>3, <1>6, <2>1, <2>2, HandledKeeps
<1> QED BY <1>4, <1>5, <1>6 DEF CheckLimiter

LEMMA OutcomeFacts ==
    ASSUME NEW sink \in {"slack", "github", "endpoint"}, NEW o \in Outcome(sink)
    PROVE  /\ o.accepted \in BOOLEAN /\ o.status \in {"fired", "error"}
           /\ o.told \in BOOLEAN /\ o.id \in BOOLEAN
           /\ o.status = "fired" => o.accepted
           /\ o.id => o.told \/ sink = "github"
<1>1. CASE o \in [accepted : BOOLEAN, status : {"error"}, told : {FALSE}, id : {FALSE}]
  BY <1>1
<1>2. ASSUME NEW told \in BOOLEAN,
             o = [accepted |-> TRUE, status |-> "fired", told |-> told,
                  id |-> told \/ sink = "github"]
      PROVE  /\ o.accepted \in BOOLEAN /\ o.status \in {"fired", "error"}
             /\ o.told \in BOOLEAN /\ o.id \in BOOLEAN
             /\ o.status = "fired" => o.accepted
             /\ o.id => o.told \/ sink = "github"
  <2>1. o.id = (told \/ sink = "github") /\ o.told = told
    BY <1>2
  <2>2. o.accepted /\ o.status = "fired"
    BY <1>2
  <2> QED BY <2>1, <2>2, Zenon
<1>3. \/ o \in [accepted : BOOLEAN, status : {"error"}, told : {FALSE}, id : {FALSE}]
      \/ \E told \in BOOLEAN :
            o = [accepted |-> TRUE, status |-> "fired", told |-> told,
                 id |-> told \/ sink = "github"]
  BY DEF Outcome
<1> QED BY <1>1, <1>2, <1>3

LEMMA DeliverKeeps ==
    ASSUME DeskInv, NEW c \in Cycle, Deliver(c)
    PROVE  DeskInv'
<1> DEFINE name == Head(cycle[c].queue)
           i == Len(run[c].routes) + 1
           none == {}
<1>1. /\ cycle[c].step = "deliver" /\ cycle[c].queue # <<>> /\ name \in Names /\ i \in Nat
      /\ InIncident(cycle[c])
  <2>1. /\ cycle[c] \in Frame /\ CycleInv(c, cycle[c], run[c], taken[c], delivered)
        /\ cycle[c].step = "deliver" /\ i \in Nat
    BY DeskFacts DEF Deliver, At
  <2>2. cycle[c].queue \in Seq(Names) /\ cycle[c].queue # <<>>
    BY <2>1 DEF CycleInv, Flow, Frame
  <2> QED BY <2>1, <2>2, QueueFacts DEF InIncident
<1>2. UNCHANGED <<run, clock, taken>>
  BY DEF Deliver
<1>3. none \in SUBSET Delivery /\ delivered \cup none = delivered /\ \A d \in none : FALSE
  OBVIOUS
<1> HIDE DEF none, i
<1>4. CASE Sink(name) = "stub"
  <2> DEFINE r == Result(name, "noop", TRUE, name = "ticket")
  <2>1. r \in Res /\ r.handler = name /\ ~Shows(r)
    BY <1>1 DEF Result, Res, Shows
  <2>2. Handled(c, r) /\ delivered' = delivered \cup none
    BY <1>3, <1>4 DEF Deliver
  <2> HIDE DEF r
  <2> QED BY <1>1, <1>2, <1>3, <2>1, <2>2, HandledKeeps
<1>5. CASE Sink(name) # "stub"
  <2>1. Sink(name) \in {"slack", "github", "endpoint"}
    BY <1>5 DEF Sink
  <2>2. PICK o \in Outcome(Sink(name)) :
           /\ Handled(c, Result(name, o.status, o.status # "fired", o.id))
           /\ delivered' = IF ~o.accepted THEN delivered
                           ELSE delivered \cup
                             {[cycle |-> c, incident |-> i, handler |-> name, id |-> o.told]}
    BY <1>5 DEF Deliver, i
  <2>3. /\ o.accepted \in BOOLEAN /\ o.status \in {"fired", "error"}
        /\ o.told \in BOOLEAN /\ o.id \in BOOLEAN
        /\ o.status = "fired" => o.accepted
        /\ o.id => o.told \/ Sink(name) = "github"
    BY <2>1, OutcomeFacts
  <2> DEFINE r == Result(name, o.status, o.status # "fired", o.id)
             d == [cycle |-> c, incident |-> i, handler |-> name, id |-> o.told]
             new == IF o.accepted THEN {d} ELSE none
  <2>4. /\ r \in Res /\ r.handler = name /\ r.status = o.status /\ r.id = o.id
        /\ Shows(r) => o.accepted
    BY <1>1, <2>3 DEF Result, Res, Shows
  <2>5. /\ d \in Delivery /\ d.cycle = c /\ d.incident = i /\ d.handler = name /\ d.id = o.told
    BY <1>1, <2>3 DEF Delivery
  <2>6. Handled(c, r)
    BY <2>2
  <2> HIDE DEF r, d
  <2>7. /\ new \in SUBSET Delivery
        /\ \A e \in new : /\ e.cycle = c /\ e.incident = i
                          /\ e.handler = r.handler /\ r.status \in {"fired", "error"}
        /\ Shows(r) => \E e \in new : r.id => Identified(e)
    BY <1>3, <2>3, <2>4, <2>5 DEF Identified
  <2>8. delivered' = delivered \cup new
    BY <1>3, <2>2 DEF d
  <2> HIDE DEF new
  <2> QED BY <1>1, <1>2, <2>4, <2>6, <2>7, <2>8, HandledKeeps DEF i
<1> QED BY <1>4, <1>5

LEMMA RecordFacts ==
    ASSUME DeskInv, NEW c \in Cycle
    PROVE  /\ Record(c) \in Route
           /\ Record(c).text = cycle[c].text /\ Record(c).domain = Classified(cycle[c].text)
           /\ Record(c).handlers = cycle[c].results
           /\ Record(c).delivery_mode = "live" =>
                 \E k \in DOMAIN cycle[c].results : Shows(cycle[c].results[k])
           /\ Record(c).artifacts =>
                 \E k \in DOMAIN cycle[c].results :
                    Shows(cycle[c].results[k]) /\ cycle[c].results[k].id
<1> DEFINE results == cycle[c].results
           shown == {i \in DOMAIN results : Shows(results[i])}
           artifacts == \E i \in shown : results[i].id
           mode == IF shown = {} THEN "synthetic" ELSE "live"
<1>1. cycle[c].text \in Saying /\ results \in Seq(Res)
  BY DeskFacts DEF Frame
<1>2. Classified(cycle[c].text) \in Domain
  BY <1>1, ClassifiedFacts DEF Saying
<1>3. Record(c) = [text |-> cycle[c].text, domain |-> Classified(cycle[c].text),
                   handlers |-> results, artifacts |-> artifacts, delivery_mode |-> mode]
  BY DEF Record
<1>4. /\ artifacts \in BOOLEAN /\ mode \in {"live", "synthetic"}
      /\ mode = "live" => shown # {}
  OBVIOUS
<1>5. shown # {} => \E k \in DOMAIN results : Shows(results[k])
  OBVIOUS
<1>6. artifacts => \E k \in DOMAIN results : Shows(results[k]) /\ results[k].id
  OBVIOUS
<1> HIDE DEF artifacts, mode, shown, results
<1>7. Record(c) \in Route
  BY <1>1, <1>2, <1>3, <1>4 DEF Route
<1>8. /\ Record(c).text = cycle[c].text /\ Record(c).domain = Classified(cycle[c].text)
      /\ Record(c).handlers = results /\ Record(c).artifacts = artifacts
      /\ Record(c).delivery_mode = mode
  BY <1>3
<1> QED BY <1>4, <1>5, <1>6, <1>7, <1>8 DEF results

LEMMA AppendRouteKeeps ==
    ASSUME DeskInv, NEW c \in Cycle, AppendRoute(c)
    PROVE  DeskInv'
<1> DEFINE none == {}
           n == Len(run[c].routes)
<1>1. /\ cycle[c] \in Frame /\ run[c] \in RunDoc /\ run[c].routes \in Seq(Route) /\ n \in Nat
      /\ taken[c] \in Seq(Action)
      /\ CycleInv(c, cycle[c], run[c], taken[c], delivered)
      /\ cycle[c].step = "handler" /\ cycle[c].queue = <<>> /\ InIncident(cycle[c])
  BY DeskFacts DEF AppendRoute, At, InIncident
<1>2. /\ none \in SUBSET Delivery /\ delivered \cup none = delivered
      /\ \A d \in none : d.cycle = c
  OBVIOUS
<1>3. UNCHANGED <<clock, delivered, taken>>
  BY DEF AppendRoute
<1> HIDE DEF none
<1>4. ASSUME run' = [run EXCEPT ![c].routes = Append(@, Record(c))],
             cycle' = [cycle EXCEPT ![c] = Between("incident")]
      PROVE  DeskInv'
  <2> DEFINE f == Between("incident")
             routes == Append(run[c].routes, Record(c))
             doc == [run[c] EXCEPT !.routes = routes]
  <2>1. f \in Frame /\ f.step = "incident" /\ f.queue = <<>> /\ f.results = <<>>
    BY BetweenFacts DEF Steps
  <2>2. /\ routes \in Seq(Route) /\ Len(routes) = n + 1 /\ routes[n + 1] = Record(c)
        /\ \A i \in 1 .. n : routes[i] = run[c].routes[i]
    BY <1>1, RecordFacts, AppendProperties
  <2>3. DOMAIN routes = 1 .. n + 1 /\ DOMAIN run[c].routes = 1 .. n
    BY <1>1, <2>2, LenProperties
  <2>4. run' = [run EXCEPT ![c] = doc]
    BY <1>4
  <2> HIDE DEF routes, f
  <2>5. doc \in RunDoc /\ doc.status = run[c].status /\ doc.routes = routes
    BY <1>1, <2>2 DEF RunDoc
  <2> HIDE DEF doc
  <2>6. Flow(f, doc, taken[c])
    BY <1>1, <2>1, <2>2, <2>5, DeskAssumption DEF CycleInv, Flow, InIncident
  <2>7. Recorded(c, routes, delivered)
    <3>1. Recorded(c, run[c].routes, delivered)
      BY <1>1 DEF CycleInv
    <3> DEFINE Good(r, i) ==
          /\ Honest(c, i, r.handlers, delivered)
          /\ r.delivery_mode = "live" => \E k \in DOMAIN r.handlers : Shows(r.handlers[k])
          /\ r.artifacts => \E k \in DOMAIN r.handlers : Shows(r.handlers[k]) /\ r.handlers[k].id
          /\ r.domain = Classified(r.text)
          /\ Served(r.domain, <<>>, r.handlers)
    <3>2. Good(Record(c), n + 1)
      <4>1. Honest(c, n + 1, cycle[c].results, delivered)
        BY <1>1 DEF CycleInv
      <4>2. Served(Classified(cycle[c].text), <<>>, cycle[c].results)
        BY <1>1 DEF CycleInv
      <4> QED BY <4>1, <4>2, RecordFacts
    <3>3. \A i \in 1 .. n : Good(run[c].routes[i], i)
      BY <2>3, <3>1 DEF Recorded
    <3>4. \A i \in 1 .. n + 1 : i \in 1 .. n \/ i = n + 1
      BY <1>1
    <3>5. \A i \in DOMAIN routes : Good(routes[i], i)
      <4> HIDE DEF Good
      <4> QED BY <2>2, <2>3, <3>2, <3>3, <3>4
    <3> QED BY <3>5 DEF Recorded
  <2>8. \A d \in delivered : d.cycle = c => d.incident \in Nat /\ d.incident <= n + 1
    BY <1>1 DEF CycleInv, DeskInv, Typed, Delivery
  <2>9. Honest(c, n + 2, <<>>, delivered)
    BY <1>1, <2>8 DEF Honest
  <2>10. CycleInv(c, f, doc, taken[c], delivered \cup none)
    <3>1. Len(doc.routes) + 1 = n + 2
      BY <1>1, <2>2, <2>5
    <3>2. \A d \in delivered : d.cycle = c => d.incident <= Len(doc.routes) + 1
      BY <1>1, <2>8, <3>1
    <3>3. ~InIncident(f)
      BY <2>1 DEF InIncident
    <3> QED BY <1>2, <2>1, <2>5, <2>6, <2>7, <2>9, <3>1, <3>2, <3>3 DEF CycleInv
  <2>11. taken' = [taken EXCEPT ![c] = taken[c]] /\ delivered' = delivered \cup none
         /\ clock' = clock
    BY <1>2, <1>3 DEF DeskInv, Typed
  <2>12. cycle' = [cycle EXCEPT ![c] = f]
    BY <1>4 DEF f
  <2> QED BY <1>1, <1>2, <2>1, <2>4, <2>5, <2>10, <2>11, <2>12, MoveKeeps
<1>5. ASSUME UNCHANGED run, cycle' = [cycle EXCEPT ![c] = Between("ended")]
      PROVE  DeskInv'
  <2>1. /\ Between("ended") \in Frame /\ Between("ended").step = "ended"
        /\ Between("ended").queue = <<>> /\ Between("ended").results = <<>>
    BY BetweenFacts DEF Steps
  <2>2. CycleInv(c, Between("ended"), run[c], taken[c], delivered)
    BY <1>1, <2>1 DEF CycleInv, Flow, InIncident
  <2> QED BY <1>3, <1>5, <2>1, <2>2, GoKeeps
<1> QED BY <1>4, <1>5 DEF AppendRoute

LEMMA RemediateKeeps ==
    ASSUME DeskInv, NEW c \in Cycle, Remediate(c)
    PROVE  DeskInv'
<1> DEFINE next == IF DryRun THEN "complete" ELSE "limit"
           when == IF DryRun THEN cycle[c].now ELSE clock
           f == [cycle[c] EXCEPT !.step = next, !.now = when]
<1>1. /\ cycle[c] \in Frame /\ CycleInv(c, cycle[c], run[c], taken[c], delivered)
      /\ cycle[c].step = "incident" /\ clock \in Nat
      /\ Len(run[c].routes) = MaxIncidents
  BY DeskFacts DEF Remediate, At, DeskInv, Typed
<1>2. next \in {"complete", "limit"} /\ when \in Nat
  BY <1>1 DEF Frame
<1>3. cycle' = [cycle EXCEPT ![c] = f]
  <2>1. CASE DryRun
    <3>1. f = [cycle[c] EXCEPT !.step = "complete"]
      BY <1>1, <2>1 DEF Frame
    <3> QED BY <2>1, <3>1 DEF Remediate, Goto
  <2>2. CASE ~DryRun
    BY <2>2 DEF Remediate
  <2> QED BY <2>1, <2>2
<1> HIDE DEF next, when
<1>4. /\ f \in Frame /\ f.step = next /\ f.queue = cycle[c].queue
      /\ f.results = cycle[c].results
  BY <1>1, <1>2 DEF Frame, Steps
<1> HIDE DEF f
<1>5. CycleInv(c, f, run[c], taken[c], delivered)
  BY <1>1, <1>2, <1>4, DeskFacts, DeskAssumption DEF CycleInv, Flow, InIncident
<1> QED BY <1>3, <1>4, <1>5, GoKeeps DEF Remediate

LEMMA CompleteKeeps ==
    ASSUME DeskInv, NEW c \in Cycle, Complete(c)
    PROVE  DeskInv'
<1> DEFINE f == [cycle[c] EXCEPT !.step = "ended"]
           doc == [run[c] EXCEPT !.status = "complete"]
           none == {}
<1>1. /\ cycle[c] \in Frame /\ run[c] \in RunDoc /\ taken[c] \in Seq(Action)
      /\ CycleInv(c, cycle[c], run[c], taken[c], delivered) /\ cycle[c].step = "complete"
  BY DeskFacts DEF Complete, At
<1>2. /\ f \in Frame /\ f.step = "ended" /\ f.queue = cycle[c].queue
      /\ f.results = cycle[c].results
  BY <1>1 DEF Frame, Steps
<1>3. doc \in RunDoc /\ doc.status = "complete" /\ doc.routes = run[c].routes
  BY <1>1 DEF RunDoc
<1>4. cycle' = [cycle EXCEPT ![c] = f]
  BY DEF Complete, Goto
<1>5. /\ taken' = [taken EXCEPT ![c] = taken[c]] /\ clock' = clock
      /\ delivered' = delivered \cup none /\ delivered \cup none = delivered
      /\ none \in SUBSET Delivery /\ \A d \in none : d.cycle = c
  BY DEF Complete, DeskInv, Typed
<1>6. CASE run' = [run EXCEPT ![c].status = "complete"]
  <2>1. run' = [run EXCEPT ![c] = doc]
    BY <1>6
  <2> HIDE DEF f, doc, none
  <2>2. CycleInv(c, f, doc, taken[c], delivered \cup none)
    BY <1>1, <1>2, <1>3, <1>5 DEF CycleInv, Flow, InIncident
  <2> QED BY <1>1, <1>2, <1>3, <1>4, <1>5, <2>1, <2>2, MoveKeeps
<1>7. CASE UNCHANGED run
  <2> HIDE DEF f
  <2>1. CycleInv(c, f, run[c], taken[c], delivered)
    BY <1>1, <1>2 DEF CycleInv, Flow, InIncident
  <2> QED BY <1>2, <1>4, <1>5, <1>7, <2>1, GoKeeps DEF Complete
<1> QED BY <1>6, <1>7 DEF Complete

LEMMA InitDesk == Init => DeskInv
<1> SUFFICES ASSUME Init PROVE DeskInv
  OBVIOUS
<1> DEFINE f == Between("start")
           doc == [status |-> "none", routes |-> <<>>]
<1>1. /\ f \in Frame /\ f.step = "start" /\ f.queue = <<>> /\ f.results = <<>>
  BY BetweenFacts DEF Steps
<1>2. /\ doc \in RunDoc /\ doc.status = "none" /\ doc.routes = <<>> /\ Len(doc.routes) = 0
      /\ DOMAIN doc.routes = {}
  BY EmptySeq DEF RunDoc
<1>3. /\ cycle = [c \in Cycle |-> f] /\ run = [c \in Cycle |-> doc] /\ clock = 0
      /\ delivered = {} /\ taken = [c \in Cycle |-> <<>>]
  BY DEF Init
<1>4. <<>> \in Seq(Action) /\ MaxIncidents \in Nat
  BY EmptySeq, DeskAssumption
<1> HIDE DEF f, doc
<1>5. Typed
  BY <1>1, <1>2, <1>3, <1>4 DEF Typed
<1>7. ASSUME NEW c \in Cycle PROVE CycleInv(c, f, doc, <<>>, delivered)
  <2>1. Flow(f, doc, <<>>)
    BY <1>1, <1>2, <1>4 DEF Flow, InIncident
  <2>2. Recorded(c, doc.routes, delivered)
    BY <1>2 DEF Recorded
  <2>3. Honest(c, Len(doc.routes) + 1, f.results, delivered)
    BY <1>1, <1>3 DEF Honest
  <2> QED BY <1>1, <1>3, <2>1, <2>2, <2>3 DEF CycleInv, InIncident
<1> QED BY <1>3, <1>5, <1>7 DEF DeskInv

LEMMA NextDesk == DeskInv /\ [Next]_vars => DeskInv'
<1> SUFFICES ASSUME DeskInv, [Next]_vars PROVE DeskInv'
  OBVIOUS
<1>1. ASSUME NEW c \in Cycle, Advance(c) PROVE DeskInv'
  BY <1>1, ClassifyKeeps, NextHandlerKeeps, CheckLimiterKeeps, DeliverKeeps,
     AppendRouteKeeps, RemediateKeeps, CompleteKeeps DEF Advance
<1>2. CASE Tick
  BY <1>2 DEF Tick, DeskInv, Typed
<1>3. CASE UNCHANGED vars
  BY <1>3 DEF vars, DeskInv, Typed
<1> QED BY <1>1, <1>2, <1>3, StartKeeps DEF Next

------------------------------------------------------------------------------
(* The theorems. *)

\* A cycle past its start has a run, a complete run all its routes, and a cycle about to
\* deliver a handler waiting and an action allowed (demo.py:55-113).
THEOREM DeskTypes == Spec => []TypeOK
<1>1. ASSUME DeskInv PROVE TypeOK
  <2>1. ASSUME NEW c \in Cycle
        PROVE  /\ cycle[c].step \in Steps
               /\ cycle[c].step = "start" <=> run[c].status = "none"
               /\ run[c].status = "complete" => Len(run[c].routes) = MaxIncidents
               /\ cycle[c].step = "deliver" => cycle[c].queue # <<>> /\ taken[c] # <<>>
    BY <1>1, DeskFacts DEF CycleInv, Flow, Frame
  <2> QED BY <2>1 DEF TypeOK, At
<1> QED BY <1>1, InitDesk, NextDesk, PTL DEF Spec

\* A run record cannot imply a delivery that did not happen (router.py:263-266): "live" only
\* if a destination accepted this incident, an artifact only if one returned its identifier,
\* or GitHub is the one, whose answer without a number is shown as "#None" (sinks.py:150).
THEOREM RecordsAreTrue == Spec => []RecordsClaimOnlyDeliveries
<1>1. ASSUME DeskInv PROVE RecordsClaimOnlyDeliveries
  <2>1. ASSUME NEW c \in Cycle, NEW i \in DOMAIN run[c].routes
        PROVE  /\ run[c].routes[i].delivery_mode = "live" => Deliveries(c, i) # {}
               /\ run[c].routes[i].artifacts => \E d \in Deliveries(c, i) : Identified(d)
    <3> DEFINE r == run[c].routes[i]
    <3>1. /\ Honest(c, i, r.handlers, delivered)
          /\ r.delivery_mode = "live" => \E k \in DOMAIN r.handlers : Shows(r.handlers[k])
          /\ r.artifacts => \E k \in DOMAIN r.handlers : Shows(r.handlers[k]) /\ r.handlers[k].id
      BY <1>1, DeskFacts DEF CycleInv, Recorded
    <3> HIDE DEF r
    <3>2. r.delivery_mode = "live" => Deliveries(c, i) # {}
      BY <3>1 DEF Honest, Deliveries
    <3>3. r.artifacts => \E d \in Deliveries(c, i) : Identified(d)
      BY <3>1 DEF Honest, Deliveries
    <3> QED BY <3>2, <3>3 DEF r
  <2> QED BY <2>1 DEF RecordsClaimOnlyDeliveries
<1> QED BY <1>1, InitDesk, NextDesk, PTL DEF Spec

\* A delivery is denied only by an "error", when the answer was lost: what is recorded as
\* suppressed or as a no-op has not left the process (sinks.py:78-80, 113-115).
THEOREM DenialsAreErrors == Spec => []DeniedOnlyByError
<1>1. ASSUME DeskInv PROVE DeniedOnlyByError
  <2>1. ASSUME NEW c \in Cycle, NEW i \in DOMAIN run[c].routes, NEW d \in Deliveries(c, i)
        PROVE  \E r \in ToSet(run[c].routes[i].handlers) :
                  r.handler = d.handler /\ r.status \in {"fired", "error"}
    <3>1. Honest(c, i, run[c].routes[i].handlers, delivered)
      BY <1>1, DeskFacts DEF CycleInv, Recorded
    <3>2. PICK k \in DOMAIN run[c].routes[i].handlers :
             /\ run[c].routes[i].handlers[k].handler = d.handler
             /\ run[c].routes[i].handlers[k].status \in {"fired", "error"}
      BY <3>1 DEF Honest, Deliveries
    <3> QED BY <3>2 DEF ToSet
  <2> QED BY <2>1 DEF DeniedOnlyByError
<1> QED BY <1>1, InitDesk, NextDesk, PTL DEF Spec

\* The routing table asks for a ticket always, and for an alert where it matters: the default
\* one does, and an override that keeps to it.
RoutingAsks ==
    /\ \A d \in Domain : "ticket" \in ToSet(RouteFor(d))
    /\ \A d \in {"security", "finance"} : "alert" \in ToSet(RouteFor(d))

\* Classifier, routing table and handlers agree (router.py:72-77, 151-154): a recorded
\* incident that touches security or finance has been put to the alert handler, any incident
\* to the ticket handler, whatever an earlier handler of the route came to.
THEOREM RoutesAreServed == RoutingAsks => (Spec => []EveryRouteIsServed)
<1>1. ASSUME RoutingAsks, DeskInv PROVE EveryRouteIsServed
  <2>1. ASSUME NEW c \in Cycle, NEW i \in DOMAIN run[c].routes
        PROVE  LET r      == run[c].routes[i]
                   served == {h.handler : h \in ToSet(r.handlers)}
               IN  /\ "ticket" \in served
                   /\ r.text \cap {"security", "finance"} # {} => "alert" \in served
                   /\ "security" \in r.text => r.domain = "security"
    <3> DEFINE r == run[c].routes[i]
               served == {h.handler : h \in ToSet(r.handlers)}
    <3>1. r.domain = Classified(r.text) /\ Served(r.domain, <<>>, r.handlers)
      BY <1>1, DeskFacts DEF CycleInv, Recorded
    <3>2. r \in Route
      BY <1>1, DeskFacts
    <3> HIDE DEF r
    <3>3. r.text \in SUBSET (Domain \ {"unknown"}) /\ r.domain \in Domain
      BY <3>2 DEF Route, Saying
    <3>4. ToSet(<<>>) = {}
      BY EmptySeq DEF ToSet
    <3>5. ASSUME NEW n \in ToSet(RouteFor(r.domain)), CanHandle(n, r.domain)
          PROVE  n \in served
      <4>1. PICK k \in DOMAIN r.handlers : r.handlers[k].handler = n
        BY <3>1, <3>4, <3>5 DEF Served
      <4> QED BY <4>1 DEF ToSet
    <3> HIDE DEF served
    <3>6. "ticket" \in served
      BY <1>1, <3>3, <3>5 DEF RoutingAsks, CanHandle
    <3>7. r.text \cap {"security", "finance"} # {} => "alert" \in served
      <4>1. r.text \cap {"security", "finance"} # {} => r.domain \in {"security", "finance"}
        BY <3>1, <3>3, ClassifiedFacts
      <4> QED BY <1>1, <3>5, <4>1 DEF RoutingAsks, CanHandle
    <3>8. "security" \in r.text => r.domain = "security"
      BY <3>1, <3>3, ClassifiedFacts
    <3> QED BY <3>6, <3>7, <3>8 DEF r, served
  <2> QED BY <2>1 DEF EveryRouteIsServed
<1>2. ASSUME RoutingAsks PROVE Spec => []EveryRouteIsServed
  <2>1. DeskInv => EveryRouteIsServed
    BY <1>1, <1>2
  <2> QED BY <2>1, InitDesk, NextDesk, PTL DEF Spec
<1> QED BY <1>2
===============================================================================
