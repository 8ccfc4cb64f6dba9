---------------------------- MODULE IncidentDesk -----------------------------
(***************************************************************************)
(* The delivery of incidents in src/agent_core: cycles that route each     *)
(* incident to handlers (router.py), which act through a notifier bound to *)
(* the cycle's run (sinks.py), wired as in demo.py.  Cycles run on threads *)
(* of one process and share the limiter, the store and the clock.          *)
(*                                                                         *)
(* Destinations are external: a request may be refused, accepted, or       *)
(* accepted with an answer that is lost or cannot be read.                 *)
(***************************************************************************)
EXTENDS Integers, Sequences, FiniteSets, FiniteSetsExt, SequencesExt

CONSTANTS
    Cycle,
    Text,                  \* what incidents say: sets of the signals they match
    Name,                  \* names an override may give
    Override,              \* AGENT_ROUTING_<domain>: handler names by domain
    slack_webhook_url,     \* whether each sink is configured
    github, ticket_endpoint,
    DryRun, MaxPerCycle, MaxPerHour,             \* the ActionPolicy
    HOUR, CYCLE_TTL_SECONDS, MAX_TRACKED_CYCLES,
    MaxIncidents, MaxClock                       \* bounds

Domain == {"security", "finance", "infra", "data_quality", "unknown"}

ASSUME DeskAssumption ==
    /\ Text \subseteq SUBSET (Domain \ {"unknown"})
    /\ DOMAIN Override \subseteq Domain
    /\ \A d \in DOMAIN Override : Override[d] \in Seq(Name)
    /\ {slack_webhook_url, github, ticket_endpoint, DryRun} \subseteq BOOLEAN
    /\ {MaxPerCycle, MaxPerHour, HOUR, CYCLE_TTL_SECONDS, MAX_TRACKED_CYCLES,
        MaxIncidents, MaxClock} \subseteq Nat

VARIABLES
    cycle,                 \* where each cycle is
    run,                   \* its run document
    recent, cycleCounts,   \* the limiter
    clock,                 \* time.time()
    delivered,             \* what destinations accepted
    taken                  \* history: actions allowed, and when

vars == <<cycle, run, recent, cycleCounts, clock, delivered, taken>>

Limiter == INSTANCE ActionLimiter

Steps == {"start", "incident", "handler", "limit", "deliver", "complete", "ended"}

\* A cycle between two incidents.
Between(step) == [step |-> step, text |-> {}, queue |-> <<>>, results |-> <<>>, now |-> 0]

Init ==
    /\ cycle = [c \in Cycle |-> Between("start")]
    /\ run = [c \in Cycle |-> [status |-> "none", routes |-> <<>>]]
    /\ Limiter!LimiterInit
    /\ clock = 0
    /\ delivered = {}
    /\ taken = [c \in Cycle |-> <<>>]

------------------------------------------------------------------------------
(* Classification and routing, router.py. *)

DEFAULT_SIGNALS == <<"security", "infra", "data_quality", "finance">>
Precedence == <<"security", "finance">>

\* Of the domains a text matches, the first by precedence, then in order of signals.
Classified(text) ==
    LET order == Precedence \o DEFAULT_SIGNALS
    IN  IF text = {} THEN "unknown" ELSE order[Min({i \in DOMAIN order : order[i] \in text})]

DEFAULT_ROUTING ==
    [d \in Domain |-> IF d \in {"finance", "security"} THEN <<"alert", "ticket">> ELSE <<"ticket">>]

RouteFor(d) == IF d \in DOMAIN Override /\ Override[d] # <<>> THEN Override[d] ELSE DEFAULT_ROUTING[d]

Registry == {"alert", "ticket"}

CanHandle_FinanceOnly(name, d) == name = "alert" => d = "finance"

CanHandle(name, d) == name = "alert" => d \in {"finance", "security"}

\* Does a handler's result show a delivery?  An unknown handler's has no "synthetic".
Shows_AnyNotSynthetic(result) == ~result.synthetic

Shows(result) == result.status = "fired" /\ ~result.synthetic

Result(name, status, synthetic, id) ==
    [handler |-> name, status |-> status, synthetic |-> synthetic, id |-> id]

\* The routing record.
Record(c) ==
    LET results == cycle[c].results
        shown   == {i \in DOMAIN results : Shows(results[i])}
    IN  [text          |-> cycle[c].text,
         domain        |-> Classified(cycle[c].text),
         handlers      |-> results,
         artifacts     |-> \E i \in shown : results[i].id,
         delivery_mode |-> IF shown = {} THEN "synthetic" ELSE "live"]

------------------------------------------------------------------------------
(* The sinks.  What a configured sink may come to: whether the destination    *)
(* accepted, what the caller makes of it, whether the answer told it an       *)
(* identifier, and whether it reports one.                                    *)

Outcome_FailureIsNoop(sink) ==
    [accepted : {TRUE}, status : {"fired"}, told : BOOLEAN, id : BOOLEAN]
        \cup [accepted : BOOLEAN, status : {"noop"}, told : {FALSE}, id : {FALSE}]

\* No URL comes back from Slack.  GitHub's answer is reported as "#" and its number,
\* "#None" if it tells none.
Outcome(sink) ==
    {[accepted |-> TRUE, status |-> "fired", told |-> told, id |-> told \/ sink = "github"] :
        told \in IF sink = "slack" THEN {FALSE} ELSE BOOLEAN}
    \cup [accepted : BOOLEAN, status : {"error"}, told : {FALSE}, id : {FALSE}]

\* Where a handler's action goes: GitHub before the endpoint; "stub" if nowhere.
Sink(name) ==
    IF name = "alert"
    THEN IF slack_webhook_url THEN "slack" ELSE "stub"
    ELSE IF github THEN "github" ELSE IF ticket_endpoint THEN "endpoint" ELSE "stub"

------------------------------------------------------------------------------
(* One cycle. *)

At(c, step) == cycle[c].step = step

Goto(c, step) == cycle' = [cycle EXCEPT ![c].step = step]

Handled(c, result) ==
    cycle' = [cycle EXCEPT ![c].step = "handler", ![c].now = 0, ![c].queue = Tail(@),
                           ![c].results = Append(@, result)]

Start(c) ==
    /\ At(c, "start")
    /\ run' = [run EXCEPT ![c].status = "started"]
    /\ Goto(c, "incident")
    /\ UNCHANGED <<recent, cycleCounts, clock, delivered, taken>>

Classify(c, text) ==
    /\ At(c, "incident") /\ Len(run[c].routes) < MaxIncidents
    /\ cycle' = [cycle EXCEPT ![c].step = "handler", ![c].text = text, ![c].results = <<>>,
                              ![c].queue = RouteFor(Classified(text))]
    /\ UNCHANGED <<run, recent, cycleCounts, clock, delivered, taken>>

\* The limiter reads the clock before it takes its lock.
ReadClock(c) ==
    IF DryRun THEN Handled(c, Result(Head(cycle[c].queue), "suppressed", TRUE, FALSE))
    ELSE cycle' = [cycle EXCEPT ![c].step = "limit", ![c].now = clock]

\* The next handler of the route: unknown, not for this domain, or executed.
NextHandler_StopsAtUnknown(c) ==
    /\ At(c, "handler") /\ cycle[c].queue # <<>>
    /\ LET name == Head(cycle[c].queue)
       IN  /\ name \in Registry
           /\ IF ~CanHandle(name, Classified(cycle[c].text))
              THEN cycle' = [cycle EXCEPT ![c].queue = Tail(@)]
              ELSE ReadClock(c)
    /\ UNCHANGED <<run, recent, cycleCounts, clock, delivered, taken>>

NextHandler(c) ==
    /\ At(c, "handler") /\ cycle[c].queue # <<>>
    /\ LET name == Head(cycle[c].queue)
       IN  IF name \notin Registry THEN Handled(c, Result(name, "error", FALSE, FALSE))
           ELSE IF ~CanHandle(name, Classified(cycle[c].text))
           THEN cycle' = [cycle EXCEPT ![c].queue = Tail(@)]
           ELSE ReadClock(c)
    /\ UNCHANGED <<run, recent, cycleCounts, clock, delivered, taken>>

\* check, and the record of its decision: the recorder's exceptions are swallowed, so
\* whether it was kept changes nothing else and is left out.  After its routes a cycle
\* asks for one more action, which no handler waits for.
CheckLimiter(c) ==
    /\ At(c, "limit")
    /\ \/ /\ Limiter!CheckAllows(c, cycle[c].now)
          /\ cycle' = [cycle EXCEPT ![c].step = IF cycle[c].queue = <<>> THEN "complete" ELSE "deliver",
                                    ![c].now = 0]
          /\ taken' = [taken EXCEPT ![c] = Append(@, [at |-> clock, fresh |-> cycle[c].now = clock])]
       \/ /\ Limiter!CheckBlocks(c, cycle[c].now)
          /\ IF cycle[c].queue = <<>> THEN cycle' = [cycle EXCEPT ![c] = Between("complete")]
             ELSE Handled(c, Result(Head(cycle[c].queue), "suppressed", TRUE, FALSE))
          /\ UNCHANGED taken
    /\ UNCHANGED <<run, clock, delivered>>

Deliver(c) ==
    /\ At(c, "deliver")
    /\ LET name == Head(cycle[c].queue)
       IN  IF Sink(name) = "stub"
           THEN \* a stub's ticket carries a local placeholder
                Handled(c, Result(name, "noop", TRUE, name = "ticket")) /\ UNCHANGED delivered
           ELSE \E o \in Outcome(Sink(name)) :
                   /\ Handled(c, Result(name, o.status, o.status # "fired", o.id))
                   /\ delivered' = IF ~o.accepted THEN delivered
                                   ELSE delivered \cup
                                     {[cycle |-> c, incident |-> Len(run[c].routes) + 1,
                                       handler |-> name, id |-> o.told]}
    /\ UNCHANGED <<run, recent, cycleCounts, clock, taken>>

\* store.append: if it raises, the cycle ends there.
AppendRoute(c) ==
    /\ At(c, "handler") /\ cycle[c].queue = <<>>
    /\ \/ /\ run' = [run EXCEPT ![c].routes = Append(@, Record(c))]
          /\ cycle' = [cycle EXCEPT ![c] = Between("incident")]
       \/ UNCHANGED run /\ cycle' = [cycle EXCEPT ![c] = Between("ended")]
    /\ UNCHANGED <<recent, cycleCounts, clock, delivered, taken>>

Remediate_AnyTime(c) ==
    /\ At(c, "incident")
    /\ IF DryRun THEN Goto(c, "complete")
       ELSE cycle' = [cycle EXCEPT ![c].step = "limit", ![c].now = clock]
    /\ UNCHANGED <<run, recent, cycleCounts, clock, delivered, taken>>

Remediate(c) ==
    /\ At(c, "incident") /\ Len(run[c].routes) = MaxIncidents
    /\ IF DryRun THEN Goto(c, "complete")
       ELSE cycle' = [cycle EXCEPT ![c].step = "limit", ![c].now = clock]
    /\ UNCHANGED <<run, recent, cycleCounts, clock, delivered, taken>>

\* The recurrence signature written first touches nothing kept here.
Complete(c) ==
    /\ At(c, "complete")
    /\ \/ run' = [run EXCEPT ![c].status = "complete"]
       \/ UNCHANGED run
    /\ Goto(c, "ended")
    /\ UNCHANGED <<recent, cycleCounts, clock, delivered, taken>>

Advance(c) ==
    \/ \E text \in Text : Classify(c, text)
    \/ NextHandler(c) \/ CheckLimiter(c) \/ Deliver(c) \/ AppendRoute(c)
    \/ Remediate(c) \/ Complete(c)

Tick ==
    /\ clock < MaxClock
    /\ clock' = clock + 1
    /\ UNCHANGED <<cycle, run, recent, cycleCounts, delivered, taken>>

Next == (\E c \in Cycle : Start(c) \/ Advance(c)) \/ Tick

\* A cycle once started is carried on by its thread; every request has a timeout.
Fairness == \A c \in Cycle : WF_vars(Advance(c))

Spec == Init /\ [][Next]_vars /\ Fairness

------------------------------------------------------------------------------
(* Properties. *)

\* A cycle past its start has a run, a complete run all its routes, and a cycle about to
\* deliver a handler waiting and an action allowed.
TypeOK ==
    \A c \in Cycle :
       /\ cycle[c].step \in Steps
       /\ At(c, "start") <=> run[c].status = "none"
       /\ run[c].status = "complete" => Len(run[c].routes) = MaxIncidents
       /\ At(c, "deliver") => cycle[c].queue # <<>> /\ taken[c] # <<>>

Deliveries(c, incident) == {d \in delivered : d.cycle = c /\ d.incident = incident}

\* A destination's identifier is reported; of GitHub's answer, one in any case.
Identified(d) == d.id \/ Sink(d.handler) = "github"

\* A run record cannot imply a delivery that did not happen (router.py:263-266):
\* "live" only if a destination accepted this incident, an artifact only if one
\* returned its identifier, or is GitHub, whose answer is taken for one.
RecordsClaimOnlyDeliveries ==
    \A c \in Cycle : \A i \in DOMAIN run[c].routes :
       /\ run[c].routes[i].delivery_mode = "live" => Deliveries(c, i) # {}
       /\ run[c].routes[i].artifacts => \E d \in Deliveries(c, i) : Identified(d)

\* The other way round, a delivery is denied only by an "error", when the answer was
\* lost: what is recorded as suppressed or as a no-op has not left the process
\* (sinks.py:78-80, 113-115).
DeniedOnlyByError ==
    \A c \in Cycle : \A i \in DOMAIN run[c].routes : \A d \in Deliveries(c, i) :
       \E r \in ToSet(run[c].routes[i].handlers) :
          r.handler = d.handler /\ r.status \in {"fired", "error"}

\* Classifier, routing table and handlers agree (router.py:72-77, 151-154): a recorded
\* incident that touches security or finance has been put to the alert handler, any
\* incident to the ticket handler, whatever an earlier handler of the route came to.
EveryRouteIsServed ==
    \A c \in Cycle : \A i \in DOMAIN run[c].routes :
       LET r      == run[c].routes[i]
           served == {h.handler : h \in ToSet(r.handlers)}
       IN  /\ "ticket" \in served
           /\ r.text \cap {"security", "finance"} # {} => "alert" \in served
           /\ "security" \in r.text => r.domain = "security"

\* The actions of a cycle allowed at these times.  One counts if its clock reading was
\* not overtaken by a tick while it waited for the lock.
Allowed(c, times) == {i \in DOMAIN taken[c] : taken[c][i].fresh /\ taken[c][i].at \in times}

\* A runaway loop is throttled across cycles (guardrails.py:191-194): in no hour, of
\* the real clock, are more actions allowed than the policy's.
HourlyCap ==
    \A T \in 0 .. MaxClock :
       Cardinality(UNION {{c} \X Allowed(c, T - HOUR + 1 .. T) : c \in Cycle}) <= MaxPerHour

\* Eviction never gives a run in use its quota back (guardrails.py:196-199).
CycleCap ==
    \A T \in 0 .. MaxClock, c \in Cycle :
       Cardinality(Allowed(c, T - CYCLE_TTL_SECONDS .. T)) <= MaxPerCycle

\* A started cycle ends, whatever destinations, recorder and store do.
EveryCycleEnds == \A c \in Cycle : run[c].status = "started" ~> At(c, "ended")
==============================================================================
