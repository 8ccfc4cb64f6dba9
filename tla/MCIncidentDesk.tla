--------------------------- MODULE MCIncidentDesk ----------------------------
(* Instances of IncidentDesk for TLC: what incidents say, and an environment *)
(* that routes infra incidents to a handler that does not exist and to one   *)
(* that does not take them, before the ticket.                               *)
EXTENDS IncidentDesk, TLC

MCText == {{"security", "finance"}, {"infra"}}

MCOverride == "infra" :> <<"pager", "alert", "ticket">>
==============================================================================
