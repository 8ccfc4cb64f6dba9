------------------------------ MODULE LiveChain ------------------------------
(***************************************************************************)
(* The live half of src/arcsettle/chain.py: when it is on, what its        *)
(* configuration must be, and what its requests can come back with.  It is *)
(* read-only.  The chain is external: a sequence of blocks, the latest of  *)
(* which answers.  A request may also fail on the way, or at the node.     *)
(*                                                                         *)
(* An address is unset, malformed, zero, well formed but not the           *)
(* contract's own (wrong), or ok; a recipient may be anyone but zero.      *)
(***************************************************************************)
EXTENDS Integers, Sequences

CONSTANT Contract          \* per block: supply, effective reserves

VARIABLES
    environ,               \* the environment variables of the process
    block                  \* the latest block

use_chain ==
    /\ environ.rpc_url # "unset" /\ environ.settlement_address # "unset"
    /\ ~environ.offline

validate_chain_config_NotTheOracle ==
    /\ environ.rpc_url = "ok"
    /\ environ.settlement_address \notin {"unset", "malformed"}
    /\ environ.settler_address # "malformed"

validate_chain_config ==
    /\ environ.rpc_url = "ok"
    /\ environ.settlement_address \notin {"unset", "malformed"}
    /\ "malformed" \notin {environ.oracle_address, environ.settler_address}

Recipient == IF environ.settle_recipient # "unset"
             THEN environ.settle_recipient ELSE environ.settler_address

\* Without these a dry run raises before its request.
DryRunReady == validate_chain_config /\ Recipient \in {"wrong", "ok"}

\* What settle(to, amount) does at block b.  Called from anyone but the settler it is
\* refused.  Where there is no contract a call returns nothing, and does not revert.
RevertsAt(b, amount) ==
    /\ environ.settlement_address = "ok"
    /\ \/ environ.settler_address # "ok"
       \/ Contract[b].supply + amount > Contract[b].effective

\* What a node answers a dry run with: the call's result, or an error object for its
\* revert; or an error of its own, with a code or in some other shape.
DryRunAnswers(amount) ==
    {"error", "codeless", IF RevertsAt(block, amount) THEN "revert" ELSE "result"}

\* An error object is known by its code.  Whether its data names a custom error makes the
\* reason's wording, and nothing else: the caller records a refusal by RESERVE_GATE.
Refusal(answer) == answer \in {"revert", "error"}

DryRun(amount) ==
    {"raises"} \cup {IF Refusal(answer) THEN "RESERVE_GATE" ELSE "passes" :
                        answer \in DryRunAnswers(amount)}

\* The reads of _chain_snapshot, each a request of its own, in this order.
Reads_NumberLast ==
    <<"supply", "effective_reserves", "headroom">>
    \o (IF environ.oracle_address = "unset" THEN <<>>
        ELSE <<"reserves", "attested_at", "attestation_id">>)
    \o <<"block_number">>

Reads ==
    <<"block_number", "supply", "effective_reserves", "headroom">>
    \o IF environ.oracle_address = "unset" THEN <<>>
       ELSE <<"reserves", "attested_at", "attestation_id">>

\* A read of a contract that is not there comes back too short to decode.
Answers(name) ==
    CASE name = "block_number" -> TRUE
      [] name \in {"supply", "effective_reserves", "headroom"} -> environ.settlement_address = "ok"
      [] OTHER -> environ.oracle_address = "ok"
==============================================================================
