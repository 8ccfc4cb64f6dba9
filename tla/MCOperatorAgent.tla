--------------------------- MODULE MCOperatorAgent ---------------------------
(* Instances of OperatorAgent for TLC: environments a process is started in, *)
(* and a contract on a chain of two blocks.                                  *)
EXTENDS OperatorAgent

Unset == [shared |-> "unset", own |-> "unset"]

\* Nothing set: offline, on the store if it answers.
Offline ==
    [IN_MEMORY_STATE |-> Unset, REQUIRE_DURABLE_STATE |-> Unset, DRY_RUN |-> FALSE,
     offline |-> FALSE, rpc_url |-> "unset", settlement_address |-> "unset",
     oracle_address |-> "unset", settler_address |-> "unset", settle_recipient |-> "unset"]

OfflineInMemory == [Offline EXCEPT !.IN_MEMORY_STATE.shared = "yes"]

\* Offline by decree, told to submit nothing, and durable or not at all.
OfflineDryRun ==
    [Offline EXCEPT !.DRY_RUN = TRUE, !.offline = TRUE, !.rpc_url = "ok",
                    !.settlement_address = "ok", !.REQUIRE_DURABLE_STATE.shared = "yes"]

\* Live, with a settler and no oracle.
LiveMode ==
    [OfflineInMemory EXCEPT !.rpc_url = "ok", !.settlement_address = "ok",
                            !.settler_address = "ok"]

\* Live with a typo, told not to use memory where the shared variables say to.
LiveMisconfigured ==
    [LiveMode EXCEPT !.IN_MEMORY_STATE.own = "no", !.REQUIRE_DURABLE_STATE =
                        [shared |-> "no", own |-> "yes"],
                     !.oracle_address = "malformed"]

\* Live, with an oracle and nobody to settle to.
LiveNobody == [LiveMode EXCEPT !.settler_address = "unset", !.oracle_address = "ok"]

\* Live where there is no contract, and with some account for a settler.
LiveNowhere == [LiveMode EXCEPT !.settlement_address = "wrong", !.settler_address = "wrong"]

\* Live, with the zero address to settle to.
LiveBurn == [LiveMode EXCEPT !.settle_recipient = "zero"]

MCEnvironment ==
    {Offline, OfflineDryRun, LiveMode, LiveMisconfigured, LiveNobody, LiveNowhere, LiveBurn}

MCInMemory == {OfflineInMemory}

\* A settlement lands and is redeemed in part; one of 2 fits first, and then not.
MCContract == <<[supply |-> 0, effective |-> 3], [supply |-> 2, effective |-> 3]>>
==============================================================================
