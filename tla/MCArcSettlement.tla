--------------------------- MODULE MCArcSettlement ---------------------------
(***************************************************************************)
(* ArcSettlementHistory for TLC.  Every run gives the constants its own    *)
(* values in its .cfg; here is what they share.                            *)
(***************************************************************************)
EXTENDS ArcSettlementHistory

\* The budget of the proof in force: one oracle, whose id is always answered.
Budget == INSTANCE ProofBudget WITH
    supply  <- totalSupply,
    charged <- totalSupply + NettedDebt,
    proven  <- feed[oracle].reserves

\* The gate spends each proof as ProofBudget says: settling is charged against
\* the proof in force, redeeming refunds nothing, a new proof starts afresh.
GateKeepsBudget == Budget!Spec
==============================================================================
