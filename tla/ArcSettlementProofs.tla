------------------------- MODULE ArcSettlementProofs -------------------------
(***************************************************************************)
(* Proofs about ArcSettlement, for every set of accounts and oracles, every*)
(* word size, delay and bound.                                             *)
(***************************************************************************)
EXTENDS ArcSettlement, FiniteSetTheorems, TLAPS

USE GateAssumption

\* Unchecked arithmetic never leaves the word, whatever it is given.
LEMMA WrapType ==
    \A x, y \in UInt : Wrap(x + y) \in UInt /\ Wrap(x - y) \in UInt
  BY SMT DEF Wrap, UInt

\* Unchecked arithmetic is the arithmetic of numbers when nothing overflows.
LEMMA WrapExact ==
    /\ \A x, y \in UInt : x + y <= UINT_MAX => Wrap(x + y) = x + y
    /\ \A x, y \in UInt : y <= x => Wrap(x - y) = x - y
  BY SMT DEF Wrap, UInt

LEMMA MonusType == \A x, y \in UInt : Monus(x, y) \in UInt
  BY SMT DEF Monus, UInt

LEMMA InitTypeOK == Init => TypeOK
  <1> SUFFICES ASSUME Init PROVE TypeOK
    OBVIOUS
  <1>1. \A r \in FirstReading : r \in Reading
    BY SMT DEF FirstReading, Reading, Statuses, UInt
  <1>2. feed \in [Oracle -> Reading]
    BY <1>1 DEF Init
  <1>3. /\ maxAttestationAge \in AgeRange
        /\ totalSupply \in UInt /\ pendingRedemptions \in UInt
        /\ redemptionDebtAttestationId \in Nat /\ now \in Nat
    BY SMT DEF Init, UInt, ValidMaxAge, AgeRange
  <1>4. balanceOf \in [Account -> UInt] /\ allowance \in [Account -> [Account -> UInt]]
    BY SMT DEF Init, UInt
  <1> QED
    BY <1>2, <1>3, <1>4 DEF Init, TypeOK

LEMMA SettleTypeOK ==
    ASSUME TypeOK, NEW caller \in Account, NEW to \in Account \cup {ZeroAddress},
           NEW amount \in Amount, Settle(caller, to, amount)
    PROVE  TypeOK'
  <1>1. to \in Account /\ amount \in UInt
    BY DEF Settle, SettleAccepts
  <1>2. totalSupply' \in UInt
    BY <1>1, SMT DEF Settle, SettleAccepts, TypeOK, UInt
  <1>3. pendingRedemptions' \in UInt
    BY DEF Settle, TypeOK, UInt
  <1>4. balanceOf' \in [Account -> UInt]
    BY <1>1, WrapType DEF Settle, TypeOK
  <1> QED
    BY <1>2, <1>3, <1>4
    DEF Settle, TypeOK, gateVars, adminVars, envVars

LEMMA RedeemTypeOK ==
    ASSUME TypeOK, NEW caller \in Account, NEW amount \in Amount, Redeem(caller, amount)
    PROVE  TypeOK'
  <1>1. amount \in UInt /\ feed[oracle] \in Reading
    BY DEF TypeOK
  <1>2. totalSupply' \in UInt
    BY <1>1, WrapType DEF Redeem, TypeOK
  <1>3. balanceOf' \in [Account -> UInt]
    BY <1>1, WrapType DEF Redeem, TypeOK
  <1>4. SeenId \in Nat
    BY <1>1 DEF SeenId, TypeOK, Reading
  <1>5. redemptionDebtAttestationId' \in Nat
    BY <1>4 DEF Redeem, TypeOK
  <1>6. pendingRedemptions' \in UInt
    BY <1>1, <1>4, SMT DEF Redeem, RedeemAccepts, NewDebt, TypeOK, UInt
  <1> QED
    BY <1>2, <1>3, <1>5, <1>6
    DEF Redeem, TypeOK, gateVars, adminVars, envVars

LEMMA MoveTypeOK ==
    ASSUME TypeOK, NEW from \in Account, NEW to \in Account \cup {ZeroAddress},
           NEW amount \in Amount, Move(from, to, amount),
           allowance' \in [Account -> [Account -> UInt]]
    PROVE  TypeOK'
  <1>1. to \in Account /\ amount \in UInt
    BY DEF Move
  <1> DEFINE debited == [balanceOf EXCEPT ![from] = Wrap(@ - amount)]
  <1>2. debited \in [Account -> UInt]
    BY <1>1, WrapType DEF TypeOK
  <1>3. balanceOf' = [debited EXCEPT ![to] = Wrap(@ + amount)]
    BY DEF Move, Moved
  <1>4. balanceOf' \in [Account -> UInt]
    <2> HIDE DEF debited
    <2> QED BY <1>1, <1>2, <1>3, WrapType
  <1> QED
    BY <1>4 DEF Move, TypeOK, gateVars, adminVars, debtVars, envVars

LEMMA TokenTypeOK == TypeOK /\ TokenNext => TypeOK'
  <1> SUFFICES ASSUME TypeOK, TokenNext PROVE TypeOK'
    OBVIOUS
  <1>1. ASSUME NEW caller \in Account, NEW to \in Account \cup {ZeroAddress},
               NEW amount \in Amount, Transfer(caller, to, amount)
        PROVE  TypeOK'
    BY <1>1, MoveTypeOK DEF Transfer, TypeOK
  <1>2. ASSUME NEW caller \in Account, NEW spender \in Account, NEW value \in Approval,
               Approve(caller, spender, value)
        PROVE  TypeOK'
    <2>1. value \in UInt
      OBVIOUS
    <2>2. allowance' \in [Account -> [Account -> UInt]]
      BY <1>2, <2>1 DEF Approve, TypeOK
    <2> QED
      BY <1>2, <2>2 DEF Approve, TypeOK, claimVars, adminVars, gateVars, debtVars, envVars
  <1>3. ASSUME NEW caller \in Account, NEW from \in Account,
               NEW to \in Account \cup {ZeroAddress}, NEW amount \in Amount,
               TransferFrom(caller, from, to, amount)
        PROVE  TypeOK'
    <2>1. amount \in UInt /\ allowance[from][caller] \in UInt
      BY DEF TypeOK
    <2>2. Wrap(allowance[from][caller] - amount) \in UInt
      BY <2>1, WrapType
    <2>3. allowance' \in [Account -> [Account -> UInt]]
      BY <1>3, <2>2 DEF TransferFrom, DrawnDown, TypeOK
    <2> QED
      BY <1>3, <2>3, MoveTypeOK DEF TransferFrom
  <1> QED
    BY <1>1, <1>2, <1>3 DEF TokenNext

LEMMA AdminTypeOK == TypeOK /\ AdminNext => TypeOK'
  <1> SUFFICES ASSUME TypeOK, NEW caller \in Account,
                      \/ \E settler \in Nominee, enabled \in BOOLEAN :
                            SetSettler(caller, settler, enabled)
                      \/ \E next \in Oracle \cup {ZeroAddress}, maxAge \in MaxAgeArg :
                            ProposeOracle(caller, next, maxAge)
                      \/ CommitOracle(caller)
                      \/ CancelOracle(caller)
                      \/ \E newOwner \in Nominee : TransferOwnership(caller, newOwner)
                      \/ AcceptOwnership(caller)
               PROVE  TypeOK'
    BY DEF AdminNext
  <1> USE DEF TypeOK, claimVars, adminVars, gateVars, debtVars, envVars
  <1>1. CASE \E settler \in Nominee, enabled \in BOOLEAN : SetSettler(caller, settler, enabled)
    BY <1>1 DEF SetSettler
  <1>2. CASE \E next \in Oracle \cup {ZeroAddress}, maxAge \in MaxAgeArg :
                ProposeOracle(caller, next, maxAge)
    <2>1. PICK next \in Oracle, maxAge \in MaxAgeArg : ProposeOracle(caller, next, maxAge)
      BY <1>2 DEF ProposeOracle
    <2>2. now + ORACLE_TIMELOCK \in Nat /\ maxAge \in AgeRange
      BY <2>1 DEF ProposeOracle, ValidMaxAge, AgeRange
    <2>3. proposal' \in [oracle : Oracle, maxAge : AgeRange, eta : Nat]
      BY <2>1, <2>2 DEF ProposeOracle
    <2> QED
      BY <2>1, <2>3 DEF ProposeOracle
  <1>3. CASE CommitOracle(caller)
    <2>1. proposal \in [oracle : Oracle, maxAge : AgeRange, eta : Nat]
      BY <1>3 DEF CommitOracle, NoProposal
    <2>2. oracle' \in Oracle /\ maxAttestationAge' \in AgeRange
      BY <1>3, <2>1 DEF CommitOracle
    <2> QED
      BY <1>3, <2>2 DEF CommitOracle
  <1>4. CASE CancelOracle(caller)
    BY <1>4 DEF CancelOracle
  <1>5. CASE \E newOwner \in Nominee : TransferOwnership(caller, newOwner)
    BY <1>5 DEF TransferOwnership
  <1>6. CASE AcceptOwnership(caller)
    BY <1>6 DEF AcceptOwnership
  <1> QED
    BY <1>1, <1>2, <1>3, <1>4, <1>5, <1>6

LEMMA EnvTypeOK == TypeOK /\ EnvNext => TypeOK'
  <1> SUFFICES ASSUME TypeOK, EnvNext PROVE TypeOK'
    OBVIOUS
  <1> USE DEF TypeOK, contractVars, claimVars, adminVars, gateVars, debtVars
  <1>1. CASE Tick
    BY <1>1 DEF Tick
  <1>2. ASSUME NEW o \in Oracle, NEW r \in Figure, NEW t \in Stamp,
               Publish(o, r, t) \/ Restate(o, r, t)
        PROVE  TypeOK'
    <2>1. feed[o] \in Reading /\ r \in UInt /\ t \in Nat
      OBVIOUS
    <2>2. ASSUME NEW id \in Nat
          PROVE  [status |-> feed[o].status, reserves |-> r, timestamp |-> t, id |-> id]
                   \in Reading
      BY <2>1 DEF Reading
    <2>3. feed[o].id \in Nat /\ feed[o].id + 1 \in Nat
      BY <2>1 DEF Reading
    <2>4. feed' \in [Oracle -> Reading]
      BY <1>2, <2>2, <2>3 DEF Publish, Restate
    <2> QED
      BY <1>2, <2>4 DEF Publish, Restate
  <1>3. ASSUME NEW o \in Oracle, NEW s \in Status, SetStatus(o, s)
        PROVE  TypeOK'
    <2>1. feed[o] \in Reading /\ s \in Statuses
      OBVIOUS
    <2>2. feed' \in [Oracle -> Reading]
      BY <1>3, <2>1 DEF SetStatus, Reading
    <2> QED
      BY <1>3, <2>2 DEF SetStatus
  <1> QED
    BY <1>1, <1>2, <1>3 DEF EnvNext

LEMMA NextTypeOK == TypeOK /\ [Next]_vars => TypeOK'
  <1> SUFFICES ASSUME TypeOK, [Next]_vars PROVE TypeOK'
    OBVIOUS
  <1>1. CASE GateNext
    BY <1>1, SettleTypeOK, RedeemTypeOK DEF GateNext
  <1>2. CASE TokenNext
    BY <1>2, TokenTypeOK
  <1>3. CASE AdminNext
    BY <1>3, AdminTypeOK
  <1>4. CASE EnvNext
    BY <1>4, EnvTypeOK
  <1>5. CASE UNCHANGED vars
    BY <1>5 DEF TypeOK, vars, claimVars, adminVars, gateVars, debtVars, envVars
  <1> QED
    BY <1>1, <1>2, <1>3, <1>4, <1>5 DEF Next

\* Every variable always holds a value of its Solidity type, and the freshness
\* bound in force or proposed never leaves its two limits.
THEOREM TypeCorrect == Spec => []TypeOK
  BY InitTypeOK, NextTypeOK, PTL DEF Spec

------------------------------------------------------------------------------
(* Conservation.  The claims of a holder are an interval, so that a credit  *)
(* adds to the claims in circulation a set of the amount's size.            *)

LEMMA ClaimsFinite ==
    ASSUME NEW f \in [Account -> UInt]
    PROVE  IsFiniteSet(Claims(f)) /\ Cardinality(Claims(f)) \in Nat
  <1>1. IsFiniteSet(1 .. UINT_MAX)
    BY FS_Interval
  <1>2. IsFiniteSet(Account \X (1 .. UINT_MAX))
    BY <1>1, FS_Product
  <1> QED
    BY <1>2, FS_Subset, FS_CardinalityType DEF Claims

\* The part of one holder's claims numbered from m + 1 to n.
LEMMA SliceSize ==
    ASSUME NEW a \in Account, NEW m \in Nat, NEW n \in Nat, m <= n
    PROVE  /\ IsFiniteSet({a} \X ((m + 1) .. n))
           /\ Cardinality({a} \X ((m + 1) .. n)) = n - m
  <1>1. IsFiniteSet({a}) /\ Cardinality({a}) = 1
    BY FS_Singleton
  <1>2. IsFiniteSet((m + 1) .. n) /\ Cardinality((m + 1) .. n) = n - m
    <2>1. m + 1 \in Int /\ n \in Int
      OBVIOUS
    <2>2. /\ IsFiniteSet((m + 1) .. n)
          /\ Cardinality((m + 1) .. n) = IF m + 1 > n THEN 0 ELSE n - (m + 1) + 1
      BY <2>1, FS_Interval, Zenon
    <2>3. (IF m + 1 > n THEN 0 ELSE n - (m + 1) + 1) = n - m
      OBVIOUS
    <2> HIDE GateAssumption
    <2> QED
      BY <2>2, <2>3, SMT
  <1>3. /\ IsFiniteSet({a} \X ((m + 1) .. n))
        /\ Cardinality({a} \X ((m + 1) .. n)) = 1 * (n - m)
    BY <1>1, <1>2, FS_Product, Zenon
  <1>4. 1 * (n - m) = n - m
    OBVIOUS
  <1> QED
    BY <1>3, <1>4, Zenon

LEMMA CreditAddsClaims ==
    ASSUME NEW f \in [Account -> UInt], NEW a \in Account, NEW k \in UInt,
           f[a] + k \in UInt
    PROVE  Cardinality(Claims([f EXCEPT ![a] = f[a] + k])) = Cardinality(Claims(f)) + k
  <1> DEFINE g == [f EXCEPT ![a] = f[a] + k]
             new == {a} \X ((f[a] + 1) .. (f[a] + k))
  <1> SUFFICES Cardinality(Claims(g)) = Cardinality(Claims(f)) + k
    OBVIOUS
  <1>1. f[a] \in Nat /\ k \in Nat /\ f[a] + k <= UINT_MAX
    BY DEF UInt
  <1>2. Claims(g) = Claims(f) \cup new
    <2>1. ASSUME NEW c \in Account \X (1 .. UINT_MAX)
          PROVE  c[2] <= g[c[1]] <=> (c[2] <= f[c[1]] \/ c \in new)
      <3>1. c[1] \in Account /\ c[2] \in 1 .. UINT_MAX /\ c = <<c[1], c[2]>>
        OBVIOUS
      <3>2. CASE c[1] = a
        <4>1. g[c[1]] = f[a] + k
          BY <3>2
        <4>2. c \in new <=> c[2] \in (f[a] + 1) .. (f[a] + k)
          BY <3>1, <3>2
        <4> QED
          BY <1>1, <3>1, <3>2, <4>1, <4>2
      <3>3. CASE c[1] # a
        BY <3>1, <3>3
      <3> QED
        BY <3>2, <3>3
    <2>2. new \subseteq Account \X (1 .. UINT_MAX)
      BY <1>1
    <2> QED
      BY <2>1, <2>2 DEF Claims
  <1>3. Claims(f) \cap new = {}
    BY <1>1 DEF Claims
  <1>4. IsFiniteSet(new) /\ Cardinality(new) = k
    <2>1. f[a] <= f[a] + k /\ f[a] + k \in Nat /\ (f[a] + k) - f[a] = k
      BY <1>1
    <2> QED
      BY <1>1, <2>1, SliceSize
  <1>5. IsFiniteSet(Claims(f)) /\ Cardinality(Claims(f)) \in Nat
    BY ClaimsFinite
  <1> HIDE DEF g, new
  <1>6. Cardinality(Claims(f) \cup new)
          = Cardinality(Claims(f)) + Cardinality(new) - Cardinality(Claims(f) \cap new)
    BY <1>4, <1>5, FS_Union
  <1>7. Cardinality(Claims(f) \cap new) = 0
    BY <1>3, FS_EmptySet
  <1> QED
    BY <1>1, <1>2, <1>4, <1>5, <1>6, <1>7

LEMMA DebitRemovesClaims ==
    ASSUME NEW f \in [Account -> UInt], NEW a \in Account, NEW k \in UInt, k <= f[a]
    PROVE  Cardinality(Claims([f EXCEPT ![a] = f[a] - k])) = Cardinality(Claims(f)) - k
  <1> DEFINE g == [f EXCEPT ![a] = f[a] - k]
  <1> SUFFICES Cardinality(Claims(g)) = Cardinality(Claims(f)) - k
    OBVIOUS
  <1>1. f[a] - k \in UInt /\ f[a] \in UInt /\ (f[a] - k) + k = f[a] /\ k \in Int
    BY DEF UInt
  <1>2. g \in [Account -> UInt] /\ g[a] = f[a] - k
    BY <1>1
  <1>3. f = [g EXCEPT ![a] = g[a] + k]
    BY <1>1, <1>2
  <1>4. Cardinality(Claims(g)) \in Nat
    BY <1>2, ClaimsFinite
  <1> HIDE DEF g
  <1>5. g[a] + k \in UInt
    BY <1>1, <1>2
  <1>6. Cardinality(Claims([g EXCEPT ![a] = g[a] + k])) = Cardinality(Claims(g)) + k
    BY <1>2, <1>5, CreditAddsClaims, Zenon
  <1>7. Cardinality(Claims(f)) = Cardinality(Claims(g)) + k
    BY <1>3, <1>6, Zenon
  <1> QED
    BY <1>1, <1>4, <1>7

\* No holder has more than what is in circulation.
LEMMA BalanceWithinClaims ==
    ASSUME NEW f \in [Account -> UInt], NEW a \in Account
    PROVE  f[a] <= Cardinality(Claims(f))
  <1>1. f[a] \in Nat /\ f[a] <= UINT_MAX
    BY DEF UInt
  <1> DEFINE own == {a} \X ((0 + 1) .. f[a])
  <1>2. own \subseteq Claims(f)
    BY <1>1 DEF Claims
  <1>3. Cardinality(own) = f[a]
    <2>1. 0 <= f[a] /\ f[a] - 0 = f[a]
      BY <1>1
    <2> QED
      BY <1>1, <2>1, SliceSize
  <1> HIDE DEF own
  <1> QED
    BY <1>2, <1>3, ClaimsFinite, FS_Subset

\* The invariant that carries conservation: the sum needs the types, since what
\* a word cannot hold would wrap.
Conserved == TypeOK /\ ClaimsConserved

LEMMA InitConserved == Init => Conserved
  <1> SUFFICES ASSUME Init PROVE ClaimsConserved
    BY InitTypeOK DEF Conserved
  <1>1. Claims(balanceOf) = {}
    BY DEF Init, Claims
  <1> QED
    BY <1>1, FS_EmptySet DEF Init, ClaimsConserved

LEMMA SettleConserves ==
    ASSUME Conserved, NEW caller \in Account, NEW to \in Account \cup {ZeroAddress},
           NEW amount \in Amount, Settle(caller, to, amount)
    PROVE  ClaimsConserved'
  <1>1. to \in Account /\ amount \in UInt /\ balanceOf \in [Account -> UInt]
        /\ totalSupply \in UInt
    BY DEF Settle, SettleAccepts, Conserved, TypeOK
  <1>2. balanceOf[to] <= totalSupply
    BY <1>1, BalanceWithinClaims DEF Conserved, ClaimsConserved
  <1>3. totalSupply + amount <= UINT_MAX
    BY DEF Settle, SettleAccepts
  <1>4. /\ balanceOf[to] + amount \in UInt
        /\ Wrap(balanceOf[to] + amount) = balanceOf[to] + amount
    <2>1. balanceOf[to] \in UInt
      BY <1>1
    <2>2. balanceOf[to] + amount <= UINT_MAX /\ balanceOf[to] + amount \in UInt
      BY <1>1, <1>2, <1>3, <2>1 DEF UInt
    <2> QED
      BY <1>1, <2>1, <2>2, WrapExact
  <1>5. balanceOf' = [balanceOf EXCEPT ![to] = balanceOf[to] + amount]
    BY <1>4 DEF Settle
  <1>6. Cardinality(Claims(balanceOf')) = Cardinality(Claims(balanceOf)) + amount
    BY <1>1, <1>4, <1>5, CreditAddsClaims
  <1>7. totalSupply' = totalSupply + amount
    BY DEF Settle
  <1> QED
    BY <1>6, <1>7 DEF Conserved, ClaimsConserved, Claims

LEMMA RedeemConserves ==
    ASSUME Conserved, NEW caller \in Account, NEW amount \in Amount, Redeem(caller, amount)
    PROVE  ClaimsConserved' /\ totalSupply' = totalSupply - amount
  <1>1. amount \in UInt /\ balanceOf \in [Account -> UInt] /\ totalSupply \in UInt
    BY DEF Conserved, TypeOK
  <1>2. amount <= balanceOf[caller] /\ balanceOf[caller] \in UInt
    BY <1>1 DEF Redeem, RedeemAccepts, UInt
  <1>3. balanceOf[caller] <= totalSupply
    BY <1>1, BalanceWithinClaims DEF Conserved, ClaimsConserved
  <1>4. totalSupply' = totalSupply - amount
    <2>1. amount <= totalSupply
      BY <1>1, <1>2, <1>3 DEF UInt
    <2> QED
      BY <1>1, <2>1, WrapExact DEF Redeem
  <1>5. balanceOf' = [balanceOf EXCEPT ![caller] = balanceOf[caller] - amount]
    BY <1>1, <1>2, WrapExact DEF Redeem
  <1>6. Cardinality(Claims(balanceOf')) = Cardinality(Claims(balanceOf)) - amount
    BY <1>1, <1>2, <1>5, DebitRemovesClaims
  <1> QED
    BY <1>4, <1>6 DEF Conserved, ClaimsConserved, Claims

LEMMA MoveConserves ==
    ASSUME Conserved, NEW from \in Account, NEW to \in Account \cup {ZeroAddress},
           NEW amount \in Amount, Move(from, to, amount)
    PROVE  ClaimsConserved'
  <1>1. /\ to \in Account /\ amount \in UInt /\ balanceOf \in [Account -> UInt]
        /\ totalSupply \in UInt /\ Cardinality(Claims(balanceOf)) = totalSupply
    BY DEF Move, Conserved, TypeOK, ClaimsConserved
  <1>2. amount <= balanceOf[from] /\ balanceOf[from] \in UInt
    BY <1>1 DEF Move, UInt
  <1> DEFINE debited == [balanceOf EXCEPT ![from] = balanceOf[from] - amount]
  <1>3. /\ Cardinality(Claims(debited)) = totalSupply - amount
        /\ debited \in [Account -> UInt]
    <2>1. Cardinality(Claims(debited)) = totalSupply - amount
      BY <1>1, <1>2, DebitRemovesClaims
    <2>2. balanceOf[from] - amount \in UInt
      BY <1>1, <1>2 DEF UInt
    <2> QED
      BY <1>1, <2>1, <2>2
  <1>4. Wrap(balanceOf[from] - amount) = balanceOf[from] - amount
    BY <1>1, <1>2, WrapExact
  <1>5. balanceOf' = [debited EXCEPT ![to] = Wrap(debited[to] + amount)]
    BY <1>4 DEF Move, Moved
  <1> HIDE DEF debited
  <1>6. debited[to] <= totalSupply - amount
    BY <1>1, <1>3, BalanceWithinClaims
  <1>7. /\ debited[to] + amount \in UInt
        /\ Wrap(debited[to] + amount) = debited[to] + amount
    <2>1. debited[to] \in UInt
      BY <1>1, <1>3
    <2>2. debited[to] + amount <= UINT_MAX /\ debited[to] + amount \in UInt
      BY <1>1, <1>6, <2>1 DEF UInt
    <2> QED
      BY <1>1, <2>1, <2>2, WrapExact
  <1>8. Cardinality(Claims(balanceOf')) = (totalSupply - amount) + amount
    <2>1. Cardinality(Claims([debited EXCEPT ![to] = debited[to] + amount]))
            = Cardinality(Claims(debited)) + amount
      BY <1>1, <1>3, <1>7, CreditAddsClaims
    <2>2. balanceOf' = [debited EXCEPT ![to] = debited[to] + amount]
      BY <1>5, <1>7
    <2> QED
      BY <1>3, <2>1, <2>2
  <1>9. (totalSupply - amount) + amount = totalSupply
    BY <1>1 DEF UInt
  <1>10. totalSupply' = totalSupply
    BY DEF Move
  <1> QED
    BY <1>8, <1>9, <1>10 DEF ClaimsConserved, Claims

LEMMA NextConserved == Conserved /\ [Next]_vars => Conserved'
  <1> SUFFICES ASSUME Conserved, [Next]_vars PROVE ClaimsConserved'
    BY NextTypeOK DEF Conserved
  <1>1. CASE GateNext
    BY <1>1, SettleConserves, RedeemConserves DEF GateNext
  <1>2. ASSUME UNCHANGED claimVars PROVE ClaimsConserved'
    BY <1>2 DEF claimVars, Conserved, ClaimsConserved, Claims
  <1>3. CASE TokenNext
    <2>1. CASE \E caller \in Account, to \in Account \cup {ZeroAddress}, amount \in Amount :
                  Transfer(caller, to, amount)
      BY <2>1, MoveConserves DEF Transfer
    <2>2. CASE \E caller, spender \in Account, value \in Approval :
                  Approve(caller, spender, value)
      BY <2>2, <1>2 DEF Approve
    <2>3. CASE \E caller, from \in Account, to \in Account \cup {ZeroAddress}, amount \in Amount :
                  TransferFrom(caller, from, to, amount)
      BY <2>3, MoveConserves DEF TransferFrom
    <2> QED
      BY <1>3, <2>1, <2>2, <2>3 DEF TokenNext
  <1>4. CASE AdminNext
    BY <1>2, <1>4 DEF AdminNext, SetSettler, ProposeOracle, CommitOracle, CancelOracle,
                      TransferOwnership, AcceptOwnership
  <1>5. CASE EnvNext
    BY <1>2, <1>5 DEF EnvNext, Tick, Publish, Restate, SetStatus, contractVars
  <1>6. CASE UNCHANGED vars
    BY <1>2, <1>6 DEF vars
  <1> QED
    BY <1>1, <1>3, <1>4, <1>5, <1>6 DEF Next

\* Balances always add up to totalSupply, whatever is transferred to whom and
\* however the unchecked writes are ordered.
THEOREM SupplyIsConserved == Spec => []ClaimsConserved
  <1>1. Conserved => ClaimsConserved
    BY DEF Conserved
  <1> QED
    BY <1>1, InitConserved, NextConserved, PTL DEF Spec

------------------------------------------------------------------------------
(* Redemption is always available.  redeem's only checked addition is the   *)
(* debt; it cannot overflow because claims and debt together fit a word.    *)

RedeemInv == Conserved /\ DebtFits

LEMMA NextDebtFits == RedeemInv /\ [Next]_vars => DebtFits'
  <1> SUFFICES ASSUME RedeemInv, [Next]_vars PROVE DebtFits'
    OBVIOUS
  <1> USE DEF DebtFits
  <1>1. ASSUME NEW caller \in Account, NEW to \in Account \cup {ZeroAddress},
               NEW amount \in Amount, Settle(caller, to, amount)
        PROVE  DebtFits'
    <2>1. /\ totalSupply \in UInt /\ pendingRedemptions \in UInt /\ amount \in UInt
          /\ feed[oracle].reserves \in UInt
      BY DEF RedeemInv, Conserved, TypeOK, Reading
    <2>2. amount # 0 /\ totalSupply + amount
            <= Monus(feed[oracle].reserves, IF Discharges THEN 0 ELSE pendingRedemptions)
      BY <1>1 DEF Settle, SettleAccepts
    <2>3. /\ totalSupply' = totalSupply + amount
          /\ pendingRedemptions' = IF Discharges THEN 0 ELSE pendingRedemptions
      BY <1>1 DEF Settle
    <2> QED
      BY <2>1, <2>2, <2>3 DEF Monus, UInt
  <1>2. ASSUME NEW caller \in Account, NEW amount \in Amount, Redeem(caller, amount)
        PROVE  DebtFits'
    <2>1. totalSupply \in UInt /\ pendingRedemptions \in UInt /\ amount \in UInt
      BY DEF RedeemInv, Conserved, TypeOK
    <2>2. totalSupply' = totalSupply - amount
      BY <1>2, RedeemConserves DEF RedeemInv
    <2>3. pendingRedemptions' = amount \/ pendingRedemptions' = pendingRedemptions + amount
      BY <1>2 DEF Redeem, NewDebt
    <2> QED
      BY <2>1, <2>2, <2>3 DEF RedeemInv, UInt
  <1>3. ASSUME UNCHANGED <<totalSupply, debtVars>> PROVE DebtFits'
    BY <1>3 DEF RedeemInv, debtVars
  <1>4. CASE TokenNext
    BY <1>3, <1>4 DEF TokenNext, Transfer, TransferFrom, Approve, Move, claimVars
  <1>5. CASE AdminNext
    BY <1>3, <1>5 DEF AdminNext, SetSettler, ProposeOracle, CommitOracle, CancelOracle,
                      TransferOwnership, AcceptOwnership, claimVars
  <1>6. CASE EnvNext
    BY <1>3, <1>6 DEF EnvNext, Tick, Publish, Restate, SetStatus, contractVars, claimVars
  <1>7. CASE UNCHANGED vars
    BY <1>3, <1>7 DEF vars, claimVars
  <1> QED
    BY <1>1, <1>2, <1>4, <1>5, <1>6, <1>7 DEF Next, GateNext

LEMMA RedeemInvAvails == RedeemInv => RedemptionAlwaysAvailable
  <1> SUFFICES ASSUME RedeemInv, feed[oracle].status # "malformed",
                      NEW a \in Account, NEW amount \in Amount \ {0}, amount <= balanceOf[a]
               PROVE  RedeemAccepts(a, amount)
    BY DEF RedemptionAlwaysAvailable
  <1>1. /\ totalSupply \in UInt /\ pendingRedemptions \in UInt /\ amount \in UInt
        /\ balanceOf \in [Account -> UInt] /\ balanceOf[a] \in UInt
    BY DEF RedeemInv, Conserved, TypeOK
  <1>2. balanceOf[a] <= totalSupply
    BY <1>1, BalanceWithinClaims DEF RedeemInv, Conserved, ClaimsConserved
  <1>3. amount <= UINT_MAX /\ pendingRedemptions + amount <= UINT_MAX
    BY <1>1, <1>2 DEF RedeemInv, DebtFits, UInt
  <1> QED
    BY <1>1, <1>3 DEF RedeemAccepts, NewDebt, UInt

\* Whatever the oracle answers or fails to answer, as long as its id decodes,
\* every holder can redeem any part of its balance in every state.
THEOREM RedemptionIsAvailable == Spec => []RedemptionAlwaysAvailable
  <1>1. Init => RedeemInv
    BY InitConserved DEF Init, RedeemInv, DebtFits
  <1>2. RedeemInv /\ [Next]_vars => RedeemInv'
    BY NextConserved, NextDebtFits DEF RedeemInv
  <1> QED
    BY <1>1, <1>2, RedeemInvAvails, PTL DEF Spec

------------------------------------------------------------------------------
(* The view and the gate compute the same headroom by different code.       *)

LEMMA HeadroomFromTypes == TypeOK => HeadroomIsExactlySettleable
  <1> SUFFICES ASSUME TypeOK, NEW s \in isSettler, NEW a \in Account,
                      NEW amount \in Amount \ {0}
               PROVE  SettleAccepts(s, a, amount)
                        <=> (ViewReturns /\ amount <= settleableHeadroom)
    BY DEF HeadroomIsExactlySettleable
  <1> DEFINE debt == IF Discharges THEN 0 ELSE pendingRedemptions
  <1>1. /\ totalSupply \in UInt /\ pendingRedemptions \in UInt /\ amount \in UInt
        /\ feed[oracle] \in Reading /\ feed[oracle].reserves \in UInt
        /\ redemptionDebtAttestationId \in Nat /\ feed[oracle].id \in Nat
        /\ amount > 0
    BY SMT DEF TypeOK, Reading, UInt
  <1>2. SettleAccepts(s, a, amount) <=>
           /\ feed[oracle].status = "ok" /\ Usable
           /\ totalSupply + amount <= Monus(feed[oracle].reserves, debt)
    <2>1. a # ZeroAddress
      OBVIOUS
    <2>2. Monus(feed[oracle].reserves, debt) <= UINT_MAX
      BY <1>1 DEF Monus, UInt
    <2>3. totalSupply + amount <= Monus(feed[oracle].reserves, debt)
             => totalSupply + amount <= UINT_MAX
      BY <1>1, <2>2 DEF UInt, Monus
    <2> QED
      BY <2>1, <2>3 DEF SettleAccepts
  <1>3. ~Usable => settleableHeadroom = 0
    BY <1>1 DEF settleableHeadroom, effectiveReserves, Monus, UInt
  <1>4. Usable => settleableHeadroom = Monus(Monus(feed[oracle].reserves, debt), totalSupply)
    BY <1>1 DEF settleableHeadroom, effectiveReserves, Discharges
  <1>5. Usable => (amount <= settleableHeadroom
                     <=> totalSupply + amount <= Monus(feed[oracle].reserves, debt))
    BY <1>1, <1>4 DEF Monus, UInt
  <1>6. Usable => (ViewReturns <=> feed[oracle].status = "ok")
    BY DEF ViewReturns
  <1> HIDE DEF debt
  <1>7. CASE Usable
    BY <1>2, <1>5, <1>6, <1>7, Zenon
  <1>8. CASE ~Usable
    <2>1. ~(amount <= settleableHeadroom)
      BY <1>1, <1>3, <1>8 DEF UInt
    <2> QED
      BY <1>2, <1>8, <2>1, Zenon
  <1> QED
    BY <1>7, <1>8

\* In every state the view's headroom is exactly what settle would accept, so
\* nobody who reads it is told of headroom the gate then refuses.
THEOREM HeadroomIsExact == Spec => []HeadroomIsExactlySettleable
  BY TypeCorrect, HeadroomFromTypes, PTL

------------------------------------------------------------------------------
(* While the oracle's id can be read, claims and redemptions never open     *)
(* headroom.  In an outage of the id they do, see the run "outage".         *)

IdAlwaysAnswered == \A o \in Oracle : feed[o].status # "noId"

LEMMA NextIdAnswered ==
    ASSUME "noId" \notin Status, TypeOK, IdAlwaysAnswered, [Next]_vars
    PROVE  IdAlwaysAnswered'
  <1> USE DEF IdAlwaysAnswered
  <1>1. ASSUME UNCHANGED feed PROVE IdAlwaysAnswered'
    BY <1>1
  <1>2. CASE GateNext
    BY <1>1, <1>2 DEF GateNext, Settle, Redeem, envVars
  <1>3. CASE TokenNext
    BY <1>1, <1>3 DEF TokenNext, Transfer, TransferFrom, Approve, Move, envVars
  <1>4. CASE AdminNext
    BY <1>1, <1>4 DEF AdminNext, SetSettler, ProposeOracle, CommitOracle, CancelOracle,
                      TransferOwnership, AcceptOwnership, envVars
  <1>5. CASE EnvNext
    <2>1. CASE Tick
      BY <1>1, <2>1 DEF Tick
    <2>2. ASSUME NEW o \in Oracle, NEW r \in Figure, NEW t \in Stamp,
                 Publish(o, r, t) \/ Restate(o, r, t)
          PROVE  IdAlwaysAnswered'
      BY <2>2 DEF Publish, Restate, TypeOK, Reading
    <2>3. ASSUME NEW o \in Oracle, NEW s \in Status, SetStatus(o, s)
          PROVE  IdAlwaysAnswered'
      BY <2>3 DEF SetStatus, TypeOK, Reading
    <2> QED
      BY <1>5, <2>1, <2>2, <2>3 DEF EnvNext
  <1>6. CASE UNCHANGED vars
    BY <1>1, <1>6 DEF vars, envVars
  <1> QED
    BY <1>2, <1>3, <1>4, <1>5, <1>6 DEF Next

LEMMA HeadroomStep ==
    ASSUME Conserved, IdAlwaysAnswered, [Next]_vars,
           <<claimVars, debtVars>>' # <<claimVars, debtVars>>
    PROVE  settleableHeadroom' <= settleableHeadroom
  <1>1. /\ totalSupply \in UInt /\ pendingRedemptions \in UInt
        /\ feed[oracle] \in Reading /\ feed[oracle].reserves \in UInt
        /\ redemptionDebtAttestationId \in Nat /\ feed[oracle].id \in Nat
        /\ feed[oracle].status # "noId"
    BY DEF Conserved, TypeOK, Reading, IdAlwaysAnswered
  <1>2. ASSUME NEW caller \in Account, NEW to \in Account \cup {ZeroAddress},
               NEW amount \in Amount, Settle(caller, to, amount)
        PROVE  settleableHeadroom' <= settleableHeadroom
    <2>1. /\ totalSupply' = totalSupply + amount /\ amount \in UInt
          /\ pendingRedemptions' = IF Discharges THEN 0 ELSE pendingRedemptions
          /\ UNCHANGED <<oracle, maxAttestationAge, feed, now, redemptionDebtAttestationId>>
      BY <1>2 DEF Settle, gateVars, envVars
    <2>2. Usable' <=> Usable
      BY <2>1 DEF Usable
    <2> QED
      BY <1>1, <2>1, <2>2 DEF settleableHeadroom, effectiveReserves, Monus, UInt, Discharges
  <1>3. ASSUME NEW caller \in Account, NEW amount \in Amount, Redeem(caller, amount)
        PROVE  settleableHeadroom' <= settleableHeadroom
    <2>1. totalSupply' = totalSupply - amount /\ amount \in UInt /\ amount <= totalSupply
      <3>1. totalSupply' = totalSupply - amount /\ amount \in UInt
        BY <1>3, RedeemConserves
      <3>2. amount <= balanceOf[caller] /\ balanceOf[caller] <= totalSupply
            /\ balanceOf[caller] \in UInt
        <4>1. balanceOf \in [Account -> UInt]
          BY DEF Conserved, TypeOK
        <4>2. amount <= balanceOf[caller]
          BY <1>3, <3>1, <4>1 DEF Redeem, RedeemAccepts, UInt
        <4> QED
          BY <4>1, <4>2, BalanceWithinClaims DEF Conserved, ClaimsConserved
      <3> QED
        BY <1>1, <3>1, <3>2 DEF UInt
    <2>2. UNCHANGED <<oracle, maxAttestationAge, feed, now>>
      BY <1>3 DEF Redeem, gateVars, envVars
    <2>3. Usable' <=> Usable
      BY <2>2 DEF Usable
    <2>4. SeenId = feed[oracle].id
      BY <1>1 DEF SeenId
    <2>5. CASE feed[oracle].id > redemptionDebtAttestationId
      <3>1. redemptionDebtAttestationId' = feed[oracle].id /\ pendingRedemptions' = amount
        BY <1>3, <2>4, <2>5 DEF Redeem, NewDebt
      <3> QED
        BY <1>1, <2>1, <2>2, <2>3, <2>5, <3>1
        DEF settleableHeadroom, effectiveReserves, Monus, UInt
    <2>6. CASE ~(feed[oracle].id > redemptionDebtAttestationId)
      <3>1. /\ redemptionDebtAttestationId' = redemptionDebtAttestationId
            /\ pendingRedemptions' = pendingRedemptions + amount
        BY <1>3, <2>4, <2>6 DEF Redeem, NewDebt
      <3> QED
        BY <1>1, <2>1, <2>2, <2>3, <2>6, <3>1
        DEF settleableHeadroom, effectiveReserves, Monus, UInt
    <2> QED
      BY <2>5, <2>6
  <1>4. ASSUME UNCHANGED <<totalSupply, debtVars, gateVars, envVars>>
        PROVE  settleableHeadroom' <= settleableHeadroom
    <2>1. Usable' <=> Usable
      BY <1>4 DEF Usable, gateVars, envVars
    <2>2. settleableHeadroom' = settleableHeadroom /\ settleableHeadroom \in Int
      BY <1>1, <1>4, <2>1
      DEF settleableHeadroom, effectiveReserves, Monus, UInt, debtVars, gateVars, envVars
    <2> QED
      BY <2>2
  <1>5. CASE TokenNext
    BY <1>4, <1>5 DEF TokenNext, Transfer, TransferFrom, Approve, Move, claimVars
  <1>6. CASE AdminNext
    BY <1>6 DEF AdminNext, SetSettler, ProposeOracle, CommitOracle, CancelOracle,
                TransferOwnership, AcceptOwnership, claimVars, debtVars
  <1>7. CASE EnvNext
    BY <1>7 DEF EnvNext, Tick, Publish, Restate, SetStatus, contractVars, claimVars, debtVars
  <1>8. CASE UNCHANGED vars
    BY <1>8 DEF vars, claimVars, debtVars
  <1> QED
    BY <1>2, <1>3, <1>5, <1>6, <1>7, <1>8 DEF Next, GateNext

\* While no oracle withholds its id, no call of a holder or a settler ever
\* raises the headroom: neither settling, nor redeeming, nor any sequence of both.
THEOREM HeadroomComesFromProof ==
    ASSUME "noId" \notin Status
    PROVE  Spec => HeadroomOnlyFromProof
  <1>1. Init => Conserved /\ IdAlwaysAnswered
    <2>1. \A r \in FirstReading : r.status = "ok"
      BY DEF FirstReading
    <2> QED
      BY <2>1, InitConserved DEF Init, IdAlwaysAnswered
  <1>2. Conserved /\ IdAlwaysAnswered /\ [Next]_vars => Conserved' /\ IdAlwaysAnswered'
    BY NextConserved, NextIdAnswered DEF Conserved
  <1>3. Conserved /\ IdAlwaysAnswered /\ [Next]_vars =>
           [<<claimVars, debtVars>>' # <<claimVars, debtVars>>
               => settleableHeadroom' <= settleableHeadroom]_vars
    BY HeadroomStep
  <1> QED
    BY <1>1, <1>2, <1>3, PTL DEF Spec, HeadroomOnlyFromProof
==============================================================================
