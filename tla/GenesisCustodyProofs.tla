------------------------- MODULE GenesisCustodyProofs -------------------------
(***************************************************************************)
(* The money of genesis, for every number of depositors and every supply:  *)
(* where the layer around the bodies keeps the duties the sources give it, *)
(* the books and the balances agree, payouts are what the claims shrink    *)
(* by, and the ledger with its money implements the treasury.              *)
(***************************************************************************)
EXTENDS GenesisCustody, GenesisBallotProofs

(* The duties of the layer are observed; the balances of calls are those   *)
(* that exist.                                                             *)
ReadsReal == 0 .. BaseSupply \subseteq Reads
LayerKept == ConfigOnce /\ TokensReal /\ Layer = Duties /\ ReadsReal

------------------------------------------------------------------------------
(* Claims.                                                                 *)

(* What the ledger says of the claims, in one place.                       *)
ClaimFacts ==
  /\ IsFiniteSet(Users)
  /\ \A u \in Users : Remaining(u) \in Nat /\ Remaining(u) <= Outstanding
  /\ \A u \in Users : Remaining(u) <= Deposited
  /\ \A u \in Users : Remaining(u) = pos[u].amount - pos[u].withdrawn
  /\ \A u \in Users : pos[u].amount \in Nat /\ pos[u].withdrawn \in Nat
  /\ Outstanding = SumFunctionOnSet(Claims, Users)
  /\ Outstanding = Deposited - Withdrawn
  /\ Outstanding \in Nat /\ Outstanding <= BaseSupply
  /\ BaseSupply \in Nat /\ W \in Nat /\ BaseSupply < W
  /\ Deposited \in Nat /\ Deposited <= BaseSupply /\ Withdrawn \in Nat
  /\ cfg.total_deposited = Deposited /\ cfg.total_withdrawn = Withdrawn
  /\ ~Kicked => Withdrawn = 0
  /\ Kicked => Config \in accounts
  /\ Finalized => Kicked
  /\ cfg.kicked \in {0, 1} /\ cfg.finalized \in {0, 1}

(* The outstanding principal is the sum of the claims.                     *)
LEMMA ClaimsAddUp == SupplyInv => ClaimFacts
<1> SUFFICES ASSUME SupplyInv PROVE ClaimFacts
  OBVIOUS
<1>0. LedgerTypeOK /\ LifecycleInv /\ Deposited <= BaseSupply
  BY DEF SupplyInv, PoolInv, LifecycleInv
<1>1. /\ IsFiniteSet(Users)
      /\ \A u \in Users : Paid[u] \in Nat /\ Left[u] \in Nat
      /\ Deposited = SumFunctionOnSet(Paid, Users)
      /\ Withdrawn = SumFunctionOnSet(Left, Users)
  BY <1>0, PoolSums
<1>2. ASSUME NEW u \in Users
      PROVE  /\ Remaining(u) = pos[u].amount - pos[u].withdrawn
             /\ pos[u].amount \in Nat /\ pos[u].withdrawn \in Nat
             /\ Remaining(u) \in Nat
             /\ Paid[u] = pos[u].amount /\ Left[u] = pos[u].withdrawn
  <2>1. /\ pos[u].amount \in 0 .. W - 1
        /\ pos[u].withdrawn \in 0 .. pos[u].amount
        /\ Remaining(u) = pos[u].amount - pos[u].withdrawn
    BY <1>0, ClaimOfSolvent
  <2> QED
    BY <2>1, WordAssumption DEF Paid, Left
<1>3. \A u \in Users : Claims[u] = Remaining(u)
  BY DEF Claims
<1>4. \A u \in Users : Claims[u] \in Int /\ Left[u] \in Int
                       /\ Paid[u] = Claims[u] + Left[u]
  BY <1>2, <1>3
<1>5. SumFunctionOnSet(Paid, Users)
        = SumFunctionOnSet(Claims, Users) + SumFunctionOnSet(Left, Users)
  BY <1>1, <1>4, SumAdd
<1>6. /\ cfg.total_deposited = Deposited
      /\ cfg.total_withdrawn = Withdrawn
      /\ Deposited \in Nat /\ Withdrawn \in Nat
      /\ Outstanding = Deposited - Withdrawn
  BY ExactTotals
<1>7. \A u \in Users : Claims[u] \in Nat
  BY <1>2, <1>3
<1>8. /\ SumFunctionOnSet(Claims, Users) \in Nat
      /\ \A u \in Users : Claims[u] <= SumFunctionOnSet(Claims, Users)
  BY <1>1, <1>7, SumNat
<1>9. Outstanding = SumFunctionOnSet(Claims, Users)
  BY <1>1, <1>5, <1>6, <1>8
<1>10. BaseSupply \in Nat /\ W \in Nat /\ BaseSupply < W
  BY SupplyAssumption, WordAssumption DEF Word
<1>11. ~Kicked => Withdrawn = 0
  <2> SUFFICES ASSUME ~Kicked PROVE Withdrawn = 0
    OBVIOUS
  <2>1. \A u \in Users : Left[u] = 0
    BY <1>0 DEF LifecycleInv, PhasesConsistent, Left
  <2> QED
    BY <1>1, <2>1, SumZero
<1>12. /\ Kicked => Config \in accounts
       /\ Finalized => Kicked
       /\ cfg.kicked \in {0, 1} /\ cfg.finalized \in {0, 1}
  BY <1>0 DEF LifecycleInv, PhasesConsistent, LedgerTypeOK, GenesisConfig
<1>13. \A u \in Users : Remaining(u) <= Outstanding /\ Remaining(u) <= Deposited
  BY <1>2, <1>3, <1>6, <1>8, <1>9
<1>14. Outstanding \in Nat /\ Outstanding <= BaseSupply
  BY <1>0, <1>6, <1>8, <1>9, <1>10
<1> QED
  BY <1>0, <1>1, <1>2, <1>6, <1>9, <1>10, <1>11, <1>12, <1>13, <1>14
  DEF ClaimFacts

(* The same after a step.                                                  *)
LEMMA ClaimsAddUpAfter == SupplyInv' => ClaimFacts'
BY ClaimsAddUp, PTL

(* The claim of u shrinks by x and no other moves.                         *)
ClaimShrinks(u, x) ==
  /\ Remaining(u)' = Remaining(u) - x
  /\ \A y \in Users \ {u} : Remaining(y)' = Remaining(y)

(* Then the outstanding principal shrinks by as much.                      *)
LEMMA OutstandingShrinks ==
  ASSUME ClaimFacts, ClaimFacts', NEW u \in Users, NEW x \in Int,
         ClaimShrinks(u, x)
  PROVE  Outstanding' = Outstanding - x
<1> DEFINE f == Claims
           g == [y \in Users |-> Remaining(y)']
<1>1. /\ \A y \in Users : f[y] \in Int /\ g[y] \in Int
      /\ f[u] \in Int
      /\ g[u] = f[u] - x
      /\ \A y \in Users \ {u} : g[y] = f[y]
  BY DEF ClaimShrinks, ClaimFacts, Claims
<1>2. SameBut(f, g, {u}, Users)
  BY <1>1 DEF SameBut
<1>3. Claims' = g
  BY DEF Claims
<1>4. /\ Outstanding = SumFunctionOnSet(f, Users)
      /\ Outstanding' = SumFunctionOnSet(g, Users)
      /\ IsFiniteSet(Users) /\ Outstanding \in Nat
  BY <1>3 DEF ClaimFacts
<1> HIDE DEF f, g
<1>5. SumFunctionOnSet(g, Users) = (SumFunctionOnSet(f, Users) - f[u]) + g[u]
  BY <1>2, <1>4, SumChange
<1> QED
  BY <1>1, <1>4, <1>5

(* What an exit retires: all after the end, what was pulled or what is     *)
(* there before.                                                           *)
Retired(u, r, v) ==
  IF Finalized THEN Remaining(u)
  ELSE IF Kicked THEN WMin(r, Remaining(u))
  ELSE WMin(v, Remaining(u))

(* An exit shrinks the claim by exactly that.                              *)
LEMMA ExitShrinks ==
  ASSUME SupplyInv, SupplyInv', NEW u \in Users, NEW r \in Reads, NEW v \in Reads,
         genesis_withdraw(u, r, v)
  PROVE  /\ ClaimShrinks(u, Retired(u, r, v))
         /\ Retired(u, r, v) \in 0 .. Remaining(u)
         /\ Kicked' = Kicked /\ Finalized' = Finalized
         /\ Kicked => cfg'.total_deposited = cfg.total_deposited
         /\ accounts' = accounts /\ status' = STATUS_OK
<1>0. /\ LedgerTypeOK /\ LifecycleInv /\ ClaimFacts /\ ClaimFacts'
      /\ r \in Word /\ v \in Word
  BY ClaimsAddUp, ClaimsAddUpAfter, InputAssumption
  DEF SupplyInv, PoolInv, LifecycleInv
<1> DEFINE m == Remaining(u)
           a == Retired(u, r, v)
<1>1. /\ pos[u].amount \in 0 .. W - 1
      /\ pos[u].withdrawn \in 0 .. pos[u].amount
      /\ m = pos[u].amount - pos[u].withdrawn
      /\ m \in Word
  BY <1>0, ClaimOfSolvent, RemainingType
<1>2. a \in Word /\ a \in 0 .. m
  BY <1>0, <1>1, WMinType, WordAssumption DEF Retired, Word
<1>3. \/ Kicked /\ Retire(u, a)
      \/ ~Kicked /\ ExitBeforeKick(u, a)
  <2>1. Finalized => Kicked
    BY <1>0 DEF ClaimFacts
  <2> QED
    BY <2>1 DEF genesis_withdraw, Retired
<1> HIDE DEF a, m
<1>4. /\ WAdd(pos[u].withdrawn, a) = pos[u].withdrawn + a
      /\ WSub(pos[u].amount, a) = pos[u].amount - a
  BY <1>1, <1>2, WordAssumption DEF WAdd, WSub, Word, m
<1>5. /\ pos'[u].amount - pos'[u].withdrawn
           = (pos[u].amount - pos[u].withdrawn) - a
      /\ \A y \in Users \ {u} : pos'[y] = pos[y]
  <2>1. pos \in [Users -> GenesisPosition]
    BY <1>0 DEF LedgerTypeOK
  <2>2. CASE Kicked /\ Retire(u, a)
    <3>1. /\ pos'[u].amount = pos[u].amount
          /\ pos'[u].withdrawn = pos[u].withdrawn + a
          /\ \A y \in Users \ {u} : pos'[y] = pos[y]
      BY <1>4, <2>1, <2>2 DEF Retire, GenesisPosition
    <3> QED
      BY <1>1, <1>2, <3>1, WordAssumption DEF Word
  <2>3. CASE ~Kicked /\ ExitBeforeKick(u, a)
    <3>1. /\ pos'[u].amount = pos[u].amount - a
          /\ pos'[u].withdrawn = pos[u].withdrawn
          /\ \A y \in Users \ {u} : pos'[y] = pos[y]
      BY <1>4, <2>1, <2>3 DEF ExitBeforeKick, GenesisPosition
    <3> QED
      BY <1>1, <1>2, <3>1, WordAssumption DEF Word
  <2> QED
    BY <1>3, <2>2, <2>3
<1>6. ClaimShrinks(u, a)
  <2>1. \A y \in Users : /\ Remaining(y) = pos[y].amount - pos[y].withdrawn
                         /\ Remaining(y)' = pos'[y].amount - pos'[y].withdrawn
    BY <1>0 DEF ClaimFacts
  <2> QED
    BY <1>5, <2>1 DEF ClaimShrinks
<1>7. /\ Kicked' = Kicked /\ Finalized' = Finalized
      /\ Kicked => cfg'.total_deposited = cfg.total_deposited
  <2>1. cfg \in GenesisConfig
    BY <1>0 DEF LedgerTypeOK
  <2> QED
    BY <1>3, <2>1 DEF Retire, ExitBeforeKick, Kicked, Finalized, GenesisConfig
<1>8. accounts' = accounts /\ status' = STATUS_OK
  BY DEF genesis_withdraw
<1> QED
  BY <1>2, <1>6, <1>7, <1>8 DEF a, m

(* A deposit is refused, or adds to one claim.                             *)
LEMMA DepositGrows ==
  ASSUME TokensReal, SupplyInv, SupplyInv', NEW u \in Users, NEW a \in Amounts,
         NEW now \in Slots, genesis_deposit(u, a, now)
  PROVE  \/ ledger' = ledger /\ status' # STATUS_OK /\ DepositsClosed
         \/ /\ ~Kicked /\ ~Finalized /\ ~Kicked' /\ ~Finalized'
            /\ Config \in accounts /\ accounts' = accounts
            /\ status' = STATUS_OK
            /\ ClaimShrinks(u, -a)
            /\ Deposited' = Deposited + a
            /\ a \in Nat
<1>0. /\ LedgerTypeOK /\ LedgerTypeOK' /\ LifecycleInv /\ ClaimFacts /\ ClaimFacts'
      /\ a \in Word
  BY ClaimsAddUp, ClaimsAddUpAfter, InputAssumption
  DEF SupplyInv, PoolInv, LifecycleInv
<1>1. CASE DepositsClosed
  BY <1>1 DEF genesis_deposit, Refuse, STATUS_OK, STATUS_DEPOSITS_CLOSED
<1>2. CASE ~DepositsClosed
  <2>1. /\ cfg' = [cfg EXCEPT !.total_deposited = WAdd(@, a)]
        /\ pos' = [pos EXCEPT ![u].amount = WAdd(@, a), ![u].start_slot = now]
        /\ Transferable(a) /\ Config \in accounts /\ accounts' = accounts
        /\ status' = STATUS_OK
    BY <1>2 DEF genesis_deposit
  <2>2. WAdd(pos[u].amount, a) = (pos[u].amount + a) % W
    BY <1>0, WordModulo DEF LedgerTypeOK, GenesisPosition
  <2>3. AmountMoves(u, a)
    BY <1>0, <2>1, <2>2 DEF AmountMoves, LedgerTypeOK, GenesisPosition
  <2>4. PoolIn(u, a)
    BY <1>0, <2>1, <2>3 DEF PoolIn, LedgerTypeOK, GenesisConfig
  <2>5. Deposited' = Deposited + a /\ pos'[u].amount = pos[u].amount + a
    BY <1>0, <2>4, DepositFits
  <2>6. \A y \in Users : /\ Remaining(y) = pos[y].amount - pos[y].withdrawn
                         /\ Remaining(y)' = pos'[y].amount - pos'[y].withdrawn
                         /\ pos[y].amount \in Nat /\ pos[y].withdrawn \in Nat
    BY <1>0 DEF ClaimFacts
  <2>7. a \in Nat
    BY <1>0, WordAssumption DEF Word
  <2>8. ClaimShrinks(u, -a)
    <3>1. /\ pos'[u].withdrawn = pos[u].withdrawn
          /\ \A y \in Users \ {u} : /\ pos'[y].amount = pos[y].amount
                                    /\ pos'[y].withdrawn = pos[y].withdrawn
      BY <2>3 DEF AmountMoves
    <3> QED
      BY <2>5, <2>6, <2>7, <3>1 DEF ClaimShrinks
  <2>9. ~Kicked /\ ~Finalized /\ ~Kicked' /\ ~Finalized'
    BY <1>0, <1>2, <2>1
    DEF DepositsClosed, Kicked, Finalized, LedgerTypeOK, GenesisConfig
  <2> QED
    BY <2>1, <2>5, <2>7, <2>8, <2>9
<1> QED
  BY <1>1, <1>2

------------------------------------------------------------------------------
(* Shares of a vault that has lost money.                                  *)

(* A factor can be cancelled.                                              *)
LEMMA Cancel ==
  ASSUME NEW x \in Int, NEW y \in Int, NEW k \in Nat \ {0}
  PROVE  x * k <= y * k => x <= y
<1> SUFFICES ASSUME x * k <= y * k, x > y PROVE FALSE
  OBVIOUS
<1> DEFINE d == (x - y) - 1
<1>1. d \in Nat /\ x = (y + d) + 1
  OBVIOUS
<1>2. ((y + d) + 1) * k = (y * k + d * k) + k
  BY <1>1
<1>3. d * k \in Nat /\ y * k \in Int
  BY <1>1
<1> HIDE DEF d
<1> QED
  BY <1>1, <1>2, <1>3

(* Multiplication by a natural number keeps the order.                     *)
LEMMA TimesMonotonic ==
  ASSUME NEW x \in Nat, NEW y \in Nat, NEW k \in Nat
  PROVE  x <= y => x * k <= y * k /\ k * x <= k * y
<1> SUFFICES ASSUME x <= y PROVE x * k <= y * k /\ k * x <= k * y
  OBVIOUS
<1>1. PICK d \in Nat : y = x + d
  <2>1. y - x \in Nat /\ y = x + (y - x)
    OBVIOUS
  <2> QED
    BY <2>1
<1>2. (x + d) * k = x * k + d * k /\ k * (x + d) = k * x + k * d
  OBVIOUS
<1>3. d * k \in Nat /\ k * d \in Nat /\ x * k \in Nat /\ k * x \in Nat
  OBVIOUS
<1> QED
  BY <1>1, <1>2, <1>3

(* A quotient is the largest number that multiplies back to no more.       *)
LEMMA Quotient ==
  ASSUME NEW a \in Nat, NEW b \in Nat \ {0}
  PROVE  /\ a \div b \in Nat /\ (a \div b) * b <= a
         /\ \A n \in Nat : n * b <= a => n <= a \div b
<1> DEFINE q == a \div b
           r == a % b
<1>1. q \in Int /\ r \in 0 .. b - 1 /\ a = b * q + r
  BY DivMod
<1> HIDE DEF q, r
<1>2. q >= 0
  <2> SUFFICES ASSUME q <= -1 PROVE FALSE
    BY <1>1
  <2>1. q * b <= (-1) * b
    <3> DEFINE m == -1
               k == -q
    <3>1. k \in Nat /\ 1 <= k /\ k * b = -(q * b)
      BY <1>1
    <3> HIDE DEF k
    <3>2. 1 * b <= k * b
      BY <3>1, TimesMonotonic
    <3> QED
      BY <1>1, <3>1, <3>2
  <2> QED
    BY <1>1, <2>1
<1>3. q * b <= a
  BY <1>1
<1>4. ASSUME NEW n \in Nat, n * b <= a
      PROVE  n <= q
  <2>1. n * b <= q * b + r /\ r < b
    BY <1>1, <1>4
  <2>2. (q + 1) * b = q * b + b
    BY <1>1
  <2> DEFINE p == q + 1
  <2>3. p \in Nat /\ ~(p * b <= n * b)
    BY <1>1, <1>2, <2>1, <2>2
  <2>4. p = q + 1
    OBVIOUS
  <2> HIDE DEF p
  <2>5. ~(p <= n)
    BY <2>3, TimesMonotonic
  <2> QED
    BY <1>1, <2>3, <2>4, <2>5
<1> QED
  BY <1>1, <1>2, <1>3, <1>4 DEF q

(* The share of a claim r in a vault v under outstanding claims o.         *)
Portion(r, v, o) == IF v >= o THEN r ELSE (r * v) \div o

(* genesis_recoverable_principal is that share for every claim within the  *)
(* outstanding principal, the empty one included.                          *)
LEMMA ShareIsPortion ==
  ASSUME NEW r \in Nat, NEW v \in Nat, NEW o \in Nat
  PROVE  r <= o =>
           /\ Math!genesis_recoverable_principal(r, v, o) = {Portion(r, v, o)}
           /\ Math!unwrap_or(Math!genesis_recoverable_principal(r, v, o), 0)
                = Portion(r, v, o)
<1> SUFFICES ASSUME r <= o
             PROVE  /\ Math!genesis_recoverable_principal(r, v, o)
                         = {Portion(r, v, o)}
                    /\ Math!unwrap_or(
                         Math!genesis_recoverable_principal(r, v, o), 0)
                         = Portion(r, v, o)
  OBVIOUS
<1>1. Math!genesis_recoverable_principal(r, v, o) = {Portion(r, v, o)}
  <2>1. CASE r = 0
    <3>1. Portion(r, v, o) = 0
      <4>1. CASE v >= o
        BY <2>1, <4>1 DEF Portion
      <4>2. CASE v < o
        <5>1. o \in Nat \ {0} /\ 0 * v = 0 /\ 0 \div o = 0
          BY <4>2
        <5> QED
          BY <2>1, <4>2, <5>1 DEF Portion
      <4> QED
        BY <4>1, <4>2
    <3> QED
      BY <2>1, <3>1 DEF Math!genesis_recoverable_principal
  <2>2. CASE r # 0
    <3>1. o # 0
      BY <2>2
    <3> QED
      BY <2>2, <3>1 DEF Math!genesis_recoverable_principal, Portion
  <2> QED
    BY <2>1, <2>2
<1> DEFINE s == Portion(r, v, o)
<1> HIDE DEF s
<1>2. Math!unwrap_or({s}, 0) = s
  BY DEF Math!unwrap_or
<1> QED
  BY <1>1, <1>2 DEF s

(* It is within the claim, within the vault, and rounded down.             *)
LEMMA PortionBounds ==
  ASSUME NEW r \in Nat, NEW v \in Nat, NEW o \in Nat
  PROVE  r <= o => /\ Portion(r, v, o) \in Nat
                   /\ Portion(r, v, o) <= r
                   /\ Portion(r, v, o) <= v
                   /\ v < o => Portion(r, v, o) * o <= r * v
<1> DEFINE s == Portion(r, v, o)
<1> SUFFICES ASSUME r <= o
             PROVE  s \in Nat /\ s <= r /\ s <= v /\ (v < o => s * o <= r * v)
  OBVIOUS
<1>1. CASE v >= o
  BY <1>1 DEF Portion
<1>2. CASE v < o
  <2>1. o \in Nat \ {0} /\ r * v \in Nat
    BY <1>2
  <2>2. s = (r * v) \div o
    BY <1>2 DEF Portion
  <2> DEFINE rv == r * v
  <2> HIDE DEF s, rv
  <2>3. s \in Nat /\ s * o <= rv
    BY <2>1, <2>2, Quotient DEF rv
  <2>4. v * r <= o * r /\ r * v <= o * v
    BY <1>2, TimesMonotonic
  <2>5. rv = v * r /\ rv = r * v /\ o * r = r * o /\ o * v = v * o
    BY DEF rv
  <2>6. s * o \in Int /\ r * o \in Int /\ v * o \in Int /\ rv \in Int
    BY <2>1, <2>3 DEF rv
  <2>7. s * o <= r * o /\ s * o <= v * o
    BY <2>3, <2>4, <2>5, <2>6
  <2>8. s <= r /\ s <= v
    BY <2>1, <2>3, <2>7, Cancel
  <2> QED
    BY <2>3, <2>8 DEF rv
<1> QED
  BY <1>1, <1>2

(* When a claim x is paid its share, the share of another does not fall:   *)
(* what rounding leaves stays in the vault.                                *)
LEMMA PortionOfOthers ==
  ASSUME NEW r \in Nat, NEW x \in Nat, NEW v \in Nat, NEW o \in Nat
  PROVE  r + x <= o
           => Portion(r, v, o) <= Portion(r, v - Portion(x, v, o), o - x)
<1> DEFINE s == Portion(x, v, o)
           q == Portion(r, v, o)
           v2 == v - s
           o2 == o - x
<1> SUFFICES ASSUME r + x <= o PROVE q <= Portion(r, v2, o2)
  OBVIOUS
<1>1. /\ s \in Nat /\ s <= x /\ s <= v /\ (v < o => s * o <= x * v)
      /\ q \in Nat /\ q <= r /\ q <= v /\ (v < o => q * o <= r * v)
  <2>1. r <= o /\ x <= o
    OBVIOUS
  <2>2. s \in Nat /\ s <= x /\ s <= v /\ (v < o => s * o <= x * v)
    BY <2>1, PortionBounds
  <2>3. q \in Nat /\ q <= r /\ q <= v /\ (v < o => q * o <= r * v)
    BY <2>1, PortionBounds
  <2> QED
    BY <2>2, <2>3
<1>2. v2 \in Nat /\ o2 \in Nat /\ r <= o2
  BY <1>1
<1>3. CASE v2 >= o2
  BY <1>1, <1>3 DEF Portion
<1>4. CASE v2 < o2
  <2>1. v < o
    <3> SUFFICES ASSUME v >= o PROVE FALSE
      OBVIOUS
    <3>1. s = x
      BY DEF Portion
    <3> HIDE DEF s
    <3> QED
      BY <1>4, <3>1
  <2>2. Portion(r, v2, o2) = (r * v2) \div o2
    <3> HIDE DEF v2, o2
    <3> QED
      BY <1>2, <1>4 DEF Portion
  <2>3. s * o <= x * v /\ q * o <= r * v
    BY <1>1, <2>1
  <2> HIDE DEF s, q
  <2>4. v * o2 <= v2 * o
    <3>1. v * (o - x) = v * o - x * v /\ (v - s) * o = v * o - s * o
      BY <1>1
    <3>2. v * o \in Int /\ x * v \in Int /\ s * o \in Int
      BY <1>1
    <3> QED
      BY <2>3, <3>1, <3>2
  <2>5. o2 \in Nat \ {0} /\ o \in Nat \ {0}
    BY <1>2, <1>4, <2>1
  <2> HIDE DEF v2, o2
  <2>6. q * o \in Nat /\ r * v \in Nat /\ v * o2 \in Nat /\ v2 * o \in Nat
    BY <1>1, <1>2
  <2>7. (q * o) * o2 <= (r * v) * o2
    BY <1>2, <2>3, <2>6, TimesMonotonic
  <2>8. r * (v * o2) <= r * (v2 * o)
    BY <2>4, <2>6, TimesMonotonic
  <2>9. /\ (q * o) * o2 = (q * o2) * o
        /\ (r * v) * o2 = r * (v * o2)
        /\ r * (v2 * o) = (r * v2) * o
    BY <1>1, <1>2
  <2>10. /\ q * o2 \in Nat /\ r * v2 \in Nat
         /\ (q * o2) * o \in Int /\ r * (v * o2) \in Int /\ (r * v2) * o \in Int
    BY <1>1, <1>2
  <2>11. (q * o2) * o <= (r * v2) * o
    BY <2>7, <2>8, <2>9, <2>10
  <2> DEFINE a == q * o2
             b == r * v2
  <2>12. a \in Nat /\ b \in Nat /\ a * o <= b * o
    BY <2>10, <2>11
  <2> HIDE DEF a, b
  <2>13. a <= b
    BY <2>5, <2>12, Cancel
  <2>14. q <= b \div o2
    BY <1>1, <2>5, <2>12, <2>13, Quotient DEF a
  <2> QED
    BY <2>2, <2>14 DEF b
<1> HIDE DEF s, q, v2, o2
<1> QED
  BY <1>2, <1>3, <1>4

(* The shares of all claims together are within the vault.                 *)
LEMMA PortionsAddUp ==
  ASSUME NEW S, IsFiniteSet(S), NEW c, \A u \in S : c[u] \in Nat,
         NEW v \in Nat, NEW f,
         \A u \in S : f[u] = Portion(c[u], v, SumFunctionOnSet(c, S))
  PROVE  SumFunctionOnSet(f, S) <= v
<1> DEFINE t == SumFunctionOnSet(c, S)
<1>1. t \in Nat /\ \A u \in S : c[u] <= t
  BY SumNat
<1>2. \A u \in S : f[u] = Portion(c[u], v, t)
  OBVIOUS
<1>3. CASE v >= t
  <2>1. \A u \in S : c[u] \in Int /\ f[u] = c[u]
    BY <1>2, <1>3 DEF Portion
  <2>2. SumFunctionOnSet(f, S) = t
    BY <2>1, SumSame
  <2> QED
    BY <1>3, <2>2
<1>4. CASE v < t
  <2> DEFINE g == [u \in S |-> t * f[u]]
             h == [u \in S |-> v * c[u]]
  <2> HIDE DEF t
  <2>1. \A u \in S : f[u] \in Nat /\ f[u] * t <= c[u] * v
    BY <1>1, <1>2, <1>4, PortionBounds
  <2>2. \A u \in S : g[u] \in Int /\ h[u] \in Int /\ g[u] <= h[u]
    <3> SUFFICES ASSUME NEW u \in S
                 PROVE  t * f[u] \in Int /\ v * c[u] \in Int
                        /\ t * f[u] <= v * c[u]
      OBVIOUS
    <3>1. f[u] \in Nat /\ c[u] \in Nat /\ f[u] * t <= c[u] * v
      BY <2>1
    <3>2. f[u] * t = t * f[u] /\ c[u] * v = v * c[u]
          /\ t * f[u] \in Int /\ v * c[u] \in Int
      BY <1>1, <3>1
    <3> QED
      BY <3>1, <3>2
  <2>3. /\ \A u \in S : f[u] \in Int /\ g[u] = t * f[u]
        /\ \A u \in S : c[u] \in Int /\ h[u] = v * c[u]
    BY <2>1
  <2> HIDE DEF g, h
  <2>4. SumFunctionOnSet(g, S) = t * SumFunctionOnSet(f, S)
    BY <1>1, <2>3, SumScale
  <2>5. SumFunctionOnSet(h, S) = v * SumFunctionOnSet(c, S)
    BY <2>3, SumScale
  <2>6. SumFunctionOnSet(g, S) <= SumFunctionOnSet(h, S)
    BY <2>2, SumMonotonic
  <2> DEFINE F == SumFunctionOnSet(f, S)
  <2>7. F \in Int
    BY <2>3, SumType
  <2>8. t * F <= v * t
    BY <2>4, <2>5, <2>6 DEF t
  <2> HIDE DEF F
  <2>9. F * t <= v * t /\ t \in Nat \ {0}
    <3>1. F * t = t * F
      BY <1>1, <2>7
    <3> QED
      BY <1>1, <1>4, <2>8, <3>1
  <2>10. F <= v
    BY <2>7, <2>9, Cancel
  <2> QED
    BY <2>10 DEF F
<1> QED
  BY <1>1, <1>3, <1>4

------------------------------------------------------------------------------
(* What a step does to books and balances together.                        *)

(* No claim moves; the phase stays.                                        *)
ClaimsKept == \A u \in Users : Remaining(u)' = Remaining(u)
PhaseKept ==
  /\ Kicked' = Kicked /\ Finalized' = Finalized
  /\ Config \in accounts' <=> Config \in accounts

(* The parts i and b leave the two pots of the market.                     *)
PotMoves(i, b) ==
  /\ i \in Nat /\ b \in Nat
  /\ i <= market.insurance /\ b <= market.backing
  /\ market' = [insurance |-> market.insurance - i,
                backing |-> market.backing - b]

(* A step of the books only, and the one that opens them.                  *)
NothingMoves == ClaimsKept /\ PhaseKept /\ UNCHANGED custody
Opens ==
  /\ Config \notin accounts /\ Config \in accounts'
  /\ ~Kicked /\ ~Finalized /\ ~Kicked' /\ ~Finalized'
  /\ ClaimsKept /\ UNCHANGED custody

(* A bond of a; an exit of x before the end; a settlement after it.        *)
BondMade(u, a) ==
  /\ a \in Nat /\ ~Kicked /\ ~Finalized /\ Config \in accounts
  /\ PhaseKept /\ ClaimShrinks(u, -a)
  /\ vault' = vault + a
  /\ stake' = [stake EXCEPT ![u] = @ + a]
  /\ UNCHANGED <<market, lossy>>
ExitMade(u, x) ==
  /\ ~Finalized /\ x \in 0 .. Remaining(u)
  /\ PhaseKept /\ ClaimShrinks(u, x)
  /\ stake' = [stake EXCEPT ![u] = @ - x]
  /\ UNCHANGED lossy
  /\ \/ ~Kicked /\ vault' = vault - x /\ UNCHANGED market
     \/ Kicked /\ \E i, b \in Nat : /\ PotMoves(i, b) /\ x <= i + b
                                    /\ vault' = vault + (i + b) - x
Settled(u) == Portion(Remaining(u), vault, Outstanding)
SettleMade(u) ==
  /\ Finalized /\ PhaseKept /\ ClaimShrinks(u, Remaining(u))
  /\ Pay(u, Settled(u))
  /\ UNCHANGED <<market, lossy>>

(* The pool is deployed; capital is recovered; genesis ends; the DAO draws *)
(* a; the market gains or loses.                                           *)
DeployMade ==
  /\ ~Kicked /\ ~Finalized /\ Kicked' /\ ~Finalized'
  /\ Config \in accounts /\ Config \in accounts'
  /\ ClaimsKept
  /\ \E i, b \in Nat : i + b = vault /\ market' = [insurance |-> i, backing |-> b]
  /\ vault' = 0
  /\ UNCHANGED <<stake, lossy>>
RecoverMade ==
  /\ Kicked /\ ~Finalized /\ ClaimsKept /\ PhaseKept
  /\ \E i, b \in Nat : PotMoves(i, b) /\ vault' = vault + (i + b)
  /\ UNCHANGED <<stake, lossy>>
FinishMade ==
  /\ Kicked /\ ~Finalized /\ Kicked' /\ Finalized'
  /\ Config \in accounts /\ Config \in accounts'
  /\ ClaimsKept /\ InMarket = 0
  /\ UNCHANGED custody
DrawMade(a) ==
  /\ Finalized /\ ClaimsKept /\ PhaseKept
  /\ a \in Nat /\ vault' = vault - a /\ Outstanding <= vault'
  /\ UNCHANGED <<market, stake, lossy>>
MarketMade ==
  /\ ClaimsKept /\ PhaseKept /\ MarketResult

MoneyStep ==
  \/ NothingMoves \/ Opens
  \/ \E u \in Users, a \in Amounts : BondMade(u, a)
  \/ \E u \in Users, x \in Nat : ExitMade(u, x)
  \/ \E u \in Users : SettleMade(u)
  \/ DeployMade \/ RecoverMade \/ FinishMade
  \/ \E a \in Amounts : DrawMade(a)
  \/ MarketMade

(* The inductive invariant.  Until the kick the vault holds the pool; all  *)
(* money exists; a claim is what its owner is still owed unless the market *)
(* lost, and never more; a market that never lost covers the claims.       *)
CustodyInv ==
  /\ SupplyInv
  /\ CustodyTypeOK
  /\ vault + InMarket <= BaseSupply
  /\ ~Kicked => vault = Outstanding /\ InMarket = 0 /\ ~lossy
  /\ Finalized => InMarket = 0
  /\ \A u \in Users : Remaining(u) <= stake[u]
  /\ ~Finalized => \A u \in Users : stake[u] = Remaining(u)
  /\ ~lossy => /\ \A u \in Users : stake[u] = Remaining(u)
               /\ Outstanding <= vault + InMarket

(* The numbers of the balances.                                            *)
LEMMA MoneyFacts ==
  ASSUME CustodyInv
  PROVE  /\ ClaimFacts
         /\ vault \in Nat /\ InMarket \in Nat
         /\ market = [insurance |-> market.insurance, backing |-> market.backing]
         /\ market.insurance \in Nat /\ market.backing \in Nat
         /\ InMarket = market.insurance + market.backing
         /\ \A u \in Users : stake[u] \in Nat /\ stake[u] <= BaseSupply
         /\ vault + InMarket <= BaseSupply
<1>1. ClaimFacts /\ BaseSupply \in Nat
  BY ClaimsAddUp DEF CustodyInv, ClaimFacts
<1>2. /\ vault \in 0 .. BaseSupply
      /\ market \in Pots
      /\ stake \in [Users -> 0 .. BaseSupply]
      /\ vault + InMarket <= BaseSupply
  BY DEF CustodyInv, CustodyTypeOK
<1>3. /\ market = [insurance |-> market.insurance, backing |-> market.backing]
      /\ market.insurance \in Nat /\ market.backing \in Nat
  BY <1>1, <1>2 DEF Pots
<1>4. InMarket = market.insurance + market.backing /\ InMarket \in Nat
  BY <1>3 DEF InMarket
<1> QED
  BY <1>1, <1>2, <1>3, <1>4

(* A ledger that does not change keeps claims and phase.                   *)
LEMMA LedgerStill == ASSUME ledger' = ledger
                     PROVE  ClaimsKept /\ PhaseKept
BY DEF ledger, ClaimsKept, PhaseKept, Remaining, Kicked, Finalized

(* Every balance of a call is one that can be read: a step of the money is *)
(* a step of the ledger.                                                   *)
LEMMA StepsOfLedger ==
  ASSUME LayerKept, CustodyInv, [CustodyNext]_cvars
  PROVE  [Next]_vars
<1>0. /\ vault \in Nat /\ InMarket \in Nat /\ BaseSupply \in Nat
      /\ market.insurance \in Nat /\ market.backing \in Nat
      /\ InMarket = market.insurance + market.backing
      /\ vault + InMarket <= BaseSupply
  BY MoneyFacts DEF ClaimFacts
<1>1. vault \in Reads /\ 0 \in Reads
      /\ \A n \in Nat : n <= InMarket => n \in Reads
  BY <1>0 DEF LayerKept, ReadsReal
<1>2. ASSUME NEW u \in Users, NEW a \in Amounts, Bond(u, a)
      PROVE  Next
  BY <1>2 DEF Bond, Next, Deposits
<1>3. ASSUME NEW u \in Users, Leaves(u)
      PROVE  Next
  <2>1. CASE ExitVault(u)
    BY <1>1, <2>1 DEF ExitVault, Next, Withdraws
  <2>2. ASSUME NEW i \in Amounts \union {0}, NEW b \in Amounts \union {0},
               ExitMarket(u, i, b)
        PROVE  Next
    <3>1. i \in Nat /\ b \in Nat
      BY InputAssumption, WordAssumption DEF Word
    <3>2. i + b \in Reads
      BY <1>0, <1>1, <2>2, <3>1 DEF ExitMarket
    <3>3. genesis_withdraw(u, i + b, vault)
      BY <2>2 DEF ExitMarket
    <3> QED
      BY <1>1, <3>2, <3>3 DEF Next, Withdraws
  <2>3. CASE ExitFinal(u)
    BY <1>1, <2>3 DEF ExitFinal, Next, Withdraws
  <2> QED
    BY <1>3, <2>1, <2>2, <2>3 DEF Leaves
<1>4. CASE Deploy
  BY <1>4 DEF Deploy, Next
<1>5. ASSUME NEW k, NEW a \in Amounts, Recover(k, a)
      PROVE  Next
  BY <1>5 DEF Recover, Next
<1>6. CASE Finish
  BY <1>6 DEF Finish, Next
<1>7. ASSUME NEW a \in Amounts, Draw(a)
      PROVE  Next
  BY <1>1, <1>7 DEF Draw, Next
<1>8. CASE MarketResult
  BY <1>8 DEF MarketResult
<1>9. CASE BooksOnly
  BY <1>9 DEF BooksOnly, Next
<1>10. CASE UNCHANGED cvars
  BY <1>10 DEF cvars
<1> QED
  BY <1>2, <1>3, <1>4, <1>5, <1>6, <1>7, <1>8, <1>9, <1>10 DEF CustodyNext

(* A bond the ledger takes is paid in; one it refuses is not.              *)
LEMMA BondMoves ==
  ASSUME LayerKept, CustodyInv, SupplyInv', NEW u \in Users, NEW a \in Amounts,
         Bond(u, a)
  PROVE  MoneyStep
<1>0. TokensReal /\ SupplyInv
  BY DEF LayerKept, CustodyInv
<1>1. PICK now \in Slots : genesis_deposit(u, a, now)
  BY DEF Bond
<1>2. stake \in [Users -> 0 .. BaseSupply]
  BY DEF CustodyInv, CustodyTypeOK
<1>3. CASE ledger' = ledger /\ status' # STATUS_OK
  <2>1. vault' = vault /\ stake' = stake /\ UNCHANGED <<market, lossy>>
    BY <1>2, <1>3 DEF Bond, Accepted
  <2> QED
    BY <1>3, <2>1, LedgerStill DEF MoneyStep, NothingMoves, custody
<1>4. CASE ~(ledger' = ledger /\ status' # STATUS_OK)
  <2>1. /\ ~Kicked /\ ~Finalized /\ ~Kicked' /\ ~Finalized'
        /\ Config \in accounts /\ accounts' = accounts
        /\ status' = STATUS_OK /\ ClaimShrinks(u, -a) /\ a \in Nat
    BY <1>0, <1>1, <1>4, DepositGrows
  <2>2. /\ vault' = vault + a /\ stake' = [stake EXCEPT ![u] = @ + a]
        /\ UNCHANGED <<market, lossy>>
    BY <2>1 DEF Bond, Accepted
  <2>3. PhaseKept
    BY <2>1 DEF PhaseKept, Kicked, Finalized
  <2>4. BondMade(u, a)
    BY <2>1, <2>2, <2>3 DEF BondMade
  <2> QED
    BY <2>4 DEF MoneyStep
<1> QED
  BY <1>3, <1>4

(* Before the kick the vault holds what is owed, and a depositor is paid   *)
(* it all; after it he is paid what was pulled, up to his claim; at the    *)
(* end his share.                                                          *)
LEMMA LeaveMoves ==
  ASSUME LayerKept, CustodyInv, SupplyInv', NEW u \in Users, Leaves(u)
  PROVE  MoneyStep
<1>0. /\ SupplyInv /\ vault \in Reads /\ 0 \in Reads
      /\ \A n \in Nat : n <= InMarket => n \in Reads
      /\ ClaimFacts /\ vault \in Nat /\ InMarket \in Nat
      /\ market.insurance \in Nat /\ market.backing \in Nat
      /\ InMarket = market.insurance + market.backing
      /\ Remaining(u) \in Nat /\ Remaining(u) <= Outstanding
      /\ Outstanding \in Nat
  <2>1. /\ ClaimFacts /\ vault \in Nat /\ InMarket \in Nat
        /\ market.insurance \in Nat /\ market.backing \in Nat
        /\ InMarket = market.insurance + market.backing
        /\ vault + InMarket <= BaseSupply /\ SupplyInv
    BY MoneyFacts DEF CustodyInv
  <2>2. BaseSupply \in Nat /\ Remaining(u) \in Nat
        /\ Remaining(u) <= Outstanding /\ Outstanding \in Nat
    BY <2>1 DEF ClaimFacts
  <2>3. vault \in 0 .. BaseSupply /\ 0 \in 0 .. BaseSupply
        /\ \A n \in Nat : n <= InMarket => n \in 0 .. BaseSupply
    BY <2>1, <2>2
  <2> QED
    BY <2>1, <2>2, <2>3 DEF LayerKept, ReadsReal
<1>1. ASSUME NEW r \in Reads, NEW v \in Reads, genesis_withdraw(u, r, v)
      PROVE  /\ ClaimShrinks(u, Retired(u, r, v))
             /\ Retired(u, r, v) \in 0 .. Remaining(u)
             /\ PhaseKept
  BY <1>0, <1>1, ExitShrinks DEF PhaseKept
<1>2. CASE ExitVault(u)
  <2> DEFINE x == WMin(vault, Remaining(u))
  <2>1. ~Kicked /\ genesis_withdraw(u, 0, vault) /\ Pay(u, x)
        /\ UNCHANGED <<market, lossy>>
    BY <1>2 DEF ExitVault
  <2>2. ~Finalized
    BY <1>0, <2>1 DEF ClaimFacts
  <2>3. Retired(u, 0, vault) = x
    BY <2>1, <2>2 DEF Retired
  <2> HIDE DEF x
  <2>4. ClaimShrinks(u, x) /\ x \in 0 .. Remaining(u) /\ PhaseKept
    BY <1>0, <1>1, <2>1, <2>3
  <2>5. ExitMade(u, x)
    BY <2>1, <2>2, <2>4 DEF ExitMade, Pay
  <2>6. x \in Nat
    BY <1>0, <2>4
  <2> QED
    BY <2>5, <2>6 DEF MoneyStep
<1>3. ASSUME NEW i \in Amounts \union {0}, NEW b \in Amounts \union {0},
             ExitMarket(u, i, b)
      PROVE  MoneyStep
  <2> DEFINE r == i + b
             x == WMin(i + b, Remaining(u))
  <2>1. i \in Nat /\ b \in Nat
    BY InputAssumption, WordAssumption DEF Word
  <2>2. /\ Kicked /\ ~Finalized
        /\ i <= market.insurance /\ b <= market.backing
        /\ genesis_withdraw(u, i + b, vault)
        /\ vault' = vault + (i + b) - x
        /\ stake' = [stake EXCEPT ![u] = @ - x]
        /\ market' = [insurance |-> market.insurance - i,
                      backing |-> market.backing - b]
        /\ lossy' = lossy
    BY <1>3 DEF ExitMarket
  <2>3. r \in Nat /\ r <= InMarket
    BY <1>0, <2>1, <2>2
  <2>4. Retired(u, r, vault) = x
    BY <2>2 DEF Retired
  <2>5. x <= r
    BY <1>0, <2>3 DEF WMin
  <2>6. PotMoves(i, b)
    BY <2>1, <2>2 DEF PotMoves
  <2>7. genesis_withdraw(u, r, vault)
    BY <2>2
  <2>8. x <= i + b
    BY <2>5
  <2>9. r \in Reads
    BY <1>0, <2>3
  <2> HIDE DEF x, r
  <2>10. ClaimShrinks(u, x) /\ x \in 0 .. Remaining(u) /\ PhaseKept
    BY <1>0, <1>1, <2>4, <2>7, <2>9
  <2>11. ExitMade(u, x)
    BY <2>1, <2>2, <2>6, <2>8, <2>10 DEF ExitMade
  <2>12. x \in Nat
    BY <1>0, <2>10
  <2> QED
    BY <2>11, <2>12 DEF MoneyStep
<1>4. CASE ExitFinal(u)
  <2>1. /\ Finalized /\ genesis_withdraw(u, 0, vault)
        /\ \E share \in Math!genesis_recoverable_principal(Remaining(u), vault,
                                                           Outstanding) :
             Pay(u, share)
        /\ UNCHANGED <<market, lossy>>
    BY <1>4 DEF ExitFinal
  <2>2. Pay(u, Settled(u))
    <3>1. Math!genesis_recoverable_principal(Remaining(u), vault, Outstanding)
            = {Settled(u)}
      BY <1>0, ShareIsPortion DEF Settled
    <3> QED
      BY <2>1, <3>1
  <2>3. Retired(u, 0, vault) = Remaining(u)
    BY <2>1 DEF Retired
  <2>4. ClaimShrinks(u, Remaining(u)) /\ PhaseKept
    BY <1>0, <1>1, <2>1, <2>3
  <2>5. SettleMade(u)
    BY <2>1, <2>2, <2>4 DEF SettleMade
  <2> QED
    BY <2>5 DEF MoneyStep
<1> QED
  BY <1>2, <1>3, <1>4 DEF Leaves

(* The two parts of the split are the pool.                                *)
LEMMA DeployMoves ==
  ASSUME LayerKept, CustodyInv, Deploy
  PROVE  MoneyStep
<1>0. LedgerTypeOK /\ ClaimFacts /\ (~Kicked => vault = Outstanding)
  BY MoneyFacts DEF CustodyInv, SupplyInv, PoolInv, LifecycleInv
<1>1. CASE DepositsClosed \/ cfg.total_deposited = 0
  <2>1. ledger' = ledger /\ status' # STATUS_OK
    BY <1>1 DEF Deploy, kickstart_genesis_market, Refuse, STATUS_OK,
       STATUS_ALREADY_KICKED, STATUS_EMPTY_DEPOSIT
  <2>2. UNCHANGED custody
    BY <2>1 DEF Deploy, Accepted, custody
  <2> QED
    BY <2>1, <2>2, LedgerStill DEF MoneyStep, NothingMoves
<1>2. CASE ~(DepositsClosed \/ cfg.total_deposited = 0)
  <2> DEFINE t == cfg.total_deposited
             i == t \div 2
             b == t - i
  <2>1. ~Kicked /\ ~Finalized /\ t # 0
    BY <1>2 DEF DepositsClosed
  <2>2. /\ cfg' = [cfg EXCEPT !.kicked = 1] /\ status' = STATUS_OK
        /\ UNCHANGED <<accounts, pos>> /\ Config \in accounts
    BY <1>2 DEF Deploy, kickstart_genesis_market
  <2>3. /\ market' = Math!kickstart_split(t) /\ vault' = vault - t
        /\ UNCHANGED <<stake, lossy>>
    BY <2>2 DEF Deploy, Accepted
  <2>4. t = vault /\ t \in Nat \ {0}
    BY <1>0, <2>1 DEF ClaimFacts
  <2>5. Kicked' /\ ~Finalized' /\ ClaimsKept
    BY <1>0, <2>1, <2>2
    DEF LedgerTypeOK, GenesisConfig, Kicked, Finalized, ClaimsKept, Remaining
  <2>6. i \in Nat /\ i < t /\ b \in Nat /\ i + b = t /\ t - t = 0
    <3> HIDE DEF t
    <3> QED
      BY <2>4
  <2>7. market' = [insurance |-> i, backing |-> b]
    <3> HIDE DEF t
    <3> QED
      BY <2>3, <2>4, <2>6 DEF Math!kickstart_split, Math!SaturatingSub
  <2> HIDE DEF i, b
  <2>8. vault' = 0 /\ i + b = vault
    BY <2>3, <2>4, <2>6
  <2>9. Config \in accounts'
    BY <2>2
  <2> HIDE DEF t
  <2>10. DeployMade
    BY <2>1, <2>2, <2>3, <2>5, <2>6, <2>7, <2>8, <2>9 DEF DeployMade
  <2> QED
    BY <2>10 DEF MoneyStep
<1> QED
  BY <1>1, <1>2

(* A recovery moves funds from one part of the market to the vault.        *)
LEMMA RecoverMoves ==
  ASSUME CustodyInv, NEW kind \in {"insurance", "backing"}, NEW a \in Amounts,
         Recover(kind, a)
  PROVE  MoneyStep
<1>0. /\ market = [insurance |-> market.insurance, backing |-> market.backing]
      /\ market.insurance \in Nat /\ market.backing \in Nat
      /\ vault \in Nat /\ a \in Nat
  BY MoneyFacts, InputAssumption, WordAssumption DEF Word
<1>1. ledger' = ledger /\ (status' = STATUS_OK => Kicked /\ ~Finalized)
  BY DEF Recover, recover_genesis_market, Refuse, STATUS_OK, STATUS_NOT_KICKED,
     STATUS_ALREADY_FINALIZED
<1>2. ClaimsKept /\ PhaseKept
  BY <1>1, LedgerStill
<1>3. CASE status' = STATUS_OK
  <2>1. /\ a <= market[kind] /\ vault' = vault + a
        /\ market' = [market EXCEPT ![kind] = @ - a]
        /\ UNCHANGED <<stake, lossy>>
    BY <1>3 DEF Recover, Accepted
  <2> DEFINE n == 0
  <2>2. n \in Nat /\ a + n = a /\ n + a = a
        /\ \A z \in Nat : z - n = z /\ n <= z
    BY <1>0
  <2> HIDE DEF n
  <2>3. CASE kind = "insurance"
    <3>1. market' = [insurance |-> market.insurance - a,
                     backing |-> market.backing]
      BY <1>0, <2>1, <2>3
    <3>2. PotMoves(a, n) /\ vault' = vault + (a + n)
      BY <1>0, <2>1, <2>2, <2>3, <3>1 DEF PotMoves
    <3>3. RecoverMade
      BY <1>0, <1>1, <1>2, <1>3, <2>1, <2>2, <3>2 DEF RecoverMade
    <3> QED
      BY <3>3 DEF MoneyStep
  <2>4. CASE kind = "backing"
    <3>1. market' = [insurance |-> market.insurance,
                     backing |-> market.backing - a]
      BY <1>0, <2>1, <2>4
    <3>2. PotMoves(n, a) /\ vault' = vault + (n + a)
      BY <1>0, <2>1, <2>2, <2>4, <3>1 DEF PotMoves
    <3>3. RecoverMade
      BY <1>0, <1>1, <1>2, <1>3, <2>1, <2>2, <3>2 DEF RecoverMade
    <3> QED
      BY <3>3 DEF MoneyStep
  <2> QED
    BY <2>3, <2>4
<1>4. CASE status' # STATUS_OK
  BY <1>2, <1>4 DEF Recover, Accepted, MoneyStep, NothingMoves, custody
<1> QED
  BY <1>3, <1>4

(* Genesis ends with nothing left in the market.                           *)
LEMMA FinishMoves ==
  ASSUME LayerKept, CustodyInv, Finish
  PROVE  MoneyStep
<1>0. LedgerTypeOK /\ ClaimFacts
  BY MoneyFacts DEF CustodyInv, SupplyInv, PoolInv, LifecycleInv
<1>1. InMarket = 0 /\ finalize_genesis /\ UNCHANGED custody
  BY DEF Finish, LayerKept, Duties
<1>2. CASE ledger' = ledger
  BY <1>1, <1>2, LedgerStill DEF MoneyStep, NothingMoves
<1>3. CASE ledger' # ledger
  <2>1. /\ Kicked /\ cfg' = [cfg EXCEPT !.finalized = 1]
        /\ UNCHANGED <<accounts, pos>> /\ Config \in accounts
    BY <1>1, <1>3 DEF finalize_genesis, Refuse
  <2>2. Kicked' /\ Finalized' /\ ClaimsKept
    BY <1>0, <2>1
    DEF LedgerTypeOK, GenesisConfig, Kicked, Finalized, ClaimsKept, Remaining
  <2>3. CASE Finalized
    BY <1>1, <2>1, <2>2, <2>3 DEF MoneyStep, NothingMoves, PhaseKept
  <2>4. CASE ~Finalized
    BY <1>1, <2>1, <2>2, <2>4 DEF MoneyStep, FinishMade
  <2> QED
    BY <2>3, <2>4
<1> QED
  BY <1>2, <1>3

(* The DAO's draw leaves the claims covered.                               *)
LEMMA DrawMoves ==
  ASSUME LayerKept, CustodyInv, NEW a \in Amounts, Draw(a)
  PROVE  MoneyStep
<1>0. /\ vault \in Nat /\ Outstanding \in Nat /\ a \in Nat
      /\ (Finalized => vault >= Outstanding)
  BY MoneyFacts, InputAssumption, WordAssumption
  DEF Word, ClaimFacts, Draw, LayerKept, Duties
<1>1. /\ ledger' = ledger
      /\ status' = STATUS_OK => Finalized /\ SurplusCovers(a, vault)
  BY DEF Draw, draw_genesis_surplus, Refuse, STATUS_OK, STATUS_NOT_FINALIZED,
     STATUS_INSUFFICIENT_SURPLUS
<1>2. ClaimsKept /\ PhaseKept
  BY <1>1, LedgerStill
<1>3. CASE status' = STATUS_OK
  <2>1. Finalized /\ vault' = vault - a /\ UNCHANGED <<market, stake, lossy>>
    BY <1>1, <1>3 DEF Draw, Accepted
  <2>2. WSub(vault, Outstanding) = vault - Outstanding
    BY <1>0, <2>1 DEF WSub
  <2>3. a <= vault - Outstanding
    BY <1>1, <1>3, <2>2 DEF SurplusCovers
  <2>4. Outstanding <= vault'
    BY <1>0, <2>1, <2>3
  <2>5. DrawMade(a)
    BY <1>0, <1>2, <2>1, <2>4 DEF DrawMade
  <2> QED
    BY <2>5 DEF MoneyStep
<1>4. CASE status' # STATUS_OK
  BY <1>2, <1>4 DEF Draw, Accepted, MoneyStep, NothingMoves, custody
<1> QED
  BY <1>3, <1>4

(* What moves no base unit moves no claim.                                 *)
LEMMA BooksMove ==
  ASSUME LayerKept, CustodyInv, BooksOnly
  PROVE  MoneyStep
<1>0. LedgerTypeOK /\ LifecycleInv /\ ClaimFacts /\ UNCHANGED custody
  BY MoneyFacts DEF CustodyInv, SupplyInv, PoolInv, LifecycleInv, BooksOnly
<1>1. ASSUME NEW s \in RewardSupplies, init_genesis_bootstrap(s)
      PROVE  MoneyStep
  <2>1. Config \notin accounts /\ Config \in accounts' /\ pos' = pos
        /\ ~Kicked' /\ ~Finalized'
    BY <1>1 DEF init_genesis_bootstrap, Creates, LayerKept, ConfigOnce, Kicked,
       Finalized
  <2>2. ~Kicked /\ ~Finalized /\ ClaimsKept
    BY <1>0, <2>1 DEF LifecycleInv, ClaimFacts, ClaimsKept, Remaining
  <2> QED
    BY <1>0, <2>1, <2>2 DEF MoneyStep, Opens
<1>2. ASSUME ClaimsKept, PhaseKept
      PROVE  MoneyStep
  BY <1>0, <1>2 DEF MoneyStep, NothingMoves
<1>3. ASSUME NEW i \in Items, NEW a \in CoinAmounts,
             init_genesis_distribution(i, a)
      PROVE  MoneyStep
  <2>1. CASE ledger' = ledger
    BY <1>2, <2>1, LedgerStill
  <2>2. CASE ledger' # ledger
    <3>1. accounts' = accounts \union {i} /\ cfg' = cfg /\ pos' = pos
          /\ Config \in accounts
      BY <1>3, <2>2 DEF init_genesis_distribution, Refuse
    <3>2. ClaimsKept /\ PhaseKept
      BY <3>1 DEF ClaimsKept, PhaseKept, Remaining, Kicked, Finalized
    <3> QED
      BY <1>2, <3>2
  <2> QED
    BY <2>1, <2>2
<1>4. ASSUME NEW u \in Users, NEW i \in Items, NEW action \in 0 .. 2,
             NEW now \in Slots, vote_genesis_distribution(u, i, action, now)
      PROVE  MoneyStep
  <2>1. PositionsKept /\ cfg' = cfg /\ accounts' = accounts
    BY <1>0, <1>4, BallotMovesNoStake
  <2>2. ClaimsKept /\ PhaseKept
    BY <2>1 DEF PositionsKept, ClaimsKept, PhaseKept, Remaining, Kicked,
       Finalized
  <2> QED
    BY <1>2, <2>2
<1>5. ASSUME NEW i \in Items, NEW a \in CoinAmounts, genesis_mint_reward(i, a)
      PROVE  MoneyStep
  <2>1. CASE ledger' = ledger
    BY <1>2, <2>1, LedgerStill
  <2>2. CASE ledger' # ledger
    <3>1. cfg' = [cfg EXCEPT !.minted_supply = WAdd(@, a)]
          /\ UNCHANGED <<accounts, pos>>
      BY <1>5, <2>2 DEF genesis_mint_reward, Refuse
    <3>2. ClaimsKept /\ PhaseKept
      BY <1>0, <3>1 DEF ClaimsKept, PhaseKept, Remaining, Kicked, Finalized,
         LedgerTypeOK, GenesisConfig
    <3> QED
      BY <1>2, <3>2
  <2> QED
    BY <2>1, <2>2
<1> QED
  BY <1>1, <1>3, <1>4, <1>5 DEF BooksOnly, Votes

(* Every step is one of these.                                             *)
LEMMA StepMoves ==
  ASSUME LayerKept, CustodyInv, SupplyInv', [CustodyNext]_cvars
  PROVE  MoneyStep
<1>1. CASE MarketResult
  <2>1. ledger' = ledger
    BY <1>1 DEF MarketResult, vars, ledger
  <2> QED
    BY <1>1, <2>1, LedgerStill DEF MoneyStep, MarketMade
<1>2. CASE UNCHANGED cvars
  <2>1. ledger' = ledger /\ UNCHANGED custody
    BY <1>2 DEF cvars, vars, ledger
  <2> QED
    BY <2>1, LedgerStill DEF MoneyStep, NothingMoves
<1> QED
  BY <1>1, <1>2, BondMoves, LeaveMoves, DeployMoves, RecoverMoves, FinishMoves,
     DrawMoves, BooksMove
  DEF CustodyNext

------------------------------------------------------------------------------
(* The invariant is kept.                                                  *)

(* Where no claim moves the outstanding principal stays.                   *)
LEMMA OutstandingKept ==
  ASSUME ClaimFacts, ClaimFacts', ClaimsKept
  PROVE  Outstanding' = Outstanding
<1>1. Claims' = Claims
  BY DEF ClaimsKept, Claims
<1> QED
  BY <1>1 DEF ClaimFacts

(* The invariant of the state after, from its numbers.                     *)
LEMMA InvFromNumbers ==
  ASSUME SupplyInv', BaseSupply \in Nat,
         vault' \in Nat, market'.insurance \in Nat, market'.backing \in Nat,
         market' = [insurance |-> market'.insurance, backing |-> market'.backing],
         lossy' \in BOOLEAN,
         stake' \in [Users -> 0 .. BaseSupply],
         vault' + market'.insurance + market'.backing <= BaseSupply,
         ~Kicked' => /\ vault' = Outstanding' /\ ~lossy'
                     /\ market'.insurance = 0 /\ market'.backing = 0,
         Finalized' => market'.insurance = 0 /\ market'.backing = 0,
         \A u \in Users : Remaining(u)' <= stake'[u],
         ~Finalized' => \A u \in Users : stake'[u] = Remaining(u)',
         ~lossy' => /\ \A u \in Users : stake'[u] = Remaining(u)'
                    /\ Outstanding' <= vault' + market'.insurance + market'.backing
  PROVE  CustodyInv'
<1> DEFINE i == market'.insurance
           b == market'.backing
<1>1. vault' \in 0 .. BaseSupply
  OBVIOUS
<1>2. i \in 0 .. BaseSupply /\ b \in 0 .. BaseSupply
  OBVIOUS
<1>3. market' \in Pots
  <2>1. market' = [insurance |-> i, backing |-> b]
    OBVIOUS
  <2> HIDE DEF i, b
  <2> QED
    BY <1>2, <2>1 DEF Pots
<1>4. CustodyTypeOK'
  BY <1>1, <1>3 DEF CustodyTypeOK
<1>5. InMarket' = i + b
  BY DEF InMarket
<1>6. vault' + (i + b) <= BaseSupply
  OBVIOUS
<1>7. ~Kicked' => vault' = Outstanding' /\ i + b = 0 /\ ~lossy'
  OBVIOUS
<1>8. Finalized' => i + b = 0
  OBVIOUS
<1>9. ~lossy' => Outstanding' <= vault' + (i + b)
  OBVIOUS
<1> HIDE DEF i, b
<1> QED
  BY <1>4, <1>5, <1>6, <1>7, <1>8, <1>9 DEF CustodyInv

(* The stake that a claim stands for moves with it.                        *)
LEMMA StakeFollows ==
  ASSUME CustodyInv, NEW u \in Users, NEW x \in Int, ClaimShrinks(u, x),
         stake' = [stake EXCEPT ![u] = @ - x],
         \A y \in Users : stake[y] = Remaining(y)
  PROVE  \A y \in Users : stake'[y] = Remaining(y)'
<1>1. stake \in [Users -> 0 .. BaseSupply]
  BY DEF CustodyInv, CustodyTypeOK
<1>2. stake'[u] = stake[u] - x /\ \A y \in Users \ {u} : stake'[y] = stake[y]
  BY <1>1
<1> QED
  BY <1>2 DEF ClaimShrinks

(* Stakes that are the claims are of the right type.                       *)
LEMMA StakeType ==
  ASSUME ClaimFacts', stake' = [y \in Users |-> stake'[y]],
         \A y \in Users : stake'[y] = Remaining(y)'
  PROVE  stake' \in [Users -> 0 .. BaseSupply]
<1>1. \A y \in Users : stake'[y] \in 0 .. BaseSupply
  BY DEF ClaimFacts
<1> QED
  BY <1>1

(* A bond keeps the invariant.                                             *)
LEMMA BondKeeps ==
  ASSUME CustodyInv, SupplyInv', NEW u \in Users, NEW a \in Amounts,
         BondMade(u, a)
  PROVE  CustodyInv'
<1> DEFINE n == -a
<1>0. /\ ClaimFacts /\ ClaimFacts' /\ vault \in Nat /\ vault = Outstanding
      /\ InMarket = 0 /\ ~lossy /\ BaseSupply \in Nat
      /\ market.insurance = 0 /\ market.backing = 0
      /\ market = [insurance |-> market.insurance, backing |-> market.backing]
      /\ a \in Nat /\ n \in Int
  <2>1. ~Kicked /\ a \in Nat
    BY DEF BondMade
  <2>2. /\ ClaimFacts /\ vault \in Nat /\ InMarket = market.insurance + market.backing
        /\ market.insurance \in Nat /\ market.backing \in Nat
        /\ market = [insurance |-> market.insurance, backing |-> market.backing]
    BY MoneyFacts
  <2>3. vault = Outstanding /\ InMarket = 0 /\ ~lossy
    BY <2>1 DEF CustodyInv
  <2> QED
    BY <2>1, <2>2, <2>3, ClaimsAddUpAfter DEF ClaimFacts
<1>1. /\ ClaimShrinks(u, n) /\ vault' = vault + a /\ market' = market
      /\ lossy' = lossy /\ ~Kicked' /\ ~Finalized'
      /\ \A y \in Users : stake[y] = Remaining(y)
      /\ stake' = [stake EXCEPT ![u] = @ + a]
  BY DEF BondMade, PhaseKept, CustodyInv
<1>2. stake' = [stake EXCEPT ![u] = @ - n]
  <2>1. stake \in [Users -> 0 .. BaseSupply]
    BY DEF CustodyInv, CustodyTypeOK
  <2>2. stake[u] + a = stake[u] - n
    BY <1>0, <2>1
  <2> QED
    BY <1>1, <2>2
<1> HIDE DEF n
<1>3. Outstanding' = Outstanding - n
  BY <1>0, <1>1, OutstandingShrinks
<1>4. \A y \in Users : stake'[y] = Remaining(y)'
  BY <1>0, <1>1, <1>2, StakeFollows
<1>5. stake' \in [Users -> 0 .. BaseSupply]
  <2>1. stake' = [y \in Users |-> stake'[y]]
    BY <1>1 DEF CustodyInv, CustodyTypeOK
  <2> QED
    BY <1>0, <1>4, <2>1, StakeType
<1>6. vault' = Outstanding' /\ vault' \in Nat /\ vault' <= BaseSupply
  BY <1>0, <1>1, <1>3 DEF ClaimFacts, n
<1>7. \A y \in Users : Remaining(y)' <= stake'[y]
  BY <1>0, <1>4 DEF ClaimFacts
<1>8. market'.insurance = 0 /\ market'.backing = 0
      /\ market' = [insurance |-> market'.insurance, backing |-> market'.backing]
  BY <1>0, <1>1
<1> DEFINE z == 0
<1>9. z \in Nat /\ vault' + z + z = vault' /\ z = 0
      /\ Outstanding' <= vault'
  BY <1>0, <1>1, <1>6
<1> HIDE DEF z
<1>10. market'.insurance = z /\ market'.backing = z
  BY <1>8, <1>9
<1>11. lossy' \in BOOLEAN
  BY <1>1 DEF CustodyInv, CustodyTypeOK
<1> QED
  BY <1>0, <1>1, <1>4, <1>5, <1>6, <1>7, <1>8, <1>9, <1>10, <1>11,
     InvFromNumbers

(* An exit before the end keeps it: the stake goes down with the claim.    *)
LEMMA ExitKeeps ==
  ASSUME CustodyInv, SupplyInv', NEW u \in Users, NEW x \in Nat, ExitMade(u, x)
  PROVE  CustodyInv'
<1>0. /\ ClaimFacts /\ ClaimFacts' /\ vault \in Nat /\ BaseSupply \in Nat
      /\ market.insurance \in Nat /\ market.backing \in Nat
      /\ InMarket = market.insurance + market.backing
      /\ market = [insurance |-> market.insurance, backing |-> market.backing]
      /\ vault + InMarket <= BaseSupply
      /\ Outstanding \in Nat /\ Outstanding' \in Nat
  BY MoneyFacts, ClaimsAddUpAfter DEF CustodyInv, ClaimFacts
<1>1. /\ ClaimShrinks(u, x) /\ lossy' = lossy /\ lossy \in BOOLEAN
      /\ Kicked' = Kicked /\ ~Finalized /\ ~Finalized'
      /\ \A y \in Users : stake[y] = Remaining(y)
      /\ stake' = [stake EXCEPT ![u] = @ - x]
  BY DEF ExitMade, PhaseKept, CustodyInv, CustodyTypeOK
<1>2. Outstanding' = Outstanding - x
  BY <1>0, <1>1, OutstandingShrinks
<1>3. \A y \in Users : stake'[y] = Remaining(y)'
  <2>1. x \in Int
    OBVIOUS
  <2> QED
    BY <1>1, <2>1, StakeFollows
<1>4. stake' \in [Users -> 0 .. BaseSupply]
  <2>1. stake' = [y \in Users |-> stake'[y]]
    BY <1>1 DEF CustodyInv, CustodyTypeOK
  <2> QED
    BY <1>0, <1>3, <2>1, StakeType
<1>5. \A y \in Users : Remaining(y)' <= stake'[y]
  BY <1>0, <1>3 DEF ClaimFacts
<1>6. CASE ~Kicked /\ vault' = vault - x /\ UNCHANGED market
  <2>1. vault = Outstanding /\ InMarket = 0 /\ ~lossy
    BY <1>6 DEF CustodyInv
  <2>2. vault' = Outstanding' /\ vault' \in Nat /\ ~lossy' /\ vault' <= BaseSupply
    BY <1>0, <1>1, <1>2, <1>6, <2>1
  <2>3. /\ market'.insurance \in Nat /\ market'.backing \in Nat
        /\ market'.insurance = 0 /\ market'.backing = 0
        /\ market' = [insurance |-> market'.insurance,
                      backing |-> market'.backing]
    BY <1>0, <1>6, <2>1
  <2>4. /\ vault' + market'.insurance + market'.backing <= BaseSupply
        /\ Outstanding' <= vault' + market'.insurance + market'.backing
    BY <2>2, <2>3
  <2> QED
    BY <1>0, <1>1, <1>3, <1>4, <1>5, <2>2, <2>3, <2>4, InvFromNumbers
<1>7. ASSUME Kicked, NEW i \in Nat, NEW b \in Nat, PotMoves(i, b), x <= i + b,
             vault' = vault + (i + b) - x
      PROVE  CustodyInv'
  <2>1. i <= market.insurance /\ b <= market.backing
        /\ market' = [insurance |-> market.insurance - i,
                      backing |-> market.backing - b]
    BY <1>7 DEF PotMoves
  <2>2. /\ market'.insurance = market.insurance - i
        /\ market'.backing = market.backing - b
        /\ market' = [insurance |-> market'.insurance,
                      backing |-> market'.backing]
    BY <2>1
  <2> DEFINE mi == market'.insurance
             mb == market'.backing
  <2>3. mi \in Nat /\ mb \in Nat /\ vault' \in Nat
        /\ vault' + mi + mb = vault + InMarket - x
    <3>1. mi = market.insurance - i /\ mb = market.backing - b
      BY <2>2
    <3> HIDE DEF mi, mb
    <3> QED
      BY <1>0, <1>7, <2>1, <3>1
  <2>4. lossy' \in BOOLEAN /\ Kicked' /\ ~Finalized'
    BY <1>1, <1>7 DEF Kicked
  <2>5. ~lossy => Outstanding <= vault + InMarket
    BY DEF CustodyInv
  <2>6. /\ vault' + mi + mb <= BaseSupply
        /\ ~lossy' => Outstanding' <= vault' + mi + mb
    <3> HIDE DEF mi, mb
    <3> QED
      BY <1>0, <1>1, <1>2, <2>3, <2>5
  <2> QED
    BY <1>0, <1>3, <1>4, <1>5, <2>2, <2>3, <2>4, <2>6, InvFromNumbers
<1> QED
  BY <1>6, <1>7 DEF ExitMade

(* So does a settlement: a vault that covers the claims pays in full.      *)
LEMMA SettleKeeps ==
  ASSUME CustodyInv, SupplyInv', NEW u \in Users, SettleMade(u)
  PROVE  CustodyInv'
<1> DEFINE r == Remaining(u)
           s == Settled(u)
<1>0. /\ ClaimFacts /\ ClaimFacts' /\ vault \in Nat /\ BaseSupply \in Nat
      /\ market = [insurance |-> market.insurance, backing |-> market.backing]
      /\ vault <= BaseSupply
      /\ Outstanding \in Nat /\ Outstanding' \in Nat
      /\ r \in Nat /\ r <= Outstanding
  BY MoneyFacts, ClaimsAddUpAfter DEF CustodyInv, ClaimFacts
<1>1. /\ ClaimShrinks(u, r) /\ lossy' = lossy /\ lossy \in BOOLEAN
      /\ Kicked' = Kicked /\ Finalized /\ Finalized' /\ Kicked
      /\ market' = market /\ vault' = vault - s
      /\ stake' = [stake EXCEPT ![u] = @ - s]
  BY <1>0 DEF SettleMade, PhaseKept, CustodyInv, CustodyTypeOK, Pay, ClaimFacts,
     Finalized
<1>2. s \in Nat /\ s <= r /\ s <= vault /\ (Outstanding <= vault => s = r)
  <2>1. s \in Nat /\ s <= r /\ s <= vault
    BY <1>0, PortionBounds DEF Settled
  <2>2. Outstanding <= vault => s = r
    BY <1>0 DEF Settled, Portion
  <2> QED
    BY <2>1, <2>2
<1>3. InMarket = 0 /\ market.insurance = 0 /\ market.backing = 0
  <2>1. /\ InMarket = market.insurance + market.backing
        /\ market.insurance \in Nat /\ market.backing \in Nat
    BY MoneyFacts
  <2>2. InMarket = 0
    BY <1>1 DEF CustodyInv
  <2> QED
    BY <2>1, <2>2
<1>4. ~lossy => Outstanding <= vault /\ \A y \in Users : stake[y] = Remaining(y)
  BY <1>0, <1>3 DEF CustodyInv
<1> HIDE DEF r, s
<1>5. Outstanding' = Outstanding - r
  BY <1>0, <1>1, OutstandingShrinks
<1>6. stake \in [Users -> 0 .. BaseSupply] /\ r <= stake[u]
      /\ \A y \in Users : Remaining(y) <= stake[y]
  BY DEF CustodyInv, CustodyTypeOK, r
<1>7. stake'[u] = stake[u] - s /\ \A y \in Users \ {u} : stake'[y] = stake[y]
  BY <1>1, <1>6
<1>8. \A y \in Users : stake'[y] \in 0 .. BaseSupply
  BY <1>0, <1>2, <1>6, <1>7
<1>9. stake' \in [Users -> 0 .. BaseSupply]
  <2>1. stake' = [y \in Users |-> stake'[y]]
    BY <1>1, <1>6
  <2> QED
    BY <1>8, <2>1
<1>10. Remaining(u)' = 0 /\ Remaining(u) = r
       /\ \A y \in Users \ {u} : Remaining(y)' = Remaining(y)
  BY <1>0, <1>1 DEF ClaimShrinks, r
<1>11. \A y \in Users : Remaining(y)' <= stake'[y]
  BY <1>6, <1>7, <1>8, <1>10
<1>12. ~lossy' => \A y \in Users : stake'[y] = Remaining(y)'
  BY <1>0, <1>1, <1>2, <1>4, <1>7, <1>10
<1>13. /\ market'.insurance = 0 /\ market'.backing = 0
       /\ market' = [insurance |-> market'.insurance,
                     backing |-> market'.backing]
  BY <1>0, <1>1, <1>3
<1>14. /\ vault' \in Nat /\ vault' <= BaseSupply
       /\ ~lossy' => Outstanding' <= vault'
  BY <1>0, <1>1, <1>2, <1>4, <1>5
<1> DEFINE z == 0
           v == vault'
<1>15. z \in Nat /\ z = 0 /\ v + z + z = v
  <2>1. v \in Nat
    BY <1>14
  <2> HIDE DEF v
  <2> QED
    BY <2>1
<1> HIDE DEF z
<1>16. /\ market'.insurance = z /\ market'.backing = z
       /\ vault' + market'.insurance + market'.backing <= BaseSupply
       /\ ~lossy' => Outstanding' <= vault' + market'.insurance + market'.backing
  BY <1>13, <1>14, <1>15
<1>17. lossy' \in BOOLEAN /\ Kicked' /\ Finalized'
  BY <1>1 DEF Kicked
<1> QED
  BY <1>0, <1>9, <1>11, <1>12, <1>13, <1>14, <1>15, <1>16, <1>17,
     InvFromNumbers

(* The steps that move no claim keep the stakes; they keep the invariant   *)
(* where they keep the balances in their bounds.                           *)
LEMMA ClaimsKeptKeeps ==
  ASSUME CustodyInv, SupplyInv', ClaimsKept, stake' = stake,
         lossy' \in BOOLEAN, ~lossy' => ~lossy,
         vault' \in Nat, market'.insurance \in Nat, market'.backing \in Nat,
         market' = [insurance |-> market'.insurance, backing |-> market'.backing],
         vault' + market'.insurance + market'.backing <= BaseSupply,
         ~Kicked' => /\ vault' = Outstanding' /\ ~lossy'
                     /\ market'.insurance = 0 /\ market'.backing = 0,
         Finalized' => market'.insurance = 0 /\ market'.backing = 0,
         ~Finalized' => ~Finalized,
         ~lossy' => Outstanding' <= vault' + market'.insurance + market'.backing
  PROVE  CustodyInv'
<1>1. BaseSupply \in Nat
  BY MoneyFacts DEF ClaimFacts
<1>2. stake' \in [Users -> 0 .. BaseSupply]
  BY DEF CustodyInv, CustodyTypeOK
<1>3. \A y \in Users : Remaining(y)' <= stake'[y]
  BY DEF CustodyInv, ClaimsKept
<1>4. ~Finalized' => \A y \in Users : stake'[y] = Remaining(y)'
  BY DEF CustodyInv, ClaimsKept
<1>5. ~lossy' => \A y \in Users : stake'[y] = Remaining(y)'
  BY DEF CustodyInv, ClaimsKept
<1> QED
  BY <1>1, <1>2, <1>3, <1>4, <1>5, InvFromNumbers

(* The balances before a step, part by part.                               *)
LEMMA BalanceFacts ==
  ASSUME CustodyInv
  PROVE  /\ ClaimFacts
         /\ vault \in Nat /\ market.insurance \in Nat /\ market.backing \in Nat
         /\ vault + market.insurance + market.backing <= BaseSupply
         /\ BaseSupply \in Nat /\ lossy \in BOOLEAN
         /\ market = [insurance |-> market.insurance, backing |-> market.backing]
         /\ ~Kicked => /\ vault = Outstanding /\ ~lossy
                       /\ market.insurance = 0 /\ market.backing = 0
         /\ Finalized => market.insurance = 0 /\ market.backing = 0
         /\ ~lossy => Outstanding <= vault + market.insurance + market.backing
         /\ Outstanding \in Nat
         /\ Finalized => Kicked
<1> DEFINE i == market.insurance
           b == market.backing
<1>1. /\ ClaimFacts
      /\ vault \in Nat /\ i \in Nat /\ b \in Nat
      /\ market = [insurance |-> i, backing |-> b]
      /\ InMarket = i + b
      /\ BaseSupply \in Nat /\ Outstanding \in Nat /\ (Finalized => Kicked)
  BY MoneyFacts DEF ClaimFacts
<1>2. /\ vault + InMarket <= BaseSupply
      /\ ~Kicked => vault = Outstanding /\ InMarket = 0 /\ ~lossy
      /\ Finalized => InMarket = 0
      /\ ~lossy => Outstanding <= vault + InMarket
      /\ lossy \in BOOLEAN
  BY DEF CustodyInv, CustodyTypeOK
<1> HIDE DEF i, b
<1>3. /\ vault + i + b <= BaseSupply
      /\ ~Kicked => vault = Outstanding /\ i = 0 /\ b = 0 /\ ~lossy
      /\ Finalized => i = 0 /\ b = 0
      /\ ~lossy => Outstanding <= vault + i + b
  BY <1>1, <1>2
<1> QED
  BY <1>1, <1>2, <1>3 DEF i, b

(* Steps of the books alone, the opening and the end.                      *)
LEMMA BooksKeep ==
  ASSUME CustodyInv, SupplyInv', NothingMoves \/ Opens \/ FinishMade
  PROVE  CustodyInv'
<1>1. ClaimsKept /\ UNCHANGED custody
  BY DEF NothingMoves, Opens, FinishMade
<1>2. Outstanding' = Outstanding
  BY <1>1, ClaimsAddUpAfter, BalanceFacts, OutstandingKept
<1>3. vault' = vault /\ market' = market /\ stake' = stake /\ lossy' = lossy
  BY <1>1 DEF custody
<1>4. /\ ~Kicked' => ~Kicked
      /\ ~Finalized' => ~Finalized
      /\ Finalized' => Finalized \/ InMarket = 0
  BY DEF NothingMoves, Opens, FinishMade, PhaseKept
<1>5. InMarket = 0 => market.insurance = 0 /\ market.backing = 0
  BY BalanceFacts DEF InMarket
<1> QED
  BY <1>1, <1>2, <1>3, <1>4, <1>5, BalanceFacts, ClaimsKeptKeeps

(* Deployment.                                                             *)
LEMMA DeployKeeps ==
  ASSUME CustodyInv, SupplyInv', DeployMade
  PROVE  CustodyInv'
<1>1. /\ ClaimsKept /\ vault' = 0 /\ stake' = stake /\ lossy' = lossy
      /\ ~Kicked /\ Kicked' /\ ~Finalized /\ ~Finalized'
  BY DEF DeployMade
<1>2. PICK i \in Nat, b \in Nat :
        i + b = vault /\ market' = [insurance |-> i, backing |-> b]
  BY DEF DeployMade
<1>3. Outstanding' = Outstanding
  BY <1>1, ClaimsAddUpAfter, BalanceFacts, OutstandingKept
<1>4. vault = Outstanding /\ vault <= BaseSupply /\ vault \in Nat
  BY <1>1, BalanceFacts
<1>5. market'.insurance = i /\ market'.backing = b
  BY <1>2
<1> DEFINE v == vault'
<1>6. v + i + b <= BaseSupply /\ Outstanding' <= v + i + b /\ v \in Nat
  <2>1. v = 0
    BY <1>1
  <2> HIDE DEF v
  <2> QED
    BY <1>2, <1>3, <1>4, <2>1
<1>7. lossy' \in BOOLEAN
  BY <1>1, BalanceFacts
<1> QED
  BY <1>1, <1>2, <1>5, <1>6, <1>7, ClaimsKeptKeeps

(* Recovery.                                                               *)
LEMMA RecoverKeeps ==
  ASSUME CustodyInv, SupplyInv', RecoverMade
  PROVE  CustodyInv'
<1>1. /\ ClaimsKept /\ stake' = stake /\ lossy' = lossy
      /\ Kicked /\ Kicked' /\ ~Finalized /\ ~Finalized'
  BY DEF RecoverMade, PhaseKept, Kicked, Finalized
<1>2. PICK i \in Nat, b \in Nat : PotMoves(i, b) /\ vault' = vault + (i + b)
  BY DEF RecoverMade
<1>3. Outstanding' = Outstanding
  BY <1>1, ClaimsAddUpAfter, BalanceFacts, OutstandingKept
<1>4. /\ i <= market.insurance /\ b <= market.backing
      /\ market' = [insurance |-> market.insurance - i,
                    backing |-> market.backing - b]
  BY <1>2 DEF PotMoves
<1>5. /\ market'.insurance = market.insurance - i
      /\ market'.backing = market.backing - b
      /\ market' = [insurance |-> market'.insurance,
                    backing |-> market'.backing]
  BY <1>4
<1> DEFINE mi == market.insurance
           mb == market.backing
           ni == market'.insurance
           nb == market'.backing
<1>6. /\ vault \in Nat /\ mi \in Nat /\ mb \in Nat /\ BaseSupply \in Nat
      /\ vault + mi + mb <= BaseSupply /\ Outstanding \in Nat
      /\ ~lossy => Outstanding <= vault + mi + mb
      /\ i <= mi /\ b <= mb /\ ni = mi - i /\ nb = mb - b
  BY <1>4, <1>5, BalanceFacts
<1>7. lossy' \in BOOLEAN
  BY <1>1, BalanceFacts
<1>8. /\ ni \in Nat /\ nb \in Nat /\ vault' \in Nat
      /\ vault' + ni + nb <= BaseSupply
      /\ ~lossy => Outstanding <= vault' + ni + nb
  <2> HIDE DEF mi, mb, ni, nb
  <2> QED
    BY <1>2, <1>6
<1> QED
  BY <1>1, <1>3, <1>5, <1>7, <1>8, ClaimsKeptKeeps

(* A draw.                                                                 *)
LEMMA DrawKeeps ==
  ASSUME CustodyInv, SupplyInv', NEW a \in Amounts, DrawMade(a)
  PROVE  CustodyInv'
<1>1. /\ ClaimsKept /\ stake' = stake /\ lossy' = lossy /\ market' = market
      /\ Finalized /\ Kicked' = Kicked /\ Finalized'
      /\ a \in Nat /\ vault' = vault - a /\ Outstanding <= vault'
  BY DEF DrawMade, PhaseKept, Finalized
<1>2. Outstanding' = Outstanding
  BY <1>1, ClaimsAddUpAfter, BalanceFacts, OutstandingKept
<1>3. /\ vault \in Nat /\ Outstanding \in Nat /\ BaseSupply \in Nat
      /\ vault + market.insurance + market.backing <= BaseSupply
      /\ market.insurance = 0 /\ market.backing = 0 /\ lossy \in BOOLEAN
      /\ Kicked
      /\ market = [insurance |-> market.insurance, backing |-> market.backing]
  BY <1>1, BalanceFacts
<1> DEFINE i == market.insurance
           b == market.backing
<1>4. /\ i = 0 /\ b = 0 /\ vault + i + b <= BaseSupply
      /\ vault \in Nat /\ Outstanding \in Nat /\ BaseSupply \in Nat
  BY <1>3
<1>5. /\ vault' \in Nat /\ vault' + i + b <= BaseSupply
      /\ Outstanding <= vault' + i + b /\ i \in Nat /\ b \in Nat
  <2> HIDE DEF i, b
  <2> QED
    BY <1>1, <1>4
<1>6. Kicked'
  BY <1>1, <1>3 DEF Kicked
<1> QED
  BY <1>1, <1>2, <1>3, <1>5, <1>6, ClaimsKeptKeeps

(* A result of the market.                                                 *)
LEMMA MarketKeeps ==
  ASSUME CustodyInv, SupplyInv', MarketMade
  PROVE  CustodyInv'
<1> DEFINE i == market'.insurance
           b == market'.backing
<1>1. /\ ClaimsKept /\ stake' = stake /\ vault' = vault
      /\ Kicked /\ Kicked' /\ InMarket > 0
      /\ Finalized' = Finalized
      /\ market' \in Pots
      /\ vault + i + b <= BaseSupply
      /\ lossy' = (lossy \/ i + b < InMarket)
  BY DEF MarketMade, MarketResult, PhaseKept, Kicked
<1>2. Outstanding' = Outstanding
  BY <1>1, ClaimsAddUpAfter, BalanceFacts, OutstandingKept
<1>3. /\ vault \in Nat /\ Outstanding \in Nat /\ BaseSupply \in Nat
      /\ InMarket \in Nat
      /\ ~lossy => Outstanding <= vault + InMarket
      /\ lossy \in BOOLEAN
  BY MoneyFacts DEF CustodyInv, CustodyTypeOK, ClaimFacts
<1>4. /\ i \in Nat /\ b \in Nat
      /\ market' = [insurance |-> i, backing |-> b]
  BY <1>1, <1>3 DEF Pots
<1>5. ~Finalized /\ ~Finalized'
  BY <1>1 DEF CustodyInv, Finalized
<1>6. /\ lossy' \in BOOLEAN
      /\ ~lossy' => ~lossy
      /\ ~lossy' => ~(i + b < InMarket)
  <2> HIDE DEF i, b
  <2> QED
    BY <1>1
<1>7. ~lossy' => Outstanding <= vault + i + b
  <2> HIDE DEF i, b
  <2> QED
    BY <1>3, <1>4, <1>6
<1> QED
  BY <1>1, <1>2, <1>3, <1>4, <1>5, <1>6, <1>7, ClaimsKeptKeeps

(* Every step of ledger and money keeps it.                                *)
LEMMA MoneyKeeps ==
  ASSUME CustodyInv, SupplyInv', MoneyStep
  PROVE  CustodyInv'
BY BondKeeps, ExitKeeps, SettleKeeps, BooksKeep, DeployKeeps, RecoverKeeps,
   DrawKeeps, MarketKeeps
DEF MoneyStep

(* A step of the money is one of the ledger and keeps both invariants.     *)
LEMMA NextCustody ==
  ASSUME LayerKept, CustodyInv, [CustodyNext]_cvars
  PROVE  CustodyInv' /\ [Next]_vars /\ MoneyStep
<1>1. [Next]_vars
  BY StepsOfLedger
<1>2. SupplyInv'
  BY <1>1, NextSupply DEF LayerKept, CustodyInv
<1>3. MoneyStep
  BY <1>2, StepMoves
<1> QED
  BY <1>1, <1>2, <1>3, MoneyKeeps

(* Genesis starts without money.                                           *)
LEMMA InitCustody == CustodyInit => CustodyInv
<1> SUFFICES ASSUME CustodyInit PROVE CustodyInv
  OBVIOUS
<1>1. SupplyInv
  BY InitSupply DEF CustodyInit
<1>2. ClaimFacts
  BY <1>1, ClaimsAddUp
<1>3. /\ market = [insurance |-> 0, backing |-> 0] /\ vault = 0
      /\ stake = [u \in Users |-> 0] /\ lossy = FALSE
      /\ ~Kicked /\ ~Finalized
  BY DEF CustodyInit, Init, Kicked, Finalized
<1>4. \A u \in Users : Remaining(u) = 0
  BY WordAssumption DEF CustodyInit, Init, Remaining, WSub
<1>5. Outstanding = 0
  BY WordAssumption DEF CustodyInit, Init, Outstanding, WSub
<1>6. BaseSupply \in Nat
  BY <1>2 DEF ClaimFacts
<1>7. InMarket = 0 /\ CustodyTypeOK
  <2>1. 0 \in 0 .. BaseSupply
    BY <1>6
  <2>2. market \in Pots /\ market.insurance + market.backing = 0
    BY <1>3, <2>1 DEF Pots
  <2>3. stake \in [Users -> 0 .. BaseSupply]
    BY <1>3, <2>1
  <2> QED
    BY <1>3, <2>1, <2>2, <2>3 DEF InMarket, CustodyTypeOK
<1>8. \A u \in Users : stake[u] = 0
  BY <1>3
<1>9. vault + InMarket <= BaseSupply /\ Outstanding <= vault + InMarket
      /\ vault = Outstanding
  BY <1>3, <1>5, <1>6, <1>7
<1>10. \A u \in Users : stake[u] = Remaining(u) /\ Remaining(u) <= stake[u]
  BY <1>4, <1>8
<1> QED
  BY <1>1, <1>3, <1>7, <1>9, <1>10 DEF CustodyInv

(* The invariant holds throughout.                                         *)
LEMMA Custody == ASSUME LayerKept
                 PROVE  CustodySpec => []CustodyInv
<1>1. CustodyInv /\ [CustodyNext]_cvars => CustodyInv'
  BY NextCustody
<1> QED
  BY <1>1, InitCustody, PTL DEF CustodySpec

(* The ledger with its money is a run of the ledger: what is proved of the *)
(* handlers under arbitrary balances holds of them under the real ones.    *)
THEOREM CustodyRunsLedger == ASSUME LayerKept
                             PROVE  CustodySpec => Spec
<1>1. CustodyInv /\ [CustodyNext]_cvars => [Next]_vars
  BY NextCustody
<1>2. CustodyInit => Init
  BY DEF CustodyInit
<1> QED
  BY <1>1, <1>2, Custody, PTL DEF CustodySpec, Spec

(* No balance is ever negative or larger than the supply of base units.    *)
THEOREM CustodyTypes == ASSUME LayerKept
                        PROVE  CustodySpec => []CustodyTypeOK
<1>1. CustodyInv => CustodyTypeOK
  BY DEF CustodyInv
<1> QED
  BY <1>1, Custody, PTL

(* Every base unit a position has retired was paid to its owner, on each   *)
(* of the paths out, until genesis ends and, if the market never lost,     *)
(* after.                                                                  *)
THEOREM PaidInFull == ASSUME LayerKept
                      PROVE  CustodySpec => []RetiredIsPaid
<1>1. CustodyInv => RetiredIsPaid
  BY DEF CustodyInv, RetiredIsPaid
<1> QED
  BY <1>1, Custody, PTL

(* The claims as a sum.                                                    *)
LEMMA ClaimsSum ==
  ASSUME ClaimFacts
  PROVE  /\ IsFiniteSet(Users) /\ DOMAIN Claims = Users
         /\ \A u \in Users : Claims[u] = Remaining(u) /\ Claims[u] \in Nat
         /\ SumFunction(Claims) = Outstanding
         /\ SumFunctionOnSet(Claims, Users) = Outstanding
<1>1. DOMAIN Claims = Users /\ \A u \in Users : Claims[u] = Remaining(u)
  BY DEF Claims
<1>2. SumFunction(Claims) = SumFunctionOnSet(Claims, Users)
  BY <1>1 DEF SumFunction
<1> QED
  BY <1>1, <1>2 DEF ClaimFacts

(* The sums of the instances are the sums.                                 *)
LEMMA MathSumOnSet ==
  ASSUME NEW f, NEW S
  PROVE  Math!SumFunctionOnSet(f, S) = SumFunctionOnSet(f, S)
BY SumIsFold
DEF Math!SumFunctionOnSet, Math!FoldFunctionOnSet, Math!MapThenFoldSet, Sums,
    Pick

(* ... over a whole function, ...                                          *)
LEMMA MathSum == ASSUME NEW f PROVE Math!SumFunction(f) = SumFunction(f)
BY MathSumOnSet DEF Math!SumFunction, SumFunction

(* ... and the same for the treasury.                                      *)
LEMMA TreasurySumOnSet ==
  ASSUME NEW f, NEW S
  PROVE  Treasury!SumFunctionOnSet(f, S) = SumFunctionOnSet(f, S)
BY SumIsFold
DEF Treasury!SumFunctionOnSet, Treasury!FoldFunctionOnSet,
    Treasury!MapThenFoldSet, Sums, Pick

(* Over a whole function.                                                  *)
LEMMA TreasurySum == ASSUME NEW f PROVE Treasury!SumFunction(f) = SumFunction(f)
BY TreasurySumOnSet DEF Treasury!SumFunction, SumFunction

(* The wind-down never promises the claims that are left more than the     *)
(* vault holds, for any claims and any loss.                               *)
THEOREM AuditHolds == ASSUME LayerKept
                      PROVE  CustodySpec => []AuditPayable
<1>1. ASSUME CustodyInv
      PROVE  AuditPayable
  <2>1. ClaimFacts /\ vault \in Nat
    BY <1>1, MoneyFacts
  <2>2. /\ IsFiniteSet(Users) /\ DOMAIN Claims = Users
        /\ \A u \in Users : Claims[u] = Remaining(u) /\ Claims[u] \in Nat
        /\ SumFunction(Claims) = Outstanding
        /\ SumFunctionOnSet(Claims, Users) = Outstanding
    BY <2>1, ClaimsSum
  <2>3. \A u \in Users : Remaining(u) \in Nat /\ Remaining(u) <= Outstanding
    BY <2>1 DEF ClaimFacts
  <2>4. Outstanding \in Nat
    BY <2>1 DEF ClaimFacts
  <2> DEFINE f == [d \in Users |->
                     Math!unwrap_or(Math!genesis_recoverable_principal(
                                      Claims[d], vault, Outstanding), 0)]
  <2>5. \A u \in Users :
          f[u] = Portion(Claims[u], vault, SumFunctionOnSet(Claims, Users))
    <3> SUFFICES ASSUME NEW u \in Users
                 PROVE  Math!unwrap_or(Math!genesis_recoverable_principal(
                          Claims[u], vault, Outstanding), 0)
                          = Portion(Claims[u], vault, Outstanding)
      BY <2>2
    <3>1. Claims[u] \in Nat /\ Claims[u] <= Outstanding
      BY <2>2, <2>3
    <3> QED
      BY <2>1, <2>4, <3>1, ShareIsPortion
  <2>6. Math!rent_breakdown(Claims, vault).returned_to_users = SumFunction(f)
    <3> DEFINE g == [d \in DOMAIN Claims |->
                       Math!unwrap_or(Math!genesis_recoverable_principal(
                         Claims[d], vault, SumFunction(Claims)), 0)]
    <3>1. Math!rent_breakdown(Claims, vault).returned_to_users = Math!SumFunction(g)
      BY MathSum DEF Math!rent_breakdown
    <3>2. g = f
      BY <2>2
    <3> HIDE DEF f, g
    <3> QED
      BY <3>1, <3>2, MathSum
  <2>7. SumFunction(f) = SumFunctionOnSet(f, Users)
    BY DEF SumFunction
  <2> HIDE DEF f
  <2>8. SumFunctionOnSet(f, Users) <= vault
    BY <2>1, <2>2, <2>5, PortionsAddUp
  <2> QED
    BY <2>6, <2>7, <2>8 DEF AuditPayable
<1> QED
  BY <1>1, Custody, PTL

------------------------------------------------------------------------------
(* What a step may never do.                                               *)

OthersStep ==
  Finalized => \A u \in Users :
    Remaining(u)' = Remaining(u) => ShareOf(u)' >= ShareOf(u)

(* The share a depositor is told is his portion of the vault.              *)
LEMMA ShareOfClaim ==
  ASSUME ClaimFacts, vault \in Nat, NEW u \in Users
  PROVE  ShareOf(u) = Portion(Remaining(u), vault, Outstanding)
<1>1. Remaining(u) \in Nat /\ Remaining(u) <= Outstanding /\ Outstanding \in Nat
  BY DEF ClaimFacts
<1> QED
  BY <1>1, ShareIsPortion DEF ShareOf

(* The same after a step.                                                  *)
LEMMA ShareOfClaimAfter ==
  ASSUME ClaimFacts', vault' \in Nat, NEW u \in Users
  PROVE  ShareOf(u)' = Portion(Remaining(u)', vault', Outstanding')
<1>1. Remaining(u)' \in Nat /\ Remaining(u)' <= Outstanding'
      /\ Outstanding' \in Nat
  BY DEF ClaimFacts
<1> QED
  BY <1>1, ShareIsPortion DEF ShareOf

(* The invariant after a step, in numbers.                                 *)
LEMMA NumbersAfter ==
  ASSUME CustodyInv' PROVE ClaimFacts' /\ vault' \in Nat
<1>1. SupplyInv' /\ vault' \in 0 .. BaseSupply
  BY DEF CustodyInv, CustodyTypeOK
<1>2. ClaimFacts' /\ BaseSupply \in Nat
  BY <1>1, ClaimsAddUpAfter DEF ClaimFacts
<1> QED
  BY <1>1, <1>2

(* Nobody's share goes down when somebody else leaves or the DAO draws.    *)
LEMMA StepUnharmed ==
  ASSUME CustodyInv, CustodyInv', MoneyStep
  PROVE  OthersStep
<1> SUFFICES ASSUME Finalized, NEW u \in Users, Remaining(u)' = Remaining(u)
             PROVE  ShareOf(u)' >= ShareOf(u)
  BY DEF OthersStep
<1> DEFINE r == Remaining(u)
           v == vault
           o == Outstanding
           v2 == vault'
           o2 == Outstanding'
<1>1. /\ ClaimFacts /\ ClaimFacts'
      /\ v \in Nat /\ v2 \in Nat /\ o \in Nat /\ o2 \in Nat
      /\ r \in Nat /\ r <= o /\ r <= o2
  BY MoneyFacts, NumbersAfter DEF ClaimFacts
<1>2. ShareOf(u) = Portion(r, v, o) /\ ShareOf(u)' = Portion(r, v2, o2)
  BY <1>1, ShareOfClaim, ShareOfClaimAfter
<1>3. /\ Portion(r, v, o) \in Nat /\ Portion(r, v, o) <= r
      /\ Portion(r, v2, o2) \in Nat
  <2> HIDE DEF r, v, o, v2, o2
  <2> QED
    BY <1>1, PortionBounds
<1>4. CASE NothingMoves
  <2>1. v2 = v /\ o2 = o
    BY <1>1, <1>4, OutstandingKept DEF NothingMoves, custody
  <2> HIDE DEF r, v, o, v2, o2
  <2> QED
    BY <1>2, <1>3, <2>1
<1>5. ASSUME NEW w \in Users, SettleMade(w)
      PROVE  ShareOf(u)' >= ShareOf(u)
  <2> DEFINE x == Remaining(w)
  <2>1. ClaimShrinks(w, x) /\ v2 = v - Portion(x, v, o) /\ x \in Nat
    BY <1>1, <1>5 DEF SettleMade, Pay, Settled, ClaimFacts
  <2>2. o2 = o - x
    BY <1>1, <2>1, OutstandingShrinks
  <2> HIDE DEF r, v, o, v2, o2, x
  <2>3. r + x <= o
    BY <1>1, <2>1, <2>2
  <2>4. Portion(r, v, o) <= Portion(r, v2, o2)
    BY <1>1, <2>1, <2>2, <2>3, PortionOfOthers
  <2> QED
    BY <1>2, <1>3, <2>4
<1>6. ASSUME NEW a \in Amounts, DrawMade(a)
      PROVE  ShareOf(u)' >= ShareOf(u)
  <2>1. o2 = o /\ o <= v2
    BY <1>1, <1>6, OutstandingKept DEF DrawMade
  <2> HIDE DEF r, v, o, v2, o2
  <2>2. Portion(r, v2, o2) = r
    BY <1>1, <2>1 DEF Portion
  <2> QED
    BY <1>2, <1>3, <2>2
<1>7. ~MarketMade
  BY BalanceFacts DEF MarketMade, MarketResult, CustodyInv
<1>8. /\ ~Opens /\ ~DeployMade /\ ~RecoverMade /\ ~FinishMade
      /\ \A w \in Users, a \in Amounts : ~BondMade(w, a)
      /\ \A w \in Users, x \in Nat : ~ExitMade(w, x)
  BY DEF Opens, DeployMade, RecoverMade, FinishMade, BondMade, ExitMade
<1> QED
  BY <1>4, <1>5, <1>6, <1>7, <1>8 DEF MoneyStep

(* Payouts floor, and what the roundings leave stays in the vault: after   *)
(* genesis no exit of another and no draw lowers anybody's own share.      *)
THEOREM Unharmed == ASSUME LayerKept
                    PROVE  CustodySpec => OthersUnharmed
<1>1. CustodyInv /\ [CustodyNext]_cvars => CustodyInv' /\ MoneyStep
  BY NextCustody
<1>2. CustodyInv /\ [CustodyNext]_cvars => [OthersStep]_cvars
  BY <1>1, StepUnharmed
<1> QED
  BY <1>2, Custody, PTL DEF CustodySpec, OthersUnharmed, OthersStep

------------------------------------------------------------------------------
(* Refinement of the treasury: a phase, the claims, and one pot.           *)

(* What the pot holds is what vault and market hold together.              *)
Pot == vault + InMarket

(* The phases, where the lifecycle holds.                                  *)
LEMMA PhaseOf ==
  ASSUME ClaimFacts
  PROVE  /\ Config \notin accounts => Phase = "absent" /\ ~Kicked /\ ~Finalized
         /\ Config \in accounts /\ ~Kicked => Phase = "open"
         /\ Kicked /\ ~Finalized => Phase = "kicked"
         /\ Finalized => Phase = "final"
BY DEF ClaimFacts, Phase

(* The same after a step.                                                  *)
LEMMA PhaseAfter ==
  ASSUME ClaimFacts'
  PROVE  /\ Config \in accounts' /\ ~Kicked' => Phase' = "open"
         /\ Kicked' /\ ~Finalized' => Phase' = "kicked"
         /\ Finalized' => Phase' = "final"
BY DEF ClaimFacts, Phase

(* A step that keeps the phase's parts keeps the phase.                    *)
LEMMA PhaseSame == ASSUME PhaseKept PROVE Phase' = Phase
BY DEF PhaseKept, Phase

(* Claims that do not move are the same function.                          *)
LEMMA ClaimsSame == ASSUME ClaimsKept PROVE Claims' = Claims
BY DEF ClaimsKept, Claims

(* A claim that moves is an update of it.                                  *)
LEMMA ClaimsUpdate ==
  ASSUME NEW u \in Users, NEW x, ClaimShrinks(u, x)
  PROVE  /\ Claims' = [Claims EXCEPT ![u] = Claims'[u]]
         /\ Claims'[u] = Claims[u] - x
         /\ Claims[u] = Remaining(u)
<1>1. /\ Claims = [y \in Users |-> Remaining(y)]
      /\ Claims' = [y \in Users |-> Remaining(y)']
  BY DEF Claims
<1>2. /\ Remaining(u)' = Remaining(u) - x
      /\ \A y \in Users : y # u => Remaining(y)' = Remaining(y)
  BY DEF ClaimShrinks
<1> QED
  BY <1>1, <1>2

(* The initial ledger has an absent treasury.                              *)
LEMMA InitTreasury == CustodyInit => Treasury!Init
<1> SUFFICES ASSUME CustodyInit PROVE Treasury!Init
  OBVIOUS
<1>1. Phase = "absent"
  BY DEF CustodyInit, Init, Phase
<1>2. \A u \in Users : Remaining(u) = 0
  BY WordAssumption DEF CustodyInit, Init, Remaining, WSub
<1>3. Claims = [u \in Users |-> 0]
  BY <1>2 DEF Claims
<1>4. vault + InMarket = 0
  BY DEF CustodyInit, InMarket
<1> QED
  BY <1>1, <1>3, <1>4 DEF Treasury!Init

(* Moving money between vault and market, or none, is no step of the       *)
(* treasury.                                                               *)
LEMMA TreasuryStutter ==
  ASSUME CustodyInv, NothingMoves \/ RecoverMade
  PROVE  UNCHANGED Treasury!treasury
<1>1. Phase' = Phase /\ Claims' = Claims
  BY PhaseSame, ClaimsSame DEF NothingMoves, RecoverMade
<1>2. Pot' = Pot
  <2>1. CASE NothingMoves
    BY <2>1 DEF NothingMoves, custody, Pot, InMarket
  <2>2. CASE RecoverMade
    <3>1. PICK i \in Nat, b \in Nat : PotMoves(i, b) /\ vault' = vault + (i + b)
      BY <2>2 DEF RecoverMade
    <3>2. /\ market'.insurance = market.insurance - i
          /\ market'.backing = market.backing - b
      BY <3>1 DEF PotMoves
    <3>3. vault \in Nat /\ market.insurance \in Nat /\ market.backing \in Nat
      BY BalanceFacts
    <3>4. /\ InMarket = market.insurance + market.backing
          /\ InMarket' = market'.insurance + market'.backing
      BY DEF InMarket
    <3> QED
      BY <3>1, <3>2, <3>3, <3>4 DEF Pot
  <2> QED
    BY <2>1, <2>2
<1> QED
  BY <1>1, <1>2 DEF Treasury!treasury, Pot

(* Opening, deployment and the end advance it and move no base unit.       *)
LEMMA TreasuryAdvance ==
  ASSUME CustodyInv, CustodyInv', Opens \/ DeployMade \/ FinishMade
  PROVE  Treasury!Advance
<1>1. ClaimFacts /\ ClaimFacts'
  BY MoneyFacts, NumbersAfter
<1>2. <<Phase, Phase'>> \in {<<"absent", "open">>, <<"open", "kicked">>,
                             <<"kicked", "final">>}
  <2>1. CASE Opens
    BY <1>1, <2>1, PhaseOf, PhaseAfter DEF Opens
  <2>2. CASE DeployMade
    BY <1>1, <2>2, PhaseOf, PhaseAfter DEF DeployMade
  <2>3. CASE FinishMade
    BY <1>1, <2>3, PhaseOf, PhaseAfter DEF FinishMade
  <2> QED
    BY <2>1, <2>2, <2>3
<1>3. Claims' = Claims
  BY ClaimsSame DEF Opens, DeployMade, FinishMade
<1>4. Pot' = Pot
  <2>1. CASE DeployMade
    <3>1. PICK i \in Nat, b \in Nat :
            i + b = vault /\ market' = [insurance |-> i, backing |-> b]
      BY <2>1 DEF DeployMade
    <3>2. InMarket' = i + b /\ vault' = 0
      BY <2>1, <3>1 DEF DeployMade, InMarket
    <3>3. InMarket = 0 /\ vault \in Nat
      BY <2>1, MoneyFacts DEF DeployMade, CustodyInv
    <3> QED
      BY <3>1, <3>2, <3>3 DEF Pot
  <2>2. CASE Opens \/ FinishMade
    BY <2>2 DEF Opens, FinishMade, custody, Pot, InMarket
  <2> QED
    BY <2>1, <2>2
<1> QED
  BY <1>2, <1>3, <1>4 DEF Treasury!Advance, Pot

(* A bond goes into the pot.                                               *)
LEMMA TreasuryBond ==
  ASSUME CustodyInv, NEW u \in Users, NEW a \in Amounts, BondMade(u, a)
  PROVE  Treasury!Bond(u)
<1>1. /\ ClaimFacts /\ vault \in Nat /\ InMarket \in Nat
      /\ Remaining(u) \in Int
  BY MoneyFacts DEF ClaimFacts
<1>2. /\ a \in Nat /\ ~Kicked /\ Config \in accounts /\ PhaseKept
      /\ ClaimShrinks(u, -a) /\ vault' = vault + a /\ market' = market
  BY DEF BondMade
<1>3. Phase = "open" /\ Phase' = Phase
  BY <1>1, <1>2, PhaseOf, PhaseSame
<1>4. /\ Claims' = [Claims EXCEPT ![u] = Claims'[u]]
      /\ Claims'[u] = Claims[u] - (-a) /\ Claims[u] \in Int
  BY <1>1, <1>2, ClaimsUpdate
<1> DEFINE c == Claims[u]
           d == Claims'[u]
<1>5. d >= c /\ d - c = a
  <2>1. d = c - (-a) /\ c \in Int
    BY <1>4
  <2> HIDE DEF c, d
  <2> QED
    BY <1>2, <2>1
<1>6. InMarket' = InMarket
  BY <1>2 DEF InMarket
<1>7. Pot' - Pot = d - c
  <2> HIDE DEF c, d
  <2> QED
    BY <1>1, <1>2, <1>5, <1>6 DEF Pot
<1> QED
  BY <1>3, <1>4, <1>5, <1>7 DEF Treasury!Bond, Pot

(* Who leaves before the end takes out what his claim shrinks by.          *)
LEMMA TreasuryLeave ==
  ASSUME CustodyInv, NEW u \in Users, NEW x \in Nat, ExitMade(u, x)
  PROVE  Treasury!Leave(u) \/ UNCHANGED Treasury!treasury
<1>1. /\ ClaimFacts /\ vault \in Nat /\ InMarket \in Nat
      /\ market.insurance \in Nat /\ market.backing \in Nat
      /\ InMarket = market.insurance + market.backing
      /\ Remaining(u) \in Nat
  BY MoneyFacts DEF ClaimFacts
<1>2. /\ ~Finalized /\ x \in 0 .. Remaining(u) /\ PhaseKept
      /\ ClaimShrinks(u, x)
  BY DEF ExitMade
<1>3. /\ Claims' = [Claims EXCEPT ![u] = Claims'[u]]
      /\ Claims'[u] = Claims[u] - x /\ Claims[u] = Remaining(u)
  BY <1>2, ClaimsUpdate
<1>4. Pot' = Pot - x
  <2>1. CASE ~Kicked /\ vault' = vault - x /\ UNCHANGED market
    <3>1. InMarket' = InMarket
      BY <2>1 DEF InMarket
    <3> QED
      BY <1>1, <2>1, <3>1 DEF Pot
  <2>2. ASSUME NEW i \in Nat, NEW b \in Nat, PotMoves(i, b),
               vault' = vault + (i + b) - x
        PROVE  Pot' = Pot - x
    <3>1. /\ market'.insurance = market.insurance - i
          /\ market'.backing = market.backing - b
      BY <2>2 DEF PotMoves
    <3>2. InMarket' = market'.insurance + market'.backing
      BY DEF InMarket
    <3> QED
      BY <1>1, <2>2, <3>1, <3>2 DEF Pot
  <2> QED
    BY <2>1, <2>2 DEF ExitMade
<1>5. Phase' = Phase
  BY <1>2, PhaseSame
<1>6. CASE Config \in accounts
  <2>1. Phase \in {"open", "kicked"}
    BY <1>1, <1>2, <1>6, PhaseOf
  <2> DEFINE c == Claims[u]
             d == Claims'[u]
  <2>2. d \in 0 .. c /\ Pot - Pot' = c - d
    <3>1. d = c - x /\ c = Remaining(u) /\ Pot \in Nat
      BY <1>1, <1>3 DEF Pot
    <3> HIDE DEF c, d
    <3> QED
      BY <1>1, <1>2, <1>4, <3>1
  <2>3. Treasury!Leave(u)
    BY <1>3, <1>5, <2>1, <2>2 DEF Treasury!Leave, Pot
  <2> QED
    BY <2>3
<1>7. CASE Config \notin accounts
  <2>1. ~Kicked
    BY <1>1, <1>7, PhaseOf
  <2>2. Outstanding = 0
    <3>1. cfg.total_deposited = 0 /\ cfg.total_withdrawn = 0
      BY <1>7 DEF CustodyInv, SupplyInv, PoolInv
    <3> QED
      BY <1>1, <3>1 DEF ClaimFacts
  <2>3. x = 0
    BY <1>1, <1>2, <2>2 DEF ClaimFacts
  <2> DEFINE c == Claims[u]
  <2>4. Claims' = Claims
    <3>1. c - x = c /\ c = Remaining(u)
      BY <1>1, <1>3, <2>3
    <3>2. Claims'[u] = c
      BY <1>3, <3>1
    <3>3. Claims' = [Claims EXCEPT ![u] = Claims[u]]
      BY <1>3, <3>2
    <3> QED
      BY <3>3 DEF Claims
  <2>5. Pot' = Pot
    <3>1. Pot \in Nat
      BY <1>1 DEF Pot
    <3> QED
      BY <1>4, <2>3, <3>1
  <2> QED
    BY <1>5, <2>4, <2>5 DEF Treasury!treasury, Pot
<1> QED
  BY <1>6, <1>7

(* After the end he takes his share of the pot.                            *)
LEMMA TreasurySettle ==
  ASSUME CustodyInv, NEW u \in Users, SettleMade(u)
  PROVE  Treasury!Settle(u)
<1>1. /\ ClaimFacts /\ vault \in Nat /\ Remaining(u) \in Nat
  BY MoneyFacts DEF ClaimFacts
<1>2. /\ Finalized /\ PhaseKept /\ ClaimShrinks(u, Remaining(u))
      /\ vault' = vault - Settled(u) /\ market' = market
  BY DEF SettleMade, Pay
<1>3. InMarket = 0 /\ InMarket' = 0
  BY <1>2 DEF CustodyInv, InMarket
<1>4. Phase = "final" /\ Phase' = Phase
  BY <1>1, <1>2, PhaseOf, PhaseSame
<1>5. /\ Claims' = [Claims EXCEPT ![u] = Claims'[u]]
      /\ Claims'[u] = Claims[u] - Remaining(u) /\ Claims[u] = Remaining(u)
  BY <1>2, ClaimsUpdate
<1>6. Claims' = [Claims EXCEPT ![u] = 0]
  <2>1. Claims'[u] = 0
    BY <1>1, <1>5
  <2> QED
    BY <1>5, <2>1
<1>7. Pot = vault /\ Pot' = vault'
  <2>1. vault + 0 = vault
    BY <1>1
  <2>2. vault' + 0 = vault'
    <3>1. vault' \in Int
      <4>1. Settled(u) \in Nat
        BY <1>1, PortionBounds DEF Settled, ClaimFacts
      <4> QED
        BY <1>1, <1>2, <4>1
    <3> DEFINE v == vault'
    <3>2. v \in Int
      BY <3>1
    <3>3. v + 0 = v
      <4> HIDE DEF v
      <4> QED
        BY <3>2
    <3> QED
      BY <3>3
  <2> QED
    BY <1>3, <2>1, <2>2 DEF Pot
<1>8. Treasury!Share(u) = Settled(u)
  <2>1. Treasury!Owed = Outstanding
    BY <1>1, ClaimsSum, TreasurySum DEF Treasury!Owed
  <2>2. vault + InMarket = vault
    BY <1>7 DEF Pot
  <2> QED
    BY <1>5, <2>1, <2>2 DEF Treasury!Share, Settled, Portion
<1>9. vault' + InMarket' = (vault + InMarket) - Treasury!Share(u)
  BY <1>2, <1>7, <1>8 DEF Pot
<1> QED
  BY <1>4, <1>6, <1>9 DEF Treasury!Settle

(* The DAO draws what no claim covers, and the market trades the pot.      *)
LEMMA TreasuryDraw ==
  ASSUME CustodyInv, NEW a \in Amounts, DrawMade(a)
  PROVE  Treasury!Draw
<1>1. ClaimFacts /\ vault \in Nat /\ Outstanding \in Nat
  BY MoneyFacts DEF ClaimFacts
<1>2. /\ Finalized /\ ClaimsKept /\ PhaseKept /\ a \in Nat
      /\ vault' = vault - a /\ Outstanding <= vault' /\ market' = market
  BY DEF DrawMade
<1>3. InMarket = 0 /\ InMarket' = 0
  BY <1>2 DEF CustodyInv, InMarket
<1>4. Treasury!Owed = Outstanding
  BY <1>1, ClaimsSum, TreasurySum DEF Treasury!Owed
<1>5. Pot' \in Outstanding .. Pot
  BY <1>1, <1>2, <1>3 DEF Pot
<1>6. Phase = "final" /\ Phase' = Phase /\ Claims' = Claims
  BY <1>1, <1>2, PhaseOf, PhaseSame, ClaimsSame
<1> QED
  BY <1>4, <1>5, <1>6 DEF Treasury!Draw, Pot

(* A result of the market is a trade.                                      *)
LEMMA TreasuryTrade ==
  ASSUME CustodyInv, CustodyInv', MarketMade
  PROVE  Treasury!Trade
<1>1. ClaimFacts /\ ClaimsKept /\ PhaseKept /\ Kicked /\ InMarket > 0
  BY MoneyFacts DEF MarketMade, MarketResult
<1>2. ~Finalized
  BY <1>1 DEF CustodyInv
<1>3. Phase = "kicked" /\ Phase' = Phase /\ Claims' = Claims
  BY <1>1, <1>2, PhaseOf, PhaseSame, ClaimsSame
<1>4. vault' \in Nat /\ InMarket' \in Nat
  <2>1. market' \in Pots /\ vault' = vault /\ vault \in Nat /\ BaseSupply \in Nat
    BY MoneyFacts DEF MarketMade, MarketResult, ClaimFacts
  <2>2. market'.insurance \in Nat /\ market'.backing \in Nat
    BY <2>1 DEF Pots
  <2> QED
    BY <2>1, <2>2 DEF InMarket
<1> DEFINE v == vault'
           m == InMarket'
<1>5. v + m >= 0
  <2>1. v \in Nat /\ m \in Nat
    BY <1>4
  <2> HIDE DEF v, m
  <2> QED
    BY <2>1
<1> QED
  BY <1>3, <1>5 DEF Treasury!Trade, Pot

(* Every step is one of the treasury's, or none.                           *)
LEMMA StepTreasury ==
  ASSUME CustodyInv, CustodyInv', MoneyStep
  PROVE  [Treasury!Next]_(Treasury!treasury)
BY TreasuryStutter, TreasuryAdvance, TreasuryBond, TreasuryLeave,
   TreasurySettle, TreasuryDraw, TreasuryTrade
DEF MoneyStep, Treasury!Next

(* Books and money together keep the promise of the treasury: there is no  *)
(* other way out of the pot than a claim, a loss or a surplus.             *)
THEOREM CustodyImplementsTreasury ==
  ASSUME LayerKept PROVE CustodySpec => ImplementsTreasury
<1>1. CustodyInv /\ [CustodyNext]_cvars => CustodyInv' /\ MoneyStep
  BY NextCustody
<1>2. CustodyInv /\ [CustodyNext]_cvars => [Treasury!Next]_(Treasury!treasury)
  BY <1>1, StepTreasury
<1> QED
  BY <1>2, Custody, InitTreasury, PTL
  DEF CustodySpec, ImplementsTreasury, Treasury!Spec
===============================================================================
