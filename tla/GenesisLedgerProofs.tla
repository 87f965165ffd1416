------------------------- MODULE GenesisLedgerProofs -------------------------
(***************************************************************************)
(* What holds of the genesis ledger for every number of depositors and     *)
(* items, every word width and every input.  Type correctness needs no     *)
(* external guard; the lifecycle results need that the config account is   *)
(* created once.                                                           *)
(***************************************************************************)
EXTENDS GenesisRefinement, FiniteSetTheorems, TLAPS

------------------------------------------------------------------------------
(* Word arithmetic.                                                        *)

(* The VM's addition stays in a word.                                      *)
LEMMA WAddType == ASSUME NEW a \in Word, NEW b \in Word
                  PROVE  WAdd(a, b) \in Word
BY WordAssumption DEF WAdd, Word

(* The VM's subtraction stays in a word.                                   *)
LEMMA WSubType == ASSUME NEW a \in Word, NEW b \in Word
                  PROVE  WSub(a, b) \in Word
BY WordAssumption DEF WSub, Word

(* A minimum is one of its arguments and below both.                       *)
LEMMA WMinType == ASSUME NEW a \in Word, NEW b \in Word
                  PROVE  /\ WMin(a, b) \in Word
                         /\ WMin(a, b) <= a
                         /\ WMin(a, b) <= b
BY WordAssumption DEF WMin, Word

(* The VM's multiplication stays in a word.                                *)
LEMMA WMulType == ASSUME NEW a \in Nat, NEW b \in Word
                  PROVE  WMul(a, b) \in Word
<1>1. a * b \in Int
  BY WordAssumption DEF Word
<1>2. W \in Nat /\ W > 0
  BY WordAssumption
<1>3. \A x \in Int : x % W \in 0 .. W - 1
  BY <1>2
<1> QED
  BY <1>1, <1>3 DEF WMul, Word

(* The halving count of an age is a natural number.                        *)
LEMMA HalvingsType == ASSUME NEW age \in Word
                      PROVE  Halvings(age) \in Nat
<1>1. age \in Nat
  BY WordAssumption DEF Word
<1>2. IsFiniteSet(1 .. age)
  BY <1>1, FS_Interval
<1>3. IsFiniteSet({k \in 1 .. age : 2^k <= age})
  BY <1>2, FS_Subset
<1> QED
  BY <1>3, FS_CardinalityType DEF Halvings

(* A position's claim is a word.                                           *)
LEMMA RemainingType == ASSUME LedgerTypeOK, NEW u \in Users
                       PROVE  Remaining(u) \in Word
BY WSubType DEF LedgerTypeOK, Remaining, GenesisPosition

(* The weight of a ballot is a word.                                       *)
LEMMA VoteWeightType ==
  ASSUME LedgerTypeOK, NEW u \in Users, NEW now \in Slots
  PROVE  VoteWeight(u, now) \in Word
<1>1. pos[u] \in GenesisPosition /\ now \in Word
  BY InputAssumption DEF LedgerTypeOK
<1>2. Remaining(u) \in Word
  BY RemainingType
<1>3. WSub(now, pos[u].start_slot) \in Word
  BY <1>1, WSubType DEF GenesisPosition
<1>4. WMul(Halvings(WSub(now, pos[u].start_slot)), Remaining(u)) \in Word
  BY <1>2, <1>3, HalvingsType, WMulType
<1>5. 0 \in Word
  BY WordAssumption DEF Word
<1> QED
  BY <1>2, <1>4, <1>5 DEF VoteWeight

------------------------------------------------------------------------------
(* Type correctness.                                                       *)

(* The accounts start well typed.                                          *)
LEMMA InitTypeOK == Init => LedgerTypeOK
<1>1. 0 \in Word
  BY WordAssumption DEF Word
<1> QED
  BY <1>1 DEF Init, LedgerTypeOK, GenesisConfig, GenesisPosition,
     GenesisDistribution, GenesisDistributionVote, STATUS_OK, Statuses

(* A refused call keeps the types.                                         *)
LEMMA RefuseTypeOK == ASSUME LedgerTypeOK, NEW s \in Statuses, Refuse(s)
                      PROVE  LedgerTypeOK'
BY DEF LedgerTypeOK, Refuse, ledger

(* Every handler keeps the types.                                          *)
LEMMA NextTypeOK == LedgerTypeOK /\ [Next]_vars => LedgerTypeOK'
<1> SUFFICES ASSUME LedgerTypeOK, [Next]_vars
             PROVE  LedgerTypeOK'
  OBVIOUS
<1> USE DEF STATUS_OK, STATUS_DEPOSITS_CLOSED, STATUS_NOT_KICKED,
     STATUS_ALREADY_FINALIZED, STATUS_NO_MAJORITY, STATUS_NO_QUORUM,
     STATUS_SUPPLY_OVERFLOW, STATUS_SUPPLY_INCOMPLETE,
     STATUS_INSUFFICIENT_SURPLUS, STATUS_NO_VOTE_WEIGHT,
     STATUS_NOT_FINALIZED, STATUS_ALREADY_KICKED, STATUS_EMPTY_DEPOSIT,
     STATUS_BAD_ACTION
<1>0. {0, 1} \subseteq Word
  BY WordAssumption DEF Word
<1>1. ASSUME NEW s \in RewardSupplies, init_genesis_bootstrap(s)
      PROVE  LedgerTypeOK'
  BY <1>0, <1>1, InputAssumption
  DEF init_genesis_bootstrap, LedgerTypeOK, GenesisConfig, Statuses
<1>2. ASSUME NEW u \in Users, NEW a \in Amounts, NEW now \in Slots,
             genesis_deposit(u, a, now)
      PROVE  LedgerTypeOK'
  <2>1. CASE DepositsClosed
    BY <1>2, <2>1, RefuseTypeOK DEF genesis_deposit, Statuses
  <2>2. CASE ~DepositsClosed
    <3>1. a \in Word /\ now \in Word
      BY InputAssumption
    <3>2. cfg' \in GenesisConfig
      BY <1>2, <2>2, <3>1, WAddType DEF genesis_deposit, LedgerTypeOK, GenesisConfig
    <3>3. pos' \in [Users -> GenesisPosition]
      BY <1>2, <2>2, <3>1, WAddType DEF genesis_deposit, LedgerTypeOK, GenesisPosition
    <3> QED
      BY <1>2, <2>2, <3>2, <3>3 DEF genesis_deposit, LedgerTypeOK, Statuses
  <2> QED
    BY <2>1, <2>2
<1>3. ASSUME NEW u \in Users, NEW r \in Reads, NEW v \in Reads,
             genesis_withdraw(u, r, v)
      PROVE  LedgerTypeOK'
  <2>1. Remaining(u) \in Word /\ r \in Word /\ v \in Word
    BY RemainingType, InputAssumption
  <2>2. ASSUME NEW x \in Word, Retire(u, x)
        PROVE  cfg' \in GenesisConfig /\ pos' \in [Users -> GenesisPosition]
    BY <1>0, <2>2, WAddType DEF Retire, LedgerTypeOK, GenesisConfig, GenesisPosition
  <2>3. ASSUME NEW x \in Word, ExitBeforeKick(u, x)
        PROVE  cfg' \in GenesisConfig /\ pos' \in [Users -> GenesisPosition]
    BY <1>0, <2>3, WSubType
    DEF ExitBeforeKick, LedgerTypeOK, GenesisConfig, GenesisPosition
  <2>4. cfg' \in GenesisConfig /\ pos' \in [Users -> GenesisPosition]
    BY <1>3, <2>1, <2>2, <2>3, WMinType DEF genesis_withdraw
  <2> QED
    BY <1>3, <2>4 DEF genesis_withdraw, LedgerTypeOK, Statuses
<1>4. ASSUME kickstart_genesis_market
      PROVE  LedgerTypeOK'
  BY <1>4, RefuseTypeOK
  DEF kickstart_genesis_market, LedgerTypeOK, GenesisConfig, Statuses
<1>5. ASSUME NEW i \in Items, NEW a \in CoinAmounts,
             init_genesis_distribution(i, a)
      PROVE  LedgerTypeOK'
  <2>1. CASE a > cfg.reward_supply
    BY <1>5, <2>1, RefuseTypeOK DEF init_genesis_distribution, Statuses
  <2>2. CASE ~(a > cfg.reward_supply)
    BY <1>0, <1>5, <2>2, InputAssumption
    DEF init_genesis_distribution, LedgerTypeOK, GenesisDistribution, Statuses
  <2> QED
    BY <2>1, <2>2
<1>6. ASSUME NEW u \in Users, NEW i \in Items, NEW action \in 0 .. 2,
             NEW now \in Slots, vote_genesis_distribution(u, i, action, now)
      PROVE  LedgerTypeOK'
  <2>1. CASE action > 1 \/ VoteWeight(u, now) = 0
    BY <1>6, <2>1, RefuseTypeOK DEF vote_genesis_distribution, Statuses
  <2>2. CASE ~(action > 1 \/ VoteWeight(u, now) = 0)
    <3> DEFINE w == VoteWeight(u, now)
               p == Remaining(u)
    <3>1. w \in Word /\ p \in Word /\ action \in {0, 1}
      BY <2>2, VoteWeightType, RemainingType
    <3>2. CastBallot(u, i, action, w, p)
      BY <1>6, <2>2 DEF vote_genesis_distribution
    <3> HIDE DEF w, p
    <3>3. dist' \in [Items -> GenesisDistribution]
      <4> DEFINE y == IF action = 1 THEN WAdd(dist[i].yes_votes, w)
                      ELSE dist[i].yes_votes
                 n == IF action = 1 THEN dist[i].no_votes
                      ELSE WAdd(dist[i].no_votes, w)
                 q == WAdd(dist[i].voted_principal, p)
      <4>1. y \in Word /\ n \in Word /\ q \in Word
        BY <3>1, WAddType DEF LedgerTypeOK, GenesisDistribution
      <4>2. dist' = [dist EXCEPT ![i].yes_votes = y, ![i].no_votes = n,
                                 ![i].voted_principal = q]
        BY <3>2 DEF CastBallot
      <4> HIDE DEF y, n, q
      <4> QED
        BY <4>1, <4>2 DEF LedgerTypeOK, GenesisDistribution
    <3>4. pos' \in [Users -> GenesisPosition]
      BY <1>0, <3>2, WAddType DEF CastBallot, LedgerTypeOK, GenesisPosition
    <3>5. ballot' \in [Users -> [Items -> GenesisDistributionVote]]
      BY <3>1, <3>2 DEF CastBallot, LedgerTypeOK, GenesisDistributionVote
    <3> QED
      BY <1>6, <2>2, <3>3, <3>4, <3>5
      DEF vote_genesis_distribution, LedgerTypeOK, Statuses
  <2> QED
    BY <2>1, <2>2
<1>7. ASSUME NEW i \in Items, NEW a \in CoinAmounts, genesis_mint_reward(i, a)
      PROVE  LedgerTypeOK'
  <2>1. CASE MintStatus(i, a) # STATUS_OK
    <3>1. MintStatus(i, a) \in Statuses
      BY DEF MintStatus, Statuses
    <3> QED
      BY <1>7, <2>1, <3>1, RefuseTypeOK DEF genesis_mint_reward
  <2>2. CASE MintStatus(i, a) = STATUS_OK
    <3>1. a \in Word
      BY InputAssumption
    <3>2. cfg' \in GenesisConfig
      BY <1>7, <2>2, <3>1, WAddType
      DEF genesis_mint_reward, LedgerTypeOK, GenesisConfig
    <3>3. coin' \in [Items -> Word]
      BY <1>7, <2>2, <3>1, WAddType DEF genesis_mint_reward, LedgerTypeOK
    <3>4. dist' \in [Items -> GenesisDistribution]
      BY <1>7, <2>2 DEF genesis_mint_reward, LedgerTypeOK, GenesisDistribution
    <3> QED
      BY <1>7, <2>2, <3>2, <3>3, <3>4
      DEF genesis_mint_reward, LedgerTypeOK, Statuses
  <2> QED
    BY <2>1, <2>2
<1>8. ASSUME finalize_genesis
      PROVE  LedgerTypeOK'
  BY <1>8, RefuseTypeOK DEF finalize_genesis, LedgerTypeOK, GenesisConfig, Statuses
<1>9. ASSUME NEW a \in Amounts, NEW v \in Reads, draw_genesis_surplus(a, v)
      PROVE  LedgerTypeOK'
  BY <1>9, RefuseTypeOK DEF draw_genesis_surplus, Statuses
<1>10. ASSUME recover_genesis_market
       PROVE  LedgerTypeOK'
  BY <1>10, RefuseTypeOK DEF recover_genesis_market, Statuses
<1>11. CASE UNCHANGED vars
  BY <1>11 DEF vars, ledger, LedgerTypeOK
<1> QED
  BY <1>1, <1>2, <1>3, <1>4, <1>5, <1>6, <1>7, <1>8, <1>9, <1>10, <1>11
  DEF Next, Deposits, Withdraws, Votes

(* Every field stays a machine word and every flag a bit, whatever guards  *)
(* the external layer applies.                                             *)
THEOREM TypeCorrect == Spec => []LedgerTypeOK
<1> QED
  BY InitTypeOK, NextTypeOK, PTL DEF Spec

------------------------------------------------------------------------------
(* The lifecycle.  PhasesConsistent and PositionsSolvent are inductive     *)
(* only together, and only with the fact that the flags of a config that   *)
(* has not been created are clear: `init_genesis_bootstrap` zeroes them.   *)

ConfigOnce == "create" \in OnChain

LifecycleInv ==
  /\ LedgerTypeOK
  /\ PhasesConsistent
  /\ PositionsSolvent
  /\ Config \notin accounts => ~Kicked

(* The lifecycle invariant holds before any account exists.                *)
LEMMA InitLifecycle == Init => LifecycleInv
BY InitTypeOK DEF Init, LifecycleInv, PhasesConsistent, PositionsSolvent,
   Kicked, Finalized

(* The fields the lifecycle reads; a step that keeps them keeps it.        *)
LEMMA LifecycleFrame ==
  ASSUME LifecycleInv, LedgerTypeOK', UNCHANGED cfg,
         \A u \in Users : /\ pos'[u].amount = pos[u].amount
                          /\ pos'[u].withdrawn = pos[u].withdrawn,
         Config \in accounts' \/ accounts' = accounts
  PROVE  LifecycleInv'
<1> USE DEF LifecycleInv, Kicked, Finalized
<1>1. PhasesConsistent'
  BY DEF PhasesConsistent
<1>2. PositionsSolvent'
  BY DEF PositionsSolvent
<1> QED
  BY <1>1, <1>2

(* A refused call keeps the lifecycle invariant.                           *)
LEMMA RefuseLifecycle == ASSUME LifecycleInv, LedgerTypeOK', NEW s, Refuse(s)
                         PROVE  LifecycleInv'
BY LifecycleFrame DEF Refuse, ledger

(* Before the kick nothing is retired, so the claim is the whole amount.   *)
LEMMA ClaimBeforeKick == ASSUME LifecycleInv, ~Kicked, NEW u \in Users
                         PROVE  pos[u].withdrawn = 0 /\ Remaining(u) = pos[u].amount
BY WordAssumption DEF LifecycleInv, PhasesConsistent, Remaining, WSub, LedgerTypeOK,
   GenesisPosition, Word

(* After the kick the claim is what is left of the amount.                 *)
LEMMA ClaimOfSolvent ==
  ASSUME LifecycleInv, NEW u \in Users
  PROVE  /\ pos[u].amount \in 0 .. W - 1
         /\ pos[u].withdrawn \in 0 .. pos[u].amount
         /\ Remaining(u) = pos[u].amount - pos[u].withdrawn
BY WordAssumption DEF LifecycleInv, PositionsSolvent, Remaining, WSub, LedgerTypeOK,
   GenesisPosition, Word

(* What an exit does to the claims, on each of its three paths.            *)
LEMMA ExitClaims ==
  ASSUME LifecycleInv, NEW u \in Users, NEW r \in Reads, NEW v \in Reads,
         genesis_withdraw(u, r, v)
  PROVE  \E a \in 0 .. Remaining(u) :
           /\ Finalized => a = Remaining(u)
           /\ \/ /\ ~Kicked
                 /\ cfg' = [cfg EXCEPT !.total_deposited = WSub(@, a)]
                 /\ pos' = [pos EXCEPT ![u].amount = @ - a, ![u].start_slot = 0]
              \/ /\ Kicked
                 /\ cfg' = [cfg EXCEPT !.total_withdrawn = WAdd(@, a)]
                 /\ pos' = [pos EXCEPT ![u].withdrawn = @ + a,
                                       ![u].start_slot = 0]
<1> DEFINE m == Remaining(u)
<1>1. m \in Word /\ r \in Word /\ v \in Word
  BY RemainingType, InputAssumption DEF LifecycleInv
<1>2. /\ pos[u].amount \in 0 .. W - 1
      /\ pos[u].withdrawn \in 0 .. pos[u].amount
      /\ m = pos[u].amount - pos[u].withdrawn
  BY ClaimOfSolvent
<1>3. ASSUME NEW a \in 0 .. m
      PROVE  WAdd(pos[u].withdrawn, a) = pos[u].withdrawn + a
  BY <1>2, WordAssumption DEF WAdd
<1>4. Finalized => Kicked
  BY DEF LifecycleInv, PhasesConsistent
<1>5. CASE Finalized
  <2>1. Retire(u, m)
    BY <1>5 DEF genesis_withdraw
  <2>2. m \in 0 .. m
    BY <1>1 DEF Word
  <2> QED
    BY <1>3, <1>4, <1>5, <2>1, <2>2 DEF Retire
<1>6. CASE ~Finalized /\ Kicked
  <2> DEFINE a == WMin(r, m)
  <2>1. Retire(u, a)
    BY <1>6 DEF genesis_withdraw
  <2>2. a \in 0 .. m
    BY <1>1, WMinType, WordAssumption DEF Word
  <2> QED
    BY <1>3, <1>6, <2>1, <2>2 DEF Retire
<1>7. CASE ~Finalized /\ ~Kicked
  <2> DEFINE a == WMin(v, m)
  <2>1. ExitBeforeKick(u, a)
    BY <1>7 DEF genesis_withdraw
  <2>2. a \in 0 .. m
    BY <1>1, WMinType, WordAssumption DEF Word
  <2>3. WSub(pos[u].amount, a) = pos[u].amount - a
    BY <1>2, <2>2, WordAssumption DEF WSub
  <2> HIDE DEF a
  <2> QED
    BY <1>7, <2>1, <2>2, <2>3 DEF ExitBeforeKick
<1> QED
  BY <1>5, <1>6, <1>7

(* Every handler keeps the lifecycle invariant.                            *)
LEMMA NextLifecycle ==
  ASSUME ConfigOnce, LifecycleInv, [Next]_vars
  PROVE  LifecycleInv'
<1>0. LedgerTypeOK /\ LedgerTypeOK'
  BY NextTypeOK DEF LifecycleInv
<1>1. ASSUME NEW s \in RewardSupplies, init_genesis_bootstrap(s)
      PROVE  LifecycleInv'
  <2>1. ~Kicked /\ pos' = pos
    BY <1>1 DEF init_genesis_bootstrap, Creates, ConfigOnce, LifecycleInv
  <2>2. PositionsSolvent'
    BY <2>1 DEF LifecycleInv, PositionsSolvent
  <2>3. PhasesConsistent'
    BY <1>1, <2>1, InputAssumption, WordAssumption
    DEF init_genesis_bootstrap, LifecycleInv, PhasesConsistent, Kicked,
        Finalized, Word
  <2>4. (Config \notin accounts => ~Kicked)'
    BY <1>1 DEF init_genesis_bootstrap
  <2> QED
    BY <1>0, <2>2, <2>3, <2>4 DEF LifecycleInv
<1>2. ASSUME NEW u \in Users, NEW a \in Amounts, NEW now \in Slots,
             genesis_deposit(u, a, now)
      PROVE  LifecycleInv'
  <2>1. CASE DepositsClosed
    BY <1>0, <1>2, <2>1, RefuseLifecycle DEF genesis_deposit
  <2>2. CASE ~DepositsClosed
    <3>1. ~Kicked /\ ~Kicked' /\ ~Finalized'
      BY <1>0, <1>2, <2>2
      DEF genesis_deposit, DepositsClosed, Kicked, Finalized, LedgerTypeOK,
          GenesisConfig
    <3>2. \A x \in Users : pos'[x].withdrawn = 0
      BY <1>0, <1>2, <2>2, <3>1, ClaimBeforeKick
      DEF genesis_deposit, LedgerTypeOK, GenesisPosition
    <3>3. PositionsSolvent'
      BY <1>0, <3>2, WordAssumption
      DEF PositionsSolvent, LedgerTypeOK, GenesisPosition, Word
    <3>4. PhasesConsistent'
      BY <1>0, <1>2, <2>2, <3>1, <3>2
      DEF genesis_deposit, PhasesConsistent, LifecycleInv, LedgerTypeOK,
          GenesisConfig
    <3> QED
      BY <1>0, <3>1, <3>3, <3>4 DEF LifecycleInv
  <2> QED
    BY <2>1, <2>2
<1>3. ASSUME NEW u \in Users, NEW r \in Reads, NEW v \in Reads,
             genesis_withdraw(u, r, v)
      PROVE  LifecycleInv'
  <2>1. PICK a \in 0 .. Remaining(u) :
           \/ /\ ~Kicked
              /\ cfg' = [cfg EXCEPT !.total_deposited = WSub(@, a)]
              /\ pos' = [pos EXCEPT ![u].amount = @ - a, ![u].start_slot = 0]
           \/ /\ Kicked
              /\ cfg' = [cfg EXCEPT !.total_withdrawn = WAdd(@, a)]
              /\ pos' = [pos EXCEPT ![u].withdrawn = @ + a,
                                    ![u].start_slot = 0]
    BY <1>3, ExitClaims
  <2>2. \A x \in Users : /\ pos[x].amount \in 0 .. W - 1
                         /\ pos[x].withdrawn \in 0 .. pos[x].amount
                         /\ Remaining(x) = pos[x].amount - pos[x].withdrawn
    BY ClaimOfSolvent
  <2>3. /\ Kicked' = Kicked /\ Finalized' = Finalized /\ accounts' = accounts
        /\ cfg'.minted_supply = cfg.minted_supply
        /\ cfg'.reward_supply = cfg.reward_supply
        /\ Kicked => cfg'.total_deposited = cfg.total_deposited
    BY <1>0, <1>3, <2>1 DEF genesis_withdraw, Kicked, Finalized, LedgerTypeOK,
       GenesisConfig
  <2>4. PositionsSolvent'
    <3> SUFFICES ASSUME NEW x \in Users
                 PROVE  pos'[x].withdrawn <= pos'[x].amount
      BY DEF PositionsSolvent
    <3>1. CASE x = u
      BY <1>0, <2>1, <2>2, <3>1, WordAssumption DEF LedgerTypeOK, GenesisPosition
    <3>2. CASE x # u
      BY <1>0, <2>1, <2>2, <3>2 DEF LedgerTypeOK, GenesisPosition
    <3> QED
      BY <3>1, <3>2
  <2>5. ~Kicked => \A x \in Users : pos'[x].withdrawn = 0
    <3> SUFFICES ASSUME ~Kicked, NEW x \in Users
                 PROVE  pos'[x].withdrawn = 0
      OBVIOUS
    <3>1. pos[x].withdrawn = 0
      BY ClaimBeforeKick
    <3>2. pos' = [pos EXCEPT ![u].amount = @ - a, ![u].start_slot = 0]
      BY <2>1
    <3> QED
      BY <1>0, <3>1, <3>2 DEF LedgerTypeOK, GenesisPosition
  <2>6. PhasesConsistent'
    BY <2>3, <2>5 DEF PhasesConsistent, LifecycleInv
  <2> QED
    BY <1>0, <2>3, <2>4, <2>6 DEF LifecycleInv
<1>4. ASSUME kickstart_genesis_market
      PROVE  LifecycleInv'
  <2>1. CASE DepositsClosed \/ cfg.total_deposited = 0
    BY <1>0, <1>4, <2>1, RefuseLifecycle DEF kickstart_genesis_market
  <2>2. CASE ~(DepositsClosed \/ cfg.total_deposited = 0)
    <3>1. PhasesConsistent'
      BY <1>0, <1>4, <2>2, WordAssumption
      DEF kickstart_genesis_market, DepositsClosed, PhasesConsistent,
          LifecycleInv, Kicked, Finalized, LedgerTypeOK, GenesisConfig, Word
    <3>2. PositionsSolvent' /\ Config \in accounts'
      BY <1>4, <2>2
      DEF kickstart_genesis_market, PositionsSolvent, LifecycleInv
    <3> QED
      BY <1>0, <3>1, <3>2 DEF LifecycleInv
  <2> QED
    BY <2>1, <2>2
<1>5. ASSUME NEW i \in Items, NEW a \in CoinAmounts,
             init_genesis_distribution(i, a)
      PROVE  LifecycleInv'
  BY <1>0, <1>5, RefuseLifecycle, LifecycleFrame
  DEF init_genesis_distribution
<1>6. ASSUME NEW u \in Users, NEW i \in Items, NEW action \in 0 .. 2,
             NEW now \in Slots, vote_genesis_distribution(u, i, action, now)
      PROVE  LifecycleInv'
  <2>1. CASE action > 1 \/ VoteWeight(u, now) = 0
    BY <1>0, <1>6, <2>1, RefuseLifecycle DEF vote_genesis_distribution
  <2>2. CASE ~(action > 1 \/ VoteWeight(u, now) = 0)
    <3>1. /\ pos' = [pos EXCEPT ![u].active_votes = WAdd(@, 1)]
          /\ UNCHANGED <<cfg, accounts>>
      BY <1>6, <2>2 DEF vote_genesis_distribution, CastBallot
    <3>2. \A x \in Users : /\ pos'[x].amount = pos[x].amount
                           /\ pos'[x].withdrawn = pos[x].withdrawn
      BY <1>0, <3>1 DEF LedgerTypeOK, GenesisPosition
    <3> QED
      BY <1>0, <3>1, <3>2, LifecycleFrame
  <2> QED
    BY <2>1, <2>2
<1>7. ASSUME NEW i \in Items, NEW a \in CoinAmounts, genesis_mint_reward(i, a)
      PROVE  LifecycleInv'
  <2>1. CASE MintStatus(i, a) # STATUS_OK
    BY <1>0, <1>7, <2>1, RefuseLifecycle DEF genesis_mint_reward
  <2>2. CASE MintStatus(i, a) = STATUS_OK
    <3>1. Kicked /\ ~Finalized /\ WithinSupply(a)
      BY <2>2 DEF MintStatus, STATUS_OK, STATUS_NOT_KICKED,
         STATUS_ALREADY_FINALIZED, STATUS_NO_MAJORITY, STATUS_NO_QUORUM,
         STATUS_SUPPLY_OVERFLOW
    <3>2. PhasesConsistent'
      BY <1>0, <1>7, <2>2, <3>1
      DEF genesis_mint_reward, PhasesConsistent, LifecycleInv, WithinSupply,
          Kicked, Finalized, LedgerTypeOK, GenesisConfig
    <3>3. PositionsSolvent' /\ Config \in accounts'
      BY <1>7, <2>2 DEF genesis_mint_reward, PositionsSolvent, LifecycleInv
    <3> QED
      BY <1>0, <3>2, <3>3 DEF LifecycleInv
  <2> QED
    BY <2>1, <2>2
<1>8. ASSUME finalize_genesis
      PROVE  LifecycleInv'
  <2>1. CASE ~Kicked \/ cfg.minted_supply # cfg.reward_supply
    BY <1>0, <1>8, <2>1, RefuseLifecycle DEF finalize_genesis
  <2>2. CASE ~(~Kicked \/ cfg.minted_supply # cfg.reward_supply)
    <3>1. PhasesConsistent'
      BY <1>0, <1>8, <2>2
      DEF finalize_genesis, PhasesConsistent, LifecycleInv, Kicked, Finalized,
          LedgerTypeOK, GenesisConfig
    <3>2. PositionsSolvent' /\ Config \in accounts'
      BY <1>8, <2>2 DEF finalize_genesis, PositionsSolvent, LifecycleInv
    <3> QED
      BY <1>0, <3>1, <3>2 DEF LifecycleInv
  <2> QED
    BY <2>1, <2>2
<1>9. ASSUME NEW a \in Amounts, NEW v \in Reads, draw_genesis_surplus(a, v)
      PROVE  LifecycleInv'
  BY <1>0, <1>9, RefuseLifecycle DEF draw_genesis_surplus
<1>10. ASSUME recover_genesis_market
       PROVE  LifecycleInv'
  BY <1>0, <1>10, RefuseLifecycle DEF recover_genesis_market
<1>11. CASE UNCHANGED vars
  BY <1>0, <1>11, LifecycleFrame DEF ledger, vars
<1> QED
  BY <1>1, <1>2, <1>3, <1>4, <1>5, <1>6, <1>7, <1>8, <1>9, <1>10, <1>11
  DEF Next, Deposits, Withdraws, Votes

(* The lifecycle invariant holds of every run in which the config account  *)
(* is created once: the strengthening the other theorems rest on.          *)
THEOREM Lifecycle == ASSUME ConfigOnce
                    PROVE  Spec => []LifecycleInv
<1>1. LifecycleInv /\ [Next]_vars => LifecycleInv'
  BY NextLifecycle
<1> QED
  BY <1>1, InitLifecycle, PTL DEF Spec

(* A depositor who meets several exit paths in turn is never paid twice:    *)
(* retired principal never exceeds what the position holds.                *)
THEOREM Solvency == ASSUME ConfigOnce
                    PROVE  Spec => []PositionsSolvent
<1>1. LifecycleInv => PositionsSolvent
  BY DEF LifecycleInv
<1> QED
  BY <1>1, Lifecycle, PTL

(* The gates of the lifecycle fit together: nothing is minted or retired   *)
(* before the kick, minting stays within the supply even where its counter *)
(* wraps, and genesis ends only kicked and fully distributed.              *)
THEOREM PhaseGates == ASSUME ConfigOnce
                      PROVE  Spec => []PhasesConsistent
<1>1. LifecycleInv => PhasesConsistent
  BY DEF LifecycleInv
<1> QED
  BY <1>1, Lifecycle, PTL

------------------------------------------------------------------------------
(* Finality.                                                               *)

PhaseStep ==
  /\ Kicked => /\ Kicked'
               /\ cfg'.total_deposited = cfg.total_deposited
               /\ \A u \in Users : pos'[u].amount = pos[u].amount
  /\ Finalized => /\ Finalized'
                  /\ cfg'.minted_supply = cfg.minted_supply

(* No step of any handler reopens a phase.                                 *)
LEMMA StepIsFinal ==
  ASSUME ConfigOnce, LifecycleInv, [Next]_vars
  PROVE  PhaseStep
<1>0. LedgerTypeOK /\ (Finalized => Kicked) /\ (Config \notin accounts => ~Kicked)
  BY DEF LifecycleInv, PhasesConsistent
<1> USE DEF PhaseStep, Kicked, Finalized
<1>1. ASSUME NEW s, Refuse(s)
      PROVE  PhaseStep
  BY <1>1 DEF Refuse, ledger
<1>2. ASSUME NEW s \in RewardSupplies, init_genesis_bootstrap(s)
      PROVE  PhaseStep
  BY <1>0, <1>2 DEF init_genesis_bootstrap, Creates, ConfigOnce
<1>3. ASSUME NEW u \in Users, NEW a \in Amounts, NEW now \in Slots,
             genesis_deposit(u, a, now)
      PROVE  PhaseStep
  BY <1>0, <1>1, <1>3 DEF genesis_deposit, DepositsClosed
<1>4. ASSUME NEW u \in Users, NEW r \in Reads, NEW v \in Reads,
             genesis_withdraw(u, r, v)
      PROVE  PhaseStep
  <2>1. CASE ~Kicked
    BY <1>0, <2>1
  <2>2. CASE Kicked
    <3>1. PICK a \in 0 .. Remaining(u) :
            /\ cfg' = [cfg EXCEPT !.total_withdrawn = WAdd(@, a)]
            /\ pos' = [pos EXCEPT ![u].withdrawn = @ + a, ![u].start_slot = 0]
      BY <1>4, <2>2, ExitClaims
    <3> QED
      BY <1>0, <3>1 DEF LedgerTypeOK, GenesisConfig, GenesisPosition
  <2> QED
    BY <2>1, <2>2
<1>5. ASSUME kickstart_genesis_market
      PROVE  PhaseStep
  BY <1>0, <1>1, <1>5
  DEF kickstart_genesis_market, DepositsClosed, LedgerTypeOK, GenesisConfig
<1>6. ASSUME NEW i \in Items, NEW a \in CoinAmounts,
             init_genesis_distribution(i, a)
      PROVE  PhaseStep
  BY <1>1, <1>6 DEF init_genesis_distribution
<1>7. ASSUME NEW u \in Users, NEW i \in Items, NEW action \in 0 .. 2,
             NEW now \in Slots, vote_genesis_distribution(u, i, action, now)
      PROVE  PhaseStep
  <2>1. CASE action > 1 \/ VoteWeight(u, now) = 0
    BY <1>1, <1>7, <2>1 DEF vote_genesis_distribution
  <2>2. CASE ~(action > 1 \/ VoteWeight(u, now) = 0)
    <3>1. pos' = [pos EXCEPT ![u].active_votes = WAdd(@, 1)] /\ cfg' = cfg
      BY <1>7, <2>2 DEF vote_genesis_distribution, CastBallot
    <3> QED
      BY <1>0, <3>1 DEF LedgerTypeOK, GenesisPosition
  <2> QED
    BY <2>1, <2>2
<1>8. ASSUME NEW i \in Items, NEW a \in CoinAmounts, genesis_mint_reward(i, a)
      PROVE  PhaseStep
  <2>1. CASE MintStatus(i, a) # STATUS_OK
    BY <1>1, <1>8, <2>1 DEF genesis_mint_reward
  <2>2. CASE MintStatus(i, a) = STATUS_OK
    <3>1. ~Finalized
      BY <2>2 DEF MintStatus, STATUS_OK, STATUS_NOT_KICKED,
         STATUS_ALREADY_FINALIZED
    <3> QED
      BY <1>0, <1>8, <2>2, <3>1 DEF genesis_mint_reward, LedgerTypeOK, GenesisConfig
  <2> QED
    BY <2>1, <2>2
<1>9. ASSUME finalize_genesis
      PROVE  PhaseStep
  BY <1>0, <1>1, <1>9 DEF finalize_genesis, LedgerTypeOK, GenesisConfig
<1>10. ASSUME NEW a \in Amounts, NEW v \in Reads, draw_genesis_surplus(a, v)
       PROVE  PhaseStep
  BY <1>1, <1>10 DEF draw_genesis_surplus
<1>11. ASSUME recover_genesis_market
       PROVE  PhaseStep
  BY <1>1, <1>11 DEF recover_genesis_market
<1>12. CASE UNCHANGED vars
  BY <1>12 DEF ledger, vars
<1> QED
  BY <1>2, <1>3, <1>4, <1>5, <1>6, <1>7, <1>8, <1>9, <1>10, <1>11, <1>12
  DEF Next, Deposits, Withdraws, Votes

(* The kick and the end of genesis are final: no call of any user reopens  *)
(* a phase, moves the pool's deposits, or mints after the end.             *)
THEOREM Finality == ASSUME ConfigOnce
                    PROVE  Spec => PhasesFinal
<1>1. LifecycleInv /\ [Next]_vars => [PhaseStep]_vars
  BY StepIsFinal
<1> QED
  BY <1>1, Lifecycle, PTL DEF Spec, PhasesFinal, PhaseStep

------------------------------------------------------------------------------
(* Refinement of the escrow.                                               *)

(* The initial ledger is the absent escrow.                                *)
LEMMA InitEscrow == Init => Escrow!Init
BY WordAssumption DEF Init, Escrow!Init, Phase, Claims, Remaining, WSub

(* A step that touches none of the mapped fields is a stutter.             *)
LEMMA EscrowStutter ==
  ASSUME cfg' = cfg, Config \in accounts' <=> Config \in accounts,
         \A u \in Users : /\ pos'[u].amount = pos[u].amount
                          /\ pos'[u].withdrawn = pos[u].withdrawn
  PROVE  UNCHANGED Escrow!escrow
<1>1. Phase' = Phase
  BY DEF Phase, Kicked, Finalized
<1>2. Claims' = Claims
  BY DEF Claims, Remaining
<1> QED
  BY <1>1, <1>2 DEF Escrow!escrow

(* A refused call is a stutter of the escrow.                              *)
LEMMA RefuseEscrow == ASSUME NEW s, Refuse(s)
                      PROVE  UNCHANGED Escrow!escrow
BY EscrowStutter DEF Refuse, ledger

(* ClaimOfSolvent, of the state a step leads to.                           *)
LEMMA SolventAfter ==
  ASSUME LifecycleInv', NEW u \in Users
  PROVE  /\ pos'[u].amount \in 0 .. W - 1
         /\ Remaining(u)' = pos'[u].amount - pos'[u].withdrawn
BY WordAssumption DEF LifecycleInv, PositionsSolvent, Remaining, WSub, LedgerTypeOK,
   GenesisPosition, Word

(* A deposit is the escrow's deposit, or refused.                          *)
LEMMA DepositEscrow ==
  ASSUME LifecycleInv, LifecycleInv', NEW u \in Users, NEW a \in Amounts,
         NEW now \in Slots,
         genesis_deposit(u, a, now)
  PROVE  [Escrow!Next]_(Escrow!escrow)
<1>0. LedgerTypeOK /\ a \in Word
  BY InputAssumption DEF LifecycleInv
<1>1. CASE DepositsClosed
  BY <1>1, RefuseEscrow DEF genesis_deposit
<1>2. CASE ~DepositsClosed
  <2>1. ~Kicked /\ ~Kicked' /\ ~Finalized /\ ~Finalized' /\ Config \in accounts
        /\ accounts' = accounts
        /\ cfg'.reward_supply = cfg.reward_supply
        /\ cfg'.minted_supply = cfg.minted_supply
    BY <1>0, <1>2
    DEF genesis_deposit, DepositsClosed, Kicked, Finalized, LedgerTypeOK,
        GenesisConfig
  <2>2. Phase = "open" /\ Phase' = "open"
    BY <2>1 DEF Phase
  <2>3. \A x \in Users : /\ Remaining(x) = pos[x].amount
                         /\ Remaining(x)' = pos'[x].amount
    BY <1>0, <2>1, ClaimBeforeKick, SolventAfter, WordAssumption
    DEF LifecycleInv, PhasesConsistent
  <2>4. Claims' = [Claims EXCEPT ![u] = Escrow!Credit(@, a)]
    <3>1. ASSUME NEW x \in Users
          PROVE  pos'[x].amount = IF x = u THEN Escrow!Credit(pos[x].amount, a)
                                           ELSE pos[x].amount
      BY <1>0, <1>2
      DEF genesis_deposit, Escrow!Credit, WAdd, LedgerTypeOK, GenesisPosition
    <3> QED
      BY <2>3, <3>1 DEF Claims
  <2>5. a \in Escrow!Word
    BY <1>0 DEF Word, Escrow!Word
  <2>6. Escrow!Deposit(u)
    BY <2>1, <2>2, <2>4, <2>5 DEF Escrow!Deposit
  <2> QED
    BY <2>6 DEF Escrow!Next
<1> QED
  BY <1>1, <1>2

(* A withdrawal, on each of its three paths, is the escrow's exit.         *)
LEMMA WithdrawEscrow ==
  ASSUME LifecycleInv, LifecycleInv', NEW u \in Users,
         NEW r \in Reads, NEW v \in Reads, genesis_withdraw(u, r, v)
  PROVE  [Escrow!Next]_(Escrow!escrow)
<1>0. LedgerTypeOK
  BY DEF LifecycleInv
<1>1. PICK a \in 0 .. Remaining(u) :
         /\ Finalized => a = Remaining(u)
         /\ \/ /\ ~Kicked
               /\ cfg' = [cfg EXCEPT !.total_deposited = WSub(@, a)]
               /\ pos' = [pos EXCEPT ![u].amount = @ - a, ![u].start_slot = 0]
            \/ /\ Kicked
               /\ cfg' = [cfg EXCEPT !.total_withdrawn = WAdd(@, a)]
               /\ pos' = [pos EXCEPT ![u].withdrawn = @ + a,
                                     ![u].start_slot = 0]
  BY ExitClaims
<1>2. /\ cfg'.reward_supply = cfg.reward_supply
      /\ cfg'.minted_supply = cfg.minted_supply
      /\ Phase' = Phase /\ Phase # "absent"
      /\ Phase = "final" => Finalized
  BY <1>0, <1>1
  DEF genesis_withdraw, Phase, Kicked, Finalized, LedgerTypeOK, GenesisConfig
<1>3. \A x \in Users : /\ pos[x].amount \in 0 .. W - 1
                       /\ pos[x].withdrawn \in 0 .. pos[x].amount
                       /\ Remaining(x) = pos[x].amount - pos[x].withdrawn
  BY ClaimOfSolvent
<1>4. \A x \in Users : Remaining(x)' = pos'[x].amount - pos'[x].withdrawn
  BY SolventAfter
<1>5. ASSUME NEW x \in Users
      PROVE  Remaining(x)' = IF x = u THEN Remaining(x) - a ELSE Remaining(x)
  <2>1. CASE x = u
    BY <1>0, <1>1, <1>3, <1>4, <2>1 DEF LedgerTypeOK, GenesisPosition
  <2>2. CASE x # u
    BY <1>0, <1>1, <1>3, <1>4, <2>2 DEF LedgerTypeOK, GenesisPosition
  <2> QED
    BY <2>1, <2>2
<1>6. Claims' = [Claims EXCEPT ![u] = @ - a]
  BY <1>5 DEF Claims
<1>7. Claims[u] = Remaining(u)
  BY DEF Claims
<1>8. Escrow!Exit(u)
  BY <1>1, <1>2, <1>6, <1>7 DEF Escrow!Exit
<1> QED
  BY <1>8 DEF Escrow!Next

(* A mint stays within the supply of the escrow, or is refused.            *)
LEMMA MintEscrow ==
  ASSUME LifecycleInv, NEW i \in Items, NEW a \in CoinAmounts,
         genesis_mint_reward(i, a), LedgerTypeOK'
  PROVE  [Escrow!Next]_(Escrow!escrow)
<1>1. CASE MintStatus(i, a) # STATUS_OK
  BY <1>1, RefuseEscrow DEF genesis_mint_reward
<1>2. CASE MintStatus(i, a) = STATUS_OK
  <2>1. Kicked /\ ~Finalized /\ WithinSupply(a)
    BY <1>2 DEF MintStatus, STATUS_OK, STATUS_NOT_KICKED,
       STATUS_ALREADY_FINALIZED, STATUS_NO_MAJORITY, STATUS_NO_QUORUM,
       STATUS_SUPPLY_OVERFLOW
  <2>2. /\ cfg' = [cfg EXCEPT !.minted_supply = WAdd(@, a)]
        /\ UNCHANGED <<accounts, pos>> /\ Config \in accounts
    BY <1>2 DEF genesis_mint_reward
  <2>3. Phase = "kicked" /\ Phase' = "kicked" /\ Claims' = Claims
    BY <2>1, <2>2
    DEF Phase, Claims, Remaining, Kicked, Finalized, LifecycleInv, LedgerTypeOK,
        GenesisConfig
  <2>4. /\ cfg'.reward_supply = cfg.reward_supply
        /\ cfg'.minted_supply \in 0 .. cfg.reward_supply
    BY <2>1, <2>2, WordAssumption
    DEF WithinSupply, LifecycleInv, LedgerTypeOK, GenesisConfig, Word
  <2>5. Escrow!Mint
    BY <2>3, <2>4 DEF Escrow!Mint
  <2> QED
    BY <2>5 DEF Escrow!Next
<1> QED
  BY <1>1, <1>2

(* Every handler call is a step of the escrow or a stutter.                *)
LEMMA NextEscrow ==
  ASSUME ConfigOnce, LifecycleInv, LifecycleInv', [Next]_vars
  PROVE  [Escrow!Next]_(Escrow!escrow)
<1>0. LedgerTypeOK /\ LedgerTypeOK'
  BY DEF LifecycleInv
<1>1. ASSUME NEW s \in RewardSupplies, init_genesis_bootstrap(s)
      PROVE  [Escrow!Next]_(Escrow!escrow)
  <2>1. /\ Config \notin accounts /\ Config \in accounts' /\ pos' = pos
        /\ cfg.minted_supply = 0
    BY <1>1 DEF init_genesis_bootstrap, Creates, ConfigOnce, LifecycleInv,
       PhasesConsistent
  <2>2. /\ cfg'.minted_supply = 0 /\ cfg'.reward_supply = s
        /\ ~Kicked' /\ ~Finalized'
    BY <1>1 DEF init_genesis_bootstrap, Kicked, Finalized
  <2>3. Phase = "absent" /\ Phase' = "open" /\ Claims' = Claims
    BY <2>1, <2>2 DEF Phase, Claims, Remaining
  <2>4. s \in Escrow!Word
    BY InputAssumption DEF Word, Escrow!Word
  <2>5. Escrow!Open
    BY <2>1, <2>2, <2>3, <2>4 DEF Escrow!Open
  <2> QED
    BY <2>5 DEF Escrow!Next
<1>2. CASE Deposits
  BY <1>2, DepositEscrow DEF Deposits
<1>3. CASE Withdraws
  BY <1>3, WithdrawEscrow DEF Withdraws
<1>4. ASSUME kickstart_genesis_market
      PROVE  [Escrow!Next]_(Escrow!escrow)
  <2>1. CASE DepositsClosed \/ cfg.total_deposited = 0
    BY <1>4, <2>1, RefuseEscrow DEF kickstart_genesis_market
  <2>2. CASE ~(DepositsClosed \/ cfg.total_deposited = 0)
    <3>1. /\ cfg' = [cfg EXCEPT !.kicked = 1] /\ Config \in accounts
          /\ UNCHANGED <<accounts, pos>>
      BY <1>4, <2>2 DEF kickstart_genesis_market
    <3>2. Phase = "open" /\ Phase' = "kicked" /\ Claims' = Claims
      BY <1>0, <2>2, <3>1
      DEF Phase, Claims, Remaining, DepositsClosed, Kicked, Finalized, LedgerTypeOK,
          GenesisConfig
    <3>3. Escrow!Kick
      BY <1>0, <3>1, <3>2 DEF Escrow!Kick, LedgerTypeOK, GenesisConfig
    <3> QED
      BY <3>3 DEF Escrow!Next
  <2> QED
    BY <2>1, <2>2
<1>5. ASSUME NEW i \in Items, NEW a \in CoinAmounts,
             init_genesis_distribution(i, a)
      PROVE  UNCHANGED Escrow!escrow
  BY <1>5, RefuseEscrow, EscrowStutter DEF init_genesis_distribution
<1>6. ASSUME NEW u \in Users, NEW i \in Items, NEW action \in 0 .. 2,
             NEW now \in Slots, vote_genesis_distribution(u, i, action, now)
      PROVE  UNCHANGED Escrow!escrow
  <2>1. CASE action > 1 \/ VoteWeight(u, now) = 0
    BY <1>6, <2>1, RefuseEscrow DEF vote_genesis_distribution
  <2>2. CASE ~(action > 1 \/ VoteWeight(u, now) = 0)
    <3>1. /\ pos' = [pos EXCEPT ![u].active_votes = WAdd(@, 1)]
          /\ UNCHANGED <<cfg, accounts>>
      BY <1>6, <2>2 DEF vote_genesis_distribution, CastBallot
    <3>2. \A x \in Users : /\ pos'[x].amount = pos[x].amount
                           /\ pos'[x].withdrawn = pos[x].withdrawn
      BY <1>0, <3>1 DEF LedgerTypeOK, GenesisPosition
    <3> QED
      BY <3>1, <3>2, EscrowStutter
  <2> QED
    BY <2>1, <2>2
<1>7. ASSUME NEW i \in Items, NEW a \in CoinAmounts, genesis_mint_reward(i, a)
      PROVE  [Escrow!Next]_(Escrow!escrow)
  BY <1>0, <1>7, MintEscrow
<1>8. ASSUME finalize_genesis
      PROVE  [Escrow!Next]_(Escrow!escrow)
  <2>1. CASE ~Kicked \/ cfg.minted_supply # cfg.reward_supply
    BY <1>8, <2>1, RefuseEscrow DEF finalize_genesis
  <2>2. CASE ~(~Kicked \/ cfg.minted_supply # cfg.reward_supply)
    <3>1. /\ cfg' = [cfg EXCEPT !.finalized = 1] /\ Config \in accounts
          /\ UNCHANGED <<accounts, pos>>
      BY <1>8, <2>2 DEF finalize_genesis
    <3>2. Phase' = "final" /\ Claims' = Claims
      BY <1>0, <3>1
      DEF Phase, Claims, Remaining, Finalized, LedgerTypeOK, GenesisConfig
    <3>3. CASE Finalized
      BY <1>0, <3>1, <3>2, <3>3
      DEF Escrow!escrow, Phase, LedgerTypeOK, GenesisConfig
    <3>4. CASE ~Finalized
      <4>1. Phase = "kicked"
        BY <2>2, <3>1, <3>4 DEF Phase
      <4>2. Escrow!Finalize
        BY <1>0, <2>2, <3>1, <3>2, <4>1
        DEF Escrow!Finalize, LedgerTypeOK, GenesisConfig
      <4> QED
        BY <4>2 DEF Escrow!Next
    <3> QED
      BY <3>3, <3>4
  <2> QED
    BY <2>1, <2>2
<1>9. ASSUME NEW a \in Amounts, NEW v \in Reads, draw_genesis_surplus(a, v)
      PROVE  UNCHANGED Escrow!escrow
  BY <1>9, RefuseEscrow DEF draw_genesis_surplus
<1>10. ASSUME recover_genesis_market
       PROVE  UNCHANGED Escrow!escrow
  BY <1>10, RefuseEscrow DEF recover_genesis_market
<1>11. CASE UNCHANGED vars
  <2>1. UNCHANGED Escrow!escrow
    BY <1>11, EscrowStutter DEF ledger, vars
  <2> QED
    BY <2>1
<1> QED
  BY <1>1, <1>2, <1>3, <1>4, <1>5, <1>6, <1>7, <1>8, <1>9, <1>10, <1>11
  DEF Next, Votes

(* The ledger implements the escrow: through the mapping of phases and     *)
(* claims every handler call is one step of the promise or none.           *)
THEOREM LedgerImplementsEscrow == ASSUME ConfigOnce
                                  PROVE  Spec => ImplementsEscrow
<1>1. LifecycleInv /\ LifecycleInv' /\ [Next]_vars
        => [Escrow!Next]_(Escrow!escrow)
  BY NextEscrow
<1> QED
  BY <1>1, InitEscrow, Lifecycle, PTL DEF Spec, ImplementsEscrow, Escrow!Spec

==============================================================================
