---------------------------- MODULE GenesisLedger ----------------------------
(***************************************************************************)
(* The genesis ledger of percolator-meta as ported to the 5ive VM: the     *)
(* hand-written handler bodies of src/src/bytecode/meta_handlers.rs behind *)
(* the declarations of src/meta/src/main.v.                                *)
(*                                                                         *)
(* A transaction runs one handler body to completion over the accounts and *)
(* scalars its caller passes, so every handler is one action, and the      *)
(* interleaving is that of transactions of different users.  A handler     *)
(* that refuses returns a nonzero status code: a value, not a trap.        *)
(* Token balances, pulled amounts and the current slot reach a handler as  *)
(* scalars.  The SPL-token, PDA-creation and CPI work around a handler is  *)
(* outside src/; what the properties need of it is marked "external".      *)
(***************************************************************************)
EXTENDS Integers, FiniteSets, Functions

CONSTANTS
  Users,          \* depositors: one GenesisPosition account each
  Items,          \* GenesisDistribution accounts
  W,              \* the machine word holds 0 .. W-1 (2^64 in the VM)
  BaseSupply,     \* base units in existence, an SPL mint supply
  Amounts,        \* base-unit amounts callers pass
  Reads,          \* token balances read for a call: recovered, vault_balance
  CoinAmounts,    \* COIN amounts callers pass
  RewardSupplies, \* values of reward_supply tried
  Slots,          \* slots callers pass: no body compares one with another call's
  MaxVotes,       \* bound on active_votes
  OnChain         \* which guards of the external layer are in force

Word == 0 .. W - 1

(* The guards the sources attribute to the layer around the bodies, or     *)
(* state as the scope of the port:                                         *)
(*   "create": an account is created once, by the PDA creation that goes   *)
(*             with its init handler;                                      *)
(*   "lock":   a position with live ballots cannot exit while voting;      *)
(*   "fresh":  a voter casts one ballot per item (the stated scope of the  *)
(*             port, meta_handlers.rs:602; the body does not see to it);   *)
(*   "spl":    the SPL transfer or mint that goes with a call fails, and   *)
(*             the call with it, when the tokens do not exist.             *)
Guards == {"create", "lock", "fresh", "spl"}

ASSUME FiniteAssumption == IsFiniteSet(Users) /\ IsFiniteSet(Items)
ASSUME WordAssumption == W \in Nat /\ W > 2
ASSUME SupplyAssumption == BaseSupply \in Word
ASSUME InputAssumption ==
  /\ Amounts \subseteq Word
  /\ Reads \subseteq Word
  /\ CoinAmounts \subseteq Word
  /\ RewardSupplies \subseteq Word
  /\ Slots \subseteq Word
  /\ MaxVotes \in Word
  /\ OnChain \subseteq Guards

VARIABLES
  accounts,  \* the config and distribution accounts that have been created
  cfg,       \* GenesisConfig
  pos,       \* pos[u]: the GenesisPosition of u
  dist,      \* dist[i]: the GenesisDistribution i
  ballot,    \* ballot[u][i]: the GenesisDistributionVote of u on i
  coin,      \* external: COIN minted so far to the destination of item i
  status     \* the value the last handler call returned

ledger == <<accounts, cfg, pos, dist, ballot, coin>>
vars == <<ledger, status>>

GenesisConfig == [total_deposited: Word, total_withdrawn: Word,
                  reward_supply: Word, minted_supply: Word,
                  finalized: {0, 1}, kicked: {0, 1}]
GenesisPosition == [amount: Word, withdrawn: Word, start_slot: Word,
                    active_votes: Word]
GenesisDistribution == [amount: Word, yes_votes: Word, no_votes: Word,
                        executed: {0, 1}, voted_principal: Word]
GenesisDistributionVote == [weight: Word, support: {0, 1}, retracted: {0, 1},
                            principal: Word]
Config == "genesis_cfg"

STATUS_OK == 0
STATUS_DEPOSITS_CLOSED == 1
STATUS_NOT_KICKED == 2
STATUS_ALREADY_FINALIZED == 3
STATUS_NO_MAJORITY == 4
STATUS_NO_QUORUM == 5
STATUS_SUPPLY_OVERFLOW == 6
STATUS_SUPPLY_INCOMPLETE == 7
STATUS_INSUFFICIENT_SURPLUS == 8
STATUS_NO_VOTE_WEIGHT == 9
STATUS_NOT_FINALIZED == 10
STATUS_ALREADY_KICKED == 11
STATUS_EMPTY_DEPOSIT == 12
STATUS_BAD_ACTION == 14
Statuses == 0 .. 14

------------------------------------------------------------------------------
(* VM arithmetic on words, which wraps; stated without a modulus so that   *)
(* it stays linear in its arguments.                                       *)
(* A name X_Suffix is X with one fault in it: mutation runs put it in      *)
(* place of X to show that a property would notice; no action uses it.     *)
WAdd_Unbounded(a, b) == a + b
WAdd(a, b) == IF a + b >= W THEN a + b - W ELSE a + b
WSub(a, b) == IF a >= b THEN a - b ELSE a - b + W
WMul(a, b) == (a * b) % W
WMin_First(a, b) == a
WMin(a, b) == IF a < b THEN a ELSE b

(* The loop `while age_work >= 2 { age_work >>= 1; k += 1 }` counts one    *)
(* halving for each power of two that age reaches: floor(log2(age)).       *)
Halvings_Strict(age) == Cardinality({k \in 1 .. age : 2^k < age})
Halvings(age) == Cardinality({k \in 1 .. age : 2^k <= age})

Kicked == cfg.kicked # 0
Finalized == cfg.finalized # 0
Outstanding == WSub(cfg.total_deposited, cfg.total_withdrawn)
Remaining(u) == WSub(pos[u].amount, pos[u].withdrawn)

(* A refused call returns a code and writes nothing.                       *)
Refuse(s) == status' = s /\ UNCHANGED ledger

------------------------------------------------------------------------------
(* External guards.                                                        *)

Creates(a) == "create" \in OnChain => a \notin accounts
ExitUnlocked(u) == "lock" \in OnChain /\ ~Finalized => pos[u].active_votes = 0
BallotFree(u, i) == "fresh" \in OnChain => ballot[u][i].weight = 0
(* The transfer behind a deposit moves base units that exist; the mint     *)
(* behind a reward keeps the COIN supply within a word.                    *)
Transferable(amount) ==
  "spl" \in OnChain => cfg.total_deposited + amount <= BaseSupply
Mintable(amount) == "spl" \in OnChain => cfg.minted_supply + amount < W

------------------------------------------------------------------------------
(* The handlers.                                                           *)

init_genesis_bootstrap(reward_supply) ==
  /\ Creates(Config)
  /\ accounts' = accounts \union {Config}
  /\ cfg' = [total_deposited |-> 0, total_withdrawn |-> 0,
             reward_supply |-> reward_supply, minted_supply |-> 0,
             finalized |-> 0, kicked |-> 0]
  /\ status' = STATUS_OK
  /\ UNCHANGED <<pos, dist, ballot, coin>>

(* Deposits close, and the pool may not be deployed again, once the market *)
(* is kicked or genesis has ended.                                         *)
DepositsClosed_FinalizedOnly == Finalized
DepositsClosed == Finalized \/ Kicked

genesis_deposit(u, amount, now_slot) ==
  /\ Config \in accounts
  /\ Transferable(amount)
  /\ IF DepositsClosed
     THEN Refuse(STATUS_DEPOSITS_CLOSED)
     ELSE /\ cfg' = [cfg EXCEPT !.total_deposited = WAdd(@, amount)]
          /\ pos' = [pos EXCEPT ![u].amount = WAdd(@, amount),
                                ![u].start_slot = now_slot]
          /\ status' = STATUS_OK
          /\ UNCHANGED <<accounts, dist, ballot, coin>>

ExitBeforeKick_ViaWithdrawn(u, actual) ==
  /\ cfg' = [cfg EXCEPT !.total_deposited = WSub(@, actual)]
  /\ pos' = [pos EXCEPT ![u].withdrawn = WAdd(@, actual), ![u].start_slot = 0]

(* Path A, not kicked: the capital is still in the genesis vault.          *)
ExitBeforeKick(u, actual) ==
  /\ cfg' = [cfg EXCEPT !.total_deposited = WSub(@, actual)]
  /\ pos' = [pos EXCEPT ![u].amount = WSub(@, actual), ![u].start_slot = 0]

(* Paths B and C, kicked: the claim is retired against the pool.           *)
Retire(u, actual) ==
  /\ cfg' = [cfg EXCEPT !.total_withdrawn = WAdd(@, actual)]
  /\ pos' = [pos EXCEPT ![u].withdrawn = WAdd(@, actual), ![u].start_slot = 0]

genesis_withdraw_CappedByVault(u, recovered, vault_balance) ==
  /\ Config \in accounts
  /\ ExitUnlocked(u)
  /\ IF Finalized THEN Retire(u, WMin(vault_balance, Remaining(u)))
     ELSE IF Kicked THEN Retire(u, WMin(recovered, Remaining(u)))
     ELSE ExitBeforeKick(u, WMin(vault_balance, Remaining(u)))
  /\ status' = STATUS_OK
  /\ UNCHANGED <<accounts, dist, ballot, coin>>

genesis_withdraw(u, recovered, vault_balance) ==
  /\ Config \in accounts
  /\ ExitUnlocked(u)
  /\ IF Finalized THEN Retire(u, Remaining(u))
     ELSE IF Kicked THEN Retire(u, WMin(recovered, Remaining(u)))
     ELSE ExitBeforeKick(u, WMin(vault_balance, Remaining(u)))
  /\ status' = STATUS_OK
  /\ UNCHANGED <<accounts, dist, ballot, coin>>

kickstart_genesis_market ==
  /\ Config \in accounts
  /\ IF DepositsClosed THEN Refuse(STATUS_ALREADY_KICKED)
     ELSE IF cfg.total_deposited = 0 THEN Refuse(STATUS_EMPTY_DEPOSIT)
     ELSE /\ cfg' = [cfg EXCEPT !.kicked = 1]
          /\ status' = STATUS_OK
          /\ UNCHANGED <<accounts, pos, dist, ballot, coin>>

init_genesis_distribution(i, amount) ==
  /\ Config \in accounts
  /\ Creates(i)
  /\ IF amount > cfg.reward_supply
     THEN Refuse(STATUS_SUPPLY_OVERFLOW)
     ELSE /\ accounts' = accounts \union {i}
          /\ dist' = [dist EXCEPT ![i] =
                        [amount |-> amount, yes_votes |-> 0, no_votes |-> 0,
                         executed |-> 0, voted_principal |-> 0]]
          /\ status' = STATUS_OK
          /\ UNCHANGED <<cfg, pos, ballot, coin>>

(* The weight the body computes: zero for an empty or too young stake.  An *)
(* age counted from a later slot than the caller's wraps.                  *)
VoteWeight(u, now_slot) ==
  LET staked == Remaining(u)
      age == WSub(now_slot, pos[u].start_slot)
  IN  IF staked = 0 \/ age < 2 THEN 0 ELSE WMul(Halvings(age), staked)

CastBallot_Uncounted(u, i, action, weight, staked) ==
  /\ dist' = [dist EXCEPT
       ![i].yes_votes = IF action = 1 THEN WAdd(@, weight) ELSE @,
       ![i].no_votes = IF action = 1 THEN @ ELSE WAdd(@, weight),
       ![i].voted_principal = WAdd(@, staked)]
  /\ ballot' = [ballot EXCEPT ![u][i] =
       [weight |-> weight, support |-> action, retracted |-> 0,
        principal |-> staked]]
  /\ UNCHANGED pos

(* An accepted ballot: tally, quorum principal, live-ballot count, record. *)
CastBallot(u, i, action, weight, staked) ==
  /\ dist' = [dist EXCEPT
       ![i].yes_votes = IF action = 1 THEN WAdd(@, weight) ELSE @,
       ![i].no_votes = IF action = 1 THEN @ ELSE WAdd(@, weight),
       ![i].voted_principal = WAdd(@, staked)]
  /\ pos' = [pos EXCEPT ![u].active_votes = WAdd(@, 1)]
  /\ ballot' = [ballot EXCEPT ![u][i] =
       [weight |-> weight, support |-> action, retracted |-> 0,
        principal |-> staked]]

vote_genesis_distribution(u, i, action, now_slot) ==
  /\ i \in accounts
  /\ BallotFree(u, i)
  /\ pos[u].active_votes < MaxVotes
  /\ IF action > 1 THEN Refuse(STATUS_BAD_ACTION)
     ELSE IF VoteWeight(u, now_slot) = 0 THEN Refuse(STATUS_NO_VOTE_WEIGHT)
     ELSE /\ CastBallot(u, i, action, VoteWeight(u, now_slot), Remaining(u))
          /\ status' = STATUS_OK
          /\ UNCHANGED <<accounts, cfg, coin>>

Majority(i) == dist[i].yes_votes > dist[i].no_votes
QuorumMet_AtLeastHalf(i) == dist[i].voted_principal >= Outstanding \div 2
QuorumMet(i) == dist[i].voted_principal > Outstanding \div 2
WithinSupply(amount) == WAdd(cfg.minted_supply, amount) <= cfg.reward_supply

(* The checks of genesis_mint_reward, in the order of the body.            *)
MintStatus(i, amount) ==
  IF ~Kicked THEN STATUS_NOT_KICKED
  ELSE IF Finalized THEN STATUS_ALREADY_FINALIZED
  ELSE IF ~Majority(i) THEN STATUS_NO_MAJORITY
  ELSE IF ~QuorumMet(i) THEN STATUS_NO_QUORUM
  ELSE IF ~WithinSupply(amount) THEN STATUS_SUPPLY_OVERFLOW
  ELSE STATUS_OK

genesis_mint_reward(i, amount) ==
  /\ {Config, i} \subseteq accounts
  /\ Mintable(amount)
  /\ LET s == MintStatus(i, amount)
     IN  IF s # STATUS_OK THEN Refuse(s)
         ELSE /\ cfg' = [cfg EXCEPT !.minted_supply = WAdd(@, amount)]
              /\ dist' = [dist EXCEPT ![i].executed = 1]
              /\ coin' = [coin EXCEPT ![i] = WAdd(@, amount)]
              /\ status' = STATUS_OK
              /\ UNCHANGED <<accounts, pos, ballot>>

finalize_genesis_Incomplete ==
  /\ Config \in accounts
  /\ IF ~Kicked THEN Refuse(STATUS_NOT_KICKED)
     ELSE /\ cfg' = [cfg EXCEPT !.finalized = 1]
          /\ status' = STATUS_OK
          /\ UNCHANGED <<accounts, pos, dist, ballot, coin>>

finalize_genesis ==
  /\ Config \in accounts
  /\ IF ~Kicked THEN Refuse(STATUS_NOT_KICKED)
     ELSE IF cfg.minted_supply # cfg.reward_supply
          THEN Refuse(STATUS_SUPPLY_INCOMPLETE)
     ELSE /\ cfg' = [cfg EXCEPT !.finalized = 1]
          /\ status' = STATUS_OK
          /\ UNCHANGED <<accounts, pos, dist, ballot, coin>>

(* The two pure gates: they check and return, and move no ledger field.    *)
SurplusCovers(amount, vault_balance) ==
  amount <= WSub(vault_balance, Outstanding)

draw_genesis_surplus(amount, vault_balance) ==
  /\ Config \in accounts
  /\ Refuse(IF ~Finalized THEN STATUS_NOT_FINALIZED
            ELSE IF ~SurplusCovers(amount, vault_balance)
                 THEN STATUS_INSUFFICIENT_SURPLUS
            ELSE STATUS_OK)

recover_genesis_market ==
  /\ Config \in accounts
  /\ Refuse(IF ~Kicked THEN STATUS_NOT_KICKED
            ELSE IF Finalized THEN STATUS_ALREADY_FINALIZED
            ELSE STATUS_OK)

------------------------------------------------------------------------------
Init ==
  /\ accounts = {}
  /\ cfg = [total_deposited |-> 0, total_withdrawn |-> 0, reward_supply |-> 0,
            minted_supply |-> 0, finalized |-> 0, kicked |-> 0]
  /\ pos = [u \in Users |-> [amount |-> 0, withdrawn |-> 0, start_slot |-> 0,
                             active_votes |-> 0]]
  /\ dist = [i \in Items |-> [amount |-> 0, yes_votes |-> 0, no_votes |-> 0,
                              executed |-> 0, voted_principal |-> 0]]
  /\ ballot = [u \in Users |-> [i \in Items |->
                 [weight |-> 0, support |-> 0, retracted |-> 0,
                  principal |-> 0]]]
  /\ coin = [i \in Items |-> 0]
  /\ status = STATUS_OK

Deposits == \E u \in Users, a \in Amounts, n \in Slots : genesis_deposit(u, a, n)
Withdraws == \E u \in Users, r, v \in Reads : genesis_withdraw(u, r, v)
Votes == \E u \in Users, i \in Items, action \in 0 .. 2, n \in Slots :
           vote_genesis_distribution(u, i, action, n)

Next ==
  \/ \E s \in RewardSupplies : init_genesis_bootstrap(s)
  \/ Deposits
  \/ Withdraws
  \/ kickstart_genesis_market
  \/ \E i \in Items, a \in CoinAmounts : init_genesis_distribution(i, a)
  \/ Votes
  \/ \E i \in Items, a \in CoinAmounts : genesis_mint_reward(i, a)
  \/ finalize_genesis
  \/ \E a \in Amounts, v \in Reads : draw_genesis_surplus(a, v)
  \/ recover_genesis_market

Spec == Init /\ [][Next]_vars

------------------------------------------------------------------------------
(* Type invariant: every field is a machine word, every flag a bit.        *)
LedgerTypeOK ==
  /\ accounts \subseteq {Config} \union Items
  /\ cfg \in GenesisConfig
  /\ pos \in [Users -> GenesisPosition]
  /\ dist \in [Items -> GenesisDistribution]
  /\ ballot \in [Users -> [Items -> GenesisDistributionVote]]
  /\ coin \in [Items -> Word]
  /\ status \in Statuses

Deposited == SumFunction([u \in Users |-> pos[u].amount])
Withdrawn == SumFunction([u \in Users |-> pos[u].withdrawn])

(* The config's two totals are the sums of the positions, whatever the     *)
(* order of deposits, kickstart and the three exit paths, and even when    *)
(* the 64-bit counters have wrapped.                                       *)
PrincipalConserved ==
  /\ cfg.total_deposited = Deposited % W
  /\ cfg.total_withdrawn = Withdrawn % W

(* No position takes out more than it holds.  Path A debits `amount`,      *)
(* paths B and C credit `withdrawn`: a depositor who meets several of them *)
(* in turn is never paid twice.                                            *)
PositionsSolvent == \A u \in Users : pos[u].withdrawn <= pos[u].amount

(* tests/e2e_rent_audit.rs asserts it after each step of two lifecycles:   *)
(* the pool never retires more principal than was deposited, so the        *)
(* outstanding principal that quorum and surplus divide never wraps.       *)
NoOverdraw == cfg.total_withdrawn <= cfg.total_deposited

(* The lifecycle gates fit together: nothing is minted or retired before   *)
(* the kick, an empty pool is never deployed, minting stays within the     *)
(* reward supply, and genesis ends only kicked and fully distributed.      *)
PhasesConsistent ==
  /\ ~Kicked => cfg.minted_supply = 0 /\ \A u \in Users : pos[u].withdrawn = 0
  /\ Kicked => cfg.total_deposited > 0
  /\ cfg.minted_supply <= cfg.reward_supply
  /\ Finalized => Kicked /\ cfg.minted_supply = cfg.reward_supply

(* The kick and the end of genesis are final: no later call of any user    *)
(* reopens a phase, moves the pool's principal, or mints past the end.     *)
PhasesFinal ==
  [][/\ Kicked => /\ Kicked'
                  /\ cfg'.total_deposited = cfg.total_deposited
                  /\ \A u \in Users : pos'[u].amount = pos[u].amount
     /\ Finalized => /\ Finalized'
                     /\ cfg'.minted_supply = cfg.minted_supply]_vars

Cast(i, support) ==
  {u \in Users : ballot[u][i].weight # 0 /\ ballot[u][i].support = support}
Voters(i) == Cast(i, 0) \union Cast(i, 1)
Weights(i, S) == SumFunctionOnSet([u \in Users |-> ballot[u][i].weight], S)
Principals(i, S) == SumFunctionOnSet([u \in Users |-> ballot[u][i].principal], S)

(* "a cast ballot never outlives its capital" (meta/src/main.v:221): until *)
(* genesis ends, the principal behind a ballot is still staked.            *)
BallotsBackedByStake ==
  ~Finalized => \A u \in Users, i \in Items :
                  ballot[u][i].principal <= Remaining(u)

(* No base unit votes twice on an item, not even by leaving one position   *)
(* and entering another between two ballots: the Sybil bond binds.         *)
NoRecycledCapital ==
  ~Finalized => \A i \in Items : dist[i].voted_principal <= Outstanding

(* When an item is first minted, voters who still hold their stake have    *)
(* voted on it with more than half of the principal outstanding.           *)
QuorumStillStaked ==
  [][\A i \in Items : dist[i].executed = 0 /\ dist'[i].executed = 1 =>
       2 * SumFunctionOnSet(
             [u \in Users |-> WMin(ballot[u][i].principal, Remaining(u))],
             Voters(i)) > Outstanding]_vars

------------------------------------------------------------------------------
(* Statements of the sources that the bodies do not keep by themselves.    *)

(* "the vote is forfeited (`start_slot = 0`) on every exit"                *)
(* (meta_handlers.rs:402-403): after an exit, a position votes again only  *)
(* once a new deposit has restarted its clock.                             *)
ExitForfeitsVote ==
  [][\A u \in Users : ballot'[u] # ballot[u] => pos[u].start_slot # 0]_vars

(* "a repeat or retract returns `STATUS_BAD_ACTION` rather than            *)
(* mis-tallying" (meta_handlers.rs:600-601): the tallies are exactly the   *)
(* ballots on record, each counted once and on its side, and each one live *)
(* ballot of its voter.                                                    *)
TalliesAreBallots ==
  /\ \A i \in Items \cap accounts :
       /\ dist[i].yes_votes = Weights(i, Cast(i, 1))
       /\ dist[i].no_votes = Weights(i, Cast(i, 0))
       /\ dist[i].voted_principal = Principals(i, Voters(i))
  /\ \A u \in Users :
       pos[u].active_votes = Cardinality({i \in Items : u \in Voters(i)})

(* A distribution is "a vote-approved mint allocation item" of an `amount` *)
(* (main.v:100-105): what is minted under it is what was voted.            *)
ItemMintsWhatWasVoted == \A i \in Items : coin[i] <= dist[i].amount
==============================================================================
