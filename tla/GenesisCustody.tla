---------------------------- MODULE GenesisCustody ----------------------------
(***************************************************************************)
(* The genesis ledger with the money it keeps the books of.  The bodies of *)
(* meta_handlers.rs take the vault's balance and the amount pulled from    *)
(* the market as scalars and leave the transfers to the layer around them; *)
(* here that layer is modelled as the comments of the bodies, main.v and   *)
(* meta_math.rs describe it, and every balance passed is the true one.     *)
(***************************************************************************)
EXTENDS GenesisRefinement

CONSTANTS Layer   \* which duties the sources leave to the layer are observed

(* The duties:                                                             *)
(*   "refund": genesis is finalized once the market's funds are back in    *)
(*             the vault ("futarchy refunded the vault");                  *)
(*   "dao":    the DAO asks for a surplus only of a vault that covers the  *)
(*             outstanding principal.                                      *)
Duties == {"refund", "dao"}
ASSUME LayerAssumption == Layer \subseteq Duties

VARIABLES
  vault,   \* base units in the genesis vault
  market,  \* base units in the isolated market: insurance and backing
  stake,   \* history: base units u has put in and not been paid back
  lossy    \* history: the market has lost money

custody == <<vault, market, stake, lossy>>
cvars == <<vars, custody>>

Math == INSTANCE MetaMath

Pots == [insurance: 0 .. BaseSupply, backing: 0 .. BaseSupply]
InMarket == market.insurance + market.backing
Accepted == status' = STATUS_OK

(* Who is paid x gets it out of the vault, and it is what he put in.       *)
Pay(u, x) == vault' = vault - x /\ stake' = [stake EXCEPT ![u] = @ - x]

------------------------------------------------------------------------------
Bond(u, amount) ==
  /\ \E n \in Slots : genesis_deposit(u, amount, n)
  /\ vault' = IF Accepted THEN vault + amount ELSE vault
  /\ stake' = [stake EXCEPT ![u] = IF Accepted THEN @ + amount ELSE @]
  /\ UNCHANGED <<market, lossy>>

(* Not kicked: min(remaining, vault_balance) goes back to the depositor.   *)
ExitVault(u) ==
  /\ ~Kicked
  /\ genesis_withdraw(u, 0, vault)
  /\ Pay(u, WMin(vault, Remaining(u)))
  /\ UNCHANGED <<market, lossy>>

(* Kicked: the caller pulls from both parts of the market; the depositor   *)
(* gets it up to his claim, the rest stays in the vault.                   *)
ExitMarket_AllPulled(u, insurance, backing) ==
  /\ Kicked /\ ~Finalized
  /\ insurance <= market.insurance /\ backing <= market.backing
  /\ genesis_withdraw(u, insurance + backing, vault)
  /\ stake' = [stake EXCEPT ![u] = @ - insurance - backing]
  /\ market' = [insurance |-> market.insurance - insurance,
                backing |-> market.backing - backing]
  /\ UNCHANGED <<vault, lossy>>
ExitMarket(u, insurance, backing) ==
  /\ Kicked /\ ~Finalized
  /\ insurance <= market.insurance /\ backing <= market.backing
  /\ LET recovered == insurance + backing
         actual == WMin(recovered, Remaining(u))
     IN  /\ genesis_withdraw(u, recovered, vault)
         /\ vault' = vault + recovered - actual
         /\ stake' = [stake EXCEPT ![u] = @ - actual]
  /\ market' = [insurance |-> market.insurance - insurance,
                backing |-> market.backing - backing]
  /\ UNCHANGED lossy

(* Finalized: the whole claim is retired and paid pro rata of the vault;   *)
(* an outstanding principal of zero under a claim is an error.             *)
ExitFinal(u) ==
  /\ Finalized
  /\ genesis_withdraw(u, 0, vault)
  /\ \E share \in Math!genesis_recoverable_principal(Remaining(u), vault,
                                                     Outstanding) :
       Pay(u, share)
  /\ UNCHANGED <<market, lossy>>

Deploy_StatusIgnored ==
  /\ kickstart_genesis_market
  /\ market' = Math!kickstart_split(cfg.total_deposited)
  /\ vault' = vault - cfg.total_deposited
  /\ UNCHANGED <<stake, lossy>>

(* The pool is deployed in the two parts of the split, if the ledger said  *)
(* so.                                                                     *)
Deploy ==
  /\ kickstart_genesis_market
  /\ IF Accepted
     THEN /\ market' = Math!kickstart_split(cfg.total_deposited)
          /\ vault' = vault - cfg.total_deposited
     ELSE UNCHANGED <<vault, market>>
  /\ UNCHANGED <<stake, lossy>>

(* A refused recovery moves nothing.                                       *)
Recover(kind, amount) ==
  /\ recover_genesis_market
  /\ IF Accepted
     THEN /\ amount <= market[kind]
          /\ vault' = vault + amount
          /\ market' = [market EXCEPT ![kind] = @ - amount]
     ELSE UNCHANGED <<vault, market>>
  /\ UNCHANGED <<stake, lossy>>

Finish ==
  /\ "refund" \in Layer => InMarket = 0
  /\ finalize_genesis
  /\ UNCHANGED custody

(* The DAO's transfer, of base units that exist.                           *)
Draw(amount) ==
  /\ "dao" \in Layer /\ Finalized => vault >= Outstanding
  /\ amount <= vault
  /\ draw_genesis_surplus(amount, vault)
  /\ vault' = IF Accepted THEN vault - amount ELSE vault
  /\ UNCHANGED <<market, stake, lossy>>

(* External: capital in the market wins or loses base units that exist.    *)
MarketResult ==
  /\ Kicked /\ InMarket > 0
  /\ market' \in Pots \ {market}
  /\ vault + market'.insurance + market'.backing <= BaseSupply
  /\ lossy' = (lossy \/ market'.insurance + market'.backing < InMarket)
  /\ UNCHANGED <<vars, vault, stake>>

(* Transactions that move no base unit.                                    *)
BooksOnly ==
  /\ \/ \E s \in RewardSupplies : init_genesis_bootstrap(s)
     \/ \E i \in Items, a \in CoinAmounts : init_genesis_distribution(i, a)
     \/ Votes
     \/ \E i \in Items, a \in CoinAmounts : genesis_mint_reward(i, a)
  /\ UNCHANGED custody

CustodyInit ==
  /\ Init
  /\ vault = 0
  /\ market = [insurance |-> 0, backing |-> 0]
  /\ stake = [u \in Users |-> 0]
  /\ lossy = FALSE

Leaves(u) ==
  \/ ExitVault(u)
  \/ \E i, b \in Amounts \union {0} : ExitMarket(u, i, b)
  \/ ExitFinal(u)

CustodyNext ==
  \/ \E u \in Users, a \in Amounts : Bond(u, a)
  \/ \E u \in Users : Leaves(u)
  \/ Deploy
  \/ \E kind \in {"insurance", "backing"}, a \in Amounts : Recover(kind, a)
  \/ Finish
  \/ \E a \in Amounts : Draw(a)
  \/ MarketResult
  \/ BooksOnly

CustodySpec == CustodyInit /\ [][CustodyNext]_cvars

(* Fairness: a depositor schedules his own transactions, and one who wants *)
(* out goes on submitting withdrawals.  Nobody else has to act.            *)
FairCustody == CustodySpec /\ \A u \in Users : WF_cvars(Leaves(u))

------------------------------------------------------------------------------
(* Type invariant: no balance is ever negative or larger than the supply.  *)
CustodyTypeOK ==
  /\ vault \in 0 .. BaseSupply
  /\ market \in Pots
  /\ stake \in [Users -> 0 .. BaseSupply]
  /\ lossy \in BOOLEAN

(* tests/e2e_rent_audit.rs, "every deposited base unit came back to        *)
(* depositors": what a position has retired is what its owner was paid,    *)
(* unit for unit, until genesis ends and, if the market never lost, after. *)
RetiredIsPaid ==
  ~Finalized \/ ~lossy => \A u \in Users : stake[u] = Remaining(u)

ShareOf(u) ==
  Math!unwrap_or(
    Math!genesis_recoverable_principal(Remaining(u), vault, Outstanding), 0)

(* Pro-rata payouts floor (meta_math.rs:51): when somebody else leaves, or *)
(* the DAO draws, nobody's own share of the vault goes down, however the   *)
(* roundings fall and in whatever order the depositors leave.              *)
OthersUnharmed ==
  [][Finalized => \A u \in Users :
       Remaining(u)' = Remaining(u) => ShareOf(u)' >= ShareOf(u)]_cvars

(* The audit of the wind-down (rent_breakdown, meta_math.rs:104-119) of    *)
(* the claims that are left never promises more than the vault pays out.   *)
AuditPayable ==
  Finalized => Math!rent_breakdown(Claims, vault).returned_to_users <= vault

(* Kept only under the "dao" duty: "DAO draws only vault balance above     *)
(* outstanding genesis principal" (main.v:253-254).  When the vault        *)
(* shrinks and no claim does, it still covers the claims.                  *)
SurplusOnly ==
  [][Finalized /\ vault' < vault /\ UNCHANGED cfg => vault' >= Outstanding]_cvars

Treasury == INSTANCE GenesisTreasury WITH
              stage <- Phase, owed <- Claims, pot <- vault + InMarket

(* Books and money together keep the promise of the treasury.              *)
ImplementsTreasury == Treasury!Spec
==============================================================================
