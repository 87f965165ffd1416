------------------------------- MODULE Programs -------------------------------
(***************************************************************************)
(* The programs of the workspace side by side, on words so narrow that     *)
(* their arithmetic wraps: a run is a run of one of them, chosen at the    *)
(* start, and the others stand still.                                      *)
(***************************************************************************)
EXTENDS EngineForecast

CONSTANTS
  Items, Bonds, Reads, Coins, RewardSupplies, \* see GenesisLedger
  LedgerSlots, MaxVotes, OnChain,
  CoinW, Delays, CoinSlots,                   \* see CoinConfig
  Terms, Credits, Quotes, Stakes, Hedges,     \* what callers of the markets
  MarketSlots, PerpSlots                      \* pass

VARIABLES
  program,                                        \* the program that runs
  accounts, cfg, pos, dist, ballot, minted, code, \* the genesis ledger
  coin_cfg, answer,                               \* the COIN configuration
  sov, short,                                     \* the SOV market
  race, entry,                                    \* the race market
  perp, hedge, rewound                            \* the LP perp market

Ledger == INSTANCE GenesisRefinement WITH
            Users <- Accounts, Amounts <- Bonds, CoinAmounts <- Coins,
            Slots <- LedgerSlots, coin <- minted, status <- code
Coin == INSTANCE CoinConfig WITH W <- CoinW, Slots <- CoinSlots, status <- answer
Sov == INSTANCE SovMarket WITH
         Users <- Accounts, Amounts <- Credits, Slots <- MarketSlots,
         market <- sov, pos <- short
Race == INSTANCE PythRace WITH
          Users <- Accounts, Prices <- Quotes, Slots <- MarketSlots,
          market <- race
Perp == INSTANCE LpPerp WITH
          Users <- Accounts, Prices <- Quotes, Sizes <- Hedges, Slots <- PerpSlots,
          market <- perp, pos <- hedge

ASSUME CoinAssumption == Coin!CoinAssumption
ASSUME PerpAssumption == PerpSlots \subseteq Nat

ledger_vars == <<accounts, cfg, pos, dist, ballot, minted, code>>
coin_vars == <<coin_cfg, answer>>
sov_vars == <<sov, short>>
race_vars == <<race, entry>>
perp_vars == <<perp, hedge, rewound>>
programs == <<program, vars, ledger_vars, coin_vars, sov_vars, race_vars, perp_vars>>

ProgramsInit ==
  /\ program \in {"ledger", "coin", "sov", "race", "perp", "engine"}
  /\ Init /\ Ledger!Init /\ Coin!Init /\ Sov!Init /\ Race!Init /\ Perp!Init
  /\ program # "engine" => risk.current_oracle_price = 0

ProgramsNext ==
  /\ UNCHANGED program
  /\ IF program = "engine" THEN Next ELSE UNCHANGED vars
  /\ IF program = "ledger" THEN Ledger!Next ELSE UNCHANGED ledger_vars
  /\ IF program = "coin" THEN Coin!Next ELSE UNCHANGED coin_vars
  /\ IF program = "sov" THEN Sov!Next ELSE UNCHANGED sov_vars
  /\ IF program = "race" THEN Race!Next ELSE UNCHANGED race_vars
  /\ IF program = "perp" THEN Perp!Next ELSE UNCHANGED perp_vars

ProgramsSpec == ProgramsInit /\ [][ProgramsNext]_programs

------------------------------------------------------------------------------
(* What GenesisLedger and GenesisRefinement say of the ledger, CoinConfig  *)
(* of a live COIN configuration and LpPerp of a hedge.  What a trade does  *)
(* to positions, PnL and credits is in RiskEngine and EngineForecast.      *)
LedgerTypeOK == Ledger!LedgerTypeOK
PrincipalConserved == Ledger!PrincipalConserved
PositionsSolvent == Ledger!PositionsSolvent
PhasesConsistent == Ledger!PhasesConsistent
PhasesFinal == Ledger!PhasesFinal
ImplementsEscrow == Ledger!ImplementsEscrow
DelayServed == Coin!DelayServed
SettledSinceOpened == Perp!SettledSinceOpened
==============================================================================
