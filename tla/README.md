# Perc5ive: models, checks and proofs

Perc5ive ports the Percolator perpetuals risk engine and the percolator-meta
genesis (fair-launch) layer to the 5ive VM.  A program is compiled from a DSL
source (`dsl/src/main.v`, `meta/src/main.v`) in which every handler with
arithmetic is a stub that returns a sentinel; a Rust linker appends
hand-written bytecode bodies and rewrites the stubs to reach them.  The bodies
(`src/bytecode/handlers.rs`, `src/bytecode/meta_handlers.rs`) are where the
program's state changes, and they are the heart of this project.  Around them it
models the emitter and the linker that build the program, the reference
arithmetic that tests and tools use in the bodies' place, the forecasts of the
MCP server, and the three market programs.

Paths below are relative to the repository root.

## 1. The system

| Component | State it keeps | Operations | Interacts with | What is hard | What makes it correct |
|---|---|---|---|---|---|
| Genesis ledger (`src/bytecode/meta_handlers.rs`, `meta/src/main.v`) | `GenesisConfig` (two principal totals, reward supply, minted supply, two flags), one `GenesisPosition` per depositor, `GenesisDistribution` per item, `GenesisDistributionVote` per voter and item | ten handlers: bootstrap, deposit, withdraw (three paths), kickstart, init distribution, vote, mint, finalize, draw surplus, recover market | token program and market through scalars read around the call | transactions of many users interleave; wrapping counters; two ways of booking an exit; ballots that outlive their stake | totals follow positions, nobody is paid twice, phases run once, tallies are the ballots, quorum is of staked capital |
| Genesis custody (same files, `meta_math.rs`) | the vault, the isolated market, what each depositor has at stake | the ledger's operations with the money they move | ledger, market | losses of the market, rounding of pro-rata shares, the order of exits | what a claim loses is paid; nobody's exit harms another's; the DAO takes only the surplus |
| COIN configuration (same files) | `CoinConfig` | `init_coin_config`, `activate_live` | markets of the same mint | a delay that wraps, repeated activation | live only after the delay, wherever its end fits a word |
| Risk engine (`src/bytecode/handlers.rs`, `dsl/src/main.v`) | `RiskEngine` (vault, insurance, c_tot, counters, market state), `MarginAccount`s | nine bodies and the DSL's `set_owner` | oracle price, slot and funding rate come from callers | aliased accounts, signed values as bit patterns, narrow fields accessed wide, refusals after writes | what may be taken out is in the vault, books balance, trades are zero-sum |
| Genesis arithmetic references (`src/bytecode/meta_math.rs`) | none | vote weight, kickstart split, recoverable principal, approval, rent audit | the bench, the MCP server | saturating here, wrapping in the bodies | agrees with the bodies |
| Emitter (`src/bytecode/emit.rs`) | one byte vector, handles of jumps and calls | instructions, constants, forward and backward jumps, two ways to finish | the bodies, the linker | targets count from the header in one flavour and from the body in the other; jumps are patched by hand | every jump lands, every constant is the one asked for |
| Linker (`link.rs`) | the binary being linked | append a body and fix its jumps, find a stub, rewrite it, patch a call | compiled DSL binaries, emitted bodies | ambiguous patterns, three stub forms, 16-bit targets | every sentinel reaches its body, and nothing else moves |
| MCP server (`mcp/`) | none between requests | simulation tools over stdio | the arithmetic references | a forecast in another arithmetic than the body's | forecasts are what the bodies do |
| Markets (`markets/*/src/main.v`) | one market account and its positions each | open, close, crank, resolve, liquidate | prices and slots from callers | calls out of order, on a market that is burnt or resolved, and overwritten records | a hedge is never charged for slots before it was opened |
| Header normalizer, build | one file header | rewrite it | the compiler | | |
| Deferred governance handlers | none | five declared stubs | | | they change nothing |
| Bench, tests, scripts | | | | | not part of the program |

A transaction runs one handler to completion and no two overlap, so there is no
concurrency inside a handler.  What interleaves is transactions of different
users, in any order, with any arguments.  A handler that refuses returns a
nonzero status: a value, not a trap, so that nothing it has written is undone.

Token balances, the amount a market pull recovered, prices and the current slot
reach a handler as scalars.  No body compares a slot with anything but its own
fields, so the models let callers pass slots in any order: there is no clock.
SPL transfers, PDA creation and identity checks are the job of a layer that is
not in the repository; the sources say which of its guards they count on, and
the models switch each of them by a constant (`OnChain`, `Layer`, `Outside`), so
that every run says which it needs.  A check that no source gives to that layer
is never assumed.

## 2. Modules

| Module | Models | Extends / instantiates |
|---|---|---|
| `GenesisLedger` | the genesis ledger, one action per handler body | |
| `GenesisEscrow` | the abstract promise about claims: phases absent, open, kicked, final, and one claim per depositor | |
| `GenesisRefinement` | the refinement mapping of ledger to escrow; what an exit completes | `GenesisLedger`, `GenesisEscrow` |
| `MetaMath` | the reference arithmetic, saturating | |
| `Forecast` | the numbers of the MCP server's simulation tools | `MetaMath` |
| `GenesisForecast` | the ledger against the server's forecasts | `GenesisLedger`, `Forecast` |
| `MCGenesisLedger` | model values and symmetry for TLC | `GenesisRefinement`, `GenesisForecast` |
| `GenesisTreasury` | the abstract promise about money: one pot, claims on it, and no other way out | |
| `GenesisCustody` | the ledger composed with its vault and its market; fairness | `GenesisRefinement`, `MetaMath`, `GenesisTreasury` |
| `MCGenesisCustody` | model values for TLC | `GenesisCustody` |
| `SumLemmas` | lemmas on remainders modulo a word, and on sums over finite sets | |
| `GenesisLedgerProofs` | theorems: types, phases, claims of the ledger, and its refinement | `GenesisRefinement` |
| `GenesisBallotProofs` | theorems: the pool's totals, ballots and the server's forecasts of them | `GenesisLedgerProofs`, `GenesisForecast`, `SumLemmas` |
| `GenesisCustodyProofs` | theorems: balances, payouts, and the refinement of the treasury | `GenesisCustody`, `GenesisBallotProofs` |
| `CoinConfig` | the COIN configuration | |
| `RiskEngine` | the nine bodies of the risk engine, and `set_owner` | |
| `EngineForecast` | the engine against the server's forecasts | `RiskEngine`, `Forecast` |
| `MCRiskEngine` | model values and symmetry for TLC | `EngineForecast` |
| `RiskEngineProofs` | theorems about the engine and its forecasts | `EngineForecast`, `SumLemmas` |
| `SovMarket`, `PythRace`, `LpPerp` | the three market programs, one action per handler | |
| `Programs` | the ledger, the COIN configuration, the markets and the engine side by side, on narrow words: a run is a run of one of them | `EngineForecast`, `GenesisRefinement`, `CoinConfig`, the markets |
| `MCPrograms` | model values and symmetry for TLC | `Programs` |
| `ProgramProofs` | theorems about the COIN configuration and the LP perp market | `Programs` |
| `Bytes` | addresses in two bytes, overwriting bytes | |
| `Linker` | appending bodies, finding and rewriting stubs, patching calls | `Bytes` |
| `Emitter` | the builder of bodies and standalone programs | `Bytes` |
| `EmitLink` | emitted bodies and programs handed to the linker | `Linker`, `Emitter` |
| `MCLinker` | the compiled binaries and bodies TLC tries | `EmitLink` |
| `LinkerProofs` | theorems about links | `Linker`, `SumLemmas` |
| `EmitLinkProofs` | theorems about emitted programs and links of them | `EmitLink`, `LinkerProofs` |

**GenesisLedger.**  `cfg`, `pos`, `dist` and `ballot` are the four account types
with the fields the bodies use; pubkeys, proposal ids and the fields no body
touches are left out.  `accounts` says which config and distribution accounts
exist; `coin` is the token program's; `status` is what the last call returned.
Slots are arguments of the calls, as in the code: an age counted from a later
slot than the caller's wraps.  A 64-bit word is `0 .. W-1`, and `WAdd`, `WSub`
and `WMul` wrap as the VM does.  The log2 loop of the vote body is a count of
powers of two.  A body's early returns are the branches of one `IF` in the
order of the code, and each refusal leaves the ledger as it was.
`draw_genesis_surplus` and `recover_genesis_market` only check and return.

**GenesisEscrow / GenesisRefinement.**  `Phase` is read off the account and the
two flags; a claim is `amount - withdrawn`.  The three withdraw paths, of which
one debits `amount` and two credit `withdrawn`, all become `Exit`.

**GenesisCustody.**  Each action is a handler of the ledger together with the
money the comments of the body, of `main.v` or of `meta_math.rs` say is moved
with it: a deposit brings it into the vault, a kickstart splits the pool into
insurance and backing, an exit is paid from the vault, from a pull, or pro rata.
The scalars passed to a body are the true balances; a refused call moves
nothing.  The market gains and loses at any moment it holds capital.  `stake`
and `lossy` are history.

**GenesisTreasury.**  One pot and the claims on it.  Custody implements it with
`pot <- vault + InMarket`: a kickstart, which moves money between vault and
market, advances the stage and leaves the pot alone.

**MetaMath, Forecast.**  Pure operators; an `Option` is a set of at most one
value.  `GenesisForecast` and `EngineForecast` say that a tool, asked with the
accounts as they stand, tells what the body then does.  The references saturate
and clamp, work on signed integers or take a logarithm in one instruction, where
the bodies wrap, work on bit patterns and loop.

**CoinConfig.**  The two bodies; `Programs` instantiates it.  The config may be
set up and activated any number of times, with any slots: neither body asks.

**RiskEngine.**  `risk` and `acct` hold the fields the bodies use.  Amounts and
signed values share one word `0 .. W-1` (128 bits); prices have a word of their
own (64 bits), because a price difference wraps there before it is widened.
`open_account_count` is read and written eight bytes wide, as the code does, and
reaches into `account_bitmap_hi` (`CloseOne`).  Where two account parameters may
be one account, writes are composed in the order of the body.  `keeper_crank`
is the DSL body followed by the appended one.  `taken` and `overdrawn` are
history: the fees liquidations collected, and the number of conversions that
asked for more than the reserve they draw on, which the body lets pass.

**SovMarket, PythRace, LpPerp.**  Handlers that assign fields and check nothing;
the pubkeys of an init are one value, the market's terms.  Every handler, init
too, may be called in any order, any number of times and with any slot.  What a
document promises of a burn or a resolution is therefore not true (section 6),
and `SovMarket` and `PythRace` carry no property.  `LpPerp` has one; `rewound` is
history: the hedges stamped with a slot earlier than the one they carried.

**Bytes, Linker.**  `binary` is the buffer, a sequence of bytes; a byte has `B`
values and a literal `LitBytes` bytes, so that addresses and patterns stay
short, and data can look like code as it can in 256 values.  The header is cut
down to what `parse_pool_window` extracts from it: pool or no pool, its offset,
its slots.  The compiler is external: `Bases` are its outputs, with where it put
each stub and call, which the linker does not know and the properties do.
Operations may come in any order, the drivers' (append, rewrite, next sentinel)
among them.  A panic or an error ends the link; the drivers then write nothing.

**Emitter, EmitLink.**  `body` is the byte vector, `open` the handles still to be
patched, `jumps` the handles with the position each is meant for.  An instruction
without a target is the sequence of its bytes.  The model keeps the conventions
the sources' own programs keep: one flavour per program, every forward jump
patched, every handle handed over, and a loop position below the last address (a
body takes it as `body_len() as u16`, `meta_handlers.rs:653`, which truncates).
`EmitLink` hands a body and its handles to the linker, or makes a standalone
program the base of a link and patches the calls it reports.

A definition `X_Suffix` is `X` with one fault in it; it is used by mutation runs
that show a property would notice, and by no action.

## 3. Runs

Every run is small and exhaustive.  `W` is chosen small where wrapping is the
point, and large enough for nothing to wrap where it is not.

| Run | Shows | Bounds and why they are enough |
|---|---|---|
| `Ledger_ballots` | no overdraw; ballots are backed; no capital votes twice; quorum is staked when an item is minted; weights and approvals are as forecast | two depositors and two items; a supply of three base units, so that a majority exists and a tie is possible; slots 2 and 4, in any order, so that an age is 0, 2, 4 (a weight of 1 or 2 per unit) or wraps; `MaxVotes = 2` is one ballot per item |
| `Custody` | claims are paid for unit by unit; the wind-down audit is payable; nobody's exit lowers another's share; the whole implements the treasury; after genesis everyone who asks is settled in full | two depositors and three base units, so that a loss of one or two makes shares round; pulls of 0, 1 or 2 from either part; a market that wins and loses at any time; no reward is voted, as rewards move no base unit |
| `Programs` | of the ledger: totals follow positions modulo the word, no claim is paid twice, phases fit and are final, it implements the escrow; a COIN config is live only after its delay; a hedge is never older than its last settlement; trades are zero-sum, within the bound, and as forecast | the ledger at `W = 4`, where two deposits of 3 wrap, with no guard but account creation, two depositors, one item, reads below, at and above a claim, and a supply of 2 with mints of 1 and 3, of which 3 wraps the check; COIN words of 16 values, slots 0, 2, 3 and 14 and delays 0, 2 and 4, so that 14 + 2 and 14 + 4 wrap; two users per market, and three slots for hedges; an engine of two-bit values and one-bit prices: every combination of signs and every wrap |
| `Engine_custody` | claims are backed until a conversion overdraws its reserve, books balance, open positions keep their margin, liquidations and cranks are as forecast | two accounts, five base tokens, amounts of 1, 3 and 13, where 13 is `W - 3`: converting it cuts a capital; a fee of half the capital capped at 1; positions of 0 and 8, which at `W = 16` is its own negative, so a position opens and closes; two slots, so that settles and cranks set the market's slot back and forth; `MaxOverdrawn = 0` lets a run go on until a first conversion has overdrawn its reserve, and no further |
| `Linker_stubs` | only true stubs are rewritten, each leads to its own body, bodies and their jumps stay, no rewrite makes a new look-alike; emitted jumps land wherever the body is placed, and constants are exact | two sentinels that start with the bytes of `RETURN_VALUE` and `PUSH_U64`, as two of the program do; all three stub forms; gaps that hold other returns and half patterns; bodies with a jump and with a stub's bytes; a missing stub; a binary that ends just below the last address.  Emitted programs grow until they are longer than `MaxBody = 5` bytes, in both flavours: two forward jumps patched in either order, a loop, a constant of a push and a chunk (3 + 1) and a call, or code that nearly fills the address space |

The remaining runs end in a violation on purpose: section 6.

*How a few properties are read.*  `PrincipalConserved` holds modulo the word and
`NoOverdraw` as numbers.  `OthersUnharmed` compares what the reference would pay
a depositor before and after somebody else's transaction.  `ImplementsTreasury`
relates every base unit that leaves to a claim that shrinks.  `DelayServed` and
`VoteForecast` name the words that wrap, in states the runs reach, and hold
everywhere else.  `LiquidationForecast` says that the fund gets the fee told or
the cap, that the liquidator never gets less than he is told, and that he gets
exactly that just when the cap spared nothing and the victim had no reserve.
`TradeForecast` says of the PnL what the tool tells where the oracle is not below
the execution price; `Engine_signed_pnl` shows what happens below.
`PositionsKeepCollateral` covers conversions of any amount, those too that cut a
capital below its margin by wrapping.  `StubsEnterBodies` follows a rewritten
stub through its call to the body of its own sentinel.  `Lands` reads a jump's
target out of the finished bytes.

**Deadlock** is checked, except in `Linker_stubs`, where a link ends.

**Symmetry** of depositors, items, accounts, holders and users is used in runs
without liveness properties.  `Custody`, which checks liveness, uses none.

**Named bounds.**  `MaxVotes` (live ballots per position), `MaxOverdrawn`
(overdrawn reserves a run of the engine goes on after) and `MaxBody` (length at
which a program stops growing) are the only bounds in guards; `Slots`,
`Amounts`, `Reads`, `CoinAmounts`, `RewardSupplies`, `Prices`, `Sizes`, `Fees`,
`Rates`, `Straight` and `Uints`, and in `Programs` `Bonds`, `Coins`,
`LedgerSlots`, `Delays`, `CoinSlots`, `Terms`, `Credits`, `Quotes`, `Stakes`,
`Hedges`, `MarketSlots` and `PerpSlots`, are the inputs callers may pass.

**Fairness.**  `FairCustody` assumes weak fairness of each depositor's own
withdrawals (`Leaves(u)`).  Nothing in the program schedules transactions: a
depositor who wants out goes on submitting them, which needs nobody else's
consent.  No other action is assumed fair; whether genesis ends at all is not
claimed.

## 4. Guards of the surrounding layer

| Guard | What it says | Where the sources name it | Needed by |
|---|---|---|---|
| `create` | an account is created, and its init handler run, once | `meta_handlers.rs:332-333`, `556-557` | all lifecycle properties |
| `lock` | no exit with live ballots before genesis ends | `meta_handlers.rs:415-416`, `meta/src/main.v:183-184` | `BallotsBackedByStake`, `NoRecycledCapital`, `QuorumStillStaked` |
| `fresh` | one ballot per voter and item: the stated scope of the port, which the body does not see to (`Ledger_repeat_ballot`) | `meta_handlers.rs:602` | `NoRecycledCapital`, `QuorumStillStaked` |
| `spl` | the token transfer or mint of a call fails if the tokens do not exist | `meta_handlers.rs:360-361`, `749-750` | whatever compares totals as numbers: `NoOverdraw`, the ballot properties |
| `refund` (custody) | genesis is finalized once the market's funds are back in the vault | `meta_handlers.rs:406-407` | `ImplementsTreasury`, `RetiredIsPaid`, `AuditPayable` in the form given here |
| `dao` (custody) | the DAO asks for a surplus only of a vault that covers the outstanding principal | `meta/src/main.v:253-254` | `OthersUnharmed` |
| `spl` (engine) | the transfer behind a payment into the vault moves tokens that exist | `SPEC.md:190` | `ClaimsBacked` |

`PrincipalConserved`, `PositionsSolvent`, `PhasesConsistent`, `PhasesFinal` and
`ImplementsEscrow` need `create` only, and run without the others; of the engine,
only `ClaimsBacked` needs a guard.  The COIN configuration and the markets have
none.

The theorems state what they need by name: `ConfigOnce` (`create`), `TokensReal`
(`spl`), `GuardsInForce` (all four of the ledger), `LayerKept` (`create`, `spl`,
`refund` and `dao`, and balances that can be read), `OutsideHolds` (`spl` of the
engine).

## 5. Proofs

The theorems hold for every value of the constants that the assumptions of the
models allow.  Those are `FiniteAssumption`, `WordAssumption`,
`SupplyAssumption` and `InputAssumption` of the ledger, `LayerAssumption` of the
custody, `EngineAssumption` and `CallAssumption` of the engine,
`CoinAssumption` and `PerpAssumption` of the programs, `OpcodeAssumption` and
`SentinelAssumption` of the linker, and `EmitterAssumption`; TLC evaluates each
of them in the runs of its component.  What a theorem needs beyond them it names
as a hypothesis, explained where it occurs; the constants of some run satisfy
it.

### Ledger (`GenesisLedgerProofs`)

* `TypeCorrect`: `[]LedgerTypeOK`, whatever guards are in force.
* `Solvency`, `PhaseGates`, `Finality`: `PositionsSolvent`, `PhasesConsistent`,
  `PhasesFinal`, under `ConfigOnce`.
* `LedgerImplementsEscrow`: `ImplementsEscrow`, under `ConfigOnce`.

The run `Programs` checks these definitions on its instance of the ledger, as it
does the `PrincipalConserved` of the next section.

None of the three invariants is inductive alone.  An exit on path A debits
`amount`, and keeps `withdrawn <= amount` only because nothing has been
withdrawn before the kick; that, in turn, is kept only because the kick is never
undone, which a second bootstrap of the config would do.  `LifecycleInv`
therefore joins types, phases and solvency with "no config account, no kick",
and `NextLifecycle` shows it preserved by each handler.  `ExitClaims` is the
heart of it: on each path an exit lowers the depositor's claim by at most the
claim, and by all of it after genesis.  Deposits wrap, so before the kick the
claim is `amount` itself (`ClaimBeforeKick`); after it, `amount - withdrawn`
without a wrap (`ClaimOfSolvent`).  The refinement maps each handler to one
escrow action or a stutter; minting stays within the supply even where the
counter wraps, since the check and the store compute the same sum.

### Totals, ballots and their forecasts (`GenesisBallotProofs`)

* `Principal`: `PrincipalConserved`, under `ConfigOnce`, with counters that wrap.
* `Overdraw`: `NoOverdraw`, under `ConfigOnce` and `TokensReal`.
* `Backing`, `SybilBond`, `QuorumHolds`: `BallotsBackedByStake`,
  `NoRecycledCapital` and the action property `QuorumStillStaked`, under
  `GuardsInForce`.
* `ApprovalTold`: `ApprovalForecast`, without a hypothesis.
* `VoteTold`: `VoteForecast`, for every slot passed, under `PowersDouble`, which
  says what a power of two is: the provers know nothing of `^`.

Each step of the ledger moves the pool in one of four ways (`PoolStep`): not at
all, in, out on path A, or retired on B and C.  `PoolInv` adds to `LifecycleInv`
that totals are sums modulo the word, and that they are clear until the config
exists.  With real tokens the sum of the positions stays within the supply
(`SupplyInv`), so that nothing wraps and the totals are exact (`ExactTotals`).
`BallotInv` counts ballots: `active_votes` is the number of items an account has
a ballot on, `voted_principal` the sum of what the ballots counted, and a ballot
counts no more than its owner still has (`Behind`), because the lock keeps the
stake while ballots are live.  That is why a quorum is a quorum of capital that
is still there.  `HalvingsAreLog` shows that the loop of the body counts
what the reference computes in one instruction; with it the weight told is the
weight tallied wherever the age and the product fit a word, which is as far as
`VoteForecast` goes.

### Custody (`GenesisCustodyProofs`)

* `CustodyRunsLedger`: `CustodySpec => Spec`, so that all of the above holds of
  the ledger under real balances.
* `CustodyTypes`, `PaidInFull`, `AuditHolds`: `CustodyTypeOK`, `RetiredIsPaid`,
  `AuditPayable`.
* `Unharmed`: the action property `OthersUnharmed`.
* `CustodyImplementsTreasury`: `ImplementsTreasury`.

All under `LayerKept`.  `MoneyStep` lists what a step can do to claims and
balances: nothing, a deposit, an exit paid, an exit settled after genesis, a
deployment, a recovery, the end, a surplus drawn, a result of the market; every
later proof goes by these and never opens a handler again.  `CustodyInv` says
that until the kick the vault is the pool, that a claim is what its owner is
owed unless the market lost, and never more, and that a market that never lost
covers the claims.  `AuditHolds` is a fact about floors: shares rounded down add
up to no more than the vault.  `Unharmed` compares two such shares, before and
after another's exit, which multiplies out to an inequality of products.

### Engine (`RiskEngineProofs`)

* `EngineTypes`, `Books`: `TypeOK` and `BooksBalance`, whatever guards are in
  force.
* `Backed`: `ClaimsBacked`, under `OutsideHolds`.
* `CollateralKept`: the action property `PositionsKeepCollateral`.
* `ZeroSum`, `WithinBounds`: `TradesZeroSum` and `AcceptedWithinBounds`.
* `CrankTold`, `LiquidationTold`, `TradeTold`: `CrankForecast`,
  `LiquidationForecast` and `TradeForecast`.

`CloseOneType` shows that a decrement of the account count which borrows from
the bitmap stays in the two fields.  The balance is inductive given the types:
each handler changes one item on each side by the same number, and `SameChange`
shows that wrapping does not disturb that.  `Backed` follows a sum over the
accounts (`ClaimsChange`, `ClaimsExchange` for two accounts that may be one);
what a liquidation takes is within the victim's capital (`LiquidationPays`), and
as long as no conversion has overdrawn a reserve (`OverdrawnRecorded`) the tokens
that exist keep every claim from wrapping.  `CollateralKept` is a fact about
single steps: of all that may cut a capital, only `withdraw` and a settlement
look at the margin, and both keep it; a conversion cuts a capital only by
wrapping it, once (`WrapsOnce`).  `ShareBound` bounds a fee by the capital it is
a share of.  `MagnitudeIsAbs`, `SignedSum` and `SignedResidue` connect bit
patterns with the signed numbers of the server, and `PnlAsTold` their product,
where the price difference is not negative.

### COIN configuration and markets (`ProgramProofs`)

* `ServesDelay`: `DelayServed`.
* `SettlementHolds`: `SettledSinceOpened`.

Neither needs a hypothesis.  `RunsEach` shows that a run of the programs is a run
of each.  `ServedInv` joins `DelayServed` with the types; `init_coin_config` with
a delay of zero is live from its own start, and an end that fits a word is the
one the body computes (`LiveFromExact`).  `PerpInv` does the same for the hedges;
`StampKeeps` is the step they share: a stamp either is no older than the last, or
puts the hedge among the rewound ones.

### Linker (`LinkerProofs`)

* `FrameKept`, `StubsEnter`, `BodiesKept`: `BaseKept`, `StubsEnterBodies`,
  `BodiesIntact`, under `InputsSound`.

`InputsSound` says what compiler and emitter deliver.  Every sentinel has a
stub, which the scan finds in the form in which the rewriter will read it, and
stubs, calls, pool and header do not overlap (`Compiled`, `Whole`); the targets of
a body lie in it and do not overlap (`Emitted`).  Nothing else is assumed of the
bytes: they may hold any number of look-alikes.  All but one family of the run's
bases and all its bodies satisfy it; the exceptions are its drifted binaries,
which lack a stub.  There a look-alike could be the only match and be taken for
it: the run shows that this does not happen with the look-alikes it tries, and
no theorem says more.

`LinkInv` has three parts.  Outside the slots rewritten and the targets patched
the compiled bytes stand (`FrameInv`); a rewritten slot holds the transfer to its
body (`TransferInv`); bodies follow the compiled binary, each where it was placed,
with its targets moved (`PlacedInv`).  The step that matters is a rewrite
(`RewriteStep`).  The stub of a sentinel not yet rewritten is untouched, so it is
still found (`StubStays`); if the scan reports one match it is this one
(`OnlyHit`), and a look-alike anywhere makes the link fail.  It never goes wrong
silently.

### Emitter and linker (`EmitLinkProofs`)

* `JumpsLanding`, `ConstantsRight`: `JumpsLand` and `ConstantsExact`, under
  `EmitSound`: the bases are compiled and the bodies emitted in the sense above.
* `LinkedPrograms`: the three promises of a link, for emitted programs as well.

`EmitInv` keeps apart what is written at different times: targets of jumps,
patched or not, calls, and the code of constants never overlap, so that patching
one leaves the others (`PatchHereStep`).  A finished program, with its header, is
as good a base as a compiled one (`WrappedCompiled`), and an emitted body is one
the linker can place (`HandedOver`); from there on `LinkInv` does the work.
`CodeLeaves` runs the code of a constant: after `i` chunks the stack holds one
value, the value asked for or 3 more per chunk.

### Lemmas

`SumLemmas` has arithmetic modulo a word of any size, whose key is that a
remainder is unique (`ModUnique`), and sums over finite sets.  The sum of the
community modules is a recursion over subsets that removes a chosen element, and
the induction theorems of the library take an operator as a parameter, which the
provers cannot instantiate.  Induction is therefore stated with sets
(`NatSetInduction`, `SubsetInduction`, `ElementInduction`); with it the recursion
is shown to have a solution (`SumsExist`), which does not depend on the order
(`SumRemove`), and from there on sums are changed, compared and exchanged by
lemmas.  `EmitLinkProofs` treats the flattening of sequences and the run of a
piece of code in the same way (`FlattenExists`, `RunsExist`).

### Model-checked only

* `ExitCompletes` is liveness under fairness, which the proof system does not
  handle.
* `RewritesMakeNoStub` is not a theorem: an offset written into a slot may
  hold the byte of a push, and the bytes of the compiled binary behind the slot
  may complete it to a look-alike.  It holds for the sentinels, bodies and sizes
  of the run.  In general such a look-alike makes the link of another sentinel
  ambiguous, and the link fails; `FrameKept` and `StubsEnter` hold all the same.
* What a run shows with drifted binaries, as said above.
* The refuted statements of section 6.

## 6. Where the code and its documents disagree

Each line is a run that finds the statement violated; PROJECT.json quotes it.

| Run | The statement | What the code does |
|---|---|---|
| `Ledger_partial_exit` | the vote is forfeited on every exit | `start_slot = 0` makes the rest of the stake as old as the chain |
| `Ledger_item_amount` | an item is an approved allocation of an amount | neither the amount nor `executed` is read when minting |
| `Ledger_repeat_ballot` | a repeated ballot "returns STATUS_BAD_ACTION rather than mis-tallying" | only an action above 1 is refused: the repeated ballot is tallied again, over the record of the first |
| `Custody_surplus` | the DAO draws only the vault's balance above the outstanding principal | the difference wraps when the vault is short, and every draw is accepted |
| `Engine_conservation` | `V >= C_tot + I` always | a liquidation fee enters `I` and never leaves `C_tot` |
| `Engine_crank_time` | `now_slot >= risk.current_slot` or status 9 | the field is overwritten before it is compared |
| `Engine_signed_pnl` | `(oracle - exec) * size`, signed | the difference is widened without its sign |

Other places where the code does less, or other things, than a comment says are
in the models as the code has them.  Either a property above says exactly how far
the statement holds, or it touches nothing another handler reads, so that no run
is spent on them:

* Ballots.  A retraction is refused, while `main.v:184` sends a depositor with
  live ballots to retract first: under `lock` such a depositor can leave only
  after genesis.  An exit does not look at `active_votes` itself.  Where the
  slot passed lies before the stake's own, the age wraps in the body, which then
  tallies a weight, while the server announces none (`VoteForecast`).
* Minting and finalizing.  A mint whose sum wraps passes the supply check
  (`spl`); a config with a reward supply of 0 can be finalized, which the
  server's `project_coin_distribution` says it cannot.
* Recovery from the market is refused after finalization, although
  `meta_math.rs:91-93` counts on it for whatever is still there (`refund`).
* COIN configuration.  `meta_handlers.rs:302-303` requires the delay to have
  elapsed, but a start and a delay whose sum does not fit a word end at once
  (`DelayServed`).  The "one-time" setup (`meta/src/main.v:140`) may be repeated on a live
  config, and so may the activation, which then stamps a new `live_slot`, an
  earlier one too.
* Risk engine.  A conversion does not look at the reserve
  (`handlers.rs:421-435`), so that capital nobody paid in may be withdrawn,
  against `SPEC.md:14`; `ClaimsBacked` says that this is the only way to it.
  `set_owner`, "admin-only", compares nobody with the admin.  A refused trade
  keeps its writes, while `SPEC.md:20` says that a failure rolls back fully and
  the server that the trade aborts (`server.rs:281`).  A flat account
  can be liquidated; `open_account_count` borrows from the bitmap next to it.
* The server's forecasts of the engine.  `simulate_liquidation` leaves out the
  victim's reserve, which the body hands to the liquidator
  (`server.rs:192-193`, `209` against `handlers.rs:883`), and the cap, which its
  text mentions (`LiquidationForecast`); `simulate_trade` reckons PnL with a
  signed price difference (`TradeForecast`, `Engine_signed_pnl`).
* Markets.  A deposit, a withdrawal and a top-up overwrite the total they are
  declared to add to; a liquidation of a SOV position leaves its count at 0.  A
  SOV market initialized again is unburned (`markets/sov/src/main.v:114`), although the burn
  is declared permanent (lines 123-125).  A race initialized again is open
  again, and one that is resolved may be resolved with other prices and claimed
  again, although resolving "locks further interaction" (`markets/PYTH_RACE.md:70`); a
  race entered again forgets that it was claimed and keeps the slot at which it
  was closed, and a race liquidation stores slot 0; the winner and the stake
  totals of a race are never set.  A hedge may be stamped with an earlier slot
  than it carries, and then looks settled before it was opened
  (`SettledSinceOpened`).
* MCP server.  `simulate_rent_audit` is in the catalogue (`mcp/src/tools.rs:170`)
  and is not routed by the server.

## 7. Not modelled, and why

* Account materialization of the risk engine, code that runs before the bodies,
  and the fields no body reads or writes (ADL, reserve schedules, market
  resolution).
* Bytecode encoding: a body is modelled by what its opcodes do, on the
  conventions the sources state.  How the VM numbers parameters, finds fields in
  an account and picks a width for two lazy operands is the VM's, outside the
  repository; the two body files use different conventions
  (`meta_handlers.rs:158-179` against `handlers.rs:126`).
* How the VM decodes a push.  In a binary with a constant pool `PUSH_U64` takes a
  pool index (`link.rs:203-207`, `emit.rs:121-127`); the genesis bodies keep to
  pushes that mean the same with and without a pool, the risk engine's bodies
  push inline literals.  `RiskEngine` takes each constant at the value the source
  names.
* Of `meta_math.rs`: `aggregate_rent`, a plain sum over markets, and the emitted
  test programs of its second half.
* Of the MCP server: the JSON-RPC loop, which keeps no state, the catalogue, the
  wording, and `project_pnl` and `explain_risk_math`, which lay out formulas of
  PnL and equity for prices to come and forecast no call.
* The header normalizer (`dsl_header.rs`) and the build: a byte rewrite of one
  header and a compiler invocation.
* The five deferred governance handlers: their stubs change nothing.
* The conformance bench, scripts and tests: no state of the program.

## 8. Plan

1. *Done*: ledger, escrow and refinement; COIN configuration; risk engine; linker.
2. *Done*: `MetaMath` and `Forecast`, the reference functions and the server's
   tools against the bodies' arithmetic.
3. *Done*: `GenesisCustody` and `GenesisTreasury`.
4. *Done*: the three markets; the emitter and its composition with the linker.
5. *Done*: theorems about types, books, phases and both refinements; about the
   sums over accounts, depositors and ballots; about the custody's balances and
   payouts; about the forecasts; about the programs, the linker and the emitter.
6. Next, in this order: a form of `RewritesMakeNoStub` that holds of every
   binary, stated with the bytes of the offsets written; `StubsEnterBodies` of a
   binary that lacks a stub, with a hypothesis on its look-alikes; an
   abstract specification of the engine's vault, as the treasury is of the
   custody's, and the engine's refinement of it; a bound, in the amounts
   converted, on what claims exceed the vault by once a reserve is overdrawn.
