--------------------------- MODULE GenesisForecast ---------------------------
(***************************************************************************)
(* The genesis ledger against what the MCP server forecasts of it.         *)
(***************************************************************************)
EXTENDS GenesisLedger

Tool == INSTANCE Forecast

(* simulate_genesis_vote, asked with the position as it stands, announces  *)
(* the very weight the body tallies, and no weight to whom the body        *)
(* refuses: saturating product against wrapping one, ilog2 against a loop. *)
(* They part where the body's words wrap: for a product that does not fit, *)
(* and for a slot before the stake's own, whose age the tool takes to be   *)
(* zero and the body to be huge.                                           *)
VoteForecast ==
  [][\A u \in Users, i \in Items, action \in {0, 1}, now_slot \in Slots :
       LET age == now_slot - pos[u].start_slot
           told == Tool!simulate_genesis_vote(Remaining(u), now_slot,
                                              pos[u].start_slot)
       IN  /\ vote_genesis_distribution(u, i, action, now_slot)
           /\ age >= 0 /\ Halvings(age) * Remaining(u) < W
           => IF told = 0 THEN status' = STATUS_NO_VOTE_WEIGHT
              ELSE status' = STATUS_OK /\ ballot'[u][i].weight = told]_vars

(* project_coin_distribution, asked with the items as they stand, approves *)
(* exactly the items for whose mint the body does not find votes wanting,  *)
(* as long as the phase lets anything be minted.                           *)
ApprovalForecast ==
  [][\A i \in Items, amount \in CoinAmounts :
       genesis_mint_reward(i, amount) /\ Kicked /\ ~Finalized =>
         (i \in Tool!Approved(dist, Outstanding) <=>
            status' \notin {STATUS_NO_MAJORITY, STATUS_NO_QUORUM})]_vars
==============================================================================
