-------------------------------- MODULE LpPerp --------------------------------
(***************************************************************************)
(* The LP perp market program, src/markets/lp_perp/src/main.v: the pool    *)
(* price last cranked, and a record per hedge with the slots at which it   *)
(* was opened and last settled.  The handlers assign fields and check      *)
(* nothing; the slot is whatever the caller passes.  Pubkeys given at init *)
(* are one value, the market's terms; a fresh account holds zeros.         *)
(***************************************************************************)
EXTENDS Integers

CONSTANTS Users, Terms, Prices, Sizes, Slots

VARIABLES
  market,  \* LpPerpMarket
  pos,     \* pos[u]: the LpPerpPosition of u
  rewound  \* history: the hedges that were stamped with a slot earlier than
           \* the one they carried

vars == <<market, pos, rewound>>

speculative == 0
lp_hedge == 1

(* A name X_Suffix is X with one fault in it: mutation runs put it in      *)
(* place of X to show that a property would notice.                        *)

init_lp_perp_market(terms, created_slot) ==
  /\ market' = [market EXCEPT !.terms = terms, !.created_slot = created_slot]
  /\ UNCHANGED <<pos, rewound>>

crank_pool_price(price, now_slot) ==
  /\ market' = [market EXCEPT !.pool_price_last = price,
                              !.pool_price_last_slot = now_slot]
  /\ UNCHANGED <<pos, rewound>>

open_hedge_SettleSlotKept(u, size, target, price, now_slot) ==
  /\ pos' = [pos EXCEPT ![u] =
               [size_q |-> size, entry_pool_price |-> price,
                hedge_target |-> target, opened_slot |-> now_slot,
                last_settle_slot |-> @.last_settle_slot]]
  /\ rewound' = rewound \ {u}
  /\ UNCHANGED market

(* A hedge opened over another one replaces it.                            *)
open_hedge(u, size, target, price, now_slot) ==
  /\ pos' = [pos EXCEPT ![u] =
               [size_q |-> size, entry_pool_price |-> price,
                hedge_target |-> target, opened_slot |-> now_slot,
                last_settle_slot |-> now_slot]]
  /\ rewound' = rewound \ {u}
  /\ UNCHANGED market

(* The slot of the call is stored and compared with nothing.               *)
Stamped(u, now_slot) ==
  rewound' = IF now_slot < pos[u].last_settle_slot THEN rewound \union {u}
             ELSE rewound

Settle(u, now_slot) == [pos EXCEPT ![u].last_settle_slot = now_slot]
Flatten(u, now_slot) ==
  [pos EXCEPT ![u].last_settle_slot = now_slot, ![u].size_q = 0]

close_hedge(u, now_slot) ==
  pos' = Flatten(u, now_slot) /\ Stamped(u, now_slot) /\ UNCHANGED market

settle_funding(u, now_slot) ==
  pos' = Settle(u, now_slot) /\ Stamped(u, now_slot) /\ UNCHANGED market

liquidate_hedge(victim, now_slot) ==
  /\ pos' = Flatten(victim, now_slot)
  /\ Stamped(victim, now_slot)
  /\ UNCHANGED market

Init ==
  /\ market = [terms |-> 0, pool_price_last |-> 0, pool_price_last_slot |-> 0,
                created_slot |-> 0]
  /\ pos = [u \in Users |-> [size_q |-> 0, entry_pool_price |-> 0,
                             hedge_target |-> speculative, opened_slot |-> 0,
                             last_settle_slot |-> 0]]
  /\ rewound = {}

Next ==
  \/ \E t \in Terms, s \in Slots : init_lp_perp_market(t, s)
  \/ \E p \in Prices, s \in Slots : crank_pool_price(p, s)
  \/ \E u \in Users, n \in Sizes, t \in {speculative, lp_hedge}, p \in Prices,
        s \in Slots : open_hedge(u, n, t, p, s)
  \/ \E u \in Users, s \in Slots : close_hedge(u, s)
  \/ \E u \in Users, s \in Slots : settle_funding(u, s)
  \/ \E v \in Users, s \in Slots : liquidate_hedge(v, s)

------------------------------------------------------------------------------
(* Funding is charged from the last settlement on.  No order of opening,   *)
(* reopening, settling, closing and liquidating leaves a hedge whose last  *)
(* settlement is older than the hedge, so that it would be charged for     *)
(* slots before it was opened, unless a settlement of that very hedge was  *)
(* stamped with an earlier slot than it carried: one such call is enough,  *)
(* and no handler would notice.                                            *)
SettledSinceOpened ==
  \A u \in Users \ rewound : pos[u].opened_slot <= pos[u].last_settle_slot
==============================================================================
