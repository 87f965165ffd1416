------------------------------- MODULE PythRace -------------------------------
(***************************************************************************)
(* The Pyth race market program, src/markets/pyth_race/src/main.v: a race  *)
(* between two prices, its snapshots, its resolution, and an entry per     *)
(* user.  The handlers assign fields and check nothing: no slot, side,     *)
(* resolution or claim is looked at.  Pubkeys given at init are one value, *)
(* the market's terms; a fresh account holds zeros, and winner, stake      *)
(* totals and fees are never assigned.                                     *)
(***************************************************************************)
EXTENDS Integers

CONSTANTS Users, Terms, Prices, Stakes, Slots

VARIABLES
  market,  \* PythRaceMarket
  entry    \* entry[u]: the PythRaceEntry of u

vars == <<market, entry>>

side_a == 0
side_b == 1
status_ongoing == 0
status_resolved == 1

(* The prices keep what the account held, and a race that is over is open  *)
(* again.                                                                  *)
init_race_market(terms, race_start_slot, race_end_slot, created_slot) ==
  /\ market' = [market EXCEPT !.terms = terms,
                              !.race_start_slot = race_start_slot,
                              !.race_end_slot = race_end_slot,
                              !.resolved = status_ongoing,
                              !.created_slot = created_slot]
  /\ UNCHANGED entry

snapshot_start(a, b) ==
  /\ market' = [market EXCEPT !.start = <<a, b>>]
  /\ UNCHANGED entry

(* An entry made again keeps the slot at which it was closed.              *)
enter_race(u, side, stake, now_slot) ==
  /\ entry' = [entry EXCEPT ![u].side = side, ![u].stake = stake,
                            ![u].opened_slot = now_slot, ![u].claimed = 0]
  /\ UNCHANGED market

close_early(u, now_slot) ==
  /\ entry' = [entry EXCEPT ![u].closed_slot = now_slot]
  /\ UNCHANGED market

(* The slot of the call is not looked at, and may lie before the end.      *)
resolve_race(a, b) ==
  /\ market' = [market EXCEPT !.end = <<a, b>>, !.resolved = status_resolved]
  /\ UNCHANGED entry

claim_winnings(u) ==
  /\ entry' = [entry EXCEPT ![u].claimed = 1]
  /\ UNCHANGED market

(* The slot stored is zero, which stands for an open entry.                *)
liquidate_underwater(victim) ==
  /\ entry' = [entry EXCEPT ![victim].closed_slot = 0]
  /\ UNCHANGED market

Init ==
  /\ market = [terms |-> 0, race_start_slot |-> 0, race_end_slot |-> 0,
                start |-> <<0, 0>>, end |-> <<0, 0>>,
                resolved |-> status_ongoing, created_slot |-> 0]
  /\ entry = [u \in Users |-> [side |-> side_a, stake |-> 0, opened_slot |-> 0,
                               closed_slot |-> 0, claimed |-> 0]]

Next ==
  \/ \E t \in Terms, s, e, c \in Slots : init_race_market(t, s, e, c)
  \/ \E a, b \in Prices : snapshot_start(a, b)
  \/ \E u \in Users, side \in {side_a, side_b}, n \in Stakes, s \in Slots :
       enter_race(u, side, n, s)
  \/ \E u \in Users, s \in Slots : close_early(u, s)
  \/ \E a, b \in Prices : resolve_race(a, b)
  \/ \E u \in Users : claim_winnings(u)
  \/ \E v \in Users : liquidate_underwater(v)
==============================================================================
