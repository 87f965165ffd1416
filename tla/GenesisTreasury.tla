--------------------------- MODULE GenesisTreasury ---------------------------
(***************************************************************************)
(* What genesis promises about money, wherever the base units lie (the     *)
(* custody text of src/meta/src/main.v and RentBreakdown of meta_math.rs): *)
(* bonds go into one pot; who leaves before the end is paid exactly what   *)
(* his claim shrinks by; after the end everyone is paid in full, or pro    *)
(* rata of a pot that has lost money; and the DAO takes only what no       *)
(* claim covers.  There is no other way out of the pot.                    *)
(***************************************************************************)
EXTENDS Integers, Functions

CONSTANTS Users

VARIABLES
  stage,  \* "absent", "open", "kicked", "final"
  owed,   \* owed[u]: the claim of u
  pot     \* the base units genesis holds, in its vault or in its market

treasury == <<stage, owed, pot>>

Owed == SumFunction(owed)
Share(u) == IF pot >= Owed THEN owed[u] ELSE (owed[u] * pot) \div Owed

Init == stage = "absent" /\ owed = [u \in Users |-> 0] /\ pot = 0

Advance ==
  /\ <<stage, stage'>> \in {<<"absent", "open">>, <<"open", "kicked">>,
                            <<"kicked", "final">>}
  /\ UNCHANGED <<owed, pot>>

Bond(u) ==
  /\ stage = "open"
  /\ owed' = [owed EXCEPT ![u] = owed'[u]] /\ owed'[u] >= owed[u]
  /\ pot' - pot = owed'[u] - owed[u]
  /\ UNCHANGED stage

Leave(u) ==
  /\ stage \in {"open", "kicked"}
  /\ owed' = [owed EXCEPT ![u] = owed'[u]] /\ owed'[u] \in 0 .. owed[u]
  /\ pot - pot' = owed[u] - owed'[u]
  /\ UNCHANGED stage

Settle(u) ==
  /\ stage = "final"
  /\ owed' = [owed EXCEPT ![u] = 0]
  /\ pot' = pot - Share(u)
  /\ UNCHANGED stage

(* The market gains or loses while the capital is deployed.                *)
Trade ==
  /\ stage = "kicked"
  /\ pot' >= 0
  /\ UNCHANGED <<stage, owed>>

Draw ==
  /\ stage = "final"
  /\ pot' \in Owed .. pot
  /\ UNCHANGED <<stage, owed>>

Next ==
  \/ Advance
  \/ \E u \in Users : Bond(u) \/ Leave(u) \/ Settle(u)
  \/ Trade
  \/ Draw

Spec == Init /\ [][Next]_treasury
==============================================================================
