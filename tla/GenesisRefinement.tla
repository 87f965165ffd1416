-------------------------- MODULE GenesisRefinement --------------------------
(***************************************************************************)
(* The ledger of GenesisLedger implements the promise of GenesisEscrow,    *)
(* and, where depositors keep asking (GenesisCustody), lets everyone out.  *)
(***************************************************************************)
EXTENDS GenesisLedger

Phase == IF Config \notin accounts THEN "absent"
         ELSE IF Finalized THEN "final"
         ELSE IF Kicked THEN "kicked" ELSE "open"

Claims == [u \in Users |-> Remaining(u)]

Escrow == INSTANCE GenesisEscrow WITH
            phase <- Phase, claim <- Claims,
            supply <- cfg.reward_supply, minted <- cfg.minted_supply

(* Every run of the handlers, seen through this mapping, is a run of the   *)
(* escrow: the three withdraw paths, with their two ways of booking an     *)
(* exit, the flag tests and the supply checks add up to its promise.       *)
ImplementsEscrow == Escrow!Spec

(* After genesis a depositor who asks gets his whole claim settled, even   *)
(* from a vault that has lost money.                                       *)
ExitCompletes == \A u \in Users : Finalized ~> Remaining(u) = 0
==============================================================================
