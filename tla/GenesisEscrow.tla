---------------------------- MODULE GenesisEscrow ----------------------------
(***************************************************************************)
(* What the genesis ledger promises a depositor, without its counters,     *)
(* flags and status codes (src/meta/src/main.v:9-13, 160-251): capital is  *)
(* put in only while the pool is open, a claim shrinks only by its owner's *)
(* own exit and never below zero, the exit after genesis settles the whole *)
(* claim, and the phases run absent, open, kicked, final, each once, the   *)
(* last one only when the whole reward supply is out.                      *)
(***************************************************************************)
EXTENDS Integers

CONSTANTS Users, W

VARIABLES phase, claim, supply, minted

escrow == <<phase, claim, supply, minted>>

Word == 0 .. W - 1
Credit(c, a) == IF c + a >= W THEN c + a - W ELSE c + a

Init ==
  /\ phase = "absent"
  /\ claim = [u \in Users |-> 0]
  /\ supply = 0
  /\ minted = 0

Open ==
  /\ phase = "absent"
  /\ phase' = "open"
  /\ supply' \in Word
  /\ UNCHANGED <<claim, minted>>

Deposit(u) ==
  /\ phase = "open"
  /\ \E a \in Word : claim' = [claim EXCEPT ![u] = Credit(@, a)]
  /\ UNCHANGED <<phase, supply, minted>>

Exit(u) ==
  /\ phase # "absent"
  /\ \E a \in 0 .. claim[u] :
       /\ phase = "final" => a = claim[u]
       /\ claim' = [claim EXCEPT ![u] = @ - a]
  /\ UNCHANGED <<phase, supply, minted>>

Kick ==
  /\ phase = "open"
  /\ phase' = "kicked"
  /\ UNCHANGED <<claim, supply, minted>>

Mint ==
  /\ phase = "kicked"
  /\ minted' \in 0 .. supply
  /\ UNCHANGED <<phase, claim, supply>>

Finalize ==
  /\ phase = "kicked"
  /\ minted = supply
  /\ phase' = "final"
  /\ UNCHANGED <<claim, supply, minted>>

Next ==
  \/ Open
  \/ \E u \in Users : Deposit(u) \/ Exit(u)
  \/ Kick
  \/ Mint
  \/ Finalize

Spec == Init /\ [][Next]_escrow
==============================================================================
