------------------------------- MODULE MetaMath -------------------------------
(***************************************************************************)
(* The reference arithmetic of the genesis layer, the Rust functions of    *)
(* src/src/bytecode/meta_math.rs that tests, bench and MCP server call in  *)
(* place of the emitted bodies.  Values are u64: saturating operations     *)
(* stop at the last word, where the VM's would wrap.                       *)
(***************************************************************************)
EXTENDS Integers, Functions

CONSTANT W   \* the machine word holds 0 .. W-1 (2^64)

SaturatingSub(a, b) == IF a > b THEN a - b ELSE 0
SaturatingMul(a, b) == IF a * b >= W THEN W - 1 ELSE a * b
Ilog2(n) == CHOOSE k \in 0 .. n : 2^k <= n /\ n < 2^(k + 1)

(* A name X_Suffix is X with one fault in it: mutation runs put it in      *)
(* place of X to show that a property would notice.                        *)

genesis_vote_weight(staked, age) ==
  IF staked = 0 \/ age < 2 THEN 0 ELSE SaturatingMul(Ilog2(age), staked)

kickstart_split_HalfTwice(total_deposited) ==
  [insurance |-> total_deposited \div 2, backing |-> total_deposited \div 2]
kickstart_split(total_deposited) ==
  LET insurance == total_deposited \div 2
  IN  [insurance |-> insurance,
       backing |-> SaturatingSub(total_deposited, insurance)]

(* An Option: {} is None, {v} is Some(v).                                  *)
unwrap_or(option, default) ==
  IF option = {} THEN default ELSE CHOOSE v \in option : TRUE

genesis_recoverable_principal_Ceil(remaining, vault, outstanding) ==
  IF remaining = 0 THEN {0}
  ELSE IF outstanding = 0 THEN {}
  ELSE IF vault >= outstanding THEN {remaining}
  ELSE {(remaining * vault + outstanding - 1) \div outstanding}
genesis_recoverable_principal(remaining, vault, outstanding) ==
  IF remaining = 0 THEN {0}
  ELSE IF outstanding = 0 THEN {}
  ELSE IF vault >= outstanding THEN {remaining}
  ELSE {(remaining * vault) \div outstanding}

distribution_approved(yes, no, voted, outstanding) ==
  yes > no /\ voted > outstanding \div 2

(* Where the base units of a pool end up when it winds down; a share that  *)
(* is None counts as 0.                                                    *)
rent_breakdown(deposits, vault) ==
  LET Pool == DOMAIN deposits
      total_in == SumFunction(deposits)
      returned == SumFunction([d \in Pool |->
                    unwrap_or(genesis_recoverable_principal(
                                deposits[d], vault, total_in), 0)])
      held == SaturatingSub(total_in, returned)
  IN  [total_in |-> total_in, returned_to_users |-> returned,
       held_in_protocol |-> held,
       operator_rent |-> SaturatingSub(SaturatingSub(total_in, returned), held)]
==============================================================================
