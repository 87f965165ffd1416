------------------------------ MODULE CoinConfig ------------------------------
(***************************************************************************)
(* The COIN configuration shared by the markets of one mint: bootstrap,    *)
(* then live once a delay has elapsed.  Bodies `init_coin_config` and      *)
(* `activate_live` of src/src/bytecode/meta_handlers.rs.  Callers pass the *)
(* current slot as a scalar.                                               *)
(***************************************************************************)
EXTENDS Integers

CONSTANTS
  W,       \* the machine word holds 0 .. W-1 (2^64 in the VM)
  Delays,  \* bootstrap delays callers ask for
  Slots    \* slots callers pass: no body compares one with another call's

Word == 0 .. W - 1

(* What is assumed of the constants, where the module is instantiated.     *)
CoinAssumption ==
  W \in Nat /\ W > 2 /\ Delays \subseteq Word /\ Slots \subseteq Word

VARIABLES
  coin_cfg,  \* CoinConfig
  status     \* the value the last handler call returned

vars == <<coin_cfg, status>>

PHASE_BOOTSTRAP == 0
PHASE_LIVE == 1
STATUS_OK == 0
STATUS_TOO_EARLY == 13

Config == [bootstrap_start_slot: Word, bootstrap_delay_slots: Word,
           live_slot: Word, phase: {PHASE_BOOTSTRAP, PHASE_LIVE}]
Live == coin_cfg.phase = PHASE_LIVE

(* A name X_Suffix is X with one fault in it: mutation runs put it in      *)
(* place of X to show that a property would notice; no action uses it.     *)

(* The VM's ADD.                                                           *)
WAdd(a, b) == (a + b) % W

(* "one-time COIN setup" (main.v:140), but the body asks nothing: a second *)
(* call overwrites every field.                                            *)
init_coin_config(delay, start) ==
  /\ coin_cfg' = [bootstrap_start_slot |-> start,
                  bootstrap_delay_slots |-> delay,
                  phase |-> IF delay = 0 THEN PHASE_LIVE ELSE PHASE_BOOTSTRAP,
                  live_slot |-> IF delay = 0 THEN start ELSE 0]
  /\ status' = STATUS_OK

LiveFrom_DelayOnly == coin_cfg.bootstrap_delay_slots
LiveFrom == WAdd(coin_cfg.bootstrap_start_slot, coin_cfg.bootstrap_delay_slots)

(* Nothing asks whether the config is live already: a later call stamps a  *)
(* new live_slot, an older one too.                                        *)
activate_live(now) ==
  IF now < LiveFrom
  THEN status' = STATUS_TOO_EARLY /\ UNCHANGED coin_cfg
  ELSE /\ coin_cfg' = [coin_cfg EXCEPT !.phase = PHASE_LIVE, !.live_slot = now]
       /\ status' = STATUS_OK

Init ==
  /\ coin_cfg = [bootstrap_start_slot |-> 0, bootstrap_delay_slots |-> 0,
                 live_slot |-> 0, phase |-> PHASE_BOOTSTRAP]
  /\ status = STATUS_OK

Next ==
  \/ \E delay \in Delays, start \in Slots : init_coin_config(delay, start)
  \/ \E now \in Slots : activate_live(now)

------------------------------------------------------------------------------
(* "Requires the bootstrap delay to have elapsed: `now_slot >=             *)
(* bootstrap_start_slot + bootstrap_delay_slots`" (meta_handlers.rs:302):  *)
(* whoever is live has served the delay, however often the config is set   *)
(* up and activated and whatever slots are passed, unless the end of the   *)
(* bootstrap does not fit a word.  There, and only there, the body's ADD   *)
(* wraps and lets a caller in early.                                       *)
DelayServed ==
  LET due == coin_cfg.bootstrap_start_slot + coin_cfg.bootstrap_delay_slots
  IN  Live /\ due \in Word => coin_cfg.live_slot >= due
==============================================================================
