-------------------------------- MODULE Emitter --------------------------------
(***************************************************************************)
(* The bytecode emitter, src/src/bytecode/emit.rs: a builder that appends  *)
(* instructions to one byte vector.  A forward jump is emitted with an     *)
(* empty target and a handle, and patched when its target is reached.      *)
(* There are two flavours.  A standalone program gets a header in front,   *)
(* and its targets count from the start of the header; the body of a       *)
(* handler is placed by the linker, its targets count from its own start,  *)
(* and the offsets of all of them are handed over with it.                 *)
(*                                                                         *)
(* Callers use one flavour per program, patch every forward jump, and hand *)
(* over every handle, as the bodies in src/ do.                            *)
(***************************************************************************)
EXTENDS Bytes, FiniteSets, SequencesExt

CONSTANTS
  Straight,   \* instructions without a target, each the sequence of its bytes
  Uints,      \* values given to emit_push_uint
  HEADER,     \* bytes of the file header (10)
  MaxBody,    \* bound: no instruction is emitted past this length
  PUSH_0, ADD, HALT, JUMP, JUMP_IF, CALL  \* opcodes; PUSH_1 to PUSH_3 follow PUSH_0

VARIABLES
  flavour,  \* "standalone" or "appended"
  body,     \* Program.body
  open,     \* handles of the forward jumps not patched yet
  jumps,    \* history: handle -> the position its jump is meant for
  calls,    \* handles of the calls
  uints,    \* history: start of an emit_push_uint -> its value and its end
  out       \* what the program was turned into, or how it failed

vars == <<flavour, body, open, jumps, calls, uints, out>>

Building == out.kind = "building"
Emit(bytes) == body' = body \o bytes
Room == Building /\ Len(body) <= MaxBody

(* The base that a position counts from.                                   *)
Origin == IF flavour = "standalone" THEN HEADER ELSE 0

(* raw, push_*, emit_load_*, emit_store_field, locals: an opcode and its   *)
(* immediates.                                                             *)
instruction(bytes) ==
  /\ Room /\ Emit(bytes)
  /\ UNCHANGED <<flavour, open, jumps, calls, uints, out>>

emit_push_nibble(value) == <<PUSH_0 + value>>

(* 3, then chunks of at most 3 that are added to it.                       *)
emit_push_uint_ChunksOfThree(value) ==
  LET chunks == IF value <= 3 THEN 0 ELSE (value - 1) \div 3
      first == IF value < 3 THEN value ELSE 3
  IN  emit_push_nibble(first)
        \o FlattenSeq([i \in 1 .. chunks |-> emit_push_nibble(3) \o <<ADD>>])
emit_push_uint(value) ==
  LET chunks == IF value <= 3 THEN 0 ELSE (value - 1) \div 3
      first == IF value < 3 THEN value ELSE 3
      chunk(i) == IF value - 3 * i < 3 THEN value - 3 * i ELSE 3
  IN  emit_push_nibble(first)
        \o FlattenSeq([i \in 1 .. chunks |-> emit_push_nibble(chunk(i)) \o <<ADD>>])

push_uint(value) ==
  /\ Room /\ Emit(emit_push_uint(value))
  /\ uints' = [p \in DOMAIN uints \union {Len(body)} |->
                 IF p = Len(body) THEN [value |-> value, end |-> Len(body')]
                 ELSE uints[p]]
  /\ UNCHANGED <<flavour, open, jumps, calls, out>>

(* emit_jump_placeholder, emit_jump_if[_not]_placeholder, in both flavours. *)
placeholder(opcode) ==
  /\ Room /\ Emit(<<opcode, 0, 0>>)
  /\ open' = open \union {Len(body) + 1}
  /\ UNCHANGED <<flavour, jumps, calls, uints, out>>

Meant(patch, position) ==
  jumps' = [h \in DOMAIN jumps \union {patch} |->
              IF h = patch THEN position ELSE jumps[h]]

(* patch_jump_to_here, patch_jump_to_here_body_relative: a position that   *)
(* does not fit panics.                                                    *)
patch_jump_to_here(patch) ==
  /\ Building /\ patch \in open
  /\ IF Len(body) + Origin <= MaxAddress
     THEN /\ body' = Overwrite(body, patch, Le(Len(body) + Origin))
          /\ Meant(patch, Len(body))
          /\ open' = open \ {patch}
          /\ UNCHANGED out
     ELSE out' = [kind |-> "panic"] /\ UNCHANGED <<body, jumps, open>>
  /\ UNCHANGED <<flavour, calls, uints>>

(* emit_jump_to, emit_jump_backward_body_relative: a loop back to a        *)
(* position the caller took note of, by current_absolute_offset or         *)
(* body_len.                                                               *)
emit_jump_to(position) ==
  /\ Room /\ position + Origin <= MaxAddress
  /\ Emit(<<JUMP>> \o Le(position + Origin))
  /\ Meant(Len(body) + 1, position)
  /\ UNCHANGED <<flavour, open, calls, uints, out>>

(* In a standalone program; the target is left to the linker.              *)
emit_call_placeholder ==
  /\ Room /\ flavour = "standalone"
  /\ Emit(<<CALL, 0, 0, 0>>)
  /\ calls' = calls \union {Len(body) + 2}
  /\ UNCHANGED <<flavour, open, jumps, uints, out>>

absolute_call_site(patch) == patch - 2 + HEADER

finish_with_halt ==
  /\ Building /\ flavour = "standalone" /\ open = {}
  /\ out' = [kind |-> "binary",
             bytes |-> [i \in 1 .. HEADER |-> 0] \o body \o <<HALT>>]
  /\ UNCHANGED <<flavour, body, open, jumps, calls, uints>>

into_body_with_jumps_ForwardOnly ==
  /\ Building /\ flavour = "appended" /\ open = {}
  /\ out' = [kind |-> "body", bytes |-> body,
             patches |-> {h \in DOMAIN jumps : h < jumps[h]}]
  /\ UNCHANGED <<flavour, body, open, jumps, calls, uints>>
into_body_with_jumps ==
  /\ Building /\ flavour = "appended" /\ open = {}
  /\ out' = [kind |-> "body", bytes |-> body, patches |-> DOMAIN jumps]
  /\ UNCHANGED <<flavour, body, open, jumps, calls, uints>>

Init ==
  /\ flavour \in {"standalone", "appended"}
  /\ body = <<>> /\ open = {} /\ jumps = <<>> /\ calls = {} /\ uints = <<>>
  /\ out = [kind |-> "building"]

Next ==
  \/ \E bytes \in Straight : instruction(bytes)
  \/ \E v \in Uints : push_uint(v)
  \/ \E op \in {JUMP, JUMP_IF} : placeholder(op)
  \/ \E h \in open : patch_jump_to_here(h)
  \/ \E p \in 0 .. Len(body) : emit_jump_to(p)
  \/ emit_call_placeholder
  \/ finish_with_halt
  \/ into_body_with_jumps

------------------------------------------------------------------------------
(* What a run of pushes and additions leaves on the stack.                 *)
After(code) ==
  FoldLeft(LAMBDA stack, op :
             IF op = ADD
             THEN SubSeq(stack, 1, Len(stack) - 2)
                    \o <<stack[Len(stack) - 1] + stack[Len(stack)]>>
             ELSE Append(stack, op - PUSH_0), <<>>, code)

(* A constant composed of nibbles ("`3 + 3 + ... + r`", emit.rs:136)       *)
(* leaves one value, the one asked for: no status code is off by a chunk.  *)
ConstantsExact ==
  \A p \in DOMAIN uints :
    After(SubSeq(body, p + 1, uints[p].end)) = <<uints[p].value>>
==============================================================================
