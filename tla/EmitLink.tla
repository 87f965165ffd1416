------------------------------- MODULE EmitLink -------------------------------
(***************************************************************************)
(* Emitter and linker together: handler bodies are emitted with jumps that *)
(* count from their own start and handed to the linker, which places them  *)
(* wherever the binary ends; a standalone program, header and all, is the  *)
(* base of a link whose calls are patched to appended bodies.              *)
(***************************************************************************)
EXTENDS Linker

CONSTANTS
  EmptyBases,  \* the bases that emitted bodies are linked into
  Straight, Uints, HEADER, MaxBody, PUSH_0, ADD, HALT, JUMP_IF  \* see Emitter

(* The header covers the fields that the linker reads; opcodes are bytes,  *)
(* and adding is no push.                                                  *)
ASSUME EmitterAssumption ==
  /\ Straight \subseteq Seq(Byte) /\ Uints \subseteq Nat
  /\ HEADER \in Nat /\ HEADER >= 3
  /\ PUSH_0 \in Nat /\ PUSH_0 .. PUSH_0 + 3 \subseteq Byte
  /\ {ADD, HALT, JUMP_IF} \subseteq Byte /\ ADD \notin PUSH_0 .. PUSH_0 + 3

VARIABLES flavour, body, open, jumps, calls, uints, out  \* see Emitter

emitter == <<flavour, body, open, jumps, calls, uints, out>>

Emit == INSTANCE Emitter

(* A link of bodies and a base that no program of this run emits.          *)
Idle == out.kind = "idle"

EmitLinkInit ==
  /\ Init
  /\ \/ /\ flavour = "appended" /\ body = <<>> /\ open = {} /\ jumps = <<>>
        /\ calls = {} /\ uints = <<>> /\ out = [kind |-> "idle"]
     \/ base \in EmptyBases /\ Emit!Init

(* The binary is wrapped as it is; its call sites are those it reports.    *)
from_base ==
  /\ out.kind = "binary"
  /\ base' = [bytes |-> out.bytes, stubs |-> <<>>,
              calls |-> {Emit!absolute_call_site(c) : c \in calls}]
  /\ binary' = out.bytes
  /\ out' = [out EXCEPT !.kind = "base"]
  /\ UNCHANGED <<placed, rewritten, patched, outcome>>
  /\ UNCHANGED <<flavour, body, open, jumps, calls, uints>>

EmitLinkNext ==
  \/ Emit!Next /\ UNCHANGED vars
  \/ from_base
  \/ Idle /\ Next /\ UNCHANGED emitter
  \/ /\ out.kind = "base"
     /\ \/ \E s \in Sentinels, b \in Bodies : append_function(s, b)
        \/ \E site \in base.calls, s \in Sentinels : patch_call_target(site, s)
     /\ UNCHANGED emitter
  \/ /\ out.kind = "body"
     /\ \/ \E s \in Sentinels : append_function(s, out) \/ rewrite_stub(s)
        \/ into_bytes
     /\ UNCHANGED emitter

EmitLinkSpec == EmitLinkInit /\ [][EmitLinkNext]_<<vars, emitter>>

------------------------------------------------------------------------------
(* Constants composed of nibbles push what was asked for (Emitter).        *)
ConstantsExact == Emit!ConstantsExact

Lands(b, start) == \A h \in DOMAIN jumps : Address(b, start + h) = start + jumps[h]

(* Every jump of an emitted program ends up at the instruction it was      *)
(* meant for: in a standalone binary, header included, before and after    *)
(* functions are linked to it, and in every body the linker places, as     *)
(* often as it is placed, loops and jumps patched out of order included.   *)
(* The call sites a binary reports are calls, and stay calls when patched. *)
JumpsLand ==
  /\ out.kind = "binary" => Lands(out.bytes, HEADER)
  /\ out.kind = "base" =>
       /\ Lands(binary, HEADER)
       /\ \A site \in base.calls : binary[site + 1] = CALL
  /\ out.kind = "body" => \A s \in DOMAIN placed : Lands(binary, placed[s].offset)
==============================================================================
