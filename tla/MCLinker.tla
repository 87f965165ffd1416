------------------------------- MODULE MCLinker -------------------------------
(* Compiled binaries and bodies for TLC.                                   *)
EXTENDS EmitLink, SequencesExt

(* The bytes 7 (RETURN_VALUE) and 13 (PUSH_U64) are first bytes of the two *)
(* sentinels, as 0x07 and 0x1B are of two sentinels of the program.        *)
S1 == <<7, 6, 6>>
S2 == <<13, 6, 6>>
MCSentinels == {S1, S2}

Pad(n) == [i \in 1 .. n |-> NOP]

(* Other code between functions: operands that look like an opcode, a      *)
(* function returning another pooled literal, a push cut off by a stub.    *)
Gaps == {<<>>, <<0>>, <<13, 1, 0>>, <<13, 2, 7>>, <<14, 1, 0>>}

(* Orders of the pool, with a literal of some other function in it.        *)
Other == <<9, 9, 13>>
Pools == {<<S1, S2, Other>>, <<Other, S2, S1>>}

Pattern(form, s, pool) ==
  LET idx == CHOOSE i \in 1 .. 3 : pool[i] = s
  IN  CASE form = "u8" -> pool_stub_pattern_u8(idx - 1)
        [] form = "u16" -> pool_stub_pattern_u16(idx - 1)
        [] form = "inline" -> inline_stub_pattern(s)

(* header, pool data, gap, a call of the first stub, stub, gap, stub, tail *)
Compiled(pool, f1, f2, g1, g2, tail) ==
  LET head == IF f1 = "inline" THEN <<0, 3, 0>>
              ELSE <<1, 3, 3>> \o FlattenSeq(pool)
      c == Len(head) + Len(g1)
      first == Pattern(f1, S1, pool)
      second == Pattern(f2, S2, pool)
  IN  [bytes |-> head \o g1 \o <<CALL, 0>> \o Le(c + 4) \o first \o g2 \o second
                   \o tail,
       calls |-> {c},
       stubs |-> [s \in MCSentinels |->
                    IF s = S1 THEN c + 4 ELSE c + 4 + Len(first) + Len(g2)]]

(* A source that lacks the second stub.                                    *)
Drifted(b) == [b EXCEPT !.bytes = SubSeq(@, 1, b.stubs[S2]),
                        !.stubs = [s \in {S1} |-> b.stubs[s]]]

(* One binary is so long that a second body passes the last address.       *)
Long == Compiled(<<S1, S2, Other>>, "u8", "u16", <<>>, <<>>, Pad(224))

Pooled == {Compiled(pool, f1, f2, g1, g2, tail) :
             pool \in Pools, f1 \in {"u8", "u16"}, f2 \in {"u8", "u16"},
             g1 \in Gaps, g2 \in Gaps, tail \in {Pad(1), Pad(2)}}
Inline == {Compiled(<<>>, "inline", "inline", g1, g2, tail) :
             g1 \in Gaps, g2 \in Gaps, tail \in {Pad(1), Pad(2)}}
MCBases == Pooled \union Inline \union {Long}
             \union {Drifted(b) : b \in {c \in Inline : Len(c.bytes) < 25}}

(* A body that only returns, one with a forward jump, and one that holds   *)
(* the bytes of a stub.                                                    *)
MCBodies == {[bytes |-> <<5, 7>>, patches |-> {}],
             [bytes |-> <<JUMP, 4, 0, 5, 7>>, patches |-> {1}],
             [bytes |-> <<PUSH_U64, 1, 7>>, patches |-> {}]}

(* For emitted programs: one base with room, one that is nearly full; an   *)
(* instruction, and code that nearly fills the address space.              *)
MCEmptyBases == {Compiled(<<>>, "inline", "inline", <<>>, <<>>, Pad(1)), Long}
MCStraight == {<<5>>, Pad(243)}
==============================================================================
