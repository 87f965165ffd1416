-------------------------------- MODULE Linker --------------------------------
(***************************************************************************)
(* The bytecode linker, src/src/bytecode/link.rs: hand-written bodies are  *)
(* appended to a compiled binary, and the stub of each handler, which      *)
(* returns a sentinel, is overwritten in place by a transfer to its body.  *)
(* Stubs are found by scanning the whole binary for the bytes of a         *)
(* `return <sentinel>`, bodies appended so far and pool data included.     *)
(*                                                                         *)
(* The header is cut down to what the linker reads of it: whether there is *)
(* a constant pool, where it starts, and how many slots it has.            *)
(***************************************************************************)
EXTENDS Bytes, FiniteSets, FiniteSetsExt

CONSTANTS
  Sentinels,  \* the sentinels linked, each the sequence of its bytes
  LitBytes,   \* bytes of a literal (8)
  Bases,      \* external: compiled binaries, with where their stubs and calls are
  Bodies,     \* appended bodies: bytes, and offsets of body-relative targets
  PUSH_U64, PUSH_U64_W, RETURN_VALUE, CALL, JUMP, NOP  \* opcodes

Opcodes == {PUSH_U64, PUSH_U64_W, RETURN_VALUE, CALL, JUMP, NOP}

ASSUME OpcodeAssumption ==
  B \in Nat /\ Opcodes \subseteq Byte /\ Cardinality(Opcodes) = 6
ASSUME SentinelAssumption ==
  /\ LitBytes \in Nat /\ LitBytes >= 3
  /\ Sentinels \subseteq [1 .. LitBytes -> Byte]

VARIABLES
  base,       \* the compiled binary the link started from
  binary,     \* the working buffer
  placed,     \* sentinel -> offset and body of the function appended for it
  rewritten,  \* the sentinels whose stub has been rewritten
  patched,    \* call site -> sentinel, for the sites patched by hand
  outcome     \* "linking", "linked", or how the link failed

vars == <<base, binary, placed, rewritten, patched, outcome>>

(* A name X_Suffix is X with one fault in it: mutation runs put it in      *)
(* place of X to show that a property would notice; no action uses it.     *)

------------------------------------------------------------------------------
scan_for_pattern(b, needle) ==
  {p \in 0 .. Len(b) - Len(needle) : SubSeq(b, p + 1, p + Len(needle)) = needle}

------------------------------------------------------------------------------
(* The constant pool and the three forms of a stub.                        *)

PoolActive(b) == b[1] = 1
PoolOffset(b) == b[2]
PoolSlots(b) == b[3]

(* The slots that hold the sentinel; a slot past the end of the binary     *)
(* ends the search.                                                        *)
SlotsOf(b, sentinel) ==
  {i \in 0 .. PoolSlots(b) - 1 :
     LET start == PoolOffset(b) + i * LitBytes
     IN  /\ PoolActive(b) /\ start + LitBytes <= Len(b)
         /\ SubSeq(b, start + 1, start + LitBytes) = sentinel}

inline_stub_pattern(sentinel) == <<PUSH_U64>> \o sentinel \o <<RETURN_VALUE>>
pool_stub_pattern_u8(idx) == <<PUSH_U64, idx, RETURN_VALUE>>
pool_stub_pattern_u16(idx) == <<PUSH_U64_W>> \o Le(idx) \o <<RETURN_VALUE>>

(* Every match of every form the sentinel may have.                        *)
Hits(b, sentinel) ==
  LET slots == SlotsOf(b, sentinel)
      idx == Min(slots)
      Of(form, needle) == {form} \X scan_for_pattern(b, needle)
  IN  Of("inline", inline_stub_pattern(sentinel))
        \union IF slots = {} THEN {}
               ELSE Of("u8", pool_stub_pattern_u8(idx))
                      \union Of("u16", pool_stub_pattern_u16(idx))

(* What the rewriter takes the bytes at p for: it looks at them again,     *)
(* whichever form has matched.                                             *)
stub_form_at(b, p) ==
  LET Ends(len) == p + len <= Len(b) /\ b[p + len] = RETURN_VALUE
  IN  IF b[p + 1] = PUSH_U64 /\ PoolActive(b) /\ Ends(3) THEN "u8"
      ELSE IF b[p + 1] = PUSH_U64 /\ ~PoolActive(b) /\ Ends(LitBytes + 2)
           THEN "inline"
      ELSE IF b[p + 1] = PUSH_U64_W /\ Ends(4) THEN "u16"
      ELSE "none"

SlotLength(form) == CASE form = "u8" -> 3 [] form = "u16" -> 4
                      [] form = "inline" -> LitBytes + 2

(* The inline slot has room for a CALL and the stub's own RETURN_VALUE;    *)
(* the pool forms get a JUMP, and the body returns from the stub's frame.  *)
Transfer_WideReturns(form, target) ==
  <<JUMP>> \o Le(target) \o IF form = "u8" THEN <<>> ELSE <<RETURN_VALUE>>
Transfer(form, target) ==
  CASE form = "u8" -> <<JUMP>> \o Le(target)
    [] form = "u16" -> <<JUMP>> \o Le(target) \o <<NOP>>
    [] form = "inline" -> <<CALL, 0>> \o Le(target) \o <<RETURN_VALUE>>
                            \o [i \in 1 .. LitBytes - 3 |-> NOP]

------------------------------------------------------------------------------
(* The linker's operations.                                                *)

(* The body with its body-relative targets moved to where it lands.        *)
Relocated(body, offset) ==
  [i \in 1 .. Len(body.bytes) |->
     IF \E rel \in body.patches : i \in rel + 1 .. rel + 2
     THEN LET rel == CHOOSE rel \in body.patches : i \in rel + 1 .. rel + 2
          IN  Le(offset + Address(body.bytes, rel))[i - rel]
     ELSE body.bytes[i]]

(* The offset and the relocated targets must be addresses; else it panics. *)
Fits_OffsetOnly(body, offset) == offset <= MaxAddress
Fits(body, offset) ==
  /\ offset <= MaxAddress
  /\ \A rel \in body.patches : offset + Address(body.bytes, rel) <= MaxAddress

append_function(s, body) ==
  LET offset == Len(binary)
  IN  /\ outcome = "linking" /\ s \notin DOMAIN placed
      /\ IF Fits(body, offset)
         THEN /\ binary' = binary \o Relocated(body, offset)
              /\ placed' = [t \in DOMAIN placed \union {s} |->
                              IF t = s THEN [offset |-> offset, body |-> body]
                              ELSE placed[t]]
              /\ UNCHANGED outcome
         ELSE /\ outcome' = "panic"
              /\ UNCHANGED <<binary, placed>>
      /\ UNCHANGED <<base, rewritten, patched>>

(* The caller hands over the site of a CALL.                               *)
patch_call_target(site, s) ==
  /\ outcome = "linking" /\ s \in DOMAIN placed
  /\ site \in base.calls \ DOMAIN patched
  /\ binary' = Overwrite(binary, site + 2, Le(placed[s].offset))
  /\ patched' = [c \in DOMAIN patched \union {site} |->
                   IF c = site THEN s ELSE patched[c]]
  /\ UNCHANGED <<base, placed, rewritten, outcome>>

(* find_stub: an error if there is more than one match.                    *)
Found(b, s) == (CHOOSE h \in Hits(b, s) : TRUE)[2]
StubError_FirstMatch(b, s) ==
  IF Hits(b, s) = {} THEN "NotFound"
  ELSE IF stub_form_at(b, Found(b, s)) = "none" THEN "NotFound"
  ELSE "none"
StubError(b, s) ==
  IF Hits(b, s) = {} THEN "NotFound"
  ELSE IF Cardinality(Hits(b, s)) > 1 THEN "Ambiguous"
  ELSE IF stub_form_at(b, Found(b, s)) = "none" THEN "NotFound"
  ELSE "none"

rewrite_stub(s) ==
  /\ outcome = "linking" /\ s \in DOMAIN placed \ rewritten
  /\ IF StubError(binary, s) # "none"
     THEN /\ outcome' = StubError(binary, s)
          /\ UNCHANGED <<binary, rewritten>>
     ELSE LET at == Found(binary, s)
          IN  /\ binary' = Overwrite(binary, at,
                             Transfer(stub_form_at(binary, at), placed[s].offset))
              /\ rewritten' = rewritten \union {s}
              /\ UNCHANGED outcome
  /\ UNCHANGED <<base, placed, patched>>

(* The end of link_meta and of link-perc5ive: the binary is handed out only *)
(* when every sentinel has been rewritten.                                 *)
into_bytes ==
  /\ outcome = "linking" /\ rewritten = Sentinels
  /\ outcome' = "linked"
  /\ UNCHANGED <<base, binary, placed, rewritten, patched>>

------------------------------------------------------------------------------
Init ==
  /\ base \in Bases
  /\ binary = base.bytes
  /\ placed = <<>> /\ rewritten = {} /\ patched = <<>>
  /\ outcome = "linking"

Next ==
  \/ \E s \in Sentinels, body \in Bodies : append_function(s, body)
  \/ \E s \in Sentinels : rewrite_stub(s)
  \/ \E site \in base.calls, s \in Sentinels : patch_call_target(site, s)
  \/ into_bytes

Spec == Init /\ [][Next]_vars

------------------------------------------------------------------------------
(* Bytes of the compiled binary that the link may change: the slots of     *)
(* rewritten stubs, where the compiler put them, and the targets of        *)
(* patched calls.                                                          *)
SlotOf(s) ==
  base.stubs[s] .. base.stubs[s] + SlotLength(stub_form_at(base.bytes, base.stubs[s])) - 1
Touched ==
  (UNION {SlotOf(s) : s \in rewritten})
    \union (UNION {{c + 2, c + 3} : c \in DOMAIN patched})

(* Nothing else of the compiled binary moves or changes, so every call in  *)
(* it stays valid: no look-alike of a stub, in pool data, in an operand or *)
(* in an appended body, is ever overwritten in its place.                  *)
BaseKept ==
  /\ rewritten \subseteq DOMAIN base.stubs
  /\ \A p \in 0 .. Len(base.bytes) - 1 :
       p \notin Touched => binary[p + 1] = base.bytes[p + 1]

(* Where control goes from a rewritten stub, if it comes back balanced: by *)
(* a JUMP, or by a CALL that returns to a RETURN_VALUE.                    *)
Enters(b, p) ==
  IF b[p + 1] = JUMP THEN Address(b, p + 1)
  ELSE IF b[p + 1] = CALL /\ b[p + 2] = 0 /\ b[p + 5] = RETURN_VALUE
       THEN Address(b, p + 2)
  ELSE -1

(* Every rewritten stub and every patched call leads to the body of its    *)
(* own sentinel, in whatever order bodies were appended.                   *)
StubsEnterBodies ==
  /\ \A s \in rewritten : Enters(binary, base.stubs[s]) = placed[s].offset
  /\ \A c \in DOMAIN patched : Address(binary, c + 2) = placed[patched[c]].offset

(* An appended body stays as written, whatever is linked after it, and its *)
(* jumps land where they did in the body: none is cut off at the largest   *)
(* address, none is missed.                                                *)
BodiesIntact ==
  \A s \in DOMAIN placed :
    LET off == placed[s].offset  body == placed[s].body
    IN  \A i \in 1 .. Len(body.bytes) :
          IF \E rel \in body.patches : i \in rel + 1 .. rel + 2
          THEN i - 1 \in body.patches =>
                 Address(binary, off + i - 1) = off + Address(body.bytes, i - 1)
          ELSE binary[off + i] = body.bytes[i]

(* "a previous rewrite's NOP-padded CALL sequence cannot be mistaken for a *)
(* fresh sentinel pattern" (tests/e2e_full_link.rs:51): a rewrite makes no *)
(* new match for any sentinel, in any of the three forms, and none is left *)
(* for its own.                                                            *)
RewritesMakeNoStub ==
  [][\A s \in rewritten' \ rewritten :
       /\ Hits(binary', s) = {}
       /\ \A t \in Sentinels : Hits(binary', t) \subseteq Hits(binary, t)]_vars
==============================================================================
