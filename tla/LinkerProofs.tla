---------------------------- MODULE LinkerProofs ----------------------------
(***************************************************************************)
(* What holds of a link for every binary a compiler may hand over, every   *)
(* set of sentinels and every body, in whatever order bodies are appended, *)
(* stubs rewritten and calls patched.                                      *)
(***************************************************************************)
EXTENDS Linker, SumLemmas, SequenceTheorems

------------------------------------------------------------------------------
(* What the compiler and the emitter deliver.                              *)

(* Offsets of the header and of the constant pool.                         *)
Fixed(b) ==
  0 .. 2 \union
    IF PoolActive(b)
    THEN UNION {PoolOffset(b) + i * LitBytes .. PoolOffset(b) + i * LitBytes + LitBytes - 1 :
                  i \in 0 .. PoolSlots(b) - 1}
    ELSE {}

(* The stub of a sentinel: its form, and the offsets it takes.             *)
Form(b, s) == stub_form_at(b.bytes, b.stubs[s])
Slot(b, s) == b.stubs[s] .. b.stubs[s] + SlotLength(Form(b, s)) - 1

(* The offsets of the target of a call.                                    *)
Target(site) == site + 2 .. site + 3

(* A stub is matched by the scan in the form in which the rewriter reads   *)
(* it; stubs, calls, pool and header do not overlap.                       *)
Compiled(b) ==
  /\ b.bytes \in Seq(Byte)
  /\ Fixed(b.bytes) \subseteq 0 .. Len(b.bytes) - 1
  /\ DOMAIN b.stubs \subseteq Sentinels
  /\ \A s \in DOMAIN b.stubs :
       /\ b.stubs[s] \in Nat
       /\ <<Form(b, s), b.stubs[s]>> \in Hits(b.bytes, s)
       /\ Slot(b, s) \cap Fixed(b.bytes) = {}
       /\ \A t \in DOMAIN b.stubs \ {s} : Slot(b, s) \cap Slot(b, t) = {}
  /\ \A c \in b.calls :
       /\ c \in Nat /\ c + 4 <= Len(b.bytes)
       /\ Target(c) \cap Fixed(b.bytes) = {}
       /\ \A s \in DOMAIN b.stubs : Target(c) \cap Slot(b, s) = {}
       /\ \A d \in b.calls \ {c} : Target(c) \cap Target(d) = {}

(* The targets of a body lie in it and do not overlap.                     *)
Emitted(body) ==
  /\ body.bytes \in Seq(Byte)
  /\ \A rel \in body.patches :
       /\ rel \in Nat /\ rel + 2 <= Len(body.bytes)
       /\ rel + 1 \notin body.patches

(* Every sentinel has a stub.                                              *)
Whole(b) == DOMAIN b.stubs = Sentinels

(* What the theorems assume of the inputs of a link.                       *)
InputsSound ==
  (\A b \in Bases : Compiled(b) /\ Whole(b)) /\ (\A body \in Bodies : Emitted(body))

------------------------------------------------------------------------------
(* The inductive invariant.                                                *)

(* Bodies follow the compiled binary, each where it was placed.            *)
PlacedInv ==
  \A s \in DOMAIN placed :
    LET off == placed[s].offset  body == placed[s].body
    IN  /\ Emitted(body) /\ off \in Nat /\ Fits(body, off)
        /\ Len(base.bytes) <= off
        /\ off + Len(body.bytes) <= Len(binary)
        /\ \A i \in 1 .. Len(body.bytes) : binary[off + i] = Relocated(body, off)[i]

(* Outside the slots rewritten and the calls patched nothing has changed.  *)
FrameInv ==
  \A p \in 0 .. Len(base.bytes) - 1 :
    p \notin Touched => binary[p + 1] = base.bytes[p + 1]

(* A rewritten slot holds the transfer to the body of its sentinel, and a  *)
(* patched call its offset.                                                *)
TransferInv ==
  /\ \A s \in rewritten :
       \A i \in 1 .. SlotLength(Form(base, s)) :
         binary[base.stubs[s] + i] = Transfer(Form(base, s), placed[s].offset)[i]
  /\ \A c \in DOMAIN patched :
       \A i \in 1 .. 2 : binary[c + 2 + i] = Le(placed[patched[c]].offset)[i]

(* All of it, with its types.                                              *)
LinkInv ==
  /\ Compiled(base)
  /\ binary \in Seq(Byte) /\ Len(base.bytes) <= Len(binary)
  /\ rewritten \subseteq DOMAIN placed \cap DOMAIN base.stubs
  /\ DOMAIN patched \subseteq base.calls
  /\ \A c \in DOMAIN patched : patched[c] \in DOMAIN placed
  /\ PlacedInv /\ FrameInv /\ TransferInv

------------------------------------------------------------------------------
(* Bytes and sequences of them.                                            *)

(* A function on 1 .. n is a sequence of length n.                         *)
LEMMA FunIsSeq ==
  ASSUME NEW S, NEW n \in Nat, NEW f \in [1 .. n -> S]
  PROVE  f \in Seq(S) /\ Len(f) = n
<1>1. f \in Seq(S)
  BY SeqDef
<1>2. Len(f) \in Nat /\ DOMAIN f = 1 .. Len(f)
  BY <1>1, LenProperties
<1>3. DOMAIN f = 1 .. n
  OBVIOUS
<1> QED
  BY <1>1, <1>2, <1>3

(* There are enough values of a byte for all opcodes.                      *)
LEMMA ByteSize ==
  /\ B \in Nat /\ B > 0 /\ 0 \in Byte
  /\ {PUSH_U64, PUSH_U64_W, RETURN_VALUE, CALL, JUMP, NOP} \subseteq Byte
<1>1. B \in Nat /\ {PUSH_U64, PUSH_U64_W, RETURN_VALUE, CALL, JUMP, NOP} \subseteq Byte
  BY OpcodeAssumption DEF Opcodes
<1>2. JUMP \in 0 .. B - 1
  BY <1>1 DEF Byte
<1> QED
  BY <1>1, <1>2 DEF Byte

(* An element more is one more at most.                                    *)
LEMMA AddOne ==
  ASSUME NEW S, NEW x, IsFiniteSet(S), NEW n \in Nat, Cardinality(S) <= n
  PROVE  IsFiniteSet(S \union {x}) /\ Cardinality(S \union {x}) <= n + 1
<1>1. Cardinality(S) \in Nat
  BY FS_CardinalityType
<1>2. /\ IsFiniteSet(S \union {x})
      /\ \/ Cardinality(S \union {x}) = Cardinality(S)
         \/ Cardinality(S \union {x}) = Cardinality(S) + 1
  BY FS_AddElement
<1> QED
  BY <1>1, <1>2

(* Five values are at most five.                                           *)
LEMMA AtMostFive ==
  ASSUME NEW a, NEW b, NEW c, NEW d, NEW e
  PROVE  Cardinality({a, b, c, d, e}) <= 5
<1> DEFINE s1 == {a}
           s2 == s1 \union {b}
           s3 == s2 \union {c}
           s4 == s3 \union {d}
           s5 == s4 \union {e}
<1>1. s5 = {a, b, c, d, e}
  OBVIOUS
<1>2. IsFiniteSet(s1) /\ Cardinality(s1) <= 1
  <2>1. IsFiniteSet(s1) /\ Cardinality(s1) = 1
    BY FS_Singleton
  <2> HIDE DEF s1
  <2> QED
    BY <2>1
<1> HIDE DEF s1
<1>3. IsFiniteSet(s2) /\ Cardinality(s2) <= 2
  <2>1. 1 \in Nat
    OBVIOUS
  <2>2. IsFiniteSet(s2) /\ Cardinality(s2) <= 1 + 1
    BY <1>2, <2>1, AddOne
  <2> HIDE DEF s2
  <2> QED
    BY <2>2
<1> HIDE DEF s2
<1>4. IsFiniteSet(s3) /\ Cardinality(s3) <= 3
  <2>1. 2 \in Nat
    OBVIOUS
  <2>2. IsFiniteSet(s3) /\ Cardinality(s3) <= 2 + 1
    BY <1>3, <2>1, AddOne
  <2> HIDE DEF s3
  <2> QED
    BY <2>2
<1> HIDE DEF s3
<1>5. IsFiniteSet(s4) /\ Cardinality(s4) <= 4
  <2>1. 3 \in Nat
    OBVIOUS
  <2>2. IsFiniteSet(s4) /\ Cardinality(s4) <= 3 + 1
    BY <1>4, <2>1, AddOne
  <2> HIDE DEF s4
  <2> QED
    BY <2>2
<1> HIDE DEF s4
<1>6. Cardinality(s5) <= 4 + 1
  <2>1. 4 \in Nat
    OBVIOUS
  <2> QED
    BY <1>5, <2>1, AddOne
<1> HIDE DEF s5
<1> QED
  BY <1>1, <1>6

(* Opcodes are told apart.                                                 *)
LEMMA OpcodesDiffer == PUSH_U64 # PUSH_U64_W /\ JUMP # CALL
<1>1. Cardinality(Opcodes) = 6
  BY OpcodeAssumption
<1>2. ASSUME PUSH_U64 = PUSH_U64_W PROVE FALSE
  <2>1. Opcodes = {PUSH_U64, RETURN_VALUE, CALL, JUMP, NOP}
    BY <1>2 DEF Opcodes
  <2>2. Cardinality({PUSH_U64, RETURN_VALUE, CALL, JUMP, NOP}) <= 5
    BY AtMostFive
  <2>3. Cardinality(Opcodes) <= 5
    BY <2>1, <2>2
  <2> QED
    BY <1>1, <2>3
<1>3. ASSUME JUMP = CALL PROVE FALSE
  <2>1. Opcodes = {PUSH_U64, PUSH_U64_W, RETURN_VALUE, JUMP, NOP}
    BY <1>3 DEF Opcodes
  <2>2. Cardinality({PUSH_U64, PUSH_U64_W, RETURN_VALUE, JUMP, NOP}) <= 5
    BY AtMostFive
  <2>3. Cardinality(Opcodes) <= 5
    BY <2>1, <2>2
  <2> QED
    BY <1>1, <2>3
<1> QED
  BY <1>2, <1>3

(* An address is written as two bytes, the low one first.                  *)
LEMMA LeBytes ==
  ASSUME NEW n \in Int
  PROVE  /\ Le(n) \in Seq(Byte) /\ Len(Le(n)) = 2
         /\ Le(n)[1] = n % B /\ Le(n)[2] = (n \div B) % B
         /\ Le(n)[1] \in Byte /\ Le(n)[2] \in Byte
<1> DEFINE x == n % B
           y == (n \div B) % B
<1>1. x \in Byte /\ n \div B \in Int
  BY ByteSize, DivMod DEF Byte
<1>2. y \in Byte
  BY <1>1, ByteSize, DivMod DEF Byte
<1>3. Le(n) = <<x, y>>
  BY DEF Le
<1> HIDE DEF x, y
<1>4. <<x, y>> \in Seq(Byte) /\ Len(<<x, y>>) = 2
  BY <1>1, <1>2
<1>5. <<x, y>>[1] = x /\ <<x, y>>[2] = y
  OBVIOUS
<1> QED
  BY <1>1, <1>2, <1>3, <1>4, <1>5 DEF x, y

(* An address written and read back is the same.                           *)
LEMMA AddressOfLe ==
  ASSUME NEW n \in 0 .. MaxAddress
  PROVE  Le(n)[1] + B * Le(n)[2] = n
<1>1. B \in Nat \ {0} /\ n \in Nat /\ n < B * B
  <2>1. B * B \in Nat
    BY ByteSize
  <2> QED
    BY <2>1, ByteSize DEF MaxAddress
<1> DEFINE q == n \div B
           r == n % B
<1>2. q \in Int /\ r \in 0 .. B - 1 /\ n = B * q + r
  BY <1>1, DivMod
<1> HIDE DEF q, r
<1>3. q < B
  <2>1. SUFFICES ASSUME q >= B PROVE FALSE
    BY <1>1, <1>2
  <2>2. PICK k \in Nat : q = B + k
    <3>1. q - B \in Nat /\ q = B + (q - B)
      BY <1>1, <1>2, <2>1
    <3> QED
      BY <3>1
  <2>3. B * q = B * B + B * k
    BY <1>1, <1>2, <2>2
  <2>4. B * k \in Nat /\ B * B \in Nat
    BY <1>1, <2>2
  <2> QED
    BY <1>1, <1>2, <2>3, <2>4
<1>4. q >= 0
  <2>1. SUFFICES ASSUME q < 0 PROVE FALSE
    BY <1>1, <1>2
  <2>2. PICK k \in Nat : q = -1 - k
    <3>1. -1 - q \in Nat /\ q = -1 - (-1 - q)
      BY <1>1, <1>2, <2>1
    <3> QED
      BY <3>1
  <2>3. B * q = -B - B * k
    BY <1>1, <1>2, <2>2
  <2>4. B * k \in Nat
    BY <1>1, <2>2
  <2> QED
    BY <1>1, <1>2, <2>3, <2>4
<1>5. q % B = q
  BY <1>1, <1>2, <1>3, <1>4
<1>6. Le(n)[1] = r /\ Le(n)[2] = q % B
  <2>1. n \in Int
    BY <1>1
  <2> QED
    BY <2>1, LeBytes DEF q, r
<1>7. B * q \in Int /\ r \in Int
  BY <1>1, <1>2
<1> QED
  BY <1>2, <1>5, <1>6, <1>7

(* Overwriting keeps the length, and all bytes but the new ones.           *)
LEMMA Overwritten ==
  ASSUME NEW b \in Seq(Byte), NEW new \in Seq(Byte), NEW p \in Nat,
         p + Len(new) <= Len(b)
  PROVE  /\ Overwrite(b, p, new) \in Seq(Byte)
         /\ Len(Overwrite(b, p, new)) = Len(b)
         /\ \A i \in 1 .. Len(new) : Overwrite(b, p, new)[p + i] = new[i]
         /\ \A i \in 1 .. Len(b) :
              i \notin p + 1 .. p + Len(new) => Overwrite(b, p, new)[i] = b[i]
<1> DEFINE o == Overwrite(b, p, new)
           n == Len(b)
           k == Len(new)
<1>1. /\ n \in Nat /\ k \in Nat /\ p + k <= n
      /\ \A i \in 1 .. n : b[i] \in Byte
      /\ \A i \in 1 .. k : new[i] \in Byte
  BY LenProperties, ElementOfSeq
<1>2. o = [i \in 1 .. n |-> IF i \in p + 1 .. p + k THEN new[i - p] ELSE b[i]]
  BY DEF Overwrite
<1> HIDE DEF o, n, k
<1>3. o \in [1 .. n -> Byte]
  <2>1. \A i \in 1 .. n : i \in p + 1 .. p + k => i - p \in 1 .. k
    BY <1>1
  <2> QED
    BY <1>1, <1>2, <2>1
<1>4. o \in Seq(Byte) /\ Len(o) = n
  BY <1>1, <1>3, FunIsSeq
<1>5. \A i \in 1 .. k : o[p + i] = new[i]
  <2>1. TAKE i \in 1 .. k
  <2>2. p + i \in 1 .. n /\ p + i \in p + 1 .. p + k /\ (p + i) - p = i
    BY <1>1
  <2> QED
    BY <1>2, <2>2
<1>6. \A i \in 1 .. n : i \notin p + 1 .. p + k => o[i] = b[i]
  BY <1>2
<1> QED
  BY <1>4, <1>5, <1>6 DEF o, n, k

(* Two sequences that agree on a stretch have the same subsequence there.  *)
LEMMA SubSeqSame ==
  ASSUME NEW a \in Seq(Byte), NEW b \in Seq(Byte), NEW m \in Nat, NEW n \in Nat,
         n <= Len(a), n <= Len(b),
         \A p \in m .. n - 1 : a[p + 1] = b[p + 1]
  PROVE  SubSeq(a, m + 1, n) = SubSeq(b, m + 1, n)
<1>1. Len(a) \in Nat /\ Len(b) \in Nat
  BY LenProperties
<1>2. \A i \in m + 1 .. n : a[i] \in Byte /\ b[i] \in Byte /\ a[i] = b[i]
  <2>1. TAKE i \in m + 1 .. n
  <2>2. i - 1 \in m .. n - 1 /\ (i - 1) + 1 = i /\ i \in 1 .. Len(a) /\ i \in 1 .. Len(b)
    BY <1>1
  <2> QED
    BY <2>2, ElementOfSeq
<1>3. m + 1 \in Int /\ n \in Int
  OBVIOUS
<1> DEFINE sa == SubSeq(a, m + 1, n)
           sb == SubSeq(b, m + 1, n)
           k == IF m + 1 <= n THEN n - (m + 1) + 1 ELSE 0
<1>4. /\ sa \in Seq(Byte) /\ Len(sa) = k
      /\ \A i \in 1 .. n - (m + 1) + 1 : sa[i] = a[(m + 1) + i - 1]
  BY <1>2, <1>3, SubSeqProperties
<1>5. /\ sb \in Seq(Byte) /\ Len(sb) = k
      /\ \A i \in 1 .. n - (m + 1) + 1 : sb[i] = b[(m + 1) + i - 1]
  BY <1>2, <1>3, SubSeqProperties
<1>6. \A i \in 1 .. k : sa[i] = sb[i]
  <2>1. TAKE i \in 1 .. k
  <2>2. i \in 1 .. n - (m + 1) + 1 /\ (m + 1) + i - 1 \in m + 1 .. n
    OBVIOUS
  <2> HIDE DEF sa, sb, k
  <2> QED
    BY <1>2, <1>4, <1>5, <2>2
<1> HIDE DEF sa, sb, k
<1>7. sa = sb
  BY <1>4, <1>5, <1>6, SeqEqual
<1> QED
  BY <1>7 DEF sa, sb

------------------------------------------------------------------------------
(* Stubs that nobody has touched are still found.                          *)

(* A sentinel is a sequence of bytes.                                      *)
LEMMA SentinelSeq ==
  ASSUME NEW s \in Sentinels
  PROVE  s \in Seq(Byte) /\ Len(s) = LitBytes
BY SentinelAssumption, FunIsSeq

(* A pattern is as long as the slot of its form.                           *)
LEMMA PatternLength ==
  ASSUME NEW s \in Sentinels, NEW idx
  PROVE  /\ Len(inline_stub_pattern(s)) = LitBytes + 2
         /\ Len(pool_stub_pattern_u8(idx)) = 3
         /\ Len(pool_stub_pattern_u16(idx)) = 4
<1>1. Len(inline_stub_pattern(s)) = LitBytes + 2
  <2>1. <<PUSH_U64>> \in Seq(Byte) /\ Len(<<PUSH_U64>>) = 1
        /\ <<RETURN_VALUE>> \in Seq(Byte) /\ Len(<<RETURN_VALUE>>) = 1
    BY ByteSize
  <2>2. s \in Seq(Byte) /\ Len(s) = LitBytes
    BY SentinelSeq
  <2> DEFINE front == <<PUSH_U64>> \o s
  <2>3. front \in Seq(Byte) /\ Len(front) = 1 + LitBytes
    BY <2>1, <2>2, ConcatProperties
  <2> HIDE DEF front
  <2>4. Len(front \o <<RETURN_VALUE>>) = (1 + LitBytes) + 1
    BY <2>1, <2>3, ConcatProperties
  <2>5. (1 + LitBytes) + 1 = LitBytes + 2
    BY SentinelAssumption
  <2> QED
    BY <2>4, <2>5 DEF inline_stub_pattern, front
<1>2. Len(pool_stub_pattern_u8(idx)) = 3
  BY DEF pool_stub_pattern_u8
<1>3. ASSUME NEW a, NEW x, NEW y, NEW r
      PROVE  Len(<<a>> \o <<x, y>> \o <<r>>) = 4
  <2> DEFINE S == {a, x, y, r}
             front == <<a>> \o <<x, y>>
  <2>1. /\ <<a>> \in Seq(S) /\ Len(<<a>>) = 1
        /\ <<x, y>> \in Seq(S) /\ Len(<<x, y>>) = 2
        /\ <<r>> \in Seq(S) /\ Len(<<r>>) = 1
    OBVIOUS
  <2> HIDE DEF S
  <2>2. front \in Seq(S) /\ Len(front) = 1 + 2
    BY <2>1, ConcatProperties
  <2> DEFINE back == <<r>>
  <2>3. back \in Seq(S) /\ Len(back) = 1
    BY <2>1
  <2> HIDE DEF front, back
  <2>4. Len(front \o back) = Len(front) + Len(back)
    BY <2>2, <2>3, ConcatProperties
  <2>5. Len(front \o back) = 4
    BY <2>2, <2>3, <2>4
  <2> QED
    BY <2>5 DEF front, back
<1>4. Len(pool_stub_pattern_u16(idx)) = 4
  BY <1>3 DEF pool_stub_pattern_u16, Le
<1> QED
  BY <1>1, <1>2, <1>4

(* What a match is.                                                        *)
LEMMA HitsAre ==
  ASSUME NEW b, NEW s, NEW f, NEW p
  PROVE  <<f, p>> \in Hits(b, s) <=>
           \/ f = "inline" /\ p \in scan_for_pattern(b, inline_stub_pattern(s))
           \/ /\ SlotsOf(b, s) # {}
              /\ \/ /\ f = "u8"
                    /\ p \in scan_for_pattern(b, pool_stub_pattern_u8(Min(SlotsOf(b, s))))
                 \/ /\ f = "u16"
                    /\ p \in scan_for_pattern(b, pool_stub_pattern_u16(Min(SlotsOf(b, s))))
<1> DEFINE i == scan_for_pattern(b, inline_stub_pattern(s))
           u == scan_for_pattern(b, pool_stub_pattern_u8(Min(SlotsOf(b, s))))
           w == scan_for_pattern(b, pool_stub_pattern_u16(Min(SlotsOf(b, s))))
<1>1. Hits(b, s) = ({"inline"} \X i) \union
                     IF SlotsOf(b, s) = {} THEN {}
                     ELSE ({"u8"} \X u) \union ({"u16"} \X w)
  BY DEF Hits
<1> HIDE DEF i, u, w
<1>2. /\ <<f, p>> \in {"inline"} \X i <=> f = "inline" /\ p \in i
      /\ <<f, p>> \in {"u8"} \X u <=> f = "u8" /\ p \in u
      /\ <<f, p>> \in {"u16"} \X w <=> f = "u16" /\ p \in w
  OBVIOUS
<1>3. CASE SlotsOf(b, s) = {}
  BY <1>1, <1>2, <1>3 DEF i, u, w
<1>4. CASE SlotsOf(b, s) # {}
  <2>1. Hits(b, s) = ({"inline"} \X i) \union (({"u8"} \X u) \union ({"u16"} \X w))
    BY <1>1, <1>4
  <2> QED
    BY <1>2, <1>4, <2>1 DEF i, u, w
<1> QED
  BY <1>3, <1>4

(* A match stays one where its bytes do.                                   *)
LEMMA ScanStays ==
  ASSUME NEW a \in Seq(Byte), NEW b \in Seq(Byte), Len(a) <= Len(b),
         NEW needle, NEW p \in scan_for_pattern(a, needle), NEW n \in Nat,
         Len(needle) = n,
         \A q \in p .. p + n - 1 : b[q + 1] = a[q + 1]
  PROVE  /\ p \in scan_for_pattern(b, needle)
         /\ p \in Nat /\ p + n <= Len(a)
<1>1. Len(a) \in Nat /\ Len(b) \in Nat
  BY LenProperties
<1>2. p \in 0 .. Len(a) - n /\ SubSeq(a, p + 1, p + n) = needle
  BY DEF scan_for_pattern
<1>3. p \in Nat /\ p + n \in Nat /\ p + n <= Len(a) /\ p + n <= Len(b)
  BY <1>1, <1>2
<1>4. SubSeq(b, p + 1, p + n) = SubSeq(a, p + 1, p + n)
  <2> DEFINE k == p + n
  <2>1. \A q \in p .. k - 1 : b[q + 1] = a[q + 1]
    BY <1>3
  <2>2. k \in Nat /\ k <= Len(a) /\ k <= Len(b)
    BY <1>3
  <2> HIDE DEF k
  <2>3. SubSeq(b, p + 1, k) = SubSeq(a, p + 1, k)
    BY <1>3, <2>1, <2>2, SubSeqSame
  <2> QED
    BY <2>3 DEF k
<1>5. p \in 0 .. Len(b) - n
  BY <1>1, <1>2
<1> QED
  BY <1>2, <1>3, <1>4, <1>5 DEF scan_for_pattern

(* Of a compiled binary: its length, its header, and the slots of stubs.   *)
LEMMA CompiledFacts ==
  ASSUME NEW b, Compiled(b)
  PROVE  /\ b.bytes \in Seq(Byte) /\ Len(b.bytes) \in Nat /\ Len(b.bytes) >= 3
         /\ 0 \in Fixed(b.bytes) /\ 1 \in Fixed(b.bytes) /\ 2 \in Fixed(b.bytes)
         /\ PoolOffset(b.bytes) \in Nat /\ PoolSlots(b.bytes) \in Nat
<1>1. b.bytes \in Seq(Byte) /\ Len(b.bytes) \in Nat
  BY LenProperties DEF Compiled
<1>2. 0 \in Fixed(b.bytes) /\ 1 \in Fixed(b.bytes) /\ 2 \in Fixed(b.bytes)
  <2>1. 0 \in 0 .. 2 /\ 1 \in 0 .. 2 /\ 2 \in 0 .. 2
    OBVIOUS
  <2> QED
    BY <2>1 DEF Fixed
<1>3. Len(b.bytes) >= 3
  <2>1. 2 \in 0 .. Len(b.bytes) - 1
    BY <1>2 DEF Compiled
  <2> QED
    BY <1>1, <2>1
<1>4. b.bytes[2] \in Byte /\ b.bytes[3] \in Byte
  BY <1>1, <1>3, ElementOfSeq
<1> QED
  BY <1>1, <1>2, <1>3, <1>4, ByteSize DEF PoolOffset, PoolSlots, Byte

(* A binary with this header and pool has the same pool.                   *)
LEMMA PoolStays ==
  ASSUME NEW b, Compiled(b), NEW c \in Seq(Byte), Len(b.bytes) <= Len(c),
         NEW s \in Sentinels,
         \A p \in Fixed(b.bytes) : c[p + 1] = b.bytes[p + 1]
  PROVE  /\ PoolActive(c) <=> PoolActive(b.bytes)
         /\ SlotsOf(c, s) = SlotsOf(b.bytes, s)
<1> DEFINE a == b.bytes
<1>1. /\ a \in Seq(Byte) /\ Len(a) \in Nat /\ Len(c) \in Nat
      /\ PoolOffset(a) \in Nat /\ PoolSlots(a) \in Nat
  BY CompiledFacts, LenProperties
<1>2. c[1] = a[1] /\ c[2] = a[2] /\ c[3] = a[3]
  <2>1. c[0 + 1] = a[0 + 1] /\ c[1 + 1] = a[1 + 1] /\ c[2 + 1] = a[2 + 1]
    BY CompiledFacts
  <2> QED
    BY <2>1
<1>3. /\ PoolActive(c) <=> PoolActive(a)
      /\ PoolOffset(c) = PoolOffset(a) /\ PoolSlots(c) = PoolSlots(a)
  BY <1>2 DEF PoolActive, PoolOffset, PoolSlots
<1>4. ASSUME NEW i \in 0 .. PoolSlots(a) - 1, PoolActive(a)
      PROVE  LET start == PoolOffset(a) + i * LitBytes
             IN  /\ start + LitBytes <= Len(a) /\ start + LitBytes <= Len(c)
                 /\ SubSeq(c, start + 1, start + LitBytes)
                      = SubSeq(a, start + 1, start + LitBytes)
  <2> DEFINE start == PoolOffset(a) + i * LitBytes
             next == start + LitBytes
  <2>1. start \in Nat /\ next \in Nat /\ next - 1 \in start .. start + LitBytes - 1
        /\ start + LitBytes - 1 = next - 1
    <3>1. i \in Nat /\ LitBytes \in Nat /\ LitBytes >= 3
      BY <1>1, SentinelAssumption
    <3>2. i * LitBytes \in Nat
      BY <3>1
    <3>3. start \in Nat
      BY <1>1, <3>2
    <3> HIDE DEF start
    <3> QED
      BY <3>1, <3>3
  <2>2. \A p \in start .. start + LitBytes - 1 : p \in Fixed(a)
    BY <1>4 DEF Fixed
  <2>3. next - 1 \in 0 .. Len(a) - 1
    BY <2>1, <2>2 DEF Compiled
  <2>4. \A p \in start .. next - 1 : c[p + 1] = a[p + 1]
    BY <2>1, <2>2
  <2> HIDE DEF start
  <2>5. next <= Len(a) /\ next <= Len(c)
    BY <1>1, <2>1, <2>3
  <2> HIDE DEF next, a
  <2>6. SubSeq(c, start + 1, next) = SubSeq(a, start + 1, next)
    BY <1>1, <2>1, <2>4, <2>5, SubSeqSame
  <2> QED
    BY <2>5, <2>6 DEF start, next
<1> HIDE DEF a
<1>5. SlotsOf(c, s) = SlotsOf(a, s)
  BY <1>3, <1>4 DEF SlotsOf
<1> QED
  BY <1>3, <1>5 DEF a

(* So has every stub of it whose slot is as compiled: it is still a match, *)
(* and still read in its own form.                                         *)
LEMMA StubStays ==
  ASSUME NEW b, Compiled(b), NEW c \in Seq(Byte), Len(b.bytes) <= Len(c),
         NEW s \in DOMAIN b.stubs,
         \A p \in Fixed(b.bytes) : c[p + 1] = b.bytes[p + 1],
         \A p \in Slot(b, s) : c[p + 1] = b.bytes[p + 1]
  PROVE  /\ <<Form(b, s), b.stubs[s]>> \in Hits(c, s)
         /\ stub_form_at(c, b.stubs[s]) = Form(b, s)
         /\ Form(b, s) \in {"inline", "u8", "u16"}
         /\ SlotLength(Form(b, s)) \in Nat \ {0}
         /\ b.stubs[s] + SlotLength(Form(b, s)) <= Len(b.bytes)
<1> DEFINE a == b.bytes
           p == b.stubs[s]
           f == Form(b, s)
           n == SlotLength(f)
<1>1. /\ a \in Seq(Byte) /\ Len(a) \in Nat /\ Len(c) \in Nat /\ p \in Nat
      /\ LitBytes \in Nat /\ s \in Sentinels
  BY CompiledFacts, LenProperties, SentinelAssumption DEF Compiled
<1>2. <<f, p>> \in Hits(a, s) /\ f = stub_form_at(a, p)
  BY DEF Compiled, Form
<1>3. \A q \in p .. p + n - 1 : c[q + 1] = a[q + 1]
  BY DEF Slot
<1>4. SlotsOf(c, s) = SlotsOf(a, s) /\ (PoolActive(c) <=> PoolActive(a))
  BY <1>1, PoolStays
<1> HIDE DEF a, p
<1>5. ASSUME NEW needle, n \in Nat, Len(needle) = n,
             p \in scan_for_pattern(a, needle)
      PROVE  p \in scan_for_pattern(c, needle) /\ p + n <= Len(a)
  BY <1>1, <1>3, <1>5, ScanStays DEF a
<1>6. CASE f = "inline" /\ p \in scan_for_pattern(a, inline_stub_pattern(s))
  <2>1. n = LitBytes + 2
    BY <1>6 DEF SlotLength
  <2>2. p \in scan_for_pattern(c, inline_stub_pattern(s)) /\ p + n <= Len(a)
    BY <1>1, <1>5, <1>6, <2>1, PatternLength
  <2>3. <<f, p>> \in Hits(c, s)
    BY <1>6, <2>2, HitsAre
  <2>4. c[p + 1] = a[p + 1] /\ c[p + (LitBytes + 2)] = a[p + (LitBytes + 2)]
    BY <1>1, <1>3, <2>1
  <2>5. a[p + 1] = PUSH_U64 /\ ~PoolActive(a) /\ a[p + (LitBytes + 2)] = RETURN_VALUE
    BY <1>2, <1>6 DEF stub_form_at
  <2>6. stub_form_at(c, p) = "inline"
    BY <1>1, <1>4, <2>1, <2>2, <2>4, <2>5 DEF stub_form_at, a
  <2> QED
    BY <1>1, <1>6, <2>1, <2>2, <2>3, <2>6 DEF a, p
<1>7. CASE f = "u8" /\ SlotsOf(a, s) # {}
           /\ p \in scan_for_pattern(a, pool_stub_pattern_u8(Min(SlotsOf(a, s))))
  <2>1. n = 3
    BY <1>7 DEF SlotLength
  <2>2. p \in scan_for_pattern(c, pool_stub_pattern_u8(Min(SlotsOf(a, s))))
        /\ p + n <= Len(a)
    <3> DEFINE needle == pool_stub_pattern_u8(Min(SlotsOf(a, s)))
    <3>1. Len(needle) = n /\ n \in Nat
      BY <1>1, <2>1, PatternLength
    <3>2. p \in scan_for_pattern(a, needle)
      BY <1>7
    <3> HIDE DEF needle, n
    <3>3. p \in scan_for_pattern(c, needle) /\ p + n <= Len(a)
      BY <1>5, <3>1, <3>2
    <3> QED
      BY <3>3 DEF needle
  <2>3. <<f, p>> \in Hits(c, s)
    BY <1>4, <1>7, <2>2, HitsAre
  <2>4. c[p + 1] = a[p + 1] /\ c[p + 3] = a[p + 3]
    BY <1>1, <1>3, <2>1
  <2>5. a[p + 1] = PUSH_U64 /\ PoolActive(a) /\ a[p + 3] = RETURN_VALUE
    BY <1>2, <1>7 DEF stub_form_at
  <2>6. stub_form_at(c, p) = "u8"
    BY <1>1, <1>4, <2>1, <2>2, <2>4, <2>5 DEF stub_form_at, a
  <2> QED
    BY <1>1, <1>7, <2>1, <2>2, <2>3, <2>6 DEF a, p
<1>8. CASE f = "u16" /\ SlotsOf(a, s) # {}
           /\ p \in scan_for_pattern(a, pool_stub_pattern_u16(Min(SlotsOf(a, s))))
  <2>1. n = 4
    BY <1>8 DEF SlotLength
  <2>2. p \in scan_for_pattern(c, pool_stub_pattern_u16(Min(SlotsOf(a, s))))
        /\ p + n <= Len(a)
    <3> DEFINE needle == pool_stub_pattern_u16(Min(SlotsOf(a, s)))
    <3>1. Len(needle) = n /\ n \in Nat
      BY <1>1, <2>1, PatternLength
    <3>2. p \in scan_for_pattern(a, needle)
      BY <1>8
    <3> HIDE DEF needle, n
    <3>3. p \in scan_for_pattern(c, needle) /\ p + n <= Len(a)
      BY <1>5, <3>1, <3>2
    <3> QED
      BY <3>3 DEF needle
  <2>3. <<f, p>> \in Hits(c, s)
    BY <1>4, <1>8, <2>2, HitsAre
  <2>4. c[p + 1] = a[p + 1] /\ c[p + 4] = a[p + 4]
    <3>1. p \in p .. p + n - 1 /\ p + 3 \in p .. p + n - 1 /\ (p + 3) + 1 = p + 4
      BY <1>1, <2>1
    <3>2. c[p + 1] = a[p + 1] /\ c[(p + 3) + 1] = a[(p + 3) + 1]
      BY <1>3, <3>1
    <3> QED
      BY <3>1, <3>2
  <2>5. a[p + 1] = PUSH_U64_W /\ a[p + 4] = RETURN_VALUE
    BY <1>2, <1>8 DEF stub_form_at
  <2>6. stub_form_at(c, p) = "u16"
    BY <1>1, <1>4, <2>1, <2>2, <2>4, <2>5, OpcodesDiffer DEF stub_form_at, a
  <2> QED
    BY <1>1, <1>8, <2>1, <2>2, <2>3, <2>6 DEF a, p
<1> QED
  BY <1>2, <1>6, <1>7, <1>8, HitsAre

(* Matches are finitely many.                                              *)
LEMMA HitsFinite ==
  ASSUME NEW b \in Seq(Byte), NEW s \in Sentinels
  PROVE  IsFiniteSet(Hits(b, s))
<1> DEFINE idx == Min(SlotsOf(b, s))
           i == scan_for_pattern(b, inline_stub_pattern(s))
           u == scan_for_pattern(b, pool_stub_pattern_u8(idx))
           w == scan_for_pattern(b, pool_stub_pattern_u16(idx))
<1>1. Len(b) \in Nat /\ LitBytes \in Nat
  BY LenProperties, SentinelAssumption
<1>2. ASSUME NEW needle, NEW n \in Nat, Len(needle) = n
      PROVE  IsFiniteSet(scan_for_pattern(b, needle))
  <2>1. IsFiniteSet(0 .. Len(b) - n)
    BY <1>1, FS_Interval
  <2>2. scan_for_pattern(b, needle) \in SUBSET (0 .. Len(b) - n)
    BY <1>2 DEF scan_for_pattern
  <2> QED
    BY <2>1, <2>2, FS_Subset
<1> HIDE DEF idx
<1>3. IsFiniteSet(i) /\ IsFiniteSet(u) /\ IsFiniteSet(w)
  <2>1. /\ Len(inline_stub_pattern(s)) = LitBytes + 2 /\ LitBytes + 2 \in Nat
        /\ Len(pool_stub_pattern_u8(idx)) = 3 /\ 3 \in Nat
        /\ Len(pool_stub_pattern_u16(idx)) = 4 /\ 4 \in Nat
    BY <1>1, PatternLength
  <2> QED
    BY <1>2, <2>1
<1> HIDE DEF i, u, w
<1>4. /\ IsFiniteSet({"inline"} \X i) /\ IsFiniteSet({"u8"} \X u)
      /\ IsFiniteSet({"u16"} \X w)
  BY <1>3, FS_Product, FS_Singleton
<1>5. IsFiniteSet(({"u8"} \X u) \union ({"u16"} \X w))
  BY <1>4, FS_Union
<1>6. IsFiniteSet(({"inline"} \X i) \union (({"u8"} \X u) \union ({"u16"} \X w)))
  BY <1>4, <1>5, FS_Union
<1>7. Hits(b, s) \in SUBSET (({"inline"} \X i) \union (({"u8"} \X u) \union ({"u16"} \X w)))
  BY DEF Hits, i, u, w, idx
<1> QED
  BY <1>6, <1>7, FS_Subset

(* A match that is the only one is the one found.                          *)
LEMMA OnlyHit ==
  ASSUME NEW b \in Seq(Byte), NEW s \in Sentinels, NEW h \in Hits(b, s),
         StubError(b, s) = "none"
  PROVE  Hits(b, s) = {h} /\ Found(b, s) = h[2]
<1> DEFINE H == Hits(b, s)
<1>1. H # {} /\ ~(Cardinality(H) > 1) /\ IsFiniteSet(H)
  BY HitsFinite DEF StubError
<1> HIDE DEF H
<1>2. ASSUME NEW g \in H, g # h PROVE FALSE
  <2> DEFINE two == {h} \union {g}
             c == Cardinality(H)
             d == Cardinality(two)
  <2>1. IsFiniteSet({h}) /\ Cardinality({h}) = 1 /\ g \notin {h}
    BY <1>2, FS_Singleton
  <2>2. d = 1 + 1
    BY <2>1, FS_AddElement
  <2>3. h \in H /\ two \in SUBSET H
    BY DEF H
  <2>4. d <= c /\ c \in Nat
    BY <1>1, <2>3, FS_Subset, FS_CardinalityType
  <2>5. ~(c > 1)
    BY <1>1
  <2> HIDE DEF c, d
  <2> QED
    BY <2>2, <2>4, <2>5
<1>3. H = {h}
  BY <1>2 DEF H
<1>4. (CHOOSE g \in H : TRUE) = h
  BY <1>3
<1> QED
  BY <1>3, <1>4 DEF H, Found

------------------------------------------------------------------------------
(* Bodies and transfers.                                                   *)

(* A relocated body: its bytes, with each target moved by the offset.      *)
LEMMA RelocatedBytes ==
  ASSUME NEW body, Emitted(body), NEW off \in Nat, Fits(body, off)
  PROVE  LET r == Relocated(body, off)
         IN  /\ r \in Seq(Byte) /\ Len(r) = Len(body.bytes)
             /\ \A i \in 1 .. Len(body.bytes) :
                  (\A rel \in body.patches : i \notin rel + 1 .. rel + 2)
                    => r[i] = body.bytes[i]
             /\ \A rel \in body.patches :
                  Address(r, rel) = off + Address(body.bytes, rel)
<1> DEFINE r == Relocated(body, off)
           n == Len(body.bytes)
           At(i, rel) == i \in rel + 1 .. rel + 2
           to(rel) == off + Address(body.bytes, rel)
           pick(i) == CHOOSE rel \in body.patches : At(i, rel)
<1>1. body.bytes \in Seq(Byte) /\ n \in Nat /\ \A i \in 1 .. n : body.bytes[i] \in Byte
  BY LenProperties, ElementOfSeq DEF Emitted
<1>2. \A rel \in body.patches : rel \in Nat /\ rel + 2 <= n /\ rel + 1 \notin body.patches
  BY DEF Emitted
<1>3. \A rel \in body.patches : to(rel) \in 0 .. MaxAddress
  <2>1. TAKE rel \in body.patches
  <2> DEFINE x == body.bytes[rel + 1]
             y == body.bytes[rel + 2]
  <2>2. x \in Byte /\ y \in Byte
    BY <1>1, <1>2
  <2> HIDE DEF x, y
  <2>3. x \in Nat /\ y \in Nat /\ B \in Nat
    BY <2>2, ByteSize DEF Byte
  <2>4. B * y \in Nat
    BY <2>3
  <2>5. to(rel) = off + (x + B * y)
    BY DEF Address, x, y
  <2>6. to(rel) <= MaxAddress
    BY DEF Fits
  <2> HIDE DEF to
  <2> QED
    BY <2>3, <2>4, <2>5, <2>6
<1>4. r = [i \in 1 .. n |->
             IF \E rel \in body.patches : At(i, rel)
             THEN Le(to(pick(i)))[i - pick(i)] ELSE body.bytes[i]]
  BY DEF Relocated
<1>5. ASSUME NEW rel \in body.patches, NEW i \in 1 .. n, At(i, rel)
      PROVE  pick(i) = rel
  <2>1. \A q \in body.patches : At(i, q) => q = rel
    <3>1. TAKE q \in body.patches
    <3>2. rel \in Nat /\ q \in Nat /\ rel + 1 # q /\ q + 1 # rel
      BY <1>2
    <3> QED
      BY <1>5, <3>2
  <2> QED
    BY <1>5, <2>1
<1>6. \A rel \in body.patches : At(rel + 1, rel) /\ At(rel + 2, rel)
                                  /\ rel + 1 \in 1 .. n /\ rel + 2 \in 1 .. n
  BY <1>1, <1>2
<1> HIDE DEF r, n, to, pick
<1>7. ASSUME NEW rel \in body.patches, NEW i \in 1 .. n, At(i, rel)
      PROVE  r[i] = Le(to(rel))[i - rel] /\ i - rel \in 1 .. 2
  <2>1. pick(i) = rel
    BY <1>5, <1>7
  <2>2. rel \in Nat
    BY <1>2
  <2> QED
    BY <1>4, <1>7, <2>1, <2>2
<1>8. \A i \in 1 .. n : r[i] \in Byte
  <2>1. TAKE i \in 1 .. n
  <2>2. CASE \E rel \in body.patches : At(i, rel)
    <3>1. PICK rel \in body.patches : At(i, rel)
      BY <2>2
    <3>2. r[i] = Le(to(rel))[i - rel] /\ i - rel \in 1 .. 2
      BY <1>7, <3>1
    <3>3. Le(to(rel))[1] \in Byte /\ Le(to(rel))[2] \in Byte
      BY <1>3, LeBytes
    <3>4. i - rel = 1 \/ i - rel = 2
      BY <3>2
    <3> QED
      BY <3>2, <3>3, <3>4
  <2>3. CASE ~(\E rel \in body.patches : At(i, rel))
    BY <1>1, <1>4, <2>3 DEF n
  <2> QED
    BY <2>2, <2>3
<1>9. r \in [1 .. n -> Byte]
  BY <1>4, <1>8
<1>10. r \in Seq(Byte) /\ Len(r) = n
  <2>1. n \in Nat
    BY <1>1 DEF n
  <2> QED
    BY <1>9, <2>1, FunIsSeq
<1>11. ASSUME NEW rel \in body.patches
       PROVE  Address(r, rel) = off + Address(body.bytes, rel)
  <2>1. rel \in Nat /\ (rel + 1) - rel = 1 /\ (rel + 2) - rel = 2
    BY <1>2
  <2>2. r[rel + 1] = Le(to(rel))[(rel + 1) - rel]
        /\ r[rel + 2] = Le(to(rel))[(rel + 2) - rel]
    BY <1>6, <1>7
  <2>3. r[rel + 1] = Le(to(rel))[1] /\ r[rel + 2] = Le(to(rel))[2]
    BY <2>1, <2>2
  <2>4. Le(to(rel))[1] + B * Le(to(rel))[2] = to(rel)
    BY <1>3, AddressOfLe
  <2>5. Address(r, rel) = to(rel)
    BY <2>3, <2>4 DEF Address
  <2> QED
    BY <2>5 DEF to
<1>12. ASSUME NEW i \in 1 .. n, \A rel \in body.patches : ~At(i, rel)
       PROVE  r[i] = body.bytes[i]
  BY <1>4, <1>12
<1> QED
  BY <1>10, <1>11, <1>12 DEF r, n

(* What is written over a stub: as long as its slot, with the address of   *)
(* the body behind the opcode that takes it.                               *)
LEMMA TransferBytes ==
  ASSUME NEW form \in {"inline", "u8", "u16"}, NEW target \in Int
  PROVE  LET t == Transfer(form, target)
         IN  /\ t \in Seq(Byte) /\ Len(t) = SlotLength(form)
             /\ SlotLength(form) \in Nat /\ SlotLength(form) >= 3
             /\ form # "inline" =>
                  t[1] = JUMP /\ t[2] = Le(target)[1] /\ t[3] = Le(target)[2]
             /\ form = "inline" =>
                  /\ SlotLength(form) >= 5
                  /\ t[1] = CALL /\ t[2] = 0 /\ t[5] = RETURN_VALUE
                  /\ t[3] = Le(target)[1] /\ t[4] = Le(target)[2]
<1> DEFINE le == Le(target)
           t == Transfer(form, target)
<1>1. /\ le \in Seq(Byte) /\ Len(le) = 2 /\ LitBytes \in Nat /\ LitBytes >= 3
  BY LeBytes, SentinelAssumption
<1>2. <<JUMP>> \in Seq(Byte) /\ Len(<<JUMP>>) = 1 /\ <<JUMP>>[1] = JUMP
  BY ByteSize
<1>3. <<NOP>> \in Seq(Byte) /\ Len(<<NOP>>) = 1
  BY ByteSize
<1>4. <<RETURN_VALUE>> \in Seq(Byte) /\ Len(<<RETURN_VALUE>>) = 1
      /\ <<RETURN_VALUE>>[1] = RETURN_VALUE
  BY ByteSize
<1>5. /\ <<CALL, 0>> \in Seq(Byte) /\ Len(<<CALL, 0>>) = 2
      /\ <<CALL, 0>>[1] = CALL /\ <<CALL, 0>>[2] = 0
  BY ByteSize
<1> DEFINE jump == <<JUMP>>
           nop == <<NOP>>
           return == <<RETURN_VALUE>>
           call == <<CALL, 0>>
           pad == [i \in 1 .. LitBytes - 3 |-> NOP]
<1>6. pad \in Seq(Byte) /\ Len(pad) = LitBytes - 3
  <2>1. LitBytes - 3 \in Nat /\ pad \in [1 .. LitBytes - 3 -> Byte]
    BY <1>1, ByteSize
  <2> DEFINE n == LitBytes - 3
  <2>2. n \in Nat /\ pad \in [1 .. n -> Byte]
    BY <2>1
  <2> HIDE DEF n, pad
  <2>3. pad \in Seq(Byte) /\ Len(pad) = n
    BY <2>2, FunIsSeq
  <2> QED
    BY <2>3 DEF n
<1> DEFINE short == jump \o le
           wide == short \o nop
           c1 == call \o le
           c2 == c1 \o return
           c3 == c2 \o pad
<1>7. /\ form = "u8" => t = short /\ SlotLength(form) = 3
      /\ form = "u16" => t = wide /\ SlotLength(form) = 4
      /\ form = "inline" => t = c3 /\ SlotLength(form) = LitBytes + 2
  BY DEF Transfer, SlotLength
<1> HIDE DEF t, le, jump, nop, return, call, pad
<1>8. /\ short \in Seq(Byte) /\ Len(short) = 3
      /\ short[1] = JUMP /\ short[2] = le[1] /\ short[3] = le[2]
  <2>1. /\ short \in Seq(Byte) /\ Len(short) = Len(jump) + Len(le)
        /\ \A i \in 1 .. Len(jump) + Len(le) :
             short[i] = IF i <= Len(jump) THEN jump[i] ELSE le[i - Len(jump)]
    BY <1>1, <1>2, ConcatProperties DEF jump
  <2> HIDE DEF short
  <2> QED
    BY <1>1, <1>2, <2>1 DEF jump
<1> HIDE DEF short
<1>9. /\ wide \in Seq(Byte) /\ Len(wide) = 4
      /\ wide[1] = JUMP /\ wide[2] = le[1] /\ wide[3] = le[2]
  <2>1. /\ wide \in Seq(Byte) /\ Len(wide) = Len(short) + Len(nop)
        /\ \A i \in 1 .. Len(short) + Len(nop) :
             wide[i] = IF i <= Len(short) THEN short[i] ELSE nop[i - Len(short)]
    BY <1>8, <1>3, ConcatProperties DEF nop
  <2> HIDE DEF wide
  <2>2. Len(nop) = 1
    BY <1>3 DEF nop
  <2> QED
    BY <1>8, <2>1, <2>2
<1>10. /\ c1 \in Seq(Byte) /\ Len(c1) = 4
       /\ c1[1] = CALL /\ c1[2] = 0 /\ c1[3] = le[1] /\ c1[4] = le[2]
  <2>1. /\ c1 \in Seq(Byte) /\ Len(c1) = Len(call) + Len(le)
        /\ \A i \in 1 .. Len(call) + Len(le) :
             c1[i] = IF i <= Len(call) THEN call[i] ELSE le[i - Len(call)]
    BY <1>1, <1>5, ConcatProperties DEF call
  <2> HIDE DEF c1
  <2>2. Len(call) = 2 /\ call[1] = CALL /\ call[2] = 0
    BY <1>5 DEF call
  <2> QED
    BY <1>1, <2>1, <2>2
<1> HIDE DEF c1
<1>11. /\ c2 \in Seq(Byte) /\ Len(c2) = 5
       /\ c2[1] = CALL /\ c2[2] = 0 /\ c2[3] = le[1] /\ c2[4] = le[2]
       /\ c2[5] = RETURN_VALUE
  <2>1. /\ c2 \in Seq(Byte) /\ Len(c2) = Len(c1) + Len(return)
        /\ \A i \in 1 .. Len(c1) + Len(return) :
             c2[i] = IF i <= Len(c1) THEN c1[i] ELSE return[i - Len(c1)]
    BY <1>4, <1>10, ConcatProperties DEF return
  <2> HIDE DEF c2
  <2>2. Len(return) = 1 /\ return[1] = RETURN_VALUE
    BY <1>4 DEF return
  <2> QED
    BY <1>10, <2>1, <2>2
<1> HIDE DEF c2
<1>12. /\ c3 \in Seq(Byte) /\ Len(c3) = LitBytes + 2
       /\ c3[1] = CALL /\ c3[2] = 0 /\ c3[3] = le[1] /\ c3[4] = le[2]
       /\ c3[5] = RETURN_VALUE
  <2>1. /\ c3 \in Seq(Byte) /\ Len(c3) = Len(c2) + Len(pad)
        /\ \A i \in 1 .. Len(c2) + Len(pad) :
             c3[i] = IF i <= Len(c2) THEN c2[i] ELSE pad[i - Len(c2)]
    BY <1>6, <1>11, ConcatProperties
  <2> HIDE DEF c3
  <2> QED
    BY <1>1, <1>6, <1>11, <2>1
<1> HIDE DEF c3, wide
<1>13. CASE form = "inline"
  BY <1>1, <1>7, <1>12, <1>13 DEF le, t
<1>14. CASE form = "u8"
  <2>1. SlotLength(form) = 3 /\ form # "inline"
    BY <1>7, <1>14
  <2>2. /\ t \in Seq(Byte) /\ Len(t) = 3
        /\ t[1] = JUMP /\ t[2] = le[1] /\ t[3] = le[2]
    BY <1>7, <1>8, <1>14
  <2> QED
    BY <2>1, <2>2 DEF le, t
<1>15. CASE form = "u16"
  <2>1. SlotLength(form) = 4 /\ form # "inline"
    BY <1>7, <1>15
  <2>2. /\ t \in Seq(Byte) /\ Len(t) = 4
        /\ t[1] = JUMP /\ t[2] = le[1] /\ t[3] = le[2]
    BY <1>7, <1>9, <1>15
  <2> QED
    BY <2>1, <2>2 DEF le, t
<1> QED
  BY <1>13, <1>14, <1>15

------------------------------------------------------------------------------
(* The invariant is inductive.                                             *)

(* Bytes the link may have changed are those of slots and call targets.    *)
LEMMA TouchedIs ==
  ASSUME Compiled(base)
  PROVE  Touched = (UNION {Slot(base, s) : s \in rewritten})
                     \union (UNION {{c + 2, c + 3} : c \in DOMAIN patched})
  BY DEF Touched, SlotOf, Slot, Form

(* A link starts in the invariant.                                         *)
LEMMA InitLink == ASSUME Init, Compiled(base) PROVE LinkInv
<1>1. binary = base.bytes /\ Compiled(base)
  BY DEF Init
<1>2. binary \in Seq(Byte) /\ Len(base.bytes) \in Nat
  BY <1>1, CompiledFacts
<1>3. DOMAIN placed = {} /\ rewritten = {} /\ DOMAIN patched = {}
  BY DEF Init
<1> QED
  BY <1>1, <1>2, <1>3 DEF LinkInv, PlacedInv, FrameInv, TransferInv

(* The header, the pool and every stub not yet rewritten are as compiled,  *)
(* and slots and call targets lie in the compiled binary.                  *)
LEMMA Untouched ==
  ASSUME LinkInv
  PROVE  /\ Compiled(base) /\ Len(base.bytes) \in Nat /\ Len(binary) \in Nat
         /\ \A p \in Fixed(base.bytes) : binary[p + 1] = base.bytes[p + 1]
         /\ \A s \in DOMAIN base.stubs \ rewritten : \A p \in Slot(base, s) :
              binary[p + 1] = base.bytes[p + 1]
         /\ \A s \in DOMAIN base.stubs : Slot(base, s) \subseteq 0 .. Len(base.bytes) - 1
<1>1. /\ Compiled(base) /\ binary \in Seq(Byte) /\ DOMAIN patched \subseteq base.calls
      /\ rewritten \subseteq DOMAIN base.stubs
  BY DEF LinkInv
<1>2. Len(base.bytes) \in Nat /\ Len(binary) \in Nat
  BY <1>1, CompiledFacts, LenProperties
<1>3. Touched = (UNION {Slot(base, s) : s \in rewritten})
                  \union (UNION {{c + 2, c + 3} : c \in DOMAIN patched})
  BY <1>1, TouchedIs
<1>4. ASSUME NEW p \in Touched
      PROVE  \/ \E s \in rewritten : p \in Slot(base, s)
             \/ \E c \in DOMAIN patched : p \in Target(c)
  <2>1. CASE \E s \in rewritten : p \in Slot(base, s)
    BY <2>1
  <2>2. CASE \E c \in DOMAIN patched : p \in {c + 2, c + 3}
    <3>1. PICK c \in DOMAIN patched : p \in {c + 2, c + 3}
      BY <2>2
    <3>2. c \in Nat
      BY <1>1 DEF Compiled
    <3>3. p \in Target(c)
      BY <3>1, <3>2 DEF Target
    <3> QED
      BY <3>3
  <2> QED
    BY <1>3, <2>1, <2>2
<1>5. ASSUME NEW p \in Fixed(base.bytes) PROVE binary[p + 1] = base.bytes[p + 1]
  <2>1. p \in 0 .. Len(base.bytes) - 1
    BY <1>1 DEF Compiled
  <2>2. p \notin Touched
    BY <1>1, <1>4 DEF Compiled
  <2> QED
    BY <2>1, <2>2 DEF LinkInv, FrameInv
<1>6. ASSUME NEW s \in DOMAIN base.stubs
      PROVE  Slot(base, s) \subseteq 0 .. Len(base.bytes) - 1
  <2>1. base.stubs[s] \in Nat
    BY <1>1 DEF Compiled
  <2>2. /\ SlotLength(Form(base, s)) \in Nat \ {0}
        /\ base.stubs[s] + SlotLength(Form(base, s)) <= Len(base.bytes)
    <3>1. base.bytes \in Seq(Byte) /\ Len(base.bytes) <= Len(base.bytes)
      BY <1>1, CompiledFacts
    <3> QED
      BY <1>1, <3>1, StubStays
  <2> DEFINE n == SlotLength(Form(base, s))
  <2> HIDE DEF n
  <2>3. n \in Nat /\ base.stubs[s] + n <= Len(base.bytes)
    BY <2>2 DEF n
  <2>4. Slot(base, s) = base.stubs[s] .. base.stubs[s] + n - 1
    BY DEF Slot, n
  <2> QED
    BY <1>2, <2>1, <2>3, <2>4
<1>7. ASSUME NEW s \in DOMAIN base.stubs \ rewritten, NEW p \in Slot(base, s)
      PROVE  binary[p + 1] = base.bytes[p + 1]
  <2>1. p \in 0 .. Len(base.bytes) - 1
    BY <1>6
  <2>2. p \notin Touched
    <3>1. \A t \in rewritten : p \notin Slot(base, t)
      BY <1>1 DEF Compiled
    <3>2. \A c \in DOMAIN patched : p \notin Target(c)
      BY <1>1 DEF Compiled
    <3> QED
      BY <1>4, <3>1, <3>2
  <2> QED
    BY <2>1, <2>2 DEF LinkInv, FrameInv
<1> QED
  BY <1>1, <1>2, <1>5, <1>6, <1>7

(* What is written into the compiled binary leaves the bodies alone.       *)
LEMMA WriteKeeps ==
  ASSUME LinkInv, NEW new \in Seq(Byte), NEW at \in Nat,
         at + Len(new) <= Len(base.bytes), base' = base, placed' = placed,
         binary' = Overwrite(binary, at, new)
  PROVE  /\ binary' \in Seq(Byte) /\ Len(binary') = Len(binary) /\ PlacedInv'
         /\ \A i \in 1 .. Len(new) : binary'[at + i] = new[i]
         /\ \A p \in 0 .. Len(binary) - 1 :
              p \notin at .. at + Len(new) - 1 => binary'[p + 1] = binary[p + 1]
<1>1. binary \in Seq(Byte) /\ Len(base.bytes) <= Len(binary) /\ PlacedInv
  BY DEF LinkInv
<1>2. Len(base.bytes) \in Nat /\ Len(binary) \in Nat /\ Len(new) \in Nat
  BY Untouched, LenProperties
<1>3. at + Len(new) <= Len(binary)
  BY <1>1, <1>2
<1>4. /\ binary' \in Seq(Byte) /\ Len(binary') = Len(binary)
      /\ \A i \in 1 .. Len(new) : binary'[at + i] = new[i]
      /\ \A i \in 1 .. Len(binary) :
           i \notin at + 1 .. at + Len(new) => binary'[i] = binary[i]
  BY <1>1, <1>3, Overwritten
<1>5. \A p \in 0 .. Len(binary) - 1 :
        p \notin at .. at + Len(new) - 1 => binary'[p + 1] = binary[p + 1]
  BY <1>2, <1>4
<1>6. PlacedInv'
  <2>1. SUFFICES ASSUME NEW s \in DOMAIN placed
                 PROVE  LET off == placed[s].offset  body == placed[s].body
                        IN  /\ Emitted(body) /\ off \in Nat /\ Fits(body, off)
                            /\ Len(base.bytes) <= off
                            /\ off + Len(body.bytes) <= Len(binary')
                            /\ \A i \in 1 .. Len(body.bytes) :
                                 binary'[off + i] = Relocated(body, off)[i]
    BY DEF PlacedInv
  <2> DEFINE off == placed[s].offset
             body == placed[s].body
  <2>2. /\ Emitted(body) /\ off \in Nat /\ Fits(body, off)
        /\ Len(base.bytes) <= off /\ off + Len(body.bytes) <= Len(binary)
        /\ \A i \in 1 .. Len(body.bytes) : binary[off + i] = Relocated(body, off)[i]
    BY <1>1 DEF PlacedInv
  <2>3. Len(body.bytes) \in Nat
    BY <2>2, LenProperties DEF Emitted
  <2> DEFINE n == Len(body.bytes)
             m == Len(base.bytes)
             k == Len(new)
  <2> HIDE DEF off, n, m, k
  <2>4. \A i \in 1 .. n : off + i \in 1 .. Len(binary) /\ off + i \notin at + 1 .. at + k
    <3>1. at + k <= m /\ m <= off /\ off + n <= Len(binary)
      BY <2>2 DEF k, m, n
    <3>2. off \in Nat /\ n \in Nat /\ m \in Nat /\ k \in Nat
      BY <1>2, <2>2, <2>3 DEF k, m, n
    <3> QED
      BY <1>2, <3>1, <3>2
  <2>5. \A i \in 1 .. n : binary'[off + i] = binary[off + i]
    BY <1>4, <2>4 DEF k
  <2> QED
    BY <1>4, <2>2, <2>5 DEF off, n
<1> QED
  BY <1>4, <1>5, <1>6

(* Where slots and call targets are.                                       *)
LEMMA WithinBase ==
  ASSUME LinkInv
  PROVE  /\ \A s \in DOMAIN base.stubs :
              /\ base.stubs[s] \in Nat
              /\ Form(base, s) \in {"inline", "u8", "u16"}
              /\ SlotLength(Form(base, s)) \in Nat
              /\ base.stubs[s] + SlotLength(Form(base, s)) <= Len(base.bytes)
         /\ \A c \in base.calls : c \in Nat /\ c + 4 <= Len(base.bytes)
<1>1. Compiled(base)
  BY DEF LinkInv
<1>2. base.bytes \in Seq(Byte) /\ Len(base.bytes) <= Len(base.bytes)
  BY <1>1, CompiledFacts
<1> QED
  BY <1>1, <1>2, StubStays DEF Compiled

(* Appending a body keeps the invariant.                                   *)
LEMMA AppendStep ==
  ASSUME LinkInv, NEW s \in Sentinels, NEW body, Emitted(body),
         append_function(s, body)
  PROVE  LinkInv'
<1> DEFINE off == Len(binary)
           r == Relocated(body, off)
           m == Len(base.bytes)
<1>1. /\ Compiled(base) /\ binary \in Seq(Byte) /\ m <= off
      /\ m \in Nat /\ off \in Nat /\ s \notin DOMAIN placed
      /\ rewritten \subseteq DOMAIN placed \cap DOMAIN base.stubs
      /\ DOMAIN patched \subseteq base.calls
      /\ \A c \in DOMAIN patched : patched[c] \in DOMAIN placed
      /\ PlacedInv /\ FrameInv /\ TransferInv
  BY Untouched DEF LinkInv, append_function
<1>2. base' = base /\ rewritten' = rewritten /\ patched' = patched
  BY DEF append_function
<1>3. Touched' = Touched
  BY <1>2 DEF Touched, SlotOf
<1>4. CASE ~Fits(body, off)
  <2>1. binary' = binary /\ placed' = placed
    BY <1>4 DEF append_function
  <2>2. PlacedInv' /\ FrameInv' /\ TransferInv'
    BY <1>1, <1>2, <1>3, <2>1 DEF PlacedInv, FrameInv, TransferInv
  <2> QED
    BY <1>1, <1>2, <2>1, <2>2 DEF LinkInv
<1>5. CASE Fits(body, off)
  <2>1. /\ binary' = binary \o r
        /\ placed' = [t \in DOMAIN placed \union {s} |->
                        IF t = s THEN [offset |-> off, body |-> body] ELSE placed[t]]
    BY <1>5 DEF append_function
  <2>2. r \in Seq(Byte) /\ Len(r) = Len(body.bytes) /\ Len(body.bytes) \in Nat
    <3>1. Len(body.bytes) \in Nat
      BY LenProperties DEF Emitted
    <3> QED
      BY <1>1, <1>5, <3>1, RelocatedBytes
  <2> DEFINE k == Len(body.bytes)
  <2> HIDE DEF off, r, k, m
  <2>3. /\ binary' \in Seq(Byte) /\ Len(binary') = off + k
        /\ \A i \in 1 .. off : binary'[i] = binary[i]
        /\ \A i \in 1 .. k : binary'[off + i] = r[i]
    <3>1. /\ binary \o r \in Seq(Byte) /\ Len(binary \o r) = Len(binary) + Len(r)
          /\ \A i \in 1 .. Len(binary) + Len(r) : (binary \o r)[i] =
               IF i <= Len(binary) THEN binary[i] ELSE r[i - Len(binary)]
      <4>1. binary \in Seq(Byte) /\ r \in Seq(Byte)
        BY <1>1, <2>2
      <4> QED
        BY <4>1, ConcatProperties
    <3>2. Len(binary) = off /\ Len(r) = k
      BY <2>2 DEF off, k
    <3>3. \A i \in 1 .. k : /\ off + i \in 1 .. off + k
                            /\ ~(off + i <= off) /\ (off + i) - off = i
      BY <1>1, <2>2 DEF k
    <3>4. \A i \in 1 .. off : i \in 1 .. off + k /\ i <= off
      BY <1>1, <2>2 DEF k
    <3> QED
      BY <2>1, <3>1, <3>2, <3>3, <3>4
  <2>4. /\ DOMAIN placed' = DOMAIN placed \union {s}
        /\ placed'[s].offset = off /\ placed'[s].body = body
        /\ \A t \in DOMAIN placed : placed'[t] = placed[t]
    BY <1>1, <2>1
  <2>5. off <= off + k /\ off + k \in Nat /\ k \in Nat
    BY <1>1, <2>2 DEF k
  <2>6. ASSUME NEW t \in DOMAIN placed
        PROVE  LET at == placed[t].offset  b == placed[t].body
               IN  /\ Emitted(b) /\ at \in Nat /\ Fits(b, at)
                   /\ m <= at /\ at + Len(b.bytes) <= off + k
                   /\ \A i \in 1 .. Len(b.bytes) : binary'[at + i] = Relocated(b, at)[i]
    <3> DEFINE at == placed[t].offset
               b == placed[t].body
               n == Len(b.bytes)
    <3>1. /\ Emitted(b) /\ at \in Nat /\ Fits(b, at) /\ m <= at
          /\ at + Len(b.bytes) <= off
          /\ \A i \in 1 .. Len(b.bytes) : binary[at + i] = Relocated(b, at)[i]
      BY <1>1 DEF PlacedInv, off, m
    <3>2. n \in Nat
      BY <3>1, LenProperties DEF Emitted
    <3>3. at + n <= off
      BY <3>1
    <3> HIDE DEF at, n
    <3>4. at \in Nat
      BY <3>1 DEF at
    <3>5. at + n <= off + k /\ \A i \in 1 .. n : at + i \in 1 .. off
      BY <1>1, <2>5, <3>2, <3>3, <3>4
    <3>6. \A i \in 1 .. n : binary'[at + i] = binary[at + i]
      BY <2>3, <3>5
    <3> QED
      BY <3>1, <3>5, <3>6 DEF at, n
  <2>7. /\ Emitted(body) /\ off \in Nat /\ Fits(body, off) /\ m <= off
        /\ off + Len(body.bytes) <= off + k
        /\ \A i \in 1 .. Len(body.bytes) : binary'[off + i] = Relocated(body, off)[i]
    <3>1. off + k <= off + k
      BY <2>5
    <3> QED
      BY <1>1, <1>5, <2>3, <3>1 DEF r, k
  <2>8. PlacedInv'
    <3>1. \A t \in DOMAIN placed' : t = s \/ t \in DOMAIN placed
      BY <2>4
    <3>2. Len(base'.bytes) = m
      BY <1>2 DEF m
    <3> DEFINE Good(at, b) ==
                 /\ Emitted(b) /\ at \in Nat /\ Fits(b, at)
                 /\ m <= at /\ at + Len(b.bytes) <= off + k
                 /\ \A i \in 1 .. Len(b.bytes) : binary'[at + i] = Relocated(b, at)[i]
    <3>3. \A t \in DOMAIN placed : Good(placed[t].offset, placed[t].body)
      BY <2>6
    <3>4. Good(off, body)
      BY <2>7
    <3> HIDE DEF Good
    <3>5. \A t \in DOMAIN placed' : Good(placed'[t].offset, placed'[t].body)
      BY <2>4, <3>1, <3>3, <3>4
    <3> QED
      BY <2>3, <3>2, <3>5 DEF PlacedInv, Good
  <2>9. FrameInv'
    <3>1. SUFFICES ASSUME NEW p \in 0 .. m - 1, p \notin Touched
                   PROVE  binary'[p + 1] = base.bytes[p + 1]
      BY <1>2, <1>3 DEF FrameInv, m
    <3>2. p + 1 \in 1 .. off
      BY <1>1
    <3>3. binary[p + 1] = base.bytes[p + 1]
      BY <1>1, <3>1 DEF FrameInv, m
    <3> QED
      BY <2>3, <3>2, <3>3
  <2>10. TransferInv'
    <3>1. ASSUME NEW t \in rewritten, NEW i \in 1 .. SlotLength(Form(base, t))
          PROVE  binary'[base.stubs[t] + i]
                   = Transfer(Form(base, t), placed'[t].offset)[i]
      <4> DEFINE at == base.stubs[t]
                 n == SlotLength(Form(base, t))
      <4>1. at \in Nat /\ n \in Nat /\ at + n <= m /\ i \in 1 .. n
        BY <1>1, <3>1, WithinBase DEF m
      <4>2. t \in DOMAIN placed /\ placed'[t] = placed[t]
        BY <1>1, <2>4
      <4>3. binary[at + i] = Transfer(Form(base, t), placed[t].offset)[i]
        BY <1>1, <3>1 DEF TransferInv
      <4> HIDE DEF at, n
      <4>4. at + i \in 1 .. off
        BY <1>1, <4>1
      <4>5. binary'[at + i] = binary[at + i]
        BY <2>3, <4>4
      <4> QED
        BY <4>2, <4>3, <4>5 DEF at
    <3>2. ASSUME NEW c \in DOMAIN patched, NEW i \in 1 .. 2
          PROVE  binary'[c + 2 + i] = Le(placed'[patched[c]].offset)[i]
      <4>1. c \in Nat /\ c + 4 <= m
        BY <1>1, WithinBase DEF m
      <4>2. c + 2 + i \in 1 .. off
        BY <1>1, <4>1
      <4>3. placed'[patched[c]] = placed[patched[c]]
        BY <1>1, <2>4
      <4>4. binary'[c + 2 + i] = binary[c + 2 + i]
        BY <2>3, <4>2
      <4> QED
        BY <1>1, <4>3, <4>4 DEF TransferInv
    <3> QED
      BY <1>2, <3>1, <3>2 DEF TransferInv
  <2>11. Compiled(base') /\ binary' \in Seq(Byte) /\ Len(base'.bytes) <= Len(binary')
    <3>1. m <= off + k
      BY <1>1, <2>5
    <3> QED
      BY <1>1, <1>2, <2>3, <3>1 DEF m
  <2> QED
    BY <1>1, <1>2, <2>4, <2>8, <2>9, <2>10, <2>11 DEF LinkInv
<1> QED
  BY <1>4, <1>5

(* Patching the target of a call keeps the invariant.                      *)
LEMMA PatchStep ==
  ASSUME LinkInv, NEW site \in base.calls, NEW s \in Sentinels,
         patch_call_target(site, s)
  PROVE  LinkInv'
<1> DEFINE new == Le(placed[s].offset)
           at == site + 2
           m == Len(base.bytes)
<1>1. /\ Compiled(base) /\ Compiled(base) /\ m \in Nat /\ Len(binary) \in Nat
      /\ m <= Len(binary)
      /\ rewritten \subseteq DOMAIN placed \cap DOMAIN base.stubs
      /\ DOMAIN patched \subseteq base.calls
      /\ \A c \in DOMAIN patched : patched[c] \in DOMAIN placed
      /\ PlacedInv /\ FrameInv /\ TransferInv
  BY Untouched DEF LinkInv
<1>2. /\ s \in DOMAIN placed /\ site \notin DOMAIN patched
      /\ base' = base /\ placed' = placed /\ rewritten' = rewritten
      /\ binary' = Overwrite(binary, at, new)
      /\ patched' = [c \in DOMAIN patched \union {site} |->
                       IF c = site THEN s ELSE patched[c]]
  BY DEF patch_call_target
<1>3. /\ DOMAIN patched' = DOMAIN patched \union {site} /\ patched'[site] = s
      /\ \A c \in DOMAIN patched : patched'[c] = patched[c]
  BY <1>2
<1>4. /\ site \in Nat /\ at \in Nat /\ site + 4 <= m /\ at + 2 <= m
      /\ new \in Seq(Byte) /\ Len(new) = 2
  <2>1. placed[s].offset \in Int
    BY <1>1, <1>2 DEF PlacedInv
  <2>2. site \in Nat /\ site + 4 <= m
    BY WithinBase
  <2> HIDE DEF m
  <2>3. at \in Nat /\ at + 2 <= m
    BY <1>1, <2>2
  <2> QED
    BY <2>1, <2>2, <2>3, LeBytes
<1> HIDE DEF new
<1>5. /\ binary' \in Seq(Byte) /\ Len(binary') = Len(binary) /\ PlacedInv'
      /\ \A i \in 1 .. 2 : binary'[at + i] = new[i]
      /\ \A p \in 0 .. Len(binary) - 1 :
           p \notin at .. at + 2 - 1 => binary'[p + 1] = binary[p + 1]
  BY <1>2, <1>4, WriteKeeps
<1>6. Target(site) = at .. at + 2 - 1
  BY <1>4 DEF Target
<1>7. ASSUME NEW p \in 0 .. m - 1, p \notin Target(site)
      PROVE  binary'[p + 1] = binary[p + 1]
  BY <1>1, <1>5, <1>6, <1>7
<1>8. Touched \subseteq Touched' /\ Target(site) \subseteq Touched'
  <2>1. Touched \subseteq Touched' /\ {site + 2, site + 3} \subseteq Touched'
    BY <1>2, <1>3 DEF Touched, SlotOf
  <2>2. Target(site) = {site + 2, site + 3}
    BY <1>4 DEF Target
  <2> QED
    BY <2>1, <2>2
<1> HIDE DEF m, at
<1>9. FrameInv'
  <2>1. SUFFICES ASSUME NEW p \in 0 .. m - 1, p \notin Touched'
                 PROVE  binary'[p + 1] = base.bytes[p + 1]
    BY <1>2 DEF FrameInv, m
  <2>2. binary'[p + 1] = binary[p + 1]
    BY <1>7, <1>8, <2>1
  <2>3. binary[p + 1] = base.bytes[p + 1]
    BY <1>1, <1>8, <2>1 DEF FrameInv, m
  <2> QED
    BY <2>2, <2>3
<1>10. TransferInv'
  <2>1. ASSUME NEW t \in rewritten, NEW i \in 1 .. SlotLength(Form(base, t))
        PROVE  binary'[base.stubs[t] + i]
                 = Transfer(Form(base, t), placed[t].offset)[i]
    <3> DEFINE st == base.stubs[t]
               n == SlotLength(Form(base, t))
               p == st + i - 1
    <3>1. st \in Nat /\ n \in Nat /\ st + n <= m /\ i \in 1 .. n
      BY <1>1, <2>1, WithinBase DEF m
    <3>2. Target(site) \cap (st .. st + n - 1) = {}
      <4>1. t \in DOMAIN base.stubs
        BY <1>1
      <4> QED
        BY <1>1, <4>1 DEF Compiled, Slot
    <3>3. binary[st + i] = Transfer(Form(base, t), placed[t].offset)[i]
      BY <1>1, <2>1 DEF TransferInv
    <3> HIDE DEF st, n
    <3>4. p \in st .. st + n - 1 /\ p \in 0 .. m - 1 /\ p + 1 = st + i
      BY <1>1, <3>1 DEF m
    <3>5. binary'[p + 1] = binary[p + 1]
      BY <1>7, <3>2, <3>4
    <3> QED
      BY <3>3, <3>4, <3>5 DEF st
  <2>2. ASSUME NEW c \in DOMAIN patched, NEW i \in 1 .. 2
        PROVE  binary'[c + 2 + i] = Le(placed[patched[c]].offset)[i]
    <3> DEFINE p == c + 1 + i
    <3>1. c \in Nat /\ c + 4 <= m
      BY <1>1, WithinBase DEF m
    <3>2. p \in Target(c) /\ p \in 0 .. m - 1 /\ p + 1 = c + 2 + i
      BY <1>1, <3>1 DEF Target, m
    <3>3. p \notin Target(site)
      <4>1. c \in base.calls \ {site}
        BY <1>1, <1>2
      <4>2. Target(c) \cap Target(site) = {}
        BY <1>1, <4>1 DEF Compiled
      <4> QED
        BY <3>2, <4>2
    <3>4. binary'[p + 1] = binary[p + 1]
      BY <1>7, <3>2, <3>3
    <3>5. binary[c + 2 + i] = Le(placed[patched[c]].offset)[i]
      BY <1>1 DEF TransferInv
    <3> QED
      BY <3>2, <3>4, <3>5
  <2>3. \A i \in 1 .. 2 : binary'[site + 2 + i] = Le(placed[s].offset)[i]
    BY <1>5 DEF at, new
  <2>4. \A c \in DOMAIN patched' : \A i \in 1 .. 2 :
          binary'[c + 2 + i] = Le(placed[patched'[c]].offset)[i]
    <3>1. TAKE c \in DOMAIN patched', i \in 1 .. 2
    <3>2. CASE c = site
      BY <1>3, <2>3, <3>2
    <3>3. CASE c \in DOMAIN patched
      BY <1>3, <2>2, <3>3
    <3> QED
      BY <1>3, <3>2, <3>3
  <2> QED
    BY <1>2, <2>1, <2>4 DEF TransferInv
<1>11. /\ DOMAIN patched' \subseteq base.calls
       /\ \A c \in DOMAIN patched' : patched'[c] \in DOMAIN placed
  BY <1>1, <1>2, <1>3
<1>12. Len(base'.bytes) <= Len(binary')
  BY <1>1, <1>2, <1>5 DEF m
<1> QED
  BY <1>1, <1>2, <1>5, <1>9, <1>10, <1>11, <1>12 DEF LinkInv

(* Rewriting a stub keeps the invariant: the only match is the stub the    *)
(* compiler made for the sentinel, read in the form the compiler gave it.  *)
LEMMA RewriteStep ==
  ASSUME LinkInv, NEW s \in DOMAIN base.stubs, rewrite_stub(s)
  PROVE  LinkInv'
<1> DEFINE st == base.stubs[s]
           form == Form(base, s)
           new == Transfer(form, placed[s].offset)
           n == SlotLength(form)
           m == Len(base.bytes)
<1>1. /\ Compiled(base) /\ Compiled(base) /\ m \in Nat /\ Len(binary) \in Nat
      /\ binary \in Seq(Byte) /\ m <= Len(binary)
      /\ rewritten \subseteq DOMAIN placed \cap DOMAIN base.stubs
      /\ DOMAIN patched \subseteq base.calls
      /\ \A c \in DOMAIN patched : patched[c] \in DOMAIN placed
      /\ PlacedInv /\ FrameInv /\ TransferInv
  BY Untouched DEF LinkInv
<1>2. /\ s \in DOMAIN placed /\ s \notin rewritten
      /\ base' = base /\ placed' = placed /\ patched' = patched
  BY DEF rewrite_stub
<1>3. CASE StubError(binary, s) # "none"
  <2>1. binary' = binary /\ rewritten' = rewritten
    BY <1>3 DEF rewrite_stub
  <2>2. Touched' = Touched
    BY <1>2, <2>1 DEF Touched, SlotOf
  <2>3. PlacedInv' /\ FrameInv' /\ TransferInv'
    BY <1>1, <1>2, <2>1, <2>2 DEF PlacedInv, FrameInv, TransferInv
  <2> QED
    BY <1>1, <1>2, <2>1, <2>3 DEF LinkInv
<1>4. CASE StubError(binary, s) = "none"
  <2>1. Found(binary, s) = st /\ stub_form_at(binary, st) = form
    <3>1. /\ \A p \in Fixed(base.bytes) : binary[p + 1] = base.bytes[p + 1]
          /\ \A p \in Slot(base, s) : binary[p + 1] = base.bytes[p + 1]
          /\ s \in Sentinels
      BY <1>1, <1>2, Untouched DEF Compiled
    <3>2. <<form, st>> \in Hits(binary, s) /\ stub_form_at(binary, st) = form
      BY <1>1, <3>1, StubStays
    <3> DEFINE h == <<form, st>>
    <3>3. h[2] = st
      OBVIOUS
    <3>4. h \in Hits(binary, s)
      BY <3>2
    <3> HIDE DEF h
    <3>5. Found(binary, s) = h[2]
      BY <1>1, <1>4, <3>1, <3>4, OnlyHit
    <3> QED
      BY <3>2, <3>3, <3>5
  <2>2. /\ binary' = Overwrite(binary, st, new)
        /\ rewritten' = rewritten \union {s}
    BY <1>4, <2>1 DEF rewrite_stub
  <2>3. /\ st \in Nat /\ n \in Nat /\ st + n <= m
        /\ new \in Seq(Byte) /\ Len(new) = n
    <3>1. placed[s].offset \in Int
      BY <1>1, <1>2 DEF PlacedInv
    <3>2. /\ st \in Nat /\ n \in Nat /\ st + n <= m
          /\ form \in {"inline", "u8", "u16"}
      BY WithinBase
    <3> QED
      BY <3>1, <3>2, TransferBytes
  <2>4. Slot(base, s) = st .. st + n - 1
    BY DEF Slot
  <2> HIDE DEF new, n, st
  <2>5. /\ binary' \in Seq(Byte) /\ Len(binary') = Len(binary) /\ PlacedInv'
        /\ \A i \in 1 .. n : binary'[st + i] = new[i]
        /\ \A p \in 0 .. Len(binary) - 1 :
             p \notin st .. st + n - 1 => binary'[p + 1] = binary[p + 1]
    BY <1>2, <2>2, <2>3, WriteKeeps
  <2>6. ASSUME NEW p \in 0 .. m - 1, p \notin Slot(base, s)
        PROVE  binary'[p + 1] = binary[p + 1]
    BY <1>1, <2>4, <2>5, <2>6
  <2>7. Touched \subseteq Touched' /\ Slot(base, s) \subseteq Touched'
    <3>1. Slot(base, s) = SlotOf(s)
      BY DEF Slot, SlotOf, Form
    <3> QED
      BY <1>2, <2>2, <3>1 DEF Touched, SlotOf
  <2> HIDE DEF m
  <2>8. FrameInv'
    <3>1. SUFFICES ASSUME NEW p \in 0 .. m - 1, p \notin Touched'
                   PROVE  binary'[p + 1] = base.bytes[p + 1]
      BY <1>2 DEF FrameInv, m
    <3>2. binary'[p + 1] = binary[p + 1]
      BY <2>6, <2>7, <3>1
    <3>3. binary[p + 1] = base.bytes[p + 1]
      BY <1>1, <2>7, <3>1 DEF FrameInv, m
    <3> QED
      BY <3>2, <3>3
  <2>9. TransferInv'
    <3>1. ASSUME NEW t \in rewritten, NEW i \in 1 .. SlotLength(Form(base, t))
          PROVE  binary'[base.stubs[t] + i]
                   = Transfer(Form(base, t), placed[t].offset)[i]
      <4> DEFINE to == base.stubs[t]
                 k == SlotLength(Form(base, t))
                 p == to + i - 1
      <4>1. to \in Nat /\ k \in Nat /\ to + k <= m /\ i \in 1 .. k
        BY <1>1, <3>1, WithinBase DEF m
      <4>2. Slot(base, s) \cap (to .. to + k - 1) = {}
        <5>1. t \in DOMAIN base.stubs \ {s}
          BY <1>1, <1>2
        <5> QED
          BY <1>1, <5>1 DEF Compiled, Slot
      <4>3. binary[to + i] = Transfer(Form(base, t), placed[t].offset)[i]
        BY <1>1, <3>1 DEF TransferInv
      <4> HIDE DEF to, k
      <4>4. p \in to .. to + k - 1 /\ p \in 0 .. m - 1 /\ p + 1 = to + i
        BY <1>1, <4>1 DEF m
      <4>5. binary'[p + 1] = binary[p + 1]
        BY <2>6, <4>2, <4>4
      <4> QED
        BY <4>3, <4>4, <4>5 DEF to
    <3>2. ASSUME NEW c \in DOMAIN patched, NEW i \in 1 .. 2
          PROVE  binary'[c + 2 + i] = Le(placed[patched[c]].offset)[i]
      <4> DEFINE p == c + 1 + i
      <4>1. c \in Nat /\ c + 4 <= m
        BY <1>1, WithinBase DEF m
      <4>2. p \in Target(c) /\ p \in 0 .. m - 1 /\ p + 1 = c + 2 + i
        BY <1>1, <4>1 DEF Target, m
      <4>3. p \notin Slot(base, s)
        <5>1. c \in base.calls
          BY <1>1
        <5>2. Target(c) \cap Slot(base, s) = {}
          BY <1>1, <5>1 DEF Compiled
        <5> QED
          BY <4>2, <5>2
      <4>4. binary'[p + 1] = binary[p + 1]
        BY <2>6, <4>2, <4>3
      <4>5. binary[c + 2 + i] = Le(placed[patched[c]].offset)[i]
        BY <1>1 DEF TransferInv
      <4> QED
        BY <4>2, <4>4, <4>5
    <3>3. \A i \in 1 .. SlotLength(Form(base, s)) :
            binary'[base.stubs[s] + i] = Transfer(Form(base, s), placed[s].offset)[i]
      BY <2>5 DEF st, n, new
    <3>4. \A t \in rewritten' : t = s \/ t \in rewritten
      BY <2>2
    <3> QED
      BY <1>2, <3>1, <3>2, <3>3, <3>4 DEF TransferInv
  <2>10. rewritten' \subseteq DOMAIN placed \cap DOMAIN base.stubs
    BY <1>1, <1>2, <2>2
  <2>11. Len(base'.bytes) <= Len(binary')
    BY <1>1, <1>2, <2>5 DEF m
  <2> QED
    BY <1>1, <1>2, <2>5, <2>8, <2>9, <2>10, <2>11 DEF LinkInv
<1> QED
  BY <1>3, <1>4

(* What leaves base, binary and tables alone keeps it.                     *)
LEMMA IdleStep ==
  ASSUME LinkInv, UNCHANGED <<base, binary, placed, rewritten, patched>>
  PROVE  LinkInv'
<1>1. Touched' = Touched
  BY DEF Touched, SlotOf
<1>2. PlacedInv' /\ FrameInv' /\ TransferInv'
  BY <1>1 DEF LinkInv, PlacedInv, FrameInv, TransferInv
<1> QED
  BY <1>2 DEF LinkInv

(* So every step of a link keeps it.                                       *)
LEMMA NextLink ==
  ASSUME InputsSound
  PROVE  LinkInv /\ Whole(base) /\ [Next]_vars => LinkInv' /\ Whole(base)'
<1> SUFFICES ASSUME LinkInv, Whole(base), [Next]_vars PROVE LinkInv' /\ Whole(base)'
  OBVIOUS
<1>1. ASSUME NEW s \in Sentinels, NEW body \in Bodies, append_function(s, body)
      PROVE  LinkInv' /\ base' = base
  <2>1. Emitted(body)
    BY DEF InputsSound
  <2> QED
    BY <1>1, <2>1, AppendStep DEF append_function
<1>2. ASSUME NEW s \in Sentinels, rewrite_stub(s) PROVE LinkInv' /\ base' = base
  <2>1. s \in DOMAIN base.stubs
    BY DEF Whole
  <2> QED
    BY <1>2, <2>1, RewriteStep DEF rewrite_stub
<1>3. ASSUME NEW site \in base.calls, NEW s \in Sentinels, patch_call_target(site, s)
      PROVE  LinkInv' /\ base' = base
  BY <1>3, PatchStep DEF patch_call_target
<1>4. ASSUME into_bytes \/ UNCHANGED vars PROVE LinkInv' /\ base' = base
  <2>1. UNCHANGED <<base, binary, placed, rewritten, patched>>
    BY <1>4 DEF into_bytes, vars
  <2> QED
    BY <2>1, IdleStep
<1>5. LinkInv' /\ base' = base
  BY <1>1, <1>2, <1>3, <1>4 DEF Next
<1> QED
  BY <1>5 DEF Whole

(* The invariant holds throughout a link.                                  *)
THEOREM LinkInvariant == ASSUME InputsSound PROVE Spec => []LinkInv
<1>1. Init => LinkInv /\ Whole(base)
  BY InitLink DEF Init, InputsSound
<1>2. LinkInv /\ Whole(base) /\ [Next]_vars => LinkInv' /\ Whole(base)'
  BY NextLink
<1> QED
  BY <1>1, <1>2, PTL DEF Spec

------------------------------------------------------------------------------
(* What it is for.                                                         *)

(* The invariant keeps the compiled binary.                                *)
LEMMA FrameIsKept == ASSUME LinkInv PROVE BaseKept
BY DEF BaseKept, LinkInv, FrameInv

(* It leads every stub and call to its body.                               *)
LEMMA TransfersEnter == ASSUME LinkInv PROVE StubsEnterBodies
<1>1. /\ rewritten \subseteq DOMAIN placed \cap DOMAIN base.stubs
      /\ \A c \in DOMAIN patched : patched[c] \in DOMAIN placed
      /\ DOMAIN patched \subseteq base.calls
      /\ PlacedInv /\ TransferInv
  BY DEF LinkInv
<1>2. ASSUME NEW t \in DOMAIN placed
      PROVE  /\ placed[t].offset \in 0 .. MaxAddress
             /\ Le(placed[t].offset)[1] + B * Le(placed[t].offset)[2] = placed[t].offset
  <2>1. placed[t].offset \in Nat /\ placed[t].offset <= MaxAddress
    BY <1>1 DEF PlacedInv, Fits
  <2>2. MaxAddress \in Int
    <3>1. B * B \in Int
      BY ByteSize
    <3> QED
      BY <3>1 DEF MaxAddress
  <2>3. placed[t].offset \in 0 .. MaxAddress
    BY <2>1, <2>2
  <2> QED
    BY <2>3, AddressOfLe
<1>3. ASSUME NEW s \in rewritten
      PROVE  Enters(binary, base.stubs[s]) = placed[s].offset
  <2> DEFINE st == base.stubs[s]
             form == Form(base, s)
             off == placed[s].offset
             t == Transfer(form, off)
             n == SlotLength(form)
             le == Le(off)
  <2>1. st \in Nat /\ form \in {"inline", "u8", "u16"}
    BY <1>1, WithinBase
  <2>2. off \in Int /\ le[1] + B * le[2] = off
    BY <1>1, <1>2
  <2>3. /\ n \in Nat /\ n >= 3
        /\ form # "inline" => t[1] = JUMP /\ t[2] = le[1] /\ t[3] = le[2]
        /\ form = "inline" =>
             /\ n >= 5 /\ t[1] = CALL /\ t[2] = 0 /\ t[5] = RETURN_VALUE
             /\ t[3] = le[1] /\ t[4] = le[2]
    BY <2>1, <2>2, TransferBytes
  <2>4. \A i \in 1 .. n : binary[st + i] = t[i]
    BY <1>1 DEF TransferInv
  <2> HIDE DEF st, off, t, n, le
  <2>5. CASE form # "inline"
    <3>1. 1 \in 1 .. n /\ 2 \in 1 .. n /\ 3 \in 1 .. n
      BY <2>3
    <3>2. /\ binary[st + 1] = JUMP /\ binary[st + 2] = le[1]
          /\ binary[st + 3] = le[2]
      BY <2>3, <2>4, <2>5, <3>1
    <3>3. (st + 1) + 1 = st + 2 /\ (st + 1) + 2 = st + 3
      BY <2>1 DEF st
    <3>4. Address(binary, st + 1) = off
      BY <2>2, <3>2, <3>3 DEF Address
    <3>5. Enters(binary, st) = off
      BY <3>2, <3>4 DEF Enters
    <3> QED
      BY <3>5 DEF st, off
  <2>6. CASE form = "inline"
    <3>1. 1 \in 1 .. n /\ 2 \in 1 .. n /\ 3 \in 1 .. n /\ 4 \in 1 .. n /\ 5 \in 1 .. n
      BY <2>3, <2>6
    <3>2. /\ binary[st + 1] = CALL /\ binary[st + 2] = 0
          /\ binary[st + 3] = le[1] /\ binary[st + 4] = le[2]
          /\ binary[st + 5] = RETURN_VALUE
      BY <2>3, <2>4, <2>6, <3>1
    <3>3. (st + 2) + 1 = st + 3 /\ (st + 2) + 2 = st + 4
      BY <2>1 DEF st
    <3>4. Address(binary, st + 2) = off
      BY <2>2, <3>2, <3>3 DEF Address
    <3>5. Enters(binary, st) = off
      BY <3>2, <3>4, OpcodesDiffer DEF Enters
    <3> QED
      BY <3>5 DEF st, off
  <2> QED
    BY <2>5, <2>6
<1>4. ASSUME NEW c \in DOMAIN patched
      PROVE  Address(binary, c + 2) = placed[patched[c]].offset
  <2> DEFINE off == placed[patched[c]].offset
             le == Le(off)
  <2>1. le[1] + B * le[2] = off
    BY <1>1, <1>2
  <2> HIDE DEF le
  <2>2. \A i \in 1 .. 2 : binary[c + 2 + i] = le[i]
    BY <1>1 DEF TransferInv, le
  <2>3. binary[c + 2 + 1] = le[1] /\ binary[c + 2 + 2] = le[2]
    BY <2>2
  <2> HIDE DEF off
  <2>4. Address(binary, c + 2) = off
    BY <2>1, <2>3 DEF Address
  <2> QED
    BY <2>4 DEF off
<1> QED
  BY <1>3, <1>4 DEF StubsEnterBodies

(* It keeps the bodies.                                                    *)
LEMMA BodiesStay == ASSUME LinkInv PROVE BodiesIntact
<1>1. SUFFICES ASSUME NEW s \in DOMAIN placed,
                      NEW i \in 1 .. Len(placed[s].body.bytes)
               PROVE  IF \E rel \in placed[s].body.patches : i \in rel + 1 .. rel + 2
                      THEN i - 1 \in placed[s].body.patches =>
                             Address(binary, placed[s].offset + i - 1)
                               = placed[s].offset
                                   + Address(placed[s].body.bytes, i - 1)
                      ELSE binary[placed[s].offset + i] = placed[s].body.bytes[i]
  BY DEF BodiesIntact
<1> DEFINE off == placed[s].offset
           body == placed[s].body
           r == Relocated(body, off)
           n == Len(body.bytes)
<1>2. /\ Emitted(body) /\ off \in Nat /\ Fits(body, off)
      /\ \A j \in 1 .. n : binary[off + j] = r[j]
  BY DEF LinkInv, PlacedInv
<1>3. Emitted(body) /\ n \in Nat
  BY <1>2, LenProperties DEF Emitted
<1> HIDE DEF off, body
<1>4. /\ (\A rel \in body.patches : i \notin rel + 1 .. rel + 2) => r[i] = body.bytes[i]
      /\ \A rel \in body.patches : Address(r, rel) = off + Address(body.bytes, rel)
  <2>1. i \in 1 .. n
    BY <1>1 DEF body
  <2> QED
    BY <1>2, <1>3, <2>1, RelocatedBytes
<1> HIDE DEF r, n
<1>5. CASE \A rel \in body.patches : i \notin rel + 1 .. rel + 2
  <2>1. binary[off + i] = body.bytes[i]
    BY <1>1, <1>2, <1>4, <1>5 DEF body, n
  <2> QED
    BY <1>5, <2>1 DEF body, off
<1>6. CASE \E rel \in body.patches : i \in rel + 1 .. rel + 2
  <2>1. ASSUME i - 1 \in body.patches
        PROVE  Address(binary, off + i - 1) = off + Address(body.bytes, i - 1)
    <3>1. i \in Nat /\ (i - 1) + 2 <= n
      BY <1>3, <2>1 DEF Emitted, n
    <3>2. /\ i \in 1 .. n /\ i + 1 \in 1 .. n
          /\ (i - 1) + 1 = i /\ (i - 1) + 2 = i + 1
          /\ (off + i - 1) + 1 = off + i /\ (off + i - 1) + 2 = off + (i + 1)
      BY <1>1, <1>2, <1>3, <3>1
    <3>3. binary[off + i] = r[i] /\ binary[off + (i + 1)] = r[i + 1]
      BY <1>2, <3>2
    <3>4. Address(binary, off + i - 1) = Address(r, i - 1)
      BY <3>2, <3>3 DEF Address
    <3> QED
      BY <1>4, <2>1, <3>4
  <2> QED
    BY <1>6, <2>1 DEF body, off
<1> QED
  BY <1>5, <1>6

(* Whatever is appended, patched and rewritten, every byte of the compiled *)
(* binary outside the slots of its own stubs and the targets handed over   *)
(* stays: a look-alike of a stub, in a body, an operand or pool data, is   *)
(* never overwritten in its place.                                         *)
THEOREM FrameKept == ASSUME InputsSound PROVE Spec => []BaseKept
<1>1. LinkInv => BaseKept
  BY FrameIsKept
<1> QED
  BY <1>1, LinkInvariant, PTL

(* A rewritten stub leads to the body of its own sentinel by the very      *)
(* bytes written over it, and a patched call to the body it was given.     *)
THEOREM StubsEnter == ASSUME InputsSound PROVE Spec => []StubsEnterBodies
<1>1. LinkInv => StubsEnterBodies
  BY TransfersEnter
<1> QED
  BY <1>1, LinkInvariant, PTL

(* Bodies stay as written, and each of their targets is moved by exactly   *)
(* the offset the body got, within an address.                             *)
THEOREM BodiesKept == ASSUME InputsSound PROVE Spec => []BodiesIntact
<1>1. LinkInv => BodiesIntact
  BY BodiesStay
<1> QED
  BY <1>1, LinkInvariant, PTL
=============================================================================
