--------------------------- MODULE EmitLinkProofs ---------------------------
(***************************************************************************)
(* What holds of emitter and linker together, for every sequence of        *)
(* instructions, jumps, calls and constants that is emitted, and every way *)
(* of linking the result.                                                  *)
(***************************************************************************)
EXTENDS EmitLink, LinkerProofs

------------------------------------------------------------------------------
(* The code of a composed constant.                                        *)

(* The number of chunks added, the first nibble, and the i-th chunk, as    *)
(* emit_push_uint takes them.                                              *)
Chunks(v) == IF v <= 3 THEN 0 ELSE (v - 1) \div 3
First(v) == IF v < 3 THEN v ELSE 3
Chunk(v, i) == IF v - 3 * i < 3 THEN v - 3 * i ELSE 3

(* A solution of the recursion that flattens n sequences.                  *)
Flattens(g, seqs, n) ==
  g = [i \in 1 .. n |-> IF i = 1 THEN seqs[i] ELSE g[i - 1] \o seqs[i]]

(* The sequences flattened are the value of a solution.                    *)
LEMMA FlattenIs ==
  ASSUME NEW seqs, NEW n \in Nat \ {0}, Len(seqs) = n
  PROVE  Emit!FlattenSeq(seqs) = (CHOOSE g : Flattens(g, seqs, n))[n]
BY DEF Emit!FlattenSeq, Flattens

(* There is one.                                                           *)
LEMMA FlattenExists ==
  ASSUME NEW seqs, NEW n \in Nat
  PROVE  \E g : Flattens(g, seqs, n)
<1> DEFINE G == {k \in Nat : \E g : Flattens(g, seqs, k)}
<1>1. 0 \in G
  <2> DEFINE g == [i \in 1 .. 0 |-> 0]
  <2>1. \A i \in 1 .. 0 : FALSE
    OBVIOUS
  <2>2. Flattens(g, seqs, 0)
    BY <2>1 DEF Flattens
  <2> HIDE DEF g
  <2> QED
    BY <2>2
<1>2. ASSUME NEW k \in Nat, k \in G PROVE k + 1 \in G
  <2>1. PICK g : Flattens(g, seqs, k)
    BY <1>2
  <2> DEFINE top == IF k = 0 THEN seqs[1] ELSE g[k] \o seqs[k + 1]
             h == [i \in 1 .. k + 1 |-> IF i = k + 1 THEN top ELSE g[i]]
             f == [i \in 1 .. k + 1 |-> IF i = 1 THEN seqs[i] ELSE h[i - 1] \o seqs[i]]
  <2>2. \A i \in 1 .. k : g[i] = IF i = 1 THEN seqs[i] ELSE g[i - 1] \o seqs[i]
    BY <2>1 DEF Flattens
  <2>3. /\ h[k + 1] = top
        /\ \A i \in 1 .. k : h[i] = g[i]
    <3> HIDE DEF top
    <3>1. k + 1 \in 1 .. k + 1 /\ \A i \in 1 .. k : i \in 1 .. k + 1 /\ i # k + 1
      OBVIOUS
    <3> QED
      BY <3>1
  <2>4. ASSUME NEW i \in 1 .. k + 1
        PROVE  h[i] = IF i = 1 THEN seqs[i] ELSE h[i - 1] \o seqs[i]
    <3> HIDE DEF h
    <3>1. CASE i = k + 1
      <4>1. CASE k = 0
        BY <2>3, <3>1, <4>1
      <4>2. CASE k # 0
        <5>1. k \in 1 .. k /\ (k + 1) - 1 = k /\ k + 1 # 1
          BY <4>2
        <5>2. h[k] = g[k]
          BY <2>3, <5>1
        <5> QED
          BY <2>3, <3>1, <4>2, <5>1, <5>2
      <4> QED
        BY <4>1, <4>2
    <3>2. CASE i # k + 1
      <4>1. i \in 1 .. k /\ (i # 1 => i - 1 \in 1 .. k)
        BY <3>2
      <4> QED
        BY <2>2, <2>3, <4>1
    <3> QED
      BY <3>1, <3>2
  <2>5. h = f
    BY <2>4
  <2>6. Flattens(h, seqs, k + 1)
    BY <2>5 DEF Flattens
  <2> HIDE DEF h
  <2> QED
    BY <2>6
<1> HIDE DEF G
<1>3. Nat \subseteq G
  BY <1>1, <1>2, NatSetInduction
<1> QED
  BY <1>3 DEF G

(* Pairs flattened: one after the other.                                   *)
LEMMA PairsFlat ==
  ASSUME NEW n \in Nat, NEW seqs, Len(seqs) = n,
         n = 0 => seqs \in Seq(Byte),
         \A i \in 1 .. n : seqs[i] \in Seq(Byte) /\ Len(seqs[i]) = 2
  PROVE  LET f == Emit!FlattenSeq(seqs)
         IN  /\ f \in Seq(Byte) /\ Len(f) = 2 * n
             /\ \A m \in 1 .. n : f[2 * m - 1] = seqs[m][1] /\ f[2 * m] = seqs[m][2]
<1>1. CASE n = 0
  <2>1. Emit!FlattenSeq(seqs) = seqs
    BY <1>1 DEF Emit!FlattenSeq
  <2> QED
    BY <1>1, <2>1
<1>2. CASE n # 0
  <2> DEFINE g == CHOOSE g : Flattens(g, seqs, n)
             Good(k) ==
               /\ g[k] \in Seq(Byte) /\ Len(g[k]) = 2 * k
               /\ \A m \in 1 .. k : g[k][2 * m - 1] = seqs[m][1] /\ g[k][2 * m] = seqs[m][2]
             G == {k \in Nat : k + 1 <= n => Good(k + 1)}
  <2>1. Flattens(g, seqs, n)
    BY FlattenExists
  <2>2. Emit!FlattenSeq(seqs) = g[n]
    BY <1>2, FlattenIs
  <2>3. \A i \in 1 .. n : g[i] = IF i = 1 THEN seqs[i] ELSE g[i - 1] \o seqs[i]
    BY <2>1 DEF Flattens
  <2> HIDE DEF g
  <2>4. 0 \in G
    <3>1. 1 \in 1 .. n /\ g[1] = seqs[1]
      BY <1>2, <2>3
    <3>2. \A m \in 1 .. 1 : m = 1 /\ 2 * m - 1 = 1 /\ 2 * m = 2
      OBVIOUS
    <3>3. Good(1)
      BY <3>1, <3>2
    <3> HIDE DEF Good
    <3> QED
      BY <3>3
  <2>5. ASSUME NEW k \in Nat, k \in G PROVE k + 1 \in G
    <3> DEFINE i == k + 1
    <3>1. SUFFICES ASSUME i + 1 <= n PROVE Good(i + 1)
      OBVIOUS
    <3>2. Good(i)
      BY <2>5, <3>1
    <3> DEFINE a == g[i]
               b == seqs[i + 1]
    <3>3. i \in Nat \ {0} /\ i + 1 \in 1 .. n /\ i + 1 # 1 /\ (i + 1) - 1 = i
      BY <3>1
    <3>4. g[i + 1] = a \o b
      BY <2>3, <3>3
    <3>5. /\ a \in Seq(Byte) /\ Len(a) = 2 * i /\ b \in Seq(Byte) /\ Len(b) = 2
          /\ \A m \in 1 .. i : a[2 * m - 1] = seqs[m][1] /\ a[2 * m] = seqs[m][2]
      BY <3>2, <3>3
    <3> HIDE DEF a, b, i
    <3>6. /\ a \o b \in Seq(Byte) /\ Len(a \o b) = Len(a) + Len(b)
          /\ \A j \in 1 .. Len(a) + Len(b) :
               (a \o b)[j] = IF j <= Len(a) THEN a[j] ELSE b[j - Len(a)]
      BY <3>5, ConcatProperties
    <3> DEFINE c == a \o b
    <3> HIDE DEF c
    <3>7. /\ c \in Seq(Byte) /\ Len(c) = 2 * (i + 1)
          /\ \A j \in 1 .. 2 * i : c[j] = a[j]
          /\ c[2 * i + 1] = b[1] /\ c[2 * i + 2] = b[2]
      BY <3>3, <3>5, <3>6 DEF c
    <3>8. ASSUME NEW m \in 1 .. i + 1
          PROVE  c[2 * m - 1] = seqs[m][1] /\ c[2 * m] = seqs[m][2]
      <4>1. CASE m = i + 1
        <5>1. 2 * m - 1 = 2 * i + 1 /\ 2 * m = 2 * i + 2
          BY <3>3, <4>1
        <5> QED
          BY <3>7, <4>1, <5>1 DEF b
      <4>2. CASE m # i + 1
        <5>1. m \in 1 .. i /\ 2 * m - 1 \in 1 .. 2 * i /\ 2 * m \in 1 .. 2 * i
          BY <3>3, <4>2
        <5> QED
          BY <3>5, <3>7, <5>1
      <4> QED
        BY <4>1, <4>2
    <3> QED
      BY <3>4, <3>7, <3>8 DEF c
  <2> HIDE DEF G
  <2>6. Nat \subseteq G
    BY <2>4, <2>5, NatSetInduction
  <2>7. n - 1 \in Nat /\ (n - 1) + 1 = n
    BY <1>2
  <2>8. n - 1 \in G
    BY <2>6, <2>7
  <2>9. Good(n)
    BY <2>7, <2>8 DEF G
  <2> QED
    BY <2>2, <2>9
<1> QED
  BY <1>1, <1>2

(* The code of a constant: a nibble, then pairs of a nibble and ADD.       *)
IsCode(c, v) ==
  /\ c \in Seq(Byte) /\ Len(c) = 2 * Chunks(v) + 1
  /\ c[1] = PUSH_0 + First(v)
  /\ \A m \in 1 .. Chunks(v) :
       c[2 * m] = PUSH_0 + Chunk(v, m) /\ c[2 * m + 1] = ADD

(* What the chunks add up to.                                              *)
Acc(v, i) == IF v - 3 * i < 3 THEN v ELSE 3 + 3 * i

(* Chunks are nibbles, and with all of them the value is complete.         *)
LEMMA ChunkFacts ==
  ASSUME NEW v \in Nat
  PROVE  /\ Chunks(v) \in Nat /\ First(v) \in 0 .. 3
         /\ \A m \in 1 .. Chunks(v) :
              Chunk(v, m) \in 0 .. 3 /\ Acc(v, m - 1) + Chunk(v, m) = Acc(v, m)
         /\ Acc(v, 0) = First(v) /\ Acc(v, Chunks(v)) = v
<1> DEFINE q == (v - 1) \div 3
           r == (v - 1) % 3
           k == Chunks(v)
<1>1. q \in Int /\ r \in 0 .. 2 /\ v - 1 = 3 * q + r
  BY DivMod
<1>2. k = IF v <= 3 THEN 0 ELSE q
  BY DEF Chunks
<1> HIDE DEF q, r, k
<1>3. k \in Nat /\ (v > 3 => v - 3 * k \in 1 .. 3) /\ (v <= 3 => k = 0)
  BY <1>1, <1>2
<1>4. First(v) \in 0 .. 3 /\ Acc(v, 0) = First(v) /\ Acc(v, k) = v
  BY <1>3 DEF First, Acc
<1>5. ASSUME NEW m \in 1 .. k
      PROVE  Chunk(v, m) \in 0 .. 3 /\ Acc(v, m - 1) + Chunk(v, m) = Acc(v, m)
  <2>1. v - 3 * m >= 1 /\ v > 3 /\ v - 3 * (m - 1) >= 3
    BY <1>3
  <2>2. CASE v - 3 * m < 3
    BY <2>1, <2>2 DEF Chunk, Acc
  <2>3. CASE ~(v - 3 * m < 3)
    BY <2>1, <2>3 DEF Chunk, Acc
  <2> QED
    BY <2>2, <2>3
<1> QED
  BY <1>3, <1>4, <1>5 DEF k

(* That is the code the emitter writes.                                    *)
LEMMA CodeIs ==
  ASSUME NEW v \in Uints
  PROVE  v \in Nat /\ IsCode(Emit!emit_push_uint(v), v)
<1>1. v \in Nat /\ \A x \in 0 .. 3 : PUSH_0 + x \in Byte
  BY EmitterAssumption
<1>2. ADD \in Byte
  BY EmitterAssumption
<1> DEFINE k == Chunks(v)
           pair(m) == <<PUSH_0 + Chunk(v, m)>> \o <<ADD>>
           seqs == [m \in 1 .. k |-> pair(m)]
           front == <<PUSH_0 + First(v)>>
           f == Emit!FlattenSeq(seqs)
           c == front \o f
<1>3. /\ k \in Nat /\ First(v) \in 0 .. 3
      /\ \A m \in 1 .. k : Chunk(v, m) \in 0 .. 3
  BY <1>1, ChunkFacts
<1>4. Emit!emit_push_uint(v) = c
  BY DEF Emit!emit_push_uint, Emit!emit_push_nibble, Chunks, First, Chunk
<1>5. ASSUME NEW x \in Byte, NEW y \in Byte
      PROVE  /\ <<x>> \o <<y>> \in Seq(Byte) /\ Len(<<x>> \o <<y>>) = 2
             /\ (<<x>> \o <<y>>)[1] = x /\ (<<x>> \o <<y>>)[2] = y
  OBVIOUS
<1> HIDE DEF k
<1>6. \A m \in 1 .. k :
        /\ seqs[m] \in Seq(Byte) /\ Len(seqs[m]) = 2
        /\ seqs[m][1] = PUSH_0 + Chunk(v, m) /\ seqs[m][2] = ADD
  <2>1. TAKE m \in 1 .. k
  <2>2. PUSH_0 + Chunk(v, m) \in Byte
    BY <1>1, <1>3
  <2>3. seqs[m] = <<PUSH_0 + Chunk(v, m)>> \o <<ADD>>
    OBVIOUS
  <2> HIDE DEF seqs
  <2> QED
    BY <1>2, <1>5, <2>2, <2>3
<1>7. Len(seqs) = k /\ (k = 0 => seqs \in Seq(Byte))
  <2>1. seqs \in [1 .. k -> Seq(Byte)] /\ (k = 0 => seqs \in [1 .. k -> Byte])
    <3>1. k = 0 => 1 .. k = {}
      OBVIOUS
    <3>2. seqs \in [1 .. k -> Seq(Byte)]
      BY <1>6
    <3> QED
      BY <3>1, <3>2
  <2> HIDE DEF seqs
  <2> QED
    BY <1>3, <2>1, FunIsSeq
<1> HIDE DEF seqs, c
<1>8. /\ f \in Seq(Byte) /\ Len(f) = 2 * k
      /\ \A m \in 1 .. k : f[2 * m - 1] = PUSH_0 + Chunk(v, m) /\ f[2 * m] = ADD
  BY <1>3, <1>6, <1>7, PairsFlat
<1>9. front \in Seq(Byte) /\ Len(front) = 1 /\ front[1] = PUSH_0 + First(v)
  BY <1>1, <1>3
<1> HIDE DEF f, front
<1>10. /\ c \in Seq(Byte) /\ Len(c) = Len(front) + Len(f)
       /\ \A j \in 1 .. Len(front) + Len(f) :
            c[j] = IF j <= Len(front) THEN front[j] ELSE f[j - Len(front)]
  BY <1>8, <1>9, ConcatProperties DEF c
<1>11. Len(c) = 2 * k + 1 /\ c[1] = PUSH_0 + First(v)
  BY <1>3, <1>8, <1>9, <1>10
<1>12. ASSUME NEW m \in 1 .. k
       PROVE  c[2 * m] = PUSH_0 + Chunk(v, m) /\ c[2 * m + 1] = ADD
  <2>1. /\ 2 * m \in 1 .. 1 + 2 * k /\ 2 * m + 1 \in 1 .. 1 + 2 * k
        /\ ~(2 * m <= 1) /\ ~(2 * m + 1 <= 1) /\ (2 * m + 1) - 1 = 2 * m
    BY <1>3
  <2> QED
    BY <1>8, <1>9, <1>10, <2>1
<1> QED
  BY <1>1, <1>4, <1>10, <1>11, <1>12 DEF IsCode, k

------------------------------------------------------------------------------
(* Running it.                                                             *)

(* One instruction of a composed constant.                                 *)
Step(stack, op) ==
  IF op = ADD
  THEN SubSeq(stack, 1, Len(stack) - 2)
         \o <<stack[Len(stack) - 1] + stack[Len(stack)]>>
  ELSE Append(stack, op - PUSH_0)

(* The instruction run last.                                               *)
Last(T) == CHOOSE x \in T : \A y \in T : x >= y

(* g solves the recursion of the run on the subsets of S.                  *)
Runs(g, code, S) ==
  g = [T \in SUBSET S |->
         IF T = {} THEN <<>> ELSE Step(g[T \ {Last(T)}], code[Last(T)])]

(* The same for the subsets of up to n elements.                           *)
RunsUpto(g, code, S, n) ==
  \A T \in Upto(n, S) :
    g[T] = IF T = {} THEN <<>> ELSE Step(g[T \ {Last(T)}], code[Last(T)])

(* A run leaves the value of a solution.                                   *)
LEMMA AfterIs ==
  ASSUME NEW code
  PROVE  Emit!After(code) = (CHOOSE g : Runs(g, code, DOMAIN code))[DOMAIN code]
BY DEF Emit!After, Emit!FoldLeft, Emit!MapThenFoldSet, Emit!Max, Runs, Last, Step

(* The last of the first n instructions is the n-th.                       *)
LEMMA LastIs ==
  ASSUME NEW n \in Nat \ {0}
  PROVE  Last(1 .. n) = n /\ (1 .. n) \ {n} = 1 .. n - 1
<1>1. n \in 1 .. n /\ \A y \in 1 .. n : n >= y
  OBVIOUS
<1>2. \A x \in 1 .. n : (\A y \in 1 .. n : x >= y) => x = n
  OBVIOUS
<1>3. Last(1 .. n) = n
  BY <1>1, <1>2 DEF Last
<1> QED
  BY <1>3

(* Every non-empty part of the first n instructions has a last one.        *)
LEMMA LastIn ==
  ASSUME NEW n \in Nat
  PROVE  \A T \in SUBSET (1 .. n) : T # {} => Last(T) \in T
<1> DEFINE G == {k \in Nat : \A T \in SUBSET (1 .. k) : T # {} => Last(T) \in T}
<1>1. 0 \in G
  <2>1. 1 .. 0 = {}
    OBVIOUS
  <2> QED
    BY <2>1
<1>2. ASSUME NEW k \in Nat, k \in G PROVE k + 1 \in G
  <2>1. ASSUME NEW T \in SUBSET (1 .. k + 1), T # {} PROVE Last(T) \in T
    <3>1. CASE k + 1 \in T
      <4>1. \A y \in T : k + 1 >= y
        OBVIOUS
      <4> QED
        BY <3>1, <4>1 DEF Last
    <3>2. CASE k + 1 \notin T
      <4>1. T \in SUBSET (1 .. k)
        BY <3>2
      <4> QED
        BY <1>2, <2>1, <4>1
    <3> QED
      BY <3>1, <3>2
  <2> QED
    BY <2>1
<1> HIDE DEF G
<1>3. Nat \subseteq G
  BY <1>1, <1>2, NatSetInduction
<1> QED
  BY <1>3 DEF G

(* Taking it away goes one level down.                                     *)
LEMMA LevelBelow ==
  ASSUME NEW d \in Nat, NEW n \in Nat, NEW T \in Upto(n + 1, 1 .. d), T # {}
  PROVE  T \ {Last(T)} \in Upto(n, 1 .. d)
<1> DEFINE S == 1 .. d
           U == T \ {Last(T)}
           t == Cardinality(T)
           u == Cardinality(U)
<1>1. T \in SUBSET S /\ t <= n + 1
  BY DEF Upto
<1>2. IsFiniteSet(S)
  BY FS_Interval
<1> HIDE DEF S
<1>3. IsFiniteSet(T)
  BY <1>1, <1>2, FS_Subset
<1>4. Last(T) \in T
  BY <1>1, LastIn DEF S
<1>5. u = t - 1 /\ t \in Nat
  BY <1>3, <1>4, FS_RemoveElement, FS_CardinalityType
<1> HIDE DEF t, u
<1>6. u <= n /\ U \in SUBSET S
  BY <1>1, <1>5
<1> QED
  BY <1>6 DEF Upto, S, u

(* Each level has a solution, read off the one below.                      *)
LEMMA RunsLevel ==
  ASSUME NEW code, NEW d \in Nat, NEW n \in Nat
  PROVE  \E g : g = [T \in SUBSET (1 .. d) |-> g[T]] /\ RunsUpto(g, code, 1 .. d, n)
<1> DEFINE S == 1 .. d
           Good(k) == \E g : g = [T \in SUBSET S |-> g[T]] /\ RunsUpto(g, code, S, k)
           G == {k \in Nat : Good(k)}
<1>0. IsFiniteSet(S)
  BY FS_Interval
<1>1. 0 \in G
  <2> DEFINE g == [T \in SUBSET S |-> <<>>]
  <2>1. ASSUME NEW T \in Upto(0, S) PROVE T = {}
    <3>1. IsFiniteSet(T) /\ Cardinality(T) <= 0
      BY <1>0, FS_Subset DEF Upto
    <3>2. Cardinality(T) = 0
      BY <3>1, FS_CardinalityType
    <3> QED
      BY <3>1, <3>2, FS_EmptySet
  <2>2. RunsUpto(g, code, S, 0)
    BY <2>1 DEF RunsUpto
  <2>3. g = [T \in SUBSET S |-> g[T]]
    OBVIOUS
  <2> HIDE DEF g
  <2> QED
    BY <2>2, <2>3
<1>2. ASSUME NEW k \in Nat, k \in G PROVE k + 1 \in G
  <2>1. PICK g : g = [T \in SUBSET S |-> g[T]] /\ RunsUpto(g, code, S, k)
    BY <1>2
  <2> DEFINE h == [T \in SUBSET S |->
                     IF T = {} THEN <<>> ELSE Step(g[T \ {Last(T)}], code[Last(T)])]
  <2>2. ASSUME NEW T \in Upto(k, S) PROVE h[T] = g[T]
    BY <2>1 DEF RunsUpto, Upto
  <2>3. ASSUME NEW T \in Upto(k + 1, S), T # {}
        PROVE  h[T] = Step(h[T \ {Last(T)}], code[Last(T)])
    <3>1. h[T] = Step(g[T \ {Last(T)}], code[Last(T)])
      BY <2>3 DEF Upto
    <3>2. T \ {Last(T)} \in Upto(k, S)
      BY <2>3, LevelBelow
    <3>3. g[T \ {Last(T)}] = h[T \ {Last(T)}]
      BY <2>2, <3>2
    <3> QED
      BY <3>1, <3>3
  <2>4. {} \in SUBSET S /\ h[{}] = <<>>
    OBVIOUS
  <2>5. h = [T \in SUBSET S |-> h[T]]
    OBVIOUS
  <2> HIDE DEF h
  <2>6. RunsUpto(h, code, S, k + 1)
    BY <2>3, <2>4 DEF RunsUpto
  <2> QED
    BY <2>5, <2>6
<1> HIDE DEF G
<1>3. Nat \subseteq G
  BY <1>1, <1>2, NatSetInduction
<1> QED
  BY <1>3 DEF G

(* So the recursion has one.                                               *)
LEMMA RunsExist ==
  ASSUME NEW code, NEW d \in Nat
  PROVE  \E g : Runs(g, code, 1 .. d)
<1> DEFINE S == 1 .. d
           n == Cardinality(S)
<1>0. IsFiniteSet(S)
  BY FS_Interval
<1>1. n \in Nat
  BY <1>0, FS_CardinalityType
<1>2. PICK g : g = [T \in SUBSET S |-> g[T]] /\ RunsUpto(g, code, S, n)
  BY <1>1, RunsLevel
<1>3. Upto(n, S) = SUBSET S
  BY <1>0, FS_Subset DEF Upto
<1> DEFINE h == [T \in SUBSET S |->
                   IF T = {} THEN <<>> ELSE Step(g[T \ {Last(T)}], code[Last(T)])]
<1>4. \A T \in SUBSET S : g[T] = h[T]
  BY <1>2, <1>3 DEF RunsUpto
<1>5. g = h
  <2>1. g = [T \in SUBSET S |-> g[T]]
    BY <1>2
  <2>2. h = [T \in SUBSET S |-> h[T]]
    OBVIOUS
  <2> HIDE DEF h
  <2>3. [T \in SUBSET S |-> g[T]] = [T \in SUBSET S |-> h[T]]
    BY <1>4
  <2> QED
    BY <2>1, <2>2, <2>3
<1> QED
  BY <1>5 DEF Runs

(* The code of a constant leaves the constant.                             *)
LEMMA CodeLeaves ==
  ASSUME NEW v \in Nat, NEW c, IsCode(c, v)
  PROVE  Emit!After(c) = <<v>>
<1> DEFINE k == Chunks(v)
           n == 2 * k + 1
           D == 1 .. n
           g == CHOOSE g : Runs(g, c, D)
           r(j) == g[1 .. j]
<1>1. /\ k \in Nat /\ First(v) \in 0 .. 3
      /\ \A m \in 1 .. k :
           Chunk(v, m) \in 0 .. 3 /\ Acc(v, m - 1) + Chunk(v, m) = Acc(v, m)
      /\ Acc(v, 0) = First(v) /\ Acc(v, k) = v
  BY ChunkFacts
<1>2. n \in Nat \ {0}
  BY <1>1
<1> HIDE DEF k
<1>3. /\ c \in Seq(Byte) /\ Len(c) = n /\ c[1] = PUSH_0 + First(v)
      /\ \A m \in 1 .. k : c[2 * m] = PUSH_0 + Chunk(v, m) /\ c[2 * m + 1] = ADD
  BY DEF IsCode, k
<1> HIDE DEF n
<1>4. DOMAIN c = D
  BY <1>3, LenProperties
<1>5. Runs(g, c, D)
  BY <1>2, RunsExist
<1>6. Emit!After(c) = r(n)
  BY <1>4, AfterIs
<1> HIDE DEF g
<1>7. \A T \in SUBSET D :
        g[T] = IF T = {} THEN <<>> ELSE Step(g[T \ {Last(T)}], c[Last(T)])
  BY <1>5 DEF Runs
<1>8. ASSUME NEW j \in 1 .. n PROVE r(j) = Step(r(j - 1), c[j])
  <2>1. 1 .. j \in SUBSET D /\ 1 .. j # {} /\ j \in Nat \ {0}
    BY <1>2
  <2>2. Last(1 .. j) = j /\ (1 .. j) \ {j} = 1 .. j - 1
    BY <2>1, LastIs
  <2> QED
    BY <1>7, <2>1, <2>2
<1>9. r(0) = <<>>
  <2>1. 1 .. 0 = {} /\ {} \in SUBSET D
    OBVIOUS
  <2> QED
    BY <1>7, <2>1
<1> HIDE DEF r
<1>10. PUSH_0 \in Nat /\ ADD \notin PUSH_0 .. PUSH_0 + 3
  BY EmitterAssumption
<1>11. ASSUME NEW stack, NEW x \in 0 .. 3
       PROVE  Step(stack, PUSH_0 + x) = Append(stack, x)
  <2>1. PUSH_0 + x # ADD /\ (PUSH_0 + x) - PUSH_0 = x
    BY <1>10
  <2> QED
    BY <2>1 DEF Step
<1>12. ASSUME NEW x \in Int, NEW y \in Int
       PROVE  Step(<<x, y>>, ADD) = <<x + y>>
  <2>1. SubSeq(<<x, y>>, 1, 0) = <<>>
    OBVIOUS
  <2>2. Len(<<x, y>>) = 2 /\ <<x, y>>[1] = x /\ <<x, y>>[2] = y
    OBVIOUS
  <2>3. <<>> \o <<x + y>> = <<x + y>>
    OBVIOUS
  <2>4. 2 - 2 = 0 /\ 2 - 1 = 1
    OBVIOUS
  <2> DEFINE s == <<x, y>>
  <2> HIDE DEF s
  <2>5. Step(s, ADD) = SubSeq(s, 1, Len(s) - 2) \o <<s[Len(s) - 1] + s[Len(s)]>>
    BY DEF Step
  <2>6. Step(s, ADD) = SubSeq(s, 1, 0) \o <<s[1] + s[2]>>
    BY <2>2, <2>4, <2>5 DEF s
  <2> QED
    BY <2>1, <2>2, <2>3, <2>6 DEF s
<1>12a. ASSUME NEW x \in Int, NEW y \in Int PROVE Append(<<x>>, y) = <<x, y>>
  <2> DEFINE a == Append(<<x>>, y)
             b == <<x, y>>
  <2>1. <<x>> \in Seq(Int) /\ Len(<<x>>) = 1 /\ <<x>>[1] = x
    OBVIOUS
  <2>2. b \in Seq(Int) /\ Len(b) = 2 /\ b[1] = x /\ b[2] = y
    OBVIOUS
  <2>3. a \in Seq(Int) /\ Len(a) = 2 /\ a[1] = x /\ a[2] = y
    BY <2>1, AppendProperties
  <2> HIDE DEF a, b
  <2>4. \A i \in 1 .. 2 : a[i] = b[i]
    BY <2>2, <2>3
  <2>5. a = b
    BY <2>2, <2>3, <2>4, SeqEqual
  <2> QED
    BY <2>5 DEF a, b
<1> DEFINE G == {i \in Nat : i <= k => r(2 * i + 1) = <<Acc(v, i)>>}
<1>13. 0 \in G
  <2>1. 1 \in 1 .. n /\ 1 - 1 = 0
    BY <1>2
  <2>2. r(1) = Step(r(0), c[1])
    BY <1>8, <2>1
  <2>3. r(1) = Append(<<>>, First(v))
    BY <1>1, <1>3, <1>9, <1>11, <2>2
  <2>4. Append(<<>>, First(v)) = <<First(v)>>
    OBVIOUS
  <2>5. 2 * 0 + 1 = 1
    OBVIOUS
  <2> QED
    BY <1>1, <2>3, <2>4, <2>5
<1>14. ASSUME NEW i \in Nat, i \in G PROVE i + 1 \in G
  <2> DEFINE m == i + 1
             x == Acc(v, i)
             y == Chunk(v, m)
  <2>1. SUFFICES ASSUME m <= k PROVE r(2 * m + 1) = <<Acc(v, m)>>
    OBVIOUS
  <2>2. /\ m \in 1 .. k /\ m - 1 = i /\ 2 * m \in 1 .. n /\ 2 * m + 1 \in 1 .. n
        /\ 2 * m - 1 = 2 * i + 1 /\ (2 * m + 1) - 1 = 2 * m
    BY <1>1, <2>1 DEF n
  <2>3. r(2 * i + 1) = <<x>>
    <3>1. i <= k
      BY <1>1, <2>2
    <3> QED
      BY <1>14, <3>1
  <2> HIDE DEF m
  <2>4. y \in 0 .. 3 /\ x + y = Acc(v, m) /\ x \in Int
    <3>1. \A j : Acc(v, j) = IF v - 3 * j < 3 THEN v ELSE 3 + 3 * j
      BY DEF Acc
    <3>2. x \in Int
      BY <3>1
    <3> QED
      BY <1>1, <2>2, <3>2
  <2> HIDE DEF x, y
  <2>5. r(2 * m) = Step(<<x>>, PUSH_0 + y)
    BY <1>3, <1>8, <2>2, <2>3 DEF y
  <2>6. r(2 * m) = <<x, y>>
    <3>1. Append(<<x>>, y) = <<x, y>>
      <4>1. x \in Int /\ y \in Int
        BY <2>4
      <4> QED
        BY <1>12a, <4>1
    <3> QED
      BY <1>11, <2>4, <2>5, <3>1
  <2>7. r(2 * m + 1) = Step(<<x, y>>, ADD)
    <3>1. r(2 * m + 1) = Step(r((2 * m + 1) - 1), c[2 * m + 1])
      BY <1>8, <2>2
    <3>2. c[2 * m + 1] = ADD
      BY <1>3, <2>2
    <3> QED
      BY <2>2, <2>6, <3>1, <3>2
  <2>8. Step(<<x, y>>, ADD) = <<x + y>>
    <3>1. x \in Int /\ y \in Int
      BY <2>4
    <3> QED
      BY <1>12, <3>1
  <2> QED
    BY <2>4, <2>7, <2>8
<1> HIDE DEF G
<1>15. Nat \subseteq G
  BY <1>13, <1>14, NatSetInduction
<1>16. k \in G
  BY <1>1, <1>15
<1>17. r(n) = <<Acc(v, k)>>
  BY <1>1, <1>16 DEF G, n
<1> QED
  BY <1>1, <1>6, <1>17

------------------------------------------------------------------------------
(* What is true of a program while it is emitted.                          *)

(* Where the targets of jumps are, patched or not.                         *)
Handles == open \union DOMAIN jumps

(* Targets lie in the program and do not overlap, and those patched hold   *)
(* what they are meant for.                                                *)
JumpsInv ==
  /\ \A h \in Handles : h \in Nat /\ h + 2 <= Len(body) /\ h + 1 \notin Handles
  /\ \A h \in DOMAIN jumps :
       jumps[h] \in Nat /\ Address(body, h) = jumps[h] + Emit!Origin

(* Calls are calls, overlap with no target and not with each other.        *)
CallsInv ==
  \A c \in calls :
    /\ c \in Nat /\ c >= 2 /\ c + 2 <= Len(body) /\ body[c - 1] = CALL
    /\ \A h \in Handles : h + 2 <= c - 2 \/ c + 2 <= h
    /\ \A d \in calls \ {c} : d + 4 <= c \/ c + 4 <= d

(* The code of a constant is as it was written.                            *)
UintsInv ==
  \A p \in DOMAIN uints :
    LET v == uints[p].value  e == uints[p].end  c == Emit!emit_push_uint(v)
    IN  /\ v \in Uints /\ p \in Nat /\ e = p + Len(c) /\ e <= Len(body)
        /\ \A i \in 1 .. Len(c) : body[p + i] = c[i]
        /\ \A h \in Handles : h + 2 <= p \/ e <= h

(* All of it, with its types.                                            *)
EmitInv ==
  /\ body \in Seq(Byte) /\ flavour \in {"standalone", "appended"}
  /\ JumpsInv /\ CallsInv /\ UintsInv

(* The emitter and the linker write bytes alike.                           *)
LEMMA SameBytes ==
  /\ \A b, p, new : Emit!Overwrite(b, p, new) = Overwrite(b, p, new)
  /\ \A n : Emit!Le(n) = Le(n)
  /\ Emit!MaxAddress = MaxAddress
BY DEF Emit!Overwrite, Overwrite, Emit!Le, Le, Emit!MaxAddress, MaxAddress

(* The base of positions.                                                  *)
LEMMA OriginNat == Emit!Origin \in Nat
BY EmitterAssumption DEF Emit!Origin

(* Appending an instruction keeps all of that, if what it adds is in       *)
(* order: a target behind an opcode, a call, or a constant.                *)
LEMMA EmitGrows ==
  ASSUME EmitInv, NEW bytes \in Seq(Byte), body' = body \o bytes,
         flavour' = flavour,
         Handles \subseteq Handles',
         \A h \in Handles' \ Handles : h = Len(body) + 1 /\ Len(bytes) = 3,
         \A h \in DOMAIN jumps : h \in DOMAIN jumps' /\ jumps'[h] = jumps[h],
         \A h \in DOMAIN jumps' \ DOMAIN jumps :
           /\ h = Len(body) + 1
           /\ jumps'[h] \in Nat /\ Address(bytes, 1) = jumps'[h] + Emit!Origin,
         calls \subseteq calls',
         \A c \in calls' \ calls :
           c = Len(body) + 2 /\ Len(bytes) = 4 /\ bytes[1] = CALL,
         \A p \in DOMAIN uints : p \in DOMAIN uints' /\ uints'[p] = uints[p],
         \A p \in DOMAIN uints' \ DOMAIN uints :
           /\ p = Len(body) /\ uints'[p].value \in Uints
           /\ bytes = Emit!emit_push_uint(uints'[p].value)
           /\ uints'[p].end = Len(body) + Len(bytes) /\ Handles' = Handles
  PROVE  EmitInv'
<1> DEFINE n == Len(body)
           k == Len(bytes)
<1>1. body \in Seq(Byte) /\ n \in Nat /\ k \in Nat
  BY LenProperties DEF EmitInv
<1>2. /\ body' \in Seq(Byte) /\ Len(body') = n + k
      /\ \A i \in 1 .. n : body'[i] = body[i]
      /\ \A i \in 1 .. k : body'[n + i] = bytes[i]
  <2>1. /\ body \o bytes \in Seq(Byte) /\ Len(body \o bytes) = Len(body) + Len(bytes)
        /\ \A i \in 1 .. Len(body) + Len(bytes) : (body \o bytes)[i] =
             IF i <= Len(body) THEN body[i] ELSE bytes[i - Len(body)]
    BY <1>1, ConcatProperties
  <2> DEFINE b == body \o bytes
  <2>2. b \in Seq(Byte) /\ Len(b) = n + k
        /\ \A i \in 1 .. n + k : b[i] = IF i <= n THEN body[i] ELSE bytes[i - n]
    BY <2>1
  <2>3. body' = b
    OBVIOUS
  <2> HIDE DEF b, n, k
  <2>4. \A i \in 1 .. n : i \in 1 .. n + k /\ i <= n
    BY <1>1
  <2>5. \A i \in 1 .. k : n + i \in 1 .. n + k /\ ~(n + i <= n) /\ (n + i) - n = i
    BY <1>1
  <2> QED
    BY <2>2, <2>3, <2>4, <2>5
<1>3. JumpsInv /\ CallsInv /\ UintsInv
  BY DEF EmitInv
<1>4. \A h \in Handles : h \in Nat /\ h + 2 <= n /\ h + 1 \notin Handles
  BY <1>3 DEF JumpsInv
<1>5. \A h \in Handles' : h \in Handles \/ (h = n + 1 /\ k = 3)
  OBVIOUS
<1> HIDE DEF n, k
<1>6. JumpsInv'
  <2>1. ASSUME NEW h \in Handles'
        PROVE  h \in Nat /\ h + 2 <= Len(body') /\ h + 1 \notin Handles'
    <3>1. CASE h \in Handles
      <4>1. h \in Nat /\ h + 2 <= n /\ h + 1 # n + 1 /\ h + 1 \notin Handles
        BY <1>1, <1>4, <3>1
      <4> QED
        BY <1>1, <1>2, <1>5, <4>1
    <3>2. CASE h = n + 1 /\ k = 3
      <4>1. \A g \in Handles : g # h + 1
        BY <1>1, <1>4, <3>2
      <4>2. h \in Nat /\ h + 2 <= n + k /\ h + 1 # n + 1
        BY <1>1, <3>2
      <4> QED
        BY <1>2, <1>5, <4>1, <4>2
    <3> QED
      BY <1>5, <3>1, <3>2
  <2>2. ASSUME NEW h \in DOMAIN jumps'
        PROVE  jumps'[h] \in Nat /\ Address(body', h) = jumps'[h] + Emit!Origin
    <3>1. CASE h \in DOMAIN jumps
      <4>1. h \in Handles
        BY <3>1 DEF Handles
      <4>2. h + 1 \in 1 .. n /\ h + 2 \in 1 .. n
        BY <1>1, <1>4, <4>1
      <4>3. Address(body', h) = Address(body, h)
        BY <1>2, <4>2 DEF Address
      <4> QED
        BY <1>3, <3>1, <4>3 DEF JumpsInv
    <3>2. CASE h \notin DOMAIN jumps
      <4>1. /\ h = n + 1 /\ jumps'[h] \in Nat
            /\ Address(bytes, 1) = jumps'[h] + Emit!Origin
        BY <3>2 DEF n
      <4>2. k = 3
        <5>1. h \in Handles' /\ h \notin Handles
          <6>1. h \in Handles'
            <7>1. h \in DOMAIN jumps'
              BY <2>2
            <7>2. Handles' = open' \union DOMAIN jumps'
              BY DEF Handles
            <7> QED
              BY <7>1, <7>2
          <6>2. \A g \in Handles : g # n + 1
            <7>1. TAKE g \in Handles
            <7>2. g \in Nat /\ g + 2 <= n
              BY <1>4
            <7> QED
              BY <1>1, <7>2
          <6> QED
            BY <4>1, <6>1, <6>2
        <5> QED
          BY <1>5, <5>1
      <4>3. /\ 2 \in 1 .. k /\ 3 \in 1 .. k
            /\ h + 1 = n + 2 /\ h + 2 = n + 3
        BY <1>1, <4>1, <4>2
      <4>4. body'[h + 1] = bytes[2] /\ body'[h + 2] = bytes[3]
        BY <1>2, <4>3
      <4>5. Address(body', h) = Address(bytes, 1)
        BY <4>4 DEF Address
      <4> QED
        BY <4>1, <4>5
    <3> QED
      BY <3>1, <3>2
  <2>3. Emit!Origin' = Emit!Origin
    BY DEF Emit!Origin
  <2> QED
    BY <2>1, <2>2, <2>3 DEF JumpsInv
<1>7. CallsInv'
  <2>0. \A c \in calls' : c \in calls \/ (c = n + 2 /\ k = 4 /\ bytes[1] = CALL)
    BY DEF n, k
  <2>1. \A c \in calls : c \in Nat /\ c >= 2 /\ c + 2 <= n
    BY <1>3 DEF CallsInv, n
  <2>2. ASSUME NEW c \in calls'
        PROVE  /\ c \in Nat /\ c >= 2 /\ c + 2 <= Len(body') /\ body'[c - 1] = CALL
               /\ \A h \in Handles' : h + 2 <= c - 2 \/ c + 2 <= h
               /\ \A d \in calls' \ {c} : d + 4 <= c \/ c + 4 <= d
    <3>1. CASE c \in calls
      <4>1. c \in Nat /\ c >= 2 /\ c + 2 <= n /\ c - 1 \in 1 .. n /\ body[c - 1] = CALL
        BY <1>1, <1>3, <2>1, <3>1 DEF CallsInv
      <4>2. \A h \in Handles' : h + 2 <= c - 2 \/ c + 2 <= h
        <5>1. TAKE h \in Handles'
        <5>2. CASE h \in Handles
          BY <1>3, <3>1, <5>2 DEF CallsInv
        <5>3. CASE h = n + 1
          BY <1>1, <4>1, <5>3
        <5> QED
          BY <1>5, <5>2, <5>3
      <4>3. \A d \in calls' \ {c} : d + 4 <= c \/ c + 4 <= d
        <5>1. TAKE d \in calls' \ {c}
        <5>2. CASE d \in calls
          BY <1>3, <3>1, <5>2 DEF CallsInv
        <5>3. CASE d = n + 2
          BY <1>1, <4>1, <5>3
        <5> QED
          BY <2>0, <5>2, <5>3
      <4>4. c + 2 <= Len(body') /\ body'[c - 1] = CALL
        <5>1. c + 2 <= n + k
          BY <1>1, <4>1
        <5>2. body'[c - 1] = body[c - 1]
          BY <1>2, <4>1
        <5> QED
          BY <1>2, <4>1, <5>1, <5>2
      <4> QED
        BY <4>1, <4>2, <4>3, <4>4
    <3>2. CASE c \notin calls
      <4>1. c = n + 2 /\ k = 4 /\ bytes[1] = CALL
        BY <2>0, <3>2
      <4>2. c \in Nat /\ c >= 2 /\ c + 2 <= n + k /\ c - 1 = n + 1 /\ 1 \in 1 .. k
        BY <1>1, <4>1
      <4>3. body'[n + 1] = bytes[1]
        BY <1>2, <4>2
      <4>4. \A h \in Handles' : h + 2 <= c - 2
        <5>1. TAKE h \in Handles'
        <5>2. h \in Handles
          BY <1>5, <4>1
        <5> QED
          BY <1>1, <1>4, <4>1, <5>2
      <4>5. \A d \in calls' \ {c} : d + 4 <= c
        <5>1. TAKE d \in calls' \ {c}
        <5>2. d \in calls
          BY <2>0, <4>1
        <5> QED
          BY <1>1, <2>1, <4>1, <5>2
      <4> QED
        BY <1>2, <4>1, <4>2, <4>3, <4>4, <4>5
    <3> QED
      BY <3>1, <3>2
  <2> QED
    BY <2>2 DEF CallsInv
<1>8. UintsInv'
  <2>1. SUFFICES ASSUME NEW p \in DOMAIN uints'
                 PROVE  LET v == uints'[p].value  e == uints'[p].end
                            c == Emit!emit_push_uint(v)
                        IN  /\ v \in Uints /\ p \in Nat /\ e = p + Len(c)
                            /\ e <= Len(body')
                            /\ \A i \in 1 .. Len(c) : body'[p + i] = c[i]
                            /\ \A h \in Handles' : h + 2 <= p \/ e <= h
    BY DEF UintsInv
  <2> DEFINE v == uints'[p].value
             e == uints'[p].end
             c == Emit!emit_push_uint(v)
  <2>2. CASE p \in DOMAIN uints
    <3>1. /\ v \in Uints /\ p \in Nat /\ e = p + Len(c) /\ e <= n
          /\ \A i \in 1 .. Len(c) : body[p + i] = c[i]
          /\ \A h \in Handles : h + 2 <= p \/ e <= h
      BY <1>3, <2>2 DEF UintsInv, n
    <3>2. Len(c) \in Nat
      BY <3>1, CodeIs, LenProperties DEF IsCode
    <3> DEFINE l == Len(c)
    <3>3. p \in Nat /\ e = p + l /\ e <= n /\ l \in Nat
      BY <3>1, <3>2
    <3> HIDE DEF e, l
    <3>4. e <= n + k /\ e \in Nat /\ \A i \in 1 .. l : p + i \in 1 .. n
      BY <1>1, <3>3
    <3>5. \A i \in 1 .. l : body'[p + i] = body[p + i]
      BY <1>2, <3>4
    <3>6. \A h \in Handles' : h + 2 <= p \/ e <= h
      <4>1. TAKE h \in Handles'
      <4>2. CASE h \in Handles
        BY <3>1, <4>2 DEF e
      <4>3. CASE h = n + 1
        BY <1>1, <3>3, <3>4, <4>3
      <4> QED
        BY <1>5, <4>2, <4>3
    <3> QED
      BY <1>2, <3>1, <3>4, <3>5, <3>6 DEF e, l
  <2>3. CASE p \notin DOMAIN uints
    <3>1. /\ p = n /\ v \in Uints /\ bytes = c
          /\ e = n + k /\ Handles' = Handles /\ k = Len(c)
      BY <2>3 DEF n, k
    <3> HIDE DEF v, e, c
    <3>2. e <= Len(body') /\ p \in Nat /\ e = p + Len(c)
      BY <1>1, <1>2, <3>1
    <3>3. \A i \in 1 .. Len(c) : body'[p + i] = c[i]
      BY <1>2, <3>1
    <3>4. \A h \in Handles' : h + 2 <= p
      BY <1>1, <1>4, <3>1
    <3> QED
      BY <3>1, <3>2, <3>3, <3>4 DEF v, e, c
  <2> QED
    BY <2>2, <2>3
<1> QED
  BY <1>2, <1>6, <1>7, <1>8 DEF EmitInv

(* An instruction of its own adds nothing to keep track of.                *)
LEMMA InstructionStep ==
  ASSUME EmitInv, NEW bytes \in Straight, Emit!instruction(bytes)
  PROVE  EmitInv'
<1>1. /\ body' = body \o bytes /\ flavour' = flavour /\ open' = open
      /\ jumps' = jumps /\ calls' = calls /\ uints' = uints
  BY DEF Emit!instruction, Emit!Emit
<1>2. bytes \in Seq(Byte) /\ Handles' = Handles
  BY <1>1, EmitterAssumption DEF Handles
<1> QED
  BY <1>1, <1>2, EmitGrows

(* A constant is remembered with the code that was written for it.         *)
LEMMA UintStep ==
  ASSUME EmitInv, NEW v \in Uints, Emit!push_uint(v)
  PROVE  EmitInv'
<1> DEFINE bytes == Emit!emit_push_uint(v)
           n == Len(body)
<1>1. /\ body' = body \o bytes /\ flavour' = flavour /\ open' = open
      /\ jumps' = jumps /\ calls' = calls
      /\ uints' = [p \in DOMAIN uints \union {n} |->
                     IF p = n THEN [value |-> v, end |-> Len(body')] ELSE uints[p]]
  BY DEF Emit!push_uint, Emit!Emit
<1>2. bytes \in Seq(Byte) /\ Len(bytes) \in Nat /\ Len(bytes) >= 1
  <2>1. v \in Nat /\ IsCode(bytes, v)
    BY CodeIs
  <2>2. Chunks(v) \in Nat
    BY <2>1, ChunkFacts
  <2> HIDE DEF bytes
  <2> QED
    BY <2>1, <2>2 DEF IsCode
<1>3. body \in Seq(Byte) /\ n \in Nat
  BY LenProperties DEF EmitInv
<1>4. Len(body') = n + Len(bytes)
  BY <1>1, <1>2, <1>3, ConcatProperties
<1>5. n \notin DOMAIN uints
  <2>1. SUFFICES ASSUME n \in DOMAIN uints PROVE FALSE
    OBVIOUS
  <2> DEFINE w == uints[n].value
             c == Emit!emit_push_uint(w)
  <2>2. w \in Uints /\ n + Len(c) <= n
    BY <2>1 DEF EmitInv, UintsInv
  <2>3. w \in Nat /\ IsCode(c, w)
    BY <2>2, CodeIs
  <2>4. Chunks(w) \in Nat
    BY <2>3, ChunkFacts
  <2>5. Len(c) = 2 * Chunks(w) + 1
    BY <2>3 DEF IsCode
  <2> HIDE DEF c, w, n
  <2> QED
    BY <1>3, <2>2, <2>4, <2>5
<1> HIDE DEF n, bytes
<1>6. /\ \A p \in DOMAIN uints : p \in DOMAIN uints' /\ uints'[p] = uints[p]
      /\ \A p \in DOMAIN uints' \ DOMAIN uints :
           p = n /\ uints'[p].value = v /\ uints'[p].end = n + Len(bytes)
  BY <1>1, <1>4, <1>5
<1>7. Handles' = Handles
  BY <1>1 DEF Handles
<1>8. \A p \in DOMAIN uints' \ DOMAIN uints :
        /\ p = Len(body) /\ uints'[p].value \in Uints
        /\ bytes = Emit!emit_push_uint(uints'[p].value)
        /\ uints'[p].end = Len(body) + Len(bytes) /\ Handles' = Handles
  BY <1>6, <1>7 DEF n, bytes
<1> QED
  BY <1>1, <1>2, <1>6, <1>7, <1>8, EmitGrows

(* A forward jump leaves its target to be patched.                         *)
LEMMA PlaceholderStep ==
  ASSUME EmitInv, NEW op \in {JUMP, JUMP_IF}, Emit!placeholder(op)
  PROVE  EmitInv'
<1> DEFINE bytes == <<op, 0, 0>>
<1>1. /\ body' = body \o bytes /\ flavour' = flavour
      /\ open' = open \union {Len(body) + 1}
      /\ jumps' = jumps /\ calls' = calls /\ uints' = uints
  BY DEF Emit!placeholder, Emit!Emit
<1>2. bytes \in Seq(Byte) /\ Len(bytes) = 3
  <2>1. op \in Byte /\ 0 \in Byte
    BY ByteSize, EmitterAssumption
  <2> QED
    BY <2>1
<1>3. Handles' = Handles \union {Len(body) + 1}
  BY <1>1 DEF Handles
<1> HIDE DEF bytes
<1>4. \A h \in Handles' \ Handles : h = Len(body) + 1 /\ Len(bytes) = 3
  BY <1>2, <1>3
<1>5. Handles \subseteq Handles'
  BY <1>3
<1> QED
  BY <1>1, <1>2, <1>4, <1>5, EmitGrows

(* A loop back is written with its target.                                 *)
LEMMA LoopStep ==
  ASSUME EmitInv, NEW position \in 0 .. Len(body), Emit!emit_jump_to(position)
  PROVE  EmitInv'
<1> DEFINE t == position + Emit!Origin
           le == Le(t)
           jump == <<JUMP>>
           bytes == jump \o le
           n == Len(body)
<1>1. /\ body' = body \o bytes /\ flavour' = flavour /\ open' = open
      /\ calls' = calls /\ uints' = uints /\ t <= MaxAddress
      /\ jumps' = [h \in DOMAIN jumps \union {n + 1} |->
                     IF h = n + 1 THEN position ELSE jumps[h]]
  BY SameBytes DEF Emit!emit_jump_to, Emit!Emit, Emit!Meant
<1>2. body \in Seq(Byte) /\ n \in Nat
  BY LenProperties DEF EmitInv
<1>3. position \in Nat /\ t \in Nat
  BY <1>2, OriginNat
<1>4. t \in 0 .. MaxAddress
  <2>1. MaxAddress \in Int
    <3>1. B * B \in Int
      BY ByteSize
    <3> QED
      BY <3>1 DEF MaxAddress
  <2> HIDE DEF t
  <2> QED
    BY <1>1, <1>3, <2>1
<1>5. le \in Seq(Byte) /\ Len(le) = 2 /\ le[1] + B * le[2] = t
  <2>1. t \in Int
    BY <1>3
  <2> HIDE DEF t
  <2> QED
    BY <1>4, <2>1, LeBytes, AddressOfLe
<1>6. jump \in Seq(Byte) /\ Len(jump) = 1
  BY ByteSize
<1> HIDE DEF le, jump, t
<1>7. /\ bytes \in Seq(Byte) /\ Len(bytes) = 3
      /\ bytes[2] = le[1] /\ bytes[3] = le[2]
  <2>1. /\ bytes \in Seq(Byte) /\ Len(bytes) = Len(jump) + Len(le)
        /\ \A i \in 1 .. Len(jump) + Len(le) :
             bytes[i] = IF i <= Len(jump) THEN jump[i] ELSE le[i - Len(jump)]
    BY <1>5, <1>6, ConcatProperties
  <2> HIDE DEF bytes
  <2> QED
    BY <1>5, <1>6, <2>1
<1> HIDE DEF bytes
<1>8. Address(bytes, 1) = t
  BY <1>5, <1>7 DEF Address
<1>9. n + 1 \notin DOMAIN jumps
  <2>1. SUFFICES ASSUME n + 1 \in DOMAIN jumps PROVE FALSE
    OBVIOUS
  <2>2. n + 1 \in Handles
    BY <2>1 DEF Handles
  <2>3. n + 1 + 2 <= n
    BY <2>2 DEF EmitInv, JumpsInv
  <2> HIDE DEF n
  <2> QED
    BY <1>2, <2>3
<1>10. Handles' = Handles \union {n + 1}
  BY <1>1 DEF Handles
<1>11. /\ \A h \in DOMAIN jumps : h \in DOMAIN jumps' /\ jumps'[h] = jumps[h]
       /\ \A h \in DOMAIN jumps' \ DOMAIN jumps : h = n + 1 /\ jumps'[h] = position
  BY <1>1, <1>9
<1>12. \A h \in DOMAIN jumps' \ DOMAIN jumps :
         /\ h = Len(body) + 1
         /\ jumps'[h] \in Nat /\ Address(bytes, 1) = jumps'[h] + Emit!Origin
  BY <1>3, <1>8, <1>11 DEF t
<1>13. \A h \in Handles' \ Handles : h = Len(body) + 1 /\ Len(bytes) = 3
  BY <1>7, <1>10
<1>14. Handles \subseteq Handles'
  BY <1>10
<1> QED
  BY <1>1, <1>7, <1>11, <1>12, <1>13, <1>14, EmitGrows

(* A call leaves its target to the linker.                                 *)
LEMMA CallStep ==
  ASSUME EmitInv, Emit!emit_call_placeholder
  PROVE  EmitInv'
<1> DEFINE bytes == <<CALL, 0, 0, 0>>
<1>1. /\ body' = body \o bytes /\ flavour' = flavour /\ open' = open
      /\ jumps' = jumps /\ uints' = uints
      /\ calls' = calls \union {Len(body) + 2}
  BY DEF Emit!emit_call_placeholder, Emit!Emit
<1>2. bytes \in Seq(Byte) /\ Len(bytes) = 4 /\ bytes[1] = CALL
  <2>1. CALL \in Byte /\ 0 \in Byte
    BY ByteSize
  <2> QED
    BY <2>1
<1>3. Handles' = Handles
  BY <1>1 DEF Handles
<1> HIDE DEF bytes
<1>4. \A c \in calls' \ calls : c = Len(body) + 2 /\ Len(bytes) = 4 /\ bytes[1] = CALL
  BY <1>1, <1>2
<1>5. calls \subseteq calls'
  BY <1>1
<1> QED
  BY <1>1, <1>2, <1>3, <1>4, <1>5, EmitGrows

(* Patching a forward jump writes its target and nothing else: no other    *)
(* target, call or constant.                                               *)
LEMMA PatchHereStep ==
  ASSUME EmitInv, NEW h \in open, Emit!patch_jump_to_here(h)
  PROVE  EmitInv'
<1> DEFINE n == Len(body)
           t == n + Emit!Origin
           new == Le(t)
<1>1. body \in Seq(Byte) /\ n \in Nat /\ t \in Nat
  BY LenProperties, OriginNat DEF EmitInv
<1>2. JumpsInv /\ CallsInv /\ UintsInv
  BY DEF EmitInv
<1>3. \A g \in Handles : g \in Nat /\ g + 2 <= n /\ g + 1 \notin Handles
  BY <1>2 DEF JumpsInv
<1>4. h \in Handles
  BY DEF Handles
<1>5. flavour' = flavour /\ calls' = calls /\ uints' = uints
  BY DEF Emit!patch_jump_to_here
<1>6. Emit!Origin' = Emit!Origin
  BY <1>5 DEF Emit!Origin
<1>7. CASE t > MaxAddress
  <2>1. ~(t <= MaxAddress)
    <3>1. MaxAddress \in Int
      <4>1. B * B \in Int
        BY ByteSize
      <4> QED
        BY <4>1 DEF MaxAddress
    <3> HIDE DEF t
    <3> QED
      BY <1>1, <1>7, <3>1
  <2>2. body' = body /\ jumps' = jumps /\ open' = open
    BY <2>1, SameBytes DEF Emit!patch_jump_to_here
  <2>3. Handles' = Handles
    BY <2>2 DEF Handles
  <2> QED
    BY <1>1, <1>2, <1>5, <1>6, <2>2, <2>3 DEF EmitInv, JumpsInv, CallsInv, UintsInv
<1>8. CASE ~(t > MaxAddress)
  <2>1. t \in 0 .. MaxAddress
    <3>1. MaxAddress \in Int
      <4>1. B * B \in Int
        BY ByteSize
      <4> QED
        BY <4>1 DEF MaxAddress
    <3> HIDE DEF t
    <3> QED
      BY <1>1, <1>8, <3>1
  <2>2. t <= MaxAddress
    BY <2>1
  <2>3. /\ body' = Overwrite(body, h, new) /\ open' = open \ {h}
        /\ jumps' = [g \in DOMAIN jumps \union {h} |-> IF g = h THEN n ELSE jumps[g]]
    BY <2>2, SameBytes DEF Emit!patch_jump_to_here, Emit!Meant
  <2>4. Handles' = Handles
    BY <2>3, <1>4 DEF Handles
  <2>5. h \in Nat /\ h + 2 <= n
    BY <1>3, <1>4
  <2>6. new \in Seq(Byte) /\ Len(new) = 2 /\ new[1] + B * new[2] = t
    <3>1. t \in Int
      BY <1>1
    <3> HIDE DEF t
    <3> QED
      BY <2>1, <3>1, LeBytes, AddressOfLe
  <2> HIDE DEF new
  <2>7. /\ body' \in Seq(Byte) /\ Len(body') = n
        /\ \A i \in 1 .. 2 : body'[h + i] = new[i]
        /\ \A i \in 1 .. n : i \notin h + 1 .. h + 2 => body'[i] = body[i]
    <3>1. h + Len(new) <= Len(body) /\ h \in Nat
      BY <2>5, <2>6
    <3>2. /\ Overwrite(body, h, new) \in Seq(Byte)
          /\ Len(Overwrite(body, h, new)) = Len(body)
          /\ \A i \in 1 .. Len(new) : Overwrite(body, h, new)[h + i] = new[i]
          /\ \A i \in 1 .. Len(body) :
               i \notin h + 1 .. h + Len(new) => Overwrite(body, h, new)[i] = body[i]
      BY <1>1, <2>6, <3>1, Overwritten
    <3> QED
      BY <2>3, <2>6, <3>2
  <2>8. Address(body', h) = t
    <3>1. body'[h + 1] = new[1] /\ body'[h + 2] = new[2]
      BY <2>7
    <3> QED
      BY <2>6, <3>1 DEF Address
  <2>9. ASSUME NEW i \in 1 .. n, i # h + 1, i # h + 2 PROVE body'[i] = body[i]
    <3>1. i \notin h + 1 .. h + 2
      BY <2>5, <2>9
    <3> QED
      BY <2>7, <3>1
  <2>10. jumps'[h] = n /\ \A g \in DOMAIN jumps' : g = h \/ g \in DOMAIN jumps
    BY <2>3
  <2>11. \A g \in DOMAIN jumps : g # h => jumps'[g] = jumps[g]
    BY <2>3
  <2>12. t = jumps'[h] + Emit!Origin
    BY <2>10
  <2> HIDE DEF n, t
  <2>13. JumpsInv'
    <3>1. \A g \in Handles' : g \in Nat /\ g + 2 <= Len(body') /\ g + 1 \notin Handles'
      BY <1>3, <2>4, <2>7
    <3>2. ASSUME NEW g \in DOMAIN jumps'
          PROVE  jumps'[g] \in Nat /\ Address(body', g) = jumps'[g] + Emit!Origin
      <4>1. CASE g = h
        BY <1>1, <2>8, <2>10, <2>12, <4>1
      <4>2. CASE g # h
        <5>1. g \in DOMAIN jumps /\ g \in Handles
          BY <2>10, <4>2 DEF Handles
        <5>2. jumps[g] \in Nat /\ Address(body, g) = jumps[g] + Emit!Origin
          BY <1>2, <5>1 DEF JumpsInv
        <5>3. g \in Nat /\ g + 2 <= n /\ g + 1 # h /\ h + 1 # g
          BY <1>3, <1>4, <5>1
        <5>4. /\ g + 1 \in 1 .. n /\ g + 2 \in 1 .. n
              /\ g + 1 # h + 1 /\ g + 1 # h + 2 /\ g + 2 # h + 1 /\ g + 2 # h + 2
          BY <1>1, <2>5, <4>2, <5>3
        <5>5. body'[g + 1] = body[g + 1] /\ body'[g + 2] = body[g + 2]
          BY <2>9, <5>4
        <5>6. Address(body', g) = Address(body, g)
          BY <5>5 DEF Address
        <5> QED
          BY <2>11, <4>2, <5>1, <5>2, <5>6
      <4> QED
        BY <4>1, <4>2
    <3> QED
      BY <1>6, <3>1, <3>2 DEF JumpsInv
  <2>14. CallsInv'
    <3>1. ASSUME NEW c \in calls PROVE c + 2 <= Len(body') /\ body'[c - 1] = CALL
      <4>1. /\ c \in Nat /\ c >= 2 /\ c + 2 <= n /\ body[c - 1] = CALL
            /\ h + 2 <= c - 2 \/ c + 2 <= h
        BY <1>2, <1>4 DEF CallsInv, n
      <4>2. c - 1 \in 1 .. n /\ c - 1 # h + 1 /\ c - 1 # h + 2
        BY <1>1, <2>5, <4>1
      <4> QED
        BY <2>7, <2>9, <4>1, <4>2
    <3> QED
      BY <1>2, <1>5, <2>4, <3>1 DEF CallsInv
  <2>15. UintsInv'
    <3>1. ASSUME NEW p \in DOMAIN uints
          PROVE  LET v == uints[p].value  e == uints[p].end
                     c == Emit!emit_push_uint(v)
                 IN  /\ v \in Uints /\ p \in Nat /\ e = p + Len(c) /\ e <= Len(body')
                     /\ \A i \in 1 .. Len(c) : body'[p + i] = c[i]
                     /\ \A g \in Handles : g + 2 <= p \/ e <= g
      <4> DEFINE v == uints[p].value
                 e == uints[p].end
                 c == Emit!emit_push_uint(v)
                 l == Len(c)
      <4>1. /\ v \in Uints /\ p \in Nat /\ e = p + l /\ e <= n
            /\ \A i \in 1 .. l : body[p + i] = c[i]
            /\ \A g \in Handles : g + 2 <= p \/ e <= g
        BY <1>2 DEF UintsInv, n
      <4>2. l \in Nat
        BY <4>1, CodeIs, LenProperties DEF IsCode
      <4> HIDE DEF v, e, c, l
      <4>3. h + 2 <= p \/ e <= h
        BY <1>4, <4>1
      <4>4. ASSUME NEW i \in 1 .. l PROVE body'[p + i] = c[i]
        <5>1. p + i \in 1 .. n /\ p + i # h + 1 /\ p + i # h + 2
          BY <1>1, <2>5, <4>1, <4>2, <4>3
        <5> QED
          BY <2>9, <4>1, <5>1
      <4>5. e <= Len(body')
        BY <2>7, <4>1
      <4> QED
        BY <4>1, <4>4, <4>5 DEF v, e, c, l
    <3> QED
      BY <1>5, <2>4, <3>1 DEF UintsInv
  <2> QED
    BY <1>5, <2>7, <2>13, <2>14, <2>15 DEF EmitInv
<1> QED
  BY <1>7, <1>8

(* What ends a program or gives it up leaves it as it is.                  *)
LEMMA EndStep ==
  ASSUME EmitInv, UNCHANGED <<flavour, body, open, jumps, calls, uints>>
  PROVE  EmitInv'
<1>1. Emit!Origin' = Emit!Origin /\ Handles' = Handles
  BY DEF Emit!Origin, Handles
<1> QED
  BY <1>1 DEF EmitInv, JumpsInv, CallsInv, UintsInv

(* So every step of emitting keeps the invariant.                          *)
LEMMA EmitNext == ASSUME EmitInv, Emit!Next PROVE EmitInv'
<1>1. ASSUME NEW bytes \in Straight, Emit!instruction(bytes) PROVE EmitInv'
  BY <1>1, InstructionStep
<1>2. ASSUME NEW v \in Uints, Emit!push_uint(v) PROVE EmitInv'
  BY <1>2, UintStep
<1>3. ASSUME NEW op \in {JUMP, JUMP_IF}, Emit!placeholder(op) PROVE EmitInv'
  BY <1>3, PlaceholderStep
<1>4. ASSUME NEW h \in open, Emit!patch_jump_to_here(h) PROVE EmitInv'
  BY <1>4, PatchHereStep
<1>5. ASSUME NEW p \in 0 .. Len(body), Emit!emit_jump_to(p) PROVE EmitInv'
  BY <1>5, LoopStep
<1>6. ASSUME Emit!emit_call_placeholder PROVE EmitInv'
  BY <1>6, CallStep
<1>7. ASSUME Emit!finish_with_halt \/ Emit!into_body_with_jumps PROVE EmitInv'
  <2>1. UNCHANGED <<flavour, body, open, jumps, calls, uints>>
    BY <1>7 DEF Emit!finish_with_halt, Emit!into_body_with_jumps
  <2> QED
    BY <2>1, EndStep
<1> QED
  BY <1>1, <1>2, <1>3, <1>4, <1>5, <1>6, <1>7 DEF Emit!Next

(* A program that has just begun has it.                                   *)
LEMMA EmitBegins ==
  ASSUME flavour \in {"standalone", "appended"}, body = <<>>, open = {},
         jumps = <<>>, calls = {}, uints = <<>>
  PROVE  EmitInv
<1>1. body \in Seq(Byte) /\ DOMAIN jumps = {} /\ DOMAIN uints = {}
  OBVIOUS
<1>2. Handles = {}
  BY <1>1 DEF Handles
<1> QED
  BY <1>1, <1>2 DEF EmitInv, JumpsInv, CallsInv, UintsInv

------------------------------------------------------------------------------
(* What is true of a program and the link it goes into.                    *)

(* What the compiler delivers to the programs emitted here, and the bodies *)
(* linked to a program.                                                    *)
EmitSound ==
  /\ \A b \in EmptyBases : Compiled(b) /\ Whole(b)
  /\ \A b \in Bodies : Emitted(b)

(* A finished program, with its header.                                    *)
Wrapped == [i \in 1 .. HEADER |-> 0] \o body \o <<HALT>>

(* What a program was turned into is what was emitted, and the link has    *)
(* taken nothing else.                                                     *)
OutInv ==
  /\ out.kind \in {"idle", "building", "panic", "binary", "base", "body"}
  /\ out.kind \in {"building", "panic", "binary"} =>
       DOMAIN placed = {} /\ rewritten = {} /\ DOMAIN patched = {}
  /\ out.kind \in {"binary", "base"} =>
       flavour = "standalone" /\ out = [kind |-> out.kind, bytes |-> Wrapped]
  /\ out.kind = "base" =>
       base = [bytes |-> Wrapped, stubs |-> <<>>,
               calls |-> {Emit!absolute_call_site(c) : c \in calls}]
  /\ out.kind = "body" =>
       /\ flavour = "appended"
       /\ out = [kind |-> "body", bytes |-> body, patches |-> DOMAIN jumps]
       /\ \A s \in DOMAIN placed : placed[s].body = out

(* A link of other inputs than programs is covered when those are sound.   *)
Covered == InputsSound \/ out.kind # "idle"

(* The inductive invariant.                                                *)
EmitLinkInv ==
  /\ EmitInv /\ OutInv
  /\ Covered => LinkInv /\ (out.kind # "base" => Whole(base))

(* The bytes of a finished program are where the header moves them.        *)
LEMMA WrappedBytes ==
  ASSUME EmitInv
  PROVE  /\ Wrapped \in Seq(Byte) /\ Len(Wrapped) = HEADER + Len(body) + 1
         /\ Wrapped[1] = 0
         /\ \A i \in 1 .. Len(body) : Wrapped[HEADER + i] = body[i]
<1> DEFINE front == [i \in 1 .. HEADER |-> 0]
           halt == <<HALT>>
           c == front \o body
           n == Len(body)
<1>1. body \in Seq(Byte) /\ n \in Nat /\ HEADER \in Nat /\ HEADER >= 3
  BY EmitterAssumption, LenProperties DEF EmitInv
<1>2. front \in Seq(Byte) /\ Len(front) = HEADER /\ front[1] = 0
  <2>1. front \in [1 .. HEADER -> Byte] /\ front[1] = 0
    BY <1>1, ByteSize
  <2> HIDE DEF front
  <2> QED
    BY <1>1, <2>1, FunIsSeq
<1>3. halt \in Seq(Byte) /\ Len(halt) = 1
  BY EmitterAssumption
<1>4. Wrapped = c \o halt
  BY DEF Wrapped
<1> HIDE DEF front, halt
<1>5. /\ c \in Seq(Byte) /\ Len(c) = Len(front) + n
      /\ \A i \in 1 .. Len(front) + n :
           c[i] = IF i <= Len(front) THEN front[i] ELSE body[i - Len(front)]
  BY <1>1, <1>2, ConcatProperties
<1> HIDE DEF c, n
<1>6. /\ c \o halt \in Seq(Byte) /\ Len(c \o halt) = Len(c) + Len(halt)
      /\ \A i \in 1 .. Len(c) + Len(halt) :
           (c \o halt)[i] = IF i <= Len(c) THEN c[i] ELSE halt[i - Len(c)]
  <2>1. c \in Seq(Byte) /\ halt \in Seq(Byte)
    BY <1>3, <1>5
  <2> QED
    BY <2>1, ConcatProperties
<1> DEFINE w == c \o halt
<1> HIDE DEF w
<1>7. /\ w \in Seq(Byte) /\ Len(w) = HEADER + n + 1
      /\ \A i \in 1 .. HEADER + n : w[i] = c[i]
  <2>1. Len(c) = HEADER + n /\ Len(halt) = 1
    BY <1>2, <1>3, <1>5
  <2>2. \A i \in 1 .. HEADER + n : i \in 1 .. HEADER + n + 1 /\ i <= HEADER + n
    BY <1>1
  <2> QED
    BY <1>6, <2>1, <2>2 DEF w
<1>8. w[1] = 0
  <2>1. 1 \in 1 .. HEADER + n /\ 1 <= HEADER
    BY <1>1
  <2> QED
    BY <1>2, <1>5, <1>7, <2>1
<1>9. ASSUME NEW i \in 1 .. n PROVE w[HEADER + i] = body[i]
  <2>1. /\ HEADER + i \in 1 .. HEADER + n /\ ~(HEADER + i <= HEADER)
        /\ (HEADER + i) - HEADER = i
    BY <1>1
  <2> QED
    BY <1>2, <1>5, <1>7, <2>1
<1> QED
  BY <1>4, <1>7, <1>8, <1>9 DEF w, n

(* A body handed over is one the linker can place.                         *)
LEMMA HandedOver ==
  ASSUME EmitInv, OutInv, out.kind = "body"
  PROVE  Emitted(out) /\ out.bytes = body /\ out.patches = DOMAIN jumps
<1>1. out = [kind |-> "body", bytes |-> body, patches |-> DOMAIN jumps]
  BY DEF OutInv
<1>2. body \in Seq(Byte)
  BY DEF EmitInv
<1>3. DOMAIN jumps \subseteq Handles
  BY DEF Handles
<1>4. \A h \in DOMAIN jumps : h \in Nat /\ h + 2 <= Len(body) /\ h + 1 \notin DOMAIN jumps
  BY <1>3 DEF EmitInv, JumpsInv
<1>5. out.bytes = body /\ out.patches = DOMAIN jumps
  BY <1>1
<1> QED
  BY <1>2, <1>4, <1>5 DEF Emitted

(* A finished program is a base as good as a compiled one.                 *)
LEMMA WrappedCompiled ==
  ASSUME EmitInv,
         NEW b, b = [bytes |-> Wrapped, stubs |-> <<>>,
                     calls |-> {Emit!absolute_call_site(c) : c \in calls}]
  PROVE  Compiled(b)
<1> DEFINE w == Wrapped
           n == Len(body)
<1>1. /\ w \in Seq(Byte) /\ Len(w) = HEADER + n + 1 /\ w[1] = 0
      /\ n \in Nat /\ HEADER \in Nat /\ HEADER >= 3
  BY WrappedBytes, EmitterAssumption, LenProperties DEF EmitInv
<1>2. b.bytes = w /\ DOMAIN b.stubs = {}
      /\ b.calls = {c - 2 + HEADER : c \in calls}
  BY DEF Emit!absolute_call_site
<1> HIDE DEF w, n
<1>3. ~PoolActive(w)
  BY <1>1 DEF PoolActive
<1>4. Fixed(w) = 0 .. 2
  BY <1>3 DEF Fixed
<1>5. Fixed(w) \subseteq 0 .. Len(w) - 1
  BY <1>1, <1>4
<1>6. \A c \in calls :
        /\ c \in Nat /\ c >= 2 /\ c + 2 <= n
        /\ \A d \in calls \ {c} : d + 4 <= c \/ c + 4 <= d
  BY DEF EmitInv, CallsInv, n
<1>7. ASSUME NEW a \in b.calls
      PROVE  /\ a \in Nat /\ a + 4 <= Len(w) /\ Target(a) \cap Fixed(w) = {}
             /\ \A d \in b.calls \ {a} : Target(a) \cap Target(d) = {}
  <2>1. PICK c \in calls : a = c - 2 + HEADER
    BY <1>2
  <2>2. c \in Nat /\ c >= 2 /\ c + 2 <= n
    BY <1>6
  <2>3. a \in Nat /\ a + 4 <= Len(w)
    BY <1>1, <2>1, <2>2
  <2>4. Target(a) \cap Fixed(w) = {}
    BY <1>1, <1>4, <2>1, <2>2 DEF Target
  <2>5. \A d \in b.calls \ {a} : Target(a) \cap Target(d) = {}
    <3>1. TAKE d \in b.calls \ {a}
    <3>2. PICK e \in calls : d = e - 2 + HEADER
      BY <1>2
    <3>3. e # c
      BY <2>1, <3>2
    <3>4. e \in Nat /\ (e + 4 <= c \/ c + 4 <= e)
      BY <1>6, <3>3
    <3> QED
      BY <1>1, <2>1, <2>2, <3>2, <3>4 DEF Target
  <2> QED
    BY <2>3, <2>4, <2>5
<1> QED
  BY <1>1, <1>2, <1>5, <1>7 DEF Compiled

(* The invariant holds when emitting, or linking, begins.                  *)
LEMMA EmitLinkBegins == ASSUME EmitSound, EmitLinkInit PROVE EmitLinkInv
<1>1. /\ base \in Bases /\ DOMAIN placed = {} /\ rewritten = {} /\ DOMAIN patched = {}
      /\ Init
  BY DEF EmitLinkInit, Init
<1>2. CASE /\ flavour = "appended" /\ body = <<>> /\ open = {} /\ jumps = <<>>
           /\ calls = {} /\ uints = <<>> /\ out = [kind |-> "idle"]
  <2>1. EmitInv
    BY <1>2, EmitBegins
  <2>2. out.kind = "idle"
    BY <1>2
  <2>3. OutInv
    BY <2>2 DEF OutInv
  <2>4. ASSUME InputsSound PROVE LinkInv /\ Whole(base)
    BY <1>1, <2>4, InitLink DEF InputsSound
  <2> QED
    BY <2>1, <2>2, <2>3, <2>4 DEF EmitLinkInv, Covered
<1>3. CASE base \in EmptyBases /\ Emit!Init
  <2>1. EmitInv
    BY <1>3, EmitBegins DEF Emit!Init
  <2>2. out.kind = "building"
    BY <1>3 DEF Emit!Init
  <2>3. OutInv
    BY <1>1, <2>2 DEF OutInv
  <2>4. LinkInv /\ Whole(base)
    BY <1>1, <1>3, InitLink DEF EmitSound
  <2> QED
    BY <2>1, <2>3, <2>4 DEF EmitLinkInv
<1> QED
  BY <1>2, <1>3 DEF EmitLinkInit

(* What emitting makes of a program.                                       *)
LEMMA Outcomes ==
  ASSUME Emit!Next
  PROVE  /\ out.kind = "building"
         /\ \/ out' = out
            \/ out' = [kind |-> "panic"]
            \/ /\ flavour = "standalone" /\ flavour' = flavour /\ body' = body
               /\ out' = [kind |-> "binary", bytes |-> Wrapped]
            \/ /\ flavour = "appended" /\ flavour' = flavour /\ body' = body
               /\ jumps' = jumps
               /\ out' = [kind |-> "body", bytes |-> body, patches |-> DOMAIN jumps]
<1>1. ASSUME NEW bytes \in Straight, Emit!instruction(bytes)
      PROVE  out.kind = "building" /\ out' = out
  BY <1>1 DEF Emit!instruction, Emit!Room, Emit!Building
<1>2. ASSUME NEW v \in Uints, Emit!push_uint(v)
      PROVE  out.kind = "building" /\ out' = out
  BY <1>2 DEF Emit!push_uint, Emit!Room, Emit!Building
<1>3. ASSUME NEW op \in {JUMP, JUMP_IF}, Emit!placeholder(op)
      PROVE  out.kind = "building" /\ out' = out
  BY <1>3 DEF Emit!placeholder, Emit!Room, Emit!Building
<1>4. ASSUME NEW h \in open, Emit!patch_jump_to_here(h)
      PROVE  out.kind = "building" /\ (out' = out \/ out' = [kind |-> "panic"])
  BY <1>4 DEF Emit!patch_jump_to_here, Emit!Building
<1>5. ASSUME NEW p \in 0 .. Len(body), Emit!emit_jump_to(p)
      PROVE  out.kind = "building" /\ out' = out
  BY <1>5 DEF Emit!emit_jump_to, Emit!Room, Emit!Building
<1>6. ASSUME Emit!emit_call_placeholder
      PROVE  out.kind = "building" /\ out' = out
  BY <1>6 DEF Emit!emit_call_placeholder, Emit!Room, Emit!Building
<1>7. ASSUME Emit!finish_with_halt
      PROVE  /\ out.kind = "building"
             /\ flavour = "standalone" /\ flavour' = flavour /\ body' = body
             /\ out' = [kind |-> "binary", bytes |-> Wrapped]
  BY <1>7 DEF Emit!finish_with_halt, Emit!Building, Wrapped
<1>8. ASSUME Emit!into_body_with_jumps
      PROVE  /\ out.kind = "building"
             /\ flavour = "appended" /\ flavour' = flavour /\ body' = body
             /\ jumps' = jumps
             /\ out' = [kind |-> "body", bytes |-> body, patches |-> DOMAIN jumps]
  BY <1>8 DEF Emit!into_body_with_jumps, Emit!Building
<1> QED
  BY <1>1, <1>2, <1>3, <1>4, <1>5, <1>6, <1>7, <1>8 DEF Emit!Next

(* Emitting keeps it.                                                      *)
LEMMA ProgramStep ==
  ASSUME EmitLinkInv, Emit!Next, UNCHANGED vars
  PROVE  EmitLinkInv'
<1>1. EmitInv'
  BY EmitNext DEF EmitLinkInv
<1>2. out.kind = "building"
  BY Outcomes
<1>3. /\ LinkInv /\ Whole(base)
      /\ DOMAIN placed = {} /\ rewritten = {} /\ DOMAIN patched = {}
  BY <1>2 DEF EmitLinkInv, Covered, OutInv
<1>4. base' = base /\ UNCHANGED <<base, binary, placed, rewritten, patched>>
  BY DEF vars
<1>5. LinkInv' /\ Whole(base)'
  BY <1>3, <1>4, IdleStep DEF Whole
<1>6. DOMAIN placed' = {} /\ rewritten' = {} /\ DOMAIN patched' = {}
  BY <1>3, <1>4
<1>7. CASE out' = out
  BY <1>1, <1>2, <1>5, <1>6, <1>7 DEF EmitLinkInv, OutInv
<1>8. CASE out' = [kind |-> "panic"]
  <2>1. out'.kind = "panic"
    BY <1>8
  <2> QED
    BY <1>1, <1>5, <1>6, <2>1 DEF EmitLinkInv, OutInv
<1>9. CASE /\ flavour = "standalone" /\ flavour' = flavour /\ body' = body
           /\ out' = [kind |-> "binary", bytes |-> Wrapped]
  <2>1. out'.kind = "binary" /\ Wrapped' = Wrapped
    BY <1>9 DEF Wrapped
  <2> QED
    BY <1>1, <1>5, <1>6, <1>9, <2>1 DEF EmitLinkInv, OutInv
<1>10. CASE /\ flavour = "appended" /\ flavour' = flavour /\ body' = body
            /\ jumps' = jumps
            /\ out' = [kind |-> "body", bytes |-> body, patches |-> DOMAIN jumps]
  <2>1. out'.kind = "body"
    BY <1>10
  <2> QED
    BY <1>1, <1>5, <1>6, <1>10, <2>1 DEF EmitLinkInv, OutInv
<1> QED
  BY <1>7, <1>8, <1>9, <1>10, Outcomes

(* Taking a finished program as the base of a link begins one.             *)
LEMMA FromBaseStep ==
  ASSUME EmitLinkInv, from_base
  PROVE  EmitLinkInv'
<1>1. /\ EmitInv /\ out.kind = "binary"
      /\ UNCHANGED <<flavour, body, open, jumps, calls, uints>>
      /\ UNCHANGED <<placed, rewritten, patched>>
  BY DEF EmitLinkInv, from_base
<1>2. /\ DOMAIN placed = {} /\ rewritten = {} /\ DOMAIN patched = {}
      /\ flavour = "standalone" /\ out = [kind |-> "binary", bytes |-> Wrapped]
  BY <1>1 DEF EmitLinkInv, OutInv
<1>3. EmitInv' /\ Wrapped' = Wrapped
  BY <1>1, EndStep DEF Wrapped
<1>4. /\ base' = [bytes |-> Wrapped, stubs |-> <<>>,
                  calls |-> {Emit!absolute_call_site(c) : c \in calls}]
      /\ binary' = Wrapped /\ out' = [kind |-> "base", bytes |-> Wrapped]
  BY <1>2 DEF from_base
<1>5. Compiled(base)'
  <2>1. Compiled(base')
    BY <1>1, <1>4, WrappedCompiled
  <2> QED
    BY <2>1
<1>6. /\ DOMAIN placed' = {} /\ rewritten' = {} /\ DOMAIN patched' = {}
      /\ base'.bytes = Wrapped /\ binary' = base'.bytes
  BY <1>1, <1>2, <1>4
<1>7. binary' \in Seq(Byte) /\ Len(base'.bytes) <= Len(binary')
  <2>1. Wrapped \in Seq(Byte)
    BY <1>1, WrappedBytes
  <2>2. Len(Wrapped) \in Nat
    BY <2>1, LenProperties
  <2> QED
    BY <1>6, <2>1, <2>2
<1>8. LinkInv'
  BY <1>5, <1>6, <1>7 DEF LinkInv, PlacedInv, FrameInv, TransferInv
<1>9. OutInv'
  <2>1. out'.kind = "base" /\ flavour' = "standalone"
    BY <1>1, <1>2, <1>4
  <2>2. {Emit!absolute_call_site(c) : c \in calls'}
          = {Emit!absolute_call_site(c) : c \in calls}
    BY <1>1
  <2>3. base' = [bytes |-> Wrapped', stubs |-> <<>>,
                 calls |-> {Emit!absolute_call_site(c) : c \in calls'}]
    BY <1>1, <1>3, <1>4
  <2>4. out' = [kind |-> out'.kind, bytes |-> Wrapped']
    BY <1>3, <1>4, <2>1
  <2> QED
    BY <2>1, <2>3, <2>4 DEF OutInv
<1>10. out'.kind = "base"
  BY <1>4
<1> QED
  BY <1>3, <1>8, <1>9, <1>10 DEF EmitLinkInv

(* A step of a link that leaves program and base alone.                    *)
LEMMA LinkStep ==
  ASSUME EmitLinkInv, LinkInv', base' = base, UNCHANGED emitter,
         out.kind \in {"base", "body"},
         out.kind = "body" => \A s \in DOMAIN placed' : placed'[s].body = out
  PROVE  EmitLinkInv'
<1>1. /\ EmitInv /\ OutInv
      /\ UNCHANGED <<flavour, body, open, jumps, calls, uints>> /\ out' = out
  BY DEF EmitLinkInv, emitter
<1>2. EmitInv'
  BY <1>1, EndStep
<1>3. Wrapped' = Wrapped
  BY <1>1 DEF Wrapped
<1>4. {Emit!absolute_call_site(c) : c \in calls'} = {Emit!absolute_call_site(c) : c \in calls}
  BY <1>1
<1>5. OutInv'
  BY <1>1, <1>3, <1>4 DEF OutInv
<1>6. out.kind # "base" => Whole(base)'
  BY DEF EmitLinkInv, Covered, Whole
<1> QED
  BY <1>1, <1>2, <1>5, <1>6 DEF EmitLinkInv

(* A link of other inputs keeps it.                                        *)
LEMMA IdleLinkStep ==
  ASSUME EmitLinkInv, Idle, Next, UNCHANGED emitter
  PROVE  EmitLinkInv'
<1>1. EmitInv /\ out.kind = "idle" /\ out'.kind = "idle"
      /\ UNCHANGED <<flavour, body, open, jumps, calls, uints>>
  BY DEF EmitLinkInv, Idle, emitter
<1>2. EmitInv' /\ OutInv'
  <2>1. EmitInv'
    BY <1>1, EndStep
  <2>2. OutInv'
    BY <1>1 DEF OutInv
  <2> QED
    BY <2>1, <2>2
<1>3. ASSUME InputsSound PROVE LinkInv' /\ Whole(base)'
  <2>1. LinkInv /\ Whole(base)
    BY <1>1, <1>3 DEF EmitLinkInv, Covered
  <2> QED
    BY <1>3, <2>1, NextLink
<1> QED
  BY <1>1, <1>2, <1>3 DEF EmitLinkInv, Covered

(* Linking bodies to an emitted program keeps it.                          *)
LEMMA BaseLinkStep ==
  ASSUME EmitSound, EmitLinkInv, out.kind = "base", UNCHANGED emitter,
         \/ \E s \in Sentinels, b \in Bodies : append_function(s, b)
         \/ \E site \in base.calls, s \in Sentinels : patch_call_target(site, s)
  PROVE  EmitLinkInv'
<1>1. LinkInv
  BY DEF EmitLinkInv, Covered
<1>2. ASSUME NEW s \in Sentinels, NEW b \in Bodies, append_function(s, b)
      PROVE  LinkInv' /\ base' = base
  BY <1>1, <1>2, AppendStep DEF EmitSound, append_function
<1>3. ASSUME NEW site \in base.calls, NEW s \in Sentinels, patch_call_target(site, s)
      PROVE  LinkInv' /\ base' = base
  BY <1>1, <1>3, PatchStep DEF patch_call_target
<1>4. LinkInv' /\ base' = base
  BY <1>2, <1>3
<1> QED
  BY <1>4, LinkStep

(* Linking an emitted body to a compiled binary keeps it.                  *)
LEMMA BodyLinkStep ==
  ASSUME EmitLinkInv, out.kind = "body", UNCHANGED emitter,
         \/ \E s \in Sentinels : append_function(s, out) \/ rewrite_stub(s)
         \/ into_bytes
  PROVE  EmitLinkInv'
<1>1. LinkInv /\ Whole(base) /\ Emitted(out) /\ \A s \in DOMAIN placed : placed[s].body = out
  BY HandedOver DEF EmitLinkInv, Covered, OutInv
<1>2. ASSUME NEW s \in Sentinels, append_function(s, out)
      PROVE  /\ LinkInv' /\ base' = base
             /\ \A t \in DOMAIN placed' : placed'[t].body = out
  <2>1. LinkInv'
    <3> DEFINE b == out
    <3>1. Emitted(b) /\ append_function(s, b)
      BY <1>1, <1>2
    <3> HIDE DEF b
    <3> QED
      BY <1>1, <3>1, AppendStep
  <2>2. \/ placed' = placed
        \/ placed' = [t \in DOMAIN placed \union {s} |->
                        IF t = s THEN [offset |-> Len(binary), body |-> out]
                        ELSE placed[t]]
    BY <1>2 DEF append_function
  <2>3. \A t \in DOMAIN placed' : placed'[t].body = out
    BY <1>1, <2>2
  <2> QED
    BY <1>2, <2>1, <2>3 DEF append_function
<1>3. ASSUME NEW s \in Sentinels, rewrite_stub(s)
      PROVE  LinkInv' /\ base' = base /\ placed' = placed
  <2>1. s \in DOMAIN base.stubs
    BY <1>1 DEF Whole
  <2> QED
    BY <1>1, <1>3, <2>1, RewriteStep DEF rewrite_stub
<1>4. ASSUME into_bytes PROVE LinkInv' /\ base' = base /\ placed' = placed
  <2>1. UNCHANGED <<base, binary, placed, rewritten, patched>>
    BY <1>4 DEF into_bytes
  <2> QED
    BY <1>1, <2>1, IdleStep
<1>5. /\ LinkInv' /\ base' = base
      /\ \A t \in DOMAIN placed' : placed'[t].body = out
  BY <1>1, <1>2, <1>3, <1>4
<1> QED
  BY <1>5, LinkStep

(* The invariant holds throughout.                                         *)
THEOREM EmitLinkInvariant == ASSUME EmitSound PROVE EmitLinkSpec => []EmitLinkInv
<1>1. EmitLinkInit => EmitLinkInv
  BY EmitLinkBegins
<1>2. EmitLinkInv /\ [EmitLinkNext]_<<vars, emitter>> => EmitLinkInv'
  <2> SUFFICES ASSUME EmitLinkInv, [EmitLinkNext]_<<vars, emitter>>
               PROVE  EmitLinkInv'
    OBVIOUS
  <2>1. CASE Emit!Next /\ UNCHANGED vars
    BY <2>1, ProgramStep
  <2>2. CASE from_base
    BY <2>2, FromBaseStep
  <2>3. CASE Idle /\ Next /\ UNCHANGED emitter
    BY <2>3, IdleLinkStep
  <2>4. CASE /\ out.kind = "base"
             /\ \/ \E s \in Sentinels, b \in Bodies : append_function(s, b)
                \/ \E site \in base.calls, s \in Sentinels : patch_call_target(site, s)
             /\ UNCHANGED emitter
    BY <2>4, BaseLinkStep
  <2>5. CASE /\ out.kind = "body"
             /\ \/ \E s \in Sentinels : append_function(s, out) \/ rewrite_stub(s)
                \/ into_bytes
             /\ UNCHANGED emitter
    BY <2>5, BodyLinkStep
  <2>6. CASE UNCHANGED <<vars, emitter>>
    <3>1. UNCHANGED <<flavour, body, open, jumps, calls, uints>> /\ out' = out
      BY <2>6 DEF emitter
    <3>2. base' = base /\ placed' = placed /\ rewritten' = rewritten
          /\ patched' = patched /\ binary' = binary
      BY <2>6 DEF vars
    <3>3. EmitInv'
      BY <3>1, EndStep DEF EmitLinkInv
    <3>4. Wrapped' = Wrapped
      BY <3>1 DEF Wrapped
    <3>5. {Emit!absolute_call_site(c) : c \in calls'}
            = {Emit!absolute_call_site(c) : c \in calls}
      BY <3>1
    <3>6. OutInv'
      BY <3>1, <3>2, <3>4, <3>5 DEF EmitLinkInv, OutInv
    <3>7. LinkInv => LinkInv'
      BY <3>2, IdleStep
    <3> QED
      BY <3>1, <3>2, <3>3, <3>6, <3>7 DEF EmitLinkInv, Covered, Whole
  <2> QED
    BY <2>1, <2>2, <2>3, <2>4, <2>5, <2>6 DEF EmitLinkNext
<1> QED
  BY <1>1, <1>2, PTL DEF EmitLinkSpec

------------------------------------------------------------------------------
(* What it is for.                                                         *)

(* In a finished program jumps land where they were meant to.              *)
LEMMA WrappedLands == ASSUME EmitInv, flavour = "standalone" PROVE Lands(Wrapped, HEADER)
<1>1. SUFFICES ASSUME NEW h \in DOMAIN jumps
               PROVE  Address(Wrapped, HEADER + h) = HEADER + jumps[h]
  BY DEF Lands
<1>2. HEADER \in Nat /\ Len(body) \in Nat
  BY EmitterAssumption, LenProperties DEF EmitInv
<1>3. h \in Nat /\ h + 2 <= Len(body)
  <2>1. h \in Handles
    BY DEF Handles
  <2> QED
    BY <2>1 DEF EmitInv, JumpsInv
<1>4. jumps[h] \in Nat /\ Address(body, h) = jumps[h] + HEADER
  BY DEF EmitInv, JumpsInv, Emit!Origin
<1>5. /\ h + 1 \in 1 .. Len(body) /\ h + 2 \in 1 .. Len(body)
      /\ HEADER + h + 1 = HEADER + (h + 1) /\ HEADER + h + 2 = HEADER + (h + 2)
  BY <1>2, <1>3
<1>6. Wrapped[HEADER + h + 1] = body[h + 1] /\ Wrapped[HEADER + h + 2] = body[h + 2]
  BY <1>5, WrappedBytes
<1>7. Address(Wrapped, HEADER + h) = Address(body, h)
  BY <1>6 DEF Address
<1> QED
  BY <1>2, <1>4, <1>7

(* Linking changes the targets of calls, and they are neither jumps nor    *)
(* the opcodes of calls.                                                   *)
LEMMA BaseLands ==
  ASSUME EmitInv, OutInv, LinkInv, out.kind = "base"
  PROVE  Lands(binary, HEADER) /\ \A site \in base.calls : binary[site + 1] = CALL
<1> DEFINE n == Len(body)
           w == Wrapped
<1>1. /\ flavour = "standalone"
      /\ base = [bytes |-> w, stubs |-> <<>>,
                 calls |-> {Emit!absolute_call_site(c) : c \in calls}]
  BY DEF OutInv
<1>2. /\ base.bytes = w /\ DOMAIN base.stubs = {}
      /\ base.calls = {c - 2 + HEADER : c \in calls}
  BY <1>1 DEF Emit!absolute_call_site
<1>3. /\ Len(w) = HEADER + n + 1 /\ HEADER \in Nat /\ n \in Nat
      /\ \A i \in 1 .. n : w[HEADER + i] = body[i]
  BY WrappedBytes, EmitterAssumption, LenProperties DEF EmitInv
<1>4. Lands(w, HEADER)
  BY <1>1, WrappedLands
<1>5. \A c \in calls :
        /\ c \in Nat /\ c >= 2 /\ c + 2 <= n /\ body[c - 1] = CALL
        /\ \A h \in Handles : h + 2 <= c - 2 \/ c + 2 <= h
        /\ \A d \in calls \ {c} : d + 4 <= c \/ c + 4 <= d
  BY DEF EmitInv, CallsInv
<1>6. \A h \in DOMAIN jumps : h \in Handles /\ h \in Nat /\ h + 2 <= n
  BY DEF EmitInv, JumpsInv, Handles
<1> HIDE DEF n, w
<1>7. ASSUME NEW q \in 0 .. n - 1, \A d \in calls : q # d /\ q # d + 1
      PROVE  binary[HEADER + q + 1] = w[HEADER + q + 1]
  <2> DEFINE p == HEADER + q
  <2>1. rewritten = {}
    BY <1>2 DEF LinkInv
  <2>2. p \notin Touched
    <3>1. SUFFICES ASSUME p \in Touched PROVE FALSE
      OBVIOUS
    <3>2. PICK c \in DOMAIN patched : p \in {c + 2, c + 3}
      BY <2>1, <3>1 DEF Touched
    <3>3. c \in base.calls
      BY DEF LinkInv
    <3>4. PICK d \in calls : c = d - 2 + HEADER
      BY <1>2, <3>3
    <3>5. d \in Nat
      BY <1>5
    <3> QED
      BY <1>3, <1>7, <3>2, <3>4, <3>5
  <2>3. p \in 0 .. Len(w) - 1
    BY <1>3
  <2> QED
    BY <1>2, <2>2, <2>3 DEF LinkInv, FrameInv
<1>8. ASSUME NEW h \in DOMAIN jumps
      PROVE  Address(binary, HEADER + h) = HEADER + jumps[h]
  <2>1. h \in Handles /\ h \in Nat /\ h + 2 <= n
    BY <1>6
  <2>2. \A d \in calls : d \in Nat /\ (h + 2 <= d - 2 \/ d + 2 <= h)
    BY <1>5, <2>1
  <2>3. h \in 0 .. n - 1 /\ h + 1 \in 0 .. n - 1
    BY <1>3, <2>1
  <2>4. /\ \A d \in calls : h # d /\ h # d + 1
        /\ \A d \in calls : h + 1 # d /\ h + 1 # d + 1
    <3>1. ASSUME NEW d \in calls
          PROVE  h # d /\ h # d + 1 /\ h + 1 # d /\ h + 1 # d + 1
      <4>1. d \in Nat /\ h \in Nat /\ (h + 2 <= d - 2 \/ d + 2 <= h)
        BY <2>1, <2>2
      <4> QED
        BY <4>1
    <3> QED
      BY <3>1
  <2>5. binary[HEADER + h + 1] = w[HEADER + h + 1]
    BY <1>7, <2>3, <2>4
  <2>6. binary[HEADER + (h + 1) + 1] = w[HEADER + (h + 1) + 1]
    BY <1>7, <2>3, <2>4
  <2>7. HEADER + (h + 1) + 1 = HEADER + h + 2
    BY <1>3, <2>1
  <2>8. Address(binary, HEADER + h) = Address(w, HEADER + h)
    BY <2>5, <2>6, <2>7 DEF Address
  <2> QED
    BY <1>4, <2>8 DEF Lands
<1>9. ASSUME NEW site \in base.calls PROVE binary[site + 1] = CALL
  <2>1. PICK c \in calls : site = c - 2 + HEADER
    BY <1>2
  <2>2. c \in Nat /\ c >= 2 /\ c + 2 <= n /\ body[c - 1] = CALL
    BY <1>5
  <2>3. \A d \in calls : d \in Nat /\ (d = c \/ d + 4 <= c \/ c + 4 <= d)
    BY <1>5
  <2>4. c - 2 \in 0 .. n - 1 /\ \A d \in calls : c - 2 # d /\ c - 2 # d + 1
    BY <1>3, <2>2, <2>3
  <2>5. binary[HEADER + (c - 2) + 1] = w[HEADER + (c - 2) + 1]
    BY <1>7, <2>4
  <2>6. HEADER + (c - 2) + 1 = HEADER + (c - 1) /\ site + 1 = HEADER + (c - 1)
        /\ c - 1 \in 1 .. n
    BY <1>3, <2>1, <2>2
  <2> QED
    BY <1>3, <2>2, <2>5, <2>6
<1> QED
  BY <1>8, <1>9 DEF Lands

(* In a body the linker has placed jumps land where they were meant to.    *)
LEMMA BodyLands ==
  ASSUME EmitInv, OutInv, LinkInv, out.kind = "body", NEW s \in DOMAIN placed
  PROVE  Lands(binary, placed[s].offset)
<1> DEFINE off == placed[s].offset
<1>1. /\ flavour = "appended" /\ placed[s].body = out
      /\ out.bytes = body /\ out.patches = DOMAIN jumps
  BY HandedOver DEF OutInv
<1>2. off \in Nat
  BY DEF LinkInv, PlacedInv
<1>3. BodiesIntact
  BY BodiesStay
<1>4. SUFFICES ASSUME NEW h \in DOMAIN jumps
               PROVE  Address(binary, off + h) = off + jumps[h]
  BY DEF Lands
<1>5. h \in Nat /\ h + 2 <= Len(body)
  <2>1. h \in Handles
    BY DEF Handles
  <2> QED
    BY <2>1 DEF EmitInv, JumpsInv
<1>6. jumps[h] \in Nat /\ Address(body, h) = jumps[h]
  <2>1. Emit!Origin = 0
    BY <1>1 DEF Emit!Origin
  <2> QED
    BY <2>1 DEF EmitInv, JumpsInv
<1> DEFINE i == h + 1
<1>7. i \in 1 .. Len(body) /\ i - 1 = h /\ i \in h + 1 .. h + 2 /\ off + i - 1 = off + h
  <2>1. Len(body) \in Nat
    BY LenProperties DEF EmitInv
  <2> HIDE DEF off
  <2> QED
    BY <1>2, <1>5, <2>1
<1> HIDE DEF i
<1>8. \E rel \in out.patches : i \in rel + 1 .. rel + 2
  BY <1>1, <1>7
<1>9. i - 1 \in out.patches
  BY <1>1, <1>7
<1>10. Address(binary, off + i - 1) = off + Address(body, i - 1)
  BY <1>1, <1>3, <1>7, <1>8, <1>9 DEF BodiesIntact
<1> QED
  BY <1>6, <1>7, <1>10

(* Every jump of an emitted program, forward or back, in a standalone      *)
(* binary before and after functions are linked to it and in every copy of *)
(* a body the linker places, lands where it was meant to, and every call   *)
(* site is a call: no patch, relocation or rewrite disturbs another.       *)
THEOREM JumpsLanding == ASSUME EmitSound PROVE EmitLinkSpec => []JumpsLand
<1>1. EmitLinkInv => JumpsLand
  <2> SUFFICES ASSUME EmitLinkInv PROVE JumpsLand
    OBVIOUS
  <2>1. EmitInv /\ OutInv
    BY DEF EmitLinkInv
  <2>2. ASSUME out.kind = "binary" PROVE Lands(out.bytes, HEADER)
    <3>1. flavour = "standalone" /\ out = [kind |-> "binary", bytes |-> Wrapped]
      BY <2>1, <2>2 DEF OutInv
    <3>2. out.bytes = Wrapped
      BY <3>1
    <3> QED
      BY <2>1, <3>1, <3>2, WrappedLands
  <2>3. ASSUME out.kind = "base"
        PROVE  Lands(binary, HEADER) /\ \A site \in base.calls : binary[site + 1] = CALL
    <3>1. LinkInv
      BY <2>3 DEF EmitLinkInv, Covered
    <3> QED
      BY <2>1, <2>3, <3>1, BaseLands
  <2>4. ASSUME out.kind = "body", NEW s \in DOMAIN placed
        PROVE  Lands(binary, placed[s].offset)
    <3>1. LinkInv
      BY <2>4 DEF EmitLinkInv, Covered
    <3> QED
      BY <2>1, <2>4, <3>1, BodyLands
  <2> QED
    BY <2>2, <2>3, <2>4 DEF JumpsLand
<1> QED
  BY <1>1, EmitLinkInvariant, PTL

(* A constant composed of nibbles pushes the value asked for, whatever is  *)
(* emitted and patched around it.                                          *)
THEOREM ConstantsRight == ASSUME EmitSound PROVE EmitLinkSpec => []ConstantsExact
<1>1. EmitLinkInv => ConstantsExact
  <2> SUFFICES ASSUME EmitLinkInv, NEW p \in DOMAIN uints
               PROVE  Emit!After(SubSeq(body, p + 1, uints[p].end)) = <<uints[p].value>>
    BY DEF ConstantsExact, Emit!ConstantsExact
  <2> DEFINE v == uints[p].value
             e == uints[p].end
             c == Emit!emit_push_uint(v)
             l == Len(c)
             sub == SubSeq(body, p + 1, e)
  <2>1. /\ body \in Seq(Byte)
        /\ v \in Uints /\ p \in Nat /\ e = p + l /\ e <= Len(body)
        /\ \A i \in 1 .. l : body[p + i] = c[i]
    BY DEF EmitLinkInv, EmitInv, UintsInv
  <2>2. v \in Nat /\ IsCode(c, v)
    BY <2>1, CodeIs
  <2>3. c \in Seq(Byte) /\ l \in Nat /\ Len(body) \in Nat
    BY <2>1, <2>2, LenProperties DEF IsCode
  <2> HIDE DEF v, e, c, l
  <2>4. sub \in Seq(Byte) /\ Len(sub) = l /\ \A i \in 1 .. l : sub[i] = body[p + i]
    <3>0. p \in Nat /\ l \in Nat /\ e = p + l
      BY <2>1, <2>3
    <3>1. /\ p + 1 \in Int /\ e \in Int
          /\ (~(p + 1 <= e) => l = 0) /\ e - (p + 1) + 1 = l
      BY <3>0
    <3>2. \A i \in p + 1 .. e : body[i] \in Byte
      <4>1. \A i \in p + 1 .. e : i \in 1 .. Len(body)
        BY <2>1, <2>3
      <4> QED
        BY <2>1, <4>1, ElementOfSeq
    <3>3. /\ sub \in Seq(Byte)
          /\ Len(sub) = IF p + 1 <= e THEN e - (p + 1) + 1 ELSE 0
          /\ \A i \in 1 .. e - (p + 1) + 1 : sub[i] = body[(p + 1) + i - 1]
      <4> DEFINE q == p + 1
      <4>1. q \in Int /\ e \in Int /\ \A i \in q .. e : body[i] \in Byte
        BY <3>1, <3>2
      <4> HIDE DEF q
      <4>2. /\ SubSeq(body, q, e) \in Seq(Byte)
            /\ Len(SubSeq(body, q, e)) = IF q <= e THEN e - q + 1 ELSE 0
            /\ \A i \in 1 .. e - q + 1 : SubSeq(body, q, e)[i] = body[q + i - 1]
        BY <4>1, SubSeqProperties
      <4> QED
        BY <4>2 DEF q
    <3> HIDE DEF sub
    <3>4. \A i \in 1 .. l : (p + 1) + i - 1 = p + i
      BY <2>1
    <3> QED
      BY <3>1, <3>3, <3>4
  <2> HIDE DEF sub
  <2>5. sub = c
    <3>1. Len(c) = l
      BY DEF l
    <3>2. \A i \in 1 .. l : sub[i] = c[i]
      BY <2>1, <2>4
    <3> QED
      BY <2>3, <2>4, <3>1, <3>2, SeqEqual
  <2>6. Emit!After(c) = <<v>>
    BY <2>2, CodeLeaves
  <2> QED
    BY <2>5, <2>6 DEF sub, v, e
<1> QED
  BY <1>1, EmitLinkInvariant, PTL

(* With sound inputs the promises of a link (LinkerProofs) hold for        *)
(* emitted programs as well.                                               *)
THEOREM LinkedPrograms ==
  ASSUME InputsSound, EmitSound
  PROVE  EmitLinkSpec => [](BaseKept /\ StubsEnterBodies /\ BodiesIntact)
<1>1. EmitLinkInv => BaseKept /\ StubsEnterBodies /\ BodiesIntact
  BY FrameIsKept, TransfersEnter, BodiesStay DEF EmitLinkInv, Covered
<1> QED
  BY <1>1, EmitLinkInvariant, PTL
=============================================================================
