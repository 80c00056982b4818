--------------------------- MODULE Packing_proofs ---------------------------
(***************************************************************************)
(* What decode makes of a message and of any beginning of one: the items   *)
(* that were encoded, in their order, or an exception.  Proved for any     *)
(* number of items of one (abstract) byte each, which is what the calls of *)
(* the library send in the model.                                          *)
(*                                                                         *)
(* encode and decode are recursive functions.  That they satisfy their     *)
(* recursion is proved by giving the functions, up to each argument, and   *)
(* what they compute by induction, both on sets of numbers.                *)
(***************************************************************************)
EXTENDS Packing, WellFoundedInduction, SequenceTheorems, TLAPS

----------------------------------------------------------------------------
(* Induction.                                                              *)

LessThan == {p \in Nat \X Nat : p[1] < p[2]}
LEMMA LessThanIsWellFounded == IsWellFoundedOn(LessThan, Nat)
<1>1. OpToRel(<, Nat) = LessThan
  BY DEF OpToRel, LessThan
<1>2. QED
  BY <1>1, NatLessThanWellFounded

\* A set with zero that is closed under successors.
LEMMA Upward ==
    ASSUME NEW S, 0 \in S, \A k \in Nat : k \in S => k + 1 \in S
    PROVE  \A k \in Nat : k \in S
<1> DEFINE T == Nat \ S
<1>1. SUFFICES ASSUME T # {} PROVE FALSE
  OBVIOUS
<1>2. PICK x \in T : \A y \in T : ~(<<y, x>> \in LessThan)
  BY <1>1, LessThanIsWellFounded, WFMin
<1>3. x # 0 /\ x - 1 \in Nat /\ x \in Nat
  OBVIOUS
<1>4. <<x - 1, x>> \in LessThan
  BY <1>3 DEF LessThan
<1>5. x - 1 \in S
  BY <1>2, <1>3, <1>4
<1>6. QED
  BY <1>3, <1>5

\* A set with n that is closed under predecessors.
LEMMA Downward ==
    ASSUME NEW n \in Nat, NEW K, n \in K, \A k \in 1..n : k \in K => k - 1 \in K
    PROVE  0 \in K
<1> DEFINE S == {k \in Nat : k <= n => n - k \in K}
<1>1. 0 \in S
  OBVIOUS
<1>2. ASSUME NEW k \in Nat, k \in S PROVE k + 1 \in S
  <2>1. CASE k + 1 <= n
    <3>1. n - k \in K /\ n - k \in 1..n
      BY <1>2, <2>1
    <3>2. n - (k + 1) = (n - k) - 1
      OBVIOUS
    <3>3. QED
      BY <3>1, <3>2
  <2>2. QED
    BY <2>1
<1>3. n \in S
  <2> HIDE DEF S
  <2>1. QED
    BY <1>1, <1>2, Upward
<1>4. QED
  BY <1>3

----------------------------------------------------------------------------
(* The recursion of decode.                                                *)

Read(buffer, from, o) ==
    IF o = Len(buffer) THEN [ok |-> TRUE, items |-> << >>]
    ELSE IF o + 5 > Len(buffer) THEN Throws
    ELSE IF SizeAt(buffer, o) > Len(buffer) - o + 5
                \/ SizeAt(buffer, o) \notin 0..(Len(buffer) - o - 5)
         THEN Throws
         ELSE [ok |-> from[o + 5 + SizeAt(buffer, o)].ok,
               items |-> <<ItemAt(buffer, o)>> \o from[o + 5 + SizeAt(buffer, o)].items]
Reads(buffer, from) == from = [o \in 0..Len(buffer) |-> Read(buffer, from, o)]

\* Reading looks ahead only.
LEMMA ReadsAhead ==
    ASSUME NEW buffer, Len(buffer) \in Nat, NEW o \in 0..Len(buffer), NEW f, NEW g,
           \A x \in (o + 1)..Len(buffer) : f[x] = g[x]
    PROVE  Read(buffer, f, o) = Read(buffer, g, o)
<1> DEFINE size == SizeAt(buffer, o)
           n == Len(buffer)
<1>1. CASE size \in 0..(n - o - 5)
  <2>1. o + 5 + size \in (o + 1)..n
    BY <1>1
  <2>2. f[o + 5 + size] = g[o + 5 + size]
    BY <2>1
  <2>3. QED
    BY <2>2, Zenon DEF Read
<1>2. CASE size \notin 0..(n - o - 5)
  BY <1>2, Zenon DEF Read
<1>3. QED
  BY <1>1, <1>2

\* There is a function that reads.
LEMMA Readable ==
    ASSUME NEW buffer, Len(buffer) \in Nat
    PROVE  \E f : Reads(buffer, f)
<1> DEFINE n == Len(buffer)
           K == {k \in 0..(n + 1) : \E f : f = [o \in k..n |-> Read(buffer, f, o)]}
<1>1. n + 1 \in K
  <2> DEFINE f == [o \in (n + 1)..n |-> Throws]
  <2>1. (n + 1)..n = {}
    OBVIOUS
  <2>2. f = [o \in (n + 1)..n |-> Read(buffer, f, o)]
    BY <2>1
  <2>3. \E g : g = [o \in (n + 1)..n |-> Read(buffer, g, o)]
    BY <2>2, Zenon
  <2>4. QED
    BY <2>3
<1>2. ASSUME NEW k \in 1..(n + 1), k \in K PROVE k - 1 \in K
  <2>1. PICK f : f = [o \in k..n |-> Read(buffer, f, o)]
    BY <1>2
  <2> DEFINE j == k - 1
             g == [o \in j..n |-> IF o = j THEN Read(buffer, f, j) ELSE f[o]]
  <2>2. ASSUME NEW o \in j..n PROVE g[o] = Read(buffer, g, o)
    <3>1. o \in 0..n /\ \A x \in (o + 1)..n : f[x] = g[x]
      OBVIOUS
    <3>2. Read(buffer, f, o) = Read(buffer, g, o)
      <4> HIDE DEF g
      <4>1. QED
        BY <3>1, ReadsAhead
    <3>3. g[o] = Read(buffer, f, o)
      <4>1. CASE o = j
        BY <4>1
      <4>2. CASE o # j
        <5>1. o \in k..n
          BY <4>2
        <5>2. f[o] = Read(buffer, f, o)
          BY <2>1, <5>1
        <5>3. QED
          BY <4>2, <5>2
      <4>3. QED
        BY <4>1, <4>2
    <3>4. QED
      BY <3>2, <3>3, Zenon
  <2>3. g = [o \in j..n |-> Read(buffer, g, o)]
    <3>1. g = [o \in j..n |-> g[o]]
      OBVIOUS
    <3> HIDE DEF g, j
    <3>2. QED
      BY <2>2, <3>1
  <2>4. \E h : h = [o \in j..n |-> Read(buffer, h, o)]
    BY <2>3, Zenon
  <2>5. QED
    BY <2>4
<1>3. 0 \in K
  <2> HIDE DEF K
  <2>1. n + 1 \in Nat
    OBVIOUS
  <2>2. QED
    BY <1>1, <1>2, <2>1, Downward
<1>4. QED
  BY <1>3, Zenon DEF Reads

\* decode is one.
LEMMA DecodeReads ==
    ASSUME NEW buffer, Len(buffer) \in Nat, Len(buffer) # 0
    PROVE  \E f : Reads(buffer, f) /\ decode(buffer) = f[1]
<1> DEFINE f == CHOOSE f : f = [o \in 0..Len(buffer) |-> Read(buffer, f, o)]
<1>1. decode(buffer) = f[1]
  BY Zenon DEF decode, Read
<1>2. Reads(buffer, f)
  BY Readable, Zenon DEF Reads
<1>3. QED
  BY <1>1, <1>2, Zenon

----------------------------------------------------------------------------
(* The recursion of encode.                                                *)

Pack(items, packed, i) ==
    IF i = 0 THEN <<VERSION>> ELSE packed[i - 1] \o Block(items[i])
Packs(items, packed) == packed = [i \in 0..Len(items) |-> Pack(items, packed, i)]

LEMMA Packable ==
    ASSUME NEW items, Len(items) \in Nat
    PROVE  \E p : Packs(items, p)
<1> DEFINE n == Len(items)
           S == {k \in Nat : k <= n => \E p : p = [i \in 0..k |-> Pack(items, p, i)]}
<1>1. 0 \in S
  <2> DEFINE p == [i \in 0..0 |-> <<VERSION>>]
  <2>1. 0..0 = {0}
    OBVIOUS
  <2>2. p = [i \in 0..0 |-> Pack(items, p, i)]
    BY <2>1 DEF Pack
  <2>3. \E q : q = [i \in 0..0 |-> Pack(items, q, i)]
    BY <2>2, Zenon
  <2>4. QED
    BY <2>3
<1>2. ASSUME NEW k \in Nat, k \in S PROVE k + 1 \in S
  <2> SUFFICES ASSUME k + 1 <= n
               PROVE  \E q : q = [i \in 0..(k + 1) |-> Pack(items, q, i)]
    OBVIOUS
  <2>1. PICK p : p = [i \in 0..k |-> Pack(items, p, i)]
    BY <1>2
  <2> DEFINE q == [i \in 0..(k + 1) |-> IF i = k + 1 THEN Pack(items, p, k + 1) ELSE p[i]]
  <2>2. ASSUME NEW i \in 0..(k + 1) PROVE q[i] = Pack(items, q, i)
    <3>1. Pack(items, q, i) = Pack(items, p, i)
      <4>1. CASE i = 0
        BY <4>1 DEF Pack
      <4>2. CASE i # 0
        <5>1. i - 1 \in 0..(k + 1) /\ i - 1 # k + 1
          BY <4>2
        <5>2. q[i - 1] = p[i - 1]
          BY <5>1
        <5> HIDE DEF q
        <5>3. QED
          BY <5>2, Zenon DEF Pack
      <4>3. QED
        BY <4>1, <4>2
    <3>2. q[i] = Pack(items, p, i)
      <4>1. CASE i = k + 1
        BY <4>1
      <4>2. CASE i # k + 1
        <5>1. i \in 0..k
          BY <4>2
        <5>2. p[i] = Pack(items, p, i)
          BY <2>1, <5>1
        <5>3. QED
          BY <4>2, <5>2
      <4>3. QED
        BY <4>1, <4>2
    <3>3. QED
      BY <3>1, <3>2, Zenon
  <2>3. q = [i \in 0..(k + 1) |-> q[i]]
    OBVIOUS
  <2> HIDE DEF q
  <2>4. q = [i \in 0..(k + 1) |-> Pack(items, q, i)]
    BY <2>2, <2>3
  <2>5. QED
    BY <2>4, Zenon
<1>3. n \in S
  <2> HIDE DEF S
  <2>1. QED
    BY <1>1, <1>2, Upward
<1>4. \E p : p = [i \in 0..n |-> Pack(items, p, i)]
  BY <1>3
<1>5. QED
  BY <1>4, Zenon DEF Packs

LEMMA EncodePacks ==
    ASSUME NEW items, Len(items) \in Nat
    PROVE  \E p : Packs(items, p) /\ encode(items) = p[Len(items)]
<1> DEFINE p == CHOOSE p : p = [i \in 0..Len(items) |-> Pack(items, p, i)]
<1>1. encode(items) = p[Len(items)]
  BY Zenon DEF encode, Pack
<1>2. Packs(items, p)
  BY Packable, Zenon DEF Packs
<1>3. QED
  BY <1>1, <1>2, Zenon

----------------------------------------------------------------------------
(* What is packed.                                                         *)

\* Items of data from V, which has the bytes.
Item(V) == [label : DOMAIN LABEL_TO_INDEX, data : Seq(V)]
\* Sizes that are read back.
ReadBack == {n \in Nat : getUint32(setUint32(n)) = n}

LEMMA FourBytes ==
    ASSUME NEW b \in [1..4 -> Nat]
    PROVE  b \in Seq(Nat) /\ Len(b) = 4 /\ b = [i \in 1..4 |-> b[i]]
<1>1. b \in Seq(Nat)
  BY SeqDef
<1>2. 1..Len(b) = 1..4 /\ Len(b) \in Nat
  BY <1>1, LenProperties
<1>3. Len(b) = 4
  <2>1. 4 \in 1..Len(b) /\ (Len(b) > 4 => 5 \in 1..Len(b))
    BY <1>2
  <2>2. QED
    BY <1>2, <2>1
<1>4. QED
  BY <1>1, <1>3

Joins(V, x, y, z) ==
    /\ z \in Seq(V) /\ Len(z) = Len(x) + Len(y)
    /\ \A i \in 1..Len(x) : z[i] = x[i]
    /\ \A i \in 1..Len(y) : z[Len(x) + i] = y[i]
LEMMA Joined ==
    ASSUME NEW V, NEW x \in Seq(V), NEW y \in Seq(V), NEW z, z = x \o y
    PROVE  Joins(V, x, y, z)
<1>1. /\ z \in Seq(V) /\ Len(z) = Len(x) + Len(y)
      /\ \A i \in 1..Len(x) + Len(y) : z[i] = IF i <= Len(x) THEN x[i] ELSE y[i - Len(x)]
  BY ConcatProperties, Zenon
<1>2. Len(x) \in Nat /\ Len(y) \in Nat
  OBVIOUS
<1>3. ASSUME NEW i \in 1..Len(x) PROVE z[i] = x[i]
  <2>1. i \in 1..Len(x) + Len(y) /\ i <= Len(x)
    BY <1>2
  <2>2. QED
    BY <1>1, <2>1, Zenon
<1>4. ASSUME NEW i \in 1..Len(y) PROVE z[Len(x) + i] = y[i]
  <2>1. /\ Len(x) + i \in 1..Len(x) + Len(y) /\ ~(Len(x) + i <= Len(x))
        /\ (Len(x) + i) - Len(x) = i
    BY <1>2
  <2>2. QED
    BY <1>1, <2>1, Zenon
<1>5. QED
  BY <1>1, <1>3, <1>4, Zenon DEF Joins

LEMMA SetUint32Facts ==
    ASSUME NEW n \in Nat
    PROVE  /\ setUint32(n) \in Seq(Nat) /\ Len(setUint32(n)) = 4
           /\ setUint32(n) = [i \in 1..4 |-> setUint32(n)[i]]
           /\ uint32toBuffer(n) \in Seq(Nat) /\ Len(uint32toBuffer(n)) = 4
           /\ uint32toBuffer(n) = [i \in 1..4 |-> uint32toBuffer(n)[i]]
<1> DEFINE w == uint32toBuffer(n)
<1>1. /\ Weight[1] \in Nat \ {0} /\ Weight[2] \in Nat \ {0}
      /\ Weight[3] \in Nat \ {0} /\ Weight[4] \in Nat \ {0}
  <2>1. ByteBase \in Nat /\ ByteBase >= 1
    BY ByteBaseAssumption
  <2>2. ByteBase * ByteBase \in Nat /\ ByteBase * ByteBase >= 1
    BY <2>1
  <2>3. ByteBase * ByteBase * ByteBase \in Nat /\ ByteBase * ByteBase * ByteBase >= 1
    BY <2>1, <2>2
  <2>4. QED
    BY <2>1, <2>2, <2>3 DEF Weight
<1>2. ASSUME NEW i \in 1..4 PROVE (n \div Weight[i]) % ByteBase \in Nat
  <2>1. Weight[i] \in Nat \ {0}
    BY <1>1
  <2>2. n \div Weight[i] \in Nat
    BY <2>1
  <2>3. QED
    BY <2>2, ByteBaseAssumption
<1>3. w \in [1..4 -> Nat]
  BY <1>2 DEF uint32toBuffer
<1> HIDE DEF w
<1>4. w \in Seq(Nat) /\ Len(w) = 4 /\ w = [i \in 1..4 |-> w[i]]
  BY <1>3, FourBytes
<1>5. setUint32(n) = [i \in 1..4 |-> w[(4 - i) + 1]]
  BY <1>4 DEF setUint32, Reverse, w
<1> DEFINE b == setUint32(n)
<1>6. b \in [1..4 -> Nat]
  BY <1>3, <1>5
<1> HIDE DEF b
<1>7. b \in Seq(Nat) /\ Len(b) = 4 /\ b = [i \in 1..4 |-> b[i]]
  BY <1>6, FourBytes
<1>8. QED
  BY <1>4, <1>7 DEF b, w

LEMMA BlockFacts ==
    ASSUME NEW V, Nat \subseteq V, NEW item \in Item(V)
    PROVE  /\ Block(item) \in Seq(V) /\ Len(Block(item)) = 5 + Len(item.data)
           /\ Block(item)[1] = LABEL_TO_INDEX[item.label]
           /\ \A i \in 1..4 : Block(item)[1 + i] = setUint32(Len(item.data))[i]
           /\ \A i \in 1..Len(item.data) : Block(item)[5 + i] = item.data[i]
<1> DEFINE index == <<LABEL_TO_INDEX[item.label]>>
           size == setUint32(Len(item.data))
           data == item.data
<1>1. data \in Seq(V) /\ Len(data) \in Nat /\ item.label \in DOMAIN LABEL_TO_INDEX
  BY DEF Item
<1>2. size \in Seq(V) /\ Len(size) = 4
  BY <1>1, SetUint32Facts
<1>3. index \in Seq(V) /\ Len(index) = 1 /\ index[1] = LABEL_TO_INDEX[item.label]
  <2>1. \A l \in DOMAIN LABEL_TO_INDEX : LABEL_TO_INDEX[l] \in Nat
    BY DEF LABEL_TO_INDEX
  <2>2. QED
    BY <1>1, <2>1
<1>4. Block(item) = (index \o size) \o data
  BY DEF Block
<1> HIDE DEF index, size, data
<1>5. /\ index \o size \in Seq(V) /\ Len(index \o size) = 5
      /\ (index \o size)[1] = index[1]
      /\ \A i \in 1..4 : (index \o size)[1 + i] = size[i]
  <2> DEFINE z == index \o size
  <2>1. z = index \o size
    OBVIOUS
  <2> HIDE DEF z
  <2>2. Joins(V, index, size, z)
    BY <1>2, <1>3, <2>1, Joined
  <2>3. QED
    BY <1>2, <1>3, <2>2 DEF z, Joins
<1> DEFINE head == index \o size
<1> HIDE DEF head
<1> DEFINE all == head \o data
<1>6. /\ all \in Seq(V) /\ Len(all) = 5 + Len(data)
      /\ \A i \in 1..5 : all[i] = head[i]
      /\ \A i \in 1..Len(data) : all[5 + i] = data[i]
  <2>1. head \in Seq(V) /\ Len(head) = 5
    BY <1>5 DEF head
  <2>4. all = head \o data
    OBVIOUS
  <2> HIDE DEF all
  <2>2. Joins(V, head, data, all)
    BY <1>1, <2>1, <2>4, Joined
  <2>3. QED
    BY <2>1, <2>2 DEF Joins
<1>7. Block(item) = all
  BY <1>4, Zenon DEF head
<1> HIDE DEF all
<1>8. /\ Block(item) \in Seq(V) /\ Len(Block(item)) = 5 + Len(data)
      /\ Block(item)[1] = LABEL_TO_INDEX[item.label]
      /\ \A i \in 1..4 : Block(item)[1 + i] = size[i]
      /\ \A i \in 1..Len(data) : Block(item)[5 + i] = data[i]
  <2>1. \A i \in 1..4 : 1 + i \in 1..5
    OBVIOUS
  <2>2. head[1] = index[1] /\ \A i \in 1..4 : head[1 + i] = size[i]
    BY <1>5 DEF head
  <2>3. QED
    BY <1>3, <1>6, <1>7, <2>1, <2>2
<1>9. QED
  BY <1>8 DEF data, size

\* Each item is packed behind the ones before it.
LEMMA PackedSeq ==
    ASSUME NEW V, Nat \subseteq V, NEW items \in Seq(Item(V)), NEW p, Packs(items, p)
    PROVE  \A i \in 0..Len(items) : p[i] \in Seq(V)
<1> DEFINE n == Len(items)
           S == {i \in Nat : i <= n => p[i] \in Seq(V)}
<1>0. n \in Nat
  OBVIOUS
<1>1. 0 \in S
  <2>1. p[0] = <<VERSION>>
    BY <1>0 DEF Packs, Pack
  <2>2. VERSION \in V
    BY DEF VERSION
  <2>3. <<VERSION>> \in Seq(V)
    BY <2>2
  <2>4. p[0] \in Seq(V)
    BY <2>1, <2>3, Zenon
  <2>5. QED
    BY <2>4
<1>2. ASSUME NEW i \in Nat, i \in S PROVE i + 1 \in S
  <2> SUFFICES ASSUME i + 1 <= n PROVE p[i + 1] \in Seq(V)
    OBVIOUS
  <2>1. p[i] \in Seq(V) /\ i + 1 \in 0..n /\ i + 1 # 0 /\ (i + 1) - 1 = i
    BY <1>2, <1>0
  <2>2. p[i + 1] = p[i] \o Block(items[i + 1])
    <3>1. p[i + 1] = Pack(items, p, i + 1)
      BY <2>1 DEF Packs
    <3>2. QED
      BY <2>1, <3>1, Zenon DEF Pack
  <2>3. items[i + 1] \in Item(V)
    BY <2>1, <1>0
  <2>4. Block(items[i + 1]) \in Seq(V)
    BY <2>3, BlockFacts
  <2>5. QED
    BY <2>1, <2>2, <2>4
<1>3. \A i \in Nat : i \in S
  <2> HIDE DEF S
  <2>1. QED
    BY <1>1, <1>2, Upward
<1>4. QED
  BY <1>0, <1>3

LEMMA PackStep ==
    ASSUME NEW V, Nat \subseteq V, NEW items \in Seq(Item(V)), NEW p, Packs(items, p),
           NEW i \in 0..Len(items), i # Len(items)
    PROVE  /\ items[i + 1] \in Item(V)
           /\ Joins(V, p[i], Block(items[i + 1]), p[i + 1])
<1>1. /\ i + 1 \in 0..Len(items) /\ i + 1 # 0 /\ (i + 1) - 1 = i
      /\ i + 1 \in 1..Len(items)
  OBVIOUS
<1>2. p[i + 1] = p[i] \o Block(items[i + 1])
  <2>1. p[i + 1] = Pack(items, p, i + 1)
    BY <1>1 DEF Packs
  <2>2. QED
    BY <1>1, <2>1, Zenon DEF Pack
<1>3. items[i + 1] \in Item(V)
  BY <1>1
<1>4. Block(items[i + 1]) \in Seq(V)
  BY <1>3, BlockFacts
<1>5. p[i] \in Seq(V)
  BY PackedSeq
<1>6. QED
  BY <1>2, <1>3, <1>4, <1>5, Joined

Extends(x, y) == Len(x) <= Len(y) /\ \A j \in 1..Len(x) : y[j] = x[j]
LEMMA ExtendsOn ==
    ASSUME NEW x, NEW y, NEW z, Extends(x, y), Extends(y, z),
           Len(x) \in Nat, Len(y) \in Nat, Len(z) \in Nat
    PROVE  Extends(x, z)
<1> DEFINE a == Len(x)
           b == Len(y)
           d == Len(z)
<1>1. a \in Nat /\ b \in Nat /\ d \in Nat /\ a <= b /\ b <= d
  BY Zenon DEF Extends
<1>2. \A j \in 1..a : y[j] = x[j]
  BY Zenon DEF Extends
<1>3. \A j \in 1..b : z[j] = y[j]
  BY Zenon DEF Extends
<1> HIDE DEF a, b, d
<1>4. a <= d /\ \A j \in 1..a : j \in 1..b
  BY <1>1
<1>5. QED
  BY <1>2, <1>3, <1>4, Zenon DEF Extends, a, d

LEMMA PackedExtends ==
    ASSUME NEW V, Nat \subseteq V, NEW items \in Seq(Item(V)), NEW p, Packs(items, p),
           NEW i \in 0..Len(items)
    PROVE  Extends(p[i], p[Len(items)])
<1> DEFINE n == Len(items)
           S == {m \in Nat : m <= n => Extends(p[n - m], p[n])}
<1>0. n \in Nat
  OBVIOUS
<1>a. \A k \in 0..n : p[k] \in Seq(V) /\ Len(p[k]) \in Nat
  BY PackedSeq
<1>1. 0 \in S
  <2>1. Extends(p[n], p[n])
    BY <1>0, <1>a DEF Extends
  <2>2. n - 0 = n
    BY <1>0
  <2>3. QED
    BY <2>1, <2>2
<1>2. ASSUME NEW m \in Nat, m \in S PROVE m + 1 \in S
  <2> SUFFICES ASSUME m + 1 <= n PROVE Extends(p[n - (m + 1)], p[n])
    OBVIOUS
  <2> DEFINE k == n - (m + 1)
  <2>1. k \in 0..n /\ k # n /\ k + 1 = n - m /\ k + 1 \in 0..n
    BY <1>0
  <2>9. Extends(p[n - m], p[n])
    BY <1>0, <1>2
  <2> HIDE DEF k
  <2>2. Extends(p[k + 1], p[n])
    BY <2>1, <2>9, Zenon
  <2>3. items[k + 1] \in Item(V) /\ Joins(V, p[k], Block(items[k + 1]), p[k + 1])
    BY <2>1, PackStep
  <2>4. Len(Block(items[k + 1])) \in Nat
    BY <2>3, BlockFacts
  <2>5. Len(p[k]) \in Nat /\ Len(p[k + 1]) \in Nat /\ Len(p[n]) \in Nat
    BY <1>0, <1>a, <2>1
  <2>6. Extends(p[k], p[k + 1])
    <3>1. Len(p[k + 1]) = Len(p[k]) + Len(Block(items[k + 1]))
      BY <2>3, Zenon DEF Joins
    <3>2. \A j \in 1..Len(p[k]) : p[k + 1][j] = p[k][j]
      BY <2>3, Zenon DEF Joins
    <3>3. Len(p[k]) <= Len(p[k + 1])
      <4> DEFINE a == Len(p[k])
                 b == Len(p[k + 1])
                 size == Len(Block(items[k + 1]))
      <4>1. a \in Nat /\ b \in Nat /\ size \in Nat /\ b = a + size
        BY <2>4, <2>5, <3>1, Zenon
      <4> HIDE DEF a, b, size
      <4>2. a <= b
        BY <4>1
      <4>3. QED
        BY <4>2 DEF a, b
    <3>4. QED
      BY <3>2, <3>3, Zenon DEF Extends
  <2>7. Extends(p[k], p[n])
    BY <2>2, <2>5, <2>6, ExtendsOn, Zenon
  <2>8. QED
    BY <2>7 DEF k
<1>3. \A m \in Nat : m \in S
  <2> HIDE DEF S
  <2>1. QED
    BY <1>1, <1>2, Upward
<1>4. n - i \in Nat /\ n - i <= n /\ n - (n - i) = i
  BY <1>0
<1>5. Extends(p[n - (n - i)], p[n])
  BY <1>3, <1>4
<1>6. QED
  BY <1>4, <1>5

----------------------------------------------------------------------------
(* What decode reads of what was encoded.                                  *)

LEMMA Part ==
    ASSUME NEW V, NEW s \in Seq(V), NEW m \in Nat, NEW k \in Nat,
           1 <= m, m <= k + 1, k <= Len(s), NEW size, size = k - m + 1
    PROVE  SubSeq(s, m, k) = [j \in 1..size |-> s[m + j - 1]]
<1> DEFINE b == SubSeq(s, m, k)
<1>0. \A i \in m..k : s[i] \in V
  OBVIOUS
<1>1. /\ b \in Seq(V) /\ Len(b) = size
      /\ \A j \in 1..size : b[j] = s[m + j - 1]
  <2>1. /\ b \in Seq(V) /\ Len(b) = IF m <= k THEN k - m + 1 ELSE 0
        /\ \A j \in 1..(k - m + 1) : b[j] = s[m + j - 1]
    BY <1>0, SubSeqProperties
  <2> HIDE DEF b
  <2>2. size = IF m <= k THEN k - m + 1 ELSE 0
    OBVIOUS
  <2>3. QED
    BY <2>1, <2>2
<1> HIDE DEF b
<1>2. b = [j \in 1..size |-> b[j]]
  BY <1>1
<1>3. b = [j \in 1..size |-> s[m + j - 1]]
  BY <1>1, <1>2
<1>4. QED
  BY <1>3 DEF b

\* A label is read back.
LEMMA LabelBack ==
    ASSUME NEW l \in DOMAIN LABEL_TO_INDEX
    PROVE  INDEX_TO_LABEL[LABEL_TO_INDEX[l]] = l
<1> DEFINE index == LABEL_TO_INDEX[l]
<1>1. index \in Range(LABEL_TO_INDEX)
  BY DEF Range
<1>2. INDEX_TO_LABEL[index]
        = CHOOSE s \in DOMAIN LABEL_TO_INDEX :
                index \in Range(LABEL_TO_INDEX) => LABEL_TO_INDEX[s] = index
  BY <1>1 DEF INDEX_TO_LABEL, AntiFunction, Inverse
<1>3. \A s \in DOMAIN LABEL_TO_INDEX : LABEL_TO_INDEX[s] = index => s = l
  BY DEF LABEL_TO_INDEX
<1>4. QED
  BY <1>1, <1>2, <1>3

\* One item is read back, or the buffer ends before or in it.
OneRead(items, p, cut, f, i) ==
    \/ Len(p[i]) = Len(cut) /\ f[Len(p[i])] = [ok |-> TRUE, items |-> << >>]
    \/ Len(p[i + 1]) > Len(cut) /\ f[Len(p[i])] = Throws
    \/ /\ Len(p[i + 1]) <= Len(cut)
       /\ f[Len(p[i])] =
             [ok |-> f[Len(p[i + 1])].ok,
              items |-> <<items[i + 1]>> \o f[Len(p[i + 1])].items]
LEMMA ReadsOne ==
    ASSUME NEW V, Nat \subseteq V, NEW items \in Seq(Item(V)), NEW p, Packs(items, p),
           \A k \in 1..Len(items) : Len(items[k].data) \in ReadBack,
           NEW cut \in Seq(V), Extends(cut, p[Len(items)]),
           NEW f, Reads(cut, f),
           NEW i \in 0..Len(items), i # Len(items), Len(p[i]) <= Len(cut)
    PROVE  OneRead(items, p, cut, f, i)
<1> DEFINE o == Len(p[i])
           n == Len(cut)
           whole == p[Len(items)]
           item == items[i + 1]
           size == Len(item.data)
           next == Len(p[i + 1])
<1>1. i + 1 \in 0..Len(items) /\ i + 1 \in 1..Len(items)
  OBVIOUS
<1>2. item \in Item(V) /\ Joins(V, p[i], Block(item), p[i + 1])
  BY PackStep
<1>3. /\ item.data \in Seq(V) /\ size \in Nat /\ item.label \in DOMAIN LABEL_TO_INDEX
      /\ item = [label |-> item.label, data |-> item.data]
      /\ size \in ReadBack
  BY <1>1, <1>2 DEF Item
<1>4. o \in Nat /\ n \in Nat /\ Len(p[i + 1]) \in Nat /\ o <= n
  BY <1>1, PackedSeq
<1> HIDE DEF item
<1>5. Len(p[i + 1]) = o + 5 + size
  <2>1. Len(Block(item)) = 5 + size /\ next = o + Len(Block(item))
    BY <1>2, BlockFacts, Zenon DEF Joins
  <2>2. next = o + (5 + size)
    BY <2>1, Zenon
  <2>3. o \in Nat /\ size \in Nat /\ next \in Nat
    BY <1>3, <1>4
  <2> HIDE DEF o, size, next
  <2>4. next = o + 5 + size
    BY <2>2, <2>3
  <2>5. QED
    BY <2>4 DEF o, size, next
<1>6. \A j \in 1..(5 + size) : o + j <= n => cut[o + j] = Block(item)[j]
  <2>1. ASSUME NEW j \in 1..(5 + size), o + j <= n PROVE cut[o + j] = Block(item)[j]
    <3>1. o + j \in 1..n /\ o + j \in 1..Len(p[i + 1])
      <4>1. /\ o \in Nat /\ n \in Nat /\ next \in Nat /\ size \in Nat
            /\ next = o + 5 + size /\ o + j <= n
        BY <1>3, <1>4, <1>5, <2>1, Zenon
      <4> HIDE DEF o, n, next, size
      <4>2. o + j \in 1..n /\ o + j \in 1..next
        BY <4>1
      <4>3. QED
        BY <4>2 DEF next
    <3>2. cut[o + j] = whole[o + j]
      BY <3>1 DEF Extends
    <3>3. whole[o + j] = p[i + 1][o + j]
      <4>1. Extends(p[i + 1], whole)
        BY <1>1, PackedExtends
      <4>2. QED
        BY <3>1, <4>1, Zenon DEF Extends
    <3>4. Len(Block(item)) = 5 + size
      BY <1>2, BlockFacts
    <3>5. p[i + 1][o + j] = Block(item)[j]
      BY <1>2, <3>4 DEF Joins
    <3>6. QED
      BY <3>2, <3>3, <3>5
  <2>2. QED
    BY <2>1
<1>7. o \in 0..n /\ f[o] = Read(cut, f, o)
  <2>1. f = [x \in 0..Len(cut) |-> Read(cut, f, x)]
    BY Zenon DEF Reads
  <2>2. o \in 0..Len(cut)
    BY <1>4
  <2> HIDE DEF o
  <2>3. QED
    BY <2>1, <2>2, Zenon
<1> HIDE DEF o, n, whole, size, next
<1>12. /\ o \in Nat /\ n \in Nat /\ next \in Nat /\ size \in Nat /\ o <= n
       /\ next = o + 5 + size
  BY <1>3, <1>4, <1>5, Zenon DEF o, n, next, size
<1>8. CASE o = n
  BY <1>7, <1>8, Zenon DEF OneRead, Read, o, n
<1>9. CASE o # n /\ o + 5 > n
  <2>1. f[o] = Throws
    BY <1>7, <1>9, Zenon DEF Read, n
  <2>2. next > n
    BY <1>9, <1>12
  <2>3. QED
    BY <2>1, <2>2, Zenon DEF OneRead, o, n, next
<1>10. CASE o # n /\ ~(o + 5 > n)
  <2>1. SizeAt(cut, o) = size
    <3>1. SubSeq(cut, o + 2, o + 5) = setUint32(size)
      <4> DEFINE b == SubSeq(cut, o + 2, o + 5)
      <4>1. b = [j \in 1..4 |-> cut[(o + 2) + j - 1]]
        <5>1. o + 2 \in Nat /\ o + 5 \in Nat /\ 4 = (o + 5) - (o + 2) + 1 /\ o + 5 <= n
          BY <1>10, <1>12
        <5>2. QED
          BY <1>12, <5>1, Part DEF n
      <4>2. ASSUME NEW j \in 1..4
            PROVE  cut[(o + 2) + j - 1] = setUint32(size)[j]
        <5>1. /\ 1 + j \in 1..(5 + size) /\ o + (1 + j) <= n
              /\ (o + 2) + j - 1 = o + (1 + j)
          BY <1>10, <1>12
        <5>2. Block(item)[1 + j] = setUint32(size)[j]
          BY <1>2, BlockFacts, Zenon DEF size
        <5>3. QED
          BY <1>6, <5>1, <5>2
      <4> HIDE DEF b
      <4>3. setUint32(size) = [j \in 1..4 |-> setUint32(size)[j]]
        BY <1>3, SetUint32Facts DEF size
      <4>4. b = [j \in 1..4 |-> setUint32(size)[j]]
        BY <4>1, <4>2
      <4>5. QED
        BY <4>3, <4>4, Zenon DEF b
    <3>2. QED
      BY <1>3, <3>1, Zenon DEF SizeAt, ReadBack, size
  <2>2. CASE Len(p[i + 1]) > n
    <3>1. size \notin 0..(n - o - 5)
      <4>1. next > n
        BY <2>2, Zenon DEF next
      <4>2. QED
        BY <1>12, <4>1
    <3>2. f[o] = Throws
      BY <1>7, <1>10, <2>1, <3>1, Zenon DEF Read, n
    <3>3. QED
      BY <2>2, <3>2, Zenon DEF OneRead, o, n
  <2>3. CASE Len(p[i + 1]) <= n
    <3>0. next <= n
      BY <2>3 DEF next
    <3>1. /\ size \in 0..(n - o - 5) /\ ~(size > n - o + 5)
          /\ o + 5 + size = Len(p[i + 1])
      BY <1>12, <3>0 DEF next
    <3>2. f[o] = [ok |-> f[Len(p[i + 1])].ok,
                  items |-> <<ItemAt(cut, o)>> \o f[Len(p[i + 1])].items]
      BY <1>7, <1>10, <2>1, <3>1, Zenon DEF Read, n
    <3>3. ItemAt(cut, o) = item
      <4>1. INDEX_TO_LABEL[cut[o + 1]] = item.label
        <5>1. 1 \in 1..(5 + size) /\ o + 1 <= n
          BY <1>10, <1>12
        <5>2. cut[o + 1] = Block(item)[1] /\ Block(item)[1] = LABEL_TO_INDEX[item.label]
          BY <1>2, <1>6, <5>1, BlockFacts
        <5>3. QED
          BY <1>3, <5>2, LabelBack
      <4>2. SubSeq(cut, o + 6, o + 5 + size) = item.data
        <5> DEFINE b == SubSeq(cut, o + 6, o + 5 + size)
        <5>1. b = [j \in 1..size |-> cut[(o + 6) + j - 1]]
          <6>1. /\ o + 6 \in Nat /\ o + 5 + size \in Nat /\ o + 5 + size <= n
                /\ size = (o + 5 + size) - (o + 6) + 1
            BY <1>12, <3>0
          <6>2. QED
            BY <1>12, <6>1, Part DEF n
        <5>2. ASSUME NEW j \in 1..size
              PROVE  cut[(o + 6) + j - 1] = item.data[j]
          <6>1. /\ 5 + j \in 1..(5 + size) /\ o + (5 + j) <= n
                /\ (o + 6) + j - 1 = o + (5 + j)
            BY <1>12, <3>0
          <6>2. Block(item)[5 + j] = item.data[j]
            BY <1>2, BlockFacts, Zenon DEF size
          <6>3. QED
            BY <1>6, <6>1, <6>2
        <5> HIDE DEF b
        <5>3. item.data = [j \in 1..size |-> item.data[j]]
          BY <1>3 DEF size
        <5>4. b = [j \in 1..size |-> item.data[j]]
          BY <5>1, <5>2
        <5>5. QED
          BY <5>3, <5>4, Zenon DEF b
      <4>3. QED
        BY <1>3, <2>1, <4>1, <4>2, Zenon DEF ItemAt
    <3>4. QED
      BY <2>3, <3>2, <3>3, Zenon DEF OneRead, o, n, item
  <2>4. QED
    BY <1>4, <2>2, <2>3 DEF n
<1>11. QED
  BY <1>8, <1>9, <1>10

\* The first items of "items" behind the first i, and no others.
Follow(got, items, i) ==
    /\ i + Len(got) <= Len(items)
    /\ \A j \in 1..Len(got) : got[j] = items[i + j]

Walks(V, items, i, whole, got) ==
    /\ got.ok \in BOOLEAN /\ got.items \in Seq(Item(V))
    /\ got.ok => Follow(got.items, items, i)
    /\ whole => got.ok /\ i + Len(got.items) = Len(items)

\* What is read in front of what follows.
LEMMA FollowOn ==
    ASSUME NEW V, NEW items \in Seq(Item(V)), NEW i \in 0..Len(items), i # Len(items),
           NEW whole, NEW rest, Walks(V, items, i + 1, whole, rest),
           NEW got, got = [ok |-> rest.ok, items |-> <<items[i + 1]>> \o rest.items]
    PROVE  Walks(V, items, i, whole, got)
<1> DEFINE first == <<items[i + 1]>>
           more == rest.items
           all == first \o more
           n == Len(items)
<1>0. n \in Nat /\ i + 1 \in 1..n /\ i \in Nat
  OBVIOUS
<1>1. /\ first \in Seq(Item(V)) /\ Len(first) = 1 /\ first[1] = items[i + 1]
      /\ more \in Seq(Item(V)) /\ Len(more) \in Nat
  BY <1>0 DEF Walks
<1>2. got.ok = rest.ok /\ got.items = all
  BY Zenon
<1>3. /\ rest.ok \in BOOLEAN /\ (rest.ok => Follow(more, items, i + 1))
      /\ (whole => rest.ok /\ (i + 1) + Len(more) = n)
  BY Zenon DEF Walks
<1>4. all = first \o more
  OBVIOUS
<1> HIDE DEF all, first, more, n
<1>5. Joins(Item(V), first, more, all)
  BY <1>1, <1>4, Joined
<1>6. all \in Seq(Item(V)) /\ Len(all) = 1 + Len(more) /\ all[1] = items[i + 1]
      /\ \A j \in 1..Len(more) : all[1 + j] = more[j]
  BY <1>1, <1>5 DEF Joins
<1>7. ASSUME rest.ok PROVE Follow(all, items, i)
  <2>1. (i + 1) + Len(more) <= n /\ \A j \in 1..Len(more) : more[j] = items[(i + 1) + j]
    BY <1>3, <1>7, Zenon DEF Follow, n
  <2>2. i + Len(all) <= n
    BY <1>0, <1>1, <1>6, <2>1
  <2>3. ASSUME NEW j \in 1..Len(all) PROVE all[j] = items[i + j]
    <3>1. CASE j = 1
      BY <1>6, <3>1
    <3>2. CASE j # 1
      <4> DEFINE m == Len(more)
                 a == Len(all)
      <4>0. m \in Nat /\ a = 1 + m /\ j \in 1..a
        BY <1>1, <1>6
      <4> HIDE DEF m, a
      <4>4. j - 1 \in 1..m /\ 1 + (j - 1) = j /\ (i + 1) + (j - 1) = i + j
        BY <1>0, <3>2, <4>0
      <4>1. j - 1 \in 1..Len(more) /\ 1 + (j - 1) = j /\ (i + 1) + (j - 1) = i + j
        BY <4>4 DEF m
      <4>2. all[1 + (j - 1)] = items[(i + 1) + (j - 1)]
        BY <1>6, <2>1, <4>1
      <4>3. QED
        BY <4>1, <4>2, Zenon
    <3>3. QED
      BY <3>1, <3>2
  <2>4. QED
    BY <2>2, <2>3, Zenon DEF Follow, n
<1>8. whole => rest.ok /\ i + Len(all) = n
  <2> SUFFICES ASSUME whole PROVE rest.ok /\ i + Len(all) = n
    OBVIOUS
  <2>1. rest.ok /\ (i + 1) + Len(more) = n
    BY <1>3
  <2>2. QED
    BY <1>0, <1>1, <1>6, <2>1
<1>9. QED
  BY <1>2, <1>3, <1>6, <1>7, <1>8, Zenon DEF Walks, n

\* Reading from where an item begins.
LEMMA WalksOn ==
    ASSUME NEW V, Nat \subseteq V, NEW items \in Seq(Item(V)), NEW p, Packs(items, p),
           \A k \in 1..Len(items) : Len(items[k].data) \in ReadBack,
           NEW cut \in Seq(V), Extends(cut, p[Len(items)]),
           NEW f, Reads(cut, f),
           NEW i \in 0..Len(items), Len(p[i]) <= Len(cut)
    PROVE  Walks(V, items, i, Len(cut) = Len(p[Len(items)]), f[Len(p[i])])
<1> DEFINE n == Len(items)
           whole == Len(cut) = Len(p[n])
           Done(k) == Len(p[k]) <= Len(cut) => Walks(V, items, k, whole, f[Len(p[k])])
           S == {m \in Nat : m <= n => Done(n - m)}
<1>0. n \in Nat /\ Len(cut) \in Nat /\ (\A k \in 0..n : Len(p[k]) \in Nat)
  BY PackedSeq
<1>a. \A x : x = [ok |-> TRUE, items |-> << >>] => x.ok = TRUE /\ x.items = << >>
  OBVIOUS
<1>b. \A k : Throws.ok = FALSE /\ Throws.items = << >>
  BY DEF Throws
<1>c. << >> \in Seq(Item(V)) /\ Len(<< >>) = 0
  OBVIOUS
<1>1. Done(n)
  <2> SUFFICES ASSUME Len(p[n]) <= Len(cut) PROVE Walks(V, items, n, whole, f[Len(p[n])])
    OBVIOUS
  <2>1. Len(p[n]) = Len(cut)
    BY <1>0 DEF Extends
  <2>2. f[Len(cut)] = [ok |-> TRUE, items |-> << >>]
    <3>1. f[Len(cut)] = Read(cut, f, Len(cut))
      <4>1. f = [x \in 0..Len(cut) |-> Read(cut, f, x)]
        BY Zenon DEF Reads
      <4>2. Len(cut) \in 0..Len(cut)
        BY <1>0
      <4>3. QED
        BY <4>1, <4>2, Zenon
    <3>2. QED
      BY <3>1, Zenon DEF Read
  <2>3. /\ f[Len(cut)].ok = TRUE /\ f[Len(cut)].items = << >>
    BY <1>a, <2>2
  <2>4. Follow(<< >>, items, n)
    BY <1>0, <1>c DEF Follow
  <2>5. n + Len(<< >>) = n
    BY <1>0, <1>c
  <2>6. QED
    BY <1>c, <2>1, <2>3, <2>4, <2>5, Zenon DEF Walks
<1>2. ASSUME NEW k \in 0..n, k # n, Done(k + 1) PROVE Done(k)
  <2> SUFFICES ASSUME Len(p[k]) <= Len(cut) PROVE Walks(V, items, k, whole, f[Len(p[k])])
    OBVIOUS
  <2>1. /\ k \in Nat /\ k + 1 \in 0..n
        /\ Len(p[k]) \in Nat /\ Len(p[k + 1]) \in Nat /\ Len(p[n]) \in Nat
    <3>1. k \in Nat /\ k + 1 \in 0..n /\ n \in 0..n
      BY <1>0, <1>2
    <3>2. QED
      BY <1>0, <3>1, Zenon
  <2>2. Len(p[k]) < Len(p[k + 1]) /\ Len(p[k + 1]) <= Len(p[n])
    <3>1. items[k + 1] \in Item(V) /\ Joins(V, p[k], Block(items[k + 1]), p[k + 1])
      BY <1>2, PackStep
    <3>2. /\ Len(Block(items[k + 1])) = 5 + Len(items[k + 1].data)
          /\ items[k + 1].data \in Seq(V)
      BY <3>1, BlockFacts DEF Item
    <3> DEFINE size == Len(items[k + 1].data)
               a == Len(p[k])
               b == Len(p[k + 1])
    <3>3. size \in Nat /\ a \in Nat /\ b \in Nat
      BY <2>1, <3>2
    <3>4. b = a + (5 + size)
      BY <3>1, <3>2, Zenon DEF Joins
    <3> HIDE DEF size, a, b
    <3>5. a < b
      BY <3>3, <3>4
    <3>6. Extends(p[k + 1], p[n])
      BY <2>1, PackedExtends
    <3>7. QED
      BY <3>5, <3>6, Zenon DEF a, b, Extends
  <2>3. \/ Len(p[k]) = Len(cut) /\ f[Len(p[k])] = [ok |-> TRUE, items |-> << >>]
        \/ Len(p[k + 1]) > Len(cut) /\ f[Len(p[k])] = Throws
        \/ /\ Len(p[k + 1]) <= Len(cut)
           /\ f[Len(p[k])] = [ok |-> f[Len(p[k + 1])].ok,
                              items |-> <<items[k + 1]>> \o f[Len(p[k + 1])].items]
    <3>1. k \in 0..Len(items) /\ k # Len(items) /\ Len(p[k]) <= Len(cut)
      BY <1>2
    <3> HIDE DEF n
    <3>2. OneRead(items, p, cut, f, k)
      BY <3>1, ReadsOne
    <3>3. QED
      BY <3>2, Zenon DEF OneRead, n
  <2>4. CASE Len(p[k]) = Len(cut) /\ f[Len(p[k])] = [ok |-> TRUE, items |-> << >>]
    <3>1. ~whole
      BY <1>0, <2>1, <2>2, <2>4
    <3>2. f[Len(p[k])].ok = TRUE /\ f[Len(p[k])].items = << >>
      BY <1>a, <2>4
    <3>3. Follow(<< >>, items, k)
      BY <1>0, <1>c, <2>1 DEF Follow
    <3>4. QED
      BY <1>c, <3>1, <3>2, <3>3, Zenon DEF Walks
  <2>5. CASE Len(p[k + 1]) > Len(cut) /\ f[Len(p[k])] = Throws
    <3>1. ~whole
      BY <1>0, <2>1, <2>2, <2>5
    <3>2. QED
      BY <1>b, <1>c, <2>5, <3>1, Zenon DEF Walks
  <2>6. CASE /\ Len(p[k + 1]) <= Len(cut)
             /\ f[Len(p[k])] = [ok |-> f[Len(p[k + 1])].ok,
                                items |-> <<items[k + 1]>> \o f[Len(p[k + 1])].items]
    <3>1. Walks(V, items, k + 1, whole, f[Len(p[k + 1])])
      BY <1>2, <2>6
    <3> HIDE DEF whole
    <3>2. QED
      BY <1>2, <2>6, <3>1, FollowOn
  <2>7. QED
    BY <2>3, <2>4, <2>5, <2>6
<1> HIDE DEF Done
<1>3. 0 \in S
  <2>1. n - 0 = n
    BY <1>0
  <2>2. QED
    BY <1>1, <2>1
<1>4. ASSUME NEW m \in Nat, m \in S PROVE m + 1 \in S
  <2> SUFFICES ASSUME m + 1 <= n PROVE Done(n - (m + 1))
    OBVIOUS
  <2> DEFINE k == n - (m + 1)
  <2>1. k \in 0..n /\ k # n /\ k + 1 = n - m
    BY <1>0
  <2>2. Done(n - m)
    BY <1>0, <1>4
  <2> HIDE DEF k
  <2>3. Done(k)
    BY <1>2, <2>1, <2>2, Zenon
  <2>4. QED
    BY <2>3 DEF k
<1>5. \A m \in Nat : m \in S
  <2> HIDE DEF S
  <2>1. QED
    BY <1>3, <1>4, Upward
<1>6. n - i \in Nat /\ n - i <= n /\ n - (n - i) = i
  BY <1>0
<1>7. Done(n - (n - i))
  BY <1>5, <1>6
<1>8. Done(i)
  BY <1>6, <1>7, Zenon
<1>9. QED
  BY <1>8, Zenon DEF Done

----------------------------------------------------------------------------
(* Sizes are read back.                                                    *)

LEMMA Quotient ==
    ASSUME NEW n \in Nat, NEW d \in Nat \ {0}, NEW q \in Nat, NEW r \in 0..(d - 1),
           n = d * q + r
    PROVE  n \div d = q /\ n % d = r
OBVIOUS

LEMMA Divided ==
    ASSUME NEW n \in Nat, NEW d \in Nat \ {0}
    PROVE  /\ n \div d \in Nat /\ n % d \in 0..(d - 1)
           /\ n = d * (n \div d) + (n % d)
<1> DEFINE S == {k \in Nat : \E q \in Nat : \E r \in 0..(d - 1) : k = d * q + r}
<1>1. 0 \in S
  <2>1. 0 = d * 0 + 0 /\ 0 \in 0..(d - 1)
    OBVIOUS
  <2>2. QED
    BY <2>1
<1>2. ASSUME NEW k \in Nat, k \in S PROVE k + 1 \in S
  <2>1. PICK q \in Nat, r \in 0..(d - 1) : k = d * q + r
    BY <1>2
  <2>2. CASE r = d - 1
    <3>1. k + 1 = d * (q + 1) + 0 /\ 0 \in 0..(d - 1) /\ q + 1 \in Nat
      BY <2>1, <2>2
    <3>2. \E x \in Nat : \E y \in 0..(d - 1) : k + 1 = d * x + y
      BY <3>1, Zenon
    <3>3. QED
      BY <3>2
  <2>3. CASE r # d - 1
    <3>1. k + 1 = d * q + (r + 1) /\ r + 1 \in 0..(d - 1)
      BY <2>1, <2>3
    <3>2. QED
      BY <3>1
  <2>4. QED
    BY <2>2, <2>3
<1>3. n \in S
  <2> HIDE DEF S
  <2>1. QED
    BY <1>1, <1>2, Upward
<1>4. PICK q \in Nat, r \in 0..(d - 1) : n = d * q + r
  BY <1>3
<1>5. n \div d = q /\ n % d = r
  BY <1>4, Quotient
<1> DEFINE u == n \div d
           v == n % d
<1>6. u = q /\ v = r
  BY <1>5
<1> HIDE DEF u, v
<1>7. u \in Nat /\ v \in 0..(d - 1) /\ n = d * u + v
  BY <1>4, <1>6
<1>8. QED
  BY <1>7 DEF u, v

LEMMA DividedTwice ==
    ASSUME NEW n \in Nat, NEW d \in Nat \ {0}, NEW e \in Nat \ {0}
    PROVE  n \div (d * e) = (n \div d) \div e
<1> DEFINE q == n \div d
           r == n % d
           u == q \div e
           v == q % e
<1>1. q \in Nat /\ r \in 0..(d - 1) /\ n = d * q + r
  BY Divided
<1>2. u \in Nat /\ v \in 0..(e - 1) /\ q = e * u + v
  BY <1>1, Divided
<1> HIDE DEF q, r, u, v
<1>3. d * e \in Nat \ {0} /\ n = (d * e) * u + (d * v + r)
  BY <1>1, <1>2
<1>4. d * v + r \in 0..(d * e - 1)
  <2>1. v + 1 <= e /\ v \in Nat /\ r \in Nat /\ r <= d - 1
    BY <1>1, <1>2
  <2>2. d * (v + 1) <= d * e
    BY <2>1
  <2>3. d * (v + 1) = d * v + d /\ d * v \in Nat
    BY <2>1
  <2>4. QED
    BY <2>1, <2>2, <2>3
<1>5. n \div (d * e) = u
  BY <1>2, <1>3, <1>4, Quotient
<1>6. QED
  BY <1>5 DEF u, q

\* Every number that four bytes can hold, low byte first,
LEMMA BytesReadBack ==
    ASSUME NEW n \in Nat, n < ByteBase * Weight[4]
    PROVE  bufferToUint32(uint32toBuffer(n)) = n
<1> DEFINE B == ByteBase
           n1 == n \div B
           n2 == n1 \div B
           n3 == n2 \div B
           r0 == n % B
           r1 == n1 % B
           r2 == n2 % B
           w == uint32toBuffer(n)
<1>1. B \in Nat \ {0} /\ B * B \in Nat \ {0} /\ B * B * B \in Nat \ {0}
  BY ByteBaseAssumption
<1>2. n1 \in Nat /\ n2 \in Nat /\ n3 \in Nat
  BY <1>1, Divided
<1>3. /\ n = B * n1 + r0 /\ n1 = B * n2 + r1 /\ n2 = B * n3 + r2
      /\ r0 \in Nat /\ r1 \in Nat /\ r2 \in Nat
  <2>1. n = B * n1 + r0 /\ r0 \in 0..(B - 1)
    BY <1>1, Divided, Zenon
  <2>2. n1 = B * n2 + r1 /\ r1 \in 0..(B - 1)
    BY <1>1, <1>2, Divided, Zenon
  <2>3. n2 = B * n3 + r2 /\ r2 \in 0..(B - 1)
    BY <1>1, <1>2, Divided, Zenon
  <2> HIDE DEF n1, n2, n3, r0, r1, r2
  <2>4. QED
    BY <1>1, <2>1, <2>2, <2>3
<1>4. n \div 1 = n /\ n \div (B * B) = n2 /\ n \div (B * B * B) = n3
  <2>1. n \div 1 = n
    BY Quotient
  <2>2. n \div (B * B) = n2
    BY <1>1, DividedTwice
  <2>3. n \div ((B * B) * B) = (n \div (B * B)) \div B
    BY <1>1, DividedTwice
  <2>4. QED
    BY <2>1, <2>2, <2>3
<1>5. n3 < B
  <2> HIDE DEF n1, n2, n3, r0, r1, r2
  <2>1. n < B * (B * B * B)
    BY DEF Weight
  <2>2. n >= B * n1 /\ n1 >= B * n2 /\ n2 >= B * n3
    BY <1>1, <1>2, <1>3
  <2>3. n >= (B * B * B) * n3
    <3>1. B * n1 >= B * (B * n2) /\ B * (B * n2) >= B * (B * (B * n3))
      BY <1>1, <1>2, <2>2
    <3>2. B * (B * (B * n3)) = (B * B * B) * n3
      BY <1>1, <1>2
    <3>3. QED
      BY <1>1, <1>2, <2>2, <3>1, <3>2
  <2>4. SUFFICES ASSUME n3 >= B PROVE FALSE
    BY <1>1, <1>2
  <2>5. (B * B * B) * n3 >= (B * B * B) * B
    BY <1>1, <1>2, <2>4
  <2>6. QED
    BY <1>1, <1>2, <2>1, <2>3, <2>5
<1>6. n3 % B = n3
  <2> HIDE DEF n3
  <2>1. n3 = B * 0 + n3 /\ n3 \in 0..(B - 1) /\ 0 \in Nat
    BY <1>1, <1>2, <1>5
  <2>2. QED
    BY <1>1, <1>2, <2>1, Quotient
<1>7. w = [i \in 1..4 |-> (n \div Weight[i]) % B]
  BY DEF uint32toBuffer
<1>8. w[1] = r0 /\ w[2] = r1 /\ w[3] = r2 /\ w[4] = n3
  BY <1>4, <1>6, <1>7 DEF Weight
<1>9. bufferToUint32(w) = n
  <2>1. bufferToUint32(w) = r0 + r1 * B + r2 * (B * B) + n3 * (B * B * B)
    BY <1>8 DEF bufferToUint32, Weight
  <2> HIDE DEF n1, n2, n3, r0, r1, r2, w
  <2>2. n = r0 + B * (r1 + B * (r2 + B * n3))
    BY <1>1, <1>2, <1>3
  <2>3. n = r0 + r1 * B + r2 * (B * B) + n3 * (B * B * B)
    BY <1>1, <1>2, <1>3, <2>2
  <2>4. QED
    BY <2>1, <2>3
<1>10. QED
  BY <1>9

\* or high byte first.
LEMMA SizesReadBack ==
    ASSUME NEW n \in Nat, n < ByteBase * Weight[4]
    PROVE  n \in ReadBack
<1> DEFINE w == uint32toBuffer(n)
<1>1. Reverse(setUint32(n)) = w
  <2>1. w \in Seq(Nat) /\ Len(w) = 4 /\ w = [i \in 1..4 |-> w[i]]
    BY SetUint32Facts
  <2> HIDE DEF w
  <2>2. setUint32(n) = [i \in 1..4 |-> w[(4 - i) + 1]]
    BY <2>1 DEF setUint32, Reverse, w
  <2>3. QED
    BY <2>1, <2>2 DEF Reverse
<1>2. bufferToUint32(w) = n
  BY BytesReadBack
<1>3. QED
  BY <1>1, <1>2 DEF ReadBack, getUint32

----------------------------------------------------------------------------
(* The beginnings of a message.                                            *)

LEMMA EncodeSeq ==
    ASSUME NEW V, Nat \subseteq V, NEW items \in Seq(Item(V))
    PROVE  encode(items) \in Seq(V)
<1>1. Len(items) \in Nat /\ Len(items) \in 0..Len(items)
  OBVIOUS
<1>2. PICK p : Packs(items, p) /\ encode(items) = p[Len(items)]
  BY <1>1, EncodePacks
<1>3. QED
  BY <1>1, <1>2, PackedSeq

\* What decode makes of the first n bytes of an encoded message: the first of
\* its items, as they were encoded and in their order, or an exception; and of
\* all its bytes all its items (pack.encode, pack.decode).
THEOREM BeginningsDecode ==
    ASSUME NEW V, Nat \subseteq V, NEW items \in Seq(Item(V)),
           \A k \in 1..Len(items) : Len(items[k].data) < ByteBase * Weight[4],
           NEW n \in 1..Len(encode(items)), NEW got,
           got = decode(SubSeq(encode(items), 1, n))
    PROVE  /\ got.items \in Seq(Item(V))
           /\ got.ok => Follow(got.items, items, 0)
           /\ n = Len(encode(items)) => got.ok /\ Len(got.items) = Len(items)
<1> DEFINE all == encode(items)
           cut == SubSeq(all, 1, n)
<1>1. Len(items) \in Nat /\ 0 \in 0..Len(items)
  OBVIOUS
<1>2. PICK p : Packs(items, p) /\ all = p[Len(items)]
  BY <1>1, EncodePacks
<1>3. all \in Seq(V) /\ p[0] \in Seq(V) /\ Len(all) \in Nat
  BY <1>1, <1>2, PackedSeq
<1>4. cut \in Seq(V) /\ Len(cut) = n /\ \A j \in 1..n : all[j] = cut[j]
  <2>1. n \in Nat /\ 1 <= n /\ n <= Len(all) /\ \A j \in 1..n : all[j] \in V
    BY <1>3
  <2> HIDE DEF all
  <2>2. /\ cut \in Seq(V) /\ Len(cut) = IF 1 <= n THEN n - 1 + 1 ELSE 0
        /\ \A j \in 1..(n - 1 + 1) : cut[j] = all[1 + j - 1]
    BY <2>1, SubSeqProperties
  <2>3. n - 1 + 1 = n /\ \A j \in 1..n : 1 + j - 1 = j
    BY <2>1
  <2> HIDE DEF cut
  <2>4. QED
    BY <2>1, <2>2, <2>3
<1>5. n \in Nat /\ n # 0 /\ n <= Len(all) /\ 1 <= n
  BY <1>3
<1> HIDE DEF all, cut
<1>6. Extends(cut, p[Len(items)])
  BY <1>2, <1>4, <1>5 DEF Extends
<1>7. PICK f : Reads(cut, f) /\ decode(cut) = f[1]
  BY <1>4, <1>5, DecodeReads
<1>8. Len(p[0]) = 1
  <2>1. p[0] = <<VERSION>>
    <3>1. p = [i \in 0..Len(items) |-> Pack(items, p, i)]
      BY <1>2, Zenon DEF Packs
    <3>2. QED
      BY <1>1, <3>1, Zenon DEF Pack
  <2>2. QED
    BY <2>1
<1>9. \A k \in 1..Len(items) : Len(items[k].data) \in ReadBack
  <2>1. ASSUME NEW k \in 1..Len(items) PROVE Len(items[k].data) \in Nat
    BY DEF Item
  <2>2. QED
    BY <2>1, SizesReadBack
<1>10. Walks(V, items, 0, Len(cut) = Len(p[Len(items)]), f[Len(p[0])])
  <2>1. Len(p[0]) <= Len(cut)
    BY <1>4, <1>5, <1>8
  <2>2. QED
    BY <1>1, <1>2, <1>4, <1>6, <1>7, <1>9, <2>1, WalksOn
<1>11. got = f[1]
  BY <1>7, Zenon DEF cut, all
<1>12. Walks(V, items, 0, n = Len(all), got)
  BY <1>2, <1>4, <1>8, <1>10, <1>11, Zenon
<1>13. Len(got.items) \in Nat
  BY <1>12 DEF Walks
<1>14. n = Len(all) => got.ok /\ 0 + Len(got.items) = Len(items)
  BY <1>12, Zenon DEF Walks
<1>15. 0 + Len(got.items) = Len(got.items)
  BY <1>13
<1>16. QED
  BY <1>12, <1>14, <1>15, Zenon DEF Walks, all
=============================================================================
