------------------------- MODULE FileEvictorProofs -------------------------
(***************************************************************************)
(* For any keys, sizes, caps, writers and readers: the index of the disk   *)
(* cache accounts for its bytes, keeps the writes in flight and knows the  *)
(* files on disk (IndexSound), and the eviction loop makes room enough, of *)
(* the coldest files (EvictionPolicy).                                     *)
(***************************************************************************)
EXTENDS FileEvictor, TLAPS, FiniteSetTheorems, SequenceTheorems, WellFoundedInduction

-----------------------------------------------------------------------------
(* Bytes: sums over sets of keys, as the numbers of their bytes *)

Contents(f, S) == {c \in S \X (1..Cap) : c[2] <= f[c[1]]}

\* A sum of finitely many sizes is a natural number.
LEMMA BytesNat ==
    ASSUME NEW f, NEW S, IsFiniteSet(S)
    PROVE  IsFiniteSet(Contents(f, S)) /\ Bytes(f, S) \in Nat /\ Bytes(f, S) = Cardinality(Contents(f, S))
<1>0. Cap \in Int /\ 1 \in Int
  BY EvictorAssumption
<1>1. IsFiniteSet(S \X (1..Cap))
  <2>1. IsFiniteSet(1..Cap)
    BY <1>0, FS_Interval
  <2> QED BY <2>1, FS_Product
<1>2. IsFiniteSet(Contents(f, S))
  BY <1>1, FS_Subset DEF Contents
<1> QED BY <1>2, FS_CardinalityType DEF Contents, Bytes

\* Only the sizes of the keys of S count.
LEMMA BytesSame ==
    ASSUME NEW f, NEW g, NEW S, \A k \in S : f[k] = g[k]
    PROVE  Bytes(f, S) = Bytes(g, S)
<1>1. \A c \in S \X (1..Cap) : f[c[1]] = g[c[1]]
  OBVIOUS
<1>2. {c \in S \X (1..Cap) : c[2] <= f[c[1]]} = {c \in S \X (1..Cap) : c[2] <= g[c[1]]}
  BY <1>1
<1> QED BY <1>2 DEF Bytes

\* A key's bytes can be counted apart.
LEMMA BytesApart ==
    ASSUME NEW f, NEW S, IsFiniteSet(S), NEW k \in S, f[k] \in 0..Cap
    PROVE  Bytes(f, S) = Bytes(f, S \ {k}) + f[k]
<1> DEFINE A == Contents(f, S \ {k})
           B == {k} \X (1..f[k])
<1>0. Cap \in Nat /\ f[k] \in Nat /\ f[k] <= Cap
  BY EvictorAssumption
<1>1. IsFiniteSet(S \ {k})
  BY FS_Subset
<1>2. IsFiniteSet(A) /\ Bytes(f, S \ {k}) = Cardinality(A) /\ Cardinality(A) \in Nat
  BY <1>1, BytesNat
<1>3. IsFiniteSet(B) /\ Cardinality(B) = f[k]
  <2>1. IsFiniteSet({k}) /\ Cardinality({k}) = 1
    BY FS_Singleton
  <2>2. IsFiniteSet(1..f[k]) /\ Cardinality(1..f[k]) = f[k]
    <3>1. 1 \in Int /\ f[k] \in Int
      BY <1>0
    <3>2. IsFiniteSet(1..f[k]) /\ Cardinality(1..f[k]) = IF 1 > f[k] THEN 0 ELSE f[k] - 1 + 1
      BY <3>1, FS_Interval
    <3> QED BY <1>0, <3>2
  <2>3. IsFiniteSet(B) /\ Cardinality(B) = Cardinality({k}) * Cardinality(1..f[k])
    BY <2>1, <2>2, FS_Product
  <2> QED BY <2>1, <2>2, <2>3, <1>0
<1>4. A \cap B = {}
  BY DEF Contents
<1>5. Contents(f, S) = A \cup B
  <2>1. ASSUME NEW c \in Contents(f, S) PROVE c \in A \cup B
    <3>1. c \in S \X (1..Cap) /\ c[2] <= f[c[1]]
      BY <2>1 DEF Contents
    <3>2. PICK x \in S, n \in 1..Cap : c = <<x, n>> /\ n <= f[x]
      BY <3>1
    <3>3. CASE x = k
      <4>1. n \in 1..f[k]
        BY <3>2, <3>3, <1>0
      <4> QED BY <3>2, <3>3, <4>1
    <3>4. CASE x # k
      <4>1. c \in (S \ {k}) \X (1..Cap)
        BY <3>2, <3>4
      <4> QED BY <3>1, <4>1 DEF Contents
    <3> QED BY <3>3, <3>4
  <2>2. ASSUME NEW c \in A PROVE c \in Contents(f, S)
    BY <2>2 DEF Contents
  <2>3. ASSUME NEW c \in B PROVE c \in Contents(f, S)
    <3>1. PICK n \in 1..f[k] : c = <<k, n>>
      BY <2>3
    <3>2. n \in 1..Cap /\ n <= f[k]
      BY <1>0
    <3> QED BY <3>1, <3>2 DEF Contents
  <2> QED BY <2>1, <2>2, <2>3
<1>6. Cardinality(A \cup B) = Cardinality(A) + f[k]
  <2> HIDE DEF A, B
  <2>1. Cardinality(A \cup B) = Cardinality(A) + Cardinality(B) - Cardinality(A \cap B)
    BY <1>2, <1>3, FS_Union
  <2>2. Cardinality(A \cap B) = 0
    BY <1>4, FS_EmptySet
  <2> QED BY <1>0, <1>2, <1>3, <2>1, <2>2
<1> QED BY <1>2, <1>5, <1>6, BytesNat

Sized(f) == f \in [Keys -> 0..Cap]

\* A key of no bytes may be counted or not.
LEMMA BytesBut ==
    ASSUME NEW f, Sized(f), NEW S \in SUBSET Keys, NEW k \in Keys, k \in S \/ f[k] = 0
    PROVE  Bytes(f, S) = Bytes(f, S \ {k}) + f[k] /\ Bytes(f, S \ {k}) \in Nat /\ Bytes(f, S) \in Nat
<1>1. IsFiniteSet(S) /\ IsFiniteSet(S \ {k}) /\ f[k] \in 0..Cap /\ Cap \in Nat
  BY FS_Subset, EvictorAssumption DEF Sized
<1>2. CASE k \in S
  BY <1>1, <1>2, BytesApart, BytesNat
<1>3. CASE k \notin S
  <2>1. S \ {k} = S /\ f[k] = 0
    BY <1>3
  <2> QED BY <1>1, <2>1, BytesNat
<1> QED BY <1>2, <1>3

\* A key enters, or gets another size.
LEMMA BytesEnter ==
    ASSUME NEW f, Sized(f), NEW S \in SUBSET Keys, NEW k \in Keys, k \in S \/ f[k] = 0, NEW n \in 0..Cap
    PROVE  Bytes([f EXCEPT ![k] = n], S \cup {k}) = Bytes(f, S) - f[k] + n
<1> DEFINE g == [f EXCEPT ![k] = n]
<1>0. Sized(g) /\ g[k] = n /\ (\A x \in S \ {k} : g[x] = f[x]) /\ f[k] \in Nat /\ n \in Nat
  BY EvictorAssumption DEF Sized
<1> HIDE DEF g
<1>1. (S \cup {k}) \ {k} = S \ {k} /\ S \cup {k} \in SUBSET Keys
  OBVIOUS
<1>2. Bytes(g, S \cup {k}) = Bytes(g, S \ {k}) + n
  BY <1>0, <1>1, BytesBut
<1>3. Bytes(g, S \ {k}) = Bytes(f, S \ {k})
  BY <1>0, BytesSame
<1>4. Bytes(f, S) = Bytes(f, S \ {k}) + f[k] /\ Bytes(f, S \ {k}) \in Nat
  BY BytesBut
<1>5. Bytes(g, S \cup {k}) = Bytes(f, S) - f[k] + n
  BY <1>0, <1>2, <1>3, <1>4
<1> QED BY <1>5 DEF g

\* A key leaves.
LEMMA BytesLeave ==
    ASSUME NEW f, Sized(f), NEW S \in SUBSET Keys, NEW k \in Keys, k \in S \/ f[k] = 0
    PROVE  Bytes([f EXCEPT ![k] = 0], S \ {k}) = Bytes(f, S) - f[k]
<1> DEFINE g == [f EXCEPT ![k] = 0]
<1>1. (\A x \in S \ {k} : g[x] = f[x]) /\ f[k] \in Nat
  BY EvictorAssumption DEF Sized
<1> HIDE DEF g
<1>2. Bytes(g, S \ {k}) = Bytes(f, S \ {k})
  BY <1>1, BytesSame
<1>3. Bytes(f, S) = Bytes(f, S \ {k}) + f[k] /\ Bytes(f, S \ {k}) \in Nat
  BY BytesBut
<1>4. Bytes(g, S \ {k}) = Bytes(f, S) - f[k]
  BY <1>1, <1>2, <1>3
<1> QED BY <1>4 DEF g

\* No keys, no bytes.
LEMMA BytesNone == \A f : Bytes(f, {}) = 0
<1> TAKE f
<1>1. Contents(f, {}) = {}
  BY DEF Contents
<1> QED BY <1>1, FS_EmptySet DEF Contents, Bytes

-----------------------------------------------------------------------------
(* The order of the index *)

Distinct(seq) == \A i, j \in 1..Len(seq) : seq[i] = seq[j] => i = j
Entries(seq) == {seq[i] : i \in 1..Len(seq)}
Order(seq) == seq \in Seq(Keys) /\ Distinct(seq)

\* A key that is there leaves a gap, which the later ones close.
LEMMA WithoutIn ==
    ASSUME NEW seq, Order(seq), NEW p \in 1..Len(seq)
    PROVE  LET s == Without(seq, seq[p]) IN
           /\ s \in Seq(Keys) /\ Len(s) = Len(seq) - 1
           /\ \A i \in 1..Len(s) : s[i] = seq[IF i < p THEN i ELSE i + 1]
<1> DEFINE k == seq[p]
           s == [i \in 1..(Len(seq) - 1) |-> seq[IF i < p THEN i ELSE i + 1]]
<1>0. seq \in Seq(Keys) /\ Len(seq) \in Nat /\ p \in 1..Len(seq)
  BY DEF Order
<1>1. (CHOOSE i \in 1..Len(seq) : seq[i] = k) = p
  <2>1. \A i \in 1..Len(seq) : seq[i] = k => i = p
    BY DEF Order, Distinct
  <2> QED BY <2>1
<1>2. Without(seq, k) = s
  BY <1>1 DEF Without
<1>3. \A i \in 1..(Len(seq) - 1) : seq[IF i < p THEN i ELSE i + 1] \in Keys
  BY <1>0
<1>4. s \in Seq(Keys) /\ Len(s) = Len(seq) - 1
  BY <1>0, <1>3, IsASeq
<1> QED BY <1>2, <1>4

\* What is in s was in seq, in the same order and not before where it is now.
InOrder(s, seq) ==
    \A i, j \in 1..Len(s) : i < j =>
        \E a, b \in 1..Len(seq) : a < b /\ j <= b /\ s[i] = seq[a] /\ s[j] = seq[b]

\* The same, but for k, which is behind all others.
InOrderBut(t, seq, k) ==
    \A i, j \in 1..Len(t) : i < j =>
        \/ t[j] = k /\ t[i] \in Entries(seq) \ {k}
        \/ /\ t[i] # k /\ t[j] # k
           /\ \E a, b \in 1..Len(seq) : a < b /\ j <= b /\ t[i] = seq[a] /\ t[j] = seq[b]

\* Whether the key is there or not, the others stay in their order and move forward at most.
LEMMA WithoutShape ==
    ASSUME NEW seq, Order(seq), NEW k
    PROVE  /\ Order(Without(seq, k)) /\ Entries(Without(seq, k)) = Entries(seq) \ {k}
           /\ InOrder(Without(seq, k), seq)
<1> DEFINE s == Without(seq, k)
<1>0. seq \in Seq(Keys) /\ Len(seq) \in Nat
  BY DEF Order
<1>1. CASE \E i \in 1..Len(seq) : seq[i] = k
  <2>1. PICK p \in 1..Len(seq) : seq[p] = k
    BY <1>1
  <2> DEFINE from(i) == IF i < p THEN i ELSE i + 1
  <2>2. s \in Seq(Keys) /\ Len(s) = Len(seq) - 1 /\ \A i \in 1..Len(s) : s[i] = seq[from(i)]
    BY <2>1, WithoutIn
  <2> HIDE DEF s
  <2>3. \A i \in 1..Len(s) : from(i) \in 1..Len(seq) /\ from(i) # p /\ i <= from(i)
    BY <1>0, <2>2
  <2>4. \A i, j \in 1..Len(s) : i < j => from(i) < from(j)
    BY <1>0, <2>2
  <2>5. \A i, j \in 1..Len(seq) : seq[i] = seq[j] => i = j
    BY DEF Order, Distinct
  <2>6. Distinct(s)
    <3> SUFFICES ASSUME NEW i \in 1..Len(s), NEW j \in 1..Len(s), s[i] = s[j] PROVE i = j
      BY DEF Distinct
    <3>1. from(i) = from(j)
      BY <2>2, <2>3, <2>5
    <3> QED BY <1>0, <2>2, <3>1
  <2>7. Entries(s) \subseteq Entries(seq) \ {k}
    <3> SUFFICES ASSUME NEW i \in 1..Len(s) PROVE s[i] \in Entries(seq) /\ s[i] # k
      BY DEF Entries
    <3>1. s[i] = seq[from(i)] /\ from(i) \in 1..Len(seq) /\ from(i) # p
      BY <2>2, <2>3
    <3>2. seq[from(i)] # seq[p]
      BY <2>5, <3>1
    <3> QED BY <2>1, <3>1, <3>2 DEF Entries
  <2>8. Entries(seq) \ {k} \subseteq Entries(s)
    <3> SUFFICES ASSUME NEW n \in 1..Len(seq), seq[n] # k PROVE \E i \in 1..Len(s) : s[i] = seq[n]
      BY DEF Entries
    <3>1. n # p
      BY <2>1
    <3>2. CASE n < p
      <4>1. n \in 1..Len(s) /\ from(n) = n
        BY <1>0, <2>2, <3>2
      <4> QED BY <2>2, <4>1
    <3>3. CASE n > p
      <4>1. n - 1 \in 1..Len(s) /\ from(n - 1) = n
        BY <1>0, <2>2, <3>3
      <4> QED BY <2>2, <4>1
    <3> QED BY <3>1, <3>2, <3>3
  <2>9. ASSUME NEW i \in 1..Len(s), NEW j \in 1..Len(s), i < j
        PROVE  \E a, b \in 1..Len(seq) : a < b /\ j <= b /\ s[i] = seq[a] /\ s[j] = seq[b]
    BY <2>2, <2>3, <2>4, <2>9
  <2>10. Order(s) /\ Entries(s) = Entries(seq) \ {k}
    BY <2>2, <2>6, <2>7, <2>8 DEF Order
  <2>11. InOrder(s, seq)
    BY <2>9 DEF InOrder
  <2> QED BY <2>10, <2>11 DEF s
<1>2. CASE ~ \E i \in 1..Len(seq) : seq[i] = k
  <2>1. s = seq
    BY <1>2 DEF Without
  <2>2. Entries(seq) = Entries(seq) \ {k}
    BY <1>2 DEF Entries
  <2> HIDE DEF s
  <2>3. ASSUME NEW i \in 1..Len(seq), NEW j \in 1..Len(seq), i < j
        PROVE  \E a, b \in 1..Len(seq) : a < b /\ j <= b /\ seq[i] = seq[a] /\ seq[j] = seq[b]
    BY <1>0, <2>3
  <2>4. InOrder(seq, seq)
    BY <2>3 DEF InOrder
  <2> QED BY <2>1, <2>2, <2>4 DEF s
<1> QED BY <1>1, <1>2

\* A key that goes to the tail is behind all others, which keep their order.
LEMMA ToTailShape ==
    ASSUME NEW seq, Order(seq), NEW k \in Keys
    PROVE  LET t == Append(Without(seq, k), k) IN
           /\ Order(t) /\ Entries(t) = Entries(seq) \cup {k}
           /\ InOrderBut(t, seq, k)
<1> DEFINE s == Without(seq, k)
           t == Append(s, k)
<1>0. Order(s) /\ Entries(s) = Entries(seq) \ {k} /\ InOrder(s, seq)
  BY WithoutShape
<1>1. /\ Order(s) /\ Entries(s) = Entries(seq) \ {k}
      /\ \A i, j \in 1..Len(s) : i < j =>
            \E a, b \in 1..Len(seq) : a < b /\ j <= b /\ s[i] = seq[a] /\ s[j] = seq[b]
  BY <1>0 DEF InOrder
<1> HIDE DEF s
<1>2. s \in Seq(Keys) /\ Len(s) \in Nat /\ Distinct(s)
  BY <1>1 DEF Order
<1>3. t \in Seq(Keys) /\ Len(t) = Len(s) + 1 /\ t[Len(t)] = k /\ \A i \in 1..Len(s) : t[i] = s[i]
  BY <1>2, AppendProperties
<1> HIDE DEF t
<1>4. \A i \in 1..Len(s) : s[i] # k /\ s[i] \in Entries(seq)
  BY <1>1 DEF Entries
<1>5. \A i \in 1..Len(t) : i \in 1..Len(s) \/ i = Len(t)
  BY <1>2, <1>3
<1>6. Distinct(t)
  BY <1>2, <1>3, <1>4, <1>5 DEF Distinct
<1>7. Entries(t) = Entries(s) \cup {k}
  <2>1. Entries(t) \subseteq Entries(s) \cup {k}
    BY <1>3, <1>5 DEF Entries
  <2>2. \A i \in 1..Len(s) : i \in 1..Len(t)
    BY <1>2, <1>3
  <2>3. Len(t) \in 1..Len(t)
    BY <1>2, <1>3
  <2>4. Entries(s) \subseteq Entries(t)
    BY <1>3, <2>2 DEF Entries
  <2>5. k \in Entries(t)
    BY <1>3, <2>3 DEF Entries
  <2> QED BY <2>1, <2>4, <2>5
<1>8. Entries(t) = Entries(seq) \cup {k}
  BY <1>1, <1>7
<1>9. ASSUME NEW i \in 1..Len(t), NEW j \in 1..Len(t), i < j
      PROVE  \/ t[j] = k /\ t[i] \in Entries(seq) \ {k}
             \/ /\ t[i] # k /\ t[j] # k
                /\ \E a, b \in 1..Len(seq) : a < b /\ j <= b /\ t[i] = seq[a] /\ t[j] = seq[b]
  <2>1. i \in 1..Len(s)
    BY <1>2, <1>3, <1>9
  <2>2. t[i] = s[i] /\ t[i] # k /\ t[i] \in Entries(seq)
    BY <1>3, <1>4, <2>1
  <2>3. CASE j = Len(t)
    BY <1>3, <2>2, <2>3
  <2>4. CASE j \in 1..Len(s)
    BY <1>1, <1>3, <1>4, <1>9, <2>1, <2>2, <2>4
  <2> QED BY <1>5, <2>3, <2>4
<1>10. Order(t)
  BY <1>3, <1>6 DEF Order
<1>11. InOrderBut(t, seq, k)
  BY <1>9 DEF InOrderBut
<1> QED BY <1>8, <1>10, <1>11 DEF t, s

\* A key that goes to the front pushes back those that were before it, and no others.
LEMMA ToFrontShape ==
    ASSUME NEW seq, Order(seq), NEW p \in 1..Len(seq)
    PROVE  LET t == <<seq[p]>> \o Without(seq, seq[p]) IN
           /\ Order(t) /\ Entries(t) = Entries(seq) /\ Len(t) = Len(seq)
           /\ \A i \in 1..Len(t) : t[i] = seq[IF i = 1 THEN p ELSE IF i <= p THEN i - 1 ELSE i]
<1> DEFINE s == Without(seq, seq[p])
           t == <<seq[p]>> \o s
           from(i) == IF i = 1 THEN p ELSE IF i <= p THEN i - 1 ELSE i
<1>0. seq \in Seq(Keys) /\ Len(seq) \in Nat /\ \A i, j \in 1..Len(seq) : seq[i] = seq[j] => i = j
  BY DEF Order, Distinct
<1>1. s \in Seq(Keys) /\ Len(s) = Len(seq) - 1 /\ \A i \in 1..Len(s) : s[i] = seq[IF i < p THEN i ELSE i + 1]
  BY WithoutIn
<1> HIDE DEF s
<1>2. seq[p] \in Keys
  BY <1>0
<1>3. <<seq[p]>> \in Seq(Keys) /\ Len(<<seq[p]>>) = 1 /\ <<seq[p]>>[1] = seq[p]
  BY <1>2
<1>4. t \in Seq(Keys) /\ Len(t) = 1 + Len(s)
      /\ \A i \in 1..(1 + Len(s)) : t[i] = IF i <= 1 THEN <<seq[p]>>[i] ELSE s[i - 1]
  BY <1>1, <1>3, ConcatProperties
<1> HIDE DEF t
<1>5. Len(t) = Len(seq)
  BY <1>0, <1>1, <1>4
<1>6. ASSUME NEW i \in 1..Len(t) PROVE t[i] = seq[from(i)]
  <2>1. CASE i = 1
    BY <1>3, <1>4, <2>1
  <2>2. CASE i # 1
    <3>1. i - 1 \in 1..Len(s) /\ t[i] = s[i - 1]
      BY <1>0, <1>1, <1>4, <1>5, <2>2
    <3>2. s[i - 1] = seq[IF i - 1 < p THEN i - 1 ELSE i]
      BY <1>0, <1>1, <3>1
    <3> QED BY <1>0, <1>5, <2>2, <3>1, <3>2
  <2> QED BY <2>1, <2>2
<1>7. \A i \in 1..Len(seq) : from(i) \in 1..Len(seq)
  BY <1>0
<1>8. \A i, j \in 1..Len(seq) : from(i) = from(j) => i = j
  BY <1>0
<1>9. Distinct(t)
  <2> SUFFICES ASSUME NEW i \in 1..Len(t), NEW j \in 1..Len(t), t[i] = t[j] PROVE i = j
    BY DEF Distinct
  <2>1. from(i) = from(j)
    BY <1>0, <1>5, <1>6, <1>7
  <2> QED BY <1>5, <1>8, <2>1
<1>10. Entries(t) \subseteq Entries(seq)
  BY <1>5, <1>6, <1>7 DEF Entries
<1>11. Entries(seq) \subseteq Entries(t)
  <2> SUFFICES ASSUME NEW n \in 1..Len(seq) PROVE \E i \in 1..Len(t) : t[i] = seq[n]
    BY DEF Entries
  <2> DEFINE to == IF n = p THEN 1 ELSE IF n < p THEN n + 1 ELSE n
  <2>1. to \in 1..Len(t) /\ from(to) = n
    BY <1>0, <1>5
  <2> QED BY <1>6, <2>1
<1>12. Order(t) /\ Entries(t) = Entries(seq)
  BY <1>4, <1>9, <1>10, <1>11 DEF Order
<1> QED BY <1>5, <1>6, <1>12 DEF t, s
-----------------------------------------------------------------------------
(* The victim *)

\* Every set of natural numbers has a least one.
LEMMA LeastNat ==
    ASSUME NEW T \in SUBSET Nat, T # {}
    PROVE  \E x \in T : \A y \in T : x <= y
<1> DEFINE R == {p \in Nat \X Nat : p[1] < p[2]}
<1>1. OpToRel(<, Nat) = R
  BY DEF OpToRel
<1>2. IsWellFoundedOn(R, Nat)
  BY <1>1, NatLessThanWellFounded
<1>3. PICK x \in T : \A y \in T : ~ (<<y, x>> \in R)
  BY <1>2, WFMin
<1>4. ASSUME NEW y \in T PROVE x <= y
  <2>1. x \in Nat /\ y \in Nat /\ ~ (<<y, x>> \in R)
    BY <1>3
  <2>2. ~ (y < x)
    BY <2>1
  <2> QED BY <2>1, <2>2
<1> QED BY <1>4

IndexType ==
    /\ Order(lru)
    /\ Sized(size) /\ Sized(disk)
    /\ heat \in [Keys -> [at : Nat, hits : Nat]]
    /\ pending \in SUBSET Keys
    /\ now \in Nat

\* The retention score grows with the time and with the read-backs.
LEMMA ScoreGrows ==
    ASSUME IndexType, NEW u \in Keys, NEW v \in Keys,
           heat[v].at < heat[u].at, heat[v].hits <= heat[u].hits
    PROVE  Score(v) < Score(u)
<1>1. /\ heat[u].at \in Nat /\ heat[v].at \in Nat /\ heat[u].hits \in Nat /\ heat[v].hits \in Nat
      /\ HitWorth \in Nat
  BY EvictorAssumption DEF IndexType
<1>2. \A n, a, b \in Nat : a <= b => n * a <= n * b /\ n * a \in Nat /\ n * b \in Nat
  <2> TAKE n \in Nat, a \in Nat, b \in Nat
  <2> HAVE a <= b
  <2>1. b - a \in Nat /\ b = a + (b - a)
    OBVIOUS
  <2>2. n * b = n * a + n * (b - a) /\ n * (b - a) \in Nat /\ n * a \in Nat /\ n * b \in Nat
    BY <2>1
  <2> QED BY <2>2
<1>3. /\ HitWorth * heat[v].hits <= HitWorth * heat[u].hits
      /\ HitWorth * heat[v].hits \in Nat /\ HitWorth * heat[u].hits \in Nat
  BY <1>1, <1>2
<1> QED BY <1>1, <1>3 DEF Score

\* The loop finds a victim in its window that no other one there undercuts.
LEMMA VictimIsLowest ==
    ASSUME IndexType, InWindow # {}
    PROVE  \E p \in InWindow : /\ Victim = lru[p]
                               /\ \A j \in InWindow : ~ (Score(lru[j]) < Score(lru[p]))
<1>0. \A i \in InWindow : i \in 1..Len(lru) /\ i \in Nat /\ lru[i] \in Keys
  <2>1. lru \in Seq(Keys) /\ Len(lru) \in Nat /\ Window \in Nat
    BY EvictorAssumption DEF IndexType, Order
  <2> QED BY <2>1 DEF InWindow, UpTo
<1>1. \A i \in InWindow : Score(lru[i]) \in Nat
  <2> TAKE i \in InWindow
  <2>1. heat[lru[i]].at \in Nat /\ heat[lru[i]].hits \in Nat /\ HitWorth \in Nat
    BY <1>0, EvictorAssumption DEF IndexType
  <2>2. HitWorth * heat[lru[i]].hits \in Nat
    BY <2>1
  <2> QED BY <2>1, <2>2 DEF Score
<1> DEFINE sc(i) == Score(lru[i])
<1> HIDE DEF sc
<1>2. \A i \in InWindow : sc(i) \in Nat
  BY <1>1 DEF sc
<1>3. PICK m \in {sc(i) : i \in InWindow} : \A y \in {sc(i) : i \in InWindow} : m <= y
  <2>1. {sc(i) : i \in InWindow} \in SUBSET Nat /\ {sc(i) : i \in InWindow} # {}
    BY <1>2
  <2> QED BY <2>1, LeastNat
<1> DEFINE L == {i \in InWindow : sc(i) = m}
<1>4. PICK p \in L : \A y \in L : p <= y
  <2>1. L \in SUBSET Nat /\ L # {}
    BY <1>0, <1>3
  <2> QED BY <2>1, LeastNat
<1>5. \A j \in InWindow : sc(p) < sc(j) \/ (sc(p) = sc(j) /\ p <= j)
  <2> TAKE j \in InWindow
  <2>1. sc(p) = m /\ m <= sc(j) /\ sc(j) \in Nat /\ m \in Nat
    BY <1>2, <1>3, <1>4
  <2>2. CASE sc(j) = m
    BY <1>4, <2>1, <2>2
  <2>3. CASE sc(j) # m
    BY <2>1, <2>3
  <2> QED BY <2>2, <2>3
<1> DEFINE q == CHOOSE i \in InWindow : \A j \in InWindow :
                  sc(i) < sc(j) \/ (sc(i) = sc(j) /\ i <= j)
<1>6. q \in InWindow /\ \A j \in InWindow : sc(q) < sc(j) \/ (sc(q) = sc(j) /\ q <= j)
  BY <1>4, <1>5
<1>7. Victim = lru[q]
  BY DEF Victim, sc
<1> HIDE DEF q
<1>8. \A j \in InWindow : ~ (sc(j) < sc(q))
  BY <1>2, <1>6
<1> QED BY <1>6, <1>7, <1>8 DEF sc

-----------------------------------------------------------------------------
(* The index: its entries enter, move and leave *)

Colder(v, u) == heat[v].at < heat[u].at /\ heat[v].hits <= heat[u].hits

\* Nothing behind the window is colder than what stands before it, apart from keys renewed
\* with a time read too early.  Within the window a failed unlink may disturb the order.
OrderInv ==
    /\ \A k \in Keys : heat[k].at <= now
    /\ \A i, j \in 1..Len(lru) : i < j /\ j > Window /\ lru[j] \notin late => ~Colder(lru[j], lru[i])

IndexInv == IndexType /\ TotalExact /\ OrderInv

LEMMA TrackedIsEntries == Tracked = Entries(lru) /\ (IndexType => Tracked \in SUBSET Keys)
<1>1. Tracked = Entries(lru)
  BY DEF Tracked, Entries
<1>2. ASSUME IndexType PROVE Tracked \in SUBSET Keys
  <2>1. lru \in Seq(Keys)
    BY <1>2 DEF IndexType, Order
  <2>2. \A i \in 1..Len(lru) : lru[i] \in Keys
    BY <2>1
  <2> QED BY <2>2 DEF Tracked
<1> QED BY <1>1, <1>2

LEMMA TrackedIsEntriesNext == Tracked' = Entries(lru')
  BY DEF Tracked, Entries

\* A key enters or is renewed: it goes to the tail with a time that is not in the future.
LEMMA GoesToTail ==
    ASSUME IndexType, OrderInv, NEW k \in Keys, NEW at \in Nat, NEW hits \in Nat, at <= now,
           lru' = ToTail(k), heat' = [heat EXCEPT ![k] = Heat(at, hits)], now' = now,
           late' = IF at < now THEN late \cup {k} ELSE late \ {k}
    PROVE  /\ Order(lru)' /\ heat' \in [Keys -> [at : Nat, hits : Nat]] /\ now' \in Nat
           /\ Tracked' = Tracked \cup {k} /\ OrderInv'
<1>0. Order(lru) /\ lru' = Append(Without(lru, k), k) /\ now \in Nat /\ heat \in [Keys -> [at : Nat, hits : Nat]]
      /\ Window \in Nat
  BY EvictorAssumption DEF IndexType, ToTail
<1>1. /\ Order(lru') /\ Entries(lru') = Entries(lru) \cup {k}
      /\ \A i, j \in 1..Len(lru') : i < j =>
            \/ lru'[j] = k /\ lru'[i] \in Entries(lru) \ {k}
            \/ /\ lru'[i] # k /\ lru'[j] # k
               /\ \E a, b \in 1..Len(lru) : a < b /\ j <= b /\ lru'[i] = lru[a] /\ lru'[j] = lru[b]
  <2>1. Order(lru') /\ Entries(lru') = Entries(lru) \cup {k} /\ InOrderBut(lru', lru, k)
    BY <1>0, ToTailShape
  <2> QED BY <2>1 DEF InOrderBut
<1>2. Tracked' = Tracked \cup {k}
  BY <1>1, TrackedIsEntries, TrackedIsEntriesNext
<1>3. Heat(at, hits) \in [at : Nat, hits : Nat] /\ Heat(at, hits).at = at /\ Heat(at, hits).hits = hits
  BY DEF Heat
<1>4. /\ heat' \in [Keys -> [at : Nat, hits : Nat]]
      /\ heat'[k] = Heat(at, hits) /\ \A x \in Keys \ {k} : heat'[x] = heat[x]
  BY <1>0, <1>3
<1>5. \A x \in Keys : heat'[x].at <= now'
  BY <1>3, <1>4 DEF OrderInv
<1>6. ASSUME NEW i \in 1..Len(lru'), NEW j \in 1..Len(lru'), i < j, j > Window, lru'[j] \notin late'
      PROVE  ~ Colder(lru[j], lru[i])'
  <2>0. lru'[i] \in Keys /\ lru'[j] \in Keys /\ i \in Nat /\ j \in Nat
    <3>1. lru' \in Seq(Keys)
      BY <1>1 DEF Order
    <3> QED BY <3>1
  <2>1. CASE lru'[j] = k
    <3>1. ~ (at < now)
      BY <1>6, <2>1
    <3>2. heat'[lru'[j]].at = now
      BY <1>0, <1>3, <1>4, <2>1, <3>1
    <3>3. heat'[lru'[i]].at <= now /\ heat'[lru'[i]].at \in Nat
      BY <1>4, <1>5, <2>0
    <3>4. PICK a \in Nat : a = heat'[lru'[i]].at /\ a <= now
      BY <3>3
    <3>5. now \in Nat
      BY <1>0
    <3>6. ~ (now < a)
      BY <3>4, <3>5
    <3> QED BY <3>2, <3>4, <3>6, Zenon DEF Colder
  <2>2. CASE lru'[j] # k
    <3>1. /\ lru'[i] # k
          /\ \E a, b \in 1..Len(lru) : a < b /\ j <= b /\ lru'[i] = lru[a] /\ lru'[j] = lru[b]
      BY <1>1, <1>6, <2>2
    <3>2. PICK a \in 1..Len(lru), b \in 1..Len(lru) :
             a < b /\ j <= b /\ lru'[i] = lru[a] /\ lru'[j] = lru[b]
      BY <3>1
    <3>3. lru[b] \notin late
      BY <1>6, <2>2, <3>2
    <3>4. b > Window
      <4>1. b \in Nat
        BY <1>0 DEF Order
      <4> QED BY <1>0, <1>6, <2>0, <3>2, <4>1
    <3>5. ~ Colder(lru[b], lru[a])
      BY <3>2, <3>3, <3>4 DEF OrderInv
    <3>6. heat'[lru'[i]] = heat[lru[a]] /\ heat'[lru'[j]] = heat[lru[b]]
      BY <1>4, <2>0, <2>2, <3>1, <3>2
    <3> QED BY <3>5, <3>6 DEF Colder
  <2> QED BY <2>1, <2>2
<1>7. OrderInv'
  BY <1>5, <1>6 DEF OrderInv
<1> QED BY <1>0, <1>1, <1>2, <1>4, <1>7

\* A key leaves, if it is there at all.
LEMMA LeavesIndex ==
    ASSUME IndexType, OrderInv, NEW k \in Keys,
           lru' = Without(lru, k), heat' = [heat EXCEPT ![k] = Cold], now' = now, late' = late
    PROVE  /\ Order(lru)' /\ heat' \in [Keys -> [at : Nat, hits : Nat]] /\ now' \in Nat
           /\ Tracked' = Tracked \ {k} /\ OrderInv'
<1>0. Order(lru) /\ now \in Nat /\ heat \in [Keys -> [at : Nat, hits : Nat]] /\ Window \in Nat
  BY EvictorAssumption DEF IndexType
<1>1. /\ Order(lru') /\ Entries(lru') = Entries(lru) \ {k}
      /\ \A i, j \in 1..Len(lru') : i < j =>
            \E a, b \in 1..Len(lru) : a < b /\ j <= b /\ lru'[i] = lru[a] /\ lru'[j] = lru[b]
  <2>1. Order(lru') /\ Entries(lru') = Entries(lru) \ {k} /\ InOrder(lru', lru)
    BY <1>0, WithoutShape
  <2> QED BY <2>1 DEF InOrder
<1>2. Tracked' = Tracked \ {k}
  BY <1>1, TrackedIsEntries, TrackedIsEntriesNext
<1>3. Cold \in [at : Nat, hits : Nat] /\ Cold.at = 0
  BY DEF Heat, Cold
<1>4. /\ heat' \in [Keys -> [at : Nat, hits : Nat]]
      /\ heat'[k].at = 0 /\ \A x \in Keys \ {k} : heat'[x] = heat[x]
  BY <1>0, <1>3
<1>5. \A x \in Keys : heat'[x].at <= now'
  BY <1>0, <1>4 DEF OrderInv
<1>6. ASSUME NEW i \in 1..Len(lru'), NEW j \in 1..Len(lru'), i < j, j > Window, lru'[j] \notin late'
      PROVE  ~ Colder(lru[j], lru[i])'
  <2>0. lru'[i] \in Keys \ {k} /\ lru'[j] \in Keys \ {k} /\ j \in Nat
    <3>1. lru' \in Seq(Keys)
      BY <1>1 DEF Order
    <3>2. lru'[i] \in Entries(lru') /\ lru'[j] \in Entries(lru')
      BY DEF Entries
    <3> QED BY <1>1, <3>1, <3>2
  <2>1. PICK a \in 1..Len(lru), b \in 1..Len(lru) :
           a < b /\ j <= b /\ lru'[i] = lru[a] /\ lru'[j] = lru[b]
    BY <1>1, <1>6
  <2>2. lru[b] \notin late
    BY <1>6, <2>1
  <2>3. b > Window
    <3>1. b \in Nat
      BY <1>0 DEF Order
    <3> QED BY <1>0, <1>6, <2>0, <2>1, <3>1
  <2>4. ~ Colder(lru[b], lru[a])
    BY <2>1, <2>2, <2>3 DEF OrderInv
  <2>5. heat'[lru'[i]] = heat[lru[a]] /\ heat'[lru'[j]] = heat[lru[b]]
    BY <1>4, <2>0, <2>1
  <2> QED BY <2>4, <2>5 DEF Colder
<1>7. OrderInv'
  BY <1>5, <1>6 DEF OrderInv
<1> QED BY <1>0, <1>1, <1>2, <1>4, <1>7

\* The total follows a key that enters or gets another size.
LEMMA EntersTotal ==
    ASSUME IndexType, TotalExact, NEW k \in Keys, NEW n \in 1..Cap,
           size' = [size EXCEPT ![k] = n], total' = total - size[k] + n,
           Tracked' = Tracked \cup {k}
    PROVE  Sized(size)' /\ TotalExact'
<1>1. /\ Sized(size) /\ Cap \in Nat /\ n \in 0..Cap /\ n > 0 /\ Tracked \in SUBSET Keys
      /\ size[k] \in 0..Cap
  BY TrackedIsEntries, EvictorAssumption DEF IndexType, Sized
<1>2. k \in Tracked \/ size[k] = 0
  BY <1>1 DEF TotalExact
<1>3. Bytes(size', Tracked') = Bytes(size, Tracked) - size[k] + n
  BY <1>1, <1>2, BytesEnter
<1>4. total' = Bytes(size', Tracked')
  BY <1>3 DEF TotalExact
<1>5. Sized(size)' /\ size'[k] = n /\ \A x \in Keys \ {k} : size'[x] = size[x]
  BY <1>1 DEF Sized
<1>6. \A x \in Keys : size'[x] > 0 <=> x \in Tracked'
  BY <1>1, <1>5 DEF TotalExact
<1>7. Bytes(size, Tracked)' = Bytes(size', Tracked')
  BY DEF Bytes
<1> QED BY <1>4, <1>5, <1>6, <1>7 DEF TotalExact

\* The total follows a key that leaves.
LEMMA LeavesTotal ==
    ASSUME IndexType, TotalExact, NEW k \in Keys,
           size' = [size EXCEPT ![k] = 0], total' = total - size[k],
           Tracked' = Tracked \ {k}
    PROVE  Sized(size)' /\ TotalExact'
<1>1. Sized(size) /\ Cap \in Nat /\ Tracked \in SUBSET Keys /\ size[k] \in 0..Cap
  BY TrackedIsEntries, EvictorAssumption DEF IndexType, Sized
<1>2. k \in Tracked \/ size[k] = 0
  BY <1>1 DEF TotalExact
<1>3. Bytes(size', Tracked') = Bytes(size, Tracked) - size[k]
  BY <1>1, <1>2, BytesLeave
<1>4. total' = Bytes(size', Tracked')
  BY <1>3 DEF TotalExact
<1>5. Sized(size)' /\ size'[k] = 0 /\ \A x \in Keys \ {k} : size'[x] = size[x]
  BY <1>1 DEF Sized
<1>6. \A x \in Keys : size'[x] > 0 <=> x \in Tracked'
  BY <1>1, <1>5 DEF TotalExact
<1>7. Bytes(size, Tracked)' = Bytes(size', Tracked')
  BY DEF Bytes
<1> QED BY <1>4, <1>5, <1>6, <1>7 DEF TotalExact

-----------------------------------------------------------------------------
(* Who does what: the holder of the lock, writers and readers *)

\* The holder of the lock is the constructor's call or a writer that reserves.
CallInv ==
    call # None /\ call.who # None =>
        /\ call.who \in Writers /\ call.key \in Keys
        /\ call.need = SizeOf[call.key]
        /\ writer[call.who].step = "reserving" /\ writer[call.who].key = call.key

WriterSteps == {"idle", "reserving", "writing", "landed", "failed"}

\* No two writers have one key.
WriterInv ==
    /\ writer \in [Writers -> [step : WriterSteps, key : Keys \cup {None}]]
    /\ \A w \in InFlight : writer[w].key \in Keys
    /\ \A w, x \in InFlight : writer[w].key = writer[x].key => w = x

\* A reader that will adopt a file has found one, and its time is not in the future.
ReaderInv ==
    /\ reader \in [Readers -> [step : {"idle", "stat", "adopt"}, key : Keys \cup {None},
                               at : Nat, found : 0..Cap]]
    /\ \A r \in Readers :
         /\ reader[r].at <= now
         /\ reader[r].step # "idle" => reader[r].key \in Keys
         /\ reader[r].step = "adopt" => reader[r].found > 0

\* A write admitted by a probe that nothing has invalidated is the only one not on disk
\* yet, and there still is room for it.
SoloInv ==
    \A w \in solo : w \in Writers /\ (writer[w].step = "writing" =>
        /\ Unlanded = {w}
        /\ Free >= SizeOf[writer[w].key] + MinFree)

EvictorInv ==
    IndexInv /\ CallInv /\ WriterInv /\ ReaderInv /\ SoloInv
    /\ InFlightKept /\ UntrackedOnlyIfOrphaned

-----------------------------------------------------------------------------
(* The index is preserved *)

\* Steps that leave the entries alone.
LEMMA IndexSame ==
    ASSUME IndexInv, UNCHANGED <<lru, size, heat, total, late>>, now' \in Nat, now <= now',
           pending' \in SUBSET Keys, Sized(disk)'
    PROVE  IndexInv' /\ Tracked' = Tracked
<1>1. Tracked' = Tracked
  BY TrackedIsEntries, TrackedIsEntriesNext
<1>2. IndexType'
  BY DEF IndexInv, IndexType, Order, Distinct, Sized
<1>3. TotalExact'
  <2>1. Bytes(size, Tracked)' = Bytes(size, Tracked)
    BY <1>1 DEF Bytes
  <2> QED BY <1>1, <2>1 DEF IndexInv, TotalExact
<1>4. OrderInv'
  <2>1. \A k \in Keys : heat[k].at \in Nat /\ now \in Nat
    BY DEF IndexInv, IndexType
  <2>2. \A k \in Keys : heat'[k].at <= now'
    BY <2>1 DEF IndexInv, OrderInv
  <2> QED BY <2>2 DEF IndexInv, OrderInv, Colder
<1> QED BY <1>1, <1>2, <1>3, <1>4 DEF IndexInv

\* The victim is an entry of the window that is not in flight.
LEMMA VictimIsEntry ==
    ASSUME IndexType, WantsMore
    PROVE  Victim \in Keys /\ Victim \in Tracked /\ Victim \notin pending
<1>1. PICK p \in InWindow : Victim = lru[p]
  BY VictimIsLowest DEF WantsMore
<1>2. p \in 1..Len(lru) /\ lru[p] \notin pending
  <2>1. lru \in Seq(Keys) /\ Len(lru) \in Nat /\ Window \in Nat
    BY EvictorAssumption DEF IndexType, Order
  <2> QED BY <2>1 DEF InWindow, UpTo
<1>3. lru[p] \in Tracked
  BY <1>2 DEF Tracked
<1> QED BY <1>1, <1>2, <1>3, TrackedIsEntries

LEMMA EvictKeepsIndex ==
    ASSUME IndexInv, Evict
    PROVE  IndexInv' /\ Tracked' = Tracked \ {Victim}
<1> DEFINE v == Victim
<1>0. IndexType /\ TotalExact /\ OrderInv
  BY DEF IndexInv
<1>1. v \in Keys
  BY <1>0, VictimIsEntry DEF Evict
<1>2. /\ lru' = Without(lru, v) /\ size' = [size EXCEPT ![v] = 0] /\ heat' = [heat EXCEPT ![v] = Cold]
      /\ total' = total - size[v] /\ disk' = [disk EXCEPT ![v] = 0]
      /\ pending' = pending /\ now' = now /\ late' = late
  BY DEF Evict, history
<1> HIDE DEF v
<1>3. /\ Order(lru)' /\ heat' \in [Keys -> [at : Nat, hits : Nat]] /\ now' \in Nat
      /\ Tracked' = Tracked \ {v} /\ OrderInv'
  BY <1>0, <1>1, <1>2, LeavesIndex
<1>4. Sized(size)' /\ TotalExact'
  BY <1>0, <1>1, <1>2, <1>3, LeavesTotal
<1>5. Sized(disk)'
  BY <1>0, <1>1, <1>2, EvictorAssumption DEF IndexType, Sized
<1>6. IndexType'
  BY <1>0, <1>2, <1>3, <1>4, <1>5 DEF IndexType
<1> QED BY <1>3, <1>4, <1>6 DEF IndexInv, v

LEMMA UnlinkFailsKeepsIndex ==
    ASSUME IndexInv, UnlinkFails
    PROVE  IndexInv' /\ Tracked' = Tracked
<1>0. IndexType /\ TotalExact /\ OrderInv /\ Order(lru) /\ Window \in Nat
  BY EvictorAssumption DEF IndexInv, IndexType
<1>1. PICK p \in InWindow : Victim = lru[p]
  BY <1>0, VictimIsLowest DEF UnlinkFails, WantsMore
<1>2. p \in 1..Len(lru) /\ p <= Window /\ Len(lru) \in Nat
  <2>1. lru \in Seq(Keys) /\ Len(lru) \in Nat
    BY <1>0 DEF Order
  <2> QED BY <1>0, <2>1 DEF InWindow, UpTo
<1>3. /\ lru' = <<lru[p]>> \o Without(lru, lru[p])
      /\ UNCHANGED <<size, heat, pending, total, disk, now, late>>
  BY <1>1 DEF UnlinkFails, history
<1>4. /\ Order(lru') /\ Entries(lru') = Entries(lru) /\ Len(lru') = Len(lru)
      /\ \A i \in 1..Len(lru') : lru'[i] = lru[IF i = 1 THEN p ELSE IF i <= p THEN i - 1 ELSE i]
  BY <1>0, <1>2, <1>3, ToFrontShape
<1>5. Tracked' = Tracked
  BY <1>4, TrackedIsEntries, TrackedIsEntriesNext
<1>6. TotalExact'
  <2>1. Bytes(size, Tracked)' = Bytes(size, Tracked)
    BY <1>3, <1>5 DEF Bytes
  <2> QED BY <1>0, <1>3, <1>5, <2>1 DEF TotalExact
<1>7. ASSUME NEW i \in 1..Len(lru'), NEW j \in 1..Len(lru'), i < j, j > Window, lru'[j] \notin late'
      PROVE  ~ Colder(lru[j], lru[i])'
  <2> DEFINE a == IF i = 1 THEN p ELSE IF i <= p THEN i - 1 ELSE i
  <2>1. lru'[j] = lru[j] /\ lru'[i] = lru[a] /\ a \in 1..Len(lru) /\ a < j /\ j \in 1..Len(lru)
    BY <1>0, <1>2, <1>4, <1>7
  <2> HIDE DEF a
  <2>2. ~ Colder(lru[j], lru[a])
    BY <1>0, <1>3, <1>7, <2>1 DEF OrderInv
  <2> QED BY <1>3, <2>1, <2>2 DEF Colder
<1>8. OrderInv'
  BY <1>0, <1>3, <1>7 DEF OrderInv
<1>9. IndexType'
  BY <1>0, <1>3, <1>4 DEF IndexType, Sized
<1> QED BY <1>5, <1>6, <1>8, <1>9 DEF IndexInv

LEMMA AdmitKeepsIndex ==
    ASSUME IndexInv, NEW w, NEW k \in Keys, NEW probed, Admit(w, k, probed), disk' = disk, now' = now
    PROVE  IndexInv' /\ Tracked' = Tracked \cup {k}
<1>0. IndexType /\ TotalExact /\ OrderInv /\ now \in Nat /\ heat[k].hits \in Nat
  BY DEF IndexInv, IndexType
<1>1. /\ lru' = ToTail(k) /\ size' = [size EXCEPT ![k] = SizeOf[k]]
      /\ total' = total - size[k] + SizeOf[k] /\ pending' = pending \cup {k}
      /\ late' = late \ {k}
  BY DEF Admit
<1>2. heat' = [heat EXCEPT ![k] = Heat(now, heat[k].hits)]
  BY DEF Admit
<1>3. late' = IF now < now THEN late \cup {k} ELSE late \ {k}
  BY <1>0, <1>1
<1>4. now <= now
  BY <1>0
<1>5. /\ Order(lru)' /\ heat' \in [Keys -> [at : Nat, hits : Nat]] /\ now' \in Nat
      /\ Tracked' = Tracked \cup {k} /\ OrderInv'
  BY <1>0, <1>1, <1>2, <1>3, <1>4, GoesToTail
<1>6. SizeOf[k] \in 1..Cap
  BY EvictorAssumption
<1>7. Sized(size)' /\ TotalExact'
  BY <1>0, <1>1, <1>5, <1>6, EntersTotal
<1>8. IndexType'
  BY <1>0, <1>1, <1>5, <1>7 DEF IndexType, Sized
<1> QED BY <1>5, <1>7, <1>8 DEF IndexInv

LEMMA AbortKeepsIndex ==
    ASSUME IndexInv, WriterInv, NEW w \in Writers, Abort(w)
    PROVE  IndexInv' /\ Tracked' = Tracked \ {writer[w].key}
<1> DEFINE k == writer[w].key
<1>0. IndexType /\ TotalExact /\ OrderInv
  BY DEF IndexInv
<1>1. k \in Keys
  BY DEF WriterInv, InFlight, Abort
<1>2. /\ lru' = Without(lru, k) /\ size' = [size EXCEPT ![k] = 0] /\ heat' = [heat EXCEPT ![k] = Cold]
      /\ total' = total - size[k] /\ pending' = pending \ {k}
      /\ disk' = disk /\ now' = now /\ late' = late
  BY DEF Abort
<1> HIDE DEF k
<1>3. /\ Order(lru)' /\ heat' \in [Keys -> [at : Nat, hits : Nat]] /\ now' \in Nat
      /\ Tracked' = Tracked \ {k} /\ OrderInv'
  BY <1>0, <1>1, <1>2, LeavesIndex
<1>4. Sized(size)' /\ TotalExact'
  BY <1>0, <1>1, <1>2, <1>3, LeavesTotal
<1>5. IndexType'
  BY <1>0, <1>2, <1>3, <1>4 DEF IndexType, Sized
<1> QED BY <1>3, <1>4, <1>5 DEF IndexInv, k

LEMMA RenewKeepsIndex ==
    ASSUME IndexInv, NEW k \in Tracked, NEW at \in Nat, at <= now, Renew(k, at)
    PROVE  IndexInv' /\ Tracked' = Tracked
<1>0. IndexType /\ TotalExact /\ OrderInv /\ k \in Keys
  BY TrackedIsEntries DEF IndexInv
<1>1. heat[k].hits + 1 \in Nat
  BY <1>0 DEF IndexType
<1>2. /\ lru' = ToTail(k) /\ heat' = [heat EXCEPT ![k] = Heat(at, heat[k].hits + 1)]
      /\ late' = IF at < now THEN late \cup {k} ELSE late \ {k}
      /\ UNCHANGED <<size, pending, total, disk, now>>
  BY DEF Renew, Stamp
<1>3. /\ Order(lru)' /\ heat' \in [Keys -> [at : Nat, hits : Nat]] /\ now' \in Nat
      /\ Tracked' = Tracked \cup {k} /\ OrderInv'
  BY <1>0, <1>1, <1>2, GoesToTail
<1>4. Tracked' = Tracked
  BY <1>3
<1>5. TotalExact'
  <2>1. Bytes(size, Tracked)' = Bytes(size, Tracked)
    BY <1>2, <1>4 DEF Bytes
  <2> QED BY <1>0, <1>2, <1>4, <2>1 DEF TotalExact
<1>6. IndexType'
  BY <1>0, <1>2, <1>3 DEF IndexType, Sized
<1> QED BY <1>3, <1>4, <1>5, <1>6 DEF IndexInv

LEMMA AdoptKeepsIndex ==
    ASSUME IndexInv, ReaderInv, NEW r \in Readers, Adopt(r)
    PROVE  IndexInv' /\ Tracked' = Tracked \cup {reader[r].key}
<1> DEFINE k == reader[r].key
           n == reader[r].found
           at == reader[r].at
<1>0. IndexType /\ TotalExact /\ OrderInv
  BY DEF IndexInv
<1>1. k \in Keys /\ at \in Nat /\ at <= now /\ n \in 0..Cap /\ n > 0 /\ Cap \in Nat
  BY EvictorAssumption DEF ReaderInv, Adopt, Reading
<1>2. /\ k \notin Tracked /\ lru' = ToTail(k) /\ heat' = [heat EXCEPT ![k] = Heat(at, 1)]
      /\ size' = [size EXCEPT ![k] = n] /\ total' = total + n
      /\ late' = IF at < now THEN late \cup {k} ELSE late \ {k}
      /\ UNCHANGED <<pending, disk, now>>
  BY DEF Adopt, Stamp
<1> HIDE DEF k, n, at
<1>3. /\ Order(lru)' /\ heat' \in [Keys -> [at : Nat, hits : Nat]] /\ now' \in Nat
      /\ Tracked' = Tracked \cup {k} /\ OrderInv'
  <2>1. 1 \in Nat
    OBVIOUS
  <2> QED BY <1>0, <1>1, <1>2, <2>1, GoesToTail
<1>4. total' = total - size[k] + n /\ n \in 1..Cap
  <2>1. size[k] = 0
    BY <1>0, <1>1, <1>2 DEF TotalExact, IndexType, Sized
  <2>2. total \in Nat
    BY <1>0, BytesNat, TrackedIsEntries, FS_Subset, EvictorAssumption DEF TotalExact
  <2> QED BY <1>1, <1>2, <2>1, <2>2
<1>5. Sized(size)' /\ TotalExact'
  BY <1>0, <1>1, <1>2, <1>3, <1>4, EntersTotal
<1>6. IndexType'
  BY <1>0, <1>2, <1>3, <1>5 DEF IndexType, Sized
<1> QED BY <1>3, <1>5, <1>6 DEF IndexInv, k

LEMMA ClearKeepsIndex ==
    ASSUME IndexInv, Clear
    PROVE  IndexInv' /\ Tracked' = {}
<1>1. /\ lru' = <<>> /\ pending' = {} /\ total' = 0 /\ now' = now
      /\ disk' = [k \in Keys |-> 0] /\ size' = [k \in Keys |-> 0] /\ heat' = [k \in Keys |-> Cold]
  BY DEF Clear
<1>2. Len(lru') = 0 /\ lru' \in Seq(Keys)
  BY <1>1
<1>3. Order(lru)' /\ Tracked' = {}
  BY <1>2 DEF Order, Distinct, Tracked
<1>4. Cold \in [at : Nat, hits : Nat] /\ Cold.at = 0
  BY DEF Heat, Cold
<1>5. IndexType'
  BY <1>1, <1>3, <1>4, EvictorAssumption DEF IndexInv, IndexType, Sized
<1>6. Bytes(size, Tracked)' = 0
  <2>1. Bytes(size, Tracked)' = Bytes(size', {})
    BY <1>3 DEF Bytes
  <2> QED BY <2>1, BytesNone
<1>7. TotalExact'
  BY <1>1, <1>3, <1>6 DEF TotalExact
<1>8. OrderInv'
  <2>1. now \in Nat
    BY DEF IndexInv, IndexType
  <2>2. \A k \in Keys : heat'[k].at <= now'
    BY <1>1, <1>4, <2>1
  <2>3. 1..Len(lru') = {}
    BY <1>2
  <2> QED BY <2>2, <2>3 DEF OrderInv
<1> QED BY <1>3, <1>5, <1>7, <1>8 DEF IndexInv

-----------------------------------------------------------------------------
(* Writers, and the room on disk *)

\* One writer makes a step and keeps its key, or drops it with the last one.
LEMMA StepKeepsWriters ==
    ASSUME WriterInv, NEW w \in Writers, writer[w].step # "idle", NEW step \in WriterSteps, Step(w, step)
    PROVE  /\ WriterInv'
           /\ \A x \in Writers \ {w} : writer'[x] = writer[x]
           /\ writer'[w].step = step
           /\ step # "idle" => writer'[w].key = writer[w].key
<1>1. /\ writer \in [Writers -> [step : WriterSteps, key : Keys \cup {None}]]
      /\ w \in InFlight /\ writer[w].key \in Keys
  BY DEF WriterInv, InFlight
<1>2. writer' = [writer EXCEPT ![w] = [step |-> step, key |-> IF step = "idle" THEN None ELSE writer[w].key]]
  BY DEF Step
<1>3. /\ writer' \in [Writers -> [step : WriterSteps, key : Keys \cup {None}]]
      /\ \A x \in Writers \ {w} : writer'[x] = writer[x]
      /\ writer'[w].step = step
      /\ step # "idle" => writer'[w].key = writer[w].key
  BY <1>1, <1>2
<1>4. InFlight' \subseteq InFlight /\ \A x \in InFlight' : writer'[x].key = writer[x].key
  BY <1>1, <1>3 DEF InFlight
<1>5. WriterInv'
  BY <1>3, <1>4 DEF WriterInv
<1> QED BY <1>3, <1>5

\* What a change of one file does to the free space.
LEMMA FreeAfter ==
    ASSUME IndexType, NEW k \in Keys, NEW n \in 0..Cap, disk' = [disk EXCEPT ![k] = n]
    PROVE  Free \in Int /\ Free' = Free + disk[k] - n /\ disk[k] \in Nat /\ n \in Nat
<1>1. Sized(disk) /\ Keys \in SUBSET Keys /\ Keys \cup {k} = Keys /\ Cap \in Nat /\ FsSize \in Nat
  BY EvictorAssumption DEF IndexType
<1>2. disk[k] \in Nat /\ n \in Nat
  BY <1>1 DEF Sized
<1>3. Bytes(disk, Keys) \in Nat
  BY BytesNat, EvictorAssumption
<1>4. Bytes(disk', Keys) = Bytes(disk, Keys) - disk[k] + n
  <2>1. Bytes([disk EXCEPT ![k] = n], Keys \cup {k}) = Bytes(disk, Keys) - disk[k] + n
    BY <1>1, BytesEnter
  <2> QED BY <1>1, <2>1
<1>5. Bytes(disk, Keys)' = Bytes(disk', Keys)
  BY DEF Bytes
<1>6. Free' = FsSize - (Bytes(disk, Keys) - disk[k] + n)
  BY <1>4, <1>5 DEF Free
<1> QED BY <1>1, <1>2, <1>3, <1>6 DEF Free

LEMMA FreeIsInt == Free \in Int
  BY BytesNat, EvictorAssumption DEF Free

LEMMA FreeSame == ASSUME disk' = disk PROVE Free' = Free
  BY DEF Free, Bytes

\* Room that was found stays as long as no other writer is admitted or lands.
LEMMA SoloStays ==
    ASSUME SoloInv, WriterInv, solo' \in SUBSET solo, Free' \in Int, Free' >= Free,
           \A w \in Writers : writer'[w].step = "writing" =>
               writer[w].step = "writing" /\ writer'[w].key = writer[w].key
    PROVE  SoloInv'
<1> SUFFICES ASSUME NEW w \in solo'
             PROVE  w \in Writers /\ (writer'[w].step = "writing" =>
                       /\ Unlanded' = {w}
                       /\ Free' >= SizeOf[writer'[w].key] + MinFree)
  BY DEF SoloInv
<1>1. w \in solo /\ w \in Writers
  BY DEF SoloInv
<1>2. ASSUME writer'[w].step = "writing"
      PROVE  Unlanded' = {w} /\ Free' >= SizeOf[writer'[w].key] + MinFree
  <2>1. writer[w].step = "writing" /\ writer'[w].key = writer[w].key
    BY <1>1, <1>2
  <2>2. Unlanded = {w} /\ Free >= SizeOf[writer[w].key] + MinFree
    BY <1>1, <2>1 DEF SoloInv
  <2>3. Unlanded' = {w}
    BY <1>1, <1>2, <2>2 DEF Unlanded
  <2>4. SizeOf[writer[w].key] + MinFree \in Int
    <3>1. writer[w].key \in Keys
      BY <1>1, <2>1 DEF WriterInv, InFlight
    <3>2. SizeOf[writer[w].key] \in 1..Cap /\ MinFree \in Nat /\ Cap \in Nat
      BY <3>1, EvictorAssumption
    <3> QED BY <3>2
  <2> QED BY <2>1, <2>2, <2>3, <2>4, FreeIsInt
<1> QED BY <1>1, <1>2

\* A writer that ends its write was the one there was room for, or there was none.
LEMMA SoloEnds ==
    ASSUME SoloInv, NEW w \in Writers, writer[w].step = "writing", solo' = solo \ {w},
           writer'[w].step # "writing", \A x \in Writers \ {w} : writer'[x] = writer[x]
    PROVE  SoloInv'
<1> SUFFICES ASSUME NEW x \in solo' PROVE x \in Writers /\ writer'[x].step # "writing"
  BY DEF SoloInv
<1>1. x \in solo /\ x # w /\ x \in Writers
  BY DEF SoloInv
<1>2. w \in Unlanded
  BY DEF Unlanded
<1>3. writer[x].step # "writing"
  BY <1>1, <1>2 DEF SoloInv
<1> QED BY <1>1, <1>3

\* Steps that touch neither writers nor what they rely on.
LEMMA WritersSame ==
    ASSUME WriterInv, CallInv, SoloInv, InFlightKept, writer' = writer, solo' = solo,
           Free' \in Int, Free' >= Free, dropped' = dropped,
           \A w \in InFlight : writer[w].key \in Tracked \cap pending =>
                                   writer[w].key \in (Tracked \cap pending)'
    PROVE  WriterInv' /\ SoloInv' /\ InFlightKept'
<1>1. WriterInv' /\ InFlight' = InFlight
  BY DEF WriterInv, InFlight
<1>2. SoloInv'
  BY SoloStays
<1>3. InFlightKept'
  BY <1>1 DEF InFlightKept
<1> QED BY <1>1, <1>2, <1>3

-----------------------------------------------------------------------------
(* The actions *)

USE DEF Call, CapLoop, FreeLoop

LEMMA EvictStep == ASSUME EvictorInv, Evict PROVE EvictorInv'
<1> DEFINE v == Victim
<1>0. /\ IndexInv /\ IndexType /\ CallInv /\ WriterInv /\ ReaderInv /\ SoloInv /\ InFlightKept
      /\ UntrackedOnlyIfOrphaned
  BY DEF EvictorInv, IndexInv
<1>1. IndexInv' /\ Tracked' = Tracked \ {v}
  BY <1>0, EvictKeepsIndex
<1>2. v \in Keys /\ v \notin pending
  BY <1>0, VictimIsEntry DEF Evict
<1>3. /\ disk' = [disk EXCEPT ![v] = 0] /\ call # None
      /\ call'.who = call.who /\ call'.key = call.key /\ call'.need = call.need
      /\ UNCHANGED <<pending, now, writer, reader, orphaned, dropped, solo, late>>
  BY DEF Evict, history
<1> HIDE DEF v
<1>4. Free' \in Int /\ Free' >= Free
  <2>1. 0 \in 0..Cap
    BY EvictorAssumption
  <2>2. Free \in Int /\ Free' = Free + disk[v] - 0 /\ disk[v] \in Nat
    BY <1>0, <1>2, <1>3, <2>1, FreeAfter
  <2> QED BY <2>2
<1>5. WriterInv' /\ SoloInv' /\ InFlightKept'
  BY <1>0, <1>1, <1>2, <1>3, <1>4, WritersSame
<1>6. CallInv'
  BY <1>0, <1>3 DEF CallInv
<1>7. ReaderInv'
  BY <1>0, <1>3 DEF ReaderInv
<1>8. UntrackedOnlyIfOrphaned'
  <2>1. \A k \in Keys \ {v} : disk'[k] = disk[k]
    BY <1>0, <1>3 DEF IndexType, Sized
  <2>2. disk'[v] = 0
    BY <1>0, <1>2, <1>3 DEF IndexType, Sized
  <2> QED BY <1>0, <1>1, <1>3, <2>1, <2>2 DEF UntrackedOnlyIfOrphaned
<1> QED BY <1>1, <1>5, <1>6, <1>7, <1>8 DEF EvictorInv

LEMMA UnlinkFailsStep == ASSUME EvictorInv, UnlinkFails PROVE EvictorInv'
<1>0. /\ IndexInv /\ IndexType /\ CallInv /\ WriterInv /\ ReaderInv /\ SoloInv /\ InFlightKept
      /\ UntrackedOnlyIfOrphaned
  BY DEF EvictorInv, IndexInv
<1>1. IndexInv' /\ Tracked' = Tracked
  BY <1>0, UnlinkFailsKeepsIndex
<1>2. /\ call # None
      /\ call'.who = call.who /\ call'.key = call.key /\ call'.need = call.need
      /\ UNCHANGED <<pending, disk, now, writer, reader, orphaned, dropped, solo, late>>
  BY DEF UnlinkFails, history
<1>3. Free' \in Int /\ Free' >= Free
  BY <1>2, FreeSame, FreeIsInt
<1>4. WriterInv' /\ SoloInv' /\ InFlightKept'
  BY <1>0, <1>1, <1>2, <1>3, WritersSame
<1>5. CallInv'
  BY <1>0, <1>2 DEF CallInv
<1>6. ReaderInv'
  BY <1>0, <1>2 DEF ReaderInv
<1>7. UntrackedOnlyIfOrphaned'
  BY <1>0, <1>1, <1>2 DEF UntrackedOnlyIfOrphaned
<1> QED BY <1>1, <1>4, <1>5, <1>6, <1>7 DEF EvictorInv

\* A reservation is admitted: its key is in flight, and if a probe saw room for it and no
\* other write was under way, there is room for it.
LEMMA AdmitStep ==
    ASSUME EvictorInv, call # None, call.who # None, NEW probed \in BOOLEAN, probed => Room,
           Admit(call.who, call.key, probed), UNCHANGED <<disk, now, reader, orphaned, dropped>>
    PROVE  EvictorInv'
<1>0. /\ IndexInv /\ IndexType /\ CallInv /\ WriterInv /\ ReaderInv /\ SoloInv /\ InFlightKept
      /\ UntrackedOnlyIfOrphaned
  BY DEF EvictorInv, IndexInv
<1>1. PICK w \in Writers, k \in Keys :
         /\ call.who = w /\ call.key = k /\ call.need = SizeOf[k]
         /\ writer[w].step = "reserving" /\ writer[w].key = k
  BY <1>0 DEF CallInv
<1>2. IndexInv' /\ Tracked' = Tracked \cup {k}
  BY <1>0, <1>1, AdmitKeepsIndex
<1>3. /\ pending' = pending \cup {k} /\ call' = None /\ Step(w, "writing")
      /\ solo' = IF probed /\ Unlanded = {} THEN {w} ELSE {}
  BY <1>1 DEF Admit
<1>4. /\ WriterInv' /\ \A x \in Writers \ {w} : writer'[x] = writer[x]
      /\ writer'[w].step = "writing" /\ writer'[w].key = k
  BY <1>0, <1>1, <1>3, StepKeepsWriters DEF WriterSteps
<1>5. CallInv' /\ ReaderInv' /\ UntrackedOnlyIfOrphaned'
  BY <1>0, <1>2, <1>3 DEF CallInv, ReaderInv, UntrackedOnlyIfOrphaned
<1>6. InFlightKept'
  <2> SUFFICES ASSUME NEW x \in InFlight', x \notin dropped, writer'[x].step # "reserving"
               PROVE  writer'[x].key \in Tracked' \cap pending'
    BY DEF InFlightKept
  <2>1. CASE x = w
    BY <1>2, <1>3, <1>4, <2>1
  <2>2. CASE x # w
    <3>1. x \in Writers /\ writer'[x] = writer[x] /\ x \in InFlight \ dropped
      BY <1>4, <2>2 DEF InFlight
    <3> QED BY <1>0, <1>2, <1>3, <3>1 DEF InFlightKept
  <2> QED BY <2>1, <2>2
<1>7. SoloInv'
  <2> SUFFICES ASSUME NEW x \in solo'
               PROVE  x = w /\ Unlanded' = {w} /\ Free' >= SizeOf[writer'[w].key] + MinFree
    BY DEF SoloInv
  <2>1. x = w /\ Room /\ Unlanded = {}
    BY <1>3
  <2>2. Unlanded' = {w}
    BY <1>4, <2>1 DEF Unlanded
  <2>3. Free' >= SizeOf[k] + MinFree
    BY <1>1, <2>1, FreeSame DEF Room
  <2> QED BY <1>4, <2>1, <2>2, <2>3
<1> QED BY <1>2, <1>4, <1>5, <1>6, <1>7 DEF EvictorInv

\* A reservation is refused: its writer goes home.
LEMMA RefuseStep ==
    ASSUME EvictorInv, call # None, call.who # None,
           Refuse(call.who), UNCHANGED <<disk, now, reader, orphaned, dropped>>
    PROVE  EvictorInv'
<1>0. /\ IndexInv /\ IndexType /\ CallInv /\ WriterInv /\ ReaderInv /\ SoloInv /\ InFlightKept
      /\ UntrackedOnlyIfOrphaned
  BY DEF EvictorInv, IndexInv
<1>1. PICK w \in Writers : call.who = w /\ writer[w].step = "reserving"
  BY <1>0 DEF CallInv
<1>2. Step(w, "idle") /\ call' = None /\ UNCHANGED <<lru, size, heat, pending, total, solo, late>>
  BY <1>1 DEF Refuse, index
<1>3. IndexInv' /\ Tracked' = Tracked
  BY <1>0, <1>2, IndexSame DEF IndexType, Sized
<1>4. /\ WriterInv' /\ \A x \in Writers \ {w} : writer'[x] = writer[x]
      /\ writer'[w].step = "idle"
  BY <1>0, <1>1, <1>2, StepKeepsWriters DEF WriterSteps
<1>5. CallInv' /\ ReaderInv' /\ UntrackedOnlyIfOrphaned'
  BY <1>0, <1>2, <1>3 DEF CallInv, ReaderInv, UntrackedOnlyIfOrphaned
<1>6. InFlightKept'
  BY <1>0, <1>2, <1>3, <1>4 DEF InFlightKept, InFlight
<1>7. SoloInv'
  BY <1>0, <1>2, <1>4, SoloStays, FreeSame, FreeIsInt
<1> QED BY <1>3, <1>4, <1>5, <1>6, <1>7 DEF EvictorInv

\* Steps that touch neither index nor disk nor writers.
LEMMA QuietStep ==
    ASSUME EvictorInv, UNCHANGED <<index, disk, writer, history>>, now' \in Nat, now <= now',
           CallInv', ReaderInv'
    PROVE  EvictorInv'
<1>0. /\ IndexInv /\ IndexType /\ CallInv /\ WriterInv /\ ReaderInv /\ SoloInv /\ InFlightKept
      /\ UntrackedOnlyIfOrphaned
  BY DEF EvictorInv, IndexInv
<1>1. UNCHANGED <<lru, size, heat, pending, total, orphaned, dropped, solo, late>>
  BY DEF index, history
<1>2. IndexInv' /\ Tracked' = Tracked
  BY <1>0, <1>1, IndexSame DEF IndexType, Sized
<1>3. WriterInv' /\ SoloInv' /\ InFlightKept'
  BY <1>0, <1>1, <1>2, FreeSame, FreeIsInt, WritersSame
<1>4. UntrackedOnlyIfOrphaned'
  BY <1>0, <1>1, <1>2 DEF UntrackedOnlyIfOrphaned
<1> QED BY <1>2, <1>3, <1>4 DEF EvictorInv

LEMMA NowStays == ASSUME EvictorInv, now' = now PROVE now' \in Nat /\ now <= now'
  BY DEF EvictorInv, IndexInv, IndexType

\* The loop against the cap has ended, the loop against the watermark follows; or the
\* constructor is done.
LEMMA LoopsStep == ASSUME EvictorInv, CapDecided \/ FreeDecided \/ ProbeFails PROVE EvictorInv'
<1>0. CallInv /\ ReaderInv
  BY DEF EvictorInv
<1>1. CASE CapDecided
  <2>1. CASE call.who # None /\ Refuse(call.who)
    BY <1>1, <2>1, RefuseStep DEF CapDecided
  <2>2. CASE call' = FreeLoop(call.who, call.key, call.need) /\ UNCHANGED <<index, writer, solo, late>>
    <3>1. UNCHANGED <<index, disk, writer, history, now, reader>> /\ call # None
      BY <1>1, <2>2 DEF CapDecided, history
    <3>2. CallInv'
      BY <1>0, <2>2, <3>1 DEF CallInv
    <3>3. ReaderInv'
      BY <1>0, <3>1 DEF ReaderInv
    <3> QED BY <3>1, <3>2, <3>3, NowStays, QuietStep
  <2> QED BY <1>1, <2>1, <2>2 DEF CapDecided
<1>2. CASE FreeDecided
  <2>1. CASE call' = None /\ UNCHANGED <<index, writer, solo, late>>
    <3>1. UNCHANGED <<index, disk, writer, history, now, reader>>
      BY <1>2, <2>1 DEF FreeDecided, history
    <3>2. CallInv' /\ ReaderInv'
      BY <1>0, <2>1, <3>1 DEF CallInv, ReaderInv
    <3> QED BY <3>1, <3>2, NowStays, QuietStep
  <2>2. CASE call.who # None /\ Room /\ Admit(call.who, call.key, TRUE)
    BY <1>2, <2>2, AdmitStep DEF FreeDecided
  <2>3. CASE call.who # None /\ Refuse(call.who)
    BY <1>2, <2>3, RefuseStep DEF FreeDecided
  <2> QED BY <1>2, <2>1, <2>2, <2>3 DEF FreeDecided
<1>3. CASE ProbeFails
  <2>1. CASE call' = None /\ UNCHANGED <<index, writer, solo, late>>
    <3>1. UNCHANGED <<index, disk, writer, history, now, reader>>
      BY <1>3, <2>1 DEF ProbeFails, history
    <3>2. CallInv' /\ ReaderInv'
      BY <1>0, <2>1, <3>1 DEF CallInv, ReaderInv
    <3> QED BY <3>1, <3>2, NowStays, QuietStep
  <2>2. CASE call.who # None /\ Admit(call.who, call.key, FALSE)
    BY <1>3, <2>2, AdmitStep DEF ProbeFails
  <2> QED BY <1>3, <2>1, <2>2 DEF ProbeFails
<1> QED BY <1>1, <1>2, <1>3

LEMMA ReserveStep ==
    ASSUME EvictorInv, NEW w \in Writers, NEW k \in Keys, Reserve(w, k)
    PROVE  EvictorInv'
<1>0. /\ IndexInv /\ IndexType /\ CallInv /\ WriterInv /\ ReaderInv /\ SoloInv /\ InFlightKept
      /\ UntrackedOnlyIfOrphaned
  BY DEF EvictorInv, IndexInv
<1>1. /\ UNCHANGED <<lru, size, heat, pending, total, disk, now, reader, orphaned, dropped, solo, late>>
      /\ writer[w].step = "idle" /\ \A x \in InFlight : writer[x].key # k
  BY DEF Reserve, index, history
<1>2. writer' = [writer EXCEPT ![w] = [step |-> "reserving", key |-> k]]
  BY DEF Reserve
<1>3. IndexInv' /\ Tracked' = Tracked
  BY <1>0, <1>1, IndexSame DEF IndexType, Sized
<1>4. /\ writer' \in [Writers -> [step : WriterSteps, key : Keys \cup {None}]]
      /\ writer'[w].step = "reserving" /\ writer'[w].key = k
      /\ \A x \in Writers \ {w} : writer'[x] = writer[x]
  BY <1>0, <1>2 DEF WriterInv, WriterSteps
<1>5. InFlight' = InFlight \cup {w} /\ w \notin InFlight
  BY <1>1, <1>4 DEF InFlight
<1>6. \A x \in InFlight : x \in Writers /\ x # w /\ writer'[x] = writer[x]
  BY <1>4, <1>5 DEF InFlight
<1>7. WriterInv'
  BY <1>0, <1>1, <1>4, <1>5, <1>6 DEF WriterInv
<1>8. CallInv'
  <2>1. call'.who = w /\ call'.key = k /\ call'.need = SizeOf[k]
    BY DEF Reserve
  <2> QED BY <1>4, <2>1 DEF CallInv
<1>9. ReaderInv' /\ UntrackedOnlyIfOrphaned'
  BY <1>0, <1>1, <1>3 DEF ReaderInv, UntrackedOnlyIfOrphaned
<1>10. InFlightKept'
  BY <1>0, <1>1, <1>3, <1>4, <1>5, <1>6 DEF InFlightKept
<1>11. SoloInv'
  BY <1>0, <1>1, <1>4, SoloStays, FreeSame, FreeIsInt
<1> QED BY <1>3, <1>7, <1>8, <1>9, <1>10, <1>11 DEF EvictorInv

\* A write ends, with the whole file, a part of it or nothing.
LEMMA WriteEnds ==
    ASSUME EvictorInv, NEW w \in Writers, NEW n \in 0..Cap, NEW step \in {"landed", "failed"},
           writer[w].step = "writing", disk' = [disk EXCEPT ![writer[w].key] = n],
           n = 0 \/ writer[w].key \in Tracked \/ writer[w].key \in orphaned',
           orphaned \subseteq orphaned',
           Step(w, step), solo' = solo \ {w}, UNCHANGED <<index, call, now, reader, dropped, late>>
    PROVE  EvictorInv'
<1>0. /\ IndexInv /\ IndexType /\ CallInv /\ WriterInv /\ ReaderInv /\ SoloInv /\ InFlightKept
      /\ UntrackedOnlyIfOrphaned
  BY DEF EvictorInv, IndexInv
<1> DEFINE k == writer[w].key
<1>1. UNCHANGED <<lru, size, heat, pending, total>>
  BY DEF index
<1>2. k \in Keys
  BY <1>0 DEF WriterInv, InFlight
<1>3. Sized(disk)' /\ disk'[k] = n /\ \A x \in Keys \ {k} : disk'[x] = disk[x]
  BY <1>0, <1>2 DEF IndexType, Sized
<1>4. IndexInv' /\ Tracked' = Tracked
  BY <1>0, <1>1, <1>3, IndexSame DEF IndexType
<1>5. /\ WriterInv' /\ \A x \in Writers \ {w} : writer'[x] = writer[x]
      /\ writer'[w].step = step /\ writer'[w].key = k
  BY <1>0, StepKeepsWriters DEF WriterSteps
<1>6. SoloInv'
  BY <1>0, <1>5, SoloEnds
<1>7. CallInv'
  <2>1. call # None /\ call.who # None => call.who # w
    BY <1>0 DEF CallInv
  <2> QED BY <1>0, <1>5, <2>1 DEF CallInv
<1>8. ReaderInv'
  BY <1>0 DEF ReaderInv
<1>9. InFlightKept'
  <2>1. InFlight' = InFlight /\ w \in InFlight
    BY <1>5 DEF InFlight
  <2>2. \A x \in InFlight : writer'[x].key = writer[x].key /\ (writer'[x].step # "reserving" => writer[x].step # "reserving")
    BY <1>5 DEF InFlight
  <2> QED BY <1>0, <1>1, <1>4, <2>1, <2>2 DEF InFlightKept
<1>10. UntrackedOnlyIfOrphaned'
  BY <1>0, <1>3, <1>4 DEF UntrackedOnlyIfOrphaned
<1> QED BY <1>4, <1>5, <1>6, <1>7, <1>8, <1>9, <1>10 DEF EvictorInv

LEMMA LandStep ==
    ASSUME EvictorInv, NEW w \in Writers, Land(w)
    PROVE  EvictorInv'
<1>1. writer[w].key \in Keys
  BY DEF EvictorInv, WriterInv, InFlight, Land
<1>2. SizeOf[writer[w].key] \in 0..Cap
  BY <1>1, EvictorAssumption
<1> QED BY <1>2, WriteEnds DEF Land

LEMMA WriteFailsStep ==
    ASSUME EvictorInv, NEW w \in Writers, NEW part \in 0..1, WriteFails(w, part)
    PROVE  EvictorInv'
<1>1. writer[w].key \in Keys
  BY DEF EvictorInv, WriterInv, InFlight, WriteFails
<1>2. part \in 0..Cap
  BY <1>1, EvictorAssumption DEF WriteFails
<1>3. part = 0 \/ part > 0
  BY <1>2, EvictorAssumption
<1> QED BY <1>2, <1>3, WriteEnds DEF WriteFails

LEMMA CommitStep ==
    ASSUME EvictorInv, NEW w \in Writers, Commit(w)
    PROVE  EvictorInv'
<1>0. /\ IndexInv /\ IndexType /\ CallInv /\ WriterInv /\ ReaderInv /\ SoloInv /\ InFlightKept
      /\ UntrackedOnlyIfOrphaned
  BY DEF EvictorInv, IndexInv
<1> DEFINE k == writer[w].key
<1>1. /\ UNCHANGED <<lru, size, heat, total, call, disk, now, reader, orphaned, solo, late>>
      /\ pending' = pending \ {k} /\ dropped' = dropped \ {w}
      /\ writer[w].step = "landed" /\ call = None
  BY DEF Commit
<1>2. IndexInv' /\ Tracked' = Tracked
  BY <1>0, <1>1, IndexSame DEF IndexType, Sized
<1>3. /\ WriterInv' /\ \A x \in Writers \ {w} : writer'[x] = writer[x]
      /\ writer'[w].step = "idle"
  BY <1>0, <1>1, StepKeepsWriters DEF WriterSteps, Commit
<1>4. CallInv' /\ ReaderInv' /\ UntrackedOnlyIfOrphaned'
  BY <1>0, <1>1, <1>2 DEF CallInv, ReaderInv, UntrackedOnlyIfOrphaned
<1>5. SoloInv'
  BY <1>0, <1>1, <1>3, SoloStays, FreeSame, FreeIsInt
<1>6. InFlightKept'
  <2> SUFFICES ASSUME NEW x \in InFlight', x \notin dropped', writer'[x].step # "reserving"
               PROVE  writer'[x].key \in Tracked' \cap pending'
    BY DEF InFlightKept
  <2>1. x \in Writers /\ x # w /\ writer'[x] = writer[x]
    BY <1>3 DEF InFlight
  <2>2. x \in InFlight \ dropped /\ w \in InFlight
    BY <1>1, <2>1 DEF InFlight
  <2>3. writer[x].key # k
    BY <1>0, <2>1, <2>2 DEF WriterInv
  <2> QED BY <1>0, <1>1, <1>2, <2>1, <2>2, <2>3 DEF InFlightKept
<1> QED BY <1>2, <1>3, <1>4, <1>5, <1>6 DEF EvictorInv

LEMMA AbortStep ==
    ASSUME EvictorInv, NEW w \in Writers, Abort(w)
    PROVE  EvictorInv'
<1>0. /\ IndexInv /\ IndexType /\ CallInv /\ WriterInv /\ ReaderInv /\ SoloInv /\ InFlightKept
      /\ UntrackedOnlyIfOrphaned
  BY DEF EvictorInv, IndexInv
<1> DEFINE k == writer[w].key
<1>1. /\ UNCHANGED <<call, disk, now, reader, solo, late>>
      /\ pending' = pending \ {k} /\ dropped' = dropped \ {w}
      /\ orphaned' = IF disk[k] > 0 THEN orphaned \cup {k} ELSE orphaned
      /\ writer[w].step = "failed" /\ call = None
  BY DEF Abort
<1>2. IndexInv' /\ Tracked' = Tracked \ {k}
  BY <1>0, AbortKeepsIndex
<1>3. /\ WriterInv' /\ \A x \in Writers \ {w} : writer'[x] = writer[x]
      /\ writer'[w].step = "idle"
  BY <1>0, <1>1, StepKeepsWriters DEF WriterSteps, Abort
<1>4. CallInv' /\ ReaderInv' /\ UntrackedOnlyIfOrphaned'
  BY <1>0, <1>1, <1>2 DEF CallInv, ReaderInv, UntrackedOnlyIfOrphaned
<1>5. SoloInv'
  BY <1>0, <1>1, <1>3, SoloStays, FreeSame, FreeIsInt
<1>6. InFlightKept'
  <2> SUFFICES ASSUME NEW x \in InFlight', x \notin dropped', writer'[x].step # "reserving"
               PROVE  writer'[x].key \in Tracked' \cap pending'
    BY DEF InFlightKept
  <2>1. x \in Writers /\ x # w /\ writer'[x] = writer[x]
    BY <1>3 DEF InFlight
  <2>2. x \in InFlight \ dropped /\ w \in InFlight
    BY <1>1, <2>1 DEF InFlight
  <2>3. writer[x].key # k
    BY <1>0, <2>1, <2>2 DEF WriterInv
  <2> QED BY <1>0, <1>1, <1>2, <2>1, <2>2, <2>3 DEF InFlightKept
<1> QED BY <1>2, <1>3, <1>4, <1>5, <1>6 DEF EvictorInv

\* The readers' records.
LEMMA LookType ==
    ASSUME ReaderInv, NEW r \in Readers, NEW look, now' = now, reader' = [reader EXCEPT ![r] = look],
           look \in [step : {"idle", "stat", "adopt"}, key : Keys \cup {None}, at : Nat, found : 0..Cap],
           look.at <= now, look.step # "idle" => look.key \in Keys,
           look.step = "adopt" => look.found > 0
    PROVE  ReaderInv'
<1>1. /\ reader \in [Readers -> [step : {"idle", "stat", "adopt"}, key : Keys \cup {None},
                                 at : Nat, found : 0..Cap]]
  BY DEF ReaderInv
<1>2. /\ reader' \in [Readers -> [step : {"idle", "stat", "adopt"}, key : Keys \cup {None},
                                  at : Nat, found : 0..Cap]]
      /\ reader'[r] = look /\ \A x \in Readers \ {r} : reader'[x] = reader[x]
  BY <1>1
<1> QED BY <1>2 DEF ReaderInv

LEMMA IdleType ==
    ASSUME IndexType
    PROVE  /\ Idle \in [step : {"idle", "stat", "adopt"}, key : Keys \cup {None}, at : Nat, found : 0..Cap]
           /\ Idle.at <= now /\ Idle.step = "idle"
<1>1. now \in Nat /\ 0 \in 0..Cap
  BY EvictorAssumption DEF IndexType
<1> QED BY <1>1 DEF Idle, Look

\* An entry is renewed.
LEMMA RenewStep ==
    ASSUME EvictorInv, NEW k \in Tracked, NEW at \in Nat, at <= now, Renew(k, at), ReaderInv'
    PROVE  EvictorInv'
<1>0. /\ IndexInv /\ IndexType /\ CallInv /\ WriterInv /\ ReaderInv /\ SoloInv /\ InFlightKept
      /\ UntrackedOnlyIfOrphaned
  BY DEF EvictorInv, IndexInv
<1>1. UNCHANGED <<size, pending, total, call, disk, now, writer, orphaned, dropped, solo>>
  BY DEF Renew
<1>2. IndexInv' /\ Tracked' = Tracked
  BY <1>0, RenewKeepsIndex
<1>3. WriterInv' /\ SoloInv' /\ InFlightKept'
  BY <1>0, <1>1, <1>2, FreeSame, FreeIsInt, WritersSame
<1>4. CallInv' /\ UntrackedOnlyIfOrphaned'
  BY <1>0, <1>1, <1>2 DEF CallInv, UntrackedOnlyIfOrphaned
<1> QED BY <1>2, <1>3, <1>4 DEF EvictorInv

LEMMA TouchStep ==
    ASSUME EvictorInv, NEW r \in Readers, NEW k \in Keys, Touch(r, k)
    PROVE  EvictorInv'
<1>1. k \in Tracked /\ Renew(k, now) /\ UNCHANGED <<reader, now>>
  BY DEF Touch, Renew
<1>2. now \in Nat /\ now <= now
  BY DEF EvictorInv, IndexInv, IndexType
<1>3. ReaderInv'
  BY <1>1 DEF EvictorInv, ReaderInv
<1> QED BY <1>1, <1>2, <1>3, RenewStep

LEMMA TouchUntrackedStep ==
    ASSUME EvictorInv, NEW r \in Readers, NEW k \in Keys, TouchUntracked(r, k)
    PROVE  EvictorInv'
<1>1. /\ reader' = [reader EXCEPT ![r] = Look("stat", k, now, 0)]
      /\ UNCHANGED <<index, disk, writer, history, call, now>>
  BY DEF TouchUntracked
<1>2. now \in Nat /\ now <= now /\ 0 \in 0..Cap
  BY EvictorAssumption DEF EvictorInv, IndexInv, IndexType
<1>3. ReaderInv'
  <2> DEFINE look == Look("stat", k, now, 0)
  <2>1. /\ look \in [step : {"idle", "stat", "adopt"}, key : Keys \cup {None}, at : Nat, found : 0..Cap]
        /\ look.at <= now /\ look.key \in Keys /\ look.step = "stat"
    BY <1>2 DEF Look
  <2> HIDE DEF look
  <2> QED BY <1>1, <2>1, LookType DEF EvictorInv, look
<1>4. CallInv'
  BY <1>1 DEF EvictorInv, CallInv
<1> QED BY <1>1, <1>3, <1>4, NowStays, QuietStep

LEMMA StatStep ==
    ASSUME EvictorInv, NEW r \in Readers, Stat(r)
    PROVE  EvictorInv'
<1>0. /\ IndexInv /\ IndexType /\ CallInv /\ WriterInv /\ ReaderInv /\ SoloInv /\ InFlightKept
      /\ UntrackedOnlyIfOrphaned
  BY DEF EvictorInv, IndexInv
<1> DEFINE k == reader[r].key
           look == IF disk[k] = 0 THEN Idle ELSE Look("adopt", k, reader[r].at, disk[k])
<1>1. reader' = [reader EXCEPT ![r] = look] /\ UNCHANGED <<index, disk, writer, history, call, now>>
  BY DEF Stat
<1>2. k \in Keys /\ reader[r].at \in Nat /\ reader[r].at <= now /\ disk[k] \in 0..Cap /\ Cap \in Nat
  BY <1>0, EvictorAssumption DEF ReaderInv, Stat, Reading, IndexType, Sized
<1>3. /\ look \in [step : {"idle", "stat", "adopt"}, key : Keys \cup {None}, at : Nat, found : 0..Cap]
      /\ look.at <= now /\ (look.step # "idle" => look.key \in Keys)
      /\ (look.step = "adopt" => look.found > 0)
  <2>1. CASE disk[k] = 0
    BY <1>0, <2>1, IdleType
  <2>2. CASE disk[k] # 0
    BY <1>2, <2>2 DEF Look
  <2> QED BY <2>1, <2>2
<1> HIDE DEF look
<1>4. ReaderInv'
  BY <1>0, <1>1, <1>3, LookType
<1>5. CallInv'
  BY <1>0, <1>1 DEF CallInv
<1> QED BY <1>1, <1>4, <1>5, NowStays, QuietStep

LEMMA TouchLateStep ==
    ASSUME EvictorInv, NEW r \in Readers, TouchLate(r)
    PROVE  EvictorInv'
<1>0. /\ IndexInv /\ IndexType /\ CallInv /\ WriterInv /\ ReaderInv /\ SoloInv /\ InFlightKept
      /\ UntrackedOnlyIfOrphaned
  BY DEF EvictorInv, IndexInv
<1>1. /\ reader[r].key \in Tracked /\ Renew(reader[r].key, reader[r].at)
      /\ reader' = [reader EXCEPT ![r] = Idle] /\ now' = now
  BY DEF TouchLate, Renew
<1>2. reader[r].at \in Nat /\ reader[r].at <= now
  BY <1>0 DEF ReaderInv
<1>3. ReaderInv'
  BY <1>0, <1>1, IdleType, LookType
<1> QED BY <1>1, <1>2, <1>3, RenewStep

LEMMA AdoptStep ==
    ASSUME EvictorInv, NEW r \in Readers, Adopt(r)
    PROVE  EvictorInv'
<1>0. /\ IndexInv /\ IndexType /\ CallInv /\ WriterInv /\ ReaderInv /\ SoloInv /\ InFlightKept
      /\ UntrackedOnlyIfOrphaned
  BY DEF EvictorInv, IndexInv
<1>1. /\ orphaned' = orphaned \ {reader[r].key} /\ reader' = [reader EXCEPT ![r] = Idle]
      /\ UNCHANGED <<pending, call, disk, now, writer, dropped, solo>>
  BY DEF Adopt
<1>2. IndexInv' /\ Tracked' = Tracked \cup {reader[r].key}
  BY <1>0, AdoptKeepsIndex
<1>3. WriterInv' /\ SoloInv' /\ InFlightKept'
  BY <1>0, <1>1, <1>2, FreeSame, FreeIsInt, WritersSame
<1>4. CallInv' /\ UntrackedOnlyIfOrphaned'
  BY <1>0, <1>1, <1>2 DEF CallInv, UntrackedOnlyIfOrphaned
<1>5. ReaderInv'
  BY <1>0, <1>1, IdleType, LookType
<1> QED BY <1>2, <1>3, <1>4, <1>5 DEF EvictorInv

LEMMA ClearStep == ASSUME EvictorInv, Clear PROVE EvictorInv'
<1>0. /\ IndexInv /\ IndexType /\ CallInv /\ WriterInv /\ ReaderInv /\ SoloInv /\ InFlightKept
      /\ UntrackedOnlyIfOrphaned
  BY DEF EvictorInv, IndexInv
<1>1. /\ disk' = [k \in Keys |-> 0] /\ dropped' = InFlight
      /\ UNCHANGED <<call, now, writer, reader, solo>>
  BY DEF Clear
<1>2. IndexInv'
  BY <1>0, ClearKeepsIndex
<1>3. Free' \in Int /\ Free' >= Free
  <2>1. Bytes(disk, Keys)' = Bytes(disk', Keys)
    BY DEF Bytes
  <2>2. Bytes(disk', Keys) \in Nat /\ Bytes(disk, Keys) \in Nat /\ FsSize \in Nat
    BY BytesNat, EvictorAssumption
  <2>3. Contents(disk', Keys) = {}
    <3> SUFFICES ASSUME NEW c \in Contents(disk', Keys) PROVE FALSE
      OBVIOUS
    <3>1. c[1] \in Keys /\ c[2] \in 1..Cap /\ c[2] <= disk'[c[1]]
      BY DEF Contents
    <3>2. disk'[c[1]] = 0
      BY <1>1, <3>1
    <3> QED BY <3>1, <3>2, EvictorAssumption
  <2>4. Bytes(disk', Keys) = 0
    BY <2>3, BytesNat, FS_EmptySet, EvictorAssumption
  <2> QED BY <2>1, <2>2, <2>4 DEF Free
<1>4. WriterInv' /\ InFlight' = InFlight
  BY <1>0, <1>1 DEF WriterInv, InFlight
<1>5. SoloInv'
  BY <1>0, <1>1, <1>3, SoloStays
<1>6. InFlightKept'
  BY <1>1, <1>4 DEF InFlightKept
<1>7. CallInv' /\ ReaderInv' /\ UntrackedOnlyIfOrphaned'
  BY <1>0, <1>1 DEF CallInv, ReaderInv, UntrackedOnlyIfOrphaned
<1> QED BY <1>2, <1>4, <1>5, <1>6, <1>7 DEF EvictorInv

LEMMA VanishStep == ASSUME EvictorInv, NEW k \in Keys, Vanish(k) PROVE EvictorInv'
<1>0. /\ IndexInv /\ IndexType /\ CallInv /\ WriterInv /\ ReaderInv /\ SoloInv /\ InFlightKept
      /\ UntrackedOnlyIfOrphaned
  BY DEF EvictorInv, IndexInv
<1>1. /\ disk' = [disk EXCEPT ![k] = 0] /\ orphaned' = orphaned \ {k}
      /\ UNCHANGED <<lru, size, heat, pending, total, call, now, writer, reader, dropped, solo, late>>
  BY DEF Vanish, index
<1>2. 0 \in 0..Cap
  BY EvictorAssumption
<1>3. Sized(disk)' /\ disk'[k] = 0 /\ \A x \in Keys \ {k} : disk'[x] = disk[x]
  BY <1>0, <1>1, <1>2 DEF IndexType, Sized
<1>4. IndexInv' /\ Tracked' = Tracked
  BY <1>0, <1>1, <1>3, IndexSame DEF IndexType
<1>5. Free' \in Int /\ Free' >= Free
  <2>1. Free \in Int /\ Free' = Free + disk[k] - 0 /\ disk[k] \in Nat
    BY <1>0, <1>1, <1>2, FreeAfter
  <2> QED BY <2>1
<1>6. WriterInv' /\ SoloInv' /\ InFlightKept'
  BY <1>0, <1>1, <1>4, <1>5, WritersSame
<1>7. CallInv' /\ ReaderInv' /\ UntrackedOnlyIfOrphaned'
  BY <1>0, <1>1, <1>3, <1>4 DEF CallInv, ReaderInv, UntrackedOnlyIfOrphaned
<1> QED BY <1>4, <1>6, <1>7 DEF EvictorInv

LEMMA TickStep == ASSUME EvictorInv, Tick PROVE EvictorInv'
<1>1. UNCHANGED <<index, call, disk, writer, reader, history>> /\ now' = now + 1
  BY DEF Tick
<1>2. now' \in Nat /\ now <= now' /\ now \in Nat
  BY <1>1 DEF EvictorInv, IndexInv, IndexType
<1>3. CallInv'
  BY <1>1 DEF EvictorInv, CallInv
<1>4. ReaderInv'
  BY <1>1, <1>2 DEF EvictorInv, ReaderInv
<1> QED BY <1>1, <1>2, <1>3, <1>4, QuietStep

\* Every step keeps the invariant.
LEMMA EvictorStep == EvictorInv /\ [Next]_vars => EvictorInv'
<1> SUFFICES ASSUME EvictorInv, [Next]_vars PROVE EvictorInv'
  OBVIOUS
<1>1. CASE Locked
  BY <1>1, EvictStep, UnlinkFailsStep, LoopsStep DEF Locked
<1>2. ASSUME NEW w \in Writers, Write(w) PROVE EvictorInv'
  BY <1>2, ReserveStep, LandStep, CommitStep, AbortStep, WriteFailsStep DEF Write
<1>3. ASSUME NEW r \in Readers, Read(r) PROVE EvictorInv'
  BY <1>3, TouchStep, TouchUntrackedStep, StatStep, TouchLateStep, AdoptStep DEF Read
<1>4. CASE Outside
  BY <1>4, ClearStep, VanishStep, TickStep DEF Outside
<1>5. CASE UNCHANGED vars
  <2>1. UNCHANGED <<index, call, disk, now, writer, reader, history>>
    BY <1>5 DEF vars
  <2>2. CallInv' /\ ReaderInv'
    BY <2>1 DEF EvictorInv, CallInv, ReaderInv
  <2> QED BY <2>1, <2>2, NowStays, QuietStep
<1> QED BY <1>1, <1>2, <1>3, <1>4, <1>5 DEF Next

-----------------------------------------------------------------------------
(* The start: the scan enters every file once *)

LEMMA EvictorStarts == Init => EvictorInv
<1> SUFFICES ASSUME Init PROVE EvictorInv
  OBVIOUS
<1>1. PICK present \in SUBSET Keys :
         /\ disk = [k \in Keys |-> IF k \in present THEN SizeOf[k] ELSE 0]
         /\ lru \in {s \in [1..Cardinality(present) -> present] :
                       \A i, j \in DOMAIN s : s[i] = s[j] => i = j}
  BY DEF Init, ScanExistingFiles
<1>2. size = disk /\ heat = [k \in Keys |-> Cold] /\ total = Bytes(disk, Keys) /\ now = 0 /\ pending = {}
  BY DEF Init, ScanExistingFiles
<1> DEFINE n == Cardinality(present)
<1>3. IsFiniteSet(present) /\ n \in Nat
  BY FS_Subset, FS_CardinalityType, EvictorAssumption
<1> HIDE DEF n
<1>4. /\ lru \in [1..n -> present] /\ DOMAIN lru = 1..n
      /\ \A i, j \in 1..n : lru[i] = lru[j] => i = j
  BY <1>1 DEF n
<1>5. lru \in Seq(Keys) /\ Len(lru) = n
  <2>1. lru \in [1..n -> Keys]
    BY <1>4
  <2>2. lru \in Seq(Keys)
    BY <1>3, <2>1, SeqDef
  <2> QED BY <1>3, <1>4, <2>2, LenProperties
<1>6. Order(lru)
  BY <1>4, <1>5 DEF Order, Distinct
<1>7. Sized(disk) /\ Sized(size)
  BY <1>1, <1>2, EvictorAssumption DEF Sized
<1>8. Cold \in [at : Nat, hits : Nat] /\ Cold.at = 0
  BY DEF Heat, Cold
<1>9. IndexType
  BY <1>2, <1>6, <1>7, <1>8 DEF IndexType
<1>10. Tracked = present
  <2>1. Tracked \subseteq present
    BY <1>4, <1>5 DEF Tracked
  <2>2. ASSUME NEW x \in present, x \notin Tracked PROVE FALSE
    <3>1. \A i \in 1..n : lru[i] # x
      BY <1>5, <2>2 DEF Tracked
    <3>2. lru \in [1..n -> present \ {x}]
      BY <1>4, <3>1
    <3>3. IsFiniteSet(present \ {x}) /\ Cardinality(present \ {x}) = n - 1
      BY <1>3, <2>2, FS_RemoveElement DEF n
    <3>4. IsFiniteSet(1..n) /\ Cardinality(1..n) = n
      <4>1. 1 \in Int /\ n \in Int
        BY <1>3
      <4>2. IsFiniteSet(1..n) /\ Cardinality(1..n) = IF 1 > n THEN 0 ELSE n - 1 + 1
        BY <4>1, FS_Interval
      <4> QED BY <1>3, <4>2
    <3>5. Cardinality(present \ {x}) < Cardinality(1..n)
      BY <1>3, <3>3, <3>4
    <3>6. \E i, j \in 1..n : i # j /\ lru[i] = lru[j]
      <4> DEFINE S == 1..n
                 T == present \ {x}
      <4>1. lru \in [S -> T] /\ IsFiniteSet(S) /\ IsFiniteSet(T) /\ Cardinality(T) < Cardinality(S)
        BY <3>2, <3>3, <3>4, <3>5
      <4> HIDE DEF S, T
      <4>2. \E i, j \in S : i # j /\ lru[i] = lru[j]
        BY <4>1, FS_PigeonHole
      <4> QED BY <4>2 DEF S
    <3> QED BY <1>4, <3>6
  <2> QED BY <2>1, <2>2
<1>11. TotalExact
  <2>1. \A k \in Keys : size[k] > 0 <=> k \in present
    BY <1>1, <1>2, EvictorAssumption
  <2>2. Contents(size, Keys) = Contents(size, present)
    <3>1. ASSUME NEW c \in Contents(size, Keys) PROVE c \in Contents(size, present)
      <4>1. c \in Keys \X (1..Cap) /\ c[1] \in Keys /\ c[2] \in 1..Cap /\ c[2] <= size[c[1]]
        BY DEF Contents
      <4>2. size[c[1]] \in Nat
        BY <1>7, <4>1, EvictorAssumption DEF Sized
      <4>3. size[c[1]] > 0
        BY <4>1, <4>2, EvictorAssumption
      <4>4. c[1] \in present
        BY <2>1, <4>1, <4>3
      <4>5. c \in present \X (1..Cap)
        BY <4>1, <4>4
      <4> QED BY <4>1, <4>5 DEF Contents
    <3>2. Contents(size, present) \subseteq Contents(size, Keys)
      BY DEF Contents
    <3> QED BY <3>1, <3>2
  <2>3. Bytes(size, Keys) = Bytes(size, present)
    BY <1>3, <2>2, BytesNat, EvictorAssumption
  <2> QED BY <1>2, <1>10, <2>1, <2>3 DEF TotalExact
<1>12. OrderInv
  <2>1. \A k \in Keys : heat[k].at = 0
    BY <1>2, <1>8
  <2>2. \A i \in 1..Len(lru) : lru[i] \in Keys
    BY <1>5
  <2>3. \A i, j \in 1..Len(lru) : ~ Colder(lru[j], lru[i])
    BY <2>1, <2>2 DEF Colder
  <2> QED BY <1>2, <2>1, <2>3 DEF OrderInv
<1>13. CallInv
  BY DEF Init, CallInv
<1>14. InFlight = {} /\ WriterInv
  BY DEF Init, InFlight, WriterInv, WriterSteps
<1>15. ReaderInv
  <2>1. \A r \in Readers : reader[r] = Idle /\ reader = [x \in Readers |-> Idle]
    BY DEF Init
  <2>2. reader = [x \in Readers |-> Idle]
    BY DEF Init
  <2> QED BY <1>9, <2>1, <2>2, IdleType DEF ReaderInv
<1>16. SoloInv /\ InFlightKept
  BY <1>14 DEF Init, SoloInv, InFlightKept
<1>17. UntrackedOnlyIfOrphaned
  <2>1. \A k \in Keys : disk[k] > 0 => k \in present
    BY <1>1
  <2> QED BY <1>10, <2>1 DEF UntrackedOnlyIfOrphaned
<1> QED BY <1>9, <1>11, <1>12, <1>13, <1>14, <1>15, <1>16, <1>17 DEF EvictorInv, IndexInv

-----------------------------------------------------------------------------
(* The eviction policy *)

\* What the loop evicts is not warmer than what stays and could have been evicted.
LEMMA EvictsColdest ==
    ASSUME EvictorInv, Evict, NEW v \in Tracked' \ (pending \cup late)
    PROVE  ~ (heat[v].at < heat[Victim].at /\ heat[v].hits <= heat[Victim].hits)
<1>0. IndexType /\ OrderInv /\ IndexInv /\ Window \in Nat /\ lru \in Seq(Keys) /\ Len(lru) \in Nat
  BY EvictorAssumption DEF EvictorInv, IndexInv, IndexType, Order
<1>1. PICK p \in InWindow : Victim = lru[p] /\ \A j \in InWindow : ~ (Score(lru[j]) < Score(lru[p]))
  BY <1>0, VictimIsLowest DEF Evict, WantsMore
<1>2. p \in 1..Len(lru) /\ p <= Window
  BY <1>0 DEF InWindow, UpTo
<1>3. v \in Tracked
  BY <1>0, EvictKeepsIndex
<1>4. PICK j \in 1..Len(lru) : v = lru[j]
  BY <1>3 DEF Tracked
<1>5. CASE j <= Window
  <2>1. j \in InWindow
    BY <1>0, <1>4, <1>5 DEF InWindow, UpTo
  <2>2. ~ (Score(v) < Score(Victim))
    BY <1>1, <1>4, <2>1
  <2>3. v \in Keys /\ Victim \in Keys
    BY <1>0, <1>1, <1>2, <1>4
  <2> QED BY <1>0, <2>2, <2>3, ScoreGrows
<1>6. CASE j > Window
  <2>1. p < j
    BY <1>0, <1>2, <1>6
  <2>2. ~ Colder(lru[j], lru[p])
    BY <1>0, <1>2, <1>4, <1>6, <2>1 DEF OrderInv
  <2> QED BY <1>1, <1>4, <2>2 DEF Colder
<1> QED BY <1>0, <1>5, <1>6

\* Under the lock nothing but the loop takes an entry away.
LEMMA ColderStep == EvictorInv /\ [Next]_vars => ColderGoesFirst
<1> SUFFICES ASSUME EvictorInv, [Next]_vars, call # None, NEW u \in Tracked, u \notin Tracked',
                    NEW v \in Tracked' \ (pending \cup late)
             PROVE  ~ (heat[v].at < heat[u].at /\ heat[v].hits <= heat[u].hits)
  BY DEF ColderGoesFirst
<1>0. IndexInv /\ CallInv
  BY DEF EvictorInv
<1>1. CASE Evict
  <2>1. u = Victim
    BY <1>0, <1>1, EvictKeepsIndex
  <2> QED BY <1>1, <2>1, EvictsColdest
<1>2. ASSUME lru' = lru PROVE FALSE
  BY <1>2 DEF Tracked
<1>3. CASE UnlinkFails
  BY <1>0, <1>3, UnlinkFailsKeepsIndex
<1>4. ASSUME NEW probed, call.who # None, Admit(call.who, call.key, probed), disk' = disk, now' = now PROVE FALSE
  BY <1>0, <1>4, AdmitKeepsIndex DEF CallInv
<1>5. CASE CapDecided
  BY <1>2, <1>5 DEF CapDecided, Refuse, index
<1>6. CASE FreeDecided
  BY <1>2, <1>4, <1>6 DEF FreeDecided, Refuse, index
<1>7. CASE ProbeFails
  BY <1>2, <1>4, <1>7 DEF ProbeFails, index
<1>8. ASSUME NEW w \in Writers, Write(w) PROVE FALSE
  BY <1>2, <1>8 DEF Write, Reserve, Land, Commit, Abort, WriteFails, index
<1>9. ASSUME NEW r \in Readers, Read(r) PROVE FALSE
  BY <1>2, <1>9 DEF Read, Touch, TouchUntracked, Touchable, Stat, TouchLate, Adopt, index
<1>10. CASE Outside
  BY <1>2, <1>10 DEF Outside, Clear, Vanish, Tick, index
<1>11. CASE UNCHANGED vars
  BY <1>2, <1>11 DEF vars, index
<1> QED BY <1>1, <1>3, <1>5, <1>6, <1>7, <1>8, <1>9, <1>10, <1>11 DEF Next, Locked

\* The write that there was room for lands above the watermark.
LEMMA LandsStep == EvictorInv /\ [Next]_vars => LandsAboveWatermark
<1> SUFFICES ASSUME EvictorInv, [Next]_vars, NEW w \in solo,
                    writer[w].step = "writing", writer'[w].step = "landed"
             PROVE  Free' >= MinFree
  BY DEF LandsAboveWatermark
<1>0. IndexType /\ CallInv /\ WriterInv /\ SoloInv /\ w \in Writers
  BY DEF EvictorInv, IndexInv, SoloInv
<1>1. CASE Land(w)
  <2> DEFINE k == writer[w].key
  <2>1. k \in Keys
    BY <1>0, <1>1 DEF WriterInv, InFlight, Land
  <2>2. SizeOf[k] \in 0..Cap /\ SizeOf[k] \in Nat /\ MinFree \in Nat
    BY <2>1, EvictorAssumption
  <2>3. Free \in Int /\ Free' = Free + disk[k] - SizeOf[k] /\ disk[k] \in Nat
    BY <1>0, <1>1, <2>1, <2>2, FreeAfter DEF Land
  <2>4. Free >= SizeOf[k] + MinFree
    BY <1>0 DEF SoloInv
  <2> QED BY <2>2, <2>3, <2>4
<1>2. ASSUME writer' = writer PROVE FALSE
  BY <1>2
<1>3. ASSUME NEW x \in Writers, NEW step \in WriterSteps, writer[x].step # "idle", Step(x, step),
             x # w \/ step # "landed"
      PROVE  FALSE
  BY <1>0, <1>3, StepKeepsWriters
<1>4. CASE Locked
  <2>1. call # None /\ call.who # None => call.who \in Writers /\ writer[call.who].step = "reserving"
    BY <1>0 DEF CallInv
  <2>2. CASE Evict \/ UnlinkFails
    BY <1>2, <2>2 DEF Evict, UnlinkFails
  <2>3. ASSUME call # None, call.who # None, Refuse(call.who) PROVE FALSE
    BY <1>3, <2>1, <2>3 DEF Refuse, WriterSteps
  <2>4. ASSUME NEW probed, call # None, call.who # None, Admit(call.who, call.key, probed) PROVE FALSE
    BY <1>3, <2>1, <2>4 DEF Admit, WriterSteps
  <2>5. CASE CapDecided
    BY <1>2, <2>3, <2>5 DEF CapDecided
  <2>6. CASE FreeDecided
    BY <1>2, <2>3, <2>4, <2>6 DEF FreeDecided
  <2>7. CASE ProbeFails
    BY <1>2, <2>4, <2>7 DEF ProbeFails
  <2> QED BY <1>4, <2>2, <2>5, <2>6, <2>7 DEF Locked
<1>5. ASSUME NEW x \in Writers, Write(x) PROVE Free' >= MinFree
  <2>1. ASSUME NEW k \in Keys, Reserve(x, k) PROVE FALSE
    BY <1>0, <2>1 DEF Reserve, WriterInv
  <2>2. CASE Land(x)
    <3>1. CASE x = w
      BY <1>1, <2>2, <3>1
    <3>2. CASE x # w
      BY <1>3, <2>2, <3>2 DEF Land, WriterSteps
    <3> QED BY <3>1, <3>2
  <2>3. CASE Commit(x)
    BY <1>3, <2>3 DEF Commit, WriterSteps
  <2>4. CASE Abort(x)
    BY <1>3, <2>4 DEF Abort, WriterSteps
  <2>5. ASSUME NEW part \in 0..1, WriteFails(x, part) PROVE FALSE
    BY <1>3, <2>5 DEF WriteFails, WriterSteps
  <2> QED BY <1>5, <2>1, <2>2, <2>3, <2>4, <2>5 DEF Write
<1>6. ASSUME NEW r \in Readers, Read(r) PROVE FALSE
  BY <1>2, <1>6 DEF Read, Touch, TouchUntracked, Stat, TouchLate, Adopt, Renew
<1>7. CASE Outside
  BY <1>2, <1>7 DEF Outside, Clear, Vanish, Tick
<1>8. CASE UNCHANGED vars
  BY <1>2, <1>8 DEF vars
<1> QED BY <1>4, <1>5, <1>6, <1>7, <1>8 DEF Next

-----------------------------------------------------------------------------
(* Theorems *)

\* The invariant of the evictor.
LEMMA EvictorInvHolds == Spec => []EvictorInv
  BY EvictorStarts, EvictorStep, PTL DEF Spec

\* _total_bytes is what the index holds, a write in flight keeps its entry until commit or
\* abort, and only an overtaken or failed write leaves a file that the index does not know:
\* for any keys, sizes, writers and readers, whoever evicts, reads, fails or wipes meanwhile.
THEOREM IndexIsSound == Spec => []IndexSound
<1>1. EvictorInv => IndexSound
  BY DEF EvictorInv, IndexInv, IndexSound
<1> QED BY <1>1, EvictorInvHolds, PTL

\* reserve makes room enough, of the coldest files: for any cap, watermark, budget and window,
\* a write admitted alone lands above the watermark, and no file is evicted while a colder
\* one that could have gone stays.
THEOREM EvictionIsFair == Spec => EvictionPolicy
<1>1. EvictorInv /\ [Next]_vars => [LandsAboveWatermark /\ ColderGoesFirst]_vars
  BY ColderStep, LandsStep
<1> QED BY <1>1, EvictorInvHolds, PTL DEF Spec, EvictionPolicy
=============================================================================
