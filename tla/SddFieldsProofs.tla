-------------------------- MODULE SddFieldsProofs ---------------------------
(***************************************************************************)
(* Proofs, for every body and every list of fields, that the parsers of    *)
(* customer-sdd name each wrong field once.  What Keep and FlattenSeq      *)
(* return is proved first, by induction over positions.                    *)
(***************************************************************************)
EXTENDS SddHttpProperties, FiniteSetTheorems, SequenceTheorems, TLAPS

-----------------------------------------------------------------------------
(* Sequences.                                                              *)

\* Every set of numbers that is not empty has a smallest element.
LEMMA SmallestElement ==
    ASSUME NEW T \in SUBSET Nat, T # {}
    PROVE  \E n \in T : \A m \in T : n <= m
<1>1. PICK R : R = OpToRel(<, Nat)
  OBVIOUS
<1>2. \A x, y \in Nat : y < x => <<y, x>> \in R
  BY <1>1 DEF OpToRel
<1>3. IsWellFoundedOn(R, Nat)
  BY <1>1, NatLessThanWellFounded
<1>4. PICK x \in T : \A y \in T : ~ (<<y, x>> \in R)
  BY <1>3, WFMin
<1>5. ASSUME NEW m \in T PROVE x <= m
  <2>1. x \in Nat /\ m \in Nat
    OBVIOUS
  <2>2. ~(m < x)
    BY <1>2, <1>4, <2>1
  <2> QED
    BY <2>1, <2>2
<1> QED
  BY <1>5

\* Induction over the positions 1..k, stated for a set G of good positions.
LEMMA PrefixInduction ==
    ASSUME NEW k \in Nat, NEW G, 1 \in G,
           \A n \in 1..k : (n > 1 /\ n - 1 \in G) => n \in G
    PROVE  \A n \in 1..k : n \in G
<1>1. PICK T : T = {n \in 1..k : n \notin G}
  OBVIOUS
<1> SUFFICES ASSUME T # {} PROVE FALSE
  BY <1>1
<1>2. T \in SUBSET Nat
  BY <1>1
<1>3. PICK n \in T : \A m \in T : n <= m
  BY <1>2, SmallestElement
<1>4. n \in 1..k /\ n \notin G /\ n > 1
  BY <1>1, <1>3
<1>5. n - 1 \in 1..k /\ ~(n <= n - 1)
  BY <1>4
<1>6. n - 1 \in G
  BY <1>1, <1>3, <1>5
<1> QED
  BY <1>4, <1>6

Flattens(f, s, n) ==
    f = [i \in 1..n |-> IF i = 1 THEN s[i] ELSE f[i - 1] \o s[i]]

\* The recursive function in FlattenSeq exists: f[n] is what the first n
\* sequences of s give when they are joined.
LEMMA FlattensExists ==
    ASSUME NEW s, NEW k \in Nat \ {0}
    PROVE  \E f : Flattens(f, s, k)
<1> DEFINE G == {n \in 1..k : \E f : Flattens(f, s, n)}
<1>1. 1 \in G
  <2>1. Flattens([i \in 1..1 |-> s[1]], s, 1)
    BY DEF Flattens
  <2> QED
    BY <2>1
<1>2. ASSUME NEW n \in 1..k, n > 1, n - 1 \in G PROVE n \in G
  <2>1. PICK f : Flattens(f, s, n - 1)
    BY <1>2
  <2> DEFINE g == [i \in 1..n |-> IF i = n THEN f[n - 1] \o s[n] ELSE f[i]]
  <2>2. \A i \in 1..n : g[i] = IF i = 1 THEN s[i] ELSE g[i - 1] \o s[i]
    <3> SUFFICES ASSUME NEW i \in 1..n PROVE g[i] = IF i = 1 THEN s[i] ELSE g[i - 1] \o s[i]
      OBVIOUS
    <3>1. CASE i = n
      <4>1. n \in 1..n /\ n - 1 \in 1..n /\ n - 1 # n /\ n # 1
        BY <1>2
      <4>2. g[n - 1] = f[n - 1] /\ g[n] = f[n - 1] \o s[n]
        BY <4>1
      <4> QED
        BY <4>1, <4>2, <3>1
    <3>2. CASE i # n
      <4>1. i \in 1..(n - 1)
        BY <3>2
      <4>2. f[i] = IF i = 1 THEN s[i] ELSE f[i - 1] \o s[i]
        BY <2>1, <4>1 DEF Flattens
      <4>3. i # 1 => i - 1 \in 1..n /\ i - 1 # n
        BY <4>1
      <4> QED
        BY <4>2, <4>3, <3>2
    <3> QED
      BY <3>1, <3>2
  <2>3. Flattens(g, s, n)
    <3> HIDE DEF g
    <3>1. g = [i \in 1..n |-> g[i]]
      BY DEF g
    <3> QED
      BY <2>2, <3>1 DEF Flattens
  <2> QED
    BY <2>3
<1> HIDE DEF G
<1>3. k \in G
  BY <1>1, <1>2, PrefixInduction
<1> QED
  BY <1>3 DEF G

\* FlattenSeq is the last value of that function.
LEMMA FlattenSeqFlattens ==
    ASSUME NEW S, NEW s \in Seq(S), s # <<>>
    PROVE  \E f : Flattens(f, s, Len(s)) /\ FlattenSeq(s) = f[Len(s)]
<1>1. Len(s) \in Nat \ {0}
  BY EmptySeq
<1>2. \E f : Flattens(f, s, Len(s))
  BY <1>1, FlattensExists
<1> QED
  BY <1>1, <1>2 DEF Flattens, FlattenSeq

\* The sequence f holds the items of the first n sequences of s, in order.
InOrder(f, s, n) ==
    /\ \A i \in DOMAIN f : \E a \in 1..n : \E p \in DOMAIN s[a] : f[i] = s[a][p]
    /\ \A a \in 1..n : \A p \in DOMAIN s[a] : \E i \in DOMAIN f : f[i] = s[a][p]
    /\ \A i, j \in DOMAIN f : i < j =>
          \E a, b \in 1..n : \E p \in DOMAIN s[a], q \in DOMAIN s[b] :
              /\ f[i] = s[a][p] /\ f[j] = s[b][q]
              /\ a < b \/ (a = b /\ p < q)

\* Induction base: one sequence is in the order of itself.
LEMMA InOrderFirst ==
    ASSUME NEW S, NEW s \in Seq(Seq(S)), s # <<>>
    PROVE  s[1] \in Seq(S) /\ InOrder(s[1], s, 1)
<1>1. 1 \in DOMAIN s /\ s[1] \in Seq(S)
  BY EmptySeq
<1>2. 1..1 = {1}
  OBVIOUS
<1> QED
  BY <1>1, <1>2 DEF InOrder

\* Induction step: joining one more sequence keeps the order.
LEMMA InOrderNext ==
    ASSUME NEW S, NEW s \in Seq(Seq(S)), NEW n \in 2..Len(s),
           NEW f \in Seq(S), InOrder(f, s, n - 1)
    PROVE  f \o s[n] \in Seq(S) /\ InOrder(f \o s[n], s, n)
<1>1. s[n] \in Seq(S) /\ n \in 1..n /\ \A a \in 1..(n - 1) : a \in 1..n /\ a < n
  OBVIOUS
<1>2. PICK g : g = f \o s[n]
  OBVIOUS
<1>3. /\ g \in Seq(S) /\ DOMAIN g = 1..(Len(f) + Len(s[n]))
      /\ Len(f) \in Nat /\ Len(s[n]) \in Nat
      /\ DOMAIN f = 1..Len(f) /\ DOMAIN s[n] = 1..Len(s[n])
  BY <1>1, <1>2, ConcatProperties
<1>4. \A i \in DOMAIN f : i \in DOMAIN g /\ g[i] = f[i]
  BY <1>1, <1>2, <1>3, ConcatProperties
<1>5. ASSUME NEW p \in DOMAIN s[n] PROVE Len(f) + p \in DOMAIN g /\ g[Len(f) + p] = s[n][p]
  <2>1. /\ p \in 1..Len(s[n]) /\ Len(f) + p \in 1..(Len(f) + Len(s[n]))
        /\ Len(f) + p > Len(f) /\ (Len(f) + p) - Len(f) = p
    BY <1>3
  <2> QED
    BY <1>1, <1>2, <1>3, <2>1
<1>6. \A i \in DOMAIN g : i \in DOMAIN f \/ (i - Len(f) \in DOMAIN s[n] /\ g[i] = s[n][i - Len(f)])
  BY <1>1, <1>2, <1>3, ConcatProperties
<1>7. \A i \in DOMAIN g : \E a \in 1..n : \E p \in DOMAIN s[a] : g[i] = s[a][p]
  <2>1. ASSUME NEW i \in DOMAIN f PROVE \E a \in 1..n : \E p \in DOMAIN s[a] : g[i] = s[a][p]
    <3>1. g[i] = f[i]
      BY <1>4
    <3>2. \E a \in 1..(n - 1) : \E p \in DOMAIN s[a] : f[i] = s[a][p]
      BY DEF InOrder
    <3> QED
      BY <1>1, <3>1, <3>2
  <2>2. ASSUME NEW i \in DOMAIN g, i \notin DOMAIN f
        PROVE  \E a \in 1..n : \E p \in DOMAIN s[a] : g[i] = s[a][p]
    BY <1>1, <1>6, <2>2
  <2> QED
    BY <2>1, <2>2
<1>8. \A a \in 1..n : \A p \in DOMAIN s[a] : \E i \in DOMAIN g : g[i] = s[a][p]
  <2>1. ASSUME NEW a \in 1..n, NEW p \in DOMAIN s[a] PROVE \E i \in DOMAIN g : g[i] = s[a][p]
    <3>1. CASE a = n
      BY <1>5, <3>1
    <3>2. CASE a # n
      <4>1. a \in 1..(n - 1)
        BY <3>2
      <4> QED
        BY <1>4, <4>1 DEF InOrder
    <3> QED
      BY <3>1, <3>2
  <2> QED
    BY <2>1
<1>9. ASSUME NEW i \in DOMAIN g, NEW j \in DOMAIN g, i < j
      PROVE  \E a, b \in 1..n : \E p \in DOMAIN s[a], q \in DOMAIN s[b] :
                /\ g[i] = s[a][p] /\ g[j] = s[b][q]
                /\ a < b \/ (a = b /\ p < q)
  <2>1. CASE j \in DOMAIN f
    <3>1. i \in DOMAIN f
      BY <1>3, <1>9, <2>1
    <3>2. g[i] = f[i] /\ g[j] = f[j]
      BY <1>4, <2>1, <3>1
    <3>3. \A k, l \in DOMAIN f : k < l =>
              \E a, b \in 1..(n - 1) : \E p \in DOMAIN s[a], q \in DOMAIN s[b] :
                  /\ f[k] = s[a][p] /\ f[l] = s[b][q]
                  /\ a < b \/ (a = b /\ p < q)
      BY ONLY InOrder(f, s, n - 1) DEF InOrder
    <3>4. PICK a \in 1..(n - 1), b \in 1..(n - 1) : \E p \in DOMAIN s[a], q \in DOMAIN s[b] :
              /\ f[i] = s[a][p] /\ f[j] = s[b][q]
              /\ a < b \/ (a = b /\ p < q)
      BY ONLY <1>9, <2>1, <3>1, <3>3
    <3> QED
      BY <1>1, <3>2, <3>4
  <2>2. CASE i \in DOMAIN f /\ j \notin DOMAIN f
    <3>1. PICK a \in 1..(n - 1) : \E p \in DOMAIN s[a] : g[i] = s[a][p]
      <4>1. g[i] = f[i]
        BY <1>4, <2>2
      <4>2. \E a \in 1..(n - 1) : \E p \in DOMAIN s[a] : f[i] = s[a][p]
        BY <2>2 DEF InOrder
      <4> QED
        BY <4>1, <4>2
    <3>2. \E q \in DOMAIN s[n] : g[j] = s[n][q]
      BY <1>6, <2>2
    <3> QED
      BY <1>1, <3>1, <3>2
  <2>3. CASE i \notin DOMAIN f /\ j \notin DOMAIN f
    <3>1. /\ i - Len(f) \in DOMAIN s[n] /\ g[i] = s[n][i - Len(f)]
          /\ j - Len(f) \in DOMAIN s[n] /\ g[j] = s[n][j - Len(f)]
      BY <1>6, <2>3
    <3>2. i - Len(f) < j - Len(f)
      BY <1>3, <1>9
    <3> QED
      BY <1>1, <3>1, <3>2
  <2> QED
    BY <2>1, <2>2, <2>3
<1>10. InOrder(g, s, n)
  BY <1>7, <1>8, <1>9 DEF InOrder
<1> QED
  BY <1>2, <1>3, <1>10

\* FlattenSeq keeps every item of every sequence, in order.
LEMMA FlattenSeqInOrder ==
    ASSUME NEW S, NEW s \in Seq(Seq(S))
    PROVE  FlattenSeq(s) \in Seq(S) /\ InOrder(FlattenSeq(s), s, Len(s))
<1>1. CASE s = <<>>
  <2>1. Len(s) = 0 /\ FlattenSeq(s) = <<>>
    BY <1>1, EmptySeq DEF FlattenSeq
  <2> QED
    BY <2>1, EmptySeq DEF InOrder
<1>2. CASE s # <<>>
  <2>1. PICK f : Flattens(f, s, Len(s)) /\ FlattenSeq(s) = f[Len(s)]
    BY <1>2, FlattenSeqFlattens
  <2>2. PICK k : k = Len(s)
    OBVIOUS
  <2>3. k \in Nat /\ k \in 1..k
    BY <1>2, <2>2, EmptySeq
  <2> DEFINE G == {n \in 1..k : f[n] \in Seq(S) /\ InOrder(f[n], s, n)}
  <2>4. \A n \in 1..k : f[n] = IF n = 1 THEN s[n] ELSE f[n - 1] \o s[n]
    BY <2>1, <2>2 DEF Flattens
  <2>5. 1 \in G
    <3>1. 1 \in 1..k
      BY <2>3
    <3> QED
      BY <1>2, <2>4, <3>1, InOrderFirst
  <2>6. ASSUME NEW n \in 1..k, n > 1, n - 1 \in G PROVE n \in G
    <3>1. n \in 2..Len(s)
      BY <2>2, <2>6
    <3>2. f[n - 1] \in Seq(S) /\ InOrder(f[n - 1], s, n - 1)
      BY <2>6
    <3>3. n \in 1..k /\ n # 1
      BY <2>6
    <3>4. f[n] = f[n - 1] \o s[n]
      BY <2>4, <3>3
    <3> QED
      BY <3>1, <3>2, <3>4, InOrderNext
  <2> HIDE DEF G
  <2>7. k \in G
    BY <2>3, <2>5, <2>6, PrefixInduction
  <2> QED
    BY <2>1, <2>2, <2>7 DEF G
<1> QED
  BY <1>1, <1>2

\* Keep returns the members of S in the order they have in s, and all of them.
LEMMA KeepInOrder ==
    ASSUME NEW T, NEW s \in Seq(T), NEW S
    PROVE  /\ Keep(s, S) \in Seq(T)
           /\ \A i \in DOMAIN Keep(s, S) : Keep(s, S)[i] \in S \cap ToSet(s)
           /\ \A m \in DOMAIN s : s[m] \in S => \E i \in DOMAIN Keep(s, S) : Keep(s, S)[i] = s[m]
           /\ \A i, j \in DOMAIN Keep(s, S) : i < j =>
                 \E m, n \in DOMAIN s : m < n /\ Keep(s, S)[i] = s[m] /\ Keep(s, S)[j] = s[n]
<1>1. PICK w : w = [i \in DOMAIN s |-> IF s[i] \in S THEN <<s[i]>> ELSE <<>>]
  OBVIOUS
<1>2. \A i \in DOMAIN s : s[i] \in T /\ <<s[i]>> \in Seq(T) /\ <<>> \in Seq(T)
  BY EmptySeq
<1>3. Len(s) \in Nat /\ DOMAIN s = 1..Len(s)
  OBVIOUS
<1>4. w \in [1..Len(s) -> Seq(T)]
  BY <1>1, <1>2, <1>3
<1>5. w \in Seq(Seq(T)) /\ Len(w) = Len(s)
  BY <1>3, <1>4
<1>6. PICK f : f = Keep(s, S)
  OBVIOUS
<1>7. f \in Seq(T) /\ InOrder(f, w, Len(s))
  BY <1>1, <1>5, <1>6, FlattenSeqInOrder DEF Keep
<1>8. \A m \in DOMAIN s : \A p \in DOMAIN w[m] : p = 1 /\ s[m] \in S /\ w[m][p] = s[m]
  BY <1>1
<1>9. \A m \in DOMAIN s : s[m] \in S => 1 \in DOMAIN w[m] /\ w[m][1] = s[m]
  BY <1>1
<1>10. \A i \in DOMAIN f : f[i] \in S \cap ToSet(s)
  BY <1>3, <1>7, <1>8 DEF InOrder, ToSet
<1>11. \A m \in DOMAIN s : s[m] \in S => \E i \in DOMAIN f : f[i] = s[m]
  BY <1>3, <1>7, <1>9 DEF InOrder
<1>12. ASSUME NEW i \in DOMAIN f, NEW j \in DOMAIN f, i < j
       PROVE  \E m, n \in DOMAIN s : m < n /\ f[i] = s[m] /\ f[j] = s[n]
  <2>1. PICK m \in 1..Len(s), n \in 1..Len(s) : \E p \in DOMAIN w[m], q \in DOMAIN w[n] :
            /\ f[i] = w[m][p] /\ f[j] = w[n][q]
            /\ m < n \/ (m = n /\ p < q)
    BY <1>7, <1>12 DEF InOrder
  <2>2. PICK p \in DOMAIN w[m], q \in DOMAIN w[n] :
            /\ f[i] = w[m][p] /\ f[j] = w[n][q]
            /\ m < n \/ (m = n /\ p < q)
    BY <2>1
  <2>3. p = 1 /\ q = 1 /\ w[m][p] = s[m] /\ w[n][q] = s[n]
    BY <1>3, <1>8
  <2> QED
    BY <1>3, <2>2, <2>3
<1> QED
  BY <1>6, <1>7, <1>10, <1>11, <1>12

-----------------------------------------------------------------------------
(* Errors and the paths they name.                                         *)

\* A sequence without repetitions is as long as the set of its items is large.
LEMMA CountDistinct ==
    ASSUME NEW T, NEW f \in Seq(T), \A i, j \in DOMAIN f : i # j => f[i] # f[j]
    PROVE  IsFiniteSet(ToSet(f)) /\ Cardinality(ToSet(f)) = Len(f)
<1>1. Len(f) \in Nat /\ DOMAIN f = 1..Len(f)
  OBVIOUS
<1>2. f \in [1..Len(f) -> ToSet(f)]
  BY <1>1 DEF ToSet
<1>3. f \in Bijection(1..Len(f), ToSet(f))
  BY <1>1, <1>2 DEF Bijection, Injection, Surjection, IsInjective, ToSet
<1>4. ExistsBijection(1..Len(f), ToSet(f))
  BY <1>3 DEF ExistsBijection
<1>5. IsFiniteSet(1..Len(f)) /\ Cardinality(1..Len(f)) = Len(f)
  BY <1>1, FS_Interval
<1> QED
  BY <1>4, <1>5, FS_Bijection

InvalidCodes == {"VAL-001", "VAL-003", "VAL-004", "VAL-005", "VAL-009"}

\* The errors name every path of wrong once, and no other.
NamesOnce(errors, wrong) ==
    /\ errors \in Seq(Errors)
    /\ \A i \in DOMAIN errors : errors[i].field \in wrong /\ errors[i].code \in InvalidCodes
    /\ \A w \in wrong : \E i \in DOMAIN errors : errors[i].field = w
    /\ \A i, j \in DOMAIN errors : i # j => errors[i].field # errors[j].field

\* Nothing wrong, no errors.
LEMMA NoneNamed == NamesOnce(<<>>, {})
  BY EmptySeq DEF NamesOnce

\* One error names one path.
LEMMA OneNamed ==
    ASSUME NEW code \in InvalidCodes, NEW path \in Paths
    PROVE  NamesOnce(<<Error(code, path)>>, {path})
<1>1. code \in Codes
  BY DEF InvalidCodes, Codes
<1>2. Error(code, path) \in Errors
  BY <1>1 DEF Errors, Error
<1>3. DOMAIN <<Error(code, path)>> = {1} /\ <<Error(code, path)>> \in Seq(Errors)
  BY <1>2
<1> QED
  BY <1>3 DEF NamesOnce, Error

\* Errors that name every path once are as many as the paths.
LEMMA NamesOnceCount ==
    ASSUME NEW errors, NEW wrong, NamesOnce(errors, wrong)
    PROVE  /\ {errors[i].field : i \in DOMAIN errors} = wrong
           /\ Len(errors) = Cardinality(wrong)
           /\ errors = <<>> <=> wrong = {}
<1>1. {errors[i].field : i \in DOMAIN errors} = wrong
  BY DEF NamesOnce
<1>2. PICK f : f = [i \in DOMAIN errors |-> errors[i].field]
  OBVIOUS
<1>3. Len(errors) \in Nat /\ DOMAIN errors = 1..Len(errors)
  BY DEF NamesOnce
<1>4. f \in [1..Len(errors) -> wrong]
  BY <1>1, <1>2, <1>3
<1>5. f \in Seq(wrong) /\ Len(f) = Len(errors)
  BY <1>3, <1>4
<1>6. ToSet(f) = wrong
  BY <1>1, <1>2 DEF ToSet
<1>7. \A i, j \in DOMAIN f : i # j => f[i] # f[j]
  BY <1>2 DEF NamesOnce
<1>8. Cardinality(wrong) = Len(errors)
  BY <1>5, <1>6, <1>7, CountDistinct
<1>9. errors = <<>> <=> wrong = {}
  <2>1. errors = <<>> => wrong = {}
    BY EmptySeq DEF NamesOnce
  <2>2. errors # <<>> => 1 \in DOMAIN errors
    BY <1>3, EmptySeq DEF NamesOnce
  <2> QED
    BY <2>1, <2>2 DEF NamesOnce
<1> QED
  BY <1>1, <1>8, <1>9

\* Errors about disjoint paths may be joined.
LEMMA NamesOnceConcat ==
    ASSUME NEW e, NEW f, NEW v, NEW w, NamesOnce(e, v), NamesOnce(f, w), v \cap w = {}
    PROVE  NamesOnce(e \o f, v \cup w)
<1>1. e \in Seq(Errors) /\ f \in Seq(Errors)
  BY DEF NamesOnce
<1>2. PICK g : g = e \o f
  OBVIOUS
<1>3. /\ g \in Seq(Errors) /\ DOMAIN g = 1..(Len(e) + Len(f))
      /\ Len(e) \in Nat /\ Len(f) \in Nat
      /\ DOMAIN e = 1..Len(e) /\ DOMAIN f = 1..Len(f)
  BY <1>1, <1>2, ConcatProperties
<1>4. \A i \in DOMAIN e : i \in DOMAIN g /\ g[i] = e[i]
  BY <1>1, <1>2, <1>3, ConcatProperties
<1>5. \A i \in DOMAIN f : Len(e) + i \in DOMAIN g /\ g[Len(e) + i] = f[i]
  BY <1>1, <1>2, <1>3, ConcatProperties
<1>6. \A i \in DOMAIN g : \/ i \in DOMAIN e /\ g[i] = e[i]
                          \/ i - Len(e) \in DOMAIN f /\ g[i] = f[i - Len(e)]
  BY <1>1, <1>2, <1>3, ConcatProperties
<1>7. \A i \in DOMAIN g : g[i].field \in v \cup w /\ g[i].code \in InvalidCodes
  BY <1>6 DEF NamesOnce
<1>8. \A x \in v \cup w : \E i \in DOMAIN g : g[i].field = x
  BY <1>4, <1>5 DEF NamesOnce
<1>9. ASSUME NEW i \in DOMAIN g, NEW j \in DOMAIN g, i # j PROVE g[i].field # g[j].field
  <2>1. i \in Int /\ j \in Int
    BY <1>3
  <2>2. CASE i \in DOMAIN e /\ g[i] = e[i] /\ j \in DOMAIN e /\ g[j] = e[j]
    BY <1>9, <2>2 DEF NamesOnce
  <2>3. CASE /\ i - Len(e) \in DOMAIN f /\ g[i] = f[i - Len(e)]
             /\ j - Len(e) \in DOMAIN f /\ g[j] = f[j - Len(e)]
    <3>1. i - Len(e) # j - Len(e)
      BY <1>3, <1>9, <2>1
    <3> QED
      BY <2>3, <3>1 DEF NamesOnce
  <2>4. CASE i \in DOMAIN e /\ g[i] = e[i] /\ j - Len(e) \in DOMAIN f /\ g[j] = f[j - Len(e)]
    BY <2>4 DEF NamesOnce
  <2>5. CASE j \in DOMAIN e /\ g[j] = e[j] /\ i - Len(e) \in DOMAIN f /\ g[i] = f[i - Len(e)]
    BY <2>5 DEF NamesOnce
  <2> QED
    BY <1>6, <2>2, <2>3, <2>4, <2>5
<1> QED
  BY <1>2, <1>3, <1>7, <1>8, <1>9 DEF NamesOnce

\* The path of a field of the body.
LEMMA AppendToOne ==
    ASSUME NEW k
    PROVE  Append(<<>>, k) = <<k>>
<1>1. PICK S : S = {k}
  OBVIOUS
<1>2. k \in S
  BY <1>1
<1>3. <<>> \in Seq(S) /\ Len(<<>>) = 0 /\ <<k>> \in Seq(S) /\ Len(<<k>>) = 1 /\ <<k>>[1] = k
  BY <1>2, EmptySeq
<1>4. PICK s : s = <<>>
  OBVIOUS
<1>5. Append(s, k) \in Seq(S) /\ Len(Append(s, k)) = 1 /\ Append(s, k)[1] = k
  BY <1>2, <1>3, <1>4, AppendProperties
<1> QED
  BY <1>3, <1>4, <1>5, SeqEqual

\* The path of a field of an embedded address.
LEMMA AppendToTwo ==
    ASSUME NEW a, NEW n, NEW k
    PROVE  Append(<<a, n>>, k) = <<a, n, k>>
<1>1. PICK S : S = {a, n, k}
  OBVIOUS
<1>2. a \in S /\ n \in S /\ k \in S
  BY <1>1
<1>3. <<a, n>> \in Seq(S) /\ <<a, n, k>> \in Seq(S) /\ Len(<<a, n>>) = 2 /\ Len(<<a, n, k>>) = 3
  BY <1>2
<1>4. PICK s : s = <<a, n>>
  OBVIOUS
<1>5. /\ Append(s, k) \in Seq(S) /\ Len(Append(s, k)) = 3 /\ Append(s, k)[1] = a
      /\ Append(s, k)[2] = n /\ Append(s, k)[3] = k
  BY <1>2, <1>3, <1>4, AppendProperties
<1>6. \A i \in 1..3 : Append(s, k)[i] = <<a, n, k>>[i]
  BY <1>5
<1> QED
  BY <1>3, <1>4, <1>5, <1>6, SeqEqual

\* A field passes the parser and its value object exactly when the functional
\* specification accepts its value.
LEMMA SoundIsAcceptable ==
    ASSUME NEW field, NEW v, IsValue(v)
    PROVE  Shaped(field, v) /\ Content(field, v) <=> Acceptable(field, v)
<1>1. CASE field = "age"
  BY <1>1 DEF IsValue, Shaped, Content, Acceptable, ValidAge, MinAge, MaxAge
<1>2. CASE field # "age"
  <2>1. ASSUME v.kind = "text" PROVE Content(field, v) <=> Acceptable(field, v)
    <3>1. v \in Texts
      BY <2>1 DEF IsValue
    <3>2. Normal(field, v).word = v.word
      BY <3>1 DEF Texts, Normal, Strip, Lower
    <3> QED
      BY <1>2, <2>1, <3>2 DEF Content, Acceptable, ValidText
  <2> QED
    BY <1>2, <2>1 DEF Shaped, Acceptable
<1> QED
  BY <1>1, <1>2
\* The code of a field is a VAL code.
LEMMA CodeOfField ==
    ASSUME NEW k
    PROVE  CodeOf(k) \in InvalidCodes
<1>1. k = "name" \/ k = "identification" \/ k = "age" \/ k = "email"
        \/ (k # "name" /\ k # "identification" /\ k # "age" /\ k # "email")
  OBVIOUS
<1> QED
  BY <1>1 DEF CodeOf, InvalidCodes

\* prefix is the path of the object that the fields are in.
LEMMA FieldErrorsNameFields ==
    ASSUME NEW T, NEW fields \in Seq(T), IsInjective(fields), NEW object, IsObject(object, fields),
           NEW prefix, \A k \in ToSet(fields) : Append(prefix, k) \in Paths,
           \A k, l \in ToSet(fields) : Append(prefix, k) = Append(prefix, l) => k = l
    PROVE  NamesOnce(FieldErrors(fields, object, prefix), WrongFields(fields, object, prefix))
<1>1. PICK bad : bad = {k \in ToSet(fields) : ~(Shaped(k, object[k]) /\ Content(k, object[k]))}
  OBVIOUS
<1>2. bad = {k \in ToSet(fields) : ~Acceptable(k, object[k])}
  BY <1>1, SoundIsAcceptable DEF IsObject
<1>3. PICK b : b = Keep(fields, bad)
  OBVIOUS
<1>4. /\ b \in Seq(T)
      /\ \A i \in DOMAIN b : b[i] \in bad \cap ToSet(fields)
      /\ \A m \in DOMAIN fields : fields[m] \in bad => \E i \in DOMAIN b : b[i] = fields[m]
      /\ \A i, j \in DOMAIN b : i < j =>
            \E m, n \in DOMAIN fields : m < n /\ b[i] = fields[m] /\ b[j] = fields[n]
  BY <1>3, KeepInOrder
<1>5. Len(b) \in Nat /\ DOMAIN b = 1..Len(b)
  BY <1>4
<1>6. DOMAIN fields \subseteq Int
  OBVIOUS
<1>7. \A i, j \in DOMAIN b : i < j => b[i] # b[j]
  BY <1>4, <1>6 DEF IsInjective
<1>8. \A i, j \in DOMAIN b : i # j => b[i] # b[j]
  BY <1>5, <1>7
<1>9. PICK e : e = [i \in DOMAIN b |-> Error(CodeOf(b[i]), Append(prefix, b[i]))]
  OBVIOUS
<1>10. e = FieldErrors(fields, object, prefix)
  BY <1>1, <1>3, <1>9 DEF FieldErrors, BadFields
<1>11. \A i \in DOMAIN b : Error(CodeOf(b[i]), Append(prefix, b[i])) \in Errors
  <2>1. ASSUME NEW i \in DOMAIN b PROVE Error(CodeOf(b[i]), Append(prefix, b[i])) \in Errors
    <3>1. CodeOf(b[i]) \in Codes
      BY CodeOfField DEF InvalidCodes, Codes
    <3>2. Append(prefix, b[i]) \in Paths
      BY <1>4
    <3> QED
      BY <3>1, <3>2 DEF Error, Errors
  <2> QED
    BY <2>1
<1>12. e \in Seq(Errors)
  BY <1>5, <1>9, <1>11
<1>13. \A i \in DOMAIN e : /\ i \in DOMAIN b /\ e[i].code = CodeOf(b[i])
                          /\ e[i].field = Append(prefix, b[i])
  BY <1>9 DEF Error
<1>14. \A i \in DOMAIN e : e[i].field \in WrongFields(fields, object, prefix)
  BY <1>2, <1>4, <1>13 DEF WrongFields
<1>15. \A i \in DOMAIN e : e[i].code \in InvalidCodes
  BY <1>13, CodeOfField
<1>16. \A w \in WrongFields(fields, object, prefix) : \E i \in DOMAIN e : e[i].field = w
  <2>1. ASSUME NEW k \in bad PROVE \E i \in DOMAIN b : b[i] = k
    BY <1>1, <1>4 DEF ToSet
  <2>2. \A k \in bad : \E i \in DOMAIN e : e[i].field = Append(prefix, k)
    BY <1>9, <1>13, <2>1
  <2> QED
    BY <1>2, <2>2 DEF WrongFields
<1>17. \A i, j \in DOMAIN e : i # j => e[i].field # e[j].field
  BY <1>4, <1>8, <1>13
<1> QED
  BY <1>10, <1>12, <1>14, <1>15, <1>16, <1>17 DEF NamesOnce

-----------------------------------------------------------------------------
(* Bodies.                                                                 *)

\* The four fields of a customer are different.
LEMMA CustomerFieldsFacts ==
    /\ CustomerFields \in Seq(ToSet(CustomerFields)) /\ IsInjective(CustomerFields)
    /\ ToSet(CustomerFields) = {"name", "identification", "age", "email"}
<1>1. DOMAIN CustomerFields = {1, 2, 3, 4}
  BY DEF CustomerFields
<1>2. ToSet(CustomerFields) = {"name", "identification", "age", "email"}
  BY <1>1 DEF CustomerFields, ToSet
<1>3. IsInjective(CustomerFields)
  BY <1>1 DEF CustomerFields, IsInjective
<1>4. PICK S : S = {"name", "identification", "age", "email"}
  OBVIOUS
<1>5. CustomerFields \in Seq(S)
  BY <1>4 DEF CustomerFields
<1> QED
  BY <1>2, <1>3, <1>4, <1>5

\* The errors of a body's own fields name the wrong ones, by their names.
LEMMA CustomerErrorsNameFields ==
    ASSUME NEW body, IsObject(body, CustomerFields)
    PROVE  /\ NamesOnce(FieldErrors(CustomerFields, body, <<>>), WrongFields(CustomerFields, body, <<>>))
           /\ \A w \in WrongFields(CustomerFields, body, <<>>) :
                 \E k \in {"name", "identification", "age", "email"} : w = <<k>>
<1>1. \A k \in ToSet(CustomerFields) : Append(<<>>, k) = <<k>> /\ <<k>> \in Paths
  <2>1. ASSUME NEW k \in ToSet(CustomerFields) PROVE Append(<<>>, k) = <<k>> /\ <<k>> \in Paths
    <3>1. k \in FieldNames
      BY DEF FieldNames
    <3>2. <<k>> \in Seq(FieldNames)
      BY <3>1
    <3> QED
      BY <3>2, AppendToOne DEF Paths
  <2> QED
    BY <2>1
<1>2. \A k, l \in ToSet(CustomerFields) : Append(<<>>, k) = Append(<<>>, l) => k = l
  BY <1>1
<1>3. NamesOnce(FieldErrors(CustomerFields, body, <<>>), WrongFields(CustomerFields, body, <<>>))
  BY <1>1, <1>2, CustomerFieldsFacts, FieldErrorsNameFields
<1> QED
  BY <1>1, <1>3, CustomerFieldsFacts DEF WrongFields

\* The same for the fields of an address, in a body or at position n of a list.
LEMMA AddressErrorsNameFields ==
    ASSUME NEW object, IsObject(object, AddressFields)
    PROVE  /\ NamesOnce(FieldErrors(AddressFields, object, <<>>), WrongFields(AddressFields, object, <<>>))
           /\ \A n \in Nat :
                 /\ NamesOnce(FieldErrors(AddressFields, object, <<"addresses", n>>),
                              WrongFields(AddressFields, object, <<"addresses", n>>))
                 /\ \A w \in WrongFields(AddressFields, object, <<"addresses", n>>) :
                       \E k : w = <<"addresses", n, k>>
<1>1. \A k \in ToSet(AddressFields) : k \in FieldNames /\ <<k>> \in Seq(FieldNames)
  BY DEF FieldNames
<1>2. \A k \in ToSet(AddressFields) : Append(<<>>, k) = <<k>> /\ <<k>> \in Paths
  BY <1>1, AppendToOne DEF Paths
<1>3. \A k, l \in ToSet(AddressFields) : Append(<<>>, k) = Append(<<>>, l) => k = l
  BY <1>2
<1>4. NamesOnce(FieldErrors(AddressFields, object, <<>>), WrongFields(AddressFields, object, <<>>))
  BY <1>2, <1>3, AddressFieldsAssumption, FieldErrorsNameFields
<1>5. ASSUME NEW n \in Nat
      PROVE  /\ NamesOnce(FieldErrors(AddressFields, object, <<"addresses", n>>),
                          WrongFields(AddressFields, object, <<"addresses", n>>))
             /\ \A w \in WrongFields(AddressFields, object, <<"addresses", n>>) :
                   \E k : w = <<"addresses", n, k>>
  <2>1. PICK prefix : prefix = <<"addresses", n>>
    OBVIOUS
  <2>2. \A k : Append(prefix, k) = <<"addresses", n, k>>
    BY <2>1, AppendToTwo
  <2>3. \A k \in ToSet(AddressFields) : Append(prefix, k) \in Paths
    BY <1>1, <2>2 DEF Paths
  <2>4. \A k, l \in ToSet(AddressFields) : Append(prefix, k) = Append(prefix, l) => k = l
    BY <2>2
  <2>5. NamesOnce(FieldErrors(AddressFields, object, prefix), WrongFields(AddressFields, object, prefix))
    BY <2>3, <2>4, AddressFieldsAssumption, FieldErrorsNameFields
  <2>6. \A w \in WrongFields(AddressFields, object, prefix) : \E k : w = <<"addresses", n, k>>
    BY <2>2 DEF WrongFields
  <2> QED
    BY <2>1, <2>5, <2>6
<1> QED
  BY <1>4, <1>5

\* What is wrong with one embedded address is named once, with its position.
LEMMA ItemErrorsNameFields ==
    ASSUME NEW v, IsList(v), NEW i \in DOMAIN v.items
    PROVE  /\ NamesOnce(ItemErrors(v.items, i), WrongItem(v.items, i))
           /\ \A w \in WrongItem(v.items, i) :
                 w = <<"addresses", i - 1>> \/ \E k : w = <<"addresses", i - 1, k>>
<1>1. i - 1 \in Nat
  BY DEF IsList
<1>2. CASE v.items[i].kind = "object"
  <2>1. IsObject(v.items[i], AddressFields)
    BY <1>2 DEF IsList
  <2> QED
    BY <1>1, <1>2, <2>1, AddressErrorsNameFields DEF ItemErrors, WrongItem
<1>3. CASE v.items[i].kind # "object"
  <2>1. <<"addresses", i - 1>> \in Paths /\ "VAL-009" \in InvalidCodes
    BY <1>1 DEF Paths, InvalidCodes
  <2>2. NamesOnce(<<Error("VAL-009", <<"addresses", i - 1>>)>>, {<<"addresses", i - 1>>})
    BY <2>1, OneNamed
  <2> QED
    BY <1>3, <2>2 DEF ItemErrors, WrongItem
<1> QED
  BY <1>2, <1>3

\* What is wrong with the embedded addresses is named once.
LEMMA EmbeddedErrorsNameItems ==
    ASSUME NEW v, v.kind = "list" => IsList(v)
    PROVE  /\ NamesOnce(EmbeddedErrors(v), WrongItems(v))
           /\ \A w \in WrongItems(v) :
                 \/ w = <<"addresses">>
                 \/ \E n : w = <<"addresses", n>>
                 \/ \E n, k : w = <<"addresses", n, k>>
<1>1. CASE v.kind \in {"absent", "null"}
  BY <1>1, NoneNamed DEF EmbeddedErrors, WrongItems
<1>2. CASE v.kind \notin {"absent", "null", "list"}
  <2>1. <<"addresses">> \in Paths /\ "VAL-009" \in InvalidCodes
    <3>1. "addresses" \in FieldNames
      BY DEF FieldNames
    <3>2. <<"addresses">> \in Seq(FieldNames)
      BY <3>1
    <3> QED
      BY <3>2 DEF Paths, InvalidCodes
  <2>2. NamesOnce(<<Error("VAL-009", <<"addresses">>)>>, {<<"addresses">>})
    BY <2>1, OneNamed
  <2> QED
    BY <1>2, <2>2 DEF EmbeddedErrors, WrongItems
<1>3. CASE v.kind = "list"
  <2>1. PICK items : items = v.items
    OBVIOUS
  <2>2. Len(items) \in Nat /\ DOMAIN items = 1..Len(items)
    BY <1>3, <2>1 DEF IsList
  <2>3. PICK s : s = [i \in DOMAIN items |-> ItemErrors(items, i)]
    OBVIOUS
  <2>4. \A i \in DOMAIN items :
           /\ NamesOnce(s[i], WrongItem(items, i))
           /\ \A w \in WrongItem(items, i) :
                 w = <<"addresses", i - 1>> \/ \E k : w = <<"addresses", i - 1, k>>
    BY <1>3, <2>1, <2>3, ItemErrorsNameFields
  <2>5. \A i \in DOMAIN items : s[i] \in Seq(Errors)
    BY <2>4 DEF NamesOnce
  <2>6. s \in Seq(Seq(Errors)) /\ Len(s) = Len(items)
    BY <2>2, <2>3, <2>5
  <2>7. PICK e : e = FlattenSeq(s)
    OBVIOUS
  <2>8. e \in Seq(Errors) /\ InOrder(e, s, Len(items))
    BY <2>6, <2>7, FlattenSeqInOrder
  <2>9. e = EmbeddedErrors(v)
    BY <1>3, <2>1, <2>3, <2>7 DEF EmbeddedErrors
  <2>10. WrongItems(v) = UNION {WrongItem(items, i) : i \in DOMAIN items}
    BY <1>3, <2>1 DEF WrongItems
  <2>11. \A i \in DOMAIN e : e[i].field \in WrongItems(v) /\ e[i].code \in InvalidCodes
    <3>1. ASSUME NEW i \in DOMAIN e
          PROVE  e[i].field \in WrongItems(v) /\ e[i].code \in InvalidCodes
      <4>1. PICK a \in 1..Len(items) : \E p \in DOMAIN s[a] : e[i] = s[a][p]
        BY <2>8 DEF InOrder
      <4>2. e[i].field \in WrongItem(items, a) /\ e[i].code \in InvalidCodes
        BY <2>2, <2>4, <4>1 DEF NamesOnce
      <4> QED
        BY <2>2, <2>10, <4>2
    <3> QED
      BY <3>1
  <2>12. \A w \in WrongItems(v) : \E i \in DOMAIN e : e[i].field = w
    <3>1. ASSUME NEW a \in DOMAIN items, NEW w \in WrongItem(items, a)
          PROVE  \E i \in DOMAIN e : e[i].field = w
      <4>1. PICK p \in DOMAIN s[a] : s[a][p].field = w
        BY <2>4 DEF NamesOnce
      <4>2. \E i \in DOMAIN e : e[i] = s[a][p]
        BY <2>2, <2>8 DEF InOrder
      <4> QED
        BY <4>1, <4>2
    <3> QED
      BY <2>10, <3>1
  <2>13. ASSUME NEW i \in DOMAIN e, NEW j \in DOMAIN e, i < j PROVE e[i].field # e[j].field
    <3>1. PICK a \in 1..Len(items), b \in 1..Len(items) : \E p \in DOMAIN s[a], q \in DOMAIN s[b] :
              /\ e[i] = s[a][p] /\ e[j] = s[b][q]
              /\ a < b \/ (a = b /\ p < q)
      BY <2>8, <2>13 DEF InOrder
    <3>2. PICK p \in DOMAIN s[a], q \in DOMAIN s[b] :
              /\ e[i] = s[a][p] /\ e[j] = s[b][q]
              /\ a < b \/ (a = b /\ p < q)
      BY <3>1
    <3>3. p \in Int /\ q \in Int /\ a \in Int /\ b \in Int
      BY <2>2, <2>5
    <3>4. CASE a = b
      <4>1. p # q
        BY <3>2, <3>3, <3>4
      <4> QED
        BY <2>2, <2>4, <3>2, <3>4, <4>1 DEF NamesOnce
    <3>5. CASE a < b
      <4>1. e[i].field \in WrongItem(items, a) /\ e[j].field \in WrongItem(items, b)
        BY <2>2, <2>4, <3>2 DEF NamesOnce
      <4>2. \/ e[i].field = <<"addresses", a - 1>>
            \/ \E k : e[i].field = <<"addresses", a - 1, k>>
        BY <2>2, <2>4, <4>1
      <4>3. \/ e[j].field = <<"addresses", b - 1>>
            \/ \E k : e[j].field = <<"addresses", b - 1, k>>
        BY <2>2, <2>4, <4>1
      <4>4. a - 1 # b - 1
        BY <3>3, <3>5
      <4>5. e[i].field[2] = a - 1 /\ e[j].field[2] = b - 1
        BY <4>2, <4>3
      <4> QED
        BY <4>4, <4>5
    <3> QED
      BY <3>2, <3>4, <3>5
  <2>14. \A i, j \in DOMAIN e : i # j => e[i].field # e[j].field
    <3>1. DOMAIN e \subseteq Int
      BY <2>8
    <3> QED
      BY <2>13, <3>1
  <2>15. NamesOnce(EmbeddedErrors(v), WrongItems(v))
    BY <2>8, <2>9, <2>11, <2>12, <2>14 DEF NamesOnce
  <2>16. \A w \in WrongItems(v) : \/ \E n : w = <<"addresses", n>>
                                 \/ \E n, k : w = <<"addresses", n, k>>
    BY <2>4, <2>10
  <2> QED
    BY <2>15, <2>16
<1> QED
  BY <1>1, <1>2, <1>3
=============================================================================
