------------------------ MODULE BoardContentProofs ------------------------
(***************************************************************************)
(* Every operation of BoardContent makes a board of a board: lists of      *)
(* columns and teams stay without repetitions and never become empty. The  *)
(* lists come first, among them what Only, a recursive function, computes. *)
(***************************************************************************)
EXTENDS BoardContent, SequenceTheorems, WellFoundedInduction, TLAPS

(* The pairs of naturals in order.                                         *)
Below == {p \in Nat \X Nat : p[1] < p[2]}

(* A set of naturals that is not empty has a least one.                    *)
LEMMA LeastNat ==
    ASSUME NEW S, S \subseteq Nat, S # {}
    PROVE  \E n \in S : \A m \in S : n <= m
<1>1. OpToRel(<, Nat) = Below
  BY DEF OpToRel, Below
<1>2. PICK n \in S : \A m \in S : ~(<<m, n>> \in Below)
  BY <1>1, NatLessThanWellFounded, WFMin
<1>3. n \in Nat /\ \A m \in S : m \in Nat /\ ~(m < n)
  BY <1>2 DEF Below
<1>4. \A m \in S : n <= m
  BY <1>3
<1> QED
  BY <1>4

(* One step of the filter, given the values before it.                     *)
Kept(seq, kept, n, g) ==
    IF n = 0 THEN <<>> ELSE IF seq[n] \in kept THEN Append(g[n - 1], seq[n]) ELSE g[n - 1]

(* A table of the filter's values on the prefixes of seq.                  *)
Builds(seq, kept, m, g) == g = [n \in 0 .. m |-> Kept(seq, kept, n, g)]

(* Only(seq, kept) is computed by a table of its values on the prefixes of *)
(* seq; such a table exists for every length. Otherwise there would be a   *)
(* least length without one, and the table for one entry less could be     *)
(* continued.                                                              *)
LEMMA OnlyIsBuilt ==
    ASSUME NEW seq, NEW kept, NEW m \in Nat
    PROVE  \E g : Builds(seq, kept, m, g)
<1> DEFINE S == {k \in Nat : ~ \E g : Builds(seq, kept, k, g)}
<1>1. ASSUME S # {} PROVE FALSE
  <2>1. PICK k \in S : \A j \in S : k <= j
    BY <1>1, LeastNat
  <2>2. CASE k = 0
    <3>1. Builds(seq, kept, 0, [n \in 0 .. 0 |-> <<>>])
      BY DEF Builds, Kept
    <3> QED
      BY <2>1, <2>2, <3>1
  <2>3. CASE k # 0
    <3>1. k - 1 \in Nat /\ k - 1 \notin S
      BY <2>1, <2>3
    <3>2. PICK g : Builds(seq, kept, k - 1, g)
      BY <3>1
    <3> DEFINE h == [n \in 0 .. k |-> IF n = k THEN Kept(seq, kept, k, g) ELSE g[n]]
    <3>3. \A n \in 0 .. k - 1 : h[n] = g[n]
      BY <2>1
    <3>4. \A n \in 0 .. k : Kept(seq, kept, n, h) = h[n]
      <4> SUFFICES ASSUME NEW n \in 0 .. k PROVE Kept(seq, kept, n, h) = h[n]
        OBVIOUS
      <4>1. n # 0 => h[n - 1] = g[n - 1]
        BY <3>3, <2>1
      <4>2. Kept(seq, kept, n, h) = Kept(seq, kept, n, g)
        BY <4>1 DEF Kept
      <4>3. n # k => g[n] = Kept(seq, kept, n, g)
        <5>1. n # k => n \in 0 .. k - 1
          BY <2>1
        <5> QED
          BY <5>1, <3>2 DEF Builds
      <4> QED
        BY <4>2, <4>3
    <3>5. Builds(seq, kept, k, h)
      <4> HIDE DEF h
      <4>1. h = [n \in 0 .. k |-> h[n]]
        BY DEF h
      <4> QED
        BY <4>1, <3>4 DEF Builds
    <3> QED
      BY <3>5, <2>1
  <2> QED
    BY <2>2, <2>3
<1> QED
  BY <1>1

(* So Only keeps or drops one entry after the other.                       *)
LEMMA OnlyStepByStep ==
    ASSUME NEW seq, NEW kept, Len(seq) \in Nat
    PROVE  \E g : /\ Only(seq, kept) = g[Len(seq)]
                  /\ g[0] = <<>>
                  /\ \A n \in 1 .. Len(seq) :
                        g[n] = IF seq[n] \in kept THEN Append(g[n - 1], seq[n]) ELSE g[n - 1]
<1> DEFINE g == CHOOSE f : Builds(seq, kept, Len(seq), f)
<1>1. Builds(seq, kept, Len(seq), g)
  BY OnlyIsBuilt
<1>2. Only(seq, kept) = g[Len(seq)]
  BY DEF Only, Builds, Kept
<1> HIDE DEF g
<1>3. \A n \in 0 .. Len(seq) : g[n] = Kept(seq, kept, n, g)
  BY <1>1 DEF Builds
<1> QED
  BY <1>2, <1>3 DEF Kept

---------------------------------------------------------------------------
(* Lists without repetitions.                                              *)

(* Induction from 0 up to a last number, for membership in a set.          *)
LEMMA Upwards ==
    ASSUME NEW last \in Nat, NEW S, 0 \in S,
           \A n \in 1 .. last : n - 1 \in S => n \in S
    PROVE  \A n \in 0 .. last : n \in S
<1> DEFINE missed == {n \in 0 .. last : n \notin S}
<1>1. ASSUME missed # {} PROVE FALSE
  <2>1. missed \subseteq Nat
    OBVIOUS
  <2>2. PICK k \in missed : \A m \in missed : k <= m
    BY <1>1, <2>1, LeastNat
  <2>3. k \in 1 .. last /\ k - 1 \in 0 .. last
    BY <2>2
  <2>4. k - 1 \notin missed
    BY <2>2, <2>3
  <2> QED
    BY <2>2, <2>3, <2>4
<1> QED
  BY <1>1

(* What ToSet says of a sequence.                                          *)
LEMMA InToSet ==
    ASSUME NEW S, NEW seq \in Seq(S)
    PROVE  /\ \A x : x \in ToSet(seq) <=> \E i \in 1 .. Len(seq) : seq[i] = x
           /\ ToSet(seq) \subseteq S
           /\ Len(seq) \in Nat /\ DOMAIN seq = 1 .. Len(seq)
           /\ \A i \in 1 .. Len(seq) : seq[i] \in S /\ seq[i] \in ToSet(seq)
BY DEF ToSet

(* A sequence is injective when no two positions have the same entry.      *)
LEMMA InjectiveSeq ==
    ASSUME NEW S, NEW seq \in Seq(S)
    PROVE  IsInjective(seq) <=> \A i, j \in 1 .. Len(seq) : seq[i] = seq[j] => i = j
BY DEF IsInjective

(* Appending an entry that is not there keeps a list without repetitions.  *)
LEMMA AppendFacts ==
    ASSUME NEW S, NEW seq \in Seq(S), IsInjective(seq), NEW x \in S, x \notin ToSet(seq)
    PROVE  /\ Append(seq, x) \in Seq(S) /\ IsInjective(Append(seq, x))
           /\ ToSet(Append(seq, x)) = ToSet(seq) \cup {x}
           /\ Append(seq, x) # <<>>
<1> DEFINE app == Append(seq, x)
<1>1. /\ app \in Seq(S) /\ Len(app) = Len(seq) + 1
      /\ \A i \in 1 .. Len(seq) : app[i] = seq[i]
      /\ app[Len(seq) + 1] = x
      /\ app # <<>>
  BY AppendProperties
<1> HIDE DEF app
<1>2. Len(seq) \in Nat
  BY InToSet
<1>3. \A i \in 1 .. Len(app) : i \in 1 .. Len(seq) \/ i = Len(seq) + 1
  BY <1>1, <1>2
<1>4. IsInjective(app)
  <2> SUFFICES ASSUME NEW i \in 1 .. Len(app), NEW j \in 1 .. Len(app), app[i] = app[j]
               PROVE  i = j
    BY <1>1, InjectiveSeq
  <2>1. CASE i \in 1 .. Len(seq) /\ j \in 1 .. Len(seq)
    BY <2>1, <1>1, InjectiveSeq
  <2>2. CASE ~(i \in 1 .. Len(seq) /\ j \in 1 .. Len(seq))
    BY <2>2, <1>1, <1>3, InToSet
  <2> QED
    BY <2>1, <2>2
<1>5. ToSet(app) = ToSet(seq) \cup {x}
  <2>1. \A y : y \in ToSet(app) <=> \E i \in 1 .. Len(app) : app[i] = y
    BY <1>1, InToSet
  <2>2. \A y : y \in ToSet(seq) <=> \E i \in 1 .. Len(seq) : seq[i] = y
    BY InToSet
  <2>3. \A i \in 1 .. Len(seq) : i \in 1 .. Len(app)
    BY <1>1, <1>2
  <2>4. Len(seq) + 1 \in 1 .. Len(app)
    BY <1>1, <1>2
  <2>5. ASSUME NEW y \in ToSet(app) PROVE y \in ToSet(seq) \cup {x}
    BY <1>1, <1>3, <2>1, <2>2, <2>5
  <2>6. ASSUME NEW y \in ToSet(seq) \cup {x} PROVE y \in ToSet(app)
    BY <1>1, <2>1, <2>2, <2>3, <2>4, <2>6
  <2> QED
    BY <2>5, <2>6
<1> QED
  BY <1>1, <1>4, <1>5 DEF app

(* The empty list has no repetition and no entry.                          *)
LEMMA EmptyFacts ==
    ASSUME NEW S
    PROVE  /\ <<>> \in Seq(S) /\ Len(<<>>) = 0
           /\ IsInjective(<<>>) /\ ToSet(<<>>) = {}
<1>1. <<>> \in Seq(S) /\ Len(<<>>) = 0
  BY EmptySeq
<1>2. 1 .. Len(<<>>) = {}
  BY <1>1
<1>3. IsInjective(<<>>)
  BY <1>1, <1>2, InjectiveSeq
<1>4. \A x : x \notin ToSet(<<>>)
  BY <1>1, <1>2, InToSet
<1> QED
  BY <1>1, <1>3, <1>4

(* A filtered list has no repetition, and the entries that pass the filter *)
(* (filter in App.tsx), by induction along the list.                       *)
LEMMA OnlyFacts ==
    ASSUME NEW S, NEW seq \in Seq(S), IsInjective(seq), NEW kept
    PROVE  /\ Only(seq, kept) \in Seq(S)
           /\ IsInjective(Only(seq, kept))
           /\ ToSet(Only(seq, kept)) = ToSet(seq) \cap kept
<1>1. Len(seq) \in Nat
  BY InToSet
<1>2. PICK g : /\ Only(seq, kept) = g[Len(seq)]
               /\ g[0] = <<>>
               /\ \A n \in 1 .. Len(seq) :
                     g[n] = IF seq[n] \in kept THEN Append(g[n - 1], seq[n]) ELSE g[n - 1]
  BY <1>1, OnlyStepByStep
<1> DEFINE before(n) == {seq[i] : i \in 1 .. n}
           good == {n \in 0 .. Len(seq) : /\ g[n] \in Seq(S) /\ IsInjective(g[n])
                                          /\ ToSet(g[n]) = before(n) \cap kept}
<1>3. 0 \in good
  <2>1. before(0) = {}
    OBVIOUS
  <2>2. 0 \in 0 .. Len(seq)
    BY <1>1
  <2> HIDE DEF before
  <2> QED
    BY <1>2, <2>1, <2>2, EmptyFacts
<1>4. ASSUME NEW n \in 1 .. Len(seq), n - 1 \in good PROVE n \in good
  <2>1. /\ g[n - 1] \in Seq(S) /\ IsInjective(g[n - 1])
        /\ ToSet(g[n - 1]) = before(n - 1) \cap kept
    BY <1>4
  <2>2. before(n) = before(n - 1) \cup {seq[n]}
    <3>1. \A i \in 1 .. n : i \in 1 .. n - 1 \/ i = n
      BY <1>1
    <3>2. \A i \in 1 .. n - 1 : i \in 1 .. n
      BY <1>1
    <3>3. n \in 1 .. n
      BY <1>1
    <3> QED
      BY <3>1, <3>2, <3>3
  <2>3. seq[n] \notin before(n - 1)
    <3>1. \A i \in 1 .. n - 1 : i \in 1 .. Len(seq) /\ i # n
      BY <1>1
    <3> QED
      BY <3>1, InjectiveSeq
  <2>4. seq[n] \in S /\ n \in 0 .. Len(seq)
    BY <1>1, InToSet
  <2> HIDE DEF before
  <2>5. CASE seq[n] \in kept
    <3>1. g[n] = Append(g[n - 1], seq[n])
      BY <1>2, <2>5
    <3>2. seq[n] \notin ToSet(g[n - 1])
      BY <2>1, <2>3
    <3>3. /\ g[n] \in Seq(S) /\ IsInjective(g[n])
          /\ ToSet(g[n]) = ToSet(g[n - 1]) \cup {seq[n]}
      BY <2>1, <2>4, <3>1, <3>2, AppendFacts
    <3> QED
      BY <2>1, <2>2, <2>4, <2>5, <3>3
  <2>6. CASE seq[n] \notin kept
    <3>1. g[n] = g[n - 1]
      BY <1>2, <2>6
    <3> QED
      BY <2>1, <2>2, <2>4, <2>6, <3>1
  <2> QED
    BY <2>5, <2>6
<1> HIDE DEF good
<1>5. \A n \in 0 .. Len(seq) : n \in good
  <2>1. \A n \in 1 .. Len(seq) : n - 1 \in good => n \in good
    BY <1>4
  <2> QED
    BY <1>1, <1>3, <2>1, Upwards
<1>6. before(Len(seq)) = ToSet(seq)
  BY InToSet DEF ToSet
<1>7. Len(seq) \in good
  BY <1>1, <1>5
<1> HIDE DEF before
<1>8. /\ g[Len(seq)] \in Seq(S) /\ IsInjective(g[Len(seq)])
      /\ ToSet(g[Len(seq)]) = before(Len(seq)) \cap kept
  BY <1>7 DEF good
<1> QED
  BY <1>2, <1>6, <1>8

(* A filter that all entries but one pass drops at most one place.         *)
LEMMA OnlyAllButOne ==
    ASSUME NEW S, NEW seq \in Seq(S), IsInjective(seq), NEW kept, NEW x,
           ToSet(seq) \subseteq kept \cup {x}
    PROVE  Len(Only(seq, kept)) >= Len(seq) - 1
<1>1. Len(seq) \in Nat
  BY InToSet
<1>2. PICK g : /\ Only(seq, kept) = g[Len(seq)]
               /\ g[0] = <<>>
               /\ \A n \in 1 .. Len(seq) :
                     g[n] = IF seq[n] \in kept THEN Append(g[n - 1], seq[n]) ELSE g[n - 1]
  BY <1>1, OnlyStepByStep
<1> DEFINE good == {n \in 0 .. Len(seq) :
                        /\ g[n] \in Seq(S)
                        /\ Len(g[n]) >= n - 1
                        /\ (\A i \in 1 .. n : seq[i] # x) => Len(g[n]) = n}
<1>3. 0 \in good
  <2>1. <<>> \in Seq(S) /\ Len(<<>>) = 0
    BY EmptySeq
  <2>2. 0 \in 0 .. Len(seq) /\ Len(g[0]) = 0 /\ 0 >= 0 - 1
    BY <1>1, <1>2, <2>1
  <2> QED
    BY <1>2, <2>1, <2>2
<1>4. ASSUME NEW n \in 1 .. Len(seq), n - 1 \in good PROVE n \in good
  <2>1. /\ g[n - 1] \in Seq(S)
        /\ Len(g[n - 1]) \in Nat
        /\ Len(g[n - 1]) >= n - 2
        /\ (\A i \in 1 .. n - 1 : seq[i] # x) => Len(g[n - 1]) = n - 1
    BY <1>1, <1>4
  <2>2. seq[n] \in S /\ n \in 0 .. Len(seq) /\ seq[n] \in kept \cup {x}
    BY <1>1, InToSet
  <2>3. CASE seq[n] \in kept
    <3>1. g[n] = Append(g[n - 1], seq[n])
      BY <1>2, <2>3
    <3>2. g[n] \in Seq(S) /\ Len(g[n]) = Len(g[n - 1]) + 1
      BY <2>1, <2>2, <3>1, AppendProperties
    <3>3. \A i \in 1 .. n - 1 : i \in 1 .. n
      BY <1>1
    <3> HIDE DEF good
    <3>4. Len(g[n]) >= n - 1 /\ ((\A i \in 1 .. n : seq[i] # x) => Len(g[n]) = n)
      BY <1>1, <2>1, <3>2, <3>3
    <3> QED
      BY <2>2, <3>2, <3>4 DEF good
  <2>4. CASE seq[n] \notin kept
    <3>1. g[n] = g[n - 1] /\ seq[n] = x
      BY <1>2, <2>2, <2>4
    <3>2. \A i \in 1 .. n - 1 : i \in 1 .. Len(seq) /\ i # n
      BY <1>1
    <3>3. \A i \in 1 .. n - 1 : seq[i] # x
      BY <3>1, <3>2, InjectiveSeq
    <3>4. Len(g[n]) = n - 1 /\ n \in 1 .. n
      BY <1>1, <2>1, <3>1, <3>3
    <3> QED
      BY <1>1, <2>1, <2>2, <3>1, <3>4
  <2> QED
    BY <2>3, <2>4
<1> HIDE DEF good
<1>5. \A n \in 0 .. Len(seq) : n \in good
  <2>1. \A n \in 1 .. Len(seq) : n - 1 \in good => n \in good
    BY <1>4
  <2> QED
    BY <1>1, <1>3, <2>1, Upwards
<1> QED
  BY <1>1, <1>2, <1>5 DEF good

(* Two lists without a common entry, one after the other.                  *)
LEMMA JoinFacts ==
    ASSUME NEW S, NEW q \in Seq(S), NEW r \in Seq(S), IsInjective(q), IsInjective(r),
           ToSet(q) \cap ToSet(r) = {}
    PROVE  /\ q \o r \in Seq(S) /\ IsInjective(q \o r)
           /\ ToSet(q \o r) = ToSet(q) \cup ToSet(r)
<1> DEFINE j == q \o r
<1>1. /\ j \in Seq(S) /\ Len(j) = Len(q) + Len(r)
      /\ \A i \in 1 .. Len(j) : j[i] = IF i <= Len(q) THEN q[i] ELSE r[i - Len(q)]
  BY ConcatProperties
<1>2. Len(q) \in Nat /\ Len(r) \in Nat
  BY InToSet
<1> HIDE DEF j
<1>3. \A i \in 1 .. Len(j) : IF i <= Len(q) THEN i \in 1 .. Len(q)
                                            ELSE i - Len(q) \in 1 .. Len(r)
  BY <1>1, <1>2
<1>4. \A i \in 1 .. Len(j) : IF i <= Len(q) THEN j[i] \in ToSet(q) ELSE j[i] \in ToSet(r)
  BY <1>1, <1>3, InToSet
<1>5. IsInjective(j)
  <2> SUFFICES ASSUME NEW a \in 1 .. Len(j), NEW b \in 1 .. Len(j), j[a] = j[b]
               PROVE  a = b
    BY <1>1, InjectiveSeq
  <2>1. a <= Len(q) <=> b <= Len(q)
    BY <1>4
  <2>2. CASE a <= Len(q)
    <3>1. a \in 1 .. Len(q) /\ b \in 1 .. Len(q) /\ q[a] = q[b]
      BY <1>1, <1>3, <2>1, <2>2
    <3> QED
      BY <3>1, InjectiveSeq
  <2>3. CASE ~(a <= Len(q))
    <3>1. /\ a - Len(q) \in 1 .. Len(r) /\ b - Len(q) \in 1 .. Len(r)
          /\ r[a - Len(q)] = r[b - Len(q)]
      BY <1>1, <1>3, <2>1, <2>3
    <3>2. a - Len(q) = b - Len(q)
      BY <3>1, InjectiveSeq
    <3> QED
      BY <1>1, <1>2, <3>2
  <2> QED
    BY <2>2, <2>3
<1>6. ASSUME NEW x \in ToSet(j) PROVE x \in ToSet(q) \cup ToSet(r)
  <2>1. PICK i \in 1 .. Len(j) : j[i] = x
    BY <1>1, <1>6, InToSet
  <2> QED
    BY <1>4, <2>1
<1>7. ASSUME NEW x \in ToSet(q) \cup ToSet(r) PROVE x \in ToSet(j)
  <2>1. CASE x \in ToSet(q)
    <3>1. PICK i \in 1 .. Len(q) : q[i] = x
      BY <2>1, InToSet
    <3>2. i \in 1 .. Len(j) /\ j[i] = x
      BY <1>1, <1>2, <3>1
    <3> QED
      BY <1>1, <3>2, InToSet
  <2>2. CASE x \in ToSet(r)
    <3>1. PICK i \in 1 .. Len(r) : r[i] = x
      BY <2>2, InToSet
    <3>2. /\ i + Len(q) \in 1 .. Len(j) /\ ~(i + Len(q) <= Len(q))
          /\ i + Len(q) - Len(q) = i
      BY <1>1, <1>2, <3>1
    <3>3. j[i + Len(q)] = x
      BY <1>1, <3>1, <3>2
    <3> QED
      BY <1>1, <3>2, <3>3, InToSet
  <2> QED
    BY <1>7, <2>1, <2>2
<1> QED
  BY <1>1, <1>5, <1>6, <1>7 DEF j

(* A list cut in two: the parts have no common entry, and all of the       *)
(* whole.                                                                  *)
LEMMA SplitFacts ==
    ASSUME NEW S, NEW q \in Seq(S), IsInjective(q), NEW k \in 1 .. Len(q) + 1
    PROVE  LET a == SubSeq(q, 1, k - 1)
               b == SubSeq(q, k, Len(q))
           IN  /\ a \in Seq(S) /\ IsInjective(a)
               /\ b \in Seq(S) /\ IsInjective(b)
               /\ ToSet(a) \cap ToSet(b) = {}
               /\ ToSet(a) \cup ToSet(b) = ToSet(q)
<1> DEFINE a == SubSeq(q, 1, k - 1)
           b == SubSeq(q, k, Len(q))
<1>1. Len(q) \in Nat
  BY InToSet
<1>2. /\ a \in Seq(S) /\ Len(a) = k - 1
      /\ \A i \in 1 .. k - 1 : i \in 1 .. Len(q) /\ a[i] = q[i]
  <2>1. \A i \in 1 .. k - 1 : i \in 1 .. Len(q) /\ q[i] \in S
    BY <1>1
  <2> QED
    BY <1>1, <2>1, SubSeqProperties
<1>3. /\ b \in Seq(S) /\ Len(b) = Len(q) + 1 - k
      /\ \A i \in 1 .. Len(b) : i + k - 1 \in 1 .. Len(q) /\ b[i] = q[i + k - 1]
  <2>1. \A i \in k .. Len(q) : i \in 1 .. Len(q) /\ q[i] \in S
    BY <1>1
  <2>2. b \in Seq(S) /\ Len(b) = Len(q) + 1 - k
    BY <1>1, <2>1, SubSeqProperties
  <2>3. ASSUME NEW i \in 1 .. Len(b) PROVE i + k - 1 \in 1 .. Len(q) /\ b[i] = q[i + k - 1]
    <3>1. i \in 1 .. Len(q) - k + 1 /\ i + k - 1 = k + i - 1
      BY <1>1, <2>2
    <3> QED
      BY <1>1, <2>1, <2>2, <3>1, SubSeqProperties
  <2> QED
    BY <2>2, <2>3
<1> HIDE DEF a, b
<1>4. IsInjective(a)
  BY <1>2, InjectiveSeq
<1>5. IsInjective(b)
  <2> SUFFICES ASSUME NEW i \in 1 .. Len(b), NEW j \in 1 .. Len(b), b[i] = b[j]
               PROVE  i = j
    BY <1>3, InjectiveSeq
  <2>1. i + k - 1 = j + k - 1
    BY <1>3, InjectiveSeq
  <2> QED
    BY <1>1, <1>3, <2>1
<1>6. ASSUME NEW x \in ToSet(a), x \in ToSet(b) PROVE FALSE
  <2>1. PICK i \in 1 .. Len(a) : a[i] = x
    BY <1>2, InToSet
  <2>2. PICK j \in 1 .. Len(b) : b[j] = x
    BY <1>3, <1>6, InToSet
  <2>3. i = j + k - 1
    BY <1>2, <1>3, <2>1, <2>2, InjectiveSeq
  <2> QED
    BY <1>1, <1>2, <1>3, <2>3
<1>7. ASSUME NEW x \in ToSet(a) \cup ToSet(b) PROVE x \in ToSet(q)
  <2>1. CASE x \in ToSet(a)
    BY <1>2, <2>1, InToSet
  <2>2. CASE x \in ToSet(b)
    BY <1>3, <2>2, InToSet
  <2> QED
    BY <1>7, <2>1, <2>2
<1>8. ASSUME NEW x \in ToSet(q) PROVE x \in ToSet(a) \cup ToSet(b)
  <2>1. PICK i \in 1 .. Len(q) : q[i] = x
    BY <1>8, InToSet
  <2>2. CASE i < k
    <3>1. i \in 1 .. Len(a) /\ a[i] = x
      BY <1>1, <1>2, <2>1, <2>2
    <3> QED
      BY <1>2, <3>1, InToSet
  <2>3. CASE ~(i < k)
    <3>1. i + 1 - k \in 1 .. Len(b) /\ i + 1 - k + k - 1 = i
      BY <1>1, <1>3, <2>1, <2>3
    <3>2. b[i + 1 - k] = x
      BY <1>3, <2>1, <3>1
    <3> QED
      BY <1>3, <3>1, <3>2, InToSet
  <2> QED
    BY <2>2, <2>3
<1> QED
  BY <1>2, <1>3, <1>4, <1>5, <1>6, <1>7, <1>8 DEF a, b

(* A list put into another one, with which it has no entry in common.      *)
LEMMA SpliceFacts ==
    ASSUME NEW S, NEW q \in Seq(S), IsInjective(q), NEW k \in 1 .. Len(q) + 1,
           NEW r \in Seq(S), IsInjective(r), ToSet(q) \cap ToSet(r) = {}
    PROVE  LET s == SubSeq(q, 1, k - 1) \o r \o SubSeq(q, k, Len(q))
           IN  /\ s \in Seq(S) /\ IsInjective(s)
               /\ ToSet(s) = ToSet(q) \cup ToSet(r)
<1> DEFINE a == SubSeq(q, 1, k - 1)
           b == SubSeq(q, k, Len(q))
<1>1. /\ a \in Seq(S) /\ IsInjective(a)
      /\ b \in Seq(S) /\ IsInjective(b)
      /\ ToSet(a) \cap ToSet(b) = {}
      /\ ToSet(a) \cup ToSet(b) = ToSet(q)
  BY SplitFacts
<1> HIDE DEF a, b
<1> DEFINE ar == a \o r
<1>2. /\ ar \in Seq(S) /\ IsInjective(ar)
      /\ ToSet(ar) = ToSet(a) \cup ToSet(r)
  BY <1>1, JoinFacts
<1> HIDE DEF ar
<1>3. ToSet(ar) \cap ToSet(b) = {}
  BY <1>1, <1>2
<1>4. /\ ar \o b \in Seq(S) /\ IsInjective(ar \o b)
      /\ ToSet(ar \o b) = ToSet(ar) \cup ToSet(b)
  BY <1>1, <1>2, <1>3, JoinFacts
<1>5. ToSet(ar \o b) = ToSet(q) \cup ToSet(r)
  BY <1>1, <1>2, <1>4
<1> QED
  BY <1>4, <1>5 DEF a, b, ar

---------------------------------------------------------------------------
(* Lists of columns and teams.                                             *)

(* What a list of columns or teams is: it has a first and a last entry.    *)
LEMMA ListingFacts ==
    ASSUME NEW S, NEW q \in Listing(S)
    PROVE  /\ q \in Seq(S) /\ IsInjective(q)
           /\ Len(q) \in Nat /\ Len(q) >= 1
           /\ ToSet(q) \subseteq S
           /\ q[1] \in ToSet(q) /\ Last(q) \in ToSet(q)
<1>1. q \in Seq(S) /\ q # <<>> /\ IsInjective(q)
  BY DEF Listing
<1>2. Len(q) \in Nat \ {0}
  BY <1>1, EmptySeq
<1>3. 1 \in 1 .. Len(q) /\ Len(q) \in 1 .. Len(q)
  BY <1>2
<1> QED
  BY <1>1, <1>2, <1>3, InToSet DEF Last

(* A list without repetitions that has an entry is a listing.              *)
LEMMA IsListing ==
    ASSUME NEW S, NEW q \in Seq(S), IsInjective(q), ToSet(q) # {}
    PROVE  q \in Listing(S)
<1>1. q # <<>>
  BY EmptyFacts
<1> QED
  BY <1>1 DEF Listing

(* Taking one entry out of a list of more than one leaves a listing        *)
(* (deleteSection, removeTeam).                                            *)
LEMMA WithoutOneFacts ==
    ASSUME NEW S, NEW q \in Listing(S), NEW x, ~LastStays(q)
    PROVE  /\ Only(q, S \ {x}) \in Listing(S)
           /\ ToSet(Only(q, S \ {x})) = ToSet(q) \ {x}
<1>1. q \in Seq(S) /\ IsInjective(q) /\ ToSet(q) \subseteq S /\ Len(q) \in Nat /\ Len(q) > 1
  BY ListingFacts DEF LastStays
<1> DEFINE left == Only(q, S \ {x})
<1>2. left \in Seq(S) /\ IsInjective(left) /\ ToSet(left) = ToSet(q) \cap (S \ {x})
  BY <1>1, OnlyFacts
<1> HIDE DEF left
<1>3. ToSet(left) = ToSet(q) \ {x}
  BY <1>1, <1>2
<1>4. ToSet(left) # {}
  <2>1. 1 \in 1 .. Len(q) /\ 2 \in 1 .. Len(q)
    BY <1>1
  <2>2. q[1] # q[2]
    BY <1>1, <2>1, InjectiveSeq
  <2>3. q[1] \in ToSet(q) /\ q[2] \in ToSet(q)
    BY <1>1, <2>1, InToSet
  <2> QED
    BY <1>3, <2>2, <2>3
<1>5. left \in Listing(S)
  BY <1>2, <1>4, IsListing
<1> QED
  BY <1>3, <1>5 DEF left

(* An entry of a list has a position (findIndex).                          *)
LEMMA PositionFacts ==
    ASSUME NEW S, NEW q \in Seq(S), NEW x \in ToSet(q)
    PROVE  Position(q, x) \in 1 .. Len(q)
<1>1. \E n \in DOMAIN q : q[n] = x
  BY InToSet
<1>2. DOMAIN q = 1 .. Len(q)
  BY InToSet
<1> QED
  BY <1>1, <1>2 DEF Position

(* The list of one entry.                                                  *)
LEMMA OneEntry ==
    ASSUME NEW S, NEW x \in S
    PROVE  /\ <<x>> \in Seq(S) /\ IsInjective(<<x>>)
           /\ ToSet(<<x>>) = {x}
<1> DEFINE one == <<x>>
<1>1. one \in Seq(S) /\ Len(one) = 1 /\ one[1] = x /\ DOMAIN one = {1}
  OBVIOUS
<1> HIDE DEF one
<1>2. IsInjective(one)
  BY <1>1 DEF IsInjective
<1>3. ToSet(one) = {x}
  BY <1>1 DEF ToSet
<1> QED
  BY <1>1, <1>2, <1>3 DEF one

(* Moving a column before another neither loses nor repeats one            *)
(* (handleSectionDrop).                                                    *)
LEMMA MovedFacts ==
    ASSUME NEW S, NEW q \in Listing(S), NEW x \in ToSet(q), NEW y \in ToSet(q)
    PROVE  LET moved == InsertAt(Only(q, S \ {x}), Position(q, y), x)
           IN  moved \in Listing(S) /\ ToSet(moved) = ToSet(q)
<1> DEFINE left == Only(q, S \ {x})
           k == Position(q, y)
<1>1. q \in Seq(S) /\ IsInjective(q) /\ ToSet(q) \subseteq S /\ Len(q) \in Nat
  BY ListingFacts
<1>2. left \in Seq(S) /\ IsInjective(left) /\ ToSet(left) = ToSet(q) \cap (S \ {x})
  BY <1>1, OnlyFacts
<1>3. Len(left) >= Len(q) - 1
  <2>1. ToSet(q) \subseteq (S \ {x}) \cup {x}
    BY <1>1
  <2> QED
    BY <1>1, <2>1, OnlyAllButOne
<1>4. k \in 1 .. Len(q)
  BY <1>1, PositionFacts
<1> HIDE DEF left, k
<1>5. k \in 1 .. Len(left) + 1
  <2>1. Len(left) \in Nat
    BY <1>2, InToSet
  <2> QED
    BY <1>1, <1>3, <1>4, <2>1
<1>6. <<x>> \in Seq(S) /\ IsInjective(<<x>>) /\ ToSet(<<x>>) = {x}
  BY <1>1, OneEntry
<1>7. ToSet(left) \cap ToSet(<<x>>) = {}
  BY <1>2, <1>6
<1> DEFINE moved == SubSeq(left, 1, k - 1) \o <<x>> \o SubSeq(left, k, Len(left))
           one == <<x>>
<1>8. /\ moved \in Seq(S) /\ IsInjective(moved)
      /\ ToSet(moved) = ToSet(left) \cup ToSet(one)
  <2>1. one \in Seq(S) /\ IsInjective(one) /\ ToSet(left) \cap ToSet(one) = {}
    BY <1>6, <1>7
  <2>2. moved = SubSeq(left, 1, k - 1) \o one \o SubSeq(left, k, Len(left))
    OBVIOUS
  <2> HIDE DEF one, moved
  <2> QED
    BY <1>2, <1>5, <2>1, <2>2, SpliceFacts
<1> HIDE DEF moved
<1>9. ToSet(moved) = ToSet(q)
  BY <1>1, <1>2, <1>6, <1>8
<1>10. moved \in Listing(S)
  BY <1>8, <1>9, IsListing
<1> QED
  BY <1>9, <1>10 DEF left, k, moved, InsertAt

(* The missing columns of a workflow go before Done, or to the end: every  *)
(* column the board had is still there, once, with all of the workflow's   *)
(* (createWorkflowTask).                                                   *)
LEMMA WithFlowSectionsFacts ==
    ASSUME NEW q \in Listing(Section)
    PROVE  /\ WithFlowSections(q) \in Listing(Section)
           /\ ToSet(WithFlowSections(q)) = ToSet(q) \cup ToSet(FlowSections)
<1> DEFINE missing == Only(FlowSections, Section \ ToSet(q))
           k == Position(q, Done)
           before == SubSeq(q, 1, k - 1) \o missing \o SubSeq(q, k, Len(q))
<1>1. /\ q \in Seq(Section) /\ IsInjective(q) /\ ToSet(q) \subseteq Section
      /\ Len(q) \in Nat /\ ToSet(q) # {}
  BY ListingFacts
<1>2. FlowSections \in Seq(Section) /\ IsInjective(FlowSections) /\ ToSet(FlowSections) \subseteq Section
  BY BoardAssumption, ListingFacts
<1>3. /\ missing \in Seq(Section) /\ IsInjective(missing)
      /\ ToSet(missing) = ToSet(FlowSections) \cap (Section \ ToSet(q))
  BY <1>2, OnlyFacts
<1>4. WithFlowSections(q) = IF Done \notin ToSet(q) THEN q \o missing ELSE before
  BY DEF WithFlowSections
<1> HIDE DEF missing
<1>5. ToSet(q) \cap ToSet(missing) = {}
  BY <1>3
<1>6. ToSet(q) \cup ToSet(missing) = ToSet(q) \cup ToSet(FlowSections)
  BY <1>2, <1>3
<1>7. CASE Done \notin ToSet(q)
  <2> DEFINE all == q \o missing
  <2>1. all \in Seq(Section) /\ IsInjective(all) /\ ToSet(all) = ToSet(q) \cup ToSet(missing)
    BY <1>1, <1>3, <1>5, JoinFacts
  <2>2. WithFlowSections(q) = all
    BY <1>4, <1>7
  <2> HIDE DEF all
  <2> QED
    BY <1>1, <1>6, <2>1, <2>2, IsListing
<1>8. CASE Done \in ToSet(q)
  <2>1. k \in 1 .. Len(q)
    BY <1>1, <1>8, PositionFacts
  <2>2. k \in 1 .. Len(q) + 1
    BY <1>1, <2>1
  <2> HIDE DEF k
  <2>3. /\ before \in Seq(Section) /\ IsInjective(before)
        /\ ToSet(before) = ToSet(q) \cup ToSet(missing)
    BY <1>1, <1>3, <1>5, <2>2, SpliceFacts
  <2>4. WithFlowSections(q) = before
    BY <1>4, <1>8
  <2> HIDE DEF before
  <2> QED
    BY <1>1, <1>6, <2>3, <2>4, IsListing
<1> QED
  BY <1>7, <1>8

---------------------------------------------------------------------------
(* Boards, part by part.                                                   *)

(* The parts of a board.                                                   *)
LEMMA ContentParts ==
    ASSUME NEW b \in Content
    PROVE  /\ b.frame \in Frame
           /\ b.sections \in Listing(Section) /\ Sections(b) \subseteq Section
           /\ b.teams \in Listing(Team) /\ Teams(b) \subseteq Team
           /\ b.staff \in [Agent -> Team \cup {Nobody}]
           /\ b.cards \in [Card -> CardRecord]
           /\ b = [frame |-> b.frame, sections |-> b.sections, teams |-> b.teams,
                   staff |-> b.staff, cards |-> b.cards]
<1>1. /\ b.frame \in Frame /\ b.sections \in Listing(Section) /\ b.teams \in Listing(Team)
      /\ b.staff \in [Agent -> Team \cup {Nobody}] /\ b.cards \in [Card -> CardRecord]
      /\ b = [frame |-> b.frame, sections |-> b.sections, teams |-> b.teams,
              staff |-> b.staff, cards |-> b.cards]
  BY DEF Content
<1>2. Sections(b) \subseteq Section /\ Teams(b) \subseteq Team
  BY <1>1, ListingFacts DEF Sections, Teams
<1> QED
  BY <1>1, <1>2

(* Any other frame makes a board.                                          *)
LEMMA FrameChange ==
    ASSUME NEW b \in Content, NEW frame \in Frame
    PROVE  [b EXCEPT !.frame = frame] \in Content
BY DEF Content

(* Any other listing of columns makes a board.                             *)
LEMMA ColumnsChange ==
    ASSUME NEW b \in Content, NEW seq \in Listing(Section)
    PROVE  [b EXCEPT !.sections = seq] \in Content
BY DEF Content

(* Any other listing of teams makes a board.                               *)
LEMMA TeamsChange ==
    ASSUME NEW b \in Content, NEW teams \in Listing(Team)
    PROVE  [b EXCEPT !.teams = teams] \in Content
BY DEF Content

(* Any other cards make a board.                                           *)
LEMMA CardsChange ==
    ASSUME NEW b \in Content, NEW cards \in [Card -> CardRecord]
    PROVE  [b EXCEPT !.cards = cards] \in Content
BY DEF Content

(* Any other assignment of agents to teams makes a board.                  *)
LEMMA StaffChange ==
    ASSUME NEW b \in Content, NEW staff \in [Agent -> Team \cup {Nobody}]
    PROVE  [b EXCEPT !.staff = staff] \in Content
BY DEF Content

(* Any other card in the place of one makes a board.                       *)
LEMMA CardChange ==
    ASSUME NEW b \in Content, NEW c \in Card, NEW card \in CardRecord
    PROVE  /\ [b EXCEPT !.cards[c] = card] \in Content
           /\ [b EXCEPT !.cards[c] = card] = [b EXCEPT !.cards = [b.cards EXCEPT ![c] = card]]
           /\ b.cards[c] \in CardRecord
BY ContentParts DEF Content

(* A card that is not there is a card record, and there is a first column  *)
(* and agent to fall back to.                                              *)
LEMMA NoCardType ==
    /\ NoCard \in CardRecord
    /\ DefaultSections[1] \in Section /\ FlowSections[1] \in Section /\ FlowAgents[1] \in Agent
<1>1. DefaultSections[1] \in Section /\ FlowSections[1] \in Section
  BY BoardAssumption, ListingFacts
<1>2. Len(FlowSections) >= 1 /\ Len(FlowSections) \in Nat
  BY BoardAssumption, ListingFacts
<1>3. FlowAgents[1] \in Agent
  BY <1>2, BoardAssumption
<1> QED
  BY <1>1, <1>3, BoardAssumption DEF NoCard, CardRecord

(* The operations on columns make boards of boards.                        *)
LEMMA ColumnEdits ==
    ASSUME NEW b \in Content, NEW s
    PROVE  /\ s \in Section \ Sections(b) => CreateSection(b, s) \in Content
           /\ DeleteSection(b, s) \in Content
           /\ \A x : s \in Sections(b) /\ x \in Sections(b) => MoveSection(b, s, x) \in Content
<1>1. ASSUME s \in Section \ Sections(b) PROVE CreateSection(b, s) \in Content
  <2>1. b.sections \in Seq(Section) /\ IsInjective(b.sections) /\ s \notin ToSet(b.sections)
    BY <1>1, ContentParts, ListingFacts DEF Sections
  <2>2. Append(b.sections, s) \in Listing(Section)
    BY <1>1, <2>1, AppendFacts DEF Listing
  <2> QED
    BY <2>2, ColumnsChange DEF CreateSection
<1>2. DeleteSection(b, s) \in Content
  <2> DEFINE left == Only(b.sections, Section \ {s})
             cards == [c \in Card |-> IF b.cards[c].exec # "absent" /\ b.cards[c].at = s
                                      THEN [b.cards[c] EXCEPT !.at = left[1]] ELSE b.cards[c]]
  <2>1. CASE LastStays(b.sections)
    BY <2>1 DEF DeleteSection
  <2>2. CASE ~LastStays(b.sections)
    <3>1. left \in Listing(Section)
      BY <2>2, WithoutOneFacts, ContentParts
    <3> HIDE DEF left
    <3>2. left[1] \in Section
      BY <3>1, ListingFacts
    <3>3. cards \in [Card -> CardRecord]
      BY <3>2, ContentParts DEF CardRecord
    <3> DEFINE mid == [b EXCEPT !.sections = left]
    <3>4. DeleteSection(b, s) = [mid EXCEPT !.cards = cards]
      BY <2>2, ContentParts DEF DeleteSection, left
    <3>5. mid \in Content
      BY <3>1, ColumnsChange
    <3> HIDE DEF cards, mid
    <3> QED
      BY <3>3, <3>4, <3>5, CardsChange
  <2> QED
    BY <2>1, <2>2
<1>3. ASSUME NEW x, s \in Sections(b), x \in Sections(b) PROVE MoveSection(b, s, x) \in Content
  <2> DEFINE moved == InsertAt(Only(b.sections, Section \ {s}), Position(b.sections, x), s)
  <2>1. moved \in Listing(Section)
    BY <1>3, MovedFacts, ContentParts DEF Sections
  <2>2. MoveSection(b, s, x) = [b EXCEPT !.sections = moved]
    BY DEF MoveSection
  <2> HIDE DEF moved
  <2> QED
    BY <2>1, <2>2, ColumnsChange
<1> QED
  BY <1>1, <1>2, <1>3

(* The operations on teams and agents make boards of boards.               *)
LEMMA TeamEdits ==
    ASSUME NEW b \in Content, NEW t
    PROVE  /\ t \in Team \ Teams(b) => CreateTeam(b, t) \in Content
           /\ RemoveTeam(b, t) \in Content
           /\ \A a \in Agent : t \in Team => AddTeamMember(b, a, t) \in Content
           /\ \A a \in Agent : RemoveTeamMember(b, a) \in Content
<1>1. ASSUME t \in Team \ Teams(b) PROVE CreateTeam(b, t) \in Content
  <2>1. b.teams \in Seq(Team) /\ IsInjective(b.teams) /\ t \notin ToSet(b.teams)
    BY <1>1, ContentParts, ListingFacts DEF Teams
  <2>2. Append(b.teams, t) \in Listing(Team)
    BY <1>1, <2>1, AppendFacts DEF Listing
  <2> QED
    BY <2>2, TeamsChange DEF CreateTeam
<1>2. RemoveTeam(b, t) \in Content
  <2> DEFINE left == Only(b.teams, Team \ {t})
             staff == [a \in Agent |-> IF b.staff[a] = t THEN left[1] ELSE b.staff[a]]
             cards == [c \in Card |->
                        IF b.cards[c].exec # "absent" /\ b.cards[c].team = t
                        THEN [b.cards[c] EXCEPT !.team = left[1], !.agent = Nobody]
                        ELSE b.cards[c]]
  <2>1. CASE LastStays(b.teams)
    BY <2>1 DEF RemoveTeam
  <2>2. CASE ~LastStays(b.teams)
    <3>1. left \in Listing(Team)
      BY <2>2, WithoutOneFacts, ContentParts
    <3> HIDE DEF left
    <3>2. left[1] \in Team
      BY <3>1, ListingFacts
    <3>3. staff \in [Agent -> Team \cup {Nobody}]
      BY <3>2, ContentParts
    <3>4. cards \in [Card -> CardRecord]
      <4>1. \A k \in CardRecord : [k EXCEPT !.team = left[1], !.agent = Nobody] \in CardRecord
        BY <3>2 DEF CardRecord
      <4> QED
        BY <4>1, ContentParts
    <3> DEFINE mid == [b EXCEPT !.teams = left]
               mid2 == [mid EXCEPT !.staff = staff]
    <3>5. RemoveTeam(b, t) = [mid2 EXCEPT !.cards = cards]
      BY <2>2, ContentParts DEF RemoveTeam, left
    <3>6. mid \in Content
      BY <3>1, TeamsChange
    <3> HIDE DEF cards, staff, mid
    <3>7. mid2 \in Content
      BY <3>3, <3>6, StaffChange
    <3> HIDE DEF mid2
    <3> QED
      BY <3>4, <3>5, <3>7, CardsChange
  <2> QED
    BY <2>1, <2>2
<1>3. ASSUME NEW a \in Agent, t \in Team PROVE AddTeamMember(b, a, t) \in Content
  BY <1>3, ContentParts DEF AddTeamMember, Content
<1>4. ASSUME NEW a \in Agent PROVE RemoveTeamMember(b, a) \in Content
  <2> DEFINE cards == [c \in Card |-> IF b.cards[c].agent = a
                                      THEN [b.cards[c] EXCEPT !.agent = Nobody] ELSE b.cards[c]]
             staff == [b.staff EXCEPT ![a] = Nobody]
  <2>1. cards \in [Card -> CardRecord] /\ staff \in [Agent -> Team \cup {Nobody}]
    BY ContentParts DEF CardRecord
  <2> DEFINE mid == [b EXCEPT !.staff = staff]
  <2>2. RemoveTeamMember(b, a) = [mid EXCEPT !.cards = cards]
    BY ContentParts DEF RemoveTeamMember
  <2> HIDE DEF cards, staff
  <2>3. mid \in Content
    BY <2>1, StaffChange
  <2> HIDE DEF mid
  <2> QED
    BY <2>1, <2>2, <2>3, CardsChange
<1> QED
  BY <1>1, <1>2, <1>3, <1>4

(* The operations on one card make boards of boards.                       *)
LEMMA CardEdits ==
    ASSUME NEW b \in Content, NEW c \in Card
    PROVE  /\ \A s \in Section : MoveTask(b, c, s) \in Content
           /\ DeleteTask(b, c) \in Content
           /\ RestoreDeletedTask(b, c) \in Content
           /\ PurgeTask(b, c) \in Content
           /\ CompleteTask(b, c) \in Content
           /\ StartTask(b, c) \subseteq Content
           /\ NewCards(b, c) \subseteq Content
<1> DEFINE card == b.cards[c]
<1>1. card \in CardRecord
  BY ContentParts
<1>2. DoneSection(b) \in Section
  BY ContentParts, ListingFacts DEF DoneSection, Sections
<1>3. ASSUME NEW s \in Section
      PROVE  /\ [card EXCEPT !.at = s] \in CardRecord
             /\ [card EXCEPT !.exec = "active", !.at = s] \in CardRecord
             /\ [card EXCEPT !.exec = "completed", !.at = s] \in CardRecord
  BY <1>1 DEF CardRecord
<1>4. [card EXCEPT !.bin = TRUE] \in CardRecord /\ [card EXCEPT !.bin = FALSE] \in CardRecord
  BY <1>1 DEF CardRecord
<1>5. ASSUME NEW s \in Section PROVE MoveTask(b, c, s) \in Content
  <2> DEFINE new == [card EXCEPT !.at = s]
  <2>1. MoveTask(b, c, s) = [b EXCEPT !.cards[c] = new]
    BY ContentParts DEF MoveTask
  <2>2. new \in CardRecord
    BY <1>3
  <2> HIDE DEF new
  <2> QED
    BY <2>1, <2>2, CardChange
<1>6. DeleteTask(b, c) \in Content
  <2> DEFINE new == [card EXCEPT !.bin = TRUE]
  <2>1. DeleteTask(b, c) = [b EXCEPT !.cards[c] = new]
    BY ContentParts DEF DeleteTask
  <2>2. new \in CardRecord
    BY <1>4
  <2> HIDE DEF new
  <2> QED
    BY <2>1, <2>2, CardChange
<1>7. RestoreDeletedTask(b, c) \in Content
  <2> DEFINE new == [card EXCEPT !.bin = FALSE]
  <2>1. RestoreDeletedTask(b, c) = [b EXCEPT !.cards[c] = new]
    BY ContentParts DEF RestoreDeletedTask
  <2>2. new \in CardRecord
    BY <1>4
  <2> HIDE DEF new
  <2> QED
    BY <2>1, <2>2, CardChange
<1>8. PurgeTask(b, c) \in Content
  BY NoCardType, CardChange DEF PurgeTask
<1>9. CompleteTask(b, c) \in Content
  <2> DEFINE new == [card EXCEPT !.exec = "completed", !.at = DoneSection(b)]
  <2>1. CompleteTask(b, c) = [b EXCEPT !.cards[c] = new]
    BY ContentParts DEF CompleteTask
  <2>2. new \in CardRecord
    BY <1>2, <1>3
  <2> HIDE DEF new
  <2> QED
    BY <2>1, <2>2, CardChange
<1>10. StartTask(b, c) \subseteq Content
  <2>1. StartColumns(b, card) \subseteq Section
    BY <1>1, NoCardType, ContentParts DEF StartColumns, CardRecord
  <2>2. ASSUME NEW s \in StartColumns(b, card)
        PROVE  [b EXCEPT !.cards[c].exec = "active", !.cards[c].at = s] \in Content
    <3> DEFINE new == [card EXCEPT !.exec = "active", !.at = s]
    <3>1. [b EXCEPT !.cards[c].exec = "active", !.cards[c].at = s]
            = [b EXCEPT !.cards[c] = new]
      BY ContentParts
    <3>2. new \in CardRecord
      BY <1>3, <2>1
    <3> HIDE DEF new
    <3> QED
      BY <3>1, <3>2, CardChange
  <2> QED
    BY <2>2 DEF StartTask
<1>11. NewCards(b, c) \subseteq Content
  <2> DEFINE made(s, t, a) ==
                [b EXCEPT !.cards[c] = [NoCard EXCEPT !.exec = "queued", !.at = s, !.team = t,
                                                      !.agent = a]]
             ofTeam(t) == {made(s, t, a) : s \in Sections(b), a \in Candidates(b, t)}
  <2>1. NewCards(b, c) = UNION {ofTeam(t) : t \in Teams(b)}
    BY DEF NewCards
  <2>2. ASSUME NEW t \in Teams(b), NEW s \in Sections(b), NEW a \in Candidates(b, t)
        PROVE  made(s, t, a) \in Content
    <3>1. s \in Section /\ t \in Team /\ a \in Agent \cup {Nobody}
      BY ContentParts DEF Candidates
    <3> DEFINE new == [NoCard EXCEPT !.exec = "queued", !.at = s, !.team = t, !.agent = a]
    <3>2. new \in CardRecord
      BY <3>1, NoCardType DEF CardRecord
    <3> HIDE DEF new
    <3>3. [b EXCEPT !.cards[c] = new] \in Content
      BY <3>2, CardChange
    <3> QED
      BY <3>3 DEF new
  <2> HIDE DEF made
  <2>3. \A t \in Teams(b) : ofTeam(t) \subseteq Content
    BY <2>2
  <2> HIDE DEF ofTeam
  <2> QED
    BY <2>1, <2>3
<1> QED
  BY <1>5, <1>6, <1>7, <1>8, <1>9, <1>10, <1>11

(* The operations on all cards make boards of boards.                      *)
LEMMA AllCardEdits ==
    ASSUME NEW b \in Content
    PROVE  ClearDone(b) \in Content /\ TrashAll(b) \in Content
<1> DEFINE cleared == [c \in Card |-> IF Done \in Sections(b) /\ b.cards[c].at = Done
                                      THEN NoCard ELSE b.cards[c]]
           binned == [c \in Card |-> IF b.cards[c].exec = "absent" THEN b.cards[c]
                                     ELSE [b.cards[c] EXCEPT !.bin = TRUE]]
           mid == [b EXCEPT !.sections = FlowSections]
<1>1. cleared \in [Card -> CardRecord]
  BY ContentParts, NoCardType
<1>2. binned \in [Card -> CardRecord]
  <2>1. \A k \in CardRecord : [k EXCEPT !.bin = TRUE] \in CardRecord
    BY DEF CardRecord
  <2> QED
    BY <2>1, ContentParts
<1>3. ClearDone(b) = [b EXCEPT !.cards = cleared]
  BY ContentParts DEF ClearDone
<1>4. TrashAll(b) = [mid EXCEPT !.cards = binned]
  BY ContentParts DEF TrashAll
<1>5. mid \in Content
  BY BoardAssumption, ColumnsChange
<1> HIDE DEF cleared, binned, mid
<1> QED
  BY <1>1, <1>2, <1>3, <1>4, <1>5, CardsChange

(* A new workflow makes a board, with its card and with no other card      *)
(* changed, and so does the board that is saved at once, with the card     *)
(* queued.                                                                 *)
LEMMA NewFlowCardType ==
    ASSUME NEW b \in Content, NEW c \in Card
    PROVE  LET launched == NewFlowCard(b, c)
           IN  /\ launched \in Content
               /\ [launched EXCEPT !.cards[c].exec = "queued"] \in Content
               /\ launched.cards[c].exec = "active"
               /\ \A d \in Card \ {c} : launched.cards[d] = b.cards[d]
<1> DEFINE seq == WithFlowSections(b.sections)
           staff == [a \in Agent |-> IF a \in ToSet(FlowAgents) /\ b.staff[a] = Nobody
                                     THEN b.teams[1] ELSE b.staff[a]]
           new == [NoCard EXCEPT !.exec = "active", !.flow = TRUE, !.at = FlowSections[1],
                                 !.team = b.teams[1], !.agent = FlowAgents[1]]
           mid == [b EXCEPT !.sections = seq]
           mid2 == [mid EXCEPT !.staff = staff]
           launched == [mid2 EXCEPT !.cards[c] = new]
<1>1. seq \in Listing(Section)
  BY ContentParts, WithFlowSectionsFacts
<1>2. b.teams[1] \in Team
  BY ContentParts, ListingFacts
<1>3. staff \in [Agent -> Team \cup {Nobody}]
  BY <1>2, ContentParts
<1>4. new \in CardRecord /\ new.exec = "active" /\ [new EXCEPT !.exec = "queued"] \in CardRecord
  BY <1>2, NoCardType DEF CardRecord
<1>5. NewFlowCard(b, c) = launched
  BY ContentParts DEF NewFlowCard
<1>6. mid2.cards = b.cards
  BY ContentParts
<1> HIDE DEF seq, staff, new
<1>7. mid \in Content
  BY <1>1, ColumnsChange
<1> HIDE DEF mid
<1>8. mid2 \in Content
  BY <1>3, <1>7, StaffChange
<1> HIDE DEF mid2
<1>9. /\ launched \in Content
      /\ launched.cards = [b.cards EXCEPT ![c] = new]
  BY <1>4, <1>6, <1>8, CardChange, ContentParts
<1> HIDE DEF launched
<1>10. /\ launched.cards[c] = new
       /\ \A d \in Card \ {c} : launched.cards[d] = b.cards[d]
  BY <1>9, ContentParts
<1>11. [launched EXCEPT !.cards[c].exec = "queued"]
          = [launched EXCEPT !.cards[c] = [new EXCEPT !.exec = "queued"]]
  BY <1>9, <1>10, ContentParts
<1>12. [launched EXCEPT !.cards[c].exec = "queued"] \in Content
  BY <1>4, <1>9, <1>11, CardChange
<1> QED
  BY <1>4, <1>5, <1>9, <1>10, <1>12

(* The settings make boards of boards: no count goes below 0.              *)
LEMMA SettingsEdits ==
    ASSUME NEW b \in Content
    PROVE  EditedSettings(b) \subseteq Content
<1> DEFINE f == b.frame
<1>1. f \in Frame
  BY ContentParts
<1>2. /\ [f EXCEPT !.title = f.title + 1] \in Frame
      /\ [f EXCEPT !.choice = ~f.choice] \in Frame
      /\ [f EXCEPT !.provider = ~f.provider] \in Frame
      /\ [f EXCEPT !.channel = ~f.channel] \in Frame
      /\ [f EXCEPT !.webhook = ~f.webhook] \in Frame
      /\ [f EXCEPT !.vault = f.vault + 1] \in Frame
      /\ [f EXCEPT !.token = f.token + 1] \in Frame
      /\ [f EXCEPT !.targets = f.targets + 1] \in Frame
  <2>1. [f EXCEPT !.title = f.title + 1] \in Frame
    BY <1>1 DEF Frame
  <2>2. [f EXCEPT !.choice = ~f.choice] \in Frame /\ [f EXCEPT !.provider = ~f.provider] \in Frame
    BY <1>1 DEF Frame
  <2>3. [f EXCEPT !.channel = ~f.channel] \in Frame /\ [f EXCEPT !.webhook = ~f.webhook] \in Frame
    BY <1>1 DEF Frame
  <2>4. [f EXCEPT !.vault = f.vault + 1] \in Frame
    BY <1>1 DEF Frame
  <2>5. [f EXCEPT !.token = f.token + 1] \in Frame
    BY <1>1 DEF Frame
  <2>6. [f EXCEPT !.targets = f.targets + 1] \in Frame
    BY <1>1 DEF Frame
  <2> HIDE DEF f
  <2> QED
    BY <2>1, <2>2, <2>3, <2>4, <2>5, <2>6
<1>3. /\ f.vault > 0 => [f EXCEPT !.vault = f.vault - 1] \in Frame
      /\ f.targets > 0 => [f EXCEPT !.targets = f.targets - 1] \in Frame
  BY <1>1 DEF Frame
<1>4. HandleBoardTitleChange(b) \in Content
  <2> DEFINE g == [f EXCEPT !.title = f.title + 1]
  <2>1. HandleBoardTitleChange(b) = [b EXCEPT !.frame = g]
    BY ContentParts DEF HandleBoardTitleChange
  <2> QED
    BY <1>2, <2>1, FrameChange
<1>5. WorkspaceSettingsChange(b) \in Content
  <2> DEFINE g == [f EXCEPT !.choice = ~f.choice]
  <2>1. WorkspaceSettingsChange(b) = [b EXCEPT !.frame = g]
    BY ContentParts DEF WorkspaceSettingsChange
  <2> QED
    BY <1>2, <2>1, FrameChange
<1>6. ToggleProvider(b) \in Content
  <2> DEFINE g == [f EXCEPT !.provider = ~f.provider]
  <2>1. ToggleProvider(b) = [b EXCEPT !.frame = g]
    BY ContentParts DEF ToggleProvider
  <2> QED
    BY <1>2, <2>1, FrameChange
<1>7. ToggleChannel(b) \in Content
  <2> DEFINE g == [f EXCEPT !.channel = ~f.channel]
  <2>1. ToggleChannel(b) = [b EXCEPT !.frame = g]
    BY ContentParts DEF ToggleChannel
  <2> QED
    BY <1>2, <2>1, FrameChange
<1>8. UpdateWebhookConfig(b) \in Content
  <2> DEFINE g == [f EXCEPT !.webhook = ~f.webhook]
  <2>1. UpdateWebhookConfig(b) = [b EXCEPT !.frame = g]
    BY ContentParts DEF UpdateWebhookConfig
  <2> QED
    BY <1>2, <2>1, FrameChange
<1>9. RegenerateWebhookToken(b) \in Content
  <2> DEFINE g == [f EXCEPT !.token = f.token + 1]
  <2>1. RegenerateWebhookToken(b) = [b EXCEPT !.frame = g]
    BY ContentParts DEF RegenerateWebhookToken
  <2> QED
    BY <1>2, <2>1, FrameChange
<1>10. AddVaultDoc(b) \in Content
  <2> DEFINE g == [f EXCEPT !.vault = f.vault + 1]
  <2>1. AddVaultDoc(b) = [b EXCEPT !.frame = g]
    BY ContentParts DEF AddVaultDoc
  <2> QED
    BY <1>2, <2>1, FrameChange
<1>11. b.frame.vault > 0 => RemoveVaultDoc(b) \in Content
  <2> DEFINE g == [f EXCEPT !.vault = f.vault - 1]
  <2>1. RemoveVaultDoc(b) = [b EXCEPT !.frame = g]
    BY ContentParts DEF RemoveVaultDoc
  <2> QED
    BY <1>3, <2>1, FrameChange
<1>12. AddNotification(b) \in Content
  <2> DEFINE g == [f EXCEPT !.targets = f.targets + 1]
  <2>1. AddNotification(b) = [b EXCEPT !.frame = g]
    BY ContentParts DEF AddNotification
  <2> QED
    BY <1>2, <2>1, FrameChange
<1>13. b.frame.targets > 0 => RemoveNotification(b) \in Content
  <2> DEFINE g == [f EXCEPT !.targets = f.targets - 1]
  <2>1. RemoveNotification(b) = [b EXCEPT !.frame = g]
    BY ContentParts DEF RemoveNotification
  <2> QED
    BY <1>3, <2>1, FrameChange
<1> HIDE DEF f
<1>14. VaultPanel(b) \subseteq Content
  BY <1>10, <1>11 DEF VaultPanel
<1>15. WebhookSection(b) \subseteq Content
  BY <1>8, <1>9 DEF WebhookSection
<1>16. NotificationSection(b) \subseteq Content
  BY <1>12, <1>13 DEF NotificationSection
<1> QED
  BY <1>4, <1>5, <1>6, <1>7, <1>14, <1>15, <1>16 DEF EditedSettings

(* Dragging a card by mouse makes a board, though its column moves too.    *)
LEMMA MouseEdits ==
    ASSUME NEW b \in Content
    PROVE  DroppedByMouse(b) \subseteq Content
<1> DEFINE from(c) == b.cards[c].at
           both(c, s) == MoveSection(MoveTask(b, c, s), from(c), s)
           alone(c, s) == MoveSection(b, from(c), s)
           byCard(c) == UNION {{both(c, s), alone(c, s)} : s \in Sections(b) \ {from(c)}}
<1>1. DroppedByMouse(b) = UNION {byCard(c) : c \in Shown(b)}
  BY DEF DroppedByMouse
<1>2. ASSUME NEW c \in Shown(b), NEW s \in Sections(b) \ {from(c)}
      PROVE  both(c, s) \in Content /\ alone(c, s) \in Content
  <2>1. c \in Card /\ from(c) \in Sections(b) /\ s \in Section
    BY ContentParts DEF Shown, Hidden, Live, Cards
  <2>2. MoveTask(b, c, s) \in Content
    BY <2>1, CardEdits
  <2>3. MoveTask(b, c, s).sections = b.sections
    BY ContentParts DEF MoveTask
  <2>4. Sections(MoveTask(b, c, s)) = Sections(b)
    BY <2>3 DEF Sections
  <2> QED
    BY <2>1, <2>2, <2>4, ColumnEdits
<1> HIDE DEF both, alone
<1>3. \A c \in Shown(b) : byCard(c) \subseteq Content
  BY <1>2
<1> HIDE DEF byCard
<1> QED
  BY <1>1, <1>3

(* Only cards and agents are on a board.                                   *)
LEMMA OnTheBoard ==
    ASSUME NEW b
    PROVE  /\ Shown(b) \subseteq Card /\ InBin(b) \subseteq Card /\ Staff(b) \subseteq Agent
BY DEF Shown, InBin, Live, Cards, Staff

(* Every user operation makes boards of boards, if the IDs of its new      *)
(* columns and teams are new.                                              *)
LEMMA EditType ==
    ASSUME NEW b \in Content, NEW fresh, NEW kind \in EditKinds,
           (Sections(b) \cup Teams(b)) \cap fresh = {}
    PROVE  EditsOfKind(kind, b, fresh) \subseteq Content
<1>1. Sections(b) \subseteq Section /\ Teams(b) \subseteq Team
  BY ContentParts
<1>2. AddedColumns(b, fresh) \subseteq Content /\ RemovedColumns(b) \subseteq Content
  BY ColumnEdits DEF AddedColumns, RemovedColumns
<1>3. OrderedColumns(b) \subseteq Content
  <2> DEFINE of(s) == {MoveSection(b, s, x) : x \in Sections(b) \ {s}}
  <2>1. \A s \in Sections(b) : of(s) \subseteq Content
    BY ColumnEdits
  <2>2. OrderedColumns(b) = UNION {of(s) : s \in Sections(b)}
    BY DEF OrderedColumns
  <2> HIDE DEF of
  <2> QED
    BY <2>1, <2>2
<1>4. TeamsTab(b, fresh) \subseteq Content /\ TeamsTabRemoval(b) \subseteq Content
  BY TeamEdits DEF TeamsTab, TeamsTabRemoval
<1>5. AgentsTab(b, fresh) \subseteq Content
  <2> DEFINE of(a) == {AddTeamMember(b, a, t) : t \in Teams(b)}
  <2>1. \A a \in Agent : of(a) \subseteq Content
    BY <1>1, TeamEdits
  <2>2. AgentsTab(b, fresh) = UNION {of(a) : a \in Agent \cap fresh}
    BY DEF AgentsTab
  <2> HIDE DEF of
  <2> QED
    BY <2>1, <2>2
<1>6. AgentsTabRemoval(b) \subseteq Content
  BY TeamEdits, OnTheBoard DEF AgentsTabRemoval
<1>7. UNION {NewCards(b, c) : c \in Card \cap fresh} \subseteq Content
  BY CardEdits
<1>8. DroppedCards(b) \subseteq Content
  <2> DEFINE of(c) == {MoveTask(b, c, s) : s \in Sections(b)}
  <2>1. \A c \in Card : of(c) \subseteq Content
    BY <1>1, CardEdits
  <2>2. DroppedCards(b) = UNION {of(c) : c \in Shown(b)}
    BY DEF DroppedCards
  <2> HIDE DEF of
  <2> QED
    BY <2>1, <2>2, OnTheBoard
<1>9. BinnedCards(b) \subseteq Content /\ ClosedCards(b) \subseteq Content
  BY CardEdits, OnTheBoard DEF BinnedCards, ClosedCards
<1>10. TrashRestored(b) \subseteq Content /\ TrashPurged(b) \subseteq Content
  BY CardEdits, OnTheBoard DEF TrashRestored, TrashPurged
<1>11. {ClearDone(b)} \subseteq Content
  BY AllCardEdits
<1> QED
  BY <1>2, <1>3, <1>4, <1>5, <1>6, <1>7, <1>8, <1>9, <1>10, <1>11, MouseEdits, SettingsEdits
  DEF EditKinds, EditsOfKind
=============================================================================
