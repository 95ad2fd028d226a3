----------------------------- MODULE ListProofs ------------------------------
(***************************************************************************)
(* Lemmas about lists for the proofs about the compiler and the renderers: *)
(* what a filter loop keeps, what joining lists makes of them, what the    *)
(* first of a list of codes says.  A recursive function is known to the    *)
(* provers as a CHOOSE; that it satisfies its equation, and what follows   *)
(* from the equation, is shown by induction over the natural numbers,      *)
(* which rests on the library's theorem that they are well ordered.        *)
(***************************************************************************)
EXTENDS Lists, SequencesExt, WellFoundedInduction, TLAPS

Less == {ss \in Nat \X Nat : ss[1] < ss[2]}
LEMMA LessIsWellFounded == IsWellFoundedOn(Less, Nat)
  BY NatLessThanWellFounded DEF OpToRel, Less

\* A set of numbers that is not empty has a least element.
LEMMA LeastNumber ==
  ASSUME NEW T, T \subseteq Nat, T # {}
  PROVE  \E x \in T : \A y \in T : x <= y
  <1>1. PICK x \in T : \A y \in T : ~ (<<y, x>> \in Less)
    BY LessIsWellFounded, WFMin
  <1>2. ASSUME NEW y \in T PROVE x <= y
    <2>1. <<y, x>> \in Nat \X Nat /\ <<y, x>>[1] = y /\ <<y, x>>[2] = x
      OBVIOUS
    <2>2. ~(y < x)
      BY <1>1, <2>1 DEF Less
    <2>3. QED
      BY <2>2
  <1>3. QED
    BY <1>2

\* Min finds it.
LEMMA MinIsLeast ==
  ASSUME NEW T, T \subseteq Nat, T # {}
  PROVE  Min(T) \in T /\ \A y \in T : Min(T) <= y
  BY LeastNumber DEF Min

\* Induction: a set with 0 and every successor of its numbers has all numbers.
LEMMA SetInduction ==
  ASSUME NEW T, 0 \in T, \A i \in Nat : i \in T => i + 1 \in T
  PROVE  Nat \subseteq T
  <1> DEFINE bad == Nat \ T
  <1>1. ASSUME bad # {} PROVE FALSE
    <2>1. PICK x \in bad : \A y \in bad : x <= y
      BY <1>1, LeastNumber
    <2>2. x # 0 /\ x - 1 \in Nat /\ x - 1 < x
      BY <2>1
    <2>3. x - 1 \in T
      BY <2>1, <2>2
    <2>4. QED
      BY <2>1, <2>2, <2>3
  <1>2. QED
    BY <1>1

\* A set of positions has a last one.
LEMMA LastPosition ==
  ASSUME NEW m \in Nat, NEW T, T \subseteq 1..m, T # {}
  PROVE  \E x \in T : \A y \in T : y <= x
  <1> DEFINE U == {u \in Nat : \A y \in T : y <= u}
  <1>1. U \subseteq Nat /\ m \in U
    OBVIOUS
  <1>2. PICK u \in U : \A v \in U : u <= v
    BY <1>1, LeastNumber
  <1>3. u \in Nat /\ \A y \in T : y <= u
    BY <1>2
  <1>4. ASSUME u \notin T PROVE FALSE
    <2>1. PICK y \in T : TRUE
      OBVIOUS
    <2>2. y \in Nat /\ y >= 1 /\ y <= u
      BY <1>3, <2>1
    <2>3. u - 1 \in Nat /\ \A z \in T : z <= u - 1
      BY <1>3, <1>4, <2>2
    <2>4. u - 1 \in U
      BY <2>3
    <2>5. u <= u - 1
      BY <1>2, <2>4
    <2>6. QED
      BY <1>3, <2>5
  <1>5. QED
    BY <1>3, <1>4

---------------------------------------------------------------------------
\* Filters.

Grown(f, s, T, m) == f = [i \in 0..m |->
  IF i = 0 THEN <<>> ELSE IF s[i] \in T THEN Append(f[i - 1], s[i]) ELSE f[i - 1]]

\* The loop has a result after any number of rounds.
LEMMA GrownExists ==
  ASSUME NEW S, NEW s \in Seq(S), NEW T
  PROVE  \A m \in Nat : m <= Len(s) => \E f : Grown(f, s, T, m)
  <1> DEFINE P == {m \in Nat : m <= Len(s) => \E f : Grown(f, s, T, m)}
  <1>1. 0 \in P
    <2>1. Grown([i \in 0..0 |-> <<>>], s, T, 0)
      BY DEF Grown
    <2>2. QED
      BY <2>1
  <1>2. ASSUME NEW i \in Nat, i \in P PROVE i + 1 \in P
    <2>1. ASSUME i + 1 <= Len(s) PROVE \E f : Grown(f, s, T, i + 1)
      <3>1. PICK f : Grown(f, s, T, i)
        BY <1>2, <2>1
      <3> DEFINE g == [j \in 0..(i + 1) |-> IF j = i + 1
                         THEN IF s[i + 1] \in T THEN Append(f[i], s[i + 1]) ELSE f[i] ELSE f[j]]
      <3>2. ASSUME NEW j \in 0..(i + 1)
            PROVE  g[j] = IF j = 0 THEN <<>> ELSE IF s[j] \in T THEN Append(g[j - 1], s[j]) ELSE g[j - 1]
        <4>1. CASE j = i + 1
          <5>1. g[j - 1] = f[i] /\ j # 0
            BY <4>1
          <5>2. QED
            BY <4>1, <5>1
        <4>2. CASE j # i + 1
          <5>1. j \in 0..i /\ g[j] = f[j] /\ (j # 0 => g[j - 1] = f[j - 1])
            BY <4>2
          <5>2. f[j] = IF j = 0 THEN <<>> ELSE IF s[j] \in T THEN Append(f[j - 1], s[j]) ELSE f[j - 1]
            BY <3>1, <5>1 DEF Grown
          <5>3. QED
            BY <5>1, <5>2
        <4>3. QED
          BY <4>1, <4>2
      <3>3. DOMAIN g = 0..(i + 1) /\ g = [j \in 0..(i + 1) |-> g[j]]
        OBVIOUS
      <3> HIDE DEF g
      <3>4. Grown(g, s, T, i + 1)
        BY <3>2, <3>3 DEF Grown
      <3>5. QED
        BY <3>4
    <2>2. QED
      BY <2>1
  <1> HIDE DEF P
  <1>3. Nat \subseteq P
    BY <1>1, <1>2, SetInduction
  <1>4. QED
    BY <1>3 DEF P

\* The rounds of a filter loop.
LEMMA PickedRounds ==
  ASSUME NEW S, NEW s \in Seq(S), NEW T
  PROVE  /\ Picked(s, T)[0] = <<>>
         /\ \A i \in 1..Len(s) : Picked(s, T)[i] =
              IF s[i] \in T THEN Append(Picked(s, T)[i - 1], s[i]) ELSE Picked(s, T)[i - 1]
  <1>1. Len(s) \in Nat
    OBVIOUS
  <1>2. \E f : Grown(f, s, T, Len(s))
    BY <1>1, GrownExists
  <1>3. Picked(s, T) = CHOOSE f : Grown(f, s, T, Len(s))
    BY DEF Picked, Grown
  <1>4. Grown(Picked(s, T), s, T, Len(s))
    BY <1>2, <1>3
  <1> DEFINE f == Picked(s, T)
  <1>5. f = [i \in 0..Len(s) |->
               IF i = 0 THEN <<>> ELSE IF s[i] \in T THEN Append(f[i - 1], s[i]) ELSE f[i - 1]]
    BY <1>4 DEF Grown
  <1> HIDE DEF f
  <1>6. f[0] = <<>>
    BY <1>1, <1>5
  <1>7. ASSUME NEW i \in 1..Len(s)
        PROVE  f[i] = IF s[i] \in T THEN Append(f[i - 1], s[i]) ELSE f[i - 1]
    <2>1. i \in 0..Len(s) /\ i # 0
      OBVIOUS
    <2>2. QED
      BY <1>5, <2>1
  <1>8. QED
    BY <1>6, <1>7 DEF f

\* r takes from s, in order, exactly the elements at the positions in K.
Takes(r, s, K, h) ==
  /\ h \in [1..Len(r) -> K]
  /\ \A i \in 1..Len(r) : r[i] = s[h[i]]
  /\ \A i, j \in 1..Len(r) : i < j => h[i] < h[j]
  /\ \A q \in K : \E i \in 1..Len(r) : h[i] = q

\* What a filter loop has appended after m rounds are the elements of the first
\* m that pass, in their order.
LEMMA PickedTakes ==
  ASSUME NEW S, NEW s \in Seq(S), NEW T
  PROVE  \A m \in Nat : m <= Len(s) =>
           /\ Picked(s, T)[m] \in Seq(S)
           /\ \E h : Takes(Picked(s, T)[m], s, {i \in 1..m : s[i] \in T}, h)
  <1> DEFINE f == Picked(s, T)
             K(m) == {i \in 1..m : s[i] \in T}
             Q(m) == f[m] \in Seq(S) /\ \E h : Takes(f[m], s, K(m), h)
             P == {m \in Nat : m <= Len(s) => Q(m)}
  <1>0. Len(s) \in Nat /\ \A i \in 1..Len(s) : s[i] \in S
    OBVIOUS
  <1>1. 0 \in P
    <2>1. f[0] = <<>>
      BY PickedRounds
    <2>2. Takes(<<>>, s, K(0), <<>>)
      BY DEF Takes
    <2>3. <<>> \in Seq(S)
      OBVIOUS
    <2>4. QED
      BY <2>1, <2>2, <2>3
  <1>2. ASSUME NEW m \in Nat, m \in P PROVE m + 1 \in P
    <2> HIDE DEF Q
    <2> SUFFICES ASSUME m + 1 <= Len(s) PROVE Q(m + 1)
      OBVIOUS
    <2>0. Q(m)
      BY <1>0, <1>2
    <2> USE DEF Q
    <2> DEFINE r == f[m]  x == s[m + 1]
    <2> HIDE DEF f, K
    <2>1. PICK h : Takes(r, s, K(m), h)
      BY <2>0
    <2>2. r \in Seq(S)
      BY <2>0
    <2> USE DEF f, K
    <2>3. m + 1 \in 1..Len(s) /\ (m + 1) - 1 = m
      BY <1>0
    <2>4. f[m + 1] = IF x \in T THEN Append(r, x) ELSE r
      <3>1. f[m + 1] = IF x \in T THEN Append(f[(m + 1) - 1], x) ELSE f[(m + 1) - 1]
        BY <2>3, PickedRounds
      <3>2. QED
        BY <2>3, <3>1
    <2>5. x \in S
      BY <1>0, <2>3
    <2> HIDE DEF f
    <2>6. CASE x \notin T
      <3>1. K(m + 1) = K(m)
        BY <2>6
      <3>2. QED
        BY <2>1, <2>2, <2>4, <2>6, <3>1
    <2>7. CASE x \in T
      <3> DEFINE g == [i \in 1..(Len(r) + 1) |-> IF i = Len(r) + 1 THEN m + 1 ELSE h[i]]
                 t == Append(r, x)
      <3> HIDE DEF r, x
      <3>1. K(m + 1) = K(m) \cup {m + 1} /\ K(m) \subseteq 1..m
        BY <2>7 DEF x
      <3>2. /\ t \in Seq(S) /\ Len(t) = Len(r) + 1 /\ Len(r) \in Nat
            /\ t[Len(r) + 1] = x /\ \A i \in 1..Len(r) : t[i] = r[i]
        BY <2>2, <2>5
      <3> HIDE DEF K, t
      <3>3. g \in [1..Len(t) -> K(m + 1)]
        BY <2>1, <3>1, <3>2 DEF Takes
      <3>4. \A i \in 1..Len(t) : t[i] = s[g[i]]
        BY <2>1, <3>2 DEF Takes, x
      <3>5. \A i, j \in 1..Len(t) : i < j => g[i] < g[j]
        <4>1. ASSUME NEW i \in 1..Len(t), NEW j \in 1..Len(t), i < j PROVE g[i] < g[j]
          <5>1. i \in 1..Len(r) /\ g[i] = h[i] /\ h[i] \in 1..m
            BY <4>1, <2>1, <3>1, <3>2, SMTT(30) DEF Takes
          <5>2. CASE j = Len(r) + 1
            BY <5>1, <5>2
          <5>3. CASE j \in 1..Len(r)
            BY <5>1, <5>3, <4>1, <2>1, <3>2 DEF Takes
          <5>4. QED
            BY <5>2, <5>3, <3>2
        <4>2. QED
          BY <4>1
      <3>6. \A q \in K(m + 1) : \E i \in 1..Len(t) : g[i] = q
        <4>1. ASSUME NEW q \in K(m + 1) PROVE \E i \in 1..Len(t) : g[i] = q
          <5>1. CASE q = m + 1
            <6>1. Len(r) + 1 \in 1..Len(t) /\ g[Len(r) + 1] = m + 1
              BY <3>2
            <6>2. QED
              BY <5>1, <6>1
          <5>2. CASE q \in K(m)
            <6>1. PICK i \in 1..Len(r) : h[i] = q
              BY <2>1, <5>2 DEF Takes
            <6>2. i \in 1..Len(t) /\ g[i] = q
              BY <3>2, <6>1
            <6>3. QED
              BY <6>2
          <5>3. QED
            BY <5>1, <5>2, <3>1
        <4>2. QED
          BY <4>1
      <3> HIDE DEF g
      <3>7. Takes(t, s, K(m + 1), g)
        BY <3>3, <3>4, <3>5, <3>6 DEF Takes
      <3>8. f[m + 1] = t
        BY <2>4, <2>7 DEF t, r, x
      <3>9. QED
        BY <3>2, <3>7, <3>8
    <2>8. QED
      BY <2>6, <2>7
  <1> HIDE DEF P
  <1>3. Nat \subseteq P
    BY <1>1, <1>2, SetInduction
  <1>4. QED
    BY <1>3 DEF P

\* What a filter keeps of a list.
LEMMA OnlyTakes ==
  ASSUME NEW S, NEW s \in Seq(S), NEW T
  PROVE  /\ Only(s, T) \in Seq(S)
         /\ \E h : Takes(Only(s, T), s, {i \in 1..Len(s) : s[i] \in T}, h)
         /\ ToSet(Only(s, T)) = ToSet(s) \cap T
  <1> DEFINE r == Only(s, T)  K == {i \in 1..Len(s) : s[i] \in T}
  <1> HIDE DEF K
  <1>1. r \in Seq(S) /\ \E h : Takes(r, s, K, h)
    <2>1. Len(s) \in Nat /\ Len(s) <= Len(s)
      OBVIOUS
    <2>2. Picked(s, T)[Len(s)] \in Seq(S) /\ \E h : Takes(Picked(s, T)[Len(s)], s, K, h)
      BY <2>1, PickedTakes DEF K
    <2>3. QED
      BY <2>2 DEF Only
  <1> USE DEF K
  <1>2. PICK h : Takes(r, s, K, h)
    BY <1>1
  <1>3. DOMAIN s = 1..Len(s) /\ DOMAIN r = 1..Len(r)
    BY <1>1
  <1> HIDE DEF r
  <1>4. ASSUME NEW i \in 1..Len(r) PROVE r[i] \in ToSet(s) \cap T
    <2>1. h[i] \in 1..Len(s) /\ s[h[i]] \in T /\ r[i] = s[h[i]]
      BY <1>2 DEF Takes
    <2>2. QED
      BY <2>1, <1>3 DEF ToSet
  <1>5. ASSUME NEW q \in 1..Len(s), s[q] \in T PROVE s[q] \in ToSet(r)
    <2>1. PICK i \in 1..Len(r) : h[i] = q
      BY <1>2, <1>5 DEF Takes
    <2>2. r[i] = s[q]
      BY <1>2, <2>1 DEF Takes
    <2>3. QED
      BY <2>2, <1>3 DEF ToSet
  <1>6. ToSet(r) = ToSet(s) \cap T
    BY <1>3, <1>4, <1>5 DEF ToSet
  <1>7. QED
    BY <1>1, <1>6 DEF r

\* Two loops that see the same elements pass have appended the same.
LEMMA PickedAgree ==
  ASSUME NEW S, NEW s \in Seq(S), NEW t \in Seq(S), NEW T, NEW U, NEW c \in Nat,
         c <= Len(s), c <= Len(t), \A i \in 1..c : s[i] = t[i] /\ (s[i] \in T <=> t[i] \in U)
  PROVE  Picked(s, T)[c] = Picked(t, U)[c]
  <1> DEFINE P == {m \in Nat : m <= c => Picked(s, T)[m] = Picked(t, U)[m]}
  <1>0. Len(s) \in Nat /\ Len(t) \in Nat
    OBVIOUS
  <1>1. 0 \in P
    BY PickedRounds
  <1>2. ASSUME NEW m \in Nat, m \in P PROVE m + 1 \in P
    <2>1. ASSUME m + 1 <= c PROVE Picked(s, T)[m + 1] = Picked(t, U)[m + 1]
      <3>1. m + 1 \in 1..Len(s) /\ m + 1 \in 1..Len(t) /\ m + 1 \in 1..c /\ (m + 1) - 1 = m
        BY <1>0, <2>1
      <3>2. Picked(s, T)[m] = Picked(t, U)[m]
        BY <1>2, <2>1
      <3>3. Picked(s, T)[m + 1] =
              IF s[m + 1] \in T THEN Append(Picked(s, T)[(m + 1) - 1], s[m + 1]) ELSE Picked(s, T)[(m + 1) - 1]
        BY <3>1, PickedRounds
      <3>4. Picked(t, U)[m + 1] =
              IF t[m + 1] \in U THEN Append(Picked(t, U)[(m + 1) - 1], t[m + 1]) ELSE Picked(t, U)[(m + 1) - 1]
        BY <3>1, PickedRounds
      <3>5. QED
        BY <3>1, <3>2, <3>3, <3>4
    <2>2. QED
      BY <2>1
  <1> HIDE DEF P
  <1>3. c \in P
    BY <1>1, <1>2, SetInduction
  <1>4. QED
    BY <1>3 DEF P

\* Two filters let the same elements of s pass.
Alike(s, T, U) == \A y \in ToSet(s) : y \in T <=> y \in U

\* A filter of a longer list keeps what it kept, and the new element if it passes.
LEMMA OnlyExtends ==
  ASSUME NEW S, NEW s \in Seq(S), NEW x \in S, NEW T, NEW U, Alike(s, T, U)
  PROVE  Only(Append(s, x), U) = IF x \in U THEN Append(Only(s, T), x) ELSE Only(s, T)
  <1> DEFINE t == Append(s, x)
  <1>1. /\ t \in Seq(S) /\ Len(s) \in Nat /\ Len(t) = Len(s) + 1
        /\ t[Len(s) + 1] = x /\ \A i \in 1..Len(s) : t[i] = s[i] /\ s[i] \in ToSet(s)
    BY DEF ToSet
  <1> HIDE DEF t
  <1>2. Picked(s, T)[Len(s)] = Picked(t, U)[Len(s)]
    BY <1>1, PickedAgree DEF Alike
  <1>3. Len(s) + 1 \in 1..Len(t) /\ (Len(s) + 1) - 1 = Len(s)
    BY <1>1
  <1>4. Picked(t, U)[Len(s) + 1] = IF t[Len(s) + 1] \in U
          THEN Append(Picked(t, U)[(Len(s) + 1) - 1], t[Len(s) + 1]) ELSE Picked(t, U)[(Len(s) + 1) - 1]
    BY <1>1, <1>3, PickedRounds
  <1>5. QED
    BY <1>1, <1>2, <1>3, <1>4 DEF Only, t

---------------------------------------------------------------------------
\* Joining lists.

Joining(f, ss, m) == f = [i \in 1..m |-> IF i = 1 THEN ss[i] ELSE f[i - 1] \o ss[i]]

\* The joined list exists for any number of lists.
LEMMA JoiningExists ==
  ASSUME NEW ss
  PROVE  \A m \in Nat : \E f : Joining(f, ss, m)
  <1> DEFINE P == {m \in Nat : \E f : Joining(f, ss, m)}
  <1>1. 0 \in P
    <2>1. 1..0 = {}
      OBVIOUS
    <2>2. Joining([i \in 1..0 |-> 0], ss, 0)
      BY <2>1 DEF Joining
    <2>3. QED
      BY <2>2
  <1>2. ASSUME NEW m \in Nat, m \in P PROVE m + 1 \in P
    <2>1. PICK f : Joining(f, ss, m)
      BY <1>2
    <2> DEFINE g == [j \in 1..(m + 1) |-> IF j = m + 1
                       THEN IF j = 1 THEN ss[j] ELSE f[j - 1] \o ss[j] ELSE f[j]]
    <2>2. ASSUME NEW j \in 1..(m + 1) PROVE g[j] = IF j = 1 THEN ss[j] ELSE g[j - 1] \o ss[j]
      <3>1. CASE j = m + 1 /\ j # 1
        <4>1. j - 1 \in 1..(m + 1) /\ j - 1 # m + 1 /\ g[j - 1] = f[j - 1]
          BY <3>1
        <4>2. QED
          BY <3>1, <4>1
      <3>2. CASE j = m + 1 /\ j = 1
        BY <3>2
      <3>3. CASE j # m + 1
        <4>1. j \in 1..m /\ g[j] = f[j] /\ (j # 1 => g[j - 1] = f[j - 1])
          BY <3>3
        <4>2. f[j] = IF j = 1 THEN ss[j] ELSE f[j - 1] \o ss[j]
          BY <2>1, <4>1 DEF Joining
        <4>3. QED
          BY <4>1, <4>2
      <3>4. QED
        BY <3>1, <3>2, <3>3
    <2>3. g = [j \in 1..(m + 1) |-> g[j]]
      OBVIOUS
    <2> HIDE DEF g
    <2>4. Joining(g, ss, m + 1)
      BY <2>2, <2>3 DEF Joining
    <2>5. QED
      BY <2>4
  <1> HIDE DEF P
  <1>3. Nat \subseteq P
    BY <1>1, <1>2, SetInduction
  <1>4. QED
    BY <1>3 DEF P

\* FlattenSeq joins the lists one after the other.
LEMMA FlattenRounds ==
  ASSUME NEW S, NEW ss \in Seq(Seq(S))
  PROVE  \E J : /\ J[0] = <<>> /\ FlattenSeq(ss) = J[Len(ss)]
                /\ \A m \in Nat : m < Len(ss) => J[m + 1] = J[m] \o ss[m + 1]
  <1>1. Len(ss) \in Nat /\ (Len(ss) = 0 => ss = <<>>) /\ \A i \in 1..Len(ss) : ss[i] \in Seq(S)
    OBVIOUS
  <1>2. \E f : Joining(f, ss, Len(ss))
    BY <1>1, JoiningExists
  <1> DEFINE f == CHOOSE g : Joining(g, ss, Len(ss))
             J == [m \in 0..Len(ss) |-> IF m = 0 THEN <<>> ELSE f[m]]
  <1>3. Joining(f, ss, Len(ss))
    BY <1>2
  <1>4. FlattenSeq(ss) = IF Len(ss) = 0 THEN ss ELSE f[Len(ss)]
    BY DEF FlattenSeq, Joining
  <1> HIDE DEF f
  <1>5. FlattenSeq(ss) = J[Len(ss)] /\ J[0] = <<>>
    BY <1>1, <1>4
  <1>6. ASSUME NEW m \in Nat, m < Len(ss) PROVE J[m + 1] = J[m] \o ss[m + 1]
    <2>1. m + 1 \in 1..Len(ss) /\ (m + 1) - 1 = m /\ m \in 0..Len(ss) /\ m + 1 \in 0..Len(ss)
      BY <1>1, <1>6
    <2>2. f[m + 1] = IF m + 1 = 1 THEN ss[m + 1] ELSE f[(m + 1) - 1] \o ss[m + 1]
      BY <1>3, <2>1 DEF Joining
    <2>3. CASE m = 0
      <3>1. <<>> \o ss[m + 1] = ss[m + 1]
        BY <1>1, <2>1
      <3>2. QED
        BY <2>1, <2>2, <2>3, <3>1
    <2>4. CASE m # 0
      <3>1. m + 1 # 0 /\ m + 1 # 1
        BY <2>4
      <3>2. J[m + 1] = f[m + 1] /\ J[m] = f[m]
        BY <2>1, <2>4, <3>1
      <3> HIDE DEF J
      <3>3. QED
        BY <2>1, <2>2, <3>1, <3>2
    <2>5. QED
      BY <2>3, <2>4
  <1> HIDE DEF J
  <1>7. QED
    BY <1>5, <1>6

\* r lays the first m lists of ss end to end: its k-th element is the b[k]-th
\* of the list a[k], and it has every element of these lists once.
Lays(r, ss, m, a, b) ==
  /\ a \in [1..Len(r) -> 1..m] /\ b \in [1..Len(r) -> Nat \ {0}]
  /\ \A k \in 1..Len(r) : b[k] <= Len(ss[a[k]]) /\ r[k] = ss[a[k]][b[k]]
  /\ \A k, l \in 1..Len(r) : k < l => (a[k] < a[l] \/ (a[k] = a[l] /\ b[k] < b[l]))
  /\ \A i \in 1..m : \A j \in 1..Len(ss[i]) : \E k \in 1..Len(r) : a[k] = i /\ b[k] = j

\* One list more.
LEMMA LaysOneMore ==
  ASSUME NEW S, NEW r \in Seq(S), NEW ss, NEW m \in Nat, NEW a, NEW b, Lays(r, ss, m, a, b),
         ss[m + 1] \in Seq(S)
  PROVE  \E c, d : Lays(r \o ss[m + 1], ss, m + 1, c, d)
  <1> DEFINE t == ss[m + 1]
             u == r \o t
             c == [k \in 1..(Len(r) + Len(t)) |-> IF k <= Len(r) THEN a[k] ELSE m + 1]
             d == [k \in 1..(Len(r) + Len(t)) |-> IF k <= Len(r) THEN b[k] ELSE k - Len(r)]
  <1>1. /\ u \in Seq(S) /\ Len(u) = Len(r) + Len(t) /\ Len(r) \in Nat /\ Len(t) \in Nat
        /\ \A k \in 1..Len(r) : u[k] = r[k]
        /\ \A k \in (Len(r) + 1)..(Len(r) + Len(t)) : u[k] = t[k - Len(r)]
    <2>1. t \in Seq(S)
      OBVIOUS
    <2> HIDE DEF t
    <2>2. QED
      BY <2>1
  <1>2. /\ a \in [1..Len(r) -> 1..m] /\ b \in [1..Len(r) -> Nat \ {0}]
        /\ \A k \in 1..Len(r) : b[k] <= Len(ss[a[k]]) /\ r[k] = ss[a[k]][b[k]]
        /\ \A k, l \in 1..Len(r) : k < l => (a[k] < a[l] \/ (a[k] = a[l] /\ b[k] < b[l]))
        /\ \A i \in 1..m : \A j \in 1..Len(ss[i]) : \E k \in 1..Len(r) : a[k] = i /\ b[k] = j
    BY DEF Lays
  <1> HIDE DEF t, u
  <1>3. /\ \A k \in 1..Len(r) : /\ k \in 1..Len(u) /\ c[k] = a[k] /\ d[k] = b[k]
                                /\ a[k] \in 1..m /\ b[k] \in Nat \ {0}
        /\ \A k \in (Len(r) + 1)..Len(u) : /\ k \in 1..Len(u) /\ c[k] = m + 1
                                           /\ d[k] = k - Len(r) /\ d[k] \in 1..Len(t)
        /\ \A k \in 1..Len(u) : k \in 1..Len(r) \/ k \in (Len(r) + 1)..Len(u)
    <2>1. ASSUME NEW k \in 1..Len(r)
          PROVE  /\ k \in 1..Len(u) /\ c[k] = a[k] /\ d[k] = b[k]
                 /\ a[k] \in 1..m /\ b[k] \in Nat \ {0}
      <3>1. k \in 1..(Len(r) + Len(t)) /\ k <= Len(r)
        BY <1>1
      <3>2. QED
        BY <3>1, <1>1, <1>2
    <2>2. ASSUME NEW k \in (Len(r) + 1)..Len(u)
          PROVE  k \in 1..Len(u) /\ c[k] = m + 1 /\ d[k] = k - Len(r) /\ d[k] \in 1..Len(t)
      <3>1. k \in 1..(Len(r) + Len(t)) /\ ~(k <= Len(r))
        BY <1>1
      <3>2. c[k] = m + 1 /\ d[k] = k - Len(r)
        BY <3>1
      <3> HIDE DEF c, d
      <3>3. QED
        BY <3>1, <3>2, <1>1
    <2> HIDE DEF c, d
    <2>3. \A k \in 1..Len(u) : k \in 1..Len(r) \/ k \in (Len(r) + 1)..Len(u)
      BY <1>1
    <2>4. QED
      BY <2>1, <2>2, <2>3
  <1>4. DOMAIN c = 1..Len(u) /\ DOMAIN d = 1..Len(u)
    BY <1>1
  <1>5. c = [k \in 1..Len(u) |-> c[k]] /\ d = [k \in 1..Len(u) |-> d[k]]
    BY <1>1
  <1>6. t = ss[m + 1]
    BY DEF t
  <1> HIDE DEF c, d, t, u
  <1>7. c \in [1..Len(u) -> 1..(m + 1)] /\ d \in [1..Len(u) -> Nat \ {0}]
    <2>1. ASSUME NEW k \in 1..Len(u) PROVE c[k] \in 1..(m + 1) /\ d[k] \in Nat \ {0}
      <3>1. CASE k \in 1..Len(r)
        BY <3>1, <1>3
      <3>2. CASE k \in (Len(r) + 1)..Len(u)
        BY <3>2, <1>1, <1>3
      <3>3. QED
        BY <1>3, <3>1, <3>2
    <2>2. QED
      BY <2>1, <1>5
  <1>8. ASSUME NEW k \in 1..Len(u) PROVE d[k] <= Len(ss[c[k]]) /\ u[k] = ss[c[k]][d[k]]
    <2>1. CASE k \in 1..Len(r)
      BY <2>1, <1>1, <1>2, <1>3
    <2>2. CASE k \in (Len(r) + 1)..Len(u)
      BY <2>2, <1>1, <1>3, <1>6, SMTT(30)
    <2>3. QED
      BY <1>3, <2>1, <2>2
  <1>9. ASSUME NEW k \in 1..Len(u), NEW l \in 1..Len(u), k < l
        PROVE  c[k] < c[l] \/ (c[k] = c[l] /\ d[k] < d[l])
    <2>1. CASE k \in 1..Len(r) /\ l \in 1..Len(r)
      <3>1. c[k] = a[k] /\ d[k] = b[k] /\ c[l] = a[l] /\ d[l] = b[l]
        BY <2>1, <1>3
      <3>2. QED
        BY <2>1, <3>1, <1>2, <1>9
    <2>2. CASE k \in 1..Len(r) /\ l \in (Len(r) + 1)..Len(u)
      <3>1. c[k] \in 1..m /\ c[l] = m + 1
        BY <2>2, <1>3
      <3>2. QED
        BY <3>1
    <2>3. CASE k \in (Len(r) + 1)..Len(u)
      <3>1. l \in (Len(r) + 1)..Len(u)
        BY <2>3, <1>1, <1>9
      <3>2. c[k] = m + 1 /\ c[l] = m + 1 /\ d[k] = k - Len(r) /\ d[l] = l - Len(r)
        BY <2>3, <3>1, <1>3
      <3>3. QED
        BY <3>2, <1>1, <1>9
    <2>4. QED
      BY <2>1, <2>2, <2>3, <1>3
  <1>10. ASSUME NEW i \in 1..(m + 1), NEW j \in 1..Len(ss[i])
         PROVE  \E k \in 1..Len(u) : c[k] = i /\ d[k] = j
    <2>1. CASE i \in 1..m
      <3>1. PICK k \in 1..Len(r) : a[k] = i /\ b[k] = j
        BY <2>1, <1>2
      <3>2. k \in 1..Len(u)
        BY <1>1
      <3>3. c[k] = i /\ d[k] = j
        BY <3>1, <3>2, <1>1, <1>3
      <3>4. QED
        BY <3>2, <3>3
    <2>2. CASE i = m + 1
      <3>1. j \in 1..Len(t)
        BY <2>2, <1>6
      <3>2. Len(r) + j \in 1..Len(u) /\ Len(r) + j \in (Len(r) + 1)..Len(u) /\ (Len(r) + j) - Len(r) = j
        BY <3>1, <1>1
      <3>3. c[Len(r) + j] = i /\ d[Len(r) + j] = j
        BY <2>2, <3>2, <1>3
      <3>4. QED
        BY <3>2, <3>3
    <2>3. QED
      BY <2>1, <2>2
  <1>11. Lays(u, ss, m + 1, c, d)
    BY <1>7, <1>8, <1>9, <1>10 DEF Lays
  <1>12. QED
    BY <1>11 DEF u, t

\* The joined list lays all lists end to end.
LEMMA FlattenLays ==
  ASSUME NEW S, NEW ss \in Seq(Seq(S))
  PROVE  FlattenSeq(ss) \in Seq(S) /\ \E a, b : Lays(FlattenSeq(ss), ss, Len(ss), a, b)
  <1>1. PICK J : /\ J[0] = <<>> /\ FlattenSeq(ss) = J[Len(ss)]
                 /\ \A m \in Nat : m < Len(ss) => J[m + 1] = J[m] \o ss[m + 1]
    BY FlattenRounds
  <1>2. Len(ss) \in Nat /\ \A i \in 1..Len(ss) : ss[i] \in Seq(S)
    OBVIOUS
  <1> DEFINE Q(m) == J[m] \in Seq(S) /\ \E a, b : Lays(J[m], ss, m, a, b)
             P == {m \in Nat : m <= Len(ss) => Q(m)}
  <1>3. Q(0)
    <2>1. Lays(<<>>, ss, 0, <<>>, <<>>)
      <3>1. Len(<<>>) = 0 /\ 1..0 = {}
        OBVIOUS
      <3>2. QED
        BY <3>1 DEF Lays
    <2>2. <<>> \in Seq(S)
      OBVIOUS
    <2>3. QED
      BY <1>1, <2>1, <2>2
  <1>4. ASSUME NEW m \in Nat, m < Len(ss), Q(m) PROVE Q(m + 1)
    <2>1. J[m + 1] = J[m] \o ss[m + 1] /\ ss[m + 1] \in Seq(S)
      <3> HIDE DEF Q
      <3>1. m + 1 \in 1..Len(ss)
        BY <1>2, <1>4
      <3>2. QED
        BY <1>1, <1>2, <1>4, <3>1
    <2>2. PICK a, b : Lays(J[m], ss, m, a, b)
      BY <1>4
    <2>3. \E c, d : Lays(J[m] \o ss[m + 1], ss, m + 1, c, d)
      BY <1>4, <2>1, <2>2, LaysOneMore
    <2>4. J[m] \o ss[m + 1] \in Seq(S)
      BY <1>4, <2>1
    <2>5. QED
      BY <2>1, <2>3, <2>4
  <1> HIDE DEF Q
  <1>5. Nat \subseteq P
    <2>1. 0 \in P
      BY <1>3
    <2>2. ASSUME NEW m \in Nat, m \in P PROVE m + 1 \in P
      <3>1. ASSUME m + 1 <= Len(ss) PROVE Q(m + 1)
        <4>1. m < Len(ss) /\ m <= Len(ss)
          BY <1>2, <3>1
        <4>2. QED
          BY <4>1, <2>2, <1>4
      <3>2. QED
        BY <3>1
    <2> HIDE DEF P
    <2>3. QED
      BY <2>1, <2>2, SetInduction
  <1>6. Q(Len(ss))
    BY <1>2, <1>5
  <1>7. QED
    BY <1>1, <1>6 DEF Q

\* Joined lists have the elements of all lists.
LEMMA FlattenElements ==
  ASSUME NEW S, NEW ss \in Seq(Seq(S))
  PROVE  ToSet(FlattenSeq(ss)) = UNION {ToSet(ss[i]) : i \in 1..Len(ss)}
  <1> DEFINE r == FlattenSeq(ss)
  <1>1. r \in Seq(S) /\ \E a, b : Lays(r, ss, Len(ss), a, b)
    BY FlattenLays
  <1>2. PICK a, b : Lays(r, ss, Len(ss), a, b)
    BY <1>1
  <1>3. DOMAIN r = 1..Len(r) /\ \A i \in 1..Len(ss) : Len(ss[i]) \in Nat /\ DOMAIN ss[i] = 1..Len(ss[i])
    BY <1>1
  <1> HIDE DEF r
  <1>4. ASSUME NEW k \in 1..Len(r) PROVE r[k] \in UNION {ToSet(ss[i]) : i \in 1..Len(ss)}
    <2>1. a[k] \in 1..Len(ss) /\ b[k] \in 1..Len(ss[a[k]]) /\ r[k] = ss[a[k]][b[k]]
      BY <1>2, <1>3 DEF Lays
    <2>2. r[k] \in ToSet(ss[a[k]])
      BY <1>3, <2>1 DEF ToSet
    <2>3. QED
      BY <2>1, <2>2
  <1>5. ASSUME NEW i \in 1..Len(ss), NEW j \in 1..Len(ss[i]) PROVE ss[i][j] \in ToSet(r)
    <2>1. PICK k \in 1..Len(r) : a[k] = i /\ b[k] = j
      BY <1>2 DEF Lays
    <2>2. r[k] = ss[i][j]
      BY <1>2, <2>1 DEF Lays
    <2>3. QED
      BY <1>3, <2>2 DEF ToSet
  <1>6. ToSet(r) \subseteq UNION {ToSet(ss[i]) : i \in 1..Len(ss)}
    BY <1>3, <1>4 DEF ToSet
  <1>7. \A i \in 1..Len(ss) : ToSet(ss[i]) \subseteq ToSet(r)
    <2> TAKE i \in 1..Len(ss)
    <2>1. ToSet(ss[i]) = {ss[i][j] : j \in 1..Len(ss[i])}
      BY <1>3 DEF ToSet
    <2>2. QED
      BY <2>1, <1>5
  <1>8. ToSet(r) = UNION {ToSet(ss[i]) : i \in 1..Len(ss)}
    BY <1>6, <1>7
  <1>9. QED
    BY <1>8 DEF r

---------------------------------------------------------------------------
\* Lists as such, joined, filtered and checked.

\* The position of a list as a set of numbers.
LEMMA ListDomain ==
  ASSUME NEW s, IsList(s)
  PROVE  /\ s \in Seq(ToSet(s)) /\ Len(s) \in Nat /\ DOMAIN s = 1..Len(s)
         /\ \A i \in 1..Len(s) : s[i] \in ToSet(s)
  BY DEF IsList

\* Whatever is a sequence is a list.
LEMMA SequenceIsList ==
  ASSUME NEW S, NEW s \in Seq(S)
  PROVE  IsList(s)
  <1>1. Len(s) \in Nat /\ DOMAIN s = 1..Len(s) /\ \A i \in 1..Len(s) : s[i] \in ToSet(s)
    BY DEF ToSet
  <1>2. QED
    BY <1>1 DEF IsList

\* A list of values given position by position.
LEMMA ListOfLen ==
  ASSUME NEW s, NEW m \in Nat, s = [i \in 1..m |-> s[i]]
  PROVE  IsList(s) /\ Len(s) = m /\ DOMAIN s = 1..m
  <1>1. DOMAIN s = 1..m
    OBVIOUS
  <1>2. \A i \in 1..m : s[i] \in ToSet(s)
    BY <1>1 DEF ToSet
  <1>3. s \in [1..m -> ToSet(s)]
    BY <1>2
  <1>4. s \in Seq(ToSet(s)) /\ Len(s) = m
    BY <1>3
  <1>5. QED
    BY <1>1, <1>4 DEF IsList

\* One list behind another.
LEMMA Joined ==
  ASSUME NEW S, NEW s \in Seq(S), NEW t \in Seq(S)
  PROVE  /\ s \o t \in Seq(S) /\ Len(s \o t) = Len(s) + Len(t)
         /\ \A i \in 1..Len(s) : (s \o t)[i] = s[i]
         /\ \A i \in 1..Len(t) : (s \o t)[Len(s) + i] = t[i]
  <1>1. s \o t \in Seq(S)
    OBVIOUS
  <1>2. Len(s \o t) = Len(s) + Len(t)
    OBVIOUS
  <1>3. \A i \in 1..Len(s) : (s \o t)[i] = s[i]
    OBVIOUS
  <1>4. \A i \in 1..Len(t) : (s \o t)[Len(s) + i] = t[i]
    OBVIOUS
  <1>5. QED
    BY <1>1, <1>2, <1>3, <1>4

\* The same for a list that has a name.
LEMMA BehindPrefix ==
  ASSUME NEW S, NEW P \in Seq(S), NEW c \in Seq(S), NEW r, r = P \o c
  PROVE  /\ r \in Seq(S) /\ Len(r) = Len(P) + Len(c)
         /\ \A i \in 1..Len(P) : r[i] = P[i]
         /\ \A i \in 1..Len(c) : r[Len(P) + i] = c[i]
  BY Joined

\* Where the lists are in the joined one: each begins behind the one before it,
\* and there is nothing else.
LEMMA FlattenPlaces ==
  ASSUME NEW S, NEW ss \in Seq(Seq(S)), NEW off, off[1] = 0,
         \A m \in 1..Len(ss) : off[m] \in Nat /\ off[m + 1] = off[m] + Len(ss[m])
  PROVE  /\ FlattenSeq(ss) \in Seq(S) /\ Len(FlattenSeq(ss)) = off[Len(ss) + 1]
         /\ \A i \in 1..Len(ss) : \A k \in 1..Len(ss[i]) :
              off[i] + k \in 1..Len(FlattenSeq(ss)) /\ FlattenSeq(ss)[off[i] + k] = ss[i][k]
         /\ \A p \in 1..Len(FlattenSeq(ss)) : \E i \in 1..Len(ss) : p - off[i] \in 1..Len(ss[i])
  <1>1. PICK J : /\ J[0] = <<>> /\ FlattenSeq(ss) = J[Len(ss)]
                 /\ \A m \in Nat : m < Len(ss) => J[m + 1] = J[m] \o ss[m + 1]
    BY FlattenRounds
  <1>2. Len(ss) \in Nat /\ \A i \in 1..Len(ss) : ss[i] \in Seq(S)
    OBVIOUS
  <1> DEFINE Holds(m) == /\ J[m] \in Seq(S) /\ Len(J[m]) = off[m + 1]
                         /\ \A i \in 1..m : \A k \in 1..Len(ss[i]) :
                              off[i] + k \in 1..Len(J[m]) /\ J[m][off[i] + k] = ss[i][k]
                         /\ \A p \in 1..Len(J[m]) : \E i \in 1..m : p - off[i] \in 1..Len(ss[i])
             P == {m \in Nat : m <= Len(ss) => Holds(m)}
  <1>3. 0 \in P
    <2>1. J[0] \in Seq(S) /\ Len(J[0]) = 0 /\ 1..0 = {}
      BY <1>1
    <2>2. Holds(0)
      BY <2>1
    <2> HIDE DEF Holds
    <2>3. QED
      BY <2>2
  <1>4. ASSUME NEW m \in Nat, m \in P PROVE m + 1 \in P
    <2> SUFFICES ASSUME m + 1 <= Len(ss) PROVE Holds(m + 1)
      <3> HIDE DEF Holds
      <3>1. QED
        OBVIOUS
    <2>1. Holds(m) /\ m < Len(ss) /\ m + 1 \in 1..Len(ss)
      <3> HIDE DEF Holds
      <3>1. QED
        BY <1>2, <1>4
    <2> DEFINE r == J[m]  c == ss[m + 1]  out == J[m + 1]
    <2>2. r \in Seq(S) /\ c \in Seq(S) /\ out = r \o c
      BY <1>1, <1>2, <2>1
    <2>3. Len(r) = off[m + 1] /\ off[m + 1] \in Nat /\ off[(m + 1) + 1] = off[m + 1] + Len(c)
      BY <2>1
    <2>4. \A i \in 1..m : \A k \in 1..Len(ss[i]) : off[i] + k \in 1..Len(r) /\ r[off[i] + k] = ss[i][k]
      BY <2>1
    <2> HIDE DEF r, c, out
    <2>5. /\ out \in Seq(S) /\ Len(out) = Len(r) + Len(c) /\ Len(c) \in Nat /\ Len(r) \in Nat
          /\ \A k \in 1..Len(r) : out[k] = r[k]
          /\ \A k \in 1..Len(c) : out[Len(r) + k] = c[k]
      BY <2>2, BehindPrefix
    <2>6. ASSUME NEW i \in 1..(m + 1), NEW k \in 1..Len(ss[i])
          PROVE  off[i] + k \in 1..Len(out) /\ out[off[i] + k] = ss[i][k]
      <3>1. CASE i \in 1..m
        <4>1. off[i] + k \in 1..Len(r) /\ r[off[i] + k] = ss[i][k]
          BY <2>4, <3>1
        <4>2. QED
          BY <2>5, <4>1, SMTT(30)
      <3>2. CASE i = m + 1
        <4>1. k \in 1..Len(c) /\ ss[i][k] = c[k]
          BY <3>2 DEF c
        <4>2. off[i] = Len(r)
          BY <2>3, <3>2
        <4>3. Len(r) + k \in 1..Len(out)
          BY <2>5, <4>1
        <4>4. out[Len(r) + k] = ss[i][k]
          BY <2>5, <4>1
        <4>5. QED
          BY <4>2, <4>3, <4>4
      <3>3. QED
        BY <3>1, <3>2
    <2>7. ASSUME NEW p \in 1..Len(out) PROVE \E i \in 1..(m + 1) : p - off[i] \in 1..Len(ss[i])
      <3>1. CASE p \in 1..Len(r)
        <4>1. PICK i \in 1..m : p - off[i] \in 1..Len(ss[i])
          BY <2>1, <3>1 DEF r
        <4>2. i \in 1..(m + 1)
          OBVIOUS
        <4>3. QED
          BY <4>1, <4>2
      <3>2. CASE p \notin 1..Len(r)
        <4>1. p - off[m + 1] \in 1..Len(c)
          BY <2>3, <2>5, <3>2
        <4>2. m + 1 \in 1..(m + 1)
          OBVIOUS
        <4>3. QED
          BY <4>1, <4>2 DEF c
      <3>3. QED
        BY <3>1, <3>2
    <2>8. QED
      BY <2>3, <2>5, <2>6, <2>7 DEF out
  <1> HIDE DEF Holds
  <1>5. Nat \subseteq P
    <2> HIDE DEF P
    <2>1. QED
      BY <1>3, <1>4, SetInduction
  <1>6. Holds(Len(ss))
    BY <1>2, <1>5
  <1>7. QED
    BY <1>1, <1>6 DEF Holds

\* A list without its last element.
LEMMA WithoutLast ==
  ASSUME NEW S, NEW s \in Seq(S), Len(s) > 1
  PROVE  /\ Front(s) \in Seq(S) /\ Len(Front(s)) = Len(s) - 1
         /\ \A p \in 1..(Len(s) - 1) : Front(s)[p] = s[p]
  BY DEF Front

\* A line in front of a list.
LEMMA OneBefore ==
  ASSUME NEW S, NEW y, NEW s \in Seq(S), y \in S
  PROVE  LET r == <<y>> \o s IN
         r \in Seq(S) /\ Len(r) = 1 + Len(s) /\ r[1] = y /\ \A i \in 1..Len(s) : r[1 + i] = s[i]
  <1> DEFINE t == <<y>>
  <1>1. t \in Seq(S) /\ Len(t) = 1 /\ t[1] = y
    OBVIOUS
  <1> HIDE DEF t
  <1>2. /\ t \o s \in Seq(S) /\ Len(t \o s) = Len(t) + Len(s)
        /\ \A i \in 1..Len(t) : (t \o s)[i] = t[i]
        /\ \A i \in 1..Len(s) : (t \o s)[Len(t) + i] = s[i]
    BY <1>1, Joined, SMTT(30)
  <1>3. (t \o s)[1] = y
    BY <1>1, <1>2
  <1>4. QED
    BY <1>1, <1>2, <1>3 DEF t

\* A list of one element.
LEMMA SingleElement ==
  ASSUME NEW x
  PROVE  DOMAIN <<x>> = {1} /\ <<x>>[1] = x
  OBVIOUS

\* The elements of both.
LEMMA JoinedElements ==
  ASSUME NEW s, NEW t, IsList(s), IsList(t), NEW x \in ToSet(s \o t)
  PROVE  x \in ToSet(s) \cup ToSet(t)
  <1> DEFINE S == ToSet(s) \cup ToSet(t)  r == s \o t
  <1>1. s \in Seq(S) /\ t \in Seq(S)
    <2>1. s \in Seq(ToSet(s)) /\ t \in Seq(ToSet(t))
      BY DEF IsList
    <2>2. QED
      BY <2>1
  <1> HIDE DEF S
  <1>2. r \in Seq(S)
    BY <1>1, Joined
  <1>3. ToSet(r) \subseteq S
    BY <1>2 DEF ToSet
  <1>4. QED
    BY <1>3 DEF S

\* One element more.
LEMMA OneMore ==
  ASSUME NEW s, IsList(s), NEW x
  PROVE  /\ IsList(Append(s, x)) /\ Len(Append(s, x)) = Len(s) + 1 /\ Len(s) \in Nat
         /\ DOMAIN s = 1..Len(s) /\ DOMAIN Append(s, x) = 1..(Len(s) + 1)
         /\ Append(s, x)[Len(s) + 1] = x
         /\ \A i \in 1..Len(s) : Append(s, x)[i] = s[i]
         /\ ToSet(Append(s, x)) = ToSet(s) \cup {x}
  <1> DEFINE S == ToSet(s) \cup {x}
             r == Append(s, x)
  <1>1. s \in Seq(S) /\ x \in S
    BY DEF IsList
  <1> HIDE DEF S
  <1>2. /\ r \in Seq(S) /\ Len(r) = Len(s) + 1 /\ Len(s) \in Nat
        /\ DOMAIN s = 1..Len(s) /\ DOMAIN r = 1..(Len(s) + 1)
        /\ r[Len(s) + 1] = x /\ \A i \in 1..Len(s) : r[i] = s[i]
    BY <1>1
  <1> HIDE DEF r
  <1>3. IsList(r)
    <2>1. r = [i \in 1..(Len(s) + 1) |-> r[i]] /\ Len(s) + 1 \in Nat
      BY <1>2
    <2>2. QED
      BY <2>1, ListOfLen
  <1>4. ToSet(r) = ToSet(s) \cup {x}
    <2>1. ASSUME NEW i \in DOMAIN r PROVE r[i] \in ToSet(s) \cup {x}
      <3>1. CASE i = Len(s) + 1
        BY <3>1, <1>2
      <3>2. CASE i \in 1..Len(s)
        BY <3>2, <1>2 DEF ToSet
      <3>3. QED
        BY <3>1, <3>2, <1>2
    <2>2. ASSUME NEW i \in DOMAIN s PROVE s[i] \in ToSet(r)
      <3>1. i \in DOMAIN r /\ r[i] = s[i]
        BY <1>2
      <3>2. QED
        BY <3>1 DEF ToSet
    <2>3. x \in ToSet(r)
      <3>1. Len(s) + 1 \in DOMAIN r
        BY <1>2
      <3>2. QED
        BY <3>1, <1>2 DEF ToSet
    <2>4. QED
      BY <2>1, <2>2, <2>3 DEF ToSet
  <1>5. QED
    BY <1>2, <1>3, <1>4 DEF r

\* The elements of r come from different positions of s, in order.
InOrderOf(r, s) == \A i, j \in 1..Len(r) : \E a, b \in 1..Len(s) :
  r[i] = s[a] /\ r[j] = s[b] /\ (i < j => a < b) /\ (a = b => i = j)

\* A filter takes elements of different positions, in order.
LEMMA OnlyDiffers ==
  ASSUME NEW s, IsList(s), NEW T, NEW r, r = Only(s, T)
  PROVE  InOrderOf(r, s)
  <1> DEFINE K == {q \in 1..Len(s) : s[q] \in T}  S == ToSet(s)
  <1>0. s \in Seq(S)
    BY DEF IsList
  <1> SUFFICES ASSUME NEW i \in 1..Len(r), NEW j \in 1..Len(r)
               PROVE  \E a, b \in 1..Len(s) :
                        r[i] = s[a] /\ r[j] = s[b] /\ (i < j => a < b) /\ (a = b => i = j)
    BY DEF InOrderOf
  <1> HIDE DEF K, S
  <1>1. r \in Seq(S) /\ \E h : Takes(r, s, K, h)
    BY <1>0, OnlyTakes DEF K
  <1>2. PICK h : Takes(r, s, K, h)
    BY <1>1
  <1>3. Len(r) \in Nat /\ i \in 1..Len(r) /\ j \in 1..Len(r)
    BY <1>1
  <1>4. K \subseteq 1..Len(s) /\ Len(s) \in Nat
    BY <1>0 DEF K
  <1>5. h[i] \in K /\ h[j] \in K /\ r[i] = s[h[i]] /\ r[j] = s[h[j]] /\ (i < j => h[i] < h[j]) /\ (j < i => h[j] < h[i])
    BY <1>2, <1>3 DEF Takes
  <1>6. h[i] \in 1..Len(s) /\ h[j] \in 1..Len(s) /\ (h[i] = h[j] => i = j)
    <2>1. h[i] \in 1..Len(s) /\ h[j] \in 1..Len(s)
      BY <1>4, <1>5
    <2>2. h[i] \in Nat /\ h[j] \in Nat /\ i \in Nat /\ j \in Nat
      BY <1>3, <2>1
    <2>3. QED
      BY <1>5, <2>1, <2>2
  <1>7. QED
    BY <1>5, <1>6

\* A filter of a list is a list, of the elements that pass.
LEMMA OnlyIsList ==
  ASSUME NEW s, NEW T, IsList(s)
  PROVE  IsList(Only(s, T)) /\ ToSet(Only(s, T)) = ToSet(s) \cap T
  <1>1. Only(s, T) \in Seq(ToSet(s)) /\ ToSet(Only(s, T)) = ToSet(s) \cap T
    BY OnlyTakes DEF IsList
  <1> DEFINE o == Only(s, T)
  <1> HIDE DEF o
  <1>2. o \in Seq(ToSet(s)) /\ ToSet(o) = ToSet(s) \cap T
    BY <1>1 DEF o
  <1>3. Len(o) \in Nat /\ o = [i \in 1..Len(o) |-> o[i]]
    BY <1>2
  <1>4. IsList(o)
    BY <1>3, ListOfLen
  <1>5. QED
    BY <1>2, <1>4 DEF o

\* A sequence of codes has no fault if and only if its codes are Fine.
Clean(faults) == \A i \in 1..Len(faults) : faults[i] = Fine

\* The first fault is one of the codes, and Fine if and only if they all are.
LEMMA FirstFaultIsFault ==
  ASSUME NEW S, NEW faults \in Seq(S)
  PROVE  /\ FirstFault(faults) = Fine <=> Clean(faults)
         /\ FirstFault(faults) \in ToSet(faults) \cup {Fine}
  <1> DEFINE I == {i \in 1..Len(faults) : faults[i] # Fine}
  <1>1. FirstFault(faults) = IF (IF I # {} THEN Min(I) ELSE 0) = 0
                             THEN Fine ELSE faults[IF I # {} THEN Min(I) ELSE 0]
    BY DEF FirstFault, SelectInSeq
  <1>2. CASE I = {}
    <2>1. Clean(faults)
      BY <1>2 DEF Clean
    <2>2. FirstFault(faults) = Fine
      BY <1>1, <1>2
    <2>3. QED
      BY <2>1, <2>2
  <1>3. CASE I # {}
    <2>1. Min(I) \in I
      <3>1. I \subseteq Nat
        OBVIOUS
      <3> HIDE DEF I
      <3>2. QED
        BY <1>3, <3>1, MinIsLeast
    <2>2. Min(I) # 0 /\ Min(I) \in 1..Len(faults) /\ faults[Min(I)] # Fine
      BY <2>1
    <2> HIDE DEF I
    <2>3. FirstFault(faults) = faults[Min(I)]
      BY <1>1, <1>3, <2>2
    <2>4. ~Clean(faults)
      BY <2>2 DEF Clean
    <2>5. faults[Min(I)] \in ToSet(faults)
      BY <2>2 DEF ToSet
    <2>6. QED
      BY <2>2, <2>3, <2>4, <2>5
  <1>4. QED
    BY <1>2, <1>3

\* What holds of two lists of checks in a row holds of each.
LEMMA CleanParts ==
  ASSUME NEW S, NEW s \in Seq(S), NEW t \in Seq(S), Clean(s \o t)
  PROVE  Clean(s) /\ Clean(t)
  <1>1. /\ Len(s) \in Nat /\ Len(t) \in Nat /\ Len(s \o t) = Len(s) + Len(t)
        /\ \A i \in 1..Len(s) : (s \o t)[i] = s[i]
        /\ \A i \in 1..Len(t) : (s \o t)[Len(s) + i] = t[i]
    OBVIOUS
  <1>2. ASSUME NEW i \in 1..Len(s) PROVE s[i] = Fine
    <2>1. i \in 1..Len(s \o t)
      BY <1>1
    <2>2. QED
      BY <1>1, <2>1 DEF Clean
  <1>3. ASSUME NEW i \in 1..Len(t) PROVE t[i] = Fine
    <2>1. Len(s) + i \in 1..Len(s \o t)
      BY <1>1
    <2>2. QED
      BY <1>1, <2>1 DEF Clean
  <1>4. QED
    BY <1>2, <1>3 DEF Clean

\* Two rows of checks in one: the fault is one of theirs, and if there is none
\* all of them are passed.
LEMMA RowsOfChecks ==
  ASSUME NEW s, NEW t, IsList(s), IsList(t)
  PROVE  /\ FirstFault(s \o t) \in ToSet(s) \cup ToSet(t) \cup {Fine}
         /\ FirstFault(s \o t) = Fine => (\A i \in DOMAIN s : s[i] = Fine) /\ \A i \in DOMAIN t : t[i] = Fine
  <1> DEFINE S == ToSet(s) \cup ToSet(t)  r == s \o t
  <1>1. s \in Seq(S) /\ t \in Seq(S)
    <2>1. s \in Seq(ToSet(s)) /\ t \in Seq(ToSet(t))
      BY DEF IsList
    <2>2. QED
      BY <2>1
  <1>2. DOMAIN s = 1..Len(s) /\ DOMAIN t = 1..Len(t)
    BY ListDomain
  <1> HIDE DEF S
  <1>3. r \in Seq(S)
    BY <1>1, Joined
  <1>4. ToSet(r) \subseteq S
    BY <1>3 DEF ToSet
  <1>5. (FirstFault(r) = Fine <=> Clean(r)) /\ FirstFault(r) \in ToSet(r) \cup {Fine}
    BY <1>3, FirstFaultIsFault
  <1>6. Clean(r) => Clean(s) /\ Clean(t)
    BY <1>1, CleanParts
  <1>7. QED
    BY <1>2, <1>4, <1>5, <1>6 DEF S, Clean

\* The same for one row.
LEMMA RowOfChecks ==
  ASSUME NEW s, IsList(s)
  PROVE  /\ FirstFault(s) \in ToSet(s) \cup {Fine}
         /\ FirstFault(s) = Fine => \A i \in DOMAIN s : s[i] = Fine
  <1>1. DOMAIN s = 1..Len(s) /\ s \in Seq(ToSet(s))
    BY ListDomain
  <1>2. (FirstFault(s) = Fine <=> Clean(s)) /\ FirstFault(s) \in ToSet(s) \cup {Fine}
    BY <1>1, FirstFaultIsFault
  <1>3. QED
    BY <1>1, <1>2 DEF Clean
=============================================================================
