-------------------------- MODULE ElfWritersProofs --------------------------
(***************************************************************************)
(* That each of the three retired ELF writers patches what its properties  *)
(* say, for all programs, and that they agree on programs that put and fix *)
(* every label once.                                                       *)
(*                                                                         *)
(* The image of a program is a recursive function, and most of what is     *)
(* proved first is about it: byte q of what call k leaves is byte Place[k] *)
(* + q of the image, so that a patch of one placeholder turns the image    *)
(* for some fixes into the image for one fix more.  Done says for which    *)
(* fixes the buffer is the image while dump_to_file goes through its loop. *)
(***************************************************************************)
EXTENDS ElfWriters, SequenceTheorems, FiniteSetTheorems, WellFoundedInduction, TLAPS

-----------------------------------------------------------------------------
(* Induction and recursion on the natural numbers, in a form without an    *)
(* operator as parameter: from the fact that < on Nat is well-founded.     *)

Less == {p \in Nat \X Nat : p[1] < p[2]}

\* The natural numbers have no infinite descent.
LEMMA LessWellFounded == IsWellFoundedOn(Less, Nat)
  BY NatLessThanWellFounded DEF Less, OpToRel

\* A set of numbers that is not empty has a least one.
LEMMA Least ==
    ASSUME NEW S \in SUBSET Nat, S # {}
    PROVE  \E m \in S : \A n \in S : m <= n
  <1>1. PICK m \in S : \A n \in S : <<n, m>> \notin Less
    BY LessWellFounded, WFMin
  <1>2. \A n \in S : m <= n
    <2> TAKE n \in S
    <2>1. <<n, m>> \in Nat \X Nat /\ ~ (n < m)
      BY <1>1 DEF Less
    <2> QED
      BY <2>1
  <1> QED
    BY <1>2

\* And when none is above N it has a greatest one.
LEMMA Greatest ==
    ASSUME NEW N \in Nat, NEW S \in SUBSET (0 .. N), S # {}
    PROVE  \E m \in S : \A n \in S : n <= m
  <1> DEFINE T == {N - n : n \in S}
  <1>0. \A n \in S : n \in Nat /\ N - n \in Nat
    OBVIOUS
  <1>1. T \in SUBSET Nat /\ T # {}
    BY <1>0
  <1>2. PICK t \in T : \A u \in T : t <= u
    <2> HIDE DEF T
    <2> QED
      BY <1>1, Least
  <1>3. PICK m \in S : t = N - m
    BY <1>2
  <1>4. \A n \in S : n <= m
    <2> TAKE n \in S
    <2>1. N - n \in T
      OBVIOUS
    <2>2. N - m <= N - n
      BY <1>2, <1>3, <2>1
    <2> QED
      BY <1>0, <2>2
  <1> QED
    BY <1>4

\* A set with 0, and with n + 1 when it has n, has all natural numbers.
LEMMA Induction ==
    ASSUME NEW S, 0 \in S, \A n \in Nat : n \in S => n + 1 \in S
    PROVE  Nat \subseteq S
  <1> SUFFICES ASSUME Nat \ S # {} PROVE FALSE
    OBVIOUS
  <1>1. PICK m \in Nat \ S : \A n \in Nat \ S : m <= n
    BY Least
  <1>2. m - 1 \in Nat /\ m - 1 \in S /\ m - 1 + 1 = m
    BY <1>1
  <1> QED
    BY <1>1, <1>2

Steps(n, V) == [(1 .. n) \X V -> V]

Runs(f, n, V, base, step) ==
    f \in [0 .. n -> V] /\ f[0] = base /\ \A k \in 1 .. n : f[k] = step[<<k, f[k - 1]>>]

\* A first value and a step from each value to the next give a function.
LEMMA Recursion ==
    ASSUME NEW n \in Nat, NEW V, NEW base \in V, NEW step \in Steps(n, V)
    PROVE  \E f : Runs(f, n, V, base, step)
  <1> DEFINE UpTo(m) == \E f \in [0 .. m -> V] :
                           f[0] = base /\ \A k \in 1 .. m : f[k] = step[<<k, f[k - 1]>>]
             S == {m \in Nat : m <= n => UpTo(m)}
  <1>1. UpTo(0)
    <2> WITNESS [k \in 0 .. 0 |-> base] \in [0 .. 0 -> V]
    <2> QED
      OBVIOUS
  <1>2. ASSUME NEW m \in Nat, m + 1 <= n, UpTo(m) PROVE UpTo(m + 1)
    <2>1. PICK f \in [0 .. m -> V] :
             f[0] = base /\ \A k \in 1 .. m : f[k] = step[<<k, f[k - 1]>>]
      BY <1>2
    <2>0. \A k \in 1 .. n, v \in V : step[<<k, v>>] \in V
      BY DEF Steps
    <2> DEFINE last == step[<<m + 1, f[m]>>]
               g == [k \in 0 .. m + 1 |-> IF k = m + 1 THEN last ELSE f[k]]
    <2>2. last \in V
      BY <1>2, <2>0
    <2>3. g \in [0 .. m + 1 -> V] /\ \A k \in 0 .. m : g[k] = f[k] /\ g[m + 1] = last
      <3> HIDE DEF last
      <3> QED
        BY <2>2
    <2>4. \A k \in 1 .. m + 1 : g[k] = step[<<k, g[k - 1]>>]
      <3> TAKE k \in 1 .. m + 1
      <3>1. k - 1 \in 0 .. m /\ (k # m + 1 => k \in 0 .. m /\ k \in 1 .. m)
        OBVIOUS
      <3>2. CASE k = m + 1
        <4>1. g[k - 1] = f[m] /\ g[k] = last
          BY <2>3, <3>2
        <4> QED
          BY <3>2, <4>1
      <3>3. CASE k # m + 1
        <4>1. g[k] = f[k] /\ g[k - 1] = f[k - 1]
          BY <2>3, <3>1, <3>3
        <4> QED
          BY <2>1, <3>1, <3>3, <4>1
      <3> QED
        BY <3>2, <3>3
    <2> HIDE DEF g
    <2> QED
      BY <2>1, <2>3, <2>4
  <1>3. 0 \in S
    BY <1>1
  <1>4. ASSUME NEW m \in Nat, m \in S PROVE m + 1 \in S
    <2> HIDE DEF UpTo
    <2>1. m + 1 <= n => UpTo(m + 1)
      BY <1>2, <1>4
    <2> QED
      BY <2>1
  <1> HIDE DEF S, UpTo
  <1>5. n \in S
    BY <1>3, <1>4, Induction
  <1> QED
    BY <1>5 DEF S, UpTo, Runs

-----------------------------------------------------------------------------
(* The first and the last of a set of calls.                               *)

\* The first of some calls is one of them, and none is before it.
LEMMA FirstOf ==
    ASSUME NEW S \in SUBSET Nat, S # {}
    PROVE  Earliest(S) \in S /\ \A n \in S : Earliest(S) <= n
  BY Least DEF Earliest

\* The call that none is before is the first.
LEMMA FirstIs ==
    ASSUME NEW S \in SUBSET Nat, NEW m \in S, \A n \in S : m <= n
    PROVE  Earliest(S) = m
  <1>1. Earliest(S) \in S /\ Earliest(S) <= m /\ m <= Earliest(S)
    BY FirstOf
  <1>2. Earliest(S) \in Nat /\ m \in Nat
    BY <1>1
  <1> QED
    BY <1>1, <1>2

\* The last of some calls is one of them, and none is behind it.
LEMMA LastOf ==
    ASSUME NEW N \in Nat, NEW S \in SUBSET (1 .. N), S # {}
    PROVE  Latest(S) \in S /\ \A n \in S : n <= Latest(S)
  <1>1. S \in SUBSET (0 .. N)
    OBVIOUS
  <1> QED
    BY <1>1, Greatest DEF Latest

\* The call that none is behind is the last.
LEMMA LastIs ==
    ASSUME NEW N \in Nat, NEW S \in SUBSET (1 .. N), NEW m \in S, \A n \in S : n <= m
    PROVE  Latest(S) = m
  <1>1. Latest(S) \in S /\ m <= Latest(S) /\ Latest(S) <= m
    BY LastOf
  <1>2. Latest(S) \in 1 .. N /\ m \in 1 .. N
    BY <1>1
  <1> QED
    BY <1>1, <1>2

-----------------------------------------------------------------------------
(* Bytes.                                                                  *)

\* A digit of a number, and what is left of it.
LEMMA ByteOf ==
    ASSUME NEW v \in Nat
    PROVE  v % 256 \in Byte /\ Shifted(v) \in Nat
  BY DEF Byte, Shifted

\* n bytes of a number are n bytes.
LEMMA LEType ==
    ASSUME NEW v \in Nat, NEW n \in Width
    PROVE  LE(v, n) \in Seq(Byte) /\ Len(LE(v, n)) = n
  <1> DEFINE v1 == Shifted(v)  v2 == Shifted(v1)  v3 == Shifted(v2)  v4 == Shifted(v3)
             v5 == Shifted(v4)  v6 == Shifted(v5)  v7 == Shifted(v6)
             digits == <<v % 256, v1 % 256, v2 % 256, v3 % 256,
                         v4 % 256, v5 % 256, v6 % 256, v7 % 256>>
  <1>1. /\ v1 \in Nat /\ v2 \in Nat /\ v3 \in Nat /\ v4 \in Nat
        /\ v5 \in Nat /\ v6 \in Nat /\ v7 \in Nat
    BY ByteOf
  <1>2. \A k \in 1 .. 8 : digits[k] \in Byte
    <2> HIDE DEF v1, v2, v3, v4, v5, v6, v7
    <2> QED
      BY <1>1, ByteOf
  <1> HIDE DEF digits
  <1>3. 1 \in Int /\ n \in Int /\ \A k \in 1 .. n : digits[k] \in Byte
    BY <1>2 DEF Width
  <1>4. SubSeq(digits, 1, n) \in Seq(Byte) /\ Len(SubSeq(digits, 1, n)) = IF 1 <= n THEN n - 1 + 1 ELSE 0
    BY <1>3, SubSeqProperties
  <1>5. (IF 1 <= n THEN n - 1 + 1 ELSE 0) = n
    BY DEF Width
  <1> QED
    BY <1>4, <1>5 DEF LE, digits

\* The provers see a concatenation as opaque.
Cat(a, b) == a \o b

\* Each byte of a concatenation is one of its parts.
LEMMA CatBytes ==
    ASSUME NEW a \in Seq(Byte), NEW b \in Seq(Byte)
    PROVE  /\ Cat(a, b) \in Seq(Byte)
           /\ Len(a) \in Nat /\ Len(b) \in Nat
           /\ Len(Cat(a, b)) = Len(a) + Len(b)
           /\ \A p \in 1 .. Len(a) : Cat(a, b)[p] = a[p]
           /\ \A q \in 1 .. Len(b) : Cat(a, b)[Len(a) + q] = b[q]
  <1>1. a \o b \in Seq(Byte) /\ Len(a \o b) = Len(a) + Len(b)
    BY ConcatProperties
  <1>2. Len(a) \in Nat /\ Len(b) \in Nat
    BY LenProperties
  <1>3. \A p \in 1 .. Len(a) + Len(b) : Cat(a, b)[p] = IF p <= Len(a) THEN a[p] ELSE b[p - Len(a)]
    BY ConcatProperties, Zenon DEF Cat
  <1>4. \A p \in 1 .. Len(a) : Cat(a, b)[p] = a[p]
    BY <1>2, <1>3
  <1>5. \A q \in 1 .. Len(b) : Cat(a, b)[Len(a) + q] = b[q]
    <2> TAKE q \in 1 .. Len(b)
    <2>1. Len(a) + q \in 1 .. Len(a) + Len(b) /\ ~ (Len(a) + q <= Len(a)) /\ Len(a) + q - Len(a) = q
      BY <1>2
    <2> QED
      BY <1>3, <2>1
  <1> QED
    BY <1>1, <1>2, <1>4, <1>5 DEF Cat

\* A placeholder is as many bytes as it is wide.
LEMMA PlaceholderType ==
    ASSUME NEW n \in Nat
    PROVE  Placeholder(n) \in Seq(Byte) /\ Len(Placeholder(n)) = n
  BY DEF Placeholder, Byte

-----------------------------------------------------------------------------
(* Programs, and where their calls find the end of the buffer.             *)

IsProgram(s) ==
    /\ Len(s) \in Nat
    /\ \A k \in 1 .. Len(s) :
          /\ Size(s[k]) \in Nat
          /\ s[k].op = "value" => s[k].bytes \in Seq(Byte)
          /\ s[k].op = "fix" => s[k].width \in Width /\ s[k].value \in Nat \cup {Here}

\* The places of the calls: 0, and from each to the next the size of the call.
LEMMA PlaceStep ==
    ASSUME NEW s, IsProgram(s)
    PROVE  /\ Place(s) \in [1 .. Len(s) + 1 -> Nat]
           /\ Place(s)[1] = 0
           /\ \A k \in 1 .. Len(s) : Place(s)[k + 1] = Place(s)[k] + Size(s[k])
  <1> DEFINE n == Len(s)
             step == [p \in (1 .. n) \X Nat |-> p[2] + Size(s[p[1]])]
             P(g) == g = [k \in 1 .. Len(s) + 1 |-> IF k = 1 THEN 0 ELSE g[k - 1] + Size(s[k - 1])]
  <1>1. n \in Nat /\ step \in [(1 .. n) \X Nat -> Nat]
    BY DEF IsProgram
  <1>2. PICK f \in [0 .. n -> Nat] : f[0] = 0 /\ \A k \in 1 .. n : f[k] = step[<<k, f[k - 1]>>]
    <2> DEFINE V == Nat  zero == 0
    <2>1. zero \in V /\ step \in Steps(n, V)
      BY <1>1 DEF Steps
    <2>2. \E f : Runs(f, n, V, zero, step)
      <3> HIDE DEF n, step, V, zero
      <3> QED
        BY <1>1, <2>1, Recursion
    <2> QED
      BY <2>2 DEF Runs
  <1>3. \A k \in 1 .. n : f[k] = f[k - 1] + Size(s[k])
    <2> TAKE k \in 1 .. n
    <2>1. f[k - 1] \in Nat
      BY <1>1
    <2>2. <<k, f[k - 1]>> \in (1 .. n) \X Nat
      BY <2>1
    <2> QED
      BY <1>2, <2>2
  <1> DEFINE g == [k \in 1 .. n + 1 |-> f[k - 1]]
  <1>4. \A k \in 1 .. n + 1 : g[k] = IF k = 1 THEN 0 ELSE g[k - 1] + Size(s[k - 1])
    <2> TAKE k \in 1 .. n + 1
    <2>1. CASE k = 1
      BY <1>1, <1>2, <2>1
    <2>2. CASE k # 1
      <3>1. k - 1 \in 1 .. n /\ k - 1 \in 1 .. n + 1
        BY <1>1, <2>2
      <3>2. g[k] = f[k - 1] /\ g[k - 1] = f[k - 1 - 1]
        BY <3>1
      <3> QED
        BY <1>3, <2>2, <3>1, <3>2
    <2> QED
      BY <2>1, <2>2
  <1>5. P(g)
    BY <1>4
  <1>6. P(Place(s))
    <2>1. Place(s) = CHOOSE h : P(h)
      BY DEF Place
    <2> HIDE DEF P, g
    <2> QED
      BY <1>5, <2>1
  <1> HIDE DEF g
  <1>7. Place(s)[1] = 0
    BY <1>1, <1>6
  <1>8. \A k \in 1 .. n : Place(s)[k + 1] = Place(s)[k] + Size(s[k])
    BY <1>1, <1>6
  <1>9. Place(s) \in [1 .. n + 1 -> Nat]
    <2> DEFINE S == {k \in Nat : k <= n => Place(s)[k + 1] \in Nat}
    <2>1. 0 \in S
      BY <1>7
    <2>2. ASSUME NEW k \in Nat, k \in S PROVE k + 1 \in S
      <3>1. k + 1 <= n => Place(s)[k + 2] = Place(s)[k + 1] + Size(s[k + 1])
        BY <1>1, <1>8
      <3>2. k + 1 <= n => Size(s[k + 1]) \in Nat
        BY <1>1 DEF IsProgram
      <3> QED
        BY <2>2, <3>1, <3>2, <1>1
    <2> HIDE DEF S
    <2>3. Nat \subseteq S
      BY <2>1, <2>2, Induction
    <2>4. \A k \in 1 .. n + 1 : Place(s)[k] \in Nat
      <3> TAKE k \in 1 .. n + 1
      <3>1. k - 1 \in S /\ k - 1 <= n /\ k - 1 + 1 = k
        BY <1>1, <2>3
      <3> QED
        BY <3>1 DEF S
    <2> QED
      BY <1>6, <2>4
  <1> QED
    BY <1>7, <1>8, <1>9

\* The same, for one call.
LEMMA PlaceAt ==
    ASSUME NEW s, IsProgram(s), NEW k \in 1 .. Len(s)
    PROVE  /\ Len(s) \in Nat /\ Size(s[k]) \in Nat
           /\ Place(s)[k] \in Nat /\ Place(s)[k + 1] \in Nat
           /\ Place(s)[k + 1] = Place(s)[k] + Size(s[k])
  <1>1. Len(s) \in Nat /\ Size(s[k]) \in Nat
    BY DEF IsProgram
  <1>2. k \in 1 .. Len(s) + 1 /\ k + 1 \in 1 .. Len(s) + 1
    BY <1>1
  <1> QED
    BY <1>1, <1>2, PlaceStep

\* A later call is not placed before an earlier one.
LEMMA PlacesGrow ==
    ASSUME NEW s, IsProgram(s), NEW a \in 1 .. Len(s) + 1, NEW b \in a .. Len(s) + 1
    PROVE  Place(s)[a] <= Place(s)[b]
  <1> DEFINE S == {d \in Nat : a + d <= Len(s) + 1 => Place(s)[a] <= Place(s)[a + d]}
  <1>0. Len(s) \in Nat /\ Place(s) \in [1 .. Len(s) + 1 -> Nat]
    BY PlaceStep DEF IsProgram
  <1>1. 0 \in S
    BY <1>0
  <1>2. ASSUME NEW d \in Nat, d \in S PROVE d + 1 \in S
    <2>1. SUFFICES ASSUME a + (d + 1) <= Len(s) + 1 PROVE Place(s)[a] <= Place(s)[a + (d + 1)]
      OBVIOUS
    <2>2. a + d \in 1 .. Len(s) /\ a + d + 1 = a + (d + 1) /\ a + d \in 1 .. Len(s) + 1
      BY <2>1, <1>0
    <2>3. Place(s)[a + d + 1] = Place(s)[a + d] + Size(s[a + d]) /\ Size(s[a + d]) \in Nat
      BY <2>2, PlaceStep DEF IsProgram
    <2>4. Place(s)[a] <= Place(s)[a + d] /\ Place(s)[a] \in Nat /\ Place(s)[a + d] \in Nat
      BY <1>2, <2>2, <1>0
    <2> QED
      BY <2>2, <2>3, <2>4
  <1> HIDE DEF S
  <1>3. b - a \in S
    BY <1>0, <1>1, <1>2, Induction
  <1> QED
    BY <1>0, <1>3 DEF S

\* Every byte is of one call.
LEMMA CallOfByte ==
    ASSUME NEW s, IsProgram(s), NEW n \in 0 .. Len(s), NEW p \in 1 .. Place(s)[n + 1]
    PROVE  \E k \in 1 .. n : \E q \in 1 .. Size(s[k]) : p = Place(s)[k] + q
  <1>0. Len(s) \in Nat /\ Place(s) \in [1 .. Len(s) + 1 -> Nat] /\ Place(s)[1] = 0
    BY PlaceStep DEF IsProgram
  <1> DEFINE S == {k \in 1 .. n + 1 : p <= Place(s)[k]}
  <1>1. S \in SUBSET Nat /\ n + 1 \in S
    BY <1>0
  <1>2. PICK m \in S : \A k \in S : m <= k
    <2> HIDE DEF S
    <2> QED
      BY <1>1, Least
  <1>3. m # 1 /\ m \in 1 .. n + 1 /\ p <= Place(s)[m]
    BY <1>0, <1>2
  <1>4. m - 1 \in 1 .. n /\ m - 1 \notin S
    BY <1>2, <1>3
  <1>5. Place(s)[m - 1] < p /\ Place(s)[m - 1] \in Nat
    BY <1>0, <1>4
  <1>6. Place(s)[m] = Place(s)[m - 1] + Size(s[m - 1]) /\ Size(s[m - 1]) \in Nat
    <2>1. m - 1 \in 1 .. Len(s) /\ m - 1 + 1 = m
      BY <1>4, <1>0
    <2> QED
      BY <2>1, PlaceStep DEF IsProgram
  <1>7. p - Place(s)[m - 1] \in 1 .. Size(s[m - 1]) /\ p = Place(s)[m - 1] + (p - Place(s)[m - 1])
    BY <1>3, <1>5, <1>6
  <1> QED
    BY <1>4, <1>7

-----------------------------------------------------------------------------
(* The image of a program, call by call.                                   *)

\* What call k leaves in the image when the placeholders hold what the calls F say.
Out(s, F, k) ==
    IF s[k].op = "value" THEN s[k].bytes
    ELSE IF k \in DOMAIN F THEN FixBytes(s, F[k])
    ELSE Placeholder(Size(s[k]))

\* F assigns to some of the placeholders of s a fix of the right width.
Fits(s, F) ==
    /\ DOMAIN F \subseteq Puts(s)
    /\ \A k \in DOMAIN F : F[k] \in Fixes(s) /\ s[F[k]].width = s[k].width

\* The image up to each call.
Images(s, F) ==
    CHOOSE image : image = [k \in 0 .. Len(s) |->
                              IF k = 0 THEN << >> ELSE Cat(image[k - 1], Out(s, F, k))]

\* The image is what the last call leaves.
LEMMA ImageIsLast == ASSUME NEW s, NEW F PROVE Image(s, F) = Images(s, F)[Len(s)]
  BY DEF Image, Images, Out, FixBytes, Cat

\* A fix is as many bytes as it is wide.
LEMMA FixBytesType ==
    ASSUME NEW s, IsProgram(s), NEW f \in Fixes(s)
    PROVE  FixBytes(s, f) \in Seq(Byte) /\ Len(FixBytes(s, f)) = s[f].width
  <1>1. f \in 1 .. Len(s) /\ s[f].width \in Width /\ s[f].value \in Nat \cup {Here} /\ Len(s) \in Nat
    BY DEF Fixes, IsProgram
  <1>2. Place(s)[f] \in Nat
    BY <1>1, PlaceAt
  <1>3. (IF s[f].value = Here THEN Place(s)[f] ELSE s[f].value) \in Nat
    BY <1>1, <1>2
  <1> QED
    BY <1>1, <1>3, LEType DEF FixBytes

\* Each call leaves as many bytes as it has room for.
LEMMA OutType ==
    ASSUME NEW s, IsProgram(s), NEW F, Fits(s, F), NEW k \in 1 .. Len(s)
    PROVE  Out(s, F, k) \in Seq(Byte) /\ Len(Out(s, F, k)) = Size(s[k])
  <1>1. CASE s[k].op = "value"
    BY <1>1 DEF Out, Size, IsProgram
  <1>2. CASE s[k].op # "value" /\ k \in DOMAIN F
    <2>1. F[k] \in Fixes(s) /\ s[F[k]].width = s[k].width /\ s[k].op = "reloc"
      BY <1>2 DEF Fits, Puts
    <2> QED
      BY <1>2, <2>1, FixBytesType DEF Out, Size
  <1>3. CASE s[k].op # "value" /\ k \notin DOMAIN F
    BY <1>3, PlaceholderType DEF Out, IsProgram
  <1> QED
    BY <1>1, <1>2, <1>3

\* The image up to each call, and one call more.
LEMMA ImagesStep ==
    ASSUME NEW s, IsProgram(s), NEW F, Fits(s, F)
    PROVE  /\ Images(s, F)[0] = << >>
           /\ \A k \in 0 .. Len(s) - 1 : Images(s, F)[k + 1] = Cat(Images(s, F)[k], Out(s, F, k + 1))
           /\ \A k \in 0 .. Len(s) : Images(s, F)[k] \in Seq(Byte)
  <1> DEFINE n == Len(s)
             V == Seq(Byte)
             zero == << >>
             step == [p \in (1 .. n) \X V |-> Cat(p[2], Out(s, F, p[1]))]
             P(g) == g = [k \in 0 .. Len(s) |-> IF k = 0 THEN << >> ELSE Cat(g[k - 1], Out(s, F, k))]
  <1>1. n \in Nat /\ zero \in V
    BY DEF IsProgram
  <1>2. \A k \in 1 .. n, v \in V : Cat(v, Out(s, F, k)) \in V
    BY OutType, CatBytes
  <1>3. step \in Steps(n, V)
    <2> HIDE DEF V
    <2> QED
      BY <1>2 DEF Steps
  <1>4. PICK f : Runs(f, n, V, zero, step)
    <2> HIDE DEF n, V, zero, step
    <2> QED
      BY <1>1, <1>3, Recursion
  <1> HIDE DEF V, zero
  <1>5. f = [k \in 0 .. n |-> f[k]] /\ f[0] = zero /\ \A k \in 0 .. n : f[k] \in V
    BY <1>1, <1>4 DEF Runs
  <1>6. \A k \in 1 .. n : f[k] = Cat(f[k - 1], Out(s, F, k))
    <2> TAKE k \in 1 .. n
    <2>1. f[k] = step[<<k, f[k - 1]>>]
      BY <1>4 DEF Runs
    <2>2. f[k - 1] \in V
      BY <1>1, <1>5
    <2>3. <<k, f[k - 1]>> \in (1 .. n) \X V
      BY <2>2
    <2> QED
      BY <2>1, <2>3
  <1>7. P(f)
    <2> DEFINE c(k) == Cat(f[k - 1], Out(s, F, k))
    <2>1. \A k \in 0 .. n : f[k] = IF k = 0 THEN << >> ELSE c(k)
      <3> TAKE k \in 0 .. n
      <3>1. CASE k = 0
        BY <1>5, <3>1 DEF zero
      <3>2. CASE k # 0
        <4>1. k \in 1 .. n
          BY <1>1, <3>2
        <4> QED
          BY <1>6, <3>2, <4>1
      <3> QED
        BY <3>1, <3>2
    <2>2. f = [k \in 0 .. n |-> IF k = 0 THEN << >> ELSE c(k)]
      <3> HIDE DEF c
      <3> QED
        BY <1>5, <2>1
    <2> QED
      BY <2>2
  <1>8. P(Images(s, F))
    <2>1. Images(s, F) = CHOOSE h : P(h)
      BY DEF Images
    <2> HIDE DEF P
    <2> QED
      BY <1>7, <2>1
  <1> DEFINE g == Images(s, F)
  <1>9. g[0] = zero /\ \A k \in 0 .. n - 1 : g[k + 1] = Cat(g[k], Out(s, F, k + 1))
    <2> HIDE DEF g
    <2>1. P(g)
      BY <1>8 DEF g
    <2>2. g[0] = zero
      BY <1>1, <2>1 DEF zero
    <2>3. ASSUME NEW k \in 0 .. n - 1 PROVE g[k + 1] = Cat(g[k], Out(s, F, k + 1))
      <3>1. k + 1 \in 0 .. Len(s) /\ k + 1 # 0 /\ k + 1 - 1 = k
        BY <1>1
      <3>2. g[k + 1] = Cat(g[k + 1 - 1], Out(s, F, k + 1))
        BY <2>1, <3>1
      <3> QED
        BY <3>1, <3>2
    <2> QED
      BY <2>2, <2>3
  <1>10. \A k \in 0 .. n : g[k] \in V
    <2> HIDE DEF g
    <2> DEFINE S == {k \in Nat : k <= n => g[k] \in V}
    <2>1. 0 \in S
      BY <1>1, <1>9
    <2>2. ASSUME NEW k \in Nat, k \in S PROVE k + 1 \in S
      <3>1. SUFFICES ASSUME k + 1 <= n PROVE g[k + 1] \in V
        OBVIOUS
      <3>2. k + 1 \in 1 .. n /\ k \in 0 .. n - 1 /\ g[k] \in V
        BY <1>1, <2>2, <3>1
      <3>3. g[k + 1] = Cat(g[k], Out(s, F, k + 1))
        BY <1>9, <3>2
      <3> QED
        BY <1>2, <3>2, <3>3
    <2> HIDE DEF S
    <2>3. Nat \subseteq S
      BY <2>1, <2>2, Induction
    <2> QED
      BY <1>1, <2>3 DEF S
  <1> QED
    BY <1>9, <1>10 DEF V, zero

\* The image up to a call is as long as the place of the next.
LEMMA ImagesLen ==
    ASSUME NEW s, IsProgram(s), NEW F, Fits(s, F), NEW m \in 0 .. Len(s)
    PROVE  Len(Images(s, F)[m]) = Place(s)[m + 1]
  <1> DEFINE S == {k \in Nat : k <= Len(s) => Len(Images(s, F)[k]) = Place(s)[k + 1]}
  <1>0. Len(s) \in Nat
    BY DEF IsProgram
  <1>1. 0 \in S
    <2>1. Images(s, F)[0] = << >> /\ Place(s)[1] = 0
      BY ImagesStep, PlaceStep
    <2> QED
      BY <2>1
  <1>2. ASSUME NEW k \in Nat, k \in S PROVE k + 1 \in S
    <2>1. SUFFICES ASSUME k + 1 <= Len(s) PROVE Len(Images(s, F)[k + 1]) = Place(s)[k + 1 + 1]
      OBVIOUS
    <2>2. k + 1 \in 1 .. Len(s) /\ k \in 0 .. Len(s) - 1 /\ k \in 0 .. Len(s)
      BY <1>0, <2>1
    <2>3. Images(s, F)[k + 1] = Cat(Images(s, F)[k], Out(s, F, k + 1))
      BY <2>2, ImagesStep
    <2>4. Images(s, F)[k] \in Seq(Byte) /\ Out(s, F, k + 1) \in Seq(Byte)
      BY <2>2, ImagesStep, OutType
    <2>5. Len(Images(s, F)[k + 1]) = Len(Images(s, F)[k]) + Len(Out(s, F, k + 1))
      BY <2>3, <2>4, CatBytes
    <2>6. Len(Out(s, F, k + 1)) = Size(s[k + 1])
      BY <2>2, OutType
    <2>7. Len(Images(s, F)[k]) = Place(s)[k + 1]
      BY <1>2, <2>2
    <2>8. Place(s)[k + 1 + 1] = Place(s)[k + 1] + Size(s[k + 1])
      BY <2>2, PlaceStep
    <2> QED
      BY <2>5, <2>6, <2>7, <2>8
  <1> HIDE DEF S
  <1>3. m \in S
    BY <1>0, <1>1, <1>2, Induction
  <1> QED
    BY <1>3 DEF S

\* Byte q of what call k left stays where it is.
LEMMA ImagesBytes ==
    ASSUME NEW s, IsProgram(s), NEW F, Fits(s, F), NEW k \in 1 .. Len(s), NEW q \in 1 .. Size(s[k]),
           NEW m \in k .. Len(s)
    PROVE  Images(s, F)[m][Place(s)[k] + q] = Out(s, F, k)[q]
  <1> DEFINE pos == Place(s)[k] + q
             S == {d \in Nat : k + d <= Len(s) => Images(s, F)[k + d][pos] = Out(s, F, k)[q]}
  <1>0. /\ Len(s) \in Nat /\ Size(s[k]) \in Nat /\ Place(s)[k] \in Nat
        /\ Place(s)[k + 1] = Place(s)[k] + Size(s[k])
    BY PlaceAt
  <1>1. pos \in 1 .. Place(s)[k + 1]
    BY <1>0
  <1>2. 0 \in S
    <2>1. k - 1 \in 0 .. Len(s) /\ k - 1 \in 0 .. Len(s) - 1 /\ k - 1 + 1 = k
      BY <1>0
    <2>2. Images(s, F)[k] = Cat(Images(s, F)[k - 1], Out(s, F, k))
      <3>1. Images(s, F)[k - 1 + 1] = Cat(Images(s, F)[k - 1], Out(s, F, k - 1 + 1))
        BY <2>1, ImagesStep
      <3> QED
        BY <2>1, <3>1
    <2>3. Images(s, F)[k - 1] \in Seq(Byte) /\ Len(Images(s, F)[k - 1]) = Place(s)[k]
      BY <2>1, ImagesStep, ImagesLen
    <2>4. Out(s, F, k) \in Seq(Byte) /\ Len(Out(s, F, k)) = Size(s[k])
      BY OutType
    <2>5. Images(s, F)[k][pos] = Out(s, F, k)[q]
      <3>1. q \in 1 .. Len(Out(s, F, k))
        BY <2>4
      <3>2. Cat(Images(s, F)[k - 1], Out(s, F, k))[Len(Images(s, F)[k - 1]) + q] = Out(s, F, k)[q]
        BY <2>3, <2>4, <3>1, CatBytes
      <3> QED
        BY <2>2, <2>3, <3>2
    <2> QED
      BY <2>5
  <1>3. ASSUME NEW d \in Nat, d \in S PROVE d + 1 \in S
    <2>1. SUFFICES ASSUME k + (d + 1) <= Len(s)
                   PROVE  Images(s, F)[k + (d + 1)][pos] = Out(s, F, k)[q]
      OBVIOUS
    <2> DEFINE b == k + d
    <2>2. b \in Nat /\ b + 1 = k + (d + 1) /\ b + 1 \in 1 .. Len(s) /\ b \in 0 .. Len(s) - 1 /\ b \in 0 .. Len(s)
          /\ k + 1 \in 1 .. Len(s) + 1 /\ b + 1 \in k + 1 .. Len(s) + 1
      BY <1>0, <2>1
    <2> HIDE DEF b
    <2>3. Images(s, F)[b + 1] = Cat(Images(s, F)[b], Out(s, F, b + 1))
      BY <2>2, ImagesStep
    <2>4. Images(s, F)[b] \in Seq(Byte) /\ Out(s, F, b + 1) \in Seq(Byte)
      BY <2>2, ImagesStep, OutType
    <2>5. Len(Images(s, F)[b]) = Place(s)[b + 1]
      BY <2>2, ImagesLen
    <2>6. Place(s)[k + 1] <= Place(s)[b + 1] /\ Place(s)[b + 1] \in Nat
      <3>1. Place(s)[b + 1] \in Nat
        BY <2>2, PlaceAt
      <3> QED
        BY <2>2, <3>1, PlacesGrow
    <2>7. pos \in 1 .. Len(Images(s, F)[b])
      <3>1. Place(s)[k + 1] \in Nat
        BY <1>0
      <3> HIDE DEF pos
      <3> QED
        BY <1>1, <2>5, <2>6, <3>1
    <2>8. Images(s, F)[b + 1][pos] = Images(s, F)[b][pos]
      <3> DEFINE a == Images(s, F)[b]
                 c == Out(s, F, b + 1)
      <3>1. \A p \in 1 .. Len(a) : Cat(a, c)[p] = a[p]
        <4> HIDE DEF a, c
        <4> QED
          BY <2>4, CatBytes DEF a, c
      <3> HIDE DEF pos
      <3> QED
        BY <2>3, <2>7, <3>1
    <2>9. Images(s, F)[b][pos] = Out(s, F, k)[q]
      BY <1>3, <2>2 DEF b
    <2> QED
      BY <2>2, <2>8, <2>9
  <1> HIDE DEF S
  <1>4. m - k \in Nat /\ k + (m - k) = m /\ m <= Len(s)
    BY <1>0
  <1>5. m - k \in S
    BY <1>2, <1>3, <1>4, Induction, Zenon
  <1>6. k + (m - k) <= Len(s) => Images(s, F)[k + (m - k)][pos] = Out(s, F, k)[q]
    BY <1>5, Zenon DEF S
  <1>7. Images(s, F)[k + (m - k)][pos] = Out(s, F, k)[q]
    BY <1>4, <1>6, Zenon
  <1> QED
    BY <1>4, <1>7, Zenon DEF pos

\* The image of s up to call n, and of all of s: the bytes of each call in its place.
LEMMA ImageBytes ==
    ASSUME NEW s, IsProgram(s), NEW F, Fits(s, F)
    PROVE  /\ Image(s, F) \in Seq(Byte)
           /\ Len(Image(s, F)) = Place(s)[Len(s) + 1]
           /\ \A k \in 1 .. Len(s) : \A q \in 1 .. Size(s[k]) :
                 Image(s, F)[Place(s)[k] + q] = Out(s, F, k)[q]
  <1>1. Len(s) \in Nat
    BY DEF IsProgram
  <1>2. Len(s) \in 0 .. Len(s) /\ \A k \in 1 .. Len(s) : Len(s) \in k .. Len(s)
    BY <1>1
  <1>3. Images(s, F)[Len(s)] \in Seq(Byte) /\ Len(Images(s, F)[Len(s)]) = Place(s)[Len(s) + 1]
    BY <1>2, ImagesStep, ImagesLen
  <1>4. \A k \in 1 .. Len(s) : \A q \in 1 .. Size(s[k]) :
           Images(s, F)[Len(s)][Place(s)[k] + q] = Out(s, F, k)[q]
    BY <1>2, ImagesBytes
  <1> QED
    BY <1>3, <1>4, ImageIsLast

\* A patch of the placeholder of call k with the fix f.
LEMMA PatchedImage ==
    ASSUME NEW s, IsProgram(s), NEW F, Fits(s, F), NEW G, Fits(s, G),
           NEW k \in Puts(s), NEW f \in Fixes(s), s[f].width = s[k].width,
           DOMAIN G = DOMAIN F \cup {k}, G[k] = f, \A m \in DOMAIN F \ {k} : G[m] = F[m]
    PROVE  Patched(Image(s, F), Place(s)[k], FixBytes(s, f)) = Image(s, G)
  <1> DEFINE before == Image(s, F)
             after == Image(s, G)
             x == FixBytes(s, f)
             patched == Patched(before, Place(s)[k], x)
             end == Place(s)[Len(s) + 1]
  <1>1. /\ k \in 1 .. Len(s) /\ s[k].op = "reloc" /\ Len(x) = Size(s[k]) /\ Len(s) \in Nat
        /\ Place(s)[k] \in Nat /\ Size(s[k]) \in Nat /\ end \in Nat
    <2>1. k \in 1 .. Len(s) /\ s[k].op = "reloc"
      BY DEF Puts
    <2>2. Len(x) = s[k].width /\ Size(s[k]) = s[k].width
      BY <2>1, FixBytesType DEF Size
    <2>3. Len(s) + 1 \in 1 .. Len(s) + 1
      BY <2>1, PlaceAt
    <2>4. end \in Nat
      BY <2>3, PlaceStep
    <2> QED
      BY <2>1, <2>2, <2>4, PlaceAt
  <1>2. /\ before \in Seq(Byte) /\ Len(before) = end
        /\ after \in Seq(Byte) /\ Len(after) = end
    BY ImageBytes
  <1>3. \A m \in 1 .. Len(s) : \A q \in 1 .. Size(s[m]) :
           before[Place(s)[m] + q] = Out(s, F, m)[q] /\ after[Place(s)[m] + q] = Out(s, G, m)[q]
    BY ImageBytes
  <1>4. \A p \in 1 .. end : patched[p] = after[p]
    <2> TAKE p \in 1 .. end
    <2>1. Len(s) \in 0 .. Len(s)
      BY <1>1
    <2>2. PICK m \in 1 .. Len(s) : \E q \in 1 .. Size(s[m]) : p = Place(s)[m] + q
      BY <2>1, CallOfByte
    <2>3. PICK q \in 1 .. Size(s[m]) : p = Place(s)[m] + q
      BY <2>2
    <2>4. Place(s)[m] \in Nat /\ Size(s[m]) \in Nat
      BY PlaceAt
    <2>5. patched[p] = IF p \in Place(s)[k] + 1 .. Place(s)[k] + Len(x)
                       THEN x[p - Place(s)[k]] ELSE before[p]
      BY <1>2 DEF Patched
    <2>6. CASE m = k
      <3>1. Out(s, G, m) = x
        BY <1>1, <2>6 DEF Out
      <3>2. p \in Place(s)[k] + 1 .. Place(s)[k] + Len(x) /\ p - Place(s)[k] = q
        BY <1>1, <2>3, <2>4, <2>6
      <3>3. patched[p] = x[q]
        BY <2>5, <3>2
      <3>4. after[p] = Out(s, G, m)[q]
        BY <1>3, <2>3
      <3> QED
        BY <3>1, <3>3, <3>4
    <2>7. CASE m # k
      <3>1. Out(s, G, m) = Out(s, F, m)
        BY <2>7 DEF Out
      <3>2. p \notin Place(s)[k] + 1 .. Place(s)[k] + Len(x)
        <4>1. CASE m < k
          <5>1. Place(s)[m + 1] <= Place(s)[k]
            <6>1. m + 1 \in 1 .. Len(s) + 1 /\ k \in m + 1 .. Len(s) + 1
              BY <1>1, <4>1
            <6> QED
              BY <6>1, PlacesGrow
          <5>2. Place(s)[m + 1] = Place(s)[m] + Size(s[m])
            BY PlaceAt
          <5>3. Place(s)[k] \in Nat /\ Place(s)[m + 1] \in Nat
            BY <1>1, PlaceAt
          <5>4. p <= Place(s)[m + 1]
            BY <2>3, <2>4, <5>2
          <5>5. p <= Place(s)[k]
            BY <2>3, <2>4, <5>1, <5>3, <5>4
          <5> QED
            BY <1>1, <5>5
        <4>2. CASE k < m
          <5>1. Place(s)[k + 1] <= Place(s)[m]
            <6>1. k + 1 \in 1 .. Len(s) + 1 /\ m \in k + 1 .. Len(s) + 1
              BY <1>1, <4>2
            <6> QED
              BY <6>1, PlacesGrow
          <5>2. Place(s)[k + 1] = Place(s)[k] + Size(s[k])
            BY <1>1, PlaceAt
          <5> QED
            BY <1>1, <2>3, <2>4, <5>1, <5>2
        <4> QED
          BY <1>1, <2>7, <4>1, <4>2
      <3>3. patched[p] = before[p]
        BY <2>5, <3>2
      <3>4. after[p] = Out(s, G, m)[q] /\ before[p] = Out(s, F, m)[q]
        BY <1>3, <2>3
      <3> QED
        BY <3>1, <3>3, <3>4
    <2> QED
      BY <2>6, <2>7
  <1>5. patched = [p \in 1 .. end |-> patched[p]]
    BY <1>2 DEF Patched
  <1>6. after = [p \in 1 .. end |-> after[p]]
    BY <1>2
  <1> HIDE DEF patched, after, end
  <1>7. patched = after
    BY <1>4, <1>5, <1>6
  <1> QED
    BY <1>7 DEF patched, after

\* The image depends on nothing else of F.
LEMMA SameImage ==
    ASSUME NEW s, NEW F, NEW G, DOMAIN F = DOMAIN G, \A k \in DOMAIN F : F[k] = G[k]
    PROVE  \A k : Out(s, F, k) = Out(s, G, k)
  BY DEF Out

-----------------------------------------------------------------------------
(* Lists of calls, in their order.                                         *)

Lists(f, n, S) ==
    /\ n \in Nat
    /\ f \in [1 .. n -> S]
    /\ \A a, b \in 1 .. n : a < b => f[a] < f[b]
    /\ \A m \in S : \E a \in 1 .. n : f[a] = m

\* The call at place a of the list; behind the list, a call behind all calls of the program.
Cut(s, f, n, a) == IF a <= n THEN f[a] ELSE Len(s) + 1

\* A list of no calls.
LEMMA ListsNone == Lists(<< >>, 0, {})
  BY DEF Lists

\* A list with one call more, behind all others.
LEMMA ListsMore ==
    ASSUME NEW S \in SUBSET Nat, NEW f, NEW n, Lists(f, n, S), NEW m \in Nat, \A k \in S : k < m
    PROVE  Lists([a \in 1 .. n + 1 |-> IF a = n + 1 THEN m ELSE f[a]], n + 1, S \cup {m})
  <1> DEFINE g == [a \in 1 .. n + 1 |-> IF a = n + 1 THEN m ELSE f[a]]
  <1>1. n \in Nat /\ n + 1 \in Nat
    BY DEF Lists
  <1>2. g[n + 1] = m /\ \A a \in 1 .. n : a \in 1 .. n + 1 /\ g[a] = f[a] /\ f[a] \in S
    BY <1>1 DEF Lists
  <1>3. g \in [1 .. n + 1 -> S \cup {m}]
    BY <1>1 DEF Lists
  <1>4. \A a, b \in 1 .. n + 1 : a < b => g[a] < g[b]
    <2> TAKE a, b \in 1 .. n + 1
    <2> HAVE a < b
    <2>1. a \in 1 .. n /\ (b = n + 1 \/ b \in 1 .. n)
      BY <1>1
    <2> HIDE DEF g
    <2> QED
      BY <1>2, <2>1 DEF Lists
  <1>5. \A k \in S \cup {m} : \E a \in 1 .. n + 1 : g[a] = k
    <2> TAKE k \in S \cup {m}
    <2>1. CASE k = m
      BY <1>1, <1>2, <2>1
    <2>2. CASE k # m
      <3>1. PICK a \in 1 .. n : f[a] = k
        BY <2>2 DEF Lists
      <3> QED
        BY <1>2, <3>1
    <2> QED
      BY <2>1, <2>2
  <1> HIDE DEF g
  <1>6. Lists(g, n + 1, S \cup {m})
    BY <1>1, <1>3, <1>4, <1>5 DEF Lists
  <1> QED
    BY <1>6 DEF g

\* A call is before the next one of the list when it is before this one, or is this one.
LEMMA NextCut ==
    ASSUME NEW s, Len(s) \in Nat, NEW S \in SUBSET (1 .. Len(s)), NEW f, NEW n, Lists(f, n, S),
           NEW a \in 1 .. n, NEW m \in S
    PROVE  /\ a + 1 \in 1 .. n + 1
           /\ Cut(s, f, n, a) = f[a] /\ f[a] \in S
           /\ m < Cut(s, f, n, a + 1) <=> m < f[a] \/ m = f[a]
           /\ Cut(s, f, n, a + 1) # f[a]
  <1>1. PICK b \in 1 .. n : f[b] = m
    BY DEF Lists
  <1>2. /\ n \in Nat /\ f[a] \in 1 .. Len(s) /\ f[b] \in 1 .. Len(s)
        /\ (a < b => f[a] < f[b]) /\ (b < a => f[b] < f[a])
        /\ f[a] \in S
    BY DEF Lists
  <1>3. CASE a = n
    <2>1. b < a \/ b = a
      BY <1>2, <1>3
    <2> QED
      BY <1>1, <1>2, <1>3, <2>1 DEF Cut
  <1>4. CASE a # n
    <2>1. a + 1 \in 1 .. n /\ f[a] < f[a + 1]
      BY <1>2, <1>4 DEF Lists
    <2>2. f[a + 1] \in 1 .. Len(s) /\ (a + 1 < b => f[a + 1] < f[b]) /\ (b < a + 1 => f[b] < f[a + 1])
      BY <1>2, <2>1 DEF Lists
    <2>3. b < a \/ b = a \/ b = a + 1 \/ a + 1 < b
      BY <1>2
    <2>4. Cut(s, f, n, a + 1) = f[a + 1] /\ Cut(s, f, n, a) = f[a]
      BY <1>2, <2>1 DEF Cut
    <2> QED
      BY <1>1, <1>2, <2>1, <2>2, <2>3, <2>4
  <1> QED
    BY <1>3, <1>4

\* No call of the list is before its first.
LEMMA FirstCut ==
    ASSUME NEW s, Len(s) \in Nat, NEW S \in SUBSET (1 .. Len(s)), NEW f, NEW n, Lists(f, n, S),
           NEW m \in S
    PROVE  ~ (m < Cut(s, f, n, 1))
  <1>1. PICK b \in 1 .. n : f[b] = m
    BY DEF Lists
  <1>2. n \in Nat /\ 1 \in 1 .. n
    BY DEF Lists
  <1>3. (1 < b => f[1] < f[b]) /\ f[b] \in 1 .. Len(s) /\ f[1] \in 1 .. Len(s)
    BY <1>2 DEF Lists
  <1> QED
    BY <1>1, <1>2, <1>3 DEF Cut

\* Every call of the list is before its end.
LEMMA LastCut ==
    ASSUME NEW s, Len(s) \in Nat, NEW S \in SUBSET (1 .. Len(s)), NEW f, NEW n, Lists(f, n, S),
           NEW a \in 1 .. n + 1, a > n, NEW m \in S
    PROVE  m < Cut(s, f, n, a)
  BY DEF Cut, Lists

\* A list is as long as there are calls in it.
LEMMA ListsCount ==
    ASSUME NEW S \in SUBSET Nat, NEW f, NEW n, Lists(f, n, S)
    PROVE  IsFiniteSet(S) /\ Cardinality(S) = n
  <1>1. f \in Surjection(1 .. n, S)
    BY DEF Lists, Surjection
  <1>2. f \in Injection(1 .. n, S)
    <2>1. ASSUME NEW a \in 1 .. n, NEW b \in 1 .. n, a # b PROVE f[a] # f[b]
      <3>1. f[a] \in Nat /\ f[b] \in Nat /\ n \in Nat /\ (a < b => f[a] < f[b]) /\ (b < a => f[b] < f[a])
        BY DEF Lists
      <3> QED
        BY <2>1, <3>1
    <2> QED
      BY <2>1 DEF Lists, Injection, IsInjective
  <1>3. n \in Nat /\ ExistsBijection(1 .. n, S)
    BY <1>1, <1>2 DEF Lists, Bijection, ExistsBijection
  <1> QED
    BY <1>3, FS_CountingElements, FS_Bijection, FS_Interval

\* A table with an entry for each call of S, in their order.
TableIs(t, f, S, entry) ==
    /\ S \subseteq DOMAIN entry
    /\ t \in Seq({entry[k] : k \in DOMAIN entry})
    /\ Lists(f, Len(t), S)
    /\ \A a \in 1 .. Len(t) : t[a] = entry[f[a]]

\* A table of no calls.
LEMMA TableNone == ASSUME NEW entry PROVE TableIs(<< >>, << >>, {}, entry)
  BY ListsNone DEF TableIs

\* A table with the entry of one call more.
LEMMA TableMore ==
    ASSUME NEW S \in SUBSET Nat, NEW t, NEW f, NEW entry, TableIs(t, f, S, entry),
           NEW m \in Nat, m \in DOMAIN entry, \A k \in S : k < m
    PROVE  \E g : TableIs(Append(t, entry[m]), g, S \cup {m}, entry)
  <1> DEFINE n == Len(t)
             g == [a \in 1 .. n + 1 |-> IF a = n + 1 THEN m ELSE f[a]]
             T == {entry[k] : k \in DOMAIN entry}
             x == entry[m]
  <1>1. t \in Seq(T) /\ n \in Nat /\ x \in T
    BY DEF TableIs
  <1>2. /\ Append(t, x) \in Seq(T) /\ Len(Append(t, x)) = n + 1
        /\ \A a \in 1 .. n : Append(t, x)[a] = t[a]
        /\ Append(t, x)[n + 1] = x
    <2> HIDE DEF x, n, T
    <2> QED
      BY <1>1, AppendProperties DEF n
  <1>3. Lists(g, n + 1, S \cup {m})
    <2>1. Lists(f, n, S)
      BY DEF TableIs
    <2> HIDE DEF n
    <2> QED
      BY <2>1, ListsMore
  <1>4. \A a \in 1 .. n + 1 : Append(t, x)[a] = entry[g[a]]
    <2> TAKE a \in 1 .. n + 1
    <2>1. CASE a = n + 1
      BY <1>2, <2>1
    <2>2. CASE a # n + 1
      <3>1. a \in 1 .. n /\ g[a] = f[a]
        BY <1>1, <2>2
      <3> HIDE DEF g, x
      <3> QED
        BY <1>2, <3>1 DEF TableIs
    <2> QED
      BY <2>1, <2>2
  <1> HIDE DEF g
  <1>5. TableIs(Append(t, entry[m]), g, S \cup {m}, entry)
    BY <1>1, <1>2, <1>3, <1>4 DEF TableIs
  <1> QED
    BY <1>5

-----------------------------------------------------------------------------
(* What is patched when the fixes before call c, and of fix c the puts     *)
(* before call d, have been looked at.                                     *)

Seen(s, k, c, d) == {f \in FixesOf(s, s[k].label) : f < c \/ (f = c /\ k < d)}

Done(s, calls, c, d) ==
    [k \in {m \in calls : Seen(s, m, c, d) # {}} |-> Latest(Seen(s, k, c, d))]

\* What Seen and the sets of calls are sets of.
LEMMA SeenIs ==
    ASSUME NEW s, NEW k \in Puts(s), NEW c, NEW d
    PROVE  /\ Puts(s) \in SUBSET (1 .. Len(s)) /\ Fixes(s) \in SUBSET (1 .. Len(s))
           /\ Seen(s, k, c, d) \in SUBSET FixesOf(s, s[k].label)
           /\ FixesOf(s, s[k].label) \in SUBSET Fixes(s)
           /\ Seen(s, k, c, d) \in SUBSET (1 .. Len(s))
  BY DEF Seen, FixesOf, Fixes, Puts

\* What is patched are puts, with fixes of their width.
LEMMA DoneFits ==
    ASSUME NEW s, IsProgram(s), WidthsAgree(s), NEW calls \in SUBSET Puts(s), NEW c, NEW d
    PROVE  Fits(s, Done(s, calls, c, d))
  <1> DEFINE F == Done(s, calls, c, d)
  <1>1. DOMAIN F = {m \in calls : Seen(s, m, c, d) # {}}
    BY DEF Done
  <1>2. ASSUME NEW k \in DOMAIN F PROVE F[k] \in Fixes(s) /\ s[F[k]].width = s[k].width
    <2>1. k \in Puts(s) /\ Seen(s, k, c, d) # {} /\ F[k] = Latest(Seen(s, k, c, d))
      BY <1>1 DEF Done
    <2>2. Seen(s, k, c, d) \in SUBSET (1 .. Len(s)) /\ Len(s) \in Nat
      BY <2>1, SeenIs DEF IsProgram
    <2>3. Latest(Seen(s, k, c, d)) \in Seen(s, k, c, d)
      BY <2>1, <2>2, LastOf
    <2>4. F[k] \in FixesOf(s, s[k].label)
      BY <2>1, <2>3 DEF Seen
    <2> QED
      BY <2>1, <2>4, SeenIs DEF WidthsAgree
  <1> HIDE DEF F
  <1>3. DOMAIN F \subseteq Puts(s)
    BY <1>1
  <1> QED
    BY <1>2, <1>3 DEF Fits, F

\* One more fix seen by the call k, and by no other of the calls.
LEMMA DoneMore ==
    ASSUME NEW s, IsProgram(s), WidthsAgree(s), NEW calls \in SUBSET Puts(s),
           NEW c, NEW d, NEW c2, NEW d2, NEW k \in calls, NEW f \in FixesOf(s, s[k].label),
           \A g \in Seen(s, k, c, d) : g < f,
           Seen(s, k, c2, d2) = Seen(s, k, c, d) \cup {f},
           \A m \in calls \ {k} : Seen(s, m, c2, d2) = Seen(s, m, c, d)
    PROVE  Patched(Image(s, Done(s, calls, c, d)), Place(s)[k], FixBytes(s, f))
              = Image(s, Done(s, calls, c2, d2))
  <1> DEFINE F == Done(s, calls, c, d)
             G == Done(s, calls, c2, d2)
  <1>1. Fits(s, F) /\ Fits(s, G)
    BY DoneFits
  <1>2. DOMAIN F = {m \in calls : Seen(s, m, c, d) # {}} /\ DOMAIN G = {m \in calls : Seen(s, m, c2, d2) # {}}
    BY DEF Done
  <1>3. \A m \in DOMAIN F : F[m] = Latest(Seen(s, m, c, d))
    BY DEF Done
  <1>4. \A m \in DOMAIN G : G[m] = Latest(Seen(s, m, c2, d2))
    BY DEF Done
  <1>5. k \in Puts(s) /\ f \in Fixes(s) /\ s[f].width = s[k].width /\ Len(s) \in Nat
    <2>1. k \in Puts(s)
      OBVIOUS
    <2> QED
      BY <2>1, SeenIs DEF WidthsAgree, IsProgram
  <1>6. Latest(Seen(s, k, c2, d2)) = f
    <2>1. Seen(s, k, c2, d2) \in SUBSET (1 .. Len(s)) /\ f \in Seen(s, k, c2, d2)
      BY <1>5, SeenIs
    <2>2. \A g \in Seen(s, k, c2, d2) : g <= f
      <3> TAKE g \in Seen(s, k, c2, d2)
      <3>1. g \in 1 .. Len(s) /\ f \in 1 .. Len(s)
        BY <2>1
      <3>2. g < f \/ g = f
        OBVIOUS
      <3> QED
        BY <1>5, <3>1, <3>2
    <2> QED
      BY <1>5, <2>1, <2>2, LastIs
  <1> HIDE DEF F, G
  <1>7. DOMAIN G = DOMAIN F \cup {k}
    BY <1>2
  <1>8. G[k] = f
    BY <1>4, <1>6, <1>7
  <1>9. \A m \in DOMAIN F \ {k} : G[m] = F[m]
    BY <1>2, <1>3, <1>4, <1>7
  <1> QED
    BY <1>1, <1>5, <1>7, <1>8, <1>9, PatchedImage DEF F, G

\* When no call has seen more, nothing more is patched.
LEMMA DoneSame ==
    ASSUME NEW s, NEW calls, NEW c, NEW d, NEW c2, NEW d2,
           \A m \in calls : Seen(s, m, c2, d2) = Seen(s, m, c, d)
    PROVE  Done(s, calls, c2, d2) = Done(s, calls, c, d)
  <1>1. {m \in calls : Seen(s, m, c2, d2) # {}} = {m \in calls : Seen(s, m, c, d) # {}}
    OBVIOUS
  <1> QED
    BY <1>1 DEF Done

\* When no call has seen a fix, nothing is patched.
LEMMA DoneNone ==
    ASSUME NEW s, NEW calls, NEW c, NEW d, \A m \in calls : Seen(s, m, c, d) = {}
    PROVE  Done(s, calls, c, d) = << >>
  BY DEF Done

\* When every call has seen all its fixes, the last of them is in place.
LEMMA DoneAll ==
    ASSUME NEW s, NEW calls, NEW c, NEW d,
           \A m \in calls : Seen(s, m, c, d) = FixesOf(s, s[m].label)
    PROVE  Done(s, calls, c, d) = LastFixes(s, calls)
  <1>1. {m \in calls : Seen(s, m, c, d) # {}} = {m \in calls : FixesOf(s, s[m].label) # {}}
    OBVIOUS
  <1> QED
    BY <1>1 DEF Done, LastFixes

-----------------------------------------------------------------------------
(* The program while it runs.                                              *)

PutsBefore(s, a) == {k \in Puts(s) : k < a}
FixesBefore(s, a) == {k \in Fixes(s) : k < a}

\* The puts and fixes before a call, and before the next.
LEMMA BeforeStep ==
    ASSUME NEW s, Len(s) \in Nat, NEW a \in 1 .. Len(s)
    PROVE  /\ PutsBefore(s, a) \in SUBSET (1 .. Len(s)) /\ FixesBefore(s, a) \in SUBSET (1 .. Len(s))
           /\ PutsBefore(s, a + 1) = IF s[a].op = "reloc" THEN PutsBefore(s, a) \cup {a} ELSE PutsBefore(s, a)
           /\ FixesBefore(s, a + 1) = IF s[a].op = "fix" THEN FixesBefore(s, a) \cup {a} ELSE FixesBefore(s, a)
           /\ \A k \in PutsBefore(s, a) \cup FixesBefore(s, a) : k < a
  BY DEF PutsBefore, FixesBefore, Puts, Fixes

\* There is none before the first call, and all are before the end.
LEMMA BeforeEnds ==
    ASSUME NEW s, Len(s) \in Nat
    PROVE  /\ PutsBefore(s, 1) = {} /\ FixesBefore(s, 1) = {}
           /\ PutsBefore(s, Len(s) + 1) = Puts(s) /\ FixesBefore(s, Len(s) + 1) = Fixes(s)
  BY DEF PutsBefore, FixesBefore, Puts, Fixes

\* The buffer while the program runs: nothing is patched.
LEMMA NothingFits == ASSUME NEW s PROVE Fits(s, << >>)
  BY DEF Fits

\* What each kind of call does to the image when nothing is patched.
LEMMA BufferStep ==
    ASSUME NEW s, IsProgram(s), NEW a \in 1 .. Len(s)
    PROVE  /\ Len(Images(s, << >>)[a - 1]) = Place(s)[a]
           /\ s[a].op = "value" => Images(s, << >>)[a] = Cat(Images(s, << >>)[a - 1], s[a].bytes)
           /\ s[a].op = "reloc" => Images(s, << >>)[a] = Cat(Images(s, << >>)[a - 1], Placeholder(s[a].width))
           /\ s[a].op = "fix" => Images(s, << >>)[a] = Images(s, << >>)[a - 1]
  <1>1. Len(s) \in Nat /\ a - 1 \in 0 .. Len(s) /\ a - 1 \in 0 .. Len(s) - 1 /\ a - 1 + 1 = a /\ Fits(s, << >>)
    BY NothingFits DEF IsProgram
  <1>2. Images(s, << >>)[a] = Cat(Images(s, << >>)[a - 1], Out(s, << >>, a))
    <2>1. Images(s, << >>)[a - 1 + 1] = Cat(Images(s, << >>)[a - 1], Out(s, << >>, a - 1 + 1))
      BY <1>1, ImagesStep
    <2> QED
      BY <1>1, <2>1
  <1>3. Len(Images(s, << >>)[a - 1]) = Place(s)[a]
    BY <1>1, ImagesLen
  <1>4. a \notin DOMAIN << >>
    OBVIOUS
  <1>5. s[a].op = "value" => Out(s, << >>, a) = s[a].bytes
    BY DEF Out
  <1>6. s[a].op = "reloc" => Out(s, << >>, a) = Placeholder(s[a].width)
    BY <1>4 DEF Out, Size
  <1>7. s[a].op = "fix" => Images(s, << >>)[a] = Images(s, << >>)[a - 1]
    <2> HAVE s[a].op = "fix"
    <2>1. Out(s, << >>, a) = Placeholder(0)
      BY <1>4 DEF Out, Size
    <2>2. Placeholder(0) = << >>
      BY DEF Placeholder
    <2>3. Images(s, << >>)[a - 1] \in Seq(Byte)
      BY <1>1, ImagesStep
    <2>4. Cat(Images(s, << >>)[a - 1], << >>) = Images(s, << >>)[a - 1]
      BY <2>3, ConcatEmptySeq DEF Cat
    <2> QED
      BY <1>2, <2>1, <2>2, <2>4
  <1> QED
    BY <1>2, <1>3, <1>5, <1>6, <1>7

-----------------------------------------------------------------------------
(* What all three have in common.                                          *)

Ready == pc = "write" \/ (pc = "end" /\ outcome = "written")

Base ==
    /\ writer \in Writers /\ script \in Scripts
    /\ at \in 1 .. Len(script) + 1
    /\ pc \in {"script", "patch", "write", "end"}
    /\ pc # "script" => at = Len(script) + 1
    /\ pc = "script" => buffer = Images(script, << >>)[at - 1]
    /\ pc # "end" => file = old /\ outcome = "pending"
    /\ pc = "end" /\ outcome = "written" => file = buffer

\* What the assumption on Scripts says of a program.
LEMMA ScriptFacts ==
    ASSUME NEW s \in Scripts
    PROVE  /\ IsProgram(s) /\ Len(s) \in Nat
           /\ \A k \in 1 .. Len(s) : s[k].op \in {"value", "reloc", "fix"}
           /\ \A k \in Puts(s) \cup Fixes(s) : s[k].label \in Label
           /\ \A k \in Fixes(s) : s[k].width \in Width
  <1>1. s \in Seq(Ops)
    BY ScriptsAssumption
  <1>2. Len(s) \in Nat /\ \A k \in 1 .. Len(s) : s[k] \in Ops
    BY <1>1
  <1>3. ASSUME NEW op \in Ops
        PROVE  /\ op.op \in {"value", "reloc", "fix"}
               /\ op.op = "value" => op.bytes \in Seq(Byte)
               /\ op.op = "reloc" => op.label \in Label /\ op.width \in Width
               /\ op.op = "fix" => op.label \in Label /\ op.width \in Width /\ op.value \in Nat \cup {Here}
    BY DEF Ops
  <1>4. \A k \in 1 .. Len(s) : Size(s[k]) \in Nat
    <2> TAKE k \in 1 .. Len(s)
    <2>1. CASE s[k].op = "value"
      BY <1>2, <1>3, <2>1 DEF Size
    <2>2. CASE s[k].op # "value"
      BY <1>2, <1>3, <2>2 DEF Size, Width
    <2> QED
      BY <2>1, <2>2
  <1> QED
    BY <1>2, <1>3, <1>4 DEF IsProgram, Puts, Fixes

\* A call of the program that leaves the buffer as the program asks.
CallStep ==
    /\ UNCHANGED writer
    /\ \/ PutValue
       \/ Call("reloc") /\ buffer' = buffer \o Placeholder(script[at].width)
       \/ Call("fix") /\ UNCHANGED buffer

\* A step of dump_to_file before the file is written.
DumpStep ==
    /\ pc \in {"script", "patch"} /\ at > Len(script)
    /\ pc' \in {"patch", "write"}
    /\ UNCHANGED <<writer, script, old, at, file, outcome>>

\* The call that is made, and where it finds the end of the buffer.
LEMMA CallAt ==
    ASSUME Base, NEW op, Call(op)
    PROVE  /\ at \in 1 .. Len(script) /\ script[at].op = op /\ pc = "script" /\ pc' = "script"
           /\ script' = script /\ old' = old /\ at' = at + 1 /\ file' = file /\ outcome' = outcome
           /\ Len(buffer) = Place(script)[at]
           /\ IsProgram(script) /\ Len(script) \in Nat
  <1>1. /\ at \in 1 .. Len(script) /\ script[at].op = op /\ pc = "script" /\ pc' = "script"
        /\ script' = script /\ old' = old /\ at' = at + 1 /\ file' = file /\ outcome' = outcome
        /\ Len(script) \in Nat /\ IsProgram(script)
        /\ buffer = Images(script, << >>)[at - 1]
    BY ScriptFacts DEF Base, Call
  <1> QED
    BY <1>1, BufferStep

\* Each kind of step keeps what the three have in common.
LEMMA BaseCall == ASSUME Base, CallStep PROVE Base'
  <1>1. PICK op \in {"value", "reloc", "fix"} : Call(op)
    BY DEF CallStep, PutValue
  <1>2. /\ at \in 1 .. Len(script) /\ script[at].op = op /\ pc = "script" /\ pc' = "script"
        /\ script' = script /\ old' = old /\ at' = at + 1 /\ file' = file /\ outcome' = outcome
        /\ IsProgram(script) /\ Len(script) \in Nat
    BY <1>1, CallAt
  <1>3. buffer = Images(script, << >>)[at - 1]
    BY <1>2 DEF Base
  <1>4. buffer' = Images(script, << >>)[at]
    <2>1. CASE PutValue
      <3>1. script[at].op = "value" /\ buffer' = Cat(buffer, script[at].bytes)
        BY <2>1 DEF PutValue, Call, Cat
      <3> QED
        BY <1>2, <1>3, <3>1, BufferStep
    <2>2. CASE Call("reloc") /\ buffer' = buffer \o Placeholder(script[at].width)
      <3>1. script[at].op = "reloc" /\ buffer' = Cat(buffer, Placeholder(script[at].width))
        BY <2>2 DEF Call, Cat
      <3> QED
        BY <1>2, <1>3, <3>1, BufferStep
    <2>3. CASE Call("fix") /\ UNCHANGED buffer
      <3>1. script[at].op = "fix"
        BY <2>3 DEF Call
      <3> QED
        BY <1>2, <1>3, <2>3, <3>1, BufferStep
    <2> QED
      BY <2>1, <2>2, <2>3 DEF CallStep
  <1>5. at + 1 \in 1 .. Len(script) + 1 /\ at + 1 - 1 = at
    BY <1>2
  <1> QED
    BY <1>2, <1>4, <1>5 DEF Base, CallStep

LEMMA BaseDump == ASSUME Base, DumpStep PROVE Base'
  <1>1. at = Len(script) + 1
    BY ScriptFacts DEF Base, DumpStep
  <1> QED
    BY <1>1 DEF Base, DumpStep

LEMMA BaseDies == ASSUME Base, pc # "script", Dies, UNCHANGED writer PROVE Base' /\ ~ Ready' /\ file' = file
  BY DEF Base, Dies, Ready

\* What the write does to the state.
LEMMA WriteIs ==
    ASSUME WriteFile
    PROVE  /\ pc = "write" /\ pc' = "end" /\ outcome = "pending"
           /\ UNCHANGED <<script, old, at, tables, buffer>>
           /\ outcome' \in {"written", "lost", "abort"}
           /\ outcome' = "written" => file' = buffer
  BY DEF WriteFile, FileWrite!Write, FileWrite!Succeed, FileWrite!Fail, FileWrite!Refuse

LEMMA BaseWrite == ASSUME Base, WriteFile, UNCHANGED writer PROVE Base' /\ (Ready' => Ready)
  BY WriteIs DEF Base, Ready, tables

-----------------------------------------------------------------------------
(* The tables of v2 and v3.                                                *)

RelocEntry(s) == [k \in Puts(s) |-> [offset |-> Place(s)[k], label |-> s[k].label]]

RelocList(P) == TableIs(relocations, P, PutsBefore(script, at), RelocEntry(script))

\* add_relocation, of v2 and v3
PutReloc ==
    /\ Call("reloc")
    /\ relocations' = Append(relocations, [offset |-> Len(buffer), label |-> script[at].label])

\* add_relocation adds its entry to the table, the other calls leave it alone.
LEMMA RelocListPut == ASSUME Base, NEW P, RelocList(P), PutReloc PROVE \E Q : RelocList(Q)'
  <1>1. /\ at \in 1 .. Len(script) /\ script[at].op = "reloc" /\ script' = script /\ at' = at + 1
        /\ Len(buffer) = Place(script)[at] /\ IsProgram(script) /\ Len(script) \in Nat
    BY CallAt DEF PutReloc
  <1>2. /\ PutsBefore(script, at + 1) = PutsBefore(script, at) \cup {at}
        /\ PutsBefore(script, at) \in SUBSET Nat /\ at \in Nat
        /\ \A k \in PutsBefore(script, at) : k < at
    <2>1. /\ PutsBefore(script, at + 1) = PutsBefore(script, at) \cup {at}
          /\ PutsBefore(script, at) \in SUBSET (1 .. Len(script))
          /\ \A k \in PutsBefore(script, at) : k < at
      BY <1>1, BeforeStep
    <2> QED
      BY <1>1, <2>1
  <1>3. at \in DOMAIN RelocEntry(script) /\ relocations' = Append(relocations, RelocEntry(script)[at])
    BY <1>1 DEF RelocEntry, Puts, PutReloc
  <1>4. PICK Q : TableIs(Append(relocations, RelocEntry(script)[at]), Q, PutsBefore(script, at) \cup {at},
                         RelocEntry(script))
    <2>1. TableIs(relocations, P, PutsBefore(script, at), RelocEntry(script))
      BY DEF RelocList
    <2> QED
      BY <1>2, <1>3, <2>1, TableMore
  <1>5. RelocList(Q)'
    BY <1>1, <1>2, <1>3, <1>4 DEF RelocList
  <1> QED
    BY <1>5

LEMMA RelocListCall ==
    ASSUME Base, NEW P, RelocList(P), NEW op, op # "reloc", Call(op), UNCHANGED relocations
    PROVE  RelocList(P)'
  <1>1. /\ at \in 1 .. Len(script) /\ script[at].op = op /\ script' = script /\ at' = at + 1 /\ Len(script) \in Nat
    BY CallAt
  <1>2. PutsBefore(script, at + 1) = PutsBefore(script, at)
    BY <1>1, BeforeStep
  <1> QED
    BY <1>1, <1>2 DEF RelocList

\* The fixes of v2 and of v3, of which each has its own form.
FixList(X, entry) == TableIs(relocation_fixes, X, FixesBefore(script, at), entry)

FixValue(s, f) == IF s[f].value = Here THEN Place(s)[f] ELSE s[f].value

\* The value of a fix is known when it is called.
LEMMA AskedIs == ASSUME Base, Call("fix") PROVE Asked = FixValue(script, at) /\ at \in Fixes(script)
  <1>1. at \in 1 .. Len(script) /\ script[at].op = "fix" /\ Len(buffer) = Place(script)[at]
    BY CallAt
  <1> QED
    BY <1>1 DEF Asked, FixValue, Fixes

\* The same of the fixes.
LEMMA FixListFix ==
    ASSUME Base, NEW X, NEW entry, FixList(X, entry), Call("fix"), DOMAIN entry = Fixes(script),
           relocation_fixes' = Append(relocation_fixes, entry[at])
    PROVE  \E Y : FixList(Y, entry)'
  <1>1. /\ at \in 1 .. Len(script) /\ script[at].op = "fix" /\ script' = script /\ at' = at + 1
        /\ Len(script) \in Nat
    BY CallAt
  <1>2. /\ FixesBefore(script, at + 1) = FixesBefore(script, at) \cup {at}
        /\ FixesBefore(script, at) \in SUBSET Nat /\ at \in Nat
        /\ \A k \in FixesBefore(script, at) : k < at
    <2>1. /\ FixesBefore(script, at + 1) = FixesBefore(script, at) \cup {at}
          /\ FixesBefore(script, at) \in SUBSET (1 .. Len(script))
          /\ \A k \in FixesBefore(script, at) : k < at
      BY <1>1, BeforeStep
    <2> QED
      BY <1>1, <2>1
  <1>3. at \in DOMAIN entry
    BY <1>1 DEF Fixes
  <1>4. PICK Y : TableIs(Append(relocation_fixes, entry[at]), Y, FixesBefore(script, at) \cup {at}, entry)
    <2>1. TableIs(relocation_fixes, X, FixesBefore(script, at), entry)
      BY DEF FixList
    <2> QED
      BY <1>2, <1>3, <2>1, TableMore
  <1>5. FixList(Y, entry)'
    BY <1>1, <1>2, <1>4 DEF FixList
  <1> QED
    BY <1>5

LEMMA FixListCall ==
    ASSUME Base, NEW X, NEW entry, FixList(X, entry), NEW op, op # "fix", Call(op),
           UNCHANGED relocation_fixes
    PROVE  FixList(X, entry)'
  <1>1. /\ at \in 1 .. Len(script) /\ script[at].op = op /\ script' = script /\ at' = at + 1 /\ Len(script) \in Nat
    BY CallAt
  <1>2. FixesBefore(script, at + 1) = FixesBefore(script, at)
    BY <1>1, BeforeStep
  <1> QED
    BY <1>1, <1>2 DEF FixList

-----------------------------------------------------------------------------
(* v3.                                                                     *)

FixEntry3(s) ==
    [f \in Fixes(s) |-> [value |-> FixValue(s, f), label_to_fix |-> s[f].label, width |-> s[f].width]]

FixedOnce == \A f, g \in Fixes(script) : script[f].label = script[g].label => f = g

\* What the loops of v3 have patched.
Done3(P, X) ==
    Done(script, Puts(script), Cut(script, X, Len(relocation_fixes), i),
                               Cut(script, P, Len(relocations), j))

Patching3(P, X) ==
    /\ i \in 1 .. Len(relocation_fixes) + 1 /\ j \in 1 .. Len(relocations) + 1
    /\ WidthsAgree(script) => buffer = Image(script, Done3(P, X))
    /\ fixed \in Nat /\ Cardinality(DOMAIN Done3(P, X)) <= fixed
    /\ FixedOnce => fixed = Cardinality(DOMAIN Done3(P, X))

Patched3 ==
    /\ Ready /\ WidthsAgree(script) => buffer = Image(script, LastFixes(script, Puts(script)))
    /\ pc = "write" =>
          /\ fixed \in Nat /\ Cardinality(DOMAIN LastFixes(script, Puts(script))) <= fixed
          /\ FixedOnce => fixed = Cardinality(DOMAIN LastFixes(script, Puts(script)))
          /\ Len(relocations) = Cardinality(Puts(script))

Tables3 ==
    \E P, X :
       /\ RelocList(P) /\ FixList(X, FixEntry3(script))
       /\ pc = "script" => i = 1 /\ j = 1 /\ fixed = 0
       /\ pc = "patch" => Patching3(P, X)

Inv3 == writer = "v3" => Tables3 /\ Patched3

\* The steps of v3, in the words of this module.
Begin3 ==
    /\ pc = "script" /\ at > Len(script) /\ pc' = "patch"
    /\ UNCHANGED <<script, old, at, buffer, tables, i, j, fixed, file, outcome>>

Patch3 ==
    /\ pc = "patch" /\ i <= Len(relocation_fixes) /\ j <= Len(relocations)
    /\ relocations[j].label = relocation_fixes[i].label_to_fix
    /\ buffer' = Patched(buffer, relocations[j].offset,
                         LE(relocation_fixes[i].value, relocation_fixes[i].width))
    /\ fixed' = fixed + 1 /\ j' = j + 1
    /\ UNCHANGED <<script, old, at, pc, tables, i, file, outcome>>

Skip3 ==
    /\ pc = "patch" /\ i <= Len(relocation_fixes) /\ j <= Len(relocations)
    /\ relocations[j].label # relocation_fixes[i].label_to_fix
    /\ j' = j + 1
    /\ UNCHANGED <<program, i, fixed>>

NextFix3 ==
    /\ pc = "patch" /\ i <= Len(relocation_fixes) /\ j > Len(relocations)
    /\ i' = i + 1 /\ j' = 1
    /\ UNCHANGED <<program, fixed>>

End3 ==
    /\ pc = "patch" /\ i > Len(relocation_fixes) /\ pc' = "write"
    /\ UNCHANGED <<script, old, at, buffer, tables, i, j, fixed, file, outcome>>

Fix3 ==
    /\ Call("fix")
    /\ relocation_fixes' = Append(relocation_fixes,
          [value |-> Asked, label_to_fix |-> script[at].label, width |-> script[at].width])
    /\ UNCHANGED <<buffer, relocations, i, j, fixed>>

Put3 ==
    /\ PutReloc
    /\ buffer' = buffer \o Placeholder(script[at].width)
    /\ UNCHANGED <<relocation_fixes, i, j, fixed>>

\* Every step of v3 is one of these.
LEMMA Steps3 ==
    ASSUME Third
    PROVE  /\ writer = "v3" /\ UNCHANGED <<writer, todo>>
           /\ \/ PutValue /\ UNCHANGED <<i, j, fixed>>
              \/ Put3 \/ Fix3 \/ Begin3 \/ Patch3 \/ Skip3 \/ NextFix3 \/ End3
              \/ pc = "patch" /\ Dies
              \/ WriteFile /\ UNCHANGED <<i, j, fixed>>
  <1>1. writer = "v3" /\ UNCHANGED <<writer, todo>> /\ V3!Next
    BY DEF Third
  <1>2. V3!PutEntry => PutValue /\ UNCHANGED <<i, j, fixed>>
    BY DEF V3!PutEntry, V3!PutValue, V3!Call, V3!tables, V3!loops, PutValue, Call, tables
  <1>3. V3!PutRelocation => Put3
    BY DEF V3!PutRelocation, V3!Call, V3!loops, V3!Placeholder, Put3, PutReloc, Call, Placeholder
  <1>4. V3!fix_relocation => Fix3
    BY DEF V3!fix_relocation, V3!Call, V3!loops, V3!Asked, V3!Here, Fix3, Call, Asked, Here
  <1>5. V3!BeginDump => Begin3
    BY DEF V3!BeginDump, V3!tables, V3!loops, Begin3, tables
  <1>6. V3!Patch => Patch3
    BY DEF V3!Patch, V3!Looking, V3!Matches, V3!Bytes, V3!Patched, V3!LE, V3!Shifted, V3!tables,
           Patch3, Patched, LE, Shifted, tables
  <1>7. V3!PatchDies => pc = "patch" /\ Dies
    BY DEF V3!PatchDies, V3!Looking, V3!Dies, V3!tables, Dies, tables
  <1>8. V3!Skip => Skip3
    BY DEF V3!Skip, V3!Looking, V3!Matches, V3!program, V3!tables, Skip3, program, tables
  <1>9. V3!NextFix => NextFix3
    BY DEF V3!NextFix, V3!program, V3!tables, NextFix3, program, tables
  <1>10. V3!EndPatch => End3
    BY DEF V3!EndPatch, V3!tables, V3!loops, End3, tables
  <1>11. V3!DumpToFile => WriteFile /\ UNCHANGED <<i, j, fixed>>
    BY DEF V3!DumpToFile, V3!WriteFile, V3!tables, V3!loops, WriteFile, tables,
           V3!FileWrite!Write, V3!FileWrite!Succeed, V3!FileWrite!Fail, V3!FileWrite!Refuse, V3!FileWrite!Beginning,
           FileWrite!Write, FileWrite!Succeed, FileWrite!Fail, FileWrite!Refuse, FileWrite!Beginning
  <1> QED
    BY <1>1, <1>2, <1>3, <1>4, <1>5, <1>6, <1>7, <1>8, <1>9, <1>10, <1>11 DEF V3!Next

\* One put further, fix c is seen by this put as well, if it is for its label.
LEMMA SeenNextPut ==
    ASSUME NEW s, Len(s) \in Nat, NEW P, NEW n, Lists(P, n, Puts(s)), NEW a \in 1 .. n,
           NEW c, NEW m \in Puts(s)
    PROVE  /\ m = P[a] /\ c \in FixesOf(s, s[m].label) =>
                 Seen(s, m, c, Cut(s, P, n, a + 1)) = Seen(s, m, c, Cut(s, P, n, a)) \cup {c}
           /\ ~ (m = P[a] /\ c \in FixesOf(s, s[m].label)) =>
                 Seen(s, m, c, Cut(s, P, n, a + 1)) = Seen(s, m, c, Cut(s, P, n, a))
  <1>1. Puts(s) \in SUBSET (1 .. Len(s))
    BY DEF Puts
  <1>2. /\ Cut(s, P, n, a) = P[a]
        /\ m < Cut(s, P, n, a + 1) <=> m < P[a] \/ m = P[a]
    <2> DEFINE S == Puts(s)
    <2>1. S \in SUBSET (1 .. Len(s)) /\ Lists(P, n, S) /\ m \in S
      BY <1>1
    <2> HIDE DEF S
    <2> QED
      BY <2>1, NextCut
  <1> DEFINE d == Cut(s, P, n, a)
             d2 == Cut(s, P, n, a + 1)
  <1> HIDE DEF d, d2
  <1>3. m < d2 <=> m < d \/ m = P[a]
    BY <1>2 DEF d, d2
  <1>4. m = P[a] => ~ (m < d)
    BY <1>1, <1>2 DEF d
  <1>5. /\ m = P[a] /\ c \in FixesOf(s, s[m].label) => Seen(s, m, c, d2) = Seen(s, m, c, d) \cup {c}
        /\ ~ (m = P[a] /\ c \in FixesOf(s, s[m].label)) => Seen(s, m, c, d2) = Seen(s, m, c, d)
    BY <1>3, <1>4 DEF Seen
  <1> QED
    BY <1>5 DEF d, d2

\* Behind the last put of one fix or before the first put of the next, the same is seen.
LEMMA SeenNextFix ==
    ASSUME NEW s, Len(s) \in Nat, NEW X, NEW n, Lists(X, n, Fixes(s)), NEW a \in 1 .. n,
           NEW m \in Puts(s), NEW d, NEW d2, m < d, ~ (m < d2)
    PROVE  Seen(s, m, Cut(s, X, n, a + 1), d2) = Seen(s, m, Cut(s, X, n, a), d)
  <1>1. Fixes(s) \in SUBSET (1 .. Len(s)) /\ FixesOf(s, s[m].label) \subseteq Fixes(s)
    BY DEF Fixes, FixesOf
  <1>2. \A f \in Fixes(s) : f < Cut(s, X, n, a + 1) <=> f < Cut(s, X, n, a) \/ f = Cut(s, X, n, a)
    BY <1>1, NextCut
  <1> QED
    BY <1>1, <1>2 DEF Seen

\* Before the first put of the first fix nothing is seen.
LEMMA SeenNone ==
    ASSUME NEW s, Len(s) \in Nat, NEW X, NEW n, Lists(X, n, Fixes(s)),
           NEW m \in Puts(s), NEW d, ~ (m < d)
    PROVE  Seen(s, m, Cut(s, X, n, 1), d) = {}
  <1>1. Fixes(s) \in SUBSET (1 .. Len(s)) /\ FixesOf(s, s[m].label) \subseteq Fixes(s)
    BY DEF Fixes, FixesOf
  <1>2. \A f \in Fixes(s) : ~ (f < Cut(s, X, n, 1))
    BY <1>1, FirstCut
  <1> QED
    BY <1>1, <1>2 DEF Seen

\* Behind the last fix all is seen.
LEMMA SeenAll ==
    ASSUME NEW s, Len(s) \in Nat, NEW X, NEW n, Lists(X, n, Fixes(s)),
           NEW m \in Puts(s), NEW d, NEW a \in 1 .. n + 1, a > n
    PROVE  Seen(s, m, Cut(s, X, n, a), d) = FixesOf(s, s[m].label)
  <1>1. Fixes(s) \in SUBSET (1 .. Len(s)) /\ FixesOf(s, s[m].label) \subseteq Fixes(s)
    BY DEF Fixes, FixesOf
  <1>2. \A f \in Fixes(s) : f < Cut(s, X, n, a)
    BY <1>1, LastCut
  <1> QED
    BY <1>1, <1>2 DEF Seen

\* The entries of the tables when the program has run.
LEMMA Lookup3 ==
    ASSUME Base, pc # "script", NEW P, NEW X, RelocList(P), FixList(X, FixEntry3(script))
    PROVE  /\ IsProgram(script) /\ Len(script) \in Nat
           /\ Lists(P, Len(relocations), Puts(script)) /\ Lists(X, Len(relocation_fixes), Fixes(script))
           /\ Len(relocations) \in Nat /\ Len(relocation_fixes) \in Nat
           /\ \A a \in 1 .. Len(relocations) :
                 /\ P[a] \in Puts(script)
                 /\ relocations[a].offset = Place(script)[P[a]]
                 /\ relocations[a].label = script[P[a]].label
           /\ \A a \in 1 .. Len(relocation_fixes) :
                 /\ X[a] \in Fixes(script)
                 /\ relocation_fixes[a].label_to_fix = script[X[a]].label
                 /\ LE(relocation_fixes[a].value, relocation_fixes[a].width) = FixBytes(script, X[a])
  <1>1. IsProgram(script) /\ Len(script) \in Nat /\ at = Len(script) + 1
    BY ScriptFacts DEF Base
  <1>2. PutsBefore(script, at) = Puts(script) /\ FixesBefore(script, at) = Fixes(script)
    BY <1>1, BeforeEnds
  <1>3. Lists(P, Len(relocations), Puts(script)) /\ Lists(X, Len(relocation_fixes), Fixes(script))
    BY <1>2 DEF RelocList, FixList, TableIs
  <1>4. \A a \in 1 .. Len(relocations) : P[a] \in Puts(script) /\ relocations[a] = RelocEntry(script)[P[a]]
    BY <1>2, <1>3 DEF RelocList, TableIs, Lists
  <1>5. \A a \in 1 .. Len(relocation_fixes) :
           X[a] \in Fixes(script) /\ relocation_fixes[a] = FixEntry3(script)[X[a]]
    BY <1>2, <1>3 DEF FixList, TableIs, Lists
  <1>6. Len(relocations) \in Nat /\ Len(relocation_fixes) \in Nat
    BY <1>3 DEF Lists
  <1>7. \A a \in 1 .. Len(relocations) :
           /\ relocations[a].offset = Place(script)[P[a]]
           /\ relocations[a].label = script[P[a]].label
    <2>1. \A k \in Puts(script) : /\ RelocEntry(script)[k].offset = Place(script)[k]
                                  /\ RelocEntry(script)[k].label = script[k].label
      BY DEF RelocEntry
    <2> QED
      BY <1>4, <2>1
  <1>8. \A f \in Fixes(script) :
           /\ FixEntry3(script)[f].label_to_fix = script[f].label
           /\ LE(FixEntry3(script)[f].value, FixEntry3(script)[f].width) = FixBytes(script, f)
    BY DEF FixEntry3, FixBytes, FixValue
  <1>9. \A a \in 1 .. Len(relocation_fixes) :
           /\ relocation_fixes[a].label_to_fix = script[X[a]].label
           /\ LE(relocation_fixes[a].value, relocation_fixes[a].width) = FixBytes(script, X[a])
    BY <1>5, <1>8
  <1> QED
    BY <1>1, <1>3, <1>4, <1>5, <1>6, <1>7, <1>9

\* Each step of the loops keeps what is said of them.
LEMMA Begins3 ==
    ASSUME Base, NEW P, NEW X, RelocList(P), FixList(X, FixEntry3(script)), i = 1, j = 1, fixed = 0, Begin3
    PROVE  Patching3(P, X)'
  <1>1. IsProgram(script) /\ Len(script) \in Nat /\ at = Len(script) + 1 /\ buffer = Images(script, << >>)[Len(script)]
    BY ScriptFacts DEF Base, Begin3
  <1>2. PutsBefore(script, at) = Puts(script) /\ FixesBefore(script, at) = Fixes(script)
    BY <1>1, BeforeEnds
  <1>3. Lists(P, Len(relocations), Puts(script)) /\ Lists(X, Len(relocation_fixes), Fixes(script))
    BY <1>2 DEF RelocList, FixList, TableIs
  <1>4. Len(relocations) \in Nat /\ Len(relocation_fixes) \in Nat
    BY <1>3 DEF Lists
  <1> DEFINE d == Cut(script, P, Len(relocations), 1)
             c == Cut(script, X, Len(relocation_fixes), 1)
  <1>5. \A m \in Puts(script) : Seen(script, m, c, d) = {}
    <2> TAKE m \in Puts(script)
    <2>1. Puts(script) \in SUBSET (1 .. Len(script))
      BY DEF Puts
    <2>2. ~ (m < d)
      BY <1>1, <1>3, <2>1, FirstCut
    <2> HIDE DEF d
    <2> QED
      BY <1>1, <1>3, <2>2, SeenNone
  <1> HIDE DEF c, d
  <1>6. Done(script, Puts(script), c, d) = << >>
    BY <1>5, DoneNone
  <1>7. Done3(P, X)' = << >>
    BY <1>6 DEF Done3, Begin3, tables, c, d
  <1>8. buffer' = Image(script', << >>) /\ fixed' = 0 /\ i' = 1 /\ j' = 1
    BY <1>1, ImageIsLast DEF Begin3
  <1>9. Cardinality(DOMAIN << >>) = 0
    BY FS_EmptySet
  <1>10. UNCHANGED <<relocations, relocation_fixes>>
    BY DEF Begin3, tables
  <1> QED
    BY <1>4, <1>7, <1>8, <1>9, <1>10 DEF Patching3

LEMMA Patches3 ==
    ASSUME Base, NEW P, NEW X, RelocList(P), FixList(X, FixEntry3(script)), Patching3(P, X), Patch3
    PROVE  Patching3(P, X)'
  <1> DEFINE n == Len(relocations)
             k == P[j]
             f == X[i]
             c == Cut(script, X, Len(relocation_fixes), i)
             d == Cut(script, P, n, j)
             d2 == Cut(script, P, n, j + 1)
             Calls == Puts(script)
  <1>1. /\ IsProgram(script) /\ Len(script) \in Nat
        /\ Lists(P, n, Calls) /\ n \in Nat
        /\ j \in 1 .. n /\ i \in 1 .. Len(relocation_fixes)
        /\ k \in Calls /\ f \in Fixes(script) /\ script[k].label = script[f].label
        /\ buffer' = Patched(buffer, Place(script)[k], FixBytes(script, f))
    BY Lookup3 DEF Patch3, Patching3
  <1>2. f \in FixesOf(script, script[k].label) /\ c = f
    BY <1>1 DEF FixesOf, Fixes, Cut
  <1>3. Calls \in SUBSET (1 .. Len(script)) /\ Fixes(script) \in SUBSET (1 .. Len(script))
    BY DEF Puts, Fixes
  <1>4. /\ Seen(script, k, c, d2) = Seen(script, k, c, d) \cup {f}
        /\ \A m \in Calls \ {k} : Seen(script, m, c, d2) = Seen(script, m, c, d)
    <2>1. \A m \in Calls :
             /\ m = k /\ c \in FixesOf(script, script[m].label) =>
                   Seen(script, m, c, d2) = Seen(script, m, c, d) \cup {c}
             /\ ~ (m = k /\ c \in FixesOf(script, script[m].label)) =>
                   Seen(script, m, c, d2) = Seen(script, m, c, d)
      <3> TAKE m \in Calls
      <3>1. m \in Puts(script) /\ Len(script) \in Nat /\ Lists(P, n, Puts(script)) /\ j \in 1 .. n
        BY <1>1
      <3> HIDE DEF c, n, f
      <3>2. m = k /\ c \in FixesOf(script, script[m].label) =>
               Seen(script, m, c, d2) = Seen(script, m, c, d) \cup {c}
        <4>1. \A e : m = P[j] /\ e \in FixesOf(script, script[m].label) =>
                        Seen(script, m, e, d2) = Seen(script, m, e, d) \cup {e}
          BY <3>1, SeenNextPut
        <4> QED
          BY <4>1
      <3>3. ~ (m = k /\ c \in FixesOf(script, script[m].label)) =>
               Seen(script, m, c, d2) = Seen(script, m, c, d)
        BY <3>1, SeenNextPut
      <3> QED
        BY <3>2, <3>3
    <2> HIDE DEF c, d, d2, f, k, Calls
    <2> QED
      BY <1>1, <1>2, <2>1
  <1>5. d = k
    BY <1>1 DEF Cut
  <1>6. \A g \in Seen(script, k, c, d) : g < f
    <2>1. k \in Int /\ ~ (k < k)
      BY <1>1, <1>3
    <2> HIDE DEF c, d, k, f
    <2> QED
      BY <1>2, <1>5, <2>1 DEF Seen
  <1>7. Done3(P, X)' = Done(script, Calls, c, d2)
    BY DEF Done3, Patch3, tables
  <1>8. Done3(P, X) = Done(script, Calls, c, d)
    BY DEF Done3
  <1> HIDE DEF c, d, d2, f, k, n, Calls
  <1>9. WidthsAgree(script) => buffer' = Image(script, Done(script, Calls, c, d2))
    <2> HAVE WidthsAgree(script)
    <2>1. buffer = Image(script, Done(script, Calls, c, d))
      BY <1>8 DEF Patching3
    <2>2. Calls \in SUBSET Puts(script)
      BY DEF Calls
    <2> QED
      BY <1>1, <1>2, <1>4, <1>6, <2>1, <2>2, DoneMore
  <1>10. /\ fixed' \in Nat /\ Cardinality(DOMAIN Done(script, Calls, c, d2)) <= fixed'
         /\ FixedOnce => fixed' = Cardinality(DOMAIN Done(script, Calls, c, d2))
    <2> DEFINE A == DOMAIN Done(script, Calls, c, d)
    <2>1. A = {m \in Calls : Seen(script, m, c, d) # {}}
          /\ DOMAIN Done(script, Calls, c, d2) = {m \in Calls : Seen(script, m, c, d2) # {}}
      BY DEF Done
    <2>2. DOMAIN Done(script, Calls, c, d2) = A \cup {k}
      BY <1>1, <1>4, <2>1
    <2>3. FixedOnce => k \notin A
      <3> HAVE FixedOnce
      <3>1. \A g \in Seen(script, k, c, d) : g \in Fixes(script) /\ script[g].label = script[k].label /\ g < f
        BY <1>6 DEF Seen, FixesOf, Fixes
      <3>2. \A g \in Seen(script, k, c, d) : g = f /\ g < f
        BY <1>1, <3>1 DEF FixedOnce
      <3>3. Seen(script, k, c, d) = {}
        BY <1>1, <1>3, <3>2
      <3> QED
        BY <2>1, <3>3
    <2>4. IsFiniteSet(A)
      <3>1. IsFiniteSet(1 .. Len(script))
        BY <1>1, FS_Interval
      <3>2. A \subseteq 1 .. Len(script)
        BY <1>3, <2>1
      <3> QED
        BY <3>1, <3>2, FS_Subset
    <2>5. /\ fixed \in Nat /\ Cardinality(A) <= fixed /\ fixed' = fixed + 1
          /\ FixedOnce => fixed = Cardinality(A)
      BY <1>8 DEF Patching3, Patch3
    <2> HIDE DEF A
    <2>6. /\ Cardinality(A) \in Nat
          /\ Cardinality(A \cup {k}) = IF k \in A THEN Cardinality(A) ELSE Cardinality(A) + 1
      BY <2>4, FS_CardinalityType, FS_AddElement
    <2> QED
      BY <2>2, <2>3, <2>5, <2>6
  <1>11. script' = script /\ FixedOnce' = FixedOnce /\ i' = i /\ j' = j + 1 /\ UNCHANGED <<relocations, relocation_fixes>>
    BY DEF Patch3, tables, FixedOnce
  <1>12. i \in 1 .. Len(relocation_fixes) + 1 /\ j + 1 \in 1 .. Len(relocations) + 1
    BY <1>1 DEF Patching3, n
  <1> QED
    BY <1>7, <1>9, <1>10, <1>11, <1>12 DEF Patching3

LEMMA Skips3 ==
    ASSUME Base, NEW P, NEW X, RelocList(P), FixList(X, FixEntry3(script)), Patching3(P, X), Skip3
    PROVE  Patching3(P, X)'
  <1> DEFINE n == Len(relocations)
             c == Cut(script, X, Len(relocation_fixes), i)
             d == Cut(script, P, n, j)
             d2 == Cut(script, P, n, j + 1)
             Calls == Puts(script)
  <1>0. i \in 1 .. Len(relocation_fixes) + 1 /\ j \in 1 .. Len(relocations) + 1
    BY DEF Patching3
  <1>1. /\ IsProgram(script) /\ Len(script) \in Nat
        /\ Lists(P, n, Calls) /\ n \in Nat
        /\ j \in 1 .. n /\ i \in 1 .. Len(relocation_fixes)
        /\ c = X[i] /\ script[P[j]].label # script[c].label
    BY <1>0, Lookup3 DEF Skip3, Cut
  <1>2. \A m \in Calls : Seen(script, m, c, d2) = Seen(script, m, c, d)
    <2> TAKE m \in Calls
    <2>1. ~ (m = P[j] /\ c \in FixesOf(script, script[m].label))
      BY <1>1 DEF FixesOf
    <2>2. ~ (m = P[j] /\ c \in FixesOf(script, script[m].label)) =>
             Seen(script, m, c, d2) = Seen(script, m, c, d)
      <3> HIDE DEF c, n
      <3> QED
        BY <1>1, SeenNextPut
    <2> HIDE DEF c, d, d2, Calls
    <2> QED
      BY <2>1, <2>2
  <1>3. Done(script, Calls, c, d2) = Done(script, Calls, c, d)
    <2> HIDE DEF c, d, d2, Calls
    <2> QED
      BY <1>2, DoneSame
  <1>4. Done3(P, X)' = Done3(P, X)
    BY <1>3 DEF Done3, Skip3, program, tables
  <1>5. /\ script' = script /\ FixedOnce' = FixedOnce /\ i' = i /\ j' = j + 1 /\ UNCHANGED <<relocations, relocation_fixes>>
        /\ UNCHANGED <<buffer, fixed>>
    BY DEF Skip3, program, tables, FixedOnce
  <1>6. i \in 1 .. Len(relocation_fixes) + 1 /\ j + 1 \in 1 .. Len(relocations) + 1
    BY <1>1 DEF Patching3
  <1> QED
    BY <1>4, <1>5, <1>6 DEF Patching3

LEMMA NextFixes3 ==
    ASSUME Base, NEW P, NEW X, RelocList(P), FixList(X, FixEntry3(script)), Patching3(P, X), NextFix3
    PROVE  Patching3(P, X)'
  <1> DEFINE n == Len(relocations)
             nf == Len(relocation_fixes)
             c == Cut(script, X, nf, i)
             d == Cut(script, P, n, j)
             c2 == Cut(script, X, nf, i + 1)
             d2 == Cut(script, P, n, 1)
             Calls == Puts(script)
  <1>0. i \in 1 .. Len(relocation_fixes) + 1 /\ j \in 1 .. Len(relocations) + 1
    BY DEF Patching3
  <1>1. /\ IsProgram(script) /\ Len(script) \in Nat
        /\ Lists(P, n, Calls) /\ n \in Nat /\ Lists(X, nf, Fixes(script)) /\ nf \in Nat
        /\ j \in 1 .. n + 1 /\ j > n /\ i \in 1 .. nf
    <2>1. pc # "script" /\ i <= nf /\ j > n
      BY DEF NextFix3
    <2>2. /\ IsProgram(script) /\ Len(script) \in Nat
          /\ Lists(P, n, Calls) /\ n \in Nat /\ Lists(X, nf, Fixes(script)) /\ nf \in Nat
      BY <2>1, Lookup3
    <2> QED
      BY <1>0, <2>1, <2>2
  <1>2. Calls \in SUBSET (1 .. Len(script))
    BY DEF Puts
  <1>3. \A m \in Calls : Seen(script, m, c2, d2) = Seen(script, m, c, d)
    <2> TAKE m \in Calls
    <2>1. m < d /\ ~ (m < d2)
      <3> HIDE DEF n, Calls
      <3> QED
        BY <1>1, <1>2, LastCut, FirstCut
    <2> HIDE DEF d, d2, nf
    <2> QED
      BY <1>1, <2>1, SeenNextFix
  <1>4. Done(script, Calls, c2, d2) = Done(script, Calls, c, d)
    <2> HIDE DEF c, d, c2, d2, Calls
    <2> QED
      BY <1>3, DoneSame
  <1>5. Done3(P, X)' = Done3(P, X)
    BY <1>4 DEF Done3, NextFix3, program, tables
  <1>6. /\ script' = script /\ FixedOnce' = FixedOnce /\ i' = i + 1 /\ j' = 1 /\ UNCHANGED <<relocations, relocation_fixes>>
        /\ UNCHANGED <<buffer, fixed>>
    BY DEF NextFix3, program, tables, FixedOnce
  <1>7. i + 1 \in 1 .. Len(relocation_fixes) + 1 /\ 1 \in 1 .. Len(relocations) + 1
    BY <1>1 DEF Patching3
  <1> QED
    BY <1>5, <1>6, <1>7 DEF Patching3

\* When the loops are done every put has its last fix.
LEMMA Ends3 ==
    ASSUME Base, NEW P, NEW X, RelocList(P), FixList(X, FixEntry3(script)), Patching3(P, X), End3
    PROVE  Patched3'
  <1> DEFINE n == Len(relocations)
             nf == Len(relocation_fixes)
             c == Cut(script, X, nf, i)
             d == Cut(script, P, n, j)
             Calls == Puts(script)
  <1>1. /\ IsProgram(script) /\ Len(script) \in Nat
        /\ Lists(P, n, Calls) /\ n \in Nat /\ Lists(X, nf, Fixes(script)) /\ nf \in Nat
        /\ i \in 1 .. nf + 1 /\ i > nf
    BY Lookup3 DEF End3, Patching3
  <1>2. \A m \in Calls : Seen(script, m, c, d) = FixesOf(script, script[m].label)
    <2> HIDE DEF d, nf
    <2> QED
      BY <1>1, SeenAll
  <1>3. Done3(P, X) = LastFixes(script, Puts(script))
    <2>1. Done3(P, X) = Done(script, Calls, c, d)
      BY DEF Done3
    <2> HIDE DEF c, d, Calls
    <2>2. Done3(P, X) = LastFixes(script, Calls)
      BY <1>2, <2>1, DoneAll
    <2> QED
      BY <2>2 DEF Calls
  <1>4. Len(relocations) = Cardinality(Puts(script))
    <2>1. Puts(script) \in SUBSET Nat
      BY DEF Puts
    <2> HIDE DEF n
    <2> QED
      BY <1>1, <2>1, ListsCount DEF n
  <1> QED
    BY <1>3, <1>4 DEF Patched3, Patching3, End3, tables, FixedOnce

\* Once the program has run its lists stay as they are.
LEMMA ListsStay ==
    ASSUME NEW P, NEW X, RelocList(P), FixList(X, FixEntry3(script)),
           UNCHANGED <<script, old, at, relocations, relocation_fixes>>
    PROVE  RelocList(P)' /\ FixList(X, FixEntry3(script))'
  <1>1. RelocList(P)'
    BY DEF RelocList
  <1>2. FixList(X, FixEntry3(script))'
    BY DEF FixList, FixEntry3, FixValue
  <1> QED
    BY <1>1, <1>2

LEMMA BaseThird == ASSUME Base, Third PROVE Base'
  <1>1. UNCHANGED writer
    BY Steps3
  <1>2. ASSUME PutValue \/ Put3 \/ Fix3 PROVE Base'
    <2>1. CallStep
      BY <1>1, <1>2 DEF CallStep, Put3, PutReloc, Fix3
    <2> QED
      BY <2>1, BaseCall
  <1>3. ASSUME Begin3 \/ Patch3 \/ Skip3 \/ NextFix3 \/ End3 PROVE Base'
    <2>1. at > Len(script)
      BY <1>3, ScriptFacts DEF Base, Begin3, Patch3, Skip3, NextFix3, End3
    <2>2. DumpStep
      BY <1>1, <1>3, <2>1 DEF DumpStep, Begin3, Patch3, Skip3, NextFix3, End3, program
    <2> QED
      BY <2>2, BaseDump
  <1>4. ASSUME pc = "patch" /\ Dies PROVE Base'
    BY <1>1, <1>4, BaseDies
  <1>5. ASSUME WriteFile PROVE Base'
    BY <1>1, <1>5, BaseWrite
  <1> QED
    BY <1>2, <1>3, <1>4, <1>5, Steps3

\* The invariant of v3 is inductive.
LEMMA Third3 == ASSUME Base, Inv3, Third PROVE Inv3'
  <1>0. Tables3 /\ Patched3 /\ UNCHANGED writer
    BY Steps3 DEF Inv3
  <1>1. PICK P, X : /\ RelocList(P) /\ FixList(X, FixEntry3(script))
                    /\ pc = "script" => i = 1 /\ j = 1 /\ fixed = 0
                    /\ pc = "patch" => Patching3(P, X)
    BY <1>0 DEF Tables3
  <1>2. CASE PutValue /\ UNCHANGED <<i, j, fixed>>
    <2>1. Call("value") /\ UNCHANGED <<relocations, relocation_fixes>>
      BY <1>2 DEF PutValue, tables
    <2>2. pc = "script" /\ pc' = "script" /\ script' = script
      BY <2>1, CallAt
    <2>3. RelocList(P)'
      BY <1>1, <2>1, RelocListCall
    <2>4. PICK entry : entry = FixEntry3(script)
      OBVIOUS
    <2>5. FixList(X, entry)'
      BY <1>1, <2>1, <2>4, FixListCall
    <2>6. FixEntry3(script)' = entry
      BY <2>2, <2>4 DEF FixEntry3, FixValue
    <2>7. FixList(X, FixEntry3(script))'
      BY <2>5, <2>6 DEF FixList
    <2> QED
      BY <1>1, <1>2, <2>2, <2>3, <2>7 DEF Inv3, Tables3, Patched3, Ready
  <1>3. CASE Put3
    <2>1. Call("reloc") /\ UNCHANGED relocation_fixes /\ PutReloc /\ UNCHANGED <<i, j, fixed>>
      BY <1>3 DEF Put3, PutReloc
    <2>2. pc = "script" /\ pc' = "script" /\ script' = script
      BY <2>1, CallAt
    <2>3. PICK Q : RelocList(Q)'
      BY <1>1, <2>1, RelocListPut
    <2>4. PICK entry : entry = FixEntry3(script)
      OBVIOUS
    <2>5. FixList(X, entry)'
      BY <1>1, <2>1, <2>4, FixListCall
    <2>6. FixEntry3(script)' = entry
      BY <2>2, <2>4 DEF FixEntry3, FixValue
    <2>7. FixList(X, FixEntry3(script))'
      BY <2>5, <2>6 DEF FixList
    <2> QED
      BY <1>1, <2>1, <2>2, <2>3, <2>7 DEF Inv3, Tables3, Patched3, Ready
  <1>4. CASE Fix3
    <2>1. Call("fix") /\ UNCHANGED relocations /\ UNCHANGED <<i, j, fixed>>
      BY <1>4 DEF Fix3
    <2>2. pc = "script" /\ pc' = "script" /\ script' = script
      BY <2>1, CallAt
    <2>3. RelocList(P)'
      BY <1>1, <2>1, RelocListCall
    <2>4. PICK entry : entry = FixEntry3(script)
      OBVIOUS
    <2>5. DOMAIN entry = Fixes(script) /\ relocation_fixes' = Append(relocation_fixes, entry[at])
      BY <1>4, <2>1, <2>4, AskedIs DEF FixEntry3, Fix3
    <2>6. PICK Y : FixList(Y, entry)'
      BY <1>1, <2>1, <2>4, <2>5, FixListFix
    <2>7. FixEntry3(script)' = entry
      BY <2>2, <2>4 DEF FixEntry3, FixValue
    <2>8. FixList(Y, FixEntry3(script))'
      BY <2>6, <2>7 DEF FixList
    <2> QED
      BY <1>1, <2>1, <2>2, <2>3, <2>8 DEF Inv3, Tables3, Patched3, Ready
  <1>5. CASE Begin3 \/ Patch3 \/ Skip3 \/ NextFix3
    <2>1. /\ UNCHANGED <<script, old, at, relocations, relocation_fixes>>
          /\ pc' = "patch"
      BY <1>5 DEF Begin3, Patch3, Skip3, NextFix3, program, tables
    <2>2. RelocList(P)' /\ FixList(X, FixEntry3(script))'
      BY <1>1, <2>1, ListsStay
    <2>3. Patching3(P, X)'
      <3>1. CASE Begin3
        BY <1>1, <3>1, Begins3 DEF Begin3
      <3>2. CASE Patch3
        BY <1>1, <3>2, Patches3 DEF Patch3
      <3>3. CASE Skip3
        BY <1>1, <3>3, Skips3 DEF Skip3
      <3>4. CASE NextFix3
        BY <1>1, <3>4, NextFixes3 DEF NextFix3
      <3> QED
        BY <1>5, <3>1, <3>2, <3>3, <3>4
    <2> QED
      BY <2>1, <2>2, <2>3 DEF Inv3, Tables3, Patched3, Ready
  <1>6. CASE End3
    <2>1. UNCHANGED <<script, old, at, relocations, relocation_fixes>> /\ pc' = "write" /\ pc = "patch"
      BY <1>6 DEF End3, tables
    <2>2. RelocList(P)' /\ FixList(X, FixEntry3(script))'
      BY <1>1, <2>1, ListsStay
    <2>3. Patched3'
      BY <1>1, <1>6, <2>1, Ends3
    <2> QED
      BY <2>1, <2>2, <2>3 DEF Inv3, Tables3
  <1>7. CASE pc = "patch" /\ Dies
    <2>1. UNCHANGED <<script, old, at, relocations, relocation_fixes>> /\ pc' = "end"
      BY <1>7 DEF Dies, tables
    <2>2. RelocList(P)' /\ FixList(X, FixEntry3(script))'
      BY <1>1, <2>1, ListsStay
    <2>3. ~ Ready'
      BY <1>0, <1>7, BaseDies
    <2> QED
      BY <2>1, <2>2, <2>3 DEF Inv3, Tables3, Patched3
  <1>8. CASE WriteFile /\ UNCHANGED <<i, j, fixed>>
    <2>1. UNCHANGED <<script, old, at, relocations, relocation_fixes, buffer>> /\ pc' = "end" /\ pc = "write"
      BY <1>8, WriteIs DEF tables
    <2>2. RelocList(P)' /\ FixList(X, FixEntry3(script))'
      BY <1>1, <2>1, ListsStay
    <2>3. Patched3'
      BY <1>0, <2>1 DEF Patched3, Ready
    <2> QED
      BY <2>1, <2>2, <2>3 DEF Inv3, Tables3
  <1> QED
    BY <1>2, <1>3, <1>4, <1>5, <1>6, <1>7, <1>8, Steps3

\* What v3 has patched is what its properties say.
LEMMA Says3 == ASSUME Base, Inv3 PROVE PatchesByLabel /\ CountsTell
  <1>1. PatchesByLabel
    <2>1. \A s, F : V3!Image(s, F) = Image(s, F)
      BY DEF V3!Image, V3!Place, V3!Size, V3!Placeholder, V3!FixBytes, V3!LE, V3!Shifted, V3!Here,
             Image, Place, Size, Placeholder, FixBytes, LE, Shifted, Here
    <2>2. \A s, calls : V3!LastFixes(s, calls) = LastFixes(s, calls)
      BY DEF V3!LastFixes, V3!FixesOf, V3!Latest, LastFixes, FixesOf, Latest
    <2>3. V3!Puts(script) = Puts(script)
      BY DEF V3!Puts, Puts
    <2>4. V3!WidthsAgree(script) => WidthsAgree(script)
      BY DEF V3!WidthsAgree, V3!Puts, V3!FixesOf, WidthsAgree, Puts, FixesOf
    <2>5. outcome = "written" => Ready /\ file = buffer
      BY DEF Base, Ready
    <2> QED
      BY <2>1, <2>2, <2>3, <2>4, <2>5 DEF PatchesByLabel, V3!PatchesByLabel, Inv3, Patched3
  <1>2. CountsTell
    <2> DEFINE A == DOMAIN LastFixes(script, Puts(script))
               B == Puts(script)
               Complete == LabelsOf(script, Puts(script)) \subseteq LabelsOf(script, Fixes(script))
    <2> SUFFICES ASSUME writer = "v3", pc = "write"
                 PROVE  /\ fixed < Len(relocations) => ~ Complete
                        /\ FixedOnce => (fixed = Len(relocations) <=> Complete)
      BY DEF CountsTell, V3!CountsTell, V3!Fixes, V3!Puts, V3!LabelsOf, Fixes, Puts, LabelsOf, FixedOnce
    <2>1. /\ Cardinality(A) <= fixed /\ Len(relocations) = Cardinality(B)
          /\ FixedOnce => fixed = Cardinality(A)
      BY DEF Inv3, Patched3
    <2>2. A = {m \in B : FixesOf(script, script[m].label) # {}}
      BY DEF LastFixes
    <2>3. IsFiniteSet(B)
      <3>1. IsFiniteSet(1 .. Len(script))
        BY FS_Interval, ScriptFacts DEF Base
      <3>2. B \subseteq 1 .. Len(script)
        BY DEF Puts
      <3> QED
        BY <3>1, <3>2, FS_Subset
    <2>4. A = B <=> Complete
      <3>1. \A l : FixesOf(script, l) # {} <=> l \in LabelsOf(script, Fixes(script))
        BY DEF LabelsOf, FixesOf, Fixes
      <3>2. A = B <=> \A m \in B : script[m].label \in LabelsOf(script, Fixes(script))
        <4> HIDE DEF A, B
        <4> QED
          BY <2>2, <3>1
      <3> QED
        BY <3>2 DEF LabelsOf
    <2> HIDE DEF A, B
    <2>5. /\ Cardinality(A) = Cardinality(B) <=> A = B
          /\ Cardinality(A) \in Nat /\ Cardinality(B) \in Nat
      <3>1. A \subseteq B
        BY <2>2
      <3> QED
        BY <2>3, <3>1, FS_Subset, FS_CardinalityType
    <2>6. fixed < Len(relocations) => ~ Complete
      <3> SUFFICES ASSUME fixed < Len(relocations), Complete PROVE FALSE
        OBVIOUS
      <3>1. Cardinality(A) = Cardinality(B)
        BY <2>4, <2>5
      <3> HIDE DEF Complete
      <3>2. fixed \in Nat
        BY DEF Inv3, Patched3
      <3> QED
        BY <2>1, <2>5, <3>1, <3>2
    <2> HIDE DEF Complete
    <2>7. FixedOnce => (fixed = Len(relocations) <=> Complete)
      BY <2>1, <2>4, <2>5
    <2> QED
      BY <2>6, <2>7
  <1> QED
    BY <1>1, <1>2

-----------------------------------------------------------------------------
(* v2.                                                                     *)

FixEntry2(s) == [f \in Fixes(s) |-> [label |-> s[f].label, bytes |-> FixBytes(s, f)]]

Done2(X) == Done(script, FirstPuts(script), Cut(script, X, Len(relocation_fixes), i), 0)

Patching2(P, X) ==
    /\ i \in 1 .. Len(relocation_fixes) + 1
    /\ \A a \in 1 .. i - 1 : script[X[a]].label \in LabelsOf(script, Puts(script))
    /\ WidthsAgree(script) => buffer = Image(script, Done2(X))

Patched2 ==
    /\ Ready /\ WidthsAgree(script) => buffer = Image(script, LastFixes(script, FirstPuts(script)))
    /\ pc = "write" \/ file # old =>
          LabelsOf(script, Fixes(script)) \subseteq LabelsOf(script, Puts(script))

Tables2 ==
    \E P, X :
       /\ RelocList(P) /\ FixList(X, FixEntry2(script))
       /\ pc = "script" => i = 1
       /\ pc = "patch" => Patching2(P, X)

Inv2 == writer = "v2" => Tables2 /\ Patched2

\* The steps of v2, in the words of this module.
Begin2 ==
    /\ pc = "script" /\ at > Len(script) /\ pc' = "patch"
    /\ UNCHANGED <<script, old, at, buffer, tables, i, file, outcome>>

Found2 == {k \in 1 .. Len(relocations) : relocations[k].label = relocation_fixes[i].label}

Patch2 ==
    /\ pc = "patch" /\ i <= Len(relocation_fixes) /\ Found2 # {}
    /\ buffer' = Patched(buffer, relocations[Earliest(Found2)].offset, relocation_fixes[i].bytes)
    /\ i' = i + 1
    /\ UNCHANGED <<script, old, at, pc, tables, file, outcome>>

End2 ==
    /\ pc = "patch" /\ i > Len(relocation_fixes) /\ pc' = "write"
    /\ UNCHANGED <<script, old, at, buffer, tables, i, file, outcome>>

Fix2 ==
    /\ Call("fix")
    /\ relocation_fixes' = Append(relocation_fixes,
          [label |-> script[at].label, bytes |-> LE(Asked, script[at].width)])
    /\ UNCHANGED <<buffer, relocations, i>>

Put2 ==
    /\ PutReloc
    /\ buffer' = buffer \o Placeholder(script[at].width)
    /\ UNCHANGED <<relocation_fixes, i>>

\* Every step of v2 is one of these.
LEMMA Steps2 ==
    ASSUME Second
    PROVE  /\ writer = "v2" /\ UNCHANGED <<writer, todo, j, fixed>>
           /\ \/ PutValue /\ UNCHANGED i
              \/ Put2 \/ Fix2 \/ Begin2 \/ Patch2 \/ End2
              \/ pc = "patch" /\ Dies
              \/ WriteFile /\ UNCHANGED i
  <1>1. writer = "v2" /\ UNCHANGED <<writer, todo, j, fixed>> /\ V2!Next
    BY DEF Second
  <1>2. V2!PutEntry => PutValue /\ UNCHANGED i
    BY DEF V2!PutEntry, V2!PutValue, V2!Call, V2!tables, PutValue, Call, tables
  <1>3. V2!PutRelocation => Put2
    BY DEF V2!PutRelocation, V2!Call, V2!Placeholder, Put2, PutReloc, Call, Placeholder
  <1>4. V2!fix_relocation => Fix2
    BY DEF V2!fix_relocation, V2!Call, V2!Asked, V2!Here, V2!LE, V2!Shifted,
           Fix2, Call, Asked, Here, LE, Shifted
  <1>5. V2!BeginDump => Begin2
    BY DEF V2!BeginDump, V2!tables, Begin2, tables
  <1>6. V2!Patch => Patch2
    BY DEF V2!Patch, V2!Running, V2!Found, V2!Patched, V2!Earliest, V2!tables,
           Patch2, Found2, Patched, Earliest, tables
  <1>7. V2!PatchDies => pc = "patch" /\ Dies
    BY DEF V2!PatchDies, V2!Running, V2!Dies, V2!tables, Dies, tables
  <1>8. V2!NotFound => pc = "patch" /\ Dies
    BY DEF V2!NotFound, V2!Running, V2!Dies, V2!tables, Dies, tables
  <1>9. V2!EndPatch => End2
    BY DEF V2!EndPatch, V2!tables, End2, tables
  <1>10. V2!DumpTo => WriteFile /\ UNCHANGED i
    BY DEF V2!DumpTo, V2!WriteFile, V2!tables, WriteFile, tables,
           V2!FileWrite!Write, V2!FileWrite!Succeed, V2!FileWrite!Fail, V2!FileWrite!Refuse, V2!FileWrite!Beginning,
           FileWrite!Write, FileWrite!Succeed, FileWrite!Fail, FileWrite!Refuse, FileWrite!Beginning
  <1> QED
    BY <1>1, <1>2, <1>3, <1>4, <1>5, <1>6, <1>7, <1>8, <1>9, <1>10 DEF V2!Next

\* The entries of the tables when the program has run.
LEMMA Lookup2 ==
    ASSUME Base, pc # "script", NEW P, NEW X, RelocList(P), FixList(X, FixEntry2(script))
    PROVE  /\ IsProgram(script) /\ Len(script) \in Nat
           /\ Lists(P, Len(relocations), Puts(script)) /\ Lists(X, Len(relocation_fixes), Fixes(script))
           /\ Len(relocations) \in Nat /\ Len(relocation_fixes) \in Nat
           /\ \A a \in 1 .. Len(relocations) :
                 /\ P[a] \in Puts(script)
                 /\ relocations[a].offset = Place(script)[P[a]]
                 /\ relocations[a].label = script[P[a]].label
           /\ \A a \in 1 .. Len(relocation_fixes) :
                 /\ X[a] \in Fixes(script)
                 /\ relocation_fixes[a].label = script[X[a]].label
                 /\ relocation_fixes[a].bytes = FixBytes(script, X[a])
  <1>1. IsProgram(script) /\ Len(script) \in Nat /\ at = Len(script) + 1
    BY ScriptFacts DEF Base
  <1>2. PutsBefore(script, at) = Puts(script) /\ FixesBefore(script, at) = Fixes(script)
    BY <1>1, BeforeEnds
  <1>3. Lists(P, Len(relocations), Puts(script)) /\ Lists(X, Len(relocation_fixes), Fixes(script))
    BY <1>2 DEF RelocList, FixList, TableIs
  <1>4. \A a \in 1 .. Len(relocations) : P[a] \in Puts(script) /\ relocations[a] = RelocEntry(script)[P[a]]
    BY <1>2, <1>3 DEF RelocList, TableIs, Lists
  <1>5. \A a \in 1 .. Len(relocation_fixes) :
           X[a] \in Fixes(script) /\ relocation_fixes[a] = FixEntry2(script)[X[a]]
    BY <1>2, <1>3 DEF FixList, TableIs, Lists
  <1>6. Len(relocations) \in Nat /\ Len(relocation_fixes) \in Nat
    BY <1>3 DEF Lists
  <1>7. \A a \in 1 .. Len(relocations) :
           /\ relocations[a].offset = Place(script)[P[a]]
           /\ relocations[a].label = script[P[a]].label
    <2>1. \A k \in Puts(script) : /\ RelocEntry(script)[k].offset = Place(script)[k]
                                  /\ RelocEntry(script)[k].label = script[k].label
      BY DEF RelocEntry
    <2> QED
      BY <1>4, <2>1
  <1>8. \A f \in Fixes(script) :
           /\ FixEntry2(script)[f].label = script[f].label
           /\ FixEntry2(script)[f].bytes = FixBytes(script, f)
    BY DEF FixEntry2
  <1>9. \A a \in 1 .. Len(relocation_fixes) :
           /\ relocation_fixes[a].label = script[X[a]].label
           /\ relocation_fixes[a].bytes = FixBytes(script, X[a])
    BY <1>5, <1>8
  <1> QED
    BY <1>1, <1>3, <1>4, <1>5, <1>6, <1>7, <1>9

\* Every label that is put has one first put.
LEMMA FirstPutsOf ==
    ASSUME NEW s
    PROVE  /\ FirstPuts(s) \in SUBSET Puts(s)
           /\ \A k, m \in FirstPuts(s) : s[k].label = s[m].label => k = m
           /\ \A l \in LabelsOf(s, Puts(s)) :
                 /\ Earliest(PutsOf(s, l)) \in FirstPuts(s)
                 /\ s[Earliest(PutsOf(s, l))].label = l
  <1>1. ASSUME NEW l \in LabelsOf(s, Puts(s))
        PROVE  Earliest(PutsOf(s, l)) \in FirstPuts(s) /\ s[Earliest(PutsOf(s, l))].label = l
    <2>1. PutsOf(s, l) \in SUBSET Nat /\ PutsOf(s, l) # {}
      BY DEF PutsOf, LabelsOf, Puts
    <2>2. Earliest(PutsOf(s, l)) \in PutsOf(s, l)
      BY <2>1, FirstOf
    <2>3. Earliest(PutsOf(s, l)) \in Puts(s) /\ s[Earliest(PutsOf(s, l))].label = l
      BY <2>2 DEF PutsOf, Puts
    <2> QED
      BY <2>3 DEF FirstPuts
  <1>2. \A k, m \in FirstPuts(s) : s[k].label = s[m].label => k = m
    BY DEF FirstPuts
  <1> QED
    BY <1>1, <1>2 DEF FirstPuts

\* The first relocation of the table with a label is the first the program put.
FoundIn(s, P, n, label, found) ==
    /\ Len(s) \in Nat /\ Lists(P, n, Puts(s))
    /\ found = {a \in 1 .. n : s[P[a]].label = label} /\ found # {}

\* The first entry of the table with the label is the first call that put it.
LEMMA FoundIsFirst ==
    ASSUME NEW s, NEW P, NEW n, NEW label, NEW found, FoundIn(s, P, n, label, found)
    PROVE  Earliest(found) \in 1 .. n /\ P[Earliest(found)] = Earliest(PutsOf(s, label))
           /\ label \in LabelsOf(s, Puts(s))
  <1> DEFINE a == Earliest(found)
  <1>0. /\ Len(s) \in Nat /\ Lists(P, n, Puts(s))
        /\ found = {b \in 1 .. n : s[P[b]].label = label} /\ found # {}
    BY DEF FoundIn
  <1>1. n \in Nat /\ found \in SUBSET Nat
    BY <1>0 DEF Lists
  <1>2. a \in found /\ \A b \in found : a <= b
    BY <1>0, <1>1, FirstOf
  <1>3. P[a] \in PutsOf(s, label) /\ PutsOf(s, label) \in SUBSET Nat
    BY <1>0, <1>2 DEF Lists, PutsOf, Puts
  <1>4. \A m \in PutsOf(s, label) : P[a] <= m
    <2> TAKE m \in PutsOf(s, label)
    <2>1. m \in Puts(s) /\ s[m].label = label /\ Puts(s) \in SUBSET Nat
      BY DEF PutsOf, Puts
    <2>2. PICK b \in 1 .. n : P[b] = m
      BY <1>0, <2>1 DEF Lists
    <2>3. b \in found /\ a <= b /\ a \in 1 .. n
      BY <1>0, <1>2, <2>1, <2>2
    <2>4. P[a] \in Nat /\ P[b] \in Nat /\ (a < b => P[a] < P[b])
      BY <1>0, <2>1, <2>3 DEF Lists
    <2> HIDE DEF a
    <2> QED
      BY <1>1, <2>2, <2>3, <2>4
  <1>5. Earliest(PutsOf(s, label)) = P[a]
    BY <1>3, <1>4, FirstIs
  <1>6. label \in LabelsOf(s, Puts(s))
    BY <1>3 DEF LabelsOf, PutsOf, Puts
  <1> QED
    BY <1>0, <1>2, <1>5, <1>6

\* One fix further, it is seen by the puts of its label.
LEMMA SeenNextFix2 ==
    ASSUME NEW s, Len(s) \in Nat, NEW X, NEW n, Lists(X, n, Fixes(s)), NEW a \in 1 .. n,
           NEW m \in Puts(s)
    PROVE  /\ X[a] \in FixesOf(s, s[m].label) =>
                 Seen(s, m, Cut(s, X, n, a + 1), 0) = Seen(s, m, Cut(s, X, n, a), 0) \cup {X[a]}
           /\ X[a] \notin FixesOf(s, s[m].label) =>
                 Seen(s, m, Cut(s, X, n, a + 1), 0) = Seen(s, m, Cut(s, X, n, a), 0)
           /\ \A g \in Seen(s, m, Cut(s, X, n, a), 0) : g < X[a]
  <1> DEFINE c == Cut(s, X, n, a)
             c2 == Cut(s, X, n, a + 1)
  <1>1. Fixes(s) \in SUBSET (1 .. Len(s)) /\ FixesOf(s, s[m].label) \subseteq Fixes(s) /\ ~ (m < 0)
    BY DEF Fixes, FixesOf, Puts
  <1>2. c = X[a] /\ \A f \in Fixes(s) : f < c2 <=> f < X[a] \/ f = X[a]
    <2> DEFINE S == Fixes(s)
    <2>1. S \in SUBSET (1 .. Len(s)) /\ Lists(X, n, S)
      BY <1>1
    <2>2. c = X[a]
      BY DEF Cut
    <2>3. \A f \in S : f < c2 <=> f < X[a] \/ f = X[a]
      <3> HIDE DEF S
      <3> QED
        BY <2>1, NextCut
    <2> QED
      BY <2>2, <2>3
  <1> HIDE DEF c, c2
  <1>3. Seen(s, m, c, 0) = {f \in FixesOf(s, s[m].label) : f < X[a]}
    BY <1>1, <1>2 DEF Seen
  <1>4. Seen(s, m, c2, 0) = {f \in FixesOf(s, s[m].label) : f < X[a] \/ f = X[a]}
    BY <1>1, <1>2 DEF Seen
  <1>5. /\ X[a] \in FixesOf(s, s[m].label) => Seen(s, m, c2, 0) = Seen(s, m, c, 0) \cup {X[a]}
        /\ X[a] \notin FixesOf(s, s[m].label) => Seen(s, m, c2, 0) = Seen(s, m, c, 0)
        /\ \A g \in Seen(s, m, c, 0) : g < X[a]
    BY <1>3, <1>4
  <1> QED
    BY <1>5 DEF c, c2


\* Each step of the loop keeps what is said of it.
LEMMA Begins2 ==
    ASSUME Base, NEW P, NEW X, RelocList(P), FixList(X, FixEntry2(script)), i = 1, Begin2
    PROVE  Patching2(P, X)'
  <1>1. IsProgram(script) /\ Len(script) \in Nat /\ at = Len(script) + 1 /\ buffer = Images(script, << >>)[Len(script)]
    BY ScriptFacts DEF Base, Begin2
  <1>2. FixesBefore(script, at) = Fixes(script)
    BY <1>1, BeforeEnds
  <1>3. Lists(X, Len(relocation_fixes), Fixes(script))
    BY <1>2 DEF FixList, TableIs
  <1>4. Len(relocation_fixes) \in Nat
    BY <1>3 DEF Lists
  <1> DEFINE c == Cut(script, X, Len(relocation_fixes), 1)
             Calls == FirstPuts(script)
  <1>5. \A m \in Calls : Seen(script, m, c, 0) = {}
    <2> TAKE m \in Calls
    <2>1. m \in Puts(script) /\ ~ (m < 0)
      BY FirstPutsOf DEF Puts
    <2> QED
      BY <1>1, <1>3, <2>1, SeenNone
  <1> HIDE DEF c, Calls
  <1>6. Done(script, Calls, c, 0) = << >>
    BY <1>5, DoneNone
  <1>7. Done2(X)' = << >>
    BY <1>6 DEF Done2, Begin2, tables, c, Calls
  <1>8. buffer' = Image(script', << >>) /\ i' = 1
    BY <1>1, ImageIsLast DEF Begin2
  <1>9. UNCHANGED <<relocations, relocation_fixes>>
    BY DEF Begin2, tables
  <1> QED
    BY <1>4, <1>7, <1>8, <1>9 DEF Patching2

LEMMA Patches2 ==
    ASSUME Base, NEW P, NEW X, RelocList(P), FixList(X, FixEntry2(script)), Patching2(P, X), Patch2
    PROVE  Patching2(P, X)'
  <1> DEFINE n == Len(relocations)
             nf == Len(relocation_fixes)
             f == X[i]
             l == script[f].label
             k == Earliest(PutsOf(script, l))
             c == Cut(script, X, nf, i)
             c2 == Cut(script, X, nf, i + 1)
             Calls == FirstPuts(script)
  <1>1. /\ IsProgram(script) /\ Len(script) \in Nat
        /\ Lists(P, n, Puts(script)) /\ n \in Nat /\ Lists(X, nf, Fixes(script)) /\ nf \in Nat
        /\ i \in 1 .. nf /\ f \in Fixes(script)
        /\ Found2 = {a \in 1 .. n : script[P[a]].label = l}
        /\ relocation_fixes[i].bytes = FixBytes(script, f)
    <2>1. /\ IsProgram(script) /\ Len(script) \in Nat
          /\ Lists(P, n, Puts(script)) /\ n \in Nat /\ Lists(X, nf, Fixes(script)) /\ nf \in Nat
      BY Lookup2 DEF Patch2
    <2>2. i \in 1 .. nf
      BY <2>1 DEF Patch2, Patching2
    <2>3. X[i] \in Fixes(script) /\ relocation_fixes[i].label = l /\ relocation_fixes[i].bytes = FixBytes(script, f)
      BY <2>2, Lookup2 DEF Patch2
    <2>4. \A a \in 1 .. n : relocations[a].label = script[P[a]].label
      BY Lookup2 DEF Patch2
    <2> QED
      BY <2>1, <2>2, <2>3, <2>4 DEF Found2
  <1>2. /\ Earliest(Found2) \in 1 .. n /\ P[Earliest(Found2)] = k
        /\ l \in LabelsOf(script, Puts(script))
    <2>1. PICK found : found = Found2
      OBVIOUS
    <2>2. found # {}
      BY <2>1 DEF Patch2
    <2>3. FoundIn(script, P, n, l, found)
      BY <1>1, <2>1, <2>2 DEF FoundIn
    <2>4. /\ Earliest(found) \in 1 .. n /\ P[Earliest(found)] = k
          /\ l \in LabelsOf(script, Puts(script))
      <3> HIDE DEF n, l
      <3> QED
        BY <2>3, FoundIsFirst
    <2> QED
      BY <2>1, <2>4
  <1>3. relocations[Earliest(Found2)].offset = Place(script)[k]
    BY <1>2, Lookup2 DEF Patch2
  <1>4. buffer' = Patched(buffer, Place(script)[k], FixBytes(script, f))
    BY <1>1, <1>3 DEF Patch2
  <1>5. k \in Calls /\ script[k].label = l /\ f \in FixesOf(script, script[k].label) /\ Calls \in SUBSET Puts(script)
    <2>1. k \in Calls /\ script[k].label = l /\ Calls \in SUBSET Puts(script)
      <3> HIDE DEF l
      <3> QED
        BY <1>2, FirstPutsOf
    <2> QED
      BY <1>1, <2>1 DEF FixesOf, Fixes
  <1>6. \A m \in Calls \ {k} : f \notin FixesOf(script, script[m].label)
    BY <1>5, FirstPutsOf DEF FixesOf
  <1>7. \A m \in Calls :
           /\ f \in FixesOf(script, script[m].label) =>
                 Seen(script, m, c2, 0) = Seen(script, m, c, 0) \cup {f}
           /\ f \notin FixesOf(script, script[m].label) =>
                 Seen(script, m, c2, 0) = Seen(script, m, c, 0)
           /\ \A g \in Seen(script, m, c, 0) : g < f
    <2> TAKE m \in Calls
    <2>1. m \in Puts(script)
      BY <1>5
    <2> HIDE DEF nf, Calls
    <2> QED
      BY <1>1, <2>1, SeenNextFix2
  <1>8. Done2(X)' = Done(script, Calls, c2, 0) /\ Done2(X) = Done(script, Calls, c, 0)
    BY DEF Done2, Patch2, tables
  <1>9. \A a \in 1 .. i : script[X[a]].label \in LabelsOf(script, Puts(script))
    <2> TAKE a \in 1 .. i
    <2>1. CASE a = i
      BY <1>2, <2>1
    <2>2. CASE a # i
      <3>1. a \in 1 .. i - 1
        BY <1>1, <2>2
      <3> QED
        BY <3>1 DEF Patching2
    <2> QED
      BY <2>1, <2>2
  <1> HIDE DEF c, c2, f, k, l, Calls, n, nf
  <1>10. WidthsAgree(script) => buffer' = Image(script, Done(script, Calls, c2, 0))
    <2> HAVE WidthsAgree(script)
    <2>1. buffer = Image(script, Done(script, Calls, c, 0))
      BY <1>8 DEF Patching2
    <2>2. /\ \A g \in Seen(script, k, c, 0) : g < f
          /\ Seen(script, k, c2, 0) = Seen(script, k, c, 0) \cup {f}
          /\ \A m \in Calls \ {k} : Seen(script, m, c2, 0) = Seen(script, m, c, 0)
      BY <1>5, <1>6, <1>7
    <2> QED
      BY <1>1, <1>4, <1>5, <2>1, <2>2, DoneMore
  <1>11. script' = script /\ i' = i + 1 /\ UNCHANGED <<relocations, relocation_fixes>>
    BY DEF Patch2, tables
  <1>12. i + 1 \in 1 .. Len(relocation_fixes) + 1 /\ i + 1 - 1 = i
    BY <1>1 DEF nf
  <1> QED
    BY <1>8, <1>9, <1>10, <1>11, <1>12 DEF Patching2

\* When the loop is done the first put of every label has its last fix.
LEMMA Ends2 ==
    ASSUME Base, NEW P, NEW X, RelocList(P), FixList(X, FixEntry2(script)), Patching2(P, X), End2
    PROVE  Patched2'
  <1> DEFINE nf == Len(relocation_fixes)
             c == Cut(script, X, nf, i)
             Calls == FirstPuts(script)
  <1>1. /\ Len(script) \in Nat /\ Lists(X, nf, Fixes(script)) /\ nf \in Nat
        /\ i \in 1 .. nf + 1 /\ i > nf
    BY Lookup2 DEF End2, Patching2
  <1>2. \A m \in Calls : Seen(script, m, c, 0) = FixesOf(script, script[m].label)
    <2> TAKE m \in Calls
    <2>1. m \in Puts(script)
      BY FirstPutsOf
    <2> HIDE DEF nf
    <2> QED
      BY <1>1, <2>1, SeenAll
  <1>3. Done2(X) = LastFixes(script, FirstPuts(script))
    <2>1. Done2(X) = Done(script, Calls, c, 0)
      BY DEF Done2
    <2> HIDE DEF c, Calls
    <2>2. Done2(X) = LastFixes(script, Calls)
      BY <1>2, <2>1, DoneAll
    <2> QED
      BY <2>2 DEF Calls
  <1>4. LabelsOf(script, Fixes(script)) \subseteq LabelsOf(script, Puts(script))
    <2> SUFFICES ASSUME NEW f \in Fixes(script) PROVE script[f].label \in LabelsOf(script, Puts(script))
      BY DEF LabelsOf
    <2>1. PICK a \in 1 .. nf : X[a] = f
      BY <1>1 DEF Lists
    <2>2. a \in 1 .. i - 1
      BY <1>1
    <2> QED
      BY <2>1, <2>2 DEF Patching2
  <1> QED
    BY <1>3, <1>4 DEF Patched2, Patching2, End2, tables

LEMMA ListsStay2 ==
    ASSUME NEW P, NEW X, RelocList(P), FixList(X, FixEntry2(script)),
           UNCHANGED <<script, old, at, relocations, relocation_fixes>>
    PROVE  RelocList(P)' /\ FixList(X, FixEntry2(script))'
  <1>1. RelocList(P)'
    BY DEF RelocList
  <1>2. FixList(X, FixEntry2(script))'
    BY DEF FixList, FixEntry2
  <1> QED
    BY <1>1, <1>2

LEMMA BaseSecond == ASSUME Base, Second PROVE Base'
  <1>1. UNCHANGED writer
    BY Steps2
  <1>2. ASSUME PutValue \/ Put2 \/ Fix2 PROVE Base'
    <2>1. CallStep
      BY <1>1, <1>2 DEF CallStep, Put2, PutReloc, Fix2
    <2> QED
      BY <2>1, BaseCall
  <1>3. ASSUME Begin2 \/ Patch2 \/ End2 PROVE Base'
    <2>1. at > Len(script)
      BY <1>3, ScriptFacts DEF Base, Begin2, Patch2, End2
    <2>2. DumpStep
      BY <1>1, <1>3, <2>1 DEF DumpStep, Begin2, Patch2, End2
    <2> QED
      BY <2>2, BaseDump
  <1>4. ASSUME pc = "patch" /\ Dies PROVE Base'
    BY <1>1, <1>4, BaseDies
  <1>5. ASSUME WriteFile PROVE Base'
    BY <1>1, <1>5, BaseWrite
  <1> QED
    BY <1>2, <1>3, <1>4, <1>5, Steps2

\* The invariant of v2 is inductive.
LEMMA Second2 == ASSUME Base, Inv2, Second PROVE Inv2'
  <1>0. Tables2 /\ Patched2 /\ UNCHANGED writer
    BY Steps2 DEF Inv2
  <1>1. PICK P, X : /\ RelocList(P) /\ FixList(X, FixEntry2(script))
                    /\ pc = "script" => i = 1
                    /\ pc = "patch" => Patching2(P, X)
    BY <1>0 DEF Tables2
  <1>a. ASSUME NEW op, Call(op)
        PROVE  /\ pc = "script" /\ pc' = "script" /\ script' = script
               /\ FixEntry2(script)' = FixEntry2(script)
               /\ Patched2'
    <2>1. pc = "script" /\ pc' = "script" /\ script' = script /\ old' = old /\ file' = file
      BY <1>a, CallAt
    <2>2. Patched2'
      BY <2>1 DEF Patched2, Ready, Base
    <2> QED
      BY <2>1, <2>2 DEF FixEntry2
  <1>2. CASE PutValue /\ UNCHANGED i
    <2>1. Call("value") /\ UNCHANGED <<relocations, relocation_fixes>>
      BY <1>2 DEF PutValue, tables
    <2>3. RelocList(P)'
      BY <1>1, <2>1, RelocListCall
    <2>4. PICK entry : entry = FixEntry2(script)
      OBVIOUS
    <2>5. FixList(X, entry)'
      BY <1>1, <2>1, <2>4, FixListCall
    <2>7. FixList(X, FixEntry2(script))'
      BY <1>a, <2>1, <2>4, <2>5 DEF FixList
    <2> QED
      BY <1>1, <1>2, <1>a, <2>1, <2>3, <2>7 DEF Inv2, Tables2
  <1>3. CASE Put2
    <2>1. Call("reloc") /\ UNCHANGED relocation_fixes /\ PutReloc /\ UNCHANGED i
      BY <1>3 DEF Put2, PutReloc
    <2>3. PICK Q : RelocList(Q)'
      BY <1>1, <2>1, RelocListPut
    <2>4. PICK entry : entry = FixEntry2(script)
      OBVIOUS
    <2>5. FixList(X, entry)'
      BY <1>1, <2>1, <2>4, FixListCall
    <2>7. FixList(X, FixEntry2(script))'
      BY <1>a, <2>1, <2>4, <2>5 DEF FixList
    <2> QED
      BY <1>1, <1>a, <2>1, <2>3, <2>7 DEF Inv2, Tables2
  <1>4. CASE Fix2
    <2>1. Call("fix") /\ UNCHANGED relocations /\ UNCHANGED i
      BY <1>4 DEF Fix2
    <2>3. RelocList(P)'
      BY <1>1, <2>1, RelocListCall
    <2>4. PICK entry : entry = FixEntry2(script)
      OBVIOUS
    <2>5. DOMAIN entry = Fixes(script) /\ relocation_fixes' = Append(relocation_fixes, entry[at])
      BY <1>4, <2>1, <2>4, AskedIs DEF FixEntry2, Fix2, FixBytes, FixValue
    <2>6. PICK Y : FixList(Y, entry)'
      BY <1>1, <2>1, <2>4, <2>5, FixListFix
    <2>8. FixList(Y, FixEntry2(script))'
      BY <1>a, <2>1, <2>4, <2>6 DEF FixList
    <2> QED
      BY <1>1, <1>a, <2>1, <2>3, <2>8 DEF Inv2, Tables2
  <1>5. CASE Begin2 \/ Patch2
    <2>1. /\ UNCHANGED <<script, old, at, relocations, relocation_fixes>>
          /\ pc' = "patch" /\ file' = file /\ pc # "end"
      BY <1>5 DEF Begin2, Patch2, tables
    <2>2. RelocList(P)' /\ FixList(X, FixEntry2(script))'
      BY <1>1, <2>1, ListsStay2
    <2>3. Patching2(P, X)'
      <3>1. CASE Begin2
        BY <1>1, <3>1, Begins2 DEF Begin2
      <3>2. CASE Patch2
        BY <1>1, <3>2, Patches2 DEF Patch2
      <3> QED
        BY <1>5, <3>1, <3>2
    <2>4. Patched2'
      BY <2>1 DEF Patched2, Ready, Base
    <2> QED
      BY <2>1, <2>2, <2>3, <2>4 DEF Inv2, Tables2
  <1>6. CASE End2
    <2>1. UNCHANGED <<script, old, at, relocations, relocation_fixes>> /\ pc' = "write" /\ pc = "patch"
      BY <1>6 DEF End2, tables
    <2>2. RelocList(P)' /\ FixList(X, FixEntry2(script))'
      BY <1>1, <2>1, ListsStay2
    <2>3. Patched2'
      BY <1>1, <1>6, <2>1, Ends2
    <2> QED
      BY <2>1, <2>2, <2>3 DEF Inv2, Tables2
  <1>7. CASE pc = "patch" /\ Dies
    <2>1. UNCHANGED <<script, old, at, relocations, relocation_fixes>> /\ pc' = "end"
      BY <1>7 DEF Dies, tables
    <2>2. RelocList(P)' /\ FixList(X, FixEntry2(script))'
      BY <1>1, <2>1, ListsStay2
    <2>3. Patched2'
      <3>1. ~ Ready' /\ file' = file
        BY <1>0, <1>7, BaseDies
      <3> QED
        BY <1>7, <2>1, <3>1 DEF Patched2, Base
    <2> QED
      BY <2>1, <2>2, <2>3 DEF Inv2, Tables2
  <1>8. CASE WriteFile /\ UNCHANGED i
    <2>1. UNCHANGED <<script, old, at, relocations, relocation_fixes, buffer>> /\ pc' = "end" /\ pc = "write"
      BY <1>8, WriteIs DEF tables
    <2>2. RelocList(P)' /\ FixList(X, FixEntry2(script))'
      BY <1>1, <2>1, ListsStay2
    <2>3. Patched2'
      BY <1>0, <2>1 DEF Patched2, Ready
    <2> QED
      BY <2>1, <2>2, <2>3 DEF Inv2, Tables2
  <1> QED
    BY <1>2, <1>3, <1>4, <1>5, <1>6, <1>7, <1>8, Steps2

\* It implies what is promised of v2.
LEMMA Says2 == ASSUME Base, Inv2 PROVE FirstOnly
  <1>1. \A s, F : V2!Image(s, F) = Image(s, F)
    BY DEF V2!Image, V2!Place, V2!Size, V2!Placeholder, V2!FixBytes, V2!LE, V2!Shifted, V2!Here,
           Image, Place, Size, Placeholder, FixBytes, LE, Shifted, Here
  <1>2. \A s, calls : V2!LastFixes(s, calls) = LastFixes(s, calls)
    BY DEF V2!LastFixes, V2!FixesOf, V2!Latest, LastFixes, FixesOf, Latest
  <1>3. V2!FirstPuts(script) = FirstPuts(script)
    BY DEF V2!FirstPuts, V2!Puts, V2!PutsOf, V2!Earliest, FirstPuts, Puts, PutsOf, Earliest
  <1>4. V2!WidthsAgree(script) => WidthsAgree(script)
    BY DEF V2!WidthsAgree, V2!Puts, V2!FixesOf, WidthsAgree, Puts, FixesOf
  <1>5. /\ V2!LabelsOf(script, V2!Fixes(script)) = LabelsOf(script, Fixes(script))
        /\ V2!LabelsOf(script, V2!Puts(script)) = LabelsOf(script, Puts(script))
    BY DEF V2!LabelsOf, V2!Fixes, V2!Puts, LabelsOf, Fixes, Puts
  <1>6. outcome = "written" => Ready /\ file = buffer
    BY DEF Base, Ready
  <1> QED
    BY <1>1, <1>2, <1>3, <1>4, <1>5, <1>6 DEF FirstOnly, V2!FirstOnly, Inv2, Patched2

-----------------------------------------------------------------------------
(* v1.                                                                     *)

Never(s) == LabelsOf(s, Fixes(s)) \ LabelsOf(s, Puts(s))

FirstFix(s, l) == Earliest(FixesOf(s, l))

Done1(s, left) ==
    [k \in {m \in FirstPuts(s) : FixesOf(s, s[m].label) # {} /\ s[m].label \notin left} |->
        FirstFix(s, s[k].label)]

StrayBytes(s, l) == FixBytes(s, FirstFix(s, l))

\* The labels fixed and never put that are not left and reach the p-th byte of the file.
Strays(s, left, p) == {l \in Never(s) \ left : p <= Len(StrayBytes(s, l))}

\* The p-th byte of the file is of a placeholder that is filled.
Filled(s, left, p) ==
    \E k \in DOMAIN Done1(s, left) : p \in Place(s)[k] + 1 .. Place(s)[k] + s[k].width

\* Equal but for the bytes that stray fixes wrote over.
Agrees(s, left, b, c) ==
    /\ b \in Seq(Byte) /\ c \in Seq(Byte) /\ Len(b) = Len(c)
    /\ \A p \in 1 .. Len(b) :
          \/ \E l \in Strays(s, left, p) : b[p] = StrayBytes(s, l)[p]
          \/ b[p] = c[p] /\ (Strays(s, left, p) = {} \/ Filled(s, left, p))

\* The first fix of a label is one of its fixes.
LEMMA FirstFixOf ==
    ASSUME NEW s, NEW l, FixesOf(s, l) # {} \/ l \in LabelsOf(s, Fixes(s))
    PROVE  /\ FirstFix(s, l) \in FixesOf(s, l) /\ FirstFix(s, l) \in Fixes(s)
           /\ FixesOf(s, l) # {} /\ l \in LabelsOf(s, Fixes(s))
           /\ s[FirstFix(s, l)].label = l
  <1>1. FixesOf(s, l) \in SUBSET Nat /\ FixesOf(s, l) # {}
    BY DEF FixesOf, LabelsOf, Fixes
  <1>2. FirstFix(s, l) \in FixesOf(s, l)
    BY <1>1, FirstOf DEF FirstFix
  <1> QED
    BY <1>1, <1>2 DEF FixesOf, Fixes, LabelsOf

\* A patch changes the bytes it covers, and not the length.
LEMMA PatchedType ==
    ASSUME NEW b \in Seq(Byte), NEW offset \in Nat, NEW x \in Seq(Byte)
    PROVE  /\ Patched(b, offset, x) \in Seq(Byte) /\ Len(Patched(b, offset, x)) = Len(b)
           /\ Len(b) \in Nat /\ Len(x) \in Nat
           /\ \A p \in 1 .. Len(b) :
                 Patched(b, offset, x)[p] = IF p \in offset + 1 .. offset + Len(x) THEN x[p - offset] ELSE b[p]
  <1>1. Len(b) \in Nat /\ Len(x) \in Nat /\ \A p \in 1 .. Len(b) : b[p] \in Byte
    OBVIOUS
  <1>2. \A q \in 1 .. Len(x) : x[q] \in Byte
    OBVIOUS
  <1>3. \A p \in 1 .. Len(b) : p \in offset + 1 .. offset + Len(x) => p - offset \in 1 .. Len(x)
    BY <1>1
  <1>4. \A p \in 1 .. Len(b) :
           (IF p \in offset + 1 .. offset + Len(x) THEN x[p - offset] ELSE b[p]) \in Byte
    BY <1>1, <1>2, <1>3
  <1> QED
    BY <1>1, <1>4 DEF Patched

\* What is patched are puts, with fixes of their width.
LEMMA Done1Fits ==
    ASSUME NEW s, WidthsAgree(s), NEW left
    PROVE  Fits(s, Done1(s, left))
  <1> DEFINE F == Done1(s, left)
  <1>1. DOMAIN F = {m \in FirstPuts(s) : FixesOf(s, s[m].label) # {} /\ s[m].label \notin left}
    BY DEF Done1
  <1>2. ASSUME NEW k \in DOMAIN F PROVE k \in Puts(s) /\ F[k] \in Fixes(s) /\ s[F[k]].width = s[k].width
    <2>1. k \in Puts(s) /\ FixesOf(s, s[k].label) # {} /\ F[k] = FirstFix(s, s[k].label)
      BY <1>1, FirstPutsOf DEF Done1
    <2>2. F[k] \in FixesOf(s, s[k].label) /\ F[k] \in Fixes(s)
      BY <2>1, FirstFixOf
    <2> QED
      BY <2>1, <2>2 DEF WidthsAgree
  <1> QED
    BY <1>2 DEF Fits

\* Nothing is patched while all labels are left, and all when none is.
LEMMA Done1None ==
    ASSUME NEW s
    PROVE  Done1(s, LabelsOf(s, Fixes(s))) = << >>
  <1> DEFINE S == {m \in FirstPuts(s) : FixesOf(s, s[m].label) # {} /\ s[m].label \notin LabelsOf(s, Fixes(s))}
  <1>1. S = {}
    BY FirstFixOf
  <1> QED
    BY <1>1 DEF Done1

LEMMA Done1All == ASSUME NEW s PROVE Done1(s, {}) = FirstFixes(s, FirstPuts(s))
  BY DEF Done1, FirstFixes, FirstFix

\* A fix of a label that is put patches its first put,
LEMMA Done1Put ==
    ASSUME NEW s, IsProgram(s), WidthsAgree(s), NEW left, NEW l \in left,
           l \in LabelsOf(s, Fixes(s)), l \in LabelsOf(s, Puts(s))
    PROVE  Patched(Image(s, Done1(s, left)), Place(s)[Earliest(PutsOf(s, l))], FixBytes(s, FirstFix(s, l)))
              = Image(s, Done1(s, left \ {l}))
  <1> DEFINE F == Done1(s, left)
             G == Done1(s, left \ {l})
             k == Earliest(PutsOf(s, l))
             f == FirstFix(s, l)
  <1>1. Fits(s, F) /\ Fits(s, G)
    BY Done1Fits
  <1>2. /\ k \in FirstPuts(s) /\ s[k].label = l /\ k \in Puts(s)
        /\ f \in Fixes(s) /\ f \in FixesOf(s, l) /\ FixesOf(s, l) # {}
        /\ \A m \in FirstPuts(s) : s[m].label = l => m = k
    BY FirstPutsOf, FirstFixOf
  <1>3. s[f].width = s[k].width
    BY <1>2 DEF WidthsAgree
  <1>4. /\ DOMAIN F = {m \in FirstPuts(s) : FixesOf(s, s[m].label) # {} /\ s[m].label \notin left}
        /\ DOMAIN G = {m \in FirstPuts(s) : FixesOf(s, s[m].label) # {} /\ s[m].label \notin left \ {l}}
        /\ \A m \in DOMAIN F : F[m] = FirstFix(s, s[m].label)
        /\ \A m \in DOMAIN G : G[m] = FirstFix(s, s[m].label)
    BY DEF Done1
  <1> HIDE DEF F, G, k
  <1>5. DOMAIN G = DOMAIN F \cup {k}
    BY <1>2, <1>4
  <1>6. G[k] = f
    BY <1>2, <1>4, <1>5
  <1>7. \A m \in DOMAIN F \ {k} : G[m] = F[m]
    BY <1>4, <1>5
  <1> HIDE DEF f
  <1>8. Patched(Image(s, F), Place(s)[k], FixBytes(s, f)) = Image(s, G)
    BY <1>1, <1>2, <1>3, <1>5, <1>6, <1>7, PatchedImage
  <1> QED
    BY <1>8 DEF F, G, k, f

\* and one of a label that is never put patches none.
LEMMA Done1Never ==
    ASSUME NEW s, NEW left, NEW l, l \notin LabelsOf(s, Puts(s))
    PROVE  Done1(s, left \ {l}) = Done1(s, left)
  <1>1. \A m \in FirstPuts(s) : s[m].label # l
    BY DEF FirstPuts, LabelsOf
  <1>2. {m \in FirstPuts(s) : FixesOf(s, s[m].label) # {} /\ s[m].label \notin left \ {l}}
           = {m \in FirstPuts(s) : FixesOf(s, s[m].label) # {} /\ s[m].label \notin left}
    BY <1>1
  <1> QED
    BY <1>2 DEF Done1

\* The placeholders that are filled when a label is no longer left.
LEMMA Done1More ==
    ASSUME NEW s, NEW left, NEW l \in left, l \in LabelsOf(s, Fixes(s)), l \in LabelsOf(s, Puts(s))
    PROVE  DOMAIN Done1(s, left \ {l}) = DOMAIN Done1(s, left) \cup {Earliest(PutsOf(s, l))}
  <1> DEFINE k == Earliest(PutsOf(s, l))
  <1>1. /\ k \in FirstPuts(s) /\ s[k].label = l /\ FixesOf(s, l) # {}
        /\ \A m \in FirstPuts(s) : s[m].label = l => m = k
    BY FirstPutsOf, FirstFixOf
  <1>2. /\ DOMAIN Done1(s, left) = {m \in FirstPuts(s) : FixesOf(s, s[m].label) # {} /\ s[m].label \notin left}
        /\ DOMAIN Done1(s, left \ {l}) =
              {m \in FirstPuts(s) : FixesOf(s, s[m].label) # {} /\ s[m].label \notin left \ {l}}
    BY DEF Done1
  <1> HIDE DEF k
  <1>3. DOMAIN Done1(s, left \ {l}) = DOMAIN Done1(s, left) \cup {k}
    BY <1>1, <1>2
  <1> QED
    BY <1>3 DEF k

\* The same patch of a placeholder on both sides keeps them equal,
LEMMA PatchedAgrees ==
    ASSUME NEW s, NEW left, NEW b, NEW c, Agrees(s, left, b, c), NEW l \in left,
           l \in LabelsOf(s, Fixes(s)), l \in LabelsOf(s, Puts(s)),
           NEW k, k = Earliest(PutsOf(s, l)), Place(s)[k] \in Nat,
           NEW x \in Seq(Byte), Len(x) = s[k].width
    PROVE  Agrees(s, left \ {l}, Patched(b, Place(s)[k], x), Patched(c, Place(s)[k], x))
  <1> DEFINE o == Place(s)[k]
             b2 == Patched(b, o, x)
             c2 == Patched(c, o, x)
  <1>1. /\ b \in Seq(Byte) /\ c \in Seq(Byte) /\ Len(b) = Len(c)
        /\ \A p \in 1 .. Len(b) :
              \/ \E m \in Strays(s, left, p) : b[p] = StrayBytes(s, m)[p]
              \/ b[p] = c[p] /\ (Strays(s, left, p) = {} \/ Filled(s, left, p))
    BY DEF Agrees
  <1>2. \A p : Strays(s, left \ {l}, p) = Strays(s, left, p)
    BY DEF Strays, Never
  <1>3. DOMAIN Done1(s, left \ {l}) = DOMAIN Done1(s, left) \cup {k}
    BY Done1More
  <1>4. /\ \A p : Filled(s, left, p) => Filled(s, left \ {l}, p)
        /\ \A p \in o + 1 .. o + Len(x) : Filled(s, left \ {l}, p)
    BY <1>3 DEF Filled
  <1>0. o \in Nat
    OBVIOUS
  <1> HIDE DEF o
  <1>5. /\ b2 \in Seq(Byte) /\ Len(b2) = Len(b)
        /\ \A p \in 1 .. Len(b) : b2[p] = IF p \in o + 1 .. o + Len(x) THEN x[p - o] ELSE b[p]
    BY <1>0, <1>1, PatchedType
  <1>6. /\ c2 \in Seq(Byte) /\ Len(c2) = Len(c)
        /\ \A p \in 1 .. Len(c) : c2[p] = IF p \in o + 1 .. o + Len(x) THEN x[p - o] ELSE c[p]
    BY <1>0, <1>1, PatchedType
  <1> HIDE DEF b2, c2
  <1>7. ASSUME NEW p \in 1 .. Len(b)
        PROVE  \/ \E m \in Strays(s, left \ {l}, p) : b2[p] = StrayBytes(s, m)[p]
               \/ b2[p] = c2[p] /\ (Strays(s, left \ {l}, p) = {} \/ Filled(s, left \ {l}, p))
    <2>1. CASE p \in o + 1 .. o + Len(x)
      BY <1>1, <1>4, <1>5, <1>6, <2>1
    <2>2. CASE p \notin o + 1 .. o + Len(x)
      <3>1. b2[p] = b[p] /\ c2[p] = c[p]
        BY <1>1, <1>5, <1>6, <2>2
      <3> QED
        BY <1>1, <1>2, <1>4, <3>1
    <2> QED
      BY <2>1, <2>2
  <1> QED
    BY <1>1, <1>5, <1>6, <1>7 DEF Agrees, b2, c2, o

\* and a stray patch leaves its own bytes.
LEMMA PatchedStray ==
    ASSUME NEW s, NEW left, NEW b, NEW c, Agrees(s, left, b, c), NEW l \in left, l \in Never(s),
           NEW x, x = StrayBytes(s, l), x \in Seq(Byte)
    PROVE  Agrees(s, left \ {l}, Patched(b, 0, x), c)
  <1> DEFINE b2 == Patched(b, 0, x)
  <1>1. /\ b \in Seq(Byte) /\ c \in Seq(Byte) /\ Len(b) = Len(c)
        /\ \A p \in 1 .. Len(b) :
              \/ \E m \in Strays(s, left, p) : b[p] = StrayBytes(s, m)[p]
              \/ b[p] = c[p] /\ (Strays(s, left, p) = {} \/ Filled(s, left, p))
    BY DEF Agrees
  <1>2. \A p : Filled(s, left \ {l}, p) <=> Filled(s, left, p)
    BY Done1Never DEF Filled, Never
  <1>3. /\ b2 \in Seq(Byte) /\ Len(b2) = Len(b)
        /\ \A p \in 1 .. Len(b) : b2[p] = IF p \in 0 + 1 .. 0 + Len(x) THEN x[p - 0] ELSE b[p]
    BY <1>1, PatchedType
  <1> HIDE DEF b2
  <1>4. ASSUME NEW p \in 1 .. Len(b)
        PROVE  \/ \E m \in Strays(s, left \ {l}, p) : b2[p] = StrayBytes(s, m)[p]
               \/ b2[p] = c[p] /\ (Strays(s, left \ {l}, p) = {} \/ Filled(s, left \ {l}, p))
    <2>1. Len(x) \in Nat /\ Len(b) \in Nat
      BY <1>1
    <2>2. CASE p <= Len(x)
      <3>1. b2[p] = x[p]
        BY <1>3, <2>1, <2>2
      <3>2. l \in Strays(s, left \ {l}, p)
        BY <2>2 DEF Strays
      <3> QED
        BY <3>1, <3>2
    <2>3. CASE ~ (p <= Len(x))
      <3>1. b2[p] = b[p]
        BY <1>3, <2>1, <2>3
      <3>2. Strays(s, left \ {l}, p) = Strays(s, left, p)
        BY <2>3 DEF Strays
      <3> QED
        BY <1>1, <1>2, <3>1, <3>2
    <2> QED
      BY <2>2, <2>3
  <1> QED
    BY <1>1, <1>3, <1>4 DEF Agrees, b2

-----------------------------------------------------------------------------
(* The maps of v1.                                                         *)

RelocMap ==
    /\ \A l \in LabelsOf(script, PutsBefore(script, at)) :
          l \in DOMAIN relocations /\ relocations[l] = Place(script)[Earliest(PutsOf(script, l))]
    /\ \A l \in DOMAIN relocations :
          l \in LabelsOf(script, PutsBefore(script, at)) \/ (pc # "script" /\ relocations[l] = 0)

FixMap ==
    /\ DOMAIN relocation_fixes = LabelsOf(script, FixesBefore(script, at))
    /\ \A l \in DOMAIN relocation_fixes : relocation_fixes[l] = FixBytes(script, FirstFix(script, l))

SameCount(s) == Cardinality(LabelsOf(s, Puts(s))) = Cardinality(LabelsOf(s, Fixes(s)))

Patching1 ==
    /\ todo \subseteq DOMAIN relocation_fixes
    /\ SameCount(script)
    /\ WidthsAgree(script) => Agrees(script, todo, buffer, Image(script, Done1(script, todo)))

Patched1 ==
    Ready /\ WidthsAgree(script) =>
       IF SameCount(script) THEN Agrees(script, {}, buffer, Image(script, FirstFixes(script, FirstPuts(script))))
       ELSE buffer = Image(script, << >>)

Inv1 ==
    writer = "v1" =>
       /\ RelocMap /\ FixMap
       /\ pc = "patch" => Patching1
       /\ Patched1

\* The steps of v1, in the words of this module.
Inserted(map, label, x) ==
    [l \in DOMAIN map \cup {label} |-> IF l \in DOMAIN map THEN map[l] ELSE x]

Put1 ==
    /\ Call("reloc")
    /\ relocations' = Inserted(relocations, script[at].label, Len(buffer))
    /\ buffer' = buffer \o Placeholder(script[at].width)
    /\ UNCHANGED <<relocation_fixes, todo>>

Fix1 ==
    /\ Call("fix")
    /\ relocation_fixes' = Inserted(relocation_fixes, script[at].label, LE(Asked, script[at].width))
    /\ UNCHANGED <<buffer, relocations, todo>>

Skip1 ==
    /\ pc = "script" /\ at > Len(script) /\ pc' = "write"
    /\ Cardinality(DOMAIN relocation_fixes) # Cardinality(DOMAIN relocations)
    /\ UNCHANGED <<script, old, at, buffer, tables, todo, file, outcome>>

Begin1 ==
    /\ pc = "script" /\ at > Len(script) /\ pc' = "patch"
    /\ Cardinality(DOMAIN relocation_fixes) = Cardinality(DOMAIN relocations)
    /\ todo' = DOMAIN relocation_fixes
    /\ UNCHANGED <<script, old, at, buffer, tables, file, outcome>>

Offset1(label) == IF label \in DOMAIN relocations THEN relocations[label] ELSE 0

Patch1(label) ==
    /\ pc = "patch" /\ label \in todo
    /\ buffer' = Patched(buffer, Offset1(label), relocation_fixes[label])
    /\ relocations' = Inserted(relocations, label, 0)
    /\ todo' = todo \ {label}
    /\ UNCHANGED <<script, old, at, pc, relocation_fixes, file, outcome>>

End1 ==
    /\ pc = "patch" /\ todo = {} /\ pc' = "write"
    /\ UNCHANGED <<script, old, at, buffer, tables, todo, file, outcome>>

LEMMA SameCardinality == \A S : V1!Cardinality(S) = Cardinality(S)
  BY DEF V1!Cardinality, Cardinality

\* Every step of v1 is one of these.
LEMMA Steps1 ==
    ASSUME First
    PROVE  /\ writer = "v1" /\ UNCHANGED <<writer, i, j, fixed>>
           /\ \/ PutValue /\ UNCHANGED todo
              \/ Put1 \/ Fix1 \/ Skip1 \/ Begin1 \/ (\E l \in todo : Patch1(l)) \/ End1
              \/ pc = "patch" /\ Dies
              \/ WriteFile /\ UNCHANGED todo
  <1>1. writer = "v1" /\ UNCHANGED <<writer, i, j, fixed>> /\ V1!Next
    BY DEF First
  <1>2. V1!PutEntry => PutValue /\ UNCHANGED todo
    BY DEF V1!PutEntry, V1!PutValue, V1!Call, V1!tables, PutValue, Call, tables
  <1>3. V1!add_relocation => Put1
    BY DEF V1!add_relocation, V1!Call, V1!Placeholder, V1!Insert, Put1, Call, Placeholder, Inserted
  <1>4. V1!fix_relocation => Fix1
    BY DEF V1!fix_relocation, V1!Call, V1!Asked, V1!Here, V1!LE, V1!Shifted, V1!Insert,
           Fix1, Call, Asked, Here, LE, Shifted, Inserted
  <1>5. V1!SkipFixes => Skip1
    BY SameCardinality DEF V1!SkipFixes, V1!CountsDiffer, V1!tables, Skip1, tables
  <1>6. V1!BeginFixes => Begin1
    BY SameCardinality DEF V1!BeginFixes, V1!CountsDiffer, V1!tables, Begin1, tables
  <1>7. V1!Patch => \E l \in todo : Patch1(l)
    BY DEF V1!Patch, V1!OffsetAt, V1!Patched, V1!Insert, Patch1, Offset1, Patched, Inserted
  <1>8. V1!PatchDies => pc = "patch" /\ Dies
    BY DEF V1!PatchDies, V1!Dies, V1!tables, Dies, tables
  <1>9. V1!EndFixes => End1
    BY DEF V1!EndFixes, V1!tables, End1, tables
  <1>10. V1!DumpToFile => WriteFile /\ UNCHANGED todo
    BY DEF V1!DumpToFile, V1!WriteFile, V1!tables, WriteFile, tables,
           V1!FileWrite!Write, V1!FileWrite!Succeed, V1!FileWrite!Fail, V1!FileWrite!Refuse, V1!FileWrite!Beginning,
           FileWrite!Write, FileWrite!Succeed, FileWrite!Fail, FileWrite!Refuse, FileWrite!Beginning
  <1> QED
    BY <1>1, <1>2, <1>3, <1>4, <1>5, <1>6, <1>7, <1>8, <1>9, <1>10 DEF V1!Next

\* The first call to put or fix a label is the one that finds it in no map.
LEMMA FirstAt ==
    ASSUME NEW s, Len(s) \in Nat, NEW a \in 1 .. Len(s)
    PROVE  /\ s[a].op = "reloc" /\ s[a].label \notin LabelsOf(s, PutsBefore(s, a)) =>
                 Earliest(PutsOf(s, s[a].label)) = a
           /\ s[a].op = "fix" /\ s[a].label \notin LabelsOf(s, FixesBefore(s, a)) =>
                 FirstFix(s, s[a].label) = a
  <1>1. ASSUME s[a].op = "reloc", s[a].label \notin LabelsOf(s, PutsBefore(s, a))
        PROVE  Earliest(PutsOf(s, s[a].label)) = a
    <2>1. PutsOf(s, s[a].label) \in SUBSET Nat /\ a \in PutsOf(s, s[a].label)
      BY <1>1 DEF PutsOf
    <2>2. \A m \in PutsOf(s, s[a].label) : a <= m
      BY <1>1 DEF PutsOf, LabelsOf, PutsBefore, Puts
    <2> QED
      BY <2>1, <2>2, FirstIs
  <1>2. ASSUME s[a].op = "fix", s[a].label \notin LabelsOf(s, FixesBefore(s, a))
        PROVE  FirstFix(s, s[a].label) = a
    <2>1. FixesOf(s, s[a].label) \in SUBSET Nat /\ a \in FixesOf(s, s[a].label)
      BY <1>2 DEF FixesOf
    <2>2. \A m \in FixesOf(s, s[a].label) : a <= m
      BY <1>2 DEF FixesOf, LabelsOf, FixesBefore, Fixes
    <2> QED
      BY <2>1, <2>2, FirstIs DEF FirstFix
  <1> QED
    BY <1>1, <1>2

\* The labels put and fixed before a call, and before the next.
LEMMA LabelsMore ==
    ASSUME NEW s, Len(s) \in Nat, NEW a \in 1 .. Len(s)
    PROVE  /\ LabelsOf(s, PutsBefore(s, a + 1)) = IF s[a].op = "reloc" THEN LabelsOf(s, PutsBefore(s, a)) \cup {s[a].label}
                                                  ELSE LabelsOf(s, PutsBefore(s, a))
           /\ LabelsOf(s, FixesBefore(s, a + 1)) = IF s[a].op = "fix" THEN LabelsOf(s, FixesBefore(s, a)) \cup {s[a].label}
                                                   ELSE LabelsOf(s, FixesBefore(s, a))
  <1>1. \A S : LabelsOf(s, S \cup {a}) = LabelsOf(s, S) \cup {s[a].label}
    BY DEF LabelsOf
  <1> QED
    BY <1>1, BeforeStep

\* The maps hold the first put and the first fix of every label.
LEMMA MapsCall ==
    ASSUME Base, RelocMap, FixMap, NEW op, Call(op),
           op = "reloc" => relocations' = Inserted(relocations, script[at].label, Len(buffer)),
           op # "reloc" => relocations' = relocations,
           op = "fix" => relocation_fixes' = Inserted(relocation_fixes, script[at].label, LE(Asked, script[at].width)),
           op # "fix" => relocation_fixes' = relocation_fixes
    PROVE  RelocMap' /\ FixMap'
  <1>1. /\ at \in 1 .. Len(script) /\ script[at].op = op /\ pc = "script" /\ pc' = "script"
        /\ script' = script /\ at' = at + 1
        /\ Len(buffer) = Place(script)[at] /\ Len(script) \in Nat
    BY CallAt
  <1>2. RelocMap'
    <2>1. CASE op # "reloc"
      <3>1. LabelsOf(script, PutsBefore(script, at + 1)) = LabelsOf(script, PutsBefore(script, at))
        BY <1>1, <2>1, LabelsMore
      <3> QED
        BY <1>1, <2>1, <3>1 DEF RelocMap
    <2>2. CASE op = "reloc"
      <3> DEFINE l == script[at].label
                 S == LabelsOf(script, PutsBefore(script, at))
      <3>1. LabelsOf(script, PutsBefore(script, at + 1)) = S \cup {l}
        BY <1>1, <2>2, LabelsMore
      <3>2. l \notin S => Earliest(PutsOf(script, l)) = at
        BY <1>1, <2>2, FirstAt
      <3>3. DOMAIN relocations = S /\ \A m \in S : relocations[m] = Place(script)[Earliest(PutsOf(script, m))]
        BY <1>1 DEF RelocMap
      <3>4. relocations' = [m \in DOMAIN relocations \cup {l} |-> IF m \in DOMAIN relocations THEN relocations[m] ELSE Len(buffer)]
        BY <2>2 DEF Inserted
      <3> HIDE DEF l, S
      <3>5. DOMAIN relocations' = S \cup {l}
            /\ \A m \in S \cup {l} : relocations'[m] = Place(script)[Earliest(PutsOf(script, m))]
        BY <1>1, <3>2, <3>3, <3>4
      <3> QED
        BY <1>1, <3>1, <3>5 DEF RelocMap
    <2> QED
      BY <2>1, <2>2
  <1>3. FixMap'
    <2>1. CASE op # "fix"
      <3>1. LabelsOf(script, FixesBefore(script, at + 1)) = LabelsOf(script, FixesBefore(script, at))
        BY <1>1, <2>1, LabelsMore
      <3> QED
        BY <1>1, <2>1, <3>1 DEF FixMap
    <2>2. CASE op = "fix"
      <3> DEFINE l == script[at].label
                 S == LabelsOf(script, FixesBefore(script, at))
                 x == LE(Asked, script[at].width)
      <3>1. LabelsOf(script, FixesBefore(script, at + 1)) = S \cup {l}
        BY <1>1, <2>2, LabelsMore
      <3>2. l \notin S => FirstFix(script, l) = at
        BY <1>1, <2>2, FirstAt
      <3>3. x = FixBytes(script, at)
        BY <2>2, AskedIs DEF FixBytes, FixValue
      <3>4. DOMAIN relocation_fixes = S /\ \A m \in S : relocation_fixes[m] = FixBytes(script, FirstFix(script, m))
        BY DEF FixMap
      <3>5. relocation_fixes' = [m \in DOMAIN relocation_fixes \cup {l} |->
                                    IF m \in DOMAIN relocation_fixes THEN relocation_fixes[m] ELSE x]
        BY <2>2 DEF Inserted
      <3> HIDE DEF l, S, x
      <3>6. DOMAIN relocation_fixes' = S \cup {l}
            /\ \A m \in S \cup {l} : relocation_fixes'[m] = FixBytes(script, FirstFix(script, m))
        BY <3>2, <3>3, <3>4, <3>5
      <3> QED
        BY <1>1, <3>1, <3>6 DEF FixMap
    <2> QED
      BY <2>1, <2>2
  <1> QED
    BY <1>2, <1>3


\* The entries of the maps when the program has run.
LEMMA Maps1 ==
    ASSUME Base, RelocMap, FixMap, at > Len(script)
    PROVE  /\ IsProgram(script) /\ Len(script) \in Nat
           /\ DOMAIN relocation_fixes = LabelsOf(script, Fixes(script))
           /\ pc = "script" => DOMAIN relocations = LabelsOf(script, Puts(script))
           /\ \A l \in DOMAIN relocation_fixes :
                 /\ relocation_fixes[l] = FixBytes(script, FirstFix(script, l))
                 /\ FirstFix(script, l) \in Fixes(script)
           /\ \A l \in LabelsOf(script, Puts(script)) : Offset1(l) = Place(script)[Earliest(PutsOf(script, l))]
           /\ \A l : l \notin LabelsOf(script, Puts(script)) => Offset1(l) = 0
  <1>1. IsProgram(script) /\ Len(script) \in Nat /\ at = Len(script) + 1
    BY ScriptFacts DEF Base
  <1>2. PutsBefore(script, at) = Puts(script) /\ FixesBefore(script, at) = Fixes(script)
    BY <1>1, BeforeEnds
  <1>3. DOMAIN relocation_fixes = LabelsOf(script, Fixes(script))
        /\ \A l \in DOMAIN relocation_fixes : relocation_fixes[l] = FixBytes(script, FirstFix(script, l))
    BY <1>2 DEF FixMap
  <1>4. \A l \in DOMAIN relocation_fixes : FirstFix(script, l) \in Fixes(script)
    BY <1>3, FirstFixOf
  <1>5. /\ \A l \in LabelsOf(script, Puts(script)) :
              l \in DOMAIN relocations /\ relocations[l] = Place(script)[Earliest(PutsOf(script, l))]
        /\ \A l \in DOMAIN relocations :
              l \in LabelsOf(script, Puts(script)) \/ (pc # "script" /\ relocations[l] = 0)
    BY <1>2 DEF RelocMap
  <1> QED
    BY <1>1, <1>3, <1>4, <1>5 DEF Offset1

\* Each step of the loop keeps what is said of it, whichever label comes next.
LEMMA Begins1 ==
    ASSUME Base, RelocMap, FixMap, Begin1
    PROVE  RelocMap' /\ FixMap' /\ Patching1'
  <1>1. /\ IsProgram(script) /\ Len(script) \in Nat
        /\ DOMAIN relocation_fixes = LabelsOf(script, Fixes(script))
        /\ DOMAIN relocations = LabelsOf(script, Puts(script))
    BY Maps1 DEF Begin1
  <1>2. at = Len(script) + 1 /\ buffer = Images(script, << >>)[Len(script)]
    BY ScriptFacts DEF Base, Begin1
  <1>3. /\ UNCHANGED <<script, old, at, buffer, relocations, relocation_fixes>>
        /\ pc = "script" /\ pc' = "patch" /\ todo' = DOMAIN relocation_fixes
    BY DEF Begin1, tables
  <1>4. RelocMap' /\ FixMap'
    BY <1>3 DEF RelocMap, FixMap
  <1>5. SameCount(script)'
    BY <1>1, <1>3 DEF SameCount, Begin1
  <1>6. WidthsAgree(script) => Agrees(script, todo', buffer, Image(script, Done1(script, todo')))
    <2> HAVE WidthsAgree(script)
    <2>1. Done1(script, todo') = << >>
      BY <1>1, <1>3, Done1None
    <2>2. buffer = Image(script, << >>)
      BY <1>2, ImageIsLast
    <2>3. Fits(script, << >>)
      BY NothingFits
    <2>4. buffer \in Seq(Byte) /\ Len(buffer) \in Nat
      BY <1>1, <2>2, <2>3, ImageBytes
    <2>5. \A p : Strays(script, LabelsOf(script, Fixes(script)), p) = {}
      BY DEF Strays, Never
    <2>6. Agrees(script, LabelsOf(script, Fixes(script)), buffer, buffer)
      BY <2>4, <2>5 DEF Agrees
    <2> QED
      BY <1>1, <1>3, <2>1, <2>2, <2>6
  <1> QED
    BY <1>3, <1>4, <1>5, <1>6 DEF Patching1

LEMMA Patches1 ==
    ASSUME Base, RelocMap, FixMap, Patching1, NEW l \in todo, Patch1(l)
    PROVE  RelocMap' /\ FixMap' /\ Patching1'
  <1>0. at = Len(script) + 1 /\ at > Len(script) /\ pc = "patch" /\ script \in Scripts
    BY ScriptFacts DEF Base, Patch1
  <1>1. /\ IsProgram(script) /\ Len(script) \in Nat
        /\ l \in DOMAIN relocation_fixes
        /\ DOMAIN relocation_fixes = LabelsOf(script, Fixes(script))
        /\ relocation_fixes[l] = FixBytes(script, FirstFix(script, l))
        /\ FirstFix(script, l) \in Fixes(script)
        /\ l \in LabelsOf(script, Puts(script)) => Offset1(l) = Place(script)[Earliest(PutsOf(script, l))]
        /\ l \notin LabelsOf(script, Puts(script)) => Offset1(l) = 0
    BY <1>0, Maps1 DEF Patching1
  <1>2. /\ UNCHANGED <<script, old, at, pc, relocation_fixes>>
        /\ todo' = todo \ {l} /\ todo' \subseteq DOMAIN relocation_fixes
        /\ buffer' = Patched(buffer, Offset1(l), relocation_fixes[l])
        /\ relocations' = Inserted(relocations, l, 0)
    BY DEF Patch1, Patching1
  <1>3. RelocMap'
    <2>1. PutsBefore(script, at)' = PutsBefore(script, at)
      BY <1>2
    <2>2. /\ DOMAIN relocations' = DOMAIN relocations \cup {l}
          /\ \A m \in DOMAIN relocations : relocations'[m] = relocations[m]
          /\ l \notin DOMAIN relocations => relocations'[l] = 0
      BY <1>2 DEF Inserted
    <2> QED
      BY <1>0, <1>2, <2>1, <2>2 DEF RelocMap
  <1>4. FixMap'
    BY <1>2 DEF FixMap
  <1>5. WidthsAgree(script) => Agrees(script, todo \ {l}, buffer', Image(script, Done1(script, todo \ {l})))
    <2> HAVE WidthsAgree(script)
    <2> DEFINE x == FixBytes(script, FirstFix(script, l))
               image == Image(script, Done1(script, todo))
    <2>1. Agrees(script, todo, buffer, image)
      BY DEF Patching1
    <2>2. x \in Seq(Byte) /\ Len(x) = script[FirstFix(script, l)].width
      BY <1>1, FixBytesType
    <2>3. CASE l \in LabelsOf(script, Puts(script))
      <3> DEFINE k == Earliest(PutsOf(script, l))
      <3>1. Place(script)[k] \in Nat /\ script[FirstFix(script, l)].width = script[k].width
        <4>1. k \in Puts(script) /\ script[k].label = l
          BY <2>3, FirstPutsOf
        <4>2. k \in 1 .. Len(script)
          BY <4>1 DEF Puts
        <4>3. FirstFix(script, l) \in FixesOf(script, l)
          BY <1>1, FirstFixOf
        <4> HIDE DEF k
        <4> QED
          BY <1>1, <4>1, <4>2, <4>3, PlaceAt DEF WidthsAgree
      <3>2. Agrees(script, todo \ {l}, Patched(buffer, Place(script)[k], x), Patched(image, Place(script)[k], x))
        <4>1. k = Earliest(PutsOf(script, l))
          OBVIOUS
        <4> HIDE DEF x, image, k
        <4> QED
          BY <1>1, <2>1, <2>2, <2>3, <3>1, <4>1, PatchedAgrees
      <3>3. Patched(image, Place(script)[k], x) = Image(script, Done1(script, todo \ {l}))
        BY <1>1, <2>3, Done1Put
      <3> QED
        BY <1>1, <1>2, <2>3, <3>2, <3>3
    <2>4. CASE l \notin LabelsOf(script, Puts(script))
      <3>1. l \in Never(script) /\ x = StrayBytes(script, l)
        BY <1>1, <2>4 DEF Never, StrayBytes
      <3>2. Agrees(script, todo \ {l}, Patched(buffer, 0, x), image)
        <4> HIDE DEF x, image
        <4> QED
          BY <2>1, <2>2, <3>1, PatchedStray
      <3>3. Done1(script, todo \ {l}) = Done1(script, todo)
        BY <2>4, Done1Never
      <3> QED
        BY <1>1, <1>2, <2>4, <3>2, <3>3
    <2> QED
      BY <2>3, <2>4
  <1>6. Patching1'
    BY <1>2, <1>5 DEF Patching1
  <1> QED
    BY <1>3, <1>4, <1>6

LEMMA BaseFirst == ASSUME Base, First PROVE Base'
  <1>1. UNCHANGED writer
    BY Steps1
  <1>2. ASSUME PutValue \/ Put1 \/ Fix1 PROVE Base'
    <2>1. CallStep
      BY <1>1, <1>2 DEF CallStep, Put1, Fix1
    <2> QED
      BY <2>1, BaseCall
  <1>3. ASSUME Skip1 \/ Begin1 \/ (\E l \in todo : Patch1(l)) \/ End1 PROVE Base'
    <2>1. at > Len(script)
      BY <1>3, ScriptFacts DEF Base, Skip1, Begin1, Patch1, End1
    <2>2. DumpStep
      BY <1>1, <1>3, <2>1 DEF DumpStep, Skip1, Begin1, Patch1, End1
    <2> QED
      BY <2>2, BaseDump
  <1>4. ASSUME pc = "patch" /\ Dies PROVE Base'
    BY <1>1, <1>4, BaseDies
  <1>5. ASSUME WriteFile PROVE Base'
    BY <1>1, <1>5, BaseWrite
  <1> QED
    BY <1>2, <1>3, <1>4, <1>5, Steps1

\* The invariant of v1 is inductive.
LEMMA First1 == ASSUME Base, Inv1, First PROVE Inv1'
  <1>0. RelocMap /\ FixMap /\ (pc = "patch" => Patching1) /\ Patched1 /\ UNCHANGED writer
    BY Steps1 DEF Inv1
  <1>1. CASE PutValue \/ Put1 \/ Fix1
    <2>1. \E op : /\ Call(op)
                  /\ op = "reloc" => relocations' = Inserted(relocations, script[at].label, Len(buffer))
                  /\ op # "reloc" => relocations' = relocations
                  /\ op = "fix" => relocation_fixes' = Inserted(relocation_fixes, script[at].label, LE(Asked, script[at].width))
                  /\ op # "fix" => relocation_fixes' = relocation_fixes
      <3>1. CASE PutValue
        BY <3>1 DEF PutValue, tables
      <3>2. CASE Put1
        BY <3>2 DEF Put1
      <3>3. CASE Fix1
        BY <3>3 DEF Fix1
      <3> QED
        BY <1>1, <3>1, <3>2, <3>3
    <2>2. RelocMap' /\ FixMap'
      BY <1>0, <2>1, MapsCall
    <2>3. pc' = "script"
      BY <2>1, CallAt
    <2> QED
      BY <2>2, <2>3 DEF Inv1, Patched1, Ready
  <1>2. CASE Skip1
    <2>1. /\ Len(script) \in Nat
          /\ DOMAIN relocation_fixes = LabelsOf(script, Fixes(script))
          /\ DOMAIN relocations = LabelsOf(script, Puts(script))
      BY <1>0, <1>2, Maps1 DEF Skip1
    <2>2. buffer = Image(script, << >>)
      <3>1. buffer = Images(script, << >>)[Len(script)]
        BY <1>2, ScriptFacts DEF Base, Skip1
      <3> QED
        BY <3>1, ImageIsLast
    <2>3. ~ SameCount(script)
      BY <1>2, <2>1 DEF SameCount, Skip1
    <2>4. UNCHANGED <<script, old, at, buffer, relocations, relocation_fixes>> /\ pc = "script" /\ pc' = "write"
      BY <1>2 DEF Skip1, tables
    <2>5. RelocMap' /\ FixMap'
      BY <1>0, <2>4 DEF RelocMap, FixMap
    <2>6. Patched1'
      BY <2>2, <2>3, <2>4 DEF Patched1, SameCount
    <2> QED
      BY <2>4, <2>5, <2>6 DEF Inv1
  <1>3. CASE Begin1
    <2>1. pc' = "patch"
      BY <1>3 DEF Begin1
    <2> QED
      BY <1>0, <1>3, <2>1, Begins1 DEF Inv1, Patched1, Ready
  <1>4. CASE \E l \in todo : Patch1(l)
    <2>1. pc = "patch" /\ pc' = "patch"
      BY <1>4 DEF Patch1
    <2> QED
      BY <1>0, <1>4, <2>1, Patches1 DEF Inv1, Patched1, Ready
  <1>5. CASE End1
    <2>1. /\ UNCHANGED <<script, old, at, buffer, relocations, relocation_fixes>>
          /\ pc = "patch" /\ pc' = "write" /\ todo = {}
      BY <1>5 DEF End1, tables
    <2>2. RelocMap' /\ FixMap'
      BY <1>0, <2>1 DEF RelocMap, FixMap
    <2>3. SameCount(script)
      BY <1>0, <2>1 DEF Patching1
    <2>4. WidthsAgree(script) => Agrees(script, {}, buffer, Image(script, FirstFixes(script, FirstPuts(script))))
      BY <1>0, <2>1, Done1All DEF Patching1
    <2>5. Patched1'
      BY <2>1, <2>3, <2>4 DEF Patched1
    <2> QED
      BY <2>1, <2>2, <2>5 DEF Inv1
  <1>6. CASE pc = "patch" /\ Dies
    <2>1. UNCHANGED <<script, old, at, relocations, relocation_fixes>> /\ pc' = "end"
      BY <1>6 DEF Dies, tables
    <2>2. RelocMap' /\ FixMap'
      BY <1>0, <1>6, <2>1 DEF RelocMap, FixMap
    <2>3. ~ Ready'
      BY <1>0, <1>6, BaseDies
    <2> QED
      BY <2>1, <2>2, <2>3 DEF Inv1, Patched1
  <1>7. CASE WriteFile /\ UNCHANGED todo
    <2>1. UNCHANGED <<script, old, at, relocations, relocation_fixes, buffer>> /\ pc' = "end" /\ pc = "write"
      BY <1>7, WriteIs DEF tables
    <2>2. RelocMap' /\ FixMap'
      BY <1>0, <2>1 DEF RelocMap, FixMap
    <2>3. Patched1'
      BY <1>0, <2>1 DEF Patched1, Ready
    <2> QED
      BY <2>1, <2>2, <2>3 DEF Inv1
  <1> QED
    BY <1>1, <1>2, <1>3, <1>4, <1>5, <1>6, <1>7, Steps1

\* It implies what is promised of v1.
LEMMA Says1 == ASSUME Base, Inv1 PROVE AllOrNothing
  <1>1. \A s, F : V1!Image(s, F) = Image(s, F)
    BY DEF V1!Image, V1!Place, V1!Size, V1!Placeholder, V1!FixBytes, V1!LE, V1!Shifted, V1!Here,
           Image, Place, Size, Placeholder, FixBytes, LE, Shifted, Here
  <1>2. \A s, calls : V1!FirstFixes(s, calls) = FirstFixes(s, calls)
    BY DEF V1!FirstFixes, V1!FixesOf, V1!Earliest, FirstFixes, FixesOf, Earliest
  <1>3. V1!FirstPuts(script) = FirstPuts(script)
    BY DEF V1!FirstPuts, V1!Puts, V1!PutsOf, V1!Earliest, FirstPuts, Puts, PutsOf, Earliest
  <1>4. V1!WidthsAgree(script) => WidthsAgree(script)
    BY DEF V1!WidthsAgree, V1!Puts, V1!FixesOf, WidthsAgree, Puts, FixesOf
  <1>5. /\ V1!LabelsOf(script, V1!Fixes(script)) = LabelsOf(script, Fixes(script))
        /\ V1!LabelsOf(script, V1!Puts(script)) = LabelsOf(script, Puts(script))
    BY DEF V1!LabelsOf, V1!Fixes, V1!Puts, LabelsOf, Fixes, Puts
  <1>6. /\ \A p : V1!StraysAt(p) = Strays(script, {}, p)
        /\ \A l : V1!StrayBytes(l) = StrayBytes(script, l)
    <2>1. \A l : V1!Earliest(V1!FixesOf(script, l)) = FirstFix(script, l)
      BY DEF V1!Earliest, V1!FixesOf, FirstFix, Earliest, FixesOf
    <2>2. \A s, f : V1!FixBytes(s, f) = FixBytes(s, f)
      BY DEF V1!FixBytes, V1!Place, V1!Size, V1!LE, V1!Shifted, V1!Here,
             FixBytes, Place, Size, LE, Shifted, Here
    <2>3. \A l : V1!StrayBytes(l) = StrayBytes(script, l)
      BY <2>1, <2>2 DEF V1!StrayBytes, StrayBytes
    <2>4. V1!Strays = Never(script)
      BY <1>5 DEF V1!Strays, Never
    <2> QED
      BY <2>3, <2>4 DEF V1!StraysAt, Strays
  <1>7. V1!Place(script) = Place(script)
    BY DEF V1!Place, V1!Size, Place, Size
  <1>8. outcome = "written" => Ready /\ file = buffer
    BY DEF Base, Ready
  <1> DEFINE first == FirstFixes(script, FirstPuts(script))
             image == Image(script, first)
             In(p) == \E k \in DOMAIN first : p \in Place(script)[k] + 1 .. Place(script)[k] + script[k].width
  <1> SUFFICES ASSUME writer = "v1", outcome = "written", WidthsAgree(script)
               PROVE  IF ~ SameCount(script) THEN file = Image(script, << >>)
                      ELSE /\ Len(file) = Len(image)
                           /\ \A p \in 1 .. Len(file) :
                                 \/ \E l \in Strays(script, {}, p) : file[p] = StrayBytes(script, l)[p]
                                 \/ /\ file[p] = image[p]
                                    /\ Strays(script, {}, p) = {} \/ p \in {q \in 1 .. Len(image) : In(q)}
    BY <1>1, <1>2, <1>3, <1>4, <1>5, <1>6, <1>7, SameCardinality DEF AllOrNothing, V1!AllOrNothing, SameCount
  <1>9. Patched1 /\ Ready /\ file = buffer
    BY <1>8 DEF Inv1
  <1>10. \A p : Filled(script, {}, p) <=> In(p)
    BY Done1All DEF Filled
  <1> HIDE DEF In
  <1>11. CASE SameCount(script)
    <2>1. Agrees(script, {}, file, image)
      BY <1>9, <1>11 DEF Patched1
    <2> HIDE DEF image
    <2> QED
      BY <1>10, <1>11, <2>1 DEF Agrees
  <1>12. CASE ~ SameCount(script)
    BY <1>9, <1>12 DEF Patched1
  <1> QED
    BY <1>11, <1>12

-----------------------------------------------------------------------------
(* The three of them.                                                      *)

Inv == Base /\ Inv1 /\ Inv2 /\ Inv3

\* The invariant holds at first, and each step keeps it.
LEMMA Initial == Init => Inv
  <1> SUFFICES ASSUME Init PROVE Inv
    OBVIOUS
  <1>1. /\ script \in Scripts /\ at = 1 /\ pc = "script" /\ buffer = << >>
        /\ relocations = << >> /\ relocation_fixes = << >>
        /\ file = old /\ outcome = "pending" /\ writer \in Writers
        /\ i = 1 /\ j = 1 /\ fixed = 0
    BY DEF Init, BufferInit
  <1>2. IsProgram(script) /\ Len(script) \in Nat
    BY <1>1, ScriptFacts
  <1>3. Images(script, << >>)[0] = << >>
    BY <1>2, NothingFits, ImagesStep
  <1>4. Base
    BY <1>1, <1>2, <1>3 DEF Base
  <1>5. PutsBefore(script, at) = {} /\ FixesBefore(script, at) = {}
    BY <1>1, <1>2, BeforeEnds
  <1>6. RelocList(<< >>) /\ FixList(<< >>, FixEntry2(script)) /\ FixList(<< >>, FixEntry3(script))
    BY <1>1, <1>5, TableNone DEF RelocList, FixList
  <1>7. RelocMap /\ FixMap
    BY <1>1, <1>5 DEF RelocMap, FixMap, LabelsOf
  <1>8. Inv1
    BY <1>1, <1>7 DEF Inv1, Patched1, Ready
  <1>9. Inv2
    BY <1>1, <1>6 DEF Inv2, Tables2, Patched2, Ready
  <1>10. Inv3
    BY <1>1, <1>6 DEF Inv3, Tables3, Patched3, Ready
  <1> QED
    BY <1>4, <1>8, <1>9, <1>10 DEF Inv

LEMMA Step == ASSUME Inv, [Next]_vars PROVE Inv'
  <1>1. CASE First
    <2>1. writer = "v1" /\ writer' = "v1"
      BY <1>1, Steps1
    <2> QED
      BY <1>1, <2>1, BaseFirst, First1 DEF Inv, Inv2, Inv3
  <1>2. CASE Second
    <2>1. writer = "v2" /\ writer' = "v2"
      BY <1>2, Steps2
    <2> QED
      BY <1>2, <2>1, BaseSecond, Second2 DEF Inv, Inv1, Inv3
  <1>3. CASE Third
    <2>1. writer = "v3" /\ writer' = "v3"
      BY <1>3, Steps3
    <2> QED
      BY <1>3, <2>1, BaseThird, Third3 DEF Inv, Inv1, Inv2
  <1>4. CASE UNCHANGED vars
    <2>1. /\ UNCHANGED <<writer, script, old, at, pc, buffer, relocations, relocation_fixes, file, outcome>>
          /\ UNCHANGED <<todo, i, j, fixed>>
      BY <1>4 DEF vars, program, tables
    <2>2. Base'
      BY <2>1 DEF Inv, Base
    <2>3. Inv1'
      BY <2>1 DEF Inv, Inv1, RelocMap, FixMap, Patching1, Patched1, Ready
    <2>4. ASSUME NEW P, NEW X
          PROVE  /\ RelocList(P)' = RelocList(P)
                 /\ FixList(X, FixEntry2(script))' = FixList(X, FixEntry2(script))
                 /\ FixList(X, FixEntry3(script))' = FixList(X, FixEntry3(script))
                 /\ Patching2(P, X)' = Patching2(P, X)
                 /\ Patching3(P, X)' = Patching3(P, X)
      BY <2>1 DEF RelocList, FixList, Patching2, Done2, Patching3, Done3, FixedOnce
    <2>5. Inv2'
      BY <2>1, <2>4 DEF Inv, Inv2, Tables2, Patched2, Ready
    <2>6. Inv3'
      BY <2>1, <2>4 DEF Inv, Inv3, Tables3, Patched3, Ready, FixedOnce
    <2> QED
      BY <2>2, <2>3, <2>5, <2>6 DEF Inv
  <1> QED
    BY <1>1, <1>2, <1>3, <1>4 DEF Next

\* The inductive invariant: whichever of the three it is, and whatever it is given, while
\* dump_to_file works the buffer is the image of the program for the fixes looked at so far.
THEOREM Invariance == Spec => []Inv
  BY Initial, Step, PTL DEF Spec

\* fix_relocations of main.cc: for every program each label gets the value first fixed at the
\* place it was first put, but for bytes that fixes of labels never put wrote over, or, when
\* the counts differ, no relocation is patched.
THEOREM MapPatchesAllOrNothing == Spec => []AllOrNothing
  <1>1. Inv => AllOrNothing
    BY Says1 DEF Inv
  <1> QED
    BY <1>1, Invariance, PTL

\* dump_to of main_v2.cc: for every program only the first relocation of a label is patched,
\* and a fix of a label that is never put leaves the file untouched.
THEOREM ClosuresPatchFirst == Spec => []FirstOnly
  <1>1. Inv => FirstOnly
    BY Says2 DEF Inv
  <1> QED
    BY <1>1, Invariance, PTL

\* dump_to_file of main_v3.cc: for every program whose fixes are as wide as the relocations of
\* their labels each relocation gets the value of the last fix of its label, also where an
\* earlier fix was written before.
THEOREM LoopsPatchByLabel == Spec => []PatchesByLabel
  <1>1. Inv => PatchesByLabel
    BY Says3 DEF Inv
  <1> QED
    BY <1>1, Invariance, PTL

\* The counts main_v3.cc:385-388 compares, for every program: when fewer were fixed than found
\* a relocation has no fix; and in programs that fix no label twice the counts are equal
\* exactly when every relocation has one.  A fix without a relocation changes neither count.
THEOREM CountsAreTold == Spec => []CountsTell
  <1>1. Inv => CountsTell
    BY Says3 DEF Inv
  <1> QED
    BY <1>1, Invariance, PTL

\* When every label is put and fixed once, first and last are the same.
LEMMA OneOfEach ==
    ASSUME NEW s, OnceEach(s)
    PROVE  /\ FirstPuts(s) = Puts(s)
           /\ FirstFixes(s, Puts(s)) = LastFixes(s, Puts(s))
           /\ Never(s) = {} /\ SameCount(s)
  <1>1. ASSUME NEW k \in Puts(s) PROVE k = Earliest(PutsOf(s, s[k].label))
    <2>1. PutsOf(s, s[k].label) = {k}
      BY DEF OnceEach, PutsOf, Puts
    <2>2. k \in Nat
      BY DEF Puts
    <2> QED
      BY <2>1, <2>2 DEF Earliest
  <1>2. FirstPuts(s) = Puts(s)
    BY <1>1 DEF FirstPuts
  <1>3. ASSUME NEW l, FixesOf(s, l) # {}
        PROVE  Earliest(FixesOf(s, l)) = Latest(FixesOf(s, l))
    <2>1. PICK f \in FixesOf(s, l) : TRUE
      BY <1>3
    <2>2. FixesOf(s, l) = {f} /\ f \in Nat
      BY <2>1 DEF OnceEach, FixesOf, Fixes
    <2> QED
      BY <2>2 DEF Earliest, Latest
  <1>4. FirstFixes(s, Puts(s)) = LastFixes(s, Puts(s))
    BY <1>3 DEF FirstFixes, LastFixes
  <1> QED
    BY <1>2, <1>4 DEF OnceEach, Never, SameCount

\* Then each of the three has the same buffer when it goes to the file.
LEMMA AllAgree ==
    ASSUME Inv, pc = "write", OnceEach(script), WidthsAgree(script)
    PROVE  buffer = Image(script, LastFixes(script, Puts(script)))
  <1>1. Ready /\ Base
    BY DEF Ready, Inv
  <1>2. CASE writer = "v3"
    BY <1>1, <1>2 DEF Inv, Inv3, Patched3
  <1>3. CASE writer = "v2"
    BY <1>1, <1>3, OneOfEach DEF Inv, Inv2, Patched2
  <1>4. CASE writer = "v1"
    <2> DEFINE image == Image(script, LastFixes(script, Puts(script)))
    <2>1. Agrees(script, {}, buffer, image)
      BY <1>1, <1>4, OneOfEach DEF Inv, Inv1, Patched1
    <2>2. \A p : Strays(script, {}, p) = {}
      BY OneOfEach DEF Strays
    <2> HIDE DEF image
    <2>3. /\ buffer \in Seq(Byte) /\ image \in Seq(Byte) /\ Len(buffer) = Len(image)
          /\ \A p \in 1 .. Len(buffer) : buffer[p] = image[p]
      BY <2>1, <2>2 DEF Agrees
    <2>4. buffer = image
      BY <2>3
    <2> QED
      BY <2>4 DEF image
  <1> QED
    BY <1>1, <1>2, <1>3, <1>4 DEF Base, Writers

\* On programs that put and fix every label once the file becomes the image of the program,
\* or what a failed write leaves of it, and the process ends otherwise only on the way to it.
THEOREM Agreement == Spec => WritersAgree
  <1> DEFINE Promised == OnceEach(script) /\ WidthsAgree(script) =>
                            \E image \in {Image(script, LastFixes(script, Puts(script)))} :
                               Promise(image)!Write
  <1>1. ASSUME Inv, WriteFile PROVE Promised
    <2> HAVE OnceEach(script) /\ WidthsAgree(script)
    <2>1. PICK image : image = Image(script, LastFixes(script, Puts(script)))
      OBVIOUS
    <2>2. buffer = image /\ outcome = "pending"
      BY <1>1, <2>1, AllAgree, WriteIs
    <2>3. Promise(image)!Write
      BY <1>1, <2>2 DEF WriteFile, FileWrite!Write, FileWrite!Succeed, FileWrite!Fail, FileWrite!Refuse,
         FileWrite!Beginning, Promise!Write, Promise!Succeed, Promise!Fail, Promise!Refuse, Promise!Beginning
    <2> QED
      BY <2>1, <2>3
  <1>2. ASSUME Inv, pc = "patch", Dies PROVE Promised
    <2> HAVE OnceEach(script) /\ WidthsAgree(script)
    <2>1. PICK image : image = Image(script, LastFixes(script, Puts(script)))
      OBVIOUS
    <2>2. outcome = "pending" /\ outcome' = "abort" /\ UNCHANGED file
      BY <1>2 DEF Inv, Base, Dies
    <2>3. Promise(image)!Write
      BY <2>2 DEF Promise!Write, Promise!Refuse
    <2> QED
      BY <2>1, <2>3
  <1>3. ASSUME Inv, [Next]_vars PROVE UNCHANGED <<file, outcome>> \/ Promised
    <2>1. CASE First
      <3>1. CASE WriteFile
        BY <1>1, <1>3, <3>1
      <3>2. CASE pc = "patch" /\ Dies
        BY <1>2, <1>3, <3>2
      <3>3. CASE PutValue \/ Put1 \/ Fix1 \/ Skip1 \/ Begin1 \/ (\E l \in todo : Patch1(l)) \/ End1
        BY <3>3 DEF PutValue, Call, Put1, Fix1, Skip1, Begin1, Patch1, End1
      <3> QED
        BY <2>1, <3>1, <3>2, <3>3, Steps1
    <2>2. CASE Second
      <3>1. CASE WriteFile
        BY <1>1, <1>3, <3>1
      <3>2. CASE pc = "patch" /\ Dies
        BY <1>2, <1>3, <3>2
      <3>3. CASE PutValue \/ Put2 \/ Fix2 \/ Begin2 \/ Patch2 \/ End2
        BY <3>3 DEF PutValue, PutReloc, Call, Put2, Fix2, Begin2, Patch2, End2
      <3> QED
        BY <2>2, <3>1, <3>2, <3>3, Steps2
    <2>3. CASE Third
      <3>1. CASE WriteFile
        BY <1>1, <1>3, <3>1
      <3>2. CASE pc = "patch" /\ Dies
        BY <1>2, <1>3, <3>2
      <3>3. CASE PutValue \/ Put3 \/ Fix3 \/ Begin3 \/ Patch3 \/ Skip3 \/ NextFix3 \/ End3
        BY <3>3 DEF PutValue, PutReloc, Call, Put3, Fix3, Begin3, Patch3, Skip3, NextFix3, End3, program
      <3> QED
        BY <2>3, <3>1, <3>2, <3>3, Steps3
    <2>4. CASE UNCHANGED vars
      BY <2>4 DEF vars, program
    <2> QED
      BY <1>3, <2>1, <2>2, <2>3, <2>4 DEF Next
  <1>4. Inv /\ [Next]_vars => [UNCHANGED <<file, outcome>> \/ Promised]_<<file, outcome>>
    BY <1>3
  <1> HIDE DEF Promised
  <1>5. Spec => [][UNCHANGED <<file, outcome>> \/ Promised]_<<file, outcome>>
    BY <1>4, Invariance, PTL DEF Spec
  <1> QED
    BY <1>5, PTL DEF WritersAgree, Promised
=============================================================================
