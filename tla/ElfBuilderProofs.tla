-------------------------- MODULE ElfBuilderProofs --------------------------
(***************************************************************************)
(* What ElfBuilder guarantees for every code and every iteration order.    *)
(***************************************************************************)
EXTENDS ElfBuilder, SequenceTheorems, TLAPS

(* The provers see images, their concatenation and their length as opaque: *)
(* Image, Cat and Size are unfolded only in the lemmas here and where a    *)
(* step meets the specification.                                           *)

Image == Seq(Byte)
Cat(s, t) == s \o t
Size(s) == Len(s)

LEMMA CatImage ==
    ASSUME NEW s \in Image, NEW t \in Image
    PROVE  /\ Cat(s, t) \in Image
           /\ Size(s) \in Nat /\ Size(t) \in Nat
           /\ Size(Cat(s, t)) = Size(s) + Size(t)
BY ConcatProperties, LenProperties DEF Cat, Image, Size

LEMMA CatElements ==
    ASSUME NEW s \in Image, NEW t \in Image
    PROVE  /\ \A i \in 1 .. Size(s) : Cat(s, t)[i] = s[i]
           /\ \A i \in 1 .. Size(t) : Cat(s, t)[Size(s) + i] = t[i]
<1>1. \A i \in 1 .. Size(s) + Size(t) :
         Cat(s, t)[i] = IF i <= Size(s) THEN s[i] ELSE t[i - Size(s)]
  BY ConcatProperties, Zenon DEF Cat, Image, Size
<1>2. Size(s) \in Nat /\ Size(t) \in Nat
  BY CatImage
<1>3. \A i \in 1 .. Size(s) : Cat(s, t)[i] = s[i]
  BY <1>1, <1>2
<1>4. \A i \in 1 .. Size(t) : Cat(s, t)[Size(s) + i] = t[i]
  BY <1>1, <1>2
<1> QED BY <1>3, <1>4

LEMMA FrontOf ==
    ASSUME NEW S, NEW s, NEW n \in Nat, \A i \in 1 .. n : s[i] \in S
    PROVE  /\ SubSeq(s, 1, n) \in Seq(S)
           /\ Size(SubSeq(s, 1, n)) = n
           /\ \A i \in 1 .. n : SubSeq(s, 1, n)[i] = s[i]
<1>1. SubSeq(s, 1, n) \in Seq(S)
  BY SubSeqProperties
<1>2. Size(SubSeq(s, 1, n)) = IF 1 <= n THEN n - 1 + 1 ELSE 0
  BY SubSeqProperties DEF Size
<1>3. (IF 1 <= n THEN n - 1 + 1 ELSE 0) = n
  OBVIOUS
<1>4. \A i \in 1 .. n : SubSeq(s, 1, n)[i] = s[i]
  BY SubSeqProperties
<1>5. Size(SubSeq(s, 1, n)) = n
  BY <1>2, <1>3
<1> QED BY <1>1, <1>4, <1>5

LEMMA FrontImage ==
    ASSUME NEW s, NEW n \in Nat, \A i \in 1 .. n : s[i] \in Byte
    PROVE  SubSeq(s, 1, n) \in Image /\ Size(SubSeq(s, 1, n)) = n
<1>1. SubSeq(s, 1, n) \in Seq(Byte)
  BY SubSeqProperties
<1>2. Size(SubSeq(s, 1, n)) = n
  BY FrontOf
<1> QED BY <1>1, <1>2 DEF Image

(* The Serializer.                                                         *)

LEMMA ByteOf ==
    ASSUME NEW v \in Nat
    PROVE  v % 256 \in Byte /\ Shifted(v) \in Nat
BY DEF Byte, Shifted

LEMMA LEType ==
    ASSUME NEW v \in Nat, NEW n \in {1, 2, 4, 8}
    PROVE  LE(v, n) \in Image /\ Size(LE(v, n)) = n
<1> DEFINE v1 == Shifted(v)  v2 == Shifted(v1)  v3 == Shifted(v2)  v4 == Shifted(v3)
           v5 == Shifted(v4)  v6 == Shifted(v5)  v7 == Shifted(v6)
           digits == <<v % 256, v1 % 256, v2 % 256, v3 % 256,
                       v4 % 256, v5 % 256, v6 % 256, v7 % 256>>
<1>1. /\ v1 \in Nat /\ v2 \in Nat /\ v3 \in Nat /\ v4 \in Nat
      /\ v5 \in Nat /\ v6 \in Nat /\ v7 \in Nat
  BY ByteOf
<1>2. digits \in Seq(Byte) /\ Size(digits) = 8
  <2> HIDE DEF v1, v2, v3, v4, v5, v6, v7
  <2> QED BY <1>1, ByteOf DEF Size
<1>3. LE(v, n) = SubSeq(digits, 1, n)
  BY DEF LE
<1> HIDE DEF digits
<1>4. n \in Nat /\ \A i \in 1 .. n : digits[i] \in Byte
  <2>1. \A i \in 1 .. Size(digits) : digits[i] \in Byte
    BY <1>2, ElementOfSeq, Zenon DEF Size
  <2>2. \A i \in 1 .. n : i \in 1 .. Size(digits)
    BY <1>2
  <2> QED BY <2>1, <2>2
<1>5. SubSeq(digits, 1, n) \in Image /\ Size(SubSeq(digits, 1, n)) = n
  BY <1>4, FrontImage
<1> QED BY <1>3, <1>5

\* The bytes of a number.
LEMMA LEDigits ==
    ASSUME NEW v \in Nat, NEW n \in {1, 2, 4, 8}
    PROVE  /\ LE(v, n)[1] = v % 256
           /\ n > 1 => LE(v, n)[2] = Shifted(v) % 256
           /\ n > 2 =>
                /\ LE(v, n)[3] = Shifted(Shifted(v)) % 256
                /\ LE(v, n)[4] = Shifted(Shifted(Shifted(v))) % 256
           /\ n = 8 =>
                /\ LE(v, n)[5] = Shifted(Shifted(Shifted(Shifted(v)))) % 256
                /\ LE(v, n)[6] = Shifted(Shifted(Shifted(Shifted(Shifted(v))))) % 256
                /\ LE(v, n)[7] = Shifted(Shifted(Shifted(Shifted(Shifted(Shifted(v)))))) % 256
                /\ LE(v, n)[8] =
                     Shifted(Shifted(Shifted(Shifted(Shifted(Shifted(Shifted(v))))))) % 256
<1> DEFINE v1 == Shifted(v)  v2 == Shifted(v1)  v3 == Shifted(v2)  v4 == Shifted(v3)
           v5 == Shifted(v4)  v6 == Shifted(v5)  v7 == Shifted(v6)
           digits == <<v % 256, v1 % 256, v2 % 256, v3 % 256,
                       v4 % 256, v5 % 256, v6 % 256, v7 % 256>>
<1>1. /\ v1 \in Nat /\ v2 \in Nat /\ v3 \in Nat /\ v4 \in Nat
      /\ v5 \in Nat /\ v6 \in Nat /\ v7 \in Nat
  BY ByteOf
<1>2. LE(v, n) = SubSeq(digits, 1, n)
  BY DEF LE
<1> HIDE DEF v1, v2, v3, v4, v5, v6, v7
<1>3. digits \in Seq(Byte) /\ Size(digits) = 8
  BY <1>1, ByteOf DEF Size
<1>4. /\ digits[1] = v % 256 /\ digits[2] = v1 % 256 /\ digits[3] = v2 % 256
      /\ digits[4] = v3 % 256 /\ digits[5] = v4 % 256 /\ digits[6] = v5 % 256
      /\ digits[7] = v6 % 256 /\ digits[8] = v7 % 256
  OBVIOUS
<1> HIDE DEF digits
<1>5. n \in Nat /\ \A i \in 1 .. n : digits[i] \in Byte
  <2>1. \A i \in 1 .. Size(digits) : digits[i] \in Byte
    BY <1>3, ElementOfSeq, Zenon DEF Size
  <2>2. \A i \in 1 .. n : i \in 1 .. Size(digits)
    BY <1>3
  <2> QED BY <2>1, <2>2
<1>6. \A i \in 1 .. n : SubSeq(digits, 1, n)[i] = digits[i]
  BY <1>5, FrontOf
<1>7. /\ LE(v, n)[1] = v % 256
      /\ n > 1 => LE(v, n)[2] = v1 % 256
      /\ n > 2 => LE(v, n)[3] = v2 % 256 /\ LE(v, n)[4] = v3 % 256
      /\ n = 8 => /\ LE(v, n)[5] = v4 % 256 /\ LE(v, n)[6] = v5 % 256
                  /\ LE(v, n)[7] = v6 % 256 /\ LE(v, n)[8] = v7 % 256
  BY <1>2, <1>4, <1>6
<1> QED BY <1>7, Zenon DEF v1, v2, v3, v4, v5, v6, v7

\* A record is its fields, one behind the other; these are the fields a reader uses.
LEMMA SectionHeaderFields ==
    ASSUME NEW h \in SectionHeaders
    PROVE  /\ SectionHeaderBytes(h) \in Image
           /\ Size(SectionHeaderBytes(h)) = section_header_size
           /\ \A i \in 1 .. 4 : SectionHeaderBytes(h)[0 + i] = LE(h.sh_name, 4)[i]
           /\ \A i \in 1 .. 8 : SectionHeaderBytes(h)[24 + i] = LE(h.sh_offset, 8)[i]
           /\ \A i \in 1 .. 8 : SectionHeaderBytes(h)[32 + i] = LE(h.sh_size, 8)[i]
           /\ \A i \in 1 .. 4 : SectionHeaderBytes(h)[40 + i] = LE(h.sh_link, 4)[i]
           /\ \A i \in 1 .. 4 : SectionHeaderBytes(h)[44 + i] = LE(h.sh_info, 4)[i]
           /\ \A i \in 1 .. 8 : SectionHeaderBytes(h)[56 + i] = LE(h.sh_entsize, 8)[i]
<1>1. /\ h.sh_name \in Nat /\ h.sh_type \in Nat /\ h.sh_flags \in Nat /\ h.sh_addr \in Nat
      /\ h.sh_offset \in Nat /\ h.sh_size \in Nat /\ h.sh_link \in Nat /\ h.sh_info \in Nat
      /\ h.sh_addralign \in Nat /\ h.sh_entsize \in Nat
  BY DEF SectionHeaders
<1> DEFINE a == LE(h.sh_name, 4)  b == LE(h.sh_type, 4)  c == LE(h.sh_flags, 8)
           d == LE(h.sh_addr, 8)  e == LE(h.sh_offset, 8)  f == LE(h.sh_size, 8)
           g == LE(h.sh_link, 4)  k == LE(h.sh_info, 4)  l == LE(h.sh_addralign, 8)
           m == LE(h.sh_entsize, 8)
<1>2. /\ a \in Image /\ Size(a) = 4 /\ b \in Image /\ Size(b) = 4
      /\ c \in Image /\ Size(c) = 8 /\ d \in Image /\ Size(d) = 8
      /\ e \in Image /\ Size(e) = 8 /\ f \in Image /\ Size(f) = 8
      /\ g \in Image /\ Size(g) = 4 /\ k \in Image /\ Size(k) = 4
      /\ l \in Image /\ Size(l) = 8 /\ m \in Image /\ Size(m) = 8
  BY <1>1, LEType
<1> DEFINE p1 == Cat(a, b)  p2 == Cat(p1, c)  p3 == Cat(p2, d)  p4 == Cat(p3, e)
           p5 == Cat(p4, f)  p6 == Cat(p5, g)  p7 == Cat(p6, k)  p8 == Cat(p7, l)
           p9 == Cat(p8, m)
<1>4. SectionHeaderBytes(h) = p9
  BY DEF SectionHeaderBytes, Cat
<1> HIDE DEF a, b, c, d, e, f, g, k, l, m
<1>5. p1 \in Image /\ Size(p1) = 8
  BY <1>2, CatImage
<1>5b. \A i \in 1 .. 4 : p1[i] = a[i]
  BY <1>2, CatElements
<1> HIDE DEF p1
<1>6. p2 \in Image /\ Size(p2) = 16
  BY <1>2, <1>5, CatImage
<1>6b. \A i \in 1 .. 8 : p2[i] = p1[i]
  BY <1>2, <1>5, CatElements
<1> HIDE DEF p2
<1>7. p3 \in Image /\ Size(p3) = 24
  BY <1>2, <1>6, CatImage
<1>7b. \A i \in 1 .. 16 : p3[i] = p2[i]
  BY <1>2, <1>6, CatElements
<1> HIDE DEF p3
<1>8. p4 \in Image /\ Size(p4) = 32
  BY <1>2, <1>7, CatImage
<1>8a. (\A i \in 1 .. 24 : p4[i] = p3[i]) /\ (\A i \in 1 .. 8 : p4[24 + i] = e[i])
  BY <1>2, <1>7, CatElements
<1> HIDE DEF p4
<1>9. p5 \in Image /\ Size(p5) = 40
  BY <1>2, <1>8, CatImage
<1>9a. (\A i \in 1 .. 32 : p5[i] = p4[i]) /\ (\A i \in 1 .. 8 : p5[32 + i] = f[i])
  BY <1>2, <1>8, CatElements
<1> HIDE DEF p5
<1>10. p6 \in Image /\ Size(p6) = 44
  BY <1>2, <1>9, CatImage
<1>10a. (\A i \in 1 .. 40 : p6[i] = p5[i]) /\ (\A i \in 1 .. 4 : p6[40 + i] = g[i])
  BY <1>2, <1>9, CatElements
<1> HIDE DEF p6
<1>11. p7 \in Image /\ Size(p7) = 48
  BY <1>2, <1>10, CatImage
<1>11a. (\A i \in 1 .. 44 : p7[i] = p6[i]) /\ (\A i \in 1 .. 4 : p7[44 + i] = k[i])
  BY <1>2, <1>10, CatElements
<1> HIDE DEF p7
<1>12. p8 \in Image /\ Size(p8) = 56
  BY <1>2, <1>11, CatImage
<1>12b. \A i \in 1 .. 48 : p8[i] = p7[i]
  BY <1>2, <1>11, CatElements
<1> HIDE DEF p8
<1>12a. p9 \in Image /\ Size(p9) = 64
  BY <1>2, <1>12, CatImage
<1>13. (\A i \in 1 .. 56 : p9[i] = p8[i]) /\ (\A i \in 1 .. 8 : p9[56 + i] = m[i])
  BY <1>2, <1>12, CatElements
<1> HIDE DEF p9
<1>14. \A i \in 1 .. 44 : p9[i] = p6[i]
  BY <1>11a, <1>12b, <1>13
<1>15. \A i \in 1 .. 32 : p9[i] = p4[i]
  BY <1>9a, <1>10a, <1>14
<1>16. \A i \in 1 .. 4 : p9[0 + i] = a[i]
  <2>1. \A i \in 1 .. 4 : p4[i] = p1[i]
    BY <1>6b, <1>7b, <1>8a
  <2> QED BY <1>5b, <1>15, <2>1
<1>17. \A i \in 1 .. 8 : p9[24 + i] = e[i]
  BY <1>8a, <1>15
<1>18. \A i \in 1 .. 8 : p9[32 + i] = f[i]
  BY <1>9a, <1>10a, <1>14
<1>19. \A i \in 1 .. 4 : p9[40 + i] = g[i]
  BY <1>10a, <1>14
<1>20. \A i \in 1 .. 4 : p9[44 + i] = k[i]
  BY <1>11a, <1>12b, <1>13
<1>21. section_header_size = 64
  BY DEF section_header_size
<1> QED BY <1>4, <1>12a, <1>13, <1>16, <1>17, <1>18, <1>19, <1>20, <1>21 DEF a, e, f, g, k, m

LEMMA SymbolFields ==
    ASSUME NEW sym \in Symbols
    PROVE  /\ SymbolBytes(sym) \in Image
           /\ Size(SymbolBytes(sym)) = symbol_size
           /\ \A i \in 1 .. 4 : SymbolBytes(sym)[0 + i] = LE(sym.st_name, 4)[i]
           /\ SymbolBytes(sym)[5] = sym.st_info
           /\ \A i \in 1 .. 2 : SymbolBytes(sym)[6 + i] = LE(sym.st_shndx, 2)[i]
           /\ \A i \in 1 .. 8 : SymbolBytes(sym)[8 + i] = LE(sym.st_value, 8)[i]
           /\ \A i \in 1 .. 8 : SymbolBytes(sym)[16 + i] = LE(sym.st_size, 8)[i]
<1>1. /\ sym.st_name \in Nat /\ sym.st_info \in Nat /\ sym.st_other \in Nat
      /\ sym.st_shndx \in Nat /\ sym.st_value \in Nat /\ sym.st_size \in Nat
      /\ sym.st_info \in 0 .. 255
  BY DEF Symbols, Byte, SectionType
<1> DEFINE a == LE(sym.st_name, 4)  b == LE(sym.st_info, 1)  c == LE(sym.st_other, 1)
           d == LE(sym.st_shndx, 2)  e == LE(sym.st_value, 8)  f == LE(sym.st_size, 8)
<1>2. /\ a \in Image /\ Size(a) = 4 /\ b \in Image /\ Size(b) = 1
      /\ c \in Image /\ Size(c) = 1 /\ d \in Image /\ Size(d) = 2
      /\ e \in Image /\ Size(e) = 8 /\ f \in Image /\ Size(f) = 8
  BY <1>1, LEType
<1>2a. b[1] = sym.st_info
  <2>1. b[1] = sym.st_info % 256
    BY <1>1, LEDigits
  <2> QED BY <1>1, <2>1
<1> DEFINE p1 == Cat(a, b)  p2 == Cat(p1, c)  p3 == Cat(p2, d)  p4 == Cat(p3, e)
           p5 == Cat(p4, f)
<1>3. SymbolBytes(sym) = p5
  BY DEF SymbolBytes, Cat
<1> HIDE DEF a, b, c, d, e, f
<1>4. p1 \in Image /\ Size(p1) = 5
  BY <1>2, CatImage
<1>4a. /\ \A i \in 1 .. 4 : p1[i] = a[i]
       /\ p1[5] = b[1]
  <2>1. 1 \in 1 .. Size(b)
    BY <1>2
  <2>2. p1[4 + 1] = b[1]
    BY <1>2, <2>1, CatElements
  <2> QED BY <1>2, <2>2, CatElements
<1> HIDE DEF p1
<1>5. p2 \in Image /\ Size(p2) = 6
  BY <1>2, <1>4, CatImage
<1>5b. \A i \in 1 .. 5 : p2[i] = p1[i]
  BY <1>2, <1>4, CatElements
<1> HIDE DEF p2
<1>6. p3 \in Image /\ Size(p3) = 8
  BY <1>2, <1>5, CatImage
<1>6a. (\A i \in 1 .. 6 : p3[i] = p2[i]) /\ (\A i \in 1 .. 2 : p3[6 + i] = d[i])
  BY <1>2, <1>5, CatElements
<1> HIDE DEF p3
<1>7. p4 \in Image /\ Size(p4) = 16
  BY <1>2, <1>6, CatImage
<1>7a. (\A i \in 1 .. 8 : p4[i] = p3[i]) /\ (\A i \in 1 .. 8 : p4[8 + i] = e[i])
  BY <1>2, <1>6, CatElements
<1> HIDE DEF p4
<1>7b. p5 \in Image /\ Size(p5) = 24
  BY <1>2, <1>7, CatImage
<1>8. (\A i \in 1 .. 16 : p5[i] = p4[i]) /\ (\A i \in 1 .. 8 : p5[16 + i] = f[i])
  BY <1>2, <1>7, CatElements
<1> HIDE DEF p5
<1>9. \A i \in 1 .. 8 : p5[i] = p3[i]
  BY <1>7a, <1>8
<1>10. \A i \in 1 .. 5 : p5[i] = p1[i]
  BY <1>5b, <1>6a, <1>9
<1>11. (\A i \in 1 .. 4 : p5[0 + i] = a[i]) /\ p5[5] = sym.st_info
  BY <1>2a, <1>4a, <1>10
<1>12. \A i \in 1 .. 2 : p5[6 + i] = d[i]
  BY <1>6a, <1>9
<1>13. \A i \in 1 .. 8 : p5[8 + i] = e[i]
  BY <1>7a, <1>8
<1>14. symbol_size = 24
  BY DEF symbol_size
<1> QED BY <1>3, <1>7b, <1>8, <1>11, <1>12, <1>13, <1>14 DEF a, d, e, f

\* 2^16, 2^32 and 2^64.
U16 == 65536
U32Limit == U16 * U16
U64 == U16 * U16 * U16 * U16

LEMMA ReadBack8 ==
    ASSUME NEW v \in Nat, v < U64, NEW image, NEW o \in Nat,
           \A i \in 1 .. 8 : image[o + i] = LE(v, 8)[i]
    PROVE  Reader!Num(image, o, 8) = v
<1> DEFINE v1 == Shifted(v)  v2 == Shifted(v1)  v3 == Shifted(v2)  v4 == Shifted(v3)
           v5 == Shifted(v4)  v6 == Shifted(v5)  v7 == Shifted(v6)
<1>1. /\ v1 \in Nat /\ v2 \in Nat /\ v3 \in Nat /\ v4 \in Nat
      /\ v5 \in Nat /\ v6 \in Nat /\ v7 \in Nat
  BY ByteOf
<1>2. /\ image[o + 1] = v % 256 /\ image[o + 2] = v1 % 256 /\ image[o + 3] = v2 % 256
      /\ image[o + 4] = v3 % 256 /\ image[o + 5] = v4 % 256 /\ image[o + 6] = v5 % 256
      /\ image[o + 7] = v6 % 256 /\ image[o + 8] = v7 % 256
  BY LEDigits
<1>3. Reader!Num(image, o, 8) =
        (v % 256) + 256 * ((v1 % 256) + 256 * ((v2 % 256) + 256 * ((v3 % 256) + 256 *
            ((v4 % 256) + 256 * ((v5 % 256) + 256 * ((v6 % 256) + 256 * (v7 % 256)))))))
  <2> HIDE DEF v1, v2, v3, v4, v5, v6, v7
  <2> QED BY <1>2 DEF Reader!Num
<1>4. \A w \in Nat : w = (w % 256) + 256 * Shifted(w)
  BY DEF Shifted
<1>5. v7 < 256
  <2>1. \A w, m \in Nat : w < 256 * m => Shifted(w) < m
    BY DEF Shifted
  <2>2. v < 256 * 72057594037927936
    BY DEF U64, U16
  <2>3. v1 < 72057594037927936
    BY <2>1, <2>2
  <2>4. v2 < 281474976710656
    BY <1>1, <2>1, <2>3
  <2>5. v3 < 1099511627776
    BY <1>1, <2>1, <2>4
  <2>6. v4 < 4294967296
    BY <1>1, <2>1, <2>5
  <2>7. v5 < 16777216
    BY <1>1, <2>1, <2>6
  <2>8. v6 < 65536
    BY <1>1, <2>1, <2>7
  <2> QED BY <1>1, <2>1, <2>8
<1>6. v7 % 256 = v7
  BY <1>1, <1>5
<1>7. /\ v = (v % 256) + 256 * v1 /\ v1 = (v1 % 256) + 256 * v2 /\ v2 = (v2 % 256) + 256 * v3
      /\ v3 = (v3 % 256) + 256 * v4 /\ v4 = (v4 % 256) + 256 * v5 /\ v5 = (v5 % 256) + 256 * v6
      /\ v6 = (v6 % 256) + 256 * v7
  BY <1>1, <1>4
<1> HIDE DEF v1, v2, v3, v4, v5, v6, v7
<1> QED BY <1>1, <1>3, <1>6, <1>7

LEMMA ReadBack4 ==
    ASSUME NEW v \in Nat, v < U32Limit, NEW image, NEW o \in Nat,
           \A i \in 1 .. 4 : image[o + i] = LE(v, 4)[i]
    PROVE  Reader!Num(image, o, 4) = v
<1> DEFINE v1 == Shifted(v)  v2 == Shifted(v1)  v3 == Shifted(v2)
<1>1. v1 \in Nat /\ v2 \in Nat /\ v3 \in Nat
  BY ByteOf
<1>2. /\ image[o + 1] = v % 256 /\ image[o + 2] = v1 % 256 /\ image[o + 3] = v2 % 256
      /\ image[o + 4] = v3 % 256
  BY LEDigits
<1>3. Reader!Num(image, o, 4) =
        (v % 256) + 256 * ((v1 % 256) + 256 * ((v2 % 256) + 256 * (v3 % 256)))
  <2> HIDE DEF v1, v2, v3
  <2> QED BY <1>1, <1>2 DEF Reader!Num
<1>4. \A w \in Nat : w = (w % 256) + 256 * Shifted(w)
  BY DEF Shifted
<1>5. v3 < 256
  <2>1. \A w, m \in Nat : w < 256 * m => Shifted(w) < m
    BY DEF Shifted
  <2>2. v < 256 * 16777216
    BY DEF U32Limit, U16
  <2>3. v1 < 16777216
    BY <2>1, <2>2
  <2>4. v2 < 65536
    BY <1>1, <2>1, <2>3
  <2> QED BY <1>1, <2>1, <2>4
<1>6. v3 % 256 = v3
  BY <1>1, <1>5
<1>7. v = (v % 256) + 256 * v1 /\ v1 = (v1 % 256) + 256 * v2 /\ v2 = (v2 % 256) + 256 * v3
  BY <1>1, <1>4
<1> HIDE DEF v1, v2, v3
<1> QED BY <1>1, <1>3, <1>6, <1>7

LEMMA ReadBack2 ==
    ASSUME NEW v \in Nat, v < U16, NEW image, NEW o \in Nat,
           \A i \in 1 .. 2 : image[o + i] = LE(v, 2)[i]
    PROVE  Reader!Num(image, o, 2) = v
<1>1. image[o + 1] = v % 256 /\ image[o + 2] = Shifted(v) % 256
  BY LEDigits
<1>2. Reader!Num(image, o, 2) = (v % 256) + 256 * (Shifted(v) % 256)
  BY <1>1 DEF Reader!Num, Shifted
<1>3. Shifted(v) \in 0 .. 255 /\ v = (v % 256) + 256 * Shifted(v)
  BY DEF Shifted, U16
<1> QED BY <1>2, <1>3
\* The header of the file is 64 bytes, and holds what a reader starts from: the magic
\* number, e_shoff, e_shentsize, e_shnum and e_shstrndx.
LEMMA FileHeader ==
    ASSUME NEW v \in Nat
    PROVE  /\ ElfHeaderBytes(v) \in Image
           /\ Size(ElfHeaderBytes(v)) = elf_header_size
           /\ \A i \in 1 .. 8 : ElfHeaderBytes(v)[40 + i] = LE(v, 8)[i]
           /\ \A i \in 1 .. 2 : ElfHeaderBytes(v)[58 + i] = LE(section_header_size, 2)[i]
           /\ \A i \in 1 .. 2 : ElfHeaderBytes(v)[60 + i] = LE(num_sections, 2)[i]
           /\ \A i \in 1 .. 2 : ElfHeaderBytes(v)[62 + i] = LE(SectionHeaderStrTab, 2)[i]
           /\ \A i \in 1 .. 4 : ElfHeaderBytes(v)[i] = <<127, 69, 76, 70>>[i]
<1> DEFINE a == LE(et_rel, 2)  b == LE(em_x86_64, 2)  c == LE(ev_current, 4)
           z8 == LE(0, 8)  d == LE(v, 8)  z4 == LE(0, 4)  e == LE(elf_header_size, 2)
           z2 == LE(0, 2)  f == LE(section_header_size, 2)  g == LE(num_sections, 2)
           k == LE(SectionHeaderStrTab, 2)
           p1 == Cat(e_ident, a)  p2 == Cat(p1, b)  p3 == Cat(p2, c)  p4 == Cat(p3, z8)
           p5 == Cat(p4, z8)  p6 == Cat(p5, d)  p7 == Cat(p6, z4)  p8 == Cat(p7, e)
           p9 == Cat(p8, z2)  p10 == Cat(p9, z2)  p11 == Cat(p10, f)  p12 == Cat(p11, g)
           p13 == Cat(p12, k)
<1>1. ElfHeaderBytes(v) = p13
  BY DEF ElfHeaderBytes, Cat
<1>2. /\ et_rel \in Nat /\ em_x86_64 \in Nat /\ ev_current \in Nat /\ 0 \in Nat
      /\ elf_header_size \in Nat /\ section_header_size \in Nat /\ num_sections \in Nat
      /\ SectionHeaderStrTab \in Nat
  BY DEF et_rel, em_x86_64, ev_current, elf_header_size, section_header_size, num_sections,
         SectionHeaderStrTab
<1>3. /\ a \in Image /\ Size(a) = 2 /\ b \in Image /\ Size(b) = 2
      /\ c \in Image /\ Size(c) = 4 /\ z8 \in Image /\ Size(z8) = 8
      /\ d \in Image /\ Size(d) = 8 /\ z4 \in Image /\ Size(z4) = 4
      /\ e \in Image /\ Size(e) = 2 /\ z2 \in Image /\ Size(z2) = 2
      /\ f \in Image /\ Size(f) = 2 /\ g \in Image /\ Size(g) = 2
      /\ k \in Image /\ Size(k) = 2
  BY <1>2, LEType
<1>4. e_ident \in Image /\ Size(e_ident) = 16
  BY DEF e_ident, Image, Size, Byte
<1>4a. \A i \in 1 .. 4 : e_ident[i] = <<127, 69, 76, 70>>[i]
  BY DEF e_ident
<1> HIDE DEF a, b, c, z8, d, z4, e, z2, f, g, k
<1>5. p1 \in Image /\ Size(p1) = 18
  BY <1>3, <1>4, CatImage
<1>5c. \A i \in 1 .. 16 : p1[i] = e_ident[i]
  BY <1>3, <1>4, CatElements
<1> HIDE DEF p1
<1>6. p2 \in Image /\ Size(p2) = 20
  BY <1>3, <1>5, CatImage
<1>6c. \A i \in 1 .. 18 : p2[i] = p1[i]
  BY <1>3, <1>5, CatElements
<1> HIDE DEF p2
<1>7. p3 \in Image /\ Size(p3) = 24
  BY <1>3, <1>6, CatImage
<1>7c. \A i \in 1 .. 20 : p3[i] = p2[i]
  BY <1>3, <1>6, CatElements
<1> HIDE DEF p3
<1>8. p4 \in Image /\ Size(p4) = 32
  BY <1>3, <1>7, CatImage
<1>8c. \A i \in 1 .. 24 : p4[i] = p3[i]
  BY <1>3, <1>7, CatElements
<1> HIDE DEF p4
<1>9. p5 \in Image /\ Size(p5) = 40
  BY <1>3, <1>8, CatImage
<1>9c. \A i \in 1 .. 32 : p5[i] = p4[i]
  BY <1>3, <1>8, CatElements
<1> HIDE DEF p5
<1>10. p6 \in Image /\ Size(p6) = 48
  BY <1>3, <1>9, CatImage
<1>10a. \A i \in 1 .. 8 : p6[40 + i] = d[i]
  BY <1>3, <1>9, CatElements
<1>10c. \A i \in 1 .. 40 : p6[i] = p5[i]
  BY <1>3, <1>9, CatElements
<1> HIDE DEF p6
<1>11. p7 \in Image /\ Size(p7) = 52
  BY <1>3, <1>10, CatImage
<1>11a. \A i \in 1 .. 48 : p7[i] = p6[i]
  BY <1>3, <1>10, CatElements
<1> HIDE DEF p7
<1>12. p8 \in Image /\ Size(p8) = 54
  BY <1>3, <1>11, CatImage
<1>12a. \A i \in 1 .. 52 : p8[i] = p7[i]
  BY <1>3, <1>11, CatElements
<1> HIDE DEF p8
<1>13. p9 \in Image /\ Size(p9) = 56
  BY <1>3, <1>12, CatImage
<1>13a. \A i \in 1 .. 54 : p9[i] = p8[i]
  BY <1>3, <1>12, CatElements
<1> HIDE DEF p9
<1>14. p10 \in Image /\ Size(p10) = 58
  BY <1>3, <1>13, CatImage
<1>14a. \A i \in 1 .. 56 : p10[i] = p9[i]
  BY <1>3, <1>13, CatElements
<1> HIDE DEF p10
<1>15. p11 \in Image /\ Size(p11) = 60
  BY <1>3, <1>14, CatImage
<1>15a. \A i \in 1 .. 58 : p11[i] = p10[i]
  BY <1>3, <1>14, CatElements
<1>15b. \A i \in 1 .. 2 : p11[58 + i] = f[i]
  BY <1>3, <1>14, CatElements
<1> HIDE DEF p11
<1>16. p12 \in Image /\ Size(p12) = 62
  BY <1>3, <1>15, CatImage
<1>16a. \A i \in 1 .. 60 : p12[i] = p11[i]
  BY <1>3, <1>15, CatElements
<1>16b. \A i \in 1 .. 2 : p12[60 + i] = g[i]
  BY <1>3, <1>15, CatElements
<1> HIDE DEF p12
<1>17. p13 \in Image /\ Size(p13) = 64
  BY <1>3, <1>16, CatImage
<1>17a. \A i \in 1 .. 62 : p13[i] = p12[i]
  BY <1>3, <1>16, CatElements
<1>17b. \A i \in 1 .. 2 : p13[62 + i] = k[i]
  BY <1>3, <1>16, CatElements
<1> HIDE DEF p13
<1>18. \A i \in 1 .. 8 : p13[40 + i] = d[i]
  <2> SUFFICES ASSUME NEW i \in 1 .. 8 PROVE p13[40 + i] = d[i]
    OBVIOUS
  <2>1. p13[40 + i] = p10[40 + i]
    BY <1>15a, <1>16a, <1>17a
  <2>2. p10[40 + i] = p6[40 + i]
    BY <1>11a, <1>12a, <1>13a, <1>14a
  <2> QED BY <1>10a, <2>1, <2>2
<1>19. \A i \in 1 .. 2 : p13[58 + i] = f[i] /\ p13[60 + i] = g[i]
  BY <1>15b, <1>16a, <1>16b, <1>17a
<1>19a. \A i \in 1 .. 4 : p13[i] = <<127, 69, 76, 70>>[i]
  <2> SUFFICES ASSUME NEW i \in 1 .. 4 PROVE p13[i] = <<127, 69, 76, 70>>[i]
    OBVIOUS
  <2>1. p13[i] = p10[i]
    BY <1>15a, <1>16a, <1>17a
  <2>2. p10[i] = p6[i]
    BY <1>11a, <1>12a, <1>13a, <1>14a
  <2>3. p6[i] = p3[i]
    BY <1>8c, <1>9c, <1>10c
  <2>4. p3[i] = e_ident[i]
    BY <1>5c, <1>6c, <1>7c
  <2> QED BY <1>4a, <2>1, <2>2, <2>3, <2>4
<1>20. elf_header_size = 64
  BY DEF elf_header_size
<1> QED BY <1>1, <1>17, <1>17b, <1>18, <1>19, <1>19a, <1>20 DEF d, f, g, k

\* Reader!Bytes cuts a string of bytes out of an image.
LEMMA BytesAt ==
    ASSUME NEW image, NEW o \in Nat, NEW s \in Image,
           \A i \in 1 .. Size(s) : image[o + i] = s[i]
    PROVE  Reader!Bytes(image, o, Size(s)) = s
<1> DEFINE n == Size(s)  t == SubSeq(image, o + 1, o + n)
<1>1. s \in Seq(Byte) /\ n = Len(s) /\ n \in Nat /\ \A i \in 1 .. n : s[i] \in Byte
  BY LenProperties, ElementOfSeq DEF Image, Size
<1>2. \A i \in o + 1 .. o + n : image[i] \in Byte
  <2> SUFFICES ASSUME NEW i \in o + 1 .. o + n PROVE image[i] \in Byte
    OBVIOUS
  <2>1. i - o \in 1 .. n /\ o + (i - o) = i
    BY <1>1
  <2> QED BY <1>1, <2>1
<1>3. /\ t \in Seq(Byte)
      /\ Len(t) = IF o + 1 <= o + n THEN (o + n) - (o + 1) + 1 ELSE 0
      /\ \A i \in 1 .. (o + n) - (o + 1) + 1 : t[i] = image[(o + 1) + i - 1]
  <2>1. o + 1 \in Int /\ o + n \in Int
    BY <1>1
  <2> HIDE DEF n
  <2> QED BY <1>2, <2>1, SubSeqProperties
<1> HIDE DEF t
<1>4. Len(t) = n
  <2>1. (IF o + 1 <= o + n THEN (o + n) - (o + 1) + 1 ELSE 0) = n
    BY <1>1
  <2> QED BY <1>3, <2>1
<1>5. \A i \in 1 .. n : t[i] = s[i]
  <2> SUFFICES ASSUME NEW i \in 1 .. n PROVE t[i] = s[i]
    OBVIOUS
  <2>1. i \in 1 .. (o + n) - (o + 1) + 1 /\ (o + 1) + i - 1 = o + i
    BY <1>1
  <2> QED BY <1>3, <2>1
<1>6. t = s
  <2> HIDE DEF n
  <2> QED BY <1>1, <1>3, <1>4, <1>5, SeqEqual
<1> QED BY <1>6 DEF t, Reader!Bytes

\* A string without a NUL that ends in one is what Reader!StringAt reads.
LEMMA StringRead ==
    ASSUME NEW image, NEW o \in Nat, NEW end \in Nat, NEW s \in Image,
           \A i \in 1 .. Size(s) : s[i] # 0,
           \A i \in 1 .. Size(s) : image[o + i] = s[i],
           image[o + Size(s) + 1] = 0, o + Size(s) < end
    PROVE  Reader!StringAt(image, o, end) = s
<1>1. Size(s) \in Nat
  BY CatImage
<1> DEFINE Ends(z) == image[z + 1] = 0 /\ \A y \in o .. z - 1 : image[y + 1] # 0
           nul == CHOOSE z \in o .. end - 1 : Ends(z)
<1>2. o + Size(s) \in o .. end - 1 /\ Ends(o + Size(s))
  <2>1. ASSUME NEW y \in o .. (o + Size(s)) - 1 PROVE image[y + 1] # 0
    <3>1. (y - o) + 1 \in 1 .. Size(s) /\ o + ((y - o) + 1) = y + 1
      BY <1>1
    <3> QED BY <3>1
  <2> QED BY <1>1, <2>1
<1>3. \A z \in o .. end - 1 : Ends(z) => z = o + Size(s)
  <2> SUFFICES ASSUME NEW z \in o .. end - 1, Ends(z), z # o + Size(s) PROVE FALSE
    OBVIOUS
  <2>1. CASE z < o + Size(s)
    <3>1. z \in o .. (o + Size(s)) - 1
      BY <1>1, <2>1
    <3> QED BY <1>2, <3>1
  <2>2. CASE z > o + Size(s)
    <3>1. o + Size(s) \in o .. z - 1
      BY <1>1, <2>2
    <3> QED BY <1>2, <3>1
  <2> QED BY <1>1, <2>1, <2>2
<1>4. nul \in o .. end - 1 /\ Ends(nul)
  <2>1. \E z \in o .. end - 1 : Ends(z)
    BY <1>2
  <2> HIDE DEF Ends
  <2> QED BY <2>1
<1>5. nul = o + Size(s)
  BY <1>3, <1>4
<1>6. Reader!StringAt(image, o, end) = Reader!Bytes(image, o, nul - o)
  BY DEF Reader!StringAt
<1>7. nul - o = Size(s)
  <2> HIDE DEF nul
  <2> QED BY <1>1, <1>5
<1>8. Reader!Bytes(image, o, Size(s)) = s
  BY BytesAt
<1> QED BY <1>6, <1>7, <1>8
-----------------------------------------------------------------------------
(* The inductive invariant.                                                *)

\* The bytes of the sections that come before section n.
Before(n) ==
    (IF n > 0 THEN Size(bodies[0]) ELSE 0) + (IF n > 1 THEN Size(bodies[1]) ELSE 0)
        + (IF n > 2 THEN Size(bodies[2]) ELSE 0) + (IF n > 3 THEN Size(bodies[3]) ELSE 0)
        + (IF n > 4 THEN Size(bodies[4]) ELSE 0) + (IF n > 5 THEN Size(bodies[5]) ELSE 0)

\* Every header knows the length of its section, from the start.
SizesMatch == \A sec \in SectionType : headers[sec].sh_size = Size(bodies[sec])

Serializing == pc \in {"bodies", "headers", "write", "end"}

\* The image begins with the header of the file, and e_shoff accounts for every section.
HeaderStands ==
    Serializing =>
       /\ e_shoff = elf_header_size + Before(num_sections)
       /\ Size(out) >= elf_header_size
       /\ \A i \in 1 .. elf_header_size : out[i] = ElfHeaderBytes(e_shoff)[i]

\* The image has grown by the sections emitted, each at the place its header names.
BodiesStand ==
    /\ pc = "bodies" => Size(out) = elf_header_size + Before(idx)
    /\ \A sec \in Emitted :
          /\ headers[sec].sh_offset = elf_header_size + Before(sec)
          /\ headers[sec].sh_offset + Size(bodies[sec]) <= Size(out)
          /\ \A i \in 1 .. Size(bodies[sec]) :
                out[headers[sec].sh_offset + i] = bodies[sec][i]

\* The names of the sections visited stand where their headers say.  No name has more
\* than nine bytes, so the table stays below 64.
NamesStand ==
    pc = "names" =>
       /\ Size(strtab) <= 10 * idx
       /\ \A i \in 1 .. idx :
             StandsAt(strtab, headers[order[i]].sh_name, section_name(order[i]))

\* The symbols collected are those of the code, named as they are there.
SymbolsStand ==
    /\ pc = "symbols" =>
          /\ Len(symbols) = idx + 1
          /\ \A i \in 1 .. idx :
                Size(strtab) <= U32 =>
                   StandsAt(strtab, symbols[i + 1].st_name, code.symbols[i].name)
    /\ Serializing => bodies[SymTabStrTab] = strtab

IInv ==
    /\ TypeOK /\ SizesMatch /\ HeaderStands /\ BodiesStand /\ HeadersWherePredicted
    /\ NamesStand /\ SectionNamesResolve /\ SymbolsStand /\ SymbolNamesResolve

\* The header of a section that has been emitted stands in the image.
HeadersOut ==
    \A sec \in SectionType :
       pc \in {"write", "end"} \/ (pc = "headers" /\ sec < idx) =>
          \A k \in 1 .. section_header_size :
             out[e_shoff + section_header_size * sec + k] = SectionHeaderBytes(headers[sec])[k]

\* The table of section names is short, so no sh_name is cut to 32 bits.
NamesShort == pc # "names" => Size(bodies[SectionHeaderStrTab]) <= 60

\* The sections hold the code, and .symtab says where its names and its symbols are.
SectionsHold ==
    Serializing =>
       /\ bodies[Text] = code.text /\ bodies[Data] = code.data /\ bodies[SymTab] = SymTabBytes
       /\ headers[SymTab].sh_link = SymTabStrTab
       /\ headers[SymTab].sh_info = 1
       /\ headers[SymTab].sh_entsize = symbol_size

\* A symbol of the table describes a symbol of the code.
Describes(s, sym) ==
    /\ s.st_info = st_info(STB_GLOBAL, IF sym.code_section = Text THEN STT_FUNC ELSE STT_OBJECT)
    /\ s.st_shndx = sym.code_section
    /\ s.st_value = sym.offset
    /\ s.st_size = sym.value

\* All symbols collected are described.
SymbolsDescribed ==
    pc # "names" => \A i \in 1 .. Len(symbols) - 1 : Describes(symbols[i + 1], code.symbols[i])

\* The outcome is known at the end, and a file reported as written is the image.
OutcomeKnown ==
    /\ pc # "end" => outcome = "pending"
    /\ outcome = "written" => pc = "end" /\ file = out

DInv == HeadersOut /\ NamesShort /\ SectionsHold /\ SymbolsDescribed /\ OutcomeKnown
-----------------------------------------------------------------------------
(* The types.                                                              *)

LEMMA SectionTypes ==
    /\ SectionType = {0, 1, 2, 3, 4, 5}
    /\ num_sections = 6
    /\ Null = 0 /\ Text = 1 /\ SectionHeaderStrTab = 2
    /\ SymTab = 3 /\ SymTabStrTab = 4 /\ Data = 5
BY DEF SectionType, num_sections, Null, Text, SectionHeaderStrTab, SymTab, SymTabStrTab, Data

LEMMA NameType ==
    ASSUME NEW sec \in SectionType
    PROVE  section_name(sec) \in Image /\ Size(section_name(sec)) \in 0 .. 9
<1>1. CASE sec = Null
  BY <1>1 DEF section_name, Image, Size
<1>2. CASE sec = Text
  BY <1>2, SectionTypes DEF section_name, Image, Size, Byte
<1>3. CASE sec = SectionHeaderStrTab
  BY <1>3, SectionTypes DEF section_name, Image, Size, Byte
<1>4. CASE sec = SymTab
  BY <1>4, SectionTypes DEF section_name, Image, Size, Byte
<1>5. CASE sec = SymTabStrTab
  BY <1>5, SectionTypes DEF section_name, Image, Size, Byte
<1>6. CASE sec = Data
  BY <1>6, SectionTypes DEF section_name, Image, Size, Byte
<1> QED BY <1>1, <1>2, <1>3, <1>4, <1>5, <1>6, SectionTypes

LEMMA Nul ==
    << >> \in Image /\ Size(<< >>) = 0 /\ <<0>> \in Image /\ Size(<<0>>) = 1 /\ <<0>>[1] = 0
BY DEF Image, Size, Byte

LEMMA CodeType ==
    ASSUME NEW c \in Codes
    PROVE  /\ c.text \in Image /\ c.data \in Image
           /\ Len(c.symbols) \in Nat
           /\ \A i \in 1 .. Len(c.symbols) :
                 /\ c.symbols[i] \in CodeSymbol
                 /\ c.symbols[i].offset \in Nat /\ c.symbols[i].value \in Nat
                 /\ c.symbols[i].code_section \in SectionType
                 /\ c.symbols[i].name \in Image
<1>1. c.text \in Image /\ c.data \in Image /\ c.symbols \in Seq(CodeSymbol)
  <2>1. c \in [text : Seq(Byte), data : Seq(Byte), symbols : Seq(CodeSymbol)]
    BY CodesAssumption
  <2> QED BY <2>1 DEF Image
<1>2. Len(c.symbols) \in Nat
  BY <1>1, LenProperties
<1>3. \A i \in 1 .. Len(c.symbols) : c.symbols[i] \in CodeSymbol
  BY <1>1, ElementOfSeq, Zenon
<1>4. \A sym \in CodeSymbol :
         /\ sym.offset \in Nat /\ sym.value \in Nat /\ sym.code_section \in SectionType
         /\ sym.name \in Seq(Byte \ {0})
  BY SectionTypes DEF CodeSymbol
<1>5. \A n \in Seq(Byte \ {0}) : n \in Image
  BY SeqMonotonic, Zenon DEF Image
<1> QED BY <1>1, <1>2, <1>3, <1>4, <1>5

LEMMA SymTabType ==
    ASSUME symbols \in Seq(Symbols)
    PROVE  SymTabBytes \in Image
<1>1. Len(symbols) \in Nat
  BY LenProperties
<1> DEFINE n == symbol_size * Len(symbols)
<1>2. n \in Nat
  BY <1>1 DEF symbol_size
<1>3. ASSUME NEW i \in 1 .. n
      PROVE  SymbolBytes(symbols[((i - 1) \div symbol_size) + 1])[((i - 1) % symbol_size) + 1] \in Byte
  <2> DEFINE j == ((i - 1) \div symbol_size) + 1  k == ((i - 1) % symbol_size) + 1
  <2>1. j \in 1 .. Len(symbols) /\ k \in 1 .. symbol_size
    BY <1>1, <1>3 DEF symbol_size
  <2>2. symbols[j] \in Symbols
    BY <2>1, ElementOfSeq, Zenon
  <2>3. SymbolBytes(symbols[j]) \in Image /\ Size(SymbolBytes(symbols[j])) = symbol_size
    BY <2>2, SymbolFields
  <2>4. \A m \in 1 .. Size(SymbolBytes(symbols[j])) : SymbolBytes(symbols[j])[m] \in Byte
    BY <2>3, ElementOfSeq, Zenon DEF Image, Size
  <2> QED BY <2>1, <2>3, <2>4, Zenon
<1>4. SymTabBytes \in [1 .. n -> Byte]
  BY <1>3 DEF SymTabBytes
<1> QED BY <1>2, <1>4, SeqDef DEF Image
LEMMA TypeInit == Init => TypeOK
<1> SUFFICES ASSUME Init PROVE TypeOK
  OBVIOUS
<1>1. SectionHeader \in SectionHeaders
  BY DEF SectionHeader, SectionHeaders, sht_null
<1>2. << >> \in Seq(Byte) /\ << >> \in Seq(Symbols)
  BY EmptySeq
<1>3. elf_header_size \in Nat
  BY DEF elf_header_size
<1>4. file = NoFile \/ file \in Seq(Byte)
  BY OldsAssumption DEF Init
<1> QED BY <1>1, <1>2, <1>3, <1>4, SectionTypes DEF Init, TypeOK, PC

LEMMA u32Type ==
    ASSUME NEW n \in Nat
    PROVE  u32(n) \in Nat /\ (n < U32 => u32(n) = n)
BY NumbersAssumption DEF u32

\* What AddSectionName visits.
LEMMA Visited ==
    ASSUME TypeOK, pc = "names", idx < num_sections
    PROVE  order[idx + 1] \in SectionType /\ idx + 1 \in 1 .. num_sections
BY OrdersAssumption, SectionTypes DEF TypeOK

LEMMA BodiesSize ==
    ASSUME NEW b \in [SectionType -> Seq(Byte)]
    PROVE  size_of_all_section_bodies(b) \in Nat
<1>1. \A sec \in SectionType : Len(b[sec]) \in Nat
  BY LenProperties
<1> QED BY <1>1, SectionTypes DEF size_of_all_section_bodies

\* Setting a field, or the three of Described, keeps the type of the headers.
LEMMA SetField ==
    ASSUME NEW hs \in [SectionType -> SectionHeaders], NEW sec \in SectionType, NEW v \in Nat
    PROVE  /\ [hs EXCEPT ![sec].sh_name = v] \in [SectionType -> SectionHeaders]
           /\ [hs EXCEPT ![sec].sh_offset = v] \in [SectionType -> SectionHeaders]
<1>1. /\ [hs[sec] EXCEPT !.sh_name = v] \in SectionHeaders
      /\ [hs[sec] EXCEPT !.sh_offset = v] \in SectionHeaders
  BY DEF SectionHeaders
<1> QED BY <1>1

LEMMA DescribedType ==
    ASSUME NEW h \in SectionHeaders, NEW type \in Nat, NEW size \in Nat, NEW align \in Nat
    PROVE  Described(h, type, size, align) \in SectionHeaders
BY DEF Described, SectionHeaders

LEMMA LinkedType ==
    ASSUME NEW h \in SectionHeaders, NEW link \in Nat, NEW info \in Nat, NEW entsize \in Nat
    PROVE  [h EXCEPT !.sh_link = link, !.sh_info = info, !.sh_entsize = entsize] \in SectionHeaders
BY DEF SectionHeaders

LEMMA TypeStep == TypeOK /\ [Next]_vars => TypeOK'
<1> SUFFICES ASSUME TypeOK, [Next]_vars PROVE TypeOK'
  OBVIOUS
<1> USE SectionTypes DEF PC
<1>0. Size(strtab) \in Nat /\ Size(out) \in Nat /\ code \in Codes
  BY LenProperties DEF TypeOK, Size
<1>1. CASE AddSectionName
  <2>1. order[idx + 1] \in SectionType /\ u32(Len(strtab)) \in Nat
    BY <1>0, <1>1, Visited, u32Type DEF AddSectionName, Size
  <2>2. strtab' \in Seq(Byte)
    <3>1. Cat(Cat(strtab, section_name(order[idx + 1])), <<0>>) \in Image
      BY <2>1, NameType, Nul, CatImage DEF TypeOK, Image
    <3> QED BY <1>1, <3>1 DEF AddSectionName, add_string, Cat, Image
  <2>3. headers' \in [SectionType -> SectionHeaders]
    BY <1>1, <2>1, SetField DEF AddSectionName, TypeOK
  <2>4. idx' \in 0 .. num_sections
    BY <1>1 DEF AddSectionName, TypeOK
  <2> QED BY <1>1, <2>2, <2>3, <2>4 DEF AddSectionName, TypeOK
<1>2. CASE StoreSectionNames
  <2>1. bodies' \in [SectionType -> Seq(Byte)]
    BY <1>2 DEF StoreSectionNames, TypeOK
  <2>2. headers' \in [SectionType -> SectionHeaders]
    <3>1. Described(headers[SectionHeaderStrTab], sht_strtab, Len(strtab), 1) \in SectionHeaders
      BY <1>0, DescribedType DEF TypeOK, sht_strtab, Size
    <3> QED BY <1>2, <3>1 DEF StoreSectionNames, TypeOK
  <2>3. strtab' \in Seq(Byte)
    BY <1>2, Nul DEF StoreSectionNames, Image
  <2>4. symbols' \in Seq(Symbols)
    <3>1. Symbol \in Symbols
      BY DEF Symbol, Symbols, Byte
    <3> QED BY <1>2, <3>1 DEF StoreSectionNames
  <2>5. idx' \in 0 .. Len(code'.symbols) /\ pc' = "symbols"
    BY <1>0, <1>2, CodeType DEF StoreSectionNames
  <2> QED BY <1>2, <2>1, <2>2, <2>3, <2>4, <2>5 DEF StoreSectionNames, TypeOK
<1>3. CASE AddSymbol
  <2> DEFINE sym == code.symbols[idx + 1]
             info == st_info(STB_GLOBAL, IF sym.code_section = Text THEN STT_FUNC ELSE STT_OBJECT)
  <2>1. idx + 1 \in 1 .. Len(code.symbols) /\ Len(code.symbols) \in Nat
    <3>1. idx < Len(code.symbols) /\ idx \in Nat
      BY <1>3 DEF AddSymbol, TypeOK
    <3>2. Len(code.symbols) \in Nat
      BY <1>0, CodeType
    <3> QED BY <3>1, <3>2
  <2>2. /\ sym.offset \in Nat /\ sym.value \in Nat /\ sym.code_section \in SectionType
        /\ sym.name \in Image
    BY <1>0, <2>1, CodeType
  <2>3. info \in Byte
    BY DEF st_info, STB_GLOBAL, STT_FUNC, STT_OBJECT, Byte
  <2>4. symbols' \in Seq(Symbols)
    <3>1. u32(Len(strtab)) \in Nat
      BY <1>0, u32Type DEF Size
    <3> HIDE DEF info
    <3>2. [st_name |-> u32(Len(strtab)), st_info |-> info, st_other |-> 0,
           st_shndx |-> sym.code_section, st_value |-> sym.offset, st_size |-> sym.value]
              \in Symbols
      BY <2>2, <2>3, <3>1 DEF Symbols, Byte
    <3> QED BY <1>3, <3>2, AppendProperties DEF AddSymbol, TypeOK, info
  <2>5. strtab' \in Seq(Byte)
    <3>1. Cat(Cat(strtab, sym.name), <<0>>) \in Image
      BY <2>2, Nul, CatImage DEF TypeOK, Image
    <3> QED BY <1>3, <3>1 DEF AddSymbol, add_string, Cat, Image
  <2>6. idx' \in 0 .. Len(code.symbols)
    BY <1>3, <2>1 DEF AddSymbol, TypeOK
  <2> QED BY <1>3, <2>4, <2>5, <2>6 DEF AddSymbol, TypeOK
<1>4. CASE BuildSections
  <2>1. SymTabBytes \in Seq(Byte)
    BY SymTabType DEF TypeOK, Image
  <2>2. code.text \in Seq(Byte) /\ code.data \in Seq(Byte)
    BY <1>0, CodeType DEF Image
  <2>3. bodies' \in [SectionType -> Seq(Byte)]
    BY <1>4, <2>1, <2>2 DEF BuildSections, TypeOK
  <2>4. headers' \in [SectionType -> SectionHeaders]
    <3>1. /\ Len(code.text) \in Nat /\ Len(code.data) \in Nat /\ Len(strtab) \in Nat
          /\ Len(SymTabBytes) \in Nat
      BY <1>0, <2>1, <2>2, LenProperties DEF Size
    <3>2. /\ Described(headers[Text], sht_progbits, Len(code.text), 1) \in SectionHeaders
          /\ Described(headers[Data], sht_progbits, Len(code.data), 8) \in SectionHeaders
          /\ Described(headers[SymTabStrTab], sht_strtab, Len(strtab), 1) \in SectionHeaders
          /\ Described(headers[SymTab], sht_symtab, Len(SymTabBytes), 1) \in SectionHeaders
      BY <3>1, DescribedType DEF TypeOK, sht_progbits, sht_strtab, sht_symtab
    <3>3. [Described(headers[SymTab], sht_symtab, Len(SymTabBytes), 1) EXCEPT
              !.sh_link = SymTabStrTab, !.sh_info = 1, !.sh_entsize = symbol_size]
                \in SectionHeaders
      <4>1. SymTabStrTab \in Nat /\ 1 \in Nat /\ symbol_size \in Nat
        BY DEF symbol_size
      <4> QED BY <3>2, <4>1, LinkedType
    <3> QED BY <1>4, <3>2, <3>3, ZenonT(20) DEF BuildSections, TypeOK
  <2>5. e_shoff' \in Nat
    <3>1. e_shoff' = elf_header_size + size_of_all_section_bodies(bodies')
      BY <1>4 DEF BuildSections
    <3>2. size_of_all_section_bodies(bodies') \in Nat /\ elf_header_size \in Nat
      BY <2>3, BodiesSize DEF elf_header_size
    <3> QED BY <3>1, <3>2
  <2>6. out' \in Seq(Byte)
    BY <1>4, <2>5, FileHeader DEF BuildSections, Image
  <2>7. /\ pc' = "bodies" /\ idx' = 0
        /\ UNCHANGED <<code, order, strtab, symbols, file, outcome>>
    BY <1>4 DEF BuildSections
  <2> QED BY <2>3, <2>4, <2>5, <2>6, <2>7 DEF TypeOK
<1>5. CASE EmitBody
  <2>1. idx \in SectionType
    BY <1>5 DEF EmitBody, TypeOK
  <2>2. headers' \in [SectionType -> SectionHeaders]
    BY <1>0, <1>5, <2>1, SetField DEF EmitBody, TypeOK, Size
  <2>3. out' \in Seq(Byte)
    <3> out \in Image /\ bodies[idx] \in Image
      BY <2>1 DEF TypeOK, Image
    <3>1. Cat(out, bodies[idx]) \in Image
      BY CatImage
    <3> QED BY <1>5, <3>1 DEF EmitBody, Cat, Image
  <2>4. /\ pc' \in {"bodies", "headers"} /\ idx' \in 0 .. num_sections - 1
        /\ UNCHANGED <<code, order, bodies, strtab, symbols, e_shoff, file, outcome>>
    BY <1>5 DEF EmitBody, TypeOK
  <2> QED BY <2>2, <2>3, <2>4 DEF TypeOK
<1>6. CASE EmitHeader
  <2>1. headers[idx] \in SectionHeaders
    BY <1>6 DEF EmitHeader, TypeOK
  <2>2. out' \in Seq(Byte)
    <3>1. Cat(out, SectionHeaderBytes(headers[idx])) \in Image
      BY <2>1, SectionHeaderFields, CatImage DEF TypeOK, Image
    <3> QED BY <1>6, <3>1 DEF EmitHeader, Cat, Image
  <2>3. /\ pc' \in {"headers", "write"} /\ idx' \in 0 .. num_sections - 1
        /\ UNCHANGED <<code, order, headers, bodies, strtab, symbols, e_shoff, file, outcome>>
    <3>1. pc = "headers" /\ idx \in 0 .. num_sections - 1
      BY <1>6 DEF EmitHeader, TypeOK
    <3> QED BY <1>6, <3>1 DEF EmitHeader
  <2> QED BY <2>2, <2>3 DEF TypeOK
<1>7. CASE WriteFile
  <2>1. \A n \in Nat : n <= Size(out) => SubSeq(out, 1, n) \in Seq(Byte)
    <3> SUFFICES ASSUME NEW n \in Nat, n <= Size(out) PROVE SubSeq(out, 1, n) \in Seq(Byte)
      OBVIOUS
    <3>1. \A i \in 1 .. Size(out) : out[i] \in Byte
      BY ElementOfSeq, Zenon DEF TypeOK, Size
    <3>2. \A i \in 1 .. n : out[i] \in Byte
      BY <1>0, <3>1
    <3> QED BY <3>2, FrontOf
  <2>2. file' = NoFile \/ file' \in Seq(Byte)
    BY <1>7, <2>1, NumbersAssumption
       DEF WriteFile, TypeOK, FileOf!Write, FileOf!Succeed, FileOf!Fail, FileOf!Refuse,
           FileOf!Beginning, Size
  <2>3. outcome' \in {"written", "lost", "abort"}
    BY <1>7 DEF WriteFile, FileOf!Write, FileOf!Succeed, FileOf!Fail, FileOf!Refuse
  <2> QED BY <1>7, <2>2, <2>3 DEF WriteFile, TypeOK, FileOf!Write
<1>8. CASE UNCHANGED vars
  BY <1>8 DEF vars, TypeOK
<1> QED BY <1>1, <1>2, <1>3, <1>4, <1>5, <1>6, <1>7, <1>8 DEF Next
-----------------------------------------------------------------------------
(* The sections and the image.                                             *)

\* What each action does to the fields of the headers.
LEMMA HeadersChange ==
    ASSUME TypeOK
    PROVE  /\ AddSectionName =>
                \A sec \in SectionType :
                   /\ headers'[sec].sh_size = headers[sec].sh_size
                   /\ headers'[sec].sh_offset = headers[sec].sh_offset
                   /\ headers'[sec].sh_name =
                        IF sec = order[idx + 1] THEN u32(Len(strtab)) ELSE headers[sec].sh_name
           /\ StoreSectionNames =>
                \A sec \in SectionType :
                   /\ headers'[sec].sh_size =
                        IF sec = SectionHeaderStrTab THEN Len(strtab) ELSE headers[sec].sh_size
                   /\ headers'[sec].sh_name = headers[sec].sh_name
           /\ BuildSections =>
                /\ headers'[Null] = headers[Null]
                /\ headers'[SectionHeaderStrTab] = headers[SectionHeaderStrTab]
                /\ headers'[Text].sh_size = Len(code.text)
                /\ headers'[Data].sh_size = Len(code.data)
                /\ headers'[SymTabStrTab].sh_size = Len(strtab)
                /\ headers'[SymTab].sh_size = Len(SymTabBytes)
                /\ \A sec \in SectionType : headers'[sec].sh_name = headers[sec].sh_name
           /\ EmitBody =>
                \A sec \in SectionType :
                   /\ headers'[sec].sh_size = headers[sec].sh_size
                   /\ headers'[sec].sh_name = headers[sec].sh_name
                   /\ headers'[sec].sh_offset =
                        IF sec = idx THEN Len(out) ELSE headers[sec].sh_offset
<1>1. headers \in [SectionType -> SectionHeaders]
  BY DEF TypeOK
<1>2. ASSUME AddSectionName
      PROVE  \A sec \in SectionType :
                   /\ headers'[sec].sh_size = headers[sec].sh_size
                   /\ headers'[sec].sh_offset = headers[sec].sh_offset
                   /\ headers'[sec].sh_name =
                        IF sec = order[idx + 1] THEN u32(Len(strtab)) ELSE headers[sec].sh_name
  BY <1>1, <1>2 DEF AddSectionName, SectionHeaders
<1>3. ASSUME StoreSectionNames
      PROVE  \A sec \in SectionType :
                   /\ headers'[sec].sh_size =
                        IF sec = SectionHeaderStrTab THEN Len(strtab) ELSE headers[sec].sh_size
                   /\ headers'[sec].sh_name = headers[sec].sh_name
  BY <1>1, <1>3 DEF StoreSectionNames, Described, SectionHeaders
<1>4. ASSUME BuildSections
      PROVE  /\ headers'[Null] = headers[Null]
             /\ headers'[SectionHeaderStrTab] = headers[SectionHeaderStrTab]
             /\ headers'[Text].sh_size = Len(code.text)
             /\ headers'[Data].sh_size = Len(code.data)
             /\ headers'[SymTabStrTab].sh_size = Len(strtab)
             /\ headers'[SymTab].sh_size = Len(SymTabBytes)
             /\ \A sec \in SectionType : headers'[sec].sh_name = headers[sec].sh_name
  <2>1. /\ headers'[Null] = headers[Null]
        /\ headers'[SectionHeaderStrTab] = headers[SectionHeaderStrTab]
        /\ headers'[Text] = Described(headers[Text], sht_progbits, Len(code.text), 1)
        /\ headers'[Data] = Described(headers[Data], sht_progbits, Len(code.data), 8)
        /\ headers'[SymTabStrTab] = Described(headers[SymTabStrTab], sht_strtab, Len(strtab), 1)
        /\ headers'[SymTab] =
             [Described(headers[SymTab], sht_symtab, Len(SymTabBytes), 1) EXCEPT
                 !.sh_link = SymTabStrTab, !.sh_info = 1, !.sh_entsize = symbol_size]
    BY <1>1, <1>4, SectionTypes DEF BuildSections
  <2>2. \A sec \in SectionType : headers[sec] \in SectionHeaders
    BY <1>1
  <2>4. /\ headers'[Text].sh_size = Len(code.text)
        /\ headers'[Text].sh_name = headers[Text].sh_name
    BY <2>1, <2>2, SectionTypes DEF Described, SectionHeaders
  <2>5. /\ headers'[Data].sh_size = Len(code.data)
        /\ headers'[Data].sh_name = headers[Data].sh_name
    BY <2>1, <2>2, SectionTypes DEF Described, SectionHeaders
  <2>6. /\ headers'[SymTabStrTab].sh_size = Len(strtab)
        /\ headers'[SymTabStrTab].sh_name = headers[SymTabStrTab].sh_name
    BY <2>1, <2>2, SectionTypes DEF Described, SectionHeaders
  <2>7. /\ headers'[SymTab].sh_size = Len(SymTabBytes)
        /\ headers'[SymTab].sh_name = headers[SymTab].sh_name
    BY <2>1, <2>2, SectionTypes DEF Described, SectionHeaders
  <2> QED BY <2>1, <2>4, <2>5, <2>6, <2>7, SectionTypes
<1>5. ASSUME EmitBody
      PROVE  \A sec \in SectionType :
                   /\ headers'[sec].sh_size = headers[sec].sh_size
                   /\ headers'[sec].sh_name = headers[sec].sh_name
                   /\ headers'[sec].sh_offset =
                        IF sec = idx THEN Len(out) ELSE headers[sec].sh_offset
  BY <1>1, <1>5 DEF EmitBody, SectionHeaders
<1> QED BY <1>2, <1>3, <1>4, <1>5

LEMMA BodiesChange ==
    ASSUME TypeOK, BuildSections
    PROVE  /\ bodies'[Null] = bodies[Null]
           /\ bodies'[SectionHeaderStrTab] = bodies[SectionHeaderStrTab]
           /\ bodies'[Text] = code.text /\ bodies'[Data] = code.data
           /\ bodies'[SymTabStrTab] = strtab /\ bodies'[SymTab] = SymTabBytes
<1>1. /\ bodies' = [bodies EXCEPT ![Text] = code.text, ![Data] = code.data,
                                  ![SymTabStrTab] = strtab, ![SymTab] = SymTabBytes]
      /\ DOMAIN bodies = SectionType
  BY DEF BuildSections, TypeOK
<1> HIDE DEF SymTabBytes
<1> QED BY <1>1, SectionTypes

LEMMA SizesStep == TypeOK /\ SizesMatch /\ [Next]_vars => SizesMatch'
<1> SUFFICES ASSUME TypeOK, SizesMatch, [Next]_vars PROVE SizesMatch'
  OBVIOUS
<1>1. CASE AddSectionName
  BY <1>1, HeadersChange DEF AddSectionName, SizesMatch
<1>2. CASE StoreSectionNames
  BY <1>2, HeadersChange, SectionTypes DEF StoreSectionNames, SizesMatch, TypeOK, Size
<1>3. CASE AddSymbol
  BY <1>3 DEF AddSymbol, SizesMatch
<1>4. CASE BuildSections
  <2>1. /\ bodies'[Null] = bodies[Null]
        /\ bodies'[SectionHeaderStrTab] = bodies[SectionHeaderStrTab]
        /\ bodies'[Text] = code.text /\ bodies'[Data] = code.data
        /\ bodies'[SymTabStrTab] = strtab /\ bodies'[SymTab] = SymTabBytes
    BY <1>4, BodiesChange
  <2>2. /\ headers'[Null] = headers[Null]
        /\ headers'[SectionHeaderStrTab] = headers[SectionHeaderStrTab]
        /\ headers'[Text].sh_size = Size(code.text)
        /\ headers'[Data].sh_size = Size(code.data)
        /\ headers'[SymTabStrTab].sh_size = Size(strtab)
        /\ headers'[SymTab].sh_size = Size(SymTabBytes)
    BY <1>4, HeadersChange DEF Size
  <2>3. \A sec \in SectionType :
           sec \in {Null, SectionHeaderStrTab, Text, Data, SymTabStrTab, SymTab}
    BY SectionTypes
  <2>4. /\ headers'[Null].sh_size = Size(bodies'[Null])
        /\ headers'[SectionHeaderStrTab].sh_size = Size(bodies'[SectionHeaderStrTab])
    BY <2>1, <2>2, SectionTypes DEF SizesMatch
  <2> HIDE DEF SymTabBytes
  <2> QED BY <2>1, <2>2, <2>3, <2>4 DEF SizesMatch
<1>5. CASE EmitBody
  BY <1>5, HeadersChange DEF EmitBody, SizesMatch
<1>6. CASE EmitHeader
  BY <1>6 DEF EmitHeader, SizesMatch
<1>7. CASE WriteFile
  BY <1>7 DEF WriteFile, SizesMatch
<1>8. CASE UNCHANGED vars
  BY <1>8 DEF vars, SizesMatch
<1> QED BY <1>1, <1>2, <1>3, <1>4, <1>5, <1>6, <1>7, <1>8 DEF Next
LEMMA BeforeNext ==
    ASSUME TypeOK
    PROVE  /\ \A n \in SectionType : bodies[n] \in Image /\ Size(bodies[n]) \in Nat
           /\ \A n \in 0 .. num_sections : Before(n) \in Nat
           /\ Before(0) = 0
           /\ \A n \in SectionType :
                 n + 1 \in 0 .. num_sections /\ Before(n + 1) = Before(n) + Size(bodies[n])
<1>1. \A n \in SectionType : bodies[n] \in Image
  BY DEF TypeOK, Image
<1>2. \A n \in SectionType : Size(bodies[n]) \in Nat
  BY <1>1, CatImage
<1> QED BY <1>1, <1>2, SectionTypes DEF Before

\* Growing an image leaves what is there.
ImageStands == HeaderStands /\ BodiesStand /\ HeadersWherePredicted

LEMMA ImageStep == TypeOK /\ TypeOK' /\ SizesMatch /\ ImageStands /\ [Next]_vars => ImageStands'
<1> SUFFICES ASSUME TypeOK, TypeOK', SizesMatch, ImageStands, [Next]_vars PROVE ImageStands'
  OBVIOUS
<1>0. /\ out \in Image /\ out' \in Image /\ Size(out) \in Nat /\ Size(out') \in Nat
      /\ Len(out) = Size(out) /\ Len(out') = Size(out')
  <2>1. out \in Image /\ out' \in Image
    BY DEF TypeOK, Image
  <2> QED BY <2>1, CatImage DEF Size
<1>a. elf_header_size = 64 /\ section_header_size = 64
  BY DEF elf_header_size, section_header_size
<1>1. CASE pc' \in {"names", "symbols"}
  BY <1>1 DEF ImageStands, HeaderStands, BodiesStand, HeadersWherePredicted, Serializing, Emitted
<1>2. CASE BuildSections
  <2>1. /\ pc' = "bodies" /\ idx' = 0 /\ out' = ElfHeaderBytes(e_shoff') /\ e_shoff' \in Nat
        /\ e_shoff' = elf_header_size + size_of_all_section_bodies(bodies')
    BY <1>2 DEF BuildSections, TypeOK
  <2>2. size_of_all_section_bodies(bodies') = Before(num_sections)'
    BY SectionTypes DEF size_of_all_section_bodies, Before, Size
  <2>3. Size(out') = elf_header_size
    BY <2>1, FileHeader
  <2>4. Before(0)' = 0
    BY SectionTypes DEF Before
  <2>5. Emitted' = {}
    BY <2>1, SectionTypes DEF Emitted
  <2>6. HeaderStands'
    BY <1>a, <2>1, <2>2, <2>3 DEF HeaderStands
  <2>7. BodiesStand'
    BY <1>a, <2>1, <2>3, <2>4, <2>5 DEF BodiesStand
  <2>8. HeadersWherePredicted'
    BY <2>1 DEF HeadersWherePredicted
  <2> QED BY <2>6, <2>7, <2>8 DEF ImageStands
<1>3. CASE EmitBody
  <2>1. /\ pc = "bodies" /\ idx \in SectionType /\ bodies' = bodies /\ e_shoff' = e_shoff
        /\ out' = Cat(out, bodies[idx])
    BY <1>3, SectionTypes DEF EmitBody, TypeOK, Cat
  <2>2. /\ bodies[idx] \in Image /\ Size(bodies[idx]) \in Nat
        /\ Size(out) = 64 + Before(idx)
        /\ \A n \in 0 .. num_sections : Before(n)' = Before(n)
    BY <1>a, <2>1, BeforeNext DEF ImageStands, BodiesStand, Before
  <2>3. Size(out') = Size(out) + Size(bodies[idx])
    BY <1>0, <2>1, <2>2, CatImage
  <2>4. \A i \in 1 .. Size(out) : out'[i] = out[i]
    BY <1>0, <2>1, <2>2, CatElements
  <2>5. \A i \in 1 .. Size(bodies[idx]) : out'[Size(out) + i] = bodies[idx][i]
    BY <1>0, <2>1, <2>2, CatElements
  <2>6. Size(out') = 64 + Before(idx + 1)
    <3>1. Before(idx + 1) = Before(idx) + Size(bodies[idx])
      BY <2>1, BeforeNext
    <3>2. Before(idx) \in Nat
      BY <2>1, BeforeNext, SectionTypes
    <3> QED BY <2>2, <2>3, <3>1, <3>2
  <2>7. \/ pc' = "bodies" /\ idx' = idx + 1
        \/ pc' = "headers" /\ idx' = 0 /\ idx + 1 = num_sections
    <3>1. idx \in 0 .. 5 /\ num_sections = 6
      BY <2>1, SectionTypes
    <3>2. IF idx + 1 < num_sections THEN pc' = pc /\ idx' = idx + 1
                                    ELSE pc' = "headers" /\ idx' = 0
      BY <1>3 DEF EmitBody
    <3> QED BY <2>1, <3>1, <3>2
  <2>8. HeaderStands'
    <3>1. /\ e_shoff = elf_header_size + Before(num_sections) /\ Size(out) >= elf_header_size
          /\ \A i \in 1 .. elf_header_size : out[i] = ElfHeaderBytes(e_shoff)[i]
      BY <2>1 DEF ImageStands, HeaderStands, Serializing
    <3>2. \A i \in 1 .. elf_header_size : out'[i] = ElfHeaderBytes(e_shoff)[i]
      <4>1. \A i \in 1 .. elf_header_size : i \in 1 .. Size(out)
        <5>1. Size(out) >= elf_header_size
          BY <3>1
        <5> QED BY <1>0, <1>a, <5>1
      <4> QED BY <2>4, <3>1, <4>1
    <3>4. Size(out') >= elf_header_size
      <4>1. Size(out) >= elf_header_size
        BY <3>1
      <4>2. Size(out') >= Size(out)
        BY <1>0, <2>2, <2>3
      <4> QED BY <1>0, <1>a, <4>1, <4>2
    <3>5. Before(num_sections)' = Before(num_sections)
      BY <2>1 DEF Before
    <3> QED BY <2>1, <3>1, <3>2, <3>4, <3>5 DEF HeaderStands
  <2>9. BodiesStand'
    <3>1. Emitted' \subseteq Emitted \cup {idx}
      BY <2>1, <2>7, SectionTypes DEF Emitted
    <3>2. \A sec \in Emitted : sec \in SectionType /\ sec # idx
      BY <2>1, SectionTypes DEF Emitted
    <3>3. \A sec \in SectionType :
             headers'[sec].sh_offset = IF sec = idx THEN Size(out) ELSE headers[sec].sh_offset
      BY <1>0, <1>3, HeadersChange
    <3>4. ASSUME NEW sec \in Emitted
          PROVE  /\ headers'[sec].sh_offset = elf_header_size + Before(sec)
                 /\ headers'[sec].sh_offset + Size(bodies[sec]) <= Size(out')
                 /\ \A i \in 1 .. Size(bodies[sec]) :
                       out'[headers'[sec].sh_offset + i] = bodies[sec][i]
      <4>1. /\ headers[sec].sh_offset = elf_header_size + Before(sec)
            /\ headers[sec].sh_offset + Size(bodies[sec]) <= Size(out)
            /\ \A i \in 1 .. Size(bodies[sec]) :
                  out[headers[sec].sh_offset + i] = bodies[sec][i]
        BY <3>4 DEF ImageStands, BodiesStand
      <4>2. /\ Size(bodies[sec]) \in Nat /\ Before(sec) \in Nat
            /\ headers'[sec].sh_offset = headers[sec].sh_offset
        BY <3>2, <3>3, <3>4, BeforeNext, SectionTypes
      <4>3. \A i \in 1 .. Size(bodies[sec]) :
               headers[sec].sh_offset + i \in 1 .. Size(out)
        BY <1>0, <1>a, <4>1, <4>2
      <4>4. \A i \in 1 .. Size(bodies[sec]) :
               out'[headers'[sec].sh_offset + i] = bodies[sec][i]
        BY <2>4, <4>1, <4>2, <4>3
      <4> QED BY <1>0, <1>a, <2>2, <2>3, <4>1, <4>2, <4>4
    <3>5. /\ headers'[idx].sh_offset = elf_header_size + Before(idx)
          /\ headers'[idx].sh_offset + Size(bodies[idx]) <= Size(out')
          /\ \A i \in 1 .. Size(bodies[idx]) :
                out'[headers'[idx].sh_offset + i] = bodies[idx][i]
      BY <1>0, <1>a, <2>1, <2>2, <2>3, <2>5, <3>3
    <3>6. \A sec \in Emitted' : sec \in SectionType /\ Before(sec)' = Before(sec)
      BY <2>2, SectionTypes DEF Emitted
    <3>7. pc' = "bodies" => Size(out') = elf_header_size + Before(idx)'
      <4> SUFFICES ASSUME pc' = "bodies" PROVE Size(out') = elf_header_size + Before(idx)'
        OBVIOUS
      <4>1. idx' = idx + 1 /\ idx + 1 \in 0 .. num_sections
        BY <2>1, <2>7, BeforeNext
      <4>2. Before(idx)' = Before(idx + 1)
        BY <2>1, <4>1 DEF Before
      <4> QED BY <1>a, <2>6, <4>2
    <3> QED BY <2>1, <3>1, <3>4, <3>5, <3>6, <3>7 DEF BodiesStand
  <2>10. HeadersWherePredicted'
    <3>1. CASE pc' = "headers"
      <4>1. Size(out') = e_shoff
        BY <1>a, <2>1, <2>6, <2>7, <3>1 DEF ImageStands, HeaderStands, Serializing
      <4> QED BY <1>0, <1>a, <2>1, <2>7, <3>1, <4>1 DEF HeadersWherePredicted
    <3> QED BY <2>7, <3>1 DEF HeadersWherePredicted
  <2> QED BY <2>8, <2>9, <2>10 DEF ImageStands
<1>4. CASE EmitHeader
  <2>1. /\ pc = "headers" /\ idx \in SectionType /\ bodies' = bodies /\ e_shoff' = e_shoff
        /\ headers' = headers /\ out' = Cat(out, SectionHeaderBytes(headers[idx]))
    BY <1>4, SectionTypes DEF EmitHeader, TypeOK, Cat
  <2>2. /\ SectionHeaderBytes(headers[idx]) \in Image
        /\ Size(SectionHeaderBytes(headers[idx])) = 64
    BY <1>a, <2>1, SectionHeaderFields DEF TypeOK
  <2>3. Size(out') = Size(out) + 64
    BY <1>0, <2>1, <2>2, CatImage
  <2>4. \A i \in 1 .. Size(out) : out'[i] = out[i]
    BY <1>0, <2>1, <2>2, CatElements
  <2>5. \/ pc' = "headers" /\ idx' = idx + 1
        \/ pc' = "write" /\ idx' = 0 /\ idx + 1 = num_sections
    BY <1>4, SectionTypes DEF EmitHeader, TypeOK
  <2>6. \A n : Before(n)' = Before(n)
    BY <2>1 DEF Before
  <2>7. HeaderStands'
    <3>1. /\ e_shoff = elf_header_size + Before(num_sections) /\ Size(out) >= elf_header_size
          /\ \A i \in 1 .. elf_header_size : out[i] = ElfHeaderBytes(e_shoff)[i]
      BY <2>1 DEF ImageStands, HeaderStands, Serializing
    <3>2. \A i \in 1 .. elf_header_size : out'[i] = ElfHeaderBytes(e_shoff)[i]
      <4>1. \A i \in 1 .. elf_header_size : i \in 1 .. Size(out)
        <5>1. Size(out) >= elf_header_size
          BY <3>1
        <5> QED BY <1>0, <1>a, <5>1
      <4> QED BY <2>4, <3>1, <4>1
    <3>4. Size(out') >= elf_header_size
      <4>1. Size(out) >= elf_header_size
        BY <3>1
      <4>2. Size(out') >= Size(out)
        BY <1>0, <2>2, <2>3
      <4> QED BY <1>0, <1>a, <4>1, <4>2
    <3>5. Before(num_sections)' = Before(num_sections)
      BY <2>1 DEF Before
    <3> QED BY <2>1, <3>1, <3>2, <3>4, <3>5 DEF HeaderStands
  <2>8. BodiesStand'
    <3>1. Emitted' = SectionType /\ Emitted = SectionType
      BY <2>1, <2>5 DEF Emitted
    <3>2. ASSUME NEW sec \in SectionType
          PROVE  /\ headers[sec].sh_offset = elf_header_size + Before(sec)
                 /\ headers[sec].sh_offset + Size(bodies[sec]) <= Size(out')
                 /\ \A i \in 1 .. Size(bodies[sec]) :
                       out'[headers[sec].sh_offset + i] = bodies[sec][i]
      <4>1. /\ headers[sec].sh_offset = elf_header_size + Before(sec)
            /\ headers[sec].sh_offset + Size(bodies[sec]) <= Size(out)
            /\ \A i \in 1 .. Size(bodies[sec]) :
                  out[headers[sec].sh_offset + i] = bodies[sec][i]
        BY <3>1, <3>2 DEF ImageStands, BodiesStand
      <4>2. Size(bodies[sec]) \in Nat /\ Before(sec) \in Nat
        BY BeforeNext, SectionTypes
      <4>3. \A i \in 1 .. Size(bodies[sec]) :
               headers[sec].sh_offset + i \in 1 .. Size(out)
        BY <1>0, <1>a, <4>1, <4>2
      <4> QED BY <1>0, <1>a, <2>3, <2>4, <4>1, <4>2, <4>3
    <3> QED BY <2>1, <2>5, <2>6, <3>1, <3>2 DEF BodiesStand
  <2>9. HeadersWherePredicted'
    <3>1. Size(out) = e_shoff + idx * 64 /\ e_shoff \in Nat
      BY <1>0, <1>a, <2>1 DEF ImageStands, HeadersWherePredicted, TypeOK
    <3> QED BY <1>0, <1>a, <2>1, <2>3, <2>5, <3>1, SectionTypes DEF HeadersWherePredicted
  <2> QED BY <2>7, <2>8, <2>9 DEF ImageStands
<1>5. CASE WriteFile
  <2>1. /\ pc = "write" /\ pc' = "end" /\ idx' = idx /\ bodies' = bodies /\ e_shoff' = e_shoff
        /\ headers' = headers /\ out' = out
    BY <1>5 DEF WriteFile, FileOf!Write
  <2>2. \A n : Before(n)' = Before(n)
    BY <2>1 DEF Before
  <2>3. Emitted' = Emitted
    BY <2>1 DEF Emitted
  <2>4. HeaderStands'
    BY <2>1, <2>2 DEF ImageStands, HeaderStands, Serializing
  <2>5. BodiesStand'
    BY <2>1, <2>2, <2>3 DEF ImageStands, BodiesStand
  <2>6. HeadersWherePredicted'
    BY <2>1 DEF ImageStands, HeadersWherePredicted
  <2> QED BY <2>4, <2>5, <2>6 DEF ImageStands
<1>6. CASE UNCHANGED vars
  <2>1. /\ pc' = pc /\ idx' = idx /\ bodies' = bodies /\ e_shoff' = e_shoff
        /\ headers' = headers /\ out' = out
    BY <1>6 DEF vars
  <2>2. \A n : Before(n)' = Before(n)
    BY <2>1 DEF Before
  <2>3. Emitted' = Emitted
    BY <2>1 DEF Emitted
  <2>4. HeaderStands'
    BY <2>1, <2>2 DEF ImageStands, HeaderStands, Serializing
  <2>5. BodiesStand'
    BY <2>1, <2>2, <2>3 DEF ImageStands, BodiesStand
  <2>6. HeadersWherePredicted'
    BY <2>1 DEF ImageStands, HeadersWherePredicted
  <2> QED BY <2>4, <2>5, <2>6 DEF ImageStands
<1>7. CASE AddSectionName \/ StoreSectionNames \/ AddSymbol
  BY <1>1, <1>7 DEF AddSectionName, StoreSectionNames, AddSymbol
<1> QED BY <1>2, <1>3, <1>4, <1>5, <1>6, <1>7 DEF Next
-----------------------------------------------------------------------------
(* The string tables.                                                      *)

\* A string keeps its place when the table grows.
LEMMA StandsStill ==
    ASSUME NEW t \in Image, NEW x \in Image, NEW s \in Image, NEW o \in Nat, StandsAt(t, o, s)
    PROVE  StandsAt(Cat(t, x), o, s)
<1>1. /\ Size(t) \in Nat /\ Size(x) \in Nat /\ Size(s) \in Nat
      /\ Size(Cat(t, x)) = Size(t) + Size(x)
  BY CatImage
<1>2. /\ o + Size(s) < Size(t)
      /\ \A i \in 1 .. Size(s) : t[o + i] = s[i]
      /\ t[o + Size(s) + 1] = 0
  BY DEF StandsAt, Size
<1>3. \A i \in 1 .. Size(t) : Cat(t, x)[i] = t[i]
  BY CatElements
<1>4. \A i \in 1 .. Size(s) : o + i \in 1 .. Size(t)
  BY <1>1, <1>2
<1>5. o + Size(s) + 1 \in 1 .. Size(t)
  BY <1>1, <1>2
<1>6. o + Size(s) < Size(Cat(t, x))
  BY <1>1, <1>2
<1>7. \A i \in 1 .. Size(s) : Cat(t, x)[o + i] = s[i]
  BY <1>2, <1>3, <1>4
<1>8. Cat(t, x)[o + Size(s) + 1] = 0
  BY <1>2, <1>3, <1>5
<1> QED BY <1>6, <1>7, <1>8 DEF StandsAt, Size

\* add_string puts a string where the table ended.
LEMMA StandsLast ==
    ASSUME NEW t \in Image, NEW s \in Image
    PROVE  /\ Cat(Cat(t, s), <<0>>) \in Image
           /\ Size(Cat(Cat(t, s), <<0>>)) = Size(t) + Size(s) + 1
           /\ StandsAt(Cat(Cat(t, s), <<0>>), Size(t), s)
           /\ \A o \in Nat, r \in Image : StandsAt(t, o, r) => StandsAt(Cat(Cat(t, s), <<0>>), o, r)
<1>1. /\ Cat(t, s) \in Image /\ Size(t) \in Nat /\ Size(s) \in Nat
      /\ Size(Cat(t, s)) = Size(t) + Size(s)
  BY CatImage
<1>2. /\ Cat(Cat(t, s), <<0>>) \in Image
      /\ Size(Cat(Cat(t, s), <<0>>)) = Size(t) + Size(s) + 1
  BY <1>1, Nul, CatImage
<1>3. /\ \A i \in 1 .. Size(t) + Size(s) : Cat(Cat(t, s), <<0>>)[i] = Cat(t, s)[i]
      /\ Cat(Cat(t, s), <<0>>)[Size(t) + Size(s) + 1] = 0
  <2>1. 1 \in 1 .. Size(<<0>>)
    BY Nul
  <2> QED BY <1>1, <2>1, Nul, CatElements
<1>4. \A i \in 1 .. Size(s) : Cat(t, s)[Size(t) + i] = s[i]
  BY CatElements
<1>5. \A i \in 1 .. Size(s) : Cat(Cat(t, s), <<0>>)[Size(t) + i] = s[i]
  BY <1>1, <1>3, <1>4
<1>6. StandsAt(Cat(Cat(t, s), <<0>>), Size(t), s)
  <2>1. Size(t) + Size(s) < Size(Cat(Cat(t, s), <<0>>))
    BY <1>1, <1>2
  <2> QED BY <1>3, <1>5, <2>1 DEF StandsAt, Size
<1>7. \A o \in Nat, r \in Image : StandsAt(t, o, r) => StandsAt(Cat(Cat(t, s), <<0>>), o, r)
  BY <1>1, Nul, StandsStill
<1> QED BY <1>2, <1>6, <1>7

NamesResolve == NamesStand /\ SectionNamesResolve

LEMMA NamesStep == TypeOK /\ TypeOK' /\ NamesResolve /\ [Next]_vars => NamesResolve'
<1> SUFFICES ASSUME TypeOK, TypeOK', NamesResolve, [Next]_vars PROVE NamesResolve'
  OBVIOUS
<1>0. /\ strtab \in Image /\ Size(strtab) \in Nat
      /\ \A sec \in SectionType : headers[sec].sh_name \in Nat
  <2>1. strtab \in Image /\ headers \in [SectionType -> SectionHeaders]
    BY DEF TypeOK, Image
  <2> QED BY <2>1, CatImage DEF SectionHeaders
<1>1. CASE AddSectionName
  <2> DEFINE sec == order[idx + 1]  t == Cat(Cat(strtab, section_name(sec)), <<0>>)
  <2>1. /\ pc = "names" /\ pc' = "names" /\ idx < num_sections /\ idx' = idx + 1
        /\ order' = order /\ strtab' = t /\ idx \in Nat
    BY <1>1 DEF AddSectionName, add_string, Cat, TypeOK
  <2>2. sec \in SectionType /\ idx + 1 \in 1 .. num_sections
    BY <2>1, Visited
  <2>3. section_name(sec) \in Image /\ Size(section_name(sec)) \in 0 .. 9
    BY <2>2, NameType
  <2>4. /\ Size(t) = Size(strtab) + Size(section_name(sec)) + 1
        /\ StandsAt(t, Size(strtab), section_name(sec))
        /\ \A o \in Nat, r \in Image : StandsAt(strtab, o, r) => StandsAt(t, o, r)
    BY <1>0, <2>3, StandsLast
  <2>5. /\ Size(strtab) <= 10 * idx
        /\ \A i \in 1 .. idx : StandsAt(strtab, headers[order[i]].sh_name, section_name(order[i]))
    BY <2>1 DEF NamesResolve, NamesStand
  <2>6. Size(t) <= 10 * (idx + 1)
    BY <1>0, <2>1, <2>3, <2>4, <2>5
  <2>7. u32(Len(strtab)) = Size(strtab)
    <3>1. Size(strtab) < U32
      BY <1>0, <2>1, <2>5, SectionTypes, NumbersAssumption
    <3> QED BY <1>0, <3>1, u32Type DEF Size
  <2>8. /\ headers'[sec].sh_name = Size(strtab)
        /\ \A s \in SectionType \ {sec} : headers'[s].sh_name = headers[s].sh_name
    BY <1>1, <2>2, <2>7, HeadersChange
  <2>9. \A i \in 1 .. idx : order[i] \in SectionType \ {sec}
    <3>1. /\ order \in [1 .. num_sections -> SectionType]
          /\ \A i, j \in 1 .. num_sections : order[i] = order[j] => i = j
      BY OrdersAssumption DEF TypeOK
    <3>2. \A i \in 1 .. idx : i \in 1 .. num_sections /\ i # idx + 1
      BY <2>1, <2>2, SectionTypes
    <3> QED BY <2>2, <3>1, <3>2
  <2>10. \A i \in 1 .. idx : StandsAt(t, headers'[order[i]].sh_name, section_name(order[i]))
    <3> HIDE DEF t
    <3> QED BY <1>0, <2>4, <2>5, <2>8, <2>9, NameType
  <2>11. \A i \in 1 .. idx + 1 : StandsAt(t, headers'[order[i]].sh_name, section_name(order[i]))
    <3> HIDE DEF t
    <3> QED BY <2>1, <2>4, <2>8, <2>10
  <2> HIDE DEF t
  <2> QED BY <2>1, <2>6, <2>11 DEF NamesResolve, NamesStand, SectionNamesResolve
<1>2. CASE StoreSectionNames
  <2>1. /\ pc = "names" /\ pc' = "symbols" /\ idx = num_sections
        /\ bodies'[SectionHeaderStrTab] = strtab
        /\ \A sec \in SectionType : headers'[sec].sh_name = headers[sec].sh_name
    BY <1>2, HeadersChange, SectionTypes DEF StoreSectionNames, TypeOK
  <2>2. \A i \in 1 .. num_sections :
           StandsAt(strtab, headers[order[i]].sh_name, section_name(order[i]))
    BY <2>1 DEF NamesResolve, NamesStand
  <2>3. \A sec \in SectionType : \E i \in 1 .. num_sections : order[i] = sec
    BY OrdersAssumption DEF TypeOK
  <2>4. \A sec \in SectionType : StandsAt(strtab, headers[sec].sh_name, section_name(sec))
    BY <2>2, <2>3
  <2> QED BY <2>1, <2>4 DEF NamesResolve, NamesStand, SectionNamesResolve
<1>3. ASSUME pc # "names", pc' # "names",
             bodies'[SectionHeaderStrTab] = bodies[SectionHeaderStrTab],
             \A sec \in SectionType : headers'[sec].sh_name = headers[sec].sh_name
      PROVE  NamesResolve'
  BY <1>3 DEF NamesResolve, NamesStand, SectionNamesResolve
<1>4. CASE AddSymbol
  BY <1>3, <1>4 DEF AddSymbol
<1>5. CASE BuildSections
  <2>1. bodies'[SectionHeaderStrTab] = bodies[SectionHeaderStrTab]
    BY <1>5, BodiesChange
  <2> QED BY <1>3, <1>5, <2>1, HeadersChange DEF BuildSections
<1>6. CASE EmitBody
  BY <1>3, <1>6, HeadersChange DEF EmitBody
<1>7. CASE EmitHeader
  BY <1>3, <1>7 DEF EmitHeader
<1>8. CASE WriteFile
  BY <1>3, <1>8 DEF WriteFile
<1>9. CASE UNCHANGED vars
  BY <1>9 DEF vars, NamesResolve, NamesStand, SectionNamesResolve
<1> QED BY <1>1, <1>2, <1>4, <1>5, <1>6, <1>7, <1>8, <1>9 DEF Next
SymbolsResolve == SymbolsStand /\ SymbolNamesResolve

LEMMA SymbolsStep == TypeOK /\ TypeOK' /\ SymbolsResolve /\ [Next]_vars => SymbolsResolve'
<1> SUFFICES ASSUME TypeOK, TypeOK', SymbolsResolve, [Next]_vars PROVE SymbolsResolve'
  OBVIOUS
<1>0. /\ strtab \in Image /\ Size(strtab) \in Nat /\ Len(strtab) = Size(strtab)
      /\ code \in Codes /\ Len(code.symbols) \in Nat
  <2>1. strtab \in Image /\ code \in Codes
    BY DEF TypeOK, Image
  <2> QED BY <2>1, CatImage, CodeType DEF Size
<1>1. CASE AddSectionName
  BY <1>1 DEF AddSectionName, SymbolsResolve, SymbolsStand, SymbolNamesResolve, Serializing
<1>2. CASE StoreSectionNames
  <2>1. Len(<<Symbol>>) = 1
    OBVIOUS
  <2>2. pc' = "symbols" /\ idx' = 0 /\ symbols' = <<Symbol>>
    BY <1>2 DEF StoreSectionNames
  <2> QED BY <2>1, <2>2 DEF SymbolsResolve, SymbolsStand, SymbolNamesResolve, Serializing
<1>3. CASE AddSymbol
  <2> DEFINE sym == code.symbols[idx + 1]  t == Cat(Cat(strtab, sym.name), <<0>>)
             rec == [st_name |-> u32(Len(strtab)),
                     st_info |-> st_info(STB_GLOBAL,
                                   IF sym.code_section = Text THEN STT_FUNC ELSE STT_OBJECT),
                     st_other |-> 0, st_shndx |-> sym.code_section,
                     st_value |-> sym.offset, st_size |-> sym.value]
  <2>1. /\ pc = "symbols" /\ pc' = "symbols" /\ idx < Len(code.symbols) /\ idx' = idx + 1
        /\ code' = code /\ strtab' = t /\ idx \in Nat /\ symbols' = Append(symbols, rec)
    BY <1>3 DEF AddSymbol, add_string, Cat, TypeOK
  <2>2. idx + 1 \in 1 .. Len(code.symbols) /\ sym.name \in Image
    BY <1>0, <2>1, CodeType
  <2>3. /\ Size(t) = Size(strtab) + Size(sym.name) + 1 /\ Size(sym.name) \in Nat
        /\ StandsAt(t, Size(strtab), sym.name)
        /\ \A o \in Nat, r \in Image : StandsAt(strtab, o, r) => StandsAt(t, o, r)
    BY <1>0, <2>2, StandsLast, CatImage
  <2>4. /\ Len(symbols) = idx + 1
        /\ \A i \in 1 .. idx :
              Size(strtab) <= U32 => StandsAt(strtab, symbols[i + 1].st_name, code.symbols[i].name)
    BY <2>1 DEF SymbolsResolve, SymbolsStand
  <2>5. rec.st_name = u32(Size(strtab))
    BY <1>0
  <2> HIDE DEF rec, t
  <2>6. /\ Len(symbols') = idx + 2
        /\ \A i \in 1 .. idx : symbols'[i + 1] = symbols[i + 1]
        /\ symbols'[idx + 2] = rec
    BY <2>1, <2>4 DEF TypeOK
  <2>7. ASSUME Size(t) <= U32, NEW i \in 1 .. idx + 1
        PROVE  StandsAt(t, symbols'[i + 1].st_name, code.symbols[i].name)
    <3>1. CASE i \in 1 .. idx
      <4>1. i \in 1 .. Len(code.symbols) /\ i + 1 \in 1 .. Len(symbols)
        BY <1>0, <2>1, <2>4, <3>1
      <4>2. symbols[i + 1] \in Symbols /\ code.symbols[i].name \in Image
        BY <1>0, <4>1, CodeType, ElementOfSeq DEF TypeOK
      <4>3. symbols[i + 1].st_name \in Nat
        BY <4>2 DEF Symbols
      <4>4. Size(strtab) <= U32
        BY <1>0, <2>3, <2>7, NumbersAssumption
      <4>5. StandsAt(strtab, symbols[i + 1].st_name, code.symbols[i].name)
        BY <2>4, <3>1, <4>4
      <4> QED BY <2>3, <2>6, <3>1, <4>2, <4>3, <4>5
    <3>2. CASE i = idx + 1
      <4>0. i + 1 = idx + 2
        BY <2>1, <3>2
      <4>1. Size(strtab) < U32
        BY <1>0, <2>3, <2>7, NumbersAssumption
      <4>2. rec.st_name = Size(strtab)
        BY <1>0, <2>5, <4>1, u32Type
      <4>3. symbols'[i + 1] = rec /\ code.symbols[i].name = sym.name
        BY <2>6, <3>2, <4>0
      <4> QED BY <2>3, <4>2, <4>3
    <3>3. i \in 1 .. idx \/ i = idx + 1
      BY <2>1, <2>7
    <3> QED BY <3>1, <3>2, <3>3
  <2> QED BY <2>1, <2>6, <2>7 DEF SymbolsResolve, SymbolsStand, SymbolNamesResolve, Serializing
<1>4. CASE BuildSections
  <2>1. /\ pc = "symbols" /\ pc' = "bodies" /\ idx = Len(code.symbols) /\ code' = code
        /\ strtab' = strtab /\ symbols' = symbols /\ bodies'[SymTabStrTab] = strtab
    BY <1>4, BodiesChange DEF BuildSections
  <2>2. SymbolsStand'
    BY <2>1 DEF SymbolsStand
  <2>3. /\ Len(symbols) = Len(code.symbols) + 1
        /\ \A i \in 1 .. Len(code.symbols) :
              Len(strtab) <= U32 => StandsAt(strtab, symbols[i + 1].st_name, code.symbols[i].name)
    BY <1>0, <2>1 DEF SymbolsResolve, SymbolsStand
  <2>4. SymbolNamesResolve'
    BY <2>1, <2>3 DEF SymbolNamesResolve
  <2> QED BY <2>2, <2>4 DEF SymbolsResolve
<1>5. ASSUME Serializing, Serializing', UNCHANGED <<code, bodies, strtab, symbols>>
      PROVE  SymbolsResolve'
  BY <1>5 DEF SymbolsResolve, SymbolsStand, SymbolNamesResolve, Serializing
<1>6. CASE EmitBody
  BY <1>5, <1>6 DEF EmitBody, Serializing
<1>7. CASE EmitHeader
  BY <1>5, <1>7 DEF EmitHeader, Serializing
<1>8. CASE WriteFile
  BY <1>5, <1>8 DEF WriteFile, Serializing
<1>9. CASE UNCHANGED vars
  BY <1>9 DEF vars, SymbolsResolve, SymbolsStand, SymbolNamesResolve, Serializing
<1> QED BY <1>1, <1>2, <1>3, <1>4, <1>6, <1>7, <1>8, <1>9 DEF Next

LEMMA HeadersOutStep ==
    TypeOK /\ HeadersWherePredicted /\ HeadersOut /\ [Next]_vars => HeadersOut'
<1> SUFFICES ASSUME TypeOK, HeadersWherePredicted, HeadersOut, [Next]_vars PROVE HeadersOut'
  OBVIOUS
<1>a. section_header_size = 64
  BY DEF section_header_size
<1>1. CASE pc' \in {"names", "symbols", "bodies"}
  BY <1>1 DEF HeadersOut
<1>2. CASE EmitBody
  <2>1. pc' = "bodies" \/ (pc' = "headers" /\ idx' = 0)
    BY <1>2 DEF EmitBody
  <2> QED BY <1>1, <2>1, SectionTypes DEF HeadersOut
<1>3. CASE EmitHeader
  <2>1. /\ pc = "headers" /\ idx \in SectionType /\ e_shoff' = e_shoff /\ e_shoff \in Nat
        /\ headers' = headers /\ out' = Cat(out, SectionHeaderBytes(headers[idx]))
        /\ out \in Image
    BY <1>3, SectionTypes DEF EmitHeader, TypeOK, Cat, Image
  <2>2. /\ SectionHeaderBytes(headers[idx]) \in Image
        /\ Size(SectionHeaderBytes(headers[idx])) = 64
    BY <1>a, <2>1, SectionHeaderFields DEF TypeOK
  <2>3. Size(out) = e_shoff + 64 * idx
    BY <1>a, <2>1, SectionTypes DEF HeadersWherePredicted, Size
  <2>4. \A i \in 1 .. Size(out) : out'[i] = out[i]
    BY <2>1, <2>2, CatElements
  <2>5. \A i \in 1 .. 64 : out'[Size(out) + i] = SectionHeaderBytes(headers[idx])[i]
    BY <2>1, <2>2, CatElements
  <2>6. ASSUME NEW sec \in SectionType, sec < idx + 1, NEW k \in 1 .. 64
        PROVE  out'[e_shoff + 64 * sec + k] = SectionHeaderBytes(headers[sec])[k]
    <3>1. CASE sec = idx
      BY <2>3, <2>5, <3>1
    <3>2. CASE sec < idx
      <4>1. e_shoff + 64 * sec + k \in 1 .. Size(out)
        BY <2>1, <2>3, <3>2, SectionTypes
      <4>2. out[e_shoff + 64 * sec + k] = SectionHeaderBytes(headers[sec])[k]
        BY <1>a, <2>1, <3>2 DEF HeadersOut
      <4> QED BY <2>4, <4>1, <4>2
    <3> QED BY <2>1, <2>6, <3>1, <3>2, SectionTypes
  <2>7. \/ pc' = "headers" /\ idx' = idx + 1
        \/ pc' = "write" /\ idx + 1 = num_sections
    BY <1>3, SectionTypes DEF EmitHeader, TypeOK
  <2>8. \A sec \in SectionType : pc' = "write" => sec < idx + 1
    BY <2>7, SectionTypes
  <2> QED BY <1>a, <2>1, <2>6, <2>7, <2>8 DEF HeadersOut
<1>4. CASE WriteFile
  BY <1>4 DEF WriteFile, FileOf!Write, HeadersOut
<1>5. CASE UNCHANGED vars
  BY <1>5 DEF vars, HeadersOut
<1>6. CASE AddSectionName \/ StoreSectionNames \/ AddSymbol \/ BuildSections
  BY <1>1, <1>6 DEF AddSectionName, StoreSectionNames, AddSymbol, BuildSections
<1> QED BY <1>2, <1>3, <1>4, <1>5, <1>6 DEF Next

LEMMA NamesShortStep == TypeOK /\ NamesStand /\ NamesShort /\ [Next]_vars => NamesShort'
<1> SUFFICES ASSUME TypeOK, NamesStand, NamesShort, [Next]_vars PROVE NamesShort'
  OBVIOUS
<1>1. CASE AddSectionName
  BY <1>1 DEF AddSectionName, NamesShort
<1>2. CASE StoreSectionNames
  <2>1. bodies'[SectionHeaderStrTab] = strtab /\ Size(strtab) <= 10 * 6
    BY <1>2, SectionTypes DEF StoreSectionNames, TypeOK, NamesStand
  <2> QED BY <2>1 DEF NamesShort
<1>3. CASE BuildSections
  <2>1. bodies'[SectionHeaderStrTab] = bodies[SectionHeaderStrTab] /\ pc = "symbols"
    BY <1>3, BodiesChange DEF BuildSections
  <2> QED BY <2>1 DEF NamesShort
<1>4. ASSUME pc # "names", bodies' = bodies PROVE NamesShort'
  BY <1>4 DEF NamesShort
<1>5. CASE AddSymbol \/ EmitBody \/ EmitHeader \/ WriteFile
  BY <1>4, <1>5 DEF AddSymbol, EmitBody, EmitHeader, WriteFile
<1>6. CASE UNCHANGED vars
  BY <1>6 DEF vars, NamesShort
<1> QED BY <1>1, <1>2, <1>3, <1>5, <1>6 DEF Next

LEMMA SectionsHoldStep == TypeOK /\ SectionsHold /\ [Next]_vars => SectionsHold'
<1> SUFFICES ASSUME TypeOK, SectionsHold, [Next]_vars PROVE SectionsHold'
  OBVIOUS
<1>1. CASE pc' \in {"names", "symbols"}
  BY <1>1 DEF SectionsHold, Serializing
<1>2. CASE BuildSections
  <2>1. /\ bodies'[Text] = code'.text /\ bodies'[Data] = code'.data
        /\ bodies'[SymTab] = SymTabBytes
    BY <1>2, BodiesChange DEF BuildSections
  <2>2. SymTabBytes' = SymTabBytes
    BY <1>2 DEF BuildSections, SymTabBytes
  <2>3. /\ headers'[SymTab].sh_link = SymTabStrTab
        /\ headers'[SymTab].sh_info = 1
        /\ headers'[SymTab].sh_entsize = symbol_size
    <3> DEFINE d == Described(headers[SymTab], sht_symtab, Len(SymTabBytes), 1)
    <3>1. headers'[SymTab] =
             [d EXCEPT !.sh_link = SymTabStrTab, !.sh_info = 1, !.sh_entsize = symbol_size]
      BY <1>2, SectionTypes DEF BuildSections, TypeOK
    <3>2. d \in SectionHeaders
      <4>1. Len(SymTabBytes) \in Nat
        BY SymTabType, LenProperties DEF TypeOK, Image
      <4>2. headers[SymTab] \in SectionHeaders
        BY SectionTypes DEF TypeOK
      <4> QED BY <4>1, <4>2, DescribedType DEF sht_symtab
    <3> HIDE DEF d
    <3> QED BY <3>1, <3>2 DEF SectionHeaders
  <2> QED BY <2>1, <2>2, <2>3 DEF SectionsHold
<1>3. ASSUME Serializing, UNCHANGED <<code, bodies, symbols>>,
             headers'[SymTab].sh_link = headers[SymTab].sh_link,
             headers'[SymTab].sh_info = headers[SymTab].sh_info,
             headers'[SymTab].sh_entsize = headers[SymTab].sh_entsize
      PROVE  SectionsHold'
  <2>1. SymTabBytes' = SymTabBytes
    BY <1>3 DEF SymTabBytes
  <2> QED BY <1>3, <2>1 DEF SectionsHold
<1>4. CASE EmitBody
  <2>1. /\ headers'[SymTab].sh_link = headers[SymTab].sh_link
        /\ headers'[SymTab].sh_info = headers[SymTab].sh_info
        /\ headers'[SymTab].sh_entsize = headers[SymTab].sh_entsize
    BY <1>4, SectionTypes DEF EmitBody, TypeOK, SectionHeaders
  <2> QED BY <1>3, <1>4, <2>1 DEF EmitBody, Serializing
<1>5. CASE EmitHeader
  BY <1>3, <1>5 DEF EmitHeader, Serializing
<1>6. CASE WriteFile
  BY <1>3, <1>6 DEF WriteFile, Serializing
<1>7. CASE UNCHANGED vars
  <2>1. SymTabBytes' = SymTabBytes
    BY <1>7 DEF vars, SymTabBytes
  <2> QED BY <1>7, <2>1 DEF vars, SectionsHold, Serializing
<1>8. CASE AddSectionName \/ StoreSectionNames \/ AddSymbol
  BY <1>1, <1>8 DEF AddSectionName, StoreSectionNames, AddSymbol
<1> QED BY <1>2, <1>4, <1>5, <1>6, <1>7, <1>8 DEF Next

LEMMA SymbolsDescribedStep ==
    TypeOK /\ SymbolsStand /\ SymbolsDescribed /\ [Next]_vars => SymbolsDescribed'
<1> SUFFICES ASSUME TypeOK, SymbolsStand, SymbolsDescribed, [Next]_vars PROVE SymbolsDescribed'
  OBVIOUS
<1>1. CASE AddSectionName
  BY <1>1 DEF AddSectionName, SymbolsDescribed
<1>2. CASE StoreSectionNames
  <2>1. Len(symbols') - 1 = 0
    BY <1>2 DEF StoreSectionNames
  <2>2. \A i \in 1 .. Len(symbols') - 1 : FALSE
    BY <2>1
  <2> QED BY <2>2 DEF SymbolsDescribed
<1>3. CASE AddSymbol
  <2> DEFINE sym == code.symbols[idx + 1]
             rec == [st_name |-> u32(Len(strtab)),
                     st_info |-> st_info(STB_GLOBAL,
                                   IF sym.code_section = Text THEN STT_FUNC ELSE STT_OBJECT),
                     st_other |-> 0, st_shndx |-> sym.code_section,
                     st_value |-> sym.offset, st_size |-> sym.value]
  <2>1. /\ pc = "symbols" /\ code' = code /\ idx \in Nat /\ symbols' = Append(symbols, rec)
        /\ symbols \in Seq(Symbols)
    BY <1>3 DEF AddSymbol, TypeOK
  <2>2. Describes(rec, sym)
    BY DEF Describes
  <2> HIDE DEF rec, sym
  <2>3. Len(symbols) = idx + 1
    BY <2>1 DEF SymbolsStand
  <2>4. /\ Len(symbols') = idx + 2
        /\ \A i \in 1 .. idx : symbols'[i + 1] = symbols[i + 1]
        /\ symbols'[idx + 2] = rec
    BY <2>1, <2>3
  <2>5. \A i \in 1 .. idx : Describes(symbols[i + 1], code.symbols[i])
    BY <2>1, <2>3 DEF SymbolsDescribed
  <2>6. Describes(symbols'[(idx + 1) + 1], code.symbols[idx + 1])
    <3>1. (idx + 1) + 1 = idx + 2
      BY <2>1
    <3> QED BY <2>2, <2>4, <3>1 DEF sym
  <2>7. \A i \in 1 .. idx + 1 : Describes(symbols'[i + 1], code.symbols[i])
    <3> SUFFICES ASSUME NEW i \in 1 .. idx + 1 PROVE Describes(symbols'[i + 1], code.symbols[i])
      OBVIOUS
    <3>1. CASE i \in 1 .. idx
      BY <2>4, <2>5, <3>1
    <3>2. CASE i = idx + 1
      BY <2>6, <3>2
    <3>3. i \in 1 .. idx \/ i = idx + 1
      BY <2>1
    <3> QED BY <3>1, <3>2, <3>3
  <2>8. Len(symbols') - 1 = idx + 1
    BY <2>1, <2>4
  <2> QED BY <2>1, <2>7, <2>8 DEF SymbolsDescribed
<1>4. ASSUME pc # "names", UNCHANGED <<code, symbols>> PROVE SymbolsDescribed'
  BY <1>4 DEF SymbolsDescribed
<1>5. CASE BuildSections \/ EmitBody \/ EmitHeader \/ WriteFile
  BY <1>4, <1>5 DEF BuildSections, EmitBody, EmitHeader, WriteFile
<1>6. CASE UNCHANGED vars
  BY <1>6 DEF vars, SymbolsDescribed
<1> QED BY <1>1, <1>2, <1>3, <1>5, <1>6 DEF Next

LEMMA OutcomeKnownStep == OutcomeKnown /\ [Next]_vars => OutcomeKnown'
<1> SUFFICES ASSUME OutcomeKnown, [Next]_vars PROVE OutcomeKnown'
  OBVIOUS
<1>1. CASE WriteFile
  BY <1>1 DEF WriteFile, FileOf!Write, FileOf!Succeed, FileOf!Fail, FileOf!Refuse, OutcomeKnown
<1>2. CASE UNCHANGED vars
  BY <1>2 DEF vars, OutcomeKnown
<1>3. ASSUME pc # "end", pc' # "end", outcome' = outcome PROVE OutcomeKnown'
  BY <1>3 DEF OutcomeKnown
<1> QED BY <1>1, <1>2, <1>3
        DEF Next, AddSectionName, StoreSectionNames, AddSymbol, BuildSections, EmitBody, EmitHeader
-----------------------------------------------------------------------------
(* The theorems.                                                           *)

\* The invariant holds throughout every build.
THEOREM Inductive == Spec => []IInv
<1>1. Init => IInv
  <2> SUFFICES ASSUME Init PROVE IInv
    OBVIOUS
  <2>1. TypeOK
    BY TypeInit
  <2>2. /\ pc = "names" /\ idx = 0 /\ strtab = << >>
        /\ \A sec \in SectionType : headers[sec].sh_size = 0 /\ bodies[sec] = << >>
    BY DEF Init, SectionHeader
  <2>3. SizesMatch
    BY <2>2, Nul DEF SizesMatch
  <2>4. ImageStands
    BY <2>2 DEF ImageStands, HeaderStands, BodiesStand, HeadersWherePredicted, Serializing, Emitted
  <2>5. NamesResolve
    BY <2>2, Nul DEF NamesResolve, NamesStand, SectionNamesResolve
  <2>6. SymbolsResolve
    BY <2>2 DEF SymbolsResolve, SymbolsStand, SymbolNamesResolve, Serializing
  <2> QED BY <2>1, <2>3, <2>4, <2>5, <2>6 DEF IInv, ImageStands, NamesResolve, SymbolsResolve
<1>2. IInv /\ [Next]_vars => IInv'
  <2> SUFFICES ASSUME IInv, [Next]_vars PROVE IInv'
    OBVIOUS
  <2>1. TypeOK /\ SizesMatch /\ ImageStands /\ NamesResolve /\ SymbolsResolve
    BY DEF IInv, ImageStands, NamesResolve, SymbolsResolve
  <2>2. TypeOK'
    BY <2>1, TypeStep
  <2>3. SizesMatch' /\ ImageStands' /\ NamesResolve' /\ SymbolsResolve'
    BY <2>1, <2>2, SizesStep, ImageStep, NamesStep, SymbolsStep
  <2> QED BY <2>2, <2>3 DEF IInv, ImageStands, NamesResolve, SymbolsResolve
<1> QED BY <1>1, <1>2, PTL DEF Spec

\* The variables keep their types, whatever the code and the iteration order.
THEOREM TypeCorrect == Spec => []TypeOK
<1>1. IInv => TypeOK
  BY DEF IInv
<1> QED BY <1>1, Inductive, PTL

\* The section headers begin at e_shoff, which is written long before them.
THEOREM HeadersArePredicted == Spec => []HeadersWherePredicted
<1>1. IInv => HeadersWherePredicted
  BY DEF IInv
<1> QED BY <1>1, Inductive, PTL

\* Every section lies where its header says, behind the one before it.
THEOREM SectionsArePlaced == Spec => []SectionsInPlace
<1>1. IInv => SectionsInPlace
  <2> SUFFICES ASSUME IInv, NEW sec \in Emitted
               PROVE  /\ headers[sec].sh_size = Len(bodies[sec])
                      /\ headers[sec].sh_offset =
                            IF sec = Null THEN elf_header_size
                            ELSE headers[sec - 1].sh_offset + headers[sec - 1].sh_size
                      /\ headers[sec].sh_offset + headers[sec].sh_size <= Len(out)
                      /\ \A i \in 1 .. Len(bodies[sec]) :
                            out[headers[sec].sh_offset + i] = bodies[sec][i]
    BY DEF SectionsInPlace
  <2>1. TypeOK /\ SizesMatch /\ BodiesStand /\ sec \in SectionType
    BY DEF IInv, Emitted
  <2>2. /\ headers[sec].sh_size = Size(bodies[sec])
        /\ headers[sec].sh_offset = elf_header_size + Before(sec)
        /\ headers[sec].sh_offset + Size(bodies[sec]) <= Size(out)
        /\ \A i \in 1 .. Size(bodies[sec]) : out[headers[sec].sh_offset + i] = bodies[sec][i]
    BY <2>1 DEF SizesMatch, BodiesStand
  <2>3. CASE sec = Null
    <3>1. Before(sec) = 0 /\ elf_header_size + 0 = elf_header_size
      BY <2>1, <2>3, BeforeNext, SectionTypes DEF elf_header_size
    <3> QED BY <2>2, <2>3, <3>1 DEF Size
  <2>4. CASE sec # Null
    <3>1. sec - 1 \in Emitted /\ sec - 1 \in SectionType /\ (sec - 1) + 1 = sec
      BY <2>1, <2>4, SectionTypes DEF Emitted, IInv, TypeOK
    <3>2. /\ headers[sec - 1].sh_offset = elf_header_size + Before(sec - 1)
          /\ headers[sec - 1].sh_size = Size(bodies[sec - 1])
      BY <2>1, <3>1 DEF SizesMatch, BodiesStand
    <3>3. /\ Before(sec) = Before(sec - 1) + Size(bodies[sec - 1])
          /\ Before(sec - 1) \in Nat /\ Size(bodies[sec - 1]) \in Nat
      <4>1. sec - 1 \in 0 .. num_sections
        BY <3>1, SectionTypes
      <4> QED BY <2>1, <3>1, <4>1, BeforeNext
    <3>4. headers[sec].sh_offset = headers[sec - 1].sh_offset + headers[sec - 1].sh_size
      BY <2>2, <3>2, <3>3 DEF elf_header_size
    <3> QED BY <2>2, <2>4, <3>4 DEF Size
  <2> QED BY <2>3, <2>4
<1> QED BY <1>1, Inductive, PTL

\* sh_name leads to the name of the section, for every iteration order of the map.
THEOREM SectionsAreNamed == Spec => []SectionNamesResolve
<1>1. IInv => SectionNamesResolve
  BY DEF IInv
<1> QED BY <1>1, Inductive, PTL

\* st_name leads to the name of the symbol, for any number of symbols of any names.
THEOREM SymbolsAreNamed == Spec => []SymbolNamesResolve
<1>1. IInv => SymbolNamesResolve
  BY DEF IInv
<1> QED BY <1>1, Inductive, PTL

\* No proper beginning of an image smaller than 2^64 is taken for an object file.
THEOREM CutFilesAreRejected == Spec => [](e_shoff < U64 => CutFileIsNoObject)
<1>1. IInv => (e_shoff < U64 => CutFileIsNoObject)
  <2> SUFFICES ASSUME IInv, e_shoff < U64, pc = "end", Len(file) < Len(out),
                      file = SubSeq(out, 1, Len(file)), Reader!IsObject(file)
               PROVE  FALSE
    BY DEF CutFileIsNoObject
  <2>1. /\ e_shoff \in Nat /\ out \in Seq(Byte) /\ Size(out) \in Nat
        /\ \A i \in 1 .. Size(out) : out[i] \in Byte
    BY LenProperties, ElementOfSeq DEF IInv, TypeOK, Size
  <2>2. PICK n \in 0 .. Size(out) : file = SubSeq(out, 1, n)
    <3>1. Len(file) \in Nat
      <4>1. file = NoFile \/ file \in Seq(Byte)
        BY DEF IInv, TypeOK
      <4>2. Len(NoFile) = 1
        BY DEF NoFile
      <4> QED BY <4>1, <4>2, LenProperties
    <3>2. Len(file) \in 0 .. Size(out)
      BY <2>1, <3>1 DEF Size
    <3> WITNESS Len(file) \in 0 .. Size(out)
    <3> QED OBVIOUS
  <2>3. \A i \in 1 .. n : out[i] \in Byte
    BY <2>1
  <2>4. Size(file) = n /\ \A i \in 1 .. n : file[i] = out[i]
    BY <2>2, <2>3, FrontOf
  <2>5. n >= 64
    BY <2>4 DEF Reader!IsObject, Size
  <2>6. \A i \in 1 .. 64 : file[i] = ElfHeaderBytes(e_shoff)[i]
    <3>1. \A i \in 1 .. elf_header_size : out[i] = ElfHeaderBytes(e_shoff)[i]
      BY DEF IInv, HeaderStands, Serializing
    <3>2. elf_header_size = 64 /\ \A i \in 1 .. 64 : i \in 1 .. n
      BY <2>1, <2>5 DEF elf_header_size
    <3> QED BY <2>4, <3>1, <3>2
  <2>7. /\ \A i \in 1 .. 8 : file[40 + i] = LE(e_shoff, 8)[i]
        /\ \A i \in 1 .. 2 : file[58 + i] = LE(section_header_size, 2)[i]
        /\ \A i \in 1 .. 2 : file[60 + i] = LE(num_sections, 2)[i]
    <3>1. /\ \A i \in 1 .. 8 : 40 + i \in 1 .. 64
          /\ \A i \in 1 .. 2 : 58 + i \in 1 .. 64 /\ 60 + i \in 1 .. 64
      OBVIOUS
    <3>2. /\ \A i \in 1 .. 8 : ElfHeaderBytes(e_shoff)[40 + i] = LE(e_shoff, 8)[i]
          /\ \A i \in 1 .. 2 : ElfHeaderBytes(e_shoff)[58 + i] = LE(section_header_size, 2)[i]
          /\ \A i \in 1 .. 2 : ElfHeaderBytes(e_shoff)[60 + i] = LE(num_sections, 2)[i]
      BY <2>1, FileHeader, ZenonT(40)
    <3> QED BY <2>6, <3>1, <3>2
  <2>8. Reader!shoff(file) = e_shoff
    <3>1. Reader!Num(file, 40, 8) = e_shoff
      <4>1. e_shoff \in Nat /\ 40 \in Nat
        BY <2>1
      <4>2. \A i \in 1 .. 8 : file[40 + i] = LE(e_shoff, 8)[i]
        BY <2>7
      <4> QED BY <4>1, <4>2, ReadBack8, Zenon
    <3> QED BY <3>1 DEF Reader!shoff
  <2>9. Reader!shentsize(file) = 64
    <3>1. section_header_size = 64
      BY DEF section_header_size
    <3>2. Reader!Num(file, 58, 2) = section_header_size
      <4>1. section_header_size \in Nat /\ section_header_size < U16 /\ 58 \in Nat
        BY <3>1 DEF U16
      <4>2. \A i \in 1 .. 2 : file[58 + i] = LE(section_header_size, 2)[i]
        BY <2>7
      <4> QED BY <4>1, <4>2, ReadBack2, Zenon
    <3> QED BY <3>1, <3>2 DEF Reader!shentsize
  <2>10. Reader!shnum(file) = 6
    <3>1. Reader!Num(file, 60, 2) = num_sections
      <4>1. num_sections \in Nat /\ num_sections < U16 /\ 60 \in Nat
        BY SectionTypes DEF U16
      <4>2. \A i \in 1 .. 2 : file[60 + i] = LE(num_sections, 2)[i]
        BY <2>7
      <4> QED BY <4>1, <4>2, ReadBack2, Zenon
    <3> QED BY <3>1, SectionTypes DEF Reader!shnum
  <2>11. e_shoff + 6 * 64 <= Size(file)
    BY <2>8, <2>9, <2>10 DEF Reader!IsObject, Reader!HeaderAt, Size
  <2>12. Size(out) = e_shoff + 6 * 64
    BY SectionTypes DEF IInv, HeadersWherePredicted, section_header_size, Size
  <2> QED BY <2>1, <2>2, <2>4, <2>11, <2>12 DEF Size
<1> QED BY <1>1, Inductive, PTL

\* What the image holds is the code, header by header and symbol by symbol.
THEOREM Delivering == Spec => []DInv
<1>1. Init => DInv
  BY DEF Init, DInv, HeadersOut, NamesShort, SectionsHold, Serializing, SymbolsDescribed,
         OutcomeKnown
<1>2. IInv /\ DInv /\ [Next]_vars => DInv'
  BY HeadersOutStep, NamesShortStep, SectionsHoldStep, SymbolsDescribedStep, OutcomeKnownStep
     DEF IInv, DInv
<1> QED BY <1>1, <1>2, Inductive, PTL DEF Spec
-----------------------------------------------------------------------------
(* What a reader finds in the complete image.                              *)

\* The image is complete, and no offset in it outgrew its field.
Complete == IInv /\ DInv /\ pc \in {"write", "end"} /\ e_shoff < U64

LEMMA CompleteTypes ==
    ASSUME Complete
    PROVE  /\ TypeOK /\ Serializing /\ Emitted = SectionType
           /\ out \in Image /\ Size(out) \in Nat /\ Size(out) = e_shoff + 6 * 64
           /\ e_shoff \in Nat /\ e_shoff >= 64
           /\ \A sec \in SectionType : bodies[sec] \in Image /\ Size(bodies[sec]) \in Nat
           /\ \A sec \in SectionType : headers[sec] \in SectionHeaders
<1>1. TypeOK /\ Serializing /\ Emitted = SectionType
  BY DEF Complete, IInv, Serializing, Emitted
<1>2. out \in Image /\ e_shoff \in Nat /\ \A sec \in SectionType : headers[sec] \in SectionHeaders
  BY <1>1 DEF TypeOK, Image
<1>3. Size(out) \in Nat
  BY <1>2, CatImage
<1>4. Size(out) = e_shoff + 6 * 64
  BY SectionTypes DEF Complete, IInv, HeadersWherePredicted, section_header_size, Size
<1>5. e_shoff = 64 + Before(num_sections)
  BY <1>1 DEF Complete, IInv, HeaderStands, elf_header_size
<1>6. Before(num_sections) \in Nat
  BY <1>1, BeforeNext, SectionTypes
<1> QED BY <1>1, <1>2, <1>3, <1>4, <1>5, <1>6, BeforeNext

\* Every section lies before e_shoff.
LEMMA SectionsBelow ==
    ASSUME Complete, NEW sec \in SectionType
    PROVE  /\ headers[sec].sh_offset \in Nat
           /\ headers[sec].sh_size = Size(bodies[sec])
           /\ headers[sec].sh_offset + Size(bodies[sec]) <= e_shoff
           /\ \A i \in 1 .. Size(bodies[sec]) : out[headers[sec].sh_offset + i] = bodies[sec][i]
<1>1. TypeOK /\ Serializing /\ Emitted = SectionType
  BY CompleteTypes
<1>2. /\ headers[sec].sh_size = Size(bodies[sec])
      /\ headers[sec].sh_offset = elf_header_size + Before(sec)
      /\ \A i \in 1 .. Size(bodies[sec]) : out[headers[sec].sh_offset + i] = bodies[sec][i]
  BY <1>1 DEF Complete, IInv, SizesMatch, BodiesStand
<1>3. e_shoff = elf_header_size + Before(num_sections)
  BY <1>1 DEF Complete, IInv, HeaderStands
<1>4. /\ \A n \in SectionType : Size(bodies[n]) \in Nat
      /\ \A n \in 0 .. num_sections : Before(n) \in Nat
      /\ \A n \in SectionType : Before(n + 1) = Before(n) + Size(bodies[n])
  BY <1>1, BeforeNext
<1>5. Before(sec) + Size(bodies[sec]) <= Before(num_sections)
  <2>1. /\ \A n \in {0, 1, 2, 3, 4, 5} : Size(bodies[n]) \in Nat /\ Before(n) \in Nat
        /\ Before(6) \in Nat
    BY <1>4, SectionTypes
  <2>2. /\ Before(0 + 1) = Before(0) + Size(bodies[0])
        /\ Before(1 + 1) = Before(1) + Size(bodies[1])
        /\ Before(2 + 1) = Before(2) + Size(bodies[2])
        /\ Before(3 + 1) = Before(3) + Size(bodies[3])
        /\ Before(4 + 1) = Before(4) + Size(bodies[4])
        /\ Before(5 + 1) = Before(5) + Size(bodies[5])
    BY <1>4, SectionTypes
  <2>3. /\ Before(5) + Size(bodies[5]) = Before(6)
        /\ Before(4) + Size(bodies[4]) <= Before(5)
        /\ Before(3) + Size(bodies[3]) <= Before(4)
        /\ Before(2) + Size(bodies[2]) <= Before(3)
        /\ Before(1) + Size(bodies[1]) <= Before(2)
        /\ Before(0) + Size(bodies[0]) <= Before(1)
    BY <2>1, <2>2
  <2>4. \A n \in {0, 1, 2, 3, 4, 5} : Before(n) + Size(bodies[n]) <= Before(6)
    BY <2>1, <2>3
  <2> QED BY <2>4, SectionTypes
<1>6. /\ elf_header_size = 64 /\ Before(sec) \in Nat /\ Size(bodies[sec]) \in Nat
      /\ Before(num_sections) \in Nat
  BY <1>4, SectionTypes DEF elf_header_size
<1>7. /\ headers[sec].sh_offset \in Nat
      /\ headers[sec].sh_offset + Size(bodies[sec]) <= e_shoff
  BY <1>2, <1>3, <1>5, <1>6
<1> QED BY <1>2, <1>7

LEMMA ReadsElfHeader ==
    ASSUME Complete
    PROVE  /\ Reader!shoff(out) = e_shoff
           /\ Reader!shentsize(out) = 64
           /\ Reader!shnum(out) = 6
           /\ Reader!shstrndx(out) = SectionHeaderStrTab
           /\ Reader!Bytes(out, 0, 4) = <<127, 69, 76, 70>>
<1>1. /\ e_shoff \in Nat /\ e_shoff < U64
      /\ \A i \in 1 .. 64 : out[i] = ElfHeaderBytes(e_shoff)[i]
  BY CompleteTypes DEF Complete, IInv, HeaderStands, elf_header_size
<1>2. /\ \A i \in 1 .. 8 : ElfHeaderBytes(e_shoff)[40 + i] = LE(e_shoff, 8)[i]
      /\ \A i \in 1 .. 2 : ElfHeaderBytes(e_shoff)[58 + i] = LE(section_header_size, 2)[i]
      /\ \A i \in 1 .. 2 : ElfHeaderBytes(e_shoff)[60 + i] = LE(num_sections, 2)[i]
      /\ \A i \in 1 .. 2 : ElfHeaderBytes(e_shoff)[62 + i] = LE(SectionHeaderStrTab, 2)[i]
      /\ \A i \in 1 .. 4 : ElfHeaderBytes(e_shoff)[i] = <<127, 69, 76, 70>>[i]
  BY <1>1, FileHeader, ZenonT(40)
<1>3. /\ \A i \in 1 .. 8 : 40 + i \in 1 .. 64
      /\ \A i \in 1 .. 2 : 58 + i \in 1 .. 64 /\ 60 + i \in 1 .. 64 /\ 62 + i \in 1 .. 64
      /\ \A i \in 1 .. 4 : i \in 1 .. 64
  OBVIOUS
<1>4. Reader!Num(out, 40, 8) = e_shoff
  <2>1. \A i \in 1 .. 8 : out[40 + i] = LE(e_shoff, 8)[i]
    BY <1>1, <1>2, <1>3
  <2> QED BY <1>1, <2>1, ReadBack8
<1>5. Reader!Num(out, 58, 2) = section_header_size
  <2>1. \A i \in 1 .. 2 : out[58 + i] = LE(section_header_size, 2)[i]
    BY <1>1, <1>2, <1>3
  <2>2. section_header_size \in Nat /\ section_header_size < U16 /\ 58 \in Nat
    BY DEF section_header_size, U16
  <2> QED BY <2>1, <2>2, ReadBack2, Zenon
<1>6. Reader!Num(out, 60, 2) = num_sections
  <2>1. \A i \in 1 .. 2 : out[60 + i] = LE(num_sections, 2)[i]
    BY <1>1, <1>2, <1>3
  <2>2. num_sections \in Nat /\ num_sections < U16 /\ 60 \in Nat
    BY SectionTypes DEF U16
  <2> QED BY <2>1, <2>2, ReadBack2, Zenon
<1>7. Reader!Num(out, 62, 2) = SectionHeaderStrTab
  <2>1. \A i \in 1 .. 2 : out[62 + i] = LE(SectionHeaderStrTab, 2)[i]
    BY <1>1, <1>2, <1>3
  <2>2. SectionHeaderStrTab \in Nat /\ SectionHeaderStrTab < U16 /\ 62 \in Nat
    BY SectionTypes DEF U16
  <2> QED BY <2>1, <2>2, ReadBack2, Zenon
<1>8. Reader!Bytes(out, 0, 4) = <<127, 69, 76, 70>>
  <2> DEFINE magic == <<127, 69, 76, 70>>
  <2>1. magic \in Image /\ Size(magic) = 4
    BY DEF Image, Size, Byte
  <2>2. \A i \in 1 .. 4 : ElfHeaderBytes(e_shoff)[i] = magic[i] /\ out[i] = ElfHeaderBytes(e_shoff)[i]
    BY <1>1, <1>2, <1>3, Zenon
  <2> HIDE DEF magic
  <2>2a. \A i \in 1 .. 4 : 0 + i = i
    OBVIOUS
  <2>2b. \A i \in 1 .. 4 : out[0 + i] = magic[i]
    BY <2>2, <2>2a
  <2>3. Reader!Bytes(out, 0, Size(magic)) = magic
    <3>1. 0 \in Nat /\ \A i \in 1 .. Size(magic) : out[0 + i] = magic[i]
      BY <2>1, <2>2b
    <3> QED BY <2>1, <3>1, BytesAt, ZenonT(30)
  <2> QED BY <2>1, <2>3 DEF magic
<1> QED BY <1>4, <1>5, <1>6, <1>7, <1>8, SectionTypes
    DEF Reader!shoff, Reader!shentsize, Reader!shnum, Reader!shstrndx, section_header_size

LEMMA NameBelow ==
    ASSUME Complete, NEW sec \in SectionType
    PROVE  /\ StandsAt(bodies[SectionHeaderStrTab], headers[sec].sh_name, section_name(sec))
           /\ headers[sec].sh_name \in 0 .. 60
<1>1. /\ StandsAt(bodies[SectionHeaderStrTab], headers[sec].sh_name, section_name(sec))
      /\ Size(bodies[SectionHeaderStrTab]) <= 60
  BY DEF Complete, IInv, SectionNamesResolve, DInv, NamesShort
<1>2. headers[sec].sh_name + Size(section_name(sec)) < Size(bodies[SectionHeaderStrTab])
  BY <1>1 DEF StandsAt, Size
<1>3. /\ Size(section_name(sec)) \in Nat /\ headers[sec].sh_name \in Nat
      /\ Size(bodies[SectionHeaderStrTab]) \in Nat
  BY CompleteTypes, NameType, SectionTypes DEF SectionHeaders
<1> QED BY <1>1, <1>2, <1>3

\* A number read at offset k of a header is the field that was written there.
LEMMA ReadsSection ==
    ASSUME Complete, NEW sec \in SectionType
    PROVE  /\ Reader!HeaderAt(out, sec) = e_shoff + 64 * sec
           /\ Reader!SectionAt(out, sec).name = headers[sec].sh_name
           /\ Reader!SectionAt(out, sec).offset = headers[sec].sh_offset
           /\ Reader!SectionAt(out, sec).size = Size(bodies[sec])
           /\ headers[sec].sh_link < U32Limit =>
                 Reader!SectionAt(out, sec).link = headers[sec].sh_link
           /\ headers[sec].sh_info < U32Limit =>
                 Reader!SectionAt(out, sec).info = headers[sec].sh_info
           /\ headers[sec].sh_entsize < U64 =>
                 Reader!SectionAt(out, sec).entsize = headers[sec].sh_entsize
<1> DEFINE h == headers[sec]  at == e_shoff + 64 * sec
<1>1. /\ e_shoff \in Nat /\ sec \in Nat /\ h \in SectionHeaders /\ at \in Nat
      /\ Size(bodies[sec]) \in Nat
  BY CompleteTypes, SectionTypes
<1>2. Reader!HeaderAt(out, sec) = at
  <2>1. e_shoff + sec * 64 = e_shoff + 64 * sec
    BY <1>1
  <2> QED BY <2>1, ReadsElfHeader DEF Reader!HeaderAt
<1>3. \A k \in 1 .. 64 : out[at + k] = SectionHeaderBytes(h)[k]
  BY DEF Complete, DInv, HeadersOut, section_header_size
<1>4. /\ h.sh_name \in Nat /\ h.sh_offset \in Nat /\ h.sh_size \in Nat /\ h.sh_link \in Nat
      /\ h.sh_info \in Nat /\ h.sh_entsize \in Nat
  BY <1>1 DEF SectionHeaders
<1>5. /\ h.sh_name < U32Limit /\ h.sh_size = Size(bodies[sec])
      /\ h.sh_offset < U64 /\ h.sh_size < U64
  <2>1. h.sh_offset + Size(bodies[sec]) <= e_shoff /\ h.sh_size = Size(bodies[sec])
    BY SectionsBelow
  <2>2. h.sh_name \in 0 .. 60
    BY NameBelow
  <2>3. e_shoff < U64 /\ U64 \in Nat
    BY DEF Complete, U64, U16
  <2> HIDE DEF h
  <2> QED BY <1>1, <1>4, <2>1, <2>2, <2>3 DEF U32Limit, U16
<1> HIDE DEF h, at
<1>6. /\ \A k, m \in Nat : (at + k) + m = at + (k + m)
      /\ \A k \in 0 .. 60, i \in 1 .. 4 : k + i \in 1 .. 64
      /\ \A k \in 0 .. 56, i \in 1 .. 8 : k + i \in 1 .. 64
  BY <1>1
<1>7. /\ \A i \in 1 .. 4 : out[at + i] = LE(h.sh_name, 4)[i]
      /\ \A i \in 1 .. 8 : out[(at + 24) + i] = LE(h.sh_offset, 8)[i]
      /\ \A i \in 1 .. 8 : out[(at + 32) + i] = LE(h.sh_size, 8)[i]
      /\ \A i \in 1 .. 4 : out[(at + 40) + i] = LE(h.sh_link, 4)[i]
      /\ \A i \in 1 .. 4 : out[(at + 44) + i] = LE(h.sh_info, 4)[i]
      /\ \A i \in 1 .. 8 : out[(at + 56) + i] = LE(h.sh_entsize, 8)[i]
  <2>1. /\ \A i \in 1 .. 4 : SectionHeaderBytes(h)[0 + i] = LE(h.sh_name, 4)[i]
        /\ \A i \in 1 .. 8 : SectionHeaderBytes(h)[24 + i] = LE(h.sh_offset, 8)[i]
        /\ \A i \in 1 .. 8 : SectionHeaderBytes(h)[32 + i] = LE(h.sh_size, 8)[i]
        /\ \A i \in 1 .. 4 : SectionHeaderBytes(h)[40 + i] = LE(h.sh_link, 4)[i]
        /\ \A i \in 1 .. 4 : SectionHeaderBytes(h)[44 + i] = LE(h.sh_info, 4)[i]
        /\ \A i \in 1 .. 8 : SectionHeaderBytes(h)[56 + i] = LE(h.sh_entsize, 8)[i]
    BY <1>1, SectionHeaderFields
  <2>2. \A i \in 1 .. 4 : out[at + i] = LE(h.sh_name, 4)[i]
    BY <1>1, <1>3, <1>6, <2>1
  <2>3. \A i \in 1 .. 8 : out[(at + 24) + i] = LE(h.sh_offset, 8)[i]
    BY <1>1, <1>3, <1>6, <2>1
  <2>4. \A i \in 1 .. 8 : out[(at + 32) + i] = LE(h.sh_size, 8)[i]
    BY <1>1, <1>3, <1>6, <2>1
  <2>5. \A i \in 1 .. 4 : out[(at + 40) + i] = LE(h.sh_link, 4)[i]
    BY <1>1, <1>3, <1>6, <2>1
  <2>6. \A i \in 1 .. 4 : out[(at + 44) + i] = LE(h.sh_info, 4)[i]
    BY <1>1, <1>3, <1>6, <2>1
  <2>7. \A i \in 1 .. 8 : out[(at + 56) + i] = LE(h.sh_entsize, 8)[i]
    BY <1>1, <1>3, <1>6, <2>1
  <2> QED BY <2>2, <2>3, <2>4, <2>5, <2>6, <2>7
<1>8. /\ at + 24 \in Nat /\ at + 32 \in Nat /\ at + 40 \in Nat /\ at + 44 \in Nat /\ at + 56 \in Nat
  BY <1>1
<1>9. Reader!Num(out, at, 4) = h.sh_name
  BY <1>1, <1>4, <1>5, <1>7, ReadBack4
<1>10. Reader!Num(out, at + 24, 8) = h.sh_offset
  BY <1>4, <1>5, <1>7, <1>8, ReadBack8
<1>11. Reader!Num(out, at + 32, 8) = h.sh_size
  BY <1>4, <1>5, <1>7, <1>8, ReadBack8
<1>12. h.sh_link < U32Limit => Reader!Num(out, at + 40, 4) = h.sh_link
  BY <1>4, <1>7, <1>8, ReadBack4
<1>13. h.sh_info < U32Limit => Reader!Num(out, at + 44, 4) = h.sh_info
  BY <1>4, <1>7, <1>8, ReadBack4
<1>14. h.sh_entsize < U64 => Reader!Num(out, at + 56, 8) = h.sh_entsize
  BY <1>4, <1>7, <1>8, ReadBack8
<1> QED BY <1>2, <1>5, <1>9, <1>10, <1>11, <1>12, <1>13, <1>14 DEF Reader!SectionAt, h, at

LEMMA ImageIsObject ==
    ASSUME Complete
    PROVE  Reader!IsObject(out)
<1>1. /\ Reader!shentsize(out) = 64 /\ Reader!shnum(out) = 6 /\ Reader!shoff(out) = e_shoff
      /\ Reader!Bytes(out, 0, 4) = <<127, 69, 76, 70>>
  BY ReadsElfHeader
<1>2. Size(out) \in Nat /\ e_shoff \in Nat /\ Size(out) = e_shoff + 6 * 64
  BY CompleteTypes
<1>3. Reader!HeaderAt(out, 6) <= Size(out)
  BY <1>1, <1>2 DEF Reader!HeaderAt
<1>4. ASSUME NEW i \in 0 .. 5
      PROVE  Reader!SectionAt(out, i).offset + Reader!SectionAt(out, i).size <= Size(out)
  <2>1. i \in SectionType
    BY SectionTypes
  <2>2. headers[i].sh_offset + Size(bodies[i]) <= e_shoff /\ headers[i].sh_offset \in Nat
    BY <2>1, SectionsBelow
  <2>3. Size(bodies[i]) \in Nat
    BY <2>1, CompleteTypes
  <2>4. /\ Reader!SectionAt(out, i).offset = headers[i].sh_offset
        /\ Reader!SectionAt(out, i).size = Size(bodies[i])
    BY <2>1, ReadsSection
  <2> QED BY <1>2, <2>2, <2>3, <2>4
<1>5. \A i \in 0 .. 6 - 1 : i \in 0 .. 5
  OBVIOUS
<1>6. Size(out) >= 64
  BY <1>2
<1> QED BY <1>1, <1>3, <1>4, <1>5, <1>6 DEF Reader!IsObject, Size

\* A name of a string table is read where the table lies in the image.
LEMMA StringInSection ==
    ASSUME Complete, NEW tab \in SectionType, NEW o \in Nat, NEW s \in Image,
           \A i \in 1 .. Size(s) : s[i] # 0, StandsAt(bodies[tab], o, s)
    PROVE  Reader!StringAt(out, headers[tab].sh_offset + o,
                           headers[tab].sh_offset + Size(bodies[tab])) = s
<1> DEFINE at == headers[tab].sh_offset  n == Size(bodies[tab])
<1>1. at \in Nat /\ \A i \in 1 .. n : out[at + i] = bodies[tab][i]
  BY SectionsBelow
<1>2. n \in Nat /\ Size(s) \in Nat
  BY CompleteTypes, CatImage
<1>3. /\ o + Size(s) < n
      /\ \A i \in 1 .. Size(s) : bodies[tab][o + i] = s[i]
      /\ bodies[tab][o + Size(s) + 1] = 0
  BY DEF StandsAt, Size
<1> HIDE DEF at, n
<1>4. \A i \in 1 .. Size(s) : out[(at + o) + i] = s[i]
  <2> SUFFICES ASSUME NEW i \in 1 .. Size(s) PROVE out[(at + o) + i] = s[i]
    OBVIOUS
  <2>1. o + i \in 1 .. n /\ (at + o) + i = at + (o + i)
    BY <1>1, <1>2, <1>3
  <2> QED BY <1>1, <1>3, <2>1
<1>5. out[(at + o) + Size(s) + 1] = 0
  <2>1. /\ o + Size(s) + 1 \in 1 .. n
        /\ (at + o) + Size(s) + 1 = at + (o + Size(s) + 1)
    BY <1>1, <1>2, <1>3
  <2> QED BY <1>1, <1>3, <2>1
<1>6. /\ at + o \in Nat /\ at + n \in Nat /\ (at + o) + Size(s) < at + n
  BY <1>1, <1>2, <1>3
<1>7. Reader!StringAt(out, at + o, at + n) = s
  BY <1>4, <1>5, <1>6, StringRead
<1> QED BY <1>7 DEF at, n

\* No name of a section holds a NUL.
LEMMA NoNul ==
    ASSUME NEW sec \in SectionType
    PROVE  \A i \in 1 .. Size(section_name(sec)) : section_name(sec)[i] # 0
<1>1. CASE sec = Null
  BY <1>1 DEF section_name, Size
<1>2. CASE sec = Text
  BY <1>2, SectionTypes DEF section_name, Size
<1>3. CASE sec = SectionHeaderStrTab
  BY <1>3, SectionTypes DEF section_name, Size
<1>4. CASE sec = SymTab
  BY <1>4, SectionTypes DEF section_name, Size
<1>5. CASE sec = SymTabStrTab
  BY <1>5, SectionTypes DEF section_name, Size
<1>6. CASE sec = Data
  BY <1>6, SectionTypes DEF section_name, Size
<1> QED BY <1>1, <1>2, <1>3, <1>4, <1>5, <1>6, SectionTypes

\* The sections a reader looks for have names of their own.
LEMMA NamesDiffer ==
    /\ section_name(Text) = Reader!dotText
    /\ section_name(Data) = Reader!dotData
    /\ section_name(SymTab) = Reader!dotSymtab
    /\ \A sec \in SectionType :
          /\ section_name(sec) = Reader!dotText => sec = Text
          /\ section_name(sec) = Reader!dotData => sec = Data
          /\ section_name(sec) = Reader!dotSymtab => sec = SymTab
<1>1. /\ section_name(Text) = Reader!dotText
      /\ section_name(Data) = Reader!dotData
      /\ section_name(SymTab) = Reader!dotSymtab
  BY SectionTypes
     DEF section_name, Reader!dotText, Reader!dotData, Reader!dotSymtab
<1>2. /\ Len(Reader!dotText) = 5 /\ Reader!dotText[2] = 116
      /\ Len(Reader!dotData) = 5 /\ Reader!dotData[2] = 100
      /\ Len(Reader!dotSymtab) = 7 /\ Reader!dotSymtab[4] = 109
  BY DEF Reader!dotText, Reader!dotData, Reader!dotSymtab
<1>3. Len(section_name(Null)) = 0
  BY DEF section_name
<1>4. Len(section_name(SectionHeaderStrTab)) = 9
  BY SectionTypes DEF section_name
<1>5. Len(section_name(SymTabStrTab)) = 7 /\ section_name(SymTabStrTab)[4] = 114
  BY SectionTypes DEF section_name
<1>6. \A sec \in SectionType :
         sec \in {Null, Text, SectionHeaderStrTab, SymTab, SymTabStrTab, Data}
  BY SectionTypes
<1>7. /\ Reader!dotText # Reader!dotData /\ Reader!dotText # Reader!dotSymtab
      /\ Reader!dotData # Reader!dotSymtab
  BY <1>2
<1>8. \A name \in {Reader!dotText, Reader!dotData, Reader!dotSymtab} :
         /\ section_name(Null) # name /\ section_name(SectionHeaderStrTab) # name
         /\ section_name(SymTabStrTab) # name
  <2>1. \A name \in {Reader!dotText, Reader!dotData, Reader!dotSymtab} :
           Len(name) \in {5, 7} /\ (Len(name) = 7 => name[4] = 109)
    BY <1>2
  <2>2. ASSUME NEW name, Len(name) \in {5, 7}, Len(name) = 7 => name[4] = 109
        PROVE  /\ section_name(Null) # name /\ section_name(SectionHeaderStrTab) # name
               /\ section_name(SymTabStrTab) # name
    <3>1. section_name(Null) # name
      BY <1>3, <2>2
    <3>2. section_name(SectionHeaderStrTab) # name
      BY <1>4, <2>2
    <3>3. section_name(SymTabStrTab) # name
      BY <1>5, <2>2
    <3> QED BY <3>1, <3>2, <3>3
  <2> QED BY <2>1, <2>2
<1>9. ASSUME NEW sec \in SectionType
      PROVE  /\ section_name(sec) = Reader!dotText => sec = Text
             /\ section_name(sec) = Reader!dotData => sec = Data
             /\ section_name(sec) = Reader!dotSymtab => sec = SymTab
  BY <1>1, <1>6, <1>7, <1>8
<1> QED BY <1>1, <1>9

LEMMA ReadsName ==
    ASSUME Complete, NEW sec \in SectionType
    PROVE  Reader!SectionName(out, sec) = section_name(sec)
<1>1. SectionHeaderStrTab \in SectionType
  BY SectionTypes
<1>2. /\ Reader!SectionAt(out, SectionHeaderStrTab).offset = headers[SectionHeaderStrTab].sh_offset
      /\ Reader!SectionAt(out, SectionHeaderStrTab).size = Size(bodies[SectionHeaderStrTab])
      /\ Reader!SectionAt(out, sec).name = headers[sec].sh_name
  BY <1>1, ReadsSection
<1>3. /\ StandsAt(bodies[SectionHeaderStrTab], headers[sec].sh_name, section_name(sec))
      /\ headers[sec].sh_name \in Nat /\ section_name(sec) \in Image
      /\ \A i \in 1 .. Size(section_name(sec)) : section_name(sec)[i] # 0
  <2>1. headers[sec].sh_name \in 0 .. 60
    BY NameBelow
  <2> QED BY <2>1, NameBelow, NameType, NoNul
<1>4. Reader!StringAt(out, headers[SectionHeaderStrTab].sh_offset + headers[sec].sh_name,
                headers[SectionHeaderStrTab].sh_offset + Size(bodies[SectionHeaderStrTab]))
         = section_name(sec)
  BY <1>1, <1>3, StringInSection
<1> QED BY <1>2, <1>4, ReadsElfHeader DEF Reader!SectionName

LEMMA Finds ==
    ASSUME Complete
    PROVE  /\ Reader!Find(out, Reader!dotText) = Text
           /\ Reader!Find(out, Reader!dotData) = Data
           /\ Reader!Find(out, Reader!dotSymtab) = SymTab
<1>1. \A i \in 1 .. 5 : i \in SectionType /\ Reader!SectionName(out, i) = section_name(i)
  BY ReadsName, SectionTypes
<1>2. \A i \in 1 .. Reader!shnum(out) - 1 : i \in 1 .. 5
  BY ReadsElfHeader
<1>3. /\ Text \in 1 .. Reader!shnum(out) - 1 /\ Data \in 1 .. Reader!shnum(out) - 1
      /\ SymTab \in 1 .. Reader!shnum(out) - 1
  BY ReadsElfHeader, SectionTypes
<1>4. ASSUME NEW name, NEW sec \in 1 .. Reader!shnum(out) - 1, section_name(sec) = name,
             \A s \in SectionType : section_name(s) = name => s = sec
      PROVE  Reader!Find(out, name) = sec
  <2> DEFINE found == CHOOSE i \in 1 .. Reader!shnum(out) - 1 : Reader!SectionName(out, i) = name
  <2>1. Reader!SectionName(out, sec) = name
    BY <1>1, <1>2, <1>4
  <2>2. found \in 1 .. Reader!shnum(out) - 1 /\ Reader!SectionName(out, found) = name
    BY <1>4, <2>1
  <2>3. found = sec
    <3> HIDE DEF found
    <3> QED BY <1>1, <1>2, <1>4, <2>2
  <2> QED BY <2>3 DEF Reader!Find
<1>5. Reader!Find(out, Reader!dotText) = Text
  BY <1>3, <1>4, NamesDiffer
<1>6. Reader!Find(out, Reader!dotData) = Data
  BY <1>3, <1>4, NamesDiffer
<1>7. Reader!Find(out, Reader!dotSymtab) = SymTab
  BY <1>3, <1>4, NamesDiffer
<1> QED BY <1>5, <1>6, <1>7

LEMMA ReadsBody ==
    ASSUME Complete, NEW sec \in SectionType
    PROVE  Reader!SectionBytes(out, sec) = bodies[sec]
<1>1. /\ headers[sec].sh_offset \in Nat /\ bodies[sec] \in Image
      /\ \A i \in 1 .. Size(bodies[sec]) : out[headers[sec].sh_offset + i] = bodies[sec][i]
  BY SectionsBelow, CompleteTypes
<1>2. Reader!Bytes(out, headers[sec].sh_offset, Size(bodies[sec])) = bodies[sec]
  BY <1>1, BytesAt
<1> QED BY <1>2, ReadsSection DEF Reader!SectionBytes

\* .symtab holds one entry more than the code has symbols.
LEMMA ReadsSymTab ==
    ASSUME Complete
    PROVE  /\ Reader!SectionAt(out, SymTab).offset = headers[SymTab].sh_offset
           /\ Reader!SectionAt(out, SymTab).link = SymTabStrTab
           /\ Reader!SectionAt(out, SymTab).info = 1
           /\ Reader!SectionAt(out, SymTab).entsize = 24
           /\ Len(code.symbols) \in Nat /\ Len(symbols) = Len(code.symbols) + 1
           /\ Reader!SectionAt(out, SymTab).size = 24 * Len(symbols)
           /\ (Reader!SectionAt(out, SymTab).size \div 24) - 1 = Len(code.symbols)
<1>1. /\ headers[SymTab].sh_link = SymTabStrTab /\ headers[SymTab].sh_info = 1
      /\ headers[SymTab].sh_entsize = 24 /\ bodies[SymTab] = SymTabBytes
  BY CompleteTypes DEF Complete, DInv, SectionsHold, symbol_size
<1>2. /\ headers[SymTab].sh_link < U32Limit /\ headers[SymTab].sh_info < U32Limit
      /\ headers[SymTab].sh_entsize < U64
  <2>1. 4 < U32Limit /\ 1 < U32Limit
    BY DEF U32Limit, U16
  <2>2. 24 < U64
    <3>1. U64 \in Nat
      BY DEF U64, U16
    <3>2. e_shoff \in Nat /\ e_shoff >= 64 /\ e_shoff < U64
      BY CompleteTypes DEF Complete
    <3> QED BY <3>1, <3>2
  <2>3. SymTabStrTab = 4
    BY DEF SymTabStrTab
  <2> QED BY <1>1, <2>1, <2>2, <2>3
<1>3. SymTab \in SectionType
  BY SectionTypes
<1>4. code \in Codes /\ Len(code.symbols) \in Nat
  BY CompleteTypes, CodeType DEF TypeOK
<1>5. Len(symbols) = Len(code.symbols) + 1
  BY CompleteTypes DEF Complete, IInv, SymbolNamesResolve, Serializing
<1>6. Size(SymTabBytes) = 24 * Len(symbols)
  <2>1. SymTabBytes \in Image
    BY SymTabType, CompleteTypes DEF TypeOK
  <2>2. DOMAIN SymTabBytes = 1 .. 24 * Len(symbols)
    BY DEF SymTabBytes, symbol_size
  <2>3. DOMAIN SymTabBytes = 1 .. Size(SymTabBytes) /\ Size(SymTabBytes) \in Nat
    BY <2>1, LenProperties DEF Image, Size
  <2>4. 24 * Len(symbols) \in Nat
    BY <1>4, <1>5
  <2> HIDE DEF SymTabBytes
  <2>5. 1 .. 24 * Len(symbols) = 1 .. Size(SymTabBytes)
    BY <2>2, <2>3
  <2> QED BY <2>3, <2>4, <2>5
<1>7. /\ Reader!SectionAt(out, SymTab).offset = headers[SymTab].sh_offset
      /\ Reader!SectionAt(out, SymTab).link = SymTabStrTab
      /\ Reader!SectionAt(out, SymTab).info = 1
      /\ Reader!SectionAt(out, SymTab).entsize = 24
      /\ Reader!SectionAt(out, SymTab).size = 24 * Len(symbols)
  <2>1. Reader!SectionAt(out, SymTab).size = Size(bodies[SymTab])
    BY <1>3, ReadsSection
  <2> QED BY <1>1, <1>2, <1>3, <1>6, <2>1, ReadsSection
<1>8. ((24 * Len(symbols)) \div 24) - 1 = Len(code.symbols)
  <2>1. \A n \in Nat : ((24 * (n + 1)) \div 24) - 1 = n
    OBVIOUS
  <2> QED BY <1>4, <1>5, <2>1
<1> QED BY <1>4, <1>5, <1>7, <1>8

\* Where the entry of the i-th symbol of the code begins.
Entry(i) == headers[SymTab].sh_offset + 24 * i

LEMMA ReadsSymbol ==
    ASSUME Complete, NEW i \in 1 .. Len(code.symbols)
    PROVE  /\ Entry(i) \in Nat
           /\ symbols[i + 1] \in Symbols
           /\ Describes(symbols[i + 1], code.symbols[i])
           /\ symbols[i + 1].st_name < U32Limit =>
                 Reader!Num(out, Entry(i), 4) = symbols[i + 1].st_name
           /\ out[Entry(i) + 5] = symbols[i + 1].st_info
           /\ Reader!Num(out, Entry(i) + 6, 2) = code.symbols[i].code_section
           /\ code.symbols[i].offset < U64 =>
                 Reader!Num(out, Entry(i) + 8, 8) = code.symbols[i].offset
           /\ code.symbols[i].value < U64 =>
                 Reader!Num(out, Entry(i) + 16, 8) = code.symbols[i].value
<1> DEFINE s == symbols[i + 1]  at == Entry(i)  off == headers[SymTab].sh_offset
<1>1. /\ Len(code.symbols) \in Nat /\ Len(symbols) = Len(code.symbols) + 1 /\ i \in Nat
      /\ symbols \in Seq(Symbols)
  BY ReadsSymTab, CompleteTypes DEF TypeOK
<1>2. i + 1 \in 1 .. Len(symbols) /\ i \in 1 .. Len(symbols) - 1
  BY <1>1
<1>3. s \in Symbols
  BY <1>1, <1>2, ElementOfSeq, Zenon
<1>4. Describes(s, code.symbols[i])
  BY <1>2 DEF Complete, DInv, SymbolsDescribed
<1>5. /\ off \in Nat /\ \A j \in 1 .. Size(bodies[SymTab]) : out[off + j] = bodies[SymTab][j]
  BY SectionsBelow, SectionTypes
<1>6. bodies[SymTab] = SymTabBytes /\ Size(bodies[SymTab]) = 24 * Len(symbols)
  <2>1. bodies[SymTab] = SymTabBytes
    BY CompleteTypes DEF Complete, DInv, SectionsHold
  <2>2. Reader!SectionAt(out, SymTab).size = Size(bodies[SymTab])
    BY ReadsSection, SectionTypes
  <2> QED BY <2>1, <2>2, ReadsSymTab
<1>7. at = off + 24 * i /\ at \in Nat
  <2>1. at = off + 24 * i
    BY DEF Entry
  <2>2. off \in Nat /\ i \in Nat
    BY <1>1, <1>5
  <2> HIDE DEF at, off
  <2> QED BY <2>1, <2>2
<1>8. ASSUME NEW k \in 1 .. 24 PROVE out[at + k] = SymbolBytes(s)[k]
  <2> DEFINE j == 24 * i + k
  <2>1. j \in 1 .. 24 * Len(symbols) /\ at + k = off + j
    <3>1. /\ i \in Nat /\ i + 1 <= Len(symbols) /\ Len(symbols) \in Nat
          /\ off \in Nat /\ at = off + 24 * i
      BY <1>1, <1>2, <1>5, <1>7
    <3> HIDE DEF off, at
    <3> QED BY <3>1
  <2>2. ((j - 1) \div 24) + 1 = i + 1 /\ ((j - 1) % 24) + 1 = k
    <3>1. j - 1 = 24 * i + (k - 1) /\ k - 1 \in 0 .. 23
      BY <1>1
    <3>2. (24 * i + (k - 1)) \div 24 = i /\ (24 * i + (k - 1)) % 24 = k - 1
      BY <1>1
    <3> QED BY <1>1, <3>1, <3>2
  <2>3. SymTabBytes[j] = SymbolBytes(symbols[((j - 1) \div 24) + 1])[((j - 1) % 24) + 1]
    BY <2>1 DEF SymTabBytes, symbol_size
  <2> HIDE DEF j
  <2>4. SymTabBytes[j] = SymbolBytes(s)[k]
    BY <2>2, <2>3
  <2>5. out[off + j] = SymTabBytes[j]
    BY <1>5, <1>6, <2>1
  <2> QED BY <2>1, <2>4, <2>5
<1>9. /\ s.st_name \in Nat /\ s.st_shndx \in 0 .. 5 /\ s.st_value \in Nat /\ s.st_size \in Nat
  BY <1>3, SectionTypes DEF Symbols
<1>10. /\ s.st_shndx = code.symbols[i].code_section
       /\ s.st_value = code.symbols[i].offset /\ s.st_size = code.symbols[i].value
  BY <1>4 DEF Describes
<1> HIDE DEF at, s, off
<1>11. /\ \A k \in 1 .. 4 : SymbolBytes(s)[0 + k] = LE(s.st_name, 4)[k]
       /\ SymbolBytes(s)[5] = s.st_info
       /\ \A k \in 1 .. 2 : SymbolBytes(s)[6 + k] = LE(s.st_shndx, 2)[k]
       /\ \A k \in 1 .. 8 : SymbolBytes(s)[8 + k] = LE(s.st_value, 8)[k]
       /\ \A k \in 1 .. 8 : SymbolBytes(s)[16 + k] = LE(s.st_size, 8)[k]
  BY <1>3, SymbolFields
<1>13. s.st_name < U32Limit => Reader!Num(out, at, 4) = s.st_name
  <2>1. \A k \in 1 .. 4 : out[at + k] = LE(s.st_name, 4)[k]
    <3> SUFFICES ASSUME NEW k \in 1 .. 4 PROVE out[at + k] = LE(s.st_name, 4)[k]
      OBVIOUS
    <3>1. 0 + k \in 1 .. 24 /\ at + k = at + (0 + k)
      BY <1>7
    <3>2. out[at + (0 + k)] = SymbolBytes(s)[0 + k]
      BY <1>8, <3>1, Zenon
    <3>3. SymbolBytes(s)[0 + k] = LE(s.st_name, 4)[k]
      BY <1>11
    <3> QED BY <3>1, <3>2, <3>3
  <2> QED BY <1>7, <1>9, <2>1, ReadBack4
<1>14. out[at + 5] = s.st_info
  BY <1>8, <1>11
<1>15. Reader!Num(out, at + 6, 2) = s.st_shndx
  <2>1. \A k \in 1 .. 2 : out[(at + 6) + k] = LE(s.st_shndx, 2)[k]
    <3> SUFFICES ASSUME NEW k \in 1 .. 2 PROVE out[(at + 6) + k] = LE(s.st_shndx, 2)[k]
      OBVIOUS
    <3>1. 6 + k \in 1 .. 24 /\ (at + 6) + k = at + (6 + k)
      BY <1>7
    <3>2. out[at + (6 + k)] = SymbolBytes(s)[6 + k]
      BY <1>8, <3>1, Zenon
    <3>3. SymbolBytes(s)[6 + k] = LE(s.st_shndx, 2)[k]
      BY <1>11
    <3> QED BY <3>1, <3>2, <3>3
  <2>2. s.st_shndx \in Nat /\ s.st_shndx < U16 /\ at + 6 \in Nat
    BY <1>7, <1>9 DEF U16
  <2> QED BY <2>1, <2>2, ReadBack2
<1>16. s.st_value < U64 => Reader!Num(out, at + 8, 8) = s.st_value
  <2>1. \A k \in 1 .. 8 : out[(at + 8) + k] = LE(s.st_value, 8)[k]
    <3> SUFFICES ASSUME NEW k \in 1 .. 8 PROVE out[(at + 8) + k] = LE(s.st_value, 8)[k]
      OBVIOUS
    <3>1. 8 + k \in 1 .. 24 /\ (at + 8) + k = at + (8 + k)
      BY <1>7
    <3>2. out[at + (8 + k)] = SymbolBytes(s)[8 + k]
      BY <1>8, <3>1, Zenon
    <3>3. SymbolBytes(s)[8 + k] = LE(s.st_value, 8)[k]
      BY <1>11
    <3> QED BY <3>1, <3>2, <3>3
  <2>2. at + 8 \in Nat
    BY <1>7
  <2> QED BY <1>9, <2>1, <2>2, ReadBack8
<1>17. s.st_size < U64 => Reader!Num(out, at + 16, 8) = s.st_size
  <2>1. \A k \in 1 .. 8 : out[(at + 16) + k] = LE(s.st_size, 8)[k]
    <3> SUFFICES ASSUME NEW k \in 1 .. 8 PROVE out[(at + 16) + k] = LE(s.st_size, 8)[k]
      OBVIOUS
    <3>1. 16 + k \in 1 .. 24 /\ (at + 16) + k = at + (16 + k)
      BY <1>7
    <3>2. out[at + (16 + k)] = SymbolBytes(s)[16 + k]
      BY <1>8, <3>1, Zenon
    <3>3. SymbolBytes(s)[16 + k] = LE(s.st_size, 8)[k]
      BY <1>11
    <3> QED BY <3>1, <3>2, <3>3
  <2>2. at + 16 \in Nat
    BY <1>7
  <2> QED BY <1>9, <2>1, <2>2, ReadBack8
<1> QED BY <1>3, <1>4, <1>7, <1>10, <1>13, <1>14, <1>15, <1>16, <1>17 DEF s, at

LEMMA ImageTypesAgree ==
    ASSUME Complete
    PROVE  Reader!TypesAgree(out)
<1> DEFINE tab == Reader!SectionAt(out, Reader!Find(out, Reader!dotSymtab))
           entry(i) == tab.offset + (tab.info + i - 1) * tab.entsize
           n == (tab.size \div tab.entsize) - tab.info
<1>1. tab = Reader!SectionAt(out, SymTab)
  BY Finds
<1>2. /\ tab.offset = headers[SymTab].sh_offset /\ tab.info = 1 /\ tab.entsize = 24
      /\ n = Len(code.symbols) /\ Len(code.symbols) \in Nat
      /\ headers[SymTab].sh_offset \in Nat
  <2>1. headers[SymTab].sh_offset \in Nat
    BY SectionsBelow, SectionTypes
  <2> HIDE DEF tab
  <2> QED BY <1>1, <2>1, ReadsSymTab
<1>3. Reader!Find(out, Reader!dotText) = Text
  BY Finds
<1> HIDE DEF tab
<1>4. \A i \in 1 .. n : entry(i) = Entry(i)
  BY <1>2 DEF Entry
<1> HIDE DEF n
<1>5. ASSUME NEW i \in 1 .. n
      PROVE  LET info == out[entry(i) + 5]
             IN  /\ info \div 16 = 1
                 /\ info % 16 = 2 <=> Reader!Num(out, entry(i) + 6, 2) = Reader!Find(out, Reader!dotText)
  <2>1. entry(i) = Entry(i) /\ i \in 1 .. Len(code.symbols)
    BY <1>2, <1>4
  <2>2. /\ out[Entry(i) + 5] = symbols[i + 1].st_info
        /\ symbols[i + 1].st_info =
              st_info(STB_GLOBAL,
                      IF code.symbols[i].code_section = Text THEN STT_FUNC ELSE STT_OBJECT)
        /\ Reader!Num(out, Entry(i) + 6, 2) = code.symbols[i].code_section
    BY <2>1, ReadsSymbol DEF Describes
  <2>3. /\ st_info(STB_GLOBAL, STT_FUNC) = 18
        /\ st_info(STB_GLOBAL, STT_OBJECT) = 17
    BY DEF st_info, STB_GLOBAL, STT_FUNC, STT_OBJECT
  <2>4. 18 \div 16 = 1 /\ 18 % 16 = 2 /\ 17 \div 16 = 1 /\ 17 % 16 = 1
    OBVIOUS
  <2>5. CASE code.symbols[i].code_section = Text
    BY <1>3, <2>1, <2>2, <2>3, <2>4, <2>5
  <2>6. CASE code.symbols[i].code_section # Text
    BY <1>3, <2>1, <2>2, <2>3, <2>4, <2>6
  <2> QED BY <2>5, <2>6
<1> QED BY <1>5 DEF Reader!TypesAgree, tab, n

\* Every symbol of the code, as the reader finds it.
LEMMA ImageSymbols ==
    ASSUME Complete, Len(strtab) <= U32, U32 <= U32Limit,
           \A i \in 1 .. Len(code.symbols) :
              code.symbols[i].offset < U64 /\ code.symbols[i].value < U64
    PROVE  Reader!GlobalSymbols(out) = code.symbols
<1> DEFINE tab == Reader!SectionAt(out, Reader!Find(out, Reader!dotSymtab))
           names == Reader!SectionAt(out, tab.link)
           entry(i) == tab.offset + (tab.info + i - 1) * tab.entsize
           n == (tab.size \div tab.entsize) - tab.info
           read(i) == [offset |-> Reader!Num(out, entry(i) + 8, 8),
                       code_section |-> Reader!Num(out, entry(i) + 6, 2),
                       name |-> Reader!StringAt(out, names.offset + Reader!Num(out, entry(i), 4),
                                                names.offset + names.size),
                       value |-> Reader!Num(out, entry(i) + 16, 8)]
<1>1. tab = Reader!SectionAt(out, SymTab)
  BY Finds
<1>2. /\ tab.offset = headers[SymTab].sh_offset /\ tab.info = 1 /\ tab.entsize = 24
      /\ tab.link = SymTabStrTab
      /\ n = Len(code.symbols) /\ Len(code.symbols) \in Nat
      /\ headers[SymTab].sh_offset \in Nat
  <2>1. headers[SymTab].sh_offset \in Nat
    BY SectionsBelow, SectionTypes
  <2> HIDE DEF tab
  <2> QED BY <1>1, <2>1, ReadsSymTab
<1>3. Reader!GlobalSymbols(out) = [i \in 1 .. n |-> read(i)]
  BY DEF Reader!GlobalSymbols
<1> HIDE DEF tab
<1>4. \A i \in 1 .. n : entry(i) = Entry(i)
  BY <1>2 DEF Entry
<1> HIDE DEF n
<1>5. /\ names.offset = headers[SymTabStrTab].sh_offset
      /\ names.size = Size(bodies[SymTabStrTab])
  BY <1>2, ReadsSection, SectionTypes
<1> HIDE DEF names
<1>6. code \in Codes /\ code.symbols \in Seq(CodeSymbol)
  BY CompleteTypes, CodesAssumption DEF TypeOK
<1>7. ASSUME NEW i \in 1 .. n PROVE read(i) = code.symbols[i]
  <2> DEFINE sym == code.symbols[i]  s == symbols[i + 1]
  <2>1. entry(i) = Entry(i) /\ i \in 1 .. Len(code.symbols)
    BY <1>2, <1>4
  <2>2. sym \in CodeSymbol
    BY <1>6, <2>1, ElementOfSeq, Zenon
  <2>3. /\ sym.name \in Seq(Byte \ {0})
        /\ sym = [offset |-> sym.offset, code_section |-> sym.code_section,
                  name |-> sym.name, value |-> sym.value]
    <3> HIDE DEF sym
    <3> QED BY <2>2 DEF CodeSymbol
  <2>4. sym.name \in Image /\ \A k \in 1 .. Size(sym.name) : sym.name[k] # 0
    <3>1. sym.name \in Image
      BY <2>3, SeqMonotonic, Zenon DEF Image
    <3>2. \A k \in 1 .. Len(sym.name) : sym.name[k] \in Byte \ {0}
      BY <2>3, ElementOfSeq, Zenon
    <3> QED BY <3>1, <3>2 DEF Size
  <2>5. StandsAt(bodies[SymTabStrTab], s.st_name, sym.name)
    BY <2>1, CompleteTypes DEF Complete, IInv, SymbolNamesResolve, Serializing
  <2>6. s.st_name \in Nat /\ s.st_name < U32Limit
    <3>1. s \in Symbols
      BY <2>1, ReadsSymbol
    <3>2. s.st_name \in Nat
      BY <3>1 DEF Symbols
    <3>3. s.st_name + Size(sym.name) < Size(strtab) /\ Size(strtab) <= U32
      BY <2>5, CompleteTypes DEF StandsAt, Size, Complete, IInv, SymbolsStand
    <3>4. Size(sym.name) \in Nat /\ Size(strtab) \in Nat /\ U32 \in Nat /\ U32Limit \in Nat
      <4>1. strtab \in Image
        BY CompleteTypes DEF TypeOK, Image
      <4> QED BY <2>4, <4>1, CatImage, NumbersAssumption DEF U32Limit, U16
    <3> QED BY <3>2, <3>3, <3>4
  <2>7. Reader!StringAt(out, headers[SymTabStrTab].sh_offset + s.st_name,
                        headers[SymTabStrTab].sh_offset + Size(bodies[SymTabStrTab])) = sym.name
    <3>1. SymTabStrTab \in SectionType
      BY SectionTypes
    <3> HIDE DEF sym, s
    <3> QED BY <2>4, <2>5, <2>6, <3>1, StringInSection
  <2>8. /\ Reader!Num(out, entry(i), 4) = s.st_name
        /\ Reader!Num(out, entry(i) + 6, 2) = sym.code_section
        /\ Reader!Num(out, entry(i) + 8, 8) = sym.offset
        /\ Reader!Num(out, entry(i) + 16, 8) = sym.value
    BY <2>1, <2>6, ReadsSymbol
  <2> HIDE DEF sym, s
  <2>9. read(i) = [offset |-> sym.offset, code_section |-> sym.code_section,
                   name |-> sym.name, value |-> sym.value]
    BY <1>5, <2>7, <2>8
  <2> QED BY <2>3, <2>9 DEF sym
<1>8. code.symbols = [i \in 1 .. Len(code.symbols) |-> code.symbols[i]]
  BY <1>6
<1>9. [i \in 1 .. n |-> read(i)] = [i \in 1 .. Len(code.symbols) |-> code.symbols[i]]
  <2> HIDE DEF read
  <2> QED BY <1>2, <1>7
<1> QED BY <1>3, <1>8, <1>9

\* A complete image reads as the code.
LEMMA ImageDelivers ==
    ASSUME Complete, Len(strtab) <= U32, U32 <= U32Limit,
           \A i \in 1 .. Len(code.symbols) :
              code.symbols[i].offset < U64 /\ code.symbols[i].value < U64
    PROVE  Reads(out) = code
<1>1. Reads(out) = [text |-> bodies[Text], data |-> bodies[Data], symbols |-> code.symbols]
  <2>1. /\ Reader!SectionBytes(out, Text) = bodies[Text]
        /\ Reader!SectionBytes(out, Data) = bodies[Data]
    BY ReadsBody, SectionTypes
  <2>2. Reader!GlobalSymbols(out) = code.symbols
    BY ImageSymbols
  <2> QED BY <2>1, <2>2, Finds, ImageIsObject DEF Reads, Reader!Read
<1>2. bodies[Text] = code.text /\ bodies[Data] = code.data
  BY CompleteTypes DEF Complete, DInv, SectionsHold
<1>3. code \in [text : Seq(Byte), data : Seq(Byte), symbols : Seq(CodeSymbol)]
  BY CompleteTypes, CodesAssumption DEF TypeOK
<1> QED BY <1>1, <1>2, <1>3

\* The symbols of a file reported as written are global, and functions when they are in
\* .text, whatever the code: the reader finds .symtab by its name and its entries by the
\* header of the section, both written long after the symbols were collected.
THEOREM SymbolTypesAreRead == Spec => [](e_shoff < U64 => SymbolTypesAgree)
<1>1. IInv /\ DInv => (e_shoff < U64 => SymbolTypesAgree)
  <2> SUFFICES ASSUME IInv, DInv, e_shoff < U64, outcome = "written"
               PROVE  Reader!TypesAgree(file)
    BY DEF SymbolTypesAgree
  <2>1. pc = "end" /\ file = out
    BY DEF DInv, OutcomeKnown
  <2> QED BY <2>1, ImageTypesAgree DEF Complete
<1> QED BY <1>1, Inductive, Delivering, PTL

\* No number outgrows the field it is written to: the image and the values of the symbols
\* are below 2^64, which their types in the code are anyway, and the names fit st_name.
NumbersFit ==
    /\ e_shoff < U64
    /\ Len(strtab) <= U32
    /\ \A i \in 1 .. Len(code.symbols) :
          code.symbols[i].offset < U64 /\ code.symbols[i].value < U64

\* Every step is a step of ElfObject or leaves what ElfObject sees alone.
LEMMA ObjectStep ==
    ASSUME U32 <= U32Limit, IInv, DInv, NumbersFit, CutFileIsNoObject', [Next]_vars
    PROVE  [Object!Next]_(Object!vars)
<1>1. CASE WriteFile
  <2>1. /\ pc = "write" /\ pc' = "end" /\ out' = out /\ code' = code /\ outcome = "pending"
        /\ FileOf!Succeed \/ FileOf!Fail \/ FileOf!Refuse
    BY <1>1 DEF WriteFile, FileOf!Write
  <2>2. Reads(out) = code
    <3>1. Complete
      BY <2>1 DEF Complete, NumbersFit
    <3> QED BY <3>1, ImageDelivers DEF NumbersFit
  <2>3. CASE FileOf!Succeed
    <3>1. file' = out /\ outcome' = "written"
      BY <2>3 DEF FileOf!Succeed
    <3>2. Object!Deliver
      BY <2>1, <2>2, <3>1 DEF Object!Deliver
    <3> QED BY <3>2 DEF Object!Next
  <2>4. CASE FileOf!Fail
    <3>1. PICK n \in Cuts : n <= Len(out) /\ file' = SubSeq(out, 1, n)
      BY <2>4 DEF FileOf!Fail, FileOf!Beginning
    <3>2. outcome' \in {"lost", "abort"}
      BY <2>4 DEF FileOf!Fail
    <3>3. /\ out \in Seq(Byte) /\ Size(out) \in Nat /\ n \in Nat
          /\ \A i \in 1 .. Size(out) : out[i] \in Byte
      BY LenProperties, ElementOfSeq, NumbersAssumption DEF IInv, TypeOK, Size
    <3>4. ASSUME n = Len(out) PROVE Reads(file') = code
      <4>1. SubSeq(out, 1, Len(out)) = out
        BY <3>3, SubSeqFull
      <4>2. file' = out
        BY <3>1, <3>4, <4>1
      <4> QED BY <2>2, <4>2
    <3>5. ASSUME n # Len(out) PROVE Reads(file') = Unreadable
      <4>1. \A i \in 1 .. n : out[i] \in Byte
        BY <3>1, <3>3 DEF Size
      <4>2. Len(file') = n /\ n < Len(out)
        BY <3>1, <3>3, <3>5, <4>1, FrontOf DEF Size
      <4>3. ~ Reader!IsObject(file')
        BY <2>1, <3>1, <4>2 DEF CutFileIsNoObject
      <4> QED BY <4>3 DEF Reads
    <3>6. Reads(file') \in {Unreadable, code}
      BY <3>4, <3>5
    <3>7. Object!Fail
      BY <2>1, <3>2, <3>6 DEF Object!Fail
    <3> QED BY <3>7 DEF Object!Next
  <2>5. CASE FileOf!Refuse
    <3>1. file' = file /\ outcome' = "abort"
      BY <2>5 DEF FileOf!Refuse
    <3>2. Object!Fail
      BY <2>1, <3>1 DEF Object!Fail
    <3> QED BY <3>2 DEF Object!Next
  <2> QED BY <2>1, <2>3, <2>4, <2>5
<1>2. CASE UNCHANGED <<code, file, outcome>>
  BY <1>2 DEF Object!vars
<1> QED BY <1>1, <1>2
    DEF Next, vars, AddSectionName, StoreSectionNames, AddSymbol, BuildSections, EmitBody, EmitHeader

\* build_elf_file implements ElfObject: the file it leaves holds the code it was given, or
\* is nothing a linker takes for an object file, or it is untouched and the process has
\* ended, for every code, iteration order and cut and whatever the file held before.
THEOREM CodeIsDelivered ==
    ASSUME U32 <= U32Limit
    PROVE  Spec /\ []NumbersFit => DeliversTheCode
<1>1. Init => Object!Init
  BY DEF Init, Object!Init
<1>2. IInv /\ DInv /\ NumbersFit /\ CutFileIsNoObject' /\ [Next]_vars => [Object!Next]_(Object!vars)
  BY ObjectStep
<1>3. NumbersFit => e_shoff < U64
  BY DEF NumbersFit
<1> QED BY <1>1, <1>2, <1>3, Inductive, Delivering, CutFilesAreRejected, PTL
        DEF Spec, DeliversTheCode, Object!Spec
=============================================================================
