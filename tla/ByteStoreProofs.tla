-------------------------- MODULE ByteStoreProofs --------------------------
(***************************************************************************)
(* Theorems about Keys and ByteStore, for all byte strings: the keys of    *)
(* different entries are different bytes, scans of a prefix or a range     *)
(* find what their fields ask for, and parsing a key gives its fields.     *)
(***************************************************************************)
EXTENDS ByteStore, SumTheorems, SequenceTheorems

Bytes == Seq(Nat)

\* What follows what, and one byte alone: names that keep the provers from expanding them.
s ++ t == s \o t

Byte(k) == <<k>>

-----------------------------------------------------------------------------
(* Fields, one after the other. *)

\* The library's facts about sequences, for bytes.
LEMMA BytesEqual ==
    ASSUME NEW s \in Bytes, NEW t \in Bytes, Len(s) = Len(t),
           \A i \in 1 .. Len(s) : s[i] = t[i]
    PROVE  s = t
BY SeqEqual DEF Bytes

LEMMA BytesLen ==
    ASSUME NEW s \in Bytes
    PROVE  /\ Len(s) \in Nat /\ DOMAIN s = 1 .. Len(s)
           /\ \A i \in 1 .. Len(s) : s[i] \in Nat
BY LenProperties, ElementOfSeq DEF Bytes

LEMMA BytesConcat ==
    ASSUME NEW s \in Bytes, NEW t \in Bytes
    PROVE  /\ s ++ t \in Bytes /\ Len(s ++ t) = Len(s) + Len(t)
           /\ \A i \in 1 .. Len(s) : (s ++ t)[i] = s[i]
           /\ \A i \in 1 .. Len(t) : (s ++ t)[Len(s) + i] = t[i]
<1>1. /\ s ++ t \in Bytes /\ Len(s ++ t) = Len(s) + Len(t)
      /\ \A i \in 1 .. Len(s) + Len(t) :
            (s ++ t)[i] = IF i <= Len(s) THEN s[i] ELSE t[i - Len(s)]
    BY ConcatProperties DEF Bytes, ++
<1>2. Len(s) \in Nat /\ Len(t) \in Nat
    BY BytesLen
<1>3. PICK m \in Nat, n \in Nat : m = Len(s) /\ n = Len(t)
    BY <1>2
<1>4. PICK f : f = s ++ t
    OBVIOUS
<1>5. \A i \in 1 .. m + n : f[i] = IF i <= m THEN s[i] ELSE t[i - m]
    BY <1>1, <1>3, <1>4
<1>6. /\ \A i \in 1 .. m : f[i] = s[i]
      /\ \A i \in 1 .. n : f[m + i] = t[i]
  <2>1. ASSUME NEW i \in 1 .. n PROVE f[m + i] = t[i]
    <3>1. m + i \in 1 .. m + n /\ ~(m + i <= m) /\ (m + i) - m = i
        OBVIOUS
    <3> QED
        BY <1>5, <3>1
  <2> QED
      BY <1>5, <2>1
<1> QED
    BY <1>1, <1>3, <1>4, <1>6

LEMMA BytesAssociative ==
    ASSUME NEW s \in Bytes, NEW t \in Bytes, NEW u \in Bytes
    PROVE  (s ++ t) ++ u = s ++ (t ++ u)
BY ConcatAssociative DEF Bytes, ++

LEMMA BytesEmpty ==
    /\ <<>> \in Bytes /\ Len(<<>>) = 0
    /\ \A s \in Bytes : s ++ <<>> = s /\ <<>> ++ s = s
BY EmptySeq, ConcatEmptySeq DEF Bytes, ++

LEMMA BytesSingle ==
    ASSUME NEW k \in Nat
    PROVE  Byte(k) \in Bytes /\ Len(Byte(k)) = 1 /\ Byte(k)[1] = k
BY DEF Bytes, Byte

\* A part of a byte string.
LEMMA BytesSubSeq ==
    ASSUME NEW s \in Bytes, NEW m \in Nat \ {0}, NEW n \in Nat, n =< Len(s), m =< n + 1
    PROVE  /\ SubSeq(s, m, n) \in Bytes /\ Len(SubSeq(s, m, n)) = n + 1 - m
           /\ \A i \in 1 .. n + 1 - m : SubSeq(s, m, n)[i] = s[m - 1 + i]
<1>1. Len(s) \in Nat /\ \A i \in 1 .. Len(s) : s[i] \in Nat
    BY BytesLen
<1>2. \A i \in m .. n : s[i] \in Nat
    BY <1>1
<1>3. /\ SubSeq(s, m, n) \in Bytes
      /\ Len(SubSeq(s, m, n)) = IF m <= n THEN (n - m) + 1 ELSE 0
      /\ \A i \in 1 .. (n - m) + 1 : SubSeq(s, m, n)[i] = s[(m + i) - 1]
    BY <1>2, SubSeqProperties DEF Bytes
<1>4. PICK f : f = SubSeq(s, m, n)
    OBVIOUS
<1>5. Len(f) = n + 1 - m
    BY <1>3, <1>4
<1>6. \A i \in 1 .. n + 1 - m : f[i] = s[m - 1 + i]
  <2>1. \A i \in 1 .. n + 1 - m : i \in 1 .. (n - m) + 1 /\ (m + i) - 1 = m - 1 + i
      OBVIOUS
  <2> QED
      BY <1>3, <1>4, <2>1
<1> QED
    BY <1>3, <1>4, <1>5, <1>6

\* A field behind its length.
LEMMA LengthPrefixBytes ==
    ASSUME NEW a \in Bytes
    PROVE  /\ LengthPrefix(a) \in Bytes
           /\ Len(LengthPrefix(a)) = Len(a) + 1
           /\ LengthPrefix(a)[1] = Len(a)
           /\ \A i \in 1 .. Len(a) : LengthPrefix(a)[i + 1] = a[i]
<1>1. Len(a) \in Nat
    BY BytesLen
<1>2. Byte(Len(a)) \in Bytes /\ Len(Byte(Len(a))) = 1 /\ Byte(Len(a))[1] = Len(a)
    BY <1>1, BytesSingle
<1>3. PICK h \in Bytes : h = Byte(Len(a))
    BY <1>2
<1>4. /\ h ++ a \in Bytes /\ Len(h ++ a) = Len(h) + Len(a)
      /\ \A i \in 1 .. Len(h) : (h ++ a)[i] = h[i]
      /\ \A i \in 1 .. Len(a) : (h ++ a)[Len(h) + i] = a[i]
    BY BytesConcat
<1>5. PICK f : f = h ++ a /\ f = LengthPrefix(a)
    BY <1>3 DEF LengthPrefix, Byte, ++
<1>6. PICK m \in Nat : m = Len(a)
    BY <1>1
<1>7. Len(h) = 1 /\ h[1] = m
    BY <1>2, <1>3, <1>6
<1>8. /\ f \in Bytes /\ Len(f) = 1 + m /\ f[1] = m
      /\ \A i \in 1 .. m : f[1 + i] = a[i]
    BY <1>4, <1>5, <1>6, <1>7
<1>9. \A i \in 1 .. m : 1 + i = i + 1
    OBVIOUS
<1> QED
    BY <1>5, <1>6, <1>8, <1>9

\* What is joined to bytes of one length is cut apart in one way.
LEMMA JoinCancel ==
    ASSUME NEW a \in Bytes, NEW b \in Bytes, NEW s \in Bytes, NEW t \in Bytes,
           Len(a) = Len(b), a ++ s = b ++ t
    PROVE  a = b /\ s = t
<1>1. PICK f : f = a ++ s /\ f = b ++ t
    OBVIOUS
<1>2. PICK l \in Nat, m \in Nat, n \in Nat : l = Len(a) /\ m = Len(s) /\ n = Len(t)
    BY BytesLen
<1>3. /\ Len(f) = l + m /\ \A i \in 1 .. l : f[i] = a[i]
      /\ \A i \in 1 .. m : f[l + i] = s[i]
  <2>1. /\ Len(a ++ s) = Len(a) + Len(s)
        /\ \A i \in 1 .. Len(a) : (a ++ s)[i] = a[i]
        /\ \A i \in 1 .. Len(s) : (a ++ s)[Len(a) + i] = s[i]
      BY BytesConcat
  <2> QED
      BY <1>1, <1>2, <2>1
<1>4. /\ Len(f) = l + n /\ \A i \in 1 .. l : f[i] = b[i]
      /\ \A i \in 1 .. n : f[l + i] = t[i]
  <2>1. /\ Len(b ++ t) = Len(b) + Len(t)
        /\ \A i \in 1 .. Len(b) : (b ++ t)[i] = b[i]
        /\ \A i \in 1 .. Len(t) : (b ++ t)[Len(b) + i] = t[i]
      BY BytesConcat
  <2> QED
      BY <1>1, <1>2, <2>1
<1>5. m = n
    BY <1>3, <1>4
<1>6. \A i \in 1 .. l : a[i] = b[i]
    BY <1>3, <1>4
<1>7. \A i \in 1 .. m : s[i] = t[i]
    BY <1>3, <1>4, <1>5
<1> QED
    BY <1>2, <1>5, <1>6, <1>7, BytesEqual

\* A prefix is what something follows.
LEMMA PrefixMeans ==
    ASSUME NEW s \in Bytes, NEW t \in Bytes
    PROVE  IsPrefix(s, t) <=> \E u \in Bytes : t = s ++ u
<1>1. PICK m \in Nat, n \in Nat : m = Len(s) /\ n = Len(t)
    BY BytesLen
<1>2. ASSUME IsPrefix(s, t) PROVE \E u \in Bytes : t = s ++ u
  <2>1. m <= n /\ SubSeq(s, 1, m) = SubSeq(t, 1, m)
      BY <1>1, <1>2 DEF IsPrefix
  <2>2. SubSeq(s, 1, m) = s
      BY <1>1, SubSeqFull DEF Bytes
  <2>3. PICK u \in Bytes : /\ Len(u) = n + 1 - (m + 1)
                           /\ \A i \in 1 .. n + 1 - (m + 1) : u[i] = t[m + 1 - 1 + i]
    <3>1. m + 1 \in Nat \ {0} /\ n =< Len(t) /\ m + 1 =< n + 1
        BY <1>1, <2>1
    <3>2. /\ SubSeq(t, m + 1, n) \in Bytes
          /\ Len(SubSeq(t, m + 1, n)) = n + 1 - (m + 1)
          /\ \A i \in 1 .. n + 1 - (m + 1) : SubSeq(t, m + 1, n)[i] = t[m + 1 - 1 + i]
        BY <3>1, BytesSubSeq
    <3> QED
        BY <3>2
  <2>4. /\ SubSeq(t, 1, m) \in Bytes
        /\ \A i \in 1 .. m + 1 - 1 : SubSeq(t, 1, m)[i] = t[1 - 1 + i]
      BY <1>1, <2>1, BytesSubSeq
  <2>5. \A i \in 1 .. m : s[i] = t[i]
    <3>1. \A i \in 1 .. m : i \in 1 .. m + 1 - 1 /\ 1 - 1 + i = i
        OBVIOUS
    <3> QED
        BY <2>1, <2>2, <2>4, <3>1
  <2>6. /\ s ++ u \in Bytes /\ Len(s ++ u) = m + Len(u)
        /\ \A i \in 1 .. m : (s ++ u)[i] = s[i]
        /\ \A i \in 1 .. Len(u) : (s ++ u)[m + i] = u[i]
      BY <1>1, BytesConcat
  <2>7. PICK f : f = s ++ u
      OBVIOUS
  <2>8. \A i \in 1 .. n : f[i] = t[i]
    <3>1. ASSUME NEW i \in 1 .. n, i =< m PROVE f[i] = t[i]
        BY <2>5, <2>6, <2>7, <3>1
    <3>2. ASSUME NEW i \in 1 .. n, ~(i =< m) PROVE f[i] = t[i]
      <4>1. /\ i - m \in 1 .. n + 1 - (m + 1)
            /\ m + (i - m) = i /\ m + 1 - 1 + (i - m) = i
          BY <2>1, <3>2
      <4>2. f[m + (i - m)] = u[i - m]
          BY <2>3, <2>6, <2>7, <4>1
      <4>3. u[i - m] = t[m + 1 - 1 + (i - m)]
          BY <2>3, <4>1
      <4> QED
          BY <4>1, <4>2, <4>3
    <3> QED
        BY <3>1, <3>2
  <2>9. Len(f) = n
      BY <2>1, <2>3, <2>6, <2>7
  <2>10. t = f
      BY <1>1, <2>6, <2>7, <2>8, <2>9, BytesEqual
  <2> QED
      BY <2>7, <2>10
<1>3. ASSUME NEW u \in Bytes, t = s ++ u PROVE IsPrefix(s, t)
  <2>1. Len(u) \in Nat /\ n = m + Len(u) /\ \A i \in 1 .. m : t[i] = s[i]
      BY <1>1, <1>3, BytesConcat, BytesLen
  <2>2. m =< n
      BY <2>1
  <2>3. /\ SubSeq(t, 1, m) \in Bytes /\ Len(SubSeq(t, 1, m)) = m + 1 - 1
        /\ \A i \in 1 .. m + 1 - 1 : SubSeq(t, 1, m)[i] = t[1 - 1 + i]
      BY <1>1, <2>2, BytesSubSeq
  <2>4. PICK f \in Bytes : f = SubSeq(t, 1, m)
      BY <2>3
  <2>5. Len(f) = m /\ \A i \in 1 .. m : f[i] = t[i]
      BY <2>3, <2>4
  <2>6. f = s
      BY <1>1, <2>1, <2>5, BytesEqual
  <2>7. SubSeq(s, 1, m) = s
      BY <1>1, SubSeqFull DEF Bytes
  <2> QED
      BY <1>1, <2>2, <2>4, <2>6, <2>7 DEF IsPrefix
<1> QED
    BY <1>2, <1>3

\* Two fields behind their lengths begin the same bytes only if they are the same field.
LEMMA FrameCancel ==
    ASSUME NEW a \in Bytes, NEW b \in Bytes, NEW s \in Bytes, NEW t \in Bytes,
           LengthPrefix(a) ++ s = LengthPrefix(b) ++ t
    PROVE  a = b /\ s = t
<1>1. PICK m \in Nat, n \in Nat : m = Len(a) /\ n = Len(b)
    BY BytesLen
<1>2. PICK x \in Bytes, y \in Bytes : x = LengthPrefix(a) /\ y = LengthPrefix(b)
    BY LengthPrefixBytes
<1>3. /\ Len(x) = m + 1 /\ x[1] = m /\ \A i \in 1 .. m : x[i + 1] = a[i]
      /\ Len(y) = n + 1 /\ y[1] = n /\ \A i \in 1 .. n : y[i + 1] = b[i]
    BY <1>1, <1>2, LengthPrefixBytes
<1>4. (x ++ s)[1] = x[1] /\ (y ++ t)[1] = y[1]
  <2>1. /\ \A i \in 1 .. Len(x) : (x ++ s)[i] = x[i]
        /\ \A i \in 1 .. Len(y) : (y ++ t)[i] = y[i]
      BY BytesConcat
  <2> QED
      BY <1>3, <2>1
<1>5. m = n
    BY <1>2, <1>3, <1>4
<1>6. x = y /\ s = t
  <2>1. Len(x) = Len(y) /\ x ++ s = y ++ t
      BY <1>2, <1>3, <1>5
  <2> QED
      BY <2>1, JoinCancel
<1>7. \A i \in 1 .. m : a[i] = b[i]
    BY <1>3, <1>5, <1>6
<1> QED
    BY <1>1, <1>5, <1>6, <1>7, BytesEqual

\* So do two first bytes.
LEMMA HeadBytes ==
    ASSUME NEW k \in Nat, NEW s \in Bytes
    PROVE  /\ Byte(k) ++ s \in Bytes
           /\ Len(Byte(k) ++ s) = 1 + Len(s) /\ (Byte(k) ++ s)[1] = k
           /\ \A i \in 1 .. Len(s) : (Byte(k) ++ s)[1 + i] = s[i]
<1>1. PICK h \in Bytes : h = Byte(k) /\ Len(h) = 1 /\ h[1] = k
    BY BytesSingle
<1>2. /\ h ++ s \in Bytes /\ Len(h ++ s) = Len(h) + Len(s)
      /\ \A i \in 1 .. Len(h) : (h ++ s)[i] = h[i]
      /\ \A i \in 1 .. Len(s) : (h ++ s)[Len(h) + i] = s[i]
    BY BytesConcat
<1> QED
    BY <1>1, <1>2

LEMMA HeadCancel ==
    ASSUME NEW k \in Nat, NEW l \in Nat, NEW s \in Bytes, NEW t \in Bytes,
           Byte(k) ++ s = Byte(l) ++ t
    PROVE  k = l /\ s = t
<1>1. k = l
  <2>1. (Byte(k) ++ s)[1] = k /\ (Byte(l) ++ t)[1] = l
      BY HeadBytes
  <2> QED
      BY <2>1
<1>2. PICK h \in Bytes : h = Byte(k)
    BY BytesSingle
<1> QED
    BY <1>1, <1>2, JoinCancel

\* The length makes fields differ even at the end of a key.
LEMMA LengthPrefixInjective ==
    ASSUME NEW a \in Bytes, NEW b \in Bytes, LengthPrefix(a) = LengthPrefix(b)
    PROVE  a = b
<1>1. LengthPrefix(a) ++ <<>> = LengthPrefix(b) ++ <<>>
    OBVIOUS
<1> QED
    BY <1>1, FrameCancel, BytesEmpty

\* A number in the bytes of fixed length.
LEMMA FixedWidthBytes ==
    ASSUME NEW t \in Nat
    PROVE  /\ FixedWidth(t) \in Bytes /\ Len(FixedWidth(t)) = 2
           /\ t \div 2 \in Nat /\ t % 2 \in Nat /\ t = 2 * (t \div 2) + (t % 2)
           /\ FixedWidth(t) = Byte(t \div 2) ++ (Byte(t % 2) ++ <<>>)
           /\ ParseFixedWidth(FixedWidth(t)) = t
<1>1. PICK x \in Nat, y \in Nat : x = t \div 2 /\ y = t % 2 /\ t = 2 * x + y
  <2>1. t \div 2 \in Nat /\ t % 2 \in Nat /\ t = 2 * (t \div 2) + (t % 2)
      OBVIOUS
  <2> QED
      BY <2>1
<1>2. FixedWidth(t) = <<x, y>>
    BY <1>1 DEF FixedWidth
<1>3. <<x, y>> \in Bytes /\ Len(<<x, y>>) = 2 /\ <<x, y>>[1] = x /\ <<x, y>>[2] = y
    BY DEF Bytes
<1>4. <<x, y>> = Byte(x) ++ (Byte(y) ++ <<>>)
  <2>1. Byte(y) \in Bytes /\ Byte(y) ++ <<>> = Byte(y) /\ Len(Byte(y)) = 1 /\ Byte(y)[1] = y
      BY BytesSingle, BytesEmpty
  <2>2. PICK s \in Bytes : s = Byte(y) ++ <<>> /\ Len(s) = 1 /\ s[1] = y
      BY <2>1
  <2>3. PICK f \in Bytes : f = Byte(x) ++ s /\ Len(f) = 1 + 1 /\ f[1] = x
                           /\ \A i \in 1 .. 1 : f[1 + i] = s[i]
    <3>1. /\ Byte(x) ++ s \in Bytes /\ Len(Byte(x) ++ s) = 1 + Len(s)
          /\ (Byte(x) ++ s)[1] = x
          /\ \A i \in 1 .. Len(s) : (Byte(x) ++ s)[1 + i] = s[i]
        BY HeadBytes
    <3> QED
        BY <2>2, <3>1
  <2>4. f[1 + 1] = y
      BY <2>2, <2>3
  <2>5. PICK g \in Bytes : g = <<x, y>> /\ Len(g) = 2 /\ g[1] = x /\ g[2] = y
      BY <1>3
  <2>6. \A i \in 1 .. 2 : g[i] = f[i]
      BY <2>3, <2>4, <2>5
  <2>7. g = f
      BY <2>3, <2>5, <2>6, BytesEqual
  <2> QED
      BY <2>2, <2>3, <2>5, <2>7
<1> QED
    BY <1>1, <1>2, <1>3, <1>4 DEF ParseFixedWidth

LEMMA FixedWidthInjective ==
    ASSUME NEW t \in Nat, NEW u \in Nat, FixedWidth(t) = FixedWidth(u)
    PROVE  t = u
BY FixedWidthBytes

\* A denomination with its zero byte.
LEMMA DenomBytes ==
    ASSUME NEW n \in Bytes
    PROVE  /\ CreateDenomAddressPrefix(n) \in Bytes
           /\ Len(CreateDenomAddressPrefix(n)) = Len(n) + 1
           /\ SubSeq(CreateDenomAddressPrefix(n), 1, Len(CreateDenomAddressPrefix(n)) - 1) = n
<1>1. PICK m \in Nat : m = Len(n)
    BY BytesLen
<1>2. PICK f \in Bytes : /\ f = CreateDenomAddressPrefix(n) /\ Len(f) = m + 1
                         /\ \A i \in 1 .. m : f[i] = n[i]
  <2>1. /\ Append(n, 0) \in Bytes /\ Len(Append(n, 0)) = Len(n) + 1
        /\ \A i \in 1 .. Len(n) : Append(n, 0)[i] = n[i]
      BY AppendProperties, 0 \in Nat DEF Bytes
  <2> QED
      BY <1>1, <2>1 DEF CreateDenomAddressPrefix
<1>3. /\ SubSeq(f, 1, m) \in Bytes /\ Len(SubSeq(f, 1, m)) = m + 1 - 1
      /\ \A i \in 1 .. m + 1 - 1 : SubSeq(f, 1, m)[i] = f[1 - 1 + i]
    BY <1>2, BytesSubSeq
<1>4. PICK g \in Bytes : g = SubSeq(f, 1, m)
    BY <1>3
<1>5. Len(g) = m /\ \A i \in 1 .. m : g[i] = n[i]
    BY <1>2, <1>3, <1>4
<1>6. g = n
    BY <1>1, <1>5, BytesEqual
<1>7. Len(f) - 1 = m
    BY <1>2
<1> QED
    BY <1>1, <1>2, <1>4, <1>6, <1>7

LEMMA DenomInjective ==
    ASSUME NEW n \in Bytes, NEW m \in Bytes,
           CreateDenomAddressPrefix(n) = CreateDenomAddressPrefix(m)
    PROVE  n = m
BY DenomBytes

\* Keys are joined from the left; their fields are told apart from the right.
LEMMA Join3 ==
    ASSUME NEW a \in Bytes, NEW b \in Bytes, NEW c \in Bytes
    PROVE  (a ++ b) ++ c = a ++ (b ++ c) /\ (a ++ b) ++ c \in Bytes /\ b ++ c \in Bytes
BY BytesAssociative, BytesConcat

LEMMA Join4 ==
    ASSUME NEW a \in Bytes, NEW b \in Bytes, NEW c \in Bytes, NEW d \in Bytes
    PROVE  /\ ((a ++ b) ++ c) ++ d = a ++ (b ++ (c ++ d))
           /\ ((a ++ b) ++ c) ++ d \in Bytes
<1>1. PICK ab \in Bytes : ab = a ++ b
    BY BytesConcat
<1>2. PICK cd \in Bytes : cd = c ++ d
    BY BytesConcat
<1>3. (ab ++ c) ++ d = ab ++ cd /\ (ab ++ c) ++ d \in Bytes
    BY <1>2, Join3
<1>4. (a ++ b) ++ cd = a ++ (b ++ cd)
    BY Join3
<1> QED
    BY <1>1, <1>2, <1>3, <1>4

LEMMA Join5 ==
    ASSUME NEW a \in Bytes, NEW b \in Bytes, NEW c \in Bytes, NEW d \in Bytes, NEW e \in Bytes
    PROVE  /\ (((a ++ b) ++ c) ++ d) ++ e = a ++ (b ++ (c ++ (d ++ e)))
           /\ (((a ++ b) ++ c) ++ d) ++ e \in Bytes
<1>1. PICK ab \in Bytes : ab = a ++ b
    BY BytesConcat
<1>2. PICK cde \in Bytes : cde = c ++ (d ++ e)
    BY Join3, BytesConcat
<1>3. ((ab ++ c) ++ d) ++ e = ab ++ cde /\ ((ab ++ c) ++ d) ++ e \in Bytes
    BY <1>2, Join4
<1>4. (a ++ b) ++ cde = a ++ (b ++ cde)
    BY Join3
<1> QED
    BY <1>1, <1>2, <1>3, <1>4

-----------------------------------------------------------------------------
(* Each key: the byte of its kind and its fields. *)

LEMMA RedelegationQueueForm ==
    ASSUME NEW ct \in Nat
    PROVE  /\ GetRedelegationQueueKey(ct) \in Bytes
           /\ GetRedelegationQueueKey(ct) = Byte(35) ++ FixedWidth(ct)
<1>1. PICK k \in Bytes, a \in Bytes :
            /\ k = Byte(35)
            /\ a = FixedWidth(ct)
    BY BytesSingle, LengthPrefixBytes, FixedWidthBytes, DenomBytes
<1>2. GetRedelegationQueueKey(ct) = k ++ a
    BY <1>1
    DEF GetRedelegationQueueKey, RedelegationQueueKey, ++, Byte
<1>3. k ++ a \in Bytes
    BY BytesConcat
<1> QED
    BY <1>1, <1>2, <1>3

LEMMA UndelegationQueueForm ==
    ASSUME NEW ct \in Nat, NEW d \in Bytes
    PROVE  /\ GetUndelegationQueueKey(ct, d) \in Bytes
           /\ GetUndelegationQueueKey(ct, d) =
                  Byte(36) ++ (LengthPrefix(FixedWidth(ct)) ++ LengthPrefix(d))
<1>1. PICK k \in Bytes, a \in Bytes, b \in Bytes :
            /\ k = Byte(36)
            /\ a = LengthPrefix(FixedWidth(ct))
            /\ b = LengthPrefix(d)
    BY BytesSingle, LengthPrefixBytes, FixedWidthBytes, DenomBytes
<1>2. GetUndelegationQueueKey(ct, d) = (k ++ a) ++ b
    BY <1>1
    DEF GetUndelegationQueueKey, GetUndelegationQueueKeyByTime, UndelegationQueueKey, ++, Byte
<1>3. /\ (k ++ a) ++ b = k ++ (a ++ b)
      /\ (k ++ a) ++ b \in Bytes
    BY Join3
<1> QED
    BY <1>1, <1>2, <1>3

LEMMA InfoForm ==
    ASSUME NEW v \in Bytes
    PROVE  /\ GetAllianceValidatorInfoKey(v) \in Bytes
           /\ GetAllianceValidatorInfoKey(v) = Byte(18) ++ LengthPrefix(v)
<1>1. PICK k \in Bytes, a \in Bytes :
            /\ k = Byte(18)
            /\ a = LengthPrefix(v)
    BY BytesSingle, LengthPrefixBytes, FixedWidthBytes, DenomBytes
<1>2. GetAllianceValidatorInfoKey(v) = k ++ a
    BY <1>1
    DEF GetAllianceValidatorInfoKey, ValidatorInfoKey, ++, Byte
<1>3. k ++ a \in Bytes
    BY BytesConcat
<1> QED
    BY <1>1, <1>2, <1>3

LEMMA DelegationForm ==
    ASSUME NEW d \in Bytes, NEW v \in Bytes, NEW n \in Bytes
    PROVE  /\ GetDelegationKey(d, v, n) \in Bytes
           /\ GetDelegationKey(d, v, n) =
                  Byte(33) ++ (LengthPrefix(d) ++ (LengthPrefix(v)
                      ++ LengthPrefix(CreateDenomAddressPrefix(n))))
<1>1. PICK k \in Bytes, a \in Bytes, b \in Bytes, c \in Bytes :
            /\ k = Byte(33)
            /\ a = LengthPrefix(d)
            /\ b = LengthPrefix(v)
            /\ c = LengthPrefix(CreateDenomAddressPrefix(n))
    BY BytesSingle, LengthPrefixBytes, FixedWidthBytes, DenomBytes
<1>2. GetDelegationKey(d, v, n) = ((k ++ a) ++ b) ++ c
    BY <1>1
    DEF GetDelegationKey, GetDelegationsKeyForAllDenoms,
       GetDelegationsKey, DelegationKey, ++, Byte
<1>3. /\ ((k ++ a) ++ b) ++ c = k ++ (a ++ (b ++ c))
      /\ ((k ++ a) ++ b) ++ c \in Bytes
    BY Join4
<1> QED
    BY <1>1, <1>2, <1>3

LEMMA SnapshotForm ==
    ASSUME NEW n \in Bytes, NEW v \in Bytes, NEW h \in Nat
    PROVE  /\ GetRewardWeightChangeSnapshotKey(n, v, h) \in Bytes
           /\ GetRewardWeightChangeSnapshotKey(n, v, h) =
                  Byte(20) ++ (LengthPrefix(CreateDenomAddressPrefix(n))
                      ++ (LengthPrefix(v) ++ FixedWidth(h)))
<1>1. PICK k \in Bytes, a \in Bytes, b \in Bytes, c \in Bytes :
            /\ k = Byte(20)
            /\ a = LengthPrefix(CreateDenomAddressPrefix(n))
            /\ b = LengthPrefix(v)
            /\ c = FixedWidth(h)
    BY BytesSingle, LengthPrefixBytes, FixedWidthBytes, DenomBytes
<1>2. GetRewardWeightChangeSnapshotKey(n, v, h) = ((k ++ a) ++ b) ++ c
    BY <1>1
    DEF GetRewardWeightChangeSnapshotKey, RewardWeightChangeSnapshotKey, ++, Byte
<1>3. /\ ((k ++ a) ++ b) ++ c = k ++ (a ++ (b ++ c))
      /\ ((k ++ a) ++ b) ++ c \in Bytes
    BY Join4
<1> QED
    BY <1>1, <1>2, <1>3

LEMMA RedelegationForm ==
    ASSUME NEW d \in Bytes, NEW n \in Bytes, NEW dst \in Bytes, NEW ct \in Nat
    PROVE  /\ GetRedelegationKey(d, n, dst, ct) \in Bytes
           /\ GetRedelegationKey(d, n, dst, ct) =
                  Byte(34) ++ (LengthPrefix(d)
                      ++ (LengthPrefix(CreateDenomAddressPrefix(n))
                          ++ (LengthPrefix(dst) ++ FixedWidth(ct))))
<1>1. PICK k \in Bytes, a \in Bytes, b \in Bytes, c \in Bytes, e \in Bytes :
            /\ k = Byte(34)
            /\ a = LengthPrefix(d)
            /\ b = LengthPrefix(CreateDenomAddressPrefix(n))
            /\ c = LengthPrefix(dst)
            /\ e = FixedWidth(ct)
    BY BytesSingle, LengthPrefixBytes, FixedWidthBytes, DenomBytes
<1>2. GetRedelegationKey(d, n, dst, ct) = (((k ++ a) ++ b) ++ c) ++ e
    BY <1>1
    DEF GetRedelegationKey, GetRedelegationsKey, RedelegationKey, ++, Byte
<1>3. /\ (((k ++ a) ++ b) ++ c) ++ e = k ++ (a ++ (b ++ (c ++ e)))
      /\ (((k ++ a) ++ b) ++ c) ++ e \in Bytes
    BY Join5
<1> QED
    BY <1>1, <1>2, <1>3

LEMMA UnbondingIndexForm ==
    ASSUME NEW v \in Bytes, NEW ct \in Nat, NEW n \in Bytes, NEW d \in Bytes
    PROVE  /\ GetUnbondingIndexKey(v, ct, n, d) \in Bytes
           /\ GetUnbondingIndexKey(v, ct, n, d) =
                  Byte(50) ++ (LengthPrefix(v) ++ (LengthPrefix(FixedWidth(ct))
                      ++ (LengthPrefix(CreateDenomAddressPrefix(n)) ++ LengthPrefix(d))))
<1>1. PICK k \in Bytes, a \in Bytes, b \in Bytes, c \in Bytes, e \in Bytes :
            /\ k = Byte(50)
            /\ a = LengthPrefix(v)
            /\ b = LengthPrefix(FixedWidth(ct))
            /\ c = LengthPrefix(CreateDenomAddressPrefix(n))
            /\ e = LengthPrefix(d)
    BY BytesSingle, LengthPrefixBytes, FixedWidthBytes, DenomBytes
<1>2. GetUnbondingIndexKey(v, ct, n, d) = (((k ++ a) ++ b) ++ c) ++ e
    BY <1>1
    DEF GetUnbondingIndexKey, GetUndelegationsIndexOrderedByValidatorKey,
       UndelegationByValidatorIndexKey, ++, Byte
<1>3. /\ (((k ++ a) ++ b) ++ c) ++ e = k ++ (a ++ (b ++ (c ++ e)))
      /\ (((k ++ a) ++ b) ++ c) ++ e \in Bytes
    BY Join5
<1> QED
    BY <1>1, <1>2, <1>3

LEMMA RedelegationIndexForm ==
    ASSUME NEW src \in Bytes, NEW ct \in Nat, NEW n \in Bytes,
           NEW dst \in Bytes, NEW d \in Bytes
    PROVE  /\ GetRedelegationIndexKey(src, ct, n, dst, d) \in Bytes
           /\ GetRedelegationIndexKey(src, ct, n, dst, d) =
                  Byte(49) ++ (LengthPrefix(src) ++ (LengthPrefix(FixedWidth(ct))
                      ++ (LengthPrefix(CreateDenomAddressPrefix(n))
                          ++ (LengthPrefix(dst) ++ LengthPrefix(d)))))
<1>1. PICK k \in Bytes, a \in Bytes, b \in Bytes, c \in Bytes, e \in Bytes, f \in Bytes :
            /\ k = Byte(49)
            /\ a = LengthPrefix(src)
            /\ b = LengthPrefix(FixedWidth(ct))
            /\ c = LengthPrefix(CreateDenomAddressPrefix(n))
            /\ e = LengthPrefix(dst)
            /\ f = LengthPrefix(d)
    BY BytesSingle, LengthPrefixBytes, FixedWidthBytes, DenomBytes
<1>2. GetRedelegationIndexKey(src, ct, n, dst, d) = ((((k ++ a) ++ b) ++ c) ++ e) ++ f
    BY <1>1
    DEF GetRedelegationIndexKey, GetRedelegationsIndexOrderedByValidatorKey,
       RedelegationByValidatorIndexKey, ++, Byte
<1>3. /\ ((((k ++ a) ++ b) ++ c) ++ e) ++ f = k ++ (a ++ (b ++ (c ++ (e ++ f))))
      /\ ((((k ++ a) ++ b) ++ c) ++ e) ++ f \in Bytes
  <2>1. PICK ka \in Bytes : ka = k ++ a
      BY BytesConcat
  <2>2. PICK bcef \in Bytes : bcef = b ++ (c ++ (e ++ f))
      BY Join3, BytesConcat
  <2>3. (((ka ++ b) ++ c) ++ e) ++ f = ka ++ bcef /\ (((ka ++ b) ++ c) ++ e) ++ f \in Bytes
      BY <2>2, Join5
  <2>4. (k ++ a) ++ bcef = k ++ (a ++ bcef)
      BY Join3
  <2> QED
      BY <2>1, <2>2, <2>3, <2>4
<1> QED
    BY <1>1, <1>2, <1>3

-----------------------------------------------------------------------------
(* Parsing: each length leads to the next. *)

OffsetEquation(key, i, g) ==
    g = [j \in 1 .. i |-> IF j = 1 THEN 2 ELSE g[j - 1] + 1 + key[g[j - 1]]]
Offsets(key, i) == CHOOSE g : OffsetEquation(key, i, g)

LEMMA OffsetIsLast ==
    ASSUME NEW key, NEW i
    PROVE  Offset(key, i) = Offsets(key, i)[i]
BY DEF Offset, Offsets, OffsetEquation

LEMMA OffsetsExist ==
    ASSUME NEW key, NEW i \in Nat
    PROVE  OffsetEquation(key, i, Offsets(key, i))
<1> DEFINE N == {n \in Nat : \E g : OffsetEquation(key, n, g)}
<1>1. 0 \in N
  <2>1. OffsetEquation(key, 0, [j \in 1 .. 0 |-> 2])
      BY DEF OffsetEquation
  <2> QED
      BY <2>1
<1>2. ASSUME NEW n \in Nat, n \in N PROVE n + 1 \in N
  <2>1. PICK g : OffsetEquation(key, n, g)
      BY <1>2
  <2>2. PICK next : next = IF n = 0 THEN 2 ELSE g[n] + 1 + key[g[n]]
      OBVIOUS
  <2> DEFINE h == [j \in 1 .. n + 1 |-> IF j = n + 1 THEN next ELSE g[j]]
  <2>3. ASSUME NEW j \in 1 .. n + 1
        PROVE  h[j] = IF j = 1 THEN 2 ELSE h[j - 1] + 1 + key[h[j - 1]]
    <3>1. CASE j = n + 1
      <4>1. h[j] = next /\ (j # 1 => h[j - 1] = g[n] /\ n # 0) /\ (j = 1 => n = 0)
          BY <3>1
      <4> QED
          BY <2>2, <4>1
    <3>2. CASE j # n + 1
      <4>1. j \in 1 .. n /\ h[j] = g[j] /\ (j # 1 => h[j - 1] = g[j - 1])
          BY <3>2
      <4>2. g[j] = IF j = 1 THEN 2 ELSE g[j - 1] + 1 + key[g[j - 1]]
          BY <2>1, <4>1 DEF OffsetEquation
      <4> QED
          BY <4>1, <4>2
    <3> QED
        BY <3>1, <3>2
  <2>4. OffsetEquation(key, n + 1, h)
      BY <2>3 DEF OffsetEquation
  <2> QED
      BY <2>4
<1>3. Nat \subseteq N
  <2> HIDE DEF N
  <2> QED BY <1>1, <1>2, NatSetInduction
<1> QED
    BY <1>3 DEF Offsets

\* Each length stands behind the field before it.
LEMMA OffsetNext ==
    ASSUME NEW key
    PROVE  /\ Offset(key, 1) = 2
           /\ \A i \in Nat \ {0} :
                 Offset(key, i + 1) = Offset(key, i) + 1 + key[Offset(key, i)]
<1>1. Offset(key, 1) = 2
  <2>1. OffsetEquation(key, 1, Offsets(key, 1))
      BY OffsetsExist
  <2>2. Offsets(key, 1)[1] = 2
      BY <2>1 DEF OffsetEquation
  <2> QED
      BY <2>2, OffsetIsLast
<1>2. ASSUME NEW i \in Nat \ {0}
      PROVE  Offset(key, i + 1) = Offset(key, i) + 1 + key[Offset(key, i)]
  <2> DEFINE g == Offsets(key, i)
             h == Offsets(key, i + 1)
             N == {n \in Nat : n \in 1 .. i => g[n] = h[n]}
  <2>1. \A j \in 1 .. i : g[j] = IF j = 1 THEN 2 ELSE g[j - 1] + 1 + key[g[j - 1]]
    <3>1. OffsetEquation(key, i, g)
        BY OffsetsExist
    <3> HIDE DEF g
    <3> QED BY <3>1 DEF OffsetEquation
  <2>2. \A j \in 1 .. i + 1 : h[j] = IF j = 1 THEN 2 ELSE h[j - 1] + 1 + key[h[j - 1]]
    <3>1. OffsetEquation(key, i + 1, h)
        BY OffsetsExist
    <3> HIDE DEF h
    <3> QED BY <3>1 DEF OffsetEquation
  <2> HIDE DEF g, h
  <2>3. 0 \in N
      OBVIOUS
  <2>4. ASSUME NEW n \in Nat, n \in N PROVE n + 1 \in N
    <3> SUFFICES ASSUME n + 1 \in 1 .. i PROVE g[n + 1] = h[n + 1]
        OBVIOUS
    <3>1. CASE n = 0
        BY <2>1, <2>2, <3>1
    <3>2. CASE n # 0
      <4>1. n \in 1 .. i /\ n + 1 \in 1 .. i + 1 /\ (n + 1) - 1 = n /\ n + 1 # 1
          BY <3>2
      <4>2. g[n] = h[n]
          BY <2>4, <4>1
      <4> QED
          BY <2>1, <2>2, <4>1, <4>2
    <3> QED
        BY <3>1, <3>2
  <2>5. Nat \subseteq N
    <3> HIDE DEF N
    <3> QED BY <2>3, <2>4, NatSetInduction
  <2>6. g[i] = h[i]
      BY <2>5
  <2>7. i + 1 \in 1 .. i + 1 /\ (i + 1) - 1 = i /\ i + 1 # 1
      OBVIOUS
  <2>8. h[i + 1] = h[i] + 1 + key[h[i]]
      BY <2>2, <2>7
  <2> QED
      BY <2>6, <2>8, OffsetIsLast DEF g, h
<1> QED
    BY <1>1, <1>2

\* The bytes s are what is left of the key where the i-th field begins.
Remains(key, i, s) ==
    /\ s \in Bytes
    /\ \E u \in Bytes : key = u ++ s /\ Offset(key, i) = Len(u) + 1

LEMMA RemainsFirst ==
    ASSUME NEW k \in Nat, NEW s \in Bytes, NEW key, key = Byte(k) ++ s
    PROVE  key[1] = k /\ Remains(key, 1, s)
<1>1. Byte(k) \in Bytes /\ Len(Byte(k)) = 1
    BY BytesSingle
<1>2. Offset(key, 1) = 1 + 1
    BY OffsetNext
<1>3. (Byte(k) ++ s)[1] = k
    BY HeadBytes
<1> QED
    BY <1>1, <1>2, <1>3 DEF Remains

LEMMA RemainsNext ==
    ASSUME NEW key, NEW i \in Nat \ {0}, NEW a \in Bytes, NEW s \in Bytes,
           Remains(key, i, LengthPrefix(a) ++ s)
    PROVE  Field(key, i) = a /\ Remains(key, i + 1, s)
<1>1. PICK u \in Bytes : key = u ++ (LengthPrefix(a) ++ s) /\ Offset(key, i) = Len(u) + 1
    BY DEF Remains
<1>2. PICK x \in Bytes : x = LengthPrefix(a)
    BY LengthPrefixBytes
<1>3. PICK m \in Nat, n \in Nat, l \in Nat : m = Len(u) /\ n = Len(a) /\ l = Len(s)
    BY BytesLen
<1>4. Len(x) = n + 1 /\ x[1] = n /\ \A j \in 1 .. n : x[j + 1] = a[j]
    BY <1>2, <1>3, LengthPrefixBytes
<1>5. PICK y \in Bytes : y = x ++ s /\ Len(y) = n + 1 + l /\ \A j \in 1 .. n + 1 : y[j] = x[j]
  <2>1. /\ x ++ s \in Bytes /\ Len(x ++ s) = Len(x) + Len(s)
        /\ \A j \in 1 .. Len(x) : (x ++ s)[j] = x[j]
      BY BytesConcat
  <2> QED
      BY <1>3, <1>4, <2>1
<1>6. /\ key = u ++ y /\ key \in Bytes /\ Len(key) = m + (n + 1 + l)
      /\ \A j \in 1 .. n + 1 + l : key[m + j] = y[j]
  <2>1. /\ u ++ y \in Bytes /\ Len(u ++ y) = Len(u) + Len(y)
        /\ \A j \in 1 .. Len(y) : (u ++ y)[Len(u) + j] = y[j]
      BY BytesConcat
  <2>2. key = u ++ y
      BY <1>1, <1>2, <1>5
  <2> QED
      BY <1>3, <1>5, <2>1, <2>2
<1>7. key[m + 1] = n
    BY <1>4, <1>5, <1>6
<1>8. \A j \in 1 .. n : key[m + 1 + j] = a[j]
  <2>1. ASSUME NEW j \in 1 .. n PROVE key[m + 1 + j] = a[j]
    <3>1. j + 1 \in 1 .. n + 1 /\ j + 1 \in 1 .. n + 1 + l /\ m + (j + 1) = m + 1 + j
        OBVIOUS
    <3>2. key[m + (j + 1)] = y[j + 1] /\ y[j + 1] = x[j + 1] /\ x[j + 1] = a[j]
        BY <1>4, <1>5, <1>6, <3>1
    <3> QED
        BY <3>1, <3>2
  <2> QED
      BY <2>1
<1>9. Field(key, i) = a
  <2>1. Field(key, i) = SubSeq(key, m + 2, m + 1 + n)
    <3>1. Offset(key, i) + 1 = m + 2 /\ Offset(key, i) + key[Offset(key, i)] = m + 1 + n
        BY <1>1, <1>3, <1>7
    <3> QED
        BY <3>1 DEF Field
  <2>2. /\ SubSeq(key, m + 2, m + 1 + n) \in Bytes
        /\ Len(SubSeq(key, m + 2, m + 1 + n)) = m + 1 + n + 1 - (m + 2)
        /\ \A j \in 1 .. m + 1 + n + 1 - (m + 2) :
              SubSeq(key, m + 2, m + 1 + n)[j] = key[m + 2 - 1 + j]
    <3>1. /\ m + 2 \in Nat \ {0} /\ m + 1 + n \in Nat /\ m + 1 + n =< Len(key)
          /\ m + 2 =< m + 1 + n + 1
        BY <1>6
    <3> QED
        BY <1>6, <3>1, BytesSubSeq
  <2>3. PICK f \in Bytes : f = SubSeq(key, m + 2, m + 1 + n)
      BY <2>2
  <2>4. m + 1 + n + 1 - (m + 2) = n /\ \A j \in 1 .. n : m + 2 - 1 + j = m + 1 + j
      OBVIOUS
  <2>5. Len(f) = n /\ \A j \in 1 .. n : f[j] = a[j]
      BY <1>8, <2>2, <2>3, <2>4
  <2>6. f = a
      BY <1>3, <2>5, BytesEqual
  <2> QED
      BY <2>1, <2>3, <2>6
<1>10. Remains(key, i + 1, s)
  <2>1. PICK w \in Bytes : w = u ++ x /\ Len(w) = m + (n + 1)
    <3>1. u ++ x \in Bytes /\ Len(u ++ x) = Len(u) + Len(x)
        BY BytesConcat
    <3> QED
        BY <1>3, <1>4, <3>1
  <2>2. key = w ++ s
      BY <1>5, <1>6, <2>1, BytesAssociative
  <2>3. Offset(key, i + 1) = m + 1 + 1 + n
      BY <1>1, <1>3, <1>7, OffsetNext
  <2> QED
      BY <2>1, <2>2, <2>3 DEF Remains
<1> QED
    BY <1>9, <1>10

LEMMA RemainsAfter ==
    ASSUME NEW key, NEW i \in Nat, NEW s, Remains(key, i + 1, s)
    PROVE  After(key, i) = s
<1>1. PICK u \in Bytes : s \in Bytes /\ key = u ++ s /\ Offset(key, i + 1) = Len(u) + 1
    BY DEF Remains
<1>2. PICK m \in Nat, n \in Nat : m = Len(u) /\ n = Len(s)
    BY <1>1, BytesLen
<1>3. key \in Bytes /\ Len(key) = m + n /\ \A j \in 1 .. n : key[m + j] = s[j]
  <2>1. /\ u ++ s \in Bytes /\ Len(u ++ s) = Len(u) + Len(s)
        /\ \A j \in 1 .. Len(s) : (u ++ s)[Len(u) + j] = s[j]
      BY <1>1, BytesConcat
  <2> QED
      BY <1>1, <1>2, <2>1
<1>4. After(key, i) = SubSeq(key, m + 1, m + n)
    BY <1>1, <1>2, <1>3 DEF After
<1>5. /\ SubSeq(key, m + 1, m + n) \in Bytes
      /\ Len(SubSeq(key, m + 1, m + n)) = m + n + 1 - (m + 1)
      /\ \A j \in 1 .. m + n + 1 - (m + 1) : SubSeq(key, m + 1, m + n)[j] = key[m + 1 - 1 + j]
  <2>1. m + 1 \in Nat \ {0} /\ m + n \in Nat /\ m + n =< Len(key) /\ m + 1 =< m + n + 1
      BY <1>3
  <2> QED
      BY <1>3, <2>1, BytesSubSeq
<1>6. PICK f \in Bytes : f = SubSeq(key, m + 1, m + n)
    BY <1>5
<1>7. m + n + 1 - (m + 1) = n /\ \A j \in 1 .. n : m + 1 - 1 + j = m + j
    OBVIOUS
<1>8. Len(f) = n /\ \A j \in 1 .. n : f[j] = s[j]
    BY <1>3, <1>5, <1>6, <1>7
<1>9. f = s
    BY <1>1, <1>2, <1>8, BytesEqual
<1> QED
    BY <1>4, <1>6, <1>9

-----------------------------------------------------------------------------
(* The fields of each key. *)

\* A last field behind its length.
LEMMA RemainsLast ==
    ASSUME NEW key, NEW i \in Nat \ {0}, NEW a \in Bytes, Remains(key, i, LengthPrefix(a))
    PROVE  Field(key, i) = a
<1>1. LengthPrefix(a) = LengthPrefix(a) ++ <<>> /\ <<>> \in Bytes
    BY LengthPrefixBytes, BytesEmpty
<1>2. Remains(key, i, LengthPrefix(a) ++ <<>>)
    BY <1>1
<1> QED
    BY <1>1, <1>2, RemainsNext

LEMMA RedelegationQueueFields ==
    ASSUME NEW ct \in Nat, NEW key,
           key = GetRedelegationQueueKey(ct)
    PROVE  /\ key[1] = 35 /\ After(key, 0) = FixedWidth(ct)
<1>1. PICK s0 \in Bytes :
            /\ s0 = FixedWidth(ct)
    BY FixedWidthBytes, DenomBytes
<1>2. key = Byte(35) ++ s0
    BY <1>1, RedelegationQueueForm
<1>3. key[1] = 35 /\ Remains(key, 1, s0)
    BY <1>2, RemainsFirst
<1>4. Remains(key, 0 + 1, s0)
    BY <1>3
<1>5. After(key, 0) = s0
    BY <1>4, RemainsAfter
<1> QED
    BY <1>1, <1>3, <1>5

LEMMA UndelegationQueueFields ==
    ASSUME NEW ct \in Nat, NEW d \in Bytes, NEW key,
           key = GetUndelegationQueueKey(ct, d)
    PROVE  /\ key[1] = 36 /\ Field(key, 1) = FixedWidth(ct)
           /\ Field(key, 2) = d
<1>1. PICK f1 \in Bytes, f2 \in Bytes :
            /\ f1 = FixedWidth(ct)
            /\ f2 = d
    BY FixedWidthBytes, DenomBytes
<1>2. PICK s1 \in Bytes : s1 = LengthPrefix(f2)
    BY LengthPrefixBytes
<1>3. PICK s0 \in Bytes : s0 = LengthPrefix(f1) ++ s1
    BY LengthPrefixBytes, BytesConcat
<1>4. key = Byte(36) ++ s0
    BY <1>1, <1>2, <1>3, UndelegationQueueForm
<1>5. key[1] = 36 /\ Remains(key, 1, s0)
    BY <1>4, RemainsFirst
<1>6. Field(key, 1) = f1 /\ Remains(key, 1 + 1, s1)
    BY <1>5, <1>3, RemainsNext
<1>7. Field(key, 2) = f2
    BY <1>6, <1>2, RemainsLast
<1> QED
    BY <1>1, <1>5, <1>6, <1>7

LEMMA DelegationFields ==
    ASSUME NEW d \in Bytes, NEW v \in Bytes, NEW n \in Bytes, NEW key,
           key = GetDelegationKey(d, v, n)
    PROVE  /\ key[1] = 33 /\ Field(key, 1) = d
           /\ Field(key, 2) = v /\ Field(key, 3) = CreateDenomAddressPrefix(n)
<1>1. PICK f1 \in Bytes, f2 \in Bytes, f3 \in Bytes :
            /\ f1 = d
            /\ f2 = v
            /\ f3 = CreateDenomAddressPrefix(n)
    BY FixedWidthBytes, DenomBytes
<1>2. PICK s2 \in Bytes : s2 = LengthPrefix(f3)
    BY LengthPrefixBytes
<1>3. PICK s1 \in Bytes : s1 = LengthPrefix(f2) ++ s2
    BY LengthPrefixBytes, BytesConcat
<1>4. PICK s0 \in Bytes : s0 = LengthPrefix(f1) ++ s1
    BY LengthPrefixBytes, BytesConcat
<1>5. key = Byte(33) ++ s0
    BY <1>1, <1>2, <1>3, <1>4, DelegationForm
<1>6. key[1] = 33 /\ Remains(key, 1, s0)
    BY <1>5, RemainsFirst
<1>7. Field(key, 1) = f1 /\ Remains(key, 1 + 1, s1)
    BY <1>6, <1>4, RemainsNext
<1>8. Field(key, 2) = f2 /\ Remains(key, 2 + 1, s2)
    BY <1>7, <1>3, RemainsNext
<1>9. Field(key, 3) = f3
    BY <1>8, <1>2, RemainsLast
<1> QED
    BY <1>1, <1>6, <1>7, <1>8, <1>9

LEMMA SnapshotFields ==
    ASSUME NEW n \in Bytes, NEW v \in Bytes, NEW h \in Nat, NEW key,
           key = GetRewardWeightChangeSnapshotKey(n, v, h)
    PROVE  /\ key[1] = 20 /\ Field(key, 1) = CreateDenomAddressPrefix(n)
           /\ Field(key, 2) = v /\ After(key, 2) = FixedWidth(h)
<1>1. PICK f1 \in Bytes, f2 \in Bytes, s2 \in Bytes :
            /\ f1 = CreateDenomAddressPrefix(n)
            /\ f2 = v
            /\ s2 = FixedWidth(h)
    BY FixedWidthBytes, DenomBytes
<1>2. PICK s1 \in Bytes : s1 = LengthPrefix(f2) ++ s2
    BY LengthPrefixBytes, BytesConcat
<1>3. PICK s0 \in Bytes : s0 = LengthPrefix(f1) ++ s1
    BY LengthPrefixBytes, BytesConcat
<1>4. key = Byte(20) ++ s0
    BY <1>1, <1>2, <1>3, SnapshotForm
<1>5. key[1] = 20 /\ Remains(key, 1, s0)
    BY <1>4, RemainsFirst
<1>6. Field(key, 1) = f1 /\ Remains(key, 1 + 1, s1)
    BY <1>5, <1>3, RemainsNext
<1>7. Field(key, 2) = f2 /\ Remains(key, 2 + 1, s2)
    BY <1>6, <1>2, RemainsNext
<1>8. After(key, 2) = s2
    BY <1>7, RemainsAfter
<1> QED
    BY <1>1, <1>5, <1>6, <1>7, <1>8

LEMMA RedelegationFields ==
    ASSUME NEW d \in Bytes, NEW n \in Bytes, NEW dst \in Bytes, NEW ct \in Nat, NEW key,
           key = GetRedelegationKey(d, n, dst, ct)
    PROVE  /\ key[1] = 34 /\ Field(key, 1) = d
           /\ Field(key, 2) = CreateDenomAddressPrefix(n) /\ Field(key, 3) = dst
           /\ After(key, 3) = FixedWidth(ct)
<1>1. PICK f1 \in Bytes, f2 \in Bytes, f3 \in Bytes, s3 \in Bytes :
            /\ f1 = d
            /\ f2 = CreateDenomAddressPrefix(n)
            /\ f3 = dst
            /\ s3 = FixedWidth(ct)
    BY FixedWidthBytes, DenomBytes
<1>2. PICK s2 \in Bytes : s2 = LengthPrefix(f3) ++ s3
    BY LengthPrefixBytes, BytesConcat
<1>3. PICK s1 \in Bytes : s1 = LengthPrefix(f2) ++ s2
    BY LengthPrefixBytes, BytesConcat
<1>4. PICK s0 \in Bytes : s0 = LengthPrefix(f1) ++ s1
    BY LengthPrefixBytes, BytesConcat
<1>5. key = Byte(34) ++ s0
    BY <1>1, <1>2, <1>3, <1>4, RedelegationForm
<1>6. key[1] = 34 /\ Remains(key, 1, s0)
    BY <1>5, RemainsFirst
<1>7. Field(key, 1) = f1 /\ Remains(key, 1 + 1, s1)
    BY <1>6, <1>4, RemainsNext
<1>8. Field(key, 2) = f2 /\ Remains(key, 2 + 1, s2)
    BY <1>7, <1>3, RemainsNext
<1>9. Field(key, 3) = f3 /\ Remains(key, 3 + 1, s3)
    BY <1>8, <1>2, RemainsNext
<1>10. After(key, 3) = s3
    BY <1>9, RemainsAfter
<1> QED
    BY <1>1, <1>6, <1>7, <1>8, <1>9, <1>10

LEMMA UnbondingIndexFields ==
    ASSUME NEW v \in Bytes, NEW ct \in Nat, NEW n \in Bytes, NEW d \in Bytes, NEW key,
           key = GetUnbondingIndexKey(v, ct, n, d)
    PROVE  /\ key[1] = 50 /\ Field(key, 1) = v
           /\ Field(key, 2) = FixedWidth(ct) /\ Field(key, 3) = CreateDenomAddressPrefix(n)
           /\ Field(key, 4) = d
<1>1. PICK f1 \in Bytes, f2 \in Bytes, f3 \in Bytes, f4 \in Bytes :
            /\ f1 = v
            /\ f2 = FixedWidth(ct)
            /\ f3 = CreateDenomAddressPrefix(n)
            /\ f4 = d
    BY FixedWidthBytes, DenomBytes
<1>2. PICK s3 \in Bytes : s3 = LengthPrefix(f4)
    BY LengthPrefixBytes
<1>3. PICK s2 \in Bytes : s2 = LengthPrefix(f3) ++ s3
    BY LengthPrefixBytes, BytesConcat
<1>4. PICK s1 \in Bytes : s1 = LengthPrefix(f2) ++ s2
    BY LengthPrefixBytes, BytesConcat
<1>5. PICK s0 \in Bytes : s0 = LengthPrefix(f1) ++ s1
    BY LengthPrefixBytes, BytesConcat
<1>6. key = Byte(50) ++ s0
    BY <1>1, <1>2, <1>3, <1>4, <1>5, UnbondingIndexForm
<1>7. key[1] = 50 /\ Remains(key, 1, s0)
    BY <1>6, RemainsFirst
<1>8. Field(key, 1) = f1 /\ Remains(key, 1 + 1, s1)
    BY <1>7, <1>5, RemainsNext
<1>9. Field(key, 2) = f2 /\ Remains(key, 2 + 1, s2)
    BY <1>8, <1>4, RemainsNext
<1>10. Field(key, 3) = f3 /\ Remains(key, 3 + 1, s3)
    BY <1>9, <1>3, RemainsNext
<1>11. Field(key, 4) = f4
    BY <1>10, <1>2, RemainsLast
<1> QED
    BY <1>1, <1>7, <1>8, <1>9, <1>10, <1>11

LEMMA RedelegationIndexFields ==
    ASSUME NEW src \in Bytes, NEW ct \in Nat, NEW n \in Bytes,
           NEW dst \in Bytes, NEW d \in Bytes, NEW key,
           key = GetRedelegationIndexKey(src, ct, n, dst, d)
    PROVE  /\ key[1] = 49 /\ Field(key, 1) = src
           /\ Field(key, 2) = FixedWidth(ct) /\ Field(key, 3) = CreateDenomAddressPrefix(n)
           /\ Field(key, 4) = dst /\ Field(key, 5) = d
<1>1. PICK f1 \in Bytes, f2 \in Bytes, f3 \in Bytes, f4 \in Bytes, f5 \in Bytes :
            /\ f1 = src
            /\ f2 = FixedWidth(ct)
            /\ f3 = CreateDenomAddressPrefix(n)
            /\ f4 = dst
            /\ f5 = d
    BY FixedWidthBytes, DenomBytes
<1>2. PICK s4 \in Bytes : s4 = LengthPrefix(f5)
    BY LengthPrefixBytes
<1>3. PICK s3 \in Bytes : s3 = LengthPrefix(f4) ++ s4
    BY LengthPrefixBytes, BytesConcat
<1>4. PICK s2 \in Bytes : s2 = LengthPrefix(f3) ++ s3
    BY LengthPrefixBytes, BytesConcat
<1>5. PICK s1 \in Bytes : s1 = LengthPrefix(f2) ++ s2
    BY LengthPrefixBytes, BytesConcat
<1>6. PICK s0 \in Bytes : s0 = LengthPrefix(f1) ++ s1
    BY LengthPrefixBytes, BytesConcat
<1>7. key = Byte(49) ++ s0
  <2>1. key = Byte(49) ++ (LengthPrefix(src) ++ (LengthPrefix(FixedWidth(ct))
                  ++ (LengthPrefix(CreateDenomAddressPrefix(n))
                      ++ (LengthPrefix(dst) ++ LengthPrefix(d)))))
      BY RedelegationIndexForm
  <2> QED
      BY <1>1, <2>1, <1>2, <1>3, <1>4, <1>5, <1>6
<1>8. key[1] = 49 /\ Remains(key, 1, s0)
    BY <1>7, RemainsFirst
<1>9. Field(key, 1) = f1 /\ Remains(key, 1 + 1, s1)
    BY <1>8, <1>6, RemainsNext
<1>10. Field(key, 2) = f2 /\ Remains(key, 2 + 1, s2)
    BY <1>9, <1>5, RemainsNext
<1>11. Field(key, 3) = f3 /\ Remains(key, 3 + 1, s3)
    BY <1>10, <1>4, RemainsNext
<1>12. Field(key, 4) = f4 /\ Remains(key, 4 + 1, s4)
    BY <1>11, <1>3, RemainsNext
<1>13. Field(key, 5) = f5
    BY <1>12, <1>2, RemainsLast
<1> QED
    BY <1>1, <1>8, <1>9, <1>10, <1>11, <1>12, <1>13

LEMMA InfoFields ==
    ASSUME NEW v \in Bytes, NEW key, key = GetAllianceValidatorInfoKey(v)
    PROVE  key[1] = 18 /\ ParseAllianceValidatorKey(key) = v
<1>1. PICK n \in Nat, x \in Bytes : n = Len(v) /\ x = LengthPrefix(v)
    BY BytesLen, LengthPrefixBytes
<1>2. Len(x) = n + 1 /\ \A i \in 1 .. n : x[i + 1] = v[i]
    BY <1>1, LengthPrefixBytes
<1>3. key = Byte(18) ++ x
    BY <1>1, InfoForm
<1>4. /\ key \in Bytes /\ Len(key) = 1 + (n + 1) /\ key[1] = 18
      /\ \A i \in 1 .. n + 1 : key[1 + i] = x[i]
  <2>1. /\ Byte(18) ++ x \in Bytes /\ Len(Byte(18) ++ x) = 1 + Len(x) /\ (Byte(18) ++ x)[1] = 18
        /\ \A i \in 1 .. Len(x) : (Byte(18) ++ x)[1 + i] = x[i]
      BY HeadBytes
  <2> QED
      BY <1>2, <1>3, <2>1
<1>5. /\ SubSeq(key, 3, n + 2) \in Bytes /\ Len(SubSeq(key, 3, n + 2)) = n + 2 + 1 - 3
      /\ \A i \in 1 .. n + 2 + 1 - 3 : SubSeq(key, 3, n + 2)[i] = key[3 - 1 + i]
  <2>1. 3 \in Nat \ {0} /\ n + 2 \in Nat /\ n + 2 =< Len(key) /\ 3 =< n + 2 + 1
      BY <1>4
  <2> QED
      BY <1>4, <2>1, BytesSubSeq
<1>6. PICK f \in Bytes : f = SubSeq(key, 3, n + 2)
    BY <1>5
<1>7. \A i \in 1 .. n : f[i] = v[i]
  <2>1. ASSUME NEW i \in 1 .. n PROVE f[i] = v[i]
    <3>1. i \in 1 .. n + 2 + 1 - 3 /\ 3 - 1 + i = 1 + (i + 1) /\ i + 1 \in 1 .. n + 1
        OBVIOUS
    <3>2. f[i] = key[3 - 1 + i] /\ key[1 + (i + 1)] = x[i + 1] /\ x[i + 1] = v[i]
        BY <1>2, <1>4, <1>5, <1>6, <3>1
    <3> QED
        BY <3>1, <3>2
  <2> QED
      BY <2>1
<1>8. Len(f) = n
    BY <1>5, <1>6
<1>9. f = v
    BY <1>1, <1>7, <1>8, BytesEqual
<1>10. Len(key) = n + 2
    BY <1>4
<1> QED
    BY <1>4, <1>6, <1>9, <1>10 DEF ParseAllianceValidatorKey

-----------------------------------------------------------------------------
(* Scans of a prefix. *)

LEMMA PrefixJoin ==
    ASSUME NEW s \in Bytes, NEW t \in Bytes
    PROVE  IsPrefix(s, s ++ t)
<1>1. PICK f \in Bytes : f = s ++ t
    BY BytesConcat
<1> QED
    BY <1>1, PrefixMeans DEF ++

\* What a prefix of a kind and some fields says of a key.
LEMMA PrefixKind ==
    ASSUME NEW k \in Nat, NEW s \in Bytes, NEW key \in Bytes, IsPrefix(Byte(k) ++ s, key)
    PROVE  \E u \in Bytes : key = Byte(k) ++ (s ++ u) /\ key[1] = k
<1>1. PICK p \in Bytes : p = Byte(k) ++ s
    BY BytesSingle, BytesConcat
<1>2. PICK u \in Bytes : key = p ++ u
    BY <1>1, PrefixMeans DEF ++
<1>3. PICK t \in Bytes : t = s ++ u
    BY BytesConcat
<1>4. key = Byte(k) ++ t
    BY <1>1, <1>2, <1>3, BytesSingle, BytesAssociative
<1>5. key[1] = k
    BY <1>4, RemainsFirst
<1> QED
    BY <1>3, <1>4, <1>5

LEMMA PrefixField ==
    ASSUME NEW k \in Nat, NEW a \in Bytes, NEW key \in Bytes,
           IsPrefix(Byte(k) ++ LengthPrefix(a), key)
    PROVE  key[1] = k /\ Field(key, 1) = a
<1>1. PICK x \in Bytes : x = LengthPrefix(a)
    BY LengthPrefixBytes
<1>2. PICK u \in Bytes : key = Byte(k) ++ (x ++ u) /\ key[1] = k
    BY <1>1, PrefixKind
<1>3. PICK t \in Bytes : t = x ++ u
    BY BytesConcat
<1>4. Remains(key, 1, t)
    BY <1>2, <1>3, RemainsFirst
<1>5. Field(key, 1) = a
    BY <1>1, <1>3, <1>4, RemainsNext
<1> QED
    BY <1>2, <1>5

LEMMA PrefixField2 ==
    ASSUME NEW k \in Nat, NEW a \in Bytes, NEW b \in Bytes, NEW key \in Bytes,
           IsPrefix((Byte(k) ++ LengthPrefix(a)) ++ LengthPrefix(b), key)
    PROVE  key[1] = k /\ Field(key, 1) = a /\ Field(key, 2) = b
<1>1. PICK h \in Bytes, x \in Bytes, y \in Bytes :
            h = Byte(k) /\ x = LengthPrefix(a) /\ y = LengthPrefix(b)
    BY LengthPrefixBytes, BytesSingle
<1>2. PICK xy \in Bytes : xy = x ++ y /\ (h ++ x) ++ y = h ++ xy
    BY BytesConcat, BytesAssociative
<1>3. PICK u \in Bytes : key = Byte(k) ++ (xy ++ u) /\ key[1] = k
    BY <1>1, <1>2, PrefixKind
<1>4. PICK t \in Bytes, w \in Bytes : w = y ++ u /\ t = x ++ w /\ t = xy ++ u
    BY <1>2, BytesConcat, BytesAssociative
<1>5. Remains(key, 1, t)
    BY <1>3, <1>4, RemainsFirst
<1>6. Field(key, 1) = a /\ Remains(key, 1 + 1, w)
  <2>1. Remains(key, 1, LengthPrefix(a) ++ w)
      BY <1>1, <1>4, <1>5
  <2> QED
      BY <2>1, RemainsNext
<1>7. Field(key, 2) = b
    BY <1>1, <1>4, <1>6, RemainsNext
<1> QED
    BY <1>3, <1>6, <1>7

LEMMA PrefixField3 ==
    ASSUME NEW k \in Nat, NEW a \in Bytes, NEW b \in Bytes, NEW c \in Bytes, NEW key \in Bytes,
           IsPrefix(((Byte(k) ++ LengthPrefix(a)) ++ LengthPrefix(b)) ++ LengthPrefix(c), key)
    PROVE  key[1] = k /\ Field(key, 1) = a /\ Field(key, 2) = b /\ Field(key, 3) = c
<1>1. PICK h \in Bytes, x \in Bytes, y \in Bytes, z \in Bytes :
            h = Byte(k) /\ x = LengthPrefix(a) /\ y = LengthPrefix(b) /\ z = LengthPrefix(c)
    BY LengthPrefixBytes, BytesSingle
<1>2. PICK p \in Bytes : p = (h ++ x) ++ y
    BY BytesConcat
<1>3. IsPrefix(p ++ z, key)
    BY <1>1, <1>2
<1>4. PICK q \in Bytes : q = p ++ z
    BY BytesConcat
<1>5. PICK u \in Bytes : key = q ++ u
    BY <1>3, <1>4, PrefixMeans DEF ++
<1>6. PICK w \in Bytes : w = z ++ u /\ key = p ++ w
    BY <1>4, <1>5, BytesConcat, BytesAssociative
<1>7. IsPrefix(p, key)
    BY <1>6, PrefixJoin
<1>8. key[1] = k /\ Field(key, 1) = a /\ Field(key, 2) = b
    BY <1>1, <1>2, <1>7, PrefixField2
<1>9. PICK yw \in Bytes, t \in Bytes : yw = y ++ w /\ t = x ++ yw /\ key = h ++ t
  <2>1. ((h ++ x) ++ y) ++ w = h ++ (x ++ (y ++ w)) /\ y ++ w \in Bytes
      BY Join4, BytesConcat
  <2>2. x ++ (y ++ w) \in Bytes
      BY <2>1, BytesConcat
  <2> QED
      BY <1>2, <1>6, <2>1, <2>2
<1>10. Remains(key, 1, t)
    BY <1>1, <1>9, RemainsFirst
<1>11. Remains(key, 1 + 1, yw)
  <2>1. Remains(key, 1, LengthPrefix(a) ++ yw)
      BY <1>1, <1>9, <1>10
  <2> QED
      BY <2>1, RemainsNext
<1>12. Remains(key, 2 + 1, w)
    BY <1>1, <1>9, <1>11, RemainsNext
<1>13. Field(key, 3) = c
    BY <1>1, <1>6, <1>12, RemainsNext
<1> QED
    BY <1>8, <1>13
-----------------------------------------------------------------------------
(* The order of iteration, and ranges. *)

\* The position that decides: where t has more, and s ends or has less.
Decides(s, t, i) ==
    /\ i \in Nat \ {0} /\ i =< Len(t)
    /\ \A j \in 1 .. i - 1 : j =< Len(s) /\ s[j] = t[j]
    /\ i = Len(s) + 1 \/ (i =< Len(s) /\ s[i] < t[i])

LEMMA BeforeMeans ==
    ASSUME NEW s \in Bytes, NEW t \in Bytes
    PROVE  Before(s, t) <=> \E i : Decides(s, t, i)
<1>1. PICK m \in Nat, n \in Nat : m = Len(s) /\ n = Len(t)
    BY BytesLen
<1>2. (\A i \in 1 .. m : s[i] \in Nat) /\ (\A i \in 1 .. n : t[i] \in Nat)
    BY <1>1, BytesLen
<1>3. Min({m, n}) \in {m, n} /\ Min({m, n}) =< m /\ Min({m, n}) =< n
    BY DEF Min
<1>4. ASSUME NEW i \in Nat \ {0}, i =< m, i =< n
      PROVE  SubSeq(s, 1, i - 1) = SubSeq(t, 1, i - 1) <=> \A j \in 1 .. i - 1 : s[j] = t[j]
  <2>1. PICK l \in Nat : l = i - 1
      BY <1>4
  <2>2. /\ SubSeq(s, 1, l) \in Bytes /\ Len(SubSeq(s, 1, l)) = l + 1 - 1
        /\ \A j \in 1 .. l + 1 - 1 : SubSeq(s, 1, l)[j] = s[1 - 1 + j]
      BY <1>1, <1>4, <2>1, BytesSubSeq
  <2>3. /\ SubSeq(t, 1, l) \in Bytes /\ Len(SubSeq(t, 1, l)) = l + 1 - 1
        /\ \A j \in 1 .. l + 1 - 1 : SubSeq(t, 1, l)[j] = t[1 - 1 + j]
      BY <1>1, <1>4, <2>1, BytesSubSeq
  <2>4. PICK f \in Bytes, g \in Bytes : f = SubSeq(s, 1, l) /\ g = SubSeq(t, 1, l)
      BY <2>2, <2>3
  <2>5. /\ Len(f) = l /\ Len(g) = l
        /\ \A j \in 1 .. l : f[j] = s[j] /\ g[j] = t[j]
      BY <2>2, <2>3, <2>4
  <2>6. f = g <=> \A j \in 1 .. l : s[j] = t[j]
    <3>1. ASSUME \A j \in 1 .. l : s[j] = t[j] PROVE f = g
        BY <2>5, <3>1, BytesEqual
    <3> QED
        BY <2>5, <3>1
  <2> QED
      BY <2>1, <2>4, <2>6
<1>5. IsPrefix(s, t) <=> m =< n /\ \A j \in 1 .. m : s[j] = t[j]
  <2>1. ASSUME m =< n
        PROVE  SubSeq(s, 1, m) = SubSeq(t, 1, m) <=> \A j \in 1 .. m : s[j] = t[j]
    <3>1. /\ SubSeq(t, 1, m) \in Bytes /\ Len(SubSeq(t, 1, m)) = m + 1 - 1
          /\ \A j \in 1 .. m + 1 - 1 : SubSeq(t, 1, m)[j] = t[1 - 1 + j]
        BY <1>1, <2>1, BytesSubSeq
    <3>2. SubSeq(s, 1, m) = s
        BY <1>1, SubSeqFull DEF Bytes
    <3>3. PICK g \in Bytes : g = SubSeq(t, 1, m)
        BY <3>1
    <3>4. Len(g) = m /\ \A j \in 1 .. m : g[j] = t[j]
        BY <3>1, <3>3
    <3>5. s = g <=> \A j \in 1 .. m : s[j] = t[j]
      <4>1. ASSUME \A j \in 1 .. m : s[j] = t[j] PROVE s = g
          BY <1>1, <3>4, <4>1, BytesEqual
      <4> QED
          BY <3>4, <4>1
    <3> QED
        BY <3>2, <3>3, <3>5
  <2> QED
      BY <1>1, <2>1 DEF IsPrefix
<1>6. IsStrictPrefix(s, t) <=> m < n /\ \A j \in 1 .. m : s[j] = t[j]
  <2>1. ASSUME m = n, \A j \in 1 .. m : s[j] = t[j] PROVE s = t
      BY <1>1, <2>1, BytesEqual
  <2>2. s = t => m = n
      BY <1>1
  <2>3. m =< n <=> m < n \/ m = n
      OBVIOUS
  <2> QED
      BY <1>5, <2>1, <2>2, <2>3 DEF IsStrictPrefix
<1>7. ASSUME IsStrictPrefix(s, t) PROVE Decides(s, t, m + 1)
    BY <1>1, <1>6, <1>7 DEF Decides
<1>8. ASSUME NEW i \in 1 .. Min({m, n}), s[i] < t[i], SubSeq(s, 1, i - 1) = SubSeq(t, 1, i - 1)
      PROVE  Decides(s, t, i)
  <2>1. i \in Nat \ {0} /\ i =< m /\ i =< n
      BY <1>3
  <2>2. \A j \in 1 .. i - 1 : s[j] = t[j]
      BY <1>4, <1>8, <2>1
  <2> QED
      BY <1>1, <1>8, <2>1, <2>2 DEF Decides
<1>9. ASSUME NEW i, Decides(s, t, i) PROVE Before(s, t)
  <2>1. i \in Nat \ {0} /\ i =< n /\ \A j \in 1 .. i - 1 : j =< m /\ s[j] = t[j]
      BY <1>1, <1>9 DEF Decides
  <2>2. CASE i = m + 1
      BY <1>6, <2>1, <2>2 DEF Before
  <2>3. CASE i =< m /\ s[i] < t[i]
    <3>1. i \in 1 .. Min({m, n})
        BY <1>3, <2>1, <2>3
    <3>2. SubSeq(s, 1, i - 1) = SubSeq(t, 1, i - 1)
        BY <1>4, <2>1, <2>3
    <3> QED
        BY <1>1, <2>3, <3>1, <3>2 DEF Before
  <2> QED
      BY <1>1, <1>9, <2>2, <2>3 DEF Decides
<1> QED
    BY <1>1, <1>7, <1>8, <1>9 DEF Before

\* Bytes that both begin with do not decide.
LEMMA BeforeJoin ==
    ASSUME NEW p \in Bytes, NEW s \in Bytes, NEW t \in Bytes
    PROVE  Before(p ++ s, p ++ t) <=> Before(s, t)
<1>1. PICK l \in Nat, m \in Nat, n \in Nat : l = Len(p) /\ m = Len(s) /\ n = Len(t)
    BY BytesLen
<1>2. PICK f \in Bytes : /\ f = p ++ s /\ Len(f) = l + m
                         /\ \A i \in 1 .. l : f[i] = p[i]
                         /\ \A i \in 1 .. m : f[l + i] = s[i]
  <2>1. /\ p ++ s \in Bytes /\ Len(p ++ s) = Len(p) + Len(s)
        /\ \A i \in 1 .. Len(p) : (p ++ s)[i] = p[i]
        /\ \A i \in 1 .. Len(s) : (p ++ s)[Len(p) + i] = s[i]
      BY BytesConcat
  <2> QED
      BY <1>1, <2>1
<1>3. PICK g \in Bytes : /\ g = p ++ t /\ Len(g) = l + n
                         /\ \A i \in 1 .. l : g[i] = p[i]
                         /\ \A i \in 1 .. n : g[l + i] = t[i]
  <2>1. /\ p ++ t \in Bytes /\ Len(p ++ t) = Len(p) + Len(t)
        /\ \A i \in 1 .. Len(p) : (p ++ t)[i] = p[i]
        /\ \A i \in 1 .. Len(t) : (p ++ t)[Len(p) + i] = t[i]
      BY BytesConcat
  <2> QED
      BY <1>1, <2>1
<1>4. ASSUME NEW i, Decides(f, g, i) PROVE Decides(s, t, i - l)
  <2>1. /\ i \in Nat \ {0} /\ i =< l + n
        /\ \A j \in 1 .. i - 1 : j =< l + m /\ f[j] = g[j]
        /\ i = l + m + 1 \/ (i =< l + m /\ f[i] < g[i])
      BY <1>2, <1>3, <1>4 DEF Decides
  <2>2. ~(i =< l)
    <3> SUFFICES ASSUME i =< l PROVE FALSE
        OBVIOUS
    <3>1. f[i] = p[i] /\ g[i] = p[i] /\ p[i] \in Nat
        BY <1>1, <1>2, <1>3, <2>1, BytesLen
    <3> QED
        BY <2>1, <3>1
  <2>3. PICK k \in Nat \ {0} : i = l + k
    <3>1. i - l \in Nat \ {0} /\ i = l + (i - l)
        BY <2>1, <2>2
    <3> QED
        BY <3>1
  <2>4. k =< n
      BY <2>1, <2>3
  <2>5. ASSUME NEW j \in 1 .. k - 1 PROVE j =< m /\ s[j] = t[j]
    <3>1. l + j \in 1 .. i - 1 /\ j \in 1 .. n
        BY <2>3, <2>4
    <3>2. l + j =< l + m /\ f[l + j] = g[l + j]
        BY <2>1, <3>1
    <3>3. j \in 1 .. m
        BY <3>2
    <3> QED
        BY <1>2, <1>3, <3>1, <3>2, <3>3
  <2>6. k = m + 1 \/ (k =< m /\ s[k] < t[k])
    <3>1. CASE i = l + m + 1
        BY <2>3, <3>1
    <3>2. CASE i =< l + m /\ f[i] < g[i]
      <4>1. k \in 1 .. m /\ k \in 1 .. n
          BY <2>3, <2>4, <3>2
      <4>2. f[l + k] = s[k] /\ g[l + k] = t[k]
          BY <1>2, <1>3, <4>1
      <4> QED
          BY <2>3, <3>2, <4>1, <4>2
    <3> QED
        BY <2>1, <3>1, <3>2
  <2>7. i - l = k
      BY <2>3
  <2>8. Decides(s, t, k)
      BY <1>1, <2>4, <2>5, <2>6 DEF Decides
  <2> QED
      BY <2>7, <2>8
<1>5. ASSUME NEW k, Decides(s, t, k) PROVE Decides(f, g, l + k)
  <2>1. /\ k \in Nat \ {0} /\ k =< n
        /\ \A j \in 1 .. k - 1 : j =< m /\ s[j] = t[j]
        /\ k = m + 1 \/ (k =< m /\ s[k] < t[k])
      BY <1>1, <1>5 DEF Decides
  <2>2. ASSUME NEW j \in 1 .. (l + k) - 1 PROVE j =< l + m /\ f[j] = g[j]
    <3>1. CASE j =< l
        BY <1>2, <1>3, <3>1
    <3>2. CASE ~(j =< l)
      <4>1. j - l \in 1 .. k - 1 /\ j = l + (j - l)
          BY <2>1, <3>2
      <4>2. PICK i \in 1 .. k - 1 : j = l + i
          BY <4>1
      <4>3. i =< m /\ s[i] = t[i] /\ i \in 1 .. m /\ i \in 1 .. n
          BY <2>1
      <4>4. f[l + i] = s[i] /\ g[l + i] = t[i]
          BY <1>2, <1>3, <4>3
      <4> QED
          BY <4>2, <4>3, <4>4
    <3> QED
        BY <3>1, <3>2
  <2>3. l + k = (l + m) + 1 \/ (l + k =< l + m /\ f[l + k] < g[l + k])
    <3>1. CASE k = m + 1
        BY <3>1
    <3>2. CASE k =< m /\ s[k] < t[k]
      <4>1. k \in 1 .. m /\ k \in 1 .. n
          BY <2>1, <3>2
      <4>2. f[l + k] = s[k] /\ g[l + k] = t[k]
          BY <1>2, <1>3, <4>1
      <4> QED
          BY <3>2, <4>1, <4>2
    <3> QED
        BY <2>1, <3>1, <3>2
  <2>4. l + k \in Nat \ {0} /\ l + k =< l + n
      BY <2>1
  <2> QED
      BY <1>2, <1>3, <2>2, <2>3, <2>4 DEF Decides
<1>6. Before(f, g) <=> Before(s, t)
    BY <1>4, <1>5, BeforeMeans
<1> QED
    BY <1>2, <1>3, <1>6

\* Between two keys that begin alike, every key begins so.
LEMMA RangePrefix ==
    ASSUME NEW p \in Bytes, NEW a \in Bytes, NEW b \in Bytes, NEW key \in Bytes,
           ~Before(key, p ++ a), Before(key, p ++ b)
    PROVE  IsPrefix(p, key)
<1>1. PICK l \in Nat, m \in Nat, n \in Nat, h \in Nat :
            l = Len(p) /\ m = Len(a) /\ n = Len(b) /\ h = Len(key)
    BY BytesLen
<1>2. PICK f \in Bytes : f = p ++ a /\ Len(f) = l + m /\ \A i \in 1 .. l : f[i] = p[i]
  <2>1. /\ p ++ a \in Bytes /\ Len(p ++ a) = Len(p) + Len(a)
        /\ \A i \in 1 .. Len(p) : (p ++ a)[i] = p[i]
        /\ \A i \in 1 .. Len(a) : (p ++ a)[Len(p) + i] = a[i]
      BY BytesConcat
  <2> QED
      BY <1>1, <2>1
<1>3. PICK g \in Bytes : g = p ++ b /\ Len(g) = l + n /\ \A i \in 1 .. l : g[i] = p[i]
  <2>1. /\ p ++ b \in Bytes /\ Len(p ++ b) = Len(p) + Len(b)
        /\ \A i \in 1 .. Len(p) : (p ++ b)[i] = p[i]
        /\ \A i \in 1 .. Len(b) : (p ++ b)[Len(p) + i] = b[i]
      BY BytesConcat
  <2> QED
      BY <1>1, <2>1
<1>4. PICK i : Decides(key, g, i)
    BY <1>3, BeforeMeans
<1>5. /\ i \in Nat \ {0}
      /\ \A j \in 1 .. i - 1 : j =< h /\ key[j] = g[j]
      /\ i = h + 1 \/ (i =< h /\ key[i] < g[i])
    BY <1>1, <1>4 DEF Decides
<1>6. ~(i =< l)
  <2> SUFFICES ASSUME i =< l PROVE FALSE
      OBVIOUS
  <2>1. \A j \in 1 .. i : j \in 1 .. l /\ g[j] = f[j]
      BY <1>2, <1>3, <1>5
  <2>2. \A j \in 1 .. i - 1 : j \in 1 .. i
      BY <1>5
  <2>3. \A j \in 1 .. i - 1 : j =< h /\ key[j] = f[j]
      BY <1>5, <2>1, <2>2
  <2>4. i \in 1 .. i
      BY <1>5
  <2>5. i = h + 1 \/ (i =< h /\ key[i] < f[i])
      BY <1>5, <2>1, <2>4
  <2>6. Decides(key, f, i)
      BY <1>1, <1>2, <1>5, <2>3, <2>5 DEF Decides
  <2> QED
      BY <1>2, <2>6, BeforeMeans
<1>7. \A j \in 1 .. l : j =< h /\ key[j] = p[j]
  <2>1. \A j \in 1 .. l : j \in 1 .. i - 1
      BY <1>5, <1>6
  <2> QED
      BY <1>3, <1>5, <2>1
<1>8. l =< h
    BY <1>7
<1>9. /\ SubSeq(key, 1, l) \in Bytes /\ Len(SubSeq(key, 1, l)) = l + 1 - 1
      /\ \A j \in 1 .. l + 1 - 1 : SubSeq(key, 1, l)[j] = key[1 - 1 + j]
    BY <1>1, <1>8, BytesSubSeq
<1>10. PICK k \in Bytes : k = SubSeq(key, 1, l)
    BY <1>9
<1>11. Len(k) = l /\ \A j \in 1 .. l : k[j] = p[j]
    BY <1>7, <1>9, <1>10
<1>12. k = p
    BY <1>1, <1>11, BytesEqual
<1>13. SubSeq(p, 1, l) = p
    BY <1>1, SubSeqFull DEF Bytes
<1> QED
    BY <1>1, <1>8, <1>10, <1>12, <1>13 DEF IsPrefix

\* Nothing is before the bare prefix that begins with it.
LEMMA BeforeNothing ==
    ASSUME NEW s \in Bytes
    PROVE  ~Before(s, <<>>)
<1>1. \A i : ~Decides(s, <<>>, i)
    BY BytesEmpty DEF Decides
<1> QED
    BY <1>1, BytesEmpty, BeforeMeans

\* Numbers of fixed width are in the order of their bytes, whatever follows.
LEMMA FixedWidthOrder ==
    ASSUME NEW x \in Nat, NEW y \in Nat, NEW s \in Bytes
    PROVE  Before(FixedWidth(x) ++ s, FixedWidth(y)) <=> x < y
<1>1. PICK f \in Bytes, a \in Nat, b \in Nat :
            f = FixedWidth(x) /\ Len(f) = 2 /\ f[1] = a /\ f[2] = b /\ x = 2 * a + b /\ b \in 0 .. 1
  <2>1. FixedWidth(x) \in Bytes /\ Len(FixedWidth(x)) = 2
        /\ x \div 2 \in Nat /\ x % 2 \in Nat /\ x = 2 * (x \div 2) + (x % 2)
      BY FixedWidthBytes
  <2>2. x % 2 \in 0 .. 1
      OBVIOUS
  <2>3. FixedWidth(x)[1] = x \div 2 /\ FixedWidth(x)[2] = x % 2
      BY DEF FixedWidth
  <2> QED
      BY <2>1, <2>2, <2>3
<1>2. PICK g \in Bytes, c \in Nat, d \in Nat :
            g = FixedWidth(y) /\ Len(g) = 2 /\ g[1] = c /\ g[2] = d /\ y = 2 * c + d /\ d \in 0 .. 1
  <2>1. FixedWidth(y) \in Bytes /\ Len(FixedWidth(y)) = 2
        /\ y \div 2 \in Nat /\ y % 2 \in Nat /\ y = 2 * (y \div 2) + (y % 2)
      BY FixedWidthBytes
  <2>2. y % 2 \in 0 .. 1
      OBVIOUS
  <2>3. FixedWidth(y)[1] = y \div 2 /\ FixedWidth(y)[2] = y % 2
      BY DEF FixedWidth
  <2> QED
      BY <2>1, <2>2, <2>3
<1>3. PICK h \in Bytes, n \in Nat : h = f ++ s /\ n = Len(s) /\ Len(h) = 2 + n
                                   /\ h[1] = a /\ h[2] = b
  <2>1. /\ f ++ s \in Bytes /\ Len(f ++ s) = Len(f) + Len(s)
        /\ \A i \in 1 .. Len(f) : (f ++ s)[i] = f[i]
      BY BytesConcat
  <2>2. Len(s) \in Nat
      BY BytesLen
  <2>3. (f ++ s)[1] = f[1] /\ (f ++ s)[2] = f[2]
      BY <1>1, <2>1
  <2> QED
      BY <1>1, <2>1, <2>2, <2>3
<1>4. ASSUME NEW i, Decides(h, g, i) PROVE x < y
  <2>1. /\ i \in {1, 2} /\ (i = 2 => h[1] = g[1])
        /\ i = (2 + n) + 1 \/ h[i] < g[i]
      BY <1>2, <1>3, <1>4 DEF Decides
  <2>2. CASE i = 1
      BY <1>1, <1>2, <1>3, <2>1, <2>2
  <2>3. CASE i = 2
      BY <1>1, <1>2, <1>3, <2>1, <2>3
  <2> QED
      BY <2>1, <2>2, <2>3
<1>5. ASSUME x < y PROVE \E i : Decides(h, g, i)
  <2>1. a < c \/ (a = c /\ b < d)
      BY <1>1, <1>2, <1>5
  <2>2. CASE a < c
    <3>1. Decides(h, g, 1)
        BY <1>2, <1>3, <2>2 DEF Decides
    <3> QED
        BY <3>1
  <2>3. CASE a = c /\ b < d
    <3>1. \A j \in 1 .. 2 - 1 : j =< 2 + n /\ h[j] = g[j]
        BY <1>2, <1>3, <2>3
    <3>2. 2 =< 2 + n /\ h[2] < g[2]
        BY <1>2, <1>3, <2>3
    <3>3. Decides(h, g, 2)
        BY <1>2, <1>3, <3>1, <3>2 DEF Decides
    <3> QED
        BY <3>3
  <2> QED
      BY <2>1, <2>2, <2>3
<1>6. Before(h, g) <=> x < y
    BY <1>4, <1>5, BeforeMeans
<1> QED
    BY <1>1, <1>2, <1>3, <1>6
-----------------------------------------------------------------------------
(* The entries of each store, and the keys they may have. *)

RedelegationEntries == [del : Delegators, denom : Denoms, dst : Validators, ct : Nat]
RedelegationIndexEntries == [src : Validators, ct : Nat, denom : Denoms, dst : Validators, del : Delegators]
UndelegationEntries == [ct : Nat, del : Delegators]
UnbondingIndexEntries == [val : Validators, ct : Nat, denom : Denoms, del : Delegators]
DelegationEntries == [del : Delegators, val : Validators, denom : Denoms]
SnapshotEntries == [denom : Denoms, val : Validators, height : Nat]

\* The fields of every entry are byte strings.
LEMMA FieldBytes ==
    /\ Delegators \subseteq Bytes /\ Validators \subseteq Bytes /\ Denoms \subseteq Bytes
BY FieldsAreBytes DEF Bytes

LEMMA RedelegationEntry ==
    ASSUME NEW x \in RedelegationEntries
    PROVE  /\ RedelegationBytes(x) \in Bytes /\ RedelegationBytes(x)[1] = 34
           /\ \A y \in RedelegationEntries : RedelegationBytes(y) = RedelegationBytes(x) => y = x
<1> DEFINE Says(key, y) ==
               /\ Field(key, 1) = y.del
               /\ Field(key, 2) = CreateDenomAddressPrefix(y.denom)
               /\ Field(key, 3) = y.dst
               /\ After(key, 3) = FixedWidth(y.ct)
<1>1. ASSUME NEW y \in RedelegationEntries
      PROVE  y.del \in Bytes /\ y.denom \in Bytes /\ y.dst \in Bytes /\ y.ct \in Nat
    BY FieldBytes DEF RedelegationEntries
<1>2. ASSUME NEW y \in RedelegationEntries
      PROVE  RedelegationBytes(y) \in Bytes /\ RedelegationBytes(y)[1] = 34 /\ Says(RedelegationBytes(y), y)
  <2>1. PICK key : key = GetRedelegationKey(y.del, y.denom, y.dst, y.ct)
      OBVIOUS
  <2>2. key \in Bytes
      BY <1>1, <2>1, RedelegationForm
  <2>3. key[1] = 34 /\ Says(key, y)
      BY <1>1, <2>1, RedelegationFields
  <2> QED
      BY <2>1, <2>2, <2>3 DEF RedelegationBytes
<1>3. ASSUME NEW y \in RedelegationEntries, RedelegationBytes(y) = RedelegationBytes(x) PROVE y = x
  <2>1. PICK key : key = RedelegationBytes(x)
      OBVIOUS
  <2>2. Says(key, x) /\ Says(key, y)
      BY <1>2, <1>3, <2>1
  <2>3. y.denom = x.denom
      BY <1>1, <2>2, DenomInjective
  <2>4. y.ct = x.ct
      BY <1>1, <2>2, FixedWidthInjective
  <2>5. y.del = x.del /\ y.denom = x.denom /\ y.dst = x.dst /\ y.ct = x.ct
      BY <2>2, <2>3, <2>4
  <2> QED
      BY <2>5 DEF RedelegationEntries
<1> QED
    BY <1>2, <1>3

LEMMA RedelegationIndexEntry ==
    ASSUME NEW x \in RedelegationIndexEntries
    PROVE  /\ RedelegationIndexBytes(x) \in Bytes /\ RedelegationIndexBytes(x)[1] = 49
           /\ \A y \in RedelegationIndexEntries : RedelegationIndexBytes(y) = RedelegationIndexBytes(x) => y = x
<1> DEFINE Says(key, y) ==
               /\ Field(key, 1) = y.src
               /\ Field(key, 2) = FixedWidth(y.ct)
               /\ Field(key, 3) = CreateDenomAddressPrefix(y.denom)
               /\ Field(key, 4) = y.dst
               /\ Field(key, 5) = y.del
<1>1. ASSUME NEW y \in RedelegationIndexEntries
      PROVE  y.src \in Bytes /\ y.ct \in Nat /\ y.denom \in Bytes /\ y.dst \in Bytes /\ y.del \in Bytes
    BY FieldBytes DEF RedelegationIndexEntries
<1>2. ASSUME NEW y \in RedelegationIndexEntries
      PROVE  RedelegationIndexBytes(y) \in Bytes /\ RedelegationIndexBytes(y)[1] = 49 /\ Says(RedelegationIndexBytes(y), y)
  <2>1. PICK key : key = GetRedelegationIndexKey(y.src, y.ct, y.denom, y.dst, y.del)
      OBVIOUS
  <2>2. key \in Bytes
      BY <1>1, <2>1, RedelegationIndexForm
  <2>3. key[1] = 49 /\ Says(key, y)
      BY <1>1, <2>1, RedelegationIndexFields
  <2> QED
      BY <2>1, <2>2, <2>3 DEF RedelegationIndexBytes
<1>3. ASSUME NEW y \in RedelegationIndexEntries, RedelegationIndexBytes(y) = RedelegationIndexBytes(x) PROVE y = x
  <2>1. PICK key : key = RedelegationIndexBytes(x)
      OBVIOUS
  <2>2. Says(key, x) /\ Says(key, y)
      BY <1>2, <1>3, <2>1
  <2>3. y.denom = x.denom
      BY <1>1, <2>2, DenomInjective
  <2>4. y.ct = x.ct
      BY <1>1, <2>2, FixedWidthInjective
  <2>5. y.src = x.src /\ y.ct = x.ct /\ y.denom = x.denom /\ y.dst = x.dst /\ y.del = x.del
      BY <2>2, <2>3, <2>4
  <2> QED
      BY <2>5 DEF RedelegationIndexEntries
<1> QED
    BY <1>2, <1>3

LEMMA UndelegationEntry ==
    ASSUME NEW x \in UndelegationEntries
    PROVE  /\ UndelegationBytes(x) \in Bytes /\ UndelegationBytes(x)[1] = 36
           /\ \A y \in UndelegationEntries : UndelegationBytes(y) = UndelegationBytes(x) => y = x
<1> DEFINE Says(key, y) ==
               /\ Field(key, 1) = FixedWidth(y.ct)
               /\ Field(key, 2) = y.del
<1>1. ASSUME NEW y \in UndelegationEntries
      PROVE  y.ct \in Nat /\ y.del \in Bytes
    BY FieldBytes DEF UndelegationEntries
<1>2. ASSUME NEW y \in UndelegationEntries
      PROVE  UndelegationBytes(y) \in Bytes /\ UndelegationBytes(y)[1] = 36 /\ Says(UndelegationBytes(y), y)
  <2>1. PICK key : key = GetUndelegationQueueKey(y.ct, y.del)
      OBVIOUS
  <2>2. key \in Bytes
      BY <1>1, <2>1, UndelegationQueueForm
  <2>3. key[1] = 36 /\ Says(key, y)
      BY <1>1, <2>1, UndelegationQueueFields
  <2> QED
      BY <2>1, <2>2, <2>3 DEF UndelegationBytes
<1>3. ASSUME NEW y \in UndelegationEntries, UndelegationBytes(y) = UndelegationBytes(x) PROVE y = x
  <2>1. PICK key : key = UndelegationBytes(x)
      OBVIOUS
  <2>2. Says(key, x) /\ Says(key, y)
      BY <1>2, <1>3, <2>1
  <2>3. y.ct = x.ct
      BY <1>1, <2>2, FixedWidthInjective
  <2>4. y.ct = x.ct /\ y.del = x.del
      BY <2>2, <2>3
  <2> QED
      BY <2>4 DEF UndelegationEntries
<1> QED
    BY <1>2, <1>3

LEMMA UnbondingIndexEntry ==
    ASSUME NEW x \in UnbondingIndexEntries
    PROVE  /\ UnbondingIndexBytes(x) \in Bytes /\ UnbondingIndexBytes(x)[1] = 50
           /\ \A y \in UnbondingIndexEntries : UnbondingIndexBytes(y) = UnbondingIndexBytes(x) => y = x
<1> DEFINE Says(key, y) ==
               /\ Field(key, 1) = y.val
               /\ Field(key, 2) = FixedWidth(y.ct)
               /\ Field(key, 3) = CreateDenomAddressPrefix(y.denom)
               /\ Field(key, 4) = y.del
<1>1. ASSUME NEW y \in UnbondingIndexEntries
      PROVE  y.val \in Bytes /\ y.ct \in Nat /\ y.denom \in Bytes /\ y.del \in Bytes
    BY FieldBytes DEF UnbondingIndexEntries
<1>2. ASSUME NEW y \in UnbondingIndexEntries
      PROVE  UnbondingIndexBytes(y) \in Bytes /\ UnbondingIndexBytes(y)[1] = 50 /\ Says(UnbondingIndexBytes(y), y)
  <2>1. PICK key : key = GetUnbondingIndexKey(y.val, y.ct, y.denom, y.del)
      OBVIOUS
  <2>2. key \in Bytes
      BY <1>1, <2>1, UnbondingIndexForm
  <2>3. key[1] = 50 /\ Says(key, y)
      BY <1>1, <2>1, UnbondingIndexFields
  <2> QED
      BY <2>1, <2>2, <2>3 DEF UnbondingIndexBytes
<1>3. ASSUME NEW y \in UnbondingIndexEntries, UnbondingIndexBytes(y) = UnbondingIndexBytes(x) PROVE y = x
  <2>1. PICK key : key = UnbondingIndexBytes(x)
      OBVIOUS
  <2>2. Says(key, x) /\ Says(key, y)
      BY <1>2, <1>3, <2>1
  <2>3. y.denom = x.denom
      BY <1>1, <2>2, DenomInjective
  <2>4. y.ct = x.ct
      BY <1>1, <2>2, FixedWidthInjective
  <2>5. y.val = x.val /\ y.ct = x.ct /\ y.denom = x.denom /\ y.del = x.del
      BY <2>2, <2>3, <2>4
  <2> QED
      BY <2>5 DEF UnbondingIndexEntries
<1> QED
    BY <1>2, <1>3

LEMMA DelegationEntry ==
    ASSUME NEW x \in DelegationEntries
    PROVE  /\ DelegationBytes(x) \in Bytes /\ DelegationBytes(x)[1] = 33
           /\ \A y \in DelegationEntries : DelegationBytes(y) = DelegationBytes(x) => y = x
<1> DEFINE Says(key, y) ==
               /\ Field(key, 1) = y.del
               /\ Field(key, 2) = y.val
               /\ Field(key, 3) = CreateDenomAddressPrefix(y.denom)
<1>1. ASSUME NEW y \in DelegationEntries
      PROVE  y.del \in Bytes /\ y.val \in Bytes /\ y.denom \in Bytes
    BY FieldBytes DEF DelegationEntries
<1>2. ASSUME NEW y \in DelegationEntries
      PROVE  DelegationBytes(y) \in Bytes /\ DelegationBytes(y)[1] = 33 /\ Says(DelegationBytes(y), y)
  <2>1. PICK key : key = GetDelegationKey(y.del, y.val, y.denom)
      OBVIOUS
  <2>2. key \in Bytes
      BY <1>1, <2>1, DelegationForm
  <2>3. key[1] = 33 /\ Says(key, y)
      BY <1>1, <2>1, DelegationFields
  <2> QED
      BY <2>1, <2>2, <2>3 DEF DelegationBytes
<1>3. ASSUME NEW y \in DelegationEntries, DelegationBytes(y) = DelegationBytes(x) PROVE y = x
  <2>1. PICK key : key = DelegationBytes(x)
      OBVIOUS
  <2>2. Says(key, x) /\ Says(key, y)
      BY <1>2, <1>3, <2>1
  <2>3. y.denom = x.denom
      BY <1>1, <2>2, DenomInjective
  <2>4. y.del = x.del /\ y.val = x.val /\ y.denom = x.denom
      BY <2>2, <2>3
  <2> QED
      BY <2>4 DEF DelegationEntries
<1> QED
    BY <1>2, <1>3

LEMMA SnapshotEntry ==
    ASSUME NEW x \in SnapshotEntries
    PROVE  /\ SnapshotBytes(x) \in Bytes /\ SnapshotBytes(x)[1] = 20
           /\ \A y \in SnapshotEntries : SnapshotBytes(y) = SnapshotBytes(x) => y = x
<1> DEFINE Says(key, y) ==
               /\ Field(key, 1) = CreateDenomAddressPrefix(y.denom)
               /\ Field(key, 2) = y.val
               /\ After(key, 2) = FixedWidth(y.height)
<1>1. ASSUME NEW y \in SnapshotEntries
      PROVE  y.denom \in Bytes /\ y.val \in Bytes /\ y.height \in Nat
    BY FieldBytes DEF SnapshotEntries
<1>2. ASSUME NEW y \in SnapshotEntries
      PROVE  SnapshotBytes(y) \in Bytes /\ SnapshotBytes(y)[1] = 20 /\ Says(SnapshotBytes(y), y)
  <2>1. PICK key : key = GetRewardWeightChangeSnapshotKey(y.denom, y.val, y.height)
      OBVIOUS
  <2>2. key \in Bytes
      BY <1>1, <2>1, SnapshotForm
  <2>3. key[1] = 20 /\ Says(key, y)
      BY <1>1, <2>1, SnapshotFields
  <2> QED
      BY <2>1, <2>2, <2>3 DEF SnapshotBytes
<1>3. ASSUME NEW y \in SnapshotEntries, SnapshotBytes(y) = SnapshotBytes(x) PROVE y = x
  <2>1. PICK key : key = SnapshotBytes(x)
      OBVIOUS
  <2>2. Says(key, x) /\ Says(key, y)
      BY <1>2, <1>3, <2>1
  <2>3. y.denom = x.denom
      BY <1>1, <2>2, DenomInjective
  <2>4. y.height = x.height
      BY <1>1, <2>2, FixedWidthInjective
  <2>5. y.denom = x.denom /\ y.val = x.val /\ y.height = x.height
      BY <2>2, <2>3, <2>4
  <2> QED
      BY <2>5 DEF SnapshotEntries
<1> QED
    BY <1>2, <1>3

LEMMA RedelegationQueueEntry ==
    ASSUME NEW ct \in Nat
    PROVE  /\ GetRedelegationQueueKey(ct) \in Bytes /\ GetRedelegationQueueKey(ct)[1] = 35
           /\ ParseRedelegationQueueKey(GetRedelegationQueueKey(ct)) = ct
           /\ \A t \in Nat : GetRedelegationQueueKey(t) = GetRedelegationQueueKey(ct) => t = ct
<1>1. \A t \in Nat : /\ GetRedelegationQueueKey(t) \in Bytes
                     /\ GetRedelegationQueueKey(t)[1] = 35
                     /\ After(GetRedelegationQueueKey(t), 0) = FixedWidth(t)
    BY RedelegationQueueForm, RedelegationQueueFields
<1> QED
    BY <1>1, FixedWidthBytes, FixedWidthInjective DEF ParseRedelegationQueueKey

LEMMA InfoEntry ==
    ASSUME NEW v \in Validators
    PROVE  /\ GetAllianceValidatorInfoKey(v) \in Bytes /\ GetAllianceValidatorInfoKey(v)[1] = 18
           /\ ParseAllianceValidatorKey(GetAllianceValidatorInfoKey(v)) = v
           /\ \A w \in Validators :
                 GetAllianceValidatorInfoKey(w) = GetAllianceValidatorInfoKey(v) => w = v
<1>1. \A w \in Validators : /\ GetAllianceValidatorInfoKey(w) \in Bytes
                            /\ GetAllianceValidatorInfoKey(w)[1] = 18
                            /\ ParseAllianceValidatorKey(GetAllianceValidatorInfoKey(w)) = w
    BY FieldBytes, InfoForm, InfoFields
<1> QED
    BY <1>1
-----------------------------------------------------------------------------
(* The inductive invariant. *)

QueuedRedelegations ==
    [del : Delegators, src : Validators, dst : Validators, denom : Denoms, amt : Nat]

QueuedUndelegations == [val : Validators, denom : Denoms, amt : Nat]

StoreTypes ==
    /\ now \in 0 .. Horizon
    /\ DOMAIN redels \subseteq RedelegationEntries
    /\ \A x \in DOMAIN redels : redels[x] \in [src : Validators, amt : Nat]
    /\ redelIndex \subseteq RedelegationIndexEntries
    /\ DOMAIN redelQueue \subseteq Nat
    /\ \A ct \in DOMAIN redelQueue : redelQueue[ct] \in Seq(QueuedRedelegations)
    /\ DOMAIN undelQueue \subseteq UndelegationEntries
    /\ \A x \in DOMAIN undelQueue : undelQueue[x] \in Seq(QueuedUndelegations)
    /\ undelIndex \subseteq UnbondingIndexEntries
    /\ dels \subseteq DelegationEntries
    /\ infos \subseteq Validators
    /\ snapshots \subseteq SnapshotEntries
    /\ \A x \in snapshots : x.height =< Horizon

\* Every key in the map is one that some entry may have.
AnyKey ==
    {RedelegationBytes(x) : x \in RedelegationEntries}
    \cup {RedelegationIndexBytes(x) : x \in RedelegationIndexEntries}
    \cup {GetRedelegationQueueKey(ct) : ct \in Nat}
    \cup {UndelegationBytes(x) : x \in UndelegationEntries}
    \cup {UnbondingIndexBytes(x) : x \in UnbondingIndexEntries}
    \cup {DelegationBytes(x) : x \in DelegationEntries}
    \cup {GetAllianceValidatorInfoKey(v) : v \in Validators}
    \cup {SnapshotBytes(x) : x \in SnapshotEntries}

KnownKeys == DOMAIN store \subseteq AnyKey /\ IsFiniteSet(DOMAIN store)

\* Store by store: an entry is there when its key is, with its value.
SameRedelegations ==
    /\ \A x \in RedelegationEntries : RedelegationBytes(x) \in DOMAIN store <=> x \in DOMAIN redels
    /\ \A x \in DOMAIN redels : store[RedelegationBytes(x)] = redels[x]

SameRedelegationIndex ==
    \A x \in RedelegationIndexEntries :
        RedelegationIndexBytes(x) \in DOMAIN store <=> x \in redelIndex

SameRedelegationQueue ==
    /\ \A ct \in Nat : GetRedelegationQueueKey(ct) \in DOMAIN store <=> ct \in DOMAIN redelQueue
    /\ \A ct \in DOMAIN redelQueue : store[GetRedelegationQueueKey(ct)] = redelQueue[ct]

SameUndelegations ==
    /\ \A x \in UndelegationEntries :
          UndelegationBytes(x) \in DOMAIN store <=> x \in DOMAIN undelQueue
    /\ \A x \in DOMAIN undelQueue : store[UndelegationBytes(x)] = undelQueue[x]

SameUnbondingIndex ==
    \A x \in UnbondingIndexEntries : UnbondingIndexBytes(x) \in DOMAIN store <=> x \in undelIndex

SameDelegations ==
    /\ \A x \in DelegationEntries : DelegationBytes(x) \in DOMAIN store <=> x \in dels
    /\ \A x \in dels : store[DelegationBytes(x)] = x

SameInfos ==
    \A v \in Validators : GetAllianceValidatorInfoKey(v) \in DOMAIN store <=> v \in infos

SameSnapshots ==
    \A x \in SnapshotEntries : SnapshotBytes(x) \in DOMAIN store <=> x \in snapshots

StoreInv ==
    /\ StoreTypes
    /\ KnownKeys
    /\ SameRedelegations /\ SameRedelegationIndex /\ SameRedelegationQueue
    /\ SameUndelegations /\ SameUnbondingIndex
    /\ SameDelegations /\ SameInfos /\ SameSnapshots

LEMMA HorizonType == Horizon \in Nat
BY BoundsAssumption, UnbondingTimeAssumption DEF Horizon

\* The first byte of a key names the store it is a key of.
LEMMA KindOfKey ==
    ASSUME NEW key \in AnyKey
    PROVE  /\ key \in Bytes
           /\ key[1] = 34 => \E x \in RedelegationEntries : key = RedelegationBytes(x)
           /\ key[1] = 49 => \E x \in RedelegationIndexEntries : key = RedelegationIndexBytes(x)
           /\ key[1] = 35 => \E ct \in Nat : key = GetRedelegationQueueKey(ct)
           /\ key[1] = 36 => \E x \in UndelegationEntries : key = UndelegationBytes(x)
           /\ key[1] = 50 => \E x \in UnbondingIndexEntries : key = UnbondingIndexBytes(x)
           /\ key[1] = 33 => \E x \in DelegationEntries : key = DelegationBytes(x)
           /\ key[1] = 18 => \E v \in Validators : key = GetAllianceValidatorInfoKey(v)
           /\ key[1] = 20 => \E x \in SnapshotEntries : key = SnapshotBytes(x)
<1>1. CASE key \in {RedelegationBytes(x) : x \in RedelegationEntries}
  <2>1. key \in Bytes /\ key[1] = 34
      BY <1>1, RedelegationEntry
  <2> QED
      BY <1>1, <2>1
<1>2. CASE key \in {RedelegationIndexBytes(x) : x \in RedelegationIndexEntries}
  <2>1. key \in Bytes /\ key[1] = 49
      BY <1>2, RedelegationIndexEntry
  <2> QED
      BY <1>2, <2>1
<1>3. CASE key \in {GetRedelegationQueueKey(ct) : ct \in Nat}
  <2>1. key \in Bytes /\ key[1] = 35
      BY <1>3, RedelegationQueueEntry
  <2> QED
      BY <1>3, <2>1
<1>4. CASE key \in {UndelegationBytes(x) : x \in UndelegationEntries}
  <2>1. key \in Bytes /\ key[1] = 36
      BY <1>4, UndelegationEntry
  <2> QED
      BY <1>4, <2>1
<1>5. CASE key \in {UnbondingIndexBytes(x) : x \in UnbondingIndexEntries}
  <2>1. key \in Bytes /\ key[1] = 50
      BY <1>5, UnbondingIndexEntry
  <2> QED
      BY <1>5, <2>1
<1>6. CASE key \in {DelegationBytes(x) : x \in DelegationEntries}
  <2>1. key \in Bytes /\ key[1] = 33
      BY <1>6, DelegationEntry
  <2> QED
      BY <1>6, <2>1
<1>7. CASE key \in {GetAllianceValidatorInfoKey(v) : v \in Validators}
  <2>1. key \in Bytes /\ key[1] = 18
      BY <1>7, InfoEntry
  <2> QED
      BY <1>7, <2>1
<1>8. CASE key \in {SnapshotBytes(x) : x \in SnapshotEntries}
  <2>1. key \in Bytes /\ key[1] = 20
      BY <1>8, SnapshotEntry
  <2> QED
      BY <1>8, <2>1
<1> QED
    BY <1>1, <1>2, <1>3, <1>4, <1>5, <1>6, <1>7, <1>8 DEF AnyKey

LEMMA EntryKeys ==
    /\ \A x \in RedelegationEntries : RedelegationBytes(x) \in AnyKey
    /\ \A x \in RedelegationIndexEntries : RedelegationIndexBytes(x) \in AnyKey
    /\ \A ct \in Nat : GetRedelegationQueueKey(ct) \in AnyKey
    /\ \A x \in UndelegationEntries : UndelegationBytes(x) \in AnyKey
    /\ \A x \in UnbondingIndexEntries : UnbondingIndexBytes(x) \in AnyKey
BY DEF AnyKey

\* Writing and deleting under keys.
LEMMA PutKeys ==
    ASSUME NEW f, NEW key, NEW value
    PROVE  /\ DOMAIN Put(f, key, value) = DOMAIN f \cup {key}
           /\ Put(f, key, value)[key] = value
           /\ \A k \in DOMAIN f : k # key => Put(f, key, value)[k] = f[k]
BY DEF Put

LEMMA EnqueueKeys ==
    ASSUME NEW f, NEW key, NEW e
    PROVE  /\ DOMAIN Enqueue(f, key, e) = DOMAIN f \cup {key}
           /\ Enqueue(f, key, e)[key] = Append(GetOr(f, key, <<>>), e)
           /\ \A k \in DOMAIN f : k # key => Enqueue(f, key, e)[k] = f[k]
<1>1. PICK value : value = Append(GetOr(f, key, <<>>), e)
    OBVIOUS
<1>2. Enqueue(f, key, e) = Put(f, key, value)
    BY <1>1 DEF Enqueue
<1>3. /\ DOMAIN Put(f, key, value) = DOMAIN f \cup {key}
      /\ Put(f, key, value)[key] = value
      /\ \A k \in DOMAIN f : k # key => Put(f, key, value)[k] = f[k]
    BY DEF Put
<1> QED
    BY <1>1, <1>2, <1>3

LEMMA PutEmptyKeys ==
    ASSUME NEW f, NEW keys
    PROVE  /\ DOMAIN PutEmpty(f, keys) = DOMAIN f \cup keys
           /\ \A k \in DOMAIN f : k \notin keys => PutEmpty(f, keys)[k] = f[k]
BY DEF PutEmpty

LEMMA WithoutKeys ==
    ASSUME NEW f, NEW keys
    PROVE  /\ DOMAIN Without(f, keys) = DOMAIN f \ keys
           /\ \A k \in DOMAIN f \ keys : Without(f, keys)[k] = f[k]
BY DEF Without, Restrict

\* A step that leaves the keys of a kind alone.
Kept(kind) ==
    \A key \in Bytes : key[1] = kind =>
        /\ key \in DOMAIN store' <=> key \in DOMAIN store
        /\ key \in DOMAIN store => store'[key] = store[key]

LEMMA KeptRedelegations ==
    ASSUME StoreTypes, SameRedelegations, Kept(34), redels' = redels
    PROVE  SameRedelegations'
<1>1. ASSUME NEW x \in RedelegationEntries
      PROVE  /\ RedelegationBytes(x) \in DOMAIN store' <=> RedelegationBytes(x) \in DOMAIN store
             /\ RedelegationBytes(x) \in DOMAIN store =>
                   store'[RedelegationBytes(x)] = store[RedelegationBytes(x)]
    BY RedelegationEntry DEF Kept
<1>2. DOMAIN redels \subseteq RedelegationEntries
    BY DEF StoreTypes
<1> QED
    BY <1>1, <1>2 DEF SameRedelegations

LEMMA KeptRedelegationIndex ==
    ASSUME SameRedelegationIndex, Kept(49), redelIndex' = redelIndex
    PROVE  SameRedelegationIndex'
<1>1. ASSUME NEW x \in RedelegationIndexEntries
      PROVE  /\ RedelegationIndexBytes(x) \in DOMAIN store' <=> RedelegationIndexBytes(x) \in DOMAIN store
             /\ RedelegationIndexBytes(x) \in DOMAIN store =>
                   store'[RedelegationIndexBytes(x)] = store[RedelegationIndexBytes(x)]
    BY RedelegationIndexEntry DEF Kept
<1> QED
    BY <1>1 DEF SameRedelegationIndex

LEMMA KeptRedelegationQueue ==
    ASSUME StoreTypes, SameRedelegationQueue, Kept(35), redelQueue' = redelQueue
    PROVE  SameRedelegationQueue'
<1>1. ASSUME NEW x \in Nat
      PROVE  /\ GetRedelegationQueueKey(x) \in DOMAIN store' <=> GetRedelegationQueueKey(x) \in DOMAIN store
             /\ GetRedelegationQueueKey(x) \in DOMAIN store =>
                   store'[GetRedelegationQueueKey(x)] = store[GetRedelegationQueueKey(x)]
    BY RedelegationQueueEntry DEF Kept
<1>2. DOMAIN redelQueue \subseteq Nat
    BY DEF StoreTypes
<1> QED
    BY <1>1, <1>2 DEF SameRedelegationQueue

LEMMA KeptUndelegations ==
    ASSUME StoreTypes, SameUndelegations, Kept(36), undelQueue' = undelQueue
    PROVE  SameUndelegations'
<1>1. ASSUME NEW x \in UndelegationEntries
      PROVE  /\ UndelegationBytes(x) \in DOMAIN store' <=> UndelegationBytes(x) \in DOMAIN store
             /\ UndelegationBytes(x) \in DOMAIN store =>
                   store'[UndelegationBytes(x)] = store[UndelegationBytes(x)]
    BY UndelegationEntry DEF Kept
<1>2. DOMAIN undelQueue \subseteq UndelegationEntries
    BY DEF StoreTypes
<1> QED
    BY <1>1, <1>2 DEF SameUndelegations

LEMMA KeptUnbondingIndex ==
    ASSUME SameUnbondingIndex, Kept(50), undelIndex' = undelIndex
    PROVE  SameUnbondingIndex'
<1>1. ASSUME NEW x \in UnbondingIndexEntries
      PROVE  /\ UnbondingIndexBytes(x) \in DOMAIN store' <=> UnbondingIndexBytes(x) \in DOMAIN store
             /\ UnbondingIndexBytes(x) \in DOMAIN store =>
                   store'[UnbondingIndexBytes(x)] = store[UnbondingIndexBytes(x)]
    BY UnbondingIndexEntry DEF Kept
<1> QED
    BY <1>1 DEF SameUnbondingIndex

LEMMA KeptDelegations ==
    ASSUME StoreTypes, SameDelegations, Kept(33), dels' = dels
    PROVE  SameDelegations'
<1>1. ASSUME NEW x \in DelegationEntries
      PROVE  /\ DelegationBytes(x) \in DOMAIN store' <=> DelegationBytes(x) \in DOMAIN store
             /\ DelegationBytes(x) \in DOMAIN store =>
                   store'[DelegationBytes(x)] = store[DelegationBytes(x)]
    BY DelegationEntry DEF Kept
<1>2. dels \subseteq DelegationEntries
    BY DEF StoreTypes
<1> QED
    BY <1>1, <1>2 DEF SameDelegations

LEMMA KeptInfos ==
    ASSUME SameInfos, Kept(18), infos' = infos
    PROVE  SameInfos'
<1>1. ASSUME NEW x \in Validators
      PROVE  /\ GetAllianceValidatorInfoKey(x) \in DOMAIN store' <=> GetAllianceValidatorInfoKey(x) \in DOMAIN store
             /\ GetAllianceValidatorInfoKey(x) \in DOMAIN store =>
                   store'[GetAllianceValidatorInfoKey(x)] = store[GetAllianceValidatorInfoKey(x)]
    BY InfoEntry DEF Kept
<1> QED
    BY <1>1 DEF SameInfos

LEMMA KeptSnapshots ==
    ASSUME SameSnapshots, Kept(20), snapshots' = snapshots
    PROVE  SameSnapshots'
<1>1. ASSUME NEW x \in SnapshotEntries
      PROVE  /\ SnapshotBytes(x) \in DOMAIN store' <=> SnapshotBytes(x) \in DOMAIN store
             /\ SnapshotBytes(x) \in DOMAIN store =>
                   store'[SnapshotBytes(x)] = store[SnapshotBytes(x)]
    BY SnapshotEntry DEF Kept
<1> QED
    BY <1>1 DEF SameSnapshots
-----------------------------------------------------------------------------
(* The keys that begin with a prefix. *)

LEMMA PrefixJoin2 ==
    ASSUME NEW p \in Bytes, NEW s \in Bytes, NEW t \in Bytes
    PROVE  IsPrefix(p, (p ++ s) ++ t)
<1>1. PICK f \in Bytes : f = s ++ t
    BY BytesConcat
<1>2. (p ++ s) ++ t = p ++ f
    BY <1>1, BytesAssociative
<1> QED
    BY <1>1, <1>2, PrefixJoin

\* The prefixes that handlers scan, as fields, and the entries they begin.
LEMMA DelegationPrefixes ==
    ASSUME NEW d \in Bytes, NEW v \in Bytes, NEW n \in Bytes
    PROVE  /\ GetDelegationsKey(d) = Byte(33) ++ LengthPrefix(d)
           /\ GetDelegationsKeyForAllDenoms(d, v) =
                  (Byte(33) ++ LengthPrefix(d)) ++ LengthPrefix(v)
           /\ IsPrefix(GetDelegationsKey(d), GetDelegationKey(d, v, n))
           /\ IsPrefix(GetDelegationsKeyForAllDenoms(d, v), GetDelegationKey(d, v, n))
<1>1. PICK k \in Bytes, a \in Bytes, b \in Bytes, c \in Bytes :
            /\ k = Byte(33) /\ a = LengthPrefix(d) /\ b = LengthPrefix(v)
            /\ c = LengthPrefix(CreateDenomAddressPrefix(n))
    BY BytesSingle, LengthPrefixBytes, DenomBytes
<1>2. /\ GetDelegationsKey(d) = k ++ a
      /\ GetDelegationsKeyForAllDenoms(d, v) = (k ++ a) ++ b
      /\ GetDelegationKey(d, v, n) = ((k ++ a) ++ b) ++ c
    BY <1>1 DEF GetDelegationKey, GetDelegationsKeyForAllDenoms, GetDelegationsKey,
                DelegationKey, ++, Byte
<1>3. PICK ka \in Bytes, kab \in Bytes : ka = k ++ a /\ kab = ka ++ b
    BY BytesConcat
<1>4. IsPrefix(ka, (ka ++ b) ++ c) /\ IsPrefix(kab, kab ++ c)
    BY PrefixJoin, PrefixJoin2
<1> QED
    BY <1>1, <1>2, <1>3, <1>4

LEMMA RedelegationPrefix ==
    ASSUME NEW d \in Bytes, NEW n \in Bytes, NEW dst \in Bytes, NEW ct \in Nat
    PROVE  /\ GetRedelegationsKey(d, n, dst) =
                  ((Byte(34) ++ LengthPrefix(d)) ++ LengthPrefix(CreateDenomAddressPrefix(n)))
                  ++ LengthPrefix(dst)
           /\ IsPrefix(GetRedelegationsKey(d, n, dst), GetRedelegationKey(d, n, dst, ct))
<1>1. PICK k \in Bytes, a \in Bytes, b \in Bytes, c \in Bytes, e \in Bytes :
            /\ k = Byte(34) /\ a = LengthPrefix(d) /\ c = LengthPrefix(dst)
            /\ b = LengthPrefix(CreateDenomAddressPrefix(n)) /\ e = FixedWidth(ct)
    BY BytesSingle, LengthPrefixBytes, FixedWidthBytes, DenomBytes
<1>2. /\ GetRedelegationsKey(d, n, dst) = ((k ++ a) ++ b) ++ c
      /\ GetRedelegationKey(d, n, dst, ct) = (((k ++ a) ++ b) ++ c) ++ e
    BY <1>1 DEF GetRedelegationKey, GetRedelegationsKey, RedelegationKey, ++, Byte
<1>3. PICK p \in Bytes : p = ((k ++ a) ++ b) ++ c
    BY BytesConcat
<1>4. IsPrefix(p, p ++ e)
    BY PrefixJoin
<1> QED
    BY <1>1, <1>2, <1>3, <1>4

LEMMA RedelegationIndexPrefix ==
    ASSUME NEW src \in Bytes, NEW ct \in Nat, NEW n \in Bytes,
           NEW dst \in Bytes, NEW d \in Bytes
    PROVE  /\ GetRedelegationsIndexOrderedByValidatorKey(src) = Byte(49) ++ LengthPrefix(src)
           /\ IsPrefix(GetRedelegationsIndexOrderedByValidatorKey(src),
                       GetRedelegationIndexKey(src, ct, n, dst, d))
<1>1. PICK k \in Bytes, a \in Bytes, b \in Bytes, c \in Bytes, e \in Bytes, f \in Bytes :
            /\ k = Byte(49) /\ a = LengthPrefix(src)
            /\ b = LengthPrefix(FixedWidth(ct))
            /\ c = LengthPrefix(CreateDenomAddressPrefix(n))
            /\ e = LengthPrefix(dst) /\ f = LengthPrefix(d)
    BY BytesSingle, LengthPrefixBytes, FixedWidthBytes, DenomBytes
<1>2. /\ GetRedelegationsIndexOrderedByValidatorKey(src) = k ++ a
      /\ GetRedelegationIndexKey(src, ct, n, dst, d) = ((((k ++ a) ++ b) ++ c) ++ e) ++ f
    BY <1>1 DEF GetRedelegationIndexKey, GetRedelegationsIndexOrderedByValidatorKey,
                RedelegationByValidatorIndexKey, ++, Byte
<1>3. PICK p \in Bytes, t \in Bytes : p = k ++ a /\ t = b ++ (c ++ (e ++ f))
    BY BytesConcat
<1>4. (((p ++ b) ++ c) ++ e) ++ f = p ++ t
  <2>1. (((p ++ b) ++ c) ++ e) ++ f = p ++ (b ++ (c ++ (e ++ f)))
      BY Join5
  <2> QED
      BY <1>3, <2>1
<1>5. IsPrefix(p, p ++ t)
    BY PrefixJoin
<1> QED
    BY <1>1, <1>2, <1>3, <1>4, <1>5

LEMMA UnbondingIndexPrefix ==
    ASSUME NEW v \in Bytes, NEW ct \in Nat, NEW n \in Bytes, NEW d \in Bytes
    PROVE  /\ GetUndelegationsIndexOrderedByValidatorKey(v) = Byte(50) ++ LengthPrefix(v)
           /\ IsPrefix(GetUndelegationsIndexOrderedByValidatorKey(v),
                       GetUnbondingIndexKey(v, ct, n, d))
<1>1. PICK k \in Bytes, a \in Bytes, b \in Bytes, c \in Bytes, e \in Bytes :
            /\ k = Byte(50) /\ a = LengthPrefix(v)
            /\ b = LengthPrefix(FixedWidth(ct))
            /\ c = LengthPrefix(CreateDenomAddressPrefix(n)) /\ e = LengthPrefix(d)
    BY BytesSingle, LengthPrefixBytes, FixedWidthBytes, DenomBytes
<1>2. /\ GetUndelegationsIndexOrderedByValidatorKey(v) = k ++ a
      /\ GetUnbondingIndexKey(v, ct, n, d) = (((k ++ a) ++ b) ++ c) ++ e
    BY <1>1 DEF GetUnbondingIndexKey, GetUndelegationsIndexOrderedByValidatorKey,
                UndelegationByValidatorIndexKey, ++, Byte
<1>3. PICK p \in Bytes, t \in Bytes : p = k ++ a /\ t = b ++ (c ++ e)
    BY BytesConcat
<1>4. ((p ++ b) ++ c) ++ e = p ++ t
    BY <1>3, Join4
<1>5. IsPrefix(p, p ++ t)
    BY PrefixJoin
<1> QED
    BY <1>1, <1>2, <1>3, <1>4, <1>5

\* A bare kind begins the keys of its store.
LEMMA BarePrefix ==
    ASSUME NEW kind \in Nat, NEW key \in Bytes
    PROVE  /\ IsPrefix(Byte(kind), key) => key[1] = kind
           /\ \A s \in Bytes : key = Byte(kind) ++ s => IsPrefix(Byte(kind), key)
<1>1. ASSUME IsPrefix(Byte(kind), key) PROVE key[1] = kind
  <2>1. PICK u \in Bytes : key = Byte(kind) ++ u
      BY <1>1, BytesSingle, PrefixMeans
  <2> QED
      BY <2>1, RemainsFirst
<1>2. ASSUME NEW s \in Bytes, key = Byte(kind) ++ s PROVE IsPrefix(Byte(kind), key)
    BY <1>2, BytesSingle, PrefixJoin
<1> QED
    BY <1>1, <1>2

-----------------------------------------------------------------------------
(* What the invariant says of scans. *)

\* The keys of the map by kind are those of the entries.
LEMMA StoredKeys ==
    ASSUME StoreInv, NEW key \in DOMAIN store
    PROVE  /\ key \in Bytes
           /\ key[1] = 34 => \E x \in DOMAIN redels : key = RedelegationBytes(x)
           /\ key[1] = 49 => \E x \in redelIndex : key = RedelegationIndexBytes(x)
           /\ key[1] = 35 => \E ct \in DOMAIN redelQueue : key = GetRedelegationQueueKey(ct)
           /\ key[1] = 36 => \E x \in DOMAIN undelQueue : key = UndelegationBytes(x)
           /\ key[1] = 50 => \E x \in undelIndex : key = UnbondingIndexBytes(x)
           /\ key[1] = 33 => \E x \in dels : key = DelegationBytes(x)
           /\ key[1] = 18 => \E v \in infos : key = GetAllianceValidatorInfoKey(v)
           /\ key[1] = 20 => \E x \in snapshots : key = SnapshotBytes(x)
<1>1. key \in AnyKey
    BY DEF StoreInv, KnownKeys
<1>2. /\ SameRedelegations /\ SameRedelegationIndex /\ SameRedelegationQueue
      /\ SameUndelegations /\ SameUnbondingIndex
      /\ SameDelegations /\ SameInfos /\ SameSnapshots
    BY DEF StoreInv
<1>3. key[1] = 34 => \E x \in DOMAIN redels : key = RedelegationBytes(x)
    BY <1>1, <1>2, KindOfKey DEF SameRedelegations
<1>4. key[1] = 49 => \E x \in redelIndex : key = RedelegationIndexBytes(x)
    BY <1>1, <1>2, KindOfKey DEF SameRedelegationIndex
<1>5. key[1] = 35 => \E ct \in DOMAIN redelQueue : key = GetRedelegationQueueKey(ct)
    BY <1>1, <1>2, KindOfKey DEF SameRedelegationQueue
<1>6. key[1] = 36 => \E x \in DOMAIN undelQueue : key = UndelegationBytes(x)
    BY <1>1, <1>2, KindOfKey DEF SameUndelegations
<1>7. key[1] = 50 => \E x \in undelIndex : key = UnbondingIndexBytes(x)
    BY <1>1, <1>2, KindOfKey DEF SameUnbondingIndex
<1>8. key[1] = 33 => \E x \in dels : key = DelegationBytes(x)
    BY <1>1, <1>2, KindOfKey DEF SameDelegations
<1>9. key[1] = 18 => \E v \in infos : key = GetAllianceValidatorInfoKey(v)
    BY <1>1, <1>2, KindOfKey DEF SameInfos
<1>10. key[1] = 20 => \E x \in snapshots : key = SnapshotBytes(x)
    BY <1>1, <1>2, KindOfKey DEF SameSnapshots
<1> QED
    BY <1>1, <1>3, <1>4, <1>5, <1>6, <1>7, <1>8, <1>9, <1>10, KindOfKey

\* Conversely, the key of every entry is in the map.
LEMMA EntriesStored ==
    ASSUME StoreInv
    PROVE  /\ \A x \in DOMAIN redels : x \in RedelegationEntries /\ RedelegationBytes(x) \in DOMAIN store
           /\ \A x \in redelIndex : /\ x \in RedelegationIndexEntries
                                    /\ RedelegationIndexBytes(x) \in DOMAIN store
           /\ \A ct \in DOMAIN redelQueue : ct \in Nat /\ GetRedelegationQueueKey(ct) \in DOMAIN store
           /\ \A x \in DOMAIN undelQueue : /\ x \in UndelegationEntries
                                           /\ UndelegationBytes(x) \in DOMAIN store
           /\ \A x \in undelIndex : x \in UnbondingIndexEntries /\ UnbondingIndexBytes(x) \in DOMAIN store
           /\ \A x \in dels : x \in DelegationEntries /\ DelegationBytes(x) \in DOMAIN store
           /\ \A v \in infos : v \in Validators /\ GetAllianceValidatorInfoKey(v) \in DOMAIN store
           /\ \A x \in snapshots : x \in SnapshotEntries /\ SnapshotBytes(x) \in DOMAIN store
BY DEF StoreInv, StoreTypes, SameRedelegations, SameRedelegationIndex, SameRedelegationQueue,
       SameUndelegations, SameUnbondingIndex, SameDelegations, SameInfos, SameSnapshots

LEMMA RedelegationScan ==
    ASSUME StoreInv, NEW d \in Delegators, NEW v \in Validators, NEW n \in Denoms
    PROVE  PrefixIterator(GetRedelegationsKey(d, n, v)) # {} <=> HasRedelegation(d, v, n)
<1>1. d \in Bytes /\ v \in Bytes /\ n \in Bytes
    BY FieldBytes
<1>2. PICK m \in Bytes : m = CreateDenomAddressPrefix(n)
    BY <1>1, DenomBytes
<1>3. ASSUME NEW key \in PrefixIterator(GetRedelegationsKey(d, n, v))
      PROVE  HasRedelegation(d, v, n)
  <2>1. key \in DOMAIN store /\ IsPrefix(GetRedelegationsKey(d, n, v), key)
      BY <1>3 DEF PrefixIterator
  <2>2. key \in Bytes
      BY <2>1, StoredKeys
  <2>3. IsPrefix(((Byte(34) ++ LengthPrefix(d)) ++ LengthPrefix(m)) ++ LengthPrefix(v), key)
      BY <1>1, <1>2, <2>1, RedelegationPrefix, 0 \in Nat
  <2>4. key[1] = 34 /\ Field(key, 1) = d /\ Field(key, 2) = m /\ Field(key, 3) = v
      BY <1>1, <2>2, <2>3, PrefixField3, 34 \in Nat
  <2>5. PICK x \in DOMAIN redels : key = RedelegationBytes(x)
      BY <2>1, <2>4, StoredKeys
  <2>6. x.del \in Bytes /\ x.denom \in Bytes /\ x.dst \in Bytes /\ x.ct \in Nat
      BY EntriesStored, FieldBytes DEF RedelegationEntries
  <2>7. key = GetRedelegationKey(x.del, x.denom, x.dst, x.ct)
      BY <2>5 DEF RedelegationBytes
  <2>8. /\ Field(key, 1) = x.del /\ Field(key, 2) = CreateDenomAddressPrefix(x.denom)
        /\ Field(key, 3) = x.dst
      BY <2>6, <2>7, RedelegationFields
  <2>9. x.del = d /\ x.denom = n /\ x.dst = v
      BY <1>1, <1>2, <2>4, <2>6, <2>8, DenomInjective
  <2> QED
      BY <2>9 DEF HasRedelegation
<1>4. ASSUME HasRedelegation(d, v, n) PROVE PrefixIterator(GetRedelegationsKey(d, n, v)) # {}
  <2>1. PICK x \in DOMAIN redels : x.del = d /\ x.dst = v /\ x.denom = n
      BY <1>4 DEF HasRedelegation
  <2>2. x.ct \in Nat /\ RedelegationBytes(x) \in DOMAIN store
      BY EntriesStored DEF RedelegationEntries
  <2>3. IsPrefix(GetRedelegationsKey(d, n, v), GetRedelegationKey(d, n, v, x.ct))
      BY <1>1, <2>2, RedelegationPrefix
  <2>4. RedelegationBytes(x) \in PrefixIterator(GetRedelegationsKey(d, n, v))
      BY <2>1, <2>2, <2>3 DEF PrefixIterator, RedelegationBytes
  <2> QED
      BY <2>4
<1> QED
    BY <1>3, <1>4

LEMMA DelegationScans ==
    ASSUME StoreInv, NEW d \in Delegators, NEW v \in Validators
    PROVE  /\ PrefixIterator(GetDelegationsKey(d)) =
                  {DelegationBytes(k) : k \in {x \in dels : x.del = d}}
           /\ PrefixIterator(GetDelegationsKeyForAllDenoms(d, v)) =
                  {DelegationBytes(k) : k \in {x \in dels : x.del = d /\ x.val = v}}
<1>1. d \in Bytes /\ v \in Bytes
    BY FieldBytes
<1>2. ASSUME NEW x \in dels
      PROVE  /\ x.del \in Bytes /\ x.val \in Bytes /\ x.denom \in Bytes
             /\ DelegationBytes(x) \in DOMAIN store
             /\ DelegationBytes(x) = GetDelegationKey(x.del, x.val, x.denom)
             /\ Field(DelegationBytes(x), 1) = x.del /\ Field(DelegationBytes(x), 2) = x.val
  <2>1. x.del \in Bytes /\ x.val \in Bytes /\ x.denom \in Bytes
      BY EntriesStored, FieldBytes DEF DelegationEntries
  <2>2. PICK key : key = GetDelegationKey(x.del, x.val, x.denom)
      OBVIOUS
  <2>3. Field(key, 1) = x.del /\ Field(key, 2) = x.val
      BY <2>1, <2>2, DelegationFields
  <2>4. DelegationBytes(x) = key
      BY <2>2 DEF DelegationBytes
  <2> QED
      BY <2>1, <2>2, <2>3, <2>4, EntriesStored
<1>3. PICK p, q : /\ p = GetDelegationsKey(d) /\ p = Byte(33) ++ LengthPrefix(d)
                  /\ q = GetDelegationsKeyForAllDenoms(d, v)
                  /\ q = (Byte(33) ++ LengthPrefix(d)) ++ LengthPrefix(v)
  <2>1. /\ GetDelegationsKey(d) = Byte(33) ++ LengthPrefix(d)
        /\ GetDelegationsKeyForAllDenoms(d, v) = (Byte(33) ++ LengthPrefix(d)) ++ LengthPrefix(v)
      BY <1>1, DelegationPrefixes
  <2> QED
      BY <2>1
<1>4. ASSUME NEW key \in DOMAIN store, IsPrefix(p, key)
      PROVE  \E x \in dels : x.del = d /\ key = DelegationBytes(x)
  <2>1. key[1] = 33 /\ Field(key, 1) = d
      BY <1>1, <1>3, <1>4, StoredKeys, PrefixField, 33 \in Nat
  <2>2. PICK x \in dels : key = DelegationBytes(x)
      BY <2>1, StoredKeys
  <2> QED
      BY <1>2, <2>1, <2>2
<1>5. ASSUME NEW key \in DOMAIN store, IsPrefix(q, key)
      PROVE  \E x \in dels : x.del = d /\ x.val = v /\ key = DelegationBytes(x)
  <2>1. key[1] = 33 /\ Field(key, 1) = d /\ Field(key, 2) = v
      BY <1>1, <1>3, <1>5, StoredKeys, PrefixField2, 33 \in Nat
  <2>2. PICK x \in dels : key = DelegationBytes(x)
      BY <2>1, StoredKeys
  <2> QED
      BY <1>2, <2>1, <2>2
<1>6. ASSUME NEW x \in dels, x.del = d
      PROVE  /\ IsPrefix(p, DelegationBytes(x))
             /\ x.val = v => IsPrefix(q, DelegationBytes(x))
  <2>1. IsPrefix(GetDelegationsKey(d), GetDelegationKey(d, x.val, x.denom))
      BY <1>1, <1>2, DelegationPrefixes
  <2>2. IsPrefix(GetDelegationsKeyForAllDenoms(d, v), GetDelegationKey(d, v, x.denom))
      BY <1>1, <1>2, DelegationPrefixes
  <2> QED
      BY <1>2, <1>3, <1>6, <2>1, <2>2
<1>7. PrefixIterator(p) = {DelegationBytes(k) : k \in {x \in dels : x.del = d}}
    BY <1>2, <1>4, <1>6 DEF PrefixIterator
<1>8. PrefixIterator(q) = {DelegationBytes(k) : k \in {x \in dels : x.del = d /\ x.val = v}}
    BY <1>2, <1>5, <1>6 DEF PrefixIterator
<1> QED
    BY <1>3, <1>7, <1>8

\* A range of heights ends before the height that never is.
LEMMA SnapshotRange ==
    ASSUME StoreInv, NEW v \in Validators, NEW n \in Denoms, NEW h \in Nat
    PROVE  Iterator(GetRewardWeightChangeSnapshotKey(n, v, h),
                    GetRewardWeightChangeSnapshotKey(n, v, MaxHeight)) =
               {SnapshotBytes(k) :
                   k \in {x \in snapshots : x.denom = n /\ x.val = v /\ x.height >= h}}
<1>1. v \in Bytes /\ n \in Bytes /\ MaxHeight \in Nat
    BY FieldBytes, HorizonType DEF MaxHeight
<1>2. PICK k \in Bytes, m \in Bytes, a \in Bytes, b \in Bytes :
            /\ k = Byte(20) /\ m = CreateDenomAddressPrefix(n)
            /\ a = LengthPrefix(m) /\ b = LengthPrefix(v)
    BY <1>1, BytesSingle, DenomBytes, LengthPrefixBytes
<1>3. PICK p \in Bytes : p = (k ++ a) ++ b
    BY BytesConcat
<1>4. ASSUME NEW t \in Nat
      PROVE  GetRewardWeightChangeSnapshotKey(n, v, t) = p ++ FixedWidth(t)
    BY <1>2, <1>3 DEF GetRewardWeightChangeSnapshotKey, RewardWeightChangeSnapshotKey, ++, Byte
<1>5. ASSUME NEW t \in Nat
      PROVE  /\ Before(p ++ FixedWidth(t), p ++ FixedWidth(h)) <=> t < h
             /\ Before(p ++ FixedWidth(t), p ++ FixedWidth(MaxHeight)) <=> t < MaxHeight
  <2>1. PICK f \in Bytes, g \in Bytes, e \in Bytes :
              f = FixedWidth(t) /\ g = FixedWidth(h) /\ e = FixedWidth(MaxHeight)
      BY <1>1, FixedWidthBytes
  <2>2. Before(FixedWidth(t) ++ <<>>, FixedWidth(h)) <=> t < h
      BY BytesEmpty, FixedWidthOrder
  <2>3. Before(FixedWidth(t) ++ <<>>, FixedWidth(MaxHeight)) <=> t < MaxHeight
      BY <1>1, BytesEmpty, FixedWidthOrder
  <2>4. Before(p ++ f, p ++ g) <=> Before(f, g)
      BY BeforeJoin
  <2>5. Before(p ++ f, p ++ e) <=> Before(f, e)
      BY BeforeJoin
  <2> QED
      BY <2>1, <2>2, <2>3, <2>4, <2>5, BytesEmpty
<1>6. ASSUME NEW x \in snapshots
      PROVE  /\ x.height \in Nat /\ x.height < MaxHeight
             /\ x.denom \in Bytes /\ x.val \in Bytes
             /\ SnapshotBytes(x) = GetRewardWeightChangeSnapshotKey(x.denom, x.val, x.height)
             /\ SnapshotBytes(x) \in DOMAIN store
  <2>1. x \in SnapshotEntries /\ SnapshotBytes(x) \in DOMAIN store
      BY EntriesStored
  <2>2. x.height =< Horizon
      BY DEF StoreInv, StoreTypes
  <2> QED
      BY <2>1, <2>2, FieldBytes, HorizonType DEF SnapshotEntries, SnapshotBytes, MaxHeight
<1>7. ASSUME NEW key \in DOMAIN store,
             ~Before(key, p ++ FixedWidth(h)), Before(key, p ++ FixedWidth(MaxHeight))
      PROVE  \E x \in snapshots : /\ x.denom = n /\ x.val = v /\ x.height >= h
                                  /\ key = SnapshotBytes(x)
  <2>1. key \in Bytes
      BY StoredKeys
  <2>2. PICK g \in Bytes, e \in Bytes : g = FixedWidth(h) /\ e = FixedWidth(MaxHeight)
      BY <1>1, FixedWidthBytes
  <2>3. IsPrefix(p, key)
      BY <1>7, <2>1, <2>2, RangePrefix
  <2>4. key[1] = 20 /\ Field(key, 1) = m /\ Field(key, 2) = v
    <3>1. IsPrefix((Byte(20) ++ LengthPrefix(m)) ++ LengthPrefix(v), key)
        BY <1>2, <1>3, <2>3
    <3> QED
        BY <1>1, <2>1, <3>1, PrefixField2, 20 \in Nat
  <2>5. PICK x \in snapshots : key = SnapshotBytes(x)
      BY <2>4, StoredKeys
  <2>6. key = GetRewardWeightChangeSnapshotKey(x.denom, x.val, x.height)
      BY <1>6, <2>5
  <2>7. Field(key, 1) = CreateDenomAddressPrefix(x.denom) /\ Field(key, 2) = x.val
      BY <1>6, <2>6, SnapshotFields
  <2>8. x.denom = n /\ x.val = v
      BY <1>1, <1>2, <1>6, <2>4, <2>7, DenomInjective
  <2>9. key = p ++ FixedWidth(x.height)
      BY <1>4, <1>6, <2>6, <2>8
  <2>10. ~(x.height < h)
      BY <1>5, <1>6, <1>7, <2>9
  <2> QED
      BY <1>6, <2>5, <2>8, <2>10
<1>8. ASSUME NEW x \in snapshots, x.denom = n, x.val = v, x.height >= h
      PROVE  /\ SnapshotBytes(x) \in DOMAIN store
             /\ ~Before(SnapshotBytes(x), p ++ FixedWidth(h))
             /\ Before(SnapshotBytes(x), p ++ FixedWidth(MaxHeight))
  <2>1. SnapshotBytes(x) = p ++ FixedWidth(x.height)
      BY <1>4, <1>6, <1>8
  <2>2. ~(x.height < h)
      BY <1>6, <1>8
  <2> QED
      BY <1>5, <1>6, <2>1, <2>2
<1>9. Iterator(p ++ FixedWidth(h), p ++ FixedWidth(MaxHeight)) =
          {SnapshotBytes(x) : x \in {y \in snapshots : y.denom = n /\ y.val = v /\ y.height >= h}}
    BY <1>7, <1>8 DEF Iterator
<1> QED
    BY <1>1, <1>4, <1>9

\* The completions' ranges: what completed before now, and nothing else.
LEMMA RedelegationRange ==
    ASSUME StoreInv
    PROVE  Iterator(RedelegationQueueKey, GetRedelegationQueueKey(now)) =
               {GetRedelegationQueueKey(ct) : ct \in DueRedels}
<1>1. now \in Nat
    BY HorizonType DEF StoreInv, StoreTypes
<1>2. PICK p \in Bytes, g \in Bytes : p = Byte(35) /\ g = FixedWidth(now)
    BY <1>1, BytesSingle, FixedWidthBytes
<1>3. RedelegationQueueKey = p ++ <<>> /\ <<>> \in Bytes
    BY <1>2, BytesEmpty DEF RedelegationQueueKey, Byte
<1>4. \A t \in Nat : GetRedelegationQueueKey(t) = p ++ FixedWidth(t)
    BY <1>2, RedelegationQueueForm
<1>5. ASSUME NEW t \in Nat
      PROVE  /\ ~Before(GetRedelegationQueueKey(t), p ++ <<>>)
             /\ Before(GetRedelegationQueueKey(t), p ++ g) <=> t < now
  <2>1. PICK f \in Bytes : f = FixedWidth(t)
      BY FixedWidthBytes
  <2>2. ~Before(p ++ f, p ++ <<>>)
      BY <1>3, BeforeJoin, BeforeNothing
  <2>3. Before(p ++ f, p ++ g) <=> Before(f, g)
      BY BeforeJoin
  <2>4. Before(FixedWidth(t) ++ <<>>, FixedWidth(now)) <=> t < now
      BY <1>1, <1>3, FixedWidthOrder
  <2>5. f ++ <<>> = f
      BY BytesEmpty
  <2> QED
      BY <1>2, <1>4, <2>1, <2>2, <2>3, <2>4, <2>5
<1>6. ASSUME NEW key \in DOMAIN store, ~Before(key, p ++ <<>>), Before(key, p ++ g)
      PROVE  \E ct \in DueRedels : key = GetRedelegationQueueKey(ct)
  <2>1. key \in Bytes
      BY StoredKeys
  <2>2. IsPrefix(p, key)
      BY <1>3, <1>6, <2>1, RangePrefix
  <2>3. key[1] = 35
      BY <1>2, <2>1, <2>2, BarePrefix
  <2>4. PICK ct \in DOMAIN redelQueue : key = GetRedelegationQueueKey(ct)
      BY <2>3, StoredKeys
  <2>5. ct \in Nat /\ ct < now
      BY <1>5, <1>6, <2>4, EntriesStored
  <2> QED
      BY <2>4, <2>5 DEF DueRedels
<1>7. ASSUME NEW ct \in DueRedels
      PROVE  /\ GetRedelegationQueueKey(ct) \in DOMAIN store
             /\ ~Before(GetRedelegationQueueKey(ct), p ++ <<>>)
             /\ Before(GetRedelegationQueueKey(ct), p ++ g)
  <2>1. ct \in DOMAIN redelQueue /\ ct < now
      BY DEF DueRedels
  <2> QED
      BY <1>5, <2>1, EntriesStored
<1>8. Iterator(p ++ <<>>, p ++ g) = {GetRedelegationQueueKey(ct) : ct \in DueRedels}
    BY <1>6, <1>7 DEF Iterator
<1> QED
    BY <1>1, <1>2, <1>3, <1>4, <1>8

LEMMA UndelegationRange ==
    ASSUME StoreInv
    PROVE  Iterator(UndelegationQueueKey, GetUndelegationQueueKeyByTime(now)) =
               {UndelegationBytes(k) : k \in DueUndels}
<1>1. now \in Nat
    BY HorizonType DEF StoreInv, StoreTypes
<1>2. PICK p \in Bytes, l \in Bytes, g \in Bytes :
            p = Byte(36) /\ l = Byte(2) /\ g = FixedWidth(now)
    BY <1>1, BytesSingle, FixedWidthBytes
<1>3. UndelegationQueueKey = p ++ <<>> /\ <<>> \in Bytes
    BY <1>2, BytesEmpty DEF UndelegationQueueKey, Byte
<1>4. \A t \in Nat : LengthPrefix(FixedWidth(t)) = l ++ FixedWidth(t)
    BY <1>2, FixedWidthBytes DEF LengthPrefix, Byte, ++
<1>5. PICK e \in Bytes : e = l ++ g
    BY BytesConcat
<1>6. GetUndelegationQueueKeyByTime(now) = p ++ e
    BY <1>1, <1>2, <1>4, <1>5 DEF GetUndelegationQueueKeyByTime, UndelegationQueueKey, Byte, ++
<1>7. ASSUME NEW x \in UndelegationEntries
      PROVE  /\ ~Before(UndelegationBytes(x), p ++ <<>>)
             /\ Before(UndelegationBytes(x), p ++ e) <=> x.ct < now
  <2>1. x.ct \in Nat /\ x.del \in Bytes
      BY FieldBytes DEF UndelegationEntries
  <2>2. PICK f \in Bytes, d \in Bytes : f = FixedWidth(x.ct) /\ d = LengthPrefix(x.del)
      BY <2>1, FixedWidthBytes, LengthPrefixBytes
  <2>3. PICK s \in Bytes, u \in Bytes : s = f ++ d /\ u = l ++ s
      BY BytesConcat
  <2>4. UndelegationBytes(x) = p ++ u
    <3>1. UndelegationBytes(x) = p ++ (LengthPrefix(FixedWidth(x.ct)) ++ LengthPrefix(x.del))
        BY <1>2, <2>1, UndelegationQueueForm DEF UndelegationBytes
    <3>2. UndelegationBytes(x) = p ++ ((l ++ f) ++ d)
        BY <1>4, <2>1, <2>2, <3>1
    <3> QED
        BY <2>3, <3>2, BytesAssociative
  <2>5. ~Before(p ++ u, p ++ <<>>)
      BY <1>3, BeforeJoin, BeforeNothing
  <2>6. Before(p ++ u, p ++ e) <=> Before(u, e)
      BY BeforeJoin
  <2>7. Before(l ++ s, l ++ g) <=> Before(s, g)
      BY BeforeJoin
  <2>8. Before(FixedWidth(x.ct) ++ d, FixedWidth(now)) <=> x.ct < now
      BY <1>1, <2>1, FixedWidthOrder
  <2> QED
      BY <1>2, <1>5, <2>2, <2>3, <2>4, <2>5, <2>6, <2>7, <2>8
<1>8. ASSUME NEW key \in DOMAIN store, ~Before(key, p ++ <<>>), Before(key, p ++ e)
      PROVE  \E x \in DueUndels : key = UndelegationBytes(x)
  <2>1. key \in Bytes
      BY StoredKeys
  <2>2. IsPrefix(p, key)
      BY <1>3, <1>8, <2>1, RangePrefix
  <2>3. key[1] = 36
      BY <1>2, <2>1, <2>2, BarePrefix
  <2>4. PICK x \in DOMAIN undelQueue : key = UndelegationBytes(x)
      BY <2>3, StoredKeys
  <2>5. x.ct < now
      BY <1>7, <1>8, <2>4, EntriesStored
  <2> QED
      BY <2>4, <2>5 DEF DueUndels
<1>9. ASSUME NEW x \in DueUndels
      PROVE  /\ UndelegationBytes(x) \in DOMAIN store
             /\ ~Before(UndelegationBytes(x), p ++ <<>>)
             /\ Before(UndelegationBytes(x), p ++ e)
  <2>1. x \in DOMAIN undelQueue /\ x.ct < now
      BY DEF DueUndels
  <2> QED
      BY <1>7, <2>1, EntriesStored
<1>10. Iterator(p ++ <<>>, p ++ e) = {UndelegationBytes(k) : k \in DueUndels}
    BY <1>8, <1>9 DEF Iterator
<1> QED
    BY <1>3, <1>6, <1>10

\* The indexes by validator, parsed.
LEMMA RedelegationIndexScan ==
    ASSUME StoreInv, NEW v \in Validators
    PROVE  {ParseRedelegationIndexForRedelegationKey(k) :
               k \in PrefixIterator(GetRedelegationsIndexOrderedByValidatorKey(v))} =
           {[key |-> RedelegationBytes(x), completion |-> x.ct] :
               x \in {y \in redelIndex : y.src = v}}
<1>1. v \in Bytes
    BY FieldBytes
<1>2. PICK p : /\ p = GetRedelegationsIndexOrderedByValidatorKey(v)
               /\ p = Byte(49) ++ LengthPrefix(v)
    BY <1>1, RedelegationIndexPrefix, 0 \in Nat
<1>3. ASSUME NEW x \in redelIndex
      PROVE  /\ RedelegationIndexBytes(x) \in DOMAIN store
             /\ Field(RedelegationIndexBytes(x), 1) = x.src
             /\ x.src = v => IsPrefix(p, RedelegationIndexBytes(x))
             /\ ParseRedelegationIndexForRedelegationKey(RedelegationIndexBytes(x)) =
                    [key |-> RedelegationBytes(x), completion |-> x.ct]
  <2>1. /\ x.src \in Bytes /\ x.ct \in Nat /\ x.denom \in Bytes
        /\ x.dst \in Bytes /\ x.del \in Bytes
      BY EntriesStored, FieldBytes DEF RedelegationIndexEntries
  <2>2. PICK key : /\ key = RedelegationIndexBytes(x)
                   /\ key = GetRedelegationIndexKey(x.src, x.ct, x.denom, x.dst, x.del)
      BY DEF RedelegationIndexBytes
  <2>3. /\ Field(key, 1) = x.src
        /\ Field(key, 2) = FixedWidth(x.ct) /\ Field(key, 3) = CreateDenomAddressPrefix(x.denom)
        /\ Field(key, 4) = x.dst /\ Field(key, 5) = x.del
      BY <2>1, <2>2, RedelegationIndexFields
  <2>4. ASSUME x.src = v PROVE IsPrefix(p, key)
      BY <1>2, <2>1, <2>2, <2>4, RedelegationIndexPrefix
  <2>5. ParseFixedWidth(FixedWidth(x.ct)) = x.ct
      BY <2>1, FixedWidthBytes
  <2>6. ParseRedelegationIndexForRedelegationKey(key) =
            [key |-> RedelegationBytes(x), completion |-> x.ct]
    <3>1. RedelegationBytes(x) =
              RedelegationKey \o LengthPrefix(Field(key, 5)) \o LengthPrefix(Field(key, 3))
              \o LengthPrefix(Field(key, 4)) \o Field(key, 2)
        BY <2>3 DEF RedelegationBytes, GetRedelegationKey, GetRedelegationsKey
    <3> QED
        BY <2>3, <2>5, <3>1 DEF ParseRedelegationIndexForRedelegationKey
  <2> QED
      BY <2>2, <2>3, <2>4, <2>6, EntriesStored
<1>4. ASSUME NEW key \in DOMAIN store, IsPrefix(p, key)
      PROVE  \E x \in redelIndex : x.src = v /\ key = RedelegationIndexBytes(x)
  <2>1. key[1] = 49 /\ Field(key, 1) = v
      BY <1>1, <1>2, <1>4, StoredKeys, PrefixField, 49 \in Nat
  <2>2. PICK x \in redelIndex : key = RedelegationIndexBytes(x)
      BY <2>1, StoredKeys
  <2> QED
      BY <1>3, <2>1, <2>2
<1>5. PrefixIterator(p) = {RedelegationIndexBytes(x) : x \in {y \in redelIndex : y.src = v}}
    BY <1>3, <1>4 DEF PrefixIterator
<1> QED
    BY <1>2, <1>3, <1>5

LEMMA UnbondingIndexScan ==
    ASSUME StoreInv, NEW v \in Validators
    PROVE  {ParseUnbondingIndexKeyToUndelegationKey(k) :
               k \in PrefixIterator(GetUndelegationsIndexOrderedByValidatorKey(v))} =
           {[key |-> UndelegationBytes(x), completion |-> x.ct] :
               x \in {y \in undelIndex : y.val = v}}
<1>1. v \in Bytes
    BY FieldBytes
<1>2. PICK p : /\ p = GetUndelegationsIndexOrderedByValidatorKey(v)
               /\ p = Byte(50) ++ LengthPrefix(v)
    BY <1>1, UnbondingIndexPrefix, 0 \in Nat
<1>3. ASSUME NEW x \in undelIndex
      PROVE  /\ UnbondingIndexBytes(x) \in DOMAIN store
             /\ Field(UnbondingIndexBytes(x), 1) = x.val
             /\ x.val = v => IsPrefix(p, UnbondingIndexBytes(x))
             /\ ParseUnbondingIndexKeyToUndelegationKey(UnbondingIndexBytes(x)) =
                    [key |-> UndelegationBytes(x), completion |-> x.ct]
  <2>1. x.val \in Bytes /\ x.ct \in Nat /\ x.denom \in Bytes /\ x.del \in Bytes
      BY EntriesStored, FieldBytes DEF UnbondingIndexEntries
  <2>2. PICK key : /\ key = UnbondingIndexBytes(x)
                   /\ key = GetUnbondingIndexKey(x.val, x.ct, x.denom, x.del)
      BY DEF UnbondingIndexBytes
  <2>3. /\ Field(key, 1) = x.val
        /\ Field(key, 2) = FixedWidth(x.ct) /\ Field(key, 4) = x.del
      BY <2>1, <2>2, UnbondingIndexFields
  <2>4. ASSUME x.val = v PROVE IsPrefix(p, key)
      BY <1>2, <2>1, <2>2, <2>4, UnbondingIndexPrefix
  <2>5. ParseFixedWidth(FixedWidth(x.ct)) = x.ct
      BY <2>1, FixedWidthBytes
  <2>6. ParseUnbondingIndexKeyToUndelegationKey(key) =
            [key |-> UndelegationBytes(x), completion |-> x.ct]
    <3>1. UndelegationBytes(x) =
              UndelegationQueueKey \o LengthPrefix(Field(key, 2)) \o LengthPrefix(Field(key, 4))
        BY <2>3 DEF UndelegationBytes, GetUndelegationQueueKey, GetUndelegationQueueKeyByTime
    <3> QED
        BY <2>3, <2>5, <3>1 DEF ParseUnbondingIndexKeyToUndelegationKey
  <2> QED
      BY <2>2, <2>3, <2>4, <2>6, EntriesStored
<1>4. ASSUME NEW key \in DOMAIN store, IsPrefix(p, key)
      PROVE  \E x \in undelIndex : x.val = v /\ key = UnbondingIndexBytes(x)
  <2>1. key[1] = 50 /\ Field(key, 1) = v
      BY <1>1, <1>2, <1>4, StoredKeys, PrefixField, 50 \in Nat
  <2>2. PICK x \in undelIndex : key = UnbondingIndexBytes(x)
      BY <2>1, StoredKeys
  <2> QED
      BY <1>3, <2>1, <2>2
<1>5. PrefixIterator(p) = {UnbondingIndexBytes(x) : x \in {y \in undelIndex : y.val = v}}
    BY <1>3, <1>4 DEF PrefixIterator
<1> QED
    BY <1>2, <1>3, <1>5

\* The scans of a whole store, parsed.
LEMMA InfoScan ==
    ASSUME StoreInv
    PROVE  {ParseAllianceValidatorKey(k) : k \in PrefixIterator(ValidatorInfoKey)} = infos
<1>1. ValidatorInfoKey = Byte(18)
    BY DEF ValidatorInfoKey, Byte
<1>2. ASSUME NEW v \in infos
      PROVE  /\ GetAllianceValidatorInfoKey(v) \in PrefixIterator(ValidatorInfoKey)
             /\ ParseAllianceValidatorKey(GetAllianceValidatorInfoKey(v)) = v
  <2>1. v \in Validators /\ v \in Bytes /\ GetAllianceValidatorInfoKey(v) \in DOMAIN store
      BY EntriesStored, FieldBytes
  <2>2. PICK s \in Bytes : s = LengthPrefix(v)
      BY <2>1, LengthPrefixBytes
  <2>3. GetAllianceValidatorInfoKey(v) \in Bytes /\ GetAllianceValidatorInfoKey(v) = Byte(18) ++ s
      BY <2>1, <2>2, InfoForm
  <2>4. IsPrefix(Byte(18), GetAllianceValidatorInfoKey(v))
      BY <2>3, BarePrefix, 18 \in Nat
  <2> QED
      BY <1>1, <2>1, <2>4, InfoEntry DEF PrefixIterator
<1>3. ASSUME NEW key \in PrefixIterator(ValidatorInfoKey)
      PROVE  \E v \in infos : key = GetAllianceValidatorInfoKey(v)
  <2>1. key \in DOMAIN store /\ IsPrefix(Byte(18), key)
      BY <1>1, <1>3 DEF PrefixIterator
  <2>2. key[1] = 18
      BY <2>1, StoredKeys, BarePrefix, 18 \in Nat
  <2> QED
      BY <2>1, <2>2, StoredKeys
<1> QED
    BY <1>2, <1>3

LEMMA SnapshotScan ==
    ASSUME StoreInv
    PROVE  {ParseRewardWeightChangeSnapshotKey(k) :
               k \in PrefixIterator(RewardWeightChangeSnapshotKey)} = snapshots
<1>1. RewardWeightChangeSnapshotKey = Byte(20)
    BY DEF RewardWeightChangeSnapshotKey, Byte
<1>2. ASSUME NEW x \in snapshots
      PROVE  /\ SnapshotBytes(x) \in PrefixIterator(RewardWeightChangeSnapshotKey)
             /\ ParseRewardWeightChangeSnapshotKey(SnapshotBytes(x)) = x
  <2>1. x \in SnapshotEntries /\ SnapshotBytes(x) \in DOMAIN store
      BY EntriesStored
  <2>2. x.denom \in Bytes /\ x.val \in Bytes /\ x.height \in Nat
      BY <2>1, FieldBytes DEF SnapshotEntries
  <2>3. PICK key : /\ key = SnapshotBytes(x)
                   /\ key = GetRewardWeightChangeSnapshotKey(x.denom, x.val, x.height)
      BY DEF SnapshotBytes
  <2>4. /\ Field(key, 1) = CreateDenomAddressPrefix(x.denom)
        /\ Field(key, 2) = x.val /\ After(key, 2) = FixedWidth(x.height)
      BY <2>2, <2>3, SnapshotFields
  <2>5. PICK m \in Bytes : m = CreateDenomAddressPrefix(x.denom) /\ SubSeq(m, 1, Len(m) - 1) = x.denom
      BY <2>2, DenomBytes
  <2>6. ParseFixedWidth(FixedWidth(x.height)) = x.height
      BY <2>2, FixedWidthBytes
  <2>7. ParseRewardWeightChangeSnapshotKey(key) =
            [denom |-> x.denom, val |-> x.val, height |-> x.height]
      BY <2>4, <2>5, <2>6 DEF ParseRewardWeightChangeSnapshotKey
  <2>8. [denom |-> x.denom, val |-> x.val, height |-> x.height] = x
      BY <2>1 DEF SnapshotEntries
  <2>9. PICK s \in Bytes : s = LengthPrefix(CreateDenomAddressPrefix(x.denom))
                                 ++ (LengthPrefix(x.val) ++ FixedWidth(x.height))
      BY <2>2, <2>5, LengthPrefixBytes, FixedWidthBytes, BytesConcat
  <2>10. key \in Bytes /\ key = Byte(20) ++ s
    <3>1. /\ GetRewardWeightChangeSnapshotKey(x.denom, x.val, x.height) \in Bytes
          /\ GetRewardWeightChangeSnapshotKey(x.denom, x.val, x.height) =
                 Byte(20) ++ (LengthPrefix(CreateDenomAddressPrefix(x.denom))
                     ++ (LengthPrefix(x.val) ++ FixedWidth(x.height)))
        BY <2>2, SnapshotForm
    <3> QED
        BY <2>3, <2>9, <3>1
  <2>11. IsPrefix(Byte(20), key)
      BY <2>10, BarePrefix, 20 \in Nat
  <2> QED
      BY <1>1, <2>1, <2>3, <2>7, <2>8, <2>11 DEF PrefixIterator
<1>3. ASSUME NEW key \in PrefixIterator(RewardWeightChangeSnapshotKey)
      PROVE  \E x \in snapshots : key = SnapshotBytes(x)
  <2>1. key \in DOMAIN store /\ IsPrefix(Byte(20), key)
      BY <1>1, <1>3 DEF PrefixIterator
  <2>2. key[1] = 20
      BY <2>1, StoredKeys, BarePrefix, 20 \in Nat
  <2> QED
      BY <2>1, <2>2, StoredKeys
<1> QED
    BY <1>2, <1>3

LEMMA RedelegationTime ==
    ASSUME NEW x \in RedelegationEntries
    PROVE  ParseRedelegationKeyForCompletionTime(RedelegationBytes(x)) = x.ct
<1>1. x.del \in Bytes /\ x.denom \in Bytes /\ x.dst \in Bytes /\ x.ct \in Nat
    BY FieldBytes DEF RedelegationEntries
<1>2. PICK key : /\ key = RedelegationBytes(x)
                 /\ key = GetRedelegationKey(x.del, x.denom, x.dst, x.ct)
    BY DEF RedelegationBytes
<1>3. After(key, 3) = FixedWidth(x.ct)
    BY <1>1, <1>2, RedelegationFields
<1> QED
    BY <1>1, <1>2, <1>3, FixedWidthBytes DEF ParseRedelegationKeyForCompletionTime

LEMMA InvScansAreExact ==
    ASSUME StoreInv
    PROVE  ScansAreExact
<1>1. \A h \in 0 .. Horizon : h \in Nat
    BY HorizonType
<1> QED
    BY <1>1, RedelegationScan, DelegationScans, SnapshotRange DEF ScansAreExact

LEMMA InvKeysLeadBack ==
    ASSUME StoreInv
    PROVE  KeysLeadBack
<1>1. \A k \in DOMAIN redels : ParseRedelegationKeyForCompletionTime(RedelegationBytes(k)) = k.ct
    BY EntriesStored, RedelegationTime
<1> QED
    BY <1>1, RedelegationIndexScan, UnbondingIndexScan, SnapshotScan DEF KeysLeadBack

-----------------------------------------------------------------------------
(* Counting the keys. *)

\* Different keys for different entries: as many keys as entries, and finitely many.
LEMMA ImageCount ==
    ASSUME NEW S, NEW T, IsFiniteSet(T), NEW f \in [S -> T],
           \A x, y \in S : f[x] = f[y] => x = y, \A t \in T : \E x \in S : f[x] = t
    PROVE  IsFiniteSet(S) /\ Cardinality(T) = Cardinality(S)
<1>1. f \in Injection(S, T)
    BY DEF Injection, IsInjective
<1>2. f \in Surjection(S, T)
    BY DEF Surjection
<1> QED
    BY <1>1, <1>2, FS_Injection

LEMMA DisjointCount ==
    ASSUME NEW S, NEW T, IsFiniteSet(S), IsFiniteSet(T), S \cap T = {}
    PROVE  IsFiniteSet(S \cup T) /\ Cardinality(S \cup T) = Cardinality(S) + Cardinality(T)
<1>1. Cardinality(S) \in Nat /\ Cardinality(T) \in Nat
    BY FS_CardinalityType
<1>2. Cardinality({}) = 0
    BY FS_EmptySet
<1>3. /\ IsFiniteSet(S \cup T)
      /\ Cardinality(S \cup T) = Cardinality(S) + Cardinality(T) - Cardinality(S \cap T)
    BY FS_Union
<1>4. Cardinality(S \cap T) = 0
    BY <1>2
<1> QED
    BY <1>1, <1>3, <1>4

\* Sets of keys of different kinds.
LEMMA KindsCount ==
    ASSUME NEW A, NEW B, NEW C, NEW D, NEW E, NEW F, NEW G, NEW H,
           IsFiniteSet(A), IsFiniteSet(B), IsFiniteSet(C), IsFiniteSet(D),
           IsFiniteSet(E), IsFiniteSet(F), IsFiniteSet(G), IsFiniteSet(H),
           \A k \in A : k[1] = 34, \A k \in B : k[1] = 49, \A k \in C : k[1] = 35,
           \A k \in D : k[1] = 36, \A k \in E : k[1] = 50, \A k \in F : k[1] = 33,
           \A k \in G : k[1] = 18, \A k \in H : k[1] = 20
    PROVE  Cardinality(A \cup B \cup C \cup D \cup E \cup F \cup G \cup H) =
               Cardinality(A) + Cardinality(B) + Cardinality(C) + Cardinality(D)
               + Cardinality(E) + Cardinality(F) + Cardinality(G) + Cardinality(H)
<1>1. PICK V1 : V1 = A /\ IsFiniteSet(V1) /\ (\A k \in V1 : k[1] \in {34})
                /\ Cardinality(V1) = Cardinality(A)
    OBVIOUS
<1>2. PICK V2 : /\ V2 = V1 \cup B /\ IsFiniteSet(V2)
                /\ \A k \in V2 : k[1] \in {34, 49}
                /\ Cardinality(V2) = Cardinality(V1) + Cardinality(B)
  <2>1. V1 \cap B = {}
      BY <1>1
  <2>2. IsFiniteSet(V1 \cup B) /\ Cardinality(V1 \cup B) = Cardinality(V1) + Cardinality(B)
      BY <1>1, <2>1, DisjointCount
  <2>3. \A k \in V1 \cup B : k[1] \in {34, 49}
      BY <1>1
  <2> QED
      BY <2>2, <2>3
<1>3. PICK V3 : /\ V3 = V2 \cup C /\ IsFiniteSet(V3)
                /\ \A k \in V3 : k[1] \in {34, 49, 35}
                /\ Cardinality(V3) = Cardinality(V2) + Cardinality(C)
  <2>1. V2 \cap C = {}
      BY <1>2
  <2>2. IsFiniteSet(V2 \cup C) /\ Cardinality(V2 \cup C) = Cardinality(V2) + Cardinality(C)
      BY <1>2, <2>1, DisjointCount
  <2>3. \A k \in V2 \cup C : k[1] \in {34, 49, 35}
      BY <1>2
  <2> QED
      BY <2>2, <2>3
<1>4. PICK V4 : /\ V4 = V3 \cup D /\ IsFiniteSet(V4)
                /\ \A k \in V4 : k[1] \in {34, 49, 35, 36}
                /\ Cardinality(V4) = Cardinality(V3) + Cardinality(D)
  <2>1. V3 \cap D = {}
      BY <1>3
  <2>2. IsFiniteSet(V3 \cup D) /\ Cardinality(V3 \cup D) = Cardinality(V3) + Cardinality(D)
      BY <1>3, <2>1, DisjointCount
  <2>3. \A k \in V3 \cup D : k[1] \in {34, 49, 35, 36}
      BY <1>3
  <2> QED
      BY <2>2, <2>3
<1>5. PICK V5 : /\ V5 = V4 \cup E /\ IsFiniteSet(V5)
                /\ \A k \in V5 : k[1] \in {34, 49, 35, 36, 50}
                /\ Cardinality(V5) = Cardinality(V4) + Cardinality(E)
  <2>1. V4 \cap E = {}
      BY <1>4
  <2>2. IsFiniteSet(V4 \cup E) /\ Cardinality(V4 \cup E) = Cardinality(V4) + Cardinality(E)
      BY <1>4, <2>1, DisjointCount
  <2>3. \A k \in V4 \cup E : k[1] \in {34, 49, 35, 36, 50}
      BY <1>4
  <2> QED
      BY <2>2, <2>3
<1>6. PICK V6 : /\ V6 = V5 \cup F /\ IsFiniteSet(V6)
                /\ \A k \in V6 : k[1] \in {34, 49, 35, 36, 50, 33}
                /\ Cardinality(V6) = Cardinality(V5) + Cardinality(F)
  <2>1. V5 \cap F = {}
      BY <1>5
  <2>2. IsFiniteSet(V5 \cup F) /\ Cardinality(V5 \cup F) = Cardinality(V5) + Cardinality(F)
      BY <1>5, <2>1, DisjointCount
  <2>3. \A k \in V5 \cup F : k[1] \in {34, 49, 35, 36, 50, 33}
      BY <1>5
  <2> QED
      BY <2>2, <2>3
<1>7. PICK V7 : /\ V7 = V6 \cup G /\ IsFiniteSet(V7)
                /\ \A k \in V7 : k[1] \in {34, 49, 35, 36, 50, 33, 18}
                /\ Cardinality(V7) = Cardinality(V6) + Cardinality(G)
  <2>1. V6 \cap G = {}
      BY <1>6
  <2>2. IsFiniteSet(V6 \cup G) /\ Cardinality(V6 \cup G) = Cardinality(V6) + Cardinality(G)
      BY <1>6, <2>1, DisjointCount
  <2>3. \A k \in V6 \cup G : k[1] \in {34, 49, 35, 36, 50, 33, 18}
      BY <1>6
  <2> QED
      BY <2>2, <2>3
<1>8. PICK V8 : /\ V8 = V7 \cup H /\ IsFiniteSet(V8)
                /\ \A k \in V8 : k[1] \in {34, 49, 35, 36, 50, 33, 18, 20}
                /\ Cardinality(V8) = Cardinality(V7) + Cardinality(H)
  <2>1. V7 \cap H = {}
      BY <1>7
  <2>2. IsFiniteSet(V7 \cup H) /\ Cardinality(V7 \cup H) = Cardinality(V7) + Cardinality(H)
      BY <1>7, <2>1, DisjointCount
  <2>3. \A k \in V7 \cup H : k[1] \in {34, 49, 35, 36, 50, 33, 18, 20}
      BY <1>7
  <2> QED
      BY <2>2, <2>3
<1>9. V8 = A \cup B \cup C \cup D \cup E \cup F \cup G \cup H
    BY <1>1, <1>2, <1>3, <1>4, <1>5, <1>6, <1>7, <1>8
<1> QED
    BY <1>1, <1>2, <1>3, <1>4, <1>5, <1>6, <1>7, <1>8, <1>9

LEMMA InvStoreAgrees ==
    ASSUME StoreInv
    PROVE  StoreAgrees
<1> DEFINE A == {RedelegationBytes(k) : k \in DOMAIN redels}
           B == {RedelegationIndexBytes(k) : k \in redelIndex}
           C == {GetRedelegationQueueKey(ct) : ct \in DOMAIN redelQueue}
           D == {UndelegationBytes(k) : k \in DOMAIN undelQueue}
           E == {UnbondingIndexBytes(k) : k \in undelIndex}
           F == {DelegationBytes(k) : k \in dels}
           G == {GetAllianceValidatorInfoKey(v) : v \in infos}
           H == {SnapshotBytes(k) : k \in snapshots}
<1>0. IsFiniteSet(DOMAIN store)
    BY DEF StoreInv, KnownKeys
<1>1. /\ A \subseteq DOMAIN store /\ IsFiniteSet(A)
      /\ \A key \in A : key[1] = 34
      /\ Cardinality(A) = Cardinality(DOMAIN redels)
  <2>1. ASSUME NEW x \in DOMAIN redels
        PROVE  /\ RedelegationBytes(x) \in DOMAIN store /\ RedelegationBytes(x)[1] = 34
               /\ \A y \in DOMAIN redels : RedelegationBytes(y) = RedelegationBytes(x) => y = x
      BY EntriesStored, RedelegationEntry
  <2>2. A \subseteq DOMAIN store /\ \A key \in A : key[1] = 34
      BY <2>1
  <2>3. IsFiniteSet(A)
      BY <1>0, <2>2, FS_Subset
  <2> DEFINE f == [x \in DOMAIN redels |-> RedelegationBytes(x)]
  <2>4. f \in [DOMAIN redels -> A] /\ \A t \in A : \E x \in DOMAIN redels : f[x] = t
      OBVIOUS
  <2>5. \A x, y \in DOMAIN redels : f[x] = f[y] => x = y
      BY <2>1
  <2>6. Cardinality(A) = Cardinality(DOMAIN redels)
    <3> HIDE DEF f, A
    <3> QED BY <2>3, <2>4, <2>5, ImageCount
  <2> QED
      BY <2>2, <2>3, <2>6
<1>2. /\ B \subseteq DOMAIN store /\ IsFiniteSet(B)
      /\ \A key \in B : key[1] = 49
      /\ Cardinality(B) = Cardinality(redelIndex)
  <2>1. ASSUME NEW x \in redelIndex
        PROVE  /\ RedelegationIndexBytes(x) \in DOMAIN store /\ RedelegationIndexBytes(x)[1] = 49
               /\ \A y \in redelIndex : RedelegationIndexBytes(y) = RedelegationIndexBytes(x) => y = x
      BY EntriesStored, RedelegationIndexEntry
  <2>2. B \subseteq DOMAIN store /\ \A key \in B : key[1] = 49
      BY <2>1
  <2>3. IsFiniteSet(B)
      BY <1>0, <2>2, FS_Subset
  <2> DEFINE f == [x \in redelIndex |-> RedelegationIndexBytes(x)]
  <2>4. f \in [redelIndex -> B] /\ \A t \in B : \E x \in redelIndex : f[x] = t
      OBVIOUS
  <2>5. \A x, y \in redelIndex : f[x] = f[y] => x = y
      BY <2>1
  <2>6. Cardinality(B) = Cardinality(redelIndex)
    <3> HIDE DEF f, B
    <3> QED BY <2>3, <2>4, <2>5, ImageCount
  <2> QED
      BY <2>2, <2>3, <2>6
<1>3. /\ C \subseteq DOMAIN store /\ IsFiniteSet(C)
      /\ \A key \in C : key[1] = 35
      /\ Cardinality(C) = Cardinality(DOMAIN redelQueue)
  <2>1. ASSUME NEW x \in DOMAIN redelQueue
        PROVE  /\ GetRedelegationQueueKey(x) \in DOMAIN store /\ GetRedelegationQueueKey(x)[1] = 35
               /\ \A y \in DOMAIN redelQueue : GetRedelegationQueueKey(y) = GetRedelegationQueueKey(x) => y = x
      BY EntriesStored, RedelegationQueueEntry
  <2>2. C \subseteq DOMAIN store /\ \A key \in C : key[1] = 35
      BY <2>1
  <2>3. IsFiniteSet(C)
      BY <1>0, <2>2, FS_Subset
  <2> DEFINE f == [x \in DOMAIN redelQueue |-> GetRedelegationQueueKey(x)]
  <2>4. f \in [DOMAIN redelQueue -> C] /\ \A t \in C : \E x \in DOMAIN redelQueue : f[x] = t
      OBVIOUS
  <2>5. \A x, y \in DOMAIN redelQueue : f[x] = f[y] => x = y
      BY <2>1
  <2>6. Cardinality(C) = Cardinality(DOMAIN redelQueue)
    <3> HIDE DEF f, C
    <3> QED BY <2>3, <2>4, <2>5, ImageCount
  <2> QED
      BY <2>2, <2>3, <2>6
<1>4. /\ D \subseteq DOMAIN store /\ IsFiniteSet(D)
      /\ \A key \in D : key[1] = 36
      /\ Cardinality(D) = Cardinality(DOMAIN undelQueue)
  <2>1. ASSUME NEW x \in DOMAIN undelQueue
        PROVE  /\ UndelegationBytes(x) \in DOMAIN store /\ UndelegationBytes(x)[1] = 36
               /\ \A y \in DOMAIN undelQueue : UndelegationBytes(y) = UndelegationBytes(x) => y = x
      BY EntriesStored, UndelegationEntry
  <2>2. D \subseteq DOMAIN store /\ \A key \in D : key[1] = 36
      BY <2>1
  <2>3. IsFiniteSet(D)
      BY <1>0, <2>2, FS_Subset
  <2> DEFINE f == [x \in DOMAIN undelQueue |-> UndelegationBytes(x)]
  <2>4. f \in [DOMAIN undelQueue -> D] /\ \A t \in D : \E x \in DOMAIN undelQueue : f[x] = t
      OBVIOUS
  <2>5. \A x, y \in DOMAIN undelQueue : f[x] = f[y] => x = y
      BY <2>1
  <2>6. Cardinality(D) = Cardinality(DOMAIN undelQueue)
    <3> HIDE DEF f, D
    <3> QED BY <2>3, <2>4, <2>5, ImageCount
  <2> QED
      BY <2>2, <2>3, <2>6
<1>5. /\ E \subseteq DOMAIN store /\ IsFiniteSet(E)
      /\ \A key \in E : key[1] = 50
      /\ Cardinality(E) = Cardinality(undelIndex)
  <2>1. ASSUME NEW x \in undelIndex
        PROVE  /\ UnbondingIndexBytes(x) \in DOMAIN store /\ UnbondingIndexBytes(x)[1] = 50
               /\ \A y \in undelIndex : UnbondingIndexBytes(y) = UnbondingIndexBytes(x) => y = x
      BY EntriesStored, UnbondingIndexEntry
  <2>2. E \subseteq DOMAIN store /\ \A key \in E : key[1] = 50
      BY <2>1
  <2>3. IsFiniteSet(E)
      BY <1>0, <2>2, FS_Subset
  <2> DEFINE f == [x \in undelIndex |-> UnbondingIndexBytes(x)]
  <2>4. f \in [undelIndex -> E] /\ \A t \in E : \E x \in undelIndex : f[x] = t
      OBVIOUS
  <2>5. \A x, y \in undelIndex : f[x] = f[y] => x = y
      BY <2>1
  <2>6. Cardinality(E) = Cardinality(undelIndex)
    <3> HIDE DEF f, E
    <3> QED BY <2>3, <2>4, <2>5, ImageCount
  <2> QED
      BY <2>2, <2>3, <2>6
<1>6. /\ F \subseteq DOMAIN store /\ IsFiniteSet(F)
      /\ \A key \in F : key[1] = 33
      /\ Cardinality(F) = Cardinality(dels)
  <2>1. ASSUME NEW x \in dels
        PROVE  /\ DelegationBytes(x) \in DOMAIN store /\ DelegationBytes(x)[1] = 33
               /\ \A y \in dels : DelegationBytes(y) = DelegationBytes(x) => y = x
      BY EntriesStored, DelegationEntry
  <2>2. F \subseteq DOMAIN store /\ \A key \in F : key[1] = 33
      BY <2>1
  <2>3. IsFiniteSet(F)
      BY <1>0, <2>2, FS_Subset
  <2> DEFINE f == [x \in dels |-> DelegationBytes(x)]
  <2>4. f \in [dels -> F] /\ \A t \in F : \E x \in dels : f[x] = t
      OBVIOUS
  <2>5. \A x, y \in dels : f[x] = f[y] => x = y
      BY <2>1
  <2>6. Cardinality(F) = Cardinality(dels)
    <3> HIDE DEF f, F
    <3> QED BY <2>3, <2>4, <2>5, ImageCount
  <2> QED
      BY <2>2, <2>3, <2>6
<1>7. /\ G \subseteq DOMAIN store /\ IsFiniteSet(G)
      /\ \A key \in G : key[1] = 18
      /\ Cardinality(G) = Cardinality(infos)
  <2>1. ASSUME NEW x \in infos
        PROVE  /\ GetAllianceValidatorInfoKey(x) \in DOMAIN store /\ GetAllianceValidatorInfoKey(x)[1] = 18
               /\ \A y \in infos : GetAllianceValidatorInfoKey(y) = GetAllianceValidatorInfoKey(x) => y = x
      BY EntriesStored, InfoEntry
  <2>2. G \subseteq DOMAIN store /\ \A key \in G : key[1] = 18
      BY <2>1
  <2>3. IsFiniteSet(G)
      BY <1>0, <2>2, FS_Subset
  <2> DEFINE f == [x \in infos |-> GetAllianceValidatorInfoKey(x)]
  <2>4. f \in [infos -> G] /\ \A t \in G : \E x \in infos : f[x] = t
      OBVIOUS
  <2>5. \A x, y \in infos : f[x] = f[y] => x = y
      BY <2>1
  <2>6. Cardinality(G) = Cardinality(infos)
    <3> HIDE DEF f, G
    <3> QED BY <2>3, <2>4, <2>5, ImageCount
  <2> QED
      BY <2>2, <2>3, <2>6
<1>8. /\ H \subseteq DOMAIN store /\ IsFiniteSet(H)
      /\ \A key \in H : key[1] = 20
      /\ Cardinality(H) = Cardinality(snapshots)
  <2>1. ASSUME NEW x \in snapshots
        PROVE  /\ SnapshotBytes(x) \in DOMAIN store /\ SnapshotBytes(x)[1] = 20
               /\ \A y \in snapshots : SnapshotBytes(y) = SnapshotBytes(x) => y = x
      BY EntriesStored, SnapshotEntry
  <2>2. H \subseteq DOMAIN store /\ \A key \in H : key[1] = 20
      BY <2>1
  <2>3. IsFiniteSet(H)
      BY <1>0, <2>2, FS_Subset
  <2> DEFINE f == [x \in snapshots |-> SnapshotBytes(x)]
  <2>4. f \in [snapshots -> H] /\ \A t \in H : \E x \in snapshots : f[x] = t
      OBVIOUS
  <2>5. \A x, y \in snapshots : f[x] = f[y] => x = y
      BY <2>1
  <2>6. Cardinality(H) = Cardinality(snapshots)
    <3> HIDE DEF f, H
    <3> QED BY <2>3, <2>4, <2>5, ImageCount
  <2> QED
      BY <2>2, <2>3, <2>6
<1>9. DOMAIN store \subseteq A \cup B \cup C \cup D \cup E \cup F \cup G \cup H
  <2>1. ASSUME NEW key \in DOMAIN store PROVE key[1] \in {34, 49, 35, 36, 50, 33, 18, 20}
    <3>1. key \in AnyKey
        BY DEF StoreInv, KnownKeys
    <3> QED
        BY <3>1, RedelegationEntry, RedelegationIndexEntry, RedelegationQueueEntry,
           UndelegationEntry, UnbondingIndexEntry, DelegationEntry, InfoEntry, SnapshotEntry
        DEF AnyKey
  <2> QED
      BY <2>1, StoredKeys
<1>10. DOMAIN store = A \cup B \cup C \cup D \cup E \cup F \cup G \cup H
  <2> HIDE DEF A, B, C, D, E, F, G, H
  <2> QED BY <1>1, <1>2, <1>3, <1>4, <1>5, <1>6, <1>7, <1>8, <1>9
<1>11. Cardinality(DOMAIN store) =
           Cardinality(DOMAIN redels) + Cardinality(redelIndex)
           + Cardinality(DOMAIN redelQueue) + Cardinality(DOMAIN undelQueue)
           + Cardinality(undelIndex) + Cardinality(dels) + Cardinality(infos)
           + Cardinality(snapshots)
  <2> HIDE DEF A, B, C, D, E, F, G, H
  <2>1. Cardinality(A \cup B \cup C \cup D \cup E \cup F \cup G \cup H) =
            Cardinality(A) + Cardinality(B) + Cardinality(C) + Cardinality(D)
            + Cardinality(E) + Cardinality(F) + Cardinality(G) + Cardinality(H)
      BY <1>1, <1>2, <1>3, <1>4, <1>5, <1>6, <1>7, <1>8, KindsCount
  <2> QED
      BY <1>1, <1>2, <1>3, <1>4, <1>5, <1>6, <1>7, <1>8, <1>10, <2>1
<1>12. /\ \A k \in DOMAIN redels : store[RedelegationBytes(k)] = redels[k]
       /\ \A ct \in DOMAIN redelQueue : store[GetRedelegationQueueKey(ct)] = redelQueue[ct]
       /\ \A k \in DOMAIN undelQueue : store[UndelegationBytes(k)] = undelQueue[k]
       /\ \A k \in dels : store[DelegationBytes(k)] = k
    BY DEF StoreInv, SameRedelegations, SameRedelegationQueue, SameUndelegations, SameDelegations
<1> QED
    BY <1>10, <1>11, <1>12 DEF StoreAgrees

-----------------------------------------------------------------------------
(* Every step keeps the invariant. *)

LEMMA KeepsKnownKeys ==
    ASSUME KnownKeys, NEW K, IsFiniteSet(K), K \subseteq AnyKey,
           DOMAIN store' \subseteq DOMAIN store \cup K
    PROVE  KnownKeys'
<1>1. IsFiniteSet(DOMAIN store \cup K)
    BY FS_Union DEF KnownKeys
<1>2. IsFiniteSet(DOMAIN store')
    BY <1>1, FS_Subset
<1> QED
    BY <1>2 DEF KnownKeys

\* A step that writes or deletes under some keys leaves the other kinds alone.
LEMMA KeepsKind ==
    ASSUME NEW K, NEW kind, \A key \in K : key[1] # kind,
           DOMAIN store' \cup K = DOMAIN store \cup K,
           \A key \in DOMAIN store \ K : store'[key] = store[key]
    PROVE  Kept(kind)
<1>1. ASSUME NEW key \in Bytes, key[1] = kind
      PROVE  /\ key \in DOMAIN store' <=> key \in DOMAIN store
             /\ key \in DOMAIN store => store'[key] = store[key]
  <2>1. key \notin K
      BY <1>1
  <2> QED
      BY <2>1
<1> QED
    BY <1>1 DEF Kept

LEMMA InitInv == Init => StoreInv
<1> SUFFICES ASSUME Init PROVE StoreInv
    OBVIOUS
<1>1. /\ now = 0 /\ redels = NoEntry /\ redelIndex = {} /\ redelQueue = NoEntry
      /\ undelQueue = NoEntry /\ undelIndex = {} /\ store = NoEntry
      /\ dels = {} /\ infos = {} /\ snapshots = {}
    BY DEF Init, QueuesInit
<1>2. DOMAIN NoEntry = {} /\ IsFiniteSet({})
    BY FS_EmptySet DEF NoEntry
<1>3. 0 \in 0 .. Horizon
    BY HorizonType
<1>4. StoreTypes
    BY <1>1, <1>2, <1>3 DEF StoreTypes
<1>5. KnownKeys
    BY <1>1, <1>2 DEF KnownKeys
<1>6. SameRedelegations /\ SameRedelegationIndex /\ SameRedelegationQueue
    BY <1>1, <1>2 DEF SameRedelegations, SameRedelegationIndex, SameRedelegationQueue
<1>7. SameUndelegations /\ SameUnbondingIndex
    BY <1>1, <1>2 DEF SameUndelegations, SameUnbondingIndex
<1>8. SameDelegations /\ SameInfos /\ SameSnapshots
    BY <1>1, <1>2 DEF SameDelegations, SameInfos, SameSnapshots
<1> QED
    BY <1>4, <1>5, <1>6, <1>7, <1>8 DEF StoreInv

LEMMA DelegateKeeps ==
    ASSUME StoreInv, NEW d \in Delegators, NEW v \in Validators, NEW n \in Denoms,
           Delegate(d, v, n)
    PROVE  StoreInv'
<1>0. PICK e : e = [del |-> d, val |-> v, denom |-> n]
    OBVIOUS
<1>1. PICK key, info :
          /\ key = DelegationBytes(e) /\ key = GetDelegationKey(d, v, n)
          /\ info = GetAllianceValidatorInfoKey(v)
    BY <1>0 DEF DelegationBytes
<1>2. e \in DelegationEntries
    BY <1>0 DEF DelegationEntries
<1>3. /\ key \in AnyKey /\ key[1] = 33
      /\ info \in AnyKey /\ info[1] = 18
    BY <1>1, <1>2, DelegationEntry, InfoEntry DEF AnyKey
<1>4. /\ dels' = dels \cup {e} /\ infos' = infos \cup {v} /\ snapshots' = snapshots
      /\ now' = now /\ redels' = redels /\ redelIndex' = redelIndex /\ redelQueue' = redelQueue
      /\ undelQueue' = undelQueue /\ undelIndex' = undelIndex
      /\ store' = Put(Put(store, key, e), info, {})
    BY <1>0, <1>1 DEF Delegate, redelVars, undelVars
<1>5. /\ DOMAIN store' = DOMAIN store \cup {key, info}
      /\ store'[key] = e
      /\ \A k \in DOMAIN store \ {key, info} : store'[k] = store[k]
  <2>1. PICK f : f = Put(store, key, e)
      OBVIOUS
  <2>2. /\ DOMAIN f = DOMAIN store \cup {key} /\ f[key] = e
        /\ \A k \in DOMAIN store : k # key => f[k] = store[k]
      BY <2>1 DEF Put
  <2>3. /\ DOMAIN store' = DOMAIN f \cup {info}
        /\ \A k \in DOMAIN f : k # info => store'[k] = f[k]
      BY <1>4, <2>1 DEF Put
  <2>4. key # info
      BY <1>3
  <2> QED
      BY <2>2, <2>3, <2>4
<1>a. PICK K : K = {key, info} /\ IsFiniteSet(K)
  <2>1. IsFiniteSet({key}) /\ IsFiniteSet({info})
      BY FS_Singleton
  <2>2. IsFiniteSet({key} \cup {info})
      BY <2>1, FS_Union
  <2>3. {key} \cup {info} = {key, info}
      OBVIOUS
  <2> QED
      BY <2>2, <2>3
<1>6. \A kind \in {34, 49, 35, 36, 50, 20} : Kept(kind)
  <2> SUFFICES ASSUME NEW kind \in {34, 49, 35, 36, 50, 20} PROVE Kept(kind)
      OBVIOUS
  <2>1. \A k \in K : k[1] # kind
      BY <1>3, <1>a
  <2>2. /\ DOMAIN store' \cup K = DOMAIN store \cup K
        /\ \A k \in DOMAIN store \ K : store'[k] = store[k]
      BY <1>5, <1>a
  <2> QED
      BY <2>1, <2>2, KeepsKind
<1>7. StoreTypes'
    BY <1>2, <1>4 DEF StoreInv, StoreTypes
<1>8. KnownKeys'
  <2>1. K \subseteq AnyKey /\ DOMAIN store' \subseteq DOMAIN store \cup K
      BY <1>3, <1>5, <1>a
  <2> QED
      BY <1>a, <2>1, KeepsKnownKeys DEF StoreInv
<1>9. SameRedelegations' /\ SameRedelegationIndex' /\ SameRedelegationQueue'
    BY <1>4, <1>6, KeptRedelegations, KeptRedelegationIndex, KeptRedelegationQueue DEF StoreInv
<1>10. SameUndelegations' /\ SameUnbondingIndex' /\ SameSnapshots'
    BY <1>4, <1>6, KeptUndelegations, KeptUnbondingIndex, KeptSnapshots DEF StoreInv
<1>11. SameDelegations'
  <2>1. ASSUME NEW x \in DelegationEntries
        PROVE  /\ DelegationBytes(x) # info
               /\ DelegationBytes(x) = key <=> x = e
    <3>1. /\ DelegationBytes(x)[1] = 33
          /\ DelegationBytes(x) = DelegationBytes(e) => x = e
        BY <1>2, DelegationEntry
    <3>2. PICK y : y = DelegationBytes(x) /\ y[1] = 33 /\ (y = key <=> x = e)
        BY <1>1, <3>1
    <3> QED
        BY <1>3, <3>2
  <2>2. SameDelegations /\ dels \subseteq DelegationEntries
      BY DEF StoreInv, StoreTypes
  <2>3. ASSUME NEW x \in DelegationEntries
        PROVE  DelegationBytes(x) \in DOMAIN store' <=> x \in dels'
      BY <1>4, <1>5, <2>1, <2>2 DEF SameDelegations
  <2>4. ASSUME NEW x \in dels' PROVE store'[DelegationBytes(x)] = x
    <3>1. CASE x = e
        BY <1>1, <1>5, <3>1
    <3>2. CASE x # e
        BY <1>4, <1>5, <2>1, <2>2, <3>2 DEF SameDelegations
    <3> QED
        BY <3>1, <3>2
  <2> QED
      BY <2>3, <2>4 DEF SameDelegations
<1>12. SameInfos'
  <2>1. ASSUME NEW w \in Validators
        PROVE  /\ GetAllianceValidatorInfoKey(w) # key
               /\ GetAllianceValidatorInfoKey(w) = info <=> w = v
      BY <1>1, <1>3, InfoEntry
  <2> QED
      BY <1>4, <1>5, <2>1 DEF StoreInv, SameInfos
<1> QED
    BY <1>7, <1>8, <1>9, <1>10, <1>11, <1>12 DEF StoreInv

LEMMA RemoveDelegationKeeps ==
    ASSUME StoreInv, NEW d \in Delegators, NEW v \in Validators, NEW n \in Denoms,
           RemoveDelegation(d, v, n)
    PROVE  StoreInv'
<1>0. PICK e : e = [del |-> d, val |-> v, denom |-> n]
    OBVIOUS
<1>1. PICK key : key = DelegationBytes(e) /\ key = GetDelegationKey(d, v, n)
    BY <1>0 DEF DelegationBytes
<1>2. e \in DelegationEntries /\ key[1] = 33
  <2>1. e \in DelegationEntries
      BY <1>0 DEF DelegationEntries
  <2> QED
      BY <1>1, <2>1, DelegationEntry
<1>3. /\ dels' = dels \ {e} /\ infos' = infos /\ snapshots' = snapshots
      /\ now' = now /\ redels' = redels /\ redelIndex' = redelIndex /\ redelQueue' = redelQueue
      /\ undelQueue' = undelQueue /\ undelIndex' = undelIndex
      /\ store' = Without(store, {key})
    BY <1>0, <1>1 DEF RemoveDelegation, redelVars, undelVars
<1>4. /\ DOMAIN store' = DOMAIN store \ {key}
      /\ \A k \in DOMAIN store \ {key} : store'[k] = store[k]
    BY <1>3, WithoutKeys
<1>5. \A kind \in {34, 49, 35, 36, 50, 18, 20} : Kept(kind)
  <2> SUFFICES ASSUME NEW kind \in {34, 49, 35, 36, 50, 18, 20} PROVE Kept(kind)
      OBVIOUS
  <2>1. \A k \in {key} : k[1] # kind
      BY <1>2
  <2>2. DOMAIN store' \cup {key} = DOMAIN store \cup {key}
      BY <1>4
  <2> QED
      BY <1>4, <2>1, <2>2, KeepsKind
<1>6. StoreTypes'
    BY <1>3 DEF StoreInv, StoreTypes
<1>7. KnownKeys'
    BY <1>4, FS_EmptySet, KeepsKnownKeys DEF StoreInv
<1>8. SameRedelegations' /\ SameRedelegationIndex' /\ SameRedelegationQueue'
    BY <1>3, <1>5, KeptRedelegations, KeptRedelegationIndex, KeptRedelegationQueue DEF StoreInv
<1>9. SameUndelegations' /\ SameUnbondingIndex' /\ SameInfos' /\ SameSnapshots'
    BY <1>3, <1>5, KeptUndelegations, KeptUnbondingIndex, KeptInfos, KeptSnapshots DEF StoreInv
<1>10. SameDelegations'
  <2>1. ASSUME NEW x \in DelegationEntries PROVE DelegationBytes(x) = key <=> x = e
      BY <1>1, <1>2, DelegationEntry
  <2>2. SameDelegations /\ dels \subseteq DelegationEntries
      BY DEF StoreInv, StoreTypes
  <2> QED
      BY <1>3, <1>4, <2>1, <2>2 DEF SameDelegations
<1> QED
    BY <1>6, <1>7, <1>8, <1>9, <1>10 DEF StoreInv

LEMMA ChangeWeightKeeps ==
    ASSUME StoreInv, NEW n \in Denoms, ChangeWeight(n)
    PROVE  StoreInv'
<1> DEFINE at(v) == [denom |-> n, val |-> v, height |-> now]
           keys == {SnapshotBytes(at(v)) : v \in infos}
<1>1. {ParseAllianceValidatorKey(k) : k \in PrefixIterator(ValidatorInfoKey)} = infos
    BY InfoScan
<1>2. keys = {GetRewardWeightChangeSnapshotKey(n, v, now) : v \in infos}
    BY DEF SnapshotBytes
<1>3. /\ dels' = dels /\ infos' = infos /\ snapshots' = snapshots \cup {at(v) : v \in infos}
      /\ now' = now /\ redels' = redels /\ redelIndex' = redelIndex /\ redelQueue' = redelQueue
      /\ undelQueue' = undelQueue /\ undelIndex' = undelIndex
      /\ store' = PutEmpty(store, keys)
    BY <1>1, <1>2 DEF ChangeWeight, redelVars, undelVars
<1>4. now \in Nat /\ now =< Horizon /\ infos \subseteq Validators
    BY HorizonType DEF StoreInv, StoreTypes
<1>5. \A v \in infos : at(v) \in SnapshotEntries
    BY <1>4 DEF SnapshotEntries
<1>6. keys \subseteq AnyKey /\ \A k \in keys : k[1] = 20
    BY <1>5, SnapshotEntry DEF AnyKey
<1>7. /\ DOMAIN store' = DOMAIN store \cup keys
      /\ \A k \in DOMAIN store \ keys : store'[k] = store[k]
  <2> HIDE DEF keys
  <2> QED BY <1>3, PutEmptyKeys
<1>8. IsFiniteSet(keys)
  <2>1. IsFiniteSet(infos)
      BY <1>4, KeysAssumption, FS_Subset
  <2> DEFINE f == [v \in infos |-> SnapshotBytes(at(v))]
  <2>2. f \in Surjection(infos, keys)
      BY DEF Surjection
  <2> HIDE DEF f, keys
  <2> QED
      BY <2>1, <2>2, FS_Surjection
<1>9. \A kind \in {34, 49, 35, 36, 50, 33, 18} : Kept(kind)
  <2> SUFFICES ASSUME NEW kind \in {34, 49, 35, 36, 50, 33, 18} PROVE Kept(kind)
      OBVIOUS
  <2> HIDE DEF keys
  <2>1. \A k \in keys : k[1] # kind
      BY <1>6
  <2>2. DOMAIN store' \cup keys = DOMAIN store \cup keys
      BY <1>7
  <2> QED
      BY <1>7, <2>1, <2>2, KeepsKind
<1>10. StoreTypes'
  <2>1. /\ snapshots' \subseteq SnapshotEntries
        /\ \A x \in snapshots' : x.height =< Horizon
      BY <1>3, <1>4, <1>5 DEF StoreInv, StoreTypes
  <2> QED
      BY <1>3, <2>1 DEF StoreInv, StoreTypes
<1>11. KnownKeys'
  <2> HIDE DEF keys
  <2> QED BY <1>6, <1>7, <1>8, KeepsKnownKeys DEF StoreInv
<1>12. SameRedelegations' /\ SameRedelegationIndex' /\ SameRedelegationQueue'
    BY <1>3, <1>9, KeptRedelegations, KeptRedelegationIndex, KeptRedelegationQueue DEF StoreInv
<1>13. SameUndelegations' /\ SameUnbondingIndex' /\ SameDelegations' /\ SameInfos'
    BY <1>3, <1>9, KeptUndelegations, KeptUnbondingIndex, KeptDelegations, KeptInfos DEF StoreInv
<1>14. SameSnapshots'
  <2>1. ASSUME NEW x \in SnapshotEntries
        PROVE  SnapshotBytes(x) \in keys <=> x \in {at(v) : v \in infos}
      BY <1>5, SnapshotEntry
  <2> HIDE DEF keys, at
  <2> QED
      BY <1>3, <1>7, <2>1 DEF StoreInv, SameSnapshots
<1> QED
    BY <1>10, <1>11, <1>12, <1>13, <1>14 DEF StoreInv

\* A bucket with one entry more.
LEMMA BucketGrows ==
    ASSUME NEW queue, NEW key, NEW e, NEW E, e \in E,
           key \in DOMAIN queue => queue[key] \in Seq(E)
    PROVE  Append(GetOr(queue, key, <<>>), e) \in Seq(E)
<1>1. GetOr(queue, key, <<>>) \in Seq(E)
    BY DEF GetOr
<1>2. PICK bucket \in Seq(E) : bucket = GetOr(queue, key, <<>>)
    BY <1>1
<1> QED
    BY <1>2

LEMMA RedelegateKeeps ==
    ASSUME StoreInv, NEW d \in Delegators, NEW src \in Validators, NEW dst \in Validators,
           NEW n \in Denoms, Redelegate(d, src, dst, n)
    PROVE  StoreInv'
<1>1. PICK ct \in Nat : ct = CompletionTime
    BY HorizonType, UnbondingTimeAssumption DEF CompletionTime, StoreInv, StoreTypes
<1>2. PICK e : e = [del |-> d, src |-> src, dst |-> dst, denom |-> n, amt |-> 1]
    OBVIOUS
<1>3. e \in QueuedRedelegations
    BY <1>2 DEF QueuedRedelegations
<1>4. PICK r : r = RedelKey(e, ct) /\ r = [del |-> d, denom |-> n, dst |-> dst, ct |-> ct]
    BY <1>2 DEF RedelKey
<1>5. PICK x : x = RedelIndexKey(e, ct)
               /\ x = [src |-> src, ct |-> ct, denom |-> n, dst |-> dst, del |-> d]
    BY <1>2 DEF RedelIndexKey
<1>6. r \in RedelegationEntries /\ x \in RedelegationIndexEntries
    BY <1>4, <1>5 DEF RedelegationEntries, RedelegationIndexEntries
<1>7. PICK record, index, queue :
          /\ record = RedelegationBytes(r) /\ record = GetRedelegationKey(d, n, dst, ct)
          /\ index = RedelegationIndexBytes(x) /\ index = GetRedelegationIndexKey(src, ct, n, dst, d)
          /\ queue = GetRedelegationQueueKey(ct)
    BY <1>4, <1>5 DEF RedelegationBytes, RedelegationIndexBytes
<1>8. /\ record \in AnyKey /\ record[1] = 34
      /\ index \in AnyKey /\ index[1] = 49
      /\ queue \in AnyKey /\ queue[1] = 35
  <2>1. RedelegationBytes(r) \in AnyKey /\ RedelegationBytes(r)[1] = 34
      BY <1>6, RedelegationEntry, EntryKeys
  <2>2. RedelegationIndexBytes(x) \in AnyKey /\ RedelegationIndexBytes(x)[1] = 49
      BY <1>6, RedelegationIndexEntry, EntryKeys
  <2>3. GetRedelegationQueueKey(ct) \in AnyKey /\ GetRedelegationQueueKey(ct)[1] = 35
      BY RedelegationQueueEntry, EntryKeys
  <2> QED
      BY <1>7, <2>1, <2>2, <2>3
<1>9. PICK old, value :
          /\ old = GetOr(store, record, [src |-> src, amt |-> 0])
          /\ value = [old EXCEPT !.amt = @ + 1]
    OBVIOUS
<1>10. /\ dels' = dels /\ infos' = infos /\ snapshots' = snapshots /\ now' = now
       /\ undelQueue' = undelQueue /\ undelIndex' = undelIndex
       /\ AddRedelegation(e)
       /\ store' = Enqueue(Put(Put(store, record, value), index, {}), queue, e)
    BY <1>1, <1>2, <1>7, <1>9 DEF Redelegate, undelVars, ledgerVars
<1>11. /\ SameRedelegations /\ SameRedelegationIndex /\ SameRedelegationQueue
       /\ DOMAIN redels \subseteq RedelegationEntries
       /\ \A k \in DOMAIN redels : redels[k] \in [src : Validators, amt : Nat]
       /\ redelIndex \subseteq RedelegationIndexEntries /\ DOMAIN redelQueue \subseteq Nat
       /\ \A t \in DOMAIN redelQueue : redelQueue[t] \in Seq(QueuedRedelegations)
    BY DEF StoreInv, StoreTypes
<1>12. old = GetOr(redels, r, [src |-> src, amt |-> 0]) /\ old \in [src : Validators, amt : Nat]
  <2>1. CASE r \in DOMAIN redels
    <3>1. record \in DOMAIN store /\ store[record] = redels[r]
        BY <1>6, <1>7, <1>11, <2>1 DEF SameRedelegations
    <3> QED
        BY <1>9, <1>11, <2>1, <3>1 DEF GetOr
  <2>2. CASE r \notin DOMAIN redels
    <3>1. record \notin DOMAIN store
        BY <1>6, <1>7, <1>11, <2>2 DEF SameRedelegations
    <3> QED
        BY <1>9, <2>2, <3>1 DEF GetOr
  <2> QED
      BY <2>1, <2>2
<1>13. /\ value = [src |-> old.src, amt |-> old.amt + 1]
       /\ value \in [src : Validators, amt : Nat]
  <2>1. PICK s \in Validators, a \in Nat : old = [src |-> s, amt |-> a]
      BY <1>12
  <2>2. value = [src |-> s, amt |-> a + 1]
      BY <1>9, <2>1
  <2> QED
      BY <2>1, <2>2
<1>14. PICK bucket : /\ bucket = Append(GetOr(redelQueue, ct, <<>>), e)
                     /\ bucket \in Seq(QueuedRedelegations)
    BY <1>3, <1>11, BucketGrows
<1>15. /\ redels' = Put(redels, r, value)
       /\ redelIndex' = redelIndex \cup {x}
       /\ redelQueue' = Put(redelQueue, ct, bucket)
  <2>1. /\ redels' = Put(redels, r, [src |-> GetOr(redels, r, [src |-> e.src, amt |-> 0]).src,
                                    amt |-> GetOr(redels, r, [src |-> e.src, amt |-> 0]).amt
                                            + e.amt])
        /\ redelIndex' = redelIndex \cup {x}
        /\ redelQueue' = Enqueue(redelQueue, ct, e)
      BY <1>1, <1>4, <1>5, <1>10 DEF AddRedelegation
  <2>2. e.src = src /\ e.amt = 1
      BY <1>2
  <2> QED
      BY <1>12, <1>13, <1>14, <2>1, <2>2 DEF Enqueue
<1>16. /\ DOMAIN redels' = DOMAIN redels \cup {r} /\ redels'[r] = value
       /\ \A k \in DOMAIN redels : k # r => redels'[k] = redels[k]
    BY <1>15 DEF Put
<1>17. /\ DOMAIN redelQueue' = DOMAIN redelQueue \cup {ct} /\ redelQueue'[ct] = bucket
       /\ \A k \in DOMAIN redelQueue : k # ct => redelQueue'[k] = redelQueue[k]
    BY <1>15 DEF Put
<1>18. GetOr(store, queue, <<>>) = GetOr(redelQueue, ct, <<>>)
  <2>1. /\ queue \in DOMAIN store <=> ct \in DOMAIN redelQueue
        /\ ct \in DOMAIN redelQueue => store[queue] = redelQueue[ct]
      BY <1>7, <1>11 DEF SameRedelegationQueue
  <2> QED
      BY <2>1 DEF GetOr
<1>19. /\ DOMAIN store' = DOMAIN store \cup {record, index, queue}
       /\ store'[record] = value /\ store'[queue] = bucket
       /\ \A k \in DOMAIN store \ {record, index, queue} : store'[k] = store[k]
  <2>1. PICK f : f = Put(store, record, value)
      OBVIOUS
  <2>2. PICK g : g = Put(f, index, {})
      OBVIOUS
  <2>3. /\ DOMAIN f = DOMAIN store \cup {record} /\ f[record] = value
        /\ \A k \in DOMAIN store : k # record => f[k] = store[k]
      BY <2>1 DEF Put
  <2>4. /\ DOMAIN g = DOMAIN f \cup {index}
        /\ \A k \in DOMAIN f : k # index => g[k] = f[k]
      BY <2>2 DEF Put
  <2>5. record # index /\ record # queue /\ index # queue
      BY <1>8
  <2>6. GetOr(g, queue, <<>>) = GetOr(store, queue, <<>>)
      BY <2>3, <2>4, <2>5 DEF GetOr
  <2>7. store' = Put(g, queue, bucket)
      BY <1>10, <1>14, <1>18, <2>1, <2>2, <2>6 DEF Enqueue
  <2>8. /\ DOMAIN store' = DOMAIN g \cup {queue} /\ store'[queue] = bucket
        /\ \A k \in DOMAIN g : k # queue => store'[k] = g[k]
      BY <2>7 DEF Put
  <2> QED
      BY <2>3, <2>4, <2>5, <2>8
<1>20. PICK K : K = {record, index, queue} /\ IsFiniteSet(K)
  <2>1. IsFiniteSet({record}) /\ IsFiniteSet({index}) /\ IsFiniteSet({queue})
      BY FS_Singleton
  <2>2. IsFiniteSet({record} \cup {index})
      BY <2>1, FS_Union
  <2>3. IsFiniteSet(({record} \cup {index}) \cup {queue})
      BY <2>1, <2>2, FS_Union
  <2>4. ({record} \cup {index}) \cup {queue} = {record, index, queue}
      OBVIOUS
  <2> QED
      BY <2>3, <2>4
<1>21. \A kind \in {36, 50, 33, 18, 20} : Kept(kind)
  <2> SUFFICES ASSUME NEW kind \in {36, 50, 33, 18, 20} PROVE Kept(kind)
      OBVIOUS
  <2>1. \A k \in K : k[1] # kind
      BY <1>8, <1>20
  <2>2. /\ DOMAIN store' \cup K = DOMAIN store \cup K
        /\ \A k \in DOMAIN store \ K : store'[k] = store[k]
      BY <1>19, <1>20
  <2> QED
      BY <2>1, <2>2, KeepsKind
<1>22. StoreTypes'
  <2>1. /\ DOMAIN redels' \subseteq RedelegationEntries
        /\ \A k \in DOMAIN redels' : redels'[k] \in [src : Validators, amt : Nat]
      BY <1>6, <1>11, <1>13, <1>16
  <2>2. /\ DOMAIN redelQueue' \subseteq Nat
        /\ \A t \in DOMAIN redelQueue' : redelQueue'[t] \in Seq(QueuedRedelegations)
      BY <1>11, <1>14, <1>17
  <2>3. redelIndex' \subseteq RedelegationIndexEntries
      BY <1>6, <1>11, <1>15
  <2> QED
      BY <1>10, <2>1, <2>2, <2>3 DEF StoreInv, StoreTypes
<1>23. KnownKeys'
  <2>1. K \subseteq AnyKey /\ DOMAIN store' \subseteq DOMAIN store \cup K
      BY <1>8, <1>19, <1>20
  <2> QED
      BY <1>20, <2>1, KeepsKnownKeys DEF StoreInv
<1>24. SameUndelegations' /\ SameUnbondingIndex'
    BY <1>10, <1>21, KeptUndelegations, KeptUnbondingIndex DEF StoreInv
<1>25. SameDelegations' /\ SameInfos' /\ SameSnapshots'
    BY <1>10, <1>21, KeptDelegations, KeptInfos, KeptSnapshots DEF StoreInv
<1>26. SameRedelegations'
  <2>1. ASSUME NEW k \in RedelegationEntries
        PROVE  /\ RedelegationBytes(k) # index /\ RedelegationBytes(k) # queue
               /\ RedelegationBytes(k) = record <=> k = r
    <3>1. RedelegationBytes(k)[1] = 34 /\ (RedelegationBytes(k) = RedelegationBytes(r) => k = r)
        BY <1>6, RedelegationEntry
    <3>2. PICK y : y = RedelegationBytes(k) /\ y[1] = 34 /\ (y = record <=> k = r)
        BY <1>7, <3>1
    <3> QED
        BY <1>8, <3>2
  <2>2. ASSUME NEW k \in RedelegationEntries
        PROVE  RedelegationBytes(k) \in DOMAIN store' <=> k \in DOMAIN redels'
      BY <1>11, <1>16, <1>19, <2>1 DEF SameRedelegations
  <2>3. ASSUME NEW k \in DOMAIN redels' PROVE store'[RedelegationBytes(k)] = redels'[k]
    <3>1. CASE k = r
        BY <1>7, <1>16, <1>19, <3>1
    <3>2. CASE k # r
        BY <1>11, <1>16, <1>19, <2>1, <3>2 DEF SameRedelegations
    <3> QED
        BY <3>1, <3>2
  <2> QED
      BY <2>2, <2>3 DEF SameRedelegations
<1>27. SameRedelegationIndex'
  <2>1. ASSUME NEW k \in RedelegationIndexEntries
        PROVE  /\ RedelegationIndexBytes(k) # record /\ RedelegationIndexBytes(k) # queue
               /\ RedelegationIndexBytes(k) = index <=> k = x
    <3>1. /\ RedelegationIndexBytes(k)[1] = 49
          /\ RedelegationIndexBytes(k) = RedelegationIndexBytes(x) => k = x
        BY <1>6, RedelegationIndexEntry
    <3>2. PICK y : y = RedelegationIndexBytes(k) /\ y[1] = 49 /\ (y = index <=> k = x)
        BY <1>7, <3>1
    <3> QED
        BY <1>8, <3>2
  <2> QED
      BY <1>11, <1>15, <1>19, <2>1 DEF SameRedelegationIndex
<1>28. SameRedelegationQueue'
  <2>1. ASSUME NEW t \in Nat
        PROVE  /\ GetRedelegationQueueKey(t) # record /\ GetRedelegationQueueKey(t) # index
               /\ GetRedelegationQueueKey(t) = queue <=> t = ct
    <3>1. /\ GetRedelegationQueueKey(t)[1] = 35
          /\ GetRedelegationQueueKey(t) = GetRedelegationQueueKey(ct) => t = ct
        BY RedelegationQueueEntry
    <3> QED
        BY <1>7, <1>8, <3>1
  <2>2. ASSUME NEW t \in Nat
        PROVE  GetRedelegationQueueKey(t) \in DOMAIN store' <=> t \in DOMAIN redelQueue'
      BY <1>11, <1>17, <1>19, <2>1 DEF SameRedelegationQueue
  <2>3. ASSUME NEW t \in DOMAIN redelQueue'
        PROVE  store'[GetRedelegationQueueKey(t)] = redelQueue'[t]
    <3>1. CASE t = ct
        BY <1>7, <1>17, <1>19, <3>1
    <3>2. CASE t # ct
        BY <1>11, <1>17, <1>19, <2>1, <3>2 DEF SameRedelegationQueue
    <3> QED
        BY <3>1, <3>2
  <2> QED
      BY <2>2, <2>3 DEF SameRedelegationQueue
<1> QED
    BY <1>22, <1>23, <1>24, <1>25, <1>26, <1>27, <1>28 DEF StoreInv

LEMMA UndelegateKeeps ==
    ASSUME StoreInv, NEW d \in Delegators, NEW v \in Validators, NEW n \in Denoms,
           Undelegate(d, v, n)
    PROVE  StoreInv'
<1>1. PICK ct \in Nat : ct = CompletionTime
    BY HorizonType, UnbondingTimeAssumption DEF CompletionTime, StoreInv, StoreTypes
<1>2. PICK e : e = [val |-> v, denom |-> n, amt |-> 1]
    OBVIOUS
<1>3. e \in QueuedUndelegations
    BY <1>2 DEF QueuedUndelegations
<1>4. PICK q, x : /\ q = [ct |-> ct, del |-> d]
                  /\ x = UndelIndexKey(e, q)
                  /\ x = [val |-> v, ct |-> ct, denom |-> n, del |-> d]
  <2>1. PICK q : q = [ct |-> ct, del |-> d]
      OBVIOUS
  <2>2. UndelIndexKey(e, q) = [val |-> v, ct |-> ct, denom |-> n, del |-> d]
      BY <1>2, <2>1 DEF UndelIndexKey
  <2> QED
      BY <2>1, <2>2
<1>5. q \in UndelegationEntries /\ x \in UnbondingIndexEntries
    BY <1>4 DEF UndelegationEntries, UnbondingIndexEntries
<1>6. PICK queue, index :
          /\ queue = UndelegationBytes(q) /\ queue = GetUndelegationQueueKey(ct, d)
          /\ index = UnbondingIndexBytes(x) /\ index = GetUnbondingIndexKey(v, ct, n, d)
    BY <1>4 DEF UndelegationBytes, UnbondingIndexBytes
<1>7. /\ queue \in AnyKey /\ queue[1] = 36
      /\ index \in AnyKey /\ index[1] = 50
  <2>1. UndelegationBytes(q) \in AnyKey /\ UndelegationBytes(q)[1] = 36
      BY <1>5, UndelegationEntry, EntryKeys
  <2>2. UnbondingIndexBytes(x) \in AnyKey /\ UnbondingIndexBytes(x)[1] = 50
      BY <1>5, UnbondingIndexEntry, EntryKeys
  <2> QED
      BY <1>6, <2>1, <2>2
<1>8. /\ dels' = dels /\ infos' = infos /\ snapshots' = snapshots /\ now' = now
      /\ redels' = redels /\ redelIndex' = redelIndex /\ redelQueue' = redelQueue
      /\ QueueUndelegation(d, e)
      /\ store' = Put(Enqueue(store, queue, e), index, {})
    BY <1>1, <1>2, <1>6 DEF Undelegate, redelVars, ledgerVars
<1>9. /\ SameUndelegations /\ SameUnbondingIndex
      /\ DOMAIN undelQueue \subseteq UndelegationEntries
      /\ \A k \in DOMAIN undelQueue : undelQueue[k] \in Seq(QueuedUndelegations)
      /\ undelIndex \subseteq UnbondingIndexEntries
    BY DEF StoreInv, StoreTypes
<1>10. PICK bucket : /\ bucket = Append(GetOr(undelQueue, q, <<>>), e)
                     /\ bucket \in Seq(QueuedUndelegations)
    BY <1>3, <1>9, BucketGrows
<1>11. undelQueue' = Put(undelQueue, q, bucket) /\ undelIndex' = undelIndex \cup {x}
    BY <1>1, <1>4, <1>8, <1>10 DEF QueueUndelegation, Enqueue
<1>12. /\ DOMAIN undelQueue' = DOMAIN undelQueue \cup {q} /\ undelQueue'[q] = bucket
       /\ \A k \in DOMAIN undelQueue : k # q => undelQueue'[k] = undelQueue[k]
    BY <1>11 DEF Put
<1>13. GetOr(store, queue, <<>>) = GetOr(undelQueue, q, <<>>)
  <2>1. /\ queue \in DOMAIN store <=> q \in DOMAIN undelQueue
        /\ q \in DOMAIN undelQueue => store[queue] = undelQueue[q]
      BY <1>5, <1>6, <1>9 DEF SameUndelegations
  <2> QED
      BY <2>1 DEF GetOr
<1>14. /\ DOMAIN store' = DOMAIN store \cup {queue, index}
       /\ store'[queue] = bucket
       /\ \A k \in DOMAIN store \ {queue, index} : store'[k] = store[k]
  <2>1. PICK f : f = Put(store, queue, bucket)
      OBVIOUS
  <2>2. store' = Put(f, index, {})
      BY <1>8, <1>10, <1>13, <2>1 DEF Enqueue
  <2>3. /\ DOMAIN f = DOMAIN store \cup {queue} /\ f[queue] = bucket
        /\ \A k \in DOMAIN store : k # queue => f[k] = store[k]
      BY <2>1 DEF Put
  <2>4. /\ DOMAIN store' = DOMAIN f \cup {index}
        /\ \A k \in DOMAIN f : k # index => store'[k] = f[k]
      BY <2>2 DEF Put
  <2>5. queue # index
      BY <1>7
  <2> QED
      BY <2>3, <2>4, <2>5
<1>15. PICK K : K = {queue, index} /\ IsFiniteSet(K)
  <2>1. IsFiniteSet({queue}) /\ IsFiniteSet({index})
      BY FS_Singleton
  <2>2. IsFiniteSet({queue} \cup {index})
      BY <2>1, FS_Union
  <2>3. {queue} \cup {index} = {queue, index}
      OBVIOUS
  <2> QED
      BY <2>2, <2>3
<1>16. \A kind \in {34, 49, 35, 33, 18, 20} : Kept(kind)
  <2> SUFFICES ASSUME NEW kind \in {34, 49, 35, 33, 18, 20} PROVE Kept(kind)
      OBVIOUS
  <2>1. \A k \in K : k[1] # kind
      BY <1>7, <1>15
  <2>2. /\ DOMAIN store' \cup K = DOMAIN store \cup K
        /\ \A k \in DOMAIN store \ K : store'[k] = store[k]
      BY <1>14, <1>15
  <2> QED
      BY <2>1, <2>2, KeepsKind
<1>17. StoreTypes'
  <2>1. /\ DOMAIN undelQueue' \subseteq UndelegationEntries
        /\ \A k \in DOMAIN undelQueue' : undelQueue'[k] \in Seq(QueuedUndelegations)
      BY <1>5, <1>9, <1>10, <1>12
  <2>2. undelIndex' \subseteq UnbondingIndexEntries
      BY <1>5, <1>9, <1>11
  <2> QED
      BY <1>8, <2>1, <2>2 DEF StoreInv, StoreTypes
<1>18. KnownKeys'
  <2>1. K \subseteq AnyKey /\ DOMAIN store' \subseteq DOMAIN store \cup K
      BY <1>7, <1>14, <1>15
  <2> QED
      BY <1>15, <2>1, KeepsKnownKeys DEF StoreInv
<1>19. SameRedelegations' /\ SameRedelegationIndex' /\ SameRedelegationQueue'
    BY <1>8, <1>16, KeptRedelegations, KeptRedelegationIndex, KeptRedelegationQueue DEF StoreInv
<1>20. SameDelegations' /\ SameInfos' /\ SameSnapshots'
    BY <1>8, <1>16, KeptDelegations, KeptInfos, KeptSnapshots DEF StoreInv
<1>21. SameUndelegations'
  <2>1. ASSUME NEW k \in UndelegationEntries
        PROVE  UndelegationBytes(k) # index /\ (UndelegationBytes(k) = queue <=> k = q)
    <3>1. UndelegationBytes(k)[1] = 36 /\ (UndelegationBytes(k) = UndelegationBytes(q) => k = q)
        BY <1>5, UndelegationEntry
    <3>2. PICK y : y = UndelegationBytes(k) /\ y[1] = 36 /\ (y = queue <=> k = q)
        BY <1>6, <3>1
    <3> QED
        BY <1>7, <3>2
  <2>2. ASSUME NEW k \in UndelegationEntries
        PROVE  UndelegationBytes(k) \in DOMAIN store' <=> k \in DOMAIN undelQueue'
      BY <1>9, <1>12, <1>14, <2>1 DEF SameUndelegations
  <2>3. ASSUME NEW k \in DOMAIN undelQueue' PROVE store'[UndelegationBytes(k)] = undelQueue'[k]
    <3>1. CASE k = q
        BY <1>6, <1>12, <1>14, <3>1
    <3>2. CASE k # q
        BY <1>9, <1>12, <1>14, <2>1, <3>2 DEF SameUndelegations
    <3> QED
        BY <3>1, <3>2
  <2> QED
      BY <2>2, <2>3 DEF SameUndelegations
<1>22. SameUnbondingIndex'
  <2>1. ASSUME NEW k \in UnbondingIndexEntries
        PROVE  UnbondingIndexBytes(k) # queue /\ (UnbondingIndexBytes(k) = index <=> k = x)
    <3>1. /\ UnbondingIndexBytes(k)[1] = 50
          /\ UnbondingIndexBytes(k) = UnbondingIndexBytes(x) => k = x
        BY <1>5, UnbondingIndexEntry
    <3>2. PICK y : y = UnbondingIndexBytes(k) /\ y[1] = 50 /\ (y = index <=> k = x)
        BY <1>6, <3>1
    <3> QED
        BY <1>7, <3>2
  <2> QED
      BY <1>9, <1>11, <1>14, <2>1 DEF SameUnbondingIndex
<1> QED
    BY <1>17, <1>18, <1>19, <1>20, <1>21, <1>22 DEF StoreInv

\* The fields of what completes.
DoneRedels == {RedelKey(p[1], p[2]) : p \in CompletedRedels}
DoneRedelIndex == {RedelIndexKey(p[1], p[2]) : p \in CompletedRedels}
DoneUndelIndex == {UndelIndexKey(p[1], p[2]) : p \in CompletedUndels}

LEMMA CompletedRedelsAre ==
    ASSUME NEW p
    PROVE  p \in CompletedRedels <=>
               \E ct \in DueRedels : \E e \in Range(redelQueue[ct]) : p = <<e, ct>>
<1>1. ASSUME p \in CompletedRedels
      PROVE  \E ct \in DueRedels : \E e \in Range(redelQueue[ct]) : p = <<e, ct>>
  <2>1. PICK ct \in DOMAIN redelQueue : p \in Range(redelQueue[ct]) \X {ct}
      BY <1>1 DEF CompletedRedels, PendingRedels, Queued
  <2>2. PICK e \in Range(redelQueue[ct]) : p = <<e, ct>>
      BY <2>1
  <2>3. ct \in DueRedels
      BY <1>1, <2>2 DEF CompletedRedels
  <2> QED
      BY <2>2, <2>3
<1>2. ASSUME NEW ct \in DueRedels, NEW e \in Range(redelQueue[ct]), p = <<e, ct>>
      PROVE  p \in CompletedRedels
  <2>1. p \in Range(redelQueue[ct]) \X {ct} /\ ct \in DOMAIN redelQueue /\ p[2] = ct
      BY <1>2 DEF DueRedels
  <2> QED
      BY <2>1 DEF CompletedRedels, PendingRedels, Queued
<1> QED
    BY <1>1, <1>2

LEMMA CompletedUndelsAre ==
    ASSUME NEW p
    PROVE  p \in CompletedUndels <=>
               \E q \in DueUndels : \E e \in Range(undelQueue[q]) : p = <<e, q>>
<1>1. ASSUME p \in CompletedUndels
      PROVE  \E q \in DueUndels : \E e \in Range(undelQueue[q]) : p = <<e, q>>
  <2>1. PICK q \in DOMAIN undelQueue : p \in Range(undelQueue[q]) \X {q}
      BY <1>1 DEF CompletedUndels, PendingUndels, Queued
  <2>2. PICK e \in Range(undelQueue[q]) : p = <<e, q>>
      BY <2>1
  <2>3. q \in DueUndels
      BY <1>1, <2>2 DEF CompletedUndels
  <2> QED
      BY <2>2, <2>3
<1>2. ASSUME NEW q \in DueUndels, NEW e \in Range(undelQueue[q]), p = <<e, q>>
      PROVE  p \in CompletedUndels
  <2>1. p \in Range(undelQueue[q]) \X {q} /\ q \in DOMAIN undelQueue /\ p[2] = q
      BY <1>2 DEF DueUndels
  <2> QED
      BY <2>1 DEF CompletedUndels, PendingUndels, Queued
<1> QED
    BY <1>1, <1>2

\* Deleting by the bytes of a bucket's key is deleting what the bucket names.
LEMMA RedelegationsDone ==
    ASSUME StoreInv
    PROVE  /\ DoneRedels \subseteq RedelegationEntries
           /\ DoneRedelIndex \subseteq RedelegationIndexEntries
           /\ UNION {RedelegationKeysOf(k) : k \in {GetRedelegationQueueKey(ct) : ct \in DueRedels}} =
                  {RedelegationBytes(x) : x \in DoneRedels}
                  \cup {RedelegationIndexBytes(x) : x \in DoneRedelIndex}
<1>1. ASSUME NEW ct \in DueRedels
      PROVE  /\ ct \in Nat /\ ct \in DOMAIN redelQueue
             /\ redelQueue[ct] \in Seq(QueuedRedelegations)
             /\ store[GetRedelegationQueueKey(ct)] = redelQueue[ct]
             /\ ParseRedelegationQueueKey(GetRedelegationQueueKey(ct)) = ct
  <2>1. ct \in DOMAIN redelQueue
      BY DEF DueRedels
  <2>2. ct \in Nat /\ redelQueue[ct] \in Seq(QueuedRedelegations)
      BY <2>1 DEF StoreInv, StoreTypes
  <2> QED
      BY <2>1, <2>2, RedelegationQueueEntry DEF StoreInv, SameRedelegationQueue
<1>2. ASSUME NEW ct \in DueRedels, NEW e \in Range(redelQueue[ct])
      PROVE  /\ RedelKey(e, ct) \in RedelegationEntries
             /\ RedelIndexKey(e, ct) \in RedelegationIndexEntries
             /\ GetRedelegationKey(e.del, e.denom, e.dst, ct) = RedelegationBytes(RedelKey(e, ct))
             /\ GetRedelegationIndexKey(e.src, ct, e.denom, e.dst, e.del) =
                    RedelegationIndexBytes(RedelIndexKey(e, ct))
  <2>1. e \in QueuedRedelegations
      BY <1>1 DEF Range
  <2> QED
      BY <1>1, <2>1 DEF QueuedRedelegations, RedelKey, RedelIndexKey, RedelegationEntries,
                        RedelegationIndexEntries, RedelegationBytes, RedelegationIndexBytes
<1>3. \A x : x \in DoneRedels <=>
            \E ct \in DueRedels : \E e \in Range(redelQueue[ct]) : x = RedelKey(e, ct)
  <2>1. ASSUME NEW ct \in DueRedels, NEW e \in Range(redelQueue[ct])
        PROVE  RedelKey(e, ct) \in DoneRedels
    <3>1. PICK p : p = <<e, ct>> /\ p[1] = e /\ p[2] = ct
      <4>1. <<e, ct>>[1] = e /\ <<e, ct>>[2] = ct
          OBVIOUS
      <4> QED
          BY <4>1
    <3>2. p \in CompletedRedels
        BY <3>1, CompletedRedelsAre
    <3> QED
        BY <3>1, <3>2 DEF DoneRedels
  <2>2. ASSUME NEW x \in DoneRedels
        PROVE  \E ct \in DueRedels : \E e \in Range(redelQueue[ct]) : x = RedelKey(e, ct)
    <3>1. PICK p \in CompletedRedels : x = RedelKey(p[1], p[2])
        BY DEF DoneRedels
    <3>2. PICK ct \in DueRedels : \E e \in Range(redelQueue[ct]) : p = <<e, ct>>
        BY <3>1, CompletedRedelsAre
    <3>3. PICK e \in Range(redelQueue[ct]) : p = <<e, ct>>
        BY <3>2
    <3>4. x = RedelKey(e, ct)
        BY <3>1, <3>3
    <3> QED
        BY <3>4
  <2> QED
      BY <2>1, <2>2
<1>4. \A x : x \in DoneRedelIndex <=>
            \E ct \in DueRedels : \E e \in Range(redelQueue[ct]) : x = RedelIndexKey(e, ct)
  <2>1. ASSUME NEW ct \in DueRedels, NEW e \in Range(redelQueue[ct])
        PROVE  RedelIndexKey(e, ct) \in DoneRedelIndex
    <3>1. PICK p : p = <<e, ct>> /\ p[1] = e /\ p[2] = ct
      <4>1. <<e, ct>>[1] = e /\ <<e, ct>>[2] = ct
          OBVIOUS
      <4> QED
          BY <4>1
    <3>2. p \in CompletedRedels
        BY <3>1, CompletedRedelsAre
    <3> QED
        BY <3>1, <3>2 DEF DoneRedelIndex
  <2>2. ASSUME NEW x \in DoneRedelIndex
        PROVE  \E ct \in DueRedels : \E e \in Range(redelQueue[ct]) : x = RedelIndexKey(e, ct)
    <3>1. PICK p \in CompletedRedels : x = RedelIndexKey(p[1], p[2])
        BY DEF DoneRedelIndex
    <3>2. PICK ct \in DueRedels : \E e \in Range(redelQueue[ct]) : p = <<e, ct>>
        BY <3>1, CompletedRedelsAre
    <3>3. PICK e \in Range(redelQueue[ct]) : p = <<e, ct>>
        BY <3>2
    <3>4. x = RedelIndexKey(e, ct)
        BY <3>1, <3>3
    <3> QED
        BY <3>4
  <2> QED
      BY <2>1, <2>2
<1>5. ASSUME NEW ct \in DueRedels
      PROVE  RedelegationKeysOf(GetRedelegationQueueKey(ct)) =
                 UNION {{RedelegationBytes(RedelKey(e, ct)),
                         RedelegationIndexBytes(RedelIndexKey(e, ct))} :
                            e \in Range(redelQueue[ct])}
  <2>1. RedelegationKeysOf(GetRedelegationQueueKey(ct)) =
            UNION {{GetRedelegationKey(e.del, e.denom, e.dst, ct),
                    GetRedelegationIndexKey(e.src, ct, e.denom, e.dst, e.del)} :
                       e \in Range(redelQueue[ct])}
      BY <1>1 DEF RedelegationKeysOf
  <2> QED
      BY <1>2, <2>1
<1>6. \A y : y \in UNION {RedelegationKeysOf(k) :
                            k \in {GetRedelegationQueueKey(ct) : ct \in DueRedels}}
            <=> \E ct \in DueRedels : \E e \in Range(redelQueue[ct]) :
                   y = RedelegationBytes(RedelKey(e, ct))
                   \/ y = RedelegationIndexBytes(RedelIndexKey(e, ct))
    BY <1>5
<1>7. DoneRedels \subseteq RedelegationEntries /\ DoneRedelIndex \subseteq RedelegationIndexEntries
    BY <1>2, <1>3, <1>4
<1>8. \A y : y \in {RedelegationBytes(x) : x \in DoneRedels}
                  \cup {RedelegationIndexBytes(x) : x \in DoneRedelIndex}
            <=> \E ct \in DueRedels : \E e \in Range(redelQueue[ct]) :
                   y = RedelegationBytes(RedelKey(e, ct))
                   \/ y = RedelegationIndexBytes(RedelIndexKey(e, ct))
    BY <1>3, <1>4
<1>9. UNION {RedelegationKeysOf(k) : k \in {GetRedelegationQueueKey(ct) : ct \in DueRedels}} =
          {RedelegationBytes(x) : x \in DoneRedels}
          \cup {RedelegationIndexBytes(x) : x \in DoneRedelIndex}
    BY <1>6, <1>8
<1> QED
    BY <1>7, <1>9

LEMMA UndelegationsDone ==
    ASSUME StoreInv
    PROVE  /\ DoneUndelIndex \subseteq UnbondingIndexEntries
           /\ UNION {IndexKeysOf(k) : k \in {UndelegationBytes(q) : q \in DueUndels}} =
                  {UnbondingIndexBytes(x) : x \in DoneUndelIndex}
<1>1. ASSUME NEW q \in DueUndels
      PROVE  /\ q \in UndelegationEntries /\ q \in DOMAIN undelQueue
             /\ q.ct \in Nat /\ q.del \in Delegators /\ q.del \in Bytes
             /\ undelQueue[q] \in Seq(QueuedUndelegations)
             /\ store[UndelegationBytes(q)] = undelQueue[q]
             /\ ParseUndelegationQueueKeyForCompletionTime(UndelegationBytes(q)) = q.ct
             /\ Field(UndelegationBytes(q), 2) = q.del
  <2>1. q \in DOMAIN undelQueue
      BY DEF DueUndels
  <2>2. q \in UndelegationEntries /\ undelQueue[q] \in Seq(QueuedUndelegations)
      BY <2>1 DEF StoreInv, StoreTypes
  <2>3. q.ct \in Nat /\ q.del \in Delegators /\ q.del \in Bytes
      BY <2>2, FieldBytes DEF UndelegationEntries
  <2>4. PICK key : key = UndelegationBytes(q) /\ key = GetUndelegationQueueKey(q.ct, q.del)
      BY DEF UndelegationBytes
  <2>5. Field(key, 1) = FixedWidth(q.ct) /\ Field(key, 2) = q.del
      BY <2>3, <2>4, UndelegationQueueFields
  <2>6. ParseUndelegationQueueKeyForCompletionTime(key) = q.ct
      BY <2>3, <2>5, FixedWidthBytes DEF ParseUndelegationQueueKeyForCompletionTime
  <2> QED
      BY <2>1, <2>2, <2>3, <2>4, <2>5, <2>6 DEF StoreInv, SameUndelegations
<1>2. ASSUME NEW q \in DueUndels, NEW e \in Range(undelQueue[q])
      PROVE  /\ UndelIndexKey(e, q) \in UnbondingIndexEntries
             /\ GetUnbondingIndexKey(e.val, q.ct, e.denom, q.del) =
                    UnbondingIndexBytes(UndelIndexKey(e, q))
  <2>1. e \in QueuedUndelegations
      BY <1>1 DEF Range
  <2> QED
      BY <1>1, <2>1 DEF QueuedUndelegations, UndelIndexKey, UnbondingIndexEntries,
                        UnbondingIndexBytes
<1>3. \A x : x \in DoneUndelIndex <=>
            \E q \in DueUndels : \E e \in Range(undelQueue[q]) : x = UndelIndexKey(e, q)
  <2>1. ASSUME NEW q \in DueUndels, NEW e \in Range(undelQueue[q])
        PROVE  UndelIndexKey(e, q) \in DoneUndelIndex
    <3>1. PICK p : p = <<e, q>> /\ p[1] = e /\ p[2] = q
      <4>1. <<e, q>>[1] = e /\ <<e, q>>[2] = q
          OBVIOUS
      <4> QED
          BY <4>1
    <3>2. p \in CompletedUndels
        BY <3>1, CompletedUndelsAre
    <3> QED
        BY <3>1, <3>2 DEF DoneUndelIndex
  <2>2. ASSUME NEW x \in DoneUndelIndex
        PROVE  \E q \in DueUndels : \E e \in Range(undelQueue[q]) : x = UndelIndexKey(e, q)
    <3>1. PICK p \in CompletedUndels : x = UndelIndexKey(p[1], p[2])
        BY DEF DoneUndelIndex
    <3>2. PICK q \in DueUndels : \E e \in Range(undelQueue[q]) : p = <<e, q>>
        BY <3>1, CompletedUndelsAre
    <3>3. PICK e \in Range(undelQueue[q]) : p = <<e, q>>
        BY <3>2
    <3>4. x = UndelIndexKey(e, q)
        BY <3>1, <3>3
    <3> QED
        BY <3>4
  <2> QED
      BY <2>1, <2>2
<1>4. ASSUME NEW q \in DueUndels
      PROVE  IndexKeysOf(UndelegationBytes(q)) =
                 {UnbondingIndexBytes(UndelIndexKey(e, q)) : e \in Range(undelQueue[q])}
  <2>1. IndexKeysOf(UndelegationBytes(q)) =
            {GetUnbondingIndexKey(e.val, q.ct, e.denom, q.del) : e \in Range(undelQueue[q])}
      BY <1>1 DEF IndexKeysOf
  <2> QED
      BY <1>2, <2>1
<1>5. \A y : y \in UNION {IndexKeysOf(k) : k \in {UndelegationBytes(q) : q \in DueUndels}}
            <=> \E q \in DueUndels : \E e \in Range(undelQueue[q]) :
                   y = UnbondingIndexBytes(UndelIndexKey(e, q))
    BY <1>4
<1>6. \A y : y \in {UnbondingIndexBytes(x) : x \in DoneUndelIndex}
            <=> \E q \in DueUndels : \E e \in Range(undelQueue[q]) :
                   y = UnbondingIndexBytes(UndelIndexKey(e, q))
    BY <1>3
<1>7. UNION {IndexKeysOf(k) : k \in {UndelegationBytes(q) : q \in DueUndels}} =
          {UnbondingIndexBytes(x) : x \in DoneUndelIndex}
    BY <1>5, <1>6
<1> QED
    BY <1>2, <1>3, <1>7

LEMMA EndBlockKeeps ==
    ASSUME StoreInv, EndBlock
    PROVE  StoreInv'
<1>1. PICK gone :
          gone = {GetRedelegationQueueKey(ct) : ct \in DueRedels}
                 \cup {UndelegationBytes(q) : q \in DueUndels}
                 \cup {RedelegationBytes(x) : x \in DoneRedels}
                 \cup {RedelegationIndexBytes(x) : x \in DoneRedelIndex}
                 \cup {UnbondingIndexBytes(x) : x \in DoneUndelIndex}
    OBVIOUS
<1>2. store' = Without(store, gone)
  <2> DEFINE redelegations == Iterator(RedelegationQueueKey, GetRedelegationQueueKey(now))
             undelegations == Iterator(UndelegationQueueKey, GetUndelegationQueueKeyByTime(now))
  <2>1. store' = Without(store, redelegations \cup undelegations
                                \cup (UNION {RedelegationKeysOf(k) : k \in redelegations})
                                \cup (UNION {IndexKeysOf(k) : k \in undelegations}))
      BY DEF EndBlock
  <2>2. redelegations = {GetRedelegationQueueKey(ct) : ct \in DueRedels}
      BY RedelegationRange
  <2>3. undelegations = {UndelegationBytes(q) : q \in DueUndels}
      BY UndelegationRange
  <2>4. UNION {RedelegationKeysOf(k) : k \in redelegations} =
            {RedelegationBytes(x) : x \in DoneRedels}
            \cup {RedelegationIndexBytes(x) : x \in DoneRedelIndex}
      BY <2>2, RedelegationsDone
  <2>5. UNION {IndexKeysOf(k) : k \in undelegations} =
            {UnbondingIndexBytes(x) : x \in DoneUndelIndex}
      BY <2>3, UndelegationsDone
  <2>6. redelegations \cup undelegations
        \cup (UNION {RedelegationKeysOf(k) : k \in redelegations})
        \cup (UNION {IndexKeysOf(k) : k \in undelegations}) = gone
    <3> HIDE DEF redelegations, undelegations
    <3> QED BY <1>1, <2>2, <2>3, <2>4, <2>5
  <2> HIDE DEF redelegations, undelegations
  <2> QED
      BY <2>1, <2>6
<1>3. /\ redels' = Without(redels, DoneRedels)
      /\ redelIndex' = redelIndex \ DoneRedelIndex
      /\ redelQueue' = Without(redelQueue, DueRedels)
      /\ undelQueue' = Without(undelQueue, DueUndels)
      /\ undelIndex' = undelIndex \ DoneUndelIndex
    BY DEF EndBlock, CompleteRedelegations, CompleteUndelegations,
           DoneRedels, DoneRedelIndex, DoneUndelIndex
<1>4. /\ dels' = dels /\ infos' = infos /\ snapshots' = snapshots
      /\ now' = Min({now + 1, Horizon})
    BY DEF EndBlock, ledgerVars
<1>5. /\ DoneRedels \subseteq RedelegationEntries
      /\ DoneRedelIndex \subseteq RedelegationIndexEntries
      /\ DoneUndelIndex \subseteq UnbondingIndexEntries
      /\ DueRedels \subseteq Nat /\ DueUndels \subseteq UndelegationEntries
    BY RedelegationsDone, UndelegationsDone DEF DueRedels, DueUndels, StoreInv, StoreTypes
<1>6. /\ DOMAIN store' = DOMAIN store \ gone
      /\ \A k \in DOMAIN store \ gone : store'[k] = store[k]
    BY <1>2, WithoutKeys
<1>7. \A k \in gone :
          \/ k[1] = 35 /\ \E ct \in DueRedels : k = GetRedelegationQueueKey(ct)
          \/ k[1] = 36 /\ \E q \in DueUndels : k = UndelegationBytes(q)
          \/ k[1] = 34 /\ \E x \in DoneRedels : k = RedelegationBytes(x)
          \/ k[1] = 49 /\ \E x \in DoneRedelIndex : k = RedelegationIndexBytes(x)
          \/ k[1] = 50 /\ \E x \in DoneUndelIndex : k = UnbondingIndexBytes(x)
  <2>1. \A ct \in DueRedels : GetRedelegationQueueKey(ct)[1] = 35
      BY <1>5, RedelegationQueueEntry
  <2>2. \A q \in DueUndels : UndelegationBytes(q)[1] = 36
      BY <1>5, UndelegationEntry
  <2>3. \A x \in DoneRedels : RedelegationBytes(x)[1] = 34
      BY <1>5, RedelegationEntry
  <2>4. \A x \in DoneRedelIndex : RedelegationIndexBytes(x)[1] = 49
      BY <1>5, RedelegationIndexEntry
  <2>5. \A x \in DoneUndelIndex : UnbondingIndexBytes(x)[1] = 50
      BY <1>5, UnbondingIndexEntry
  <2> QED
      BY <1>1, <2>1, <2>2, <2>3, <2>4, <2>5
<1>8. \A kind \in {33, 18, 20} : Kept(kind)
  <2> SUFFICES ASSUME NEW kind \in {33, 18, 20} PROVE Kept(kind)
      OBVIOUS
  <2>1. \A k \in gone : k[1] # kind
      BY <1>7
  <2>2. DOMAIN store' \cup gone = DOMAIN store \cup gone
      BY <1>6
  <2> QED
      BY <1>6, <2>1, <2>2, KeepsKind
<1>9. StoreTypes'
  <2>1. now' \in 0 .. Horizon
    <3>1. now \in 0 .. Horizon /\ Horizon \in Nat
        BY HorizonType DEF StoreInv, StoreTypes
    <3>2. Min({now + 1, Horizon}) \in {now + 1, Horizon} /\ Min({now + 1, Horizon}) =< Horizon
        BY <3>1 DEF Min
    <3> QED
        BY <1>4, <3>1, <3>2
  <2>2. /\ DOMAIN redels' \subseteq DOMAIN redels
        /\ \A x \in DOMAIN redels' : redels'[x] = redels[x]
    <3>1. /\ DOMAIN redels' = DOMAIN redels \ DoneRedels
          /\ \A x \in DOMAIN redels \ DoneRedels : redels'[x] = redels[x]
        BY <1>3, WithoutKeys
    <3> QED
        BY <3>1
  <2>3. /\ DOMAIN redelQueue' \subseteq DOMAIN redelQueue
        /\ \A ct \in DOMAIN redelQueue' : redelQueue'[ct] = redelQueue[ct]
    <3>1. /\ DOMAIN redelQueue' = DOMAIN redelQueue \ DueRedels
          /\ \A ct \in DOMAIN redelQueue \ DueRedels : redelQueue'[ct] = redelQueue[ct]
        BY <1>3, WithoutKeys
    <3> QED
        BY <3>1
  <2>4. /\ DOMAIN undelQueue' \subseteq DOMAIN undelQueue
        /\ \A q \in DOMAIN undelQueue' : undelQueue'[q] = undelQueue[q]
    <3>1. /\ DOMAIN undelQueue' = DOMAIN undelQueue \ DueUndels
          /\ \A q \in DOMAIN undelQueue \ DueUndels : undelQueue'[q] = undelQueue[q]
        BY <1>3, WithoutKeys
    <3> QED
        BY <3>1
  <2>5. /\ DOMAIN redels' \subseteq RedelegationEntries
        /\ \A x \in DOMAIN redels' : redels'[x] \in [src : Validators, amt : Nat]
        /\ DOMAIN redelQueue' \subseteq Nat
        /\ \A ct \in DOMAIN redelQueue' : redelQueue'[ct] \in Seq(QueuedRedelegations)
        /\ DOMAIN undelQueue' \subseteq UndelegationEntries
        /\ \A q \in DOMAIN undelQueue' : undelQueue'[q] \in Seq(QueuedUndelegations)
      BY <2>2, <2>3, <2>4 DEF StoreInv, StoreTypes
  <2>6. redelIndex' \subseteq RedelegationIndexEntries /\ undelIndex' \subseteq UnbondingIndexEntries
      BY <1>3 DEF StoreInv, StoreTypes
  <2> QED
      BY <1>4, <2>1, <2>5, <2>6 DEF StoreInv, StoreTypes
<1>10. KnownKeys'
    BY <1>6, FS_EmptySet, KeepsKnownKeys DEF StoreInv
<1>11. SameDelegations' /\ SameInfos' /\ SameSnapshots'
    BY <1>4, <1>8, KeptDelegations, KeptInfos, KeptSnapshots DEF StoreInv
<1>12. SameRedelegations'
  <2>1. /\ SameRedelegations /\ DOMAIN redels \subseteq RedelegationEntries
        /\ DOMAIN redels' = DOMAIN redels \ DoneRedels
        /\ \A x \in DOMAIN redels \ DoneRedels : redels'[x] = redels[x]
      BY <1>3, WithoutKeys DEF StoreInv, StoreTypes
  <2>2. ASSUME NEW x \in RedelegationEntries
        PROVE  RedelegationBytes(x) \in gone <=> x \in DoneRedels
    <3>1. PICK k : /\ k = RedelegationBytes(x) /\ k[1] = 34
                   /\ \A y \in RedelegationEntries : k = RedelegationBytes(y) => y = x
        BY RedelegationEntry
    <3>2. k \in gone => x \in DoneRedels
        BY <1>5, <1>7, <3>1
    <3>3. x \in DoneRedels => k \in gone
        BY <1>1, <3>1
    <3> QED
        BY <3>1, <3>2, <3>3
  <2> QED
      BY <1>6, <2>1, <2>2 DEF SameRedelegations
<1>13. SameRedelegationIndex'
  <2>1. ASSUME NEW x \in RedelegationIndexEntries
        PROVE  RedelegationIndexBytes(x) \in gone <=> x \in DoneRedelIndex
    <3>1. PICK k : /\ k = RedelegationIndexBytes(x) /\ k[1] = 49
                   /\ \A y \in RedelegationIndexEntries : k = RedelegationIndexBytes(y) => y = x
        BY RedelegationIndexEntry
    <3>2. k \in gone => x \in DoneRedelIndex
        BY <1>5, <1>7, <3>1
    <3>3. x \in DoneRedelIndex => k \in gone
        BY <1>1, <3>1
    <3> QED
        BY <3>1, <3>2, <3>3
  <2> QED
      BY <1>3, <1>6, <2>1 DEF StoreInv, SameRedelegationIndex
<1>14. SameRedelegationQueue'
  <2>1. /\ SameRedelegationQueue /\ DOMAIN redelQueue \subseteq Nat
        /\ DOMAIN redelQueue' = DOMAIN redelQueue \ DueRedels
        /\ \A ct \in DOMAIN redelQueue \ DueRedels : redelQueue'[ct] = redelQueue[ct]
      BY <1>3, WithoutKeys DEF StoreInv, StoreTypes
  <2>2. ASSUME NEW ct \in Nat
        PROVE  GetRedelegationQueueKey(ct) \in gone <=> ct \in DueRedels
    <3>1. PICK k : /\ k = GetRedelegationQueueKey(ct) /\ k[1] = 35
                   /\ \A t \in Nat : k = GetRedelegationQueueKey(t) => t = ct
        BY RedelegationQueueEntry
    <3>2. k \in gone => ct \in DueRedels
        BY <1>5, <1>7, <3>1
    <3>3. ct \in DueRedels => k \in gone
        BY <1>1, <3>1
    <3> QED
        BY <3>1, <3>2, <3>3
  <2> QED
      BY <1>6, <2>1, <2>2 DEF SameRedelegationQueue
<1>15. SameUndelegations'
  <2>1. /\ SameUndelegations /\ DOMAIN undelQueue \subseteq UndelegationEntries
        /\ DOMAIN undelQueue' = DOMAIN undelQueue \ DueUndels
        /\ \A x \in DOMAIN undelQueue \ DueUndels : undelQueue'[x] = undelQueue[x]
      BY <1>3, WithoutKeys DEF StoreInv, StoreTypes
  <2>2. ASSUME NEW x \in UndelegationEntries
        PROVE  UndelegationBytes(x) \in gone <=> x \in DueUndels
    <3>1. PICK k : /\ k = UndelegationBytes(x) /\ k[1] = 36
                   /\ \A y \in UndelegationEntries : k = UndelegationBytes(y) => y = x
        BY UndelegationEntry
    <3>2. k \in gone => x \in DueUndels
        BY <1>5, <1>7, <3>1
    <3>3. x \in DueUndels => k \in gone
        BY <1>1, <3>1
    <3> QED
        BY <3>1, <3>2, <3>3
  <2> QED
      BY <1>6, <2>1, <2>2 DEF SameUndelegations
<1>16. SameUnbondingIndex'
  <2>1. ASSUME NEW x \in UnbondingIndexEntries
        PROVE  UnbondingIndexBytes(x) \in gone <=> x \in DoneUndelIndex
    <3>1. PICK k : /\ k = UnbondingIndexBytes(x) /\ k[1] = 50
                   /\ \A y \in UnbondingIndexEntries : k = UnbondingIndexBytes(y) => y = x
        BY UnbondingIndexEntry
    <3>2. k \in gone => x \in DoneUndelIndex
        BY <1>5, <1>7, <3>1
    <3>3. x \in DoneUndelIndex => k \in gone
        BY <1>1, <3>1
    <3> QED
        BY <3>1, <3>2, <3>3
  <2> QED
      BY <1>3, <1>6, <2>1 DEF StoreInv, SameUnbondingIndex
<1> QED
    BY <1>9, <1>10, <1>11, <1>12, <1>13, <1>14, <1>15, <1>16 DEF StoreInv

-----------------------------------------------------------------------------
LEMMA StutterKeeps == StoreInv /\ UNCHANGED vars => StoreInv'
BY DEF vars, redelVars, undelVars, ledgerVars, StoreInv, StoreTypes, KnownKeys,
       SameRedelegations, SameRedelegationIndex, SameRedelegationQueue,
       SameUndelegations, SameUnbondingIndex, SameDelegations, SameInfos, SameSnapshots,
       DelegationBytes, RedelegationBytes, RedelegationIndexBytes, UndelegationBytes,
       UnbondingIndexBytes, SnapshotBytes

LEMMA StoreInvHolds == Spec => []StoreInv
<1>1. StoreInv /\ [Next]_vars => StoreInv'
  <2> SUFFICES ASSUME StoreInv, [Next]_vars PROVE StoreInv'
      OBVIOUS
  <2>1. ASSUME NEW d \in Delegators, NEW v \in Validators, NEW n \in Denoms, Delegate(d, v, n)
        PROVE  StoreInv'
      BY <2>1, DelegateKeeps
  <2>2. ASSUME NEW d \in Delegators, NEW v \in Validators, NEW n \in Denoms,
               RemoveDelegation(d, v, n)
        PROVE  StoreInv'
      BY <2>2, RemoveDelegationKeeps
  <2>3. ASSUME NEW d \in Delegators, NEW v \in Validators, NEW n \in Denoms, Undelegate(d, v, n)
        PROVE  StoreInv'
      BY <2>3, UndelegateKeeps
  <2>4. ASSUME NEW d \in Delegators, NEW src \in Validators, NEW v \in Validators,
               NEW n \in Denoms, Redelegate(d, src, v, n)
        PROVE  StoreInv'
      BY <2>4, RedelegateKeeps
  <2>5. ASSUME NEW n \in Denoms, ChangeWeight(n) PROVE StoreInv'
      BY <2>5, ChangeWeightKeeps
  <2>6. CASE EndBlock
      BY <2>6, EndBlockKeeps
  <2>7. CASE UNCHANGED vars
      BY <2>7, StutterKeeps
  <2> QED
      BY <2>1, <2>2, <2>3, <2>4, <2>5, <2>6, <2>7 DEF Next
<1> QED
    BY <1>1, InitInv, PTL DEF Spec

\* For all byte strings that addresses and denominations may be, the one map of bytes holds
\* the entries of every store, each once and under its key, and no more; completions by
\* ranges of bytes delete what has completed by time (types/keys.go, keeper/delegation.go).
THEOREM StoreAgreesHolds == Spec => []StoreAgrees
BY StoreInvHolds, InvStoreAgrees, PTL

\* For all byte strings, each scan of a prefix or a range of keys finds the entries of the
\* fields it names and no entry of a field that begins with the same bytes.
THEOREM ScansAreExactHolds == Spec => []ScansAreExact
BY StoreInvHolds, InvScansAreExact, PTL

\* For all byte strings, parsing an index key leads to the redelegation or bucket it was
\* written for and to its time, and a slash finds all of a validator's (keeper/slash.go).
THEOREM KeysLeadBackHolds == Spec => []KeysLeadBack
BY StoreInvHolds, InvKeysLeadBack, PTL
=============================================================================
