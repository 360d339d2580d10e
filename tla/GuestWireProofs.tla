-------------------------- MODULE GuestWireProofs --------------------------
(***************************************************************************)
(* A batch is decoded to what the guest meant, for any operations and      *)
(* strings, any number of them, and any number of batches; an event is     *)
(* read as it was written, for any texts and any size of the region.       *)
(***************************************************************************)
EXTENDS GuestWire, SequenceTheorems, WellFoundedInduction, TLAPS

\* What a cell of memory may hold.
Packed == [code : 1 .. 19, a : Ids, b : Ids, c : Ids, d : Nat \cup Ids]
Cell == Nat \cup {"GWB1"} \cup Packed

(***************************************************************************)
(* Lemmas about the pieces of a batch.                                     *)
(***************************************************************************)

LEMMA ZerosProperties ==
  ASSUME NEW n \in Nat
  PROVE  Zeros(n) \in Seq(Cell) /\ Len(Zeros(n)) = n
  BY DEF Zeros, Cell

\* A value is found in the first of its bytes: one of four for a number,
\* one of sixteen for an operation.
LEMMA HeldProperties ==
  ASSUME NEW x \in Cell
  PROVE  /\ Held(x, 4) \in Seq(Cell) /\ Len(Held(x, 4)) = 4 /\ Held(x, 4)[1] = x
         /\ Held(x, 16) \in Seq(Cell) /\ Len(Held(x, 16)) = 16 /\ Held(x, 16)[1] = x
<1>1. /\ Zeros(3) \in Seq(Cell) /\ Len(Zeros(3)) = 3
      /\ Zeros(15) \in Seq(Cell) /\ Len(Zeros(15)) = 15
  BY DEF Zeros, Cell
<1>2. <<x>> \in Seq(Cell) /\ Len(<<x>>) = 1 /\ <<x>>[1] = x
  OBVIOUS
<1>3. Held(x, 4) = <<x>> \o Zeros(3) /\ Held(x, 16) = <<x>> \o Zeros(15)
  BY DEF Held
<1>4. ASSUME NEW z \in Seq(Cell)
      PROVE  /\ <<x>> \o z \in Seq(Cell)
             /\ Len(<<x>> \o z) = Len(<<x>>) + Len(z)
             /\ (<<x>> \o z)[1] = <<x>>[1]
  BY <1>2, ConcatProperties
<1>5. /\ Held(x, 4) \in Seq(Cell)
      /\ Len(Held(x, 4)) = Len(<<x>>) + Len(Zeros(3))
      /\ Held(x, 4)[1] = x
  BY <1>1, <1>2, <1>3, <1>4
<1>6. /\ Held(x, 16) \in Seq(Cell)
      /\ Len(Held(x, 16)) = Len(<<x>>) + Len(Zeros(15))
      /\ Held(x, 16)[1] = x
  <2>. DEFINE z == Zeros(15)
  <2>1. z \in Seq(Cell) /\ Held(x, 16) = <<x>> \o z
    BY <1>1, <1>3
  <2>. HIDE DEF z
  <2>2. /\ Held(x, 16) \in Seq(Cell)
        /\ Len(Held(x, 16)) = Len(<<x>>) + Len(z)
        /\ Held(x, 16)[1] = x
    BY <1>2, <1>4, <2>1
  <2>. QED
    BY <2>2 DEF z
<1>7. Len(Held(x, 4)) = 1 + 3 /\ Len(Held(x, 16)) = 1 + 15
  BY <1>1, <1>2, <1>5, <1>6
<1>. QED
  BY <1>5, <1>6, <1>7

\* What is appended to a sequence of cells, and where it is found.
LEMMA Appended ==
  ASSUME NEW s \in Seq(Cell), NEW t \in Seq(Cell)
  PROVE  /\ s \o t \in Seq(Cell)
         /\ Len(s \o t) = Len(s) + Len(t)
         /\ \A i \in 1 .. Len(s) : (s \o t)[i] = s[i]
         /\ \A i \in 1 .. Len(t) : (s \o t)[Len(s) + i] = t[i]
<1>1. /\ s \o t \in Seq(Cell)
      /\ Len(s \o t) = Len(s) + Len(t)
      /\ \A i \in 1 .. Len(s) + Len(t) :
           (s \o t)[i] = IF i <= Len(s) THEN s[i] ELSE t[i - Len(s)]
  BY ConcatProperties
<1>2. Len(s) \in Nat /\ Len(t) \in Nat
  OBVIOUS
<1>3. ASSUME NEW i \in 1 .. Len(t)
      PROVE  (s \o t)[Len(s) + i] = t[i]
  <2>1. Len(s) + i \in 1 .. Len(s) + Len(t) /\ ~(Len(s) + i <= Len(s))
    BY <1>2
  <2>2. (Len(s) + i) - Len(s) = i
    BY <1>2
  <2>. QED
    BY <1>1, <2>1, <2>2
<1>. QED
  BY <1>1, <1>2, <1>3

\* Batch::str: the length, then the bytes.
LEMMA StoredProperties ==
  ASSUME NEW s \in Seq(Cell)
  PROVE  /\ Stored(s) \in Seq(Cell)
         /\ Len(Stored(s)) >= 4 + Len(s)
         /\ Stored(s)[1] = Len(s)
         /\ \A i \in 1 .. Len(s) : Stored(s)[4 + i] = s[i]
<1>. DEFINE len == Held(Len(s), 4)
            pad == Zeros(Pad4(Len(s)) - Len(s))
<1>1. len \in Seq(Cell) /\ Len(len) = 4 /\ len[1] = Len(s)
  BY HeldProperties DEF Cell
<1>2. Pad4(Len(s)) - Len(s) \in Nat
  BY DEF Pad4
<1>3. pad \in Seq(Cell) /\ Len(pad) \in Nat
  BY <1>2, ZerosProperties
<1>4. Stored(s) = (len \o s) \o pad
  BY DEF Stored
<1>. HIDE DEF len, pad
<1>5. /\ len \o s \in Seq(Cell)
      /\ Len(len \o s) = 4 + Len(s)
      /\ (len \o s)[1] = Len(s)
      /\ \A i \in 1 .. Len(s) : (len \o s)[4 + i] = s[i]
  <2>1. /\ len \o s \in Seq(Cell)
        /\ Len(len \o s) = Len(len) + Len(s)
        /\ \A i \in 1 .. Len(len) : (len \o s)[i] = len[i]
        /\ \A i \in 1 .. Len(s) : (len \o s)[Len(len) + i] = s[i]
    BY <1>1, Appended
  <2>. QED
    BY <1>1, <2>1
<1>6. /\ (len \o s) \o pad \in Seq(Cell)
      /\ Len((len \o s) \o pad) = Len(len \o s) + Len(pad)
      /\ \A i \in 1 .. Len(len \o s) : ((len \o s) \o pad)[i] = (len \o s)[i]
  BY <1>3, <1>5, Appended
<1>7. 1 \in 1 .. Len(len \o s) /\ \A i \in 1 .. Len(s) : 4 + i \in 1 .. Len(len \o s)
  BY <1>5
<1>. QED
  BY <1>3, <1>4, <1>5, <1>6, <1>7

\* h is a header, with its fields where decode_batch looks for them.
IsHeader(h, n, p, q) ==
  /\ h \in Seq(Cell)
  /\ Len(h) = 16
  /\ h[1] = "GWB1" /\ h[5] = n /\ h[9] = p /\ h[13] = q

LEMMA HeaderProperties ==
  ASSUME NEW n \in Cell, NEW p \in Cell, NEW q \in Cell
  PROVE  IsHeader(Header(n, p, q), n, p, q)
<1>. DEFINE w1 == Held("GWB1", 4)
            w2 == Held(n, 4)
            w3 == Held(p, 4)
            w4 == Held(q, 4)
<1>0. "GWB1" \in Cell
  BY DEF Cell
<1>1. /\ w1 \in Seq(Cell) /\ Len(w1) = 4 /\ w1[1] = "GWB1"
      /\ w2 \in Seq(Cell) /\ Len(w2) = 4 /\ w2[1] = n
      /\ w3 \in Seq(Cell) /\ Len(w3) = 4 /\ w3[1] = p
      /\ w4 \in Seq(Cell) /\ Len(w4) = 4 /\ w4[1] = q
  BY <1>0, HeldProperties
<1>. HIDE DEF w1, w2, w3, w4
<1>2. ASSUME NEW u \in Seq(Cell), NEW w \in Seq(Cell), Len(w) = 4
      PROVE  /\ u \o w \in Seq(Cell)
             /\ Len(u \o w) = Len(u) + Len(w)
             /\ \A i \in 1 .. Len(u) : (u \o w)[i] = u[i]
             /\ (u \o w)[Len(u) + 1] = w[1]
  <2>1. /\ u \o w \in Seq(Cell)
        /\ Len(u \o w) = Len(u) + Len(w)
        /\ \A i \in 1 .. Len(u) : (u \o w)[i] = u[i]
        /\ \A i \in 1 .. Len(w) : (u \o w)[Len(u) + i] = w[i]
    BY Appended
  <2>2. 1 \in 1 .. Len(w)
    BY <1>2
  <2>. QED
    BY <1>2, <2>1, <2>2
<1>3. /\ w1 \o w2 \in Seq(Cell) /\ Len(w1 \o w2) = 8
      /\ (w1 \o w2)[1] = "GWB1" /\ (w1 \o w2)[5] = n
  <2>1. 4 + 4 = 8 /\ 4 + 1 = 5 /\ 1 \in 1 .. 4 /\ 4 \in Nat
    OBVIOUS
  <2>2. /\ w1 \o w2 \in Seq(Cell)
        /\ Len(w1 \o w2) = Len(w1) + Len(w2)
        /\ \A i \in 1 .. Len(w1) : (w1 \o w2)[i] = w1[i]
        /\ (w1 \o w2)[Len(w1) + 1] = w2[1]
    BY <1>1, <1>2
  <2>. QED
    BY <1>1, <2>1, <2>2
<1>4. /\ w1 \o w2 \o w3 \in Seq(Cell) /\ Len(w1 \o w2 \o w3) = 12
      /\ (w1 \o w2 \o w3)[1] = "GWB1" /\ (w1 \o w2 \o w3)[5] = n
      /\ (w1 \o w2 \o w3)[9] = p
  <2>. DEFINE u == w1 \o w2
  <2>1. 8 + 4 = 12 /\ 8 + 1 = 9 /\ 1 \in 1 .. 8 /\ 5 \in 1 .. 8 /\ 8 \in Nat
    OBVIOUS
  <2>2. u \in Seq(Cell) /\ Len(u) = 8 /\ u[1] = "GWB1" /\ u[5] = n
    BY <1>3
  <2>. HIDE DEF u
  <2>3. /\ u \o w3 \in Seq(Cell)
        /\ Len(u \o w3) = Len(u) + Len(w3)
        /\ \A i \in 1 .. Len(u) : (u \o w3)[i] = u[i]
        /\ (u \o w3)[Len(u) + 1] = w3[1]
    BY <1>1, <1>2, <2>2
  <2>. QED
    BY <1>1, <2>1, <2>2, <2>3 DEF u
<1>5. /\ w1 \o w2 \o w3 \o w4 \in Seq(Cell) /\ Len(w1 \o w2 \o w3 \o w4) = 16
      /\ (w1 \o w2 \o w3 \o w4)[1] = "GWB1" /\ (w1 \o w2 \o w3 \o w4)[5] = n
      /\ (w1 \o w2 \o w3 \o w4)[9] = p /\ (w1 \o w2 \o w3 \o w4)[13] = q
  <2>. DEFINE u == w1 \o w2 \o w3
  <2>1. /\ 12 + 4 = 16 /\ 12 + 1 = 13 /\ 12 \in Nat
        /\ 1 \in 1 .. 12 /\ 5 \in 1 .. 12 /\ 9 \in 1 .. 12
    OBVIOUS
  <2>2. u \in Seq(Cell) /\ Len(u) = 12 /\ u[1] = "GWB1" /\ u[5] = n /\ u[9] = p
    BY <1>4
  <2>. HIDE DEF u
  <2>3. /\ u \o w4 \in Seq(Cell)
        /\ Len(u \o w4) = Len(u) + Len(w4)
        /\ \A i \in 1 .. Len(u) : (u \o w4)[i] = u[i]
        /\ (u \o w4)[Len(u) + 1] = w4[1]
    BY <1>1, <1>2, <2>2
  <2>. QED
    BY <1>1, <2>1, <2>2, <2>3 DEF u
<1>. QED
  BY <1>5 DEF IsHeader, Header, w1, w2, w3, w4

\* A batch has its records and its heap at the offsets of its header.
Carries(bytes, n, r, s) ==
  /\ Len(bytes) = 16 + Len(r) + Len(s)
  /\ bytes[1] = "GWB1" /\ bytes[5] = n
  /\ bytes[9] = 16 + Len(r) /\ bytes[13] = Len(s)
  /\ \A i \in 1 .. Len(r) : bytes[16 + i] = r[i]
  /\ HeapOf(bytes) = s

LEMMA EncodedProperties ==
  ASSUME NEW n \in Cell, NEW r \in Seq(Cell), NEW s \in Seq(Cell)
  PROVE  Carries(Encoded(n, r, s), n, r, s)
<1>. DEFINE h == Header(n, 16 + Len(r), Len(s))
            bytes == Encoded(n, r, s)
<1>1. Len(r) \in Nat /\ Len(s) \in Nat /\ 16 + Len(r) \in Nat
  OBVIOUS
<1>0. n \in Cell /\ 16 + Len(r) \in Cell /\ Len(s) \in Cell
  BY <1>1 DEF Cell
<1>2. /\ h \in Seq(Cell) /\ Len(h) = 16
      /\ h[1] = "GWB1" /\ h[5] = n /\ h[9] = 16 + Len(r) /\ h[13] = Len(s)
  <2>1. IsHeader(h, n, 16 + Len(r), Len(s))
    BY <1>0, HeaderProperties
  <2>. QED
    BY <2>1 DEF IsHeader
<1>4. bytes = (h \o r) \o s
  BY DEF Encoded
<1>. HIDE DEF h, bytes
<1>5. /\ h \o r \in Seq(Cell)
      /\ Len(h \o r) = 16 + Len(r)
      /\ \A i \in 1 .. 16 : (h \o r)[i] = h[i]
      /\ \A i \in 1 .. Len(r) : (h \o r)[16 + i] = r[i]
  <2>1. /\ h \o r \in Seq(Cell)
        /\ Len(h \o r) = Len(h) + Len(r)
        /\ \A i \in 1 .. Len(h) : (h \o r)[i] = h[i]
        /\ \A i \in 1 .. Len(r) : (h \o r)[Len(h) + i] = r[i]
    BY <1>2, Appended
  <2>. QED
    BY <1>2, <2>1
<1>6. /\ bytes \in Seq(Cell)
      /\ Len(bytes) = 16 + Len(r) + Len(s)
      /\ \A i \in 1 .. 16 + Len(r) : bytes[i] = (h \o r)[i]
      /\ \A i \in 1 .. Len(s) : bytes[16 + Len(r) + i] = s[i]
  <2>. DEFINE u == h \o r
  <2>1. u \in Seq(Cell) /\ Len(u) = 16 + Len(r) /\ bytes = u \o s
    BY <1>4, <1>5
  <2>. HIDE DEF u
  <2>2. /\ bytes \in Seq(Cell)
        /\ Len(bytes) = Len(u) + Len(s)
        /\ \A i \in 1 .. Len(u) : bytes[i] = u[i]
        /\ \A i \in 1 .. Len(s) : bytes[Len(u) + i] = s[i]
    BY <2>1, Appended
  <2>. QED
    BY <1>1, <2>1, <2>2 DEF u
<1>7. /\ bytes[1] = "GWB1" /\ bytes[5] = n
      /\ bytes[9] = 16 + Len(r) /\ bytes[13] = Len(s)
  <2>1. \A i \in 1 .. 16 : i \in 1 .. 16 + Len(r)
    BY <1>1
  <2>2. \A i \in 1 .. 16 : bytes[i] = h[i]
    BY <1>5, <1>6, <2>1
  <2>. QED
    BY <1>2, <2>2
<1>8. ASSUME NEW i \in 1 .. Len(r)
      PROVE  bytes[16 + i] = r[i]
  <2>1. 16 + i \in 1 .. 16 + Len(r)
    BY <1>1
  <2>. QED
    BY <1>5, <1>6, <2>1
<1>9. HeapOf(bytes) = s
  <2>. DEFINE lo == 16 + Len(r) + 1
              hi == 16 + Len(r) + Len(s)
              t == SubSeq(bytes, lo, hi)
  <2>1. HeapOf(bytes) = t
    BY <1>7 DEF HeapOf
  <2>2. \A i \in 1 .. Len(s) : bytes[lo + i - 1] = s[i]
    <3>. TAKE i \in 1 .. Len(s)
    <3>1. lo + i - 1 = 16 + Len(r) + i
      BY <1>1
    <3>. QED
      BY <1>6, <3>1
  <2>3. lo \in Int /\ hi \in Int /\ hi - lo + 1 = Len(s) /\ (lo <= hi <=> Len(s) # 0)
    BY <1>1
  <2>4. \A i \in lo .. hi : bytes[i] \in Cell
    BY <1>1, <1>6
  <2>. HIDE DEF lo, hi
  <2>5. /\ t \in Seq(Cell)
        /\ Len(t) = IF lo <= hi THEN hi - lo + 1 ELSE 0
        /\ \A i \in 1 .. hi - lo + 1 : t[i] = bytes[lo + i - 1]
    BY <2>3, <2>4, SubSeqProperties
  <2>6. Len(t) = Len(s) /\ \A i \in 1 .. Len(s) : t[i] = s[i]
    BY <2>2, <2>3, <2>5
  <2>. HIDE DEF t
  <2>. QED
    BY <2>1, <2>5, <2>6, SeqEqual
<1>. QED
  BY <1>6, <1>7, <1>8, <1>9 DEF Carries, bytes

-----------------------------------------------------------------------------
(***************************************************************************)
(* Operations and their strings.                                           *)
(***************************************************************************)

\* Record x stands for operation m, whose string, if it has one, lies in the
\* heap h at the offset the record names.
Placed(x, h, m) ==
  /\ x \in Packed
  /\ m \in Operation
  /\ x.code = m.code /\ x.a = m.a /\ x.b = m.b /\ x.c = m.c
  /\ m.code \notin TextCodes => x.d = m.rest
  /\ m.code \in TextCodes =>
       /\ x.d \in Nat /\ x.d # NoStr
       /\ x.d + 4 + Len(m.rest) <= Len(h)
       /\ h[x.d + 1] = Len(m.rest)
       /\ \A j \in 1 .. Len(m.rest) : h[x.d + 4 + j] = m.rest[j]

\* What an operation carries.
LEMMA RestType ==
  ASSUME NEW m \in Operation
  PROVE  /\ m.code \in 1 .. 19
         /\ m = [code |-> m.code, a |-> m.a, b |-> m.b, c |-> m.c, rest |-> m.rest]
         /\ m.code \in TextCodes => m.rest \in Seq(Nat) /\ m.rest \in Seq(Cell)
         /\ m.code \notin TextCodes => m.rest \in Nat \cup Ids
<1>1. m.code \in Codes
      /\ m = [code |-> m.code, a |-> m.a, b |-> m.b, c |-> m.c, rest |-> m.rest]
  BY DEF Operation
<1>2. CASE m.code \in TextCodes
  <2>1. m.rest \in Strings
    BY <1>2 DEF Operation
  <2>2. m.rest \in Seq(Nat)
    BY <2>1, WireAssumption
  <2>3. m.rest \in Seq(Cell)
    BY <2>2, SeqMonotonic DEF Cell
  <2>. QED
    BY <1>1, <1>2, <2>2, <2>3, WireAssumption
<1>3. CASE m.code \notin TextCodes
  BY <1>1, <1>3, WireAssumption DEF Operation
<1>. QED
  BY <1>2, <1>3

\* get_str finds what str stored.
LEMMA GetStrProperties ==
  ASSUME NEW h \in Seq(Cell), NEW d \in Nat, NEW s \in Seq(Nat),
         d + 4 + Len(s) <= Len(h), h[d + 1] = Len(s),
         \A j \in 1 .. Len(s) : h[d + 4 + j] = s[j]
  PROVE  StrIn(h, d) /\ GetStr(h, d) = s
<1>. DEFINE lo == d + 5
            hi == d + 4 + Len(s)
            t == SubSeq(h, lo, hi)
<1>1. StrIn(h, d) /\ GetStr(h, d) = t
  BY DEF StrIn, GetStr
<1>2. \A j \in 1 .. Len(s) : h[lo + j - 1] = s[j]
  <2>. TAKE j \in 1 .. Len(s)
  <2>1. lo + j - 1 = d + 4 + j
    OBVIOUS
  <2>. QED
    BY <2>1
<1>3. lo \in Int /\ hi \in Int /\ hi - lo + 1 = Len(s) /\ (lo <= hi <=> Len(s) # 0)
  OBVIOUS
<1>4. \A i \in lo .. hi : h[i] \in Nat
  <2>. TAKE i \in lo .. hi
  <2>1. i - lo + 1 \in 1 .. Len(s) /\ lo + (i - lo + 1) - 1 = i
    OBVIOUS
  <2>2. h[i] = s[i - lo + 1]
    BY <1>2, <2>1
  <2>. QED
    BY <2>1, <2>2
<1>. HIDE DEF lo, hi
<1>5. /\ t \in Seq(Nat)
      /\ Len(t) = IF lo <= hi THEN hi - lo + 1 ELSE 0
      /\ \A j \in 1 .. hi - lo + 1 : t[j] = h[lo + j - 1]
  BY <1>3, <1>4, SubSeqProperties
<1>6. Len(t) = Len(s) /\ \A j \in 1 .. Len(s) : t[j] = s[j]
  BY <1>2, <1>3, <1>5
<1>. HIDE DEF t
<1>. QED
  BY <1>1, <1>5, <1>6, SeqEqual

\* decode_batch takes a placed record for what it stands for.
LEMMA PlacedDecodes ==
  ASSUME NEW h \in Seq(Cell), NEW x, NEW m, Placed(x, h, m)
  PROVE  Decodes(x, h) /\ DecodedOp(x, h) = m
<1>1. /\ m \in Operation
      /\ x.code = m.code /\ x.a = m.a /\ x.b = m.b /\ x.c = m.c
      /\ x.code \in 1 .. 19
  BY RestType DEF Placed
<1>2. m = [code |-> m.code, a |-> m.a, b |-> m.b, c |-> m.c, rest |-> m.rest]
  BY <1>1, RestType
<1>3. CASE m.code \notin TextCodes
  <2>1. x.d = m.rest
    BY <1>3 DEF Placed
  <2>. QED
    BY <1>1, <1>2, <1>3, <2>1 DEF Decodes, DecodedOp
<1>4. CASE m.code \in TextCodes
  <2>1. m.rest \in Seq(Nat)
    BY <1>1, <1>4, RestType
  <2>2. /\ x.d \in Nat /\ x.d # NoStr
        /\ x.d + 4 + Len(m.rest) <= Len(h)
        /\ h[x.d + 1] = Len(m.rest)
        /\ \A j \in 1 .. Len(m.rest) : h[x.d + 4 + j] = m.rest[j]
    BY <1>4 DEF Placed
  <2>3. StrIn(h, x.d) /\ GetStr(h, x.d) = m.rest
    BY <2>1, <2>2, GetStrProperties
  <2>. QED
    BY <1>1, <1>2, <1>4, <2>2, <2>3 DEF Decodes, DecodedOp
<1>. QED
  BY <1>3, <1>4

\* A heap that grows keeps what it has.
LEMMA PlacedInLonger ==
  ASSUME NEW h \in Seq(Cell), NEW t \in Seq(Cell), NEW x, NEW m, Placed(x, h, m)
  PROVE  Placed(x, h \o t, m)
<1>. DEFINE g == h \o t
<1>1. /\ Len(g) = Len(h) + Len(t)
      /\ \A i \in 1 .. Len(h) : g[i] = h[i]
  BY Appended
<1>. HIDE DEF g
<1>2. ASSUME m.code \in TextCodes
      PROVE  /\ x.d + 4 + Len(m.rest) <= Len(g)
             /\ g[x.d + 1] = Len(m.rest)
             /\ \A j \in 1 .. Len(m.rest) : g[x.d + 4 + j] = m.rest[j]
  <2>1. /\ x.d \in Nat
        /\ x.d + 4 + Len(m.rest) <= Len(h)
        /\ h[x.d + 1] = Len(m.rest)
        /\ \A j \in 1 .. Len(m.rest) : h[x.d + 4 + j] = m.rest[j]
    BY <1>2 DEF Placed
  <2>2. m.rest \in Seq(Nat)
    BY <1>2, RestType DEF Placed
  <2>3. Len(m.rest) \in Nat /\ Len(h) \in Nat /\ Len(t) \in Nat
    BY <2>2
  <2>4. x.d + 4 + Len(m.rest) <= Len(g)
    BY <1>1, <2>1, <2>3
  <2>5. g[x.d + 1] = Len(m.rest)
    <3>1. x.d + 1 \in 1 .. Len(h)
      BY <2>1, <2>3
    <3>. QED
      BY <1>1, <2>1, <3>1
  <2>6. ASSUME NEW j \in 1 .. Len(m.rest)
        PROVE  g[x.d + 4 + j] = m.rest[j]
    <3>1. x.d + 4 + j \in 1 .. Len(h)
      BY <2>1, <2>3
    <3>. QED
      BY <1>1, <2>1, <3>1
  <2>. QED
    BY <2>4, <2>5, <2>6
<1>. QED
  BY <1>2 DEF Placed, g

\* Batch::op for an operation with a string: the string goes to the end of
\* the heap.
LEMMA TextPlaced ==
  ASSUME NEW h \in Seq(Cell), NEW m \in Operation, m.code \in TextCodes,
         Len(h) # NoStr
  PROVE  Placed([code |-> m.code, a |-> m.a, b |-> m.b, c |-> m.c, d |-> Len(h)],
                h \o Stored(m.rest), m)
<1>. DEFINE x == [code |-> m.code, a |-> m.a, b |-> m.b, c |-> m.c, d |-> Len(h)]
            s == m.rest
            t == Stored(s)
            g == h \o t
<1>1. s \in Seq(Nat) /\ s \in Seq(Cell)
  BY RestType
<1>2. /\ t \in Seq(Cell)
      /\ Len(t) >= 4 + Len(s)
      /\ t[1] = Len(s)
      /\ \A i \in 1 .. Len(s) : t[4 + i] = s[i]
  BY <1>1, StoredProperties
<1>3. x \in Packed
  BY RestType DEF Packed, Operation
<1>. HIDE DEF s, t
<1>4. /\ g \in Seq(Cell)
      /\ Len(g) = Len(h) + Len(t)
      /\ \A i \in 1 .. Len(t) : g[Len(h) + i] = t[i]
  BY <1>2, Appended
<1>. HIDE DEF g
<1>5. Len(h) + 4 + Len(s) <= Len(g) /\ g[Len(h) + 1] = Len(s)
  BY <1>1, <1>2, <1>4
<1>6. ASSUME NEW j \in 1 .. Len(s)
      PROVE  g[Len(h) + 4 + j] = s[j]
  <2>1. 4 + j \in 1 .. Len(t) /\ Len(h) + (4 + j) = Len(h) + 4 + j
    BY <1>1, <1>2
  <2>. QED
    BY <1>2, <1>4, <2>1
<1>7. x.code = m.code /\ x.a = m.a /\ x.b = m.b /\ x.c = m.c /\ x.d = Len(h)
  OBVIOUS
<1>. HIDE DEF x
<1>8. Placed(x, g, m)
  <2>1. /\ x.d \in Nat /\ x.d # NoStr
        /\ x.d + 4 + Len(s) <= Len(g)
        /\ g[x.d + 1] = Len(s)
        /\ \A j \in 1 .. Len(s) : g[x.d + 4 + j] = s[j]
    BY <1>5, <1>6, <1>7
  <2>. QED
    BY <1>3, <1>7, <2>1 DEF Placed, s
<1>. QED
  BY <1>8 DEF x, s, t, g

\* ... and for one without.
LEMMA PlainPlaced ==
  ASSUME NEW h, NEW m \in Operation, m.code \notin TextCodes
  PROVE  Placed([code |-> m.code, a |-> m.a, b |-> m.b, c |-> m.c, d |-> m.rest],
                h, m)
<1>1. m.code \in 1 .. 19 /\ m.rest \in Nat \cup Ids
  BY RestType
<1>2. [code |-> m.code, a |-> m.a, b |-> m.b, c |-> m.c, d |-> m.rest] \in Packed
  BY <1>1 DEF Packed, Operation
<1>. QED
  BY <1>2 DEF Placed

-----------------------------------------------------------------------------
(***************************************************************************)
(* The invariant: the buffers of a batch in the making say what was put    *)
(* into it.                                                                *)
(***************************************************************************)

WireInv ==
  /\ count \in Nat
  /\ ops \in Seq(Cell) /\ heap \in Seq(Cell)
  /\ meant \in Seq(Operation)
  /\ Len(ops) = 16 * count
  /\ Len(meant) = count
  /\ \A i \in 1 .. count : Placed(ops[16 * (i - 1) + 1], heap, meant[i])

\* What Batch::op appends for operation m.
RecordOf(m) ==
  [code |-> m.code, a |-> m.a, b |-> m.b, c |-> m.c,
   d |-> IF m.code \in TextCodes THEN Len(heap) ELSE m.rest]

LEMMA RecordOfPlaced ==
  ASSUME WireInv, NEW m \in Operation, Emit(m)
  PROVE  heap' \in Seq(Cell) /\ Placed(RecordOf(m), heap', m)
<1>1. heap \in Seq(Cell) /\ Len(heap) \in Nat
  BY DEF WireInv
<1>2. CASE m.code \in TextCodes
  <2>1. /\ heap' = heap \o Stored(m.rest)
        /\ Len(heap) + 8 + Len(m.rest) < NoStr
    BY <1>2 DEF Emit
  <2>2. m.rest \in Seq(Nat) /\ m.rest \in Seq(Cell) /\ NoStr \in Nat
    BY <1>2, RestType, WireAssumption
  <2>3. Len(heap) # NoStr
    <3>1. Len(m.rest) \in Nat
      BY <2>2
    <3>2. \A i, j, n \in Nat : i + 8 + j < n => i # n
      OBVIOUS
    <3>. QED
      BY <1>1, <2>1, <2>2, <3>1, <3>2
  <2>4. heap' \in Seq(Cell)
    BY <1>1, <2>1, <2>2, StoredProperties, Appended
  <2>. QED
    BY <1>1, <1>2, <2>1, <2>3, <2>4, TextPlaced DEF RecordOf
<1>3. CASE m.code \notin TextCodes
  <2>1. heap' = heap
    BY <1>3 DEF Emit
  <2>. QED
    BY <1>1, <1>3, <2>1, PlainPlaced DEF RecordOf
<1>. QED
  BY <1>2, <1>3

LEMMA EmitInv ==
  ASSUME WireInv, NEW m \in Operation, Emit(m)
  PROVE  WireInv'
<1>. DEFINE x == RecordOf(m)
            cell == Held(x, 16)
<1>1. /\ count' = count + 1
      /\ ops' = ops \o cell
      /\ meant' = Append(meant, m)
  BY DEF Emit, RecordOf
<1>2. /\ count \in Nat /\ ops \in Seq(Cell) /\ heap \in Seq(Cell)
      /\ meant \in Seq(Operation)
      /\ Len(ops) = 16 * count /\ Len(meant) = count
      /\ \A i \in 1 .. count : Placed(ops[16 * (i - 1) + 1], heap, meant[i])
  BY DEF WireInv
<1>3. heap' \in Seq(Cell) /\ Placed(x, heap', m)
  BY RecordOfPlaced
<1>4. x \in Cell
  BY <1>3 DEF Placed, Cell
<1>. HIDE DEF x
<1>5. cell \in Seq(Cell) /\ Len(cell) = 16 /\ cell[1] = x
  BY <1>4, HeldProperties
<1>. HIDE DEF cell
<1>6. /\ ops' \in Seq(Cell)
      /\ Len(ops') = Len(ops) + Len(cell)
      /\ \A i \in 1 .. Len(ops) : ops'[i] = ops[i]
      /\ \A i \in 1 .. Len(cell) : ops'[Len(ops) + i] = cell[i]
  BY <1>1, <1>2, <1>5, Appended, ZenonT(60)
<1>7. Len(ops') = 16 * count' /\ count' \in Nat
  BY <1>1, <1>2, <1>5, <1>6
<1>8. /\ meant' \in Seq(Operation)
      /\ Len(meant') = count'
      /\ \A i \in 1 .. count : meant'[i] = meant[i]
      /\ meant'[count'] = m
  BY <1>1, <1>2
<1>9. ASSUME NEW i \in 1 .. count
      PROVE  Placed(ops'[16 * (i - 1) + 1], heap', meant'[i])
  <2>1. 16 * (i - 1) + 1 \in 1 .. Len(ops)
    BY <1>2
  <2>2. ops'[16 * (i - 1) + 1] = ops[16 * (i - 1) + 1]
    BY <1>6, <2>1
  <2>3. Placed(ops[16 * (i - 1) + 1], heap, meant[i])
    BY <1>2
  <2>4. heap' = heap \/ \E t \in Seq(Cell) : heap' = heap \o t
    <3>1. CASE m.code \in TextCodes
      BY <3>1, RestType, StoredProperties DEF Emit
    <3>2. CASE m.code \notin TextCodes
      BY <3>2 DEF Emit
    <3>. QED
      BY <3>1, <3>2
  <2>5. Placed(ops[16 * (i - 1) + 1], heap', meant[i])
    BY <1>2, <2>3, <2>4, PlacedInLonger
  <2>. QED
    BY <1>8, <2>2, <2>5
<1>10. Placed(ops'[16 * (count' - 1) + 1], heap', meant'[count'])
  <2>1. 16 * (count' - 1) + 1 = Len(ops) + 1
    BY <1>1, <1>2
  <2>2. ops'[Len(ops) + 1] = x
    <3>1. 1 \in 1 .. Len(cell)
      BY <1>5
    <3>. QED
      BY <1>5, <1>6, <3>1
  <2>. QED
    BY <1>3, <1>8, <2>1, <2>2
<1>11. \A i \in 1 .. count' : i \in 1 .. count \/ i = count'
  BY <1>1, <1>2
<1>. QED
  BY <1>3, <1>6, <1>7, <1>8, <1>9, <1>10, <1>11 DEF WireInv

\* The host understands the batch, and as it was meant.
LEMMA SubmittedAsMeant ==
  ASSUME WireInv
  PROVE  LET bytes == Encoded(count, ops, heap)
         IN Decodable(bytes) /\ DecodeBatch(bytes) = meant
<1>. DEFINE bytes == Encoded(count, ops, heap)
<1>1. /\ count \in Nat /\ ops \in Seq(Cell) /\ heap \in Seq(Cell)
      /\ meant \in Seq(Operation)
      /\ Len(ops) = 16 * count /\ Len(meant) = count
      /\ Len(heap) \in Nat
      /\ \A i \in 1 .. count : Placed(ops[16 * (i - 1) + 1], heap, meant[i])
  BY DEF WireInv
<1>0. count \in Cell
  BY <1>1 DEF Cell
<1>2. /\ Len(bytes) = 16 + Len(ops) + Len(heap)
      /\ bytes[1] = "GWB1" /\ bytes[5] = count
      /\ bytes[9] = 16 + Len(ops) /\ bytes[13] = Len(heap)
      /\ \A i \in 1 .. Len(ops) : bytes[16 + i] = ops[i]
      /\ HeapOf(bytes) = heap
  <2>1. Carries(bytes, count, ops, heap)
    BY <1>0, <1>1, EncodedProperties
  <2>. QED
    BY <2>1 DEF Carries
<1>. HIDE DEF bytes
<1>3. ASSUME NEW i \in 1 .. count
      PROVE  /\ Decodes(Record(bytes, i), heap)
             /\ DecodedOp(Record(bytes, i), heap) = meant[i]
  <2>1. 16 * (i - 1) + 1 \in 1 .. Len(ops) /\ 16 + (16 * (i - 1) + 1) = 16 * i + 1
    BY <1>1
  <2>2. Record(bytes, i) = ops[16 * (i - 1) + 1]
    BY <1>2, <2>1, SMTT(30) DEF Record
  <2>. QED
    BY <1>1, <2>2, PlacedDecodes
<1>4. Decodable(bytes)
  <2>1. /\ Len(bytes) >= 16
        /\ bytes[9] + bytes[13] <= Len(bytes)
        /\ 16 + 16 * bytes[5] <= Len(bytes)
    BY <1>1, <1>2
  <2>. QED
    BY <1>2, <1>3, <2>1 DEF Decodable
<1>5. DecodeBatch(bytes) = [i \in 1 .. count |-> meant[i]]
  BY <1>2, <1>3 DEF DecodeBatch
<1>6. meant = [i \in 1 .. count |-> meant[i]]
  BY <1>1
<1>. QED
  BY <1>4, <1>5, <1>6 DEF bytes

\* What the guest sent and what the host got stay the same.
LEMMA WireStep ==
  WireInv /\ WireKeepsOps /\ [Next]_vars => WireInv' /\ WireKeepsOps'
<1>. SUFFICES ASSUME WireInv, WireKeepsOps, [Next]_vars
              PROVE  WireInv' /\ WireKeepsOps'
  OBVIOUS
<1>1. ASSUME NEW m \in Operation, Emit(m)
      PROVE  WireInv' /\ WireKeepsOps'
  BY <1>1, EmitInv DEF Emit, WireKeepsOps
<1>2. CASE Submit
  <2>1. /\ batches' = Append(batches, meant)
        /\ sent' = Append(sent, meant)
    BY <1>2, SubmittedAsMeant DEF Submit
  <2>2. count' = 0 /\ ops' = <<>> /\ heap' = <<>> /\ meant' = <<>>
    BY <1>2 DEF Submit
  <2>. QED
    BY <2>1, <2>2 DEF WireInv, WireKeepsOps
<1>3. CASE Take
  BY <1>3 DEF Take, WireInv, WireKeepsOps
<1>4. ASSUME NEW t \in Texts,
             \/ Input(t)
             \/ \E k \in Kinds : UiEvent(k, t) \/ ResultEvent(k, t)
      PROVE  WireInv' /\ WireKeepsOps'
  <2>1. UNCHANGED batchVars
    BY <1>4 DEF Input, UiEvent, ResultEvent, Deliver
  <2>. QED
    BY <2>1 DEF batchVars, WireInv, WireKeepsOps
<1>5. CASE UNCHANGED vars
  BY <1>5 DEF vars, batchVars, WireInv, WireKeepsOps
<1>. QED
  BY <1>1, <1>2, <1>3, <1>4, <1>5 DEF Next

\* Every batch is decoded to the operations and strings the guest meant.
THEOREM WireAlwaysKeepsOps == Spec => []WireKeepsOps
<1>1. Init => WireInv /\ WireKeepsOps
  BY DEF Init, WireInv, WireKeepsOps
<1>2. WireInv /\ WireKeepsOps /\ [Next]_vars => WireInv' /\ WireKeepsOps'
  BY WireStep
<1>. QED
  BY <1>1, <1>2, PTL DEF Spec

(***************************************************************************)
(* Events: the fields.  A payload is laid out soundly when its fields lie  *)
(* within the 16 bytes and apart; then each of them is found again.        *)
(***************************************************************************)

Field(f) == f[2] \in Nat /\ f[3] \in Nat /\ f[2] + f[3] <= 16

\* All of f lies before g, or after it.
Clear(f, g) == f[2] + f[3] <= g[2] \/ g[2] + g[3] <= f[2]

LaidOut(S) ==
  \A f \in S : Field(f) /\ \A g \in S : f # g => Clear(f, g)

\* A field that the host wrote is read as it was written.
LEMMA WrittenReadsTrue ==
  ASSUME NEW k, LaidOut(HostWrites(k)), NEW f \in HostWrites(k)
  PROVE  ReadsTrue(f, Payload(k))
<1>1. f[2] \in Nat /\ f[3] \in Nat /\ f[2] + f[3] <= 16
  BY DEF LaidOut, Field
<1>2. ASSUME NEW j \in 0 .. f[3] - 1
      PROVE  Payload(k)[f[2] + j] = <<f[1], j>>
  <2>. DEFINE o == f[2] + j
  <2>1. o \in 0 .. 15 /\ o \in f[2] .. f[2] + f[3] - 1 /\ o - f[2] = j
    BY <1>1, <1>2
  <2>2. ASSUME NEW g \in HostWrites(k), o \in g[2] .. g[2] + g[3] - 1
        PROVE  g = f
    <3>1. g[2] \in Nat /\ g[3] \in Nat
      BY DEF LaidOut, Field
    <3>2. ~Clear(f, g)
      BY <1>1, <2>1, <2>2, <3>1 DEF Clear
    <3>. QED
      BY <3>2 DEF LaidOut
  <2>3. (CHOOSE g \in HostWrites(k) : o \in g[2] .. g[2] + g[3] - 1) = f
    BY <2>1, <2>2
  <2>. HIDE DEF o
  <2>4. Payload(k)[o] = <<f[1], o - f[2]>>
    BY <2>1, <2>3 DEF Payload
  <2>. QED
    BY <2>1, <2>4 DEF o
<1>. QED
  BY <1>2 DEF ReadsTrue

\* A field apart from all that the host wrote is read as zeros.
LEMMA UnwrittenReadsTrue ==
  ASSUME NEW k, NEW f, Field(f), LaidOut(HostWrites(k)),
         \A g \in HostWrites(k) : Clear(f, g)
  PROVE  ReadsTrue(f, Payload(k))
<1>1. f[2] \in Nat /\ f[3] \in Nat /\ f[2] + f[3] <= 16
  BY DEF Field
<1>2. ASSUME NEW j \in 0 .. f[3] - 1
      PROVE  Payload(k)[f[2] + j] = <<"none", 0>>
  <2>. DEFINE o == f[2] + j
  <2>1. o \in 0 .. 15 /\ o \in f[2] .. f[2] + f[3] - 1
    BY <1>1, <1>2
  <2>2. ASSUME NEW g \in HostWrites(k), o \in g[2] .. g[2] + g[3] - 1
        PROVE  FALSE
    <3>1. g[2] \in Nat /\ g[3] \in Nat
      BY DEF LaidOut, Field
    <3>. QED
      BY <1>1, <2>1, <2>2, <3>1 DEF Clear
  <2>. HIDE DEF o
  <2>3. Payload(k)[o] = <<"none", 0>>
    BY <2>1, <2>2 DEF Payload
  <2>. QED
    BY <2>3 DEF o
<1>. QED
  BY <1>2 DEF ReadsTrue

\* What the host writes of each kind is laid out soundly, and what the guest
\* reads is part of it, but for the pressed flag of a text input.
LEMMA HostLaysOut ==
  ASSUME NEW k \in Kinds
  PROVE  LaidOut(HostWrites(k))
<1>. USE DEF LaidOut, Field, Clear, Point
<1>1. CASE k \in PointerKinds \cup {"context_menu", "pointer_cancel"}
  <2>1. HostWrites(k) = {<<"x", 0, 4>>, <<"y", 4, 4>>,
                         <<"buttons", 8, 2>>, <<"mods", 10, 2>>}
    BY <1>1 DEF HostWrites, PointerKinds, KeyKinds
  <2>. QED
    BY <2>1
<1>2. CASE k = "wheel"
  <2>1. HostWrites(k) = {<<"dx", 0, 4>>, <<"dy", 4, 4>>, <<"mods", 8, 2>>}
    BY <1>2 DEF HostWrites, PointerKinds, KeyKinds
  <2>. QED
    BY <2>1
<1>3. CASE k \in KeyKinds
  <2>1. HostWrites(k) = {<<"mods", 2, 2>>, <<"pressed", 4, 1>>}
    BY <1>3 DEF HostWrites, PointerKinds, KeyKinds
  <2>. QED
    BY <2>1
<1>4. CASE k = "text_input"
  <2>1. HostWrites(k) = {<<"mods", 2, 2>>}
    BY <1>4 DEF HostWrites, PointerKinds, KeyKinds
  <2>. QED
    BY <2>1
<1>5. CASE k = "scroll"
  <2>1. HostWrites(k) = {<<"x", 0, 4>>, <<"y", 4, 4>>}
    BY <1>5 DEF HostWrites, PointerKinds, KeyKinds
  <2>. QED
    BY <2>1
<1>6. CASE k \in {"window_resize", "page_load"}
  <2>1. HostWrites(k) = {<<"w", 0, 4>>, <<"h", 4, 4>>, <<"scale", 8, 4>>}
    BY <1>6 DEF HostWrites, PointerKinds, KeyKinds
  <2>. QED
    BY <2>1
<1>7. CASE k = "theme_change"
  <2>1. HostWrites(k) = {<<"dark", 0, 4>>}
    BY <1>7 DEF HostWrites, PointerKinds, KeyKinds
  <2>. QED
    BY <2>1
<1>8. CASE k = "net_result"
  <2>1. HostWrites(k) = {<<"status", 0, 2>>, <<"ok", 2, 1>>}
    BY <1>8 DEF HostWrites, PointerKinds, KeyKinds
  <2>. QED
    BY <2>1
<1>9. CASE k = "rpc_result"
  <2>1. HostWrites(k) = {<<"status", 0, 2>>, <<"ok", 2, 1>>,
                         <<"err_class", 3, 1>>, <<"req_id", 4, 4>>}
    BY <1>9 DEF HostWrites, PointerKinds, KeyKinds
  <2>. QED
    BY <2>1
<1>10. CASE k = "observed_layout"
  <2>1. HostWrites(k) = {<<"x", 0, 4>>, <<"y", 4, 4>>,
                         <<"w", 8, 4>>, <<"h", 12, 4>>}
    BY <1>10 DEF HostWrites, PointerKinds, KeyKinds
  <2>. QED
    BY <2>1
<1>11. CASE k \in {"input", "focus", "blur"}
  <2>1. HostWrites(k) = {}
    BY <1>11 DEF HostWrites, PointerKinds, KeyKinds
  <2>. QED
    BY <2>1
<1>. QED
  BY <1>1, <1>2, <1>3, <1>4, <1>5, <1>6, <1>7, <1>8, <1>9, <1>10, <1>11
     DEF Kinds, ResultKinds, TextKinds, KeyKinds, BareKinds

LEMMA GuestReadsWritten ==
  ASSUME NEW k \in Kinds, NEW f \in GuestReads(k)
  PROVE  f \in HostWrites(k) \/ (k = "text_input" /\ f = <<"pressed", 4, 1>>)
<1>1. CASE k \in PointerKinds
  BY <1>1 DEF GuestReads, HostWrites
<1>2. CASE k \in KeyKinds
  BY <1>2 DEF GuestReads, HostWrites, PointerKinds, KeyKinds
<1>3. CASE k = "text_input"
  <2>1. GuestReads(k) = {<<"mods", 2, 2>>, <<"pressed", 4, 1>>}
    BY <1>3 DEF GuestReads, PointerKinds, KeyKinds
  <2>2. HostWrites(k) = {<<"mods", 2, 2>>}
    BY <1>3 DEF HostWrites, PointerKinds, KeyKinds
  <2>. QED
    BY <1>3, <2>1, <2>2
<1>4. CASE k \in ResultKinds
  BY <1>4 DEF GuestReads, HostWrites, PointerKinds, KeyKinds, ResultKinds
<1>5. CASE k \in {"context_menu", "pointer_cancel", "input", "focus", "blur"}
  BY <1>5 DEF GuestReads, PointerKinds, KeyKinds
<1>6. CASE k \in {"wheel", "scroll", "window_resize", "page_load",
                  "theme_change", "observed_layout"}
  BY <1>6 DEF GuestReads, HostWrites, PointerKinds, KeyKinds
<1>. QED
  BY <1>1, <1>2, <1>3, <1>4, <1>5, <1>6
     DEF Kinds, TextKinds, KeyKinds, BareKinds

\* Whatever its kind, the guest reads an event as the host wrote it.
LEMMA FieldsAgree ==
  ASSUME NEW k \in Kinds
  PROVE  \A f \in GuestReads(k) : ReadsTrue(f, Payload(k))
<1>. SUFFICES ASSUME NEW f \in GuestReads(k)
              PROVE  ReadsTrue(f, Payload(k))
  OBVIOUS
<1>1. CASE f \in HostWrites(k)
  BY <1>1, HostLaysOut, WrittenReadsTrue
<1>2. CASE k = "text_input" /\ f = <<"pressed", 4, 1>>
  <2>1. HostWrites(k) = {<<"mods", 2, 2>>}
    BY <1>2 DEF HostWrites, PointerKinds, KeyKinds
  <2>2. Field(f) /\ \A g \in HostWrites(k) : Clear(f, g)
    BY <1>2, <2>1 DEF Field, Clear
  <2>. QED
    BY <2>2, HostLaysOut, UnwrittenReadsTrue
<1>. QED
  BY <1>1, <1>2, GuestReadsWritten

(***************************************************************************)
(* Events: the text.                                                       *)
(***************************************************************************)

LEMMA BytesNat ==
  ASSUME NEW t \in Text
  PROVE  Bytes(t) \in Nat
  BY DEF Text, Bytes, Last

\* What fits the region is found there by the guest.
LEMMA FitsIsRead ==
  ASSUME NEW t \in Text, Fits(t)
  PROVE  ReadText(t) = t
<1>1. Bytes(t) <= Pad4(Bytes(t)) /\ Pad4(Bytes(t)) \in Nat
  BY BytesNat DEF Pad4
<1>2. 40 + Bytes(t) <= Region
  BY <1>1, BytesNat, WireAssumption DEF Fits
<1>. QED
  BY <1>2 DEF ReadText

\* A beginning of a text, in whole characters, is a text.
LEMMA PrefixIsText ==
  ASSUME NEW t \in Text, NEW n \in 0 .. Len(t)
  PROVE  SubSeq(t, 1, n) \in Text /\ Len(SubSeq(t, 1, n)) = n
<1>. DEFINE p == SubSeq(t, 1, n)
<1>1. t \in Seq(Nat) /\ Len(t) \in Nat
  BY DEF Text
<1>2. p \in Seq(Nat) /\ Len(p) = n /\ \A i \in 1 .. n : p[i] = t[i]
  <2>1. \A i \in 1 .. n : t[i] \in Nat
    BY <1>1
  <2>. QED
    BY <1>1, <2>1
<1>. HIDE DEF p
<1>3. ASSUME NEW i \in 1 .. n
      PROVE  p[i] - (IF i = 1 THEN 0 ELSE p[i - 1]) \in 1 .. 4
  <2>1. i \in 1 .. Len(t) /\ p[i] = t[i]
    BY <1>1, <1>2, <1>3
  <2>2. i # 1 => p[i - 1] = t[i - 1]
    BY <1>2, <1>3
  <2>3. t[i] - (IF i = 1 THEN 0 ELSE t[i - 1]) \in 1 .. 4
    BY <2>1 DEF Text
  <2>. QED
    BY <2>1, <2>2, <2>3
<1>. QED
  BY <1>2, <1>3 DEF Text, p

\* A set of numbers up to n that holds one holds a greatest.
LEMMA GreatestBelow ==
  ASSUME NEW n \in Nat, NEW S \in SUBSET (0 .. n), S # {}
  PROVE  \E x \in S : \A y \in S : y <= x
<1>. DEFINE R == OpToRel(<, Nat)
            T == {n - x : x \in S}
<1>1. T \subseteq Nat /\ T # {}
  <2>1. PICK x \in S : TRUE
    OBVIOUS
  <2>2. n - x \in T
    OBVIOUS
  <2>3. ASSUME NEW d \in T PROVE d \in Nat
    OBVIOUS
  <2>. QED
    BY <2>2, <2>3
<1>2. IsWellFoundedOn(R, Nat)
  BY NatLessThanWellFounded
<1>3. \A x, y \in Nat : x < y => <<x, y>> \in R
  BY DEF OpToRel
<1>. HIDE DEF R, T
<1>4. PICK d \in T : \A e \in T : ~(<<e, d>> \in R)
  BY <1>1, <1>2, WFMin
<1>5. ASSUME NEW e \in T PROVE d <= e
  <2>1. d \in Nat /\ e \in Nat /\ ~(<<e, d>> \in R)
    BY <1>1, <1>4, <1>5
  <2>2. ~(e < d)
    BY <1>3, <2>1
  <2>. QED
    BY <2>1, <2>2
<1>6. PICK x \in S : d = n - x
  BY <1>4 DEF T
<1>7. ASSUME NEW y \in S PROVE y <= x
  <2>1. n - y \in T
    BY DEF T
  <2>2. n - x <= n - y
    BY <1>5, <1>6, <2>1
  <2>. QED
    BY <2>2
<1>. QED
  BY <1>7

\* The truncation loop ends at a boundary, and leaves room for the header.
LEMMA CutProperties ==
  ASSUME NEW t \in Text
  PROVE  Cut(t) \in Text /\ Bytes(Cut(t)) <= Region - 64
<1>. DEFINE At(n) == SubSeq(t, 1, n)
            Good == {n \in 0 .. Len(t) : Bytes(At(n)) <= Region - 64}
<1>1. t \in Seq(Nat) /\ Len(t) \in Nat
  BY DEF Text
<1>2. At(0) = <<>>
  BY <1>1, SubSeqEmpty
<1>3. 0 \in Good
  BY <1>1, <1>2, WireAssumption DEF Bytes
<1>4. PICK n \in Good : \A m \in Good : m <= n
  <2>. HIDE DEF Good
  <2>1. Good \in SUBSET (0 .. Len(t))
    BY DEF Good
  <2>. QED
    BY <1>1, <1>3, <2>1, GreatestBelow
<1>5. Prefixes(t) = {At(m) : m \in 0 .. Len(t)}
  BY DEF Prefixes
<1>6. \A m \in 0 .. Len(t) : Len(At(m)) = m /\ At(m) \in Text
  BY PrefixIsText
<1>. HIDE DEF At
<1>7. /\ At(n) \in Prefixes(t)
      /\ Bytes(At(n)) <= Region - 64
      /\ \A q \in Prefixes(t) : Bytes(q) <= Region - 64 => Len(q) <= Len(At(n))
  BY <1>4, <1>5, <1>6
<1>8. Cut(t) \in Prefixes(t) /\ Bytes(Cut(t)) <= Region - 64
  BY <1>7 DEF Cut
<1>. QED
  BY <1>5, <1>6, <1>8

LEMMA CutFits ==
  ASSUME NEW t \in Text
  PROVE  Cut(t) \in Text /\ Fits(Cut(t))
<1>1. Bytes(Cut(t)) \in Nat /\ Bytes(Cut(t)) <= Region - 64
  BY CutProperties, BytesNat
<1>2. Pad4(Bytes(Cut(t))) <= Bytes(Cut(t)) + 3 /\ Pad4(Bytes(Cut(t))) \in Nat
  BY <1>1 DEF Pad4
<1>. QED
  BY <1>1, <1>2, CutProperties, WireAssumption DEF Fits

(***************************************************************************)
(* The invariant of the event side: it says of which texts and kinds the   *)
(* guest and the host agree, and that one of them is the input field's.    *)
(***************************************************************************)

EventInv ==
  /\ field \in Text
  /\ seen.kind \in Kinds \cup {"none"}
  /\ seen # NoEvent => seen = out
  /\ out.kind \in ResultKinds => seen # NoEvent
  /\ Fits(field) => value = field

\* What one event leaves behind.
LEMMA Delivered ==
  ASSUME NEW k \in Kinds, NEW t \in Text, Deliver(k, t)
  PROVE  /\ seen'.kind \in Kinds \cup {"none"}
         /\ seen' # NoEvent => seen' = out'
         /\ out'.kind = k
         /\ Fits(t) => seen' # NoEvent /\ seen'.kind = k /\ seen'.text = t
<1>1. k # "none"
  BY DEF Kinds, PointerKinds, ResultKinds, TextKinds, KeyKinds, BareKinds
<1>2. /\ out' = Event(k, t)
      /\ seen' = IF Fits(t) THEN Event(k, ReadText(t)) ELSE NoEvent
  BY DEF Deliver
<1>3. NoEvent.kind = "none" /\ Event(k, t).kind = k /\ Event(k, t).text = t
  BY DEF NoEvent, Event
<1>4. CASE Fits(t)
  <2>1. seen' = Event(k, t)
    BY <1>2, <1>4, FitsIsRead
  <2>2. Event(k, t) # NoEvent
    BY <1>1, <1>3
  <2>. QED
    BY <1>2, <1>3, <2>1, <2>2
<1>5. CASE ~Fits(t)
  BY <1>2, <1>3, <1>5
<1>. QED
  BY <1>4, <1>5

LEMMA EventStep ==
  ASSUME EventInv, [Next]_vars
  PROVE  EventInv'
<1>1. Texts \subseteq Text
  BY WireAssumption
<1>2. ASSUME UNCHANGED eventVars PROVE EventInv'
  BY <1>2 DEF eventVars, EventInv
<1>3. ASSUME NEW t \in Texts, Input(t) PROVE EventInv'
  <2>1. "input" \in Kinds /\ "input" \notin ResultKinds
    BY DEF Kinds, TextKinds, ResultKinds
  <2>2. t \in Text /\ field' = t /\ Deliver("input", t)
        /\ value' = IF seen'.kind = "input" THEN seen'.text ELSE value
    BY <1>1, <1>3 DEF Input
  <2>3. /\ seen'.kind \in Kinds \cup {"none"}
        /\ seen' # NoEvent => seen' = out'
        /\ out'.kind = "input"
        /\ Fits(t) => seen'.kind = "input" /\ seen'.text = t
    BY <2>1, <2>2, Delivered
  <2>. QED
    BY <2>1, <2>2, <2>3 DEF EventInv
<1>4. ASSUME NEW t \in Texts, NEW k \in Kinds, UiEvent(k, t)
      PROVE  EventInv'
  <2>1. k \notin ResultKinds
    BY <1>4 DEF UiEvent, TextKinds, KeyKinds, PointerKinds, BareKinds, ResultKinds
  <2>2. t \in Text /\ Deliver(k, t) /\ field' = field /\ value' = value
    BY <1>1, <1>4 DEF UiEvent
  <2>3. /\ seen'.kind \in Kinds \cup {"none"}
        /\ seen' # NoEvent => seen' = out'
        /\ out'.kind = k
    BY <2>2, Delivered
  <2>. QED
    BY <2>1, <2>2, <2>3 DEF EventInv
<1>5. ASSUME NEW t \in Texts, NEW k \in Kinds, ResultEvent(k, t)
      PROVE  EventInv'
  <2>1. Deliver(k, Cut(t)) /\ field' = field /\ value' = value
    BY <1>5 DEF ResultEvent
  <2>2. Cut(t) \in Text /\ Fits(Cut(t))
    BY <1>1, CutFits
  <2>3. /\ seen'.kind \in Kinds \cup {"none"}
        /\ seen' # NoEvent => seen' = out'
        /\ seen' # NoEvent
    BY <2>1, <2>2, Delivered
  <2>. QED
    BY <2>1, <2>3 DEF EventInv
<1>6. CASE \/ \E m \in Operation : Emit(m)
           \/ Submit \/ Take \/ UNCHANGED vars
  BY <1>2, <1>6 DEF Emit, Submit, Take, vars, eventVars
<1>. QED
  BY <1>3, <1>4, <1>5, <1>6 DEF Next

\* Guest and host agree on every field and text of every event, no result is
\* refused, and the guest's copy of an input field is the field's text when
\* that fits, for any texts and any size of the region from 64 bytes on.
THEOREM EventsAlwaysAgree == Spec => []EventsAgree
<1>1. Init => EventInv
  <2>1. <<>> \in Text
    BY DEF Text
  <2>2. "none" \notin ResultKinds /\ NoEvent.kind = "none"
    BY DEF ResultKinds, NoEvent, Event
  <2>. QED
    BY <2>1, <2>2 DEF Init, EventInv
<1>2. EventInv /\ [Next]_vars => EventInv'
  BY EventStep
<1>3. EventInv => EventsAgree
  <2>1. GuestReads("none") = {}
    BY DEF GuestReads, PointerKinds, KeyKinds
  <2>. QED
    BY <2>1, FieldsAgree DEF EventInv, EventsAgree
<1>. QED
  BY <1>1, <1>2, <1>3, PTL DEF Spec

=============================================================================
