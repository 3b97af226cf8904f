-------------------------- MODULE Bin2Page_proofs --------------------------
(***************************************************************************)
(* The BIN2Page format, for every size of a block and whatever bytes are   *)
(* in it: the blocks of bin2page_encoder fit and give both variants back,  *)
(* bin2page_decoder.c does with any block what the format says, and with   *)
(* a stream of pages what it does with its blocks.                         *)
(* Induction is that of CRC32_proofs.                                      *)
(***************************************************************************)
EXTENDS Bin2Page, CRC32_proofs, SequenceTheorems

----------------------------------------------------------------------------
(* The blocks of the encoder                                               *)

\* A block as the encoder builds it, before or after it is full.
Fits(blk) ==
  /\ blk = [addr |-> blk.addr, change |-> blk.change, data |-> blk.data]
  /\ blk.addr \in Seq(Byte) /\ blk.change \in Seq(Byte) /\ blk.data \in Seq(Byte)
  /\ Len(blk.change) = Len(blk.addr) /\ Len(blk.addr) <= Len(blk.data)
  /\ \A i \in 1 .. Len(blk.addr) : /\ blk.addr[i] < Len(blk.data)
                                   /\ \A j \in 1 .. (i - 1) : blk.addr[j] < blk.addr[i]
  /\ block_len(blk) <= BSIZE

\* A page holds a header, a difference and its byte, and what may be padding.
LEMMA BlockSize == BSIZE \in Nat /\ BSIZE >= 8
BY FormatAssumption

\* The FULL bit is half of the values of a byte.
LEMMA Half == FULL \in Nat /\ FULL >= 4 /\ 2 * FULL = BSIZE
BY FormatAssumption DEF FULL

\* A byte is a number below the size of a block.
LEMMA ByteRange == \A x : x \in Byte <=> (x \in Int /\ 0 <= x /\ x <= BSIZE - 1)
BY BlockSize DEF Byte

\* A block that is nearly full has room in its header for the count: b is its size, n the
\* entries, m the bytes, p the padding.
LEMMA HeaderRoom ==
  ASSUME NEW b \in Nat, NEW f \in Nat, f >= 4, 2 * f = b,
         NEW n \in Nat, NEW m \in Nat, n <= m,
         NEW p \in Int, 1 + n + n + m <= b, 1 + n + n + m >= b - 2, p = b - (1 + n + n + m)
  PROVE  p \in 0 .. 2 /\ p + n < f /\ 1 + p + n + n + m = b
OBVIOUS

\* The count is what is left of the header without the FULL bit.
LEMMA ModOfOneMore ==
  ASSUME NEW f \in Nat, f > 0, NEW x \in Nat, x < f
  PROVE  (f + x) % f = x
<1> DEFINE q == (f + x) \div f
           r == (f + x) % f
<1>1. q \in Int /\ r \in 0 .. (f - 1) /\ f + x = f * q + r
  OBVIOUS
<1> HIDE DEF q, r
<1>2. q = 1
  <2>1. f * q < 2 * f /\ f * q > 0
    BY <1>1
  <2>2. ~(q >= 2)
    BY <1>1, <2>1, SMTT(30)
  <2>3. ~(q <= 0)
    BY <1>1, <2>1, SMTT(30)
  <2> QED BY <1>1, <2>2, <2>3
<1>3. f * q = f
  BY <1>2
<1>4. r = x
  BY <1>1, <1>3
<1> QED BY <1>4 DEF r

(***************************************************************************)
(* The block is flushed in time: while it is not full there is room for    *)
(* one more byte with its difference (the encoder asserts block_len <= 256 *)
(* behind each byte).                                                      *)
(***************************************************************************)
THEOREM PushFits ==
  ASSUME NEW blk, Fits(blk), ~BlockFull(blk), NEW a \in Byte, NEW b \in Byte
  PROVE  Fits(Push(blk, a, b))
<1> DEFINE n == Len(blk.addr)
           m == Len(blk.data)
           data == Append(blk.data, a)
<1>1. /\ n \in Nat /\ m \in Nat /\ Len(blk.change) = n /\ n <= m
      /\ blk.data \in Seq(Byte) /\ blk.addr \in Seq(Byte) /\ blk.change \in Seq(Byte)
  BY LenProperties DEF Fits
<1>2. 1 + n + n + m < BSIZE - 2
  <2>1. block_len(blk) = 1 + n + n + m
    BY <1>1 DEF block_len
  <2>2. ~(1 + n + n + m >= BSIZE - 2)
    BY <2>1 DEF BlockFull
  <2> HIDE DEF n, m
  <2> QED BY <1>1, <2>2, BlockSize
<1>3. \A i \in 1 .. n : blk.addr[i] \in Int /\ blk.addr[i] < m
  <2>1. \A i \in 1 .. n : blk.addr[i] \in Byte
    BY <1>1, ElementOfSeq
  <2>2. \A i \in 1 .. n : blk.addr[i] \in Int
    BY <2>1, ByteRange
  <2>3. \A i \in 1 .. n : blk.addr[i] < m
    BY DEF Fits
  <2> QED BY <2>2, <2>3
<1>4. data \in Seq(Byte) /\ Len(data) = m + 1
  BY <1>1, AppendProperties
<1>5. 1 + n + n + (m + 1) <= BSIZE /\ 1 + (n + 1) + (n + 1) + (m + 1) <= BSIZE
      /\ n + 1 <= m + 1
  <2> HIDE DEF n, m
  <2> QED BY <1>1, <1>2, BlockSize
<1>6. m \in Byte
  <2>1. m \in Int /\ 0 <= m /\ m <= BSIZE - 1
    <3> HIDE DEF n, m
    <3> QED BY <1>1, <1>2, BlockSize
  <2> QED BY <2>1, ByteRange
<1> HIDE DEF data
<1>7. CASE a = b
  <2> DEFINE new == [addr |-> blk.addr, change |-> blk.change, data |-> data]
  <2>1. Push(blk, a, b) = new
    BY <1>7 DEF Push, Fits, data
  <2>2. new.addr = blk.addr /\ new.change = blk.change /\ new.data = data
    OBVIOUS
  <2>3. new = [addr |-> new.addr, change |-> new.change, data |-> new.data]
    OBVIOUS
  <2> HIDE DEF new
  <2>4. n <= m + 1 /\ \A i \in 1 .. n : blk.addr[i] < m + 1
    BY <1>1, <1>3
  <2>9. \A i \in 1 .. n : \A j \in 1 .. (i - 1) : blk.addr[j] < blk.addr[i]
    BY DEF Fits
  <2>5. 1 + n + n + (m + 1) <= BSIZE
    BY <1>5
  <2>6. Fits(new)
    BY <1>1, <1>4, <2>2, <2>3, <2>4, <2>5, <2>9 DEF Fits, block_len
  <2> QED BY <2>1, <2>6
<1>8. CASE a # b
  <2> DEFINE addr == Append(blk.addr, Len(data) - 1)
             change == Append(blk.change, b)
             new == [addr |-> addr, change |-> change, data |-> data]
  <2>1. Push(blk, a, b) = new
    BY <1>8 DEF Push, data
  <2>2. Len(data) - 1 = m
    BY <1>1, <1>4
  <2>3. m \in Byte
    BY <1>6
  <2>4. /\ addr \in Seq(Byte) /\ Len(addr) = n + 1
        /\ \A i \in 1 .. n : addr[i] = blk.addr[i]
        /\ addr[n + 1] = m
    BY <1>1, <2>2, <2>3, AppendProperties
  <2>5. change \in Seq(Byte) /\ Len(change) = n + 1
    BY <1>1, AppendProperties
  <2> HIDE DEF addr, change
  <2>6. new.addr = addr /\ new.change = change /\ new.data = data
    OBVIOUS
  <2>7. new = [addr |-> new.addr, change |-> new.change, data |-> new.data]
    OBVIOUS
  <2> HIDE DEF new
  <2>8. \A i \in 1 .. (n + 1) : addr[i] < m + 1
    <3> SUFFICES ASSUME NEW i \in 1 .. (n + 1) PROVE addr[i] < m + 1
      OBVIOUS
    <3>1. CASE i \in 1 .. n
      BY <1>1, <1>3, <2>4, <3>1
    <3>2. CASE i = n + 1
      BY <1>1, <2>4, <3>2
    <3> QED BY <1>1, <3>1, <3>2
  <2>11. \A i \in 1 .. (n + 1) : \A j \in 1 .. (i - 1) : addr[j] < addr[i]
    <3> SUFFICES ASSUME NEW i \in 1 .. (n + 1), NEW j \in 1 .. (i - 1)
                 PROVE  addr[j] < addr[i]
      OBVIOUS
    <3>1. j \in 1 .. n /\ addr[j] = blk.addr[j]
      BY <1>1, <2>4
    <3>2. CASE i \in 1 .. n
      <4>1. blk.addr[j] < blk.addr[i]
        BY <3>2 DEF Fits
      <4> QED BY <2>4, <3>1, <3>2, <4>1
    <3>3. CASE i = n + 1
      <4>1. blk.addr[j] < m
        BY <1>3, <3>1
      <4> QED BY <2>4, <3>1, <3>3, <4>1
    <3>4. i \in 1 .. n \/ i = n + 1
      <4> HIDE DEF n
      <4> QED BY <1>1
    <3> QED BY <3>2, <3>3, <3>4
  <2>9. n + 1 <= m + 1 /\ 1 + (n + 1) + (n + 1) + (m + 1) <= BSIZE
    BY <1>5
  <2>10. Fits(new)
    BY <1>4, <2>4, <2>5, <2>6, <2>7, <2>8, <2>9, <2>11 DEF Fits, block_len
  <2> QED BY <2>1, <2>10
<1> QED BY <1>7, <1>8

(***************************************************************************)
(* The empty block is one, so every block of the encoder's loop fits.      *)
(***************************************************************************)
THEOREM EmptyFits == Fits(EmptyBlock) /\ ~BlockFull(EmptyBlock)
<1>1. Len(<<>>) = 0 /\ <<>> \in Seq(Byte)
  OBVIOUS
<1>2. block_len(EmptyBlock) = 1
  BY <1>1 DEF block_len, EmptyBlock
<1> QED BY <1>1, <1>2, BlockSize DEF Fits, BlockFull, EmptyBlock

\* One sequence behind the other.
LEMMA Joined ==
  ASSUME NEW s \in Seq(Byte), NEW t \in Seq(Byte)
  PROVE  /\ s \o t \in Seq(Byte) /\ Len(s \o t) = Len(s) + Len(t)
         /\ \A i \in 1 .. Len(s) : (s \o t)[i] = s[i]
         /\ \A i \in 1 .. Len(t) : (s \o t)[Len(s) + i] = t[i]
<1>1. /\ s \o t \in Seq(Byte) /\ Len(s \o t) = Len(s) + Len(t)
      /\ Len(s) \in Nat /\ Len(t) \in Nat
  BY LenProperties
<1>2. ASSUME NEW i \in 1 .. Len(s) PROVE (s \o t)[i] = s[i]
  BY <1>1
<1>3. ASSUME NEW i \in 1 .. Len(t) PROVE (s \o t)[Len(s) + i] = t[i]
  BY <1>1
<1> QED BY <1>1, <1>2, <1>3

\* A part of s stays where it is when t is put behind s.
LEMMA PartStays ==
  ASSUME NEW s \in Seq(Byte), NEW t \in Seq(Byte), NEW off \in Nat, NEW l \in Nat,
         off + l <= Len(s), NEW u, \A i \in 1 .. l : s[off + i] = u[i]
  PROVE  \A i \in 1 .. l : (s \o t)[off + i] = u[i]
<1> SUFFICES ASSUME NEW i \in 1 .. l PROVE (s \o t)[off + i] = u[i]
  OBVIOUS
<1>1. Len(s) \in Nat
  BY LenProperties
<1>2. off + i \in 1 .. Len(s)
  BY <1>1
<1> QED BY <1>2, Joined

\* Where the parts of a block lie.
Parts(block, pad, blk) ==
  LET n == Len(blk.addr)
  IN  /\ block[1] = FULL + pad + n
      /\ \A i \in 1 .. pad : block[1 + i] = FF
      /\ \A i \in 1 .. n : block[1 + pad + i] = blk.addr[i]
      /\ \A i \in 1 .. n : block[1 + pad + n + i] = blk.change[i]
      /\ \A i \in 1 .. Len(blk.data) : block[1 + pad + n + n + i] = blk.data[i]

(***************************************************************************)
(* A full block fills its page, and its header has room for the count of   *)
(* entries and padding beside the FULL bit.                                *)
(***************************************************************************)
LEMMA FlushedParts ==
  ASSUME NEW blk, Fits(blk), BlockFull(blk), NEW pad, pad = BSIZE - block_len(blk)
  PROVE  /\ pad \in 0 .. 2 /\ pad + Len(blk.addr) < FULL
         /\ 1 + pad + Len(blk.addr) + Len(blk.addr) + Len(blk.data) = BSIZE
         /\ Flushed(blk) \in Seq(Byte) /\ Len(Flushed(blk)) = BSIZE
         /\ Parts(Flushed(blk), pad, blk)
<1> DEFINE n == Len(blk.addr)
           m == Len(blk.data)
<1>1. /\ n \in Nat /\ m \in Nat /\ Len(blk.change) = n /\ n <= m
      /\ blk.data \in Seq(Byte) /\ blk.addr \in Seq(Byte) /\ blk.change \in Seq(Byte)
  BY LenProperties DEF Fits
<1>2. block_len(blk) = 1 + n + n + m
  BY <1>1 DEF block_len
<1>3. 1 + n + n + m <= BSIZE /\ 1 + n + n + m >= BSIZE - 2 /\ pad = BSIZE - (1 + n + n + m)
  BY <1>2 DEF Fits, BlockFull
<1>4. pad \in 0 .. 2 /\ pad + n < FULL /\ 1 + pad + n + n + m = BSIZE
  <2>1. n \in Nat /\ m \in Nat /\ n <= m
    BY <1>1
  <2> HIDE DEF n, m
  <2>2. pad \in Int
    BY <1>3, <2>1, BlockSize
  <2> QED BY <1>3, <2>1, <2>2, BlockSize, Half, HeaderRoom
<1> DEFINE h == FULL + pad + n
           head == <<h>>
<1>5. h \in Byte /\ FF \in Byte /\ h = FULL + n + pad
  <2>1. /\ h \in Int /\ 0 <= h /\ h <= BSIZE - 1 /\ h = FULL + n + pad
        /\ BSIZE - 1 \in Int /\ 0 <= BSIZE - 1
    <3>1. n \in Nat
      BY <1>1
    <3> HIDE DEF n, m
    <3> QED BY <3>1, <1>4, Half, BlockSize
  <2> QED BY <2>1, ByteRange DEF FF
<1> HIDE DEF h
<1>6. head \in Seq(Byte) /\ Len(head) = 1 /\ head[1] = h
  BY <1>5
<1>7. Fill(pad) \in Seq(Byte) /\ Len(Fill(pad)) = pad /\ \A i \in 1 .. pad : Fill(pad)[i] = FF
  <2>1. pad \in Nat
    BY <1>4
  <2>2. Fill(pad) \in [1 .. pad -> Byte]
    BY <1>5 DEF Fill
  <2>3. Fill(pad) \in Seq(Byte)
    BY <2>1, <2>2
  <2>4. Len(Fill(pad)) = pad
    BY <2>1, <2>2, <2>3, LenProperties
  <2> QED BY <2>3, <2>4 DEF Fill
<1> DEFINE s1 == head \o Fill(pad)
           s2 == s1 \o blk.addr
           s3 == s2 \o blk.change
           s4 == s3 \o blk.data
<1>8. Flushed(blk) = s4
  BY <1>2, <1>5 DEF Flushed, h
<1> HIDE DEF head
<1>9. /\ s1 \in Seq(Byte) /\ Len(s1) = 1 + pad
      /\ s1[1] = h /\ \A i \in 1 .. pad : s1[1 + i] = FF
  <2>1. /\ s1 \in Seq(Byte) /\ Len(s1) = Len(head) + Len(Fill(pad))
        /\ \A i \in 1 .. Len(head) : s1[i] = head[i]
        /\ \A i \in 1 .. Len(Fill(pad)) : s1[Len(head) + i] = Fill(pad)[i]
    BY <1>6, <1>7, Joined
  <2> HIDE DEF s1
  <2> QED BY <1>6, <1>7, <2>1
<1> HIDE DEF s1
<1>10. /\ s2 \in Seq(Byte) /\ Len(s2) = 1 + pad + n
       /\ s2[1] = h
       /\ \A i \in 1 .. pad : s2[1 + i] = FF
       /\ \A i \in 1 .. n : s2[1 + pad + i] = blk.addr[i]
  <2>1. blk.addr \in Seq(Byte) /\ Len(blk.addr) = n /\ n \in Nat /\ n \in Nat /\ pad \in Nat
    BY <1>1, <1>4
  <2> HIDE DEF n, m
  <2>2. /\ s2 \in Seq(Byte) /\ Len(s2) = Len(s1) + Len(blk.addr)
        /\ \A i \in 1 .. Len(s1) : s2[i] = s1[i]
        /\ \A i \in 1 .. Len(blk.addr) : s2[Len(s1) + i] = blk.addr[i]
    BY <2>1, <1>9, Joined
  <2>3. \A i \in 1 .. pad : s2[1 + i] = FF
    <3>1. 1 \in Nat /\ 1 + pad <= Len(s1)
      BY <2>1, <1>9
    <3>2. \A i \in 1 .. pad : s1[1 + i] = Fill(pad)[i]
      BY <1>7, <1>9
    <3>3. \A i \in 1 .. pad : s2[1 + i] = Fill(pad)[i]
      BY <1>9, <2>1, <3>1, <3>2, PartStays
    <3> QED BY <1>7, <3>3
  <2> HIDE DEF s2
  <2>4. Len(s1) = 1 + pad /\ Len(s2) = 1 + pad + n /\ s2[1] = h
    BY <2>1, <2>2, <1>9
  <2>5. \A i \in 1 .. n : s2[1 + pad + i] = blk.addr[i]
    BY <2>1, <2>2, <2>4
  <2> QED BY <2>2, <2>3, <2>4, <2>5
<1> HIDE DEF s2
<1>11. /\ s3 \in Seq(Byte) /\ Len(s3) = 1 + pad + n + n
       /\ s3[1] = h
       /\ \A i \in 1 .. pad : s3[1 + i] = FF
       /\ \A i \in 1 .. n : s3[1 + pad + i] = blk.addr[i]
       /\ \A i \in 1 .. n : s3[1 + pad + n + i] = blk.change[i]
  <2>1. blk.change \in Seq(Byte) /\ Len(blk.change) = n /\ n \in Nat /\ n \in Nat /\ pad \in Nat
    BY <1>1, <1>4
  <2> HIDE DEF n, m
  <2>2. /\ s3 \in Seq(Byte) /\ Len(s3) = Len(s2) + Len(blk.change)
        /\ \A i \in 1 .. Len(s2) : s3[i] = s2[i]
        /\ \A i \in 1 .. Len(blk.change) : s3[Len(s2) + i] = blk.change[i]
    BY <2>1, <1>10, Joined
  <2>3. \A i \in 1 .. pad : s3[1 + i] = FF
    <3>1. 1 \in Nat /\ 1 + pad <= Len(s2)
      BY <2>1, <1>10
    <3>2. \A i \in 1 .. pad : s2[1 + i] = Fill(pad)[i]
      BY <1>7, <1>10
    <3>3. \A i \in 1 .. pad : s3[1 + i] = Fill(pad)[i]
      BY <1>10, <2>1, <3>1, <3>2, PartStays
    <3> QED BY <1>7, <3>3
  <2>4. \A i \in 1 .. n : s3[1 + pad + i] = blk.addr[i]
    <3>1. (1 + pad) \in Nat /\ (1 + pad) + n <= Len(s2)
      BY <2>1, <1>10
    <3> QED BY <1>10, <2>1, <3>1, PartStays
  <2> HIDE DEF s3
  <2>5. Len(s2) = 1 + pad + n /\ Len(s3) = 1 + pad + n + n /\ s3[1] = h
    BY <2>1, <2>2, <1>10
  <2>6. \A i \in 1 .. n : s3[1 + pad + n + i] = blk.change[i]
    BY <2>1, <2>2, <2>5
  <2> QED BY <2>2, <2>3, <2>4, <2>5, <2>6
<1> HIDE DEF s3
<1>12. /\ s4 \in Seq(Byte) /\ Len(s4) = 1 + pad + n + n + m
       /\ s4[1] = h
       /\ \A i \in 1 .. pad : s4[1 + i] = FF
       /\ \A i \in 1 .. n : s4[1 + pad + i] = blk.addr[i]
       /\ \A i \in 1 .. n : s4[1 + pad + n + i] = blk.change[i]
       /\ \A i \in 1 .. m : s4[1 + pad + n + n + i] = blk.data[i]
  <2>1. blk.data \in Seq(Byte) /\ Len(blk.data) = m /\ m \in Nat /\ n \in Nat /\ pad \in Nat
    BY <1>1, <1>4
  <2> HIDE DEF n, m
  <2>2. /\ s4 \in Seq(Byte) /\ Len(s4) = Len(s3) + Len(blk.data)
        /\ \A i \in 1 .. Len(s3) : s4[i] = s3[i]
        /\ \A i \in 1 .. Len(blk.data) : s4[Len(s3) + i] = blk.data[i]
    BY <2>1, <1>11, Joined
  <2>3. \A i \in 1 .. pad : s4[1 + i] = FF
    <3>1. 1 \in Nat /\ 1 + pad <= Len(s3)
      BY <2>1, <1>11
    <3>2. \A i \in 1 .. pad : s3[1 + i] = Fill(pad)[i]
      BY <1>7, <1>11
    <3>3. \A i \in 1 .. pad : s4[1 + i] = Fill(pad)[i]
      BY <1>11, <2>1, <3>1, <3>2, PartStays
    <3> QED BY <1>7, <3>3
  <2>4. \A i \in 1 .. n : s4[1 + pad + i] = blk.addr[i]
    <3>1. (1 + pad) \in Nat /\ (1 + pad) + n <= Len(s3)
      BY <2>1, <1>11
    <3> QED BY <1>11, <2>1, <3>1, PartStays
  <2>5. \A i \in 1 .. n : s4[1 + pad + n + i] = blk.change[i]
    <3> DEFINE o == 1 + pad + n
    <3>1. o \in Nat /\ o + n <= Len(s3)
      BY <2>1, <1>11
    <3>2. \A i \in 1 .. n : s3[o + i] = blk.change[i]
      BY <1>11
    <3> HIDE DEF o
    <3>3. \A i \in 1 .. n : s4[o + i] = blk.change[i]
      BY <1>11, <2>1, <3>1, <3>2, PartStays
    <3> QED BY <3>3 DEF o
  <2> HIDE DEF s4
  <2>6. Len(s3) = 1 + pad + n + n /\ Len(s4) = 1 + pad + n + n + m /\ s4[1] = h
    BY <2>1, <2>2, <1>11
  <2>7. \A i \in 1 .. m : s4[1 + pad + n + n + i] = blk.data[i]
    BY <2>1, <2>2, <2>6
  <2> QED BY <2>2, <2>3, <2>4, <2>5, <2>6, <2>7
<1> HIDE DEF s4
<1> QED BY <1>4, <1>8, <1>12 DEF Parts, h

(***************************************************************************)
(* The decoder finds the padding again, whatever the entries and the bytes *)
(* are: an offset is never 0xFF in a block that was full in time.          *)
(***************************************************************************)
LEMMA PaddingFound ==
  ASSUME NEW blk, Fits(blk), BlockFull(blk), NEW pad, pad = BSIZE - block_len(blk)
  PROVE  /\ Header(Flushed(blk)) = [full |-> TRUE, cnt |-> pad + Len(blk.addr)]
         /\ Skipped(Flushed(blk)) = pad
<1> DEFINE n == Len(blk.addr)
           m == Len(blk.data)
           block == Flushed(blk)
           h == FULL + pad + n
<1>1. /\ n \in Nat /\ m \in Nat /\ blk.addr \in Seq(Byte) /\ pad \in 0 .. 2 /\ pad + n < FULL
      /\ 1 + pad + n + n + m = BSIZE
      /\ Parts(block, pad, blk)
  BY FlushedParts, LenProperties DEF Fits
<1>2. /\ block[1] = h /\ \A i \in 1 .. pad : block[1 + i] = FF
      /\ \A i \in 1 .. n : block[1 + pad + i] = blk.addr[i]
  BY <1>1 DEF Parts
<1> HIDE DEF block
<1>3. Header(block) = [full |-> TRUE, cnt |-> pad + n]
  <2>1. h >= FULL /\ h % FULL = pad + n
    <3> HIDE DEF n, m
    <3>1. pad + n \in Nat /\ h = FULL + (pad + n)
      BY <1>1, Half
    <3>2. h >= FULL
      BY <1>1, Half
    <3>3. FULL \in Nat /\ FULL > 0 /\ pad + n < FULL
      BY <1>1, Half
    <3>4. (FULL + (pad + n)) % FULL = pad + n
      BY <3>1, <3>3, ModOfOneMore
    <3> HIDE DEF h
    <3> QED BY <3>1, <3>2, <3>4
  <2>2. (block[1] >= FULL) <=> TRUE
    BY <1>2, <2>1
  <2>3. block[1] % FULL = pad + n
    BY <1>2, <2>1
  <2> HIDE DEF n, m, h
  <2> QED BY <2>2, <2>3 DEF Header
<1>4. n > 0 => block[2 + pad] # FF
  <2> SUFFICES ASSUME n > 0 PROVE block[2 + pad] # FF
    OBVIOUS
  <2>1. 1 \in 1 .. n /\ 1 + pad + 1 = 2 + pad
    BY <1>1
  <2>2. block[2 + pad] = blk.addr[1]
    BY <1>2, <2>1
  <2>3. blk.addr[1] < m
    BY <2>1 DEF Fits
  <2>4. m <= BSIZE - 1
    <3> HIDE DEF n, m
    <3> QED BY <1>1, BlockSize
  <2>5. blk.addr[1] \in Byte
    BY <1>1, <2>1, ElementOfSeq
  <2>6. blk.addr[1] \in Int /\ BSIZE - 1 \in Int
    BY <2>5, ByteRange, BlockSize
  <2>7. blk.addr[1] # BSIZE - 1
    <3> HIDE DEF n, m
    <3> QED BY <1>1, <2>3, <2>4, <2>6
  <2> QED BY <2>2, <2>7 DEF FF
<1> DEFINE IsIt(k) == /\ \A i \in 1 .. k : block[1 + i] = FF
                      /\ k < pad + n => block[2 + k] # FF
<1> HIDE DEF n, m
<1>5. pad \in 0 .. (pad + n) /\ IsIt(pad)
  BY <1>1, <1>2, <1>4
<1>6. ASSUME NEW k \in 0 .. (pad + n), IsIt(k) PROVE k = pad
  <2>1. CASE k < pad
    <3>1. k + 1 \in 1 .. pad /\ 1 + (k + 1) = 2 + k /\ k < pad + n
      BY <1>1, <2>1
    <3>2. block[2 + k] = FF
      BY <1>2, <3>1
    <3> QED BY <1>6, <3>1, <3>2
  <2>2. CASE k > pad
    <3>1. pad + 1 \in 1 .. k /\ 1 + (pad + 1) = 2 + pad /\ n > 0
      BY <1>1, <2>2
    <3>2. block[2 + pad] = FF
      BY <1>6, <3>1
    <3> QED BY <1>4, <3>1, <3>2
  <2> QED BY <1>1, <2>1, <2>2
<1>7. Skipped(block) = CHOOSE k \in 0 .. (pad + n) : IsIt(k)
  <2>1. Header(block).cnt = pad + n
    BY <1>3
  <2> QED BY <2>1, Zenon DEF Skipped, IsIt
<1> HIDE DEF IsIt
<1>8. Skipped(block) = pad
  BY <1>5, <1>6, <1>7
<1> QED BY <1>3, <1>8 DEF block, n

(***************************************************************************)
(* Variant A comes out of every block of the encoder: its bytes, all of    *)
(* them and no others, and no error.  ("Variant A OK" of main.rs.)         *)
(***************************************************************************)
THEOREM VariantADecodes ==
  ASSUME NEW blk, Fits(blk), BlockFull(blk)
  PROVE  DecodedBlock(Flushed(blk), FALSE) = [bytes |-> blk.data, error |-> FALSE]
<1> DEFINE n == Len(blk.addr)
           m == Len(blk.data)
           pad == BSIZE - block_len(blk)
           block == Flushed(blk)
<1>1. /\ n \in Nat /\ m \in Nat /\ blk.data \in Seq(Byte) /\ n <= m
      /\ pad \in 0 .. 2 /\ pad + n < FULL /\ 1 + pad + n + n + m = BSIZE
      /\ block \in Seq(Byte) /\ Len(block) = BSIZE /\ Parts(block, pad, blk)
      /\ Header(block) = [full |-> TRUE, cnt |-> pad + n] /\ Skipped(block) = pad
  BY FlushedParts, PaddingFound, LenProperties DEF Fits
<1>2. \A i \in 1 .. m : block[1 + pad + n + n + i] = blk.data[i]
  BY <1>1 DEF Parts
<1> HIDE DEF n, m, pad, block
<1>3. Header(block).full /\ Header(block).cnt = pad + n
  BY <1>1
<1>4. Pos(block) = 1 + pad /\ Offs(block) = 1 + pad + n + n
  <2>1. Pos(block) = 1 + pad
    BY <1>1 DEF Pos
  <2>2. Cnt(block) = n
    BY <1>1, <1>3 DEF Cnt
  <2> QED BY <1>1, <2>1, <2>2 DEF Offs
<1>5. ~Overflow(block)
  <2>1. 1 + pad < BSIZE /\ 1 + pad + n + n <= BSIZE
    BY <1>1, BlockSize
  <2>2. ~(1 + pad >= BSIZE) /\ ~(1 + pad + n + n > BSIZE)
    BY <1>1, <2>1, BlockSize
  <2> QED BY <1>4, <2>2 DEF Overflow
<1>6. SubSeq(block, Offs(block) + 1, BSIZE) = blk.data
  <2> DEFINE o == 1 + pad + n + n
             part == SubSeq(block, o + 1, BSIZE)
  <2>1. o \in Nat /\ o + m = BSIZE /\ o + 1 \in 1 .. (Len(block) + 1) /\ BSIZE \in (o + 1 - 1) .. Len(block)
    BY <1>1, BlockSize
  <2>2. \A i \in 1 .. m : block[o + i] = blk.data[i]
    BY <1>2
  <2> HIDE DEF o
  <2>3. part \in Seq(Byte) /\ Len(part) = m /\ \A i \in 1 .. m : part[i] = block[o + i]
    <3>1. \A i \in (o + 1) .. BSIZE : block[i] \in Byte
      BY <1>1, <2>1, ElementOfSeq
    <3> QED BY <1>1, <2>1, <3>1, SubSeqProperties
  <2>4. \A i \in 1 .. m : part[i] = blk.data[i]
    BY <2>2, <2>3
  <2> HIDE DEF part
  <2>5. part = blk.data
    BY <1>1, <2>3, <2>4, SeqEqual DEF m
  <2> QED BY <1>4, <2>5 DEF part, o
<1>7. DecodedBlock(block, FALSE) = [bytes |-> SubSeq(block, Offs(block) + 1, BSIZE), error |-> FALSE]
  BY <1>3, <1>5, Zenon DEF DecodedBlock
<1> QED BY <1>6, <1>7 DEF block

(***************************************************************************)
(* Every block of the encoder keeps to the format, for both variants: the  *)
(* decoder has no reason to count an error (MalformedIsCounted).           *)
(***************************************************************************)
THEOREM BlocksAreWellFormed ==
  ASSUME NEW blk, Fits(blk), BlockFull(blk), NEW shift \in BOOLEAN
  PROVE  WellFormed(Flushed(blk), shift)
<1> DEFINE n == Len(blk.addr)
           m == Len(blk.data)
           pad == BSIZE - block_len(blk)
           block == Flushed(blk)
<1>1. /\ n \in Nat /\ m \in Nat /\ n <= m /\ blk.addr \in Seq(Byte)
      /\ pad \in 0 .. 2 /\ pad + n < FULL /\ 1 + pad + n + n + m = BSIZE
      /\ Parts(block, pad, blk)
      /\ Header(block) = [full |-> TRUE, cnt |-> pad + n] /\ Skipped(block) = pad
  BY FlushedParts, PaddingFound, LenProperties DEF Fits
<1>2. /\ block[1] = FULL + pad + n /\ \A i \in 1 .. pad : block[1 + i] = FF
      /\ \A i \in 1 .. n : block[1 + pad + i] = blk.addr[i]
  BY <1>1 DEF Parts
<1>3. \A i \in 1 .. n : /\ blk.addr[i] < m
                        /\ \A j \in 1 .. (i - 1) : blk.addr[j] < blk.addr[i]
  BY DEF Fits
<1>4. \A i \in 1 .. n : blk.addr[i] \in Int /\ blk.addr[i] # FF
  <2> SUFFICES ASSUME NEW i \in 1 .. n PROVE blk.addr[i] \in Int /\ blk.addr[i] # FF
    OBVIOUS
  <2>1. blk.addr[i] \in Int
    BY <1>1, ElementOfSeq, ByteRange
  <2>2. blk.addr[i] < m
    BY <1>3
  <2> HIDE DEF n, m, pad, block
  <2>3. m <= BSIZE - 1 /\ BSIZE - 1 \in Int
    BY <1>1, BlockSize
  <2> QED BY <1>1, <2>1, <2>2, <2>3 DEF FF
<1> HIDE DEF n, m, pad, block
<1>5. Reading(block, pad, n)
  <2>1. 1 + pad + 2 * n <= BSIZE
    BY <1>1, BlockSize
  <2>2. ASSUME n > 0 PROVE block[2 + pad] # FF
    <3>1. 1 \in 1 .. n /\ 1 + pad + 1 = 2 + pad
      BY <1>1, <2>2
    <3> QED BY <1>2, <1>4, <3>1
  <2> QED BY <1>2, <2>1, <2>2 DEF Reading
<1>6. GoodOffsets(block, pad, n)
  <2> SUFFICES ASSUME NEW i \in 1 .. n
               PROVE  /\ block[1 + pad + i] < BSIZE - (1 + pad + 2 * n)
                      /\ \A j \in 1 .. (i - 1) : block[1 + pad + j] < block[1 + pad + i]
    BY DEF GoodOffsets
  <2>1. BSIZE - (1 + pad + 2 * n) = m
    BY <1>1, BlockSize
  <2>2. block[1 + pad + i] = blk.addr[i]
    BY <1>2
  <2>3. ASSUME NEW j \in 1 .. (i - 1) PROVE block[1 + pad + j] < block[1 + pad + i]
    <3>1. j \in 1 .. n
      BY <1>1
    <3>2. block[1 + pad + j] = blk.addr[j]
      BY <1>2, <3>1
    <3> QED BY <1>3, <2>2, <3>2
  <2> QED BY <1>3, <2>1, <2>2, <2>3
<1>7. pad \in 0 .. (FULL - 1) /\ n \in 0 .. (FULL - 1)
  BY <1>1, Half
<1> QED BY <1>5, <1>6, <1>7 DEF WellFormed, block

----------------------------------------------------------------------------
(* A block of any bytes                                                    *)

Block == {b \in Seq(Byte) : Len(b) = BSIZE}

\* A block, spelled out.
LEMMA BlockBytes ==
  ASSUME NEW b \in Block
  PROVE  b \in Seq(Byte) /\ Len(b) = BSIZE /\ \A i \in 1 .. BSIZE : b[i] \in Byte
<1>1. b \in Seq(Byte) /\ Len(b) = BSIZE
  BY DEF Block
<1>2. \A i \in 1 .. Len(b) : b[i] \in Byte
  BY <1>1, ElementOfSeq
<1> QED BY <1>1, <1>2

\* % of a number that is small enough.
LEMMA SmallMod ==
  ASSUME NEW f \in Nat, f > 0, NEW x \in Nat, x < f
  PROVE  x % f = x
<1>1. (f + x) % f = x
  BY ModOfOneMore
<1> DEFINE q == x \div f
           r == x % f
<1>2. q \in Int /\ r \in 0 .. (f - 1) /\ x = f * q + r
  OBVIOUS
<1> HIDE DEF q, r
<1>3. q = 0
  <2>1. ~(q >= 1)
    BY <1>2, SMTT(30)
  <2>2. ~(q <= -1)
    BY <1>2, SMTT(30)
  <2> QED BY <1>2, <2>1, <2>2
<1>4. f * q = 0
  BY <1>3
<1>5. r = x
  BY <1>2, <1>4
<1> QED BY <1>5 DEF r

\* What the first byte says.
LEMMA HeaderIs ==
  ASSUME NEW b \in Block
  PROVE  /\ Header(b).cnt \in 0 .. (FULL - 1) /\ Header(b).full \in BOOLEAN
         /\ Header(b).full <=> b[1] >= FULL
         /\ Header(b).full => b[1] = FULL + Header(b).cnt
<1> DEFINE h == b[1]
<1>1. h \in Nat /\ h <= BSIZE - 1
  <2>1. 1 \in 1 .. BSIZE
    BY BlockSize
  <2>2. h \in Byte
    BY <2>1, BlockBytes
  <2> QED BY <2>2, ByteRange
<1>2. /\ Header(b).full \in BOOLEAN /\ (Header(b).full <=> h >= FULL)
      /\ Header(b).cnt = h % FULL
  <2>1. (h >= FULL) \in BOOLEAN
    BY <1>1, Half
  <2>2. Header(b).full = (h >= FULL) /\ Header(b).cnt = h % FULL
    BY DEF Header
  <2> HIDE DEF h
  <2>3. Header(b).full \in BOOLEAN
    BY <2>1, <2>2, Zenon
  <2> QED BY <2>2, <2>3, Zenon
<1> DEFINE cnt == Header(b).cnt
<1> HIDE DEF h, cnt
<1>3. CASE h >= FULL
  <2> DEFINE x == h - FULL
  <2>1. x \in Nat /\ x < FULL /\ h = FULL + x
    BY <1>1, <1>3, Half
  <2> HIDE DEF x
  <2>2. h % FULL = x
    BY <2>1, Half, ModOfOneMore
  <2>3. cnt = x
    BY <1>2, <2>2 DEF cnt
  <2>4. cnt \in 0 .. (FULL - 1) /\ h = FULL + cnt
    BY <2>1, <2>3, Half
  <2> QED BY <1>2, <2>4 DEF h, cnt
<1>4. CASE ~(h >= FULL)
  <2>1. h < FULL
    BY <1>1, <1>4, Half
  <2>2. h % FULL = h
    BY <1>1, <2>1, Half, SmallMod
  <2>3. cnt = h
    BY <1>2, <2>2 DEF cnt
  <2>4. cnt \in 0 .. (FULL - 1)
    BY <1>1, <2>1, <2>3, Half
  <2> QED BY <1>2, <1>4, <2>4 DEF h, cnt
<1> QED BY <1>3, <1>4

\* n is where the decoder stops to skip.
IsPadding(b, n) ==
  /\ \A i \in 1 .. n : b[1 + i] = FF
  /\ n < Header(b).cnt => b[2 + n] # FF

\* The decoder stops at the one place where padding ends.
LEMMA SkippedIs ==
  ASSUME NEW b \in Block
  PROVE  /\ Skipped(b) \in 0 .. Header(b).cnt /\ IsPadding(b, Skipped(b))
         /\ \A n \in 0 .. Header(b).cnt : IsPadding(b, n) => n = Skipped(b)
<1> DEFINE cnt == Header(b).cnt
<1>1. cnt \in Nat
  BY HeaderIs, Half
<1>2. Skipped(b) = CHOOSE n \in 0 .. cnt : IsPadding(b, n)
  BY Zenon DEF Skipped, IsPadding
<1>3. \E n \in 0 .. cnt : IsPadding(b, n)
  <2> SUFFICES ASSUME \A n \in 0 .. cnt : ~IsPadding(b, n) PROVE FALSE
    OBVIOUS
  <2> DEFINE S == {n \in 0 .. cnt : \A i \in 1 .. n : b[1 + i] = FF}
  <2>1. 0 \in S
    BY <1>1
  <2>2. ASSUME NEW n \in 1 .. cnt, n - 1 \in S PROVE n \in S
    <3>1. n - 1 \in 0 .. cnt /\ \A i \in 1 .. (n - 1) : b[1 + i] = FF
      BY <2>2
    <3>2. n - 1 < cnt /\ 2 + (n - 1) = 1 + n
      BY <1>1
    <3>3. b[1 + n] = FF
      BY <3>1, <3>2 DEF IsPadding
    <3>4. \A i \in 1 .. n : i \in 1 .. (n - 1) \/ i = n
      BY <1>1
    <3>5. \A i \in 1 .. n : b[1 + i] = FF
      BY <3>1, <3>3, <3>4
    <3> QED BY <3>5
  <2> HIDE DEF cnt
  <2>3. \A n \in 0 .. cnt : n \in S
    <3> HIDE DEF S
    <3> QED BY <1>1, <2>1, <2>2, UpTo
  <2>4. cnt \in S
    BY <1>1, <2>3
  <2>5. \A i \in 1 .. cnt : b[1 + i] = FF
    BY <2>4
  <2>6. ~IsPadding(b, cnt)
    BY <1>1
  <2> QED BY <1>1, <2>5, <2>6 DEF IsPadding, cnt
<1>4. Skipped(b) \in 0 .. cnt /\ IsPadding(b, Skipped(b))
  BY <1>2, <1>3, Zenon
<1>5. ASSUME NEW n \in 0 .. cnt, NEW l \in 0 .. cnt, IsPadding(b, n), IsPadding(b, l)
      PROVE  ~(n < l)
  <2> SUFFICES ASSUME n < l PROVE FALSE
    OBVIOUS
  <2> HIDE DEF cnt
  <2>1. n + 1 \in 1 .. l /\ 1 + (n + 1) = 2 + n /\ n < cnt
    BY <1>1
  <2>2. b[2 + n] = FF
    BY <1>5, <2>1 DEF IsPadding
  <2>3. b[2 + n] # FF
    BY <1>5, <2>1 DEF IsPadding, cnt
  <2> QED BY <2>2, <2>3
<1>6. ASSUME NEW n \in 0 .. cnt, IsPadding(b, n) PROVE n = Skipped(b)
  <2>1. ~(n < Skipped(b)) /\ ~(Skipped(b) < n)
    BY <1>4, <1>5, <1>6
  <2> DEFINE s == Skipped(b)
  <2>2. s \in 0 .. cnt /\ ~(n < s) /\ ~(s < n)
    BY <1>4, <2>1
  <2> HIDE DEF s, cnt
  <2>3. n = s
    BY <1>1, <2>2
  <2> QED BY <2>3 DEF s
<1> QED BY <1>4, <1>6

\* Where the parts of a block begin, as the decoder finds them.
LEMMA PartPlaces ==
  ASSUME NEW b \in Block
  PROVE  /\ Skipped(b) \in Nat /\ Cnt(b) \in Nat /\ Skipped(b) + Cnt(b) = Header(b).cnt
         /\ Header(b).cnt \in Nat /\ Header(b).cnt < FULL
         /\ Pos(b) = 1 + Skipped(b) /\ Diff(b) = 1 + Skipped(b) + Cnt(b)
         /\ Offs(b) = 1 + Skipped(b) + 2 * Cnt(b)
         /\ Pos(b) \in Nat /\ Diff(b) \in Nat /\ Offs(b) \in Nat
<1> DEFINE cnt == Header(b).cnt
           s == Skipped(b)
<1>1. cnt \in Nat /\ cnt < FULL /\ s \in 0 .. cnt
  BY HeaderIs, SkippedIs, Half
<1>2. Cnt(b) = cnt - s /\ Pos(b) = 1 + s
  BY DEF Cnt, Pos
<1>3. Diff(b) = (1 + s) + (cnt - s) /\ Offs(b) = (1 + s) + 2 * (cnt - s)
  BY <1>2 DEF Diff, Offs
<1> HIDE DEF cnt, s
<1>4. cnt - s \in Nat /\ s \in Nat /\ s + (cnt - s) = cnt
  BY <1>1
<1> QED BY <1>1, <1>2, <1>3, <1>4 DEF cnt, s

\* The decoder reads the block in the one way there is.
LEMMA ReadingIs ==
  ASSUME NEW b \in Block, NEW pad \in Nat, NEW k \in Nat
  PROVE  Reading(b, pad, k) <=>
           /\ Header(b).full /\ Offs(b) <= BSIZE
           /\ pad = Skipped(b) /\ k = Cnt(b)
<1> DEFINE cnt == Header(b).cnt
<1>1. cnt \in Nat /\ cnt < FULL
  BY PartPlaces
<1>2. ASSUME Reading(b, pad, k)
      PROVE  Header(b).full /\ Offs(b) <= BSIZE /\ pad = Skipped(b) /\ k = Cnt(b)
  <2>1. /\ b[1] = FULL + pad + k /\ 1 + pad + 2 * k <= BSIZE
        /\ \A i \in 1 .. pad : b[1 + i] = FF
        /\ k > 0 => b[2 + pad] # FF
    BY <1>2 DEF Reading
  <2>2. Header(b).full /\ cnt = pad + k
    <3>1. b[1] >= FULL
      BY <2>1, Half
    <3>2. b[1] = FULL + cnt
      BY <3>1, HeaderIs
    <3> HIDE DEF cnt
    <3>3. cnt = pad + k
      BY <1>1, <2>1, <3>2, Half
    <3> QED BY <3>1, <3>3, HeaderIs
  <2>3. IsPadding(b, pad)
    <3>1. pad < pad + k => k > 0
      OBVIOUS
    <3> QED BY <2>1, <2>2, <3>1 DEF IsPadding
  <2>4. pad \in 0 .. cnt
    BY <2>2
  <2>5. pad = Skipped(b)
    BY <2>3, <2>4, SkippedIs
  <2>6. k = Cnt(b)
    <3>1. Cnt(b) = (pad + k) - pad
      BY <2>2, <2>5 DEF Cnt
    <3> QED BY <3>1
  <2>7. Offs(b) <= BSIZE
    BY <2>1, <2>5, <2>6, PartPlaces
  <2> QED BY <2>2, <2>5, <2>6, <2>7
<1>3. ASSUME Header(b).full, Offs(b) <= BSIZE, pad = Skipped(b), k = Cnt(b)
      PROVE  Reading(b, pad, k)
  <2>1. b[1] = FULL + cnt /\ cnt = pad + k
    BY <1>3, HeaderIs, PartPlaces
  <2>2. b[1] = FULL + pad + k
    BY <2>1, Half
  <2>3. 1 + pad + 2 * k <= BSIZE
    BY <1>3, PartPlaces
  <2>4. IsPadding(b, pad)
    BY <1>3, SkippedIs
  <2>5. k > 0 => pad < cnt
    <3> HIDE DEF cnt
    <3> QED BY <1>1, <2>1
  <2>6. k > 0 => b[2 + pad] # FF
    BY <2>4, <2>5 DEF IsPadding
  <2> QED BY <2>2, <2>3, <2>4, <2>6 DEF Reading, IsPadding
<1> QED BY <1>2, <1>3

\* Only entries can lead out of a block, not padding.
LEMMA OverflowIs ==
  ASSUME NEW b \in Block
  PROVE  Overflow(b) <=> Header(b).full /\ Offs(b) > BSIZE
<1> DEFINE s == Skipped(b)
           cnt == Header(b).cnt
<1>1. Pos(b) = 1 + s /\ s \in 0 .. cnt /\ cnt \in Nat /\ cnt < FULL
  BY SkippedIs, PartPlaces
<1> HIDE DEF s, cnt
<1>2. ~(Pos(b) >= BSIZE)
  BY <1>1, BlockSize, Half
<1> QED BY <1>2 DEF Overflow

\* One patch, and what the decoder has before the first.
Target(b, s, i) == Offs(b) + s.buffer[Pos(b) + i]
Patch(b, s, i) ==
  IF AddressFits(Target(b, s, i), s.last_addr)
  THEN [s EXCEPT !.buffer[Target(b, s, i) + 1] = s.buffer[Diff(b) + i],
                 !.last_addr = Target(b, s, i)]
  ELSE [s EXCEPT !.error = TRUE]
Unpatched(b) == [buffer |-> b, last_addr |-> Offs(b) - 1, error |-> FALSE]

PatchState == [buffer : Block, last_addr : Int, error : BOOLEAN]

\* f is the states between the patches of b.
Patches(f, b) ==
  /\ f[0] = Unpatched(b)
  /\ \A i \in 1 .. Cnt(b) : f[i] = Patch(b, f[i - 1], i) /\ f[i - 1] \in PatchState
  /\ f[Cnt(b)] \in PatchState

\* A block with a byte of it overwritten.
LEMMA Overwritten ==
  ASSUME NEW b \in Block, NEW k \in 1 .. BSIZE, NEW v \in Byte
  PROVE  /\ [b EXCEPT ![k] = v] \in Block /\ [b EXCEPT ![k] = v][k] = v
         /\ \A j \in 1 .. BSIZE : j # k => [b EXCEPT ![k] = v][j] = b[j]
<1>1. b \in Seq(Byte) /\ Len(b) = BSIZE /\ DOMAIN b = 1 .. BSIZE
  BY BlockBytes, LenProperties
<1>2. [b EXCEPT ![k] = v] \in Seq(Byte) /\ Len([b EXCEPT ![k] = v]) = Len(b)
  BY <1>1, ExceptSeq
<1>3. [b EXCEPT ![k] = v][k] = v /\ \A j \in 1 .. BSIZE : j # k => [b EXCEPT ![k] = v][j] = b[j]
  BY <1>1
<1> QED BY <1>1, <1>2, <1>3 DEF Block

\* What a patch does: it writes one byte and goes on, or it is an error.
LEMMA PatchIs ==
  ASSUME NEW b \in Block, Offs(b) <= BSIZE, NEW s \in PatchState, NEW i \in 1 .. Cnt(b)
  PROVE  /\ Patch(b, s, i) \in PatchState
         /\ IF AddressFits(Target(b, s, i), s.last_addr)
            THEN /\ Patch(b, s, i).buffer[Target(b, s, i) + 1] = s.buffer[Diff(b) + i]
                 /\ \A j \in 1 .. BSIZE : j # Target(b, s, i) + 1 =>
                      Patch(b, s, i).buffer[j] = s.buffer[j]
                 /\ Patch(b, s, i).last_addr = Target(b, s, i)
                 /\ Patch(b, s, i).error = s.error
            ELSE /\ Patch(b, s, i).buffer = s.buffer
                 /\ Patch(b, s, i).error = TRUE
<1> DEFINE t == Target(b, s, i)
           v == s.buffer[Diff(b) + i]
           p == Patch(b, s, i)
<1>1. Pos(b) + i \in 1 .. BSIZE /\ Diff(b) + i \in 1 .. BSIZE
  <2> DEFINE x == Skipped(b)
             c == Cnt(b)
  <2>1. /\ x \in Nat /\ c \in Nat /\ Pos(b) = 1 + x /\ Diff(b) = 1 + x + c
        /\ 1 + x + 2 * c <= BSIZE /\ i \in 1 .. c
    BY PartPlaces
  <2> HIDE DEF x, c
  <2> QED BY <2>1, BlockSize
<1>2. s.buffer \in Block /\ s.last_addr \in Int /\ s.error \in BOOLEAN
      /\ s = [buffer |-> s.buffer, last_addr |-> s.last_addr, error |-> s.error]
  BY DEF PatchState
<1>3. v \in Byte /\ s.buffer[Pos(b) + i] \in Byte
  BY <1>1, <1>2, BlockBytes
<1>4. t \in Nat
  BY <1>3, PartPlaces, ByteRange DEF Target
<1>5. CASE AddressFits(t, s.last_addr)
  <2>1. p = [buffer |-> [s.buffer EXCEPT ![t + 1] = v], last_addr |-> t, error |-> s.error]
    BY <1>2, <1>5 DEF Patch
  <2>2. t + 1 \in 1 .. BSIZE
    BY <1>4, <1>5, BlockSize DEF AddressFits
  <2> DEFINE w == [s.buffer EXCEPT ![t + 1] = v]
  <2>3. /\ w \in Block /\ w[t + 1] = v
        /\ \A j \in 1 .. BSIZE : j # t + 1 => w[j] = s.buffer[j]
    <3> HIDE DEF t, v
    <3> QED BY <1>2, <1>3, <2>2, Overwritten
  <2> HIDE DEF w
  <2>4. p.buffer = w /\ p.last_addr = t /\ p.error = s.error /\ p \in PatchState
    <3> HIDE DEF p, t
    <3>1. p = [buffer |-> w, last_addr |-> t, error |-> s.error]
      BY <2>1 DEF w
    <3> QED BY <1>2, <1>4, <2>3, <3>1 DEF PatchState
  <2> QED BY <1>5, <2>3, <2>4
<1>6. CASE ~AddressFits(t, s.last_addr)
  <2>1. p = [buffer |-> s.buffer, last_addr |-> s.last_addr, error |-> TRUE]
    BY <1>2, <1>6 DEF Patch
  <2> HIDE DEF p
  <2>2. p \in PatchState /\ p.buffer = s.buffer /\ p.error = TRUE
    BY <1>2, <2>1 DEF PatchState
  <2> QED BY <1>6, <2>2 DEF p
<1> QED BY <1>5, <1>6

\* f and g begin alike and go on alike, up to n.
GoAlike(f, g, n) ==
  f[0] = g[0] /\ \A i \in 1 .. n : f[i - 1] = g[i - 1] => f[i] = g[i]

\* They end alike.
LEMMA SameEnd ==
  ASSUME NEW n \in Nat, NEW f, NEW g, GoAlike(f, g, n)
  PROVE  f[n] = g[n]
BY SameSteps DEF GoAlike

\* There are such states, and Patched is the last of them.
LEMMA PatchedIs ==
  ASSUME NEW b \in Block, Offs(b) <= BSIZE
  PROVE  \E f : Patches(f, b) /\ Patched(b) = f[Cnt(b)]
<1> DEFINE n == Cnt(b)
           a == Unpatched(b)
           G == [i \in 1 .. n |-> [s \in PatchState |-> Patch(b, s, i)]]
<1>1. n \in Nat /\ Offs(b) \in Nat
  BY PartPlaces
<1>2. a \in PatchState
  BY <1>1 DEF Unpatched, PatchState
<1>3. G \in [1 .. n -> [PatchState -> PatchState]]
  BY PatchIs
<1>4. PICK f \in [0 .. n -> PatchState] : TakesSteps(f, a, G, n)
  <2> HIDE DEF n, a, G
  <2> QED BY <1>1, <1>2, <1>3, Recursion
<1>5. \A i \in 1 .. n : f[i - 1] \in PatchState /\ f[i] = Patch(b, f[i - 1], i)
  <2> SUFFICES ASSUME NEW i \in 1 .. n PROVE f[i - 1] \in PatchState /\ f[i] = Patch(b, f[i - 1], i)
    OBVIOUS
  <2>1. i - 1 \in 0 .. n
    BY <1>1
  <2>2. f[i - 1] \in PatchState
    BY <2>1
  <2>3. G[i][f[i - 1]] = Patch(b, f[i - 1], i)
    BY <2>2
  <2>4. f[i] = G[i][f[i - 1]]
    <3> HIDE DEF G
    <3> QED BY <1>4 DEF TakesSteps
  <2> QED BY <2>2, <2>3, <2>4
<1>6. f[0] = a /\ f[n] \in PatchState
  BY <1>1, <1>4 DEF TakesSteps
<1>7. Patches(f, b)
  BY <1>5, <1>6 DEF Patches
<1> DEFINE E(g, i) ==
             LET s    == g[i - 1]
                 addr == Offs(b) + s.buffer[Pos(b) + i]
             IN  IF AddressFits(addr, s.last_addr)
                 THEN [s EXCEPT !.buffer[addr + 1] = s.buffer[Diff(b) + i],
                                !.last_addr = addr]
                 ELSE [s EXCEPT !.error = TRUE]
           P(g) == g = [i \in 0 .. n |->
                          IF i = 0 THEN [buffer |-> b, last_addr |-> Offs(b) - 1, error |-> FALSE]
                          ELSE E(g, i)]
           after == CHOOSE g : P(g)
<1>8. P(f)
  <2>1. f = [i \in 0 .. n |-> f[i]]
    BY <1>4
  <2>2. ASSUME NEW i \in 0 .. n
        PROVE  f[i] = IF i = 0 THEN [buffer |-> b, last_addr |-> Offs(b) - 1, error |-> FALSE]
                      ELSE E(f, i)
    <3>1. CASE i = 0
      BY <1>6, <3>1 DEF Unpatched
    <3>2. CASE i # 0
      <4>1. i \in 1 .. n
        BY <1>1, <3>2
      <4>2. f[i] = Patch(b, f[i - 1], i)
        BY <1>5, <4>1
      <4>3. Patch(b, f[i - 1], i) = E(f, i)
        BY Zenon DEF Patch, Target
      <4> QED BY <3>2, <4>2, <4>3, Zenon
    <3> QED BY <3>1, <3>2
  <2> HIDE DEF E
  <2> QED BY <2>1, <2>2, Zenon
<1>9. P(after)
  <2> HIDE DEF P
  <2> QED BY <1>8, Zenon
<1>10. Patched(b) = after[n]
  BY Zenon DEF Patched
<1> HIDE DEF after
<1>11. f[n] = after[n]
  <2>1. after[0] = f[0]
    <3>1. 0 \in 0 .. n
      BY <1>1
    <3>2. after[0] = [buffer |-> b, last_addr |-> Offs(b) - 1, error |-> FALSE]
      <4> HIDE DEF E
      <4> QED BY <1>9, <3>1, Zenon
    <3> QED BY <1>6, <3>2 DEF Unpatched
  <2>2. ASSUME NEW i \in 1 .. n, f[i - 1] = after[i - 1] PROVE f[i] = after[i]
    <3>1. i \in 0 .. n /\ i # 0
      BY <1>1
    <3>2. after[i] = E(after, i)
      <4> HIDE DEF E
      <4> QED BY <1>9, <3>1, Zenon
    <3>3. E(after, i) = Patch(b, after[i - 1], i)
      BY Zenon DEF Patch, Target
    <3>4. f[i] = Patch(b, f[i - 1], i)
      BY <1>5
    <3> QED BY <2>2, <3>2, <3>3, <3>4, Zenon
  <2> HIDE DEF n, P, E, a, G
  <2>3. GoAlike(f, after, n)
    <3> HIDE DEF n, P, E
    <3> QED BY <2>1, <2>2 DEF GoAlike
  <2>4. n \in Nat
    BY <1>1
  <2> HIDE DEF n
  <2> QED BY <2>3, <2>4, SameEnd
<1>12. Patched(b) = f[n]
  BY <1>10, <1>11
<1> QED BY <1>7, <1>12

\* The entries of b, and what is true of the first i of them if none is bad.
Off(b, i) == b[Pos(b) + i]
Change(b, i) == b[Diff(b) + i]
Rising(b, i) ==
  \A l \in 1 .. i : /\ Off(b, l) < BSIZE - Offs(b)
                    /\ \A j \in 1 .. (l - 1) : Off(b, j) < Off(b, l)

\* The entries lie in the block in front of the data.
LEMMA Entries ==
  ASSUME NEW b \in Block, Offs(b) <= BSIZE, NEW i \in 1 .. Cnt(b)
  PROVE  /\ Pos(b) + i \in 1 .. Offs(b) /\ Diff(b) + i \in 1 .. Offs(b)
         /\ Pos(b) + i \in 1 .. BSIZE /\ Diff(b) + i \in 1 .. BSIZE
         /\ Off(b, i) \in Nat /\ Off(b, i) \in Byte /\ Change(b, i) \in Byte
<1>1. /\ Pos(b) + i \in 1 .. Offs(b) /\ Diff(b) + i \in 1 .. Offs(b)
      /\ Pos(b) + i \in 1 .. BSIZE /\ Diff(b) + i \in 1 .. BSIZE
  <2> DEFINE x == Skipped(b)
             c == Cnt(b)
             o == Offs(b)
  <2>1. /\ x \in Nat /\ c \in Nat /\ Pos(b) = 1 + x /\ Diff(b) = 1 + x + c
        /\ o = 1 + x + 2 * c /\ o <= BSIZE /\ i \in 1 .. c
    BY PartPlaces
  <2> HIDE DEF x, c, o
  <2>2. /\ 1 + x + i \in 1 .. o /\ 1 + x + c + i \in 1 .. o
        /\ 1 + x + i \in 1 .. BSIZE /\ 1 + x + c + i \in 1 .. BSIZE
    BY <2>1, BlockSize
  <2> QED BY <2>1, <2>2 DEF o
<1>2. Off(b, i) \in Byte /\ Change(b, i) \in Byte
  BY <1>1, BlockBytes DEF Off, Change
<1> QED BY <1>1, <1>2, ByteRange

\* It is enough to compare an offset with the one in front of it.
LEMMA RisingStep ==
  ASSUME NEW b \in Block, Offs(b) <= BSIZE, NEW i \in 1 .. Cnt(b)
  PROVE  Rising(b, i) <=> /\ Rising(b, i - 1) /\ Off(b, i) < BSIZE - Offs(b)
                          /\ i = 1 \/ Off(b, i - 1) < Off(b, i)
<1>1. Cnt(b) \in Nat /\ \A l \in 1 .. i : Off(b, l) \in Nat
  <2>1. Cnt(b) \in Nat
    BY PartPlaces
  <2>2. \A l \in 1 .. i : l \in 1 .. Cnt(b)
    BY <2>1
  <2> QED BY <2>1, <2>2, Entries
<1>2. ASSUME Rising(b, i)
      PROVE  /\ Rising(b, i - 1) /\ Off(b, i) < BSIZE - Offs(b)
             /\ i = 1 \/ Off(b, i - 1) < Off(b, i)
  <2>1. \A l \in 1 .. (i - 1) : l \in 1 .. i
    OBVIOUS
  <2>2. Rising(b, i - 1)
    BY <1>2, <2>1 DEF Rising
  <2>3. i \in 1 .. i /\ (i = 1 \/ i - 1 \in 1 .. (i - 1))
    OBVIOUS
  <2> QED BY <1>2, <2>2, <2>3 DEF Rising
<1>3. ASSUME Rising(b, i - 1), Off(b, i) < BSIZE - Offs(b), i = 1 \/ Off(b, i - 1) < Off(b, i)
      PROVE  Rising(b, i)
  <2>1. ASSUME NEW j \in 1 .. (i - 1) PROVE Off(b, j) < Off(b, i)
    <3>1. i # 1 /\ i - 1 \in 1 .. (i - 1) /\ (j = i - 1 \/ j \in 1 .. ((i - 1) - 1))
      OBVIOUS
    <3>2. j = i - 1 \/ Off(b, j) < Off(b, i - 1)
      BY <1>3, <3>1 DEF Rising
    <3>3. Off(b, j) \in Nat /\ Off(b, i - 1) \in Nat /\ Off(b, i) \in Nat
      BY <1>1, <3>1
    <3> QED BY <1>3, <3>1, <3>2, <3>3
  <2>2. \A l \in 1 .. i : l \in 1 .. (i - 1) \/ l = i
    OBVIOUS
  <2> QED BY <1>3, <2>1, <2>2 DEF Rising
<1> QED BY <1>2, <1>3

\* What the first i entries have made of b.
SoFar(s, b, i) ==
  /\ \A j \in 1 .. Offs(b) : s.buffer[j] = b[j]
  /\ ~s.error <=> Rising(b, i)
  /\ ~s.error =>
       /\ s.last_addr = IF i = 0 THEN Offs(b) - 1 ELSE Offs(b) + Off(b, i)
       /\ \A l \in 1 .. i : s.buffer[Offs(b) + Off(b, l) + 1] = Change(b, l)
       /\ \A j \in 1 .. (BSIZE - Offs(b)) :
            (\A l \in 1 .. i : Off(b, l) # j - 1) => s.buffer[Offs(b) + j] = b[Offs(b) + j]

\* One more patch.
LEMMA PatchStep ==
  ASSUME NEW b \in Block, Offs(b) <= BSIZE, NEW i \in 1 .. Cnt(b), NEW s \in PatchState,
         SoFar(s, b, i - 1)
  PROVE  SoFar(Patch(b, s, i), b, i)
<1> DEFINE p == Patch(b, s, i)
           d == Offs(b)
           off == Off(b, i)
           t == Target(b, s, i)
<1>1. d \in Nat /\ d <= BSIZE /\ BSIZE \in Nat /\ Cnt(b) \in Nat
  BY PartPlaces, BlockSize
<1>2. off \in Nat /\ t = d + off /\ s.buffer[Diff(b) + i] = Change(b, i)
  BY Entries DEF SoFar, Target, Off, Change
<1>3. /\ p \in PatchState
      /\ AddressFits(t, s.last_addr) =>
            /\ p.buffer[t + 1] = s.buffer[Diff(b) + i]
            /\ \A j \in 1 .. BSIZE : j # t + 1 => p.buffer[j] = s.buffer[j]
            /\ p.last_addr = t /\ p.error = s.error
      /\ ~AddressFits(t, s.last_addr) => p.buffer = s.buffer /\ p.error = TRUE
  BY PatchIs, Zenon
<1>4. \A j \in 1 .. d : j \in 1 .. BSIZE /\ j # t + 1
  <2> HIDE DEF d, t, off
  <2> QED BY <1>1, <1>2
<1>5. \A j \in 1 .. d : p.buffer[j] = b[j]
  <2>1. \A j \in 1 .. d : s.buffer[j] = b[j]
    BY DEF SoFar
  <2> HIDE DEF p, d, t
  <2> QED BY <1>3, <1>4, <2>1
<1>6. CASE s.error
  <2>1. ~Rising(b, i)
    <3>1. ~Rising(b, i - 1)
      BY <1>6 DEF SoFar
    <3> QED BY <3>1, RisingStep
  <2>2. p.error
    <3> HIDE DEF p, t
    <3> QED BY <1>3, <1>6
  <2> QED BY <1>5, <2>1, <2>2 DEF SoFar
<1>7. CASE ~s.error
  <2>1. /\ Rising(b, i - 1)
        /\ s.last_addr = IF i - 1 = 0 THEN d - 1 ELSE d + Off(b, i - 1)
        /\ \A l \in 1 .. (i - 1) : s.buffer[d + Off(b, l) + 1] = Change(b, l)
        /\ \A j \in 1 .. (BSIZE - d) :
             (\A l \in 1 .. (i - 1) : Off(b, l) # j - 1) => s.buffer[d + j] = b[d + j]
    BY <1>7 DEF SoFar
  <2>2. AddressFits(t, s.last_addr) <=> off < BSIZE - d /\ (i = 1 \/ Off(b, i - 1) < off)
    <3>1. CASE i = 1
      <4>1. s.last_addr = d - 1
        BY <2>1, <3>1
      <4> HIDE DEF d, off, t
      <4> QED BY <1>1, <1>2, <3>1, <4>1 DEF AddressFits
    <3>2. CASE i # 1
      <4> DEFINE before == Off(b, i - 1)
      <4>1. s.last_addr = d + before /\ before \in Nat
        <5>1. i - 1 \in 1 .. Cnt(b) /\ i - 1 # 0
          BY <1>1, <3>2
        <5> QED BY <2>1, <5>1, Entries
      <4> HIDE DEF d, off, t, before
      <4>2. (d + off < BSIZE /\ d + off > d + before) <=> (off < BSIZE - d /\ before < off)
        BY <1>1, <1>2, <4>1
      <4> QED BY <1>2, <3>2, <4>1, <4>2 DEF AddressFits, before
    <3> QED BY <3>1, <3>2
  <2>3. Rising(b, i) <=> AddressFits(t, s.last_addr)
    BY <2>1, <2>2, RisingStep
  <2>4. CASE ~AddressFits(t, s.last_addr)
    <3>1. p.error = TRUE
      BY <1>3, <2>4, Zenon
    <3> QED BY <1>5, <2>3, <2>4, <3>1 DEF SoFar
  <2>5. CASE AddressFits(t, s.last_addr)
    <3>1. /\ p.buffer[d + off + 1] = Change(b, i)
          /\ \A j \in 1 .. BSIZE : j # d + off + 1 => p.buffer[j] = s.buffer[j]
          /\ p.last_addr = d + off /\ p.error = s.error
      <4> HIDE DEF p, t, d, off
      <4> QED BY <1>2, <1>3, <2>5
    <3>2. Rising(b, i)
      BY <2>3, <2>5
    <3>3. ASSUME NEW l \in 1 .. i PROVE p.buffer[d + Off(b, l) + 1] = Change(b, l)
      <4>1. CASE l = i
        BY <3>1, <4>1
      <4>2. CASE l # i
        <5> DEFINE o == Off(b, l)
        <5>1. l \in 1 .. (i - 1) /\ l \in 1 .. Cnt(b)
          BY <1>1, <4>2
        <5>2. o \in Nat /\ o < off /\ o < BSIZE - d
          BY <3>2, <5>1, Entries DEF Rising
        <5>3. s.buffer[d + o + 1] = Change(b, l)
          BY <2>1, <5>1
        <5> HIDE DEF o, p, d, off
        <5>4. d + o + 1 \in 1 .. BSIZE /\ d + o + 1 # d + off + 1
          BY <1>1, <1>2, <5>2
        <5>5. p.buffer[d + o + 1] = s.buffer[d + o + 1]
          BY <3>1, <5>4
        <5> QED BY <5>3, <5>5 DEF o
      <4> QED BY <4>1, <4>2
    <3>4. ASSUME NEW j \in 1 .. (BSIZE - d), \A l \in 1 .. i : Off(b, l) # j - 1
          PROVE  p.buffer[d + j] = b[d + j]
      <4>1. i \in 1 .. i /\ \A l \in 1 .. (i - 1) : l \in 1 .. i
        OBVIOUS
      <4>2. off # j - 1 /\ \A l \in 1 .. (i - 1) : Off(b, l) # j - 1
        BY <3>4, <4>1
      <4>3. s.buffer[d + j] = b[d + j]
        BY <2>1, <4>2
      <4> HIDE DEF p, d, off
      <4>4. d + j \in 1 .. BSIZE /\ d + j # d + off + 1
        BY <1>1, <1>2, <4>2
      <4> QED BY <3>1, <4>3, <4>4
    <3>5. i # 0
      OBVIOUS
    <3>6. ~p.error
      BY <1>7, <3>1, Zenon
    <3>7. p.last_addr = IF i = 0 THEN Offs(b) - 1 ELSE Offs(b) + Off(b, i)
      BY <3>1, <3>5
    <3> HIDE DEF p
    <3>8. SoFar(p, b, i)
      BY <1>5, <3>2, <3>3, <3>4, <3>6, <3>7, Zenon DEF SoFar
    <3> QED BY <3>8 DEF p
  <2> QED BY <2>4, <2>5
<1> QED BY <1>6, <1>7

\* And all of them.
LEMMA PatchesDo ==
  ASSUME NEW b \in Block, Offs(b) <= BSIZE
  PROVE  Patched(b) \in PatchState /\ SoFar(Patched(b), b, Cnt(b))
<1>1. PICK f : Patches(f, b) /\ Patched(b) = f[Cnt(b)]
  BY PatchedIs
<1> DEFINE n == Cnt(b)
           S == {i \in 0 .. n : SoFar(f[i], b, i)}
<1>2. n \in Nat
  BY PartPlaces
<1>3. 0 \in S
  <2>1. f[0].buffer = b /\ f[0].last_addr = Offs(b) - 1 /\ f[0].error = FALSE
    BY <1>1 DEF Patches, Unpatched
  <2>2. Rising(b, 0)
    BY DEF Rising
  <2>3. SoFar(f[0], b, 0)
    BY <2>1, <2>2 DEF SoFar
  <2> QED BY <1>2, <2>3
<1>4. ASSUME NEW i \in 1 .. n, i - 1 \in S PROVE i \in S
  <2>1. f[i] = Patch(b, f[i - 1], i) /\ f[i - 1] \in PatchState /\ SoFar(f[i - 1], b, i - 1)
    BY <1>1, <1>4 DEF Patches
  <2>2. SoFar(f[i], b, i)
    BY <2>1, PatchStep
  <2>3. i \in 0 .. n
    BY <1>2
  <2> QED BY <2>2, <2>3
<1>5. n \in S
  <2>1. \A i \in 0 .. n : i \in S
    <3> HIDE DEF n, S
    <3> QED BY <1>2, <1>3, <1>4, UpTo
  <2> QED BY <1>2, <2>1
<1> QED BY <1>1, <1>5 DEF Patches

\* The end of a block, behind its first o bytes.
LEMMA EndOf ==
  ASSUME NEW b \in Block, NEW o \in 0 .. BSIZE
  PROVE  /\ SubSeq(b, o + 1, BSIZE) \in Seq(Byte) /\ Len(SubSeq(b, o + 1, BSIZE)) = BSIZE - o
         /\ \A i \in 1 .. (BSIZE - o) : SubSeq(b, o + 1, BSIZE)[i] = b[o + i]
         /\ SubSeq(b, o + 1, BSIZE) = [i \in 1 .. (BSIZE - o) |-> b[o + i]]
<1> DEFINE part == SubSeq(b, o + 1, BSIZE)
<1>1. b \in Seq(Byte) /\ Len(b) = BSIZE /\ BSIZE \in Nat
  BY BlockBytes, BlockSize
<1>2. part \in Seq(Byte) /\ Len(part) = BSIZE - o /\ \A i \in 1 .. (BSIZE - o) : part[i] = b[o + i]
  <2>1. o + 1 \in 1 .. (Len(b) + 1) /\ BSIZE \in ((o + 1) - 1) .. Len(b)
    BY <1>1
  <2>2. \A i \in (o + 1) .. BSIZE : b[i] \in Byte
    <3>1. \A i \in (o + 1) .. BSIZE : i \in 1 .. BSIZE
      BY <1>1
    <3> QED BY <3>1, BlockBytes
  <2>3. /\ part \in Seq(Byte)
        /\ Len(part) = (BSIZE - (o + 1)) + 1
        /\ \A i \in 1 .. ((BSIZE - (o + 1)) + 1) : part[i] = b[((o + 1) + i) - 1]
    <3>1. /\ part \in Seq(Byte)
          /\ Len(part) = IF o + 1 <= BSIZE THEN (BSIZE - (o + 1)) + 1 ELSE 0
          /\ \A i \in 1 .. ((BSIZE - (o + 1)) + 1) : part[i] = b[((o + 1) + i) - 1]
      <4>1. o + 1 \in Int /\ BSIZE \in Int
        BY <1>1
      <4> QED BY <2>2, <4>1, SubSeqProperties
    <3>2. (IF o + 1 <= BSIZE THEN (BSIZE - (o + 1)) + 1 ELSE 0) = (BSIZE - (o + 1)) + 1
      BY <1>1
    <3> QED BY <3>1, <3>2
  <2>4. (BSIZE - (o + 1)) + 1 = BSIZE - o /\ \A i \in 1 .. (BSIZE - o) : ((o + 1) + i) - 1 = o + i
    BY <1>1
  <2> HIDE DEF part
  <2> QED BY <2>3, <2>4
<1> HIDE DEF part
<1>3. part = [i \in 1 .. (BSIZE - o) |-> b[o + i]]
  <2>1. part = [i \in 1 .. (BSIZE - o) |-> part[i]]
    <3>1. part \in [1 .. Len(part) -> Byte]
      BY <1>2, LenProperties
    <3> QED BY <1>2, <3>1
  <2> QED BY <1>2, <2>1, Zenon
<1> QED BY <1>2, <1>3 DEF part

\* A block keeps to the format if the decoder finds nothing wrong with it.
LEMMA WellFormedIs ==
  ASSUME NEW b \in Block, NEW shift \in BOOLEAN
  PROVE  WellFormed(b, shift) <=>
           /\ Header(b).full /\ Offs(b) <= BSIZE
           /\ shift => Rising(b, Cnt(b))
<1>1. /\ Skipped(b) \in 0 .. (FULL - 1) /\ Cnt(b) \in 0 .. (FULL - 1)
      /\ Pos(b) = 1 + Skipped(b) /\ Offs(b) = 1 + Skipped(b) + 2 * Cnt(b)
  <2> DEFINE x == Skipped(b)
             c == Cnt(b)
             cnt == Header(b).cnt
  <2>1. x \in Nat /\ c \in Nat /\ x + c = cnt /\ cnt < FULL
    BY PartPlaces
  <2> HIDE DEF x, c, cnt
  <2>2. x \in 0 .. (FULL - 1) /\ c \in 0 .. (FULL - 1)
    BY <2>1, Half
  <2> QED BY <2>2, PartPlaces DEF x, c
<1>2. GoodOffsets(b, Skipped(b), Cnt(b)) <=> Rising(b, Cnt(b))
  BY <1>1 DEF GoodOffsets, Rising, Off
<1>3. ASSUME NEW pad \in 0 .. (FULL - 1), NEW k \in 0 .. (FULL - 1)
      PROVE  Reading(b, pad, k) <=>
               Header(b).full /\ Offs(b) <= BSIZE /\ pad = Skipped(b) /\ k = Cnt(b)
  <2>1. pad \in Nat /\ k \in Nat
    BY Half
  <2> QED BY <2>1, ReadingIs
<1>4. ASSUME WellFormed(b, shift)
      PROVE  Header(b).full /\ Offs(b) <= BSIZE /\ (shift => Rising(b, Cnt(b)))
  <2>1. PICK pad \in 0 .. (FULL - 1), k \in 0 .. (FULL - 1) :
          Reading(b, pad, k) /\ (shift => GoodOffsets(b, pad, k))
    BY <1>4 DEF WellFormed
  <2>2. Header(b).full /\ Offs(b) <= BSIZE /\ pad = Skipped(b) /\ k = Cnt(b)
    BY <1>3, <2>1
  <2> QED BY <1>2, <2>1, <2>2
<1>5. ASSUME Header(b).full, Offs(b) <= BSIZE, shift => Rising(b, Cnt(b))
      PROVE  WellFormed(b, shift)
  <2>1. Reading(b, Skipped(b), Cnt(b))
    BY <1>1, <1>3, <1>5
  <2> QED BY <1>1, <1>2, <1>5, <2>1 DEF WellFormed
<1> QED BY <1>4, <1>5

\* The entries for the j-th byte of the data; there is one of them at most in a
\* well-formed block.
EntryFor(b, j) == {i \in 1 .. Cnt(b) : Off(b, i) = j - 1}
OneOf(S) == CHOOSE x \in S : TRUE

\* The bytes that the format gives a block, in the decoder's terms.
LEMMA MeaningIs ==
  ASSUME NEW b \in Block, NEW shift \in BOOLEAN, Header(b).full, Offs(b) <= BSIZE
  PROVE  Meaning(b, shift) =
           [j \in 1 .. (BSIZE - Offs(b)) |->
              IF shift /\ EntryFor(b, j) # {} THEN Change(b, OneOf(EntryFor(b, j)))
              ELSE b[Offs(b) + j]]
<1> DEFINE R == (0 .. (FULL - 1)) \X (0 .. (FULL - 1))
           r == CHOOSE q \in R : Reading(b, q[1], q[2])
<1>1. /\ Skipped(b) \in 0 .. (FULL - 1) /\ Cnt(b) \in 0 .. (FULL - 1)
      /\ Pos(b) = 1 + Skipped(b) /\ Offs(b) = 1 + Skipped(b) + 2 * Cnt(b)
      /\ Diff(b) = 1 + Skipped(b) + Cnt(b)
  <2> DEFINE x == Skipped(b)
             c == Cnt(b)
             cnt == Header(b).cnt
  <2>1. x \in Nat /\ c \in Nat /\ x + c = cnt /\ cnt < FULL
    BY PartPlaces
  <2> HIDE DEF x, c, cnt
  <2>2. x \in 0 .. (FULL - 1) /\ c \in 0 .. (FULL - 1)
    BY <2>1, Half
  <2> QED BY <2>2, PartPlaces DEF x, c
<1>2. <<Skipped(b), Cnt(b)>> \in R /\ Reading(b, <<Skipped(b), Cnt(b)>>[1], <<Skipped(b), Cnt(b)>>[2])
  <2>1. Reading(b, Skipped(b), Cnt(b))
    BY PartPlaces, ReadingIs
  <2> QED BY <1>1, <2>1
<1>3. r \in R /\ Reading(b, r[1], r[2])
  <2> HIDE DEF R
  <2> QED BY <1>2, Zenon
<1>4. r[1] = Skipped(b) /\ r[2] = Cnt(b)
  <2>1. r[1] \in Nat /\ r[2] \in Nat
    <3> HIDE DEF r
    <3> QED BY <1>3, Half
  <2> HIDE DEF r
  <2> QED BY <1>3, <2>1, ReadingIs
<1> DEFINE pad == r[1]
           k == r[2]
           data == 1 + pad + 2 * k
           entry(j) == {i \in 1 .. k : b[1 + pad + i] = j - 1}
<1>5. Meaning(b, shift) =
        [j \in 1 .. (BSIZE - data) |->
           IF shift /\ entry(j) # {}
           THEN b[1 + pad + k + OneOf(entry(j))]
           ELSE b[data + j]]
  BY Zenon DEF Meaning, OneOf
<1> HIDE DEF r
<1>6. data = Offs(b) /\ 1 + pad = Pos(b) /\ 1 + pad + k = Diff(b) /\ k = Cnt(b)
  BY <1>1, <1>4
<1>7. \A j : entry(j) = EntryFor(b, j)
  BY <1>6 DEF EntryFor, Off
<1> HIDE DEF entry, pad, k, data
<1>8. \A i : b[1 + pad + k + i] = Change(b, i)
  BY <1>6 DEF Change
<1> QED BY <1>5, <1>6, <1>7, <1>8, Zenon

(***************************************************************************)
(* The decoder and the format agree on every block of bytes, for either    *)
(* slot: bin2page_decoder.c counts an error if and only if the block is    *)
(* not well formed, and what comes out of one that is well formed is what  *)
(* the format gives it, read without buffers and indices.                  *)
(***************************************************************************)
THEOREM DecodesByTheFormat ==
  ASSUME NEW b \in Block, NEW shift \in BOOLEAN
  PROVE  /\ DecodedBlock(b, shift).bytes \in Seq(Byte)
         /\ DecodedBlock(b, shift).error \in BOOLEAN
         /\ DecodedBlock(b, shift).error <=> ~WellFormed(b, shift)
         /\ WellFormed(b, shift) => DecodedBlock(b, shift).bytes = Meaning(b, shift)
<1> DEFINE out == DecodedBlock(b, shift)
           o == Offs(b)
           n == Cnt(b)
<1>1. n \in Nat /\ o \in Nat /\ BSIZE \in Nat
  BY PartPlaces, BlockSize
<1>2. CASE Header(b).full /\ o > BSIZE
  <2>1. out = [bytes |-> b, error |-> TRUE]
    BY <1>2, OverflowIs, Zenon DEF DecodedBlock
  <2>2. ~WellFormed(b, shift)
    <3>1. ~(o <= BSIZE)
      BY <1>1, <1>2
    <3> QED BY <3>1, WellFormedIs
  <2>3. out.bytes = b /\ out.error = TRUE
    BY <2>1
  <2> HIDE DEF out
  <2>4. b \in Seq(Byte)
    BY BlockBytes
  <2> QED BY <2>2, <2>3, <2>4 DEF out
<1>3. CASE ~Header(b).full
  <2>1. ~Overflow(b)
    BY <1>3, OverflowIs
  <2>2. out = [bytes |-> SubSeq(b, Pos(b) + 1, BSIZE), error |-> TRUE]
    BY <1>3, <2>1, Zenon DEF DecodedBlock
  <2>3. Pos(b) \in 0 .. BSIZE
    <3> DEFINE s == Skipped(b)
               cnt == Header(b).cnt
    <3>1. Pos(b) = 1 + s /\ s \in 0 .. cnt /\ cnt \in Nat /\ cnt < FULL
      BY SkippedIs, PartPlaces
    <3> HIDE DEF s, cnt
    <3> QED BY <3>1, BlockSize, Half
  <2>4. SubSeq(b, Pos(b) + 1, BSIZE) \in Seq(Byte)
    BY <2>3, EndOf
  <2>5. ~WellFormed(b, shift)
    BY <1>3, WellFormedIs
  <2>6. out.bytes \in Seq(Byte) /\ out.error = TRUE
    BY <2>2, <2>4
  <2> HIDE DEF out
  <2> QED BY <2>5, <2>6 DEF out
<1>4. CASE Header(b).full /\ o <= BSIZE /\ shift
  <2>1. ~Overflow(b)
    <3>1. ~(o > BSIZE)
      BY <1>1, <1>4
    <3> QED BY <3>1, OverflowIs
  <2> DEFINE p == Patched(b)
  <2>2. out = [bytes |-> SubSeq(p.buffer, o + 1, BSIZE), error |-> p.error]
    BY <1>4, <2>1, Zenon DEF DecodedBlock
  <2>3. p \in PatchState /\ SoFar(p, b, n)
    BY <1>4, PatchesDo
  <2>4. p.buffer \in Block /\ p.error \in BOOLEAN /\ o \in 0 .. BSIZE
    BY <1>1, <1>4, <2>3 DEF PatchState
  <2>5. WellFormed(b, shift) <=> ~p.error
    BY <1>4, <2>3, WellFormedIs DEF SoFar
  <2> HIDE DEF p
  <2>6. out.bytes = SubSeq(p.buffer, o + 1, BSIZE) /\ out.error = p.error
    <3> HIDE DEF out, o
    <3> QED BY <2>2
  <2>7. out.bytes \in Seq(Byte)
    BY <2>4, <2>6, EndOf
  <2>8. ASSUME ~p.error PROVE out.bytes = Meaning(b, shift)
    <3>1. /\ \A l \in 1 .. n : p.buffer[o + Off(b, l) + 1] = Change(b, l)
          /\ \A j \in 1 .. (BSIZE - o) :
               (\A l \in 1 .. n : Off(b, l) # j - 1) => p.buffer[o + j] = b[o + j]
      BY <2>3, <2>8 DEF SoFar
    <3> DEFINE E(j) == IF shift /\ EntryFor(b, j) # {} THEN Change(b, OneOf(EntryFor(b, j)))
                       ELSE b[o + j]
    <3>2. ASSUME NEW j \in 1 .. (BSIZE - o) PROVE p.buffer[o + j] = E(j)
      <4>1. CASE EntryFor(b, j) # {}
        <5> DEFINE l == OneOf(EntryFor(b, j))
        <5>1. l \in EntryFor(b, j)
          BY <4>1, Zenon DEF OneOf
        <5> HIDE DEF l
        <5>2. l \in 1 .. n /\ Off(b, l) = j - 1
          BY <5>1 DEF EntryFor
        <5>3. p.buffer[o + Off(b, l) + 1] = Change(b, l)
          BY <3>1, <5>2
        <5>4. o + Off(b, l) + 1 = o + j
          <6>1. o + (j - 1) + 1 = o + j
            BY <1>1
          <6> QED BY <5>2, <6>1
        <5>5. p.buffer[o + j] = Change(b, l)
          BY <5>3, <5>4
        <5> QED BY <1>4, <4>1, <5>5 DEF l
      <4>2. CASE EntryFor(b, j) = {}
        <5>1. \A l \in 1 .. n : Off(b, l) # j - 1
          BY <4>2 DEF EntryFor
        <5>2. p.buffer[o + j] = b[o + j]
          BY <3>1, <5>1
        <5> QED BY <4>2, <5>2
      <4> QED BY <4>1, <4>2
    <3>3. Meaning(b, shift) = [j \in 1 .. (BSIZE - o) |-> E(j)]
      BY <1>4, MeaningIs, Zenon
    <3>4. out.bytes = [j \in 1 .. (BSIZE - o) |-> p.buffer[o + j]]
      BY <2>4, <2>6, EndOf
    <3> HIDE DEF E, out
    <3> QED BY <3>2, <3>3, <3>4
  <2> HIDE DEF out
  <2> QED BY <2>4, <2>5, <2>6, <2>7, <2>8 DEF out
<1>5. CASE Header(b).full /\ o <= BSIZE /\ ~shift
  <2>1. ~Overflow(b)
    <3>1. ~(o > BSIZE)
      BY <1>1, <1>5
    <3> QED BY <3>1, OverflowIs
  <2>2. out = [bytes |-> SubSeq(b, o + 1, BSIZE), error |-> FALSE]
    BY <1>5, <2>1, Zenon DEF DecodedBlock
  <2>3. o \in 0 .. BSIZE
    BY <1>1, <1>5
  <2>4. /\ SubSeq(b, o + 1, BSIZE) \in Seq(Byte)
        /\ SubSeq(b, o + 1, BSIZE) = [j \in 1 .. (BSIZE - o) |-> b[o + j]]
    BY <2>3, EndOf
  <2>5. WellFormed(b, shift)
    BY <1>5, WellFormedIs
  <2>6. Meaning(b, shift) = [j \in 1 .. (BSIZE - o) |-> b[o + j]]
    <3> DEFINE E(j) == IF shift /\ EntryFor(b, j) # {} THEN Change(b, OneOf(EntryFor(b, j)))
                       ELSE b[o + j]
    <3>1. Meaning(b, shift) = [j \in 1 .. (BSIZE - o) |-> E(j)]
      BY <1>5, MeaningIs, Zenon
    <3>2. \A j : E(j) = b[o + j]
      BY <1>5, Zenon
    <3> HIDE DEF E
    <3> QED BY <3>1, <3>2
  <2>7. out.bytes = SubSeq(b, o + 1, BSIZE) /\ out.error = FALSE
    <3> HIDE DEF out, o
    <3> QED BY <2>2
  <2> HIDE DEF out
  <2> QED BY <2>4, <2>5, <2>6, <2>7 DEF out
<1>6. o > BSIZE \/ o <= BSIZE
  BY <1>1
<1> QED BY <1>2, <1>3, <1>4, <1>5, <1>6

----------------------------------------------------------------------------
(* The stream of pages                                                     *)

Decs ==
  {d \in [inited : BOOLEAN, active : BOOLEAN, errors : BOOLEAN,
          input : Seq(Byte), result : Seq(Byte), pages : Seq(Byte)] :
     Len(d.input) < BSIZE /\ Len(d.result) < BSIZE /\ Len(d.pages) % BSIZE = 0}

\* Whole pages are a multiple of the page.
LEMMA Multiple ==
  ASSUME NEW n \in Nat
  PROVE  n % BSIZE = 0 <=> \E k \in Nat : n = k * BSIZE
<1> DEFINE q == n \div BSIZE
           r == n % BSIZE
<1>1. q \in Nat /\ r \in 0 .. (BSIZE - 1) /\ n = BSIZE * q + r
  <2>1. q \in Int /\ r \in 0 .. (BSIZE - 1) /\ n = BSIZE * q + r
    BY BlockSize
  <2> HIDE DEF q, r
  <2>2. ~(q <= -1)
    BY <2>1, BlockSize, SMTT(30)
  <2> QED BY <2>1, <2>2
<1> HIDE DEF q, r
<1>2. ASSUME r = 0 PROVE \E k \in Nat : n = k * BSIZE
  <2>1. n = q * BSIZE
    BY <1>1, <1>2, BlockSize
  <2> QED BY <1>1, <2>1
<1>3. ASSUME NEW k \in Nat, n = k * BSIZE PROVE r = 0
  <2>1. BSIZE * (k - q) = r
    BY <1>1, <1>3, BlockSize
  <2> DEFINE x == k - q
  <2>2. x \in Int /\ BSIZE * x = r
    BY <1>1, <2>1
  <2> HIDE DEF x
  <2>3. ~(x >= 1) /\ ~(x <= -1)
    BY <1>1, <2>2, BlockSize, SMTT(30)
  <2>4. x = 0
    BY <2>2, <2>3
  <2>5. BSIZE * 0 = 0
    BY BlockSize
  <2> QED BY <2>2, <2>4, <2>5
<1> QED BY <1>2, <1>3 DEF r

\* As many whole pages as there are in n, and less than a page behind them.
LEMMA WholePages ==
  ASSUME NEW n \in Nat
  PROVE  /\ (n \div BSIZE) * BSIZE \in 0 .. n /\ n - (n \div BSIZE) * BSIZE < BSIZE
         /\ ((n \div BSIZE) * BSIZE) % BSIZE = 0
<1> DEFINE q == n \div BSIZE
           r == n % BSIZE
           full == q * BSIZE
<1>1. q \in Int /\ r \in 0 .. (BSIZE - 1) /\ n = BSIZE * q + r
  BY BlockSize
<1>2. q \in Nat
  <2> HIDE DEF q, r
  <2>1. ~(q <= -1)
    BY <1>1, BlockSize, SMTT(30)
  <2> QED BY <1>1, <2>1
<1> HIDE DEF q, r
<1>3. full \in Nat /\ n = full + r
  BY <1>1, <1>2, BlockSize
<1>4. full % BSIZE = 0
  BY <1>2, <1>3, Multiple
<1> HIDE DEF full
<1>5. full \in 0 .. n /\ n - full < BSIZE
  BY <1>1, <1>3, BlockSize
<1> QED BY <1>4, <1>5 DEF full, q

\* Whole pages behind whole pages.
LEMMA MorePages ==
  ASSUME NEW m \in Nat, NEW n \in Nat, m % BSIZE = 0, n % BSIZE = 0
  PROVE  (m + n) % BSIZE = 0
<1>1. PICK j \in Nat : m = j * BSIZE
  BY Multiple
<1>2. PICK k \in Nat : n = k * BSIZE
  BY Multiple
<1>3. m + n = (j + k) * BSIZE /\ j + k \in Nat
  BY <1>1, <1>2, BlockSize
<1>4. m + n \in Nat
  OBVIOUS
<1> QED BY <1>3, <1>4, Multiple

\* Concatenation is associative.
LEMMA Regroup ==
  ASSUME NEW s \in Seq(Byte), NEW t \in Seq(Byte), NEW u \in Seq(Byte)
  PROVE  (s \o t) \o u = s \o (t \o u)
BY ConcatAssociative

\* A sequence of bytes, cut in two.
LEMMA Cut ==
  ASSUME NEW s \in Seq(Byte), NEW k \in 0 .. Len(s)
  PROVE  /\ SubSeq(s, 1, k) \in Seq(Byte) /\ Len(SubSeq(s, 1, k)) = k
         /\ SubSeq(s, k + 1, Len(s)) \in Seq(Byte) /\ Len(SubSeq(s, k + 1, Len(s))) = Len(s) - k
         /\ SubSeq(s, 1, k) \o SubSeq(s, k + 1, Len(s)) = s
<1>1. Len(s) \in Nat /\ \A i \in 1 .. Len(s) : s[i] \in Byte
  BY LenProperties, ElementOfSeq
<1>2. SubSeq(s, 1, k) \in Seq(Byte) /\ Len(SubSeq(s, 1, k)) = k
  <2>1. \A i \in 1 .. k : s[i] \in Byte
    BY <1>1
  <2>2. 1 \in Int /\ k \in Int /\ (IF 1 <= k THEN (k - 1) + 1 ELSE 0) = k
    BY <1>1
  <2> QED BY <2>1, <2>2, SubSeqProperties
<1>3. SubSeq(s, k + 1, Len(s)) \in Seq(Byte) /\ Len(SubSeq(s, k + 1, Len(s))) = Len(s) - k
  <2>1. \A i \in (k + 1) .. Len(s) : s[i] \in Byte
    BY <1>1
  <2>2. /\ k + 1 \in Int /\ Len(s) \in Int
        /\ (IF k + 1 <= Len(s) THEN (Len(s) - (k + 1)) + 1 ELSE 0) = Len(s) - k
    BY <1>1
  <2> QED BY <2>1, <2>2, SubSeqProperties
<1>4. SubSeq(s, 1, k) \o SubSeq(s, k + 1, Len(s)) = s
  <2>1. 1 \in 1 .. (Len(s) + 1) /\ k \in (1 - 1) .. Len(s) /\ Len(s) \in k .. Len(s)
    BY <1>1
  <2>2. SubSeq(s, 1, k) \o SubSeq(s, k + 1, Len(s)) = SubSeq(s, 1, Len(s))
    BY <2>1, ConcatAdjacentSubSeq
  <2> QED BY <2>2, SubSeqFull
<1> QED BY <1>2, <1>3, <1>4

\* A decoder's state, field by field.
LEMMA Decoder ==
  ASSUME NEW d
  PROVE  d \in Decs <=>
           /\ d = [inited |-> d.inited, active |-> d.active, errors |-> d.errors,
                   input |-> d.input, result |-> d.result, pages |-> d.pages]
           /\ d.inited \in BOOLEAN /\ d.active \in BOOLEAN /\ d.errors \in BOOLEAN
           /\ d.input \in Seq(Byte) /\ d.result \in Seq(Byte) /\ d.pages \in Seq(Byte)
           /\ Len(d.input) < BSIZE /\ Len(d.result) < BSIZE /\ Len(d.pages) % BSIZE = 0
BY DEF Decs

\* result_add keeps what is held back below a page, and loses nothing.
LEMMA EmittedIs ==
  ASSUME NEW dec \in Decs, NEW bytes \in Seq(Byte), NEW e, e = Emitted(dec, bytes)
  PROVE  /\ e \in Decs
         /\ e.inited = dec.inited /\ e.active = dec.active /\ e.errors = dec.errors
         /\ e.input = dec.input
         /\ e.pages \o e.result = (dec.pages \o dec.result) \o bytes
         /\ Len(e.result) = Len(dec.result \o bytes) - (Len(dec.result \o bytes) \div BSIZE) * BSIZE
<1> DEFINE all == dec.result \o bytes
           full == (Len(all) \div BSIZE) * BSIZE
           out == SubSeq(all, 1, full)
           rest == SubSeq(all, full + 1, Len(all))
<1>1. /\ dec = [inited |-> dec.inited, active |-> dec.active, errors |-> dec.errors,
                input |-> dec.input, result |-> dec.result, pages |-> dec.pages]
      /\ dec.inited \in BOOLEAN /\ dec.active \in BOOLEAN /\ dec.errors \in BOOLEAN
      /\ dec.input \in Seq(Byte) /\ dec.result \in Seq(Byte) /\ dec.pages \in Seq(Byte)
      /\ Len(dec.input) < BSIZE /\ Len(dec.pages) % BSIZE = 0
  BY Decoder
<1>2. all \in Seq(Byte) /\ Len(all) \in Nat
  <2>1. all \in Seq(Byte)
    BY <1>1, ConcatProperties
  <2> QED BY <2>1, LenProperties
<1>3. e = [inited |-> dec.inited, active |-> dec.active, errors |-> dec.errors,
           input |-> dec.input, result |-> rest, pages |-> dec.pages \o out]
  <2>1. e = [dec EXCEPT !.result = rest, !.pages = dec.pages \o out]
    BY Zenon DEF Emitted
  <2> HIDE DEF rest, out
  <2> QED BY <1>1, <2>1
<1> HIDE DEF all
<1>4. full \in 0 .. Len(all) /\ Len(all) - full < BSIZE /\ full % BSIZE = 0
  BY <1>2, WholePages
<1> HIDE DEF full
<1>5. /\ out \in Seq(Byte) /\ Len(out) = full
      /\ rest \in Seq(Byte) /\ Len(rest) = Len(all) - full
      /\ out \o rest = all
  BY <1>2, <1>4, Cut
<1> HIDE DEF out, rest
<1>6. /\ e.inited = dec.inited /\ e.active = dec.active /\ e.errors = dec.errors
      /\ e.input = dec.input /\ e.result = rest /\ e.pages = dec.pages \o out
  BY <1>3
<1>7. e.pages \in Seq(Byte) /\ Len(e.pages) % BSIZE = 0
  <2>1. dec.pages \o out \in Seq(Byte) /\ Len(dec.pages \o out) = Len(dec.pages) + Len(out)
    BY <1>1, <1>5, ConcatProperties
  <2>2. Len(dec.pages) \in Nat /\ Len(out) \in Nat
    BY <1>1, <1>5, LenProperties
  <2>3. (Len(dec.pages) + Len(out)) % BSIZE = 0
    BY <1>1, <1>4, <1>5, <2>2, MorePages
  <2> QED BY <1>6, <2>1, <2>3
<1>8. e \in Decs
  <2>1. e = [inited |-> e.inited, active |-> e.active, errors |-> e.errors,
             input |-> e.input, result |-> e.result, pages |-> e.pages]
    BY <1>3
  <2>2. e.result \in Seq(Byte) /\ Len(e.result) < BSIZE
    BY <1>4, <1>5, <1>6
  <2> QED BY <1>1, <1>6, <1>7, <2>1, <2>2, Decoder
<1>9. (dec.pages \o out) \o rest = (dec.pages \o dec.result) \o bytes
  <2>1. (dec.pages \o out) \o rest = dec.pages \o all
    BY <1>1, <1>5, Regroup
  <2>2. dec.pages \o all = (dec.pages \o dec.result) \o bytes
    BY <1>1, Regroup DEF all
  <2> QED BY <2>1, <2>2
<1> QED BY <1>5, <1>6, <1>8, <1>9 DEF all, full

\* What the decoder goes by when it is given a page.
ActiveWith(dec, buf) == IF dec.inited THEN dec.active ELSE HasSign(buf)
InputWith(dec, buf) ==
  dec.input \o (IF dec.inited THEN buf ELSE SubSeq(buf, Len(SIGN) + 1, BSIZE))

\* The signature is shorter than a page.
LEMMA SignRange == SIGN \in Seq(Byte) /\ Len(SIGN) \in Nat /\ Len(SIGN) > 0 /\ Len(SIGN) < BSIZE
BY FormatAssumption, LenProperties

\* How much is in decode_buffer behind a page.
LEMMA InputIs ==
  ASSUME NEW dec \in Decs, NEW buf \in Block
  PROVE  /\ InputWith(dec, buf) \in Seq(Byte)
         /\ Len(InputWith(dec, buf)) =
              Len(dec.input) + (IF dec.inited THEN BSIZE ELSE BSIZE - Len(SIGN))
         /\ Len(dec.input) \in Nat /\ Len(dec.input) < BSIZE
<1> DEFINE more == IF dec.inited THEN buf ELSE SubSeq(buf, Len(SIGN) + 1, BSIZE)
           n == IF dec.inited THEN BSIZE ELSE BSIZE - Len(SIGN)
<1>1. dec.input \in Seq(Byte) /\ Len(dec.input) < BSIZE /\ Len(dec.input) \in Nat
  BY Decoder, LenProperties
<1>2. more \in Seq(Byte) /\ Len(more) = n
  <2>1. CASE dec.inited
    BY <2>1, BlockBytes
  <2>2. CASE ~dec.inited
    <3>1. Len(SIGN) \in 0 .. BSIZE
      BY SignRange, BlockSize
    <3>2. /\ SubSeq(buf, Len(SIGN) + 1, BSIZE) \in Seq(Byte)
          /\ Len(SubSeq(buf, Len(SIGN) + 1, BSIZE)) = BSIZE - Len(SIGN)
      BY <3>1, EndOf
    <3> QED BY <2>2, <3>2
  <2> QED BY <2>1, <2>2
<1>3. InputWith(dec, buf) = dec.input \o more
  BY DEF InputWith
<1> HIDE DEF more, n
<1>4. dec.input \o more \in Seq(Byte) /\ Len(dec.input \o more) = Len(dec.input) + Len(more)
  BY <1>1, <1>2, ConcatProperties
<1> QED BY <1>1, <1>2, <1>3, <1>4 DEF n

\* d is what dec becomes when it is given the page.
Taken(d, dec, buf, input, block) ==
  /\ d \in Decs /\ d.inited /\ (d.active <=> ActiveWith(dec, buf))
  /\ ~d.active => /\ d.input = dec.input /\ d.errors = dec.errors
                  /\ d.result = dec.result /\ d.pages = dec.pages \o buf
  /\ d.active /\ Len(input) < BSIZE =>
       /\ d.input = input /\ d.errors = dec.errors
       /\ d.result = dec.result /\ d.pages = dec.pages
  /\ d.active /\ ~(Len(input) < BSIZE) =>
       /\ d.input = SubSeq(input, BSIZE + 1, Len(input))
       /\ d.errors <=> dec.errors \/ block.error
       /\ d.pages \o d.result = (dec.pages \o dec.result) \o block.bytes

\* bin2page_decode, case by case.
LEMMA DecodeIs ==
  ASSUME NEW dec \in Decs, NEW buf \in Block, NEW shift \in BOOLEAN,
         NEW d, d = bin2page_decode(dec, buf, shift),
         NEW input, input = InputWith(dec, buf),
         NEW block, block = DecodedBlock(SubSeq(input, 1, BSIZE), shift)
  PROVE  Taken(d, dec, buf, input, block)
<1> DEFINE active == ActiveWith(dec, buf)
           begun == [dec EXCEPT !.inited = TRUE, !.active = active]
<1>1. /\ dec = [inited |-> dec.inited, active |-> dec.active, errors |-> dec.errors,
                input |-> dec.input, result |-> dec.result, pages |-> dec.pages]
      /\ dec.inited \in BOOLEAN /\ dec.active \in BOOLEAN /\ dec.errors \in BOOLEAN
      /\ dec.input \in Seq(Byte) /\ dec.result \in Seq(Byte) /\ dec.pages \in Seq(Byte)
      /\ Len(dec.input) < BSIZE /\ Len(dec.result) < BSIZE /\ Len(dec.pages) % BSIZE = 0
  BY Decoder
<1>2. active \in BOOLEAN
  <2>1. HasSign(buf) \in BOOLEAN
    BY DEF HasSign
  <2> QED BY <1>1, <2>1 DEF ActiveWith
<1>3. d = IF ~active THEN [begun EXCEPT !.pages = dec.pages \o buf]
          ELSE IF Len(input) < BSIZE THEN [begun EXCEPT !.input = input]
          ELSE Emitted([begun EXCEPT !.input  = SubSeq(input, BSIZE + 1, Len(input)),
                                     !.errors = dec.errors \/ block.error], block.bytes)
  BY Zenon DEF bin2page_decode, ActiveWith, InputWith
<1> HIDE DEF active
<1>4. begun = [inited |-> TRUE, active |-> active, errors |-> dec.errors,
               input |-> dec.input, result |-> dec.result, pages |-> dec.pages]
  <2>1. PICK e : e = begun
    OBVIOUS
  <2>2. e = [inited |-> TRUE, active |-> active, errors |-> dec.errors,
             input |-> dec.input, result |-> dec.result, pages |-> dec.pages]
    BY <1>1, <2>1
  <2> QED BY <2>1, <2>2
<1> HIDE DEF begun
<1>5. /\ input \in Seq(Byte) /\ Len(input) \in Nat
      /\ ~(Len(input) < BSIZE) => BSIZE \in 0 .. Len(input) /\ Len(input) - BSIZE < BSIZE
  <2>1. input \in Seq(Byte) /\ Len(input) \in Nat
    BY InputIs, LenProperties
  <2>2. Len(input) <= Len(dec.input) + BSIZE /\ Len(dec.input) \in Nat /\ Len(dec.input) < BSIZE
    <3>1. Len(input) = Len(dec.input) + (IF dec.inited THEN BSIZE ELSE BSIZE - Len(SIGN))
          /\ Len(dec.input) \in Nat /\ Len(dec.input) < BSIZE
      BY InputIs
    <3> QED BY <3>1, SignRange, BlockSize
  <2> QED BY <2>1, <2>2, BlockSize
<1>6. CASE ~active
  <2>1. d = [inited |-> TRUE, active |-> active, errors |-> dec.errors,
             input |-> dec.input, result |-> dec.result, pages |-> dec.pages \o buf]
    BY <1>3, <1>4, <1>6
  <2>2. /\ d.inited = TRUE /\ d.active = active /\ d.errors = dec.errors
        /\ d.input = dec.input /\ d.result = dec.result /\ d.pages = dec.pages \o buf
    BY <2>1
  <2>3. d.pages \in Seq(Byte) /\ Len(d.pages) % BSIZE = 0
    <3>1. dec.pages \o buf \in Seq(Byte) /\ Len(dec.pages \o buf) = Len(dec.pages) + BSIZE
      <4>1. buf \in Seq(Byte) /\ Len(buf) = BSIZE /\ dec.pages \in Seq(Byte)
        BY <1>1, BlockBytes
      <4> QED BY <4>1, ConcatProperties
    <3>2. Len(dec.pages) \in Nat /\ BSIZE \in Nat
      BY <1>1, LenProperties, BlockSize
    <3>3. BSIZE % BSIZE = 0
      <4>1. BSIZE = 1 * BSIZE /\ 1 \in Nat
        BY BlockSize
      <4> QED BY <3>2, <4>1, Multiple
    <3>4. (Len(dec.pages) + BSIZE) % BSIZE = 0
      BY <1>1, <3>2, <3>3, MorePages
    <3> QED BY <2>2, <3>1, <3>4
  <2>4. d = [inited |-> d.inited, active |-> d.active, errors |-> d.errors,
             input |-> d.input, result |-> d.result, pages |-> d.pages]
    BY <2>1
  <2>5. d \in Decs
    BY <1>1, <1>2, <2>2, <2>3, <2>4, Decoder
  <2> QED BY <1>6, <2>2, <2>5, Zenon DEF active, Taken
<1>7. CASE active /\ Len(input) < BSIZE
  <2>1. d = [inited |-> TRUE, active |-> active, errors |-> dec.errors,
             input |-> input, result |-> dec.result, pages |-> dec.pages]
    BY <1>3, <1>4, <1>7
  <2>2. /\ d.inited = TRUE /\ d.active = active /\ d.errors = dec.errors
        /\ d.input = input /\ d.result = dec.result /\ d.pages = dec.pages
    BY <2>1
  <2>4. d = [inited |-> d.inited, active |-> d.active, errors |-> d.errors,
             input |-> d.input, result |-> d.result, pages |-> d.pages]
    BY <2>1
  <2>5. d \in Decs
    BY <1>1, <1>2, <1>5, <1>7, <2>2, <2>4, Decoder
  <2> QED BY <1>7, <2>2, <2>5, Zenon DEF active, Taken
<1>8. CASE active /\ ~(Len(input) < BSIZE)
  <2> DEFINE rest == SubSeq(input, BSIZE + 1, Len(input))
             head == SubSeq(input, 1, BSIZE)
             err == dec.errors \/ block.error
             m == [begun EXCEPT !.input = rest, !.errors = err]
  <2>1. head \in Seq(Byte) /\ Len(head) = BSIZE /\ rest \in Seq(Byte) /\ Len(rest) < BSIZE
    BY <1>5, <1>8, Cut
  <2>2. block.bytes \in Seq(Byte) /\ block.error \in BOOLEAN
    <3>1. head \in Block
      BY <2>1 DEF Block
    <3> QED BY <3>1, DecodesByTheFormat
  <2>3. d = Emitted(m, block.bytes)
    BY <1>3, <1>8
  <2> HIDE DEF rest
  <2>4. err \in BOOLEAN
    BY <1>1, <2>2
  <2> HIDE DEF err
  <2>5. m = [inited |-> TRUE, active |-> active, errors |-> err,
             input |-> rest, result |-> dec.result, pages |-> dec.pages]
    <3>1. PICK e : e = m
      OBVIOUS
    <3>2. e = [inited |-> TRUE, active |-> active, errors |-> err,
               input |-> rest, result |-> dec.result, pages |-> dec.pages]
      BY <1>4, <3>1
    <3> QED BY <3>1, <3>2
  <2> HIDE DEF m
  <2>6. /\ m.inited = TRUE /\ m.active = active /\ m.errors = err
        /\ m.input = rest /\ m.result = dec.result /\ m.pages = dec.pages
        /\ m = [inited |-> m.inited, active |-> m.active, errors |-> m.errors,
                input |-> m.input, result |-> m.result, pages |-> m.pages]
    BY <2>5
  <2>7. m \in Decs
    BY <1>1, <1>2, <2>1, <2>4, <2>6, Decoder
  <2>8. /\ d \in Decs /\ d.inited = m.inited /\ d.active = m.active /\ d.errors = m.errors
        /\ d.input = m.input
        /\ d.pages \o d.result = (m.pages \o m.result) \o block.bytes
    <3> HIDE DEF head
    <3> DEFINE bytes == block.bytes
    <3>1. bytes \in Seq(Byte) /\ d = Emitted(m, bytes)
      BY <2>2, <2>3
    <3> HIDE DEF bytes
    <3>2. /\ d \in Decs /\ d.inited = m.inited /\ d.active = m.active /\ d.errors = m.errors
          /\ d.input = m.input /\ d.pages \o d.result = (m.pages \o m.result) \o bytes
      BY <2>7, <3>1, EmittedIs, Zenon
    <3> QED BY <3>2 DEF bytes
  <2> QED BY <1>8, <2>6, <2>8, Zenon DEF active, rest, err, Taken
<1> QED BY <1>6, <1>7, <1>8

\* The n-th block behind the signature, from 0.
BlockOf(bin, n) == SubSeq(bin, Len(SIGN) + n * BSIZE + 1, Len(SIGN) + n * BSIZE + BSIZE)

\* Two windows of BSIZE bytes are equal if their bytes are.
LEMMA Window ==
  ASSUME NEW s \in Seq(Byte), NEW o \in Nat, o + BSIZE <= Len(s),
         NEW w \in Seq(Byte), Len(w) = BSIZE, \A i \in 1 .. BSIZE : s[o + i] = w[i]
  PROVE  SubSeq(s, o + 1, o + BSIZE) = w
<1> DEFINE part == SubSeq(s, o + 1, o + BSIZE)
<1>1. o + 1 \in Int /\ o + BSIZE \in Int /\ (o + BSIZE) - (o + 1) + 1 = BSIZE /\ o + 1 <= o + BSIZE
  BY BlockSize
<1>2. \A i \in (o + 1) .. (o + BSIZE) : s[i] \in Byte
  <2>1. Len(s) \in Nat
    BY LenProperties
  <2>2. \A i \in (o + 1) .. (o + BSIZE) : i \in 1 .. Len(s)
    BY <2>1, BlockSize
  <2> QED BY <2>2, ElementOfSeq
<1>3. /\ part \in Seq(Byte) /\ Len(part) = BSIZE
      /\ \A i \in 1 .. BSIZE : part[i] = s[(o + 1) + i - 1]
  BY <1>1, <1>2, SubSeqProperties
<1> HIDE DEF part
<1>4. \A i \in 1 .. BSIZE : part[i] = w[i]
  <2>1. \A i \in 1 .. BSIZE : (o + 1) + i - 1 = o + i
    BY BlockSize
  <2> QED BY <1>3, <2>1
<1>5. part = w
  BY <1>3, <1>4, SeqEqual
<1> QED BY <1>5 DEF part

\* The m-th page of q, from 0.
PageOf(q, m) == SubSeq(q, m * BSIZE + 1, m * BSIZE + BSIZE)

\* A window is a block.
LEMMA WindowIs ==
  ASSUME NEW q \in Seq(Byte), NEW o \in Nat, o + BSIZE <= Len(q)
  PROVE  /\ SubSeq(q, o + 1, o + BSIZE) \in Block
         /\ \A i \in 1 .. BSIZE : SubSeq(q, o + 1, o + BSIZE)[i] = q[o + i]
<1> DEFINE part == SubSeq(q, o + 1, o + BSIZE)
<1>1. /\ o + 1 \in Int /\ o + BSIZE \in Int /\ o + 1 <= o + BSIZE
      /\ (o + BSIZE) - (o + 1) + 1 = BSIZE
  BY BlockSize
<1>2. \A i \in (o + 1) .. (o + BSIZE) : q[i] \in Byte
  <2>1. Len(q) \in Nat
    BY LenProperties
  <2>2. \A i \in (o + 1) .. (o + BSIZE) : i \in 1 .. Len(q)
    BY <2>1, BlockSize
  <2> QED BY <2>2, ElementOfSeq
<1>3. /\ part \in Seq(Byte) /\ Len(part) = BSIZE
      /\ \A i \in 1 .. BSIZE : part[i] = q[(o + 1) + i - 1]
  BY <1>1, <1>2, SubSeqProperties
<1> HIDE DEF part
<1>4. \A i \in 1 .. BSIZE : (o + 1) + i - 1 = o + i
  BY BlockSize
<1> QED BY <1>3, <1>4 DEF part, Block

\* The bytes of s are those of q behind the first o.
Lies(s, q, o) == \A i \in 1 .. Len(s) : s[i] = q[o + i]

\* Two sequences of one size that lie in the same place are the same.
LEMMA LieAlike ==
  ASSUME NEW s \in Seq(Byte), NEW t \in Seq(Byte), Len(s) = Len(t), NEW q, NEW o,
         Lies(s, q, o), Lies(t, q, o)
  PROVE  s = t
BY SeqEqual DEF Lies

\* What lies side by side lies there as one.
LEMMA LieAdjacent ==
  ASSUME NEW s \in Seq(Byte), NEW t \in Seq(Byte), NEW q, NEW o \in Nat,
         Lies(s, q, o), Lies(t, q, o + Len(s))
  PROVE  /\ s \o t \in Seq(Byte) /\ Len(s \o t) = Len(s) + Len(t)
         /\ Lies(s \o t, q, o)
<1>1. /\ s \o t \in Seq(Byte) /\ Len(s \o t) = Len(s) + Len(t)
      /\ \A i \in 1 .. Len(s) : (s \o t)[i] = s[i]
      /\ \A i \in 1 .. Len(t) : (s \o t)[Len(s) + i] = t[i]
      /\ Len(s) \in Nat /\ Len(t) \in Nat
  BY Joined, LenProperties
<1> SUFFICES ASSUME NEW i \in 1 .. Len(s \o t) PROVE (s \o t)[i] = q[o + i]
  BY <1>1 DEF Lies
<1>2. CASE i <= Len(s)
  <2>1. i \in 1 .. Len(s)
    BY <1>1, <1>2
  <2> QED BY <1>1, <2>1 DEF Lies
<1>3. CASE ~(i <= Len(s))
  <2> DEFINE j == i - Len(s)
  <2>1. j \in 1 .. Len(t) /\ Len(s) + j = i /\ (o + Len(s)) + j = o + i
    BY <1>1, <1>3
  <2>2. t[j] = q[(o + Len(s)) + j]
    BY <2>1 DEF Lies
  <2> HIDE DEF j
  <2>3. (s \o t)[Len(s) + j] = t[j]
    BY <1>1, <2>1
  <2> QED BY <2>1, <2>2, <2>3
<1> QED BY <1>2, <1>3

\* The parts of what lies in a place.
LEMMA LiePart ==
  ASSUME NEW s \in Seq(Byte), NEW q, NEW o \in Nat, Lies(s, q, o), NEW k \in 0 .. Len(s)
  PROVE  /\ Lies(SubSeq(s, 1, k), q, o)
         /\ Lies(SubSeq(s, k + 1, Len(s)), q, o + k)
<1>1. /\ Len(s) \in Nat /\ Len(SubSeq(s, 1, k)) = k
      /\ Len(SubSeq(s, k + 1, Len(s))) = Len(s) - k /\ \A i \in 1 .. Len(s) : s[i] \in Byte
  BY LenProperties, Cut, ElementOfSeq
<1>2. ASSUME NEW i \in 1 .. k PROVE SubSeq(s, 1, k)[i] = q[o + i]
  <2>1. SubSeq(s, 1, k)[i] = s[(1 + i) - 1]
    <3>1. \A j \in 1 .. k : s[j] \in Byte
      BY <1>1
    <3>2. 1 \in Int /\ k \in Int /\ i \in 1 .. ((k - 1) + 1)
      BY <1>1
    <3> QED BY <3>1, <3>2, SubSeqProperties
  <2>2. (1 + i) - 1 = i /\ i \in 1 .. Len(s)
    BY <1>1
  <2> QED BY <2>1, <2>2 DEF Lies
<1>3. ASSUME NEW i \in 1 .. (Len(s) - k) PROVE SubSeq(s, k + 1, Len(s))[i] = q[(o + k) + i]
  <2>1. SubSeq(s, k + 1, Len(s))[i] = s[((k + 1) + i) - 1]
    <3>1. \A j \in (k + 1) .. Len(s) : s[j] \in Byte
      BY <1>1
    <3>2. k + 1 \in Int /\ Len(s) \in Int /\ i \in 1 .. ((Len(s) - (k + 1)) + 1)
      BY <1>1
    <3> QED BY <3>1, <3>2, SubSeqProperties
  <2>2. ((k + 1) + i) - 1 = k + i /\ k + i \in 1 .. Len(s) /\ (o + k) + i = o + (k + i)
    BY <1>1
  <2> QED BY <2>1, <2>2 DEF Lies
<1> QED BY <1>1, <1>2, <1>3 DEF Lies

\* c is what the first blocks of q come out as, one after the other.
Outputs(c, q, shift, n) ==
  /\ c[0] = <<>> /\ \A i \in 0 .. n : c[i] \in Seq(Byte)
  /\ \A i \in 1 .. n : c[i] = c[i - 1] \o DecodedBlock(BlockOf(q, i - 1), shift).bytes
Output(q, shift, n) == CHOOSE c : Outputs(c, q, shift, n)

\* A signature and n blocks, in n + 1 pages.
Holds(q, n) == q \in Seq(Byte) /\ n \in Nat /\ Len(q) = (n + 1) * BSIZE

\* A block of the stream.
LEMMA BlocksLie ==
  ASSUME NEW q, NEW n, Holds(q, n), NEW i \in 0 .. (n - 1)
  PROVE  /\ BlockOf(q, i) \in Block /\ Lies(BlockOf(q, i), q, Len(SIGN) + i * BSIZE)
         /\ Len(SIGN) + i * BSIZE \in Nat
<1> DEFINE o == Len(SIGN) + i * BSIZE
<1>1. o \in Nat /\ o + BSIZE <= Len(q)
  <2>1. /\ i + 2 <= n + 1 /\ i * BSIZE \in Nat /\ (i + 2) * BSIZE = i * BSIZE + 2 * BSIZE
        /\ (i + 2) * BSIZE <= (n + 1) * BSIZE
    BY BlockSize, SMTT(30) DEF Holds
  <2>2. (n + 1) * BSIZE \in Nat
    BY BlockSize DEF Holds
  <2> QED BY <2>1, <2>2, SignRange, BlockSize DEF Holds
<1> HIDE DEF o
<1>2. /\ SubSeq(q, o + 1, o + BSIZE) \in Block
      /\ \A j \in 1 .. BSIZE : SubSeq(q, o + 1, o + BSIZE)[j] = q[o + j]
  BY <1>1, WindowIs DEF Holds
<1>3. BlockOf(q, i) = SubSeq(q, o + 1, o + BSIZE)
  BY DEF BlockOf, o
<1> QED BY <1>1, <1>2, <1>3, BlockBytes DEF Lies, o

\* A page of the stream.
LEMMA PagesLie ==
  ASSUME NEW q, NEW n, Holds(q, n), NEW m \in 0 .. n
  PROVE  PageOf(q, m) \in Block /\ Lies(PageOf(q, m), q, m * BSIZE) /\ m * BSIZE \in Nat
<1> DEFINE o == m * BSIZE
<1>1. o \in Nat /\ o + BSIZE <= Len(q)
  <2>1. m * BSIZE \in Nat /\ (m + 1) * BSIZE = m * BSIZE + BSIZE /\ (m + 1) * BSIZE <= (n + 1) * BSIZE
    BY BlockSize, SMTT(30) DEF Holds
  <2> QED BY <2>1 DEF Holds
<1> HIDE DEF o
<1>2. /\ SubSeq(q, o + 1, o + BSIZE) \in Block
      /\ \A j \in 1 .. BSIZE : SubSeq(q, o + 1, o + BSIZE)[j] = q[o + j]
  BY <1>1, WindowIs DEF Holds
<1>3. PageOf(q, m) = SubSeq(q, o + 1, o + BSIZE)
  BY DEF PageOf, o
<1> QED BY <1>1, <1>2, <1>3, BlockBytes DEF Lies, o

\* There is such an output.
LEMMA OutputIs ==
  ASSUME NEW q, NEW n, Holds(q, n), NEW shift \in BOOLEAN
  PROVE  Outputs(Output(q, shift, n), q, shift, n)
<1> DEFINE part(i) == DecodedBlock(BlockOf(q, i - 1), shift).bytes
           S == Seq(Byte)
           G == [i \in 1 .. n |-> [s \in S |-> s \o part(i)]]
<1>1. n \in Nat /\ <<>> \in S
  BY DEF Holds
<1>2. \A i \in 1 .. n : part(i) \in S
  <2> SUFFICES ASSUME NEW i \in 1 .. n PROVE part(i) \in S
    OBVIOUS
  <2>1. i - 1 \in 0 .. (n - 1)
    BY <1>1
  <2>2. BlockOf(q, i - 1) \in Block
    BY <2>1, BlocksLie
  <2> QED BY <2>2, DecodesByTheFormat
<1> HIDE DEF part
<1>3. G \in [1 .. n -> [S -> S]]
  <2>1. \A i \in 1 .. n : \A s \in S : s \o part(i) \in S
    BY <1>2, ConcatProperties
  <2> HIDE DEF S
  <2> QED BY <2>1
<1>4. PICK c \in [0 .. n -> S] : TakesSteps(c, <<>>, G, n)
  <2> HIDE DEF S, G
  <2> QED BY <1>1, <1>3, Recursion
<1>5. \A i \in 1 .. n : c[i] = c[i - 1] \o part(i)
  <2> SUFFICES ASSUME NEW i \in 1 .. n PROVE c[i] = c[i - 1] \o part(i)
    OBVIOUS
  <2>1. i - 1 \in 0 .. n
    BY <1>1
  <2>2. c[i - 1] \in S
    BY <2>1
  <2>3. G[i][c[i - 1]] = c[i - 1] \o part(i)
    <3> HIDE DEF S
    <3> QED BY <2>2
  <2>4. c[i] = G[i][c[i - 1]]
    <3> HIDE DEF G
    <3> QED BY <1>4 DEF TakesSteps
  <2> QED BY <2>3, <2>4
<1>6. c[0] = <<>>
  <2> HIDE DEF G
  <2> QED BY <1>4 DEF TakesSteps
<1>7. Outputs(c, q, shift, n)
  <2>1. \A i \in 0 .. n : c[i] \in Seq(Byte)
    OBVIOUS
  <2> QED BY <1>5, <1>6, <2>1, Zenon DEF Outputs, part
<1> QED BY <1>7, Zenon DEF Output

\* What the decoder has taken in and given out behind k blocks of q.
Streamed(dec, q, k, shift, n) ==
  /\ dec \in Decs /\ dec.inited /\ (dec.active <=> HasSign(q))
  /\ dec.active =>
       /\ Len(dec.input) = BSIZE - Len(SIGN) /\ Lies(dec.input, q, Len(SIGN) + k * BSIZE)
       /\ dec.errors <=> \E i \in 0 .. (k - 1) : DecodedBlock(BlockOf(q, i), shift).error
       /\ dec.pages \o dec.result = Output(q, shift, n)[k]

\* The decoder in front of the first page.
LEMMA ResetIs ==
  bin2page_reset \in Decs /\ ~bin2page_reset.inited /\ ~bin2page_reset.errors
    /\ bin2page_reset.input = <<>> /\ bin2page_reset.result = <<>> /\ bin2page_reset.pages = <<>>
<1>1. <<>> \in Seq(Byte) /\ Len(<<>>) = 0
  OBVIOUS
<1>2. Len(<<>>) < BSIZE /\ Len(<<>>) % BSIZE = 0
  <2>1. 0 % BSIZE = 0
    <3>1. 0 = 0 * BSIZE
      BY BlockSize
    <3>2. 0 \in Nat
      OBVIOUS
    <3> QED BY <3>1, <3>2, Multiple
  <2> QED BY <1>1, <2>1, BlockSize
<1> QED BY <1>1, <1>2 DEF bin2page_reset, Decs

\* The first page shows the signature of the file.
LEMMA SignOfPage ==
  ASSUME NEW q, NEW n, Holds(q, n)
  PROVE  HasSign(PageOf(q, 0)) <=> HasSign(q)
<1> DEFINE l == Len(SIGN)
           p == PageOf(q, 0)
<1>1. p \in Block /\ Lies(p, q, 0 * BSIZE)
  <2>1. 0 \in 0 .. n
    BY DEF Holds
  <2> QED BY <2>1, PagesLie
<1>2. 0 * BSIZE = 0 /\ p \in Seq(Byte) /\ Len(p) = BSIZE
  BY <1>1, BlockBytes, BlockSize
<1>3. l \in 0 .. Len(p) /\ l \in 0 .. Len(q) /\ q \in Seq(Byte)
  <2>1. (n + 1) * BSIZE >= BSIZE
    <3>1. (n + 1) * BSIZE = n * BSIZE + BSIZE /\ n * BSIZE \in Nat
      BY BlockSize DEF Holds
    <3> QED BY <3>1, BlockSize
  <2>2. (n + 1) * BSIZE \in Nat
    BY BlockSize DEF Holds
  <2> QED BY <1>2, <2>1, <2>2, SignRange, BlockSize DEF Holds
<1> HIDE DEF p
<1>4. Lies(q, q, 0) /\ Lies(p, q, 0)
  <2>1. \A i \in 1 .. Len(q) : q[i] = q[0 + i]
    OBVIOUS
  <2> QED BY <1>1, <1>2, <2>1 DEF Lies
<1>5. /\ SubSeq(p, 1, l) \in Seq(Byte) /\ Len(SubSeq(p, 1, l)) = l /\ Lies(SubSeq(p, 1, l), q, 0)
      /\ SubSeq(q, 1, l) \in Seq(Byte) /\ Len(SubSeq(q, 1, l)) = l /\ Lies(SubSeq(q, 1, l), q, 0)
  <2> HIDE DEF l
  <2>1. 0 \in Nat
    OBVIOUS
  <2> QED BY <1>2, <1>3, <1>4, <2>1, Cut, LiePart
<1>6. SubSeq(p, 1, l) = SubSeq(q, 1, l)
  BY <1>5, LieAlike
<1> QED BY <1>6 DEF HasSign, p

\* The first page: the signature, and the beginning of the first block.
LEMMA FirstPage ==
  ASSUME NEW q, NEW n, Holds(q, n), NEW shift \in BOOLEAN
  PROVE  Streamed(bin2page_decode(bin2page_reset, PageOf(q, 0), shift), q, 0, shift, n)
<1> DEFINE page == PageOf(q, 0)
           dec == bin2page_reset
           d == bin2page_decode(dec, page, shift)
           input == InputWith(dec, page)
           block == DecodedBlock(SubSeq(input, 1, BSIZE), shift)
           l == Len(SIGN)
<1>1. page \in Block /\ Lies(page, q, 0 * BSIZE)
  <2>1. 0 \in 0 .. n
    BY DEF Holds
  <2> QED BY <2>1, PagesLie
<1>2. /\ dec \in Decs /\ ~dec.inited /\ ~dec.errors
      /\ dec.input = <<>> /\ dec.result = <<>> /\ dec.pages = <<>>
  BY ResetIs
<1>3. HasSign(page) <=> HasSign(q)
  BY SignOfPage
<1> HIDE DEF page, dec
<1>4. /\ d \in Decs /\ d.inited /\ (d.active <=> ActiveWith(dec, page))
      /\ d.active /\ Len(input) < BSIZE =>
              /\ d.input = input /\ d.errors = dec.errors
              /\ d.result = dec.result /\ d.pages = dec.pages
  <2> HIDE DEF d, input, block
  <2>1. d = bin2page_decode(dec, page, shift) /\ input = InputWith(dec, page)
        /\ block = DecodedBlock(SubSeq(input, 1, BSIZE), shift)
    BY DEF d, input, block
  <2>2. Taken(d, dec, page, input, block)
    BY <1>1, <1>2, <2>1, DecodeIs
  <2> QED BY <2>2, Zenon DEF Taken
<1>5. d.active <=> HasSign(q)
  BY <1>2, <1>3, <1>4 DEF ActiveWith
<1>6. Len(input) = BSIZE - l /\ Len(input) < BSIZE /\ Lies(input, q, l)
  <2>1. input = <<>> \o SubSeq(page, l + 1, BSIZE)
    BY <1>2 DEF InputWith
  <2>2. page \in Seq(Byte) /\ Len(page) = BSIZE /\ l \in 0 .. Len(page) /\ l \in Nat /\ l > 0
    BY <1>1, BlockBytes, SignRange, BlockSize
  <2>3. Lies(page, q, 0)
    <3>1. 0 * BSIZE = 0
      BY BlockSize
    <3> QED BY <1>1, <3>1
  <2>4. /\ SubSeq(page, l + 1, Len(page)) \in Seq(Byte)
        /\ Len(SubSeq(page, l + 1, Len(page))) = Len(page) - l
        /\ Lies(SubSeq(page, l + 1, Len(page)), q, 0 + l)
    <3> HIDE DEF l
    <3>1. 0 \in Nat
      OBVIOUS
    <3> QED BY <2>2, <2>3, <3>1, Cut, LiePart
  <2>5. input = SubSeq(page, l + 1, Len(page))
    <3>1. <<>> \o SubSeq(page, l + 1, Len(page)) = SubSeq(page, l + 1, Len(page))
      BY <2>4, ConcatEmptySeq
    <3> QED BY <2>1, <2>2, <3>1
  <2>6. Len(input) = BSIZE - l
    BY <2>2, <2>4, <2>5
  <2>7. 0 + l = l /\ BSIZE - l < BSIZE
    BY <2>2, BlockSize
  <2> HIDE DEF input, l
  <2> QED BY <2>4, <2>5, <2>6, <2>7
<1>7. Output(q, shift, n)[0] = <<>>
  <2>1. Outputs(Output(q, shift, n), q, shift, n)
    BY OutputIs
  <2> QED BY <2>1 DEF Outputs
<1>8. <<>> \o <<>> = <<>>
  OBVIOUS
<1>9. l + 0 * BSIZE = l
  BY SignRange, BlockSize
<1> HIDE DEF d, input
<1>10. ASSUME d.active
       PROVE  /\ Len(d.input) = BSIZE - Len(SIGN) /\ Lies(d.input, q, Len(SIGN) + 0 * BSIZE)
              /\ d.errors <=> \E i \in 0 .. (0 - 1) : DecodedBlock(BlockOf(q, i), shift).error
              /\ d.pages \o d.result = Output(q, shift, n)[0]
  <2>1. d.input = input /\ d.errors = dec.errors /\ d.result = <<>> /\ d.pages = <<>>
    BY <1>2, <1>4, <1>6, <1>10
  <2>2. ~d.errors
    BY <1>2, <2>1
  <2> QED BY <1>6, <1>7, <1>8, <1>9, <2>1, <2>2
<1>11. Streamed(d, q, 0, shift, n)
  BY <1>4, <1>5, <1>10 DEF Streamed
<1> QED BY <1>11 DEF d, page, dec

\* A page behind it: the rest of the k-th block, and the beginning of the next.
LEMMA NextPage ==
  ASSUME NEW q, NEW n, Holds(q, n), NEW shift \in BOOLEAN, NEW k \in 0 .. (n - 1),
         NEW dec, Streamed(dec, q, k, shift, n)
  PROVE  Streamed(bin2page_decode(dec, PageOf(q, k + 1), shift), q, k + 1, shift, n)
<1> DEFINE page == PageOf(q, k + 1)
           d == bin2page_decode(dec, page, shift)
           input == InputWith(dec, page)
           block == DecodedBlock(SubSeq(input, 1, BSIZE), shift)
           l == Len(SIGN)
           o == l + k * BSIZE
<1>1. page \in Block /\ Lies(page, q, (k + 1) * BSIZE)
  <2>1. k + 1 \in 0 .. n
    BY DEF Holds
  <2> QED BY <2>1, PagesLie
<1>2. dec \in Decs /\ dec.inited /\ (dec.active <=> HasSign(q))
  BY DEF Streamed
<1> HIDE DEF page
<1>3. /\ d \in Decs /\ d.inited /\ (d.active <=> ActiveWith(dec, page))
      /\ d.active /\ ~(Len(input) < BSIZE) =>
              /\ d.input = SubSeq(input, BSIZE + 1, Len(input))
              /\ d.errors <=> dec.errors \/ block.error
              /\ d.pages \o d.result = (dec.pages \o dec.result) \o block.bytes
  <2> HIDE DEF d, input, block
  <2>1. d = bin2page_decode(dec, page, shift) /\ input = InputWith(dec, page)
        /\ block = DecodedBlock(SubSeq(input, 1, BSIZE), shift)
    BY DEF d, input, block
  <2>2. Taken(d, dec, page, input, block)
    BY <1>1, <1>2, <2>1, DecodeIs
  <2> QED BY <2>2, Zenon DEF Taken
<1>4. d.active <=> HasSign(q)
  BY <1>2, <1>3 DEF ActiveWith
<1> HIDE DEF d
<1>5. ASSUME d.active
      PROVE  /\ Len(d.input) = BSIZE - l /\ Lies(d.input, q, l + (k + 1) * BSIZE)
             /\ d.errors <=>
                  \E i \in 0 .. ((k + 1) - 1) : DecodedBlock(BlockOf(q, i), shift).error
             /\ d.pages \o d.result = Output(q, shift, n)[k + 1]
  <2>1. /\ Len(dec.input) = BSIZE - l /\ Lies(dec.input, q, o)
        /\ dec.errors <=> \E i \in 0 .. (k - 1) : DecodedBlock(BlockOf(q, i), shift).error
        /\ dec.pages \o dec.result = Output(q, shift, n)[k]
    BY <1>2, <1>4, <1>5 DEF Streamed
  <2>2. o \in Nat /\ o + Len(dec.input) = (k + 1) * BSIZE /\ l \in Nat /\ l < BSIZE
        /\ o + BSIZE = l + (k + 1) * BSIZE
    <3>1. k * BSIZE \in Nat /\ (k + 1) * BSIZE = k * BSIZE + BSIZE
      BY BlockSize
    <3> QED BY <2>1, <3>1, SignRange, BlockSize
  <2> HIDE DEF o
  <2>3. input = dec.input \o page
    BY <1>2 DEF InputWith
  <2>4. page \in Seq(Byte) /\ Len(page) = BSIZE /\ dec.input \in Seq(Byte)
    BY <1>1, <1>2, BlockBytes, Decoder
  <2>5. Lies(page, q, o + Len(dec.input))
    BY <1>1, <2>2
  <2>6. input \in Seq(Byte) /\ Len(input) = (BSIZE - l) + BSIZE /\ Lies(input, q, o)
    <3> DEFINE held == dec.input
    <3>1. held \in Seq(Byte) /\ Lies(held, q, o) /\ Lies(page, q, o + Len(held))
      BY <2>1, <2>4, <2>5
    <3> HIDE DEF held
    <3>2. /\ held \o page \in Seq(Byte) /\ Len(held \o page) = Len(held) + Len(page)
          /\ Lies(held \o page, q, o)
      BY <2>2, <2>4, <3>1, LieAdjacent
    <3> QED BY <2>1, <2>3, <2>4, <3>2 DEF held
  <2> HIDE DEF input
  <2>7. ~(Len(input) < BSIZE) /\ BSIZE \in 0 .. Len(input) /\ Len(input) - BSIZE = BSIZE - l
    BY <2>2, <2>6, BlockSize
  <2>8. /\ SubSeq(input, 1, BSIZE) \in Seq(Byte) /\ Len(SubSeq(input, 1, BSIZE)) = BSIZE
        /\ Lies(SubSeq(input, 1, BSIZE), q, o)
        /\ Len(SubSeq(input, BSIZE + 1, Len(input))) = BSIZE - l
        /\ Lies(SubSeq(input, BSIZE + 1, Len(input)), q, o + BSIZE)
    BY <2>2, <2>6, <2>7, Cut, LiePart
  <2>9. SubSeq(input, 1, BSIZE) = BlockOf(q, k)
    <3>1. BlockOf(q, k) \in Seq(Byte) /\ Len(BlockOf(q, k)) = BSIZE /\ Lies(BlockOf(q, k), q, o)
      BY BlocksLie, BlockBytes DEF o
    <3> QED BY <2>8, <3>1, LieAlike
  <2>10. block = DecodedBlock(BlockOf(q, k), shift)
    BY <2>9
  <2> HIDE DEF block
  <2>11. /\ d.input = SubSeq(input, BSIZE + 1, Len(input))
         /\ d.errors <=> dec.errors \/ block.error
         /\ d.pages \o d.result = (dec.pages \o dec.result) \o block.bytes
    BY <1>3, <1>5, <2>7
  <2>12. d.errors <=> \E i \in 0 .. ((k + 1) - 1) : DecodedBlock(BlockOf(q, i), shift).error
    <3>1. (k + 1) - 1 = k /\ \A i \in 0 .. k : i \in 0 .. (k - 1) \/ i = k
      OBVIOUS
    <3>2. k \in 0 .. k /\ \A i \in 0 .. (k - 1) : i \in 0 .. k
      OBVIOUS
    <3>3. d.errors <=> (\E i \in 0 .. (k - 1) : DecodedBlock(BlockOf(q, i), shift).error)
                       \/ DecodedBlock(BlockOf(q, k), shift).error
      BY <2>1, <2>10, <2>11, Zenon
    <3>4. (\E i \in 0 .. k : DecodedBlock(BlockOf(q, i), shift).error)
            <=> (\E i \in 0 .. (k - 1) : DecodedBlock(BlockOf(q, i), shift).error)
                \/ DecodedBlock(BlockOf(q, k), shift).error
      BY <3>1, <3>2, Zenon
    <3> QED BY <3>1, <3>3, <3>4, Zenon
  <2>13. Output(q, shift, n)[k + 1] = Output(q, shift, n)[k] \o block.bytes
    <3>1. k + 1 \in 1 .. n /\ (k + 1) - 1 = k
      BY DEF Holds
    <3>2. Outputs(Output(q, shift, n), q, shift, n)
      BY OutputIs
    <3> QED BY <2>10, <3>1, <3>2 DEF Outputs
  <2>14. Lies(d.input, q, l + (k + 1) * BSIZE)
    BY <2>2, <2>8, <2>11
  <2> QED BY <2>1, <2>8, <2>11, <2>12, <2>13, <2>14
<1>6. Streamed(d, q, k + 1, shift, n)
  BY <1>3, <1>4, <1>5, Zenon DEF Streamed
<1> QED BY <1>6 DEF d, page

\* dec has been given the first m pages of q.
After(dec, q, m, shift, n) ==
  IF m = 0 THEN dec = bin2page_reset ELSE Streamed(dec, q, m - 1, shift, n)

\* Behind any number of pages it is a decoder's state.
LEMMA AfterTypes ==
  ASSUME NEW dec, NEW q, NEW m, NEW shift, NEW n, After(dec, q, m, shift, n)
  PROVE  dec \in Decs
BY ResetIs DEF After, Streamed

\* One page more.
LEMMA OnePage ==
  ASSUME NEW q, NEW n, Holds(q, n), NEW shift \in BOOLEAN, NEW m \in 0 .. n,
         NEW dec, After(dec, q, m, shift, n)
  PROVE  After(bin2page_decode(dec, PageOf(q, m), shift), q, m + 1, shift, n)
<1>1. CASE m = 0
  <2>1. dec = bin2page_reset /\ m + 1 # 0 /\ (m + 1) - 1 = 0
    BY <1>1 DEF After
  <2>2. Streamed(bin2page_decode(bin2page_reset, PageOf(q, 0), shift), q, 0, shift, n)
    BY FirstPage
  <2> QED BY <1>1, <2>1, <2>2 DEF After
<1>2. CASE m # 0
  <2> DEFINE k == m - 1
  <2>1. k \in 0 .. (n - 1) /\ k + 1 = m /\ m + 1 # 0 /\ (m + 1) - 1 = k + 1
    BY <1>2 DEF Holds
  <2>2. Streamed(dec, q, k, shift, n)
    BY <1>2 DEF After
  <2> HIDE DEF k
  <2>3. Streamed(bin2page_decode(dec, PageOf(q, k + 1), shift), q, k + 1, shift, n)
    BY <2>1, <2>2, NextPage
  <2> QED BY <2>1, <2>3 DEF After
<1> QED BY <1>1, <1>2

\* The pages of a packet, from 1.
PagesIn(data) == (Len(data) + BSIZE - 1) \div BSIZE
PageIn(data, i) ==
  Padded(SubSeq(data, (i - 1) * BSIZE + 1, IF i * BSIZE <= Len(data) THEN i * BSIZE ELSE Len(data)))

\* The pages of the packet are the next p of q.
Carries(data, q, m, p, n) ==
  /\ p = PagesIn(data) /\ p \in Nat /\ m \in Nat /\ m + p <= n + 1
  /\ \A i \in 1 .. p : PageIn(data, i) = PageOf(q, m + i - 1)

\* All pages of a packet, one after the other.
LEMMA PacketIs ==
  ASSUME NEW q, NEW n, Holds(q, n), NEW shift \in BOOLEAN, NEW data, NEW m, NEW p,
         Carries(data, q, m, p, n), NEW dec, After(dec, q, m, shift, n)
  PROVE  After(DecodedPages(dec, data, shift), q, m + p, shift, n)
<1> DEFINE G == [i \in 1 .. p |-> [d \in Decs |-> bin2page_decode(d, PageIn(data, i), shift)]]
<1>1. /\ p = PagesIn(data) /\ p \in Nat /\ m \in Nat /\ m + p <= n + 1 /\ n \in Nat
      /\ \A i \in 1 .. p : PageIn(data, i) = PageOf(q, m + i - 1)
  BY DEF Carries, Holds
<1>2. \A i \in 1 .. p : m + i - 1 \in 0 .. n /\ m + (i - 1) = m + i - 1 /\ (m + i - 1) + 1 = m + i
  BY <1>1
<1>3. \A i \in 1 .. p : PageIn(data, i) \in Block
  BY <1>1, <1>2, PagesLie
<1>4. G \in [1 .. p -> [Decs -> Decs]]
  <2>1. ASSUME NEW i \in 1 .. p, NEW d \in Decs PROVE bin2page_decode(d, PageIn(data, i), shift) \in Decs
    <3> DEFINE page == PageIn(data, i)
               input == InputWith(d, page)
               block == DecodedBlock(SubSeq(input, 1, BSIZE), shift)
               e == bin2page_decode(d, page, shift)
    <3>1. page \in Block
      BY <1>3
    <3>2. /\ e = bin2page_decode(d, page, shift) /\ input = InputWith(d, page)
          /\ block = DecodedBlock(SubSeq(input, 1, BSIZE), shift)
      OBVIOUS
    <3> HIDE DEF page, input, block, e
    <3>3. Taken(e, d, page, input, block)
      BY <3>1, <3>2, DecodeIs
    <3> QED BY <3>3 DEF Taken, e, page
  <2> QED BY <2>1
<1>5. dec \in Decs
  BY AfterTypes
<1>6. PICK f \in [0 .. p -> Decs] : TakesSteps(f, dec, G, p)
  <2> HIDE DEF G
  <2> QED BY <1>1, <1>4, <1>5, Recursion
<1>7. f[0] = dec
  <2> HIDE DEF G
  <2> QED BY <1>6 DEF TakesSteps
<1>8. \A i \in 1 .. p : f[i] = bin2page_decode(f[i - 1], PageIn(data, i), shift)
  <2> SUFFICES ASSUME NEW i \in 1 .. p
               PROVE  f[i] = bin2page_decode(f[i - 1], PageIn(data, i), shift)
    OBVIOUS
  <2>1. i - 1 \in 0 .. p
    BY <1>1
  <2>2. f[i - 1] \in Decs
    BY <2>1
  <2>3. G[i][f[i - 1]] = bin2page_decode(f[i - 1], PageIn(data, i), shift)
    BY <2>2
  <2>4. f[i] = G[i][f[i - 1]]
    <3> HIDE DEF G
    <3> QED BY <1>6 DEF TakesSteps
  <2> QED BY <2>3, <2>4
<1> HIDE DEF G
<1>9. DecodedPages(dec, data, shift) = f[p]
  <2> DEFINE P(g) == g = [i \in 0 .. p |->
                            IF i = 0 THEN dec
                            ELSE bin2page_decode(g[i - 1], PageIn(data, i), shift)]
             after == CHOOSE g : P(g)
  <2>1. P(f)
    <3>1. f = [i \in 0 .. p |-> f[i]]
      OBVIOUS
    <3>2. ASSUME NEW i \in 0 .. p
          PROVE  f[i] = IF i = 0 THEN dec ELSE bin2page_decode(f[i - 1], PageIn(data, i), shift)
      <4>1. CASE i = 0
        BY <1>7, <4>1
      <4>2. CASE i # 0
        <5>1. i \in 1 .. p
          BY <1>1, <4>2
        <5> QED BY <1>8, <4>2, <5>1, Zenon
      <4> QED BY <4>1, <4>2
    <3> QED BY <3>1, <3>2, Zenon
  <2>2. P(after)
    <3> HIDE DEF P
    <3> QED BY <2>1, Zenon
  <2>3. DecodedPages(dec, data, shift) = after[p]
    BY <1>1, Zenon DEF DecodedPages, PagesIn, PageIn
  <2> HIDE DEF after
  <2>4. after[0] = f[0]
    <3>1. 0 \in 0 .. p
      BY <1>1
    <3> QED BY <1>7, <2>2, <3>1, Zenon
  <2>5. ASSUME NEW i \in 1 .. p, f[i - 1] = after[i - 1] PROVE f[i] = after[i]
    <3>1. i \in 0 .. p /\ i # 0
      BY <1>1
    <3>2. after[i] = bin2page_decode(after[i - 1], PageIn(data, i), shift)
      BY <2>2, <3>1, Zenon
    <3> QED BY <1>8, <2>5, <3>2, Zenon
  <2>6. GoAlike(f, after, p)
    <3> HIDE DEF P
    <3> QED BY <2>4, <2>5 DEF GoAlike
  <2>7. f[p] = after[p]
    <3> HIDE DEF P
    <3> QED BY <1>1, <2>6, SameEnd
  <2> QED BY <2>3, <2>7
<1> DEFINE S == {i \in 0 .. p : After(f[i], q, m + i, shift, n)}
<1>10. 0 \in S
  <2>1. 0 \in 0 .. p /\ m + 0 = m
    BY <1>1
  <2> QED BY <1>7, <2>1
<1>11. ASSUME NEW i \in 1 .. p, i - 1 \in S PROVE i \in S
  <2> DEFINE j == m + i - 1
  <2>1. j \in 0 .. n /\ m + (i - 1) = j /\ j + 1 = m + i /\ i \in 0 .. p
    BY <1>1, <1>2
  <2>2. After(f[i - 1], q, j, shift, n)
    BY <1>11, <2>1
  <2>3. f[i] = bin2page_decode(f[i - 1], PageOf(q, j), shift)
    BY <1>1, <1>8
  <2> HIDE DEF j
  <2>4. After(bin2page_decode(f[i - 1], PageOf(q, j), shift), q, j + 1, shift, n)
    BY <2>1, <2>2, OnePage
  <2>5. After(f[i], q, m + i, shift, n)
    BY <2>1, <2>3, <2>4
  <2> QED BY <2>1, <2>5
<1>12. p \in S
  <2>1. \A i \in 0 .. p : i \in S
    <3> HIDE DEF S
    <3> QED BY <1>1, <1>10, <1>11, UpTo
  <2>2. p \in 0 .. p
    BY <1>1
  <2> QED BY <2>1, <2>2
<1> QED BY <1>9, <1>12

\* 0xFF, k times.
LEMMA FillIs ==
  ASSUME NEW k \in Nat
  PROVE  Fill(k) \in Seq(Byte) /\ Len(Fill(k)) = k /\ \A i \in 1 .. k : Fill(k)[i] = FF
<1>1. FF \in Byte
  BY BlockSize, ByteRange DEF FF
<1>2. Fill(k) \in [1 .. k -> Byte]
  BY <1>1 DEF Fill
<1>3. Fill(k) \in Seq(Byte)
  BY <1>2
<1>4. Len(Fill(k)) = k
  BY <1>2, <1>3, LenProperties
<1> QED BY <1>3, <1>4 DEF Fill

\* 0xFF behind s.
LEMMA FilledUp ==
  ASSUME NEW s \in Seq(Byte), NEW k \in Nat
  PROVE  /\ s \o Fill(k) \in Seq(Byte) /\ Len(s \o Fill(k)) = Len(s) + k
         /\ \A i \in 1 .. Len(s) : (s \o Fill(k))[i] = s[i]
         /\ \A i \in 1 .. k : (s \o Fill(k))[Len(s) + i] = FF
<1> DEFINE t == Fill(k)
<1>1. t \in Seq(Byte) /\ Len(t) = k /\ \A i \in 1 .. k : t[i] = FF
  BY FillIs
<1> HIDE DEF t
<1>2. /\ s \o t \in Seq(Byte) /\ Len(s \o t) = Len(s) + Len(t)
      /\ \A i \in 1 .. Len(s) : (s \o t)[i] = s[i]
      /\ \A i \in 1 .. Len(t) : (s \o t)[Len(s) + i] = t[i]
  <2>1. t \in Seq(Byte)
    BY <1>1
  <2> QED BY <2>1, Joined
<1>3. \A i \in 1 .. k : (s \o t)[Len(s) + i] = FF
  BY <1>1, <1>2
<1> QED BY <1>1, <1>2, <1>3 DEF t

\* A page of what is at most a page.
LEMMA PaddedIs ==
  ASSUME NEW s \in Seq(Byte), Len(s) <= BSIZE
  PROVE  /\ Padded(s) \in Block
         /\ \A i \in 1 .. Len(s) : Padded(s)[i] = s[i]
         /\ \A i \in (Len(s) + 1) .. BSIZE : Padded(s)[i] = FF
<1> DEFINE k == BSIZE - Len(s)
<1>1. Len(s) \in Nat /\ k \in Nat /\ Len(s) + k = BSIZE
  BY LenProperties, BlockSize
<1>2. Padded(s) = s \o Fill(k)
  BY DEF Padded
<1> HIDE DEF k
<1>4. /\ s \o Fill(k) \in Seq(Byte) /\ Len(s \o Fill(k)) = Len(s) + k
      /\ \A i \in 1 .. Len(s) : (s \o Fill(k))[i] = s[i]
      /\ \A i \in 1 .. k : (s \o Fill(k))[Len(s) + i] = FF
  BY <1>1, FilledUp
<1>5. ASSUME NEW i \in (Len(s) + 1) .. BSIZE PROVE (s \o Fill(k))[i] = FF
  <2>1. i - Len(s) \in 1 .. k /\ Len(s) + (i - Len(s)) = i
    BY <1>1
  <2> QED BY <1>4, <2>1
<1> QED BY <1>1, <1>2, <1>4, <1>5 DEF Block

\* The file of n blocks, and what the decoder sees of it.
IsFile(file, n) == file \in Seq(Byte) /\ n \in Nat /\ Len(file) = Len(SIGN) + n * BSIZE
StreamOf(file) == file \o Fill(BSIZE - Len(SIGN))

\* The file and its padding are whole pages.
LEMMA StreamIs ==
  ASSUME NEW file, NEW n, IsFile(file, n)
  PROVE  /\ Holds(StreamOf(file), n) /\ Len(file) < Len(StreamOf(file)) /\ Len(file) \in Nat
         /\ \A i \in 1 .. Len(file) : StreamOf(file)[i] = file[i]
         /\ \A i \in (Len(file) + 1) .. Len(StreamOf(file)) : StreamOf(file)[i] = FF
<1> DEFINE k == BSIZE - Len(SIGN)
           q == StreamOf(file)
<1>1. k \in Nat /\ k > 0 /\ n * BSIZE \in Nat /\ (n + 1) * BSIZE = n * BSIZE + BSIZE
  BY SignRange, BlockSize DEF IsFile
<1>2. q = file \o Fill(k)
  BY DEF StreamOf
<1>3. Len(file) \in Nat /\ Len(file) + k = (n + 1) * BSIZE /\ file \in Seq(Byte) /\ n \in Nat
  BY <1>1, SignRange, BlockSize DEF IsFile
<1> HIDE DEF k
<1>5. /\ q \in Seq(Byte) /\ Len(q) = Len(file) + k
      /\ \A i \in 1 .. Len(file) : q[i] = file[i]
      /\ \A i \in 1 .. k : q[Len(file) + i] = FF
  <2> HIDE DEF q
  <2> QED BY <1>1, <1>2, <1>3, FilledUp
<1> HIDE DEF q
<1>6. ASSUME NEW i \in (Len(file) + 1) .. Len(q) PROVE q[i] = FF
  <2>1. i - Len(file) \in 1 .. k /\ Len(file) + (i - Len(file)) = i
    BY <1>1, <1>3, <1>5
  <2> QED BY <1>5, <2>1
<1>7. Holds(q, n) /\ Len(file) < Len(q)
  BY <1>1, <1>3, <1>5 DEF Holds
<1> QED BY <1>3, <1>5, <1>6, <1>7 DEF q

\* Rounding up.
LEMMA CeilIs ==
  ASSUME NEW l \in Nat, NEW p \in Nat, NEW b \in Nat, b > 0, (p - 1) * b < l, l <= p * b
  PROVE  (l + b - 1) \div b = p
<1> DEFINE x == l + b - 1
           q == x \div b
           r == x % b
<1>1. q \in Int /\ r \in 0 .. (b - 1) /\ x = b * q + r
  <2>1. x \in Int
    OBVIOUS
  <2> HIDE DEF x
  <2> QED BY <2>1
<1>2. (p - 1) * b = p * b - b /\ p * b \in Int
  OBVIOUS
<1>3. x >= p * b /\ x < p * b + b
  BY <1>2
<1> HIDE DEF x, q, r
<1>4. b * (q - p) < b /\ b * (q - p) > 0 - b
  <2>1. b * (q - p) = b * q - p * b
    BY <1>1
  <2> QED BY <1>1, <1>2, <1>3, <2>1
<1> DEFINE y == q - p
<1>5. y \in Int /\ b * y < b /\ b * y > 0 - b
  BY <1>1, <1>4
<1> HIDE DEF y
<1>6. ~(y >= 1) /\ ~(y <= -1)
  BY <1>5, SMTT(30)
<1>7. y = 0
  BY <1>5, <1>6
<1> QED BY <1>1, <1>7 DEF y, q, x

\* A packet that lies at a page of the stream, with nothing but 0xFF behind it on its
\* last page.
LEMMA CarriedPages ==
  ASSUME NEW q, NEW n, Holds(q, n), NEW m \in Nat, NEW p \in Nat, m + p <= n + 1,
         NEW data \in Seq(Byte), Lies(data, q, m * BSIZE),
         (p - 1) * BSIZE < Len(data), Len(data) <= p * BSIZE,
         \A x \in (m * BSIZE + Len(data) + 1) .. ((m + p) * BSIZE) : q[x] = FF
  PROVE  Carries(data, q, m, p, n)
<1>1. Len(data) \in Nat /\ \A i \in 1 .. Len(data) : data[i] \in Byte
  BY LenProperties, ElementOfSeq
<1>2. p = PagesIn(data)
  <2> DEFINE l == Len(data)
  <2>1. l \in Nat /\ (p - 1) * BSIZE < l /\ l <= p * BSIZE /\ BSIZE > 0 /\ BSIZE \in Nat
    BY <1>1, BlockSize
  <2> HIDE DEF l
  <2>2. (l + BSIZE - 1) \div BSIZE = p
    BY <2>1, CeilIs
  <2> QED BY <2>2 DEF PagesIn, l
<1>3. ASSUME NEW i \in 1 .. p PROVE PageIn(data, i) = PageOf(q, m + i - 1)
  <2> DEFINE a == (i - 1) * BSIZE
             e == IF i * BSIZE <= Len(data) THEN i * BSIZE ELSE Len(data)
             s == SubSeq(data, a + 1, e)
             o == m * BSIZE
  <2>1. /\ a \in Nat /\ i * BSIZE = a + BSIZE /\ o \in Nat /\ (m + i - 1) * BSIZE = o + a
        /\ o + a + BSIZE <= (m + p) * BSIZE /\ (m + p) * BSIZE \in Nat
        /\ (i < p => a + BSIZE < Len(data)) /\ a < Len(data)
        /\ (i = p => Len(data) <= a + BSIZE)
    <3>1. i - 1 \in Nat /\ a \in Nat /\ i * BSIZE = a + BSIZE /\ o \in Nat
      BY BlockSize
    <3>2. (m + i - 1) * BSIZE = o + a
      <4>1. m + i - 1 = m + (i - 1)
        OBVIOUS
      <4>2. (m + (i - 1)) * BSIZE = m * BSIZE + (i - 1) * BSIZE
        BY BlockSize
      <4> QED BY <4>1, <4>2
    <3>3. o + a + BSIZE <= (m + p) * BSIZE /\ (m + p) * BSIZE \in Nat
      <4>1. (m + p) * BSIZE = o + p * BSIZE /\ i * BSIZE <= p * BSIZE /\ p * BSIZE \in Nat
        BY BlockSize, SMTT(30)
      <4> QED BY <3>1, <4>1, BlockSize
    <3>4. ASSUME i < p PROVE a + BSIZE < Len(data)
      <4>1. i * BSIZE <= (p - 1) * BSIZE /\ (p - 1) * BSIZE \in Nat
        BY <3>4, BlockSize, SMTT(30)
      <4>2. (p - 1) * BSIZE < Len(data)
        OBVIOUS
      <4> DEFINE y == (p - 1) * BSIZE
                 z == Len(data)
      <4>3. a + BSIZE <= y /\ y < z /\ y \in Nat /\ z \in Nat
        BY <1>1, <3>1, <4>1, <4>2
      <4> HIDE DEF y, z, a
      <4>4. a + BSIZE < z
        BY <3>1, <4>3, BlockSize
      <4> QED BY <4>4 DEF z
    <3>5. i = p => Len(data) <= a + BSIZE /\ a < Len(data)
      BY <3>1
    <3>6. a < Len(data)
      BY <1>1, <3>1, <3>4, <3>5, BlockSize
    <3> QED BY <3>1, <3>2, <3>3, <3>4, <3>5, <3>6
  <2> HIDE DEF a, o
  <2>2. /\ e \in Nat /\ a + 1 <= e /\ e <= Len(data) /\ e <= a + BSIZE
        /\ (e = a + BSIZE \/ e = Len(data))
    BY <1>1, <2>1, BlockSize
  <2> HIDE DEF e
  <2>3. s \in Seq(Byte) /\ Len(s) = e - a /\ \A x \in 1 .. (e - a) : s[x] = data[a + x]
    <3>1. /\ a + 1 \in Int /\ e \in Int /\ a + 1 <= e /\ (e - (a + 1)) + 1 = e - a
          /\ \A x \in (a + 1) .. e : x \in 1 .. Len(data)
      BY <1>1, <2>1, <2>2
    <3>2. \A x \in (a + 1) .. e : data[x] \in Byte
      BY <1>1, <3>1
    <3>3. s \in Seq(Byte) /\ Len(s) = e - a /\ \A x \in 1 .. (e - a) : s[x] = data[((a + 1) + x) - 1]
      BY <3>1, <3>2, SubSeqProperties
    <3>4. \A x \in 1 .. (e - a) : ((a + 1) + x) - 1 = a + x
      BY <2>1, <2>2
    <3> HIDE DEF s
    <3> QED BY <3>3, <3>4
  <2>4. PageIn(data, i) = Padded(s)
    BY Zenon DEF PageIn, a, e
  <2> HIDE DEF s
  <2>5. Len(s) \in Nat /\ Len(s) <= BSIZE
    BY <2>1, <2>2, <2>3, BlockSize
  <2>6. /\ Padded(s) \in Block
        /\ \A x \in 1 .. Len(s) : Padded(s)[x] = s[x]
        /\ \A x \in (Len(s) + 1) .. BSIZE : Padded(s)[x] = FF
    BY <2>3, <2>5, PaddedIs
  <2>7. ASSUME NEW x \in 1 .. BSIZE PROVE Padded(s)[x] = q[(o + a) + x]
    <3>1. CASE x <= e - a
      <4>1. x \in 1 .. (e - a) /\ a + x \in 1 .. Len(data) /\ o + (a + x) = (o + a) + x
        BY <1>1, <2>1, <2>2, <3>1
      <4>2. Padded(s)[x] = data[a + x]
        BY <2>3, <2>6, <4>1
      <4>3. data[a + x] = q[o + (a + x)]
        BY <4>1 DEF Lies, o
      <4> QED BY <4>1, <4>2, <4>3
    <3>2. CASE ~(x <= e - a)
      <4>1. x \in (Len(s) + 1) .. BSIZE
        BY <2>1, <2>2, <2>3, <3>2, BlockSize
      <4>2. (o + a) + x \in (o + Len(data) + 1) .. ((m + p) * BSIZE)
        <5>1. e = Len(data)
          BY <2>1, <2>2, <3>2, BlockSize
        <5> DEFINE z == (m + p) * BSIZE
        <5>2. z \in Nat /\ o + a + BSIZE <= z
          BY <2>1
        <5> HIDE DEF z
        <5>3. (o + a) + x \in (o + Len(data) + 1) .. z
          BY <1>1, <2>1, <3>2, <5>1, <5>2, BlockSize
        <5> QED BY <5>3 DEF z
      <4>3. q[(o + a) + x] = FF
        BY <4>2 DEF o
      <4> QED BY <2>6, <4>1, <4>3
    <3> QED BY <2>1, <2>2, <3>1, <3>2
  <2>8. m + i - 1 \in 0 .. n
    BY DEF Holds
  <2>9. PageOf(q, m + i - 1) \in Block /\ Lies(PageOf(q, m + i - 1), q, o + a)
    BY <2>1, <2>8, PagesLie
  <2>10. Lies(Padded(s), q, o + a)
    BY <2>6, <2>7, BlockBytes DEF Lies
  <2>11. Padded(s) = PageOf(q, m + i - 1)
    <3>1. /\ Padded(s) \in Seq(Byte) /\ PageOf(q, m + i - 1) \in Seq(Byte)
          /\ Len(Padded(s)) = BSIZE /\ Len(PageOf(q, m + i - 1)) = BSIZE
      BY <2>6, <2>9, BlockBytes
    <3> QED BY <2>9, <2>10, <3>1, LieAlike
  <2> QED BY <2>4, <2>11
<1> QED BY <1>2, <1>3 DEF Carries

\* A WRITE: pages of the file from the m-th on, or all that is left of it.
LEMMA PacketCarries ==
  ASSUME NEW file, NEW n, IsFile(file, n), NEW m \in Nat, m * BSIZE < Len(file), NEW to \in Nat,
         to = Len(file) \/ (to <= Len(file) /\ \E j \in Nat \ {0} : to = m * BSIZE + j * BSIZE)
  PROVE  /\ SubSeq(file, m * BSIZE + 1, to) \in Seq(Byte)
         /\ Len(SubSeq(file, m * BSIZE + 1, to)) = to - m * BSIZE
         /\ \E p \in Nat : /\ Carries(SubSeq(file, m * BSIZE + 1, to), StreamOf(file), m, p, n)
                           /\ to = (m + p) * BSIZE \/ (to = Len(file) /\ m + p = n + 1)
<1> DEFINE o == m * BSIZE
           q == StreamOf(file)
           data == SubSeq(file, o + 1, to)
           nb == n * BSIZE
           l == Len(SIGN)
<1>1. /\ Holds(q, n) /\ Len(file) < Len(q) /\ Len(file) \in Nat
      /\ \A i \in 1 .. Len(file) : q[i] = file[i]
      /\ \A i \in (Len(file) + 1) .. Len(q) : q[i] = FF
  BY StreamIs
<1>2. /\ o \in Nat /\ nb \in Nat /\ Len(file) = l + nb /\ file \in Seq(Byte) /\ n \in Nat
      /\ l \in Nat /\ l > 0 /\ l < BSIZE /\ Len(q) = nb + BSIZE /\ (n + 1) * BSIZE = nb + BSIZE
  BY <1>1, SignRange, BlockSize DEF IsFile, Holds
<1> HIDE DEF q
<1>3. o < to /\ to <= Len(file)
  <2>1. \A j \in Nat \ {0} : j * BSIZE >= BSIZE /\ j * BSIZE \in Nat
    BY BlockSize, SMTT(30)
  <2> HIDE DEF o
  <2>2. o < Len(file) /\ (to = Len(file) \/ (to <= Len(file) /\ \E j \in Nat \ {0} : to = o + j * BSIZE))
    BY DEF o
  <2>3. CASE to = Len(file)
    BY <1>1, <2>2, <2>3
  <2>4. CASE to # Len(file)
    <3>1. PICK j \in Nat \ {0} : to = o + j * BSIZE
      BY <2>2, <2>4
    <3> DEFINE y == j * BSIZE
    <3>2. y >= BSIZE /\ y \in Nat /\ to = o + y
      BY <2>1, <3>1
    <3> HIDE DEF y
    <3> QED BY <1>2, <2>2, <2>4, <3>2, BlockSize
  <2> QED BY <2>3, <2>4
<1>4. /\ data \in Seq(Byte) /\ Len(data) = to - o
      /\ \A i \in 1 .. (to - o) : data[i] = file[o + i]
  <2> HIDE DEF o, nb
  <2>1. o + 1 \in Int /\ to \in Int /\ o + 1 <= to /\ (to - (o + 1)) + 1 = to - o
    BY <1>2, <1>3
  <2>2. \A i \in (o + 1) .. to : i \in 1 .. Len(file)
    BY <1>1, <1>2, <1>3
  <2>3. \A i \in (o + 1) .. to : file[i] \in Byte
    BY <1>2, <2>2, ElementOfSeq
  <2>4. data \in Seq(Byte) /\ Len(data) = to - o /\ \A i \in 1 .. (to - o) : data[i] = file[((o + 1) + i) - 1]
    BY <2>1, <2>3, SubSeqProperties
  <2>5. \A i \in 1 .. (to - o) : ((o + 1) + i) - 1 = o + i
    BY <1>2, <1>3
  <2> HIDE DEF data
  <2> QED BY <2>4, <2>5
<1> HIDE DEF data
<1>5. Lies(data, q, o)
  <2> HIDE DEF o, nb
  <2>1. \A i \in 1 .. (to - o) : o + i \in 1 .. Len(file)
    BY <1>1, <1>2, <1>3
  <2> QED BY <1>1, <1>4, <2>1 DEF Lies
<1>6. \E p \in Nat : /\ (p - 1) * BSIZE < Len(data) /\ Len(data) <= p * BSIZE /\ m + p <= n + 1
                     /\ (m + p) * BSIZE <= Len(q)
                     /\ o + Len(data) = (m + p) * BSIZE \/ o + Len(data) = Len(file)
                     /\ to = (m + p) * BSIZE \/ (to = Len(file) /\ m + p = n + 1)
  <2>1. CASE to = Len(file)
    <3> DEFINE p == n + 1 - m
    <3>1. p \in Nat
      <4>1. ~(m >= n + 1)
        <5> SUFFICES ASSUME m >= n + 1 PROVE FALSE
          OBVIOUS
        <5>1. m * BSIZE >= (n + 1) * BSIZE
          BY <1>2, BlockSize, SMTT(30)
        <5> HIDE DEF nb
        <5>2. o >= nb + BSIZE
          BY <1>2, <5>1
        <5> HIDE DEF o
        <5> QED BY <1>2, <1>3, <2>1, <5>2, BlockSize
      <4> QED BY <1>2, <4>1
    <3>2. m + p = n + 1 /\ (p - 1) * BSIZE = nb - o /\ p * BSIZE = nb - o + BSIZE
      <4>1. m + p = n + 1 /\ p - 1 = n - m
        BY <1>2
      <4>2. (n - m) * BSIZE = nb - o /\ (n + 1 - m) * BSIZE = nb - o + BSIZE
        BY <1>2, BlockSize
      <4> QED BY <4>1, <4>2
    <3> HIDE DEF p, o, nb
    <3>3. /\ (p - 1) * BSIZE < Len(data) /\ Len(data) <= p * BSIZE /\ m + p <= n + 1
          /\ (m + p) * BSIZE <= Len(q) /\ o + Len(data) = Len(file)
      <4> DEFINE y == (p - 1) * BSIZE
                 z == p * BSIZE
                 w == (m + p) * BSIZE
      <4>1. y = nb - o /\ z = nb - o + BSIZE /\ w = nb + BSIZE
        BY <1>2, <3>2
      <4> HIDE DEF y, z, w
      <4>2. /\ y < Len(data) /\ Len(data) <= z /\ w <= Len(q) /\ o + Len(data) = Len(file)
        BY <1>2, <1>4, <2>1, <4>1, BlockSize
      <4>3. m + p <= n + 1
        BY <1>2, <3>2
      <4> QED BY <4>2, <4>3 DEF y, z, w
    <3> QED BY <2>1, <3>1, <3>2, <3>3
  <2>2. CASE to # Len(file)
    <3>1. PICK p \in Nat \ {0} : to = m * BSIZE + p * BSIZE
      BY <2>2
    <3>2. /\ p \in Nat /\ (m + p) * BSIZE = to /\ (p - 1) * BSIZE = p * BSIZE - BSIZE
          /\ Len(data) = p * BSIZE /\ p * BSIZE \in Nat
      <4>1. (m + p) * BSIZE = m * BSIZE + p * BSIZE /\ (p - 1) * BSIZE = p * BSIZE - BSIZE
            /\ p * BSIZE \in Nat /\ m * BSIZE \in Nat
        BY BlockSize
      <4>2. (m * BSIZE + p * BSIZE) - m * BSIZE = p * BSIZE
        BY <4>1
      <4> QED BY <1>4, <3>1, <4>1, <4>2
    <3>3. m + p <= n + 1
      <4>1. ~(m + p > n + 1)
        <5> SUFFICES ASSUME m + p > n + 1 PROVE FALSE
          OBVIOUS
        <5>1. (m + p) * BSIZE >= (n + 1) * BSIZE
          BY <1>2, BlockSize, SMTT(30)
        <5> HIDE DEF nb
        <5>2. to >= nb + BSIZE
          BY <1>2, <3>2, <5>1
        <5> QED BY <1>2, <1>3, <5>2, BlockSize
      <4> QED BY <1>2, <4>1
    <3>4. o + Len(data) = to
      <4> HIDE DEF o
      <4> QED BY <1>2, <1>4
    <3>5. (p - 1) * BSIZE < Len(data) /\ Len(data) <= p * BSIZE
      BY <3>2, BlockSize
    <3>6. (m + p) * BSIZE <= Len(q)
      <4> HIDE DEF o, nb
      <4>1. to <= Len(q)
        BY <1>1, <1>2, <1>3
      <4> QED BY <3>2, <4>1
    <3> QED BY <3>2, <3>3, <3>4, <3>5, <3>6
  <2> QED BY <2>1, <2>2
<1>7. PICK p \in Nat : /\ (p - 1) * BSIZE < Len(data) /\ Len(data) <= p * BSIZE /\ m + p <= n + 1
                       /\ (m + p) * BSIZE <= Len(q)
                       /\ o + Len(data) = (m + p) * BSIZE \/ o + Len(data) = Len(file)
                       /\ to = (m + p) * BSIZE \/ (to = Len(file) /\ m + p = n + 1)
  BY <1>6
<1>8. ASSUME NEW x \in (o + Len(data) + 1) .. ((m + p) * BSIZE) PROVE q[x] = FF
  <2> DEFINE z == (m + p) * BSIZE
  <2>1. z \in Nat /\ z <= Len(q) /\ (o + Len(data) = z \/ o + Len(data) = Len(file))
        /\ x \in (o + Len(data) + 1) .. z
    BY <1>7, BlockSize
  <2> HIDE DEF z, o, nb
  <2>2. x \in (Len(file) + 1) .. Len(q)
    BY <1>1, <1>2, <2>1
  <2> QED BY <1>1, <2>2
<1>9. Carries(data, q, m, p, n)
  BY <1>1, <1>4, <1>5, <1>7, <1>8, CarriedPages
<1> QED BY <1>4, <1>7, <1>9 DEF data, q

\* bin2page_finish fills the last page up with 0xFF, and changes nothing else.
LEMMA FinishIs ==
  ASSUME NEW dec \in Decs, NEW d, d = bin2page_finish(dec)
  PROVE  /\ d \in Decs /\ d.active = dec.active /\ d.errors = dec.errors
         /\ \E k \in 0 .. (BSIZE - 1) : d.pages = (dec.pages \o dec.result) \o Fill(k)
<1>1. /\ dec.result \in Seq(Byte) /\ Len(dec.result) < BSIZE /\ Len(dec.result) \in Nat
      /\ dec.pages \in Seq(Byte)
  BY Decoder, LenProperties
<1>2. CASE dec.result = <<>>
  <2>1. d = dec
    BY <1>2 DEF bin2page_finish
  <2>2. Fill(0) = <<>>
    BY DEF Fill
  <2>3. dec.pages \o dec.result = dec.pages
    BY <1>1, <1>2, ConcatEmptySeq
  <2>4. dec.pages \o <<>> = dec.pages
    BY <1>1, ConcatEmptySeq
  <2>5. d.pages = (dec.pages \o dec.result) \o Fill(0)
    BY <2>1, <2>2, <2>3, <2>4
  <2>6. 0 \in 0 .. (BSIZE - 1)
    BY BlockSize
  <2> QED BY <2>1, <2>5, <2>6
<1>3. CASE dec.result # <<>>
  <2> DEFINE k == BSIZE - Len(dec.result)
             all == dec.result \o Fill(k)
  <2>1. k \in Nat /\ Len(dec.result) + k = BSIZE /\ k \in 0 .. (BSIZE - 1)
    <3>1. Len(dec.result) # 0
      BY <1>1, <1>3, EmptySeq
    <3> QED BY <1>1, <3>1, BlockSize
  <2>2. d = Emitted(dec, Fill(k))
    BY <1>3 DEF bin2page_finish
  <2> HIDE DEF k
  <2>3. Fill(k) \in Seq(Byte) /\ all \in Seq(Byte) /\ Len(all) = BSIZE
    BY <1>1, <2>1, FillIs, FilledUp
  <2>4. /\ d \in Decs /\ d.active = dec.active /\ d.errors = dec.errors
        /\ d.pages \o d.result = (dec.pages \o dec.result) \o Fill(k)
        /\ Len(d.result) = Len(all) - (Len(all) \div BSIZE) * BSIZE
    BY <2>2, <2>3, EmittedIs
  <2> HIDE DEF all
  <2>5. Len(d.result) = 0
    <3>1. BSIZE \div BSIZE = 1 /\ 1 * BSIZE = BSIZE
      <4>1. (1 - 1) * BSIZE < 1 /\ 1 <= 1 * BSIZE /\ BSIZE > 0 /\ BSIZE \in Nat
        BY BlockSize
      <4>2. (1 + BSIZE - 1) \div BSIZE = 1
        BY <4>1, CeilIs
      <4>3. 1 + BSIZE - 1 = BSIZE
        BY <4>1
      <4> QED BY <4>1, <4>2, <4>3
    <3>2. BSIZE - BSIZE = 0
      BY BlockSize
    <3> QED BY <2>3, <2>4, <3>1, <3>2
  <2>6. d.pages \in Seq(Byte) /\ d.result \in Seq(Byte)
    BY <2>4, Decoder
  <2>7. d.result = <<>>
    BY <2>5, <2>6, EmptySeq
  <2>8. d.pages \o <<>> = d.pages
    BY <2>6, ConcatEmptySeq
  <2>9. d.pages = (dec.pages \o dec.result) \o Fill(k)
    BY <2>4, <2>7, <2>8
  <2> QED BY <2>1, <2>4, <2>9
<1> QED BY <1>2, <1>3

----------------------------------------------------------------------------
(* The stream: a call gives out one page at most                           *)

\* A beginning, and what is behind it.
LEMMA Behind ==
  ASSUME NEW s \in Seq(Byte), NEW t \in Seq(Byte)
  PROVE  /\ SubSeq(s \o t, 1, Len(s)) = s
         /\ SubSeq(s \o t, Len(s) + 1, Len(s \o t)) = t
<1> DEFINE w == s \o t
           a == SubSeq(w, 1, Len(s))
           z == SubSeq(w, Len(s) + 1, Len(w))
<1>1. /\ w \in Seq(Byte) /\ Len(w) = Len(s) + Len(t) /\ Len(s) \in Nat /\ Len(t) \in Nat
      /\ \A i \in 1 .. Len(s) : w[i] = s[i]
      /\ \A i \in 1 .. Len(t) : w[Len(s) + i] = t[i]
  BY Joined, LenProperties
<1>2. Len(s) \in 0 .. Len(w)
  <2> HIDE DEF w
  <2> QED BY <1>1
<1> HIDE DEF w
<1>3. a \in Seq(Byte) /\ Len(a) = Len(s) /\ z \in Seq(Byte) /\ Len(z) = Len(t)
  <2>1. a \in Seq(Byte) /\ Len(a) = Len(s) /\ z \in Seq(Byte) /\ Len(z) = Len(w) - Len(s)
    BY <1>1, <1>2, Cut
  <2> HIDE DEF a, z
  <2> QED BY <1>1, <2>1
<1>4. Lies(w, w, 0)
  BY <1>1 DEF Lies
<1>5. Lies(a, w, 0) /\ Lies(z, w, 0 + Len(s))
  BY <1>1, <1>2, <1>4, LiePart
<1>6. Lies(s, w, 0) /\ Lies(t, w, 0 + Len(s))
  BY <1>1 DEF Lies
<1> HIDE DEF a, z
<1>7. a = s /\ z = t
  BY <1>3, <1>5, <1>6, LieAlike
<1> QED BY <1>7 DEF w, a, z

\* No block comes out longer than it was.
LEMMA NoLonger ==
  ASSUME NEW b \in Block, NEW shift \in BOOLEAN
  PROVE  DecodedBlock(b, shift).bytes \in Seq(Byte) /\ Len(DecodedBlock(b, shift).bytes) <= BSIZE
<1> DEFINE out == DecodedBlock(b, shift)
           o == Offs(b)
<1>1. o \in Nat /\ BSIZE \in Nat
  BY PartPlaces, BlockSize
<1>2. out.bytes \in Seq(Byte)
  BY DecodesByTheFormat
<1>3. CASE Overflow(b)
  <2>1. out.bytes = b
    BY <1>3, Zenon DEF DecodedBlock
  <2> HIDE DEF out
  <2> QED BY <1>1, <1>2, <2>1, BlockBytes DEF out
<1>4. CASE ~Overflow(b) /\ ~Header(b).full
  <2>1. out.bytes = SubSeq(b, Pos(b) + 1, BSIZE)
    BY <1>4, Zenon DEF DecodedBlock
  <2>2. Pos(b) \in 0 .. BSIZE
    <3> DEFINE s == Skipped(b)
               cnt == Header(b).cnt
    <3>1. Pos(b) = 1 + s /\ s \in 0 .. cnt /\ cnt \in Nat /\ cnt < FULL
      BY SkippedIs, PartPlaces
    <3> HIDE DEF s, cnt
    <3> QED BY <3>1, BlockSize, Half
  <2> HIDE DEF out
  <2>3. Len(out.bytes) = BSIZE - Pos(b)
    BY <2>1, <2>2, EndOf
  <2> QED BY <1>1, <1>2, <2>2, <2>3 DEF out
<1>5. CASE ~Overflow(b) /\ Header(b).full
  <2>1. o \in 0 .. BSIZE
    BY <1>1, <1>5, OverflowIs
  <2>2. PICK c \in Block : out.bytes = SubSeq(c, o + 1, BSIZE)
    <3>1. CASE shift
      <4>1. out.bytes = SubSeq(Patched(b).buffer, o + 1, BSIZE)
        BY <1>5, <3>1, Zenon DEF DecodedBlock
      <4>2. Patched(b).buffer \in Block
        BY <2>1, PatchesDo DEF PatchState
      <4> QED BY <4>1, <4>2, Zenon
    <3>2. CASE ~shift
      <4>1. out.bytes = SubSeq(b, o + 1, BSIZE)
        BY <1>5, <3>2, Zenon DEF DecodedBlock
      <4> QED BY <4>1, Zenon
    <3> QED BY <3>1, <3>2, Zenon
  <2> HIDE DEF out, o
  <2>3. Len(out.bytes) = BSIZE - o
    BY <2>1, <2>2, EndOf
  <2> QED BY <1>1, <1>2, <2>1, <2>3 DEF out
<1> QED BY <1>3, <1>4, <1>5, Zenon

\* next has given out what dec has, and one page more at most.
Adds(next, dec) == \E page \in Block \union {<<>>} : next.pages = dec.pages \o page

\* Less than a page and no more than a page fill one page at most.
LEMMA EmittedAdds ==
  ASSUME NEW dec \in Decs, NEW bytes \in Seq(Byte), Len(bytes) <= BSIZE,
         NEW e, e = Emitted(dec, bytes)
  PROVE  Adds(e, dec)
<1> DEFINE all == dec.result \o bytes
           l == Len(all)
           full == (l \div BSIZE) * BSIZE
           page == SubSeq(all, 1, full)
<1>1. dec.result \in Seq(Byte) /\ Len(dec.result) < BSIZE /\ dec.pages \in Seq(Byte)
  BY Decoder
<1>2. all \in Seq(Byte) /\ l \in Nat /\ l < 2 * BSIZE
  <2>1. all \in Seq(Byte) /\ l = Len(dec.result) + Len(bytes)
        /\ Len(dec.result) \in Nat /\ Len(bytes) \in Nat
    BY <1>1, Joined, LenProperties
  <2> HIDE DEF all, l
  <2> QED BY <1>1, <2>1, BlockSize
<1>3. full = 0 \/ full = BSIZE
  <2> HIDE DEF all, l
  <2>1. BSIZE \in Nat /\ BSIZE > 0
    BY BlockSize
  <2> DEFINE b == BSIZE
             k == l \div b
  <2>2. k \in Nat /\ k < 2
    <3>1. b \in Nat /\ b > 0 /\ l < 2 * b /\ l \in Nat
      BY <1>2, <2>1
    <3> HIDE DEF b
    <3>2. k \in Int /\ b * k <= l /\ l < b * k + b
      BY <3>1, SMTT(30)
    <3> HIDE DEF k
    <3>3. ~(k >= 2) /\ ~(k <= -1)
      BY <3>1, <3>2, SMTT(30)
    <3> QED BY <3>2, <3>3
  <2>3. full = k * BSIZE
    OBVIOUS
  <2> HIDE DEF k, full
  <2>4. k = 0 \/ k = 1
    BY <2>2
  <2> QED BY <2>1, <2>3, <2>4
<1>4. full \in 0 .. l
  <2> HIDE DEF all, l
  <2> QED BY <1>2, WholePages
<1>5. e.pages = dec.pages \o page
  <2> DEFINE d == [dec EXCEPT !.result = SubSeq(all, full + 1, Len(all)),
                              !.pages  = dec.pages \o page]
  <2>1. e = d
    BY DEF Emitted
  <2>2. dec \in [inited : BOOLEAN, active : BOOLEAN, errors : BOOLEAN,
                 input : Seq(Byte), result : Seq(Byte), pages : Seq(Byte)]
    BY DEF Decs
  <2> HIDE DEF full, all, page
  <2>3. d.pages = dec.pages \o page
    BY <2>2
  <2> QED BY <2>1, <2>3
<1>6. page \in Seq(Byte) /\ Len(page) = full
  <2> HIDE DEF full, all
  <2>1. full \in 0 .. Len(all)
    BY <1>4 DEF l
  <2> QED BY <1>2, <2>1, Cut
<1> HIDE DEF page, full
<1>7. page \in Block \union {<<>>}
  BY <1>3, <1>6, EmptySeq DEF Block
<1> QED BY <1>5, <1>7 DEF Adds

\* So does a page that is given to the decoder.
LEMMA DecodeAdds ==
  ASSUME NEW dec \in Decs, NEW buf \in Block, NEW shift \in BOOLEAN,
         NEW d, d = bin2page_decode(dec, buf, shift)
  PROVE  d \in Decs /\ Adds(d, dec) /\ d.inited /\ (d.active <=> ActiveWith(dec, buf))
<1> DEFINE input == InputWith(dec, buf)
           block == DecodedBlock(SubSeq(input, 1, BSIZE), shift)
           active == ActiveWith(dec, buf)
<1>1. Taken(d, dec, buf, input, block)
  <2> HIDE DEF input
  <2> QED BY DecodeIs DEF input
<1>2. d \in Decs /\ d.inited /\ (d.active <=> active)
  BY <1>1 DEF Taken
<1>3. CASE ~d.active
  <2>1. d.pages = dec.pages \o buf
    BY <1>1, <1>3 DEF Taken
  <2> QED BY <1>2, <2>1 DEF Adds
<1>4. CASE d.active /\ Len(input) < BSIZE
  <2>1. d.pages = dec.pages /\ dec.pages \in Seq(Byte)
    BY <1>1, <1>4, Decoder DEF Taken
  <2>2. d.pages = dec.pages \o <<>>
    BY <2>1, ConcatEmptySeq
  <2> QED BY <1>2, <2>2 DEF Adds
<1>5. CASE d.active /\ ~(Len(input) < BSIZE)
  <2> DEFINE begun == [dec EXCEPT !.inited = TRUE, !.active = active,
                                  !.input = SubSeq(input, BSIZE + 1, Len(input)),
                                  !.errors = dec.errors \/ block.error]
  <2>1. d = Emitted(begun, block.bytes)
    <3> DEFINE first == [dec EXCEPT !.inited = TRUE, !.active = active]
    <3>1. dec.errors = first.errors
      BY DEF Decs
    <3>2. active
      BY <1>2, <1>5, Zenon
    <3>3. d = Emitted([first EXCEPT !.input = SubSeq(input, BSIZE + 1, Len(input)),
                                    !.errors = dec.errors \/ block.error], block.bytes)
      BY <1>5, <3>2, Zenon DEF bin2page_decode, InputWith, ActiveWith
    <3>4. [first EXCEPT !.input = SubSeq(input, BSIZE + 1, Len(input)),
                        !.errors = dec.errors \/ block.error] = begun
      <4> HIDE DEF input, block, active
      <4> QED BY DEF Decs
    <3> QED BY <3>3, <3>4, Zenon
  <2>2. input \in Seq(Byte) /\ Len(input) \in Nat /\ Len(input) < 2 * BSIZE
    <3> DEFINE more == IF dec.inited THEN BSIZE ELSE BSIZE - Len(SIGN)
    <3>1. /\ input \in Seq(Byte) /\ Len(input) = Len(dec.input) + more
          /\ Len(dec.input) \in Nat /\ Len(dec.input) < BSIZE
      BY InputIs
    <3>2. more \in Nat /\ more <= BSIZE
      BY SignRange, BlockSize
    <3> HIDE DEF input, more
    <3> QED BY <3>1, <3>2, BlockSize
  <2>3. BSIZE \in 0 .. Len(input)
    <3> HIDE DEF input
    <3> QED BY <1>5, <2>2, BlockSize
  <2>4. SubSeq(input, 1, BSIZE) \in Block
    <3> HIDE DEF input
    <3> QED BY <2>2, <2>3, Cut DEF Block
  <2>5. block.bytes \in Seq(Byte) /\ Len(block.bytes) <= BSIZE /\ block.error \in BOOLEAN
    BY <2>4, NoLonger, DecodesByTheFormat
  <2>6. begun \in Decs /\ begun.pages = dec.pages
    <3>1. SubSeq(input, BSIZE + 1, Len(input)) \in Seq(Byte)
          /\ Len(SubSeq(input, BSIZE + 1, Len(input))) < BSIZE
      <4> HIDE DEF input
      <4>1. SubSeq(input, BSIZE + 1, Len(input)) \in Seq(Byte)
            /\ Len(SubSeq(input, BSIZE + 1, Len(input))) = Len(input) - BSIZE
        BY <2>2, <2>3, Cut
      <4> QED BY <2>2, <4>1, BlockSize
    <3> DEFINE rest == SubSeq(input, BSIZE + 1, Len(input))
               errors == dec.errors \/ block.error
    <3>2. active \in BOOLEAN
      BY DEF ActiveWith, HasSign, Decs
    <3>3. errors \in BOOLEAN
      OBVIOUS
    <3>4. rest \in Seq(Byte) /\ Len(rest) < BSIZE
      BY <3>1
    <3> HIDE DEF rest, errors, active
    <3>5. [dec EXCEPT !.inited = TRUE, !.active = active, !.input = rest, !.errors = errors] \in Decs
          /\ [dec EXCEPT !.inited = TRUE, !.active = active, !.input = rest,
                         !.errors = errors].pages = dec.pages
      BY <3>2, <3>3, <3>4 DEF Decs
    <3> QED BY <3>5 DEF rest, errors
  <2> HIDE DEF begun, block, input
  <2>7. Adds(d, begun)
    BY <2>1, <2>5, <2>6, EmittedAdds
  <2>8. Adds(d, dec)
    BY <2>6, <2>7 DEF Adds
  <2> QED BY <1>2, <2>8
<1> QED BY <1>2, <1>3, <1>4, <1>5, Zenon

\* bin2page_finish fills up the page that it gives out.
LEMMA FinishAdds ==
  ASSUME NEW dec \in Decs, NEW d, d = bin2page_finish(dec)
  PROVE  Adds(d, dec)
<1>1. dec.result \in Seq(Byte) /\ Len(dec.result) < BSIZE /\ dec.pages \in Seq(Byte)
  BY Decoder
<1>2. CASE dec.result = <<>>
  <2>1. d.pages = dec.pages \o <<>>
    BY <1>1, <1>2, ConcatEmptySeq DEF bin2page_finish
  <2> QED BY <2>1 DEF Adds
<1>3. CASE dec.result # <<>>
  <2> DEFINE k == BSIZE - Len(dec.result)
  <2>1. k \in Nat /\ k <= BSIZE
    <3>1. Len(dec.result) \in Nat
      BY <1>1, LenProperties
    <3> QED BY <1>1, <3>1, BlockSize
  <2>2. d = Emitted(dec, Fill(k))
    BY <1>3 DEF bin2page_finish
  <2> HIDE DEF k
  <2>3. Fill(k) \in Seq(Byte) /\ Len(Fill(k)) <= BSIZE
    BY <2>1, FillIs
  <2> QED BY <2>2, <2>3, EmittedAdds
<1> QED BY <1>2, <1>3

----------------------------------------------------------------------------
(* Both variants in a block of the encoder                                 *)

\* v is what a block of the encoder says of a variant: B's bytes where they differ.
Spells(blk, shift, v) ==
  /\ v \in Seq(Byte) /\ Len(v) = Len(blk.data)
  /\ \A j \in 1 .. Len(blk.data) :
       /\ shift => \A i \in 1 .. Len(blk.addr) : blk.addr[i] = j - 1 => v[j] = blk.change[i]
       /\ (~shift \/ \A i \in 1 .. Len(blk.addr) : blk.addr[i] # j - 1) => v[j] = blk.data[j]

\* A block with nothing in it says nothing.
LEMMA EmptySpells == ASSUME NEW shift \in BOOLEAN PROVE Spells(EmptyBlock, shift, <<>>)
<1>1. EmptyBlock.data = <<>> /\ EmptyBlock.addr = <<>>
  BY DEF EmptyBlock
<1>2. <<>> \in Seq(Byte) /\ Len(<<>>) = 0
  BY EmptySeq
<1> QED BY <1>1, <1>2 DEF Spells

\* One more element.
LEMMA Appended ==
  ASSUME NEW S, NEW s \in Seq(S), NEW x \in S
  PROVE  /\ Append(s, x) \in Seq(S) /\ Len(Append(s, x)) = Len(s) + 1
         /\ \A i \in 1 .. Len(s) : Append(s, x)[i] = s[i]
         /\ Append(s, x)[Len(s) + 1] = x
BY AppendProperties

\* One more byte of the variant.
LEMMA PushSpells ==
  ASSUME NEW blk, Fits(blk), NEW a \in Byte, NEW b \in Byte, NEW shift \in BOOLEAN,
         NEW v, Spells(blk, shift, v), NEW x, x = IF shift THEN b ELSE a
  PROVE  Spells(Push(blk, a, b), shift, Append(v, x))
<1> DEFINE data == Append(blk.data, a)
           l == Len(blk.data)
           n == Len(blk.addr)
           w == Append(v, x)
           next == Push(blk, a, b)
<1>1. /\ blk.data \in Seq(Byte) /\ blk.addr \in Seq(Byte) /\ blk.change \in Seq(Byte)
      /\ Len(blk.change) = n /\ l \in Nat /\ n \in Nat
      /\ \A i \in 1 .. n : blk.addr[i] < l /\ blk.addr[i] \in Byte
  BY LenProperties, ElementOfSeq DEF Fits
<1>2. /\ data \in Seq(Byte) /\ Len(data) = l + 1
      /\ \A j \in 1 .. l : data[j] = blk.data[j]
      /\ data[l + 1] = a
  BY <1>1, Appended
<1>3. v \in Seq(Byte) /\ Len(v) = l /\ x \in Byte
  BY DEF Spells
<1>4. /\ w \in Seq(Byte) /\ Len(w) = l + 1
      /\ \A j \in 1 .. l : w[j] = v[j]
      /\ w[l + 1] = x
  BY <1>3, Appended
<1>5. \A j \in 1 .. (l + 1) : j \in 1 .. l \/ j = l + 1
  BY <1>1
<1>6. \A i \in 1 .. n : blk.addr[i] \in Nat /\ blk.addr[i] # l
  BY <1>1, ByteRange
<1>7. CASE a = b
  <2>1. next.data = data /\ next.addr = blk.addr /\ next.change = blk.change
    <3>1. PICK e : e = [blk EXCEPT !.data = data]
      OBVIOUS
    <3>2. next = e
      BY <1>7, <3>1 DEF Push
    <3>3. blk = [addr |-> blk.addr, change |-> blk.change, data |-> blk.data]
      BY DEF Fits
    <3> HIDE DEF data, next
    <3>4. e.data = data /\ e.addr = blk.addr /\ e.change = blk.change
      BY <3>1, <3>3
    <3> QED BY <3>2, <3>4
  <2> HIDE DEF data, w, next
  <2>2. x = a
    BY <1>7
  <2>3. ASSUME NEW j \in 1 .. (l + 1)
        PROVE  /\ shift => \A i \in 1 .. n : blk.addr[i] = j - 1 => w[j] = blk.change[i]
               /\ (~shift \/ \A i \in 1 .. n : blk.addr[i] # j - 1) => w[j] = data[j]
    <3>1. CASE j \in 1 .. l
      BY <1>2, <1>4, <3>1 DEF Spells
    <3>2. CASE j = l + 1
      BY <1>1, <1>2, <1>4, <1>6, <2>2, <3>2
    <3> QED BY <1>5, <3>1, <3>2
  <2> QED BY <1>2, <1>4, <2>1, <2>3 DEF Spells, w, next
<1>8. CASE a # b
  <2> DEFINE addr == Append(blk.addr, Len(data) - 1)
             change == Append(blk.change, b)
  <2>1. next.data = data /\ next.addr = addr /\ next.change = change
    <3>1. next = [addr |-> addr, change |-> change, data |-> data]
      BY <1>8 DEF Push
    <3> HIDE DEF addr, change, data, next
    <3> QED BY <3>1
  <2>2. Len(data) - 1 = l
    <3> HIDE DEF data
    <3> QED BY <1>1, <1>2
  <2>3. /\ Len(addr) = n + 1 /\ \A i \in 1 .. n : addr[i] = blk.addr[i]
        /\ addr[n + 1] = l
    <3>1. l \in Byte
      <4>1. 1 + n + n + l <= BSIZE
        BY <1>1 DEF Fits, block_len
      <4> HIDE DEF l, n
      <4>2. l \in Int /\ 0 <= l /\ l <= BSIZE - 1
        BY <1>1, <4>1, BlockSize
      <4> QED BY <4>2, ByteRange
    <3> QED BY <1>1, <2>2, <3>1, Appended
  <2>4. /\ Len(change) = n + 1 /\ \A i \in 1 .. n : change[i] = blk.change[i]
        /\ change[n + 1] = b
    BY <1>1, Appended
  <2> HIDE DEF data, w, next, addr, change
  <2>5. \A i \in 1 .. (n + 1) : i \in 1 .. n \/ i = n + 1
    BY <1>1
  <2>6. ASSUME NEW j \in 1 .. (l + 1)
        PROVE  /\ shift => \A i \in 1 .. (n + 1) : addr[i] = j - 1 => w[j] = change[i]
               /\ (~shift \/ \A i \in 1 .. (n + 1) : addr[i] # j - 1) => w[j] = data[j]
    <3>1. CASE j \in 1 .. l
      <4>1. /\ shift => \A i \in 1 .. n : blk.addr[i] = j - 1 => v[j] = blk.change[i]
            /\ (~shift \/ \A i \in 1 .. n : blk.addr[i] # j - 1) => v[j] = blk.data[j]
        BY <3>1 DEF Spells
      <4>2. addr[n + 1] # j - 1
        BY <1>1, <2>3, <3>1
      <4>3. \A i \in 1 .. n : i \in 1 .. (n + 1)
        BY <1>1
      <4> QED BY <1>2, <1>4, <2>3, <2>4, <2>5, <3>1, <4>1, <4>2, <4>3
    <3>2. CASE j = l + 1
      <4>1. \A i \in 1 .. n : addr[i] # j - 1
        BY <1>1, <1>6, <2>3, <3>2
      <4>2. n + 1 \in 1 .. (n + 1) /\ addr[n + 1] = j - 1
        BY <1>1, <2>3, <3>2
      <4>3. w[j] = x /\ data[j] = a
        BY <1>2, <1>4, <3>2
      <4>4. CASE shift
        BY <2>4, <2>5, <4>1, <4>2, <4>3, <4>4
      <4>5. CASE ~shift
        BY <4>3, <4>5
      <4> QED BY <4>4, <4>5
    <3> QED BY <1>5, <3>1, <3>2
  <2> QED BY <1>2, <1>4, <2>1, <2>3, <2>6 DEF Spells, w, next
<1> QED BY <1>7, <1>8

\* Where the decoder finds the parts of an encoder's block.
LEMMA FlushedIs ==
  ASSUME NEW blk, Fits(blk), BlockFull(blk), NEW f, f = Flushed(blk)
  PROVE  LET n == Len(blk.addr) IN
         /\ f \in Block /\ Header(f).full /\ Offs(f) \in Nat /\ n \in Nat
         /\ Cnt(f) = n /\ Offs(f) + Len(blk.data) = BSIZE
         /\ \A i \in 1 .. n : Off(f, i) = blk.addr[i] /\ Change(f, i) = blk.change[i]
         /\ \A j \in 1 .. Len(blk.data) : f[Offs(f) + j] = blk.data[j]
<1> DEFINE n == Len(blk.addr)
           pad == BSIZE - block_len(blk)
           l == Len(blk.data)
<1>1. /\ pad \in 0 .. 2 /\ 1 + pad + n + n + l = BSIZE
      /\ f \in Seq(Byte) /\ Len(f) = BSIZE /\ Parts(f, pad, blk)
  BY FlushedParts
<1>2. Header(f) = [full |-> TRUE, cnt |-> pad + n] /\ Skipped(f) = pad
  BY PaddingFound
<1>3. n \in Nat /\ l \in Nat /\ pad \in Nat
  BY <1>1, LenProperties DEF Fits
<1> HIDE DEF pad
<1>4. f \in Block /\ Header(f).full /\ Header(f).cnt = pad + n
  <2>1. f \in Block
    BY <1>1 DEF Block
  <2>2. Header(f).full = TRUE /\ Header(f).cnt = pad + n
    BY <1>2
  <2> QED BY <2>1, <2>2
<1>5. Cnt(f) = n
  BY <1>2, <1>3, <1>4 DEF Cnt
<1>6. Pos(f) = 1 + pad /\ Diff(f) = 1 + pad + n /\ Offs(f) = 1 + pad + n + n
  <2>1. Skipped(f) = pad /\ Pos(f) = 1 + Skipped(f) /\ Diff(f) = 1 + Skipped(f) + Cnt(f)
        /\ Offs(f) = 1 + Skipped(f) + 2 * Cnt(f)
    BY <1>2, <1>4, PartPlaces
  <2> HIDE DEF n
  <2>2. 2 * Cnt(f) = n + n
    BY <1>3, <1>5
  <2>3. Pos(f) = 1 + pad
    BY <2>1
  <2>4. Diff(f) = 1 + pad + n
    BY <1>5, <2>1
  <2>5. Offs(f) = 1 + pad + (n + n)
    BY <2>1, <2>2
  <2>6. 1 + pad + (n + n) = 1 + pad + n + n
    BY <1>3
  <2> QED BY <2>3, <2>4, <2>5, <2>6
<1>7. \A i \in 1 .. n : Off(f, i) = blk.addr[i] /\ Change(f, i) = blk.change[i]
  BY <1>1, <1>6 DEF Parts, Off, Change
<1>8. \A j \in 1 .. l : f[Offs(f) + j] = blk.data[j]
  BY <1>1, <1>6 DEF Parts
<1>9. Offs(f) \in Nat /\ Offs(f) + l = BSIZE
  <2>1. 1 + pad + n + n + l = BSIZE
    BY <1>1
  <2> HIDE DEF l, n
  <2>2. 1 + pad + n + n \in Nat
    BY <1>3
  <2> QED BY <1>6, <2>1, <2>2
<1> HIDE DEF l
<1> QED BY <1>3, <1>4, <1>5, <1>7, <1>8, <1>9 DEF l

(***************************************************************************)
(* Both variants come out of every block of the encoder, all of their      *)
(* bytes and no others, and no error ("Variant A OK", "Variant B OK").     *)
(***************************************************************************)
THEOREM BothDecode ==
  ASSUME NEW blk, Fits(blk), BlockFull(blk), NEW shift \in BOOLEAN,
         NEW v, Spells(blk, shift, v)
  PROVE  DecodedBlock(Flushed(blk), shift).bytes = v /\ ~DecodedBlock(Flushed(blk), shift).error
<1> DEFINE f == Flushed(blk)
           n == Len(blk.addr)
           l == Len(blk.data)
<1>1. /\ f \in Block /\ Header(f).full /\ Offs(f) \in Nat /\ n \in Nat
      /\ Cnt(f) = n /\ Offs(f) + l = BSIZE
      /\ \A i \in 1 .. n : Off(f, i) = blk.addr[i] /\ Change(f, i) = blk.change[i]
      /\ \A j \in 1 .. l : f[Offs(f) + j] = blk.data[j]
  <2>1. f = Flushed(blk)
    OBVIOUS
  <2> HIDE DEF f
  <2> QED BY <2>1, FlushedIs
<1>2. WellFormed(f, shift)
  BY BlocksAreWellFormed
<1> HIDE DEF f
<1>3. ~DecodedBlock(f, shift).error /\ DecodedBlock(f, shift).bytes = Meaning(f, shift)
  BY <1>1, <1>2, DecodesByTheFormat
<1>4. v \in Seq(Byte) /\ Len(v) = l /\ l \in Nat
  BY LenProperties DEF Spells
<1>5. Meaning(f, shift) =
        [j \in 1 .. (BSIZE - Offs(f)) |->
           IF shift /\ EntryFor(f, j) # {} THEN Change(f, OneOf(EntryFor(f, j)))
           ELSE f[Offs(f) + j]]
  <2>1. Offs(f) <= BSIZE
    <3> HIDE DEF l
    <3> QED BY <1>1, <1>4, BlockSize
  <2> QED BY <1>1, <2>1, MeaningIs
<1>6. BSIZE - Offs(f) = l
  <2> HIDE DEF l
  <2> QED BY <1>1, <1>4, BlockSize
<1>7. ASSUME NEW j \in 1 .. l
      PROVE  v[j] = IF shift /\ EntryFor(f, j) # {} THEN Change(f, OneOf(EntryFor(f, j)))
                    ELSE f[Offs(f) + j]
  <2>1. \A i : i \in EntryFor(f, j) <=> i \in 1 .. n /\ blk.addr[i] = j - 1
    BY <1>1 DEF EntryFor
  <2>2. CASE shift /\ EntryFor(f, j) # {}
    <3> DEFINE i == OneOf(EntryFor(f, j))
    <3>1. i \in EntryFor(f, j)
      BY <2>2, Zenon DEF OneOf
    <3> HIDE DEF i
    <3>2. i \in 1 .. n /\ blk.addr[i] = j - 1
      BY <2>1, <3>1
    <3>3. v[j] = blk.change[i]
      BY <1>7, <2>2, <3>2 DEF Spells
    <3>4. v[j] = Change(f, i)
      BY <1>1, <3>2, <3>3
    <3> QED BY <2>2, <3>4 DEF i
  <2>3. CASE ~(shift /\ EntryFor(f, j) # {})
    <3>1. ~shift \/ \A i \in 1 .. n : blk.addr[i] # j - 1
      BY <2>1, <2>3
    <3>2. v[j] = blk.data[j]
      BY <1>7, <3>1 DEF Spells
    <3> QED BY <1>1, <2>3, <3>2
  <2> QED BY <2>2, <2>3
<1>8. v = [j \in 1 .. l |-> v[j]]
  BY <1>4, LenProperties
<1>9. Meaning(f, shift) = v
  <2> DEFINE E(j) == IF shift /\ EntryFor(f, j) # {} THEN Change(f, OneOf(EntryFor(f, j)))
                     ELSE f[Offs(f) + j]
  <2>1. Meaning(f, shift) = [j \in 1 .. l |-> E(j)]
    BY <1>5, <1>6
  <2>2. \A j \in 1 .. l : v[j] = E(j)
    BY <1>7
  <2> HIDE DEF E
  <2> QED BY <1>8, <2>1, <2>2
<1> QED BY <1>3, <1>9 DEF f
=============================================================================
