-------------------------- MODULE UsartRx_proofs --------------------------
(***************************************************************************)
(* The receive buffers of usart_mini.c, for rings, buffers and counts of   *)
(* every size: the safety properties of UsartRx.                           *)
(***************************************************************************)
EXTENDS UsartRx, SequenceTheorems, TLAPS

----------------------------------------------------------------------------
(* Arithmetic of indices that wrap *)

LEMMA DivMod ==
  ASSUME NEW n \in Nat \ {0}, NEW a \in Nat
  PROVE  /\ a \div n \in Int /\ a % n \in 0 .. (n - 1)
         /\ a = n * (a \div n) + (a % n)
BY SMTT(30)

LEMMA ModUnique ==
  ASSUME NEW n \in Nat \ {0}, NEW q \in Int, NEW r \in 0 .. (n - 1)
  PROVE  (n * q + r) % n = r
BY SMTT(30)

\* Numbers that are less than a ring apart have cells of their own.
LEMMA ModApart ==
  ASSUME NEW n \in Nat \ {0}, NEW a \in Nat, NEW b \in Nat, a < b, b - a < n
  PROVE  a % n # b % n
<1> DEFINE p == a \div n
           q == b \div n
<1>1. /\ p \in Int /\ q \in Int
      /\ a = n * p + (a % n) /\ b = n * q + (b % n)
      /\ a % n \in 0 .. (n - 1) /\ b % n \in 0 .. (n - 1)
  BY DivMod
<1>2. CASE q <= p
  <2>1. n * q <= n * p
    <3> HIDE DEF p, q
    <3> QED BY <1>1, <1>2, SMTT(30)
  <2> QED BY <2>1, <1>1, n * p \in Int, n * q \in Int
<1>3. CASE p + 1 <= q
  <2>1. n * q >= n * p + n
    <3> HIDE DEF p, q
    <3> QED BY <1>1, <1>3, SMTT(30)
  <2> QED BY <2>1, <1>1, n * p \in Int, n * q \in Int
<1> QED BY <1>1, <1>2, <1>3

\* Whole rings more or less make no difference.
LEMMA ModRings ==
  ASSUME NEW n \in Nat \ {0}, NEW a \in Nat, NEW b \in Nat
  PROVE  (a + b - (b % n)) % n = a % n
<1> DEFINE p == a \div n
           q == b \div n
           r == a % n
           s == b % n
<1>1. /\ p \in Int /\ q \in Int
      /\ a = n * p + r /\ b = n * q + s
      /\ r \in 0 .. (n - 1) /\ s \in 0 .. (n - 1)
  BY DivMod
<1>2. (n * (p + q) + r) % n = r
  BY <1>1, ModUnique, p + q \in Int
<1> HIDE DEF p, q, r, s
<1>3. n * (p + q) = n * p + n * q
  BY <1>1, SMTT(30)
<1>4. a + b - s = n * (p + q) + r
  BY <1>1, <1>3
<1> QED BY <1>2, <1>4 DEF r, s

LEMMA ModStep ==
  ASSUME NEW n \in Nat \ {0}, NEW a \in Nat
  PROVE  ((a % n) + 1) % n = (a + 1) % n
<1> DEFINE p == a \div n
           r == a % n
<1>1. p \in Int /\ r \in 0 .. (n - 1) /\ a = n * p + r
  BY DivMod
<1> HIDE DEF p, r
<1>2. CASE r + 1 < n
  <2>1. a + 1 = n * p + (r + 1) /\ n * 0 + (r + 1) = r + 1
    BY <1>1, n * p \in Int
  <2>2. (n * p + (r + 1)) % n = r + 1 /\ (n * 0 + (r + 1)) % n = r + 1
    BY <1>1, <1>2, ModUnique, r + 1 \in 0 .. (n - 1)
  <2> QED BY <2>1, <2>2 DEF r
<1>3. CASE r + 1 = n
  <2>1. a + 1 = n * (p + 1) + 0 /\ r + 1 = n * 1 + 0
    BY <1>1, <1>3, SMTT(30)
  <2>2. (n * (p + 1) + 0) % n = 0 /\ (n * 1 + 0) % n = 0
    BY <1>1, ModUnique, p + 1 \in Int, 0 \in 0 .. (n - 1)
  <2> QED BY <2>1, <2>2 DEF r
<1> QED BY <1>1, <1>2, <1>3

----------------------------------------------------------------------------
(* Types, the position in the ring, and the promise of a count *)

\* Where bytes are being taken, receive_count still covers all that are wanted.
Covered == pc \in {"byte", "test", "take"} => receive_count >= want

BufferInv == TypeOK /\ InStep /\ Covered

\* One call of rx_dma_check, before its copy loop.
LEMMA Checked ==
  ASSUME BufferInv, NEW returnTo, rx_dma_check(returnTo)
  PROVE  /\ cnt' \in 0 .. RX_DMA_SIZE /\ rx_dma_old_cnt' = Transferred
         /\ cnt' <= Transferred
         /\ Fetched' = Transferred - cnt' /\ Fetched' \in Fetched .. Transferred
         /\ rx_dma_old_pos = Fetched' % RX_DMA_SIZE
         /\ rx_overfulls' \in Nat
         /\ rx_overfulls' = 0 => rx_overfulls = 0 /\ Fetched' = Fetched
<1> DEFINE arrived == Transferred - rx_dma_old_cnt
<1>1. arrived \in Nat /\ cnt = 0 /\ Fetched = rx_dma_old_cnt /\ Transferred \in Nat
      /\ rx_dma_old_cnt \in Nat /\ RX_DMA_SIZE \in Nat \ {0}
  BY UsartAssumption DEF BufferInv, TypeOK, Transferred, Fetched, rx_dma_check
<1>2. /\ rx_dma_old_cnt' = Transferred /\ cnt' = ToCopy(arrived)
      /\ rx_overfulls' = rx_overfulls + DmaOverfull(arrived)
  BY DEF rx_dma_check
<1>3. Fetched' = Transferred - cnt'
  BY <1>2 DEF Fetched
<1>4. rx_dma_old_pos = Fetched % RX_DMA_SIZE /\ rx_overfulls \in Nat
  BY DEF BufferInv, TypeOK, InStep
<1> HIDE DEF arrived
<1>5. CASE arrived > RX_DMA_SIZE
  <2>1. cnt' = arrived % RX_DMA_SIZE /\ rx_overfulls' = rx_overfulls + (arrived - RX_DMA_SIZE)
    BY <1>2, <1>5 DEF ToCopy, DmaOverfull
  <2>2. cnt' \in 0 .. (RX_DMA_SIZE - 1)
    BY <2>1, <1>1, DivMod
  <2>3. Fetched' = rx_dma_old_cnt + arrived - (arrived % RX_DMA_SIZE)
    BY <1>1, <1>3, <2>1, <2>2 DEF arrived
  <2>4. Fetched' % RX_DMA_SIZE = rx_dma_old_cnt % RX_DMA_SIZE
    BY <1>1, <2>3, ModRings
  <2>5. Fetched' \in Fetched .. Transferred
    <3>1. cnt' < Transferred - rx_dma_old_cnt /\ cnt' \in Nat
      BY <1>1, <1>5, <2>2 DEF arrived
    <3>2. ASSUME NEW old \in Nat, NEW new \in Nat, NEW left \in Nat, left < new - old
          PROVE  new - left \in old .. new
      BY <3>2
    <3>3. Transferred - cnt' \in rx_dma_old_cnt .. Transferred
      BY <1>1, <3>1, <3>2
    <3> QED BY <1>1, <1>3, <3>3, Zenon
  <2>6. rx_overfulls' \in Nat /\ rx_overfulls' # 0
    BY <1>1, <1>4, <1>5, <2>1
  <2>7. cnt' <= Transferred
    BY <1>1, <1>5, <2>2 DEF arrived
  <2> QED BY <1>1, <1>2, <1>3, <1>4, <2>2, <2>4, <2>5, <2>6, <2>7
<1>6. CASE ~(arrived > RX_DMA_SIZE)
  <2>1. cnt' = arrived /\ rx_overfulls' = rx_overfulls
    BY <1>2, <1>4, <1>6 DEF ToCopy, DmaOverfull
  <2>2. Fetched' = Fetched
    BY <1>1, <1>3, <2>1 DEF arrived
  <2> QED BY <1>1, <1>2, <1>3, <1>4, <1>6, <2>1, <2>2 DEF arrived
<1> QED BY <1>5, <1>6

LEMMA InitBuffer == Init => BufferInv
<1> SUFFICES ASSUME Init PROVE BufferInv
  OBVIOUS
<1>1. 0 % RX_DMA_SIZE = 0
  BY UsartAssumption, SMTT(30)
<1> QED BY <1>1, UsartAssumption
     DEF Init, BufferInv, TypeOK, InStep, Covered, Transferred, Fetched

LEMMA NextBuffer == BufferInv /\ [Next]_vars => BufferInv'
<1> SUFFICES ASSUME BufferInv, [Next]_vars PROVE BufferInv'
  OBVIOUS
<1> USE UsartAssumption
<1>t. /\ TypeOK /\ InStep /\ Covered
      /\ Transferred \in Nat /\ Fetched \in Nat /\ Transferred <= RX_INITIAL
      /\ Fetched <= Transferred
  BY DEF BufferInv, TypeOK, Transferred, Fetched
<1>1. CASE Transfer
  <2>1. Transferred' = Transferred + 1 /\ Fetched' = Fetched /\ Transferred + 1 <= RX_INITIAL
    BY <1>1, <1>t DEF Transfer, checkVars, Transferred, Fetched, TypeOK
  <2>2. rxDMAbuf' \in [0 .. (RX_DMA_SIZE - 1) -> 0 .. RX_INITIAL]
    BY <1>1, <1>t, <2>1 DEF Transfer, TypeOK
  <2> QED BY <1>1, <1>t, <2>1, <2>2
       DEF Transfer, checkVars, bufferVars, readerVars, BufferInv, TypeOK, InStep, Covered,
           receive_count, Fetched
<1>2. CASE CopyByte
  <2>1. Fetched' = Fetched + 1 /\ Transferred' = Transferred
    BY <1>2, <1>t DEF CopyByte, dmaVars, Fetched, Transferred, TypeOK
  <2>2. rx_dma_old_pos' = (Fetched + 1) % RX_DMA_SIZE /\ rx_dma_old_pos' \in 0 .. (RX_DMA_SIZE - 1)
    <3>1. rx_dma_old_pos' = ((Fetched % RX_DMA_SIZE) + 1) % RX_DMA_SIZE
      BY <1>2, <1>t, Zenon DEF CopyByte, InStep
    <3>2. ((Fetched % RX_DMA_SIZE) + 1) % RX_DMA_SIZE = (Fetched + 1) % RX_DMA_SIZE
      BY <1>t, ModStep
    <3>3. (Fetched + 1) % RX_DMA_SIZE \in 0 .. (RX_DMA_SIZE - 1)
      BY <1>t, DivMod
    <3> QED BY <3>1, <3>2, <3>3, Zenon
  <2>3. rx_buffer' \in [0 .. (RX_BUFFER_SIZE - 1) -> 0 .. RX_INITIAL]
    BY <1>2, <1>t DEF CopyByte, TypeOK
  <2>4. /\ rx_pos_write' = rx_pos_write + 1 /\ rx_pos_write' \in 0 .. Fetched'
        /\ rx_pos_read' = rx_pos_read /\ rx_pos_read' \in 0 .. rx_pos_write'
    BY <1>2, <1>t, <2>1 DEF CopyByte, TypeOK
  <2>5. InStep'
    BY <2>1, <2>2, Zenon DEF InStep
  <2>6. TypeOK'
    BY <1>2, <1>t, <2>1, <2>2, <2>3, <2>4 DEF CopyByte, dmaVars, readerVars, TypeOK
  <2>7. Covered'
    BY <1>2, <1>t, <2>4 DEF CopyByte, readerVars, TypeOK, Covered, receive_count
  <2> QED BY <2>5, <2>6, <2>7 DEF BufferInv
<1>3. ASSUME NEW returnTo \in {"idle", "count", "test", "take"}, rx_dma_check(returnTo),
             UNCHANGED bufferVars, got' = got, want' \in 0 .. (RX_BUFFER_SIZE - 1),
             want' = 0 <=> returnTo = "idle",
             returnTo \in {"test", "take"} => receive_count >= want'
      PROVE  BufferInv'
  <2>1. Transferred' = Transferred /\ UNCHANGED <<dmaVars, rx_dma_old_pos, lapped>> /\ pc' = returnTo
    BY <1>3 DEF rx_dma_check, dmaVars, Transferred
  <2>2. receive_count' = receive_count
    BY <1>3 DEF bufferVars, receive_count
  <2>3. /\ cnt' \in 0 .. RX_DMA_SIZE /\ rx_dma_old_cnt' = Transferred
        /\ cnt' <= Transferred
        /\ Fetched' \in Fetched .. Transferred
        /\ rx_dma_old_pos = Fetched' % RX_DMA_SIZE
        /\ rx_overfulls' \in Nat
    BY <1>3, Checked
  <2>4. rx_pos_write' \in 0 .. Fetched'
    BY <1>3, <1>t, <2>3 DEF bufferVars, TypeOK
  <2>5. InStep'
    BY <2>1, <2>3, Zenon DEF InStep
  <2>6. TypeOK'
    <3>1. rx_dma_old_cnt' \in 0 .. Transferred' /\ cnt' <= rx_dma_old_cnt'
      BY <1>t, <2>1, <2>3
    <3>2. rx_pos_write' \in 0 .. Fetched' /\ rx_pos_read' \in 0 .. rx_pos_write'
      BY <1>3, <1>t, <2>4 DEF bufferVars, TypeOK
    <3>3. pc' \in {"idle", "count", "byte", "test", "take"} /\ (want' = 0 <=> pc' = "idle")
      BY <1>3, <2>1
    <3>4. UNCHANGED <<transfer_count, rxDMAbuf, rx_dma_old_pos, rx_buffer, got, lapped>>
      BY <1>3, <2>1 DEF dmaVars, bufferVars
    <3> QED BY <1>3, <1>t, <2>3, <3>1, <3>2, <3>3, <3>4 DEF TypeOK
  <2>7. Covered'
    BY <1>3, <2>1, <2>2 DEF Covered
  <2> QED BY <2>5, <2>6, <2>7 DEF BufferInv
<1>4. CASE CheckOnly
  BY <1>3, <1>4, <1>t DEF CheckOnly, readerVars, TypeOK
<1>5. ASSUME NEW n \in NBytes, receive_n_bytes(n) PROVE BufferInv'
  BY <1>3, <1>5, <1>t DEF receive_n_bytes
<1>6. CASE CountSeen
  <2>1. Transferred' = Transferred /\ Fetched' = Fetched /\ receive_count' = receive_count
    BY <1>6 DEF CountSeen, dmaVars, checkVars, bufferVars, Transferred, Fetched, receive_count
  <2>2. want # 0
    BY <1>6, <1>t DEF CountSeen, TypeOK
  <2>3. /\ pc' \in {"byte", "idle"} /\ want' \in 0 .. (RX_BUFFER_SIZE - 1)
        /\ (want' = 0 <=> pc' = "idle")
        /\ pc' = "byte" => want' = want /\ receive_count >= want
    BY <1>6, <1>t, <2>2 DEF CountSeen, TypeOK, Enough
  <2>4. UNCHANGED <<transfer_count, rxDMAbuf, rx_dma_old_cnt, rx_dma_old_pos, cnt, rx_buffer,
                    rx_pos_write, rx_pos_read, rx_overfulls, got, lapped>>
    BY <1>6 DEF CountSeen, dmaVars, checkVars, bufferVars
  <2>5. TypeOK'
    BY <1>t, <2>1, <2>3, <2>4 DEF TypeOK
  <2>6. InStep'
    BY <1>t, <2>1, <2>4, Zenon DEF InStep
  <2>7. Covered'
    BY <2>1, <2>3 DEF Covered
  <2> QED BY <2>5, <2>6, <2>7 DEF BufferInv
<1>7. CASE receive_byte
  BY <1>3, <1>7, <1>t DEF receive_byte, readerVars, TypeOK, Covered
<1>8. CASE EmptyTest
  <2>1. rx_pos_read # rx_pos_write
    BY <1>8, <1>t DEF EmptyTest, TypeOK, Covered, receive_count
  <2> QED BY <1>3, <1>8, <1>t, <2>1 DEF EmptyTest, readerVars, TypeOK, Covered
<1>9. CASE TakeByte
  <2>1. Transferred' = Transferred /\ Fetched' = Fetched /\ pc = "take" /\ want \in 1 .. (RX_BUFFER_SIZE - 1)
        /\ receive_count >= want /\ rx_pos_write \in Nat /\ rx_pos_read \in Nat
    BY <1>9, <1>t DEF TakeByte, dmaVars, checkVars, Transferred, Fetched, TypeOK, Covered
  <2>2. ReadFrom \in 0 .. (rx_pos_write - 1) /\ rx_pos_write - (ReadFrom + 1) >= want - 1
    BY <2>1 DEF ReadFrom, Overrun, receive_count
  <2>3. rx_pos_read' = ReadFrom + 1 /\ rx_pos_write' = rx_pos_write
    BY <1>9 DEF TakeByte
  <2>4. rx_pos_read' \in 0 .. rx_pos_write' /\ receive_count' >= want'
    BY <1>9, <2>1, <2>2, <2>3 DEF receive_count, TakeByte
  <2>5. got' \in Seq(0 .. RX_INITIAL)
    <3>1. ReadFrom % RX_BUFFER_SIZE \in 0 .. (RX_BUFFER_SIZE - 1)
      BY <2>1, <2>2, DivMod
    <3>2. rx_buffer[ReadFrom % RX_BUFFER_SIZE] \in 0 .. RX_INITIAL
      BY <1>t, <3>1, Zenon DEF TypeOK
    <3> QED BY <1>9, <1>t, <3>2 DEF TakeByte, TypeOK
  <2>6. want' \in 0 .. (RX_BUFFER_SIZE - 1) /\ (want' = 0 <=> pc' = "idle") /\ pc' \in {"idle", "byte"}
    BY <1>9, <2>1 DEF TakeByte
  <2>7. rx_overfulls' \in Nat
    BY <1>9, <1>t DEF TakeByte, TypeOK
  <2> QED BY <1>9, <1>t, <2>1, <2>3, <2>4, <2>5, <2>6, <2>7
       DEF TakeByte, dmaVars, checkVars, BufferInv, TypeOK, InStep, Covered
<1>10. CASE UNCHANGED vars
  BY <1>10, <1>t DEF vars, dmaVars, checkVars, bufferVars, readerVars, BufferInv, TypeOK, InStep,
       Covered, Transferred, Fetched, receive_count
<1> QED BY <1>1, <1>2, <1>4, <1>5, <1>6, <1>7, <1>8, <1>9, <1>10 DEF Next, Thread

LEMMA BufferInvariant == Spec => []BufferInv
BY InitBuffer, NextBuffer, PTL DEF Spec

(***************************************************************************)
(* Types and bounds: no index leaves its buffer, no position passes the    *)
(* number of transfers, for buffers of any size.                           *)
(***************************************************************************)
THEOREM TypeCorrect == Spec => []TypeOK
<1>1. BufferInv => TypeOK
  BY DEF BufferInv
<1> QED BY <1>1, BufferInvariant, PTL

(***************************************************************************)
(* rx_dma_old_pos points at the cell of the next byte, however many rings  *)
(* were lost in between.                                                   *)
(***************************************************************************)
THEOREM StaysInStep == Spec => []InStep
<1>1. BufferInv => InStep
  BY DEF BufferInv
<1> QED BY <1>1, BufferInvariant, PTL

(***************************************************************************)
(* receive_n_bytes may ignore what receive_byte returns: what              *)
(* receive_count has promised is there, through any overrun in between.    *)
(***************************************************************************)
THEOREM CountIsAPromise == Spec => []PromiseKept
<1>1. BufferInv => PromiseKept
  BY DEF BufferInv, TypeOK, Covered, receive_count, PromiseKept
<1> QED BY <1>1, BufferInvariant, PTL

----------------------------------------------------------------------------
(* What the ring, the buffer and the bytes handed out contain *)

\* A position of rx_buffer that is not overwritten yet, and its byte.
InBuffer(p) == p \in Nat /\ p < rx_pos_write /\ rx_pos_write - RX_BUFFER_SIZE <= p
At(p) == rx_buffer[p % RX_BUFFER_SIZE]

\* The ring holds the last bytes of the DMA, and while it does not lap the copy
\* loop, all that the loop is still to copy.
RingInv ==
  /\ \A j \in 1 .. Transferred :
       Transferred - RX_DMA_SIZE < j => rxDMAbuf[(j - 1) % RX_DMA_SIZE] = j
  /\ ~lapped /\ cnt > 0 => Transferred - Fetched <= RX_DMA_SIZE

\* Bytes rise from position to position, and from the last one handed out.
OrderInv ==
  ~lapped =>
    /\ \A p \in Nat : InBuffer(p) => At(p) <= Fetched
    /\ \A p, q \in Nat : InBuffer(p) /\ InBuffer(q) /\ p < q => At(p) < At(q)
    /\ \A i \in 1 .. Len(got) :
         /\ got[i] <= Fetched
         /\ \A p \in Nat : InBuffer(p) /\ rx_pos_read <= p => got[i] < At(p)
    /\ Increasing(got)

\* While nothing is lost, a byte is at the position of its number.
CountedInv ==
  rx_overfulls = 0 /\ ~lapped =>
    /\ Len(got) = rx_pos_read /\ rx_pos_write = Fetched
    /\ \A i \in 1 .. Len(got) : got[i] = i
    /\ \A p \in Nat : InBuffer(p) => At(p) = p + 1

ContentInv == RingInv /\ OrderInv /\ CountedInv

LEMMA InitContent == Init => ContentInv
<1> SUFFICES ASSUME Init PROVE ContentInv
  OBVIOUS
<1>1. Transferred = 0 /\ Fetched = 0 /\ cnt = 0
  BY UsartAssumption DEF Init, Transferred, Fetched
<1>2. \A p \in Nat : ~InBuffer(p)
  BY DEF Init, InBuffer
<1>3. got = <<>> /\ Len(got) = 0 /\ rx_pos_read = 0 /\ rx_pos_write = 0
  BY DEF Init
<1>4. RingInv
  BY <1>1 DEF RingInv
<1>5. OrderInv
  BY <1>2, <1>3 DEF OrderInv, Increasing
<1>6. CountedInv
  BY <1>1, <1>2, <1>3 DEF CountedInv
<1> QED BY <1>4, <1>5, <1>6 DEF ContentInv

\* The copy loop reads the byte it believes to read.
LEMMA RingByte ==
  ASSUME BufferInv, RingInv, ~lapped, cnt > 0
  PROVE  rxDMAbuf[rx_dma_old_pos] = Fetched + 1
<1>1. /\ Fetched \in Nat /\ Fetched + 1 \in 1 .. Transferred
      /\ Transferred - RX_DMA_SIZE < Fetched + 1
  BY UsartAssumption DEF BufferInv, TypeOK, RingInv, Fetched, Transferred
<1>2. rxDMAbuf[((Fetched + 1) - 1) % RX_DMA_SIZE] = Fetched + 1
  BY <1>1 DEF RingInv
<1>3. (Fetched + 1) - 1 = Fetched
  BY <1>1
<1>4. rx_dma_old_pos = Fetched % RX_DMA_SIZE
  BY DEF BufferInv, InStep
<1> QED BY <1>2, <1>3, <1>4, Zenon

\* CopyByte writes one position of the buffer, and leaves the others.
LEMMA BufferBytes ==
  ASSUME BufferInv, CopyByte, NEW p \in Nat
  PROVE  /\ p = rx_pos_write => At(p)' = rxDMAbuf[rx_dma_old_pos]
         /\ InBuffer(p)' /\ p # rx_pos_write => InBuffer(p) /\ At(p)' = At(p)
<1> DEFINE w == rx_pos_write
           i == p % RX_BUFFER_SIZE
           j == w % RX_BUFFER_SIZE
<1>1. /\ w \in Nat /\ RX_BUFFER_SIZE \in Nat \ {0} /\ rx_pos_write' = w + 1
      /\ rx_buffer \in [0 .. (RX_BUFFER_SIZE - 1) -> 0 .. RX_INITIAL]
      /\ rx_buffer' = [rx_buffer EXCEPT ![j] = rxDMAbuf[rx_dma_old_pos]]
  BY UsartAssumption DEF BufferInv, TypeOK, CopyByte, Fetched
<1>2. i \in 0 .. (RX_BUFFER_SIZE - 1) /\ j \in 0 .. (RX_BUFFER_SIZE - 1)
  BY <1>1, DivMod
<1>3. At(p) = rx_buffer[i] /\ At(p)' = rx_buffer'[i] /\ (p = w => i = j)
  BY DEF At
<1>4. ASSUME InBuffer(p)', p # w PROVE InBuffer(p) /\ i # j
  <2>1. p < w /\ w - p < RX_BUFFER_SIZE
    BY <1>1, <1>4 DEF InBuffer
  <2>2. i # j
    BY <1>1, <2>1, ModApart
  <2> QED BY <1>1, <2>1, <2>2 DEF InBuffer
<1> HIDE DEF i, j
<1> QED BY <1>1, <1>2, <1>3, <1>4 DEF w

LEMMA ContentTypes ==
  ASSUME BufferInv
  PROVE  /\ \A p \in Nat : At(p) \in Int
         /\ \A k \in 1 .. Len(got) : got[k] \in Int
<1>1. /\ rx_buffer \in [0 .. (RX_BUFFER_SIZE - 1) -> 0 .. RX_INITIAL]
      /\ got \in Seq(0 .. RX_INITIAL)
  BY DEF BufferInv, TypeOK
<1>2. 0 .. RX_INITIAL \subseteq Int
  OBVIOUS
<1>3. ASSUME NEW p \in Nat PROVE At(p) \in Int
  <2>1. p % RX_BUFFER_SIZE \in 0 .. (RX_BUFFER_SIZE - 1)
    BY UsartAssumption, DivMod
  <2>2. At(p) \in 0 .. RX_INITIAL
    BY <1>1, <2>1, Zenon DEF At
  <2> QED BY <1>2, <2>2
<1>4. \A k \in 1 .. Len(got) : got[k] \in 0 .. RX_INITIAL
  BY <1>1, ElementOfSeq
<1> QED BY <1>2, <1>3, <1>4, Zenon

LEMMA TransferContent == BufferInv /\ ContentInv /\ Transfer => ContentInv'
<1> SUFFICES ASSUME BufferInv, ContentInv, Transfer PROVE ContentInv'
  OBVIOUS
<1>1. /\ Transferred \in Nat /\ Transferred' = Transferred + 1 /\ Fetched' = Fetched
      /\ Fetched \in Nat /\ RX_DMA_SIZE \in Nat \ {0} /\ cnt' = cnt
      /\ rxDMAbuf \in [0 .. (RX_DMA_SIZE - 1) -> 0 .. RX_INITIAL]
      /\ UNCHANGED <<rx_buffer, rx_pos_write, rx_pos_read, rx_overfulls, got>>
  BY UsartAssumption
     DEF BufferInv, TypeOK, Transfer, Transferred, Fetched, checkVars, bufferVars, readerVars
<1>2. lapped' = (lapped \/ (cnt > 0 /\ Transferred + 1 - Fetched > RX_DMA_SIZE))
  BY DEF Transfer
<1>3. ASSUME NEW j \in 1 .. Transferred', Transferred' - RX_DMA_SIZE < j
      PROVE  rxDMAbuf'[(j - 1) % RX_DMA_SIZE] = j
  <2> DEFINE at == (j - 1) % RX_DMA_SIZE
             here == Transferred % RX_DMA_SIZE
  <2>1. /\ rxDMAbuf' = [rxDMAbuf EXCEPT ![here] = Transferred + 1]
        /\ at \in 0 .. (RX_DMA_SIZE - 1) /\ here \in 0 .. (RX_DMA_SIZE - 1)
    BY <1>1, DivMod, j - 1 \in Nat DEF Transfer
  <2>2. CASE j = Transferred + 1
    <3>1. j - 1 = Transferred
      BY <1>1, <2>2
    <3>2. at = here
      BY <3>1
    <3> HIDE DEF at, here
    <3> QED BY <1>1, <2>1, <2>2, <3>2 DEF at
  <2>3. CASE j # Transferred + 1
    <3>1. j \in 1 .. Transferred /\ Transferred - RX_DMA_SIZE < j
          /\ j - 1 \in Nat /\ j - 1 < Transferred /\ Transferred - (j - 1) < RX_DMA_SIZE
      BY <1>1, <1>3, <2>3
    <3>2. at # here
      BY <1>1, <3>1, ModApart
    <3>3. rxDMAbuf[at] = j
      BY <3>1 DEF ContentInv, RingInv
    <3> HIDE DEF at, here
    <3> QED BY <1>1, <2>1, <3>2, <3>3 DEF at
  <2> QED BY <2>2, <2>3
<1>4. RingInv'
  <2>1. ASSUME ~lapped', cnt' > 0 PROVE Transferred' - Fetched' <= RX_DMA_SIZE
    <3>1. ~(Transferred + 1 - Fetched > RX_DMA_SIZE)
      BY <1>1, <1>2, <2>1
    <3>2. Transferred + 1 - Fetched <= RX_DMA_SIZE
      BY <1>1, <3>1
    <3> QED BY <1>1, <3>2
  <2> QED BY <1>3, <2>1 DEF RingInv
<1>5. \A p \in Nat : (InBuffer(p)' <=> InBuffer(p)) /\ At(p)' = At(p)
  BY <1>1 DEF InBuffer, At
<1>6. OrderInv'
  BY <1>1, <1>2, <1>5 DEF ContentInv, OrderInv, Increasing
<1>7. CountedInv'
  BY <1>1, <1>2, <1>5 DEF ContentInv, CountedInv
<1> QED BY <1>4, <1>6, <1>7 DEF ContentInv

LEMMA CopyContent == BufferInv /\ ContentInv /\ CopyByte => ContentInv'
<1> SUFFICES ASSUME BufferInv, ContentInv, CopyByte PROVE ContentInv'
  OBVIOUS
<1>1. /\ Transferred \in Nat /\ Transferred' = Transferred /\ Fetched' = Fetched + 1
      /\ Fetched \in Nat /\ RX_DMA_SIZE \in Nat /\ cnt \in Nat /\ cnt > 0 /\ cnt' = cnt - 1
      /\ rx_pos_write \in Nat /\ rx_pos_write' = rx_pos_write + 1 /\ rx_pos_read \in Nat
      /\ rx_pos_read <= rx_pos_write
      /\ UNCHANGED <<rxDMAbuf, rx_pos_read, rx_overfulls, got, lapped>>
  BY UsartAssumption DEF BufferInv, TypeOK, CopyByte, Transferred, Fetched, dmaVars, readerVars
<1>2. RingInv'
  BY <1>1 DEF ContentInv, RingInv
<1>3. ASSUME ~lapped, NEW p \in Nat, InBuffer(p)'
      PROVE  \/ p = rx_pos_write /\ At(p)' = Fetched + 1
             \/ InBuffer(p) /\ At(p)' = At(p) /\ p < rx_pos_write
  <2>1. rxDMAbuf[rx_dma_old_pos] = Fetched + 1
    BY <1>1, <1>3, RingByte DEF ContentInv
  <2> QED BY <1>1, <1>3, <2>1, BufferBytes DEF InBuffer
<1>4. OrderInv'
  <2> SUFFICES ASSUME ~lapped PROVE OrderInv'
    BY <1>1 DEF OrderInv
  <2>1. /\ \A p \in Nat : InBuffer(p) => At(p) <= Fetched
        /\ \A p, q \in Nat : InBuffer(p) /\ InBuffer(q) /\ p < q => At(p) < At(q)
        /\ \A k \in 1 .. Len(got) :
             got[k] <= Fetched /\ \A p \in Nat : InBuffer(p) /\ rx_pos_read <= p => got[k] < At(p)
        /\ Increasing(got)
    BY DEF ContentInv, OrderInv
  <2>2. \A p \in Nat : At(p) \in Int
    BY ContentTypes
  <2>3. \A k \in 1 .. Len(got) : got[k] \in Int
    BY ContentTypes
  <2>4. ASSUME NEW p \in Nat, InBuffer(p)' PROVE At(p)' <= Fetched'
    BY <1>1, <1>3, <2>1, <2>2, <2>4
  <2>5. ASSUME NEW p \in Nat, NEW q \in Nat, InBuffer(p)', InBuffer(q)', p < q
        PROVE  At(p)' < At(q)'
    <3>1. p < rx_pos_write /\ InBuffer(p) /\ At(p)' = At(p) /\ At(p) <= Fetched
      BY <1>1, <1>3, <2>1, <2>5 DEF InBuffer
    <3> QED BY <1>1, <1>3, <2>1, <2>2, <2>5, <3>1
  <2>6. ASSUME NEW k \in 1 .. Len(got'), NEW p \in Nat, InBuffer(p)', rx_pos_read' <= p
        PROVE  got'[k] < At(p)'
    BY <1>1, <1>3, <2>1, <2>2, <2>3, <2>6
  <2>7. \A k \in 1 .. Len(got') : got'[k] <= Fetched'
    BY <1>1, <2>1, <2>3
  <2>8. Increasing(got')
    BY <1>1, <2>1
  <2> QED BY <2>4, <2>5, <2>6, <2>7, <2>8 DEF OrderInv
<1>5. CountedInv'
  BY <1>1, <1>3 DEF ContentInv, CountedInv
<1> QED BY <1>2, <1>4, <1>5 DEF ContentInv

LEMMA CheckContent ==
  ASSUME BufferInv, ContentInv, NEW returnTo, rx_dma_check(returnTo),
         UNCHANGED bufferVars, got' = got
  PROVE  ContentInv'
<1>1. /\ Transferred' = Transferred /\ Transferred \in Nat /\ Fetched \in Nat
      /\ UNCHANGED <<rxDMAbuf, rx_buffer, rx_pos_write, rx_pos_read, lapped>>
      /\ RX_DMA_SIZE \in Nat
  BY UsartAssumption DEF BufferInv, TypeOK, rx_dma_check, dmaVars, bufferVars, Transferred, Fetched
<1>2. /\ cnt' \in 0 .. RX_DMA_SIZE
      /\ Fetched' = Transferred - cnt' /\ Fetched' \in Fetched .. Transferred
      /\ rx_overfulls' = 0 => rx_overfulls = 0 /\ Fetched' = Fetched
  BY Checked
<1>3. \A p \in Nat : (InBuffer(p)' <=> InBuffer(p)) /\ At(p)' = At(p)
  BY <1>1 DEF InBuffer, At
<1>4. /\ \A p \in Nat : At(p) \in Int
      /\ \A k \in 1 .. Len(got) : got[k] \in Int
  BY ContentTypes
<1>5. RingInv'
  <2>1. \A t \in Nat, c \in 0 .. RX_DMA_SIZE : t - (t - c) <= RX_DMA_SIZE
    BY <1>1
  <2>2. Transferred - (Transferred - cnt') <= RX_DMA_SIZE
    BY <1>1, <1>2, <2>1
  <2>3. Transferred' - Fetched' <= RX_DMA_SIZE
    BY <1>1, <1>2, <2>2, Zenon
  <2> QED BY <1>1, <2>3 DEF ContentInv, RingInv
<1>6. OrderInv'
  <2> SUFFICES ASSUME ~lapped PROVE OrderInv'
    BY <1>1 DEF OrderInv
  <2>1. /\ \A p \in Nat : InBuffer(p) => At(p) <= Fetched
        /\ \A p, q \in Nat : InBuffer(p) /\ InBuffer(q) /\ p < q => At(p) < At(q)
        /\ \A k \in 1 .. Len(got) :
             got[k] <= Fetched /\ \A p \in Nat : InBuffer(p) /\ rx_pos_read <= p => got[k] < At(p)
        /\ Increasing(got)
    BY DEF ContentInv, OrderInv
  <2>2. \A x \in Int : x <= Fetched => x <= Fetched'
    <3>1. Fetched' \in Fetched .. Transferred
      BY <1>2
    <3> QED BY <1>1, <3>1
  <2>3. Increasing(got')
    BY <2>1
  <2> QED BY <1>1, <1>3, <1>4, <2>1, <2>2, <2>3 DEF OrderInv
<1>7. CountedInv'
  BY <1>1, <1>2, <1>3 DEF ContentInv, CountedInv
<1> QED BY <1>5, <1>6, <1>7 DEF ContentInv

LEMMA TakeContent == BufferInv /\ ContentInv /\ TakeByte => ContentInv'
<1> SUFFICES ASSUME BufferInv, ContentInv, TakeByte PROVE ContentInv'
  OBVIOUS
<1>1. /\ UNCHANGED <<transfer_count, rxDMAbuf, rx_dma_old_cnt, cnt, rx_buffer, rx_pos_write, lapped>>
      /\ rx_pos_read' = ReadFrom + 1
      /\ got' = Append(got, At(ReadFrom))
      /\ rx_overfulls' = IF Overrun THEN rx_overfulls + 1 ELSE rx_overfulls
  BY DEF TakeByte, dmaVars, checkVars, At
<1>2. Transferred' = Transferred /\ Fetched' = Fetched
  BY <1>1 DEF Transferred, Fetched
<1>3. /\ rx_pos_write \in Nat /\ rx_pos_read \in 0 .. rx_pos_write
      /\ rx_overfulls \in Nat /\ RX_BUFFER_SIZE \in Nat \ {0}
      /\ receive_count >= want /\ want \in 1 .. (RX_BUFFER_SIZE - 1)
      /\ got \in Seq(0 .. RX_INITIAL)
  BY UsartAssumption DEF BufferInv, TypeOK, Covered, TakeByte, Fetched
\* The byte that is read has not been overwritten.
<1>4. ReadFrom \in Nat /\ InBuffer(ReadFrom) /\ rx_pos_read <= ReadFrom
  BY <1>3 DEF ReadFrom, Overrun, InBuffer, receive_count
<1>5. \A p \in Nat : (InBuffer(p)' <=> InBuffer(p)) /\ At(p)' = At(p)
  BY <1>1 DEF InBuffer, At
<1>6. /\ \A p \in Nat : At(p) \in Int
      /\ \A k \in 1 .. Len(got) : got[k] \in Int
  BY ContentTypes
<1>7. /\ Len(got) \in Nat /\ Len(got') = Len(got) + 1
      /\ \A k \in 1 .. Len(got) : got'[k] = got[k]
      /\ got'[Len(got) + 1] = At(ReadFrom)
  BY <1>1, <1>3, <1>4, <1>6, AppendProperties, LenProperties
<1>8. RingInv'
  BY <1>1, <1>2 DEF ContentInv, RingInv
<1>9. OrderInv'
  <2> SUFFICES ASSUME ~lapped PROVE OrderInv'
    BY <1>1 DEF OrderInv
  <2>1. /\ \A p \in Nat : InBuffer(p) => At(p) <= Fetched
        /\ \A p, q \in Nat : InBuffer(p) /\ InBuffer(q) /\ p < q => At(p) < At(q)
        /\ \A k \in 1 .. Len(got) :
             got[k] <= Fetched /\ \A p \in Nat : InBuffer(p) /\ rx_pos_read <= p => got[k] < At(p)
        /\ \A i \in 2 .. Len(got) : got[i - 1] < got[i]
    BY DEF ContentInv, OrderInv, Increasing
  <2>2. \A k \in 1 .. Len(got') : k \in 1 .. Len(got) \/ k = Len(got) + 1
    BY <1>7
  <2>3. ASSUME NEW k \in 1 .. Len(got')
        PROVE  /\ got'[k] <= Fetched
               /\ \A p \in Nat : InBuffer(p) /\ ReadFrom + 1 <= p => got'[k] < At(p)
    <3>1. CASE k \in 1 .. Len(got)
      <4>1. \A p \in Nat : ReadFrom + 1 <= p => rx_pos_read <= p
        BY <1>3, <1>4
      <4> QED BY <1>7, <2>1, <3>1, <4>1
    <3>2. CASE k = Len(got) + 1
      <4>1. \A p \in Nat : ReadFrom + 1 <= p => ReadFrom < p
        BY <1>4
      <4> QED BY <1>4, <1>7, <2>1, <3>2, <4>1
    <3> QED BY <2>2, <3>1, <3>2
  <2>4. ASSUME NEW i \in 2 .. Len(got') PROVE got'[i - 1] < got'[i]
    <3>1. i - 1 \in 1 .. Len(got) /\ got'[i - 1] = got[i - 1]
      BY <1>7
    <3>2. CASE i \in 2 .. Len(got)
      <4>1. i \in 1 .. Len(got)
        BY <3>2
      <4> QED BY <1>7, <2>1, <3>1, <3>2, <4>1
    <3>3. CASE i = Len(got) + 1
      BY <1>4, <1>7, <2>1, <3>1, <3>3
    <3> QED BY <1>7, <3>2, <3>3
  <2> QED BY <1>1, <1>2, <1>5, <2>1, <2>3, <2>4 DEF OrderInv, Increasing
<1>10. CountedInv'
  <2> SUFFICES ASSUME rx_overfulls' = 0, ~lapped PROVE CountedInv'
    BY <1>1 DEF CountedInv
  <2>1. ~Overrun /\ rx_overfulls = 0
    BY <1>1, <1>3
  <2>2. ReadFrom = rx_pos_read
    BY <2>1 DEF ReadFrom
  <2>3. /\ Len(got) = rx_pos_read /\ rx_pos_write = Fetched
        /\ \A i \in 1 .. Len(got) : got[i] = i
        /\ \A p \in Nat : InBuffer(p) => At(p) = p + 1
    BY <2>1 DEF ContentInv, CountedInv
  <2>4. ASSUME NEW i \in 1 .. Len(got') PROVE got'[i] = i
    <3>1. CASE i \in 1 .. Len(got)
      BY <1>7, <2>3, <3>1
    <3>2. CASE i = Len(got) + 1
      BY <1>4, <1>7, <2>2, <2>3, <3>2
    <3> QED BY <1>7, <3>1, <3>2
  <2> QED BY <1>1, <1>2, <1>5, <1>7, <2>2, <2>3, <2>4 DEF CountedInv
<1> QED BY <1>8, <1>9, <1>10 DEF ContentInv

LEMMA NextContent == BufferInv /\ ContentInv /\ [Next]_vars => ContentInv'
<1> SUFFICES ASSUME BufferInv, ContentInv, [Next]_vars PROVE ContentInv'
  OBVIOUS
<1>1. ASSUME UNCHANGED <<dmaVars, checkVars, bufferVars, rx_overfulls, got, lapped>>
      PROVE  ContentInv'
  <2>1. Transferred' = Transferred /\ Fetched' = Fetched
    BY <1>1 DEF dmaVars, checkVars, Transferred, Fetched
  <2>2. \A p \in Nat : (InBuffer(p)' <=> InBuffer(p)) /\ At(p)' = At(p)
    BY <1>1 DEF bufferVars, InBuffer, At
  <2>3. UNCHANGED <<rxDMAbuf, cnt, rx_pos_write, rx_pos_read, rx_overfulls, got, lapped>>
    BY <1>1 DEF dmaVars, checkVars, bufferVars
  <2>4. RingInv'
    BY <2>1, <2>3 DEF ContentInv, RingInv
  <2>5. OrderInv'
    BY <2>1, <2>2, <2>3 DEF ContentInv, OrderInv, Increasing
  <2>6. CountedInv'
    BY <2>1, <2>2, <2>3 DEF ContentInv, CountedInv
  <2> QED BY <2>4, <2>5, <2>6 DEF ContentInv
<1>2. CASE Transfer
  BY <1>2, TransferContent
<1>3. CASE CopyByte
  BY <1>3, CopyContent
<1>4. CASE CheckOnly
  BY <1>4, CheckContent DEF CheckOnly, readerVars
<1>5. ASSUME NEW n \in NBytes, receive_n_bytes(n) PROVE ContentInv'
  BY <1>5, CheckContent DEF receive_n_bytes
<1>6. CASE CountSeen
  BY <1>1, <1>6 DEF CountSeen
<1>7. CASE receive_byte
  BY <1>7, CheckContent DEF receive_byte, readerVars
<1>8. CASE EmptyTest
  <2>1. rx_pos_read # rx_pos_write
    BY <1>8, UsartAssumption DEF EmptyTest, BufferInv, TypeOK, Covered, receive_count, Fetched
  <2> QED BY <1>8, <2>1, CheckContent DEF EmptyTest, readerVars
<1>9. CASE TakeByte
  BY <1>9, TakeContent
<1>10. CASE UNCHANGED vars
  BY <1>1, <1>10 DEF vars, readerVars
<1> QED BY <1>2, <1>3, <1>4, <1>5, <1>6, <1>7, <1>8, <1>9, <1>10 DEF Next, Thread

LEMMA ContentInvariant == Spec => [](BufferInv /\ ContentInv)
<1>1. Init => ContentInv
  BY InitContent
<1>2. BufferInv /\ ContentInv /\ [Next]_vars => ContentInv'
  BY NextContent
<1> QED BY <1>1, <1>2, BufferInvariant, PTL DEF Spec

(***************************************************************************)
(* An overrun leaves gaps, but no byte is handed out twice or out of       *)
(* order, as long as the DMA does not lap the copy loop.                   *)
(***************************************************************************)
THEOREM OrderIsKept == Spec => []InOrder
<1>1. ContentInv => InOrder
  BY DEF ContentInv, OrderInv, InOrder
<1> QED BY <1>1, ContentInvariant, PTL

(***************************************************************************)
(* While the counter of overruns is 0, nothing was handed out with a gap,  *)
(* and what is still to be handed out is intact, but for a lap and for an  *)
(* overrun that is about to be counted.                                    *)
(***************************************************************************)
THEOREM LossIsCounted == Spec => []NothingLostUncounted
<1>1. BufferInv /\ ContentInv => NothingLostUncounted
  <2> SUFFICES ASSUME BufferInv, ContentInv, rx_overfulls = 0, ~lapped
               PROVE  /\ got = [i \in 1 .. rx_pos_read |-> i]
                      /\ rx_pos_write = Fetched
                      /\ Overrun \/ \A i \in (rx_pos_read + 1) .. rx_pos_write :
                                       rx_buffer[(i - 1) % RX_BUFFER_SIZE] = i
                      /\ RingOverrun \/ \A i \in (Fetched + 1) .. Transferred :
                                           rxDMAbuf[(i - 1) % RX_DMA_SIZE] = i
    BY DEF NothingLostUncounted
  <2>1. /\ Len(got) = rx_pos_read /\ rx_pos_write = Fetched
        /\ \A i \in 1 .. Len(got) : got[i] = i
        /\ \A p \in Nat : InBuffer(p) => At(p) = p + 1
    BY DEF ContentInv, CountedInv
  <2>2. got \in [1 .. Len(got) -> 0 .. RX_INITIAL]
    BY LenProperties DEF BufferInv, TypeOK
  <2>3. got = [i \in 1 .. rx_pos_read |-> i]
    BY <2>1, <2>2
  <2>4. /\ RX_INITIAL \in Nat /\ RX_DMA_SIZE \in Nat \ {0} /\ RX_BUFFER_SIZE \in Nat \ {0}
        /\ transfer_count \in Nat /\ Transferred \in Nat /\ Fetched \in Nat
        /\ rx_pos_write \in Nat /\ rx_pos_read \in 0 .. rx_pos_write
    BY UsartAssumption DEF BufferInv, TypeOK, Transferred, Fetched
  <2>5. ASSUME ~Overrun, NEW i \in (rx_pos_read + 1) .. rx_pos_write
        PROVE  rx_buffer[(i - 1) % RX_BUFFER_SIZE] = i
    <3>1. i - 1 \in Nat /\ InBuffer(i - 1)
      BY <2>4, <2>5 DEF Overrun, receive_count, InBuffer
    <3> QED BY <3>1, <2>1, <2>4 DEF At
  <2>6. ASSUME ~RingOverrun, NEW i \in (Fetched + 1) .. Transferred
        PROVE  rxDMAbuf[(i - 1) % RX_DMA_SIZE] = i
    <3>1. i \in 1 .. Transferred /\ Transferred - RX_DMA_SIZE < i
      BY <2>4, <2>6 DEF RingOverrun
    <3> QED BY <3>1 DEF ContentInv, RingInv
  <2> QED BY <2>1, <2>3, <2>5, <2>6
<1> QED BY <1>1, ContentInvariant, PTL
=============================================================================
