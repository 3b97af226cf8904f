----------------------- MODULE PacketReceiver_proofs -----------------------
(***************************************************************************)
(* The packet receiver for packets, signatures and a buffer of every size, *)
(* any number of packets and faults: packet_buf is never overrun, only     *)
(* what was sent is delivered, once and in order, and noise is got over.   *)
(***************************************************************************)
EXTENDS PacketReceiver, SequenceTheorems, TLAPS

\* packet_buf takes a header and a CRC at least.
LEMMA BufSize ==
  /\ PACKET_BUF \in Nat /\ PACKET_BUF >= 3 /\ PACKET_MAX_SIZE \in Nat
  /\ PACKET_MAX_SIZE = PACKET_BUF - 3
BY ReceiverAssumption DEF PACKET_MAX_SIZE, HEADER, CRC

----------------------------------------------------------------------------
(* What packet_buf holds *)

\* The header is in packet_buf, and packet_size is what it says.
HeaderIn ==
  /\ Len(packet_buf) >= HEADER
  /\ packet_buf[1] = CodeCell /\ SizeOf(packet_buf[2]) = packet_size

ParserInv ==
  /\ line \in Seq(Cells) /\ rx \in Seq(Cells) /\ packet_buf \in Seq(Cells)
  /\ sent \in Seq(Payloads)
  /\ receive_check \in {"start", "info", "body", "crc"} /\ pc \in {"top", "while"}
  /\ packet_size \in 0 .. PACKET_MAX_SIZE
  /\ packet_start \in Seq(Cells) /\ Len(packet_start) <= Len(PACKET_SIGN_RX)
  /\ expired \in BOOLEAN /\ disturbed \in BOOLEAN /\ faults \in 0 .. MAX_FAULTS
  /\ receive_check \in {"start", "info"} => packet_buf = <<>>
  /\ receive_check = "body" => HeaderIn /\ Len(packet_buf) = HEADER
  /\ receive_check = "crc" => HeaderIn /\ Len(packet_buf) = HEADER + packet_size

\* Nothing is cut off while there is room.
LEMMA CollectedIs ==
  ASSUME packet_buf \in Seq(Cells), rx \in Seq(Cells), NEW n \in Nat, n <= Len(rx),
         Len(packet_buf) + n <= PACKET_BUF
  PROVE  /\ Collected(n) \in Seq(Cells) /\ Len(Collected(n)) = Len(packet_buf) + n
         /\ \A i \in 1 .. Len(packet_buf) : Collected(n)[i] = packet_buf[i]
         /\ \A i \in 1 .. n : Collected(n)[Len(packet_buf) + i] = rx[i]
         /\ Overfull(n) <=> Len(packet_buf) + n >= PACKET_BUF
<1> DEFINE head == SubSeq(rx, 1, n)
           all == packet_buf \o head
<1>1. Len(rx) \in Nat /\ Len(packet_buf) \in Nat
  BY LenProperties
<1>2. \A i \in 1 .. n : rx[i] \in Cells
  BY <1>1, ElementOfSeq
<1>3. head \in Seq(Cells) /\ Len(head) = n /\ \A i \in 1 .. n : head[i] = rx[i]
  <2>1. /\ head \in Seq(Cells) /\ Len(head) = IF 1 <= n THEN n - 1 + 1 ELSE 0
        /\ \A i \in 1 .. (n - 1 + 1) : head[i] = rx[1 + i - 1]
    BY <1>2, SubSeqProperties
  <2> QED BY <2>1
<1> HIDE DEF head
<1>4. /\ all \in Seq(Cells) /\ Len(all) = Len(packet_buf) + n
      /\ \A i \in 1 .. Len(packet_buf) : all[i] = packet_buf[i]
  BY <1>1, <1>3, ConcatProperties
<1>5. \A i \in 1 .. n : all[Len(packet_buf) + i] = head[i]
  BY <1>1, <1>3
<1>6. Collected(n) = all
  BY <1>4 DEF Collected, head
<1> HIDE DEF all
<1>7. Overfull(n) <=> Len(packet_buf) + n >= PACKET_BUF
  BY <1>4, <1>6 DEF Overfull
<1> QED BY <1>3, <1>4, <1>5, <1>6, <1>7

\* What is left in rx when n cells have been taken.
LEMMA RestIs ==
  ASSUME rx \in Seq(Cells), NEW n \in Nat, n <= Len(rx)
  PROVE  /\ RestOf(n) \in Seq(Cells) /\ Len(RestOf(n)) = Len(rx) - n
         /\ \A i \in 1 .. (Len(rx) - n) : RestOf(n)[i] = rx[n + i]
<1>1. Len(rx) \in Nat
  BY LenProperties
<1>2. \A i \in (n + 1) .. Len(rx) : rx[i] \in Cells
  BY <1>1, ElementOfSeq
<1>3. /\ RestOf(n) \in Seq(Cells)
      /\ Len(RestOf(n)) = IF n + 1 <= Len(rx) THEN Len(rx) - (n + 1) + 1 ELSE 0
      /\ \A i \in 1 .. (Len(rx) - (n + 1) + 1) : RestOf(n)[i] = rx[(n + 1) + i - 1]
  BY <1>1, <1>2, SubSeqProperties DEF RestOf
<1>4. \A i \in 1 .. (Len(rx) - n) : (n + 1) + i - 1 = n + i
  BY <1>1
<1> QED BY <1>1, <1>3, <1>4

\* The window never gets longer than the signature.
LEMMA WindowIs ==
  ASSUME packet_start \in Seq(Cells), NEW cell \in Cells
  PROVE  Window(cell) \in Seq(Cells) /\ Len(Window(cell)) <= Len(PACKET_SIGN_RX)
<1> DEFINE s == Append(packet_start, cell)
           n == Len(PACKET_SIGN_RX)
<1>1. n \in Nat /\ s \in Seq(Cells) /\ Len(s) \in Nat
  BY LineAssumption, AppendProperties, LenProperties
<1> HIDE DEF s, n
<1>2. CASE Len(s) <= n
  <2>1. LastOf(s, n) = s
    BY <1>2 DEF LastOf
  <2> QED BY <1>1, <1>2, <2>1 DEF Window, s, n
<1>3. CASE Len(s) > n
  <2> DEFINE k == Len(s) - n + 1
             w == SubSeq(s, k, Len(s))
  <2>1. k \in Int /\ k >= 2 /\ Len(s) - k + 1 = n
    BY <1>1, <1>3
  <2>2. LastOf(s, n) = w
    BY <1>1, <1>3 DEF LastOf
  <2> HIDE DEF k
  <2>3. \A i \in k .. Len(s) : i \in 1 .. Len(s)
    BY <1>1, <2>1
  <2>4. \A i \in k .. Len(s) : s[i] \in Cells
    BY <1>1, <2>3, ElementOfSeq
  <2>5. w \in Seq(Cells) /\ Len(w) = IF k <= Len(s) THEN Len(s) - k + 1 ELSE 0
    BY <1>1, <2>1, <2>4, SubSeqProperties
  <2> HIDE DEF w
  <2>6. Len(w) <= n
    BY <1>1, <2>1, <2>5
  <2> QED BY <2>2, <2>5, <2>6 DEF Window, s, n
<1> QED BY <1>1, <1>2, <1>3

\* At power-up the parser searches and its buffers are empty.
LEMMA ParserInit == Init => ParserInv
<1> SUFFICES ASSUME Init PROVE ParserInv
  OBVIOUS
<1>1. <<>> \in Seq(Cells) /\ <<>> \in Seq(Payloads) /\ Len(<<>>) = 0
  OBVIOUS
<1>2. Len(PACKET_SIGN_RX) \in Nat
  BY LineAssumption, LenProperties
<1>3. 0 \in 0 .. MAX_FAULTS /\ 0 \in 0 .. PACKET_MAX_SIZE /\ 0 <= Len(PACKET_SIGN_RX)
  BY <1>2, BufSize, ReceiverAssumption
<1> DEFINE signLen == Len(PACKET_SIGN_RX)
<1> HIDE DEF signLen
<1>4. /\ line = <<>> /\ rx = <<>> /\ packet_buf = <<>> /\ packet_start = <<>> /\ sent = <<>>
      /\ receive_check = "start" /\ pc = "top" /\ packet_size = 0
      /\ expired = FALSE /\ disturbed = FALSE /\ faults = 0
  BY DEF Init
<1>5. Len(packet_start) <= Len(PACKET_SIGN_RX)
  BY <1>1, <1>3, <1>4
<1> QED BY <1>1, <1>3, <1>4, <1>5 DEF ParserInv

\* Taking n cells off rx.
LEMMA Taken ==
  ASSUME ParserInv, NEW check, NEW n \in Nat, Taking(check, n)
  PROVE  rx' \in Seq(Cells) /\ n <= Len(rx) /\ receive_check = check
<1>1. n <= Len(rx) /\ rx' = RestOf(n) /\ receive_check = check
  <2>1. Len(rx) >= n
    BY DEF Taking, Available
  <2>2. Len(rx) \in Nat
    BY LenProperties DEF ParserInv
  <2> QED BY <2>1, <2>2 DEF Taking
<1> QED BY <1>1, RestIs DEF ParserInv

\* The first cell of a sequence and the others.
LEMMA HeadCell ==
  ASSUME NEW s \in Seq(Cells), s # <<>>
  PROVE  Head(s) \in Cells /\ Tail(s) \in Seq(Cells) /\ Head(s) = s[1]
BY HeadTailProperties

\* Every step keeps ParserInv.
LEMMA ParserNext == ParserInv /\ [Next]_vars => ParserInv'
<1> SUFFICES ASSUME ParserInv, [Next]_vars PROVE ParserInv'
  OBVIOUS
<1> USE DEF ParserInv
<1> DEFINE Parser == <<packet_size, packet_buf, receive_check>>
<1>0. UNCHANGED Parser => (HeaderIn' <=> HeaderIn)
  BY DEF HeaderIn
<1>1. CASE Send
  <2>1. PICK p \in Payloads : line' = line \o Frame(p) /\ sent' = Append(sent, p)
    BY <1>1 DEF Send
  <2>2. Frame(p) \in Seq(Cells)
    BY LineAssumption
  <2>3. line' \in Seq(Cells) /\ sent' \in Seq(Payloads)
    BY <2>1, <2>2, ConcatProperties, AppendProperties
  <2>4. UNCHANGED <<rx, parserVars, expired, pc, faults, disturbed>>
    BY <1>1 DEF Send
  <2> QED BY <1>0, <2>3, <2>4 DEF parserVars
<1>2. CASE Arrive
  <2>1. line' \in Seq(Cells) /\ rx' \in Seq(Cells)
    BY <1>2, HeadCell, AppendProperties DEF Arrive
  <2>2. UNCHANGED <<parserVars, expired, pc, sent, faults, disturbed>>
    BY <1>2 DEF Arrive, historyVars
  <2> QED BY <1>0, <2>1, <2>2 DEF parserVars
<1>3. CASE Fault
  <2>1. line' \in Seq(Cells) /\ rx' \in Seq(Cells)
    <3>1. NOISE \in Cells
      BY DEF Cells
    <3>2. rx \in Seq(Cells) /\ Append(rx, NOISE) \in Seq(Cells)
      BY <3>1, AppendProperties
    <3>3. line # <<>> /\ line' = Tail(line) /\ rx' \in {rx, Append(rx, NOISE)}
      BY <1>3 DEF Fault
    <3> QED BY <3>2, <3>3, HeadCell
  <2>2. faults' \in 0 .. MAX_FAULTS /\ disturbed' \in BOOLEAN
    BY <1>3, ReceiverAssumption DEF Fault
  <2>3. UNCHANGED <<parserVars, expired, pc, sent>>
    BY <1>3 DEF Fault
  <2> QED BY <1>0, <2>1, <2>2, <2>3 DEF parserVars
<1>4. CASE HostRestart
  <2>1. sent' = <<>> /\ disturbed' = FALSE /\ <<>> \in Seq(Payloads)
    BY <1>4 DEF HostRestart
  <2>2. UNCHANGED <<lineVars, parserVars, expired, pc, faults>>
    BY <1>4 DEF HostRestart
  <2> QED BY <1>0, <2>1, <2>2 DEF parserVars, lineVars
<1>5. CASE Expire
  BY <1>0, <1>5 DEF Expire, lineVars, parserVars, historyVars
<1> DEFINE Reset == /\ receive_check' = "start" /\ packet_buf' = <<>>
                    /\ packet_size' \in 0 .. PACKET_MAX_SIZE
                    /\ packet_start' \in Seq(Cells) /\ Len(packet_start') <= Len(PACKET_SIGN_RX)
           Rest == /\ UNCHANGED <<line, sent, faults>> /\ rx' \in Seq(Cells)
                   /\ pc' \in {"top", "while"} /\ expired' \in BOOLEAN /\ disturbed' \in BOOLEAN
<1>6. Reset /\ Rest => ParserInv'
  BY DEF HeaderIn
<1>7. Len(<<>>) = 0 /\ <<>> \in Seq(Cells) /\ 0 <= Len(PACKET_SIGN_RX) /\ 0 \in 0 .. PACKET_MAX_SIZE
  BY LineAssumption, LenProperties, BufSize
<1>8. CASE WorkerTimeout
  <2>1. Rest
    BY <1>8 DEF WorkerTimeout, lineVars
  <2>2. Reset
    BY <1>7, <1>8 DEF WorkerTimeout, packet_internal_reset
  <2> QED BY <1>6, <2>1, <2>2
<1>9. CASE WorkerNoTimeout
  BY <1>0, <1>9 DEF WorkerNoTimeout, lineVars, parserVars, historyVars
<1>10. CASE WorkerReturns
  BY <1>0, <1>10 DEF WorkerReturns, lineVars, parserVars, historyVars
<1>11. ASSUME receive_packets_init PROVE Reset /\ expired' \in BOOLEAN
  BY <1>11 DEF receive_packets_init
<1>12. CASE receive_check_start
  <2>1. Head(rx) \in Cells /\ rx' \in Seq(Cells)
    BY <1>12, HeadCell DEF receive_check_start
  <2>2. packet_start' \in Seq(Cells) /\ Len(packet_start') <= Len(PACKET_SIGN_RX)
    BY <1>12, <2>1, WindowIs DEF receive_check_start
  <2>3. receive_check' \in {"start", "info"} /\ packet_buf' = <<>>
    BY <1>12 DEF receive_check_start
  <2>4. UNCHANGED <<line, packet_size, expired, pc, sent, faults, disturbed>>
    BY <1>12 DEF receive_check_start, historyVars
  <2>5. <<>> \in Seq(Cells)
    OBVIOUS
  <2>6. packet_buf' \in Seq(Cells)
    BY <2>3, <2>5
  <2> HIDE DEF ParserInv
  <2>7. receive_check' # "body" /\ receive_check' # "crc"
    BY <2>3
  <2> QED BY <2>1, <2>2, <2>3, <2>4, <2>6, <2>7 DEF ParserInv
<1>13. CASE receive_check_info
  <2> DEFINE buf == Collected(HEADER)
             size == SizeOf(buf[2])
  <2>1. /\ rx' \in Seq(Cells) /\ HEADER <= Len(rx) /\ packet_buf = <<>>
    <3>1. HEADER \in Nat /\ Taking("info", HEADER)
      BY <1>13 DEF receive_check_info, HEADER
    <3> QED BY <3>1, Taken
  <2>2. /\ buf \in Seq(Cells) /\ Len(buf) = 2
        /\ ~Overfull(HEADER)
    <3>1. HEADER \in Nat /\ HEADER = 2 /\ Len(packet_buf) = 0
      BY <1>7, <2>1 DEF HEADER
    <3>2. Len(packet_buf) + HEADER <= PACKET_BUF /\ ~(Len(packet_buf) + HEADER >= PACKET_BUF)
      BY <3>1, BufSize
    <3>3. Collected(HEADER) \in Seq(Cells) /\ Len(Collected(HEADER)) = Len(packet_buf) + HEADER
          /\ (Overfull(HEADER) <=> Len(packet_buf) + HEADER >= PACKET_BUF)
      BY <2>1, <3>1, <3>2, CollectedIs
    <3> QED BY <3>1, <3>2, <3>3
  <2>3. size \in Nat
    <3>1. buf[2] \in Cells
      <4>1. 2 \in 1 .. Len(buf)
        BY <2>2
      <4> HIDE DEF buf
      <4> QED BY <2>2, <4>1, ElementOfSeq
    <3> QED BY <3>1, LineAssumption
  <2>4. UNCHANGED <<line, pc, sent, faults, disturbed>>
    BY <1>13 DEF receive_check_info, historyVars
  <2> HIDE DEF buf, size
  <2>5. CASE buf[1] # CodeCell
    <3>1. receive_packets_init
      BY <1>13, <2>5 DEF receive_check_info, buf
    <3> QED BY <1>6, <1>11, <2>1, <2>4, <3>1
  <2>6. CASE buf[1] = CodeCell /\ SizeTooBig(size)
    <3>1. Reset /\ expired' = FALSE
      BY <1>7, <1>13, <2>2, <2>6 DEF receive_check_info, buf, size
    <3> QED BY <1>6, <2>1, <2>4, <3>1
  <2>7. CASE buf[1] = CodeCell /\ ~SizeTooBig(size)
    <3>1. /\ packet_size' = size /\ packet_buf' = buf
          /\ receive_check' = IF size > 0 THEN "body" ELSE "crc"
          /\ UNCHANGED <<packet_start, expired>>
      BY <1>13, <2>2, <2>7 DEF receive_check_info, buf, size
    <3>2. size \in 0 .. PACKET_MAX_SIZE
      BY <2>3, <2>7, BufSize DEF SizeTooBig
    <3>3. HeaderIn' /\ Len(packet_buf') = HEADER
      <4>1. packet_buf'[1] = CodeCell /\ SizeOf(packet_buf'[2]) = packet_size'
        BY <2>7, <3>1 DEF size
      <4>2. Len(packet_buf') = 2
        BY <2>2, <3>1
      <4> QED BY <4>1, <4>2 DEF HeaderIn, HEADER
    <3>4. receive_check' = "crc" => Len(packet_buf') = HEADER + packet_size'
      BY <2>3, <3>1, <3>3 DEF HEADER
    <3>5. receive_check' \in {"body", "crc"}
      BY <3>1
    <3>6. /\ receive_check' \notin {"start", "info"}
      BY <3>5
    <3>7. /\ packet_buf' \in Seq(Cells) /\ packet_size' \in 0 .. PACKET_MAX_SIZE
      BY <2>2, <3>1, <3>2
    <3> HIDE DEF HeaderIn
    <3> QED BY <2>1, <2>4, <3>1, <3>3, <3>4, <3>5, <3>6, <3>7
  <2> QED BY <2>5, <2>6, <2>7
<1>14. CASE receive_check_body
  <2> DEFINE buf == Collected(packet_size)
  <2>1. /\ rx' \in Seq(Cells) /\ packet_size <= Len(rx) /\ receive_check = "body"
    <3>1. packet_size \in Nat /\ Taking("body", packet_size)
      BY <1>14, BufSize DEF receive_check_body
    <3> QED BY <3>1, Taken
  <2>2. HeaderIn /\ Len(packet_buf) = 2 /\ packet_size \in Nat /\ packet_size <= PACKET_MAX_SIZE
    BY <2>1, BufSize DEF HEADER
  <2>3. /\ buf \in Seq(Cells) /\ Len(buf) = 2 + packet_size
        /\ \A i \in 1 .. 2 : buf[i] = packet_buf[i]
        /\ ~Overfull(packet_size)
    <3>1. Len(packet_buf) + packet_size <= PACKET_BUF /\ ~(Len(packet_buf) + packet_size >= PACKET_BUF)
      BY <2>2, BufSize
    <3> QED BY <2>1, <2>2, <3>1, CollectedIs
  <2> HIDE DEF buf
  <2>4. /\ packet_buf' = buf /\ receive_check' = "crc" /\ UNCHANGED <<packet_start, packet_size, expired>>
        /\ UNCHANGED <<line, pc, sent, faults, disturbed>>
    BY <1>14, <2>3 DEF receive_check_body, historyVars, buf
  <2>5. HeaderIn' /\ Len(packet_buf') = HEADER + packet_size'
    <3>1. packet_buf'[1] = packet_buf[1] /\ packet_buf'[2] = packet_buf[2] /\ Len(packet_buf') >= 2
      BY <2>2, <2>3, <2>4
    <3> QED BY <2>2, <2>3, <2>4, <3>1 DEF HeaderIn, HEADER
  <2>6. packet_buf' \in Seq(Cells)
    BY <2>3, <2>4
  <2> HIDE DEF HeaderIn
  <2> QED BY <2>1, <2>4, <2>5, <2>6
<1>15. CASE receive_check_crc
  <2>1. rx' \in Seq(Cells)
    <3>1. CRC \in Nat /\ Taking("crc", CRC)
      BY <1>15 DEF receive_check_crc, CRC
    <3> QED BY <3>1, Taken
  <2>2. receive_packets_init /\ pc' \in {"top", "while"} /\ UNCHANGED <<line, sent, faults, disturbed>>
    BY <1>15 DEF receive_check_crc
  <2> QED BY <1>6, <1>11, <2>1, <2>2
<1>16. CASE CheckWaits \/ UNCHANGED vars
  <2>1. UNCHANGED vars
    BY <1>16 DEF CheckWaits
  <2> QED BY <1>0, <2>1 DEF vars, lineVars, parserVars, historyVars
<1> QED BY <1>1, <1>2, <1>3, <1>4, <1>5, <1>8, <1>9, <1>10, <1>12, <1>13, <1>14, <1>15, <1>16
        DEF Next, Worker, Check

(***************************************************************************)
(* The types; above all packet_buf is never filled to its end and          *)
(* packet_size never promises more than fits.                              *)
(***************************************************************************)
THEOREM TypeCorrect == Spec => []TypeOK
<1>1. ParserInv => TypeOK
  <2> SUFFICES ASSUME ParserInv PROVE TypeOK
    OBVIOUS
  <2>1. Len(packet_buf) < PACKET_BUF
    <3>1. CASE receive_check \in {"start", "info"}
      BY <3>1, BufSize DEF ParserInv
    <3>2. CASE receive_check = "body"
      <4>1. Len(packet_buf) = 2
        BY <3>2 DEF ParserInv, HEADER
      <4> QED BY <4>1, BufSize
    <3>3. CASE receive_check = "crc"
      <4>1. Len(packet_buf) = 2 + packet_size /\ packet_size \in 0 .. PACKET_MAX_SIZE
        BY <3>3 DEF ParserInv, HEADER
      <4> QED BY <4>1, BufSize
    <3> QED BY <3>1, <3>2, <3>3 DEF ParserInv
  <2> QED BY <2>1 DEF ParserInv, TypeOK
<1> QED BY ParserInit, ParserNext, <1>1, PTL DEF Spec

----------------------------------------------------------------------------
(* What is on its way *)

\* The cells that are still to come, those in rx first.
Way == Len(rx) + Len(line)
Cell(i) == IF i <= Len(rx) THEN rx[i] ELSE line[i - Len(rx)]

\* ix says which packet a cell comes from: one behind the packets up to last, never
\* an earlier one than the cell before it, and behind a CRC a later one.
Tags(ix, last) ==
  /\ ix \in [1 .. Way -> Int]
  /\ \A i \in 1 .. Way : last < ix[i] /\ ix[i] <= Len(sent)
  /\ \A i, j \in 1 .. Way : i < j => /\ ix[i] <= ix[j]
                                     /\ Cell(i) \in Crcs => ix[i] < ix[j]
  /\ \A i \in 1 .. Way : Cell(i) \in Crcs => Cell(i) = Crc(Content(sent[ix[i]]))

\* The packets of d are among the first of sent, up to last, in their order.
Among(d, snt, last) ==
  \E at \in [1 .. Len(d) -> 1 .. last] :
     \A i \in 1 .. Len(d) : d[i] = snt[at[i]] /\ \A j \in 1 .. (i - 1) : at[j] < at[i]

OrderInv ==
  /\ delivered \in Seq(Payloads)
  /\ \E last \in 0 .. Len(sent) : Among(delivered, sent, last) /\ \E ix : Tags(ix, last)

\* What is on its way is a number of cells.
LEMMA Sizes ==
  ASSUME ParserInv
  PROVE  Len(rx) \in Nat /\ Len(line) \in Nat /\ Way \in Nat /\ Way = Len(rx) + Len(line)
         /\ Len(sent) \in Nat
BY LenProperties DEF ParserInv, Way

\* Cells may be lost, taken, or turned into something else: the others keep their tags.
LEMMA Thinned ==
  ASSUME NEW last, NEW ix, Tags(ix, last), NEW last2, Way \in Nat, Way' \in Nat, sent' = sent,
         NEW g \in [1 .. Way' -> 1 .. Way],
         \A i, j \in 1 .. Way' : i < j => g[i] < g[j],
         \A i \in 1 .. Way' : Cell(i)' \notin Crcs \/ Cell(i)' = Cell(g[i]),
         \A i \in 1 .. Way' : last2 < ix[g[i]]
  PROVE  \E jx : Tags(jx, last2)'
<1> PICK jx : jx = [i \in 1 .. Way' |-> ix[g[i]]]
  OBVIOUS
<1>1. \A i \in 1 .. Way' : jx[i] = ix[g[i]] /\ g[i] \in 1 .. Way
  OBVIOUS
<1>2. jx \in [1 .. Way' -> Int]
  BY <1>1 DEF Tags
<1>3. \A i \in 1 .. Way' : last2 < jx[i] /\ jx[i] <= Len(sent')
  BY <1>1 DEF Tags
<1>4. ASSUME NEW i \in 1 .. Way', NEW j \in 1 .. Way', i < j
      PROVE  jx[i] <= jx[j] /\ (Cell(i)' \in Crcs => jx[i] < jx[j])
  <2>1. g[i] \in 1 .. Way /\ g[j] \in 1 .. Way /\ g[i] < g[j]
    BY <1>1, <1>4
  <2>2. ix[g[i]] <= ix[g[j]] /\ (Cell(g[i]) \in Crcs => ix[g[i]] < ix[g[j]])
    BY <2>1 DEF Tags
  <2>3. Cell(i)' \in Crcs => Cell(g[i]) \in Crcs
    OBVIOUS
  <2> QED BY <1>1, <2>2, <2>3
<1>5. ASSUME NEW i \in 1 .. Way', Cell(i)' \in Crcs
      PROVE  Cell(i)' = Crc(Content(sent'[jx[i]]))
  <2>1. Cell(i)' = Cell(g[i]) /\ g[i] \in 1 .. Way
    BY <1>1, <1>5
  <2>2. Cell(g[i]) = Crc(Content(sent[ix[g[i]]]))
    BY <1>5, <2>1 DEF Tags
  <2> QED BY <1>1, <2>1, <2>2
<1>6. Tags(jx, last2)'
  <2>1. \A i, j \in 1 .. Way' : i < j => /\ jx[i] <= jx[j]
                                         /\ Cell(i)' \in Crcs => jx[i] < jx[j]
    BY <1>4
  <2>2. \A i \in 1 .. Way' : Cell(i)' \in Crcs => Cell(i)' = Crc(Content(sent'[jx[i]]))
    BY <1>5
  <2> QED BY <1>2, <1>3, <2>1, <2>2 DEF Tags
<1> QED BY <1>6

\* When n cells have been taken off rx.
LEMMA TakenTags ==
  ASSUME ParserInv, ParserInv', NEW n \in Nat, n <= Len(rx), rx' = RestOf(n),
         line' = line, sent' = sent, NEW last, NEW ix, Tags(ix, last), NEW last2,
         \A i \in 1 .. Way : i > n => last2 < ix[i]
  PROVE  \E jx : Tags(jx, last2)'
<1>1. /\ Len(rx) \in Nat /\ Len(line) \in Nat /\ Way \in Nat /\ Way = Len(rx) + Len(line)
      /\ Way' \in Nat /\ Way' = Len(rx') + Len(line)
  BY Sizes DEF ParserInv, Way
<1>2. Len(rx') = Len(rx) - n /\ \A i \in 1 .. (Len(rx) - n) : rx'[i] = rx[n + i]
  BY RestIs DEF ParserInv
<1> PICK g : g = [i \in 1 .. Way' |-> n + i]
  OBVIOUS
<1>3. g \in [1 .. Way' -> 1 .. Way] /\ \A i \in 1 .. Way' : g[i] = n + i
  BY <1>1, <1>2
<1>4. \A i, j \in 1 .. Way' : i < j => g[i] < g[j]
  BY <1>1, <1>3
<1>5. ASSUME NEW i \in 1 .. Way' PROVE Cell(i)' = Cell(g[i]) /\ g[i] > n /\ g[i] \in 1 .. Way
  <2>1. CASE i <= Len(rx')
    <3>1. n + i <= Len(rx) /\ i \in 1 .. (Len(rx) - n)
      BY <1>1, <1>2, <2>1
    <3> QED BY <1>1, <1>2, <1>3, <2>1, <3>1 DEF Cell
  <2>2. CASE ~(i <= Len(rx'))
    <3>1. ~(n + i <= Len(rx)) /\ (n + i) - Len(rx) = i - Len(rx')
      BY <1>1, <1>2, <2>2
    <3>2. Cell(i)' = line[i - Len(rx')]
      BY <2>2 DEF Cell
    <3>3. Cell(n + i) = line[(n + i) - Len(rx)]
      BY <3>1 DEF Cell
    <3> QED BY <1>1, <1>3, <3>1, <3>2, <3>3
  <2> QED BY <2>1, <2>2
<1> QED BY <1>1, <1>3, <1>4, <1>5, Thinned

\* At power-up nothing was sent.
LEMMA OrderInit == Init => OrderInv
<1> SUFFICES ASSUME Init PROVE OrderInv
  OBVIOUS
<1>1. rx = <<>> /\ line = <<>> /\ sent = <<>> /\ delivered = <<>> /\ Len(<<>>) = 0
  BY DEF Init
<1>2. Way = 0
  BY <1>1 DEF Way
<1> DEFINE none == [i \in 1 .. 0 |-> 0]
<1>3. Tags(none, 0)
  BY <1>1, <1>2 DEF Tags
<1>4. Among(delivered, sent, 0)
  <2>1. none \in [1 .. Len(delivered) -> 1 .. 0]
    BY <1>1
  <2> HIDE DEF none
  <2>2. \A i \in 1 .. Len(delivered) :
          delivered[i] = sent[none[i]] /\ \A j \in 1 .. (i - 1) : none[j] < none[i]
    BY <1>1
  <2> QED BY <2>1, <2>2 DEF Among
<1>5. delivered \in Seq(Payloads) /\ 0 \in 0 .. Len(sent)
  BY <1>1
<1> QED BY <1>3, <1>4, <1>5 DEF OrderInv

\* The cells of two sequences, one behind the other.
LEMMA Joined ==
  ASSUME NEW X, NEW s \in Seq(X), NEW t \in Seq(X)
  PROVE  /\ s \o t \in Seq(X) /\ Len(s \o t) = Len(s) + Len(t)
         /\ \A i \in 1 .. Len(s) : (s \o t)[i] = s[i]
         /\ \A i \in 1 .. Len(t) : (s \o t)[Len(s) + i] = t[i]
<1>1. /\ s \o t \in Seq(X) /\ Len(s \o t) = Len(s) + Len(t)
      /\ Len(s) \in Nat /\ Len(t) \in Nat
  BY LenProperties
<1>2. ASSUME NEW i \in 1 .. Len(s) PROVE (s \o t)[i] = s[i]
  BY <1>1
<1>3. ASSUME NEW i \in 1 .. Len(t) PROVE (s \o t)[Len(s) + i] = t[i]
  BY <1>1
<1> QED BY <1>1, <1>2, <1>3

\* A frame ends with the CRC of its content.
LEMMA FrameEnd ==
  ASSUME NEW p \in Payloads
  PROVE  /\ Frame(p) \in Seq(Cells) /\ Len(Frame(p)) \in Nat /\ Len(Frame(p)) >= 1
         /\ Frame(p)[Len(Frame(p))] = Crc(Content(p))
         /\ Len(Content(p)) = 2 + Len(p) /\ Len(p) \in Nat
         /\ Content(p)[1] = CodeCell
         /\ \A i \in 1 .. Len(p) : Content(p)[2 + i] = p[i]
<1> DEFINE c == Crc(Content(p))
           X == Cells \union {CodeCell, SizeCell(Len(p)), c}
           two == <<CodeCell, SizeCell(Len(p))>>
           start == PACKET_SIGN_RX \o Content(p)
<1>1. two \in Seq(X) /\ Len(two) = 2 /\ two[1] = CodeCell
  OBVIOUS
<1>2. p \in Seq(X) /\ PACKET_SIGN_RX \in Seq(X) /\ Len(p) \in Nat
  BY LineAssumption, LenProperties
<1> HIDE DEF X, two
<1>3. /\ Content(p) \in Seq(X) /\ Len(Content(p)) = 2 + Len(p) /\ Content(p)[1] = CodeCell
      /\ \A i \in 1 .. Len(p) : Content(p)[2 + i] = p[i]
  <2>1. /\ two \o p \in Seq(X) /\ Len(two \o p) = Len(two) + Len(p)
        /\ \A i \in 1 .. Len(two) : (two \o p)[i] = two[i]
        /\ \A i \in 1 .. Len(p) : (two \o p)[Len(two) + i] = p[i]
    <3>1. two \in Seq(X)
      BY <1>1
    <3>2. p \in Seq(X)
      BY <1>2
    <3> QED BY <3>1, <3>2, Joined
  <2>3. Content(p) = two \o p
    BY DEF Content, two
  <2> HIDE DEF Content
  <2> QED BY <1>1, <1>2, <2>1, <2>3
<1>4. start \in Seq(X) /\ Len(start) \in Nat
  BY <1>2, <1>3, ConcatProperties, LenProperties
<1>5. Frame(p) = start \o <<c>>
  BY DEF Frame
<1> HIDE DEF start
<1>6. c \in X
  BY DEF X
<1> HIDE DEF c
<1>7. <<c>> \in Seq(X) /\ Len(<<c>>) = 1 /\ <<c>>[1] = c
  BY <1>6
<1>8. Len(start \o <<c>>) = Len(start) + 1
  BY <1>4, <1>7, ConcatProperties
<1>9. (start \o <<c>>)[Len(start) + 1] = c
  BY <1>4, <1>7, <1>8
<1>10. Len(Frame(p)) = Len(start) + 1 /\ Frame(p)[Len(Frame(p))] = c
  BY <1>5, <1>8, <1>9
<1> QED BY <1>2, <1>3, <1>4, <1>10, LineAssumption DEF c

\* Packets that were delivered stay among those that were sent when one more is sent.
LEMMA SendTags ==
  ASSUME ParserInv, ParserInv', Send, NEW last \in 0 .. Len(sent), NEW ix, Tags(ix, last),
         Among(delivered, sent, last)
  PROVE  Among(delivered', sent', last) /\ last \in 0 .. Len(sent') /\ \E jx : Tags(jx, last)'
<1>1. PICK p \in Payloads : line' = line \o Frame(p) /\ sent' = Append(sent, p)
  BY DEF Send
<1>2. rx' = rx /\ delivered' = delivered
  BY DEF Send
<1> DEFINE f == Frame(p)
           n == Len(sent)
<1>3. /\ Len(rx) \in Nat /\ Len(line) \in Nat /\ Way \in Nat /\ Way = Len(rx) + Len(line)
      /\ n \in Nat /\ f \in Seq(Cells) /\ Len(f) \in Nat /\ Len(f) >= 1
      /\ f[Len(f)] = Crc(Content(p))
  BY Sizes, FrameEnd
<1>4. \A i \in 1 .. (Len(f) - 1) : f[i] \notin Crcs
  BY CrcAssumption
<1> HIDE DEF f
<1>5. /\ Len(line') = Len(line) + Len(f)
      /\ \A i \in 1 .. Len(line) : line'[i] = line[i]
      /\ \A i \in 1 .. Len(f) : line'[Len(line) + i] = f[i]
  <2>1. line \in Seq(Cells) /\ line' = line \o f
    BY <1>1 DEF ParserInv, f
  <2>2. Len(line \o f) = Len(line) + Len(f) /\ \A i \in 1 .. Len(line) : (line \o f)[i] = line[i]
    BY <1>3, <2>1, ConcatProperties
  <2>3. \A i \in 1 .. Len(f) : (line \o f)[Len(line) + i] = f[i]
    BY <1>3, <2>1
  <2> QED BY <2>1, <2>2, <2>3
<1>6. /\ Len(sent') = n + 1 /\ sent'[n + 1] = p
      /\ \A i \in 1 .. n : sent'[i] = sent[i]
  BY <1>1, AppendProperties DEF ParserInv
<1> HIDE DEF n
<1>7. Way' = Way + Len(f)
  BY <1>2, <1>3, <1>5 DEF Way
<1>8. ASSUME NEW i \in 1 .. Way PROVE Cell(i)' = Cell(i)
  <2>1. CASE i <= Len(rx)
    BY <1>2, <2>1 DEF Cell
  <2>2. CASE ~(i <= Len(rx))
    <3>1. i - Len(rx) \in 1 .. Len(line)
      BY <1>3, <2>2
    <3> QED BY <1>2, <1>5, <2>2, <3>1 DEF Cell
  <2> QED BY <2>1, <2>2
<1>9. ASSUME NEW i \in 1 .. Way', ~(i <= Way) PROVE Cell(i)' = f[i - Way] /\ i - Way \in 1 .. Len(f)
  <2>1. ~(i <= Len(rx)) /\ i - Len(rx) = Len(line) + (i - Way) /\ i - Way \in 1 .. Len(f)
    BY <1>3, <1>7, <1>9
  <2>2. Cell(i)' = line'[i - Len(rx)]
    BY <1>2, <2>1 DEF Cell
  <2> QED BY <1>5, <2>1, <2>2
<1> PICK jx : jx = [i \in 1 .. Way' |-> IF i <= Way THEN ix[i] ELSE n + 1]
  OBVIOUS
<1>10. /\ \A i \in 1 .. Way' : jx[i] = IF i <= Way THEN ix[i] ELSE n + 1
       /\ \A i \in 1 .. Way : ix[i] \in Int /\ last < ix[i] /\ ix[i] <= n
       /\ Way' \in Nat
  <2>1. Way' \in Nat
    BY <1>3, <1>7
  <2>2. \A i \in 1 .. Way : ix[i] \in Int /\ last < ix[i] /\ ix[i] <= n
    BY DEF Tags, n
  <2>3. \A i \in 1 .. Way' : jx[i] = IF i <= Way THEN ix[i] ELSE n + 1
    OBVIOUS
  <2> QED BY <2>1, <2>2, <2>3
<1>11. jx \in [1 .. Way' -> Int]
  BY <1>3, <1>7, <1>10
<1>12. \A i \in 1 .. Way' : last < jx[i] /\ jx[i] <= Len(sent')
  <2>1. last < n + 1 /\ n <= n + 1
    BY <1>3 DEF n
  <2> QED BY <1>3, <1>6, <1>7, <1>10, <2>1
<1>13. ASSUME NEW i \in 1 .. Way', NEW j \in 1 .. Way', i < j
       PROVE  jx[i] <= jx[j] /\ (Cell(i)' \in Crcs => jx[i] < jx[j])
  <2>1. CASE j <= Way
    <3>1. i \in 1 .. Way /\ j \in 1 .. Way /\ jx[i] = ix[i] /\ jx[j] = ix[j]
      BY <1>3, <1>10, <1>13, <2>1
    <3>2. ix[i] <= ix[j] /\ (Cell(i) \in Crcs => ix[i] < ix[j])
      BY <1>13, <3>1 DEF Tags
    <3> QED BY <1>8, <3>1, <3>2
  <2>2. CASE ~(j <= Way) /\ i <= Way
    <3>1. i \in 1 .. Way
      BY <1>3, <2>2
    <3>2. jx[i] = ix[i] /\ jx[j] = n + 1
      BY <1>10, <2>2
    <3>3. ix[i] < n + 1
      BY <1>3, <1>10, <3>1
    <3>4. ix[i] \in Int
      BY <1>10, <3>1
    <3> QED BY <1>3, <3>2, <3>3, <3>4
  <2>3. CASE ~(j <= Way) /\ ~(i <= Way)
    <3>1. jx[i] = n + 1 /\ jx[j] = n + 1
      BY <1>10, <2>3
    <3>2. Cell(i)' = f[i - Way] /\ i - Way \in 1 .. (Len(f) - 1)
      BY <1>3, <1>7, <1>9, <1>13, <2>3
    <3> QED BY <1>3, <1>4, <3>1, <3>2
  <2> QED BY <2>1, <2>2, <2>3
<1>14. ASSUME NEW i \in 1 .. Way', Cell(i)' \in Crcs
       PROVE  Cell(i)' = Crc(Content(sent'[jx[i]]))
  <2>1. CASE i <= Way
    <3>1. i \in 1 .. Way
      BY <1>3, <2>1
    <3>2. Cell(i) = Crc(Content(sent[ix[i]]))
      BY <1>8, <1>14, <3>1 DEF Tags
    <3>3. ix[i] \in 1 .. n
      <4>1. last \in Int /\ last >= 0
        BY <1>3 DEF n
      <4> QED BY <1>3, <1>10, <3>1, <4>1
    <3>4. jx[i] = ix[i]
      BY <1>10, <2>1
    <3> QED BY <1>6, <1>8, <3>1, <3>2, <3>3, <3>4
  <2>2. CASE ~(i <= Way)
    <3>1. Cell(i)' = f[i - Way] /\ i - Way \in 1 .. Len(f)
      BY <1>9, <2>2
    <3>2. i - Way = Len(f)
      <4>1. f[i - Way] \in Crcs
        BY <1>14, <3>1
      <4>2. ~(i - Way \in 1 .. (Len(f) - 1))
        BY <1>4, <4>1
      <4> DEFINE x == i - Way
                 l == Len(f)
      <4>3. l \in Int /\ x \in 1 .. l /\ ~(x \in 1 .. (l - 1))
        BY <1>3, <3>1, <4>2
      <4> HIDE DEF x, l
      <4>4. x = l
        BY <4>3
      <4> QED BY <4>4 DEF x, l
    <3>3. jx[i] = n + 1
      BY <1>10, <2>2
    <3> QED BY <1>3, <1>6, <3>1, <3>2, <3>3
  <2> QED BY <2>1, <2>2
<1>15. Tags(jx, last)'
  <2>1. \A i, j \in 1 .. Way' : i < j => /\ jx[i] <= jx[j]
                                         /\ Cell(i)' \in Crcs => jx[i] < jx[j]
    BY <1>13
  <2>2. \A i \in 1 .. Way' : Cell(i)' \in Crcs => Cell(i)' = Crc(Content(sent'[jx[i]]))
    BY <1>14
  <2> QED BY <1>11, <1>12, <2>1, <2>2 DEF Tags
<1>16. Among(delivered', sent', last)
  <2>1. PICK at \in [1 .. Len(delivered) -> 1 .. last] :
          \A i \in 1 .. Len(delivered) :
            delivered[i] = sent[at[i]] /\ \A j \in 1 .. (i - 1) : at[j] < at[i]
    BY DEF Among
  <2>2. \A i \in 1 .. Len(delivered) : at[i] \in 1 .. n
    <3>1. last \in 0 .. n
      BY DEF n
    <3>2. \A i \in 1 .. Len(delivered) : at[i] \in 1 .. last
      OBVIOUS
    <3> QED BY <1>3, <3>1, <3>2
  <2>3. \A i \in 1 .. Len(delivered) : delivered[i] = sent'[at[i]]
    BY <1>6, <2>1, <2>2
  <2> QED BY <1>2, <2>1, <2>3 DEF Among
<1>17. last \in 0 .. Len(sent')
  BY <1>3, <1>6 DEF n
<1> QED BY <1>15, <1>16, <1>17

\* A sequence without its first cell.
LEMMA TailIs ==
  ASSUME NEW s \in Seq(Cells), s # <<>>
  PROVE  /\ Tail(s) \in Seq(Cells) /\ Len(s) \in Nat /\ Len(s) >= 1 /\ Len(Tail(s)) = Len(s) - 1
         /\ \A i \in 1 .. (Len(s) - 1) : Tail(s)[i] = s[1 + i]
<1>1. /\ Tail(s) \in Seq(Cells) /\ Len(Tail(s)) = Len(s) - 1 /\ Len(s) \in Nat
      /\ \A i \in 1 .. Len(Tail(s)) : Tail(s)[i] = s[i + 1]
  BY HeadTailProperties, LenProperties
<1>2. Len(s) # 0
  BY EmptySeq
<1>3. \A i \in 1 .. (Len(s) - 1) : i + 1 = 1 + i
  BY <1>1
<1> QED BY <1>1, <1>2, <1>3

\* A cell gets from the line into rx, as it is or as noise.
LEMMA ArriveTags ==
  ASSUME ParserInv, ParserInv', line # <<>>, line' = Tail(line), sent' = sent,
         NEW cell, cell = Head(line) \/ cell = NOISE, rx' = Append(rx, cell),
         NEW last, NEW ix, Tags(ix, last)
  PROVE  \E jx : Tags(jx, last)'
<1>1. /\ Len(rx) \in Nat /\ Len(line) \in Nat /\ Way \in Nat /\ Way = Len(rx) + Len(line)
  BY Sizes
<1>2. /\ Len(line) >= 1 /\ Len(line') = Len(line) - 1
      /\ \A i \in 1 .. (Len(line) - 1) : line'[i] = line[1 + i]
      /\ Head(line) = line[1]
  BY TailIs, HeadCell DEF ParserInv
<1>3. /\ Len(rx') = Len(rx) + 1 /\ rx'[Len(rx) + 1] = cell
      /\ \A i \in 1 .. Len(rx) : rx'[i] = rx[i]
  <2>1. NOISE \in Cells /\ Head(line) \in Cells
    BY HeadCell DEF ParserInv, Cells
  <2>2. cell \in Cells
    BY <2>1
  <2> QED BY <2>2, AppendProperties DEF ParserInv
<1>4. Way' = Way
  BY <1>1, <1>2, <1>3 DEF Way
<1>5. ASSUME NEW i \in 1 .. Way PROVE Cell(i)' \notin Crcs \/ Cell(i)' = Cell(i)
  <2>1. CASE i <= Len(rx)
    BY <1>1, <1>3, <2>1 DEF Cell
  <2>2. CASE i = Len(rx) + 1
    <3>1. Cell(i)' = cell
      BY <1>1, <1>3, <2>2 DEF Cell
    <3>2. Cell(i) = line[1]
      BY <1>1, <2>2 DEF Cell
    <3> QED BY <1>2, <3>1, <3>2, CrcAssumption
  <2>3. CASE i > Len(rx) + 1
    <3>1. ~(i <= Len(rx)) /\ ~(i <= Len(rx')) /\ i - Len(rx') \in 1 .. (Len(line) - 1)
          /\ 1 + (i - Len(rx')) = i - Len(rx)
      BY <1>1, <1>3, <2>3
    <3>2. Cell(i)' = line'[i - Len(rx')]
      BY <3>1 DEF Cell
    <3>3. Cell(i) = line[i - Len(rx)]
      BY <3>1 DEF Cell
    <3> QED BY <1>2, <3>1, <3>2, <3>3
  <2> QED BY <1>1, <2>1, <2>2, <2>3
<1> PICK g : g = [i \in 1 .. Way' |-> i]
  OBVIOUS
<1>6. g \in [1 .. Way' -> 1 .. Way] /\ \A i \in 1 .. Way' : g[i] = i
  BY <1>4
<1>7. \A i, j \in 1 .. Way' : i < j => g[i] < g[j]
  BY <1>6
<1>8. \A i \in 1 .. Way' : last < ix[g[i]]
  BY <1>4, <1>6 DEF Tags
<1>9. \A i \in 1 .. Way' : Cell(i)' \notin Crcs \/ Cell(i)' = Cell(g[i])
  BY <1>4, <1>5, <1>6
<1>10. Way \in Nat /\ Way' \in Nat
  BY <1>1, <1>4
<1>11. g \in [1 .. Way' -> 1 .. Way]
  BY <1>6
<1> QED BY <1>7, <1>8, <1>9, <1>10, <1>11, Thinned

\* A cell is lost.
LEMMA LossTags ==
  ASSUME ParserInv, ParserInv', line # <<>>, line' = Tail(line), sent' = sent, rx' = rx,
         NEW last, NEW ix, Tags(ix, last)
  PROVE  \E jx : Tags(jx, last)'
<1>1. /\ Len(rx) \in Nat /\ Len(line) \in Nat /\ Way \in Nat /\ Way = Len(rx) + Len(line)
  BY Sizes
<1>2. /\ Len(line) >= 1 /\ Len(line') = Len(line) - 1
      /\ \A i \in 1 .. (Len(line) - 1) : line'[i] = line[1 + i]
  BY TailIs DEF ParserInv
<1>4. Way' = Way - 1 /\ Way' \in Nat
  BY <1>1, <1>2 DEF Way
<1> PICK g : g = [i \in 1 .. Way' |-> IF i <= Len(rx) THEN i ELSE i + 1]
  OBVIOUS
<1>5. \A i \in 1 .. Way' : g[i] = IF i <= Len(rx) THEN i ELSE i + 1
  OBVIOUS
<1>6. g \in [1 .. Way' -> 1 .. Way]
  BY <1>1, <1>4, <1>5
<1>7. \A i, j \in 1 .. Way' : i < j => g[i] < g[j]
  BY <1>1, <1>4, <1>5
<1>8. ASSUME NEW i \in 1 .. Way' PROVE Cell(i)' = Cell(g[i])
  <2>1. CASE i <= Len(rx)
    BY <1>5, <2>1 DEF Cell
  <2>2. CASE ~(i <= Len(rx))
    <3>1. g[i] = i + 1 /\ ~(i + 1 <= Len(rx)) /\ (i + 1) - Len(rx) = 1 + (i - Len(rx))
          /\ i - Len(rx) \in 1 .. (Len(line) - 1)
      BY <1>1, <1>4, <1>5, <2>2
    <3>2. Cell(i)' = line'[i - Len(rx)]
      BY <2>2 DEF Cell
    <3>3. Cell(g[i]) = line[(i + 1) - Len(rx)]
      BY <3>1 DEF Cell
    <3> QED BY <1>2, <3>1, <3>2, <3>3
  <2> QED BY <2>1, <2>2
<1>9. \A i \in 1 .. Way' : last < ix[g[i]]
  BY <1>6 DEF Tags
<1>10. \A i \in 1 .. Way' : Cell(i)' \notin Crcs \/ Cell(i)' = Cell(g[i])
  BY <1>8
<1>11. Way \in Nat /\ Way' \in Nat
  BY <1>1, <1>4
<1> QED BY <1>6, <1>7, <1>9, <1>10, <1>11, Thinned

(***************************************************************************)
(* What passes the CRC is a packet that was sent, later than all that were *)
(* delivered before and earlier than all that are still on their way.      *)
(***************************************************************************)
LEMMA GoodPacket ==
  ASSUME ParserInv, receive_check = "crc", Len(rx) >= 1,
         ~Overfull(CRC), CrcOk(Collected(CRC)),
         NEW last \in Nat, NEW ix, Tags(ix, last)
  PROVE  /\ Cell(1) \in Crcs /\ Way >= 1 /\ sent[ix[1]] \in Payloads
         /\ Cell(1) = Crc(Content(sent[ix[1]]))
         /\ SubSeq(Collected(CRC), HEADER + 1, HEADER + packet_size) = sent[ix[1]]
<1> DEFINE buf == Collected(CRC)
           c == packet_buf[2]
           body == [i \in 1 .. packet_size |-> packet_buf[2 + i]]
           two == <<CodeCell, c>>
           s == two \o body
<1>1. /\ packet_buf \in Seq(Cells) /\ rx \in Seq(Cells) /\ packet_size \in Nat
      /\ packet_size <= PACKET_MAX_SIZE /\ Len(packet_buf) = 2 + packet_size
      /\ packet_buf[1] = CodeCell /\ SizeOf(c) = packet_size
  BY BufSize DEF ParserInv, HeaderIn, HEADER
<1>2. Len(rx) \in Nat /\ Way >= 1 /\ Way \in Nat
  BY Sizes
<1>3. \A i \in 1 .. (2 + packet_size) : packet_buf[i] \in Cells
  BY <1>1, ElementOfSeq
<1>4. c \in Cells
  BY <1>1, <1>3
<1>5. /\ buf \in Seq(Cells) /\ Len(buf) = 3 + packet_size
      /\ \A i \in 1 .. (2 + packet_size) : buf[i] = packet_buf[i]
      /\ buf[3 + packet_size] = rx[1]
  <2>1. CRC \in Nat /\ CRC = 1 /\ CRC <= Len(rx)
    BY <1>2 DEF CRC
  <2>2. Len(packet_buf) + CRC <= PACKET_BUF
    BY <1>1, <2>1, BufSize
  <2>3. /\ buf \in Seq(Cells) /\ Len(buf) = Len(packet_buf) + CRC
        /\ \A i \in 1 .. Len(packet_buf) : buf[i] = packet_buf[i]
        /\ \A i \in 1 .. CRC : buf[Len(packet_buf) + i] = rx[i]
    BY <1>1, <2>1, <2>2, CollectedIs
  <2> HIDE DEF buf
  <2>4. buf[Len(packet_buf) + 1] = rx[1]
    BY <2>1, <2>3
  <2>5. Len(packet_buf) + 1 = 3 + packet_size
    BY <1>1
  <2> QED BY <1>1, <2>1, <2>3, <2>4, <2>5
<1>6. buf[Len(buf)] = Crc(SubSeq(buf, 1, Len(buf) - CRC))
  BY DEF CrcOk
<1> HIDE DEF buf
<1>7. body \in [1 .. packet_size -> Cells]
  BY <1>1, <1>3
<1>8. body \in Seq(Cells) /\ Len(body) = packet_size
  BY <1>1, <1>7
<1>9. /\ s \in Seq(Cells \union {CodeCell}) /\ Len(s) = 2 + packet_size
      /\ s[1] = CodeCell /\ s[2] = c /\ \A i \in 1 .. packet_size : s[2 + i] = body[i]
  <2>1. /\ two \in Seq(Cells \union {CodeCell}) /\ Len(two) = 2 /\ two[1] = CodeCell /\ two[2] = c
    BY <1>4
  <2>2. body \in Seq(Cells \union {CodeCell})
    BY <1>8
  <2> HIDE DEF two, body
  <2>3. /\ two \o body \in Seq(Cells \union {CodeCell}) /\ Len(two \o body) = Len(two) + Len(body)
        /\ \A i \in 1 .. Len(two) : (two \o body)[i] = two[i]
        /\ \A i \in 1 .. Len(body) : (two \o body)[Len(two) + i] = body[i]
    <3> DEFINE X == Cells \union {CodeCell}
    <3>1. two \in Seq(X) /\ body \in Seq(X)
      BY <2>1, <2>2
    <3> HIDE DEF X
    <3>2. /\ two \o body \in Seq(X) /\ Len(two \o body) = Len(two) + Len(body)
          /\ \A i \in 1 .. Len(two) : (two \o body)[i] = two[i]
          /\ \A i \in 1 .. Len(body) : (two \o body)[Len(two) + i] = body[i]
      <4>1. two \in Seq(X)
        BY <3>1
      <4>2. body \in Seq(X)
        BY <3>1
      <4> QED BY <4>1, <4>2, Joined
    <3> QED BY <3>2 DEF X
  <2> QED BY <1>8, <2>1, <2>3
<1>10. \A i \in 1 .. packet_size : body[i] = packet_buf[2 + i]
  OBVIOUS
<1> HIDE DEF body, two
<1>11. SubSeq(buf, 1, Len(buf) - CRC) = s
  <2> DEFINE head == SubSeq(buf, 1, Len(buf) - CRC)
  <2>1. Len(buf) - CRC = 2 + packet_size
    BY <1>1, <1>5 DEF CRC
  <2>2. \A i \in 1 .. (2 + packet_size) : buf[i] \in Cells
    BY <1>3, <1>5
  <2>3. /\ SubSeq(buf, 1, 2 + packet_size) \in Seq(Cells)
        /\ Len(SubSeq(buf, 1, 2 + packet_size)) = IF 1 <= 2 + packet_size THEN 2 + packet_size - 1 + 1 ELSE 0
        /\ \A i \in 1 .. (2 + packet_size - 1 + 1) : SubSeq(buf, 1, 2 + packet_size)[i] = buf[1 + i - 1]
    BY <1>1, <2>2, SubSeqProperties
  <2>4. head \in Seq(Cells) /\ Len(head) = 2 + packet_size
        /\ \A i \in 1 .. (2 + packet_size) : head[i] = buf[i]
    BY <1>1, <2>1, <2>3
  <2> HIDE DEF head, s
  <2>5. \A i \in 1 .. (2 + packet_size) : head[i] = s[i]
    <3> SUFFICES ASSUME NEW i \in 1 .. (2 + packet_size) PROVE head[i] = s[i]
      OBVIOUS
    <3>1. head[i] = packet_buf[i]
      BY <1>5, <2>4
    <3>2. CASE i > 2
      <4>1. i - 2 \in 1 .. packet_size /\ 2 + (i - 2) = i
        BY <1>1, <3>2
      <4> QED BY <1>9, <1>10, <3>1, <4>1
    <3>3. CASE i = 1
      BY <1>1, <1>9, <3>1, <3>3
    <3>4. CASE i = 2
      BY <1>9, <3>1, <3>4
    <3> QED BY <3>2, <3>3, <3>4
  <2>6. head \in Seq(Cells \union {CodeCell})
    BY <2>4
  <2>7. head = s
    BY <1>9, <2>4, <2>5, <2>6, SeqEqual
  <2> QED BY <2>7 DEF head
<1>12. rx[1] = Crc(s) /\ rx[1] \in Cells
  <2>1. rx[1] = Crc(s)
    BY <1>1, <1>5, <1>6, <1>11
  <2>2. 1 \in 1 .. Len(rx)
    BY <1>2
  <2>3. rx[1] \in Cells
    BY <1>1, <2>2, ElementOfSeq
  <2> QED BY <2>1, <2>3
<1>13. PICK p \in Payloads : s = Content(p)
  <2>1. body \in [1 .. SizeOf(c) -> Cells] /\ SizeOf(c) <= PACKET_MAX_SIZE
    BY <1>1, <1>7
  <2>2. Crc(<<CodeCell, c>> \o body) \in Cells
    BY <1>12 DEF two
  <2>3. \E p \in Payloads : <<CodeCell, c>> \o body = Content(p)
    BY <1>4, <2>1, <2>2, CrcAssumption, Zenon
  <2> QED BY <2>3 DEF two
<1>14. Cell(1) = rx[1] /\ Cell(1) \in Crcs
  BY <1>2, <1>12, <1>13 DEF Cell, Crcs
<1>15. Cell(1) = Crc(Content(sent[ix[1]])) /\ ix[1] \in Int /\ last < ix[1] /\ ix[1] <= Len(sent)
  <2>1. 1 \in 1 .. Way
    BY <1>2
  <2> QED BY <1>14, <2>1 DEF Tags
<1>16. ix[1] \in 1 .. Len(sent) /\ sent[ix[1]] \in Payloads
  <2>1. ix[1] \in 1 .. Len(sent)
    BY <1>15, Sizes
  <2> QED BY <2>1, ElementOfSeq DEF ParserInv
<1>17. p = sent[ix[1]]
  <2>1. Crc(Content(p)) = Crc(Content(sent[ix[1]]))
    BY <1>12, <1>13, <1>14, <1>15
  <2> QED BY <1>16, <2>1, CrcAssumption
<1>18. SubSeq(buf, HEADER + 1, HEADER + packet_size) = p
  <2> DEFINE part == SubSeq(buf, HEADER + 1, HEADER + packet_size)
  <2>1. /\ Len(p) \in Nat /\ Len(Content(p)) = 2 + Len(p)
        /\ \A i \in 1 .. Len(p) : Content(p)[2 + i] = p[i]
        /\ p \in Seq(Cells)
    BY FrameEnd, LineAssumption
  <2>2. Len(p) = packet_size
    BY <1>1, <1>9, <1>13, <2>1
  <2>3. HEADER + 1 = 3 /\ HEADER + packet_size = 2 + packet_size
    BY DEF HEADER
  <2>4. \A i \in 3 .. (2 + packet_size) : buf[i] \in Cells
    <3>1. \A i \in 3 .. (2 + packet_size) : i \in 1 .. (2 + packet_size)
      BY <1>1
    <3> QED BY <1>3, <1>5, <3>1
  <2> DEFINE hi == 2 + packet_size
  <2>5. 3 \in Int /\ hi \in Int /\ \A i \in 3 .. hi : buf[i] \in Cells
    BY <1>1, <2>4
  <2> HIDE DEF hi
  <2>6. part \in Seq(Cells) /\ Len(part) = packet_size
        /\ \A i \in 1 .. packet_size : part[i] = buf[2 + i]
    <3>1. /\ SubSeq(buf, 3, hi) \in Seq(Cells)
          /\ Len(SubSeq(buf, 3, hi)) = IF 3 <= hi THEN hi - 3 + 1 ELSE 0
          /\ \A i \in 1 .. (hi - 3 + 1) : SubSeq(buf, 3, hi)[i] = buf[3 + i - 1]
      BY <2>5, SubSeqProperties
    <3>2. hi - 3 + 1 = packet_size /\ (3 <= hi <=> packet_size > 0)
          /\ \A i \in 1 .. packet_size : 3 + i - 1 = 2 + i
      BY <1>1 DEF hi
    <3>3. part = SubSeq(buf, 3, hi)
      BY <2>3 DEF hi
    <3> HIDE DEF part
    <3> QED BY <1>1, <3>1, <3>2, <3>3
  <2> HIDE DEF part, s
  <2>7. \A i \in 1 .. packet_size : part[i] = p[i]
    <3> SUFFICES ASSUME NEW i \in 1 .. packet_size PROVE part[i] = p[i]
      OBVIOUS
    <3>1. 2 + i \in 1 .. (2 + packet_size)
      BY <1>1
    <3>2. part[i] = packet_buf[2 + i]
      BY <1>5, <2>6, <3>1
    <3>3. s[2 + i] = packet_buf[2 + i]
      BY <1>9, <1>10
    <3>4. Content(p)[2 + i] = p[i]
      BY <2>1, <2>2
    <3> QED BY <1>13, <3>2, <3>3, <3>4
  <2>8. part = p
    BY <2>1, <2>2, <2>6, <2>7, SeqEqual
  <2> QED BY <2>8 DEF part
<1> QED BY <1>2, <1>14, <1>15, <1>16, <1>17, <1>18 DEF buf

\* A packet is put behind those that were delivered.
LEMMA DeliverKeeps ==
  ASSUME delivered \in Seq(Payloads), NEW last \in Nat, Among(delivered, sent, last),
         NEW k \in Nat, last < k, NEW p \in Payloads, p = sent[k],
         delivered' = Append(delivered, p), sent' = sent
  PROVE  delivered' \in Seq(Payloads) /\ Among(delivered', sent', k)
<1>1. /\ delivered' \in Seq(Payloads) /\ Len(delivered) \in Nat
      /\ Len(delivered') = Len(delivered) + 1 /\ delivered'[Len(delivered) + 1] = p
      /\ \A i \in 1 .. Len(delivered) : delivered'[i] = delivered[i]
  BY AppendProperties, LenProperties
<1> DEFINE n == Len(delivered)
<1>2. PICK at \in [1 .. n -> 1 .. last] :
        \A i \in 1 .. n : delivered[i] = sent[at[i]] /\ \A j \in 1 .. (i - 1) : at[j] < at[i]
  BY DEF Among
<1> HIDE DEF n
<1>3. n \in Nat /\ Len(delivered') = n + 1 /\ delivered'[n + 1] = p
      /\ \A i \in 1 .. n : delivered'[i] = delivered[i]
  BY <1>1 DEF n
<1> PICK new : new = [i \in 1 .. (n + 1) |-> IF i <= n THEN at[i] ELSE k]
  OBVIOUS
<1>4. /\ \A i \in 1 .. n : new[i] = at[i] /\ at[i] \in 1 .. last
      /\ new[n + 1] = k
  BY <1>3
<1>5. new \in [1 .. (n + 1) -> 1 .. k]
  <2>1. \A i \in 1 .. n : at[i] \in 1 .. k
    BY <1>4
  <2>2. k \in 1 .. k
    OBVIOUS
  <2> QED BY <1>3, <2>1, <2>2
<1>6. ASSUME NEW i \in 1 .. (n + 1)
      PROVE  delivered'[i] = sent[new[i]] /\ \A j \in 1 .. (i - 1) : new[j] < new[i]
  <2>1. CASE i \in 1 .. n
    <3>1. delivered'[i] = sent[new[i]]
      BY <1>2, <1>3, <1>4, <2>1
    <3>2. ASSUME NEW j \in 1 .. (i - 1) PROVE new[j] < new[i]
      <4>1. j \in 1 .. n
        BY <1>3, <2>1
      <4> QED BY <1>2, <1>4, <2>1, <4>1
    <3> QED BY <3>1, <3>2
  <2>2. CASE i = n + 1
    <3>1. delivered'[i] = sent[new[i]]
      BY <1>3, <1>4, <2>2
    <3>2. ASSUME NEW j \in 1 .. (i - 1) PROVE new[j] < new[i]
      <4>1. j \in 1 .. n
        BY <1>3, <2>2
      <4>2. new[j] \in 1 .. last
        BY <1>4, <4>1
      <4> QED BY <1>4, <2>2, <4>2
    <3> QED BY <3>1, <3>2
  <2>3. i \in 1 .. n \/ i = n + 1
    BY <1>3
  <2> QED BY <2>1, <2>2, <2>3
<1>7. Among(delivered', sent', k)
  <2>1. new \in [1 .. Len(delivered') -> 1 .. k]
    BY <1>3, <1>5
  <2>2. \A i \in 1 .. Len(delivered') :
          delivered'[i] = sent'[new[i]] /\ \A j \in 1 .. (i - 1) : new[j] < new[i]
    BY <1>3, <1>6
  <2> QED BY <2>1, <2>2 DEF Among
<1> QED BY <1>1, <1>7

\* Every step keeps OrderInv: what is delivered was sent behind what was delivered before.
LEMMA OrderNext == ParserInv /\ ParserInv' /\ OrderInv /\ [Next]_vars => OrderInv'
<1> SUFFICES ASSUME ParserInv, ParserInv', OrderInv, [Next]_vars PROVE OrderInv'
  OBVIOUS
<1> PICK last \in 0 .. Len(sent) : Among(delivered, sent, last) /\ \E ix : Tags(ix, last)
  BY DEF OrderInv
<1> PICK ix : Tags(ix, last)
  OBVIOUS
<1>a. /\ delivered \in Seq(Payloads) /\ Len(sent) \in Nat /\ last \in Nat /\ last <= Len(sent)
      /\ Len(rx) \in Nat /\ Way \in Nat
      /\ Among(delivered, sent, last)
  <2>1. Len(sent) \in Nat /\ Len(rx) \in Nat /\ Way \in Nat
    BY Sizes
  <2> QED BY <2>1 DEF OrderInv
<1>b. \A i \in 1 .. Way : last < ix[i]
  BY DEF Tags
\* As long as nothing is delivered or sent, the tags are all there is to show.
<1>c. ASSUME sent' = sent, delivered' = delivered, \E jx : Tags(jx, last)' PROVE OrderInv'
  <2>1. PICK jx : Tags(jx, last)'
    BY <1>c
  <2>2. Among(delivered', sent', last) /\ last \in 0 .. Len(sent') /\ delivered' \in Seq(Payloads)
    BY <1>a, <1>c
  <2> QED BY <2>1, <2>2 DEF OrderInv
<1>d. ASSUME UNCHANGED <<rx, line, sent, delivered>> PROVE OrderInv'
  <2>1. Tags(ix, last)'
    BY <1>d DEF Tags, Way, Cell
  <2> QED BY <1>c, <1>d, <2>1
<1>e. ASSUME NEW n \in Nat, n <= Len(rx), rx' = RestOf(n), UNCHANGED <<line, sent, delivered>>
      PROVE  OrderInv'
  <2>1. \A i \in 1 .. Way : i > n => last < ix[i]
    BY <1>b
  <2>2. \E jx : Tags(jx, last)'
    BY <1>e, <2>1, TakenTags
  <2> QED BY <1>c, <1>e, <2>2
<1>1. CASE Send
  <2>1. Among(delivered', sent', last) /\ last \in 0 .. Len(sent') /\ \E jx : Tags(jx, last)'
    BY <1>1, <1>a, SendTags
  <2>2. delivered' \in Seq(Payloads)
    BY <1>1, <1>a DEF Send
  <2> QED BY <2>1, <2>2 DEF OrderInv
<1>2. CASE Arrive
  <2>1. /\ line # <<>> /\ line' = Tail(line) /\ rx' = Append(rx, Head(line))
        /\ sent' = sent /\ delivered' = delivered
    BY <1>2 DEF Arrive, historyVars
  <2>2. \E jx : Tags(jx, last)'
    BY <2>1, ArriveTags
  <2> QED BY <1>c, <2>1, <2>2
<1>3. CASE Fault
  <2>1. /\ line # <<>> /\ line' = Tail(line) /\ rx' \in {rx, Append(rx, NOISE)}
        /\ sent' = sent /\ delivered' = delivered
    BY <1>3 DEF Fault
  <2>2. CASE rx' = rx
    <3>1. \E jx : Tags(jx, last)'
      BY <2>1, <2>2, LossTags
    <3> QED BY <1>c, <2>1, <3>1
  <2>3. CASE rx' = Append(rx, NOISE)
    <3>1. \E jx : Tags(jx, last)'
      BY <2>1, <2>3, ArriveTags
    <3> QED BY <1>c, <2>1, <3>1
  <2> QED BY <2>1, <2>2, <2>3
<1>4. CASE HostRestart
  <2>1. rx' = <<>> /\ line' = <<>> /\ sent' = <<>> /\ delivered' = <<>> /\ Len(<<>>) = 0
    BY <1>4 DEF HostRestart, Idle, lineVars
  <2>2. Way' = 0
    BY <2>1 DEF Way
  <2> PICK none : none = [i \in 1 .. 0 |-> 0]
    OBVIOUS
  <2>3. Tags(none, 0)'
    BY <2>1, <2>2 DEF Tags
  <2>4. Among(delivered', sent', 0)
    <3>1. none \in [1 .. Len(delivered') -> 1 .. 0]
      BY <2>1
    <3>2. \A i \in 1 .. Len(delivered') :
            delivered'[i] = sent'[none[i]] /\ \A j \in 1 .. (i - 1) : none[j] < none[i]
      BY <2>1
    <3> QED BY <3>1, <3>2 DEF Among
  <2>5. delivered' \in Seq(Payloads) /\ 0 \in 0 .. Len(sent')
    BY <2>1
  <2> QED BY <2>3, <2>4, <2>5 DEF OrderInv
<1>5. CASE Expire \/ WorkerTimeout \/ WorkerNoTimeout \/ WorkerReturns \/ CheckWaits \/ UNCHANGED vars
  <2>1. UNCHANGED <<rx, line, sent, delivered>>
    BY <1>5 DEF Expire, WorkerTimeout, WorkerNoTimeout, WorkerReturns, CheckWaits,
                vars, lineVars, historyVars
  <2> QED BY <1>d, <2>1
<1>6. CASE receive_check_start
  <2>1. rx # <<>> /\ rx' = Tail(rx) /\ UNCHANGED <<line, sent, delivered>>
    BY <1>6 DEF receive_check_start, historyVars
  <2>2. /\ Tail(rx) \in Seq(Cells) /\ Len(rx) >= 1 /\ Len(Tail(rx)) = Len(rx) - 1
        /\ \A i \in 1 .. (Len(rx) - 1) : Tail(rx)[i] = rx[1 + i]
    BY <2>1, TailIs DEF ParserInv
  <2>3. /\ RestOf(1) \in Seq(Cells) /\ Len(RestOf(1)) = Len(rx) - 1
        /\ \A i \in 1 .. (Len(rx) - 1) : RestOf(1)[i] = rx[1 + i]
    BY <2>2, RestIs DEF ParserInv
  <2>4. Tail(rx) = RestOf(1)
    BY <2>2, <2>3, SeqEqual
  <2> QED BY <1>e, <2>1, <2>2, <2>4
<1>7. ASSUME NEW check, NEW n \in Nat, Taking(check, n), UNCHANGED <<line, sent, delivered>>
      PROVE  OrderInv'
  <2>1. n <= Len(rx) /\ rx' = RestOf(n)
    BY <1>7, Taken DEF Taking
  <2> QED BY <1>e, <1>7, <2>1
<1>8. CASE receive_check_info
  <2>1. HEADER \in Nat /\ Taking("info", HEADER) /\ UNCHANGED <<line, sent, delivered>>
    BY <1>8 DEF receive_check_info, HEADER, historyVars
  <2> QED BY <1>7, <2>1
<1>9. CASE receive_check_body
  <2>1. packet_size \in Nat /\ Taking("body", packet_size) /\ UNCHANGED <<line, sent, delivered>>
    BY <1>9, BufSize DEF receive_check_body, historyVars, ParserInv
  <2> QED BY <1>7, <2>1
<1>10. CASE receive_check_crc
  <2> DEFINE buf == Collected(CRC)
  <2>1. CRC = 1 /\ CRC \in Nat /\ Taking("crc", CRC) /\ UNCHANGED <<line, sent>>
    BY <1>10 DEF receive_check_crc, CRC
  <2>2. CASE Overfull(CRC) \/ ~CrcOk(buf)
    <3>1. delivered' = delivered
      BY <1>10, <2>2 DEF receive_check_crc
    <3> QED BY <1>7, <2>1, <3>1
  <2>3. CASE ~Overfull(CRC) /\ CrcOk(buf)
    <3>1. delivered' = Append(delivered, SubSeq(buf, HEADER + 1, HEADER + packet_size))
      BY <1>10, <2>3 DEF receive_check_crc
    <3>2. receive_check = "crc" /\ 1 <= Len(rx) /\ rx' = RestOf(1)
      BY <2>1, Taken DEF Taking
    <3>3. Len(rx) >= 1
      BY <1>a, <3>2
    <3>4. /\ Cell(1) \in Crcs /\ Way >= 1 /\ sent[ix[1]] \in Payloads
          /\ SubSeq(buf, HEADER + 1, HEADER + packet_size) = sent[ix[1]]
      BY <1>a, <2>3, <3>2, <3>3, GoodPacket
    <3> PICK k : k = ix[1]
      OBVIOUS
    <3>5. 1 \in 1 .. Way
      BY <1>a, <3>4
    <3>6. k \in Int /\ last < k /\ k <= Len(sent)
      BY <3>5 DEF Tags
    <3>7. k \in Nat
      BY <1>a, <3>6
    <3>8. delivered' \in Seq(Payloads) /\ Among(delivered', sent', k)
      BY <1>a, <2>1, <3>1, <3>4, <3>6, <3>7, DeliverKeeps
    <3>9. \A i \in 1 .. Way : i > 1 => k < ix[i]
      BY <3>4, <3>5 DEF Tags
    <3>10. \E jx : Tags(jx, k)'
      <4>1. 1 \in Nat /\ line' = line /\ sent' = sent
        BY <2>1
      <4> QED BY <3>2, <3>9, <4>1, TakenTags
    <3>11. k \in 0 .. Len(sent')
      BY <1>a, <2>1, <3>6, <3>7
    <3> QED BY <3>8, <3>10, <3>11 DEF OrderInv
  <2> QED BY <2>2, <2>3
<1> QED BY <1>1, <1>2, <1>3, <1>4, <1>5, <1>6, <1>8, <1>9, <1>10 DEF Next, Worker, Check

(***************************************************************************)
(* Whatever the line loses or garbles, and whatever looks like the start   *)
(* of a packet: the commands get packets the host sent, each at most once  *)
(* and in order.  CrcAssumption is needed: a body that holds a whole       *)
(* packet can be taken for it once the frame around it is broken.          *)
(***************************************************************************)
THEOREM OnlySentIsDelivered == Spec => []OnlyWhatWasSent
<1>1. ParserInv /\ OrderInv => OnlyWhatWasSent
  <2> SUFFICES ASSUME ParserInv, OrderInv PROVE OnlyWhatWasSent
    OBVIOUS
  <2>1. PICK last \in 0 .. Len(sent) : Among(delivered, sent, last)
    BY DEF OrderInv
  <2>2. PICK at \in [1 .. Len(delivered) -> 1 .. last] :
          \A i \in 1 .. Len(delivered) :
            delivered[i] = sent[at[i]] /\ \A j \in 1 .. (i - 1) : at[j] < at[i]
    BY <2>1 DEF Among
  <2>3. at \in [1 .. Len(delivered) -> 1 .. Len(sent)]
    <3>1. \A i \in 1 .. last : i \in 1 .. Len(sent)
      BY Sizes
    <3> QED BY <3>1
  <2> QED BY <2>2, <2>3 DEF OnlyWhatWasSent, IsSubsequence
<1> QED BY ParserInit, ParserNext, OrderInit, OrderNext, <1>1, PTL DEF Spec

----------------------------------------------------------------------------
(* What a line without disturbances brings *)

\* The next cell is the one behind the first k of packet n + 1, and the rest of that
\* packet and the packets behind it are all that is on its way: at says behind how
\* many of the cells each of them ends.
Position(n, k) ==
  \E at \in [n .. Len(sent) -> Int] :
     /\ at[n] = -k /\ at[Len(sent)] = Way
     /\ \A i \in n .. Len(sent) : at[i] <= Way
     /\ \A i \in (n + 1) .. Len(sent) :
          /\ at[i] = at[i - 1] + Len(Frame(sent[i]))
          /\ \A c \in 1 .. Len(Frame(sent[i])) :
               at[i - 1] + c >= 1 => Cell(at[i - 1] + c) = Frame(sent[i])[c]

\* The window ends with the first k cells of the signature.
EndsWith(window, k) ==
  /\ k <= Len(window)
  /\ \A i \in 1 .. k : window[Len(window) - k + i] = PACKET_SIGN_RX[i]

\* What the parser has seen of the packet p when it has taken k of its cells.
Parsed(p, k) ==
  IF receive_check = "start"
  THEN k < Len(PACKET_SIGN_RX) /\ EndsWith(packet_start, k)
  ELSE /\ k = Len(PACKET_SIGN_RX) + Len(packet_buf)
       /\ \A i \in 1 .. Len(packet_buf) : packet_buf[i] = Content(p)[i]

\* Of the packets up to n every one that can get through has, and the parser is where
\* the line is.
InStep(n, k) ==
  /\ DeliverableOf(delivered, sent, n)
  /\ Position(n, k) /\ Parsed(sent[n + 1], k)
  /\ n = Len(sent) => k = 0

CleanInv == ~disturbed => \E n \in 0 .. Len(sent) : \E k \in Nat : InStep(n, k)

\* The cells of a frame.
LEMMA FrameCells ==
  ASSUME NEW p \in Payloads
  PROVE  /\ Len(PACKET_SIGN_RX) \in Nat /\ Len(PACKET_SIGN_RX) >= 1 /\ Len(p) \in Nat /\ Len(p) <= PACKET_MAX_SIZE
         /\ Len(Frame(p)) = Len(PACKET_SIGN_RX) + (3 + Len(p))
         /\ Len(Content(p)) = 2 + Len(p)
         /\ \A i \in 1 .. Len(PACKET_SIGN_RX) : Frame(p)[i] = PACKET_SIGN_RX[i]
         /\ \A i \in 1 .. (2 + Len(p)) : Frame(p)[Len(PACKET_SIGN_RX) + i] = Content(p)[i]
         /\ Frame(p)[Len(PACKET_SIGN_RX) + (3 + Len(p))] = Crc(Content(p))
         /\ Content(p)[1] = CodeCell /\ SizeOf(Content(p)[2]) = Len(p)
         /\ \A i \in 1 .. Len(p) : Content(p)[2 + i] = p[i]
         /\ Content(p) = [i \in 1 .. (2 + Len(p)) |-> Content(p)[i]]
<1> DEFINE c == Crc(Content(p))
           X == Cells \union {CodeCell, SizeCell(Len(p)), c}
           two == <<CodeCell, SizeCell(Len(p))>>
           S == Len(PACKET_SIGN_RX)
           start == PACKET_SIGN_RX \o Content(p)
<1>1. two \in Seq(X) /\ Len(two) = 2 /\ two[1] = CodeCell /\ two[2] = SizeCell(Len(p))
  OBVIOUS
<1>2. p \in Seq(X) /\ PACKET_SIGN_RX \in Seq(X) /\ Len(p) \in Nat /\ S \in Nat
  BY LineAssumption, LenProperties
<1>3. S >= 1
  <2>1. PACKET_SIGN_RX \in Seq(Cells) /\ PACKET_SIGN_RX # <<>>
    BY LineAssumption, ReceiverAssumption
  <2>2. Len(PACKET_SIGN_RX) # 0
    BY <2>1, EmptySeq
  <2> QED BY <1>2, <2>2
<1>4. Len(p) <= PACKET_MAX_SIZE /\ SizeOf(SizeCell(Len(p))) = Len(p)
  BY ReceiverAssumption
<1> HIDE DEF X, two
<1>5. /\ Content(p) \in Seq(X) /\ Len(Content(p)) = 2 + Len(p)
      /\ Content(p)[1] = CodeCell /\ Content(p)[2] = SizeCell(Len(p))
      /\ \A i \in 1 .. Len(p) : Content(p)[2 + i] = p[i]
  <2>1. /\ two \o p \in Seq(X) /\ Len(two \o p) = Len(two) + Len(p)
        /\ \A i \in 1 .. Len(two) : (two \o p)[i] = two[i]
        /\ \A i \in 1 .. Len(p) : (two \o p)[Len(two) + i] = p[i]
    <3>1. two \in Seq(X)
      BY <1>1
    <3>2. p \in Seq(X)
      BY <1>2
    <3> QED BY <3>1, <3>2, Joined
  <2>2. Content(p) = two \o p
    BY DEF Content, two
  <2> HIDE DEF Content
  <2> QED BY <1>1, <1>2, <2>1, <2>2
<1>6. /\ start \in Seq(X) /\ Len(start) = S + Len(Content(p))
      /\ \A i \in 1 .. S : start[i] = PACKET_SIGN_RX[i]
      /\ \A i \in 1 .. Len(Content(p)) : start[S + i] = Content(p)[i]
  <2>1. PACKET_SIGN_RX \in Seq(X)
    BY <1>2
  <2>2. Content(p) \in Seq(X)
    BY <1>5
  <2> HIDE DEF Content
  <2> QED BY <2>1, <2>2, Joined DEF S
<1>7. Frame(p) = start \o <<c>>
  BY DEF Frame
<1>8. c \in X
  BY DEF X
<1> HIDE DEF start, c, S
<1>9. <<c>> \in Seq(X) /\ Len(<<c>>) = 1 /\ <<c>>[1] = c
  BY <1>8
<1>10. /\ Len(start \o <<c>>) = Len(start) + 1
       /\ \A i \in 1 .. Len(start) : (start \o <<c>>)[i] = start[i]
       /\ (start \o <<c>>)[Len(start) + 1] = c
  <2>1. /\ Len(start \o <<c>>) = Len(start) + Len(<<c>>)
        /\ \A i \in 1 .. Len(start) : (start \o <<c>>)[i] = start[i]
        /\ \A i \in 1 .. Len(<<c>>) : (start \o <<c>>)[Len(start) + i] = <<c>>[i]
    BY <1>6, <1>9, Joined
  <2> QED BY <1>9, <2>1
<1>11. Len(start) = S + (2 + Len(p)) /\ Len(start) + 1 = S + (3 + Len(p))
  BY <1>2, <1>5, <1>6
<1>12. ASSUME NEW i \in 1 .. S PROVE Frame(p)[i] = PACKET_SIGN_RX[i]
  <2>1. i \in 1 .. Len(start)
    BY <1>2, <1>11
  <2> QED BY <1>6, <1>7, <1>10, <2>1 DEF S
<1>13. ASSUME NEW i \in 1 .. (2 + Len(p)) PROVE Frame(p)[S + i] = Content(p)[i]
  <2>1. S + i \in 1 .. Len(start) /\ i \in 1 .. Len(Content(p))
    BY <1>2, <1>5, <1>11
  <2> QED BY <1>6, <1>7, <1>10, <2>1
<1>14. Content(p) = [i \in 1 .. (2 + Len(p)) |-> Content(p)[i]]
  <2>1. Content(p) = [i \in 1 .. Len(Content(p)) |-> Content(p)[i]]
    BY <1>5
  <2> QED BY <1>5, <2>1
<1> HIDE DEF Content
<1> QED BY <1>2, <1>3, <1>4, <1>5, <1>7, <1>10, <1>11, <1>12, <1>13, <1>14 DEF S, c

\* As long as a packet is not at its end, its cells are the next to come.
LEMMA CurrentFrame ==
  ASSUME ParserInv, NEW n \in 0 .. Len(sent), NEW k \in Nat, Position(n, k), n < Len(sent)
  PROVE  /\ sent[n + 1] \in Payloads
         /\ Len(Frame(sent[n + 1])) - k <= Way
         /\ \A i \in 1 .. (Len(Frame(sent[n + 1])) - k) : Cell(i) = Frame(sent[n + 1])[k + i]
<1> DEFINE p == sent[n + 1]
           L == Len(Frame(p))
<1>1. n \in Nat /\ n + 1 \in 1 .. Len(sent) /\ Way \in Nat
  BY Sizes
<1>2. p \in Payloads
  BY <1>1, ElementOfSeq DEF ParserInv
<1>3. L \in Nat
  BY <1>2, FrameEnd
<1>4. PICK at \in [n .. Len(sent) -> Int] :
        /\ at[n] = -k /\ at[n + 1] <= Way
        /\ at[n + 1] = at[n] + L
        /\ \A c \in 1 .. L : at[n] + c >= 1 => Cell(at[n] + c) = Frame(p)[c]
  <2>1. n + 1 \in n .. Len(sent) /\ n + 1 \in (n + 1) .. Len(sent) /\ (n + 1) - 1 = n
    BY <1>1, Sizes
  <2> QED BY <2>1 DEF Position
<1> HIDE DEF L, p
<1>5. ASSUME NEW i \in 1 .. (L - k) PROVE Cell(i) = Frame(p)[k + i]
  <2>1. k + i \in 1 .. L /\ at[n] + (k + i) = i
    BY <1>3, <1>4
  <2>2. Cell(at[n] + (k + i)) = Frame(p)[k + i]
    BY <1>4, <2>1
  <2> QED BY <2>1, <2>2
<1>6. L - k <= Way
  BY <1>1, <1>3, <1>4
<1> QED BY <1>2, <1>5, <1>6 DEF p, L

\* Nothing is on its way when every packet is behind.
LEMMA NothingLeft ==
  ASSUME ParserInv, NEW k \in Nat, Position(Len(sent), k)
  PROVE  k = 0 /\ Way = 0
<1>1. PICK at \in [Len(sent) .. Len(sent) -> Int] : at[Len(sent)] = -k /\ at[Len(sent)] = Way
  BY DEF Position
<1> QED BY <1>1, Sizes

\* When m cells have been taken, each that is left has moved up.
LEMMA MovedUp ==
  ASSUME ParserInv, ParserInv', NEW m \in Nat, m <= Len(rx), rx' = RestOf(m), line' = line
  PROVE  Way' = Way - m /\ \A j \in Int : j >= 1 => Cell(j)' = Cell(j + m)
<1>1. /\ Len(rx) \in Nat /\ Len(line) \in Nat /\ Way = Len(rx) + Len(line)
      /\ Way' = Len(rx') + Len(line)
  BY Sizes DEF Way
<1>2. Len(rx') = Len(rx) - m /\ \A i \in 1 .. (Len(rx) - m) : rx'[i] = rx[m + i]
  BY RestIs DEF ParserInv
<1>3. ASSUME NEW j \in Int, j >= 1 PROVE Cell(j)' = Cell(j + m)
  <2>1. CASE j <= Len(rx')
    <3>1. j \in 1 .. (Len(rx) - m) /\ j + m <= Len(rx) /\ m + j = j + m
      BY <1>1, <1>2, <1>3, <2>1
    <3> QED BY <1>2, <2>1, <3>1 DEF Cell
  <2>2. CASE ~(j <= Len(rx'))
    <3>1. ~(j + m <= Len(rx)) /\ (j + m) - Len(rx) = j - Len(rx')
      BY <1>1, <1>2, <1>3, <2>2
    <3>2. Cell(j)' = line[j - Len(rx')]
      BY <2>2 DEF Cell
    <3>3. Cell(j + m) = line[(j + m) - Len(rx)]
      BY <3>1 DEF Cell
    <3> QED BY <3>1, <3>2, <3>3
  <2> QED BY <2>1, <2>2
<1> QED BY <1>1, <1>2, <1>3

\* Cells of the current packet are taken: the line is further on in it, or at the
\* beginning of the next.
LEMMA PositionTaken ==
  ASSUME ParserInv, ParserInv', NEW m \in Nat, m <= Len(rx), rx' = RestOf(m),
         line' = line, sent' = sent,
         NEW n \in 0 .. Len(sent), NEW k \in Nat, Position(n, k), n < Len(sent)
  PROVE  /\ Position(n, k + m)'
         /\ k + m = Len(Frame(sent[n + 1])) => Position(n + 1, 0)'
<1> DEFINE N == Len(sent)
<1>1. n \in Nat /\ N \in Nat /\ Way \in Nat /\ Way' = Way - m /\ Way' \in Nat
  <2>1. n \in Nat /\ N \in Nat /\ Way \in Nat /\ Len(rx) \in Nat /\ Len(line) \in Nat
        /\ Way = Len(rx) + Len(line)
    BY Sizes
  <2>2. Way' = Way - m
    BY MovedUp
  <2> HIDE DEF N
  <2> QED BY <2>1, <2>2
<1>2. \A j \in Int : j >= 1 => Cell(j)' = Cell(j + m)
  BY MovedUp
<1>3. PICK at \in [n .. N -> Int] :
        /\ at[n] = -k /\ at[N] = Way
        /\ \A i \in n .. N : at[i] <= Way
        /\ \A i \in (n + 1) .. N :
             /\ at[i] = at[i - 1] + Len(Frame(sent[i]))
             /\ \A c \in 1 .. Len(Frame(sent[i])) :
                  at[i - 1] + c >= 1 => Cell(at[i - 1] + c) = Frame(sent[i])[c]
  BY DEF Position
<1> HIDE DEF N
<1>4. \A i \in (n + 1) .. N : Len(Frame(sent[i])) \in Nat
  <2> SUFFICES ASSUME NEW i \in (n + 1) .. N PROVE Len(Frame(sent[i])) \in Nat
    OBVIOUS
  <2>1. i \in 1 .. Len(sent)
    BY <1>1 DEF N
  <2>2. sent[i] \in Payloads
    BY <2>1, ElementOfSeq DEF ParserInv
  <2> QED BY <2>2, FrameEnd
\* The ends of the packets from the lo-th on, moved up.
<1>5. ASSUME NEW lo \in n .. N
      PROVE  \E to \in [lo .. N -> Int] :
               /\ to[lo] = at[lo] - m /\ to[N] = Way'
               /\ \A i \in lo .. N : to[i] <= Way'
               /\ \A i \in (lo + 1) .. N :
                    /\ to[i] = to[i - 1] + Len(Frame(sent[i]))
                    /\ \A c \in 1 .. Len(Frame(sent[i])) :
                         to[i - 1] + c >= 1 => Cell(to[i - 1] + c)' = Frame(sent[i])[c]
  <2> PICK to : to = [i \in lo .. N |-> at[i] - m]
    OBVIOUS
  <2>1. lo \in Nat /\ \A i \in lo .. N : i \in n .. N /\ at[i] \in Int /\ to[i] = at[i] - m
    BY <1>1
  <2>2. to \in [lo .. N -> Int]
    BY <2>1
  <2>3. to[lo] = at[lo] - m /\ to[N] = Way'
    BY <1>1, <1>3, <2>1
  <2>4. \A i \in lo .. N : to[i] <= Way'
    BY <1>1, <1>3, <2>1
  <2>5. ASSUME NEW i \in (lo + 1) .. N
        PROVE  /\ to[i] = to[i - 1] + Len(Frame(sent[i]))
               /\ \A c \in 1 .. Len(Frame(sent[i])) :
                    to[i - 1] + c >= 1 => Cell(to[i - 1] + c)' = Frame(sent[i])[c]
    <3>1. i \in (n + 1) .. N /\ i \in lo .. N /\ i - 1 \in lo .. N
      BY <1>1, <2>1
    <3>2. /\ at[i] = at[i - 1] + Len(Frame(sent[i])) /\ Len(Frame(sent[i])) \in Nat
          /\ \A c \in 1 .. Len(Frame(sent[i])) :
               at[i - 1] + c >= 1 => Cell(at[i - 1] + c) = Frame(sent[i])[c]
      BY <1>3, <1>4, <3>1
    <3>3. to[i] = at[i] - m /\ to[i - 1] = at[i - 1] - m /\ at[i] \in Int /\ at[i - 1] \in Int
      BY <2>1, <3>1
    <3>4. to[i] = to[i - 1] + Len(Frame(sent[i]))
      BY <3>2, <3>3
    <3>5. ASSUME NEW c \in 1 .. Len(Frame(sent[i])), to[i - 1] + c >= 1
          PROVE  Cell(to[i - 1] + c)' = Frame(sent[i])[c]
      <4>1. to[i - 1] + c \in Int /\ (to[i - 1] + c) + m = at[i - 1] + c /\ at[i - 1] + c >= 1
        <5> DEFINE x == at[i - 1]
                   y == to[i - 1]
        <5>1. c \in Nat
          BY <3>2
        <5>2. x \in Int /\ y = x - m
          BY <3>3
        <5>3. y + c >= 1
          BY <3>5
        <5> HIDE DEF x, y
        <5>4. y + c \in Int /\ (y + c) + m = x + c /\ x + c >= 1
          BY <5>1, <5>2, <5>3
        <5> QED BY <5>4 DEF x, y
      <4>2. Cell(to[i - 1] + c)' = Cell((to[i - 1] + c) + m)
        BY <1>2, <3>5, <4>1
      <4> QED BY <3>2, <4>1, <4>2
    <3> QED BY <3>4, <3>5
  <2> QED BY <2>2, <2>3, <2>4, <2>5
<1>6. Position(n, k + m)'
  <2>1. n \in n .. N /\ at[n] - m = -(k + m)
    BY <1>1, <1>3 DEF N
  <2>2. \E to \in [n .. N -> Int] :
          /\ to[n] = -(k + m) /\ to[N] = Way'
          /\ \A i \in n .. N : to[i] <= Way'
          /\ \A i \in (n + 1) .. N :
               /\ to[i] = to[i - 1] + Len(Frame(sent[i]))
               /\ \A c \in 1 .. Len(Frame(sent[i])) :
                    to[i - 1] + c >= 1 => Cell(to[i - 1] + c)' = Frame(sent[i])[c]
    BY <1>5, <2>1
  <2> QED BY <2>2 DEF Position, N
<1>7. ASSUME k + m = Len(Frame(sent[n + 1])) PROVE Position(n + 1, 0)'
  <2>1. n + 1 \in n .. N /\ n + 1 \in (n + 1) .. N /\ (n + 1) - 1 = n
    BY <1>1 DEF N
  <2>2. at[n + 1] - m = -0
    BY <1>3, <1>7, <2>1
  <2>3. \E to \in [(n + 1) .. N -> Int] :
          /\ to[n + 1] = -0 /\ to[N] = Way'
          /\ \A i \in (n + 1) .. N : to[i] <= Way'
          /\ \A i \in ((n + 1) + 1) .. N :
               /\ to[i] = to[i - 1] + Len(Frame(sent[i]))
               /\ \A c \in 1 .. Len(Frame(sent[i])) :
                    to[i - 1] + c >= 1 => Cell(to[i - 1] + c)' = Frame(sent[i])[c]
    BY <1>5, <2>1, <2>2
  <2> QED BY <2>3 DEF Position, N
<1> QED BY <1>6, <1>7

\* Sending puts a packet behind all the others, a cell that arrives changes nothing.
LEMMA PositionSent ==
  ASSUME ParserInv, ParserInv', Send, NEW n \in 0 .. Len(sent), NEW k \in Nat, Position(n, k)
  PROVE  Position(n, k)'
<1>1. PICK p \in Payloads : line' = line \o Frame(p) /\ sent' = Append(sent, p)
  BY DEF Send
<1> DEFINE f == Frame(p)
           N == Len(sent)
<1>2. /\ Len(rx) \in Nat /\ Len(line) \in Nat /\ Way \in Nat /\ Way = Len(rx) + Len(line)
      /\ N \in Nat /\ n \in Nat /\ f \in Seq(Cells) /\ Len(f) \in Nat
  BY Sizes, FrameEnd
<1>3. rx' = rx
  BY DEF Send
<1>4. /\ Len(line \o f) = Len(line) + Len(f)
      /\ \A i \in 1 .. Len(line) : (line \o f)[i] = line[i]
      /\ \A i \in 1 .. Len(f) : (line \o f)[Len(line) + i] = f[i]
  <2>1. line \in Seq(Cells)
    BY DEF ParserInv
  <2> HIDE DEF f
  <2> QED BY <1>2, <2>1, Joined
<1>5. Len(sent') = N + 1 /\ sent'[N + 1] = p /\ \A i \in 1 .. N : sent'[i] = sent[i]
  BY <1>1, AppendProperties DEF ParserInv
<1> HIDE DEF f, N
<1>6. line' = line \o f
  BY <1>1 DEF f
<1>7. Way' = Way + Len(f)
  BY <1>2, <1>3, <1>4, <1>6 DEF Way
<1>8. ASSUME NEW j \in 1 .. Way PROVE Cell(j)' = Cell(j)
  <2>1. CASE j <= Len(rx)
    BY <1>3, <2>1 DEF Cell
  <2>2. CASE ~(j <= Len(rx))
    <3>1. j - Len(rx) \in 1 .. Len(line)
      BY <1>2, <2>2
    <3> QED BY <1>3, <1>4, <1>6, <2>2, <3>1 DEF Cell
  <2> QED BY <2>1, <2>2
<1> PICK w : w = Way
  OBVIOUS
<1>9. ASSUME NEW c \in 1 .. Len(f) PROVE Cell(w + c)' = f[c]
  <2>1. ~(w + c <= Len(rx)) /\ (w + c) - Len(rx) = Len(line) + c
    BY <1>2
  <2>2. Cell(w + c)' = line'[(w + c) - Len(rx)]
    BY <2>1, <1>3 DEF Cell
  <2> QED BY <1>4, <1>6, <2>1, <2>2
<1>10. PICK at \in [n .. N -> Int] :
        /\ at[n] = -k /\ at[N] = Way
        /\ \A i \in n .. N : at[i] <= Way
        /\ \A i \in (n + 1) .. N :
             /\ at[i] = at[i - 1] + Len(Frame(sent[i]))
             /\ \A c \in 1 .. Len(Frame(sent[i])) :
                  at[i - 1] + c >= 1 => Cell(at[i - 1] + c) = Frame(sent[i])[c]
  BY DEF Position, N
<1> PICK to : to = [i \in n .. (N + 1) |-> IF i = N + 1 THEN Way + Len(f) ELSE at[i]]
  OBVIOUS
<1>11. /\ \A i \in n .. N : to[i] = at[i] /\ at[i] \in Int /\ i \in n .. (N + 1)
       /\ to[N + 1] = Way + Len(f) /\ n \in n .. N /\ N \in n .. N
  <2>1. n \in n .. N /\ N \in n .. N /\ N + 1 \in n .. (N + 1)
    BY <1>2 DEF N
  <2>2. \A i \in n .. N : i \in n .. (N + 1) /\ i # N + 1
    BY <1>2
  <2> QED BY <2>1, <2>2
<1>12. to \in [n .. (N + 1) -> Int]
  <2>1. \A i \in n .. (N + 1) : (IF i = N + 1 THEN Way + Len(f) ELSE at[i]) \in Int
    <3> SUFFICES ASSUME NEW i \in n .. (N + 1)
                 PROVE  (IF i = N + 1 THEN Way + Len(f) ELSE at[i]) \in Int
      OBVIOUS
    <3>1. CASE i = N + 1
      BY <3>1, <1>2
    <3>2. CASE i # N + 1
      <4>1. i \in n .. N
        BY <3>2, <1>2
      <4> QED BY <4>1, <3>2, <1>11
    <3> QED BY <3>1, <3>2
  <2> QED BY <2>1
<1>13. to[n] = -k /\ to[N + 1] = Way'
  BY <1>7, <1>10, <1>11
<1>14. \A i \in n .. (N + 1) : to[i] <= Way'
  <2> SUFFICES ASSUME NEW i \in n .. (N + 1) PROVE to[i] <= Way'
    OBVIOUS
  <2>1. CASE i = N + 1
    BY <2>1, <1>2, <1>7, <1>11
  <2>2. CASE i # N + 1
    <3>1. i \in n .. N
      BY <2>2, <1>2
    <3>2. to[i] \in Int /\ to[i] <= Way
      BY <3>1, <1>10, <1>11
    <3> QED BY <3>2, <1>2, <1>7
  <2> QED BY <2>1, <2>2
<1>15. ASSUME NEW i \in (n + 1) .. (N + 1)
       PROVE  /\ to[i] = to[i - 1] + Len(Frame(sent'[i]))
              /\ \A c \in 1 .. Len(Frame(sent'[i])) :
                   to[i - 1] + c >= 1 => Cell(to[i - 1] + c)' = Frame(sent'[i])[c]
  <2>1. CASE i = N + 1
    <3>1. (N + 1) - 1 = N /\ to[N] = Way
      BY <1>2, <1>10, <1>11
    <3>2. sent'[i] = p /\ to[i] = Way + Len(f) /\ to[i - 1] = Way
      BY <2>1, <3>1, <1>5, <1>11
    <3> QED BY <3>2, <1>9 DEF f
  <2>2. CASE i # N + 1
    <3>1. i \in (n + 1) .. N /\ i \in 1 .. N /\ i \in n .. N /\ i - 1 \in n .. N
      BY <2>2, <1>2
    <3>2. sent'[i] = sent[i] /\ to[i] = at[i] /\ to[i - 1] = at[i - 1]
      BY <3>1, <1>5, <1>11
    <3> DEFINE l == Len(Frame(sent[i]))
               x == at[i - 1]
    <3>3. at[i] = x + l /\ x \in Int /\ at[i] <= Way
      BY <3>1, <1>10, <1>11
    <3>4. l \in Nat
      <4>1. sent[i] \in Payloads
        BY <3>1, ElementOfSeq DEF ParserInv, N
      <4> QED BY <4>1, FrameEnd
    <3>5. ASSUME NEW c \in 1 .. l, x + c >= 1 PROVE Cell(x + c)' = Frame(sent[i])[c]
      <4>1. Cell(x + c) = Frame(sent[i])[c]
        BY <1>10, <3>1, <3>5
      <4> HIDE DEF x, l
      <4>2. x + c \in 1 .. Way
        BY <3>3, <3>4, <3>5, <1>2
      <4> QED BY <4>1, <4>2, <1>8
    <3> QED BY <3>2, <3>3, <3>5
  <2> QED BY <2>1, <2>2
<1>16. Len(sent') = N + 1
  BY <1>5
<1>17. /\ to \in [n .. Len(sent') -> Int]
       /\ to[n] = -k /\ to[Len(sent')] = Way'
       /\ \A i \in n .. Len(sent') : to[i] <= Way'
       /\ \A i \in (n + 1) .. Len(sent') :
            /\ to[i] = to[i - 1] + Len(Frame(sent'[i]))
            /\ \A c \in 1 .. Len(Frame(sent'[i])) :
                 to[i - 1] + c >= 1 => Cell(to[i - 1] + c)' = Frame(sent'[i])[c]
  <2>1. to[Len(sent')] = Way'
    BY <1>13, <1>16
  <2>2. to \in [n .. Len(sent') -> Int]
    BY <1>12, <1>16
  <2>3. \A i \in n .. Len(sent') : to[i] <= Way'
    BY <1>14, <1>16
  <2>4. ASSUME NEW i \in (n + 1) .. Len(sent')
        PROVE  /\ to[i] = to[i - 1] + Len(Frame(sent'[i]))
               /\ \A c \in 1 .. Len(Frame(sent'[i])) :
                    to[i - 1] + c >= 1 => Cell(to[i - 1] + c)' = Frame(sent'[i])[c]
    <3>1. i \in (n + 1) .. (N + 1)
      BY <1>16
    <3> QED BY <1>15, <3>1
  <2> QED BY <1>13, <2>1, <2>2, <2>3, <2>4
<1> QED BY <1>17 DEF Position

\* What is on its way stays the same when a cell gets from the line into rx.
LEMMA PositionArrived ==
  ASSUME ParserInv, ParserInv', Arrive, NEW n \in 0 .. Len(sent), NEW k \in Nat, Position(n, k)
  PROVE  Position(n, k)'
<1>1. line # <<>> /\ line' = Tail(line) /\ rx' = Append(rx, Head(line)) /\ sent' = sent
  BY DEF Arrive, historyVars
<1>2. /\ Len(rx) \in Nat /\ Len(line) \in Nat /\ Way \in Nat /\ Way = Len(rx) + Len(line)
      /\ n \in Nat /\ Len(sent) \in Nat
  BY Sizes
<1>3. /\ Len(line) >= 1 /\ Len(line') = Len(line) - 1
      /\ \A i \in 1 .. (Len(line) - 1) : line'[i] = line[1 + i]
      /\ Head(line) = line[1] /\ Head(line) \in Cells
  BY <1>1, TailIs, HeadCell DEF ParserInv
<1>4. /\ Len(rx') = Len(rx) + 1 /\ rx'[Len(rx) + 1] = Head(line)
      /\ \A i \in 1 .. Len(rx) : rx'[i] = rx[i]
  BY <1>1, <1>3, AppendProperties DEF ParserInv
<1>5. Way' = Way
  BY <1>2, <1>3, <1>4 DEF Way
<1>6. ASSUME NEW i \in 1 .. Way PROVE Cell(i)' = Cell(i)
  <2>1. CASE i <= Len(rx)
    BY <1>2, <1>4, <2>1 DEF Cell
  <2>2. CASE i = Len(rx) + 1
    <3>1. Cell(i)' = Head(line)
      BY <1>2, <1>4, <2>2 DEF Cell
    <3>2. Cell(i) = line[1]
      BY <1>2, <2>2 DEF Cell
    <3> QED BY <1>3, <3>1, <3>2
  <2>3. CASE i > Len(rx) + 1
    <3>1. ~(i <= Len(rx)) /\ ~(i <= Len(rx')) /\ i - Len(rx') \in 1 .. (Len(line) - 1)
          /\ 1 + (i - Len(rx')) = i - Len(rx)
      BY <1>2, <1>4, <2>3
    <3>2. Cell(i)' = line'[i - Len(rx')]
      BY <3>1 DEF Cell
    <3>3. Cell(i) = line[i - Len(rx)]
      BY <3>1 DEF Cell
    <3> QED BY <1>3, <3>1, <3>2, <3>3
  <2> QED BY <1>2, <2>1, <2>2, <2>3
<1> DEFINE N == Len(sent)
<1>7. PICK at \in [n .. N -> Int] :
        /\ at[n] = -k /\ at[N] = Way
        /\ \A i \in n .. N : at[i] <= Way
        /\ \A i \in (n + 1) .. N :
             /\ at[i] = at[i - 1] + Len(Frame(sent[i]))
             /\ \A c \in 1 .. Len(Frame(sent[i])) :
                  at[i - 1] + c >= 1 => Cell(at[i - 1] + c) = Frame(sent[i])[c]
  BY DEF Position
<1>8. ASSUME NEW i \in (n + 1) .. N, NEW c \in 1 .. Len(Frame(sent[i])), at[i - 1] + c >= 1
      PROVE  Cell(at[i - 1] + c)' = Frame(sent[i])[c]
  <2> DEFINE x == at[i - 1]
             l == Len(Frame(sent[i]))
  <2>1. i \in 1 .. N /\ i \in n .. N /\ i - 1 \in n .. N
    BY <1>2
  <2>2. l \in Nat
    <3>1. sent[i] \in Payloads
      BY <2>1, ElementOfSeq DEF ParserInv
    <3> QED BY <3>1, FrameEnd
  <2>3. x \in Int /\ x + l <= Way /\ Cell(x + c) = Frame(sent[i])[c] /\ c \in 1 .. l /\ x + c >= 1
    BY <1>7, <1>8, <2>1
  <2> HIDE DEF x, l
  <2>4. x + c \in 1 .. Way
    BY <1>2, <2>2, <2>3
  <2>5. Cell(x + c)' = Frame(sent[i])[c]
    BY <1>6, <2>3, <2>4
  <2> QED BY <2>5 DEF x
<1>9. /\ at \in [n .. Len(sent') -> Int]
      /\ at[n] = -k /\ at[Len(sent')] = Way'
      /\ \A i \in n .. Len(sent') : at[i] <= Way'
      /\ \A i \in (n + 1) .. Len(sent') :
           /\ at[i] = at[i - 1] + Len(Frame(sent'[i]))
           /\ \A c \in 1 .. Len(Frame(sent'[i])) :
                at[i - 1] + c >= 1 => Cell(at[i - 1] + c)' = Frame(sent'[i])[c]
  BY <1>1, <1>5, <1>7, <1>8
<1> QED BY <1>9 DEF Position

\* No cell of the signature but the last completes it.
LEMMA NoFalseStart ==
  ASSUME NEW k \in 1 .. (Len(PACKET_SIGN_RX) - 1)
  PROVE  ~EndsWith(PACKET_SIGN_RX, k)
BY SignatureAssumption DEF EndsWith

\* The window goes along with the signature, cell by cell.
LEMMA WindowFollows ==
  ASSUME packet_start \in Seq(Cells), Len(packet_start) <= Len(PACKET_SIGN_RX),
         NEW k \in Nat, k < Len(PACKET_SIGN_RX), EndsWith(packet_start, k),
         NEW cell \in Cells, cell = PACKET_SIGN_RX[k + 1]
  PROVE  /\ EndsWith(Window(cell), k + 1)
         /\ Window(cell) = PACKET_SIGN_RX <=> k + 1 = Len(PACKET_SIGN_RX)
<1> DEFINE s == Append(packet_start, cell)
           n == Len(PACKET_SIGN_RX)
           w == Window(cell)
           l == Len(packet_start)
<1>1. n \in Nat /\ l \in Nat /\ k <= l /\ k + 1 \in 1 .. n
  BY LineAssumption, LenProperties DEF EndsWith
<1>2. /\ s \in Seq(Cells) /\ Len(s) = l + 1 /\ s[l + 1] = cell
      /\ \A i \in 1 .. l : s[i] = packet_start[i]
  BY AppendProperties
<1>3. w = LastOf(s, n)
  BY DEF Window
<1> HIDE DEF s
<1>4. \A i \in 1 .. (k + 1) : s[(l + 1) - (k + 1) + i] = PACKET_SIGN_RX[i]
  <2> SUFFICES ASSUME NEW i \in 1 .. (k + 1)
               PROVE  s[(l + 1) - (k + 1) + i] = PACKET_SIGN_RX[i]
    OBVIOUS
  <2>1. (l + 1) - (k + 1) + i = l - k + i
    BY <1>1
  <2>2. CASE i = k + 1
    <3>1. l - k + i = l + 1
      BY <2>2, <1>1
    <3> QED BY <2>1, <2>2, <3>1, <1>2
  <2>3. CASE i # k + 1
    <3>1. i \in 1 .. k /\ l - k + i \in 1 .. l
      BY <2>3, <1>1
    <3>2. packet_start[l - k + i] = PACKET_SIGN_RX[i]
      BY <3>1 DEF EndsWith
    <3> QED BY <2>1, <3>1, <3>2, <1>2
  <2> QED BY <2>2, <2>3
<1>5. /\ w \in Seq(Cells) /\ Len(w) \in Nat /\ Len(w) <= n /\ k + 1 <= Len(w)
      /\ \A i \in 1 .. (k + 1) : w[Len(w) - (k + 1) + i] = PACKET_SIGN_RX[i]
  <2>1. CASE Len(s) <= n
    <3>1. w = s
      BY <1>3, <2>1 DEF LastOf
    <3>2. s \in Seq(Cells) /\ Len(s) \in Nat /\ Len(s) <= n /\ k + 1 <= Len(s)
      BY <1>1, <1>2, <2>1
    <3>3. \A i \in 1 .. (k + 1) : s[Len(s) - (k + 1) + i] = PACKET_SIGN_RX[i]
      BY <1>2, <1>4
    <3> HIDE DEF w, n
    <3> QED BY <3>1, <3>2, <3>3
  <2>2. CASE ~(Len(s) <= n)
    <3> DEFINE m == Len(s) - n + 1
    <3>1. l = n /\ Len(s) = n + 1 /\ m = 2
      BY <1>1, <1>2, <2>2
    <3>2. w = SubSeq(s, 2, n + 1)
      BY <1>3, <2>2, <3>1 DEF LastOf
    <3>3. \A i \in 2 .. (n + 1) : s[i] \in Cells
      <4>1. \A i \in 2 .. (n + 1) : i \in 1 .. Len(s)
        BY <1>1, <3>1
      <4> QED BY <1>2, <4>1, ElementOfSeq
    <3> HIDE DEF w, m, n
    <3>4. /\ w \in Seq(Cells) /\ Len(w) = IF 2 <= n + 1 THEN (n + 1) - 2 + 1 ELSE 0
          /\ \A i \in 1 .. ((n + 1) - 2 + 1) : w[i] = s[2 + i - 1]
      BY <1>1, <3>2, <3>3, SubSeqProperties
    <3>5. Len(w) = n /\ \A i \in 1 .. n : w[i] = s[1 + i]
      <4>1. (n + 1) - 2 + 1 = n /\ 2 <= n + 1 /\ \A i \in 1 .. n : 2 + i - 1 = 1 + i
        BY <1>1
      <4> QED BY <3>4, <4>1
    <3>6. ASSUME NEW i \in 1 .. (k + 1)
          PROVE  w[Len(w) - (k + 1) + i] = PACKET_SIGN_RX[i]
      <4>1. n - (k + 1) + i \in 1 .. n /\ 1 + (n - (k + 1) + i) = (l + 1) - (k + 1) + i
        BY <1>1, <3>1
      <4> QED BY <3>5, <4>1, <1>4
    <3> QED BY <1>1, <3>4, <3>5, <3>6
  <2> QED BY <2>1, <2>2
<1> HIDE DEF w
<1>6. EndsWith(w, k + 1)
  BY <1>5 DEF EndsWith
<1>7. ASSUME k + 1 = n PROVE w = PACKET_SIGN_RX
  <2>1. Len(w) = n
    BY <1>1, <1>5, <1>7
  <2>2. \A i \in 1 .. n : w[i] = PACKET_SIGN_RX[i]
    <3>1. \A i \in 1 .. n : Len(w) - (k + 1) + i = i
      BY <1>1, <1>7, <2>1
    <3> QED BY <1>5, <1>7, <3>1
  <2> QED BY <1>5, <2>1, <2>2, LineAssumption, SeqEqual
<1>8. ASSUME w = PACKET_SIGN_RX PROVE k + 1 = n
  <2>1. ASSUME k + 1 # n PROVE FALSE
    <3>1. k + 1 \in 1 .. (n - 1)
      BY <1>1, <2>1
    <3> QED BY <3>1, <1>6, <1>8, NoFalseStart
  <2> QED BY <2>1
<1> QED BY <1>6, <1>7, <1>8 DEF w

\* Cells that have arrived or are on the line belong to a packet.
LEMMA SomePacket ==
  ASSUME ParserInv, NEW n \in 0 .. Len(sent), NEW k \in Nat, InStep(n, k),
         rx # <<>> \/ receive_check # "start"
  PROVE  n < Len(sent) /\ sent[n + 1] \in Payloads
<1>1. Len(sent) \in Nat /\ Len(rx) \in Nat /\ Len(line) \in Nat /\ Way = Len(rx) + Len(line)
      /\ n \in Nat
  BY Sizes
<1>2. n # Len(sent)
  <2> SUFFICES ASSUME n = Len(sent) PROVE FALSE
    OBVIOUS
  <2>1. k = 0 /\ Way = 0
    <3>1. Position(Len(sent), k)
      BY DEF InStep
    <3> QED BY <3>1, NothingLeft
  <2>2. rx = <<>>
    <3>1. Len(rx) = 0
      BY <1>1, <2>1
    <3> QED BY <3>1, EmptySeq DEF ParserInv
  <2>3. k = Len(PACKET_SIGN_RX) + Len(packet_buf)
    BY <2>2 DEF InStep, Parsed
  <2>4. Len(PACKET_SIGN_RX) \in Nat /\ Len(packet_buf) \in Nat
    BY LineAssumption, LenProperties DEF ParserInv
  <2>5. Len(PACKET_SIGN_RX) # 0
    BY LineAssumption, ReceiverAssumption, EmptySeq
  <2> QED BY <2>1, <2>3, <2>4, <2>5
<1>3. n < Len(sent) /\ n + 1 \in 1 .. Len(sent)
  BY <1>1, <1>2
<1> QED BY <1>3, ElementOfSeq DEF ParserInv

\* The first cells of rx are the next of the packet.
LEMMA NextCells ==
  ASSUME ParserInv, NEW n \in 0 .. Len(sent), NEW k \in Nat, InStep(n, k),
         rx # <<>> \/ receive_check # "start"
  PROVE  \A i \in 1 .. (Len(Frame(sent[n + 1])) - k) :
           i <= Len(rx) => rx[i] = Frame(sent[n + 1])[k + i]
<1>1. n < Len(sent) /\ Position(n, k)
  BY SomePacket DEF InStep
<1>2. \A i \in 1 .. (Len(Frame(sent[n + 1])) - k) : Cell(i) = Frame(sent[n + 1])[k + i]
  BY <1>1, CurrentFrame
<1> QED BY <1>2 DEF Cell

\* Inside a packet packet_buf is the beginning of its content, and the header tells
\* its size.
LEMMA InPacket ==
  ASSUME ParserInv, NEW n \in 0 .. Len(sent), NEW k \in Nat, InStep(n, k),
         receive_check # "start"
  PROVE  LET p == sent[n + 1]
         IN  /\ n < Len(sent) /\ p \in Payloads
             /\ k = Len(PACKET_SIGN_RX) + Len(packet_buf)
             /\ \A i \in 1 .. Len(packet_buf) : packet_buf[i] = Content(p)[i]
             /\ \A i \in 1 .. (2 + Len(p) - Len(packet_buf)) :
                  i <= Len(rx) => rx[i] = Content(p)[Len(packet_buf) + i]
             /\ 1 <= Len(rx) /\ Len(packet_buf) = 2 + Len(p) => rx[1] = Crc(Content(p))
             /\ receive_check \in {"body", "crc"} => packet_size = Len(p)
<1> DEFINE p == sent[n + 1]
           S == Len(PACKET_SIGN_RX)
           b == Len(packet_buf)
           f == Frame(p)
<1>1. n < Len(sent) /\ p \in Payloads
  BY SomePacket
<1>2. k = S + b /\ \A i \in 1 .. b : packet_buf[i] = Content(p)[i]
  BY DEF InStep, Parsed
<1>3. b \in Nat /\ Len(rx) \in Nat
  BY Sizes, LenProperties DEF ParserInv
<1>4. \A i \in 1 .. (Len(f) - k) : i <= Len(rx) => rx[i] = f[k + i]
  BY NextCells
<1> HIDE DEF p
<1>5. /\ S \in Nat /\ Len(p) \in Nat /\ Len(f) = S + (3 + Len(p))
      /\ \A i \in 1 .. (2 + Len(p)) : f[S + i] = Content(p)[i]
      /\ f[S + (3 + Len(p))] = Crc(Content(p)) /\ SizeOf(Content(p)[2]) = Len(p)
  BY <1>1, FrameCells
<1> HIDE DEF S, f, b
<1>6. ASSUME NEW i \in 1 .. (2 + Len(p) - b), i <= Len(rx) PROVE rx[i] = Content(p)[b + i]
  <2>1. i \in 1 .. (Len(f) - k) /\ k + i = S + (b + i) /\ b + i \in 1 .. (2 + Len(p))
    <3>1. k = S + b /\ Len(f) = S + (3 + Len(p))
      BY <1>2, <1>5
    <3>2. S \in Nat /\ b \in Nat /\ Len(p) \in Nat /\ i \in Nat /\ 1 <= i /\ i <= 2 + Len(p) - b
      BY <1>3, <1>5
    <3>3. k + i = S + (b + i) /\ b + i \in 1 .. (2 + Len(p))
      BY <3>1, <3>2
    <3>4. i <= Len(f) - k
      BY <3>1, <3>2
    <3>5. Len(f) - k \in Int
      BY <3>1, <3>2
    <3> QED BY <3>2, <3>3, <3>4, <3>5
  <2>2. rx[i] = f[S + (b + i)]
    BY <1>4, <1>6, <2>1
  <2> QED BY <1>5, <2>1, <2>2
<1>7. ASSUME 1 <= Len(rx), b = 2 + Len(p) PROVE rx[1] = Crc(Content(p))
  <2>1. 1 \in 1 .. (Len(f) - k) /\ k + 1 = S + (3 + Len(p))
    BY <1>2, <1>3, <1>5, <1>7
  <2> QED BY <1>4, <1>5, <1>7, <2>1
<1>8. ASSUME receive_check \in {"body", "crc"} PROVE packet_size = Len(p)
  <2>1. b >= 2 /\ SizeOf(packet_buf[2]) = packet_size
    BY <1>8 DEF ParserInv, HeaderIn, HEADER, b
  <2>2. 2 \in 1 .. b
    BY <1>3, <2>1
  <2> QED BY <1>2, <1>5, <2>1, <2>2
<1> QED BY <1>1, <1>2, <1>6, <1>7, <1>8 DEF p, S, b

\* The signature is recognised at its last cell.
LEMMA CleanStart ==
  ASSUME ParserInv, ParserInv', NEW n \in 0 .. Len(sent), NEW k \in Nat, InStep(n, k),
         receive_check_start
  PROVE  InStep(n, k + 1)'
<1> DEFINE p == sent[n + 1]
           S == Len(PACKET_SIGN_RX)
           cell == Head(rx)
<1>1. /\ receive_check = "start" /\ rx # <<>> /\ rx' = Tail(rx) /\ packet_start' = Window(cell)
      /\ IF packet_start' = PACKET_SIGN_RX
         THEN packet_buf' = <<>> /\ receive_check' = "info"
         ELSE UNCHANGED <<packet_buf, receive_check>>
      /\ UNCHANGED <<line, sent, delivered>>
  BY DEF receive_check_start, historyVars
<1>2. n < Len(sent) /\ p \in Payloads
  BY <1>1, SomePacket
<1>3. k < S /\ EndsWith(packet_start, k)
  BY <1>1 DEF InStep, Parsed
<1>4. S \in Nat /\ Len(p) \in Nat /\ Len(Frame(p)) = S + (3 + Len(p))
      /\ \A i \in 1 .. S : Frame(p)[i] = PACKET_SIGN_RX[i]
  BY <1>2, FrameCells
<1>5. /\ Tail(rx) \in Seq(Cells) /\ Len(rx) \in Nat /\ Len(rx) >= 1 /\ Len(Tail(rx)) = Len(rx) - 1
      /\ \A i \in 1 .. (Len(rx) - 1) : Tail(rx)[i] = rx[1 + i]
      /\ cell = rx[1] /\ cell \in Cells
  BY <1>1, TailIs, HeadCell DEF ParserInv
<1>6. cell = PACKET_SIGN_RX[k + 1]
  <2> HIDE DEF p, cell, S
  <2>1. 1 \in 1 .. (Len(Frame(p)) - k) /\ 1 <= Len(rx) /\ k + 1 \in 1 .. S
    BY <1>3, <1>4, <1>5
  <2>2. rx[1] = Frame(p)[k + 1]
    BY <1>1, <2>1, NextCells DEF p
  <2> QED BY <1>4, <1>5, <2>1, <2>2
<1>7. /\ EndsWith(packet_start', k + 1)
      /\ packet_start' = PACKET_SIGN_RX <=> k + 1 = S
  <2>1. packet_start \in Seq(Cells) /\ Len(packet_start) <= S
    BY DEF ParserInv
  <2> HIDE DEF cell
  <2> QED BY <1>1, <1>3, <1>5, <1>6, <2>1, WindowFollows
<1>8. rx' = RestOf(1) /\ 1 <= Len(rx)
  <2>1. /\ RestOf(1) \in Seq(Cells) /\ Len(RestOf(1)) = Len(rx) - 1
        /\ \A i \in 1 .. (Len(rx) - 1) : RestOf(1)[i] = rx[1 + i]
    BY <1>5, RestIs DEF ParserInv
  <2> QED BY <1>1, <1>5, <2>1, SeqEqual
<1>9. Position(n, k + 1)'
  <2>1. Position(n, k) /\ 1 \in Nat
    BY DEF InStep
  <2> QED BY <1>1, <1>2, <1>8, <2>1, PositionTaken
<1>10. Parsed(sent[n + 1], k + 1)'
  <2>1. CASE k + 1 = S
    <3>1. receive_check' = "info" /\ packet_buf' = <<>> /\ Len(<<>>) = 0
      BY <1>1, <1>7, <2>1
    <3>2. k + 1 = S + Len(packet_buf')
      BY <1>4, <2>1, <3>1
    <3> QED BY <3>1, <3>2 DEF Parsed
  <2>2. CASE k + 1 # S
    <3>1. receive_check' = "start"
      BY <1>1, <1>7, <2>2
    <3>2. k + 1 < S
      BY <1>3, <1>4, <2>2
    <3> QED BY <1>7, <3>1, <3>2 DEF Parsed
  <2> QED BY <2>1, <2>2
<1>11. DeliverableOf(delivered', sent', n) /\ n # Len(sent')
  <2>1. Len(sent) \in Nat
    BY Sizes
  <2> QED BY <1>1, <1>2, <2>1 DEF InStep
<1> QED BY <1>9, <1>10, <1>11 DEF InStep

\* A step within a packet, for the cells that go to packet_buf.
LEMMA CleanCollect ==
  ASSUME ParserInv, ParserInv', NEW n \in 0 .. Len(sent), NEW k \in Nat, InStep(n, k),
         receive_check # "start", NEW m \in Nat, m <= Len(rx), rx' = RestOf(m),
         Len(packet_buf) + m <= 2 + Len(sent[n + 1]),
         packet_buf' = Collected(m), receive_check' # "start",
         UNCHANGED <<line, sent, delivered>>
  PROVE  InStep(n, k + m)'
<1> DEFINE p == sent[n + 1]
           S == Len(PACKET_SIGN_RX)
           b == Len(packet_buf)
<1>1. /\ n < Len(sent) /\ p \in Payloads /\ k = S + b
      /\ \A i \in 1 .. b : packet_buf[i] = Content(p)[i]
      /\ \A i \in 1 .. (2 + Len(p) - b) : i <= Len(rx) => rx[i] = Content(p)[b + i]
  BY InPacket
<1>2. /\ S \in Nat /\ b \in Nat /\ Len(p) \in Nat /\ Len(p) <= PACKET_MAX_SIZE /\ Len(rx) \in Nat
      /\ Len(sent) \in Nat
  BY <1>1, FrameCells, Sizes, LenProperties DEF ParserInv
<1>3. b + m <= PACKET_BUF
  <2> HIDE DEF p, b
  <2>1. b + m <= 2 + Len(p)
    BY DEF p, b
  <2> QED BY <1>2, <2>1, BufSize
<1>4. /\ Collected(m) \in Seq(Cells) /\ Len(Collected(m)) = b + m
      /\ \A i \in 1 .. b : Collected(m)[i] = packet_buf[i]
      /\ \A i \in 1 .. m : Collected(m)[b + i] = rx[i]
  BY <1>3, CollectedIs DEF ParserInv
<1>5. ASSUME NEW i \in 1 .. Len(packet_buf') PROVE packet_buf'[i] = Content(p)[i]
  <2> HIDE DEF p, b, S
  <2>1. CASE i <= b
    <3>1. i \in 1 .. b
      BY <1>2, <1>4, <2>1
    <3> QED BY <1>1, <1>4, <3>1
  <2>2. CASE ~(i <= b)
    <3> DEFINE j == i - b
    <3>1. j \in 1 .. m /\ b + j = i /\ j <= Len(rx)
      BY <1>2, <1>4, <2>2
    <3>2. j \in 1 .. (2 + Len(p) - b)
      <4>1. b + m <= 2 + Len(p)
        BY DEF p, b
      <4> QED BY <4>1, <3>1, <1>2
    <3> HIDE DEF j
    <3>3. Collected(m)[b + j] = rx[j]
      BY <1>4, <3>1
    <3>4. rx[j] = Content(p)[b + j]
      BY <1>1, <3>1, <3>2
    <3> QED BY <3>1, <3>3, <3>4
  <2> QED BY <2>1, <2>2
<1>6. Parsed(sent[n + 1], k + m)'
  <2>1. k + m = S + Len(packet_buf')
    BY <1>1, <1>2, <1>4
  <2> QED BY <1>5, <2>1 DEF Parsed
<1>7. Position(n, k + m)'
  <2>1. Position(n, k)
    BY DEF InStep
  <2> QED BY <1>1, <2>1, PositionTaken
<1>8. DeliverableOf(delivered', sent', n) /\ n # Len(sent')
  BY <1>1, <1>2 DEF InStep
<1> QED BY <1>6, <1>7, <1>8 DEF InStep

\* The header is taken as the host wrote it.
LEMMA CleanInfo ==
  ASSUME ParserInv, ParserInv', NEW n \in 0 .. Len(sent), NEW k \in Nat, InStep(n, k),
         receive_check_info
  PROVE  InStep(n, k + 2)'
<1> DEFINE p == sent[n + 1]
           buf == Collected(HEADER)
<1>1. /\ HEADER = 2 /\ HEADER \in Nat /\ Taking("info", HEADER)
      /\ UNCHANGED <<line, sent, delivered>>
  BY DEF receive_check_info, HEADER, historyVars
<1>2. receive_check = "info" /\ HEADER <= Len(rx) /\ rx' = RestOf(HEADER)
  BY <1>1, Taken DEF Taking
<1>3. packet_buf = <<>> /\ Len(packet_buf) = 0 /\ Len(<<>>) = 0
  BY <1>2 DEF ParserInv
<1>4. /\ p \in Payloads
      /\ \A i \in 1 .. (2 + Len(p) - Len(packet_buf)) :
           i <= Len(rx) => rx[i] = Content(p)[Len(packet_buf) + i]
  BY <1>2, InPacket
<1>5. /\ Len(p) \in Nat /\ Len(p) <= PACKET_MAX_SIZE /\ Len(rx) \in Nat
      /\ Content(p)[1] = CodeCell /\ SizeOf(Content(p)[2]) = Len(p)
  BY <1>4, FrameCells, Sizes
<1>6. /\ Len(buf) = 2 /\ \A i \in 1 .. 2 : buf[i] = rx[i]
      /\ ~Overfull(HEADER)
  <2>1. /\ Len(Collected(HEADER)) = Len(packet_buf) + HEADER
        /\ \A i \in 1 .. HEADER : Collected(HEADER)[Len(packet_buf) + i] = rx[i]
        /\ Overfull(HEADER) <=> Len(packet_buf) + HEADER >= PACKET_BUF
    <3>1. Len(packet_buf) + HEADER <= PACKET_BUF
      BY <1>1, <1>3, BufSize
    <3> QED BY <1>1, <1>2, <3>1, CollectedIs DEF ParserInv
  <2> HIDE DEF buf
  <2>2. \A i \in 1 .. 2 : 0 + i = i
    OBVIOUS
  <2> QED BY <1>1, <1>3, <2>1, <2>2, BufSize DEF buf
<1> HIDE DEF buf, p
<1>7. buf[1] = CodeCell /\ SizeOf(buf[2]) = Len(p)
  <2>1. rx[1] = Content(p)[1] /\ rx[2] = Content(p)[2]
    <3>1. /\ 1 \in 1 .. (2 + Len(p) - 0) /\ 2 \in 1 .. (2 + Len(p) - 0)
          /\ 1 <= Len(rx) /\ 2 <= Len(rx) /\ 0 + 1 = 1 /\ 0 + 2 = 2
      BY <1>1, <1>2, <1>5
    <3> QED BY <1>3, <1>4, <3>1
  <2>2. buf[1] = rx[1] /\ buf[2] = rx[2]
    BY <1>6
  <2> QED BY <1>5, <2>1, <2>2
<1>8. ~SizeTooBig(SizeOf(buf[2]))
  BY <1>5, <1>7, BufSize DEF SizeTooBig
<1>9. packet_buf' = buf /\ receive_check' \in {"body", "crc"}
  BY <1>6, <1>7, <1>8 DEF receive_check_info, buf
<1>10. Len(packet_buf) + HEADER <= 2 + Len(p)
  BY <1>1, <1>3, <1>5
<1>11. InStep(n, k + HEADER)'
  BY <1>1, <1>2, <1>9, <1>10, CleanCollect DEF buf, p
<1> QED BY <1>1, <1>11

\* The body is taken as the host wrote it.
LEMMA CleanBody ==
  ASSUME ParserInv, ParserInv', NEW n \in 0 .. Len(sent), NEW k \in Nat, InStep(n, k),
         receive_check_body
  PROVE  InStep(n, k + packet_size)'
<1> DEFINE p == sent[n + 1]
<1> PICK m : m = packet_size
  OBVIOUS
<1>1. /\ m \in Nat /\ m <= PACKET_MAX_SIZE /\ Taking("body", m)
      /\ UNCHANGED <<line, sent, delivered, packet_size>>
  <2>1. UNCHANGED <<line, sent, delivered>>
    BY DEF receive_check_body, historyVars
  <2>2. m \in Nat /\ m <= PACKET_MAX_SIZE /\ Taking("body", m)
    BY BufSize DEF receive_check_body, ParserInv
  <2>3. packet_size' = packet_size
    BY DEF receive_check_body, receive_packets_init
  <2> QED BY <2>1, <2>2, <2>3
<1>2. receive_check = "body" /\ m <= Len(rx) /\ rx' = RestOf(m)
  BY <1>1, Taken DEF Taking
<1>3. p \in Payloads /\ m = Len(p) /\ Len(packet_buf) = 2
  BY <1>2, InPacket DEF ParserInv, HEADER
<1>4. ~Overfull(m)
  <2>1. Overfull(m) <=> Len(packet_buf) + m >= PACKET_BUF
    <3>1. Len(packet_buf) + m <= PACKET_BUF
      BY <1>1, <1>3, BufSize
    <3> QED BY <1>1, <1>2, <3>1, CollectedIs DEF ParserInv
  <2> QED BY <1>1, <1>3, <2>1, BufSize
<1>5. packet_buf' = Collected(m) /\ receive_check' = "crc"
  BY <1>4 DEF receive_check_body
<1>6. Len(packet_buf) + m <= 2 + Len(p)
  BY <1>1, <1>3
<1> HIDE DEF p
<1>7. InStep(n, k + m)'
  BY <1>1, <1>2, <1>5, <1>6, CleanCollect DEF p
<1> QED BY <1>1, <1>7

\* A packet that can get through has, or one that cannot has not.
LEMMA OnePacketMore ==
  ASSUME delivered \in Seq(Payloads), NEW n \in Nat, DeliverableOf(delivered, sent, n),
         sent' = sent,
         IF Deliverable(sent[n + 1]) THEN delivered' = Append(delivered, sent[n + 1])
         ELSE delivered' = delivered,
         sent[n + 1] \in Payloads
  PROVE  DeliverableOf(delivered', sent', n + 1)
<1> DEFINE d == Len(delivered)
           p == sent[n + 1]
<1>1. PICK at \in [1 .. d -> 1 .. n] :
        /\ \A i \in 1 .. d : delivered[i] = sent[at[i]] /\ \A j \in 1 .. (i - 1) : at[j] < at[i]
        /\ \A k \in 1 .. n : Deliverable(sent[k]) <=> \E i \in 1 .. d : at[i] = k
  BY DEF DeliverableOf
<1>2. d \in Nat
  BY LenProperties
<1>3. \A i \in 1 .. d : at[i] \in Nat /\ at[i] >= 1 /\ at[i] <= n
  <2>1. \A i \in 1 .. d : at[i] \in 1 .. n
    OBVIOUS
  <2> HIDE DEF d
  <2> QED BY <2>1
<1> HIDE DEF d
<1>4. CASE ~Deliverable(p)
  <2>1. delivered' = delivered
    BY <1>4
  <2>2. at \in [1 .. d -> 1 .. (n + 1)]
    <3>1. \A i \in 1 .. d : at[i] \in 1 .. (n + 1)
      BY <1>3
    <3> QED BY <3>1
  <2>3. ASSUME NEW k \in 1 .. (n + 1)
        PROVE  Deliverable(sent[k]) <=> \E i \in 1 .. d : at[i] = k
    <3>1. CASE k = n + 1
      <4>1. \A i \in 1 .. d : at[i] # k
        BY <1>3, <3>1
      <4> QED BY <1>4, <3>1, <4>1
    <3>2. CASE k # n + 1
      <4>1. k \in 1 .. n
        BY <3>2
      <4> QED BY <1>1, <4>1
    <3> QED BY <3>1, <3>2
  <2>4. \A i \in 1 .. d : delivered[i] = sent[at[i]] /\ \A j \in 1 .. (i - 1) : at[j] < at[i]
    BY <1>1
  <2>5. \E a \in [1 .. Len(delivered) -> 1 .. (n + 1)] :
          /\ \A i \in 1 .. Len(delivered) :
                delivered[i] = sent[a[i]] /\ \A j \in 1 .. (i - 1) : a[j] < a[i]
          /\ \A k \in 1 .. (n + 1) :
                Deliverable(sent[k]) <=> \E i \in 1 .. Len(delivered) : a[i] = k
    <3> at \in [1 .. Len(delivered) -> 1 .. (n + 1)]
      BY <2>2 DEF d
    <3> WITNESS at \in [1 .. Len(delivered) -> 1 .. (n + 1)]
    <3> QED BY <2>3, <2>4 DEF d
  <2>6. DeliverableOf(delivered, sent, n + 1)
    BY <2>5 DEF DeliverableOf
  <2> QED BY <2>1, <2>6
<1>5. CASE Deliverable(p)
  <2>1. delivered' = Append(delivered, p)
    BY <1>5
  <2>2. /\ Len(delivered') = d + 1 /\ delivered'[d + 1] = p
        /\ \A i \in 1 .. d : delivered'[i] = delivered[i]
    BY <2>1, AppendProperties DEF d
  <2> HIDE DEF p
  <2> PICK new : new = [i \in 1 .. (d + 1) |-> IF i <= d THEN at[i] ELSE n + 1]
    OBVIOUS
  <2>3. /\ \A i \in 1 .. d : new[i] = at[i] /\ i \in 1 .. (d + 1)
        /\ new[d + 1] = n + 1 /\ d + 1 \in 1 .. (d + 1)
    BY <1>2
  <2>4. new \in [1 .. (d + 1) -> 1 .. (n + 1)]
    <3>1. \A i \in 1 .. d : at[i] \in 1 .. (n + 1)
      BY <1>3
    <3>2. n + 1 \in 1 .. (n + 1)
      OBVIOUS
    <3> QED BY <1>2, <3>1, <3>2
  <2>5. ASSUME NEW i \in 1 .. (d + 1)
        PROVE  delivered'[i] = sent[new[i]] /\ \A j \in 1 .. (i - 1) : new[j] < new[i]
    <3>1. CASE i \in 1 .. d
      <4>1. delivered'[i] = sent[new[i]]
        BY <1>1, <2>2, <2>3, <3>1
      <4>2. ASSUME NEW j \in 1 .. (i - 1) PROVE new[j] < new[i]
        <5>1. j \in 1 .. d
          BY <1>2, <3>1
        <5> QED BY <1>1, <2>3, <3>1, <5>1
      <4> QED BY <4>1, <4>2
    <3>2. CASE i = d + 1
      <4>1. delivered'[i] = sent[new[i]]
        BY <2>2, <2>3, <3>2 DEF p
      <4>2. ASSUME NEW j \in 1 .. (i - 1) PROVE new[j] < new[i]
        <5>1. j \in 1 .. d
          BY <1>2, <3>2
        <5> QED BY <1>3, <2>3, <3>2, <5>1
      <4> QED BY <4>1, <4>2
    <3>3. i \in 1 .. d \/ i = d + 1
      BY <1>2
    <3> QED BY <3>1, <3>2, <3>3
  <2>6. ASSUME NEW k \in 1 .. (n + 1)
        PROVE  Deliverable(sent[k]) <=> \E i \in 1 .. (d + 1) : new[i] = k
    <3>1. CASE k = n + 1
      BY <1>5, <2>3, <3>1 DEF p
    <3>2. CASE k # n + 1
      <4>1. k \in 1 .. n
        BY <3>2
      <4>2. (\E i \in 1 .. (d + 1) : new[i] = k) <=> \E i \in 1 .. d : at[i] = k
        <5>1. ASSUME NEW i \in 1 .. d, at[i] = k PROVE new[i] = k /\ i \in 1 .. (d + 1)
          BY <2>3, <5>1
        <5>2. ASSUME NEW i \in 1 .. (d + 1), new[i] = k PROVE i \in 1 .. d /\ at[i] = k
          <6>1. i # d + 1
            BY <2>3, <3>2, <5>2
          <6>2. i \in 1 .. d
            BY <1>2, <6>1
          <6> QED BY <2>3, <5>2, <6>2
        <5> QED BY <5>1, <5>2
      <4> QED BY <1>1, <4>1, <4>2
    <3> QED BY <3>1, <3>2
  <2>7. /\ new \in [1 .. Len(delivered') -> 1 .. (n + 1)]
        /\ \A i \in 1 .. Len(delivered') :
             delivered'[i] = sent'[new[i]] /\ \A j \in 1 .. (i - 1) : new[j] < new[i]
        /\ \A k \in 1 .. (n + 1) :
             Deliverable(sent'[k]) <=> \E i \in 1 .. Len(delivered') : new[i] = k
    <3>1. Len(delivered') = d + 1
      BY <2>2
    <3>2. \A i \in 1 .. Len(delivered') :
            delivered'[i] = sent'[new[i]] /\ \A j \in 1 .. (i - 1) : new[j] < new[i]
      BY <2>5, <3>1
    <3> QED BY <2>4, <2>6, <3>1, <3>2
  <2> QED BY <2>7 DEF DeliverableOf
<1> QED BY <1>4, <1>5

\* The CRC agrees, and the packet gets through if there is room behind it.
LEMMA CleanCrc ==
  ASSUME ParserInv, ParserInv', delivered \in Seq(Payloads),
         NEW n \in 0 .. Len(sent), NEW k \in Nat, InStep(n, k), receive_check_crc
  PROVE  n + 1 \in 0 .. Len(sent') /\ InStep(n + 1, 0)'
<1> DEFINE p == sent[n + 1]
           buf == Collected(CRC)
           b == Len(packet_buf)
           S == Len(PACKET_SIGN_RX)
<1>1. /\ CRC = 1 /\ CRC \in Nat /\ Taking("crc", CRC) /\ UNCHANGED <<line, sent>>
      /\ receive_check' = "start" /\ packet_buf' = <<>> /\ packet_start' = packet_start
  BY DEF receive_check_crc, CRC, receive_packets_init
<1>2. receive_check = "crc" /\ CRC <= Len(rx) /\ rx' = RestOf(CRC)
  BY <1>1, Taken DEF Taking
<1>3. /\ n < Len(sent) /\ p \in Payloads /\ k = S + b /\ packet_size = Len(p)
      /\ \A i \in 1 .. b : packet_buf[i] = Content(p)[i]
      /\ 1 <= Len(rx) /\ b = 2 + Len(p) => rx[1] = Crc(Content(p))
  BY <1>2, InPacket
<1>4. b = 2 + packet_size /\ packet_buf \in Seq(Cells) /\ rx \in Seq(Cells)
  BY <1>2 DEF ParserInv, HEADER
<1> HIDE DEF p, b, S
<1>5. /\ Len(p) \in Nat /\ Len(p) <= PACKET_MAX_SIZE /\ S \in Nat /\ Len(sent) \in Nat /\ n \in Nat
      /\ Len(Frame(p)) = S + (3 + Len(p)) /\ Len(Content(p)) = 2 + Len(p)
      /\ \A i \in 1 .. Len(p) : Content(p)[2 + i] = p[i]
      /\ Content(p) = [i \in 1 .. (2 + Len(p)) |-> Content(p)[i]]
  BY <1>3, FrameCells, Sizes DEF S
<1>6. /\ buf \in Seq(Cells) /\ Len(buf) = 3 + Len(p)
      /\ \A i \in 1 .. (2 + Len(p)) : buf[i] = Content(p)[i]
      /\ buf[3 + Len(p)] = Crc(Content(p))
      /\ Overfull(CRC) <=> 3 + Len(p) >= PACKET_BUF
  <2>1. b + CRC <= PACKET_BUF /\ b + CRC = 3 + Len(p) /\ b = 2 + Len(p)
    BY <1>1, <1>3, <1>4, <1>5, BufSize
  <2>2. /\ buf \in Seq(Cells) /\ Len(buf) = b + CRC
        /\ \A i \in 1 .. b : buf[i] = packet_buf[i]
        /\ \A i \in 1 .. CRC : buf[b + i] = rx[i]
        /\ Overfull(CRC) <=> b + CRC >= PACKET_BUF
    BY <1>1, <1>2, <1>4, <2>1, CollectedIs DEF b
  <2> HIDE DEF buf
  <2>3. buf[3 + Len(p)] = rx[1]
    <3>1. 1 \in 1 .. CRC /\ b + 1 = 3 + Len(p)
      BY <1>1, <2>1
    <3> QED BY <2>2, <3>1
  <2>4. rx[1] = Crc(Content(p))
    BY <1>1, <1>2, <1>3, <2>1
  <2> QED BY <1>3, <2>1, <2>2, <2>3, <2>4
<1>7. \A i \in 1 .. Len(buf) : buf[i] \in Cells
  <2> HIDE DEF buf
  <2> QED BY <1>6, ElementOfSeq
<1>8. CrcOk(buf)
  <2> HIDE DEF buf
  <2> DEFINE m == Len(buf) - CRC
  <2>1. m = 2 + Len(p) /\ 1 \in Int /\ m \in Int /\ \A i \in 1 .. m : i \in 1 .. Len(buf)
    BY <1>1, <1>5, <1>6
  <2> HIDE DEF m
  <2>2. /\ SubSeq(buf, 1, m) \in Seq(Cells)
        /\ Len(SubSeq(buf, 1, m)) = IF 1 <= m THEN m - 1 + 1 ELSE 0
        /\ \A i \in 1 .. (m - 1 + 1) : SubSeq(buf, 1, m)[i] = buf[1 + i - 1]
    <3>1. \A i \in 1 .. m : buf[i] \in Cells
      BY <1>7, <2>1
    <3> QED BY <2>1, <3>1, SubSeqProperties
  <2>3. Len(SubSeq(buf, 1, m)) = m /\ \A i \in 1 .. m : SubSeq(buf, 1, m)[i] = buf[i]
    <3>1. m - 1 + 1 = m /\ 1 <= m /\ \A i \in 1 .. m : 1 + i - 1 = i
      BY <1>5, <2>1
    <3> QED BY <2>2, <3>1
  <2> DEFINE s == SubSeq(buf, 1, m)
  <2>4. s = [i \in 1 .. m |-> s[i]] /\ \A i \in 1 .. m : s[i] = buf[i]
    BY <2>2, <2>3
  <2> HIDE DEF s
  <2>5. s = [i \in 1 .. m |-> Content(p)[i]]
    <3>1. \A i \in 1 .. m : s[i] = Content(p)[i]
      BY <1>6, <2>1, <2>4
    <3> QED BY <2>4, <3>1
  <2>6. s = Content(p)
    BY <1>5, <2>1, <2>5
  <2> QED BY <1>6, <2>6 DEF CrcOk, m, s
<1>9. SubSeq(buf, HEADER + 1, HEADER + packet_size) = p
  <2> HIDE DEF buf
  <2> DEFINE hi == 2 + Len(p)
             part == SubSeq(buf, 3, hi)
  <2>1. HEADER + 1 = 3 /\ HEADER + packet_size = hi
    BY <1>3 DEF HEADER
  <2>2. 3 \in Int /\ hi \in Int /\ \A i \in 3 .. hi : i \in 1 .. Len(buf)
    BY <1>5, <1>6
  <2>3. /\ part \in Seq(Cells)
        /\ Len(part) = IF 3 <= hi THEN hi - 3 + 1 ELSE 0
        /\ \A i \in 1 .. (hi - 3 + 1) : part[i] = buf[3 + i - 1]
    <3>1. \A i \in 3 .. hi : buf[i] \in Cells
      BY <1>7, <2>2
    <3> HIDE DEF hi
    <3> QED BY <2>2, <3>1, SubSeqProperties
  <2> HIDE DEF part
  <2>4. Len(part) = Len(p) /\ \A i \in 1 .. Len(p) : part[i] = p[i]
    <3>1. /\ hi - 3 + 1 = Len(p) /\ (3 <= hi <=> Len(p) > 0)
          /\ \A i \in 1 .. Len(p) : 3 + i - 1 = 2 + i /\ 2 + i \in 1 .. (2 + Len(p))
      BY <1>5
    <3>2. Len(part) = Len(p)
      BY <1>5, <2>3, <3>1
    <3>3. \A i \in 1 .. Len(p) : part[i] = buf[2 + i]
      BY <2>3, <3>1
    <3> QED BY <1>5, <1>6, <3>1, <3>2, <3>3
  <2>5. p \in Seq(Cells)
    BY <1>3, LineAssumption
  <2>6. part = p
    BY <2>3, <2>4, <2>5, SeqEqual
  <2> QED BY <2>1, <2>6 DEF part
<1>10. Overfull(CRC) <=> ~Deliverable(p)
  BY <1>5, <1>6, BufSize DEF Deliverable
<1>11. IF Deliverable(p) THEN delivered' = Append(delivered, p) ELSE delivered' = delivered
  BY <1>8, <1>9, <1>10 DEF receive_check_crc
<1>12. DeliverableOf(delivered', sent', n + 1)
  <2>1. DeliverableOf(delivered, sent, n)
    BY DEF InStep
  <2> QED BY <1>1, <1>3, <1>5, <1>11, <2>1, OnePacketMore DEF p
<1>13. Position(n + 1, 0)'
  <2>1. Position(n, k) /\ k + CRC = Len(Frame(p))
    <3>1. k + CRC = Len(Frame(p))
      BY <1>1, <1>3, <1>4, <1>5
    <3> QED BY <3>1 DEF InStep
  <2> QED BY <1>1, <1>2, <1>3, <2>1, PositionTaken DEF p
<1>14. Parsed(sent[(n + 1) + 1], 0)'
  <2>1. 0 < S /\ S \in Nat
    BY <1>3, FrameCells DEF S
  <2>2. Len(packet_start) \in Nat
    BY LenProperties DEF ParserInv
  <2>3. EndsWith(packet_start', 0)
    BY <1>1, <2>2 DEF EndsWith
  <2> QED BY <1>1, <2>1, <2>3 DEF Parsed, S
<1>15. n + 1 \in 0 .. Len(sent')
  BY <1>1, <1>3, <1>5
<1> QED BY <1>12, <1>13, <1>14, <1>15 DEF InStep

\* Nothing is what can get through of no packets.
LEMMA NothingSent ==
  ASSUME NEW d, d = <<>>, NEW t
  PROVE  DeliverableOf(d, t, 0)
<1> PICK none : none = [i \in 1 .. 0 |-> 0]
  OBVIOUS
<1>1. Len(d) = 0
  OBVIOUS
<1>2. none \in [1 .. Len(d) -> 1 .. 0]
  BY <1>1
<1>3. (\A i \in 1 .. Len(d) : FALSE) /\ \A k \in 1 .. 0 : FALSE
  BY <1>1
<1>4. /\ \A i \in 1 .. Len(d) :
           d[i] = t[none[i]] /\ \A j \in 1 .. (i - 1) : none[j] < none[i]
      /\ \A k \in 1 .. 0 : Deliverable(t[k]) <=> \E i \in 1 .. Len(d) : none[i] = k
  BY <1>3
<1> QED BY <1>2, <1>4 DEF DeliverableOf

\* What is on its way is where it was when neither it nor the packets change.
LEMMA PositionKept ==
  ASSUME UNCHANGED <<rx, line, sent>>, NEW n, NEW k, Position(n, k)
  PROVE  Position(n, k)'
<1>1. Way' = Way /\ \A j : Cell(j)' = Cell(j)
  BY DEF Way, Cell
<1>2. PICK at \in [n .. Len(sent) -> Int] :
        /\ at[n] = -k /\ at[Len(sent)] = Way
        /\ \A i \in n .. Len(sent) : at[i] <= Way
        /\ \A i \in (n + 1) .. Len(sent) :
             /\ at[i] = at[i - 1] + Len(Frame(sent[i]))
             /\ \A c \in 1 .. Len(Frame(sent[i])) :
                  at[i - 1] + c >= 1 => Cell(at[i - 1] + c) = Frame(sent[i])[c]
  BY DEF Position
<1>3. \A i \in (n + 1) .. Len(sent) : \A c \in 1 .. Len(Frame(sent[i])) :
        at[i - 1] + c >= 1 => Cell(at[i - 1] + c)' = Frame(sent[i])[c]
  BY <1>1, <1>2
<1>4. /\ at \in [n .. Len(sent') -> Int]
      /\ at[n] = -k /\ at[Len(sent')] = Way'
      /\ \A i \in n .. Len(sent') : at[i] <= Way'
      /\ \A i \in (n + 1) .. Len(sent') :
           /\ at[i] = at[i - 1] + Len(Frame(sent'[i]))
           /\ \A c \in 1 .. Len(Frame(sent'[i])) :
                at[i - 1] + c >= 1 => Cell(at[i - 1] + c)' = Frame(sent'[i])[c]
  BY <1>1, <1>2, <1>3
<1> QED BY <1>4 DEF Position

\* At power-up nothing is on its way, and nothing was sent.
LEMMA CleanInit == Init => CleanInv
<1> SUFFICES ASSUME Init PROVE CleanInv
  OBVIOUS
<1>1. /\ rx = <<>> /\ line = <<>> /\ sent = <<>> /\ delivered = <<>> /\ Len(<<>>) = 0
      /\ receive_check = "start" /\ packet_start = <<>>
  BY DEF Init
<1>2. Way = 0 /\ Len(sent) = 0
  BY <1>1 DEF Way
<1>3. InStep(0, 0)
  <2>1. DeliverableOf(delivered, sent, 0)
    BY <1>1, NothingSent
  <2> PICK at : at = [i \in 0 .. 0 |-> 0]
    OBVIOUS
  <2>2. at \in [0 .. Len(sent) -> Int] /\ at[0] = -0 /\ at[Len(sent)] = Way
        /\ \A i \in 0 .. Len(sent) : at[i] <= Way
    BY <1>2
  <2>3. \A i \in (0 + 1) .. Len(sent) : FALSE
    BY <1>2
  <2>4. Position(0, 0)
    BY <2>2, <2>3 DEF Position
  <2>5. Parsed(sent[0 + 1], 0)
    <3>1. 0 < Len(PACKET_SIGN_RX)
      <4>1. Len(PACKET_SIGN_RX) \in Nat /\ Len(PACKET_SIGN_RX) # 0
        BY LineAssumption, ReceiverAssumption, EmptySeq, LenProperties
      <4> QED BY <4>1
    <3>2. EndsWith(packet_start, 0)
      BY <1>1 DEF EndsWith
    <3> QED BY <1>1, <3>1, <3>2 DEF Parsed
  <2> QED BY <2>1, <2>4, <2>5 DEF InStep
<1> QED BY <1>2, <1>3 DEF CleanInv

\* Every step keeps the parser in step with the line, until the next disturbance.
LEMMA CleanNext ==
  ParserInv /\ ParserInv' /\ OrderInv /\ CleanInv /\ [Next]_vars => CleanInv'
<1> SUFFICES ASSUME ParserInv, ParserInv', OrderInv, CleanInv, [Next]_vars, ~disturbed'
             PROVE  \E n \in 0 .. Len(sent') : \E k \in Nat : InStep(n, k)'
  BY DEF CleanInv
<1>0. /\ Len(sent) \in Nat /\ Len(PACKET_SIGN_RX) \in Nat /\ Len(PACKET_SIGN_RX) > 0
      /\ Len(packet_start) \in Nat /\ Len(<<>>) = 0 /\ delivered \in Seq(Payloads)
  <2>1. Len(PACKET_SIGN_RX) \in Nat /\ Len(PACKET_SIGN_RX) # 0
    BY LineAssumption, ReceiverAssumption, EmptySeq, LenProperties
  <2> QED BY <2>1, Sizes, LenProperties DEF ParserInv, OrderInv
<1>1. CASE HostRestart
  <2>1. /\ rx' = <<>> /\ line' = <<>> /\ sent' = <<>> /\ delivered' = <<>>
        /\ receive_check' = "start" /\ packet_start' = packet_start
    BY <1>1 DEF HostRestart, Idle, lineVars, parserVars
  <2>2. Way' = 0 /\ Len(sent') = 0
    BY <1>0, <2>1 DEF Way
  <2>3. DeliverableOf(delivered', sent', 0)
    BY <2>1, NothingSent
  <2> PICK at : at = [i \in 0 .. 0 |-> 0]
    OBVIOUS
  <2>4. at \in [0 .. Len(sent') -> Int] /\ at[0] = -0 /\ at[Len(sent')] = Way'
        /\ \A i \in 0 .. Len(sent') : at[i] <= Way'
    BY <2>2
  <2>5. \A i \in (0 + 1) .. Len(sent') : FALSE
    BY <2>2
  <2>6. Position(0, 0)'
    BY <2>4, <2>5 DEF Position
  <2>7. Parsed(sent[0 + 1], 0)'
    <3>1. EndsWith(packet_start', 0)
      BY <1>0, <2>1 DEF EndsWith
    <3> QED BY <1>0, <2>1, <3>1 DEF Parsed
  <2>8. InStep(0, 0)'
    BY <2>3, <2>6, <2>7 DEF InStep
  <2> QED BY <2>2, <2>8
<1>2. CASE Fault
  BY <1>2 DEF Fault
<1>3. ASSUME ~HostRestart, ~Fault
      PROVE  \E n \in 0 .. Len(sent') : \E k \in Nat : InStep(n, k)'
  <2>1. ~disturbed
    BY <1>3 DEF Next, Send, Arrive, Expire, Worker, Check, CheckWaits, WorkerTimeout,
                WorkerNoTimeout, WorkerReturns, receive_check_start, receive_check_info,
                receive_check_body, receive_check_crc, vars, historyVars
  <2>2. PICK n \in 0 .. Len(sent), k \in Nat : InStep(n, k)
    BY <2>1 DEF CleanInv
  <2>3. CASE UNCHANGED <<rx, line, sent, delivered, receive_check, packet_start, packet_buf>>
    <3>1. Position(n, k)'
      BY <2>2, <2>3, PositionKept DEF InStep
    <3>2. DeliverableOf(delivered', sent', n) /\ Parsed(sent[n + 1], k)'
          /\ (n = Len(sent') => k = 0)
      BY <2>2, <2>3 DEF InStep, Parsed
    <3>3. InStep(n, k)'
      BY <3>1, <3>2 DEF InStep
    <3> QED BY <2>2, <2>3, <3>3
  <2>4. CASE Send
    <3>1. /\ UNCHANGED <<rx, delivered, receive_check, packet_start, packet_buf>>
          /\ \E p \in Payloads : sent' = Append(sent, p)
      BY <2>4 DEF Send, parserVars
    <3>2. /\ Len(sent') = Len(sent) + 1
          /\ \A i \in 1 .. Len(sent) : sent'[i] = sent[i]
      BY <3>1, AppendProperties DEF ParserInv
    <3>3. Position(n, k)'
      BY <2>2, <2>4, PositionSent DEF InStep
    <3>4. DeliverableOf(delivered', sent', n)
      <4>1. PICK at \in [1 .. Len(delivered) -> 1 .. n] :
              /\ \A i \in 1 .. Len(delivered) :
                   delivered[i] = sent[at[i]] /\ \A j \in 1 .. (i - 1) : at[j] < at[i]
              /\ \A c \in 1 .. n :
                   Deliverable(sent[c]) <=> \E i \in 1 .. Len(delivered) : at[i] = c
        BY <2>2 DEF InStep, DeliverableOf
      <4>2. \A c \in 1 .. n : sent'[c] = sent[c]
        BY <1>0, <2>2, <3>2
      <4>3. \A i \in 1 .. Len(delivered) : at[i] \in 1 .. n
        OBVIOUS
      <4>4. \A i \in 1 .. Len(delivered) : delivered[i] = sent'[at[i]]
        BY <4>1, <4>2, <4>3
      <4>5. \A c \in 1 .. n :
              Deliverable(sent'[c]) <=> \E i \in 1 .. Len(delivered) : at[i] = c
        BY <4>1, <4>2
      <4>6. DeliverableOf(delivered, sent', n)
        BY <4>1, <4>4, <4>5 DEF DeliverableOf
      <4> QED BY <3>1, <4>6
    <3>5. Parsed(sent[n + 1], k)'
      <4>1. CASE receive_check = "start"
        BY <2>2, <3>1, <4>1 DEF InStep, Parsed
      <4>2. CASE receive_check # "start"
        <5>1. n < Len(sent)
          BY <2>2, <4>2, SomePacket
        <5>2. sent'[n + 1] = sent[n + 1]
          BY <1>0, <3>2, <5>1
        <5> QED BY <2>2, <3>1, <4>2, <5>2 DEF InStep, Parsed
      <4> QED BY <4>1, <4>2
    <3>6. InStep(n, k)' /\ n \in 0 .. Len(sent')
      <4>1. n # Len(sent') /\ n \in 0 .. Len(sent')
        BY <1>0, <2>2, <3>2
      <4> QED BY <3>3, <3>4, <3>5, <4>1 DEF InStep
    <3> QED BY <2>2, <3>6
  <2>5. CASE Arrive
    <3>1. UNCHANGED <<sent, delivered, receive_check, packet_start, packet_buf>>
      BY <2>5 DEF Arrive, parserVars, historyVars
    <3>2. Position(n, k)'
      BY <2>2, <2>5, PositionArrived DEF InStep
    <3>3. DeliverableOf(delivered', sent', n) /\ Parsed(sent[n + 1], k)'
          /\ (n = Len(sent') => k = 0)
      BY <2>2, <3>1 DEF InStep, Parsed
    <3>4. InStep(n, k)'
      BY <3>2, <3>3 DEF InStep
    <3> QED BY <2>2, <3>1, <3>4
  <2>6. CASE WorkerTimeout
    <3>1. /\ UNCHANGED <<rx, line, sent, delivered>> /\ ~MidPacket
          /\ receive_check' = "start" /\ packet_start' = <<>>
      BY <2>6 DEF WorkerTimeout, packet_internal_reset, lineVars
    <3>2. receive_check = "start" /\ packet_start \in {<<>>, PACKET_SIGN_RX}
      BY <3>1 DEF MidPacket
    <3>3. k < Len(PACKET_SIGN_RX) /\ EndsWith(packet_start, k)
      BY <2>2, <3>2 DEF InStep, Parsed
    <3>4. k = 0
      <4>1. CASE packet_start = <<>>
        BY <1>0, <2>2, <3>3, <4>1 DEF EndsWith
      <4>2. CASE packet_start = PACKET_SIGN_RX
        <5>1. k \notin 1 .. (Len(PACKET_SIGN_RX) - 1)
          BY <3>3, <4>2, NoFalseStart
        <5> QED BY <1>0, <2>2, <3>3, <5>1
      <4> QED BY <3>2, <4>1, <4>2
    <3>5. Position(n, k)'
      BY <2>2, <3>1, PositionKept DEF InStep
    <3>6. Parsed(sent[n + 1], k)'
      <4>1. EndsWith(packet_start', 0)
        BY <1>0, <3>1 DEF EndsWith
      <4> QED BY <1>0, <3>1, <3>4, <4>1 DEF Parsed
    <3>7. InStep(n, k)'
      BY <2>2, <3>1, <3>5, <3>6, <3>4 DEF InStep
    <3> QED BY <2>2, <3>1, <3>7
  <2>7. CASE receive_check_start
    <3>1. InStep(n, k + 1)' /\ sent' = sent
      BY <2>2, <2>7, CleanStart DEF receive_check_start, historyVars
    <3> QED BY <2>2, <3>1
  <2>8. CASE receive_check_info
    <3>1. InStep(n, k + 2)' /\ sent' = sent
      BY <2>2, <2>8, CleanInfo DEF receive_check_info, historyVars
    <3> QED BY <2>2, <3>1
  <2>9. CASE receive_check_body
    <3> PICK m : m = k + packet_size
      OBVIOUS
    <3>1. InStep(n, m)' /\ sent' = sent /\ m \in Nat
      <4>1. packet_size' = packet_size /\ packet_size \in Nat
        BY <2>9, BufSize DEF receive_check_body, receive_packets_init, ParserInv
      <4>2. InStep(n, k + packet_size)'
        BY <2>2, <2>9, CleanBody
      <4> QED BY <2>2, <2>9, <4>1, <4>2 DEF receive_check_body, historyVars
    <3> QED BY <2>2, <3>1
  <2>10. CASE receive_check_crc
    <3>1. n + 1 \in 0 .. Len(sent') /\ InStep(n + 1, 0)'
      BY <1>0, <2>2, <2>10, CleanCrc
    <3> QED BY <3>1
  <2>11. ASSUME Expire \/ WorkerNoTimeout \/ WorkerReturns \/ CheckWaits \/ UNCHANGED vars
         PROVE  UNCHANGED <<rx, line, sent, delivered, receive_check, packet_start, packet_buf>>
    BY <2>11 DEF Expire, WorkerNoTimeout, WorkerReturns, CheckWaits, vars, lineVars,
                 parserVars, historyVars
  <2> QED BY <1>3, <2>3, <2>4, <2>5, <2>6, <2>7, <2>8, <2>9, <2>10, <2>11
          DEF Next, Worker, Check
<1> QED BY <1>1, <1>2, <1>3

(***************************************************************************)
(* Noise is got over: from an idle receiver on, whatever its window and    *)
(* its buffers still hold, every packet below the largest size has got     *)
(* through when the line has run dry, until the next fault or the next     *)
(* timeout inside a packet.                                                *)
(***************************************************************************)
THEOREM NoiseIsGotOver == Spec => []CleanLineDelivers
<1>1. ParserInv /\ CleanInv => CleanLineDelivers
  <2> SUFFICES ASSUME ParserInv, CleanInv, Idle, ~disturbed
               PROVE  DeliverableOf(delivered, sent, Len(sent))
    BY DEF CleanLineDelivers
  <2>1. PICK n \in 0 .. Len(sent), k \in Nat : InStep(n, k)
    BY DEF CleanInv
  <2>2. rx = <<>> /\ line = <<>> /\ receive_check = "start" /\ Way = 0 /\ Len(sent) \in Nat
    <3>1. rx = <<>> /\ line = <<>> /\ receive_check = "start" /\ Len(<<>>) = 0
      BY DEF Idle
    <3> QED BY <3>1, Sizes DEF Way
  <2>3. n = Len(sent)
    <3> SUFFICES ASSUME n < Len(sent) PROVE FALSE
      BY <2>1, <2>2
    <3> DEFINE p == sent[n + 1]
    <3>1. p \in Payloads /\ Len(Frame(p)) - k <= Way
      BY <2>1, CurrentFrame DEF InStep
    <3>2. k < Len(PACKET_SIGN_RX)
      BY <2>1, <2>2 DEF InStep, Parsed
    <3> HIDE DEF p
    <3>3. Len(PACKET_SIGN_RX) \in Nat /\ Len(p) \in Nat
          /\ Len(Frame(p)) = Len(PACKET_SIGN_RX) + (3 + Len(p))
      BY <3>1, FrameCells
    <3> QED BY <2>1, <2>2, <3>1, <3>2, <3>3
  <2> QED BY <2>1, <2>3 DEF InStep
<1> QED BY ParserInit, ParserNext, OrderInit, OrderNext, CleanInit, CleanNext, <1>1, PTL DEF Spec
=============================================================================
