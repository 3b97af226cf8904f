-------------------------- MODULE SFUImage_proofs --------------------------
(***************************************************************************)
(* What a session writes: the CRC covers what was acknowledged, the slot   *)
(* holds the image of what was taken of the host's file, and what START    *)
(* signs is the whole image.                                               *)
(***************************************************************************)
EXTENDS SFU_proofs

----------------------------------------------------------------------------
(* The inductive invariant *)

\* Where a session takes packets, or is about to be closed.
InSession == main_update_started /\ pc \in {"loop", "drain", "write", "start"}

(***************************************************************************)
(* What is folded into the CRC and what the host was told: within a WRITE  *)
(* the CRC is ahead by the packet, behind a WRERROR for good.              *)
(***************************************************************************)
FoldedInv ==
  /\ pc = "launch" => ~main_update_started
  /\ Erasing => fw_fullbody_crc32 = <<>>
  /\ InSession =>
       LET acked  == write_addr - MAIN_START_FROM(main_selector)
           folded == IF pc = "write" THEN Len(fw_fullbody_crc32) - pos
                     ELSE Len(fw_fullbody_crc32)
       IN  /\ acked >= 0
           /\ ~write_error => folded = acked
           /\ write_error  => IF pc = "write" THEN folded >= acked ELSE folded > acked
  /\ pc = "write" => /\ pos > 0 /\ Len(body) <= pos
                     /\ main_update_started /\ write_error => body # <<>>
  /\ pc \notin {"write", "start"} => body = <<>>

\* How many cells of the file the decoder was given.
Taken == Len(fw_fullbody_crc32) - (IF pc = "write" THEN Len(body) ELSE 0)

\* A session that is still to write the image of its file, if it fits the slot.
Sound == InSession /\ ~write_error /\ OneSlotOnly(session.file)

\* The file goes to the decoder page by page; only its end is no whole page.
PageOrEnd(n, file) == n % FLASH_PAGE_SIZE = 0 \/ n = Len(file)

(***************************************************************************)
(* The packets are the file's cells, from the first, in their order, cut   *)
(* at the ends of pages.                                                   *)
(***************************************************************************)
PrefixInv ==
  /\ InSession => (fw_fullbody_crc32 = <<>> <=> session.file = <<>>)
  /\ Erasing => session.file = <<>>
  /\ Sound =>
       /\ Taken >= 0 /\ Len(fw_fullbody_crc32) <= Len(session.file)
       /\ pc = "write" => \A i \in 1 .. Len(body) : body[i] = session.file[Taken + i]
       /\ PageOrEnd(Taken, session.file) /\ PageOrEnd(Len(fw_fullbody_crc32), session.file)

\* The file with the padding of its last page, and the image's j-th cell.
Fed(file, i) == IF i <= Len(file) THEN file[i] ELSE FF
FileCell(file, sel, j) == ImageCell(file, Len(file), sel, j)

\* How many cells of the slot are written.
Done == write_addr_real - MAIN_START_FROM(main_selector)

(***************************************************************************)
(* The decoder holds back what it was given and did not write: the last    *)
(* cells of the input, less than a block, and of the image, less than a    *)
(* page.                                                                   *)
(***************************************************************************)
DecoderInv ==
  /\ Erasing => dec = bin2page_reset
  /\ Sound =>
       IF Taken = 0
       THEN dec = bin2page_reset /\ Done = 0
       ELSE /\ dec.inited /\ (dec.active <=> Encoded(session.file))
            /\ ~dec.active => ~dec.errors /\ dec.result = <<>>
            /\ ~dec.errors => Done + Len(dec.result) = DecodedCount(session.file, Taken)
            /\ dec.active =>
                 /\ Len(dec.input) = FLASH_PAGE_SIZE - 1
                 /\ \A i \in 1 .. (FLASH_PAGE_SIZE - 1) :
                      dec.input[i] = Fed(session.file, UpToPage(Taken) - FLASH_PAGE_SIZE + 1 + i)

\* The cells of the image that were written, and those still held back.
ImageInv ==
  Sound /\ ~dec.errors /\ Done <= ErasedSize =>
    /\ \A j \in 1 .. Done :
         flash[MAIN_START_FROM(main_selector) + j - 1] = FileCell(session.file, main_selector, j)
    /\ \A i \in 1 .. Len(dec.result) :
         dec.result[i] = FileCell(session.file, main_selector, Done + i)

(***************************************************************************)
(* What is still to be written is erased, as far as the ERASE went.        *)
(***************************************************************************)
ErasedInv ==
  /\ pc = "erase_blocks" =>
       \A a \in Body(main_selector) : a < MAIN_START_FROM(main_selector) + pos => flash[a] = FF
  /\ InSession =>
       \A a \in Body(main_selector) :
         write_addr_real <= a /\ a < MAIN_START_FROM(main_selector) + ErasedSize => flash[a] = FF

----------------------------------------------------------------------------
(* Counting in pages and blocks *)

\* What a division leaves: quotient and remainder.
LEMMA Division ==
  ASSUME NEW d \in Nat, d > 0, NEW n \in Nat
  PROVE  /\ n \div d \in Nat /\ n % d \in Nat /\ n % d < d
         /\ n = (n \div d) * d + (n % d)
BY Z3

\* And no other quotient and remainder do.
LEMMA DivisionIs ==
  ASSUME NEW d \in Nat, d > 0, NEW q \in Nat, NEW r \in Nat, r < d,
         NEW n \in Nat, n = q * d + r
  PROVE  n \div d = q /\ n % d = r
BY Z3

\* The sum and the difference of whole pages are whole pages.
LEMMA WholePages ==
  ASSUME NEW a \in Nat, NEW b \in Nat, a % FLASH_PAGE_SIZE = 0
  PROVE  (a + b) % FLASH_PAGE_SIZE = 0 <=> b % FLASH_PAGE_SIZE = 0
<1> DEFINE P == FLASH_PAGE_SIZE
           p == a \div P
           q == b \div P
           r == b % P
<1>1. P \in Nat /\ P > 0
  BY PageSize
<1>2. p \in Nat /\ a = p * P + (a % P)
  BY <1>1, Division
<1>3. q \in Nat /\ r \in Nat /\ r < P /\ b = q * P + r
  BY <1>1, Division
<1> HIDE DEF P, p, q, r
<1>4. a = p * P
  BY <1>2, <1>1 DEF P
<1> DEFINE m == p + q
<1>5. m * P = p * P + q * P /\ m \in Nat
  BY <1>1, <1>2, <1>3
<1> DEFINE n == a + b
<1> HIDE DEF m
<1>6. n = m * P + r /\ n \in Nat
  BY <1>3, <1>4, <1>5, <1>1, <1>2
<1> HIDE DEF n
<1>7. n % P = r
  BY <1>1, <1>3, <1>5, <1>6, DivisionIs
<1> QED BY <1>7 DEF P, r, n

\* Up to a page behind a whole number of pages: the page is begun.
LEMMA PageBegun ==
  ASSUME NEW n \in Nat, n % FLASH_PAGE_SIZE = 0, NEW c \in 1 .. FLASH_PAGE_SIZE
  PROVE  /\ UpToPage(n) = n
         /\ UpToPage(n + c) = n + FLASH_PAGE_SIZE
         /\ (UpToPage(n + c) - 1) \div FLASH_PAGE_SIZE = n \div FLASH_PAGE_SIZE
         /\ n = (n \div FLASH_PAGE_SIZE) * FLASH_PAGE_SIZE
         /\ n \div FLASH_PAGE_SIZE \in Nat
<1> DEFINE P == FLASH_PAGE_SIZE
           q == n \div P
<1>1. P \in Nat /\ P > 1
  BY PageSize
<1>2. q \in Nat /\ n = q * P + (n % P)
  BY <1>1, Division
<1>c. c \in Nat /\ c >= 1 /\ c <= P
  BY <1>1
<1> HIDE DEF P, q
<1>3. n = q * P
  BY <1>2, <1>1 DEF P
<1>5. (n + P - 1) \div P = q
  <2>1. /\ n + P - 1 = q * P + (P - 1) /\ n + P - 1 \in Nat
        /\ P - 1 \in Nat /\ P - 1 < P
    BY <1>3, <1>1, <1>2
  <2> QED BY <2>1, <1>1, <1>2, DivisionIs
<1>6. (n + c + P - 1) \div P = q + 1
  <2>1. /\ (q + 1) * P = q * P + P /\ q + 1 \in Nat /\ c - 1 \in Nat /\ c - 1 < P
    BY <1>1, <1>2, <1>c
  <2>2. n + c + P - 1 = (q + 1) * P + (c - 1) /\ n + c + P - 1 \in Nat
    BY <2>1, <1>3, <1>1, <1>2, <1>c
  <2> QED BY <2>1, <2>2, <1>1, DivisionIs
<1>7. UpToPage(n) = n
  BY <1>5, <1>3 DEF UpToPage, P
<1>8. (q + 1) * P = n + P
  BY <1>1, <1>2, <1>3
<1>9. UpToPage(n + c) = n + P
  BY <1>6, <1>8 DEF UpToPage, P
<1>10. (UpToPage(n + c) - 1) \div P = q
  BY <1>1, <1>2, <1>5, <1>9
<1> QED BY <1>2, <1>3, <1>7, <1>9, <1>10 DEF P, q

----------------------------------------------------------------------------
(* The image of a file, block by block *)

\* A block carries at least one data byte.
LEMMA DataPerBlockType == DataPerBlock \in Nat /\ DataPerBlock > 0
BY PageSize DEF DataPerBlock

\* Of a stream that is not encoded every page is a page of the image.
LEMMA RawImage ==
  ASSUME NEW file, ~Encoded(file), NEW sel \in BOOLEAN, NEW j
  PROVE  FileCell(file, sel, j) = Fed(file, j)
BY DEF FileCell, ImageCell, Fed

\* The q-th block of an encoded stream gives the image these cells.
LEMMA BlockImage ==
  ASSUME NEW file, Encoded(file), NEW sel \in BOOLEAN,
         NEW q \in Nat, NEW i \in 1 .. DataPerBlock
  PROVE  FileCell(file, sel, q * DataPerBlock + i)
           = Shifted(Fed(file, q * FLASH_PAGE_SIZE + 2 + i), sel)
<1> DEFINE D == DataPerBlock
           at == 3 + FLASH_PAGE_SIZE * (((q * D + i) - 1) \div D) + (((q * D + i) - 1) % D)
<1>1. D \in Nat /\ D > 0 /\ i - 1 \in Nat /\ i - 1 < D /\ i \in Nat
  BY DataPerBlockType
<1> HIDE DEF D
<1>2. (q * D + i) - 1 = q * D + (i - 1) /\ (q * D + i) - 1 \in Nat
  BY <1>1
<1>3. ((q * D + i) - 1) \div D = q /\ ((q * D + i) - 1) % D = i - 1
  BY <1>1, <1>2, DivisionIs
<1>4. at = 3 + FLASH_PAGE_SIZE * q + (i - 1)
  BY <1>3
<1>5. at = q * FLASH_PAGE_SIZE + 2 + i
  BY <1>4, <1>1, PageSize
<1>6. FileCell(file, sel, q * D + i) = Shifted(Fed(file, at), sel)
  BY DEF FileCell, ImageCell, Fed, D
<1> QED BY <1>5, <1>6 DEF D

\* How many cells of the image a page more brings.
LEMMA CountNextPage ==
  ASSUME NEW file, NEW n \in Nat, n % FLASH_PAGE_SIZE = 0, NEW c \in 1 .. FLASH_PAGE_SIZE
  PROVE  /\ ~Encoded(file) => /\ DecodedCount(file, n) = n
                              /\ DecodedCount(file, n + c) = n + FLASH_PAGE_SIZE
         /\ Encoded(file) =>
              /\ DecodedCount(file, n + c) = (n \div FLASH_PAGE_SIZE) * DataPerBlock
              /\ n = 0 => DecodedCount(file, n) = 0 /\ DecodedCount(file, n + c) = 0
              /\ n # 0 => /\ n \div FLASH_PAGE_SIZE - 1 \in Nat
                          /\ DecodedCount(file, n) = (n \div FLASH_PAGE_SIZE - 1) * DataPerBlock
                          /\ DecodedCount(file, n + c) = DecodedCount(file, n) + DataPerBlock
<1> DEFINE P == FLASH_PAGE_SIZE
           q == n \div P
           D == DataPerBlock
<1>1. P \in Nat /\ P > 1 /\ D \in Nat /\ D > 0
  BY PageSize, DataPerBlockType
<1>c. c \in Nat /\ c >= 1
  BY <1>1
<1>2. /\ UpToPage(n) = n /\ UpToPage(n + c) = n + P /\ (UpToPage(n + c) - 1) \div P = q
      /\ q \in Nat /\ n = q * P
  BY PageBegun
<1> HIDE DEF P, q, D
<1>3. CASE ~Encoded(file)
  BY <1>3, <1>2 DEF DecodedCount, P
<1>4. CASE Encoded(file)
  <2>1. DecodedCount(file, n + c) = q * D
    BY <1>4, <1>2, <1>c DEF DecodedCount, P, D
  <2>2. ASSUME n = 0 PROVE DecodedCount(file, n) = 0 /\ q = 0
    BY <2>2, <1>4, <1>1, <1>2, Z3 DEF DecodedCount
  <2>3. ASSUME n # 0
        PROVE  q - 1 \in Nat /\ DecodedCount(file, n) = (q - 1) * D /\ q * D = (q - 1) * D + D
    <3>1. q # 0
      BY <2>3, <1>1, <1>2
    <3>2. q - 1 \in Nat
      BY <3>1, <1>2
    <3>3. /\ n - 1 = (q - 1) * P + (P - 1) /\ n - 1 \in Nat
          /\ P - 1 \in Nat /\ P - 1 < P
      BY <2>3, <1>1, <1>2, <3>2
    <3>4. (n - 1) \div P = q - 1
      BY <1>1, <3>2, <3>3, DivisionIs
    <3>5. DecodedCount(file, n) = (q - 1) * D
      BY <1>4, <2>3, <1>2, <3>4 DEF DecodedCount, P, D
    <3>6. q * D = (q - 1) * D + D
      BY <3>2, <1>1, <1>2
    <3> QED BY <3>2, <3>5, <3>6
  <2>4. 0 * D = 0
    BY <1>1
  <2> QED BY <1>4, <2>1, <2>2, <2>3, <2>4 DEF P, q, D
<1> QED BY <1>3, <1>4

----------------------------------------------------------------------------
(* The steps of a session *)

\* Nothing that belongs to the session changes.
SessionKept ==
  /\ InSession
  /\ UNCHANGED <<flash, main_selector, main_update_started, fw_fullbody_crc32, write_addr,
                 write_addr_real, write_error, dec, firmware_size>>
  /\ session'.file = session.file
  /\ pc' = "write" <=> pc = "write"
  /\ pc = "write" => UNCHANGED <<body, pos>>

(***************************************************************************)
(* A session is opened by OpenSession only; then packets are written, or   *)
(* something happens that leaves the session as it is.                     *)
(***************************************************************************)
LEMMA SessionSteps ==
  ASSUME TypeOK, SessionInv, FoldedInv, [Next]_vars, InSession'
  PROVE  OpenSession \/ SessionKept \/ (InSession /\ (sfu_command_write \/ WritePage \/ WriteDone))
<1>1. CASE Scan \/ FirstStart \/ FirstStartEraseB \/ FirstStartEraseA \/ FirstStartSign
  <2>1. ~main_update_started /\ main_update_started' = main_update_started
    BY <1>1 DEF Scan, FirstStart, FirstStartEraseB, FirstStartEraseA, FirstStartSign, SessionInv
  <2> QED BY <2>1 DEF InSession
<1>2. CASE sfu_command_erase \/ EraseSign \/ EraseBlock
  <2>1. pc' \in {"erase_sign", "erase_blocks"}
    BY <1>2 DEF sfu_command_erase, EraseSign, EraseBlock
  <2> QED BY <2>1 DEF InSession
<1>3. CASE SignErase \/ SignProgram
  <2>1. ~main_update_started /\ main_update_started' = main_update_started
    BY <1>3 DEF SignErase, SignProgram, SessionInv
  <2> QED BY <2>1 DEF InSession
<1>4. CASE main_start
  <2>1. ~main_update_started /\ main_update_started' = main_update_started
    BY <1>4 DEF main_start, FoldedInv
  <2> QED BY <2>1 DEF InSession
<1>5. CASE StartFlush \/ LeaveLoop \/ PowerLoss
  <2>1. main_update_started' = FALSE
    BY <1>5 DEF StartFlush, CloseSession, LeaveLoop, PowerLoss
  <2> QED BY <2>1 DEF InSession
<1>6. CASE sfu_command_speed \/ DrainDone \/ sfu_command_start
  <2>1. /\ pc \in {"loop", "drain"} /\ pc' \in {"loop", "start"}
        /\ UNCHANGED <<flash, main_selector, main_update_started, fw_fullbody_crc32, write_addr,
                       write_addr_real, write_error, dec, firmware_size>>
        /\ session'.file = session.file
    BY <1>6 DEF sfu_command_speed, DrainDone, sfu_command_start, Receiving, flashVars, addrVars,
                localVars, TypeOK
  <2> QED BY <2>1 DEF InSession, SessionKept
<1>7. CASE Timeout
  <2>1. /\ pc = "loop" /\ pc' = "drain"
        /\ UNCHANGED <<flash, main_selector, fw_fullbody_crc32, dec, firmware_size, session>>
        /\ \/ main_update_started' = FALSE
           \/ UNCHANGED <<write_addr, write_addr_real, write_error, main_update_started>>
    BY <1>7 DEF Timeout, CloseSession, flashVars, addrVars, localVars
  <2> QED BY <2>1 DEF InSession, SessionKept
<1>8. CASE sfu_command_write \/ WritePage \/ WriteDone
  <2>1. /\ pc \in {"loop", "drain", "write"}
        /\ main_update_started' = main_update_started
    BY <1>8 DEF sfu_command_write, WritePage, WriteDone, Receiving
  <2> QED BY <2>1, <1>8 DEF InSession
<1>9. CASE UNCHANGED vars
  BY <1>9 DEF vars, flashVars, addrVars, localVars, InSession, SessionKept
<1> QED
  BY <1>1, <1>2, <1>3, <1>4, <1>5, <1>6, <1>7, <1>8, <1>9 DEF Next, Device, HostPacket

\* What comes before a session: the slot is erased block by block.
LEMMA EraseSteps ==
  ASSUME TypeOK, [Next]_vars, Erasing'
  PROVE  \/ sfu_command_erase
         \/ EraseSign \/ EraseBlock
         \/ Erasing /\ UNCHANGED vars
<1>1. CASE UNCHANGED vars
  BY <1>1 DEF vars, Erasing
<1>2. CASE Next
  BY <1>2 DEF Next, Device, HostPacket, Erasing,
     Scan, FirstStart, FirstStartEraseB, FirstStartEraseA, FirstStartSign, AfterFind,
     OpenSession, WritePage, WriteDone, StartFlush, SignErase, SignProgram, DrainDone,
     LeaveLoop, main_start, Timeout, sfu_command_speed, sfu_command_write, sfu_command_start,
     PowerLoss
<1> QED BY <1>1, <1>2

(***************************************************************************)
(* What sfu_command_write takes: at least one cell of a file, as many as   *)
(* it says, in their order, from the one whose address was asked for.      *)
(***************************************************************************)
LEMMA PacketTaken ==
  ASSUME TypeOK, sfu_command_write
  PROVE  /\ pos' \in Nat \ {0}
         /\ body' \in Seq(Cells) /\ Len(body') = pos' /\ body' # <<>>
         /\ Len(fw_fullbody_crc32') = Len(fw_fullbody_crc32) + pos'
         /\ session'.file \in HostFiles /\ session'.file \in Seq(Cells)
         /\ \E sel \in BOOLEAN, skip \in Nat :
              /\ MAIN_START_FROM(sel) + skip = write_addr
              /\ skip + pos' <= Len(session'.file)
              /\ pos' \in PacketSizes \/ skip + pos' = Len(session'.file)
              /\ \A i \in 1 .. pos' : body'[i] = session'.file[skip + i]
<1>1. PICK file \in HostFiles, sel \in BOOLEAN :
        \E w \in HostWrites(file) :
          /\ InOrder(MAIN_START_FROM(sel) + w[1])
          /\ body' = SubSeq(file, w[1] + 1, w[1] + w[2])
          /\ fw_fullbody_crc32' = fw_fullbody_crc32 \o SubSeq(file, w[1] + 1, w[1] + w[2])
          /\ pos' = w[2]
          /\ session' = [session EXCEPT !.file = file]
  BY DEF sfu_command_write
<1>2. PICK w \in HostWrites(file) :
        /\ InOrder(MAIN_START_FROM(sel) + w[1])
        /\ body' = SubSeq(file, w[1] + 1, w[1] + w[2])
        /\ fw_fullbody_crc32' = fw_fullbody_crc32 \o SubSeq(file, w[1] + 1, w[1] + w[2])
        /\ pos' = w[2]
        /\ session' = [session EXCEPT !.file = file]
  BY <1>1
<1>3. file \in Seq(Cells) /\ fw_fullbody_crc32 \in Seq(Cells)
  BY CoreAssumption DEF HostFiles, TypeOK
<1> DEFINE skip == w[1]
           size == w[2]
<1>4. /\ skip \in Nat /\ size \in Nat \ {0} /\ skip + size <= Len(file)
      /\ size \in PacketSizes \/ skip + size = Len(file)
  BY <1>3, LenProperties DEF HostWrites
<1>5. /\ pos' = size /\ body' = SubSeq(file, skip + 1, skip + size)
      /\ fw_fullbody_crc32' = fw_fullbody_crc32 \o body' /\ session'.file = file
      /\ MAIN_START_FROM(sel) + skip = write_addr
  BY <1>2 DEF InOrder, TypeOK
<1> HIDE DEF skip, size
<1>6. \A i \in (skip + 1) .. (skip + size) : file[i] \in Cells
  BY <1>3, <1>4, ElementOfSeq, LenProperties
<1>7. /\ body' \in Seq(Cells) /\ Len(body') = size
      /\ \A i \in 1 .. size : body'[i] = file[skip + i]
  <2>1. /\ body' \in Seq(Cells)
        /\ Len(body') = IF skip + 1 <= skip + size THEN (skip + size) - (skip + 1) + 1 ELSE 0
        /\ \A i \in 1 .. ((skip + size) - (skip + 1) + 1) : body'[i] = file[(skip + 1) + i - 1]
    BY <1>4, <1>5, <1>6, SubSeqProperties
  <2>2. (skip + size) - (skip + 1) + 1 = size /\ skip + 1 <= skip + size
    BY <1>4
  <2>3. ASSUME NEW i \in 1 .. size PROVE body'[i] = file[skip + i]
    <3>1. (skip + 1) + i - 1 = skip + i
      BY <1>4
    <3> QED BY <2>1, <2>2, <3>1
  <2> QED BY <2>1, <2>2, <2>3
<1>8. Len(fw_fullbody_crc32') = Len(fw_fullbody_crc32) + Len(body')
  BY <1>3, <1>5, <1>7, ConcatProperties
<1>9. body' # <<>>
  BY <1>4, <1>7, EmptySeq
<1> QED BY <1>1, <1>3, <1>4, <1>5, <1>7, <1>8, <1>9

----------------------------------------------------------------------------
(* The CRC and the acknowledged address *)

\* At power-up nothing is folded.
LEMMA InitFoldedInv == Init => FoldedInv
BY DEF Init, FoldedInv, Erasing, InSession

\* The words of FoldedInv that only an open session is about.
Folded ==
  LET acked  == write_addr - MAIN_START_FROM(main_selector)
      folded == IF pc = "write" THEN Len(fw_fullbody_crc32) - pos
                ELSE Len(fw_fullbody_crc32)
  IN  /\ acked >= 0
      /\ ~write_error => folded = acked
      /\ write_error  => IF pc = "write" THEN folded >= acked ELSE folded > acked

\* Every step keeps FoldedInv: only a WRITE folds, and its acknowledgement counts it.
LEMMA NextFoldedInv == TypeOK /\ SessionInv /\ FoldedInv /\ [Next]_vars => FoldedInv'
<1> SUFFICES ASSUME TypeOK, SessionInv, FoldedInv, [Next]_vars PROVE FoldedInv'
  OBVIOUS
<1>t. /\ write_addr \in Nat /\ Len(fw_fullbody_crc32) \in Nat /\ pos \in Nat
      /\ Len(body) \in Nat /\ body \in Seq(Cells) /\ fw_fullbody_crc32 \in Seq(Cells)
      /\ MAIN_START_FROM(main_selector) \in Nat
  BY LayoutTypes, LenProperties DEF TypeOK
<1>1. ASSUME pc' = "launch" PROVE ~main_update_started'
  <2>1. CASE UNCHANGED vars
    BY <2>1, <1>1 DEF vars, FoldedInv
  <2>2. CASE Scan \/ FirstStartEraseA \/ FirstStartSign
    BY <2>2 DEF Scan, FirstStartEraseA, FirstStartSign, SessionInv
  <2>3. CASE LeaveLoop
    BY <2>3 DEF LeaveLoop
  <2> QED
    BY <2>1, <2>2, <2>3, <1>1
       DEF Next, Device, HostPacket, FirstStart, FirstStartEraseB, EraseSign, EraseBlock,
           OpenSession, WritePage, WriteDone, StartFlush, SignErase, SignProgram, DrainDone,
           main_start, Timeout, sfu_command_speed, sfu_command_erase, sfu_command_write,
           sfu_command_start, PowerLoss
<1>2. ASSUME Erasing' PROVE fw_fullbody_crc32' = <<>>
  <2>1. sfu_command_erase \/ EraseSign \/ EraseBlock \/ (Erasing /\ UNCHANGED vars)
    BY <1>2, EraseSteps
  <2> QED
    BY <2>1 DEF sfu_command_erase, EraseSign, EraseBlock, vars, FoldedInv, Erasing
<1>3. ASSUME InSession' PROVE Folded'
  <2>1. CASE OpenSession
    <3>1. /\ fw_fullbody_crc32' = <<>> /\ pc' = "loop" /\ write_error' = FALSE
          /\ main_selector' = main_selector /\ write_addr' = MAIN_START_FROM(main_selector)
      BY <2>1 DEF OpenSession, FoldedInv, Erasing
    <3>2. Len(<<>>) = 0
      BY EmptySeq
    <3> QED BY <3>1, <3>2, <1>t DEF Folded
  <2>2. CASE SessionKept
    <3>1. Folded
      BY <2>2 DEF SessionKept, FoldedInv, Folded
    <3> QED BY <2>2, <3>1 DEF SessionKept, Folded
  <2>3. CASE InSession /\ sfu_command_write
    <3>1. Folded /\ pc # "write"
      BY <2>3 DEF FoldedInv, Folded, sfu_command_write, Receiving
    <3>2. /\ pc' = "write" /\ UNCHANGED <<main_selector, write_addr, write_error>>
      BY <2>3 DEF sfu_command_write, addrVars
    <3>3. pos' \in Nat \ {0} /\ Len(fw_fullbody_crc32') = Len(fw_fullbody_crc32) + pos'
      BY <2>3, PacketTaken
    <3> QED BY <3>1, <3>2, <3>3, <1>t DEF Folded
  <2>4. CASE InSession /\ WritePage
    <3>1. Folded /\ pc = "write" /\ pos > 0
      BY <2>4 DEF FoldedInv, Folded, WritePage
    <3>2. /\ UNCHANGED <<main_selector, write_addr, fw_fullbody_crc32>>
          /\ IF write_error' THEN pc' = "loop" ELSE pos' = pos /\ pc' = pc
          /\ ~write_error' => ~write_error
      BY <2>4 DEF WritePage
    <3> QED BY <3>1, <3>2, <1>t DEF Folded
  <2>5. CASE InSession /\ WriteDone
    <3>1. Folded /\ pc = "write" /\ pos > 0 /\ ~write_error
      BY <2>5 DEF FoldedInv, Folded, WriteDone, InSession
    <3>2. /\ UNCHANGED <<main_selector, write_error, fw_fullbody_crc32>>
          /\ write_addr' = write_addr + pos /\ pc' = "loop"
      BY <2>5 DEF WriteDone
    <3> QED BY <3>1, <3>2, <1>t DEF Folded
  <2> QED BY <1>3, <2>1, <2>2, <2>3, <2>4, <2>5, SessionSteps
<1>4. ASSUME pc' = "write"
      PROVE  pos' > 0 /\ Len(body') <= pos' /\ (main_update_started' /\ write_error' => body' # <<>>)
  <2>1. CASE UNCHANGED vars
    BY <2>1, <1>4 DEF vars, localVars, addrVars, FoldedInv
  <2>2. CASE sfu_command_write
    <3>1. pos' \in Nat \ {0} /\ Len(body') = pos' /\ body' # <<>>
      BY <2>2, PacketTaken
    <3> QED BY <3>1
  <2>3. CASE WritePage
    <3>1. /\ pc = "write" /\ ~write_error' /\ body' = AfterPage(body) /\ pos' = pos
      BY <2>3, <1>4 DEF WritePage
    <3>2. Len(AfterPage(body)) <= Len(body)
      BY PageAndRest, PageSize, <1>t
    <3>3. Len(AfterPage(body)) \in Nat
      BY PageAndRest, <1>t, LenProperties
    <3> QED BY <3>1, <3>2, <3>3, <1>t DEF FoldedInv
  <2> QED
    BY <2>1, <2>2, <2>3, <1>4
       DEF Next, Device, HostPacket, Scan, FirstStart, FirstStartEraseB, FirstStartEraseA,
           FirstStartSign, AfterFind, EraseSign, EraseBlock, OpenSession, WriteDone, StartFlush,
           SignErase, SignProgram, DrainDone, LeaveLoop, main_start, Timeout,
           sfu_command_speed, sfu_command_erase, sfu_command_start, PowerLoss
<1>5. ASSUME pc' \notin {"write", "start"} PROVE body' = <<>>
  <2>1. CASE UNCHANGED vars
    BY <2>1, <1>5 DEF vars, localVars, FoldedInv
  <2>2. CASE WritePage \/ WriteDone \/ StartFlush \/ PowerLoss
    BY <2>2, <1>5 DEF WritePage, WriteDone, StartFlush, PowerLoss
  <2>3. CASE sfu_command_write \/ sfu_command_start
    BY <2>3, <1>5 DEF sfu_command_write, sfu_command_start
  <2>4. CASE \/ Scan \/ FirstStart \/ FirstStartEraseB \/ FirstStartEraseA \/ FirstStartSign
             \/ EraseSign \/ EraseBlock \/ OpenSession \/ SignErase \/ SignProgram
             \/ DrainDone \/ LeaveLoop \/ main_start \/ Timeout
             \/ sfu_command_speed \/ sfu_command_erase
    <3>1. body' = body /\ pc \notin {"write", "start"}
      BY <2>4 DEF Scan, FirstStart, FirstStartEraseB, FirstStartEraseA, FirstStartSign,
           EraseSign, EraseBlock, OpenSession, SignErase, SignProgram, DrainDone, LeaveLoop,
           main_start, Timeout, sfu_command_speed, sfu_command_erase, Receiving, localVars
    <3> QED BY <3>1 DEF FoldedInv
  <2> QED BY <2>1, <2>2, <2>3, <2>4 DEF Next, Device, HostPacket
<1> QED BY <1>1, <1>2, <1>3, <1>4, <1>5 DEF FoldedInv, Folded

\* The invariant holds in every reachable state.
LEMMA FoldedInvariant == Spec => [](TypeOK /\ SessionInv /\ FoldedInv)
<1>1. TypeOK /\ SessionInv /\ FoldedInv /\ [Next]_vars => FoldedInv'
  BY NextFoldedInv
<1> QED BY <1>1, InitFoldedInv, SessionInvariant, PTL DEF Spec

(***************************************************************************)
(* Between two packets of a session the CRC covers as many cells as were   *)
(* acknowledged, and behind a WRERROR more: whatever sizes the host sends, *)
(* and whichever of its packets come twice, late or not at all.            *)
(***************************************************************************)
THEOREM AcknowledgedFolded == Spec => []AcknowledgedIsFolded
<1>1. FoldedInv => AcknowledgedIsFolded
  BY DEF FoldedInv, AcknowledgedIsFolded, InSession
<1> QED BY <1>1, FoldedInvariant, PTL

----------------------------------------------------------------------------
(* The packets and the file *)

\* Nothing is a whole number of pages.
LEMMA ZeroPages == 0 % FLASH_PAGE_SIZE = 0 /\ UpToPage(0) = 0
<1> DEFINE P == FLASH_PAGE_SIZE
<1>1. P \in Nat /\ P > 1
  BY PageSize
<1> HIDE DEF P
<1>2. 0 = 0 * P + 0 /\ P - 1 = 0 * P + (P - 1) /\ P - 1 \in Nat /\ P - 1 < P /\ 0 \in Nat
  BY <1>1
<1>3. 0 % P = 0 /\ (P - 1) \div P = 0
  BY <1>1, <1>2, DivisionIs
<1>4. 0 + P - 1 = P - 1 /\ 0 * P = 0
  BY <1>1
<1>5. ((0 + P - 1) \div P) * P = 0
  BY <1>3, <1>4
<1> QED BY <1>3, <1>5 DEF P, UpToPage

\* At power-up nothing is taken of any file.
LEMMA InitPrefixInv == Init => PrefixInv
BY DEF Init, PrefixInv, Sound, InSession, Erasing

\* The words of PrefixInv that only an open session is about.
Prefix ==
  /\ Taken >= 0 /\ Len(fw_fullbody_crc32) <= Len(session.file)
  /\ pc = "write" => \A i \in 1 .. Len(body) : body[i] = session.file[Taken + i]
  /\ PageOrEnd(Taken, session.file) /\ PageOrEnd(Len(fw_fullbody_crc32), session.file)

\* A packet that is taken is the next part of the file.
LEMMA NextPart ==
  ASSUME TypeOK, FoldedInv, PrefixInv, InSession, sfu_command_write, Sound'
  PROVE  /\ Sound /\ Taken' = Taken /\ Taken = Len(fw_fullbody_crc32)
         /\ Taken % FLASH_PAGE_SIZE = 0
         /\ Prefix'
         /\ fw_fullbody_crc32 # <<>> => session'.file = session.file
<1> DEFINE n == Len(fw_fullbody_crc32)
           file == session'.file
<1>1. /\ n \in Nat /\ pos' \in Nat \ {0} /\ Len(body') = pos'
      /\ Len(fw_fullbody_crc32') = n + pos'
      /\ file \in HostFiles /\ file \in Seq(Cells) /\ Len(file) \in Nat
  BY PacketTaken, LenProperties DEF TypeOK
<1>2. /\ pc \in {"loop", "drain"} /\ pc' = "write"
      /\ main_update_started' = main_update_started /\ write_error' = write_error
  BY DEF sfu_command_write, Receiving, addrVars
<1>3. fw_fullbody_crc32 # <<>> => file = session.file
  BY <1>1 DEF HostFiles
<1>4. SLOT_STRIDE \in Nat /\ SLOT_STRIDE > 0
  BY Layout, LayoutTypes DEF LayoutAssumption, FLASH_SIZE_CORRECT
<1>5. Sound
  <2>1. CASE fw_fullbody_crc32 # <<>>
    BY <2>1, <1>2, <1>3 DEF Sound, InSession
  <2>2. CASE fw_fullbody_crc32 = <<>>
    <3>1. session.file = <<>> /\ Len(<<>>) = 0
      BY <2>2, EmptySeq DEF PrefixInv
    <3> QED BY <3>1, <1>2, <1>4 DEF Sound, InSession, OneSlotOnly
  <2> QED BY <2>1, <2>2
<1>6. Taken = n /\ Taken' = n
  BY <1>1, <1>2 DEF Taken
<1>7. n <= Len(file) /\ PageOrEnd(n, file)
  <2>1. CASE fw_fullbody_crc32 # <<>>
    BY <2>1, <1>3, <1>5, <1>6 DEF PrefixInv
  <2>2. CASE fw_fullbody_crc32 = <<>>
    <3>1. n = 0
      BY <2>2, EmptySeq
    <3> QED BY <3>1, <1>1, ZeroPages DEF PageOrEnd
  <2> QED BY <2>1, <2>2
<1>8. PICK sel \in BOOLEAN, skip \in Nat :
        /\ MAIN_START_FROM(sel) + skip = write_addr
        /\ skip + pos' <= Len(file)
        /\ pos' \in PacketSizes \/ skip + pos' = Len(file)
        /\ \A i \in 1 .. pos' : body'[i] = file[skip + i]
  BY PacketTaken
<1>9. skip = n
  <2>1. write_addr - MAIN_START_FROM(main_selector) = n /\ write_addr \in Nat
    BY <1>2, <1>5 DEF FoldedInv, Sound, TypeOK
  <2>2. Len(file) < SLOT_STRIDE
    BY DEF Sound, OneSlotOnly
  <2>3. main_selector \in BOOLEAN /\ BOOTLOADER_TO \in Nat
    BY LayoutTypes DEF TypeOK
  <2> HIDE DEF n, file
  <2> QED BY <2>1, <2>2, <2>3, <1>1, <1>4, <1>7, <1>8 DEF MAIN_START_FROM
<1>10. n % FLASH_PAGE_SIZE = 0
  <2>1. n # Len(file)
    BY <1>1, <1>8, <1>9
  <2> QED BY <2>1, <1>7 DEF PageOrEnd
<1>11. PageOrEnd(n + pos', file)
  <2>1. CASE pos' \in PacketSizes
    <3>1. pos' % FLASH_PAGE_SIZE = 0
      BY <2>1, HostAssumption
    <3>2. (n + pos') % FLASH_PAGE_SIZE = 0
      BY <3>1, <1>1, <1>10, WholePages
    <3> QED BY <3>2 DEF PageOrEnd
  <2>2. CASE n + pos' = Len(file)
    BY <2>2 DEF PageOrEnd
  <2> QED BY <2>1, <2>2, <1>8, <1>9
<1>12. Prefix'
  <2>1. Len(fw_fullbody_crc32') <= Len(file) /\ Taken' >= 0
    BY <1>1, <1>6, <1>8, <1>9
  <2>2. \A i \in 1 .. Len(body') : body'[i] = file[Taken' + i]
    BY <1>1, <1>6, <1>8, <1>9
  <2>3. PageOrEnd(Taken', file) /\ PageOrEnd(Len(fw_fullbody_crc32'), file)
    BY <1>1, <1>6, <1>10, <1>11 DEF PageOrEnd
  <2> QED BY <2>1, <2>2, <2>3 DEF Prefix
<1> QED BY <1>3, <1>5, <1>6, <1>10, <1>12

(***************************************************************************)
(* The page that the decoder is given next holds the cells of the file     *)
(* that come next, and behind the end of the file 0xFF.                    *)
(***************************************************************************)
LEMMA NextPage ==
  ASSUME TypeOK, PrefixInv, Sound, pc = "write", body # <<>>
  PROVE  /\ Taken \in Nat /\ Taken % FLASH_PAGE_SIZE = 0
         /\ \E c \in 1 .. FLASH_PAGE_SIZE :
              /\ Len(AfterPage(body)) = Len(body) - c
              /\ PageOrEnd(Taken + c, session.file)
              /\ \A i \in 1 .. (Len(body) - c) : AfterPage(body)[i] = body[c + i]
         /\ \A i \in 1 .. FLASH_PAGE_SIZE : Padded(body)[i] = Fed(session.file, Taken + i)
         /\ Len(session.file) > 0
<1> DEFINE P == FLASH_PAGE_SIZE
           n == Taken
           m == Len(body)
           all == Len(fw_fullbody_crc32)
           file == session.file
           c == IF m < P THEN m ELSE P
<1>1. P \in Nat /\ P > 1 /\ m \in Nat /\ m > 0 /\ all \in Nat /\ Len(file) \in Nat
  BY PageSize, LenProperties, EmptySeq DEF TypeOK
<1>2. n = all - m /\ n >= 0 /\ n \in Nat
  BY <1>1 DEF Taken, PrefixInv
<1>3. /\ all <= Len(file) /\ PageOrEnd(n, file) /\ PageOrEnd(all, file)
      /\ \A i \in 1 .. m : body[i] = file[n + i]
  BY DEF PrefixInv
<1> HIDE DEF n, m, all, file, P
<1>4. n % P = 0 /\ Len(file) > 0
  <2>1. n # Len(file) /\ Len(file) > 0
    BY <1>1, <1>2, <1>3
  <2> QED BY <2>1, <1>3 DEF PageOrEnd, P
<1>5. c \in 1 .. P /\ c <= m
  BY <1>1
<1>6. m < P => all = Len(file)
  <2> SUFFICES ASSUME m < P, all # Len(file) PROVE FALSE
    OBVIOUS
  <2>1. all % P = 0 /\ n + m = all
    BY <1>1, <1>2, <1>3 DEF PageOrEnd, P
  <2>2. m % P = 0
    BY <2>1, <1>1, <1>2, <1>4, WholePages DEF P
  <2>3. m % P = m
    <3>1. m = 0 * P + m
      BY <1>1
    <3> QED BY <3>1, <1>1, DivisionIs
  <2> QED BY <2>2, <2>3, <1>1
<1>7. PageOrEnd(n + c, file)
  <2>1. CASE m < P
    BY <2>1, <1>1, <1>2, <1>6 DEF PageOrEnd
  <2>2. CASE ~(m < P)
    <3>1. P % P = 0
      <4>1. P = 1 * P + 0
        BY <1>1
      <4> QED BY <4>1, <1>1, DivisionIs
    <3>2. (n + P) % P = 0
      BY <3>1, <1>1, <1>2, <1>4, WholePages DEF P
    <3> QED BY <3>2, <2>2 DEF PageOrEnd, P
  <2> QED BY <2>1, <2>2
<1>8. ASSUME NEW i \in 1 .. P PROVE Padded(body)[i] = Fed(file, n + i)
  <2>1. Padded(body)[i] = IF i <= m THEN body[i] ELSE FF
    BY DEF Padded, P, m
  <2>2. CASE i <= m
    BY <2>1, <2>2, <1>1, <1>2, <1>3 DEF Fed
  <2>3. CASE ~(i <= m)
    <3>1. n + i > Len(file)
      BY <2>3, <1>1, <1>2, <1>6
    <3> QED BY <2>1, <2>3, <3>1, <1>1, <1>2 DEF Fed
  <2> QED BY <2>2, <2>3
<1>9. Len(AfterPage(body)) = m - c
  <2>1. Len(AfterPage(body)) = IF P < m THEN m - P ELSE 0
    <3>1. body \in Seq(Cells)
      BY DEF TypeOK
    <3> QED BY <3>1, PageAndRest DEF P, m
  <2>2. CASE m < P
    BY <2>1, <2>2, <1>1
  <2>3. CASE ~(m < P)
    BY <2>1, <2>3, <1>1
  <2> QED BY <2>2, <2>3
<1>10. ASSUME NEW i \in 1 .. (m - c) PROVE AfterPage(body)[i] = body[c + i]
  <2>1. c = P /\ i \in 1 .. (m - P)
    BY <1>1
  <2> QED BY <2>1, PageAndRestCells DEF TypeOK, P, m
<1> HIDE DEF c
<1>11. \A i \in 1 .. P : Padded(body)[i] = Fed(file, n + i)
  BY <1>8
<1>12. \A i \in 1 .. (m - c) : AfterPage(body)[i] = body[c + i]
  BY <1>10
<1> QED BY <1>2, <1>4, <1>5, <1>7, <1>9, <1>11, <1>12 DEF n, m, file, P

\* A page that went to the decoder without an error.
LEMMA PageSteps ==
  ASSUME TypeOK, InSession, WritePage, Sound'
  PROVE  /\ Sound /\ pc = "write" /\ body # <<>> /\ pc' = "write" /\ body' = AfterPage(body)
         /\ UNCHANGED <<main_selector, fw_fullbody_crc32, session, firmware_size>>
         /\ Taken' = Len(fw_fullbody_crc32) - Len(AfterPage(body))
         /\ dec' = WriteStep.dec /\ sfu_real_writer(WriteStep.page)
         /\ WriteStep.page = <<>> \/ Written(WriteStep.page)
         /\ write_addr_real' = IF WriteStep.page = <<>> THEN write_addr_real
                               ELSE write_addr_real + FLASH_PAGE_SIZE
<1>1. /\ pc = "write" /\ body # <<>> /\ dec' = WriteStep.dec /\ sfu_real_writer(WriteStep.page)
      /\ main_update_started' = main_update_started
      /\ UNCHANGED <<main_selector, fw_fullbody_crc32, session, firmware_size>>
      /\ write_error' = (write_error \/ Refused(WriteStep.page))
      /\ ~write_error' => body' = AfterPage(body) /\ pc' = pc
      /\ write_addr_real' = IF Written(WriteStep.page)
                            THEN write_addr_real + FLASH_PAGE_SIZE ELSE write_addr_real
  BY DEF WritePage
<1>2. ~write_error' /\ OneSlotOnly(session'.file)
  BY DEF Sound
<1>3. ~write_error /\ ~Refused(WriteStep.page)
  BY <1>1, <1>2
<1>4. Sound
  BY <1>1, <1>2, <1>3 DEF Sound
<1>5. /\ Written(WriteStep.page) <=> WriteStep.page # <<>>
  BY <1>3 DEF Refused, Written
<1>6. pc' = "write" /\ body' = AfterPage(body)
  BY <1>1, <1>2
<1>7. Taken' = Len(fw_fullbody_crc32) - Len(AfterPage(body))
  BY <1>1, <1>6 DEF Taken
<1> HIDE DEF WriteStep, Written
<1> QED BY <1>1, <1>4, <1>5, <1>6, <1>7

\* A session kept as it is keeps what its invariants are about.
LEMMA KeptSession ==
  ASSUME SessionKept, TypeOK
  PROVE  /\ Sound' => Sound
         /\ Taken' = Taken /\ Done' = Done /\ ErasedSize' = ErasedSize
<1>1. pc' = "write" => body' = body
  BY DEF SessionKept
<1>2. Taken' = Taken
  BY <1>1 DEF SessionKept, Taken
<1> QED BY <1>2 DEF SessionKept, Sound, InSession, Done, ErasedSize

\* The last page of a packet was taken: WRITE is acknowledged.
LEMMA DoneSteps ==
  ASSUME TypeOK, InSession, WriteDone
  PROVE  /\ Sound' => Sound
         /\ Taken' = Taken /\ Done' = Done /\ ErasedSize' = ErasedSize
         /\ pc' = "loop" /\ Taken = Len(fw_fullbody_crc32)
         /\ UNCHANGED <<flash, main_selector, main_update_started, fw_fullbody_crc32,
                        write_addr_real, write_error, dec, session, firmware_size>>
<1>1. /\ pc = "write" /\ body = <<>> /\ pc' = "loop"
      /\ UNCHANGED <<flash, main_selector, main_update_started, fw_fullbody_crc32,
                     write_addr_real, write_error, dec, session, firmware_size>>
  BY DEF WriteDone, flashVars
<1>2. Len(body) = 0 /\ Len(fw_fullbody_crc32) \in Nat
  BY <1>1, EmptySeq, LenProperties DEF TypeOK
<1>3. Taken = Len(fw_fullbody_crc32) /\ Taken' = Len(fw_fullbody_crc32)
  BY <1>1, <1>2 DEF Taken
<1> QED BY <1>1, <1>3 DEF Sound, InSession, Done, ErasedSize

\* Every step keeps PrefixInv: an ERASE begins a file, a WRITE in order takes its next part.
LEMMA NextPrefixInv ==
  TypeOK /\ SessionInv /\ FoldedInv /\ PrefixInv /\ [Next]_vars => PrefixInv'
<1> SUFFICES ASSUME TypeOK, SessionInv, FoldedInv, PrefixInv, [Next]_vars PROVE PrefixInv'
  OBVIOUS
<1>1. ASSUME Erasing' PROVE session'.file = <<>>
  <2>1. sfu_command_erase \/ EraseSign \/ EraseBlock \/ (Erasing /\ UNCHANGED vars)
    BY <1>1, EraseSteps
  <2> QED
    BY <2>1 DEF sfu_command_erase, EraseSign, EraseBlock, vars, PrefixInv, Erasing, TypeOK
<1>2. ASSUME InSession' PROVE fw_fullbody_crc32' = <<>> <=> session'.file = <<>>
  <2>1. CASE OpenSession
    BY <2>1 DEF OpenSession, FoldedInv, PrefixInv, Erasing
  <2>2. CASE SessionKept
    BY <2>2 DEF SessionKept, PrefixInv
  <2>3. CASE InSession /\ sfu_command_write
    <3>1. pos' \in Nat \ {0} /\ Len(fw_fullbody_crc32') = Len(fw_fullbody_crc32) + pos'
      BY <2>3, PacketTaken
    <3>2. Len(fw_fullbody_crc32) \in Nat
      BY LenProperties DEF TypeOK
    <3>3. Len(fw_fullbody_crc32') # 0
      BY <3>1, <3>2
    <3>4. \E skip \in Nat : skip + pos' <= Len(session'.file)
      BY <2>3, PacketTaken
    <3>5. session'.file \in Seq(Cells)
      BY <2>3, PacketTaken
    <3>6. Len(session'.file) # 0
      BY <3>1, <3>4, <3>5, LenProperties
    <3>7. Len(<<>>) = 0
      BY EmptySeq
    <3>8. fw_fullbody_crc32' # <<>>
      BY <3>3, <3>7, Zenon
    <3>9. session'.file # <<>>
      BY <3>6, <3>7, Zenon
    <3> QED BY <3>8, <3>9
  <2>4. CASE InSession /\ (WritePage \/ WriteDone)
    BY <2>4 DEF WritePage, WriteDone, PrefixInv
  <2> QED BY <1>2, <2>1, <2>2, <2>3, <2>4, SessionSteps
<1>3. ASSUME Sound' PROVE Prefix'
  <2>0. InSession'
    BY <1>3 DEF Sound
  <2>1. CASE OpenSession
    <3>1. fw_fullbody_crc32' = <<>> /\ pc' = "loop" /\ session'.file = <<>>
      BY <2>1 DEF OpenSession, FoldedInv, PrefixInv, Erasing
    <3>2. Len(<<>>) = 0
      BY EmptySeq
    <3>3. Taken' = 0
      BY <3>1, <3>2 DEF Taken
    <3> QED BY <3>1, <3>2, <3>3, ZeroPages DEF Prefix, PageOrEnd
  <2>2. CASE SessionKept
    <3>1. Prefix /\ Taken' = Taken
      BY <2>2, <1>3, KeptSession DEF PrefixInv, Prefix
    <3>2. /\ fw_fullbody_crc32' = fw_fullbody_crc32 /\ session'.file = session.file
          /\ pc' = "write" => pc = "write" /\ body' = body
      BY <2>2 DEF SessionKept
    <3> QED BY <3>1, <3>2 DEF Prefix
  <2>3. CASE InSession /\ sfu_command_write
    BY <2>3, <1>3, NextPart
  <2>4. CASE InSession /\ WritePage
    <3>1. /\ Sound /\ pc = "write" /\ body # <<>> /\ body' = AfterPage(body)
          /\ UNCHANGED <<fw_fullbody_crc32, session>>
          /\ Taken' = Len(fw_fullbody_crc32) - Len(AfterPage(body))
      BY <2>4, <1>3, PageSteps
    <3>2. Prefix /\ Taken = Len(fw_fullbody_crc32) - Len(body)
      BY <3>1 DEF PrefixInv, Prefix, Taken
    <3>3. PICK c \in 1 .. FLASH_PAGE_SIZE :
            /\ Len(AfterPage(body)) = Len(body) - c
            /\ PageOrEnd(Taken + c, session.file)
            /\ \A i \in 1 .. (Len(body) - c) : AfterPage(body)[i] = body[c + i]
      BY <3>1, NextPage
    <3>4. /\ Len(body) \in Nat /\ Len(fw_fullbody_crc32) \in Nat /\ c \in Nat
          /\ Taken \in Nat
      BY <3>1, NextPage, LenProperties, PageSize DEF TypeOK
    <3>5. Taken' = Taken + c
      BY <3>1, <3>2, <3>3, <3>4
    <3>6. ASSUME NEW i \in 1 .. Len(body') PROVE body'[i] = session.file[Taken' + i]
      <4>1. i \in 1 .. (Len(body) - c) /\ c + i \in 1 .. Len(body)
        BY <3>1, <3>3, <3>4
      <4>2. body'[i] = session.file[Taken + (c + i)]
        BY <4>1, <3>1, <3>2, <3>3 DEF Prefix
      <4>3. Taken + (c + i) = Taken' + i
        BY <3>4, <3>5
      <4> QED BY <4>2, <4>3
    <3>7. Taken' >= 0 /\ PageOrEnd(Taken', session.file)
      BY <3>3, <3>4, <3>5
    <3> QED BY <3>1, <3>2, <3>6, <3>7 DEF Prefix
  <2>5. CASE InSession /\ WriteDone
    <3>1. /\ Sound /\ Taken' = Taken /\ pc' = "loop"
          /\ UNCHANGED <<fw_fullbody_crc32, session>>
      BY <2>5, <1>3, DoneSteps
    <3>2. Prefix
      BY <3>1 DEF PrefixInv, Prefix
    <3> QED BY <3>1, <3>2 DEF Prefix
  <2> QED BY <2>0, <2>1, <2>2, <2>3, <2>4, <2>5, SessionSteps
<1> QED BY <1>1, <1>2, <1>3 DEF PrefixInv, Prefix

----------------------------------------------------------------------------
(* The decoder and the file *)

\* At power-up no session is open and the decoder stands for none.
LEMMA InitDecoderInv == Init => DecoderInv
BY DEF Init, DecoderInv, Sound, InSession, Erasing

\* The words of DecoderInv behind the first page, n cells of the file being taken.
Decoding(d, done, file, n) ==
  /\ d.inited /\ (d.active <=> Encoded(file))
  /\ ~d.active => ~d.errors /\ d.result = <<>>
  /\ ~d.errors => done + Len(d.result) = DecodedCount(file, n)
  /\ d.active =>
       /\ Len(d.input) = FLASH_PAGE_SIZE - 1
       /\ \A i \in 1 .. (FLASH_PAGE_SIZE - 1) :
            d.input[i] = Fed(file, UpToPage(n) - FLASH_PAGE_SIZE + 1 + i)

\* The first page of a file.
LEMMA FileBegun ==
  ASSUME NEW file, Len(file) \in Nat, Len(file) > 0,
         NEW buf \in PageBuffer, \A i \in 1 .. FLASH_PAGE_SIZE : buf[i] = Fed(file, i),
         NEW c \in 1 .. FLASH_PAGE_SIZE, NEW sel \in BOOLEAN, NEW done \in Nat,
         done = IF bin2page_decode(bin2page_reset, buf, sel).page = <<>>
                THEN 0 ELSE FLASH_PAGE_SIZE
  PROVE  Decoding(bin2page_decode(bin2page_reset, buf, sel).dec, done, file, c)
<1> DEFINE P == FLASH_PAGE_SIZE
           step == bin2page_decode(bin2page_reset, buf, sel)
           d == step.dec
<1>1. P \in Nat /\ P > 1 /\ c \in Nat /\ c > 0 /\ 0 + c = c
  BY PageSize
<1>2. /\ d.inited /\ (d.active <=> buf[1] = MAGIC) /\ ~d.errors /\ d.result = <<>>
      /\ d.active => /\ step.page = <<>> /\ Len(d.input) = P - 1
                     /\ \A i \in 1 .. (P - 1) : d.input[i] = buf[i + 1]
      /\ ~d.active => step.page = buf
  BY FirstPageDecoded
<1>3. buf[1] = file[1]
  BY <1>1 DEF Fed
<1>4. Encoded(file) <=> d.active
  BY <1>2, <1>3 DEF Encoded
<1>5. /\ UpToPage(c) = P
      /\ Encoded(file) => DecodedCount(file, c) = 0
      /\ ~Encoded(file) => DecodedCount(file, c) = P
  <2>1. 0 \in Nat /\ 0 % FLASH_PAGE_SIZE = 0 /\ 0 + P = P
    BY <1>1, ZeroPages
  <2>2. UpToPage(0 + c) = 0 + P
    BY <2>1, PageBegun
  <2>3. /\ Encoded(file) => DecodedCount(file, 0 + c) = 0
        /\ ~Encoded(file) => DecodedCount(file, 0 + c) = 0 + P
    BY <2>1, CountNextPage
  <2> QED BY <2>1, <2>2, <2>3, <1>1
<1>6. buf # <<>> /\ Len(<<>>) = 0
  BY <1>1, EmptySeq DEF PageBuffer
<1> HIDE DEF d, step
<1>7. done + Len(d.result) = DecodedCount(file, c)
  <2>1. done = IF step.page = <<>> THEN 0 ELSE P
    BY DEF step, P
  <2> HIDE DEF P
  <2>2. CASE d.active
    BY <2>1, <2>2, <1>2, <1>4, <1>5, <1>6
  <2>3. CASE ~d.active
    BY <2>1, <2>3, <1>1, <1>2, <1>4, <1>5, <1>6
  <2> QED BY <2>2, <2>3
<1>8. ASSUME d.active, NEW i \in 1 .. (P - 1)
      PROVE  d.input[i] = Fed(file, UpToPage(c) - P + 1 + i)
  <2>1. d.input[i] = buf[i + 1] /\ i + 1 \in 1 .. P
    BY <1>1, <1>2, <1>8
  <2>2. UpToPage(c) - P + 1 + i = i + 1
    BY <1>1, <1>5
  <2> QED BY <2>1, <2>2
<1>9. Decoding(d, done, file, c)
  BY <1>2, <1>4, <1>7, <1>8 DEF Decoding, P
<1> QED BY <1>9 DEF d, step

\* Every other page of the file.
LEMMA FileContinued ==
  ASSUME NEW file, NEW d, Settled(d), NEW done \in Nat,
         NEW n \in Nat, n > 0, n % FLASH_PAGE_SIZE = 0, Decoding(d, done, file, n),
         NEW buf \in PageBuffer,
         \A i \in 1 .. FLASH_PAGE_SIZE : buf[i] = Fed(file, n + i),
         NEW c \in 1 .. FLASH_PAGE_SIZE, NEW sel \in BOOLEAN, NEW done2 \in Nat,
         done2 = IF bin2page_decode(d, buf, sel).page = <<>>
                 THEN done ELSE done + FLASH_PAGE_SIZE
  PROVE  Decoding(bin2page_decode(d, buf, sel).dec, done2, file, n + c)
<1> DEFINE P == FLASH_PAGE_SIZE
           step == bin2page_decode(d, buf, sel)
<1>1. P \in Nat /\ P > 1 /\ c \in Nat /\ c > 0 /\ DataPerBlock = P - 1
  BY PageSize DEF DataPerBlock
<1>2. UpToPage(n + c) = n + P /\ UpToPage(n) = n
  BY PageBegun
<1>3. /\ ~Encoded(file) => DecodedCount(file, n) = n /\ DecodedCount(file, n + c) = n + P
      /\ Encoded(file) => DecodedCount(file, n + c) = DecodedCount(file, n) + (P - 1)
  <2>1. /\ ~Encoded(file) => DecodedCount(file, n) = n /\ DecodedCount(file, n + c) = n + P
        /\ Encoded(file) => DecodedCount(file, n + c) = DecodedCount(file, n) + DataPerBlock
    BY CountNextPage
  <2> QED BY <2>1, <1>1
<1>4. Len(d.result) \in Nat /\ Len(<<>>) = 0 /\ buf # <<>>
  BY <1>1, EmptySeq, LenProperties DEF Settled, DecoderState, PageBuffer
<1>5. CASE ~d.active
  <2>1. step.dec = d /\ step.page = buf
    BY <1>5, NextPageRaw DEF Decoding
  <2>2. ~Encoded(file) /\ ~d.errors /\ d.result = <<>> /\ done + Len(d.result) = n
    BY <1>3, <1>5 DEF Decoding
  <2>3. done2 + Len(d.result) = n + P
    BY <2>1, <2>2, <1>1, <1>4
  <2> HIDE DEF step, P
  <2>4. Decoding(d, done2, file, n + c)
    BY <2>2, <2>3, <1>3, <1>5 DEF Decoding
  <2> QED BY <2>1, <2>4 DEF step
<1>6. CASE d.active
  <2>1. /\ d.inited /\ Encoded(file) /\ Len(d.input) = P - 1
        /\ ~d.errors => done + Len(d.result) = DecodedCount(file, n)
    BY <1>6 DEF Decoding
  <2> DEFINE held == Len(d.result)
  <2>2. /\ step.dec.inited /\ step.dec.active /\ Len(step.dec.input) = P - 1
        /\ \A i \in 1 .. (P - 1) : step.dec.input[i] = buf[i + 1]
        /\ d.errors => step.dec.errors
        /\ ~step.dec.errors =>
             \/ held = 0 /\ step.page = <<>> /\ Len(step.dec.result) = P - 1
             \/ held > 0 /\ step.page # <<>> /\ Len(step.dec.result) = held - 1
    BY <1>6, <2>1, NextPageDecoded
  <2>3. done2 = IF step.page = <<>> THEN done ELSE done + P
    OBVIOUS
  <2> HIDE DEF step, P
  <2>4. ASSUME ~step.dec.errors
        PROVE  done2 + Len(step.dec.result) = DecodedCount(file, n + c)
    <3>1. DecodedCount(file, n + c) = done + held + (P - 1)
      BY <2>1, <2>2, <2>4, <1>3
    <3>2. CASE held = 0 /\ step.page = <<>> /\ Len(step.dec.result) = P - 1
      BY <3>1, <3>2, <2>3, <1>1
    <3>3. CASE held > 0 /\ step.page # <<>> /\ Len(step.dec.result) = held - 1
      BY <3>1, <3>3, <2>3, <1>1, <1>4
    <3> QED BY <2>2, <2>4, <3>2, <3>3
  <2>5. ASSUME NEW i \in 1 .. (P - 1)
        PROVE  step.dec.input[i] = Fed(file, UpToPage(n + c) - P + 1 + i)
    <3>1. i + 1 \in 1 .. P /\ step.dec.input[i] = buf[i + 1]
      BY <2>2, <1>1
    <3>2. buf[i + 1] = Fed(file, n + (i + 1))
      BY <3>1 DEF P
    <3>3. UpToPage(n + c) - P + 1 + i = n + (i + 1)
      BY <1>1, <1>2
    <3> QED BY <3>1, <3>2, <3>3
  <2>6. Decoding(step.dec, done2, file, n + c)
    BY <2>1, <2>2, <2>4, <2>5 DEF Decoding, P
  <2> QED BY <2>6 DEF step
<1> QED BY <1>5, <1>6

\* The address of the writer counts the cells that are written.
LEMMA DoneType ==
  ASSUME TypeOK, SessionInv, InSession
  PROVE  /\ Done \in Nat /\ write_addr_real = MAIN_START_FROM(main_selector) + Done
         /\ MAIN_START_FROM(main_selector) \in Nat /\ Done <= FLASH_SIZE_CORRECT
<1>1. write_addr_real \in MAIN_START_FROM(main_selector) .. MAIN_END(main_selector)
  BY DEF SessionInv, SessionInSlot, InSession, Erasing
<1>2. /\ MAIN_START_FROM(main_selector) \in Nat /\ MAIN_END(main_selector) \in Nat
      /\ FLASH_SIZE_CORRECT \in Nat
  BY LayoutTypes DEF TypeOK
<1> QED BY <1>1, <1>2 DEF Done, MAIN_END

\* Every step keeps DecoderInv: a page of a WRITE is decoded, nothing else touches the decoder.
LEMMA NextDecoderInv ==
  TypeOK /\ SessionInv /\ FoldedInv /\ PrefixInv /\ DecoderInv /\ [Next]_vars => DecoderInv'
<1> SUFFICES ASSUME TypeOK, SessionInv, FoldedInv, PrefixInv, DecoderInv, [Next]_vars
             PROVE  DecoderInv'
  OBVIOUS
<1>1. ASSUME Erasing' PROVE dec' = bin2page_reset
  <2>1. sfu_command_erase \/ EraseSign \/ EraseBlock \/ (Erasing /\ UNCHANGED vars)
    BY <1>1, EraseSteps
  <2> QED
    BY <2>1 DEF sfu_command_erase, EraseSign, EraseBlock, vars, DecoderInv, Erasing
<1> DEFINE Goal == IF Taken = 0 THEN dec = bin2page_reset /\ Done = 0
                   ELSE Decoding(dec, Done, session.file, Taken)
<1>2. ASSUME Sound, ~Erasing PROVE Goal
  BY <1>2 DEF DecoderInv, Decoding
<1>3. ASSUME Sound' PROVE Goal'
  <2>0. InSession'
    BY <1>3 DEF Sound
  <2>s. InSession => ~Erasing
    BY DEF InSession, Erasing
  <2>1. CASE OpenSession
    <3>1. /\ fw_fullbody_crc32' = <<>> /\ pc' = "loop" /\ dec' = bin2page_reset
          /\ write_addr_real' = MAIN_START_FROM(main_selector')
      BY <2>1 DEF OpenSession, FoldedInv, DecoderInv, Erasing
    <3>2. Taken' = 0
      BY <3>1, EmptySeq DEF Taken
    <3>3. Done' = 0
      <4>1. MAIN_START_FROM(main_selector) \in Nat /\ main_selector' = main_selector
        BY <2>1, LayoutTypes DEF OpenSession, TypeOK
      <4> QED BY <3>1, <4>1 DEF Done
    <3> QED BY <3>1, <3>2, <3>3
  <2>2. CASE SessionKept
    <3>1. Sound /\ Taken' = Taken /\ Done' = Done /\ ~Erasing
      BY <2>2, <2>s, <1>3, KeptSession DEF SessionKept
    <3>2. dec' = dec /\ session'.file = session.file
      BY <2>2 DEF SessionKept
    <3> QED BY <3>1, <3>2, <1>2
  <2>3. CASE InSession /\ sfu_command_write
    <3>1. Sound /\ Taken' = Taken /\ ~Erasing
      BY <2>3, <2>s, <1>3, NextPart
    <3>2. dec' = dec /\ Done' = Done
      BY <2>3 DEF sfu_command_write, Done, addrVars
    <3>3. Taken # 0 => session'.file = session.file
      <4>1. fw_fullbody_crc32 = <<>> => Taken = 0
        BY <2>3, <1>3, NextPart, EmptySeq
      <4> QED BY <4>1, <2>3, <1>3, NextPart
    <3> QED BY <3>1, <3>2, <3>3, <1>2
  <2>4. CASE InSession /\ WritePage
    <3>1. /\ Sound /\ pc = "write" /\ body # <<>>
          /\ Taken' = Len(fw_fullbody_crc32) - Len(AfterPage(body))
          /\ dec' = WriteStep.dec /\ session'.file = session.file
          /\ main_selector' = main_selector
          /\ write_addr_real' = IF WriteStep.page = <<>> THEN write_addr_real
                                ELSE write_addr_real + FLASH_PAGE_SIZE
      BY <2>4, <1>3, PageSteps
    <3> DEFINE file == session.file
               buf == Padded(body)
               n == Taken
    <3>2. /\ n \in Nat /\ n % FLASH_PAGE_SIZE = 0 /\ Len(file) > 0
          /\ \A i \in 1 .. FLASH_PAGE_SIZE : buf[i] = Fed(file, n + i)
      BY <3>1, NextPage
    <3>3. PICK c \in 1 .. FLASH_PAGE_SIZE : Len(AfterPage(body)) = Len(body) - c
      BY <3>1, NextPage
    <3>4. Taken' = n + c
      <4>1. Len(body) \in Nat /\ Len(fw_fullbody_crc32) \in Nat /\ c \in Nat
        BY LenProperties, PageSize DEF TypeOK
      <4>2. n = Len(fw_fullbody_crc32) - Len(body)
        BY <3>1 DEF Taken
      <4> QED BY <4>1, <4>2, <3>1, <3>3
    <3>5. /\ Settled(dec) /\ buf \in PageBuffer /\ main_selector \in BOOLEAN
          /\ Len(file) \in Nat
      BY DecoderSteps, PaddedIsPage, LenProperties DEF TypeOK
    <3>6. /\ Done \in Nat
          /\ Done' = IF WriteStep.page = <<>> THEN Done ELSE Done + FLASH_PAGE_SIZE
          /\ Done' \in Nat
      <4>1. /\ Done \in Nat /\ write_addr_real = MAIN_START_FROM(main_selector) + Done
            /\ MAIN_START_FROM(main_selector) \in Nat
        BY <2>4, DoneType
      <4>2. Done' = write_addr_real' - MAIN_START_FROM(main_selector)
        BY <3>1 DEF Done
      <4>3. CASE WriteStep.page = <<>>
        <5>1. write_addr_real' = write_addr_real
          BY <4>3, <3>1
        <5>2. Done' = Done
          BY <5>1, <4>1, <4>2
        <5> QED BY <5>2, <4>1, <4>3
      <4>4. CASE WriteStep.page # <<>>
        <5>1. write_addr_real' = write_addr_real + FLASH_PAGE_SIZE
          BY <4>4, <3>1
        <5>2. Done' = Done + FLASH_PAGE_SIZE
          BY <5>1, <4>1, <4>2, PageSize
        <5> QED BY <5>2, <4>1, <4>4, PageSize
      <4> QED BY <4>3, <4>4
    <3>7. WriteStep = bin2page_decode(dec, buf, main_selector)
      BY DEF WriteStep
    <3>8. n + c # 0
      BY <3>2, PageSize
    <3>9. Goal
      BY <3>1, <2>4, <2>s, <1>2
    <3> HIDE DEF buf, file
    <3>10. CASE n = 0
      <4>1. /\ dec = bin2page_reset /\ Done = 0
            /\ \A i \in 1 .. FLASH_PAGE_SIZE : buf[i] = Fed(file, i)
        <5>1. \A i \in 1 .. FLASH_PAGE_SIZE : 0 + i = i
          BY PageSize
        <5> QED BY <5>1, <3>2, <3>9, <3>10
      <4>2. /\ Done' = IF bin2page_decode(bin2page_reset, buf, main_selector).page = <<>>
                       THEN 0 ELSE FLASH_PAGE_SIZE
            /\ dec' = bin2page_decode(bin2page_reset, buf, main_selector).dec
        BY <4>1, <3>1, <3>6, <3>7, PageSize
      <4>3. Decoding(dec', Done', file, c)
        BY <4>1, <4>2, <3>2, <3>5, <3>6, FileBegun
      <4>4. n + c = c
        BY <3>10, PageSize
      <4> QED BY <4>3, <4>4, <3>1, <3>4, <3>8 DEF file
    <3>11. CASE n # 0
      <4>1. Decoding(dec, Done, file, n) /\ n > 0
        BY <3>2, <3>9, <3>11 DEF file
      <4>2. Decoding(dec', Done', file, n + c)
        BY <4>1, <3>1, <3>2, <3>5, <3>6, <3>7, FileContinued
      <4> QED BY <4>2, <3>1, <3>4, <3>8 DEF file
    <3> QED BY <3>10, <3>11
  <2>5. CASE InSession /\ WriteDone
    <3>1. Sound /\ Taken' = Taken /\ Done' = Done /\ ~Erasing /\ UNCHANGED <<dec, session>>
      BY <2>5, <2>s, <1>3, DoneSteps
    <3> QED BY <3>1, <1>2
  <2> QED BY <2>0, <2>1, <2>2, <2>3, <2>4, <2>5, SessionSteps
<1> QED BY <1>1, <1>3 DEF DecoderInv, Decoding

----------------------------------------------------------------------------
(* The erased cells ahead of the writer *)

\* The erase loop ends behind the blocks that hold the announced size.
LEMMA EraseCoversSize ==
  ASSUME firmware_size \in Nat, NEW k \in Nat, k * FLASH_BLOCK_SIZE >= firmware_size
  PROVE  ErasedSize \in Nat /\ ErasedSize <= k * FLASH_BLOCK_SIZE
<1> DEFINE B == FLASH_BLOCK_SIZE
           f == firmware_size
           q == (f + B - 1) \div B
<1>1. B \in Nat /\ B > 0 /\ f \in Nat /\ f + B - 1 \in Nat
  BY LayoutTypes
<1>2. q \in Nat /\ f + B - 1 = q * B + ((f + B - 1) % B) /\ (f + B - 1) % B \in Nat
  BY <1>1, Division
<1> HIDE DEF q, f, B
<1>3. q * B <= f + B - 1 /\ f <= k * B
  BY <1>1, <1>2 DEF B, f
<1>4. (k + 1) * B = k * B + B
  BY <1>1
<1>5. q * B < (k + 1) * B
  <2>1. k * B \in Nat /\ q * B \in Nat
    BY <1>1, <1>2
  <2> QED BY <2>1, <1>1, <1>3, <1>4
<1>6. q <= k
  <2> SUFFICES ASSUME q >= k + 1 PROVE FALSE
    BY <1>2
  <2>1. PICK j \in Nat : q = (k + 1) + j
    <3>1. q - (k + 1) \in Nat /\ q = (k + 1) + (q - (k + 1))
      BY <1>2
    <3> QED BY <3>1
  <2>2. q * B = (k + 1) * B + j * B /\ j * B >= 0
    BY <2>1, <1>1
  <2>3. (k + 1) * B \in Nat /\ j * B \in Nat
    BY <2>1, <1>1
  <2> QED BY <2>2, <2>3, <1>5
<1>7. PICK i \in Nat : k = q + i
  <2>1. k - q \in Nat /\ k = q + (k - q)
    BY <1>2, <1>6
  <2> QED BY <2>1
<1>8. k * B = q * B + i * B /\ i * B \in Nat /\ q * B \in Nat
  BY <1>1, <1>2, <1>7
<1>9. q * B <= k * B
  BY <1>8
<1> QED BY <1>8, <1>9 DEF q, f, B, ErasedSize

\* What is erased is a number of cells.
LEMMA ErasedSizeType ==
  ASSUME firmware_size \in Nat
  PROVE  ErasedSize \in Nat
<1>1. FLASH_BLOCK_SIZE \in Nat /\ FLASH_BLOCK_SIZE > 0
  BY LayoutTypes
<1>2. firmware_size + FLASH_BLOCK_SIZE - 1 \in Nat
  BY <1>1
<1>3. (firmware_size + FLASH_BLOCK_SIZE - 1) \div FLASH_BLOCK_SIZE \in Nat
  BY <1>1, <1>2, Division
<1> QED BY <1>1, <1>3 DEF ErasedSize

\* At power-up no session is open.
LEMMA InitErasedInv == Init => ErasedInv
BY DEF Init, ErasedInv, InSession

\* A step of the writer programs the page at its address and goes on behind it.
LEMMA WriterGoesOn ==
  ASSUME TypeOK, SessionInv, InSession, NEW page \in PageBuffer, Written(page),
         sfu_real_writer(page)
  PROVE  /\ \A a \in FlashAddr : a \notin PageRange(write_addr_real) => flash'[a] = flash[a]
         /\ \A i \in 1 .. FLASH_PAGE_SIZE :
              LET a == write_addr_real + i - 1
              IN  /\ a \in Body(main_selector)
                  /\ flash'[a] = ProgramCell(flash[a], page[i])
         /\ Done + FLASH_PAGE_SIZE <= FLASH_SIZE_CORRECT
<1>1. flash' = Programmed(write_addr_real, page)
  BY DEF sfu_real_writer
<1>2. /\ PageRange(write_addr_real) \subseteq Body(main_selector)
      /\ write_addr_real + FLASH_PAGE_SIZE <= MAIN_END(main_selector)
  <2>1. /\ SessionInSlot /\ ~Erasing /\ main_selector \in BOOLEAN
        /\ MAIN_START_FROM(main_selector) \in Nat /\ MAIN_END(main_selector) \in Nat
    BY LayoutTypes DEF SessionInv, InSession, Erasing, TypeOK
  <2>2. /\ PageRange(write_addr_real) \subseteq Body(main_selector)
        /\ write_addr_real + FLASH_PAGE_SIZE
              \in MAIN_START_FROM(main_selector) .. MAIN_END(main_selector)
    BY <2>1, WriterInSlot
  <2> QED BY <2>1, <2>2
<1>3. Body(main_selector) \subseteq FlashAddr
  BY SlotsApart DEF TypeOK
<1>4. /\ write_addr_real \in Nat /\ MAIN_START_FROM(main_selector) \in Nat
      /\ FLASH_SIZE_CORRECT \in Nat
  BY LayoutTypes DEF TypeOK
<1>5. ASSUME NEW i \in 1 .. FLASH_PAGE_SIZE
      PROVE  LET a == write_addr_real + i - 1
             IN  a \in Body(main_selector) /\ flash'[a] = ProgramCell(flash[a], page[i])
  <2> DEFINE a == write_addr_real + i - 1
  <2>1. a \in PageRange(write_addr_real) /\ a - write_addr_real + 1 = i
    BY <1>4, PageSize DEF PageRange
  <2> HIDE DEF a
  <2>2. a \in FlashAddr /\ a \in Body(main_selector)
    BY <2>1, <1>2, <1>3
  <2>3. flash'[a] = ProgramCell(flash[a], page[a - write_addr_real + 1])
    BY <2>1, <2>2, <1>1 DEF Programmed
  <2>4. flash'[a] = ProgramCell(flash[a], page[i])
    BY <2>1, <2>3
  <2> QED BY <2>2, <2>4 DEF a
<1>6. Done + FLASH_PAGE_SIZE <= FLASH_SIZE_CORRECT
  BY <1>2, <1>4, PageSize DEF Done, MAIN_END
<1>7. \A a \in FlashAddr : a \notin PageRange(write_addr_real) => flash'[a] = flash[a]
  BY <1>1 DEF Programmed
<1> QED BY <1>5, <1>6, <1>7

\* Every step keeps ErasedInv: the writer goes on behind what it has programmed.
LEMMA NextErasedInv ==
  TypeOK /\ SessionInv /\ FoldedInv /\ ErasedInv /\ [Next]_vars => ErasedInv'
<1> SUFFICES ASSUME TypeOK, SessionInv, FoldedInv, ErasedInv, [Next]_vars PROVE ErasedInv'
  OBVIOUS
<1> DEFINE start == MAIN_START_FROM(main_selector)
<1>t. /\ start \in Nat /\ main_selector \in BOOLEAN /\ pos \in Nat /\ firmware_size \in Nat
      /\ write_addr_real \in Nat /\ Body(main_selector) \subseteq FlashAddr
      /\ \A a \in Body(main_selector) : a \in Int /\ start <= a
  BY LayoutTypes, SlotsApart DEF TypeOK, Body
<1>1. ASSUME pc' = "erase_blocks", NEW a \in Body(main_selector'), a < start' + pos'
      PROVE  flash'[a] = FF
  <2>1. sfu_command_erase \/ EraseSign \/ EraseBlock \/ (Erasing /\ UNCHANGED vars)
    BY <1>1, EraseSteps DEF Erasing
  <2>2. CASE sfu_command_erase
    BY <2>2, <1>1 DEF sfu_command_erase
  <2>3. CASE EraseSign
    <3>1. main_selector' = main_selector /\ pos' = 0
      BY <2>3 DEF EraseSign
    <3> QED BY <3>1, <1>1, <1>t
  <2>4. CASE EraseBlock
    <3>1. /\ main_selector' = main_selector /\ flash' = BlockErased(pos)
          /\ pos' = pos + FLASH_BLOCK_SIZE /\ pc = "erase_blocks"
      BY <2>4 DEF EraseBlock
    <3>2. a \in FlashAddr /\ a \in Int /\ start <= a /\ a \in Body(main_selector)
      BY <3>1, <1>t
    <3>3. CASE a \in EraseRange(main_selector, pos)
      BY <3>1, <3>2, <3>3 DEF BlockErased
    <3>4. CASE a \notin EraseRange(main_selector, pos)
      <4>1. flash'[a] = flash[a]
        BY <3>1, <3>2, <3>4 DEF BlockErased
      <4>2. a < start + pos
        BY <3>1, <3>2, <3>4, <1>1, <1>t, LayoutTypes DEF EraseRange
      <4> QED BY <4>1, <4>2, <3>1, <3>2 DEF ErasedInv
    <3> QED BY <3>3, <3>4
  <2>5. CASE Erasing /\ UNCHANGED vars
    BY <2>5, <1>1 DEF vars, flashVars, localVars, ErasedInv
  <2> QED BY <2>1, <2>2, <2>3, <2>4, <2>5
<1>2. ASSUME InSession', NEW a \in Body(main_selector'),
             write_addr_real' <= a, a < start' + ErasedSize'
      PROVE  flash'[a] = FF
  <2>1. CASE OpenSession
    <3>1. /\ pc = "erase_blocks" /\ pos >= firmware_size
          /\ UNCHANGED <<flash, main_selector, firmware_size>>
      BY <2>1 DEF OpenSession, flashVars
    <3>2. PICK k \in 0 .. pos : pos = k * FLASH_BLOCK_SIZE
      BY <3>1 DEF SessionInv
    <3>3. ErasedSize \in Nat /\ ErasedSize <= pos /\ ErasedSize' = ErasedSize
      BY <3>1, <3>2, <1>t, EraseCoversSize DEF ErasedSize
    <3>4. a \in Body(main_selector) /\ a < start + pos
      BY <3>1, <3>3, <1>2, <1>t
    <3> QED BY <3>1, <3>4 DEF ErasedInv
  <2>2. CASE SessionKept
    BY <2>2, <1>2 DEF SessionKept, ErasedInv, ErasedSize
  <2>3. CASE InSession /\ sfu_command_write
    <3>1. UNCHANGED <<flash, main_selector, firmware_size, write_addr_real>>
      BY <2>3 DEF sfu_command_write, flashVars, addrVars
    <3> QED BY <3>1, <2>3, <1>2 DEF ErasedInv, ErasedSize
  <2>4. CASE InSession /\ WritePage
    <3>1. /\ UNCHANGED <<main_selector, firmware_size>> /\ sfu_real_writer(WriteStep.page)
          /\ write_addr_real' = IF Written(WriteStep.page)
                                THEN write_addr_real + FLASH_PAGE_SIZE ELSE write_addr_real
          /\ ErasedSize' = ErasedSize
      BY <2>4 DEF WritePage, ErasedSize
    <3> HIDE DEF WriteStep
    <3>2. CASE Written(WriteStep.page)
      <4>1. WriteStep.page \in PageBuffer
        BY <3>2, DecoderSteps DEF Written
      <4>2. /\ write_addr_real' = write_addr_real + FLASH_PAGE_SIZE
            /\ a \in Body(main_selector) /\ a \in FlashAddr /\ a \in Int
        BY <3>1, <3>2, <1>2, <1>t
      <4>3. a \notin PageRange(write_addr_real) /\ write_addr_real <= a
        BY <4>2, <1>2, <1>t, PageSize DEF PageRange
      <4>4. flash'[a] = flash[a]
        BY <4>1, <4>2, <4>3, <2>4, <3>1, <3>2, WriterGoesOn
      <4> QED BY <4>2, <4>3, <4>4, <2>4, <3>1, <1>2 DEF ErasedInv
    <3>3. CASE ~Written(WriteStep.page)
      <4>1. flash' = flash /\ write_addr_real' = write_addr_real
        BY <3>1, <3>3 DEF sfu_real_writer
      <4> QED BY <4>1, <3>1, <2>4, <1>2 DEF ErasedInv
    <3> QED BY <3>2, <3>3
  <2>5. CASE InSession /\ WriteDone
    <3>1. UNCHANGED <<flash, main_selector, firmware_size, write_addr_real>>
      BY <2>5 DEF WriteDone, flashVars
    <3> QED BY <3>1, <2>5, <1>2 DEF ErasedInv, ErasedSize
  <2> QED BY <1>2, <2>1, <2>2, <2>3, <2>4, <2>5, SessionSteps
<1> QED BY <1>1, <1>2 DEF ErasedInv

----------------------------------------------------------------------------
(* The image in the slot *)

(***************************************************************************)
(* What is in result_buffer when a page has completed a block: the cells   *)
(* of the image that come next.                                            *)
(***************************************************************************)
LEMMA BufferImage ==
  ASSUME NEW file, NEW d, Settled(d), NEW done \in Nat,
         NEW n \in Nat, n > 0, n % FLASH_PAGE_SIZE = 0, Decoding(d, done, file, n),
         Encoded(file), ~d.errors, NEW sel \in BOOLEAN,
         NEW buf, \A i \in 1 .. FLASH_PAGE_SIZE : buf[i] = Fed(file, n + i),
         \A i \in 1 .. Len(d.result) : d.result[i] = FileCell(file, sel, done + i),
         NEW j \in 1 .. (Len(d.result) + (FLASH_PAGE_SIZE - 1))
  PROVE  BufferCell(d, buf, sel, j) = FileCell(file, sel, done + j)
<1> DEFINE P == FLASH_PAGE_SIZE
           held == Len(d.result)
           D == DataPerBlock
           q == n \div P - 1
           i == j - held
<1>1. P \in Nat /\ P > 1 /\ D = P - 1 /\ held \in Nat /\ j \in Int
  BY PageSize, LenProperties DEF DataPerBlock, Settled, DecoderState
<1>2. /\ q \in Nat /\ DecodedCount(file, n) = q * D /\ done + held = q * D
  BY CountNextPage, PageSize DEF Decoding
<1>3. n = (q + 1) * P /\ UpToPage(n) = n
  <2>1. n = (n \div P) * P /\ n \div P \in Nat /\ UpToPage(n) = n
    BY PageBegun, PageSize
  <2>2. n \div P = q + 1
    BY <2>1
  <2> QED BY <2>1, <2>2
<1>4. d.active /\ \A k \in 1 .. (P - 1) : d.input[k] = Fed(file, n - P + 1 + k)
  BY <1>3 DEF Decoding
<1> HIDE DEF q, D, P
<1>5. CASE j <= held
  BY <1>5, <1>1 DEF BufferCell
<1>6. CASE j > held
  <2>1. i \in 1 .. D /\ i \in 1 .. (P - 1) /\ BufferCell(d, buf, sel, j) = DataCell(d.input, buf, sel, i)
    BY <1>1, <1>6 DEF BufferCell, P
  <2> HIDE DEF i
  <2>2. (q + 1) * P = q * P + P /\ q * P \in Nat
    BY <1>1, <1>2
  <2>3. (IF i < P - 1 THEN d.input[i + 1] ELSE buf[1]) = Fed(file, q * P + 2 + i)
    <3>1. CASE i < P - 1
      <4>1. i + 1 \in 1 .. (P - 1)
        BY <2>1, <3>1, <1>1
      <4>2. n - P + 1 + (i + 1) = q * P + 2 + i
        BY <2>1, <2>2, <1>1, <1>3
      <4> QED BY <4>1, <4>2, <3>1, <1>4
    <3>2. CASE ~(i < P - 1)
      <4>1. n + 1 = q * P + 2 + i
        BY <2>1, <2>2, <3>2, <1>1, <1>3
      <4>2. buf[1] = Fed(file, n + 1)
        BY <1>1 DEF P
      <4> QED BY <4>1, <4>2, <3>2
    <3> QED BY <3>1, <3>2
  <2>4. DataCell(d.input, buf, sel, i) = Shifted(Fed(file, q * P + 2 + i), sel)
    BY <2>3 DEF DataCell, P
  <2>5. FileCell(file, sel, q * D + i) = Shifted(Fed(file, q * P + 2 + i), sel)
    BY <2>1, <1>2, BlockImage DEF D, P
  <2>6. done + j = q * D + i
    <3>1. i = j - held
      BY DEF i
    <3> HIDE DEF held
    <3>2. j = held + i /\ held \in Nat /\ i \in Int
      BY <3>1, <1>1
    <3>3. done + j = (done + held) + i
      BY <3>2
    <3> QED BY <3>3, <1>2
  <2> QED BY <2>1, <2>4, <2>5, <2>6
<1> QED BY <1>5, <1>6, <1>1

\* The words of ImageInv, for a decoder and a writer that stand at done.
HeldImage(d, done, file, sel) ==
  \A i \in 1 .. Len(d.result) : d.result[i] = FileCell(file, sel, done + i)
PageImage(page, done, file, sel) ==
  \A i \in 1 .. FLASH_PAGE_SIZE : page[i] = FileCell(file, sel, done + i)

\* The page that is handed on, if there is one, holds the next cells of the image,
\* and what is held back the ones behind them.
LEMMA PageIsImage ==
  ASSUME NEW file, Len(file) \in Nat, Len(file) > 0, NEW d, Settled(d), NEW done \in Nat,
         NEW n \in Nat, n % FLASH_PAGE_SIZE = 0,
         IF n = 0 THEN d = bin2page_reset /\ done = 0 ELSE Decoding(d, done, file, n),
         NEW buf \in PageBuffer, \A i \in 1 .. FLASH_PAGE_SIZE : buf[i] = Fed(file, n + i),
         NEW sel \in BOOLEAN, HeldImage(d, done, file, sel),
         ~bin2page_decode(d, buf, sel).dec.errors
  PROVE  LET step == bin2page_decode(d, buf, sel)
         IN  /\ ~d.errors
             /\ step.page # <<>> => PageImage(step.page, done, file, sel)
             /\ HeldImage(step.dec, IF step.page = <<>> THEN done ELSE done + FLASH_PAGE_SIZE,
                          file, sel)
<1> DEFINE P == FLASH_PAGE_SIZE
           step == bin2page_decode(d, buf, sel)
           held == Len(d.result)
<1>1. P \in Nat /\ P > 1 /\ Len(<<>>) = 0 /\ held \in Nat
  BY PageSize, EmptySeq, LenProperties DEF Settled, DecoderState
<1>n. \A i \in 1 .. P : 0 + i = i
  BY <1>1
<1>b. buf # <<>>
  <2>1. Len(buf) # 0
    BY <1>1 DEF PageBuffer
  <2> QED BY <2>1, <1>1, Zenon
<1>2. CASE n = 0
  <2>1. d = bin2page_reset /\ done = 0 /\ \A i \in 1 .. P : buf[i] = Fed(file, i)
    BY <1>2, <1>n
  <2>2. /\ (step.dec.active <=> buf[1] = MAGIC) /\ step.dec.result = <<>>
        /\ step.dec.active => step.page = <<>>
        /\ ~step.dec.active => step.page = buf
    BY <2>1, FirstPageDecoded
  <2>3. ~d.errors
    BY <2>1 DEF bin2page_reset
  <2> HIDE DEF step
  <2>4. \A at : HeldImage(step.dec, at, file, sel)
    BY <2>2, <1>1 DEF HeldImage
  <2>5. ASSUME step.page # <<>> PROVE PageImage(step.page, done, file, sel)
    <3>1. step.page = buf /\ buf[1] # MAGIC
      BY <2>2, <2>5
    <3>2. buf[1] = file[1]
      BY <2>1, <1>1 DEF Fed
    <3>3. ~Encoded(file)
      BY <3>1, <3>2 DEF Encoded
    <3>4. \A i \in 1 .. P : buf[i] = FileCell(file, sel, 0 + i)
      BY <2>1, <3>3, <1>n, RawImage
    <3> QED BY <3>1, <3>4, <2>1 DEF PageImage, P
  <2> QED BY <2>3, <2>4, <2>5 DEF step
<1>3. CASE n # 0 /\ ~Encoded(file)
  <2>1. d.inited /\ ~d.active /\ ~d.errors /\ d.result = <<>> /\ done = n
    <3>1. /\ d.inited /\ ~d.active /\ ~d.errors /\ d.result = <<>>
          /\ done + Len(d.result) = DecodedCount(file, n)
      BY <1>3 DEF Decoding
    <3>2. DecodedCount(file, n) = n
      BY <1>3, CountNextPage, PageSize
    <3>3. held = 0
      BY <3>1, <1>1
    <3> QED BY <3>1, <3>2, <3>3
  <2>2. step.dec = d /\ step.page = buf
    BY <2>1, NextPageRaw
  <2> HIDE DEF step
  <2>3. PageImage(step.page, done, file, sel)
    BY <2>1, <2>2, <1>3, RawImage DEF PageImage
  <2>4. \A at : HeldImage(step.dec, at, file, sel)
    BY <2>1, <2>2, <1>1 DEF HeldImage
  <2> QED BY <2>1, <2>3, <2>4 DEF step
<1>4. CASE n # 0 /\ Encoded(file)
  <2>1. Decoding(d, done, file, n) /\ n > 0
    BY <1>4
  <2>2. d.inited /\ d.active /\ Len(d.input) = P - 1
    BY <2>1, <1>4 DEF Decoding
  <2>3. /\ d.errors => step.dec.errors
        /\ ~step.dec.errors =>
             \/ /\ held = 0 /\ step.page = <<>> /\ Len(step.dec.result) = P - 1
                /\ \A i \in 1 .. (P - 1) : step.dec.result[i] = BufferCell(d, buf, sel, i)
             \/ /\ held > 0 /\ step.page # <<>> /\ Len(step.dec.result) = held - 1
                /\ \A i \in 1 .. P : step.page[i] = BufferCell(d, buf, sel, i)
                /\ \A i \in 1 .. (held - 1) :
                     step.dec.result[i] = BufferCell(d, buf, sel, P + i)
    BY <2>2, NextPageDecoded
  <2>4. ~d.errors
    BY <2>3
  <2>5. \A j \in 1 .. (held + (P - 1)) : BufferCell(d, buf, sel, j) = FileCell(file, sel, done + j)
    <3> SUFFICES ASSUME NEW j \in 1 .. (held + (P - 1))
                 PROVE  BufferCell(d, buf, sel, j) = FileCell(file, sel, done + j)
      OBVIOUS
    <3>1. \A i \in 1 .. Len(d.result) : d.result[i] = FileCell(file, sel, done + i)
      BY DEF HeldImage
    <3>2. /\ Settled(d) /\ n % FLASH_PAGE_SIZE = 0 /\ Decoding(d, done, file, n) /\ Encoded(file)
          /\ done \in Nat /\ n \in Nat /\ n > 0 /\ ~d.errors
          /\ \A i \in 1 .. FLASH_PAGE_SIZE : buf[i] = Fed(file, n + i)
      BY <2>1, <2>4, <1>4
    <3>3. j \in 1 .. (Len(d.result) + (FLASH_PAGE_SIZE - 1)) /\ sel \in BOOLEAN
      OBVIOUS
    <3> HIDE DEF step, P, held
    <3> QED BY <3>1, <3>2, <3>3, BufferImage, SMTT(60)
  <2>6. ~step.dec.errors
    OBVIOUS
  <2> HIDE DEF step, P, held
  <2>7. CASE /\ held = 0 /\ step.page = <<>> /\ Len(step.dec.result) = P - 1
             /\ \A i \in 1 .. (P - 1) : step.dec.result[i] = BufferCell(d, buf, sel, i)
    <3>1. held + (P - 1) = P - 1
      BY <2>7, <1>1
    <3>2. HeldImage(step.dec, done, file, sel)
      BY <3>1, <2>5, <2>7 DEF HeldImage
    <3> QED BY <3>2, <2>4, <2>7 DEF step
  <2>8. CASE /\ held > 0 /\ step.page # <<>> /\ Len(step.dec.result) = held - 1
             /\ \A i \in 1 .. P : step.page[i] = BufferCell(d, buf, sel, i)
             /\ \A i \in 1 .. (held - 1) : step.dec.result[i] = BufferCell(d, buf, sel, P + i)
    <3>1. ASSUME NEW i \in 1 .. P PROVE step.page[i] = FileCell(file, sel, done + i)
      <4>1. i \in 1 .. (held + (P - 1))
        BY <2>8, <1>1
      <4> QED BY <4>1, <2>5, <2>8
    <3>2. ASSUME NEW i \in 1 .. (held - 1)
          PROVE  step.dec.result[i] = FileCell(file, sel, (done + P) + i)
      <4>1. P + i \in 1 .. (held + (P - 1)) /\ done + (P + i) = (done + P) + i
        BY <2>8, <1>1
      <4>2. step.dec.result[i] = BufferCell(d, buf, sel, P + i)
        BY <2>8
      <4>3. BufferCell(d, buf, sel, P + i) = FileCell(file, sel, done + (P + i))
        BY <4>1, <2>5
      <4> QED BY <4>1, <4>2, <4>3
    <3>3. PageImage(step.page, done, file, sel) /\ HeldImage(step.dec, done + P, file, sel)
      BY <3>1, <3>2, <2>8 DEF PageImage, HeldImage, P
    <3> QED BY <3>3, <2>4, <2>8 DEF step, P
  <2> QED BY <2>3, <2>6, <2>7, <2>8
<1> QED BY <1>2, <1>3, <1>4

\* The file's cells that were taken give the image its first cells for good.
LEMMA ImageCellKnown ==
  ASSUME NEW file, Len(file) \in Nat, NEW n \in 0 .. Len(file), PageOrEnd(n, file),
         NEW sel \in BOOLEAN, NEW j \in 1 .. DecodedCount(file, n)
  PROVE  ImageCell(file, n, sel, j) = FileCell(file, sel, j)
<1> DEFINE P == FLASH_PAGE_SIZE
           D == DataPerBlock
           q == n \div P - 1
           b == (j - 1) \div D
           r == (j - 1) % D
           at == 3 + P * b + r
<1>1. CASE n = Len(file)
  BY <1>1 DEF FileCell
<1>2. CASE n # Len(file)
  <2>1. n \in Nat /\ n % P = 0
    BY <1>2 DEF PageOrEnd
  <2>2. P \in Nat /\ P > 1 /\ D = P - 1 /\ 1 \in 1 .. P
    BY PageSize DEF DataPerBlock
  <2>3. CASE ~Encoded(file)
    <3>1. DecodedCount(file, n) = n
      BY <2>1, <2>2, <2>3, CountNextPage
    <3>2. j <= n /\ j <= Len(file)
      BY <3>1, <2>1
    <3> QED BY <3>2, <2>3 DEF FileCell, ImageCell
  <2>4. CASE Encoded(file)
    <3>1. n # 0
      <4> SUFFICES ASSUME n = 0 PROVE FALSE
        OBVIOUS
      <4>1. DecodedCount(file, n) = 0
        BY <2>1, <2>2, <2>4, CountNextPage
      <4> QED BY <4>1
    <3>2. q \in Nat /\ DecodedCount(file, n) = q * D
      BY <2>1, <2>2, <2>4, <3>1, CountNextPage
    <3>3. n = (q + 1) * P
      <4>1. n = (n \div P) * P /\ n \div P \in Nat
        BY <2>1, <2>2, PageBegun
      <4>2. n \div P = q + 1
        BY <4>1
      <4> QED BY <4>1, <4>2
    <3> HIDE DEF q
    <3>4. q * D \in Nat /\ j \in Nat /\ j - 1 \in Nat /\ j - 1 < q * D
      <4>1. q * D \in Nat
        BY <2>2, <3>2
      <4> QED BY <4>1, <3>2
    <3>5. b \in Nat /\ r \in Nat /\ r < D /\ j - 1 = b * D + r
      <4>1. D \in Nat /\ D > 0
        BY <2>2
      <4> QED BY <3>4, <4>1, Division
    <3> HIDE DEF b, r, D
    <3>6. b < q
      <4> SUFFICES ASSUME b >= q PROVE FALSE
        BY <3>2, <3>5
      <4>1. PICK k \in Nat : b = q + k
        <5>1. b - q \in Nat /\ b = q + (b - q)
          BY <3>2, <3>5
        <5> QED BY <5>1
      <4>2. b * D = q * D + k * D /\ k * D \in Nat
        BY <4>1, <2>2, <3>2
      <4> QED BY <4>2, <3>4, <3>5
    <3>7. at <= n
      <4>1. PICK k \in Nat : q = b + 1 + k
        <5>1. q - (b + 1) \in Nat /\ q = b + 1 + (q - (b + 1))
          BY <3>2, <3>5, <3>6
        <5> QED BY <5>1
      <4>2. (q + 1) * P = P * b + 2 * P + k * P /\ k * P \in Nat /\ P * b \in Nat
        BY <4>1, <2>2, <3>5
      <4>3. n = P * b + 2 * P + k * P
        BY <4>2, <3>3
      <4>4. P * b + 3 + r <= P * b + 2 * P + k * P
        BY <4>2, <2>2, <3>5
      <4> QED BY <4>2, <4>3, <4>4, <3>5
    <3>8. at <= Len(file)
      BY <3>7, <2>1, <2>2, <3>5
    <3>9. /\ ImageCell(file, n, sel, j) = Shifted(IF at <= n THEN file[at] ELSE FF, sel)
          /\ FileCell(file, sel, j) = Shifted(IF at <= Len(file) THEN file[at] ELSE FF, sel)
      BY <2>4 DEF FileCell, ImageCell, b, r, D
    <3> QED BY <3>7, <3>8, <3>9
  <2> QED BY <2>3, <2>4
<1> QED BY <1>1, <1>2

\* A page programmed over erased cells makes the written part of the image longer.
LEMMA ImageGrows ==
  ASSUME TypeOK, SessionInv, ErasedInv, InSession,
         NEW page \in PageBuffer \union {<<>>}, page = <<>> \/ Written(page),
         sfu_real_writer(page),
         NEW file, NEW count \in Nat, Done <= count, count <= ErasedSize, ErasedSize \in Nat,
         count <= Done + FLASH_PAGE_SIZE, page = <<>> => count = Done,
         \A j \in 1 .. Done : flash[MAIN_START_FROM(main_selector) + j - 1]
                                = FileCell(file, main_selector, j),
         \A i \in 1 .. (count - Done) : page[i] = FileCell(file, main_selector, Done + i),
         NEW j \in 1 .. count
  PROVE  flash'[MAIN_START_FROM(main_selector) + j - 1] = FileCell(file, main_selector, j)
<1> DEFINE start == MAIN_START_FROM(main_selector)
           a == start + j - 1
           file_cell == FileCell(file, main_selector, j)
<1>1. /\ Done \in Nat /\ write_addr_real = start + Done /\ start \in Nat
      /\ Done <= FLASH_SIZE_CORRECT /\ FLASH_SIZE_CORRECT \in Nat
  BY DoneType, LayoutTypes
<1>2. Body(main_selector) = start .. (start + FLASH_SIZE_CORRECT - 1)
      /\ Body(main_selector) \subseteq FlashAddr
  <2>1. main_selector \in BOOLEAN
    BY DEF TypeOK
  <2>2. Body(main_selector) \subseteq FlashAddr
    BY <2>1, SlotsApart
  <2>3. Body(main_selector) = start .. (start + FLASH_SIZE_CORRECT - 1)
    BY <1>1 DEF Body, MAIN_END
  <2> QED BY <2>2, <2>3
<1>p. page # <<>> => page \in PageBuffer /\ Written(page)
  OBVIOUS
<1> HIDE DEF start
<1>3. CASE j <= Done
  <2>1. a \in FlashAddr /\ a \notin PageRange(write_addr_real)
    BY <1>1, <1>2, <1>3, PageSize DEF PageRange
  <2>2. flash'[a] = flash[a]
    <3>1. CASE page = <<>>
      BY <3>1 DEF sfu_real_writer, Written
    <3>2. CASE page # <<>>
      <4> HIDE DEF a
      <4> QED BY <3>2, <1>p, <2>1, WriterGoesOn
    <3> QED BY <3>1, <3>2
  <2>3. flash[a] = file_cell
    BY <1>1, <1>3 DEF start
  <2> QED BY <2>2, <2>3 DEF start
<1>4. CASE j > Done
  <2> DEFINE i == j - Done
  <2>1. page # <<>>
    BY <1>1, <1>4
  <2>2. /\ i \in 1 .. FLASH_PAGE_SIZE /\ i \in 1 .. (count - Done) /\ Done + i = j
        /\ write_addr_real + i - 1 = a
    BY <1>1, <1>4, PageSize
  <2> HIDE DEF i, a
  <2>3. a \in Body(main_selector) /\ flash'[a] = ProgramCell(flash[a], page[i])
    <3>1. /\ write_addr_real + i - 1 \in Body(main_selector)
          /\ flash'[write_addr_real + i - 1] = ProgramCell(flash[write_addr_real + i - 1], page[i])
      BY <2>1, <2>2, <1>p, WriterGoesOn
    <3> QED BY <3>1, <2>2
  <2>4. write_addr_real <= a /\ a < start + ErasedSize
    BY <1>1, <1>4 DEF a
  <2>5. flash[a] = FF
    BY <2>3, <2>4 DEF ErasedInv, start
  <2>6. flash'[a] = page[i]
    BY <2>3, <2>5 DEF ProgramCell
  <2>7. page[i] = file_cell
    BY <2>2
  <2> QED BY <2>6, <2>7 DEF a, start
<1> QED BY <1>1, <1>3, <1>4

\* At power-up nothing is written.
LEMMA InitImageInv == Init => ImageInv
BY DEF Init, ImageInv, Sound, InSession

\* Every step keeps ImageInv: what a page brings lands behind what is already there.
LEMMA NextImageInv ==
  TypeOK /\ SessionInv /\ FoldedInv /\ PrefixInv /\ DecoderInv /\ ErasedInv /\ ImageInv
    /\ [Next]_vars => ImageInv'
<1> SUFFICES ASSUME TypeOK, SessionInv, FoldedInv, PrefixInv, DecoderInv, ErasedInv, ImageInv,
                    [Next]_vars, (Sound /\ ~dec.errors /\ Done <= ErasedSize)'
             PROVE  /\ \A j \in 1 .. Done' : flash'[MAIN_START_FROM(main_selector') + j - 1]
                         = FileCell(session'.file, main_selector', j)
                    /\ HeldImage(dec', Done', session'.file, main_selector')
  BY DEF ImageInv, HeldImage
<1> DEFINE file == session.file
           start == MAIN_START_FROM(main_selector)
<1>1. Sound' /\ ~dec'.errors /\ Done' <= ErasedSize' /\ InSession'
  BY DEF Sound
<1>2. InSession => Done \in Nat
  BY DoneType
<1>e. Len(<<>>) = 0
  BY EmptySeq
<1>3. CASE OpenSession
  <2>1. dec' = bin2page_reset /\ write_addr_real' = MAIN_START_FROM(main_selector')
    BY <1>3 DEF OpenSession, DecoderInv, Erasing
  <2>2. Done' = 0
    <3>1. MAIN_START_FROM(main_selector) \in Nat /\ main_selector' = main_selector
      BY <1>3, LayoutTypes DEF OpenSession, TypeOK
    <3> QED BY <2>1, <3>1 DEF Done
  <2> QED BY <2>1, <2>2, <1>e DEF HeldImage, bin2page_reset
<1>4. CASE SessionKept
  <2>1. /\ Sound /\ Done' = Done /\ ErasedSize' = ErasedSize
        /\ UNCHANGED <<flash, main_selector, dec>> /\ session'.file = session.file
    BY <1>1, <1>4, KeptSession DEF SessionKept
  <2>2. ~dec.errors /\ Done <= ErasedSize
    BY <2>1, <1>1
  <2> QED BY <2>1, <2>2 DEF ImageInv, HeldImage
<1>5. CASE InSession /\ sfu_command_write
  <2>1. /\ UNCHANGED <<flash, main_selector, dec, firmware_size, write_addr_real>>
        /\ Done' = Done /\ ErasedSize' = ErasedSize
    BY <1>5 DEF sfu_command_write, flashVars, addrVars, Done, ErasedSize
  <2>2. Sound /\ ~dec.errors /\ Done <= ErasedSize
    BY <2>1, <1>1, <1>5, NextPart
  <2>3. CASE fw_fullbody_crc32 = <<>>
    <3>1. Taken = 0
      BY <2>3, <1>1, <1>5, <1>e, NextPart
    <3>2. dec = bin2page_reset /\ Done = 0
      BY <2>2, <3>1 DEF DecoderInv
    <3> QED BY <3>2, <2>1, <1>e DEF HeldImage, bin2page_reset
  <2>4. CASE fw_fullbody_crc32 # <<>>
    <3>1. session'.file = session.file
      BY <2>4, <1>1, <1>5, NextPart
    <3> QED BY <3>1, <2>1, <2>2 DEF ImageInv, HeldImage
  <2> QED BY <2>3, <2>4
<1>6. CASE InSession /\ WritePage
  <2>1. /\ Sound /\ pc = "write" /\ body # <<>>
        /\ UNCHANGED <<main_selector, session, firmware_size>>
        /\ dec' = WriteStep.dec /\ sfu_real_writer(WriteStep.page)
        /\ WriteStep.page = <<>> \/ Written(WriteStep.page)
        /\ write_addr_real' = IF WriteStep.page = <<>> THEN write_addr_real
                              ELSE write_addr_real + FLASH_PAGE_SIZE
    BY <1>1, <1>6, PageSteps
  <2> DEFINE buf == Padded(body)
             n == Taken
             page == WriteStep.page
  <2>2. /\ n \in Nat /\ n % FLASH_PAGE_SIZE = 0 /\ Len(file) > 0
        /\ \A i \in 1 .. FLASH_PAGE_SIZE : buf[i] = Fed(file, n + i)
    BY <2>1, NextPage
  <2>3. /\ Settled(dec) /\ buf \in PageBuffer /\ main_selector \in BOOLEAN
        /\ Len(file) \in Nat /\ page \in PageBuffer \union {<<>>}
        /\ WriteStep = bin2page_decode(dec, buf, main_selector)
    BY DecoderSteps, PaddedIsPage, LenProperties DEF TypeOK, WriteStep
  <2>4. /\ Done \in Nat /\ write_addr_real = start + Done /\ start \in Nat
        /\ FLASH_PAGE_SIZE \in Nat /\ FLASH_PAGE_SIZE > 1
    BY <1>6, DoneType, PageSize
  <2>5. Done' = IF page = <<>> THEN Done ELSE Done + FLASH_PAGE_SIZE
    <3>1. Done' = write_addr_real' - start
      BY <2>1 DEF Done
    <3> HIDE DEF start, page
    <3>2. CASE page = <<>>
      BY <3>1, <3>2, <2>1, <2>4 DEF page
    <3>3. CASE page # <<>>
      BY <3>1, <3>3, <2>1, <2>4 DEF page
    <3> QED BY <3>2, <3>3
  <2>6. ErasedSize' = ErasedSize /\ ErasedSize \in Nat
    <3>1. firmware_size \in Nat /\ FLASH_BLOCK_SIZE \in Nat /\ FLASH_BLOCK_SIZE > 0
      BY LayoutTypes DEF TypeOK
    <3> QED BY <2>1, <3>1, ErasedSizeType DEF ErasedSize
  <2>7. IF n = 0 THEN dec = bin2page_reset /\ Done = 0 ELSE Decoding(dec, Done, file, n)
    BY <2>1 DEF DecoderInv, Decoding
  <2>8. ~WriteStep.dec.errors
    BY <2>1, <1>1
  <2>9. Done <= ErasedSize
    <3> HIDE DEF page
    <3> QED BY <2>4, <2>5, <2>6, <1>1
  <2>10. ~dec.errors
    <3>1. CASE n = 0
      BY <2>7, <3>1 DEF bin2page_reset
    <3>2. CASE n # 0
      <4>1. CASE ~dec.active
        BY <2>7, <3>2, <4>1 DEF Decoding
      <4>2. CASE dec.active
        <5>1. dec.inited /\ Len(dec.input) = FLASH_PAGE_SIZE - 1
          BY <2>7, <3>2, <4>2 DEF Decoding
        <5>2. dec.errors => bin2page_decode(dec, buf, main_selector).dec.errors
          BY <5>1, <4>2, <2>3, NextPageDecoded
        <5> QED BY <5>2, <2>3, <2>8
      <4> QED BY <4>1, <4>2
    <3> QED BY <3>1, <3>2
  <2>11. /\ \A j \in 1 .. Done : flash[start + j - 1] = FileCell(file, main_selector, j)
         /\ HeldImage(dec, Done, file, main_selector)
    BY <2>1, <2>9, <2>10 DEF ImageInv, HeldImage
  <2>12. /\ page # <<>> => PageImage(page, Done, file, main_selector)
         /\ HeldImage(dec', Done', file, main_selector)
    <3>1. ~bin2page_decode(dec, buf, main_selector).dec.errors
      BY <2>3, <2>8
    <3> HIDE DEF buf, n, file
    <3> QED BY <3>1, <2>1, <2>2, <2>3, <2>4, <2>5, <2>7, <2>11, PageIsImage
  <2>13. \A i \in 1 .. (Done' - Done) : page[i] = FileCell(file, main_selector, Done + i)
    <3>1. CASE page = <<>>
      <4>1. Done' - Done = 0
        BY <3>1, <2>4, <2>5
      <4> QED BY <4>1
    <3>2. CASE page # <<>>
      <4>1. Done' - Done = FLASH_PAGE_SIZE
        BY <3>2, <2>4, <2>5
      <4> QED BY <3>2, <4>1, <2>12 DEF PageImage
    <3> QED BY <3>1, <3>2
  <2>14. /\ Done' \in Nat /\ Done <= Done' /\ Done' <= ErasedSize
         /\ Done' <= Done + FLASH_PAGE_SIZE /\ (page = <<>> => Done' = Done)
    <3>1. Done' <= ErasedSize
      BY <1>1, <2>6
    <3> HIDE DEF page
    <3> QED BY <3>1, <2>4, <2>5
  <2>15. ASSUME NEW j \in 1 .. Done'
         PROVE  flash'[start + j - 1] = FileCell(file, main_selector, j)
    <3> HIDE DEF file, page
    <3>1. /\ page = <<>> \/ Written(page)
          /\ sfu_real_writer(page)
      BY <2>1 DEF page
    <3> QED BY <3>1, <1>6, <2>3, <2>6, <2>11, <2>13, <2>14, ImageGrows
  <2> QED BY <2>1, <2>12, <2>15
<1>7. CASE InSession /\ WriteDone
  <2>1. /\ Sound /\ Done' = Done /\ ErasedSize' = ErasedSize
        /\ UNCHANGED <<flash, main_selector, dec, session>>
    BY <1>1, <1>7, DoneSteps
  <2>2. ~dec.errors /\ Done <= ErasedSize
    BY <2>1, <1>1
  <2> QED BY <2>1, <2>2 DEF ImageInv, HeldImage
<1> QED BY <1>1, <1>3, <1>4, <1>5, <1>6, <1>7, SessionSteps

(***************************************************************************)
(* What the theorems below follow from.  None of the parts is inductive by *)
(* itself: what is written is the image only if the cells ahead were       *)
(* erased, the decoder holds what was not written, the packets were parts  *)
(* of the one file, and the CRC counts what was acknowledged.              *)
(***************************************************************************)
StreamInv == FoldedInv /\ PrefixInv /\ DecoderInv /\ ErasedInv /\ ImageInv

\* The invariants hold together in every reachable state.
LEMMA StreamInvariant == Spec => [](TypeOK /\ SessionInv /\ StreamInv)
<1>1. Init => StreamInv
  BY InitFoldedInv, InitPrefixInv, InitDecoderInv, InitErasedInv, InitImageInv DEF StreamInv
<1>2. TypeOK /\ SessionInv /\ StreamInv /\ [Next]_vars => StreamInv'
  BY NextFoldedInv, NextPrefixInv, NextDecoderInv, NextErasedInv, NextImageInv DEF StreamInv
<1> QED BY <1>1, <1>2, SessionInvariant, PTL DEF Spec

\* How far the decoder is, and what the slot and the decoder hold by then.
LEMMA SoundImage ==
  ASSUME TypeOK, SessionInv, StreamInv, Sound, ~dec.errors, Done <= ErasedSize
  PROVE  /\ Taken \in 0 .. Len(session.file) /\ Done \in Nat /\ Len(dec.result) \in Nat
         /\ PageOrEnd(Taken, session.file)
         /\ Done + Len(dec.result) = DecodedCount(session.file, Taken)
         /\ \A j \in 1 .. Done : flash[MAIN_START_FROM(main_selector) + j - 1]
                                   = FileCell(session.file, main_selector, j)
         /\ HeldImage(dec, Done, session.file, main_selector)
<1> DEFINE file == session.file
<1>1. /\ Done \in Nat /\ Len(dec.result) \in Nat /\ Len(file) \in Nat /\ Len(body) \in Nat
      /\ Len(fw_fullbody_crc32) \in Nat /\ Len(<<>>) = 0
  BY DoneType, LenProperties, EmptySeq DEF Sound, TypeOK, DecoderState
<1>2. Taken \in 0 .. Len(file) /\ PageOrEnd(Taken, file)
  <2>1. /\ Taken >= 0 /\ Len(fw_fullbody_crc32) <= Len(file) /\ PageOrEnd(Taken, file)
    BY DEF StreamInv, PrefixInv
  <2>2. Taken \in Int /\ Taken <= Len(fw_fullbody_crc32)
    BY <1>1 DEF Taken
  <2> HIDE DEF file
  <2> QED BY <2>1, <2>2, <1>1
<1>3. Done + Len(dec.result) = DecodedCount(file, Taken)
  <2>1. CASE Taken = 0
    <3>1. Done = 0 /\ Len(dec.result) = 0
      BY <2>1, <1>1 DEF StreamInv, DecoderInv, bin2page_reset
    <3>2. DecodedCount(file, 0) = 0
      BY ZeroPages, PageSize, CountNextPage
    <3> QED BY <3>1, <3>2, <2>1
  <2>2. CASE Taken # 0
    BY <2>2 DEF StreamInv, DecoderInv
  <2> QED BY <2>1, <2>2
<1>4. /\ \A j \in 1 .. Done : flash[MAIN_START_FROM(main_selector) + j - 1]
                                = FileCell(file, main_selector, j)
      /\ HeldImage(dec, Done, file, main_selector)
  BY DEF StreamInv, ImageInv, HeldImage
<1> QED BY <1>1, <1>2, <1>3, <1>4

(***************************************************************************)
(* While a session is open the flash and the decoder hold the image of     *)
(* what was taken of the host's file, for every file, page size and slot   *)
(* layout, and whatever the host repeats, drops or interrupts.             *)
(***************************************************************************)
THEOREM StreamKept == Spec => []StreamIntegrity
<1>1. ASSUME TypeOK, SessionInv, StreamInv, Healthy PROVE StreamIntegrity
  <2> DEFINE file == session.file
             n == Len(fw_fullbody_crc32) - Len(body)
             count == DecodedCount(file, n)
             start == MAIN_START_FROM(main_selector)
             got(j) == IF j <= Done THEN flash[start + j - 1] ELSE dec.result[j - Done]
  <2>1. Sound /\ ~dec.errors /\ Done <= ErasedSize
    BY <1>1 DEF Healthy, Sound, InSession, Done
  <2>2. Taken = n
    <3>1. CASE pc = "write"
      BY <3>1 DEF Taken
    <3>2. CASE pc # "write"
      <4>1. body = <<>>
        BY <1>1, <3>2 DEF Healthy, StreamInv, FoldedInv
      <4>2. Len(body) = 0 /\ Len(fw_fullbody_crc32) \in Nat
        BY <1>1, <4>1, EmptySeq, LenProperties DEF TypeOK
      <4> QED BY <4>2, <3>2 DEF Taken
    <3> QED BY <3>1, <3>2
  <2>3. /\ Taken \in 0 .. Len(file) /\ Done \in Nat /\ Len(dec.result) \in Nat
        /\ PageOrEnd(Taken, file)
        /\ Done + Len(dec.result) = DecodedCount(file, Taken)
        /\ \A j \in 1 .. Done : flash[start + j - 1] = FileCell(file, main_selector, j)
        /\ HeldImage(dec, Done, file, main_selector)
    BY <1>1, <2>1, SoundImage
  <2>t. main_selector \in BOOLEAN /\ Len(file) \in Nat
    BY <1>1, LenProperties DEF TypeOK
  <2> HIDE DEF n, file, start
  <2>4. Done + Len(dec.result) = count
    BY <2>2, <2>3
  <2>5. ASSUME NEW j \in 1 .. count PROVE got(j) = ImageCell(file, n, main_selector, j)
    <3>1. ImageCell(file, n, main_selector, j) = FileCell(file, main_selector, j)
      BY <2>2, <2>3, <2>t, ImageCellKnown
    <3> HIDE DEF count
    <3>2. CASE j <= Done
      BY <3>1, <3>2, <2>3
    <3>3. CASE j > Done
      <4> DEFINE i == j - Done
      <4>1. i \in 1 .. Len(dec.result) /\ Done + i = j /\ ~(j <= Done)
        BY <3>3, <2>3, <2>4
      <4>2. got(j) = dec.result[i]
        BY <4>1
      <4> HIDE DEF i
      <4>3. dec.result[i] = FileCell(file, main_selector, Done + i)
        BY <4>1, <2>3 DEF HeldImage
      <4> QED BY <4>1, <4>2, <4>3, <3>1
    <3> QED BY <3>2, <3>3, <2>3, <2>4
  <2> QED BY <2>4, <2>5 DEF StreamIntegrity, Done, n, file, start
<1>2. TypeOK /\ SessionInv /\ StreamInv => StreamIntegrity
  BY <1>1 DEF StreamIntegrity
<1> QED BY <1>2, StreamInvariant, PTL

----------------------------------------------------------------------------
(* What START signs *)

\* At power-up nothing is being signed.
LEMMA InitSignedWhole == Init => SignedImageIsWhole
BY DEF Init, SignedImageIsWhole, Signing

\* The flush of a session without write errors brings the rest of the image.
LEMMA FlushCompletes ==
  ASSUME TypeOK, SessionInv, StreamInv, StartFlush, Signing', session'.clean
  PROVE  HoldsImage'
<1> DEFINE file == session.file
           start == MAIN_START_FROM(main_selector)
           page == FlushStep.page
           count == DecodedCount(file, Len(file))
<1>1. /\ pc = "start" /\ pc' # "loop" /\ sfu_real_writer(page)
      /\ UNCHANGED <<main_selector, fw_fullbody_crc32, firmware_size>>
      /\ session'.file = file
      /\ main_update_started /\ ~write_error /\ ~Refused(page)
  BY DEF StartFlush, Signing, TypeOK
<1>2. ~dec.errors /\ fw_fullbody_crc32 = file /\ file # <<>> /\ OneSlotOnly(file)
      /\ count <= ErasedSize' /\ ErasedSize' = ErasedSize
  BY <1>1 DEF StartFlush, Signing, ErasedSize
<1>3. Sound /\ InSession
  BY <1>1, <1>2 DEF Sound, InSession
<1>4. Taken = Len(file)
  <2>1. Len(fw_fullbody_crc32) \in Nat
    BY LenProperties DEF TypeOK
  <2> QED BY <2>1, <1>1, <1>2 DEF Taken
<1>5. /\ page = IF dec.result = <<>> THEN <<>> ELSE Padded(dec.result)
      /\ dec.result \in Seq(Cells) /\ Len(dec.result) \in Nat /\ Len(dec.result) < FLASH_PAGE_SIZE
      /\ Len(<<>>) = 0
      /\ page \in PageBuffer \union {<<>>}
  BY DecoderSteps, LenProperties, EmptySeq DEF FlushStep, bin2page_finish, TypeOK, DecoderState
<1>6. page = <<>> <=> dec.result = <<>>
  <2>1. ASSUME dec.result # <<>> PROVE page # <<>>
    <3>1. page \in PageBuffer
      BY <2>1, <1>5, PaddedIsPage
    <3>2. Len(page) # 0
      BY <3>1, PageSize DEF PageBuffer
    <3> HIDE DEF page
    <3> QED BY <3>2, <1>5, Zenon
  <2> QED BY <2>1, <1>5
<1>7. page = <<>> \/ Written(page)
  BY <1>1 DEF Refused, Written
<1>8. /\ Done \in Nat /\ Done <= FLASH_SIZE_CORRECT /\ FLASH_SIZE_CORRECT \in Nat
      /\ FLASH_PAGE_SIZE \in Nat /\ ErasedSize \in Nat
  BY <1>3, DoneType, LayoutTypes, ErasedSizeType DEF TypeOK
<1>9. Done + Len(dec.result) = count
  <2>1. Taken # 0
    <3>1. Len(file) # 0
      BY <1>2, EmptySeq DEF TypeOK
    <3> QED BY <3>1, <1>4
  <2> QED BY <2>1, <1>2, <1>3, <1>4 DEF StreamInv, DecoderInv
<1> HIDE DEF count
<1>10. count \in Nat /\ Done <= count /\ count <= ErasedSize
  BY <1>2, <1>5, <1>8, <1>9
<1>11. /\ \A j \in 1 .. Done : flash[start + j - 1] = FileCell(file, main_selector, j)
       /\ \A i \in 1 .. Len(dec.result) :
            dec.result[i] = FileCell(file, main_selector, Done + i)
  <2>1. Done <= ErasedSize
    BY <1>8, <1>10
  <2> QED BY <2>1, <1>2, <1>3, SoundImage DEF HeldImage
<1>12. \A i \in 1 .. (count - Done) : page[i] = FileCell(file, main_selector, Done + i)
  <2> SUFFICES ASSUME NEW i \in 1 .. (count - Done)
               PROVE  page[i] = FileCell(file, main_selector, Done + i)
    OBVIOUS
  <2>1. i \in 1 .. Len(dec.result) /\ i \in 1 .. FLASH_PAGE_SIZE /\ i <= Len(dec.result)
    BY <1>5, <1>8, <1>9, <1>10
  <2>2. dec.result # <<>>
    BY <2>1, <1>5
  <2>3. page[i] = dec.result[i]
    BY <2>1, <2>2, <1>5 DEF Padded
  <2> HIDE DEF page, file
  <2> QED BY <2>1, <2>3, <1>11
<1>13. count <= FLASH_SIZE_CORRECT
  <2>1. CASE page = <<>>
    <3>1. count = Done
      BY <2>1, <1>5, <1>6, <1>8, <1>9
    <3> QED BY <3>1, <1>8
  <2>2. CASE page # <<>>
    <3>1. Done + FLASH_PAGE_SIZE <= FLASH_SIZE_CORRECT
      <4> HIDE DEF page
      <4> QED BY <2>2, <1>1, <1>3, <1>5, <1>7, WriterGoesOn DEF StreamInv
    <3> HIDE DEF page
    <3> QED BY <3>1, <1>5, <1>8, <1>9
  <2> QED BY <2>1, <2>2
<1>14. ASSUME NEW j \in 1 .. count PROVE flash'[start + j - 1] = FileCell(file, main_selector, j)
  <2>1. /\ count <= Done + FLASH_PAGE_SIZE /\ (page = <<>> => count = Done)
    <3> HIDE DEF page
    <3> QED BY <1>5, <1>6, <1>8, <1>9
  <2>2. ErasedInv /\ InSession /\ sfu_real_writer(page) /\ page \in PageBuffer \union {<<>>}
    BY <1>1, <1>3, <1>5 DEF StreamInv
  <2>3. /\ \A k \in 1 .. Done : flash[MAIN_START_FROM(main_selector) + k - 1]
                                  = FileCell(file, main_selector, k)
        /\ \A i \in 1 .. (count - Done) : page[i] = FileCell(file, main_selector, Done + i)
        /\ Done <= count /\ count <= ErasedSize /\ count \in Nat /\ ErasedSize \in Nat
    BY <1>8, <1>10, <1>11, <1>12
  <2> HIDE DEF page, file
  <2>4. flash'[MAIN_START_FROM(main_selector) + j - 1] = FileCell(file, main_selector, j)
    BY <2>1, <2>2, <2>3, <1>7, ImageGrows
  <2> QED BY <2>4
<1> QED BY <1>1, <1>13, <1>14 DEF HoldsImage, FileCell, count

(***************************************************************************)
(* What a START without write errors signs is the whole image of the       *)
(* host's file, the tail that only the flush brings included: the CRC that *)
(* agrees is one of a slot whose every cell is right.                      *)
(***************************************************************************)
THEOREM SignedWhole == Spec => []SignedImageIsWhole
<1>1. ASSUME TypeOK, SessionInv, StreamInv, SignedImageIsWhole, [Next]_vars,
             Signing', session'.clean
      PROVE  HoldsImage'
  <2>1. pc' \in {"sign_erase", "sign"}
    BY <1>1 DEF Signing
  <2>2. CASE StartFlush
    BY <1>1, <2>2, FlushCompletes
  <2>3. CASE SignErase
    <3>1. /\ pc = "sign_erase"
          /\ UNCHANGED <<flash, main_selector, fw_fullbody_crc32, session, firmware_size>>
      BY <2>3 DEF SignErase, localVars
    <3>2. Signing /\ session.clean
      BY <1>1, <3>1 DEF Signing, ErasedSize
    <3> QED BY <1>1, <3>1, <3>2 DEF SignedImageIsWhole, HoldsImage
  <2>4. CASE UNCHANGED vars
    <3>1. UNCHANGED <<flash, main_selector, fw_fullbody_crc32, session, firmware_size, pc>>
      BY <2>4 DEF vars, flashVars, localVars
    <3>2. Signing /\ session.clean
      BY <1>1, <3>1 DEF Signing, ErasedSize
    <3> QED BY <1>1, <3>1, <3>2 DEF SignedImageIsWhole, HoldsImage
  <2> QED
    BY <1>1, <2>1, <2>2, <2>3, <2>4
       DEF Next, Device, HostPacket, Scan, FirstStart, FirstStartEraseB, FirstStartEraseA,
           FirstStartSign, AfterFind, EraseSign, EraseBlock, OpenSession, WritePage, WriteDone,
           SignProgram, DrainDone, LeaveLoop, main_start, Timeout, sfu_command_speed,
           sfu_command_erase, sfu_command_write, sfu_command_start, PowerLoss
<1>2. TypeOK /\ SessionInv /\ StreamInv /\ SignedImageIsWhole /\ [Next]_vars
        => SignedImageIsWhole'
  BY <1>1 DEF SignedImageIsWhole
<1> QED BY <1>2, InitSignedWhole, StreamInvariant, PTL DEF Spec
=============================================================================
