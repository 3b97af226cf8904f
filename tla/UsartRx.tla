------------------------------ MODULE UsartRx ------------------------------
(***************************************************************************)
(* The receive side of usart_mini.c: the DMA ring, rx_dma_check, which     *)
(* copies it into rx_buffer, and receive_count and receive_byte, called by *)
(* receive_n_bytes of packet_receiver.c.                                   *)
(*                                                                         *)
(* Two actors: the DMA, which moves a byte whenever the line brings one,   *)
(* and the one thread, which may be kept anywhere by an erase, a program   *)
(* or a blocking send.  A byte is its number in the order of the DMA.      *)
(***************************************************************************)
EXTENDS Integers, Sequences

CONSTANTS
  RX_INITIAL,      \* transfers the DMA channel is programmed for: UINT32_MAX
  RX_DMA_SIZE,     \* bytes of rxDMAbuf
  RX_BUFFER_SIZE,  \* sizeof(rx_buffer)
  NBytes           \* how many bytes receive_n_bytes is asked for

ASSUME UsartAssumption ==
  /\ RX_INITIAL \in Nat /\ RX_DMA_SIZE \in Nat \ {0}
  /\ RX_BUFFER_SIZE \in Nat \ {0}
  /\ NBytes \subseteq 1 .. (RX_BUFFER_SIZE - 1)

VARIABLES
  transfer_count,   \* of the DMA channel: what is left of RX_INITIAL
  rxDMAbuf,         \* the ring the DMA writes (0: nothing yet)
  rx_dma_old_cnt, rx_dma_old_pos,
  cnt,              \* what rx_dma_check has left to copy
  rx_buffer, rx_pos_write, rx_pos_read,
  rx_overfulls,
  pc,               \* where rx_dma_check returns to, or the next step behind it
  want,             \* what receive_n_bytes has left to take
  got,              \* history: the bytes handed out, in order
  lapped            \* history: the DMA wrote over a byte that was being copied

dmaVars == <<transfer_count, rxDMAbuf>>
checkVars == <<rx_dma_old_cnt, rx_dma_old_pos, cnt>>
bufferVars == <<rx_buffer, rx_pos_write, rx_pos_read>>
readerVars == <<want, got>>
vars == <<dmaVars, checkVars, bufferVars, rx_overfulls, pc, readerVars, lapped>>

\* usart_init.
Init ==
  /\ transfer_count = RX_INITIAL /\ rxDMAbuf = [i \in 0 .. (RX_DMA_SIZE - 1) |-> 0]
  /\ rx_dma_old_cnt = 0 /\ rx_dma_old_pos = 0 /\ cnt = 0
  /\ rx_buffer = [i \in 0 .. (RX_BUFFER_SIZE - 1) |-> 0]
  /\ rx_pos_write = 0 /\ rx_pos_read = 0
  /\ rx_overfulls = 0
  /\ pc = "idle" /\ want = 0 /\ got = <<>> /\ lapped = FALSE

Transferred == RX_INITIAL - transfer_count

\* Bytes 1 .. Fetched are behind rx_dma_check; it copies the next one next.
Fetched == rx_dma_old_cnt - cnt

----------------------------------------------------------------------------
(* The DMA: one byte; the ring wraps by the width of the write address.  At *)
(* a transfer_count of 0 the channel stops for good.                        *)

Transfer ==
  /\ transfer_count > 0
  /\ transfer_count' = transfer_count - 1
  /\ rxDMAbuf' = [rxDMAbuf EXCEPT ![Transferred % RX_DMA_SIZE] = Transferred + 1]
  /\ lapped' = (lapped \/ (cnt > 0 /\ Transferred + 1 - Fetched > RX_DMA_SIZE))
  /\ UNCHANGED <<checkVars, bufferVars, rx_overfulls, pc, readerVars>>

----------------------------------------------------------------------------
(* rx_dma_check: reads the DMA's count once, then copies byte by byte *)

\* Mutants of ToCopy: everything that came is copied; the whole ring is copied.
CopyAll(arrived) == arrived
CopyRing(arrived) == IF arrived > RX_DMA_SIZE THEN RX_DMA_SIZE ELSE arrived

\* Behind an overrun the ring's size is taken off as often as it fits, so that
\* the next byte to copy is still where rx_dma_old_pos points.
ToCopy(arrived) == IF arrived > RX_DMA_SIZE THEN arrived % RX_DMA_SIZE ELSE arrived

\* Mutant of DmaOverfull: what the ring lost is not counted.
DmaOverfullUncounted(arrived) == 0 * arrived

DmaOverfull(arrived) == IF arrived > RX_DMA_SIZE THEN arrived - RX_DMA_SIZE ELSE 0

rx_dma_check(returnTo) ==
  LET arrived == Transferred - rx_dma_old_cnt
  IN  /\ cnt = 0
      /\ rx_dma_old_cnt' = Transferred
      /\ cnt' = ToCopy(arrived)
      /\ rx_overfulls' = rx_overfulls + DmaOverfull(arrived)
      /\ pc' = returnTo
      /\ UNCHANGED <<dmaVars, rx_dma_old_pos, lapped>>

CopyByte ==
  /\ cnt > 0
  /\ rx_buffer' =
       [rx_buffer EXCEPT ![rx_pos_write % RX_BUFFER_SIZE] = rxDMAbuf[rx_dma_old_pos]]
  /\ rx_pos_write' = rx_pos_write + 1
  /\ rx_dma_old_pos' = (rx_dma_old_pos + 1) % RX_DMA_SIZE
  /\ cnt' = cnt - 1
  /\ UNCHANGED <<dmaVars, rx_dma_old_cnt, rx_pos_read, rx_overfulls, pc, readerVars, lapped>>

----------------------------------------------------------------------------
(* The thread *)

\* From the erase loop, sfu_real_writer, usart_set_baud, and before an answer.
CheckOnly ==
  /\ pc = "idle"
  /\ rx_dma_check("idle")
  /\ UNCHANGED <<bufferVars, readerVars>>

\* receive_n_bytes asks receive_count once; receive_packets_worker's loop and
\* receive_check_start do it with 1.
receive_n_bytes(n) ==
  /\ pc = "idle"
  /\ rx_dma_check("count")
  /\ want' = n
  /\ UNCHANGED <<bufferVars, got>>

receive_count == rx_pos_write - rx_pos_read

\* Mutants of Enough: one byte too few is enough; as many as wanted are not.
OneShort == receive_count + 1 >= want
MoreThanWanted == receive_count > want

Enough == receive_count >= want

CountSeen ==
  /\ pc = "count" /\ cnt = 0
  /\ IF Enough THEN pc' = "byte" /\ want' = want ELSE pc' = "idle" /\ want' = 0
  /\ UNCHANGED <<dmaVars, checkVars, bufferVars, rx_overfulls, got, lapped>>

receive_byte ==
  /\ pc = "byte"
  /\ rx_dma_check("test")
  /\ UNCHANGED <<bufferVars, readerVars>>

\* receive_byte returns false without a byte, and receive_n_bytes keeps the 0 it
\* set before; else its call of receive_count checks the DMA a second time.
EmptyTest ==
  /\ pc = "test" /\ cnt = 0
  /\ IF rx_pos_read = rx_pos_write
     THEN /\ got' = Append(got, 0)
          /\ want' = want - 1
          /\ pc' = IF want = 1 THEN "idle" ELSE "byte"
          /\ UNCHANGED <<dmaVars, checkVars, bufferVars, rx_overfulls, lapped>>
     ELSE rx_dma_check("take") /\ UNCHANGED <<bufferVars, readerVars>>

\* Mutant of ReadFrom: an overrun buffer is read on from where it was.
ReadOn == rx_pos_read

\* An overrun buffer is read from the oldest byte that is safe.
Overrun == receive_count >= RX_BUFFER_SIZE
ReadFrom == IF Overrun THEN rx_pos_write + 1 - RX_BUFFER_SIZE ELSE rx_pos_read

TakeByte ==
  /\ pc = "take" /\ cnt = 0
  /\ rx_overfulls' = IF Overrun THEN rx_overfulls + 1 ELSE rx_overfulls
  /\ got' = Append(got, rx_buffer[ReadFrom % RX_BUFFER_SIZE])
  /\ rx_pos_read' = ReadFrom + 1
  /\ want' = want - 1
  /\ pc' = IF want = 1 THEN "idle" ELSE "byte"
  /\ UNCHANGED <<dmaVars, checkVars, rx_buffer, rx_pos_write, lapped>>

Thread ==
  \/ CopyByte \/ CheckOnly \/ (\E n \in NBytes : receive_n_bytes(n))
  \/ CountSeen \/ receive_byte \/ EmptyTest \/ TakeByte

Next == Transfer \/ Thread

Spec == Init /\ [][Next]_vars

\* The one thread runs.
LiveSpec == Spec /\ WF_vars(Thread)

----------------------------------------------------------------------------
(* Properties *)

Increasing(s) == \A i \in 2 .. Len(s) : s[i - 1] < s[i]

(***************************************************************************)
(* The types.  The positions stay below the number of transfers: the DMA   *)
(* stops for good before a counter of 32 bits can wrap.                    *)
(***************************************************************************)
TypeOK ==
  /\ transfer_count \in 0 .. RX_INITIAL
  /\ rxDMAbuf \in [0 .. (RX_DMA_SIZE - 1) -> 0 .. RX_INITIAL]
  /\ rx_dma_old_cnt \in 0 .. Transferred /\ rx_dma_old_pos \in 0 .. (RX_DMA_SIZE - 1)
  /\ cnt \in 0 .. RX_DMA_SIZE /\ cnt <= rx_dma_old_cnt
  /\ rx_buffer \in [0 .. (RX_BUFFER_SIZE - 1) -> 0 .. RX_INITIAL]
  /\ rx_pos_write \in 0 .. Fetched /\ rx_pos_read \in 0 .. rx_pos_write
  /\ rx_overfulls \in Nat
  /\ pc \in {"idle", "count", "byte", "test", "take"}
  /\ want \in 0 .. (RX_BUFFER_SIZE - 1) /\ (want = 0 <=> pc = "idle")
  /\ got \in Seq(0 .. RX_INITIAL) /\ lapped \in BOOLEAN

(***************************************************************************)
(* However far rx_dma_check was behind, its position and the DMA's stay in *)
(* step: the next byte is copied from the cell the DMA put it in.          *)
(***************************************************************************)
InStep == rx_dma_old_pos = Fetched % RX_DMA_SIZE

\* The DMA has written over bytes that no rx_dma_check has seen.
RingOverrun == Transferred - Fetched > RX_DMA_SIZE

(***************************************************************************)
(* No gap is handed out uncounted: while rx_overfulls is 0 and the DMA has *)
(* not lapped the copy loop, the bytes handed out are the first that came, *)
(* all of them and in order, and the bytes behind them are intact, in      *)
(* rx_buffer and then in the ring.  The one exception is a buffer that is  *)
(* overrun by now: the next receive_byte (Overrun), or the next            *)
(* rx_dma_check (RingOverrun), will count it.                              *)
(***************************************************************************)
NothingLostUncounted ==
  rx_overfulls = 0 /\ ~lapped =>
    /\ got = [i \in 1 .. rx_pos_read |-> i]
    /\ rx_pos_write = Fetched
    /\ Overrun \/ \A i \in (rx_pos_read + 1) .. rx_pos_write :
                     rx_buffer[(i - 1) % RX_BUFFER_SIZE] = i
    /\ RingOverrun \/ \A i \in (Fetched + 1) .. Transferred :
                         rxDMAbuf[(i - 1) % RX_DMA_SIZE] = i

(***************************************************************************)
(* An overrun of either buffer leaves a gap, but nothing else: what is     *)
(* handed out was received, no byte twice and none out of order.           *)
(***************************************************************************)
InOrder == ~lapped => Increasing(got)

(***************************************************************************)
(* receive_count's answer is a promise: receive_byte, called as often, has *)
(* a byte each time, though it may have to skip the oldest ones between.   *)
(* receive_n_bytes does not look at its result.                            *)
(***************************************************************************)
PromiseKept == pc = "test" /\ cnt = 0 => rx_pos_read # rx_pos_write

(***************************************************************************)
(* What has come is handed out: when the line falls silent and the worker  *)
(* asks for a byte again and again, nothing stays in the ring or in        *)
(* rx_buffer, wherever an overrun has left the positions.                  *)
(***************************************************************************)
Emptied == rx_pos_read = rx_pos_write /\ Fetched = Transferred
AsksForOne == \E n \in NBytes : n = 1 /\ receive_n_bytes(n)
EverythingIsRead == <>[][~Transfer]_vars /\ []<><<AsksForOne>>_vars => <>[]Emptied
=============================================================================
