--------------------------- MODULE PacketReceiver ---------------------------
(***************************************************************************)
(* packet_receiver.c (the USING_PICO_SDK build) on a serial line: framing, *)
(* the checks of a packet, receive_packets_worker and its timeout.         *)
(*                                                                         *)
(* The line carries CELLS: the signature is the cells of PACKET_SIGN_RX,   *)
(* the header one cell for packet_code and packet_code_n and one for       *)
(* packet_size, the CRC one cell.  The CRC has no collisions.  A line      *)
(* fault loses a cell or turns it into NOISE.  The host may send anything  *)
(* at any time; packet data may look like a signature.                     *)
(***************************************************************************)
EXTENDS Integers, Sequences

CONSTANTS
  PACKET_SIGN_RX,   \* the cells of the signature
  CodeCell,         \* a code with its complement
  SizeCell(_),      \* a size as the host writes it ...
  SizeOf(_),        \* ... and what any cell means when it is read as a size
  Crc(_),           \* crc32_calc of a sequence of cells
  NOISE,
  Payloads,         \* the bodies the host sends
  PACKET_BUF,       \* sizeof(packet_buf)
  MAX_SENT,         \* bound: packets since the host's last restart
  MAX_FAULTS        \* bound: faults of the line

HEADER == 2
CRC == 1
PACKET_MAX_SIZE == PACKET_BUF - (HEADER + CRC)

ASSUME ReceiverAssumption ==
  /\ PACKET_SIGN_RX # <<>> /\ PACKET_BUF \in Nat /\ PACKET_MAX_SIZE \in Nat
  /\ \A p \in Payloads : Len(p) <= PACKET_MAX_SIZE /\ SizeOf(SizeCell(Len(p))) = Len(p)
  /\ MAX_SENT \in Nat /\ MAX_FAULTS \in Nat

VARIABLES
  line,           \* cells on their way
  rx,             \* the receive buffer of usart_mini.c, emptied cell by cell
  receive_check,  \* which of the four functions is up
  packet_start,   \* the window of the last cells
  packet_buf,     \* the cells of the packet so far (packet_cnt is its length)
  packet_size,
  expired,        \* more than PACKET_TIMEOUT_mS since packet_timeout was restarted?
  pc,             \* "top" of receive_packets_worker, or its "while"
  sent, delivered,\* history since the host's last restart: bodies, in order
  faults,         \* how many faults the line has had
  disturbed       \* history: a fault, or a timeout inside a packet, since then

lineVars == <<line, rx>>
parserVars == <<receive_check, packet_start, packet_buf, packet_size>>
historyVars == <<sent, delivered, faults, disturbed>>
vars == <<lineVars, parserVars, expired, pc, historyVars>>

Init ==
  /\ line = <<>> /\ rx = <<>>
  /\ receive_check = "start" /\ packet_start = <<>> /\ packet_buf = <<>> /\ packet_size = 0
  /\ expired = FALSE
  /\ pc = "top"
  /\ sent = <<>> /\ delivered = <<>> /\ faults = 0 /\ disturbed = FALSE

----------------------------------------------------------------------------
(* The host and the line *)

Content(p) == <<CodeCell, SizeCell(Len(p))>> \o p
Frame(p) == PACKET_SIGN_RX \o Content(p) \o <<Crc(Content(p))>>

\* No beginning of the signature is its end, so that no part of one makes a whole
\* one with what came before: the four bytes of PACKET_SIGN_RX are all different.
ASSUME SignatureAssumption ==
  \A k \in 1 .. (Len(PACKET_SIGN_RX) - 1) :
    \E i \in 1 .. k : PACKET_SIGN_RX[i] # PACKET_SIGN_RX[Len(PACKET_SIGN_RX) - k + i]

\* What can be on the line, and the CRCs among it.
Cells == {NOISE} \union UNION {{Frame(p)[i] : i \in 1 .. Len(Frame(p))} : p \in Payloads}
Crcs == {Crc(Content(p)) : p \in Payloads}

ASSUME LineAssumption ==
  /\ PACKET_SIGN_RX \in Seq(Cells)
  /\ \A p \in Payloads : p \in Seq(Cells) /\ Frame(p) \in Seq(Cells)
  /\ \A c \in Cells : SizeOf(c) \in Nat

\* The CRC tells the packets apart, from each other and from what else can be read
\* as one, and no CRC stands anywhere but behind its packet.
ASSUME CrcAssumption ==
  /\ \A p, q \in Payloads : Crc(Content(p)) = Crc(Content(q)) => p = q
  /\ NOISE \notin Crcs
  /\ \A p \in Payloads : \A i \in 1 .. (Len(Frame(p)) - 1) : Frame(p)[i] \notin Crcs
  /\ \A c \in Cells : SizeOf(c) <= PACKET_MAX_SIZE =>
       \A body \in [1 .. SizeOf(c) -> Cells] :
         LET s == <<CodeCell, c>> \o body
         IN  Crc(s) \in Cells => \E p \in Payloads : s = Content(p)

Send ==
  /\ Len(sent) < MAX_SENT
  /\ \E p \in Payloads : line' = line \o Frame(p) /\ sent' = Append(sent, p)
  /\ UNCHANGED <<rx, parserVars, expired, pc, delivered, faults, disturbed>>

Arrive ==
  /\ line # <<>>
  /\ rx' = Append(rx, Head(line))
  /\ line' = Tail(line)
  /\ UNCHANGED <<parserVars, expired, pc, historyVars>>

\* A cell is lost, or arrives as something else.
Fault ==
  /\ line # <<>> /\ faults < MAX_FAULTS
  /\ rx' \in {rx, Append(rx, NOISE)}
  /\ line' = Tail(line)
  /\ faults' = faults + 1 /\ disturbed' = TRUE
  /\ UNCHANGED <<parserVars, expired, pc, sent, delivered>>

\* Nothing is on its way and the receiver searches for a packet: the host,
\* which waits for answers, can start over.
Idle == line = <<>> /\ rx = <<>> /\ receive_check = "start" /\ pc = "top"

HostRestart ==
  /\ Idle
  /\ sent' = <<>> /\ delivered' = <<>> /\ disturbed' = FALSE
  /\ UNCHANGED <<lineVars, parserVars, expired, pc, faults>>

Expire ==
  /\ ~expired
  /\ expired' = TRUE
  /\ UNCHANGED <<lineVars, parserVars, pc, historyVars>>

----------------------------------------------------------------------------
(* receive_packets_worker *)

packet_internal_reset ==
  /\ packet_start' = <<>> /\ packet_size' = 0 /\ packet_buf' = <<>>
  /\ receive_check' = "start"

\* receive_packets_init: the window and packet_size keep their values.
receive_packets_init ==
  /\ receive_check' = "start" /\ packet_buf' = <<>>
  /\ expired' = FALSE
  /\ UNCHANGED <<packet_start, packet_size>>

\* History: the timeout takes cells of a packet away from the parser.
MidPacket == receive_check # "start" \/ packet_start \notin {<<>>, PACKET_SIGN_RX}

\* The timeout; what is in the receive buffer stays there.
WorkerTimeout ==
  /\ pc = "top" /\ expired
  /\ packet_internal_reset
  /\ expired' = FALSE
  /\ pc' = "while"
  /\ disturbed' = (disturbed \/ MidPacket)
  /\ UNCHANGED <<lineVars, sent, delivered, faults>>

WorkerNoTimeout ==
  /\ pc = "top" /\ ~expired /\ rx # <<>>
  /\ pc' = "while"
  /\ UNCHANGED <<lineVars, parserVars, expired, historyVars>>

WorkerReturns ==
  /\ pc = "while" /\ rx = <<>>
  /\ pc' = "top"
  /\ UNCHANGED <<lineVars, parserVars, expired, historyVars>>

----------------------------------------------------------------------------
(* The four receive_check functions *)

LastOf(s, n) == IF Len(s) <= n THEN s ELSE SubSeq(s, Len(s) - n + 1, Len(s))

\* Mutant of Window: a cell that does not fit starts the search anew, and is lost.
NaiveWindow(cell) ==
  IF \E n \in 1 .. Len(PACKET_SIGN_RX) :
       SubSeq(PACKET_SIGN_RX, 1, n) = Append(packet_start, cell)
  THEN Append(packet_start, cell) ELSE <<>>

\* The window slides: packet_start << 8 | rx.
Window(cell) == LastOf(Append(packet_start, cell), Len(PACKET_SIGN_RX))

receive_check_start ==
  /\ pc = "while" /\ receive_check = "start" /\ rx # <<>>
  /\ rx' = Tail(rx)
  /\ packet_start' = Window(Head(rx))
  /\ IF packet_start' = PACKET_SIGN_RX
     THEN packet_buf' = <<>> /\ receive_check' = "info"
     ELSE UNCHANGED <<packet_buf, receive_check>>
  /\ UNCHANGED <<line, packet_size, expired, pc, historyVars>>

\* receive_n_bytes(n) when the cells are there: all are taken, those that fit kept.
Collected(n) ==
  LET all == packet_buf \o SubSeq(rx, 1, n)
  IN  IF Len(all) <= PACKET_BUF THEN all ELSE SubSeq(all, 1, PACKET_BUF)
RestOf(n) == SubSeq(rx, n + 1, Len(rx))
Overfull(n) == Len(Collected(n)) >= PACKET_BUF

\* Mutant of Available: one cell more is asked for.
StrictlyMore(n) == rx # <<>> /\ Len(rx) > n

Available(n) == rx # <<>> /\ Len(rx) >= n

Taking(check, n) ==
  pc = "while" /\ receive_check = check /\ Available(n) /\ rx' = RestOf(n)

\* receive_n_bytes without enough cells: the function returns FALSE, and the
\* worker's loop, which only looks whether there is any cell, calls it again.
Needed == CASE receive_check = "start" -> 1 [] receive_check = "info" -> HEADER
            [] receive_check = "body" -> packet_size [] receive_check = "crc" -> CRC

Stalled == pc = "while" /\ rx # <<>> /\ Len(rx) < Needed

CheckWaits == Stalled /\ UNCHANGED vars

\* Mutant of SizeTooBig: a size is trusted.
NoSizeTooBig(size) == size < 0

SizeTooBig(size) == size > PACKET_MAX_SIZE

receive_check_info ==
  /\ Taking("info", HEADER)
  /\ LET buf  == Collected(HEADER)
         size == SizeOf(buf[2])
     IN  IF Overfull(HEADER) \/ buf[1] # CodeCell
         THEN receive_packets_init
         ELSE /\ packet_size' = IF SizeTooBig(size) THEN 0 ELSE size
              /\ IF SizeTooBig(size)
                 THEN /\ packet_start' = <<>> /\ packet_buf' = <<>>
                      /\ receive_check' = "start" /\ expired' = FALSE
                 ELSE /\ packet_buf' = buf
                      /\ receive_check' = IF size > 0 THEN "body" ELSE "crc"
                      /\ UNCHANGED <<packet_start, expired>>
  /\ UNCHANGED <<line, pc, historyVars>>

receive_check_body ==
  /\ Taking("body", packet_size)
  /\ IF Overfull(packet_size)
     THEN receive_packets_init
     ELSE /\ packet_buf' = Collected(packet_size) /\ receive_check' = "crc"
          /\ UNCHANGED <<packet_start, packet_size, expired>>
  /\ UNCHANGED <<line, pc, historyVars>>

\* Mutant of CrcOk: the comparison is left out.
NoCrcCheck(buf) == buf = buf

CrcOk(buf) == buf[Len(buf)] = Crc(SubSeq(buf, 1, Len(buf) - CRC))

\* A good packet goes to sfu_command_parser, and the worker returns.
receive_check_crc ==
  /\ Taking("crc", CRC)
  /\ LET buf == Collected(CRC)
     IN  IF Overfull(CRC) \/ ~CrcOk(buf)
         THEN UNCHANGED <<delivered, pc>>
         ELSE /\ delivered' = Append(delivered, SubSeq(buf, HEADER + 1, HEADER + packet_size))
              /\ pc' = "top"
  /\ receive_packets_init
  /\ UNCHANGED <<line, sent, faults, disturbed>>

----------------------------------------------------------------------------

Check ==
  \/ receive_check_start \/ receive_check_info \/ receive_check_body \/ receive_check_crc
  \/ CheckWaits
Worker == WorkerTimeout \/ WorkerNoTimeout \/ WorkerReturns \/ Check

Next == Send \/ Arrive \/ Fault \/ HostRestart \/ Expire \/ Worker

\* The worker is called over and over, the line delivers, time passes; the host
\* need not send.
Spec == Init /\ [][Next]_vars /\ WF_vars(Worker) /\ WF_vars(Arrive) /\ WF_vars(Expire)

----------------------------------------------------------------------------
(* Properties *)

(***************************************************************************)
(* The types, and packet_buf's capacity.                                   *)
(***************************************************************************)
TypeOK ==
  /\ receive_check \in {"start", "info", "body", "crc"} /\ pc \in {"top", "while"}
  /\ packet_size \in 0 .. PACKET_MAX_SIZE /\ Len(packet_buf) < PACKET_BUF
  /\ Len(packet_start) <= Len(PACKET_SIGN_RX)
  /\ expired \in BOOLEAN /\ disturbed \in BOOLEAN /\ faults \in 0 .. MAX_FAULTS

\* s is t without some of its elements.
IsSubsequence(s, t) ==
  \E at \in [1 .. Len(s) -> 1 .. Len(t)] :
     \A i \in 1 .. Len(s) : s[i] = t[at[i]] /\ \A j \in 1 .. (i - 1) : at[j] < at[i]

(***************************************************************************)
(* Whatever the line loses, garbles or lets look like a signature: the     *)
(* commands get packets the host sent, each at most once and in order.     *)
(***************************************************************************)
OnlyWhatWasSent == IsSubsequence(delivered, sent)

\* A body of the largest size the header check lets pass never gets through.
Deliverable(p) == Len(p) < PACKET_MAX_SIZE

\* s is what of the first n elements of t can get through: all of it, in its order.
DeliverableOf(s, t, n) ==
  \E at \in [1 .. Len(s) -> 1 .. n] :
     /\ \A i \in 1 .. Len(s) : s[i] = t[at[i]] /\ \A j \in 1 .. (i - 1) : at[j] < at[i]
     /\ \A k \in 1 .. n : Deliverable(t[k]) <=> \E i \in 1 .. Len(s) : at[i] = k

(***************************************************************************)
(* Noise is got over: from an idle receiver on, whatever went wrong        *)
(* before, every packet gets through until the next fault or timeout.      *)
(***************************************************************************)
CleanLineDelivers ==
  Idle /\ ~disturbed => DeliverableOf(delivered, sent, Len(sent))

(***************************************************************************)
(* No packet is left lying in the buffers: what is sent on a clean line    *)
(* gets to the commands without anything more being sent behind it.        *)
(***************************************************************************)
PacketsGetThrough ==
  (sent # <<>>) ~> (disturbed \/ sent = <<>> \/ DeliverableOf(delivered, sent, Len(sent)))

\* From some time on the host sends nothing.
Silent == <>[][~Send /\ ~HostRestart]_vars

(***************************************************************************)
(* When the host falls silent, whatever lies in the buffers, the packet    *)
(* timeout comes again and again: only the rest of a truncated packet      *)
(* keeps the worker from where the timeout is tested, and keeps it forever.*)
(***************************************************************************)
SilenceTimesOut == Silent => []<><<WorkerTimeout>>_vars \/ <>[]Stalled

(***************************************************************************)
(* README, packet framing: "packet_size must be <= PACKET_MAX_SIZE": every *)
(* packet that keeps to it gets through a line without faults.             *)
(***************************************************************************)
LegalSizesDelivered == Idle /\ ~disturbed => delivered = sent

(***************************************************************************)
(* README, timeouts: "if no complete packet is received for                *)
(* PACKET_TIMEOUT_mS, the current packet is discarded": a packet that      *)
(* stays incomplete does not keep the receiver.                            *)
(***************************************************************************)
StalledPacketDiscarded == []<>(receive_check = "start")
=============================================================================
