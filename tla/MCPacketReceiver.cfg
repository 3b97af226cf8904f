\* Framing on a line that loses and garbles cells.
SPECIFICATION Spec
CONSTANTS
  PACKET_SIGN_RX <- MCSign
  CodeCell <- MCCode
  SizeCell <- MCSizeCell
  SizeOf <- MCSizeOf
  Crc <- MCCrc
  NOISE <- MCNoise
  Payloads <- MCPayloads
  PACKET_BUF = 7
  MAX_SENT = 2
  MAX_FAULTS = 1
INVARIANTS
  TypeOK
  OnlyWhatWasSent
  CleanLineDelivers
PROPERTIES
  PacketsGetThrough
  SilenceTimesOut
