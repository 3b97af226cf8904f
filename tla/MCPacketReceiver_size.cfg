\* README: a packet of up to PACKET_MAX_SIZE is accepted.
SPECIFICATION Spec
CONSTANTS
  PACKET_SIGN_RX <- MCSign
  CodeCell <- MCCode
  SizeCell <- MCSizeCell
  SizeOf <- MCSizeOf
  Crc <- MCCrc
  NOISE <- MCNoise
  Payloads <- MCPayloads
  PACKET_BUF = 7
  MAX_SENT = 1
  MAX_FAULTS = 0
INVARIANT
  LegalSizesDelivered
