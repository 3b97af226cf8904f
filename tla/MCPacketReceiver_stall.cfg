\* README: a stalled packet is discarded by the timeout.
SPECIFICATION Spec
CONSTANTS
  PACKET_SIGN_RX <- MCSign
  CodeCell <- MCCode
  SizeCell <- MCSizeCell
  SizeOf <- MCSizeOf
  Crc <- MCCrc
  NOISE <- MCNoise
  Payloads <- MCPayloads
  PACKET_BUF = 7
  MAX_SENT = 1
  MAX_FAULTS = 1
PROPERTY
  StalledPacketDiscarded
