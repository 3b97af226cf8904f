\* The receive buffers, with the thread kept from them for any time.
SPECIFICATION LiveSpec
CONSTANTS
  RX_INITIAL = 8
  RX_DMA_SIZE = 2
  RX_BUFFER_SIZE = 4
  NBytes <- MCNBytes
INVARIANTS
  TypeOK
  InStep
  NothingLostUncounted
  InOrder
  PromiseKept
PROPERTY
  EverythingIsRead
