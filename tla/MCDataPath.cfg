SPECIFICATION MCSpec
CONSTANTS
  max_batch = 2
  mtu = 4
  TxSize = 2
  U16_MAX = 3
  HEADERS_LEN = 2
  L2_LEN = 1
  TxLayout <- MCTxLayout
  PayloadLens = {0, 1}
  Batches <- MCBatches
  SLAB_SIZE = 2
  max_buffers <- MCMaxBuffers
  layout <- MCLayout
  RecvSlots = 2
  OutCapacity = 2
  Datagrams <- MCDatagrams
  MaxDatagrams = 2
  MaxEdits = 1
  Members = 3
  BatchCapacity = 2
  QueueSize = 2
INVARIANTS
  SendContract
  BuffersAccounted
  DeliveredInOrder
PROPERTIES
  SendAllReturns
  QueuesServed
CHECK_DEADLOCK FALSE
