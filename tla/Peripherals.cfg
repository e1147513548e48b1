SPECIFICATION Spec
CONSTANTS
  Callback = {f, g}
  Arg = {x, y}
  Null = Null
  Timer = {t1, t2}
  RxSize = 2
  MaxBytes = 3
  MaxEnds = 2
  WireSize = 2
  MaxSize = 3
  MaxTransfers = 2
INVARIANTS CallsWhatIsAttached NoStrayTimer ReadsThisEra IndicesMatchBuffers OneBufferIsWhole
CHECK_DEADLOCK FALSE
