SPECIFICATION Spec
CONSTANTS
  Conns = {1, 2}
  Buckets = 2
  Latencies = {0, 2}
  Bodies <- Bodies2
  MaxKeepalive = 2
  HeaderBuffer = 2
CHECK_DEADLOCK FALSE
INVARIANT ShownInItsBucket
