\* The primary and a worker, two indices, two values to store.
SPECIFICATION Spec
CONSTANTS
  Primary = Primary
  Workers = {w1}
  Values = {1, 2}
  MaxIndices = 2
INVARIANTS TlsIsolation
PROPERTIES GetReturnsOwnValue
