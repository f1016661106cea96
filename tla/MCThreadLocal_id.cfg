\* A worker asks for its thread id through the planted stub.
SPECIFICATION Spec
CONSTANTS
  Primary = Primary
  Workers = {w1}
  Values = {1}
  MaxIndices = 1
INVARIANTS ThreadIdIsOwn
