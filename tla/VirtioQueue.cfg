SPECIFICATION Spec
CONSTANTS
  Size = 3
  MaxGenerations = 1
INVARIANT RingConsistent
PROPERTY IsRequestQueue
