SPECIFICATION Spec
CONSTANTS
  h1 = h1  h2 = h2  b1 = b1  b2 = b2
  Handlers = {h1, h2}
  Buffers = {b1, b2}
  Probes <- ProbeBounds
  Draws <- DrawBounds
  NoBuffer = NoBuffer
  Nobody = Nobody
INVARIANTS NoPanic
SYMMETRY Symmetry
CHECK_DEADLOCK FALSE
