\* Two frames of any kind, read by halves or at once.
SPECIFICATION StreamSpec
CONSTANTS
  MaxFrames = 2
  Frames <- CodecFrames
  Pieces <- Halves
  Items <- MCItems
  Bodies <- MCBodies
  Headers <- MCHeaders
\* The frames allowed run out.
CHECK_DEADLOCK FALSE
INVARIANTS
  FramesArriveWhole
  BodiesAreReadWhole
PROPERTY
  AllIsReceived
