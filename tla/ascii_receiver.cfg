SPECIFICATION Spec

CONSTANTS
  BufSize = 16
  MaxFrames = 2
  MaxErr = 1
  Junk = {0, 65535}
  Frames <- MCFrames
  Noise <- MCNoise

CHECK_DEADLOCK FALSE

INVARIANT TypeOK
INVARIANT SetpointSent
PROPERTY FrameWhole
PROPERTY CleanFrameTaken
