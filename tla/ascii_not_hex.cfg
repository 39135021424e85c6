SPECIFICATION Spec

CONSTANTS
  BufSize = 16
  MaxFrames = 1
  MaxErr = 1
  Junk = {0, 65535}
  Frames <- MCWrites
  Noise <- MCNoHex

CHECK_DEADLOCK FALSE

PROPERTY OnlyCheckedFrames
