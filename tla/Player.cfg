SPECIFICATION FairSpec
CONSTANTS
  Frames = 7
  SkipFrames = 2
  SeqMod = 4
INVARIANT TypeOK
INVARIANT BufferOutlivesSender
INVARIANT EndsWithEmptyBuffer
PROPERTY FramesInOrder
PROPERTY PlaybackSpec
PROPERTY PlayEnds
\* A sender that keeps its lock, or an exception, may stop everything.
CHECK_DEADLOCK FALSE
