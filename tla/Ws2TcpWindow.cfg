CONSTANTS Frames = 1
          FrameLen = 2
SPECIFICATION RawSpec
INVARIANT NoFrameParsed
CHECK_DEADLOCK FALSE
