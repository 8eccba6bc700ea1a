\* Frames with short bodies, and the other end hangs up.
CONSTANTS
    HEADER = 3
    BUFSIZE = 5
    BodyLens = {1, 2}
    MaxFrames = 2
SPECIFICATION FramingSpec
PROPERTY EofCloses
CHECK_DEADLOCK FALSE
