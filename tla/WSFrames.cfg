\* Fragments up to and beyond the cap, control frames in between, two writers.
SPECIFICATION FairSpec
CONSTANTS
  Hello = TRUE
  Lengths = {0, 1, 2, 4}
  MaxPayload = 3
  MaxFrames = 3
  MaxPings = 2
CHECK_DEADLOCK FALSE
INVARIANTS FramesTypeOK FramesApart DeliveredWhole Bounded
PROPERTY PingerEnds
