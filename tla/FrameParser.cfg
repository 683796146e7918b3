SPECIFICATION Spec
CONSTANTS
  Base = 4
  SOF <- MCSOF
  MaxLen = 2
  Crc <- MCCrc
  Streams <- MCStreams
  Reads = {0, 1, 2, 5, 16}
INVARIANTS TypeOK ChunksDoNotMatter IntactFramesFound
