CONSTANTS
  DCs = {1, 2} Moduli = {11, 47} MaxNonce = 2 MaxLosses = 1 MaxSleeps = 1 MaxStarts = 1
  MaxCalls = 1 MaxCrashes = 2
  Slots = {s1, s2} Sizes = {0, 2, 3, 11, 40} FirstPart = 2 MaxPart = 4 MaxParts = 5
  MaxFiles = 3 MaxRefusals = 1
  Files = {f, g} Encrypted = {g} Size <- FileSize Part = 2 Align = 2
  Loads = {d1, d2} MaxLoads = 4
  Messages = {1, 2} Mine = {1} Dates = {1, 2} Media = {v} NoMedia = nomedia
  Groups = {g1, g2} Titles = {t1} Members = {m1} MaxTyped = 2 MaxNews = 1
  Chunk = 3 Short = 2 Lengths = {2, 5} MaxSent = 2 MaxFails = 1
  Keys = {1, 2, 3, 4} Priorities = {1, 2, 3}
  MaxBodies = 1 MaxReplays = 1
SPECIFICATION Spec
INVARIANTS KeysRight HomeRight UploadsRight DownloadsRight IndexRight FrontRight StreamsRight TreesRight StructuresRight
PROPERTIES StartEnds FilesEnd FrontLive
CHECK_DEADLOCK FALSE
