SPECIFICATION FairSpec
CONSTANTS
  Files <- MCFiles
  Entry = "main"
  Graphs <- MCGraphs
  MaxStack = 5
\* resolve returns.
CHECK_DEADLOCK FALSE
INVARIANTS TypeOK ParsedOnce GraphComplete
PROPERTIES ImplementsLinkOrder WalkEnds Answered
