SPECIFICATION FairSpec
CONSTANTS
  Channels = {trades, book}
  MaxFrames = 1
  MaxConnections = 2
PROPERTIES StreamRecovers
