SPECIFICATION FairSpec
CONSTANTS
  Channels = {trades, book}
  MaxFrames = 2
  MaxConnections = 2
INVARIANTS FramesInOrder GapsAreAnnounced LiveStreamIsSubscribed
PROPERTIES DropsAreNoticed
