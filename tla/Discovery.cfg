SPECIFICATION DiscoveryFairSpec
CONSTANTS
    Servers <- MCServers
    Statics <- MCStatics
    Foreign <- MCForeign
    DefaultPort = "p0"
    Interval = 2
    Expiry = 12
    AnnounceEvery = 3
    Nowhere = Nowhere
INVARIANTS
  ServerInv
PROPERTIES SentToHeardServer FollowsServer AnnouncesAddress
