CONSTANTS
    own = own
    ballad = ballad
    ann = ann
    None = None
    Songs <- MCSongs
    LocalSongs <- MCLocalSongs
    ServerSongs <- MCServerSongs
    Friends <- MCFriend
    Players <- MCPlayers
    Pollers <- MCOnePoller
    MaxEvents = 1
SPECIFICATION FairFollowSpec
PROPERTIES CatchesUp
CONSTRAINT LyricClosed
