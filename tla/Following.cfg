CONSTANTS
    own = own
    ballad = ballad
    ann = ann
    None = None
    Songs <- MCSongs
    LocalSongs <- MCLocalSongs
    ServerSongs <- MCServerSongs
    Friends <- MCFriend
    Players <- MCPlayers
    Pollers <- MCPollers
    MaxEvents = 1
SPECIFICATION FairFollowSpec
INVARIANTS FollowTypeOK FollowedIsPolled
PROPERTIES UserChoiceStands PlaysAsMusicService PollingEnds CatchesUpUnlessFailed
CONSTRAINT LyricClosed Undisturbed
