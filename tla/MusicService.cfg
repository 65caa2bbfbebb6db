CONSTANTS
    first = first
    second = second
    remote = remote
    None = None
    Songs <- MCSongs
    LocalSongs <- MCLocalSongs
    ServerSongs <- MCServerSongs
    Players <- MCPlayers
    MaxEvents = 2
SPECIFICATION FairSpec
INVARIANTS TypeOK Discipline OneVoice SoundIsShown NoCrashWhileRunning
PROPERTIES SoundingNotCut SilentAfterKill PlaysOn
CONSTRAINT NearlyUndisturbed
