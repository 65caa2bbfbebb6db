CONSTANTS
    alice = alice
    bob = bob
    None = None
    Users <- MCUsers
    MaxMessages = 3
    MaxBroadcasts = 2
SPECIFICATION Spec
INVARIANTS TablesInOrder BadgeSettles ScreenComplete
SYMMETRY Symmetry
