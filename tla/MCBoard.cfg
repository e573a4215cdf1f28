SPECIFICATION Spec
CONSTANTS
    MaxPosts = 3
    Actors = {ana, bo}
    Threads = {t1, t2}
    Instants <- MCInstants
SYMMETRY MCSymmetry
INVARIANTS TypeOK WatchPairing NothingLost NeverTwice SeenWasReturned
PROPERTIES InboxSpec CursorNeverMovesBack UnreadUntilReturned
