SPECIFICATION PushSpec
CONSTANTS
    MaxPosts = 2
    Actors = {ana, bo}
    Threads = {t1}
    Instants <- MCInstants
INVARIANTS PushTypeOK PushReachesSubscribers
PROPERTIES SubscribersCatchUp
