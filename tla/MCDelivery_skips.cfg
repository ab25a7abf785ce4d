\* Two writers draw their ordinals in one order and commit in the other.
CONSTANTS
    ka = ka
    kb = kb
    Keys = {ka, kb}
    TailKey = ka
    Sites <- OneEach
    FeedBatch = 2
SPECIFICATION DeliverySpec
INVARIANT FeedExactlyOnce
CHECK_DEADLOCK FALSE
