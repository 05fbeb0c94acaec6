CONSTANTS
    Main = Main
    Nobody = Nobody
    noop = NULL
    NULL = NULL
    Frames = {a, b, c}
    past = past
    Nodes = {a, b, c, past}
    MaxCalls = 3
    MaxPosts = 2
SPECIFICATION Spec
INVARIANTS AwaitersLinked FramesOwned WaitersListed
PROPERTIES NotifiedResumed
CHECK_DEADLOCK FALSE
