CONSTANTS
    reader = reader
    sender = sender
    other = other
    NULL = NULL
    Coros = {reader, sender, other}
    Readers = {reader}
    Senders = {sender}
    MaxData = 2
    MaxSpace = 2
SPECIFICATION FairSpec
INVARIANTS AwaitersListed ServesSuspended NoUseAfterDelete
PROPERTIES ReadinessServed CloseEndsAll
CHECK_DEADLOCK FALSE
