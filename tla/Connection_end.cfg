CONSTANTS
    reader = reader
    sender = sender
    other = other
    NULL = NULL
    Coros = {reader, sender, other}
    Readers = {reader}
    Senders = {sender}
    MaxData = 2
    MaxSpace = 2
SPECIFICATION Spec
INVARIANT EndIsReported
CHECK_DEADLOCK FALSE
