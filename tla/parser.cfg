CONSTANTS
    HeaderLength = 2
    Streams <- SomeStreams
    MaxChunk = 4
    MaxThrows = 2
SPECIFICATION Spec
INVARIANTS WithinBuffer MessagesExact
CHECK_DEADLOCK FALSE
