SPECIFICATION Spec

CONSTANTS
    RxBufferLen = 60
    FlushChunk = 2
    Expectations <- MCExpectations
    RspBufferLens = {3}
    Rooms = {3, 4}
    Messages <- MCMessages
    Streams <- MCStreams
    FormatBufLen = 42
    Prefix <- MCPrefix

INVARIANTS
    TypeOK
    MessagesArrive
    ArgumentsArrive

