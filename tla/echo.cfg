\* Pbufs alone and in pairs through a send buffer of two; data also with an error,
\* or after the end of the stream; writes that fail now and then.
SPECIFICATION FairSpec
CONSTANTS
    MaxPbufs = 6
    SndBuf = 2
    Window = 4
INVARIANTS PbufsCounted EndAccounts
PROPERTIES ImplementsStream Drains
CHECK_DEADLOCK FALSE
