SPECIFICATION Spec
CONSTANTS
    b1 = b1  b2 = b2  t1 = t1
    Msgs = {b1, b2}
    TransIds <- MCTransIds
    Order <- MCOrder
    SubsystemOf <- MCOf
    Frames <- MCFrames
    MsgTypes <- MCMsgTypes
    Parsed <- MCParsed
    Serialized <- MCSerialized
    WithErrQueue = {"A"}
    WithOutQueue = {"A", "B"}
    TaskErrors <- MCTaskErrors
    InboundLen = 1
    OutboundLen = 1
    OutboundErrLen = 1
    DispErrLen = 1
    TxBufferLen = 2
    NoMsg = NoMsg
    NoFrame = NoFrame
INVARIANTS TypeOK OneOwner OwnPool ErrorFramesWhole
PROPERTIES HandOvers CutShortIsReported OwnErrorsLeave Drains
