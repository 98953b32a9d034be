SPECIFICATION SpinnerSpec
CONSTANTS
    t1 = t1  t2 = t2
    Msgs = {m1, m2, m3}
    Smalls = {s1, s2, s3}
    Plans = {p1}
    MaxLegs = 2
    RustLegs = 1
    TransIds <- OneTransId
    Order <- MCOrder
    SubsystemOf <- MCOf
    Frames <- LiveFrames
    MsgTypes <- MCMsgTypes
    Parsed <- MCParsed
    Serialized <- MCSerialized
    WithErrQueue = {"SPINNER"}
    WithOutQueue = {"SPINNER"}
    TaskErrors = {}
    InboundLen = 1
    OutboundLen = 2
    OutboundErrLen = 1
    DispErrLen = 1
    TxBufferLen = 2
    NoMsg = NoMsg
    NoFrame = NoFrame
    NoData = NoData
PROPERTIES RequestsAreAnswered KeepsContract
