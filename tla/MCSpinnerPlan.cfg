SPECIFICATION SpinnerSpec
CONSTANTS
    t1 = t1  t2 = t2
    Msgs = {m1, m2}
    Smalls = {s1, s2}
    Plans = {p1}
    MaxLegs = 2
    RustLegs = 1
    TransIds <- MCTransIds
    Order <- MCOrder
    SubsystemOf <- MCOf
    Frames <- PlanFrames
    MsgTypes <- MCMsgTypes
    Parsed <- MCParsed
    Serialized <- MCSerialized
    WithErrQueue = {"SPINNER"}
    WithOutQueue = {"SPINNER"}
    TaskErrors = {}
    InboundLen = 2
    OutboundLen = 2
    OutboundErrLen = 1
    DispErrLen = 1
    TxBufferLen = 2
    NoMsg = NoMsg
    NoFrame = NoFrame
    NoData = NoData
SYMMETRY Slots
INVARIANTS SmallDataSuffices DataOwned RepliesMatch QueuesSuffice
PROPERTIES PlanFixedOnceRunning
