SPECIFICATION MeteoSpec
CONSTANTS
    t1 = t1  t2 = t2  ch1 = ch1  ch2 = ch2
    Msgs = {m1, m2, m3}
    Payloads = {p1, p2, p3}
    Channels = {ch1, ch2}
    TransIds <- MCTransIds
    Order <- MCOrder
    SubsystemOf <- MCOf
    Frames <- SensorFrames
    MsgTypes <- MCMsgTypes
    Parsed <- MCParsed
    Serialized <- MCSerialized
    WithErrQueue = {"METEO"}
    WithOutQueue = {"METEO"}
    TaskErrors <- MCErrors
    InboundLen = 1
    OutboundLen = 1
    OutboundErrLen = 1
    DispErrLen = 1
    TxBufferLen = 1
    NoMsg = NoMsg
    NoFrame = NoFrame
    NoPayload = NoPayload
INVARIANTS MeteoTypeOK NoPayloadShortage PayloadsOwned RepliesMatch NothingForgotten
SYMMETRY Slots
