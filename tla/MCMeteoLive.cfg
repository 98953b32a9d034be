SPECIFICATION MeteoSpec
CONSTANTS
    t1 = t1  t2 = t2  ch1 = ch1  ch2 = ch2
    Msgs = {m1, m2}
    Payloads = {p1, p2}
    Channels = {ch1, ch2}
    TransIds <- OneTransId
    Order <- MCOrder
    SubsystemOf <- MCOf
    Frames <- LightFrames
    MsgTypes <- MCMsgTypes
    Parsed <- MCParsed
    Serialized <- MCSerialized
    WithErrQueue = {"METEO"}
    WithOutQueue = {"METEO"}
    TaskErrors <- MCErrors
    InboundLen = 2
    OutboundLen = 2
    OutboundErrLen = 1
    DispErrLen = 1
    TxBufferLen = 2
    NoMsg = NoMsg
    NoFrame = NoFrame
    NoPayload = NoPayload
PROPERTIES NoRequestVanishes KeepsContract
