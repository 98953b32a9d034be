-------------------------------- MODULE Meteo --------------------------------
(***************************************************************************)
(* The METEO subsystem (rust/src/meteo/mod.rs) under the message           *)
(* dispatcher: its two pools, its task, and the parsing, allocation and    *)
(* release functions the dispatcher's workers call on its messages.        *)
(*                                                                         *)
(* Every step is a step of Dispatcher, with what METEO's functions do to   *)
(* the payloads added to it, or leaves the dispatcher's state alone.       *)
(* meteo_alloc takes struct and payload inside one critical section;       *)
(* meteo_free gives them back in two, payload first, so other tasks run    *)
(* between them.                                                           *)
(***************************************************************************)
EXTENDS Dispatcher

CONSTANTS
    Payloads,           \* MESSAGE_PAYLOAD_ARR
    Channels,           \* channel numbers in requests
    NoPayload

METEO == "METEO"

Requests == {"GET_TEMPERATURE", "GET_PRESSURE", "GET_HUMIDITY", "GET_LIGHT_LEVEL"}
ReplyTo == [GET_TEMPERATURE |-> "TEMPERATURE_REPLY", GET_PRESSURE    |-> "PRESSURE_REPLY",
            GET_HUMIDITY    |-> "HUMIDITY_REPLY",    GET_LIGHT_LEVEL |-> "LIGHT_LEVEL_REPLY"]
Replies == {ReplyTo[r] : r \in Requests}

I2CCommError        == -1
TxQueueFullError    == -2
MsgCreationError    == -4
SensorNotReadyError == -5
InvalidSensorData   == -6
MeteoErrors == {I2CCommError, TxQueueFullError, MsgCreationError, SensorNotReadyError,
                InvalidSensorData}

(* MSG_CONF: METEO is registered alone in this module, with all of its     *)
(* queues, a parser for each request and a serializer for each reply; its  *)
(* two pools are of one size.                                              *)
ASSUME MeteoAssumption ==
    /\ Order = <<METEO>> /\ METEO \in WithOutQueue \cap WithErrQueue
    /\ Parsed = Requests /\ Serialized = Replies /\ TaskErrors = MeteoErrors
    /\ IsFiniteSet(Payloads) /\ NoPayload \notin Payloads
    /\ Cardinality(Msgs) <= Cardinality(Payloads)

VARIABLES
    payload_pool,       \* MESSAGE_PAYLOAD_POOL: the free payloads
    payload,            \* [Payloads -> channel number stored in the payload]
    data,               \* [Msgs -> the data pointer of the struct]
    giving,             \* who has given the payload back but not yet the struct
    task,               \* the meteo task: pc, request, reply, error to report
    light_state,        \* Tsl2561.state, as the driver believes it
    calibrated          \* Bmp085.calib.is_some()

sensorVars == <<light_state, calibrated>>
meteoVars == <<payload_pool, payload, data, giving, task, sensorVars>>
allVars == <<vars, meteoVars>>

(* What a payload holds after mem::zeroed; a free one, whose content is    *)
(* the pool allocator's, is shown the same way.                            *)
Zero == "zeroed"
IdleTask == [pc |-> "idle", req |-> NoMsg, reply |-> NoMsg, err |-> NO_ERROR]

MeteoTypeOK ==
    /\ TypeOK
    /\ payload_pool \subseteq Payloads
    /\ payload \in [Payloads -> Channels \cup {Zero}]
    /\ data \in [Msgs -> Payloads \cup {NoPayload}]
    /\ giving \subseteq {"rx", "tx", "req", "reply"}
    /\ task \in [pc : {"idle", "measure", "reply", "send", "full", "error", "drop"},
                 req : Msgs \cup {NoMsg}, reply : Msgs \cup {NoMsg},
                 err : MeteoErrors \cup {NO_ERROR}]
    /\ light_state \in {"On", "Off"}
    /\ calibrated \in BOOLEAN

MeteoInit ==
    /\ Init
    /\ payload_pool = Payloads
    /\ payload = [p \in Payloads |-> Zero]
    /\ data = [m \in Msgs |-> NoPayload]
    /\ giving = {}
    /\ task = IdleTask
    /\ light_state = "Off"
    /\ calibrated = FALSE

-----------------------------------------------------------------------------
(* meteo_alloc and meteo_free                                              *)

(* The part of meteo_alloc that concerns the payload: msg_pool.lock()      *)
(* keeps everybody else out until both are taken and zeroed.               *)
TakePayload(m) ==
    \E p \in payload_pool :
       /\ payload_pool' = payload_pool \ {p}
       /\ payload' = [payload EXCEPT ![p] = Zero]
       /\ data' = [data EXCEPT ![m] = p]

(* A struct taken in vain when no payload is left goes through meteo_free  *)
(* before anything was written to it: NoPayloadShortage says that it never *)
(* comes to that.                                                          *)
CannotAlloc == {} \in {msg_pool, payload_pool}

GivePayload(who, m) ==
    /\ who \notin giving
    /\ payload_pool' = payload_pool \cup {data[m]}
    /\ payload' = [payload EXCEPT ![data[m]] = Zero]
    /\ giving' = giving \cup {who}
    /\ UNCHANGED <<vars, data, task, sensorVars>>

GiveMsg(who, m) ==
    /\ who \in giving
    /\ giving' = giving \ {who}
    /\ data' = [data EXCEPT ![m] = NoPayload]
    /\ UNCHANGED <<payload_pool, payload, sensorVars>>

-----------------------------------------------------------------------------
(* The receive worker on a METEO frame.                                    *)

MeteoRxAlloc(m) ==
    /\ RxAlloc(m)
    /\ TakePayload(m)
    /\ UNCHANGED <<giving, task, sensorVars>>

MeteoRxAllocFail == CannotAlloc /\ RxAllocFail /\ UNCHANGED meteoVars

(* Mutant: the outcome of the parsing is not looked at.                    *)
MeteoRxParse_Unchecked ==
    /\ RxParse
    /\ payload' = [payload EXCEPT ![data[rx.msg]] = rx.frame.arg]
    /\ UNCHANGED <<payload_pool, data, giving, task, sensorVars>>

(* single_channel_num_parse                                                *)
MeteoRxParse ==
    /\ RxParse
    /\ rx.frame.arg \in Channels
    /\ payload' = [payload EXCEPT ![data[rx.msg]] = rx.frame.arg]
    /\ UNCHANGED <<payload_pool, data, giving, task, sensorVars>>

MeteoRxParseFail ==
    /\ RxParseFail
    /\ rx.frame.arg \notin Channels
    /\ UNCHANGED meteoVars

MeteoRxFree ==
    /\ rx.pc = "free"
    /\ \/ GivePayload("rx", rx.msg)
       \/ GiveMsg("rx", rx.msg) /\ RxFree /\ UNCHANGED task

MeteoRxStep ==
    \/ \E m \in Msgs : MeteoRxAlloc(m)
    \/ MeteoRxAllocFail
    \/ MeteoRxParse \/ MeteoRxParseFail
    \/ (RxRoute \/ RxRouteFail) /\ UNCHANGED meteoVars
    \/ MeteoRxFree

-----------------------------------------------------------------------------
(* The transmit worker.  std_response_serialize of a channel number and a  *)
(* float always fits the frame.                                            *)

MeteoTxFree ==
    /\ tx.pc = "free"
    /\ \/ GivePayload("tx", tx.msg)
       \/ GiveMsg("tx", tx.msg) /\ TxFree /\ UNCHANGED task

MeteoTxStep ==
    \/ /\ \/ TxOwnError \/ TxSubsystemError \/ TxMessage
          \/ TxErrorBegin \/ TxErrorEnd \/ TxSend
       /\ UNCHANGED meteoVars
    \/ MeteoTxFree

-----------------------------------------------------------------------------
(* The task: rust_meteo_comm_loop takes a request, process_msg measures,   *)
(* replies or reports an error, and the request is freed when it returns.  *)

request == msg[task.req]

(* That the struct is a request is known: whatever is routed to METEO has  *)
(* one of the types with a parser, so the branch that reports              *)
(* InvalidMsgError is dead.                                                *)
MeteoReceive ==
    /\ task.pc = "idle"
    /\ TaskReceive(METEO)
    /\ task' = [task EXCEPT !.pc = "measure", !.req = Head(incoming[METEO])]
    /\ UNCHANGED <<payload_pool, payload, data, giving, sensorVars>>

Measured  == task' = [task EXCEPT !.pc = "reply"]
Fails(e)  == task' = [task EXCEPT !.pc = "error", !.err = e]

(* Bmp085.measure reads the calibration data once; any transaction fails.  *)
MeasurePressure ==
    /\ request.type \in {"GET_TEMPERATURE", "GET_PRESSURE"}
    /\ \/ Measured /\ calibrated' = TRUE
       \/ Fails(I2CCommError) /\ calibrated' \in {calibrated, TRUE}
    /\ UNCHANGED light_state

MeasureHumidity ==
    /\ request.type = "GET_HUMIDITY"
    /\ Measured
    /\ UNCHANGED sensorVars

(* Tsl2561.measure, and turning the sensor on when it was found off.       *)
MeasureLight ==
    /\ request.type = "GET_LIGHT_LEVEL"
    /\ IF light_state = "Off"
       THEN Fails(SensorNotReadyError) /\ light_state' \in {"Off", "On"}
       ELSE /\ \/ Measured
               \/ \E e \in {I2CCommError, InvalidSensorData} : Fails(e)
            /\ light_state' = light_state
    /\ UNCHANGED calibrated

MeteoMeasure ==
    /\ task.pc = "measure"
    /\ MeasurePressure \/ MeasureHumidity \/ MeasureLight
    /\ UNCHANGED <<vars, payload_pool, payload, data, giving>>

(* Mutant: the channel number is not copied into the reply.                *)
MeteoNewReply_NoChannel(m) ==
    /\ task.pc = "reply"
    /\ TaskNew(METEO, m, ReplyTo[request.type], request.transaction_id)
    /\ TakePayload(m)
    /\ task' = [task EXCEPT !.pc = "send", !.reply = m]
    /\ UNCHANGED <<giving, sensorVars>>

(* MessageWrapper::new, then channel and value are filled in.              *)
MeteoNewReply(m) ==
    /\ task.pc = "reply"
    /\ TaskNew(METEO, m, ReplyTo[request.type], request.transaction_id)
    /\ \E p \in payload_pool :
          /\ payload_pool' = payload_pool \ {p}
          /\ payload' = [payload EXCEPT ![p] = payload[data[task.req]]]
          /\ data' = [data EXCEPT ![m] = p]
    /\ task' = [task EXCEPT !.pc = "send", !.reply = m]
    /\ UNCHANGED <<giving, sensorVars>>

MeteoNoReply ==
    /\ task.pc = "reply"
    /\ CannotAlloc
    /\ Fails(MsgCreationError)
    /\ UNCHANGED <<vars, payload_pool, payload, data, giving, sensorVars>>

(* Mutant: into() without mem::forget, the wrapper's drop starts freeing   *)
(* what was sent.                                                          *)
MeteoSend_DropsPayload ==
    /\ task.pc = "send"
    /\ TaskSend(METEO, task.reply)
    /\ payload_pool' = payload_pool \cup {data[task.reply]}
    /\ task' = [task EXCEPT !.pc = "drop", !.reply = NoMsg]
    /\ UNCHANGED <<payload, data, giving, sensorVars>>

(* Mutant: ... and ends by freeing it.                                     *)
MeteoSend_DropsStruct ==
    /\ task.pc = "send"
    /\ outgoing' = [outgoing EXCEPT ![METEO] = Append(@, task.reply)]
    /\ held' = [held EXCEPT ![METEO] = @ \ {task.reply}]
    /\ free_message(task.reply)
    /\ task' = [task EXCEPT !.pc = "drop", !.reply = NoMsg]
    /\ UNCHANGED <<incoming, out_err, disp_err, rx, tx, wireVars>>
    /\ UNCHANGED <<payload_pool, payload, data, giving, sensorVars>>

MeteoSend ==
    /\ task.pc = "send"
    /\ TaskSend(METEO, task.reply)
    /\ task' = [task EXCEPT !.pc = "drop", !.reply = NoMsg]
    /\ UNCHANGED <<payload_pool, payload, data, giving, sensorVars>>

(* Mutant: a reply that found the queue full is not freed.                 *)
MeteoSendFull_Forgets ==
    /\ task.pc = "send"
    /\ Len(outgoing[METEO]) >= OutboundLen
    /\ task' = [task EXCEPT !.pc = "error", !.err = TxQueueFullError, !.reply = NoMsg]
    /\ UNCHANGED <<vars, payload_pool, payload, data, giving, sensorVars>>

MeteoSendFull ==
    /\ task.pc = "send"
    /\ Len(outgoing[METEO]) >= OutboundLen
    /\ task' = [task EXCEPT !.pc = "full"]
    /\ UNCHANGED <<vars, payload_pool, payload, data, giving, sensorVars>>

MeteoFreeReply ==
    /\ task.pc = "full"
    /\ \/ GivePayload("reply", task.reply)
       \/ /\ GiveMsg("reply", task.reply)
          /\ TaskDrop(METEO, task.reply)
          /\ task' = [task EXCEPT !.pc = "error", !.err = TxQueueFullError, !.reply = NoMsg]

(* Mutant: the error is dropped.                                           *)
MeteoReport_Silent ==
    /\ task.pc = "error"
    /\ task' = [task EXCEPT !.pc = "drop", !.err = NO_ERROR]
    /\ UNCHANGED <<vars, payload_pool, payload, data, giving, sensorVars>>

(* send_err ignores whether the error found room in the queue.             *)
MeteoReport ==
    /\ task.pc = "error"
    /\ TaskReport(METEO, task.err)
    /\ task' = [task EXCEPT !.pc = "drop", !.err = NO_ERROR]
    /\ UNCHANGED <<payload_pool, payload, data, giving, sensorVars>>

(* Mutant: meteo_free gives the struct back before the payload.            *)
MeteoDrop_StructFirst ==
    /\ task.pc = "drop"
    /\ \/ /\ "req" \notin giving
          /\ giving' = giving \cup {"req"}
          /\ TaskDrop(METEO, task.req)
          /\ UNCHANGED <<payload_pool, payload, data, task, sensorVars>>
       \/ /\ "req" \in giving
          /\ giving' = giving \ {"req"}
          /\ payload_pool' = payload_pool \cup {data[task.req]}
          /\ data' = [data EXCEPT ![task.req] = NoPayload]
          /\ task' = IdleTask
          /\ UNCHANGED <<vars, payload, sensorVars>>

MeteoDrop ==
    /\ task.pc = "drop"
    /\ \/ GivePayload("req", task.req)
       \/ GiveMsg("req", task.req) /\ TaskDrop(METEO, task.req) /\ task' = IdleTask

MeteoTaskStep ==
    \/ MeteoReceive \/ MeteoMeasure
    \/ \E m \in Msgs : MeteoNewReply(m)
    \/ MeteoNoReply
    \/ MeteoSend \/ MeteoSendFull \/ MeteoFreeReply
    \/ MeteoReport \/ MeteoDrop

-----------------------------------------------------------------------------
MeteoNext ==
    \/ RxFrame /\ UNCHANGED meteoVars
    \/ MeteoRxStep
    \/ MeteoTxStep
    \/ MeteoTaskStep
    \/ Transmit /\ UNCHANGED meteoVars

(* The three tasks are kept running by the scheduler, the interrupt        *)
(* handler by the hardware.                                                *)
MeteoFairness ==
    /\ WF_allVars(MeteoRxStep)
    /\ WF_allVars(MeteoTxStep)
    /\ WF_allVars(MeteoTaskStep)
    /\ WF_allVars(Transmit /\ UNCHANGED meteoVars)

MeteoSpec == MeteoInit /\ [][MeteoNext]_allVars /\ MeteoFairness

-----------------------------------------------------------------------------
(* Properties                                                              *)

(* METEO keeps the contract the dispatcher relies on: to the dispatcher,   *)
(* all it does are the steps Dispatcher allows a subsystem.                *)
KeepsContract == Init /\ [][Next]_vars

(* Whoever gets a message struct gets a payload as well.  It is the order  *)
(* of the two gives in meteo_free that makes it so: the branch of          *)
(* meteo_alloc that frees a struct nobody has initialised is never taken.  *)
NoPayloadShortage == msg_pool # {} => payload_pool # {}

(* Structs in use, and whether their payload is still theirs.              *)
Freeing == (IF "rx" \in giving THEN {rx.msg} ELSE {})
           \cup (IF "tx" \in giving THEN {tx.msg} ELSE {})
           \cup (IF "req" \in giving THEN {task.req} ELSE {})
           \cup (IF "reply" \in giving THEN {task.reply} ELSE {})
WithPayload == (Msgs \ msg_pool) \ Freeing

(* Every payload is either free or belongs to exactly one struct in use:   *)
(* none is shared by two messages, reused while still read, or lost.       *)
PayloadsOwned ==
    /\ \A m \in WithPayload : data[m] \in Payloads \ payload_pool
    /\ \A m, n \in WithPayload : data[m] = data[n] => m = n
    /\ \A p \in Payloads \ payload_pool : \E m \in WithPayload : data[m] = p

(* The task has no struct but the request it works on and the reply it is  *)
(* about to send: it forgets none on its way through the errors.           *)
NothingForgotten == held[METEO] = {task.req, task.reply} \ {NoMsg}

(* What is sent for a transaction is the answer to a request the host made *)
(* under that id: of the right kind and for the channel it asked about.    *)
(* Structs and payloads are recycled all the time by three tasks.          *)
Sent == Queued(outgoing[METEO]) \cup (IF tx.pc = "send" THEN {tx.msg} ELSE {})
RepliesMatch ==
    \A m \in Sent : \E f \in Frames :
       /\ f.tid = msg[m].transaction_id
       /\ f.type \in Requests /\ msg[m].type = ReplyTo[f.type]
       /\ payload[data[m]] = f.arg

(* A request that reached the subsystem is answered, or the host gets an   *)
(* error frame; no request disappears silently.                            *)
Asked(t) == \E m \in Queued(incoming[METEO]) : msg[m].transaction_id = t
Answered(t) == tx.pc = "send" /\ msg[tx.msg].transaction_id = t
ErrorLeaves == line = Half("err", "begin")
NoRequestVanishes == \A t \in TransIds : Asked(t) ~> (Answered(t) \/ ErrorLeaves)
=============================================================================
