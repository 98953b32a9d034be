----------------------------- MODULE Meteo_proofs -----------------------------
(* METEO keeps the dispatcher's contract, so that what is proved of the    *)
(* dispatcher holds under METEO, and never shares or loses a payload, for  *)
(* any number of structs, payloads and queue places.                       *)
EXTENDS Meteo, Dispatcher_proofs, FiniteSetTheorems

(* What the task has in hand, by where it is in its loop.                  *)
TaskOK ==
    /\ NothingForgotten
    /\ task.req = NoMsg <=> task.pc = "idle"
    /\ task.reply = NoMsg <=> task.pc \notin {"send", "full"}
    /\ task.req = task.reply => task.req = NoMsg
    /\ task.pc = "reply" => msg[task.req].type \in Requests
    /\ task.pc = "error" => task.err \in MeteoErrors

(* Who has given a payload back is about to give the struct back.          *)
GivingOK ==
    /\ "rx" \in giving => rx.pc = "free"
    /\ "tx" \in giving => tx.pc = "free"
    /\ "req" \in giving => task.pc = "drop"
    /\ "reply" \in giving => task.pc = "full"

HandsOK == ControlOK /\ OwnershipOK /\ MeteoTypeOK /\ TaskOK
MeteoOK == HandsOK /\ GivingOK /\ PayloadsOwned

-----------------------------------------------------------------------------
LEMMA OnlyMeteo == Subsystems = {METEO} /\ \A m \in Msgs : SubsystemOf[m] = METEO
<1>1. Subsystems = {METEO}
  BY MeteoAssumption DEF Subsystems
<1>2. QED
  BY <1>1, MsgsAssumption

(* The structs in the hands of workers and task are different ones, and    *)
(* none is in the pool.                                                    *)
LEMMA Apart ==
  ASSUME HandsOK
  PROVE  /\ rx.msg \in Msgs => rx.msg \notin msg_pool \cup {tx.msg, task.req, task.reply}
         /\ tx.msg \in Msgs => tx.msg \notin msg_pool \cup {task.req, task.reply}
         /\ task.req \in Msgs => task.req \notin msg_pool \cup {task.reply}
         /\ task.reply \in Msgs => task.reply \notin msg_pool
<1>1. \A m \in Msgs : m \in {task.req, task.reply} => Has("held", m)
  BY OnlyMeteo, MsgsAssumption, HasMeans DEF HandsOK, TaskOK, NothingForgotten
<1>2. \A m \in Msgs, k \in Kinds : Has(k, m) => \A l \in Kinds : Has(l, m) <=> l = k
  BY Alone DEF HandsOK
<1>3. \A m \in Msgs : /\ rx.msg = m => Has("rx", m)
                      /\ tx.msg = m => Has("tx", m)
                      /\ m \in msg_pool => Has("pool", m)
  BY HasMeans
<1>4. task.req \in Msgs => task.req # task.reply
  BY MsgsAssumption DEF HandsOK, TaskOK
<1>5. QED
  BY <1>1, <1>2, <1>3, <1>4 DEF Kinds

-----------------------------------------------------------------------------
(* METEO's steps are the dispatcher's.                                     *)

LEMMA ReplyKnown ==
  ASSUME MeteoTypeOK, TaskOK, task.pc = "reply"
  PROVE  /\ ReplyTo[request.type] \in MsgTypes
         /\ request.transaction_id \in TransIds
<1>1. request.type \in Requests /\ ReplyTo[request.type] \in Replies
  BY DEF TaskOK, request, Replies
<1>2. request \in Contents \cup {Scrap}
  BY <1>1 DEF MeteoTypeOK, TypeOK, TaskOK, request
<1>3. request \in Contents
  BY <1>1, <1>2 DEF Scrap, Requests
<1>4. QED
  BY <1>1, <1>3, HandlersAssumption, MeteoAssumption DEF Contents

LEMMA TaskKeepsContract ==
  ASSUME MeteoTypeOK, TaskOK, MeteoTaskStep
  PROVE  UNCHANGED vars \/ TaskStep(METEO)
<1> USE DEF TaskStep
<1>1. CASE MeteoReceive
  BY <1>1 DEF MeteoReceive
<1>2. CASE MeteoMeasure
  BY <1>2 DEF MeteoMeasure
<1>3. ASSUME NEW m \in Msgs, MeteoNewReply(m) PROVE TaskStep(METEO)
  BY <1>3, ReplyKnown DEF MeteoNewReply
<1>4. CASE MeteoNoReply \/ MeteoSendFull
  BY <1>4 DEF MeteoNoReply, MeteoSendFull
<1>5. CASE MeteoSend
  BY <1>5, MeteoAssumption DEF MeteoSend, TaskOK, MeteoTypeOK
<1>6. CASE MeteoFreeReply
  BY <1>6 DEF MeteoFreeReply, GivePayload, TaskOK, MeteoTypeOK
<1>7. CASE MeteoReport
  BY <1>7, MeteoAssumption DEF MeteoReport, TaskOK
<1>8. CASE MeteoDrop
  BY <1>8 DEF MeteoDrop, GivePayload, TaskOK, MeteoTypeOK
<1>9. QED
  BY <1>1, <1>2, <1>3, <1>4, <1>5, <1>6, <1>7, <1>8 DEF MeteoTaskStep

LEMMA Contract ==
  ASSUME MeteoTypeOK, TaskOK, [MeteoNext]_allVars PROVE [Next]_vars
<1>1. CASE UNCHANGED allVars
  BY <1>1 DEF allVars
<1>2. CASE RxFrame \/ Transmit
  BY <1>2 DEF Next
<1>3. CASE MeteoRxStep
  BY <1>3 DEF MeteoRxStep, MeteoRxAlloc, MeteoRxAllocFail, MeteoRxParse, MeteoRxParseFail,
              MeteoRxFree, GivePayload, Next, RxStep
<1>4. CASE MeteoTxStep
  BY <1>4 DEF MeteoTxStep, MeteoTxFree, GivePayload, Next, TxStep
<1>5. CASE MeteoTaskStep
  BY <1>5, TaskKeepsContract, OnlyMeteo DEF Next
<1>6. QED
  BY <1>1, <1>2, <1>3, <1>4, <1>5 DEF MeteoNext

-----------------------------------------------------------------------------
(* What the task has in hand stays in order.                               *)

LEMMA OthersLeaveTask ==
  ASSUME HandsOK,
         (RxFrame /\ UNCHANGED meteoVars) \/ MeteoRxStep \/ MeteoTxStep
            \/ (Transmit /\ UNCHANGED meteoVars) \/ UNCHANGED allVars
  PROVE  /\ UNCHANGED <<task, held, sensorVars>>
         /\ task.req \in Msgs => msg'[task.req] = msg[task.req]
<1>1. msg \in [Msgs -> Contents \cup {Scrap}]
  BY DEF HandsOK, MeteoTypeOK, TypeOK
<1>2. CASE UNCHANGED allVars
  BY <1>2 DEF allVars, meteoVars, vars
<1>3. CASE (RxFrame \/ Transmit) /\ UNCHANGED meteoVars
  BY <1>3 DEF meteoVars, RxFrame, RxReject, RxAccept, Transmit, taskVars
<1>4. ASSUME NEW m \in Msgs, MeteoRxAlloc(m)
      PROVE  /\ UNCHANGED <<task, held, sensorVars>>
             /\ task.req \in Msgs => msg'[task.req] = msg[task.req]
  <2>1. task.req \in Msgs => task.req # m
    BY <1>4, Apart DEF MeteoRxAlloc, RxAlloc, alloc_message
  <2>2. QED
    BY <1>1, <1>4, <2>1 DEF MeteoRxAlloc, RxAlloc, alloc_message, taskVars
<1>5. CASE MeteoRxAllocFail \/ MeteoRxParse \/ MeteoRxParseFail
              \/ ((RxRoute \/ RxRouteFail) /\ UNCHANGED meteoVars)
  BY <1>5 DEF MeteoRxAllocFail, MeteoRxParse, MeteoRxParseFail, RxAllocFail, RxParse,
              RxParseFail, RxRoute, RxRouteFail, meteoVars, taskVars
<1>6. CASE MeteoRxFree
  <2>1. rx.msg \in Msgs /\ (task.req \in Msgs => task.req # rx.msg)
    BY <1>6, Apart DEF MeteoRxFree, HandsOK, ControlOK, WorkersOK, TypeOK
  <2>2. QED
    BY <1>1, <1>6, <2>1 DEF MeteoRxFree, GivePayload, GiveMsg, RxFree, free_message, taskVars,
                            vars
<1>7. CASE (TxOwnError \/ TxSubsystemError \/ TxMessage \/ TxErrorBegin \/ TxErrorEnd \/ TxSend)
              /\ UNCHANGED meteoVars
  BY <1>7 DEF TxOwnError, TxSubsystemError, TxMessage, TxErrorBegin, TxErrorEnd, TxWriteError,
              TxSend, meteoVars, taskVars
<1>8. CASE MeteoTxFree
  <2>1. tx.msg \in Msgs /\ (task.req \in Msgs => task.req # tx.msg)
    BY <1>8, Apart DEF MeteoTxFree, HandsOK, ControlOK, WorkersOK, TypeOK
  <2>2. QED
    BY <1>1, <1>8, <2>1 DEF MeteoTxFree, GivePayload, GiveMsg, TxFree, free_message, taskVars,
                            vars
<1>9. QED
  BY <1>2, <1>3, <1>4, <1>5, <1>6, <1>7, <1>8 DEF MeteoRxStep, MeteoTxStep

LEMMA TaskStepKeepsTask == ASSUME HandsOK, MeteoTaskStep PROVE TaskOK'
<1>1. /\ msg \in [Msgs -> Contents \cup {Scrap}] /\ held \in [Subsystems -> SUBSET Msgs]
      /\ incoming \in [Subsystems -> Seq(Msgs)] /\ NoMsg \notin Msgs
      /\ METEO \in Subsystems
  BY OnlyMeteo, MsgsAssumption DEF HandsOK, MeteoTypeOK, TypeOK
<1>2. task \in [pc : {"idle", "measure", "reply", "send", "full", "error", "drop"},
                req : Msgs \cup {NoMsg}, reply : Msgs \cup {NoMsg},
                err : MeteoErrors \cup {NO_ERROR}]
  BY DEF HandsOK, MeteoTypeOK
<1> USE DEF HandsOK, TaskOK, NothingForgotten
<1>3. CASE MeteoReceive
  <2>1. Head(incoming[METEO]) \in Msgs
    BY <1>1, <1>3, QueueShrinks DEF MeteoReceive, TaskReceive
  <2>2. QED
    BY <1>1, <1>2, <1>3, <2>1 DEF MeteoReceive, TaskReceive
<1>4. CASE MeteoMeasure
  BY <1>1, <1>2, <1>4, ZenonT(60) DEF MeteoMeasure, MeasurePressure, MeasureHumidity, MeasureLight, Measured,
                 Fails, request, vars, Requests, MeteoErrors
<1>5. ASSUME NEW m \in Msgs, MeteoNewReply(m) PROVE TaskOK'
  <2>1. m # task.req
    BY <1>5, Apart DEF MeteoNewReply, TaskNew, alloc_message
  <2>2. QED
    BY <1>1, <1>2, <1>5, <2>1 DEF MeteoNewReply, TaskNew
<1>6. CASE MeteoNoReply \/ MeteoSendFull
  BY <1>1, <1>2, <1>6, ZenonT(60) DEF MeteoNoReply, MeteoSendFull, Fails, vars, MeteoErrors
<1>7. CASE MeteoSend
  BY <1>1, <1>2, <1>7 DEF MeteoSend, TaskSend
<1>8. CASE MeteoFreeReply
  <2>1. CASE GivePayload("reply", task.reply)
    BY <1>1, <1>2, <1>8, <2>1 DEF GivePayload, vars
  <2>2. CASE /\ task.pc = "full" /\ TaskDrop(METEO, task.reply)
             /\ task' = [task EXCEPT !.pc = "error", !.err = TxQueueFullError, !.reply = NoMsg]
    BY <1>1, <1>2, <2>2 DEF TaskDrop, MeteoErrors
  <2>3. QED
    BY <1>8, <2>1, <2>2 DEF MeteoFreeReply
<1>9. CASE MeteoReport
  BY <1>1, <1>2, <1>9 DEF MeteoReport, TaskReport
<1>10. CASE MeteoDrop
  BY <1>1, <1>2, <1>10 DEF MeteoDrop, GivePayload, GiveMsg, TaskDrop, vars, IdleTask
<1>11. QED
  BY <1>3, <1>4, <1>5, <1>6, <1>7, <1>8, <1>9, <1>10 DEF MeteoTaskStep

LEMMA TaskInductive == ASSUME HandsOK, [MeteoNext]_allVars PROVE TaskOK'
<1>1. CASE MeteoTaskStep
  BY <1>1, TaskStepKeepsTask
<1>2. CASE ~MeteoTaskStep
  BY <1>2, OthersLeaveTask DEF MeteoNext, HandsOK, TaskOK, NothingForgotten, MeteoTypeOK
<1>3. QED
  BY <1>1, <1>2

-----------------------------------------------------------------------------
(* Payloads.  A step hands a payload out with a struct, takes one back, or *)
(* leaves all of them where they are.                                      *)

TakesPayload ==
    \E m \in Msgs, p \in payload_pool :
       /\ m \notin WithPayload /\ WithPayload' = WithPayload \cup {m}
       /\ payload_pool' = payload_pool \ {p} /\ data' = [data EXCEPT ![m] = p]
GivesPayload ==
    \E m \in WithPayload :
       /\ WithPayload' = WithPayload \ {m}
       /\ payload_pool' = payload_pool \cup {data[m]} /\ data' = data
KeepsPayloads ==
    /\ WithPayload' = WithPayload /\ payload_pool' = payload_pool
    /\ data' \in [Msgs -> Payloads \cup {NoPayload}]
    /\ \A m \in WithPayload : data'[m] = data[m]

LEMMA MovesKeepOwned ==
  ASSUME MeteoTypeOK, PayloadsOwned, TakesPayload \/ GivesPayload \/ KeepsPayloads
  PROVE  /\ PayloadsOwned'
         /\ payload_pool' \subseteq Payloads /\ data' \in [Msgs -> Payloads \cup {NoPayload}]
<1>1. /\ payload_pool \subseteq Payloads /\ data \in [Msgs -> Payloads \cup {NoPayload}]
      /\ WithPayload \subseteq Msgs
  BY DEF MeteoTypeOK, WithPayload
<1>2. CASE TakesPayload
  BY <1>1, <1>2 DEF TakesPayload, PayloadsOwned
<1>3. CASE GivesPayload
  BY <1>1, <1>3 DEF GivesPayload, PayloadsOwned
<1>4. CASE KeepsPayloads
  BY <1>1, <1>4 DEF KeepsPayloads, PayloadsOwned
<1>5. QED
  BY <1>2, <1>3, <1>4

LEMMA FreeingInHand == ASSUME HandsOK, GivingOK PROVE Freeing \subseteq Msgs \ msg_pool
<1>1. /\ "rx" \in giving => rx.msg \in Msgs
      /\ "tx" \in giving => tx.msg \in Msgs
      /\ "req" \in giving => task.req \in Msgs
      /\ "reply" \in giving => task.reply \in Msgs
  BY MsgsAssumption DEF HandsOK, GivingOK, ControlOK, TypeOK, WorkersOK, MeteoTypeOK, TaskOK
<1>2. QED
  BY <1>1, Apart DEF Freeing

(* Steps that only use what they have.                                     *)
LEMMA NothingGiven ==
  ASSUME MeteoTypeOK, UNCHANGED <<msg_pool, payload_pool, data, giving>>,
         "rx" \in giving => rx'.msg = rx.msg, "tx" \in giving => tx'.msg = tx.msg,
         "req" \in giving => task'.req = task.req, "reply" \in giving => task'.reply = task.reply
  PROVE  KeepsPayloads
BY DEF KeepsPayloads, WithPayload, Freeing, MeteoTypeOK

(* meteo_alloc.                                                            *)
LEMMA PayloadTaken ==
  ASSUME HandsOK, GivingOK, NEW m \in msg_pool, NEW p \in payload_pool,
         msg_pool' = msg_pool \ {m}, giving' = giving,
         payload_pool' = payload_pool \ {p}, data' = [data EXCEPT ![m] = p],
         "rx" \in giving => rx'.msg = rx.msg, "tx" \in giving => tx'.msg = tx.msg,
         "req" \in giving => task'.req = task.req, "reply" \in giving => task'.reply = task.reply
  PROVE  TakesPayload
<1>1. m \in Msgs
  BY DEF HandsOK, MeteoTypeOK, TypeOK
<1>2. Freeing' = Freeing /\ m \notin Freeing
  BY FreeingInHand DEF Freeing
<1>3. QED
  BY <1>1, <1>2 DEF TakesPayload, WithPayload

(* The two halves of meteo_free, by whichever of the four calls it.        *)
Hand(who) == CASE who = "rx" -> rx.msg [] who = "tx" -> tx.msg
               [] who = "req" -> task.req [] who = "reply" -> task.reply
Givers == {"rx", "tx", "req", "reply"}

LEMMA FreeingMeans == Freeing = {Hand(w) : w \in giving \cap Givers}
BY DEF Freeing, Hand, Givers

LEMMA HandsApart ==
  ASSUME HandsOK, NEW v \in Givers, NEW w \in Givers, v # w, Hand(v) \in Msgs
  PROVE  Hand(v) # Hand(w)
BY Apart DEF Hand, Givers

LEMMA PayloadGiven ==
  ASSUME HandsOK, NEW who \in Givers, NEW m \in Msgs \ msg_pool, m = Hand(who),
         GivePayload(who, m)
  PROVE  GivesPayload
<1>1. UNCHANGED <<msg_pool, rx, tx, task, data>> /\ giving' = giving \cup {who} /\ who \notin giving
  BY DEF GivePayload, vars
<1>2. Freeing' = Freeing \cup {m}
  BY <1>1, FreeingMeans DEF Freeing, Hand, Givers
<1>3. m \notin Freeing
  BY <1>1, FreeingMeans, HandsApart
<1>4. QED
  BY <1>1, <1>2, <1>3 DEF GivesPayload, GivePayload, WithPayload

LEMMA MsgGiven ==
  ASSUME HandsOK, GivingOK, NEW who \in Givers, NEW m \in Msgs \ msg_pool, m = Hand(who),
         GiveMsg(who, m), msg_pool' = msg_pool \cup {m},
         \A w \in (giving \cap Givers) \ {who} : Hand(w)' = Hand(w)
  PROVE  KeepsPayloads
<1>1. /\ who \in giving /\ giving' = giving \ {who} /\ data' = [data EXCEPT ![m] = NoPayload]
      /\ payload_pool' = payload_pool
  BY DEF GiveMsg
<1>2. Freeing' = {Hand(w) : w \in (giving \cap Givers) \ {who}}
  <2>1. Freeing' = {Hand(w)' : w \in (giving \cap Givers) \ {who}}
    BY <1>1 DEF Freeing, Hand, Givers
  <2>2. QED
    BY <2>1
<1>3. Freeing' = Freeing \ {m} /\ m \in Freeing
  BY <1>1, <1>2, FreeingMeans, HandsApart
<1>4. data' \in [Msgs -> Payloads \cup {NoPayload}] /\ \A n \in Msgs \ {m} : data'[n] = data[n]
  BY <1>1 DEF HandsOK, MeteoTypeOK
<1>5. QED
  BY <1>1, <1>3, <1>4 DEF KeepsPayloads, WithPayload

(* Which move a step is.                                                   *)
Moved == TakesPayload \/ GivesPayload \/ KeepsPayloads

LEMMA InHand ==
  ASSUME HandsOK
  PROVE  /\ rx.pc = "free" => rx.msg \in Msgs \ msg_pool
         /\ tx.pc = "free" => tx.msg \in Msgs \ msg_pool
         /\ task.pc \in {"measure", "reply", "drop"} => task.req \in Msgs \ msg_pool
         /\ task.pc = "full" => task.reply \in Msgs \ msg_pool
BY Apart, MsgsAssumption DEF HandsOK, ControlOK, TypeOK, WorkersOK, MeteoTypeOK, TaskOK

LEMMA RxMoves == ASSUME HandsOK, GivingOK, MeteoRxStep PROVE Moved
<1> USE DEF Moved
<1>1. ASSUME NEW m \in Msgs, MeteoRxAlloc(m) PROVE Moved
  BY <1>1, PayloadTaken DEF MeteoRxAlloc, TakePayload, RxAlloc, alloc_message, taskVars, GivingOK
<1>2. CASE MeteoRxAllocFail \/ MeteoRxParse \/ MeteoRxParseFail
              \/ ((RxRoute \/ RxRouteFail) /\ UNCHANGED meteoVars)
  BY <1>2, NothingGiven
  DEF MeteoRxAllocFail, MeteoRxParse, MeteoRxParseFail, RxAllocFail, RxParse, RxParseFail,
      RxRoute, RxRouteFail, meteoVars, GivingOK, HandsOK
<1>3. CASE MeteoRxFree
  <2>1. rx.msg \in Msgs \ msg_pool
    BY <1>3, InHand DEF MeteoRxFree
  <2>2. CASE GivePayload("rx", rx.msg)
    BY <2>1, <2>2, PayloadGiven DEF Hand, Givers
  <2>3. CASE GiveMsg("rx", rx.msg) /\ RxFree /\ UNCHANGED task
    BY <2>1, <2>3, MsgGiven DEF Hand, Givers, RxFree, free_message
  <2>4. QED
    BY <1>3, <2>2, <2>3 DEF MeteoRxFree
<1>4. QED
  BY <1>1, <1>2, <1>3 DEF MeteoRxStep

LEMMA TxMoves == ASSUME HandsOK, GivingOK, MeteoTxStep PROVE Moved
<1> USE DEF Moved
<1>1. CASE (TxOwnError \/ TxSubsystemError \/ TxMessage \/ TxErrorBegin \/ TxErrorEnd \/ TxSend)
              /\ UNCHANGED meteoVars
  BY <1>1, NothingGiven
  DEF TxOwnError, TxSubsystemError, TxMessage, TxErrorBegin, TxErrorEnd, TxWriteError, TxSend,
      rxVars, meteoVars, GivingOK, HandsOK
<1>2. CASE MeteoTxFree
  <2>1. tx.msg \in Msgs \ msg_pool
    BY <1>2, InHand DEF MeteoTxFree
  <2>2. CASE GivePayload("tx", tx.msg)
    BY <2>1, <2>2, PayloadGiven DEF Hand, Givers
  <2>3. CASE GiveMsg("tx", tx.msg) /\ TxFree /\ UNCHANGED task
    BY <2>1, <2>3, MsgGiven DEF Hand, Givers, TxFree, free_message, rxVars
  <2>4. QED
    BY <1>2, <2>2, <2>3 DEF MeteoTxFree
<1>3. QED
  BY <1>1, <1>2 DEF MeteoTxStep

LEMMA TaskMoves == ASSUME HandsOK, GivingOK, MeteoTaskStep PROVE Moved
<1> USE DEF Moved
<1>1. CASE MeteoReceive \/ MeteoMeasure \/ MeteoNoReply \/ MeteoSend \/ MeteoSendFull \/ MeteoReport
  <2>1. /\ UNCHANGED <<msg_pool, rx, tx, payload_pool, data, giving>>
        /\ task.pc \notin {"drop", "full"}
    BY <1>1 DEF MeteoReceive, MeteoMeasure, MeteoNoReply, MeteoSend, MeteoSendFull, MeteoReport,
                TaskReceive, TaskSend, TaskReport, vars
  <2>2. QED
    BY <2>1, NothingGiven DEF HandsOK, GivingOK
<1>2. ASSUME NEW m \in Msgs, MeteoNewReply(m) PROVE Moved
  BY <1>2, PayloadTaken DEF MeteoNewReply, TaskNew, alloc_message, GivingOK
<1>3. CASE MeteoFreeReply
  <2>1. task.reply \in Msgs \ msg_pool
    BY <1>3, InHand DEF MeteoFreeReply
  <2>2. CASE GivePayload("reply", task.reply)
    BY <2>1, <2>2, PayloadGiven DEF Hand, Givers
  <2>3. CASE /\ task.pc = "full" /\ GiveMsg("reply", task.reply) /\ TaskDrop(METEO, task.reply)
             /\ task' = [task EXCEPT !.pc = "error", !.err = TxQueueFullError, !.reply = NoMsg]
    BY <2>1, <2>3, MsgGiven
    DEF Hand, Givers, TaskDrop, free_message, GivingOK, HandsOK, MeteoTypeOK
  <2>4. QED
    BY <1>3, <2>2, <2>3 DEF MeteoFreeReply
<1>4. CASE MeteoDrop
  <2>1. task.req \in Msgs \ msg_pool
    BY <1>4, InHand DEF MeteoDrop
  <2>2. CASE GivePayload("req", task.req)
    BY <2>1, <2>2, PayloadGiven DEF Hand, Givers
  <2>3. CASE /\ task.pc = "drop" /\ GiveMsg("req", task.req) /\ TaskDrop(METEO, task.req)
             /\ task' = IdleTask
    BY <2>1, <2>3, MsgGiven DEF Hand, Givers, TaskDrop, free_message, GivingOK
  <2>4. QED
    BY <1>4, <2>2, <2>3 DEF MeteoDrop
<1>5. QED
  BY <1>1, <1>2, <1>3, <1>4 DEF MeteoTaskStep

LEMMA PayloadMoves == ASSUME HandsOK, GivingOK, [MeteoNext]_allVars PROVE Moved
<1>1. CASE (RxFrame \/ Transmit) /\ UNCHANGED meteoVars
  BY <1>1, NothingGiven
  DEF RxFrame, RxReject, RxAccept, Transmit, rxVars, meteoVars, HandsOK, GivingOK, Moved
<1>2. CASE UNCHANGED allVars
  BY <1>2, NothingGiven DEF allVars, vars, meteoVars, HandsOK, Moved
<1>3. QED
  BY <1>1, <1>2, RxMoves, TxMoves, TaskMoves DEF MeteoNext

-----------------------------------------------------------------------------
(* The invariant.                                                          *)

LEMMA GivingInductive == ASSUME MeteoOK, [MeteoNext]_allVars PROVE GivingOK'
<1> USE DEF MeteoOK, GivingOK
<1>1. CASE ((RxFrame \/ Transmit) /\ UNCHANGED meteoVars) \/ UNCHANGED allVars
  BY <1>1, ZenonT(60) DEF RxFrame, RxReject, RxAccept, Transmit, rxVars, meteoVars, allVars, vars
<1>2. CASE MeteoRxStep
  BY <1>2 DEF MeteoRxStep, MeteoRxAlloc, MeteoRxAllocFail, MeteoRxParse, MeteoRxParseFail,
              MeteoRxFree, GivePayload, GiveMsg, RxAlloc, RxAllocFail, RxParse, RxParseFail,
              RxRoute, RxRouteFail, RxFree, meteoVars, vars
<1>3. CASE MeteoTxStep
  BY <1>3 DEF MeteoTxStep, MeteoTxFree, GivePayload, GiveMsg, TxOwnError, TxSubsystemError,
              TxMessage, TxErrorBegin, TxErrorEnd, TxWriteError, TxSend, TxFree, rxVars,
              meteoVars, vars
<1>4. CASE MeteoTaskStep
  <2>1. CASE MeteoReceive \/ MeteoMeasure \/ (\E m \in Msgs : MeteoNewReply(m)) \/ MeteoNoReply
                \/ MeteoSend \/ MeteoSendFull \/ MeteoReport
    BY <2>1 DEF MeteoReceive, MeteoMeasure, MeteoNewReply, MeteoNoReply, MeteoSend,
                MeteoSendFull, MeteoReport, TaskReceive, TaskNew, TaskSend, TaskReport, vars
  <2>2. CASE MeteoFreeReply \/ MeteoDrop
    BY <2>2 DEF MeteoFreeReply, MeteoDrop, GivePayload, GiveMsg, TaskDrop, vars
  <2>3. QED
    BY <1>4, <2>1, <2>2, SMTT(60) DEF MeteoTaskStep
<1>5. QED
  BY <1>1, <1>2, <1>3, <1>4 DEF MeteoNext

(* The reply's channel number is read through the request's own payload.   *)
LEMMA RequestReadable ==
  ASSUME MeteoOK, task.pc = "reply" PROVE payload[data[task.req]] \in Channels \cup {Zero}
<1>1. task.req \in Msgs \ msg_pool
  BY InHand DEF MeteoOK
<1>2. task.req \notin Freeing
  BY <1>1, Apart DEF MeteoOK, GivingOK, Freeing
<1>3. QED
  BY <1>1, <1>2 DEF MeteoOK, PayloadsOwned, WithPayload, HandsOK, MeteoTypeOK

LEMMA MeteoTypesInductive ==
  ASSUME MeteoOK, TypeOK', [MeteoNext]_allVars PROVE MeteoTypeOK'
<1>1. payload_pool' \subseteq Payloads /\ data' \in [Msgs -> Payloads \cup {NoPayload}]
  BY PayloadMoves, MovesKeepOwned DEF MeteoOK, HandsOK, Moved
<1>2. /\ payload \in [Payloads -> Channels \cup {Zero}]
      /\ giving \subseteq {"rx", "tx", "req", "reply"}
      /\ task \in [pc : {"idle", "measure", "reply", "send", "full", "error", "drop"},
                   req : Msgs \cup {NoMsg}, reply : Msgs \cup {NoMsg},
                   err : MeteoErrors \cup {NO_ERROR}]
      /\ light_state \in {"On", "Off"} /\ calibrated \in BOOLEAN
  BY DEF MeteoOK, HandsOK, MeteoTypeOK
<1> DEFINE Types == /\ payload' \in [Payloads -> Channels \cup {Zero}]
                    /\ giving' \subseteq {"rx", "tx", "req", "reply"}
                    /\ task' \in [pc : {"idle", "measure", "reply", "send", "full", "error",
                                        "drop"},
                                  req : Msgs \cup {NoMsg}, reply : Msgs \cup {NoMsg},
                                  err : MeteoErrors \cup {NO_ERROR}]
                    /\ light_state' \in {"On", "Off"} /\ calibrated' \in BOOLEAN
<1> SUFFICES Types
  BY <1>1 DEF MeteoTypeOK
<1>3. CASE ((RxFrame \/ Transmit) /\ UNCHANGED meteoVars) \/ UNCHANGED allVars
  BY <1>2, <1>3 DEF meteoVars, sensorVars, allVars
<1>4. CASE MeteoRxStep \/ MeteoTxStep
  BY <1>2, <1>4
  DEF MeteoRxStep, MeteoRxAlloc, MeteoRxAllocFail, MeteoRxParse, MeteoRxParseFail, MeteoRxFree,
      MeteoTxStep, MeteoTxFree, TakePayload, GivePayload, GiveMsg, meteoVars, sensorVars
<1>5. ASSUME NEW m \in Msgs, MeteoNewReply(m) PROVE Types
  <2>1. payload[data[task.req]] \in Channels \cup {Zero}
    BY <1>5, RequestReadable DEF MeteoNewReply
  <2>2. QED
    BY <1>2, <1>5, <2>1 DEF MeteoNewReply, sensorVars
<1>6. CASE MeteoMeasure
  BY <1>2, <1>6, ZenonT(60) DEF MeteoMeasure, MeasurePressure, MeasureHumidity, MeasureLight, Measured,
                    Fails, MeteoErrors, sensorVars
<1>7. CASE MeteoReceive
  <2>1. Head(incoming[METEO]) \in Msgs
    BY <1>7, OnlyMeteo, QueueShrinks
    DEF MeteoReceive, TaskReceive, MeteoOK, HandsOK, MeteoTypeOK, TypeOK
  <2>2. QED
    BY <1>2, <1>7, <2>1 DEF MeteoReceive, sensorVars
<1>8. CASE MeteoNoReply \/ MeteoSend \/ MeteoSendFull \/ MeteoReport
  BY <1>2, <1>8, ZenonT(60) DEF MeteoNoReply, MeteoSend, MeteoSendFull, MeteoReport, Fails, MeteoErrors,
                    sensorVars
<1> DEFINE TaskType == [pc : {"idle", "measure", "reply", "send", "full", "error", "drop"},
                        req : Msgs \cup {NoMsg}, reply : Msgs \cup {NoMsg},
                        err : MeteoErrors \cup {NO_ERROR}]
<1>9. CASE MeteoFreeReply \/ MeteoDrop
  <2>1. ASSUME NEW who \in Givers, NEW m, GivePayload(who, m) PROVE Types
    BY <1>2, <2>1 DEF GivePayload, Givers, sensorVars
  <2>2. ASSUME NEW who \in Givers, NEW m, GiveMsg(who, m), task' \in TaskType PROVE Types
    BY <1>2, <2>2 DEF GiveMsg, sensorVars
  <2>3. TxQueueFullError \in MeteoErrors
    BY DEF MeteoErrors
  <2>4. [task EXCEPT !.pc = "error", !.err = TxQueueFullError, !.reply = NoMsg] \in TaskType
    BY <1>2, <2>3
  <2>5. IdleTask \in TaskType
    BY DEF IdleTask
  <2>6. QED
    BY <1>9, <2>1, <2>2, <2>4, <2>5 DEF MeteoFreeReply, MeteoDrop, Givers
<1>10. QED
  BY <1>3, <1>4, <1>5, <1>6, <1>7, <1>8, <1>9 DEF MeteoNext, MeteoTaskStep

LEMMA MeteoInductive == MeteoOK /\ [MeteoNext]_allVars => MeteoOK' /\ [Next]_vars
<1> SUFFICES ASSUME MeteoOK, [MeteoNext]_allVars PROVE MeteoOK' /\ [Next]_vars
  OBVIOUS
<1>1. HandsOK /\ GivingOK /\ PayloadsOwned
  BY DEF MeteoOK
<1>2. [Next]_vars
  BY <1>1, Contract DEF HandsOK
<1>3. ControlOK' /\ OwnershipOK'
  BY <1>1, <1>2, ControlInductive, OwnershipInductive DEF HandsOK
<1>4. MeteoTypeOK'
  BY <1>3, MeteoTypesInductive DEF ControlOK
<1>5. TaskOK' /\ GivingOK'
  BY <1>1, TaskInductive, GivingInductive
<1>6. PayloadsOwned'
  BY <1>1, PayloadMoves, MovesKeepOwned DEF HandsOK, Moved
<1>7. QED
  BY <1>2, <1>3, <1>4, <1>5, <1>6 DEF MeteoOK, HandsOK

LEMMA MeteoStarts == MeteoInit => MeteoOK
<1> SUFFICES ASSUME MeteoInit PROVE MeteoOK
  OBVIOUS
<1>1. ControlOK /\ OwnershipOK
  BY ControlInit, OwnershipInit DEF MeteoInit
<1>2. MeteoTypeOK
  BY <1>1 DEF ControlOK, MeteoTypeOK, MeteoInit, IdleTask
<1>3. TaskOK
  BY OnlyMeteo DEF TaskOK, NothingForgotten, MeteoInit, Init, IdleTask
<1>4. GivingOK /\ PayloadsOwned
  BY DEF GivingOK, PayloadsOwned, WithPayload, MeteoInit, Init
<1>5. QED
  BY <1>1, <1>2, <1>3, <1>4 DEF MeteoOK, HandsOK

-----------------------------------------------------------------------------
(* Under METEO the dispatcher only ever takes steps its own specification  *)
(* allows: whatever is proved of the dispatcher's steps holds of the       *)
(* composition.                                                            *)
THEOREM MeteoKeepsContract == MeteoSpec => KeepsContract
<1>1. MeteoInit => Init
  BY DEF MeteoInit
<1>2. QED
  BY <1>1, MeteoStarts, MeteoInductive, PTL DEF MeteoSpec, KeepsContract

(* METEO's variables have their types in every state.                      *)
THEOREM MeteoTypeCorrect == MeteoSpec => []MeteoTypeOK
<1>1. MeteoOK => MeteoTypeOK
  BY DEF MeteoOK, HandsOK
<1>2. QED
  BY <1>1, MeteoStarts, MeteoInductive, PTL DEF MeteoSpec

(* Under METEO's task, parsers and release functions every message struct  *)
(* has exactly one owner.                                                  *)
THEOREM MeteoStructsHaveOneOwner == MeteoSpec => []OneOwner
<1>1. MeteoOK => OneOwner
  BY OwnershipMeansOneOwner DEF MeteoOK, HandsOK
<1>2. QED
  BY <1>1, MeteoStarts, MeteoInductive, PTL DEF MeteoSpec

(* Every payload is free or belongs to exactly one struct in use, although *)
(* meteo_free gives payload and struct back in two critical sections.      *)
THEOREM MeteoPayloadsHaveOneOwner == MeteoSpec => []PayloadsOwned
<1>1. MeteoOK => PayloadsOwned
  BY DEF MeteoOK
<1>2. QED
  BY <1>1, MeteoStarts, MeteoInductive, PTL DEF MeteoSpec

(* The task of METEO never loses sight of a struct it took.                *)
THEOREM MeteoForgetsNothing == MeteoSpec => []NothingForgotten
<1>1. MeteoOK => NothingForgotten
  BY DEF MeteoOK, HandsOK, TaskOK
<1>2. QED
  BY <1>1, MeteoStarts, MeteoInductive, PTL DEF MeteoSpec

LEMMA Pigeonhole == MeteoOK => NoPayloadShortage
<1> SUFFICES ASSUME MeteoOK, NEW spare \in msg_pool, payload_pool = {} PROVE FALSE
  BY DEF NoPayloadShortage
<1> DEFINE S == {m \in WithPayload : data[m] \in Payloads}
           f == [m \in S |-> data[m]]
<1>1. msg_pool \subseteq Msgs
  BY DEF MeteoOK, HandsOK, MeteoTypeOK, TypeOK
<1>2. S \in SUBSET (Msgs \ {spare})
  BY <1>1 DEF WithPayload
<1>3. f \in Surjection(S, Payloads)
  <2>1. \A p \in Payloads : \E m \in S : data[m] = p
    BY DEF MeteoOK, PayloadsOwned
  <2>2. f \in [S -> Payloads] /\ \A p \in Payloads : \E m \in S : f[m] = p
    BY <2>1
  <2>3. QED
    BY <2>2 DEF Surjection
<1>4. /\ IsFiniteSet(Msgs) /\ Cardinality(Msgs) \in Nat
      /\ IsFiniteSet(Msgs \ {spare}) /\ Cardinality(Msgs \ {spare}) = Cardinality(Msgs) - 1
  BY <1>1, MsgsAssumption, FS_CardinalityType, FS_RemoveElement
<1>5. IsFiniteSet(S) /\ Cardinality(S) <= Cardinality(Msgs \ {spare})
  BY <1>2, <1>4, FS_Subset
<1>6. Cardinality(Payloads) <= Cardinality(S)
  BY <1>3, <1>5, FS_Surjection
<1>7. Cardinality(S) \in Nat /\ Cardinality(Payloads) \in Nat
  BY <1>5, MeteoAssumption, FS_CardinalityType
<1> HIDE DEF S
<1>8. QED
  BY <1>4, <1>5, <1>6, <1>7, MeteoAssumption

(* Whoever gets a struct gets a payload: the branch of meteo_alloc that    *)
(* frees a struct nobody has initialised is dead code.                     *)
THEOREM MeteoNeverShortOfPayloads == MeteoSpec => []NoPayloadShortage
BY Pigeonhole, MeteoStarts, MeteoInductive, PTL DEF MeteoSpec

-----------------------------------------------------------------------------
(* What a struct says of the frame it goes back to, from the parser to the *)
(* wire.                                                                   *)

AsksFor(m, f) == /\ msg[m].type = f.type /\ f.type \in Requests
                 /\ msg[m].transaction_id = f.tid /\ payload[data[m]] = f.arg
Answers(m, f) == /\ f.type \in Requests /\ msg[m].type = ReplyTo[f.type]
                 /\ f.tid = msg[m].transaction_id /\ payload[data[m]] = f.arg

Asking == Queued(incoming[METEO])
          \cup (IF task.pc \in {"measure", "reply"} THEN {task.req} ELSE {})
Answering == Sent \cup (IF task.pc = "send" THEN {task.reply} ELSE {})

FrameCopied ==
    /\ rx.pc \in {"parse", "route"} => /\ msg[rx.msg].type = rx.frame.type
                                       /\ msg[rx.msg].transaction_id = rx.frame.tid
    /\ rx.pc = "route" => payload[data[rx.msg]] = rx.frame.arg
ContentOK ==
    /\ FrameCopied
    /\ \A m \in Asking : \E f \in Frames : AsksFor(m, f)
    /\ \A m \in Answering : \E f \in Frames : Answers(m, f)

Parsing == IF rx.pc \in {"parse", "route"} THEN {rx.msg} ELSE {}

LEMMA LiveStructs ==
  ASSUME MeteoOK
  PROVE  /\ Asking \cup Answering \cup Parsing \subseteq WithPayload
         /\ rx.msg \notin Asking \cup Answering
         /\ rx.pc = "free" => rx.msg \notin Parsing
         /\ tx.pc = "free" => tx.msg \notin Asking \cup Answering \cup Parsing
         /\ task.pc = "drop" => task.req \notin Asking \cup Answering \cup Parsing
         /\ task.pc = "full" => task.reply \notin Asking \cup Answering \cup Parsing
<1>1. \A m \in Msgs : /\ m \in Queued(incoming[METEO]) => Has("incoming", m)
                      /\ m \in Queued(outgoing[METEO]) => Has("outgoing", m)
                      /\ m \in {task.req, task.reply} => Has("held", m)
                      /\ rx.msg = m => Has("rx", m)
                      /\ tx.msg = m => Has("tx", m)
                      /\ m \in msg_pool => Has("pool", m)
  BY OnlyMeteo, MsgsAssumption, HasMeans DEF MeteoOK, HandsOK, TaskOK, NothingForgotten
<1>2. \A m \in Msgs, k \in Kinds : Has(k, m) => \A l \in Kinds : Has(l, m) <=> l = k
  BY Alone DEF MeteoOK, HandsOK
<1>3. /\ Queued(incoming[METEO]) \subseteq Msgs /\ Queued(outgoing[METEO]) \subseteq Msgs
      /\ NoMsg \notin Msgs
  BY OnlyMeteo, MsgsAssumption DEF MeteoOK, HandsOK, MeteoTypeOK, TypeOK, Queued
<1>4. /\ rx.pc \in {"parse", "route", "free"} => rx.msg \in Msgs
      /\ tx.pc \in {"send", "free"} => tx.msg \in Msgs
      /\ task.pc \in {"measure", "reply", "drop"} => task.req \in Msgs
      /\ task.pc \in {"send", "full"} => task.reply \in Msgs
  BY DEF MeteoOK, HandsOK, ControlOK, TypeOK, WorkersOK, MeteoTypeOK, TaskOK
<1>5. GivingOK
  BY DEF MeteoOK
<1>6. ASSUME NEW m \in Asking \cup Answering PROVE m \in WithPayload /\ m # rx.msg
  <2>1. CASE m \in Queued(incoming[METEO]) \cup Queued(outgoing[METEO])
    <3>1. m \in Msgs /\ m \notin msg_pool \cup {rx.msg, tx.msg, task.req, task.reply}
      BY <1>1, <1>2, <1>3, <2>1 DEF Kinds
    <3>2. QED
      BY <3>1 DEF WithPayload, Freeing
  <2>2. CASE m = task.req /\ task.pc \in {"measure", "reply"}
    BY <1>4, <1>5, <2>2, Apart DEF MeteoOK, GivingOK, WithPayload, Freeing
  <2>3. CASE m = task.reply /\ task.pc = "send"
    BY <1>4, <1>5, <2>3, Apart DEF MeteoOK, GivingOK, WithPayload, Freeing
  <2>4. CASE m = tx.msg /\ tx.pc = "send"
    BY <1>4, <1>5, <2>4, Apart DEF MeteoOK, GivingOK, WithPayload, Freeing
  <2>5. QED
    BY <2>1, <2>2, <2>3, <2>4 DEF Asking, Answering, Sent
<1>7. Parsing \subseteq WithPayload
  BY <1>4, <1>5, Apart DEF MeteoOK, GivingOK, WithPayload, Freeing, Parsing
<1>8. ASSUME tx.pc = "free" PROVE tx.msg \notin Asking \cup Answering \cup Parsing
  BY <1>1, <1>2, <1>4, <1>8 DEF Kinds, Asking, Answering, Parsing, Sent
<1>9. ASSUME task.pc = "drop" PROVE task.req \notin Asking \cup Answering \cup Parsing
  BY <1>1, <1>2, <1>4, <1>9 DEF Kinds, Asking, Answering, Parsing, Sent
<1>10. ASSUME task.pc = "full" PROVE task.reply \notin Asking \cup Answering \cup Parsing
  BY <1>1, <1>2, <1>4, <1>10 DEF Kinds, Asking, Answering, Parsing, Sent
<1>11. QED
  BY <1>6, <1>7, <1>8, <1>9, <1>10 DEF Parsing

(* Nobody writes to a live struct or its payload but the parser.           *)
Stays(m) == msg'[m] = msg[m] /\ payload'[data'[m]] = payload[data[m]]
Live == Asking \cup Answering \cup Parsing

LEMMA AllocElsewhere ==
  ASSUME MeteoOK, NEW n \in msg_pool, NEW p \in payload_pool,
         msg' = [msg EXCEPT ![n] = msg'[n]], payload' = [payload EXCEPT ![p] = payload'[p]],
         data' = [data EXCEPT ![n] = p]
  PROVE  /\ \A m \in Live : Stays(m)
         /\ data'[n] = p
<1>1. /\ n \in Msgs /\ p \in Payloads /\ msg \in [Msgs -> Contents \cup {Scrap}]
      /\ data \in [Msgs -> Payloads \cup {NoPayload}] /\ payload \in [Payloads -> Channels \cup {Zero}]
  BY DEF MeteoOK, HandsOK, MeteoTypeOK, TypeOK
<1>2. \A m \in Live : m \in Msgs \ {n} /\ data[m] \in Payloads \ {p}
  BY LiveStructs DEF Live, WithPayload, MeteoOK, PayloadsOwned
<1>3. ASSUME NEW m \in Live PROVE Stays(m)
  <2>1. m \in Msgs /\ m # n /\ data[m] \in Payloads /\ data[m] # p
    BY <1>2
  <2>2. msg'[m] = msg[m] /\ data'[m] = data[m] /\ payload'[data[m]] = payload[data[m]]
    BY <1>1, <2>1
  <2>3. QED
    BY <2>2 DEF Stays
<1>4. QED
  BY <1>1, <1>3

LEMMA FreeElsewhere ==
  ASSUME MeteoOK, NEW n \in Msgs \ Live, NEW who,
         \/ GivePayload(who, n) /\ n \in WithPayload
         \/ GiveMsg(who, n) /\ free_message(n)
  PROVE  \A m \in Live : Stays(m)
<1>1. /\ msg \in [Msgs -> Contents \cup {Scrap}]
      /\ data \in [Msgs -> Payloads \cup {NoPayload}] /\ payload \in [Payloads -> Channels \cup {Zero}]
  BY DEF MeteoOK, HandsOK, MeteoTypeOK, TypeOK
<1>2. \A m \in Live : m \in WithPayload /\ m \in Msgs \ {n} /\ data[m] \in Payloads
  BY LiveStructs DEF Live, WithPayload, MeteoOK, PayloadsOwned
<1>3. CASE GivePayload(who, n) /\ n \in WithPayload
  <2>1. \A m \in Live : data[m] # data[n]
    BY <1>2, <1>3 DEF MeteoOK, PayloadsOwned
  <2>2. QED
    BY <1>1, <1>2, <1>3, <2>1 DEF GivePayload, Stays, vars
<1>4. CASE GiveMsg(who, n) /\ free_message(n)
  BY <1>1, <1>2, <1>4 DEF GiveMsg, Stays, free_message
<1>5. QED
  BY <1>3, <1>4

LEMMA ParseElsewhere ==
  ASSUME MeteoOK, MeteoRxParse
  PROVE  /\ \A m \in Asking \cup Answering : Stays(m)
         /\ msg' = msg /\ payload'[data'[rx.msg]] = rx.frame.arg
<1>1. rx.msg \in WithPayload /\ \A m \in Asking \cup Answering : m \in WithPayload /\ m # rx.msg
  BY LiveStructs DEF Parsing, MeteoRxParse, RxParse
<1>2. data[rx.msg] \in Payloads /\ \A m \in Asking \cup Answering : data[m] # data[rx.msg]
  BY <1>1 DEF MeteoOK, PayloadsOwned
<1>3. QED
  BY <1>2 DEF MeteoRxParse, RxParse, Stays, MeteoOK, HandsOK, MeteoTypeOK

-----------------------------------------------------------------------------
(* Steps by which no struct comes to ask or to answer.                     *)
LEMMA ContentKept ==
  ASSUME ContentOK, \A m \in Live : Stays(m),
         Asking' \subseteq Asking, Answering' \subseteq Answering,
         rx'.pc \in {"parse", "route"} => rx' = rx
  PROVE  ContentOK'
<1>1. \A m \in Asking' : \E f \in Frames : AsksFor(m, f)'
  BY DEF ContentOK, Live, Stays, AsksFor
<1>2. \A m \in Answering' : \E f \in Frames : Answers(m, f)'
  BY DEF ContentOK, Live, Stays, Answers
<1>3. FrameCopied'
  BY DEF ContentOK, FrameCopied, Live, Parsing, Stays
<1>4. QED
  BY <1>1, <1>2, <1>3 DEF ContentOK

LEMMA Inside ==
  ASSUME MeteoOK, NEW who \in Givers, Hand(who) \in Msgs \ msg_pool, who \notin giving
  PROVE  Hand(who) \in WithPayload
BY FreeingMeans, HandsApart DEF MeteoOK, WithPayload

LEMMA RxContent == ASSUME MeteoOK, ContentOK, MeteoRxStep PROVE ContentOK'
<1>0. UNCHANGED <<task, tx, outgoing>>
  BY DEF MeteoRxStep, MeteoRxAlloc, MeteoRxAllocFail, MeteoRxParse, MeteoRxParseFail,
         MeteoRxFree, GivePayload, RxAlloc, RxAllocFail, RxParse, RxParseFail, RxRoute,
         RxRouteFail, RxFree, taskVars, meteoVars, vars
<1>1. ASSUME NEW m \in Msgs, MeteoRxAlloc(m) PROVE ContentOK'
  <2>1. /\ \A n \in Live : Stays(n)
        /\ msg'[m] = [type |-> rx.frame.type, transaction_id |-> rx.frame.tid]
    <3>1. PICK p \in payload_pool : /\ payload' = [payload EXCEPT ![p] = Zero]
                                    /\ data' = [data EXCEPT ![m] = p]
      BY <1>1 DEF MeteoRxAlloc, TakePayload
    <3>2. payload' = [payload EXCEPT ![p] = payload'[p]]
      BY <3>1 DEF MeteoOK, HandsOK, MeteoTypeOK
    <3>3. /\ m \in msg_pool /\ msg' = [msg EXCEPT ![m] = msg'[m]]
          /\ msg'[m] = [type |-> rx.frame.type, transaction_id |-> rx.frame.tid]
      BY <1>1 DEF MeteoRxAlloc, RxAlloc, alloc_message, MeteoOK, HandsOK, ControlOK, TypeOK
    <3>4. QED
      BY <3>1, <3>2, <3>3, AllocElsewhere
  <2>2. Asking' = Asking /\ Answering' = Answering
    BY <1>0, <1>1 DEF MeteoRxAlloc, RxAlloc, Asking, Answering, Sent
  <2>3. FrameCopied'
    BY <1>1, <2>1 DEF MeteoRxAlloc, RxAlloc, FrameCopied, MeteoOK, HandsOK, ControlOK, TypeOK
  <2>4. \A n \in Asking' : \E f \in Frames : AsksFor(n, f)'
    BY <2>1, <2>2 DEF ContentOK, Live, Stays, AsksFor
  <2>5. \A n \in Answering' : \E f \in Frames : Answers(n, f)'
    BY <2>1, <2>2 DEF ContentOK, Live, Stays, Answers
  <2>6. QED
    BY <2>3, <2>4, <2>5 DEF ContentOK
<1>2. CASE MeteoRxParse
  <2>1. /\ \A n \in Asking \cup Answering : Stays(n)
        /\ msg' = msg /\ payload'[data'[rx.msg]] = rx.frame.arg
    BY <1>2, ParseElsewhere
  <2>2. Asking' = Asking /\ Answering' = Answering
    BY <1>0, <1>2 DEF MeteoRxParse, RxParse, Asking, Answering, Sent
  <2>3. FrameCopied'
    BY <1>2, <2>1 DEF MeteoRxParse, RxParse, ContentOK, FrameCopied, MeteoOK, HandsOK, ControlOK,
                      TypeOK
  <2>4. \A n \in Asking' : \E f \in Frames : AsksFor(n, f)'
    BY <2>1, <2>2 DEF ContentOK, Stays, AsksFor
  <2>5. \A n \in Answering' : \E f \in Frames : Answers(n, f)'
    BY <2>1, <2>2 DEF ContentOK, Stays, Answers
  <2>6. QED
    BY <2>3, <2>4, <2>5 DEF ContentOK
<1>3. CASE MeteoRxAllocFail \/ MeteoRxParseFail \/ (RxRouteFail /\ UNCHANGED meteoVars)
  <2>1. /\ UNCHANGED <<msg, payload, data, incoming>>
        /\ rx'.pc \in {"idle", "free"}
    BY <1>3 DEF MeteoRxAllocFail, MeteoRxParseFail, RxAllocFail, RxParseFail, RxRouteFail, IdleRx,
                meteoVars, MeteoOK, HandsOK, ControlOK, TypeOK
  <2>2. QED
    BY <1>0, <2>1, ContentKept DEF Asking, Answering, Sent, Stays
<1>4. CASE RxRoute /\ UNCHANGED meteoVars
  <2>1. /\ rx.frame \in Frames /\ rx.frame.sub = METEO /\ rx.frame.type \in Requests
        /\ rx.msg \in Msgs
    <3>1. rx.frame \in Frames /\ Verdict(rx.frame) = NO_ERROR /\ rx.msg \in Msgs
      BY <1>4 DEF RxRoute, MeteoOK, HandsOK, ControlOK, WorkersOK, TypeOK
    <3>2. rx.frame.type \in Parsed
      BY <3>1 DEF Verdict, NO_ERROR, MESSAGE_PARSING_ERROR, UNKNOWN_SUBSYSTEM_ERROR,
                  UNKNOWN_MESSAGE_TYPE_ERROR, MISSING_MESSAGE_HANDLER_ERROR
    <3>3. QED
      BY <3>1, <3>2, OnlyMeteo, MeteoAssumption, VerdictMeaning
  <2>2. AsksFor(rx.msg, rx.frame)
    BY <1>4, <2>1 DEF RxRoute, ContentOK, FrameCopied, AsksFor
  <2>3. /\ UNCHANGED <<msg, payload, data>> /\ rx'.pc = "idle"
        /\ incoming'[METEO] = Append(incoming[METEO], rx.msg)
    BY <1>4, <2>1, OnlyMeteo DEF RxRoute, IdleRx, meteoVars, MeteoOK, HandsOK, ControlOK, TypeOK
  <2>4. Queued(incoming'[METEO]) = Queued(incoming[METEO]) \cup {rx.msg}
    BY <2>1, <2>3, OnlyMeteo, QueueGrows DEF MeteoOK, HandsOK, ControlOK, TypeOK
  <2>5. Asking' = Asking \cup {rx.msg} /\ Answering' = Answering
    BY <1>0, <2>4 DEF Asking, Answering, Sent
  <2>6. \A n \in Asking' : \E f \in Frames : AsksFor(n, f)'
    BY <2>1, <2>2, <2>3, <2>5 DEF ContentOK, AsksFor
  <2>7. \A n \in Answering' : \E f \in Frames : Answers(n, f)'
    BY <2>3, <2>5 DEF ContentOK, Answers
  <2>8. FrameCopied'
    BY <2>3 DEF FrameCopied
  <2>9. QED
    BY <2>6, <2>7, <2>8 DEF ContentOK
<1>5. CASE MeteoRxFree
  <2>1. rx.msg \in Msgs \ Live /\ rx.msg \in Msgs \ msg_pool
    BY <1>5, InHand, LiveStructs DEF MeteoRxFree, MeteoOK, Live
  <2>2. \A m \in Live : Stays(m)
    BY <1>5, <2>1, FreeElsewhere, Inside
    DEF MeteoRxFree, GivePayload, RxFree, Hand, Givers
  <2>3. UNCHANGED incoming /\ (rx'.pc \in {"parse", "route"} => rx' = rx)
    BY <1>5 DEF MeteoRxFree, GivePayload, RxFree, IdleRx, vars
  <2>4. QED
    BY <1>0, <2>2, <2>3, ContentKept DEF Asking, Answering, Sent
<1>6. QED
  BY <1>1, <1>2, <1>3, <1>4, <1>5, SMTT(60) DEF MeteoRxStep

LEMMA TxContent == ASSUME MeteoOK, ContentOK, MeteoTxStep PROVE ContentOK'
<1>0. UNCHANGED <<task, rx, incoming>>
  BY DEF MeteoTxStep, MeteoTxFree, GivePayload, TxOwnError, TxSubsystemError, TxMessage,
         TxErrorBegin, TxErrorEnd, TxWriteError, TxSend, TxFree, rxVars, taskVars, meteoVars, vars
<1>1. CASE (TxOwnError \/ TxSubsystemError \/ TxErrorBegin \/ TxErrorEnd \/ TxSend)
              /\ UNCHANGED meteoVars
  <2>0. TypeOK
    BY DEF MeteoOK, HandsOK, ControlOK
  <2>1. UNCHANGED <<msg, payload, data, outgoing>> /\ tx'.pc # "send"
    <3>1. CASE TxOwnError /\ UNCHANGED meteoVars
      BY <2>0, <3>1 DEF TxOwnError, taskVars, meteoVars, TypeOK
    <3>2. CASE TxSubsystemError /\ UNCHANGED meteoVars
      BY <2>0, <3>2, NextQueueOK DEF TxSubsystemError, meteoVars, TypeOK
    <3>3. CASE (TxErrorBegin \/ TxErrorEnd \/ TxSend) /\ UNCHANGED meteoVars
      BY <2>0, <3>3 DEF TxErrorBegin, TxErrorEnd, TxWriteError, TxSend, IdleTx, taskVars,
                        meteoVars, TypeOK
    <3>4. QED
      BY <1>1, <3>1, <3>2, <3>3
  <2>2. QED
    BY <1>0, <2>1, ContentKept DEF Asking, Answering, Sent, Stays
<1>2. CASE TxMessage /\ UNCHANGED meteoVars
  <2>1. UNCHANGED <<msg, payload, data>>
    BY <1>2 DEF TxMessage, meteoVars
  <2>2. Scanned = METEO /\ METEO \in Subsystems
    BY OnlyMeteo, Lengths DEF Scanned, MeteoOK, HandsOK, ControlOK, TypeOK
  <2>3. Sent' \subseteq Sent
    <3>1. CASE Scanned \in WithOutQueue /\ outgoing[Scanned] # <<>>
      <4>1. /\ tx'.msg = Head(outgoing[METEO]) /\ outgoing'[METEO] = Tail(outgoing[METEO])
        BY <1>2, <2>2, <3>1 DEF TxMessage, MeteoOK, HandsOK, ControlOK, TypeOK
      <4>2. /\ Head(outgoing[METEO]) \in Queued(outgoing[METEO])
            /\ Queued(Tail(outgoing[METEO])) \subseteq Queued(outgoing[METEO])
        BY <2>2, <3>1, QueueShrinks
        DEF MeteoOK, HandsOK, ControlOK, TypeOK, OwnershipOK, NoRepeats
      <4>3. QED
        BY <4>1, <4>2 DEF Sent
    <3>2. CASE ~(Scanned \in WithOutQueue /\ outgoing[Scanned] # <<>>)
      BY <1>2, <3>2 DEF TxMessage, NextQueue, Sent, MeteoOK, HandsOK, ControlOK, TypeOK
    <3>3. QED
      BY <3>1, <3>2
  <2>4. QED
    BY <1>0, <2>1, <2>3, ContentKept DEF Asking, Answering, Stays
<1>3. CASE MeteoTxFree
  <2>1. tx.msg \in Msgs \ Live /\ tx.msg \in Msgs \ msg_pool
    BY <1>3, InHand, LiveStructs DEF MeteoTxFree, MeteoOK, Live
  <2>2. \A m \in Live : Stays(m)
    BY <1>3, <2>1, FreeElsewhere, Inside
    DEF MeteoTxFree, GivePayload, TxFree, Hand, Givers
  <2>3. UNCHANGED outgoing /\ tx'.pc # "send"
    BY <1>3 DEF MeteoTxFree, GivePayload, TxFree, IdleTx, taskVars, vars
  <2>4. QED
    BY <1>0, <2>2, <2>3, ContentKept DEF Asking, Answering, Sent
<1>4. QED
  BY <1>1, <1>2, <1>3 DEF MeteoTxStep

LEMMA TaskContent == ASSUME MeteoOK, ContentOK, MeteoTaskStep PROVE ContentOK'
<1>0. UNCHANGED <<rx, tx>>
  BY DEF MeteoTaskStep, MeteoReceive, MeteoMeasure, MeteoNewReply, MeteoNoReply, MeteoSend,
         MeteoSendFull, MeteoFreeReply, MeteoReport, MeteoDrop, GivePayload, TaskReceive,
         TaskNew, TaskSend, TaskDrop, TaskReport, vars
<1>1. CASE MeteoMeasure \/ MeteoNoReply \/ MeteoSendFull \/ MeteoReport
  <2>1. UNCHANGED <<msg, payload, data, incoming, outgoing>>
    BY <1>1 DEF MeteoMeasure, MeteoNoReply, MeteoSendFull, MeteoReport, TaskReport, vars
  <2>2. task'.pc # "send" /\ (task'.pc \in {"measure", "reply"} =>
                                 task.pc = "measure" /\ task'.req = task.req)
    BY <1>1 DEF MeteoMeasure, MeasurePressure, MeasureHumidity, MeasureLight, Measured, Fails,
                MeteoNoReply, MeteoSendFull, MeteoReport, MeteoOK, HandsOK, MeteoTypeOK
  <2>3. Asking' \subseteq Asking /\ Answering' \subseteq Answering
    BY <1>0, <2>1, <2>2 DEF Asking, Answering, Sent
  <2>4. QED
    BY <1>0, <2>1, <2>3, ContentKept DEF Stays
<1>2. CASE MeteoReceive
  <2>1. /\ Head(incoming[METEO]) \in Queued(incoming[METEO])
        /\ Queued(Tail(incoming[METEO])) \subseteq Queued(incoming[METEO])
    BY <1>2, OnlyMeteo, QueueShrinks
    DEF MeteoReceive, TaskReceive, MeteoOK, HandsOK, ControlOK, TypeOK, OwnershipOK, NoRepeats
  <2>2. /\ UNCHANGED <<msg, payload, data, outgoing>>
        /\ incoming'[METEO] = Tail(incoming[METEO])
        /\ task'.pc = "measure" /\ task'.req = Head(incoming[METEO])
    BY <1>2, OnlyMeteo
    DEF MeteoReceive, TaskReceive, MeteoOK, HandsOK, ControlOK, TypeOK, MeteoTypeOK
  <2>3. Asking' \subseteq Asking /\ Answering' \subseteq Answering
    BY <1>0, <2>1, <2>2 DEF Asking, Answering, Sent
  <2>4. QED
    BY <1>0, <2>2, <2>3, ContentKept DEF Stays
<1>3. ASSUME NEW m \in Msgs, MeteoNewReply(m) PROVE ContentOK'
  <2>1. PICK p \in payload_pool : /\ payload' = [payload EXCEPT ![p] = payload[data[task.req]]]
                                  /\ data' = [data EXCEPT ![m] = p]
    BY <1>3 DEF MeteoNewReply
  <2>2. payload'[p] = payload[data[task.req]] /\ payload' = [payload EXCEPT ![p] = payload'[p]]
    BY <2>1 DEF MeteoOK, HandsOK, MeteoTypeOK
  <2>3. /\ m \in msg_pool /\ msg' = [msg EXCEPT ![m] = msg'[m]]
        /\ msg'[m] = [type |-> ReplyTo[request.type], transaction_id |-> request.transaction_id]
    BY <1>3 DEF MeteoNewReply, TaskNew, alloc_message, MeteoOK, HandsOK, ControlOK, TypeOK
  <2>4. (\A n \in Live : Stays(n)) /\ data'[m] = p
    BY <2>1, <2>2, <2>3, AllocElsewhere
  <2>5. PICK f \in Frames : AsksFor(task.req, f)
    BY <1>3 DEF MeteoNewReply, ContentOK, Asking
  <2>6. Answers(m, f)'
    BY <2>2, <2>3, <2>4, <2>5 DEF AsksFor, Answers, request
  <2>7. Asking' \subseteq Asking /\ Answering' \subseteq Answering \cup {m}
    BY <1>0, <1>3 DEF MeteoNewReply, TaskNew, Asking, Answering, Sent, MeteoOK, HandsOK, MeteoTypeOK
  <2>8. FrameCopied'
    BY <1>0, <2>4 DEF ContentOK, FrameCopied, Live, Parsing, Stays
  <2>9. \A n \in Asking' : \E g \in Frames : AsksFor(n, g)'
    BY <2>4, <2>7 DEF ContentOK, Live, Stays, AsksFor
  <2>10. ASSUME NEW n \in Answering' PROVE \E g \in Frames : Answers(n, g)'
    <3>1. CASE n = m
      BY <2>6, <3>1
    <3>2. CASE n \in Answering
      BY <2>4, <3>2 DEF ContentOK, Live, Stays, Answers
    <3>3. QED
      BY <2>7, <3>1, <3>2
  <2>11. QED
    BY <2>8, <2>9, <2>10 DEF ContentOK
<1>4. CASE MeteoSend
  <2>1. /\ UNCHANGED <<msg, payload, data, incoming>>
        /\ outgoing'[METEO] = Append(outgoing[METEO], task.reply) /\ task'.pc = "drop"
        /\ task.reply \in Msgs
    BY <1>4, OnlyMeteo, InHand
    DEF MeteoSend, TaskSend, MeteoOK, HandsOK, ControlOK, TypeOK, MeteoTypeOK
  <2>2. Queued(outgoing'[METEO]) = Queued(outgoing[METEO]) \cup {task.reply}
    BY <2>1, OnlyMeteo, QueueGrows DEF MeteoOK, HandsOK, ControlOK, TypeOK
  <2>3. Asking' \subseteq Asking /\ Answering' \subseteq Answering
    BY <1>0, <1>4, <2>1, <2>2 DEF MeteoSend, Asking, Answering, Sent
  <2>4. QED
    BY <1>0, <2>1, <2>3, ContentKept DEF Stays
<1>5. CASE MeteoFreeReply
  <2>1. task.reply \in Msgs \ Live /\ task.reply \in Msgs \ msg_pool
    BY <1>5, InHand, LiveStructs DEF MeteoFreeReply, MeteoOK, Live
  <2>2. \A m \in Live : Stays(m)
    BY <1>5, <2>1, FreeElsewhere, Inside
    DEF MeteoFreeReply, GivePayload, TaskDrop, Hand, Givers
  <2>3. UNCHANGED <<incoming, outgoing>> /\ task'.pc \notin {"measure", "reply", "send"}
    BY <1>5 DEF MeteoFreeReply, GivePayload, TaskDrop, vars, MeteoOK, HandsOK, MeteoTypeOK
  <2>4. QED
    BY <1>0, <2>2, <2>3, ContentKept DEF Asking, Answering, Sent
<1>6. CASE MeteoDrop
  <2>1. task.req \in Msgs \ Live /\ task.req \in Msgs \ msg_pool
    BY <1>6, InHand, LiveStructs DEF MeteoDrop, MeteoOK, Live
  <2>2. \A m \in Live : Stays(m)
    BY <1>6, <2>1, FreeElsewhere, Inside
    DEF MeteoDrop, GivePayload, TaskDrop, Hand, Givers
  <2>3. UNCHANGED <<incoming, outgoing>> /\ task'.pc \notin {"measure", "reply", "send"}
    BY <1>6 DEF MeteoDrop, GivePayload, TaskDrop, vars, IdleTask
  <2>4. QED
    BY <1>0, <2>2, <2>3, ContentKept DEF Asking, Answering, Sent
<1>7. QED
  BY <1>1, <1>2, <1>3, <1>4, <1>5, <1>6, SMTT(60) DEF MeteoTaskStep

LEMMA ContentInductive == MeteoOK /\ ContentOK /\ [MeteoNext]_allVars => ContentOK'
<1> SUFFICES ASSUME MeteoOK, ContentOK, [MeteoNext]_allVars PROVE ContentOK'
  OBVIOUS
<1>1. CASE ((RxFrame \/ Transmit) /\ UNCHANGED meteoVars) \/ UNCHANGED allVars
  <2>1. /\ UNCHANGED <<msg, payload, data, incoming, outgoing, tx, task>>
        /\ rx'.pc \in {"parse", "route"} => rx' = rx
    BY <1>1 DEF RxFrame, RxReject, RxAccept, Transmit, rxVars, taskVars, meteoVars, allVars, vars,
                MeteoOK, HandsOK, ControlOK, TypeOK
  <2>2. QED
    BY <2>1, ContentKept DEF Asking, Answering, Sent, Stays
<1>2. QED
  BY <1>1, RxContent, TxContent, TaskContent DEF MeteoNext

(* A reply on its way to the wire is of the kind, for the channel and      *)
(* under the id of a request the host made, although three tasks recycle   *)
(* structs and payloads all the time.                                      *)
THEOREM MeteoRepliesMatch == MeteoSpec => []RepliesMatch
<1>1. MeteoInit => ContentOK
  BY OnlyMeteo DEF MeteoInit, Init, IdleRx, IdleTx, IdleTask, ContentOK, FrameCopied, Asking,
                   Answering, Sent, Queued
<1>2. ContentOK => RepliesMatch
  BY DEF ContentOK, Answering, Answers, RepliesMatch
<1>3. QED
  BY <1>1, <1>2, MeteoStarts, MeteoInductive, ContentInductive, PTL DEF MeteoSpec

-----------------------------------------------------------------------------
(* What becomes of a request.  As long as something is owed for it, a      *)
(* struct under its id is on its way to the wire, or an error frame is.    *)
ErrorToCome ==
    \/ task.pc \in {"full", "error"}
    \/ out_err[METEO] # <<>>
    \/ tx.pc = "err_begin"
    \/ Half("err", "begin") \in Queued(tx_char_buffer)
InWork(t) == \E m \in Asking \cup Answering : msg[m].transaction_id = t
Owed(t) == ErrorToCome \/ InWork(t)

(* Nothing is written to a struct that asks or answers.                    *)
LEMMA StructsStay ==
  ASSUME MeteoOK, [MeteoNext]_allVars
  PROVE  \A m \in Asking \cup Answering : msg'[m] = msg[m]
<1>1. msg \in [Msgs -> Contents \cup {Scrap}]
  BY DEF MeteoOK, HandsOK, ControlOK, TypeOK
<1>2. ASSUME NEW m \in Asking \cup Answering
      PROVE  /\ m \in Msgs \ msg_pool
             /\ rx.pc = "free" => m # rx.msg
             /\ tx.pc = "free" => m # tx.msg
             /\ task.pc = "drop" => m # task.req
             /\ task.pc = "full" => m # task.reply
  BY LiveStructs DEF WithPayload
<1>3. ASSUME NEW n \in msg_pool, NEW type, NEW tid, alloc_message(n, type, tid)
      PROVE  \A m \in Asking \cup Answering : msg'[m] = msg[m]
  BY <1>1, <1>2, <1>3 DEF alloc_message
<1>4. ASSUME NEW n, n \notin Asking \cup Answering, free_message(n)
      PROVE  \A m \in Asking \cup Answering : msg'[m] = msg[m]
  BY <1>1, <1>2, <1>4 DEF free_message
<1>5. CASE msg' = msg
  BY <1>5
<1>6. CASE MeteoRxStep
  <2>1. ASSUME NEW n \in Msgs, MeteoRxAlloc(n)
        PROVE  n \in msg_pool /\ alloc_message(n, rx.frame.type, rx.frame.tid)
    BY <2>1 DEF MeteoRxAlloc, RxAlloc, alloc_message
  <2>2. CASE MeteoRxFree
    BY <1>2, <1>4, <1>5, <2>2 DEF MeteoRxFree, GivePayload, RxFree, vars
  <2>3. CASE \/ MeteoRxAllocFail \/ MeteoRxParse \/ MeteoRxParseFail
             \/ (RxRoute \/ RxRouteFail) /\ UNCHANGED meteoVars
    BY <1>5, <2>3 DEF MeteoRxAllocFail, MeteoRxParse, MeteoRxParseFail, RxAllocFail, RxParse,
                      RxParseFail, RxRoute, RxRouteFail
  <2>4. QED
    BY <1>3, <1>6, <2>1, <2>2, <2>3 DEF MeteoRxStep
<1>7. CASE MeteoTxStep
  <2>1. CASE MeteoTxFree
    BY <1>2, <1>4, <1>5, <2>1 DEF MeteoTxFree, GivePayload, TxFree, vars
  <2>2. CASE TxOwnError \/ TxSubsystemError \/ TxMessage \/ TxErrorBegin \/ TxErrorEnd \/ TxSend
    BY <1>5, <2>2 DEF TxOwnError, TxSubsystemError, TxMessage, TxErrorBegin, TxErrorEnd,
                      TxWriteError, TxSend
  <2>3. QED
    BY <1>7, <2>1, <2>2 DEF MeteoTxStep
<1>8. CASE MeteoTaskStep
  <2>1. ASSUME NEW n \in Msgs, MeteoNewReply(n)
        PROVE  /\ n \in msg_pool
               /\ alloc_message(n, ReplyTo[request.type], request.transaction_id)
    BY <2>1 DEF MeteoNewReply, TaskNew, alloc_message
  <2>2. CASE MeteoFreeReply
    BY <1>2, <1>4, <1>5, <2>2 DEF MeteoFreeReply, GivePayload, TaskDrop, vars
  <2>3. CASE MeteoDrop
    BY <1>2, <1>4, <1>5, <2>3 DEF MeteoDrop, GivePayload, TaskDrop, vars
  <2>4. CASE \/ MeteoReceive \/ MeteoMeasure \/ MeteoNoReply
             \/ MeteoSend \/ MeteoSendFull \/ MeteoReport
    BY <1>5, <2>4 DEF MeteoReceive, MeteoMeasure, MeteoNoReply, MeteoSend, MeteoSendFull,
                      MeteoReport, TaskReceive, TaskSend, TaskReport, vars
  <2>5. QED
    BY <1>3, <1>8, <2>1, <2>2, <2>3, <2>4 DEF MeteoTaskStep
<1>9. CASE ((RxFrame \/ Transmit) /\ UNCHANGED meteoVars) \/ UNCHANGED allVars
  BY <1>5, <1>9 DEF RxFrame, RxReject, RxAccept, Transmit, taskVars, allVars, vars
<1>10. QED
  BY <1>6, <1>7, <1>8, <1>9 DEF MeteoNext

LEMMA WorkGoesOn ==
  ASSUME MeteoOK, [MeteoNext]_allVars, NEW t, InWork(t),
         \A m \in Asking \cup Answering :
            msg[m].transaction_id = t => m \in (Asking \cup Answering)'
  PROVE  InWork(t)'
<1>1. PICK m \in Asking \cup Answering : msg[m].transaction_id = t
  BY DEF InWork
<1>2. msg'[m].transaction_id = t
  BY <1>1, StructsStay
<1>3. QED
  BY <1>1, <1>2 DEF InWork

LEMMA QueueParts ==
  ASSUME NEW S, NEW q \in Seq(S), q # <<>>
  PROVE  Queued(q) = {Head(q)} \cup Queued(Tail(q))
<1>1. /\ Len(q) \in Nat \ {0} /\ Len(Tail(q)) = Len(q) - 1 /\ Head(q) = q[1]
      /\ \A i \in 1..Len(Tail(q)) : Tail(q)[i] = q[i + 1]
  BY HeadTailProperties, EmptySeq
<1>2. ASSUME NEW x \in Queued(q) PROVE x \in {Head(q)} \cup Queued(Tail(q))
  <2>1. PICK i \in 1..Len(q) : x = q[i]
    BY DEF Queued
  <2>2. CASE i = 1
    BY <1>1, <2>1, <2>2
  <2>3. CASE i # 1
    <3>1. i - 1 \in 1..Len(Tail(q)) /\ Tail(q)[i - 1] = x
      BY <1>1, <2>1, <2>3
    <3>2. QED
      BY <3>1 DEF Queued
  <2>4. QED
    BY <2>2, <2>3
<1>3. ASSUME NEW x \in Queued(Tail(q)) PROVE x \in Queued(q)
  BY <1>1, <1>3 DEF Queued
<1>4. Head(q) \in Queued(q)
  BY <1>1 DEF Queued
<1>5. QED
  BY <1>2, <1>3, <1>4

LEMMA RxOwes == ASSUME MeteoOK, MeteoRxStep, NEW t, Owed(t) PROVE Owed(t)'
<1>1. UNCHANGED <<task, tx, outgoing, out_err, tx_char_buffer>>
  BY DEF MeteoRxStep, MeteoRxAlloc, MeteoRxAllocFail, MeteoRxParse, MeteoRxParseFail,
         MeteoRxFree, GivePayload, RxAlloc, RxAllocFail, RxParse, RxParseFail, RxRoute,
         RxRouteFail, RxFree, taskVars, wireVars, meteoVars, vars
<1>2. Queued(incoming[METEO]) \subseteq Queued(incoming'[METEO])
  <2>1. CASE UNCHANGED incoming
    BY <2>1
  <2>2. CASE RxRoute
    <3>1. incoming \in [Subsystems -> Seq(Msgs)] /\ incoming[METEO] \in Seq(Msgs)
      BY OnlyMeteo DEF MeteoOK, HandsOK, ControlOK, TypeOK
    <3>2. rx.msg \in Msgs
      BY <2>2 DEF RxRoute, MeteoOK, HandsOK, ControlOK, WorkersOK, TypeOK
    <3>3. Queued(Append(incoming[METEO], rx.msg)) = Queued(incoming[METEO]) \cup {rx.msg}
      BY <3>1, <3>2, QueueGrows
    <3>4. incoming'[METEO] \in {incoming[METEO], Append(incoming[METEO], rx.msg)}
      BY <2>2, <3>1, OnlyMeteo DEF RxRoute
    <3>5. QED
      BY <3>3, <3>4
  <2>3. CASE MeteoRxFree
    BY <2>1, <2>3 DEF MeteoRxFree, GivePayload, RxFree, vars
  <2>4. QED
    BY <2>1, <2>2, <2>3
    DEF MeteoRxStep, MeteoRxAlloc, MeteoRxAllocFail, MeteoRxParse, MeteoRxParseFail,
        RxAlloc, RxAllocFail, RxParse, RxParseFail, RxRouteFail
<1>3. Asking \cup Answering \subseteq (Asking \cup Answering)'
  BY <1>1, <1>2 DEF Asking, Answering, Sent
<1>4. [MeteoNext]_allVars
  BY DEF MeteoNext
<1>5. CASE ErrorToCome
  BY <1>1, <1>5 DEF Owed, ErrorToCome
<1>6. CASE InWork(t)
  BY <1>3, <1>4, <1>6, WorkGoesOn DEF Owed
<1>7. ErrorToCome \/ InWork(t)
  BY DEF Owed
<1>8. QED
  BY <1>5, <1>6, <1>7, ZenonT(60)

(* A message that is taken out of outgoing[METEO] is being sent.           *)
LEMMA TxTakesOver ==
  ASSUME MeteoOK, TxMessage PROVE Sent \subseteq Sent'
<1>1. Scanned = METEO /\ METEO \in Subsystems
  BY OnlyMeteo, Lengths DEF Scanned, MeteoOK, HandsOK, ControlOK, TypeOK
<1>2. outgoing \in [Subsystems -> Seq(Msgs)] /\ outgoing[METEO] \in Seq(Msgs)
  BY <1>1 DEF MeteoOK, HandsOK, ControlOK, TypeOK
<1>3. tx.pc = "msgs" /\ tx = [pc |-> tx.pc, pos |-> tx.pos, msg |-> tx.msg]
  BY DEF TxMessage, MeteoOK, HandsOK, ControlOK, TypeOK
<1>4. CASE Scanned \in WithOutQueue /\ outgoing[Scanned] # <<>>
  <2>1. /\ tx'.pc = "send" /\ tx'.msg = Head(outgoing[METEO])
        /\ outgoing'[METEO] = Tail(outgoing[METEO])
    BY <1>1, <1>2, <1>3, <1>4 DEF TxMessage
  <2>2. Queued(outgoing[METEO]) = {Head(outgoing[METEO])} \cup Queued(Tail(outgoing[METEO]))
    BY <1>1, <1>2, <1>4, QueueParts
  <2>3. QED
    BY <1>3, <2>1, <2>2 DEF Sent
<1>5. CASE ~(Scanned \in WithOutQueue /\ outgoing[Scanned] # <<>>)
  BY <1>3, <1>5 DEF TxMessage, Sent
<1>6. QED
  BY <1>4, <1>5

LEMMA TxOwes ==
  ASSUME MeteoOK, MeteoTxStep, NEW t, Owed(t), ~Answered(t) PROVE Owed(t)'
<1>0. /\ UNCHANGED <<task, incoming>> /\ [MeteoNext]_allVars
      /\ tx_char_buffer \in Seq(Halves)
  <2>1. UNCHANGED <<task, incoming>>
    BY DEF MeteoTxStep, MeteoTxFree, GivePayload, TxOwnError, TxSubsystemError, TxMessage,
           TxErrorBegin, TxErrorEnd, TxWriteError, TxSend, TxFree, rxVars, meteoVars, vars
  <2>2. QED
    BY <2>1 DEF MeteoNext, MeteoOK, HandsOK, ControlOK, TypeOK
<1>1. ASSUME ErrorToCome PROVE ErrorToCome'
  <2>1. CASE TxSubsystemError
    <3>1. Scanned = METEO /\ METEO \in Subsystems /\ METEO \in WithErrQueue
      BY OnlyMeteo, Lengths, MeteoAssumption DEF Scanned, MeteoOK, HandsOK, ControlOK, TypeOK
    <3>2. CASE out_err[METEO] # <<>>
      BY <2>1, <3>1, <3>2 DEF TxSubsystemError, ErrorToCome, MeteoOK, HandsOK, ControlOK, TypeOK
    <3>3. CASE out_err[METEO] = <<>>
      BY <1>0, <1>1, <2>1, <3>3 DEF TxSubsystemError, ErrorToCome, wireVars
    <3>4. QED
      BY <3>2, <3>3
  <2>2. CASE TxErrorBegin
    <3>1. /\ Half("err", "begin") \in Halves
          /\ tx_char_buffer' = Append(tx_char_buffer, Half("err", "begin"))
      BY <2>2 DEF TxErrorBegin, TxWriteError, Half, Halves
    <3>2. Half("err", "begin") \in Queued(tx_char_buffer')
      BY <1>0, <3>1, QueueGrows
    <3>3. QED
      BY <3>2 DEF ErrorToCome
  <2>3. CASE TxErrorEnd
    <3>1. /\ Half("err", "end") \in Halves /\ UNCHANGED out_err /\ tx.pc # "err_begin"
          /\ tx_char_buffer' = Append(tx_char_buffer, Half("err", "end"))
      BY <2>3 DEF TxErrorEnd, TxWriteError, Half, Halves, taskVars
    <3>2. Queued(tx_char_buffer) \subseteq Queued(tx_char_buffer')
      BY <1>0, <3>1, QueueGrows
    <3>3. QED
      BY <1>0, <1>1, <3>1, <3>2 DEF ErrorToCome
  <2>4. CASE TxSend
    <3>1. UNCHANGED out_err /\ tx.pc # "err_begin"
      BY <2>4 DEF TxSend, taskVars
    <3>2. \E s \in Seq(Halves) : tx_char_buffer' = tx_char_buffer \o s
      <4>1. TxRoom \in Int
        BY <1>0, LenProperties, QueuesAssumption DEF TxRoom
      <4>2. (IF TxRoom < 2 THEN TxRoom ELSE 2) \in Int /\ (IF TxRoom < 2 THEN TxRoom ELSE 2) <= 2
        BY <4>1
      <4>3. QED
        BY <2>4, <4>2, PartOfFrame DEF TxSend
    <3>3. Queued(tx_char_buffer) \subseteq Queued(tx_char_buffer')
      <4>1. PICK s \in Seq(Halves) : tx_char_buffer' = tx_char_buffer \o s
        BY <3>2
      <4>2. /\ Len(tx_char_buffer) \in Nat /\ Len(s) \in Nat
            /\ Len(tx_char_buffer') = Len(tx_char_buffer) + Len(s)
            /\ \A i \in 1..Len(tx_char_buffer) : tx_char_buffer'[i] = tx_char_buffer[i]
        BY <1>0, <4>1, ConcatProperties, LenProperties
      <4>3. QED
        BY <4>2 DEF Queued
    <3>4. QED
      BY <1>0, <1>1, <3>1, <3>3 DEF ErrorToCome
  <2>5. CASE TxOwnError \/ TxMessage \/ MeteoTxFree
    <3>1. UNCHANGED <<out_err, tx_char_buffer>> /\ tx.pc # "err_begin"
      BY <2>5 DEF TxOwnError, TxMessage, MeteoTxFree, GivePayload, TxFree, taskVars, wireVars, vars
    <3>2. QED
      BY <1>0, <1>1, <3>1 DEF ErrorToCome
  <2>6. QED
    BY <2>1, <2>2, <2>3, <2>4, <2>5 DEF MeteoTxStep
<1>2. ASSUME InWork(t) PROVE InWork(t)'
  <2>1. CASE TxMessage
    <3>1. Asking \cup Answering \subseteq (Asking \cup Answering)'
      BY <1>0, <2>1, TxTakesOver DEF Asking, Answering
    <3>2. QED
      BY <1>0, <1>2, <3>1, WorkGoesOn
  <2>2. CASE ~TxMessage
    <3>1. outgoing' = outgoing
      BY <2>2 DEF MeteoTxStep, TxOwnError, TxSubsystemError, TxErrorBegin, TxErrorEnd,
                  TxWriteError, TxSend, MeteoTxFree, GivePayload, TxFree, taskVars, vars
    <3>2. ASSUME NEW m \in Asking \cup Answering, msg[m].transaction_id = t
          PROVE  m \in (Asking \cup Answering)'
      BY <1>0, <3>1, <3>2 DEF Asking, Answering, Sent, Answered
    <3>3. QED
      BY <1>0, <1>2, <3>2, WorkGoesOn
  <2>3. QED
    BY <2>1, <2>2
<1>3. QED
  BY <1>1, <1>2 DEF Owed

LEMMA TaskOwes ==
  ASSUME OutboundErrLen > 0, MeteoOK, MeteoTaskStep, NEW t, Owed(t) PROVE Owed(t)'
<1>0. UNCHANGED <<tx, tx_char_buffer>> /\ [MeteoNext]_allVars
  <2>1. UNCHANGED <<tx, tx_char_buffer>>
    BY DEF MeteoTaskStep, MeteoReceive, MeteoMeasure, MeteoNewReply, MeteoNoReply, MeteoSend,
           MeteoSendFull, MeteoFreeReply, MeteoReport, MeteoDrop, GivePayload, TaskReceive,
           TaskNew, TaskSend, TaskDrop, TaskReport, wireVars, vars
  <2>2. [MeteoNext]_allVars
    BY ZenonT(60) DEF MeteoNext
  <2>3. QED
    BY <2>1, <2>2, ZenonT(60)
<1>1. /\ incoming \in [Subsystems -> Seq(Msgs)] /\ outgoing \in [Subsystems -> Seq(Msgs)]
      /\ out_err \in [Subsystems -> Seq(TaskErrors)] /\ METEO \in Subsystems
      /\ msg \in [Msgs -> Contents \cup {Scrap}]
  BY OnlyMeteo DEF MeteoOK, HandsOK, ControlOK, TypeOK
<1>2. CASE MeteoReport
  <2>1. out_err'[METEO] = Posted(out_err[METEO], task.err, OutboundErrLen)
    BY <1>1, <1>2 DEF MeteoReport, TaskReport
  <2>2. task.err \in TaskErrors /\ out_err[METEO] \in Seq(TaskErrors)
    BY <1>1, <1>2, MeteoAssumption DEF MeteoReport, MeteoOK, HandsOK, TaskOK
  <2>3. Len(out_err'[METEO]) > 0
    <3>1. Len(out_err[METEO]) \in Nat /\ OutboundErrLen \in Nat
          /\ Len(Append(out_err[METEO], task.err)) = Len(out_err[METEO]) + 1
      BY <2>2, AppendProperties, LenProperties, QueuesAssumption
    <3>2. QED
      BY <2>1, <3>1 DEF Posted
  <2>4. out_err'[METEO] # <<>>
    BY <2>3
  <2>5. QED
    BY <2>4 DEF Owed, ErrorToCome
<1>3. CASE MeteoSendFull \/ MeteoNoReply \/ MeteoFreeReply
  <2>1. task'.pc \in {"full", "error"}
    BY <1>3 DEF MeteoSendFull, MeteoNoReply, MeteoFreeReply, GivePayload, Fails, MeteoOK, HandsOK,
                MeteoTypeOK
  <2>2. QED
    BY <2>1 DEF Owed, ErrorToCome
<1>4. CASE MeteoMeasure
  <2>1. /\ UNCHANGED <<incoming, outgoing, out_err>>
        /\ task.pc = "measure" /\ task'.req = task.req /\ task'.pc \in {"reply", "error"}
    BY <1>4 DEF MeteoMeasure, MeasurePressure, MeasureHumidity, MeasureLight, Measured, Fails,
                MeteoOK, HandsOK, MeteoTypeOK, vars
  <2>2. CASE task'.pc = "error"
    BY <2>2 DEF Owed, ErrorToCome
  <2>3. CASE task'.pc = "reply"
    <3>1. Asking \cup Answering \subseteq (Asking \cup Answering)'
      BY <1>0, <2>1, <2>3 DEF Asking, Answering, Sent
    <3>2. ErrorToCome => ErrorToCome'
      BY <1>0, <2>1 DEF ErrorToCome
    <3>3. QED
      BY <1>0, <3>1, <3>2, WorkGoesOn DEF Owed
  <2>4. QED
    BY <2>1, <2>2, <2>3
<1>5. CASE MeteoReceive
  <2>1. /\ UNCHANGED <<outgoing, out_err>> /\ incoming'[METEO] = Tail(incoming[METEO])
        /\ task.pc = "idle" /\ task'.pc = "measure" /\ task'.req = Head(incoming[METEO])
    BY <1>1, <1>5 DEF MeteoReceive, TaskReceive, MeteoOK, HandsOK, MeteoTypeOK
  <2>2. Queued(incoming[METEO]) = {Head(incoming[METEO])} \cup Queued(Tail(incoming[METEO]))
    BY <1>1, <1>5, QueueParts DEF MeteoReceive, TaskReceive
  <2>3. Asking \cup Answering \subseteq (Asking \cup Answering)'
    BY <1>0, <2>1, <2>2 DEF Asking, Answering, Sent
  <2>4. ErrorToCome => ErrorToCome'
    BY <1>0, <2>1 DEF ErrorToCome
  <2>5. QED
    BY <1>0, <2>3, <2>4, WorkGoesOn DEF Owed
<1>6. ASSUME NEW n \in Msgs, MeteoNewReply(n) PROVE Owed(t)'
  <2>1. /\ UNCHANGED <<incoming, outgoing, out_err>> /\ task.pc = "reply"
        /\ task'.pc = "send" /\ task'.reply = n
    BY <1>6 DEF MeteoNewReply, TaskNew, MeteoOK, HandsOK, MeteoTypeOK
  <2>2. msg'[n].transaction_id = msg[task.req].transaction_id
    BY <1>1, <1>6 DEF MeteoNewReply, TaskNew, alloc_message, request
  <2>3. n \in Answering'
    BY <2>1 DEF Answering
  <2>4. CASE ErrorToCome
    BY <1>0, <2>1, <2>4 DEF Owed, ErrorToCome
  <2>5. CASE msg[task.req].transaction_id = t
    BY <2>2, <2>3, <2>5 DEF Owed, InWork
  <2>6. CASE InWork(t) /\ msg[task.req].transaction_id # t
    <3>1. ASSUME NEW m \in Asking \cup Answering, msg[m].transaction_id = t
          PROVE  m \in (Asking \cup Answering)'
      BY <1>0, <2>1, <2>6, <3>1 DEF Asking, Answering, Sent
    <3>2. QED
      BY <1>0, <2>6, <3>1, WorkGoesOn DEF Owed
  <2>7. QED
    BY <2>4, <2>5, <2>6 DEF Owed
<1>7. CASE MeteoSend
  <2>1. /\ UNCHANGED <<incoming, out_err>> /\ task.pc = "send" /\ task.reply \in Msgs
        /\ outgoing'[METEO] = Append(outgoing[METEO], task.reply)
    <3>1. UNCHANGED <<incoming, out_err>> /\ task.pc = "send"
      BY <1>7 DEF MeteoSend, TaskSend
    <3>2. task.reply \in Msgs
      BY <3>1 DEF MeteoOK, HandsOK, TaskOK, MeteoTypeOK
    <3>3. outgoing'[METEO] = Append(outgoing[METEO], task.reply)
      BY <1>1, <1>7 DEF MeteoSend, TaskSend
    <3>4. QED
      BY <3>1, <3>2, <3>3
  <2>2. Queued(outgoing'[METEO]) = Queued(outgoing[METEO]) \cup {task.reply}
    BY <1>1, <2>1, QueueGrows
  <2>3. Asking \cup Answering \subseteq (Asking \cup Answering)'
    BY <1>0, <2>1, <2>2 DEF Asking, Answering, Sent
  <2>4. ErrorToCome => ErrorToCome'
    BY <1>0, <2>1 DEF ErrorToCome
  <2>5. QED
    BY <1>0, <2>3, <2>4, WorkGoesOn DEF Owed
<1>8. CASE MeteoDrop
  <2>1. UNCHANGED <<incoming, outgoing, out_err>> /\ task.pc = "drop"
    BY <1>8 DEF MeteoDrop, GivePayload, TaskDrop, vars
  <2>2. Asking \cup Answering \subseteq (Asking \cup Answering)'
    BY <1>0, <2>1 DEF Asking, Answering, Sent
  <2>3. ErrorToCome => ErrorToCome'
    BY <1>0, <2>1 DEF ErrorToCome
  <2>4. QED
    BY <1>0, <2>2, <2>3, WorkGoesOn DEF Owed
<1>9. QED
  BY <1>2, <1>3, <1>4, <1>5, <1>6, <1>7, <1>8, SMTT(60) DEF MeteoTaskStep

LEMMA WireOwes ==
  ASSUME MeteoOK, ((RxFrame \/ Transmit) /\ UNCHANGED meteoVars) \/ UNCHANGED allVars,
         NEW t, Owed(t)
  PROVE  Owed(t)' \/ ErrorLeaves'
<1>1. UNCHANGED <<task, tx, incoming, outgoing, out_err>> /\ [MeteoNext]_allVars
  <2>1. UNCHANGED <<task, tx, incoming, outgoing, out_err>>
    BY DEF RxFrame, RxReject, RxAccept, Transmit, rxVars, taskVars, meteoVars, allVars, vars
  <2>2. QED
    BY <2>1 DEF MeteoNext
<1>2. CASE InWork(t)
  <2>1. Asking \cup Answering \subseteq (Asking \cup Answering)'
    BY <1>1 DEF Asking, Answering, Sent
  <2>2. QED
    BY <1>1, <1>2, <2>1, WorkGoesOn DEF Owed
<1>3. CASE ErrorToCome
  <2>1. CASE UNCHANGED tx_char_buffer
    BY <1>1, <1>3, <2>1 DEF Owed, ErrorToCome
  <2>2. CASE Transmit
    <3>1. Queued(tx_char_buffer) = {line'} \cup Queued(tx_char_buffer')
      BY <2>2, QueueParts DEF Transmit, MeteoOK, HandsOK, ControlOK, TypeOK
    <3>2. QED
      BY <1>1, <1>3, <3>1 DEF Owed, ErrorToCome, ErrorLeaves
  <2>3. QED
    BY <2>1, <2>2 DEF RxFrame, RxReject, RxAccept, wireVars, allVars, vars
<1>4. QED
  BY <1>2, <1>3 DEF Owed

(* The safety part of NoRequestVanishes.  From the queue of requests to    *)
(* the reply being sent, through every error, something is owed for the    *)
(* request at every step: rust_meteo_comm_loop and the transmit worker     *)
(* never finish with it in silence.  An error queue without any room would *)
(* lose what send_err does not look at.                                    *)
THEOREM MeteoRequestsStayOwed ==
  ASSUME OutboundErrLen > 0
  PROVE  MeteoSpec =>
            [][\A t \in TransIds : Owed(t) /\ ~Answered(t) => Owed(t)' \/ ErrorLeaves']_allVars
<1>1. ASSUME MeteoOK, [MeteoNext]_allVars
      PROVE  [\A t \in TransIds : Owed(t) /\ ~Answered(t) => Owed(t)' \/ ErrorLeaves']_allVars
  <2>1. SUFFICES ASSUME NEW t \in TransIds, Owed(t), ~Answered(t) PROVE Owed(t)' \/ ErrorLeaves'
    OBVIOUS
  <2>2. CASE MeteoRxStep
    BY <1>1, <2>1, <2>2, RxOwes
  <2>3. CASE MeteoTxStep
    BY <1>1, <2>1, <2>3, TxOwes
  <2>4. CASE MeteoTaskStep
    BY <1>1, <2>1, <2>4, TaskOwes
  <2>5. CASE ((RxFrame \/ Transmit) /\ UNCHANGED meteoVars) \/ UNCHANGED allVars
    BY <1>1, <2>1, <2>5, WireOwes
  <2>6. QED
    BY <1>1, <2>2, <2>3, <2>4, <2>5 DEF MeteoNext
<1>2. QED
  BY <1>1, MeteoStarts, MeteoInductive, PTL DEF MeteoSpec
=============================================================================
