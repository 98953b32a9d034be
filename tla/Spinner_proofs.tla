---------------------------- MODULE Spinner_proofs ----------------------------
(* SPINNER keeps the dispatcher's contract, so that what is proved of the  *)
(* dispatcher holds under SPINNER, and never shares or loses a block of    *)
(* data although it takes and gives struct and data one by one; for any    *)
(* number of structs, blocks and queue places.                             *)
EXTENDS Spinner, Dispatcher_proofs, FiniteSetTheorems

Args == [channel : Int, value : Int]
Answers == [type : Replies \cup {"none"}, value : Int]

SpinnerTypeOK ==
    /\ data_pool \subseteq Data
    /\ content \in [Data -> Args]
    /\ data \in [Msgs -> Data \cup {NoData}]
    /\ taken \in [{"rx", "task"} -> Msgs \cup {NoMsg}]
    /\ giving \subseteq {"rx", "tx", "req"}
    /\ task \in [pc : {"idle", "handle", "reply", "write", "drop", "panic"},
                 req : Msgs \cup {NoMsg}, reply : Msgs \cup {NoMsg},
                 answer : Answers]
    /\ channel \in [state : States, plan_len : Int]

(* What the task has in hand, by where it is in its loop.                  *)
TaskOK ==
    /\ held[SPINNER] = {task.req, task.reply} \ {NoMsg}
    /\ task.req = NoMsg <=> task.pc = "idle"
    /\ task.reply = NoMsg <=> task.pc # "write"
    /\ task.req = task.reply => task.req = NoMsg
    /\ task.pc = "reply" => /\ request.type \in Requests
                            /\ task.answer.type = MayAnswer(request.type)

(* Who has given data back is about to give the struct back.               *)
GivingOK ==
    /\ "rx" \in giving => rx.pc = "free"
    /\ "tx" \in giving => tx.pc = "free"
    /\ "req" \in giving => task.pc = "drop"

(* What the callers inside spinner_alloc_message have taken is still in    *)
(* the dispatcher's msg_pool, and is not the same struct.                  *)
TakenApart ==
    /\ taken["rx"] = taken["task"] => taken["rx"] = NoMsg
    /\ {taken["rx"], taken["task"]} \subseteq msg_pool \cup {NoMsg}

HandsOK == ControlOK /\ OwnershipOK /\ SpinnerTypeOK /\ TaskOK
SpinnerOK == HandsOK /\ GivingOK /\ TakenApart /\ DataOwned

-----------------------------------------------------------------------------
LEMMA OnlySpinner == Subsystems = {SPINNER} /\ \A m \in Msgs : SubsystemOf[m] = SPINNER
<1>1. Subsystems = {SPINNER}
  BY SpinnerAssumption DEF Subsystems
<1>2. QED
  BY <1>1, MsgsAssumption

(* The structs in the hands of workers and task are different ones, and    *)
(* none is in the pool.                                                    *)
LEMMA Apart ==
  ASSUME HandsOK
  PROVE  /\ rx.msg \in Msgs => rx.msg \notin msg_pool \cup {tx.msg, task.req, task.reply}
         /\ tx.msg \in Msgs => tx.msg \notin msg_pool \cup {task.req, task.reply}
         /\ task.req \in Msgs => task.req \notin msg_pool \cup {task.reply}
         /\ task.reply \in Msgs => task.reply \notin msg_pool
<1>1. \A m \in Msgs : m \in {task.req, task.reply} => Has("held", m)
  BY OnlySpinner, MsgsAssumption, HasMeans DEF HandsOK, TaskOK
<1>2. \A m \in Msgs, k \in Kinds : Has(k, m) => \A l \in Kinds : Has(l, m) <=> l = k
  BY Alone DEF HandsOK
<1>3. \A m \in Msgs : /\ rx.msg = m => Has("rx", m)
                      /\ tx.msg = m => Has("tx", m)
                      /\ m \in msg_pool => Has("pool", m)
  BY HasMeans
<1>4. task.req \in Msgs => task.req # task.reply
  BY MsgsAssumption DEF HandsOK, TaskOK
<1>5. QED
  BY <1>1, <1>2, <1>3, <1>4 DEF Kinds

LEMMA InHand ==
  ASSUME HandsOK
  PROVE  /\ rx.pc = "free" => rx.msg \in Msgs \ msg_pool
         /\ tx.pc = "free" => tx.msg \in Msgs \ msg_pool
         /\ task.pc # "idle" => task.req \in Msgs \ msg_pool
         /\ task.pc = "write" => task.reply \in Msgs \ msg_pool
BY Apart, MsgsAssumption DEF HandsOK, ControlOK, TypeOK, WorkersOK, SpinnerTypeOK, TaskOK

-----------------------------------------------------------------------------
(* SPINNER's steps are the dispatcher's.                                   *)

LEMMA ReplyKnown ==
  ASSUME HandsOK, task.pc = "reply"
  PROVE  /\ task.answer.type \in MsgTypes
         /\ request.transaction_id \in TransIds
<1>1. request.type \in Requests /\ task.answer.type \in Replies
  BY DEF HandsOK, TaskOK, MayAnswer, Requests, Replies
<1>2. request \in Contents \cup {Scrap}
  BY InHand DEF HandsOK, ControlOK, TypeOK, request
<1>3. request \in Contents
  BY <1>1, <1>2 DEF Scrap, Requests
<1>4. QED
  BY <1>1, <1>3, HandlersAssumption, SpinnerAssumption DEF Contents

LEMMA TaskKeepsContract ==
  ASSUME HandsOK, SpinnerTaskStep
  PROVE  UNCHANGED vars \/ TaskStep(SPINNER)
<1> USE DEF TaskStep
<1>1. CASE SpinnerReceive
  BY <1>1 DEF SpinnerReceive
<1>2. CASE SpinnerHandle
  BY <1>2 DEF SpinnerHandle
<1>3. CASE SpinnerNewReply
  <2>1. CASE TakeStruct("task") \/ UNCHANGED vars
    BY <2>1 DEF TakeStruct
  <2>2. CASE /\ task.pc = "reply" /\ TakeData("task", task.answer.type)
             /\ TaskNew(SPINNER, taken["task"], task.answer.type, request.transaction_id)
    <3>1. taken["task"] \in Msgs
      BY <2>2 DEF TakeData, HandsOK, SpinnerTypeOK
    <3>2. QED
      BY <2>2, <3>1, ReplyKnown
  <2>3. QED
    BY <1>3, <2>1, <2>2 DEF SpinnerNewReply
<1>4. CASE SpinnerWrite
  BY <1>4, InHand, SpinnerAssumption DEF SpinnerWrite
<1>5. CASE SpinnerDrop
  BY <1>5, InHand DEF SpinnerDrop, GiveData
<1>6. QED
  BY <1>1, <1>2, <1>3, <1>4, <1>5 DEF SpinnerTaskStep

LEMMA Contract ==
  ASSUME HandsOK, [SpinnerNext]_allVars PROVE [Next]_vars
<1>1. CASE UNCHANGED allVars
  BY <1>1 DEF allVars
<1>2. CASE RxFrame \/ Transmit
  BY <1>2 DEF Next
<1>3. CASE SpinnerRxStep
  <2>1. CASE SpinnerRxAlloc
    <3>1. taken["rx"] # NoMsg => taken["rx"] \in Msgs
      BY DEF HandsOK, SpinnerTypeOK
    <3>2. QED
      BY <2>1, <3>1 DEF SpinnerRxAlloc, TakeStruct, TakeData, Next, RxStep
  <2>2. CASE ~SpinnerRxAlloc
    BY <1>3, <2>2 DEF SpinnerRxStep, SpinnerRxParse, SpinnerRxParseFail, SpinnerRxFree, GiveData,
                      Next, RxStep
  <2>3. QED
    BY <2>1, <2>2
<1>4. CASE SpinnerTxStep
  <2>1. {MESSAGE_FORMATTING_ERROR, MESSAGE_TOO_LONG_ERROR} \subseteq ErrorCodes
    BY DEF MESSAGE_FORMATTING_ERROR, MESSAGE_TOO_LONG_ERROR, ErrorCodes
  <2>2. SpinnerTxTooLong => \E code \in ErrorCodes : TxSendFail(code)
    BY <2>1 DEF SpinnerTxTooLong
  <2>3. QED
    BY <1>4, <2>2 DEF SpinnerTxStep, SpinnerTxFree, GiveData, Next, TxStep
<1>5. CASE SpinnerTaskStep
  BY <1>5, TaskKeepsContract, OnlySpinner DEF Next
<1>6. QED
  BY <1>1, <1>2, <1>3, <1>4, <1>5 DEF SpinnerNext

-----------------------------------------------------------------------------
(* What the task has in hand stays in order.                               *)

LEMMA OthersLeaveTask ==
  ASSUME HandsOK,
         (RxFrame /\ UNCHANGED spinnerVars) \/ SpinnerRxStep \/ SpinnerTxStep
            \/ (Transmit /\ UNCHANGED spinnerVars) \/ UNCHANGED allVars
  PROVE  /\ UNCHANGED <<task, held, channel>>
         /\ task.req \in Msgs => msg'[task.req] = msg[task.req]
<1>1. msg \in [Msgs -> Contents \cup {Scrap}]
  BY DEF HandsOK, ControlOK, TypeOK
<1>2. CASE UNCHANGED allVars
  BY <1>2 DEF allVars, spinnerVars, vars
<1>3. CASE (RxFrame \/ Transmit) /\ UNCHANGED spinnerVars
  BY <1>3 DEF spinnerVars, RxFrame, RxReject, RxAccept, Transmit, taskVars
<1>4. CASE SpinnerRxAlloc
  <2>1. CASE rx.pc = "alloc" /\ TakeStruct("rx")
    BY <2>1 DEF TakeStruct, vars
  <2>2. CASE /\ TakeData("rx", rx.frame.type) /\ RxAlloc(taken["rx"])
             /\ UNCHANGED <<content, giving, task, channel>>
    <3>1. task.req \in Msgs => task.req # taken["rx"]
      BY <2>2, Apart DEF RxAlloc, alloc_message
    <3>2. QED
      BY <1>1, <2>2, <3>1 DEF RxAlloc, alloc_message, taskVars
  <2>3. CASE RxAllocFail /\ UNCHANGED <<giving, task, channel>>
    BY <2>3 DEF RxAllocFail, taskVars
  <2>4. QED
    BY <1>4, <2>1, <2>2, <2>3 DEF SpinnerRxAlloc
<1>5. CASE SpinnerRxParse \/ SpinnerRxParseFail \/ ((RxRoute \/ RxRouteFail) /\ UNCHANGED spinnerVars)
  BY <1>5 DEF SpinnerRxParse, SpinnerRxParseFail, RxParse, RxParseFail, RxRoute, RxRouteFail,
              spinnerVars, taskVars
<1>6. CASE SpinnerRxFree
  <2>1. rx.msg \in Msgs /\ (task.req \in Msgs => task.req # rx.msg)
    BY <1>6, Apart, InHand DEF SpinnerRxFree
  <2>2. QED
    BY <1>1, <1>6, <2>1 DEF SpinnerRxFree, GiveData, GiveStruct, RxFree, free_message, taskVars,
                            vars
<1>7. CASE (TxOwnError \/ TxSubsystemError \/ TxMessage \/ TxErrorBegin \/ TxErrorEnd \/ TxSend
               \/ SpinnerTxTooLong) /\ UNCHANGED spinnerVars
  BY <1>7 DEF TxOwnError, TxSubsystemError, TxMessage, TxErrorBegin, TxErrorEnd, TxWriteError,
              TxSend, SpinnerTxTooLong, TxSendFail, spinnerVars, taskVars
<1>8. CASE SpinnerTxFree
  <2>1. tx.msg \in Msgs /\ (task.req \in Msgs => task.req # tx.msg)
    BY <1>8, Apart, InHand DEF SpinnerTxFree
  <2>2. QED
    BY <1>1, <1>8, <2>1 DEF SpinnerTxFree, GiveData, GiveStruct, TxFree, free_message, taskVars,
                            vars
<1>9. QED
  BY <1>2, <1>3, <1>4, <1>5, <1>6, <1>7, <1>8 DEF SpinnerRxStep, SpinnerTxStep

(* How the channel may react to an event.                                  *)
LEMMA EventAnswered ==
  ASSUME SpinnerTypeOK, SendEvent
  PROVE  /\ \/ /\ task'.pc = "reply" /\ task'.answer.type = MayAnswer(request.type)
               /\ request.type \in Requests
            \/ task'.pc = "panic"
         /\ task'.req = task.req /\ task'.reply = task.reply
<1> USE DEF SpinnerTypeOK, MayAnswer, Requests
<1>1. CASE task' = [task EXCEPT !.pc = "panic"]
  BY <1>1
<1>2. ASSUME NEW v, Answer("RET_VAL", v), request.type \in {"SET_PLAN", "SET_STATE"}
      PROVE  task'.pc = "reply" /\ task'.answer.type = MayAnswer(request.type)
                /\ task'.req = task.req /\ task'.reply = task.reply
  BY <1>2 DEF Answer
<1>3. CASE request.type = "SET_PLAN" /\ SetPlan
  <2>1. \/ Answer("RET_VAL", 0) \/ Answer("RET_VAL", 1)
        \/ task' = [task EXCEPT !.pc = "panic"]
    BY <1>3 DEF SetPlan
  <2>2. QED
    BY <1>1, <1>2, <1>3, <2>1
<1>4. CASE request.type = "SET_STATE" /\ SetState
  <2>1. Answer("RET_VAL", 0) \/ Answer("RET_VAL", 1)
    BY <1>4 DEF SetState
  <2>2. QED
    BY <1>2, <1>4, <2>1
<1>5. CASE request.type = "GET_PLAN" /\ Answer("PLAN_REPLY", channel.plan_len)
  BY <1>5 DEF Answer
<1>6. CASE request.type = "GET_STATE" /\ Answer("STATE_REPLY", channel.state)
  BY <1>6 DEF Answer
<1>7. QED
  BY <1>3, <1>4, <1>5, <1>6 DEF SendEvent

LEMMA TaskStepKeepsTask == ASSUME HandsOK, SpinnerTaskStep PROVE TaskOK'
<1>1. /\ msg \in [Msgs -> Contents \cup {Scrap}] /\ held \in [Subsystems -> SUBSET Msgs]
      /\ incoming \in [Subsystems -> Seq(Msgs)] /\ NoMsg \notin Msgs
      /\ SPINNER \in Subsystems
  BY OnlySpinner, MsgsAssumption DEF HandsOK, ControlOK, TypeOK
<1>2. task \in [pc : {"idle", "handle", "reply", "write", "drop", "panic"},
                req : Msgs \cup {NoMsg}, reply : Msgs \cup {NoMsg},
                answer : Answers]
  BY DEF HandsOK, SpinnerTypeOK
<1> USE DEF HandsOK, TaskOK
<1>3. CASE SpinnerReceive
  <2>1. Head(incoming[SPINNER]) \in Msgs
    BY <1>1, <1>3, QueueShrinks DEF SpinnerReceive, TaskReceive
  <2>2. QED
    BY <1>1, <1>2, <1>3, <2>1 DEF SpinnerReceive, TaskReceive
<1>4. CASE SpinnerHandle
  <2>1. UNCHANGED <<msg, held>> /\ task.pc = "handle"
    BY <1>4 DEF SpinnerHandle, vars
  <2>2. CASE SendEvent
    BY <1>1, <1>2, <2>1, <2>2, EventAnswered DEF request
  <2>3. CASE task' = [task EXCEPT !.pc = "drop"]
    BY <1>1, <1>2, <2>1, <2>3
  <2>4. QED
    BY <1>4, <2>2, <2>3 DEF SpinnerHandle
<1>5. CASE SpinnerNewReply
  <2>1. CASE TakeStruct("task")
    BY <1>2, <2>1 DEF TakeStruct, vars, request
  <2>2. CASE /\ TakeData("task", task.answer.type) /\ task.pc = "reply"
             /\ TaskNew(SPINNER, taken["task"], task.answer.type, request.transaction_id)
             /\ task' = [task EXCEPT !.pc = "write", !.reply = taken["task"], !.answer = NoAnswer]
    <3>1. taken["task"] \in Msgs /\ taken["task"] # task.req
      BY <2>2, Apart DEF TakeData, TaskNew, alloc_message, SpinnerTypeOK
    <3>2. QED
      BY <1>1, <1>2, <2>2, <3>1 DEF TaskNew
  <2>3. CASE /\ task.pc = "reply" /\ task' = [task EXCEPT !.pc = "drop", !.answer = NoAnswer]
             /\ UNCHANGED vars
    BY <1>1, <1>2, <2>3 DEF vars
  <2>4. QED
    BY <1>5, <2>1, <2>2, <2>3 DEF SpinnerNewReply
<1>6. CASE SpinnerWrite
  BY <1>1, <1>2, <1>6 DEF SpinnerWrite, TaskSend
<1>7. CASE SpinnerDrop
  <2>1. CASE GiveData("req", task.req)
    BY <1>1, <1>2, <1>7, <2>1 DEF GiveData, vars, request
  <2>2. CASE task.pc = "drop" /\ TaskDrop(SPINNER, task.req) /\ task' = IdleTask
    BY <1>1, <1>2, <2>2 DEF TaskDrop, IdleTask
  <2>3. QED
    BY <1>7, <2>1, <2>2 DEF SpinnerDrop
<1>8. QED
  BY <1>3, <1>4, <1>5, <1>6, <1>7 DEF SpinnerTaskStep

LEMMA TaskInductive == ASSUME HandsOK, [SpinnerNext]_allVars PROVE TaskOK'
<1>1. CASE SpinnerTaskStep
  BY <1>1, TaskStepKeepsTask
<1>2. CASE ~SpinnerTaskStep
  BY <1>2, OthersLeaveTask DEF SpinnerNext, HandsOK, TaskOK, SpinnerTypeOK, request
<1>3. QED
  BY <1>1, <1>2

-----------------------------------------------------------------------------
(* Data.  A step hands a block of data out with a struct, takes one back,  *)
(* or leaves all of them where they are.                                   *)

TakesData ==
    \E m \in Msgs, d \in data_pool :
       /\ d \in DataFor(msg'[m].type)
       /\ m \notin WithData /\ WithData' = WithData \cup {m}
       /\ data_pool' = data_pool \ {d} /\ data' = [data EXCEPT ![m] = d]
       /\ \A n \in Msgs \ {m} : msg'[n] = msg[n]
GivesData ==
    \E m \in WithData :
       /\ WithData' = WithData \ {m}
       /\ data_pool' = data_pool \cup {data[m]} /\ data' = data /\ msg' = msg
KeepsData ==
    /\ WithData' = WithData /\ data_pool' = data_pool
    /\ data' \in [Msgs -> Data \cup {NoData}]
    /\ \A m \in WithData : data'[m] = data[m] /\ msg'[m] = msg[m]
Moved == TakesData \/ GivesData \/ KeepsData

LEMMA DataForIsData == \A type : DataFor(type) \subseteq Data
BY DEF DataFor, Data

LEMMA MovesKeepOwned ==
  ASSUME SpinnerTypeOK, DataOwned, Moved
  PROVE  /\ DataOwned'
         /\ data_pool' \subseteq Data /\ data' \in [Msgs -> Data \cup {NoData}]
<1>1. /\ data_pool \subseteq Data /\ data \in [Msgs -> Data \cup {NoData}]
      /\ WithData \subseteq Msgs
  BY DEF SpinnerTypeOK, WithData
<1>2. \A m \in WithData : data[m] \in Data
  BY DataForIsData DEF DataOwned
<1>3. CASE TakesData
  BY <1>1, <1>2, <1>3 DEF TakesData, DataOwned
<1>4. CASE GivesData
  BY <1>1, <1>2, <1>4 DEF GivesData, DataOwned
<1>5. CASE KeepsData
  BY <1>1, <1>2, <1>5 DEF KeepsData, DataOwned
<1>6. QED
  BY <1>3, <1>4, <1>5 DEF Moved

LEMMA FreeingInHand == ASSUME HandsOK, GivingOK PROVE Freeing \subseteq Msgs \ msg_pool
BY InHand DEF GivingOK, Freeing

(* Steps that only use what they have.                                     *)
LEMMA NothingGiven ==
  ASSUME SpinnerTypeOK, UNCHANGED <<msg_pool, msg, data_pool, data, giving>>,
         "rx" \in giving => rx'.msg = rx.msg, "tx" \in giving => tx'.msg = tx.msg,
         "req" \in giving => task'.req = task.req
  PROVE  KeepsData
BY DEF KeepsData, WithData, Freeing, SpinnerTypeOK

(* The second half of spinner_alloc_message.                               *)
LEMMA DataTaken ==
  ASSUME HandsOK, GivingOK, NEW who \in {"rx", "task"}, NEW type, NEW tid, TakeData(who, type),
         alloc_message(taken[who], type, tid), giving' = giving,
         "rx" \in giving => rx'.msg = rx.msg, "tx" \in giving => tx'.msg = tx.msg,
         "req" \in giving => task'.req = task.req
  PROVE  TakesData
<1>1. taken[who] \in Msgs /\ taken[who] \in msg_pool /\ msg_pool' = msg_pool \ {taken[who]}
  BY DEF TakeData, alloc_message, HandsOK, SpinnerTypeOK
<1>2. /\ msg'[taken[who]].type = type
      /\ \A n \in Msgs \ {taken[who]} : msg'[n] = msg[n]
  BY <1>1 DEF alloc_message, HandsOK, ControlOK, TypeOK
<1>3. Freeing' = Freeing /\ taken[who] \notin Freeing
  BY <1>1, FreeingInHand DEF Freeing
<1>4. WithData' = WithData \cup {taken[who]} /\ taken[who] \notin WithData
  BY <1>1, <1>3 DEF WithData
<1>5. PICK d \in data_pool \cap DataFor(type) :
         data_pool' = data_pool \ {d} /\ data' = [data EXCEPT ![taken[who]] = d]
  BY DEF TakeData
<1>6. d \in data_pool \cap DataFor(msg'[taken[who]].type)
  BY <1>2, <1>5
<1>7. QED
  BY <1>1, <1>2, <1>4, <1>5, <1>6 DEF TakesData, DataFor

(* The two halves of spinner_free_message, by whichever of the three.      *)
Hand(who) == CASE who = "rx" -> rx.msg [] who = "tx" -> tx.msg [] who = "req" -> task.req
Givers == {"rx", "tx", "req"}

LEMMA FreeingMeans == Freeing = {Hand(w) : w \in giving \cap Givers}
BY DEF Freeing, Hand, Givers

LEMMA HandsApart ==
  ASSUME HandsOK, NEW v \in Givers, NEW w \in Givers, v # w, Hand(v) \in Msgs
  PROVE  Hand(v) # Hand(w)
BY Apart DEF Hand, Givers

LEMMA DataGiven ==
  ASSUME HandsOK, NEW who \in Givers, NEW m \in Msgs \ msg_pool, m = Hand(who),
         GiveData(who, m)
  PROVE  GivesData
<1>1. /\ UNCHANGED <<msg_pool, msg, rx, tx, task, data>> /\ giving' = giving \cup {who}
      /\ who \notin giving
  BY DEF GiveData, vars
<1>2. Freeing' = Freeing \cup {m}
  BY <1>1, FreeingMeans DEF Freeing, Hand, Givers
<1>3. m \notin Freeing
  BY <1>1, FreeingMeans, HandsApart
<1>4. QED
  BY <1>1, <1>2, <1>3 DEF GivesData, GiveData, WithData

LEMMA StructGiven ==
  ASSUME HandsOK, GivingOK, NEW who \in Givers, NEW m \in Msgs \ msg_pool, m = Hand(who),
         GiveStruct(who, m), free_message(m),
         \A w \in (giving \cap Givers) \ {who} : Hand(w)' = Hand(w)
  PROVE  KeepsData
<1>1. /\ who \in giving /\ giving' = giving \ {who} /\ data' = [data EXCEPT ![m] = NoData]
      /\ data_pool' = data_pool /\ msg_pool' = msg_pool \cup {m}
      /\ \A n \in Msgs \ {m} : msg'[n] = msg[n]
  BY DEF GiveStruct, free_message, HandsOK, ControlOK, TypeOK
<1>2. Freeing' = {Hand(w) : w \in (giving \cap Givers) \ {who}}
  <2>1. Freeing' = {Hand(w)' : w \in (giving \cap Givers) \ {who}}
    BY <1>1 DEF Freeing, Hand, Givers
  <2>2. QED
    BY <2>1
<1>3. Freeing' = Freeing \ {m} /\ m \in Freeing
  BY <1>1, <1>2, FreeingMeans, HandsApart
<1>4. data' \in [Msgs -> Data \cup {NoData}] /\ \A n \in Msgs \ {m} : data'[n] = data[n]
  BY <1>1 DEF HandsOK, SpinnerTypeOK
<1>5. QED
  BY <1>1, <1>3, <1>4 DEF KeepsData, WithData

(* Which move a step is.                                                   *)
LEMMA RxMoves == ASSUME HandsOK, GivingOK, SpinnerRxStep PROVE Moved
<1> USE DEF Moved
<1>1. CASE SpinnerRxAlloc
  <2>1. CASE rx.pc = "alloc" /\ TakeStruct("rx")
    BY <2>1, NothingGiven DEF TakeStruct, vars, HandsOK
  <2>2. CASE /\ TakeData("rx", rx.frame.type) /\ RxAlloc(taken["rx"])
             /\ UNCHANGED <<content, giving, task, channel>>
    BY <2>2, DataTaken DEF RxAlloc, GivingOK
  <2>3. CASE /\ AllocFails("rx", rx.frame.type) /\ RxAllocFail
             /\ UNCHANGED <<giving, task, channel>>
    BY <2>3, NothingGiven DEF AllocFails, RxAllocFail, GivingOK, HandsOK
  <2>4. QED
    BY <1>1, <2>1, <2>2, <2>3 DEF SpinnerRxAlloc
<1>2. CASE SpinnerRxParse \/ SpinnerRxParseFail \/ ((RxRoute \/ RxRouteFail) /\ UNCHANGED spinnerVars)
  BY <1>2, NothingGiven
  DEF SpinnerRxParse, SpinnerRxParseFail, RxParse, RxParseFail, RxRoute, RxRouteFail,
      spinnerVars, GivingOK, HandsOK
<1>3. CASE SpinnerRxFree
  <2>1. rx.msg \in Msgs \ msg_pool
    BY <1>3, InHand DEF SpinnerRxFree
  <2>2. CASE GiveData("rx", rx.msg)
    BY <2>1, <2>2, DataGiven DEF Hand, Givers
  <2>3. CASE GiveStruct("rx", rx.msg) /\ RxFree /\ UNCHANGED task
    BY <2>1, <2>3, StructGiven DEF Hand, Givers, RxFree
  <2>4. QED
    BY <1>3, <2>2, <2>3 DEF SpinnerRxFree
<1>4. QED
  BY <1>1, <1>2, <1>3 DEF SpinnerRxStep

LEMMA TxMoves == ASSUME HandsOK, GivingOK, SpinnerTxStep PROVE Moved
<1> USE DEF Moved
<1>1. CASE (TxOwnError \/ TxSubsystemError \/ TxMessage \/ TxErrorBegin \/ TxErrorEnd \/ TxSend
               \/ SpinnerTxTooLong) /\ UNCHANGED spinnerVars
  BY <1>1, NothingGiven
  DEF TxOwnError, TxSubsystemError, TxMessage, TxErrorBegin, TxErrorEnd, TxWriteError, TxSend,
      SpinnerTxTooLong, TxSendFail, rxVars, spinnerVars, GivingOK, HandsOK
<1>2. CASE SpinnerTxFree
  <2>1. tx.msg \in Msgs \ msg_pool
    BY <1>2, InHand DEF SpinnerTxFree
  <2>2. CASE GiveData("tx", tx.msg)
    BY <2>1, <2>2, DataGiven DEF Hand, Givers
  <2>3. CASE GiveStruct("tx", tx.msg) /\ TxFree /\ UNCHANGED task
    BY <2>1, <2>3, StructGiven DEF Hand, Givers, TxFree, rxVars
  <2>4. QED
    BY <1>2, <2>2, <2>3 DEF SpinnerTxFree
<1>3. QED
  BY <1>1, <1>2 DEF SpinnerTxStep

LEMMA TaskMoves == ASSUME HandsOK, GivingOK, SpinnerTaskStep PROVE Moved
<1> USE DEF Moved
<1>1. CASE SpinnerReceive \/ SpinnerHandle \/ SpinnerWrite
  <2>1. /\ UNCHANGED <<msg_pool, msg, rx, tx, data_pool, data, giving>>
        /\ task.pc # "drop"
    BY <1>1 DEF SpinnerReceive, SpinnerHandle, SpinnerWrite, TaskReceive, TaskSend, vars
  <2>2. QED
    BY <2>1, NothingGiven DEF HandsOK, GivingOK
<1>2. CASE SpinnerNewReply
  <2>1. CASE TakeStruct("task")
    BY <2>1, NothingGiven DEF TakeStruct, vars, HandsOK
  <2>2. CASE /\ TakeData("task", task.answer.type) /\ task.pc = "reply"
             /\ TaskNew(SPINNER, taken["task"], task.answer.type, request.transaction_id)
             /\ UNCHANGED <<giving, channel>>
    BY <2>2, DataTaken DEF TaskNew, GivingOK
  <2>3. CASE /\ AllocFails("task", task.answer.type) /\ task.pc = "reply"
             /\ UNCHANGED <<vars, giving, channel>>
    BY <2>3, NothingGiven DEF AllocFails, vars, GivingOK, HandsOK
  <2>4. QED
    BY <1>2, <2>1, <2>2, <2>3 DEF SpinnerNewReply
<1>3. CASE SpinnerDrop
  <2>1. task.req \in Msgs \ msg_pool
    BY <1>3, InHand DEF SpinnerDrop
  <2>2. CASE GiveData("req", task.req)
    BY <2>1, <2>2, DataGiven DEF Hand, Givers
  <2>3. CASE /\ task.pc = "drop" /\ GiveStruct("req", task.req) /\ TaskDrop(SPINNER, task.req)
             /\ task' = IdleTask
    BY <2>1, <2>3, StructGiven DEF Hand, Givers, TaskDrop
  <2>4. QED
    BY <1>3, <2>2, <2>3 DEF SpinnerDrop
<1>4. QED
  BY <1>1, <1>2, <1>3 DEF SpinnerTaskStep

LEMMA DataMoves == ASSUME HandsOK, GivingOK, [SpinnerNext]_allVars PROVE Moved
<1>1. CASE (RxFrame \/ Transmit) /\ UNCHANGED spinnerVars
  BY <1>1, NothingGiven
  DEF RxFrame, RxReject, RxAccept, Transmit, rxVars, spinnerVars, HandsOK, GivingOK, Moved
<1>2. CASE UNCHANGED allVars
  BY <1>2, NothingGiven DEF allVars, vars, spinnerVars, HandsOK, Moved
<1>3. QED
  BY <1>1, <1>2, RxMoves, TxMoves, TaskMoves DEF SpinnerNext

-----------------------------------------------------------------------------
(* Structs taken from the pool whose data is still being looked for.       *)

LEMMA TakenStay ==
  ASSUME TakenApart, msg_pool \subseteq msg_pool', taken' = taken PROVE TakenApart'
BY DEF TakenApart

LEMMA OneMoreTaken ==
  ASSUME SpinnerTypeOK, TakenApart, NEW who \in {"rx", "task"}, TakeStruct(who)
  PROVE  TakenApart'
<1>1. PICK m \in FreeStructs : taken' = [taken EXCEPT ![who] = m]
  BY DEF TakeStruct
<1>2. msg_pool' = msg_pool
  BY DEF TakeStruct, vars
<1>3. QED
  BY <1>1, <1>2 DEF FreeStructs, TakenApart, SpinnerTypeOK

LEMMA OneLessTaken ==
  ASSUME SpinnerTypeOK, TakenApart, NEW who \in {"rx", "task"},
         taken' = [taken EXCEPT ![who] = NoMsg],
         msg_pool' = msg_pool \/ (taken[who] # NoMsg /\ msg_pool' = msg_pool \ {taken[who]})
  PROVE  TakenApart'
BY DEF TakenApart, SpinnerTypeOK

LEMMA TakenInductive == ASSUME SpinnerOK, [SpinnerNext]_allVars PROVE TakenApart'
<1> USE DEF SpinnerOK, HandsOK
<1>1. CASE ((RxFrame \/ Transmit) /\ UNCHANGED spinnerVars) \/ UNCHANGED allVars
  BY <1>1, TakenStay DEF RxFrame, RxReject, RxAccept, Transmit, spinnerVars, allVars, vars
<1>2. CASE SpinnerRxAlloc
  <2>1. CASE rx.pc = "alloc" /\ TakeStruct("rx")
    BY <2>1, OneMoreTaken
  <2>2. CASE TakeData("rx", rx.frame.type) /\ RxAlloc(taken["rx"])
    BY <2>2, OneLessTaken DEF TakeData, RxAlloc, alloc_message
  <2>3. CASE AllocFails("rx", rx.frame.type) /\ RxAllocFail
    BY <2>3, OneLessTaken DEF AllocFails, RxAllocFail
  <2>4. QED
    BY <1>2, <2>1, <2>2, <2>3 DEF SpinnerRxAlloc
<1>3. CASE SpinnerRxStep /\ ~SpinnerRxAlloc
  BY <1>3, TakenStay
  DEF SpinnerRxStep, SpinnerRxParse, SpinnerRxParseFail, SpinnerRxFree, RxParse, RxParseFail,
      RxRoute, RxRouteFail, RxFree, GiveData, GiveStruct, free_message, spinnerVars, vars
<1>4. CASE SpinnerTxStep
  BY <1>4, TakenStay
  DEF SpinnerTxStep, SpinnerTxFree, GiveData, GiveStruct, TxOwnError, TxSubsystemError, TxMessage,
      TxErrorBegin, TxErrorEnd, TxWriteError, TxSend, SpinnerTxTooLong, TxSendFail, TxFree,
      free_message, spinnerVars, vars
<1>5. CASE SpinnerNewReply
  <2>1. CASE TakeStruct("task")
    BY <2>1, OneMoreTaken
  <2>2. CASE /\ TakeData("task", task.answer.type)
             /\ TaskNew(SPINNER, taken["task"], task.answer.type, request.transaction_id)
    BY <2>2, OneLessTaken DEF TakeData, TaskNew, alloc_message
  <2>3. CASE AllocFails("task", task.answer.type) /\ UNCHANGED <<vars, giving, channel>>
    BY <2>3, OneLessTaken DEF AllocFails, vars
  <2>4. QED
    BY <1>5, <2>1, <2>2, <2>3 DEF SpinnerNewReply
<1>6. CASE SpinnerReceive \/ SpinnerHandle \/ SpinnerWrite \/ SpinnerDrop
  BY <1>6, TakenStay
  DEF SpinnerReceive, SpinnerHandle, SpinnerWrite, SpinnerDrop, GiveData, GiveStruct, TaskReceive,
      TaskSend, TaskDrop, free_message, vars
<1>7. QED
  BY <1>1, <1>2, <1>3, <1>4, <1>5, <1>6 DEF SpinnerNext, SpinnerTaskStep

LEMMA GivingInductive == ASSUME SpinnerOK, [SpinnerNext]_allVars PROVE GivingOK'
<1> USE DEF SpinnerOK, GivingOK
<1>1. CASE ((RxFrame \/ Transmit) /\ UNCHANGED spinnerVars) \/ UNCHANGED allVars
  BY <1>1 DEF RxFrame, RxReject, RxAccept, Transmit, rxVars, spinnerVars, allVars, vars
<1>2. CASE SpinnerRxStep
  BY <1>2 DEF SpinnerRxStep, SpinnerRxAlloc, TakeStruct, SpinnerRxParse, SpinnerRxParseFail,
              SpinnerRxFree, GiveData, GiveStruct, RxAlloc, RxAllocFail, RxParse, RxParseFail,
              RxRoute, RxRouteFail, RxFree, spinnerVars, vars
<1>3. CASE SpinnerTxStep
  BY <1>3 DEF SpinnerTxStep, SpinnerTxFree, GiveData, GiveStruct, TxOwnError, TxSubsystemError,
              TxMessage, TxErrorBegin, TxErrorEnd, TxWriteError, TxSend, SpinnerTxTooLong,
              TxSendFail, TxFree, rxVars, spinnerVars, vars
<1>4. CASE SpinnerTaskStep
  <2>1. CASE SpinnerReceive \/ SpinnerHandle \/ SpinnerNewReply \/ SpinnerWrite
    <3>1. task.pc # "drop" /\ UNCHANGED <<rx, tx, giving>>
      BY <2>1 DEF SpinnerReceive, SpinnerHandle, SpinnerNewReply, SpinnerWrite, TakeStruct,
                  TaskReceive, TaskNew, TaskSend, vars
    <3>2. QED
      BY <3>1
  <2>2. CASE SpinnerDrop
    BY <2>2 DEF SpinnerDrop, GiveData, GiveStruct, TaskDrop, vars
  <2>3. QED
    BY <1>4, <2>1, <2>2 DEF SpinnerTaskStep
<1>5. QED
  BY <1>1, <1>2, <1>3, <1>4 DEF SpinnerNext

-----------------------------------------------------------------------------
(* The types, and the invariant.                                           *)

LEMMA RequestReadable == ASSUME SpinnerOK, task.pc = "handle" PROVE asked \in Args
<1>1. task.req \in Msgs \ msg_pool
  BY InHand DEF SpinnerOK
<1>2. task.req \notin Freeing
  BY <1>1, Apart DEF SpinnerOK, GivingOK, Freeing
<1>3. data[task.req] \in Data
  BY <1>1, <1>2, DataForIsData DEF SpinnerOK, DataOwned, WithData
<1>4. QED
  BY <1>3 DEF asked, SpinnerOK, HandsOK, SpinnerTypeOK

TaskType == [pc : {"idle", "handle", "reply", "write", "drop", "panic"},
             req : Msgs \cup {NoMsg}, reply : Msgs \cup {NoMsg}, answer : Answers]
ChannelType == [state : States, plan_len : Int]

LEMMA EventTypes ==
  ASSUME task \in TaskType, channel \in ChannelType, asked \in Args, SendEvent
  PROVE  task' \in TaskType /\ channel' \in ChannelType
<1>1. States \subseteq Int /\ channel.state \in States /\ channel.plan_len \in Int
      /\ asked.value \in Int
  BY DEF ChannelType, States, STOPPED, RUNNING, SPINNING_DOWN, Args
<1>2. ASSUME NEW type \in {"RET_VAL", "PLAN_REPLY", "STATE_REPLY"}, NEW v \in Int, Answer(type, v)
      PROVE  task' \in TaskType
  BY <1>2 DEF Answer, TaskType, Answers, Replies
<1>3. CASE SetPlan
  <2>1. channel' \in ChannelType
    BY <1>1, <1>3 DEF SetPlan, ChannelType
  <2>2. \/ Answer("RET_VAL", 0) \/ Answer("RET_VAL", 1)
        \/ task' = [task EXCEPT !.pc = "panic"]
    BY <1>3 DEF SetPlan
  <2>3. [task EXCEPT !.pc = "panic"] \in TaskType
    BY DEF TaskType
  <2>4. QED
    BY <1>2, <2>1, <2>2, <2>3
<1>4. CASE SetState
  <2>1. channel' \in ChannelType
    BY <1>1, <1>4 DEF SetState, ChannelType, States, STOPPED, RUNNING, SPINNING_DOWN
  <2>2. Answer("RET_VAL", 0) \/ Answer("RET_VAL", 1)
    BY <1>4 DEF SetState
  <2>3. QED
    BY <1>2, <2>1, <2>2
<1>5. CASE Answer("PLAN_REPLY", channel.plan_len) /\ UNCHANGED channel
  BY <1>1, <1>2, <1>5
<1>6. CASE Answer("STATE_REPLY", channel.state) /\ UNCHANGED channel
  BY <1>1, <1>2, <1>6
<1>7. QED
  BY <1>3, <1>4, <1>5, <1>6 DEF SendEvent

LEMMA TypesInductive == ASSUME SpinnerOK, [SpinnerNext]_allVars PROVE SpinnerTypeOK'
<1>1. data_pool' \subseteq Data /\ data' \in [Msgs -> Data \cup {NoData}]
  BY DataMoves, MovesKeepOwned DEF SpinnerOK, HandsOK
<1>2. /\ content \in [Data -> Args] /\ taken \in [{"rx", "task"} -> Msgs \cup {NoMsg}]
      /\ giving \subseteq {"rx", "tx", "req"} /\ task \in TaskType /\ channel \in ChannelType
  BY DEF SpinnerOK, HandsOK, SpinnerTypeOK, TaskType, Answers, ChannelType
<1>3. NoAnswer \in Answers /\ IdleTask \in TaskType
  BY DEF NoAnswer, IdleTask, Answers, TaskType
<1>4. msg_pool \subseteq Msgs
  BY DEF SpinnerOK, HandsOK, ControlOK, TypeOK
<1> DEFINE Types == /\ content' \in [Data -> Args]
                    /\ taken' \in [{"rx", "task"} -> Msgs \cup {NoMsg}]
                    /\ giving' \subseteq {"rx", "tx", "req"}
                    /\ task' \in TaskType /\ channel' \in ChannelType
<1> SUFFICES Types
  BY <1>1 DEF SpinnerTypeOK, TaskType, Answers, ChannelType
<1>5. CASE ((RxFrame \/ Transmit) /\ UNCHANGED spinnerVars) \/ UNCHANGED allVars
  BY <1>2, <1>5 DEF spinnerVars, allVars
<1>6. ASSUME NEW who \in {"rx", "task"}, TakeStruct(who) PROVE Types
  BY <1>2, <1>4, <1>6 DEF TakeStruct, FreeStructs
<1>7. ASSUME NEW who \in {"rx", "task"}, NEW type, TakeData(who, type) \/ AllocFails(who, type)
      PROVE  taken' \in [{"rx", "task"} -> Msgs \cup {NoMsg}]
  BY <1>2, <1>7 DEF TakeData, AllocFails
<1>8. ASSUME NEW who \in Givers, NEW m, GiveData(who, m) PROVE Types
  BY <1>2, <1>8 DEF GiveData, Givers
<1>9. ASSUME NEW who \in Givers, NEW m, GiveStruct(who, m), task' \in TaskType PROVE Types
  <2>1. UNCHANGED <<content, taken, channel>> /\ giving' = giving \ {who}
    BY <1>9 DEF GiveStruct
  <2>2. QED
    BY <1>2, <1>9, <2>1
<1>10. CASE SpinnerRxAlloc
  <2>1. \/ TakeStruct("rx")
        \/ /\ TakeData("rx", rx.frame.type) \/ AllocFails("rx", rx.frame.type)
           /\ UNCHANGED <<content, giving, task, channel>>
    BY <1>10 DEF SpinnerRxAlloc, AllocFails
  <2>2. QED
    BY <1>2, <1>6, <1>7, <2>1
<1>11. CASE SpinnerRxParse
  <2>1. rx.frame.arg \in [channel : Int, value : Int]
    BY <1>11, SpinnerAssumption
    DEF SpinnerRxParse, RxParse, SpinnerOK, HandsOK, ControlOK, WorkersOK
  <2>2. \A d \in Data : ParsedArg(rx.frame, content[d]) \in Args
    BY <1>2, <2>1 DEF ParsedArg, Args
  <2>3. content' \in [Data -> Args]
    BY <1>2, <1>11, <2>2 DEF SpinnerRxParse
  <2>4. QED
    BY <1>2, <1>11, <2>3 DEF SpinnerRxParse
<1>12. CASE SpinnerRxParseFail \/ ((RxRoute \/ RxRouteFail) /\ UNCHANGED spinnerVars)
  BY <1>2, <1>12 DEF SpinnerRxParseFail, spinnerVars
<1>13. CASE SpinnerRxFree
  BY <1>2, <1>8, <1>9, <1>13 DEF SpinnerRxFree, Givers
<1>14. CASE SpinnerTxStep
  BY <1>2, <1>8, <1>9, <1>14 DEF SpinnerTxStep, SpinnerTxFree, Givers, spinnerVars
<1>15. CASE SpinnerReceive
  <2>1. Head(incoming[SPINNER]) \in Msgs
    BY <1>15, OnlySpinner, QueueShrinks
    DEF SpinnerReceive, TaskReceive, SpinnerOK, HandsOK, ControlOK, TypeOK
  <2>2. task' \in TaskType
    BY <1>2, <1>15, <2>1 DEF SpinnerReceive, TaskType
  <2>3. QED
    BY <1>2, <1>15, <2>2 DEF SpinnerReceive
<1>16. CASE SpinnerHandle
  <2>1. task' \in TaskType /\ channel' \in ChannelType
    <3>1. CASE SendEvent
      BY <1>2, <1>16, <3>1, RequestReadable, EventTypes DEF SpinnerHandle
    <3>2. CASE task' = [task EXCEPT !.pc = "drop"] /\ UNCHANGED channel
      BY <1>2, <3>2 DEF TaskType
    <3>3. QED
      BY <1>16, <3>1, <3>2 DEF SpinnerHandle
  <2>2. QED
    BY <1>2, <1>16, <2>1 DEF SpinnerHandle
<1>17. CASE SpinnerNewReply
  <2>1. CASE TakeStruct("task")
    BY <1>6, <2>1
  <2>2. CASE /\ TakeData("task", task.answer.type) /\ UNCHANGED <<giving, channel>>
             /\ content' = [content EXCEPT ![data'[taken["task"]]] =
                               [channel |-> 0, value |-> task.answer.value]]
             /\ task' = [task EXCEPT !.pc = "write", !.reply = taken["task"], !.answer = NoAnswer]
    <3>1. task.answer.value \in Int /\ taken["task"] \in Msgs \cup {NoMsg}
      BY <1>2 DEF TaskType, Answers
    <3>2. [channel |-> 0, value |-> task.answer.value] \in Args
      BY <3>1 DEF Args
    <3>3. content' \in [Data -> Args]
      BY <1>2, <2>2, <3>2
    <3>4. task' \in TaskType
      BY <1>2, <1>3, <2>2, <3>1 DEF TaskType
    <3>5. QED
      BY <1>2, <1>7, <2>2, <3>3, <3>4
  <2>3. CASE /\ AllocFails("task", task.answer.type) /\ UNCHANGED <<giving, channel>>
             /\ task' = [task EXCEPT !.pc = "drop", !.answer = NoAnswer]
    <3>1. task' \in TaskType
      BY <1>2, <1>3, <2>3 DEF TaskType
    <3>2. QED
      BY <1>2, <1>7, <2>3, <3>1 DEF AllocFails
  <2>4. QED
    BY <1>17, <2>1, <2>2, <2>3 DEF SpinnerNewReply
<1>18. CASE SpinnerWrite
  <2>1. task' \in TaskType
    BY <1>2, <1>18 DEF SpinnerWrite, TaskType
  <2>2. QED
    BY <1>2, <1>18, <2>1 DEF SpinnerWrite
<1>19. CASE SpinnerDrop
  BY <1>3, <1>8, <1>9, <1>19 DEF SpinnerDrop, Givers
<1>20. QED
  BY <1>5, <1>10, <1>11, <1>12, <1>13, <1>14, <1>15, <1>16, <1>17, <1>18, <1>19
  DEF SpinnerNext, SpinnerRxStep, SpinnerTaskStep

LEMMA SpinnerInductive == SpinnerOK /\ [SpinnerNext]_allVars => SpinnerOK' /\ [Next]_vars
<1> SUFFICES ASSUME SpinnerOK, [SpinnerNext]_allVars PROVE SpinnerOK' /\ [Next]_vars
  OBVIOUS
<1>1. HandsOK /\ GivingOK /\ TakenApart /\ DataOwned
  BY DEF SpinnerOK
<1>2. [Next]_vars
  BY <1>1, Contract
<1>3. ControlOK' /\ OwnershipOK'
  BY <1>1, <1>2, ControlInductive, OwnershipInductive DEF HandsOK
<1>4. SpinnerTypeOK'
  BY TypesInductive
<1>5. TaskOK' /\ GivingOK' /\ TakenApart'
  BY <1>1, TaskInductive, GivingInductive, TakenInductive
<1>6. DataOwned'
  BY <1>1, DataMoves, MovesKeepOwned DEF HandsOK
<1>7. QED
  BY <1>2, <1>3, <1>4, <1>5, <1>6 DEF SpinnerOK, HandsOK

LEMMA SpinnerStarts == SpinnerInit => SpinnerOK
<1> SUFFICES ASSUME SpinnerInit PROVE SpinnerOK
  OBVIOUS
<1>1. ControlOK /\ OwnershipOK
  BY ControlInit, OwnershipInit DEF SpinnerInit
<1>2. SpinnerTypeOK
  BY DEF SpinnerTypeOK, SpinnerInit, IdleTask, NoAnswer, Zero, Args, Answers, States
<1>3. TaskOK
  BY OnlySpinner DEF TaskOK, SpinnerInit, Init, IdleTask
<1>4. GivingOK /\ DataOwned /\ TakenApart
  BY DEF GivingOK, DataOwned, TakenApart, WithData, SpinnerInit, Init
<1>5. QED
  BY <1>1, <1>2, <1>3, <1>4 DEF SpinnerOK, HandsOK

-----------------------------------------------------------------------------
(* Under SPINNER the dispatcher only ever takes steps its own specification*)
(* allows: whatever is proved of the dispatcher's steps holds of the       *)
(* composition.                                                            *)
THEOREM SpinnerKeepsContract == SpinnerSpec => KeepsContract
<1>1. SpinnerInit => Init
  BY DEF SpinnerInit
<1>2. QED
  BY <1>1, SpinnerStarts, SpinnerInductive, PTL DEF SpinnerSpec, KeepsContract

(* Under SPINNER's task, parsers, and allocation in two unprotected halves *)
(* every message struct has exactly one owner.                             *)
THEOREM SpinnerStructsHaveOneOwner == SpinnerSpec => []OneOwner
<1>1. SpinnerOK => OneOwner
  BY OwnershipMeansOneOwner DEF SpinnerOK, HandsOK
<1>2. QED
  BY <1>1, SpinnerStarts, SpinnerInductive, PTL DEF SpinnerSpec

(* Every block of data is free or belongs to exactly one struct in use,    *)
(* and is of the pool its type calls for (spinner/message.rs).             *)
THEOREM SpinnerDataHasOneOwner == SpinnerSpec => []DataOwned
<1>1. SpinnerOK => DataOwned
  BY DEF SpinnerOK
<1>2. QED
  BY <1>1, SpinnerStarts, SpinnerInductive, PTL DEF SpinnerSpec

LEMMA Pigeonhole == SpinnerOK => SmallDataSuffices
<1> SUFFICES ASSUME SpinnerOK, NEW spare \in msg_pool, data_pool \cap Smalls = {} PROVE FALSE
  BY DEF SmallDataSuffices
<1> DEFINE S == {m \in WithData : data[m] \in Smalls}
           f == [m \in S |-> data[m]]
<1>1. msg_pool \subseteq Msgs
  BY DEF SpinnerOK, HandsOK, ControlOK, TypeOK
<1>2. S \in SUBSET (Msgs \ {spare})
  BY <1>1 DEF WithData
<1>3. f \in Surjection(S, Smalls)
  <2>1. \A d \in Smalls : \E m \in S : data[m] = d
    BY DEF SpinnerOK, DataOwned, Data
  <2>2. f \in [S -> Smalls] /\ \A d \in Smalls : \E m \in S : f[m] = d
    BY <2>1
  <2>3. QED
    BY <2>2 DEF Surjection
<1>4. /\ IsFiniteSet(Msgs) /\ Cardinality(Msgs) \in Nat
      /\ IsFiniteSet(Msgs \ {spare}) /\ Cardinality(Msgs \ {spare}) = Cardinality(Msgs) - 1
  BY <1>1, MsgsAssumption, FS_CardinalityType, FS_RemoveElement
<1>5. IsFiniteSet(S) /\ Cardinality(S) <= Cardinality(Msgs \ {spare})
  BY <1>2, <1>4, FS_Subset
<1>6. Cardinality(Smalls) <= Cardinality(S)
  BY <1>3, <1>5, FS_Surjection
<1>7. Cardinality(S) \in Nat /\ Cardinality(Smalls) \in Nat
  BY <1>5, SpinnerAssumption, FS_CardinalityType
<1> HIDE DEF S
<1>8. QED
  BY <1>4, <1>5, <1>6, <1>7, SpinnerAssumption

(* While the pool has a struct there is a small block for it: only plans   *)
(* may find no data.                                                       *)
THEOREM SpinnerNeverShortOfSmallData == SpinnerSpec => []SmallDataSuffices
BY Pigeonhole, SpinnerStarts, SpinnerInductive, PTL DEF SpinnerSpec

-----------------------------------------------------------------------------
(* The channel.                                                            *)

OneWay == /\ channel.state # STOPPED => channel'.plan_len = channel.plan_len
          /\ channel'.state # channel.state =>
                <<channel.state, channel'.state>> \in
                   {<<STOPPED, RUNNING>>, <<RUNNING, SPINNING_DOWN>>}

LEMMA ChannelStep == SpinnerOK /\ [SpinnerNext]_allVars => [OneWay]_allVars
<1> SUFFICES ASSUME SpinnerOK, SpinnerNext PROVE OneWay
  OBVIOUS
<1>1. channel \in ChannelType
  BY DEF SpinnerOK, HandsOK, SpinnerTypeOK, ChannelType
<1>2. CASE UNCHANGED channel
  BY <1>2 DEF OneWay
<1>3. CASE ~SpinnerTaskStep
  BY <1>2, <1>3, OthersLeaveTask DEF SpinnerNext, SpinnerOK
<1>4. CASE SpinnerTaskStep
  <2>1. CASE SetPlan
    BY <1>1, <2>1 DEF SetPlan, OneWay, ChannelType
  <2>2. CASE SetState
    BY <1>1, <2>2 DEF SetState, OneWay, ChannelType, STOPPED, RUNNING, SPINNING_DOWN
  <2>3. SetPlan \/ SetState \/ UNCHANGED channel
    BY <1>4 DEF SpinnerTaskStep, SpinnerReceive, SpinnerHandle, SendEvent, SpinnerNewReply,
                TakeStruct, SpinnerWrite, SpinnerDrop, GiveData, GiveStruct
  <2>4. QED
    BY <1>2, <2>1, <2>2, <2>3
<1>5. QED
  BY <1>3, <1>4

(* From the moment the channel runs its plan does not change, and it only  *)
(* goes from stopped to running to spinning down.                          *)
THEOREM SpinnerPlanFixed == SpinnerSpec => PlanFixedOnceRunning
BY ChannelStep, SpinnerStarts, SpinnerInductive, PTL DEF SpinnerSpec, PlanFixedOnceRunning, OneWay

-----------------------------------------------------------------------------
(* The queues.                                                             *)

LEMMA ShortQueue ==
  ASSUME NEW S, IsFiniteSet(S), NEW q \in Seq(S), NoDuplicates(q), NEW x \in S, x \notin Queued(q)
  PROVE  Len(q) < Cardinality(S)
<1>1. Len(q) \in Nat /\ q \in [1..Len(q) -> S]
  BY LenProperties
<1>2. q \in Injection(1..Len(q), S \ {x})
  <2>1. q \in [1..Len(q) -> S \ {x}]
    BY <1>1 DEF Queued
  <2>2. \A i, j \in 1..Len(q) : q[i] = q[j] => i = j
    BY DEF NoDuplicates
  <2>3. QED
    BY <2>1, <2>2 DEF Injection, IsInjective
<1>3. /\ IsFiniteSet(S \ {x}) /\ Cardinality(S \ {x}) = Cardinality(S) - 1
      /\ Cardinality(S) \in Nat
  BY FS_RemoveElement, FS_CardinalityType
<1>4. Cardinality(1..Len(q)) <= Cardinality(S \ {x})
  BY <1>2, <1>3, FS_Injection
<1>5. Cardinality(1..Len(q)) = Len(q)
  BY <1>1, FS_Interval, SMTT(60)
<1>6. QED
  BY <1>1, <1>3, <1>4, <1>5

LEMMA QueuesHaveRoom ==
  ASSUME Cardinality(Msgs) <= InboundLen, Cardinality(Msgs) <= OutboundLen, SpinnerOK
  PROVE  QueuesSuffice
<1>1. /\ incoming[SPINNER] \in Seq(Msgs) /\ NoDuplicates(incoming[SPINNER])
      /\ outgoing[SPINNER] \in Seq(Msgs) /\ NoDuplicates(outgoing[SPINNER])
  BY OnlySpinner DEF SpinnerOK, HandsOK, ControlOK, TypeOK, OwnershipOK, NoRepeats
<1>2. \A m \in Msgs, k \in Kinds : Has(k, m) => \A l \in Kinds : Has(l, m) <=> l = k
  BY Alone DEF SpinnerOK, HandsOK
<1>3. IsFiniteSet(Msgs) /\ Cardinality(Msgs) \in Nat /\ InboundLen \in Nat /\ OutboundLen \in Nat
  BY MsgsAssumption, QueuesAssumption, FS_CardinalityType
<1>4. ASSUME rx.pc = "route" PROVE Len(incoming[SPINNER]) < InboundLen
  <2>1. rx.msg \in Msgs
    BY <1>4 DEF SpinnerOK, HandsOK, ControlOK, WorkersOK, TypeOK
  <2>2. rx.msg \notin Queued(incoming[SPINNER])
    BY <1>2, <2>1, OnlySpinner, HasMeans DEF Kinds
  <2>3. Len(incoming[SPINNER]) < Cardinality(Msgs)
    BY <1>1, <1>3, <2>1, <2>2, ShortQueue
  <2>4. Len(incoming[SPINNER]) \in Nat
    BY <1>1, LenProperties
  <2>5. QED
    BY <1>3, <2>3, <2>4
<1>5. ASSUME task.pc = "write" PROVE Len(outgoing[SPINNER]) < OutboundLen
  <2>1. task.reply \in Msgs /\ task.reply \in held[SPINNER]
    BY <1>5, InHand, MsgsAssumption DEF SpinnerOK, HandsOK, TaskOK
  <2>2. task.reply \notin Queued(outgoing[SPINNER])
    BY <1>2, <2>1, OnlySpinner, HasMeans DEF Kinds
  <2>3. Len(outgoing[SPINNER]) < Cardinality(Msgs)
    BY <1>1, <1>3, <2>1, <2>2, ShortQueue
  <2>4. Len(outgoing[SPINNER]) \in Nat
    BY <1>1, LenProperties
  <2>5. QED
    BY <1>3, <2>3, <2>4
<1>6. QED
  BY <1>4, <1>5 DEF QueuesSuffice

(* When the queues are as long as the pool of structs, as SPINNER's are,   *)
(* neither the receive worker nor the task ever finds one full.            *)
THEOREM SpinnerQueuesSuffice ==
  ASSUME Cardinality(Msgs) <= InboundLen, Cardinality(Msgs) <= OutboundLen
  PROVE  SpinnerSpec => []QueuesSuffice
<1>1. SpinnerOK => QueuesSuffice
  BY QueuesHaveRoom
<1>2. QED
  BY <1>1, SpinnerStarts, SpinnerInductive, PTL DEF SpinnerSpec

-----------------------------------------------------------------------------
(* What a struct says of the frame it goes back to, from the parser to the *)
(* wire.                                                                   *)

AsksFor(m, f) == /\ msg[m].type = f.type /\ msg[m].transaction_id = f.tid
                 /\ content[data[m]].channel = f.arg.channel
MatchedBy(m, f) == /\ f.tid = msg[m].transaction_id /\ msg[m].type = MayAnswer(f.type)
                   /\ f.arg.channel < NUM_CHANNELS

Asking == Queued(incoming[SPINNER])
          \cup (IF task.pc \in {"handle", "reply"} THEN {task.req} ELSE {})
Answering == Sent \cup (IF task.pc = "write" THEN {task.reply} ELSE {})
Parsing == IF rx.pc \in {"parse", "route"} THEN {rx.msg} ELSE {}
Live == Asking \cup Answering \cup Parsing

FrameCopied ==
    /\ rx.pc \in {"parse", "route"} => /\ msg[rx.msg].type = rx.frame.type
                                       /\ msg[rx.msg].transaction_id = rx.frame.tid
    /\ rx.pc = "route" => content[data[rx.msg]].channel = rx.frame.arg.channel
ContentOK ==
    /\ FrameCopied
    /\ task.pc = "reply" => content[data[task.req]].channel < NUM_CHANNELS
    /\ \A m \in Asking : \E f \in Frames : AsksFor(m, f)
    /\ \A m \in Answering : \E f \in Frames : MatchedBy(m, f)

LEMMA LiveStructs ==
  ASSUME SpinnerOK
  PROVE  /\ Live \subseteq WithData
         /\ rx.msg \notin Asking \cup Answering
         /\ rx.pc = "free" => rx.msg \notin Live
         /\ tx.pc = "free" => tx.msg \notin Live
         /\ task.pc = "drop" => task.req \notin Live
<1>1. \A m \in Msgs : /\ m \in Queued(incoming[SPINNER]) => Has("incoming", m)
                      /\ m \in Queued(outgoing[SPINNER]) => Has("outgoing", m)
                      /\ m \in {task.req, task.reply} => Has("held", m)
                      /\ rx.msg = m => Has("rx", m)
                      /\ tx.msg = m => Has("tx", m)
                      /\ m \in msg_pool => Has("pool", m)
  BY OnlySpinner, MsgsAssumption, HasMeans DEF SpinnerOK, HandsOK, TaskOK
<1>2. \A m \in Msgs, k \in Kinds : Has(k, m) => \A l \in Kinds : Has(l, m) <=> l = k
  BY Alone DEF SpinnerOK, HandsOK
<1>3. /\ Queued(incoming[SPINNER]) \subseteq Msgs /\ Queued(outgoing[SPINNER]) \subseteq Msgs
      /\ NoMsg \notin Msgs
  BY OnlySpinner, MsgsAssumption DEF SpinnerOK, HandsOK, ControlOK, TypeOK, Queued
<1>4. /\ rx.pc \in {"parse", "route", "free"} => rx.msg \in Msgs
      /\ tx.pc \in {"send", "free"} => tx.msg \in Msgs
      /\ task.pc # "idle" => task.req \in Msgs
      /\ task.pc = "write" => task.reply \in Msgs
  BY InHand DEF SpinnerOK, HandsOK, ControlOK, TypeOK, WorkersOK
<1>5. GivingOK
  BY DEF SpinnerOK
<1>6. ASSUME NEW m \in Asking \cup Answering PROVE m \in WithData /\ m # rx.msg
  <2>1. CASE m \in Queued(incoming[SPINNER]) \cup Queued(outgoing[SPINNER])
    <3>1. m \in Msgs /\ m \notin msg_pool \cup {rx.msg, tx.msg, task.req, task.reply}
      BY <1>1, <1>2, <1>3, <2>1 DEF Kinds
    <3>2. QED
      BY <3>1 DEF WithData, Freeing
  <2>2. CASE m = task.req /\ task.pc \in {"handle", "reply"}
    BY <1>4, <1>5, <2>2, Apart DEF SpinnerOK, GivingOK, WithData, Freeing
  <2>3. CASE m = task.reply /\ task.pc = "write"
    BY <1>4, <1>5, <2>3, Apart DEF SpinnerOK, GivingOK, WithData, Freeing
  <2>4. CASE m = tx.msg /\ tx.pc = "send"
    BY <1>4, <1>5, <2>4, Apart DEF SpinnerOK, GivingOK, WithData, Freeing
  <2>5. QED
    BY <2>1, <2>2, <2>3, <2>4 DEF Asking, Answering, Sent
<1>7. Parsing \subseteq WithData
  BY <1>4, <1>5, Apart DEF SpinnerOK, GivingOK, WithData, Freeing, Parsing
<1>8. ASSUME tx.pc = "free" PROVE tx.msg \notin Asking \cup Answering \cup Parsing
  BY <1>1, <1>2, <1>4, <1>8 DEF Kinds, Asking, Answering, Parsing, Sent
<1>9. ASSUME task.pc = "drop" PROVE task.req \notin Asking \cup Answering \cup Parsing
  BY <1>1, <1>2, <1>4, <1>9 DEF Kinds, Asking, Answering, Parsing, Sent
<1>10. QED
  BY <1>6, <1>7, <1>8, <1>9 DEF Parsing, Live

(* Nobody writes to a live struct or its data but the parser.              *)
Stays(m) == msg'[m] = msg[m] /\ content'[data'[m]] = content[data[m]]

LEMMA AllocElsewhere ==
  ASSUME SpinnerOK, NEW n \in msg_pool, NEW d \in data_pool,
         msg' = [msg EXCEPT ![n] = msg'[n]], content' = [content EXCEPT ![d] = content'[d]],
         data' = [data EXCEPT ![n] = d]
  PROVE  \A m \in Live : Stays(m)
<1>1. /\ n \in Msgs /\ d \in Data /\ msg \in [Msgs -> Contents \cup {Scrap}]
      /\ data \in [Msgs -> Data \cup {NoData}] /\ content \in [Data -> Args]
  BY DEF SpinnerOK, HandsOK, SpinnerTypeOK, ControlOK, TypeOK
<1>2. \A m \in Live : m \in Msgs \ {n} /\ data[m] \in Data \ {d}
  BY LiveStructs, DataForIsData DEF WithData, SpinnerOK, DataOwned
<1>3. SUFFICES ASSUME NEW m \in Live PROVE Stays(m)
  OBVIOUS
<1>4. m \in Msgs /\ m # n /\ data[m] \in Data /\ data[m] # d
  BY <1>2
<1>5. msg'[m] = msg[m] /\ data'[m] = data[m] /\ content'[data[m]] = content[data[m]]
  BY <1>1, <1>4
<1>6. QED
  BY <1>5 DEF Stays

LEMMA FreeElsewhere ==
  ASSUME SpinnerOK, NEW n \in Msgs \ Live, NEW who,
         \/ GiveData(who, n)
         \/ GiveStruct(who, n) /\ free_message(n) /\ UNCHANGED content
  PROVE  \A m \in Live : Stays(m)
<1>1. msg \in [Msgs -> Contents \cup {Scrap}] /\ data \in [Msgs -> Data \cup {NoData}]
  BY DEF SpinnerOK, HandsOK, SpinnerTypeOK, ControlOK, TypeOK
<1>2. \A m \in Live : m \in Msgs \ {n}
  BY LiveStructs DEF WithData
<1>3. CASE GiveData(who, n)
  BY <1>3 DEF GiveData, Stays, vars
<1>4. CASE GiveStruct(who, n) /\ free_message(n) /\ UNCHANGED content
  BY <1>1, <1>2, <1>4 DEF GiveStruct, Stays, free_message
<1>5. QED
  BY <1>3, <1>4

LEMMA ParseElsewhere ==
  ASSUME SpinnerOK, SpinnerRxParse
  PROVE  /\ \A m \in Asking \cup Answering : Stays(m)
         /\ msg' = msg /\ content'[data'[rx.msg]].channel = rx.frame.arg.channel
<1>1. rx.msg \in WithData /\ \A m \in Asking \cup Answering : m \in WithData /\ m # rx.msg
  BY LiveStructs DEF Live, Parsing, SpinnerRxParse, RxParse
<1>2. data[rx.msg] \in Data /\ \A m \in Asking \cup Answering : data[m] # data[rx.msg]
  BY <1>1, DataForIsData DEF SpinnerOK, DataOwned
<1>3. QED
  BY <1>2 DEF SpinnerRxParse, RxParse, Stays, ParsedArg, SpinnerOK, HandsOK, SpinnerTypeOK

(* Steps by which no struct comes to ask or to answer.                     *)
LEMMA ContentKept ==
  ASSUME ContentOK, \A m \in Live : Stays(m),
         Asking' \subseteq Asking, Answering' \subseteq Answering,
         rx'.pc \in {"parse", "route"} => rx' = rx,
         task'.pc = "reply" => task.pc = "reply" /\ task'.req = task.req
  PROVE  ContentOK'
<1>1. \A m \in Asking' : \E f \in Frames : AsksFor(m, f)'
  BY DEF ContentOK, Live, Stays, AsksFor
<1>2. \A m \in Answering' : \E f \in Frames : MatchedBy(m, f)'
  BY DEF ContentOK, Live, Stays, MatchedBy
<1>3. FrameCopied'
  BY DEF ContentOK, FrameCopied, Live, Parsing, Stays
<1>4. task'.pc = "reply" => content'[data'[task'.req]].channel < NUM_CHANNELS
  BY DEF ContentOK, Live, Asking, Stays
<1>5. QED
  BY <1>1, <1>2, <1>3, <1>4 DEF ContentOK

(* What the task is about to answer, whoever else steps.                   *)
LEMMA AnswerableKept ==
  ASSUME ContentOK, UNCHANGED task, \A m \in Asking : Stays(m), task.pc = "reply"
  PROVE  content'[data'[task'.req]].channel < NUM_CHANNELS
BY DEF ContentOK, Asking, Stays

LEMMA RxContent == ASSUME SpinnerOK, ContentOK, SpinnerRxStep PROVE ContentOK'
<1>0. UNCHANGED <<task, tx, outgoing>>
  BY DEF SpinnerRxStep, SpinnerRxAlloc, TakeStruct, AllocFails, SpinnerRxParse,
         SpinnerRxParseFail, SpinnerRxFree, GiveData, RxAlloc, RxAllocFail, RxParse,
         RxParseFail, RxRoute, RxRouteFail, RxFree, taskVars, spinnerVars, vars
<1>1. CASE TakeData("rx", rx.frame.type) /\ RxAlloc(taken["rx"]) /\ UNCHANGED content
  <2> DEFINE m == taken["rx"]
  <2>1. /\ \A n \in Live : Stays(n)
        /\ msg'[m] = [type |-> rx.frame.type, transaction_id |-> rx.frame.tid]
    <3>1. PICK d \in data_pool : data' = [data EXCEPT ![m] = d]
      BY <1>1 DEF TakeData
    <3>2. content' = [content EXCEPT ![d] = content'[d]]
      BY <1>1 DEF SpinnerOK, HandsOK, SpinnerTypeOK
    <3>3. /\ m \in msg_pool /\ msg' = [msg EXCEPT ![m] = msg'[m]]
          /\ msg'[m] = [type |-> rx.frame.type, transaction_id |-> rx.frame.tid]
      BY <1>1 DEF RxAlloc, alloc_message, SpinnerOK, HandsOK, ControlOK, TypeOK
    <3>4. QED
      BY <3>1, <3>2, <3>3, AllocElsewhere
  <2>2. Asking' = Asking /\ Answering' = Answering
    BY <1>0, <1>1 DEF RxAlloc, Asking, Answering, Sent
  <2>3. FrameCopied'
    BY <1>1, <2>1 DEF RxAlloc, FrameCopied, SpinnerOK, HandsOK, ControlOK, TypeOK
  <2>4. \A n \in Asking' : \E f \in Frames : AsksFor(n, f)'
    BY <2>1, <2>2 DEF ContentOK, Live, Stays, AsksFor
  <2>5. \A n \in Answering' : \E f \in Frames : MatchedBy(n, f)'
    BY <2>1, <2>2 DEF ContentOK, Live, Stays, MatchedBy
  <2>6. QED
    BY <1>0, <2>1, <2>3, <2>4, <2>5, AnswerableKept DEF ContentOK, Live
<1>2. CASE SpinnerRxParse
  <2>1. /\ \A n \in Asking \cup Answering : Stays(n)
        /\ msg' = msg /\ content'[data'[rx.msg]].channel = rx.frame.arg.channel
    BY <1>2, ParseElsewhere
  <2>2. Asking' = Asking /\ Answering' = Answering
    BY <1>0, <1>2 DEF SpinnerRxParse, RxParse, Asking, Answering, Sent
  <2>3. FrameCopied'
    BY <1>2, <2>1 DEF SpinnerRxParse, RxParse, ContentOK, FrameCopied, SpinnerOK, HandsOK,
                      ControlOK, TypeOK
  <2>4. \A n \in Asking' : \E f \in Frames : AsksFor(n, f)'
    BY <2>1, <2>2 DEF ContentOK, Stays, AsksFor
  <2>5. \A n \in Answering' : \E f \in Frames : MatchedBy(n, f)'
    BY <2>1, <2>2 DEF ContentOK, Stays, MatchedBy
  <2>6. QED
    BY <1>0, <2>1, <2>3, <2>4, <2>5, AnswerableKept DEF ContentOK
<1>3. CASE \/ TakeStruct("rx")
           \/ AllocFails("rx", rx.frame.type) /\ RxAllocFail
           \/ SpinnerRxParseFail \/ (RxRouteFail /\ UNCHANGED spinnerVars)
  <2>1. /\ UNCHANGED <<msg, content, data, incoming>>
        /\ rx' = rx \/ rx'.pc \in {"idle", "free"}
    BY <1>3 DEF TakeStruct, AllocFails, SpinnerRxParseFail, RxAllocFail, RxParseFail, RxRouteFail,
                IdleRx, vars, spinnerVars, SpinnerOK, HandsOK, ControlOK, TypeOK
  <2>2. QED
    BY <1>0, <2>1, ContentKept DEF Asking, Answering, Sent, Stays
<1>4. CASE RxRoute /\ UNCHANGED spinnerVars
  <2>1. rx.frame \in Frames /\ rx.frame.sub = SPINNER /\ rx.msg \in Msgs
    <3>1. rx.frame \in Frames /\ Verdict(rx.frame) = NO_ERROR /\ rx.msg \in Msgs
      BY <1>4 DEF RxRoute, SpinnerOK, HandsOK, ControlOK, WorkersOK, TypeOK
    <3>2. QED
      BY <3>1, OnlySpinner, SpinnerAssumption, VerdictMeaning
  <2>2. AsksFor(rx.msg, rx.frame)
    BY <1>4, <2>1 DEF RxRoute, ContentOK, FrameCopied, AsksFor
  <2>3. /\ UNCHANGED <<msg, content, data>> /\ rx'.pc = "idle"
        /\ incoming'[SPINNER] = Append(incoming[SPINNER], rx.msg)
    BY <1>4, <2>1, OnlySpinner
    DEF RxRoute, IdleRx, spinnerVars, SpinnerOK, HandsOK, ControlOK, TypeOK
  <2>4. Queued(incoming'[SPINNER]) = Queued(incoming[SPINNER]) \cup {rx.msg}
    BY <2>1, <2>3, OnlySpinner, QueueGrows DEF SpinnerOK, HandsOK, ControlOK, TypeOK
  <2>5. Asking' = Asking \cup {rx.msg} /\ Answering' = Answering
    BY <1>0, <2>4 DEF Asking, Answering, Sent
  <2>6. \A n \in Asking' : \E f \in Frames : AsksFor(n, f)'
    BY <2>1, <2>2, <2>3, <2>5 DEF ContentOK, AsksFor
  <2>7. \A n \in Answering' : \E f \in Frames : MatchedBy(n, f)'
    BY <2>3, <2>5 DEF ContentOK, MatchedBy
  <2>8. FrameCopied'
    BY <2>3 DEF FrameCopied
  <2>9. QED
    BY <1>0, <2>3, <2>6, <2>7, <2>8, AnswerableKept DEF ContentOK, Stays
<1>5. CASE SpinnerRxFree
  <2>1. rx.msg \in Msgs \ Live
    BY <1>5, InHand, LiveStructs DEF SpinnerRxFree, SpinnerOK
  <2>2. \A m \in Live : Stays(m)
    BY <1>5, <2>1, FreeElsewhere DEF SpinnerRxFree, RxFree, GiveStruct
  <2>3. UNCHANGED incoming /\ (rx'.pc \in {"parse", "route"} => rx' = rx)
    BY <1>5 DEF SpinnerRxFree, GiveData, RxFree, IdleRx, vars
  <2>4. QED
    BY <1>0, <2>2, <2>3, ContentKept DEF Asking, Answering, Sent
<1>6. QED
  BY <1>1, <1>2, <1>3, <1>4, <1>5 DEF SpinnerRxStep, SpinnerRxAlloc

LEMMA TxContent == ASSUME SpinnerOK, ContentOK, SpinnerTxStep PROVE ContentOK'
<1>0. UNCHANGED <<task, rx, incoming>>
  BY DEF SpinnerTxStep, SpinnerTxFree, SpinnerTxTooLong, TxSendFail, GiveData, TxOwnError,
         TxSubsystemError, TxMessage, TxErrorBegin, TxErrorEnd, TxWriteError, TxSend, TxFree,
         rxVars, taskVars, spinnerVars, vars
<1>1. CASE (TxOwnError \/ TxSubsystemError \/ TxErrorBegin \/ TxErrorEnd \/ TxSend
               \/ SpinnerTxTooLong) /\ UNCHANGED spinnerVars
  <2>0. TypeOK
    BY DEF SpinnerOK, HandsOK, ControlOK
  <2>1. UNCHANGED <<msg, content, data, outgoing>> /\ tx'.pc # "send"
    <3>1. CASE TxOwnError /\ UNCHANGED spinnerVars
      BY <2>0, <3>1 DEF TxOwnError, taskVars, spinnerVars, TypeOK
    <3>2. CASE TxSubsystemError /\ UNCHANGED spinnerVars
      BY <2>0, <3>2, NextQueueOK DEF TxSubsystemError, spinnerVars, TypeOK
    <3>3. CASE (TxErrorBegin \/ TxErrorEnd \/ TxSend \/ SpinnerTxTooLong)
                  /\ UNCHANGED spinnerVars
      BY <2>0, <3>3 DEF TxErrorBegin, TxErrorEnd, TxWriteError, TxSend, SpinnerTxTooLong,
                        TxSendFail, IdleTx, taskVars, spinnerVars, TypeOK
    <3>4. QED
      BY <1>1, <3>1, <3>2, <3>3
  <2>2. QED
    BY <1>0, <2>1, ContentKept DEF Asking, Answering, Sent, Stays
<1>2. CASE TxMessage /\ UNCHANGED spinnerVars
  <2>1. UNCHANGED <<msg, content, data>>
    BY <1>2 DEF TxMessage, spinnerVars
  <2>2. Scanned = SPINNER /\ SPINNER \in Subsystems
    BY OnlySpinner, Lengths DEF Scanned, SpinnerOK, HandsOK, ControlOK, TypeOK
  <2>3. Sent' \subseteq Sent
    <3>1. CASE Scanned \in WithOutQueue /\ outgoing[Scanned] # <<>>
      <4>1. /\ tx'.msg = Head(outgoing[SPINNER])
            /\ outgoing'[SPINNER] = Tail(outgoing[SPINNER])
        BY <1>2, <2>2, <3>1 DEF TxMessage, SpinnerOK, HandsOK, ControlOK, TypeOK
      <4>2. /\ Head(outgoing[SPINNER]) \in Queued(outgoing[SPINNER])
            /\ Queued(Tail(outgoing[SPINNER])) \subseteq Queued(outgoing[SPINNER])
        BY <2>2, <3>1, QueueShrinks
        DEF SpinnerOK, HandsOK, ControlOK, TypeOK, OwnershipOK, NoRepeats
      <4>3. QED
        BY <4>1, <4>2 DEF Sent
    <3>2. CASE ~(Scanned \in WithOutQueue /\ outgoing[Scanned] # <<>>)
      BY <1>2, <3>2 DEF TxMessage, NextQueue, Sent, SpinnerOK, HandsOK, ControlOK, TypeOK
    <3>3. QED
      BY <3>1, <3>2
  <2>4. QED
    BY <1>0, <2>1, <2>3, ContentKept DEF Asking, Answering, Stays
<1>3. CASE SpinnerTxFree
  <2>1. tx.msg \in Msgs \ Live
    BY <1>3, InHand, LiveStructs DEF SpinnerTxFree, SpinnerOK
  <2>2. \A m \in Live : Stays(m)
    BY <1>3, <2>1, FreeElsewhere DEF SpinnerTxFree, TxFree, GiveStruct
  <2>3. UNCHANGED outgoing /\ tx'.pc # "send"
    BY <1>3 DEF SpinnerTxFree, GiveData, TxFree, IdleTx, taskVars, vars
  <2>4. QED
    BY <1>0, <2>2, <2>3, ContentKept DEF Asking, Answering, Sent
<1>4. QED
  BY <1>1, <1>2, <1>3 DEF SpinnerTxStep

LEMMA TaskContent == ASSUME SpinnerOK, ContentOK, SpinnerTaskStep PROVE ContentOK'
<1>0. UNCHANGED <<rx, tx>>
  BY DEF SpinnerTaskStep, SpinnerReceive, SpinnerHandle, SpinnerNewReply, SpinnerWrite,
         SpinnerDrop, TakeStruct, GiveData, TaskReceive, TaskNew, TaskSend, TaskDrop, vars
<1>1. CASE SpinnerReceive
  <2>1. /\ Head(incoming[SPINNER]) \in Queued(incoming[SPINNER])
        /\ Queued(Tail(incoming[SPINNER])) \subseteq Queued(incoming[SPINNER])
    BY <1>1, OnlySpinner, QueueShrinks
    DEF SpinnerReceive, TaskReceive, SpinnerOK, HandsOK, ControlOK, TypeOK, OwnershipOK, NoRepeats
  <2>2. /\ UNCHANGED <<msg, content, data, outgoing>>
        /\ incoming'[SPINNER] = Tail(incoming[SPINNER])
        /\ task'.pc = "handle" /\ task'.req = Head(incoming[SPINNER])
    BY <1>1, OnlySpinner
    DEF SpinnerReceive, TaskReceive, SpinnerOK, HandsOK, ControlOK, TypeOK, SpinnerTypeOK
  <2>3. Asking' \subseteq Asking /\ Answering' \subseteq Answering
    BY <1>0, <2>1, <2>2 DEF Asking, Answering, Sent
  <2>4. QED
    BY <1>0, <2>2, <2>3, ContentKept DEF Stays
<1>2. CASE SpinnerHandle
  <2>1. UNCHANGED <<msg, content, data, incoming, outgoing>> /\ task.pc = "handle"
    BY <1>2 DEF SpinnerHandle, vars
  <2>2. task'.req = task.req /\ task'.pc \in {"reply", "panic", "drop"}
    <3>1. CASE SendEvent
      BY <3>1, EventAnswered DEF SpinnerOK, HandsOK
    <3>2. CASE task' = [task EXCEPT !.pc = "drop"]
      BY <3>2 DEF SpinnerOK, HandsOK, SpinnerTypeOK
    <3>3. QED
      BY <1>2, <3>1, <3>2 DEF SpinnerHandle
  <2>3. task'.pc = "reply" => content'[data'[task'.req]].channel < NUM_CHANNELS
    <3>1. CASE asked.channel < NUM_CHANNELS
      BY <2>1, <2>2, <3>1 DEF asked
    <3>2. CASE task' = [task EXCEPT !.pc = "drop"]
      BY <3>2 DEF SpinnerOK, HandsOK, SpinnerTypeOK
    <3>3. QED
      BY <1>2, <3>1, <3>2 DEF SpinnerHandle
  <2>4. Asking' \subseteq Asking /\ Answering' \subseteq Answering
    BY <1>0, <2>1, <2>2 DEF Asking, Answering, Sent
  <2>5. (\A n \in Asking' : \E f \in Frames : AsksFor(n, f)')
        /\ (\A n \in Answering' : \E f \in Frames : MatchedBy(n, f)')
    BY <2>1, <2>4 DEF ContentOK, AsksFor, MatchedBy
  <2>6. FrameCopied'
    BY <1>0, <2>1 DEF ContentOK, FrameCopied
  <2>7. QED
    BY <2>3, <2>5, <2>6 DEF ContentOK
<1>3. CASE SpinnerNewReply /\ ~TakeData("task", task.answer.type)
  <2>1. /\ UNCHANGED <<msg, content, data, incoming, outgoing>>
        /\ task' = task \/ task' = [task EXCEPT !.pc = "drop", !.answer = NoAnswer]
    BY <1>3 DEF SpinnerNewReply, TakeStruct, AllocFails, vars
  <2>2. /\ Asking' \subseteq Asking /\ Answering' \subseteq Answering
        /\ task'.pc = "reply" => task' = task
    BY <1>0, <2>1 DEF Asking, Answering, Sent, SpinnerOK, HandsOK, SpinnerTypeOK
  <2>3. QED
    BY <1>0, <2>1, <2>2, ContentKept DEF Stays
<1>4. CASE SpinnerNewReply /\ TakeData("task", task.answer.type)
  <2> PICK m \in Msgs : m = taken["task"]
    BY <1>4 DEF TakeData, SpinnerOK, HandsOK, SpinnerTypeOK
  <2>0. /\ task.pc = "reply"
        /\ TaskNew(SPINNER, m, task.answer.type, request.transaction_id)
        /\ content' = [content EXCEPT ![data'[m]] = [channel |-> 0, value |-> task.answer.value]]
        /\ task' = [task EXCEPT !.pc = "write", !.reply = m, !.answer = NoAnswer]
    BY <1>4 DEF SpinnerNewReply, TakeStruct, AllocFails, TakeData
  <2>1. PICK d \in data_pool : data' = [data EXCEPT ![m] = d]
    BY <1>4 DEF TakeData
  <2>2. /\ m \in msg_pool /\ msg' = [msg EXCEPT ![m] = msg'[m]]
        /\ msg'[m] = [type |-> task.answer.type, transaction_id |-> request.transaction_id]
    BY <2>0 DEF TaskNew, alloc_message, SpinnerOK, HandsOK, ControlOK, TypeOK
  <2>3. data'[m] = d
    BY <2>1 DEF SpinnerOK, HandsOK, SpinnerTypeOK, ControlOK, TypeOK
  <2>4. content' = [content EXCEPT ![d] = content'[d]]
    BY <2>0, <2>3 DEF SpinnerOK, HandsOK, SpinnerTypeOK
  <2>5. \A n \in Live : Stays(n)
    BY <2>1, <2>2, <2>4, AllocElsewhere
  <2>6. PICK f \in Frames : AsksFor(task.req, f)
    BY <2>0 DEF ContentOK, Asking
  <2>7. MatchedBy(m, f)'
    BY <2>0, <2>2, <2>6
    DEF AsksFor, MatchedBy, request, ContentOK, SpinnerOK, HandsOK, TaskOK
  <2>8. /\ Asking' \subseteq Asking /\ Answering' \subseteq Answering \cup {m}
        /\ task'.pc = "write"
    BY <1>0, <2>0 DEF TaskNew, Asking, Answering, Sent, SpinnerOK, HandsOK, SpinnerTypeOK
  <2>9. FrameCopied'
    BY <1>0, <2>5 DEF ContentOK, FrameCopied, Live, Parsing, Stays
  <2>10. \A n \in Asking' : \E g \in Frames : AsksFor(n, g)'
    BY <2>5, <2>8 DEF ContentOK, Live, Stays, AsksFor
  <2>11. ASSUME NEW n \in Answering' PROVE \E g \in Frames : MatchedBy(n, g)'
    <3>1. CASE n = m
      BY <2>7, <3>1
    <3>2. CASE n \in Answering
      BY <2>5, <3>2 DEF ContentOK, Live, Stays, MatchedBy
    <3>3. QED
      BY <2>8, <3>1, <3>2
  <2>12. QED
    BY <2>8, <2>9, <2>10, <2>11 DEF ContentOK
<1>5. CASE SpinnerWrite
  <2>1. /\ UNCHANGED <<msg, content, data, incoming>>
        /\ outgoing'[SPINNER] = Append(outgoing[SPINNER], task.reply) /\ task'.pc = "drop"
        /\ task.reply \in Msgs
    BY <1>5, OnlySpinner, InHand
    DEF SpinnerWrite, TaskSend, SpinnerOK, HandsOK, ControlOK, TypeOK, SpinnerTypeOK
  <2>2. Queued(outgoing'[SPINNER]) = Queued(outgoing[SPINNER]) \cup {task.reply}
    BY <2>1, OnlySpinner, QueueGrows DEF SpinnerOK, HandsOK, ControlOK, TypeOK
  <2>3. Asking' \subseteq Asking /\ Answering' \subseteq Answering
    BY <1>0, <1>5, <2>1, <2>2 DEF SpinnerWrite, Asking, Answering, Sent
  <2>4. QED
    BY <1>0, <2>1, <2>3, ContentKept DEF Stays
<1>6. CASE SpinnerDrop
  <2>1. task.req \in Msgs \ Live
    BY <1>6, InHand, LiveStructs DEF SpinnerDrop, SpinnerOK
  <2>2. \A m \in Live : Stays(m)
    BY <1>6, <2>1, FreeElsewhere DEF SpinnerDrop, TaskDrop, GiveStruct
  <2>3. UNCHANGED <<incoming, outgoing>> /\ task'.pc \in {"drop", "idle"}
    BY <1>6 DEF SpinnerDrop, GiveData, TaskDrop, vars, IdleTask
  <2>4. QED
    BY <1>0, <2>2, <2>3, ContentKept DEF Asking, Answering, Sent
<1>7. QED
  BY <1>1, <1>2, <1>3, <1>4, <1>5, <1>6 DEF SpinnerTaskStep

LEMMA ContentInductive == SpinnerOK /\ ContentOK /\ [SpinnerNext]_allVars => ContentOK'
<1> SUFFICES ASSUME SpinnerOK, ContentOK, [SpinnerNext]_allVars PROVE ContentOK'
  OBVIOUS
<1>1. CASE ((RxFrame \/ Transmit) /\ UNCHANGED spinnerVars) \/ UNCHANGED allVars
  <2>1. /\ UNCHANGED <<msg, content, data, incoming, outgoing, tx, task>>
        /\ rx'.pc \in {"parse", "route"} => rx' = rx
    BY <1>1 DEF RxFrame, RxReject, RxAccept, Transmit, rxVars, taskVars, spinnerVars, allVars,
                vars, SpinnerOK, HandsOK, ControlOK, TypeOK
  <2>2. QED
    BY <2>1, ContentKept DEF Asking, Answering, Sent, Stays
<1>2. QED
  BY <1>1, RxContent, TxContent, TaskContent DEF SpinnerNext

(* A reply on its way to the wire is of a kind that answers a request the  *)
(* host made under its id, for a channel that exists, although three tasks *)
(* recycle structs and blocks of data all the time.                        *)
THEOREM SpinnerRepliesMatch == SpinnerSpec => []RepliesMatch
<1>1. SpinnerInit => ContentOK
  BY OnlySpinner DEF SpinnerInit, Init, IdleRx, IdleTx, IdleTask, ContentOK, FrameCopied,
                     Asking, Answering, Sent, Queued
<1>2. ContentOK => RepliesMatch
  BY DEF ContentOK, Answering, MatchedBy, RepliesMatch
<1>3. QED
  BY <1>1, <1>2, SpinnerStarts, SpinnerInductive, ContentInductive, PTL DEF SpinnerSpec

-----------------------------------------------------------------------------
(* What becomes of a request for the channel that exists: it waits, the    *)
(* task works on it, or the reply under its id is about to be written.     *)
InWork(t) ==
    \/ \E m \in Asking :
          msg[m].transaction_id = t /\ content[data[m]].channel < NUM_CHANNELS
    \/ task.pc = "write" /\ msg[task.reply].transaction_id = t

LEMMA WorkGoesOn ==
  ASSUME \A m \in Asking \cup Answering : Stays(m), UNCHANGED task,
         Asking \subseteq Asking', NEW t, InWork(t)
  PROVE  InWork(t)'
<1>1. CASE task.pc = "write" /\ msg[task.reply].transaction_id = t
  BY <1>1 DEF InWork, Answering, Stays
<1>2. CASE \E m \in Asking :
              msg[m].transaction_id = t /\ content[data[m]].channel < NUM_CHANNELS
  <2>1. PICK m \in Asking :
           msg[m].transaction_id = t /\ content[data[m]].channel < NUM_CHANNELS
    BY <1>2
  <2>2. m \in Asking' /\ Stays(m)
    BY <2>1
  <2>3. msg'[m].transaction_id = t /\ content'[data'[m]].channel < NUM_CHANNELS
    BY <2>1, <2>2 DEF Stays
  <2>4. QED
    BY <2>2, <2>3 DEF InWork
<1>3. QED
  BY <1>1, <1>2 DEF InWork

LEMMA RxWorks == ASSUME SpinnerOK, SpinnerRxStep, NEW t, InWork(t) PROVE InWork(t)'
<1>0. UNCHANGED task
  BY DEF SpinnerRxStep, SpinnerRxAlloc, TakeStruct, AllocFails, SpinnerRxParse,
         SpinnerRxParseFail, SpinnerRxFree, GiveData, spinnerVars
<1>1. CASE TakeData("rx", rx.frame.type) /\ RxAlloc(taken["rx"]) /\ UNCHANGED content
  <2>1. PICK d \in data_pool : data' = [data EXCEPT ![taken["rx"]] = d]
    BY <1>1 DEF TakeData
  <2>2. content' = [content EXCEPT ![d] = content'[d]]
    BY <1>1 DEF SpinnerOK, HandsOK, SpinnerTypeOK
  <2>3. taken["rx"] \in msg_pool /\ msg' = [msg EXCEPT ![taken["rx"]] = msg'[taken["rx"]]]
    BY <1>1 DEF RxAlloc, alloc_message, SpinnerOK, HandsOK, ControlOK, TypeOK
  <2>4. \A m \in Asking \cup Answering : Stays(m)
    BY <2>1, <2>2, <2>3, AllocElsewhere DEF Live
  <2>5. Asking' = Asking
    BY <1>0, <1>1 DEF RxAlloc, Asking
  <2>6. QED
    BY <1>0, <2>4, <2>5, WorkGoesOn
<1>2. CASE SpinnerRxParse
  <2>1. \A m \in Asking \cup Answering : Stays(m)
    BY <1>2, ParseElsewhere
  <2>2. Asking' = Asking
    BY <1>0, <1>2 DEF SpinnerRxParse, RxParse, Asking
  <2>3. QED
    BY <1>0, <2>1, <2>2, WorkGoesOn
<1>3. CASE \/ rx.pc = "alloc" /\ TakeStruct("rx")
           \/ AllocFails("rx", rx.frame.type) /\ RxAllocFail
           \/ SpinnerRxParseFail
           \/ RxRouteFail /\ UNCHANGED spinnerVars
  <2>1. UNCHANGED <<msg, content, data, incoming>>
    BY <1>3 DEF TakeStruct, AllocFails, SpinnerRxParseFail, RxAllocFail, RxParseFail, RxRouteFail,
                spinnerVars, vars
  <2>2. Asking' = Asking /\ \A m \in Asking \cup Answering : Stays(m)
    BY <1>0, <2>1 DEF Asking, Stays
  <2>3. QED
    BY <1>0, <2>2, WorkGoesOn
<1>4. CASE RxRoute /\ UNCHANGED spinnerVars
  <2>1. UNCHANGED <<msg, content, data>>
    BY <1>4 DEF RxRoute, spinnerVars
  <2>2. incoming \in [Subsystems -> Seq(Msgs)] /\ incoming[SPINNER] \in Seq(Msgs)
    BY OnlySpinner DEF SpinnerOK, HandsOK, ControlOK, TypeOK
  <2>3. rx.msg \in Msgs
    BY <1>4 DEF RxRoute, SpinnerOK, HandsOK, ControlOK, WorkersOK, TypeOK
  <2>4. Queued(Append(incoming[SPINNER], rx.msg)) = Queued(incoming[SPINNER]) \cup {rx.msg}
    BY <2>2, <2>3, QueueGrows
  <2>5. incoming'[SPINNER] \in {incoming[SPINNER], Append(incoming[SPINNER], rx.msg)}
    BY <1>4, <2>2, OnlySpinner DEF RxRoute
  <2>6. Asking \subseteq Asking'
    BY <1>0, <2>4, <2>5 DEF Asking
  <2>7. \A m \in Asking \cup Answering : Stays(m)
    BY <2>1 DEF Stays
  <2>8. QED
    BY <1>0, <2>6, <2>7, WorkGoesOn
<1>5. CASE SpinnerRxFree
  <2>1. rx.msg \in Msgs \ Live
    BY <1>5, InHand, LiveStructs DEF SpinnerRxFree, SpinnerOK
  <2>2. \A m \in Asking \cup Answering : Stays(m)
    BY <1>5, <2>1, FreeElsewhere DEF SpinnerRxFree, RxFree, GiveStruct, Live
  <2>3. Asking' = Asking
    BY <1>0, <1>5 DEF SpinnerRxFree, GiveData, RxFree, Asking, vars
  <2>4. QED
    BY <1>0, <2>2, <2>3, WorkGoesOn
<1>6. CASE SpinnerRxAlloc
  <2>1. \/ rx.pc = "alloc" /\ TakeStruct("rx")
        \/ TakeData("rx", rx.frame.type) /\ RxAlloc(taken["rx"]) /\ UNCHANGED content
        \/ AllocFails("rx", rx.frame.type) /\ RxAllocFail
    BY <1>6, ZenonT(60) DEF SpinnerRxAlloc
  <2>2. QED
    BY <1>1, <1>3, <2>1
<1>7. \/ SpinnerRxAlloc \/ SpinnerRxParse \/ SpinnerRxParseFail
      \/ (RxRoute \/ RxRouteFail) /\ UNCHANGED spinnerVars
      \/ SpinnerRxFree
  BY DEF SpinnerRxStep
<1>8. QED
  BY <1>2, <1>3, <1>4, <1>5, <1>6, <1>7

LEMMA TxWorks == ASSUME SpinnerOK, SpinnerTxStep, NEW t, InWork(t) PROVE InWork(t)'
<1>0. UNCHANGED <<task, incoming>>
  BY DEF SpinnerTxStep, SpinnerTxFree, SpinnerTxTooLong, TxSendFail, GiveData, TxOwnError,
         TxSubsystemError, TxMessage, TxErrorBegin, TxErrorEnd, TxWriteError, TxSend, TxFree,
         rxVars, spinnerVars, vars
<1>1. CASE UNCHANGED <<msg, content, data>>
  BY <1>0, <1>1, WorkGoesOn DEF Asking, Stays
<1>2. CASE SpinnerTxFree
  <2>1. tx.msg \in Msgs \ Live
    BY <1>2, InHand, LiveStructs DEF SpinnerTxFree, SpinnerOK
  <2>2. \A m \in Asking \cup Answering : Stays(m)
    BY <1>2, <2>1, FreeElsewhere DEF SpinnerTxFree, TxFree, GiveStruct, Live
  <2>3. QED
    BY <1>0, <2>2, WorkGoesOn DEF Asking
<1>3. QED
  BY <1>1, <1>2
  DEF SpinnerTxStep, SpinnerTxTooLong, TxSendFail, TxOwnError, TxSubsystemError, TxMessage,
      TxErrorBegin, TxErrorEnd, TxWriteError, TxSend, spinnerVars

LEMMA TaskWorks ==
  ASSUME SpinnerOK, SpinnerTaskStep, NEW t, InWork(t), ~NothingLeft
  PROVE  InWork(t)' \/ Answered(t)' \/ task'.pc = "panic"
<1>1. /\ incoming \in [Subsystems -> Seq(Msgs)] /\ outgoing \in [Subsystems -> Seq(Msgs)]
      /\ SPINNER \in Subsystems /\ msg \in [Msgs -> Contents \cup {Scrap}]
      /\ incoming[SPINNER] \in Seq(Msgs) /\ outgoing[SPINNER] \in Seq(Msgs)
      /\ NoDuplicates(incoming[SPINNER])
  BY OnlySpinner DEF SpinnerOK, HandsOK, ControlOK, TypeOK, OwnershipOK, NoRepeats
<1>2. /\ task.pc \in {"idle", "handle", "reply", "write", "drop", "panic"}
      /\ task = [pc |-> task.pc, req |-> task.req, reply |-> task.reply, answer |-> task.answer]
  BY DEF SpinnerOK, HandsOK, SpinnerTypeOK
<1>3. CASE SpinnerReceive
  <2>1. /\ UNCHANGED <<msg, content, data>> /\ task.pc = "idle"
        /\ incoming'[SPINNER] = Tail(incoming[SPINNER])
        /\ task'.pc = "handle" /\ task'.req = Head(incoming[SPINNER])
    BY <1>1, <1>2, <1>3 DEF SpinnerReceive, TaskReceive
  <2>2. Queued(Tail(incoming[SPINNER])) = Queued(incoming[SPINNER]) \ {Head(incoming[SPINNER])}
    BY <1>1, <1>3, QueueShrinks DEF SpinnerReceive, TaskReceive
  <2>3. Asking \subseteq Asking'
    BY <2>1, <2>2 DEF Asking
  <2>4. QED
    BY <2>1, <2>3 DEF InWork
<1>4. CASE SpinnerHandle
  <2>1. UNCHANGED <<msg, content, data, incoming>> /\ task.pc = "handle"
    BY <1>4 DEF SpinnerHandle, vars
  <2>2. CASE \E m \in Queued(incoming[SPINNER]) :
                msg[m].transaction_id = t /\ content[data[m]].channel < NUM_CHANNELS
    BY <2>1, <2>2 DEF InWork, Asking
  <2>3. CASE msg[task.req].transaction_id = t /\ content[data[task.req]].channel < NUM_CHANNELS
    <3>1. SendEvent
      BY <1>4, <2>3 DEF SpinnerHandle, asked
    <3>2. task'.req = task.req /\ task'.pc \in {"reply", "panic"}
      BY <3>1, EventAnswered DEF SpinnerOK, HandsOK
    <3>3. task'.pc = "reply" => task.req \in Asking'
      BY <3>2 DEF Asking
    <3>4. QED
      BY <2>1, <2>3, <3>2, <3>3 DEF InWork
  <2>4. QED
    BY <2>1, <2>2, <2>3 DEF InWork, Asking
<1>5. CASE SpinnerNewReply
  <2>0. task.pc = "reply"
    BY <1>5 DEF SpinnerNewReply
  <2>1. CASE TakeStruct("task")
    <3>1. UNCHANGED <<msg, content, data, incoming, task>>
      BY <2>1 DEF TakeStruct, vars
    <3>2. QED
      BY <3>1 DEF InWork, Asking
  <2>2. CASE AllocFails("task", task.answer.type)
    BY <2>0, <2>2 DEF AllocFails, NothingLeft
  <2>3. ASSUME TakeData("task", task.answer.type),
               TaskNew(SPINNER, taken["task"], task.answer.type, request.transaction_id),
               content' = [content EXCEPT ![data'[taken["task"]]] =
                             [channel |-> 0, value |-> task.answer.value]],
               task' = [task EXCEPT !.pc = "write", !.reply = taken["task"], !.answer = NoAnswer]
        PROVE  InWork(t)'
    <3>1. PICK m \in Msgs : m = taken["task"]
      BY <2>3 DEF TakeData, SpinnerOK, HandsOK, SpinnerTypeOK
    <3>2. task'.pc = "write" /\ task'.reply = m
      BY <1>2, <2>3, <3>1
    <3>3. /\ m \in msg_pool /\ msg' = [msg EXCEPT ![m] = msg'[m]] /\ UNCHANGED incoming
          /\ msg'[m].transaction_id = msg[task.req].transaction_id
      BY <1>1, <2>3, <3>1 DEF TaskNew, alloc_message, request
    <3>4. CASE msg[task.req].transaction_id = t
      BY <3>2, <3>3, <3>4 DEF InWork
    <3>5. CASE msg[task.req].transaction_id # t
      <4>1. PICK d \in data_pool : data' = [data EXCEPT ![m] = d]
        BY <2>3, <3>1 DEF TakeData
      <4>2. data'[m] = d
        BY <4>1 DEF SpinnerOK, HandsOK, SpinnerTypeOK
      <4>3. content' = [content EXCEPT ![d] = content'[d]]
        BY <2>3, <3>1, <4>2 DEF SpinnerOK, HandsOK, SpinnerTypeOK
      <4>4. \A n \in Live : Stays(n)
        BY <3>3, <4>1, <4>3, AllocElsewhere
      <4>5. PICK n \in Asking :
               msg[n].transaction_id = t /\ content[data[n]].channel < NUM_CHANNELS
        BY <2>0 DEF InWork
      <4>6. n \in Asking'
        BY <3>3, <3>5, <4>5 DEF Asking
      <4>7. msg'[n].transaction_id = t /\ content'[data'[n]].channel < NUM_CHANNELS
        BY <4>4, <4>5 DEF Live, Stays
      <4>8. QED
        BY <4>6, <4>7 DEF InWork
    <3>6. QED
      BY <3>4, <3>5
  <2>4. QED
    BY <1>5, <2>1, <2>2, <2>3 DEF SpinnerNewReply
<1>6. CASE SpinnerWrite
  <2>1. /\ UNCHANGED <<msg, content, data, incoming>> /\ task.pc = "write"
        /\ outgoing'[SPINNER] = Append(outgoing[SPINNER], task.reply)
    BY <1>1, <1>6 DEF SpinnerWrite, TaskSend
  <2>2. task.reply \in Msgs
    BY <2>1, InHand DEF SpinnerOK
  <2>3. task.reply \in Queued(outgoing'[SPINNER])
    BY <1>1, <2>1, <2>2, QueueGrows
  <2>4. CASE msg[task.reply].transaction_id = t
    BY <2>1, <2>3, <2>4 DEF Answered
  <2>5. CASE msg[task.reply].transaction_id # t
    BY <2>1, <2>5 DEF InWork, Asking
  <2>6. QED
    BY <2>4, <2>5
<1>7. CASE SpinnerDrop
  <2>1. task.req \in Msgs \ Live
    BY <1>7, InHand, LiveStructs DEF SpinnerDrop, SpinnerOK
  <2>2. \A m \in Live : Stays(m)
    BY <1>7, <2>1, FreeElsewhere DEF SpinnerDrop, TaskDrop, GiveStruct
  <2>3. UNCHANGED incoming /\ task.pc = "drop"
    BY <1>7 DEF SpinnerDrop, GiveData, TaskDrop, vars
  <2>4. PICK n \in Queued(incoming[SPINNER]) :
           msg[n].transaction_id = t /\ content[data[n]].channel < NUM_CHANNELS
    BY <2>3 DEF InWork, Asking
  <2>5. n \in Live /\ n \in Asking'
    BY <2>3, <2>4 DEF Live, Asking
  <2>6. QED
    BY <2>2, <2>4, <2>5 DEF InWork, Stays
<1>8. QED
  BY <1>3, <1>4, <1>5, <1>6, <1>7 DEF SpinnerTaskStep

(* The safety part of RequestsAreAnswered.  A request for the channel that *)
(* exists stays in work until its reply is in outgoing[SPINNER]: only a    *)
(* pool that has nothing left (send_return_val, send_spin_plan_reply,      *)
(* send_spin_state_reply) and a panic end the work on it, whatever the     *)
(* receive and transmit workers allocate and free meanwhile.               *)
THEOREM SpinnerRequestsStayInWork ==
  SpinnerSpec => [][\A t \in TransIds : InWork(t) /\ ~NothingLeft =>
                       InWork(t)' \/ Answered(t)' \/ task'.pc = "panic"]_allVars
<1>1. ASSUME SpinnerOK, [SpinnerNext]_allVars
      PROVE  [\A t \in TransIds : InWork(t) /\ ~NothingLeft =>
                 InWork(t)' \/ Answered(t)' \/ task'.pc = "panic"]_allVars
  <2>1. SUFFICES ASSUME NEW t \in TransIds, InWork(t), ~NothingLeft
                 PROVE  InWork(t)' \/ Answered(t)' \/ task'.pc = "panic"
    OBVIOUS
  <2>2. CASE SpinnerRxStep
    BY <1>1, <2>1, <2>2, RxWorks
  <2>3. CASE SpinnerTxStep
    BY <1>1, <2>1, <2>3, TxWorks
  <2>4. CASE SpinnerTaskStep
    BY <1>1, <2>1, <2>4, TaskWorks
  <2>5. CASE ((RxFrame \/ Transmit) /\ UNCHANGED spinnerVars) \/ UNCHANGED allVars
    <3>1. UNCHANGED <<msg, content, data, incoming, task>>
      BY <2>5 DEF RxFrame, RxReject, RxAccept, Transmit, rxVars, spinnerVars, allVars, vars
    <3>2. QED
      BY <2>1, <3>1 DEF InWork, Asking
  <2>6. QED
    BY <1>1, <2>2, <2>3, <2>4, <2>5 DEF SpinnerNext
<1>2. QED
  BY <1>1, SpinnerStarts, SpinnerInductive, PTL DEF SpinnerSpec
=============================================================================
