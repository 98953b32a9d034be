------------------------------- MODULE Spinner -------------------------------
(***************************************************************************)
(* The SPINNER subsystem under the message dispatcher: the C half parses,  *)
(* serialises and allocates (src/spinner/spinner.c), the Rust half is the  *)
(* task that drives the state machine of the channel                       *)
(* (rust/src/spinner/spinner.rs).                                          *)
(*                                                                         *)
(* Neither spinner_alloc_message nor spinner_free_message runs inside a    *)
(* critical section: struct and data are taken, and given back, in two     *)
(* steps.  A struct taken that has no data yet still counts as free to the *)
(* dispatcher, which has not been handed it.                               *)
(***************************************************************************)
EXTENDS Dispatcher

CONSTANTS
    Plans,              \* spin_plan_data_pool_mem
    Smalls,             \* small_sized_msg_pool_mem
    NoData,
    MaxLegs,            \* MAX_SPIN_PLAN_LEGS, the length of plan_legs[] in C
    RustLegs            \* the length of plan_legs in Rust

SPINNER == "SPINNER"
NUM_CHANNELS == 1

PlanTypes == {"SET_PLAN", "PLAN_REPLY"}
Requests  == {"SET_PLAN", "GET_PLAN", "SET_STATE", "GET_STATE"}
Replies   == {"PLAN_REPLY", "STATE_REPLY", "RET_VAL"}

(* spinner_conf: SPINNER is registered alone in this module, with a parser *)
(* for each request and a serializer for each reply, and has as many small *)
(* blocks as structs.                                                      *)
ASSUME SpinnerAssumption ==
    /\ Order = <<SPINNER>> /\ SPINNER \in WithOutQueue
    /\ Parsed = Requests /\ Serialized = Replies
    /\ \A f \in Frames : f.arg \in [channel : Int, value : Int]
    /\ IsFiniteSet(Smalls) /\ Plans \cap Smalls = {} /\ NoData \notin Plans \cup Smalls
    /\ Cardinality(Msgs) <= Cardinality(Smalls)
    /\ MaxLegs \in Nat /\ RustLegs \in Nat

Data == Plans \cup Smalls
DataFor(type) == IF type \in PlanTypes THEN Plans ELSE Smalls

(* SPINNER_STATE_...                                                       *)
STOPPED       == 0
RUNNING       == 1
SPINNING_DOWN == 2
States == {STOPPED, RUNNING, SPINNING_DOWN}

VARIABLES
    data_pool,          \* the free blocks of both data pools
    content,            \* [Data -> channel number and the one value that matters]
    data,               \* [Msgs -> the data pointer of the struct]
    taken,              \* struct taken by who is inside spinner_alloc_message
    giving,             \* who has given the data back but not yet the struct
    task,               \* the spinner task: pc, request, reply, and what to answer
    channel             \* the channel: state and plan_len

spinnerVars == <<data_pool, content, data, taken, giving, task, channel>>
allVars == <<vars, spinnerVars>>

NoAnswer == [type |-> "none", value |-> 0]
IdleTask == [pc |-> "idle", req |-> NoMsg, reply |-> NoMsg, answer |-> NoAnswer]
Zero     == [channel |-> 0, value |-> 0]

SpinnerInit ==
    /\ Init
    /\ data_pool = Data
    /\ content = [d \in Data |-> Zero]
    /\ data = [m \in Msgs |-> NoData]
    /\ taken = [who \in {"rx", "task"} |-> NoMsg]
    /\ giving = {}
    /\ task = IdleTask
    /\ channel = [state |-> STOPPED, plan_len |-> 0]

-----------------------------------------------------------------------------
(* spinner_alloc_message and spinner_free_message                          *)

(* os_pool_alloc_take and os_pool_alloc_give are MourOS's: that one call is *)
(* atomic, so that no struct is handed out twice, is assumed here.         *)
FreeStructs == msg_pool \ {taken["rx"], taken["task"]}

TakeStruct(who) ==
    /\ taken[who] = NoMsg
    /\ \E m \in FreeStructs : taken' = [taken EXCEPT ![who] = m]
    /\ UNCHANGED <<vars, data_pool, content, data, giving, task, channel>>

(* Mutant: data is taken from either pool.                                 *)
TakeData_AnyPool(who, type) ==
    /\ taken[who] # NoMsg
    /\ \E d \in data_pool :
          /\ data_pool' = data_pool \ {d}
          /\ data' = [data EXCEPT ![taken[who]] = d]
    /\ taken' = [taken EXCEPT ![who] = NoMsg]

TakeData(who, type) ==
    /\ taken[who] # NoMsg
    /\ \E d \in data_pool \cap DataFor(type) :
          /\ data_pool' = data_pool \ {d}
          /\ data' = [data EXCEPT ![taken[who]] = d]
    /\ taken' = [taken EXCEPT ![who] = NoMsg]

(* No struct; or a struct but no data for it, and the struct is given back.*)
AllocFails(who, type) ==
    /\ IF taken[who] = NoMsg THEN FreeStructs = {} ELSE data_pool \cap DataFor(type) = {}
    /\ taken' = [taken EXCEPT ![who] = NoMsg]
    /\ UNCHANGED <<data_pool, content, data>>

GiveData(who, m) ==
    /\ who \notin giving
    /\ data_pool' = data_pool \cup {data[m]}
    /\ giving' = giving \cup {who}
    /\ UNCHANGED <<vars, content, data, taken, task, channel>>

GiveStruct(who, m) ==
    /\ who \in giving
    /\ giving' = giving \ {who}
    /\ data' = [data EXCEPT ![m] = NoData]
    /\ UNCHANGED <<data_pool, content, taken, channel>>

-----------------------------------------------------------------------------
(* The receive worker on a SPINNER frame.                                  *)

SpinnerRxAlloc ==
    \/ rx.pc = "alloc" /\ TakeStruct("rx")
    \/ /\ TakeData("rx", rx.frame.type)
       /\ RxAlloc(taken["rx"])
       /\ UNCHANGED <<content, giving, task, channel>>
    \/ /\ AllocFails("rx", rx.frame.type)
       /\ RxAllocFail
       /\ UNCHANGED <<giving, task, channel>>

(* The payload of the frame, as the parsing functions see it: a channel    *)
(* number with a count of legs or a state, or something they refuse.       *)
Parses(f) ==
    /\ f.arg.channel \in 0..255
    /\ f.type = "SET_PLAN" => f.arg.value \in 0..MaxLegs
    /\ f.type = "SET_STATE" => f.arg.value \in {RUNNING, STOPPED}

(* parse_set_plan stores the number of legs when it meets the end of the   *)
(* packet inside its loop, which a plan of MAX_SPIN_PLAN_LEGS legs leaves  *)
(* without: the count is then what the block held before.                  *)
ParsedArg(f, old) ==
    [channel |-> f.arg.channel,
     value   |-> IF f.type = "SET_PLAN" /\ f.arg.value = MaxLegs THEN old.value
                 ELSE f.arg.value]

SpinnerRxParse ==
    /\ RxParse
    /\ Parses(rx.frame)
    /\ content' = [content EXCEPT ![data[rx.msg]] = ParsedArg(rx.frame, @)]
    /\ UNCHANGED <<data_pool, data, taken, giving, task, channel>>

SpinnerRxParseFail ==
    /\ RxParseFail
    /\ ~Parses(rx.frame)
    /\ UNCHANGED spinnerVars

SpinnerRxFree ==
    /\ rx.pc = "free"
    /\ \/ GiveData("rx", rx.msg)
       \/ GiveStruct("rx", rx.msg) /\ RxFree /\ UNCHANGED task

SpinnerRxStep ==
    \/ SpinnerRxAlloc
    \/ SpinnerRxParse \/ SpinnerRxParseFail
    \/ (RxRoute \/ RxRouteFail) /\ UNCHANGED spinnerVars
    \/ SpinnerRxFree

-----------------------------------------------------------------------------
(* The transmit worker.  Only a plan may be too long for a frame: either   *)
(* its serializer finds no room, or the checksum and the end of the frame  *)
(* do not fit behind it.                                                   *)

SpinnerTxTooLong ==
    /\ \E code \in {MESSAGE_FORMATTING_ERROR, MESSAGE_TOO_LONG_ERROR} : TxSendFail(code)
    /\ msg[tx.msg].type = "PLAN_REPLY" /\ content[data[tx.msg]].value > 0

SpinnerTxFree ==
    /\ tx.pc = "free"
    /\ \/ GiveData("tx", tx.msg)
       \/ GiveStruct("tx", tx.msg) /\ TxFree /\ UNCHANGED task

SpinnerTxStep ==
    \/ /\ \/ TxOwnError \/ TxSubsystemError \/ TxMessage
          \/ TxErrorBegin \/ TxErrorEnd
          \/ TxSend \/ SpinnerTxTooLong
       /\ UNCHANGED spinnerVars
    \/ SpinnerTxFree

-----------------------------------------------------------------------------
(* The task: spinner_comm_loop and Channel::send_event.                    *)

request == msg[task.req]
asked   == content[data[task.req]]

SpinnerReceive ==
    /\ task.pc = "idle"
    /\ TaskReceive(SPINNER)
    /\ task' = [task EXCEPT !.pc = "handle", !.req = Head(incoming[SPINNER])]
    /\ UNCHANGED <<data_pool, content, data, taken, giving, channel>>

Answer(type, value) ==
    task' = [task EXCEPT !.pc = "reply", !.answer = [type |-> type, value |-> value]]

(* Mutant: a plan is taken in every state.                                 *)
SetPlan_AnyState ==
    /\ channel' = [channel EXCEPT !.plan_len = asked.value]
    /\ Answer("RET_VAL", 0)

(* set_channel_plan copies plan_len legs out of an array of RustLegs; one  *)
(* index too many is a panic, and the panic handler loops forever.         *)
SetPlan ==
    IF channel.state = STOPPED
    THEN /\ channel' = [channel EXCEPT !.plan_len = asked.value]
         /\ IF asked.value <= RustLegs THEN Answer("RET_VAL", 0)
            ELSE task' = [task EXCEPT !.pc = "panic"]
    ELSE channel' = channel /\ Answer("RET_VAL", 1)

(* Nothing leaves SPINNING_DOWN.                                           *)
SetState ==
    IF channel.state = SPINNING_DOWN
    THEN channel' = channel /\ Answer("RET_VAL", 1)
    ELSE /\ channel' = [channel EXCEPT !.state =
                CASE @ = RUNNING /\ asked.value = STOPPED -> SPINNING_DOWN
                  [] @ = STOPPED /\ asked.value = RUNNING -> RUNNING
                  [] OTHER -> @]
         /\ Answer("RET_VAL", 0)

(* Mutant: GET_PLAN is answered with the state.                            *)
SendEvent_WrongReply ==
    \/ request.type = "SET_PLAN" /\ SetPlan
    \/ request.type = "SET_STATE" /\ SetState
    \/ /\ request.type \in {"GET_PLAN", "GET_STATE"}
       /\ Answer("STATE_REPLY", channel.state) /\ UNCHANGED channel

SendEvent ==
    \/ request.type = "SET_PLAN" /\ SetPlan
    \/ request.type = "SET_STATE" /\ SetState
    \/ /\ request.type = "GET_PLAN"
       /\ Answer("PLAN_REPLY", channel.plan_len) /\ UNCHANGED channel
    \/ /\ request.type = "GET_STATE"
       /\ Answer("STATE_REPLY", channel.state) /\ UNCHANGED channel

(* A request for a channel that does not exist gets no answer at all.      *)
SpinnerHandle ==
    /\ task.pc = "handle"
    /\ IF asked.channel < NUM_CHANNELS THEN SendEvent
       ELSE task' = [task EXCEPT !.pc = "drop"] /\ UNCHANGED channel
    /\ UNCHANGED <<vars, data_pool, content, data, taken, giving>>

(* send_return_val, send_spin_plan_reply, send_spin_state_reply: without a *)
(* struct and data for it the answer is dropped silently.                  *)
SpinnerNewReply ==
    /\ task.pc = "reply"
    /\ \/ TakeStruct("task")
       \/ /\ TakeData("task", task.answer.type)
          /\ TaskNew(SPINNER, taken["task"], task.answer.type, request.transaction_id)
          /\ content' = [content EXCEPT ![data'[taken["task"]]] =
                            [channel |-> 0, value |-> task.answer.value]]
          /\ task' = [task EXCEPT !.pc = "write", !.reply = taken["task"], !.answer = NoAnswer]
          /\ UNCHANGED <<giving, channel>>
       \/ /\ AllocFails("task", task.answer.type)
          /\ task' = [task EXCEPT !.pc = "drop", !.answer = NoAnswer]
          /\ UNCHANGED <<vars, giving, channel>>

(* Mutant: into() without mem::forget, the reply is freed when sent.       *)
SpinnerWrite_Drops ==
    /\ task.pc = "write"
    /\ outgoing' = [outgoing EXCEPT ![SPINNER] = Append(@, task.reply)]
    /\ held' = [held EXCEPT ![SPINNER] = @ \ {task.reply}]
    /\ free_message(task.reply)
    /\ task' = [task EXCEPT !.pc = "drop", !.reply = NoMsg]
    /\ UNCHANGED <<incoming, out_err, disp_err, rx, tx, wireVars>>
    /\ UNCHANGED <<data_pool, content, data, taken, giving, channel>>

(* Mutant: the reply is made and turned into a struct, which nobody writes *)
(* to the queue.                                                           *)
SpinnerWrite_Forgets ==
    /\ task.pc = "write"
    /\ task' = [task EXCEPT !.pc = "drop", !.reply = NoMsg]
    /\ UNCHANGED <<vars, data_pool, content, data, taken, giving, channel>>

(* The result of the write is not looked at: a struct that found the queue *)
(* full would be lost (QueuesSuffice).                                     *)
SpinnerWrite ==
    /\ task.pc = "write"
    /\ TaskSend(SPINNER, task.reply)
    /\ task' = [task EXCEPT !.pc = "drop", !.reply = NoMsg]
    /\ UNCHANGED <<data_pool, content, data, taken, giving, channel>>

(* Mutant: spinner_free_message gives the struct back before the data.     *)
SpinnerDrop_StructFirst ==
    /\ task.pc = "drop"
    /\ \/ /\ "req" \notin giving
          /\ giving' = giving \cup {"req"}
          /\ TaskDrop(SPINNER, task.req)
          /\ UNCHANGED <<data_pool, content, data, taken, task, channel>>
       \/ /\ "req" \in giving
          /\ giving' = giving \ {"req"}
          /\ data_pool' = data_pool \cup {data[task.req]}
          /\ data' = [data EXCEPT ![task.req] = NoData]
          /\ task' = IdleTask
          /\ UNCHANGED <<vars, content, taken, channel>>

SpinnerDrop ==
    /\ task.pc = "drop"
    /\ \/ GiveData("req", task.req)
       \/ GiveStruct("req", task.req) /\ TaskDrop(SPINNER, task.req) /\ task' = IdleTask

SpinnerTaskStep ==
    \/ SpinnerReceive \/ SpinnerHandle
    \/ SpinnerNewReply \/ SpinnerWrite
    \/ SpinnerDrop

-----------------------------------------------------------------------------
SpinnerNext ==
    \/ RxFrame /\ UNCHANGED spinnerVars
    \/ SpinnerRxStep
    \/ SpinnerTxStep
    \/ SpinnerTaskStep
    \/ Transmit /\ UNCHANGED spinnerVars

SpinnerFairness ==
    /\ WF_allVars(SpinnerRxStep)
    /\ WF_allVars(SpinnerTxStep)
    /\ WF_allVars(SpinnerTaskStep)
    /\ WF_allVars(Transmit /\ UNCHANGED spinnerVars)

SpinnerSpec == SpinnerInit /\ [][SpinnerNext]_allVars /\ SpinnerFairness

-----------------------------------------------------------------------------
(* Properties                                                              *)

(* To the dispatcher, all SPINNER does are the steps Dispatcher allows a   *)
(* subsystem, although it takes and gives struct and data one by one.      *)
KeepsContract == Init /\ [][Next]_vars

(* Of the small data blocks there is always one for who has got a struct,  *)
(* whatever the receive worker, the transmit worker and the task do        *)
(* between the two halves of allocating and freeing: only plans may lack   *)
(* data.                                                                   *)
SmallDataSuffices == msg_pool # {} => data_pool \cap Smalls # {}

(* Structs in use, and whether their data is still theirs.                 *)
Freeing == (IF "rx" \in giving THEN {rx.msg} ELSE {})
           \cup (IF "tx" \in giving THEN {tx.msg} ELSE {})
           \cup (IF "req" \in giving THEN {task.req} ELSE {})
WithData == (Msgs \ msg_pool) \ Freeing

(* Every block of data is either free or belongs to exactly one struct in  *)
(* use, and is of the pool that the type of the struct calls for: data is  *)
(* never given to the wrong pool, shared, reused while read, or lost.      *)
DataOwned ==
    /\ \A m \in WithData : data[m] \in DataFor(msg[m].type) \ data_pool
    /\ \A m, n \in WithData : data[m] = data[n] => m = n
    /\ \A d \in Data \ data_pool : \E m \in WithData : data[m] = d

(* The queues are as long as the pool: posting to them never fails, and no *)
(* reply is lost by a write nobody checks.                                 *)
QueuesSuffice ==
    /\ rx.pc = "route" => Len(incoming[SPINNER]) < InboundLen
    /\ task.pc = "write" => Len(outgoing[SPINNER]) < OutboundLen

(* What is sent for a transaction answers a request made under that id:    *)
(* its type is one the request may be answered with.                       *)
MayAnswer(type) ==
    CASE type = "GET_PLAN" -> "PLAN_REPLY"
      [] type = "GET_STATE" -> "STATE_REPLY"
      [] OTHER -> "RET_VAL"
Sent == Queued(outgoing[SPINNER]) \cup (IF tx.pc = "send" THEN {tx.msg} ELSE {})
RepliesMatch ==
    \A m \in Sent : \E f \in Frames :
       /\ f.tid = msg[m].transaction_id
       /\ msg[m].type = MayAnswer(f.type)
       /\ f.arg.channel < NUM_CHANNELS

(* A plan is fixed from the moment the channel runs: no request, however   *)
(* late it is handled, changes it, and the state moves one way only.       *)
PlanFixedOnceRunning ==
    [][/\ channel.state # STOPPED => channel'.plan_len = channel.plan_len
       /\ channel'.state # channel.state =>
             <<channel.state, channel'.state>> \in
                {<<STOPPED, RUNNING>>, <<RUNNING, SPINNING_DOWN>>}]_allVars

(* A request for the channel that exists is answered: a reply under its id *)
(* is queued.  Only one thing may come instead: the task, about to answer, *)
(* finds no struct free, or has a struct and finds no data for it, and     *)
(* drops the answer silently.                                              *)
Asked(t) ==
    \E m \in Queued(incoming[SPINNER]) :
       msg[m].transaction_id = t /\ content[data[m]].channel < NUM_CHANNELS
Answered(t) == \E m \in Queued(outgoing[SPINNER]) : msg[m].transaction_id = t
NothingLeft ==
    /\ task.pc = "reply"
    /\ IF taken["task"] = NoMsg THEN FreeStructs = {}
       ELSE data_pool \cap DataFor(task.answer.type) = {}
RequestsAreAnswered == \A t \in TransIds : Asked(t) ~> (Answered(t) \/ NothingLeft)

(* MAX_SPIN_PLAN_LEGS is "the maximum number of legs any one spin plan may *)
(* contain" (src/spinner/stm32f411discovery/constants.h): a plan that the  *)
(* parser accepts does not stop the task.                                  *)
NoPanic == task.pc # "panic"

(* ... and a plan of that many legs is stored as such: the legs counted in *)
(* an accepted SET_PLAN are the legs of the frame.                         *)
LegsCounted ==
    \A m \in Queued(incoming[SPINNER]) :
       msg[m].type = "SET_PLAN" =>
          \E f \in Frames : /\ f.tid = msg[m].transaction_id /\ f.type = "SET_PLAN"
                            /\ content[data[m]].value = f.arg.value
=============================================================================
