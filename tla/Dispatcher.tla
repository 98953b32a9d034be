----------------------------- MODULE Dispatcher -----------------------------
(***************************************************************************)
(* The message dispatcher of ratfist (src/message_dispatcher.c) and the    *)
(* contract it has with the subsystems registered with it                  *)
(* (src/message_dispatcher.h, rust/src/bindings/message_dispatcher.rs).    *)
(*                                                                         *)
(* The receive worker turns a frame into a message struct taken from the   *)
(* subsystem's pool and posts it to the subsystem; the subsystem's task    *)
(* takes it, may take further structs for replies, and posts those back;   *)
(* the transmit worker scans the queues in a fixed order, writes what it   *)
(* finds to the UART's character buffer and gives the struct back.         *)
(*                                                                         *)
(* How a character stream becomes a frame is module RxFraming's subject:   *)
(* here a frame arrives whole.  A mailbox, a pool and a character buffer   *)
(* are those of the MourOS library, which is not part of the repository;   *)
(* each of their calls is one step.                                        *)
(***************************************************************************)
EXTENDS Integers, Sequences, FiniteSets

CONSTANTS
    Order,              \* subsystem_configurations[]: the names, as registered
    Msgs,               \* message structs, of all the pools together
    SubsystemOf,        \* [Msgs -> Subsystems]: the pool a struct belongs to
    MsgTypes,           \* message types that have a name in message_handlers[]
    Parsed,             \* ... those with a parsing_func
    Serialized,         \* ... those with a serialization_func
    TransIds,           \* transaction ids
    Frames,             \* the frames a host may send
    WithErrQueue,       \* subsystems whose outgoing_err_queue is not NULL
    WithOutQueue,       \* subsystems whose outgoing_msg_queue is not NULL
    TaskErrors,         \* error codes a subsystem reports of itself
    InboundLen,         \* capacity of an incoming_msg_queue
    OutboundLen,        \* capacity of an outgoing_msg_queue
    OutboundErrLen,     \* capacity of an outgoing_err_queue
    DispErrLen,         \* MAX_DISPATCHER_ERROR_MESSAGES
    TxBufferLen,        \* capacity of bsp_tx_buffer, in half frames
    NoMsg, NoFrame

Subsystems == {Order[i] : i \in 1..Len(Order)}

ASSUME OrderAssumption ==
    /\ Order \in Seq(STRING) /\ Order # <<>>
    /\ \A i, j \in 1..Len(Order) : Order[i] = Order[j] => i = j
ASSUME MsgsAssumption ==
    /\ IsFiniteSet(Msgs) /\ NoMsg \notin Msgs
    /\ SubsystemOf \in [Msgs -> Subsystems]
ASSUME HandlersAssumption == Parsed \subseteq MsgTypes /\ Serialized \subseteq MsgTypes
ASSUME FramesAssumption ==
    /\ NoFrame \notin Frames
    /\ \A f \in Frames : DOMAIN f = {"tid", "sub", "type", "arg"}
ASSUME QueuesAssumption ==
    /\ WithErrQueue \subseteq Subsystems /\ WithOutQueue \subseteq Subsystems
    /\ InboundLen \in Nat /\ OutboundLen \in Nat
    /\ OutboundErrLen \in Nat /\ DispErrLen \in Nat
    /\ TxBufferLen \in Nat \ {0}

NO_ERROR                      == 0
MESSAGE_PARSING_ERROR         == -2
MESSAGE_FORMATTING_ERROR      == -3
MEM_ALLOC_ERROR               == -4
MESSAGE_ROUTING_ERROR         == -5
UNKNOWN_SUBSYSTEM_ERROR       == -6
UNKNOWN_MESSAGE_TYPE_ERROR    == -7
MISSING_MESSAGE_HANDLER_ERROR == -8
TX_BUFFER_FULL                == -9
MESSAGE_TOO_LONG_ERROR        == -11

ErrorCodes == -11 .. -1

VARIABLES
    msg_pool,           \* free message structs of all subsystems
    msg,                \* [Msgs -> contents of the struct]
    incoming,           \* [Subsystems -> incoming_msg_queue]
    outgoing,           \* [Subsystems -> outgoing_msg_queue]
    out_err,            \* [Subsystems -> outgoing_err_queue]
    disp_err,           \* disp_err_msg_queue
    rx,                 \* the receive worker: pc, the frame and struct in hand
    tx,                 \* the transmit worker: pc, position of its scan, struct in hand
    held,               \* [Subsystems -> structs in the hands of the task]
    tx_char_buffer,     \* bsp_tx_buffer: half frames not transmitted yet
    line                \* the last half frame the UART has put on the wire

rxVars   == <<rx, incoming>>
taskVars == <<held, outgoing, out_err>>
wireVars == <<tx_char_buffer, line>>
vars == <<msg_pool, msg, incoming, outgoing, out_err, disp_err, rx, tx, held,
          tx_char_buffer, line>>

(* A free struct belongs to the pool allocator, which keeps its list of    *)
(* free blocks in them: nobody may read what a struct held before.         *)
Scrap == [type |-> "scrap", transaction_id |-> "scrap"]

IdleRx == [pc |-> "idle", frame |-> NoFrame, msg |-> NoMsg]
IdleTx == [pc |-> "own", pos |-> 1, msg |-> NoMsg]

Half(kind, part) == [kind |-> kind, part |-> part]
Halves == [kind : {"err", "msg"}, part : {"begin", "end"}]
IdleLine == Half("err", "end")       \* the wire before anything was sent

Contents == [type : MsgTypes, transaction_id : TransIds]

TypeOK ==
    /\ msg_pool \subseteq Msgs
    /\ msg \in [Msgs -> Contents \cup {Scrap}]
    /\ incoming \in [Subsystems -> Seq(Msgs)]
    /\ outgoing \in [Subsystems -> Seq(Msgs)]
    /\ out_err \in [Subsystems -> Seq(TaskErrors)]
    /\ disp_err \in Seq(ErrorCodes)
    /\ rx \in [pc : {"idle", "alloc", "parse", "route", "free"},
               frame : Frames \cup {NoFrame}, msg : Msgs \cup {NoMsg}]
    /\ tx \in [pc : {"own", "errs", "msgs", "err_begin", "err_end", "send", "free"},
               pos : 1..Len(Order), msg : Msgs \cup {NoMsg}]
    /\ held \in [Subsystems -> SUBSET Msgs]
    /\ tx_char_buffer \in Seq(Halves)
    /\ line \in Halves

Init ==
    /\ msg_pool = Msgs
    /\ msg = [m \in Msgs |-> Scrap]
    /\ incoming = [s \in Subsystems |-> <<>>]
    /\ outgoing = [s \in Subsystems |-> <<>>]
    /\ out_err = [s \in Subsystems |-> <<>>]
    /\ disp_err = <<>>
    /\ rx = IdleRx
    /\ tx = IdleTx
    /\ held = [s \in Subsystems |-> {}]
    /\ tx_char_buffer = <<>>
    /\ line = IdleLine

-----------------------------------------------------------------------------
(* What both workers use.                                                  *)

Posted(queue, x, len) == IF Len(queue) < len THEN Append(queue, x) ELSE queue

(* An error that finds the queue full is lost: no caller looks at the      *)
(* result.                                                                 *)
schedule_err_message(code) == disp_err' = Posted(disp_err, code, DispErrLen)

alloc_message(m, type, tid) ==
    /\ m \in msg_pool
    /\ msg_pool' = msg_pool \ {m}
    /\ msg' = [msg EXCEPT ![m] = [type |-> type, transaction_id |-> tid]]

free_message(m) ==
    /\ msg_pool' = msg_pool \cup {m}
    /\ msg' = [msg EXCEPT ![m] = Scrap]

-----------------------------------------------------------------------------
(* The receive worker: process_incoming_message.                           *)

(* The checks made before anything is allocated, in the code's order.      *)
Verdict(f) ==
    IF f.tid \notin TransIds \/ "missing" \in {f.sub, f.type} THEN MESSAGE_PARSING_ERROR
    ELSE IF f.sub \notin Subsystems THEN UNKNOWN_SUBSYSTEM_ERROR
    ELSE IF f.type \notin MsgTypes THEN UNKNOWN_MESSAGE_TYPE_ERROR
    ELSE IF f.type \notin Parsed THEN MISSING_MESSAGE_HANDLER_ERROR
    ELSE NO_ERROR

RxReject(f) ==
    /\ rx.pc = "idle"
    /\ Verdict(f) # NO_ERROR
    /\ schedule_err_message(Verdict(f))
    /\ UNCHANGED <<msg_pool, msg, rxVars, taskVars, tx, wireVars>>

RxAccept(f) ==
    /\ rx.pc = "idle"
    /\ Verdict(f) = NO_ERROR
    /\ rx' = [rx EXCEPT !.pc = "alloc", !.frame = f]
    /\ UNCHANGED <<msg_pool, msg, incoming, disp_err, taskVars, tx, wireVars>>

RxAlloc(m) ==
    /\ rx.pc = "alloc"
    /\ SubsystemOf[m] = rx.frame.sub
    /\ alloc_message(m, rx.frame.type, rx.frame.tid)
    /\ rx' = [rx EXCEPT !.pc = "parse", !.msg = m]
    /\ UNCHANGED <<incoming, disp_err, taskVars, tx, wireVars>>

(* alloc_message may fail for reasons of the subsystem's own.              *)
RxAllocFail ==
    /\ rx.pc = "alloc"
    /\ schedule_err_message(MEM_ALLOC_ERROR)
    /\ rx' = IdleRx
    /\ UNCHANGED <<msg_pool, msg, incoming, taskVars, tx, wireVars>>

RxParse ==
    /\ rx.pc = "parse"
    /\ rx' = [rx EXCEPT !.pc = "route"]
    /\ UNCHANGED <<msg_pool, msg, incoming, disp_err, taskVars, tx, wireVars>>

RxParseFail ==
    /\ rx.pc = "parse"
    /\ schedule_err_message(MESSAGE_PARSING_ERROR)
    /\ rx' = [rx EXCEPT !.pc = "free"]
    /\ UNCHANGED <<msg_pool, msg, incoming, taskVars, tx, wireVars>>

(* Mutant: the return after a successful write is missing.                 *)
RxRoute_FreesToo ==
    LET s == rx.frame.sub IN
    /\ rx.pc = "route"
    /\ Len(incoming[s]) < InboundLen
    /\ incoming' = [incoming EXCEPT ![s] = Append(@, rx.msg)]
    /\ rx' = [rx EXCEPT !.pc = "free"]
    /\ UNCHANGED <<msg_pool, msg, disp_err, taskVars, tx, wireVars>>

RxRoute ==
    LET s == rx.frame.sub IN
    /\ rx.pc = "route"
    /\ Len(incoming[s]) < InboundLen
    /\ incoming' = [incoming EXCEPT ![s] = Append(@, rx.msg)]
    /\ rx' = IdleRx
    /\ UNCHANGED <<msg_pool, msg, disp_err, taskVars, tx, wireVars>>

RxRouteFail ==
    /\ rx.pc = "route"
    /\ Len(incoming[rx.frame.sub]) >= InboundLen
    /\ schedule_err_message(MESSAGE_ROUTING_ERROR)
    /\ rx' = [rx EXCEPT !.pc = "free"]
    /\ UNCHANGED <<msg_pool, msg, incoming, taskVars, tx, wireVars>>

RxFree ==
    /\ rx.pc = "free"
    /\ free_message(rx.msg)
    /\ rx' = IdleRx
    /\ UNCHANGED <<incoming, disp_err, taskVars, tx, wireVars>>

RxStep ==
    \/ \E m \in Msgs : RxAlloc(m)
    \/ RxAllocFail
    \/ RxParse \/ RxParseFail
    \/ RxRoute \/ RxRouteFail
    \/ RxFree

-----------------------------------------------------------------------------
(* What a subsystem's task may do with the message structs, in any order.  *)

TaskReceive(s) ==
    /\ incoming[s] # <<>>
    /\ held' = [held EXCEPT ![s] = @ \cup {Head(incoming[s])}]
    /\ incoming' = [incoming EXCEPT ![s] = Tail(@)]
    /\ UNCHANGED <<msg_pool, msg, outgoing, out_err, disp_err, rx, tx, wireVars>>

TaskNew(s, m, type, tid) ==
    /\ SubsystemOf[m] = s
    /\ alloc_message(m, type, tid)
    /\ held' = [held EXCEPT ![s] = @ \cup {m}]
    /\ UNCHANGED <<incoming, outgoing, out_err, disp_err, rx, tx, wireVars>>

TaskSend(s, m) ==
    /\ m \in held[s]
    /\ Len(outgoing[s]) < OutboundLen
    /\ outgoing' = [outgoing EXCEPT ![s] = Append(@, m)]
    /\ held' = [held EXCEPT ![s] = @ \ {m}]
    /\ UNCHANGED <<msg_pool, msg, incoming, out_err, disp_err, rx, tx, wireVars>>

TaskDrop(s, m) ==
    /\ m \in held[s]
    /\ free_message(m)
    /\ held' = [held EXCEPT ![s] = @ \ {m}]
    /\ UNCHANGED <<incoming, outgoing, out_err, disp_err, rx, tx, wireVars>>

TaskReport(s, code) ==
    /\ s \in WithErrQueue
    /\ out_err' = [out_err EXCEPT ![s] = Posted(@, code, OutboundErrLen)]
    /\ UNCHANGED <<msg_pool, msg, incoming, outgoing, disp_err, rx, tx, held, wireVars>>

TaskStep(s) ==
    \/ TaskReceive(s)
    \/ \E m \in Msgs, type \in MsgTypes, tid \in TransIds : TaskNew(s, m, type, tid)
    \/ \E m \in Msgs : s \in WithOutQueue /\ TaskSend(s, m)
    \/ \E m \in Msgs : TaskDrop(s, m)
    \/ \E code \in TaskErrors : TaskReport(s, code)

-----------------------------------------------------------------------------
(* The transmit worker: check_outgoing_queue reads one queue after the     *)
(* other, so what arrives in a queue behind the scan waits for the next.   *)

Scanned == Order[tx.pos]
(* Mutant: the scan runs one queue too far.                                *)
NextQueue_OneTooFar(pc) ==
    IF tx.pos <= Len(Order) THEN [tx EXCEPT !.pos = @ + 1]
    ELSE [tx EXCEPT !.pc = pc, !.pos = 1]

NextQueue(pc) ==
    IF tx.pos < Len(Order) THEN [tx EXCEPT !.pos = @ + 1]
    ELSE [tx EXCEPT !.pc = pc, !.pos = 1]

TxOwnError ==
    /\ tx.pc = "own"
    /\ IF disp_err # <<>>
       THEN disp_err' = Tail(disp_err) /\ tx' = [tx EXCEPT !.pc = "err_begin"]
       ELSE disp_err' = disp_err       /\ tx' = [tx EXCEPT !.pc = "errs"]
    /\ UNCHANGED <<msg_pool, msg, rxVars, taskVars, wireVars>>

(* Mutant: the scan ends at a subsystem without an error queue.            *)
TxSubsystemError_StopsAtNull ==
    /\ tx.pc = "errs"
    /\ IF Scanned \in WithErrQueue /\ out_err[Scanned] # <<>>
       THEN /\ out_err' = [out_err EXCEPT ![Scanned] = Tail(@)]
            /\ tx' = [tx EXCEPT !.pc = "err_begin"]
       ELSE /\ out_err' = out_err
            /\ tx' = IF Scanned \in WithErrQueue THEN NextQueue("msgs") ELSE IdleTx
    /\ UNCHANGED <<msg_pool, msg, rxVars, held, outgoing, disp_err, wireVars>>

TxSubsystemError ==
    /\ tx.pc = "errs"
    /\ IF Scanned \in WithErrQueue /\ out_err[Scanned] # <<>>
       THEN /\ out_err' = [out_err EXCEPT ![Scanned] = Tail(@)]
            /\ tx' = [tx EXCEPT !.pc = "err_begin"]
       ELSE out_err' = out_err /\ tx' = NextQueue("msgs")
    /\ UNCHANGED <<msg_pool, msg, rxVars, held, outgoing, disp_err, wireVars>>

(* Mutant: the message is looked at but not taken out of its queue.        *)
TxMessage_Peeks ==
    /\ tx.pc = "msgs"
    /\ IF Scanned \in WithOutQueue /\ outgoing[Scanned] # <<>>
       THEN tx' = [tx EXCEPT !.pc = "send", !.msg = Head(outgoing[Scanned])]
       ELSE tx' = NextQueue("own")
    /\ UNCHANGED <<msg_pool, msg, rxVars, taskVars, disp_err, wireVars>>

(* Mutant: the message is handled with the configuration of the first      *)
(* subsystem.                                                              *)
TxMessage_FirstConf ==
    /\ tx.pc = "msgs"
    /\ IF Scanned \in WithOutQueue /\ outgoing[Scanned] # <<>>
       THEN /\ outgoing' = [outgoing EXCEPT ![Scanned] = Tail(@)]
            /\ tx' = [pc |-> "send", pos |-> 1, msg |-> Head(outgoing[Scanned])]
       ELSE outgoing' = outgoing /\ tx' = NextQueue("own")
    /\ UNCHANGED <<msg_pool, msg, rxVars, held, out_err, disp_err, wireVars>>

(* After the last queue the worker sleeps and starts over.                 *)
TxMessage ==
    /\ tx.pc = "msgs"
    /\ IF Scanned \in WithOutQueue /\ outgoing[Scanned] # <<>>
       THEN /\ outgoing' = [outgoing EXCEPT ![Scanned] = Tail(@)]
            /\ tx' = [tx EXCEPT !.pc = "send", !.msg = Head(outgoing[Scanned])]
       ELSE outgoing' = outgoing /\ tx' = NextQueue("own")
    /\ UNCHANGED <<msg_pool, msg, rxVars, held, out_err, disp_err, wireVars>>

(* Mutant: error frames are written as far as there is room.               *)
TxWriteError_NonBlocking(part, next) ==
    /\ tx_char_buffer' = Posted(tx_char_buffer, Half("err", part), TxBufferLen)
    /\ tx' = next
    /\ UNCHANGED <<msg_pool, msg, rxVars, taskVars, disp_err, line>>

(* process_outgoing_err_message blocks until all of the frame is in the    *)
(* character buffer.                                                       *)
TxWriteError(part, next) ==
    /\ Len(tx_char_buffer) < TxBufferLen
    /\ tx_char_buffer' = Append(tx_char_buffer, Half("err", part))
    /\ tx' = next
    /\ UNCHANGED <<msg_pool, msg, rxVars, taskVars, disp_err, line>>

TxErrorBegin == tx.pc = "err_begin" /\ TxWriteError("begin", [tx EXCEPT !.pc = "err_end"])
(* Mutant: after an error frame the scan goes on with the subsystems.      *)
TxErrorEnd_GoesOn == tx.pc = "err_end" /\ TxWriteError("end", [IdleTx EXCEPT !.pc = "errs"])

TxErrorEnd   == tx.pc = "err_end"   /\ TxWriteError("end", IdleTx)

(* process_outgoing_message: the frame is written as far as there is room. *)
TxFrame == <<Half("msg", "begin"), Half("msg", "end")>>
TxRoom  == TxBufferLen - Len(tx_char_buffer)

(* Mutant: a short write goes unnoticed.                                   *)
TxSend_Unnoticed ==
    /\ tx.pc = "send"
    /\ msg[tx.msg].type \in Serialized
    /\ tx_char_buffer' = tx_char_buffer \o SubSeq(TxFrame, 1, IF TxRoom < 2 THEN TxRoom ELSE 2)
    /\ tx' = [tx EXCEPT !.pc = "free"]
    /\ UNCHANGED <<msg_pool, msg, rxVars, taskVars, disp_err, line>>

TxSend ==
    /\ tx.pc = "send"
    /\ msg[tx.msg].type \in Serialized
    /\ tx_char_buffer' = tx_char_buffer \o SubSeq(TxFrame, 1, IF TxRoom < 2 THEN TxRoom ELSE 2)
    /\ IF TxRoom < 2 THEN schedule_err_message(TX_BUFFER_FULL) ELSE disp_err' = disp_err
    /\ tx' = [tx EXCEPT !.pc = "free"]
    /\ UNCHANGED <<msg_pool, msg, rxVars, taskVars, line>>

(* The message has no serialization function, the function fails, or the   *)
(* frame does not fit BSP_MAX_MESSAGE_LENGTH.                              *)
TxSendFail(code) ==
    /\ tx.pc = "send"
    /\ IF msg[tx.msg].type \in Serialized
       THEN code \in {MESSAGE_FORMATTING_ERROR, MESSAGE_TOO_LONG_ERROR}
       ELSE code = MISSING_MESSAGE_HANDLER_ERROR
    /\ schedule_err_message(code)
    /\ tx' = [tx EXCEPT !.pc = "free"]
    /\ UNCHANGED <<msg_pool, msg, rxVars, taskVars, wireVars>>

TxFree ==
    /\ tx.pc = "free"
    /\ free_message(tx.msg)
    /\ tx' = IdleTx
    /\ UNCHANGED <<rxVars, taskVars, disp_err, wireVars>>

TxStep ==
    \/ TxOwnError \/ TxSubsystemError \/ TxMessage
    \/ TxErrorBegin \/ TxErrorEnd
    \/ TxSend \/ \E code \in ErrorCodes : TxSendFail(code)
    \/ TxFree

-----------------------------------------------------------------------------
(* The UART's interrupt handler empties the character buffer.              *)
Transmit ==
    /\ tx_char_buffer # <<>>
    /\ line' = Head(tx_char_buffer)
    /\ tx_char_buffer' = Tail(tx_char_buffer)
    /\ UNCHANGED <<msg_pool, msg, rxVars, taskVars, disp_err, tx>>

RxFrame == \E f \in Frames : RxReject(f) \/ RxAccept(f)

Next ==
    \/ RxFrame \/ RxStep
    \/ \E s \in Subsystems : TaskStep(s)
    \/ TxStep
    \/ Transmit

(* The workers are tasks the scheduler keeps running and the interrupt     *)
(* handler runs as long as there is something to transmit.  Nothing is     *)
(* assumed of the host nor of the subsystems.                              *)
Fairness == WF_vars(RxStep) /\ WF_vars(TxStep) /\ WF_vars(Transmit)

Spec == Init /\ [][Next]_vars /\ Fairness

-----------------------------------------------------------------------------
(* Ownership.  A message struct is somewhere: in its pool, in the hands of *)
(* a worker or a task, or in a queue between two of them.                  *)

Queued(q) == {q[i] : i \in 1..Len(q)}
NoDuplicates(q) == \A i, j \in 1..Len(q) : q[i] = q[j] => i = j

Places == {<<"pool">>, <<"rx">>, <<"tx">>}
          \cup {"incoming", "held", "outgoing"} \X Subsystems

At(m, p) ==
    CASE p[1] = "pool"     -> m \in msg_pool
      [] p[1] = "rx"       -> rx.msg = m
      [] p[1] = "tx"       -> tx.msg = m
      [] p[1] = "incoming" -> m \in Queued(incoming[p[2]])
      [] p[1] = "held"     -> m \in held[p[2]]
      [] p[1] = "outgoing" -> m \in Queued(outgoing[p[2]])

(* Every struct is in exactly one place, and in a queue at most once: no   *)
(* two parties work on one struct, none is given back twice, none is lost, *)
(* whatever the order in which the workers and the tasks run.              *)
OneOwner ==
    /\ \A m \in Msgs : \E p \in Places : At(m, p)
    /\ \A m \in Msgs : \A p, q \in Places : At(m, p) /\ At(m, q) => p = q
    /\ \A s \in Subsystems : NoDuplicates(incoming[s]) /\ NoDuplicates(outgoing[s])

(* A struct is only ever in the queues and hands of the subsystem whose    *)
(* pool it came from: the workers free it with that subsystem's function.  *)
OwnPool ==
    /\ \A s \in Subsystems :
          \A m \in Queued(incoming[s]) \cup held[s] \cup Queued(outgoing[s]) :
             SubsystemOf[m] = s
    /\ rx.msg # NoMsg => SubsystemOf[rx.msg] = rx.frame.sub
    /\ tx.msg # NoMsg => SubsystemOf[tx.msg] = Scanned

(* The hand-overs of module Ownership are all there is to a struct's life. *)
Owner == [m \in Msgs |-> CHOOSE p \in Places : At(m, p)]
Life == INSTANCE Ownership WITH owner <- Owner
HandOvers == Life!Spec

(* What the host receives: error frames are never cut short nor mixed with *)
(* another frame, because they alone are written blocking.                 *)
Stream == <<line>> \o tx_char_buffer
ErrorFramesWhole ==
    /\ \A i \in 1..Len(Stream) - 1 :
          (Stream[i] = Half("err", "begin")) => (Stream[i + 1] = Half("err", "end"))
    /\ (Stream[Len(Stream)] = Half("err", "begin")) <=> (tx.pc = "err_end")

(* A message frame that was cut short because the buffer was full is made  *)
(* known: the host gets an error frame later, even when the notice itself  *)
(* found the error queue full.                                             *)
CutShort ==
    /\ line = Half("msg", "begin")
    /\ tx_char_buffer # <<>> => Head(tx_char_buffer) # Half("msg", "end")
CutShortIsReported == CutShort ~> (line = Half("err", "end"))

(* The dispatcher's own errors go first, so no load on the subsystems      *)
(* keeps them back: their queue does not stay full, losing every error.    *)
OwnErrorsLeave == (Len(disp_err) = DispErrLen) ~> (Len(disp_err) < DispErrLen)

(* Once the host and the tasks produce nothing new, the workers finish:    *)
(* every queue towards the UART runs empty and neither worker holds on to  *)
(* a struct.  (Under a permanent load the fixed order of the scan may keep *)
(* a queue waiting forever.)                                               *)
NewWork ==
    \/ RxFrame
    \/ \E s \in Subsystems :
          \/ \E m \in Msgs, type \in MsgTypes, tid \in TransIds : TaskNew(s, m, type, tid)
          \/ \E code \in TaskErrors : TaskReport(s, code)
Drained ==
    /\ rx = IdleRx /\ tx.msg = NoMsg /\ disp_err = <<>>
    /\ \A s \in Subsystems : outgoing[s] = <<>> /\ out_err[s] = <<>>
Drains == <>[][~NewWork]_vars => <>[]Drained
=============================================================================
