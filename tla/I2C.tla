--------------------------------- MODULE I2C ---------------------------------
(***************************************************************************)
(* The I2C driver of rust/src/bsp/i2c: run_transaction of mod.rs, which a  *)
(* task calls and which polls until the state is Done, the event and error *)
(* interrupt handlers of i2c_v1.rs, which advance that state, and the      *)
(* peripheral between them.                                                *)
(*                                                                         *)
(* The peripheral and the device on the bus are no code of the repository: *)
(* they are modelled as far as the driver looks at them, from the comments *)
(* of the event handler on the flags.  An interrupt that was raised stays  *)
(* pending until its handler runs, also when its cause is gone meanwhile.  *)
(* The handlers do not preempt each other, either goes first when both are *)
(* pending (Board has what the priorities say), and a task runs only while *)
(* no interrupt is pending.                                                *)
(***************************************************************************)
EXTENDS Integers, Sequences, FiniteSets

CONSTANTS
    Tasks,          \* the tasks that call run_transaction
    Programs,       \* the transactions they ask for: sequences of steps
    Faults,         \* what goes wrong on the bus: "address", "data", "bus"
    Prompt,         \* does the event handler, if called, run within a byte's time?
    NoTransaction   \* ctx.current_transaction is None

Transactions ==
    [owner : Tasks, steps : Programs, curr : Nat \ {0}, buf : Seq(Seq(Nat))]
Steps == [dir : {"Read", "Write"}, len : Nat \ {0}]

ASSUME I2CAssumption ==
    /\ Programs \subseteq Seq(Steps) \ {<<>>}
    /\ Faults \subseteq {"address", "data", "bus"}
    /\ Prompt \in BOOLEAN
    /\ NoTransaction \notin Transactions

VARIABLES
    pc,         \* where each task is: outside, or in a part of run_transaction
    result,     \* what its last run_transaction returned
    trans,      \* ctx.current_transaction, with its buffers
    state,      \* ctx.state
    cr1,        \* the bits of the control register CR1 that are set
    itbufen,    \* buffer interrupts enabled: a bit of CR2, which survives a reset
    sr1,        \* the flags of the status register SR1 that are set
    dr, sh,     \* data register and shift register: number of the byte in it, or 0
    bus,        \* what the peripheral is doing on the bus
    seen,       \* has the event handler run since the last byte arrived?
    pend,       \* interrupts pending
    wire,       \* history: what went over the wire for this transaction
    fault       \* history: a fault happened before this transaction was done

regs == <<cr1, itbufen, sr1, dr, sh, bus>>
vars == <<pc, result, trans, state, regs, seen, pend, wire, fault>>

StartBitSet     == [at |-> "StartBitSet", n |-> 0]
AddressSent     == [at |-> "AddressSent", n |-> 0]
Transmitting(n) == [at |-> "Transmitting", n |-> n]
Receiving(n)    == [at |-> "Receiving", n |-> n]
Done(ret)       == [at |-> "Done", n |-> ret]

Errors == {"AF", "ARLO", "BERR"}

Cur == trans.steps[trans.curr]
OnLastStep == trans.curr >= Len(trans.steps)

(* The interrupt lines for flags f with buffer interrupts enabled or not.  *)
EventLine(f, b) ==
    f \cap ({"SB", "ADDR", "BTF"} \cup IF b THEN {"TXE", "RXNE"} ELSE {}) # {}
Lines(f, b) ==
    {i \in {"event", "error"} :
        IF i = "event" THEN EventLine(f, b) ELSE f \cap Errors # {}}
(* A step that serves the interrupts i leaves those pending whose line is  *)
(* high afterwards.                                                        *)
Serves(i) == pend' = (pend \ i) \cup Lines(sr1', itbufen')

(* Interrupts are masked while a task is in a critical section.            *)
Masked == \E t \in Tasks : pc[t] \in {"begin", "poll"}

-----------------------------------------------------------------------------
(* run_transaction.                                                        *)

(* What peripheral_init leaves behind: no transfer, no buffer interrupts.  *)
PeripheralInit ==
    cr1 = {} /\ itbufen = FALSE /\ sr1 = {} /\ dr = 0 /\ sh = 0 /\ bus = "free"

Init ==
    /\ pc = [t \in Tasks |-> "outside"]
    /\ result = [t \in Tasks |-> "none"]
    /\ trans = NoTransaction
    /\ state = Done(0)
    /\ PeripheralInit
    /\ seen = TRUE /\ pend = {} /\ wire = <<>> /\ fault = FALSE

Enter(t, from, to) ==
    /\ pc[t] = from /\ pend = {} /\ ~Masked
    /\ pc' = [pc EXCEPT ![t] = to]
    /\ UNCHANGED <<result, trans, state, regs, seen, pend, wire, fault>>

Call(t) == Enter(t, "outside", "begin")

(* Mutant: run_transaction looks at the state only.                        *)
Busy_StateOnly == state.at # "Done"

Busy == trans # NoTransaction \/ state.at # "Done"

Return(t, r) ==
    /\ pc' = [pc EXCEPT ![t] = "outside"]
    /\ result' = [result EXCEPT ![t] = r]

(* The software reset: everything in the peripheral but CR2, the timing    *)
(* and the enable bit is lost.                                             *)
Reset ==
    /\ sr1' = {} /\ dr' = 0 /\ sh' = 0 /\ bus' = "free"
    /\ UNCHANGED itbufen

Begin(t, p) ==
    /\ pc[t] = "begin" /\ ~Busy
    /\ Reset /\ cr1' = {"START"}
    /\ trans' = [owner |-> t, steps |-> p, curr |-> 1,
                 buf |-> [i \in DOMAIN p |-> [k \in 1..p[i].len |-> 0]]]
    /\ state' = StartBitSet
    /\ pc' = [pc EXCEPT ![t] = "wait"]
    /\ seen' = TRUE /\ wire' = <<>> /\ fault' = FALSE
    /\ Serves({})
    /\ UNCHANGED result

Refuse(t) ==
    /\ pc[t] = "begin" /\ Busy
    /\ Return(t, "Err")
    /\ UNCHANGED <<trans, state, regs, seen, pend, wire, fault>>

Poll(t) == Enter(t, "wait", "poll")

PollAgain(t) ==
    /\ pc[t] = "poll" /\ state.at # "Done"
    /\ pc' = [pc EXCEPT ![t] = "wait"]
    /\ UNCHANGED <<result, trans, state, regs, seen, pend, wire, fault>>

PollOk(t) ==
    /\ pc[t] = "poll" /\ state = Done(0)
    /\ trans' = NoTransaction
    /\ Return(t, "Ok")
    /\ UNCHANGED <<state, regs, seen, pend, wire, fault>>

(* deblock_bus takes the pins from the peripheral, clocks nine pulses and  *)
(* initialises the peripheral again.                                       *)
PollErr(t) ==
    /\ pc[t] = "poll" /\ state.at = "Done" /\ state # Done(0)
    /\ trans' = NoTransaction
    /\ Reset /\ cr1' = {}
    /\ Serves({})
    /\ Return(t, "Err")
    /\ UNCHANGED <<state, seen, wire, fault>>

Task(t) ==
    \/ Call(t) \/ (\E p \in Programs : Begin(t, p)) \/ Refuse(t)
    \/ Poll(t) \/ PollAgain(t) \/ PollOk(t) \/ PollErr(t)

-----------------------------------------------------------------------------
(* rust_i2c_interrupt_handler: one action per branch.                      *)

(* Mutant: the last byte of a Write counts as sent before BTF is set.      *)
Ready_NoBtf ==
    /\ trans # NoTransaction
    /\ CASE state.at = "StartBitSet" -> "SB" \in sr1
         [] state.at = "AddressSent" -> "ADDR" \in sr1
         [] state.at = "Transmitting" -> "TXE" \in sr1
         [] state.at = "Receiving" ->
                (IF state.n = Cur.len - 2 THEN "BTF" ELSE "RXNE") \in sr1
         [] state.at = "Done" -> FALSE

(* The flag the handler waits for in this state.                           *)
Ready ==
    /\ trans # NoTransaction
    /\ CASE state.at = "StartBitSet" -> "SB" \in sr1
         [] state.at = "AddressSent" -> "ADDR" \in sr1
         [] state.at = "Transmitting" ->
                "TXE" \in sr1 /\ (state.n >= Cur.len => "BTF" \in sr1)
         [] state.at = "Receiving" ->
                (IF state.n = Cur.len - 2 THEN "BTF" ELSE "RXNE") \in sr1
         [] state.at = "Done" -> FALSE

(* Mutant: the acknowledge bit is left alone until the last byte is there. *)
Ignore_KeepsAck ==
    /\ ~Ready
    /\ UNCHANGED <<trans, state, cr1, itbufen, sr1, dr, sh, bus, wire>>

(* The handler returns; on its way it may disable the acknowledge bit.     *)
Ignore ==
    /\ ~Ready
    /\ cr1' = IF /\ trans # NoTransaction /\ state.at = "Receiving"
                 /\ state.n = Cur.len - 2 /\ "RXNE" \in sr1
              THEN cr1 \ {"ACK"} ELSE cr1
    /\ UNCHANGED <<trans, state, itbufen, sr1, dr, sh, bus, wire>>

SendAddress ==
    /\ Ready /\ state = StartBitSet
    /\ state' = AddressSent
    /\ sr1' = sr1 \ {"SB"} /\ bus' = "address"
    /\ wire' = Append(wire, [dir |-> Cur.dir, acks |-> <<>>])
    /\ UNCHANGED <<trans, cr1, itbufen, dr, sh>>

BeginRead ==
    /\ Ready /\ state = AddressSent /\ Cur.dir = "Read"
    /\ cr1' = CASE Cur.len = 1 -> cr1 \ {"ACK"}
                [] Cur.len = 2 -> (cr1 \ {"ACK"}) \cup {"POS"}
                [] Cur.len > 2 -> cr1 \cup {"ACK"}
    /\ itbufen' = (itbufen \/ Cur.len # 2)
    /\ sr1' = sr1 \ {"ADDR"}
    /\ state' = Receiving(0)
    /\ UNCHANGED <<trans, dr, sh, bus, wire>>

(* A byte written to an idle transmitter moves on to the shift register.   *)
SendData(k) ==
    IF sh = 0 THEN sh' = k /\ dr' = 0 /\ sr1' = (sr1 \ {"ADDR", "BTF"}) \cup {"TXE"}
              ELSE sh' = sh /\ dr' = k /\ sr1' = sr1 \ {"TXE", "BTF"}

BeginWrite ==
    /\ Ready /\ state = AddressSent /\ Cur.dir = "Write"
    /\ SendData(1)
    /\ itbufen' = (itbufen \/ Cur.len >= 2)
    /\ state' = Transmitting(1)
    /\ UNCHANGED <<trans, cr1, bus, wire>>

(* Mutant: the position is compared one byte too late.                     *)
SendByte_OneTooFar ==
    /\ Ready /\ state.at = "Transmitting" /\ state.n <= Cur.len
    /\ SendData(state.n + 1)
    /\ state' = Transmitting(state.n + 1)
    /\ UNCHANGED <<trans, cr1, itbufen, bus, wire>>

SendByte ==
    /\ Ready /\ state.at = "Transmitting" /\ state.n < Cur.len
    /\ SendData(state.n + 1)
    /\ state' = Transmitting(state.n + 1)
    /\ UNCHANGED <<trans, cr1, itbufen, bus, wire>>

(* A step is over: stop, or start the next one.                            *)
EndStep(bits) ==
    IF OnLastStep
    THEN cr1' = bits \cup {"STOP"} /\ state' = Done(0)
    ELSE cr1' = bits \cup {"START"} /\ state' = StartBitSet

NextStep == IF OnLastStep THEN trans.curr ELSE trans.curr + 1

(* Mutant: after the last step no stop condition is asked for.             *)
EndWrite_NoStop ==
    /\ Ready /\ state.at = "Transmitting" /\ state.n >= Cur.len
    /\ IF OnLastStep THEN cr1' = cr1 /\ state' = Done(0) ELSE EndStep(cr1)
    /\ trans' = [trans EXCEPT !.curr = NextStep]
    /\ itbufen' = FALSE
    /\ UNCHANGED <<sr1, dr, sh, bus, wire>>

EndWrite ==
    /\ Ready /\ state.at = "Transmitting" /\ state.n >= Cur.len
    /\ EndStep(cr1)
    /\ trans' = [trans EXCEPT !.curr = NextStep]
    /\ itbufen' = FALSE
    /\ UNCHANGED <<sr1, dr, sh, bus, wire>>

(* Reading the data register lets the byte behind it move up.              *)
ReadData ==
    /\ dr' = sh /\ sh' = 0
    /\ sr1' = (sr1 \ {"RXNE", "BTF"}) \cup IF sh # 0 THEN {"RXNE"} ELSE {}

EndReadByte ==
    /\ Ready /\ state.at = "Receiving" /\ state.n = Cur.len - 1
    /\ ReadData /\ EndStep(cr1)
    /\ trans' = [trans EXCEPT !.curr = NextStep, !.buf[trans.curr][state.n + 1] = dr]
    /\ itbufen' = (itbufen /\ ~OnLastStep)
    /\ UNCHANGED <<bus, wire>>

EndReadTwo ==
    /\ Ready /\ state.at = "Receiving" /\ state.n = Cur.len - 2
    /\ EndStep(IF "RXNE" \in sr1 THEN cr1 \ {"ACK"} ELSE cr1)
    /\ trans' = [trans EXCEPT !.curr = NextStep, !.buf[trans.curr][state.n + 1] = dr,
                              !.buf[trans.curr][state.n + 2] = sh]
    /\ dr' = 0 /\ sh' = 0 /\ sr1' = sr1 \ {"RXNE", "BTF"}
    /\ UNCHANGED <<itbufen, bus, wire>>

ReadByte ==
    /\ Ready /\ state.at = "Receiving" /\ state.n < Cur.len - 2
    /\ ReadData
    /\ trans' = [trans EXCEPT !.buf[trans.curr][state.n + 1] = dr]
    /\ state' = Receiving(state.n + 1)
    /\ UNCHANGED <<cr1, itbufen, bus, wire>>

EventHandler ==
    /\ "event" \in pend /\ ~Masked
    /\ \/ Ignore \/ SendAddress \/ BeginRead \/ BeginWrite \/ SendByte \/ EndWrite
       \/ EndReadByte \/ EndReadTwo \/ ReadByte
    /\ seen' = TRUE /\ Serves({"event"})
    /\ UNCHANGED <<pc, result, fault>>

(* Mutant: errors are cleared, but the task never learns of them.          *)
ErrorHandler_Silent ==
    /\ "error" \in pend /\ ~Masked
    /\ sr1' = sr1 \ Errors /\ cr1' = {}
    /\ UNCHANGED <<pc, result, trans, state, itbufen, dr, sh, bus, seen, wire, fault>>
    /\ Serves({"error"})

(* rust_i2c_interrupt_error_handler, whatever the state and the flags.     *)
ErrorHandler ==
    /\ "error" \in pend /\ ~Masked
    /\ sr1' = sr1 \ Errors /\ cr1' = {} /\ state' = Done(-1)
    /\ UNCHANGED <<pc, result, trans, itbufen, dr, sh, bus, seen, wire, fault>>
    /\ Serves({"error"})

Interrupt == EventHandler \/ ErrorHandler

-----------------------------------------------------------------------------
(* The peripheral and the device.                                          *)

Bus(changed) ==
    /\ UNCHANGED <<pc, result, trans, state, itbufen, changed>>
    /\ Serves({})

(* Between two bytes, where a start or stop condition can be generated.    *)
BetweenBytes == (bus = "write" /\ sh = 0) \/ (bus = "read" /\ "ADDR" \notin sr1)

StartCondition ==
    /\ "START" \in cr1 /\ (bus = "free" \/ BetweenBytes)
    /\ cr1' = cr1 \ {"START"}
    /\ sr1' = (sr1 \ {"TXE", "BTF"}) \cup {"SB"} /\ bus' = "start"
    /\ Bus(<<dr, sh, seen, wire, fault>>)

StopCondition ==
    /\ "STOP" \in cr1 /\ BetweenBytes
    /\ cr1' = cr1 \ {"STOP"}
    /\ sr1' = sr1 \ {"TXE", "BTF"} /\ bus' = "free"
    /\ Bus(<<dr, sh, seen, wire, fault>>)

LastOnWire == wire[Len(wire)]
Transfer(ack) == wire' = [wire EXCEPT ![Len(wire)].acks = Append(@, ack)]

AddressAcked ==
    /\ bus = "address"
    /\ sr1' = sr1 \cup {"ADDR"}
    /\ bus' = IF LastOnWire.dir = "Read" THEN "read" ELSE "write"
    /\ Bus(<<cr1, dr, sh, seen, wire, fault>>)

ByteSent ==
    /\ bus = "write" /\ sh # 0
    /\ Transfer(TRUE)
    /\ sh' = dr /\ dr' = 0
    /\ sr1' = sr1 \cup IF dr # 0 THEN {"TXE"} ELSE {"BTF"}
    /\ Bus(<<cr1, bus, seen, fault>>)

(* With POS set, the acknowledge bit is about the byte after the first.    *)
(* After a byte that was not acknowledged the device sends no more.        *)
ByteReceived ==
    LET acks == LastOnWire.acks
        byte == Len(acks) + 1
    IN
    /\ bus = "read" /\ BetweenBytes /\ cr1 \cap {"START", "STOP"} = {}
    /\ sh = 0 /\ (byte > 1 => acks[byte - 1])
    /\ Prompt /\ itbufen => (dr = 0 \/ seen)
    /\ Transfer("ACK" \in cr1 \/ ("POS" \in cr1 /\ byte = 1))
    /\ IF dr = 0 THEN dr' = byte /\ sh' = 0 /\ sr1' = sr1 \cup {"RXNE"}
                 ELSE dr' = dr /\ sh' = byte /\ sr1' = sr1 \cup {"BTF"}
    /\ seen' = FALSE
    /\ Bus(<<cr1, bus, fault>>)

(* An address or a byte that is not acknowledged, a lost arbitration, a    *)
(* misplaced start or stop condition (after which the transfer goes on).   *)
Moving == bus = "address" \/ (bus = "write" /\ sh # 0)

Fault(kind, flag) ==
    /\ kind \in Faults
    /\ sr1' = sr1 \cup {flag}
    /\ bus' = IF flag = "BERR" THEN bus ELSE "lost"
    /\ fault' = (fault \/ state.at # "Done")
    /\ Bus(<<cr1, dr, sh, seen, wire>>)

NotAcked ==
    \/ bus = "address" /\ Fault("address", "AF")
    \/ bus = "write" /\ sh # 0 /\ Fault("data", "AF")

BusError ==
    \/ Moving /\ Fault("bus", "ARLO")
    \/ (Moving \/ bus = "read" \/ "STOP" \in cr1) /\ "BERR" \notin sr1 /\ Fault("bus", "BERR")

Hardware ==
    \/ StartCondition \/ StopCondition \/ AddressAcked \/ ByteSent
    \/ ByteReceived \/ NotAcked \/ BusError

Next == (\E t \in Tasks : Task(t)) \/ Interrupt \/ Hardware

Spec == Init /\ [][Next]_vars

-----------------------------------------------------------------------------
Positions ==
    trans # NoTransaction =>
        /\ trans.curr <= Len(trans.steps)
        /\ state.at = "Transmitting" => state.n <= Cur.len
        /\ state.at = "Receiving" => state.n < Cur.len

(* Every variable has its type; positions stay inside the step's buffer,   *)
(* which the handler indexes without a check (data[next_byte_pos]).        *)
TypeOK ==
    /\ pc \in [Tasks -> {"outside", "begin", "wait", "poll"}]
    /\ result \in [Tasks -> {"none", "Ok", "Err"}]
    /\ trans \in Transactions \cup {NoTransaction}
    /\ state \in {StartBitSet, AddressSent, Done(0), Done(-1)}
                \cup [at : {"Transmitting", "Receiving"}, n : Nat]
    /\ cr1 \subseteq {"START", "STOP", "ACK", "POS"}
    /\ itbufen \in BOOLEAN /\ seen \in BOOLEAN /\ fault \in BOOLEAN
    /\ sr1 \subseteq Errors \cup {"SB", "ADDR", "BTF", "RXNE", "TXE"}
    /\ dr \in Nat /\ sh \in Nat
    /\ bus \in {"free", "start", "address", "write", "read", "lost"}
    /\ pend \subseteq {"event", "error"}
    /\ Positions

(* While the driver holds a transaction the task that owns its buffers is  *)
(* inside run_transaction: the handlers, to which the steps are given with *)
(* their lifetime cast away (mod.rs:95), write to no buffer that has been  *)
(* given back.                                                             *)
BuffersBorrowed ==
    /\ trans # NoTransaction => pc[trans.owner] \in {"wait", "poll"}
    /\ \A t \in Tasks : pc[t] \in {"wait", "poll"} => trans # NoTransaction /\ trans.owner = t

(* To its callers the driver is module RunTransaction: one is served at a  *)
(* time, its buffers fill with the bytes the device sends, each once and   *)
(* in their order, and it gets Ok only when they are full; a task is only  *)
(* refused while another is served (mod.rs:79).                            *)
Caller  == [t \in Tasks |-> IF pc[t] \in {"wait", "poll"} THEN "served" ELSE "outside"]
Asked   == IF trans = NoTransaction THEN <<>> ELSE trans.steps
Buffers == IF trans = NoTransaction THEN <<>> ELSE trans.buf
Service == INSTANCE RunTransaction WITH caller <- Caller, steps <- Asked, buf <- Buffers
ServesCallers == Service!Spec

(* What went over the wire is the whole of the transaction: a start for    *)
(* each step in its direction, all bytes of a Write acknowledged, and the  *)
(* buffer of each Read filled in the order the device sent the bytes.      *)
Transferred ==
    /\ Len(wire) = Len(trans.steps)
    /\ \A i \in DOMAIN trans.steps :
         LET s == trans.steps[i] IN
         /\ wire[i].dir = s.dir
         /\ s.dir = "Write" => wire[i].acks = [k \in 1..s.len |-> TRUE]
         /\ s.dir = "Read"  => trans.buf[i] = [k \in 1..s.len |-> k]

(* run_transaction returns Ok only for a transaction that was transferred  *)
(* whole and saw no error before its last byte, however the two interrupt  *)
(* handlers, the polling task and the bus interleave.                      *)
OkMeansTransferred ==
    [][\A t \in Tasks : PollOk(t) => Transferred /\ ~fault]_vars

(* Of the bytes of a Read the master acknowledges all but the last, which  *)
(* tells the device to let go of the bus.  It holds if the handler runs    *)
(* within the time of a byte (Prompt).                                     *)
LastByteNotAcked ==
    trans # NoTransaction /\ state = Done(0) =>
        \A i \in DOMAIN trans.steps :
            trans.steps[i].dir = "Read" =>
                wire[i].acks = [k \in 1..trans.steps[i].len |-> k < trans.steps[i].len]

(* After a transaction that succeeded the event interrupt is quiet, once   *)
(* the stop condition is out: a flag the handler ignores in state Done     *)
(* would keep it running, and no task would run again.                     *)
QuietWhenDone ==
    state = Done(0) /\ "STOP" \notin cr1 => ~EventLine(sr1, itbufen)
=============================================================================
