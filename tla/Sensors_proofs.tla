--------------------------- MODULE Sensors_proofs ---------------------------
(***************************************************************************)
(* The sensor drivers use the I2C driver as module I2C says it may be      *)
(* used, so what is proved there holds on the board: for any number of     *)
(* tasks, any faults and either layout of struct Nvic.  On top of it: what *)
(* a measurement is computed from, and that the light sensor is set to     *)
(* what its driver remembers.                                              *)
(***************************************************************************)
EXTENDS Sensors, I2C_proofs, Board_proofs

LEMMA EveryTransactionIsAProgram ==
    \A x \in DOMAIN Transaction : Transaction[x] \in Programs
  BY SensorsAssumption DEF SensorPrograms

(* The position of the driver is always a transaction, or it is idle.      *)
Position == drv \in DOMAIN Transaction \cup {"idle"}

LEMMA PositionInit == SensorsInit => Position
  BY DEF SensorsInit, Position

LEMMA PositionNext == Position /\ [SensorsNext]_allVars => Position'
<1> SUFFICES ASSUME Position, [SensorsNext]_allVars PROVE Position'
  OBVIOUS
<1> USE DEF Position, Transaction
<1>1. CASE MeasurePressure
  BY <1>1 DEF MeasurePressure
<1>2. CASE MeasureLight
  BY <1>2 DEF MeasureLight
<1>3. CASE Driver
  <2> PICK t \in Tasks : Transact(t)
    BY <1>3 DEF Driver
  <2>0. drv # "idle"
    BY DEF Transact
  <2>1. CASE UNCHANGED sensorVars
    BY <2>1 DEF sensorVars
  <2>2. CASE Succeeded
    BY <2>0, <2>2 DEF Succeeded
  <2>3. CASE Failed
    BY <2>3 DEF Failed
  <2> QED
    BY <2>1, <2>2, <2>3 DEF Transact
<1>4. CASE Handlers
  BY <1>4 DEF Handlers, Serve, sensorVars
<1>5. CASE BusMoves
  BY <1>5 DEF BusMoves, BusStep
<1>6. CASE InitStep
  BY <1>6 DEF InitStep, sensorVars
<1>7. CASE UNCHANGED allVars
  BY <1>7 DEF allVars, sensorVars
<1> QED
  BY <1>1, <1>2, <1>3, <1>4, <1>5, <1>6, <1>7 DEF SensorsNext

(* Each step of the composition is one of the I2C driver, or leaves its    *)
(* state alone.                                                            *)
LEMMA StepsOfI2C == Position /\ [SensorsNext]_allVars => [Next]_vars
<1> SUFFICES ASSUME Position, [SensorsNext]_allVars PROVE [Next]_vars
  OBVIOUS
<1>1. CASE MeasurePressure \/ MeasureLight \/ InitStep
  BY <1>1 DEF MeasurePressure, MeasureLight, InitStep
<1>2. CASE Driver
  <2> PICK t \in Tasks : Transact(t)
    BY <1>2 DEF Driver
  <2>1. CASE Begin(t, Transaction[drv])
    <3>1. Transaction[drv] \in Programs
      BY EveryTransactionIsAProgram DEF Position, Transact
    <3> QED
      BY <2>1, <3>1 DEF Next, Task
  <2>2. CASE Call(t) \/ Refuse(t) \/ Poll(t) \/ PollAgain(t) \/ PollOk(t) \/ PollErr(t)
    BY <2>2 DEF Next, Task
  <2> QED
    BY <2>1, <2>2 DEF Transact
<1>3. CASE Handlers
  BY <1>3 DEF Handlers, Serve, Interrupt, Next
<1>4. CASE BusMoves
  BY <1>4 DEF BusMoves, BusStep, Hardware, Next
<1>5. CASE UNCHANGED allVars
  BY <1>5 DEF allVars
<1> QED
  BY <1>1, <1>2, <1>3, <1>4, <1>5 DEF SensorsNext

(* The composition of METEO's drivers, the board and the I2C driver        *)
(* implements the I2C driver's own specification: the drivers call         *)
(* run_transaction (i2c/mod.rs) only as it allows, and the priorities the  *)
(* board sets only choose among the orders it considers.                   *)
THEOREM SensorsImplementI2C == SensorsSpec => Spec
<1>1. SensorsInit => Init
  BY DEF SensorsInit
<1>2. SensorsSpec => []Position
  BY PositionInit, PositionNext, PTL DEF SensorsSpec
<1> QED
  BY <1>1, <1>2, StepsOfI2C, PTL DEF SensorsSpec, Spec

(* The buffers of the drivers' transactions, which are on their stacks,    *)
(* are written by the interrupt handlers only while run_transaction has    *)
(* them (i2c/mod.rs:95).                                                   *)
THEOREM SensorBuffersBorrowed == SensorsSpec => []BuffersBorrowed
  BY SensorsImplementI2C, BuffersStayBorrowed, PTL

(* No measurement is taken for good that saw a fault on the bus, whatever  *)
(* the measurements and the deblocking of the bus before it left behind.   *)
THEOREM SensorFaultsAreReported ==
    SensorsSpec => [][\A t \in Tasks : PollOk(t) => ~fault]_vars
  BY SensorsImplementI2C, FaultsAreReported, PTL

-----------------------------------------------------------------------------
(* The board is only written to by its own sequences, and deblock_bus is   *)
(* only started when the one before is through.                            *)
LEMMA StepsOfBoard ==
    [SensorsNext]_allVars => BoardStep \/ StartDeblock \/ UNCHANGED boardVars
<1> SUFFICES ASSUME [SensorsNext]_allVars
             PROVE  BoardStep \/ StartDeblock \/ UNCHANGED boardVars
  OBVIOUS
<1>1. CASE MeasurePressure \/ MeasureLight
  BY <1>1 DEF MeasurePressure, MeasureLight
<1>2. CASE Driver
  <2> PICK t \in Tasks : Transact(t)
    BY <1>2 DEF Driver
  <2> QED
    BY DEF Transact
<1>3. CASE Handlers
  BY <1>3 DEF Handlers, Serve
<1>4. CASE BusMoves
  BY <1>4 DEF BusMoves, BusStep
<1>5. CASE InitStep
  BY <1>5 DEF InitStep
<1>6. CASE UNCHANGED allVars
  BY <1>6 DEF allVars
<1> QED
  BY <1>1, <1>2, <1>3, <1>4, <1>5, <1>6 DEF SensorsNext

LEMMA BoardAlwaysInOrder == SensorsSpec => []BoardInv
<1>1. SensorsInit => BoardInv
  BY BoardInitially DEF SensorsInit
<1>2. BoardInv /\ [SensorsNext]_allVars => BoardInv'
  BY BoardNext, StepsOfBoard
<1> QED
  BY <1>1, <1>2, PTL DEF SensorsSpec

(* The bus is the driver's own whenever it goes on, whatever the device on *)
(* it was doing when deblock_bus was called and however often it was.      *)
THEOREM BusReadyAfterInit == SensorsSpec => []BusReady
  BY BoardAlwaysInOrder, BusReadyFollows, PTL

(* The two interrupt handlers of the driver never preempt each other, for  *)
(* either layout of struct Nvic.                                           *)
THEOREM HandlersNeverPreempt == SensorsSpec => []HandlersOrdered
  BY BoardAlwaysInOrder, HandlersOrderedFollows, PTL
-----------------------------------------------------------------------------
(* The transaction in hand is the one the driver is at.                    *)
InHand == trans # NoTransaction => drv # "idle" /\ trans.steps = Transaction[drv]

SensorsInv == Position /\ TypeInv /\ InHand /\ TransferInv

(* No transaction has a Read of one byte after one of two.                 *)
LEMMA SaneTransactions == \A x \in DOMAIN Transaction : Sane(Transaction[x])
<1>1. ASSUME NEW n PROVE Sane(<<Write(n)>>)
  <2>1. Len(<<Write(n)>>) = 1
    OBVIOUS
  <2> QED BY <2>1 DEF Sane
<1>2. ASSUME NEW n, NEW m \in Nat, m # 1 PROVE Sane(<<Write(n), Read(m)>>)
  <2> DEFINE p == <<Write(n), Read(m)>>
  <2>1. Len(p) = 2 /\ p[1] = Write(n) /\ p[2] = Read(m)
    OBVIOUS
  <2>2. Write(n) # [dir |-> "Read", len |-> 2]
    BY DEF Write
  <2> HIDE DEF p
  <2>3. \A i, j \in 1..Len(p) : i < j => i = 1
    BY <2>1
  <2>4. Sane(p)
    BY <2>1, <2>2, <2>3 DEF Sane
  <2> QED BY <2>4 DEF p
<1>3. /\ 22 \in Nat /\ 22 # 1 /\ 2 \in Nat /\ 2 # 1 /\ 3 \in Nat /\ 3 # 1 /\ 5 \in Nat /\ 5 # 1
  OBVIOUS
<1>4. ASSUME NEW x \in DOMAIN Transaction
      PROVE  (\E n : Transaction[x] = <<Write(n)>>)
             \/ (\E n : \E m \in Nat : m # 1 /\ Transaction[x] = <<Write(n), Read(m)>>)
  <2>1. CASE x \in {"temp_cmd", "press_cmd", "gain", "on"}
    BY <2>1 DEF Transaction
  <2>2. CASE x \in {"calib", "temp_read", "press_read", "light_read"}
    BY <1>3, <2>2 DEF Transaction
  <2> QED BY <2>1, <2>2 DEF Transaction
<1> QED BY <1>1, <1>2, <1>4

(* The drivers' steps as far as they concern the transaction.              *)
LEMMA InHandKept ==
    ASSUME Position, TypeInv, InHand, [SensorsNext]_allVars
    PROVE  InHand'
<1>1. CASE MeasurePressure \/ MeasureLight
  BY <1>1 DEF MeasurePressure, MeasureLight, InHand, vars
<1>2. CASE Driver
  <2> PICK t \in Tasks : Transact(t)
    BY <1>2 DEF Driver
  <2>1. CASE Begin(t, Transaction[drv]) /\ UNCHANGED sensorVars
    <3>1. trans'.steps = Transaction[drv] /\ drv' = drv /\ drv # "idle"
      BY <2>1 DEF Begin, sensorVars, Transact
    <3> QED BY <3>1 DEF InHand
  <2>2. CASE (Call(t) \/ Refuse(t) \/ Poll(t) \/ PollAgain(t)) /\ UNCHANGED sensorVars
    BY <2>2 DEF Call, Refuse, Poll, PollAgain, Enter, sensorVars, InHand
  <2>3. CASE PollOk(t) \/ PollErr(t)
    BY <2>3 DEF PollOk, PollErr, InHand
  <2> QED BY <2>1, <2>2, <2>3 DEF Transact
<1>3. CASE Handlers
  <2>1. drv' = drv /\ (EventHandler \/ ErrorHandler)
    BY <1>3 DEF Handlers, Serve, sensorVars
  <2>2. CASE ErrorHandler
    BY <2>1, <2>2 DEF ErrorHandler, InHand
  <2>3. CASE EventHandler
    BY <2>1, <2>3, EventLeavesSteps DEF InHand
  <2> QED BY <2>1, <2>2, <2>3
<1>4. CASE BusMoves
  <2>1. drv' = drv /\ Hardware
    BY <1>4 DEF BusMoves, BusStep, Hardware
  <2>2. trans' = trans
    BY <2>1 DEF Hardware, StartCondition, StopCondition, AddressAcked, ByteSent, ByteReceived,
                NotAcked, BusError, Fault, Bus
  <2> QED BY <2>1, <2>2 DEF InHand
<1>5. CASE InitStep \/ UNCHANGED allVars
  BY <1>5 DEF InitStep, allVars, sensorVars, vars, InHand
<1> QED BY <1>1, <1>2, <1>3, <1>4, <1>5 DEF SensorsNext

LEMMA AlwaysSensorsInv == SensorsSpec => []SensorsInv
<1>1. SensorsInit => Init /\ InHand
  BY DEF SensorsInit, Init, InHand
<1>2. SensorsSpec => []Position
  BY PositionInit, PositionNext, PTL DEF SensorsSpec
<1>3. Spec => []TypeInv
  BY TypeInitially, TypeKept, PTL DEF Spec
<1>4. Position /\ TypeInv /\ InHand /\ [SensorsNext]_allVars => InHand'
  BY InHandKept
<1>5. ASSUME Position', InHand' PROVE trans' # NoTransaction => Sane(trans'.steps)
  BY <1>5, SaneTransactions DEF Position, InHand
<1>6. /\ Position /\ TypeInv /\ TransferInv /\ Position' /\ InHand' /\ [SensorsNext]_allVars
      => TransferInv'
  BY <1>5, StepsOfI2C, TransferKept
<1> QED
  BY <1>1, <1>2, <1>3, <1>4, <1>6, SensorsImplementI2C, TransferInitially, PTL
  DEF SensorsSpec, SensorsInv
-----------------------------------------------------------------------------
(* The commands the devices obey.                                          *)
Commands == {"temp_cmd", "press_cmd", "gain", "on"}
Length(x) == Transaction[x][1].len

(* The whole of the command in hand has been acknowledged.                 *)
Complete ==
    trans # NoTransaction /\ Len(wire) >= 1 /\ Len(wire[1].acks) >= Length(drv)

Obeyed ==
    /\ drv = "temp_cmd" => adc = "temp"
    /\ drv = "press_cmd" => adc = "pressure"
    /\ drv = "gain" => tsl.integ = "101ms"
    /\ drv = "on" => tsl.on = TRUE

Delivered == drv \in Commands /\ Complete /\ state # Done(-1) => Obeyed

LEMMA CommandsAre ==
    ASSUME NEW x \in Commands
    PROVE  /\ x \in DOMAIN Transaction /\ Length(x) \in Nat /\ Length(x) >= 2
           /\ Len(Transaction[x]) = 1 /\ Transaction[x][1] = Write(Length(x))
<1>1. CASE x \in {"temp_cmd", "press_cmd"}
  <2>1. Transaction[x] = <<Write(2)>>
    BY <1>1 DEF Transaction
  <2> QED BY <1>1, <2>1 DEF Length, Write, Transaction
<1>2. CASE x \in {"gain", "on"}
  <2>1. Transaction[x] = <<Write(3)>>
    BY <1>2 DEF Transaction
  <2> QED BY <1>2, <2>1 DEF Length, Write, Transaction
<1> QED BY <1>1, <1>2 DEF Commands

(* A command in hand is on the wire alone, and is no Read.                 *)
LEMMA CommandInHand ==
    ASSUME SensorsInv, drv \in Commands, trans # NoTransaction, state # Done(-1)
    PROVE  /\ wire \in Seq([dir : {"Read", "Write"}, acks : Seq(BOOLEAN)])
           /\ Len(wire) = IF state.at = "StartBitSet" THEN 0 ELSE 1
           /\ state.at # "Receiving"
           /\ state = Done(0) => Len(wire[1].acks) = Length(drv)
<1>1. Len(trans.steps) = 1 /\ trans.steps[1] = Write(Length(drv)) /\ Length(drv) \in Nat
  BY CommandsAre DEF SensorsInv, InHand
<1>2. wire \in Seq([dir : {"Read", "Write"}, acks : Seq(BOOLEAN)])
  BY DEF SensorsInv, TypeInv, WireOK
<1>3. CASE state.at # "Done"
  <2>1. UnderWay
    BY <1>3 DEF SensorsInv, TransferInv
  <2>2. trans.curr = 1
    BY <1>1, <2>1, UnderWayTyped DEF SensorsInv
  <2>3. Cur.dir = "Write"
    BY <1>1, <2>2 DEF Cur, Write
  <2> QED BY <1>2, <1>3, <2>1, <2>2, <2>3, States DEF UnderWay, AtReceiving
<1>4. CASE state.at = "Done"
  <2>1. state = Done(0)
    BY <1>4, States DEF SensorsInv, TypeInv, TypeOK
  <2>2. Len(wire) = 1 /\ Through(1)
    BY <1>1, <2>1 DEF SensorsInv, TransferInv, AtDone
  <2>3. wire[1].acks = [k \in 1..Length(drv) |-> TRUE]
    BY <1>1, <2>2 DEF Through, Write
  <2>4. Len(wire[1].acks) = Length(drv)
    <3> DEFINE f == [k \in 1..Length(drv) |-> TRUE]
    <3>1. f \in [1..Length(drv) -> BOOLEAN]
      OBVIOUS
    <3>2. f \in Seq(BOOLEAN) /\ DOMAIN f = 1..Length(drv)
      BY <1>1, <3>1, FunctionIsSeq
    <3> HIDE DEF f
    <3>3. Len(f) = Length(drv)
      BY <1>1, <3>2, LenProperties
    <3> QED BY <2>3, <3>3 DEF f
  <2> QED BY <1>2, <2>1, <2>2, <2>4, States
<1> QED BY <1>3, <1>4

(* What a step does to the wire while a command is in hand.                *)
OnlyAddress ==
    Len(wire) = 0 /\ Len(wire') = 1 /\ bus' = "address" /\ Len(wire'[1].acks) = 0
    /\ UNCHANGED deviceVars
ByteMore ==
    /\ Len(wire) = 1 /\ Len(wire') = 1 /\ Len(wire[1].acks) \in Nat
    /\ Len(wire'[1].acks) = Len(wire[1].acks) + 1
    /\ IF Len(wire[1].acks) + 1 = Length(drv)
       THEN /\ adc' = CASE drv = "temp_cmd" -> "temp" [] drv = "press_cmd" -> "pressure"
                        [] OTHER -> adc
            /\ tsl' = CASE drv = "gain" -> [tsl EXCEPT !.integ = "101ms"]
                        [] drv = "on" -> [tsl EXCEPT !.on = TRUE]
                        [] OTHER -> tsl
       ELSE UNCHANGED deviceVars

LEMMA EventOnWire ==
    ASSUME SensorsInv, drv \in Commands, trans # NoTransaction, state # Done(-1), EventHandler,
           UNCHANGED deviceVars
    PROVE  (wire' = wire /\ bus' = bus) \/ OnlyAddress
<1>1. CASE SendAddress
  <2>1. state.at = "StartBitSet" /\ bus' = "address" /\ wire' = Append(wire, [dir |-> Cur.dir, acks |-> <<>>])
    BY <1>1, States DEF SendAddress
  <2> DEFINE new == [dir |-> Cur.dir, acks |-> <<>>]
  <2>2. Len(new.acks) = 0
    BY EmptySeq
  <2> HIDE DEF new
  <2>3. Len(wire) = 0 /\ wire \in Seq([dir : {"Read", "Write"}, acks : Seq(BOOLEAN)])
    BY <2>1, CommandInHand
  <2>4. wire' = Append(wire, new)
    BY <2>1 DEF new
  <2>5. Len(wire') = 1 /\ wire'[1] = new
    BY <2>3, <2>4, AppendProperties
  <2> QED BY <2>1, <2>2, <2>3, <2>5 DEF OnlyAddress
<1>2. CASE ~SendAddress
  BY <1>2 DEF EventHandler, Ignore, BeginRead, BeginWrite, SendByte, EndWrite, EndReadByte,
              EndReadTwo, ReadByte
<1> QED BY <1>1, <1>2

LEMMA BusOnWire ==
    ASSUME SensorsInv, drv \in Commands, trans # NoTransaction, state # Done(-1), BusStep
    PROVE  (wire' = wire /\ UNCHANGED deviceVars) \/ (ByteMore /\ bus = "write" /\ sh # 0)
<1>1. CASE ByteSent /\ Obey
  <2>1. bus = "write" /\ sh # 0 /\ Transfer(TRUE) /\ trans' = trans
    BY <1>1 DEF ByteSent, Bus
  <2>2. UnderWay /\ state.at # "StartBitSet"
    <3>1. state # Done(0)
      BY <2>1 DEF SensorsInv, TransferInv, AtDone
    <3>2. state.at # "Done"
      BY <3>1 DEF SensorsInv, TypeInv, TypeOK, StartBitSet, AddressSent, Done
    <3>3. UnderWay
      BY <3>2 DEF SensorsInv, TransferInv
    <3> QED BY <2>1, <3>3 DEF UnderWay, AtStartBitSet
  <2>3. Len(wire) = 1 /\ LastOnWire = wire[1]
    BY <2>2, CommandInHand DEF LastOnWire
  <2>4. trans.curr = 1
    BY <2>2, <2>3 DEF UnderWay
  <2>5. /\ Len(wire') = 1 /\ Len(Acks') = Len(Acks) + 1
    BY <2>1, <2>2, <2>3, TransferIs DEF SensorsInv
  <2>6. Acks = wire[1].acks /\ Acks' = wire'[1].acks /\ Len(Acks) \in Nat
    BY <2>1, <2>2, <2>4, UnderWayTyped DEF Acks, SensorsInv
  <2>7. wire # <<>>
    BY <2>1 DEF SensorsInv, TypeInv, WireOK
  <2> QED BY <1>1, <2>1, <2>3, <2>5, <2>6, <2>7 DEF Obey, ByteMore, Length
<1>2. CASE ByteReceived
  <2>1. bus = "read" /\ cr1 \cap {"START", "STOP"} = {} /\ "ADDR" \notin sr1
    BY <1>2 DEF ByteReceived, BetweenBytes
  <2>2. state # Done(0)
    BY <2>1 DEF SensorsInv, TransferInv, AtDone
  <2>3. UnderWay /\ state.at \in {"StartBitSet", "AddressSent", "Transmitting", "Receiving"}
    BY <2>2, States DEF SensorsInv, TransferInv, TypeInv, TypeOK
  <2>4. state.at = "Receiving"
    BY <2>1, <2>3 DEF UnderWay, AtStartBitSet, AtAddressSent, AtTransmitting
  <2> QED BY <2>4, CommandInHand
<1>3. CASE /\ StartCondition \/ StopCondition \/ AddressAcked \/ NotAcked \/ BusError
           /\ UNCHANGED deviceVars
  <2>1. wire' = wire
    BY <1>3 DEF StartCondition, StopCondition, AddressAcked, NotAcked, BusError, Fault, Bus
  <2> QED BY <1>3, <2>1
<1> QED BY <1>1, <1>2, <1>3 DEF BusStep
-----------------------------------------------------------------------------
(* The steps of the composition, as far as commands are concerned.         *)
LEMMA NotComplete ==
    ASSUME drv' \in Commands, trans' = NoTransaction \/ wire' = <<>> \/ Len(wire'[1].acks) = 0
    PROVE  ~Complete'
<1>1. Length(drv)' >= 2 /\ Length(drv)' \in Nat
  <2>1. PICK x \in Commands : x = drv'
    OBVIOUS
  <2>2. Length(drv)' = Length(x)
    BY <2>1 DEF Length, Transaction
  <2> QED BY <2>2, CommandsAre
<1>2. CASE wire' = <<>>
  BY <1>2, EmptySeq DEF Complete
<1> QED BY <1>1, <1>2 DEF Complete

(* A step leaves the command as it is, gives it up, or is the byte more.    *)
LEMMA CommandSteps ==
    ASSUME SensorsInv, [SensorsNext]_allVars, drv' \in Commands
    PROVE  \/ ~Complete'
           \/ drv' = drv /\ UNCHANGED deviceVars /\ (Complete' <=> Complete)
              /\ (state' # Done(-1) => state # Done(-1))
           \/ drv' = drv /\ trans # NoTransaction /\ state' = Done(-1)
           \/ drv' = drv /\ trans' = trans /\ trans # NoTransaction /\ state # Done(-1)
              /\ state' = state /\ bus = "write" /\ sh # 0 /\ ByteMore
<1>1. CASE MeasurePressure \/ MeasureLight
  <2>1. trans' = NoTransaction
    BY <1>1 DEF MeasurePressure, MeasureLight, SensorsInv, InHand, vars
  <2> QED BY <2>1, NotComplete
<1>2. CASE Driver
  <2> PICK t \in Tasks : Transact(t)
    BY <1>2 DEF Driver
  <2>1. CASE Begin(t, Transaction[drv])
    BY <2>1, NotComplete DEF Begin
  <2>2. CASE (Call(t) \/ Refuse(t) \/ Poll(t) \/ PollAgain(t)) /\ UNCHANGED sensorVars
    BY <2>2 DEF Call, Refuse, Poll, PollAgain, Enter, sensorVars, deviceVars, Complete, Length,
                Transaction
  <2>3. CASE PollOk(t) \/ PollErr(t)
    BY <2>3, NotComplete DEF PollOk, PollErr
  <2> QED BY <2>1, <2>2, <2>3 DEF Transact
<1>3. CASE trans = NoTransaction /\ (Handlers \/ BusMoves)
  <2>1. trans' = trans \/ Interrupt
    BY <1>3 DEF Handlers, Serve, Interrupt, BusMoves, BusStep, StartCondition, StopCondition,
                AddressAcked, ByteSent, ByteReceived, NotAcked, BusError, Fault, Bus
  <2>2. Interrupt => Kept
    BY OwnerKept DEF SensorsInv
  <2>3. trans' = NoTransaction
    BY <1>3, <2>1, <2>2 DEF Kept
  <2> QED BY <2>3, NotComplete
<1>4. CASE trans # NoTransaction /\ Handlers
  <2>1. drv' = drv /\ UNCHANGED deviceVars /\ (EventHandler \/ ErrorHandler)
    BY <1>4 DEF Handlers, Serve, sensorVars
  <2>2. CASE ErrorHandler
    BY <1>4, <2>1, <2>2 DEF ErrorHandler
  <2>3. CASE EventHandler
    <3>1. trans' # NoTransaction
      BY <1>4, <2>3, EventTyped, I2CAssumption DEF Kept, SensorsInv
    <3>2. CASE state = Done(-1)
      <4>1. state' = state
        BY <2>3, <3>2, States DEF EventHandler, Ready, Ignore, SendAddress, BeginRead, BeginWrite,
              SendByte, EndWrite, EndReadByte, EndReadTwo, ReadByte
      <4> QED BY <1>4, <2>1, <3>2, <4>1
    <3>3. CASE state # Done(-1)
      <4>1. wire' = wire \/ OnlyAddress
        BY <1>4, <2>1, <2>3, <3>3, EventOnWire
      <4>2. CASE wire' = wire
        <5>1. Complete' <=> Complete
          BY <1>4, <2>1, <3>1, <4>2 DEF Complete, Length, Transaction
        <5> QED BY <2>1, <3>3, <5>1
      <4>3. CASE OnlyAddress
        BY <4>3, NotComplete DEF OnlyAddress
      <4> QED BY <4>1, <4>2, <4>3
    <3> QED BY <3>2, <3>3
  <2> QED BY <2>1, <2>2, <2>3
<1>5. CASE trans # NoTransaction /\ BusMoves
  <2>1. drv' = drv /\ trans' = trans /\ state' = state /\ BusStep
    BY <1>5 DEF BusMoves, BusStep, StartCondition, StopCondition, AddressAcked, ByteSent,
                ByteReceived, NotAcked, BusError, Fault, Bus
  <2>2. CASE state = Done(-1)
    BY <1>5, <2>1, <2>2
  <2>3. CASE state # Done(-1)
    <3>1. CASE wire' = wire /\ UNCHANGED deviceVars
      <4>1. Complete' <=> Complete
        BY <2>1, <3>1 DEF Complete, Length, Transaction
      <4> QED BY <2>1, <2>3, <3>1, <4>1
    <3>2. CASE ByteMore /\ bus = "write" /\ sh # 0
      BY <1>5, <2>1, <2>3, <3>2
    <3> QED BY <1>5, <2>1, <2>3, <3>1, <3>2, BusOnWire
  <2> QED BY <2>2, <2>3
<1>6. CASE InitStep \/ UNCHANGED allVars
  BY <1>6 DEF InitStep, allVars, sensorVars, deviceVars, vars, Complete, Length, Transaction
<1> QED BY <1>1, <1>2, <1>3, <1>4, <1>5, <1>6 DEF SensorsNext

(* The records of the light sensor and of its driver.                      *)
RecordsTyped ==
    /\ tsl \in [on : BOOLEAN, integ : {"101ms", "402ms"}]
    /\ light \in [state : {"Off", "On"}, integ : {"101ms", "402ms"}]

LEMMA RecordsStayTyped ==
    ASSUME RecordsTyped, [SensorsNext]_allVars
    PROVE  RecordsTyped'
<1> USE DEF RecordsTyped
<1>1. CASE UNCHANGED <<tsl, light>>
  BY <1>1
<1>2. CASE Driver
  <2> PICK t \in Tasks : Transact(t)
    BY <1>2 DEF Driver
  <2>1. CASE UNCHANGED tsl /\ (Succeeded \/ Failed)
    BY <2>1 DEF Succeeded, Failed, driverVars
  <2>2. CASE UNCHANGED <<tsl, light>>
    BY <2>2
  <2> QED BY <2>1, <2>2 DEF Transact, sensorVars, driverVars, deviceVars
<1>3. CASE BusMoves
  <2>1. CASE Obey /\ light' = light
    BY <2>1 DEF Obey, deviceVars
  <2> QED BY <1>1, <1>3, <2>1 DEF BusMoves, BusStep, driverVars, deviceVars
<1> QED
  BY <1>1, <1>2, <1>3
  DEF SensorsNext, MeasurePressure, MeasureLight, Handlers, Serve, InitStep, sensorVars, driverVars,
      deviceVars, allVars

LEMMA DeliveredKept ==
    ASSUME SensorsInv, RecordsTyped, Delivered, [SensorsNext]_allVars
    PROVE  Delivered'
<1> SUFFICES ASSUME drv' \in Commands, Complete', state' # Done(-1) PROVE Obeyed'
  BY DEF Delivered
<1>1. CASE drv' = drv /\ UNCHANGED deviceVars /\ Complete /\ state # Done(-1)
  BY <1>1 DEF Delivered, Obeyed, deviceVars
<1>2. CASE drv' = drv /\ trans' = trans /\ trans # NoTransaction /\ state # Done(-1) /\ ByteMore
  <2>1. CASE Len(wire[1].acks) + 1 = Length(drv)
    <3>1. tsl' = CASE drv = "gain" -> [tsl EXCEPT !.integ = "101ms"]
                   [] drv = "on" -> [tsl EXCEPT !.on = TRUE]
                   [] OTHER -> tsl
      BY <1>2, <2>1 DEF ByteMore
    <3>2. (drv = "gain" => tsl'.integ = "101ms") /\ (drv = "on" => tsl'.on = TRUE)
      BY <3>1 DEF RecordsTyped
    <3> QED BY <1>2, <2>1, <3>1, <3>2 DEF ByteMore, Obeyed
  <2>2. CASE Len(wire[1].acks) + 1 # Length(drv)
    <3>1. drv \in Commands /\ Length(drv) \in Nat /\ Length(drv)' = Length(drv)
      BY <1>2, CommandsAre DEF Length, Transaction
    <3>2. Len(wire[1].acks) + 1 >= Length(drv)
      BY <1>2, <3>1 DEF Complete, ByteMore
    <3>3. Complete
      BY <1>2, <2>2, <3>1, <3>2 DEF Complete, ByteMore
    <3> QED BY <1>2, <2>2, <3>1, <3>3 DEF ByteMore, Delivered, Obeyed, deviceVars
  <2> QED BY <2>1, <2>2
<1> QED BY <1>1, <1>2, CommandSteps
-----------------------------------------------------------------------------
(* What the driver of the pressure sensor has in hand at each transaction  *)
(* of a measurement.                                                       *)
ConversionsInv ==
    /\ drv \in {"temp_cmd", "temp_read", "press_cmd", "press_read"} => calib
    /\ drv \in {"calib", "temp_cmd", "temp_read", "press_cmd", "press_read"} => up = "none"
    /\ drv = "temp_read" => adc = "temp"
    /\ drv \in {"press_cmd", "press_read"} => ut = "temp"
    /\ drv = "press_read" => adc = "pressure"
    /\ ConversionsMatch

(* A transaction that returned Ok was completed, and the device obeyed.    *)
LEMMA OkIsObeyed ==
    ASSUME SensorsInv, BuffersBorrowed, Delivered, NEW t \in Tasks, PollOk(t), drv \in Commands
    PROVE  Complete /\ Obeyed
<1>1. state = Done(0) /\ trans # NoTransaction
  BY DEF PollOk, BuffersBorrowed
<1>2. state # Done(-1) /\ state.at # "StartBitSet"
  BY <1>1, States
<1>3. Len(wire) = 1 /\ Len(wire[1].acks) = Length(drv) /\ Length(drv) \in Nat
  BY <1>1, <1>2, CommandInHand, CommandsAre
<1> QED BY <1>1, <1>2, <1>3 DEF Complete, Delivered

(* The sensor's register changes only when it obeys a command.             *)
LEMMA RegisterKept ==
    ASSUME Position, BusStep
    PROVE  /\ UNCHANGED <<drv, driverVars>>
           /\ drv \notin {"temp_cmd", "press_cmd"} => adc' = adc
<1>1. CASE ByteSent /\ Obey
  BY <1>1 DEF BusStep, Obey, deviceVars
<1>2. CASE UNCHANGED deviceVars
  BY <1>2 DEF BusStep, deviceVars
<1> QED BY <1>1, <1>2 DEF BusStep

LEMMA ConversionsKept ==
    ASSUME SensorsInv, BuffersBorrowed, Delivered, ConversionsInv, [SensorsNext]_allVars
    PROVE  ConversionsInv'
<1> USE DEF ConversionsInv, ConversionsMatch
<1>1. CASE UNCHANGED sensorVars
  BY <1>1 DEF sensorVars, driverVars, deviceVars
<1>2. CASE MeasurePressure
  BY <1>2 DEF MeasurePressure
<1>3. CASE MeasureLight
  BY <1>3 DEF MeasureLight, driverVars, deviceVars
<1>4. ASSUME NEW t \in Tasks, Transact(t) PROVE ConversionsInv'
  <2>1. CASE PollOk(t) /\ Succeeded /\ UNCHANGED deviceVars
    <3>1. drv \in Commands => Obeyed
      BY <2>1, OkIsObeyed
    <3>2. drv = "temp_cmd" => adc = "temp"
      BY <3>1 DEF Obeyed, Commands
    <3>3. drv = "press_cmd" => adc = "pressure"
      BY <3>1 DEF Obeyed, Commands
    <3>4. drv \in DOMAIN Transaction
      BY <1>4 DEF SensorsInv, Position, Transact
    <3>5. CASE drv \in {"calib", "temp_cmd", "temp_read"}
      BY <2>1, <3>2, <3>5 DEF Succeeded, deviceVars
    <3>6. CASE drv \in {"press_cmd", "press_read"}
      BY <2>1, <3>3, <3>6 DEF Succeeded, deviceVars
    <3>7. CASE drv \in {"gain", "on", "light_read"}
      BY <2>1, <3>7 DEF Succeeded, deviceVars
    <3> QED BY <3>4, <3>5, <3>6, <3>7 DEF Transaction
  <2>2. CASE Failed /\ UNCHANGED deviceVars
    BY <2>2 DEF Failed, driverVars, deviceVars
  <2> QED BY <1>1, <1>4, <2>1, <2>2 DEF Transact
<1>5. CASE BusMoves
  <2>1. /\ UNCHANGED <<drv, driverVars>>
        /\ drv \notin {"temp_cmd", "press_cmd"} => adc' = adc
    BY <1>5, RegisterKept DEF BusMoves, SensorsInv
  <2> QED BY <2>1 DEF driverVars
<1> QED
  BY <1>1, <1>2, <1>3, <1>4, <1>5
  DEF SensorsNext, Driver, Handlers, Serve, InitStep, allVars

LEMMA AlwaysDelivered == SensorsSpec => [](SensorsInv /\ RecordsTyped /\ Delivered)
<1>1. SensorsInit => RecordsTyped /\ Delivered
  BY DEF SensorsInit, Init, RecordsTyped, Delivered, Complete
<1>2. RecordsTyped /\ [SensorsNext]_allVars => RecordsTyped'
  BY RecordsStayTyped
<1>3. SensorsInv /\ RecordsTyped /\ Delivered /\ [SensorsNext]_allVars => Delivered'
  BY DeliveredKept
<1> QED BY <1>1, <1>2, <1>3, AlwaysSensorsInv, PTL DEF SensorsSpec

(* The pressure a measurement returns is computed from a temperature and a *)
(* pressure that were converted for this measurement, in this order, with  *)
(* the sensor's own calibration: whatever fails on the bus, in whichever   *)
(* transaction of this measurement or of those before it.                  *)
THEOREM PressureFromItsConversions == SensorsSpec => []ConversionsMatch
<1>1. SensorsInit => ConversionsInv
  BY DEF SensorsInit, ConversionsInv, ConversionsMatch
<1>2. /\ SensorsInv /\ BuffersBorrowed /\ Delivered /\ ConversionsInv /\ [SensorsNext]_allVars
      => ConversionsInv'
  BY ConversionsKept
<1>3. ConversionsInv => ConversionsMatch
  BY DEF ConversionsInv
<1> QED
  BY <1>1, <1>2, <1>3, AlwaysDelivered, SensorBuffersBorrowed, PTL DEF SensorsSpec

-----------------------------------------------------------------------------
(* What I2C_proofs shows of sane transactions, for those of the drivers,   *)
(* each of which is sane.                                                  *)

(* A measurement's transaction that returned Ok went over the bus whole,   *)
(* and its buffers hold what the sensor sent, byte by byte.                *)
THEOREM SensorTransactionsTransferred == SensorsSpec => OkMeansTransferred
<1>1. ASSUME SensorsInv, BuffersBorrowed, NEW t \in Tasks, PollOk(t)
      PROVE  Transferred
  <2>1. state = Done(0) /\ trans # NoTransaction
    BY <1>1 DEF PollOk, BuffersBorrowed
  <2> QED BY <1>1, <2>1, TransferredFollows DEF SensorsInv
<1>2. SensorsInv /\ BuffersBorrowed /\ [\A t \in Tasks : PollOk(t) => ~fault]_vars
        => [\A t \in Tasks : PollOk(t) => Transferred /\ ~fault]_vars
  BY <1>1
<1> QED
  BY <1>2, AlwaysSensorsInv, SensorBuffersBorrowed, SensorFaultsAreReported, PTL
  DEF OkMeansTransferred

(* The sensor drivers are served as module RunTransaction says: what they  *)
(* read is what the sensor sent, whole and in order, when run_transaction  *)
(* returns Ok, and nothing writes to their buffers on the stack later.     *)
THEOREM SensorsAreServed == SensorsSpec => ServesCallers
<1>1. SensorsInit => Init /\ InOrder
  BY States DEF SensorsInit, Init, InOrder
<1>2. SensorsInv /\ InOrder /\ [SensorsNext]_allVars => InOrder'
  BY StepsOfI2C, AlwaysInOrder DEF SensorsInv
<1>3. SensorsInv /\ InOrder /\ BuffersBorrowed /\ [SensorsNext]_allVars
        => [Service!Next]_(Service!vars)
  BY StepsOfI2C, StepsServe DEF SensorsInv
<1> QED
  BY <1>1, <1>2, <1>3, ServiceInitially, AlwaysSensorsInv, SensorBuffersBorrowed, PTL
  DEF SensorsSpec, ServesCallers, Service!Spec

(* After a measurement's transaction that succeeded no flag is left that   *)
(* keeps the event interrupt running in place of METEO's task.             *)
THEOREM SensorsLeaveInterruptQuiet == SensorsSpec => []QuietWhenDone
<1>1. SensorsInv => QuietWhenDone
  BY QuietFollows DEF SensorsInv
<1> QED BY <1>1, AlwaysSensorsInv, PTL

(* Of the bytes a sensor sends, calibration data of 22 bytes, raw values   *)
(* of two, three and five, the last one alone is not acknowledged, which   *)
(* makes the sensor let go of the bus, if the event handler keeps up with  *)
(* the bytes.                                                              *)
THEOREM SensorReadsEnd ==
    ASSUME Prompt
    PROVE  SensorsSpec => []LastByteNotAcked
<1>1. SensorsInv => LastByteNotAcked
  BY LastByteFollows DEF SensorsInv
<1> QED BY <1>1, AlwaysSensorsInv, PTL
-----------------------------------------------------------------------------
(* While nothing is misplaced on the bus and no arbitration is lost, an    *)
(* error is a byte or an address that was not acknowledged: nothing more   *)
(* goes over the wire before the next transaction.                         *)
LossInv ==
    /\ "error" \in pend <=> sr1 \cap Errors # {}
    /\ sr1 \cap Errors # {} => bus = "lost"
    /\ state = Done(-1) =>
         /\ sr1 \cap Errors = {}
         /\ bus = "lost" \/ (trans = NoTransaction /\ bus = "free" /\ cr1 = {})

LEMMA Served ==
    ASSUME NEW i, Serves(i), "error" \in pend <=> sr1 \cap Errors # {},
           sr1' \cap Errors = sr1 \cap Errors, "error" \notin i
    PROVE  "error" \in pend' <=> sr1' \cap Errors # {}
BY DEF Serves, Lines

LEMMA TaskLoses ==
    ASSUME TypeInv, TransferInv, LossInv, NEW t \in Tasks, Task(t)
    PROVE  LossInv'
<1>1. CASE Call(t) \/ Poll(t) \/ Refuse(t) \/ PollAgain(t)
  BY <1>1 DEF Call, Poll, Enter, Refuse, PollAgain, regs, LossInv
<1>2. CASE \E p \in Programs : Begin(t, p)
  <2>1. /\ state.at = "Done" /\ sr1' = {} /\ bus' = "free" /\ state' = StartBitSet /\ Serves({})
    BY <1>2 DEF Begin, Reset, Busy
  <2>2. state = Done(0) \/ state = Done(-1)
    BY <2>1, States DEF TypeInv, TypeOK
  <2>3. sr1 \cap Errors = {}
    BY <2>2 DEF LossInv, TransferInv, AtDone
  <2>4. "error" \notin pend'
    BY <2>1, <2>3 DEF LossInv, Serves, Lines
  <2> QED BY <2>1, <2>4, States DEF LossInv
<1>3. CASE PollOk(t)
  BY <1>3, States DEF PollOk, regs, LossInv
<1>4. CASE PollErr(t)
  <2>1. /\ state.at = "Done" /\ state # Done(0) /\ state' = state /\ trans' = NoTransaction
        /\ sr1' = {} /\ bus' = "free" /\ cr1' = {} /\ Serves({})
    BY <1>4 DEF PollErr, Reset
  <2>2. state = Done(-1)
    BY <2>1, States DEF TypeInv, TypeOK
  <2>3. "error" \notin pend'
    BY <2>1, <2>2 DEF LossInv, Serves, Lines
  <2> QED BY <2>1, <2>3 DEF LossInv
<1> QED BY <1>1, <1>2, <1>3, <1>4 DEF Task

LEMMA HandlersLose ==
    ASSUME TypeInv, TransferInv, LossInv, Interrupt
    PROVE  LossInv'
<1>1. CASE ErrorHandler
  <2>1. /\ sr1' = sr1 \ Errors /\ state' = Done(-1) /\ bus' = bus /\ "error" \in pend
        /\ Serves({"error"})
    BY <1>1 DEF ErrorHandler
  <2>2. "error" \notin pend'
    BY <2>1 DEF Serves, Lines
  <2>3. bus = "lost"
    BY <2>1 DEF LossInv
  <2> QED BY <2>1, <2>2, <2>3 DEF LossInv
<1>2. CASE EventHandler
  <2>1. Serves({"event"})
    BY <1>2 DEF EventHandler
  <2>2. sr1' \cap Errors = sr1 \cap Errors
    BY <1>2 DEF EventHandler, Ignore, SendAddress, BeginRead, BeginWrite, SendByte, EndWrite,
                EndReadByte, EndReadTwo, ReadByte, SendData, ReadData, Errors
  <2>3. "error" \in pend' <=> sr1' \cap Errors # {}
    BY <2>1, <2>2, Served DEF LossInv
  <2>4. bus' = bus \/ bus = "start"
    <3>1. CASE SendAddress
      <4>1. Ready /\ state = StartBitSet
        BY <3>1 DEF SendAddress
      <4> QED BY <4>1, ReadyMeans, States DEF Ready, UnderWay, AtStartBitSet
    <3> QED BY <1>2, <3>1 DEF EventHandler, Ignore, BeginRead, BeginWrite, SendByte, EndWrite,
                              EndReadByte, EndReadTwo, ReadByte
  <2>5. ASSUME state' = Done(-1)
        PROVE  state = Done(-1) /\ UNCHANGED <<trans, sr1, bus, cr1>>
    <3>1. ~(Ready /\ state'.at # "Done") /\ state' # Done(0)
      BY <2>5, States
    <3>2. Ignore
      BY <1>2, <3>1, States DEF EventHandler, SendAddress, BeginRead, BeginWrite, SendByte,
            EndWrite, EndReadByte, EndReadTwo, ReadByte, EndStep
    <3> QED BY <2>5, <3>2, States DEF Ignore
  <2> QED BY <2>2, <2>3, <2>4, <2>5 DEF LossInv
<1> QED BY <1>1, <1>2 DEF Interrupt

LEMMA BusLoses ==
    ASSUME "bus" \notin Faults, TypeInv, TransferInv, LossInv, Hardware
    PROVE  LossInv'
<1>1. state # Done(-1)
  <2>1. ~BusError
    BY DEF BusError, Fault
  <2>2. \/ bus \in {"address", "write", "read"}
        \/ bus = "free" /\ "START" \in cr1
    BY <2>1 DEF Hardware, StartCondition, StopCondition, AddressAcked, ByteSent, ByteReceived,
                NotAcked, BetweenBytes
  <2> QED BY <2>2 DEF LossInv
<1>2. state' = state /\ Serves({})
  BY DEF Hardware, StartCondition, StopCondition, AddressAcked, ByteSent, ByteReceived,
         NotAcked, BusError, Fault, Bus
<1>3. CASE NotAcked
  <2>1. sr1' = sr1 \cup {"AF"} /\ bus' = "lost"
    BY <1>3 DEF NotAcked, Fault
  <2> QED BY <1>1, <1>2, <2>1 DEF LossInv, Serves, Lines, Errors
<1>4. CASE StartCondition \/ StopCondition \/ AddressAcked \/ ByteSent \/ ByteReceived
  <2>1. sr1' \cap Errors = sr1 \cap Errors
    BY <1>4 DEF StartCondition, StopCondition, AddressAcked, ByteSent, ByteReceived, Errors
  <2>2. bus # "lost"
    BY <1>4 DEF StartCondition, StopCondition, AddressAcked, ByteSent, ByteReceived, BetweenBytes
  <2> QED BY <1>1, <1>2, <2>1, <2>2, Served DEF LossInv
<1>5. ~BusError
  BY DEF BusError, Fault
<1> QED BY <1>3, <1>4, <1>5 DEF Hardware

LEMMA LossKept ==
    ASSUME "bus" \notin Faults, TypeInv, TransferInv, LossInv, [Next]_vars
    PROVE  LossInv'
<1>1. CASE UNCHANGED vars
  BY <1>1 DEF vars, regs, LossInv
<1> QED BY <1>1, TaskLoses, HandlersLose, BusLoses DEF Next

(* The driver and the sensor agree, but for a command that is under way,   *)
(* on which they agree as long as its last byte has not been acknowledged; *)
(* and of a command of which a byte was not, it never is.                  *)
LightInv ==
    /\ drv # "gain" => light.integ = tsl.integ
    /\ drv # "on" => (light.state = "On" <=> tsl.on)
    /\ ~Complete => light.integ = tsl.integ /\ (light.state = "On" <=> tsl.on)
    /\ drv \in Commands /\ bus = "lost" => ~Complete

(* While something of a command is still to be acknowledged.               *)
LEMMA MovingNotComplete ==
    ASSUME SensorsInv, drv \in Commands, trans # NoTransaction, state # Done(-1), Moving
    PROVE  ~Complete
<1>1. state # Done(0)
  BY DEF SensorsInv, TransferInv, AtDone, Moving
<1>2. state.at \in {"StartBitSet", "AddressSent", "Transmitting", "Receiving"}
  BY <1>1, States DEF SensorsInv, TypeInv, TypeOK
<1>3. UnderWay
  BY <1>2 DEF SensorsInv, TransferInv
<1>4. state.at \in {"AddressSent", "Transmitting"}
  BY <1>2, <1>3 DEF UnderWay, AtStartBitSet, AtReceiving, Moving
<1>5. Len(wire) = 1 /\ trans.curr = 1 /\ Len(Acks) \in Nat /\ Acks = wire[1].acks
  BY <1>3, <1>4, CommandInHand, UnderWayTyped DEF UnderWay, Acks, SensorsInv
<1>6. Length(drv) \in Nat /\ Length(drv) >= 2 /\ Cur.len = Length(drv)
  <2>1. Length(drv) \in Nat /\ Length(drv) >= 2 /\ Transaction[drv][1] = Write(Length(drv))
    BY CommandsAre
  <2>2. Cur = Transaction[drv][1]
    BY <1>5 DEF SensorsInv, InHand, Cur
  <2> QED BY <2>1, <2>2 DEF Write
<1>7. Len(Acks) < Length(drv)
  <2>1. CASE state.at = "AddressSent"
    BY <1>3, <1>6, <2>1, EmptySeq DEF UnderWay, AtAddressSent
  <2>2. CASE state.at = "Transmitting"
    <3>1. AtTransmitting(state.n) /\ dr \in Nat /\ sh \in Nat
      BY <1>3, <2>2 DEF UnderWay, SensorsInv, TypeInv, TypeOK
    <3>2. sh # 0 /\ state.n \in Nat /\ state.n <= Length(drv)
      BY <1>6, <3>1 DEF Moving, AtTransmitting
    <3>3. One(sh) = 1 /\ One(dr) \in Nat
      BY <3>2 DEF One
    <3>4. Len(Acks) + One(sh) + One(dr) = state.n
      BY <3>1 DEF AtTransmitting
    <3> QED BY <1>5, <1>6, <3>2, <3>3, <3>4
  <2> QED BY <1>4, <2>1, <2>2
<1> QED BY <1>5, <1>6, <1>7 DEF Complete

(* The command is no further, and neither the driver nor the sensor moved. *)
LEMMA LightSame ==
    ASSUME LightInv, UNCHANGED <<drv, light, tsl>>, Complete' <=> Complete,
           bus' = bus \/ bus' # "lost" \/ ~Complete'
    PROVE  LightInv'
BY DEF LightInv

LEMMA CompleteSame ==
    ASSUME UNCHANGED <<trans, wire, drv>>
    PROVE  Complete' <=> Complete
BY DEF Complete, Length, Transaction

LEMMA DriverKeepsLight ==
    ASSUME SensorsInv, RecordsTyped, BuffersBorrowed, Delivered, LossInv, LightInv,
           NEW t \in Tasks, Transact(t)
    PROVE  LightInv'
<1>1. CASE Begin(t, Transaction[drv]) /\ UNCHANGED sensorVars
  <2>1. trans = NoTransaction /\ wire' = <<>> /\ bus' = "free"
    BY <1>1 DEF Begin, Busy, Reset
  <2>2. ~Complete
    BY <2>1 DEF Complete
  <2>3. light.integ = tsl.integ /\ (light.state = "On" <=> tsl.on)
    BY <2>2 DEF LightInv
  <2> QED BY <1>1, <2>1, <2>3 DEF LightInv, sensorVars, driverVars, deviceVars
<1>2. CASE (Call(t) \/ Refuse(t) \/ Poll(t) \/ PollAgain(t)) /\ UNCHANGED sensorVars
  <2>1. UNCHANGED <<trans, wire, bus, drv, light, tsl>>
    BY <1>2 DEF Call, Refuse, Poll, PollAgain, Enter, regs, sensorVars, driverVars, deviceVars
  <2> QED BY <2>1, CompleteSame, LightSame
<1>3. CASE PollOk(t) /\ Succeeded /\ UNCHANGED deviceVars
  <2>1. trans' = NoTransaction /\ tsl' = tsl
    BY <1>3 DEF PollOk, deviceVars
  <2>2. ~Complete'
    BY <2>1 DEF Complete
  <2>3. drv \in DOMAIN Transaction
    BY DEF SensorsInv, Position, Transact
  <2>4. CASE drv = "gain"
    <3>1. tsl.integ = "101ms"
      BY <1>3, <2>4, OkIsObeyed DEF Obeyed, Commands
    <3>2. light'.integ = "101ms" /\ light'.state = light.state
      BY <1>3, <2>4 DEF Succeeded, RecordsTyped
    <3>3. light.state = "On" <=> tsl.on
      BY <2>4 DEF LightInv
    <3> QED BY <2>1, <2>2, <3>1, <3>2, <3>3 DEF LightInv
  <2>5. CASE drv = "on"
    <3>1. tsl.on = TRUE
      BY <1>3, <2>5, OkIsObeyed DEF Obeyed, Commands
    <3>2. light'.state = "On" /\ light'.integ = light.integ
      BY <1>3, <2>5 DEF Succeeded, RecordsTyped
    <3>3. light.integ = tsl.integ
      BY <2>5 DEF LightInv
    <3> QED BY <2>1, <2>2, <3>1, <3>2, <3>3 DEF LightInv
  <2>6. CASE drv \notin {"gain", "on"}
    <3>1. light' = light
      BY <1>3, <2>6 DEF Succeeded
    <3>2. light.integ = tsl.integ /\ (light.state = "On" <=> tsl.on)
      BY <2>6 DEF LightInv
    <3> QED BY <2>1, <2>2, <3>1, <3>2 DEF LightInv
  <2> QED BY <2>4, <2>5, <2>6
<1>4. CASE PollErr(t) /\ Failed /\ UNCHANGED deviceVars
  <2>1. /\ trans' = NoTransaction /\ tsl' = tsl /\ light' = light
        /\ pc[t] = "poll" /\ state.at = "Done" /\ state # Done(0)
    BY <1>4 DEF PollErr, Failed, deviceVars, driverVars
  <2>2. trans # NoTransaction /\ state = Done(-1)
    BY <2>1, States DEF BuffersBorrowed, SensorsInv, TypeInv, TypeOK
  <2>3. bus = "lost"
    BY <2>2 DEF LossInv
  <2>4. light.integ = tsl.integ /\ (light.state = "On" <=> tsl.on)
    <3>1. drv \in Commands => ~Complete
      BY <2>3 DEF LightInv
    <3> QED BY <3>1 DEF LightInv, Commands
  <2>5. ~Complete'
    BY <2>1 DEF Complete
  <2> QED BY <2>1, <2>4, <2>5 DEF LightInv
<1> QED BY <1>1, <1>2, <1>3, <1>4 DEF Transact

LEMMA HandlersKeepLight ==
    ASSUME SensorsInv, LightInv, Handlers
    PROVE  LightInv'
<1>1. UNCHANGED <<drv, light, tsl, deviceVars>> /\ (EventHandler \/ ErrorHandler)
  BY DEF Handlers, Serve, sensorVars, driverVars, deviceVars
<1>2. CASE ErrorHandler
  <2>1. UNCHANGED <<trans, wire, bus>>
    BY <1>2 DEF ErrorHandler
  <2> QED BY <1>1, <2>1, CompleteSame, LightSame
<1>3. CASE EventHandler /\ trans = NoTransaction
  <2>1. trans' = NoTransaction
    BY <1>3, EventTyped DEF Kept, SensorsInv
  <2>2. ~Complete /\ ~Complete'
    BY <1>3, <2>1 DEF Complete
  <2> QED BY <1>1, <2>2, LightSame
<1>4. CASE EventHandler /\ drv \notin Commands
  BY <1>1, <1>4 DEF LightInv, Commands
<1>5. CASE EventHandler /\ trans # NoTransaction /\ drv \in Commands
  <2>1. trans' # NoTransaction
    BY <1>5, EventTyped, I2CAssumption DEF Kept, SensorsInv
  <2>2. CASE state = Done(-1)
    <3>1. UNCHANGED <<trans, wire, bus>>
      BY <1>5, <2>2, States DEF EventHandler, Ready, Ignore, SendAddress, BeginRead, BeginWrite,
            SendByte, EndWrite, EndReadByte, EndReadTwo, ReadByte
    <3> QED BY <1>1, <3>1, CompleteSame, LightSame
  <2>3. CASE state # Done(-1)
    <3>1. CASE wire' = wire /\ bus' = bus
      <4>1. Complete' <=> Complete
        BY <1>1, <1>5, <2>1, <3>1 DEF Complete, Length, Transaction
      <4> QED BY <1>1, <3>1, <4>1, LightSame
    <3>2. CASE OnlyAddress
      <4>1. ~Complete
        BY <3>2 DEF OnlyAddress, Complete
      <4>2. ~Complete'
        BY <1>1, <1>5, <3>2, NotComplete DEF OnlyAddress
      <4> QED BY <1>1, <4>1, <4>2, LightSame
    <3> QED BY <1>1, <1>5, <2>3, <3>1, <3>2, EventOnWire
  <2> QED BY <2>2, <2>3
<1> QED BY <1>1, <1>2, <1>3, <1>4, <1>5

LEMMA BusKeepsLight ==
    ASSUME "bus" \notin Faults, SensorsInv, RecordsTyped, LossInv, LightInv, BusMoves
    PROVE  LightInv'
<1>1. UNCHANGED <<drv, light, trans, state>> /\ BusStep
  BY DEF BusMoves, BusStep, driverVars, StartCondition, StopCondition, AddressAcked, ByteSent,
         ByteReceived, NotAcked, BusError, Fault, Bus
<1>2. state # Done(-1) /\ ~BusError
  <2>1. ~BusError
    BY DEF BusError, Fault
  <2>2. \/ bus \in {"address", "write", "read"}
        \/ bus = "free" /\ "START" \in cr1
    BY <1>1, <2>1 DEF BusStep, StartCondition, StopCondition, AddressAcked, ByteSent, ByteReceived,
                      NotAcked, BetweenBytes
  <2> QED BY <2>1, <2>2 DEF LossInv
<1>3. CASE drv \notin Commands
  <2>1. tsl' = tsl
    <3>1. CASE Obey
      BY <1>3, <3>1 DEF Obey, Commands, deviceVars
    <3> QED BY <1>1, <3>1 DEF BusStep, deviceVars
  <2> QED BY <1>1, <1>3, <2>1 DEF LightInv, Commands
<1>4. CASE drv \in Commands /\ trans = NoTransaction
  <2>1. ~Complete /\ ~Complete'
    BY <1>1, <1>4 DEF Complete
  <2>2. tsl' = tsl
    <3>1. ~ByteSent
      <4>1. state = Done(0)
        BY <1>2, <1>4, States DEF SensorsInv, TransferInv, UnderWay, TypeInv, TypeOK
      <4> QED BY <4>1 DEF SensorsInv, TransferInv, AtDone, ByteSent
    <3> QED BY <1>1, <3>1 DEF BusStep, deviceVars
  <2> QED BY <1>1, <2>1, <2>2, LightSame
<1>5. CASE drv \in Commands /\ trans # NoTransaction
  <2>1. CASE wire' = wire /\ UNCHANGED deviceVars
    <3>1. Complete' <=> Complete
      BY <1>1, <2>1, CompleteSame
    <3>2. bus' = "lost" /\ bus # "lost" => ~Complete
      <4>1. bus' = "lost" /\ bus # "lost" => NotAcked
        BY <1>1, <1>2 DEF BusStep, StartCondition, StopCondition, AddressAcked, ByteSent,
                          ByteReceived, Bus
      <4>2. NotAcked => Moving
        BY DEF NotAcked, Moving
      <4> QED BY <1>2, <1>5, <4>1, <4>2, MovingNotComplete
    <3>3. UNCHANGED <<drv, light, tsl>>
      BY <1>1, <2>1 DEF deviceVars
    <3> QED BY <3>1, <3>2, <3>3, LightSame
  <2>2. CASE ByteMore /\ bus = "write" /\ sh # 0
    <3>1. ~Complete
      BY <1>2, <1>5, <2>2, MovingNotComplete DEF Moving
    <3>2. light.integ = tsl.integ /\ (light.state = "On" <=> tsl.on)
      BY <3>1 DEF LightInv
    <3>3. Length(drv)' = Length(drv) /\ Length(drv) \in Nat /\ trans' # NoTransaction
      BY <1>1, <1>5, CommandsAre DEF Length, Transaction
    <3>4. CASE Len(wire[1].acks) + 1 = Length(drv)
      <4>1. Complete'
        BY <2>2, <3>3, <3>4 DEF ByteMore, Complete
      <4>2. tsl' = CASE drv = "gain" -> [tsl EXCEPT !.integ = "101ms"]
                     [] drv = "on" -> [tsl EXCEPT !.on = TRUE]
                     [] OTHER -> tsl
        BY <2>2, <3>4 DEF ByteMore
      <4>3. (drv # "gain" => tsl'.integ = tsl.integ) /\ (drv # "on" => (tsl'.on <=> tsl.on))
        BY <4>2 DEF RecordsTyped
      <4>4. bus' # "lost"
        BY <1>1, <1>2, <2>2, <3>1, <4>1, <1>5, CompleteSame
        DEF BusStep, StartCondition, StopCondition, AddressAcked, ByteSent, ByteReceived, NotAcked,
            Fault, Bus
      <4> QED BY <1>1, <3>2, <4>1, <4>3, <4>4 DEF LightInv
    <3>5. CASE Len(wire[1].acks) + 1 # Length(drv)
      <4>1. Len(wire[1].acks) < Length(drv)
        BY <1>5, <2>2, <3>1, <3>3 DEF ByteMore, Complete
      <4>2. ~Complete'
        BY <2>2, <3>3, <3>5, <4>1 DEF ByteMore, Complete
      <4>3. tsl' = tsl
        BY <2>2, <3>5 DEF ByteMore, deviceVars
      <4> QED BY <1>1, <3>1, <4>2, <4>3, LightSame
    <3> QED BY <3>4, <3>5
  <2> QED BY <1>1, <1>2, <1>5, <2>1, <2>2, BusOnWire
<1> QED BY <1>3, <1>4, <1>5

LEMMA LightKept ==
    ASSUME "bus" \notin Faults, SensorsInv, RecordsTyped, BuffersBorrowed, Delivered, LossInv,
           LightInv, [SensorsNext]_allVars
    PROVE  LightInv'
<1>1. CASE MeasurePressure \/ MeasureLight
  <2>1. UNCHANGED <<light, tsl>> /\ trans = NoTransaction /\ trans' = NoTransaction /\ drv = "idle"
    BY <1>1 DEF MeasurePressure, MeasureLight, SensorsInv, InHand, vars, driverVars, deviceVars
  <2>2. ~Complete' /\ light.integ = tsl.integ /\ (light.state = "On" <=> tsl.on)
    BY <2>1 DEF Complete, LightInv
  <2> QED BY <2>1, <2>2 DEF LightInv
<1>2. CASE Driver
  BY <1>2, DriverKeepsLight DEF Driver
<1>3. CASE Handlers
  BY <1>3, HandlersKeepLight
<1>4. CASE BusMoves
  BY <1>4, BusKeepsLight
<1>5. CASE InitStep \/ UNCHANGED allVars
  <2>1. UNCHANGED <<trans, wire, bus, drv, light, tsl>>
    BY <1>5 DEF InitStep, allVars, vars, regs, sensorVars, driverVars, deviceVars
  <2> QED BY <2>1, CompleteSame, LightSame
<1> QED BY <1>1, <1>2, <1>3, <1>4, <1>5 DEF SensorsNext

(* The integration time the driver scales with and whether it asks the     *)
(* sensor for a value at all are the sensor's own, whichever addresses and *)
(* bytes of its commands were not acknowledged: a command that failed was  *)
(* not obeyed, for the byte it failed at was not its last.  It does not    *)
(* hold when the bus reports a misplaced start or stop condition or a lost *)
(* arbitration: those fail a command the sensor may obey.                  *)
THEOREM LightSettingsAgree ==
    ASSUME "bus" \notin Faults
    PROVE  SensorsSpec => []LightAsRemembered
<1>1. SensorsInit => LossInv /\ LightInv
  <2>1. SensorsInit => LossInv
    BY States DEF SensorsInit, Init, PeripheralInit, LossInv
  <2>2. SensorsInit => LightInv
    BY DEF SensorsInit, Init, PeripheralInit, LightInv, Complete
  <2> QED BY <2>1, <2>2
<1>2. SensorsInv /\ LossInv /\ [SensorsNext]_allVars => LossInv'
  BY LossKept, StepsOfI2C DEF SensorsInv
<1>3. /\ SensorsInv /\ RecordsTyped /\ BuffersBorrowed /\ Delivered /\ LossInv /\ LightInv
      /\ [SensorsNext]_allVars
      => LightInv'
  BY LightKept
<1>4. RecordsTyped /\ LightInv => LightAsRemembered
  <2>1. RecordsTyped => (tsl.on = TRUE \/ tsl.on = FALSE)
    BY DEF RecordsTyped
  <2>2. RecordsTyped /\ LightInv /\ drv \notin {"gain", "on"} =>
           light.integ = tsl.integ /\ (light.state = "On") = tsl.on
    BY <2>1 DEF LightInv
  <2> QED BY <2>2 DEF LightAsRemembered
<1> QED
  BY <1>1, <1>2, <1>3, <1>4, AlwaysDelivered, SensorBuffersBorrowed, PTL DEF SensorsSpec
=============================================================================
