------------------------------ MODULE I2C_proofs ------------------------------
(***************************************************************************)
(* For any number of tasks and any transactions: the driver's state keeps  *)
(* its types, the handlers write to no buffer that was given back, no      *)
(* fault goes unreported, a transaction that returned Ok was transferred   *)
(* whole and left no interrupt running, and the driver implements module   *)
(* RunTransaction.  For the last three, of which the invariant follows a   *)
(* transaction byte by byte, no transaction may read one byte after a step *)
(* that read two (Sane).                                                   *)
(***************************************************************************)
EXTENDS I2C, SequenceTheorems, TLAPS

(* What the type invariant needs to be inductive: something went over the  *)
(* wire before a byte moves.                                               *)
WireOK ==
    /\ wire \in Seq([dir : {"Read", "Write"}, acks : Seq(BOOLEAN)])
    /\ bus \in {"address", "read", "write"} => wire # <<>>

TypeInv == TypeOK /\ WireOK

-----------------------------------------------------------------------------
(* Replacing an element of a sequence, or of one of its sequences, by one  *)
(* of the same kind keeps the kind of the sequence.                        *)
LEMMA ReplaceOne ==
    ASSUME NEW S, NEW f \in Seq(S), NEW i, NEW e \in S
    PROVE  [f EXCEPT ![i] = e] \in Seq(S)
<1>1. CASE i \in 1..Len(f)
  BY <1>1, ExceptSeq
<1>2. CASE i \notin 1..Len(f)
  <2>1. f \in [1..Len(f) -> S]
    BY LenProperties
  <2>2. [f EXCEPT ![i] = e] = f
    BY <1>2, <2>1
  <2> QED BY <2>2
<1> QED BY <1>1, <1>2

LEMMA ReplaceInOne ==
    ASSUME NEW S, NEW f \in Seq(Seq(S)), NEW i, NEW k, NEW e \in S
    PROVE  [f EXCEPT ![i][k] = e] \in Seq(Seq(S))
<1>1. CASE i \in 1..Len(f)
  <2>1. f[i] \in Seq(S)
    BY <1>1, ElementOfSeq
  <2>2. [f[i] EXCEPT ![k] = e] \in Seq(S)
    BY <2>1, ReplaceOne
  <2> QED BY <2>2, ReplaceOne
<1>2. CASE i \notin 1..Len(f)
  <2>1. f \in [1..Len(f) -> Seq(S)]
    BY LenProperties
  <2>2. [f EXCEPT ![i][k] = e] = f
    BY <1>2, <2>1
  <2> QED BY <2>2
<1> QED BY <1>1, <1>2

(* Every step leaves pending interrupts of the two kinds only.             *)
LEMMA PendingTyped ==
    ASSUME pend \subseteq {"event", "error"}, NEW i, Serves(i)
    PROVE  pend' \subseteq {"event", "error"}
BY DEF Serves, Lines

(* The current step of a transaction is one of the steps it was given.     *)
LEMMA CurTyped ==
    ASSUME TypeOK, trans # NoTransaction
    PROVE  /\ trans \in Transactions
           /\ trans.steps \in Seq(Steps)
           /\ trans.curr \in 1..Len(trans.steps)
           /\ Cur \in Steps
           /\ Cur.len \in Nat /\ Cur.len >= 1
<1>1. trans \in Transactions  BY DEF TypeOK
<1>2. trans.steps \in Seq(Steps)  BY <1>1, I2CAssumption DEF Transactions
<1>3. trans.curr \in 1..Len(trans.steps)
  BY <1>1, <1>2, LenProperties DEF TypeOK, Positions, Transactions
<1>4. Cur \in Steps  BY <1>2, <1>3, ElementOfSeq DEF Cur
<1> QED BY <1>1, <1>2, <1>3, <1>4 DEF Steps

LEMMA FunctionIsSeq ==
    ASSUME NEW S, NEW n \in Nat, NEW f \in [1..n -> S]
    PROVE  f \in Seq(S)
OBVIOUS

(* The empty buffers of a new transaction.                                 *)
LEMMA BuffersTyped ==
    ASSUME NEW p \in Programs
    PROVE  /\ [i \in DOMAIN p |-> [k \in 1..p[i].len |-> 0]] \in Seq(Seq(Nat))
           /\ 1 <= Len(p)
<1>1. p \in Seq(Steps) /\ p # <<>>
  BY I2CAssumption
<1>2. Len(p) \in Nat /\ DOMAIN p = 1..Len(p)
  BY <1>1, LenProperties
<1>3. ASSUME NEW i \in DOMAIN p
      PROVE  [k \in 1..p[i].len |-> 0] \in Seq(Nat)
  <2>1. p[i] \in Steps
    BY <1>1, <1>2, <1>3, ElementOfSeq
  <2>2. p[i].len \in Nat
    BY <2>1 DEF Steps
  <2> QED BY <2>2, FunctionIsSeq
<1>4. [i \in DOMAIN p |-> [k \in 1..p[i].len |-> 0]] \in [1..Len(p) -> Seq(Nat)]
  BY <1>2, <1>3
<1>5. 1 <= Len(p)
  BY <1>1, EmptySeq
<1> QED BY <1>2, <1>4, <1>5, FunctionIsSeq

LEMMA TypeInitially == Init => TypeInv
<1> SUFFICES ASSUME Init PROVE TypeInv
  OBVIOUS
<1>1. TypeOK
  BY DEF Init, PeripheralInit, TypeOK, Positions, Done
<1>2. WireOK
  BY EmptySeq DEF Init, PeripheralInit, WireOK
<1> QED BY <1>1, <1>2 DEF TypeInv

(* The task's steps.                                                       *)
LEMMA TaskTyped ==
    ASSUME TypeInv, NEW t \in Tasks, Task(t)
    PROVE  TypeInv'
<1> USE DEF TypeInv
<1>1. ASSUME NEW from, NEW to \in {"begin", "poll"}, Enter(t, from, to)
      PROVE  TypeInv'
  BY <1>1 DEF Enter, regs, TypeOK, Positions, WireOK, Cur
<1>2. ASSUME NEW p \in Programs, Begin(t, p)
      PROVE  TypeInv'
  <2>1. trans' \in Transactions /\ trans'.curr = 1 /\ 1 <= Len(trans'.steps)
    <3>1. trans' = [owner |-> t, steps |-> p, curr |-> 1,
                    buf |-> [i \in DOMAIN p |-> [k \in 1..p[i].len |-> 0]]]
      BY <1>2 DEF Begin
    <3> QED BY <3>1, BuffersTyped DEF Transactions
  <2>2. pend' \subseteq {"event", "error"}
    BY <1>2, PendingTyped DEF Begin, TypeOK
  <2>3. TypeOK'
    BY <1>2, <2>1, <2>2 DEF Begin, Reset, TypeOK, Positions, StartBitSet
  <2>4. WireOK'
    BY <1>2, EmptySeq DEF Begin, Reset, WireOK
  <2> QED BY <2>3, <2>4
<1>3. CASE Refuse(t)
  BY <1>3 DEF Refuse, Return, regs, TypeOK, Positions, WireOK, Cur
<1>4. CASE PollAgain(t)
  BY <1>4 DEF PollAgain, regs, TypeOK, Positions, WireOK, Cur
<1>5. CASE PollOk(t)
  BY <1>5 DEF PollOk, Return, regs, TypeOK, Positions, WireOK
<1>6. CASE PollErr(t)
  <2>1. pend' \subseteq {"event", "error"}
    BY <1>6, PendingTyped DEF PollErr, TypeOK
  <2> QED BY <1>6, <2>1 DEF PollErr, Return, Reset, TypeOK, Positions, WireOK
<1> QED BY <1>1, <1>2, <1>3, <1>4, <1>5, <1>6 DEF Task, Call, Poll

(* The transaction is left alone or moved on, in the hands of its owner.   *)
Kept ==
    \/ trans' = trans
    \/ trans # NoTransaction /\ trans' \in Transactions /\ trans'.owner = trans.owner

(* A step is over: the transaction moves on to the next step, if any.      *)
LEMMA EndStepTyped ==
    ASSUME TypeOK, trans # NoTransaction, NEW bits, EndStep(bits),
           bits \subseteq {"START", "STOP", "ACK", "POS"},
           NEW b \in Seq(Seq(Nat)), trans' = [trans EXCEPT !.curr = NextStep, !.buf = b]
    PROVE  /\ trans' \in Transactions /\ Kept
           /\ cr1' \subseteq {"START", "STOP", "ACK", "POS"}
           /\ state' \in {StartBitSet, Done(0)}
           /\ Positions'
<1>1. /\ trans \in Transactions /\ trans.steps \in Seq(Steps)
      /\ trans.curr \in 1..Len(trans.steps)
  BY CurTyped
<1>2. Len(trans.steps) \in Nat
  BY <1>1, LenProperties
<1>3. NextStep \in 1..Len(trans.steps)
  BY <1>1, <1>2 DEF NextStep, OnLastStep
<1>4. /\ trans' \in Transactions /\ Kept
      /\ trans'.steps = trans.steps /\ trans'.curr = NextStep
  <2>1. NextStep \in Nat \ {0}
    BY <1>2, <1>3
  <2>2. trans' = [owner |-> trans.owner, steps |-> trans.steps, curr |-> NextStep, buf |-> b]
    BY <1>1 DEF Transactions
  <2> QED BY <1>1, <2>1, <2>2 DEF Transactions, Kept
<1>5. /\ cr1' \subseteq {"START", "STOP", "ACK", "POS"}
      /\ state' \in {StartBitSet, Done(0)}
  BY DEF EndStep
<1>6. Positions'
  BY <1>2, <1>3, <1>4, <1>5 DEF Positions, StartBitSet, Done
<1> QED BY <1>4, <1>5, <1>6

(* The event interrupt handler, branch by branch.                          *)
LEMMA EventTyped ==
    ASSUME TypeInv, EventHandler
    PROVE  TypeInv' /\ Kept
<1> USE DEF TypeInv
<1>1. /\ seen' = TRUE /\ UNCHANGED <<pc, result, fault>>
      /\ pend' \subseteq {"event", "error"}
  BY PendingTyped DEF EventHandler, TypeOK
<1>2. CASE Ignore
  BY <1>1, <1>2 DEF Ignore, Kept, TypeOK, Positions, WireOK, Cur
<1>3. ASSUME Ready
      PROVE  /\ trans # NoTransaction /\ trans \in Transactions
             /\ Cur \in Steps /\ Cur.len \in Nat /\ Cur.len >= 1
  BY <1>3, CurTyped DEF Ready
<1>4. CASE SendAddress
  <2>1. /\ state' = AddressSent /\ sr1' \subseteq sr1 /\ bus' = "address"
        /\ wire' = Append(wire, [dir |-> Cur.dir, acks |-> <<>>])
        /\ UNCHANGED <<trans, cr1, itbufen, dr, sh>> /\ Ready
    BY <1>4 DEF SendAddress
  <2>2. [dir |-> Cur.dir, acks |-> <<>>] \in [dir : {"Read", "Write"}, acks : Seq(BOOLEAN)]
    BY <1>3, <2>1, EmptySeq DEF Steps
  <2>3. WireOK'
    BY <2>1, <2>2, AppendProperties DEF WireOK
  <2>4. Positions'
    BY <2>1 DEF AddressSent, TypeOK, Positions
  <2>5. sr1' \subseteq Errors \cup {"SB", "ADDR", "BTF", "RXNE", "TXE"}
    BY <2>1 DEF TypeOK
  <2>6. TypeOK'
    BY <1>1, <2>1, <2>4, <2>5 DEF TypeOK
  <2> QED BY <2>1, <2>3, <2>6 DEF Kept
<1>5. CASE BeginRead
  <2>1. /\ Ready /\ itbufen' \in BOOLEAN /\ state' = Receiving(0)
        /\ UNCHANGED <<trans, dr, sh, bus, wire>>
    BY <1>5 DEF BeginRead, TypeOK
  <2>2. cr1' \subseteq {"START", "STOP", "ACK", "POS"}
    BY <1>3, <1>5 DEF BeginRead, TypeOK
  <2>3. sr1' \subseteq Errors \cup {"SB", "ADDR", "BTF", "RXNE", "TXE"}
    BY <1>5 DEF BeginRead, TypeOK
  <2>4. Positions'
    BY <1>3, <2>1 DEF Receiving, TypeOK, Positions, Cur
  <2>5. state' \in [at : {"Transmitting", "Receiving"}, n : Nat]
    BY <2>1 DEF Receiving
  <2> QED BY <1>1, <2>1, <2>2, <2>3, <2>4, <2>5 DEF Kept, TypeOK, WireOK
<1>6. CASE BeginWrite
  <2>1. /\ dr' \in Nat /\ sh' \in Nat /\ itbufen' \in BOOLEAN
        /\ sr1' \subseteq Errors \cup {"SB", "ADDR", "BTF", "RXNE", "TXE"}
    BY <1>6 DEF BeginWrite, SendData, TypeOK
  <2>2. Positions' /\ state' \in [at : {"Transmitting", "Receiving"}, n : Nat]
    BY <1>3, <1>6 DEF BeginWrite, Transmitting, TypeOK, Positions, Cur
  <2> QED BY <1>1, <1>6, <2>1, <2>2 DEF BeginWrite, Kept, TypeOK, WireOK
<1>7. CASE SendByte
  <2>1. state.n \in Nat
    BY <1>7 DEF SendByte, TypeOK, StartBitSet, AddressSent, Done
  <2>2. /\ dr' \in Nat /\ sh' \in Nat
        /\ sr1' \subseteq Errors \cup {"SB", "ADDR", "BTF", "RXNE", "TXE"}
    BY <1>7, <2>1 DEF SendByte, SendData, TypeOK
  <2>3. Positions' /\ state' \in [at : {"Transmitting", "Receiving"}, n : Nat]
    BY <1>3, <1>7, <2>1 DEF SendByte, Transmitting, TypeOK, Positions, Cur
  <2> QED BY <1>1, <1>7, <2>2, <2>3 DEF SendByte, Kept, TypeOK, WireOK
<1>8. CASE EndWrite
  <2>1. Ready /\ trans' = [trans EXCEPT !.curr = NextStep, !.buf = trans.buf]
    BY <1>3, <1>8 DEF EndWrite, Transactions
  <2>2. /\ trans' \in Transactions /\ Kept /\ Positions'
        /\ cr1' \subseteq {"START", "STOP", "ACK", "POS"}
        /\ state' \in {StartBitSet, Done(0)}
    BY <1>3, <1>8, <2>1, EndStepTyped DEF EndWrite, TypeOK, Transactions
  <2> QED BY <1>1, <1>8, <2>2 DEF EndWrite, TypeOK, WireOK
<1>9. CASE EndReadByte
  <2>1. [trans.buf EXCEPT ![trans.curr][state.n + 1] = dr] \in Seq(Seq(Nat))
    BY <1>3, <1>9, ReplaceInOne DEF EndReadByte, TypeOK, Transactions
  <2>2. Ready /\ trans' = [trans EXCEPT !.curr = NextStep,
                       !.buf = [trans.buf EXCEPT ![trans.curr][state.n + 1] = dr]]
    BY <1>3, <1>9 DEF EndReadByte, Transactions
  <2>3. /\ trans' \in Transactions /\ Kept /\ Positions'
        /\ cr1' \subseteq {"START", "STOP", "ACK", "POS"}
        /\ state' \in {StartBitSet, Done(0)}
    BY <1>3, <1>9, <2>1, <2>2, EndStepTyped DEF EndReadByte, TypeOK
  <2> QED BY <1>1, <1>9, <2>3 DEF EndReadByte, ReadData, TypeOK, WireOK
<1>10. CASE EndReadTwo
  <2> DEFINE one == [trans.buf EXCEPT ![trans.curr][state.n + 1] = dr]
             two == [one EXCEPT ![trans.curr][state.n + 2] = sh]
  <2>1. two \in Seq(Seq(Nat))
    <3>1. one \in Seq(Seq(Nat))
      BY <1>3, <1>10, ReplaceInOne DEF EndReadTwo, TypeOK, Transactions
    <3> QED BY <3>1, ReplaceInOne DEF TypeOK
  <2>2. Ready /\ trans' = [trans EXCEPT !.curr = NextStep, !.buf = two]
    <3>1. Ready /\ trans' = [trans EXCEPT !.curr = NextStep, !.buf[trans.curr][state.n + 1] = dr,
                                          !.buf[trans.curr][state.n + 2] = sh]
      BY <1>10 DEF EndReadTwo
    <3>2. trans \in Transactions
      BY <1>3, <3>1
    <3> QED BY <3>1, <3>2, ZenonT(60) DEF Transactions
  <2> HIDE DEF two
  <2>3. /\ trans' \in Transactions /\ Kept /\ Positions'
        /\ cr1' \subseteq {"START", "STOP", "ACK", "POS"}
        /\ state' \in {StartBitSet, Done(0)}
    BY <1>3, <1>10, <2>1, <2>2, EndStepTyped DEF EndReadTwo, TypeOK
  <2> QED BY <1>1, <1>10, <2>3 DEF EndReadTwo, TypeOK, WireOK
<1>11. CASE ReadByte
  <2> DEFINE one == [trans.buf EXCEPT ![trans.curr][state.n + 1] = dr]
  <2>1. one \in Seq(Seq(Nat))
    BY <1>3, <1>11, ReplaceInOne DEF ReadByte, TypeOK, Transactions
  <2>2. Ready /\ trans' = [trans EXCEPT !.buf = one]
    BY <1>3, <1>11 DEF ReadByte, Transactions
  <2> HIDE DEF one
  <2>3. /\ trans' \in Transactions /\ Kept
        /\ trans'.steps = trans.steps /\ trans'.curr = trans.curr
    BY <1>3, <2>1, <2>2 DEF Transactions, Kept
  <2>4. state.n \in Nat /\ state.n + 1 < Cur.len
    BY <1>3, <1>11 DEF ReadByte, TypeOK, StartBitSet, AddressSent, Done
  <2>5. Positions'
    BY <1>3, <1>11, <2>2, <2>3, <2>4 DEF ReadByte, Receiving, TypeOK, Positions, Cur
  <2> QED
    BY <1>1, <1>11, <2>3, <2>4, <2>5, SMTT(60) DEF ReadByte, ReadData, Receiving, TypeOK, WireOK
<1> QED
  BY <1>2, <1>4, <1>5, <1>6, <1>7, <1>8, <1>9, <1>10, <1>11 DEF EventHandler

LEMMA ErrorTyped ==
    ASSUME TypeInv, ErrorHandler
    PROVE  TypeInv'
<1>1. pend' \subseteq {"event", "error"}
  BY PendingTyped DEF ErrorHandler, TypeInv, TypeOK
<1> QED BY <1>1 DEF ErrorHandler, TypeInv, TypeOK, Positions, Done, WireOK

(* A byte more, acknowledged or not, of the transfer last begun.           *)
LEMMA TransferTyped ==
    ASSUME WireOK, bus \in {"address", "read", "write"}, NEW ack \in BOOLEAN, Transfer(ack)
    PROVE  /\ wire' \in Seq([dir : {"Read", "Write"}, acks : Seq(BOOLEAN)]) /\ wire' # <<>>
           /\ Len(LastOnWire.acks) \in Nat
<1> DEFINE Rec == [dir : {"Read", "Write"}, acks : Seq(BOOLEAN)]
<1>1. wire \in Seq(Rec) /\ wire # <<>>
  BY DEF WireOK
<1>2. Len(wire) \in Nat \ {0} /\ DOMAIN wire = 1..Len(wire)
  BY <1>1, EmptySeq, LenProperties
<1>3. LastOnWire \in Rec
  <2>1. Len(wire) \in 1..Len(wire)
    BY <1>2
  <2> HIDE DEF Rec
  <2> QED BY <1>1, <2>1, ElementOfSeq DEF LastOnWire
<1>4. Append(LastOnWire.acks, ack) \in Seq(BOOLEAN)
  BY <1>3, AppendProperties
<1>5. [LastOnWire EXCEPT !.acks = Append(LastOnWire.acks, ack)] \in Rec
  BY <1>3, <1>4
<1>6. wire' = [wire EXCEPT ![Len(wire)] = [LastOnWire EXCEPT !.acks = Append(LastOnWire.acks, ack)]]
  BY DEF Transfer, LastOnWire
<1>7. wire' \in Seq(Rec) /\ Len(wire') = Len(wire)
  BY <1>1, <1>2, <1>5, <1>6, ExceptSeq
<1>8. wire' # <<>>
  BY <1>2, <1>7, EmptySeq
<1>9. Len(LastOnWire.acks) \in Nat
  BY <1>3, LenProperties
<1> QED BY <1>7, <1>8, <1>9

(* The steps of the peripheral and the device.                             *)
LEMMA HardwareTyped ==
    ASSUME TypeInv, Hardware
    PROVE  TypeInv'
<1> USE DEF TypeInv
<1>1. ASSUME UNCHANGED <<pc, result, trans, state, itbufen>>, Serves({})
      PROVE  pend' \subseteq {"event", "error"} /\ Positions'
  BY <1>1, PendingTyped DEF TypeOK, Positions, Cur
<1>2. CASE StartCondition
  BY <1>1, <1>2 DEF StartCondition, Bus, TypeOK, WireOK
<1>3. CASE StopCondition
  BY <1>1, <1>3 DEF StopCondition, Bus, TypeOK, WireOK
<1>4. CASE AddressAcked
  BY <1>1, <1>4 DEF AddressAcked, Bus, TypeOK, WireOK
<1>5. CASE ByteSent
  <2>1. wire' \in Seq([dir : {"Read", "Write"}, acks : Seq(BOOLEAN)]) /\ wire' # <<>>
    BY <1>5, TransferTyped DEF ByteSent
  <2> QED BY <1>1, <1>5, <2>1 DEF ByteSent, Bus, TypeOK, WireOK
<1>6. CASE ByteReceived
  <2>1. /\ wire' \in Seq([dir : {"Read", "Write"}, acks : Seq(BOOLEAN)]) /\ wire' # <<>>
        /\ Len(LastOnWire.acks) \in Nat
    BY <1>6, TransferTyped DEF ByteReceived
  <2>2. /\ dr' \in Nat /\ sh' \in Nat
        /\ sr1' \subseteq Errors \cup {"SB", "ADDR", "BTF", "RXNE", "TXE"}
    BY <1>6, <2>1, SMTT(60) DEF ByteReceived, TypeOK
  <2> QED BY <1>1, <1>6, <2>1, <2>2 DEF ByteReceived, Bus, TypeOK, WireOK
<1>7. ASSUME NEW kind, NEW flag \in Errors, Fault(kind, flag)
      PROVE  TypeInv'
  <2>1. fault' \in BOOLEAN
    BY <1>7 DEF Fault, TypeOK
  <2> QED BY <1>1, <1>7, <2>1 DEF Fault, Bus, TypeOK, WireOK
<1>8. CASE NotAcked
  BY <1>7, <1>8 DEF NotAcked, Errors
<1>9. CASE BusError
  BY <1>7, <1>9 DEF BusError, Errors
<1> QED
  BY <1>2, <1>3, <1>4, <1>5, <1>6, <1>8, <1>9 DEF Hardware

LEMMA TypeKept == TypeInv /\ [Next]_vars => TypeInv'
<1> SUFFICES ASSUME TypeInv, [Next]_vars PROVE TypeInv'
  OBVIOUS
<1>1. CASE UNCHANGED vars
  BY <1>1 DEF vars, regs, TypeInv, TypeOK, Positions, Cur, WireOK
<1> QED
  BY <1>1, TaskTyped, EventTyped, ErrorTyped, HardwareTyped DEF Next, Interrupt

(* The driver's state keeps its types, and no handler ever indexes a       *)
(* buffer past its end, for transactions of any length, any number of      *)
(* tasks and any faults on the bus.                                        *)
THEOREM I2CTypeCorrect == Spec => []TypeOK
<1>1. TypeInv => TypeOK
  BY DEF TypeInv
<1> QED BY <1>1, TypeInitially, TypeKept, PTL DEF Spec

-----------------------------------------------------------------------------
(* The interrupt handlers and the bus leave the transaction with its owner *)
(* and the tasks where they are.                                           *)
LEMMA OwnerKept ==
    ASSUME TypeInv, Interrupt \/ Hardware
    PROVE  pc' = pc /\ Kept
<1>1. CASE Hardware
  BY <1>1
  DEF Hardware, StartCondition, StopCondition, AddressAcked, ByteSent, ByteReceived,
      NotAcked, BusError, Fault, Bus, Kept
<1>2. CASE ErrorHandler
  BY <1>2 DEF ErrorHandler, Kept
<1>3. CASE EventHandler
  BY <1>3, EventTyped DEF EventHandler
<1> QED BY <1>1, <1>2, <1>3 DEF Interrupt

(* Only the task that owns the transaction ends it, and a task begins one  *)
(* only when there is none: then no task is inside run_transaction.        *)
LEMMA BorrowedKept ==
    ASSUME TypeInv, BuffersBorrowed, [Next]_vars
    PROVE  BuffersBorrowed'
<1>1. trans # NoTransaction => trans.owner \in Tasks
  BY DEF TypeInv, TypeOK, Transactions
<1>2. pc \in [Tasks -> {"outside", "begin", "wait", "poll"}]
  BY DEF TypeInv, TypeOK
<1>3. ASSUME NEW t \in Tasks, Task(t)
      PROVE  BuffersBorrowed'
  <2>1. CASE Call(t)
    BY <1>1, <1>2, <2>1 DEF Call, Enter, BuffersBorrowed
  <2>2. ASSUME NEW p \in Programs, Begin(t, p)
        PROVE  BuffersBorrowed'
    <3>1. trans' # NoTransaction /\ trans'.owner = t
      <4>1. trans' = [owner |-> t, steps |-> p, curr |-> 1,
                      buf |-> [i \in DOMAIN p |-> [k \in 1..p[i].len |-> 0]]]
        BY <2>2 DEF Begin
      <4>2. trans' \in Transactions
        BY <4>1, BuffersTyped DEF Transactions
      <4> QED BY <4>1, <4>2, I2CAssumption
    <3>2. \A u \in Tasks : pc[u] \notin {"wait", "poll"}
      BY <2>2 DEF Begin, Busy, BuffersBorrowed
    <3> QED BY <1>2, <2>2, <3>1, <3>2 DEF Begin, BuffersBorrowed
  <2>3. CASE Refuse(t)
    BY <1>1, <1>2, <2>3 DEF Refuse, Return, BuffersBorrowed
  <2>4. CASE Poll(t)
    BY <1>1, <1>2, <2>4 DEF Poll, Enter, BuffersBorrowed
  <2>5. CASE PollAgain(t)
    BY <1>1, <1>2, <2>5 DEF PollAgain, BuffersBorrowed
  <2>6. CASE PollOk(t)
    BY <1>2, <2>6 DEF PollOk, Return, BuffersBorrowed
  <2>7. CASE PollErr(t)
    BY <1>2, <2>7 DEF PollErr, Return, BuffersBorrowed
  <2> QED BY <1>3, <2>1, <2>2, <2>3, <2>4, <2>5, <2>6, <2>7 DEF Task
<1>4. CASE Interrupt \/ Hardware
  BY <1>4, OwnerKept, I2CAssumption DEF Kept, BuffersBorrowed
<1>5. CASE UNCHANGED vars
  BY <1>5 DEF vars, BuffersBorrowed
<1> QED BY <1>3, <1>4, <1>5 DEF Next

(* The handlers, which are given the caller's buffers with their lifetime  *)
(* cast away, never hold them after run_transaction has returned, whatever *)
(* goes wrong on the bus and however many tasks call.                      *)
THEOREM BuffersStayBorrowed == Spec => []BuffersBorrowed
<1>1. Init => BuffersBorrowed
  BY DEF Init, BuffersBorrowed
<1>2. Spec => []TypeInv
  BY TypeInitially, TypeKept, PTL DEF Spec
<1> QED
  BY <1>1, <1>2, BorrowedKept, PTL DEF Spec

-----------------------------------------------------------------------------
(* A fault during a transaction has already failed it, or its interrupt is *)
(* pending and no task has looked at a finished transaction meanwhile: a   *)
(* task gets to look only when no interrupt is pending.                    *)
FaultNoticed ==
    trans # NoTransaction /\ fault =>
        \/ state = Done(-1)
        \/ /\ "error" \in pend
           /\ \A t \in Tasks : pc[t] = "poll" => state.at # "Done"

LEMMA FaultStaysNoticed ==
    ASSUME TypeInv, FaultNoticed, [Next]_vars
    PROVE  FaultNoticed'
<1> USE DEF FaultNoticed
<1>0. pc \in [Tasks -> {"outside", "begin", "wait", "poll"}] /\ pend \subseteq {"event", "error"}
  BY DEF TypeInv, TypeOK
<1>1. ASSUME NEW t \in Tasks, Task(t)
      PROVE  FaultNoticed'
  <2>1. CASE Call(t) \/ Poll(t)
    BY <1>0, <2>1 DEF Call, Poll, Enter
  <2>2. CASE \E p \in Programs : Begin(t, p)
    BY <2>2 DEF Begin
  <2>3. CASE Refuse(t) \/ PollAgain(t)
    BY <1>0, <2>3 DEF Refuse, Return, PollAgain
  <2>4. CASE PollOk(t) \/ PollErr(t)
    BY <2>4 DEF PollOk, PollErr
  <2> QED BY <1>1, <2>1, <2>2, <2>3, <2>4 DEF Task
<1>2. CASE EventHandler
  <2>1. UNCHANGED <<pc, fault>> /\ ("error" \in pend => "error" \in pend') /\ ~Masked
    BY <1>2 DEF EventHandler, Serves
  <2>2. trans' # NoTransaction => trans # NoTransaction
    BY <1>2, OwnerKept DEF Interrupt, Kept
  <2>3. state.at = "Done" => state' = state
    BY <1>2 DEF EventHandler, Ready, Ignore, SendAddress, BeginRead, BeginWrite, SendByte,
                EndWrite, EndReadByte, EndReadTwo, ReadByte
  <2> QED BY <2>1, <2>2, <2>3 DEF Masked, Done
<1>3. CASE ErrorHandler
  BY <1>3 DEF ErrorHandler
<1>4. CASE Hardware
  <2>1. UNCHANGED <<pc, trans, state>> /\ pend \subseteq pend'
    BY <1>4 DEF Hardware, StartCondition, StopCondition, AddressAcked, ByteSent, ByteReceived,
                NotAcked, BusError, Fault, Bus, Serves
  <2>2. fault' # fault => state.at # "Done" /\ "error" \in pend'
    <3>1. ASSUME NEW kind, NEW flag \in Errors, Fault(kind, flag)
          PROVE  fault' # fault => state.at # "Done" /\ "error" \in pend'
      BY <3>1 DEF Fault, Bus, Serves, Lines, TypeInv, TypeOK
    <3>2. CASE NotAcked \/ BusError
      BY <3>1, <3>2 DEF NotAcked, BusError, Errors
    <3>3. CASE ~(NotAcked \/ BusError)
      BY <1>4, <3>3 DEF Hardware, StartCondition, StopCondition, AddressAcked, ByteSent,
                        ByteReceived, Bus
    <3> QED BY <3>2, <3>3
  <2> QED BY <2>1, <2>2 DEF TypeInv, TypeOK
<1>5. CASE UNCHANGED vars
  BY <1>5 DEF vars
<1> QED BY <1>1, <1>2, <1>3, <1>4, <1>5 DEF Next, Interrupt

(* run_transaction never returns Ok for a transaction during which the     *)
(* bus reported a fault, however late the error handler gets to run and    *)
(* whatever the event handler does before it: the part of                  *)
(* OkMeansTransferred that is about errors.                                *)
THEOREM FaultsAreReported == Spec => [][\A t \in Tasks : PollOk(t) => ~fault]_vars
<1>1. Init => FaultNoticed
  BY DEF Init, FaultNoticed
<1>2. Spec => []TypeInv
  BY TypeInitially, TypeKept, PTL DEF Spec
<1>3. BuffersBorrowed /\ FaultNoticed => [\A t \in Tasks : PollOk(t) => ~fault]_vars
  BY DEF BuffersBorrowed, FaultNoticed, PollOk, Done
<1> QED
  BY <1>1, <1>2, <1>3, FaultStaysNoticed, BuffersStayBorrowed, PTL DEF Spec

-----------------------------------------------------------------------------
(* A transaction, step by step: what has gone over the wire, what is in    *)
(* the buffers, and what the peripheral is up to with the rest.            *)

(* A Read of one byte after one of two bytes in the same transaction would *)
(* find the bit POS still set; the firmware has no such transaction.       *)
Sane(steps) ==
    \A i, j \in 1..Len(steps) :
        ~(i < j /\ steps[i] = [dir |-> "Read", len |-> 2] /\ steps[j] = [dir |-> "Read", len |-> 1])

(* Step i has been transferred as it should be.                            *)
Through(i) ==
    LET s == trans.steps[i] IN
    /\ wire[i].dir = s.dir
    /\ s.dir = "Write" => wire[i].acks = [k \in 1..s.len |-> TRUE]
    /\ s.dir = "Read" => /\ trans.buf[i] = [k \in 1..s.len |-> k]
                         /\ Prompt => wire[i].acks = [k \in 1..s.len |-> k < s.len]

Acks == wire[trans.curr].acks
One(b) == IF b # 0 THEN 1 ELSE 0

BuffersMatch ==
    trans # NoTransaction =>
        /\ Len(trans.buf) = Len(trans.steps)
        /\ \A i \in 1..Len(trans.steps) : trans.buf[i] \in [1..trans.steps[i].len -> Nat]

AtStartBitSet ==
    /\ dr = 0 /\ sh = 0 /\ sr1 \cap {"ADDR", "RXNE"} = {}
    /\ \/ bus \in {"free", "write", "read"} /\ "START" \in cr1 /\ "SB" \notin sr1
       \/ bus = "start" /\ "START" \notin cr1 /\ "SB" \in sr1 /\ sr1 \cap {"TXE", "BTF"} = {}

AtAddressSent ==
    /\ dr = 0 /\ sh = 0 /\ sr1 \cap {"SB", "TXE", "BTF", "RXNE"} = {} /\ "START" \notin cr1
    /\ Acks = <<>>
    /\ bus \in {"address", "lost"} \/ (bus = IF Cur.dir = "Read" THEN "read" ELSE "write")
    /\ "ADDR" \in sr1 <=> bus \in {"read", "write"}

AtTransmitting(n) ==
    /\ Cur.dir = "Write" /\ n \in 1..Cur.len
    /\ bus = "write" \/ (bus = "lost" /\ sh # 0)
    /\ sr1 \cap {"SB", "ADDR", "RXNE"} = {} /\ "START" \notin cr1
    /\ Len(Acks) + One(sh) + One(dr) = n /\ \A k \in 1..Len(Acks) : Acks[k]
    /\ sh = 0 => dr = 0
    /\ "BTF" \in sr1 <=> sh = 0
    /\ "TXE" \in sr1 <=> dr = 0

AtReceiving(n) ==
    LET r == Len(Acks)
        len == Cur.len
    IN
    /\ Cur.dir = "Read" /\ bus = "read" /\ n \in 0..len - 1 /\ (n = len - 1 => len = 1)
    /\ sr1 \cap {"SB", "ADDR", "TXE"} = {} /\ "START" \notin cr1
    /\ r \in n..n + 2 /\ r <= len
    /\ dr = (IF r > n THEN n + 1 ELSE 0) /\ sh = (IF r > n + 1 THEN n + 2 ELSE 0)
    /\ "RXNE" \in sr1 <=> dr # 0
    /\ "BTF" \in sr1 <=> sh # 0
    /\ \A k \in 1..n : trans.buf[trans.curr][k] = k
    /\ len = 1 => cr1 \cap {"ACK", "POS"} = {}
    /\ len = 2 => "ACK" \notin cr1 /\ "POS" \in cr1
    /\ len > 2 /\ "ACK" \notin cr1 => n = len - 2 /\ r > n
    /\ \A k \in 1..r : k < len => Acks[k]
    /\ len <= 2 \/ Prompt => \A k \in 1..r : Acks[k] <=> k < len
    /\ len > 2 /\ Prompt =>
         /\ itbufen
         /\ n < len - 2 => sh = 0 /\ (dr # 0 => ~seen)
         /\ n = len - 2 /\ dr # 0 /\ seen => "ACK" \notin cr1

AtDone ==
    /\ dr = 0 /\ sh = 0 /\ sr1 \cap {"SB", "ADDR", "RXNE"} = {} /\ "START" \notin cr1
    /\ \/ bus \in {"read", "write"} /\ "STOP" \in cr1
       \/ bus = "free" /\ sr1 \cap {"TXE", "BTF"} = {}
    /\ trans # NoTransaction =>
         /\ Len(wire) = Len(trans.steps)
         /\ \A i \in 1..Len(trans.steps) : Through(i)

UnderWay ==
    /\ trans # NoTransaction /\ "STOP" \notin cr1
    /\ Len(wire) = IF state.at = "StartBitSet" THEN trans.curr - 1 ELSE trans.curr
    /\ \A i \in 1..trans.curr - 1 : Through(i)
    /\ state.at # "StartBitSet" => wire[trans.curr].dir = Cur.dir
    /\ "POS" \in cr1 => \E i \in 1..trans.curr : trans.steps[i] = [dir |-> "Read", len |-> 2]
    /\ state.at = "StartBitSet" => AtStartBitSet
    /\ state.at = "AddressSent" => AtAddressSent
    /\ state.at = "Transmitting" => AtTransmitting(state.n)
    /\ state.at = "Receiving" => AtReceiving(state.n)

TransferInv ==
    /\ BuffersMatch
    /\ trans # NoTransaction => Sane(trans.steps)
    /\ state = Done(0) => AtDone
    /\ state.at # "Done" => UnderWay
-----------------------------------------------------------------------------
(* What the conditions above depend on.                                    *)
LEMMA ThroughSame ==
    ASSUME NEW i, trans'.steps = trans.steps, wire'[i] = wire[i], trans'.buf[i] = trans.buf[i]
    PROVE  Through(i)' <=> Through(i)
BY DEF Through

LEMMA SameTransfer ==
    ASSUME trans' = trans, wire' = wire
    PROVE  /\ Cur' = Cur /\ Acks' = Acks
           /\ \A i : Through(i)' <=> Through(i)
           /\ BuffersMatch' <=> BuffersMatch
BY DEF Cur, Acks, Through, BuffersMatch

LEMMA InvSame ==
    ASSUME TransferInv, UNCHANGED <<trans, state, cr1, itbufen, sr1, dr, sh, bus, seen, wire>>
    PROVE  TransferInv'
<1>1. /\ Cur' = Cur /\ Acks' = Acks /\ (\A i : Through(i)' <=> Through(i))
      /\ (BuffersMatch' <=> BuffersMatch)
  BY SameTransfer
<1>2. AtDone' <=> AtDone
  BY <1>1 DEF AtDone
<1>3. AtStartBitSet' <=> AtStartBitSet
  BY DEF AtStartBitSet
<1>4. AtAddressSent' <=> AtAddressSent
  BY <1>1 DEF AtAddressSent
<1>5. AtTransmitting(state.n)' <=> AtTransmitting(state.n)
  BY <1>1 DEF AtTransmitting
<1>6. AtReceiving(state.n)' <=> AtReceiving(state.n)
  BY <1>1 DEF AtReceiving
<1>7. UnderWay' <=> UnderWay
  BY <1>1, <1>3, <1>4, <1>5, <1>6 DEF UnderWay
<1> QED BY <1>1, <1>2, <1>7 DEF TransferInv

LEMMA States ==
    /\ StartBitSet.at = "StartBitSet" /\ AddressSent.at = "AddressSent"
    /\ \A n : /\ Transmitting(n).at = "Transmitting" /\ Transmitting(n).n = n
              /\ Receiving(n).at = "Receiving" /\ Receiving(n).n = n
              /\ Done(n).at = "Done"
    /\ Done(0) # Done(-1)
BY DEF StartBitSet, AddressSent, Transmitting, Receiving, Done

(* What is typed in the middle of a transaction.                           *)
LEMMA UnderWayTyped ==
    ASSUME TypeInv, UnderWay
    PROVE  /\ trans \in Transactions /\ trans.steps \in Seq(Steps) /\ Len(trans.steps) \in Nat
           /\ trans.curr \in 1..Len(trans.steps) /\ trans.curr \in Nat
           /\ Cur \in Steps /\ Cur = trans.steps[trans.curr]
           /\ Cur.len \in Nat /\ Cur.len >= 1 /\ Cur.dir \in {"Read", "Write"}
           /\ wire \in Seq([dir : {"Read", "Write"}, acks : Seq(BOOLEAN)])
           /\ Len(wire) \in Nat
           /\ state.at # "StartBitSet" =>
                /\ Acks \in Seq(BOOLEAN) /\ Len(Acks) \in Nat
                /\ LastOnWire = wire[trans.curr] /\ Len(wire) = trans.curr
<1>1. /\ trans \in Transactions /\ trans.steps \in Seq(Steps)
      /\ trans.curr \in 1..Len(trans.steps) /\ Cur \in Steps /\ Cur.len \in Nat /\ Cur.len >= 1
  BY CurTyped DEF UnderWay, TypeInv
<1>2. Len(trans.steps) \in Nat /\ trans.curr \in Nat
  BY <1>1, LenProperties
<1>3. wire \in Seq([dir : {"Read", "Write"}, acks : Seq(BOOLEAN)]) /\ Len(wire) \in Nat
  BY LenProperties DEF TypeInv, WireOK
<1>4. ASSUME state.at # "StartBitSet"
      PROVE  /\ Acks \in Seq(BOOLEAN) /\ Len(Acks) \in Nat
             /\ LastOnWire = wire[trans.curr] /\ Len(wire) = trans.curr
  <2>1. Len(wire) = trans.curr
    BY <1>4 DEF UnderWay
  <2>2. trans.curr \in 1..Len(wire)
    BY <1>1, <2>1
  <2> DEFINE Rec == [dir : {"Read", "Write"}, acks : Seq(BOOLEAN)]
  <2>3. wire[trans.curr] \in Rec
    <3> HIDE DEF Rec
    <3> QED BY <1>3, <2>2, ElementOfSeq DEF Rec
  <2>4. Acks \in Seq(BOOLEAN)
    BY <2>3 DEF Acks
  <2> QED BY <2>1, <2>4, LenProperties DEF LastOnWire
<1> QED BY <1>1, <1>2, <1>3, <1>4 DEF Cur, Steps

(* The position in a Read.                                                 *)
LEMMA ReceivingTyped ==
    ASSUME TypeInv, UnderWay, state.at = "Receiving"
    PROVE  /\ AtReceiving(state.n) /\ state.n \in Nat /\ Cur.len \in Nat /\ state.n < Cur.len
           /\ state.n \in 0..Cur.len
<1>1. Cur.len \in Nat
  BY UnderWayTyped
<1>2. AtReceiving(state.n)
  BY DEF UnderWay
<1>3. state.n \in 0..Cur.len - 1
  BY <1>2 DEF AtReceiving
<1> QED BY <1>1, <1>2, <1>3

(* A byte more goes over the wire.                                         *)
LEMMA TransferIs ==
    ASSUME TypeInv, UnderWay, state.at # "StartBitSet", NEW ack \in BOOLEAN, Transfer(ack),
           trans' = trans
    PROVE  /\ Len(wire') = Len(wire)
           /\ \A i \in 1..trans.curr - 1 : wire'[i] = wire[i]
           /\ wire'[trans.curr].dir = wire[trans.curr].dir
           /\ Acks' = Append(Acks, ack)
           /\ Len(Acks') = Len(Acks) + 1 /\ Acks'[Len(Acks) + 1] = ack
           /\ \A k \in 1..Len(Acks) : Acks'[k] = Acks[k]
<1>1. /\ wire \in Seq([dir : {"Read", "Write"}, acks : Seq(BOOLEAN)])
      /\ Len(wire) = trans.curr /\ trans.curr \in Nat /\ Len(wire) \in Nat
      /\ LastOnWire = wire[trans.curr] /\ Acks \in Seq(BOOLEAN) /\ trans.curr >= 1
  BY UnderWayTyped
<1>2. /\ DOMAIN wire = 1..trans.curr
  BY <1>1, LenProperties
<1> DEFINE w == trans.curr
<1>3. wire' = [wire EXCEPT ![w] = [wire[w] EXCEPT !.acks = Append(wire[w].acks, ack)]]
  BY <1>1 DEF Transfer
<1>4. w \in DOMAIN wire
  BY <1>1, <1>2
<1>5. wire[w] \in [dir : {"Read", "Write"}, acks : Seq(BOOLEAN)]
  <2> DEFINE Rec == [dir : {"Read", "Write"}, acks : Seq(BOOLEAN)]
  <2>1. wire \in Seq(Rec) /\ w \in 1..Len(wire)
    BY <1>1
  <2> HIDE DEF Rec
  <2>2. wire[w] \in Rec
    BY <2>1, ElementOfSeq
  <2> QED BY <2>2 DEF Rec
<1>6. /\ wire'[w].dir = wire[w].dir /\ wire'[w].acks = Append(wire[w].acks, ack)
      /\ \A i \in 1..w - 1 : wire'[i] = wire[i]
  <2>1. wire'[w] = [wire[w] EXCEPT !.acks = Append(wire[w].acks, ack)]
    BY <1>3, <1>4
  <2>2. ASSUME NEW i \in 1..w - 1 PROVE wire'[i] = wire[i]
    <3>1. i \in DOMAIN wire /\ i # w
      BY <1>1, <1>2
    <3> QED BY <1>3, <3>1
  <2> QED BY <1>5, <2>1, <2>2
<1>7. Len(wire') = Len(wire)
  <2>1. [wire[w] EXCEPT !.acks = Append(wire[w].acks, ack)] \in
            [dir : {"Read", "Write"}, acks : Seq(BOOLEAN)]
    BY <1>1, <1>5, AppendProperties DEF Acks
  <2> DEFINE Rec == [dir : {"Read", "Write"}, acks : Seq(BOOLEAN)]
             new == [wire[w] EXCEPT !.acks = Append(wire[w].acks, ack)]
  <2> HIDE DEF Rec, new
  <2>2. new \in Rec /\ wire \in Seq(Rec) /\ w \in 1..Len(wire) /\ wire' = [wire EXCEPT ![w] = new]
    BY <1>1, <1>3, <2>1 DEF Rec, new
  <2> QED BY <2>2, ExceptSeq
<1>8. Acks' = Append(Acks, ack)
  BY <1>6 DEF Acks
<1> QED BY <1>1, <1>6, <1>7, <1>8, AppendProperties

-----------------------------------------------------------------------------
(* The peripheral and the device.                                          *)
LEMMA HardwareKeeps ==
    ASSUME TransferInv, UNCHANGED <<trans, state>>,
           state = Done(0) => AtDone', state.at # "Done" => UnderWay'
    PROVE  TransferInv'
BY DEF TransferInv, BuffersMatch

LEMMA UnderWayKept ==
    ASSUME UnderWay, UNCHANGED <<trans, state, wire>>, cr1' \subseteq cr1,
           state.at = "StartBitSet" => AtStartBitSet',
           state.at = "AddressSent" => AtAddressSent',
           state.at = "Transmitting" => AtTransmitting(state.n)',
           state.at = "Receiving" => AtReceiving(state.n)'
    PROVE  UnderWay'
<1>1. Cur' = Cur /\ \A i : Through(i)' <=> Through(i)
  BY SameTransfer
<1> QED BY <1>1 DEF UnderWay

LEMMA StartConditionTransfers ==
    ASSUME TypeInv, TransferInv, StartCondition
    PROVE  TransferInv'
<1>1. /\ "START" \in cr1 /\ cr1' = cr1 \ {"START"} /\ bus' = "start"
      /\ sr1' = (sr1 \ {"TXE", "BTF"}) \cup {"SB"}
      /\ UNCHANGED <<trans, state, itbufen, dr, sh, seen, wire>>
  BY DEF StartCondition, Bus
<1>2. state # Done(0)
  BY <1>1 DEF TransferInv, AtDone
<1>3. ASSUME state.at # "Done" PROVE UnderWay'
  <2>1. UnderWay
    BY <1>3 DEF TransferInv
  <2>2. state.at = "StartBitSet"
    <3>1. state.at \in {"StartBitSet", "AddressSent", "Transmitting", "Receiving"}
      BY <1>3, States DEF TypeInv, TypeOK
    <3> QED BY <1>1, <2>1, <3>1 DEF UnderWay, AtAddressSent, AtTransmitting, AtReceiving
  <2>3. AtStartBitSet'
    BY <1>1, <2>1, <2>2 DEF UnderWay, AtStartBitSet
  <2> QED BY <1>1, <2>1, <2>2, <2>3, UnderWayKept
<1> QED BY <1>1, <1>2, <1>3, HardwareKeeps

LEMMA StopConditionTransfers ==
    ASSUME TypeInv, TransferInv, StopCondition
    PROVE  TransferInv'
<1>1. /\ "STOP" \in cr1 /\ cr1' = cr1 \ {"STOP"} /\ bus' = "free"
      /\ sr1' = sr1 \ {"TXE", "BTF"}
      /\ UNCHANGED <<trans, state, itbufen, dr, sh, seen, wire>>
  BY DEF StopCondition, Bus
<1>2. state.at = "Done"
  BY <1>1 DEF TransferInv, UnderWay
<1>3. ASSUME state = Done(0) PROVE AtDone'
  <2>1. \A i : Through(i)' <=> Through(i)
    BY <1>1, SameTransfer
  <2> QED BY <1>1, <1>3, <2>1 DEF TransferInv, AtDone
<1> QED BY <1>1, <1>2, <1>3, HardwareKeeps

LEMMA AddressAckedTransfers ==
    ASSUME TypeInv, TransferInv, AddressAcked
    PROVE  TransferInv'
<1>1. /\ bus = "address" /\ sr1' = sr1 \cup {"ADDR"}
      /\ bus' = IF LastOnWire.dir = "Read" THEN "read" ELSE "write"
      /\ UNCHANGED <<trans, state, cr1, itbufen, dr, sh, seen, wire>>
  BY DEF AddressAcked, Bus
<1>2. state # Done(0)
  BY <1>1 DEF TransferInv, AtDone
<1>3. ASSUME state.at # "Done" PROVE UnderWay'
  <2>1. UnderWay
    BY <1>3 DEF TransferInv
  <2>2. state.at = "AddressSent"
    <3>1. state.at \in {"StartBitSet", "AddressSent", "Transmitting", "Receiving"}
      BY <1>3, States DEF TypeInv, TypeOK
    <3> QED BY <1>1, <2>1, <3>1 DEF UnderWay, AtStartBitSet, AtTransmitting, AtReceiving
  <2>3. LastOnWire.dir = Cur.dir /\ Cur' = Cur /\ Acks' = Acks
    BY <1>1, <2>1, <2>2, UnderWayTyped, SameTransfer DEF UnderWay
  <2>4. AtAddressSent'
    BY <1>1, <2>1, <2>2, <2>3 DEF UnderWay, AtAddressSent
  <2> QED BY <1>1, <2>1, <2>2, <2>4, UnderWayKept
<1> QED BY <1>1, <1>2, <1>3, HardwareKeeps

LEMMA ByteSentTransfers ==
    ASSUME TypeInv, TransferInv, ByteSent
    PROVE  TransferInv'
<1>1. /\ bus = "write" /\ sh # 0 /\ Transfer(TRUE) /\ sh' = dr /\ dr' = 0
      /\ sr1' = sr1 \cup IF dr # 0 THEN {"TXE"} ELSE {"BTF"}
      /\ UNCHANGED <<trans, state, cr1, itbufen, bus, seen>>
  BY DEF ByteSent, Bus
<1>2. state # Done(0)
  BY <1>1 DEF TransferInv, AtDone
<1>3. ASSUME state.at # "Done" PROVE UnderWay'
  <2>1. UnderWay
    BY <1>3 DEF TransferInv
  <2>2. state.at = "Transmitting"
    <3>1. state.at \in {"StartBitSet", "AddressSent", "Transmitting", "Receiving"}
      BY <1>3, States DEF TypeInv, TypeOK
    <3> QED BY <1>1, <2>1, <3>1 DEF UnderWay, AtStartBitSet, AtAddressSent, AtReceiving
  <2>3. AtTransmitting(state.n)
    BY <2>1, <2>2 DEF UnderWay
  <2>4. /\ Len(wire') = Len(wire) /\ (\A i \in 1..trans.curr - 1 : wire'[i] = wire[i])
        /\ wire'[trans.curr].dir = wire[trans.curr].dir
        /\ Len(Acks') = Len(Acks) + 1 /\ Acks'[Len(Acks) + 1] = TRUE
        /\ \A k \in 1..Len(Acks) : Acks'[k] = Acks[k]
    BY <1>1, <2>1, <2>2, TransferIs
  <2>5. Cur' = Cur /\ Len(Acks) \in Nat /\ dr \in Nat
    BY <1>1, <2>1, <2>2, UnderWayTyped DEF Cur, TypeInv, TypeOK
  <2>6. AtTransmitting(state.n)'
    <3>1. Len(Acks') + One(sh') + One(dr') = state.n
      BY <1>1, <2>3, <2>4, <2>5 DEF AtTransmitting, One
    <3>2. ASSUME NEW k \in 1..Len(Acks') PROVE Acks'[k]
      <4>1. k \in 1..Len(Acks) \/ k = Len(Acks) + 1
        BY <2>4, <2>5
      <4> QED BY <2>3, <2>4, <4>1 DEF AtTransmitting
    <3>3. dr = 0 <=> "TXE" \in sr1
      BY <2>3 DEF AtTransmitting
    <3>4. ("BTF" \in sr1' <=> sh' = 0) /\ ("TXE" \in sr1' <=> dr' = 0)
      BY <1>1, <2>3, <3>3 DEF AtTransmitting
    <3> QED BY <1>1, <2>3, <2>5, <3>1, <3>2, <3>4 DEF AtTransmitting
  <2>7. \A i \in 1..trans.curr - 1 : Through(i)
    BY <2>1 DEF UnderWay
  <2>8. \A i \in 1..trans.curr - 1 : Through(i)'
    BY <1>1, <2>4, <2>7, ThroughSame
  <2> QED BY <1>1, <2>1, <2>2, <2>4, <2>5, <2>6, <2>8 DEF UnderWay
<1> QED BY <1>1, <1>2, <1>3, HardwareKeeps

LEMMA ByteReceivedTransfers ==
    ASSUME TypeInv, TransferInv, ByteReceived
    PROVE  TransferInv'
<1> DEFINE ack == "ACK" \in cr1 \/ ("POS" \in cr1 /\ Len(LastOnWire.acks) + 1 = 1)
<1>1. /\ bus = "read" /\ "ADDR" \notin sr1 /\ cr1 \cap {"START", "STOP"} = {} /\ sh = 0
      /\ Len(LastOnWire.acks) + 1 > 1 => LastOnWire.acks[Len(LastOnWire.acks) + 1 - 1]
      /\ Prompt /\ itbufen => dr = 0 \/ seen
      /\ Transfer(ack)
      /\ IF dr = 0 THEN dr' = Len(LastOnWire.acks) + 1 /\ sh' = 0 /\ sr1' = sr1 \cup {"RXNE"}
                   ELSE dr' = dr /\ sh' = Len(LastOnWire.acks) + 1 /\ sr1' = sr1 \cup {"BTF"}
      /\ seen' = FALSE
      /\ UNCHANGED <<trans, state, cr1, itbufen, bus>>
  BY DEF ByteReceived, BetweenBytes, Bus
<1>2. state # Done(0)
  BY <1>1 DEF TransferInv, AtDone
<1>3. ASSUME state.at # "Done" PROVE UnderWay'
  <2>1. UnderWay
    BY <1>3 DEF TransferInv
  <2>2. state.at = "Receiving"
    <3>1. state.at \in {"StartBitSet", "AddressSent", "Transmitting", "Receiving"}
      BY <1>3, States DEF TypeInv, TypeOK
    <3> QED BY <1>1, <2>1, <3>1 DEF UnderWay, AtStartBitSet, AtAddressSent, AtTransmitting
  <2>3. AtReceiving(state.n)
    BY <2>1, <2>2 DEF UnderWay
  <2> DEFINE r == Len(Acks)
             n == state.n
  <2>4. /\ r \in Nat /\ Acks = LastOnWire.acks /\ Cur.len \in Nat /\ Cur.len >= 1
        /\ n \in 0..Cur.len - 1 /\ n \in Nat
    BY <2>1, <2>2, <2>3, UnderWayTyped DEF AtReceiving, Acks
  <2>5. /\ Len(wire') = Len(wire) /\ (\A i \in 1..trans.curr - 1 : wire'[i] = wire[i])
        /\ wire'[trans.curr].dir = wire[trans.curr].dir
        /\ Len(Acks') = r + 1 /\ (Acks'[r + 1] <=> ack)
        /\ \A k \in 1..r : Acks'[k] = Acks[k]
    BY <1>1, <2>1, <2>2, TransferIs
  <2>6. Cur' = Cur /\ \A i : trans'.buf[i] = trans.buf[i]
    BY <1>1 DEF Cur
  <2>7. r < Cur.len
    <3>1. r # 0 => Acks[r]
      BY <1>1, <2>4
    <3>2. r \in n..n + 1
      BY <1>1, <2>3, <2>4 DEF AtReceiving
    <3>3. CASE Cur.len <= 2
      <4>1. r <= Cur.len
        BY <2>3, <2>4 DEF AtReceiving
      <4>2. r # Cur.len
        <5> SUFFICES ASSUME r = Cur.len PROVE FALSE
          OBVIOUS
        <5>1. r \in 1..r /\ ~(r < Cur.len)
          BY <2>4
        <5>2. ~Acks[r]
          BY <2>3, <3>3, <5>1 DEF AtReceiving
        <5> QED BY <2>4, <3>1, <5>2
      <4> QED BY <2>4, <4>1, <4>2
    <3>4. CASE Cur.len > 2
      <4>1. n # Cur.len - 1
        BY <2>3, <3>4 DEF AtReceiving
      <4> QED BY <2>4, <3>2, <4>1
    <3> QED BY <2>4, <3>3, <3>4
  <2>8. ack <=> r + 1 < Cur.len \/ (Cur.len > 2 /\ ~Prompt /\ ack)
    <3>1. CASE Cur.len = 1
      BY <2>3, <2>4, <3>1 DEF AtReceiving
    <3>2. CASE Cur.len = 2
      BY <2>3, <2>4, <2>7, <3>2 DEF AtReceiving
    <3>3. CASE Cur.len > 2
      <4>1. r + 1 < Cur.len => "ACK" \in cr1
        BY <1>1, <2>3, <2>4, <3>3 DEF AtReceiving
      <4>2. Prompt /\ r + 1 = Cur.len => "ACK" \notin cr1 /\ r # 0
        BY <1>1, <2>3, <2>4, <3>3, SMTT(30) DEF AtReceiving
      <4> QED BY <2>4, <2>7, <3>3, <4>1, <4>2
    <3> QED BY <2>4, <3>1, <3>2, <3>3
  <2> HIDE DEF ack
  <2>9. AtReceiving(n)'
    <3> USE DEF AtReceiving
    <3>1. dr' = (IF r + 1 > n THEN n + 1 ELSE 0) /\ sh' = (IF r + 1 > n + 1 THEN n + 2 ELSE 0)
      BY <1>1, <2>3, <2>4, SMTT(30)
    <3>2. r + 1 \in n..n + 2 /\ r + 1 <= Cur.len
      BY <1>1, <2>3, <2>4, <2>7, SMTT(30)
    <3>3. ("RXNE" \in sr1' <=> dr' # 0) /\ ("BTF" \in sr1' <=> sh' # 0)
      BY <1>1, <2>3, <2>4
    <3>4. sr1' \cap {"SB", "ADDR", "TXE"} = {}
      BY <1>1, <2>3
    <3>5. ASSUME NEW k \in 1..r + 1
          PROVE  /\ k < Cur.len => Acks'[k]
                 /\ Cur.len <= 2 \/ Prompt => (Acks'[k] <=> k < Cur.len)
      <4>1. CASE k = r + 1
        <5>1. r + 1 < Cur.len => ack
          BY <2>8
        <5>2. Cur.len <= 2 \/ Prompt => (ack <=> r + 1 < Cur.len)
          BY <2>4, <2>8
        <5> QED BY <2>5, <4>1, <5>1, <5>2
      <4>2. CASE k # r + 1
        <5>1. k \in 1..r
          BY <2>4, <4>2
        <5> QED BY <2>3, <2>5, <5>1
      <4> QED BY <4>1, <4>2
    <3>6. Cur.len > 2 /\ "ACK" \notin cr1 => n = Cur.len - 2 /\ r + 1 > n
      BY <2>3, <2>4
    <3>7. Cur.len > 2 /\ Prompt =>
             /\ itbufen
             /\ n < Cur.len - 2 => sh' = 0
      BY <1>1, <2>3, <2>4
    <3> QED BY <1>1, <2>3, <2>5, <2>6, <3>1, <3>2, <3>3, <3>4, <3>5, <3>6, <3>7, SMTT(60)
  <2>10. \A i \in 1..trans.curr - 1 : Through(i)
    BY <2>1 DEF UnderWay
  <2>11. \A i \in 1..trans.curr - 1 : Through(i)'
    BY <1>1, <2>5, <2>10, ThroughSame
  <2> QED BY <1>1, <2>1, <2>2, <2>5, <2>6, <2>9, <2>11 DEF UnderWay
<1> QED BY <1>1, <1>2, <1>3, HardwareKeeps

LEMMA FaultTransfers ==
    ASSUME TypeInv, TransferInv, NEW kind, NEW flag \in Errors, Fault(kind, flag),
           Moving \/ flag = "BERR"
    PROVE  TransferInv'
<1>1. /\ sr1' = sr1 \cup {flag} /\ bus' = (IF flag = "BERR" THEN bus ELSE "lost")
      /\ UNCHANGED <<trans, state, cr1, itbufen, dr, sh, seen, wire>>
  BY DEF Fault, Bus
<1>2. \A f \in {"SB", "ADDR", "TXE", "BTF", "RXNE"} : f \in sr1' <=> f \in sr1
  BY <1>1 DEF Errors
<1>3. bus' = bus \/ (bus' = "lost" /\ (bus = "address" \/ (bus = "write" /\ sh # 0)))
  BY <1>1 DEF Moving
<1>4. Cur' = Cur /\ Acks' = Acks /\ \A i : Through(i)' <=> Through(i)
  BY <1>1, SameTransfer
<1>5. ASSUME state = Done(0) PROVE AtDone'
  BY <1>1, <1>2, <1>3, <1>4, <1>5 DEF TransferInv, AtDone
<1>6. ASSUME state.at # "Done" PROVE UnderWay'
  <2>1. UnderWay
    BY <1>6 DEF TransferInv
  <2>2. ASSUME state.at = "StartBitSet" PROVE AtStartBitSet'
    BY <1>1, <1>2, <1>3, <2>1, <2>2 DEF UnderWay, AtStartBitSet
  <2>3. ASSUME state.at = "AddressSent" PROVE AtAddressSent'
    BY <1>1, <1>2, <1>3, <1>4, <2>1, <2>3 DEF UnderWay, AtAddressSent
  <2>4. ASSUME state.at = "Transmitting" PROVE AtTransmitting(state.n)'
    BY <1>1, <1>2, <1>3, <1>4, <2>1, <2>4 DEF UnderWay, AtTransmitting
  <2>5. ASSUME state.at = "Receiving" PROVE AtReceiving(state.n)'
    BY <1>1, <1>2, <1>3, <1>4, <2>1, <2>5 DEF UnderWay, AtReceiving
  <2> QED BY <1>1, <2>1, <2>2, <2>3, <2>4, <2>5, UnderWayKept
<1> QED BY <1>1, <1>5, <1>6, HardwareKeeps

LEMMA HardwareTransfers ==
    ASSUME TypeInv, TransferInv, Hardware
    PROVE  TransferInv'
<1>1. CASE NotAcked \/ BusError
  <2>1. PICK kind \in {"address", "data", "bus"}, flag \in Errors : Fault(kind, flag) /\ (Moving \/ flag = "BERR")
    <3>1. {"AF", "ARLO", "BERR"} = Errors
      BY DEF Errors
    <3>2. \/ Moving /\ (Fault("address", "AF") \/ Fault("data", "AF") \/ Fault("bus", "ARLO"))
          \/ Fault("bus", "BERR")
      BY <1>1 DEF NotAcked, BusError, Moving
    <3> QED BY <3>1, <3>2
  <2> QED BY <2>1, FaultTransfers
<1> QED
  BY <1>1, StartConditionTransfers, StopConditionTransfers, AddressAckedTransfers,
     ByteSentTransfers, ByteReceivedTransfers DEF Hardware

-----------------------------------------------------------------------------
(* The event handler.                                                      *)
LEMMA ReadyMeans ==
    ASSUME TypeInv, TransferInv, Ready
    PROVE  UnderWay /\ state.at \in {"StartBitSet", "AddressSent", "Transmitting", "Receiving"}
<1>1. state.at # "Done"
  BY DEF Ready
<1>2. state.at \in {"StartBitSet", "AddressSent", "Transmitting", "Receiving"}
  BY <1>1, States DEF TypeInv, TypeOK
<1> QED BY <1>1, <1>2 DEF TransferInv

(* In the middle of a transaction that stays in the middle.                *)
LEMMA StillUnderWay ==
    ASSUME TransferInv, trans' = trans, UnderWay', state'.at # "Done"
    PROVE  TransferInv'
BY States DEF TransferInv, BuffersMatch

LEMMA IgnoreTransfers ==
    ASSUME TypeInv, TransferInv, Ignore, seen' = TRUE
    PROVE  TransferInv'
<1>1. /\ UNCHANGED <<trans, state, itbufen, sr1, dr, sh, bus, wire>>
      /\ cr1' = cr1 \/ /\ trans # NoTransaction /\ state.at = "Receiving" /\ cr1' = cr1 \ {"ACK"}
                       /\ state.n = Cur.len - 2 /\ "RXNE" \in sr1
      /\ trans # NoTransaction /\ state.at = "Receiving" /\ state.n = Cur.len - 2 /\ "RXNE" \in sr1
            => "ACK" \notin cr1'
  BY DEF Ignore
<1>2. Cur' = Cur /\ Acks' = Acks /\ \A i : Through(i)' <=> Through(i)
  BY <1>1, SameTransfer
<1>3. ASSUME state = Done(0) PROVE AtDone'
  BY <1>1, <1>2, <1>3, States DEF TransferInv, AtDone
<1>4. ASSUME state.at # "Done" PROVE UnderWay'
  <2>1. UnderWay
    BY <1>4 DEF TransferInv
  <2>2. ASSUME state.at = "StartBitSet" PROVE AtStartBitSet'
    BY <1>1, <2>1, <2>2 DEF UnderWay, AtStartBitSet
  <2>3. ASSUME state.at = "AddressSent" PROVE AtAddressSent'
    BY <1>1, <1>2, <2>1, <2>3 DEF UnderWay, AtAddressSent
  <2>4. ASSUME state.at = "Transmitting" PROVE AtTransmitting(state.n)'
    BY <1>1, <1>2, <2>1, <2>4 DEF UnderWay, AtTransmitting
  <2>5. ASSUME state.at = "Receiving" PROVE AtReceiving(state.n)'
    <3>1. AtReceiving(state.n) /\ trans # NoTransaction
      BY <2>1, <2>5 DEF UnderWay
    <3>2. Cur.len \in Nat /\ state.n \in Nat
      BY <2>1, <3>1, UnderWayTyped DEF AtReceiving
    <3>3. state.n < Cur.len - 2 => "RXNE" \notin sr1
      BY <2>5, <3>1, <3>2 DEF Ignore, Ready
    <3>4. Cur.len > 2 /\ Prompt =>
             /\ state.n < Cur.len - 2 => dr = 0
             /\ state.n = Cur.len - 2 /\ dr # 0 => "ACK" \notin cr1'
      BY <1>1, <2>5, <3>1, <3>2, <3>3 DEF AtReceiving
    <3>5. cr1' \subseteq cr1 /\ ("START" \in cr1' <=> "START" \in cr1) /\ ("POS" \in cr1' <=> "POS" \in cr1)
      BY <1>1
    <3>6. "ACK" \notin cr1' /\ "ACK" \in cr1 => state.n = Cur.len - 2 /\ Len(Acks) > state.n
      BY <1>1, <3>1, <3>2 DEF AtReceiving
    <3> QED BY <1>1, <1>2, <3>1, <3>2, <3>4, <3>5, <3>6 DEF AtReceiving
  <2> QED BY <1>1, <2>1, <2>2, <2>3, <2>4, <2>5, UnderWayKept
<1> QED BY <1>1, <1>3, <1>4, HardwareKeeps

LEMMA SendAddressTransfers ==
    ASSUME TypeInv, TransferInv, SendAddress
    PROVE  TransferInv'
<1> DEFINE new == [dir |-> Cur.dir, acks |-> <<>>]
<1>1. /\ Ready /\ state = StartBitSet /\ state' = AddressSent /\ sr1' = sr1 \ {"SB"}
      /\ bus' = "address" /\ wire' = Append(wire, new) /\ UNCHANGED <<trans, cr1, itbufen, dr, sh>>
  BY DEF SendAddress
<1>2. UnderWay /\ AtStartBitSet /\ "SB" \in sr1
  BY <1>1, ReadyMeans, States DEF Ready, UnderWay
<1>3. /\ trans.curr \in Nat /\ trans.curr >= 1 /\ Len(wire) = trans.curr - 1
      /\ wire \in Seq([dir : {"Read", "Write"}, acks : Seq(BOOLEAN)])
      /\ trans.curr \in 1..Len(trans.steps)
  BY <1>1, <1>2, UnderWayTyped, States DEF UnderWay
<1>4. /\ Len(wire') = trans.curr /\ wire'[trans.curr] = new
      /\ \A i \in 1..trans.curr - 1 : wire'[i] = wire[i]
  <2> HIDE DEF new
  <2> QED BY <1>1, <1>3, AppendProperties, LenProperties
<1>5. Cur' = Cur /\ Acks' = <<>> /\ \A i : trans'.buf[i] = trans.buf[i]
  BY <1>1, <1>4 DEF Cur, Acks
<1>6. AtAddressSent'
  BY <1>1, <1>2, <1>5 DEF AtStartBitSet, AtAddressSent
<1>7. \A i \in 1..trans.curr - 1 : Through(i)'
  BY <1>1, <1>2, <1>4, <1>5, ThroughSame DEF UnderWay
<1>8. UnderWay'
  BY <1>1, <1>2, <1>3, <1>4, <1>5, <1>6, <1>7, States DEF UnderWay
<1> QED BY <1>1, <1>8, States, StillUnderWay

LEMMA BeginReadTransfers ==
    ASSUME TypeInv, TransferInv, BeginRead, seen' = TRUE
    PROVE  TransferInv'
<1>1. /\ Ready /\ state = AddressSent /\ Cur.dir = "Read" /\ state' = Receiving(0)
      /\ cr1' = CASE Cur.len = 1 -> cr1 \ {"ACK"}
                  [] Cur.len = 2 -> (cr1 \ {"ACK"}) \cup {"POS"}
                  [] Cur.len > 2 -> cr1 \cup {"ACK"}
      /\ itbufen' = (itbufen \/ Cur.len # 2) /\ sr1' = sr1 \ {"ADDR"}
      /\ UNCHANGED <<trans, dr, sh, bus, wire>>
  BY DEF BeginRead
<1>2. UnderWay /\ AtAddressSent /\ "ADDR" \in sr1
  BY <1>1, ReadyMeans, States DEF Ready, UnderWay
<1>3. /\ trans.curr \in 1..Len(trans.steps) /\ Len(trans.steps) \in Nat
      /\ Cur \in Steps /\ Cur = trans.steps[trans.curr] /\ Cur.len \in Nat /\ Cur.len >= 1
  BY <1>2, UnderWayTyped
<1>4. Cur' = Cur /\ Acks' = Acks /\ (\A i : Through(i)' <=> Through(i)) /\ Len(Acks) = 0
  BY <1>1, <1>2, SameTransfer, EmptySeq DEF AtAddressSent
<1>5. ASSUME Cur.len = 1 PROVE cr1' = cr1 \ {"ACK"} /\ "POS" \notin cr1
  <2>1. Cur = [dir |-> "Read", len |-> 1]
    BY <1>1, <1>3, <1>5 DEF Steps
  <2>2. ASSUME NEW i \in 1..trans.curr, trans.steps[i] = [dir |-> "Read", len |-> 2]
        PROVE  FALSE
    <3>1. i # trans.curr
      <4> SUFFICES ASSUME i = trans.curr PROVE FALSE
        OBVIOUS
      <4>1. Cur.len = 2
        BY <1>3, <2>2
      <4> QED BY <1>5, <4>1
    <3>2. i \in 1..Len(trans.steps) /\ i < trans.curr
      BY <1>3, <3>1
    <3> QED BY <1>2, <1>3, <2>1, <2>2, <3>2 DEF TransferInv, UnderWay, Sane
  <2> QED BY <1>1, <1>2, <1>5, <2>2 DEF UnderWay
<1>6. ASSUME Cur.len = 2
      PROVE  cr1' = (cr1 \ {"ACK"}) \cup {"POS"} /\ Cur = [dir |-> "Read", len |-> 2]
  BY <1>1, <1>3, <1>6 DEF Steps
<1>7. ASSUME Cur.len > 2 PROVE cr1' = cr1 \cup {"ACK"} /\ itbufen'
  <2>1. Cur.len # 1 /\ Cur.len # 2
    BY <1>3, <1>7
  <2> QED BY <1>1, <1>7, <2>1
<1>8. Cur.len = 1 \/ Cur.len = 2 \/ Cur.len > 2
  BY <1>3
<1>9. /\ "START" \notin cr1' /\ "STOP" \notin cr1'
      /\ "POS" \in cr1' => \E i \in 1..trans.curr : trans.steps[i] = [dir |-> "Read", len |-> 2]
  <2>1. "START" \notin cr1 /\ "STOP" \notin cr1
    BY <1>2 DEF AtAddressSent, UnderWay
  <2>2. trans.curr \in 1..trans.curr
    BY <1>3
  <2>3. ASSUME "POS" \in cr1' PROVE \E i \in 1..trans.curr : trans.steps[i] = [dir |-> "Read", len |-> 2]
    <3>1. CASE Cur.len = 2
      BY <1>3, <1>6, <2>2, <3>1
    <3>2. CASE Cur.len # 2
      <4>1. "POS" \in cr1
        BY <1>5, <1>7, <1>8, <2>3, <3>2, SMTT(30)
      <4> QED BY <1>2, <4>1 DEF UnderWay
    <3> QED BY <3>1, <3>2
  <2> QED BY <1>5, <1>6, <1>7, <1>8, <2>1, <2>3
<1>10. AtReceiving(0)'
  <2>1. bus = "read" /\ sr1 \cap {"SB", "TXE", "BTF", "RXNE"} = {} /\ dr = 0 /\ sh = 0
    BY <1>1, <1>2 DEF AtAddressSent
  <2>2. Cur.len > 2 => "ACK" \in cr1'
    BY <1>7
  <2>3. Cur.len = 1 => cr1' \cap {"ACK", "POS"} = {}
    BY <1>5
  <2>4. Cur.len = 2 => "ACK" \notin cr1' /\ "POS" \in cr1'
    BY <1>6
  <2> QED BY <1>1, <1>3, <1>4, <1>7, <1>9, <2>1, <2>2, <2>3, <2>4 DEF AtReceiving
<1>11. UnderWay'
  BY <1>1, <1>2, <1>4, <1>9, <1>10, States DEF UnderWay
<1> QED BY <1>1, <1>11, States, StillUnderWay

(* A byte more is handed to the peripheral.                                *)
LEMMA WriteTransfers ==
    ASSUME TypeInv, UnderWay, TransferInv, NEW n \in 1..Cur.len, Cur.dir = "Write",
           state.at # "StartBitSet", "START" \notin cr1,
           sr1 \cap {"SB", "RXNE"} = {}, "ADDR" \in sr1 => sh = 0,
           dr = 0, Len(Acks) + One(sh) = n - 1, \A k \in 1..Len(Acks) : Acks[k],
           bus = "write" \/ (bus = "lost" /\ sh # 0),
           SendData(n), state' = Transmitting(n), UNCHANGED <<trans, cr1, bus, wire>>
    PROVE  TransferInv'
<1>1. Cur' = Cur /\ Acks' = Acks /\ \A i : Through(i)' <=> Through(i)
  BY SameTransfer
<1>2. n # 0 /\ n \in Nat /\ Len(Acks) \in Nat /\ Cur.len \in Nat
  BY UnderWayTyped
<1>3. Len(Acks') + One(sh') + One(dr') = n
  <2>1. One(sh) \in Nat /\ One(sh') \in Nat
    BY DEF One
  <2>2. CASE sh = 0
    <3>1. One(sh) = 0 /\ One(sh') = 1 /\ One(dr') = 0
      BY <1>2, <2>2 DEF SendData, One
    <3> QED BY <1>1, <1>2, <3>1
  <2>3. CASE sh # 0
    <3>1. One(sh') = One(sh) /\ One(dr') = 1
      BY <1>2, <2>3 DEF SendData, One
    <3> QED BY <1>1, <1>2, <2>1, <3>1
  <2> QED BY <2>2, <2>3
<1>4. /\ sr1' \cap {"SB", "ADDR", "RXNE"} = {}
      /\ bus' = "write" \/ (bus' = "lost" /\ sh' # 0)
      /\ sh' = 0 => dr' = 0
      /\ "BTF" \in sr1' <=> sh' = 0
      /\ "TXE" \in sr1' <=> dr' = 0
  BY <1>2 DEF SendData
<1>5. AtTransmitting(n)'
  BY <1>1, <1>2, <1>3, <1>4 DEF AtTransmitting
<1>6. UnderWay'
  BY <1>1, <1>5, States DEF UnderWay
<1> QED BY <1>6, States, StillUnderWay

LEMMA BeginWriteTransfers ==
    ASSUME TypeInv, TransferInv, BeginWrite
    PROVE  TransferInv'
<1>1. /\ Ready /\ state = AddressSent /\ Cur.dir = "Write" /\ state' = Transmitting(1)
      /\ SendData(1) /\ UNCHANGED <<trans, cr1, bus, wire>>
  BY DEF BeginWrite
<1>2. UnderWay /\ AtAddressSent /\ "ADDR" \in sr1
  BY <1>1, ReadyMeans, States DEF Ready, UnderWay
<1>3. Cur.len \in Nat /\ Cur.len >= 1 /\ state.at # "StartBitSet" /\ Len(Acks) = 0
  BY <1>1, <1>2, UnderWayTyped, States, EmptySeq DEF AtAddressSent
<1>4. 1 \in 1..Cur.len /\ Len(Acks) + One(sh) = 1 - 1 /\ \A k \in 1..Len(Acks) : Acks[k]
  BY <1>2, <1>3 DEF AtAddressSent, One
<1>5. /\ "START" \notin cr1 /\ sr1 \cap {"SB", "RXNE"} = {} /\ dr = 0 /\ sh = 0 /\ bus = "write"
  BY <1>1, <1>2 DEF AtAddressSent
<1> QED BY <1>1, <1>2, <1>3, <1>4, <1>5, WriteTransfers

LEMMA SendByteTransfers ==
    ASSUME TypeInv, TransferInv, SendByte
    PROVE  TransferInv'
<1> DEFINE n == state.n
<1>1. /\ Ready /\ state.at = "Transmitting" /\ n < Cur.len /\ state' = Transmitting(n + 1)
      /\ SendData(n + 1) /\ UNCHANGED <<trans, cr1, bus, wire>>
  BY DEF SendByte
<1>2. UnderWay /\ AtTransmitting(n) /\ "TXE" \in sr1
  BY <1>1, ReadyMeans DEF Ready, UnderWay
<1>3. Cur.len \in Nat /\ Len(Acks) \in Nat /\ n \in 1..Cur.len
  BY <1>1, <1>2, UnderWayTyped DEF AtTransmitting
<1>4. dr = 0 /\ Len(Acks) + One(sh) = (n + 1) - 1
  <2>1. dr = 0 /\ Len(Acks) + One(sh) + One(dr) = n
    BY <1>2 DEF AtTransmitting
  <2>2. One(dr) = 0 /\ One(sh) \in Nat
    BY <2>1 DEF One
  <2> QED BY <1>3, <2>1, <2>2
<1>5. n + 1 \in 1..Cur.len
  BY <1>1, <1>3
<1>6. /\ "START" \notin cr1 /\ sr1 \cap {"SB", "RXNE"} = {} /\ "ADDR" \notin sr1
      /\ Cur.dir = "Write" /\ (bus = "write" \/ (bus = "lost" /\ sh # 0))
      /\ \A k \in 1..Len(Acks) : Acks[k]
  BY <1>2 DEF AtTransmitting
<1> HIDE DEF n
<1> QED BY <1>1, <1>2, <1>4, <1>5, <1>6, WriteTransfers
(* A sequence of acknowledgements is known by its elements.                *)
LEMMA AcksAre ==
    ASSUME NEW n \in Nat, NEW a \in Seq(BOOLEAN), Len(a) = n, NEW g \in [1..n -> BOOLEAN],
           \A k \in 1..n : a[k] <=> g[k]
    PROVE  a = g
<1>1. a \in [1..n -> BOOLEAN]
  BY LenProperties
<1>2. ASSUME NEW k \in 1..n PROVE a[k] = g[k]
  <2>1. a[k] \in BOOLEAN /\ g[k] \in BOOLEAN
    BY <1>1
  <2>2. a[k] <=> g[k]
    OBVIOUS
  <2>3. CASE a[k]
    <3>1. a[k] = TRUE /\ g[k] = TRUE
      BY <2>1, <2>2, <2>3, Zenon
    <3> QED BY <3>1
  <2>4. CASE ~a[k]
    <3>1. a[k] = FALSE /\ g[k] = FALSE
      BY <2>1, <2>2, <2>4, Zenon
    <3> QED BY <3>1
  <2> QED BY <2>3, <2>4
<1> QED BY <1>1, <1>2

(* b is f but for a byte stored in its i-th buffer.                        *)
Stored(b, f, i, len, k, e) ==
    /\ b \in Seq(Seq(Nat)) /\ Len(b) = Len(f)
    /\ \A j \in 1..Len(f) : j # i => b[j] = f[j]
    /\ b[i] \in [1..len -> Nat] /\ b[i][k] = e
    /\ \A m \in 1..len : m # k => b[i][m] = f[i][m]

LEMMA StoredIn ==
    ASSUME NEW f \in Seq(Seq(Nat)), NEW i \in 1..Len(f), NEW len \in Nat, f[i] \in [1..len -> Nat],
           NEW k \in 1..len, NEW e \in Nat, NEW b, b = [f EXCEPT ![i][k] = e]
    PROVE  Stored(b, f, i, len, k, e)
<1>1. DOMAIN f = 1..Len(f)
  BY LenProperties
<1>2. f[i] \in Seq(Nat)
  BY ElementOfSeq
<1>3. b = [f EXCEPT ![i] = [f[i] EXCEPT ![k] = e]]
  OBVIOUS
<1>4. [f[i] EXCEPT ![k] = e] \in Seq(Nat)
  BY <1>2, ReplaceOne
<1>5. b \in Seq(Seq(Nat)) /\ Len(b) = Len(f)
  BY <1>3, <1>4, ExceptSeq
<1>6. b[i] = [f[i] EXCEPT ![k] = e]
  BY <1>1, <1>3
<1>7. \A j \in 1..Len(f) : j # i => b[j] = f[j]
  BY <1>1, <1>3
<1>8. /\ b[i] \in [1..len -> Nat] /\ b[i][k] = e
      /\ \A m \in 1..len : m # k => b[i][m] = f[i][m]
  BY <1>6
<1> QED BY <1>5, <1>7, <1>8 DEF Stored

(* A step is over: the last one leaves the bus to the stop condition.      *)
LEMMA StepOver ==
    ASSUME TypeInv, TransferInv, UnderWay, state.at # "StartBitSet",
           trans' # NoTransaction, trans'.steps = trans.steps, trans'.curr = NextStep,
           BuffersMatch', \A i \in 1..Len(trans.steps) : i # trans.curr => trans'.buf[i] = trans.buf[i],
           NEW c, c = trans.curr, Through(c)', wire' = wire, bus' = bus, bus \in {"read", "write"},
           dr' = 0, sh' = 0, sr1' \cap {"SB", "ADDR", "RXNE"} = {},
           NEW bits, bits \subseteq cr1, "START" \notin cr1, EndStep(bits)
    PROVE  TransferInv'
<1>1. /\ trans.curr \in 1..Len(trans.steps) /\ Len(trans.steps) \in Nat /\ trans.curr \in Nat
      /\ Len(wire) = trans.curr
  BY UnderWayTyped
<1>2. ASSUME NEW i \in 1..trans.curr PROVE Through(i)'
  <2>1. CASE i = trans.curr
    <3>1. i = c
      BY <2>1
    <3> QED BY <3>1
  <2>2. CASE i # trans.curr
    <3>1. i \in 1..trans.curr - 1 /\ i \in 1..Len(trans.steps)
      BY <1>1, <2>2
    <3>2. Through(i)
      BY <3>1 DEF UnderWay
    <3>3. trans'.buf[i] = trans.buf[i]
      BY <2>2, <3>1
    <3> QED BY <3>2, <3>3, ThroughSame
  <2> QED BY <2>1, <2>2
<1>3. Sane(trans'.steps)
  BY DEF TransferInv, UnderWay
<1>4. CASE OnLastStep
  <2>1. trans.curr = Len(trans.steps)
    BY <1>1, <1>4 DEF OnLastStep
  <2>2. cr1' = bits \cup {"STOP"} /\ state' = Done(0)
    BY <1>4 DEF EndStep
  <2>3. AtDone'
    BY <1>1, <1>2, <2>1, <2>2 DEF AtDone
  <2> QED BY <1>3, <2>2, <2>3, States DEF TransferInv
<1>5. CASE ~OnLastStep
  <2>1. /\ cr1' = bits \cup {"START"} /\ state' = StartBitSet
        /\ trans'.curr = trans.curr + 1
    BY <1>5 DEF EndStep, NextStep
  <2>2. AtStartBitSet'
    BY <2>1 DEF AtStartBitSet
  <2>3. \A i \in 1..trans'.curr - 1 : Through(i)'
    BY <1>1, <1>2, <2>1
  <2>4. "STOP" \notin cr1'
    BY <2>1 DEF UnderWay
  <2>5. ASSUME "POS" \in cr1'
        PROVE  \E i \in 1..trans'.curr : trans'.steps[i] = [dir |-> "Read", len |-> 2]
    <3>1. "POS" \in cr1
      BY <2>1, <2>5
    <3>2. PICK i \in 1..trans.curr : trans.steps[i] = [dir |-> "Read", len |-> 2]
      BY <3>1 DEF UnderWay
    <3>3. i \in 1..trans'.curr
      BY <1>1, <2>1
    <3> QED BY <3>2, <3>3
  <2>6. UnderWay'
    BY <1>1, <2>1, <2>2, <2>3, <2>4, <2>5, States DEF UnderWay
  <2>7. state' # Done(0)
    BY <2>1, States
  <2> QED BY <1>3, <2>6, <2>7 DEF TransferInv
<1> QED BY <1>4, <1>5

LEMMA EndWriteTransfers ==
    ASSUME TypeInv, TransferInv, EndWrite, trans' # NoTransaction
    PROVE  TransferInv'
<1>1. /\ Ready /\ state.at = "Transmitting" /\ state.n >= Cur.len /\ EndStep(cr1)
      /\ trans' = [trans EXCEPT !.curr = NextStep] /\ UNCHANGED <<sr1, dr, sh, bus, wire>>
  BY DEF EndWrite
<1>2. UnderWay /\ AtTransmitting(state.n) /\ "TXE" \in sr1
  BY <1>1, ReadyMeans DEF Ready, UnderWay
<1>3. /\ trans \in Transactions /\ trans.curr \in 1..Len(trans.steps) /\ Cur = trans.steps[trans.curr]
      /\ Cur.len \in Nat /\ Acks \in Seq(BOOLEAN) /\ Len(Acks) \in Nat
  BY <1>1, <1>2, UnderWayTyped
<1>4. state.n = Cur.len
  BY <1>1, <1>2, <1>3 DEF AtTransmitting
<1>5. "BTF" \in sr1
  BY <1>1, <1>4 DEF Ready
<1>6. dr = 0 /\ sh = 0 /\ bus = "write" /\ Len(Acks) = Cur.len
  <2>1. /\ sh = 0 /\ dr = 0 /\ bus = "write" /\ Len(Acks) + One(sh) + One(dr) = Cur.len
    BY <1>2, <1>4, <1>5 DEF AtTransmitting
  <2>2. One(sh) = 0 /\ One(dr) = 0
    BY <2>1 DEF One
  <2> QED BY <1>3, <2>1, <2>2
<1>7. trans'.steps = trans.steps /\ trans'.buf = trans.buf /\ trans'.curr = NextStep
  BY <1>1, <1>3 DEF Transactions
<1>8. BuffersMatch'
  BY <1>2, <1>7 DEF TransferInv, BuffersMatch, UnderWay
<1>0. PICK c : c = trans.curr
  OBVIOUS
<1>9. Through(c)'
  <2>1. Acks = [k \in 1..Cur.len |-> TRUE]
    <3>1. \A k \in 1..Cur.len : Acks[k]
      BY <1>2, <1>6 DEF AtTransmitting
    <3> QED BY <1>3, <1>6, <3>1, AcksAre
  <2>2. Cur.dir = "Write" /\ wire[trans.curr].dir = Cur.dir
    BY <1>1, <1>2 DEF UnderWay, AtTransmitting
  <2>3. /\ trans'.steps[c] = Cur /\ wire'[c] = wire[c] /\ wire[c].dir = Cur.dir
        /\ wire[c].acks = [k \in 1..Cur.len |-> TRUE]
    BY <1>0, <1>1, <1>3, <1>7, <2>1, <2>2 DEF Acks
  <2> HIDE DEF Cur
  <2> QED BY <2>2, <2>3 DEF Through
<1>10. sr1' \cap {"SB", "ADDR", "RXNE"} = {} /\ "START" \notin cr1
  BY <1>1, <1>2 DEF AtTransmitting
<1> QED BY <1>0, <1>1, <1>2, <1>6, <1>7, <1>8, <1>9, <1>10, StepOver
(* The current step's buffer.                                              *)
LEMMA CurBuffer ==
    ASSUME TypeInv, TransferInv, UnderWay
    PROVE  /\ trans.buf \in Seq(Seq(Nat)) /\ Len(trans.buf) = Len(trans.steps)
           /\ trans.curr \in 1..Len(trans.buf)
           /\ trans.buf[trans.curr] \in [1..Cur.len -> Nat]
<1>1. /\ trans \in Transactions /\ trans.curr \in 1..Len(trans.steps) /\ Cur = trans.steps[trans.curr]
      /\ trans # NoTransaction
  BY UnderWayTyped DEF UnderWay
<1>2. Len(trans.buf) = Len(trans.steps) /\ trans.buf[trans.curr] \in [1..Cur.len -> Nat]
  BY <1>1 DEF TransferInv, BuffersMatch
<1> QED BY <1>1, <1>2 DEF Transactions

(* Buffers of which the current step's changed.                            *)
LEMMA BuffersStillMatch ==
    ASSUME TypeInv, TransferInv, UnderWay, trans'.steps = trans.steps,
           Len(trans'.buf) = Len(trans.buf), trans'.buf[trans.curr] \in [1..Cur.len -> Nat],
           \A i \in 1..Len(trans.buf) : i # trans.curr => trans'.buf[i] = trans.buf[i]
    PROVE  BuffersMatch'
<1>1. Len(trans.buf) = Len(trans.steps)
      /\ \A i \in 1..Len(trans.steps) : trans.buf[i] \in [1..trans.steps[i].len -> Nat]
  BY DEF TransferInv, BuffersMatch, UnderWay
<1>2. Cur = trans.steps[trans.curr]
  BY DEF Cur
<1>3. ASSUME NEW i \in 1..Len(trans.steps)
      PROVE  trans'.buf[i] \in [1..trans.steps[i].len -> Nat]
  <2>1. CASE i = trans.curr
    BY <1>2, <2>1
  <2>2. CASE i # trans.curr
    BY <1>1, <2>2
  <2> QED BY <2>1, <2>2
<1> QED BY <1>1, <1>3 DEF BuffersMatch

(* The buffer of a Read and what went over the wire, at its end.           *)
LEMMA ReadIsThrough ==
    ASSUME TypeInv, UnderWay, state.at = "Receiving", AtReceiving(state.n), Len(Acks) = Cur.len,
           trans'.steps = trans.steps, wire' = wire,
           NEW c, c = trans.curr, trans'.buf[c] \in [1..Cur.len -> Nat],
           \A k \in 1..Cur.len : trans'.buf[c][k] = k
    PROVE  Through(c)'
<1>1. /\ Cur = trans.steps[trans.curr] /\ Cur.len \in Nat /\ Acks \in Seq(BOOLEAN)
      /\ Cur.dir = "Read" /\ wire[trans.curr].dir = Cur.dir
  BY UnderWayTyped DEF UnderWay, AtReceiving
<1>2. trans'.buf[c] = [k \in 1..Cur.len |-> k]
  OBVIOUS
<1>3. ASSUME Prompt PROVE Acks = [k \in 1..Cur.len |-> k < Cur.len]
  <2>1. \A k \in 1..Cur.len : Acks[k] <=> k < Cur.len
    BY <1>3 DEF AtReceiving
  <2> DEFINE g == [k \in 1..Cur.len |-> k < Cur.len]
  <2>2. g \in [1..Cur.len -> BOOLEAN] /\ \A k \in 1..Cur.len : g[k] <=> k < Cur.len
    <3>1. \A k \in 1..Cur.len : (k < Cur.len) \in BOOLEAN
      BY <1>1
    <3>2. g \in [1..Cur.len -> BOOLEAN]
      BY <3>1
    <3> QED BY <3>2, Zenon
  <2>3. \A k \in 1..Cur.len : Acks[k] <=> g[k]
    BY <2>1, <2>2
  <2> HIDE DEF g
  <2>4. Acks = g
    BY <1>1, <2>2, <2>3, AcksAre
  <2> QED BY <2>4 DEF g
<1>4. /\ trans'.steps[c] = Cur /\ wire'[c] = wire[c] /\ wire[c].dir = Cur.dir
      /\ Prompt => wire[c].acks = [k \in 1..Cur.len |-> k < Cur.len]
  BY <1>1, <1>3 DEF Acks
<1> QED BY <1>1, <1>2, <1>4 DEF Through

LEMMA EndReadByteTransfers ==
    ASSUME TypeInv, TransferInv, EndReadByte, trans' # NoTransaction
    PROVE  TransferInv'
<1> DEFINE b == [trans.buf EXCEPT ![trans.curr][state.n + 1] = dr]
<1>1. /\ Ready /\ state.at = "Receiving" /\ state.n = Cur.len - 1 /\ ReadData /\ EndStep(cr1)
      /\ trans' = [trans EXCEPT !.curr = NextStep, !.buf[trans.curr][state.n + 1] = dr]
      /\ UNCHANGED <<bus, wire>>
  BY DEF EndReadByte
<1>2. UnderWay /\ AtReceiving(state.n)
  BY <1>1, ReadyMeans DEF UnderWay
<1>3. /\ trans \in Transactions /\ trans.curr \in 1..Len(trans.steps)
      /\ Cur.len \in Nat /\ Len(Acks) \in Nat
  BY <1>1, <1>2, UnderWayTyped
<1>4. Cur.len = 1 /\ state.n = 0
  BY <1>1, <1>2, <1>3 DEF AtReceiving
<1>5. "RXNE" \in sr1
  BY <1>1, <1>4 DEF Ready
<1>6. dr = 1 /\ sh = 0 /\ Len(Acks) = 1
  <2>1. dr # 0 /\ dr = (IF Len(Acks) > state.n THEN state.n + 1 ELSE 0)
    BY <1>2, <1>5 DEF AtReceiving
  <2>2. Len(Acks) <= Cur.len /\ sh = (IF Len(Acks) > state.n + 1 THEN state.n + 2 ELSE 0)
    BY <1>2 DEF AtReceiving
  <2>3. Len(Acks) \in Nat
    BY <1>3
  <2>4. Len(Acks) > 0
    BY <1>4, <2>1
  <2>5. Len(Acks) <= 1
    BY <1>4, <2>2
  <2> DEFINE r == Len(Acks)
  <2>6. r \in Nat /\ r > 0 /\ r <= 1
    BY <2>3, <2>4, <2>5
  <2>7. r = 1
    <3> HIDE DEF r
    <3> QED BY <2>6
  <2>8. dr = 1 /\ sh = 0
    BY <1>4, <2>1, <2>2, <2>7
  <2> QED BY <2>7, <2>8
<1>7. trans'.steps = trans.steps /\ trans'.curr = NextStep /\ trans'.buf = b
  BY <1>1, <1>3 DEF Transactions
<1>8. Stored(b, trans.buf, trans.curr, Cur.len, 1, 1)
  <2>1. 1 \in 1..Cur.len /\ 1 \in Nat
    BY <1>4
  <2>2. b = [trans.buf EXCEPT ![trans.curr][1] = 1]
    BY <1>4, <1>6
  <2> HIDE DEF b
  <2> QED BY <1>2, <1>3, <2>1, <2>2, CurBuffer, StoredIn
<1> HIDE DEF b
<1>9. BuffersMatch'
  BY <1>2, <1>7, <1>8, BuffersStillMatch DEF Stored
<1>0. PICK c : c = trans.curr
  OBVIOUS
<1>10. Through(c)'
  <2>1. b[c] \in [1..Cur.len -> Nat] /\ \A k \in 1..Cur.len : b[c][k] = k
    BY <1>0, <1>4, <1>8 DEF Stored
  <2> QED BY <1>0, <1>1, <1>2, <1>4, <1>6, <1>7, <2>1, ReadIsThrough
<1>11. /\ dr' = 0 /\ sh' = 0 /\ sr1' \cap {"SB", "ADDR", "RXNE"} = {} /\ "START" \notin cr1
       /\ bus = "read" /\ bus' = bus /\ wire' = wire /\ state.at # "StartBitSet"
  BY <1>1, <1>2, <1>6 DEF ReadData, AtReceiving
<1>12. \A i \in 1..Len(trans.steps) : i # trans.curr => trans'.buf[i] = trans.buf[i]
  BY <1>2, <1>7, <1>8, CurBuffer DEF Stored
<1> QED BY <1>0, <1>1, <1>2, <1>7, <1>9, <1>10, <1>11, <1>12, StepOver

LEMMA EndReadTwoTransfers ==
    ASSUME TypeInv, TransferInv, EndReadTwo, trans' # NoTransaction
    PROVE  TransferInv'
<1> DEFINE n == state.n
           b == [trans.buf EXCEPT ![trans.curr][n + 1] = dr]
           c == [b EXCEPT ![trans.curr][n + 2] = sh]
           bits == IF "RXNE" \in sr1 THEN cr1 \ {"ACK"} ELSE cr1
<1>1. /\ Ready /\ state.at = "Receiving" /\ n = Cur.len - 2 /\ EndStep(bits)
      /\ trans' = [trans EXCEPT !.curr = NextStep, !.buf[trans.curr][n + 1] = dr,
                                !.buf[trans.curr][n + 2] = sh]
      /\ dr' = 0 /\ sh' = 0 /\ sr1' = sr1 \ {"RXNE", "BTF"}
      /\ UNCHANGED <<bus, wire>>
  BY DEF EndReadTwo
<1>2. UnderWay /\ AtReceiving(n)
  BY <1>1, ReadyMeans DEF UnderWay
<1>3. /\ trans \in Transactions /\ trans.curr \in 1..Len(trans.steps)
      /\ Cur.len \in Nat /\ Len(Acks) \in Nat /\ n \in Nat
  BY <1>1, <1>2, UnderWayTyped DEF AtReceiving
<1>5. "BTF" \in sr1
  BY <1>1 DEF Ready
<1>6. dr = n + 1 /\ sh = n + 2 /\ Len(Acks) = Cur.len
  BY <1>1, <1>2, <1>3, <1>5 DEF AtReceiving
<1>7. trans'.steps = trans.steps /\ trans'.curr = NextStep /\ trans'.buf = c
  BY <1>1, <1>3 DEF Transactions
<1>8. n + 1 \in 1..Cur.len /\ n + 2 \in 1..Cur.len /\ dr \in Nat /\ sh \in Nat
      /\ n + 1 # n + 2 /\ n + 2 = Cur.len
  BY <1>1, <1>3, <1>6
<1> DEFINE old == trans.buf
           i == trans.curr
<1>9. Stored(b, old, i, Cur.len, n + 1, dr)
  <2>1. b = [old EXCEPT ![i][n + 1] = dr]
    OBVIOUS
  <2> HIDE DEF b, n
  <2> QED BY <1>2, <1>3, <1>8, <2>1, CurBuffer, StoredIn
<1>10. Stored(c, b, i, Cur.len, n + 2, sh)
  <2>1. c = [b EXCEPT ![i][n + 2] = sh]
    OBVIOUS
  <2> HIDE DEF b, c, n
  <2>2. b \in Seq(Seq(Nat)) /\ i \in 1..Len(b) /\ b[i] \in [1..Cur.len -> Nat]
    BY <1>2, <1>9, CurBuffer DEF Stored
  <2> QED BY <1>3, <1>8, <2>1, <2>2, StoredIn
<1> HIDE DEF b, c, bits, n
<1>11. BuffersMatch'
  BY <1>2, <1>7, <1>9, <1>10, BuffersStillMatch DEF Stored
<1>0. PICK a : a = trans.curr
  OBVIOUS
<1>12. Through(a)'
  <2>1. ASSUME NEW k \in 1..Cur.len PROVE c[i][k] = k
    <3>1. CASE k = n + 2
      BY <1>6, <1>10, <3>1 DEF Stored
    <3>2. CASE k = n + 1
      BY <1>6, <1>8, <1>9, <1>10, <3>2 DEF Stored
    <3>3. CASE k # n + 1 /\ k # n + 2
      <4>1. k \in 1..n
        BY <1>3, <1>8, <3>3
      <4>2. c[i][k] = old[i][k]
        BY <1>9, <1>10, <3>3 DEF Stored
      <4> QED BY <1>2, <4>1, <4>2 DEF AtReceiving
    <3> QED BY <3>1, <3>2, <3>3
  <2>2. c[i] \in [1..Cur.len -> Nat]
    BY <1>10 DEF Stored
  <2> QED BY <1>0, <1>1, <1>2, <1>6, <1>7, <2>1, <2>2, ReadIsThrough DEF n
<1>13. /\ dr' = 0 /\ sh' = 0 /\ sr1' \cap {"SB", "ADDR", "RXNE"} = {} /\ "START" \notin cr1
       /\ bus = "read" /\ bus' = bus /\ wire' = wire /\ state.at # "StartBitSet"
  BY <1>1, <1>2 DEF AtReceiving
<1>14. \A j \in 1..Len(trans.steps) : j # trans.curr => trans'.buf[j] = trans.buf[j]
  BY <1>2, <1>7, <1>9, <1>10, CurBuffer DEF Stored
<1>15. bits \subseteq cr1
  BY DEF bits
<1> QED BY <1>0, <1>1, <1>2, <1>7, <1>11, <1>12, <1>13, <1>14, <1>15, StepOver

LEMMA ReadByteTransfers ==
    ASSUME TypeInv, TransferInv, ReadByte, trans' # NoTransaction, seen' = TRUE
    PROVE  TransferInv'
<1>0. PICK n : n = state.n
  OBVIOUS
<1> DEFINE b == [trans.buf EXCEPT ![trans.curr][n + 1] = dr]
<1>1. /\ Ready /\ state.at = "Receiving" /\ n < Cur.len - 2 /\ ReadData
      /\ trans' = [trans EXCEPT !.buf[trans.curr][n + 1] = dr]
      /\ state' = Receiving(n + 1) /\ UNCHANGED <<cr1, itbufen, bus, wire>>
  BY <1>0 DEF ReadByte
<1>2. UnderWay /\ AtReceiving(n)
  BY <1>0, <1>1, ReadyMeans DEF UnderWay
<1>3. /\ trans \in Transactions /\ trans.curr \in 1..Len(trans.steps) /\ Len(trans.steps) \in Nat
      /\ Cur.len \in Nat /\ Len(Acks) \in Nat /\ n \in Nat
  BY <1>1, <1>2, UnderWayTyped DEF AtReceiving
<1>4. n # Cur.len - 2 /\ Cur.len > 2 /\ n + 1 \in 1..Cur.len
  BY <1>1, <1>3
<1>5. "RXNE" \in sr1
  BY <1>0, <1>1, <1>4 DEF Ready
<1>6. dr = n + 1 /\ dr \in Nat /\ Len(Acks) > n
  BY <1>2, <1>3, <1>5 DEF AtReceiving
<1>7. trans'.steps = trans.steps /\ trans'.curr = trans.curr /\ trans'.buf = b
  BY <1>1, <1>3 DEF Transactions
<1> DEFINE old == trans.buf
           i == trans.curr
<1>8. Stored(b, old, i, Cur.len, n + 1, dr)
  <2>1. b = [old EXCEPT ![i][n + 1] = dr]
    OBVIOUS
  <2> HIDE DEF b
  <2> QED BY <1>2, <1>3, <1>4, <1>6, <2>1, CurBuffer, StoredIn
<1> HIDE DEF b
<1>9. BuffersMatch'
  BY <1>2, <1>7, <1>8, BuffersStillMatch DEF Stored
<1>10. Cur' = Cur /\ Acks' = Acks
  BY <1>1, <1>7 DEF Cur, Acks
<1>11. AtReceiving(n + 1)'
  <2>1. dr' = sh /\ sh' = 0 /\ sr1' = (sr1 \ {"RXNE", "BTF"}) \cup (IF sh # 0 THEN {"RXNE"} ELSE {})
    BY <1>1 DEF ReadData
  <2>2. \A k \in 1..n + 1 : b[i][k] = k
    <3> SUFFICES ASSUME NEW k \in 1..n + 1 PROVE b[i][k] = k
      OBVIOUS
    <3>1. CASE k = n + 1
      BY <1>6, <1>8, <3>1 DEF Stored
    <3>2. CASE k # n + 1
      <4>1. k \in 1..n /\ k \in 1..Cur.len
        BY <1>3, <1>4, <3>2
      <4> QED BY <1>2, <1>8, <3>2, <4>1 DEF AtReceiving, Stored
    <3> QED BY <3>1, <3>2
  <2>3. /\ n + 1 \in 0..Cur.len - 1 /\ n + 1 # Cur.len - 1
        /\ Len(Acks) \in n + 1..(n + 1) + 2 /\ Len(Acks) <= Cur.len
    BY <1>1, <1>2, <1>3, <1>6, SMTT(30) DEF AtReceiving
  <2>4. /\ dr' = (IF Len(Acks) > n + 1 THEN (n + 1) + 1 ELSE 0)
        /\ sh' = (IF Len(Acks) > (n + 1) + 1 THEN (n + 1) + 2 ELSE 0)
    BY <1>2, <1>3, <1>6, <2>1 DEF AtReceiving
  <2>5. ("RXNE" \in sr1' <=> dr' # 0) /\ ("BTF" \in sr1' <=> sh' # 0)
        /\ sr1' \cap {"SB", "ADDR", "TXE"} = {}
    BY <1>2, <2>1 DEF AtReceiving
  <2>6. "ACK" \in cr1
    BY <1>2, <1>3, <1>4 DEF AtReceiving
  <2>7. Prompt => itbufen /\ dr' = 0
    <3>1. n < Cur.len - 2
      BY <1>1
    <3> QED BY <1>2, <1>4, <2>1, <3>1 DEF AtReceiving
  <2>8. /\ Cur.dir = "Read" /\ bus = "read" /\ "START" \notin cr1
        /\ \A k \in 1..Len(Acks) : k < Cur.len => Acks[k]
        /\ Prompt => \A k \in 1..Len(Acks) : Acks[k] <=> k < Cur.len
    BY <1>2 DEF AtReceiving
  <2>9. Cur.len # 1 /\ Cur.len # 2 /\ ~(Cur.len <= 2)
    BY <1>3, <1>4
  <2>10. \A k \in 1..n + 1 : trans'.buf[trans'.curr][k] = k
    BY <1>7, <2>2
  <2>11. Prompt => itbufen' /\ sh' = 0 /\ dr' = 0
    BY <1>1, <2>1, <2>7
  <2> QED
    BY <1>1, <1>10, <2>3, <2>4, <2>5, <2>6, <2>8, <2>9, <2>10, <2>11 DEF AtReceiving
<1>12. \A j \in 1..trans.curr - 1 : Through(j)'
  <2> SUFFICES ASSUME NEW j \in 1..trans.curr - 1 PROVE Through(j)'
    OBVIOUS
  <2>1. j \in 1..Len(old) /\ j # trans.curr
    BY <1>2, <1>3, CurBuffer
  <2>2. Through(j)
    BY <1>2 DEF UnderWay
  <2>3. trans'.buf[j] = trans.buf[j] /\ wire'[j] = wire[j]
    BY <1>1, <1>7, <1>8, <2>1 DEF Stored
  <2> QED BY <1>7, <2>2, <2>3, ThroughSame
<1>13. UnderWay'
  BY <1>1, <1>2, <1>7, <1>10, <1>11, <1>12, States DEF UnderWay
<1>14. Sane(trans'.steps)
  BY <1>2, <1>7 DEF TransferInv, UnderWay
<1>15. state' # Done(0) /\ state'.at # "Done"
  BY <1>1, States
<1> QED BY <1>9, <1>13, <1>14, <1>15 DEF TransferInv
LEMMA EventTransfers ==
    ASSUME TypeInv, TransferInv, EventHandler
    PROVE  TransferInv'
<1>1. seen' = TRUE
  BY DEF EventHandler
<1>2. Ready => trans' # NoTransaction
  <2>1. Kept
    BY EventTyped
  <2> QED BY <2>1, I2CAssumption DEF Kept, Ready
<1>3. CASE Ignore
  BY <1>1, <1>3, IgnoreTransfers
<1>4. CASE SendAddress
  BY <1>4, SendAddressTransfers
<1>5. CASE BeginRead
  BY <1>1, <1>5, BeginReadTransfers
<1>6. CASE BeginWrite
  BY <1>6, BeginWriteTransfers
<1>7. CASE SendByte
  BY <1>7, SendByteTransfers
<1>8. CASE EndWrite
  <2>1. Ready
    BY <1>8 DEF EndWrite
  <2> QED BY <1>2, <1>8, <2>1, EndWriteTransfers
<1>9. CASE EndReadByte
  <2>1. Ready
    BY <1>9 DEF EndReadByte
  <2> QED BY <1>2, <1>9, <2>1, EndReadByteTransfers
<1>10. CASE EndReadTwo
  <2>1. Ready
    BY <1>10 DEF EndReadTwo
  <2> QED BY <1>2, <1>10, <2>1, EndReadTwoTransfers
<1>11. CASE ReadByte
  <2>1. Ready
    BY <1>11 DEF ReadByte
  <2> QED BY <1>1, <1>2, <1>11, <2>1, ReadByteTransfers
<1> QED
  BY <1>3, <1>4, <1>5, <1>6, <1>7, <1>8, <1>9, <1>10, <1>11 DEF EventHandler

(* The error handler gives the transaction up: nothing is left to be kept. *)
LEMMA ErrorTransfers ==
    ASSUME TransferInv, ErrorHandler
    PROVE  TransferInv'
<1>1. trans' = trans /\ wire' = wire /\ state' = Done(-1)
  BY DEF ErrorHandler
<1> QED BY <1>1, States DEF TransferInv, BuffersMatch

-----------------------------------------------------------------------------
(* The task's steps.                                                       *)
LEMMA BeginTransfers ==
    ASSUME TypeInv, NEW t \in Tasks, NEW p \in Programs, Begin(t, p), Sane(p)
    PROVE  TransferInv'
<1>1. /\ trans' = [owner |-> t, steps |-> p, curr |-> 1,
                   buf |-> [i \in DOMAIN p |-> [k \in 1..p[i].len |-> 0]]]
      /\ state' = StartBitSet /\ cr1' = {"START"} /\ wire' = <<>>
      /\ sr1' = {} /\ dr' = 0 /\ sh' = 0 /\ bus' = "free"
  BY DEF Begin, Reset
<1>2. p \in Seq(Steps) /\ Len(p) \in Nat /\ DOMAIN p = 1..Len(p)
  BY I2CAssumption, LenProperties
<1> DEFINE b == [i \in DOMAIN p |-> [k \in 1..p[i].len |-> 0]]
<1>3. b \in Seq(Seq(Nat))
  BY BuffersTyped
<1>4. trans' # NoTransaction /\ trans'.steps = p /\ trans'.curr = 1 /\ trans'.buf = b
  <2>1. trans' \in Transactions
    BY <1>1, <1>3 DEF Transactions
  <2> QED BY <1>1, <2>1, I2CAssumption
<1>5. Len(b) = Len(p)
  <2>1. DOMAIN b = 1..Len(p)
    BY <1>2
  <2> HIDE DEF b
  <2> QED BY <1>2, <1>3, <2>1, LenProperties
<1>6. \A i \in 1..Len(p) : b[i] \in [1..p[i].len -> Nat]
  BY <1>2
<1> HIDE DEF b
<1>7. BuffersMatch'
  BY <1>4, <1>5, <1>6 DEF BuffersMatch
<1>8. AtStartBitSet'
  BY <1>1 DEF AtStartBitSet
<1>9. UnderWay'
  <2>1. Len(wire') = 0
    BY <1>1, EmptySeq
  <2> QED BY <1>1, <1>4, <1>8, <2>1, States DEF UnderWay
<1>10. state' # Done(0)
  BY <1>1, States
<1> QED BY <1>4, <1>7, <1>9, <1>10 DEF TransferInv

LEMMA TaskTransfers ==
    ASSUME TypeInv, TransferInv, NEW t \in Tasks, Task(t),
           trans' # NoTransaction => Sane(trans'.steps)
    PROVE  TransferInv'
<1>1. CASE Call(t) \/ Poll(t) \/ Refuse(t) \/ PollAgain(t)
  <2>1. UNCHANGED <<trans, state, cr1, itbufen, sr1, dr, sh, bus, seen, wire>>
    BY <1>1 DEF Call, Poll, Enter, Refuse, PollAgain, regs
  <2> QED BY <2>1, InvSame
<1>2. ASSUME NEW p \in Programs, Begin(t, p)
      PROVE  TransferInv'
  <2>1. /\ trans' = [owner |-> t, steps |-> p, curr |-> 1,
                     buf |-> [i \in DOMAIN p |-> [k \in 1..p[i].len |-> 0]]]
        /\ trans' \in Transactions
    BY <1>2, BuffersTyped DEF Begin, Transactions
  <2>2. Sane(p)
    BY <2>1, I2CAssumption
  <2> QED BY <1>2, <2>2, BeginTransfers
<1>3. CASE PollOk(t)
  <2>1. trans' = NoTransaction /\ state = Done(0)
        /\ UNCHANGED <<state, cr1, itbufen, sr1, dr, sh, bus, seen, wire>>
    BY <1>3 DEF PollOk, regs
  <2>2. AtDone
    BY <2>1 DEF TransferInv
  <2>3. AtDone'
    BY <2>1, <2>2 DEF AtDone
  <2> QED BY <2>1, <2>3, States DEF TransferInv, BuffersMatch
<1>4. CASE PollErr(t)
  <2>1. trans' = NoTransaction /\ state' = state /\ state.at = "Done" /\ state # Done(0)
    BY <1>4 DEF PollErr
  <2> QED BY <2>1 DEF TransferInv, BuffersMatch
<1> QED BY <1>1, <1>2, <1>3, <1>4 DEF Task

LEMMA TransferInitially == Init => TransferInv
BY States DEF Init, PeripheralInit, TransferInv, BuffersMatch, AtDone

LEMMA TransferKept ==
    ASSUME TypeInv, TransferInv, [Next]_vars, trans' # NoTransaction => Sane(trans'.steps)
    PROVE  TransferInv'
<1>1. CASE UNCHANGED vars
  BY <1>1, InvSame DEF vars, regs
<1> QED
  BY <1>1, TaskTransfers, EventTransfers, ErrorTransfers, HardwareTransfers DEF Next, Interrupt

-----------------------------------------------------------------------------
(* The transaction in hand is one that was asked for, to its last step.    *)
InHandSane == trans # NoTransaction => Sane(trans.steps)

LEMMA EventLeavesSteps ==
    ASSUME TypeInv, EventHandler
    PROVE  trans' = trans \/ (trans # NoTransaction /\ trans'.steps = trans.steps)
<1>1. CASE Ready
  <2>1. trans # NoTransaction /\ trans \in Transactions
    BY <1>1 DEF Ready, TypeInv, TypeOK
  <2>2. trans' = trans \/ trans'.steps = trans.steps
    BY <1>1, <2>1
    DEF EventHandler, Ignore, SendAddress, BeginRead, BeginWrite, SendByte, EndWrite,
        EndReadByte, EndReadTwo, ReadByte, Transactions
  <2> QED BY <2>1, <2>2
<1>2. CASE ~Ready
  BY <1>2 DEF EventHandler, Ignore, SendAddress, BeginRead, BeginWrite, SendByte,
                    EndWrite, EndReadByte, EndReadTwo, ReadByte
<1> QED BY <1>1, <1>2

LEMMA StepsStay ==
    ASSUME TypeInv, [Next]_vars
    PROVE  \/ trans' = trans \/ trans' = NoTransaction
           \/ trans # NoTransaction /\ trans'.steps = trans.steps
           \/ \E p \in Programs : trans'.steps = p
<1>1. CASE \E t \in Tasks : Task(t)
  BY <1>1 DEF Task, Call, Poll, Enter, Refuse, PollAgain, PollOk, PollErr, Begin
<1>2. CASE EventHandler
  BY <1>2, EventLeavesSteps
<1>3. CASE ErrorHandler
  BY <1>3 DEF ErrorHandler
<1>4. CASE Hardware
  BY <1>4 DEF Hardware, StartCondition, StopCondition, AddressAcked, ByteSent, ByteReceived,
              NotAcked, BusError, Fault, Bus
<1>5. CASE UNCHANGED vars
  BY <1>5 DEF vars
<1> QED BY <1>1, <1>2, <1>3, <1>4, <1>5 DEF Next, Interrupt

LEMMA InHandStaysSane ==
    ASSUME TypeInv, InHandSane, [Next]_vars, \A p \in Programs : Sane(p)
    PROVE  InHandSane'
<1>1. CASE trans' = trans \/ trans' = NoTransaction
  BY <1>1 DEF InHandSane
<1>2. CASE trans # NoTransaction /\ trans'.steps = trans.steps
  BY <1>2 DEF InHandSane
<1>3. CASE \E p \in Programs : trans'.steps = p
  BY <1>3 DEF InHandSane
<1> QED BY <1>1, <1>2, <1>3, StepsStay

(* The transfer invariant holds if the transactions asked for are sane.    *)
LEMMA AlwaysTransfers ==
    ASSUME \A p \in Programs : Sane(p)
    PROVE  Spec => [](TypeInv /\ TransferInv)
<1>1. Init => InHandSane
  BY DEF Init, InHandSane
<1>2. TypeInv /\ InHandSane /\ [Next]_vars => InHandSane'
  BY InHandStaysSane
<1>3. TypeInv /\ TransferInv /\ InHandSane' /\ [Next]_vars => TransferInv'
  BY TransferKept DEF InHandSane
<1> QED BY <1>1, <1>2, <1>3, TypeInitially, TypeKept, TransferInitially, PTL DEF Spec

LEMMA QuietFollows == TransferInv => QuietWhenDone
<1>1. ASSUME TransferInv, state = Done(0), "STOP" \notin cr1
      PROVE  ~EventLine(sr1, itbufen)
  <2>1. AtDone
    BY <1>1 DEF TransferInv
  <2>2. sr1 \cap {"SB", "ADDR", "RXNE", "TXE", "BTF"} = {}
    BY <1>1, <2>1 DEF AtDone
  <2> QED BY <2>2 DEF EventLine
<1> QED BY <1>1 DEF QuietWhenDone

LEMMA LastByteFollows ==
    ASSUME Prompt, TypeInv, TransferInv
    PROVE  LastByteNotAcked
<1> SUFFICES ASSUME trans # NoTransaction, state = Done(0), NEW i \in DOMAIN trans.steps,
                    trans.steps[i].dir = "Read"
             PROVE  wire[i].acks = [k \in 1..trans.steps[i].len |-> k < trans.steps[i].len]
  BY DEF LastByteNotAcked
<1>1. trans.steps \in Seq(Steps)
  BY CurTyped DEF TypeInv
<1>2. i \in 1..Len(trans.steps)
  BY <1>1, LenProperties
<1>3. Through(i)
  BY <1>2 DEF TransferInv, AtDone
<1> QED BY <1>3 DEF Through

LEMMA TransferredFollows ==
    ASSUME TypeInv, TransferInv, trans # NoTransaction, state = Done(0)
    PROVE  Transferred
<1>1. trans.steps \in Seq(Steps)
  BY CurTyped DEF TypeInv
<1>2. DOMAIN trans.steps = 1..Len(trans.steps)
  BY <1>1, LenProperties
<1>3. Len(wire) = Len(trans.steps) /\ \A i \in 1..Len(trans.steps) : Through(i)
  BY DEF TransferInv, AtDone
<1> QED BY <1>2, <1>3 DEF Transferred, Through

(* run_transaction returns Ok only for a transaction every byte of which   *)
(* went over the wire and reached its buffer in order, and during which    *)
(* the bus reported no fault: for transactions of any length and number of *)
(* steps, any number of tasks, and every order in which the two interrupt  *)
(* handlers, the polling task and the bus take their steps, also when the  *)
(* event handler runs late.                                                *)
THEOREM OkTransactionsTransferred ==
    ASSUME \A p \in Programs : Sane(p)
    PROVE  Spec => OkMeansTransferred
<1>1. ASSUME TypeInv, TransferInv, BuffersBorrowed, NEW t \in Tasks, PollOk(t)
      PROVE  Transferred
  <2>1. state = Done(0) /\ pc[t] = "poll"
    BY <1>1 DEF PollOk
  <2>2. trans # NoTransaction
    BY <1>1, <2>1 DEF BuffersBorrowed
  <2> QED BY <1>1, <2>1, <2>2, TransferredFollows
<1>2. TypeInv /\ TransferInv /\ BuffersBorrowed /\ [\A t \in Tasks : PollOk(t) => ~fault]_vars
        => [\A t \in Tasks : PollOk(t) => Transferred /\ ~fault]_vars
  BY <1>1
<1> QED
  BY <1>2, AlwaysTransfers, BuffersStayBorrowed, FaultsAreReported, PTL DEF OkMeansTransferred

(* The event interrupt is quiet after a transaction that succeeded, once   *)
(* the stop condition is out: no flag that the handler ignores in state    *)
(* Done is left to keep it running.                                        *)
THEOREM EventQuietWhenDone ==
    ASSUME \A p \in Programs : Sane(p)
    PROVE  Spec => []QuietWhenDone
BY AlwaysTransfers, QuietFollows, PTL

(* If the event handler runs within the time of a byte, the master         *)
(* acknowledges every byte of a Read but the last, for Reads of any        *)
(* length: the acknowledge bit is taken away in the handler's call before  *)
(* the last byte begins (a Read of one byte never sets it, one of two has  *)
(* POS).                                                                   *)
THEOREM LastByteNeverAcked ==
    ASSUME \A p \in Programs : Sane(p), Prompt
    PROVE  Spec => []LastByteNotAcked
<1>1. TypeInv /\ TransferInv => LastByteNotAcked
  BY LastByteFollows
<1> QED BY <1>1, AlwaysTransfers, PTL

-----------------------------------------------------------------------------
(* The driver as its callers see it, module RunTransaction.                *)

(* The buffers hold what has been read so far: the current one the first   *)
(* bytes, those of later steps nothing.                                    *)
InOrder ==
    state.at # "Done" =>
        /\ \A i \in 1..Len(trans.steps) :
              i > trans.curr => trans.buf[i] = Service!Filled(trans.steps[i].len, 0)
        /\ trans.buf[trans.curr] =
              Service!Filled(Cur.len, IF state.at = "Receiving" THEN state.n ELSE 0)

(* The transaction in hand is the same one, with the same buffers.         *)
SameBuffers ==
    \/ trans' = trans
    \/ /\ trans # NoTransaction /\ trans' # NoTransaction
       /\ trans'.steps = trans.steps /\ trans'.buf = trans.buf

(* The handler stores the bytes behind those that are there, to the m-th.  *)
Arrive(m) ==
    /\ UnderWay /\ state.at = "Receiving" /\ AtReceiving(state.n)
    /\ m \in state.n + 1..Cur.len
    /\ trans' # NoTransaction /\ trans'.steps = trans.steps
    /\ trans'.buf \in Seq(Seq(Nat)) /\ Len(trans'.buf) = Len(trans.buf)
    /\ \A i \in 1..Len(trans.buf) : i # trans.curr => trans'.buf[i] = trans.buf[i]
    /\ trans'.buf[trans.curr] \in [1..Cur.len -> Nat]
    /\ \A k \in 1..Cur.len :
          trans'.buf[trans.curr][k] = IF state.n < k /\ k <= m THEN k ELSE trans.buf[trans.curr][k]

LEMMA OneArrives ==
    ASSUME TypeInv, TransferInv, UnderWay, state.at = "Receiving", NEW n, n = state.n,
           n + 1 \in 1..Cur.len, dr = n + 1, trans' # NoTransaction, trans'.steps = trans.steps,
           trans'.buf = [trans.buf EXCEPT ![trans.curr][n + 1] = dr]
    PROVE  Arrive(n + 1)
<1>1. AtReceiving(n) /\ n \in Nat /\ Cur.len \in Nat /\ dr \in Nat
  BY ReceivingTyped
<1>2. Stored(trans'.buf, trans.buf, trans.curr, Cur.len, n + 1, n + 1)
  BY <1>1, CurBuffer, StoredIn
<1>3. \A k \in 1..Cur.len : trans'.buf[trans.curr][k] =
          IF n < k /\ k <= n + 1 THEN k ELSE trans.buf[trans.curr][k]
  <2>1. \A k \in 1..Cur.len : (n < k /\ k <= n + 1) <=> k = n + 1
    BY <1>1
  <2> QED BY <1>2, <2>1 DEF Stored
<1>4. n + 1 \in n + 1..Cur.len
  BY <1>1
<1> QED BY <1>1, <1>2, <1>3, <1>4 DEF Arrive, Stored

LEMMA ReadArrives ==
    ASSUME TypeInv, TransferInv, EndReadByte \/ EndReadTwo \/ ReadByte, trans' # NoTransaction
    PROVE  \/ ReadByte /\ Arrive(state.n + 1)
           \/ (EndReadByte \/ EndReadTwo) /\ Arrive(Cur.len)
<1> DEFINE n == state.n
<1>1. Ready /\ state.at = "Receiving"
  BY DEF EndReadByte, EndReadTwo, ReadByte
<1>2. UnderWay /\ AtReceiving(n)
  BY <1>1, ReadyMeans DEF UnderWay
<1>3. /\ trans \in Transactions /\ Cur.len \in Nat /\ Len(Acks) \in Nat /\ n \in Nat /\ n < Cur.len
  BY <1>1, <1>2, UnderWayTyped DEF AtReceiving
<1>4. dr = (IF Len(Acks) > n THEN n + 1 ELSE 0) /\ sh = (IF Len(Acks) > n + 1 THEN n + 2 ELSE 0)
      /\ ("RXNE" \in sr1 <=> dr # 0) /\ ("BTF" \in sr1 <=> sh # 0) /\ (n = Cur.len - 1 => Cur.len = 1)
  BY <1>2 DEF AtReceiving
<1>5. CASE EndReadByte
  <2>1. n = Cur.len - 1 /\ trans' = [trans EXCEPT !.curr = NextStep, !.buf[trans.curr][n + 1] = dr]
    BY <1>5 DEF EndReadByte
  <2>2. "RXNE" \in sr1
    BY <1>1, <1>3, <2>1 DEF Ready
  <2>3. dr = n + 1 /\ n + 1 \in 1..Cur.len /\ Cur.len = n + 1
    <3>1. dr # 0
      BY <1>4, <2>2
    <3>2. Cur.len = n + 1 /\ n + 1 \in 1..Cur.len
      BY <1>3, <2>1
    <3> QED BY <1>4, <3>1, <3>2
  <2>4. trans'.steps = trans.steps /\ trans'.buf = [trans.buf EXCEPT ![trans.curr][n + 1] = dr]
    BY <1>3, <2>1 DEF Transactions
  <2> QED BY <1>1, <1>2, <1>5, <2>3, <2>4, OneArrives
<1>6. CASE ReadByte
  <2>1. n < Cur.len - 2 /\ trans' = [trans EXCEPT !.buf[trans.curr][n + 1] = dr]
    BY <1>6 DEF ReadByte
  <2>2. "RXNE" \in sr1
    BY <1>1, <1>3, <2>1 DEF Ready
  <2>3. dr = n + 1 /\ n + 1 \in 1..Cur.len
    BY <1>3, <1>4, <2>1, <2>2
  <2>4. trans'.steps = trans.steps /\ trans'.buf = [trans.buf EXCEPT ![trans.curr][n + 1] = dr]
    BY <1>3, <2>1 DEF Transactions
  <2> QED BY <1>1, <1>2, <1>6, <2>3, <2>4, OneArrives
<1>7. CASE EndReadTwo
  <2>0. PICK old, i : old = trans.buf /\ i = trans.curr
    OBVIOUS
  <2> DEFINE b == [old EXCEPT ![i][n + 1] = dr]
             c == [b EXCEPT ![i][n + 2] = sh]
  <2>1. /\ n = Cur.len - 2
        /\ trans' = [trans EXCEPT !.curr = NextStep, !.buf[trans.curr][n + 1] = dr,
                                  !.buf[trans.curr][n + 2] = sh]
    BY <1>7 DEF EndReadTwo
  <2>2. "BTF" \in sr1
    BY <1>1, <1>3, <2>1 DEF Ready
  <2>3. /\ dr = n + 1 /\ sh = n + 2 /\ n + 2 = Cur.len /\ dr \in Nat /\ sh \in Nat
        /\ n + 1 \in 1..Cur.len /\ n + 2 \in 1..Cur.len /\ n + 1 # n + 2
    BY <1>3, <1>4, <2>1, <2>2
  <2>4. trans'.steps = trans.steps /\ trans'.buf = c
    BY <1>3, <2>0, <2>1 DEF Transactions
  <2>5. Stored(b, old, i, Cur.len, n + 1, dr)
    <3>1. b = [old EXCEPT ![i][n + 1] = dr]
      OBVIOUS
    <3> HIDE DEF b
    <3> QED BY <1>2, <1>3, <2>0, <2>3, <3>1, CurBuffer, StoredIn
  <2>6. Stored(c, b, i, Cur.len, n + 2, sh)
    <3>1. c = [b EXCEPT ![i][n + 2] = sh]
      OBVIOUS
    <3>2. b \in Seq(Seq(Nat)) /\ i \in 1..Len(b) /\ b[i] \in [1..Cur.len -> Nat]
      BY <1>2, <2>0, <2>5, CurBuffer DEF Stored
    <3> HIDE DEF b, c
    <3> QED BY <1>3, <2>3, <3>1, <3>2, StoredIn
  <2> HIDE DEF b, c
  <2>7. \A k \in 1..Cur.len : c[i][k] = IF n < k /\ k <= Cur.len THEN k ELSE old[i][k]
    <3>1. \A k \in 1..Cur.len : n < k => k = n + 1 \/ k = n + 2
      BY <1>3, <2>3
    <3>2. c[i][n + 1] = n + 1 /\ c[i][n + 2] = n + 2
      BY <2>3, <2>5, <2>6 DEF Stored
    <3>3. \A k \in 1..Cur.len : ~(n < k) => c[i][k] = old[i][k]
      <4>1. \A k \in 1..Cur.len : ~(n < k) => k # n + 1 /\ k # n + 2
        BY <1>3
      <4> QED BY <2>5, <2>6, <4>1 DEF Stored
    <3>4. \A k \in 1..Cur.len : k <= Cur.len
      BY <1>3
    <3> QED BY <3>1, <3>2, <3>3, <3>4
  <2>8. /\ c \in Seq(Seq(Nat)) /\ Len(c) = Len(old) /\ c[i] \in [1..Cur.len -> Nat]
        /\ \A j \in 1..Len(old) : j # i => c[j] = old[j]
    BY <2>5, <2>6 DEF Stored
  <2>9. Cur.len \in n + 1..Cur.len
    BY <1>3
  <2> QED BY <1>1, <1>2, <1>7, <2>0, <2>4, <2>7, <2>8, <2>9 DEF Arrive
<1> QED BY <1>5, <1>6, <1>7

(* What a step of the handler makes of the buffers.                        *)
LEMMA EventArrives ==
    ASSUME TypeInv, TransferInv, EventHandler
    PROVE  SameBuffers \/ \E m \in Nat : Arrive(m)
<1>1. Ready => trans' # NoTransaction
  <2>1. Kept
    BY EventTyped
  <2> QED BY <2>1, I2CAssumption DEF Kept, Ready
<1>2. CASE EndWrite
  <2>1. Ready /\ trans' = [trans EXCEPT !.curr = NextStep]
    BY <1>2 DEF EndWrite
  <2>2. trans # NoTransaction /\ trans \in Transactions
    BY <2>1 DEF Ready, TypeInv, TypeOK
  <2> QED BY <1>1, <2>1, <2>2 DEF SameBuffers, Transactions
<1>3. CASE Ignore \/ SendAddress \/ BeginRead \/ BeginWrite \/ SendByte
  BY <1>3 DEF Ignore, SendAddress, BeginRead, BeginWrite, SendByte, SameBuffers
<1>4. CASE EndReadByte \/ EndReadTwo \/ ReadByte
  <2>1. Ready
    BY <1>4 DEF EndReadByte, EndReadTwo, ReadByte
  <2>2. \E m : Arrive(m)
    BY <1>1, <1>4, <2>1, ReadArrives
  <2>3. \A m : Arrive(m) => m \in Nat
    <3>1. ASSUME NEW m, Arrive(m) PROVE m \in Nat
      <4>1. state.n \in Nat /\ Cur.len \in Nat /\ m \in state.n + 1..Cur.len
        BY <3>1, UnderWayTyped DEF Arrive, AtReceiving
      <4> QED BY <4>1
    <3> QED BY <3>1
  <2> QED BY <2>2, <2>3
<1> QED BY <1>2, <1>3, <1>4 DEF EventHandler

-----------------------------------------------------------------------------
(* What arrives comes behind the bytes that are there.                     *)
LEMMA ArriveFills ==
    ASSUME TypeInv, InOrder, NEW m, Arrive(m)
    PROVE  /\ Cur.len \in Nat /\ state.n \in 0..Cur.len /\ m \in 0..Cur.len /\ state.n < m
           /\ trans.buf[trans.curr] = Service!Filled(Cur.len, state.n)
           /\ trans'.buf[trans.curr] = Service!Filled(Cur.len, m)
<1> DEFINE b == trans'.buf[trans.curr]
           c == trans.buf[trans.curr]
           len == Cur.len
           n == state.n
<1>1. c = Service!Filled(len, n)
  BY DEF Arrive, InOrder
<1>2. b \in [1..len -> Nat]
  BY DEF Arrive
<1>3. \A k \in 1..len : b[k] = IF n < k /\ k <= m THEN k ELSE c[k]
  BY DEF Arrive
<1>4. len \in Nat /\ n \in 0..len /\ m \in 0..len /\ n < m
  <2>1. len \in Nat /\ n \in Nat /\ n \in 0..len
    BY ReceivingTyped DEF Arrive
  <2>2. m \in n + 1..len
    BY DEF Arrive
  <2> QED BY <2>1, <2>2
<1> HIDE DEF b, c, len, n
<1>5. \A k \in 1..len : b[k] = IF k <= m THEN k ELSE 0
  BY <1>1, <1>3, <1>4 DEF Service!Filled
<1>6. b = Service!Filled(len, m)
  BY <1>2, <1>5 DEF Service!Filled
<1> QED BY <1>1, <1>4, <1>6 DEF b, c, len, n

LEMMA FilledIs ==
    ASSUME NEW len \in Nat
    PROVE  /\ Service!Filled(len, len) = [k \in 1..len |-> k]
           /\ Service!Filled(len, 0) = [k \in 1..len |-> 0]
<1>1. \A k \in 1..len : k <= len /\ ~(k <= 0)
  OBVIOUS
<1> QED BY <1>1 DEF Service!Filled

(* The step that ends leaves the buffers of later steps empty.             *)
LEMMA EndStepInOrder ==
    ASSUME TypeInv, UnderWay, InOrder, state.at # "Done", NEW bits, EndStep(bits),
           trans'.steps = trans.steps, trans'.curr = NextStep,
           \A i \in 1..Len(trans.steps) : i # trans.curr => trans'.buf[i] = trans.buf[i]
    PROVE  InOrder'
<1>1. trans.curr \in 1..Len(trans.steps) /\ Len(trans.steps) \in Nat
  BY UnderWayTyped
<1>2. CASE OnLastStep
  BY <1>2, States DEF EndStep, InOrder
<1>3. CASE ~OnLastStep
  <2>1. /\ state'.at = "StartBitSet" /\ trans'.curr = trans.curr + 1
        /\ trans.curr + 1 \in 1..Len(trans.steps)
    BY <1>1, <1>3, States DEF EndStep, NextStep, OnLastStep
  <2>2. \A i \in 1..Len(trans.steps) : i > trans.curr =>
           trans'.buf[i] = Service!Filled(trans.steps[i].len, 0)
    BY <1>1 DEF InOrder
  <2>3. \A i \in 1..Len(trans.steps) : i > trans.curr + 1 => i > trans.curr
    BY <1>1
  <2>4. Cur' = trans'.steps[trans.curr + 1]
    BY <2>1 DEF Cur
  <2>5. trans.curr + 1 > trans.curr
    BY <1>1
  <2> QED BY <1>1, <2>1, <2>2, <2>3, <2>4, <2>5 DEF InOrder
<1> QED BY <1>2, <1>3

LEMMA EventInOrder ==
    ASSUME TypeInv, TransferInv, InOrder, EventHandler
    PROVE  InOrder'
<1>1. Ready => trans' # NoTransaction
  <2>1. Kept
    BY EventTyped
  <2> QED BY <2>1, I2CAssumption DEF Kept, Ready
<1>2. CASE Ignore
  BY <1>2 DEF Ignore, InOrder, Cur
<1>3. CASE SendAddress
  BY <1>3, States DEF SendAddress, InOrder, Cur
<1>4. CASE BeginRead
  <2>1. /\ state.at = "AddressSent" /\ state'.at = "Receiving" /\ state'.n = 0 /\ trans' = trans
    BY <1>4, States DEF BeginRead
  <2> QED BY <2>1 DEF InOrder, Cur
<1>5. CASE BeginWrite \/ SendByte
  <2>1. /\ state.at \in {"AddressSent", "Transmitting"} /\ state'.at = "Transmitting" /\ trans' = trans
    BY <1>5, States DEF BeginWrite, SendByte
  <2> QED BY <2>1 DEF InOrder, Cur
<1>6. CASE EndWrite
  <2>1. Ready /\ EndStep(cr1) /\ trans' = [trans EXCEPT !.curr = NextStep]
    BY <1>6 DEF EndWrite
  <2>2. UnderWay /\ trans \in Transactions /\ state.at # "Done"
    BY <2>1, ReadyMeans, UnderWayTyped
  <2>3. trans'.steps = trans.steps /\ trans'.curr = NextStep /\ trans'.buf = trans.buf
    BY <2>1, <2>2 DEF Transactions
  <2> QED BY <2>1, <2>2, <2>3, EndStepInOrder
<1>7. CASE EndReadByte \/ EndReadTwo
  <2>1. PICK bits : EndStep(bits)
    BY <1>7 DEF EndReadByte, EndReadTwo
  <2>2. Ready /\ trans'.curr = NextStep
    <3>1. Ready
      BY <1>7 DEF EndReadByte, EndReadTwo
    <3>2. trans \in Transactions
      BY <3>1 DEF Ready, TypeInv, TypeOK
    <3> QED BY <1>7, <3>1, <3>2 DEF EndReadByte, EndReadTwo, Transactions
  <2>3. \E m : Arrive(m)
    BY <1>1, <1>7, <2>2, ReadArrives
  <2>4. /\ UnderWay /\ trans'.steps = trans.steps /\ Len(trans.buf) = Len(trans.steps)
        /\ state.at # "Done"
        /\ \A i \in 1..Len(trans.buf) : i # trans.curr => trans'.buf[i] = trans.buf[i]
    BY <2>3, CurBuffer DEF Arrive
  <2> QED BY <2>1, <2>2, <2>4, EndStepInOrder
<1>8. CASE ReadByte
  <2>0. PICK n : n = state.n
    OBVIOUS
  <2>1. Ready /\ state.at = "Receiving" /\ state' = Receiving(n + 1) /\ n < Cur.len - 2
        /\ trans' = [trans EXCEPT !.buf[trans.curr][n + 1] = dr]
    BY <1>8, <2>0 DEF ReadByte
  <2>2. UnderWay /\ trans \in Transactions
    BY <2>1, ReadyMeans, UnderWayTyped
  <2>3. trans'.curr = trans.curr
    BY <2>1, <2>2 DEF Transactions
  <2>4. Arrive(n + 1)
    <3>1. ~(EndReadByte \/ EndReadTwo)
      BY <2>0, <2>1, <2>2, UnderWayTyped DEF EndReadByte, EndReadTwo, UnderWay, AtReceiving
    <3> QED BY <1>1, <1>8, <2>0, <2>1, <3>1, ReadArrives
  <2>5. n \in Nat /\ Cur.len \in Nat /\ n + 1 \in Nat /\ n <= n + 1
    BY <2>0, <2>1, <2>2, ReceivingTyped
  <2>6. trans'.buf[trans.curr] = Service!Filled(Cur.len, n + 1)
    BY <2>4, ArriveFills
  <2>7. /\ Cur' = Cur /\ state'.at = "Receiving" /\ state'.n = n + 1
        /\ trans'.steps = trans.steps /\ Len(trans.buf) = Len(trans.steps)
    BY <2>1, <2>2, <2>3, <2>4, CurBuffer, States DEF Arrive, Cur
  <2>8. \A i \in 1..Len(trans.steps) : i > trans.curr =>
           trans'.buf[i] = Service!Filled(trans.steps[i].len, 0)
    <3>1. trans.curr \in Nat
      BY <2>2, UnderWayTyped
    <3>2. \A i \in 1..Len(trans.steps) : i > trans.curr => i # trans.curr
      BY <3>1
    <3> QED BY <2>1, <2>4, <2>7, <3>2 DEF Arrive, InOrder
  <2> QED BY <2>3, <2>6, <2>7, <2>8 DEF InOrder
<1> QED BY <1>2, <1>3, <1>4, <1>5, <1>6, <1>7, <1>8 DEF EventHandler

LEMMA AlwaysInOrder ==
    ASSUME TypeInv, TransferInv, InOrder, [Next]_vars
    PROVE  InOrder'
<1>1. CASE trans' = trans /\ state' = state
  BY <1>1 DEF InOrder, Cur
<1>2. CASE EventHandler
  BY <1>2, EventInOrder
<1>3. ASSUME NEW t \in Tasks, NEW p \in Programs, Begin(t, p)
      PROVE  InOrder'
  <2>1. /\ trans' = [owner |-> t, steps |-> p, curr |-> 1,
                     buf |-> [i \in DOMAIN p |-> [k \in 1..p[i].len |-> 0]]]
        /\ state' = StartBitSet
    BY <1>3 DEF Begin
  <2>2. /\ trans'.steps = p /\ trans'.curr = 1
        /\ trans'.buf = [i \in DOMAIN p |-> [k \in 1..p[i].len |-> 0]]
    BY <2>1
  <2>3. p \in Seq(Steps) /\ p # <<>> /\ DOMAIN p = 1..Len(p) /\ Len(p) \in Nat \ {0}
    BY I2CAssumption, LenProperties, EmptySeq
  <2>4. ASSUME NEW i \in 1..Len(p) PROVE p[i].len \in Nat
    <3>1. p[i] \in Steps
      BY <2>3, ElementOfSeq
    <3> QED BY <3>1 DEF Steps
  <2>5. ASSUME NEW i \in 1..Len(p) PROVE trans'.buf[i] = Service!Filled(p[i].len, 0)
    <3>1. trans'.buf[i] = [k \in 1..p[i].len |-> 0]
      BY <2>2, <2>3
    <3> QED BY <2>4, <3>1, FilledIs
  <2>6. 1 \in 1..Len(p) /\ Cur' = p[1] /\ state'.at = "StartBitSet"
    BY <2>1, <2>2, <2>3, States DEF Cur
  <2> QED BY <2>2, <2>5, <2>6 DEF InOrder
<1>4. CASE state'.at = "Done"
  BY <1>4 DEF InOrder
<1>5. ASSUME NEW t \in Tasks, Task(t)
      PROVE  (\E p \in Programs : Begin(t, p)) \/ (trans' = trans /\ state' = state) \/ state'.at = "Done"
  BY <1>5, States DEF Task, Call, Poll, Enter, Refuse, PollAgain, PollOk, PollErr
<1>6. CASE ErrorHandler
  BY <1>4, <1>6, States DEF ErrorHandler
<1>7. CASE Hardware
  BY <1>1, <1>7 DEF Hardware, StartCondition, StopCondition, AddressAcked, ByteSent, ByteReceived,
                    NotAcked, BusError, Fault, Bus
<1>8. CASE UNCHANGED vars
  BY <1>1, <1>8 DEF vars
<1> QED BY <1>1, <1>2, <1>3, <1>4, <1>5, <1>6, <1>7, <1>8 DEF Next, Interrupt

-----------------------------------------------------------------------------
(* The tasks' steps as steps of RunTransaction.                            *)
LEMMA CallerSame ==
    ASSUME TypeOK, NEW t \in Tasks, NEW at, pc' = [pc EXCEPT ![t] = at],
           at \in {"wait", "poll"} <=> pc[t] \in {"wait", "poll"}
    PROVE  Caller' = Caller
<1>1. pc \in [Tasks -> {"outside", "begin", "wait", "poll"}]
  BY DEF TypeOK
<1>2. \A u \in Tasks : pc'[u] \in {"wait", "poll"} <=> pc[u] \in {"wait", "poll"}
  BY <1>1
<1> QED BY <1>2 DEF Caller

LEMMA CallerEnters ==
    ASSUME TypeOK, NEW t \in Tasks, pc' = [pc EXCEPT ![t] = "wait"]
    PROVE  Caller' = [Caller EXCEPT ![t] = "served"]
<1>1. \A u \in Tasks : pc'[u] = IF u = t THEN "wait" ELSE pc[u]
  BY DEF TypeOK
<1>2. \A u \in Tasks : Caller'[u] = IF u = t THEN "served" ELSE Caller[u]
  BY <1>1 DEF Caller
<1>3. DOMAIN Caller' = Tasks /\ Caller' = [u \in Tasks |-> Caller'[u]] /\ Caller = [u \in Tasks |-> Caller[u]]
  BY DEF Caller
<1> HIDE DEF Caller
<1> QED BY <1>2, <1>3

LEMMA CallerLeaves ==
    ASSUME TypeOK, NEW t \in Tasks, pc' = [pc EXCEPT ![t] = "outside"]
    PROVE  Caller' = [Caller EXCEPT ![t] = "outside"]
<1>1. \A u \in Tasks : pc'[u] = IF u = t THEN "outside" ELSE pc[u]
  BY DEF TypeOK
<1>2. \A u \in Tasks : Caller'[u] = IF u = t THEN "outside" ELSE Caller[u]
  BY <1>1 DEF Caller
<1>3. DOMAIN Caller' = Tasks /\ Caller' = [u \in Tasks |-> Caller'[u]] /\ Caller = [u \in Tasks |-> Caller[u]]
  BY DEF Caller
<1> HIDE DEF Caller
<1> QED BY <1>2, <1>3

(* No transaction is in hand exactly when nobody is served.                *)
LEMMA NobodyServed ==
    ASSUME TypeOK, BuffersBorrowed
    PROVE  /\ \A t \in Tasks : Caller[t] = IF pc[t] \in {"wait", "poll"} THEN "served" ELSE "outside"
           /\ Service!Nobody <=> trans = NoTransaction
<1>1. \A t \in Tasks : Caller[t] = IF pc[t] \in {"wait", "poll"} THEN "served" ELSE "outside"
  BY DEF Caller
<1>2. CASE trans = NoTransaction
  BY <1>1, <1>2 DEF BuffersBorrowed, Service!Nobody
<1>3. CASE trans # NoTransaction
  <2>1. trans.owner \in Tasks /\ pc[trans.owner] \in {"wait", "poll"}
    BY <1>3 DEF TypeOK, Transactions, BuffersBorrowed
  <2> QED BY <1>1, <1>3, <2>1 DEF Service!Nobody
<1> QED BY <1>1, <1>2, <1>3

LEMMA BeginAccepts ==
    ASSUME TypeInv, BuffersBorrowed, NEW t \in Tasks, NEW p \in Programs, Begin(t, p)
    PROVE  Service!Accept(t, p)
<1>1. /\ trans = NoTransaction /\ pc' = [pc EXCEPT ![t] = "wait"] /\ result' = result
      /\ trans' = [owner |-> t, steps |-> p, curr |-> 1,
                   buf |-> [i \in DOMAIN p |-> [k \in 1..p[i].len |-> 0]]]
  BY DEF Begin, Busy
<1>2. trans' # NoTransaction
  <2>1. trans' \in Transactions
    BY <1>1, BuffersTyped DEF Transactions
  <2> QED BY <2>1, I2CAssumption
<1>3. Service!Nobody
  BY <1>1, NobodyServed DEF TypeInv
<1>4. Caller' = [Caller EXCEPT ![t] = "served"]
  BY <1>1, CallerEnters DEF TypeInv
<1>5. Asked' = p /\ Buffers' = [i \in DOMAIN p |-> [k \in 1..p[i].len |-> 0]]
  BY <1>1, <1>2 DEF Asked, Buffers
<1>6. ASSUME NEW i \in DOMAIN p
      PROVE  [k \in 1..p[i].len |-> 0] = Service!Filled(p[i].len, 0)
  <2>1. p[i] \in Steps
    BY I2CAssumption, LenProperties, ElementOfSeq
  <2> QED BY <2>1, FilledIs DEF Steps
<1>7. Buffers' = [i \in DOMAIN p |-> Service!Filled(p[i].len, 0)]
  BY <1>5, <1>6
<1> QED BY <1>1, <1>3, <1>4, <1>5, <1>7 DEF Service!Accept

(* The state is Done while there is no transaction, so that run_transaction*)
(* refuses a caller for another one's transaction only.                    *)
LEMMA RefuseRefuses ==
    ASSUME TypeInv, TransferInv, BuffersBorrowed, NEW t \in Tasks, Refuse(t)
    PROVE  Service!Refuse(t)
<1>1. /\ pc[t] = "begin" /\ Busy /\ pc' = [pc EXCEPT ![t] = "outside"]
      /\ result' = [result EXCEPT ![t] = "Err"] /\ trans' = trans
  BY DEF Refuse, Return
<1>2. trans # NoTransaction
  BY <1>1 DEF Busy, TransferInv, UnderWay
<1>3. Caller[t] = "outside" /\ ~Service!Nobody
  BY <1>1, <1>2, NobodyServed DEF TypeInv
<1>4. Caller' = Caller
  BY <1>1, CallerSame DEF TypeInv
<1> QED BY <1>1, <1>3, <1>4 DEF Service!Refuse, Asked, Buffers

LEMMA ReturnReturns ==
    ASSUME TypeInv, BuffersBorrowed, NEW t \in Tasks, NEW r, pc[t] = "poll",
           trans' = NoTransaction, Return(t, r)
    PROVE  Service!Return(t, r)
<1>1. Caller[t] = "served"
  BY NobodyServed DEF TypeInv
<1>2. Caller' = [Caller EXCEPT ![t] = "outside"]
  BY CallerLeaves DEF Return, TypeInv
<1> QED BY <1>1, <1>2 DEF Service!Return, Return, Asked, Buffers

LEMMA OkSucceeds ==
    ASSUME TypeInv, TransferInv, BuffersBorrowed, NEW t \in Tasks, PollOk(t)
    PROVE  Service!Succeed(t)
<1>1. trans # NoTransaction /\ state = Done(0) /\ Service!Return(t, "Ok")
  BY ReturnReturns DEF PollOk, BuffersBorrowed
<1>2. Asked = trans.steps /\ Buffers = trans.buf
  BY <1>1 DEF Asked, Buffers
<1>3. ASSUME NEW i \in DOMAIN Asked, Asked[i].dir = "Read"
      PROVE  Buffers[i] = Service!Filled(Asked[i].len, Asked[i].len)
  <2>1. Buffers[i] = [k \in 1..Asked[i].len |-> k]
    BY <1>1, <1>2, <1>3, TransferredFollows DEF Transferred
  <2>2. Asked[i] \in Steps
    BY <1>1, <1>2, CurTyped, LenProperties, ElementOfSeq DEF TypeInv
  <2> QED BY <2>1, <2>2, FilledIs DEF Steps
<1> QED BY <1>1, <1>3 DEF Service!Succeed, Service!Full

LEMMA TaskServes ==
    ASSUME TypeInv, TransferInv, BuffersBorrowed, NEW t \in Tasks, Task(t)
    PROVE  [Service!Next]_(Service!vars)
<1>1. CASE Call(t) \/ Poll(t) \/ PollAgain(t)
  <2>1. Caller' = Caller
    <3>1. CASE Call(t)
      BY <3>1, CallerSame DEF Call, Enter, TypeInv
    <3>2. CASE Poll(t)
      BY <3>2, CallerSame DEF Poll, Enter, TypeInv
    <3>3. CASE PollAgain(t)
      BY <3>3, CallerSame DEF PollAgain, TypeInv
    <3> QED BY <1>1, <3>1, <3>2, <3>3
  <2>2. trans' = trans /\ result' = result
    BY <1>1 DEF Call, Poll, Enter, PollAgain
  <2> QED BY <2>1, <2>2 DEF Service!vars, Asked, Buffers
<1>2. CASE \E p \in Programs : Begin(t, p)
  BY <1>2, BeginAccepts DEF Service!Next
<1>3. CASE Refuse(t)
  BY <1>3, RefuseRefuses DEF Service!Next
<1>4. CASE PollOk(t)
  BY <1>4, OkSucceeds DEF Service!Next
<1>5. CASE PollErr(t)
  BY <1>5, ReturnReturns DEF PollErr, Service!Fail, Service!Next
<1> QED BY <1>1, <1>2, <1>3, <1>4, <1>5 DEF Task


(* The byte that arrives is the current Read's: those before it are full.  *)
LEMMA ArriveServes ==
    ASSUME TypeInv, InOrder, NEW m, Arrive(m), result' = result, Caller' = Caller
    PROVE  Service!Next
<1> DEFINE i == trans.curr
<1>1. /\ trans # NoTransaction /\ trans' # NoTransaction /\ trans'.steps = trans.steps
      /\ Cur.dir = "Read" /\ UnderWay
  BY DEF Arrive, UnderWay, AtReceiving
<1>2. /\ i \in 1..Len(trans.steps) /\ DOMAIN trans.steps = 1..Len(trans.steps)
      /\ Cur = trans.steps[i] /\ trans.steps \in Seq(Steps) /\ i \in Nat
  BY <1>1, UnderWayTyped, LenProperties
<1>3. Asked = trans.steps /\ Buffers = trans.buf /\ Asked' = trans.steps /\ Buffers' = trans'.buf
  BY <1>1 DEF Asked, Buffers
<1>4. ASSUME NEW j \in 1..i - 1 PROVE Service!Full(j)
  <2>1. trans.steps[j] \in Steps
    <3>1. j \in 1..Len(trans.steps)
      BY <1>2, LenProperties
    <3> QED BY <1>2, <3>1, ElementOfSeq
  <2>2. Through(j)
    BY <1>1 DEF UnderWay
  <2>3. Service!Filled(trans.steps[j].len, trans.steps[j].len) = [k \in 1..trans.steps[j].len |-> k]
    BY <2>1, FilledIs DEF Steps
  <2> QED BY <1>3, <2>2, <2>3 DEF Through, Service!Full
<1>5. Buffers' = [Buffers EXCEPT ![i] = trans'.buf[i]]
  <2>1. /\ trans.buf \in Seq(Seq(Nat)) /\ trans'.buf \in Seq(Seq(Nat)) /\ Len(trans'.buf) = Len(trans.buf)
        /\ \A j \in 1..Len(trans.buf) : j # i => trans'.buf[j] = trans.buf[j]
    BY <1>1 DEF Arrive, TypeInv, TypeOK, Transactions
  <2>2. /\ trans'.buf \in [1..Len(trans.buf) -> Seq(Nat)]
        /\ trans.buf \in [1..Len(trans.buf) -> Seq(Nat)]
    BY <2>1, LenProperties
  <2>3. trans'.buf = [trans.buf EXCEPT ![i] = trans'.buf[i]]
    <3> DEFINE b == trans'.buf
               c == trans.buf
               n == Len(trans.buf)
    <3>1. b \in [1..n -> Seq(Nat)] /\ c \in [1..n -> Seq(Nat)] /\ \A j \in 1..n : j # i => c[j] = b[j]
      BY <2>1, <2>2
    <3> HIDE DEF b, c, n
    <3>2. b = [c EXCEPT ![i] = b[i]]
      BY <3>1
    <3> QED BY <3>2 DEF b, c
  <2> QED BY <1>3, <2>3
<1>6. /\ state.n \in 0..Asked[i].len /\ m \in 0..Asked[i].len /\ state.n < m
      /\ Buffers[i] = Service!Filled(Asked[i].len, state.n)
      /\ trans'.buf[i] = Service!Filled(Asked[i].len, m)
  BY <1>2, <1>3, ArriveFills
<1>7. Service!Fill(i, state.n, m)
  BY <1>1, <1>2, <1>3, <1>4, <1>5, <1>6 DEF Service!Fill
<1> QED BY <1>2, <1>3, <1>6, <1>7 DEF Service!Next

LEMMA StepsServe ==
    ASSUME TypeInv, TransferInv, InOrder, BuffersBorrowed, [Next]_vars
    PROVE  [Service!Next]_(Service!vars)
<1>1. CASE \E t \in Tasks : Task(t)
  BY <1>1, TaskServes
<1>2. ASSUME SameBuffers, UNCHANGED <<pc, result>>
      PROVE  [Service!Next]_(Service!vars)
  BY <1>2 DEF SameBuffers, Service!vars, Caller, Asked, Buffers
<1>3. CASE EventHandler
  <2>1. pc' = pc /\ result' = result
    BY <1>3 DEF EventHandler
  <2>2. Caller' = Caller
    BY <2>1 DEF Caller
  <2> QED BY <1>2, <1>3, <2>1, <2>2, EventArrives, ArriveServes
<1>4. CASE ErrorHandler \/ Hardware \/ UNCHANGED vars
  <2>1. UNCHANGED <<pc, result, trans>>
    BY <1>4 DEF vars, ErrorHandler, Hardware, StartCondition, StopCondition, AddressAcked,
                ByteSent, ByteReceived, NotAcked, BusError, Fault, Bus
  <2> QED BY <1>2, <2>1 DEF SameBuffers
<1> QED BY <1>1, <1>3, <1>4 DEF Next, Interrupt

LEMMA ServiceInitially == Init => Service!Init
BY DEF Init, Service!Init, Caller, Asked, Buffers

(* To its callers the driver is module RunTransaction, for transactions of *)
(* any length and number of steps and any number of tasks: one of them is  *)
(* served at a time, the bytes a device sends reach its buffers each once  *)
(* and in their order, and nothing else is written to these; it gets Ok    *)
(* only when every Read is full, and the others Err only because of it.    *)
THEOREM DriverServesCallers ==
    ASSUME \A p \in Programs : Sane(p)
    PROVE  Spec => ServesCallers
<1>1. Init => InOrder
  BY States DEF Init, InOrder
<1>2. Spec => [](TypeInv /\ TransferInv)
  BY AlwaysTransfers
<1>3. TypeInv /\ TransferInv /\ InOrder /\ [Next]_vars => InOrder'
  BY AlwaysInOrder
<1>4. TypeInv /\ TransferInv /\ InOrder /\ BuffersBorrowed /\ [Next]_vars
        => [Service!Next]_(Service!vars)
  BY StepsServe
<1> QED
  BY <1>1, <1>2, <1>3, <1>4, ServiceInitially, BuffersStayBorrowed, PTL
  DEF Spec, ServesCallers, Service!Spec

=============================================================================
