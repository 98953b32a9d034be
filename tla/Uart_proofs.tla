---------------------------- MODULE Uart_proofs ----------------------------
(***************************************************************************)
(* For both boards, buffers of any length and any number of characters:    *)
(* what leaves the transmitter is what was written to bsp_tx_buffer, in    *)
(* that order.                                                             *)
(***************************************************************************)
EXTENDS Uart, SequenceTheorems, TLAPS

Numbers == Nat \ {0}
UpTo(n) == [i \in 1..n |-> i]

(* The types on the way out, and what the handler knows between its look   *)
(* at TXE and its write to the data register: nobody else writes to it.    *)
TxTypes ==
    /\ {tdr, shift, written} \subseteq Nat
    /\ bsp_tx_buffer \in Seq(Numbers) /\ wire \in Seq(Numbers)
StillEmpty == pc = "send" => tdr = 0
TxInv == TxTypes /\ StillEmpty /\ TxInOrder

LEMMA RegisterType == \A c \in Nat : Register(c) \in Seq(Numbers)
<1> SUFFICES ASSUME NEW c \in Nat PROVE Register(c) \in Seq(Numbers)
  OBVIOUS
<1>1. CASE c = 0
  BY <1>1 DEF Register
<1>2. CASE c # 0
  BY <1>2 DEF Register, Numbers
<1> QED
  BY <1>1, <1>2

LEMMA UpToType == \A n \in Nat : UpTo(n) \in Seq(Numbers) /\ Len(UpTo(n)) = n
  BY DEF UpTo, Numbers

LEMMA Associative ==
    \A s, t, u \in Seq(Numbers) : (s \o t) \o u = s \o (t \o u)
  BY ConcatAssociative, SMTT(60)

(* One more number is written.                                             *)
LEMMA UpToNext == \A n \in Nat : UpTo(n + 1) = UpTo(n) \o <<n + 1>>
<1> SUFFICES ASSUME NEW n \in Nat PROVE UpTo(n + 1) = UpTo(n) \o <<n + 1>>
  OBVIOUS
<1>1. UpTo(n) \in Seq(Numbers) /\ Len(UpTo(n)) = n
  BY UpToType
<1>2. UpTo(n + 1) \in Seq(Numbers) /\ Len(UpTo(n + 1)) = n + 1
  BY UpToType
<1>3. <<n + 1>> \in Seq(Numbers) /\ Len(<<n + 1>>) = 1 /\ <<n + 1>>[1] = n + 1
  BY DEF Numbers
<1>4. /\ UpTo(n) \o <<n + 1>> \in Seq(Numbers)
      /\ Len(UpTo(n) \o <<n + 1>>) = n + 1
      /\ \A i \in 1..(n + 1) :
            (UpTo(n) \o <<n + 1>>)[i] = IF i <= n THEN UpTo(n)[i] ELSE <<n + 1>>[i - n]
  BY <1>1, <1>3, ConcatProperties
<1>5. ASSUME NEW i \in 1..(n + 1)
      PROVE  UpTo(n + 1)[i] = (UpTo(n) \o <<n + 1>>)[i]
  <2>1. CASE i <= n
    BY <1>4, <2>1 DEF UpTo
  <2>2. CASE i = n + 1
    BY <1>3, <1>4, <2>2 DEF UpTo
  <2>3. i <= n \/ i = n + 1
    BY <1>5
  <2> QED
    BY <2>1, <2>2, <2>3
<1> QED
  BY <1>2, <1>4, <1>5, SeqEqual

(* A queue is its first element and the rest.                              *)
LEMMA HeadAndTail ==
    \A s \in Seq(Numbers) : s # <<>> => /\ Head(s) \in Numbers /\ Tail(s) \in Seq(Numbers)
                                        /\ s = <<Head(s)>> \o Tail(s)
<1> SUFFICES ASSUME NEW s \in Seq(Numbers), s # <<>>
             PROVE  /\ Head(s) \in Numbers /\ Tail(s) \in Seq(Numbers)
                    /\ s = <<Head(s)>> \o Tail(s)
  OBVIOUS
<1>1. /\ Head(s) \in Numbers /\ Tail(s) \in Seq(Numbers) /\ Len(Tail(s)) = Len(s) - 1
      /\ \A i \in 1..Len(Tail(s)) : Tail(s)[i] = s[i + 1]
  BY HeadTailProperties
<1>2. <<Head(s)>> \in Seq(Numbers) /\ Len(<<Head(s)>>) = 1 /\ <<Head(s)>>[1] = s[1]
  BY <1>1
<1>3. /\ <<Head(s)>> \o Tail(s) \in Seq(Numbers)
      /\ Len(<<Head(s)>> \o Tail(s)) = 1 + Len(Tail(s))
      /\ \A i \in 1..(1 + Len(Tail(s))) : (<<Head(s)>> \o Tail(s))[i] =
             IF i <= 1 THEN <<Head(s)>>[i] ELSE Tail(s)[i - 1]
  BY <1>1, <1>2, ConcatProperties
<1>4. Len(s) \in Nat
  BY LenProperties
<1>5. ASSUME NEW i \in 1..Len(s) PROVE s[i] = (<<Head(s)>> \o Tail(s))[i]
  <2>1. CASE i = 1
    BY <1>1, <1>2, <1>3, <1>4, <2>1
  <2>2. CASE i > 1
    <3>1. i - 1 \in 1..Len(Tail(s)) /\ Tail(s)[i - 1] = s[i]
      BY <1>1, <1>4, <2>2
    <3> QED
      BY <1>1, <1>3, <1>4, <2>2, <3>1
  <2> QED
    BY <1>4, <2>1, <2>2
<1> QED
  BY <1>1, <1>3, <1>4, <1>5, SeqEqual

-----------------------------------------------------------------------------
LEMMA TxInvInit == UartInit => TxInv
<1> SUFFICES ASSUME UartInit PROVE TxInv
  OBVIOUS
<1>1. TxTypes /\ StillEmpty
  BY DEF UartInit, TxTypes, StillEmpty
<1>2. TxInOrder
  <2>1. Register(0) = <<>> /\ UpTo(0) = <<>>
    BY DEF Register, UpTo
  <2> QED
    BY <2>1 DEF UartInit, TxInOrder, UpTo
<1> QED
  BY <1>1, <1>2 DEF TxInv

LEMMA TxInvNext == TxInv /\ [UartNext]_vars => TxInv'
<1> SUFFICES ASSUME TxInv, [UartNext]_vars PROVE TxInv'
  OBVIOUS
<1> USE DEF TxInv
<1>t. /\ tdr \in Nat /\ shift \in Nat /\ written \in Nat
      /\ bsp_tx_buffer \in Seq(Numbers) /\ wire \in Seq(Numbers)
  BY DEF TxTypes
<1>o. wire \o Register(shift) \o Register(tdr) \o bsp_tx_buffer = UpTo(written)
  BY DEF TxInOrder, UpTo
<1>r. /\ Register(tdr) \in Seq(Numbers) /\ Register(shift) \in Seq(Numbers)
      /\ Register(0) = <<>> /\ \A c \in Numbers : Register(c) = <<c>>
  BY <1>t, RegisterType DEF Register, Numbers
<1>w. wire \o Register(shift) \in Seq(Numbers)
  BY <1>t, <1>r, ConcatProperties
<1>1. CASE /\ UNCHANGED <<tdr, shift, written, bsp_tx_buffer, wire>>
           /\ pc' = "send" => pc = "send" \/ tdr = 0
  BY <1>1 DEF TxTypes, StillEmpty, TxInOrder, Register
<1>2. CASE Send
  <2>0. tdr = 0
    BY <1>2 DEF Send, StillEmpty
  <2>1. CASE bsp_tx_buffer = <<>>
    BY <1>1, <1>2, <2>0, <2>1 DEF Send, txRegs
  <2>2. CASE bsp_tx_buffer # <<>>
    <3>1. /\ tdr' = Head(bsp_tx_buffer) /\ bsp_tx_buffer' = Tail(bsp_tx_buffer)
          /\ pc' = "none" /\ UNCHANGED <<shift, wire, written>>
      BY <1>2, <2>2 DEF Send
    <3>2. /\ tdr' \in Numbers /\ bsp_tx_buffer' \in Seq(Numbers)
          /\ bsp_tx_buffer = <<tdr'>> \o bsp_tx_buffer'
      BY <1>t, <2>2, <3>1, HeadAndTail
    <3>3. Register(tdr)  = <<>> /\ Register(tdr') = <<tdr'>> /\ <<tdr'>> \in Seq(Numbers)
      BY <1>r, <2>0, <3>2
    <3>4. (wire \o Register(shift)) \o <<>> = wire \o Register(shift)
      BY <1>w, ConcatEmptySeq
    <3>5. ((wire \o Register(shift)) \o <<tdr'>>) \o bsp_tx_buffer' = UpTo(written)
      <4>1. ((wire \o Register(shift)) \o <<tdr'>>) \o bsp_tx_buffer'
              = (wire \o Register(shift)) \o (<<tdr'>> \o bsp_tx_buffer')
        BY <1>w, <3>2, <3>3, Associative
      <4>2. (wire \o Register(shift)) \o bsp_tx_buffer = UpTo(written)
        BY <1>o, <3>3, <3>4
      <4> QED
        BY <3>2, <4>1, <4>2
    <3>6. TxInOrder'
      BY <3>1, <3>3, <3>5 DEF TxInOrder, UpTo, Register
    <3> QED
      BY <1>t, <3>1, <3>2, <3>6 DEF TxTypes, StillEmpty, Numbers
  <2> QED
    BY <2>1, <2>2
<1>3. CASE TaskWrite
  <2>1. /\ bsp_tx_buffer' = Append(bsp_tx_buffer, written + 1) /\ written' = written + 1
        /\ pc' = "none" /\ UNCHANGED <<tdr, shift, wire>>
    BY <1>3 DEF TaskWrite, txRegs
  <2> DEFINE Before == (wire \o Register(shift)) \o Register(tdr)
  <2>2. Before \in Seq(Numbers)
    BY <1>r, <1>w, ConcatProperties
  <2>3. <<written + 1>> \in Seq(Numbers) /\ bsp_tx_buffer' = bsp_tx_buffer \o <<written + 1>>
    <3>1. written + 1 \in Numbers
      BY <1>t DEF Numbers
    <3> QED
      BY <1>t, <2>1, <3>1, AppendIsConcat
  <2>4. bsp_tx_buffer' \in Seq(Numbers)
    BY <1>t, <2>3, ConcatProperties
  <2>5. Before \o bsp_tx_buffer' = (Before \o bsp_tx_buffer) \o <<written + 1>>
    BY <1>t, <2>2, <2>3, Associative
  <2>6. Before \o bsp_tx_buffer' = UpTo(written')
    BY <1>o, <1>t, <2>1, <2>5, UpToNext
  <2>7. TxInOrder'
    BY <2>1, <2>6 DEF TxInOrder, UpTo, Register
  <2> QED
    BY <1>t, <2>1, <2>4, <2>7 DEF TxTypes, StillEmpty
<1>4. CASE Load
  <2>1. /\ tdr # 0 /\ shift = 0 /\ shift' = tdr /\ tdr' = 0
        /\ UNCHANGED <<pc, wire, written, bsp_tx_buffer>>
    BY <1>4 DEF Load, txSide
  <2>2. (wire \o <<>>) \o Register(tdr) = (wire \o Register(tdr)) \o <<>>
    <3>1. wire \o Register(tdr) \in Seq(Numbers)
      BY <1>t, <1>r, ConcatProperties
    <3> QED
      BY <1>t, <3>1, ConcatEmptySeq
  <2>3. wire \o Register(tdr) \o Register(0) \o bsp_tx_buffer = UpTo(written)
    BY <1>o, <1>r, <2>1, <2>2
  <2>4. TxInOrder'
    BY <2>1, <2>3 DEF TxInOrder, UpTo, Register
  <2> QED
    BY <1>t, <2>1, <2>4 DEF TxTypes, StillEmpty
<1>5. CASE Leaves
  <2>1. /\ shift # 0 /\ wire' = Append(wire, shift) /\ shift' = 0
        /\ UNCHANGED <<pc, tdr, written, bsp_tx_buffer>>
    BY <1>5 DEF Leaves, txSide
  <2>2. shift \in Numbers /\ Register(shift) = <<shift>>
    BY <1>t, <1>r, <2>1 DEF Numbers
  <2>3. wire' = wire \o Register(shift) /\ wire' \in Seq(Numbers)
    BY <1>t, <1>w, <2>1, <2>2, AppendIsConcat
  <2>4. wire' \o Register(0) = wire \o Register(shift)
    BY <1>r, <2>3, ConcatEmptySeq
  <2>5. wire' \o Register(0) \o Register(tdr) \o bsp_tx_buffer = UpTo(written)
    BY <1>o, <2>4
  <2>6. TxInOrder'
    BY <2>1, <2>5 DEF TxInOrder, UpTo, Register
  <2> QED
    BY <1>t, <2>1, <2>3, <2>6 DEF TxTypes, StillEmpty
<1>6. CASE Look
  <2>1. pc' = "send" => tdr = 0
    <3>1. CASE pc = "RXNE"
      BY <1>6, <3>1 DEF Look, IsSet, Serve, Chain
    <3>2. CASE pc = "ORE"
      BY <1>6, <3>2 DEF Look, IsSet, Serve, Chain
    <3>3. CASE pc = "TXE"
      <4>1. IsSet[pc] = (tdr = 0) /\ Chain[pc] \in {"none", "ORE"}
        BY <3>3 DEF IsSet, Chain
      <4> QED
        BY <1>6, <3>3, <4>1 DEF Look
    <3> QED
      BY <1>6, <3>1, <3>2, <3>3 DEF Look, Flags
  <2> QED
    BY <1>1, <1>6, <2>1 DEF Look, txRegs, txSide
<1>7. CASE Enter \/ Read \/ ClearOverrun \/ enable_tx_interrupt \/ TaskRead \/ Arrives
  BY <1>1, <1>7 DEF Enter, Read, ClearOverrun, enable_tx_interrupt, TaskRead, Arrives,
                    txRegs, txSide
<1>8. CASE UNCHANGED vars
  BY <1>1, <1>8 DEF vars, txRegs, txSide
<1> QED
  BY <1>2, <1>3, <1>4, <1>5, <1>6, <1>7, <1>8 DEF UartNext, Handler

(* Nothing written to bsp_tx_buffer is lost, doubled or reordered on its   *)
(* way to the wire (usart2_isr and usart1_isr of the boards' bsp.c), for   *)
(* buffers of any length.                                                  *)
THEOREM SentInOrder == UartSpec => []TxInOrder
<1>1. UartSpec => []TxInv
  BY TxInvInit, TxInvNext, PTL DEF UartSpec
<1>2. TxInv => TxInOrder
  BY DEF TxInv
<1> QED
  BY <1>1, <1>2, PTL

-----------------------------------------------------------------------------
(* The way in.  The data register holds the latest character that was not  *)
(* overrun, and nothing that was heard came after it.                      *)
Heard == {heard[i] : i \in 1..Len(heard)}
One(flag) == IF flag THEN 1 ELSE 0

RxTypes ==
    /\ arrived \in Nat /\ rdr \in 0..arrived /\ heard \in Seq(Nat)
    /\ rxne \in BOOLEAN /\ ore \in BOOLEAN /\ ore_read \in BOOLEAN
Holds ==
    /\ rxne \/ ore => rdr # 0
    /\ ~rxne /\ rdr # 0 => rdr \in Heard \cup dropped
    /\ \A i \in 1..Len(heard) : heard[i] <= rdr

(* A read of the data register takes its character, or clears an overrun:  *)
(* so there are no more reads than characters.                             *)
HasCause == pc = "read" => rxne \/ (ore /\ ore_read /\ board = "F411")
NotTooMany == Len(heard) + One(rxne) + One(ore) <= arrived

RxInv == RxTypes /\ Holds /\ HasCause /\ NotTooMany /\ RxAccounted

LEMMA HeardGrows ==
  ASSUME RxInv, heard' = Append(heard, rdr)
  PROVE  /\ heard' \in Seq(Nat) /\ Len(heard') = Len(heard) + 1 /\ Len(heard) \in Nat
         /\ Heard' = Heard \cup {rdr}
         /\ \A i \in 1..Len(heard') : heard'[i] <= rdr
         /\ \A i \in 1..Len(heard') - 1 : heard'[i] <= heard'[i + 1]
<1>1. heard \in Seq(Nat) /\ rdr \in Nat /\ Len(heard) \in Nat
  BY LenProperties DEF RxInv, RxTypes
<1>2. /\ heard' \in Seq(Nat) /\ Len(heard') = Len(heard) + 1
      /\ \A i \in 1..Len(heard) : heard'[i] = heard[i]
      /\ heard'[Len(heard) + 1] = rdr
  BY <1>1, AppendProperties
<1>3. Heard' = Heard \cup {rdr}
  BY <1>1, <1>2 DEF Heard
<1>4. \A i \in 1..Len(heard') : heard'[i] <= rdr
  BY <1>1, <1>2 DEF RxInv, Holds
<1>5. \A i \in 1..Len(heard') - 1 : heard'[i] <= heard'[i + 1]
  BY <1>1, <1>2, SMTT(60) DEF RxInv, Holds, RxAccounted
<1>6. QED
  BY <1>1, <1>2, <1>3, <1>4, <1>5

LEMMA ReadKeeps == ASSUME RxInv, Read PROVE RxInv'
<1>1. /\ pc = "read" /\ pc' = "none" /\ rxne' = FALSE /\ ore_read' = FALSE
      /\ ore' = (ore /\ ~(board = "F411" /\ ore_read))
      /\ UNCHANGED <<board, rdr, arrived, lost>>
  BY DEF Read
<1>2. /\ rdr \in 1..arrived /\ rxne \in BOOLEAN /\ ore \in BOOLEAN /\ arrived \in Nat
      /\ heard \in Seq(Nat) /\ Len(heard) \in Nat
  BY <1>1, LenProperties DEF RxInv, RxTypes, Holds, HasCause
<1>3. One(rxne') + One(ore') + 1 <= One(rxne) + One(ore)
  BY <1>1, <1>2 DEF One, RxInv, HasCause
<1>4. One(rxne) \in 0..1 /\ One(ore) \in 0..1 /\ One(rxne') \in 0..1 /\ One(ore') \in 0..1
  BY DEF One
<1>5. Heard \cup dropped \cup lost \cup (IF rxne THEN {rdr} ELSE {}) = 1..arrived
  BY DEF RxInv, RxAccounted, Heard
<1>6. CASE heard' = Append(heard, rdr) /\ dropped' = dropped
  <2>1. /\ heard' \in Seq(Nat) /\ Len(heard') = Len(heard) + 1
        /\ Heard' = Heard \cup {rdr}
        /\ \A i \in 1..Len(heard') : heard'[i] <= rdr
        /\ \A i \in 1..Len(heard') - 1 : heard'[i] <= heard'[i + 1]
    BY <1>6, HeardGrows
  <2>2. RxTypes' /\ HasCause'
    BY <1>1, <1>2, <2>1 DEF RxInv, RxTypes, HasCause
  <2>a. Holds'
    BY <1>1, <1>2, <2>1 DEF Holds
  <2>3. NotTooMany'
    BY <1>1, <1>2, <1>3, <1>4, <2>1 DEF NotTooMany, RxInv
  <2>4. Heard' \cup dropped' \cup lost' \cup (IF rxne' THEN {rdr'} ELSE {}) = 1..arrived'
    BY <1>1, <1>2, <1>5, <1>6, <2>1
  <2>5. Len(heard') <= arrived'
    BY <1>1, <1>2, <1>4, <2>1, <2>3 DEF NotTooMany
  <2>6. QED
    BY <2>1, <2>2, <2>a, <2>3, <2>4, <2>5 DEF RxInv, RxAccounted, Heard
<1>7. CASE heard' = heard /\ dropped' = dropped \cup {rdr}
  <2>1. Heard' = Heard
    BY <1>7 DEF Heard
  <2>2. RxTypes' /\ HasCause' /\ Holds'
    BY <1>1, <1>2, <1>7, <2>1 DEF RxInv, RxTypes, HasCause, Holds
  <2>3. NotTooMany'
    BY <1>1, <1>2, <1>3, <1>4, <1>7 DEF NotTooMany, RxInv
  <2>4. Heard' \cup dropped' \cup lost' \cup (IF rxne' THEN {rdr'} ELSE {}) = 1..arrived'
    BY <1>1, <1>2, <1>5, <1>7, <2>1
  <2>5. QED
    BY <1>1, <1>7, <2>2, <2>3, <2>4 DEF RxInv, RxAccounted, Heard
<1>8. QED
  BY <1>6, <1>7 DEF Read

LEMMA ArrivesKeeps == ASSUME RxInv, Arrives PROVE RxInv'
<1>1. /\ arrived' = arrived + 1 /\ UNCHANGED <<board, pc, heard, dropped>> /\ Heard' = Heard
  BY DEF Arrives, rxSide, Heard
<1>2. /\ rdr \in 0..arrived /\ rxne \in BOOLEAN /\ ore \in BOOLEAN /\ ore_read \in BOOLEAN
      /\ arrived \in Nat /\ heard \in Seq(Nat) /\ Len(heard) \in Nat
      /\ 1..arrived + 1 = (1..arrived) \cup {arrived + 1}
  BY LenProperties DEF RxInv, RxTypes
<1>3. Heard \cup dropped \cup lost \cup (IF rxne THEN {rdr} ELSE {}) = 1..arrived
  BY DEF RxInv, RxAccounted, Heard
<1>4. \A i \in 1..Len(heard) : heard[i] \in Nat /\ heard[i] <= rdr
  BY <1>2 DEF RxInv, Holds
<1>5. CASE /\ ~rxne /\ rdr' = arrived + 1 /\ rxne' = TRUE
           /\ UNCHANGED <<ore, ore_read, lost>>
  <2>1. RxTypes' /\ HasCause'
    BY <1>1, <1>2, <1>5 DEF RxInv, RxTypes, HasCause
  <2>2. Holds'
    BY <1>1, <1>2, <1>4, <1>5 DEF Holds
  <2>3. NotTooMany'
    BY <1>1, <1>2, <1>5 DEF RxInv, NotTooMany, One
  <2>4. Heard' \cup dropped' \cup lost' \cup (IF rxne' THEN {rdr'} ELSE {}) = 1..arrived'
    BY <1>1, <1>2, <1>3, <1>5
  <2>5. QED
    BY <1>1, <1>2, <2>1, <2>2, <2>3, <2>4 DEF RxInv, RxAccounted, Heard
<1>6. CASE /\ rxne \/ ore
           /\ lost' = lost \cup {arrived + 1} /\ ore' = TRUE
           /\ ore_read' = (ore /\ ore_read) /\ UNCHANGED <<rdr, rxne>>
  <2>1. RxTypes' /\ HasCause'
    BY <1>1, <1>2, <1>6 DEF RxInv, RxTypes, HasCause
  <2>2. Holds'
    BY <1>1, <1>2, <1>6 DEF RxInv, Holds
  <2>3. NotTooMany'
    <3>1. One(ore') = 1 /\ One(ore) \in 0..1 /\ One(rxne') = One(rxne) /\ One(rxne) \in 0..1
      BY <1>6 DEF One
    <3>2. One(ore') + Len(heard) + One(rxne) <= arrived + 1
      BY <1>2, <3>1 DEF RxInv, NotTooMany
    <3> QED
      BY <1>1, <1>2, <3>1, <3>2 DEF NotTooMany
  <2>4. Heard' \cup dropped' \cup lost' \cup (IF rxne' THEN {rdr'} ELSE {}) = 1..arrived'
    BY <1>1, <1>2, <1>3, <1>6
  <2>5. QED
    BY <1>1, <1>2, <2>1, <2>2, <2>3, <2>4 DEF RxInv, RxAccounted, Heard
<1>7. QED
  BY <1>5, <1>6 DEF Arrives

LEMMA RxInvNext == RxInv /\ [UartNext]_vars => RxInv'
<1> SUFFICES ASSUME RxInv, [UartNext]_vars PROVE RxInv'
  OBVIOUS
<1>1. CASE /\ UNCHANGED <<board, rdr, rxne, ore, arrived, lost, heard, dropped>>
           /\ ore_read' \in BOOLEAN /\ HasCause'
  BY <1>1 DEF RxInv, RxTypes, Holds, HasCause, NotTooMany, RxAccounted, Heard
<1>2. CASE Look
  <2>1. CASE pc = "RXNE"
    BY <1>1, <1>2, <2>1 DEF Look, IsSet, Serve, Chain, HasCause, RxInv, RxTypes, rxSide
  <2>2. CASE pc = "ORE"
    BY <1>1, <1>2, <2>2 DEF Look, IsSet, Serve, Chain, HasCause, RxInv, RxTypes, rxSide
  <2>3. CASE pc = "TXE"
    <3>1. pc' # "read"
      <4>1. Serve[pc] = "send" /\ Chain[pc] \in {"none", "ORE"}
        BY <2>3 DEF Serve, Chain
      <4> QED
        BY <1>2, <4>1 DEF Look
    <3> QED
      BY <1>1, <1>2, <3>1 DEF Look, HasCause, RxInv, RxTypes, rxSide
  <2> QED
    BY <1>2, <2>1, <2>2, <2>3 DEF Look, Flags
<1>3. CASE ClearOverrun
  <2>1. /\ UNCHANGED <<board, rdr, rxne, arrived, lost, heard, dropped>> /\ pc' = "none"
        /\ ore' = FALSE /\ ore_read' = FALSE /\ Len(heard) \in Nat /\ arrived \in Nat
    BY <1>3, LenProperties DEF ClearOverrun, rxSide, RxInv, RxTypes
  <2>2. NotTooMany'
    <3>1. One(ore') = 0 /\ One(ore) \in 0..1 /\ One(rxne') = One(rxne) /\ One(rxne) \in 0..1
      BY <2>1 DEF One
    <3> QED
      BY <2>1, <3>1 DEF RxInv, NotTooMany
  <2> QED
    BY <2>1, <2>2, ZenonT(60) DEF RxInv, RxTypes, Holds, HasCause, RxAccounted, Heard
<1>4. CASE Enter \/ Send \/ TaskWrite \/ enable_tx_interrupt \/ TaskRead \/ Load \/ Leaves
  BY <1>1, <1>4 DEF Enter, Send, TaskWrite, enable_tx_interrupt, TaskRead, Load, Leaves,
                    rxRegs, rxSide, HasCause, RxInv, RxTypes
<1>5. CASE UNCHANGED vars
  BY <1>1, <1>5 DEF vars, rxRegs, rxSide, HasCause, RxInv, RxTypes
<1> QED
  BY <1>2, <1>3, <1>4, <1>5, ReadKeeps, ArrivesKeeps DEF UartNext, Handler

(* Every character that arrived is in bsp_rx_buffer in its order, or was   *)
(* lost at a full buffer or overrun, and none enters the buffer twice but  *)
(* in place of a lost one, although the handler reads the data register    *)
(* once more for an overrun that came behind its back (usart2_isr,         *)
(* usart1_isr); for buffers of any length and any number of characters.    *)
THEOREM ReceivedAccountedFor == UartSpec => []RxAccounted
<1>1. ASSUME UartInit PROVE RxInv
  <2>1. /\ arrived = 0 /\ rdr = 0 /\ heard = <<>> /\ dropped = {} /\ lost = {} /\ pc = "none"
        /\ rxne = FALSE /\ ore = FALSE /\ ore_read = FALSE /\ Len(heard) = 0
    BY <1>1 DEF UartInit
  <2>2. RxTypes /\ Holds /\ HasCause /\ NotTooMany
    <3>1. RxTypes /\ HasCause
      <4>1. arrived \in Nat /\ rdr \in 0..arrived /\ heard \in Seq(Nat)
        BY <2>1, EmptySeq
      <4>2. rxne \in BOOLEAN /\ ore \in BOOLEAN /\ ore_read \in BOOLEAN
        BY <2>1
      <4> QED
        BY <2>1, <4>1, <4>2 DEF RxTypes, HasCause
    <3>2. Holds
      BY <2>1 DEF Holds
    <3>3. NotTooMany
      BY <2>1 DEF NotTooMany, One
    <3> QED
      BY <3>1, <3>2, <3>3
  <2>3. RxAccounted
    BY <2>1 DEF RxAccounted
  <2> QED
    BY <2>2, <2>3 DEF RxInv
<1>2. RxInv => RxAccounted
  BY DEF RxInv
<1> QED
  BY <1>1, <1>2, RxInvNext, PTL DEF UartSpec

-----------------------------------------------------------------------------
(* Nothing is left behind.  What is in bsp_tx_buffer has an interrupt or   *)
(* the callback of the write to come: the handler disables the interrupt   *)
(* only when it has found the buffer empty.                                *)
NoLostWakeup == bsp_tx_buffer # <<>> => txeie \/ telling

LEMMA NoLostWakeupNext == NoLostWakeup /\ [UartNext]_vars => NoLostWakeup'
<1> SUFFICES ASSUME NoLostWakeup, [UartNext]_vars PROVE NoLostWakeup'
  OBVIOUS
<1>1. CASE TaskWrite
  BY <1>1 DEF TaskWrite, NoLostWakeup
<1>2. CASE enable_tx_interrupt
  BY <1>2 DEF enable_tx_interrupt, NoLostWakeup
<1>3. CASE Send
  <2>1. CASE bsp_tx_buffer # <<>>
    BY <1>3, <2>1 DEF Send, NoLostWakeup
  <2>2. CASE bsp_tx_buffer = <<>>
    BY <1>3, <2>2 DEF Send, NoLostWakeup
  <2> QED
    BY <2>1, <2>2
<1>4. CASE Enter \/ Look \/ Read \/ ClearOverrun \/ TaskRead \/ Arrives \/ Load \/ Leaves
  BY <1>4 DEF Enter, Look, Read, ClearOverrun, TaskRead, Arrives, Load, Leaves, txSide,
              NoLostWakeup
<1>5. CASE UNCHANGED vars
  BY <1>5 DEF vars, txSide, NoLostWakeup
<1> QED
  BY <1>1, <1>2, <1>3, <1>4, <1>5 DEF UartNext, Handler

(* No interrupt is pending, no callback is to come, and the transmitter    *)
(* has nothing to shift out.                                               *)
AtRest == ~Pending /\ ~telling /\ tdr = 0 /\ shift = 0

(* When the driver and its peripheral come to rest, everything written to  *)
(* bsp_tx_buffer is on the wire: the transmit interrupt is never disabled  *)
(* (usart2_isr, usart1_isr) behind the back of a task that has just        *)
(* written, and whose callback enables it (enable_usart2_tx_interrupt).     *)
THEOREM AtRestAllSent == UartSpec => [](AtRest => wire = UpTo(written))
<1>1. UartInit => NoLostWakeup
  BY DEF UartInit, NoLostWakeup
<1>2. ASSUME TxInv, NoLostWakeup, AtRest PROVE wire = UpTo(written)
  <2>1. bsp_tx_buffer = <<>>
    BY <1>2 DEF NoLostWakeup, AtRest, Pending
  <2>2. Register(shift) = <<>> /\ Register(tdr) = <<>>
    BY <1>2 DEF AtRest, Register
  <2>3. wire \in Seq(Numbers)
    BY <1>2 DEF TxInv, TxTypes
  <2>4. wire \o Register(shift) \o Register(tdr) \o bsp_tx_buffer = wire
    BY <2>1, <2>2, <2>3, ConcatEmptySeq
  <2> QED
    BY <1>2, <2>4 DEF TxInv, TxInOrder, UpTo
<1>3. TxInv /\ NoLostWakeup => (AtRest => wire = UpTo(written))
  BY <1>2
<1> QED
  BY <1>1, <1>3, TxInvInit, TxInvNext, NoLostWakeupNext, PTL DEF UartSpec
=============================================================================
