-------------------------------- MODULE Uart --------------------------------
(***************************************************************************)
(* The UART of both boards: comm_init and the interrupt handler of         *)
(* stm32f411discovery/bsp.c (usart2_isr) and stm32f072discovery/bsp.c      *)
(* (usart1_isr), between the character buffers the dispatcher's workers    *)
(* use and the wire.                                                       *)
(*                                                                         *)
(* The handler looks at one flag after the other; every look, and the      *)
(* access to the data register that follows, is a step, so the peripheral  *)
(* may receive and send in between.  Characters are numbered in the order  *)
(* they arrive, and in the order they are written to bsp_tx_buffer.        *)
(*                                                                         *)
(* The peripheral is modelled from the flags the handlers use: a character *)
(* that arrives while the one before has not been read is lost and leaves  *)
(* the overrun flag.  On the F411 a read of the status register that saw   *)
(* this flag, followed by one of the data register, clears it; on the F072 *)
(* only a write to ICR does.                                               *)
(***************************************************************************)
EXTENDS Integers, Sequences, FiniteSets

CONSTANTS
    Boards,             \* the boards to consider, of {"F411", "F072"}
    RxLen, TxLen,       \* BSP_RX_BUFFER_SIZE, BSP_TX_BUFFER_SIZE
    MaxIn, MaxOut       \* bounds: characters arriving, characters written

ASSUME UartAssumption ==
    /\ Boards \subseteq {"F411", "F072"}
    /\ {RxLen, TxLen, MaxIn, MaxOut} \subseteq Nat

VARIABLES
    board,
    pc,                 \* the handler: "none", the flag to look at, or an access
    rdr, rxne, ore,     \* receive data register and its flags
    ore_read,           \* the status register was read since ore was set
    tdr, shift,         \* transmit registers, 0 when empty; TXE means tdr = 0
    txeie,              \* the transmit interrupt is enabled
    bsp_rx_buffer, bsp_tx_buffer,
    telling,            \* characters were written and the callback is to come
    arrived, lost,      \* characters arrived, and those overrun in the peripheral
    heard, dropped,     \* those put into bsp_rx_buffer, those that found it full
    written, wire       \* characters written so far, and what is on the wire

rxRegs == <<rdr, rxne, ore, ore_read, arrived, lost>>
txRegs == <<tdr, shift, wire>>
rxSide == <<bsp_rx_buffer, heard, dropped>>
txSide == <<bsp_tx_buffer, telling, written>>
vars == <<board, pc, rxRegs, txRegs, txeie, rxSide, txSide>>

UartInit ==
    /\ board \in Boards
    /\ pc = "none"
    /\ rdr = 0 /\ rxne = FALSE /\ ore = FALSE /\ ore_read = FALSE
    /\ tdr = 0 /\ shift = 0
    /\ txeie = FALSE
    /\ bsp_rx_buffer = <<>> /\ bsp_tx_buffer = <<>>
    /\ telling = FALSE
    /\ arrived = 0 /\ lost = {} /\ heard = <<>> /\ dropped = {}
    /\ written = 0 /\ wire = <<>>

-----------------------------------------------------------------------------
(* The interrupt handler.                                                  *)

(* Mutant: the F411's handler looks at the overrun flag last, too.         *)
Chain_TxeFirst == [RXNE |-> "TXE", TXE |-> "ORE", ORE |-> "none"]

(* What the flag looked at leads to, and which one is next.                *)
Chain == IF board = "F411"
         THEN [RXNE |-> "ORE", ORE |-> "TXE", TXE |-> "none"]
         ELSE [RXNE |-> "TXE", TXE |-> "ORE", ORE |-> "none"]
Serve == [RXNE |-> "read", TXE |-> "send",
          ORE |-> IF board = "F411" THEN "read" ELSE "clear"]

Flags == {"RXNE", "ORE", "TXE"}

(* Mutant: the handler does not look at TXE before it sends.               *)
IsSet_AlwaysEmpty == [RXNE |-> rxne, ORE |-> ore, TXE |-> TRUE]

IsSet == [RXNE |-> rxne, ORE |-> ore, TXE |-> tdr = 0]

(* The receive interrupt is enabled, with it the one for an overrun.       *)
Pending == rxne \/ ore \/ (txeie /\ tdr = 0)

Enter ==
    /\ pc = "none" /\ Pending
    /\ pc' = "RXNE"
    /\ UNCHANGED <<board, rxRegs, txRegs, txeie, rxSide, txSide>>

(* usart_get_flag: reads the status register, on the F411 with the effect  *)
(* that the next read of the data register clears the flags seen.          *)
Look ==
    /\ pc \in Flags
    /\ pc' = IF IsSet[pc] THEN Serve[pc] ELSE Chain[pc]
    /\ ore_read' = (ore_read \/ ore)
    /\ UNCHANGED <<board, rdr, rxne, ore, arrived, lost, txRegs, txeie, rxSide, txSide>>

(* Mutant: what is read to clear an overrun is not put into the buffer.    *)
Read_DropsAtOverrun ==
    /\ pc = "read"
    /\ pc' = "none"
    /\ rxne' = FALSE
    /\ ore' = (ore /\ ~(board = "F411" /\ ore_read)) /\ ore_read' = FALSE
    /\ IF Len(bsp_rx_buffer) < RxLen /\ ~ore
       THEN /\ bsp_rx_buffer' = Append(bsp_rx_buffer, rdr)
            /\ heard' = Append(heard, rdr)
            /\ dropped' = dropped
       ELSE UNCHANGED rxSide
    /\ UNCHANGED <<board, rdr, arrived, lost, txRegs, txeie, txSide>>

(* usart_recv, and os_char_buffer_write_ch whose result nobody looks at.   *)
Read ==
    /\ pc = "read"
    /\ pc' = "none"
    /\ rxne' = FALSE
    /\ ore' = (ore /\ ~(board = "F411" /\ ore_read)) /\ ore_read' = FALSE
    /\ IF Len(bsp_rx_buffer) < RxLen
       THEN /\ bsp_rx_buffer' = Append(bsp_rx_buffer, rdr)
            /\ heard' = Append(heard, rdr)
            /\ dropped' = dropped
       ELSE dropped' = dropped \cup {rdr} /\ UNCHANGED <<bsp_rx_buffer, heard>>
    /\ UNCHANGED <<board, rdr, arrived, lost, txRegs, txeie, txSide>>

(* Mutant: the interrupt is disabled after each character.                 *)
Send_OneOnly ==
    /\ pc = "send"
    /\ pc' = "none"
    /\ txeie' = FALSE
    /\ IF bsp_tx_buffer # <<>>
       THEN tdr' = Head(bsp_tx_buffer) /\ bsp_tx_buffer' = Tail(bsp_tx_buffer)
       ELSE UNCHANGED <<tdr, bsp_tx_buffer>>
    /\ UNCHANGED <<board, rxRegs, shift, wire, rxSide, telling, written>>

(* The next character goes out, or the transmit interrupt is disabled.     *)
Send ==
    /\ pc = "send"
    /\ pc' = "none"
    /\ IF bsp_tx_buffer # <<>>
       THEN /\ tdr' = Head(bsp_tx_buffer) /\ bsp_tx_buffer' = Tail(bsp_tx_buffer)
            /\ txeie' = txeie
       ELSE txeie' = FALSE /\ UNCHANGED <<tdr, bsp_tx_buffer>>
    /\ UNCHANGED <<board, rxRegs, shift, wire, rxSide, telling, written>>

ClearOverrun ==
    /\ pc = "clear"
    /\ pc' = "none"
    /\ ore' = FALSE /\ ore_read' = FALSE
    /\ UNCHANGED <<board, rdr, rxne, arrived, lost, txRegs, txeie, rxSide, txSide>>

Handler == Enter \/ Look \/ Read \/ Send \/ ClearOverrun

-----------------------------------------------------------------------------
(* The tasks.  They run outside the handler; that an interrupt is pending  *)
(* does not stop them as long as a critical section of theirs masks it.    *)

(* A character of os_char_buffer_write_buf or ..._write_buf_blocking.      *)
TaskWrite ==
    /\ pc = "none"
    /\ written < MaxOut /\ Len(bsp_tx_buffer) < TxLen
    /\ bsp_tx_buffer' = Append(bsp_tx_buffer, written + 1)
    /\ written' = written + 1
    /\ telling' = TRUE
    /\ UNCHANGED <<board, pc, rxRegs, txRegs, txeie, rxSide>>

(* The callback given to os_char_buffer_init.                              *)
enable_tx_interrupt ==
    /\ pc = "none" /\ telling
    /\ txeie' = TRUE
    /\ telling' = FALSE
    /\ UNCHANGED <<board, pc, rxRegs, txRegs, rxSide, bsp_tx_buffer, written>>

(* os_char_buffer_read_ch of the receive worker.                           *)
TaskRead ==
    /\ pc = "none" /\ bsp_rx_buffer # <<>>
    /\ bsp_rx_buffer' = Tail(bsp_rx_buffer)
    /\ UNCHANGED <<board, pc, rxRegs, txRegs, txeie, heard, dropped, txSide>>

-----------------------------------------------------------------------------
(* The peripheral.                                                         *)

(* The next character is complete.  While the overrun flag is set further  *)
(* characters may or may not get into the empty data register.             *)
Arrives ==
    /\ arrived < MaxIn
    /\ arrived' = arrived + 1
    /\ \/ /\ ~rxne
          /\ rdr' = arrived + 1 /\ rxne' = TRUE
          /\ UNCHANGED <<ore, ore_read, lost>>
       \/ /\ rxne \/ ore
          /\ lost' = lost \cup {arrived + 1} /\ ore' = TRUE
          /\ ore_read' = (ore /\ ore_read)
          /\ UNCHANGED <<rdr, rxne>>
    /\ UNCHANGED <<board, pc, txRegs, txeie, rxSide, txSide>>

Load ==
    /\ tdr # 0 /\ shift = 0
    /\ shift' = tdr /\ tdr' = 0
    /\ UNCHANGED <<board, pc, rxRegs, wire, txeie, rxSide, txSide>>

Leaves ==
    /\ shift # 0
    /\ wire' = Append(wire, shift) /\ shift' = 0
    /\ UNCHANGED <<board, pc, rxRegs, tdr, txeie, rxSide, txSide>>

-----------------------------------------------------------------------------
UartNext == \/ Handler
            \/ TaskWrite \/ enable_tx_interrupt \/ TaskRead
            \/ Arrives \/ Load \/ Leaves

(* A pending interrupt is served, the transmitter shifts on, a task that   *)
(* has written goes on to the callback, and the receive worker reads.      *)
UartFairness ==
    /\ WF_vars(Handler)
    /\ WF_vars(enable_tx_interrupt)
    /\ WF_vars(TaskRead)
    /\ WF_vars(Load) /\ WF_vars(Leaves)

UartSpec == UartInit /\ [][UartNext]_vars /\ UartFairness

-----------------------------------------------------------------------------
(* Nothing written is lost, doubled or reordered on its way out, whatever  *)
(* the handler, the callback and the shift register do in between.         *)
Register(c) == IF c = 0 THEN <<>> ELSE <<c>>
TxInOrder ==
    wire \o Register(shift) \o Register(tdr) \o bsp_tx_buffer = [i \in 1..written |-> i]

(* What came in is in the buffer, in the order of the wire, unless it was  *)
(* overrun or found the buffer full; a character enters the buffer twice   *)
(* (the data register is read once more to clear an overrun that came      *)
(* between the look at RXNE and the read) only in place of a lost one.     *)
RxAccounted ==
    /\ {heard[i] : i \in 1..Len(heard)} \cup dropped \cup lost
          \cup (IF rxne THEN {rdr} ELSE {}) = 1..arrived
    /\ \A i \in 1..Len(heard) - 1 : heard[i] <= heard[i + 1]
    /\ Len(heard) <= arrived

(* What is written gets onto the wire: no character waits in the buffer    *)
(* with the transmit interrupt disabled for good.                          *)
AllTransmitted == \A n \in 1..MaxOut : (written >= n) ~> (Len(wire) >= n)

(* The overrun flag, which keeps the interrupt pending, is cleared.        *)
OverrunCleared == ore ~> ~ore

(* On the F411, which looks at the overrun flag before TXE, it is.         *)
OverrunEnds == (board = "F411" /\ ore) ~> ~ore
=============================================================================
