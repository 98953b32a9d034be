--------------------------- MODULE Dispatcher_proofs ---------------------------
(* What holds of the dispatcher for every set of subsystems, every number  *)
(* of message structs and every length of the queues.                      *)
EXTENDS Dispatcher, SequenceTheorems, TLAPS

(* What the workers have in hand, by where they are.                       *)
WorkersOK ==
    /\ (rx.msg # NoMsg) <=> (rx.pc \in {"parse", "route", "free"})
    /\ rx.pc # "idle" => rx.frame \in Frames /\ Verdict(rx.frame) = NO_ERROR
    /\ (tx.msg # NoMsg) <=> (tx.pc \in {"send", "free"})

ControlOK == TypeOK /\ WorkersOK

-----------------------------------------------------------------------------
(* Lemmas about queues and frames.                                         *)

LEMMA QueueGrows ==
  ASSUME NEW S, NEW q \in Seq(S), NEW x \in S
  PROVE  /\ Append(q, x) \in Seq(S)
         /\ Queued(Append(q, x)) = Queued(q) \cup {x}
         /\ NoDuplicates(q) /\ x \notin Queued(q) => NoDuplicates(Append(q, x))
<1>1. /\ Append(q, x) \in Seq(S) /\ Len(q) \in Nat /\ Len(Append(q, x)) = Len(q) + 1
      /\ \A i \in 1..Len(q) : Append(q, x)[i] = q[i]
      /\ Append(q, x)[Len(q) + 1] = x
  BY AppendProperties, LenProperties
<1>2. Queued(Append(q, x)) = Queued(q) \cup {x}
  BY <1>1 DEF Queued
<1>3. ASSUME NoDuplicates(q), x \notin Queued(q) PROVE NoDuplicates(Append(q, x))
  BY <1>1, <1>3 DEF NoDuplicates, Queued
<1>4. QED
  BY <1>1, <1>2, <1>3

LEMMA QueueShrinks ==
  ASSUME NEW S, NEW q \in Seq(S), q # <<>>
  PROVE  /\ Head(q) \in S /\ Tail(q) \in Seq(S)
         /\ Head(q) \in Queued(q)
         /\ NoDuplicates(q) => /\ NoDuplicates(Tail(q))
                               /\ Queued(Tail(q)) = Queued(q) \ {Head(q)}
<1>1. /\ Head(q) \in S /\ Tail(q) \in Seq(S) /\ Len(q) \in Nat \ {0}
      /\ Len(Tail(q)) = Len(q) - 1 /\ Head(q) = q[1]
      /\ \A i \in 1..Len(Tail(q)) : Tail(q)[i] = q[i + 1]
  BY HeadTailProperties, EmptySeq
<1>2. Head(q) \in Queued(q)
  BY <1>1 DEF Queued
<1>3. ASSUME NoDuplicates(q) PROVE NoDuplicates(Tail(q))
  BY <1>1, <1>3 DEF NoDuplicates
<1>4. ASSUME NoDuplicates(q) PROVE Queued(Tail(q)) = Queued(q) \ {Head(q)}
  <2>1. ASSUME NEW x \in Queued(Tail(q)) PROVE x \in Queued(q) /\ x # Head(q)
    BY <1>1, <1>4 DEF NoDuplicates, Queued
  <2>2. ASSUME NEW x \in Queued(q), x # Head(q) PROVE x \in Queued(Tail(q))
    <3>1. PICK i \in 1..Len(q) : x = q[i]
      BY DEF Queued
    <3>2. i - 1 \in 1..Len(Tail(q)) /\ Tail(q)[i - 1] = x
      BY <1>1, <2>2, <3>1
    <3>3. QED
      BY <3>2 DEF Queued
  <2>3. QED
    BY <2>1, <2>2
<1>5. QED
  BY <1>1, <1>2, <1>3, <1>4

LEMMA PostedIsSeq ==
  ASSUME NEW S, NEW q \in Seq(S), NEW x \in S, NEW len
  PROVE  Posted(q, x, len) \in Seq(S)
BY AppendProperties DEF Posted

(* What the checks before the allocation establish.                        *)
LEMMA VerdictMeaning ==
  ASSUME NEW f \in Frames
  PROVE  /\ Verdict(f) # NO_ERROR => Verdict(f) \in ErrorCodes
         /\ Verdict(f) = NO_ERROR =>
               f.tid \in TransIds /\ f.sub \in Subsystems /\ f.type \in MsgTypes
BY DEF Verdict, NO_ERROR, ErrorCodes, MESSAGE_PARSING_ERROR, UNKNOWN_SUBSYSTEM_ERROR,
       UNKNOWN_MESSAGE_TYPE_ERROR, MISSING_MESSAGE_HANDLER_ERROR

LEMMA Lengths == Len(Order) \in Nat \ {0} /\ \A i \in 1..Len(Order) : Order[i] \in Subsystems
BY OrderAssumption, EmptySeq DEF Subsystems

-----------------------------------------------------------------------------
(* Types and control.                                                      *)

LEMMA ControlInit == Init => ControlOK
<1> SUFFICES ASSUME Init PROVE ControlOK
  OBVIOUS
<1>1. TypeOK
  BY Lengths, EmptySeq, MsgsAssumption
  DEF Init, TypeOK, IdleRx, IdleTx, IdleLine, Half, Halves
<1>2. WorkersOK
  BY DEF Init, WorkersOK, IdleRx, IdleTx
<1>3. QED
  BY <1>1, <1>2 DEF ControlOK

LEMMA ScheduledErrors ==
  /\ {MEM_ALLOC_ERROR, MESSAGE_PARSING_ERROR, MESSAGE_ROUTING_ERROR, TX_BUFFER_FULL}
        \subseteq ErrorCodes
  /\ \A code \in ErrorCodes :
        TypeOK /\ schedule_err_message(code) => disp_err' \in Seq(ErrorCodes)
<1>1. {MEM_ALLOC_ERROR, MESSAGE_PARSING_ERROR, MESSAGE_ROUTING_ERROR, TX_BUFFER_FULL}
         \subseteq ErrorCodes
  BY DEF ErrorCodes, MEM_ALLOC_ERROR, MESSAGE_PARSING_ERROR, MESSAGE_ROUTING_ERROR,
         TX_BUFFER_FULL
<1>2. ASSUME NEW code \in ErrorCodes, TypeOK, schedule_err_message(code)
      PROVE  disp_err' \in Seq(ErrorCodes)
  BY <1>2, PostedIsSeq DEF TypeOK, schedule_err_message
<1>3. QED
  BY <1>1, <1>2

LEMMA NextQueueOK ==
  ASSUME TypeOK, NEW pc \in {"own", "msgs"}
  PROVE  /\ NextQueue(pc) \in [pc : {tx.pc, pc}, pos : 1..Len(Order), msg : {tx.msg}]
<1>1. tx.pos \in 1..Len(Order) /\ Len(Order) \in Nat \ {0}
  BY Lengths DEF TypeOK
<1>2. CASE tx.pos < Len(Order)
  <2>1. tx.pos + 1 \in 1..Len(Order)
    BY <1>1, <1>2
  <2>2. NextQueue(pc) = [tx EXCEPT !.pos = tx.pos + 1]
    BY <1>2 DEF NextQueue
  <2>3. QED
    BY <2>1, <2>2 DEF TypeOK
<1>3. CASE ~(tx.pos < Len(Order))
  <2>1. 1 \in 1..Len(Order)
    BY <1>1
  <2>2. NextQueue(pc) = [tx EXCEPT !.pc = pc, !.pos = 1]
    BY <1>3 DEF NextQueue
  <2>3. QED
    BY <2>1, <2>2 DEF TypeOK
<1>4. QED
  BY <1>2, <1>3

LEMMA RxKeepsControl == ControlOK /\ (RxFrame \/ RxStep) => ControlOK'
<1> SUFFICES ASSUME ControlOK, RxFrame \/ RxStep PROVE ControlOK'
  OBVIOUS
<1> USE DEF ControlOK, TypeOK, WorkersOK, wireVars, taskVars, rxVars
<1>1. ASSUME NEW f \in Frames, RxReject(f) PROVE ControlOK'
  BY <1>1, VerdictMeaning, ScheduledErrors DEF RxReject
<1>2. ASSUME NEW f \in Frames, RxAccept(f) PROVE ControlOK'
  BY <1>2 DEF RxAccept
<1>3. ASSUME NEW m \in Msgs, RxAlloc(m) PROVE ControlOK'
  <2>1. [type |-> rx.frame.type, transaction_id |-> rx.frame.tid] \in Contents
    BY <1>3, VerdictMeaning DEF RxAlloc, Contents
  <2>2. QED
    BY <1>3, <2>1, MsgsAssumption DEF RxAlloc, alloc_message
<1>4. CASE RxAllocFail
  BY <1>4, ScheduledErrors DEF RxAllocFail, IdleRx
<1>5. CASE RxParse
  BY <1>5 DEF RxParse
<1>6. CASE RxParseFail
  BY <1>6, ScheduledErrors DEF RxParseFail
<1>7. CASE RxRoute
  BY <1>7, QueueGrows DEF RxRoute, IdleRx
<1>8. CASE RxRouteFail
  BY <1>8, ScheduledErrors DEF RxRouteFail
<1>9. CASE RxFree
  BY <1>9 DEF RxFree, free_message, IdleRx
<1>10. QED
  BY <1>1, <1>2, <1>3, <1>4, <1>5, <1>6, <1>7, <1>8, <1>9 DEF RxFrame, RxStep

LEMMA TaskKeepsControl ==
  ASSUME ControlOK, NEW s \in Subsystems, TaskStep(s) PROVE ControlOK'
<1> USE DEF ControlOK, TypeOK, WorkersOK, wireVars
<1>1. CASE TaskReceive(s)
  BY <1>1, QueueShrinks DEF TaskReceive
<1>2. ASSUME NEW m \in Msgs, NEW type \in MsgTypes, NEW tid \in TransIds,
             TaskNew(s, m, type, tid)
      PROVE  ControlOK'
  BY <1>2 DEF TaskNew, alloc_message, Contents
<1>3. ASSUME NEW m \in Msgs, TaskSend(s, m) PROVE ControlOK'
  BY <1>3, QueueGrows DEF TaskSend
<1>4. ASSUME NEW m \in Msgs, TaskDrop(s, m) PROVE ControlOK'
  BY <1>4 DEF TaskDrop, free_message
<1>5. ASSUME NEW code \in TaskErrors, TaskReport(s, code) PROVE ControlOK'
  BY <1>5, PostedIsSeq DEF TaskReport
<1>6. QED
  BY <1>1, <1>2, <1>3, <1>4, <1>5 DEF TaskStep

LEMMA TxKeepsControl == ControlOK /\ (TxStep \/ Transmit) => ControlOK'
<1> SUFFICES ASSUME ControlOK, TxStep \/ Transmit PROVE ControlOK'
  OBVIOUS
<1> USE DEF ControlOK, TypeOK, WorkersOK, wireVars, taskVars, rxVars
<1>1. CASE TxOwnError
  <2>1. CASE disp_err # <<>>
    <3>1. Tail(disp_err) \in Seq(ErrorCodes)
      BY <2>1, QueueShrinks
    <3>2. QED
      BY <1>1, <2>1, <3>1 DEF TxOwnError
  <2>2. CASE disp_err = <<>>
    BY <1>1, <2>2 DEF TxOwnError
  <2>3. QED
    BY <2>1, <2>2
<1>2. CASE TxSubsystemError
  <2>1. CASE Scanned \in WithErrQueue /\ out_err[Scanned] # <<>>
    <3>1. Scanned \in Subsystems /\ Tail(out_err[Scanned]) \in Seq(TaskErrors)
      BY <2>1, QueuesAssumption, QueueShrinks
    <3>2. QED
      BY <1>2, <2>1, <3>1, ZenonT(60) DEF TxSubsystemError
  <2>2. CASE ~(Scanned \in WithErrQueue /\ out_err[Scanned] # <<>>)
    <3>1. out_err' = out_err /\ tx' = NextQueue("msgs") /\ tx.pc = "errs"
      BY <1>2, <2>2 DEF TxSubsystemError
    <3>2. tx' \in [pc : {"errs", "msgs"}, pos : 1..Len(Order), msg : {tx.msg}]
      BY <3>1, NextQueueOK
    <3>3. QED
      BY <1>2, <3>1, <3>2 DEF TxSubsystemError
  <2>3. QED
    BY <2>1, <2>2
<1>3. CASE TxMessage
  <2>1. CASE Scanned \in WithOutQueue /\ outgoing[Scanned] # <<>>
    <3>1. Scanned \in Subsystems /\ outgoing[Scanned] \in Seq(Msgs)
      BY <2>1, QueuesAssumption
    <3>2. Head(outgoing[Scanned]) \in Msgs /\ Tail(outgoing[Scanned]) \in Seq(Msgs)
      BY <2>1, <3>1, QueueShrinks
    <3>3. tx' = [tx EXCEPT !.pc = "send", !.msg = Head(outgoing[Scanned])]
      BY <1>3, <2>1 DEF TxMessage
    <3>4. outgoing' \in [Subsystems -> Seq(Msgs)]
      BY <1>3, <2>1, <3>1, <3>2 DEF TxMessage
    <3>5. TypeOK' /\ tx'.msg # NoMsg /\ tx'.pc = "send"
      BY <1>3, <3>2, <3>3, <3>4, MsgsAssumption DEF TxMessage
    <3>6. QED
      BY <1>3, <3>5 DEF TxMessage
  <2>2. CASE ~(Scanned \in WithOutQueue /\ outgoing[Scanned] # <<>>)
    <3>1. outgoing' = outgoing /\ tx' = NextQueue("own") /\ tx.pc = "msgs"
      BY <1>3, <2>2 DEF TxMessage
    <3>2. tx' \in [pc : {"msgs", "own"}, pos : 1..Len(Order), msg : {tx.msg}]
      BY <3>1, NextQueueOK
    <3>3. QED
      BY <1>3, <3>1, <3>2 DEF TxMessage
  <2>3. QED
    BY <2>1, <2>2
<1>4. CASE TxErrorBegin
  BY <1>4, QueueGrows DEF TxErrorBegin, TxWriteError, Half, Halves
<1>5. CASE TxErrorEnd
  BY <1>5, QueueGrows, Lengths DEF TxErrorEnd, TxWriteError, Half, Halves, IdleTx
<1>6. ASSUME NEW code \in ErrorCodes, TxSendFail(code) PROVE ControlOK'
  BY <1>6, ScheduledErrors DEF TxSendFail
<1>7. CASE TxSend
  <2>1. TxBufferLen \in Nat /\ Len(tx_char_buffer) \in Nat
    BY QueuesAssumption, LenProperties
  <2>2. SubSeq(TxFrame, 1, IF TxRoom < 2 THEN TxRoom ELSE 2) \in Seq(Halves)
    <3>1. ASSUME NEW f, NEW n \in Int, n <= 2, f[1] \in Halves, f[2] \in Halves
          PROVE  SubSeq(f, 1, n) \in Seq(Halves)
      <4>1. \A i \in 1..n : i = 1 \/ i = 2
        BY <3>1
      <4>2. \A i \in 1..n : f[i] \in Halves
        BY <3>1, <4>1
      <4>3. QED
        BY <4>2, SubSeqProperties
    <3>2. TxFrame[1] \in Halves /\ TxFrame[2] \in Halves
      BY DEF TxFrame, Half, Halves
    <3>3. /\ (IF TxRoom < 2 THEN TxRoom ELSE 2) \in Int
          /\ (IF TxRoom < 2 THEN TxRoom ELSE 2) <= 2
      BY <2>1 DEF TxRoom
    <3>4. QED
      BY <3>1, <3>2, <3>3
  <2>3. tx_char_buffer' \in Seq(Halves)
    BY <1>7, <2>2, ConcatProperties DEF TxSend
  <2>4. disp_err' \in Seq(ErrorCodes)
    BY <1>7, ScheduledErrors DEF TxSend
  <2>5. QED
    BY <1>7, <2>3, <2>4 DEF TxSend
<1>8. CASE TxFree
  BY <1>8, Lengths DEF TxFree, free_message, IdleTx
<1>9. CASE Transmit
  BY <1>9, QueueShrinks DEF Transmit
<1>10. QED
  BY <1>1, <1>2, <1>3, <1>4, <1>5, <1>6, <1>7, <1>8, <1>9 DEF TxStep

LEMMA ControlInductive == ControlOK /\ [Next]_vars => ControlOK'
<1> SUFFICES ASSUME ControlOK, [Next]_vars PROVE ControlOK'
  OBVIOUS
<1>1. CASE UNCHANGED vars
  BY <1>1 DEF ControlOK, TypeOK, WorkersOK, vars
<1>2. CASE Next
  BY <1>2, RxKeepsControl, TaskKeepsControl, TxKeepsControl DEF Next
<1>3. QED
  BY <1>1, <1>2

(* Every variable keeps its type: no worker frees or posts a struct it     *)
(* does not have, none uses a configuration that does not exist.           *)
THEOREM TypeCorrect == Spec => []TypeOK
<1>1. ControlOK => TypeOK
  BY DEF ControlOK
<1>2. QED
  BY <1>1, ControlInit, ControlInductive, PTL DEF Spec

-----------------------------------------------------------------------------
(* Error frames on the wire.                                               *)

ErrBegin == Half("err", "begin")
ErrEnd   == Half("err", "end")
WholeIn(s) == \A i \in 1..Len(s) - 1 : s[i] = ErrBegin => s[i + 1] = ErrEnd
Ends(s)    == s[Len(s)]

(* Behind a whole error frame anything may come that begins none.          *)
LEMMA WholeGrows ==
  ASSUME NEW s \in Seq(Halves), s # <<>>, WholeIn(s), Ends(s) # ErrBegin,
         NEW t \in Seq(Halves), \A j \in 1..Len(t) : t[j] # ErrBegin
  PROVE  s \o t \in Seq(Halves) /\ WholeIn(s \o t) /\ Ends(s \o t) # ErrBegin
<1>1. /\ s \o t \in Seq(Halves) /\ Len(s \o t) = Len(s) + Len(t)
      /\ \A i \in 1..Len(s) + Len(t) :
            (s \o t)[i] = IF i <= Len(s) THEN s[i] ELSE t[i - Len(s)]
      /\ Len(s) \in Nat \ {0} /\ Len(t) \in Nat
  BY ConcatProperties, LenProperties, EmptySeq
<1>2. \A i \in Len(s)..Len(s) + Len(t) : (s \o t)[i] # ErrBegin
  BY <1>1 DEF Ends
<1>3. QED
  BY <1>1, <1>2 DEF WholeIn, Ends

(* The other half of an error frame, or the first behind a whole one.      *)
LEMMA WholeAppended ==
  ASSUME NEW s \in Seq(Halves), s # <<>>, WholeIn(s), NEW x \in Halves,
         Ends(s) = ErrBegin => x = ErrEnd
  PROVE  WholeIn(Append(s, x)) /\ Ends(Append(s, x)) = x
<1>1. /\ Len(s) \in Nat \ {0} /\ Len(Append(s, x)) = Len(s) + 1
      /\ \A i \in 1..Len(s) : Append(s, x)[i] = s[i]
      /\ Append(s, x)[Len(s) + 1] = x
  BY AppendProperties, LenProperties, EmptySeq
<1>2. QED
  BY <1>1 DEF WholeIn, Ends

(* A queue is its head before its tail.                                    *)
LEMMA HeadOnTail ==
  ASSUME NEW b \in Seq(Halves), b # <<>>
  PROVE  <<Head(b)>> \o Tail(b) = b
<1>1. /\ Head(b) = b[1] /\ Head(b) \in Halves /\ Tail(b) \in Seq(Halves)
      /\ Len(Tail(b)) = Len(b) - 1 /\ Len(b) \in Nat \ {0}
      /\ \A i \in 1..Len(Tail(b)) : Tail(b)[i] = b[i + 1]
  BY HeadTailProperties, LenProperties, EmptySeq
<1>2. /\ <<Head(b)>> \o Tail(b) \in Seq(Halves)
      /\ Len(<<Head(b)>> \o Tail(b)) = Len(b)
      /\ \A i \in 1..Len(b) : (<<Head(b)>> \o Tail(b))[i] = b[i]
  BY <1>1, ConcatProperties
<1>3. QED
  BY <1>2, SeqEqual

(* A character leaves the buffer for the wire.                             *)
LEMMA WholeShrinks ==
  ASSUME NEW b \in Seq(Halves), b # <<>>, NEW x \in Halves, WholeIn(<<x>> \o b)
  PROVE  /\ <<Head(b)>> \o Tail(b) = b /\ WholeIn(b)
         /\ Ends(b) = Ends(<<x>> \o b)
<1>1. /\ Len(b) \in Nat \ {0} /\ <<x>> \in Seq(Halves) /\ Len(<<x>>) = 1
      /\ Len(<<x>> \o b) = 1 + Len(b)
      /\ \A i \in 1..Len(b) : (<<x>> \o b)[i + 1] = b[i]
  BY ConcatProperties, LenProperties, EmptySeq
<1>2. <<Head(b)>> \o Tail(b) = b
  BY HeadOnTail
<1>3. WholeIn(b)
  <2>1. \A i \in 1..Len(b) - 1 : i + 1 \in 1..Len(<<x>> \o b) - 1 /\ i \in 1..Len(b) /\ i + 1 \in 1..Len(b)
    BY <1>1
  <2>2. QED
    BY <1>1, <2>1 DEF WholeIn
<1>4. QED
  BY <1>1, <1>2, <1>3 DEF Ends

LEMMA WholeMeans ==
  ErrorFramesWhole <=> WholeIn(Stream) /\ (Ends(Stream) = ErrBegin <=> tx.pc = "err_end")
BY DEF ErrorFramesWhole, WholeIn, Ends, ErrBegin, ErrEnd

LEMMA StreamTyped ==
  ASSUME TypeOK
  PROVE  /\ <<line>> \in Seq(Halves) /\ Stream \in Seq(Halves) /\ Stream # <<>>
         /\ \A t \in Seq(Halves) : <<line>> \o (tx_char_buffer \o t) = Stream \o t
<1>1. <<line>> \in Seq(Halves) /\ <<line>> # <<>> /\ tx_char_buffer \in Seq(Halves)
  BY DEF TypeOK
<1>2. QED
  BY <1>1, ConcatProperties, ConcatAssociative, ConcatEqualIffEmpty DEF Stream

(* The part of a frame process_outgoing_message writes begins no error.    *)
LEMMA PartOfFrame ==
  ASSUME NEW n \in Int, n <= 2
  PROVE  LET t == SubSeq(TxFrame, 1, n)
         IN  t \in Seq(Halves) /\ \A j \in 1..Len(t) : t[j] # ErrBegin
<1>1. \A i \in 1..n : i = 1 \/ i = 2
  OBVIOUS
<1>2. \A i \in 1..n : TxFrame[i] \in Halves /\ TxFrame[i] # ErrBegin
  BY <1>1 DEF TxFrame, Half, Halves, ErrBegin
<1>3. QED
  BY <1>2, SubSeqProperties

LEMMA WholeInductive ==
  ASSUME ControlOK, ErrorFramesWhole, [Next]_vars
  PROVE  ErrorFramesWhole'
<1>0. TypeOK /\ WholeIn(Stream) /\ (Ends(Stream) = ErrBegin <=> tx.pc = "err_end")
  BY WholeMeans DEF ControlOK
<1>1. SUFFICES WholeIn(Stream') /\ (Ends(Stream') = ErrBegin <=> tx'.pc = "err_end")
  BY DEF ErrorFramesWhole, WholeIn, Ends, ErrBegin, ErrEnd
<1>2. ASSUME UNCHANGED wireVars, tx'.pc = "err_end" <=> tx.pc = "err_end"
      PROVE  WholeIn(Stream') /\ (Ends(Stream') = ErrBegin <=> tx'.pc = "err_end")
  BY <1>0, <1>2 DEF wireVars, Stream
<1>3. ASSUME NEW part \in {"begin", "end"}, NEW next, TxWriteError(part, next)
      PROVE  Stream' = Append(Stream, Half("err", part)) /\ Half("err", part) \in Halves
  <2>1. Half("err", part) \in Halves /\ <<Half("err", part)>> \in Seq(Halves)
    BY DEF Half, Halves
  <2>2. Stream' = <<line>> \o Append(tx_char_buffer, Half("err", part))
    BY <1>3 DEF TxWriteError, Stream
  <2>3. Append(tx_char_buffer, Half("err", part)) = tx_char_buffer \o <<Half("err", part)>>
    BY <1>0, <2>1, AppendIsConcat DEF TypeOK
  <2>4. QED
    BY <1>0, <2>1, <2>2, <2>3, StreamTyped, AppendIsConcat
<1>4. CASE TxErrorBegin
  <2>1. Stream' = Append(Stream, ErrBegin) /\ ErrBegin \in Halves
    BY <1>3, <1>4 DEF TxErrorBegin, ErrBegin
  <2>2. tx.pc = "err_begin" /\ tx'.pc = "err_end"
    BY <1>0, <1>4 DEF TxErrorBegin, TxWriteError, TypeOK
  <2>3. QED
    BY <1>0, <2>1, <2>2, StreamTyped, WholeAppended
<1>5. CASE TxErrorEnd
  <2>1. Stream' = Append(Stream, ErrEnd) /\ ErrEnd \in Halves
    BY <1>3, <1>5 DEF TxErrorEnd, ErrEnd
  <2>2. tx'.pc # "err_end" /\ ErrEnd # ErrBegin
    BY <1>5 DEF TxErrorEnd, TxWriteError, IdleTx, ErrEnd, ErrBegin, Half
  <2>3. QED
    BY <1>0, <2>1, <2>2, StreamTyped, WholeAppended
<1>6. CASE TxSend
  <2>1. PICK n \in Int : n <= 2 /\ tx_char_buffer' = tx_char_buffer \o SubSeq(TxFrame, 1, n)
    <3>1. TxRoom \in Int
      BY <1>0, QueuesAssumption, LenProperties DEF TxRoom, TypeOK
    <3>2. \E n \in Int : n <= 2 /\ n = (IF TxRoom < 2 THEN TxRoom ELSE 2)
      BY <3>1
    <3>3. QED
      BY <1>6, <3>2 DEF TxSend
  <2>2. Stream' = Stream \o SubSeq(TxFrame, 1, n)
    BY <1>0, <1>6, <2>1, PartOfFrame, StreamTyped DEF TxSend, Stream
  <2>3. tx.pc = "send" /\ tx'.pc = "free"
    BY <1>0, <1>6 DEF TxSend, TypeOK
  <2>4. QED
    BY <1>0, <2>1, <2>2, <2>3, PartOfFrame, StreamTyped, WholeGrows
<1>7. CASE Transmit
  BY <1>0, <1>7, WholeShrinks DEF Transmit, Stream, TypeOK
<1>8. CASE TxSubsystemError \/ TxMessage
  BY <1>0, <1>2, <1>8, NextQueueOK DEF TxSubsystemError, TxMessage, TypeOK
<1>9. CASE TxOwnError \/ (\E code \in ErrorCodes : TxSendFail(code)) \/ TxFree
  BY <1>0, <1>2, <1>9, SMTT(60) DEF TxOwnError, TxSendFail, TxFree, IdleTx, TypeOK
<1>10. CASE RxFrame \/ RxStep
  BY <1>2, <1>10 DEF RxFrame, RxStep, RxReject, RxAccept, RxAlloc, RxAllocFail, RxParse,
                     RxParseFail, RxRoute, RxRouteFail, RxFree
<1>11. CASE \E s \in Subsystems : TaskStep(s)
  BY <1>2, <1>11 DEF TaskStep, TaskReceive, TaskNew, TaskSend, TaskDrop, TaskReport
<1>12. CASE UNCHANGED vars
  BY <1>2, <1>12 DEF vars, wireVars
<1>13. QED
  BY <1>4, <1>5, <1>6, <1>7, <1>8, <1>9, <1>10, <1>11, <1>12 DEF Next, TxStep

(* Error frames reach the host whole, never mixed with another frame,      *)
(* although both workers schedule them and message frames are cut short    *)
(* when the buffer is full: for any buffer of the UART.                    *)
THEOREM ErrorsReachHostWhole == Spec => []ErrorFramesWhole
<1>1. Init => ErrorFramesWhole
  BY DEF Init, IdleTx, IdleLine, ErrorFramesWhole, Stream, Half
<1>2. Spec => []ControlOK
  BY ControlInit, ControlInductive, PTL DEF Spec
<1>3. QED
  BY <1>1, <1>2, WholeInductive, PTL DEF Spec

-----------------------------------------------------------------------------
(* Message frames that were cut short.                                     *)

(* A message frame in s whose second half did not find room in the buffer. *)
CutAt(s, i) == s[i] = Half("msg", "begin") /\ (i < Len(s) => s[i + 1] # Half("msg", "end"))

(* An error is in the dispatcher's queue, or on its way into the buffer.   *)
Reporting == disp_err # <<>> \/ tx.pc \in {"err_begin", "err_end"}

NoticedIn(s, reporting) ==
    \A i \in 1..Len(s) : CutAt(s, i) => reporting \/ \E j \in i + 1..Len(s) : s[j] = ErrEnd

(* An error frame follows each frame that was cut short, or is to come.    *)
CutsNoticed == NoticedIn(Stream, Reporting)

(* What is written behind a cut frame leaves the notice under way, or has  *)
(* it in it.                                                               *)
LEMMA NoticedGrows ==
  ASSUME NEW s \in Seq(Halves), NEW t \in Seq(Halves), NEW r \in BOOLEAN, NEW q \in BOOLEAN,
         NoticedIn(s, r), r => q \/ \E j \in 1..Len(t) : t[j] = ErrEnd,
         \A k \in 1..Len(t) : CutAt(t, k) => q
  PROVE  NoticedIn(s \o t, q)
<1>1. /\ Len(s \o t) = Len(s) + Len(t) /\ Len(s) \in Nat /\ Len(t) \in Nat
      /\ \A i \in 1..Len(s) + Len(t) :
            (s \o t)[i] = IF i <= Len(s) THEN s[i] ELSE t[i - Len(s)]
  BY ConcatProperties, LenProperties
<1>2. SUFFICES ASSUME NEW i \in 1..Len(s) + Len(t), CutAt(s \o t, i), ~q
               PROVE  \E j \in i + 1..Len(s) + Len(t) : (s \o t)[j] = ErrEnd
  BY <1>1 DEF NoticedIn
<1>3. CASE i <= Len(s)
  <2>1. i \in 1..Len(s) /\ CutAt(s, i)
    BY <1>1, <1>2, <1>3 DEF CutAt
  <2>2. CASE r
    <3>1. PICK j \in 1..Len(t) : t[j] = ErrEnd
      BY <1>2, <2>2
    <3>2. /\ Len(s) + j \in i + 1..Len(s) + Len(t) /\ Len(s) + j \in 1..Len(s) + Len(t)
          /\ ~(Len(s) + j <= Len(s)) /\ Len(s) + j - Len(s) = j
      BY <1>1, <1>3
    <3>3. (s \o t)[Len(s) + j] = ErrEnd
      BY <1>1, <3>1, <3>2
    <3>4. QED
      BY <3>2, <3>3
  <2>3. CASE ~r
    <3>1. PICK j \in i + 1..Len(s) : s[j] = ErrEnd
      BY <2>1, <2>3 DEF NoticedIn
    <3>2. QED
      BY <1>1, <3>1
  <2>4. QED
    BY <2>2, <2>3
<1>4. CASE i > Len(s)
  <2>1. i - Len(s) \in 1..Len(t) /\ CutAt(t, i - Len(s))
    <3>1. /\ i - Len(s) \in 1..Len(t) /\ t[i - Len(s)] = (s \o t)[i]
      BY <1>1, <1>4
    <3>2. ASSUME i - Len(s) < Len(t)
          PROVE  t[i - Len(s) + 1] = (s \o t)[i + 1] /\ i < Len(s \o t)
      <4>1. /\ i + 1 \in 1..Len(s) + Len(t) /\ ~(i + 1 <= Len(s))
            /\ i + 1 - Len(s) = i - Len(s) + 1 /\ i < Len(s) + Len(t)
        BY <1>1, <1>4, <3>2
      <4>2. QED
        BY <1>1, <4>1, SMTT(60)
    <3>3. QED
      BY <1>2, <3>1, <3>2 DEF CutAt
  <2>2. QED
    BY <1>2, <2>1
<1>5. i <= Len(s) \/ i > Len(s)
  BY <1>1
<1>6. QED
  BY <1>3, <1>4, <1>5

LEMMA NoticedShrinks ==
  ASSUME NEW b \in Seq(Halves), NEW x \in Halves, NEW r \in BOOLEAN, NoticedIn(<<x>> \o b, r)
  PROVE  NoticedIn(b, r)
<1>1. /\ Len(b) \in Nat /\ Len(<<x>> \o b) = 1 + Len(b)
      /\ \A i \in 1..Len(b) : (<<x>> \o b)[i + 1] = b[i]
  BY ConcatProperties, LenProperties
<1>2. SUFFICES ASSUME NEW i \in 1..Len(b), CutAt(b, i), ~r
               PROVE  \E j \in i + 1..Len(b) : b[j] = ErrEnd
  BY DEF NoticedIn
<1>3. i + 1 \in 1..Len(<<x>> \o b) /\ CutAt(<<x>> \o b, i + 1)
  <2>1. i + 1 < Len(<<x>> \o b) => i + 1 \in 1..Len(b) /\ i < Len(b)
    BY <1>1
  <2>2. QED
    BY <1>1, <1>2, <2>1 DEF CutAt
<1>4. PICK j \in i + 2..Len(b) + 1 : (<<x>> \o b)[j] = ErrEnd
  <2>1. (i + 1) + 1 = i + 2 /\ Len(<<x>> \o b) = Len(b) + 1
    BY <1>1
  <2>2. QED
    BY <1>2, <1>3, <2>1 DEF NoticedIn
<1>5. j - 1 \in i + 1..Len(b) /\ j - 1 \in 1..Len(b) /\ (j - 1) + 1 = j
  BY <1>1
<1>6. QED
  BY <1>1, <1>4, <1>5

(* The notice of a frame cut short is in the queue, or the queue was full. *)
LEMMA NoticePosted ==
  ASSUME TypeOK, DispErrLen > 0, NEW code \in ErrorCodes, schedule_err_message(code)
  PROVE  disp_err' # <<>>
<1>1. disp_err \in Seq(ErrorCodes) /\ Len(disp_err) \in Nat
  BY LenProperties DEF TypeOK
<1>2. CASE Len(disp_err) < DispErrLen
  BY <1>1, <1>2, AppendProperties, EmptySeq DEF schedule_err_message, Posted
<1>3. CASE ~(Len(disp_err) < DispErrLen)
  BY <1>1, <1>3, QueuesAssumption, EmptySeq DEF schedule_err_message, Posted
<1>4. QED
  BY <1>2, <1>3

(* Errors are only ever added behind those in the queue.                   *)
LEMMA ReportingStays ==
  ASSUME ControlOK, DispErrLen > 0, Reporting, RxFrame \/ RxStep
  PROVE  Reporting'
<1>1. TypeOK /\ tx' = tx
  BY DEF ControlOK, RxFrame, RxStep, RxReject, RxAccept, RxAlloc, RxAllocFail, RxParse,
         RxParseFail, RxRoute, RxRouteFail, RxFree
<1>2. ASSUME NEW code \in ErrorCodes, schedule_err_message(code)
      PROVE  Reporting'
  BY <1>1, <1>2, NoticePosted DEF Reporting
<1>3. CASE disp_err' = disp_err
  BY <1>1, <1>3 DEF Reporting
<1>4. CASE RxFrame
  BY <1>2, <1>3, <1>4, VerdictMeaning DEF RxFrame, RxReject, RxAccept
<1>5. CASE RxStep
  <2>1. /\ MEM_ALLOC_ERROR \in ErrorCodes /\ MESSAGE_PARSING_ERROR \in ErrorCodes
        /\ MESSAGE_ROUTING_ERROR \in ErrorCodes
    BY DEF ErrorCodes, MEM_ALLOC_ERROR, MESSAGE_PARSING_ERROR, MESSAGE_ROUTING_ERROR
  <2>2. CASE RxAllocFail \/ RxParseFail \/ RxRouteFail
    BY <1>2, <2>1, <2>2, SMTT(60) DEF RxAllocFail, RxParseFail, RxRouteFail
  <2>3. CASE RxParse \/ RxRoute \/ RxFree \/ \E m \in Msgs : RxAlloc(m)
    BY <1>3, <2>3 DEF RxParse, RxRoute, RxFree, RxAlloc
  <2>4. QED
    BY <1>5, <2>2, <2>3 DEF RxStep
<1>6. QED
  BY <1>4, <1>5, SMTT(60)

LEMMA NoticedInductive ==
  ASSUME ControlOK, DispErrLen > 0, CutsNoticed, [Next]_vars
  PROVE  CutsNoticed'
<1>0. /\ TypeOK /\ Reporting \in BOOLEAN /\ Reporting' \in BOOLEAN
      /\ NoticedIn(Stream, Reporting)
  BY DEF ControlOK, CutsNoticed, Reporting
<1>1. SUFFICES NoticedIn(Stream', Reporting')
  BY DEF CutsNoticed, NoticedIn, CutAt, Half, ErrEnd
<1>2. ASSUME UNCHANGED wireVars, Reporting => Reporting'
      PROVE  NoticedIn(Stream', Reporting')
  <2>1. Stream' = Stream
    BY <1>2 DEF wireVars, Stream
  <2>2. QED
    BY <1>0, <1>2, <2>1 DEF NoticedIn
<1>3. ASSUME NEW part \in {"begin", "end"}, NEW next, TxWriteError(part, next)
      PROVE  Stream' = Stream \o <<Half("err", part)>> /\ <<Half("err", part)>> \in Seq(Halves)
  <2>1. Half("err", part) \in Halves /\ <<Half("err", part)>> \in Seq(Halves)
    BY DEF Half, Halves
  <2>2. Stream' = <<line>> \o Append(tx_char_buffer, Half("err", part))
    BY <1>3 DEF TxWriteError, Stream
  <2>3. Append(tx_char_buffer, Half("err", part)) = tx_char_buffer \o <<Half("err", part)>>
    BY <1>0, <2>1, AppendIsConcat DEF TypeOK
  <2>4. QED
    BY <1>0, <2>1, <2>2, <2>3, StreamTyped
<1>4. CASE TxErrorBegin
  <2>1. Stream' = Stream \o <<ErrBegin>> /\ <<ErrBegin>> \in Seq(Halves)
    BY <1>3, <1>4 DEF TxErrorBegin, ErrBegin
  <2>2. Reporting'
    BY <1>0, <1>4 DEF TxErrorBegin, TxWriteError, TypeOK, Reporting
  <2>3. QED
    BY <1>0, <2>1, <2>2, StreamTyped, NoticedGrows
<1>5. CASE TxErrorEnd
  <2>1. Stream' = Stream \o <<ErrEnd>> /\ <<ErrEnd>> \in Seq(Halves)
    BY <1>3, <1>5 DEF TxErrorEnd, ErrEnd
  <2>2. Len(<<ErrEnd>>) = 1 /\ <<ErrEnd>>[1] = ErrEnd /\ ~CutAt(<<ErrEnd>>, 1)
    BY DEF CutAt, ErrEnd, Half
  <2>3. /\ \A k \in 1..Len(<<ErrEnd>>) : CutAt(<<ErrEnd>>, k) => Reporting'
        /\ \E j \in 1..Len(<<ErrEnd>>) : <<ErrEnd>>[j] = ErrEnd
    <3>1. 1..Len(<<ErrEnd>>) = {1}
      BY <2>2
    <3>2. QED
      BY <2>2, <3>1
  <2>4. QED
    BY <1>0, <2>1, <2>2, <2>3, StreamTyped, NoticedGrows
<1>6. CASE TxSend
  <2> DEFINE n == IF TxRoom < 2 THEN TxRoom ELSE 2
             t == SubSeq(TxFrame, 1, n)
  <2>1. TxRoom \in Int /\ n \in Int /\ n <= 2
    BY <1>0, QueuesAssumption, LenProperties DEF TxRoom, TypeOK
  <2>2. t \in Seq(Halves)
    BY <2>1, PartOfFrame
  <2>3. Stream' = Stream \o t
    BY <1>0, <1>6, <2>2, StreamTyped DEF TxSend, Stream
  <2>4. ASSUME TxRoom < 2
        PROVE  Reporting'
    BY <1>0, <1>6, <2>4, NoticePosted DEF TxSend, Reporting, ErrorCodes, TX_BUFFER_FULL
  <2>5. ASSUME NEW k \in 1..Len(t), CutAt(t, k)
        PROVE  TxRoom < 2
    <3>1. SUFFICES ASSUME n = 2 PROVE FALSE
      BY <2>1
    <3>2. Len(t) = 2 /\ t[1] = Half("msg", "begin") /\ t[2] = Half("msg", "end")
      BY <3>1, SubSeqProperties DEF TxFrame, Half, Halves
    <3>3. k = 1 \/ k = 2
      <4>1. 1..Len(t) = 1..2
        BY <3>2
      <4> HIDE DEF t
      <4>2. k \in 1..2
        BY <4>1
      <4>3. QED
        BY <4>2
    <3>4. ASSUME t[k] = Half("msg", "begin")
          PROVE  k < 2 /\ t[k + 1] = Half("msg", "end")
      <4> HIDE DEF t
      <4>1. k # 2
        BY <3>2, <3>4 DEF Half
      <4>2. QED
        BY <3>2, <3>3, <4>1
    <3>5. QED
      BY <2>5, <3>2, <3>4 DEF CutAt
  <2>6. Reporting => Reporting'
    <3>1. tx.pc = "send"
      BY <1>6 DEF TxSend
    <3>2. CASE TxRoom < 2
      BY <2>4, <3>2
    <3>3. CASE ~(TxRoom < 2)
      BY <1>6, <3>1, <3>3 DEF TxSend, Reporting
    <3>4. QED
      BY <3>2, <3>3
  <2> HIDE DEF n, t
  <2>7. QED
    BY <1>0, <2>2, <2>3, <2>4, <2>5, <2>6, StreamTyped, NoticedGrows
<1>7. CASE Transmit
  <2>1. Stream' = tx_char_buffer /\ line \in Halves /\ tx_char_buffer \in Seq(Halves)
    <3>1. tx_char_buffer \in Seq(Halves) /\ tx_char_buffer # <<>> /\ line \in Halves
      BY <1>0, <1>7 DEF Transmit, TypeOK
    <3>2. Stream' = <<Head(tx_char_buffer)>> \o Tail(tx_char_buffer)
      BY <1>7 DEF Transmit, Stream
    <3>3. <<Head(tx_char_buffer)>> \o Tail(tx_char_buffer) = tx_char_buffer
      BY <3>1, HeadOnTail
    <3>4. QED
      BY <3>1, <3>2, <3>3
  <2>2. Reporting' = Reporting
    BY <1>7 DEF Transmit, Reporting
  <2>3. Stream = <<line>> \o tx_char_buffer
    BY DEF Stream
  <2>4. QED
    BY <1>0, <2>1, <2>2, <2>3, NoticedShrinks
<1>8. CASE TxOwnError \/ TxSubsystemError \/ TxMessage
  <2>1. tx.pc \in {"own", "errs", "msgs"} /\ UNCHANGED wireVars
    BY <1>8 DEF TxOwnError, TxSubsystemError, TxMessage
  <2>2. Reporting => disp_err # <<>>
    BY <2>1 DEF Reporting
  <2>3. Reporting => Reporting'
    BY <1>0, <1>8, <2>2 DEF TxOwnError, TxSubsystemError, TxMessage, Reporting, TypeOK
  <2>4. QED
    BY <1>2, <2>1, <2>3
<1>9. CASE (\E code \in ErrorCodes : TxSendFail(code)) \/ TxFree
  <2>1. tx.pc \in {"send", "free"} /\ UNCHANGED wireVars
    BY <1>9 DEF TxSendFail, TxFree
  <2>2. Reporting => disp_err # <<>>
    BY <2>1 DEF Reporting
  <2>3. disp_err # <<>> => disp_err' # <<>>
    BY <1>0, <1>9, NoticePosted DEF TxSendFail, TxFree
  <2>4. QED
    BY <1>2, <2>1, <2>2, <2>3 DEF Reporting
<1>10. CASE RxFrame \/ RxStep
  <2>1. UNCHANGED wireVars
    BY <1>10 DEF RxFrame, RxStep, RxReject, RxAccept, RxAlloc, RxAllocFail, RxParse,
                 RxParseFail, RxRoute, RxRouteFail, RxFree
  <2>2. QED
    BY <1>2, <1>10, <2>1, ReportingStays, SMTT(60)
<1>11. CASE \E s \in Subsystems : TaskStep(s)
  BY <1>2, <1>11 DEF TaskStep, TaskReceive, TaskNew, TaskSend, TaskDrop, TaskReport, Reporting
<1>12. CASE UNCHANGED vars
  BY <1>2, <1>12 DEF vars, wireVars, Reporting
<1>13. QED
  BY <1>4, <1>5, <1>6, <1>7, <1>8, <1>9, <1>10, <1>11, <1>12 DEF Next, TxStep

(* Behind a message frame that was cut short because the UART's buffer was *)
(* full an error frame follows, or an error is queued for the host or      *)
(* being written: also when the notice itself found the queue full, and    *)
(* whatever the tasks do.  That what is queued gets written needs fairness *)
(* and is left to CutShortIsReported.                                      *)
THEOREM CutFramesAreNoticed ==
  ASSUME DispErrLen > 0
  PROVE  Spec => []CutsNoticed
<1>1. Init => CutsNoticed
  BY DEF Init, IdleTx, IdleLine, CutsNoticed, NoticedIn, CutAt, Stream, Half
<1>2. Spec => []ControlOK
  BY ControlInit, ControlInductive, PTL DEF Spec
<1>3. QED
  BY <1>1, <1>2, NoticedInductive, PTL DEF Spec

-----------------------------------------------------------------------------
(* Every message struct has exactly one owner, for any number of           *)
(* subsystems, structs and queue places.                                   *)
(*                                                                         *)
(* The proof follows one struct.  A struct can only be met in its pool,    *)
(* with a worker, or in the queues and hands of its own subsystem: six     *)
(* kinds of place.  Nine of the dispatcher's steps move one struct from    *)
(* one kind of place to another, the others move none.                     *)
Kinds == {"pool", "rx", "tx", "incoming", "held", "outgoing"}

Has(k, m) ==
    CASE k = "pool"     -> m \in msg_pool
      [] k = "rx"       -> rx.msg = m
      [] k = "tx"       -> tx.msg = m
      [] k = "incoming" -> m \in Queued(incoming[SubsystemOf[m]])
      [] k = "held"     -> m \in held[SubsystemOf[m]]
      [] k = "outgoing" -> m \in Queued(outgoing[SubsystemOf[m]])

Owned == \A m \in Msgs : \E k \in Kinds : Has(k, m) /\ \A l \in Kinds : Has(l, m) => l = k

NoRepeats == \A s \in Subsystems : NoDuplicates(incoming[s]) /\ NoDuplicates(outgoing[s])

OwnershipOK == Owned /\ OwnPool /\ NoRepeats

-----------------------------------------------------------------------------
LEMMA HasMeans ==
  ASSUME NEW m
  PROVE  /\ Has("pool", m) <=> m \in msg_pool
         /\ Has("rx", m) <=> rx.msg = m
         /\ Has("tx", m) <=> tx.msg = m
         /\ Has("incoming", m) <=> m \in Queued(incoming[SubsystemOf[m]])
         /\ Has("held", m) <=> m \in held[SubsystemOf[m]]
         /\ Has("outgoing", m) <=> m \in Queued(outgoing[SubsystemOf[m]])
BY DEF Has

(* m goes to k, and no other struct goes anywhere.                         *)
Moves(m, k) == \A n \in Msgs : \A l \in Kinds : Has(l, n)' <=> (IF n = m THEN l = k ELSE Has(l, n))

Passes == {<<"pool", "rx">>, <<"rx", "pool">>, <<"rx", "incoming">>, <<"incoming", "held">>,
           <<"pool", "held">>, <<"held", "pool">>, <<"held", "outgoing">>,
           <<"outgoing", "tx">>, <<"tx", "pool">>}

HandsOver ==
    \E m \in Msgs, k, l \in Kinds :
       /\ <<k, l>> \in Passes /\ Has(k, m) /\ Moves(m, l)
       /\ l \in {"rx", "tx"} => \A n \in Msgs : ~Has(l, n)

HandsOverNothing == \A m \in Msgs, k \in Kinds : Has(k, m)' <=> Has(k, m)

LEMMA MoveKeepsOwned ==
  ASSUME Owned, NEW m \in Msgs, NEW k \in Kinds, Moves(m, k)
  PROVE  Owned'
<1> SUFFICES ASSUME NEW n \in Msgs
             PROVE  \E j \in Kinds : Has(j, n)' /\ \A l \in Kinds : Has(l, n)' => l = j
  BY DEF Owned
<1>1. CASE n = m
  BY <1>1 DEF Moves
<1>2. CASE n # m
  BY <1>2 DEF Moves, Owned
<1>3. QED
  BY <1>1, <1>2

LEMMA Alone ==
  ASSUME OwnershipOK, NEW m \in Msgs, NEW k \in Kinds, Has(k, m)
  PROVE  \A l \in Kinds : Has(l, m) <=> l = k
BY DEF OwnershipOK, Owned

(* A step that moves no struct.                                            *)
LEMMA StayKeepsOwnership ==
  ASSUME OwnershipOK,
         UNCHANGED <<msg_pool, incoming, held, outgoing>>,
         rx'.msg = rx.msg, tx'.msg = tx.msg,
         rx.msg # NoMsg => rx'.frame = rx.frame,
         tx.msg # NoMsg => tx'.pos = tx.pos
  PROVE  OwnershipOK' /\ HandsOverNothing
<1>0. HandsOverNothing
  BY DEF HandsOverNothing, Has, Kinds
<1>1. Owned'
  BY <1>0 DEF HandsOverNothing, OwnershipOK, Owned
<1>2. OwnPool'
  BY DEF OwnershipOK, OwnPool, Scanned
<1>3. NoRepeats'
  BY DEF OwnershipOK, NoRepeats
<1>4. QED
  BY <1>0, <1>1, <1>2, <1>3 DEF OwnershipOK

-----------------------------------------------------------------------------
(* The nine moves.                                                         *)

LEMMA PoolToRx ==
  ASSUME ControlOK, OwnershipOK, NEW m \in Msgs, RxAlloc(m) PROVE OwnershipOK' /\ HandsOver
<1> USE DEF RxAlloc, alloc_message, wireVars, taskVars
<1>1. /\ msg_pool' = msg_pool \ {m} /\ rx'.msg = m /\ rx'.frame = rx.frame
      /\ UNCHANGED <<tx, incoming, held, outgoing>>
  BY DEF ControlOK, TypeOK
<1>2. m \in msg_pool /\ rx.msg = NoMsg /\ NoMsg \notin Msgs
  BY MsgsAssumption DEF ControlOK, WorkersOK
<1>3. Moves(m, "rx")
  <2>1. \A l \in Kinds : Has(l, m) <=> l = "pool"
    BY <1>2, Alone, HasMeans DEF Kinds
  <2>2. ASSUME NEW n \in Msgs, NEW l \in Kinds, n # m PROVE Has(l, n)' <=> Has(l, n)
    BY <1>1, <1>2, <2>2 DEF Has, Kinds
  <2>3. ASSUME NEW l \in Kinds PROVE Has(l, m)' <=> l = "rx"
    BY <1>1, <1>2, <2>1 DEF Has, Kinds
  <2>4. QED
    BY <2>2, <2>3 DEF Moves
<1>4. OwnPool' /\ NoRepeats'
  BY <1>1 DEF OwnershipOK, OwnPool, NoRepeats, Scanned
<1>5. HandsOver
  <2>1. m \in Msgs /\ Has("pool", m)
    BY <1>1, <1>2, HasMeans
  <2>2. \A n \in Msgs : ~Has("rx", n)
    BY <1>1, <1>2, MsgsAssumption DEF Has
  <2>3. QED
    BY <1>3, <2>1, <2>2 DEF HandsOver, Passes, Kinds
<1>6. QED
  BY <1>5, <1>3, <1>4, MoveKeepsOwned DEF OwnershipOK, Kinds

LEMMA RxToIncoming ==
  ASSUME ControlOK, OwnershipOK, RxRoute PROVE OwnershipOK' /\ HandsOver
<1> DEFINE m == rx.msg
           s == rx.frame.sub
<1>1. /\ m \in Msgs /\ s \in Subsystems /\ SubsystemOf[m] = s
      /\ incoming[s] \in Seq(Msgs) /\ NoMsg \notin Msgs
  BY VerdictMeaning, MsgsAssumption
  DEF RxRoute, ControlOK, TypeOK, WorkersOK, OwnershipOK, OwnPool
<1>2. /\ incoming' = [incoming EXCEPT ![s] = Append(incoming[s], m)]
      /\ rx'.msg = NoMsg /\ UNCHANGED <<msg_pool, tx, held, outgoing>>
  BY DEF RxRoute, IdleRx, taskVars
<1>3. incoming'[s] = Append(incoming[s], m) /\ \A t \in Subsystems \ {s} : incoming'[t] = incoming[t]
  BY <1>1, <1>2 DEF ControlOK, TypeOK
<1>4. m \notin Queued(incoming[s])
  BY <1>1 DEF OwnershipOK, Owned, Has, Kinds
<1>5. Queued(incoming'[s]) = Queued(incoming[s]) \cup {m} /\ NoDuplicates(incoming'[s])
  BY <1>1, <1>3, <1>4, QueueGrows DEF OwnershipOK, NoRepeats
<1>6. Moves(m, "incoming")
  <2>1. \A n \in Msgs : n \in Queued(incoming'[SubsystemOf[n]])
                             <=> n = m \/ n \in Queued(incoming[SubsystemOf[n]])
    BY <1>1, <1>3, <1>5, MsgsAssumption
  <2>2. \A l \in Kinds : Has(l, m) <=> l = "rx"
    BY <1>1, Alone, HasMeans DEF Kinds
  <2>3. ASSUME NEW n \in Msgs, NEW l \in Kinds, n # m PROVE Has(l, n)' <=> Has(l, n)
    BY <1>1, <1>2, <2>1, <2>3 DEF Has, Kinds
  <2>4. ASSUME NEW n \in Msgs, NEW l \in Kinds, n = m PROVE Has(l, n)' <=> l = "incoming"
    <3>1. Has(l, n) <=> l = "rx"
      BY <2>2, <2>4
    <3>2. QED
      BY <1>1, <1>2, <2>1, <2>4, <3>1 DEF Has, Kinds
  <2>5. QED
    BY <2>3, <2>4 DEF Moves
<1>7. OwnPool' /\ NoRepeats'
  BY <1>1, <1>2, <1>3, <1>5 DEF OwnershipOK, OwnPool, NoRepeats, Scanned
<1>8. HandsOver
  <2>1. m \in Msgs /\ Has("rx", m)
    BY <1>1, <1>2, HasMeans
  <2>2. QED
    BY <1>6, <2>1 DEF HandsOver, Passes, Kinds
<1>9. QED
  BY <1>8, <1>1, <1>6, <1>7, MoveKeepsOwned DEF OwnershipOK, Kinds

LEMMA RxToPool ==
  ASSUME ControlOK, OwnershipOK, RxFree PROVE OwnershipOK' /\ HandsOver
<1>1. /\ rx.msg \in Msgs /\ NoMsg \notin Msgs
      /\ msg_pool' = msg_pool \cup {rx.msg} /\ rx'.msg = NoMsg
      /\ UNCHANGED <<tx, incoming, held, outgoing>>
  BY MsgsAssumption DEF RxFree, free_message, IdleRx, taskVars, ControlOK, TypeOK, WorkersOK
<1>2. Moves(rx.msg, "pool")
  <2>1. \A l \in Kinds : Has(l, rx.msg) <=> l = "rx"
    BY <1>1, Alone, HasMeans DEF Kinds
  <2>2. ASSUME NEW n \in Msgs, NEW l \in Kinds, n # rx.msg PROVE Has(l, n)' <=> Has(l, n)
    BY <1>1, <2>2 DEF Has, Kinds
  <2>3. ASSUME NEW n \in Msgs, NEW l \in Kinds, n = rx.msg PROVE Has(l, n)' <=> l = "pool"
    <3>1. Has(l, n) <=> l = "rx"
      BY <2>1, <2>3
    <3>2. QED
      BY <1>1, <2>3, <3>1 DEF Has, Kinds
  <2>4. QED
    BY <2>2, <2>3 DEF Moves
<1>3. OwnPool' /\ NoRepeats'
  BY <1>1 DEF OwnershipOK, OwnPool, NoRepeats, Scanned
<1>4. HandsOver
  <2>1. rx.msg \in Msgs /\ Has("rx", rx.msg)
    BY <1>1, HasMeans
  <2>2. QED
    BY <1>2, <2>1 DEF HandsOver, Passes, Kinds
<1>5. QED
  BY <1>4, <1>1, <1>2, <1>3, MoveKeepsOwned DEF OwnershipOK, Kinds

LEMMA IncomingToHeld ==
  ASSUME ControlOK, OwnershipOK, NEW s \in Subsystems, TaskReceive(s) PROVE OwnershipOK' /\ HandsOver
<1> DEFINE m == Head(incoming[s])
<1>1. /\ m \in Msgs /\ m \in Queued(incoming[s]) /\ SubsystemOf[m] = s
      /\ Queued(Tail(incoming[s])) = Queued(incoming[s]) \ {m}
      /\ NoDuplicates(Tail(incoming[s]))
  BY QueueShrinks DEF TaskReceive, ControlOK, TypeOK, OwnershipOK, OwnPool, NoRepeats
<1>2. /\ incoming'[s] = Tail(incoming[s]) /\ held'[s] = held[s] \cup {m}
      /\ \A t \in Subsystems \ {s} : incoming'[t] = incoming[t] /\ held'[t] = held[t]
      /\ UNCHANGED <<msg_pool, rx, tx, outgoing>>
  BY DEF TaskReceive, ControlOK, TypeOK
<1>3. Moves(m, "held")
  <2>1. \A n \in Msgs : /\ n \in Queued(incoming'[SubsystemOf[n]])
                              <=> n # m /\ n \in Queued(incoming[SubsystemOf[n]])
                        /\ n \in held'[SubsystemOf[n]] <=> n = m \/ n \in held[SubsystemOf[n]]
    BY <1>1, <1>2, MsgsAssumption
  <2>2. \A l \in Kinds : Has(l, m) <=> l = "incoming"
    BY <1>1, Alone, HasMeans DEF Kinds
  <2>3. ASSUME NEW n \in Msgs, NEW l \in Kinds, n # m PROVE Has(l, n)' <=> Has(l, n)
    BY <1>1, <1>2, <2>1, <2>3 DEF Has, Kinds
  <2>4. ASSUME NEW n \in Msgs, NEW l \in Kinds, n = m PROVE Has(l, n)' <=> l = "held"
    BY <1>1, <1>2, <2>1, <2>2, <2>4 DEF Has, Kinds
  <2>5. QED
    BY <2>3, <2>4 DEF Moves
<1>4. OwnPool' /\ NoRepeats'
  BY <1>1, <1>2 DEF OwnershipOK, OwnPool, NoRepeats, Scanned
<1>5. HandsOver
  <2>1. m \in Msgs /\ Has("incoming", m)
    BY <1>1, <1>2, HasMeans
  <2>2. QED
    BY <1>3, <2>1 DEF HandsOver, Passes, Kinds
<1>6. QED
  BY <1>5, <1>1, <1>3, <1>4, MoveKeepsOwned DEF OwnershipOK, Kinds

LEMMA PoolToHeld ==
  ASSUME ControlOK, OwnershipOK, NEW s \in Subsystems, NEW m \in Msgs, NEW type, NEW tid,
         TaskNew(s, m, type, tid)
  PROVE  OwnershipOK' /\ HandsOver
<1>1. /\ SubsystemOf[m] = s /\ m \in msg_pool /\ msg_pool' = msg_pool \ {m}
      /\ held'[s] = held[s] \cup {m}
      /\ \A t \in Subsystems \ {s} : held'[t] = held[t]
      /\ UNCHANGED <<rx, tx, incoming, outgoing>>
  BY DEF TaskNew, alloc_message, ControlOK, TypeOK
<1>2. Moves(m, "held")
  <2>1. \A n \in Msgs : n \in held'[SubsystemOf[n]] <=> n = m \/ n \in held[SubsystemOf[n]]
    BY <1>1, MsgsAssumption
  <2>2. \A l \in Kinds : Has(l, m) <=> l = "pool"
    BY <1>1, Alone, HasMeans DEF Kinds
  <2>3. ASSUME NEW n \in Msgs, NEW l \in Kinds, n # m PROVE Has(l, n)' <=> Has(l, n)
    BY <1>1, <2>1, <2>3 DEF Has, Kinds
  <2>4. ASSUME NEW l \in Kinds PROVE Has(l, m)' <=> l = "held"
    BY <1>1, <2>1, <2>2 DEF Has, Kinds
  <2>5. QED
    BY <2>3, <2>4 DEF Moves
<1>3. OwnPool' /\ NoRepeats'
  BY <1>1 DEF OwnershipOK, OwnPool, NoRepeats, Scanned
<1>4. HandsOver
  <2>1. m \in Msgs /\ Has("pool", m)
    BY <1>1, HasMeans
  <2>2. QED
    BY <1>2, <2>1 DEF HandsOver, Passes, Kinds
<1>5. QED
  BY <1>4, <1>2, <1>3, MoveKeepsOwned DEF OwnershipOK, Kinds

LEMMA HeldToOutgoing ==
  ASSUME ControlOK, OwnershipOK, NEW s \in Subsystems, NEW m \in Msgs, TaskSend(s, m)
  PROVE  OwnershipOK' /\ HandsOver
<1>1. /\ m \in held[s] /\ SubsystemOf[m] = s /\ outgoing[s] \in Seq(Msgs)
      /\ outgoing'[s] = Append(outgoing[s], m) /\ held'[s] = held[s] \ {m}
      /\ \A t \in Subsystems \ {s} : outgoing'[t] = outgoing[t] /\ held'[t] = held[t]
      /\ UNCHANGED <<msg_pool, rx, tx, incoming>>
  BY DEF TaskSend, ControlOK, TypeOK, OwnershipOK, OwnPool
<1>2. m \notin Queued(outgoing[s])
  BY <1>1 DEF OwnershipOK, Owned, Has, Kinds
<1>3. Queued(outgoing'[s]) = Queued(outgoing[s]) \cup {m} /\ NoDuplicates(outgoing'[s])
  BY <1>1, <1>2, QueueGrows DEF OwnershipOK, NoRepeats
<1>4. Moves(m, "outgoing")
  <2>1. \A n \in Msgs : /\ n \in Queued(outgoing'[SubsystemOf[n]])
                              <=> n = m \/ n \in Queued(outgoing[SubsystemOf[n]])
                        /\ n \in held'[SubsystemOf[n]] <=> n # m /\ n \in held[SubsystemOf[n]]
    BY <1>1, <1>3, MsgsAssumption
  <2>2. \A l \in Kinds : Has(l, m) <=> l = "held"
    BY <1>1, Alone, HasMeans DEF Kinds
  <2>3. ASSUME NEW n \in Msgs, NEW l \in Kinds, n # m PROVE Has(l, n)' <=> Has(l, n)
    BY <1>1, <2>1, <2>3 DEF Has, Kinds
  <2>4. ASSUME NEW l \in Kinds PROVE Has(l, m)' <=> l = "outgoing"
    BY <1>1, <2>1, <2>2 DEF Has, Kinds
  <2>5. QED
    BY <2>3, <2>4 DEF Moves
<1>5. OwnPool'
  <2>1. ASSUME NEW t \in Subsystems,
               NEW n \in Queued(incoming'[t]) \cup held'[t] \cup Queued(outgoing'[t])
        PROVE  SubsystemOf[n] = t
    <3>1. incoming'[t] = incoming[t]
      BY <1>1
    <3>2. CASE t = s
      BY <1>1, <1>3, <3>1, <3>2, ZenonT(60) DEF OwnershipOK, OwnPool
    <3>3. CASE t # s
      BY <1>1, <3>1, <3>3 DEF OwnershipOK, OwnPool
    <3>4. QED
      BY <3>2, <3>3
  <2>2. QED
    BY <1>1, <2>1 DEF OwnershipOK, OwnPool, Scanned
<1>6. NoRepeats'
  BY <1>1, <1>3 DEF OwnershipOK, NoRepeats
<1>7. HandsOver
  <2>1. m \in Msgs /\ Has("held", m)
    BY <1>1, <1>2, HasMeans
  <2>2. QED
    BY <1>4, <2>1 DEF HandsOver, Passes, Kinds
<1>8. QED
  BY <1>7, <1>4, <1>5, <1>6, MoveKeepsOwned DEF OwnershipOK, Kinds

LEMMA HeldToPool ==
  ASSUME ControlOK, OwnershipOK, NEW s \in Subsystems, NEW m \in Msgs, TaskDrop(s, m)
  PROVE  OwnershipOK' /\ HandsOver
<1>1. /\ m \in held[s] /\ SubsystemOf[m] = s /\ msg_pool' = msg_pool \cup {m}
      /\ held'[s] = held[s] \ {m}
      /\ \A t \in Subsystems \ {s} : held'[t] = held[t]
      /\ UNCHANGED <<rx, tx, incoming, outgoing>>
  BY DEF TaskDrop, free_message, ControlOK, TypeOK, OwnershipOK, OwnPool
<1>2. Moves(m, "pool")
  <2>1. \A n \in Msgs : n \in held'[SubsystemOf[n]] <=> n # m /\ n \in held[SubsystemOf[n]]
    BY <1>1, MsgsAssumption
  <2>2. \A l \in Kinds : Has(l, m) <=> l = "held"
    BY <1>1, Alone, HasMeans DEF Kinds
  <2>3. ASSUME NEW n \in Msgs, NEW l \in Kinds, n # m PROVE Has(l, n)' <=> Has(l, n)
    BY <1>1, <2>1, <2>3 DEF Has, Kinds
  <2>4. ASSUME NEW l \in Kinds PROVE Has(l, m)' <=> l = "pool"
    BY <1>1, <2>1, <2>2 DEF Has, Kinds
  <2>5. QED
    BY <2>3, <2>4 DEF Moves
<1>3. OwnPool' /\ NoRepeats'
  BY <1>1 DEF OwnershipOK, OwnPool, NoRepeats, Scanned
<1>4. HandsOver
  <2>1. m \in Msgs /\ Has("held", m)
    BY <1>1, HasMeans
  <2>2. QED
    BY <1>2, <2>1 DEF HandsOver, Passes, Kinds
<1>5. QED
  BY <1>4, <1>2, <1>3, MoveKeepsOwned DEF OwnershipOK, Kinds

LEMMA OutgoingToTx ==
  ASSUME ControlOK, OwnershipOK, TxMessage, Scanned \in WithOutQueue, outgoing[Scanned] # <<>>
  PROVE  OwnershipOK' /\ HandsOver
<1> DEFINE s == Scanned
           m == Head(outgoing[s])
<1>1. /\ s \in Subsystems /\ m \in Msgs /\ m \in Queued(outgoing[s]) /\ SubsystemOf[m] = s
      /\ Queued(Tail(outgoing[s])) = Queued(outgoing[s]) \ {m}
      /\ NoDuplicates(Tail(outgoing[s]))
  BY QueueShrinks, QueuesAssumption DEF ControlOK, TypeOK, OwnershipOK, OwnPool, NoRepeats
<1>2. /\ outgoing'[s] = Tail(outgoing[s])
      /\ \A t \in Subsystems \ {s} : outgoing'[t] = outgoing[t]
      /\ tx'.msg = m /\ tx'.pos = tx.pos /\ tx.msg = NoMsg
      /\ UNCHANGED <<msg_pool, rx, incoming, held>>
  BY <1>1 DEF TxMessage, ControlOK, TypeOK, WorkersOK, rxVars
<1>3. Moves(m, "tx")
  <2>1. \A n \in Msgs : n \in Queued(outgoing'[SubsystemOf[n]])
                             <=> n # m /\ n \in Queued(outgoing[SubsystemOf[n]])
    BY <1>1, <1>2, MsgsAssumption
  <2>2. \A l \in Kinds : Has(l, m) <=> l = "outgoing"
    BY <1>1, Alone, HasMeans DEF Kinds
  <2>3. ASSUME NEW n \in Msgs, NEW l \in Kinds, n # m PROVE Has(l, n)' <=> Has(l, n)
    BY <1>1, <1>2, <2>1, <2>3, MsgsAssumption DEF Has, Kinds
  <2>4. ASSUME NEW n \in Msgs, NEW l \in Kinds, n = m PROVE Has(l, n)' <=> l = "tx"
    BY <1>1, <1>2, <2>1, <2>2, <2>4 DEF Has, Kinds
  <2>5. QED
    BY <2>3, <2>4 DEF Moves
<1>4. OwnPool' /\ NoRepeats'
  BY <1>1, <1>2 DEF OwnershipOK, OwnPool, NoRepeats, Scanned
<1>5. HandsOver
  <2>1. m \in Msgs /\ Has("outgoing", m)
    BY <1>1, <1>2, HasMeans
  <2>2. \A n \in Msgs : ~Has("tx", n)
    BY <1>1, <1>2, MsgsAssumption DEF Has
  <2>3. QED
    BY <1>3, <2>1, <2>2 DEF HandsOver, Passes, Kinds
<1>6. QED
  BY <1>5, <1>1, <1>3, <1>4, MoveKeepsOwned DEF OwnershipOK, Kinds

LEMMA TxToPool ==
  ASSUME ControlOK, OwnershipOK, TxFree PROVE OwnershipOK' /\ HandsOver
<1>1. /\ tx.msg \in Msgs /\ NoMsg \notin Msgs
      /\ msg_pool' = msg_pool \cup {tx.msg} /\ tx'.msg = NoMsg
      /\ UNCHANGED <<rx, incoming, held, outgoing>>
  BY MsgsAssumption
  DEF TxFree, free_message, IdleTx, taskVars, rxVars, ControlOK, TypeOK, WorkersOK
<1>2. Moves(tx.msg, "pool")
  <2>1. \A l \in Kinds : Has(l, tx.msg) <=> l = "tx"
    BY <1>1, Alone, HasMeans DEF Kinds
  <2>2. ASSUME NEW n \in Msgs, NEW l \in Kinds, n # tx.msg PROVE Has(l, n)' <=> Has(l, n)
    BY <1>1, <2>2 DEF Has, Kinds
  <2>3. ASSUME NEW n \in Msgs, NEW l \in Kinds, n = tx.msg PROVE Has(l, n)' <=> l = "pool"
    <3>1. Has(l, n) <=> l = "tx"
      BY <2>1, <2>3
    <3>2. QED
      BY <1>1, <2>3, <3>1 DEF Has, Kinds
  <2>4. QED
    BY <2>2, <2>3 DEF Moves
<1>3. OwnPool' /\ NoRepeats'
  BY <1>1 DEF OwnershipOK, OwnPool, NoRepeats, Scanned
<1>4. HandsOver
  <2>1. tx.msg \in Msgs /\ Has("tx", tx.msg)
    BY <1>1, HasMeans
  <2>2. QED
    BY <1>2, <2>1 DEF HandsOver, Passes, Kinds
<1>5. QED
  BY <1>4, <1>1, <1>2, <1>3, MoveKeepsOwned DEF OwnershipOK, Kinds

-----------------------------------------------------------------------------
LEMMA OwnershipInit == Init => OwnershipOK
<1> SUFFICES ASSUME Init PROVE OwnershipOK
  OBVIOUS
<1>1. \A s \in Subsystems : Queued(incoming[s]) = {} /\ Queued(outgoing[s]) = {} /\ held[s] = {}
  BY EmptySeq DEF Init, Queued
<1>2. Owned
  BY <1>1, MsgsAssumption DEF Init, Owned, Has, Kinds, IdleRx, IdleTx
<1>3. OwnPool
  BY <1>1 DEF Init, OwnPool, IdleRx, IdleTx
<1>4. NoRepeats
  BY EmptySeq DEF Init, NoRepeats, NoDuplicates
<1>5. QED
  BY <1>2, <1>3, <1>4 DEF OwnershipOK

(* Every step is one of the nine moves or moves no struct.                 *)
LEMMA OwnershipInductive == ControlOK /\ OwnershipOK /\ [Next]_vars =>
                            OwnershipOK' /\ (HandsOver \/ HandsOverNothing)
<1> DEFINE Goal == OwnershipOK' /\ (HandsOver \/ HandsOverNothing)
<1> SUFFICES ASSUME ControlOK, OwnershipOK, [Next]_vars PROVE Goal
  OBVIOUS
<1> DEFINE Stays == /\ UNCHANGED <<msg_pool, incoming, held, outgoing>>
                    /\ rx'.msg = rx.msg /\ tx'.msg = tx.msg
                    /\ rx.msg # NoMsg => rx'.frame = rx.frame
                    /\ tx.msg # NoMsg => tx'.pos = tx.pos
<1>1. ASSUME Stays PROVE Goal
  BY <1>1, StayKeepsOwnership
<1> USE DEF ControlOK, TypeOK, WorkersOK, rxVars, taskVars, wireVars
<1>2. CASE RxFrame
  <2>1. Stays
    BY <1>2 DEF RxFrame, RxReject, RxAccept
  <2>2. QED
    BY <1>1, <2>1
<1>3. CASE RxStep
  <2>1. CASE RxAllocFail \/ RxParse \/ RxParseFail \/ RxRouteFail
    <3>1. Stays
      BY <2>1 DEF RxAllocFail, RxParse, RxParseFail, RxRouteFail, IdleRx
    <3>2. QED
      BY <1>1, <3>1
  <2>2. QED
    BY <1>3, <2>1, PoolToRx, RxToIncoming, RxToPool DEF RxStep
<1>4. ASSUME NEW s \in Subsystems, TaskStep(s) PROVE Goal
  <2>1. ASSUME NEW code \in TaskErrors, TaskReport(s, code) PROVE Goal
    <3>1. Stays
      BY <2>1 DEF TaskReport
    <3>2. QED
      BY <1>1, <3>1
  <2>2. QED
    BY <1>4, <2>1, IncomingToHeld, PoolToHeld, HeldToOutgoing, HeldToPool DEF TaskStep
<1>5. CASE TxStep
  <2>1. CASE TxOwnError \/ TxSubsystemError
    <3>1. Stays
      BY <2>1, NextQueueOK DEF TxOwnError, TxSubsystemError
    <3>2. QED
      BY <1>1, <3>1
  <2>2. CASE TxMessage /\ ~(Scanned \in WithOutQueue /\ outgoing[Scanned] # <<>>)
    <3>1. Stays
      BY <2>2, NextQueueOK DEF TxMessage
    <3>2. QED
      BY <1>1, <3>1
  <2>3. CASE TxErrorBegin \/ TxErrorEnd
    <3>1. Stays
      BY <2>3 DEF TxErrorBegin, TxErrorEnd, TxWriteError, IdleTx
    <3>2. QED
      BY <1>1, <3>1
  <2>4. CASE TxSend \/ \E code \in ErrorCodes : TxSendFail(code)
    <3>1. Stays
      BY <2>4 DEF TxSend, TxSendFail
    <3>2. QED
      BY <1>1, <3>1
  <2>5. QED
    BY <1>5, <2>1, <2>2, <2>3, <2>4, OutgoingToTx, TxToPool DEF TxStep
<1>6. CASE Transmit
  <2>1. Stays
    BY <1>6 DEF Transmit
  <2>2. QED
    BY <1>1, <2>1
<1>7. CASE UNCHANGED vars
  <2>1. Stays
    BY <1>7 DEF vars
  <2>2. QED
    BY <1>1, <2>1
<1>8. QED
  BY <1>2, <1>3, <1>4, <1>5, <1>6, <1>7 DEF Next

(* A kind of place is a place, once the struct is known.                   *)
PlaceOf(m, k) == IF k \in {"pool", "rx", "tx"} THEN <<k>> ELSE <<k, SubsystemOf[m]>>

LEMMA KindIsPlace ==
  ASSUME NEW m \in Msgs, NEW k \in Kinds, Has(k, m)
  PROVE  PlaceOf(m, k) \in Places /\ At(m, PlaceOf(m, k))
BY MsgsAssumption DEF Kinds, Has, Places, At, PlaceOf

LEMMA OwnershipMeansOneOwner == ControlOK /\ OwnershipOK => OneOwner
<1> SUFFICES ASSUME ControlOK, OwnershipOK PROVE OneOwner
  OBVIOUS
<1>2. ASSUME NEW m \in Msgs, NEW p \in Places, At(m, p)
      PROVE  \E k \in Kinds : Has(k, m) /\ p = PlaceOf(m, k)
  <2>1. ASSUME NEW k \in {"pool", "rx", "tx"}, p = <<k>>
        PROVE  Has(k, m)
    <3>1. p[1] = k
      BY <2>1
    <3>2. QED
      BY <1>2, <3>1 DEF At, Has
  <2>2. ASSUME NEW k \in {"incoming", "held", "outgoing"}, NEW s \in Subsystems, p = <<k, s>>
        PROVE  Has(k, m) /\ s = SubsystemOf[m]
    <3>1. p[1] = k /\ p[2] = s
      BY <2>2
    <3>2. m \in Queued(incoming[s]) \cup held[s] \cup Queued(outgoing[s])
      BY <1>2, <3>1 DEF At
    <3>3. s = SubsystemOf[m]
      BY <3>2 DEF OwnershipOK, OwnPool
    <3>4. QED
      BY <1>2, <3>1, <3>3 DEF At, Has
  <2>3. QED
    BY <2>1, <2>2 DEF Places, Kinds, PlaceOf
<1>3. \A m \in Msgs : \E p \in Places : At(m, p)
  BY KindIsPlace DEF OwnershipOK, Owned
<1>4. \A m \in Msgs : \A p, q \in Places : At(m, p) /\ At(m, q) => p = q
  BY <1>2 DEF OwnershipOK, Owned
<1>5. QED
  BY <1>3, <1>4 DEF OneOwner, OwnershipOK, NoRepeats

(* OneOwner for every configuration: no interleaving of the workers and    *)
(* the tasks shares, doubles or loses a message struct.                    *)
THEOREM StructsHaveOneOwner == Spec => []OneOwner
<1>1. Init => ControlOK /\ OwnershipOK
  BY ControlInit, OwnershipInit
<1>2. ControlOK /\ OwnershipOK /\ [Next]_vars => (ControlOK /\ OwnershipOK)'
  BY ControlInductive, OwnershipInductive
<1>3. QED
  BY <1>1, <1>2, OwnershipMeansOneOwner, PTL DEF Spec

(* OwnPool for every configuration: the workers free a struct with the     *)
(* function of the subsystem it was allocated by.                          *)
THEOREM StructsStayInTheirPool == Spec => []OwnPool
<1>1. Init => ControlOK /\ OwnershipOK
  BY ControlInit, OwnershipInit
<1>2. ControlOK /\ OwnershipOK /\ [Next]_vars => (ControlOK /\ OwnershipOK)'
  BY ControlInductive, OwnershipInductive
<1>3. OwnershipOK => OwnPool
  BY DEF OwnershipOK
<1>4. QED
  BY <1>1, <1>2, <1>3, PTL DEF Spec

-----------------------------------------------------------------------------
(* Module Ownership is implemented.                                        *)

LEMMA OwnerKnown ==
  ControlOK /\ OwnershipOK =>
     \A m \in Msgs, k \in Kinds : Has(k, m) => Owner[m] = PlaceOf(m, k)
<1> SUFFICES ASSUME ControlOK, OwnershipOK, NEW m \in Msgs, NEW k \in Kinds, Has(k, m)
             PROVE  Owner[m] = PlaceOf(m, k)
  OBVIOUS
<1>1. PlaceOf(m, k) \in Places /\ At(m, PlaceOf(m, k))
  BY KindIsPlace
<1>2. \A p \in Places : At(m, p) => p = PlaceOf(m, k)
  BY <1>1, OwnershipMeansOneOwner DEF OneOwner
<1>3. (CHOOSE p \in Places : At(m, p)) = PlaceOf(m, k)
  BY <1>1, <1>2
<1>4. QED
  BY <1>3 DEF Owner

LEMMA HandOverInit == Init => Life!Init
<1> SUFFICES ASSUME Init PROVE Life!Init
  OBVIOUS
<1>1. \A m \in Msgs : Owner[m] = <<"pool">>
  <2>1. \A m \in Msgs : Has("pool", m)
    BY DEF Init, Has
  <2>2. QED
    BY <2>1, ControlInit, OwnershipInit, OwnerKnown DEF Kinds, PlaceOf
<1>2. QED
  BY <1>1 DEF Life!Init, Owner

LEMMA HandOverStep ==
  ControlOK /\ OwnershipOK /\ (ControlOK /\ OwnershipOK)' /\ [Next]_vars => [Life!Next]_Owner
<1> SUFFICES ASSUME ControlOK, OwnershipOK, (ControlOK /\ OwnershipOK)', [Next]_vars
             PROVE  [Life!Next]_Owner
  OBVIOUS
<1>1. \A m \in Msgs, k \in Kinds : Has(k, m) => Owner[m] = PlaceOf(m, k)
  BY OwnerKnown
<1>2. \A m \in Msgs, k \in Kinds : Has(k, m)' => Owner'[m] = PlaceOf(m, k)
  <2>1. (\A m \in Msgs, k \in Kinds : Has(k, m) => Owner[m] = PlaceOf(m, k))'
    BY OwnerKnown, PTL
  <2>2. QED
    BY <2>1 DEF PlaceOf
<1>3. \A m \in Msgs : \E k \in Kinds : Has(k, m)
  BY DEF OwnershipOK, Owned
<1>4. /\ Owner = [m \in Msgs |-> Owner[m]]
      /\ Owner' = [m \in Msgs |-> Owner'[m]]
  BY DEF Owner
<1>5. CASE HandsOverNothing
  <2>1. \A m \in Msgs : Owner'[m] = Owner[m]
    BY <1>1, <1>2, <1>3, <1>5 DEF HandsOverNothing
  <2>2. QED
    BY <1>4, <2>1
<1>6. CASE HandsOver
  <2>1. PICK m \in Msgs, k, l \in Kinds :
           /\ <<k, l>> \in Passes /\ Has(k, m) /\ Moves(m, l)
           /\ l \in {"rx", "tx"} => \A n \in Msgs : ~Has(l, n)
    BY <1>6 DEF HandsOver
  <2>2. Owner[m] = PlaceOf(m, k) /\ Owner'[m] = PlaceOf(m, l)
    BY <1>1, <1>2, <2>1 DEF Moves
  <2>3. \A n \in Msgs : n # m => Owner'[n] = Owner[n]
    BY <1>1, <1>2, <1>3, <2>1 DEF Moves
  <2>4. Owner' = [Owner EXCEPT ![m] = PlaceOf(m, l)]
    BY <1>4, <2>2, <2>3
  <2>5. <<Owner[m], PlaceOf(m, l)>> \in Life!MayPass(SubsystemOf[m])
    BY <2>1, <2>2 DEF Passes, PlaceOf, Life!MayPass
  <2>6. PlaceOf(m, l) \in {<<"rx">>, <<"tx">>} => Life!Free(PlaceOf(m, l))
    <3>1. ASSUME PlaceOf(m, l) \in {<<"rx">>, <<"tx">>}
          PROVE  l \in {"rx", "tx"} /\ PlaceOf(m, l) = <<l>>
      BY <3>1 DEF PlaceOf, Kinds
    <3>2. ASSUME NEW n \in Msgs, l \in {"rx", "tx"} PROVE Owner[n] # <<l>>
      <4>1. PICK j \in Kinds : Has(j, n) /\ j # l
        BY <1>3, <2>1, <3>2
      <4>2. PlaceOf(n, j) # <<l>>
        BY <4>1 DEF PlaceOf
      <4>3. QED
        BY <1>1, <4>1, <4>2
    <3>3. QED
      BY <3>1, <3>2 DEF Life!Free
  <2>7. Life!HandOver(m, PlaceOf(m, l))
    BY <2>4, <2>5, <2>6 DEF Life!HandOver
  <2>8. \E pass \in Life!MayPass(SubsystemOf[m]) :
           pass[1] = Owner[m] /\ Life!HandOver(m, pass[2])
    BY <2>5, <2>7
  <2>9. QED
    BY <2>8 DEF Life!Next
<1>7. QED
  BY <1>5, <1>6, OwnershipInductive

(* HandOvers for every configuration: seen from the structs, the           *)
(* dispatcher does nothing but the nine hand-overs of module Ownership,    *)
(* and neither worker ever has two structs in hand.                        *)
THEOREM DispatcherImplementsOwnership == Spec => HandOvers
<1>1. Init => ControlOK /\ OwnershipOK
  BY ControlInit, OwnershipInit
<1>2. ControlOK /\ OwnershipOK /\ [Next]_vars => (ControlOK /\ OwnershipOK)'
  BY ControlInductive, OwnershipInductive
<1>3. QED
  BY <1>1, <1>2, HandOverInit, HandOverStep, PTL DEF Spec, HandOvers, Life!Spec
=============================================================================
