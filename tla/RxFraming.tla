------------------------------ MODULE RxFraming ------------------------------
(***************************************************************************)
(* How the receive worker cuts frames out of the characters of the UART:   *)
(* assemble_incoming_message of src/message_dispatcher.c, one call per     *)
(* character.  A frame is                                                  *)
(*     $ payload * d d CR LF        d d: checksum of the payload           *)
(* and what becomes of its payload is module Dispatcher's subject.         *)
(*                                                                         *)
(* The worker keeps the characters since the last '$' in a buffer of fixed *)
(* length.  "read" and "outcome" are history: what has been read so far,   *)
(* and what the worker made of it.                                         *)
(***************************************************************************)
EXTENDS Integers, Sequences

CONSTANTS
    Chars,              \* the characters that arrive
    MaxLength,          \* BSP_MAX_MESSAGE_LENGTH, the length of the buffer
    MinLength,          \* length of the shortest frame, without the '$': 10
    ChecksumOK(_, _),   \* do these two characters read as the payload's checksum?
    MaxRead             \* bound on the characters read, for model checking

START == "$"
STAR  == "*"
CR    == "CR"
LF    == "LF"

ASSUME FramingAssumption ==
    /\ {START, STAR, CR, LF} \subseteq Chars
    /\ MinLength \in Nat /\ MaxLength \in Nat
    /\ 5 <= MinLength /\ MinLength <= MaxLength
    /\ MaxRead \in Nat

VARIABLES
    incoming_msg_buf,   \* the part of the buffer in use; pos_in_buf is its length
    msg_is_incoming,
    read,               \* history: the characters read
    outcome             \* history: position of a '$' |-> what became of its frame

vars == <<incoming_msg_buf, msg_is_incoming, read, outcome>>

pos_in_buf == Len(incoming_msg_buf)

Delivered(p)           == <<"delivered", p>>
RX_CHECKSUM_ERROR      == <<"checksum error">>
MESSAGE_TOO_LONG_ERROR == <<"too long">>

FramingTypeOK ==
    /\ incoming_msg_buf \in Seq(Chars)
    /\ msg_is_incoming \in BOOLEAN
    /\ read \in Seq(Chars)

Init ==
    /\ incoming_msg_buf = <<>>
    /\ msg_is_incoming = FALSE
    /\ read = <<>>
    /\ outcome = {}

-----------------------------------------------------------------------------
(* A buffer that ends a frame, and what is in it.                          *)

EndsFrame(buf) ==
    /\ Len(buf) >= MinLength
    /\ buf[Len(buf) - 1] = CR /\ buf[Len(buf)] = LF

Payload(buf) == SubSeq(buf, 1, Len(buf) - 5)
Digits(buf)  == <<buf[Len(buf) - 3], buf[Len(buf) - 2]>>

Validated(buf) ==
    IF buf[Len(buf) - 4] = STAR /\ ChecksumOK(Payload(buf), Digits(buf))
    THEN Delivered(Payload(buf)) ELSE RX_CHECKSUM_ERROR

(* Position of the '$' the frame in the buffer began with.                 *)
Began == Len(read) - pos_in_buf

Reads(c) == Len(read) < MaxRead /\ read' = Append(read, c)

(* Mutant: the terminated string is left in the buffer.                    *)
Idle_KeepsText == incoming_msg_buf' = <<"NUL">> /\ msg_is_incoming' = FALSE

Idle == incoming_msg_buf' = <<>> /\ msg_is_incoming' = FALSE

(* Mutant: the position is not reset when a frame begins inside another.   *)
Restart_KeepsPosition ==
    /\ Reads(START)
    /\ msg_is_incoming' = TRUE
    /\ UNCHANGED <<incoming_msg_buf, outcome>>

Restart ==
    /\ Reads(START)
    /\ incoming_msg_buf' = <<>>
    /\ msg_is_incoming' = TRUE
    /\ UNCHANGED outcome

Ignore(c) ==
    /\ c # START /\ ~msg_is_incoming
    /\ Reads(c)
    /\ UNCHANGED <<incoming_msg_buf, msg_is_incoming, outcome>>

(* Mutant: the length is checked one character too late.                   *)
Store_OneTooLong(c) ==
    LET buf == Append(incoming_msg_buf, c) IN
    /\ c # START /\ msg_is_incoming
    /\ Reads(c)
    /\ \/ /\ EndsFrame(buf)
          /\ outcome' = outcome \cup {<<Began, Validated(buf)>>}
          /\ Idle
       \/ /\ ~EndsFrame(buf) /\ Len(buf) > MaxLength
          /\ outcome' = outcome \cup {<<Began, MESSAGE_TOO_LONG_ERROR>>}
          /\ Idle
       \/ /\ ~EndsFrame(buf) /\ Len(buf) <= MaxLength
          /\ incoming_msg_buf' = buf
          /\ UNCHANGED <<msg_is_incoming, outcome>>

(* The character is stored; that may end the frame, or fill the buffer.    *)
Store(c) ==
    LET buf == Append(incoming_msg_buf, c) IN
    /\ c # START /\ msg_is_incoming
    /\ Reads(c)
    /\ \/ /\ EndsFrame(buf)
          /\ outcome' = outcome \cup {<<Began, Validated(buf)>>}
          /\ Idle
       \/ /\ ~EndsFrame(buf) /\ Len(buf) >= MaxLength
          /\ outcome' = outcome \cup {<<Began, MESSAGE_TOO_LONG_ERROR>>}
          /\ Idle
       \/ /\ ~EndsFrame(buf) /\ Len(buf) < MaxLength
          /\ incoming_msg_buf' = buf
          /\ UNCHANGED <<msg_is_incoming, outcome>>

(* There is no character: the worker sleeps.                               *)
Sleep == UNCHANGED vars

Next == Restart \/ (\E c \in Chars : Ignore(c) \/ Store(c)) \/ Sleep

Spec == Init /\ [][Next]_vars

-----------------------------------------------------------------------------
(* Properties                                                              *)

(* A character is only stored where there is room: the buffer is never     *)
(* written past its end, whatever arrives, and its contents are those of   *)
(* the frame that is coming in.                                            *)
BufferHasRoom ==
    /\ pos_in_buf < MaxLength
    /\ ~msg_is_incoming => pos_in_buf = 0

(* What the protocol asks for, said of the whole input: a frame lasts from *)
(* a '$' to the next '$' or to the first CR LF at or after its shortest    *)
(* length, whichever is first, and is too long if neither comes within the *)
(* length of the buffer.                                                   *)
Text(s, i) ==      \* what follows the '$' at position i, up to the next '$'
    LET ends == {j \in i + 1 .. Len(s) : s[j] = START}
        last == IF ends = {} THEN Len(s)
                ELSE CHOOSE j \in i .. Len(s) : j + 1 \in ends /\ \A k \in ends : j < k
    IN  SubSeq(s, i + 1, last)

Ends(t) == {k \in MinLength .. Len(t) : t[k - 1] = CR /\ t[k] = LF}

Starts(s) == {i \in 1..Len(s) : s[i] = START}
FirstEnd(t) == {k \in Ends(t) : k <= MaxLength /\ \A l \in Ends(t) : k <= l}

Expected(s) ==
    (UNION {{<<i, Validated(SubSeq(Text(s, i), 1, k))>> : k \in FirstEnd(Text(s, i))} :
               i \in Starts(s)})
    \cup
    {<<i, MESSAGE_TOO_LONG_ERROR>> : i \in
        {i \in Starts(s) : Len(Text(s, i)) >= MaxLength /\ FirstEnd(Text(s, i)) = {}}}

(* The worker makes of every input exactly what the protocol asks for: it  *)
(* finds its feet again at every '$', delivers every good frame however    *)
(* much noise came before it, and reports every bad one once.              *)
FramesAsExpected == outcome = Expected(read)
=============================================================================
