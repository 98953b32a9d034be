--------------------------- MODULE RxFraming_proofs ---------------------------
(* What holds of the receive worker's framing for every length of the      *)
(* buffer, every alphabet and every checksum function.                     *)
EXTENDS RxFraming, SequenceTheorems, TLAPS

(* A '$' empties the buffer, any other character of a frame is either the  *)
(* last one, after which the buffer is empty again, or is kept in it: in   *)
(* every case what is kept is a sequence of the characters that arrive.    *)
THEOREM FramingTypeCorrect == Spec => []FramingTypeOK
<1>1. Init => FramingTypeOK
  BY EmptySeq DEF Init, FramingTypeOK
<1>2. FramingTypeOK /\ [Next]_vars => FramingTypeOK'
  <2> SUFFICES ASSUME FramingTypeOK, [Next]_vars PROVE FramingTypeOK'
    OBVIOUS
  <2>1. CASE Restart
    BY <2>1, FramingAssumption, EmptySeq, AppendProperties
    DEF FramingTypeOK, Restart, Reads, START
  <2>2. ASSUME NEW c \in Chars, Ignore(c) PROVE FramingTypeOK'
    BY <2>2, AppendProperties DEF FramingTypeOK, Ignore, Reads
  <2>3. ASSUME NEW c \in Chars, Store(c) PROVE FramingTypeOK'
    <3>1. Append(incoming_msg_buf, c) \in Seq(Chars) /\ Append(read, c) \in Seq(Chars)
      BY AppendProperties DEF FramingTypeOK
    <3>2. read' \in Seq(Chars)
      BY <2>3, <3>1 DEF Store, Reads
    <3>3. CASE Idle
      BY <3>2, <3>3, EmptySeq DEF FramingTypeOK, Idle
    <3>4. CASE incoming_msg_buf' = Append(incoming_msg_buf, c) /\ UNCHANGED msg_is_incoming
      BY <3>1, <3>2, <3>4 DEF FramingTypeOK
    <3>5. QED
      BY <2>3, <3>3, <3>4 DEF Store
  <2>4. CASE UNCHANGED vars
    BY <2>4 DEF FramingTypeOK, vars
  <2>5. QED
    BY <2>1, <2>2, <2>3, <2>4 DEF Next, Sleep
<1>3. QED
  BY <1>1, <1>2, PTL DEF Spec

(* BufferHasRoom is inductive given the type: only Store makes the buffer  *)
(* longer, and it keeps a character only if the buffer is not full then.   *)
LEMMA RoomIsKept == FramingTypeOK /\ BufferHasRoom /\ [Next]_vars => BufferHasRoom'
<1> SUFFICES ASSUME FramingTypeOK, BufferHasRoom, [Next]_vars PROVE BufferHasRoom'
  OBVIOUS
<1>1. MaxLength \in Nat /\ 0 < MaxLength
  BY FramingAssumption
<1>2. ASSUME incoming_msg_buf' = <<>> PROVE BufferHasRoom'
  BY <1>1, <1>2, EmptySeq DEF BufferHasRoom, pos_in_buf
<1>3. ASSUME NEW c \in Chars, Store(c) PROVE BufferHasRoom'
  <2>1. CASE Idle
    BY <2>1, <1>2 DEF Idle
  <2>2. CASE /\ Len(Append(incoming_msg_buf, c)) < MaxLength
             /\ incoming_msg_buf' = Append(incoming_msg_buf, c)
             /\ UNCHANGED msg_is_incoming
    BY <1>3, <2>2 DEF BufferHasRoom, pos_in_buf, Store
  <2>3. QED
    BY <1>3, <2>1, <2>2 DEF Store
<1>4. CASE Restart
  BY <1>2, <1>4 DEF Restart
<1>5. ASSUME NEW c \in Chars, Ignore(c) PROVE BufferHasRoom'
  BY <1>5 DEF BufferHasRoom, pos_in_buf, Ignore
<1>6. CASE UNCHANGED vars
  BY <1>6 DEF BufferHasRoom, pos_in_buf, vars
<1>7. QED
  BY <1>3, <1>4, <1>5, <1>6 DEF Next, Sleep

(* No input, however long or malformed, makes the receive worker write     *)
(* past the end of its buffer.                                             *)
THEOREM BufferNeverOverrun == Spec => []BufferHasRoom
<1>1. Init => BufferHasRoom
  BY FramingAssumption, EmptySeq DEF Init, BufferHasRoom, pos_in_buf
<1>2. QED
  BY <1>1, RoomIsKept, FramingTypeCorrect, PTL DEF Spec

-----------------------------------------------------------------------------
(* The frames in what has been read.  The text of the '$' at i stops at j. *)
StopsAt(s, i, j) ==
    /\ j \in i..Len(s)
    /\ \A k \in i + 1..j : s[k] # START
    /\ j < Len(s) => s[j + 1] = START

(* What becomes of a frame of text t, so far.                              *)
Verdicts(t) ==
    {Validated(SubSeq(t, 1, k)) : k \in FirstEnd(t)}
    \cup IF Len(t) >= MaxLength /\ FirstEnd(t) = {} THEN {MESSAGE_TOO_LONG_ERROR} ELSE {}
Made(s, i) == {<<i, o>> : o \in Verdicts(Text(s, i))}

(* No character that comes after it makes a difference to it any more.     *)
Decided(t) == FirstEnd(t) # {} \/ Len(t) >= MaxLength

(* The worker keeps the text of the last '$' until that is decided.        *)
Following ==
    /\ \A i \in Starts(read) : \E j \in i..Len(read) : StopsAt(read, i, j)
    /\ msg_is_incoming =>
         /\ Began \in Starts(read) /\ StopsAt(read, Began, Len(read))
         /\ incoming_msg_buf = Text(read, Began) /\ Ends(incoming_msg_buf) = {}
    /\ ~msg_is_incoming =>
         \A i \in Starts(read) : StopsAt(read, i, Len(read)) => Decided(Text(read, i))

(* t is the part of s from i + 1 to j.                                     *)
Cut(t, s, i, j) ==
    t \in Seq(Chars) /\ Len(t) = j - i /\ \A k \in 1..j - i : t[k] = s[i + k]

LEMMA CutIs ==
    ASSUME NEW s \in Seq(Chars), NEW i \in 0..Len(s), NEW j \in i..Len(s)
    PROVE  Cut(SubSeq(s, i + 1, j), s, i, j)
<1>1. Len(s) \in Nat /\ \A k \in 1..Len(s) : s[k] \in Chars
  BY LenProperties, ElementOfSeq
<1>2. i \in Int /\ j \in Int /\ i + 1 \in Int /\ 0 <= i /\ i <= j /\ j <= Len(s)
  BY <1>1
<1>3. \A k \in i + 1..j : s[k] \in Chars
  BY <1>1, <1>2
<1>4. /\ SubSeq(s, i + 1, j) \in Seq(Chars)
      /\ Len(SubSeq(s, i + 1, j)) = IF i + 1 <= j THEN j - (i + 1) + 1 ELSE 0
      /\ \A k \in 1..j - (i + 1) + 1 : SubSeq(s, i + 1, j)[k] = s[i + 1 + k - 1]
  BY <1>2, <1>3, SubSeqProperties
<1>5. Len(SubSeq(s, i + 1, j)) = j - i
  BY <1>2, <1>4
<1>6. ASSUME NEW k \in 1..j - i PROVE SubSeq(s, i + 1, j)[k] = s[i + k]
  <2>1. k \in 1..j - (i + 1) + 1 /\ i + 1 + k - 1 = i + k
    BY <1>2
  <2> QED BY <1>4, <2>1
<1> QED BY <1>4, <1>5, <1>6 DEF Cut

LEMMA CutUnique ==
    ASSUME NEW s, NEW i, NEW j, NEW t, NEW u, Cut(t, s, i, j), Cut(u, s, i, j)
    PROVE  t = u
BY SeqEqual DEF Cut

LEMMA TextIs ==
    ASSUME NEW s \in Seq(Chars), NEW i \in 1..Len(s), NEW j, StopsAt(s, i, j)
    PROVE  Text(s, i) = SubSeq(s, i + 1, j) /\ Cut(Text(s, i), s, i, j)
<1> DEFINE ends == {k \in i + 1..Len(s) : s[k] = START}
           P(k) == k + 1 \in ends /\ \A l \in ends : k < l
           last == IF ends = {} THEN Len(s) ELSE CHOOSE k \in i..Len(s) : P(k)
<1>1. Len(s) \in Nat /\ j \in i..Len(s) /\ i \in Nat /\ j \in Nat /\ i <= j /\ j <= Len(s)
  BY LenProperties DEF StopsAt
<1>2. Text(s, i) = SubSeq(s, i + 1, last)
  BY DEF Text
<1>3. CASE j = Len(s)
  <2>1. ends = {}
    BY <1>3 DEF StopsAt
  <2> QED BY <1>1, <1>2, <1>3, <2>1, CutIs
<1>4. CASE j < Len(s)
  <2>1. j + 1 \in ends
    BY <1>1, <1>4 DEF StopsAt
  <2>2. \A l \in ends : j < l
    BY <1>1 DEF StopsAt
  <2>3. \A k \in i..Len(s) : P(k) => k = j
    BY <1>1, <2>1, <2>2
  <2>4. P(j)
    BY <2>1, <2>2
  <2> HIDE DEF P
  <2>5. (CHOOSE k \in i..Len(s) : P(k)) = j
    BY <1>1, <2>3, <2>4
  <2>6. last = j
    BY <2>1, <2>5
  <2>7. Text(s, i) = SubSeq(s, i + 1, j)
    BY <1>2, <2>6
  <2> QED BY <1>1, <2>7, CutIs
<1> QED BY <1>1, <1>3, <1>4

(* A character more: the text that has stopped stays, the last one grows.  *)
LEMMA OneMore ==
    ASSUME NEW s \in Seq(Chars), NEW c \in Chars
    PROVE  LET u == Append(s, c) IN
           /\ u \in Seq(Chars) /\ Len(s) \in Nat /\ Len(u) = Len(s) + 1 /\ u[Len(u)] = c
           /\ \A k \in 1..Len(s) : u[k] = s[k]
BY AppendProperties, LenProperties

LEMMA StartsAfter ==
    ASSUME NEW s \in Seq(Chars), NEW c \in Chars
    PROVE  Starts(Append(s, c)) = Starts(s) \cup IF c = START THEN {Len(s) + 1} ELSE {}
BY OneMore DEF Starts

LEMMA TextStopped ==
    ASSUME NEW s \in Seq(Chars), NEW c \in Chars, NEW i \in Starts(s), NEW j,
           StopsAt(s, i, j), j < Len(s) \/ c = START
    PROVE  StopsAt(Append(s, c), i, j) /\ Text(Append(s, c), i) = Text(s, i)
<1> DEFINE u == Append(s, c)
<1>1. /\ u \in Seq(Chars) /\ Len(s) \in Nat /\ Len(u) = Len(s) + 1 /\ u[Len(s) + 1] = c
      /\ \A k \in 1..Len(s) : u[k] = s[k]
  BY OneMore
<1>2. i \in 1..Len(s) /\ j \in i..Len(s) /\ i \in Nat /\ j \in Nat /\ 1 <= i /\ i <= j /\ j <= Len(s)
  BY <1>1 DEF Starts, StopsAt
<1> HIDE DEF u
<1>3. StopsAt(u, i, j)
  <2>1. \A k \in i + 1..j : u[k] # START
    BY <1>1, <1>2 DEF StopsAt
  <2>2. u[j + 1] = START
    <3>1. CASE j < Len(s)
      BY <1>1, <1>2, <3>1 DEF StopsAt
    <3>2. CASE j = Len(s)
      BY <1>1, <3>2
    <3> QED BY <1>1, <1>2, <3>1, <3>2
  <2> QED BY <1>1, <1>2, <2>1, <2>2 DEF StopsAt
<1>4. Cut(Text(s, i), s, i, j)
  BY <1>2, TextIs
<1>5. Cut(Text(u, i), u, i, j)
  BY <1>1, <1>2, <1>3, TextIs, SMTT(60)
<1>6. Cut(Text(s, i), u, i, j)
  <2>1. \A k \in 1..j - i : i + k \in 1..Len(s)
    BY <1>1, <1>2
  <2> QED BY <1>1, <1>4, <2>1 DEF Cut
<1> QED BY <1>3, <1>5, <1>6, CutUnique DEF u

LEMMA TextGrows ==
    ASSUME NEW s \in Seq(Chars), NEW c \in Chars, NEW i \in Starts(s),
           StopsAt(s, i, Len(s)), c # START
    PROVE  /\ StopsAt(Append(s, c), i, Len(s) + 1)
           /\ Text(s, i) \in Seq(Chars) /\ Text(Append(s, c), i) = Append(Text(s, i), c)
<1> DEFINE u == Append(s, c)
<1>1. /\ u \in Seq(Chars) /\ Len(s) \in Nat /\ Len(u) = Len(s) + 1 /\ u[Len(s) + 1] = c
      /\ \A k \in 1..Len(s) : u[k] = s[k]
  BY OneMore
<1>2. i \in 1..Len(s) /\ i \in Nat /\ 1 <= i /\ i <= Len(s)
  BY <1>1 DEF Starts
<1> HIDE DEF u
<1>3. StopsAt(u, i, Len(s) + 1)
  <2>1. ASSUME NEW k \in i + 1..Len(s) + 1 PROVE u[k] # START
    <3>1. k \in i + 1..Len(s) \/ k = Len(s) + 1
      BY <1>1, <1>2
    <3>2. k \in i + 1..Len(s) => k \in 1..Len(s)
      BY <1>2
    <3> QED BY <1>1, <3>1, <3>2 DEF StopsAt
  <2>2. Len(s) + 1 \in i..Len(u)
    BY <1>1, <1>2
  <2> QED BY <1>1, <2>1, <2>2 DEF StopsAt
<1>4. Cut(Text(s, i), s, i, Len(s))
  BY <1>2, TextIs
<1>5. Cut(Text(u, i), u, i, Len(s) + 1)
  BY <1>1, <1>2, <1>3, TextIs
<1>6. Cut(Append(Text(s, i), c), u, i, Len(s) + 1)
  <2> DEFINE t == Text(s, i)
             v == Append(t, c)
  <2>1. t \in Seq(Chars) /\ Len(t) = Len(s) - i /\ \A k \in 1..Len(s) - i : t[k] = s[i + k]
    BY <1>4 DEF Cut
  <2>2. /\ v \in Seq(Chars) /\ Len(v) = Len(t) + 1 /\ v[Len(t) + 1] = c
        /\ \A k \in 1..Len(t) : v[k] = t[k]
    BY <2>1, OneMore
  <2> HIDE DEF t, v
  <2>3. Len(v) = (Len(s) + 1) - i
    BY <1>1, <1>2, <2>1, <2>2
  <2>4. ASSUME NEW k \in 1..(Len(s) + 1) - i PROVE v[k] = u[i + k]
    <3>1. CASE k = (Len(s) + 1) - i
      <4>1. k = Len(t) + 1 /\ i + k = Len(s) + 1
        BY <1>1, <1>2, <2>1, <3>1
      <4> QED BY <1>1, <2>2, <4>1
    <3>2. CASE k # (Len(s) + 1) - i
      <4>1. k \in 1..Len(s) - i /\ i + k \in 1..Len(s)
        BY <1>1, <1>2, <3>2
      <4> QED BY <1>1, <2>1, <2>2, <4>1
    <3> QED BY <3>1, <3>2
  <2>5. Cut(v, u, i, Len(s) + 1)
    <3>1. \A k \in 1..(Len(s) + 1) - i : v[k] = u[i + k]
      BY <2>4
    <3>2. v \in Seq(Chars)
      BY <2>2
    <3> QED BY <2>3, <3>1, <3>2 DEF Cut
  <2> QED BY <2>5 DEF v, t
<1>7. Text(u, i) = Append(Text(s, i), c)
  BY <1>5, <1>6, CutUnique
<1> QED BY <1>3, <1>4, <1>7 DEF u, Cut

(* The text of a '$' that has just come is empty, and nothing yet.         *)
LEMMA TextBegins ==
    ASSUME NEW s \in Seq(Chars), START \in Chars
    PROVE  LET u == Append(s, START) IN
           /\ StopsAt(u, Len(s) + 1, Len(s) + 1) /\ Text(u, Len(s) + 1) = <<>>
<1> DEFINE u == Append(s, START)
           n == Len(s) + 1
<1>1. u \in Seq(Chars) /\ n \in Nat /\ Len(u) = n /\ n \in 1..Len(u)
  BY OneMore
<1> HIDE DEF u, n
<1>2. StopsAt(u, n, n)
  BY <1>1 DEF StopsAt
<1>3. Cut(Text(u, n), u, n, n)
  BY <1>1, <1>2, TextIs
<1>4. Text(u, n) = <<>>
  <2>1. Text(u, n) \in Seq(Chars) /\ Len(Text(u, n)) = 0
    BY <1>1, <1>3 DEF Cut
  <2> QED BY <2>1, EmptySeq
<1> QED BY <1>2, <1>4 DEF u, n

-----------------------------------------------------------------------------
(* What becomes of a text that a character is added to.                    *)
LEMMA EndsAfter ==
    ASSUME NEW t \in Seq(Chars), NEW c \in Chars
    PROVE  Ends(Append(t, c)) =
             Ends(t) \cup IF EndsFrame(Append(t, c)) THEN {Len(t) + 1} ELSE {}
<1> DEFINE u == Append(t, c)
<1>1. /\ u \in Seq(Chars) /\ Len(t) \in Nat /\ Len(u) = Len(t) + 1
      /\ \A k \in 1..Len(t) : u[k] = t[k]
  BY OneMore
<1>2. MinLength \in Nat /\ 5 <= MinLength
  BY FramingAssumption
<1> HIDE DEF u
<1>3. ASSUME NEW k \in MinLength..Len(t)
      PROVE  k \in Ends(u) <=> k \in Ends(t)
  <2>1. k \in 1..Len(t) /\ k - 1 \in 1..Len(t) /\ k \in MinLength..Len(u)
    BY <1>1, <1>2
  <2>2. u[k] = t[k] /\ u[k - 1] = t[k - 1]
    BY <1>1, <2>1
  <2> QED BY <2>1, <2>2 DEF Ends
<1>4. Len(u) \in Ends(u) <=> EndsFrame(u)
  BY <1>1, <1>2 DEF Ends, EndsFrame
<1>5. \A k : k \in Ends(u) => k \in MinLength..Len(t) \/ k = Len(u)
  BY <1>1, <1>2 DEF Ends
<1>6. \A k : k \in Ends(t) => k \in MinLength..Len(t)
  BY DEF Ends
<1> QED BY <1>1, <1>3, <1>4, <1>5, <1>6 DEF u

(* A decided text: what is made of it stays.                               *)
LEMMA DecidedStays ==
    ASSUME NEW t \in Seq(Chars), NEW c \in Chars, Decided(t)
    PROVE  Decided(Append(t, c)) /\ Verdicts(Append(t, c)) = Verdicts(t)
<1> DEFINE u == Append(t, c)
<1>1. /\ u \in Seq(Chars) /\ Len(t) \in Nat /\ Len(u) = Len(t) + 1
      /\ \A k \in 1..Len(t) : u[k] = t[k]
  BY OneMore
<1>2. MinLength \in Nat /\ 5 <= MinLength /\ MaxLength \in Nat
  BY FramingAssumption
<1>3. Ends(u) \ {Len(t) + 1} = Ends(t) /\ Ends(t) \subseteq MinLength..Len(t)
  <2>1. Ends(t) \subseteq MinLength..Len(t)
    BY DEF Ends
  <2> QED BY <1>1, <2>1, EndsAfter
<1> HIDE DEF u
<1>4. FirstEnd(u) = FirstEnd(t)
  <2>1. ASSUME NEW k, k \in FirstEnd(t) PROVE k \in FirstEnd(u)
    <3>1. k \in Ends(t) /\ k <= MaxLength /\ (\A l \in Ends(t) : k <= l) /\ k <= Len(t) /\ k \in Nat
      BY <1>1, <1>2, <1>3, <2>1 DEF FirstEnd
    <3>2. k <= Len(t) + 1
      BY <1>1, <3>1
    <3>3. ASSUME NEW l \in Ends(u) PROVE k <= l
      BY <1>3, <3>1, <3>2, <3>3
    <3> QED BY <1>3, <3>1, <3>3 DEF FirstEnd
  <2>2. ASSUME NEW k, k \in FirstEnd(u) PROVE k \in FirstEnd(t)
    <3>1. k \in Ends(u) /\ k <= MaxLength /\ \A l \in Ends(u) : k <= l
      BY <2>2 DEF FirstEnd
    <3>2. k # Len(t) + 1
      <4>1. CASE Len(t) >= MaxLength
        BY <1>1, <1>2, <3>1, <4>1
      <4>2. CASE FirstEnd(t) # {}
        <5>1. PICK l \in FirstEnd(t) : TRUE
          BY <4>2
        <5>2. l \in Ends(u) /\ l <= Len(t) /\ l \in Nat
          BY <1>1, <1>2, <1>3, <5>1 DEF FirstEnd
        <5> QED BY <1>1, <3>1, <5>2
      <4> QED BY <4>1, <4>2 DEF Decided
    <3> QED BY <1>3, <3>1, <3>2 DEF FirstEnd
  <2> QED BY <2>1, <2>2
<1>5. ASSUME NEW k \in FirstEnd(t) PROVE SubSeq(u, 1, k) = SubSeq(t, 1, k)
  <2>1. k \in 0..Len(t) /\ k \in 0..Len(u) /\ k \in Nat /\ 0 \in 0..Len(t) /\ 0 \in 0..Len(u)
    BY <1>1, <1>2, <1>3 DEF FirstEnd
  <2>2. Cut(SubSeq(t, 0 + 1, k), t, 0, k) /\ Cut(SubSeq(u, 0 + 1, k), u, 0, k)
    BY <1>1, <2>1, CutIs
  <2>3. \A l \in 1..k - 0 : u[0 + l] = t[0 + l]
    BY <1>1, <2>1
  <2>4. Cut(SubSeq(u, 0 + 1, k), t, 0, k)
    BY <2>2, <2>3 DEF Cut
  <2>5. SubSeq(t, 0 + 1, k) = SubSeq(u, 0 + 1, k)
    BY <2>2, <2>4, CutUnique
  <2>6. 0 + 1 = 1
    OBVIOUS
  <2> QED BY <2>5, <2>6, Zenon
<1>6. Len(t) >= MaxLength /\ FirstEnd(t) = {} <=> Len(u) >= MaxLength /\ FirstEnd(u) = {}
  BY <1>1, <1>2, <1>4 DEF Decided
<1>7. Verdicts(u) = Verdicts(t)
  BY <1>4, <1>5, <1>6 DEF Verdicts
<1>8. Decided(u)
  BY <1>1, <1>2, <1>4 DEF Decided
<1> QED BY <1>7, <1>8 DEF u

(* A text that does not end a frame yet: the three cases of Store.         *)
LEMMA NoVerdictYet ==
    ASSUME NEW t \in Seq(Chars), Ends(t) = {}
    PROVE  /\ FirstEnd(t) = {}
           /\ Len(t) < MaxLength => Verdicts(t) = {}
           /\ Len(t) >= MaxLength => Verdicts(t) = {MESSAGE_TOO_LONG_ERROR} /\ Decided(t)
<1>1. FirstEnd(t) = {}
  BY DEF FirstEnd
<1>2. Len(t) \in Nat /\ MaxLength \in Nat
  BY FramingAssumption, LenProperties
<1> QED BY <1>1, <1>2 DEF Verdicts, Decided

LEMMA VerdictNow ==
    ASSUME NEW t \in Seq(Chars), NEW c \in Chars, Ends(t) = {}, Len(t) < MaxLength,
           EndsFrame(Append(t, c))
    PROVE  /\ Verdicts(Append(t, c)) = {Validated(Append(t, c))}
           /\ Decided(Append(t, c))
<1> DEFINE u == Append(t, c)
<1>1. u \in Seq(Chars) /\ Len(t) \in Nat /\ Len(u) = Len(t) + 1
  BY OneMore
<1>2. MaxLength \in Nat
  BY FramingAssumption
<1>3. Ends(u) = {Len(u)}
  BY <1>1, EndsAfter
<1> HIDE DEF u
<1>4. FirstEnd(u) = {Len(u)}
  BY <1>1, <1>2, <1>3 DEF FirstEnd
<1>5. SubSeq(u, 1, Len(u)) = u
  BY <1>1, SubSeqFull
<1> QED BY <1>4, <1>5 DEF Verdicts, Decided, u

LEMMA ExpectedIs == \A s : Expected(s) = UNION {Made(s, i) : i \in Starts(s)}
<1> SUFFICES ASSUME NEW s PROVE Expected(s) = UNION {Made(s, i) : i \in Starts(s)}
  OBVIOUS
<1> DEFINE Good(i) == {<<i, Validated(SubSeq(Text(s, i), 1, k))>> : k \in FirstEnd(Text(s, i))}
           Long == {i \in Starts(s) : Len(Text(s, i)) >= MaxLength /\ FirstEnd(Text(s, i)) = {}}
           Bad == {<<i, MESSAGE_TOO_LONG_ERROR>> : i \in Long}
           AllGood == UNION {Good(i) : i \in Starts(s)}
<1>1. ASSUME NEW x
      PROVE  x \in Expected(s) <=>
               \/ \E i \in Starts(s) : x \in Good(i)
               \/ \E i \in Starts(s) : i \in Long /\ x = <<i, MESSAGE_TOO_LONG_ERROR>>
  <2>1. Expected(s) = AllGood \cup Bad
    BY DEF Expected
  <2>2. x \in Bad <=> \E i \in Starts(s) : i \in Long /\ x = <<i, MESSAGE_TOO_LONG_ERROR>>
    OBVIOUS
  <2>3. x \in AllGood <=> \E i \in Starts(s) : x \in Good(i)
    OBVIOUS
  <2> HIDE DEF Good, Bad, Long, AllGood
  <2> QED BY <2>1, <2>2, <2>3
<1>2. ASSUME NEW i \in Starts(s)
      PROVE  Made(s, i) = Good(i) \cup IF i \in Long THEN {<<i, MESSAGE_TOO_LONG_ERROR>>} ELSE {}
  BY DEF Made, Verdicts
<1> HIDE DEF Good, Long
<1>3. ASSUME NEW x
      PROVE  x \in Expected(s) <=> \E i \in Starts(s) : x \in Made(s, i)
  BY <1>1, <1>2
<1>4. \A x : x \in UNION {Made(s, i) : i \in Starts(s)} <=> \E i \in Starts(s) : x \in Made(s, i)
  OBVIOUS
<1> QED BY <1>3, <1>4

-----------------------------------------------------------------------------
FramingInv == FramingTypeOK /\ BufferHasRoom /\ Following /\ FramesAsExpected

LEMMA FramingInitially == Init => FramingInv
<1> SUFFICES ASSUME Init PROVE FramingInv
  OBVIOUS
<1>1. read = <<>> /\ incoming_msg_buf = <<>> /\ ~msg_is_incoming /\ outcome = {}
  BY DEF Init
<1>2. FramingTypeOK
  BY <1>1, EmptySeq DEF Init, FramingTypeOK
<1>3. BufferHasRoom
  BY <1>1, FramingAssumption, EmptySeq DEF BufferHasRoom, pos_in_buf
<1>4. Starts(read) = {}
  BY <1>1, EmptySeq DEF Starts
<1>5. Expected(read) = {}
  BY <1>4, ExpectedIs
<1> QED BY <1>1, <1>2, <1>3, <1>4, <1>5 DEF FramingInv, Following, FramesAsExpected

(* What is expected does not change when no frame's text says more.        *)
LEMMA ExpectedStays ==
    ASSUME NEW s, NEW u, NEW b, Starts(u) \in {Starts(s), Starts(s) \cup {b}},
           Verdicts(Text(u, b)) = {} \/ Starts(u) = Starts(s),
           \A i \in Starts(s) : Verdicts(Text(u, i)) = Verdicts(Text(s, i))
    PROVE  Expected(u) = Expected(s)
<1>1. \A i \in Starts(s) : Made(u, i) = Made(s, i)
  BY DEF Made
<1>2. Starts(u) = Starts(s) \/ Made(u, b) = {}
  BY DEF Made
<1>3. \A x : (\E i \in Starts(u) : x \in Made(u, i)) <=> (\E i \in Starts(s) : x \in Made(s, i))
  BY <1>1, <1>2
<1>4. \A x : x \in UNION {Made(s, i) : i \in Starts(s)} <=> \E i \in Starts(s) : x \in Made(s, i)
  OBVIOUS
<1>5. \A x : x \in UNION {Made(u, i) : i \in Starts(u)} <=> \E i \in Starts(u) : x \in Made(u, i)
  OBVIOUS
<1> QED BY <1>3, <1>4, <1>5, ExpectedIs

(* It changes by what is made of the one frame that says more.             *)
LEMMA ExpectedChanges ==
    ASSUME NEW s, NEW u, Starts(u) = Starts(s), NEW b \in Starts(s), NEW V,
           Verdicts(Text(s, b)) = {}, Verdicts(Text(u, b)) = V,
           \A i \in Starts(s) : i # b => Verdicts(Text(u, i)) = Verdicts(Text(s, i))
    PROVE  Expected(u) = Expected(s) \cup {<<b, o>> : o \in V}
<1>1. /\ \A i \in Starts(s) : i # b => Made(u, i) = Made(s, i)
      /\ Made(s, b) = {} /\ Made(u, b) = {<<b, o>> : o \in V}
  BY DEF Made
<1>2. \A x : (\E i \in Starts(u) : x \in Made(u, i)) <=>
             (\E i \in Starts(s) : x \in Made(s, i)) \/ x \in Made(u, b)
  BY <1>1
<1>3. \A x : x \in UNION {Made(s, i) : i \in Starts(s)} <=> \E i \in Starts(s) : x \in Made(s, i)
  OBVIOUS
<1>4. \A x : x \in UNION {Made(u, i) : i \in Starts(u)} <=> \E i \in Starts(u) : x \in Made(u, i)
  OBVIOUS
<1> QED BY <1>1, <1>2, <1>3, <1>4, ExpectedIs

(* Where the texts stop once a character c is read.                        *)
LEMMA StopsAfter ==
    ASSUME FramingTypeOK, Following, NEW c \in Chars, read' = Append(read, c)
    PROVE  \A i \in Starts(read') : \E j \in i..Len(read') : StopsAt(read', i, j)
<1>1. read \in Seq(Chars) /\ Len(read) \in Nat /\ Len(read') = Len(read) + 1
  BY OneMore DEF FramingTypeOK
<1> SUFFICES ASSUME NEW i \in Starts(read') PROVE \E j \in i..Len(read') : StopsAt(read', i, j)
  OBVIOUS
<1>2. CASE i \in Starts(read)
  <2>1. PICK j \in i..Len(read) : StopsAt(read, i, j)
    BY <1>2 DEF Following
  <2>2. i \in Nat /\ j \in Nat /\ j <= Len(read) /\ i <= j
    BY <1>1, <1>2, <2>1 DEF Starts
  <2>3. CASE j < Len(read) \/ c = START
    <3>1. StopsAt(read', i, j)
      BY <1>1, <1>2, <2>1, <2>3, TextStopped
    <3> QED BY <3>1 DEF StopsAt
  <2>4. CASE j = Len(read) /\ c # START
    <3>1. StopsAt(read', i, Len(read) + 1)
      BY <1>1, <1>2, <2>1, <2>4, TextGrows
    <3> QED BY <3>1 DEF StopsAt
  <2> QED BY <1>1, <2>2, <2>3, <2>4
<1>3. CASE i \notin Starts(read)
  <2>1. c = START /\ i = Len(read) + 1
    BY <1>1, <1>3, StartsAfter
  <2>2. StopsAt(read', i, i)
    BY <1>1, <2>1, TextBegins
  <2> QED BY <2>2 DEF StopsAt
<1> QED BY <1>2, <1>3

(* A character that is no '$' only adds to a text that has not stopped.    *)
LEMMA Unstopped ==
    ASSUME FramingTypeOK, Following, NEW c \in Chars, c # START, read' = Append(read, c),
           NEW i \in Starts(read)
    PROVE  \/ StopsAt(read, i, Len(read))
           \/ /\ Text(read', i) = Text(read, i)
              /\ ~StopsAt(read', i, Len(read'))
<1>1. read \in Seq(Chars) /\ Len(read) \in Nat /\ Len(read') = Len(read) + 1
  BY OneMore DEF FramingTypeOK
<1>2. PICK j \in i..Len(read) : StopsAt(read, i, j)
  BY DEF Following
<1>3. i \in Nat /\ j \in Nat /\ j <= Len(read) /\ i <= j
  BY <1>1, <1>2 DEF Starts
<1>4. CASE j < Len(read)
  <2>1. StopsAt(read', i, j) /\ Text(read', i) = Text(read, i)
    BY <1>1, <1>2, <1>4, TextStopped
  <2>2. read'[j + 1] = START /\ j + 1 \in i + 1..Len(read')
    BY <1>1, <1>3, <1>4, <2>1 DEF StopsAt
  <2> QED BY <2>1, <2>2 DEF StopsAt
<1> QED BY <1>1, <1>2, <1>3, <1>4

LEMMA RestartFollows ==
    ASSUME FramingInv, Restart
    PROVE  Following' /\ FramesAsExpected'
<1>1. /\ read \in Seq(Chars) /\ START \in Chars /\ Len(read) \in Nat
      /\ read' = Append(read, START) /\ Len(read') = Len(read) + 1 /\ outcome' = outcome
      /\ incoming_msg_buf' = <<>> /\ msg_is_incoming'
  BY FramingAssumption, OneMore DEF FramingInv, FramingTypeOK, Restart, Reads
<1>2. Began' = Len(read) + 1
  <2>1. Len(<<>>) = 0
    OBVIOUS
  <2> QED BY <1>1, <2>1 DEF Began, pos_in_buf
<1>3. /\ Began' \in Starts(read') /\ StopsAt(read', Began', Len(read'))
      /\ Text(read', Began') = <<>>
  BY <1>1, <1>2, StartsAfter, TextBegins
<1>4. Ends(<<>>) = {} /\ Verdicts(<<>>) = {}
  <2>1. Len(<<>>) = 0 /\ <<>> \in Seq(Chars)
    BY EmptySeq
  <2>2. Ends(<<>>) = {}
    BY <2>1, FramingAssumption DEF Ends
  <2>3. Verdicts(<<>>) = {}
    <3>1. 0 < MaxLength
      BY FramingAssumption
    <3> QED BY <2>1, <2>2, <3>1, NoVerdictYet
  <2> QED BY <2>2, <2>3
<1>5. Following'
  BY <1>1, <1>3, <1>4, StopsAfter DEF FramingInv, Following
<1>6. \A i \in Starts(read) : Text(read', i) = Text(read, i)
  BY <1>1, TextStopped DEF FramingInv, Following
<1>7. Expected(read') = Expected(read)
  <2>1. Starts(read') = Starts(read) \cup {Len(read) + 1}
    BY <1>1, StartsAfter
  <2>2. Verdicts(Text(read', Len(read) + 1)) = {}
    BY <1>2, <1>3, <1>4
  <2> QED BY <1>6, <2>1, <2>2, ExpectedStays
<1> QED BY <1>1, <1>5, <1>7 DEF FramingInv, FramesAsExpected

(* Every frame there is has been decided.                                  *)
LEMMA IgnoreFollows ==
    ASSUME FramingInv, NEW c \in Chars, Ignore(c)
    PROVE  Following' /\ FramesAsExpected'
<1>1. /\ read \in Seq(Chars) /\ Len(read) \in Nat /\ FramingTypeOK /\ Following
      /\ read' = Append(read, c) /\ Len(read') = Len(read) + 1 /\ c # START
      /\ ~msg_is_incoming /\ UNCHANGED <<incoming_msg_buf, msg_is_incoming, outcome>>
  BY OneMore DEF FramingInv, FramingTypeOK, Ignore, Reads
<1>2. Starts(read') = Starts(read)
  BY <1>1, StartsAfter
<1>3. ASSUME NEW i \in Starts(read)
      PROVE  /\ Verdicts(Text(read', i)) = Verdicts(Text(read, i))
             /\ StopsAt(read', i, Len(read')) => Decided(Text(read', i))
  <2>1. CASE StopsAt(read, i, Len(read))
    <3>1. Decided(Text(read, i))
      BY <1>1, <2>1 DEF Following
    <3>2. Text(read, i) \in Seq(Chars) /\ Text(read', i) = Append(Text(read, i), c)
      BY <1>1, <2>1, TextGrows
    <3> QED BY <3>1, <3>2, DecidedStays
  <2>2. CASE ~StopsAt(read, i, Len(read))
    BY <1>1, <2>2, Unstopped
  <2> QED BY <2>1, <2>2
<1>4. Following'
  BY <1>1, <1>2, <1>3, StopsAfter DEF Following
<1>5. Expected(read') = Expected(read)
  BY <1>2, <1>3, ExpectedStays
<1> QED BY <1>1, <1>4, <1>5 DEF FramingInv, FramesAsExpected

(* The frame in the buffer is the only one that is not decided.            *)
LEMMA StoreFollows ==
    ASSUME FramingInv, NEW c \in Chars, Store(c)
    PROVE  Following' /\ FramesAsExpected'
<1> DEFINE b == Len(read) - Len(incoming_msg_buf)
           t == Append(incoming_msg_buf, c)
<1>1. /\ read \in Seq(Chars) /\ Len(read) \in Nat /\ FramingTypeOK /\ Following
      /\ read' = Append(read, c) /\ Len(read') = Len(read) + 1 /\ c # START
      /\ msg_is_incoming /\ incoming_msg_buf \in Seq(Chars)
      /\ Len(incoming_msg_buf) \in Nat /\ Len(incoming_msg_buf) < MaxLength
      /\ t \in Seq(Chars) /\ Len(t) = Len(incoming_msg_buf) + 1
  BY OneMore DEF FramingInv, FramingTypeOK, Store, Reads, BufferHasRoom, pos_in_buf
<1>2. /\ Began = b /\ b \in Starts(read) /\ StopsAt(read, b, Len(read))
      /\ incoming_msg_buf = Text(read, b) /\ Ends(Text(read, b)) = {}
  BY <1>1 DEF Following, Began, pos_in_buf
<1>3. Text(read', b) = t /\ StopsAt(read', b, Len(read')) /\ Starts(read') = Starts(read)
  <2>1. Starts(read') = Starts(read)
    BY <1>1, StartsAfter
  <2>2. Text(Append(read, c), b) = t /\ StopsAt(Append(read, c), b, Len(Append(read, c)))
    BY <1>1, <1>2, TextGrows
  <2> QED BY <1>1, <2>1, <2>2
<1>4. ASSUME NEW i \in Starts(read), i # b
      PROVE  Text(read', i) = Text(read, i) /\ ~StopsAt(read', i, Len(read'))
  <2>1. i \in 1..Len(read) /\ read[i] = START /\ b \in 1..Len(read) /\ read[b] = START
    BY <1>2 DEF Starts
  <2>2. b \in i + 1..Len(read) \/ i \in b + 1..Len(read)
    BY <1>1, <1>4, <2>1
  <2>3. ~StopsAt(read, i, Len(read))
    BY <1>2, <2>1, <2>2 DEF StopsAt
  <2> QED BY <1>1, <2>3, Unstopped
<1>5. Verdicts(Text(read, b)) = {}
  BY <1>1, <1>2, NoVerdictYet
<1>6. Ends(t) = IF EndsFrame(t) THEN {Len(t)} ELSE {}
  BY <1>1, <1>2, EndsAfter
<1> HIDE DEF b, t
<1>7. ASSUME NEW o, outcome' = outcome \cup {<<b, o>>}, Verdicts(t) = {o}, Decided(t), Idle
      PROVE  Following' /\ FramesAsExpected'
  <2>1. Following'
    BY <1>1, <1>3, <1>4, <1>7, StopsAfter DEF Following, Idle
  <2>2. Expected(read') = Expected(read) \cup {<<b, p>> : p \in {o}}
    <3>1. \A i \in Starts(read) : i # b => Verdicts(Text(read', i)) = Verdicts(Text(read, i))
      BY <1>4
    <3>2. Verdicts(Text(read', b)) = {o}
      BY <1>3, <1>7
    <3> QED BY <1>2, <1>3, <1>5, <3>1, <3>2, ExpectedChanges
  <2> QED BY <1>7, <2>1, <2>2 DEF FramingInv, FramesAsExpected
<1>8. CASE EndsFrame(t) /\ outcome' = outcome \cup {<<Began, Validated(t)>>} /\ Idle
  <2>1. Verdicts(t) = {Validated(t)} /\ Decided(t)
    BY <1>1, <1>2, <1>8, VerdictNow DEF t
  <2> QED BY <1>2, <1>7, <1>8, <2>1
<1>9. CASE /\ ~EndsFrame(t) /\ Len(t) >= MaxLength /\ Idle
           /\ outcome' = outcome \cup {<<Began, MESSAGE_TOO_LONG_ERROR>>}
  <2>1. Verdicts(t) = {MESSAGE_TOO_LONG_ERROR} /\ Decided(t)
    BY <1>1, <1>6, <1>9, NoVerdictYet
  <2> QED BY <1>2, <1>7, <1>9, <2>1
<1>10. CASE /\ ~EndsFrame(t) /\ Len(t) < MaxLength
            /\ incoming_msg_buf' = t /\ UNCHANGED <<msg_is_incoming, outcome>>
  <2>1. Ends(t) = {} /\ Verdicts(t) = {}
    BY <1>1, <1>6, <1>10, NoVerdictYet
  <2>2. Began' = b
    <3>1. Len(read) \in Nat /\ Len(incoming_msg_buf) \in Nat
      BY <1>1
    <3>2. Len(read') = Len(read) + 1 /\ Len(incoming_msg_buf') = Len(incoming_msg_buf) + 1
      BY <1>1, <1>10
    <3>3. (Len(read) + 1) - (Len(incoming_msg_buf) + 1) = Len(read) - Len(incoming_msg_buf)
      BY <3>1
    <3> QED BY <3>2, <3>3 DEF b, Began, pos_in_buf
  <2>3. Following'
    BY <1>1, <1>2, <1>3, <1>10, <2>1, <2>2, StopsAfter DEF Following
  <2>4. \A i \in Starts(read) : Verdicts(Text(read', i)) = Verdicts(Text(read, i))
    BY <1>3, <1>4, <1>5, <2>1
  <2>5. Expected(read') = Expected(read)
    BY <1>3, <2>4, ExpectedStays
  <2> QED BY <1>10, <2>3, <2>5 DEF FramingInv, FramesAsExpected
<1> QED BY <1>8, <1>9, <1>10 DEF Store, t

LEMMA FramingFollows == FramingInv /\ [Next]_vars => Following' /\ FramesAsExpected'
<1> SUFFICES ASSUME FramingInv, [Next]_vars PROVE Following' /\ FramesAsExpected'
  OBVIOUS
<1>1. CASE Restart
  BY <1>1, RestartFollows
<1>2. ASSUME NEW c \in Chars, Ignore(c) PROVE Following' /\ FramesAsExpected'
  BY <1>2, IgnoreFollows
<1>3. ASSUME NEW c \in Chars, Store(c) PROVE Following' /\ FramesAsExpected'
  BY <1>3, StoreFollows
<1>4. CASE UNCHANGED vars
  BY <1>4 DEF vars, FramingInv, Following, FramesAsExpected, Began, pos_in_buf
<1> QED BY <1>1, <1>2, <1>3, <1>4 DEF Next, Sleep

(* Whatever arrives, however it is cut and mixed with noise: the worker    *)
(* makes of it exactly the frames the protocol sees in it, each once, at   *)
(* any length of the buffer and with any checksum.                         *)
THEOREM EveryFrameAsExpected == Spec => []FramesAsExpected
<1>1. Init => Following /\ FramesAsExpected
  BY FramingInitially DEF FramingInv
<1>2. /\ FramingTypeOK /\ BufferHasRoom /\ (Following /\ FramesAsExpected) /\ [Next]_vars
      => (Following /\ FramesAsExpected)'
  BY FramingFollows DEF FramingInv
<1> QED BY <1>1, <1>2, FramingTypeCorrect, BufferNeverOverrun, PTL DEF Spec
=============================================================================
