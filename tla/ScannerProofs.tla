--------------------------- MODULE ScannerProofs ---------------------------
(***************************************************************************)
(* The scanner of scanner.c finds the tokens of scanner.l, loses no byte   *)
(* and never gets to an end that flex takes for impossible, for every      *)
(* input, every fragmentation and every size of the buffer.                *)
(***************************************************************************)
EXTENDS Scanner, SequenceTheorems, TLAPS

-----------------------------------------------------------------------------
(* The invariant.  A state of the automaton stands for a shape of the text *)
(* scanned so far, which is written as a statement about the input, so     *)
(* that it survives the moves of the buffer.                               *)

\* the bytes that have not become a token
Left == received - consumed
Byte(k) == stream[consumed + k]
Plain(k) == Byte(k) \notin {Dollar, Hash}

TextStates == {1, 4, 6, 9, 10, 11}

\* the text that brings the automaton to a state with a continuation; state 4
\* is in the loop only after a NUL that turned out to be no end of buffer
Shape(s, t) ==
    \/ s = 1 /\ t = 0
    \/ s = 4 /\ t = 1 /\ Byte(1) = NUL
    \/ s = 6 /\ t = 1 /\ Byte(1) = Dollar
    \/ s = 9 /\ t >= 2 /\ Byte(1) = Dollar /\ \A k \in 2 .. t : Plain(k)
    \/ /\ s = 10 /\ t >= 2 /\ Byte(1) = Dollar /\ Byte(t) = Hash
       /\ \A k \in 2 .. t - 1 : Plain(k)
    \/ /\ s = 11 /\ t >= 3 /\ Byte(1) = Dollar
       /\ Byte(t - 1) = Hash /\ Byte(t) \in HexDigits
       /\ \A k \in 2 .. t - 2 : Plain(k)

Partial(t) == \E s \in TextStates : Shape(s, t)

\* a character to back up to
Remembers(s) == s \in {9, 10, 11} => last = [state |-> 6, cpos |-> bp + 1]

\* the bytes of the input and the two end-of-buffer characters, from an index on
Holds(chars, from) ==
    /\ from \in 0 .. n_chars /\ n_chars - from = Left
    /\ \A i \in from .. n_chars - 1 : chars[i] = Byte(i - from + 1)
    /\ chars[n_chars] = NUL /\ chars[n_chars + 1] = NUL

\* an end-of-buffer character, or a NUL, after a text
NulAfter(chars, from, p) ==
    p \in from .. n_chars /\ chars[p] = NUL /\ Partial(p - from)

Matching ==
    /\ Holds(ch_buf, bp)
    /\ \/ cp \in bp .. n_chars /\ Shape(state, cp - bp) /\ Remembers(state)
       \/ state = 3 /\ NulAfter(ch_buf, bp, cp - 1)

NoPacket == \A j \in consumed + 2 .. Len(stream) - 2 : ~Packet(consumed + 1, j)

OneCharacter ==
    Left >= 1 /\ EndOfToken = bp + 1 /\ Action = Rule(Byte(1)) /\ NoPacket

WholePacket ==
    /\ Action = 3 /\ EndOfToken \in bp + 4 .. n_chars
    /\ Packet(consumed + 1, consumed + (EndOfToken - bp) - 2)

EndOfChars == Action = YY_END_OF_BUFFER /\ NulAfter(ch_buf, bp, EndOfToken - 1)

Finding ==
    /\ Holds(ch_buf, bp)
    /\ BackUp => last.cpos \in bp + 1 .. cp
    /\ OneCharacter \/ WholePacket \/ EndOfChars

AtEndOfBuffer ==
    /\ cp = c_buf_p
    /\ Holds(Restored, text)
    /\ NulAfter(Restored, text, c_buf_p - 1)

Replayed ==
    /\ Holds(ch_buf, text) /\ bp = text
    /\ c_buf_p \in text .. n_chars /\ Partial(c_buf_p - text)
    /\ cp \in text .. c_buf_p /\ Shape(state, cp - text) /\ Remembers(state)
    /\ loc = "replay_NUL" => c_buf_p < n_chars /\ ch_buf[c_buf_p] = NUL
    /\ loc = "replay_find" =>
          c_buf_p = n_chars /\ c_buf_p > text /\ received = Len(stream)

AtRead ==
    /\ status # "new"
    /\ number_to_move = Left /\ Partial(Left) /\ Left <= buf_size
    /\ \A i \in 0 .. Left - 1 : ch_buf[i] = Byte(i + 1)

Places == {"start", "match", "find", "end_of_buffer", "replay_NUL",
           "replay_match", "replay_find", "read", "done", "exit"}

InputOK ==
    /\ stream \in Seq(Char)
    /\ received \in 0 .. Len(stream) /\ consumed \in 0 .. received
    /\ status = "eof_pending" => received = Len(stream)

BufferOK ==
    /\ buf_size \in Nat \ {0}
    /\ ch_buf \in [0 .. buf_size + 1 -> Char \union {Junk}]
    /\ status \in {"new", "normal", "eof_pending"}
    /\ b_n_chars \in 0 .. buf_size /\ n_chars \in 0 .. buf_size
    /\ status = "new" => b_n_chars = 0 /\ n_chars = 0

PointersOK ==
    /\ c_buf_p \in 0 .. buf_size + 1 /\ text \in 0 .. buf_size
    /\ cp \in 0 .. buf_size + 2 /\ bp \in 0 .. buf_size

AutomatonOK ==
    hold \in Char /\ state \in 0 .. 14 /\ last \in [state : 0 .. 12, cpos : Nat]

Types == InputOK /\ BufferOK /\ PointersOK /\ AutomatonOK /\ loc \in Places

ScanInv ==
    /\ Types
    /\ loc = "start" => Holds([ch_buf EXCEPT ![c_buf_p] = hold], c_buf_p)
    /\ loc = "match" => Matching
    /\ loc = "find" => Finding
    /\ loc = "end_of_buffer" => AtEndOfBuffer
    /\ Replaying => Replayed
    /\ loc = "read" => AtRead

-----------------------------------------------------------------------------
(* The automaton *)

LEMMA Transitions ==
    /\ \A c \in 0 .. 7 :
          /\ Goto(1, c) = <<3, 4, 5, 4, 6, 7, 8, 4>>[c + 1]
          /\ Goto(6, c) = <<3, 9, 9, 10, 13, 9, 9, 9>>[c + 1]
          /\ Goto(9, c) = <<3, 9, 9, 10, 13, 9, 9, 9>>[c + 1]
          /\ Goto(10, c) = IF c = 0 THEN 3 ELSE IF c = 7 THEN 11 ELSE 13
          /\ Goto(11, c) = IF c = 0 THEN 3 ELSE IF c = 7 THEN 12 ELSE 13
          /\ Goto(4, c) = IF c = 0 THEN 3 ELSE 13
          /\ Goto(3, c) = 13
BY DEF Goto, Explicit, Entry, Default, DefaultClass, At, yy_base, yy_def, yy_nxt,
       yy_chk, yy_meta

LEMMA Accepts ==
    /\ Accept(1) = 0 /\ Accept(3) = 6 /\ Accept(4) = 4 /\ Accept(5) = 5
    /\ Accept(6) = 4 /\ Accept(7) = 1 /\ Accept(8) = 2 /\ Accept(9) = 0
    /\ Accept(10) = 0 /\ Accept(11) = 0 /\ Accept(12) = 3 /\ Accept(13) = 0
BY DEF Accept, At, yy_accept

LEMMA Stops ==
    \A s \in 1 .. 13 : Continues(s) <=> s \in {1, 2, 3, 6, 9, 10, 11}
BY DEF Continues, JamBase, At, yy_base

\* The transitions of the states of a text, on the characters of a buffer.
LEMMA OnCharacter ==
    ASSUME NEW c \in Char
    PROVE  /\ Goto(1, yy_ec(c)) =
                 IF c = NUL THEN 3 ELSE IF c = Newline THEN 5
                 ELSE IF c = Dollar THEN 6 ELSE IF c = Plus THEN 7
                 ELSE IF c = Minus THEN 8 ELSE 4
           /\ \A s \in {6, 9} :
                 Goto(s, yy_ec(c)) =
                    IF c = NUL THEN 3 ELSE IF c = Hash THEN 10
                    ELSE IF c = Dollar THEN 13 ELSE 9
           /\ Goto(10, yy_ec(c)) =
                 IF c = NUL THEN 3 ELSE IF c \in HexDigits THEN 11 ELSE 13
           /\ Goto(11, yy_ec(c)) =
                 IF c = NUL THEN 3 ELSE IF c \in HexDigits THEN 12 ELSE 13
           /\ Goto(4, yy_ec(c)) = IF c = NUL THEN 3 ELSE 13
           /\ Goto(3, yy_ec(c)) = 13
<1>1. PICK class \in 0 .. 7 : class = yy_ec(c)
  BY DEF yy_ec
<1>2. /\ class = 0 <=> c = NUL
      /\ class = 2 <=> c = Newline
      /\ class = 3 <=> c = Hash
      /\ class = 4 <=> c = Dollar
      /\ class = 5 <=> c = Plus
      /\ class = 6 <=> c = Minus
      /\ class = 7 <=> c \in HexDigits
  BY <1>1 DEF yy_ec, Char, NUL, Newline, Hash, Dollar, Plus, Minus, HexDigits, Other
<1>3. class \in {0, 1, 2, 3, 4, 5, 6, 7}
  OBVIOUS
<1>4. /\ c = NUL => c \notin {Newline, Hash, Dollar, Plus, Minus} \union HexDigits
      /\ c = Hash => c \notin {Newline, Dollar, Plus, Minus} \union HexDigits
      /\ c = Dollar => c \notin {Newline, Plus, Minus} \union HexDigits
  BY DEF NUL, Newline, Hash, Dollar, Plus, Minus, HexDigits
<1>5. /\ Goto(1, class) = <<3, 4, 5, 4, 6, 7, 8, 4>>[class + 1]
      /\ Goto(6, class) = <<3, 9, 9, 10, 13, 9, 9, 9>>[class + 1]
      /\ Goto(9, class) = <<3, 9, 9, 10, 13, 9, 9, 9>>[class + 1]
      /\ Goto(10, class) = IF class = 0 THEN 3 ELSE IF class = 7 THEN 11 ELSE 13
      /\ Goto(11, class) = IF class = 0 THEN 3 ELSE IF class = 7 THEN 12 ELSE 13
      /\ Goto(4, class) = IF class = 0 THEN 3 ELSE 13
      /\ Goto(3, class) = 13
  BY Transitions
<1>6. Goto(1, class) = IF c = NUL THEN 3 ELSE IF c = Newline THEN 5
                       ELSE IF c = Dollar THEN 6 ELSE IF c = Plus THEN 7
                       ELSE IF c = Minus THEN 8 ELSE 4
  BY <1>2, <1>3, <1>4, <1>5
<1>7. \A s \in {6, 9} :
         Goto(s, class) = IF c = NUL THEN 3 ELSE IF c = Hash THEN 10
                          ELSE IF c = Dollar THEN 13 ELSE 9
  BY <1>2, <1>3, <1>4, <1>5
<1> QED BY <1>1, <1>2, <1>5, <1>6, <1>7

\* The same where NUL is a character like any other.
LEMMA OnTextCharacter ==
    ASSUME NEW c \in Char
    PROVE  /\ c # NUL => TextClass(c) = yy_ec(c)
           /\ c = NUL => /\ TextClass(c) = 1 /\ Goto(1, TextClass(c)) = 4
                         /\ Goto(6, TextClass(c)) = 9 /\ Goto(9, TextClass(c)) = 9
                         /\ \A s \in {4, 10, 11} : Goto(s, TextClass(c)) = 13
<1>1. /\ Goto(1, 1) = 4 /\ Goto(6, 1) = 9 /\ Goto(9, 1) = 9
      /\ Goto(4, 1) = 13 /\ Goto(10, 1) = 13 /\ Goto(11, 1) = 13
  BY Transitions
<1> QED BY <1>1 DEF TextClass

-----------------------------------------------------------------------------
(* The shapes of a text *)

Different ==
    /\ NUL # Dollar /\ NUL # Hash /\ NUL \notin HexDigits /\ Dollar # Hash
    /\ Dollar \notin HexDigits /\ Hash \notin HexDigits

LEMMA AreDifferent == Different
BY DEF Different, NUL, Dollar, Hash, HexDigits

\* A packet in terms of the bytes that are left.
LEMMA PacketBytes ==
    ASSUME consumed \in Nat, NEW d \in Nat, d >= 2
    PROVE  Packet(consumed + 1, consumed + d) <=>
              /\ Byte(1) = Dollar /\ Byte(d) = Hash
              /\ \A k \in 2 .. d - 1 : Plain(k)
              /\ Byte(d + 1) \in HexDigits /\ Byte(d + 2) \in HexDigits
<1>1. (\A k \in (consumed + 1) + 1 .. (consumed + d) - 1 :
             stream[k] \notin {Dollar, Hash})
         <=> \A k \in 2 .. d - 1 : stream[consumed + k] \notin {Dollar, Hash}
  <2>1. ASSUME NEW k \in (consumed + 1) + 1 .. (consumed + d) - 1
        PROVE  k - consumed \in 2 .. d - 1 /\ consumed + (k - consumed) = k
    OBVIOUS
  <2>2. ASSUME NEW k \in 2 .. d - 1
        PROVE  consumed + k \in (consumed + 1) + 1 .. (consumed + d) - 1
    OBVIOUS
  <2>3. ASSUME \A k \in 2 .. d - 1 : stream[consumed + k] \notin {Dollar, Hash},
               NEW k \in (consumed + 1) + 1 .. (consumed + d) - 1
        PROVE  stream[k] \notin {Dollar, Hash}
    BY <2>1, <2>3
  <2> QED BY <2>2, <2>3
<1>2. (consumed + d) + 1 = consumed + (d + 1) /\ (consumed + d) + 2 = consumed + (d + 2)
  OBVIOUS
<1> QED BY <1>1, <1>2 DEF Packet, Byte, Plain

\* A text that goes on with a '$', or with no digit where the checksum is, is
\* no packet, nor the start of one.
LEMMA Broken ==
    ASSUME consumed \in Nat, Len(stream) \in Nat, NEW s, NEW t \in Nat, Shape(s, t),
           \/ s \in {6, 9} /\ Byte(t + 1) = Dollar
           \/ s \in {10, 11} /\ Byte(t + 1) \notin HexDigits
    PROVE  NoPacket /\ Byte(1) = Dollar
<1>1. Byte(1) = Dollar
  BY DEF Shape
<1>2. ASSUME NEW j \in consumed + 2 .. Len(stream) - 2, Packet(consumed + 1, j)
      PROVE  FALSE
  <2>1. PICK d \in Nat : d >= 2 /\ j = consumed + d
    <3>1. j - consumed \in Nat /\ j - consumed >= 2 /\ j = consumed + (j - consumed)
      OBVIOUS
    <3> QED BY <3>1
  <2>2. /\ Byte(d) = Hash /\ \A k \in 2 .. d - 1 : Plain(k)
        /\ Byte(d + 1) \in HexDigits /\ Byte(d + 2) \in HexDigits
    BY <1>2, <2>1, PacketBytes
  <2>3. CASE s = 6
    BY <2>1, <2>2, <2>3, AreDifferent DEF Shape, Plain, Different
  <2>4. CASE s = 9
    BY <2>1, <2>2, <2>4, AreDifferent DEF Shape, Plain, Different
  <2>5. CASE s = 10
    <3>1. d = t
      BY <2>1, <2>2, <2>5 DEF Shape, Plain
    <3> QED BY <2>2, <2>5, <3>1
  <2>6. CASE s = 11
    <3>1. /\ t >= 3 /\ Byte(t - 1) = Hash /\ Byte(t) \in HexDigits
          /\ \A k \in 2 .. t - 2 : Plain(k)
      BY <2>6 DEF Shape
    <3>2. ~(d < t - 1)
      BY <2>1, <2>2, <3>1 DEF Plain
    <3>3. ~(d > t - 1)
      BY <2>1, <2>2, <3>1 DEF Plain
    <3>4. d + 2 = t + 1
      BY <2>1, <3>1, <3>2, <3>3
    <3> QED BY <2>2, <2>6, <3>4
  <2> QED BY <2>3, <2>4, <2>5, <2>6
<1> QED BY <1>1, <1>2 DEF NoPacket

\* Neither is one that is all there will be.
LEMMA CutShort ==
    ASSUME consumed \in Nat, NEW s, NEW t \in Nat, Shape(s, t),
           Len(stream) = consumed + t
    PROVE  NoPacket
<1>1. ASSUME NEW j \in consumed + 2 .. Len(stream) - 2, Packet(consumed + 1, j)
      PROVE  FALSE
  <2>1. PICK d \in Nat : d >= 2 /\ j = consumed + d /\ d + 2 <= t
    <3>1. j - consumed \in Nat /\ j - consumed >= 2 /\ j = consumed + (j - consumed)
      OBVIOUS
    <3> QED BY <3>1
  <2>2. /\ Byte(1) = Dollar /\ Byte(d) = Hash /\ \A k \in 2 .. d - 1 : Plain(k)
        /\ Byte(d + 1) \in HexDigits /\ Byte(d + 2) \in HexDigits
    BY <1>1, <2>1, PacketBytes
  <2> QED BY <2>1, <2>2, AreDifferent DEF Shape, Plain, Different
<1> QED BY <1>1 DEF NoPacket

\* A byte that is no '$' starts no packet.
LEMMA NoDollar ==
    ASSUME consumed \in Nat, Byte(1) # Dollar
    PROVE  NoPacket
BY DEF NoPacket, Packet, Byte

LEMMA ShapeFacts ==
    ASSUME NEW s, NEW t \in Nat, Shape(s, t)
    PROVE  /\ s \in TextStates
           /\ s = 1 => t = 0
           /\ s \in {4, 6} => t = 1
           /\ s = 4 => Byte(1) = NUL
           /\ s \in {9, 10} => t >= 2
           /\ s = 11 => t >= 3
           /\ s \in {6, 9, 10, 11} => Byte(1) = Dollar
BY DEF Shape, TextStates

\* One more character in the match loop: a longer text, a token, or a jam.
LEMMA TextGoesOn ==
    ASSUME consumed \in Nat, Len(stream) \in Nat, NEW s, NEW t \in Nat, Shape(s, t),
           Byte(t + 1) \in Char, Byte(t + 1) # NUL,
           NEW n, n = Goto(s, yy_ec(Byte(t + 1)))
    PROVE  \/ n \in {6, 9, 10, 11} /\ Shape(n, t + 1)
           \/ /\ n \in {4, 5, 7, 8} /\ t = 0
              /\ Accept(n) = Rule(Byte(1)) /\ Byte(1) # Dollar
           \/ n = 12 /\ t >= 3 /\ Packet(consumed + 1, consumed + (t - 1))
           \/ n = 13 /\ s \in {6, 9, 10, 11} /\ NoPacket /\ Byte(1) = Dollar
           \/ n = 13 /\ s = 4 /\ NoPacket
<1> DEFINE c == Byte(t + 1)
<1>1. c \in Char /\ c # NUL
  OBVIOUS
<1>2. s \in {1, 4, 6, 9, 10, 11}
  BY ShapeFacts DEF TextStates
<1>3. CASE s = 1
  <2>1. t = 0 /\ c = Byte(1)
    BY <1>3, ShapeFacts
  <2>2. n = IF c = Newline THEN 5 ELSE IF c = Dollar THEN 6
            ELSE IF c = Plus THEN 7 ELSE IF c = Minus THEN 8 ELSE 4
    BY <1>1, <1>3, OnCharacter
  <2>3. CASE c = Dollar
    <3>1. n = 6
      BY <2>2, <2>3 DEF Dollar, Newline
    <3> QED BY <2>1, <2>3, <3>1 DEF Shape
  <2>4. CASE c # Dollar
    <3>1. n \in {4, 5, 7, 8} /\ Accept(n) = Rule(c)
      BY <2>2, <2>4, Accepts DEF Rule, Plus, Minus, Newline
    <3> QED BY <2>1, <2>4, <3>1
  <2> QED BY <2>3, <2>4
<1>4. CASE s = 4
  <2>1. n = 13
    BY <1>1, <1>4, OnCharacter
  <2>2. NoPacket
    BY <1>4, ShapeFacts, NoDollar, AreDifferent DEF Different
  <2> QED BY <1>4, <2>1, <2>2
<1>5. CASE s \in {6, 9}
  <2>1. n = IF c = Hash THEN 10 ELSE IF c = Dollar THEN 13 ELSE 9
    BY <1>1, <1>5, OnCharacter
  <2>2. t >= 1 /\ Byte(1) = Dollar /\ \A k \in 2 .. t : Plain(k)
    BY <1>5 DEF Shape
  <2>3. CASE c = Hash
    BY <2>1, <2>2, <2>3 DEF Shape
  <2>4. CASE c = Dollar
    <3>1. NoPacket
      BY <1>5, <2>4, Broken
    <3>2. n = 13
      BY <2>1, <2>4, AreDifferent DEF Different
    <3> QED BY <1>5, <2>2, <3>1, <3>2
  <2>5. CASE c # Hash /\ c # Dollar
    <3>1. n = 9 /\ Plain(t + 1)
      BY <2>1, <2>5 DEF Plain
    <3>2. \A k \in 2 .. t + 1 : Plain(k)
      BY <2>2, <3>1
    <3> QED BY <2>2, <3>1, <3>2 DEF Shape
  <2> QED BY <2>3, <2>4, <2>5
<1>6. CASE s = 10
  <2>1. n = IF c \in HexDigits THEN 11 ELSE 13
    BY <1>1, <1>6, OnCharacter
  <2>2. CASE c \in HexDigits
    <3>1. t >= 2 /\ Byte(1) = Dollar /\ Byte(t) = Hash /\ \A k \in 2 .. t - 1 : Plain(k)
      BY <1>6 DEF Shape
    <3>2. (t + 1) - 1 = t /\ (t + 1) - 2 = t - 1 /\ t + 1 >= 3
      BY <3>1
    <3> QED BY <2>1, <2>2, <3>1, <3>2 DEF Shape
  <2>3. CASE c \notin HexDigits
    BY <1>6, <2>1, <2>3, Broken
  <2> QED BY <2>2, <2>3
<1>7. CASE s = 11
  <2>1. n = IF c \in HexDigits THEN 12 ELSE 13
    BY <1>1, <1>7, OnCharacter
  <2>2. CASE c \in HexDigits
    <3>1. /\ t >= 3 /\ Byte(1) = Dollar /\ Byte(t - 1) = Hash /\ Byte(t) \in HexDigits
          /\ \A k \in 2 .. t - 2 : Plain(k)
      BY <1>7 DEF Shape
    <3>2. PICK d \in Nat : d = t - 1 /\ d >= 2 /\ d + 1 = t /\ d + 2 = t + 1 /\ d - 1 = t - 2
      BY <3>1
    <3>3. Packet(consumed + 1, consumed + d)
      BY <2>2, <3>1, <3>2, PacketBytes
    <3> QED BY <2>1, <2>2, <3>1, <3>2, <3>3
  <2>3. CASE c \notin HexDigits
    BY <1>7, <2>1, <2>3, Broken
  <2> QED BY <2>2, <2>3
<1> QED BY <1>2, <1>3, <1>4, <1>5, <1>6, <1>7

\* The same for a NUL that belongs to the text.
LEMMA NulGoesOn ==
    ASSUME consumed \in Nat, Len(stream) \in Nat, NEW s, NEW t \in Nat, Shape(s, t),
           Byte(t + 1) = NUL, NEW n, n = Goto(s, 1)
    PROVE  \/ n \in {4, 9} /\ Shape(n, t + 1)
           \/ n = 13 /\ s \in {10, 11} /\ NoPacket /\ Byte(1) = Dollar
           \/ n = 13 /\ s = 4 /\ NoPacket
<1>1. /\ Goto(1, 1) = 4 /\ Goto(6, 1) = 9 /\ Goto(9, 1) = 9
      /\ Goto(4, 1) = 13 /\ Goto(10, 1) = 13 /\ Goto(11, 1) = 13
  BY Transitions
<1>2. s \in {1, 4, 6, 9, 10, 11}
  BY ShapeFacts DEF TextStates
<1>3. CASE s = 1
  BY <1>1, <1>3, ShapeFacts DEF Shape
<1>4. CASE s = 4
  <2>1. NoPacket
    BY <1>4, ShapeFacts, NoDollar, AreDifferent DEF Different
  <2> QED BY <1>1, <1>4, <2>1
<1>5. CASE s \in {6, 9}
  <2>1. t >= 1 /\ Byte(1) = Dollar /\ \A k \in 2 .. t : Plain(k)
    BY <1>5 DEF Shape
  <2>2. Plain(t + 1)
    BY AreDifferent DEF Plain, Different
  <2>3. \A k \in 2 .. t + 1 : Plain(k)
    BY <2>1, <2>2
  <2> QED BY <1>1, <1>5, <2>1, <2>3 DEF Shape
<1>6. CASE s \in {10, 11}
  <2>1. Byte(t + 1) \notin HexDigits
    BY AreDifferent DEF Different
  <2> QED BY <1>1, <1>6, <2>1, Broken
<1> QED BY <1>2, <1>3, <1>4, <1>5, <1>6

\* A text that has been scanned once is scanned again without a jam.
LEMMA Replays ==
    ASSUME consumed \in Nat, Len(stream) \in Nat,
           NEW s, NEW t \in Nat, Shape(s, t), NEW u, NEW m \in Nat, Shape(u, m),
           t < m, Byte(t + 1) \in Char
    PROVE  Shape(Goto(s, TextClass(Byte(t + 1))), t + 1)
<1>1. s \in {1, 4, 6, 9, 10, 11}
  BY ShapeFacts DEF TextStates
<1>2. s # 4
  BY AreDifferent DEF Shape, Different
<1>3. s # 11
  <2> SUFFICES ASSUME s = 11 PROVE FALSE
    OBVIOUS
  <2>1. t >= 3 /\ Byte(t - 1) = Hash
    BY DEF Shape
  <2>2. m >= 4 /\ t - 1 \in 2 .. m - 2
    BY <2>1
  <2> QED BY <2>1, <2>2 DEF Shape, Plain
<1>4. s = 10 => Byte(t + 1) \in HexDigits
  <2> SUFFICES ASSUME s = 10 PROVE Byte(t + 1) \in HexDigits
    OBVIOUS
  <2>1. t >= 2 /\ Byte(t) = Hash
    BY DEF Shape
  <2>2. m >= 3 /\ u \notin {1, 4, 6, 9, 10}
    BY <2>1 DEF Shape, Plain
  <2>3. u = 11 /\ ~(t \in 2 .. m - 2)
    BY <2>1, <2>2 DEF Shape, Plain
  <2>4. t + 1 = m
    BY <2>1, <2>3
  <2> QED BY <2>3, <2>4 DEF Shape
<1>5. s \in {6, 9} => Byte(t + 1) # Dollar
  BY AreDifferent DEF Shape, Plain, Different
<1>6. s = 1 => Byte(1) \in {NUL, Dollar}
  BY ShapeFacts DEF Shape
<1>7. CASE Byte(t + 1) = NUL
  <2>1. TextClass(Byte(t + 1)) = 1
    BY <1>7 DEF TextClass
  <2>2. s # 10
    BY <1>4, <1>7, AreDifferent DEF Different
  <2> QED BY <1>1, <1>2, <1>3, <1>7, <2>1, <2>2, NulGoesOn
<1>8. CASE Byte(t + 1) # NUL
  <2>1. PICK n : n = Goto(s, yy_ec(Byte(t + 1))) /\ n = Goto(s, TextClass(Byte(t + 1)))
    BY <1>8 DEF TextClass
  <2>2. n # 12
    BY <1>1, <1>2, <1>3, <1>8, <2>1, OnCharacter
  <2>3. n # 13
    BY <1>1, <1>2, <1>3, <1>4, <1>5, <1>8, <2>1, OnCharacter
  <2>4. n \notin {4, 5, 7, 8}
    <3> SUFFICES ASSUME n \in {4, 5, 7, 8} PROVE FALSE
      OBVIOUS
    <3>1. t = 0 /\ Byte(1) # Dollar
      BY <1>8, <2>1, TextGoesOn
    <3>2. s = 1
      BY <3>1, ShapeFacts, <1>1
    <3> QED BY <1>6, <1>8, <3>1, <3>2
  <2> QED BY <1>8, <2>1, <2>2, <2>3, <2>4, TextGoesOn
<1> QED BY <1>7, <1>8

-----------------------------------------------------------------------------
(* The steps *)

LEMMA SameInput ==
    ASSUME UNCHANGED <<stream, consumed>>
    PROVE  /\ \A k : Byte(k)' = Byte(k)
           /\ \A s, t : Shape(s, t)' <=> Shape(s, t)
           /\ \A t : Partial(t)' <=> Partial(t)
           /\ \A i, j : Packet(i, j)' <=> Packet(i, j)
           /\ NoPacket' <=> NoPacket
<1>1. \A k : Byte(k)' = Byte(k)
  BY DEF Byte
<1>2. \A s, t : Shape(s, t)' <=> Shape(s, t)
  BY <1>1 DEF Shape, Plain
<1>3. \A t : Partial(t)' <=> Partial(t)
  BY <1>2 DEF Partial
<1>4. \A i, j : Packet(i, j)' <=> Packet(i, j)
  BY DEF Packet
<1>5. NoPacket' <=> NoPacket
  BY <1>4 DEF NoPacket
<1> QED BY <1>1, <1>2, <1>3, <1>4, <1>5

\* The types, spelled out.
LEMMA TypeFacts ==
    ASSUME Types
    PROVE  /\ stream \in Seq(Char) /\ Len(stream) \in Nat
           /\ received \in Nat /\ consumed \in Nat
           /\ received <= Len(stream) /\ consumed <= received /\ Left \in Nat
           /\ buf_size \in Nat /\ buf_size >= 1
           /\ n_chars \in Nat /\ n_chars <= buf_size
           /\ cp \in Nat /\ bp \in Nat /\ bp <= buf_size
           /\ c_buf_p \in Nat /\ c_buf_p <= buf_size + 1
           /\ text \in Nat /\ text <= buf_size
           /\ \A k \in 1 .. Left : Byte(k) \in Char
<1>1. /\ stream \in Seq(Char) /\ Len(stream) \in Nat
      /\ received \in Nat /\ consumed \in Nat
      /\ received <= Len(stream) /\ consumed <= received
      /\ buf_size \in Nat /\ buf_size >= 1
      /\ n_chars \in Nat /\ n_chars <= buf_size
      /\ cp \in Nat /\ bp \in Nat /\ bp <= buf_size
      /\ c_buf_p \in Nat /\ c_buf_p <= buf_size + 1
      /\ text \in Nat /\ text <= buf_size
  <2>1. /\ stream \in Seq(Char) /\ Len(stream) \in Nat
        /\ received \in Nat /\ consumed \in Nat
        /\ received <= Len(stream) /\ consumed <= received
    BY DEF Types, InputOK
  <2>2. buf_size \in Nat /\ buf_size >= 1 /\ n_chars \in Nat /\ n_chars <= buf_size
    BY DEF Types, BufferOK
  <2>3. /\ cp \in Nat /\ bp \in Nat /\ bp <= buf_size
        /\ c_buf_p \in Nat /\ c_buf_p <= buf_size + 1
        /\ text \in Nat /\ text <= buf_size
    BY <2>2 DEF Types, PointersOK
  <2> QED BY <2>1, <2>2, <2>3
<1>2. Left \in Nat /\ consumed + Left = received
  BY <1>1 DEF Left
<1>3. ASSUME NEW k \in 1 .. Left
      PROVE  Byte(k) \in Char
  <2>1. consumed + k \in 1 .. Len(stream)
    BY <1>1, <1>2
  <2> QED BY <1>1, <2>1 DEF Byte
<1> QED BY <1>1, <1>2, <1>3

LEMMA BeginTokenKeeps ==
    ASSUME ScanInv, BeginToken
    PROVE  ScanInv'
<1>1. /\ Types /\ Holds([ch_buf EXCEPT ![c_buf_p] = hold], c_buf_p)
      /\ ch_buf' = [ch_buf EXCEPT ![c_buf_p] = hold]
      /\ cp' = c_buf_p /\ bp' = c_buf_p /\ state' = 1 /\ loc' = "match"
      /\ UNCHANGED <<stream, received, buf_size, status, b_n_chars, n_chars, c_buf_p,
                     text, hold, last, consumed, token>>
  BY DEF ScanInv, BeginToken, environment
<1>2. c_buf_p \in 0 .. n_chars
  BY <1>1 DEF Holds
<1>3. Types'
  <2>1. c_buf_p \in 0 .. buf_size /\ c_buf_p \in 0 .. buf_size + 2
    BY <1>1, <1>2, TypeFacts
  <2>2. ch_buf' \in [0 .. buf_size + 1 -> Char \union {Junk}]
    BY <1>1 DEF Types, BufferOK, AutomatonOK
  <2>3. InputOK' /\ BufferOK'
    BY <1>1, <2>2 DEF Types, InputOK, BufferOK
  <2>4. PointersOK'
    BY <1>1, <2>1 DEF Types, PointersOK
  <2>5. AutomatonOK'
    BY <1>1 DEF Types, AutomatonOK
  <2> QED BY <1>1, <2>3, <2>4, <2>5 DEF Types, Places
<1>4. Holds(ch_buf, bp)'
  BY <1>1, SameInput DEF Holds, Left
<1>5. (cp - bp)' = 0 /\ Shape(1, 0)
  BY <1>1, TypeFacts DEF Shape
<1>6. (cp \in bp .. n_chars /\ Shape(state, cp - bp) /\ Remembers(state))'
  BY <1>1, <1>2, <1>5, SameInput, TypeFacts DEF Remembers
<1> QED BY <1>1, <1>3, <1>4, <1>6 DEF ScanInv, Matching, Replaying

\* The characters of the buffer are bytes of the input or end-of-buffer characters.
LEMMA Characters ==
    ASSUME Types, NEW chars, NEW from, Holds(chars, from)
    PROVE  /\ from \in Nat /\ NUL \in Char
           /\ \A i \in from .. n_chars + 1 : chars[i] \in Char
           /\ \A i \in from .. n_chars : chars[i] # NUL =>
                 /\ i < n_chars /\ i - from + 1 \in 1 .. Left
                 /\ chars[i] = Byte(i - from + 1)
<1>1. n_chars \in Nat /\ Left \in Nat /\ \A k \in 1 .. Left : Byte(k) \in Char
  BY TypeFacts
<1>2. /\ from \in Nat /\ from <= n_chars /\ n_chars - from = Left
      /\ \A i \in from .. n_chars - 1 : chars[i] = Byte(i - from + 1)
      /\ chars[n_chars] = NUL /\ chars[n_chars + 1] = NUL
  BY <1>1 DEF Holds
<1>3. NUL \in Char
  BY DEF Char
<1>4. ASSUME NEW i \in from .. n_chars - 1
      PROVE  i - from + 1 \in 1 .. Left /\ chars[i] \in Char
  <2>1. i - from + 1 \in 1 .. Left
    BY <1>1, <1>2
  <2> QED BY <1>1, <1>2, <2>1
<1>5. ASSUME NEW i \in from .. n_chars + 1
      PROVE  chars[i] \in Char
  <2>1. i \in from .. n_chars - 1 \/ i = n_chars \/ i = n_chars + 1
    BY <1>1, <1>2
  <2> QED BY <1>2, <1>3, <1>4, <2>1
<1>6. ASSUME NEW i \in from .. n_chars, chars[i] # NUL
      PROVE  /\ i < n_chars /\ i - from + 1 \in 1 .. Left
             /\ chars[i] = Byte(i - from + 1)
  <2>1. i \in from .. n_chars - 1
    BY <1>1, <1>2, <1>6
  <2> QED BY <1>1, <1>2, <1>4, <2>1
<1> QED BY <1>2, <1>3, <1>5, <1>6

LEMMA AcceptingFacts ==
    ASSUME NEW s \in TextStates \union {3}, NEW p \in Nat,
           NEW before \in [state : 0 .. 12, cpos : Nat]
    PROVE  /\ Accepting(s, p, before) \in [state : 0 .. 12, cpos : Nat]
           /\ s \in {3, 4, 6} => Accepting(s, p, before) = [state |-> s, cpos |-> p]
           /\ s \in {1, 9, 10, 11} => Accepting(s, p, before) = before
<1>1. s \in {3, 4, 6} \/ s \in {1, 9, 10, 11}
  BY DEF TextStates
<1>2. s \in {3, 4, 6} => Accept(s) # 0
  BY Accepts
<1>3. s \in {1, 9, 10, 11} => Accept(s) = 0
  BY Accepts
<1>4. s \in {3, 4, 6} => s \in 0 .. 12
  OBVIOUS
<1> QED BY <1>1, <1>2, <1>3, <1>4 DEF Accepting

\* The state that accepts is remembered as soon as the scanner goes on.
LEMMA RemembersDollar ==
    ASSUME Types, NEW s, NEW t \in Nat, Shape(s, t), Remembers(s),
           s \in {6, 9, 10, 11}, NEW p, p = bp + t
    PROVE  Accepting(s, p, last) = [state |-> 6, cpos |-> bp + 1]
<1>1. p \in Nat /\ last \in [state : 0 .. 12, cpos : Nat] /\ s \in TextStates
  BY TypeFacts DEF Types, AutomatonOK, TextStates
<1>2. CASE s = 6
  <2>1. p = bp + 1
    BY <1>2, ShapeFacts
  <2> QED BY <1>1, <1>2, <2>1, AcceptingFacts
<1>3. CASE s \in {9, 10, 11}
  BY <1>1, <1>3, AcceptingFacts DEF Remembers
<1> QED BY <1>2, <1>3

\* What a match that ends leaves to yy_find_action.
LEMMA FoundOne ==
    ASSUME bp' + 1 \in bp' + 1 .. cp', Left' >= 1, NoPacket',
           \/ /\ state' \in {4, 5, 6, 7, 8} /\ cp' = bp' + 1
              /\ Accept(state') = Rule(Byte(1)')
           \/ /\ Accept(state') = 0 /\ last' = [state |-> 6, cpos |-> bp' + 1]
              /\ Byte(1)' = Dollar
           \/ /\ Accept(state') = 0 /\ last' = [state |-> 4, cpos |-> bp' + 1]
              /\ Byte(1)' = NUL
    PROVE  OneCharacter' /\ (BackUp => last.cpos \in bp + 1 .. cp)'
<1>1. Rule(Dollar) = 4 /\ Rule(NUL) = 4
  BY DEF Rule, Dollar, NUL, Plus, Minus, Newline
<1>2. CASE state' \in {4, 5, 6, 7, 8} /\ cp' = bp' + 1 /\ Accept(state') = Rule(Byte(1)')
  <2>1. ~BackUp'
    BY <1>2, Accepts DEF BackUp
  <2> QED BY <1>2, <2>1 DEF OneCharacter, EndOfToken, Action
<1>3. CASE /\ Accept(state') = 0 /\ last' = [state |-> 6, cpos |-> bp' + 1]
           /\ Byte(1)' = Dollar
  <2>1. BackUp' /\ last'.cpos = bp' + 1 /\ last'.state = 6
    BY <1>3 DEF BackUp
  <2>2. EndOfToken' = bp' + 1 /\ Action' = 4
    BY <2>1, Accepts DEF EndOfToken, Action
  <2>3. Action' = Rule(Byte(1)')
    BY <1>1, <1>3, <2>2
  <2>4. OneCharacter'
    BY <2>2, <2>3 DEF OneCharacter
  <2>5. last'.cpos \in bp' + 1 .. cp'
    BY <2>1
  <2> QED BY <2>4, <2>5
<1>4. CASE /\ Accept(state') = 0 /\ last' = [state |-> 4, cpos |-> bp' + 1]
           /\ Byte(1)' = NUL
  <2>1. BackUp' /\ last'.cpos = bp' + 1 /\ last'.state = 4
    BY <1>4 DEF BackUp
  <2>2. EndOfToken' = bp' + 1 /\ Action' = 4
    BY <2>1, Accepts DEF EndOfToken, Action
  <2>3. Action' = Rule(Byte(1)')
    BY <1>1, <1>4, <2>2
  <2>4. OneCharacter'
    BY <2>2, <2>3 DEF OneCharacter
  <2>5. last'.cpos \in bp' + 1 .. cp'
    BY <2>1
  <2> QED BY <2>4, <2>5
<1> QED BY <1>2, <1>3, <1>4

\* An iteration of the match loop on a character of a text.
LEMMA MatchText ==
    ASSUME Types, Holds(ch_buf, bp), cp \in bp .. n_chars, Shape(state, cp - bp),
           Remembers(state), yy_match
    PROVE  Types' /\ (loc' = "match" => Matching') /\ (loc' = "find" => Finding')
           /\ loc' \in {"match", "find"}
<1>1. /\ last' = Accepting(state, cp, last)
      /\ state' = Goto(state, yy_ec(ch_buf[cp])) /\ cp' = cp + 1
      /\ loc' = IF Continues(state') THEN "match" ELSE "find"
      /\ UNCHANGED <<stream, received, ch_buf, buf_size, status, b_n_chars, n_chars,
                     c_buf_p, text, hold, bp, consumed, token>>
  BY DEF yy_match, environment, buffer
<1>2. PICK t \in Nat : t = cp - bp /\ cp = bp + t
  <2>1. cp - bp \in Nat /\ cp = bp + (cp - bp)
    BY TypeFacts
  <2> QED BY <2>1
<1>3. Shape(state, t) /\ state \in TextStates
  BY <1>2, ShapeFacts
<1>4. /\ consumed \in Nat /\ Len(stream) \in Nat /\ bp \in Nat /\ cp \in Nat
      /\ n_chars \in Nat /\ Left \in Nat /\ n_chars - bp = Left /\ cp <= n_chars
      /\ buf_size \in Nat /\ n_chars <= buf_size
  BY TypeFacts DEF Holds
<1>5. last' \in [state : 0 .. 12, cpos : Nat]
  BY <1>1, <1>3, <1>4, AcceptingFacts DEF Types, AutomatonOK
<1>6. Holds(ch_buf, bp)' /\ Left' = Left
  BY <1>1, SameInput DEF Holds, Left
<1>7. ASSUME state' \in 1 .. 13
      PROVE  Types'
  <2>1. InputOK' /\ BufferOK'
    BY <1>1 DEF Types, InputOK, BufferOK
  <2>2. cp + 1 \in 0 .. buf_size + 2
    BY <1>4
  <2>3. PointersOK'
    BY <1>1, <2>2 DEF Types, PointersOK
  <2>4. state' \in 0 .. 14
    BY <1>7
  <2>5. AutomatonOK'
    BY <1>1, <1>5, <2>4 DEF Types, AutomatonOK
  <2>6. loc' \in Places
    BY <1>1 DEF Places
  <2> QED BY <2>1, <2>3, <2>5, <2>6 DEF Types
<1>8. CASE ch_buf[cp] = NUL
  <2>1. state' = 3
    <3>1. NUL \in Char
      BY DEF Char
    <3> QED BY <1>1, <1>3, <1>8, <3>1, OnCharacter DEF TextStates
  <2>2. state' \in 1 .. 13 /\ loc' = "match"
    BY <1>1, <2>1, Stops
  <2>3. cp' - 1 = cp /\ bp' = bp /\ cp - bp = t /\ Partial(t)
    BY <1>1, <1>2, <1>3, <1>4 DEF Partial
  <2>4. NulAfter(ch_buf, bp, cp - 1)'
    BY <1>1, <1>8, <2>3, SameInput DEF NulAfter
  <2> QED BY <1>6, <1>7, <2>1, <2>2, <2>4 DEF Matching
<1>9. CASE ch_buf[cp] # NUL
  <2>1. /\ cp < n_chars /\ t + 1 \in 1 .. Left /\ ch_buf[cp] = Byte(t + 1)
        /\ ch_buf[cp] \in Char
    <3>1. cp \in bp .. n_chars + 1
      BY <1>4
    <3> QED BY <1>2, <1>9, <3>1, Characters
  <2>2. PICK n : n = state' /\ n = Goto(state, yy_ec(Byte(t + 1)))
    BY <1>1, <2>1
  <2>3. Left' >= 1 /\ bp' + 1 \in bp' + 1 .. cp'
    BY <1>1, <1>2, <1>4, <1>6, <2>1
  <2>4. CASE n \in {6, 9, 10, 11} /\ Shape(n, t + 1)
    <3>1. state' \in 1 .. 13 /\ loc' = "match"
      BY <1>1, <2>2, <2>4, Stops
    <3>2. n \in {9, 10, 11} => state \in {6, 9, 10}
      BY <1>3, <1>9, <2>1, <2>2, OnCharacter DEF TextStates
    <3>3. Remembers(state)'
      BY <1>1, <1>2, <1>3, <2>2, <3>2, RemembersDollar DEF Remembers
    <3>4. cp' \in bp' .. n_chars' /\ cp' - bp' = t + 1
      BY <1>1, <1>2, <1>4, <2>1
    <3>5. Shape(state, cp - bp)'
      BY <1>1, <2>2, <2>4, <3>4, SameInput
    <3> QED BY <1>6, <1>7, <3>1, <3>3, <3>4, <3>5 DEF Matching
  <2>5. CASE /\ n \in {4, 5, 7, 8} /\ t = 0
             /\ Accept(n) = Rule(Byte(1)) /\ Byte(1) # Dollar
    <3>1. state' \in 1 .. 13 /\ loc' = "find"
      BY <1>1, <2>2, <2>5, Stops
    <3>2. NoPacket'
      BY <1>1, <1>4, <2>5, NoDollar, SameInput
    <3>3. cp' = bp' + 1 /\ Accept(state') = Rule(Byte(1)') /\ state' \in {4, 5, 6, 7, 8}
      BY <1>1, <1>2, <1>4, <2>2, <2>5, SameInput
    <3>4. OneCharacter' /\ (BackUp => last.cpos \in bp + 1 .. cp)'
      BY <2>3, <3>2, <3>3, FoundOne
    <3> QED BY <1>6, <1>7, <3>1, <3>4 DEF Finding
  <2>6. CASE n = 12 /\ t >= 3 /\ Packet(consumed + 1, consumed + (t - 1))
    <3>1. state' \in 1 .. 13 /\ loc' = "find" /\ ~BackUp' /\ Action' = 3 /\ EndOfToken' = cp'
      BY <1>1, <2>2, <2>6, Stops, Accepts DEF BackUp, Action, EndOfToken
    <3>2. cp' \in bp' + 4 .. n_chars' /\ consumed' + (cp' - bp') - 2 = consumed + (t - 1)
      BY <1>1, <1>2, <1>4, <2>1, <2>6
    <3>3. Packet(consumed + 1, consumed + (EndOfToken - bp) - 2)'
      BY <1>1, <2>6, <3>1, <3>2, SameInput
    <3> QED BY <1>6, <1>7, <3>1, <3>2, <3>3 DEF Finding, WholePacket
  <2>7. CASE n = 13 /\ state \in {6, 9, 10, 11} /\ NoPacket /\ Byte(1) = Dollar
    <3>1. state' \in 1 .. 13 /\ loc' = "find" /\ Accept(state') = 0
      BY <1>1, <2>2, <2>7, Stops, Accepts
    <3>2. last' = [state |-> 6, cpos |-> bp' + 1]
      BY <1>1, <1>2, <1>3, <2>7, RemembersDollar
    <3>3. NoPacket' /\ Byte(1)' = Dollar
      BY <1>1, <2>7, SameInput
    <3>4. OneCharacter' /\ (BackUp => last.cpos \in bp + 1 .. cp)'
      BY <2>3, <3>1, <3>2, <3>3, FoundOne
    <3> QED BY <1>6, <1>7, <3>1, <3>4 DEF Finding
  <2>8. CASE n = 13 /\ state = 4 /\ NoPacket
    <3>1. state' \in 1 .. 13 /\ loc' = "find" /\ Accept(state') = 0
      BY <1>1, <2>2, <2>8, Stops, Accepts
    <3>2. t = 1 /\ Byte(1) = NUL
      BY <1>3, <2>8, ShapeFacts
    <3>3. last' = [state |-> 4, cpos |-> bp' + 1]
      BY <1>1, <1>2, <1>3, <1>4, <2>8, <3>2, AcceptingFacts DEF Types, AutomatonOK
    <3>4. NoPacket' /\ Byte(1)' = NUL
      BY <1>1, <2>8, <3>2, SameInput
    <3>5. OneCharacter' /\ (BackUp => last.cpos \in bp + 1 .. cp)'
      BY <2>3, <3>1, <3>3, <3>4, FoundOne
    <3> QED BY <1>6, <1>7, <3>1, <3>5 DEF Finding
  <2> QED BY <1>3, <1>4, <1>9, <2>1, <2>2, <2>4, <2>5, <2>6, <2>7, <2>8, TextGoesOn
<1> QED BY <1>8, <1>9

\* The iteration after an end-of-buffer character, or a NUL: the automaton jams
\* and backs up to it.
LEMMA MatchNul ==
    ASSUME Types, Holds(ch_buf, bp), state = 3, NulAfter(ch_buf, bp, cp - 1), yy_match
    PROVE  Types' /\ Finding' /\ loc' = "find"
<1>1. /\ last' = Accepting(state, cp, last)
      /\ state' = Goto(state, yy_ec(ch_buf[cp])) /\ cp' = cp + 1
      /\ loc' = IF Continues(state') THEN "match" ELSE "find"
      /\ UNCHANGED <<stream, received, ch_buf, buf_size, status, b_n_chars, n_chars,
                     c_buf_p, text, hold, bp, consumed, token>>
  BY DEF yy_match, environment, buffer
<1>2. /\ bp \in Nat /\ cp \in Nat /\ n_chars \in Nat /\ buf_size \in Nat
      /\ n_chars <= buf_size
  BY TypeFacts
<1>3. cp - 1 \in bp .. n_chars
  BY DEF NulAfter
<1>4. cp \in bp .. n_chars + 1 /\ cp \in bp + 1 .. cp + 1 /\ cp + 1 \in 0 .. buf_size + 2
  BY <1>2, <1>3
<1>5. state' = 13
  <2>1. ch_buf[cp] \in Char
    BY <1>4, Characters
  <2> QED BY <1>1, <2>1, OnCharacter
<1>6. loc' = "find"
  BY <1>1, <1>5, Stops
<1>7. last' = [state |-> 3, cpos |-> cp] /\ last' \in [state : 0 .. 12, cpos : Nat]
  BY <1>1, <1>2, AcceptingFacts DEF Types, AutomatonOK
<1>8. Types'
  <2>1. InputOK' /\ BufferOK'
    BY <1>1 DEF Types, InputOK, BufferOK
  <2>2. PointersOK'
    BY <1>1, <1>4 DEF Types, PointersOK
  <2>3. AutomatonOK'
    BY <1>1, <1>5, <1>7 DEF Types, AutomatonOK
  <2>4. loc' \in Places
    BY <1>6 DEF Places
  <2> QED BY <2>1, <2>2, <2>3, <2>4 DEF Types
<1>9. Holds(ch_buf, bp)'
  BY <1>1, SameInput DEF Holds, Left
<1>10. BackUp' /\ EndOfToken' = cp /\ Action' = YY_END_OF_BUFFER
  BY <1>5, <1>7, Accepts DEF BackUp, EndOfToken, Action, YY_END_OF_BUFFER
<1>11. NulAfter(ch_buf, bp, EndOfToken - 1)'
  BY <1>1, <1>10, SameInput DEF NulAfter
<1>12. last'.cpos \in bp' + 1 .. cp'
  BY <1>1, <1>4, <1>7
<1> QED BY <1>6, <1>8, <1>9, <1>10, <1>11, <1>12 DEF Finding, EndOfChars

LEMMA MatchKeeps ==
    ASSUME ScanInv, yy_match
    PROVE  ScanInv'
<1>1. Types /\ Matching
  BY DEF ScanInv, yy_match
<1>2. /\ Types' /\ (loc' = "match" => Matching') /\ (loc' = "find" => Finding')
      /\ loc' \in {"match", "find"}
  BY <1>1, MatchText, MatchNul DEF Matching
<1> QED BY <1>2 DEF ScanInv, Replaying

\* A text that the buffer holds may be moved on: the tokens before it are gone.
LEMMA HoldsAfter ==
    ASSUME Types, NEW chars, NEW from, Holds(chars, from),
           NEW end \in from .. n_chars, NEW d, d = end - from,
           n_chars' = n_chars, stream' = stream, received' = received,
           consumed' = consumed + d
    PROVE  Holds(chars, end)' /\ consumed' \in 0 .. received
<1>1. /\ n_chars \in Nat /\ Left \in Nat /\ consumed \in Nat /\ received \in Nat
      /\ consumed <= received /\ Left = received - consumed
  BY TypeFacts DEF Left
<1>2. /\ from \in Nat /\ from <= n_chars /\ n_chars - from = Left
      /\ \A i \in from .. n_chars - 1 : chars[i] = Byte(i - from + 1)
      /\ chars[n_chars] = NUL /\ chars[n_chars + 1] = NUL
  BY <1>1 DEF Holds
<1>3. end \in Nat /\ d \in Nat /\ end = from + d /\ end <= n_chars
  BY <1>1, <1>2
<1>4. Left' = Left - d /\ n_chars - end = Left'
  BY <1>1, <1>2, <1>3 DEF Left
<1>5. ASSUME NEW i \in end .. n_chars - 1
      PROVE  chars[i] = Byte(i - end + 1)'
  <2>1. i \in from .. n_chars - 1
    BY <1>1, <1>2, <1>3
  <2>2. chars[i] = stream[consumed + (i - from + 1)]
    BY <1>2, <2>1 DEF Byte
  <2>3. consumed + (i - from + 1) = (consumed + d) + (i - end + 1)
    BY <1>1, <1>2, <1>3
  <2> QED BY <2>2, <2>3 DEF Byte
<1>6. end \in 0 .. n_chars
  BY <1>1, <1>3
<1>7. Holds(chars, end)'
  BY <1>2, <1>4, <1>5, <1>6 DEF Holds
<1>8. consumed + d \in 0 .. received
  BY <1>1, <1>2, <1>3
<1> QED BY <1>7, <1>8

\* Where yy_find_action puts its end-of-string, and what it keeps for it.
LEMMA FindFacts ==
    ASSUME Types, Finding, yy_find_action, NEW end, end = EndOfToken
    PROVE  /\ end \in bp + 1 .. n_chars + 1
           /\ IsRule => end <= n_chars
           /\ text' = bp /\ hold' = ch_buf[end] /\ hold' \in Char
           /\ c_buf_p' = end /\ cp' = end
           /\ ch_buf' = [ch_buf EXCEPT ![end] = NUL]
           /\ ch_buf' \in [0 .. buf_size + 1 -> Char \union {Junk}]
           /\ [ch_buf' EXCEPT ![end] = hold'] = ch_buf
           /\ IsRule <=> ~EndOfChars
           /\ IsRule <=> Action # YY_END_OF_BUFFER
           /\ OneCharacter => Action \in {1, 2, 4, 5}
<1>1. /\ text' = bp /\ hold' = ch_buf[end] /\ c_buf_p' = end /\ cp' = end
      /\ ch_buf' = [ch_buf EXCEPT ![end] = NUL]
  BY DEF yy_find_action, YY_DO_BEFORE_ACTION
<1>2. /\ bp \in Nat /\ n_chars \in Nat /\ Left \in Nat /\ buf_size \in Nat
      /\ n_chars <= buf_size /\ n_chars - bp = Left /\ bp <= n_chars
  BY TypeFacts DEF Finding, Holds
<1>3. OneCharacter => /\ end = bp + 1 /\ end <= n_chars /\ Action \in {1, 2, 4, 5}
                      /\ Action # 6
  BY <1>2 DEF OneCharacter, Rule
<1>4. WholePacket => end \in bp + 4 .. n_chars /\ Action = 3 /\ Action # 6
  BY DEF WholePacket
<1>5. EndOfChars => end - 1 \in bp .. n_chars /\ Action = 6
  BY DEF EndOfChars, NulAfter, YY_END_OF_BUFFER
<1>6. OneCharacter \/ WholePacket \/ EndOfChars
  BY DEF Finding
<1>7. end \in bp + 1 .. n_chars + 1
  <2>1. CASE OneCharacter
    BY <1>2, <1>3, <2>1
  <2>2. CASE WholePacket
    BY <1>2, <1>4, <2>2
  <2>3. CASE EndOfChars
    <3>1. end - 1 \in bp .. n_chars /\ end \in Int
      <4>1. end \in Int
        BY DEF EndOfToken, Types, AutomatonOK, PointersOK
      <4> QED BY <1>5, <2>3, <4>1
    <3> QED BY <1>2, <3>1
  <2> QED BY <1>6, <2>1, <2>2, <2>3
<1>8. (IsRule <=> ~EndOfChars) /\ (IsRule <=> Action # YY_END_OF_BUFFER)
      /\ (IsRule <=> OneCharacter \/ WholePacket)
  <2>1. EndOfChars => Action = 6 /\ ~IsRule
    BY <1>5 DEF IsRule
  <2>2. OneCharacter \/ WholePacket => Action # 6 /\ IsRule
    BY <1>3, <1>4 DEF IsRule
  <2> QED BY <1>6, <2>1, <2>2 DEF YY_END_OF_BUFFER
<1>9. IsRule => end <= n_chars
  <2>1. WholePacket => end <= n_chars
    BY <1>2, <1>4
  <2> QED BY <1>3, <1>8, <2>1
<1>10. ch_buf \in [0 .. buf_size + 1 -> Char \union {Junk}] /\ end \in 0 .. buf_size + 1
  BY <1>2, <1>7 DEF Types, BufferOK
<1>11. ch_buf[end] \in Char
  <2>1. end \in bp .. n_chars + 1
    BY <1>2, <1>7
  <2> QED BY <2>1, Characters DEF Finding
<1>12. NUL \in Char
  BY DEF Char
<1>13. ch_buf' \in [0 .. buf_size + 1 -> Char \union {Junk}]
  BY <1>1, <1>10, <1>12
<1>14. [ch_buf' EXCEPT ![end] = hold'] = ch_buf
  BY <1>1, <1>10
<1> QED BY <1>1, <1>3, <1>7, <1>8, <1>9, <1>11, <1>13, <1>14

LEMMA FindKeeps ==
    ASSUME ScanInv, yy_find_action
    PROVE  ScanInv'
<1>1. Types /\ Finding
  BY DEF ScanInv, yy_find_action
<1>2. PICK end : end = EndOfToken
  OBVIOUS
<1>3. /\ end \in bp + 1 .. n_chars + 1
      /\ IsRule => end <= n_chars
      /\ text' = bp /\ hold' = ch_buf[end] /\ hold' \in Char
      /\ c_buf_p' = end /\ cp' = end
      /\ ch_buf' \in [0 .. buf_size + 1 -> Char \union {Junk}]
      /\ [ch_buf' EXCEPT ![end] = hold'] = ch_buf
      /\ IsRule <=> ~EndOfChars
      /\ IsRule <=> Action # YY_END_OF_BUFFER
  BY <1>1, <1>2, FindFacts
<1>4. /\ UNCHANGED <<stream, received, buf_size, status, b_n_chars, n_chars, last,
                     state, bp>>
      /\ consumed' = IF IsRule THEN consumed + (end - bp) ELSE consumed
      /\ loc' = IF IsRule THEN "start" ELSE "end_of_buffer"
  BY <1>2, <1>3 DEF yy_find_action, environment
<1>5. /\ bp \in Nat /\ n_chars \in Nat /\ buf_size \in Nat /\ n_chars <= buf_size
      /\ consumed \in Nat /\ bp <= buf_size
  BY <1>1, TypeFacts
<1>6. end \in 0 .. buf_size + 1 /\ end \in 0 .. buf_size + 2 /\ bp \in 0 .. buf_size
  BY <1>3, <1>5
<1>7. BufferOK' /\ PointersOK' /\ AutomatonOK'
  <2>1. BufferOK'
    BY <1>1, <1>3, <1>4 DEF Types, BufferOK
  <2>2. PointersOK'
    BY <1>3, <1>4, <1>6 DEF PointersOK
  <2>3. AutomatonOK'
    BY <1>1, <1>3, <1>4 DEF Types, AutomatonOK
  <2> QED BY <2>1, <2>2, <2>3
<1>8. CASE IsRule
  <2>1. end \in bp .. n_chars /\ consumed' = consumed + (end - bp) /\ loc' = "start"
    BY <1>3, <1>4, <1>5, <1>8
  <2>2. Holds(ch_buf, bp)
    BY <1>1 DEF Finding
  <2>3. PICK chars : chars = ch_buf
    OBVIOUS
  <2>4. Holds(chars, end)' /\ consumed' \in 0 .. received
    BY <1>1, <1>4, <2>1, <2>2, <2>3, HoldsAfter
  <2>5. [ch_buf' EXCEPT ![c_buf_p'] = hold'] = chars /\ c_buf_p' = end
    BY <1>3, <2>3
  <2>6. Holds([ch_buf EXCEPT ![c_buf_p] = hold], c_buf_p)'
    BY <2>4, <2>5
  <2>7. InputOK'
    BY <1>1, <1>4, <2>4 DEF Types, InputOK
  <2>8. loc' \in Places
    BY <2>1 DEF Places
  <2> QED BY <1>7, <2>1, <2>6, <2>7, <2>8 DEF ScanInv, Types, Replaying
<1>9. CASE ~IsRule
  <2>1. loc' = "end_of_buffer" /\ UNCHANGED <<stream, consumed>>
    BY <1>4, <1>9
  <2>2. Restored' = ch_buf
    BY <1>3 DEF Restored
  <2>3. Holds(ch_buf, bp) /\ NulAfter(ch_buf, bp, end - 1)
    BY <1>1, <1>2, <1>3, <1>9 DEF Finding, EndOfChars
  <2>4. Holds(Restored, text)'
    BY <1>3, <1>4, <2>1, <2>2, <2>3, SameInput DEF Holds, Left
  <2>5. NulAfter(Restored, text, c_buf_p - 1)'
    BY <1>3, <1>4, <2>1, <2>2, <2>3, SameInput DEF NulAfter
  <2>6. AtEndOfBuffer'
    BY <1>3, <2>4, <2>5 DEF AtEndOfBuffer
  <2>7. InputOK'
    BY <1>1, <1>4, <2>1 DEF Types, InputOK
  <2>8. loc' \in Places
    BY <2>1 DEF Places
  <2> QED BY <1>7, <2>1, <2>6, <2>7, <2>8 DEF ScanInv, Types, Replaying
<1> QED BY <1>8, <1>9

\* The end of the buffer: what the scanner knows there.
LEMMA EndFacts ==
    ASSUME Types, AtEndOfBuffer
    PROVE  /\ CharsNow = n_chars
           /\ StatusNow \in {"normal", "eof_pending"}
           /\ StatusNow = "eof_pending" => status = "eof_pending"
           /\ number_to_move \in Nat /\ number_to_move <= Left
           /\ Partial(number_to_move)
           /\ text + number_to_move = c_buf_p - 1 /\ c_buf_p - 1 \in text .. n_chars
           /\ c_buf_p <= n_chars + 1
           /\ Restored \in [0 .. buf_size + 1 -> Char \union {Junk}]
           /\ Restored[c_buf_p - 1] = NUL
<1>1. /\ text \in Nat /\ c_buf_p \in Nat /\ n_chars \in Nat /\ Left \in Nat
      /\ c_buf_p <= buf_size + 1 /\ buf_size \in Nat
  BY TypeFacts
<1>2. CharsNow = n_chars /\ StatusNow \in {"normal", "eof_pending"}
      /\ (StatusNow = "eof_pending" => status = "eof_pending")
  BY DEF Types, BufferOK, CharsNow, StatusNow
<1>3. /\ c_buf_p - 1 \in text .. n_chars /\ Partial((c_buf_p - 1) - text)
      /\ Restored[c_buf_p - 1] = NUL /\ n_chars - text = Left
  BY DEF AtEndOfBuffer, NulAfter, Holds
<1>4. PICK m \in Nat : /\ m = number_to_move /\ m = (c_buf_p - 1) - text
                       /\ text + m = c_buf_p - 1 /\ m <= Left
  <2>1. (c_buf_p - 1) - text \in Nat /\ (c_buf_p - 1) - text = c_buf_p - text - 1
    BY <1>1, <1>3
  <2>2. (c_buf_p - 1) - text <= Left /\ text + ((c_buf_p - 1) - text) = c_buf_p - 1
    BY <1>1, <1>3
  <2> QED BY <2>1, <2>2 DEF number_to_move
<1>5. c_buf_p <= n_chars + 1
  BY <1>1, <1>3
<1>6. Restored \in [0 .. buf_size + 1 -> Char \union {Junk}]
  BY DEF Restored, Types, BufferOK, AutomatonOK
<1> QED BY <1>2, <1>3, <1>4, <1>5, <1>6

LEMMA NulInTextKeeps ==
    ASSUME ScanInv, NulInText
    PROVE  ScanInv'
<1>1. Types /\ AtEndOfBuffer
  BY DEF ScanInv, NulInText
<1>2. /\ c_buf_p' = text + number_to_move /\ ch_buf' = Restored
      /\ n_chars' = CharsNow /\ status' = StatusNow
      /\ cp' = text /\ bp' = text /\ state' = 1 /\ loc' = "replay_NUL"
      /\ UNCHANGED <<stream, received, buf_size, b_n_chars, text, hold, last, consumed>>
      /\ c_buf_p <= CharsNow
  BY DEF NulInText, environment, ReallyNul
<1>3. /\ c_buf_p' = c_buf_p - 1 /\ c_buf_p - 1 \in text .. n_chars
      /\ n_chars' = n_chars /\ c_buf_p <= n_chars
  BY <1>1, <1>2, EndFacts
<1>4. /\ text \in Nat /\ c_buf_p \in Nat /\ n_chars \in Nat /\ buf_size \in Nat
      /\ c_buf_p <= buf_size + 1 /\ text <= buf_size
  BY <1>1, TypeFacts
<1>5. Types'
  <2>1. InputOK'
    BY <1>1, <1>2, EndFacts DEF Types, InputOK
  <2>2. BufferOK'
    BY <1>1, <1>2, <1>3, EndFacts DEF Types, BufferOK
  <2>3. c_buf_p - 1 \in 0 .. buf_size + 1 /\ text \in 0 .. buf_size + 2
    BY <1>3, <1>4
  <2>4. PointersOK'
    BY <1>1, <1>2, <1>3, <2>3 DEF Types, PointersOK
  <2>5. AutomatonOK'
    BY <1>1, <1>2 DEF Types, AutomatonOK
  <2> QED BY <1>2, <2>1, <2>2, <2>4, <2>5 DEF Types, Places
<1>6. Holds(ch_buf, text)'
  BY <1>1, <1>2, <1>3, SameInput DEF AtEndOfBuffer, Holds, Left
<1>7. c_buf_p' \in text' .. n_chars' /\ c_buf_p' < n_chars'
  BY <1>2, <1>3, <1>4
<1>8. ch_buf'[c_buf_p'] = NUL /\ c_buf_p' - text' = number_to_move
  <2>1. number_to_move \in Nat /\ c_buf_p' = text + number_to_move
    BY <1>1, <1>2, EndFacts
  <2> QED BY <1>1, <1>2, <1>3, <1>4, <2>1, EndFacts
<1>9. Partial(c_buf_p - text)'
  BY <1>1, <1>2, <1>8, EndFacts, SameInput
<1>10. cp' \in text' .. c_buf_p' /\ cp' - text' = 0
  BY <1>2, <1>3, <1>4
<1>11. Shape(state, cp - text)'
  BY <1>2, <1>10 DEF Shape
<1>12. Remembers(state)'
  BY <1>2 DEF Remembers
<1>13. Replayed'
  BY <1>2, <1>6, <1>7, <1>8, <1>9, <1>10, <1>11, <1>12 DEF Replayed
<1> QED BY <1>2, <1>5, <1>13 DEF ScanInv

LEMMA PreviousStateKeeps ==
    ASSUME ScanInv, yy_get_previous_state
    PROVE  ScanInv'
<1>1. Types /\ Replayed /\ Replaying
  BY DEF ScanInv, yy_get_previous_state
<1>2. /\ cp < c_buf_p /\ last' = Accepting(state, cp, last)
      /\ state' = Goto(state, TextClass(ch_buf[cp])) /\ cp' = cp + 1
      /\ UNCHANGED <<stream, received, ch_buf, buf_size, status, b_n_chars, n_chars,
                     c_buf_p, text, hold, loc, bp, consumed>>
  BY DEF yy_get_previous_state, environment, buffer
<1>3. /\ text \in Nat /\ c_buf_p \in Nat /\ n_chars \in Nat /\ cp \in Nat
      /\ buf_size \in Nat /\ n_chars <= buf_size /\ Left \in Nat
      /\ consumed \in Nat /\ Len(stream) \in Nat
  BY <1>1, TypeFacts
<1>4. /\ Holds(ch_buf, text) /\ bp = text /\ c_buf_p \in text .. n_chars
      /\ cp \in text .. c_buf_p /\ n_chars - text = Left
  BY <1>1 DEF Replayed, Holds
<1>5. PICK t \in Nat : /\ t = cp - text /\ cp = text + t /\ t + 1 = (cp + 1) - text
                       /\ t + 1 \in 1 .. Left /\ cp \in text .. n_chars - 1
  <2>1. /\ cp - text \in Nat /\ cp = text + (cp - text)
        /\ (cp - text) + 1 = (cp + 1) - text
        /\ (cp - text) + 1 \in 1 .. Left /\ cp \in text .. n_chars - 1
    BY <1>2, <1>3, <1>4
  <2> QED BY <2>1
<1>6. Shape(state, t) /\ Remembers(state) /\ state \in TextStates
  BY <1>1, <1>5, ShapeFacts DEF Replayed
<1>7. ch_buf[cp] = Byte(t + 1) /\ Byte(t + 1) \in Char
  <2>1. ch_buf[cp] = Byte(cp - text + 1)
    BY <1>4, <1>5 DEF Holds
  <2> QED BY <1>1, <1>5, <2>1, TypeFacts
<1>8. PICK m \in Nat : m = c_buf_p - text /\ t < m
  <2>1. c_buf_p - text \in Nat /\ t < c_buf_p - text
    BY <1>2, <1>3, <1>4, <1>5
  <2> QED BY <2>1
<1>9. PICK u \in TextStates : Shape(u, m)
  BY <1>1, <1>8 DEF Replayed, Partial
<1>10. Shape(state', t + 1)
  BY <1>2, <1>3, <1>6, <1>7, <1>8, <1>9, Replays
<1>11. state' \in TextStates
  <2>1. t + 1 \in Nat
    OBVIOUS
  <2> QED BY <1>10, <2>1, ShapeFacts
<1>12. Remembers(state)'
  <2>1. ASSUME state' \in {9, 10, 11} PROVE state \in {6, 9, 10, 11}
    <3>1. t + 1 >= 2 /\ t + 1 \in Nat
      BY <1>10, <2>1, ShapeFacts
    <3>2. Byte(1) = Dollar
      BY <1>10, <2>1, <3>1, ShapeFacts
    <3>3. state \notin {1, 4}
      BY <1>6, <3>1, <3>2, ShapeFacts, AreDifferent DEF Different
    <3> QED BY <1>6, <3>3 DEF TextStates
  <2>2. ASSUME state' \in {9, 10, 11}
        PROVE  last' = [state |-> 6, cpos |-> bp' + 1]
    <3>1. cp = bp + t
      BY <1>4, <1>5
    <3> QED BY <1>1, <1>2, <1>6, <2>1, <2>2, <3>1, RemembersDollar
  <2> QED BY <2>2 DEF Remembers
<1>13. Types'
  <2>1. InputOK' /\ BufferOK'
    BY <1>1, <1>2 DEF Types, InputOK, BufferOK
  <2>2. cp + 1 \in 0 .. buf_size + 2
    BY <1>3, <1>5
  <2>3. PointersOK'
    BY <1>1, <1>2, <2>2 DEF Types, PointersOK
  <2>4. last' \in [state : 0 .. 12, cpos : Nat]
    BY <1>1, <1>2, <1>3, <1>6, AcceptingFacts DEF Types, AutomatonOK
  <2>5. AutomatonOK'
    BY <1>1, <1>2, <1>11, <2>4 DEF Types, AutomatonOK, TextStates
  <2> QED BY <1>1, <1>2, <2>1, <2>3, <2>5 DEF Types
<1>14. Holds(ch_buf, text)'
  BY <1>2, <1>4, SameInput DEF Holds, Left
<1>15. cp' \in text' .. c_buf_p' /\ cp' - text' = t + 1
  BY <1>2, <1>3, <1>4, <1>5
<1>16. Shape(state, cp - text)'
  BY <1>2, <1>10, <1>15, SameInput
<1>17. Replayed'
  <2>1. Partial(c_buf_p - text)' /\ bp' = text' /\ c_buf_p' \in text' .. n_chars'
    BY <1>1, <1>2, SameInput DEF Replayed
  <2>2. /\ loc' = "replay_NUL" => c_buf_p' < n_chars' /\ ch_buf'[c_buf_p'] = NUL
        /\ loc' = "replay_find" =>
              c_buf_p' = n_chars' /\ c_buf_p' > text' /\ received' = Len(stream')
    BY <1>1, <1>2 DEF Replayed
  <2> QED BY <1>12, <1>14, <1>15, <1>16, <2>1, <2>2 DEF Replayed
<1>18. loc' \notin {"start", "match", "find", "end_of_buffer", "read"}
  BY <1>1, <1>2 DEF Replaying
<1> QED BY <1>13, <1>17, <1>18 DEF ScanInv

\* What the scanner knows when a text has been scanned again.
LEMMA ReplayFacts ==
    ASSUME Types, Replayed, cp = c_buf_p, NEW t, t = cp - text
    PROVE  /\ t \in Nat /\ cp = bp + t /\ bp = text /\ t <= Left /\ bp \in Nat
           /\ cp \in Nat /\ n_chars \in Nat /\ cp <= n_chars /\ n_chars - bp = Left
           /\ Shape(state, t) /\ state \in TextStates /\ Remembers(state)
           /\ Holds(ch_buf, bp) /\ consumed \in Nat /\ Len(stream) \in Nat
           /\ Left \in Nat /\ n_chars <= buf_size /\ buf_size \in Nat
<1>1. /\ text \in Nat /\ n_chars \in Nat /\ cp \in Nat /\ Left \in Nat
      /\ consumed \in Nat /\ Len(stream) \in Nat
      /\ n_chars <= buf_size /\ buf_size \in Nat
  BY TypeFacts
<1>2. /\ Holds(ch_buf, text) /\ bp = text /\ cp \in text .. n_chars
      /\ Shape(state, t) /\ Remembers(state) /\ n_chars - text = Left
  BY DEF Replayed, Holds
<1>3. t \in Nat /\ cp = text + t /\ t <= Left /\ cp <= n_chars
  BY <1>1, <1>2
<1> QED BY <1>1, <1>2, <1>3, ShapeFacts

LEMMA TakeNulKeeps ==
    ASSUME ScanInv, TakeNul
    PROVE  ScanInv'
<1>1. Types /\ Replayed /\ loc = "replay_NUL" /\ cp = c_buf_p
  BY DEF ScanInv, TakeNul, Replaying
<1>2. PICK t : t = cp - text
  OBVIOUS
<1>3. /\ t \in Nat /\ cp = bp + t /\ bp = text /\ t <= Left /\ bp \in Nat
      /\ cp \in Nat /\ n_chars \in Nat /\ n_chars - bp = Left
      /\ Shape(state, t) /\ state \in TextStates /\ Remembers(state)
      /\ Holds(ch_buf, bp) /\ consumed \in Nat /\ Len(stream) \in Nat
      /\ Left \in Nat /\ n_chars <= buf_size /\ buf_size \in Nat
  BY <1>1, <1>2, ReplayFacts
<1>4. cp < n_chars /\ ch_buf[cp] = NUL
  BY <1>1 DEF Replayed
<1>5. Byte(t + 1) = NUL /\ t + 1 <= Left
  <2>1. cp \in bp .. n_chars - 1 /\ cp - bp + 1 = t + 1 /\ t + 1 <= Left
    BY <1>3, <1>4
  <2> QED BY <1>3, <1>4, <2>1 DEF Holds
<1>6. PICK n : n = Goto(state, 1)
  OBVIOUS
<1>7. /\ last' = Accepting(state, cp, last) /\ cp' = c_buf_p'
      /\ UNCHANGED <<stream, received, ch_buf, buf_size, status, b_n_chars, n_chars,
                     text, hold, bp, consumed>>
  BY DEF TakeNul, environment, buffer
<1>8. /\ n = 13 => state' = state /\ c_buf_p' = cp /\ loc' = "find"
      /\ n \in {4, 9} => state' = n /\ c_buf_p' = cp + 1 /\ loc' = "match"
  BY <1>1, <1>6 DEF TakeNul, yy_try_NUL_trans, JamState
<1>9. last' \in [state : 0 .. 12, cpos : Nat]
  BY <1>1, <1>3, <1>7, AcceptingFacts DEF Types, AutomatonOK
<1>10. Holds(ch_buf, bp)' /\ Left' = Left
  BY <1>3, <1>7, SameInput DEF Holds, Left
<1>11. ASSUME state' \in 1 .. 13, c_buf_p' \in {cp, cp + 1}, loc' \in {"match", "find"}
       PROVE  Types'
  <2>1. InputOK' /\ BufferOK'
    BY <1>1, <1>7 DEF Types, InputOK, BufferOK
  <2>2. c_buf_p' \in 0 .. buf_size + 1 /\ c_buf_p' \in 0 .. buf_size + 2
    BY <1>3, <1>4, <1>11
  <2>3. PointersOK'
    BY <1>1, <1>7, <2>2 DEF Types, PointersOK
  <2>4. state' \in 0 .. 14
    BY <1>11
  <2>5. AutomatonOK'
    BY <1>1, <1>7, <1>9, <2>4 DEF Types, AutomatonOK
  <2> QED BY <1>11, <2>1, <2>3, <2>5 DEF Types, Places
<1>12. CASE n \in {4, 9} /\ Shape(n, t + 1)
  <2>1. state' = n /\ cp' = cp + 1 /\ loc' = "match"
    BY <1>7, <1>8, <1>12
  <2>2. Types'
    BY <1>7, <1>8, <1>11, <1>12
  <2>3. cp' \in bp' .. n_chars' /\ cp' - bp' = t + 1
    BY <1>3, <1>4, <1>7, <2>1
  <2>4. Shape(state, cp - bp)'
    BY <1>7, <1>12, <2>1, <2>3, SameInput
  <2>5. n = 9 => state \in {6, 9}
    <3>1. /\ Goto(1, 1) = 4 /\ Goto(4, 1) = 13 /\ Goto(10, 1) = 13
          /\ Goto(11, 1) = 13
      BY Transitions
    <3> QED BY <1>3, <1>6, <3>1 DEF TextStates
  <2>6. n = 9 => last' = [state |-> 6, cpos |-> bp' + 1]
    BY <1>1, <1>3, <1>7, <2>5, RemembersDollar
  <2>7. Remembers(state)'
    BY <1>12, <2>1, <2>6 DEF Remembers
  <2>8. Matching'
    BY <1>10, <2>3, <2>4, <2>7 DEF Matching
  <2> QED BY <2>1, <2>2, <2>8 DEF ScanInv, Replaying
<1>13. ASSUME n = 13, NoPacket, state \in {4, 10, 11},
              \/ state = 4
              \/ state \in {10, 11} /\ Byte(1) = Dollar
       PROVE  ScanInv'
  <2>1. state' = state /\ cp' = cp /\ loc' = "find"
    BY <1>7, <1>8, <1>13
  <2>2. Types'
    BY <1>7, <1>8, <1>11, <1>13
  <2>3. t >= 1
    BY <1>3, <1>13, ShapeFacts
  <2>4. Left' >= 1 /\ bp' + 1 \in bp' + 1 .. cp'
    BY <1>3, <1>5, <1>7, <1>10, <2>1, <2>3
  <2>5. NoPacket' /\ Byte(1)' = Byte(1)
    BY <1>7, <1>13, SameInput
  <2>6. CASE state = 4
    <3>1. t = 1 /\ Byte(1) = NUL
      BY <1>3, <2>6, ShapeFacts
    <3>2. Accept(4) = Rule(NUL)
      BY Accepts DEF Rule, NUL, Plus, Minus, Newline
    <3>3. state' \in {4, 5, 6, 7, 8} /\ cp' = bp' + 1 /\ Accept(state') = Rule(Byte(1)')
      BY <1>3, <1>7, <2>1, <2>5, <2>6, <3>1, <3>2
    <3>4. OneCharacter' /\ (BackUp => last.cpos \in bp + 1 .. cp)'
      BY <2>4, <2>5, <3>3, FoundOne
    <3> QED BY <1>10, <2>1, <2>2, <3>4 DEF ScanInv, Finding, Replaying
  <2>7. CASE state \in {10, 11} /\ Byte(1) = Dollar
    <3>1. Accept(state') = 0
      BY <2>1, <2>7, Accepts
    <3>2. last' = [state |-> 6, cpos |-> bp' + 1]
      BY <1>1, <1>3, <1>7, <2>7, RemembersDollar
    <3>3. OneCharacter' /\ (BackUp => last.cpos \in bp + 1 .. cp)'
      BY <2>4, <2>5, <2>7, <3>1, <3>2, FoundOne
    <3> QED BY <1>10, <2>1, <2>2, <3>3 DEF ScanInv, Finding, Replaying
  <2> QED BY <1>13, <2>6, <2>7
<1> QED BY <1>3, <1>5, <1>6, <1>12, <1>13, NulGoesOn

LEMMA ScanOnKeeps ==
    ASSUME ScanInv, ScanOn
    PROVE  ScanInv'
<1>1. Types /\ Replayed /\ loc \in {"replay_match", "replay_find"} /\ cp = c_buf_p
  BY DEF ScanInv, ScanOn, Replaying
<1>2. PICK t : t = cp - text
  OBVIOUS
<1>3. /\ t \in Nat /\ cp = bp + t /\ bp = text /\ t <= Left /\ bp \in Nat
      /\ cp \in Nat /\ n_chars \in Nat /\ cp <= n_chars /\ n_chars - bp = Left
      /\ Shape(state, t) /\ state \in TextStates /\ Remembers(state)
      /\ Holds(ch_buf, bp) /\ consumed \in Nat /\ Len(stream) \in Nat
      /\ Left \in Nat
  BY <1>1, <1>2, ReplayFacts
<1>4. /\ loc' = IF loc = "replay_match" THEN "match" ELSE "find"
      /\ UNCHANGED <<stream, received, ch_buf, buf_size, status, b_n_chars, n_chars,
                     c_buf_p, text, hold, last, state, cp, bp, consumed>>
  BY DEF ScanOn, environment, buffer
<1>5. Types'
  <2>1. InputOK' /\ BufferOK' /\ PointersOK' /\ AutomatonOK'
    BY <1>1, <1>4 DEF Types, InputOK, BufferOK, PointersOK, AutomatonOK
  <2> QED BY <1>4, <2>1 DEF Types, Places
<1>6. Holds(ch_buf, bp)' /\ Left' = Left
  BY <1>3, <1>4, SameInput DEF Holds, Left
<1>7. CASE loc = "replay_match"
  <2>1. cp' \in bp' .. n_chars' /\ cp' - bp' = t
    BY <1>3, <1>4
  <2>2. Shape(state, cp - bp)' /\ Remembers(state)'
    BY <1>3, <1>4, <2>1, SameInput DEF Remembers
  <2>3. loc' = "match"
    BY <1>4, <1>7
  <2> QED BY <1>5, <1>6, <2>1, <2>2, <2>3 DEF ScanInv, Matching, Replaying
<1>8. CASE loc = "replay_find"
  <2>1. c_buf_p = n_chars /\ c_buf_p > text /\ received = Len(stream)
    BY <1>1, <1>8 DEF Replayed
  <2>2. t = Left /\ t >= 1 /\ Len(stream) = consumed + t
    <3>1. t = Left /\ t >= 1
      <4>1. /\ cp = n_chars /\ cp > bp /\ cp = bp + t /\ n_chars - bp = Left
            /\ t \in Nat /\ bp \in Nat /\ cp \in Nat
        BY <1>1, <1>3, <2>1
      <4> QED BY <4>1
    <3>2. Left = Len(stream) - consumed
      BY <2>1 DEF Left
    <3> QED BY <1>3, <3>1, <3>2
  <2>3. NoPacket' /\ Byte(1)' = Byte(1)
    BY <1>3, <1>4, <2>2, CutShort, SameInput
  <2>4. Left' >= 1 /\ bp' + 1 \in bp' + 1 .. cp' /\ loc' = "find"
    BY <1>3, <1>4, <1>6, <1>8, <2>2
  <2>5. state \in {4, 6, 9, 10, 11}
    BY <1>3, <2>2, ShapeFacts DEF TextStates
  <2>6. CASE state \in {4, 6}
    <3>1. t = 1 /\ Byte(1) \in {NUL, Dollar}
      BY <1>3, <2>6, ShapeFacts
    <3>2. Accept(state) = 4 /\ Rule(NUL) = 4 /\ Rule(Dollar) = 4
      BY <2>6, Accepts DEF Rule, NUL, Dollar, Plus, Minus, Newline
    <3>3. cp' = bp' + 1 /\ state' \in {4, 5, 6, 7, 8} /\ Accept(state') = Rule(Byte(1)')
      BY <1>3, <1>4, <2>3, <2>6, <3>1, <3>2
    <3>4. OneCharacter' /\ (BackUp => last.cpos \in bp + 1 .. cp)'
      BY <2>3, <2>4, <3>3, FoundOne
    <3> QED BY <1>5, <1>6, <2>4, <3>4 DEF ScanInv, Finding, Replaying
  <2>7. CASE state \in {9, 10, 11}
    <3>1. Byte(1) = Dollar
      BY <1>3, <2>7, ShapeFacts
    <3>2. Accept(state') = 0 /\ last' = [state |-> 6, cpos |-> bp' + 1]
      BY <1>3, <1>4, <2>7, Accepts DEF Remembers
    <3>3. OneCharacter' /\ (BackUp => last.cpos \in bp + 1 .. cp)'
      BY <2>3, <2>4, <3>1, <3>2, FoundOne
    <3> QED BY <1>5, <1>6, <2>4, <3>3 DEF ScanInv, Finding, Replaying
  <2> QED BY <2>5, <2>6, <2>7
<1> QED BY <1>1, <1>7, <1>8

LEMMA MoveTextKeeps ==
    ASSUME ScanInv, MoveText
    PROVE  ScanInv'
<1>1. Types /\ AtEndOfBuffer
  BY DEF ScanInv, MoveText
<1>2. /\ c_buf_p > CharsNow /\ n_chars' = CharsNow /\ status' = StatusNow
      /\ loc' = IF c_buf_p > CharsNow + 1 THEN "end_of_buffer_missed" ELSE "read"
      /\ ch_buf' = [i \in DOMAIN ch_buf |->
                       IF i < number_to_move THEN Restored[text + i] ELSE Restored[i]]
      /\ UNCHANGED <<stream, received, buf_size, b_n_chars, c_buf_p, text, hold, last,
                     state, cp, bp, consumed>>
  <2>1. ~ReallyNul
    BY DEF MoveText
  <2>2. c_buf_p > CharsNow
    <3>1. c_buf_p \in Nat /\ CharsNow \in Nat
      BY <1>1, EndFacts, TypeFacts
    <3> QED BY <2>1, <3>1 DEF ReallyNul
  <2> QED BY <2>2 DEF MoveText, environment
<1>3. /\ text \in Nat /\ c_buf_p \in Nat /\ n_chars \in Nat /\ Left \in Nat
      /\ buf_size \in Nat /\ n_chars <= buf_size
  BY <1>1, TypeFacts
<1>4. /\ n_chars' = n_chars /\ c_buf_p = n_chars + 1 /\ loc' = "read"
      /\ status' \in {"normal", "eof_pending"}
      /\ status' = "eof_pending" => status = "eof_pending"
  <2>1. CharsNow = n_chars /\ c_buf_p <= n_chars + 1
    BY <1>1, EndFacts
  <2>2. c_buf_p = n_chars + 1
    BY <1>2, <1>3, <2>1
  <2>3. loc' = "read"
    BY <1>2, <1>3, <2>1, <2>2
  <2> QED BY <1>1, <1>2, <2>1, <2>2, <2>3, EndFacts
<1>5. PICK m \in Nat : /\ m = number_to_move /\ m = Left /\ Partial(m)
                       /\ text + m = n_chars
  <2>1. Holds(Restored, text)
    BY <1>1 DEF AtEndOfBuffer
  <2>2. n_chars - text = Left
    BY <2>1 DEF Holds
  <2>3. number_to_move \in Nat /\ Partial(number_to_move)
        /\ text + number_to_move = c_buf_p - 1
    BY <1>1, EndFacts
  <2>4. number_to_move = Left /\ text + number_to_move = n_chars
    BY <1>3, <1>4, <2>2, <2>3
  <2> QED BY <2>3, <2>4
<1>6. /\ ch_buf \in [0 .. buf_size + 1 -> Char \union {Junk}]
      /\ Restored \in [0 .. buf_size + 1 -> Char \union {Junk}]
  BY <1>1, EndFacts DEF Types, BufferOK
<1>7. ch_buf' \in [0 .. buf_size + 1 -> Char \union {Junk}]
  <2>1. ASSUME NEW i \in 0 .. buf_size + 1, i < m
        PROVE  text + i \in 0 .. buf_size + 1
    BY <1>3, <1>5, <2>1
  <2> QED BY <1>2, <1>5, <1>6, <2>1
<1>8. Types'
  <2>1. InputOK'
    BY <1>1, <1>2, <1>4 DEF Types, InputOK
  <2>2. BufferOK'
    BY <1>1, <1>2, <1>4, <1>7 DEF Types, BufferOK
  <2>3. PointersOK' /\ AutomatonOK'
    BY <1>1, <1>2 DEF Types, PointersOK, AutomatonOK
  <2> QED BY <1>4, <2>1, <2>2, <2>3 DEF Types, Places
<1>9. ASSUME NEW i \in 0 .. m - 1
      PROVE  ch_buf'[i] = Byte(i + 1)
  <2>1. /\ i \in 0 .. buf_size + 1 /\ i < m /\ text + i \in text .. n_chars - 1
        /\ (text + i) - text + 1 = i + 1
    BY <1>3, <1>5
  <2>2. ch_buf'[i] = Restored[text + i]
    BY <1>2, <1>5, <1>6, <2>1
  <2>3. Restored[text + i] = Byte((text + i) - text + 1)
    BY <1>1, <2>1 DEF AtEndOfBuffer, Holds
  <2> QED BY <2>1, <2>2, <2>3
<1>10. number_to_move' = m /\ Left' = m
  BY <1>2, <1>5 DEF number_to_move, Left
<1>11. m <= buf_size
  BY <1>3, <1>5
<1>12. AtRead'
  BY <1>2, <1>4, <1>5, <1>9, <1>10, <1>11, SameInput DEF AtRead
<1> QED BY <1>4, <1>8, <1>12 DEF ScanInv, Replaying

LEMMA GrowKeeps ==
    ASSUME ScanInv, Grow
    PROVE  ScanInv'
<1>1. Types /\ AtRead /\ loc = "read"
  BY DEF ScanInv, Grow
<1>2. /\ buf_size' = 2 * buf_size
      /\ ch_buf' = [i \in 0 .. 2 * buf_size + 1 |->
                       IF i \in DOMAIN ch_buf THEN ch_buf[i] ELSE Junk]
      /\ UNCHANGED <<stream, received, status, b_n_chars, n_chars, c_buf_p, text, hold,
                     last, loc, state, cp, bp, consumed>>
  BY DEF Grow, environment
<1>3. /\ buf_size \in Nat /\ buf_size >= 1 /\ Left \in Nat
      /\ ch_buf \in [0 .. buf_size + 1 -> Char \union {Junk}]
  BY <1>1, TypeFacts DEF Types, BufferOK
<1>4. /\ buf_size' \in Nat \ {0} /\ buf_size' >= buf_size
      /\ \A i \in 0 .. buf_size : i \in 0 .. buf_size'
      /\ \A i \in 0 .. buf_size + 1 : i \in 0 .. buf_size' + 1
      /\ \A i \in 0 .. buf_size + 2 : i \in 0 .. buf_size' + 2
  BY <1>2, <1>3
<1>5. ch_buf' \in [0 .. buf_size' + 1 -> Char \union {Junk}]
  BY <1>2, <1>3
<1>6. Types'
  <2>1. InputOK' /\ AutomatonOK'
    BY <1>1, <1>2 DEF Types, InputOK, AutomatonOK
  <2>2. BufferOK'
    BY <1>1, <1>2, <1>4, <1>5 DEF Types, BufferOK
  <2>3. PointersOK'
    BY <1>1, <1>2, <1>4 DEF Types, PointersOK
  <2> QED BY <1>1, <1>2, <2>1, <2>2, <2>3 DEF Types
<1>7. /\ number_to_move' = number_to_move /\ Left' = Left /\ Partial(Left)'
      /\ Left <= buf_size' /\ status' = status
  <2>1. number_to_move' = number_to_move /\ Left' = Left /\ Partial(Left)'
    BY <1>1, <1>2, SameInput DEF number_to_move, Left, AtRead
  <2>2. Left <= buf_size
    BY <1>1 DEF AtRead
  <2> QED BY <1>2, <1>3, <1>4, <2>1, <2>2
<1>8. ASSUME NEW i \in 0 .. Left - 1
      PROVE  ch_buf'[i] = Byte(i + 1)'
  <2>1. Left <= buf_size /\ ch_buf[i] = Byte(i + 1)
    BY <1>1 DEF AtRead
  <2>2. i \in 0 .. buf_size + 1 /\ i \in 0 .. 2 * buf_size + 1
    BY <1>3, <2>1
  <2> QED BY <1>2, <1>3, <2>1, <2>2, SameInput
<1>9. AtRead'
  BY <1>1, <1>7, <1>8 DEF AtRead
<1> QED BY <1>1, <1>2, <1>6, <1>9 DEF ScanInv, Replaying

\* The characters read come after the text, before the end-of-buffer characters.
LEMMA FilledFacts ==
    ASSUME Types, AtRead, NEW fragment \in Seq(Char), NEW n \in Nat,
           n = number_to_move + Len(fragment), n <= buf_size
    PROVE  /\ Filled(fragment) \in [0 .. buf_size + 1 -> Char \union {Junk}]
           /\ Filled(fragment)[n] = NUL /\ Filled(fragment)[n + 1] = NUL
           /\ \A i \in 0 .. number_to_move - 1 : Filled(fragment)[i] = Byte(i + 1)
           /\ \A i \in number_to_move .. n - 1 :
                 Filled(fragment)[i] = fragment[i - number_to_move + 1]
<1>1. PICK m \in Nat, k \in Nat :
          m = number_to_move /\ m = Left /\ k = Len(fragment) /\ n = m + k
  BY TypeFacts DEF AtRead
<1>2. /\ ch_buf \in [0 .. buf_size + 1 -> Char \union {Junk}] /\ buf_size \in Nat
      /\ DOMAIN ch_buf = 0 .. buf_size + 1
  BY TypeFacts DEF Types, BufferOK
<1>3. Filled(fragment) =
         [i \in 0 .. buf_size + 1 |->
            IF i \in {n, n + 1} THEN NUL
            ELSE IF i \in m .. n - 1 THEN fragment[i - m + 1] ELSE ch_buf[i]]
  BY <1>1, <1>2 DEF Filled, Sentinels
<1>4. NUL \in Char
  BY DEF Char
<1>5. ASSUME NEW i \in m .. n - 1
      PROVE  /\ fragment[i - m + 1] \in Char /\ i \in 0 .. buf_size + 1
             /\ i \notin {n, n + 1}
  <2>1. i - m + 1 \in 1 .. k /\ i \in 0 .. buf_size + 1 /\ i \notin {n, n + 1}
    BY <1>1, <1>2
  <2> QED BY <1>1, <2>1
<1>6. Filled(fragment) \in [0 .. buf_size + 1 -> Char \union {Junk}]
  BY <1>2, <1>3, <1>4, <1>5
<1>7. n \in 0 .. buf_size + 1 /\ n + 1 \in 0 .. buf_size + 1
  BY <1>2
<1>8. ASSUME NEW i \in 0 .. m - 1
      PROVE  Filled(fragment)[i] = Byte(i + 1)
  <2>1. i \in 0 .. buf_size + 1 /\ i \notin {n, n + 1} /\ i \notin m .. n - 1
    BY <1>1, <1>2
  <2>2. ch_buf[i] = Byte(i + 1)
    BY <1>1 DEF AtRead
  <2> QED BY <1>3, <2>1, <2>2
<1> QED BY <1>1, <1>3, <1>5, <1>6, <1>7, <1>8

\* The text that was moved is followed by what was read, and is scanned again.
LEMMA ResumeKeeps ==
    ASSUME Types, AtRead, NEW fragment \in Seq(Char), NEW place,
           place \in {"replay_match", "replay_find"},
           Resume(fragment, place),
           number_to_move + Len(fragment) <= buf_size,
           received' = received + Len(fragment), received' <= Len(stream),
           \A i \in 1 .. Len(fragment) : fragment[i] = stream[received + i],
           status' \in {"normal", "eof_pending"},
           status' = "eof_pending" => received' = Len(stream),
           place = "replay_find" =>
              fragment = <<>> /\ number_to_move > 0 /\ received' = Len(stream)
    PROVE  ScanInv'
<1>1. PICK m \in Nat, k \in Nat, n \in Nat :
          /\ m = number_to_move /\ m = Left /\ k = Len(fragment) /\ n = m + k
          /\ Partial(m)
  BY TypeFacts DEF AtRead
<1>2. /\ consumed \in Nat /\ received \in Nat /\ Len(stream) \in Nat
      /\ consumed <= received /\ buf_size \in Nat /\ n <= buf_size
      /\ m = received - consumed /\ received = consumed + m
  <2>1. /\ consumed \in Nat /\ received \in Nat /\ Len(stream) \in Nat
        /\ consumed <= received /\ buf_size \in Nat
    BY TypeFacts
  <2>2. m + k <= buf_size /\ m = received - consumed
    BY <1>1 DEF Left
  <2>3. n <= buf_size
    BY <1>1, <2>2
  <2> QED BY <2>1, <2>2, <2>3
<1>3. /\ ch_buf' = Filled(fragment) /\ n_chars' = n /\ b_n_chars' = k
      /\ text' = 0 /\ bp' = 0 /\ c_buf_p' = m /\ cp' = 0 /\ state' = 1
      /\ loc' = place /\ UNCHANGED <<stream, buf_size, hold, last, consumed>>
  BY <1>1 DEF Resume
<1>4. /\ ch_buf' \in [0 .. buf_size + 1 -> Char \union {Junk}]
      /\ ch_buf'[n] = NUL /\ ch_buf'[n + 1] = NUL
      /\ \A i \in 0 .. m - 1 : ch_buf'[i] = Byte(i + 1)
      /\ \A i \in m .. n - 1 : ch_buf'[i] = fragment[i - m + 1]
  <2>1. /\ Filled(fragment) \in [0 .. buf_size + 1 -> Char \union {Junk}]
        /\ Filled(fragment)[n] = NUL /\ Filled(fragment)[n + 1] = NUL
        /\ \A i \in 0 .. number_to_move - 1 : Filled(fragment)[i] = Byte(i + 1)
        /\ \A i \in number_to_move .. n - 1 :
              Filled(fragment)[i] = fragment[i - number_to_move + 1]
    <3>1. n = number_to_move + Len(fragment) /\ n <= buf_size
      BY <1>1, <1>2
    <3> QED BY <3>1, FilledFacts
  <2> QED BY <1>1, <1>3, <2>1
<1>5. Types'
  <2>1. received' \in 0 .. Len(stream) /\ consumed \in 0 .. received'
    BY <1>1, <1>2
  <2>2. InputOK'
    BY <1>3, <2>1 DEF Types, InputOK
  <2>3. n \in 0 .. buf_size /\ k \in 0 .. buf_size
    BY <1>1, <1>2
  <2>4. BufferOK'
    BY <1>3, <1>4, <2>3 DEF Types, BufferOK
  <2>5. m \in 0 .. buf_size + 1 /\ 0 \in 0 .. buf_size /\ 0 \in 0 .. buf_size + 2
    BY <1>1, <1>2
  <2>6. PointersOK'
    BY <1>3, <2>5 DEF PointersOK
  <2>7. AutomatonOK'
    BY <1>3 DEF Types, AutomatonOK
  <2> QED BY <1>3, <2>2, <2>4, <2>6, <2>7 DEF Types, Places
<1>6. ASSUME NEW i \in 0 .. n - 1
      PROVE  ch_buf'[i] = Byte(i - 0 + 1)'
  <2>1. i - 0 + 1 = i + 1
    OBVIOUS
  <2>2. CASE i \in 0 .. m - 1
    BY <1>3, <1>4, <2>1, <2>2, SameInput
  <2>3. CASE i \in m .. n - 1
    <3>1. /\ i - m + 1 \in 1 .. k
          /\ received + (i - m + 1) = consumed + (i + 1)
      BY <1>1, <1>2, <2>3
    <3>2. ch_buf'[i] = stream[received + (i - m + 1)]
      BY <1>1, <1>4, <2>3, <3>1
    <3> QED BY <1>3, <2>1, <3>1, <3>2 DEF Byte
  <2>4. i \in 0 .. m - 1 \/ i \in m .. n - 1
    BY <1>1
  <2> QED BY <2>2, <2>3, <2>4
<1>7. Left' = n /\ n - 0 = n /\ 0 \in 0 .. n
  BY <1>1, <1>2, <1>3 DEF Left
<1>8. Holds(ch_buf, text)'
  BY <1>3, <1>4, <1>6, <1>7 DEF Holds
<1>9. m \in 0 .. n /\ m - 0 = m /\ 0 \in 0 .. m /\ 0 - 0 = 0
  BY <1>1
<1>10. Partial(c_buf_p - text)' /\ Shape(state, cp - text)' /\ Remembers(state)'
  BY <1>1, <1>3, <1>9, SameInput DEF Shape, Remembers
<1>11. place = "replay_find" => m = n /\ m > 0 /\ received' = Len(stream)
  BY <1>1
<1>12. Replayed'
  BY <1>3, <1>8, <1>9, <1>10, <1>11 DEF Replayed
<1> QED BY <1>3, <1>5, <1>12 DEF ScanInv

\* There is room for at least one character when the read is made.
LEMMA RoomFacts ==
    ASSUME Types, AtRead, Reading, status # "eof_pending"
    PROVE  /\ num_to_read \in Nat /\ num_to_read >= 1
           /\ num_to_read <= buf_size - number_to_move - 1
           /\ number_to_move \in Nat /\ buf_size \in Nat
<1>1. /\ number_to_move \in Nat /\ buf_size \in Nat
      /\ YY_READ_BUF_SIZE \in Nat /\ YY_READ_BUF_SIZE >= 1
  BY TypeFacts, BufferAssumption DEF AtRead
<1>2. ~(buf_size - number_to_move - 1 <= 0)
  BY DEF Reading, NoRoom
<1>3. PICK room \in Nat : room = buf_size - number_to_move - 1 /\ room >= 1
  <2>1. buf_size - number_to_move - 1 \in Nat /\ buf_size - number_to_move - 1 >= 1
    BY <1>1, <1>2
  <2> QED BY <2>1
<1>4. num_to_read = IF room > YY_READ_BUF_SIZE THEN YY_READ_BUF_SIZE ELSE room
  BY <1>3 DEF num_to_read
<1> QED BY <1>1, <1>3, <1>4

LEMMA ReadKeeps ==
    ASSUME ScanInv, Read
    PROVE  ScanInv'
<1>1. Types /\ AtRead /\ Reading /\ status # "eof_pending"
  BY DEF ScanInv, Read, Reading
<1>2. PICK n \in 1 .. num_to_read :
          /\ received + n <= Len(stream) /\ received' = received + n
          /\ Resume(SubSeq(stream, received + 1, received + n), "replay_match")
  BY DEF Read
<1>3. /\ stream \in Seq(Char) /\ received \in Nat /\ Len(stream) \in Nat
      /\ number_to_move \in Nat /\ buf_size \in Nat /\ n \in Nat /\ n >= 1
      /\ number_to_move + n <= buf_size
  <2>1. stream \in Seq(Char) /\ received \in Nat /\ Len(stream) \in Nat
    BY <1>1, TypeFacts
  <2>2. /\ num_to_read \in Nat /\ num_to_read <= buf_size - number_to_move - 1
        /\ number_to_move \in Nat /\ buf_size \in Nat
    BY <1>1, RoomFacts
  <2>3. n \in Nat /\ n >= 1 /\ n <= num_to_read
    BY <2>2
  <2>4. number_to_move + n <= buf_size
    BY <2>2, <2>3
  <2> QED BY <2>1, <2>2, <2>3, <2>4
<1>4. PICK fragment : fragment = SubSeq(stream, received + 1, received + n)
  OBVIOUS
<1>5. /\ fragment \in Seq(Char) /\ Len(fragment) = n
      /\ \A i \in 1 .. Len(fragment) : fragment[i] = stream[received + i]
  <2>1. \A i \in received + 1 .. received + n : i \in 1 .. Len(stream)
    BY <1>2, <1>3
  <2>2. \A i \in received + 1 .. received + n : stream[i] \in Char
    BY <1>3, <2>1
  <2>3. /\ received + 1 \in Int /\ received + n \in Int /\ received + 1 <= received + n
        /\ (received + n) - (received + 1) + 1 = n
    BY <1>3
  <2>4. /\ fragment \in Seq(Char) /\ Len(fragment) = n
        /\ \A i \in 1 .. n : fragment[i] = stream[(received + 1) + i - 1]
    BY <1>4, <2>2, <2>3, SubSeqProperties
  <2>5. \A i \in 1 .. n : (received + 1) + i - 1 = received + i
    BY <1>3
  <2> QED BY <2>4, <2>5
<1>6. status' \in {"normal", "eof_pending"} /\ status' # "eof_pending"
  BY <1>1 DEF Read, AtRead, Types, BufferOK
<1>7. received' <= Len(stream)
  BY <1>2
<1> QED BY <1>1, <1>2, <1>3, <1>4, <1>5, <1>6, <1>7, ResumeKeeps

\* Nothing is read only at the end of the connection.
LEMMA NothingReadFacts ==
    ASSUME Types, AtRead, Reading, NothingRead
    PROVE  received = Len(stream)
<1>1. CASE status = "eof_pending"
  BY <1>1 DEF Types, InputOK
<1>2. CASE status # "eof_pending"
  <2>1. num_to_read # 0
    BY <1>2, RoomFacts
  <2> QED BY <1>2, <2>1 DEF NothingRead
<1> QED BY <1>1, <1>2

LEMMA EndOfInputKeeps ==
    ASSUME ScanInv, EndOfInput
    PROVE  ScanInv'
<1>1. Types /\ AtRead /\ Reading /\ NothingRead
  BY DEF ScanInv, EndOfInput, Reading
<1>2. /\ number_to_move > 0 /\ Resume(<<>>, "replay_find")
      /\ status' = "eof_pending" /\ received' = received
  BY DEF EndOfInput, TextLeft
<1>3. PICK fragment : fragment = <<>>
  OBVIOUS
<1>4. /\ fragment \in Seq(Char) /\ Len(fragment) = 0
      /\ \A i \in 1 .. Len(fragment) : fragment[i] = stream[received + i]
  BY <1>3
<1>5. /\ received \in Nat /\ Len(stream) \in Nat /\ buf_size \in Nat
      /\ number_to_move \in Nat /\ number_to_move <= buf_size
  BY <1>1, TypeFacts DEF AtRead
<1>6. /\ received' = Len(stream) /\ received' = received + Len(fragment)
      /\ received' <= Len(stream) /\ number_to_move + Len(fragment) <= buf_size
  BY <1>1, <1>2, <1>4, <1>5, NothingReadFacts
<1>7. status' \in {"normal", "eof_pending"}
  BY <1>2
<1> QED BY <1>1, <1>2, <1>3, <1>4, <1>6, <1>7, ResumeKeeps

LEMMA EndOfFileKeeps ==
    ASSUME ScanInv, EndOfFile
    PROVE  ScanInv'
<1>1. Types
  BY DEF ScanInv
<1>2. /\ ch_buf' = [ch_buf EXCEPT ![0] = NUL, ![1] = NUL]
      /\ status' = "new" /\ b_n_chars' = 0 /\ n_chars' = 0
      /\ c_buf_p' = 0 /\ text' = 0 /\ hold' = NUL /\ loc' = "done"
      /\ UNCHANGED <<stream, received, buf_size, last, state, cp, bp, consumed>>
  BY DEF EndOfFile, yyrestart, yy_flush_buffer, environment
<1>3. NUL \in Char
  BY DEF Char
<1>4. buf_size \in Nat /\ ch_buf \in [0 .. buf_size + 1 -> Char \union {Junk}]
  BY <1>1, TypeFacts DEF Types, BufferOK
<1>5. 0 \in 0 .. buf_size /\ 0 \in 0 .. buf_size + 1
  BY <1>4
<1>6. ch_buf' \in [0 .. buf_size + 1 -> Char \union {Junk}]
  BY <1>2, <1>3, <1>4
<1>7. InputOK' /\ AutomatonOK'
  BY <1>1, <1>2, <1>3 DEF Types, InputOK, AutomatonOK
<1>8. BufferOK' /\ PointersOK'
  BY <1>1, <1>2, <1>5, <1>6 DEF Types, BufferOK, PointersOK
<1> QED BY <1>2, <1>7, <1>8 DEF ScanInv, Types, Places, Replaying

LEMMA SameKeeps ==
    ASSUME ScanInv,
           UNCHANGED <<stream, received, ch_buf, buf_size, status, b_n_chars, n_chars,
                       c_buf_p, text, hold, last, state, cp, bp, consumed>>,
           loc' = loc \/ loc' = "exit"
    PROVE  ScanInv'
<1>1. Types'
  <2>1. InputOK' /\ BufferOK' /\ PointersOK' /\ AutomatonOK'
    BY DEF ScanInv, Types, InputOK, BufferOK, PointersOK, AutomatonOK
  <2> QED BY <2>1 DEF ScanInv, Types, Places
<1>2. CASE loc' = "exit"
  BY <1>1, <1>2 DEF ScanInv, Replaying
<1>3. CASE loc' = loc
  <2>1. /\ Left' = Left /\ number_to_move' = number_to_move /\ Restored' = Restored
        /\ BackUp' = BackUp /\ EndOfToken' = EndOfToken /\ Action' = Action
        /\ Replaying' = Replaying
    BY <1>3 DEF Left, number_to_move, Restored, BackUp, EndOfToken, Action, Replaying
  <2>2. \A chars, from : Holds(chars, from)' <=> Holds(chars, from)
    BY <2>1, SameInput DEF Holds
  <2>3. \A chars, from, p : NulAfter(chars, from, p)' <=> NulAfter(chars, from, p)
    BY SameInput DEF NulAfter
  <2>4. \A s : Remembers(s)' <=> Remembers(s)
    BY DEF Remembers
  <2>5. loc = "start" => Holds([ch_buf EXCEPT ![c_buf_p] = hold], c_buf_p)'
    BY <2>2 DEF ScanInv
  <2>6. loc = "match" => Matching'
    BY <2>2, <2>3, <2>4, SameInput DEF ScanInv, Matching
  <2>7. loc = "find" => Finding'
    BY <2>1, <2>2, <2>3, SameInput
       DEF ScanInv, Finding, OneCharacter, WholePacket, EndOfChars
  <2>8. loc = "end_of_buffer" => AtEndOfBuffer'
    BY <2>1, <2>2, <2>3 DEF ScanInv, AtEndOfBuffer
  <2>9. Replaying => Replayed'
    BY <1>3, <2>2, <2>4, SameInput DEF ScanInv, Replayed
  <2>10. loc = "read" => AtRead'
    BY <2>1, SameInput DEF ScanInv, AtRead
  <2> QED BY <1>1, <1>3, <2>1, <2>5, <2>6, <2>7, <2>8, <2>9, <2>10 DEF ScanInv
<1> QED BY <1>2, <1>3

-----------------------------------------------------------------------------
(* ScanInv is inductive. *)

LEMMA ScanInit ==
    ASSUME Init
    PROVE  ScanInv
<1>1. /\ YY_BUF_SIZE \in Nat /\ YY_BUF_SIZE >= 1 /\ YY_BUF_SIZE \in Nat \ {0}
      /\ stream \in Seq(Char) /\ Len(stream) \in Nat
  BY BufferAssumption, StreamAssumption DEF Init
<1>2. NUL \in Char
  BY DEF Char
<1>3. ch_buf = [[i \in 0 .. YY_BUF_SIZE + 1 |-> Junk] EXCEPT ![0] = NUL, ![1] = NUL]
  BY DEF Init, yy_create_buffer, yy_flush_buffer
<1>4. 0 \in 0 .. YY_BUF_SIZE + 1 /\ 1 \in 0 .. YY_BUF_SIZE + 1 /\ 0 \in 0 .. YY_BUF_SIZE
  BY <1>1
<1>5. /\ ch_buf \in [0 .. YY_BUF_SIZE + 1 -> Char \union {Junk}]
      /\ ch_buf[0] = NUL /\ ch_buf[1] = NUL
  BY <1>2, <1>3, <1>4
<1>6. InputOK
  BY <1>1 DEF Init, InputOK
<1>7. BufferOK
  BY <1>1, <1>4, <1>5 DEF Init, BufferOK
<1>8. PointersOK
  BY <1>1 DEF Init, PointersOK
<1>9. AutomatonOK
  BY <1>2 DEF Init, AutomatonOK
<1>10. Types /\ loc = "start"
  BY <1>6, <1>7, <1>8, <1>9 DEF Init, Types, Places
<1>11. Holds([ch_buf EXCEPT ![c_buf_p] = hold], c_buf_p)
  <2>1. n_chars = 0 /\ c_buf_p = 0 /\ hold = NUL /\ received = 0 /\ consumed = 0
    BY DEF Init
  <2>2. PICK chars : chars = [ch_buf EXCEPT ![c_buf_p] = hold]
    OBVIOUS
  <2>3. chars[0] = NUL /\ chars[0 + 1] = NUL
    BY <1>4, <1>5, <2>1, <2>2
  <2>4. Left = 0
    BY <2>1 DEF Left
  <2>5. Holds(chars, 0)
    BY <2>1, <2>3, <2>4 DEF Holds
  <2> QED BY <2>1, <2>2, <2>5
<1> QED BY <1>10, <1>11 DEF ScanInv, Replaying

LEMMA ScanInduction ==
    ASSUME ScanInv, [Next]_vars
    PROVE  ScanInv'
<1>1. CASE BeginToken
  BY <1>1, BeginTokenKeeps
<1>2. CASE yy_match
  BY <1>2, MatchKeeps
<1>3. CASE yy_find_action
  BY <1>3, FindKeeps
<1>4. CASE NulInText
  BY <1>4, NulInTextKeeps
<1>5. CASE yy_get_previous_state
  BY <1>5, PreviousStateKeeps
<1>6. CASE TakeNul
  BY <1>6, TakeNulKeeps
<1>7. CASE ScanOn
  BY <1>7, ScanOnKeeps
<1>8. CASE MoveText
  BY <1>8, MoveTextKeeps
<1>9. CASE Grow
  BY <1>9, GrowKeeps
<1>10. CASE Read
  BY <1>10, ReadKeeps
<1>11. CASE EndOfInput
  BY <1>11, EndOfInputKeeps
<1>12. CASE EndOfFile
  BY <1>12, EndOfFileKeeps
<1>13. CASE ReadFails
  <2>1. /\ UNCHANGED <<stream, received, ch_buf, buf_size, status, b_n_chars, n_chars,
                       c_buf_p, text, hold, last, state, cp, bp, consumed>>
        /\ loc' = "exit"
    BY <1>13 DEF ReadFails, environment, buffer
  <2> QED BY <2>1, SameKeeps
<1>14. CASE UNCHANGED vars
  <2>1. /\ UNCHANGED <<stream, received, ch_buf, buf_size, status, b_n_chars, n_chars,
                       c_buf_p, text, hold, last, state, cp, bp, consumed>>
        /\ loc' = loc
    BY <1>14 DEF vars, environment, buffer
  <2> QED BY <2>1, SameKeeps
<1> QED BY <1>1, <1>2, <1>3, <1>4, <1>5, <1>6, <1>7, <1>8, <1>9, <1>10, <1>11, <1>12,
           <1>13, <1>14 DEF Next, yylex

LEMMA ScannerInvariant == Spec => []ScanInv
<1>1. Init => ScanInv
  BY ScanInit
<1>2. ScanInv /\ [Next]_vars => ScanInv'
  BY ScanInduction
<1> QED BY <1>1, <1>2, PTL DEF Spec

-----------------------------------------------------------------------------
(* What the invariant says of the input *)

\* the bytes that are left, as a sequence
LEMMA InputPiece ==
    ASSUME Types, NEW n \in Nat, consumed + n <= Len(stream)
    PROVE  LET rest == SubSeq(stream, consumed + 1, consumed + n)
           IN  /\ rest \in Seq(Char) /\ Len(rest) = n
               /\ \A k \in 1 .. n : rest[k] = Byte(k) /\ Byte(k) \in Char
<1>1. stream \in Seq(Char) /\ Len(stream) \in Nat /\ consumed \in Nat
  BY TypeFacts
<1>2. \A i \in consumed + 1 .. consumed + n : i \in 1 .. Len(stream)
  BY <1>1
<1>3. \A i \in consumed + 1 .. consumed + n : stream[i] \in Char
  BY <1>1, <1>2
<1>4. /\ consumed + 1 \in Int /\ consumed + n \in Int
      /\ (consumed + n) - (consumed + 1) + 1 = n
      /\ consumed + 1 <= consumed + n <=> n # 0
  BY <1>1
<1>5. PICK rest : rest = SubSeq(stream, consumed + 1, consumed + n)
  OBVIOUS
<1>6. /\ rest \in Seq(Char)
      /\ Len(rest) = IF consumed + 1 <= consumed + n
                     THEN (consumed + n) - (consumed + 1) + 1 ELSE 0
      /\ \A i \in 1 .. (consumed + n) - (consumed + 1) + 1 :
            rest[i] = stream[(consumed + 1) + i - 1]
  BY <1>3, <1>4, <1>5, SubSeqProperties
<1>7. Len(rest) = n
  BY <1>4, <1>6
<1>8. \A k \in 1 .. n : rest[k] = Byte(k) /\ Byte(k) \in Char
  <2>1. ASSUME NEW k \in 1 .. n
        PROVE  /\ (consumed + 1) + k - 1 = consumed + k
               /\ consumed + k \in consumed + 1 .. consumed + n
    BY <1>1
  <2> QED BY <1>3, <1>4, <1>6, <2>1 DEF Byte
<1> QED BY <1>5, <1>6, <1>7, <1>8

\* a slice of a buffer that holds them is a piece of the input
LEMMA SliceIsInput ==
    ASSUME Types, NEW chars, NEW from \in Nat, NEW to \in Nat, NEW n \in Nat,
           to = from + n, consumed + n <= Len(stream),
           \A i \in from .. to - 1 : chars[i] = Byte(i - from + 1)
    PROVE  Slice(chars, from, to) = SubSeq(stream, consumed + 1, consumed + n)
<1>1. PICK rest : rest = SubSeq(stream, consumed + 1, consumed + n)
  OBVIOUS
<1>2. /\ rest \in Seq(Char) /\ Len(rest) = n
      /\ \A k \in 1 .. n : rest[k] = Byte(k) /\ Byte(k) \in Char
  BY <1>1, InputPiece
<1>3. to - from = n
  OBVIOUS
<1>4. PICK slice : slice = [i \in 1 .. n |-> chars[from + i - 1]]
  OBVIOUS
<1>5. Slice(chars, from, to) = slice
  BY <1>3, <1>4 DEF Slice
<1>6. \A k \in 1 .. n : chars[from + k - 1] = Byte(k)
  <2>1. ASSUME NEW k \in 1 .. n
        PROVE  from + k - 1 \in from .. to - 1 /\ (from + k - 1) - from + 1 = k
    OBVIOUS
  <2> QED BY <2>1
<1>7. slice \in Seq(Char) /\ Len(slice) = n /\ \A k \in 1 .. n : slice[k] = rest[k]
  BY <1>2, <1>4, <1>6
<1>8. slice = rest
  BY <1>2, <1>7, SeqEqual
<1> QED BY <1>1, <1>5, <1>8

\* A packet ends at its first '#', so it has one end.
LEMMA OneEnd ==
    ASSUME NEW i \in Nat, NEW j \in Nat, NEW k \in Nat, i < j, i < k,
           Packet(i, j), Packet(i, k)
    PROVE  j = k
<1>1. ~(j < k)
  BY DEF Packet
<1>2. ~(k < j)
  BY DEF Packet
<1> QED BY <1>1, <1>2

LEMMA TokenStep ==
    ASSUME ScanInv, yy_find_action, consumed' # consumed
    PROVE  token' = TokenAt(consumed + 1)
<1>1. Types /\ Finding /\ IsRule
  BY DEF ScanInv, yy_find_action
<1>2. PICK end : end = EndOfToken
  OBVIOUS
<1>3. end \in bp + 1 .. n_chars + 1 /\ end <= n_chars /\ ~EndOfChars
  BY <1>1, <1>2, FindFacts
<1>4. token' = [rule |-> Action, text |-> Slice(ch_buf, bp, end)]
  BY <1>1, <1>2 DEF yy_find_action
<1>5. /\ consumed \in Nat /\ received \in Nat /\ received <= Len(stream)
      /\ Len(stream) \in Nat /\ bp \in Nat /\ n_chars \in Nat
      /\ stream \in Seq(Char) /\ Left = received - consumed
  BY <1>1, TypeFacts DEF Left
<1>6. /\ n_chars - bp = Left
      /\ \A i \in bp .. n_chars - 1 : ch_buf[i] = Byte(i - bp + 1)
  BY <1>1 DEF Finding, Holds
<1>7. PICK n \in Nat : end = bp + n /\ n >= 1 /\ consumed + n <= Len(stream)
  <2>1. /\ end - bp \in Nat /\ end = bp + (end - bp) /\ end - bp >= 1
        /\ consumed + (end - bp) <= Len(stream)
    BY <1>3, <1>5, <1>6
  <2> QED BY <2>1
<1>8. Slice(ch_buf, bp, end) = SubSeq(stream, consumed + 1, consumed + n)
  <2>1. end \in Nat /\ \A i \in bp .. end - 1 : ch_buf[i] = Byte(i - bp + 1)
    BY <1>3, <1>5, <1>6
  <2> QED BY <1>1, <1>5, <1>7, <2>1, SliceIsInput
<1>9. PICK ends : ends = {j \in (consumed + 1) + 1 .. Len(stream) - 2 :
                             Packet(consumed + 1, j)}
  OBVIOUS
<1>10. TokenAt(consumed + 1) =
          IF ends = {}
          THEN [rule |-> Rule(stream[consumed + 1]), text |-> <<stream[consumed + 1]>>]
          ELSE [rule |-> 3,
                text |-> SubSeq(stream, consumed + 1, (CHOOSE j \in ends : TRUE) + 2)]
  BY <1>9 DEF TokenAt
<1>11. CASE OneCharacter
  <2>1. end = bp + 1 /\ Action = Rule(Byte(1)) /\ NoPacket
    BY <1>2, <1>11 DEF OneCharacter
  <2>2. (consumed + 1) + 1 = consumed + 2
    BY <1>5
  <2>3. ends = {}
    BY <1>9, <2>1, <2>2 DEF NoPacket
  <2>4. n = 1
    BY <1>5, <1>7, <2>1
  <2>5. PICK piece : piece = SubSeq(stream, consumed + 1, consumed + n)
    OBVIOUS
  <2>6. piece \in Seq(Char) /\ Len(piece) = 1 /\ piece[1] = Byte(1) /\ Byte(1) \in Char
    BY <1>1, <1>7, <2>4, <2>5, InputPiece
  <2>7. piece = <<Byte(1)>>
    <3>1. <<Byte(1)>> \in Seq(Char) /\ Len(<<Byte(1)>>) = 1
      BY <2>6
    <3>2. \A k \in 1 .. Len(piece) : piece[k] = <<Byte(1)>>[k]
      BY <2>6
    <3> QED BY <2>6, <3>1, <3>2, SeqEqual
  <2> QED BY <1>4, <1>8, <1>10, <2>1, <2>3, <2>5, <2>7 DEF Byte
<1>12. CASE WholePacket
  <2>1. /\ Action = 3 /\ end \in bp + 4 .. n_chars
        /\ Packet(consumed + 1, consumed + (end - bp) - 2)
    BY <1>2, <1>12 DEF WholePacket
  <2>2. PICK e \in Nat : e = consumed + (end - bp) - 2 /\ e + 2 = consumed + n
                         /\ consumed + 1 < e /\ e <= Len(stream) - 2
    <3>1. end - bp = n /\ n >= 4
      BY <1>5, <1>7, <2>1
    <3>2. consumed + n - 2 \in Nat /\ (consumed + n - 2) + 2 = consumed + n
          /\ consumed + 1 < consumed + n - 2 /\ consumed + n - 2 <= Len(stream) - 2
      BY <1>5, <1>7, <3>1
    <3> QED BY <3>1, <3>2
  <2>3. e \in ends
    BY <1>5, <1>9, <2>1, <2>2
  <2>4. ASSUME NEW j \in ends
        PROVE  j = e
    <3>1. j \in Nat /\ consumed + 1 < j /\ Packet(consumed + 1, j)
      BY <1>5, <1>9
    <3>2. consumed + 1 \in Nat
      BY <1>5
    <3> QED BY <2>1, <2>2, <3>1, <3>2, OneEnd
  <2>5. (CHOOSE j \in ends : TRUE) = e
    BY <2>3, <2>4
  <2>6. ends # {}
    BY <2>3
  <2> QED BY <1>4, <1>8, <1>10, <2>1, <2>2, <2>5, <2>6
<1> QED BY <1>1, <1>3, <1>11, <1>12 DEF Finding

LEMMA HeldBack ==
    ASSUME Types, AtRead
    PROVE  LET rest == SubSeq(stream, consumed + 1, received)
           IN  rest \in {<<>>, <<NUL>>} \/ PacketPrefix(rest)
<1>1. /\ consumed \in Nat /\ received \in Nat /\ received <= Len(stream)
      /\ Left \in Nat /\ consumed + Left = received
  BY TypeFacts DEF Left
<1>2. PICK rest : rest = SubSeq(stream, consumed + 1, received)
  OBVIOUS
<1>3. PICK t \in Nat : t = Left
  BY <1>1
<1>4. /\ rest \in Seq(Char) /\ Len(rest) = t
      /\ \A k \in 1 .. t : rest[k] = Byte(k)
  BY <1>1, <1>2, <1>3, InputPiece
<1>5. PICK s \in TextStates : Shape(s, t)
  BY <1>3 DEF AtRead, Partial
<1>6. CASE s = 1
  <2>1. rest = <<>>
    BY <1>4, <1>5, <1>6, ShapeFacts
  <2> QED BY <1>2, <2>1
<1>7. CASE s = 4
  <2>1. t = 1 /\ rest[1] = NUL
    BY <1>4, <1>5, <1>7, ShapeFacts
  <2>2. <<NUL>> \in Seq(Char) /\ Len(<<NUL>>) = 1
    BY DEF Char
  <2>3. \A k \in 1 .. Len(rest) : rest[k] = <<NUL>>[k]
    BY <1>4, <2>1
  <2>4. rest = <<NUL>>
    BY <1>4, <2>1, <2>2, <2>3, SeqEqual
  <2> QED BY <1>2, <2>4
<1>8. CASE s \in {6, 9}
  <2>1. t >= 1 /\ rest[1] = Dollar /\ \A k \in 2 .. t : rest[k] \notin {Dollar, Hash}
    BY <1>4, <1>5, <1>8 DEF Shape, Plain
  <2>2. PacketPrefix(rest)
    BY <1>4, <2>1 DEF PacketPrefix
  <2> QED BY <1>2, <2>2
<1>9. CASE s = 10
  <2>1. /\ t >= 2 /\ rest[1] = Dollar /\ rest[t] = Hash
        /\ \A k \in 2 .. t - 1 : rest[k] \notin {Dollar, Hash}
    BY <1>4, <1>5, <1>9 DEF Shape, Plain
  <2>2. PacketPrefix(rest)
    BY <1>4, <2>1, AreDifferent DEF PacketPrefix, Different
  <2> QED BY <1>2, <2>2
<1>10. CASE s = 11
  <2>1. /\ t >= 3 /\ rest[1] = Dollar /\ rest[t - 1] = Hash /\ rest[t] \in HexDigits
        /\ \A k \in 2 .. t - 2 : rest[k] \notin {Dollar, Hash}
    BY <1>4, <1>5, <1>10 DEF Shape, Plain
  <2>2. PacketPrefix(rest)
    BY <1>4, <2>1, AreDifferent DEF PacketPrefix, Different
  <2> QED BY <1>2, <2>2
<1> QED BY <1>5, <1>6, <1>7, <1>8, <1>9, <1>10 DEF TextStates

-----------------------------------------------------------------------------
\* The pointers of the scanner stay in the buffer, whatever its size, and no
\* more bytes become tokens than were received.
THEOREM ScannerTypeCorrect == Spec => []TypeOK
<1>1. ScanInv => TypeOK
  BY DEF ScanInv, Types, InputOK, BufferOK, PointersOK, AutomatonOK, TypeOK
<1> QED BY <1>1, ScannerInvariant, PTL

\* The scanner never misses the end of the buffer and never jams without a
\* token of this text to back up to: the fatal errors of yy_get_next_buffer and
\* of yylex cannot happen.
THEOREM ScannerHasNoInternalError == Spec => []NoInternalError
<1>1. ScanInv => NoInternalError
  BY DEF ScanInv, Types, Places, Finding, NoInternalError
<1> QED BY <1>1, ScannerInvariant, PTL

\* Between two tokens the buffer holds the bytes received and not yet scanned,
\* although yy_get_next_buffer moves the text and enlarges the buffer.
THEOREM ScannerLosesNothing == Spec => []NothingLost
<1>1. ASSUME ScanInv
      PROVE  NothingLost
  <2>1. SUFFICES ASSUME loc = "start"
                 PROVE  Slice([ch_buf EXCEPT ![c_buf_p] = hold], c_buf_p, n_chars)
                           = SubSeq(stream, consumed + 1, received)
    BY DEF NothingLost
  <2>2. PICK chars : chars = [ch_buf EXCEPT ![c_buf_p] = hold]
    OBVIOUS
  <2>3. Types /\ Holds(chars, c_buf_p)
    BY <1>1, <2>1, <2>2 DEF ScanInv
  <2>4. /\ c_buf_p \in Nat /\ n_chars \in Nat /\ n_chars - c_buf_p = Left /\ Left \in Nat
        /\ \A i \in c_buf_p .. n_chars - 1 : chars[i] = Byte(i - c_buf_p + 1)
    BY <2>3, TypeFacts DEF Holds
  <2>5. consumed + Left = received /\ received <= Len(stream) /\ n_chars = c_buf_p + Left
    BY <2>3, <2>4, TypeFacts DEF Left
  <2>6. PICK n \in Nat, from \in Nat, to \in Nat :
            n = Left /\ from = c_buf_p /\ to = n_chars
    BY <2>4
  <2>7. /\ to = from + n /\ consumed + n <= Len(stream) /\ consumed + n = received
        /\ \A i \in from .. to - 1 : chars[i] = Byte(i - from + 1)
    BY <2>4, <2>5, <2>6
  <2>8. Types
    BY <2>3
  <2>9. Slice(chars, from, to) = SubSeq(stream, consumed + 1, consumed + n)
    BY <2>7, <2>8, SliceIsInput
  <2> QED BY <2>2, <2>6, <2>7, <2>9
<1> QED BY <1>1, ScannerInvariant, PTL

\* yylex waits for gdb only with nothing to scan, inside a packet that is not
\* complete or after a stray NUL, however the bytes were cut up.
THEOREM ScannerHoldsNoTokenBack == Spec => []NoTokenHeldBack
<1>1. ASSUME ScanInv
      PROVE  NoTokenHeldBack
  BY <1>1, HeldBack DEF ScanInv, NoTokenHeldBack
<1> QED BY <1>1, ScannerInvariant, PTL

\* The tokens are those that the rules of scanner.l give for the whole input,
\* whatever the sizes of the buffer and of the pieces that read returns.
THEOREM ScannerFindsTheTokens == Spec => TokensOfTheInput
<1>1. ASSUME ScanInv, [Next]_vars
      PROVE  [consumed' # consumed => token' = TokenAt(consumed + 1)]_vars
  <2>1. CASE yy_find_action
    BY <1>1, <2>1, TokenStep
  <2>2. CASE ~yy_find_action
    <3>1. consumed' = consumed
      BY <1>1, <2>2 DEF Next, yylex, vars, BeginToken, yy_match, NulInText,
         yy_get_previous_state, TakeNul, ScanOn, MoveText, Grow, Read, EndOfInput,
         EndOfFile, ReadFails, Resume
    <3> QED BY <3>1
  <2> QED BY <2>1, <2>2
<1> QED BY <1>1, ScannerInvariant, PTL DEF Spec, TokensOfTheInput

\* the rule <<EOF>> is for an input that has been scanned
EndsWithNothingLeft == loc = "done" => consumed = Len(stream)

LEMMA EndStep ==
    ASSUME ScanInv, EndsWithNothingLeft, [Next]_vars
    PROVE  EndsWithNothingLeft'
<1>1. CASE EndOfFile
  <2>1. Types /\ AtRead /\ Reading /\ NothingRead /\ ~(number_to_move > 0)
    BY <1>1 DEF ScanInv, EndOfFile, Reading, TextLeft
  <2>2. received = Len(stream) /\ received \in Nat /\ consumed \in 0 .. received
    BY <2>1, NothingReadFacts DEF Types, InputOK
  <2>3. received - consumed = number_to_move
    BY <2>1 DEF AtRead, Left
  <2>4. consumed = Len(stream)
    BY <2>1, <2>2, <2>3
  <2>5. UNCHANGED <<stream, consumed>>
    BY <1>1 DEF EndOfFile, environment
  <2> QED BY <2>4, <2>5 DEF EndsWithNothingLeft
<1>2. CASE yylex /\ ~EndOfFile
  <2>1. loc' # "done"
    BY <1>2 DEF yylex, BeginToken, yy_match, yy_find_action, NulInText,
       yy_get_previous_state, Replaying, TakeNul, ScanOn, MoveText, Grow, Read,
       EndOfInput, Resume
  <2> QED BY <2>1 DEF EndsWithNothingLeft
<1>3. CASE ReadFails
  BY <1>3 DEF ReadFails, EndsWithNothingLeft
<1>4. CASE UNCHANGED vars
  BY <1>4 DEF vars, environment, EndsWithNothingLeft
<1> QED BY <1>1, <1>2, <1>3, <1>4 DEF Next

\* The scanner meets the end of the file only after every byte that gdb has sent
\* has been part of a token, also the bytes of a packet that the end has cut
\* short and that yy_get_next_buffer has moved: what EverythingScanned says of
\* the scanner when it has ended, for every input and every fragmentation.
THEOREM ScannerEndsWithNothingLeft == Spec => []EndsWithNothingLeft
<1>1. Init => EndsWithNothingLeft
  BY DEF Init, EndsWithNothingLeft
<1>2. ScanInv /\ EndsWithNothingLeft /\ [Next]_vars => EndsWithNothingLeft'
  BY EndStep
<1> QED BY <1>1, <1>2, ScannerInvariant, PTL DEF Spec
=============================================================================
