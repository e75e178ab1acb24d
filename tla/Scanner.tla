------------------------------ MODULE Scanner ------------------------------
(***************************************************************************)
(* The scanner that flex generates from scanner.l, as scanner.c has it:    *)
(* the compressed automaton, the match loop of yylex (one step for each    *)
(* iteration), the end-of-buffer characters that may also be bytes of a    *)
(* packet, and yy_get_next_buffer, whose read returns as many bytes as     *)
(* have arrived.  Pointers into the buffer are indexes of it.  What the    *)
(* rules do with a token is in Protocol.                                   *)
(***************************************************************************)
EXTENDS Integers, Sequences

CONSTANTS
    YY_BUF_SIZE,       \* 16384 in the code
    YY_READ_BUF_SIZE,  \* 8192 in the code
    Streams            \* what gdb sends before it closes the connection

NUL == 0
Newline == 10
Hash == 35
Dollar == 36
Plus == 43
Minus == 45
HexDigits == {97, 98}
Other == 120
Junk == -1  \* a byte of malloc, or of realloc
Char == {NUL, Newline, Hash, Dollar, Plus, Minus, Other} \union HexDigits

ASSUME BufferAssumption ==
    YY_BUF_SIZE \in Nat \ {0} /\ YY_READ_BUF_SIZE \in Nat \ {0}
ASSUME StreamAssumption == Streams \subseteq Seq(Char)

VARIABLES
    stream,    \* the bytes that gdb sends
    received,  \* how many of them have been read
    ch_buf,    \* yy_ch_buf, of buf_size + 2 characters
    buf_size,
    status,    \* yy_buffer_status
    b_n_chars, \* yy_n_chars of the buffer
    n_chars,   \* yy_n_chars of the scanner, and its other fields:
    c_buf_p,
    text,      \* yytext_ptr
    hold,      \* yy_hold_char
    last,      \* yy_last_accepting_state and yy_last_accepting_cpos
    loc,       \* the place in yylex
    state,     \* yy_current_state
    cp,        \* yy_cp
    bp,        \* yy_bp
    consumed,  \* history: the bytes of the tokens up to now
    token      \* history: the last token, its rule and its text

environment == <<stream, received>>
buffer == <<ch_buf, buf_size, status, b_n_chars>>
vars == <<environment, buffer, n_chars, c_buf_p, text, hold, last, loc, state,
          cp, bp, consumed, token>>

-----------------------------------------------------------------------------
(* The automaton.  A state that is not explicit in chk/nxt goes on as its  *)
(* default state; state 13 is the one without transitions.                 *)

yy_ec(c) ==
    IF c = NUL THEN 0 ELSE IF c = Newline THEN 2 ELSE IF c = Hash THEN 3
    ELSE IF c = Dollar THEN 4 ELSE IF c = Plus THEN 5 ELSE IF c = Minus THEN 6
    ELSE IF c \in HexDigits THEN 7 ELSE 1

yy_accept == <<0, 0, 0, 6, 4, 5, 4, 1, 2, 0, 0, 0, 3, 0>>
yy_meta == <<0, 1, 1, 1, 2, 1, 1, 1>>
yy_base == <<0, 0, 0, 13, 14, 14, 9, 14, 14, 8, 3, 2, 14, 14, 7>>
yy_def == <<0, 13, 1, 13, 13, 13, 14, 13, 13, 14, 13, 13, 13, 0, 13>>
yy_nxt == <<0, 4, 5, 4, 6, 7, 8, 4, 9, 12, 11, 10, 10, 13, 3,
            13, 13, 13, 13, 13, 13, 13>>
yy_chk == <<0, 1, 1, 1, 1, 1, 1, 1, 14, 11, 10, 9, 6, 3, 13,
            13, 13, 13, 13, 13, 13, 13>>

\* an array of C, from 0
At(array, i) == array[i + 1]
Accept(s) == At(yy_accept, s)
JamBase == 14
JamState == 13
YY_END_OF_BUFFER == 6

\* the transition of a state on a class of characters, if it is explicit; else
\* the one of its default state, at most twice, since 13 is explicit on every class
Explicit(s, c) == At(yy_chk, At(yy_base, s) + c) = s
Entry(s, c) == At(yy_nxt, At(yy_base, s) + c)
Default(s) == At(yy_def, s)
DefaultClass(s, c) == IF Default(s) >= 14 THEN At(yy_meta, c) ELSE c

Goto(s, c) ==
    LET d == Default(s)
        dc == DefaultClass(s, c)
    IN  IF Explicit(s, c) THEN Entry(s, c)
        ELSE IF Explicit(d, dc) THEN Entry(d, dc)
        ELSE Entry(Default(d), DefaultClass(d, dc))

\* the loop goes on while the state has transitions: an interactive scanner
\* reads no character that it does not need
MutantContinues(s) == s # JamState
Continues(s) == At(yy_base, s) # JamBase

Accepting(s, p, before) ==
    IF Accept(s) # 0 THEN [state |-> s, cpos |-> p] ELSE before

\* the class of a character that is no end of buffer
TextClass(c) == IF c = NUL THEN 1 ELSE yy_ec(c)

\* the state after a NUL that is no end of buffer, 0 if there is none
yy_try_NUL_trans(s) == IF Goto(s, 1) = JamState THEN 0 ELSE Goto(s, 1)

-----------------------------------------------------------------------------
(* yylex *)

\* two end-of-buffer characters
yy_flush_buffer(chars) == [chars EXCEPT ![0] = NUL, ![1] = NUL]
yy_create_buffer(size) == yy_flush_buffer([i \in 0 .. size + 1 |-> Junk])

Init ==
    /\ stream \in Streams /\ received = 0
    /\ ch_buf = yy_create_buffer(YY_BUF_SIZE) /\ buf_size = YY_BUF_SIZE
    /\ status = "new" /\ b_n_chars = 0 /\ n_chars = 0
    /\ c_buf_p = 0 /\ text = 0 /\ hold = NUL
    /\ last = [state |-> 0, cpos |-> 0]
    /\ loc = "start" /\ state = 0 /\ cp = 0 /\ bp = 0
    /\ consumed = 0 /\ token = [rule |-> 0, text |-> <<>>]

BeginToken ==
    /\ loc = "start"
    /\ ch_buf' = [ch_buf EXCEPT ![c_buf_p] = hold]
    /\ cp' = c_buf_p /\ bp' = c_buf_p
    /\ state' = 1 /\ loc' = "match"
    /\ UNCHANGED <<environment, buf_size, status, b_n_chars, n_chars, c_buf_p,
                   text, hold, last, consumed, token>>

yy_match ==
    /\ loc = "match"
    /\ last' = Accepting(state, cp, last)
    /\ state' = Goto(state, yy_ec(ch_buf[cp]))
    /\ cp' = cp + 1
    /\ loc' = IF Continues(state') THEN "match" ELSE "find"
    /\ UNCHANGED <<environment, buffer, n_chars, c_buf_p, text, hold, bp,
                   consumed, token>>

\* the end and the rule of the token, after backing up
BackUp == Accept(state) = 0
EndOfToken == IF BackUp THEN last.cpos ELSE cp
Action == Accept(IF BackUp THEN last.state ELSE state)

YY_DO_BEFORE_ACTION ==
    /\ text' = bp
    /\ hold' = ch_buf[EndOfToken]
    /\ ch_buf' = [ch_buf EXCEPT ![EndOfToken] = NUL]
    /\ c_buf_p' = EndOfToken /\ cp' = EndOfToken

Slice(chars, from, to) == [i \in 1 .. to - from |-> chars[from + i - 1]]

\* the rules 1 to 5, or the end of the buffer; without a rule to back up to
\* the scanner would loop for ever in case 0
IsRule == Action \in 1 .. 5

yy_find_action ==
    /\ loc = "find"
    /\ YY_DO_BEFORE_ACTION
    /\ consumed' = IF IsRule THEN consumed + (EndOfToken - bp) ELSE consumed
    /\ token' = IF IsRule
                THEN [rule |-> Action, text |-> Slice(ch_buf, bp, EndOfToken)]
                ELSE token
    /\ loc' = IF IsRule THEN "start"
              ELSE IF Action = YY_END_OF_BUFFER THEN "end_of_buffer"
              ELSE "jammed"
    /\ UNCHANGED <<environment, buf_size, status, b_n_chars, n_chars, last,
                   state, bp>>

-----------------------------------------------------------------------------
(* The case YY_END_OF_BUFFER *)

Restored == [ch_buf EXCEPT ![cp] = hold]
CharsNow == IF status = "new" THEN b_n_chars ELSE n_chars
StatusNow == IF status = "new" THEN "normal" ELSE status
number_to_move == c_buf_p - text - 1

MutantReallyNul == c_buf_p < CharsNow
ReallyNul == c_buf_p <= CharsNow

\* a NUL that belongs to the text: the scanner goes back to it
NulInText ==
    /\ loc = "end_of_buffer" /\ ReallyNul
    /\ c_buf_p' = text + number_to_move
    /\ ch_buf' = Restored
    /\ n_chars' = CharsNow /\ status' = StatusNow
    /\ cp' = text /\ bp' = text /\ state' = 1
    /\ loc' = "replay_NUL"
    /\ UNCHANGED <<environment, buf_size, b_n_chars, text, hold, last, consumed,
                   token>>

\* yy_get_previous_state, one step for each iteration: the text up to c_buf_p is
\* scanned again, without the end-of-buffer meaning of NUL
Replaying == loc \in {"replay_NUL", "replay_match", "replay_find"}

MutantPreviousState ==
    /\ Replaying /\ cp < c_buf_p
    /\ state' = Goto(state, TextClass(ch_buf[cp]))
    /\ cp' = cp + 1
    /\ UNCHANGED <<environment, buffer, n_chars, c_buf_p, text, hold, last, loc,
                   bp, consumed, token>>

yy_get_previous_state ==
    /\ Replaying /\ cp < c_buf_p
    /\ last' = Accepting(state, cp, last)
    /\ state' = Goto(state, TextClass(ch_buf[cp]))
    /\ cp' = cp + 1
    /\ UNCHANGED <<environment, buffer, n_chars, c_buf_p, text, hold, loc, bp,
                   consumed, token>>

\* the NUL itself, and on
TakeNul ==
    /\ loc = "replay_NUL" /\ cp = c_buf_p
    /\ LET next == yy_try_NUL_trans(state)
       IN  /\ state' = IF next = 0 THEN state ELSE next
           /\ c_buf_p' = IF next = 0 THEN c_buf_p ELSE c_buf_p + 1
           /\ loc' = IF next = 0 THEN "find" ELSE "match"
    /\ last' = Accepting(state, cp, last)
    /\ cp' = c_buf_p'
    /\ UNCHANGED <<environment, buffer, n_chars, text, hold, bp, consumed, token>>

\* EOB_ACT_CONTINUE_SCAN goes on with the text that was moved,
\* EOB_ACT_LAST_MATCH looks for the token that it starts with
ScanOn ==
    /\ loc \in {"replay_match", "replay_find"} /\ cp = c_buf_p
    /\ loc' = IF loc = "replay_match" THEN "match" ELSE "find"
    /\ UNCHANGED <<environment, buffer, n_chars, c_buf_p, text, hold, last, state,
                   cp, bp, consumed, token>>

\* yy_get_next_buffer up to the read: the text is moved to the start
MoveText ==
    /\ loc = "end_of_buffer" /\ ~ReallyNul
    /\ n_chars' = CharsNow /\ status' = StatusNow
    /\ loc' = IF c_buf_p > CharsNow + 1 THEN "end_of_buffer_missed" ELSE "read"
    /\ ch_buf' = [i \in DOMAIN ch_buf |->
                     IF i < number_to_move THEN Restored[text + i]
                     ELSE Restored[i]]
    /\ UNCHANGED <<environment, buf_size, b_n_chars, c_buf_p, text, hold, last,
                   state, cp, bp, consumed, token>>

\* the buffer doubles until there is room for a character after the text
MutantNoRoom == buf_size <= number_to_move
NoRoom == buf_size - number_to_move - 1 <= 0

Grow ==
    /\ loc = "read" /\ status # "eof_pending" /\ NoRoom
    /\ buf_size' = 2 * buf_size
    /\ ch_buf' = [i \in 0 .. 2 * buf_size + 1 |->
                     IF i \in DOMAIN ch_buf THEN ch_buf[i] ELSE Junk]
    /\ UNCHANGED <<environment, status, b_n_chars, n_chars, c_buf_p, text, hold,
                   last, loc, state, cp, bp, consumed, token>>

\* then the read is made, or left out because it has already returned nothing
Reading == loc = "read" /\ (status # "eof_pending" => ~NoRoom)

-----------------------------------------------------------------------------
(* yy_get_next_buffer after the read of so many characters *)

\* the characters after the text, then two end-of-buffer characters
MutantSentinels(n) == {n}
Sentinels(n) == {n, n + 1}

Filled(fragment) ==
    LET n == number_to_move + Len(fragment)
    IN  [i \in DOMAIN ch_buf |->
            IF i \in Sentinels(n) THEN NUL
            ELSE IF i \in number_to_move .. n - 1
            THEN fragment[i - number_to_move + 1]
            ELSE ch_buf[i]]

\* the text starts the buffer and is scanned again
Resume(fragment, place) ==
    /\ ch_buf' = Filled(fragment)
    /\ n_chars' = number_to_move + Len(fragment)
    /\ b_n_chars' = Len(fragment)
    /\ text' = 0 /\ bp' = 0
    /\ c_buf_p' = number_to_move
    /\ cp' = 0 /\ state' = 1
    /\ loc' = place
    /\ UNCHANGED <<stream, buf_size, hold, last, consumed, token>>

num_to_read ==
    LET room == buf_size - number_to_move - 1
    IN  IF room > YY_READ_BUF_SIZE THEN YY_READ_BUF_SIZE ELSE room

\* read returns some of the bytes that have arrived
Read ==
    /\ Reading /\ status # "eof_pending"
    /\ \E n \in 1 .. num_to_read :
          /\ received + n <= Len(stream)
          /\ received' = received + n
          /\ Resume(SubSeq(stream, received + 1, received + n), "replay_match")
    /\ UNCHANGED status

\* read returns 0 when gdb has closed the connection and everything has been
\* read, or when it is asked for nothing; it is not called twice then
NothingRead ==
    \/ status = "eof_pending"
    \/ received = Len(stream)
    \/ num_to_read = 0

MutantTextLeft == c_buf_p - text > 0
TextLeft == number_to_move > 0

EndOfInput ==
    /\ Reading /\ NothingRead /\ TextLeft
    /\ Resume(<<>>, "replay_find")
    /\ status' = "eof_pending"
    /\ UNCHANGED received

\* an empty buffer again (yy_init_buffer, yy_load_buffer_state)
yyrestart ==
    /\ ch_buf' = yy_flush_buffer(ch_buf)
    /\ status' = "new" /\ b_n_chars' = 0 /\ n_chars' = 0
    /\ c_buf_p' = 0 /\ text' = 0 /\ hold' = NUL

\* the rule <<EOF>> returns
EndOfFile ==
    /\ Reading /\ NothingRead /\ ~TextLeft
    /\ yyrestart
    /\ loc' = "done"
    /\ UNCHANGED <<environment, buf_size, last, state, cp, bp, consumed, token>>

\* read fails: the connection is reset; the fatal error exits the process
ReadFails ==
    /\ Reading /\ status # "eof_pending"
    /\ loc' = "exit"
    /\ UNCHANGED <<environment, buffer, n_chars, c_buf_p, text, hold, last,
                   state, cp, bp, consumed, token>>

yylex ==
    \/ BeginToken \/ yy_match \/ yy_find_action
    \/ NulInText \/ yy_get_previous_state \/ TakeNul \/ ScanOn
    \/ MoveText \/ Grow \/ Read \/ EndOfInput \/ EndOfFile

Next == yylex \/ ReadFails

Spec == Init /\ [][Next]_vars /\ WF_vars(yylex)

-----------------------------------------------------------------------------
TypeOK ==
    /\ received \in 0 .. Len(stream) /\ consumed \in 0 .. received
    /\ buf_size \in Nat \ {0}
    /\ ch_buf \in [0 .. buf_size + 1 -> Char \union {Junk}]
    /\ status \in {"new", "normal", "eof_pending"}
    /\ b_n_chars \in 0 .. buf_size /\ n_chars \in 0 .. buf_size
    /\ c_buf_p \in 0 .. buf_size + 1 /\ text \in 0 .. buf_size
    /\ hold \in Char
    /\ state \in 0 .. 14 /\ last.state \in 0 .. 12
    /\ cp \in 0 .. buf_size + 2 /\ bp \in 0 .. buf_size

\* The scanner never gets to the ends that flex takes for impossible: the end
\* of the buffer is never missed, and there is always an accepted prefix of the
\* text to back up to, one of this token and not of an earlier one, although a
\* packet is cut in pieces, moved in the buffer and contains NUL bytes.
NoInternalError ==
    /\ loc \notin {"end_of_buffer_missed", "jammed"}
    /\ loc = "find" /\ BackUp => last.cpos \in bp + 1 .. cp

\* Between two tokens the buffer holds the bytes that have been received and
\* not yet scanned, in order, whatever the fragments were and however often the
\* buffer was moved or enlarged.
NothingLost ==
    loc = "start" =>
        Slice([ch_buf EXCEPT ![c_buf_p] = hold], c_buf_p, n_chars)
            = SubSeq(stream, consumed + 1, received)

\* what scanner.l says of the bytes that start at an index of the stream
Packet(i, j) ==
    /\ stream[i] = Dollar /\ stream[j] = Hash
    /\ \A k \in i + 1 .. j - 1 : stream[k] \notin {Dollar, Hash}
    /\ stream[j + 1] \in HexDigits /\ stream[j + 2] \in HexDigits

Rule(c) ==
    IF c = Plus THEN 1 ELSE IF c = Minus THEN 2
    ELSE IF c = Newline THEN 5 ELSE 4

TokenAt(i) ==
    LET ends == {j \in i + 1 .. Len(stream) - 2 : Packet(i, j)}
    IN  IF ends = {} THEN [rule |-> Rule(stream[i]), text |-> <<stream[i]>>]
        ELSE [rule |-> 3,
              text |-> SubSeq(stream, i, (CHOOSE j \in ends : TRUE) + 2)]

\* The tokens are those of the rules of scanner.l on the whole input, one after
\* the other, whatever the fragments: a packet is one token although it comes
\* in pieces, with NUL bytes in it, and a '$' that starts no packet costs one
\* character only.
TokensOfTheInput ==
    [][consumed' # consumed => token' = TokenAt(consumed + 1)]_vars

\* yylex waits for gdb only with nothing to scan, inside a packet that is not
\* complete, or after a stray NUL: no token is held back until more arrives,
\* for which gdb, waiting for the answer, would wait in turn.
PacketPrefix(s) ==
    /\ s[1] = Dollar
    /\ \A k \in 2 .. Len(s) : s[k] # Dollar
    /\ \A k \in 2 .. Len(s) : s[k] = Hash =>
          k = Len(s) \/ (k = Len(s) - 1 /\ s[Len(s)] \in HexDigits)

NoTokenHeldBack ==
    loc = "read" /\ status # "eof_pending" =>
        LET rest == SubSeq(stream, consumed + 1, received)
        IN  rest \in {<<>>, <<NUL>>} \/ PacketPrefix(rest)

\* When gdb has closed the connection every byte has been scanned in the end,
\* also the ones of a packet that has been cut short, unless the connection is
\* reset.
EverythingScanned ==
    <>(loc = "exit" \/ (loc = "done" /\ consumed = Len(stream)))
=============================================================================
