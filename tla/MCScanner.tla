----------------------------- MODULE MCScanner -----------------------------
(***************************************************************************)
(* All short inputs, packets cut short, broken and complete, with NUL and  *)
(* newline in them and tokens behind them, in every fragmentation, through *)
(* a buffer of two characters that has to grow and reads of at most three. *)
(***************************************************************************)
EXTENDS Scanner

Sequences(chars, n) == UNION {[1 .. k -> chars] : k \in 0 .. n}

Body == {NUL, Hash, Dollar, 97}
Ends == {<<>>, <<Plus>>, <<NUL, Newline, Minus>>}

MCStreams ==
    Sequences({NUL, Newline, Hash, Dollar, Plus, Minus, 97}, 3)
    \union {<<Dollar>> \o body \o end : body \in Sequences(Body, 4), end \in Ends}
    \union {<<Dollar>> \o body \o <<Hash, 97, 98>> \o end :
                body \in Sequences({NUL, Other, 98}, 2), end \in Ends}
=============================================================================
