------------------------------ MODULE MCService ------------------------------
(* The service control with a handful of commands and servers.             *)
EXTENDS Service, TLC

Use(orderly, wild) == [orderly |-> orderly, crashes |-> wild, stray |-> wild, stuck |-> orderly]

Orderly == {Use(TRUE, TRUE)}
AnyUse == Orderly \cup {Use(FALSE, wild) : wild \in BOOLEAN}

\* Arguments of every kind, known and unknown, with values and without.
Arguments ==
  << Flags(<<"s">>, NULL), Flags(<<"s">>, "start"), Flags(<<"s">>, ""), Flags(<<"b", "s">>, NULL),
    Flags(<<"b">>, NULL), Flags(<<"H">>, NULL), Flags(<<"H", "s">>, NULL), Flags(<<"H", "x">>, NULL),
    Flags(<<"x", "H", "s">>, NULL), Flags(<<"v">>, NULL),
    Long("service", NULL), Long("service", "stop"), Long("service", ""),
    Long("host", "other"), Long("help", NULL), Long("hide-args", "start"), Long("conns", NULL),
    Dash, DoubleDash, Word("start"), Word("stop") >>

NoLines == << >>
\* Every line of up to three arguments, some more than once.
N == Len(Arguments) + 1
At(i) == IF i = 0 THEN << >> ELSE <<Arguments[i]>>
ShortLines == [n \in 1 .. N * N * N |->
                 At(n % N) \o At((n \div N) % N) \o At((n \div (N * N)) % N)]

Alike == Permutations(Cmd) \cup Permutations(Pid)
===============================================================================
