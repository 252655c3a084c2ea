---------------------------- MODULE MCSerialize ----------------------------
EXTENDS Serialize

B == [type |-> "b"]
C == [type |-> "c"]
I == [type |-> "i"]
S == [type |-> "s"]
S2 == [type |-> "S", vallen |-> 2]
ArrayOf(f) == [type |-> "a", format |-> f]
Array2(f) == [type |-> "A", format |-> f, vallen |-> 2]
Table(isint, f) == [type |-> "h", isint |-> isint, format |-> f]
Field(key, f) == [key |-> <<key>>, format |-> f]
Object(fields) == [type |-> "o", fields |-> fields]

Msg(w, r, v) == [writer |-> w, reader |-> r, val |-> v]
Same(f, v) == Msg(f, f, v)
Struct(p, q, x, y) == (<<p>> :> x) @@ (<<q>> :> y)

Inner == Object(<<Field("x", C), Field("y", S)>>)
Old == Object(<<Field("p", I), Field("q", S)>>)
New == Object(<<Field("q", S), Field("n", ArrayOf(I)), Field("p", I)>>)
Deep == Object(<<Field("p", I), Field("d", Inner)>>)
WithTable == Object(<<Field("t", Table(TRUE, B)), Field("p", I)>>)
Moved == Object(<<Field("p", S), Field("q", S)>>)

\* The last five do not fit, or not in front of one another.
MessageList == <<
  Same(I, 7),
  Same(C, ";"),
  Same(S, <<";", "]", "}", "i", ":">>),
  Same(S, << >>),
  Msg(S2, S2, <<"a", ";">>),
  Msg(S2, [S2 EXCEPT !.vallen = 1], <<"a", ";">>),
  Same(ArrayOf(S), <<<<"]">>, << >>, <<"[", ";">>>>),
  Same(ArrayOf(I), << >>),
  Same(Array2(ArrayOf(B)), <<<<TRUE, FALSE>>, << >>>>),
  Same(Deep, Struct("p", "d", 1, Struct("x", "y", "}", <<"s", ":">>))),
  Msg(Deep, Old, Struct("p", "d", 1, Struct("x", "y", "{", <<"}", ";">>))),
  Msg(Old, New, Struct("p", "q", 3, <<"s">>)),
  Msg(New, Old, (<<"q">> :> <<"1">>) @@ Struct("n", "p", <<4, 5>>, 2)),
  Same(Table(TRUE, I), <<[k \in 0 .. 2 |-> k + 1]>>),
  Same(Table(TRUE, C), << << >> >>),
  Same(Table(FALSE, B), <<(<<")", ";">> :> TRUE)>>),
  Msg(WithTable, Old, Struct("t", "p", <<[k \in 3 .. 4 |-> TRUE]>>, 6)),
  Same(Table(FALSE, I), <<Struct("k", "l", 1, 2)>>),
  Msg(ArrayOf(I), Array2(I), <<1, 2, 3>>),
  Msg(Deep, Old, Struct("p", "d", 1, Struct("x", "y", ";", <<"z">>))),
  Msg(Old, Moved, Struct("p", "q", 3, <<"s">>)),
  Msg(I, S, 7)>>
=============================================================================
