----------------------------- MODULE MCFormats -----------------------------
(* Values of every type, with one key for those that JSON cannot hold as they
   are and one for plain values; the entries have all fields between them. *)
EXTENDS Formats

Raw(s)   == Py("bytes", s)
Str(s)   == Py("str", s)
Num(n)   == Py("int", n)

Put(k, x) == [NoEntry EXCEPT !.op = 2, !.table = <<116>>, !.key = k, !.value = x, !.ts = 7]

OddValues ==
  { Raw(<<0>>), Py("list", <<Raw(<<1>>), Num(0)>>), Py("tuple", <<Num(1), Str(<<>>)>>),
    Py("dict", <<<<Num(1), Num(1)>>, <<Str(<<49>>), Num(2)>>>>), Py("object", 0) }

Deep == Py("dict", <<<<Str(<<97>>), Py("list", <<Nil, Py("float", <<49>>), Py("bool", FALSE)>>)>>>>)

MCEntries ==
  {Put(<<>>, x) : x \in OddValues} \cup
  { Put(<<107>>, Nil),
    Put(<<107>>, Deep),
    [Put(<<107>>, Py("bool", TRUE)) EXCEPT !.ts = 0],
    [Put(<<107>>, Num(-12)) EXCEPT !.ts = 700, !.tx = <<120>>],
    [Put(<<107>>, Str(<<64, 65>>)) EXCEPT !.ts = -5,
       !.metadata = <<<<<<109>>, <<>>>>, <<<<>>, <<110>>>>>>] }

MCForeign ==
  { [field |-> 9, wire |-> 5, payload |-> <<1, 2, 3, 0>>],
    [field |-> 2, wire |-> 1, payload |-> [i \in 1..8 |-> 1]],
    [field |-> 9, wire |-> 3, payload |-> <<>>] }

MCUnknown == {Varint(9, 700), Delimited(8, <<1, 2, 3>>), Delimited(1, <<5>>), Varint(4, 1)}

============================================================================
