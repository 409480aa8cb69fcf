---------------------------- MODULE MCServerMain ----------------------------
EXTENDS ServerMain, TLC

CONSTANTS s0, s1, s2

(* -f 5, -f abc, -f 5s *)
Num(o, value) == [opt |-> o, arg |-> [digits |-> TRUE, rest |-> FALSE, value |-> value]]
Text(o) == [opt |-> o, arg |-> [digits |-> FALSE, rest |-> TRUE, value |-> 0]]
Unit(o) == [opt |-> o, arg |-> [digits |-> TRUE, rest |-> TRUE, value |-> 5]]
Missing(o) == [opt |-> o, arg |-> NoArg]
Plain(o) == [opt |-> o]

Edges == {-LongMax - 2, -1, 0, 1, IntMax, IntMax + 1, LongMax + 1}

(* Bound: the command lines. *)
SomeArgvs ==
    {<<>>,
     <<Num("f", 20), Num("s", 19)>>,
     <<Num("s", 5)>>,
     <<Num("s", 9), Num("f", 9)>>,
     <<Num("f", 30), Num("s", 40), Num("f", 50), Num("s", 60)>>,
     <<Num("f", 30), Num("f", 5)>>,
     <<Num("l", 2), Plain("operand"), Num("f", 40)>>,
     <<Num("l", 2), Plain("--"), Num("f", 40)>>,
     <<Plain("operand"), Plain("h")>>,
     <<Plain("k"), Num("f", 10), Num("s", 20)>>,
     <<Num("f", 3), Text("s"), Plain("h")>>,
     <<Num("f", 30), Plain("h"), Num("s", 0)>>,
     <<Unit("f")>>, <<Text("l")>>, <<Missing("s")>>, <<Num("l", 7), Missing("f")>>}
    \cup {<<Num(o, v)>> : o \in {"f", "s"}, v \in Edges}
    \cup {<<Num("l", v)>> : v \in {0, LongMax + 1}}

(* s0 and s1 are one user's, s2 is another's. *)
OwnUsers == {<<s0, s1>>, <<s1, s0>>}

Symmetry == Permutations(Clients)
=============================================================================
