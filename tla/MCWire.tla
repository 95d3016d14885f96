------------------------------- MODULE MCWire -------------------------------
(* Nodes with none, one and two fit interfaces among others, listed in     *)
(* another order than that of their names, up to the wrap of the sequence. *)
EXTENDS Wire

Full == {"UP", "RUNNING", "MULTICAST"}
If(name, family, addr, flags) ==
  [name |-> name, family |-> family, addr |-> addr, flags |-> flags, data |-> family = "packet"]
WithoutData(x) == [x EXCEPT !.data = FALSE]

Found ==
  { << If(9, "packet", <<0, 0, 0, 0, 0, 0>>, {"UP"}), If(9, "inet", <<127, 0, 0, 1>>, Full),
       If(9, "inet6", <<0, 0, 0, 0, 0, 0, 0, 1>>, Full),
       If(5, "inet6", <<65152, 0, 0, 0, 0, 0, 0, 1>>, Full),
       If(6, "inet6", <<65152, 0, 0, 0, 0, 0, 1, 2>>, Full) >>,
    << If(2, "inet", <<172, 31, 2, 3>>, Full), If(1, "inet", <<10, 0, 0, 5>>, {"UP", "MULTICAST"}),
       If(1, "packet", <<2, 66, 172, 255, 0, 9>>, Full),
       If(1, "inet6", <<8193, 3512, 1, 0, 5, 6, 0, 65535>>, Full), If(3, "none", <<>>, Full) >>,
    << If(1, "inet", <<172, 32, 0, 1>>, Full), If(3, "inet", <<10, 255, 199, 100>>, Full),
       If(2, "inet", <<192, 168, 1, 9>>, Full), If(4, "other", <<>>, Full),
       WithoutData(If(5, "packet", <<2, 66, 172, 255, 0, 8>>, Full)) >>,
    <<>> }

\* A whole address and a line of the header.
Lasts == { <<2, 0, 3, Sep, 0, Sep, 1, 1, 3, Sep, 7>>, <<Sep, 1, 7>> }
App   == {[type |-> 1, version |-> 259]}
Rests == {[i \in 1..12 |-> 17 * i]}
=============================================================================
