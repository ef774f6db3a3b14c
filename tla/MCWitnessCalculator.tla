------------------------ MODULE MCWitnessCalculator ------------------------
(***************************************************************************)
(* A circuit with an input a and an array b of two, all different from each*)
(* other, and words of two hexadecimal digits.                             *)
(***************************************************************************)
EXTENDS WitnessCalculatorProps

MCSignals == [a |-> 1, b |-> 2]
MCHashOf  == [a |-> 10, b |-> 4660, c |-> 2570]      \* 000A, 1234, 0A0A

MCAsserts(set) == set[<<"b", 0>>] # set[<<"b", 1>>]
MCWitness(set) == <<1, (set[<<"a", 0>>] + set[<<"b", 1>>]) % Prime,
                    set[<<"a", 0>>], set[<<"b", 0>>], set[<<"b", 1>>]>>

Num(n)  == [num |-> n]
Arr(vs) == [array |-> vs]
Obj(a, b) == <<[key |-> "a", value |-> a], [key |-> "b", value |-> b]>>

MCInputs ==
    {Obj(Num(7), Arr(<<Num(0), Num(255)>>)),
     Reverse(Obj(Arr(<<Num(256)>>), Arr(<<Arr(<<Num(1)>>), Arr(<<>>), Num(65520)>>))),
     Obj(Num(65535), Arr(<<Num(2), Num(1)>>)),                 \* beyond the prime
     Obj(Num(65537), Arr(<<Num(2), Num(1)>>)),                 \* beyond the words
     Obj(Num(-1), Arr(<<Num(2), Num(1)>>)),
     Obj(Num(7), Arr(<<Num(3), Num(3)>>)),                     \* fails the assertion
     Obj(Num(7), Num(3)),                                      \* b has one element
     Obj(Num(7), Arr(<<Num(1), Num(2), Num(3)>>)),             \* b has three
     <<[key |-> "b", value |-> Arr(<<Num(1), Num(2)>>)]>>,     \* no a
     Obj(Num(7), Arr(<<Num(1), Num(2)>>)) \o <<[key |-> "c", value |-> Num(1)]>>}
=============================================================================
