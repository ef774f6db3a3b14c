----------------------- MODULE WitnessCalculatorProps -----------------------
(***************************************************************************)
(* What a caller of the witness calculator may rely on.                    *)
(***************************************************************************)
EXTENDS WitnessCalculator

\* The numbers an input object gives to a position of a key, as a reader understands it.
Given(input, s, position) ==
    {i \in DOMAIN Elements(input) : /\ Elements(input)[i].key = s
                                    /\ Elements(input)[i].position = position}

\* An input object fits the circuit: every element of it is an input, every input is
\* given exactly once, and the assertions hold.  Key order and nesting do not matter.
InRange(input) == \A i \in DOMAIN Elements(input) :
                     Elements(input)[i].number \in FieldNumbers
Fits(input) ==
    /\ \A i \in DOMAIN Elements(input) :
          <<Elements(input)[i].key, Elements(input)[i].position>> \in InputSignals
    /\ \A s \in InputSignals : Cardinality(Given(input, s[1], s[2])) = 1

Assignment(input) ==
    [s \in InputSignals |->
        Elements(input)[CHOOSE i \in Given(input, s[1], s[2]) : TRUE].number % Prime]

Valid(input) == Fits(input) /\ Asserts(Assignment(input))

\* A circuit computes numbers of its field, as many as it says.
ASSUME CircuitAssumption ==
    \A input \in Inputs : Fits(input) =>
       Witness(Assignment(input)) \in [1..witnessSize -> 0..(Prime - 1)]

\* A call is rejected exactly if its input does not fit the circuit or fails one of its
\* assertions, whether or not the caller asks for the assertions, and whatever earlier
\* calls, failed or successful, have left in the instance.  (Numbers that do not fit
\* n32 words, and negative ones, become other numbers, and are excepted.)
RejectedIfInvalid ==
    \A c \in Calls :
       call[c] # NotMade /\ InRange(call[c].input) =>
          (call[c].at = "rejected" <=> ~ Valid(call[c].input))

\* How a reader of the .wtns format finds prime and witness.
Words(file, from) == fromArray32(Reverse(SubSeq(file, from, from + n32 - 1)))
FileLength(file, at) == file[at] + Radix * file[at + 1]
After1(file) == 6 + FileLength(file, 5) \div BytesPerWord
ReadPrime(file) == Words(file, 8)
ReadWitness(file) ==
    LET start == After1(file) + 4
        words == FileLength(file, After1(file) + 2) \div BytesPerWord
    IN  [i \in 1..(words \div n32) |-> Words(file, start + (i - 1) * n32)]

Denoted(method, result) ==
    CASE method = "calculateWitness"    -> result
      [] method = "calculateBinWitness" ->
            [i \in 1..(Len(result) \div n32) |-> Words(result, (i - 1) * n32 + 1)]
      [] method = "calculateWTNSBin"    -> ReadWitness(result)

\* A call returns the witness of its own input, in whichever form, unless another call
\* on the same object began during its await: the instance has been given the inputs of
\* that one by then.  Calls one after the other, also after failed ones, do not disturb.
OwnWitness ==
    \A c \in Calls \ overlapped :
       call[c].at = "resolved" /\ InRange(call[c].input) =>
          /\ Denoted(call[c].method, call[c].result) = Witness(Assignment(call[c].input))
          /\ call[c].method = "calculateWTNSBin" => ReadPrime(call[c].result) = Prime
=============================================================================
