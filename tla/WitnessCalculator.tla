------------------------- MODULE WitnessCalculator -------------------------
(***************************************************************************)
(* The witness calculator that circom puts beside every compiled circuit   *)
(* (assignment-3/circuits/*/*_js/witness_calculator.js, three identical    *)
(* copies).  One object drives one WebAssembly instance, and its methods   *)
(* are async: they set the inputs, await, and only then read the witness.  *)
(* JavaScript runs one thing at a time, so every action is the code        *)
(* between two awaits, and calls on one object interleave at the awaits.   *)
(*                                                                         *)
(* External: the compiled circuit, a table of input signals with their     *)
(* sizes, its assertions and its witness.  Words have HexPerWord digits    *)
(* (8 of base 16 in the code) and numbers n32 words.                       *)
(***************************************************************************)
EXTENDS Powers, SequencesExt, FiniteSetsExt

CONSTANTS
    HexBase, HexPerWord,       \* 16 and 8
    n32,                       \* words of a field element
    Prime,
    witnessSize,
    Signals,                   \* input signal -> its size
    HashOf,                    \* name -> its 64 bits of FNV-1a
    Asserts(_), Witness(_),    \* of an assignment of the input signals
    Calls,                     \* calls of the object's methods, each made once
    Inputs,                    \* objects: sequences of [key, value]
    MaxNesting                 \* bound: how deep arrays in them are nested

Radix == Power(HexBase, HexPerWord)
FieldNumbers == 0..(Power(Radix, n32) - 1)         \* those of n32 words

InputSignals == UNION {{<<s, i>> : i \in 0..(Signals[s] - 1)} : s \in DOMAIN Signals}

\* A JavaScript value is [num |-> n] or [array |-> its elements].
Values ==
    LET of[n \in 0..MaxNesting] ==
           IF n = 0 THEN [num : Int] ELSE of[n - 1] \cup [array : Seq(of[n - 1])]
    IN  of[MaxNesting]

ASSUME WitnessAssumption ==
    /\ HexBase \in Nat \ {0, 1} /\ HexPerWord \in Nat \ {0} /\ n32 \in Nat \ {0}
    /\ Prime \in FieldNumbers \ {0, 1}
    /\ witnessSize \in Nat \ {0}                   \* section lengths fit one word
    /\ 4 * n32 * witnessSize < Radix /\ 8 + 4 * n32 < Radix
    /\ \A name \in DOMAIN HashOf : HashOf[name] \in 0..(Radix * Radix - 1)
    /\ \A a, b \in DOMAIN HashOf : HashOf[a] = HashOf[b] => a = b
    /\ DOMAIN Signals \subseteq DOMAIN HashOf
    /\ IsFiniteSet(InputSignals) /\ InputSignals # {}
    /\ \A s \in DOMAIN Signals : Signals[s] \in Nat
    /\ MaxNesting \in Nat
    /\ \A input \in Inputs : input \in Seq([key : DOMAIN HashOf, value : Values])

VARIABLES
    instance,          \* the memory of the WebAssembly instance
    call,              \* call -> its progress
    overlapped         \* history: calls during whose await another one began

vars == <<instance, call, overlapped>>

-----------------------------------------------------------------------------
(* Numbers, words and names. *)

\* The digits of a number, the first one most significant; none for 0.  Division of
\* BigInt truncates, so those of a negative number are negative.
Digits(base, number) ==
    LET size == IF number >= 0 THEN number ELSE -number
        of[n \in 0..size] == IF n = 0 THEN <<>> ELSE Append(of[n \div base], n % base)
    IN  IF number >= 0 THEN of[size] ELSE [i \in DOMAIN of[size] |-> -of[size][i]]

Padded(ds, size) == [i \in 1..Max({0, size - Len(ds)}) |-> 0] \o ds

toArray32(number, size) == Padded(Digits(Radix, number), size)

Number(base, ds) ==
    LET sum[i \in 0..Len(ds)] == IF i = 0 THEN 0 ELSE sum[i - 1] * base + ds[i]
    IN  sum[Len(ds)]
fromArray32(words) == Number(Radix, words)

\* The numbers in a value, in order: arrays are opened, those within them next.
Opened(values) ==
    FlattenSeq([i \in DOMAIN values |->
        IF "num" \in DOMAIN values[i] THEN <<values[i]>> ELSE values[i].array])

flatArray(value) ==
    LET fill[n \in 0..MaxNesting] == IF n = 0 THEN <<value>> ELSE Opened(fill[n - 1])
    IN  [i \in DOMAIN fill[MaxNesting] |-> fill[MaxNesting][i].num]

\* The hash in hexadecimal, with leading zeros, and the two words parsed from it.
PadHash(hex) == Padded(hex, 2 * HexPerWord)

fnvHash(name) ==
    LET hex == PadHash(Digits(HexBase, HashOf[name]))
    IN  <<Number(HexBase, SubSeq(hex, 1, HexPerWord)),
          Number(HexBase, SubSeq(hex, HexPerWord + 1, 2 * HexPerWord))>>

-----------------------------------------------------------------------------
(* The instance, as the JavaScript uses it. *)

SignalOf(hash) == {s \in DOMAIN Signals : HashOf[s] = hash[1] * Radix + hash[2]}

\* The witness elements of an instance that has not run the circuit: of no account.
NoWitness == [i \in 1..witnessSize |-> 0]
Cleared(asserting) == [set |-> <<>>, asserting |-> asserting, witness |-> NoWitness,
                       failed |-> FALSE]

\* Words written to the shared memory are 32 bits wide; the first is least significant.
Stored(words) == Number(Radix, [j \in 1..n32 |-> words[j] % Radix])

\* setInputSignal fails if there is no such signal, if it has no such position, or if
\* that was set already; the last input runs the circuit, which may fail an assertion.
SetInputSignal(inst, hash, position, words) ==
    LET found == {<<s, position>> : s \in SignalOf(hash)} \cap InputSignals
        ok == found # {} /\ found \cap DOMAIN inst.set = {}
        input == CHOOSE x \in found : TRUE
        set == [x \in {input} \cup DOMAIN inst.set |->
                   IF x = input THEN Stored(words) % Prime ELSE inst.set[x]]
        runs == DOMAIN set = InputSignals
    IN  IF ~ ok THEN [inst EXCEPT !.failed = TRUE]
        ELSE [inst EXCEPT !.set = set,
                          !.witness = IF runs THEN Witness(set) ELSE @,
                          !.failed = runs /\ inst.asserting /\ ~ Asserts(set)]

-----------------------------------------------------------------------------
(* The class. *)

\* The builder's options are an object in any case, so every instance checks assertions,
\* whatever a call asks for.
AssertingOnDemand(sanityCheck) == sanityCheck
Asserting(sanityCheck) == TRUE

InstanceInit(asserting) == Cleared(asserting)

\* The elements of an input object in the order they are set.
Elements(input) ==
    FlattenSeq([k \in DOMAIN input |->
        LET fArr == flatArray(input[k].value)
        IN  [i \in DOMAIN fArr |-> [key |-> input[k].key, position |-> i - 1,
                                    number |-> fArr[i]]]])

\* _doCalculateWitness: forEach ends at the first element that fails.  Of a number with
\* more than n32 words the first n32 are written.
DoCalculateWitness(input, sanityCheck) ==
    LET es == Elements(input)
        SetOne(inst, e) ==
           IF inst.failed THEN inst
           ELSE SetInputSignal(inst, fnvHash(e.key), e.position,
                               SubSeq(toArray32(e.number, n32), 1, n32))
        after[i \in 0..Len(es)] == IF i = 0 THEN InstanceInit(Asserting(sanityCheck))
                                   ELSE SetOne(after[i - 1], es[i])
        last == after[Len(es)]
        NotAllSet == Cardinality(DOMAIN last.set) < Cardinality(InputSignals)
    IN  [last EXCEPT !.failed = @ \/ NotAllSet]

\* The words of witness element i as they are read from the shared memory, least
\* significant first.
WitnessWords(i) == Reverse(toArray32(instance.witness[i], n32))
AllWords == FlattenSeq([i \in 1..witnessSize |-> WitnessWords(i)])

InMemoryOrder == [i \in 1..witnessSize |-> fromArray32(WitnessWords(i))]
calculateWitness ==
    [i \in 1..witnessSize |-> fromArray32(Reverse(WitnessWords(i)))]

\* A length as two words: the first and the second eight digits of its hexadecimal form.
LengthWords(length) ==
    LET hex == Digits(HexBase, length)
        Slice(from, to) == SubSeq(hex, from, Min({to, Len(hex)}))
    IN  <<Number(HexBase, Slice(1, HexPerWord)),
          Number(HexBase, Slice(HexPerWord + 1, 2 * HexPerWord))>>

\* The file: magic and version, number of sections, then sections with id and length.
BytesPerWord == 4
n8 == n32 * BytesPerWord
SectionLength1 == 8 + n8
SectionLength2 == n8 * witnessSize

calculateWTNSBin ==
    <<"wtns", 2, 2>>
    \o <<1>> \o LengthWords(SectionLength1)
    \o <<n8>> \o Reverse(toArray32(Prime, n32)) \o <<witnessSize>>
    \o <<2>> \o LengthWords(SectionLength2) \o AllWords

Result(method) ==
    CASE method = "calculateWitness"    -> calculateWitness
      [] method = "calculateBinWitness" -> AllWords
      [] method = "calculateWTNSBin"    -> calculateWTNSBin

Methods == {"calculateWitness", "calculateBinWitness", "calculateWTNSBin"}

-----------------------------------------------------------------------------
NotMade == [at |-> "not made"]

Init ==
    /\ instance = Cleared(TRUE)
    /\ call = [c \in Calls |-> NotMade]
    /\ overlapped = {}

Waiting == {c \in Calls : call[c].at = "await"}

\* A method up to its await; an exception rejects the promise.
Begin(c, method, input, sanityCheck) ==
    /\ call[c] = NotMade
    /\ LET after == DoCalculateWitness(input, sanityCheck)
       IN  /\ instance' = after
           /\ call' = [call EXCEPT ![c] =
                 [at |-> IF after.failed THEN "rejected" ELSE "await",
                  method |-> method, input |-> input]]
    /\ overlapped' = overlapped \cup Waiting

\* The method from its await on: it reads whatever witness the instance holds now.
Finish(c) ==
    /\ c \in Waiting
    /\ call' = [call EXCEPT ![c] =
          [at |-> "resolved", method |-> call[c].method, input |-> call[c].input,
           result |-> Result(call[c].method)]]
    /\ UNCHANGED <<instance, overlapped>>

Next ==
    \/ \E c \in Calls, method \in Methods, input \in Inputs, sanityCheck \in BOOLEAN :
          Begin(c, method, input, sanityCheck)
    \/ \E c \in Calls : Finish(c)

Spec == Init /\ [][Next]_vars
=============================================================================
