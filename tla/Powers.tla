------------------------------- MODULE Powers -------------------------------
(* Powers, for the trees of RollupNC and ZKUNFT and the words of WitnessCalculator. *)
EXTENDS Integers

Power(base, n) ==
    LET power[i \in 0..n] == IF i = 0 THEN 1 ELSE base * power[i - 1] IN power[n]

PowerOfTwo(n) == Power(2, n)
=============================================================================
