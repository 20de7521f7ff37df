------------------------------- MODULE Digits -------------------------------
(***************************************************************************)
(* Positional notation: numbers and their digits in a base, the first      *)
(* digit the highest.  Recursive functions, so that a proof can use them.  *)
(***************************************************************************)
EXTENDS Integers, Sequences

(* base^n.                                                                 *)
Power(base, n) ==
    LET upTo[i \in 0..n] == IF i = 0 THEN 1 ELSE upTo[i - 1] * base
    IN  upTo[n]

ValueOf(digits, base) ==
    LET upTo[i \in 0..Len(digits)] == IF i = 0 THEN 0 ELSE upTo[i - 1] * base + digits[i]
    IN  upTo[Len(digits)]

DigitsOf(n, base, many) == [i \in 1..many |-> (n \div Power(base, many - i)) % base]

(* As few digits as the number needs, none for 0; fewer than most.         *)
ShortestDigits(n, base, most) ==
    DigitsOf(n, base, CHOOSE k \in 0..most : n < Power(base, k) /\ (k > 0 => n >= Power(base, k - 1)))

(* The number of leading elements equal to x.                              *)
Leading(s, x) ==
    CHOOSE k \in 0..Len(s) : (\A i \in 1..k : s[i] = x) /\ (k < Len(s) => s[k + 1] # x)

Repeated(x, n) == [i \in 1..n |-> x]
=============================================================================
