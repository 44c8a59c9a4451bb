------------------------------ MODULE FloatKeys ------------------------------
(***************************************************************************)
(* The keys of the priority queue: bit patterns of Width bits in sign and  *)
(* magnitude, the way IEEE floats compare, and the encoding that turns the *)
(* order of their values into the order of unsigned integers.              *)
(***************************************************************************)
EXTENDS Integers

CONSTANT Width  \* bound: the bits of a key, 32 or 64 in the code

ASSUME WidthAssumption == Width \in Nat \ {0}

Half == 2 ^ (Width - 1)
MaxKey == 2 ^ Width - 1
Keys == 0 .. MaxKey

\* The elevation a pattern stands for; there are two zeros.
ValueOf(x) == IF x < Half THEN x ELSE Half - x

\* Fault: the encoding of signed integers, which only flips the sign bit.
EncodeAsInteger(x) == IF x >= Half THEN x - Half ELSE x + Half

\* encoder_impl_decimal: a negative pattern is complemented, the sign bit of
\* the others is set.
Encode(x) == IF x >= Half THEN MaxKey - x ELSE x + Half
Decode(x) == IF x >= Half THEN x - Half ELSE MaxKey - x
=============================================================================
