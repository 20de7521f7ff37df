-------------------------------- MODULE Bcs --------------------------------
(***************************************************************************)
(* The byte level of src/src/bcs: the methods of Serializer and            *)
(* Deserializer as operators.  A serializer's buffer is the sequence of    *)
(* the bytes it holds, a deserializer's the sequence of the bytes it has   *)
(* not read yet.                                                           *)
(*                                                                         *)
(* A byte holds Base values (256 in the code), and a group of the uleb128  *)
(* code half as many (128), so that a small Base makes every carry,        *)
(* continuation bit and overflow happen within TLC's integers.  A u64,     *)
(* u128 or u256 is the sequence of its u32 words, the lowest first: the    *)
(* code splits and joins it in halves, down to these.                      *)
(*                                                                         *)
(* A value is a tree.  A primitive is a leaf; a vector, an option and an   *)
(* object are nodes whose kids are their parts; the tag names the class of *)
(* an object, where the object can be of several.                          *)
(***************************************************************************)
EXTENDS Digits, SequencesExt

CONSTANT Base

ASSUME BaseAssumption == Base \in {b \in Nat : b >= 4 /\ b % 2 = 0}

MaxU32 == Power(Base, 4) - 1
Group == Base \div 2
MostGroups == 8        \* no u32 needs more, whatever the Base

Leaf(s) == [tag |-> "", leaf |-> s, kids |-> <<>>]
Node(tag, kids) == [tag |-> tag, leaf |-> <<>>, kids |-> kids]

(* What a read returns: the value and the bytes left, or an exception.     *)
Got(value, rest) == [ok |-> TRUE, value |-> value, rest |-> rest]
Thrown == [ok |-> FALSE, value |-> Leaf(<<>>), rest |-> <<>>]

-----------------------------------------------------------------------------
(* Serializer.                                                             *)

(* Shifts and masks take the digits of a number, the lowest first.         *)
serializeUint(n, width) == Reverse(DigitsOf(n, Base, width))

serializeWords(words) == FlattenSeq([w \in DOMAIN words |-> serializeUint(words[w], 4)])

(* As few groups as the number needs, one for 0; the bit above a group     *)
(* says that another one follows.                                          *)
GroupsOf(n) == IF n = 0 THEN <<0>> ELSE Reverse(ShortestDigits(n, Group, MostGroups))
Continued(groups) ==
  [i \in DOMAIN groups |-> IF i < Len(groups) THEN Group + groups[i] ELSE groups[i]]

serializeU32AsUleb128(n) == Continued(GroupsOf(n))

serializeBytes(bytes) == serializeU32AsUleb128(Len(bytes)) \o bytes

-----------------------------------------------------------------------------
(* Deserializer.                                                           *)

read(n, bytes) ==
  IF n > Len(bytes)
    THEN Thrown
    ELSE Got(Leaf(SubSeq(bytes, 1, n)), SubSeq(bytes, n + 1, Len(bytes)))

(* What is done with the value that was read and the bytes that follow it, *)
(* unless the read threw.                                                  *)
Then(r, Go(_, _)) == IF r.ok THEN Go(r.value, r.rest) ELSE Thrown

UintOf(bytes) == ValueOf(Reverse(bytes), Base)

deserializeUint(width, bytes) ==
  Then(read(width, bytes), LAMBDA digits, rest : Got(Leaf(<<UintOf(digits.leaf)>>), rest))

deserializeWords(count, bytes) ==
  Then(read(4 * count, bytes), LAMBDA digits, rest :
    Got(Leaf([w \in 1..count |-> UintOf(SubSeq(digits.leaf, 4 * (w - 1) + 1, 4 * w))]), rest))

deserializeBool(bytes) ==
  LET r == read(1, bytes)
  IN  IF r.ok /\ r.value.leaf[1] \in {0, 1} THEN r ELSE Thrown

(* The loop: value after i rounds, and whether another round follows.  It  *)
(* also ends when the value reaches MaxU32, whatever the last byte's       *)
(* continuation bit says; the overflow test comes after it.                *)
ValueAfter(bytes, i) == ValueOf(Reverse([j \in 1..i |-> bytes[j] % Group]), Group)
GoesOn(bytes, i) == ValueAfter(bytes, i) < MaxU32 /\ (i > 0 => bytes[i] >= Group)
EndsAfter(bytes, i) == ~GoesOn(bytes, i) /\ \A j \in 0..(i - 1) : GoesOn(bytes, j)

InU32(value, rest) == IF value > MaxU32 THEN Thrown ELSE Got(Leaf(<<value>>), rest)
StoppedAt(i, bytes) == InU32(ValueAfter(bytes, i), SubSeq(bytes, i + 1, Len(bytes)))

deserializeUleb128AsU32(bytes) ==
  IF \A i \in 0..Len(bytes) : GoesOn(bytes, i)
    THEN Thrown
    ELSE StoppedAt(CHOOSE i \in 0..Len(bytes) : EndsAfter(bytes, i), bytes)

deserializeBytes(bytes) ==
  Then(deserializeUleb128AsU32(bytes), LAMBDA length, rest : read(length.leaf[1], rest))
=============================================================================
