----------------------------- MODULE AddressText -----------------------------
(***************************************************************************)
(* AccountAddress (core/accountAddress.ts) and Hex (core/hex.ts): what     *)
(* they print and what they read.  An address is printed, goes through     *)
(* people and other programs as text, and is read again; or somebody types *)
(* a text.                                                                 *)
(*                                                                         *)
(* A text is whether it begins with "0x" and the characters after that.    *)
(* The characters 1 to Letters are those of base 58 in the order of its    *)
(* alphabet, so that "1" to "9" and "A" to "F" are 1 to HexBase - 1, and   *)
(* "a" to "f", which are the same hexadecimal digits as "A" to "F" but     *)
(* other letters of base 58, come LowerCase characters after them; 0 is a  *)
(* hexadecimal digit only and the others are neither.  The code has        *)
(* HexBase = 16, Decimals = 10, LowerCase = 24, Letters = 58 and           *)
(* LENGTH = 32.  The letters of both bases keep the two relations that     *)
(* decide how a text is read: base 58 writes an address with fewer letters *)
(* than LONG form has digits, and no LONG form is base 58 for LENGTH bytes.*)
(***************************************************************************)
EXTENDS Digits

CONSTANTS HexBase, Decimals, LowerCase, Letters, LENGTH,
          MaxTyped      \* the longest text that is typed

ASSUME AddressAssumption ==
    /\ HexBase \in Nat \ {0, 1} /\ LENGTH \in Nat \ {0} /\ MaxTyped \in Nat
    /\ Decimals \in 1 .. HexBase /\ LowerCase \in Nat
    /\ HexBase <= Decimals + LowerCase /\ HexBase - 1 + LowerCase <= Letters
    /\ Letters \in HexBase .. (HexBase * HexBase - 1)
    /\ Power(Letters, 2 * LENGTH - 1) >= Power(HexBase, 2 * LENGTH)

VARIABLES meant,        \* the address that was printed first, or NoAddress
          written,      \* the text that is going around
          addressRead   \* what the last reader made of it

addressVars == <<meant, written, addressRead>>

NoAddress == <<>>
LONG_STRING_LENGTH == 2 * LENGTH
ByteSize == HexBase * HexBase
Addresses == [1..LENGTH -> 0..(ByteSize - 1)]
Characters == 0..(Letters + 1)

Text(prefix, chars) == [prefix |-> prefix, chars |-> chars]
Invalid(reason) == [data |-> <<>>, reason |-> reason]
Valid(bytes) == [data |-> bytes, reason |-> "none"]
IsValid(reading) == reading.reason = "none"
-----------------------------------------------------------------------------
(* A digit is printed in lower case and read in either.                    *)
HexCharacters == 0..(HexBase - 1) \cup (Decimals + LowerCase)..(HexBase - 1 + LowerCase)
DigitsIn(chars) ==
    [i \in DOMAIN chars |-> IF chars[i] < HexBase THEN chars[i] ELSE chars[i] - LowerCase]
Lower(digits) ==
    [i \in DOMAIN digits |-> IF digits[i] < Decimals THEN digits[i] ELSE digits[i] + LowerCase]

digitsOfBytes(bytes) ==
    [i \in 1..(2 * Len(bytes)) |-> DigitsOf(bytes[(i + 1) \div 2], HexBase, 2)[2 - (i % 2)]]
bytesOfDigits(digits) ==
    [i \in 1..(Len(digits) \div 2) |-> ValueOf(SubSeq(digits, 2 * i - 1, 2 * i), HexBase)]

bytesToHex(bytes) == Lower(digitsOfBytes(bytes))

IsHex(chars) == \A i \in DOMAIN chars : chars[i] \in HexCharacters
hexToBytes(chars) == bytesOfDigits(DigitsIn(chars))

(* The bs58 package: a zero byte is a letter "1", and what follows the     *)
(* first zero bytes is one number.                                         *)
bs58encode(bytes) ==
    LET zeros == Leading(bytes, 0)
        digits == ShortestDigits(ValueOf(bytes, ByteSize), Letters, 2 * Len(bytes))
    IN  Repeated(1, zeros) \o [i \in DOMAIN digits |-> digits[i] + 1]

IsBs58(chars) == \A i \in DOMAIN chars : chars[i] \in 1..Letters
bs58decode(chars) ==
    LET digits == [i \in DOMAIN chars |-> chars[i] - 1]
    IN  Repeated(0, Leading(chars, 1)) \o ShortestDigits(ValueOf(digits, Letters), ByteSize, Len(chars))
-----------------------------------------------------------------------------
(* Printing.                                                               *)

isSpecial(data) ==
    /\ \A i \in 1..(LENGTH - 1) : data[i] = 0
    /\ data[LENGTH] < HexBase

(* Mutant: no address has leading zeroes.                                  *)
toStringWithoutPrefix_Trims(data) ==
    LET hex == bytesToHex(data)
        zeros == Leading(hex, 0)
    IN  IF zeros = Len(hex) THEN <<0>> ELSE SubSeq(hex, zeros + 1, Len(hex))

toStringWithoutPrefix(data) ==
    IF isSpecial(data) THEN <<bytesToHex(data)[LONG_STRING_LENGTH]>> ELSE bytesToHex(data)

toStringLongWithoutPrefix(data) == bytesToHex(data)
toString(data) == Text(TRUE, toStringWithoutPrefix(data))
toStringLong(data) == Text(TRUE, toStringLongWithoutPrefix(data))
toBs58String(data) == Text(FALSE, bs58encode(data))

Printed(data) ==
    {toString(data), toStringLong(data), toBs58String(data),
     Text(FALSE, toStringWithoutPrefix(data)), Text(FALSE, toStringLongWithoutPrefix(data))}
-----------------------------------------------------------------------------
(* Reading.                                                                *)

NewAccountAddress(bytes) ==
    IF Len(bytes) = LENGTH THEN Valid(bytes) ELSE Invalid("incorrect_number_of_bytes")

fromBs58String(text) ==
    IF ~text.prefix /\ IsBs58(text.chars) THEN NewAccountAddress(bs58decode(text.chars))
    ELSE Invalid("not base 58")

(* A text without "0x" is base 58 if it can be, and hexadecimal otherwise. *)
fromString(text) ==
    LET chars == text.chars
        padded == Repeated(0, LONG_STRING_LENGTH - Len(chars)) \o chars
    IN  CASE IsValid(fromBs58String(text)) -> fromBs58String(text)
          [] ~IsValid(fromBs58String(text)) /\ Len(chars) = 0 -> Invalid("too_short")
          [] ~IsValid(fromBs58String(text)) /\ Len(chars) > LONG_STRING_LENGTH -> Invalid("too_long")
          [] ~IsValid(fromBs58String(text)) /\ Len(chars) \in 1..LONG_STRING_LENGTH ->
               IF IsHex(padded) THEN NewAccountAddress(hexToBytes(padded))
               ELSE Invalid("invalid_hex_chars")

fromStringStrict(text) ==
    LET reading == fromString(text)
        isLong  == Len(text.chars) = LONG_STRING_LENGTH
    IN  CASE ~text.prefix -> Invalid("leading_zero_x_required")
          [] text.prefix /\ ~IsValid(reading) -> reading
          [] text.prefix /\ IsValid(reading) ->
               IF isLong THEN reading
               ELSE IF ~isSpecial(reading.data) THEN Invalid("long_form_required_unless_special")
               ELSE IF Len(text.chars) # 1 THEN Invalid("INVALID_PADDING_ZEROES")
               ELSE reading

(* Hex, for any other bytes.                                               *)
fromHexString(text) ==
    CASE Len(text.chars) = 0 -> Invalid("too_short")
      [] Len(text.chars) % 2 # 0 -> Invalid("invalid_length")
      [] Len(text.chars) # 0 /\ Len(text.chars) % 2 = 0 ->
           IF IsHex(text.chars) THEN Valid(hexToBytes(text.chars)) ELSE Invalid("invalid_hex_chars")

HexToString(bytes) == Text(TRUE, bytesToHex(bytes))
-----------------------------------------------------------------------------
Typed == [prefix : BOOLEAN, chars : UNION {[1..n -> Characters] : n \in 0..MaxTyped}]
NotRead == Invalid("not read")

AddressInit ==
    /\ addressRead = NotRead
    /\ \/ meant = NoAddress /\ written \in Typed
       \/ meant \in Addresses /\ written \in Printed(meant)

ReadAddress ==
    /\ addressRead = NotRead
    /\ addressRead' \in {fromString(written), fromStringStrict(written)}
    /\ UNCHANGED <<meant, written>>

(* The next program prints the address that it read.                       *)
PassOn ==
    /\ meant # NoAddress /\ IsValid(addressRead)
    /\ written' \in Printed(addressRead.data)
    /\ addressRead' = NotRead
    /\ UNCHANGED meant

AddressNext == ReadAddress \/ PassOn
AddressSpec == AddressInit /\ [][AddressNext]_addressVars
-----------------------------------------------------------------------------
(* An address is the same after any number of printings, in any form, and  *)
(* readings by fromString, which refuses none of the forms;                *)
(* fromStringStrict takes both forms that begin with "0x".                 *)
PrintedAddressesSurvive ==
    meant # NoAddress =>
       /\ IsValid(fromString(written)) /\ fromString(written).data = meant
       /\ written.prefix => fromStringStrict(written) = fromString(written)

(* A text that somebody typed: what fromStringStrict takes is, but for the *)
(* case of its letters, the address printed in one of its two forms; with  *)
(* "0x", or where it cannot be base 58, what fromString takes has the      *)
(* value of its digits, and what Hex takes is the same bytes if there are  *)
(* as many.                                                                *)
LowerCased(text) == Text(text.prefix, Lower(DigitsIn(text.chars)))

TypedAddressesAreMeant ==
    meant = NoAddress /\ written.chars # <<>> =>
       LET strict == fromStringStrict(written)
           relaxed == fromString(written)
           hex == fromHexString(written)
       IN  /\ IsValid(strict) =>
                /\ strict = relaxed
                /\ LowerCased(written) \in {toString(strict.data), toStringLong(strict.data)}
           /\ IsValid(relaxed) /\ ~IsValid(fromBs58String(written)) =>
                ValueOf(relaxed.data, ByteSize) = ValueOf(DigitsIn(written.chars), HexBase)
           /\ IsValid(hex) =>
                /\ HexToString(hex.data).chars = LowerCased(written).chars
                /\ IsValid(relaxed) /\ Len(hex.data) = LENGTH => hex = relaxed

AddressesAreReadAsWritten == PrintedAddressesSurvive /\ TypedAddressesAreMeant
=============================================================================
