--------------------------- MODULE TypeTagParser ---------------------------
(***************************************************************************)
(* parseTypeTag of src/src/transactions/typeTag/parser.ts: the loop over   *)
(* the characters of a type's text, one action per branch.                 *)
(*                                                                         *)
(* A text is a sequence of tokens: "<", ">", ",", " " and names, which     *)
(* stand for the characters the code appends one by one.  The working      *)
(* string is a sequence of names: a name that follows a ">" is appended to *)
(* the one before it.                                                      *)
(***************************************************************************)
EXTENDS EntryFunctionArguments

VARIABLES
  text,           \* typeStr, the tokens of the type
  allowGenerics,  \* may the text hold the placeholders of an ABI?
  saved, innerTypes, curTypes, cur, currentStr, expectedTypes,
  result          \* what parseTypeTag returns, when it has

parserVars == <<text, allowGenerics, saved, innerTypes, curTypes, cur, currentStr, expectedTypes, result>>
input == <<text, allowGenerics>>

Idle == <<"idle">>
Parsing == <<"parsing">>
Parsed(tag) == <<"parsed", tag>>
Failed == <<"failed">>

char == text[cur]

-----------------------------------------------------------------------------
(* parseTypeTagInner.  A primitive takes no type arguments and a vector    *)
(* one, a reference is that of the rest of the string; a struct's name may *)
(* go on with letters and digits only, and nothing else has the colons a   *)
(* struct needs.                                                           *)

RECURSIVE InnerParses(_, _)
InnerParses(typeText, types) ==
  /\ typeText # <<>>
  /\ \/ Len(typeText) = 1 /\ typeText[1] \in Primitives /\ types = <<>>
     \/ typeText = <<"vector">> /\ Len(types) = 1
     \/ Head(typeText) = "&" /\ InnerParses(Tail(typeText), types)
     \/ Len(typeText) = 1 /\ typeText[1] \in Generics /\ allowGenerics
     \/ /\ Head(typeText) \in Structs
        /\ \A i \in 2..Len(typeText) : typeText[i] \notin Structs \cup {"&"}

(* A placeholder is a type without arguments: those it is given are        *)
(* dropped.                                                                *)
RECURSIVE parseTypeTagInner(_, _)
parseTypeTagInner(typeText, types) ==
  IF Head(typeText) = "&" /\ Len(typeText) > 1
    THEN Tag("&", <<parseTypeTagInner(Tail(typeText), types)>>)
    ELSE [name |-> typeText, args |-> IF typeText[1] \in Generics THEN <<>> ELSE types]

-----------------------------------------------------------------------------

Begin(typeStr, generics) ==
  /\ text' = typeStr /\ allowGenerics' = generics
  /\ saved' = <<>> /\ innerTypes' = <<>> /\ curTypes' = <<>>
  /\ cur' = 1 /\ currentStr' = <<>> /\ expectedTypes' = 1
  /\ result' = Parsing

Reading == result = Parsing /\ cur <= Len(text)

Fail == result' = Failed /\ UNCHANGED <<input, saved, innerTypes, curTypes, cur, currentStr, expectedTypes>>

Open ==
  /\ Reading /\ char = "<"
  /\ saved' = Append(saved, [expected |-> expectedTypes, str |-> currentStr, types |-> curTypes])
  /\ currentStr' = <<>> /\ curTypes' = <<>> /\ expectedTypes' = 1
  /\ cur' = cur + 1
  /\ UNCHANGED <<input, innerTypes, result>>

Close ==
  LET ends  == currentStr # <<>>
      types == IF ends THEN Append(curTypes, parseTypeTagInner(currentStr, innerTypes)) ELSE curTypes
  IN  /\ Reading /\ char = ">"
      /\ IF \/ ends /\ ~InnerParses(currentStr, innerTypes)
            \/ saved = <<>>
            \/ expectedTypes # Len(types)
           THEN Fail
           ELSE /\ saved' = Front(saved)
                /\ innerTypes' = types
                /\ curTypes' = Last(saved).types
                /\ currentStr' = Last(saved).str
                /\ expectedTypes' = Last(saved).expected
                /\ cur' = cur + 1
                /\ UNCHANGED <<input, result>>

(* Mutant: the inner types stay for the next type of the list.             *)
PushType_KeepInner ==
  /\ curTypes' = Append(curTypes, parseTypeTagInner(currentStr, innerTypes))
  /\ innerTypes' = innerTypes
  /\ currentStr' = <<>>

(* What a comma and a whitespace do with the type that ends there.         *)
PushType ==
  /\ curTypes' = Append(curTypes, parseTypeTagInner(currentStr, innerTypes))
  /\ innerTypes' = <<>>
  /\ currentStr' = <<>>

Comma ==
  /\ Reading /\ char = ","
  /\ IF saved = <<>> \/ currentStr = <<>> \/ ~InnerParses(currentStr, innerTypes)
       THEN Fail
       ELSE /\ PushType
            /\ expectedTypes' = expectedTypes + 1
            /\ cur' = cur + 1
            /\ UNCHANGED <<input, saved, result>>

(* consumeWhitespace.                                                      *)
AfterWhitespace ==
  LET rest == {i \in cur..Len(text) : text[i] # " "}
  IN  IF rest = {} THEN Len(text) + 1 ELSE CHOOSE i \in rest : \A j \in rest : i <= j

Whitespace ==
  LET next == AfterWhitespace
      ends == currentStr # <<>>
  IN  /\ Reading /\ char = " "
      /\ IF /\ ends
            /\ \/ ~InnerParses(currentStr, innerTypes)
               \/ next <= Len(text) /\ text[next] \notin {",", ">"}
           THEN Fail
           ELSE /\ IF ends THEN PushType ELSE UNCHANGED <<curTypes, innerTypes, currentStr>>
                /\ cur' = next
                /\ UNCHANGED <<input, saved, expectedTypes, result>>

Character ==
  /\ Reading /\ char \in Names
  /\ currentStr' = Append(currentStr, char)
  /\ cur' = cur + 1
  /\ UNCHANGED <<input, saved, innerTypes, curTypes, expectedTypes, result>>

(* After the loop: one type, in the working string or in curTypes.         *)
Finish ==
  /\ result = Parsing /\ cur > Len(text)
  /\ result' = IF saved # <<>> THEN Failed
               ELSE IF curTypes = <<>> /\ InnerParses(currentStr, innerTypes)
                 THEN Parsed(parseTypeTagInner(currentStr, innerTypes))
               ELSE IF Len(curTypes) = 1 /\ currentStr = <<>>
                 THEN Parsed(curTypes[1])
               ELSE Failed
  /\ UNCHANGED <<input, saved, innerTypes, curTypes, cur, currentStr, expectedTypes>>

Step == Open \/ Close \/ Comma \/ Whitespace \/ Character \/ Finish
=============================================================================
