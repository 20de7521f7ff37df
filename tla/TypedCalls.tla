----------------------------- MODULE TypedCalls -----------------------------
(***************************************************************************)
(* generateTransactionPayload and generateViewFunctionPayload of           *)
(* src/src/transactions/transactionBuilder/transactionBuilder.ts: the ABI  *)
(* of a function and the type arguments are parsed, the arguments          *)
(* converted one after the other, and the payload that results travels as  *)
(* bytes (WireFormats).                                                    *)
(*                                                                         *)
(* A behaviour starts from a call, of a builder of the façade or of an     *)
(* application, or from an object that is built already.                   *)
(***************************************************************************)
EXTENDS WireFormats, Builders, TypeTagParser

CONSTANT Calls

VARIABLES
  call,       \* the call, NoCall when an object is built already
  todo,       \* the texts of types still to be parsed, the ABI's first
  tags,       \* the types parsed so far
  converted,  \* the arguments converted so far
  outcome     \* "pending", "rejected" (something threw) or "built"

callVars == <<call, todo, tags, converted, outcome>>
vars == <<wireVars, parserVars, callVars>>

NoCall == Call("", 0, <<>>, <<>>, <<>>)

-----------------------------------------------------------------------------
(* An ABI that is not given is fetched: remote is <<[name, is_entry,       *)
(* is_view, generics, params]>> if the module exposes the function.  The   *)
(* signers at the front of an entry function's parameters are no           *)
(* arguments.                                                              *)

IsRemote(c) == c.kind \in {"remoteEntry", "remoteMultisig", "remoteView"}

SignerTexts ==
  UNION {{<<name>>, <<"&", name>>, <<"vector", "<", name, ">">>} : name \in {"signer", "auth"}}

findFirstNonSignerArg(params) ==
  LET others == {i \in DOMAIN params : params[i] \notin SignerTexts}
  IN  IF others = {} THEN Len(params) + 1 ELSE CHOOSE i \in others : \A j \in others : i <= j

IsCallable(c) ==
  IsRemote(c) =>
    /\ c.remote # <<>>
    /\ IF c.kind = "remoteView" THEN c.remote[1].is_view ELSE c.remote[1].is_entry

AbiTexts(c) ==
  IF ~IsRemote(c) THEN <<>>
  ELSE LET params == c.remote[1].params
           first  == IF c.kind = "remoteView" THEN 1 ELSE findFirstNonSignerArg(params)
       IN  SubSeq(params, first, Len(params))

Todo(c) ==
  [i \in 1..(Len(AbiTexts(c)) + Len(c.typeArguments)) |->
     IF i <= Len(AbiTexts(c)) THEN [text |-> AbiTexts(c)[i], generics |-> TRUE]
     ELSE [text |-> c.typeArguments[i - Len(AbiTexts(c))], generics |-> FALSE]]

-----------------------------------------------------------------------------

NoParse ==
  /\ text = <<>> /\ allowGenerics = FALSE
  /\ saved = <<>> /\ innerTypes = <<>> /\ curTypes = <<>>
  /\ cur = 1 /\ currentStr = <<>> /\ expectedTypes = 1
  /\ result = Idle

InitCall(c) ==
  /\ call = c
  /\ tags = <<>> /\ converted = <<>>
  /\ todo = IF IsCallable(c) THEN Todo(c) ELSE <<>>
  /\ outcome = IF IsCallable(c) THEN "pending" ELSE "rejected"

Init ==
  /\ NoParse
  /\ \/ \E o \in Objects : InitWith(o) /\ InitCall([NoCall EXCEPT !.kind = "object"])
     \/ \E c \in Calls : InitWith(NoObject) /\ InitCall(c)

Pending == outcome = "pending" /\ call.kind # "object"

(* parseTypeTag is called for the next text, and returns or throws.        *)
ParseType ==
  /\ Pending /\ todo # <<>> /\ result = Idle
  /\ Begin(Head(todo).text, Head(todo).generics)
  /\ UNCHANGED <<wireVars, callVars>>

ParserStep == Step /\ UNCHANGED <<wireVars, callVars>>

TypeParsed ==
  /\ result[1] = "parsed" /\ todo # <<>>
  /\ tags' = Append(tags, result[2])
  /\ todo' = Tail(todo)
  /\ result' = Idle
  /\ UNCHANGED <<text, allowGenerics, saved, innerTypes, curTypes, cur, currentStr, expectedTypes,
                 wireVars, call, converted, outcome>>

TypeFailed ==
  /\ Pending /\ result = Failed
  /\ outcome' = "rejected"
  /\ UNCHANGED <<wireVars, parserVars, call, todo, tags, converted>>

-----------------------------------------------------------------------------

TypesParsed == Pending /\ todo = <<>>
parameters == IF IsRemote(call) THEN SubSeq(tags, 1, Len(AbiTexts(call))) ELSE call.parameters
typeArguments == SubSeq(tags, Len(tags) - Len(call.typeArguments) + 1, Len(tags))
typeParameters == IF IsRemote(call) THEN call.remote[1].generics ELSE call.typeParameters

position == Len(converted) + 1
arg == convertArgument(parameters, call.functionArguments[position], position, typeArguments)

ConvertArgument ==
  /\ TypesParsed /\ call.kind # "script"
  /\ Len(typeArguments) = typeParameters
  /\ position <= Len(call.functionArguments)
  /\ arg # Rejected
  /\ converted' = Append(converted, arg)
  /\ UNCHANGED <<wireVars, parserVars, call, todo, tags, outcome>>

(* The type argument count, an argument that does not convert, too many of *)
(* them or too few.                                                        *)
Throw ==
  /\ TypesParsed /\ call.kind # "script"
  /\ \/ Len(typeArguments) # typeParameters
     \/ position <= Len(call.functionArguments) /\ arg = Rejected
     \/ position > Len(call.functionArguments) /\ Len(converted) # Len(parameters)
  /\ outcome' = "rejected"
  /\ UNCHANGED <<wireVars, parserVars, call, todo, tags, converted>>

(* A type in a payload.                                                    *)
Variant ==
  [bool |-> 0, u8 |-> 1, u64 |-> 2, u128 |-> 3, address |-> 4, signer |-> 5, vector |-> 6,
   u16 |-> 8, u32 |-> 9, u256 |-> 10]

One == Node("", <<Leaf([i \in 1..32 |-> IF i = 32 THEN 1 ELSE 0])>>)
Name(n) == Node("", <<Leaf([i \in DOMAIN n |-> CHOOSE k \in 1..Cardinality(Names) :
                               NameOrder[k] = n[i]])>>)

RECURSIVE TypeTagOf(_)
TypeTagOf(tag) ==
  LET kind == KindOf(tag)
      kids == [i \in DOMAIN tag.args |-> TypeTagOf(tag.args[i])]
  IN  IF kind \in DOMAIN Variant
        THEN [tag |-> "", leaf |-> <<Variant[kind]>>, kids |-> kids]
        ELSE [tag |-> "", leaf |-> <<7>>,
              kids |-> <<Node("", <<One, Name(tag.name), Name(tag.name), Node("", kids)>>)>>]

(* EntryFunction.build.                                                    *)
EntryFunctionOf ==
  Node("", <<Node("", <<One, Node("", <<Leaf(<<1>>)>>)>>), Node("", <<Leaf(<<2>>)>>),
             Node("", [i \in DOMAIN typeArguments |-> TypeTagOf(typeArguments[i])]),
             Node("", converted)>>)

ScriptOf ==
  Node("", <<Leaf(<<1, 2>>), Node("", [i \in DOMAIN typeArguments |-> TypeTagOf(typeArguments[i])]),
             Node("", call.functionArguments)>>)

Payload(variantIndex, body) == [tag |-> "", leaf |-> <<variantIndex>>, kids |-> <<body>>]

(* buildTransactionPayload looks for the fields that the caller's data have. *)
DataHas(c) ==
  CASE c.kind = "script" -> "bytecode"
    [] c.kind \in {"multisig", "remoteMultisig"} -> "multisigAddress"
    [] c.kind \in {"entry", "remoteEntry"} -> "function"

PayloadOf ==
  CASE DataHas(call) = "bytecode" -> Payload(0, ScriptOf)
    [] DataHas(call) = "function" -> Payload(2, EntryFunctionOf)
    [] DataHas(call) = "multisigAddress" ->
         Payload(3, Node("", <<One, Node("", <<Node("", <<EntryFunctionOf>>)>>)>>))

Build ==
  /\ TypesParsed
  /\ \/ call.kind = "script"
     \/ /\ Len(typeArguments) = typeParameters
        /\ Len(converted) = Len(call.functionArguments)
        /\ Len(converted) = Len(parameters)
  /\ outcome' = "built"
  /\ object' = IF call.kind \in {"view", "remoteView"}
                 THEN [class |-> "EntryFunction", value |-> EntryFunctionOf]
                 ELSE [class |-> "TransactionPayload", value |-> PayloadOf]
  /\ held' = object'.value
  /\ UNCHANGED <<wire, sent, rest, left, thrown, parserVars, call, todo, tags, converted>>

Next ==
  \/ ParseType \/ ParserStep \/ TypeParsed \/ TypeFailed
  \/ ConvertArgument \/ Throw \/ Build
  \/ Travel /\ UNCHANGED <<parserVars, callVars>>

Spec == Init /\ [][Next]_vars

-----------------------------------------------------------------------------

(* The positions of a text from an opening bracket to the one that closes  *)
(* it have one more bracket open than those outside.                       *)
Count(names, name) == Cardinality({i \in DOMAIN names : names[i] = name})
Level(i) == Count(SubSeq(text, 1, i), "<") - Count(SubSeq(text, 1, i - 1), ">")
IsPlaceholder(i) == text[i] \in Generics /\ (i > 1 => text[i - 1] \notin (Names \ {"&"}) \cup {">"})

(* Position i is among the type arguments of a placeholder.                *)
GivenToPlaceholder(i) ==
  \E p \in 1..(i - 1) :
    IsPlaceholder(p) /\ text[p + 1] = "<" /\ \A k \in (p + 1)..i : Level(k) > Level(p)

(* Every list of type arguments stands behind a name.                      *)
ListsFollowNames == \A i \in DOMAIN text : text[i] = "<" => i > 1 /\ text[i - 1] \in Names

(* parseTypeTag returns a type whose names are those of the text, each as  *)
(* often: its stack neither loses a type that was open nor takes one       *)
(* twice, whatever the nesting, commas and blanks.  Only what is given to  *)
(* a placeholder of an ABI is dropped, and that is all that is (of texts   *)
(* whose lists stand where no name does, only that they gain nothing).     *)
NamesAreKept ==
  result[1] = "parsed" =>
    LET kept == {i \in DOMAIN text : text[i] \in Names /\ ~GivenToPlaceholder(i)}
        inType(name) == Count(NamesOf(result[2]), name)
    IN  /\ ListsFollowNames \/ ~allowGenerics =>
             \A name \in Names : inType(name) = Cardinality({i \in kept : text[i] = name})
        /\ \A name \in Names : inType(name) <= Count(text, name)

(* The texts that spell a type (as toString prints it, or with blanks      *)
(* after "<" and "," and before "," and ">") are read as that type, except *)
(* all those with a blank before a comma, which are refused.               *)
BlankBeforeComma(t) == \E i \in 2..Len(t) : t[i] = "," /\ t[i - 1] = " "

SpelledTypesAreRead ==
  call.spells # <<>> =>
    /\ result = Failed => BlankBeforeComma(call.typeArguments[1])
    /\ TypesParsed => typeArguments = call.spells /\ ~BlankBeforeComma(call.typeArguments[1])

TypesAreRead == NamesAreKept /\ SpelledTypesAreRead

(* What the comment on parseTypeTag says of blanks ("Spacing in the        *)
(* generics e.g. 0x1::pair::Pair< u8 , u16>"): no text that spells a type, *)
(* with whatever blanks between its tokens, is refused.                    *)
SpacedTypesAreRead == call.spells # <<>> => result # Failed

(* A call of a builder is refused by the ABI that the builder itself       *)
(* brings along exactly if one of its arguments cannot be converted: bytes *)
(* where an address is expected, which the builders that hand an address   *)
(* on as they got it do not convert, and an AccountAddress as the value of *)
(* a typed property, whose parameter is a placeholder.  Otherwise neither  *)
(* a number of arguments, nor a type, nor a position is wrong in a table.  *)
ExpectsAddress(c, i) ==
  \/ KindOf(c.parameters[i]) \in {"address", "Object"}
  \/ KindOf(c.parameters[i]) = "T1" /\ c.typeArguments[2] = <<"address">>

Unconvertible(c) ==
  \/ \E i \in DOMAIN c.parameters :
       LET given == c.functionArguments[i]
       IN  \/ ExpectsAddress(c, i) /\ given.tag = "Uint8Array"
           \/ KindOf(c.parameters[i]) \in Generics /\ given.tag = "AccountAddress"
  \/ \E i \in DOMAIN c.properties :
       c.properties[i].type = "ADDRESS" /\ c.properties[i].value.tag = "Uint8Array"

BuildersFitTheirAbi ==
  call.builder # "" =>
    /\ outcome = "rejected" => Unconvertible(call)
    /\ outcome = "built" => ~Unconvertible(call)

(* What arrives can be read by who knows the types of the parameters: each *)
(* argument that checkOrConvertArgument let through is in the payload as   *)
(* the bytes of a value of its parameter's type, with nothing after it,    *)
(* and the bytes of a property are a value of the property's type.  The    *)
(* exception: the caller hands over a MoveVector of several elements, of   *)
(* which a later one is not of the type.                                   *)
Received ==
  CASE call.kind \in {"view", "remoteView"} -> held
    [] call.kind \in {"entry", "remoteEntry"} -> held.kids[1]
    [] call.kind \in {"multisig", "remoteMultisig"} -> held.kids[1].kids[2].kids[1].kids[1]

Arrived ==
  outcome = "built" /\ call.kind \notin {"object", "script"} /\ Len(sent) = 1 /\ wire = <<>>

ArgumentsDecode ==
  Arrived =>
    \A i \in DOMAIN parameters :
      IF Fits(parameters[i], typeArguments, converted[i])
        THEN DecodesAs(parameters[i], typeArguments, Received.kids[4].kids[i].leaf)
        ELSE HoldsLongVector(call.functionArguments[i])

PropertyBytes ==
  LET value  == Received.kids[4].kids
      inner(i, tag) == Deserialize(LayoutOf(tag, <<>>), value[i].leaf).value.kids[1].kids
      unpack(items) == [j \in DOMAIN items |-> items[j].kids[1].leaf[1]]
      listed == inner(7, TagVector(TagVector(TagU8)))
  IN  IF call.builder \in {"addProperty", "updateProperty"}
        THEN <<unpack(inner(4, TagVector(TagU8)))>>
        ELSE [i \in DOMAIN listed |-> unpack(listed[i].kids[1].kids)]

PropertiesDecode ==
  Arrived /\ call.properties # <<>> =>
    /\ Len(PropertyBytes) = Len(call.properties)
    /\ \A i \in DOMAIN call.properties :
         DecodesAs(PropertyTag(call.properties[i].type), <<>>, PropertyBytes[i])

AcceptedArgumentsDecode == ArgumentsDecode /\ PropertiesDecode /\ BuildersFitTheirAbi
=============================================================================
