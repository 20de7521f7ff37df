---------------------------- MODULE MemoizedReads ----------------------------
(***************************************************************************)
(* memoizeAsync (utils/memoize.ts), the global cache of answers, and the   *)
(* reads that go through it: getModule, the ABI of a function (fetchAbi,   *)
(* which nests getModule), getGasPriceEstimation and getKeylessConfig.     *)
(* Calls interleave at every await: two that miss together both ask.       *)
(*                                                                         *)
(* Time is kept as ages, so it needs no bound: what the node answered has  *)
(* an age, and so has a cache entry since it was set.  The event loop runs *)
(* all code that is ready before time passes.  An entry past its time to   *)
(* live is never read again, and the model forgets it.                     *)
(***************************************************************************)
EXTENDS Integers, Sequences

CONSTANTS Callers,   \* calls under way at a time
          Networks,  \* the networks of the application's clients
          Reads,     \* the reads of the instance, a set of Read records
          Ttl,       \* ticks in the five minutes that every entry may live
          Latency,   \* ticks a request may take, there and back
          Nothing

ASSUME MemoAssumption == Ttl \in Nat /\ Latency \in Nat

\* A read on a network's client: the cache keys it looks up, outermost first,
\* and how many requests it makes, one after the other, when they all miss.
Read(name, network, keys, requests) ==
    [name |-> name, network |-> network, keys |-> keys, requests |-> requests]

Key(text, network) == <<text, network>>
Unnamed == "no network"

\* The key of a module holds its address and name and no network.
getModule(n) == Read("getModule", n, <<Key("module", Unnamed)>>, 1)
\* With a ledgerVersion nothing is memoized.
getModuleInner(n) == Read("getModuleInner", n, <<>>, 1)
\* generateTransactionPayload without an ABI: fetchEntryFunctionAbi under its own
\* key, and inside it fetchFunctionAbi, which reads the module through getModule.
fetchAbi(n) == Read("fetchAbi", n, <<Key("entry-function", n)>> \o getModule(n).keys, 1)
fetchViewAbi(n) == Read("fetchAbi", n, <<Key("view-function", n)>> \o getModule(n).keys, 1)
getGasPriceEstimation(n) == Read("getGasPriceEstimation", n, <<Key("gas-price", n)>>, 1)
\* The configuration first, then the verification key.
getKeylessConfig(n) == Read("getKeylessConfig", n, <<Key("keyless-configuration", n)>>, 2)

\* The memoized reads of the package, and getModuleInner.
ReadsOf(n) == {getModule(n), getModuleInner(n), fetchAbi(n), fetchViewAbi(n),
               getGasPriceEstimation(n), getKeylessConfig(n)}

ASSUME KnownReadsAssumption == \A read \in Reads : \E n \in Networks : read \in ReadsOf(n)

AllKeys == UNION {{read.keys[i] : i \in DOMAIN read.keys} : read \in Reads}

VARIABLES cache,     \* for each key: the value and the age of its timestamp, or Nothing
          exposes,   \* whether the module published on a network has the function
          call       \* for each caller: its read and how far it is

memoVars == <<cache, exposes, call>>

AtRest == [pc |-> "idle", read |-> Nothing, layer |-> 0, value |-> <<>>, flight |-> 0]

MemoInit ==
    /\ cache = [key \in AllKeys |-> Nothing]
    /\ exposes = [n \in Networks |-> FALSE]
    /\ call = [c \in Callers |-> AtRest]

To(c, pc, layer, value, flight) ==
    call' = [call EXCEPT ![c].pc = pc, ![c].layer = layer, ![c].value = value, ![c].flight = flight]
-----------------------------------------------------------------------------
BeginRead(c, read) ==
    /\ call[c].pc = "idle"
    /\ call' = [call EXCEPT ![c] = [AtRest EXCEPT !.pc = IF read.keys = <<>> THEN "asking" ELSE "lookup",
                                                  !.read = read, !.layer = 1]]
    /\ UNCHANGED <<cache, exposes>>

\* Mutant: a hit renews the entry.
Lookup_Renews(c) ==
    LET read == call[c].read
        layer == call[c].layer
        entry == cache[read.keys[layer]]
    IN  /\ call[c].pc = "lookup"
        /\ \/ /\ entry # Nothing
              /\ To(c, "storing", layer - 1, entry.value, 0)
              /\ cache' = [cache EXCEPT ![read.keys[layer]].age = 0]
           \/ /\ entry = Nothing
              /\ To(c, IF layer < Len(read.keys) THEN "lookup" ELSE "asking", layer + 1, <<>>, 0)
              /\ UNCHANGED cache
        /\ UNCHANGED exposes

\* The check of memoizeAsync: an entry that is fresh ends the call of this layer
\* with its value; otherwise func runs, which is the next layer or the request.
Lookup(c) ==
    LET read == call[c].read
        layer == call[c].layer
        entry == cache[read.keys[layer]]
    IN  /\ call[c].pc = "lookup"
        /\ \/ /\ entry # Nothing /\ entry.age <= Ttl
              /\ To(c, "storing", layer - 1, entry.value, 0)
           \/ /\ entry = Nothing
              /\ To(c, IF layer < Len(read.keys) THEN "lookup" ELSE "asking", layer + 1, <<>>, 0)
        /\ UNCHANGED <<cache, exposes>>

\* External: the node of the read's network answers the request in its turn.
NodeAnswers(c) ==
    LET n == call[c].read.network IN
    /\ call[c].pc = "asking"
    /\ To(c, "answered", call[c].layer,
          Append(call[c].value, [network |-> n, age |-> 0, exposes |-> exposes[n]]), call[c].flight)
    /\ UNCHANGED <<cache, exposes>>

\* A request that fails rejects the call through every layer; nothing is stored.
RequestFails(c) ==
    /\ call[c].pc = "asking"
    /\ To(c, "threw", 0, <<>>, 0)
    /\ UNCHANGED <<cache, exposes>>

Arrive(c) ==
    LET read == call[c].read IN
    /\ call[c].pc = "answered"
    /\ IF Len(call[c].value) < read.requests THEN To(c, "asking", call[c].layer, call[c].value, 0)
       ELSE To(c, "storing", Len(read.keys), call[c].value, 0)
    /\ UNCHANGED <<cache, exposes>>

\* fetchEntryFunctionAbi throws when the module it was given lacks the function.
LacksFunction(c) ==
    call[c].read.name = "fetchAbi" /\ call[c].layer = 1 /\ ~call[c].value[1].exposes

\* Behind the await of memoizeAsync: the value is stored under the layer's key,
\* with the time of now, and returned to the layer above.
StoreValue(c) ==
    LET layer == call[c].layer IN
    /\ call[c].pc = "storing"
    /\ \/ layer = 0 /\ To(c, "done", 0, call[c].value, 0) /\ UNCHANGED cache
       \/ /\ layer > 0 /\ LacksFunction(c)
          /\ To(c, "threw", 0, call[c].value, 0) /\ UNCHANGED cache
       \/ /\ layer > 0 /\ ~LacksFunction(c)
          /\ cache' = [cache EXCEPT ![call[c].read.keys[layer]] = [value |-> call[c].value, age |-> 0]]
          /\ To(c, "storing", layer - 1, call[c].value, 0)
    /\ UNCHANGED exposes

ReturnRead(c) ==
    /\ call[c].pc \in {"done", "threw"}
    /\ call' = [call EXCEPT ![c] = AtRest]
    /\ UNCHANGED <<cache, exposes>>

\* External: a version of the module that has the function is published.
Publish(n) ==
    /\ ~exposes[n]
    /\ exposes' = [exposes EXCEPT ![n] = TRUE]
    /\ UNCHANGED <<cache, call>>

Older(value) == [i \in DOMAIN value |-> [value[i] EXCEPT !.age = @ + 1]]

Tick ==
    /\ \A c \in Callers : /\ call[c].pc \notin {"lookup", "storing"}
                          /\ call[c].pc \in {"asking", "answered"} => call[c].flight < Latency
    /\ cache' = [key \in AllKeys |->
                    IF cache[key] = Nothing \/ cache[key].age >= Ttl THEN Nothing
                    ELSE [value |-> Older(cache[key].value), age |-> cache[key].age + 1]]
    /\ call' = [c \in Callers |->
                    IF call[c].pc \in {"asking", "answered"}
                    THEN [call[c] EXCEPT !.flight = @ + 1, !.value = Older(@)] ELSE call[c]]
    /\ UNCHANGED exposes

MemoNext ==
    \/ \E c \in Callers :
          \/ \E read \in Reads : BeginRead(c, read)
          \/ Lookup(c) \/ NodeAnswers(c) \/ RequestFails(c) \/ Arrive(c)
          \/ StoreValue(c) \/ ReturnRead(c)
    \/ \E n \in Networks : Publish(n)
    \/ Tick

MemoSpec == MemoInit /\ [][MemoNext]_memoVars
-----------------------------------------------------------------------------
\* Reads that pass through the module's key.
ThroughModule(read) == Key("module", Unnamed) \in {read.keys[i] : i \in DOMAIN read.keys}

\* What a memoized read returns was answered by the node at most one time to live
\* ago for every layer of cache it went through, and its own requests' time: five
\* minutes for a gas price, ten for an ABI, however concurrent misses overwrite
\* each other.  A function reported missing was missing within one time to live.
\* And except through the module's key, it is an answer of the read's own network.
CachedAnswersAreRecent ==
    \A c \in Callers : call[c].pc \in {"done", "threw"} =>
        LET read == call[c].read
            layers == Len(read.keys) - (IF call[c].pc = "threw" THEN 1 ELSE 0)
        IN  \A i \in DOMAIN call[c].value :
               /\ call[c].value[i].age <= layers * Ttl + read.requests * Latency
               /\ ThroughModule(read) \/ call[c].value[i].network = read.network

MemoTypeOK ==
    /\ \A key \in AllKeys : cache[key] = Nothing \/ cache[key].age \in 0 .. Ttl
    /\ exposes \in [Networks -> BOOLEAN]
    /\ \A c \in Callers : /\ call[c].pc \in {"idle", "lookup", "asking", "answered", "storing",
                                             "done", "threw"}
                          /\ call[c].flight \in 0 .. Latency
=============================================================================
