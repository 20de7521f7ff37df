------------------------------ MODULE AnsNames ------------------------------
(***************************************************************************)
(* The name service (internal/ans.ts, api/ans.ts but for the queries that  *)
(* IndexerCalls models): transactions that are built from a name, some     *)
(* after a look at the contract, views of the contract, and the threshold  *)
(* of time for the lists of an account's names.  Names change meanwhile.   *)
(*                                                                         *)
(* A name is the sequence of its segments between dots.  A second has      *)
(* SecondMs ms and a day DayMs; MonthDays are the lengths of the months.   *)
(* The grace period is a whole number of days, as the contract's is.       *)
(***************************************************************************)
EXTENDS Integers, Sequences

CONSTANTS
    Asked,        \* the calls of the instance, a set of Ask records
    ValidSegments, \* segments of 3 to 63 lower-case letters, digits, hyphens inside
    Expiries,     \* when names expire, in seconds
    Deployed,     \* the networks with a contract
    SecondMs, DayMs, MonthDays,
    GraceDays,    \* config::reregistration_grace_sec, in days
    Undefined

ASSUME AnsAssumption ==
    /\ SecondMs \in Nat \ {0} /\ DayMs \in Nat \ {0, 1} /\ GraceDays \in Nat
    /\ Expiries \subseteq Nat /\ MonthDays \in Seq(Nat \ {0})
    /\ \A call \in Asked : call.expirationDate \in Nat
    /\ "" \notin ValidSegments

VARIABLES names,      \* the contract: the domain, its subdomain, an account's primary name
          asked,      \* the call under way, or Undefined
          ansPc,      \* "idle", "view" or "query", the awaits, or "done"
          viewed,     \* what the view answered, Undefined until then
          oldest,     \* the threshold of a list's query
          time,       \* the time, in ms
          known,      \* history: the states of the contract during the call
          came        \* what the call came to

ansVars == <<names, asked, ansPc, viewed, oldest, time, known, came>>

\* A call, with the arguments that its kind has.
Ask(kind, network, name) ==
    [kind |-> kind, network |-> network, name |-> name, policy |-> "domain", years |-> 1,
     expirationDate |-> 0]

Threw == <<"threw">>
Transaction(function, arguments) == <<function, arguments>>
Returned(x) == <<"returned", x>>
Asks == <<>>    \* nothing yet: the contract is asked first

Registration == [expires : Expiries, target : {"someone", Undefined}]
PrimaryNames == {<<>>, <<"dom">>, <<"sub", "dom">>}
Contracts ==
    [domain : {Undefined} \cup Registration, subdomain : {Undefined} \cup Registration,
     primary : PrimaryNames]
-----------------------------------------------------------------------------
\* Names.

isValidANSSegment(segment) == segment \in ValidSegments

\* name.replace(/\.apt$/, "").split(".")
Segments(name) ==
    IF Len(name) > 1 /\ name[Len(name)] = "apt" THEN SubSeq(name, 1, Len(name) - 1) ELSE name

\* An empty second segment is none.
HasSecond(name) == Len(Segments(name)) = 2 /\ Segments(name)[2] # ""

isValidANSName(name) ==
    /\ Len(Segments(name)) <= 2
    /\ isValidANSSegment(Segments(name)[1])
    /\ HasSecond(name) => isValidANSSegment(Segments(name)[2])

domainName(name) == IF HasSecond(name) THEN Segments(name)[2] ELSE Segments(name)[1]
subdomainName(name) == IF HasSecond(name) THEN Segments(name)[1] ELSE Undefined

getRouterAddress(network) == network \in Deployed
NameArguments(name) == <<domainName(name), subdomainName(name)>>

\* Math.round(ms / 1000)
Rounded(ms) == (2 * ms + SecondMs) \div (2 * SecondMs)
-----------------------------------------------------------------------------
\* What a call does before its first await: it throws, or a transaction is
\* built, or it asks the contract.
AnsInit ==
    /\ names \in Contracts
    /\ asked = Undefined /\ ansPc = "idle" /\ viewed = Undefined
    /\ oldest = 0 /\ time = 0 /\ known = {} /\ came = Undefined

Begin(call, result) ==
    /\ ansPc = "idle" /\ call \in Asked
    /\ asked' = call /\ known' = {names}
    /\ came' = result
    /\ ansPc' = IF result = Asks THEN "view" ELSE "done"
    /\ viewed' = Undefined /\ oldest' = 0
    /\ UNCHANGED names

Accepts(call) == getRouterAddress(call.network) /\ isValidANSName(call.name)

HasSubdomainPolicy(call) ==
    call.policy \in {"subdomain:independent", "subdomain:follow-domain"}

registerName(call) ==
    /\ call.kind = "registerName"
    /\ LET sub == subdomainName(call.name) # Undefined
           fits == Accepts(call) /\ (sub <=> HasSubdomainPolicy(call))
       IN  Begin(call,
             CASE ~fits -> Threw
               [] fits /\ sub -> Asks
               [] fits /\ ~sub ->
                    IF call.years # 1 THEN Threw
                    ELSE Transaction("register_domain", <<domainName(call.name), call.years>>))
    /\ UNCHANGED time

renewDomain(call) ==
    /\ call.kind = "renewDomain"
    /\ Begin(call,
         IF Accepts(call) /\ subdomainName(call.name) = Undefined /\ call.years = 1
           THEN Transaction("renew_domain", <<domainName(call.name), call.years>>) ELSE Threw)
    /\ UNCHANGED time

\* Without a name, or with an empty one, the primary name is cleared.
NoName(name) == name \in {<<>>, <<"">>}

setPrimaryName(call) ==
    /\ call.kind = "setPrimaryName"
    /\ Begin(call,
         CASE NoName(call.name) /\ getRouterAddress(call.network) ->
                Transaction("clear_primary_name", <<>>)
           [] ~NoName(call.name) /\ Accepts(call) ->
                Transaction("set_primary_name", NameArguments(call.name))
           [] OTHER -> Threw)
    /\ UNCHANGED time

setTargetAddress(call) ==
    /\ call.kind = "setTargetAddress"
    /\ Begin(call,
         IF Accepts(call) THEN Transaction("set_target_addr", NameArguments(call.name)) ELSE Threw)
    /\ UNCHANGED time

\* The views of a name, and of an account's primary name.
Views == {"getOwnerAddress", "getTargetAddress", "getExpiration"}

viewName(call) ==
    /\ call.kind \in Views
    /\ Begin(call, IF Accepts(call) THEN Asks ELSE Threw)
    /\ UNCHANGED time

getPrimaryName(call) ==
    /\ call.kind = "getPrimaryName"
    /\ Begin(call, IF getRouterAddress(call.network) THEN Asks ELSE Threw)
    /\ UNCHANGED time

\* getAccountNames, getAccountDomains and getAccountSubdomains ask the contract
\* for its grace period, at any time of the months.
Lists == {"getAccountNames", "getAccountDomains", "getAccountSubdomains"}

MonthStart[m \in 1..(Len(MonthDays) + 1)] ==
    IF m = 1 THEN 0 ELSE MonthStart[m - 1] + MonthDays[m - 1]
LastDay == MonthStart[Len(MonthDays) + 1]

listNames(call) ==
    /\ call.kind \in Lists
    /\ Begin(call, IF getRouterAddress(call.network) THEN Asks ELSE Threw)
    /\ time' \in (GraceDays * DayMs)..((LastDay - 1) * DayMs)
-----------------------------------------------------------------------------
\* The node answers a view with what the contract holds.
Registered(name) == IF subdomainName(name) = Undefined THEN names.domain ELSE names.subdomain

\* A view of a call: of the domain when a subdomain is to be registered.
ViewOf(call) ==
    CASE call.kind = "registerName" -> names.domain
      [] call.kind \in Views -> Registered(call.name)
      [] call.kind = "getPrimaryName" -> [primary |-> names.primary]
      [] call.kind \in Lists -> [grace |-> GraceDays]

\* get_expiration aborts for a name that is not registered, the other views
\* return an option; and any view may fail.
AnswerView ==
    /\ ansPc = "view" /\ viewed = Undefined
    /\ viewed' \in {<<>>, <<ViewOf(asked)>>}
    /\ UNCHANGED <<names, asked, ansPc, oldest, time, known, came>>

Finish(result) ==
    /\ came' = result /\ ansPc' = "done"
    /\ UNCHANGED <<names, asked, viewed, oldest, time, known>>

Answered(kinds) == ansPc = "view" /\ asked.kind \in kinds /\ viewed # Undefined
Failed == viewed = <<>>

\* An error is undefined; seconds become ms.
getExpiration(answer) ==
    IF answer \in {<<>>, <<Undefined>>} THEN Undefined ELSE answer[1].expires * SecondMs

\* The rest of registerName, for a subdomain.
registerSubdomain ==
    /\ Answered({"registerName"})
    /\ LET tldExpiration == getExpiration(viewed)
           date == IF asked.policy = "subdomain:independent" THEN asked.expirationDate
                   ELSE tldExpiration
       IN  Finish(
             IF tldExpiration \in {Undefined, 0} \/ date > tldExpiration THEN Threw
             ELSE Transaction("register_subdomain",
                    NameArguments(asked.name)
                      \o <<Rounded(date), asked.policy = "subdomain:follow-domain">>))

expirationViewed ==
    /\ Answered({"getExpiration"})
    /\ Finish(Returned(getExpiration(viewed)))

\* unwrapOption: undefined where there is none.
unwrapOption(some) == IF viewed[1] = Undefined THEN Undefined ELSE some

ownerViewed ==
    /\ Answered({"getOwnerAddress"})
    /\ Finish(IF Failed THEN Threw ELSE Returned(unwrapOption("owner")))

targetViewed ==
    /\ Answered({"getTargetAddress"})
    /\ Finish(IF Failed THEN Threw ELSE Returned(unwrapOption(viewed[1].target)))

primaryViewed ==
    /\ Answered({"getPrimaryName"})
    /\ Finish(IF Failed THEN Threw
              ELSE Returned(IF viewed[1].primary = <<>> THEN Undefined ELSE viewed[1].primary))

\* new Date(), and new Date(now().setDate(day)).
MonthOf(ms) ==
    CHOOSE m \in 1..Len(MonthDays) :
        MonthStart[m] * DayMs <= ms /\ ms < MonthStart[m + 1] * DayMs
getDate(ms) == (ms \div DayMs) - MonthStart[MonthOf(ms)] + 1
\* Mutant: a month before the present one is not reached.
setDate_WithinMonth(ms, day) ==
    (MonthStart[MonthOf(ms)] + (IF day < 1 THEN 1 ELSE day) - 1) * DayMs + (ms % DayMs)

setDate(ms, day) == (MonthStart[MonthOf(ms)] + day - 1) * DayMs + (ms % DayMs)

\* now() twice: the clock may move on in between.
getANSExpirationDate ==
    /\ Answered(Lists) /\ ~Failed
    /\ \E late \in {0, 1} :
          /\ time' = time + late
          /\ oldest' = setDate(time, getDate(time') - viewed[1].grace)
    /\ ansPc' = "query"
    /\ UNCHANGED <<names, asked, viewed, known, came>>

listFails == Answered(Lists) /\ Failed /\ Finish(Threw)

\* What a list asks for, and a name of a list with its expiration in ms.
Parts(kind) ==
    {"domain", "subdomain"} \ (CASE kind = "getAccountNames" -> {}
                                 [] kind = "getAccountDomains" -> {"subdomain"}
                                 [] kind = "getAccountSubdomains" -> {"domain"})
sanitizeANSName(part, name) == <<part, name.expires * SecondMs>>

\* The indexer's names that expire at the threshold or later.
Listed ==
    {sanitizeANSName(part, names[part]) : part \in
       {p \in Parts(asked.kind) : names[p] # Undefined /\ names[p].expires * SecondMs >= oldest}}

AnswerList ==
    /\ ansPc = "query"
    /\ Finish(Returned(Listed))

\* Names are registered, renewed, pointed elsewhere or given up meanwhile.
Meanwhile ==
    /\ ansPc \in {"view", "query"}
    /\ known = {names}
    /\ \E part \in {"domain", "subdomain"} :
         \E now \in {Undefined} \cup Registration : names' = [names EXCEPT ![part] = now]
    /\ known' = known \cup {names'}
    /\ UNCHANGED <<asked, ansPc, viewed, oldest, time, came>>

\* The next call is made, in any state of the contract.
Over ==
    /\ ansPc = "done"
    /\ asked' = Undefined /\ ansPc' = "idle" /\ viewed' = Undefined
    /\ oldest' = 0 /\ time' = 0 /\ known' = {} /\ came' = Undefined
    /\ UNCHANGED names

AnsNext ==
    \/ \E call \in Asked :
         \/ registerName(call) \/ renewDomain(call) \/ setPrimaryName(call)
         \/ setTargetAddress(call) \/ viewName(call) \/ getPrimaryName(call) \/ listNames(call)
    \/ AnswerView \/ registerSubdomain
    \/ expirationViewed \/ ownerViewed \/ targetViewed \/ primaryViewed
    \/ getANSExpirationDate \/ listFails \/ AnswerList \/ Meanwhile \/ Over

AnsSpec == AnsInit /\ [][AnsNext]_ansVars
-----------------------------------------------------------------------------
\* A subdomain that is registered ends no later than its domain, as that was
\* during the call; with it if it follows it, and within half a second of the
\* date that was asked for if not.
SubdomainsEndWithTheirDomain ==
    ansPc = "done" /\ came[1] = "register_subdomain" =>
       \E contract \in known :
          LET ends == came[2][3]
              off  == ends * SecondMs - asked.expirationDate
          IN  /\ contract.domain # Undefined /\ ends <= contract.domain.expires
              /\ came[2][4] => ends = contract.domain.expires
              /\ ~came[2][4] => 2 * off <= SecondMs /\ 2 * off >= -SecondMs

\* A list holds the names that were an account's all the time and are within
\* their grace period, but for its last day: at midnight the two readings of
\* the clock are of different days.
NamesInGraceAreListed ==
    ansPc = "done" /\ asked.kind \in Lists /\ came # Threw =>
       \A part \in Parts(asked.kind) :
          (\A contract \in known :
             /\ contract[part] # Undefined
             /\ contract[part].expires * SecondMs + GraceDays * DayMs >= time + DayMs)
          => \E contract \in known : <<part, contract[part].expires * SecondMs>> \in came[2]

\* What a view is answered was so at some time during the call; only the
\* expiration is undefined where the view failed.
ViewsAreTrue ==
    ansPc = "done" /\ asked.kind \in Views \cup {"getPrimaryName"} /\ came # Threw =>
       LET part == IF subdomainName(asked.name) = Undefined THEN "domain" ELSE "subdomain"
           Then(contract) ==
             CASE asked.kind = "getPrimaryName" ->
                    {IF contract.primary = <<>> THEN Undefined ELSE contract.primary}
               [] asked.kind = "getExpiration" ->
                    {Undefined} \cup (IF contract[part] = Undefined THEN {} ELSE {contract[part].expires * SecondMs})
               [] asked.kind = "getTargetAddress" ->
                    {IF contract[part] = Undefined THEN Undefined ELSE contract[part].target}
               [] asked.kind = "getOwnerAddress" ->
                    {IF contract[part] = Undefined THEN Undefined ELSE "owner"}
       IN  \E contract \in known : came[2] \in Then(contract)

NamesKeepTheirTimes == SubdomainsEndWithTheirDomain /\ NamesInGraceAreListed /\ ViewsAreTrue
=============================================================================
