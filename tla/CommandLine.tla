---------------------------- MODULE CommandLine ----------------------------
(***************************************************************************)
(* The processes that the SDK starts: a local testnet that calls of        *)
(* LocalNode.run share and LocalNode.stop kills (cli/localNode.ts), and    *)
(* the commands of Move (cli/move.ts).                                     *)
(*                                                                         *)
(* The nodes are processes of the operating system: they come up, die and  *)
(* answer at READINESS_ENDPOINT as they please, and somebody else's node   *)
(* may answer there.  Time passes in seconds; what is due is done before   *)
(* the next second.                                                        *)
(***************************************************************************)
EXTENDS Integers, Sequences, FiniteSets

CONSTANTS
    Runners,                 \* who calls run() of the one LocalNode
    MAXIMUM_WAIT_TIME_SEC,   \* 75
    LongestCheck,            \* a request to READINESS_ENDPOINT is answered or fails within
    MaxNodes,                \* bound: how many nodes are started
    Names, Addresses         \* of named addresses

ASSUME CommandLineAssumption ==
    /\ MAXIMUM_WAIT_TIME_SEC \in Nat \ {0} /\ LongestCheck \in Nat /\ MaxNodes \in Nat
    /\ IsFiniteSet(Names)

VARIABLES
    nodes,       \* the child processes, in the order of start()
    process,     \* LocalNode.process: the number of the child, 0 for null
    elsewhere,   \* somebody else's node answers
    run,         \* the calls of run(), and what the program knows in them
    command,     \* the latest command of Move
    crashed      \* an "error" event that nobody listens to ends the program

localVars == <<nodes, process, elsewhere, run>>
commandLineVars == <<nodes, process, elsewhere, run, command, crashed>>

(* answer: of the latest check; left: until it must be answered, or until  *)
(* the sleep is over; elapsed: now - start, up to the end of the run.      *)
Calls == [pc : {"idle", "asked", "waiting", "sleeping", "polling", "returned", "threw"},
          answer : BOOLEAN, left : Nat, elapsed : Nat]
Checking == {"asked", "waiting", "polling"}
Started == {"sleeping", "polling"}

(* A Record has every key once; the order is that of Object.keys.          *)
NamedAddresses ==
    {named \in UNION {[1..n -> [name : Names, address : Addresses]] : n \in 0..Cardinality(Names)} :
       \A i, j \in DOMAIN named : named[i].name = named[j].name => i = j}
Codes == {"0", "1", "null"}    \* of an exit; null after a signal
-----------------------------------------------------------------------------
CommandLineInit ==
    /\ nodes = <<>> /\ process = 0 /\ elsewhere \in BOOLEAN
    /\ run = [c \in Runners |-> [pc |-> "idle", answer |-> FALSE, left |-> 0, elapsed |-> 0]]
    /\ command = [pc |-> "none", named |-> <<>>, args |-> <<>>]
    /\ crashed = FALSE

IsUp == elsewhere \/ \E i \in DOMAIN nodes : nodes[i] = "up"

(* checkIfProcessIsUp: another status and an error are an answer, too.     *)
AnswersToCheck == IF IsUp THEN BOOLEAN ELSE {FALSE}
Check(call, pc) == [call EXCEPT !.pc = pc, !.left = LongestCheck]

Run(c) ==
    /\ run[c].pc \in {"idle", "returned", "threw"} /\ Len(nodes) < MaxNodes
    /\ run' = [run EXCEPT ![c] = [Check(run[c], "asked") EXCEPT !.elapsed = 0]]
    /\ UNCHANGED <<nodes, process, elsewhere, command, crashed>>

(* What start() returns to is whatever was there before: nobody remembers  *)
(* a child that is replaced.                                               *)
AnswerRun(c) ==
    /\ run[c].pc = "asked"
    /\ \E nodeIsUp \in AnswersToCheck :
          \/ /\ nodeIsUp
             /\ run' = [run EXCEPT ![c].pc = "returned", ![c].answer = TRUE, ![c].left = 0]
             /\ UNCHANGED <<nodes, process>>
          \/ /\ ~nodeIsUp
             /\ nodes' = Append(nodes, "starting") /\ process' = Len(nodes')
             /\ run' = [run EXCEPT ![c] = [Check(run[c], "waiting") EXCEPT !.answer = FALSE]]
    /\ UNCHANGED <<elsewhere, command, crashed>>

(* waitUntilProcessIsUp once it knows the answer: the loop, and its end.   *)
(* last is counted from start.                                             *)
(*                                                                         *)
(* Mutant: the program gives up without having to say so.                  *)
Continue_Silent(call, operational, last) ==
    LET known == [call EXCEPT !.answer = operational, !.left = 0]
    IN  IF ~operational /\ last < MAXIMUM_WAIT_TIME_SEC
        THEN [known EXCEPT !.pc = "sleeping", !.left = 1]
        ELSE [known EXCEPT !.pc = "returned"]

Continue(call, operational, last) ==
    LET known == [call EXCEPT !.answer = operational, !.left = 0]
    IN  IF operational THEN [known EXCEPT !.pc = "returned"]
        ELSE IF last < MAXIMUM_WAIT_TIME_SEC THEN [known EXCEPT !.pc = "sleeping", !.left = 1]
        ELSE [known EXCEPT !.pc = "threw"]

(* The first check is over before the waiting is timed.                    *)
AnswerFirst(c) ==
    /\ run[c].pc = "waiting"
    /\ \E operational \in AnswersToCheck : run' = [run EXCEPT ![c] = Continue(run[c], operational, 0)]
    /\ UNCHANGED <<nodes, process, elsewhere, command, crashed>>

Wake(c) ==
    /\ run[c].pc = "sleeping" /\ run[c].left = 0
    /\ run' = [run EXCEPT ![c] = Check(run[c], "polling")]
    /\ UNCHANGED <<nodes, process, elsewhere, command, crashed>>

AnswerPoll(c) ==
    /\ run[c].pc = "polling"
    /\ \E operational \in AnswersToCheck : run' = [run EXCEPT ![c] = Continue(run[c], operational, run[c].elapsed)]
    /\ UNCHANGED <<nodes, process, elsewhere, command, crashed>>

(* stop() kills the child it knows, which may be gone already.             *)
Stop ==
    /\ process # 0
    /\ nodes' = [nodes EXCEPT ![process] = "gone"]
    /\ UNCHANGED <<process, elsewhere, run, command, crashed>>

NodeComesUp(i) ==
    /\ nodes[i] = "starting"
    /\ nodes' = [nodes EXCEPT ![i] = "up"]
    /\ UNCHANGED <<process, elsewhere, run, command, crashed>>

NodeDies(i) ==
    /\ nodes[i] # "gone"
    /\ nodes' = [nodes EXCEPT ![i] = "gone"]
    /\ UNCHANGED <<process, elsewhere, run, command, crashed>>

Elsewhere ==
    /\ elsewhere' = ~elsewhere
    /\ UNCHANGED <<nodes, process, run, command, crashed>>

Busy(c) == run[c].pc \in Checking \cup {"sleeping"}
SecondPasses ==
    /\ \E c \in Runners : Busy(c)
    /\ \A c \in Runners : Busy(c) => run[c].left > 0
    /\ run' = [c \in Runners |->
                 IF ~Busy(c) THEN run[c]
                 ELSE [run[c] EXCEPT !.left = @ - 1,
                                     !.elapsed = IF run[c].pc \in Started THEN @ + 1 ELSE @]]
    /\ UNCHANGED <<nodes, process, elsewhere, command, crashed>>
-----------------------------------------------------------------------------
(* Move.  An argument for a named address, with the comma behind it.       *)

(* The arguments after --named-addresses, which is there if one is.        *)
prepareNamedAddresses(named) ==
    [i \in DOMAIN named |->
       [name |-> named[i].name, address |-> named[i].address, comma |-> i < Len(named) - 1]]

(* compile, test and publish; init names no addresses.                     *)
RunCommand(named) ==
    /\ command.pc # "running"
    /\ command' = [pc |-> "running", named |-> named, args |-> prepareNamedAddresses(named)]
    /\ UNCHANGED <<localVars, crashed>>

Close(code) ==
    /\ command.pc = "running"
    /\ command' = [command EXCEPT !.pc = IF code = "0" THEN "resolved" ELSE "rejected"]
    /\ UNCHANGED <<localVars, crashed>>

(* npx cannot be spawned: neither start nor runCommand listens to "error". *)
SpawnFails ==
    /\ command.pc = "running" \/ \E i \in DOMAIN nodes : nodes[i] = "starting"
    /\ crashed' = TRUE
    /\ UNCHANGED <<localVars, command>>

Program ==
    \/ \E c \in Runners : Run(c) \/ AnswerRun(c) \/ AnswerFirst(c) \/ Wake(c) \/ AnswerPoll(c)
    \/ Stop
    \/ \E named \in NamedAddresses : RunCommand(named)
    \/ \E code \in Codes : Close(code)

CommandLineNext ==
    /\ ~crashed
    /\ \/ Program \/ SpawnFails \/ Elsewhere \/ SecondPasses
       \/ \E i \in DOMAIN nodes : NodeComesUp(i) \/ NodeDies(i)

(* The event loop runs what is due, the clock runs on.                     *)
CommandLineFairness ==
    /\ WF_commandLineVars(~crashed /\ SecondPasses)
    /\ \A c \in Runners :
          WF_commandLineVars(~crashed /\ (AnswerRun(c) \/ AnswerFirst(c) \/ Wake(c) \/ AnswerPoll(c)))

CommandLineSpec == CommandLineInit /\ [][CommandLineNext]_commandLineVars /\ CommandLineFairness
-----------------------------------------------------------------------------
(* A run that returns was told so by its last check, and one that throws   *)
(* was told by a check no sooner than MAXIMUM_WAIT_TIME_SEC after it began *)
(* to wait that the node is not up: a node that needs nearly all of that   *)
(* time and many checks is not given up (waitUntilProcessIsUp).            *)
RunTellsTheTruth ==
    \A c \in Runners :
       /\ run[c].pc = "returned" => run[c].answer
       /\ run[c].pc = "threw" => ~run[c].answer /\ run[c].elapsed >= MAXIMUM_WAIT_TIME_SEC

(* A run never waits longer than the last second of sleep that begins in   *)
(* time and the check after it, however the checks last.                   *)
RunIsPunctual ==
    \A c \in Runners : run[c].pc # "idle" => run[c].elapsed <= MAXIMUM_WAIT_TIME_SEC + LongestCheck

(* Whoever calls run() hears of it, whatever becomes of the nodes.         *)
RunsSettle == \A c \in Runners : Busy(c) ~> (~Busy(c) \/ crashed)

(* What who starts a node can rely on.                                     *)
ProcessesKeepTheirPromises == RunTellsTheTruth /\ RunIsPunctual

(* The doc of prepareNamedAddresses and of --named-addresses: an argument  *)
(* is alice=0x1234,bob=0x5678, each address separated from the next by a   *)
(* comma.  (The program separates n addresses by n - 2 commas at most.)    *)
NamesAreSeparated ==
    \A i \in DOMAIN command.args : command.args[i].comma <=> i < Len(command.args)
=============================================================================
