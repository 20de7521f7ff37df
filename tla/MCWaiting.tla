----------------------------- MODULE MCWaiting -----------------------------
(***************************************************************************)
(* Whoever waits: for an item of an AsyncQueue, for the lock or the window *)
(* of an AccountSequenceNumber, for a transaction (WaitForTransaction), or *)
(* for a process (CommandLine).  A behaviour is of one of them, the others *)
(* stay as they begin: they share no state.                                *)
(***************************************************************************)
EXTENDS AsyncQueue, AccountSequenceNumber, WaitForTransaction, CommandLine

VARIABLE part   \* which part the behaviour is of

Start ==
    /\ QueueInit /\ Init /\ WaitInit /\ CommandLineInit
    /\ part \in {"queue", "numbers", "transaction", "node", "command"}
    /\ part \in {"node", "command"} \/ ~elsewhere
    /\ part = "transaction" \/ (checkSuccess /\ chain = "unknown")
    /\ part = "numbers" \/ \A s \in StartNumbers : chainSequence <= s

WaitsNext ==
    /\ \/ /\ part = "queue" /\ QueueNext
          /\ UNCHANGED <<vars, waitVars, commandLineVars>>
       \/ /\ part = "numbers" /\ Next
          /\ UNCHANGED <<queueVars, waitVars, commandLineVars>>
       \/ /\ part = "transaction" /\ WaitNext
          /\ UNCHANGED <<queueVars, vars, commandLineVars>>
       \/ /\ part = "node" /\ CommandLineNext
          /\ UNCHANGED <<queueVars, vars, waitVars, command>>
       \/ /\ part = "command" /\ CommandLineNext
          /\ UNCHANGED <<queueVars, vars, waitVars, localVars>>
    /\ UNCHANGED part

(* What each part assumes of the event loop, the clock and the network; in *)
(* the behaviours of another part it has nothing to say, for no call is    *)
(* made.                                                                   *)
Waiter ==
    /\ Start /\ [][WaitsNext]_<<queueVars, vars, waitVars, commandLineVars, part>>
    /\ Fairness
    /\ WF_waitVars(part = "transaction" /\ WaitStep) /\ WF_waitVars(part = "transaction" /\ AnswerRequest)
    /\ CommandLineFairness

(* Whoever waits for something outside the program hears of it: a call of  *)
(* waitForTransaction ends, and so does every run() of a local node,       *)
(* whatever becomes of what they wait for.                                 *)
WaitsEnd == (part = "transaction" => WaitingEnds) /\ RunsSettle
=============================================================================
