----------------------- MODULE TransactionManagement -----------------------
(***************************************************************************)
(* TransactionManagement (api/transactionSubmission/management.ts) on top  *)
(* of one TransactionWorker: forSingleAccount creates a worker, starts it  *)
(* and pushes every payload before any continuation of the worker runs.    *)
(* The listeners that registerToEvents installs emit the worker's events   *)
(* again in the same step, so `events` is also what the application hears. *)
(* The application may stop the worker, which is a public field.           *)
(***************************************************************************)
EXTENDS TransactionWorker

\* start({ sender }) then push({ data, options }) for the first n payloads.
forSingleAccount(n) ==
    /\ pushed = 0
    /\ startLoop(1)
    /\ pushed' = n
    /\ transactionsQueue' = [transactionsQueue EXCEPT !.queue = [i \in 1 .. n |-> i],
                                                      !.cancelled = FALSE]
    /\ UNCHANGED <<stops, outstandingTransactions, payload, item, batch, index,
                   recordVars, networkVars, numberingVars>>

ManagedNext ==
    \/ \E n \in Payloads : forSingleAccount(n)
    \/ stop
    \/ \E l \in Loops : Loop(l)
    \/ \E p \in Payloads : Respond(p) \/ Chain(p)
    \/ NumberNetwork

ManagedSpec == Init /\ [][ManagedNext]_vars /\ Fairness
-----------------------------------------------------------------------------
\* Every payload of a batch is reported with an outcome, however many sequence
\* numbers must be waited for and whatever the node refuses, unless the worker
\* is stopped or cannot generate a transaction.
BatchIsReported ==
    \A p \in Payloads : (pushed >= p) ~> (Reported(p) \/ Interrupted)

\* Doc of the worker and of forSingleAccount: events are fired for any
\* submission, and a worker failure is thrown.
EverySubmissionIsReported ==
    \A p \in Payloads : (submission[p] # "none") ~> Reported(p)
=============================================================================
