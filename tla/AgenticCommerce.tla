--------------------------- MODULE AgenticCommerce ---------------------------
(***************************************************************************)
(* The provider side of the paid on-chain jobs                             *)
(* (services/crypto/agenticCommerceService.js over the Mongo collection of *)
(* models/AgenticCommerceJob.js).                                          *)
(*                                                                         *)
(* Three parties meet here: the CommerceFacet contract (external: modelled *)
(* from the calls the service makes on it), the database, which survives a *)
(* crash, and the agent process, which does not.  The process runs one     *)
(* executor per job, started by the poller or by a client's                *)
(* POST /jobs/:id/fund; every await of the executor is a point where the   *)
(* other executors, the chain, the client and the clock may move.          *)
(***************************************************************************)
EXTENDS Integers, FiniteSets

CONSTANTS
    Job,            \* ids of the jobs that name this agent as provider
    MaxAttempts,    \* MAX_ATTEMPTS: executions started for one job
    MaxJobsPerDay,  \* agentic_commerce.maxJobsPerDay
    PollBatch,      \* POLL_BATCH: jobs looked at by one poll
    Offered,        \* the kinds of terms (see Terms) that clients put in jobs
    MaxFaults,      \* bound: crashes and failed I/O of an executor, together
    MaxPauses       \* bound: times the contract is paused

\* What the client put in the job: acceptable, with too small a budget, or
\* with another evaluator or payment token.
Terms == {"good", "underpaid", "foreign"}

ASSUME JobAssumption == Job \subseteq Nat \ {0}
ASSUME BoundsAssumption ==
    /\ MaxAttempts \in Nat \ {0}
    /\ MaxJobsPerDay \in Nat
    /\ PollBatch \in Nat
    /\ Offered \subseteq Terms
    /\ MaxFaults \in Nat
    /\ MaxPauses \in Nat

ChainStatus == {"Open", "Funded", "Submitted", "Completed", "Expired"}
DocStatus   == {"None"} \cup ChainStatus

\* Time left to the job's expiry: at least MIN_TIME_LEFT_S, less, or none.
TimeLeft == {"ample", "short", "past"}

VARIABLES
    \* the contract, and the transactions the executors wait for
    status,         \* status[j]: the job's status on the chain
    onChain,        \* onChain[j]: its deliverable, 0 when it has none
    terms,          \* terms[j]: see Terms
    left,           \* left[j]: see TimeLeft
    paused,         \* the contract refuses every call
    tx,             \* tx[j]: the transaction the executor of j waits for
    lostSubmits,    \* lostSubmits[j]: submits in flight that no one waits for
    lostCompletes,  \* lostCompletes[j]: the number of such completeJob calls
    \* the database
    docStatus,      \* docStatus[j]: status of the job's document, or "None"
    executing,      \* executing[j]: its execution lock
    attempts,       \* attempts[j]: executions started
    docHash,        \* docHash[j]: the deliverable it records, 0 when none
    today,          \* jobs whose executionStarted is less than a day old
    revenue,        \* revenue[j]: revenue entries recorded for j
    \* the agent process
    pc,             \* pc[j]: where the executor of j is, or "idle"
    seen,           \* seen[j]: what the executor read of the job on the chain
    terminal,       \* _terminal
    round,          \* jobs the current poll has still to look at
    visiting,       \* the job whose executor the poll awaits, or 0
    \* history and bounds
    submits,        \* submits[j]: submitJob transactions sent (gas spent)
    faults, pauses

facetVars == <<status, onChain, terms, left, paused>>
lostVars  == <<lostSubmits, lostCompletes>>
chainVars == <<facetVars, tx, lostVars>>
dbVars    == <<docStatus, executing, attempts, docHash, today, revenue>>
pollVars  == <<round, visiting>>
procVars  == <<pc, seen, terminal, round, visiting>>
history   == <<submits, faults, pauses>>
vars      == <<chainVars, dbVars, procVars, history>>

Hash == 0 .. MaxAttempts   \* the deliverable of attempt n is n; 0 is none

PreClaim  == {"view", "lookup", "vet", "claim"}
Executor  == {"run", "rehearseSubmit", "sendSubmit", "waitSubmit", "saveSubmit"}
Completer == {"rehearseComplete", "sendComplete", "waitComplete", "saveComplete", "track"}
Step      == PreClaim \cup Executor \cup Completer \cup {"idle"}

Init ==
    /\ status        = [j \in Job |-> "Open"]
    /\ onChain       = [j \in Job |-> 0]
    /\ terms         \in [Job -> Offered]
    /\ left          = [j \in Job |-> "ample"]
    /\ paused        = FALSE
    /\ tx            = [j \in Job |-> "none"]
    /\ lostSubmits   = [j \in Job |-> {}]
    /\ lostCompletes = [j \in Job |-> 0]
    /\ docStatus     = [j \in Job |-> "None"]
    /\ executing     = [j \in Job |-> FALSE]
    /\ attempts      = [j \in Job |-> 0]
    /\ docHash       = [j \in Job |-> 0]
    /\ today         = {}
    /\ revenue       = [j \in Job |-> 0]
    /\ pc            = [j \in Job |-> "idle"]
    /\ seen          = [j \in Job |-> [status |-> "Open", hash |-> 0]]
    /\ terminal      = {}
    /\ round         = {}
    /\ visiting      = 0
    /\ submits       = [j \in Job |-> 0]
    /\ faults        = 0
    /\ pauses        = 0

-----------------------------------------------------------------------------
(* Moves of an executor.                                                     *)

Goto(j, from, to) == /\ pc[j] = from
                     /\ pc' = [pc EXCEPT ![j] = to]

\* The executor returns or throws: _processing.delete(j) in the finally block,
\* and the poll that awaited it goes on.
Exit(j) == /\ pc' = [pc EXCEPT ![j] = "idle"]
           /\ visiting' = IF visiting = j THEN 0 ELSE visiting

\* done(why): the job is not polled again in the life of this process.
Done(j) == Exit(j) /\ terminal' = terminal \cup {j}

\* processFundedJob(j): in-progress when an executor of j is already running.
StartExecutor(j) == Goto(j, "idle", "view")

\* An await that only reads: the executor goes on and nothing else changes.
Advance(j, from, to) ==
    /\ Goto(j, from, to)
    /\ UNCHANGED <<chainVars, dbVars, seen, terminal, pollVars, history>>

-----------------------------------------------------------------------------
(* The poller and the API.                                                   *)

\* The newest PollBatch jobs that are not terminal.
Candidates == LET open == Job \ terminal
              IN  {j \in open : Cardinality({k \in open : k > j}) < PollBatch}

PollStart ==
    /\ round = {} /\ visiting = 0
    /\ round' = Candidates
    /\ UNCHANGED <<chainVars, dbVars, pc, seen, terminal, visiting, history>>

\* The poll takes its newest candidate and awaits its executor, unless one is
\* already running for that job (in-progress).
PollNext ==
    /\ visiting = 0
    /\ \E j \in round :
        /\ \A k \in round : k <= j
        /\ round' = round \ {j}
        /\ IF pc[j] = "idle" THEN StartExecutor(j) /\ visiting' = j
                             ELSE UNCHANGED <<pc, visiting>>
    /\ UNCHANGED <<chainVars, dbVars, seen, terminal, history>>

\* POST /jobs/:id/fund: any client, any job, any time, terminal or not.
ApiFund(j) == Advance(j, "idle", "view")

-----------------------------------------------------------------------------
(* Verification: nothing is written before Claim, but for the document of a  *)
(* job the chain says is over.                                               *)

View(j) ==
    /\ pc[j] = "view"
    /\ seen' = [seen EXCEPT ![j] = [status |-> status[j], hash |-> onChain[j]]]
    /\ \/ /\ status[j] \in {"Completed", "Expired"}
          /\ docStatus' = [docStatus EXCEPT ![j] = IF @ = "None" THEN @ ELSE status[j]]
          /\ executing' = [executing EXCEPT ![j] = FALSE]
          /\ Done(j)
       \/ /\ status[j] \notin {"Completed", "Expired"}
          /\ terms[j] = "foreign"
          /\ Done(j)
          /\ UNCHANGED <<docStatus, executing>>
       \/ /\ status[j] = "Open" /\ terms[j] # "foreign"
          /\ Exit(j)
          /\ UNCHANGED <<docStatus, executing, terminal>>
       \/ /\ status[j] \in {"Funded", "Submitted"} /\ terms[j] # "foreign"
          /\ Goto(j, "view", "lookup")
          /\ UNCHANGED <<docStatus, executing, terminal, visiting>>
    /\ UNCHANGED <<chainVars, attempts, docHash, today, revenue, round, history>>

\* The document is read, and compared with the chain as it was in View.
Lookup(j) ==
    /\ pc[j] = "lookup"
    /\ IF seen[j].status = "Submitted"
       THEN \/ /\ docHash[j] = 0 \/ docHash[j] # seen[j].hash
               /\ Done(j)                      \* "submitted by someone else"
            \/ /\ docHash[j] # 0 /\ docHash[j] = seen[j].hash
               /\ Goto(j, "lookup", "rehearseComplete")
               /\ UNCHANGED <<terminal, visiting>>
       ELSE \/ /\ terms[j] = "underpaid"
               /\ Done(j)
            \/ /\ terms[j] # "underpaid" /\ left[j] # "ample"
               /\ Exit(j) /\ UNCHANGED terminal
            \/ /\ terms[j] # "underpaid" /\ left[j] = "ample"
               /\ attempts[j] >= MaxAttempts
               /\ Done(j)
            \/ /\ terms[j] # "underpaid" /\ left[j] = "ample"
               /\ attempts[j] < MaxAttempts
               /\ Goto(j, "lookup", "vet")
               /\ UNCHANGED <<terminal, visiting>>
    /\ UNCHANGED <<chainVars, dbVars, seen, round, history>>

\* The client is in the scammer registry.
VetFlagged(j) ==
    /\ pc[j] = "vet"
    /\ Done(j)
    /\ UNCHANGED <<chainVars, dbVars, seen, round, history>>

\* No quote for the parameters, gas too dear, too little BNB in the wallet, or
\* the day's jobs have all been started.
VetSkip(j) ==
    /\ pc[j] = "vet"
    /\ Exit(j)
    /\ UNCHANGED <<chainVars, dbVars, seen, terminal, round, history>>

Vet(j) == Cardinality(today) < MaxJobsPerDay /\ Advance(j, "vet", "claim")

\* The document is upserted, then claimed by one findOneAndUpdate.
Take(j) ==
    /\ executing' = [executing EXCEPT ![j] = TRUE]
    /\ docStatus' = [docStatus EXCEPT ![j] = "Funded"]
    /\ attempts'  = [attempts EXCEPT ![j] = @ + 1]
    /\ today'     = today \cup {j}
    /\ Goto(j, "claim", "run")
    /\ UNCHANGED <<chainVars, docHash, revenue, seen, terminal, pollVars, history>>

\* Mutation of Claim: the findOneAndUpdate without executing: {$ne: true}.
ClaimIgnoresLock(j) == docStatus[j] \in {"None", "Open", "Funded"} /\ Take(j)

Claim(j) == ~executing[j] /\ docStatus[j] \in {"None", "Open", "Funded"} /\ Take(j)

ClaimTaken(j) ==
    /\ pc[j] = "claim"
    /\ executing[j] \/ docStatus[j] \notin {"None", "Open", "Funded"}
    /\ Exit(j)
    /\ UNCHANGED <<chainVars, dbVars, seen, terminal, round, history>>

-----------------------------------------------------------------------------
(* Execution and submission.                                                 *)

\* The rehearsal of a call: it would succeed on the chain as it is now.
WouldSubmit(j)   == status[j] = "Funded" /\ ~paused
WouldComplete(j) == status[j] = "Submitted" /\ ~paused

RunSucceeds(j) == Advance(j, "run", "rehearseSubmit")

GiveUp(j) == /\ executing' = [executing EXCEPT ![j] = FALSE]
             /\ Exit(j)
             /\ UNCHANGED <<chainVars, docStatus, attempts, docHash, today, revenue,
                            seen, terminal, round, submits, pauses>>

\* Mutation of RunFails: the lock is not given back.
RunFailsKeepsLock(j) ==
    /\ pc[j] = "run"
    /\ Exit(j)
    /\ UNCHANGED <<chainVars, dbVars, seen, terminal, round, history>>

RunFails(j) ==
    /\ pc[j] = "run"
    /\ GiveUp(j)
    /\ UNCHANGED faults

RehearseSubmit(j) == WouldSubmit(j) /\ Advance(j, "rehearseSubmit", "sendSubmit")

\* The staticCall throws: the call would revert, or the RPC failed.
SubmitRefused(j) ==
    /\ pc[j] = "rehearseSubmit"
    /\ \/ ~WouldSubmit(j) /\ UNCHANGED faults
       \/ WouldSubmit(j) /\ faults < MaxFaults /\ faults' = faults + 1
    /\ GiveUp(j)

SendSubmit(j) ==
    /\ Goto(j, "sendSubmit", "waitSubmit")
    /\ tx' = [tx EXCEPT ![j] = "pending"]
    /\ submits' = [submits EXCEPT ![j] = @ + 1]
    /\ UNCHANGED <<facetVars, lostVars, dbVars, seen, terminal, pollVars, faults, pauses>>

\* tx.wait() resolves.
SubmitConfirmed(j) ==
    /\ tx[j] = "mined"
    /\ Goto(j, "waitSubmit", "saveSubmit")
    /\ tx' = [tx EXCEPT ![j] = "none"]
    /\ UNCHANGED <<facetVars, lostVars, dbVars, seen, terminal, pollVars, history>>

SaveSubmit(j) ==
    /\ Goto(j, "saveSubmit", "rehearseComplete")
    /\ docStatus' = [docStatus EXCEPT ![j] = "Submitted"]
    /\ docHash'   = [docHash EXCEPT ![j] = attempts[j]]
    /\ UNCHANGED <<chainVars, executing, attempts, today, revenue, seen, terminal,
                   pollVars, history>>

-----------------------------------------------------------------------------
(* Completion: after a submission, or resumed by a later executor.           *)

RehearseComplete(j) == WouldComplete(j) /\ Advance(j, "rehearseComplete", "sendComplete")

\* Mutation of CompleteRefused: the job is written off instead of resumed.
CompleteRefusedIsFinal(j) ==
    /\ pc[j] = "rehearseComplete" /\ ~WouldComplete(j)
    /\ Done(j)
    /\ UNCHANGED <<chainVars, dbVars, seen, round, history>>

\* Nothing is sent; the lock stays, and the next poll resumes.
CompleteRefused(j) ==
    /\ pc[j] = "rehearseComplete"
    /\ \/ ~WouldComplete(j) /\ UNCHANGED faults
       \/ WouldComplete(j) /\ faults < MaxFaults /\ faults' = faults + 1
    /\ Exit(j)
    /\ UNCHANGED <<chainVars, dbVars, seen, terminal, round, submits, pauses>>

\* Mutation of SendComplete: the receipt is not awaited.
SendCompleteNoWait(j) ==
    /\ Goto(j, "sendComplete", "saveComplete")
    /\ lostCompletes' = [lostCompletes EXCEPT ![j] = @ + 1]
    /\ UNCHANGED <<facetVars, tx, lostSubmits, dbVars, seen, terminal, pollVars, history>>

SendComplete(j) ==
    /\ Goto(j, "sendComplete", "waitComplete")
    /\ tx' = [tx EXCEPT ![j] = "pending"]
    /\ UNCHANGED <<facetVars, lostVars, dbVars, seen, terminal, pollVars, history>>

\* Mutation of CompleteConfirmed: the revenue is tracked before the document
\* is saved.
CompleteConfirmedTracks(j) ==
    /\ tx[j] = "mined"
    /\ Goto(j, "waitComplete", "saveComplete")
    /\ tx' = [tx EXCEPT ![j] = "none"]
    /\ revenue' = [revenue EXCEPT ![j] = 1]
    /\ UNCHANGED <<facetVars, lostVars, docStatus, executing, attempts, docHash, today,
                   seen, terminal, pollVars, history>>

CompleteConfirmed(j) ==
    /\ tx[j] = "mined"
    /\ Goto(j, "waitComplete", "saveComplete")
    /\ tx' = [tx EXCEPT ![j] = "none"]
    /\ UNCHANGED <<facetVars, lostVars, dbVars, seen, terminal, pollVars, history>>

\* Mutation of SaveComplete: a status that the model's enum does not have.
SaveCompleteAsPaid(j) ==
    /\ Goto(j, "saveComplete", "track")
    /\ docStatus' = [docStatus EXCEPT ![j] = "Paid"]
    /\ executing' = [executing EXCEPT ![j] = FALSE]
    /\ terminal'  = terminal \cup {j}
    /\ UNCHANGED <<chainVars, attempts, docHash, today, revenue, seen, pollVars, history>>

SaveComplete(j) ==
    /\ Goto(j, "saveComplete", "track")
    /\ docStatus' = [docStatus EXCEPT ![j] = "Completed"]
    /\ executing' = [executing EXCEPT ![j] = FALSE]
    /\ terminal'  = terminal \cup {j}
    /\ UNCHANGED <<chainVars, attempts, docHash, today, revenue, seen, pollVars, history>>

\* Mutation of TrackRevenue: when saving the job fails, all of it is retried.
TrackRevenueRetries(j) ==
    /\ pc[j] = "track"
    /\ revenue' = [revenue EXCEPT ![j] = @ + 1]
    /\ \/ Exit(j) /\ UNCHANGED faults
       \/ faults < MaxFaults /\ faults' = faults + 1 /\ UNCHANGED <<pc, visiting>>
    /\ UNCHANGED <<chainVars, docStatus, executing, attempts, docHash, today, seen,
                   terminal, round, submits, pauses>>

\* _trackRevenue: a failure is logged and the job still counts as completed.
TrackRevenue(j) ==
    /\ pc[j] = "track"
    /\ Exit(j)
    /\ \/ revenue' = [revenue EXCEPT ![j] = @ + 1] /\ UNCHANGED faults
       \/ faults < MaxFaults /\ faults' = faults + 1 /\ UNCHANGED revenue
    /\ UNCHANGED <<chainVars, docStatus, executing, attempts, docHash, today, seen,
                   terminal, round, submits, pauses>>

-----------------------------------------------------------------------------
(* Failures.                                                                 *)

\* The transaction of j, if one is under way, is left without anyone waiting.
Orphan(S) ==
    /\ lostSubmits' = [j \in Job |->
          IF j \in S /\ pc[j] = "waitSubmit" /\ tx[j] = "pending"
          THEN lostSubmits[j] \cup {attempts[j]} ELSE lostSubmits[j]]
    /\ lostCompletes' = [j \in Job |->
          IF j \in S /\ pc[j] = "waitComplete" /\ tx[j] = "pending"
          THEN lostCompletes[j] + 1 ELSE lostCompletes[j]]
    /\ tx' = [j \in Job |-> IF j \in S THEN "none" ELSE tx[j]]
    /\ UNCHANGED facetVars

\* tx.wait() rejects: the transaction reverted.  Nothing catches it after the
\* claim, so the lock stays.
TxReverted(j) ==
    /\ pc[j] \in {"waitSubmit", "waitComplete"} /\ tx[j] = "reverted"
    /\ tx' = [tx EXCEPT ![j] = "none"]
    /\ Exit(j)
    /\ UNCHANGED <<facetVars, lostVars, dbVars, seen, terminal, round, history>>

\* Mutation of Throws: every failure gives the lock back, as a finally would.
ThrowsUnlocks(j) ==
    /\ pc[j] \notin {"idle", "run", "track"}
    /\ faults < MaxFaults
    /\ faults' = faults + 1
    /\ executing' = [executing EXCEPT ![j] = FALSE]
    /\ Exit(j)
    /\ Orphan({j})
    /\ UNCHANGED <<docStatus, attempts, docHash, today, revenue, seen, terminal, round,
                   submits, pauses>>

\* Any other await rejects: an RPC, a signer, the database.  _run is the one
\* await whose errors are caught (RunFails), TrackRevenue catches its own.
Throws(j) ==
    /\ pc[j] \notin {"idle", "run", "track"}
    /\ faults < MaxFaults
    /\ faults' = faults + 1
    /\ Exit(j)
    /\ Orphan({j})
    /\ UNCHANGED <<dbVars, seen, terminal, round, submits, pauses>>

\* The process dies and is restarted: only the chain and the database stay.
Crash ==
    /\ faults < MaxFaults
    /\ faults' = faults + 1
    /\ pc' = [j \in Job |-> "idle"]
    /\ terminal' = {}
    /\ round' = {}
    /\ visiting' = 0
    /\ Orphan(Job)
    /\ UNCHANGED <<dbVars, seen, submits, pauses>>

-----------------------------------------------------------------------------
(* The contract, the client and the clock (external).                        *)

\* A submitJob transaction reaches the chain: it counts only on a funded job.
MineSubmit(j, hash) ==
    IF WouldSubmit(j)
    THEN /\ status'  = [status EXCEPT ![j] = "Submitted"]
         /\ onChain' = [onChain EXCEPT ![j] = hash]
    ELSE UNCHANGED <<status, onChain>>

\* A completeJob transaction pays the provider, once.
MineComplete(j) ==
    /\ status' = IF WouldComplete(j) THEN [status EXCEPT ![j] = "Completed"] ELSE status
    /\ UNCHANGED onChain

Receipt(ok) == IF ok THEN "mined" ELSE "reverted"

Mine(j) ==
    /\ tx[j] = "pending"
    /\ \/ /\ pc[j] = "waitSubmit"
          /\ MineSubmit(j, attempts[j])
          /\ tx' = [tx EXCEPT ![j] = Receipt(WouldSubmit(j))]
       \/ /\ pc[j] = "waitComplete"
          /\ MineComplete(j)
          /\ tx' = [tx EXCEPT ![j] = Receipt(WouldComplete(j))]
    /\ UNCHANGED <<terms, left, paused, lostVars, dbVars, procVars, submits, faults, pauses>>

MineLost(j) ==
    /\ \/ \E h \in lostSubmits[j] :
            /\ MineSubmit(j, h)
            /\ lostSubmits' = [lostSubmits EXCEPT ![j] = @ \ {h}]
            /\ UNCHANGED lostCompletes
       \/ /\ lostCompletes[j] > 0
          /\ MineComplete(j)
          /\ lostCompletes' = [lostCompletes EXCEPT ![j] = @ - 1]
          /\ UNCHANGED lostSubmits
    /\ UNCHANGED <<terms, left, paused, tx, dbVars, procVars, submits, faults, pauses>>

\* fundJob and the refund of a job funded and expired, by the client.
Fund(j) ==
    /\ status[j] = "Open" /\ left[j] # "past"
    /\ status' = [status EXCEPT ![j] = "Funded"]
    /\ UNCHANGED <<onChain, terms, left, paused, tx, lostVars, dbVars, procVars, history>>

Refund(j) ==
    /\ status[j] = "Funded" /\ left[j] = "past"
    /\ status' = [status EXCEPT ![j] = "Expired"]
    /\ UNCHANGED <<onChain, terms, left, paused, tx, lostVars, dbVars, procVars, history>>

Elapse(j) ==
    /\ left[j] # "past"
    /\ left' = [left EXCEPT ![j] = IF @ = "ample" THEN "short" ELSE "past"]
    /\ UNCHANGED <<status, onChain, terms, paused, tx, lostVars, dbVars, procVars, history>>

\* A day has passed since the last execution of j started.
DayPasses(j) ==
    /\ j \in today
    /\ today' = today \ {j}
    /\ UNCHANGED <<chainVars, docStatus, executing, attempts, docHash, revenue, procVars,
                   history>>

Pause ==
    /\ ~paused /\ pauses < MaxPauses
    /\ paused' = TRUE
    /\ pauses' = pauses + 1
    /\ UNCHANGED <<status, onChain, terms, left, tx, lostVars, dbVars,
                   procVars, submits, faults>>

Unpause ==
    /\ paused
    /\ paused' = FALSE
    /\ UNCHANGED <<status, onChain, terms, left, tx, lostVars, dbVars, procVars, history>>

-----------------------------------------------------------------------------

\* The steps an executor takes by itself, once started.
ExecutorStep(j) ==
    \/ View(j) \/ Lookup(j) \/ VetFlagged(j) \/ VetSkip(j) \/ Vet(j)
    \/ Claim(j) \/ ClaimTaken(j) \/ RunSucceeds(j) \/ RunFails(j)
    \/ RehearseSubmit(j) \/ SubmitRefused(j) \/ SendSubmit(j) \/ SubmitConfirmed(j)
    \/ SaveSubmit(j) \/ RehearseComplete(j) \/ CompleteRefused(j) \/ SendComplete(j)
    \/ CompleteConfirmed(j) \/ SaveComplete(j) \/ TrackRevenue(j) \/ TxReverted(j)

Next ==
    \/ PollStart \/ PollNext \/ Crash \/ Pause \/ Unpause
    \/ \E j \in Job :
        \/ ApiFund(j) \/ ExecutorStep(j) \/ Throws(j)
        \/ Mine(j) \/ MineLost(j) \/ Fund(j) \/ Refund(j) \/ Elapse(j) \/ DayPasses(j)

\* The event loop runs every executor and the poll timer, the chain mines what
\* it was sent, and the contract's owner ends every pause.  Clients, the clock
\* and failures owe nothing.
Fairness ==
    /\ WF_vars(PollStart) /\ WF_vars(PollNext) /\ WF_vars(Unpause)
    /\ \A j \in Job : WF_vars(ExecutorStep(j)) /\ WF_vars(Mine(j))

Spec     == Init /\ [][Next]_vars
FairSpec == Spec /\ Fairness

-----------------------------------------------------------------------------
(* Properties.                                                               *)

\* Every variable has its type.
TypeOK ==
    /\ status \in [Job -> ChainStatus] /\ onChain \in [Job -> Hash]
    /\ terms \in [Job -> Terms] /\ left \in [Job -> TimeLeft] /\ paused \in BOOLEAN
    /\ tx \in [Job -> {"none", "pending", "mined", "reverted"}]
    /\ lostSubmits \in [Job -> SUBSET Hash] /\ lostCompletes \in [Job -> Nat]
    /\ docStatus \in [Job -> DocStatus] /\ executing \in [Job -> BOOLEAN]
    /\ attempts \in [Job -> Hash] /\ docHash \in [Job -> Hash]
    /\ today \in SUBSET Job /\ revenue \in [Job -> Nat]
    /\ pc \in [Job -> Step]
    /\ seen \in [Job -> [status : ChainStatus, hash : Hash]]
    /\ terminal \in SUBSET Job /\ round \in SUBSET Job /\ visiting \in Job \cup {0}
    /\ submits \in [Job -> Nat] /\ faults \in Nat /\ pauses \in Nat

\* Submit gas is paid at most once for a job, whatever crashes, failed calls
\* and retries come between the transaction and the document that records it.
SubmitOnce == \A j \in Job : submits[j] <= 1

\* The work of a job is never done again once a deliverable of it is on the
\* chain, even one whose submission the database never heard of.
NoWorkTwice == \A j \in Job : pc[j] = "run" => status[j] \in {"Funded", "Expired"}

\* A client is given the deliverable (getDeliverable asks for a document that
\* is Completed) only when the contract has paid this agent.
DeliveredOnlyWhenPaid ==
    \A j \in Job : docStatus[j] = "Completed" => status[j] = "Completed"

\* Revenue is recorded at most once for a job, and only when it was paid.
RevenueOnce ==
    \A j \in Job : revenue[j] <= 1 /\ (revenue[j] = 1 => status[j] = "Completed")

\* A deliverable that is on the chain and recorded is paid for in the end:
\* any executor of any later process resumes it.  (Only a job in _terminal may
\* wait for a restart or for its client: one vetted as flagged, then cleared
\* and taken through the API.)
ResumesToPayment ==
    \A j \in Job :
        (status[j] = "Submitted" /\ docHash[j] = onChain[j] /\ j \notin terminal)
            ~> status[j] = "Completed"

\* When nothing fails, the execution lock of a claimed job is given back, or
\* the client has its money back and the lock no longer matters.
LockReturned ==
    \A j \in Job : executing[j] ~> \/ ~executing[j] \/ status[j] = "Expired"
                                    \/ faults > 0 \/ pauses > 0

\* What getDeliverable gives the client.
Shown == [j \in Job |-> IF docStatus[j] = "Completed" THEN docHash[j] ELSE 0]

\* Whatever crashes, retries and races do to an executor, a job goes through
\* the stations of PaidJob in their order: gas once, on a funded job; shown to
\* the client is what was paid for; booked is what was shown, once.
Promise == INSTANCE PaidJob WITH
               Deliverable <- Hash \ {0},
               deliverable <- onChain,
               sent <- submits,
               delivered <- Shown,
               booked <- revenue

KeepsPromise == Promise!Spec

-----------------------------------------------------------------------------
(* What the comments of the code say, and the code does not keep.            *)

\* "A daily job cap bounds the rest": no more jobs are started in a day than
\* the cap.
DailyCap == Cardinality(today) <= MaxJobsPerDay

=============================================================================
