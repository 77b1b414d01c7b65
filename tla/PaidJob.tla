------------------------------ MODULE PaidJob ------------------------------
(***************************************************************************)
(* What the paid jobs promise, without executors, polls, locks and         *)
(* failures: a job goes through its stations once and in their order.  The *)
(* gas of a submission is spent once, on a job that was funded; what the   *)
(* contract pays for is what was submitted; the client is given exactly    *)
(* that, and only then; and its price is booked last, and once.            *)
(***************************************************************************)
EXTENDS Naturals

CONSTANTS Job,          \* ids of the jobs
          Deliverable   \* what can be delivered; 0 is nothing

VARIABLES status,       \* status[j]: the job's status on the chain
          deliverable,  \* deliverable[j]: what was submitted there, or 0
          sent,         \* sent[j]: submissions that gas was spent on
          delivered,    \* delivered[j]: what the client is given, or 0
          booked        \* booked[j]: revenue entries

vars == <<status, deliverable, sent, delivered, booked>>

Init ==
    /\ status = [j \in Job |-> "Open"]
    /\ deliverable = [j \in Job |-> 0]
    /\ sent = [j \in Job |-> 0]
    /\ delivered = [j \in Job |-> 0]
    /\ booked = [j \in Job |-> 0]

Becomes(j, from, to) == status[j] = from /\ status' = [status EXCEPT ![j] = to]

\* The client pays into the contract, or takes back what was not earned.
Fund(j) == Becomes(j, "Open", "Funded") /\ UNCHANGED <<deliverable, sent, delivered, booked>>
Refund(j) == Becomes(j, "Funded", "Expired") /\ UNCHANGED <<deliverable, sent, delivered, booked>>

Send(j) ==
    /\ sent[j] = 0 /\ status[j] \in {"Funded", "Expired"}
    /\ sent' = [sent EXCEPT ![j] = 1]
    /\ UNCHANGED <<status, deliverable, delivered, booked>>

Submit(j, d) ==
    /\ sent[j] = 1
    /\ Becomes(j, "Funded", "Submitted")
    /\ deliverable' = [deliverable EXCEPT ![j] = d]
    /\ UNCHANGED <<sent, delivered, booked>>

Pay(j) == Becomes(j, "Submitted", "Completed") /\ UNCHANGED <<deliverable, sent, delivered, booked>>

\* The document says Completed: getDeliverable shows what it holds.
Deliver(j) ==
    /\ status[j] = "Completed" /\ delivered[j] = 0
    /\ delivered' = [delivered EXCEPT ![j] = deliverable[j]]
    /\ UNCHANGED <<status, deliverable, sent, booked>>

Book(j) ==
    /\ delivered[j] # 0 /\ booked[j] = 0
    /\ booked' = [booked EXCEPT ![j] = 1]
    /\ UNCHANGED <<status, deliverable, sent, delivered>>

Next == \E j \in Job :
    \/ Fund(j) \/ Refund(j) \/ Send(j) \/ Pay(j) \/ Deliver(j) \/ Book(j)
    \/ \E d \in Deliverable : Submit(j, d)

Spec == Init /\ [][Next]_vars
=============================================================================
