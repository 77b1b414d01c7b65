----------------------- MODULE AgenticCommerce_proofs -----------------------
(***************************************************************************)
(* The safety properties of AgenticCommerce, for any set of jobs and any   *)
(* bounds.  The inductive invariant has five parts, each preserved by a    *)
(* lemma with one step per action:                                         *)
(*   TypeInv   the types; an executor past Lookup has an attempt left;     *)
(*   LockInv   the execution lock is held from the claim to the submission *)
(*             and is never given back between the two;                    *)
(*   ChainInv  nothing is on its way to the chain, or there, that was not  *)
(*             sent by an executor;                                        *)
(*   PayInv    whoever is past the receipt of completeJob was paid;        *)
(*   DeliverInv what is recorded as the deliverable is what the chain has. *)
(***************************************************************************)
EXTENDS AgenticCommerce, TLAPS

\* An executor that goes on to claim has counted the attempts made so far.
AttemptsLeft == \A j \in Job : pc[j] \in {"vet", "claim"} => attempts[j] < MaxAttempts

TypeInv == TypeOK /\ AttemptsLeft

\* What a transaction does to the chain keeps the types.
LEMMA MineSubmitTypes ==
  ASSUME TypeOK, NEW j \in Job, NEW h \in Hash, MineSubmit(j, h)
  PROVE  status' \in [Job -> ChainStatus] /\ onChain' \in [Job -> Hash]
<1>1. CASE WouldSubmit(j)
  <2>1. /\ status' = [status EXCEPT ![j] = "Submitted"]
        /\ onChain' = [onChain EXCEPT ![j] = h]
    BY <1>1 DEF MineSubmit
  <2>2. status \in [Job -> ChainStatus] /\ onChain \in [Job -> Hash]
    BY DEF TypeOK
  <2> QED
    BY <2>1, <2>2 DEF ChainStatus
<1>2. CASE ~WouldSubmit(j)
  BY <1>2 DEF TypeOK, MineSubmit
<1> QED
  BY <1>1, <1>2

\* Mining a completion keeps the types.
LEMMA MineCompleteTypes ==
  ASSUME TypeOK, NEW j \in Job, MineComplete(j)
  PROVE  status' \in [Job -> ChainStatus] /\ onChain' \in [Job -> Hash]
<1>1. CASE WouldComplete(j)
  <2>1. status' = [status EXCEPT ![j] = "Completed"] /\ UNCHANGED onChain
    BY <1>1 DEF MineComplete
  <2>2. status \in [Job -> ChainStatus] /\ onChain \in [Job -> Hash]
    BY DEF TypeOK
  <2> QED
    BY <2>1, <2>2 DEF ChainStatus
<1>2. CASE ~WouldComplete(j)
  BY <1>2 DEF TypeOK, MineComplete
<1> QED
  BY <1>1, <1>2

\* Every step keeps the types.
LEMMA TypeStep ==
  ASSUME TypeInv, [Next]_vars
  PROVE  TypeInv'
<1> USE BoundsAssumption DEF TypeInv, TypeOK, AttemptsLeft, Goto, Advance, Take,
      facetVars, lostVars, chainVars, dbVars, procVars, pollVars, history, Step, PreClaim, Executor, Completer,
      ChainStatus, DocStatus, Terms, TimeLeft, Hash
<1>1. CASE PollStart
  BY <1>1 DEF PollStart, Candidates
<1>2. CASE PollNext
  <2>1. PICK j \in round : /\ round' = round \ {j}
                           /\ IF pc[j] = "idle" THEN StartExecutor(j) /\ visiting' = j
                                                ELSE UNCHANGED <<pc, visiting>>
    BY <1>2 DEF PollNext
  <2>2. CASE pc[j] = "idle"
    BY <1>2, <2>1, <2>2 DEF PollNext, StartExecutor
  <2>3. CASE pc[j] # "idle"
    BY <1>2, <2>1, <2>3 DEF PollNext
  <2> QED
    BY <2>2, <2>3
<1>3. CASE Crash
  BY <1>3 DEF Crash, Orphan
<1>4. CASE Pause
  BY <1>4 DEF Pause
<1>5. CASE Unpause
  BY <1>5 DEF Unpause
<1>6. ASSUME NEW j \in Job, ApiFund(j) PROVE TypeInv'
  BY <1>6 DEF ApiFund
<1>7. ASSUME NEW j \in Job, View(j) PROVE TypeInv'
  <2>1. seen' \in [Job -> [status : ChainStatus, hash : Hash]]
    BY <1>7 DEF View
  <2>2. docStatus' \in [Job -> DocStatus] /\ executing' \in [Job -> BOOLEAN]
    <3>1. CASE status[j] \in {"Completed", "Expired"}
      <4>1. docStatus' = [docStatus EXCEPT ![j] =
                             IF docStatus[j] = "None" THEN docStatus[j] ELSE status[j]]
        BY <1>7, <3>1 DEF View
      <4>2. executing' = [executing EXCEPT ![j] = FALSE]
        BY <1>7, <3>1 DEF View
      <4>3. docStatus' \in [Job -> DocStatus]
        BY <4>1
      <4> QED
        BY <4>2, <4>3
    <3>2. CASE status[j] \notin {"Completed", "Expired"}
      BY <1>7, <3>2 DEF View
    <3> QED
      BY <3>1, <3>2
  <2>3. pc' \in [Job -> Step] /\ terminal' \in SUBSET Job /\ visiting' \in Job \cup {0}
    BY ZenonT(40), <1>7 DEF View, Done, Exit
  <2>4. AttemptsLeft'
    BY <1>7 DEF View, Done, Exit
  <2> QED
    BY <1>7, <2>1, <2>2, <2>3, <2>4 DEF View
<1>8. ASSUME NEW j \in Job, Lookup(j) PROVE TypeInv'
  <2>1. UNCHANGED <<chainVars, dbVars, seen, round, history>>
    BY <1>8 DEF Lookup
  <2>2. CASE Done(j)
    BY <2>1, <2>2 DEF Done, Exit
  <2>3. CASE Exit(j) /\ UNCHANGED terminal
    BY <2>1, <2>3 DEF Exit
  <2>4. CASE pc' = [pc EXCEPT ![j] = "rehearseComplete"] /\ UNCHANGED <<terminal, visiting>>
    BY <2>1, <2>4
  <2>5. CASE /\ attempts[j] < MaxAttempts /\ pc' = [pc EXCEPT ![j] = "vet"]
             /\ UNCHANGED <<terminal, visiting>>
    BY <2>1, <2>5
  <2> QED
    BY <1>8, <2>2, <2>3, <2>4, <2>5 DEF Lookup
<1>9. ASSUME NEW j \in Job, VetFlagged(j) PROVE TypeInv'
  BY <1>9 DEF VetFlagged, Done, Exit
<1>10. ASSUME NEW j \in Job, VetSkip(j) PROVE TypeInv'
  BY <1>10 DEF VetSkip, Exit
<1>11. ASSUME NEW j \in Job, Vet(j) PROVE TypeInv'
  BY <1>11 DEF Vet
<1>12. ASSUME NEW j \in Job, Claim(j) PROVE TypeInv'
  BY <1>12 DEF Claim
<1>13. ASSUME NEW j \in Job, ClaimTaken(j) PROVE TypeInv'
  BY <1>13 DEF ClaimTaken, Exit
<1>14. ASSUME NEW j \in Job, RunSucceeds(j) PROVE TypeInv'
  BY <1>14 DEF RunSucceeds
<1>15. ASSUME NEW j \in Job, RunFails(j) PROVE TypeInv'
  BY <1>15 DEF RunFails, GiveUp, Exit
<1>16. ASSUME NEW j \in Job, RehearseSubmit(j) PROVE TypeInv'
  BY <1>16 DEF RehearseSubmit
<1>17. ASSUME NEW j \in Job, SubmitRefused(j) PROVE TypeInv'
  BY <1>17 DEF SubmitRefused, GiveUp, Exit
<1>18. ASSUME NEW j \in Job, SendSubmit(j) PROVE TypeInv'
  BY <1>18 DEF SendSubmit
<1>19. ASSUME NEW j \in Job, SubmitConfirmed(j) PROVE TypeInv'
  BY <1>19 DEF SubmitConfirmed
<1>20. ASSUME NEW j \in Job, SaveSubmit(j) PROVE TypeInv'
  BY <1>20 DEF SaveSubmit
<1>21. ASSUME NEW j \in Job, RehearseComplete(j) PROVE TypeInv'
  BY <1>21 DEF RehearseComplete
<1>22. ASSUME NEW j \in Job, CompleteRefused(j) PROVE TypeInv'
  BY <1>22 DEF CompleteRefused, Exit
<1>23. ASSUME NEW j \in Job, SendComplete(j) PROVE TypeInv'
  BY <1>23 DEF SendComplete
<1>24. ASSUME NEW j \in Job, CompleteConfirmed(j) PROVE TypeInv'
  BY <1>24 DEF CompleteConfirmed
<1>25. ASSUME NEW j \in Job, SaveComplete(j) PROVE TypeInv'
  BY <1>25 DEF SaveComplete
<1>26. ASSUME NEW j \in Job, TrackRevenue(j) PROVE TypeInv'
  BY <1>26 DEF TrackRevenue, Exit
<1>27. ASSUME NEW j \in Job, TxReverted(j) PROVE TypeInv'
  BY <1>27 DEF TxReverted, Exit
<1>28. ASSUME NEW j \in Job, Throws(j) PROVE TypeInv'
  BY <1>28 DEF Throws, Exit, Orphan
<1>29. ASSUME NEW j \in Job, Mine(j) PROVE TypeInv'
  <2>1. status' \in [Job -> ChainStatus] /\ onChain' \in [Job -> Hash]
    <3>1. CASE pc[j] = "waitSubmit"
      <4>1. MineSubmit(j, attempts[j])
        BY <1>29, <3>1 DEF Mine
      <4> QED
        BY <4>1, MineSubmitTypes
    <3>2. CASE pc[j] = "waitComplete"
      <4>1. MineComplete(j)
        BY <1>29, <3>2 DEF Mine
      <4> QED
        BY <4>1, MineCompleteTypes
    <3> QED
      BY <1>29, <3>1, <3>2 DEF Mine
  <2>2. tx' \in [Job -> {"none", "pending", "mined", "reverted"}]
    <3>1. PICK ok \in BOOLEAN : tx' = [tx EXCEPT ![j] = Receipt(ok)]
      BY <1>29 DEF Mine, WouldSubmit, WouldComplete
    <3> QED
      BY <3>1 DEF Receipt
  <2> QED
    BY <1>29, <2>1, <2>2 DEF Mine
<1>30. ASSUME NEW j \in Job, MineLost(j) PROVE TypeInv'
  <2>1. ASSUME NEW h \in lostSubmits[j], MineSubmit(j, h),
               lostSubmits' = [lostSubmits EXCEPT ![j] = @ \ {h}],
               UNCHANGED lostCompletes
        PROVE  TypeInv'
    <3>1. h \in Hash
      OBVIOUS
    <3>2. status' \in [Job -> ChainStatus] /\ onChain' \in [Job -> Hash]
      BY <2>1, <3>1, MineSubmitTypes
    <3> QED
      BY <1>30, <2>1, <3>2 DEF MineLost
  <2>2. ASSUME lostCompletes[j] > 0, MineComplete(j),
               lostCompletes' = [lostCompletes EXCEPT ![j] = @ - 1],
               UNCHANGED lostSubmits
        PROVE  TypeInv'
    <3>1. status' \in [Job -> ChainStatus] /\ onChain' \in [Job -> Hash]
      BY <2>2, MineCompleteTypes
    <3>2. lostCompletes[j] - 1 \in Nat
      BY <2>2
    <3>3. lostCompletes' \in [Job -> Nat]
      BY <2>2, <3>2
    <3>4. AttemptsLeft'
      BY <1>30 DEF MineLost
    <3> QED
      BY <1>30, <2>2, <3>1, <3>3, <3>4 DEF MineLost
  <2> QED
    BY <1>30, <2>1, <2>2 DEF MineLost
<1>31. ASSUME NEW j \in Job, Fund(j) PROVE TypeInv'
  BY <1>31 DEF Fund
<1>32. ASSUME NEW j \in Job, Refund(j) PROVE TypeInv'
  BY <1>32 DEF Refund
<1>33. ASSUME NEW j \in Job, Elapse(j) PROVE TypeInv'
  BY <1>33 DEF Elapse
<1>34. ASSUME NEW j \in Job, DayPasses(j) PROVE TypeInv'
  BY <1>34 DEF DayPasses
<1>35. CASE UNCHANGED vars
  BY <1>35 DEF vars, history
<1> QED
  BY <1>1, <1>2, <1>3, <1>4, <1>5, <1>6, <1>7, <1>8, <1>9, <1>10, <1>11, <1>12, <1>13, <1>14, <1>15, <1>16, <1>17, <1>18, <1>19, <1>20, <1>21, <1>22, <1>23, <1>24, <1>25, <1>26, <1>27, <1>28, <1>29, <1>30, <1>31, <1>32, <1>33, <1>34, <1>35 DEF Next, ExecutorStep

\* What keeps a job from being submitted twice: a submission leaves the lock
\* held or the document in a status that cannot be claimed.
LockInv == \A j \in Job :
    /\ pc[j] \in {"run", "rehearseSubmit", "sendSubmit"} => executing[j] /\ submits[j] = 0
    /\ submits[j] > 0 => executing[j] \/ docStatus[j] \notin {"None", "Open", "Funded"}
    /\ executing[j] => docStatus[j] # "None"
    /\ submits[j] <= 1

\* Every step keeps LockInv.
LEMMA LockStep ==
  ASSUME TypeOK, LockInv, [Next]_vars
  PROVE  LockInv'
<1> USE DEF LockInv, TypeOK, Goto, Advance, Take, facetVars, lostVars, chainVars, dbVars, procVars,
      pollVars, history
<1>1. CASE PollStart
  BY <1>1 DEF PollStart
<1>2. CASE PollNext
  BY <1>2 DEF PollNext, StartExecutor
<1>3. CASE Crash
  BY <1>3 DEF Crash, Orphan
<1>4. CASE Pause
  BY <1>4 DEF Pause
<1>5. CASE Unpause
  BY <1>5 DEF Unpause
<1>6. ASSUME NEW j \in Job, ApiFund(j) PROVE LockInv'
  BY <1>6 DEF ApiFund
<1>7. ASSUME NEW j \in Job, View(j) PROVE LockInv'
  BY <1>7 DEF View, Done, Exit
<1>8. ASSUME NEW j \in Job, Lookup(j) PROVE LockInv'
  BY <1>8 DEF Lookup, Done, Exit
<1>9. ASSUME NEW j \in Job, VetFlagged(j) PROVE LockInv'
  BY <1>9 DEF VetFlagged, Done, Exit
<1>10. ASSUME NEW j \in Job, VetSkip(j) PROVE LockInv'
  BY <1>10 DEF VetSkip, Exit
<1>11. ASSUME NEW j \in Job, Vet(j) PROVE LockInv'
  BY <1>11 DEF Vet
<1>12. ASSUME NEW j \in Job, Claim(j) PROVE LockInv'
  BY <1>12 DEF Claim
<1>13. ASSUME NEW j \in Job, ClaimTaken(j) PROVE LockInv'
  BY <1>13 DEF ClaimTaken, Exit
<1>14. ASSUME NEW j \in Job, RunSucceeds(j) PROVE LockInv'
  BY <1>14 DEF RunSucceeds
<1>15. ASSUME NEW j \in Job, RunFails(j) PROVE LockInv'
  BY <1>15 DEF RunFails, GiveUp, Exit
<1>16. ASSUME NEW j \in Job, RehearseSubmit(j) PROVE LockInv'
  BY <1>16 DEF RehearseSubmit
<1>17. ASSUME NEW j \in Job, SubmitRefused(j) PROVE LockInv'
  BY <1>17 DEF SubmitRefused, GiveUp, Exit
<1>18. ASSUME NEW j \in Job, SendSubmit(j) PROVE LockInv'
  BY <1>18 DEF SendSubmit
<1>19. ASSUME NEW j \in Job, SubmitConfirmed(j) PROVE LockInv'
  BY <1>19 DEF SubmitConfirmed
<1>20. ASSUME NEW j \in Job, SaveSubmit(j) PROVE LockInv'
  BY <1>20 DEF SaveSubmit
<1>21. ASSUME NEW j \in Job, RehearseComplete(j) PROVE LockInv'
  BY <1>21 DEF RehearseComplete
<1>22. ASSUME NEW j \in Job, CompleteRefused(j) PROVE LockInv'
  BY <1>22 DEF CompleteRefused, Exit
<1>23. ASSUME NEW j \in Job, SendComplete(j) PROVE LockInv'
  BY <1>23 DEF SendComplete
<1>24. ASSUME NEW j \in Job, CompleteConfirmed(j) PROVE LockInv'
  BY <1>24 DEF CompleteConfirmed
<1>25. ASSUME NEW j \in Job, SaveComplete(j) PROVE LockInv'
  BY <1>25 DEF SaveComplete
<1>26. ASSUME NEW j \in Job, TrackRevenue(j) PROVE LockInv'
  BY <1>26 DEF TrackRevenue, Exit
<1>27. ASSUME NEW j \in Job, TxReverted(j) PROVE LockInv'
  BY <1>27 DEF TxReverted, Exit
<1>28. ASSUME NEW j \in Job, Throws(j) PROVE LockInv'
  BY <1>28 DEF Throws, Exit, Orphan
<1>29. ASSUME NEW j \in Job, Mine(j) PROVE LockInv'
  BY <1>29 DEF Mine, MineSubmit, MineComplete, WouldSubmit, WouldComplete, Receipt
<1>30. ASSUME NEW j \in Job, MineLost(j) PROVE LockInv'
  BY <1>30 DEF MineLost, MineSubmit, MineComplete, WouldSubmit, WouldComplete
<1>31. ASSUME NEW j \in Job, Fund(j) PROVE LockInv'
  BY <1>31 DEF Fund
<1>32. ASSUME NEW j \in Job, Refund(j) PROVE LockInv'
  BY <1>32 DEF Refund
<1>33. ASSUME NEW j \in Job, Elapse(j) PROVE LockInv'
  BY <1>33 DEF Elapse
<1>34. ASSUME NEW j \in Job, DayPasses(j) PROVE LockInv'
  BY <1>34 DEF DayPasses
<1>35. CASE UNCHANGED vars
  BY <1>35 DEF vars, history
<1> QED
  BY <1>1, <1>2, <1>3, <1>4, <1>5, <1>6, <1>7, <1>8, <1>9, <1>10, <1>11, <1>12, <1>13, <1>14, <1>15, <1>16, <1>17, <1>18, <1>19, <1>20, <1>21, <1>22, <1>23, <1>24, <1>25, <1>26, <1>27, <1>28, <1>29, <1>30, <1>31, <1>32, <1>33, <1>34, <1>35 DEF Next, ExecutorStep

\* A submission on the chain, or on its way there, is one that was counted.
ChainInv == \A j \in Job :
    /\ \/ status[j] \in {"Submitted", "Completed"}
       \/ lostSubmits[j] # {}
       \/ pc[j] = "waitSubmit"
       => submits[j] > 0
    /\ pc[j] \notin {"idle", "view"} => status[j] # "Open"

\* Every step keeps ChainInv.
LEMMA ChainStep ==
  ASSUME TypeOK, ChainInv, [Next]_vars
  PROVE  ChainInv'
<1> USE DEF ChainInv, TypeOK, Goto, Advance, Take, facetVars, lostVars, chainVars, dbVars, procVars,
      pollVars, history
<1>1. CASE PollStart
  BY <1>1 DEF PollStart
<1>2. CASE PollNext
  BY <1>2 DEF PollNext, StartExecutor
<1>3. CASE Crash
  BY <1>3 DEF Crash, Orphan
<1>4. CASE Pause
  BY <1>4 DEF Pause
<1>5. CASE Unpause
  BY <1>5 DEF Unpause
<1>6. ASSUME NEW j \in Job, ApiFund(j) PROVE ChainInv'
  BY <1>6 DEF ApiFund
<1>7. ASSUME NEW j \in Job, View(j) PROVE ChainInv'
  BY <1>7 DEF View, Done, Exit
<1>8. ASSUME NEW j \in Job, Lookup(j) PROVE ChainInv'
  BY <1>8 DEF Lookup, Done, Exit
<1>9. ASSUME NEW j \in Job, VetFlagged(j) PROVE ChainInv'
  BY <1>9 DEF VetFlagged, Done, Exit
<1>10. ASSUME NEW j \in Job, VetSkip(j) PROVE ChainInv'
  BY <1>10 DEF VetSkip, Exit
<1>11. ASSUME NEW j \in Job, Vet(j) PROVE ChainInv'
  BY <1>11 DEF Vet
<1>12. ASSUME NEW j \in Job, Claim(j) PROVE ChainInv'
  BY <1>12 DEF Claim
<1>13. ASSUME NEW j \in Job, ClaimTaken(j) PROVE ChainInv'
  BY <1>13 DEF ClaimTaken, Exit
<1>14. ASSUME NEW j \in Job, RunSucceeds(j) PROVE ChainInv'
  BY <1>14 DEF RunSucceeds
<1>15. ASSUME NEW j \in Job, RunFails(j) PROVE ChainInv'
  BY <1>15 DEF RunFails, GiveUp, Exit
<1>16. ASSUME NEW j \in Job, RehearseSubmit(j) PROVE ChainInv'
  BY <1>16 DEF RehearseSubmit
<1>17. ASSUME NEW j \in Job, SubmitRefused(j) PROVE ChainInv'
  BY <1>17 DEF SubmitRefused, GiveUp, Exit
<1>18. ASSUME NEW j \in Job, SendSubmit(j) PROVE ChainInv'
  BY <1>18 DEF SendSubmit
<1>19. ASSUME NEW j \in Job, SubmitConfirmed(j) PROVE ChainInv'
  BY <1>19 DEF SubmitConfirmed
<1>20. ASSUME NEW j \in Job, SaveSubmit(j) PROVE ChainInv'
  BY <1>20 DEF SaveSubmit
<1>21. ASSUME NEW j \in Job, RehearseComplete(j) PROVE ChainInv'
  BY <1>21 DEF RehearseComplete
<1>22. ASSUME NEW j \in Job, CompleteRefused(j) PROVE ChainInv'
  BY <1>22 DEF CompleteRefused, Exit
<1>23. ASSUME NEW j \in Job, SendComplete(j) PROVE ChainInv'
  BY <1>23 DEF SendComplete
<1>24. ASSUME NEW j \in Job, CompleteConfirmed(j) PROVE ChainInv'
  BY <1>24 DEF CompleteConfirmed
<1>25. ASSUME NEW j \in Job, SaveComplete(j) PROVE ChainInv'
  BY <1>25 DEF SaveComplete
<1>26. ASSUME NEW j \in Job, TrackRevenue(j) PROVE ChainInv'
  BY <1>26 DEF TrackRevenue, Exit
<1>27. ASSUME NEW j \in Job, TxReverted(j) PROVE ChainInv'
  BY <1>27 DEF TxReverted, Exit
<1>28. ASSUME NEW j \in Job, Throws(j) PROVE ChainInv'
  BY <1>28 DEF Throws, Exit, Orphan
<1>29. ASSUME NEW j \in Job, Mine(j) PROVE ChainInv'
  BY <1>29 DEF Mine, MineSubmit, MineComplete, WouldSubmit, WouldComplete, Receipt
<1>30. ASSUME NEW j \in Job, MineLost(j) PROVE ChainInv'
  BY <1>30 DEF MineLost, MineSubmit, MineComplete, WouldSubmit, WouldComplete
<1>31. ASSUME NEW j \in Job, Fund(j) PROVE ChainInv'
  BY <1>31 DEF Fund
<1>32. ASSUME NEW j \in Job, Refund(j) PROVE ChainInv'
  BY <1>32 DEF Refund
<1>33. ASSUME NEW j \in Job, Elapse(j) PROVE ChainInv'
  BY <1>33 DEF Elapse
<1>34. ASSUME NEW j \in Job, DayPasses(j) PROVE ChainInv'
  BY <1>34 DEF DayPasses
<1>35. CASE UNCHANGED vars
  BY <1>35 DEF vars, history
<1> QED
  BY <1>1, <1>2, <1>3, <1>4, <1>5, <1>6, <1>7, <1>8, <1>9, <1>10, <1>11, <1>12, <1>13, <1>14, <1>15, <1>16, <1>17, <1>18, <1>19, <1>20, <1>21, <1>22, <1>23, <1>24, <1>25, <1>26, <1>27, <1>28, <1>29, <1>30, <1>31, <1>32, <1>33, <1>34, <1>35 DEF Next, ExecutorStep

\* A document is Completed, and revenue recorded, only behind a paid job; no
\* executor of a job whose revenue is recorded gets past View.
PayInv == \A j \in Job :
    /\ pc[j] = "waitComplete" /\ tx[j] = "mined" => status[j] = "Completed"
    /\ pc[j] \in {"saveComplete", "track"} => status[j] = "Completed"
    /\ docStatus[j] = "Completed" => status[j] = "Completed"
    /\ revenue[j] > 0 => status[j] = "Completed" /\ pc[j] \in {"idle", "view"}
    /\ revenue[j] <= 1

\* Every step keeps PayInv.
LEMMA PayStep ==
  ASSUME TypeOK, PayInv, [Next]_vars
  PROVE  PayInv'
<1> USE DEF PayInv, TypeOK, Goto, Advance, Take, facetVars, lostVars, chainVars, dbVars, procVars,
      pollVars, history
<1>1. CASE PollStart
  BY <1>1 DEF PollStart
<1>2. CASE PollNext
  BY <1>2 DEF PollNext, StartExecutor
<1>3. CASE Crash
  BY <1>3 DEF Crash, Orphan
<1>4. CASE Pause
  BY <1>4 DEF Pause
<1>5. CASE Unpause
  BY <1>5 DEF Unpause
<1>6. ASSUME NEW j \in Job, ApiFund(j) PROVE PayInv'
  BY <1>6 DEF ApiFund
<1>7. ASSUME NEW j \in Job, View(j) PROVE PayInv'
  BY <1>7 DEF View, Done, Exit
<1>8. ASSUME NEW j \in Job, Lookup(j) PROVE PayInv'
  BY <1>8 DEF Lookup, Done, Exit
<1>9. ASSUME NEW j \in Job, VetFlagged(j) PROVE PayInv'
  BY <1>9 DEF VetFlagged, Done, Exit
<1>10. ASSUME NEW j \in Job, VetSkip(j) PROVE PayInv'
  BY <1>10 DEF VetSkip, Exit
<1>11. ASSUME NEW j \in Job, Vet(j) PROVE PayInv'
  BY <1>11 DEF Vet
<1>12. ASSUME NEW j \in Job, Claim(j) PROVE PayInv'
  BY <1>12 DEF Claim
<1>13. ASSUME NEW j \in Job, ClaimTaken(j) PROVE PayInv'
  BY <1>13 DEF ClaimTaken, Exit
<1>14. ASSUME NEW j \in Job, RunSucceeds(j) PROVE PayInv'
  BY <1>14 DEF RunSucceeds
<1>15. ASSUME NEW j \in Job, RunFails(j) PROVE PayInv'
  BY <1>15 DEF RunFails, GiveUp, Exit
<1>16. ASSUME NEW j \in Job, RehearseSubmit(j) PROVE PayInv'
  BY <1>16 DEF RehearseSubmit
<1>17. ASSUME NEW j \in Job, SubmitRefused(j) PROVE PayInv'
  BY <1>17 DEF SubmitRefused, GiveUp, Exit
<1>18. ASSUME NEW j \in Job, SendSubmit(j) PROVE PayInv'
  BY <1>18 DEF SendSubmit
<1>19. ASSUME NEW j \in Job, SubmitConfirmed(j) PROVE PayInv'
  BY <1>19 DEF SubmitConfirmed
<1>20. ASSUME NEW j \in Job, SaveSubmit(j) PROVE PayInv'
  BY <1>20 DEF SaveSubmit
<1>21. ASSUME NEW j \in Job, RehearseComplete(j) PROVE PayInv'
  BY <1>21 DEF RehearseComplete
<1>22. ASSUME NEW j \in Job, CompleteRefused(j) PROVE PayInv'
  BY <1>22 DEF CompleteRefused, Exit
<1>23. ASSUME NEW j \in Job, SendComplete(j) PROVE PayInv'
  BY <1>23 DEF SendComplete
<1>24. ASSUME NEW j \in Job, CompleteConfirmed(j) PROVE PayInv'
  BY <1>24 DEF CompleteConfirmed
<1>25. ASSUME NEW j \in Job, SaveComplete(j) PROVE PayInv'
  BY <1>25 DEF SaveComplete
<1>26. ASSUME NEW j \in Job, TrackRevenue(j) PROVE PayInv'
  BY <1>26 DEF TrackRevenue, Exit
<1>27. ASSUME NEW j \in Job, TxReverted(j) PROVE PayInv'
  BY <1>27 DEF TxReverted, Exit
<1>28. ASSUME NEW j \in Job, Throws(j) PROVE PayInv'
  BY <1>28 DEF Throws, Exit, Orphan
<1>29. ASSUME NEW j \in Job, Mine(j) PROVE PayInv'
  BY <1>29 DEF Mine, MineSubmit, MineComplete, WouldSubmit, WouldComplete, Receipt
<1>30. ASSUME NEW j \in Job, MineLost(j) PROVE PayInv'
  BY <1>30 DEF MineLost, MineSubmit, MineComplete, WouldSubmit, WouldComplete
<1>31. ASSUME NEW j \in Job, Fund(j) PROVE PayInv'
  BY <1>31 DEF Fund
<1>32. ASSUME NEW j \in Job, Refund(j) PROVE PayInv'
  BY <1>32 DEF Refund
<1>33. ASSUME NEW j \in Job, Elapse(j) PROVE PayInv'
  BY <1>33 DEF Elapse
<1>34. ASSUME NEW j \in Job, DayPasses(j) PROVE PayInv'
  BY <1>34 DEF DayPasses
<1>35. CASE UNCHANGED vars
  BY <1>35 DEF vars, history
<1> QED
  BY <1>1, <1>2, <1>3, <1>4, <1>5, <1>6, <1>7, <1>8, <1>9, <1>10, <1>11, <1>12, <1>13, <1>14, <1>15, <1>16, <1>17, <1>18, <1>19, <1>20, <1>21, <1>22, <1>23, <1>24, <1>25, <1>26, <1>27, <1>28, <1>29, <1>30, <1>31, <1>32, <1>33, <1>34, <1>35 DEF Next, ExecutorStep

\* What is recorded as the deliverable is what the chain has; it is not recorded
\* while an execution may still submit another, and whoever completes the job, or
\* has, has recorded it.
DeliverInv == \A j \in Job :
    /\ pc[j] \in Executor => attempts[j] # 0 /\ docHash[j] = 0
    /\ (pc[j] = "waitSubmit" /\ tx[j] = "mined") \/ pc[j] = "saveSubmit"
         => onChain[j] = attempts[j] /\ status[j] \in {"Submitted", "Completed"}
    /\ docHash[j] # 0 => docHash[j] = onChain[j] /\ status[j] \in {"Submitted", "Completed"}
    /\ \/ pc[j] \in Completer
       \/ lostCompletes[j] > 0
       \/ status[j] = "Completed"
       => docHash[j] # 0
    /\ pc[j] = "track" => docStatus[j] = "Completed"
    /\ lostSubmits[j] \subseteq 1 .. MaxAttempts

\* Every step keeps DeliverInv.
LEMMA DeliverStep ==
  ASSUME TypeOK, LockInv, ChainInv, PayInv, DeliverInv, [Next]_vars
  PROVE  DeliverInv'
<1> USE DEF DeliverInv, Executor, Completer, TypeOK, Goto, Advance, Take, facetVars, lostVars, chainVars, dbVars, procVars,
      pollVars, history
<1>1. CASE PollStart
  BY <1>1 DEF PollStart
<1>2. CASE PollNext
  BY ZenonT(40), <1>2 DEF PollNext, StartExecutor
<1>3. CASE Crash
  BY <1>3, BoundsAssumption DEF Crash, Orphan, Hash
<1>4. CASE Pause
  BY <1>4 DEF Pause
<1>5. CASE Unpause
  BY <1>5 DEF Unpause
<1>6. ASSUME NEW j \in Job, ApiFund(j) PROVE DeliverInv'
  BY <1>6 DEF ApiFund
<1>7. ASSUME NEW j \in Job, View(j) PROVE DeliverInv'
  BY <1>7 DEF View, Done, Exit, PayInv
<1>8. ASSUME NEW j \in Job, Lookup(j) PROVE DeliverInv'
  BY <1>8 DEF Lookup, Done, Exit
<1>9. ASSUME NEW j \in Job, VetFlagged(j) PROVE DeliverInv'
  BY <1>9 DEF VetFlagged, Done, Exit
<1>10. ASSUME NEW j \in Job, VetSkip(j) PROVE DeliverInv'
  BY <1>10 DEF VetSkip, Exit
<1>11. ASSUME NEW j \in Job, Vet(j) PROVE DeliverInv'
  BY <1>11 DEF Vet
<1>12. ASSUME NEW j \in Job, Claim(j) PROVE DeliverInv'
  BY <1>12, BoundsAssumption DEF Claim, LockInv, ChainInv, Hash
<1>13. ASSUME NEW j \in Job, ClaimTaken(j) PROVE DeliverInv'
  BY <1>13 DEF ClaimTaken, Exit
<1>14. ASSUME NEW j \in Job, RunSucceeds(j) PROVE DeliverInv'
  BY <1>14 DEF RunSucceeds
<1>15. ASSUME NEW j \in Job, RunFails(j) PROVE DeliverInv'
  BY <1>15 DEF RunFails, GiveUp, Exit
<1>16. ASSUME NEW j \in Job, RehearseSubmit(j) PROVE DeliverInv'
  BY <1>16 DEF RehearseSubmit
<1>17. ASSUME NEW j \in Job, SubmitRefused(j) PROVE DeliverInv'
  BY <1>17 DEF SubmitRefused, GiveUp, Exit
<1>18. ASSUME NEW j \in Job, SendSubmit(j) PROVE DeliverInv'
  BY <1>18 DEF SendSubmit
<1>19. ASSUME NEW j \in Job, SubmitConfirmed(j) PROVE DeliverInv'
  BY <1>19 DEF SubmitConfirmed
<1>20. ASSUME NEW j \in Job, SaveSubmit(j) PROVE DeliverInv'
  BY <1>20 DEF SaveSubmit
<1>21. ASSUME NEW j \in Job, RehearseComplete(j) PROVE DeliverInv'
  BY <1>21 DEF RehearseComplete
<1>22. ASSUME NEW j \in Job, CompleteRefused(j) PROVE DeliverInv'
  BY <1>22 DEF CompleteRefused, Exit
<1>23. ASSUME NEW j \in Job, SendComplete(j) PROVE DeliverInv'
  BY <1>23 DEF SendComplete
<1>24. ASSUME NEW j \in Job, CompleteConfirmed(j) PROVE DeliverInv'
  BY <1>24 DEF CompleteConfirmed
<1>25. ASSUME NEW j \in Job, SaveComplete(j) PROVE DeliverInv'
  BY <1>25 DEF SaveComplete
<1>26. ASSUME NEW j \in Job, TrackRevenue(j) PROVE DeliverInv'
  BY <1>26 DEF TrackRevenue, Exit
<1>27. ASSUME NEW j \in Job, TxReverted(j) PROVE DeliverInv'
  BY <1>27 DEF TxReverted, Exit
<1>28. ASSUME NEW j \in Job, Throws(j) PROVE DeliverInv'
  BY <1>28, BoundsAssumption DEF Throws, Exit, Orphan, Hash
<1>29. ASSUME NEW j \in Job, Mine(j) PROVE DeliverInv'
  BY <1>29 DEF Mine, MineSubmit, MineComplete, WouldSubmit, WouldComplete, Receipt
<1>30. ASSUME NEW j \in Job, MineLost(j) PROVE DeliverInv'
  BY SMTT(20), <1>30 DEF MineLost, MineSubmit, MineComplete, WouldSubmit, WouldComplete
<1>31. ASSUME NEW j \in Job, Fund(j) PROVE DeliverInv'
  BY <1>31 DEF Fund
<1>32. ASSUME NEW j \in Job, Refund(j) PROVE DeliverInv'
  BY <1>32 DEF Refund
<1>33. ASSUME NEW j \in Job, Elapse(j) PROVE DeliverInv'
  BY <1>33 DEF Elapse
<1>34. ASSUME NEW j \in Job, DayPasses(j) PROVE DeliverInv'
  BY <1>34 DEF DayPasses
<1>35. CASE UNCHANGED vars
  BY <1>35 DEF vars, history
<1> QED
  BY <1>1, <1>2, <1>3, <1>4, <1>5, <1>6, <1>7, <1>8, <1>9, <1>10, <1>11, <1>12, <1>13, <1>14, <1>15, <1>16, <1>17, <1>18, <1>19, <1>20, <1>21, <1>22, <1>23, <1>24, <1>25, <1>26, <1>27, <1>28, <1>29, <1>30, <1>31, <1>32, <1>33, <1>34, <1>35 DEF Next, ExecutorStep

IInv == TypeInv /\ LockInv /\ ChainInv /\ PayInv /\ DeliverInv

\* The inductive invariant holds in every reachable state.
THEOREM Invariance == Spec => []IInv
<1>1. Init => IInv
  <2> SUFFICES ASSUME Init PROVE IInv
    OBVIOUS
  <2>1. 0 \in Hash
    BY BoundsAssumption DEF Hash
  <2>2. seen \in [Job -> [status : ChainStatus, hash : Hash]]
    BY <2>1 DEF Init, ChainStatus
  <2>3. terms \in [Job -> Terms]
    BY BoundsAssumption DEF Init
  <2>4. TypeOK
    BY <2>1, <2>2, <2>3 DEF Init, TypeOK, ChainStatus, DocStatus, TimeLeft, Step
  <2>5. AttemptsLeft
    BY DEF Init, AttemptsLeft
  <2>6. LockInv /\ ChainInv /\ PayInv
    BY DEF Init, LockInv, ChainInv, PayInv
  <2>7. DeliverInv
    BY DEF Init, DeliverInv, Executor, Completer
  <2> QED
    BY <2>4, <2>5, <2>6, <2>7 DEF IInv, TypeInv
<1>2. IInv /\ [Next]_vars => IInv'
  BY TypeStep, LockStep, ChainStep, PayStep, DeliverStep DEF IInv, TypeInv
<1> QED
  BY <1>1, <1>2, PTL DEF Spec

\* Every variable always has its type; in particular no job is executed more
\* than MaxAttempts times.
THEOREM TypeCorrect == Spec => []TypeOK
<1>1. IInv => TypeOK
  BY DEF IInv, TypeInv
<1> QED
  BY <1>1, Invariance, PTL

\* Submit gas is paid at most once for a job.
THEOREM SubmitOnceHolds == Spec => []SubmitOnce
<1>1. IInv => SubmitOnce
  BY DEF IInv, LockInv, SubmitOnce
<1> QED
  BY <1>1, Invariance, PTL

\* No job is executed once a deliverable of it is on the chain: the executor
\* that runs has never sent one, and what is on the chain was sent.
THEOREM NoWorkTwiceHolds == Spec => []NoWorkTwice
<1>1. ASSUME IInv, NEW j \in Job, pc[j] = "run"
      PROVE  status[j] \in {"Funded", "Expired"}
  <2>1. submits[j] = 0
    BY <1>1 DEF IInv, LockInv
  <2>2. status[j] \notin {"Submitted", "Completed"} /\ status[j] # "Open"
    BY <1>1, <2>1 DEF IInv, ChainInv
  <2> QED
    BY <1>1, <2>2 DEF IInv, TypeInv, TypeOK, ChainStatus
<1>2. IInv => NoWorkTwice
  BY <1>1 DEF NoWorkTwice
<1> QED
  BY <1>2, Invariance, PTL

\* A deliverable is shown to the client only when the contract has paid.
THEOREM DeliveredOnlyWhenPaidHolds == Spec => []DeliveredOnlyWhenPaid
<1>1. IInv => DeliveredOnlyWhenPaid
  BY DEF IInv, PayInv, DeliveredOnlyWhenPaid
<1> QED
  BY <1>1, Invariance, PTL

\* Revenue is recorded at most once for a job, and only for a paid one.
THEOREM RevenueOnceHolds == Spec => []RevenueOnce
<1>1. IInv => RevenueOnce
  BY DEF IInv, PayInv, RevenueOnce
<1> QED
  BY <1>1, Invariance, PTL

-----------------------------------------------------------------------------
(* The promise of PaidJob *)

\* A step that touches neither the chain, nor what the client sees, nor what
\* gas and revenue were booked, is none of PaidJob.
LEMMA Unseen ==
  ASSUME UNCHANGED <<status, onChain, submits, docStatus, docHash, revenue>>
  PROVE  UNCHANGED Promise!vars
BY DEF Promise!vars, Shown

\* Once the chain has paid and the document says so, the client is shown what
\* was paid for.
LEMMA ShowsWhatIsPaid ==
  ASSUME TypeOK, DeliverInv, NEW j \in Job, status[j] = "Completed",
         docStatus' = [docStatus EXCEPT ![j] = "Completed"],
         UNCHANGED <<status, onChain, submits, docHash, revenue>>
  PROVE  Promise!Deliver(j) \/ UNCHANGED Promise!vars
<1>1. docHash[j] = onChain[j]
  BY DEF DeliverInv
<1>2. Shown' = [Shown EXCEPT ![j] = onChain[j]]
  BY <1>1 DEF Shown, TypeOK
<1>3. Shown[j] \in {0, onChain[j]} /\ Shown = [k \in Job |-> Shown[k]]
  BY <1>1 DEF Shown
<1>4. CASE Shown[j] = 0
  BY <1>2, <1>4 DEF Promise!Deliver
<1>5. CASE Shown[j] = onChain[j]
  <2>1. Shown' = Shown
    BY <1>2, <1>3, <1>5
  <2> QED
    BY <2>1 DEF Promise!vars
<1> QED
  BY <1>3, <1>4, <1>5

\* A status that is not Completed, of a document that was not: the client is
\* shown nothing, as before.
LEMMA ShowsNothing ==
  ASSUME TypeOK, NEW j \in Job, NEW s, s # "Completed", docStatus[j] # "Completed",
         docStatus' = [docStatus EXCEPT ![j] = s],
         \A k \in Job : k # j => docHash'[k] = docHash[k],
         UNCHANGED <<status, onChain, submits, revenue>>
  PROVE  UNCHANGED Promise!vars
<1>1. ASSUME NEW k \in Job
      PROVE  (IF docStatus'[k] = "Completed" THEN docHash'[k] ELSE 0)
               = (IF docStatus[k] = "Completed" THEN docHash[k] ELSE 0)
  <2>1. CASE k = j
    BY <2>1 DEF TypeOK
  <2>2. CASE k # j
    BY <2>2 DEF TypeOK
  <2> QED
    BY <2>1, <2>2
<1>2. Shown' = Shown
  BY <1>1 DEF Shown
<1> QED
  BY <1>2 DEF Promise!vars

\* What the chain makes of a submission, or of a completion.
LEMMA MinesAsPromised ==
  ASSUME TypeOK, ChainInv, LockInv, NEW j \in Job, UNCHANGED <<submits, docStatus, docHash, revenue>>
  PROVE  /\ \A h \in 1 .. MaxAttempts : MineSubmit(j, h) /\ submits[j] > 0
              => Promise!Submit(j, h) \/ UNCHANGED Promise!vars
         /\ MineComplete(j) => Promise!Pay(j) \/ UNCHANGED Promise!vars
<1>1. Shown' = Shown
  BY DEF Shown
<1>2. submits[j] > 0 => submits[j] = 1
  BY DEF LockInv, TypeOK
<1>3. ASSUME NEW h \in 1 .. MaxAttempts, MineSubmit(j, h), submits[j] > 0
      PROVE  Promise!Submit(j, h) \/ UNCHANGED Promise!vars
  BY <1>1, <1>2, <1>3 DEF MineSubmit, WouldSubmit, Promise!Submit, Promise!Becomes, Promise!vars
<1>4. ASSUME MineComplete(j)
      PROVE  Promise!Pay(j) \/ UNCHANGED Promise!vars
  <2>1. CASE WouldComplete(j)
    BY <1>1, <1>4, <2>1 DEF MineComplete, WouldComplete, Promise!Pay, Promise!Becomes
  <2>2. CASE ~WouldComplete(j)
    BY <1>1, <1>4, <2>2 DEF MineComplete, Promise!vars
  <2> QED
    BY <2>1, <2>2
<1> QED
  BY <1>3, <1>4

\* Every step of executors, poller, clients, chain and clock is a step of
\* PaidJob, or nothing that it sees.
LEMMA PromiseStep ==
  ASSUME IInv, [Next]_vars
  PROVE  [Promise!Next]_(Promise!vars)
<1>1. TypeOK /\ LockInv /\ ChainInv /\ PayInv /\ DeliverInv
  BY DEF IInv, TypeInv
<1>2. Hash \ {0} = 1 .. MaxAttempts
  BY BoundsAssumption DEF Hash
<1>3. ASSUME NEW j \in Job,
             \/ Promise!Fund(j) \/ Promise!Refund(j) \/ Promise!Send(j) \/ Promise!Pay(j)
             \/ Promise!Deliver(j) \/ Promise!Book(j)
             \/ \E h \in Hash \ {0} : Promise!Submit(j, h)
      PROVE  [Promise!Next]_(Promise!vars)
  BY <1>3 DEF Promise!Next
<1>4. CASE UNCHANGED <<status, onChain, submits, docStatus, docHash, revenue>>
  BY <1>4, Unseen
<1> USE DEF facetVars, chainVars, dbVars, procVars, pollVars, history
<1>5. ASSUME NEW j \in Job, View(j) PROVE [Promise!Next]_(Promise!vars)
  <2>1. UNCHANGED <<status, onChain, submits, docHash, revenue>>
    BY <1>5 DEF View
  <2>2. CASE UNCHANGED docStatus
    BY <2>1, <2>2, Unseen
  <2>3. CASE /\ status[j] \in {"Completed", "Expired"} /\ docStatus[j] # "None"
             /\ docStatus' = [docStatus EXCEPT ![j] = status[j]]
    <3>1. CASE status[j] = "Completed"
      BY <1>1, <1>3, <2>1, <2>3, <3>1, ShowsWhatIsPaid
    <3>2. CASE status[j] = "Expired"
      <4>1. docStatus[j] # "Completed" /\ docStatus' = [docStatus EXCEPT ![j] = "Expired"]
        BY <1>1, <2>3, <3>2 DEF PayInv
      <4> QED
        BY <1>1, <2>1, <4>1, ShowsNothing
    <3> QED
      BY <2>3, <3>1, <3>2
  <2> QED
    BY <1>1, <1>5, <2>2, <2>3 DEF View, TypeOK
<1>6. ASSUME NEW j \in Job, Claim(j) PROVE [Promise!Next]_(Promise!vars)
  <2>1. /\ docStatus' = [docStatus EXCEPT ![j] = "Funded"] /\ docStatus[j] # "Completed"
        /\ UNCHANGED <<status, onChain, submits, docHash, revenue>>
    BY <1>6 DEF Claim, Take
  <2> QED
    BY <1>1, <2>1, ShowsNothing
<1>7. ASSUME NEW j \in Job, SendSubmit(j) PROVE [Promise!Next]_(Promise!vars)
  <2>1. /\ pc[j] = "sendSubmit" /\ submits' = [submits EXCEPT ![j] = @ + 1]
        /\ UNCHANGED <<status, onChain, docStatus, docHash, revenue>>
    BY <1>7 DEF SendSubmit, Goto
  <2>2. submits[j] = 0 /\ status[j] \in {"Funded", "Expired"}
    BY SMTT(20), <1>1, <2>1 DEF LockInv, ChainInv, TypeOK, ChainStatus
  <2>3. submits' = [submits EXCEPT ![j] = 1] /\ Shown' = Shown
    BY <2>1, <2>2 DEF Shown
  <2>4. Promise!Send(j)
    BY <2>1, <2>2, <2>3 DEF Promise!Send
  <2> QED
    BY <1>3, <2>4
<1>8. ASSUME NEW j \in Job, SaveSubmit(j) PROVE [Promise!Next]_(Promise!vars)
  <2>1. /\ pc[j] = "saveSubmit" /\ docStatus' = [docStatus EXCEPT ![j] = "Submitted"]
        /\ docHash' = [docHash EXCEPT ![j] = attempts[j]]
        /\ UNCHANGED <<status, onChain, submits, revenue>>
    BY <1>8 DEF SaveSubmit, Goto
  <2>2. docStatus[j] # "Completed"
    BY <1>1, <2>1 DEF PayInv, DeliverInv, Executor
  <2>3. \A k \in Job : k # j => docHash'[k] = docHash[k]
    BY <1>1, <2>1 DEF TypeOK
  <2> QED
    BY <1>1, <2>1, <2>2, <2>3, ShowsNothing
<1>9. ASSUME NEW j \in Job, SaveComplete(j) PROVE [Promise!Next]_(Promise!vars)
  <2>1. /\ pc[j] = "saveComplete" /\ docStatus' = [docStatus EXCEPT ![j] = "Completed"]
        /\ UNCHANGED <<status, onChain, submits, docHash, revenue>>
    BY <1>9 DEF SaveComplete, Goto
  <2>2. status[j] = "Completed"
    BY <1>1, <2>1 DEF PayInv
  <2> QED
    BY <1>1, <1>3, <2>1, <2>2, ShowsWhatIsPaid
<1>10. ASSUME NEW j \in Job, TrackRevenue(j) PROVE [Promise!Next]_(Promise!vars)
  <2>1. /\ pc[j] = "track" /\ UNCHANGED <<status, onChain, submits, docStatus, docHash>>
        /\ revenue' = [revenue EXCEPT ![j] = @ + 1] \/ UNCHANGED revenue
    BY <1>10 DEF TrackRevenue
  <2>2. CASE UNCHANGED revenue
    BY <2>1, <2>2, Unseen
  <2>3. CASE revenue' = [revenue EXCEPT ![j] = @ + 1]
    <3>1. revenue[j] = 0
      BY SMTT(20), <1>1, <2>1 DEF PayInv, TypeOK
    <3>2. docStatus[j] = "Completed" /\ docHash[j] # 0
      BY <1>1, <2>1 DEF DeliverInv, Completer
    <3>3. Shown[j] # 0 /\ Shown' = Shown /\ revenue' = [revenue EXCEPT ![j] = 1]
      BY <2>1, <2>3, <3>1, <3>2 DEF Shown
    <3>4. Promise!Book(j)
      BY <2>1, <3>1, <3>3 DEF Promise!Book
    <3> QED
      BY <1>3, <3>4
  <2> QED
    BY <2>1, <2>2, <2>3
<1>11. ASSUME NEW j \in Job, Mine(j) PROVE [Promise!Next]_(Promise!vars)
  <2>1. UNCHANGED <<submits, docStatus, docHash, revenue>>
    BY <1>11 DEF Mine
  <2>2. CASE pc[j] = "waitSubmit" /\ MineSubmit(j, attempts[j])
    <3>1. attempts[j] \in Hash \ {0} /\ submits[j] > 0
      BY <1>1, <2>2 DEF DeliverInv, Executor, ChainInv, TypeOK
    <3>2. Promise!Submit(j, attempts[j]) \/ UNCHANGED Promise!vars
      BY <1>1, <1>2, <2>1, <2>2, <3>1, MinesAsPromised
    <3> QED
      BY <1>3, <3>1, <3>2
  <2>3. CASE MineComplete(j)
    BY <1>1, <1>3, <2>1, <2>3, MinesAsPromised
  <2> QED
    BY <1>11, <2>2, <2>3 DEF Mine
<1>12. ASSUME NEW j \in Job, MineLost(j) PROVE [Promise!Next]_(Promise!vars)
  <2>1. UNCHANGED <<submits, docStatus, docHash, revenue>>
    BY <1>12 DEF MineLost
  <2>2. ASSUME NEW h \in lostSubmits[j], MineSubmit(j, h) PROVE [Promise!Next]_(Promise!vars)
    <3>1. h \in Hash \ {0} /\ submits[j] > 0
      BY <1>1, <1>2, <2>2 DEF DeliverInv, ChainInv
    <3>2. Promise!Submit(j, h) \/ UNCHANGED Promise!vars
      BY <1>1, <1>2, <2>1, <2>2, <3>1, MinesAsPromised
    <3> QED
      BY <1>3, <3>1, <3>2
  <2>3. CASE MineComplete(j)
    BY <1>1, <1>3, <2>1, <2>3, MinesAsPromised
  <2> QED
    BY <1>12, <2>2, <2>3 DEF MineLost
<1>13. ASSUME NEW j \in Job, Fund(j) \/ Refund(j) PROVE [Promise!Next]_(Promise!vars)
  <2>1. Shown' = Shown
    BY <1>13 DEF Fund, Refund, Shown
  <2>2. Promise!Fund(j) \/ Promise!Refund(j)
    BY <1>13, <2>1 DEF Fund, Refund, Promise!Fund, Promise!Refund, Promise!Becomes
  <2> QED
    BY <1>3, <2>2
<1>14. ASSUME NEW j \in Job,
              \/ ApiFund(j) \/ Lookup(j) \/ VetFlagged(j) \/ VetSkip(j) \/ Vet(j) \/ ClaimTaken(j)
              \/ RunSucceeds(j) \/ RunFails(j) \/ RehearseSubmit(j) \/ SubmitRefused(j)
              \/ SubmitConfirmed(j) \/ RehearseComplete(j) \/ CompleteRefused(j) \/ SendComplete(j)
              \/ CompleteConfirmed(j) \/ TxReverted(j) \/ Throws(j) \/ Elapse(j) \/ DayPasses(j)
       PROVE  [Promise!Next]_(Promise!vars)
  BY <1>4, <1>14 DEF ApiFund, Lookup, VetFlagged, VetSkip, Vet, ClaimTaken, RunSucceeds, RunFails,
     RehearseSubmit, SubmitRefused, SubmitConfirmed, RehearseComplete, CompleteRefused, SendComplete,
     CompleteConfirmed, TxReverted, Throws, Elapse, DayPasses, Advance, GiveUp, Orphan
<1>15. CASE PollStart \/ PollNext \/ Crash \/ Pause \/ Unpause \/ UNCHANGED vars
  BY <1>4, <1>15 DEF PollStart, PollNext, Crash, Pause, Unpause, Orphan, vars
<1> QED
  BY <1>5, <1>6, <1>7, <1>8, <1>9, <1>10, <1>11, <1>12, <1>13, <1>14, <1>15 DEF Next, ExecutorStep

\* The service keeps the promise of PaidJob: each job goes through funding,
\* submission, payment, delivery and booking once and in this order, and what
\* the client is shown is what the contract has paid for.
THEOREM KeepsPromiseHolds == Spec => KeepsPromise
<1>1. Init => Promise!Init
  <2>1. Init => Shown = [j \in Job |-> 0]
    BY DEF Init, Shown
  <2> QED
    BY <2>1 DEF Init, Promise!Init
<1> QED
  BY <1>1, PromiseStep, Invariance, PTL DEF Spec, KeepsPromise, Promise!Spec

=============================================================================
