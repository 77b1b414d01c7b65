---------------------------- MODULE CreditCharges ----------------------------
(***************************************************************************)
(* Service calls paid with credits.  Each charges first, does the work and *)
(* refunds a failure, but four pieces of code do so in four ways:          *)
(*                                                                         *)
(*   middleware  creditDebit, before the handlers of most routes           *)
(*   plugin      the generic route, routes/plugins.js                      *)
(*   metered     routes/tts.js and chargeAndTranscribe                     *)
(*   scrape      routes/scraping.js                                        *)
(*                                                                         *)
(* A step of a call is the code from one await to the next; a database     *)
(* call is cut where the database runs it.                                 *)
(***************************************************************************)
EXTENDS CreditStore, FiniteSets

CONSTANTS Call,         \* the service calls
          WalletOf,     \* WalletOf[c]: the wallet that pays
          Cost,         \* Cost[c]: its price in credits
          Retries       \* the retries of retryOperation in creditDebit

ASSUME CallAssumption ==
    /\ WalletOf \in [Call -> Wallet]
    /\ Cost \in [Call -> Nat \ {0}]
    /\ Retries \in Nat

Routes == {"middleware", "plugin", "metered", "scrape"}
Steps == {"check", "debit", "work", "refund", "reread", "fallback", "recover", "done", "lost"}
Told == {"nothing", "refused", "served", "free", "failed", "refunded"}

VARIABLES route,        \* route[c]: the code the call runs
          step,         \* step[c]: what it does next; "lost": it never answers
          told,         \* told[c]: what the answer says
          tries,        \* tries[c]: debits of creditDebit that have failed
          owed,         \* owed[c]: the refund of creditDebit is under way
          charged,      \* charged[c]: how often the price was taken ...
          refunds       \* ... and given back

callVars == <<route, step, told, tries, owed, charged, refunds>>

\* Only these two look at the balance before they debit it.
First(r) == IF r \in {"middleware", "scrape"} THEN "check" ELSE "debit"

CallInit ==
    /\ route \in [Call -> Routes]
    /\ step = [c \in Call |-> First(route[c])]
    /\ told = [c \in Call |-> "nothing"]
    /\ tries = [c \in Call |-> 0]
    /\ owed = [c \in Call |-> FALSE]
    /\ charged = [c \in Call |-> 0]
    /\ refunds = [c \in Call |-> 0]

-----------------------------------------------------------------------------
GoTo(c, s) == step' = [step EXCEPT ![c] = s] /\ UNCHANGED told
Answer(c, t) == step' = [step EXCEPT ![c] = "done"] /\ told' = [told EXCEPT ![c] = t]

NoWrite == UNCHANGED <<account, charged, refunds>>

CanDebit(c) == Affords(WalletOf[c], Cost[c])

TakeCredits(c) ==
    /\ account' = Debited(WalletOf[c], Cost[c])
    /\ charged' = [charged EXCEPT ![c] = @ + 1]
    /\ UNCHANGED refunds

GiveBack(c) ==
    /\ account' = Refunded(WalletOf[c], Cost[c])
    /\ refunds' = [refunds EXCEPT ![c] = @ + 1]
    /\ UNCHANGED charged

-----------------------------------------------------------------------------
(* Mutants: what a bug in the code would make of an operation *)

\* BUG: debitCredits without its filter, after the balance was read.
DebitUnguarded(c) ==
    /\ step[c] = "debit"
    /\ TakeCredits(c) /\ GoTo(c, "work")
    /\ Answers
    /\ UNCHANGED <<route, tries, owed>>

\* BUG: no route looks at what debitCredits answers.
DebitUnasked(c) ==
    /\ step[c] = "debit"
    /\ IF CanDebit(c) THEN TakeCredits(c) ELSE NoWrite
    /\ GoTo(c, "work")
    /\ Answers
    /\ UNCHANGED <<route, tries, owed>>

\* BUG: creditDebit counts its attempts from one.
DebitFailsOnceMore(c) ==
    /\ step[c] = "debit"
    /\ Fails
    /\ route[c] = "middleware" /\ tries[c] <= Retries
    /\ tries' = [tries EXCEPT ![c] = @ + 1]
    /\ NoWrite /\ GoTo(c, "debit")
    /\ UNCHANGED <<route, owed>>

\* BUG: creditDebit says that it refunds, and does not.
WorkFailsUnrefunded(c) ==
    /\ step[c] = "work"
    /\ \/ route[c] = "middleware" /\ Answer(c, "refunded")
       \/ route[c] # "middleware" /\ GoTo(c, "recover")
    /\ Answers /\ NoWrite
    /\ UNCHANGED <<route, tries, owed>>

\* BUG: the refund of creditDebit goes through retryOperation, as its debit
\* does, and is made again when only its answer was lost.
SettleRetries(c) ==
    /\ owed[c]
    /\ \/ GiveBack(c) /\ Answers /\ owed' = [owed EXCEPT ![c] = FALSE]
       \/ (GiveBack(c) \/ NoWrite) /\ Fails /\ UNCHANGED owed
    /\ UNCHANGED <<route, step, told, tries>>

-----------------------------------------------------------------------------
\* The balance is read and compared, without reserving anything.
CheckBalance(c) ==
    /\ step[c] = "check"
    /\ \/ CanDebit(c) /\ GoTo(c, "debit") /\ Answers
       \/ ~CanDebit(c) /\ Answer(c, "refused") /\ Answers
       \/ route[c] = "middleware" /\ Answer(c, "failed") /\ Fails
       \/ route[c] = "scrape" /\ GoTo(c, "lost") /\ Fails
    /\ NoWrite
    /\ UNCHANGED <<route, tries, owed>>

\* debitCredits answers.  The scraper does not look at the answer.
Debit(c) ==
    /\ step[c] = "debit"
    /\ \/ CanDebit(c) /\ TakeCredits(c) /\ GoTo(c, "work")
       \/ ~CanDebit(c) /\ NoWrite /\ route[c] = "scrape" /\ GoTo(c, "work")
       \/ ~CanDebit(c) /\ NoWrite /\ route[c] # "scrape" /\ Answer(c, "refused")
    /\ Answers
    /\ UNCHANGED <<route, tries, owed>>

\* debitCredits fails, the price taken or not; creditDebit may try again.
DebitFails(c) ==
    /\ step[c] = "debit"
    /\ Fails
    /\ (CanDebit(c) /\ TakeCredits(c)) \/ NoWrite
    /\ \/ /\ route[c] = "middleware" /\ tries[c] < Retries
          /\ tries' = [tries EXCEPT ![c] = @ + 1]
          /\ GoTo(c, "debit")
       \/ route[c] = "middleware" /\ Answer(c, "failed") /\ UNCHANGED tries
       \/ route[c] \in {"plugin", "metered"} /\ Answer(c, "refused") /\ UNCHANGED tries
       \/ route[c] = "scrape" /\ GoTo(c, "lost") /\ UNCHANGED tries
    /\ UNCHANGED <<route, owed>>

\* The work is done.  A plugin may have answered from a source that costs
\* nothing; scrape and metered read the balance before they answer, inside
\* the try block whose catch refunds.
WorkSucceeds(c) ==
    /\ step[c] = "work"
    /\ \/ Answer(c, "served") /\ Answers
       \/ route[c] = "plugin" /\ GoTo(c, "fallback") /\ Answers
       \/ route[c] \in {"metered", "scrape"} /\ GoTo(c, "recover") /\ Fails
    /\ NoWrite
    /\ UNCHANGED <<route, tries, owed>>

\* The work fails.  creditDebit starts a refund that nobody waits for, and
\* only if the handler says targetError.
WorkFails(c) ==
    /\ step[c] = "work"
    /\ \/ /\ route[c] = "middleware"
          /\ \/ Answer(c, "refunded") /\ owed' = [owed EXCEPT ![c] = TRUE]
             \/ Answer(c, "failed") /\ UNCHANGED owed
       \/ route[c] \in {"plugin", "scrape"} /\ GoTo(c, "refund") /\ UNCHANGED owed
       \/ route[c] # "middleware" /\ GoTo(c, "recover") /\ UNCHANGED owed
    /\ Answers /\ NoWrite
    /\ UNCHANGED <<route, tries>>

\* The refund inside the try block.
Refund(c) ==
    /\ step[c] = "refund"
    /\ \/ /\ GiveBack(c) /\ Answers
          /\ \/ route[c] = "plugin" /\ Answer(c, "refunded")
             \/ route[c] = "scrape" /\ GoTo(c, "reread")
       \/ (GiveBack(c) \/ NoWrite) /\ Fails /\ GoTo(c, "recover")
    /\ UNCHANGED <<route, tries, owed>>

\* The scraper reads the balance after its refund, still inside the try.
Reread(c) ==
    /\ step[c] = "reread"
    /\ (Answer(c, "refunded") /\ Answers) \/ (GoTo(c, "recover") /\ Fails)
    /\ NoWrite
    /\ UNCHANGED <<route, tries, owed>>

\* The plugin route gives back the price of an answer from a free source.
Fallback(c) ==
    /\ step[c] = "fallback"
    /\ \/ GiveBack(c) /\ Answers /\ Answer(c, "free")
       \/ (GiveBack(c) \/ NoWrite) /\ Fails /\ Answer(c, "served")
    /\ UNCHANGED <<route, tries, owed>>

\* The refund in the catch block.  The scraper reads the balance once more.
Recover(c) ==
    /\ step[c] = "recover"
    /\ \/ GiveBack(c) /\ Answers /\ Answer(c, "refunded")
       \/ GiveBack(c) /\ Fails /\ route[c] = "scrape" /\ GoTo(c, "lost")
       \/ NoWrite /\ Fails /\ route[c] = "scrape" /\ GoTo(c, "lost")
       \/ (GiveBack(c) \/ NoWrite) /\ Fails /\ route[c] # "scrape" /\ Answer(c, "refunded")
    /\ UNCHANGED <<route, tries, owed>>

\* The refund of creditDebit settles, after or before the client has read
\* that it was made.
Settle(c) ==
    /\ owed[c]
    /\ owed' = [owed EXCEPT ![c] = FALSE]
    /\ (GiveBack(c) /\ Answers) \/ ((GiveBack(c) \/ NoWrite) /\ Fails)
    /\ UNCHANGED <<route, step, told, tries>>

\* The process ends: calls in progress never answer, refunds not yet made
\* are not made.
ChargesCrash ==
    /\ step' = [c \in Call |-> IF step[c] = "done" THEN "done" ELSE "lost"]
    /\ owed' = [c \in Call |-> FALSE]
    /\ UNCHANGED <<route, told, tries, charged, refunds>>

CallNext(c) ==
    \/ CheckBalance(c) \/ Debit(c) \/ DebitFails(c)
    \/ WorkSucceeds(c) \/ WorkFails(c)
    \/ Refund(c) \/ Reread(c) \/ Fallback(c) \/ Recover(c) \/ Settle(c)
=============================================================================
