------------------------ MODULE RedemptionInvariant ------------------------
(***************************************************************************)
(* The inductive invariant of Redemption: what is true between any two     *)
(* statements of any threads, strong enough to be preserved by each step.  *)
(* TLC checks it; RedemptionProofs proves it and what follows from it.     *)
(***************************************************************************)
EXTENDS Redemption

Locked == {"exists", "insert", "increment", "commit"}

\* Transactions are open exactly while the thread is in the transactional
\* method, or the connection was lost in it.
TransactionsMatchThreads ==
    \A r \in Requests :
        /\ pc[r] \in Statements \cup {"rollback"} => tx[r] = "open"
        /\ pc[r] = "commit" => tx[r] = "committing"
        /\ tx[r] # "none" => pc[r] \in InTransaction \cup Ended
        /\ tx[r] = "committing" => pc[r] \in {"commit"} \cup Ended

\* A row lock belongs to an open transaction on that coupon, and the thread that
\* works on the row holds it.
LocksMatchTransactions ==
    /\ \A c \in Coupons : lock[c] # Free =>
          /\ tx[lock[c]] # "none"
          /\ order[lock[c]].coupon = c
          /\ coupons[c] # NoRow
    /\ \A r \in Requests : pc[r] \in Locked => lock[order[r].coupon] = r

\* The Coupon object a thread works with is the locked row, still eligible.
ReadsAreCurrent ==
    \A r \in Requests :
        /\ pc[r] \in {"exists", "insert", "increment"} =>
              read[r] = coupons[order[r].coupon] /\ read[r].country = country[r]
        /\ pc[r] \in {"insert", "increment"} =>
              ~HasRedeemed(r) /\ read[r].uses < MaxUses[order[r].coupon]

\* What an open transaction has written.
PendingWrites ==
    /\ \A row \in pending : row = NewRow(row.id) /\ lock[row.coupon] = row.id
    /\ \A r \in Requests :
        /\ pc[r] = "increment" => NewRow(r) \in pending
        /\ tx[r] = "committing" =>
              /\ NewRow(r) \in pending
              /\ lock[order[r].coupon] = r
              /\ coupons[order[r].coupon].country = country[r]
              /\ coupons[order[r].coupon].uses < MaxUses[order[r].coupon]
              /\ newUses[r] = coupons[order[r].coupon].uses + 1
              /\ ~HasRedeemed(r)
              /\ outcome[r] \in {"SUCCESS", "INTERNAL_ERROR"}

\* A committed row stems from a request whose transaction has ended.
CommittedRows ==
    /\ IsFiniteSet(redemptions)
    /\ \A row \in redemptions :
          /\ row = NewRow(row.id)
          /\ pc[row.id] \in {"committed"} \cup Ended
          /\ tx[row.id] = "none"
          /\ outcome[row.id] \in {"SUCCESS", "INTERNAL_ERROR"}

\* The outcome a thread carries fits the place where it is.
OutcomesMatchThreads ==
    \A r \in Requests :
        /\ pc[r] \in {"findSnapshot", "resolve", "begin"} \cup Statements => outcome[r] = NoOutcome
        /\ pc[r] = "rollback" => outcome[r] \in RedemptionOutcome \ {"SUCCESS"}
        /\ pc[r] \in {"commit", "committed"} => outcome[r] = "SUCCESS"
        /\ pc[r] = "committed" => r \in Granted
        /\ pc[r] = "done" =>
              /\ outcome[r] # NoOutcome
              /\ outcome[r] = "SUCCESS" => r \in Granted
              /\ tx[r] # "none" => outcome[r] = "INTERNAL_ERROR"
        /\ pc[r] \notin {"findSnapshot", "resolve", "done", "lost"} => country[r] \in Countries

IInv ==
    /\ TypeOK
    /\ TransactionsMatchThreads
    /\ LocksMatchTransactions
    /\ ReadsAreCurrent
    /\ PendingWrites
    /\ CommittedRows
    /\ OutcomesMatchThreads
    /\ LedgerConsistent
    /\ RefusalJustified
    /\ RemainingUsesCountDown
=============================================================================
