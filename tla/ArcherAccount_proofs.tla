------------------------ MODULE ArcherAccount_proofs ------------------------
(***************************************************************************)
(* Theorems about ArcherAccount, for any keys, fees and amounts.  The      *)
(* invariant that carries them says what a transaction in flight remembers *)
(* of the read it was built from, and that the account holds exactly what  *)
(* its owner last signed for.                                              *)
(***************************************************************************)
EXTENDS ArcherAccount, TLAPS

\* A process holds a transaction only between sending it and its end.
Idle == \A k \in Keys : pc[k] # "sent" => tx[k] = NoTx

\* A revocation in flight carries no ceiling.
Revokes == \A k \in Keys :
  (tx[k].op = "set_delegate" /\ tx[k].delegate = NoKey) => tx[k].cap = 0

\* A restriction in flight passed check_book_delegate_change on its read, and
\* a swap check_builder_fee.
Checked == \A k \in Keys :
  /\ (tx[k].op = "set_book_delegate" /\ tx[k].maker = Account) => tx[k].new \in {NoKey, seen[k].delegate}
  /\ tx[k].op = "swap" => CheckBuilderFee(seen[k], tx[k].ppm)

\* The account's delegate and ceiling are those of the grant.
Granted ==
  /\ account.delegate = grant.delegate /\ account.cap = grant.cap
  /\ ~account.exists => grant = [delegate |-> NoKey, cap |-> 0]

\* The inductive invariant.
IInv == TypeOK /\ Idle /\ Revokes /\ Checked /\ Granted /\ LockedOutOnlyByRotation

-----------------------------------------------------------------------------
(* What sending and finishing do to a process's variables *)

\* NoTx is a transaction that says nothing.
LEMMA NoTxFacts == NoTx \in Transactions /\ NoTx.op = "none"
  BY DEF NoTx, Transactions

\* An absent account is an account record without a delegate.
LEMMA NoAccountFacts == NoAccount \in Accounts /\ NoAccount.delegate = NoKey
  BY KeysAssumption DEF NoAccount, Accounts, Delegates

\* Sending a well-formed transaction keeps the invariant, if it is a revocation
\* without a ceiling, or a restriction or a swap that was checked.
LEMMA SendKeeps ==
  ASSUME IInv, NEW k \in Keys, NEW t \in Transactions, Send(k, t),
         (t.op = "set_delegate" /\ t.delegate = NoKey) => t.cap = 0,
         (t.op = "set_book_delegate" /\ t.maker = Account) => t.new \in {NoKey, seen[k].delegate},
         t.op = "swap" => CheckBuilderFee(seen[k], t.ppm)
  PROVE  IInv'
<1>1. TypeOK'
  BY DEF IInv, TypeOK, Send, chain
<1>2. Idle'
  BY DEF IInv, TypeOK, Idle, Send
<1>3. Revokes'
  BY DEF IInv, TypeOK, Revokes, Send
<1>4. Checked'
  BY DEF IInv, TypeOK, Checked, Send
<1>5. Granted' /\ LockedOutOnlyByRotation'
  BY DEF IInv, Granted, LockedOutOnlyByRotation, LockedOut, Send, chain
<1> QED
  BY <1>1, <1>2, <1>3, <1>4, <1>5 DEF IInv

\* The end of a process keeps what the invariant says of the processes.
LEMMA FinishKeeps ==
  ASSUME IInv, NEW k \in Keys, Finish(k)
  PROVE  /\ pc' \in [Keys -> {"idle", "ready", "sent"}]
         /\ seen' \in [Keys -> Accounts]
         /\ tx' \in [Keys -> Transactions]
         /\ Idle' /\ Revokes' /\ Checked'
<1>1. pc' \in [Keys -> {"idle", "ready", "sent"}] /\ seen' \in [Keys -> Accounts]
  BY NoAccountFacts DEF IInv, TypeOK, Finish
<1>2. tx' \in [Keys -> Transactions]
  BY NoTxFacts DEF IInv, TypeOK, Finish
<1>3. \A j \in Keys : tx'[j] = IF j = k THEN NoTx ELSE tx[j]
  BY DEF IInv, TypeOK, Finish
<1>4. \A j \in Keys : seen'[j] = IF j = k THEN NoAccount ELSE seen[j]
  BY DEF IInv, TypeOK, Finish
<1>5. Idle'
  BY <1>3 DEF IInv, TypeOK, Idle, Finish
<1>6. Revokes' /\ Checked'
  BY <1>3, <1>4, NoTxFacts DEF IInv, Revokes, Checked
<1> QED
  BY <1>1, <1>2, <1>5, <1>6

-----------------------------------------------------------------------------
(* One lemma per group of actions *)

\* The initial state satisfies the invariant.
LEMMA InitKeeps == Init => IInv
<1> SUFFICES ASSUME Init PROVE IInv
  OBVIOUS
<1>1. TypeOK
  BY KeysAssumption, NoTxFacts, NoAccountFacts
  DEF Init, TypeOK, NoAccount, NoBook, Accounts, Delegates, Keys
<1>2. Idle /\ Revokes /\ Checked
  BY NoTxFacts DEF Init, Idle, Revokes, Checked
<1>3. Granted /\ LockedOutOnlyByRotation
  BY DEF Init, Granted, LockedOutOnlyByRotation, LockedOut, NoAccount
<1> QED
  BY <1>1, <1>2, <1>3 DEF IInv

\* Reading an account keeps the invariant.
LEMMA ReadKeeps ==
  ASSUME IInv, NEW k \in Keys, Read(k)
  PROVE  IInv'
<1>1. tx[k] = NoTx
  BY DEF IInv, Idle, Read
<1>2. TypeOK'
  BY DEF IInv, TypeOK, Read, chain
<1>3. Idle'
  BY DEF IInv, TypeOK, Idle, Read
<1>4. Revokes' /\ Checked'
  BY <1>1, NoTxFacts DEF IInv, TypeOK, Revokes, Checked, Read
<1>5. Granted' /\ LockedOutOnlyByRotation'
  BY DEF IInv, Granted, LockedOutOnlyByRotation, LockedOut, Read, chain
<1> QED
  BY <1>2, <1>3, <1>4, <1>5 DEF IInv

\* Every builder sends a well-formed transaction.
LEMMA BuildsKeep ==
  ASSUME IInv,
         \/ BuildCreate \/ BuildRevoke
         \/ \E d \in Platforms, cap \in BuilderPpms : BuildSetDelegate(d, cap)
         \/ \E op \in {"withdraw_tokens", "withdraw_sol"} : BuildWithdraw(op)
         \/ \E k \in Callers : \E maker \in Makers :
              \/ \E op \in BookOps : BuildBookOp(k, maker, op)
              \/ \E new \in Delegates : BuildSetBookDelegate(k, maker, new)
         \/ \E k \in Callers, ppm \in BuilderPpms : BuildSwap(k, ppm)
  PROVE  IInv'
<1> USE KeysAssumption DEF Keys
<1>1. CASE BuildCreate
  <2> DEFINE t == [op |-> "create"]
  <2>1. t \in Transactions /\ t.op = "create"
    BY DEF Transactions
  <2> QED BY <1>1, <2>1, SendKeeps DEF BuildCreate
<1>2. CASE BuildRevoke
  <2> DEFINE t == RevokeTx
  <2>1. t \in Transactions /\ t.op = "set_delegate" /\ t.cap = 0
    BY DEF Transactions, RevokeTx, Delegates
  <2> QED BY <1>2, <2>1, SendKeeps DEF BuildRevoke
<1>3. ASSUME NEW d \in Platforms, NEW cap \in BuilderPpms, BuildSetDelegate(d, cap)
      PROVE  IInv'
  <2> DEFINE t == [op |-> "set_delegate", delegate |-> d, cap |-> cap]
  <2>1. t \in Transactions /\ t.op = "set_delegate" /\ t.delegate # NoKey
    BY DEF Transactions, Delegates
  <2> QED BY <1>3, <2>1, SendKeeps DEF BuildSetDelegate
<1>4. ASSUME NEW op \in {"withdraw_tokens", "withdraw_sol"}, BuildWithdraw(op)
      PROVE  IInv'
  <2> DEFINE t == [op |-> op]
  <2>1. t \in Transactions /\ t.op \notin {"set_delegate", "set_book_delegate", "swap"}
    BY DEF Transactions
  <2> QED BY <1>4, <2>1, SendKeeps DEF BuildWithdraw
<1>5. ASSUME NEW k \in Callers, NEW maker \in Makers, NEW op \in BookOps, BuildBookOp(k, maker, op)
      PROVE  IInv'
  <2> DEFINE t == [op |-> op, maker |-> maker]
  <2>1. t \in Transactions /\ t.op \notin {"set_delegate", "set_book_delegate", "swap"}
    BY DEF Transactions, BookOps
  <2> QED BY <1>5, <2>1, SendKeeps DEF BuildBookOp, SendFor
<1>6. ASSUME NEW k \in Callers, NEW maker \in Makers, NEW new \in Delegates,
             BuildSetBookDelegate(k, maker, new)
      PROVE  IInv'
  <2> DEFINE t == [op |-> "set_book_delegate", maker |-> maker, new |-> new]
  <2>1. t \in Transactions /\ t.op = "set_book_delegate" /\ t.maker = maker /\ t.new = new
    BY DEF Transactions
  <2>2. maker = Account => new \in {NoKey, seen[k].delegate}
    BY <1>6 DEF BuildSetBookDelegate, CheckBookDelegateChange, MakerIsArcherAccount
  <2> QED BY <1>6, <2>1, <2>2, SendKeeps DEF BuildSetBookDelegate, SendFor
<1>7. ASSUME NEW k \in Callers, NEW ppm \in BuilderPpms, BuildSwap(k, ppm)
      PROVE  IInv'
  <2> DEFINE t == [op |-> "swap", ppm |-> ppm]
  <2>1. t \in Transactions /\ t.op = "swap" /\ t.ppm = ppm
    BY DEF Transactions
  <2>2. CheckBuilderFee(seen[k], ppm)
    BY <1>7 DEF BuildSwap
  <2> QED BY <1>7, <2>1, <2>2, SendKeeps DEF BuildSwap, SendFor
<1> QED
  BY <1>1, <1>2, <1>3, <1>4, <1>5, <1>6, <1>7

\* Giving up, and the transfers that touch neither the account nor its books.
LEMMA QuietKeeps ==
  ASSUME IInv,
         \/ \E k \in Callers : GiveUp(k)
         \/ CreateTokenAccount \/ DepositTokens \/ DepositSol
  PROVE  IInv'
<1>1. ASSUME NEW k \in Callers, GiveUp(k) PROVE IInv'
  <2>1. k \in Keys
    BY KeysAssumption DEF Keys
  <2>2. Finish(k)
    BY <1>1 DEF GiveUp
  <2>3. TypeOK' /\ Idle' /\ Revokes' /\ Checked'
    BY <1>1, <2>1, <2>2, FinishKeeps DEF IInv, TypeOK, GiveUp, chain
  <2>4. Granted' /\ LockedOutOnlyByRotation'
    BY <1>1 DEF IInv, Granted, LockedOutOnlyByRotation, LockedOut, GiveUp, chain
  <2> QED BY <2>3, <2>4 DEF IInv
<1>2. CASE CreateTokenAccount
  BY <1>2 DEF IInv, TypeOK, Idle, Revokes, Checked, Granted, LockedOutOnlyByRotation, LockedOut,
     CreateTokenAccount, processes
<1>3. CASE DepositTokens
  BY <1>3 DEF IInv, TypeOK, Idle, Revokes, Checked, Granted, LockedOutOnlyByRotation, LockedOut,
     DepositTokens, processes
<1>4. CASE DepositSol
  BY <1>4 DEF IInv, TypeOK, Idle, Revokes, Checked, Granted, LockedOutOnlyByRotation, LockedOut,
     DepositSol, processes
<1> QED
  BY <1>1, <1>2, <1>3, <1>4

-----------------------------------------------------------------------------
(* The transactions that land *)

\* Landing a creation keeps the invariant.
LEMMA LandCreateKeeps ==
  ASSUME IInv, LandCreate
  PROVE  IInv'
<1>1. Owner \in Keys /\ Finish(Owner)
  BY DEF Keys, LandCreate
<1>2. ~account.exists
  BY DEF LandCreate, Accepts
<1>3. account' = [exists |-> TRUE, delegate |-> NoKey, cap |-> 0]
  BY DEF LandCreate, NoAccount
<1>4. TypeOK' /\ Idle' /\ Revokes' /\ Checked'
  <2>1. account' \in Accounts
    BY <1>3, KeysAssumption DEF Accounts, Delegates
  <2>2. UNCHANGED <<book, ata, tokens, sol, wallet, paid, grant, rotated>>
    BY DEF LandCreate
  <2> QED BY <1>1, <2>1, <2>2, FinishKeeps DEF IInv, TypeOK
<1>5. Granted' /\ LockedOutOnlyByRotation'
  BY <1>2, <1>3 DEF IInv, Granted, LockedOutOnlyByRotation, LockedOut, LandCreate
<1> QED
  BY <1>4, <1>5 DEF IInv

\* A rotation is remembered, and a revocation leaves no ceiling behind.
LEMMA LandSetDelegateKeeps ==
  ASSUME IInv, LandSetDelegate
  PROVE  IInv'
<1> DEFINE t == tx[Owner]
<1>1. Owner \in Keys /\ Finish(Owner)
  BY DEF Keys, LandSetDelegate
<1>2. t \in Transactions /\ t.op = "set_delegate" /\ account.exists
  BY <1>1 DEF IInv, TypeOK, LandSetDelegate, Accepts
<1>3. t.delegate \in Delegates /\ t.cap \in BuilderPpms
  BY <1>2 DEF Transactions, BookOps
<1>4. t.delegate = NoKey => t.cap = 0
  BY <1>1, <1>2 DEF IInv, Revokes
<1>5. account' = [account EXCEPT !.delegate = t.delegate, !.cap = t.cap]
  BY DEF LandSetDelegate
<1>6. account' \in Accounts /\ account'.delegate = t.delegate /\ account'.cap = t.cap /\ account'.exists
  BY <1>2, <1>3, <1>5 DEF IInv, TypeOK, Accounts
<1>7. grant' = [delegate |-> t.delegate, cap |-> t.cap]
  BY <1>4 DEF LandSetDelegate
<1>8. TypeOK' /\ Idle' /\ Revokes' /\ Checked'
  BY <1>1, <1>3, <1>6, <1>7, FinishKeeps DEF IInv, TypeOK, LandSetDelegate
<1>9. Granted'
  BY <1>6, <1>7 DEF Granted
<1>10. rotated' = (rotated \/ t.delegate # account.delegate) /\ book' = book
  BY DEF LandSetDelegate
<1>11. LockedOutOnlyByRotation'
  BY <1>6, <1>10 DEF IInv, LockedOutOnlyByRotation, LockedOut
<1> QED
  BY <1>8, <1>9, <1>11 DEF IInv

\* Landing a withdrawal keeps the invariant.
LEMMA LandWithdrawKeeps ==
  ASSUME IInv, LandWithdrawTokens \/ LandWithdrawSol
  PROVE  IInv'
<1>1. Owner \in Keys /\ Finish(Owner)
  BY DEF Keys, LandWithdrawTokens, LandWithdrawSol
<1>2. tokens' \in Nat /\ sol' \in Nat /\ wallet' \in Nat
  <2>1. CASE LandWithdrawTokens
    <3>1. tokens > 0
      BY <2>1 DEF LandWithdrawTokens, Accepts
    <3> QED BY <2>1, <3>1 DEF IInv, TypeOK, LandWithdrawTokens
  <2>2. CASE LandWithdrawSol
    <3>1. sol > 0
      BY <2>2 DEF LandWithdrawSol, Accepts
    <3> QED BY <2>2, <3>1 DEF IInv, TypeOK, LandWithdrawSol
  <2> QED BY <2>1, <2>2
<1>3. UNCHANGED <<account, book, ata, paid, grant, rotated>>
  BY DEF LandWithdrawTokens, LandWithdrawSol
<1>4. TypeOK' /\ Idle' /\ Revokes' /\ Checked'
  BY <1>1, <1>2, <1>3, FinishKeeps DEF IInv, TypeOK
<1>5. Granted' /\ LockedOutOnlyByRotation'
  BY <1>3 DEF IInv, Granted, LockedOutOnlyByRotation, LockedOut
<1> QED
  BY <1>4, <1>5 DEF IInv

\* Landing a swap keeps the invariant.
LEMMA LandSwapKeeps ==
  ASSUME IInv, NEW k \in Keys, LandSwap(k)
  PROVE  IInv'
<1> DEFINE fee == BuilderFee(Notional, tx[k].ppm)
<1>1. Finish(k)
  BY DEF LandSwap
<1>2. tx[k].ppm \in Nat
  BY KeysAssumption DEF IInv, TypeOK, Transactions, BookOps, LandSwap
<1>3. Notional * tx[k].ppm \in Nat
  BY <1>2, KeysAssumption
<1>4. fee \in Nat
  BY <1>3, WordAssumption, Z3 DEF BuilderFee
<1> HIDE DEF fee
<1>5. tokens' = tokens - fee /\ paid' = paid + fee /\ fee <= tokens
  BY DEF LandSwap, fee
<1>6. tokens' \in Nat /\ paid' \in Nat
  BY <1>4, <1>5 DEF IInv, TypeOK
<1>7. UNCHANGED <<account, book, ata, sol, wallet, grant, rotated>>
  BY DEF LandSwap
<1>8. TypeOK' /\ Idle' /\ Revokes' /\ Checked'
  BY <1>1, <1>6, <1>7, FinishKeeps DEF IInv, TypeOK
<1>9. Granted' /\ LockedOutOnlyByRotation'
  BY <1>7 DEF IInv, Granted, LockedOutOnlyByRotation, LockedOut
<1> QED
  BY <1>8, <1>9 DEF IInv

\* A book opens and closes without a restriction, and funding it or quoting
\* on it leaves the restriction alone.
LEMMA LandBookOpKeeps ==
  ASSUME IInv, NEW k \in Keys, LandBookOp(k)
  PROVE  IInv'
<1> DEFINE t == tx[k]
           m == tx[k].maker
<1>1. Finish(k)
  BY DEF LandBookOp
<1>2. t.op \in BookOps /\ m \in Makers /\ Accepts(k, t)
  BY DEF IInv, TypeOK, Transactions, BookOps, LandBookOp
<1>3. UNCHANGED <<account, ata, paid, grant>>
  BY DEF LandBookOp
<1>4. CASE t.op = "init"
  <2>1. book' = [book EXCEPT ![m] = [exists |-> TRUE, delegate |-> NoKey, funds |-> 0]]
    BY <1>4 DEF LandBookOp, NoBook
  <2>2. rotated' = (rotated /\ m # Account)
    BY <1>4 DEF LandBookOp
  <2>3. Spend(m, 0, 1) /\ (m = Account => sol > 0)
    BY <1>2, <1>4 DEF LandBookOp, Accepts, RentPaid, MakerIsArcherAccount
  <2>4. tokens' \in Nat /\ sol' \in Nat /\ wallet' \in Nat
    BY <2>3 DEF IInv, TypeOK, Spend, MakerIsArcherAccount
  <2>5. TypeOK' /\ Idle' /\ Revokes' /\ Checked'
    BY <1>1, <1>2, <1>3, <2>1, <2>2, <2>4, FinishKeeps DEF IInv, TypeOK, Delegates
  <2>6. Granted' /\ LockedOutOnlyByRotation'
    BY <1>2, <1>3, <2>1, <2>2
    DEF IInv, TypeOK, Granted, LockedOutOnlyByRotation, LockedOut, Makers
  <2> QED BY <2>5, <2>6 DEF IInv
<1>5. CASE t.op = "close"
  <2>1. book' = [book EXCEPT ![m] = [exists |-> FALSE, delegate |-> NoKey, funds |-> 0]]
    BY <1>5 DEF LandBookOp, NoBook
  <2>2. rotated' = (rotated /\ m # Account)
    BY <1>5 DEF LandBookOp
  <2>3. Spend(m, 0, -1)
    BY <1>5 DEF LandBookOp
  <2>4. tokens' \in Nat /\ sol' \in Nat /\ wallet' \in Nat
    BY <2>3 DEF IInv, TypeOK, Spend
  <2>5. TypeOK' /\ Idle' /\ Revokes' /\ Checked'
    BY <1>1, <1>2, <1>3, <2>1, <2>2, <2>4, FinishKeeps DEF IInv, TypeOK, Delegates
  <2>6. Granted' /\ LockedOutOnlyByRotation'
    BY <1>2, <1>3, <2>1, <2>2
    DEF IInv, TypeOK, Granted, LockedOutOnlyByRotation, LockedOut, Makers
  <2> QED BY <2>5, <2>6 DEF IInv
<1>6. CASE t.op \in {"deposit", "withdraw", "quote"}
  <2> DEFINE lots == IF t.op = "deposit" THEN 1 ELSE IF t.op = "withdraw" THEN -1 ELSE 0
  <2>1. book' = [book EXCEPT ![m] = [book[m] EXCEPT !.funds = @ + lots]]
    <3>1. CASE t.op = "deposit"
      BY <3>1 DEF LandBookOp
    <3>2. CASE t.op = "withdraw"
      BY <3>2 DEF LandBookOp
    <3>3. CASE t.op = "quote"
      BY <3>3 DEF LandBookOp
    <3> QED BY <1>6, <3>1, <3>2, <3>3
  <2>2. rotated' = rotated
    BY <1>6 DEF LandBookOp, IInv, TypeOK
  <2>3. Spend(m, lots, 0)
    BY <1>6 DEF LandBookOp
  <2>4. /\ t.op = "deposit" => (IF m = Account THEN tokens > 0 ELSE wallet > 0)
        /\ t.op = "withdraw" => book[m].funds > 0
    BY <1>2 DEF Accepts, Purse, MakerIsArcherAccount
  <2>5. tokens' \in Nat /\ sol' \in Nat /\ wallet' \in Nat
    BY <2>3, <2>4 DEF IInv, TypeOK, Spend, MakerIsArcherAccount
  <2>6. book[m].funds + lots \in Nat
    BY <1>2, <2>4 DEF IInv, TypeOK
  <2>7. book' \in [Makers -> [exists : BOOLEAN, delegate : Delegates, funds : Nat]]
    <3> HIDE DEF lots
    <3>1. [book[m] EXCEPT !.funds = @ + lots] \in [exists : BOOLEAN, delegate : Delegates, funds : Nat]
      BY <1>2, <2>6 DEF IInv, TypeOK
    <3> QED BY <1>2, <2>1, <3>1 DEF IInv, TypeOK
  <2>8. \A j \in Makers : book'[j].delegate = book[j].delegate
    BY <1>2, <2>1 DEF IInv, TypeOK
  <2>9. TypeOK' /\ Idle' /\ Revokes' /\ Checked'
    BY <1>1, <1>3, <2>2, <2>5, <2>7, FinishKeeps DEF IInv, TypeOK
  <2>10. Granted' /\ LockedOutOnlyByRotation'
    BY <1>3, <2>2, <2>8 DEF IInv, Granted, LockedOutOnlyByRotation, LockedOut, Makers
  <2> QED BY <2>9, <2>10 DEF IInv
<1> QED
  BY <1>2, <1>4, <1>5, <1>6 DEF BookOps

\* The restriction that lands was checked against the delegate its process
\* read: if that is still the delegate nobody is locked out, and if it is not
\* the account's delegate was rotated.
LEMMA LandSetBookDelegateKeeps ==
  ASSUME IInv, NEW k \in Keys, LandSetBookDelegate(k)
  PROVE  IInv'
<1> DEFINE t == tx[k]
           m == tx[k].maker
<1>1. Finish(k)
  BY DEF LandSetBookDelegate
<1>2. t.op = "set_book_delegate" /\ m \in Makers /\ t.new \in Delegates
  BY DEF IInv, TypeOK, Transactions, BookOps, LandSetBookDelegate
<1>3. UNCHANGED <<account, ata, tokens, sol, wallet, paid, grant>>
  BY DEF LandSetBookDelegate
<1>4. book' = [book EXCEPT ![m].delegate = t.new]
  BY DEF LandSetBookDelegate
<1>5. rotated' = IF m = Account THEN seen[k].delegate # account.delegate ELSE rotated
  BY DEF LandSetBookDelegate
<1>6. m = Account => t.new \in {NoKey, seen[k].delegate}
  BY <1>2 DEF IInv, Checked
<1>7. book' \in [Makers -> [exists : BOOLEAN, delegate : Delegates, funds : Nat]]
  BY <1>2, <1>4 DEF IInv, TypeOK
<1>8. book'[Account].delegate = IF m = Account THEN t.new ELSE book[Account].delegate
  BY <1>2, <1>4 DEF IInv, TypeOK, Makers
<1>9. TypeOK' /\ Idle' /\ Revokes' /\ Checked'
  BY <1>1, <1>3, <1>5, <1>7, FinishKeeps DEF IInv, TypeOK
<1>10. Granted' /\ LockedOutOnlyByRotation'
  BY <1>3, <1>5, <1>6, <1>8 DEF IInv, Granted, LockedOutOnlyByRotation, LockedOut
<1> QED
  BY <1>9, <1>10 DEF IInv

-----------------------------------------------------------------------------
(* The theorems *)

\* Every step keeps the invariant.
LEMMA NextKeeps ==
  ASSUME IInv, [Next]_vars
  PROVE  IInv'
<1>1. CASE UNCHANGED vars
  BY <1>1 DEF IInv, TypeOK, Idle, Revokes, Checked, Granted, LockedOutOnlyByRotation, LockedOut,
     vars, chain, processes
<1>2. CASE Next
  <2> USE KeysAssumption DEF Keys
  <2>1. ASSUME NEW k \in Callers,
               Read(k) \/ LandSwap(k) \/ LandBookOp(k) \/ LandSetBookDelegate(k)
        PROVE  IInv'
    BY <2>1, ReadKeeps, LandSwapKeeps, LandBookOpKeeps, LandSetBookDelegateKeeps
  <2> QED
    BY <1>2, <2>1, BuildsKeep, QuietKeeps, LandCreateKeeps, LandSetDelegateKeeps, LandWithdrawKeeps
    DEF Next
<1> QED
  BY <1>1, <1>2

\* The invariant behind the theorems below.
THEOREM Invariance == Spec => []IInv
<1>1. Init => IInv
  BY InitKeeps
<1>2. IInv /\ [Next]_vars => IInv'
  BY NextKeeps
<1> QED
  BY <1>1, <1>2, PTL DEF Spec

\* Balances never go below zero and transactions stay well formed, whatever
\* the keys do.
THEOREM TypeCorrect == Spec => []TypeOK
<1>1. IInv => TypeOK
  BY DEF IInv
<1> QED
  BY <1>1, Invariance, PTL

\* A delegate is locked out of the account's book only after a rotation.
THEOREM NoAccidentalLockout == Spec => []LockedOutOnlyByRotation
<1>1. IInv => LockedOutOnlyByRotation
  BY DEF IInv
<1> QED
  BY <1>1, Invariance, PTL

\* Builders are paid only within what the owner last signed for.
THEOREM FeesGranted == Spec => FeesWithinGrant
<1> DEFINE Paying == paid' # paid =>
      \E k \in {Owner, grant.delegate} \cap Keys :
        tx[k].op = "swap" /\ tx'[k] # tx[k] /\ tx[k].ppm <= grant.cap
<1>1. ASSUME IInv, [Next]_vars PROVE [Paying]_vars
  <2> SUFFICES ASSUME paid' # paid PROVE Paying
    OBVIOUS
  <2>1. PICK k \in Callers : LandSwap(k)
    BY <1>1 DEF Next, vars, chain, Read, Send, SendFor, GiveUp, BuildCreate, BuildRevoke,
       BuildSetDelegate, BuildWithdraw, BuildBookOp, BuildSetBookDelegate, BuildSwap,
       LandBookOp, LandSetBookDelegate, LandCreate, LandSetDelegate, LandWithdrawTokens,
       LandWithdrawSol, CreateTokenAccount, DepositTokens, DepositSol
  <2>2. k \in Keys
    BY KeysAssumption DEF Keys
  <2>3. tx[k].op = "swap" /\ Authorized(k) /\ tx[k].ppm <= account.cap
    BY <2>1 DEF LandSwap, Accepts
  <2>4. k \in {Owner, grant.delegate} /\ tx[k].ppm <= grant.cap
    BY <1>1, <2>3 DEF IInv, Granted, Authorized
  <2>5. tx'[k] = NoTx
    BY <1>1, <2>1, <2>2 DEF IInv, TypeOK, LandSwap, Finish
  <2> QED
    BY <2>2, <2>3, <2>4, <2>5, NoTxFacts
<1> QED
  BY <1>1, Invariance, PTL DEF Spec, FeesWithinGrant

\* What the SDK's checks let through, the program does not refuse while the
\* read stands: Checked carries the checks to the landing, and a key the
\* account authorizes manages its book unless the book names another.
THEOREM ChecksAgree == Spec => []CheckedTxLands
<1>1. IInv => CheckedTxLands
  <2> SUFFICES ASSUME IInv, NEW k \in Keys,
                      seen[k] = account, Authorized(k), ~LockedOut, Funded(tx[k]),
                      tx[k].op \in {"swap", "deposit", "withdraw", "quote", "set_book_delegate"},
                      tx[k].op # "swap" => tx[k].maker = Account /\ book[Account].exists
               PROVE  Accepts(k, tx[k])
    BY DEF CheckedTxLands
  <2>1. MayManage(k, Account)
    BY DEF Authorized, LockedOut, MayManage, MakerIsArcherAccount
  <2>2. CASE tx[k].op = "swap"
    <3>1. CheckBuilderFee(account, tx[k].ppm)
      BY <2>2 DEF IInv, Checked
    <3> QED BY <2>2, <3>1 DEF CheckBuilderFee, Funded, Accepts
  <2>3. CASE tx[k].op \in {"deposit", "withdraw"}
    BY <2>1, <2>3 DEF Funded, Accepts
  <2>4. CASE tx[k].op \in {"quote", "set_book_delegate"}
    BY <2>1, <2>4 DEF MayQuote, MakerIsArcherAccount, Accepts
  <2> QED
    BY <2>2, <2>3, <2>4
<1> QED
  BY <1>1, Invariance, PTL
=============================================================================
