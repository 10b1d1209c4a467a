---------------------------- MODULE ArcherAccount ----------------------------
(***************************************************************************)
(* An ArcherAccount, the keys that act for it and the books it owns        *)
(* (archer_account.rs, identity.rs, onchain/state/archer_account.rs and    *)
(* the builders of onchain/builders/archer_account.rs and maker.rs).       *)
(*                                                                         *)
(* Every key is a process: it reads the account and the book, builds one   *)
(* transaction from what it read, and the transaction lands later, or      *)
(* never.  Two books can exist on the market, the account's and the one    *)
(* the owner holds as a wallet; a book is named by its maker.  The program *)
(* is external; what it accepts is what instruction.rs, errors.rs and the  *)
(* builders' comments say.                                                 *)
(***************************************************************************)
EXTENDS Engine

CONSTANTS
  Owner,        \* the wallet the account belongs to
  Platforms,    \* the keys it may delegate to
  Callers,      \* the keys that act: the owner and some platforms
  Account,      \* the address of the account
  NoKey,        \* Pubkey::default()
  BuilderPpms,  \* builder fees, and ceilings on them, in use
  Notional,     \* quote lots a swap trades
  MaxTokens,    \* bound: lots the owner starts with
  MaxSol        \* bound: lamports the account is funded with, in book rents

ASSUME KeysAssumption ==
  /\ Callers \subseteq Platforms \cup {Owner}
  /\ Owner \notin Platforms /\ Account \notin Platforms \cup {Owner}
  /\ NoKey \notin Platforms \cup {Owner, Account}
  /\ BuilderPpms \subseteq Nat /\ 0 \in BuilderPpms
  /\ Notional \in Nat /\ MaxTokens \in Nat /\ MaxSol \in Nat

Keys == Platforms \cup {Owner}
Makers == {Owner, Account}

VARIABLES
  account, \* the ArcherAccount: exists, delegate, max_builder_fee_ppm
  book,    \* the MakerBook of each maker: exists, delegate, funds
  ata,     \* does the account's token account exist
  tokens,  \* lots in it
  sol,     \* lamports above the rent-exempt minimum, in book rents
  wallet,  \* lots the owner's wallet holds
  paid,    \* lots builders have been paid
  pc,      \* where each key's process stands
  seen,    \* the account each process read
  tx,      \* the transaction each process sent
  grant,   \* history: the delegate and the ceiling the owner last signed for
  rotated  \* history: the account's delegate changed after the read from
           \* which the delegate of its book was written

chain == <<account, book, ata, tokens, sol, wallet, paid>>
processes == <<pc, seen, tx>>
vars == <<chain, processes, grant, rotated>>

NoAccount == [exists |-> FALSE, delegate |-> NoKey, cap |-> 0]
NoBook == [exists |-> FALSE, delegate |-> NoKey, funds |-> 0]
NoTx == [op |-> "none"]

BookOps == {"init", "deposit", "withdraw", "close", "quote"}

Delegates == Platforms \cup {NoKey}
Accounts == [exists : BOOLEAN, delegate : Delegates, cap : BuilderPpms]

Transactions ==
  [op : {"none", "create", "withdraw_tokens", "withdraw_sol"}]
    \cup [op : {"set_delegate"}, delegate : Delegates, cap : BuilderPpms]
    \cup [op : BookOps, maker : Makers]
    \cup [op : {"set_book_delegate"}, maker : Makers, new : Delegates]
    \cup [op : {"swap"}, ppm : BuilderPpms]

\* The type of the state: no balance goes below zero, and the account keeps
\* its rent-exempt minimum.
TypeOK ==
  /\ account \in Accounts
  /\ book \in [Makers -> [exists : BOOLEAN, delegate : Delegates, funds : Nat]]
  /\ ata \in BOOLEAN
  /\ tokens \in Nat /\ sol \in Nat /\ wallet \in Nat /\ paid \in Nat
  /\ pc \in [Keys -> {"idle", "ready", "sent"}]
  /\ seen \in [Keys -> Accounts]
  /\ tx \in [Keys -> Transactions]
  /\ grant \in [delegate : Delegates, cap : BuilderPpms]
  /\ rotated \in BOOLEAN

Init ==
  /\ account = NoAccount /\ book = [m \in Makers |-> NoBook]
  /\ ata = FALSE /\ tokens = 0 /\ sol = 0 /\ wallet = MaxTokens /\ paid = 0
  /\ pc = [k \in Keys |-> "idle"]
  /\ seen = [k \in Keys |-> NoAccount]
  /\ tx = [k \in Keys |-> NoTx]
  /\ grant = [delegate |-> NoKey, cap |-> 0]
  /\ rotated = FALSE

-----------------------------------------------------------------------------
(* Identity *)

\* MakerBook.maker_is_archer_account, which the program sets at creation.
MakerIsArcherAccount(maker) == maker = Account

Wallet(w) == [kind |-> "Wallet", maker |-> w, authority |-> w]
ArcherAccountAt(a, authority) == [kind |-> "ArcherAccount", maker |-> a, authority |-> authority]

\* Identity::for_book.
ForBook(maker, authority) ==
  IF MakerIsArcherAccount(maker) THEN ArcherAccountAt(maker, authority) ELSE Wallet(maker)

\* Identity::check_against_book.
CheckAgainstBook(id, maker) ==
  id.maker = maker /\ (MakerIsArcherAccount(maker) <=> id.kind = "ArcherAccount")

-----------------------------------------------------------------------------
(* The SDK's checks, on what was read *)

\* Mutant: the account's ceiling not looked at.
CheckBuilderFeeProgramCapOnly(a, ppm) == ppm <= MAX_BUILDER_FEE_PPM

\* check_builder_fee.
CheckBuilderFee(a, ppm) == ppm <= MAX_BUILDER_FEE_PPM /\ ppm <= a.cap

\* Mutant: the field taken to grant, as on a wallet's book.
CheckBookDelegateChangeGrants(maker, a, new) == TRUE

\* check_book_delegate_change.
CheckBookDelegateChange(maker, a, new) ==
  \/ ~MakerIsArcherAccount(maker)
  \/ new \in {NoKey, a.delegate}

-----------------------------------------------------------------------------
(* The processes *)

\* Fetch the account (archer_account::parse) and the book; what the checks
\* use of the book, what kind of maker owns it, never changes.
Read(k) ==
  /\ pc[k] = "idle"
  /\ pc' = [pc EXCEPT ![k] = "ready"]
  /\ seen' = [seen EXCEPT ![k] = account]
  /\ UNCHANGED <<chain, tx, grant, rotated>>

Send(k, transaction) ==
  /\ pc[k] = "ready"
  /\ pc' = [pc EXCEPT ![k] = "sent"]
  /\ tx' = [tx EXCEPT ![k] = transaction]
  /\ UNCHANGED <<chain, seen, grant, rotated>>

\* create, set_delegate, withdraw_tokens, withdraw_sol: the owner signs.
BuildCreate == Send(Owner, [op |-> "create"])

BuildSetDelegate(d, cap) == Send(Owner, [op |-> "set_delegate", delegate |-> d, cap |-> cap])

\* Mutant: the ceiling left as it was read.
RevokeTxKeepingCap == [op |-> "set_delegate", delegate |-> NoKey, cap |-> seen[Owner].cap]

\* revoke_delegate: no delegate and no ceiling.
RevokeTx == [op |-> "set_delegate", delegate |-> NoKey, cap |-> 0]

BuildRevoke == Send(Owner, RevokeTx)
BuildWithdraw(op) == Send(Owner, [op |-> op])

\* A builder called for the book of a maker with Identity::for_book; a process
\* can only sign for its own key.
SendFor(k, maker, transaction) ==
  LET id == ForBook(maker, k)
  IN  /\ CheckAgainstBook(id, maker)
      /\ id.authority = k
      /\ Send(k, transaction)

\* InitializeMakerBook, MakerDepositFunds, MakerWithdrawFunds, CloseMakerBook
\* and the quoting instructions.
BuildBookOp(k, maker, op) == SendFor(k, maker, [op |-> op, maker |-> maker])

\* build_set_delegate_ix behind check_book_delegate_change.
BuildSetBookDelegate(k, maker, new) ==
  /\ CheckBookDelegateChange(maker, seen[k], new)
  /\ SendFor(k, maker, [op |-> "set_book_delegate", maker |-> maker, new |-> new])

\* build_swap_ix for the account, behind check_builder_fee.
BuildSwap(k, ppm) ==
  /\ CheckBuilderFee(seen[k], ppm)
  /\ SendFor(k, Account, [op |-> "swap", ppm |-> ppm])

Finish(k) ==
  /\ pc' = [pc EXCEPT ![k] = "idle"]
  /\ seen' = [seen EXCEPT ![k] = NoAccount]
  /\ tx' = [tx EXCEPT ![k] = NoTx]

\* An error of a read or a check, a rejection, or a blockhash that expired.
GiveUp(k) ==
  /\ pc[k] # "idle"
  /\ Finish(k)
  /\ UNCHANGED <<chain, grant, rotated>>

-----------------------------------------------------------------------------
(* The program (external) *)

\* The account's owner or its delegate.
Authorized(k) ==
  account.exists /\ (k = Owner \/ (account.delegate # NoKey /\ k = account.delegate))

\* Funds and lifecycle of a book: the wallet itself, or a key the account
\* authorizes, unless the book is restricted to another key.
MayManage(k, maker) ==
  IF MakerIsArcherAccount(maker)
    THEN Authorized(k) /\ (k = Owner \/ book[maker].delegate \in {NoKey, k})
    ELSE k = maker

\* MakerBook::is_authorized, for a wallet's book.
IsAuthorized(k, maker) ==
  k = maker \/ (book[maker].delegate # NoKey /\ book[maker].delegate = k)

MayQuote(k, maker) ==
  IF MakerIsArcherAccount(maker) THEN MayManage(k, maker) ELSE IsAuthorized(k, maker)

\* Where the lots of a maker's deposits come from and its withdrawals go.
Purse(maker) == IF MakerIsArcherAccount(maker) THEN tokens ELSE wallet

\* Mutant: an account opens books its lamports cannot pay for.
RentPaidUnchecked(maker) == TRUE

\* A book's rent is there; a wallet's always is.
RentPaid(maker) == MakerIsArcherAccount(maker) => sol > 0

Accepts(k, t) ==
  CASE t.op = "create" -> k = Owner /\ ~account.exists
    [] t.op = "set_delegate" -> k = Owner /\ account.exists
    [] t.op = "withdraw_tokens" -> k = Owner /\ account.exists /\ tokens > 0
    [] t.op = "withdraw_sol" -> k = Owner /\ account.exists /\ sol > 0
    [] t.op = "swap" ->
         /\ Authorized(k) /\ ata /\ tokens >= Notional
         /\ t.ppm <= MAX_BUILDER_FEE_PPM /\ t.ppm <= account.cap
    [] t.op = "init" ->
         (IF t.maker = Account THEN Authorized(k) ELSE k = t.maker)
           /\ ~book[t.maker].exists /\ RentPaid(t.maker)
    [] t.op = "deposit" -> MayManage(k, t.maker) /\ book[t.maker].exists /\ Purse(t.maker) > 0
    [] t.op = "withdraw" -> MayManage(k, t.maker) /\ book[t.maker].funds > 0
    [] t.op = "close" -> MayManage(k, t.maker) /\ book[t.maker].exists /\ book[t.maker].funds = 0
    [] t.op = "set_book_delegate" -> MayManage(k, t.maker) /\ book[t.maker].exists
    [] t.op = "quote" -> MayQuote(k, t.maker) /\ book[t.maker].exists

\* The owner's instructions on the account.
LandCreate ==
  /\ tx[Owner].op = "create" /\ Accepts(Owner, tx[Owner])
  /\ account' = [NoAccount EXCEPT !.exists = TRUE]
  /\ Finish(Owner)
  /\ UNCHANGED <<book, ata, tokens, sol, wallet, paid, grant, rotated>>

LandSetDelegate ==
  LET t == tx[Owner]
  IN  /\ t.op = "set_delegate" /\ Accepts(Owner, t)
      /\ account' = [account EXCEPT !.delegate = t.delegate, !.cap = t.cap]
      /\ grant' = IF t.delegate = NoKey THEN [delegate |-> NoKey, cap |-> 0]
                  ELSE [delegate |-> t.delegate, cap |-> t.cap]
      /\ rotated' = (rotated \/ t.delegate # account.delegate)
      /\ Finish(Owner)
      /\ UNCHANGED <<book, ata, tokens, sol, wallet, paid>>

LandWithdrawTokens ==
  /\ tx[Owner].op = "withdraw_tokens" /\ Accepts(Owner, tx[Owner])
  /\ tokens' = tokens - 1 /\ wallet' = wallet + 1
  /\ Finish(Owner)
  /\ UNCHANGED <<account, book, ata, sol, paid, grant, rotated>>

LandWithdrawSol ==
  /\ tx[Owner].op = "withdraw_sol" /\ Accepts(Owner, tx[Owner])
  /\ sol' = sol - 1
  /\ Finish(Owner)
  /\ UNCHANGED <<account, book, ata, tokens, wallet, paid, grant, rotated>>

\* SwapFromArcherAccount: the proceeds come back, the builder fee does not.
LandSwap(k) ==
  LET fee == BuilderFee(Notional, tx[k].ppm)
  IN  /\ tx[k].op = "swap" /\ Accepts(k, tx[k])
      /\ fee <= tokens
      /\ tokens' = tokens - fee /\ paid' = paid + fee
      /\ Finish(k)
      /\ UNCHANGED <<account, book, ata, sol, wallet, grant, rotated>>

\* A maker's purse and the account's lamports after lots or rents move.
Spend(maker, lots, rents) ==
  IF MakerIsArcherAccount(maker)
    THEN tokens' = tokens - lots /\ sol' = sol - rents /\ wallet' = wallet
    ELSE wallet' = wallet - lots /\ tokens' = tokens /\ sol' = sol

\* Opening and closing a book move its rent, funding it moves lots.
LandBookOp(k) ==
  LET t == tx[k]
      lots == CASE t.op = "deposit" -> 1 [] t.op = "withdraw" -> -1 [] OTHER -> 0
      rents == CASE t.op = "init" -> 1 [] t.op = "close" -> -1 [] OTHER -> 0
  IN  /\ t.op \in BookOps /\ Accepts(k, t)
      /\ book' = [book EXCEPT ![t.maker] =
           CASE t.op = "init" -> [NoBook EXCEPT !.exists = TRUE]
             [] t.op = "close" -> NoBook
             [] OTHER -> [book[t.maker] EXCEPT !.funds = @ + lots]]
      /\ Spend(t.maker, lots, rents)
      /\ rotated' = (rotated /\ ~(t.op \in {"init", "close"} /\ t.maker = Account))
      /\ Finish(k)
      /\ UNCHANGED <<account, ata, paid, grant>>

LandSetBookDelegate(k) ==
  LET t == tx[k]
  IN  /\ t.op = "set_book_delegate" /\ Accepts(k, t)
      /\ book' = [book EXCEPT ![t.maker].delegate = t.new]
      /\ rotated' = IF t.maker = Account THEN seen[k].delegate # account.delegate ELSE rotated
      /\ Finish(k)
      /\ UNCHANGED <<account, ata, tokens, sol, wallet, paid, grant>>

-----------------------------------------------------------------------------
(* Plain transfers and the token account's creation: anyone may pay. *)

CreateTokenAccount ==
  /\ ~ata /\ ata' = TRUE
  /\ UNCHANGED <<account, book, tokens, sol, wallet, paid, processes, grant, rotated>>

DepositTokens ==
  /\ ata /\ wallet > 0
  /\ wallet' = wallet - 1 /\ tokens' = tokens + 1
  /\ UNCHANGED <<account, book, ata, sol, paid, processes, grant, rotated>>

DepositSol ==
  /\ sol < MaxSol
  /\ sol' = sol + 1
  /\ UNCHANGED <<account, book, ata, tokens, wallet, paid, processes, grant, rotated>>

Next ==
  \/ BuildCreate \/ BuildRevoke
  \/ \E d \in Platforms, cap \in BuilderPpms : BuildSetDelegate(d, cap)
  \/ \E op \in {"withdraw_tokens", "withdraw_sol"} : BuildWithdraw(op)
  \/ \E k \in Callers :
       \/ Read(k) \/ GiveUp(k)
       \/ \E maker \in Makers :
            \/ \E op \in BookOps : BuildBookOp(k, maker, op)
            \/ \E new \in Delegates : BuildSetBookDelegate(k, maker, new)
       \/ \E ppm \in BuilderPpms : BuildSwap(k, ppm)
       \/ LandSwap(k) \/ LandBookOp(k) \/ LandSetBookDelegate(k)
  \/ LandCreate \/ LandSetDelegate \/ LandWithdrawTokens \/ LandWithdrawSol
  \/ CreateTokenAccount \/ DepositTokens \/ DepositSol

Spec == Init /\ [][Next]_vars

-----------------------------------------------------------------------------
(* Properties *)

\* The account has a delegate that its book keeps out.
LockedOut ==
  /\ account.delegate # NoKey
  /\ book[Account].delegate \notin {NoKey, account.delegate}

\* The footgun check_book_delegate_change guards: the account's delegate is
\* locked out of the account's book only if the account's delegate changed
\* after the read from which the book's restriction was written.  (So "one
\* signature covers every book the account owns" holds of every book but those.)
LockedOutOnlyByRotation == LockedOut => rotated

\* What a delegate can cost its user: builders are paid only by a swap of the
\* owner or of the delegate the owner last signed for, at a rate within the
\* ceiling signed with it; nothing signed before a revocation counts after it.
FeesWithinGrant ==
  [][paid' # paid =>
       \E k \in {Owner, grant.delegate} \cap Keys :
         tx[k].op = "swap" /\ tx'[k] # tx[k] /\ tx[k].ppm <= grant.cap]_vars

\* The lots and lamports the call needs are there.
Funded(t) ==
  CASE t.op = "swap" -> ata /\ tokens >= Notional
    [] t.op = "deposit" -> Purse(t.maker) > 0
    [] t.op = "withdraw" -> book[t.maker].funds > 0
    [] OTHER -> TRUE

\* The SDK's checks are the program's: what an owner or a delegate builds for
\* an existing book of the account, or swaps from it, is not refused for want
\* of authority, identity or ceiling while what it read still stands and
\* nothing restricts the book to another key.
CheckedTxLands ==
  \A k \in Keys :
    (/\ pc[k] = "sent" /\ seen[k] = account /\ Authorized(k) /\ ~LockedOut
     /\ tx[k].op \in {"swap", "deposit", "withdraw", "quote", "set_book_delegate"} /\ Funded(tx[k])
     /\ tx[k].op # "swap" => tx[k].maker = Account /\ book[Account].exists)
      => Accepts(k, tx[k])
=============================================================================
