-------------------------- MODULE BenchmarksWallets --------------------------
(***************************************************************************)
(* The page "Benchmarks: Wallets", a stressing tool: it sends batches of   *)
(* payments or of zkApp updates from test wallets to the active node.      *)
(* Leaving the page cancels the request for the wallets only; what was     *)
(* sent still answers.                                                     *)
(***************************************************************************)
EXTENDS RustService

CONSTANTS WALLETS,          \* the public keys whose private keys the page knows
          AccountsAnswers,  \* /accounts: sequences of accounts
          Batches           \* the numbers the user may enter as a batch

ASSUME BenchmarksAssumption ==
    /\ Batches \subseteq Int
    /\ \A a \in AccountsAnswers : a \in Seq(ToSet(a)) /\ \A i \in DOMAIN a : a[i].nonce \in Nat
    /\ \A a \in AccountsAnswers : \A i, j \in DOMAIN a : a[i].publicKey = a[j].publicKey => i = j

\* The fee and the amount are any numbers that the user has entered: txsWhole tells
\* whether those of txsToSend are whole numbers of nanomina, as signPayment requires.
\*
\* Each visit before o1js is here adds a script element that loads it.  How many of them
\* load, and when, is left open: zkApps are the updates that run or wait for the first
\* of them, again is a batch that has ended and that a later one would run again.
\* overtaken is history: see getWallets and LoadedO1jsAgain.
VARIABLES wallets,     \* the slice benchmarks.wallets
          walletsReq   \* its requests

walletsVars == <<wallets, walletsReq>>

initialWallets ==
    [wallets |-> <<>>, txsToSend |-> <<>>, blockSending |-> FALSE, txSendingBatch |-> <<>>,
     randomWallet |-> TRUE, activeWallet |-> NoRow, zkAppsSendingBatch |-> 1,
     txsWhole |-> TRUE]

initialWalletsReq ==
    [wallets |-> {}, allTxs |-> FALSE, payments |-> {}, zkApps |-> {}, again |-> {},
     overtaken |-> FALSE]

\* selectBenchmarksBlockSending.
BlockSending == wallets.blockSending \/ wallets.txsToSend # <<>>
-----------------------------------------------------------------------------
\* getAccounts: the accounts whose private keys the page knows.
getAccounts(accounts) == filter(accounts, {a \in ToSet(accounts) : a.publicKey \in WALLETS})

\* GET_WALLETS_SUCCESS.  Of a row only the account is modelled: the status of its
\* last transaction and the counters, which the reducer hands on by position, do not
\* come back into what is sent.  The active wallet stays as it was when selected.
GetWalletsReduced(accounts) ==
    [wallets EXCEPT !.wallets = accounts, !.blockSending = FALSE,
        !.txSendingBatch = IF @ = <<>> THEN <<Len(accounts)>> ELSE @,
        !.activeWallet = IF @ = NoRow /\ accounts # <<>> THEN accounts[1] ELSE @]

\* wallets.slice(0, batch): a negative batch leaves out the last ones.
slice(rows, batch) ==
    LET end == IF batch < 0 THEN Len(rows) + batch ELSE batch
    IN  SubSeq(rows, 1, IF end > Len(rows) THEN Len(rows) ELSE end)

getNonceForWallet(wallet) == IF wallet.nonce > 0 THEN wallet.nonce ELSE 0

\* One transaction of each of the first wallets.
randomTxs(batch) ==
    LET from == slice(wallets.wallets, batch)
    IN  [i \in DOMAIN from |-> [from |-> from[i].publicKey, nonce |-> getNonceForWallet(from[i])]]

\* A batch of transactions of the active wallet.
specificTxs(batch) ==
    [i \in 1..batch |-> [from |-> wallets.activeWallet.publicKey,
                         nonce |-> getNonceForWallet(wallets.activeWallet) + i - 1]]

\* Building the batch throws: without an active wallet, for an array of negative
\* length, for a payment to a wallet that is not there, and, when no other wallet
\* can be the receiver, after endless attempts to draw one.
sendThrows(batch, payments) ==
    IF wallets.randomWallet
    THEN payments /\ Len(wallets.wallets) = 1 /\ slice(wallets.wallets, batch) # <<>>
    ELSE wallets.activeWallet = NoRow \/ batch < 0 \/ (payments /\ batch > Len(wallets.wallets))

toSend(batch) == IF wallets.randomWallet THEN randomTxs(batch) ELSE specificTxs(batch)

\* SEND_TXS: sending is blocked by the batch itself, if it is not empty.
SendTxsReduced(txs, whole) == [wallets EXCEPT !.txsToSend = txs, !.txsWhole = txs = <<>> \/ whole]

\* sendTransactions signs before it posts, outside of catchError: signPayment throws on
\* a fee or an amount that is no whole number.  The effect ends the request before
\* it and goes on without one.
sendTransactions(payments, w) ==
    IF ~w.txsWhole THEN {} ELSE switchMap(payments, [txs |-> w.txsToSend])

SendZkAppsReduced_NotBlocked(txs) == wallets

\* SEND_ZKAPPS.
SendZkAppsReduced(txs) == [wallets EXCEPT !.blockSending = TRUE]

\* SEND_TX_SUCCESS.
SendTxSuccessReduced == [wallets EXCEPT !.txsToSend = <<>>, !.txsWhole = TRUE]

\* SEND_ZKAPPS_SUCCESS: the block stays until the wallets are here again.
SendZkAppsSuccessReduced == wallets

\* batch of the form of a toolbar.  0 is taken for "no number".
batchEntered(value) ==
    LET n == IF value = 0 THEN 1 ELSE value
        length == Len(wallets.wallets)
    IN  IF n > length THEN IF wallets.randomWallet THEN length ELSE length - 1 ELSE n
-----------------------------------------------------------------------------
\* GET_WALLETS: blocks sending, and takes the place of an earlier request.  Its
\* answer unblocks; overtaken records that a batch is on its way meanwhile.
getWallets(state, req, initialRequest) ==
    /\ wallets' = [state EXCEPT !.blockSending = TRUE]
    /\ walletsReq' = [req EXCEPT !.wallets = switchMap(@, [initial |-> initialRequest]),
                          !.overtaken = req.payments # {} \/ req.zkApps # {}]

\* sendTxSuccess$: the nonces are asked for after each batch.
sendTxSuccess(state, req) == getWallets(state, req, FALSE)

WalletsOpen ==
    /\ Enter("wallets") /\ getWallets(wallets, walletsReq, TRUE) /\ UNCHANGED <<rust, loading>>

WalletsNodeChange ==
    /\ On("wallets") /\ changeRustNode /\ UNCHANGED loading
    /\ getWallets(wallets, walletsReq, TRUE)

\* After the first answer the transactions are asked for.
GetWalletsSuccess ==
    /\ \E r \in walletsReq.wallets, accounts \in AccountsAnswers :
         /\ wallets' = GetWalletsReduced(getAccounts(accounts))
         /\ walletsReq' = [walletsReq EXCEPT !.wallets = Completed(@, r), !.allTxs = @ \/ r.initial]
    /\ UNCHANGED <<page, loading, rust>>

\* An error is an empty list.
GetWalletsError ==
    /\ walletsReq.wallets # {}
    /\ wallets' = GetWalletsReduced(<<>>)
    /\ walletsReq' = [walletsReq EXCEPT !.wallets = catchErrorAndRepeat(@)]
    /\ UNCHANGED <<page, loading, rust>>

\* GET_ALL_TXS_SUCCESS fills in the status and the counters of the rows.
GetAllTxsSuccess ==
    /\ walletsReq.allTxs /\ walletsReq' = [walletsReq EXCEPT !.allTxs = FALSE]
    /\ UNCHANGED <<page, loading, rust, wallets>>

\* The action for an error misnames the list the reducer spreads: it throws.
GetAllTxsError ==
    /\ walletsReq.allTxs /\ Throws
    /\ walletsReq' = [walletsReq EXCEPT !.allTxs = FALSE]
    /\ UNCHANGED <<loading, rust, wallets>>

SendTxs ==
    /\ page = "wallets" /\ ~BlockSending
    /\ LET batch == IF wallets.txSendingBatch = <<>> THEN 0 ELSE Head(wallets.txSendingBatch)
       IN  IF sendThrows(batch, TRUE) THEN Throws /\ UNCHANGED walletsVars
           ELSE /\ UNCHANGED page
                /\ \E whole \in BOOLEAN : wallets' = SendTxsReduced(toSend(batch), whole)
                /\ walletsReq' = [walletsReq EXCEPT !.payments = sendTransactions(@, wallets')]
    /\ UNCHANGED <<loading, rust>>

\* sendZkApp: the batch runs at once, or waits for o1js, without an end if that is
\* never loaded.
SendZkApps ==
    /\ page = "wallets" /\ ~BlockSending
    /\ LET batch == wallets.zkAppsSendingBatch
       IN  IF sendThrows(batch, FALSE) THEN Throws /\ UNCHANGED walletsVars
           ELSE /\ UNCHANGED page
                /\ wallets' = SendZkAppsReduced(toSend(batch))
                /\ walletsReq' = [walletsReq EXCEPT !.zkApps = switchMap(@, [txs |-> toSend(batch)]), !.again = {}]
    /\ UNCHANGED <<loading, rust>>

\* sendTransactions answers, a failure too: it is only counted.
SendTxsEnds ==
    /\ \E r \in walletsReq.payments :
         sendTxSuccess(SendTxSuccessReduced, [walletsReq EXCEPT !.payments = Completed(@, r)])
    /\ UNCHANGED <<page, loading, rust>>

\* sendZkApp answers, for all its updates at once, a failure of one or more too.  Unless
\* an update was rejected, it goes on listening for o1js.
SendZkAppsEnds ==
    /\ \E r \in walletsReq.zkApps : \E again \in {{}, {r}} :
         sendTxSuccess(SendZkAppsSuccessReduced,
                       [walletsReq EXCEPT !.zkApps = Completed(@, r), !.again = again])
    /\ UNCHANGED <<page, loading, rust>>

\* A script element loads after another one: the batch that runs or has ended last runs
\* again, and overtaken records it.
LoadedO1jsAgain ==
    /\ walletsReq.zkApps \cup walletsReq.again # {} /\ UNCHANGED <<page, loading, rust, wallets>>
    /\ walletsReq' = [walletsReq EXCEPT !.zkApps = @ \cup walletsReq.again, !.again = {}, !.overtaken = TRUE]

ToggleRandomWallet ==
    /\ On("wallets") /\ wallets' = [wallets EXCEPT !.randomWallet = ~@]
    /\ UNCHANGED <<loading, rust, walletsReq>>

SelectWallet ==
    /\ On("wallets") /\ ~wallets.randomWallet
    /\ \E w \in ToSet(wallets.wallets) : wallets' = [wallets EXCEPT !.activeWallet = w]
    /\ UNCHANGED <<loading, rust, walletsReq>>

ChangeTransactionBatch ==
    /\ On("wallets")
    /\ \E value \in Batches : wallets' = [wallets EXCEPT !.txSendingBatch = <<batchEntered(value)>>]
    /\ UNCHANGED <<loading, rust, walletsReq>>

ChangeZkAppsBatch ==
    /\ On("wallets")
    /\ \E value \in Batches : wallets' = [wallets EXCEPT !.zkAppsSendingBatch = batchEntered(value)]
    /\ UNCHANGED <<loading, rust, walletsReq>>

WalletsClose ==
    /\ Leave("wallets") /\ wallets' = initialWallets
    /\ walletsReq' = [walletsReq EXCEPT !.wallets = {}]
    /\ UNCHANGED <<rust, loading>>
-----------------------------------------------------------------------------
WalletsInit == wallets = initialWallets /\ walletsReq = initialWalletsReq

WalletsNext ==
    \/ WalletsOpen \/ WalletsNodeChange \/ GetWalletsSuccess \/ GetWalletsError
    \/ GetAllTxsSuccess \/ GetAllTxsError \/ SendTxs \/ SendZkApps \/ SendTxsEnds \/ SendZkAppsEnds
    \/ LoadedO1jsAgain \/ ToggleRandomWallet \/ SelectWallet \/ ChangeTransactionBatch
    \/ ChangeZkAppsBatch \/ WalletsClose

\* Batches that are on their way together spend no nonce twice: all their payments
\* and zkApp updates differ in their wallet or in its nonce.  The ways out are those
\* that overtaken records, until all has ended: the wallets were asked for while a
\* batch was on its way (a reopened page, another node, the answer to an empty
\* batch), and their answer lifts the block of that batch; or o1js was loaded once
\* more and runs a batch again.  Nothing is said of batches sent one after the
\* other: the nonce of the active wallet is that of its selection.
NoncesSpentOnce ==
    LET sends == walletsReq.payments \cup walletsReq.zkApps
    IN  ~walletsReq.overtaken =>
            /\ \A s \in sends : \A i, j \in DOMAIN s.txs : i # j => s.txs[i] # s.txs[j]
            /\ \A s \in walletsReq.payments, t \in walletsReq.zkApps : ToSet(s.txs) \cap ToSet(t.txs) = {}

\* A send button that is blocked has something on its way whose answer or failure
\* unblocks it, also when batches, nodes and visits overlap: the wallets, a batch of
\* zkApp updates (which may wait for o1js) or the payments it is blocked for.
\* Payments that could not be signed have nothing: they block until the page is left.
BlockedHasRequest ==
    /\ page # "ended" /\ wallets.blockSending => walletsReq.wallets # {} \/ walletsReq.zkApps # {}
    /\ page # "ended" /\ wallets.txsToSend # <<>> /\ wallets.txsWhole => walletsReq.payments # {}

\* Sending is blocked as long as nonces of batches on their way are at stake, and, of
\* payments that could be signed, no longer.
WalletsSound == NoncesSpentOnce /\ BlockedHasRequest
=============================================================================
