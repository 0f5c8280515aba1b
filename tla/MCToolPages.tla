----------------------------- MODULE MCToolPages -----------------------------
(***************************************************************************)
(* Small answers of the nodes for ToolPages.                               *)
(***************************************************************************)
EXTENDS ToolPages

MCSessions ==
    {{"work-pool"}, {"scan-state"}, {"state-actions"}, {"mempool"}, {"wallets"}, {"dashboard"}, {"node-picker"}, {"menu"}}

By(snarker, sender) == [snarker |-> snarker, sender |-> sender]
Work(id, time, commitment, snark) == [id |-> id, time |-> time, commitment |-> commitment, snark |-> snark]

MCWorkPoolAnswers ==
    {<<Work(1, 1, By("a", "b"), NoRow), Work(2, 2, By("c", "c"), By("c", "a"))>>, <<Work(2, 2, NoRow, NoRow)>>}

MCSnarkerOf == 1 :> "a" @@ 2 :> "none"

Leaf(job, snarker, snark) == [job |-> job, snarker |-> snarker, snark |-> snark]

MCScanStates ==
    {<<<<Leaf(1, "a", FALSE), Leaf(2, "b", TRUE), Leaf(3, "b", FALSE)>>, <<Leaf(4, "a", FALSE)>>>>,
     <<<<Leaf(4, "a", TRUE)>>, <<Leaf(2, "b", FALSE), Leaf(1, "a", FALSE)>>>>}
-----------------------------------------------------------------------------
Calls(calls, duration) == [calls |-> calls, duration |-> duration]

\* Three actions share a word, two of them two words; one is called like a group.
MCActionsAnswers ==
    {<<"P2p", "Channels", "Init">> :> <<Calls(1, 8), Calls(2, 1)>> @@ <<"P2p", "Channels">> :> <<Calls(1, 2)>>
         @@ <<"P2p", "Init">> :> <<Calls(5, 4)>> @@ <<"Rpc">> :> <<Calls(0, 0)>>,
     <<"P2p", "Channels">> :> <<Calls(1, 7)>> @@ <<"P2p", "Init">> :> <<Calls(1, 1)>>
         @@ <<"Rpc", "Init">> :> <<Calls(4, 2)>>}
-----------------------------------------------------------------------------
Account(publicKey, nonce) == [publicKey |-> publicKey, nonce |-> nonce]

\* The third account is none of the page's wallets.
MCAccountsAnswers ==
    {<<Account(1, 0), Account(2, 1), Account(9, 0)>>, <<Account(2, 1)>>}

MCBatches == {0}
-----------------------------------------------------------------------------
Pooled(hash, data, feePayer) == [hash |-> hash, data |-> data, feePayer |-> feePayer]

MCPoolAnswers ==
    {<<Pooled("t1", "Signed_command", "x"), Pooled("t2", "Zkapp_command", "y")>>, <<Pooled("t2", "Zkapp_command", "y")>>}
-----------------------------------------------------------------------------
MCNodeName == 1 :> "a" @@ 2 :> "b" @@ 3 :> "c" @@ 4 :> "a"
MCNodeFeatures == 1 :> {"dashboard"} @@ 2 :> {"dashboard"} @@ 3 :> {"dashboard"} @@ 4 :> {}
MCAppConfigs == <<1, 2>>
MCStoredNodes == <<3>>

Peer(peerId, status, height) == [peerId |-> peerId, status |-> status, height |-> height]

MCPeersAnswers ==
    {<<Peer(1, "Connected", 1), Peer(2, "Connecting", 2)>>, <<Peer(1, "Connecting", 1)>>, <<>>}

MCProgressAnswers ==
    {[NoProgress EXCEPT !.requests = <<[peerId |-> 1, requestsMade |-> 3]>>,
                        !.staking = [fetched |-> 1, estimation |-> 2]]}

Snarked(start) == [hashesStart |-> start, hashesEnd |-> start, accountsStart |-> 0, accountsEnd |-> 0]
Staged(end) == [partsStart |-> end, partsEnd |-> end, reconstructStart |-> end, reconstructEnd |-> end]
MCStep(end) == [snarked |-> Snarked(1), staged |-> Staged(end)]
MCBlock(hash, status) ==
    [hash |-> hash, status |-> status, fetchStart |-> 1, fetchEnd |-> 1, applyStart |-> 0, applyEnd |-> 0]

MCTip(phase, root, blocks) ==
    [phase |-> phase, received |-> 1, blocks |-> blocks,
     ledgers |-> [root |-> root, next_epoch |-> NoStep, staking_epoch |-> NoStep]]

MCSyncTips ==
    {<<MCTip(BOOTSTRAP, NoStep, <<>>)>>, <<MCTip(BOOTSTRAP, MCStep(0), <<MCBlock(1, "Applied"), MCBlock(2, "Applied")>>)>>,
     <<MCTip(CATCHUP, MCStep(1), <<MCBlock(3, "Missing"), MCBlock(2, "Fetched"), MCBlock(1, "Applied")>>)>>,
     <<MCTip(SYNCED, MCStep(1), <<MCBlock(3, "Applied"), MCBlock(2, "Applied"), MCBlock(1, "Applied")>>)>>}
=============================================================================
