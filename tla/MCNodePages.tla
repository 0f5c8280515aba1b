----------------------------- MODULE MCNodePages -----------------------------
(***************************************************************************)
(* Small answers of the nodes for NodePages.                               *)
(***************************************************************************)
EXTENDS NodePages

MCSessions == {{"overview"}, {"bootstrap"}, {"live"}, {"bp-overview"}, {"won-slots"},
               {"memory"}, {"fuzzing"}}

Snarked(start) == [hashesStart |-> start, hashesEnd |-> 0, accountsStart |-> 0, accountsEnd |-> 0]
Staged(start, end) == [partsStart |-> start, partsEnd |-> start, reconstructStart |-> end, reconstructEnd |-> end]
Step(snarked, start, end) == [snarked |-> Snarked(snarked), staged |-> Staged(start, end)]

Block(hash, height, status, fetched, applied) ==
    [hash |-> hash, height |-> height, status |-> status,
     fetchStart |-> 1, fetchEnd |-> fetched, applyStart |-> fetched, applyEnd |-> applied]

MCTip(phase, received, root, hash) ==
    [phase |-> phase, received |-> received,
     ledgers |-> [root |-> root, next_epoch |-> Step(1, 0, 0), staking_epoch |-> NoStep],
     blocks |-> <<Block(hash, hash, "Applied", 3, 5), Block(1, 1, "Fetching", 0, 0)>>]

MCSyncTips ==
    {<<MCTip(SYNCED, 2, Step(2, 3, 4), 3), MCTip(CATCHUP, 1, Step(0, 1, 0), 2)>>,
     <<MCTip(BOOTSTRAP, 0, Step(1, 0, 0), 3)>>}

MCConfigNodes == <<1, 2>>
MCCustomNodes == {3}
-----------------------------------------------------------------------------
Slot(slot, status) == [slot |-> slot, global_slot |-> slot, block_status |-> status]

MCSlotAnswers ==
    {[slots |-> <<Slot(0, "Canonical"), Slot(1, "ToBeProduced")>>, current |-> 1],
     [slots |-> <<Slot(0, "Orphaned")>>, current |-> 5]}

Won(slot, status) == [global_slot |-> slot, slot_time |-> slot, status |-> status, discarded |-> status = "Discarded"]

MCWonAnswers ==
    {[attempts |-> <<Won(1, "Canonical"), Won(2, "Produced")>>, future |-> <<Won(3, "none")>>, now |-> 2],
     [attempts |-> <<Won(1, "Canonical"), Won(2, "Committed")>>, future |-> <<>>, now |-> 2],
     [attempts |-> <<Won(1, "Canonical")>>, future |-> <<>>, now |-> 3]}
-----------------------------------------------------------------------------
MCStored == [granularity |-> 512, treemapView |-> "BINARY"]

MCProfilerTrees == {{<<>>, <<1>>, <<1, 1>>, <<1, 1, 1>>}, {<<>>, <<1>>}}

File(path, coverage, words) == [path |-> path, coverage |-> coverage, words |-> words]

MCDirectoriesAnswers == {<<1, 2>>}

\* The reports of two days share a file.
MCFilesOf == 1 :> {<<File(1, 2, {"x"}), File(2, 1, {})>>} @@ 2 :> {<<File(1, 2, {"x"})>>}

MCLineCounters == {<<1, 0, 1>>}
=============================================================================
