----------------------------- MODULE MCServices -----------------------------
(* Two services side by side, checked one at a time: `part' says which runs. *)
EXTENDS RpcServer, Flashblocks

VARIABLE part

Text == Json("text", 0)
Tag == Json("tag", 0)

Fine == Request("1", "2.0", "conductor_leader", << >>)
Fetch == Request("2", "2.0", "optimism_syncStatus", << >>)
Block(v) == Request("3", "2.0", "eth_getBlockByNumber", <<v, Bool(TRUE)>>)
Override == Request("none", "2.0", "conductor_overrideLeader", <<Bool(TRUE)>>)
AddVoter(v) == Request("4", "2.0", "conductor_addServerAsVoter", <<Text, Text, v>>)

MCCallers == {"http", "websocket"}

AnyBody ==
    {NoJson, Batch(<< >>), Batch(<<Override, Override>>), Batch(<<Override, Fetch>>),
     Batch(<<Request("null", "2.0", "conductor_pause", << >>), Fine>>),
     Batch(<<Malformed("none"), Request("none", "1.0", "conductor_pause", << >>), Fine>>),
     Batch(<<Fetch, Request("5", "2.0", "unknown", << >>)>>),
     Batch(<<AddVoter(Json("HEX", 1)), AddVoter(Json("padded", 1))>>),
     Batch(<<Block(Hex(MaxI64 + 1)), Block(Json("HEX", MaxI64))>>),
     Single(Block(Tag)), Single(Malformed("6")),
     Single(Request("7", "2.0", "conductor_pause", NotArray)),
     Single(Request("8", "2.0", "conductor_removeServer", <<Text, Number(0)>>)),
     Single(Request("9", "2.0", "conductor_transferLeaderToServer", <<Text, Text>>)),
     Single(Request("10", "2.0", "conductor_commitUnsafePayload", <<Json("payload", 1)>>)),
     Single(Request("11", "2.0", "optimism_outputAtBlock", <<Json("padded", 1)>>)),
     Single(Request("12", "2.0", "miner_setMaxDASize",
                    <<Hex(MaxU64 + 1), Json("HEX", 0)>>))}

\* The second caller's bodies are the ones that meet the first one's.
MCBodies == [k \in MCCallers |->
    IF k = "http" THEN AnyBody ELSE {Batch(<<Override, Fetch>>), Single(Fetch)}]

MCBackendAnswers ==
    {Answer(Number(1)), Refusal("InvalidParams"), NoAnswer}

Init ==
    /\ RpcInit /\ FbInit
    /\ \/ part = "rpc" /\ ~leads
       \/ part = "flashblocks" /\ ~proxying /\ ~consensus_leader

Next ==
    \/ part = "rpc" /\ RpcNext /\ UNCHANGED <<fb_vars, part>>
    \/ part = "flashblocks" /\ FbNext /\ UNCHANGED <<rpc_vars, part>>

Spec == Init /\ [][Next]_<<rpc_vars, fb_vars, part>>
=============================================================================
