----------------------------- MODULE MCObjects ------------------------------
(* The instances of Objects that TLC checks.                                *)
EXTENDS Objects

CONSTANTS idle, a, b, c, none,      \* the threads
          p, d, x, y, z,            \* two pools and their blocks
          box, box_s, old, old_s,   \* two mailboxes and their senders' lists
          ev, ex,                   \* two events
          mq1, mq2, i1, i2, j1, j2, \* two message queues and their blocks
          dq1, dq1_s, dq2, dq2_s,   \* two data queues and their pushers' lists
          done, w1, w2,             \* a completion; two works
          pp1, pp2, pp3,            \* three pipes
          pp1_s, pp2_s, pp3_s,      \* and their writers' lists
          m1, m2                    \* mails, messages and data

MCThreads == {idle, a, b, c}
\* a is the most urgent thread; b and c share a priority.
MCPriority == [t \in MCThreads |-> IF t = a THEN 0 ELSE IF t = idle THEN 2 ELSE 1]
MCPools == {p, d}
MCMailboxes == {box, old}
MCEvents == {ev, ex}
MCMsgQueues == {mq1, mq2}
MCDataQueues == {dq1, dq2}
MCCompletions == {done}
MCPipes == {pp1, pp2, pp3}
MCQueues ==
    UNION {MCPools, MCMailboxes, {box_s, old_s}, MCEvents, MCMsgQueues,
           MCDataQueues, {dq1_s, dq2_s}, MCCompletions,
           MCPipes, {pp1_s, pp2_s, pp3_s}}
\* Of each kind one object is waited on with a timeout, one for ever.
MCDeletable == {d, old, old_s, ex, mq2, dq2, dq2_s}
MCBlocks == [q \in MCPools |-> IF q = p THEN {x, y} ELSE {z}]
MCMail == [t \in MCThreads |-> IF t \in {a, idle} THEN m1 ELSE m2]
MCSenders == [m \in MCMailboxes |-> IF m = box THEN box_s ELSE old_s]
MCPushers == [q \in MCDataQueues |-> IF q = dq1 THEN dq1_s ELSE dq2_s]
MCWriters == [q \in MCPipes |-> IF q = pp1 THEN pp1_s ELSE IF q = pp2 THEN pp2_s ELSE pp3_s]
TwoBytes == [q \in MCPipes |-> 2]
\* One pipe blocks both ways, one its readers beside forced writes, one only its
\* writers.
MCPipeFlag ==
    [q \in MCPipes |-> IF q = pp1 THEN {"BLOCK_RD", "BLOCK_WR"}
                       ELSE IF q = pp2 THEN {"BLOCK_RD", "FORCE_WR"} ELSE {"BLOCK_WR"}]
MCMessages == [q \in MCMsgQueues |-> IF q = mq1 THEN {i1, i2} ELSE {j1, j2}]
TwoMails == [m \in MCMailboxes |-> 2]
TwoData == [q \in MCDataQueues |-> 2]
LowWater == [q \in MCDataQueues |-> IF q = dq1 THEN 1 ELSE 0]
FlagOf(Q) == [q \in Q |-> IF q \in MCDeletable THEN "RT_IPC_FLAG_FIFO" ELSE "RT_IPC_FLAG_PRIO"]
MCMailFlag == FlagOf(MCMailboxes)
MCMsgFlag == FlagOf(MCMsgQueues)
MCEventFlag == [e \in MCEvents |-> "RT_IPC_FLAG_FIFO"]
\* One send may serve several receivers, of which each takes some bits or leaves
\* them to the next.
MCRequests ==
    [e \in MCEvents |->
        IF e = ev THEN {[set |-> {1, 2}, option |-> {"AND", "CLEAR"}], [set |-> {2}, option |-> {"AND"}]}
        ELSE {[set |-> {1, 2}, option |-> {"OR", "CLEAR"}], [set |-> {1}, option |-> {"OR", "CLEAR"}],
              [set |-> {2}, option |-> {"OR"}]}]
=============================================================================
