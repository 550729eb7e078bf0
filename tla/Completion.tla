----------------------------- MODULE Completion -----------------------------
(***************************************************************************)
(* The completions of completion.c: rt_completion_wait by one thread at a  *)
(* time (the code asserts it), rt_completion_done by threads, which look   *)
(* at the flag before they disable the interrupts, and by handlers.        *)
(***************************************************************************)
EXTENDS Ipc

CONSTANT Completions        \* their wait lists are queues

ASSUME CompletionAssumption == Completions \subseteq Queues

VARIABLE flag               \* completion -> completion->flag

CompletionType == flag \in [Completions -> {"RT_COMPLETED", "RT_UNCOMPLETED"}]

\* rt_completion_init
CompletionInit == flag = [c \in Completions |-> "RT_UNCOMPLETED"]

-----------------------------------------------------------------------------

\* Nobody is in rt_completion_wait on c.
Unused(c) == \A t \in Threads : ~(pc[t] \in {"blocked", "woken"} /\ object[t] = c)

SetFlag(c, f) == flag' = [flag EXCEPT ![c] = f]

\* The flag is up and is taken down, or the caller waits.
rt_completion_wait(s, c) ==
    /\ Running(s, "user") /\ Unused(c)
    /\ \/ /\ flag[c] = "RT_COMPLETED" /\ SetFlag(c, "RT_UNCOMPLETED")
          /\ UNCHANGED <<k, pc, object>>
       \/ /\ flag[c] # "RT_COMPLETED"
          /\ WaitOn(s, c, "RT_IPC_FLAG_FIFO", TRUE)
          /\ UNCHANGED flag
    /\ UNCHANGED dying

\* The caller was woken: it takes the flag down, also when its time was up.
wait_return(s, c) ==
    /\ Running(s, "woken") /\ object[s] = c
    /\ SetFlag(c, "RT_UNCOMPLETED")
    /\ LeaveCall(s)
    /\ UNCHANGED <<k, dying>>

\* The first look at the flag
rt_completion_done(s, c) ==
    /\ Running(s, "user")
    /\ flag[c] # "RT_COMPLETED"
    /\ Goto(s, "completing") /\ object' = [object EXCEPT ![s] = c]
    /\ UNCHANGED <<k, dying, flag>>

\* Faulty: the flag is only for a later waiter.
done_for_later(s, c) ==
    /\ Running(s, "completing") /\ object[s] = c
    /\ IF NoWaiter(c) THEN SetFlag(c, "RT_COMPLETED") ELSE UNCHANGED flag
    /\ LeaveWaking(s, c)
    /\ UNCHANGED dying

\* The section: the flag goes up and the waiter is woken.
done_wake(s, c) ==
    /\ Running(s, "completing") /\ object[s] = c
    /\ SetFlag(c, "RT_COMPLETED")
    /\ LeaveWaking(s, c)
    /\ UNCHANGED dying

isr_done(c) ==
    /\ flag[c] # "RT_COMPLETED"
    /\ SetFlag(c, "RT_COMPLETED")
    /\ IsrWaking(c)
    /\ UNCHANGED <<pc, object, dying>>

CompletionNext ==
    \/ \E s \in Threads, c \in Completions :
          \/ rt_completion_wait(s, c) \/ wait_return(s, c)
          \/ rt_completion_done(s, c) \/ done_wake(s, c)
    \/ \E c \in Completions : isr_done(c)
    \/ Background /\ UNCHANGED flag

-----------------------------------------------------------------------------
(* Properties *)

\* Nobody waits for a completion that is done, and a waiter that was woken by a
\* done still finds the flag up when it runs, whatever happened in between: it
\* takes down its own completion and no later one gets lost with it
\* (rt_completion_wait, rt_completion_done).
CompletionOK ==
    \A c \in Completions :
        /\ ~NoWaiter(c) => flag[c] = "RT_UNCOMPLETED" /\ Len(k.queue[c]) = 1
        /\ OnItsWay(c) # {} => flag[c] = "RT_COMPLETED"
=============================================================================
