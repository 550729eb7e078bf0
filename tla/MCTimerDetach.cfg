SPECIFICATION Spec
CONSTANTS
    t1 = t1
    t2 = t2
    Timers <- TwoTimers
    TickModulus = 8
    Delays <- MCDelays
    CallbackOps <- DetachInCallback
    Retyped <- NoTimer
    MaxStall = 1
INVARIANT
    DetachedNotListed
