SPECIFICATION Spec
CONSTANTS
    s1 = s1
    s2 = s2
    once = once
    often = often
    None = None
    Sessions = {s1, s2}
    Tasks = {once, often}
    Recurring = {often}
    Initial = {often}
    Runs <- RunsOf
    MaxAge = 2
    Dispositions = {"accepted", "deferred"}
    MaxTime = 2
    MaxStarts = 3
    MaxFaults = 0
    MaxEdits = 1
    MaxFires = 5
CHECK_DEADLOCK FALSE
INVARIANT DeferredKept
