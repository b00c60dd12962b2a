CONSTANTS
    Core = {c1}
    Thread = {reaper, t1, t2}
    Reaper = reaper
    Sem = {s1}
    Initial <- MCInitial
    MaxCount = 1
    None = None
SPECIFICATION FairSpec
PROPERTY ReadyRuns
CHECK_DEADLOCK FALSE
