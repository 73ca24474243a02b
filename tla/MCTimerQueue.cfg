CONSTANTS
    once = once
    soon = soon
    often = often
    Timers = {once, soon, often}
    Delays <- MCDelays
    interval_ <- MCInterval
    Late = 2
SPECIFICATION FairSpec
INVARIANTS
    TypeOK
    ArmedInTime
PROPERTY TimersRun
