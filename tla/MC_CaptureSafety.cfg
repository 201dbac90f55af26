SPECIFICATION FairSpec
CONSTANTS
    TicksPerSecond = 12
    Hour = 72
    Cycle = 18
    SampleRate = 2
    Procs = {shell, rtl_sdr, csdr}
    Leader = shell
    Last = csdr
    Stubborn = {}
    shell = shell
    rtl_sdr = rtl_sdr
    csdr = csdr
    Starts <- AcrossTheHour
    PipeBytes = 1
    MaxBytes = 18
INVARIANTS
    TypeOK
    WholeChunks
    TimeAligned
    NamesIncrease
    StopLetsOneThrough
PROPERTIES
    StopReturns
    NoStageLeft
    ThreadEnds
\* Once stopped, the worker stays stopped.
CHECK_DEADLOCK FALSE
