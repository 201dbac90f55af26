SPECIFICATION FairSpec
CONSTANTS
    TicksPerSecond = 2
    Hour = 12
    Cycle = 3
    SampleRate = 2
    Procs = {shell, rtl_sdr, csdr}
    Leader = shell
    Last = csdr
    Stubborn = {rtl_sdr}
    shell = shell
    rtl_sdr = rtl_sdr
    csdr = csdr
    Starts <- OneCycle
    PipeBytes = 1
    MaxBytes = 9
PROPERTIES
    NoStageLeft
\* Once stopped, the worker stays stopped.
CHECK_DEADLOCK FALSE
