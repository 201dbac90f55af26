SPECIFICATION Spec
CONSTANTS
    TicksPerSecond = 8
    Hour = 48
    Cycle = 12
    SampleRate = 2
    Procs = {shell, rtl_sdr, csdr}
    Leader = shell
    Last = csdr
    Stubborn = {}
    shell = shell
    rtl_sdr = rtl_sdr
    csdr = csdr
    Starts <- AcrossTheHour
    PipeBytes = 1
    MaxBytes = 18
INVARIANTS
    SampleAligned
\* Once stopped, the worker stays stopped.
CHECK_DEADLOCK FALSE
