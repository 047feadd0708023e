CONSTANTS
    Wrap = 16
    TicksPerMs = 2
    UptimeMax = 80
    ArmMax = 60
    FirstArmMax = 60
    Latency = 3
    Durations <- SmallDurations
SPECIFICATION Spec
CHECK_DEADLOCK FALSE
INVARIANT RequestArms
