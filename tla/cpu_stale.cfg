SPECIFICATION CpuSpec
CONSTANTS
  Pid = {p1}
  MaxTick = 6
INVARIANT PercentIsOfLastCheck
