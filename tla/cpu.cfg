SPECIFICATION CpuSpec
CONSTANTS
  Pid = {p1, p2}
  MaxTick = 7
SYMMETRY Symmetry
INVARIANTS CpuTypeOK SharesAddUp EachAFraction QuietShowsNothing
