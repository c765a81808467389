SPECIFICATION MCSpec
CONSTANTS
  MAX_PCB_NUM = 4
  MAX_TIME_COUNT = 3
  SleepTimes = {1, 2}
  CopySize = 2
INVARIANTS TypeOK OneRunning KernelStacks WaitBounded
PROPERTIES NeverLeaves EveryoneRuns
