SPECIFICATION Spec
CONSTANTS
  RamSizes <- MCRamSizes
  Kernels <- MCKernels
  Ramdisks <- MCRamdisks
  Hosts <- MCHosts
  VcpuCount = 2
INVARIANTS
  MemoryOutlivesVcpus
  BootIntact
  BootMatches
  StackIsFree
  HandedOverIsMapped
PROPERTY BuildsUnlessBroken
CHECK_DEADLOCK FALSE
