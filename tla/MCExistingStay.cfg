SPECIFICATION Spec
CONSTANTS
  g1 = g1 s1 = s1 g10 = g10 c1 = c1 c10 = c10 k = k i1 = i1 i10 = i10
  Name = {g1, s1, g10}
  None = None
  CounterMax = 1
  MaxTries = 1
  Generation = {1, 10}
  Closure <- MCClosure
  GenerationOf <- MCGenerationOf
  Specialised = {s1}
  BootFile = {k, i1, i10}
  Kernel <- MCKernel
  Initrd <- MCInitrd
  Timeouts = {5, 10}
INVARIANTS ExistingStay
CHECK_DEADLOCK FALSE
