SPECIFICATION Spec
CONSTANTS
  Ifaces = {lo, eth0}
  Loopback = lo
  Allowed <- NoList
  Cores = {total}
  Mounts = {root, data}
  MaxBytes = 3
INVARIANTS
  TypeOK
  BytesAreConserved
  FailureIsContained
