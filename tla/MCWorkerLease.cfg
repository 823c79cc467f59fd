SPECIFICATION LeaseSpec
CONSTANTS
  v = v  w = w  v1 = v1  v2 = v2  w1 = w1
  Keys = {k1, k2}
  Sessions <- MCSessions
  WorkerOf <- MCWorkerOf
  Ttls = {1, 2}
INVARIANT OneHolder
PROPERTIES LeaseIsKept FencedLeaseSpec
