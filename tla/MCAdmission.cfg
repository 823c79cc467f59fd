SPECIFICATION FairSpec
CONSTANTS
  a = a  b = b  c = c
  a1 = a1  a2 = a2  a3 = a3  b1 = b1  c1 = c1  c2 = c2
  Tenants <- MCTenants
  Jobs <- MCJobs
  TenantOf <- MCTenantOf
  MaxConcurrent = 3
  MaxPerTenant = 2
  MaxQueuedPerTenant = 2
  MaxQueuedTotal = 2
INVARIANTS SlotsAccounted NoWaiterBesideFreeSlot
PROPERTIES TenantFifo NoStarvation
