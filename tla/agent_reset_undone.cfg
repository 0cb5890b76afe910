SPECIFICATION Spec
CONSTANTS
  r1 = r1
  r2 = r2
  r3 = r3
  d1 = d1
  d2 = d2
  Requests <- MCTwoRequests
  Devices <- MCOneDevice
  DeviceOf <- MCDeviceOfTwo
  Workers = {w1, w2}
  Threads = {t1, t2}
  MaxQueue = 1
  MaxGen = 2
  NoRequest = NoRequest
  NoThread = NoThread
INVARIANT
  ResetStartsNewThread
