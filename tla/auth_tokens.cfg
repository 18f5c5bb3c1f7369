SPECIFICATION Spec
CONSTANTS
    s1 = s1  s2 = s2  l1 = l1  f1 = f1  f2 = f2  o1 = o1  d1 = d1  d2 = d2
    None = None
    Signups = {s1, s2}
    Logins = {l1}
    Refreshes = {f1, f2}
    Logouts = {o1}
    Devices = {d1, d2}
    DevicesOf <- TwoDevices
    AccessTTL = 1
    RefreshTTL = 2
    MaxNow = 2
    MaxFailures = 1
INVARIANTS TypeOK ExchangedOnce LogoutRevokes RotationIsWhole
CHECK_DEADLOCK FALSE
