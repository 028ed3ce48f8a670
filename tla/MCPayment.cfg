SPECIFICATION Spec
CONSTANTS
    t1 = t1  t2 = t2
    i1 = i1  i2 = i2
    u1 = u1  u2 = u2  ux = ux
    m1 = m1  mx = mx
    Instance = {i1, i2}
    Thread = {t1, t2}
    Host <- MCHost
    NoThread = NoThread
    UserId = {u1, ux}
    User = {u1}
    MenuId = {m1, mx}
    Menu = {m1}
    NoMenu = NoMenu
    Amount = {0, 2}
    Price = {0, 1, 2}
    MaxLong = 4
    InitialBalance <- MCInitialBalance
    InitialPrice <- MCInitialPrice
    MaxRequests = 3
INVARIANTS LedgerConsistent RequestInv OrderPerUse ReplyTruthful EventsAreCommitted
PROPERTY LedgerRefinement
