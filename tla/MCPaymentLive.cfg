SPECIFICATION FairSpec
CONSTANTS
    t1 = t1  t2 = t2
    i1 = i1  i2 = i2
    u1 = u1  u2 = u2  ux = ux
    m1 = m1  mx = mx
    Instance = {i1, i2}
    Thread = {t1, t2}
    Host <- MCHost
    NoThread = NoThread
    UserId = {u1, u2}
    User = {u1, u2}
    MenuId = {m1}
    Menu = {m1}
    NoMenu = NoMenu
    Amount = {1}
    Price = {1}
    MaxLong = 2
    InitialBalance <- MCInitialBalance
    InitialPrice <- MCInitialPrice
    MaxRequests = 3
INVARIANT OrderIdsIncrease
PROPERTY Progress
