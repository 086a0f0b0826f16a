CONSTANTS
    r1 = r1  r2 = r2  o1 = o1  o2 = o2  purger = purger  reminder = reminder
    e1 = e1  e2 = e2  e3 = e3  g1 = g1  t1 = t1  t2 = t2  x1 = x1  x2 = x2  x3 = x3
    Absent = Absent
    Requests = {r1, r2}
    Olds = {o1, o2}
    Purger = purger
    Reminder = reminder
    Emails = {e1, e2}
    Subjects = {g1}
    Tokens = {t1, t2}
    Exams = {x1, x2, x3}
    Scenarios <- MCScenarios
    Grace = 1
    Batch = 1
    LoginMax = 1
    LoginWindow = 1
    Chunk = 1
    LastTick = 2
    MaxCrashes = 1
SPECIFICATION Spec
INVARIANTS TypeOK LiveHasCredential OnlyLateArrivals ExactlyOneLens GuessesBounded RemindedOnce DeadlocksNeedTheReminder
PROPERTIES GraceKept ActivationLands TracesLeave
CHECK_DEADLOCK FALSE
