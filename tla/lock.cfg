\* Three threads, every operation, callers that pass illegal names.  The service
\* really stops (after a refusal, a release against a reader, a crash).
SPECIFICATION FairSpec
CONSTANTS
    Threads = {t1, t2, t3}
    Values = {v1}
    NoValue = NoValue
    Pending = Pending
    Calls = {"get", "set", "release"}
    IllegalNames = TRUE
INVARIANTS RefusalStopsService NoOtherStandstill
PROPERTIES ReleaseDeadlock ImplementsRegister GetReturns SetReturns
CHECK_DEADLOCK FALSE
