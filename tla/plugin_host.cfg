SPECIFICATION Spec
CONSTANTS
    Calls = {hook, call}
    Droppable = {call}
    hook = hook
    call = call
    Bye = Bye
    Owner = Owner
    NoOne = NoOne
    PipeCapacity = 1
    MaxLogs = 1
INVARIANTS OneHonestAlarm WaiterIsRemembered CleanShutdown
PROPERTIES WrittenCallReturns CrashIsTold
CHECK_DEADLOCK FALSE
