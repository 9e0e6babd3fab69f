SPECIFICATION LockSpec
CONSTANTS Services = {"x", "y"} Pids = {1, 2}
CONSTANTS Revokers = {} Procs = {} Requests = {} Archives = {} Bad = {} Installers = {} MaxChanges = 0 MaxCrashes = 0
CONSTANT None = None
CHECK_DEADLOCK FALSE
INVARIANT SecondIsRefused
