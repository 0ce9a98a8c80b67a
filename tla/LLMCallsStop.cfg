SPECIFICATION Spec
CONSTANTS
 Callers = {c1, c2}
 Timers = {t1, t2}
 Models = {m1}
 NoModel = nomodel
 NoTimer = notimer
 Caps = {2}
 Cooldown = 1
 RetryAttempts = 1
 RetryDelay = 1
 StopDelays = {0,1}
 MaxRequests = 1
PROPERTY NeverBetweenAttempts
CHECK_DEADLOCK FALSE
