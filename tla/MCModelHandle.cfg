\* One panic of a worker, two calls of get_provider, three attempts.
CONSTANTS
    Callers = {c1, c2}
    MaxRetries = 3
    MaxPoison = 1
SPECIFICATION FairSpec
PROPERTY RetryFollows
CHECK_DEADLOCK FALSE
