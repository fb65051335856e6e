\* A statement of the code's own documentation that the code does not keep.
SPECIFICATION Spec
CONSTANTS
    p1 = p1
    r1 = r1
    Press <- MCPress
    Retry <- MCRetry
    Travel = 3
    Settle = 3
    Timeout = 4
    MinDuration = 2
    MaxDuration = 3
    Cooldown = 1
    MaxReloads = 0
INVARIANT TimesAFullClose
