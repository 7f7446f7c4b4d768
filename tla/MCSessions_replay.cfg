SPECIFICATION Spec
CONSTANTS
    Request = {r1, r2}
    Name = {n1}
    Token = {t1, t2, t3}
    None = None
    MaxFaults = 0
INVARIANT
    SingleSuccessor
