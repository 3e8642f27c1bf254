SPECIFICATION Spec
CONSTANTS
    u1 = u1
    u2 = u2
    w1 = w1
    w2 = w2
    w3 = w3
    Users = {u1, u2}
    Nobody = Nobody
    Workers = {w1, w2}
    AdminOps = {"batch"}
    MaxEdits = 1
    MaxCreates = 2
    MaxFaults = 0
PROPERTIES
    UsedIsNotRevived
