SPECIFICATION AdmissionSpec
CONSTANTS
    Ip = {i1, i2}
    Task = {t1, t2, t3}
    None = None
    MaxPerIp = 2
    Window = 2
    MaxConnections = 2
SYMMETRY Symmetry
INVARIANTS
    CapKept
    CountExact
    RateKept
