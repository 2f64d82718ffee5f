SPECIFICATION FairSpec
CONSTANTS
    Tasks = {t1, t2}
    Lines = {0, 15}
    DriverLine = 15
    Registrar = t1
    Hz = 2
    PitOscFreq = 13
    MaxDivisor = 9
    MaxTicks = 3
INVARIANT ServiceEndsFirst
INVARIANT OneFrame
INVARIANT RegisteredIsOpen
INVARIANT UptimeIsClose
PROPERTY RequestsAreServed
