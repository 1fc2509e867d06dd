SPECIFICATION Spec
CONSTANTS
    Handlers = {h1, h2}
    Devices = {d1}
    Timestamps = {1}
    MaxSkew = 0
    MaxTime = 2
    MaxPosts = 2
    MaxStarts = 1
INVARIANTS
    GaugesCurrent
