SPECIFICATION Spec
CONSTANTS
    Lengths = {0, 2, 32, 33, 128, 129}
    Measures <- BoundaryMeasures
    Offsets <- BoundaryOffsets
    Numbers <- BoundaryNumbers
INVARIANTS
    SamplesAccepted
    ForwardedRefusedForCause
    OldReadingsOnRequest
    LimitBounded
