SPECIFICATION Spec
CONSTANTS
    t1 = t1
    t2 = t2
    Threads = {t1, t2}
    Hours = {7, 8}
    Minutes = {15, 45}
    None = None
SYMMETRY Symmetry
INVARIANT ShowsDepartureTime
