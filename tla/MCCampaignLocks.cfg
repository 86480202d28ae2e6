SPECIFICATION Spec
CONSTANTS
    u = u  v = v  r = r  d = d  t = t  p = p  f = f  c = c
    None = None
    Jobs <- MCJobs
    Kind <- MCKind
    Length <- MCLength
    ResumeAt = 2
    Mixes <- MCMixes
    Crashable = {u, r, d, p, f, c}
INVARIANT EveryProcessIsCovered
INVARIANT SampledOnce
INVARIANT SealIsTheQueue
CHECK_DEADLOCK FALSE
