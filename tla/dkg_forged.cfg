SPECIFICATION Spec
CONSTANTS
    Fr <- F5
    Zero = 0
    One = 1
    Add <- F5Add
    Neg <- F5Neg
    Mul <- F5Mul
    Inv <- F5Inv
    MaxDomain = 4
    DomainSize <- F5DomainSize
    DomainElement <- F5DomainElement
    Addresses = {"a", "b", "c", "d", "x"}
    Rituals <- Ritual23
    Strangers <- NoStrangers
    Clients = {"a"}
    Polys <- OddPolys
    Distortions = {"none"}
    Tamperings = {}
    MaxPosted = 2
    MaxForged = 2
    MaxInbox = 2
INVARIANTS
    VerifiedAggregateReconstructs ThresholdNotLowered
