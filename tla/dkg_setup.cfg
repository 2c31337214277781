SPECIFICATION Spec
CONSTANTS
    Fr <- F5
    Zero = 0
    One = 1
    Add <- F5Add
    Neg <- F5Neg
    Mul <- F5Mul
    Inv <- F5Inv
    MaxDomain = 4
    DomainSize <- F5DomainSize
    DomainElement <- F5DomainElement
    Addresses = {"a", "b", "c", "d", "x"}
    Rituals <- OddRituals
    Strangers <- Intruders
    Clients = {"a"}
    Polys <- UnitPolys
    Distortions = {}
    Tamperings = {}
    MaxPosted = 1
    MaxForged = 0
    MaxInbox = 1
INVARIANTS
    TypeOK ContextIndicesExact NoPanic HonestTranscriptVerifies
