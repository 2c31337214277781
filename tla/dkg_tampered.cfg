SPECIFICATION Spec
CONSTANTS
    Fr <- F5
    Zero = 0
    One = 1
    Add <- F5Add
    Neg <- F5Neg
    Mul <- F5Mul
    Inv <- F5Inv
    MaxDomain = 4
    DomainSize <- F5DomainSize
    DomainElement <- F5DomainElement
    Addresses = {"a", "b", "c", "d", "x"}
    Rituals <- Ritual23
    Strangers <- NoStrangers
    Clients = {"a"}
    Polys <- PlainPolys
    Distortions = {}
    Tamperings = {"none", "public_key", "shares", "reblind"}
    MaxPosted = 2
    MaxForged = 0
    MaxInbox = 2
INVARIANTS
    VerifiedAggregateReconstructs EveryDealerContributes
