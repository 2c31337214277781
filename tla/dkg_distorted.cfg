SPECIFICATION Spec
CONSTANTS
    Fr <- F5
    Zero = 0
    One = 1
    Add <- F5Add
    Neg <- F5Neg
    Mul <- F5Mul
    Inv <- F5Inv
    MaxDomain = 4
    DomainSize <- F5DomainSize
    DomainElement <- F5DomainElement
    Addresses = {"a", "b", "c", "d", "x"}
    Rituals <- Ritual23
    Strangers <- TwoStrangers
    Clients = {"a"}
    Polys <- PlainPolys
    Distortions = {"none", "no_coeffs", "wrong_sigma", "wrong_share", "short_shares", "zero"}
    Tamperings = {}
    MaxPosted = 2
    MaxForged = 1
    MaxInbox = 2
INVARIANTS
    NoPanic EveryDealerContributes BlameIsSound AggregationServesAllValidators
