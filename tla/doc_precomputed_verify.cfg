SPECIFICATION Spec
CONSTANTS
    Fr <- F5
    Zero = 0
    One = 1
    Add <- F5Add
    Neg <- F5Neg
    Mul <- F5Mul
    Inv <- F5Inv
    MaxDomain = 4
    DomainSize <- F5DomainSize
    DomainElement <- F5DomainElement
    Rituals <- Ritual23
    Polys <- OneLine
    Messages = {"m"}
    Aads = {"p"}
    Scalars = {2}
    Keys = {}
    Damages = {}
    Faults = {}
    Variants = {"precomputed"}
    Factors <- FourFactors
    Selections <- NoSelections
    MaxSent = 1
    MaxWire = 1
    MaxShares = 1
    MaxBasket = 1
INVARIANTS
    OwnPrecomputedShareVerifies
