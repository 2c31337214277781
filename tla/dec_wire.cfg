SPECIFICATION Spec
CONSTANTS
    Fr <- F5
    Zero = 0
    One = 1
    Add <- F5Add
    Neg <- F5Neg
    Mul <- F5Mul
    Inv <- F5Inv
    MaxDomain = 4
    DomainSize <- F5DomainSize
    DomainElement <- F5DomainElement
    Rituals <- Ritual23
    Polys <- OneLine
    Messages = {"m"}
    Aads = {"p", "q"}
    Scalars = {1, 2}
    Keys = {}
    Damages = {"recombine", "garble", "identity"}
    Faults = {}
    Variants = {"simple"}
    Factors <- FourFactors
    Selections <- NoSelections
    MaxSent = 2
    MaxWire = 3
    MaxShares = 2
    MaxBasket = 2
INVARIANTS
    DecryptsOnlyWhatWasEncrypted SharesOnlyForEncrypted ThresholdMatchesPrivateKey
