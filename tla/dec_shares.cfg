SPECIFICATION Spec
CONSTANTS
    Fr <- F17
    Zero = 0
    One = 1
    Add <- F17Add
    Neg <- F17Neg
    Mul <- F17Mul
    Inv <- F17Inv
    MaxDomain = 8
    DomainSize <- F17DomainSize
    DomainElement <- F17DomainElement
    Rituals <- Ritual23
    Polys <- OneLine
    Messages = {"m"}
    Aads = {"p"}
    Scalars = {2}
    Keys = {1}
    Damages = {}
    Faults = {"share", "checksum", "both", "point"}
    Variants = {"simple", "precomputed", "contexts"}
    Factors <- FourFactors
    Selections <- FewSelections
    MaxSent = 1
    MaxWire = 1
    MaxShares = 3
    MaxBasket = 3
INVARIANTS
    TypeOK EnoughVerifiedSharesDecrypt TooFewSharesNeverDecrypt SelectionDecrypts PrefixSelectionDecrypts BatchCheckVouches VerifiedShareIsCorrect OwnShareVerifies
