SPECIFICATION Spec
CONSTANTS
    Fr <- F17
    Zero = 0
    One = 1
    Add <- F17Add
    Neg <- F17Neg
    Mul <- F17Mul
    Inv <- F17Inv
    MaxDomain = 8
    DomainSize <- F17DomainSize
    DomainElement <- F17DomainElement
    Points <- SomePoints
    Values = {0, 1, 3}
    MaxLen = 5
    MaxDivisor = 2
    MaxLength = 8
    MaxToeplitz = 2
INVARIANTS
    DivisionExact InverseExact EvaluationExact InterpolationExact LagrangeExact CombinationExact ToeplitzExact
