SPECIFICATION Spec
CONSTANTS
    Fr <- F5
    Zero = 0
    One = 1
    Add <- F5Add
    Neg <- F5Neg
    Mul <- F5Mul
    Inv <- F5Inv
    MaxDomain = 4
    DomainSize <- F5DomainSize
    DomainElement <- F5DomainElement
    Cohort <- Cohort23
    Phi <- Line
    Tails <- OneTail
    Departing = {1}
    Incoming = {1}
    Blinding = {2}
    Producers = {0, 1}
    Faulty = {0}
    UpdateFaults = {"update", "commitment", "root", "missing", "degree"}
    BatonFaults = {"scaled"}
    MaxUpdates = 2
    MaxBatons = 1
    MaxRounds = 2
INVARIANTS
    TypeOK OwnShareFollowsUpdates MixedGenerationsNeverDecrypt SoundUpdatesNeverPanic VariantsAgree
PROPERTIES
    HandoverInstallsCommittedShare CohortKeepsTheKey
CHECK_DEADLOCK FALSE
