CONSTANTS
    Posts = {"d1", "d2", "d3", "d4"}
    Bodies <- MixedBodies
    Numbers = {"new", "eager", "old"}
    Returning = {"old"}
    Sequential = {"new"}
    None = "none"
SPECIFICATION FairSpec
INVARIANTS TypeOK SettledNumbersKeepOneSession ResumesWhereItLeftOff AnsweredBeforeSaved
PROPERTIES EveryPostEnds
