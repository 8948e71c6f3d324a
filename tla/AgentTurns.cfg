CONSTANTS
    None = None
    Extractions <- SmallExtractions
    Refinements <- SmallRefinements
    SearchResults <- SmallSearchResults
    Rankings <- SmallRankings
    MoreOptions = MoreOptions
    RefineMenu = RefineMenu
    MaxTurns = 4
SPECIFICATION FairSpec
INVARIANTS TypeOK ShortlistIsReal OneSelectionPerShortlist
PROPERTIES AnswersAreKept RequirementsSurviveRefinement EveryTurnEnds
