CONSTANTS
    None = None
    Extractions <- SmallExtractions
    Refinements <- SmallRefinements
    SearchResults <- SmallSearchResults
    Rankings <- SmallRankings
    MoreOptions = MoreOptions
    RefineMenu = RefineMenu
    MaxTurns = 4
SPECIFICATION Spec
INVARIANTS TapConfirmsTappedGift
