\* Twice the layers that one read can strip, and every core.
CONSTANT MaxQuotes = 12
SPECIFICATION Spec
INVARIANTS ReadsBackJSON SurvivesIffTransparent
PROPERTY OnlyQuotesAreLost
CHECK_DEADLOCK FALSE
