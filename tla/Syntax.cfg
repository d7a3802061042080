SPECIFICATION MCSpec
INVARIANTS NothingDropped ReadAsWritten TokensStandAlone InterpolationExact RecoveryIsLocal AstOfTellsApart
PROPERTY EveryTurnReads
