\* Up to four exceptions of five severities, every checkbox setting.
CONSTANTS
    Severities <- MCSeverities
    AlphaRank <- MCAlphaRank
    MaxRows = 4
SPECIFICATION Spec
INVARIANT TypeOK
INVARIANT GridMatchesExceptions
