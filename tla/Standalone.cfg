CONSTANTS
    Patterns <- MCPatterns
    Texts <- MCTexts
    Threads = {t1, t2}
    MaxExactRange = 3
    Rules <- MCRules
    MaxRules = 3
    Printable = {1, 2}
    NoLabel = NoLabel
    Queries <- MCQueries
    MaxExact = 3
    Words = {1, 2, 3}
    Vocabularies <- MCVocabularies
    IdLimits <- Limits
    Nothing = Nothing
SPECIFICATION Spec
SYMMETRY Symmetry
INVARIANTS
    TablesConsistent
    CacheCurrent
    LanguageExact
    TargetsKnown
PROPERTY IdsKeepMeaning
