CONSTANTS
    Characters <- AllCharacters
    Texts <- AllTexts
    Names <- AllNames
    Error = Error
SPECIFICATION Spec
INVARIANTS
    CompleteNamesSurvive
    NamesAreToldApart
    NothingElseIsDropped
CHECK_DEADLOCK FALSE
