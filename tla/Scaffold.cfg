SPECIFICATION Spec
CONSTANTS
    Inits = {i1, i2}
    EnvExample = env_example
    Env = env
    User = user
    None = none
    UserFiles = {notes}
    Main = main
    Template <- ShortTemplate
INVARIANT
    TypeOK
PROPERTIES
    SuccessIsComplete
    FailureRestores
    OthersFilesSurvive
