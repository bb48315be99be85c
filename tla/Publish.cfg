SPECIFICATION PublishFairSpec
CONSTANT
    MaxFlakes = 2
INVARIANTS
    PublishTypeOK
    NoCreatorTripsOverTheOther
PROPERTY
    RerunningHeals
