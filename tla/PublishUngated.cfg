SPECIFICATION PublishSpec
CONSTANT
    MaxFlakes = 1
INVARIANT
    NothingPublishesUntilEverythingBuilds
