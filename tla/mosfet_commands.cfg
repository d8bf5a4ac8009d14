SPECIFICATION FairSpec
CONSTANT MaxCommands = 2
INVARIANTS
    TypeOK
    SwitchesObeyed
    ShownIsTruth
PROPERTY ShownConverges
