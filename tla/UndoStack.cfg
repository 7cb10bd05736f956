SPECIFICATION Spec
CONSTANTS
    Letter = {"a"}
    Input <- TypedOrPasted
    File <- EmptyOrNot
    MaxLength = 2
    MaxMade = 3
    MaxNesting = 1
INVARIANTS
    TypeOK
    UnmodifiedIsSaved
    ModifierLeadsToFile
PROPERTIES
    FollowsHistory
