CONSTANTS
    Owners = {"a", "b"}
    Viewers = {"b", "c"}
SPECIFICATION SharingSpec
INVARIANT PrivateIsOwnerOnly
CHECK_DEADLOCK FALSE
