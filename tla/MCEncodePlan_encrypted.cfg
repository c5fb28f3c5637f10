SPECIFICATION EncodeSpec
CONSTANT Asked <- MCAsked
INVARIANT EncryptedLadderMatches
CHECK_DEADLOCK FALSE
