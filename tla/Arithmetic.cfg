CONSTANT Parts = {"float", "status", "integer", "emitted", "memory", "vector"}
SPECIFICATION MCSpec
INVARIANTS FloatIsModel IntegerIsModel VectorIsModel
PROPERTY ExceptionsAreKept
CHECK_DEADLOCK FALSE
