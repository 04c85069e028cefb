SPECIFICATION Spec
CONSTANT Schemes = {"s3"}
INVARIANT UpdatesAsReference
CHECK_DEADLOCK FALSE
