\* The table of the README against the methods of the proto.
SPECIFICATION Spec
INVARIANT CallReachesOwnMethod
