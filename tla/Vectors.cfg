SPECIFICATION Spec
CONSTANT Script <- TestScript
INVARIANT HashesMatch
