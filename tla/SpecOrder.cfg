SPECIFICATION Spec
CONSTANT Script <- TestScript
INVARIANT SpecifiedOrder
