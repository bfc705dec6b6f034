CONSTANT N = 2
SPECIFICATION Spec
INVARIANT ConnOrError
