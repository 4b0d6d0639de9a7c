SPECIFICATION Spec
CONSTANT Nodes <- MCNodes
INVARIANT BagOK
INVARIANT BoundedWait
PROPERTY ImplementsPromise
