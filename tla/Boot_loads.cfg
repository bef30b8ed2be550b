SPECIFICATION Spec
CONSTANT Sizes <- AllSizes
INVARIANTS TypeOK LoaderComplete
PROPERTIES CodeIntact Boots
