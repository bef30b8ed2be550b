\* not one of the passing runs: it shows what the property is refuted by
SPECIFICATION Spec
CONSTANT Sizes <- SmallSizes
INVARIANT RunsLoader
