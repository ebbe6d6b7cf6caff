SPECIFICATION Spec
CONSTANTS
  Kinds = {"Deployment"}
  MaxDesired = 1
  MaxEdits = 1
INVARIANT OKMeansFinished
