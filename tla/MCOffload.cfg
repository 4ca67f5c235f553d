SPECIFICATION AllSpec
CONSTANTS
  MaxStarts = 2
  MaxInputs = 3
INVARIANTS Accounting StyleMatches
PROPERTIES NothingOverwritten BodiesRun PacedFrames LoopsEnd
