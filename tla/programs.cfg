SPECIFICATION Spec
CONSTANTS
  Programs <- MCPrograms
  Source <- MCSource
  Inputs <- MCInputs
INVARIANTS Computes OptimizedComputes ErrorsFound NeverStops StoresInFrame SolversAgree PassesKeep
PROPERTIES CallsReturn Ends
