CONSTANTS
  Inputs <- MCInputs
  MaxGeoms <- MCMaxGeoms
SPECIFICATION SuiteSpec
\* A program ends with its report, or with a signal.
CHECK_DEADLOCK FALSE
INVARIANTS EveryPair Released
PROPERTIES ReportsIfSuitable
