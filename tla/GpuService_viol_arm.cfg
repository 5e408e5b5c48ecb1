SPECIFICATION SpecCores

CONSTANTS
  Programs <- MCPrograms
  Keys = 1

PROPERTIES
  ArmedProgramStarts
