CONSTANTS
  Texts <- MCTexts
  Templates <- MCTemplates
  Expansions <- MCExpansions
  AsciiTpl <- MCAsciiTpl
  AsciiChars <- MCAsciiChars
  Nul = Nul
  Jobs <- MCJobs
SPECIFICATION Spec
INVARIANTS
  OdometerInv
  CharsAreMeant
PROPERTIES
  ReplacementFits
  ProbesInOrder
  Termination
