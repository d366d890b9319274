SPECIFICATION RegSpec
CONSTANTS
  MaxTee = 2
  MaxFaults = 2
  MaxReruns = 1
  Commands <- MCCommands
  Resumes <- MCEither
  Attestable <- MCAnyKnown
INVARIANTS RegTypeOK FileMatchesChain FreshRunUsesOwnChallenge
PROPERTIES FreshRunPromotesItsMachine
CHECK_DEADLOCK FALSE
