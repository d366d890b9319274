SPECIFICATION RegSpec
CONSTANTS
  MaxTee = 2
  MaxFaults = 1
  MaxReruns = 0
  Commands <- MCRegisterAfresh
  Resumes <- MCResume
  Attestable <- MCAnyKnown
PROPERTIES SuccessMeansProduction
CHECK_DEADLOCK FALSE
