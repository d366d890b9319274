SPECIFICATION RefreshSpec
CONSTANTS
  MaxTee = 2
  MaxFaults = 0
  MaxReruns = 0
  Commands <- MCCommands
  Resumes <- MCResumes
  Attestable <- MCNotInProduction
PROPERTIES NeverPausesLive
