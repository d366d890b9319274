SPECIFICATION RefreshFairSpec
CONSTANTS
  MaxTee = 3
  MaxFaults = 1
  MaxReruns = 1
  Commands <- MCCommands
  Resumes <- MCResumes
  Attestable <- MCNotInProduction
PROPERTIES OnlyLiveRemains Heals
