SPECIFICATION FairSpec
CONSTANTS
  Versions = {"thv1", "thv2", "thv3"}
  Copies = {0, 1, 2}
  ArraySize <- MCArraySize
  Outcomes = {TRUE, FALSE}
  MaxProcs = 4
  MaxFailures = 1
  CommandMax = 5
  MsecMax = 2010
INVARIANTS TypeOK CommandsSurvive StartTogether WaitedForAll TextComesApart TimesReadRight
PROPERTIES LauncherEnds
