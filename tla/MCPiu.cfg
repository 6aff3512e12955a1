SPECIFICATION FairSpec
CONSTANTS
  i1 = i1
  Icons <- MCIcons
  Lcd = Lcd
  Bad = Bad
  SamplePolls = 2
INVARIANTS ReleaseNotLost
PROPERTIES ConversionKeepsEvents ScanComesBack SamplesGoOn
