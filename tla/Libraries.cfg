CONSTANTS
  Byte <- TwoBytes
  Junk = Junk
  InitSize = 2
  MaxWrite = 3
  MaxTotal = 5
  ReallocFails = FALSE
  UnixPath = 4
  Infos <- MCInfos
  Texts <- MCTexts
  Found <- MCFound
  MaxAdds = 3
  Behind = 2
  Clients = {t, p}
  Talkers = {t}
  BufSize = 2
  Window = 2
  Headers <- MCHeaders
SPECIFICATION LibrariesSpec
CHECK_DEADLOCK FALSE
INVARIANTS MemorySafe RoundTrip NoHeaderFromAPart ChecksumHolds HeaderAligned ArrayHolds EchoConserved InStep
PROPERTIES OperationsAgree IpTold EchoComesBack TalkerGoesOn
