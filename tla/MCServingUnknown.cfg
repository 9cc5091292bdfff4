SPECIFICATION Spec
CONSTANTS
  Texts <- MCTexts
  Included <- MCIncluded
  Glob <- MCGlob
  BadWords <- MCBad
  MaxDepth = 2
  MaxServers = 3
  MaxLocations = 4
  Names <- MCNames
  Spell <- MCSpell
  Regexes <- MCRegexes
  UserFiles <- MCUserFiles
  Served <- ServingTexts
  Requests <- MCRequests
  Zone <- MCZone
  Rates = {"rate=1r/s"}
  Bytes <- MCBytes
  Decoded <- MCDecoded
  Disk <- MCDisk
  Outside <- MCOutside
  Internal = {"http://in"}
  TextTypes = {"x", "i", "backend"}
  ErrorPage = 2
  U64 = 1000
  MaxSize = 3
  MaxChanges = 1
  Messages <- MCMessages
  Cap = 8
  MaxHead = 3
  Chunk = 2
  RecordWidth = 4
  Buffer = 3
INVARIANT UnknownIsSkipped
