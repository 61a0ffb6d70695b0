\* Every split of the connections of MCFcgiReader over reads of up to 5 units.
\* The reader stops at a connection given up and at one that sends no more; a
\* print returns; formats of one and of three items; a streambuf of two units over
\* inputs of three and outputs of five.  Requests are answered through buffers of
\* four units, with records padded to two: a stream fills its buffer with two units
\* and closes in one write or in several; the process ends.
SPECIFICATION LibrarySpec
CHECK_DEADLOCK FALSE
CONSTANTS
  HeadLen = 2
  BeginLen = 2
  BuffLen = 5
  VecLen = 2
  Ids = {1, 2}
  Connections <- MCConnections
  MaxRead = 2
  Faults = {"eof", "read", "write"}
  Formats <- MCFormats
  BufSize = 2
  InputLen = 3
  MaxUnits = 5
  MaxFailures = 2
  MaxAttach = 2
  HeaderLen = 2
  EndLen = 2
  OutBuffLen = 4
  Align = 2
  MaxAccepts = 2
  MaxOutput = 3
  MaxFaults = 1
  WriteSizes = {1, 3}
  Statuses = {1}
INVARIANTS
  RecordsFollowed
  ContentDelivered
  EnvironmentComplete
  PrintfSound
  StreambufSound
  ChannelSound
  AnsweredInFull
  NothingLeft
