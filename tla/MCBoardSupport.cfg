SPECIFICATION BoardSpec
CONSTANTS
  ALT_MAX_FD = 6
  ALT_STDIN = "/dev/jtag_uart_0"
  ALT_STDOUT = "/dev/jtag_uart_0"
  ALT_STDERR = "/dev/jtag_uart_0"
  FileSystems = {"fs"}
  Constructors = 1
  Modes = {"w"}
  Flagged = {0, 3, 4, 5}
  Alarm = {"a", "b", "c"}
  Requests = {0, 1, 2}
  Intervals = {0, 1, 3}
  TICKS = 4
  ALT_US = 6
  RATE = 3
  PER_US = 4
  WORD = 32
  Times <- MCTimes
  Naps <- MCNaps
  Pcs = {1, 2}
  HEAP = 5
  SLAB = 3
  BUCKET = 2
  Texts = {2, 3}
  LEVELS = 2
  MAXCALLS = 3
  Values = {1, 254}
  MAXACCESS = 2
  BITS = 8
  ECHO_LEN = 4
  INTERVAL = 1
  DEPTH = 2
  Numbers = {0, 8, 200}
  Characters <- MCCharacters
  Writes <- MCWrites
  Widths = {0, 4}
  MAXMESSAGES = 1
  MAXINTERRUPTS = 1
INVARIANTS
  LockOfTwo
  Punctual
  TimeTold
  ProfileSound
  PortsReached
  PackingExact
  TextExact
PROPERTIES
  LockRespected
CHECK_DEADLOCK FALSE
