\* Two syncs find no marker and unpack at the same time.
SPECIFICATION RsyncSpec
CONSTANTS
  Calls = {c1, c2}
  Copies = 2
  Heads = {1, 2}
  Faults = {}
  Exe = 1
  MaxHung = 0
INVARIANT Installed
CHECK_DEADLOCK FALSE
