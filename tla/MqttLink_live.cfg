SPECIFICATION FairSpec
CONSTANTS
  Handles = {h1, h2}
  NULL = NULL
  Senders = {"boot"}
  MaxAttempts = 2
  MaxRefusals = 2
PROPERTIES BootEnds RefusedDeviceWiped
