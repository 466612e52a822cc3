SPECIFICATION Spec
CONSTANTS
  Msgs = {1, 2}
  Attachments <- MCAttachments
  Size <- MCSize
  MaxDisk = 2
  Ttl = 1
  Hold = 2
  Workers = {w1, w2}
  Senders = {"alert"}
  MaxFaults = 1
PROPERTY HeldNeverEvicted
