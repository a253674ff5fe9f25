SPECIFICATION FairPresence
CONSTANTS
  Absent = Absent
  Devices = {d1}
  Operations = {"revoke", "reset", "enable", "provision", "delete"}
  MaxInbox = 2
  MaxReplays = 1
PROPERTY BarredGoesOffline
PROPERTY SilentGoesOffline
PROPERTY TalkingIsOnline
