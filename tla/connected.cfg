SPECIFICATION FairSpec
CHECK_DEADLOCK FALSE
CONSTANTS
  ListBlock = 2
  NotifyBlock = 2
  Room = 4
  NameSize = 2
  Peers = {"ola", "jan"}
  Images <- MCImages
  Lists <- MCLists
  ContactLists <- MCContactLists
  Groups <- MCGroups
  Results <- MCResults
  Notices = {"SHORT", "NOTIFY_REPLY", "NOTIFY_REPLY_SHORT"}
  Uins = {3}
  Clocks <- MCClocks
  Seqs = {0}
  MaxCalls = 2
  MaxUnasked = 1
INVARIANTS
  TypeOK
  ImageIntact
  NamesAccounted
  ExportDone
  ImportWhole
  ContactsKnown
  ConferenceKnown
  ResultsIntact
PROPERTIES
  RequestsAnswered
