SPECIFICATION FairSpec
CONSTANTS
  console_tail = console_tail
  dice_link = dice_link
  tab1 = tab1
  NoBadge = NoBadge
  Threads = {console_tail, dice_link}
  Clients = {tab1}
  Badges = {"console"}
  Fields = {"fw_info"}
  BadgeState = {"open", "absent"}
  ConsoleThreads = {console_tail}
  StatusThreads = {dice_link}
  Owner <- MCOwner
  MaxLen <- MCMaxLen
  SnapLen <- MCSnapLen
  MaxClock = 4
INVARIANTS TypeOK NothingSkipped ReportsFollowPanel BadgeHistory LogMatchesTimeline
PROPERTIES FeedSpec EventuallyShown EventuallyLogged
