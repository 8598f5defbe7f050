CONSTANTS
  Servers = {"answering"}
  Files = {"ends_in_object"}
  Reply <- MCReply
  Openable <- MCOpenable
  Responsive <- MCResponsive
  MaxAsks = 1
  MaxKills = 0
SPECIFICATION Spec
INVARIANT ErrorIsTheServers
CHECK_DEADLOCK FALSE
