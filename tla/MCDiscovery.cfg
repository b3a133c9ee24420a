\* Two calls, two directory requests, one tool, two hosts.
SPECIFICATION Spec
CONSTANTS
  c1 = c1
  c2 = c2
  o1 = o1
  o2 = o2
  NoCall = NoCall
  NoHost = "none"
  Host = "public"
  Localhost = "localhost"
  Hosts = {"public", "localhost"}
  Calls = {c1, c2}
  Operations = {o1, o2}
  MaxConnectionsPerHost = 1
PROPERTIES NeverOlder CallsReturn
CHECK_DEADLOCK FALSE
