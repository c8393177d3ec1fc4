SPECIFICATION Journey
CONSTANTS
    Ip4 <- MCIp4
    Ip6 <- MCIp6
    Numbers = {"0", "1", "10", "60", "70", "length", "100", "180", "200", "302", "486", "299",
               "2001", "4242", "5060", "5080"}
    Bits <- MCBits
    Requests <- MCRequests
    Links <- MCLinks
    Cookies = {"z9hG4bKnew", "z9hG4bKown", "z9hG4bKup"}
    Branch = "z9hG4bKnew"
    Codes = {"100", "180", "200", "302", "486", "299"}
    ServerHost <- MCServerHost
    OurContact <- MCOurContact
    Layouts = {"own", "short", "list", "spaced"}
INVARIANTS ReadBack KeysMeet RightPlaces
CHECK_DEADLOCK FALSE
