SPECIFICATION Talk
CONSTANTS
    Ip4 <- MCIp4
    Ip6 <- MCIp6
    Numbers = {"0", "1", "2", "3", "7", "8", "10", "20", "34", "96", "101", "150", "2001",
               "4000", "8000", "48000", "70000", "5000000000",
               "9223372036854775808"}
    Bits <- MCBits
    Chars <- MCChars
    Words <- MCWords
    OfferParams <- MCParams
    Foreign <- MCForeign
    PayloadType <- MCPayloadType
INVARIANTS TextsReadBack Understanding
CHECK_DEADLOCK FALSE
