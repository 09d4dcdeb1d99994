SPECIFICATION Spec
CONSTANTS
    Form <- EveryForm
    PortNumber <- Numbered
    MinSecret = 2
    Word <- Words
    Numeral <- Numerals
    Depth <- Depths
    Bracketed <- InBrackets
    Interfaces <- Addresses
    LinkLocal = {"fe80::1"}
    Outbound = "10.0.0.5"
    Specs <- Quoted
    Messages <- ManyMessages
    Listings <- ManyListings
    Requests <- ManyRequests
CHECK_DEADLOCK FALSE
INVARIANT ProxyAsWritten
