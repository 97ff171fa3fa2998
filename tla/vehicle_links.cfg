\* A vehicle on a USB, a radio and a satellite link and one that shares the
\* radio; links and vehicles come and go within one another's timers, and the
\* first is calibrated or asked for its logs.
CONSTANTS
    NoVehicle   = NoVehicle
    NoLink      = NoLink
    a           = a
    b           = b
    usb         = usb
    radio       = radio
    satellite   = satellite
    Vehicles    <- Both
    Links       <- AllLinks
    Usb         <- UsbLinks
    HighLatency <- Satellites
    Id          <- OneObjectEach
    HeardOn     <- TheirLinks
    MaxTimers   = 1
    MaxClosing  = 1
    MaxDangling = 1
    QuickLinks  = FALSE
    BusyVehicles <- OnlyTheFirst

SPECIFICATION FairSpec

INVARIANTS
    TypeOK
    ActiveIsAlive
    ActiveWhenAny

PROPERTIES
    UsedLinksStayOpen
    PrimaryFollowsLinks
    NoNeedlessSwitch
    LossIsNoticed
