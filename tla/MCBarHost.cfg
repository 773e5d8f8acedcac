SPECIFICATION HostSpec
CONSTANTS
    Mishaps = {"save", "service", "kill", "settings", "pkill"}
    Pids = {2, 3, 4}
    Self = 2
    Apps = {"bar", "dock", "editor", "player"}
    SelfApp = "bar"
    Critical = {"bar", "dock"}
    Image <- Programs
    Limit = 2
    Sizes = {0, 2}
    Mega = 2
INVARIANT HostTypeOK
INVARIANT ChoiceHonoured
INVARIANT RemovedAndStopped
INVARIANT QuitsWhatWasTicked
INVARIANT NeverCritical
