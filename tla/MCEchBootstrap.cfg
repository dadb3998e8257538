SPECIFICATION FairSpec
CONSTANTS
    b1 = b1
    b2 = b2
    Boots <- MCBoots
    Hosts = {"one", "two"}
    Host <- MCHost
    Servers = 2
    Ports = {p1}
    Answers <- MCAnswers
    MaxSkips = 1
    None = None

    
    
PROPERTIES
    BootstrapReturns
CHECK_DEADLOCK FALSE
