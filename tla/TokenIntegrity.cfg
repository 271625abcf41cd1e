SPECIFICATION SmoothSpec
CONSTANTS
    o1 = o1
    Operators = {o1}
    Campaigns <- MCCampaigns
CHECK_DEADLOCK FALSE
PROPERTY
    ScriptsComplete
