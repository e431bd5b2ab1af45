SPECIFICATION Spec
CONSTANTS
    Devices <- MCDevices
    CsToClk <- MCCsToClk
    ClkToCs <- MCClkToCs
    CsToCs <- MCCsToCs
    Delays <- MCDelays
    Lens <- MCLens
    Cap = 3
PROPERTY ReselectWaits
