SPECIFICATION Spec
CONSTANTS
    own = own
    twin = twin
    dai = dai
    weth = weth
    me = me
    other = other
    Own = own
    Others = {twin}
    Output <- DaiAndEth
    FillsOf <- Fills
    Outputs <- TwoDai
    Window = 1
    HostOffset = 1
    MaxBlock = 3
    Callers = {me, other}
    Me = me
    Tokens = {dai, weth}
    Seeds = {weth}
    ChainOf <- TokenChains
    Inputs <- DaiAndWeth
INVARIANTS
    TypeOK
    ShownFillCovers
    FillFound
    SufficiencySound
PROPERTIES
    SymbolsSettle
    ImplementsStatusCheck
CHECK_DEADLOCK FALSE
