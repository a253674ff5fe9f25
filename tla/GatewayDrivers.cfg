SPECIFICATION MCSpec
CONSTANTS
    ChannelCount = 2
    Requests <- MCLevels
    Period <- MCPeriod
    MaxFaults = 1
    Unlit = Unlit
    Outputs = {1}
    Percents <- MCLevels
    Temperatures <- MCTemperatures
    FifoSize = 3
    BufferSize = 3
    Silence = 2
    Resend = 1
    Nothing = Nothing
    Integration = 2
    ReadTimeout = 8
    MaxHangs = 1
INVARIANT TemperatureWasSent
PROPERTY ImplementsArcPower
PROPERTY LampsFollow
PROPERTY SamplesKeepComing
