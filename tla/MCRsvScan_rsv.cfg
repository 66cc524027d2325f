SPECIFICATION Spec
CONSTANTS
    Jobs <- MCJobs
    HeadLen = 1
    AudLen = 1
    BufSize = 24
    HeadScan = 12
    PacketSizes = {2, 3}
    DefaultPacket = 2
    MaxPackets = 3
    MinVideo = 4
    Margin = 1
    FrameCounts = {2, 3}
    DefaultFrames = 3
    AudioPerFrame = 1
    AnyLength = 7
    Packet = 2
    Units = 2
    UnitSizes = {2, 3}
    TrackCounts = {1, 2}
INVARIANTS TypeOK NoByteTwice LosesOnlyLeads RecoversWholeGroups
