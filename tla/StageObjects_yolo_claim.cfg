\* The documented refusal of end-to-end exports.
SPECIFICATION Spec
CONSTANTS
    TargetWidth = 4
    TargetHeight = 3
    SourceSizes = {0, 1, 2, 3, 5, 9}
    Layouts <- SmallLayouts
    Scores = {0, 1, 2}
    FakeInputs = {0, 8, 16, 24, 32}
    FakeClasses = {0, 1, 2}
    HeadAnchors = {300}
    HeadClasses = {1, 2}
    InputSide = 2
    Boxes <- RowOfBoxes
    NmsScores = {1, 2}
    Classes = {0, 1}
    MaxIn = 3
    NmsOptions <- SmallNmsOptions
    Shapes <- SmallShapes
    Costs = {0, 3, 4, 5}
    CostLimit = 4
    Forbidden = 100
    low_threshold = 1
    high_threshold = 3
    new_track_threshold = 4
    max_time_lost = 1
    TrackScores = {1, 2, 3, 4}
    MaxDetections = 2
    MaxFrames = 4
    MaxResets = 1
    kSubBucketBits = 2
    ValueBits = 4
    SampleValues = {1, 6, 17}
    MaxSamples = 3
    Recorders = 2
    Period = 2
    FrameCount = 2
    VideoLength = 2
    MaxReads = 5
    MaxTime = 8
    trail_length = 2
    ForgetAfter = 1
    TrackIds = {1, 2}
    MaxSequence = 3
    MaxStarts = 2
INVARIANTS OnlyRawHeads
\* A tracker that has used up its frames and resets has nothing left to do.
CHECK_DEADLOCK FALSE
