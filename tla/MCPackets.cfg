SPECIFICATION MCSpec
CONSTANTS
    Frames <- MCFrames
    MaxPayload = 100
    H264Frames <- MCH264Frames
    H264MaxPayload = 4
INVARIANTS
    ReceiverHasTheFrame MarkerEndsTheFrame PacketSizes
    H264FrameArrives
