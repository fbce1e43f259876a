SPECIFICATION Spec
CONSTANTS
    Kinds = {"websocket", "quic", "obfuscated"}
    Writers = {"loop"}
    Sizes = {0, 5}
    MaxPackets = 2
    HeaderSize = 2
    ReadBuf = 5
    KeyLens = {4, 5, 32}
    MaxGarbled = 1
INVARIANTS TypeOK WebSocketReliable ObfsFirstPacket
PROPERTIES ImplementsPacketChannel ImplementsPacketQueue
CHECK_DEADLOCK FALSE
