SPECIFICATION Spec
CONSTANTS
    payload_size_basic = 4
    payload_size_extended = 6
    m_max_message_size = 8
    SizeT = 64
    max_header_size = 60
    m_body_bytes_max = 2
    MaxRead = 5
    MaxSends = 3
    MaxOdd = 2
    NoMsg = NoMsg
    Scripts <- AllScripts
INVARIANTS
    TypeOK
    ReceivesWhatWasSent
    HandshakeAsAWhole
PROPERTIES
    FramesSpec
    TextIsAtWorstCutShort
CHECK_DEADLOCK FALSE
