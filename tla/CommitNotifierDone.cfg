CONSTANTS
    Capacity = 2
    Numbers = 5
SPECIFICATION PeerSpec
PROPERTY DoneCloses
