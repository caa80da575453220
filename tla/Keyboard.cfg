\* A ring of three slots holds two characters; three are accepted, so that head
\* and tail come round.
SPECIFICATION LiveSpec
CONSTANTS
    KB_BUFFER_SIZE = 3
    Lens = {0, 1, 2}
    MaxTyped = 3
PROPERTIES
    ImplementsBoundedFifo
    EventuallyRead
