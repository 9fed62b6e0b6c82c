\* two producers and one consumer: the queue numbers its calls
SPECIFICATION Spec
CONSTANTS
    Producers = {p1, p2}
    Consumers = {c1}
    Capacity = 2
    CanThrow = FALSE
    PushQuota = 3
    PopQuota = 6
PROPERTIES ImplementsTicketQueue CallsReturn
