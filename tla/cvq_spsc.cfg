\* one producer and one consumer: notifications on the edges only
SPECIFICATION Spec
CONSTANTS
    Producers = {p1}
    Consumers = {c1}
    MultiProducer = FALSE
    MultiConsumer = FALSE
    QueueBased = TRUE
    StopSupport = TRUE
    Capacity0 = 2
    Capacities <- OneOrTwo
    CanGrow = FALSE
    Quota = 5
    MaxControl = 3
INVARIANTS TypeOK NoStrandedConsumer NoStrandedProducer
PROPERTIES ImplementsAwaitQueue CloseReleases StopReleases
