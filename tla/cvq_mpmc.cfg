\* two producers and two consumers; set_capacity may raise the capacity
SPECIFICATION Spec
CONSTANTS
    Producers = {p1, p2}
    Consumers = {c1, c2}
    MultiProducer = TRUE
    MultiConsumer = TRUE
    QueueBased = TRUE
    StopSupport = FALSE
    Capacity0 = 1
    Capacities <- OneOrTwo
    CanGrow = TRUE
    Quota = 3
    MaxControl = 1
INVARIANTS NotAllAsleep PerProducerOrder
PROPERTIES ImplementsAwaitQueue Drains
