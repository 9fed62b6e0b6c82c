\* set_capacity may raise the capacity of an spsc queue
SPECIFICATION Spec
CONSTANTS
    Producers = {p1}
    Consumers = {c1}
    MultiProducer = FALSE
    MultiConsumer = FALSE
    QueueBased = TRUE
    StopSupport = FALSE
    Capacity0 = 1
    Capacities <- OneOrTwo
    CanGrow = TRUE
    Quota = 3
    MaxControl = 1
INVARIANTS NotAllAsleep
