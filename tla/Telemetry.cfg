\* Two goroutines initialise tracing or metrics up to three times, with one
\* exporter that cannot be made, and shut down three times.
SPECIFICATION Spec
CONSTANTS
    a = a
    b = b
    Goroutines = {a, b}
    Shared = {"exporter", "meterProvider"}
    MaxExporters = 3
    MaxFailures = 1
    MaxShutdowns = 3
INVARIANTS
    ExportersAccounted
    ShutdownStops
SYMMETRY Pair
\* Every call may have been made.
CHECK_DEADLOCK FALSE
