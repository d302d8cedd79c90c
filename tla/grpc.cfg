SPECIFICATION Spec
CONSTANTS
    Workers = {w1, w2}
    Prefills = {w1}
    Requests = {r1, r2}
    r1 = r1
    r2 = r2
    w2 = w2
    Scenarios <- MCScenarios
    ToolNames = {f, g}
    Builtin = python
    None = None
    FailureThreshold = 1
    SuccessThreshold = 1
    HealthFailures = 1
    HealthSuccesses = 1
    MaxRetries = 2
    MaxTokens = 2
    MaxHarmonyTokens = 4
CHECK_DEADLOCK FALSE
INVARIANTS GuardsExact StreamsSettleRight StreamGrammar HarmonyStreamed
PROPERTIES AllSettle
