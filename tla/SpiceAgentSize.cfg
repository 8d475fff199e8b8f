SPECIFICATION AgentSpec
CONSTANTS
    Texts = {t1}
    NoText = NoText
    Sizes = {1, 2}
    MaxAgentEvents = 3
INVARIANT AgentGetsTheSize
CHECK_DEADLOCK FALSE
