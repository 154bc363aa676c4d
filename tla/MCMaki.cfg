\* maki_t::run() up to three times, the second agent an AgentX subagent.
CONSTANTS
    Agents = {a1, a2, a3}
    Subagents = {a2}
    MaxRefs = 2
    NoAgent = NoAgent
SPECIFICATION Spec
INVARIANTS SingleSession LibraryUpWhileServing
PROPERTIES DestroyEnds ImplementsService
