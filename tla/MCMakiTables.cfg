\* maki_t::run() once, as main() does, and the destructor.
CONSTANTS
    Agents = {a1}
    Subagents = {}
    MaxRefs = 2
    NoAgent = NoAgent
SPECIFICATION Spec
INVARIANTS ThreadEndsBeforeTables
