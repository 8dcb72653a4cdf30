CONSTANTS
    JsonStub = JsonStub
    GoHeap = GoHeap
    None = None
    Openers = {o1, o2}
    Registrars = {"r1", "r2"}
    Plugin <- MCPlugin
    InitParsers <- MCInitParsers
    Dumps <- MCDumps
    ShortReads <- MCShortReads
SPECIFICATION Spec
INVARIANTS
    TypeOK
PROPERTIES
    RegistryRefinesAtomic
