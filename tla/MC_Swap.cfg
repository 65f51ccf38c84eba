\* Two symmetric allocator clients beside the process vm; two pages and one
\* swap slot, so the device fills and the one slot is reused.
CONSTANTS
    c1 = c1
    c2 = c2
    vm = vm
    VM = vm
    NFrames = 6
    MaxRun = 2
    Clients <- MCClients
    Usable <- MCUsable
    Reserved <- MCReserved
    VPages = {1, 2}
    NSlots = 1
SYMMETRY Symmetry
SPECIFICATION SSpec
INVARIANTS
    SwapTypeOK
    ContentPreserved
    SlotsAccounted
    FramesAccounted
PROPERTY ImplementsFrameAlloc
