SPECIFICATION HostsSpec
CONSTANTS
    Roms <- MCRoms
    Containers <- MCContainers
    Fuses <- MCFuses
    Cap = 8
    Blocks = 2
    Programs <- MCPrograms
INVARIANTS
    FindsFwsec
    LoadedIsSigned
    GivenBack
    ReportIsTrue
CHECK_DEADLOCK FALSE
