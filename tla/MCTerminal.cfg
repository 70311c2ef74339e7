SPECIFICATION TerminalSpec
CONSTANTS
    VGA_TEXT_ROWS = 3
    VGA_TEXT_COLUMNS = 3
    VGA_TEXT_TAB_LENGTH = 2
    SHELL_COMMAND_LENGTH_MAXIMUM = 6
    SHELL_ARGC_MAXIMUM = 2
    SHELL_ARGV_MAXIMUM = 3
    Typed = {"a", " ", "tab"}
    ClearCommand <- MCClearCommand
    Shown <- MCShown
INVARIANTS
    EchoMatchesInput
    ParsedAsWords
PROPERTY
    BackspaceStopsAtStart
