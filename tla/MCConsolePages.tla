--------------------------- MODULE MCConsolePages ---------------------------
EXTENDS ConsolePages
CONSTANTS x1, x2

MCPageNames == DOMAIN Pages
MCSubjects == {x1, x2}
=============================================================================
