--------------------------- MODULE MCDesktopGuards ---------------------------
EXTENDS DesktopGuards, TLC

=============================================================================
