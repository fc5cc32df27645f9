-------------------------- MODULE MCDesktopEntries --------------------------
EXTENDS DesktopEntries, TLC

\* Two services, as the texts that the server gives for them.
MCServices == {Text("one"), Text("two")}

=============================================================================
