--------------------------- MODULE MCDesktopVault ---------------------------
EXTENDS DesktopVault, TLC

\* Safety only: no step prefers a user or a task.
Symmetry == Permutations(Users) \cup Permutations(Slots)

\* What the commands of desktop_sessions and its properties look at: not the
\* entries of a vault, nor the one that is added to it or deleted from it.
Seen(r) == IF r = None THEN None ELSE [f \in DOMAIN r \ {"entry"} |-> r[f]]

KeyOf(a) == IF account[a] = None THEN None ELSE [account[a] EXCEPT !.vault = {}]

WithoutEntries ==
    <<app, mutex, pc, [s \in Slots |-> <<Seen(job[s]), Seen(made[s])>>], reply, orphaned, ui,
      [a \in DOMAIN account |-> KeyOf(a)]>>

=============================================================================
