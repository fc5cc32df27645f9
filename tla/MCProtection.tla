---------------------------- MODULE MCProtection ----------------------------
\* Three stubs, the second one that of the hiding call.  In the file the names
\* are in another order than the stubs, and the code is in a second section.
EXTENDS ProtectionGuards

MCFile == [image |-> TRUE,
           exports |-> <<[name |-> 3, ordinal |-> 2], [name |-> 2, ordinal |-> 1],
                         [name |-> 1, ordinal |-> 3]>>,
           addresses |-> <<21, 22, 20>>,
           sections |-> <<[start |-> 10, size |-> 5, raw |-> 2],
                          [start |-> 20, size |-> 5, raw |-> 8]>>,
           code |-> [place \in 8 .. 10 |-> <<1, 2, 3>>[place - 7]]]

MCWatched == <<1, 2>>

MCHookings == {<<"clean", "clean", "clean">>, <<"clean", "hooked", "late">>,
               <<"hooked", "late", "clean">>, <<"hooked", "hooked", "hooked">>}
\* The threads share nothing but the latch, the stubs and the handles.
MCMayStart == {{"watchdog"}, {"syscall", "patch"}, {"integrity", "startup"}}

=============================================================================
