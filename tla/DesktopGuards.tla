----------------------------- MODULE DesktopGuards -----------------------------
(***************************************************************************)
(* The clipboard of the desktop client under both of its guards: the tasks *)
(* that empty it after a copy, and the thread that removes images while    *)
(* the screenshot guard is on.                                             *)
(***************************************************************************)
EXTENDS DesktopClipboard

VARIABLES on, handle, affinity, setter, keeper, watcher

Guard == INSTANCE ScreenshotGuard

guardVars == <<on, handle, affinity, setter, keeper, watcher>>
vars == <<clipboardVars, guardVars>>

Init == ClipboardInit /\ Guard!GuardInit

Next ==
    \/ ClipboardNext /\ UNCHANGED guardVars
    \/ Guard!GuardNext /\ UNCHANGED <<now, copies>>

Spec == Init /\ [][Next]_vars

\* Time passes, the runtime runs a task that is due, the threads of the guard
\* run, they do not find the clipboard taken for ever, and the calls that shut a
\* live window do not fail for ever.
Fairness ==
    /\ WF_vars(Tick /\ UNCHANGED guardVars)
    /\ \A c \in Copies : WF_vars(Wipe(c) /\ UNCHANGED guardVars)
    /\ WF_vars(Guard!KeeperWakes /\ UNCHANGED <<now, copies>>)
    /\ SF_vars(Guard!KeeperSucceeds /\ UNCHANGED <<now, copies>>)
    /\ WF_vars(Guard!WatcherLooks /\ UNCHANGED <<now, copies>>)
    /\ SF_vars(Guard!WatcherClears /\ UNCHANGED <<now, copies>>)

FairSpec == Spec /\ Fairness

-----------------------------------------------------------------------------
(* Properties *)

TypeOK == ClipboardTypeOK /\ Guard!GuardTypeOK

GuardReturns == Guard!GuardReturns

ImagesGo == Guard!ImagesGo

=============================================================================
