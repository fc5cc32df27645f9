---------------------------- MODULE ScreenshotGuard ----------------------------
(***************************************************************************)
(* The screenshot guard of the desktop client on Windows                   *)
(* (screenshot_guard.rs): the flag PROTECTION_ON, the command that sets it *)
(* (set_screenshot_guard_enabled in main.rs), and two threads, one that    *)
(* keeps the window excluded from capture and one that removes images from *)
(* the clipboard.  No lock is held: each access is a step.                 *)
(*                                                                         *)
(* The handle of the window is taken once, when the client starts.  For a  *)
(* window that is made anew later it is stale, and nothing takes another.  *)
(***************************************************************************)

CONSTANT Empty      \* an empty clipboard

VARIABLES
    authenticated,  \* AppState.authenticated
    running,        \* is the process alive?
    clip,           \* what is on the clipboard
    on,             \* PROTECTION_ON
    handle,         \* WINDOW_HWND: "none", or a "live" window or a "stale" one
    affinity,       \* the display affinity of the client's window: "none" or "shut"
    setter,         \* the command set_screenshot_guard_enabled
    keeper,         \* monitor_affinity: "rest" or "apply"
    watcher         \* monitor_clipboard: "rest" or "clear"

flag == <<on, setter>>
guardVars == <<on, handle, affinity, setter, keeper, watcher>>
environment == <<authenticated, running, clip>>

Idle == [pc |-> "idle", enabled |-> FALSE]

\* Mutant: CF_TEXT, 1, for CF_BITMAP, 2.
HasText == clip.kind = "text"

HasImage == clip.kind = "image"

\* Gives up at once when the handle names no window.  The calls may fail.
SetDisplayAffinity(wanted) ==
    affinity' \in {affinity} \cup (IF handle = "live" THEN {wanted} ELSE {})

\* WDA_EXCLUDEFROMCAPTURE or else WDA_MONITOR, whichever the window then has.
ApplyDisplayAffinity == SetDisplayAffinity("shut")

DisableDisplayAffinity == SetDisplayAffinity("none")

GuardInit ==
    /\ on = FALSE /\ affinity = "none"
    /\ handle \in {"none", "live"}   \* "none": the window had no handle, no thread starts
    /\ setter = Idle /\ keeper = "rest" /\ watcher = "rest"

-----------------------------------------------------------------------------
(* set_screenshot_guard_enabled: the page has one at a time under way *)

AskForGuard(enabled) ==
    /\ running /\ authenticated /\ setter.pc = "idle"
    /\ setter' = [pc |-> "asked", enabled |-> enabled]
    /\ UNCHANGED <<environment, on, handle, affinity, keeper, watcher>>

StoreFlag ==
    /\ running /\ setter.pc = "asked"
    /\ IF authenticated
       THEN on' = setter.enabled /\ setter' = [setter EXCEPT !.pc = "apply"]
       ELSE setter' = Idle /\ on' = on
    /\ UNCHANGED <<environment, handle, affinity, keeper, watcher>>

ApplyFlag ==
    /\ running /\ setter.pc = "apply"
    /\ IF setter.enabled THEN ApplyDisplayAffinity ELSE DisableDisplayAffinity
    /\ setter' = Idle
    /\ UNCHANGED <<environment, on, handle, keeper, watcher>>

-----------------------------------------------------------------------------
(* monitor_affinity *)

\* Mutant: the thread acts when the guard is off.
KeeperWakesWhenOff ==
    /\ running /\ handle # "none" /\ keeper = "rest" /\ ~on
    /\ keeper' = "apply"
    /\ UNCHANGED <<environment, flag, handle, affinity, watcher>>

KeeperWakes ==
    /\ running /\ handle # "none" /\ keeper = "rest" /\ on
    /\ keeper' = "apply"
    /\ UNCHANGED <<environment, flag, handle, affinity, watcher>>

\* The flag is not read again: it may be off by now.
KeeperApplies ==
    /\ running /\ keeper = "apply"
    /\ ApplyDisplayAffinity
    /\ keeper' = "rest"
    /\ UNCHANGED <<environment, flag, handle, watcher>>

\* The calls do not fail.
KeeperSucceeds == KeeperApplies /\ affinity' = "shut"

\* The window loses its affinity, and is still the same window.
AffinityIsLost ==
    /\ running /\ affinity # "none"
    /\ affinity' = "none"
    /\ UNCHANGED <<environment, flag, handle, keeper, watcher>>

\* The window is made anew: nothing shuts the new one, and the handle is stale.
WindowIsMadeAnew ==
    /\ running /\ handle = "live"
    /\ handle' = "stale" /\ affinity' = "none"
    /\ UNCHANGED <<environment, flag, keeper, watcher>>

-----------------------------------------------------------------------------
(* monitor_clipboard *)

WatcherLooks ==
    /\ running /\ handle # "none" /\ watcher = "rest" /\ on /\ HasImage
    /\ watcher' = "clear"
    /\ UNCHANGED <<environment, flag, handle, affinity, keeper>>

\* What it removes may be another content than the one it saw.
WatcherClears ==
    /\ running /\ watcher = "clear"
    /\ clip' = Empty
    /\ watcher' = "rest"
    /\ UNCHANGED <<authenticated, running, flag, handle, affinity, keeper>>

\* Another program has the clipboard open.
WatcherFails ==
    /\ running /\ watcher = "clear"
    /\ watcher' = "rest"
    /\ UNCHANGED <<environment, flag, handle, affinity, keeper>>

-----------------------------------------------------------------------------
(* The whole *)

GuardNext ==
    \/ \E enabled \in BOOLEAN : AskForGuard(enabled)
    \/ StoreFlag \/ ApplyFlag
    \/ KeeperWakes \/ KeeperApplies \/ AffinityIsLost \/ WindowIsMadeAnew
    \/ WatcherLooks \/ WatcherClears \/ WatcherFails

-----------------------------------------------------------------------------
(* Properties *)

GuardTypeOK ==
    /\ on \in BOOLEAN
    /\ handle \in {"none", "live", "stale"}
    /\ affinity \in {"none", "shut"}
    /\ setter \in [pc : {"idle", "asked", "apply"}, enabled : BOOLEAN]
    /\ keeper \in {"rest", "apply"} /\ watcher \in {"rest", "clear"}

\* While the guard is on, the window the client was started with gets the
\* protection it lacks, whatever the command does meanwhile, as long as it
\* exists and setting it does not fail for ever.  For a window that replaces it
\* the code promises nothing: its handle is stale.
GuardReturns ==
    running /\ on /\ handle = "live"
        ~> affinity = "shut" \/ ~on \/ ~running \/ handle = "stale"

\* While the guard is on and its threads run, an image does not stay on the
\* clipboard.
ImagesGo ==
    running /\ on /\ handle # "none" /\ clip.kind = "image"
        ~> clip.kind # "image" \/ ~on \/ ~running

=============================================================================
