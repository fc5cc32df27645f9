---------------------------- MODULE CliClipboard ----------------------------
(***************************************************************************)
(* The CLI client of SecureGuard copies a decrypted login or password to   *)
(* the clipboard for 30 seconds (ClipboardService.copyTemporarily).  All   *)
(* of the client runs in one Dart isolate: a timer can only fire while its *)
(* event loop is free, which it is while the code awaits a child process   *)
(* or a call, or after the main loop has ended, and which it is not while  *)
(* Tui.run or a modal waits in the synchronous readKey.                    *)
(*                                                                         *)
(* A secret is known by the number of the copy that put it there.  Time is *)
(* abstract: a timer elapses at some moment after it was set.  Nothing     *)
(* calls ClipboardService.clear, which is left out.                        *)
(***************************************************************************)
EXTENDS Naturals

CONSTANTS
    None,       \* an empty clipboard, no timer
    MaxCopies,  \* bound on copies
    MaxFaults   \* bound on failing commands and kills

ASSUME CopiesAssumption == MaxCopies \in Nat /\ MaxFaults \in Nat
ASSUME NoneAssumption ==
    None \notin Nat \cup [gen: Nat, copy: 1..MaxCopies, elapsed: BOOLEAN]

VARIABLES
    tui,        \* what the isolate does
    clip,       \* the copy whose secret is on the clipboard, or None
    copies,     \* copies begun
    landed,     \* the command that copies has taken effect
    generation, \* _generation
    timer,      \* _clearTimer
    wipes,      \* copies whose timer callback is writing '' right now
    lost,       \* history: copies that threw, or whose wipe failed or was killed
    faults      \* failures so far

vars == <<tui, clip, copies, landed, generation, timer, wipes, lost, faults>>

-----------------------------------------------------------------------------

Copies == 1..MaxCopies

Timer == [gen: Nat, copy: Copies, elapsed: BOOLEAN]

\* A timer belongs to a generation and a copy that have begun.
TypeOK ==
    /\ tui \in {"reading", "copying", "calling", "quit", "exited"}
    /\ copies \in 0..MaxCopies
    /\ clip \in 1..copies \cup {None}
    /\ landed \in BOOLEAN
    /\ generation \in 0..copies
    /\ timer \in Timer \cup {None}
    /\ timer # None => timer.gen \in 1..generation /\ timer.copy \in 1..copies
    /\ wipes \subseteq 1..copies
    /\ lost \subseteq 1..copies
    /\ faults \in 0..MaxFaults

Init ==
    /\ tui = "reading"
    /\ clip = None
    /\ copies = 0
    /\ landed = FALSE
    /\ generation = 0
    /\ timer = None
    /\ wipes = {}
    /\ lost = {}
    /\ faults = 0

Fault == faults < MaxFaults /\ faults' = faults + 1

-----------------------------------------------------------------------------
(* Keys: each ends the synchronous read *)

\* The user picks the login or the password in the dialog of _decryptPassword.
CopyTemporarily ==
    /\ tui = "reading"
    /\ copies < MaxCopies
    /\ tui' = "copying"
    /\ copies' = copies + 1
    /\ landed' = FALSE
    /\ UNCHANGED <<clip, generation, timer, wipes, lost, faults>>

\* The handler of the key awaits a call to the server.
Call ==
    /\ tui = "reading"
    /\ tui' = "calling"
    /\ UNCHANGED <<clip, copies, landed, generation, timer, wipes, lost, faults>>

Answer ==
    /\ tui = "calling"
    /\ tui' = "reading"
    /\ UNCHANGED <<clip, copies, landed, generation, timer, wipes, lost, faults>>

\* Ctrl-C, or Escape where there is nothing to go back to.
Quit ==
    /\ tui = "reading"
    /\ tui' = "quit"
    /\ UNCHANGED <<clip, copies, landed, generation, timer, wipes, lost, faults>>

\* The isolate ends when no timer and no child process is left.
Exit ==
    /\ tui = "quit"
    /\ timer = None
    /\ wipes = {}
    /\ tui' = "exited"
    /\ UNCHANGED <<clip, copies, landed, generation, timer, wipes, lost, faults>>

-----------------------------------------------------------------------------
(* copyTemporarily *)

\* The child process sets the clipboard.
CopyLands ==
    /\ tui = "copying"
    /\ ~landed
    /\ clip' = copies
    /\ landed' = TRUE
    /\ UNCHANGED <<tui, copies, generation, timer, wipes, lost, faults>>

\* Mutant: the generation is captured before it is incremented.
StaleTimer == [gen |-> generation, copy |-> copies, elapsed |-> FALSE]

NewTimer == [gen |-> generation + 1, copy |-> copies, elapsed |-> FALSE]

\* The command exits with 0: only now is the old timer cancelled.
CopyReturns ==
    /\ tui = "copying"
    /\ landed
    /\ generation' = generation + 1
    /\ timer' = NewTimer
    /\ tui' = "reading"
    /\ UNCHANGED <<clip, copies, landed, wipes, lost, faults>>

\* A command fails, whether or not it has set the clipboard.  The next
\* candidate is tried, or none is left and copyTemporarily throws.
CopyFails ==
    /\ tui = "copying"
    /\ Fault
    /\ \/ landed' = FALSE /\ UNCHANGED <<tui, lost>>
       \/ tui' = "reading" /\ lost' = lost \cup {copies} /\ UNCHANGED landed
    /\ UNCHANGED <<clip, copies, generation, timer, wipes>>

-----------------------------------------------------------------------------
(* The timer *)

TimerElapses ==
    /\ timer # None
    /\ ~timer.elapsed
    /\ timer' = [timer EXCEPT !.elapsed = TRUE]
    /\ UNCHANGED <<tui, clip, copies, landed, generation, wipes, lost, faults>>

LoopIsFree == tui \in {"copying", "calling", "quit"}

\* Mutant: the test of the callback is inverted.
Superseded(gen) == gen # generation

Current(gen) == gen = generation

TimerFires ==
    /\ LoopIsFree
    /\ timer # None
    /\ timer.elapsed
    /\ timer' = None
    /\ wipes' = IF Current(timer.gen) THEN wipes \cup {timer.copy} ELSE wipes
    /\ UNCHANGED <<tui, clip, copies, landed, generation, lost, faults>>

\* The child process of the callback is not bound to the event loop.
WipeLands(c) ==
    /\ c \in wipes
    /\ clip' = None
    /\ wipes' = wipes \ {c}
    /\ UNCHANGED <<tui, copies, landed, generation, timer, lost, faults>>

\* The errors of a wipe are ignored.
WipeFails(c) ==
    /\ c \in wipes
    /\ Fault
    /\ clip' \in {clip, None}
    /\ wipes' \in {wipes, wipes \ {c}}
    /\ lost' = IF c \in wipes' THEN lost ELSE lost \cup {c}
    /\ UNCHANGED <<tui, copies, landed, generation, timer>>

\* The terminal is closed or the process is killed.
Killed ==
    /\ tui # "exited"
    /\ Fault
    /\ tui' = "exited"
    /\ timer' = None
    /\ wipes' = {}
    /\ lost' = 1..copies
    /\ UNCHANGED <<clip, copies, landed, generation>>

-----------------------------------------------------------------------------

Key == CopyTemporarily \/ Call \/ Quit

Next ==
    \/ Key \/ Answer \/ Exit
    \/ CopyLands \/ CopyReturns \/ CopyFails
    \/ TimerElapses \/ TimerFires
    \/ \E c \in Copies : WipeLands(c) \/ WipeFails(c)
    \/ Killed

Spec == Init /\ [][Next]_vars

\* Time passes, commands terminate, and the event queue is first in first
\* out, so that an elapsed timer is not passed over for ever by a loop that
\* gets free again and again.  Nothing obliges the user to press a key.
FairSpec ==
    /\ Spec
    /\ WF_vars(TimerElapses)
    /\ SF_vars(TimerFires)
    /\ WF_vars(CopyLands) /\ WF_vars(CopyReturns)
    /\ \A c \in Copies : WF_vars(WipeLands(c))

-----------------------------------------------------------------------------
(* Properties *)

\* A secret on the clipboard is always somebody's to remove: its copy has not
\* returned yet, or its own timer is set, or its own callback is at work.  A
\* later copy that cancels or overtakes that timer never leaves it behind.
SecretIsGuarded ==
    clip # None /\ clip \notin lost =>
        \/ tui = "copying" /\ clip = copies
        \/ timer # None /\ timer.copy = clip
        \/ clip \in wipes

Gone(c) == clip # c \/ c \in lost

\* A copied secret leaves the clipboard if the event loop keeps getting its
\* turn, be it because the user goes on working or because he has quit: a
\* process that has left its main loop still waits for the timer.
WipedIfLoopRuns ==
    []<>(tui # "reading") => \A c \in Copies : (clip = c) ~> Gone(c)

\* README.md:80: the value is copied to the clipboard "for 30s", whatever
\* the user does next.
WipedUnattended == \A c \in Copies : (clip = c) ~> Gone(c)

=============================================================================
