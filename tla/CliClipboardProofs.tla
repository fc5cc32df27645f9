------------------------- MODULE CliClipboardProofs -------------------------
(***************************************************************************)
(* No secret copied by the CLI client is left on the clipboard without     *)
(* something that will remove it, for any number of copies and failures.   *)
(***************************************************************************)
EXTENDS CliClipboard, TLAPS

\* A timer that is set is never of an older generation: the copy that begins
\* a generation cancels the timer of the one before in the same turn of the
\* event loop.  The test in the callback thus never fails.
TimerIsCurrent == timer # None => timer.gen = generation

\* When a copy returns, what it cancels the timer of is not on the clipboard.
CopyPrevails ==
    tui = "copying" => /\ copies \in Copies
                       /\ generation < copies
                       /\ landed => clip \in {copies, None}

ClipboardInv == TypeOK /\ TimerIsCurrent /\ CopyPrevails /\ SecretIsGuarded

\* The invariant holds initially: the clipboard holds no secret yet.
LEMMA InitClipboard == Init => ClipboardInv
<1> SUFFICES ASSUME Init PROVE ClipboardInv
    OBVIOUS
<1> USE CopiesAssumption DEF Init
<1>1. TypeOK
  <2>1. tui \in {"reading", "copying", "calling", "quit", "exited"} /\ landed \in BOOLEAN
        OBVIOUS
  <2>2. copies \in 0..MaxCopies /\ generation \in 0..copies /\ faults \in 0..MaxFaults
        OBVIOUS
  <2>3. clip \in 1..copies \cup {None} /\ wipes \subseteq 1..copies /\ lost \subseteq 1..copies
        OBVIOUS
  <2>4. timer \in Timer \cup {None} /\ (timer # None => timer.gen \in 1..generation /\ timer.copy \in 1..copies)
        OBVIOUS
  <2> QED BY <2>1, <2>2, <2>3, <2>4 DEF TypeOK
<1>2. TimerIsCurrent /\ CopyPrevails /\ SecretIsGuarded
      BY DEF TimerIsCurrent, CopyPrevails, SecretIsGuarded
<1> QED
    BY <1>1, <1>2 DEF ClipboardInv

\* A timer just set is one of the generation just begun, and is not None.
LEMMA NewTimerIsTimer ==
    ASSUME TypeOK, CopyPrevails, tui = "copying"
    PROVE  /\ NewTimer \in Timer
           /\ NewTimer # None
           /\ NewTimer.gen = generation + 1
           /\ NewTimer.copy = copies
<1>1. NewTimer = [gen |-> generation + 1, copy |-> copies, elapsed |-> FALSE]
      BY DEF NewTimer
<1>2. generation + 1 \in Nat /\ copies \in 1..MaxCopies
      BY CopiesAssumption DEF TypeOK, CopyPrevails, Copies
<1>3. NewTimer \in [gen: Nat, copy: 1..MaxCopies, elapsed: BOOLEAN]
      BY <1>1, <1>2
<1> QED
    BY <1>1, <1>3, NoneAssumption DEF Timer, Copies

\* Every step keeps the invariant.
LEMMA NextClipboard == ClipboardInv /\ [Next]_vars => ClipboardInv'
<1> SUFFICES ASSUME ClipboardInv, [Next]_vars PROVE ClipboardInv'
    OBVIOUS
<1> USE CopiesAssumption, NoneAssumption
<1> USE DEF ClipboardInv, TypeOK, TimerIsCurrent, CopyPrevails, SecretIsGuarded, Copies, Timer, Fault
<1>1. CASE CopyTemporarily
  <2>1. /\ copies' = copies + 1 /\ copies' \in 1..MaxCopies
        /\ clip' = clip /\ wipes' = wipes /\ lost' = lost /\ timer' = timer
        /\ generation' = generation /\ faults' = faults
        /\ tui' = "copying" /\ landed' = FALSE /\ tui = "reading"
        BY <1>1 DEF CopyTemporarily
  <2>2. 1..copies \subseteq 1..copies' /\ generation < copies' /\ copies' \in 0..MaxCopies
        BY <2>1
  <2>3. /\ clip' \in 1..copies' \cup {None} /\ wipes' \subseteq 1..copies'
        /\ lost' \subseteq 1..copies' /\ generation' \in 0..copies'
        BY <2>1, <2>2
  <2>4. TypeOK'
        BY <2>1, <2>2, <2>3
  <2>5. TimerIsCurrent' /\ CopyPrevails'
        BY <2>1, <2>2
  <2>6. SecretIsGuarded'
        BY <2>1
  <2> QED BY <2>4, <2>5, <2>6
<1>2. CASE Call \/ Answer \/ Quit \/ Exit
      BY <1>2 DEF Call, Answer, Quit, Exit
<1>3. CASE CopyLands
      BY <1>3 DEF CopyLands
<1>4. CASE CopyReturns
      BY <1>4, NewTimerIsTimer DEF CopyReturns
<1>5. CASE CopyFails
  <2>1. /\ copies \in 1..copies /\ faults' \in 0..MaxFaults
        /\ UNCHANGED <<clip, copies, generation, timer, wipes>>
        BY <1>5 DEF CopyFails
  <2>2. CASE landed' = FALSE /\ UNCHANGED <<tui, lost>>
    <3>1. TypeOK'
          BY <2>1, <2>2
    <3>2. TimerIsCurrent' /\ CopyPrevails'
          BY <2>1, <2>2
    <3>3. SecretIsGuarded'
          BY <2>1, <2>2
    <3> QED BY <3>1, <3>2, <3>3
  <2>3. CASE tui' = "reading" /\ lost' = lost \cup {copies} /\ UNCHANGED landed
    <3>1. TypeOK'
          BY <2>1, <2>3
    <3>2. TimerIsCurrent' /\ CopyPrevails'
          BY <2>1, <2>3
    <3>3. SecretIsGuarded'
          BY <2>1, <2>3
    <3> QED BY <3>1, <3>2, <3>3
  <2> QED BY <1>5, <2>2, <2>3 DEF CopyFails
<1>6. CASE TimerElapses
      BY <1>6 DEF TimerElapses
<1>7. CASE TimerFires
  <2>1. /\ timer # None /\ timer \in Timer /\ timer.gen = generation
        /\ timer' = None /\ wipes' = wipes \cup {timer.copy}
        /\ UNCHANGED <<tui, clip, copies, landed, generation, lost, faults>>
        BY <1>7 DEF TimerFires, Current
  <2>2. timer.copy \in 1..copies
        BY <2>1
  <2>3. TypeOK'
        BY <2>1, <2>2
  <2>4. TimerIsCurrent' /\ CopyPrevails' /\ SecretIsGuarded'
        BY <2>1
  <2> QED BY <2>3, <2>4
<1>8. ASSUME NEW c \in Copies, WipeLands(c) PROVE ClipboardInv'
      BY <1>8 DEF WipeLands
<1>9. ASSUME NEW c \in Copies, WipeFails(c) PROVE ClipboardInv'
      BY <1>9 DEF WipeFails
<1>10. CASE Killed
      BY <1>10 DEF Killed
<1>11. CASE UNCHANGED vars
      BY <1>11 DEF vars
<1> QED
    BY <1>1, <1>2, <1>3, <1>4, <1>5, <1>6, <1>7, <1>8, <1>9, <1>10, <1>11 DEF Next, Key

\* The inductive invariant.
THEOREM ClipboardInvariant == Spec => []ClipboardInv
BY InitClipboard, NextClipboard, PTL DEF Spec

\* The variables keep their types, and a timer belongs to a generation begun.
THEOREM ClipboardTypeCorrect == Spec => []TypeOK
<1>1. ClipboardInv => TypeOK BY DEF ClipboardInv
<1> QED BY <1>1, ClipboardInvariant, PTL

\* Whatever is still on the clipboard has a copy, a timer or a callback of its
\* own that will remove it, unless that very one failed or was killed.
THEOREM NoSecretIsOrphaned == Spec => []SecretIsGuarded
<1>1. ClipboardInv => SecretIsGuarded BY DEF ClipboardInv
<1> QED BY <1>1, ClipboardInvariant, PTL

=============================================================================
