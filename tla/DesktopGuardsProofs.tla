-------------------------- MODULE DesktopGuardsProofs --------------------------
(***************************************************************************)
(* The clipboard of the desktop client, for any number of copies, timeouts *)
(* and limits.                                                             *)
(*                                                                         *)
(* A secret comes onto the clipboard only together with its task, a task   *)
(* ends only together with what is on the clipboard then, unless it fails, *)
(* and the thread of the screenshot guard only ever empties: so the type   *)
(* invariant and SecretHasTimer are inductive together.                    *)
(***************************************************************************)
EXTENDS DesktopGuards, TLAPS

\* What a copy was asked for with lies within the limits.
TimeoutsSet ==
    \A c \in Copies :
        copies[c].pc \in {"asked", "sleeping"} => copies[c].timeout \in MinTimeout .. MaxTimeout

ClipboardInv == ClipboardTypeOK /\ SecretHasTimer /\ TimeoutsSet

IInv == ClipboardInv /\ Guard!GuardTypeOK

-----------------------------------------------------------------------------
(* Timeouts *)

\* sanitize_clipboard_timeout_seconds gives a timeout within the limits, also for
\* zero and for hours.
LEMMA TimeoutInLimits ==
    ASSUME NEW requested \in Requested
    PROVE  SanitizeClipboardTimeoutSeconds(requested) \in MinTimeout .. MaxTimeout
BY DesktopClipboardAssumption DEF SanitizeClipboardTimeoutSeconds

-----------------------------------------------------------------------------
(* The invariant *)

LEMMA InitIInv == Init => IInv
<1> SUFFICES ASSUME Init PROVE IInv
  OBVIOUS
<1>1. Guard!GuardTypeOK
  BY DEF Init, Guard!GuardInit, Guard!GuardTypeOK, Guard!Idle
<1>2. ClipboardTypeOK
  BY DesktopClipboardAssumption DEF Init, ClipboardInit, ClipboardTypeOK
<1>3. SecretHasTimer /\ TimeoutsSet
  BY DEF Init, ClipboardInit, SecretHasTimer, TimeoutsSet, Empty, Foreign
<1> QED
  BY <1>1, <1>2, <1>3 DEF IInv, ClipboardInv

\* The content of the clipboard, by its kind.
LEMMA Contents ==
    ASSUME ClipboardTypeOK
    PROVE  clip.kind = "secret" => clip.of \in Copies /\ clip = Secret(clip.of)
BY DEF ClipboardTypeOK, Empty, Foreign, Secret

\* The commands and their tasks.
LEMMA TaskKeeps ==
    ASSUME NEW c \in Copies, Task(c), ClipboardInv
    PROVE  ClipboardInv'
<1> USE DEF ClipboardInv
<1>1. ASSUME NEW requested \in Requested, AskForCopy(c, requested)
      PROVE  ClipboardInv'
  <2>1. ClipboardTypeOK'
    BY <1>1, TimeoutInLimits DEF AskForCopy, ClipboardTypeOK
  <2>2. SecretHasTimer' /\ TimeoutsSet'
    BY <1>1, TimeoutInLimits, Contents DEF AskForCopy, ClipboardTypeOK, SecretHasTimer, TimeoutsSet
  <2> QED
    BY <2>1, <2>2
<1>2. CASE WriteSecret(c)
  <2>1. ClipboardTypeOK'
    BY <1>2 DEF WriteSecret, ClipboardTypeOK
  <2>2. SecretHasTimer' /\ TimeoutsSet'
    BY <1>2 DEF WriteSecret, ClipboardTypeOK, SecretHasTimer, TimeoutsSet, Secret
  <2> QED
    BY <2>1, <2>2
<1>3. CASE CopyFails(c)
  <2>1. ClipboardTypeOK'
    BY <1>3 DEF CopyFails, ClipboardTypeOK
  <2>2. SecretHasTimer' /\ TimeoutsSet'
    BY <1>3, Contents DEF CopyFails, ClipboardTypeOK, SecretHasTimer, TimeoutsSet
  <2> QED
    BY <2>1, <2>2
<1>4. CASE Wipe(c)
  <2> PICK gone \in BOOLEAN :
          /\ clip' = IF gone THEN Empty ELSE clip
          /\ copies' = [copies EXCEPT ![c].pc = IF gone THEN "over" ELSE "failed"]
    BY <1>4 DEF Wipe
  <2> UNCHANGED <<now, running, authenticated>>
    BY <1>4 DEF Wipe
  <2>1. ClipboardTypeOK'
    BY DEF ClipboardTypeOK
  <2>2. SecretHasTimer' /\ TimeoutsSet'
    BY Contents DEF ClipboardTypeOK, SecretHasTimer, TimeoutsSet, Empty
  <2> QED
    BY <2>1, <2>2
<1> QED
  BY <1>1, <1>2, <1>3, <1>4 DEF Task

\* The other programs, the user and the clock.
LEMMA AroundKeeps ==
    ASSUME OtherProgramCopies \/ SignInOrOut \/ Quit \/ Tick, ClipboardInv
    PROVE  ClipboardInv'
<1> USE DEF ClipboardInv
<1>1. CASE OtherProgramCopies
  <2>1. clip' \in Foreign /\ UNCHANGED <<now, running, authenticated, copies>>
    BY <1>1 DEF OtherProgramCopies
  <2>2. clip'.kind # "secret"
    BY <2>1 DEF Foreign
  <2>3. ClipboardTypeOK'
    BY <2>1 DEF ClipboardTypeOK
  <2> QED
    BY <2>1, <2>2, <2>3 DEF SecretHasTimer, TimeoutsSet
<1>2. CASE SignInOrOut
  BY <1>2 DEF SignInOrOut, ClipboardTypeOK, SecretHasTimer, TimeoutsSet
<1>3. CASE Quit
  BY <1>3, ZenonT(40) DEF Quit, ClipboardTypeOK, SecretHasTimer, TimeoutsSet
<1>4. CASE Tick
  BY <1>4, Contents, DesktopClipboardAssumption DEF Tick, ClipboardTypeOK, SecretHasTimer, TimeoutsSet
<1> QED
  BY <1>1, <1>2, <1>3, <1>4

\* The threads of the screenshot guard change the clipboard only by emptying it.
LEMMA GuardKeeps ==
    ASSUME Guard!GuardNext, UNCHANGED <<now, copies>>, IInv
    PROVE  IInv'
<1>1. (UNCHANGED clip \/ clip' = Empty) /\ UNCHANGED <<authenticated, running>>
  BY DEF Guard!GuardNext, Guard!AskForGuard, Guard!StoreFlag, Guard!ApplyFlag, Guard!KeeperWakes,
         Guard!KeeperApplies, Guard!AffinityIsLost, Guard!WindowIsMadeAnew, Guard!WatcherLooks,
         Guard!WatcherClears, Guard!WatcherFails, Guard!environment
<1>2. ClipboardInv'
  BY <1>1 DEF IInv, ClipboardInv, ClipboardTypeOK, SecretHasTimer, TimeoutsSet, Empty
<1>3. ASSUME NEW enabled \in BOOLEAN, Guard!AskForGuard(enabled) PROVE Guard!GuardTypeOK'
  BY <1>3 DEF IInv, Guard!GuardTypeOK, Guard!AskForGuard
<1>4. CASE Guard!StoreFlag
  <2>1. setter' = [setter EXCEPT !.pc = "apply"] \/ setter' = Guard!Idle
    BY <1>4 DEF Guard!StoreFlag
  <2> DEFINE Setters == [pc : {"idle", "asked", "apply"}, enabled : BOOLEAN]
  <2>7. setter \in Setters
    BY DEF IInv, Guard!GuardTypeOK
  <2>8. [setter EXCEPT !.pc = "apply"] \in Setters
    BY <2>7
  <2>9. Guard!Idle \in Setters
    BY DEF Guard!Idle
  <2>2. setter' \in Setters
    BY <2>1, <2>8, <2>9, Zenon
  <2>3. on' = setter.enabled \/ on' = on
    BY <1>4 DEF Guard!StoreFlag
  <2>4. setter.enabled \in BOOLEAN /\ on \in BOOLEAN
    BY DEF IInv, Guard!GuardTypeOK
  <2>5. on' \in BOOLEAN
    BY <2>3, <2>4, Zenon
  <2>6. UNCHANGED <<handle, affinity, keeper, watcher>>
    BY <1>4 DEF Guard!StoreFlag
  <2> QED
    BY <1>2, <2>2, <2>5, <2>6 DEF IInv, Guard!GuardTypeOK
<1>5. CASE Guard!ApplyFlag
  BY <1>2, <1>5 DEF IInv, Guard!GuardTypeOK, Guard!ApplyFlag, Guard!Idle,
              Guard!ApplyDisplayAffinity, Guard!DisableDisplayAffinity, Guard!SetDisplayAffinity
<1>6. CASE \/ Guard!KeeperWakes \/ Guard!KeeperApplies
           \/ Guard!AffinityIsLost \/ Guard!WindowIsMadeAnew
  BY <1>2, <1>6 DEF IInv, Guard!GuardTypeOK, Guard!KeeperWakes, Guard!KeeperApplies,
              Guard!AffinityIsLost, Guard!WindowIsMadeAnew, Guard!ApplyDisplayAffinity,
              Guard!SetDisplayAffinity, Guard!flag
<1>7. CASE Guard!WatcherLooks \/ Guard!WatcherClears \/ Guard!WatcherFails
  BY <1>2, <1>7 DEF IInv, Guard!GuardTypeOK, Guard!WatcherLooks, Guard!WatcherClears,
              Guard!WatcherFails, Guard!flag
<1> QED
  BY <1>2, <1>3, <1>4, <1>5, <1>6, <1>7 DEF IInv, Guard!GuardNext

LEMMA NextIInv ==
    ASSUME IInv, [Next]_vars
    PROVE  IInv'
<1>1. CASE ClipboardNext /\ UNCHANGED guardVars
  <2>1. ClipboardInv'
    BY <1>1, TaskKeeps, AroundKeeps DEF ClipboardNext, IInv
  <2>2. Guard!GuardTypeOK'
    BY <1>1 DEF IInv, Guard!GuardTypeOK, guardVars
  <2> QED
    BY <2>1, <2>2 DEF IInv
<1>2. CASE Guard!GuardNext /\ UNCHANGED <<now, copies>>
  BY <1>2, GuardKeeps
<1>3. CASE UNCHANGED vars
  BY <1>3 DEF IInv, ClipboardInv, ClipboardTypeOK, SecretHasTimer, TimeoutsSet,
              Guard!GuardTypeOK, vars, clipboardVars, guardVars
<1> QED
  BY <1>1, <1>2, <1>3 DEF Next

\* The inductive invariant of the clipboard and the guard together.
THEOREM GuardsInvariant == Spec => []IInv
<1> QED
  BY InitIInv, NextIInv, PTL DEF Spec

-----------------------------------------------------------------------------
(* The properties *)

\* Types, and timeouts within the limits.
THEOREM TypeCorrect == Spec => []TypeOK
<1>1. IInv => TypeOK
  BY DEF IInv, ClipboardInv, TypeOK
<1> QED
  BY <1>1, GuardsInvariant, PTL

\* No secret is on the clipboard without a task that will remove it, unless that
\* task failed (write_clipboard_with_timeout in main.rs).
THEOREM SecretsHaveTimers == Spec => []SecretHasTimer
<1>1. IInv => SecretHasTimer
  BY DEF IInv, ClipboardInv
<1> QED
  BY <1>1, GuardsInvariant, PTL

=============================================================================
