--------------------------- MODULE DesktopClipboard ---------------------------
(***************************************************************************)
(* Secrets on the clipboard: copy_secret_to_clipboard and copy_password of *)
(* the desktop client (main.rs), each a task of the runtime, and the tasks *)
(* they spawn to empty the clipboard after a while.                        *)
(*                                                                         *)
(* The clipboard is shared with every other program and with the image     *)
(* watcher of the screenshot guard (see DesktopGuards).                    *)
(***************************************************************************)
EXTENDS Naturals

CONSTANTS
    None,
    Copies,         \* copies ever
    Requested,      \* what the page may ask for as a timeout, None for nothing
    MinTimeout, MaxTimeout, DefaultTimeout,
    MaxTime         \* end of the clock

ASSUME DesktopClipboardAssumption ==
    /\ Requested \subseteq Nat \cup {None} /\ None \notin Nat
    /\ MinTimeout \in Nat \ {0} /\ MaxTimeout \in Nat /\ DefaultTimeout \in Nat
    /\ MinTimeout <= DefaultTimeout /\ DefaultTimeout <= MaxTimeout
    /\ MaxTime \in Nat

VARIABLES
    now,
    running,        \* is the process alive?
    authenticated,  \* AppState.authenticated (see DesktopVault)
    clip,           \* what is on the clipboard
    copies          \* the tasks

clipboardVars == <<now, running, authenticated, clip, copies>>

-----------------------------------------------------------------------------

Empty == [kind |-> "empty", of |-> None]
Secret(c) == [kind |-> "secret", of |-> c]

\* What other programs put there.
Foreign == {[kind |-> "text", of |-> None], [kind |-> "image", of |-> None]}

\* Mutant: zero, and hours, are taken as they are.
TimeoutAsGiven(requested) == IF requested = None THEN DefaultTimeout ELSE requested

SanitizeClipboardTimeoutSeconds(requested) ==
    LET value == IF requested = None THEN DefaultTimeout ELSE requested
    IN  IF value < MinTimeout THEN MinTimeout
        ELSE IF value > MaxTimeout THEN MaxTimeout ELSE value

Due(c) == copies[c].pc = "sleeping" /\ now >= copies[c].at + copies[c].timeout

ClipboardInit ==
    /\ now = 0 /\ running = TRUE /\ authenticated \in BOOLEAN
    /\ clip \in {Empty} \cup Foreign
    /\ copies = [c \in Copies |-> [pc |-> "idle", timeout |-> 0, at |-> 0]]

-----------------------------------------------------------------------------
(* A copy *)

\* A command is begun only when signed in.  copy_password then looks for the
\* entry, which may wait for the server.
AskForCopy(c, requested) ==
    /\ running /\ authenticated /\ copies[c].pc = "idle"
    /\ copies' = [copies EXCEPT ![c].pc = "asked",
                                ![c].timeout = SanitizeClipboardTimeoutSeconds(requested)]
    /\ UNCHANGED <<now, running, authenticated, clip>>

\* Nothing is looked at again: the user may have signed out meanwhile.
WriteSecret(c) ==
    /\ copies[c].pc = "asked"
    /\ now + copies[c].timeout <= MaxTime
    /\ clip' = Secret(c)
    /\ copies' = [copies EXCEPT ![c].pc = "sleeping", ![c].at = now]
    /\ UNCHANGED <<now, running, authenticated>>

\* The entry is not found or does not open, or the clipboard is not to be had.
CopyFails(c) ==
    /\ copies[c].pc = "asked"
    /\ copies' = [copies EXCEPT ![c].pc = "over"]
    /\ UNCHANGED <<now, running, authenticated, clip>>

\* Mutant: the task works only for a user who is signed in, like the commands.
WipeSignedIn(c) ==
    /\ Due(c) /\ authenticated
    /\ \E gone \in BOOLEAN :
          /\ clip' = IF gone THEN Empty ELSE clip
          /\ copies' = [copies EXCEPT ![c].pc = IF gone THEN "over" ELSE "failed"]
    /\ UNCHANGED <<now, running, authenticated>>

\* Mutant: the task removes only what other programs copied.
WipeForeign(c) ==
    /\ Due(c)
    /\ clip' = IF clip \in Foreign THEN Empty ELSE clip
    /\ copies' = [copies EXCEPT ![c].pc = "over"]
    /\ UNCHANGED <<now, running, authenticated>>

\* Whatever is on the clipboard by then is replaced by an empty text; or another
\* program holds the clipboard, the error is dropped and nothing tries again.
Wipe(c) ==
    /\ Due(c)
    /\ \E gone \in BOOLEAN :
          /\ clip' = IF gone THEN Empty ELSE clip
          /\ copies' = [copies EXCEPT ![c].pc = IF gone THEN "over" ELSE "failed"]
    /\ UNCHANGED <<now, running, authenticated>>

-----------------------------------------------------------------------------
(* Around it *)

OtherProgramCopies ==
    /\ clip' \in Foreign \ {clip}
    /\ UNCHANGED <<now, running, authenticated, copies>>

SignInOrOut ==
    /\ running
    /\ authenticated' = ~authenticated
    /\ UNCHANGED <<now, running, clip, copies>>

\* The process ends, and its tasks with it.
Quit ==
    /\ running
    /\ running' = FALSE /\ authenticated' = FALSE
    /\ copies' = [c \in Copies |-> [copies[c] EXCEPT !.pc = "over"]]
    /\ UNCHANGED <<now, clip>>

Tick ==
    /\ now < MaxTime
    /\ now' = now + 1
    /\ UNCHANGED <<running, authenticated, clip, copies>>

Task(c) ==
    \/ \E requested \in Requested : AskForCopy(c, requested)
    \/ WriteSecret(c) \/ CopyFails(c) \/ Wipe(c)

ClipboardNext ==
    \/ \E c \in Copies : Task(c)
    \/ OtherProgramCopies \/ SignInOrOut \/ Quit \/ Tick

-----------------------------------------------------------------------------
(* Properties *)

ClipboardTypeOK ==
    /\ now \in 0 .. MaxTime /\ running \in BOOLEAN /\ authenticated \in BOOLEAN
    /\ clip \in {Empty} \cup Foreign \cup {Secret(c) : c \in Copies}
    /\ copies \in [Copies -> [pc : {"idle", "asked", "sleeping", "over", "failed"},
                              timeout : {0} \cup MinTimeout .. MaxTimeout, at : 0 .. MaxTime]]

\* While the client runs, a secret on the clipboard has a task of its own that
\* will wake within the limits of the setting, unless that task could not get
\* the clipboard when it woke.
SecretHasTimer ==
    running /\ clip.kind = "secret" =>
        LET copy == copies[clip.of]
        IN  \/ copy.pc = "failed"
            \/ copy.pc = "sleeping" /\ copy.at <= now
               /\ copy.timeout \in MinTimeout .. MaxTimeout

\* A secret does not stay, unless the client is quit or its one attempt to
\* remove it fails.
SecretGoes ==
    \A c \in Copies :
        clip = Secret(c) ~> (clip # Secret(c) \/ ~running \/ copies[c].pc = "failed")

=============================================================================
