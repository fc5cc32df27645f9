-------------------------- MODULE ProtectionGuards --------------------------
(***************************************************************************)
(* The threads that protection.rs starts on Windows: they look for signs   *)
(* of a debugger and latch what they find in PROTECTION_DETECTED.  Despite *)
(* its name corrupt_and_exit lets the process go on, so every line behind  *)
(* a call of it still runs: a check that has closed its snapshot of the    *)
(* processes closes it once more.                                          *)
(*                                                                         *)
(* The world around them changes as it likes: signs come and go, debug     *)
(* registers of threads are set, stubs of ntdll are changed, also between  *)
(* two reads of one look at them, and the rest of the client opens and     *)
(* closes handles, which the system numbers anew as soon as they are free. *)
(***************************************************************************)
EXTENDS NtStubs, FiniteSets

CONSTANTS
    Signs,              \* which signs may show
    Armable,            \* which threads may get their debug registers set
    SignsAtOnce,        \* bound: how many of both at a time
    Hookings,           \* which states of the stubs are tried
    Watched,            \* the services check_ntdll_hooks looks at, in its order
    QueryService,       \* NtQueryInformationProcess
    HideService,        \* NtSetInformationThread
    ContextService,     \* NtGetContextThread, by GetThreadContext
    SystemService,      \* NtQuerySystemInformation, by the snapshots of the processes
    YieldService,       \* NtYieldExecution
    MayStart,           \* bound: which threads may start, the others failing to
    Handles,            \* the numbers of handles
    ClientHandles       \* bound: how many the rest of the client has at a time

VARIABLES
    signs,              \* the signs that show now
    armed,              \* the threads whose debug registers are set now
    memory,             \* the state of the stubs, and of two more functions
    disturbed,          \* history: one of these has been other than at a quiet start
    detected,           \* PROTECTION_DETECTED
    logs,               \* how often it was logged
    at,                 \* where each thread is in its programme, 0 outside it
    baseline,           \* initial_hash: was the code changed when it was taken?
    hidden,             \* the threads the debugger does not see
    issued,             \* the number that the direct system call was made with
    reading,            \* which stub check_ntdll_hooks reads next
    scan,               \* where the watchdog is in a look at the processes
    owners,             \* to whom the system has given each handle
    clientHolds         \* the handles the rest of the client takes for its own

vars == <<signs, armed, memory, disturbed, detected, logs, at, baseline, hidden,
          issued, reading, scan, owners, clientHolds>>
world == <<signs, armed, memory, disturbed>>
latch == <<detected, logs>>
direct == <<issued, reading>>
table == <<scan, owners, clientHolds>>

\* Each is one thing at one place: "flag" is the one in the process environment
\* block, "port" the kernel's for a debugger, "int3" in one function of the five.
AllSigns == {"flag", "port", "window", "process", "parent", "busy", "slow", "code",
             "int3"}

Watching == {"watchdog", "integrity", "syscall"}
GuardThreads == Watching \cup {"startup", "patch"}
Threads == GuardThreads \cup {"main"}

\* Two functions of ntdll that are not system services.
DbgUiRemoteBreakin == Stubs + 1
DbgBreakPoint == Stubs + 2

ASSUME GuardsAssumption ==
    /\ Signs \subseteq AllSigns /\ Armable \subseteq Threads
    /\ SignsAtOnce \in Nat /\ ClientHandles \in Nat
    /\ MayStart \subseteq SUBSET GuardThreads
    /\ Watched \in Seq(Services) /\ Watched # <<>>
    /\ {QueryService, HideService, ContextService, SystemService, YieldService}
           \subseteq Services
    /\ Hookings \subseteq [Services -> {"clean", "late", "hooked"}]
    /\ Unknown \notin Handles

-----------------------------------------------------------------------------
(* What each thread does, in its order; the watching ones do all but their
   first step for ever. *)

InitProtection == <<"debugger", "breakpoint", "int2d", "output", "spawn">>
Startup == <<"port", "object", "flags", "closehandle", "yield">>
Patch == <<"hide", "patch">>
Watchdog == <<"hide", "debugger", "windows", "processes", "parent", "breakpoint", "yield">>
IntegrityWatchdog == <<"hide", "hash", "timing", "int3">>
\* Mutant: a check of the loop is commented out, as others of it are.
SyscallWatchdogUnhooked == <<"hide direct", "breakpoint">>
SyscallWatchdog == <<"hide direct", "hooks", "breakpoint">>

Programme == [main |-> InitProtection, startup |-> Startup, patch |-> Patch,
              watchdog |-> Watchdog, integrity |-> IntegrityWatchdog,
              syscall |-> SyscallWatchdog]

Doing(t, step) == at[t] \in DOMAIN Programme[t] /\ Programme[t][at[t]] = step

Following(t) == IF at[t] < Len(Programme[t]) THEN at[t] + 1
                ELSE IF t \in Watching THEN 2 ELSE 0

Advance(t) == at' = [at EXCEPT ![t] = Following(t)]

-----------------------------------------------------------------------------
(* The checks *)

\* Mutant: the line is logged whatever the latch was.
LatchBlindly(found) ==
    /\ detected' = (detected \/ found)
    /\ logs' = IF found THEN logs + 1 ELSE logs

\* corrupt_and_exit: the first one that finds something logs it.
Latch(found) ==
    /\ detected' = (detected \/ found)
    /\ logs' = IF found /\ ~detected THEN logs + 1 ELSE logs

\* What a service may answer: a hook in its stub answers what it likes.
Answers(service, truth) == IF memory[service] = "clean" THEN {truth} ELSE BOOLEAN

Debugged == Answers(QueryService, "port" \in signs)

\* What each check may find.  IsDebuggerPresent and the flag ask no service,
\* CheckRemoteDebuggerPresent asks for the port.
CheckDebugger == {"flag" \in signs \/ present : present \in Debugged}

\* The registers are those of the thread that asks.
CheckHardwareBreakpoints(t) == Answers(ContextService, t \in armed)

CheckInt2dTrap == {"port" \in signs}

\* The port is asked for only if the error is still the one that was set before.
CheckOutputDebugStringTrap == {FALSE} \cup Debugged

CheckNtqueryDebugPort == Debugged
CheckNtqueryDebugObject == Debugged
CheckNtqueryDebugFlags == Debugged

\* Whether there is a debugger is asked only for an error other than 6 and 0.
CheckClosehandleTrap == {FALSE} \cup Debugged

CheckYieldTrap == Answers(YieldService, "busy" \in signs)
CheckDebuggerWindows == {"window" \in signs}
CheckCodeHash == {("code" \in signs) # baseline}
CheckTiming == {"slow" \in signs}
CheckInt3 == {"int3" \in signs}

Checks == {"debugger", "breakpoint", "int2d", "output", "port", "object", "flags",
           "closehandle", "yield", "windows", "hash", "timing", "int3"}

Findings(t, check) ==
    CASE check = "debugger" -> CheckDebugger
      [] check = "breakpoint" -> CheckHardwareBreakpoints(t)
      [] check = "int2d" -> CheckInt2dTrap
      [] check = "output" -> CheckOutputDebugStringTrap
      [] check = "port" -> CheckNtqueryDebugPort
      [] check = "object" -> CheckNtqueryDebugObject
      [] check = "flags" -> CheckNtqueryDebugFlags
      [] check = "closehandle" -> CheckClosehandleTrap
      [] check = "yield" -> CheckYieldTrap
      [] check = "windows" -> CheckDebuggerWindows
      [] check = "hash" -> CheckCodeHash
      [] check = "timing" -> CheckTiming
      [] check = "int3" -> CheckInt3

Check(t) ==
    /\ at[t] \in DOMAIN Programme[t]
    /\ Programme[t][at[t]] \in Checks
    /\ \E found \in Findings(t, Programme[t][at[t]]) : Latch(found)
    /\ Advance(t)
    /\ UNCHANGED <<world, baseline, hidden, direct, table>>

\* Mutant: one of the functions that patch_dbg_attach changes is looked at too.
WatchedAndPatched == Append(Watched, DbgBreakPoint)
FuncsToCheck == Watched

\* One turn of the loop of check_ntdll_hooks: any of the stubs may be changed
\* before the next one is read.
CheckNtdllHooks ==
    /\ Doing("syscall", "hooks")
    /\ Latch(memory[FuncsToCheck[reading]] = "hooked")
    /\ IF reading < Len(FuncsToCheck)
       THEN reading' = reading + 1 /\ UNCHANGED at
       ELSE reading' = 1 /\ Advance("syscall")
    /\ UNCHANGED <<world, baseline, hidden, issued, table>>

-----------------------------------------------------------------------------
(* Start, hiding and patching *)

Init ==
    /\ signs = {} /\ armed = {}
    /\ \E hooking \in Hookings :
           /\ memory = [k \in 1 .. Stubs + 2 |->
                            IF k \in Services THEN hooking[k] ELSE "clean"]
           /\ disturbed = (\E k \in Services : hooking[k] # "clean")
    /\ detected = FALSE /\ logs = 0
    /\ at = [t \in Threads |-> IF t = "main" THEN 1 ELSE 0]
    /\ baseline = FALSE
    /\ hidden = {}
    /\ issued = Unknown /\ reading = 1
    /\ scan = [phase |-> "none", handle |-> Unknown, hit |-> FALSE]
    /\ owners = [h \in Handles |-> "free"]
    /\ clientHolds = {}

\* After its own checks init_protection starts the threads; one that does not
\* start is only logged.  The code's hash is taken here, changed or not.
SpawnGuardThreads(started) ==
    /\ Doing("main", "spawn")
    /\ at' = [t \in Threads |-> IF t \in started THEN 1 ELSE 0]
    /\ baseline' = ("code" \in signs)
    /\ UNCHANGED <<world, latch, hidden, direct, table>>

\* NtSetInformationThread is called by its stub: a hook may drop the call.
HideThread(t) ==
    /\ Doing(t, "hide")
    /\ \/ hidden' = hidden \cup {t}
       \/ memory[HideService] # "clean" /\ UNCHANGED hidden
    /\ Advance(t)
    /\ UNCHANGED <<world, latch, baseline, direct, table>>

\* The same by its number, if one is found.
HideThreadDirect ==
    /\ Doing("syscall", "hide direct")
    /\ issued' = GetSsn(memory, HideService)
    /\ hidden' = IF issued' = HideService THEN hidden \cup {"syscall"} ELSE hidden
    /\ Advance("syscall")
    /\ UNCHANGED <<world, latch, baseline, reading, table>>

\* What the process changes itself; the system may not allow either.
PatchDbgAttach(patched) ==
    /\ Doing("patch", "patch")
    /\ memory' = [k \in DOMAIN memory |-> IF k \in patched THEN "hooked" ELSE memory[k]]
    /\ Advance("patch")
    /\ UNCHANGED <<signs, armed, disturbed, latch, baseline, hidden, direct, table>>

-----------------------------------------------------------------------------
(* The two looks at the processes *)

\* CloseHandle closes what the number stands for now, if anything.
CloseHandle(h) == owners' = [owners EXCEPT ![h] = "free"]

\* A parent that is on the list is a process that is on it.
Listed(check) == IF check = "processes" THEN {"process", "parent"} ELSE {"parent"}

\* Who the parent is, and which processes there are, is asked of the system.
Hits(check) ==
    LET listed == Listed(check) \cap signs # {}
    IN  Answers(SystemService, listed)
            \cup (IF check = "parent" THEN Answers(QueryService, listed) ELSE {})

Looking(phase) ==
    /\ \E check \in {"processes", "parent"} : Doing("watchdog", check)
    /\ scan.phase = phase

OpenSnapshot(check) ==
    /\ Doing("watchdog", check) /\ scan.phase = "none"
    /\ \E h \in Handles, hit \in Hits(check) :
           /\ owners[h] = "free"
           /\ owners' = [owners EXCEPT ![h] = "watchdog"]
           /\ scan' = [phase |-> "open", handle |-> h, hit |-> hit]
    /\ UNCHANGED <<world, latch, at, baseline, hidden, direct, clientHolds>>

\* No snapshot, or no answer to who the parent is: the look is left out.
LookFails ==
    /\ Looking("none")
    /\ Advance("watchdog")
    /\ UNCHANGED <<world, latch, baseline, hidden, direct, table>>

\* A listed name closes the snapshot, and the loop goes on.
LookFinds ==
    /\ Looking("open") /\ scan.hit /\ owners[scan.handle] = "watchdog"
    /\ CloseHandle(scan.handle)
    /\ Latch(TRUE)
    /\ scan' = [scan EXCEPT !.phase = "end"]
    /\ UNCHANGED <<world, at, baseline, hidden, direct, clientHolds>>

\* Mutant: the branch that closes is taken whatever the name.
LookEndsClosed ==
    /\ Looking("open") /\ ~(scan.hit /\ owners[scan.handle] = "watchdog")
    /\ CloseHandle(scan.handle)
    /\ scan' = [scan EXCEPT !.phase = "end"]
    /\ UNCHANGED <<world, latch, at, baseline, hidden, direct, clientHolds>>

\* No listed name, or no snapshot any more to read names from.
LookEnds ==
    /\ Looking("open") /\ ~(scan.hit /\ owners[scan.handle] = "watchdog")
    /\ scan' = [scan EXCEPT !.phase = "end"]
    /\ UNCHANGED <<world, latch, at, baseline, hidden, direct, owners, clientHolds>>

\* Mutant: the snapshot is closed by the branch that finds a name only.
EndUnclosed ==
    /\ Looking("end")
    /\ scan' = [phase |-> "none", handle |-> Unknown, hit |-> FALSE]
    /\ Advance("watchdog")
    /\ UNCHANGED <<world, latch, baseline, hidden, direct, owners, clientHolds>>

\* The last line closes the snapshot, closed already or not.
CloseSnapshot ==
    /\ Looking("end")
    /\ CloseHandle(scan.handle)
    /\ scan' = [phase |-> "none", handle |-> Unknown, hit |-> FALSE]
    /\ Advance("watchdog")
    /\ UNCHANGED <<world, latch, baseline, hidden, direct, clientHolds>>

-----------------------------------------------------------------------------
(* The rest of the client, and of the world *)

ClientOpens(h) ==
    /\ owners[h] = "free" /\ Cardinality(clientHolds) < ClientHandles
    /\ owners' = [owners EXCEPT ![h] = "client"]
    /\ clientHolds' = clientHolds \cup {h}
    /\ UNCHANGED <<world, latch, at, baseline, hidden, direct, scan>>

ClientCloses(h) ==
    /\ h \in clientHolds
    /\ CloseHandle(h)
    /\ clientHolds' = clientHolds \ {h}
    /\ UNCHANGED <<world, latch, at, baseline, hidden, direct, scan>>

MoreMayShow == Cardinality(signs) + Cardinality(armed) < SignsAtOnce

SignShows(s) ==
    /\ MoreMayShow
    /\ signs' = signs \cup {s}
    /\ disturbed' = TRUE
    /\ UNCHANGED <<armed, memory, latch, at, baseline, hidden, direct, table>>

SignGoes(s) ==
    /\ s \in signs
    /\ signs' = signs \ {s}
    /\ UNCHANGED <<armed, memory, disturbed, latch, at, baseline, hidden, direct, table>>

BreakpointSet(t) ==
    /\ MoreMayShow
    /\ armed' = armed \cup {t}
    /\ disturbed' = TRUE
    /\ UNCHANGED <<signs, memory, latch, at, baseline, hidden, direct, table>>

BreakpointGoes(t) ==
    /\ t \in armed
    /\ armed' = armed \ {t}
    /\ UNCHANGED <<signs, memory, disturbed, latch, at, baseline, hidden, direct, table>>

StubsChange(hooking) ==
    /\ memory' = [k \in DOMAIN memory |-> IF k \in Services THEN hooking[k] ELSE memory[k]]
    /\ disturbed' = TRUE
    /\ UNCHANGED <<signs, armed, latch, at, baseline, hidden, direct, table>>

-----------------------------------------------------------------------------
Looks == OpenSnapshot("processes") \/ OpenSnapshot("parent") \/ LookFails
         \/ LookFinds \/ LookEnds \/ CloseSnapshot

Step(t) ==
    \/ Check(t)
    \/ HideThread(t)
    \/ t = "main" /\ \E started \in MayStart : SpawnGuardThreads(started)
    \/ t = "patch" /\ \E patched \in SUBSET {DbgUiRemoteBreakin, DbgBreakPoint} :
                          PatchDbgAttach(patched)
    \/ t = "syscall" /\ (HideThreadDirect \/ CheckNtdllHooks)
    \/ t = "watchdog" /\ Looks

World ==
    \/ \E h \in Handles : ClientOpens(h) \/ ClientCloses(h)
    \/ \E s \in Signs : SignShows(s) \/ SignGoes(s)
    \/ \E t \in Armable : BreakpointSet(t) \/ BreakpointGoes(t)
    \/ \E hooking \in Hookings : StubsChange(hooking)

Next == World \/ \E t \in Threads : Step(t)

\* The system runs the threads, and does not refuse a snapshot for ever.
Fairness ==
    /\ \A t \in Watching \cup {"main"} : WF_vars(Step(t))
    /\ SF_vars(OpenSnapshot("processes"))

Spec == Init /\ [][Next]_vars /\ Fairness

-----------------------------------------------------------------------------
(* Properties *)

\* Types; what is found is logged exactly once, whichever threads find it at a
\* time (the swap of corrupt_and_exit).
TypeOK ==
    /\ signs \subseteq Signs /\ armed \subseteq Armable
    /\ reading \in 1 .. Len(FuncsToCheck)
    /\ memory \in [1 .. Stubs + 2 -> {"clean", "late", "hooked"}]
    /\ disturbed \in BOOLEAN /\ detected \in BOOLEAN /\ baseline \in BOOLEAN
    /\ logs = IF detected THEN 1 ELSE 0
    /\ at \in [Threads -> 0 .. 7]
    /\ hidden \subseteq Threads
    /\ scan \in [phase : {"none", "open", "end"}, handle : Handles \cup {Unknown},
                 hit : BOOLEAN]
    /\ owners \in [Handles -> {"free", "watchdog", "client"}]
    /\ clientHolds \subseteq Handles

\* The latch is never set in a world without a sign and with every stub of ntdll
\* as it was loaded: what the process does to itself (patch_dbg_attach, hiding
\* threads, the invalid handle of check_closehandle_trap) alarms no check.
NoFalseAlarm == detected => disturbed

\* The direct call asks for NtSetInformationThread or is not made: whatever
\* pattern of stubs is hooked, the number comes out right or not at all.
SyscallIsMeant == issued \in {Unknown, HideService}

\* Between its looks at the processes the watchdog, which runs as long as the
\* client, holds no snapshot, whether they found something, ended or failed.
HandlesReturned ==
    scan.phase = "none" => \A h \in Handles : owners[h] # "watchdog"

\* A handle of the rest of the client is closed behind its back only after the
\* latch was set: the second close of a snapshot needs a look that found something.
ForeignCloseNeedsMatch ==
    (\E h \in clientHolds : owners[h] # "client") => detected

\* Which sign each loop finds, provided that the services it asks are not hooked.
\* A change of the code counts from the hash of the start.
Unhooked(service) == memory[service] = "clean"

Watches(t, s) ==
    CASE t = "watchdog" -> \/ s \in {"flag", "window"}
                           \/ s = "port" /\ Unhooked(QueryService)
                           \/ s \in {"process", "parent"} /\ Unhooked(SystemService)
                           \/ s = "busy" /\ Unhooked(YieldService)
      [] t = "integrity" -> s \in {"slow", "int3"} \/ (s = "code" /\ ~baseline)
      [] OTHER -> FALSE

\* What a loop watches for is found if it stays where it is, while the thread of
\* that loop runs: a sign; the registers of the two threads that look at their
\* own; a watched stub that stays hooked.  Nothing is said of what moves from
\* stub to stub, of the registers of the other threads and of a late change.
WatchedIsDetected ==
    /\ \A s \in Signs :
           <>[](s \in signs /\ \E t \in Watching : at[t] > 0 /\ Watches(t, s))
               => <>detected
    /\ \A t \in {"watchdog", "syscall"} :
           <>[](t \in armed /\ at[t] > 0 /\ Unhooked(ContextService)) => <>detected
    /\ \A i \in DOMAIN Watched :
           <>[](memory[Watched[i]] = "hooked" /\ at["syscall"] > 0) => <>detected

=============================================================================
