-------------------------- MODULE ProtectionProofs --------------------------
(***************************************************************************)
(* Proofs about NtStubs and ProtectionGuards: the number of a service is   *)
(* found or not, but never mistaken; the latch needs a cause outside the   *)
(* process; and what the watchdog does to the table of handles.            *)
(***************************************************************************)
EXTENDS ProtectionGuards, WellFoundedInduction, TLAPS

-----------------------------------------------------------------------------
(* The number of a service *)

\* A set of natural numbers has a least one.
LEMMA HasLeast ==
    ASSUME NEW S \in SUBSET Nat, S # {}
    PROVE  \E n \in S : \A m \in S : n <= m
<1>1. IsWellFoundedOn(OpToRel(<, Nat), Nat)
    BY NatLessThanWellFounded
<1>2. PICK n \in S : \A m \in S : ~(<<m, n>> \in OpToRel(<, Nat))
    BY <1>1, WFMin
<1>3. \A m \in S : ~(m < n)
    BY <1>2 DEF OpToRel
<1> QED BY <1>3

\* The nearest of several distances is one of them.
LEMMA NearestIsOne ==
    ASSUME NEW stubs, NEW k, NEW direction, Distances(stubs, k, direction) # {}
    PROVE  Nearest(Distances(stubs, k, direction)) \in 1 .. MaxDistance
<1> DEFINE D == Distances(stubs, k, direction)
<1>1. D \subseteq 1 .. MaxDistance
    BY DEF Distances
<1>2. \E d \in D : \A e \in D : d <= e
    BY <1>1, HasLeast
<1>3. Nearest(D) \in D
    BY <1>2 DEF Nearest
<1> QED BY <1>1, <1>3

\* The export that decides is one that has the name.
LEMMA DiskIsRight ==
    ASSUME NEW k \in Services
    PROVE  DiskSsn(k) \in {Unknown, k}
<1> DEFINE named == {i \in DOMAIN File.exports : File.exports[i].name = k}
           first == CHOOSE i \in named : \A j \in named : i <= j
<1>1. CASE ~File.image \/ named = {}
    BY <1>1 DEF DiskSsn
<1>2. CASE ~(~File.image \/ named = {})
    <2>1. DOMAIN File.exports \subseteq Nat
        BY NtStubsAssumption
    <2>2. \E i \in named : \A j \in named : i <= j
        BY <1>2, <2>1, HasLeast
    <2>3. first \in named
        BY <2>2
    <2>4. NumberOfExport(first) \in {Unknown, k}
        BY <2>3, NtStubsAssumption
    <2> QED BY <1>2, <2>4 DEF DiskSsn
<1> QED BY <1>1, <1>2

\* get_ssn: whichever stubs are changed and whatever the file's table looks like,
\* the number that is found is the number of the service that was asked for.
THEOREM NumbersAreRight ==
    ASSUME NEW stubs, NEW k \in Services
    PROVE  GetSsn(stubs, k) \in {Unknown, k}
<1>1. k \in Int
    BY NtStubsAssumption DEF Services
<1>2. \A d \in 1 .. MaxDistance : NumberFromNeighbour(k, -1, d) = k
    BY <1>1, NtStubsAssumption DEF NumberFromNeighbour
<1>3. \A d \in 1 .. MaxDistance : NumberFromNeighbour(k, 1, d) = k
    BY <1>1, NtStubsAssumption DEF NumberFromNeighbour
<1>4. Distances(stubs, k, -1) # {} =>
          NumberFromNeighbour(k, -1, Nearest(Distances(stubs, k, -1))) = k
    BY <1>2, NearestIsOne
<1>5. Distances(stubs, k, 1) # {} =>
          NumberFromNeighbour(k, 1, Nearest(Distances(stubs, k, 1))) = k
    BY <1>3, NearestIsOne
<1> QED BY <1>4, <1>5, DiskIsRight DEF GetSsn

-----------------------------------------------------------------------------
(* The inductive invariant *)

\* Whatever a thread may find, it finds it in a disturbed world.
SignsDisturb ==
    (signs # {} \/ armed # {} \/ baseline \/ scan.hit \/ \E k \in Services : memory[k] # "clean")
        => disturbed

\* What the system has given to the watchdog is the snapshot of its look.
OneSnapshot ==
    \A h \in Handles : owners[h] = "watchdog" => scan.phase # "none" /\ scan.handle = h

\* Before anything was found, a look still has its snapshot.
SnapshotIsKept ==
    scan.phase # "none" =>
        scan.handle \in Handles /\ (owners[scan.handle] = "watchdog" \/ detected)

GuardsInv ==
    /\ TypeOK
    /\ NoFalseAlarm
    /\ SyscallIsMeant
    /\ SignsDisturb
    /\ OneSnapshot
    /\ SnapshotIsKept
    /\ ForeignCloseNeedsMatch

\* Every step of a programme leads to one of its steps, or out of it.
LEMMA FollowingIsAPlace ==
    ASSUME NEW t \in Threads, at \in [Threads -> 0 .. 7],
           at[t] \in DOMAIN Programme[t], Advance(t)
    PROVE  at' \in [Threads -> 0 .. 7]
<1>1. Following(t) \in 0 .. 7
    <2>1. PICK n \in 2 .. 7 : Len(Programme[t]) = n /\ DOMAIN Programme[t] = 1 .. n
        <3>1. /\ Len(InitProtection) = 5 /\ DOMAIN InitProtection = 1 .. 5
              /\ Len(Startup) = 5 /\ DOMAIN Startup = 1 .. 5
            BY DEF InitProtection, Startup
        <3>2. /\ Len(Patch) = 2 /\ DOMAIN Patch = 1 .. 2
              /\ Len(Watchdog) = 7 /\ DOMAIN Watchdog = 1 .. 7
            BY DEF Patch, Watchdog
        <3>3. /\ Len(IntegrityWatchdog) = 4 /\ DOMAIN IntegrityWatchdog = 1 .. 4
              /\ Len(SyscallWatchdog) = 3 /\ DOMAIN SyscallWatchdog = 1 .. 3
            BY DEF IntegrityWatchdog, SyscallWatchdog
        <3>4. Programme[t] \in {InitProtection, Startup, Patch, Watchdog,
                                IntegrityWatchdog, SyscallWatchdog}
            BY DEF Threads, GuardThreads, Watching, Programme
        <3> QED BY <3>1, <3>2, <3>3, <3>4
    <2>2. at[t] \in 1 .. n
        BY <2>1
    <2> QED BY <2>1, <2>2 DEF Following
<1> QED BY <1>1 DEF Advance

\* In a quiet world a service answers what is so.
LEMMA AnswersAreCaused ==
    ASSUME GuardsInv, NEW service \in Services, NEW truth \in BOOLEAN, truth => disturbed
    PROVE  \A found \in Answers(service, truth) : found \in BOOLEAN /\ (found => disturbed)
<1> TAKE found \in Answers(service, truth)
<1>1. CASE memory[service] = "clean"
    <2>1. found = truth
        BY <1>1 DEF Answers
    <2> QED BY <2>1, Zenon
<1>2. CASE memory[service] # "clean"
    <2>1. disturbed /\ found \in BOOLEAN
        BY <1>2 DEF Answers, GuardsInv, SignsDisturb
    <2> QED BY <2>1
<1> QED BY <1>1, <1>2

\* A check that finds something does so in a disturbed world.
LEMMA FindingsAreCaused ==
    ASSUME GuardsInv, NEW t \in Threads, NEW check \in Checks
    PROVE  \A found \in Findings(t, check) : found \in BOOLEAN /\ (found => disturbed)
<1> DEFINE Caused(S) == \A found \in S : found \in BOOLEAN /\ (found => disturbed)
<1>1. \A s : (s \in signs) \in BOOLEAN /\ ((s \in signs) => disturbed)
    BY DEF GuardsInv, SignsDisturb
<1>2. (t \in armed) \in BOOLEAN /\ ((t \in armed) => disturbed)
    BY DEF GuardsInv, SignsDisturb
<1>3. /\ Caused({"port" \in signs}) /\ Caused({"window" \in signs})
      /\ Caused({"slow" \in signs}) /\ Caused({"int3" \in signs})
    BY <1>1, Zenon
<1>4. Caused(Debugged)
    BY <1>1, AnswersAreCaused, GuardsAssumption DEF Debugged
<1>5. Caused({FALSE} \cup Debugged)
    BY <1>4
<1>6. Caused(CheckDebugger)
    <2> SUFFICES ASSUME NEW present \in Debugged
                 PROVE  LET found == "flag" \in signs \/ present
                        IN  found \in BOOLEAN /\ (found => disturbed)
        BY Zenon DEF CheckDebugger
    <2>1. present => disturbed
        BY <1>4, Zenon
    <2>2. "flag" \in signs => disturbed
        BY <1>1, Zenon
    <2> QED BY <2>1, <2>2, Zenon
<1>7. Caused(CheckCodeHash)
    <2>1. (("code" \in signs) # baseline) => disturbed
        BY DEF GuardsInv, TypeOK, SignsDisturb
    <2>2. (("code" \in signs) # baseline) \in BOOLEAN
        OBVIOUS
    <2> QED BY <2>1, <2>2, Zenon DEF CheckCodeHash
<1>8. Caused(CheckHardwareBreakpoints(t)) /\ Caused(CheckYieldTrap)
    <2>1. ContextService \in Services /\ YieldService \in Services
        BY GuardsAssumption
    <2>2. Caused(Answers(ContextService, t \in armed))
        BY <1>2, <2>1, AnswersAreCaused
    <2>3. Caused(Answers(YieldService, "busy" \in signs))
        BY <1>1, <2>1, AnswersAreCaused
    <2> QED BY <2>2, <2>3 DEF CheckHardwareBreakpoints, CheckYieldTrap
<1>9. Findings(t, check) \in
          {{"port" \in signs}, {"window" \in signs}, {"slow" \in signs}, {"int3" \in signs},
           CheckDebugger, CheckHardwareBreakpoints(t), CheckYieldTrap, Debugged,
           {FALSE} \cup Debugged, CheckCodeHash}
    <2>1. CASE check \in {"int2d", "windows", "timing", "int3"}
        BY <2>1 DEF Findings, CheckInt2dTrap, CheckDebuggerWindows, CheckTiming, CheckInt3
    <2>2. CASE check \in {"debugger", "breakpoint", "yield", "hash"}
        BY <2>2 DEF Findings
    <2>3. CASE check \in {"output", "port", "object", "flags", "closehandle"}
        BY <2>3 DEF Findings, CheckOutputDebugStringTrap, CheckNtqueryDebugPort,
                    CheckNtqueryDebugObject, CheckNtqueryDebugFlags, CheckClosehandleTrap
    <2> QED BY <2>1, <2>2, <2>3 DEF Checks
<1>10. Caused(Findings(t, check))
    <2> HIDE DEF Caused
    <2> QED BY <1>3, <1>4, <1>5, <1>6, <1>7, <1>8, <1>9, Zenon
<1> QED BY <1>10

\* The latch goes up only, and is logged when it goes.
LEMMA LatchIsSafe ==
    ASSUME GuardsInv, NEW found \in BOOLEAN, found => disturbed, Latch(found)
    PROVE  /\ detected' \in BOOLEAN /\ logs' = IF detected' THEN 1 ELSE 0
           /\ detected => detected'
           /\ detected' => disturbed
BY DEF GuardsInv, TypeOK, NoFalseAlarm, Latch

LEMMA InitHolds == Init => GuardsInv
<1> SUFFICES ASSUME Init PROVE GuardsInv
    OBVIOUS
<1> USE DEF Init
<1>1. PICK hooking \in Hookings :
          /\ memory = [k \in 1 .. Stubs + 2 |->
                           IF k \in Services THEN hooking[k] ELSE "clean"]
          /\ disturbed = (\E k \in Services : hooking[k] # "clean")
    OBVIOUS
<1>2. /\ memory \in [1 .. Stubs + 2 -> {"clean", "late", "hooked"}]
      /\ disturbed \in BOOLEAN
    BY <1>1, GuardsAssumption
<1>3. \A k \in Services : memory[k] = hooking[k]
    BY <1>1, NtStubsAssumption DEF Services
<1>4. TypeOK
    <2>1. scan \in [phase : {"none", "open", "end"}, handle : Handles \cup {Unknown},
                    hit : BOOLEAN]
        OBVIOUS
    <2>2. at \in [Threads -> 0 .. 7] /\ owners \in [Handles -> {"free", "watchdog", "client"}]
        OBVIOUS
    <2>3. reading \in 1 .. Len(FuncsToCheck)
        BY GuardsAssumption DEF FuncsToCheck
    <2> QED BY <1>2, <2>1, <2>2, <2>3 DEF TypeOK
<1>5. SignsDisturb
    BY <1>1, <1>3 DEF SignsDisturb
<1>6. NoFalseAlarm /\ SyscallIsMeant /\ OneSnapshot /\ SnapshotIsKept /\ ForeignCloseNeedsMatch
    BY DEF NoFalseAlarm, SyscallIsMeant, OneSnapshot, SnapshotIsKept,
           ForeignCloseNeedsMatch
<1> QED BY <1>4, <1>5, <1>6 DEF GuardsInv

-----------------------------------------------------------------------------
(* The steps of the threads *)

\* What holds after a step that leaves the world, the handles and the issued
\* number alone.
LEMMA QuietStep ==
    ASSUME GuardsInv, UNCHANGED <<world, table>>,
           detected' \in BOOLEAN, logs' = IF detected' THEN 1 ELSE 0,
           detected => detected', detected' => disturbed,
           at' \in [Threads -> 0 .. 7],
           baseline' \in BOOLEAN, baseline' => disturbed,
           hidden' \subseteq Threads,
           issued' \in {Unknown, HideService},
           reading' \in 1 .. Len(FuncsToCheck)
    PROVE  GuardsInv'
<1> USE DEF GuardsInv, world, table
<1>1. TypeOK'
    BY DEF TypeOK
<1>2. NoFalseAlarm' /\ SyscallIsMeant' /\ SignsDisturb'
    BY DEF NoFalseAlarm, SyscallIsMeant, SignsDisturb
<1>3. OneSnapshot' /\ SnapshotIsKept' /\ ForeignCloseNeedsMatch'
    BY DEF OneSnapshot, SnapshotIsKept, ForeignCloseNeedsMatch
<1> QED BY <1>1, <1>2, <1>3

LEMMA CheckHolds ==
    ASSUME GuardsInv, NEW t \in Threads, Check(t)
    PROVE  GuardsInv'
<1> DEFINE check == Programme[t][at[t]]
<1>1. at' \in [Threads -> 0 .. 7]
    BY FollowingIsAPlace DEF Check, GuardsInv, TypeOK
<1>2. PICK found \in Findings(t, check) : Latch(found)
    BY DEF Check
<1>3. found \in BOOLEAN /\ (found => disturbed)
    BY FindingsAreCaused DEF Check
<1>4. /\ detected' \in BOOLEAN /\ logs' = IF detected' THEN 1 ELSE 0
      /\ detected => detected'
      /\ detected' => disturbed
    BY <1>2, <1>3, LatchIsSafe
<1>5. /\ baseline' \in BOOLEAN /\ (baseline' => disturbed)
      /\ hidden' \subseteq Threads /\ issued' \in {Unknown, HideService}
      /\ reading' \in 1 .. Len(FuncsToCheck)
      /\ UNCHANGED <<world, table>>
    BY DEF Check, GuardsInv, TypeOK, SignsDisturb, SyscallIsMeant, direct
<1> QED BY <1>1, <1>4, <1>5, QuietStep

\* The stubs that are looked at are those of services.
LEMMA HooksHolds ==
    ASSUME GuardsInv, CheckNtdllHooks
    PROVE  GuardsInv'
<1> DEFINE found == memory[FuncsToCheck[reading]] = "hooked"
<1>1. /\ Len(FuncsToCheck) \in Nat \ {0}
      /\ \A i \in 1 .. Len(FuncsToCheck) : FuncsToCheck[i] \in Services
    BY GuardsAssumption DEF FuncsToCheck
<1>2. reading \in 1 .. Len(FuncsToCheck)
    BY DEF GuardsInv, TypeOK
<1>3. found \in BOOLEAN /\ (found => disturbed)
    BY <1>1, <1>2 DEF GuardsInv, SignsDisturb
<1>4. /\ detected' \in BOOLEAN /\ logs' = IF detected' THEN 1 ELSE 0
      /\ detected => detected'
      /\ detected' => disturbed
    BY <1>3, LatchIsSafe DEF CheckNtdllHooks
<1>5. at' \in [Threads -> 0 .. 7]
    <2>1. "syscall" \in Threads /\ at["syscall"] \in DOMAIN Programme["syscall"]
        BY DEF Threads, GuardThreads, Watching, CheckNtdllHooks, Doing
    <2>2. UNCHANGED at \/ Advance("syscall")
        BY DEF CheckNtdllHooks
    <2> QED BY <2>1, <2>2, FollowingIsAPlace DEF GuardsInv, TypeOK
<1>6. reading' \in 1 .. Len(FuncsToCheck)
    BY <1>1, <1>2 DEF CheckNtdllHooks
<1>7. /\ baseline' \in BOOLEAN /\ (baseline' => disturbed)
      /\ hidden' \subseteq Threads /\ issued' \in {Unknown, HideService}
      /\ UNCHANGED <<world, table>>
    BY DEF CheckNtdllHooks, GuardsInv, TypeOK, SignsDisturb, SyscallIsMeant
<1> QED BY <1>4, <1>5, <1>6, <1>7, QuietStep

LEMMA StartHolds ==
    ASSUME GuardsInv, NEW started \in MayStart, SpawnGuardThreads(started)
    PROVE  GuardsInv'
<1>1. at' \in [Threads -> 0 .. 7]
    BY DEF SpawnGuardThreads
<1>2. baseline' \in BOOLEAN /\ (baseline' => disturbed)
    <2>1. baseline' = ("code" \in signs)
        BY DEF SpawnGuardThreads
    <2>2. "code" \in signs => disturbed
        BY DEF GuardsInv, SignsDisturb
    <2>3. ("code" \in signs) \in BOOLEAN
        OBVIOUS
    <2>4. baseline' \in BOOLEAN
        BY <2>1, <2>3, Zenon
    <2>5. baseline' => disturbed
        BY <2>1, <2>2, Zenon
    <2> QED BY <2>4, <2>5
<1>3. /\ detected' \in BOOLEAN /\ logs' = IF detected' THEN 1 ELSE 0
      /\ (detected => detected') /\ (detected' => disturbed)
      /\ hidden' \subseteq Threads /\ issued' \in {Unknown, HideService}
      /\ reading' \in 1 .. Len(FuncsToCheck)
      /\ UNCHANGED <<world, table>>
    BY DEF SpawnGuardThreads, GuardsInv, TypeOK, NoFalseAlarm, SyscallIsMeant, latch, direct
<1> QED BY <1>1, <1>2, <1>3, QuietStep

LEMMA HideHolds ==
    ASSUME GuardsInv, NEW t \in Threads, HideThread(t) \/ (t = "syscall" /\ HideThreadDirect)
    PROVE  GuardsInv'
<1>1. at' \in [Threads -> 0 .. 7]
    BY FollowingIsAPlace DEF HideThread, HideThreadDirect, Doing, GuardsInv, TypeOK
<1>2. issued' \in {Unknown, HideService}
    BY NumbersAreRight, GuardsAssumption
       DEF HideThread, HideThreadDirect, GuardsInv, SyscallIsMeant, direct
<1>3. hidden' \subseteq Threads
    BY DEF HideThread, HideThreadDirect, GuardsInv, TypeOK
<1>4. /\ detected' \in BOOLEAN /\ logs' = IF detected' THEN 1 ELSE 0
      /\ (detected => detected') /\ (detected' => disturbed)
    <2>1. detected' = detected /\ logs' = logs
        BY DEF HideThread, HideThreadDirect, latch
    <2> QED BY <2>1 DEF GuardsInv, TypeOK, NoFalseAlarm
<1>5. /\ UNCHANGED <<world, table>>
      /\ baseline' = baseline /\ reading' = reading
    BY DEF HideThread, HideThreadDirect, direct
<1>6. /\ baseline \in BOOLEAN /\ (baseline => disturbed)
      /\ reading \in 1 .. Len(FuncsToCheck)
    BY DEF GuardsInv, TypeOK, SignsDisturb
<1> QED BY <1>1, <1>2, <1>3, <1>4, <1>5, <1>6, QuietStep

\* The process changes no stub of a service.
LEMMA PatchHolds ==
    ASSUME GuardsInv, NEW patched \in SUBSET {DbgUiRemoteBreakin, DbgBreakPoint},
           PatchDbgAttach(patched)
    PROVE  GuardsInv'
<1> USE DEF PatchDbgAttach, GuardsInv, direct
<1>1. at' \in [Threads -> 0 .. 7]
    BY FollowingIsAPlace DEF Doing, TypeOK, Threads, GuardThreads
<1>2. \A k \in Services : memory'[k] = memory[k]
    BY NtStubsAssumption DEF TypeOK, Services, DbgUiRemoteBreakin, DbgBreakPoint
<1>3. TypeOK'
    BY <1>1 DEF TypeOK, latch, table
<1>4. SignsDisturb'
    BY <1>2 DEF SignsDisturb, table
<1>5. /\ NoFalseAlarm' /\ SyscallIsMeant' /\ OneSnapshot' /\ SnapshotIsKept'
      /\ ForeignCloseNeedsMatch'
    BY DEF NoFalseAlarm, SyscallIsMeant, OneSnapshot, SnapshotIsKept,
           ForeignCloseNeedsMatch, latch, table
<1> QED BY <1>3, <1>4, <1>5

-----------------------------------------------------------------------------
(* The looks at the processes *)

\* What a look may find, it finds in a disturbed world.
LEMMA HitsAreCaused ==
    ASSUME GuardsInv, NEW check \in {"processes", "parent"}
    PROVE  \A hit \in Hits(check) : hit \in BOOLEAN /\ (hit => disturbed)
<1> DEFINE listed == Listed(check) \cap signs # {}
<1>1. listed \in BOOLEAN /\ (listed => disturbed)
    <2>1. signs # {} => disturbed
        BY DEF GuardsInv, SignsDisturb
    <2>2. listed => signs # {}
        OBVIOUS
    <2> QED BY <2>1, <2>2
<1>2. \A service \in Services : \A hit \in Answers(service, listed) :
          hit \in BOOLEAN /\ (hit => disturbed)
    <2> HIDE DEF listed
    <2> QED BY <1>1, AnswersAreCaused
<1>3. \A hit \in Hits(check) : \E service \in Services : hit \in Answers(service, listed)
    BY GuardsAssumption, Zenon DEF Hits
<1> QED BY <1>2, <1>3, Zenon

LEMMA OpenHolds ==
    ASSUME GuardsInv, NEW check \in {"processes", "parent"}, OpenSnapshot(check)
    PROVE  GuardsInv'
<1> USE DEF OpenSnapshot, GuardsInv, world, latch, direct
<1>1. PICK h \in Handles, hit \in Hits(check) :
          /\ owners[h] = "free"
          /\ owners' = [owners EXCEPT ![h] = "watchdog"]
          /\ scan' = [phase |-> "open", handle |-> h, hit |-> hit]
    OBVIOUS
<1>6. hit \in BOOLEAN /\ (hit => disturbed)
    BY HitsAreCaused
<1>2. TypeOK'
    BY <1>1, <1>6 DEF TypeOK
<1>3. NoFalseAlarm' /\ SyscallIsMeant' /\ SignsDisturb'
    BY <1>1, <1>6 DEF NoFalseAlarm, SyscallIsMeant, SignsDisturb
<1>4. OneSnapshot' /\ SnapshotIsKept'
    BY <1>1 DEF OneSnapshot, SnapshotIsKept, TypeOK
<1>5. ForeignCloseNeedsMatch'
    BY <1>1 DEF ForeignCloseNeedsMatch, TypeOK
<1> QED BY <1>2, <1>3, <1>4, <1>5

\* Closing what the watchdog still holds is safe, and so is closing anything
\* once something was found.
LEMMA CloseHolds ==
    ASSUME GuardsInv, scan.phase # "none",
           CloseHandle(scan.handle),
           UNCHANGED <<world, baseline, hidden, direct, clientHolds>>,
           at' \in [Threads -> 0 .. 7],
           detected' \in BOOLEAN, logs' = IF detected' THEN 1 ELSE 0,
           detected => detected', detected' => disturbed,
           scan' \in [phase : {"none", "open", "end"}, handle : Handles \cup {Unknown},
                      hit : BOOLEAN],
           scan'.hit => scan.hit,
           \/ scan'.phase = "none"
           \/ detected' /\ scan'.handle = scan.handle
    PROVE  GuardsInv'
<1> USE DEF GuardsInv, world, direct, CloseHandle
<1>1. scan.handle \in Handles
    BY DEF SnapshotIsKept
<1>2. TypeOK'
    BY <1>1 DEF TypeOK
<1>3. NoFalseAlarm' /\ SyscallIsMeant' /\ SignsDisturb'
    BY DEF NoFalseAlarm, SyscallIsMeant, SignsDisturb
<1>4. \A h \in Handles : owners'[h] # "watchdog"
    BY <1>1 DEF OneSnapshot, TypeOK
<1>5. OneSnapshot' /\ SnapshotIsKept'
    BY <1>1, <1>4 DEF OneSnapshot, SnapshotIsKept
<1>6. ForeignCloseNeedsMatch'
    BY <1>1 DEF ForeignCloseNeedsMatch, SnapshotIsKept, TypeOK
<1> QED BY <1>2, <1>3, <1>5, <1>6

LEMMA LookHolds ==
    ASSUME GuardsInv, Looks
    PROVE  GuardsInv'
<1>1. CASE OpenSnapshot("processes") \/ OpenSnapshot("parent")
    BY <1>1, OpenHolds
<1>2. CASE LookFails
    <2>1. at' \in [Threads -> 0 .. 7]
        BY <1>2, FollowingIsAPlace
           DEF LookFails, Looking, Doing, GuardsInv, TypeOK, Threads, GuardThreads, Watching
    <2> QED BY <1>2, <2>1, QuietStep
            DEF LookFails, GuardsInv, TypeOK, NoFalseAlarm, SyscallIsMeant, SignsDisturb,
                latch, direct
<1>3. CASE LookFinds
    <2>1. disturbed
        BY <1>3 DEF LookFinds, GuardsInv, SignsDisturb
    <2>2. /\ detected' \in BOOLEAN /\ logs' = IF detected' THEN 1 ELSE 0
          /\ (detected => detected') /\ (detected' => disturbed)
        BY <1>3, <2>1, LatchIsSafe DEF LookFinds
    <2>3. detected'
        BY <1>3 DEF LookFinds, Latch
    <2>4. /\ scan' \in [phase : {"none", "open", "end"}, handle : Handles \cup {Unknown},
                        hit : BOOLEAN]
          /\ scan'.hit = scan.hit /\ scan'.handle = scan.handle
        BY <1>3 DEF LookFinds, GuardsInv, TypeOK
    <2> QED BY <1>3, <2>2, <2>3, <2>4, CloseHolds
            DEF LookFinds, Looking, GuardsInv, TypeOK
<1>4. CASE LookEnds
    <2>1. /\ scan' \in [phase : {"none", "open", "end"}, handle : Handles \cup {Unknown},
                        hit : BOOLEAN]
          /\ scan'.hit = scan.hit /\ scan'.handle = scan.handle
          /\ scan.phase = "open" /\ scan'.phase = "end"
        BY <1>4 DEF LookEnds, Looking, GuardsInv, TypeOK
    <2> USE <1>4 DEF LookEnds, GuardsInv, world, latch, direct
    <2>2. TypeOK'
        BY <2>1 DEF TypeOK
    <2>3. NoFalseAlarm' /\ SyscallIsMeant' /\ SignsDisturb'
        BY <2>1 DEF NoFalseAlarm, SyscallIsMeant, SignsDisturb
    <2>4. OneSnapshot' /\ SnapshotIsKept' /\ ForeignCloseNeedsMatch'
        BY <2>1 DEF OneSnapshot, SnapshotIsKept, ForeignCloseNeedsMatch
    <2> QED BY <2>2, <2>3, <2>4
<1>5. CASE CloseSnapshot
    <2>1. at' \in [Threads -> 0 .. 7]
        BY <1>5, FollowingIsAPlace
           DEF CloseSnapshot, Looking, Doing, GuardsInv, TypeOK, Threads, GuardThreads,
               Watching
    <2> QED BY <1>5, <2>1, CloseHolds
            DEF CloseSnapshot, Looking, GuardsInv, TypeOK, NoFalseAlarm, latch
<1> QED BY <1>1, <1>2, <1>3, <1>4, <1>5 DEF Looks

-----------------------------------------------------------------------------
(* The steps of the others *)

LEMMA ClientHolds ==
    ASSUME GuardsInv, NEW h \in Handles, ClientOpens(h) \/ ClientCloses(h)
    PROVE  GuardsInv'
<1> USE DEF GuardsInv, ClientOpens, ClientCloses, CloseHandle, world, latch, direct
<1>1. TypeOK'
    BY DEF TypeOK
<1>2. NoFalseAlarm' /\ SyscallIsMeant' /\ SignsDisturb'
    BY DEF NoFalseAlarm, SyscallIsMeant, SignsDisturb
<1>3. OneSnapshot'
    BY DEF OneSnapshot, TypeOK
<1>4. SnapshotIsKept'
    BY DEF SnapshotIsKept, ForeignCloseNeedsMatch, TypeOK
<1>5. ForeignCloseNeedsMatch'
    BY DEF ForeignCloseNeedsMatch, TypeOK
<1> QED BY <1>1, <1>2, <1>3, <1>4, <1>5

LEMMA SignHolds ==
    ASSUME GuardsInv,
           \/ \E s \in Signs : SignShows(s) \/ SignGoes(s)
           \/ \E t \in Armable : BreakpointSet(t) \/ BreakpointGoes(t)
           \/ \E hooking \in Hookings : StubsChange(hooking)
    PROVE  GuardsInv'
<1> USE DEF GuardsInv, SignShows, SignGoes, BreakpointSet, BreakpointGoes, StubsChange,
           latch, direct, table
<1>1. TypeOK'
    <2>1. memory' \in [1 .. Stubs + 2 -> {"clean", "late", "hooked"}]
        BY GuardsAssumption DEF TypeOK
    <2>2. signs' \subseteq Signs /\ armed' \subseteq Armable /\ disturbed' \in BOOLEAN
        BY DEF TypeOK
    <2> QED BY <2>1, <2>2 DEF TypeOK
<1>2. NoFalseAlarm' /\ SyscallIsMeant'
    BY DEF NoFalseAlarm, SyscallIsMeant
<1>3. SignsDisturb'
    BY DEF SignsDisturb
<1>4. OneSnapshot' /\ SnapshotIsKept' /\ ForeignCloseNeedsMatch'
    BY DEF OneSnapshot, SnapshotIsKept, ForeignCloseNeedsMatch
<1> QED BY <1>1, <1>2, <1>3, <1>4

-----------------------------------------------------------------------------
LEMMA NextHolds == GuardsInv /\ [Next]_vars => GuardsInv'
<1> SUFFICES ASSUME GuardsInv, [Next]_vars PROVE GuardsInv'
    OBVIOUS
<1>1. CASE UNCHANGED vars
    BY <1>1 DEF vars, GuardsInv, TypeOK, NoFalseAlarm, SyscallIsMeant, SignsDisturb,
                OneSnapshot, SnapshotIsKept, ForeignCloseNeedsMatch
<1>2. CASE World
    BY <1>2, ClientHolds, SignHolds DEF World
<1>3. ASSUME NEW t \in Threads, Step(t)
      PROVE  GuardsInv'
    BY <1>3, CheckHolds, HooksHolds, StartHolds, HideHolds, PatchHolds, LookHolds DEF Step
<1> QED BY <1>1, <1>2, <1>3 DEF Next

\* The inductive invariant of the guards, for any stubs, signs and handles.
THEOREM ProtectionInvariant == Spec => []GuardsInv
BY InitHolds, NextHolds, PTL DEF Spec

\* Types; each detection is logged once.
THEOREM ProtectionTypeCorrect == Spec => []TypeOK
<1>1. GuardsInv => TypeOK
    BY DEF GuardsInv
<1> QED BY <1>1, ProtectionInvariant, PTL

\* The process alarms no check by what it does itself.
THEOREM AlarmsHaveCauses == Spec => []NoFalseAlarm
<1>1. GuardsInv => NoFalseAlarm
    BY DEF GuardsInv
<1> QED BY <1>1, ProtectionInvariant, PTL

\* The direct system call asks for the service that is meant, or is not made.
THEOREM CallsAreMeant == Spec => []SyscallIsMeant
<1>1. GuardsInv => SyscallIsMeant
    BY DEF GuardsInv
<1> QED BY <1>1, ProtectionInvariant, PTL

\* The watchdog leaks no snapshot.
THEOREM SnapshotsAreReturned == Spec => []HandlesReturned
<1>1. GuardsInv => HandlesReturned
    BY DEF GuardsInv, OneSnapshot, HandlesReturned
<1> QED BY <1>1, ProtectionInvariant, PTL

\* The second close of a snapshot can hit another handle only after a detection.
THEOREM ForeignClosesAreLate == Spec => []ForeignCloseNeedsMatch
<1>1. GuardsInv => ForeignCloseNeedsMatch
    BY DEF GuardsInv
<1> QED BY <1>1, ProtectionInvariant, PTL

=============================================================================
