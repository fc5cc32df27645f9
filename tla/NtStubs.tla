------------------------------- MODULE NtStubs -------------------------------
(***************************************************************************)
(* How raw_syscall in protection.rs finds the number of a system service   *)
(* (get_ssn): from the stub of the service in the ntdll that is loaded,    *)
(* from the nearest intact stub when that one was changed, and else from   *)
(* the file of ntdll.                                                      *)
(*                                                                         *)
(* The stubs lie side by side in the order of their numbers, which is what *)
(* the code relies on; the service k is the one with number k.  A stub is  *)
(* "clean", changed "late" (its first three bytes are left) or "hooked".   *)
(* Nobody changes a stub while it is read.                                 *)
(***************************************************************************)
EXTENDS Integers, Sequences

CONSTANTS
    Unknown,        \* no number
    Stubs,          \* how many stubs there are
    MaxDistance,    \* how many are looked at in each direction
    File            \* the file: [image, exports, addresses, sections, code]

\* File.image: it is an image with a table of exports.  exports: the names, in
\* their order, each with its ordinal.  addresses: where an ordinal's code is.
\* sections: where parts of the image are in the file.  code: the number in the
\* stub at a place of the file, Unknown where no intact stub is.
Services == 1 .. Stubs

\* The first section that holds the address says where it is in the file.
Holds(section, address) ==
    address >= section.start /\ address < section.start + section.size

RvaToOffset(address) ==
    LET holding == {i \in DOMAIN File.sections : Holds(File.sections[i], address)}
        first == CHOOSE i \in holding : \A j \in holding : i <= j
    IN  IF holding = {} THEN Unknown
        ELSE address - File.sections[first].start + File.sections[first].raw

\* What the file has at the address of the i-th export.
NumberOfExport(i) ==
    LET place == RvaToOffset(File.addresses[File.exports[i].ordinal])
    IN  IF place \in DOMAIN File.code THEN File.code[place] ELSE Unknown

\* The file is the one the system loaded: a stub in it has its own number.
ASSUME NtStubsAssumption ==
    /\ Stubs \in Nat /\ MaxDistance \in Nat
    /\ Unknown \notin Int
    /\ File.exports \in Seq([name : Nat, ordinal : Nat])
    /\ \A i \in DOMAIN File.exports :
           NumberOfExport(i) \in {Unknown, File.exports[i].name}

-----------------------------------------------------------------------------
(* In memory *)

CleanAt(memory, k) == k \in Services /\ memory[k] = "clean"

Distances(memory, k, direction) ==
    {d \in 1 .. MaxDistance : CleanAt(memory, k + direction * d)}

Nearest(distances) == CHOOSE d \in distances : \A e \in distances : d <= e

\* Mutants: the distance is added where it should be subtracted; the farther
\* direction is corrected the same way as the nearer one.
NumberAdded(k, direction, d) == k + direction * d + direction * d

\* The number in the neighbour d stubs away, less the way to it.
NumberFromNeighbour(k, direction, d) == (k + direction * d) - direction * d

-----------------------------------------------------------------------------
(* In the file *)

\* The first export of that name decides, even if its stub is not intact.
DiskSsn(k) ==
    LET named == {i \in DOMAIN File.exports : File.exports[i].name = k}
        first == CHOOSE i \in named : \A j \in named : i <= j
    IN  IF ~File.image \/ named = {} THEN Unknown ELSE NumberOfExport(first)

-----------------------------------------------------------------------------
\* Backwards first, then forwards, then the file.
GetSsn(memory, k) ==
    LET below == Distances(memory, k, -1)
        above == Distances(memory, k, 1)
    IN  IF CleanAt(memory, k) THEN k
        ELSE IF below # {} THEN NumberFromNeighbour(k, -1, Nearest(below))
        ELSE IF above # {} THEN NumberFromNeighbour(k, 1, Nearest(above))
        ELSE DiskSsn(k)

=============================================================================
