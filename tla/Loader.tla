------------------------------- MODULE Loader -------------------------------
(***************************************************************************)
(* Before main: loader.S finds a partition of the kernel's type on the     *)
(* hard disks and loads it, start.S asks the BIOS for the size of memory.  *)
(*                                                                         *)
(* The BIOS is external.  A disk has a set of sectors that cannot be read, *)
(* the word where an MBR has its signature, and four partitions; what a    *)
(* sector holds is named by its number.                                    *)
(***************************************************************************)
EXTENDS Integers, Sequences, FiniteSetsExt

CONSTANTS
    Cap,   \* the sectors of 512 kB
    Room,  \* the sectors from the load address to 1 MB
    BX     \* what the registers bx and cx count up to

ASSUME LoaderAssumption == /\ {Cap, Room, BX} \subseteq Nat \ {0}
                           /\ Cap <= Room /\ Room < BX

SIG == 43605    \* 0xaa55
KERNEL_TYPE == 32
BOOTABLE == 128

---------------------------------------------------------------------------
(* The scan.                                                               *)

read_sector(disk, n) == n \notin disk.bad

load_kernel_from(disk) ==
    IF ~read_sector(disk, 0) \/ disk.sig # SIG THEN {}
    ELSE {p \in DOMAIN disk.parts : disk.parts[p].type = KERNEL_TYPE
                                    /\ disk.parts[p].active = BOOTABLE}

\* next_drive jumps back while the carry flag is clear, which inc leaves as the
\* comparison with the signature has set it; after four partitions it is clear.
next_drive(disk) ==
    read_sector(disk, 0) /\ load_kernel_from(disk) = {} /\ disk.sig >= SIG

\* The drive the loop over dl loads from, if there is one.
scan(disks) ==
    {d \in DOMAIN disks : /\ load_kernel_from(disks[d]) # {}
                          /\ \A e \in 1 .. d - 1 : next_drive(disks[e])}

---------------------------------------------------------------------------
(* The load.                                                               *)

\* Mutant: a large partition is loaded whole.
whole_partition(count) == count
sectors_to_load(count) == IF count <= Cap THEN count ELSE Cap

\* inc %bx does not carry into the upper half of ebx.
sector(first, k) == ((first \div BX) * BX) + ((first + k) % BX)

\* loop decrements cx before it tests it.
times(cx) == IF cx = 0 THEN BX ELSE cx

Outcome(how, image) == [how |-> how, image |-> image]

\* Above 1 MB the load address wraps to 0, onto the BIOS's vectors and the loader.
load_kernel(disk, p) ==
    LET image == [k \in 1 .. times(sectors_to_load(p.count)) |-> sector(p.first, k - 1)]
    IN  CASE \E k \in 1 .. Min({Len(image), Room}) : ~read_sector(disk, image[k]) ->
                 Outcome("Bad read", <<>>)
          [] Len(image) > Room -> Outcome("overwrites", <<>>)
          [] OTHER -> Outcome("start", image)

loader(disks) ==
    IF scan(disks) = {} THEN Outcome("Not found", <<>>)
    ELSE LET disk == disks[Min(scan(disks))]
         IN  load_kernel(disk, disk.parts[Min(load_kernel_from(disk))])

---------------------------------------------------------------------------
(* Memory, in kB: addresses and lengths of e820 have their lower 32 bits.  *)

MB == 1024
Low(x) == x % 2 ^ 22

takes(r) == Low(r.base) >= MB /\ r.type = 1 /\ Low(r.length) > 63 * MB

\* function88: the kB above 1 MB by function 88h, which a BIOS counts in 16 bits.
pages_by_88h(function88) ==
    (IF function88 + MB <= 64 * MB THEN function88 + MB ELSE 64 * MB) \div 4

\* The first region of more than 63 MB above 1 MB is taken to start there.  A BIOS
\* that keeps its place in the map in bits 8 to 15 of ebx is left out: printing a
\* region clears them (start.S:322).
init_ram_pages(function88, regions) ==
    LET taken == {k \in DOMAIN regions : takes(regions[k])}
    IN  IF taken = {} THEN pages_by_88h(function88)
        ELSE Low(regions[Min(taken)].length + MB) \div 4
=============================================================================
