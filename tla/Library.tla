------------------------------ MODULE Library ------------------------------
(***************************************************************************)
(* One call of a function of the kernel that computes or initialises, with *)
(* each argument of a bounded set, and what the result must be.            *)
(***************************************************************************)
EXTENDS Strings, Printf, Startup, Ports, Loader

CONSTANTS
    Size,       \* of the memory string.c works on
    Mems,       \* memories
    Devices,    \* sequences of registered disks
    Infos,      \* texts a disk is identified by
    Formats,    \* formats of one and of two conversions
    Frequencies,
    Rams,       \* init_ram_pages
    Pages,      \* init_ram_pages of larger machines, for mm_init alone
    Machines,   \* sequences of hard disks
    Memories    \* what the BIOS says of memory: function 88h, and e820's regions

Address == 0 .. Size - 1

VARIABLES fn, arg, ret
vars == <<fn, arg, ret>>

Calls(f, args) == fn = f /\ arg \in args

\* Ranges that lie in memory.
Ranges == {r \in [dest : Address, src : Address, size : 0 .. Size] :
              r.dest + r.size <= Size /\ r.src + r.size <= Size}

\* strlcpy's source ends in NUL and is apart from its destination.
Copies == {r \in [mem : Mems, dest : Address, src : Address, size : 1 .. Size] :
              /\ r.dest + r.size <= r.src
              /\ \E a \in r.src .. Size - 1 : r.mem[a] = NUL}

\* The names of the disks, as ide_init makes them, and two that no disk has: "ram"
\* and "hda1".  NameMem holds them padded, as the zeroed name fields of the disks.
Disk == 1 .. 4
DiskName == [d \in Disk |-> <<104, 100, 96 + d>>]
Names    == DiskName @@ (5 :> <<114, 97, 109>>) @@ (6 :> <<104, 100, 97, 49>>)
NameSize == 8
NameAt   == [n \in DOMAIN Names |-> NameSize * (n - 1)]
NameMem  == [a \in 0 .. NameSize * 6 - 1 |->
                LET text == Names[(a \div NameSize) + 1]  k == (a % NameSize) + 1
                IN  IF k <= Len(text) THEN text[k] ELSE NUL]

\* A text padded with blanks to the words of an identification, bytes swapped.
Identification(text, size) ==
    SwapBytes([k \in 1 .. size |-> IF k <= Len(text) THEN text[k] ELSE SPACE])
InfoSize == 4

\* What the pages of a bitmap hold at first.
Noise == {[k \in 0 .. 16 * PAGE_SIZE - 1 |-> TRUE],
          [k \in 0 .. 16 * PAGE_SIZE - 1 |-> k % 3 = 0]}

Init ==
    /\ ret = <<>>
    /\ \/ Calls("memmove", Mems \X Ranges)
       \/ Calls("strlcpy", Copies)
       \/ Calls("lookup", Devices \X DOMAIN Names)
       \/ Calls("info", Infos)
       \/ Calls("vsprintf", Formats)
       \/ Calls("timer", Frequencies)
       \/ Calls("serial_init", {<<>>})
       \/ Calls("mm_init", Noise \X Pages)
       \/ Calls("startup", Noise \X Rams)
       \/ Calls("loader", Machines)
       \/ Calls("memory", Memories)

Returns(f, value) == fn = f /\ ret' = value

Call ==
    /\ ret = <<>>
    /\ \/ Returns("memmove", <<memmove(arg[1], arg[2].dest, arg[2].src, arg[2].size)>>)
       \/ Returns("strlcpy", <<strlcpy(arg.mem, arg.dest, arg.src, arg.size)>>)
       \/ Returns("lookup",
              LET devices == FoldLeft(block_register, <<>>, arg[1])
              IN  <<blcok_get_by_name(NameMem, NameAt, devices, NameAt[arg[2]])>>)
       \/ Returns("info", <<manipulate_info_string(Identification(arg, InfoSize))>>)
       \/ Returns("vsprintf", <<vsprintf(arg)>>)
       \/ Returns("timer", <<hw_timer_config(0, 2, arg)>>)
       \/ Returns("serial_init", <<serial_init>>)
       \/ Returns("mm_init", <<mm_init(arg[1], arg[2])>>)
       \/ Returns("loader", <<loader(arg)>>)
       \/ Returns("memory", <<init_ram_pages(arg.function88, arg.regions)>>)
       \/ Returns("startup",
              LET pool == mm_init(arg[1], arg[2])
              IN  <<pool, kernel_pg_dir_init(pool, arg[2])>>)
    /\ UNCHANGED <<fn, arg>>

Spec == Init /\ [][Call]_vars

---------------------------------------------------------------------------
(* Properties.                                                             *)

Returned(f) == fn = f /\ ret # <<>>

\* memmove copies forward whatever the overlap.  It moves what it should, and
\* changes nothing else, when the destination does not lie within the source
\* above its start; so it does for the rows newline moves up.
MovesDown ==
    Returned("memmove") =>
        LET m == arg[1]  r == arg[2]
        IN  r.dest <= r.src \/ r.dest >= r.src + r.size =>
                ret[1] = [a \in Address |-> IF a \in r.dest .. r.dest + r.size - 1
                                            THEN m[a - r.dest + r.src] ELSE m[a]]

\* strlcpy leaves a text that ends within its size, the longest start of the
\* source that does, and writes nowhere else.
CopyEnds ==
    Returned("strlcpy") =>
        LET len == strlen(ret[1], arg.dest)
        IN  /\ len < arg.size
            /\ \A k \in 0 .. len - 1 : ret[1][arg.dest + k] = arg.mem[arg.src + k]
            /\ len = arg.size - 1 \/ arg.mem[arg.src + len] = NUL
            /\ \A a \in Address \ (arg.dest .. arg.dest + arg.size - 1) : ret[1][a] = arg.mem[a]

\* blcok_get_by_name returns the registered disk of that name, or NULL if there is
\* none: what main asks of it (init.c: "hda").
FindsByName ==
    Returned("lookup") =>
        LET named == {k \in DOMAIN arg[1] : Names[arg[1][k]] = Names[arg[2]]}
        IN  ret[1] = IF named = {} THEN NULL ELSE arg[1][Min(named)]

\* strcmp steps over the first difference: it takes two names for the same one if
\* the next characters are equal, as those of "hda" and "hdb".
Confusable(name, other) ==
    LET char(n, j) == NameMem[NameAt[n] + j]
        k == Min({j \in 0 .. NameSize - 1 : ends(char(name, j), char(other, j))})
    IN  char(name, k) \notin {NUL, char(other, k)} /\ char(name, k + 1) = char(other, k + 1)

\* The lookup finds by name but for that: it does so unless it meets, before the disk
\* asked for, one whose name strcmp confuses with it.  Run name_lookup shows the rest.
LookupFinds ==
    LET meets == \E k \in DOMAIN arg[1] : /\ Confusable(arg[2], arg[1][k])
                                          /\ \A j \in 1 .. k : arg[1][j] # arg[2]
    IN  Returned("lookup") /\ ~meets =>
            ret[1] = IF arg[2] \in Range(arg[1]) THEN arg[2] ELSE NULL

\* A disk's text comes out whole if a blank or more follows it.  Nothing is said of
\* a text that fills its words: the terminator takes its last character's place.
InfoKeepsText ==
    Returned("info") /\ Len(arg) < InfoSize =>
        ret[1] = arg \o [k \in 1 .. InfoSize - 1 - Len(arg) |-> SPACE] \o <<NUL>>

\* Texts are moved, copied, found and shown without a character more or less, with
\* the exceptions that the four statements name.
TextsKept == MovesDown /\ CopyEnds /\ LookupFinds /\ InfoKeepsText

\* The value of the digits of a text.
Digit(c) == IF c >= 97 THEN c - 87 ELSE IF c >= 65 THEN c - 55 ELSE c - 48
Value(base, text) == FoldLeft(LAMBDA v, c : v * base + Digit(c), 0, text)
Base(d) == CASE d.conv \in {"x", "X", "p"} -> 16 [] d.conv = "o" -> 8 [] OTHER -> 10

\* A number that one conversion formats reads back as itself, the lowest int
\* too, which has no negative; and %0 fills its width and no more.
OneReadsBack ==
    Returned("vsprintf") /\ Len(arg) = 1 =>
        LET d == arg[1]
            negative == d.conv = "d" /\ Signed(d.arg) < 0
            digits == IF negative THEN Tail(ret[1]) ELSE ret[1]
        IN  /\ Value(Base(d), digits) = IF negative THEN -Signed(d.arg) ELSE Unsigned(d.arg)
            /\ d.zero /\ digits[1] = 48 => Len(digits) = Max({1, IF d.conv = "p" THEN Width \div 4 ELSE d.width})
            /\ d.zero /\ d.conv # "p" => Len(digits) >= d.width

\* A conversion does not depend on those before it, but for the two flags they
\* leave behind: %p and a width without 0 are padded after a %0, and %X and %p
\* have small letters after %x.
Leaks(first, d) == \/ first.zero /\ ~d.zero /\ (d.width > 0 \/ d.conv = "p")
                   \/ first.conv = "x" /\ d.conv \in {"X", "p"}
ConversionsIndependent ==
    Returned("vsprintf") /\ Len(arg) = 2 =>
        Leaks(arg[1], arg[2]) \/ ret[1] = vsprintf(<<arg[1]>>) \o vsprintf(<<arg[2]>>)

\* What vsprintf writes of its numbers can be read back, of one and of several.
NumbersReadBack == OneReadsBack /\ ConversionsIndependent

\* The timer's rate is the nearest not below the one asked for, of those 16 bits
\* can say, and for lower ones the lowest.  At 18 Hz the divisor does not fit, and
\* the highest rate of all is no divisor mode 2 has.
RateIsNearest ==
    Returned("timer") /\ arg \notin {18} \cup (TICK_HZ \div 2 + 1 .. TICK_HZ) =>
        LET best == IF arg > TICK_HZ THEN 2 ELSE Min({65536, TICK_HZ \div arg})
        IN  ret[1] = best

\* After serial_init only the receiver interrupts, although serial_set_rate has
\* written half of the divisor to the register of the interrupts.
OnlyReceiver == Returned("serial_init") => ret[1].IER = 1

\* hw_timer_init and serial_init leave their chips interrupting at the rate and
\* for the reasons their callers ask for.
ChipsSetUp == RateIsNearest /\ OnlyReceiver

\* serial.c: "8 bits, 1 stop bit, no parity bit".
LineIs8N1 == Returned("serial_init") => ret[1].LCR % 64 = 3

---------------------------------------------------------------------------
(* Properties of what runs before main.                                    *)

\* A disk the loader should load from, by the comments of loader.S, and the
\* sectors it should load: those of the first such partition, at most Cap.
HasKernel(disk) == \E p \in 1 .. 4 : /\ 0 \notin disk.bad /\ disk.sig = SIG
                                    /\ disk.parts[p].type = 32 /\ disk.parts[p].active = 128
KernelPart(disk) ==
    LET p == CHOOSE p \in 1 .. 4 :
                 /\ disk.parts[p].type = 32 /\ disk.parts[p].active = 128
                 /\ \A q \in 1 .. p - 1 : disk.parts[q].type = 32 => disk.parts[q].active # 128
    IN  disk.parts[p]
Wanted(part) == [k \in 1 .. Min({part.count, Cap}) |-> part.first + k - 1]
Crosses(part) == \E k \in DOMAIN Wanted(part) : Wanted(part)[k] \div BX # part.first \div BX

\* Where the loader is known not to do what its comments say: it goes on to the next
\* drive only if the comparison with the signature left no borrow (loader.S:109), it
\* counts the sectors of a large disk in 16 bits (loader.S:158), and an empty
\* partition makes `loop' go round 65536 times (loader.S:159).
EndsScan(disk) == disk.sig < SIG
Misloads(part) == Crosses(part) \/ part.count = 0

\* The loader loads the first kernel there is, whole, or says that it cannot.  A
\* drive that cannot be read is the last one of the machine.
LoadsKernel ==
    Returned("loader") =>
        LET with == {d \in DOMAIN arg : /\ HasKernel(arg[d])
                                        /\ \A e \in 1 .. d - 1 : 0 \notin arg[e].bad}
            d    == Min(with)
            part == KernelPart(arg[d])
        IN  IF with = {} THEN ret[1].how = "Not found"
            ELSE \/ \E e \in 1 .. d - 1 : EndsScan(arg[e])
                 \/ Misloads(part)
                 \/ ret[1] = IF Range(Wanted(part)) \cap arg[d].bad = {}
                             THEN Outcome("start", Wanted(part)) ELSE Outcome("Bad read", <<>>)

\* Every page from 1 MB to init_ram_pages is available memory, and above 64 MB
\* it is all there is below the next hole.  A large region that does not start
\* at 1 MB is the exception: its length is counted from there.
PagesAreRam ==
    Returned("memory") =>
        LET available == {r \in Range(arg.regions) : r.type = 1}
            large == {r \in available : r.length > 63 * MB /\ r.base % 2 ^ 22 >= MB}
        IN  (\A r \in large : r.base = MB) =>
                /\ \A page \in {256, ret[1] - 1} : \E r \in available :
                      r.base <= 4 * page /\ 4 * page + 4 <= r.base + r.length
                /\ \A r \in large : 4 * ret[1] = r.base + r.length

---------------------------------------------------------------------------
(* Properties of the start-up.  RAM is 4 MB or more: a table's worth.       *)

Pool    == ret[1]
Tables  == ret[2].tables
Frame(pte) == pte \div 4
Present(pte) == pte % 2 = 1
CanWrite(pte) == (pte \div 2) % 2 = 1
Used == {Pool.base + k : k \in {k \in 0 .. Pool.bit_count - 1 : ret[2].pool.bits[k]}}

\* The pool's bitmap fits the pages set aside for it, to the last word, and they
\* are not in the pool; the pool ends where RAM ends; every page of it is free,
\* whatever memory held.
PoolCoversRam ==
    Returned("startup") \/ Returned("mm_init") =>
        /\ Pool.created
        /\ Header + 4 * DIV_ROUND_UP(Pool.bit_count, 32) <= (Pool.base - PoolStart) * PAGE_SIZE
        /\ Pool.base + Pool.bit_count = arg[2]
        /\ \A k \in 0 .. Pool.bit_count - 1 : ~Pool.bits[k]

\* Up to set_cr3 memory is reached through the tables of start.S, which leave out
\* the last 4 MB if they are not whole: everything the start-up writes lies below.
WritesMapped ==
    Returned("startup") =>
        \A page \in (PoolStart .. Pool.base - 1) \cup DOMAIN Tables : page < boot_mapped(arg[2])

\* The tables lie in pages of their own that the pool has given away.
TablesOwned ==
    Returned("startup") =>
        /\ DOMAIN Tables = Used
        /\ ret[2].pd \in Used

\* The new directory maps every page of RAM at its address above KBase, writable but
\* for the kernel's text, and no address above those.  RAM that does not fit above
\* KBase, 1 GB in the kernel, is left out: its addresses wrap (init.c:91).
MapsAllOfRam ==
    Returned("startup") /\ KBase + arg[2] <= Entries * Entries =>
        LET pd == Tables[ret[2].pd]
            pde(v) == pd[virt_to_pd_idx(v)]
            pte(v) == Tables[Frame(pde(v))][virt_to_pt_idx(v)]
            table(v) == Present(pde(v)) /\ Frame(pde(v)) \in Used \ {ret[2].pd}
        IN  /\ \A frame \in 0 .. arg[2] - 1 :
                   LET v == KBase + frame IN
                   /\ table(v) /\ Present(pte(v)) /\ Frame(pte(v)) = frame
                   /\ CanWrite(pte(v)) = (frame \notin Text)
            /\ \A v \in KBase + arg[2] .. Entries * Entries - 1 :
                   Present(pde(v)) => table(v) /\ ~Present(pte(v))

\* From the BIOS's memory map to set_cr3: the pages counted are RAM, the pool and
\* its bitmap share them out, and the tables taken from the pool, written through
\* the boot tables, map them all.
MemoryMapped == PagesAreRam /\ PoolCoversRam /\ WritesMapped /\ TablesOwned /\ MapsAllOfRam
=============================================================================
