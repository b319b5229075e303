------------------------------ MODULE Strings ------------------------------
(***************************************************************************)
(* string.c, and what is decided with it: the block registry's lookup by   *)
(* name and the strings a disk identifies itself with.                     *)
(*                                                                         *)
(* Memory is a function from addresses to characters; NULL is an address   *)
(* outside of it.                                                          *)
(***************************************************************************)
EXTENDS Integers, Sequences, FiniteSets, FiniteSetsExt, SequencesExt

NULL == -1
NUL == 0    SPACE == 32

Positions(n) == [k \in 1 .. n |-> k - 1]

\* The order of the copy: memmove is memcpy.
forward(size) == Positions(size)

memcpy(mem, dest, src, size) ==
    IF dest = NULL \/ src = NULL THEN mem
    ELSE FoldLeft(LAMBDA m, k : [m EXCEPT ![dest + k] = m[src + k]], mem, forward(size))
memmove(mem, dest, src, size) == memcpy(mem, dest, src, size)

strlen(mem, str) ==
    IF str = NULL THEN 0
    ELSE Min({n \in 0 .. Cardinality(DOMAIN mem) : str + n \in DOMAIN mem /\ mem[str + n] = NUL})

\* Mutant: no room is left for the terminator.
room_for_text(size) == size
room(size) == size - 1

strlcpy(mem, dest, src, size) ==
    LET src_len  == strlen(mem, src)
        dest_len == IF src_len < room(size) THEN src_len ELSE room(size)
    IN  IF size = 0 THEN mem
        ELSE [memcpy(mem, dest, src, dest_len) EXCEPT ![dest + dest_len] = NUL]

ends(c, d) == c = NUL \/ c # d

\* A difference is stepped over before it ends the loop; the result compares
\* the characters that follow.
strcmp(mem, str1, str2) ==
    LET n == Min({k \in 0 .. Cardinality(DOMAIN mem) :
                     str1 + k \in DOMAIN mem /\ str2 + k \in DOMAIN mem
                     /\ ends(mem[str1 + k], mem[str2 + k])})
        over == IF mem[str1 + n] = NUL THEN n ELSE n + 1
        c == mem[str1 + over]    d == mem[str2 + over]
    IN  CASE c < d -> -1 [] c > d -> 1 [] OTHER -> 0

---------------------------------------------------------------------------
(* The registry: block_devices in the order of block_register.             *)

block_register(devices, blk) == Append(devices, blk)

\* names[blk] is the address of the block's name in mem.
blcok_get_by_name(mem, names, devices, name) ==
    LET found == {k \in DOMAIN devices : strcmp(mem, name, names[devices[k]]) = 0}
    IN  IF found = {} THEN NULL ELSE devices[Min(found)]

---------------------------------------------------------------------------
\* The words of an identification have their bytes swapped; then the last
\* character that is not NUL makes room for a terminator.
SwapBytes(orig) == [k \in DOMAIN orig |-> IF k % 2 = 1 THEN orig[k + 1] ELSE orig[k - 1]]

terminate(s) == [s EXCEPT ![Max({1} \cup {k \in DOMAIN s : s[k] # NUL})] = NUL]

manipulate_info_string(orig) == terminate(SwapBytes(orig))
=============================================================================
