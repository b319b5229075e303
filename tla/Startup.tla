------------------------------ MODULE Startup ------------------------------
(***************************************************************************)
(* What main does with memory before there are tasks: mm_init makes the    *)
(* pool of page frames, kernel_pg_dir_init maps all of RAM at KBase.       *)
(*                                                                         *)
(* Memory is counted in pages.  A page table is a function of its entries, *)
(* and memory holds arbitrary values until it is written.                  *)
(***************************************************************************)
EXTENDS Integers, Sequences, FiniteSets, FiniteSetsExt, SequencesExt, TLC

CONSTANTS
    PAGE_SIZE,    \* in bytes
    PoolStart,    \* the page of KERNEL_MEM_POOL_PHY_START
    KBase,        \* the page of LOADER_PHYS_BASE
    Text,         \* the pages from _start to _end_kernel_text
    BootTables    \* the page tables start.S has prepared

Entries == PAGE_SIZE \div 4   \* PTEs of a page
Header  == 4                  \* sizeof(bitmap)

ASSUME StartupAssumption ==
    /\ PAGE_SIZE % 4 = 0 /\ PAGE_SIZE > Header
    /\ PoolStart \in Nat /\ KBase % Entries = 0
    /\ Text \subseteq 0 .. PoolStart - 1
    /\ BootTables \in Nat

DIV_ROUND_UP(nom, denom) == (nom + denom - 1) \div denom
bitmap_required_buf_size(bits) == DIV_ROUND_UP(bits, 8)

\* The pages the page directory of start.S maps: whole tables only.
boot_mapped(ram) == Min({ram \div Entries, BootTables}) * Entries

---------------------------------------------------------------------------
(* mm_init.                                                                *)

bm_pages(pages) == DIV_ROUND_UP(bitmap_required_buf_size(pages) + Header, PAGE_SIZE)

\* bitmap_config_all(bm, false) over the garbage in its buffer: whole words,
\* then the bits of the last one.
bitmap_config_all(garbage, bit_count) ==
    LET u32_bound == bit_count \div 32
    IN  [k \in DOMAIN garbage |->
            IF k < 32 * u32_bound THEN FALSE
            ELSE IF k < bit_count THEN FALSE ELSE garbage[k]]

mem_pool_init(garbage, pages) ==
    LET bit_count == pages - bm_pages(pages) IN
    [created   |-> bm_pages(pages) * PAGE_SIZE - Header >= bitmap_required_buf_size(bit_count),
     bit_count |-> bit_count,
     base      |-> PoolStart + bm_pages(pages),
     bits      |-> bitmap_config_all(garbage, bit_count)]

mm_init(garbage, page_num) == mem_pool_init(garbage, page_num - PoolStart)

---------------------------------------------------------------------------
(* kernel_pg_dir_init.                                                     *)

virt_to_pd_idx(page) == (page \div Entries) % Entries
virt_to_pt_idx(page) == page % Entries
ptov(page) == (KBase + page) % (Entries * Entries)

Zeroed == [k \in 0 .. Entries - 1 |-> 0]
Garbage == [k \in 0 .. Entries - 1 |-> -1]

\* An entry: the frame above the flags.
PTE_P == 1
PTE_W == 2
mk_pte(frame, flags) == 4 * frame + flags

\* mm_kget_page(PF_ZERO | PF_ATOMIC): the first free page, zeroed.
first_free(pool) == Min({k \in 0 .. pool.bit_count - 1 : ~pool.bits[k]})
page_of(pool) == pool.base + first_free(pool)

\* Mutant: the page is not zeroed.
page_as_it_is(page) == Garbage
page_zeroed(page) == Zeroed

\* s: the pool, the tables by their page, the directory and the table in use.
mm_kget_page(s) ==
    [s EXCEPT !.pool.bits[first_free(s.pool)] = TRUE,
              !.tables = (page_of(s.pool) :> page_zeroed(page_of(s.pool))) @@ @]

writable(page) == page \notin Text

map_page(s, i) ==
    LET pd_idx == virt_to_pd_idx(ptov(i))
        absent == s.tables[s.pd][pd_idx] = 0
        pt     == IF absent THEN page_of(s.pool) ELSE s.pt
        t      == IF absent
                  THEN [mm_kget_page(s) EXCEPT !.pt = pt, !.tables[s.pd][pd_idx] =
                                              mk_pte(pt, PTE_P + PTE_W)]
                  ELSE s
    IN  [t EXCEPT !.tables[pt][virt_to_pt_idx(ptov(i))] =
                      mk_pte(i, PTE_P + (IF writable(i) THEN PTE_W ELSE 0))]

kernel_pg_dir_init(pool, ram) ==
    LET start == mm_kget_page([pool |-> pool, tables |-> <<>>,
                               pd |-> page_of(pool), pt |-> 0])
    IN  FoldLeft(map_page, start, [k \in 1 .. ram |-> k - 1])
=============================================================================
