------------------------------- MODULE Tlsf ---------------------------------
(***************************************************************************)
(* src/src/tlsf.c, the two-level segregated fit allocator behind           *)
(* BufferPool, on a memory of words: sizes and addresses are multiples of  *)
(* ALIGN_SIZE throughout the code, so a word is the unit here.             *)
(*                                                                         *)
(* An operator takes the heap h and returns the heap after the C function  *)
(* it models.  The fields of a block header at address b are the words     *)
(*    b      prev_phys_block, the last data word of the block before it    *)
(*    b + 1  size, with the free bit and the prev_free bit below it        *)
(*    b + 2  next_free, the first data word of a block in use              *)
(*    b + 3  prev_free                                                     *)
(* What a free block or memory just handed out holds is never read, nor    *)
(* are the links of block_null; those words are Junk.                      *)
(***************************************************************************)
EXTENDS Integers, FiniteSets, TLC

CONSTANTS SL_INDEX_COUNT_LOG2, FL_INDEX_MAX,   \* FL_INDEX_MAX for words
          PoolSize                             \* pool_bytes, in words

ASSUME TlsfAssumption ==
          /\ SL_INDEX_COUNT_LOG2 \in Nat /\ FL_INDEX_MAX \in Nat
          /\ SL_INDEX_COUNT_LOG2 <= FL_INDEX_MAX
          /\ PoolSize \in 3 .. 2 ^ FL_INDEX_MAX - 1

SL_INDEX_COUNT == 2 ^ SL_INDEX_COUNT_LOG2
FL_INDEX_COUNT == FL_INDEX_MAX - SL_INDEX_COUNT_LOG2 + 1
SMALL_BLOCK_SIZE == SL_INDEX_COUNT

block_header_overhead == 1
block_header_size == 4        \* sizeof(block_header_t)
block_size_min == 3
block_size_max == 2 ^ FL_INDEX_MAX

(* control->block_null comes first; the last word of control_t is where    *)
(* the prev_phys_block of the first block would be.                        *)
block_null == 0
FirstBlock == 4
Sentinel == FirstBlock + block_header_overhead + PoolSize
Addresses == 0 .. Sentinel + 1
NoPtr == 0
Junk == 0

Lists == (0 .. FL_INDEX_COUNT - 1) \X (0 .. SL_INDEX_COUNT - 1)

-----------------------------------------------------------------------------
block_size(h, b) == h.mem[b + 1] \div 4
block_is_prev_free(h, b) == h.mem[b + 1] % 4 >= 2
block_is_free(h, b) == h.mem[b + 1] % 2 = 1

SetSize(h, b, size) == [h EXCEPT !.mem[b + 1] = 4 * size + (@ % 4)]
SetFree(h, b, bit) == [h EXCEPT !.mem[b + 1] = 2 * (@ \div 2) + bit]
SetPrevFree(h, b, bit) == [h EXCEPT !.mem[b + 1] = 4 * (@ \div 4) + 2 * bit + (@ % 2)]

block_from_ptr(p) == p - 2
block_to_ptr(b) == b + 2
block_next(h, b) == b + block_header_overhead + block_size(h, b)

block_link_next(h, b) == [h EXCEPT !.mem[block_next(h, b)] = b]

block_mark_as_free(h, b) ==
    SetFree(SetPrevFree(block_link_next(h, b), block_next(h, b), 1), b, 1)
block_mark_as_used(h, b) ==
    SetFree(SetPrevFree(h, block_next(h, b), 0), b, 0)

Forget(h, words) == [h EXCEPT !.mem = [a \in words |-> Junk] @@ @]

(* 0 for a request that no block could hold.                               *)
adjust_request_size(size) ==
    IF size = 0 \/ size >= block_size_max THEN 0
    ELSE IF size < block_size_min THEN block_size_min ELSE size

-----------------------------------------------------------------------------
fls(size) == CHOOSE i \in 0 .. FL_INDEX_MAX + 1 : 2 ^ i <= size /\ size < 2 ^ (i + 1)

mapping_insert(size) ==
    IF size < SMALL_BLOCK_SIZE THEN <<0, size>>
    ELSE LET i == fls(size) - SL_INDEX_COUNT_LOG2
         IN  <<i + 1, size \div 2 ^ i - SL_INDEX_COUNT>>

mapping_search(size) ==
    mapping_insert(IF size < SMALL_BLOCK_SIZE THEN size
                   ELSE size + 2 ^ (fls(size) - SL_INDEX_COUNT_LOG2) - 1)

Least(S) == CHOOSE i \in S : \A j \in S : i <= j   \* tlsf_ffs

(* The list a block is taken from; none when the memory is exhausted.      *)
FirstLevelOnly(h, fl, sl) ==   \* wrong: the next first level is not searched
    LET near == {j \in h.sl_bitmap[fl] : j >= sl}
    IN  IF near # {} THEN {<<fl, Least(near)>>} ELSE {}
search_suitable_block(h, fl, sl) ==
    LET near == {j \in h.sl_bitmap[fl] : j >= sl}
        far == {i \in h.fl_bitmap : i > fl}
    IN  IF near # {} THEN {<<fl, Least(near)>>}
        ELSE {<<i, Least(h.sl_bitmap[i])>> : i \in {i \in far : i = Least(far)}}

(* next comes after prev on a free list.                                   *)
Linked(mem, prev, next) ==
    [mem EXCEPT ![next + 3] = prev, ![prev + 2] = next,
                ![block_null + 2] = Junk, ![block_null + 3] = Junk]

remove_free_block(h, b, list) ==
    LET next == h.mem[b + 2]
        prev == h.mem[b + 3]
        left == h.sl_bitmap[list[1]] \ {list[2]}
        out == [h EXCEPT !.mem = Linked(@, prev, next)]
        headOut == IF h.blocks[list] = b THEN [out EXCEPT !.blocks[list] = next] ELSE out
    IN  IF h.blocks[list] # b \/ next # block_null THEN headOut
        ELSE [headOut EXCEPT !.sl_bitmap[list[1]] = left,
                             !.fl_bitmap = IF left = {} THEN @ \ {list[1]} ELSE @]

insert_free_block(h, b, list) ==
    [h EXCEPT !.mem = Linked(Linked(@, block_null, b), b, h.blocks[list]),
              !.blocks[list] = b,
              !.fl_bitmap = @ \cup {list[1]},
              !.sl_bitmap[list[1]] = @ \cup {list[2]}]

block_remove(h, b) == remove_free_block(h, b, mapping_insert(block_size(h, b)))
block_insert(h, b) == insert_free_block(h, b, mapping_insert(block_size(h, b)))

-----------------------------------------------------------------------------
block_can_split(h, b, size) == block_size(h, b) >= block_header_size + size

SplitAt(b, size) == b + block_header_overhead + size
block_split(h, b, size) ==
    LET rest == SplitAt(b, size)
        restSize == block_size(h, b) - (size + block_header_overhead)
    IN  block_mark_as_free(SetSize(SetSize(h, rest, restSize), b, size), rest)

block_absorb(h, prev, b) ==
    block_link_next([h EXCEPT !.mem[prev + 1] = @ + 4 * (block_size(h, b) + block_header_overhead)],
                    prev)

(* Merging returns a heap and the block that has absorbed the other.       *)
NotMergedPrev(h, b) == [heap |-> h, block |-> b]   \* wrong: never coalesces
block_merge_prev(h, b) ==
    IF block_is_prev_free(h, b)
    THEN LET prev == h.mem[b]
         IN  [heap |-> block_absorb(block_remove(h, prev), prev, b), block |-> prev]
    ELSE [heap |-> h, block |-> b]
block_merge_next(h, b) ==
    LET next == block_next(h, b)
    IN  IF block_is_free(h, next) THEN block_absorb(block_remove(h, next), b, next) ELSE h

block_trim_free(h, b, size) ==
    IF block_can_split(h, b, size)
    THEN LET rest == SplitAt(b, size)
         IN  block_insert(SetPrevFree(block_link_next(block_split(h, b, size), b), rest, 1), rest)
    ELSE h

block_trim_used(h, b, size) ==
    IF block_can_split(h, b, size)
    THEN LET rest == SplitAt(b, size)
             merged == block_merge_next(SetPrevFree(block_split(h, b, size), rest, 0), rest)
         IN  Forget(block_insert(merged, rest), rest + 4 .. block_next(merged, rest) - 1)
    ELSE h

(* The blocks block_locate_free may return: one, or none.                  *)
block_locate_free(h, size) ==
    LET list == mapping_search(size)
    IN  IF size = 0 \/ list[1] >= FL_INDEX_COUNT THEN {}
        ELSE search_suitable_block(h, list[1], list[2])

block_prepare_used(h, b, size) == block_mark_as_used(block_trim_free(h, b, size), b)

-----------------------------------------------------------------------------
(* tlsf_malloc and tlsf_realloc return a heap and a pointer.               *)
tlsf_malloc(h, size) ==
    LET adjust == adjust_request_size(size)
        lists == block_locate_free(h, adjust)
    IN  IF lists = {} THEN [heap |-> h, ptr |-> NoPtr]
        ELSE LET list == CHOOSE l \in lists : TRUE
                 b == h.blocks[list]
                 used == block_prepare_used(remove_free_block(h, b, list), b, adjust)
             IN  [heap |-> Forget(used, b + 2 .. block_next(used, b)), ptr |-> block_to_ptr(b)]

tlsf_free(h, ptr) ==
    IF ptr = NoPtr THEN h
    ELSE LET b == block_from_ptr(ptr)
             prev == block_merge_prev(block_mark_as_free(h, b), b)
             merged == block_merge_next(prev.heap, prev.block)
         IN  Forget(block_insert(merged, prev.block),
                    prev.block + 4 .. block_next(merged, prev.block) - 1)

memcpy(h, to, from, n) ==
    [h EXCEPT !.mem = [a \in to .. to + n - 1 |-> h.mem[from + a - to]] @@ @]

InPlace(h, ptr, adjust) ==
    LET b == block_from_ptr(ptr)
        cursize == block_size(h, b)
        merged == block_mark_as_used(block_merge_next(h, b), b)
        wide == IF adjust > cursize
                THEN Forget(merged, ptr + cursize .. block_next(merged, b)) ELSE h
    IN  [heap |-> block_trim_used(wide, b, adjust), ptr |-> ptr]

tlsf_realloc(h, ptr, size) ==
    LET b == block_from_ptr(ptr)
        next == block_next(h, b)
        cursize == block_size(h, b)
        combined == cursize + block_size(h, next) + block_header_overhead
        adjust == adjust_request_size(size)
        moved == tlsf_malloc(h, size)
    IN  CASE ptr # NoPtr /\ size = 0 -> [heap |-> tlsf_free(h, ptr), ptr |-> NoPtr]
          [] ptr = NoPtr -> moved
          [] OTHER ->
               IF adjust > cursize /\ (~block_is_free(h, next) \/ adjust > combined)
               THEN IF moved.ptr = NoPtr THEN moved
                    ELSE [moved EXCEPT !.heap =
                            tlsf_free(memcpy(@, moved.ptr, ptr, IF cursize < size THEN cursize ELSE size),
                                      ptr)]
               ELSE InPlace(h, ptr, adjust)

-----------------------------------------------------------------------------
control_construct ==
    [mem |-> [a \in Addresses |-> Junk],
     fl_bitmap |-> {},
     sl_bitmap |-> [i \in 0 .. FL_INDEX_COUNT - 1 |-> {}],
     blocks |-> [list \in Lists |-> block_null]]

(* tlsf_create_with_pool: one free block and the sentinel behind it.       *)
tlsf_add_pool(h) ==
    LET block == block_insert(SetFree(SetSize(h, FirstBlock, PoolSize), FirstBlock, 1), FirstBlock)
    IN  SetPrevFree(SetSize(block_link_next(block, FirstBlock), Sentinel, 0), Sentinel, 1)

-----------------------------------------------------------------------------
(* The blocks tlsf_walk_pool visits.                                       *)
Walk(h) ==
    LET from[b \in Nat] == IF b >= Sentinel \/ block_size(h, b) = 0 THEN {}
                           ELSE {b} \cup from[block_next(h, b)]
    IN  from[FirstBlock]
FreeBlocks(h) == {b \in Walk(h) : block_is_free(h, b)}

(* tlsf_check_pool: the blocks tile the pool up to the sentinel, and each  *)
(* knows whether the block before it is free.  Free neighbours coalesced.  *)
BlocksTile(h) ==
    /\ Sentinel \in {block_next(h, b) : b \in Walk(h)}
    /\ block_size(h, Sentinel) = 0 /\ ~block_is_free(h, Sentinel)
    /\ ~block_is_prev_free(h, FirstBlock)
    /\ \A b \in Walk(h) :
          /\ block_size(h, b) >= block_size_min
          /\ block_is_prev_free(h, block_next(h, b)) <=> block_is_free(h, b)
          /\ block_is_free(h, b) => ~block_is_prev_free(h, b) /\ h.mem[block_next(h, b)] = b

(* tlsf_check: each free list has the free blocks of its sizes, no others, *)
(* and the bitmaps say which lists are not empty.                          *)
OnList(h, list) ==
    LET from[n \in Nat, b \in Nat] ==
            IF n = 0 \/ b = block_null THEN {} ELSE {b} \cup from[n - 1, h.mem[b + 2]]
    IN  from[PoolSize, h.blocks[list]]
ListsMatch(h) ==
    LET free == FreeBlocks(h)
    IN  /\ \A list \in Lists :
              LET on == OnList(h, list)
              IN  /\ on = {b \in free : mapping_insert(block_size(h, b)) = list}
                  /\ list[2] \in h.sl_bitmap[list[1]] <=> on # {}
        /\ h.fl_bitmap = {i \in 0 .. FL_INDEX_COUNT - 1 : h.sl_bitmap[i] # {}}

=============================================================================
