---------------------------- MODULE GuestMemory ----------------------------
(***************************************************************************)
(* Regions of a guest's memory as they cross between host and guest        *)
(* (crates/node/src/wasm_executor.rs): a pointer and a length, each a u32, *)
(* packed in a u64, and the slice the host takes of them.                  *)
(***************************************************************************)
EXTENDS Integers

CONSTANTS
  WordSize,   \* 2^32: the values of a u32
  MemorySize  \* bytes of guest memory

ASSUME MemoryConstants ==
  /\ WordSize \in Nat \ {0}
  /\ MemorySize \in 0..WordSize

Words == 0..(WordSize - 1)

Pack(ptr, len) == ptr * WordSize + len

packed_ptr(packed) == packed \div WordSize
packed_len(packed) == packed % WordSize

(* ptr + len in u32.  (A build that checks arithmetic panics where this     *)
(* wraps; a slice that ends before it starts panics, too.)                  *)
slice_end(ptr, len) == (ptr + len) % WordSize

(* Mutant: only the end is compared with the memory. *)
InBounds_end_only(ptr, len) == slice_end(ptr, len) <= MemorySize

(* data[ptr..ptr + len] does not panic. *)
InBounds(ptr, len) ==
  /\ ptr <= slice_end(ptr, len)
  /\ slice_end(ptr, len) <= MemorySize

Slice(ptr, len) == ptr..(slice_end(ptr, len) - 1)

(* Whatever a guest returns, the host reads exactly the bytes the guest     *)
(* named, or it panics: the 32-bit sum never makes it read others.  What it *)
(* does refuse is a region that ends at the very end of a full memory.      *)
SlicesAreExact ==
  \A ptr, len \in Words :
    LET p == packed_ptr(Pack(ptr, len))
        n == packed_len(Pack(ptr, len))
    IN  /\ p = ptr /\ n = len
        /\ InBounds(p, n) <=> ptr + len <= MemorySize /\ ptr + len < WordSize
        /\ InBounds(p, n) => Slice(p, n) = ptr..(ptr + len - 1)
=============================================================================
