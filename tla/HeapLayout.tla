----------------------------- MODULE HeapLayout -----------------------------
(***************************************************************************)
(* How general_allocate lays a user block out inside the memory an         *)
(* allocator hands it:                                                     *)
(*                                                                         *)
(*   at                h                 user              user + size     *)
(*   | alignment pad   | header (HDR)    | size bytes      | NML | slack | *)
(*                                                                         *)
(* Pure operators, shared by the modules about the debug heap.  Addresses  *)
(* and sizes are natural numbers; the 16-bit fields of allocation_header   *)
(* and the u16 results of the padding functions keep their width.          *)
(***************************************************************************)
EXTENDS Integers

CONSTANTS
    HDR,        \* sizeof(allocation_header)
    NML,        \* NO_MANS_LAND_SIZE, the guard bytes behind a block
    PTR         \* POINTER_SIZE, the least alignment of a block

(* The largest power of two an u16 holds: the padding stays below twice    *)
(* that much when neither the header nor the alignment is larger.          *)
MaxAlignment == 32768

ASSUME LayoutAssumption ==
    /\ HDR \in Nat \ {0} /\ HDR <= MaxAlignment
    /\ NML \in Nat
    /\ PTR \in Nat \ {0} /\ PTR <= MaxAlignment

U16(x) == x % 65536

(* Alignments a caller may ask for: "We allow a maximum of 65535 byte      *)
(* alignment" (memory.h:741), and powers of two only.                      *)
Alignments == {1, 2, 4, 8, 16, 32, 64, 128, 256, 512, 1024, 2048, 4096,
               8192, 16384, 32768}

(* Bytes from p up to the next multiple of the alignment a.                *)
CalculatePadding(p, a) == U16((a - (p % a)) % a)

(* The same, but with room for a header in front of the aligned address.   *)
CalculatePaddingWithHeader(p, a) ==
    LET padding == CalculatePadding(p, a)
        need    == HDR - padding
    IN  IF padding >= HDR    THEN padding
        ELSE IF need % a # 0 THEN U16(padding + a * (1 + need \div a))
                             ELSE U16(padding + a * (need \div a))

(* encode_header: what precedes the header, and the header's address.      *)
AlignmentPadding(at, a) == CalculatePaddingWithHeader(at, a) - HDR
HeaderAt(at, a)         == at + AlignmentPadding(at, a)

(* alignment = alignment < POINTER_SIZE ? POINTER_SIZE : alignment         *)
EffectiveAlignment(a) == IF a < PTR THEN PTR ELSE a

(* What a block costs on top of its user size, and what the allocator is   *)
(* asked for: the same sum in allocate, reallocate and free.               *)
NoRoomForPadding(a) == HDR + NML                \* mutant: the padding forgotten
Extra(a)       == HDR + a + (HDR % a) + NML
Required(u, a) == u + Extra(a)
=============================================================================
