--------------------------- MODULE ForkscanUtil ---------------------------
(***************************************************************************)
(* The arithmetic macros of src/forkscan-changed/util.h: PTR_MASK,         *)
(* PAGEALIGN and the timestamp field (a count in the low bits, an "active" *)
(* flag in the top bit).  Machine words are scaled down: size_t has        *)
(* SIZE_BITS bits and int has INT_BITS bits (64 and 32 on the target).     *)
(* The C conversions are kept: ~ of an int is an int, and an int converted *)
(* to size_t is taken modulo 2^SIZE_BITS, so a negative mask sign-extends. *)
(***************************************************************************)
EXTENDS Integers, Bitwise

CONSTANTS
    SIZE_BITS,      \* width of size_t
    INT_BITS,       \* width of int
    PAGE_BITS       \* log2 of PAGESIZE

SizeMax == 2^SIZE_BITS - 1

\* (size_t) x for an int x: reduction modulo 2^SIZE_BITS
ToSize(x) == x % 2^SIZE_BITS

\* ~x for an int x (two's complement)
IntNot(x) == -x - 1

\* ~x for a size_t x
SizeNot(x) == SizeMax - x

\* Fault variant of PTR_MASK written with an unsigned int mask, ~3u, which
\* is zero-extended and so also clears the high bits of a size_t
PtrMaskUnsigned(v) == v & ((2^INT_BITS - 1) - 3)

\* #define PTR_MASK(v) ((v) & ~3): ~3 is the int -4, converted to size_t
PTR_MASK(v) == v & ToSize(IntNot(3))

\* #define PAGESIZE ((size_t)0x1000)
PAGESIZE == 2^PAGE_BITS

\* #define PAGEALIGN(addr) ((addr) & ~(PAGESIZE - 1))
PAGEALIGN(addr) == addr & SizeNot(PAGESIZE - 1)

\* Fault variant of _TIMESTAMP_MASK missing one bit below the flag
TimestampMaskShort == 2^(SIZE_BITS - 2) - 1

\* _TIMESTAMP_MASK 0x7FFFFFFFFFFFFFFF and _TIMESTAMP_FLAG 0x8000000000000000
TIMESTAMP_MASK == 2^(SIZE_BITS - 1) - 1
TIMESTAMP_FLAG == 2^(SIZE_BITS - 1)

TIMESTAMP(field)            == field & TIMESTAMP_MASK
TIMESTAMP_RAISE_FLAG(field) == field | TIMESTAMP_FLAG
TIMESTAMP_IS_ACTIVE(field)  == field & TIMESTAMP_FLAG
TIMESTAMP_SET_ACTIVE(field) == TIMESTAMP_RAISE_FLAG(field)

-----------------------------------------------------------------------------
(* Every size_t value is checked, one per initial state.                  *)

VARIABLE word

Init == word \in 0 .. SizeMax

Spec == Init /\ [][UNCHANGED word]_word

(* PTR_MASK clears exactly the two low tag bits of a pointer word and     *)
(* PAGEALIGN rounds down to the start of its page, for every word up to    *)
(* SIZE_MAX: the int constant 3 and the size_t PAGESIZE are complemented   *)
(* and widened so that no high bit of the address is lost.               *)
MasksRoundDown ==
    /\ PTR_MASK(word) = word - (word % 4)
    /\ PAGEALIGN(word) = word - (word % PAGESIZE)

(* A timestamp field splits exactly into its count and its active flag:    *)
(* the two parts add up to the field, raising the flag keeps the count,    *)
(* and the count never reads as active.                                    *)
TimestampSplits ==
    /\ TIMESTAMP(word) + TIMESTAMP_IS_ACTIVE(word) = word
    /\ TIMESTAMP(TIMESTAMP_SET_ACTIVE(word)) = TIMESTAMP(word)
    /\ TIMESTAMP_IS_ACTIVE(TIMESTAMP_SET_ACTIVE(word)) # 0
    /\ TIMESTAMP_IS_ACTIVE(TIMESTAMP(word)) = 0
=============================================================================
