----------------------------- MODULE ObjectLayout -----------------------------
(* How many words an object has: what Lisp and alloc.c allocate for it, and  *)
(* what each of the collectors takes it to have when it meets the header.    *)
(* The collectors walk pages, regions and spaces object by object, so the    *)
(* numbers must agree for every length.                                      *)
(*                                                                           *)
(* Words have 32 bits.  A vector is known by the width b of its elements in  *)
(* bits, its length n, and e, the elements it has beyond its length (strings *)
(* have one more, a zero).                                                   *)
EXTENDS Integers

Widths == {1, 2, 4, 8, 16, 32, 64, 96, 128, 192, 256}
Elements(b, e) == b \in Widths /\ (e = 0 \/ (e = 1 /\ b \in {8, 16}))

CEILING(x, y) == ((x + y - 1) \div y) * y
NWORDS(x, y) == CEILING(x, y) \div y

(* An int of C, and its quotient, towards zero.                              *)
int32(x) == ((x + 2147483648) % 4294967296) - 2147483648
quotient(x, y) == IF x < 0 THEN -((-x) \div y) ELSE x \div y

-----------------------------------------------------------------------------
(* What is allocated.                                                        *)

(* The vop rounds the words and the two of the header to a dual word.        *)
allocate_vector(words) == 2 * ((4 * words + 15) \div 8)

(* make-array where the element type is known: open-coded by the compiler.   *)
make_array_inline(b, e, n) ==
    IF b >= 32 THEN n * (b \div 32)
    ELSE (n + (IF e = 1 THEN 32 \div b ELSE 32 \div b - 1)) \div (32 \div b)

(* make-array, the function.                                                 *)
make_array(b, e, n) == ((n + e) * b + 31) \div 32

(* alloc_vector of alloc.c, called with length + 1 for a string.  The number *)
(* of bits is an int.                                                        *)
alloc_vector(b, n) == 2 * ((4 * (2 + quotient(int32(int32(n * b) + 31), 32)) + 7) \div 8)

(* Objects with a header: of words words, or of n more than words - 1; what  *)
(* the header says, and the words allocated.                                 *)
fixed_alloc(words) == [header |-> words - 1, words |-> 2 * ((4 * words + 7) \div 8)]
var_alloc(words, n) == [header |-> n + words - 1, words |-> 2 * ((4 * (n + words + 1)) \div 8)]
alloc_unboxed(words) == [header |-> words, words |-> 2 * ((4 * (1 + words) + 7) \div 8)]

(* Code: boxed slots after the first four, and bytes of instructions.        *)
allocate_code_object(boxed, bytes) ==
    LET b == 8 * ((4 * (boxed + 5)) \div 8)
        u == 8 * ((bytes + 7) \div 8)
    IN [header |-> b \div 4, code_size |-> u \div 4, words |-> (b + u) \div 4]

-----------------------------------------------------------------------------
(* gencgc.c                                                                  *)

size_boxed(header) == CEILING(header + 1, 2)
size_unboxed(header) == CEILING(header + 1, 2)
size_code_header(header, code_size) == CEILING(header + code_size, 2)

size_string(b, n) == CEILING(NWORDS(n + 1, 32 \div b) + 2, 2)
size_vector_packed(b, n) == CEILING(NWORDS(n, 32 \div b) + 2, 2)
size_vector_words(n) == CEILING(n + 2, 2)
size_vector_floats(b, n) ==
    CASE b = 64 -> n * 2 + 2
      [] b = 96 -> CEILING(n * 3 + 2, 2)
      [] b = 128 -> CEILING(n * 4 + 2, 2)
size_vector_complex(b, n) ==
    CASE b = 64 -> n * 2 + 2 [] b = 128 -> n * 4 + 2 [] b = 192 -> n * 6 + 2 [] b = 256 -> n * 8 + 2

(* sizetab: the entry for the type code in a header.                         *)
sizetab(b, e, n, complex) ==
    IF e = 1 THEN size_string(b, n)
    ELSE IF b < 32 THEN size_vector_packed(b, n)
    ELSE IF b = 32 THEN size_vector_words(n)
    ELSE IF complex THEN size_vector_complex(b, n) ELSE size_vector_floats(b, n)

(* The widths of vectors of complex numbers, and of reals.                   *)
Complex(b) == b \in {64, 128, 192, 256}
Real(b) == b \in Widths \ {192, 256}

-----------------------------------------------------------------------------
(* gc.c; its long floats are those of SPARC.                                 *)

gc_scav_unboxed(header) == CEILING(header + 1, 2)
gc_size_string(b, n) == CEILING(NWORDS(n + 1, 32 \div b) + 2, 2)
gc_size_bits(b, n) == CEILING(NWORDS(n, 32 \div b) + 2, 2)
gc_size_bytes(b, n) == CEILING(NWORDS(n, 32 \div b) + 2, 2)
gc_size_words(n) == CEILING(n + 2, 2)
gc_size_floats(b, n) == CEILING(n * (b \div 32) + 2, 2)
gc_size_complex(b, n) == IF b = 256 THEN n * 8 + 2 ELSE CEILING(n * (b \div 32) + 2, 2)

gc_sizetab(b, e, n, complex) ==
    IF e = 1 THEN gc_size_string(b, n)
    ELSE IF b \in {1, 2, 4} THEN gc_size_bits(b, n)
    ELSE IF b \in {8, 16} THEN gc_size_bytes(b, n)
    ELSE IF b = 32 THEN gc_size_words(n)
    ELSE IF complex THEN gc_size_complex(b, n) ELSE gc_size_floats(b, n)

-----------------------------------------------------------------------------
(* purify.c: the words copied and the words taken from the new space; what   *)
(* pscav steps over.  The number of bits is an int.                          *)

ptrans_vector(b, e, n) == 2 + (int32(int32((n + e) * b) + 31) \div 32)
ptrans_unboxed(header) == 1 + header
taken(nwords) == CEILING(nwords, 2)

pscav_vector(b, e, n) ==
    IF e = 1 THEN CEILING(NWORDS(n + 1, 32 \div b) + 2, 2)
    ELSE IF b < 32 THEN CEILING(NWORDS(n, 32 \div b) + 2, 2)
    ELSE IF b = 32 THEN CEILING(n + 2, 2)
    ELSE n * (b \div 32) + 2

-----------------------------------------------------------------------------
(* cgc.c: the table sct has the logarithm of the width; a string has bytes.  *)

cgc_widths == {1, 2, 4, 8, 16, 32, 64, 128}
sizeOfObject(b, e, n) ==
    LET els_per_word == IF b > 32 THEN 1 ELSE 32 \div b
        length == IF b > 32 THEN (n + e) * (b \div 32) ELSE n + e
    IN CEILING(NWORDS(length, els_per_word) + 2, 2)

-----------------------------------------------------------------------------
(* A vector of s words: aligned, with room for a header, a length and the    *)
(* elements, and no word pair more than that.                                *)
Fitting(s, b, e, n) ==
    /\ s % 2 = 0
    /\ 32 * (s - 2) >= (n + e) * b
    /\ 32 * (s - 4) < (n + e) * b
=============================================================================
