-------------------------- MODULE ObjectLayoutProofs --------------------------
(* Lisp, alloc.c and the collectors agree on the size of every object.  Each *)
(* size is shown to fit, width by width, and only one size does.             *)
EXTENDS ObjectLayout, TLAPS

(* A vector fits into one number of words only.                              *)
LEMMA OneSizeFits ==
    ASSUME NEW b \in Nat, NEW e \in Nat, NEW n \in Nat, NEW s \in Int, NEW t \in Int,
           Fitting(s, b, e, n), Fitting(t, b, e, n)
    PROVE  s = t
<1>. DEFINE bits == (n + e) * b
<1>1. bits \in Int OBVIOUS
<1>2. 32 * (s - 4) < bits /\ bits <= 32 * (t - 2) /\ 32 * (t - 4) < bits /\ bits <= 32 * (s - 2)
    BY <1>1 DEF Fitting
<1>3. s % 2 = 0 /\ t % 2 = 0 BY DEF Fitting
<1>. HIDE DEF bits
<1>4. QED BY <1>1, <1>2, <1>3

(* The elements are numbers the lemma applies to.                            *)
LEMMA ElementsAreNat ==
    ASSUME NEW b, NEW e, Elements(b, e)
    PROVE  b \in Nat /\ e \in Nat
BY DEF Elements, Widths

(* make-array, the function, gives a vector of any length the words it       *)
(* needs, whatever its elements; ...                                         *)
LEMMA MakeArrayFits ==
    ASSUME NEW b, NEW e, NEW n \in Nat, Elements(b, e)
    PROVE  /\ Fitting(allocate_vector(make_array(b, e, n)), b, e, n)
           /\ allocate_vector(make_array(b, e, n)) \in Int
<1>. USE DEF Elements, Fitting, allocate_vector, make_array
<1>1. CASE b = 1 BY <1>1
<1>2. CASE b = 2 BY <1>2
<1>3. CASE b = 4 BY <1>3
<1>4. CASE b = 8
  <2>1. CASE e = 0 BY <1>4, <2>1
  <2>2. CASE e = 1 BY <1>4, <2>2
  <2>3. QED BY <2>1, <2>2
<1>5. CASE b = 16
  <2>1. CASE e = 0 BY <1>5, <2>1
  <2>2. CASE e = 1 BY <1>5, <2>2
  <2>3. QED BY <2>1, <2>2
<1>6. CASE b = 32 BY <1>6
<1>7. CASE b = 64 BY <1>7
<1>8. CASE b = 96 BY <1>8
<1>9. CASE b = 128 BY <1>9
<1>10. CASE b = 192 BY <1>10
<1>11. CASE b = 256 BY <1>11
<1>12. QED BY <1>1, <1>2, <1>3, <1>4, <1>5, <1>6, <1>7, <1>8, <1>9, <1>10, <1>11 DEF Widths

(* ... so does the open-coded one, ...                                       *)
LEMMA MakeArrayInlineFits ==
    ASSUME NEW b, NEW e, NEW n \in Nat, Elements(b, e)
    PROVE  /\ Fitting(allocate_vector(make_array_inline(b, e, n)), b, e, n)
           /\ allocate_vector(make_array_inline(b, e, n)) \in Int
<1>. USE DEF Elements, Fitting, allocate_vector, make_array_inline
<1>1. CASE b = 1 BY <1>1
<1>2. CASE b = 2 BY <1>2
<1>3. CASE b = 4 BY <1>3
<1>4. CASE b = 8
  <2>1. CASE e = 0 BY <1>4, <2>1
  <2>2. CASE e = 1 BY <1>4, <2>2
  <2>3. QED BY <2>1, <2>2
<1>5. CASE b = 16
  <2>1. CASE e = 0 BY <1>5, <2>1
  <2>2. CASE e = 1 BY <1>5, <2>2
  <2>3. QED BY <2>1, <2>2
<1>6. CASE b = 32 BY <1>6
<1>7. CASE b = 64 BY <1>7
<1>8. CASE b = 96 BY <1>8
<1>9. CASE b = 128 BY <1>9
<1>10. CASE b = 192 BY <1>10
<1>11. CASE b = 256 BY <1>11
<1>12. QED BY <1>1, <1>2, <1>3, <1>4, <1>5, <1>6, <1>7, <1>8, <1>9, <1>10, <1>11 DEF Widths

(* ... and alloc_vector of alloc.c, given a length that counts the zero.     *)
LEMMA AllocVectorFits ==
    ASSUME NEW b, NEW e, NEW n \in Nat, Elements(b, e), (n + e) * b + 31 <= 2147483647
    PROVE  /\ Fitting(alloc_vector(b, n + e), b, e, n)
           /\ alloc_vector(b, n + e) \in Int
<1>. USE DEF Elements, Fitting, alloc_vector, int32, quotient
<1>1. CASE b = 1 BY <1>1
<1>2. CASE b = 2 BY <1>2
<1>3. CASE b = 4 BY <1>3
<1>4. CASE b = 8
  <2>1. CASE e = 0 BY <1>4, <2>1
  <2>2. CASE e = 1 BY <1>4, <2>2
  <2>3. QED BY <2>1, <2>2
<1>5. CASE b = 16
  <2>1. CASE e = 0 BY <1>5, <2>1
  <2>2. CASE e = 1 BY <1>5, <2>2
  <2>3. QED BY <2>1, <2>2
<1>6. CASE b = 32 BY <1>6
<1>7. CASE b = 64 BY <1>7
<1>8. CASE b = 96 BY <1>8
<1>9. CASE b = 128 BY <1>9
<1>10. CASE b = 192 BY <1>10
<1>11. CASE b = 256 BY <1>11
<1>12. QED BY <1>1, <1>2, <1>3, <1>4, <1>5, <1>6, <1>7, <1>8, <1>9, <1>10, <1>11 DEF Widths

(* What the size_ functions of gencgc.c compute fits, ...                    *)
LEMMA GencgcFits ==
    ASSUME NEW b, NEW e, NEW n \in Nat, Elements(b, e), NEW complex \in BOOLEAN,
           IF complex THEN e = 0 /\ Complex(b) ELSE Real(b)
    PROVE  /\ Fitting(sizetab(b, e, n, complex), b, e, n)
           /\ sizetab(b, e, n, complex) \in Int
<1>1. CASE b = 1
  <2>1. e = 0 BY <1>1 DEF Elements
  <2>2. QED BY <1>1, <2>1 DEF sizetab, size_vector_packed, NWORDS, CEILING, Fitting
<1>2. CASE b = 2
  <2>1. e = 0 BY <1>2 DEF Elements
  <2>2. QED BY <1>2, <2>1 DEF sizetab, size_vector_packed, NWORDS, CEILING, Fitting
<1>3. CASE b = 4
  <2>1. e = 0 BY <1>3 DEF Elements
  <2>2. QED BY <1>3, <2>1 DEF sizetab, size_vector_packed, NWORDS, CEILING, Fitting
<1>4. CASE b = 8
  <2>1. CASE e = 0 BY <1>4, <2>1 DEF sizetab, size_vector_packed, NWORDS, CEILING, Fitting
  <2>2. CASE e = 1 BY <1>4, <2>2 DEF sizetab, size_string, NWORDS, CEILING, Fitting
  <2>3. QED BY <1>4, <2>1, <2>2 DEF Elements
<1>5. CASE b = 16
  <2>1. CASE e = 0 BY <1>5, <2>1 DEF sizetab, size_vector_packed, NWORDS, CEILING, Fitting
  <2>2. CASE e = 1 BY <1>5, <2>2 DEF sizetab, size_string, NWORDS, CEILING, Fitting
  <2>3. QED BY <1>5, <2>1, <2>2 DEF Elements
<1>6. CASE b = 32
  <2>1. e = 0 BY <1>6 DEF Elements
  <2>2. QED BY <1>6, <2>1 DEF sizetab, size_vector_words, CEILING, Fitting
<1>7. CASE b = 64
  <2>1. CASE complex
    <3>1. e = 0 /\ complex BY <1>7, <2>1 DEF Elements, Complex, Real, Widths
    <3>2. sizetab(b, e, n, complex) = n * 2 + 2 BY <1>7, <2>1, <3>1 DEF sizetab, size_vector_complex
    <3>3. Fitting(n * 2 + 2, 64, 0, n) /\ n * 2 + 2 \in Int BY DEF Fitting, CEILING
    <3>4. QED BY <1>7, <3>1, <3>2, <3>3
  <2>2. CASE ~complex
    <3>1. e = 0 /\ ~complex BY <1>7, <2>2 DEF Elements, Complex, Real, Widths
    <3>2. sizetab(b, e, n, complex) = n * 2 + 2 BY <1>7, <2>2, <3>1 DEF sizetab, size_vector_floats
    <3>3. Fitting(n * 2 + 2, 64, 0, n) /\ n * 2 + 2 \in Int BY DEF Fitting, CEILING
    <3>4. QED BY <1>7, <3>1, <3>2, <3>3
  <2>3. QED BY <2>1, <2>2
<1>8. CASE b = 96
  <2>1. e = 0 /\ ~complex BY <1>8 DEF Elements, Complex, Real, Widths
  <2>2. sizetab(b, e, n, complex) = CEILING(n * 3 + 2, 2) BY <1>8, <2>1 DEF sizetab, size_vector_floats
  <2>3. Fitting(CEILING(n * 3 + 2, 2), 96, 0, n) /\ CEILING(n * 3 + 2, 2) \in Int BY DEF Fitting, CEILING
  <2>4. QED BY <1>8, <2>1, <2>2, <2>3
<1>9. CASE b = 128
  <2>1. CASE complex
    <3>1. e = 0 /\ complex BY <1>9, <2>1 DEF Elements, Complex, Real, Widths
    <3>2. sizetab(b, e, n, complex) = n * 4 + 2 BY <1>9, <2>1, <3>1 DEF sizetab, size_vector_complex
    <3>3. Fitting(n * 4 + 2, 128, 0, n) /\ n * 4 + 2 \in Int BY DEF Fitting, CEILING
    <3>4. QED BY <1>9, <3>1, <3>2, <3>3
  <2>2. CASE ~complex
    <3>1. e = 0 /\ ~complex BY <1>9, <2>2 DEF Elements, Complex, Real, Widths
    <3>2. sizetab(b, e, n, complex) = CEILING(n * 4 + 2, 2) BY <1>9, <2>2, <3>1 DEF sizetab, size_vector_floats
    <3>3. Fitting(CEILING(n * 4 + 2, 2), 128, 0, n) /\ CEILING(n * 4 + 2, 2) \in Int BY DEF Fitting, CEILING
    <3>4. QED BY <1>9, <3>1, <3>2, <3>3
  <2>3. QED BY <2>1, <2>2
<1>10. CASE b = 192
  <2>1. e = 0 /\ complex BY <1>10 DEF Elements, Complex, Real, Widths
  <2>2. sizetab(b, e, n, complex) = n * 6 + 2 BY <1>10, <2>1 DEF sizetab, size_vector_complex
  <2>3. Fitting(n * 6 + 2, 192, 0, n) /\ n * 6 + 2 \in Int BY DEF Fitting, CEILING
  <2>4. QED BY <1>10, <2>1, <2>2, <2>3
<1>11. CASE b = 256
  <2>1. e = 0 /\ complex BY <1>11 DEF Elements, Complex, Real, Widths
  <2>2. sizetab(b, e, n, complex) = n * 8 + 2 BY <1>11, <2>1 DEF sizetab, size_vector_complex
  <2>3. Fitting(n * 8 + 2, 256, 0, n) /\ n * 8 + 2 \in Int BY DEF Fitting, CEILING
  <2>4. QED BY <1>11, <2>1, <2>2, <2>3
<1>12. QED BY <1>1, <1>2, <1>3, <1>4, <1>5, <1>6, <1>7, <1>8, <1>9, <1>10, <1>11 DEF Elements, Widths

(* ... what those of gc.c do, ...                                            *)
LEMMA GcFits ==
    ASSUME NEW b, NEW e, NEW n \in Nat, Elements(b, e), NEW complex \in BOOLEAN,
           b \notin {96, 192}, complex => e = 0 /\ Complex(b)
    PROVE  /\ Fitting(gc_sizetab(b, e, n, complex), b, e, n)
           /\ gc_sizetab(b, e, n, complex) \in Int
<1>. USE DEF Elements, Widths, Fitting, CEILING, NWORDS, Complex, gc_sizetab, gc_size_string, gc_size_bits,
                 gc_size_bytes, gc_size_words, gc_size_floats, gc_size_complex
<1>1. CASE b = 1 BY <1>1
<1>2. CASE b = 2 BY <1>2
<1>3. CASE b = 4 BY <1>3
<1>4. CASE b = 8
  <2>1. CASE e = 0 BY <1>4, <2>1
  <2>2. CASE e = 1 BY <1>4, <2>2
  <2>3. QED BY <2>1, <2>2
<1>5. CASE b = 16
  <2>1. CASE e = 0 BY <1>5, <2>1
  <2>2. CASE e = 1 BY <1>5, <2>2
  <2>3. QED BY <2>1, <2>2
<1>6. CASE b = 32 BY <1>6
<1>7. CASE b = 64
  <2>1. CASE complex BY <1>7, <2>1
  <2>2. CASE ~complex BY <1>7, <2>2
  <2>3. QED BY <2>1, <2>2
<1>8. CASE b = 128
  <2>1. CASE complex BY <1>8, <2>1
  <2>2. CASE ~complex BY <1>8, <2>2
  <2>3. QED BY <2>1, <2>2
<1>9. CASE b = 256
  <2>1. CASE complex BY <1>9, <2>1
  <2>2. CASE ~complex BY <1>9, <2>2
  <2>3. QED BY <2>1, <2>2
<1>10. QED BY <1>1, <1>2, <1>3, <1>4, <1>5, <1>6, <1>7, <1>8, <1>9

(* ... and what cgc.c does with its table of logarithms.                     *)
LEMMA CgcFits ==
    ASSUME NEW b, NEW e, NEW n \in Nat, Elements(b, e), b \in cgc_widths
    PROVE  /\ Fitting(sizeOfObject(b, e, n), b, e, n)
           /\ sizeOfObject(b, e, n) \in Int
<1>. USE DEF Elements, Fitting, CEILING, NWORDS, sizeOfObject
<1>1. CASE b = 1 BY <1>1
<1>2. CASE b = 2 BY <1>2
<1>3. CASE b = 4 BY <1>3
<1>4. CASE b = 8
  <2>1. CASE e = 0 BY <1>4, <2>1
  <2>2. CASE e = 1 BY <1>4, <2>2
  <2>3. QED BY <2>1, <2>2
<1>5. CASE b = 16
  <2>1. CASE e = 0 BY <1>5, <2>1
  <2>2. CASE e = 1 BY <1>5, <2>2
  <2>3. QED BY <2>1, <2>2
<1>6. CASE b = 32 BY <1>6
<1>7. CASE b = 64 BY <1>7
<1>8. CASE b = 128 BY <1>8
<1>9. QED BY <1>1, <1>2, <1>3, <1>4, <1>5, <1>6, <1>7, <1>8 DEF cgc_widths

(* ptrans_vector takes as much, while the bits fit into an int: it copies    *)
(* all words of the vector and the next object begins behind them.           *)
LEMMA PtransFits ==
    ASSUME NEW b, NEW e, NEW n \in Nat, Elements(b, e), (n + e) * b + 31 <= 2147483647
    PROVE  /\ Fitting(taken(ptrans_vector(b, e, n)), b, e, n)
           /\ taken(ptrans_vector(b, e, n)) \in Int
           /\ 32 * (ptrans_vector(b, e, n) - 2) >= (n + e) * b
<1>. USE DEF Elements, Fitting, CEILING, taken, ptrans_vector, int32
<1>1. CASE b = 1 BY <1>1
<1>2. CASE b = 2 BY <1>2
<1>3. CASE b = 4 BY <1>3
<1>4. CASE b = 8
  <2>1. CASE e = 0 BY <1>4, <2>1
  <2>2. CASE e = 1 BY <1>4, <2>2
  <2>3. QED BY <2>1, <2>2
<1>5. CASE b = 16
  <2>1. CASE e = 0 BY <1>5, <2>1
  <2>2. CASE e = 1 BY <1>5, <2>2
  <2>3. QED BY <2>1, <2>2
<1>6. CASE b = 32 BY <1>6
<1>7. CASE b = 64 BY <1>7
<1>8. CASE b = 96 BY <1>8
<1>9. CASE b = 128 BY <1>9
<1>10. CASE b = 192 BY <1>10
<1>11. CASE b = 256 BY <1>11
<1>12. QED BY <1>1, <1>2, <1>3, <1>4, <1>5, <1>6, <1>7, <1>8, <1>9, <1>10, <1>11 DEF Widths

(* pscav steps over a vector in the new spaces, but for one word at most: a  *)
(* vector of 3n words and its header may be followed by one of padding.      *)
LEMMA PscavFits ==
    ASSUME NEW b, NEW e, NEW n \in Nat, Elements(b, e)
    PROVE  LET s == pscav_vector(b, e, n)
           IN s \in Int /\ Fitting(IF s % 2 = 0 THEN s ELSE s + 1, b, e, n)
<1>. USE DEF Elements, Fitting, CEILING, NWORDS, pscav_vector
<1>1. CASE b = 1 BY <1>1
<1>2. CASE b = 2 BY <1>2
<1>3. CASE b = 4 BY <1>3
<1>4. CASE b = 8
  <2>1. CASE e = 0 BY <1>4, <2>1
  <2>2. CASE e = 1 BY <1>4, <2>2
  <2>3. QED BY <2>1, <2>2
<1>5. CASE b = 16
  <2>1. CASE e = 0 BY <1>5, <2>1
  <2>2. CASE e = 1 BY <1>5, <2>2
  <2>3. QED BY <2>1, <2>2
<1>6. CASE b = 32 BY <1>6
<1>7. CASE b = 64 BY <1>7
<1>8. CASE b = 96 BY <1>8
<1>9. CASE b = 128 BY <1>9
<1>10. CASE b = 192 BY <1>10
<1>11. CASE b = 256 BY <1>11
<1>12. QED BY <1>1, <1>2, <1>3, <1>4, <1>5, <1>6, <1>7, <1>8, <1>9, <1>10, <1>11 DEF Widths

(* Compiled code and make-array allocate the same number of words for the    *)
(* same vector, and so does alloc.c while the bits are an int: from there on *)
(* it allocates a negative number of words, or too few.                      *)
THEOREM AllocationsAgree ==
    ASSUME NEW b, NEW e, NEW n \in Nat, Elements(b, e)
    PROVE  /\ allocate_vector(make_array_inline(b, e, n)) = allocate_vector(make_array(b, e, n))
           /\ (n + e) * b + 31 <= 2147483647 =>
                alloc_vector(b, n + e) = allocate_vector(make_array(b, e, n))
BY MakeArrayFits, MakeArrayInlineFits, AllocVectorFits, OneSizeFits, ElementsAreNat

(* alloc_string of 2^28 - 1 bytes asks alloc for a negative number of words, *)
(* and of 2^29 - 1 bytes for the header alone.                               *)
THEOREM AllocOverflows == alloc_vector(8, 268435456) < 0 /\ alloc_vector(8, 536870912) = 2
BY DEF alloc_vector, int32, quotient

(* gencgc.c, which copies a vector and walks its pages by sizetab, takes it  *)
(* to be as long as it was allocated.                                        *)
THEOREM GencgcSizes ==
    ASSUME NEW b, NEW e, NEW n \in Nat, Elements(b, e), NEW complex \in BOOLEAN,
           IF complex THEN e = 0 /\ Complex(b) ELSE Real(b)
    PROVE  sizetab(b, e, n, complex) = allocate_vector(make_array(b, e, n))
BY MakeArrayFits, GencgcFits, OneSizeFits, ElementsAreNat

(* So does gc.c, ...                                                         *)
THEOREM GcSizes ==
    ASSUME NEW b, NEW e, NEW n \in Nat, Elements(b, e), NEW complex \in BOOLEAN,
           b \notin {96, 192}, complex => e = 0 /\ Complex(b)
    PROVE  gc_sizetab(b, e, n, complex) = allocate_vector(make_array(b, e, n))
BY MakeArrayFits, GcFits, OneSizeFits, ElementsAreNat

(* ... and cgc.c for the widths it knows, if strings have bytes.             *)
THEOREM CgcSizes ==
    ASSUME NEW b, NEW e, NEW n \in Nat, Elements(b, e), b \in cgc_widths
    PROVE  sizeOfObject(b, e, n) = allocate_vector(make_array(b, e, n))
BY MakeArrayFits, CgcFits, OneSizeFits, ElementsAreNat

(* purify takes as much of the new space as the vector had, ...              *)
THEOREM PurifySizes ==
    ASSUME NEW b, NEW e, NEW n \in Nat, Elements(b, e), (n + e) * b + 31 <= 2147483647
    PROVE  taken(ptrans_vector(b, e, n)) = allocate_vector(make_array(b, e, n))
BY MakeArrayFits, PtransFits, OneSizeFits, ElementsAreNat

(* ... steps over it there to the next object or the padding before it, ...  *)
THEOREM PscavSizes ==
    ASSUME NEW b, NEW e, NEW n \in Nat, Elements(b, e)
    PROVE  LET s == pscav_vector(b, e, n)
           IN allocate_vector(make_array(b, e, n)) = (IF s % 2 = 0 THEN s ELSE s + 1)
<1>. DEFINE s == pscav_vector(b, e, n)
<1>1. s \in Int /\ Fitting(IF s % 2 = 0 THEN s ELSE s + 1, b, e, n) BY PscavFits
<1>. HIDE DEF s
<1>2. (IF s % 2 = 0 THEN s ELSE s + 1) \in Int BY <1>1
<1>3. allocate_vector(make_array(b, e, n)) = (IF s % 2 = 0 THEN s ELSE s + 1)
    BY <1>1, <1>2, MakeArrayFits, OneSizeFits, ElementsAreNat
<1>4. QED BY <1>3 DEF s

(* ... and is wrong from the length on where the bits do not fit: a vector   *)
(* of 2^25 doubles is taken to have a negative number of words.              *)
THEOREM PurifyOverflows == ptrans_vector(64, 0, 33554432) < 0
BY DEF ptrans_vector, int32

(* The header of an object with a header says how many words were taken for  *)
(* it, in Lisp and in alloc.c: scanning it boxed or unboxed, and purify,     *)
(* arrive at the next object.                                                *)
THEOREM HeaderSizes ==
    ASSUME NEW o, \/ \E words \in Nat \ {0} : o = fixed_alloc(words)
                  \/ \E words \in Nat \ {0}, n \in Nat : o = var_alloc(words, n)
                  \/ \E words \in Nat : o = alloc_unboxed(words)
    PROVE  /\ size_boxed(o.header) = o.words /\ size_unboxed(o.header) = o.words
           /\ gc_scav_unboxed(o.header) = o.words
           /\ taken(ptrans_unboxed(o.header)) = o.words
<1>1. ASSUME NEW words \in Nat \ {0}, o = fixed_alloc(words)
      PROVE  o.header \in Nat /\ o.words = CEILING(o.header + 1, 2)
    BY <1>1 DEF fixed_alloc, CEILING
<1>2. ASSUME NEW words \in Nat \ {0}, NEW n \in Nat, o = var_alloc(words, n)
      PROVE  o.header \in Nat /\ o.words = CEILING(o.header + 1, 2)
    BY <1>2 DEF var_alloc, CEILING
<1>3. ASSUME NEW words \in Nat, o = alloc_unboxed(words)
      PROVE  o.header \in Nat /\ o.words = CEILING(o.header + 1, 2)
    BY <1>3 DEF alloc_unboxed, CEILING
<1>4. o.header \in Nat /\ o.words = CEILING(o.header + 1, 2) BY <1>1, <1>2, <1>3
<1>5. 1 + o.header = o.header + 1 BY <1>4
<1>6. QED BY <1>4, <1>5 DEF size_boxed, size_unboxed, gc_scav_unboxed, taken, ptrans_unboxed

(* A code object: boxed slots, whose number the header has, and instructions *)
(* make up what was allocated, and the boxed slots are all in the header.    *)
THEOREM CodeSizes ==
    ASSUME NEW boxed \in Nat, NEW bytes \in Nat
    PROVE  LET o == allocate_code_object(boxed, bytes)
           IN /\ size_code_header(o.header, o.code_size) = o.words
              /\ o.header >= 4 + boxed /\ 4 * o.code_size >= bytes
BY DEF allocate_code_object, size_code_header, CEILING
=============================================================================
