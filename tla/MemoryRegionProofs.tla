------------------------- MODULE MemoryRegionProofs -------------------------
(***************************************************************************)
(* Proofs about MemoryRegion, for every set of objects and addresses and   *)
(* every page size, granularity and word size that are compatible.         *)
(***************************************************************************)
EXTENDS MemoryRegion, TLAPS

-----------------------------------------------------------------------------
(* Division and multiples.                                                  *)

\* Division with remainder.
LEMMA Division ==
    ASSUME NEW n \in Nat, NEW f \in Nat \ {0}
    PROVE  /\ n \div f \in Nat /\ n % f \in 0..(f - 1)
           /\ n = (n \div f) * f + (n % f)
  OBVIOUS

\* A product is at least each factor.
LEMMA ProductMonotone ==
    ASSUME NEW a \in Nat, NEW b \in Nat, NEW f \in Nat \ {0}, a < b
    PROVE  a * f + f <= b * f
<1>1. PICK d \in Nat : b = a + 1 + d
  <2>1. b - a - 1 \in Nat  OBVIOUS
  <2> QED BY <2>1
<1>2. b * f = a * f + f + d * f  BY <1>1
<1>3. d * f \in Nat  OBVIOUS
<1>4. a * f \in Nat  OBVIOUS
<1> QED BY <1>2, <1>3, <1>4

\* A product has one decomposition: k * f divided by f is k.
LEMMA ProductDivision ==
    ASSUME NEW k \in Nat, NEW f \in Nat \ {0}
    PROVE  (k * f) \div f = k /\ (k * f) % f = 0
<1> DEFINE q == (k * f) \div f
           m == (k * f) % f
<1>1. k * f \in Nat  OBVIOUS
<1>2. q \in Nat /\ m \in 0..(f - 1) /\ k * f = q * f + m
  BY <1>1, Division
<1>3. ~(q < k)
  <2> SUFFICES ASSUME q < k PROVE FALSE  OBVIOUS
  <2>1. q * f + f <= k * f  BY <1>2, ProductMonotone
  <2> QED BY <1>2, <2>1
<1>4. ~(k < q)
  <2> SUFFICES ASSUME k < q PROVE FALSE  OBVIOUS
  <2>1. k * f + f <= q * f  BY <1>2, ProductMonotone
  <2> QED BY <1>2, <2>1
<1> QED BY <1>2, <1>3, <1>4

-----------------------------------------------------------------------------
(* Rounding.                                                                *)

\* What round_up computes when the sum does not wrap: the least multiple of
\* factor that is not below n.
LEMMA RoundUpExact ==
    ASSUME NEW n \in 1..(Word - 1), NEW f \in Nat \ {0}
    PROVE  LET k == ((n - 1) \div f) + 1
           IN  /\ k \in Nat \ {0}
               /\ RoundUp(n, f) = (k * f) % Word
               /\ n <= k * f /\ k * f < n + f
<1> DEFINE q == (n - 1) \div f
           m == (n - 1) % f
<1>1. n - 1 \in Nat /\ (n - 1) % Word = n - 1  BY SizeAssumption
<1>2. q \in Nat /\ m \in 0..(f - 1) /\ n - 1 = q * f + m
  BY <1>1, Division
<1>3. (q + 1) * f = q * f + f  BY <1>2
<1>4. n + (f - 1) - m = (q + 1) * f  BY <1>2, <1>3
<1>5. RoundUp(n, f) = ((q + 1) * f) % Word  BY <1>1, <1>4 DEF RoundUp
<1> QED BY <1>2, <1>3, <1>4, <1>5

-----------------------------------------------------------------------------
(* Pages.                                                                   *)

LEMMA RoundUpType ==
    ASSUME NEW n \in Nat, NEW f \in Nat \ {0}
    PROVE  RoundUp(n, f) \in Size
<1>1. Word \in Nat \ {0}  BY SizeAssumption
<1>2. (n - 1) % Word \in Int /\ ((n - 1) % Word) % f \in Int
  BY <1>1
<1> QED BY <1>1, <1>2 DEF RoundUp, Size

LEMMA PageCountType ==
    ASSUME NEW n \in Size
    PROVE  PageCount(n) \in Nat
<1>1. PageSize \in Nat \ {0}  BY SizeAssumption
<1>2. RoundUp(n, PageSize) \in Nat
  BY <1>1, RoundUpType, SizeAssumption DEF Size
<1>3. RoundUp(n, PageSize) \div PageSize \in Nat  BY <1>1, <1>2, Division
<1> QED BY <1>3 DEF PageCount, MultipleOf

\* Sizes that fit a reservation touch no page beyond it.
LEMMA PageCountFits ==
    ASSUME NEW n \in Size, NEW k \in Nat, n <= k * PageSize,
           k * PageSize < Word
    PROVE  /\ PageCount(n) \in Nat /\ PageCount(n) <= k
           /\ n <= PageCount(n) * PageSize /\ PageCount(n) * PageSize <= k * PageSize
<1>1. PageSize \in Nat \ {0} /\ Word \in Nat \ {0}  BY SizeAssumption
<1>2. CASE n = 0
  <2>1. PageCount(n) = 0 /\ 0 * PageSize = 0  BY <1>1, <1>2 DEF PageCount
  <2> QED BY <1>1, <1>2, <2>1
<1>3. CASE n # 0
  <2> DEFINE j == ((n - 1) \div PageSize) + 1
  <2>1. /\ j \in Nat \ {0} /\ n <= j * PageSize /\ j * PageSize < n + PageSize
        /\ RoundUp(n, PageSize) = (j * PageSize) % Word
    BY <1>1, <1>3, RoundUpExact DEF Size
  <2>2. j <= k
    <3> SUFFICES ASSUME k < j PROVE FALSE  BY <2>1
    <3>1. k * PageSize + PageSize <= j * PageSize  BY <1>1, <2>1, ProductMonotone
    <3> HIDE DEF j
    <3>2. j * PageSize \in Nat /\ k * PageSize \in Nat  BY <1>1, <2>1
    <3> QED BY <1>1, <2>1, <3>1, <3>2 DEF Size
  <2>3. j * PageSize <= k * PageSize
    <3>1. CASE j = k  BY <3>1, <1>1, <2>1
    <3>2. CASE j < k
      <4>1. j * PageSize + PageSize <= k * PageSize
        BY <3>2, <1>1, <2>1, ProductMonotone
      <4> QED BY <4>1, <1>1, <2>1
    <3> QED BY <2>1, <2>2, <3>1, <3>2
  <2>4. RoundUp(n, PageSize) = j * PageSize
    <3> HIDE DEF j
    <3>1. j * PageSize \in 0..(Word - 1)  BY <1>1, <2>1, <2>3
    <3>2. (j * PageSize) % Word = j * PageSize  BY <1>1, <3>1
    <3> QED BY <2>1, <3>2
  <2>5. RoundUp(n, PageSize) \div PageSize = j
    BY <1>1, <2>1, <2>4, ProductDivision
  <2>6. PageCount(n) = j  BY <1>3, <2>5 DEF PageCount, MultipleOf
  <2> HIDE DEF j
  <2> QED BY <2>1, <2>2, <2>3, <2>6
<1> QED BY <1>2, <1>3

\* More bytes never touch fewer pages.
LEMMA PageCountMonotone ==
    ASSUME NEW m \in Size, NEW n \in Size, m <= n, NEW k \in Nat,
           n <= k * PageSize, k * PageSize < Word
    PROVE  PageCount(m) \in Nat /\ PageCount(n) \in Nat /\ PageCount(m) <= PageCount(n)
<1> DEFINE j == PageCount(n)
<1>1. PageSize \in Nat /\ Word \in Nat /\ Size \subseteq Nat
  BY SizeAssumption DEF Size
<1>2. j \in Nat /\ n <= j * PageSize /\ j * PageSize <= k * PageSize
  BY PageCountFits
<1> HIDE DEF j
<1>3. j * PageSize \in Nat /\ k * PageSize \in Nat  BY <1>1, <1>2
<1>4. m <= j * PageSize /\ j * PageSize < Word  BY <1>1, <1>2, <1>3
<1>5. PageCount(m) \in Nat /\ PageCount(m) <= j  BY <1>2, <1>4, PageCountFits
<1> QED BY <1>2, <1>5 DEF j

\* A reservation that is not empty covers max_size and does not wrap.
LEMMA MinimumSizeCovers ==
    ASSUME NEW n \in Size, n # 0
    PROVE  LET k == MinimumSize(n) \div PageSize
           IN  /\ k \in Nat
               /\ k > 0 => n <= k * PageSize /\ k * PageSize < Word
<1>1. /\ PageSize \in Nat \ {0} /\ Word \in Nat \ {0}
      /\ Unit \in Nat \ {0}
  BY SizeAssumption DEF Unit
<1> DEFINE w == Word \div Unit
           u == Unit \div PageSize
           j == ((n - 1) \div Unit) + 1
<1>2. w \in Nat /\ Word = w * Unit
  BY <1>1, Division, UnitAssumption
<1>3. u \in Nat /\ Unit = u * PageSize
  BY <1>1, Division, UnitAssumption
<1>4. /\ j \in Nat \ {0} /\ n <= j * Unit /\ j * Unit < n + Unit
      /\ MinimumSize(n) = (j * Unit) % Word
  BY <1>1, RoundUpExact DEF Size, MinimumSize
<1> HIDE DEF w, u, j
<1>5. j <= w
  <2> SUFFICES ASSUME w < j PROVE FALSE  BY <1>2, <1>4
  <2>1. w * Unit + Unit <= j * Unit  BY <1>1, <1>2, <1>4, ProductMonotone
  <2> QED BY <1>1, <1>2, <1>4, <2>1 DEF Size
<1>6. CASE j = w
  <2>1. MinimumSize(n) = 0  BY <1>1, <1>2, <1>4, <1>6
  <2>2. 0 \div PageSize = 0  BY <1>1
  <2> QED BY <2>1, <2>2
<1>7. CASE j < w
  <2>1. j * Unit + Unit <= w * Unit  BY <1>1, <1>2, <1>4, <1>7, ProductMonotone
  <2>2. j * Unit \in 0..(Word - 1)  BY <1>1, <1>2, <1>4, <2>1
  <2>3. MinimumSize(n) = j * Unit  BY <1>1, <1>4, <2>2
  <2>4. j * Unit = (j * u) * PageSize  BY <1>1, <1>3, <1>4
  <2>5. j * u \in Nat  BY <1>3, <1>4
  <2>6. MinimumSize(n) \div PageSize = j * u
    BY <1>1, <2>3, <2>4, <2>5, ProductDivision
  <2> QED BY <1>1, <1>4, <2>2, <2>4, <2>5, <2>6
<1> QED BY <1>2, <1>4, <1>5, <1>6, <1>7

-----------------------------------------------------------------------------
(* The inductive invariant.                                                 *)

LEMMA ReservedPagesCover ==
    ASSUME NEW r \in Regions, region[r].max_size \in Size
    PROVE  /\ ReservedPages(r) \in Nat
           /\ ReservedPages(r) > 0 =>
                 /\ region[r].max_size <= ReservedPages(r) * PageSize
                 /\ ReservedPages(r) * PageSize < Word
<1>1. CASE region[r].max_size = 0
  <2>1. 0 \div PageSize = 0  BY SizeAssumption
  <2> QED BY <1>1, <2>1 DEF ReservedPages, ReservedSize
<1>2. CASE region[r].max_size # 0
  <2>1. ReservedPages(r) = MinimumSize(region[r].max_size) \div PageSize
    BY <1>2 DEF ReservedPages, ReservedSize
  <2> QED BY <1>2, <2>1, MinimumSizeCovers
<1> QED BY <1>1, <1>2

LEMMA InitInv == Init => Inv
<1> SUFFICES ASSUME Init PROVE Inv  OBVIOUS
<1>1. 0 \in Size /\ PageSize \in Nat  BY SizeAssumption DEF Size
<1>2. TypeOK  BY <1>1 DEF Init, TypeOK, Empty
<1>3. SoleOwner /\ UsableCommitted /\ WithinReservation /\ Backed
  BY <1>1 DEF Init, Empty, SoleOwner, UsableCommitted, WithinReservation, Backed
<1> QED BY <1>2, <1>3 DEF Inv

\* A region that appears without a reservation disturbs nothing.
LEMMA ConstructInv ==
    ASSUME Inv, NEW r \in Regions, NEW n \in MaxSizes, Construct(r, n)
    PROVE  Inv'
<1> USE DEF Inv
<1>1. n \in Size /\ 0 \in Size /\ Size \subseteq Nat
  BY SizeAssumption DEF Size
<1>2. Fresh(n) \in [max_size : Size, current_size : Size,
                    memory : Addresses \cup {NULL}]
  BY <1>1 DEF Fresh
<1>3. TypeOK'  BY <1>1, <1>2 DEF TypeOK, Construct, Call
<1>4. \A s \in Regions : s # r => region'[s] = region[s]
  BY DEF Construct, TypeOK
<1>5. region'[r] = Fresh(n)  BY DEF Construct, TypeOK
<1>6. region'[r].memory = NULL /\ region'[r].current_size = 0
      /\ region'[r].max_size = n
  BY <1>5 DEF Fresh
<1>7. SoleOwner'  BY <1>4, <1>6 DEF SoleOwner
<1>8. UsableCommitted'
  BY <1>4, <1>6 DEF UsableCommitted, UsablePages, Construct
<1>9. WithinReservation'
  BY <1>4, <1>6 DEF WithinReservation, Construct
<1>10. Backed'
  BY <1>1, <1>4, <1>6 DEF Backed, ReservedPages, ReservedSize, Construct
<1> QED BY <1>3, <1>7, <1>8, <1>9, <1>10

\* A move hands over the one claim there is to a reservation.
LEMMA TakeFromInv ==
    ASSUME Inv, NEW r \in Regions, NEW other \in Regions,
           region' = TakeFrom(r, other), UNCHANGED <<pages, committed>>,
           live' \subseteq Regions, Call("move", r, 0, NULL)
    PROVE  Inv'
<1> USE DEF Inv
<1>1. 0 \in Size /\ Size \subseteq Nat  BY SizeAssumption DEF Size
<1>2. Empty \in [max_size : Size, current_size : Size,
                 memory : Addresses \cup {NULL}]
  BY <1>1 DEF Empty
<1>3. TypeOK'  BY <1>1, <1>2 DEF TypeOK, TakeFrom, Call
<1>4. \A s \in Regions : s # r /\ s # other => region'[s] = region[s]
  BY DEF TakeFrom, TypeOK
<1>5. region'[other] = Empty /\ (r # other => region'[r] = region[other])
  BY DEF TakeFrom, TypeOK
<1>6. Empty.memory = NULL /\ Empty.current_size = 0 /\ Empty.max_size = 0
  BY DEF Empty
<1>7. SoleOwner'  BY <1>4, <1>5, <1>6 DEF SoleOwner
<1>8. UsableCommitted'
  BY <1>4, <1>5, <1>6 DEF UsableCommitted, UsablePages
<1>9. WithinReservation'
  BY <1>4, <1>5, <1>6 DEF WithinReservation
<1>10. Backed'
  BY <1>1, <1>4, <1>5, <1>6 DEF Backed, ReservedPages, ReservedSize
<1> QED BY <1>3, <1>7, <1>8, <1>9, <1>10

\* What holds of the base pointer grow works with: the region's own, or a
\* place nobody reserved before.
LEMMA GrowBase ==
    ASSUME Inv, NEW r \in Regions, NEW base \in LazyBases(r), base # NULL
    PROVE  /\ base \in Addresses
           /\ \A s \in Regions : s # r => region[s].memory # base
           /\ ReservedAt(r, base) \in [Addresses -> Nat]
           /\ ReservedAt(r, base)[base] = ReservedPages(r)
           /\ ReservedPages(r) > 0
           /\ \A a \in Addresses : a # base => ReservedAt(r, base)[a] = pages[a]
           /\ UsablePages(r) \subseteq committed[base]
           /\ committed[base] \subseteq 0..(ReservedPages(r) - 1)
<1> USE DEF Inv
<1>1. region[r].max_size \in Size /\ ReservedPages(r) \in Nat
  BY ReservedPagesCover DEF TypeOK
<1>2. CASE region[r].memory # NULL
  <2>1. base = region[r].memory /\ base \in Addresses
    BY <1>2 DEF LazyBases, TypeOK
  <2>2. ReservedAt(r, base) = pages  BY <1>2 DEF ReservedAt
  <2>3. UsablePages(r) \subseteq committed[base]
    BY <1>2, <2>1 DEF UsableCommitted
  <2> QED BY <1>2, <2>1, <2>2, <2>3
          DEF Backed, SoleOwner, WithinReservation, TypeOK
<1>3. CASE region[r].memory = NULL
  <2>1. base \in Addresses /\ pages[base] = 0 /\ ReservedPages(r) # 0
    BY <1>3 DEF LazyBases, ReserveOutcomes, FreeAddresses
  <2>2. ReservedAt(r, base) = [pages EXCEPT ![base] = ReservedPages(r)]
    BY <1>3 DEF ReservedAt
  <2>3. \A s \in Regions : region[s].memory # base
    BY <2>1, NullAssumption, ReservedPagesCover DEF Backed, TypeOK
  <2>4. UsablePages(r) = {}
    BY <1>3 DEF Backed, UsablePages, PageCount
  <2>5. committed[base] = {}
    BY <2>1 DEF WithinReservation
  <2> QED BY <1>1, <2>1, <2>2, <2>3, <2>4, <2>5 DEF TypeOK
<1> QED BY <1>2, <1>3

\* grow when nothing is gained: no base, or the maximum would be exceeded.
LEMMA GrowRefusedInv ==
    ASSUME Inv, NEW r \in Regions, NEW n \in Size, NEW base \in LazyBases(r),
           pages' = ReservedAt(r, base), live' \subseteq Regions,
           region' = [region EXCEPT ![r].memory = base],
           Call("grow", r, n, NULL), UNCHANGED committed
    PROVE  Inv'
<1> USE DEF Inv
<1>1. CASE base = NULL
  <2>1. region[r].memory = NULL /\ pages' = pages
    BY <1>1, NullAssumption DEF LazyBases, ReservedAt
  <2>2. region' = region  BY <1>1, <2>1 DEF TypeOK
  <2>3. TypeOK'  BY <2>1, <2>2 DEF TypeOK, Call
  <2> QED BY <2>1, <2>2, <2>3
          DEF SoleOwner, UsableCommitted, UsablePages, WithinReservation,
              Backed, ReservedPages, ReservedSize
<1>2. CASE base # NULL
  <2>1. base \in Addresses  BY <1>2, GrowBase
  <2>2. region'[r] = [region[r] EXCEPT !.memory = base]
    BY DEF TypeOK
  <2>3. /\ region'[r].memory = base
        /\ region'[r].current_size = region[r].current_size
        /\ region'[r].max_size = region[r].max_size
    BY <2>2 DEF TypeOK
  <2>4. \A s \in Regions : s # r => region'[s] = region[s]
    BY DEF TypeOK
  <2>5. /\ pages' \in [Addresses -> Nat] /\ pages'[base] = ReservedPages(r)
        /\ \A a \in Addresses : a # base => pages'[a] = pages[a]
    BY <1>2, GrowBase
  <2>6. TypeOK'
    <3>1. region' \in [Regions -> [max_size : Size, current_size : Size,
                                  memory : Addresses \cup {NULL}]]
      BY <2>1 DEF TypeOK
    <3> QED BY <2>5, <3>1 DEF TypeOK, Call
  <2>7. SoleOwner'  BY <1>2, <2>3, <2>4, GrowBase DEF SoleOwner
  <2>8. UsableCommitted'
    BY <1>2, <2>3, <2>4, GrowBase DEF UsableCommitted, UsablePages
  <2>9. /\ ReservedPages(r)' = ReservedPages(r)
        /\ \A s \in Regions : s # r => ReservedPages(s)' = ReservedPages(s)
    BY <2>3, <2>4 DEF ReservedPages, ReservedSize
  <2>10. Backed'
    BY <1>2, <2>3, <2>4, <2>5, <2>9, GrowBase DEF Backed, TypeOK
  <2>11. WithinReservation'
    <3>1. \A a \in Addresses : committed'[a] \subseteq 0..(pages'[a] - 1)
      BY <1>2, <2>1, <2>5, GrowBase DEF WithinReservation
    <3>2. \A s \in Regions : region'[s].memory # NULL =>
              region'[s].max_size <= pages'[region'[s].memory] * PageSize
      BY <1>2, <2>3, <2>4, <2>5, GrowBase, ReservedPagesCover
         DEF WithinReservation, TypeOK
    <3> QED BY <3>1, <3>2 DEF WithinReservation
  <2> QED BY <2>6, <2>7, <2>8, <2>10, <2>11
<1> QED BY <1>1, <1>2

\* grow when the new size is within the maximum: either the platform refuses
\* the pages and the size stays, or they are committed and the size is new.
LEMMA GrowServedInv ==
    ASSUME Inv, NEW r \in Regions, NEW n \in Size, NEW base \in LazyBases(r),
           NEW granted \in BOOLEAN, base # NULL, ~Exhausted(r, n),
           pages' = ReservedAt(r, base), live' \subseteq Regions,
           GrowFrom(r, n, base, granted)
    PROVE  Inv'
<1> USE DEF Inv
<1> DEFINE current == region[r].current_size
           total == (n + current) % Word
           old == PageCount(current)
           new == PageCount(total)
           ok == new > old => granted
           size == IF ok THEN total ELSE current
<1>1. /\ current \in Size /\ region[r].max_size \in Size /\ Size \subseteq Nat
      /\ current <= region[r].max_size
  BY DEF TypeOK, Backed, Size
<1>2. total \in Size /\ total <= region[r].max_size
  BY <1>1, SizeAssumption DEF Exhausted, Size
<1>3. /\ base \in Addresses /\ pages' \in [Addresses -> Nat]
      /\ pages'[base] = ReservedPages(r)
      /\ \A a \in Addresses : a # base => pages'[a] = pages[a]
  BY GrowBase
<1>4. /\ ReservedPages(r) \in Nat /\ ReservedPages(r) > 0
      /\ region[r].max_size <= ReservedPages(r) * PageSize
      /\ ReservedPages(r) * PageSize < Word
  BY <1>1, GrowBase, ReservedPagesCover
<1>5. /\ old \in Nat /\ new \in Nat /\ new <= ReservedPages(r)
  <2>1. ReservedPages(r) * PageSize \in Nat  BY <1>4, SizeAssumption
  <2>2. total <= ReservedPages(r) * PageSize
    <3> HIDE DEF total
    <3>1. total \in Nat /\ region[r].max_size \in Nat  BY <1>1, <1>2
    <3> QED BY <1>2, <1>4, <2>1, <3>1
  <2> QED BY <1>1, <1>2, <1>4, <2>2, PageCountFits, PageCountType
<1>6. /\ region' = [region EXCEPT ![r] = [@ EXCEPT !.memory = base,
                                                  !.current_size = size]]
      /\ Call("grow", r, n, IF ok THEN base ELSE NULL)
      /\ committed' = IF ok /\ new > old
                     THEN CommitPages(base, old, new) ELSE committed
  BY DEF GrowFrom, SizeAfterCommit
<1>7. size \in Size /\ size <= region[r].max_size  BY <1>1, <1>2
<1> HIDE DEF size
<1>8. region'[r] = [region[r] EXCEPT !.memory = base, !.current_size = size]
  BY <1>6 DEF TypeOK
<1>9. /\ region'[r].memory = base /\ region'[r].current_size = size
      /\ region'[r].max_size = region[r].max_size
  BY <1>8 DEF TypeOK
<1>10. \A s \in Regions : s # r => region'[s] = region[s]
  BY <1>6 DEF TypeOK
<1>11. /\ committed' \in [Addresses -> SUBSET Nat]
       /\ \A a \in Addresses : a # base => committed'[a] = committed[a]
       /\ committed'[base] = IF ok /\ new > old
                            THEN committed[base] \cup old..(new - 1)
                            ELSE committed[base]
  <2>1. old..(new - 1) \subseteq Nat  BY <1>5
  <2> HIDE DEF old, new, ok
  <2> QED BY <1>3, <1>6, <2>1 DEF CommitPages, TypeOK
<1>12. /\ committed'[base] \subseteq 0..(ReservedPages(r) - 1)
       /\ 0..(PageCount(size) - 1) \subseteq committed'[base]
  <2>1. 0..(old - 1) \subseteq committed[base]
    BY GrowBase DEF UsablePages
  <2>2. committed[base] \subseteq 0..(ReservedPages(r) - 1)
    BY GrowBase
  <2>3. PageCount(size) = IF ok THEN new ELSE old
    BY DEF size
  <2> HIDE DEF old, new, ok
  <2> QED BY <1>4, <1>5, <1>11, <2>1, <2>2, <2>3
<1> HIDE DEF ok
<1>13. TypeOK'
  <2>1. region' \in [Regions -> [max_size : Size, current_size : Size,
                                memory : Addresses \cup {NULL}]]
    BY <1>3, <1>6, <1>7 DEF TypeOK
  <2> QED BY <1>3, <1>6, <1>11, <2>1 DEF TypeOK, Call
<1>14. SoleOwner'  BY <1>9, <1>10, GrowBase DEF SoleOwner
<1>15. UsableCommitted'
  BY <1>9, <1>10, <1>11, <1>12, GrowBase
     DEF UsableCommitted, UsablePages, TypeOK
<1>16. /\ ReservedPages(r)' = ReservedPages(r)
       /\ \A s \in Regions : s # r => ReservedPages(s)' = ReservedPages(s)
  BY <1>9, <1>10 DEF ReservedPages, ReservedSize
<1>17. Backed'
  BY <1>3, <1>4, <1>7, <1>9, <1>10, <1>16, GrowBase DEF Backed, TypeOK
<1>18. WithinReservation'
  <2>1. \A a \in Addresses : committed'[a] \subseteq 0..(pages'[a] - 1)
    BY <1>3, <1>11, <1>12 DEF WithinReservation
  <2>2. \A s \in Regions : region'[s].memory # NULL =>
            region'[s].max_size <= pages'[region'[s].memory] * PageSize
    BY <1>3, <1>4, <1>9, <1>10, GrowBase DEF WithinReservation, TypeOK
  <2> QED BY <2>1, <2>2 DEF WithinReservation
<1> QED BY <1>13, <1>14, <1>15, <1>17, <1>18

LEMMA GrowInv ==
    ASSUME Inv, NEW r \in Regions, NEW n \in Size, Grow(r, n)
    PROVE  Inv'
<1>1. PICK base \in LazyBases(r), granted \in BOOLEAN :
          pages' = ReservedAt(r, base) /\ GrowFrom(r, n, base, granted)
  BY DEF Grow
<1>2. live' \subseteq Regions  BY DEF Grow, Inv, TypeOK
<1>3. CASE base = NULL \/ Exhausted(r, n)
  BY <1>1, <1>2, <1>3, GrowRefusedInv DEF GrowFrom
<1>4. CASE ~(base = NULL \/ Exhausted(r, n))
  BY <1>1, <1>2, <1>4, GrowServedInv
<1> QED BY <1>3, <1>4

\* Decommitting touches the pages of one reservation, which one object owns.
LEMMA ResetInv ==
    ASSUME Inv, NEW r \in Regions, NEW gone,
           gone = Empty \/ \E release \in BOOLEAN : gone = AfterReset(r, release),
           region' = [region EXCEPT ![r] = gone],
           committed' = Decommitted(r), UNCHANGED pages,
           live' \subseteq Regions,
           last' \in [op : {"reset", "destroy"}, obj : {r}, arg : {0, 1},
                      result : {NULL}]
    PROVE  Inv'
<1> USE DEF Inv
<1>1. 0 \in Size /\ 1 \in Size /\ Size \subseteq Nat
  BY SizeAssumption DEF Size
<1>2. /\ gone \in [max_size : Size, current_size : Size,
                   memory : Addresses \cup {NULL}]
      /\ gone.current_size = 0
      /\ gone.memory \in {NULL, region[r].memory}
      /\ gone.memory # NULL => gone.max_size = region[r].max_size
      /\ gone.max_size \in Nat
  <2>1. region[r] \in [max_size : Size, current_size : Size,
                       memory : Addresses \cup {NULL}]
    BY DEF TypeOK
  <2>2. CASE gone = Empty
    BY <1>1, <2>1, <2>2 DEF Empty
  <2>3. CASE \E release \in BOOLEAN : gone = AfterReset(r, release)
    <3>1. CASE region[r].memory = NULL
      BY <1>1, <2>1, <2>3, <3>1 DEF AfterReset, Backed
    <3>2. CASE region[r].memory # NULL
      <4>1. PICK release \in BOOLEAN :
                gone = [region[r] EXCEPT !.current_size = 0,
                                         !.memory = IF release THEN NULL ELSE @]
        BY <2>3, <3>2 DEF AfterReset
      <4> QED BY <1>1, <2>1, <4>1
    <3> QED BY <3>1, <3>2
  <2> QED BY <2>2, <2>3
<1>3. /\ region'[r] = gone
      /\ \A s \in Regions : s # r => region'[s] = region[s]
      /\ region' \in [Regions -> [max_size : Size, current_size : Size,
                                  memory : Addresses \cup {NULL}]]
  BY <1>2 DEF TypeOK
<1>4. /\ committed' \in [Addresses -> SUBSET Nat]
      /\ \A a \in Addresses :
            /\ committed'[a] \subseteq committed[a]
            /\ a # region[r].memory => committed'[a] = committed[a]
  BY DEF Decommitted, DecommitPages, TypeOK
<1>5. TypeOK'  BY <1>1, <1>3, <1>4 DEF TypeOK
<1>6. SoleOwner'  BY <1>2, <1>3 DEF SoleOwner
<1>7. UsableCommitted'
  <2> SUFFICES ASSUME NEW s \in Regions, region'[s].memory # NULL
               PROVE  UsablePages(s)' \subseteq committed'[region'[s].memory]
    BY DEF UsableCommitted
  <2>1. CASE s = r
    BY <1>2, <1>3, <2>1 DEF UsablePages, PageCount
  <2>2. CASE s # r
    <3>1. /\ region[s].memory # region[r].memory
          /\ region[s].memory \in Addresses
      BY <1>3, <2>2 DEF SoleOwner, TypeOK
    <3> QED BY <1>3, <1>4, <2>2, <3>1 DEF UsableCommitted, UsablePages
  <2> QED BY <2>1, <2>2
<1>8. WithinReservation'
  BY <1>2, <1>3, <1>4 DEF WithinReservation
<1>9. \A s \in Regions : region'[s].memory # NULL =>
          ReservedPages(s)' = ReservedPages(s)
  BY <1>2, <1>3 DEF ReservedPages, ReservedSize
<1>10. Backed'
  BY <1>2, <1>3, <1>9 DEF Backed
<1> QED BY <1>5, <1>6, <1>7, <1>8, <1>10

\* A release gives the platform the pages of the reservation, never none, so
\* that VirtualFree refuses it and the reservation stays.
LEMMA ReleaseRefused ==
    ASSUME Inv, NEW r \in Regions, NEW release \in BOOLEAN
    PROVE  ResetPages(r, release) = pages
<1>1. CASE region[r].memory # NULL /\ release
  <2>1. ReservedPages(r) \in Nat \ {0}
    BY <1>1, ReservedPagesCover DEF Inv, Backed, TypeOK
  <2>2. ReservedPages(r) * PageSize # 0  BY <2>1, SizeAssumption
  <2> QED BY <1>1, <2>2 DEF ResetPages, Released
<1>2. CASE ~(region[r].memory # NULL /\ release)
  BY <1>2 DEF ResetPages
<1> QED BY <1>1, <1>2

LEMMA NextInv == Inv /\ [Next]_vars => Inv'
<1> SUFFICES ASSUME Inv, [Next]_vars PROVE Inv'  OBVIOUS
<1>1. CASE UNCHANGED vars
  BY <1>1 DEF vars, Inv, TypeOK, SoleOwner, UsableCommitted, UsablePages,
              WithinReservation, Backed, ReservedPages, ReservedSize
<1>2. ASSUME NEW r \in Regions, NEW n \in MaxSizes, Construct(r, n) PROVE Inv'
  BY <1>2, ConstructInv
<1>3. ASSUME NEW r \in Regions, NEW other \in Regions,
             MoveConstruct(r, other) \/ MoveAssign(r, other)
      PROVE  Inv'
  BY <1>3, TakeFromInv DEF MoveConstruct, MoveAssign, Inv, TypeOK
<1>4. ASSUME NEW r \in Regions, NEW n \in GrowSizes, Grow(r, n) PROVE Inv'
  <2>1. n \in Size  BY SizeAssumption DEF Size
  <2> QED BY <1>4, <2>1, GrowInv
<1>5. ASSUME NEW r \in Regions, ClaimNothing(r) PROVE Inv'
  <2>1. 0 \in Size  BY SizeAssumption DEF Size
  <2> QED BY <1>5, <2>1 DEF ClaimNothing, Call, Inv, TypeOK, SoleOwner, UsableCommitted,
         UsablePages, WithinReservation, Backed, ReservedPages, ReservedSize
<1>6. ASSUME NEW r \in Regions, ClaimRest(r) PROVE Inv'
  <2>1. region[r].max_size - region[r].current_size \in Size
    <3>1. region[r].max_size \in Size /\ region[r].current_size \in Size
      BY DEF Inv, TypeOK
    <3>2. region[r].current_size <= region[r].max_size  BY DEF Inv, Backed
    <3> QED BY <3>1, <3>2, SizeAssumption DEF Size
  <2> QED BY <1>6, <2>1, GrowInv DEF ClaimRest
<1>7. ASSUME NEW r \in Regions, NEW release \in BOOLEAN, Reset(r, release)
      PROVE  Inv'
  <2>1. pages' = pages  BY <1>7, ReleaseRefused DEF Reset
  <2>2. last' \in [op : {"reset", "destroy"}, obj : {r}, arg : {0, 1},
                   result : {NULL}]
    BY <1>7 DEF Reset, Call
  <2>3. live' \subseteq Regions  BY <1>7 DEF Reset, Inv, TypeOK
  <2> QED BY <1>7, <2>1, <2>2, <2>3, ResetInv DEF Reset
<1>8. ASSUME NEW r \in Regions, Destroy(r) PROVE Inv'
  <2>1. pages' = pages  BY <1>8, ReleaseRefused DEF Destroy
  <2>2. last' \in [op : {"reset", "destroy"}, obj : {r}, arg : {0, 1},
                   result : {NULL}]
    BY <1>8 DEF Destroy, Call
  <2>3. live' \subseteq Regions  BY <1>8 DEF Destroy, Inv, TypeOK
  <2> QED BY <1>8, <2>1, <2>2, <2>3, ResetInv DEF Destroy
<1> QED BY <1>1, <1>2, <1>3, <1>4, <1>5, <1>6, <1>7, <1>8 DEF Next

(* Whatever the platform refuses and in whatever order objects are made,    *)
(* moved, grown, reset and destroyed, types are right and every reservation *)
(* has one owner, who can use all it was told it can (memory_region.cpp).   *)
THEOREM InvHolds == Spec => []Inv
BY InitInv, NextInv, PTL DEF Spec

(* No two objects ever hold the same reservation.                           *)
THEOREM SoleOwnerHolds == Spec => []SoleOwner
<1>1. Inv => SoleOwner  BY DEF Inv
<1> QED BY <1>1, InvHolds, PTL

(* Every byte below current_size can be read and written.                   *)
THEOREM UsableCommittedHolds == Spec => []UsableCommitted
<1>1. Inv => UsableCommitted  BY DEF Inv
<1> QED BY <1>1, InvHolds, PTL

(* Nothing is committed, or promised, beyond what was reserved.             *)
THEOREM WithinReservationHolds == Spec => []WithinReservation
<1>1. Inv => WithinReservation  BY DEF Inv
<1> QED BY <1>1, InvHolds, PTL

-----------------------------------------------------------------------------
(* What a caller was given stays where it is.                               *)

LEMMA GrowKeepsCommitted ==
    ASSUME Inv, NEW r \in Regions, NEW n, Grow(r, n), NEW a \in Addresses
    PROVE  committed[a] \subseteq committed'[a]
<1>1. PICK base \in LazyBases(r), granted \in BOOLEAN :
          GrowFrom(r, n, base, granted)
  BY DEF Grow
<1> DEFINE old == PageCount(region[r].current_size)
           new == PageCount((n + region[r].current_size) % Word)
<1>2. committed' \in {committed, CommitPages(base, old, new)}
  BY <1>1 DEF GrowFrom
<1> HIDE DEF old, new
<1> QED BY <1>2 DEF CommitPages, Inv, TypeOK

\* Reset and destruction take pages from the one object they act on.
LEMMA DecommittedKeepsOthers ==
    ASSUME Inv, NEW r \in Regions, NEW s \in Regions, s # r,
           committed' = Decommitted(r), region[s].memory # NULL
    PROVE  committed'[region[s].memory] = committed[region[s].memory]
<1>1. region[s].memory \in Addresses /\ region[s].memory # region[r].memory
  BY DEF Inv, TypeOK, SoleOwner
<1> QED BY <1>1 DEF Decommitted, DecommitPages, Inv, TypeOK

LEMMA NextBytesPersist == Inv /\ [Next]_vars => [BytesPersist]_vars
<1> SUFFICES ASSUME Inv, Next, NEW s \in Regions, region[s].memory # NULL
             PROVE  \/ UsablePages(s) \subseteq committed'[region[s].memory]
                    \/ last'.op \in {"reset", "destroy"} /\ last'.obj = s
  BY DEF BytesPersist
<1> DEFINE base == region[s].memory
<1>1. base \in Addresses /\ UsablePages(s) \subseteq committed[base]
  BY DEF Inv, TypeOK, UsableCommitted
<1>2. CASE UNCHANGED committed
  BY <1>1, <1>2
<1>3. ASSUME NEW r \in Regions, NEW n, Grow(r, n)
      PROVE  UsablePages(s) \subseteq committed'[base]
  BY <1>1, <1>3, GrowKeepsCommitted
<1>4. ASSUME NEW r \in Regions, NEW release \in BOOLEAN,
             Reset(r, release) \/ Destroy(r)
      PROVE  \/ UsablePages(s) \subseteq committed'[base]
             \/ last'.op \in {"reset", "destroy"} /\ last'.obj = s
  <2>1. CASE r = s
    <3>1. CASE Reset(r, release)
      <4>1. last' = [op |-> "reset", obj |-> r,
                     arg |-> IF release THEN 1 ELSE 0, result |-> NULL]
        BY <3>1 DEF Reset, Call
      <4>2. last'.op = "reset" /\ last'.obj = r  BY <4>1
      <4> QED BY <2>1, <4>2
    <3>2. CASE Destroy(r)
      <4>1. last' = [op |-> "destroy", obj |-> r, arg |-> 0, result |-> NULL]
        BY <3>2 DEF Destroy, Call
      <4>2. last'.op = "destroy" /\ last'.obj = r  BY <4>1
      <4> QED BY <2>1, <4>2
    <3> QED BY <1>4, <3>1, <3>2
  <2>2. CASE r # s
    BY <1>1, <1>4, <2>2, DecommittedKeepsOthers DEF Reset, Destroy
  <2> QED BY <2>1, <2>2
<1> QED BY <1>2, <1>3, <1>4
        DEF Next, Construct, MoveConstruct, MoveAssign, ClaimNothing, ClaimRest

(* No call on one region, and no move, takes away bytes that the holder of  *)
(* another region, or of the moved one, was given.                          *)
THEOREM UsableBytesPersistHolds == Spec => UsableBytesPersist
BY InvHolds, NextBytesPersist, PTL DEF Spec, UsableBytesPersist

-----------------------------------------------------------------------------
(* What is committed is what the sizes say.                                 *)

\* An object that does not live has no reservation.
Unborn == \A r \in Regions \ live : region[r].memory = NULL

LEMMA UnbornKept ==
    ASSUME Inv, Unborn, [Next]_vars
    PROVE  Unborn'
<1> USE DEF Inv, TypeOK
<1>1. CASE UNCHANGED vars
  BY <1>1 DEF vars, Unborn
<1>2. ASSUME NEW r \in Regions, NEW n \in MaxSizes, Construct(r, n)
      PROVE  Unborn'
  BY <1>2 DEF Construct, Unborn
<1>3. ASSUME NEW r \in Regions, NEW other \in Regions,
             MoveConstruct(r, other) \/ MoveAssign(r, other)
      PROVE  Unborn'
  BY <1>3 DEF MoveConstruct, MoveAssign, TakeFrom, Unborn
<1>4. ASSUME NEW r \in Regions, NEW n, Grow(r, n)
      PROVE  Unborn'
  <2>1. r \in live /\ live' = live /\ \A s \in Regions : s # r => region'[s] = region[s]
    BY <1>4 DEF Grow, GrowFrom
  <2> QED BY <2>1 DEF Unborn
<1>5. ASSUME NEW r \in Regions, NEW release \in BOOLEAN, Reset(r, release)
      PROVE  Unborn'
  BY <1>5 DEF Reset, Unborn
<1>6. ASSUME NEW r \in Regions, Destroy(r)
      PROVE  Unborn'
  BY <1>6 DEF Destroy, Empty, Unborn
<1>7. ASSUME NEW r \in Regions, ClaimNothing(r)
      PROVE  Unborn'
  BY <1>7 DEF ClaimNothing, Unborn
<1> QED BY <1>1, <1>2, <1>3, <1>4, <1>5, <1>6, <1>7 DEF Next, ClaimRest

\* What is held at an address is what its one owner, or nobody, can use there.
LEMMA HeldByOwner ==
    ASSUME SoleOwner, NEW r \in Regions, region[r].memory # NULL
    PROVE  HeldPages(region[r].memory) = UsablePages(r)
<1>1. Owners(region[r].memory) = {r}  BY DEF SoleOwner, Owners
<1> QED BY <1>1 DEF HeldPages

\* The same holds of the objects after a step that leaves a owned as it was, but
\* for the size of its owner.
LEMMA HeldStays ==
    ASSUME NEW a,
           \A s \in Regions : region'[s].memory = a <=> region[s].memory = a,
           \A s \in Regions : region[s].memory = a =>
               region'[s].current_size = region[s].current_size
    PROVE  HeldPages(a)' = HeldPages(a)
<1>1. Owners(a)' = Owners(a)  BY DEF Owners
<1>2. \A s \in Owners(a) : UsablePages(s)' = UsablePages(s)  BY DEF UsablePages, Owners
<1> QED BY <1>1, <1>2 DEF HeldPages

LEMMA HeldAfter ==
    ASSUME SoleOwner', NEW a, a # NULL, NEW r \in Regions, region'[r].memory = a
    PROVE  HeldPages(a)' = UsablePages(r)'
<1>1. Owners(a)' = {r}  BY DEF SoleOwner, Owners
<1> QED BY <1>1 DEF HeldPages

Follows(a) == committed[a] = HeldPages(a)

\* A move leaves the size with the reservation.
LEMMA MoveFollows ==
    ASSUME Inv, Inv', NEW r \in Regions, NEW other \in Regions,
           region' = TakeFrom(r, other), UNCHANGED committed,
           NEW a \in Addresses, Follows(a), Owners(a)' # {}
    PROVE  Follows(a)'
<1> USE DEF Inv, TypeOK
<1>1. PICK s \in Regions : region'[s].memory = a  BY DEF Owners
<1>2. a # NULL  BY NullAssumption
<1>3. PICK o \in Regions : region[o] = region'[s]
  BY <1>1, <1>2 DEF TakeFrom, Empty
<1>4. HeldPages(a) = UsablePages(o)  BY <1>1, <1>2, <1>3, HeldByOwner
<1>5. HeldPages(a)' = UsablePages(s)'  BY <1>1, <1>2, HeldAfter
<1>6. UsablePages(s)' = UsablePages(o)  BY <1>3 DEF UsablePages
<1> QED BY <1>4, <1>5, <1>6 DEF Follows

\* What a grow leaves behind: the size as it was, or the new one with its pages.
LEMMA GrowResult ==
    ASSUME Inv, NEW r \in Regions, NEW n, NEW base, NEW granted \in BOOLEAN,
           GrowFrom(r, n, base, granted)
    PROVE  LET current == region[r].current_size
               total == (n + current) % Word
               old == PageCount(current)
               new == PageCount(total)
           IN  /\ \A s \in Regions : s # r => region'[s] = region[s]
               /\ region'[r].memory = base
               /\ last'.op = "grow" /\ last'.obj = r /\ last'.arg = n
               /\ \/ region'[r].current_size = current /\ committed' = committed
                  \/ /\ base # NULL /\ ~Exhausted(r, n)
                     /\ region'[r].current_size = total
                     /\ committed' = IF new > old THEN CommitPages(base, old, new)
                                     ELSE committed
<1> DEFINE current == region[r].current_size
           total == (n + current) % Word
           old == PageCount(current)
           new == PageCount(total)
           ok == new > old => granted
           size == IF ok THEN total ELSE current
<1>1. region[r] \in [max_size : Size, current_size : Size, memory : Addresses \cup {NULL}]
      /\ DOMAIN region = Regions
  BY DEF Inv, TypeOK
<1>2. CASE base = NULL \/ Exhausted(r, n)
  <2>1. region' = [region EXCEPT ![r].memory = base] /\ Call("grow", r, n, NULL)
        /\ committed' = committed
    BY <1>2 DEF GrowFrom
  <2>2. region'[r].memory = base /\ region'[r].current_size = current
    BY <1>1, <2>1
  <2>3. last'.op = "grow" /\ last'.obj = r /\ last'.arg = n
    BY <2>1 DEF Call
  <2>4. \A s \in Regions : s # r => region'[s] = region[s]
    BY <1>1, <2>1
  <2> QED BY <2>1, <2>2, <2>3, <2>4
<1>3. CASE ~(base = NULL \/ Exhausted(r, n))
  <2>1. /\ region' = [region EXCEPT ![r] = [@ EXCEPT !.memory = base,
                                                    !.current_size = size]]
        /\ Call("grow", r, n, IF ok THEN base ELSE NULL)
        /\ committed' = IF ok /\ new > old
                       THEN CommitPages(base, old, new) ELSE committed
    BY <1>3 DEF GrowFrom, SizeAfterCommit
  <2>2. size = IF ok THEN total ELSE current
    OBVIOUS
  <2>3. ~ok => new > old /\ ~granted
    OBVIOUS
  <2> HIDE DEF size, old, new, total
  <2>4. region'[r] = [region[r] EXCEPT !.memory = base, !.current_size = size]
        /\ \A s \in Regions : s # r => region'[s] = region[s]
    BY <1>1, <2>1
  <2>5. region'[r].memory = base /\ region'[r].current_size = size
    BY <1>1, <2>4
  <2>6. last'.op = "grow" /\ last'.obj = r /\ last'.arg = n
    BY <2>1 DEF Call
  <2> HIDE DEF ok
  <2>7. \/ size = current /\ committed' = committed
        \/ size = total /\ committed' = IF new > old THEN CommitPages(base, old, new)
                                         ELSE committed
    <3>1. CASE ok  BY <2>1, <2>2, <3>1
    <3>2. CASE ~ok  BY <2>1, <2>2, <3>2
    <3> QED BY <3>1, <3>2
  <2> QED BY <1>3, <2>4, <2>5, <2>6, <2>7 DEF total, old, new
<1> QED BY <1>2, <1>3

\* A grow commits from where the pages end to where the new size ends.
LEMMA GrowFollows ==
    ASSUME Inv, Inv', NEW r \in Regions, NEW n \in Size, Grow(r, n), ~GrowWraps,
           NEW a \in Addresses, Follows(a)
    PROVE  Follows(a)'
<1> USE DEF Inv
<1> DEFINE current == region[r].current_size
           total == (n + current) % Word
           old == PageCount(current)
           new == PageCount(total)
<1>1. PICK base \in LazyBases(r), granted \in BOOLEAN :
          pages' = ReservedAt(r, base) /\ GrowFrom(r, n, base, granted)
  BY DEF Grow
<1>2. /\ \A s \in Regions : s # r => region'[s] = region[s]
      /\ region'[r].memory = base
      /\ last'.op = "grow" /\ last'.obj = r /\ last'.arg = n
      /\ \/ region'[r].current_size = current /\ committed' = committed
         \/ /\ base # NULL /\ ~Exhausted(r, n)
            /\ region'[r].current_size = total
            /\ committed' = IF new > old THEN CommitPages(base, old, new) ELSE committed
  BY <1>1, GrowResult
<1>3. region[r].memory \in {NULL, base}
  BY <1>1 DEF LazyBases
<1>4. a # NULL  BY NullAssumption
<1>5. CASE a # base
  <2>1. HeldPages(a)' = HeldPages(a)
    BY <1>2, <1>3, <1>4, <1>5, HeldStays
  <2>2. committed'[a] = committed[a]
    BY <1>2, <1>5 DEF CommitPages, TypeOK
  <2> QED BY <2>1, <2>2 DEF Follows
<1>6. CASE a = base
  <2>1. HeldPages(a)' = 0..(PageCount(region'[r].current_size) - 1)
    BY <1>2, <1>4, <1>6, HeldAfter DEF UsablePages
  <2>2. committed[a] = 0..(old - 1)
    <3>1. CASE region[r].memory = base
      BY <1>4, <1>6, <3>1, HeldByOwner DEF Follows, UsablePages
    <3>2. CASE region[r].memory = NULL
      <4>1. current = 0 /\ old = 0  BY <3>2 DEF Backed, PageCount
      <4>2. pages[base] = 0
        BY <1>1, <1>4, <1>6, <3>2 DEF LazyBases, ReserveOutcomes, FreeAddresses
      <4>3. committed[a] = {}
        BY <1>6, <4>2 DEF WithinReservation
      <4> QED BY <4>1, <4>3
    <3> QED BY <1>3, <3>1, <3>2
  <2>3. CASE region'[r].current_size = current /\ committed' = committed
    BY <2>1, <2>2, <2>3 DEF Follows
  <2>4. CASE /\ ~Exhausted(r, n) /\ region'[r].current_size = total
             /\ committed' = IF new > old THEN CommitPages(base, old, new) ELSE committed
    <3>1. /\ current \in Size /\ region[r].max_size \in Size /\ Size \subseteq Nat
          /\ Word \in Nat \ {0}
      BY SizeAssumption DEF TypeOK, Size
    <3>2. n + current < Word
      BY <1>2, <3>1 DEF GrowWraps, Size
    <3>3. total = n + current /\ total \in Size /\ total <= region[r].max_size
      BY <2>4, <3>1, <3>2 DEF Exhausted, Size
    <3>4. /\ ReservedPages(r) \in Nat /\ region[r].max_size <= ReservedPages(r) * PageSize
          /\ ReservedPages(r) * PageSize < Word
      BY <1>1, <1>4, <1>6, <3>1, GrowBase, ReservedPagesCover
    <3>5. total <= ReservedPages(r) * PageSize
      <4>1. ReservedPages(r) * PageSize \in Nat  BY <3>4, SizeAssumption
      <4>2. total \in Nat /\ region[r].max_size \in Nat  BY <3>1, <3>3
      <4> HIDE DEF total
      <4> QED BY <3>3, <3>4, <4>1, <4>2
    <3>6. old \in Nat /\ new \in Nat /\ old <= new
      <4>1. current <= total  BY <3>1, <3>3 DEF Size
      <4> QED BY <3>1, <3>3, <3>4, <3>5, <4>1, PageCountMonotone
    <3> HIDE DEF old
    <3>7. HeldPages(a)' = 0..(new - 1)
      BY <2>1, <2>4
    <3> HIDE DEF new
    <3>8. committed'[a] = IF new > old THEN committed[a] \cup old..(new - 1)
                          ELSE committed[a]
      BY <1>6, <2>4 DEF CommitPages, TypeOK
    <3>9. committed'[a] = 0..(new - 1)
      <4>1. 0..(old - 1) \cup old..(new - 1) = 0..(new - 1)
        BY <3>6
      <4>2. ~(new > old) => new = old
        BY <3>6
      <4> QED BY <2>2, <3>8, <4>1, <4>2 DEF old
    <3> QED BY <3>7, <3>9 DEF Follows
  <2> QED BY <1>2, <2>3, <2>4
<1> QED BY <1>5, <1>6

\* A reset decommits what the size says, and that is all there is.
LEMMA ResetFollows ==
    ASSUME Inv, Inv', NEW r \in Regions, NEW gone,
           gone = Empty \/ \E release \in BOOLEAN : gone = AfterReset(r, release),
           region' = [region EXCEPT ![r] = gone], committed' = Decommitted(r),
           NEW a \in Addresses, Follows(a)
    PROVE  Follows(a)'
<1> USE DEF Inv
<1>1. /\ region'[r] = gone
      /\ \A s \in Regions : s # r => region'[s] = region[s]
  BY DEF TypeOK
<1>2. gone.memory \in {NULL, region[r].memory} /\ gone.current_size = 0
  <2>1. region[r] \in [max_size : Size, current_size : Size,
                       memory : Addresses \cup {NULL}]
    BY DEF TypeOK
  <2>2. CASE gone = Empty
    BY <2>2 DEF Empty
  <2>3. CASE \E release \in BOOLEAN : gone = AfterReset(r, release)
    <3>1. CASE region[r].memory = NULL
      BY <2>3, <3>1 DEF AfterReset, Backed
    <3>2. CASE region[r].memory # NULL
      <4>1. PICK release \in BOOLEAN :
                gone = [region[r] EXCEPT !.current_size = 0,
                                         !.memory = IF release THEN NULL ELSE @]
        BY <2>3, <3>2 DEF AfterReset
      <4> QED BY <2>1, <4>1
    <3> QED BY <3>1, <3>2
  <2> QED BY <2>2, <2>3
<1>3. a # NULL  BY NullAssumption
<1>4. CASE a # region[r].memory
  <2>1. HeldPages(a)' = HeldPages(a)
    BY <1>1, <1>2, <1>3, <1>4, HeldStays
  <2>2. committed'[a] = committed[a]
    BY <1>4 DEF Decommitted, DecommitPages, TypeOK
  <2> QED BY <2>1, <2>2 DEF Follows
<1>5. CASE a = region[r].memory
  <2>1. committed[a] = 0..(PageCount(region[r].current_size) - 1)
    BY <1>3, <1>5, HeldByOwner DEF Follows, UsablePages
  <2>2. committed'[a] = {}
    <3>1. CASE region[r].current_size > 0
      BY <1>3, <1>5, <2>1, <3>1 DEF Decommitted, DecommitPages, TypeOK
    <3>2. CASE ~(region[r].current_size > 0)
      <4>1. region[r].current_size = 0
        BY <3>2, SizeAssumption DEF TypeOK, Size
      <4>2. committed[a] = {}  BY <2>1, <4>1 DEF PageCount
      <4> QED BY <3>2, <4>2 DEF Decommitted
    <3> QED BY <3>1, <3>2
  <2>3. HeldPages(a)' = {}
    <3>1. \A s \in Owners(a)' : s = r
      BY <1>1, <1>3, <1>5 DEF Owners, SoleOwner
    <3>2. UsablePages(r)' = {}
      BY <1>1, <1>2 DEF UsablePages, PageCount
    <3> QED BY <3>1, <3>2 DEF HeldPages
  <2> QED BY <2>2, <2>3 DEF Follows
<1> QED BY <1>4, <1>5

LEMMA NextFollows ==
    ASSUME Inv, Inv', Unborn, Next, NEW a \in Addresses,
           Follows(a), ~GrowWraps, ~Abandoned(a)
    PROVE  Follows(a)'
<1>1. ASSUME NEW r \in Regions, NEW n \in MaxSizes, Construct(r, n)
      PROVE  Follows(a)'
  <2>1. /\ region[r].memory = NULL /\ region'[r].memory = NULL
        /\ \A s \in Regions : s # r => region'[s] = region[s]
        /\ committed' = committed
    BY <1>1 DEF Construct, Unborn, Fresh, Inv, TypeOK
  <2>2. HeldPages(a)' = HeldPages(a)  BY <2>1, NullAssumption, HeldStays
  <2> QED BY <2>1, <2>2 DEF Follows
<1>2. ASSUME NEW r \in Regions, NEW other \in Regions,
             MoveConstruct(r, other) \/ MoveAssign(r, other)
      PROVE  Follows(a)'
  <2>1. last'.op = "move" /\ region' = TakeFrom(r, other) /\ committed' = committed
    BY <1>2 DEF MoveConstruct, MoveAssign, Call
  <2>2. Owners(a)' # {}  BY <2>1 DEF Abandoned
  <2> QED BY <2>1, <2>2, MoveFollows
<1>3. ASSUME NEW r \in Regions, NEW n \in Size, Grow(r, n)
      PROVE  Follows(a)'
  BY <1>3, GrowFollows
<1>4. GrowSizes \subseteq Size  BY SizeAssumption DEF Size
<1>5. ASSUME NEW r \in Regions, ClaimRest(r)
      PROVE  Follows(a)'
  <2>1. region[r].max_size - region[r].current_size \in Size
    BY SizeAssumption DEF Inv, TypeOK, Backed, Size
  <2> QED BY <1>3, <1>5, <2>1 DEF ClaimRest
<1>6. ASSUME NEW r \in Regions, ClaimNothing(r)
      PROVE  Follows(a)'
  <2>1. region' = region /\ committed' = committed  BY <1>6 DEF ClaimNothing
  <2>2. HeldPages(a)' = HeldPages(a)  BY <2>1, HeldStays
  <2> QED BY <2>1, <2>2 DEF Follows
<1>7. ASSUME NEW r \in Regions, NEW release \in BOOLEAN, Reset(r, release)
      PROVE  Follows(a)'
  <2>1. region' = [region EXCEPT ![r] = AfterReset(r, release)]
        /\ committed' = Decommitted(r)
    BY <1>7 DEF Reset
  <2> QED BY <2>1, ResetFollows
<1>8. ASSUME NEW r \in Regions, Destroy(r)
      PROVE  Follows(a)'
  BY <1>8, ResetFollows DEF Destroy
<1> QED BY <1>1, <1>2, <1>3, <1>4, <1>5, <1>6, <1>7, <1>8 DEF Next

(* The pages committed follow the size through every step, but for a grow   *)
(* that wraps around and a move over an object that had pages: reset, which *)
(* goes by the size alone, leaves none behind.                              *)
THEOREM PagesFollowSizeHolds == Spec => PagesFollowSize
<1>1. Init => Unborn  BY DEF Init, Unborn, Empty
<1>2. Inv /\ Unborn /\ [Next]_vars => Unborn'  BY UnbornKept
<1>3. ASSUME Inv, Inv', Unborn, [Next]_vars
      PROVE  [\A a \in Addresses :
                 committed[a] = HeldPages(a) /\ ~GrowWraps /\ ~Abandoned(a) =>
                     committed'[a] = HeldPages(a)']_vars
  BY <1>3, NextFollows DEF Follows
<1> QED BY <1>1, <1>2, <1>3, InvHolds, PTL DEF Spec, PagesFollowSize
=============================================================================
