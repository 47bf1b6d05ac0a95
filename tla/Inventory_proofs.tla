-------------------------- MODULE Inventory_proofs --------------------------
(***************************************************************************)
(* Theorems about Inventory, for any catalog, any number of characters,    *)
(* slots and requests, and any account that is in order to begin with.     *)
(***************************************************************************)
EXTENDS Inventory, FiniteSetTheorems, TLAPS

-----------------------------------------------------------------------------
(* What the operators return *)

\* A count of pieces.
LEMMA CappedIsCount ==
    ASSUME NEW n \in Nat
    PROVE  Capped(n) \in 0 .. MaxCount /\ (n <= MaxCount => Capped(n) = n)
  BY CatalogIsTyped DEF Capped

\* Capped keeps order.
LEMMA CappedIsMonotone ==
    ASSUME NEW m \in Nat, NEW n \in Nat, m <= n
    PROVE  Capped(m) <= Capped(n)
  BY CatalogIsTyped DEF Capped

LEMMA CountsAreNumbers ==
    ASSUME NEW in, IsInventory(in), NEW i
    PROVE  CountOf(in, i) \in 0 .. MaxCount
  BY CatalogIsTyped DEF IsInventory, CountOf

\* The copies of an item in boxes are finitely many, and at least as many as
\* there are in the boxes of one stack.
LEMMA CopiesAreCounted ==
    ASSUME NEW in, IsInventory(in), NEW T \in SUBSET DOMAIN in.stacks, NEW i
    PROVE  /\ Cardinality(Copies(in, T, i)) \in Nat
           /\ \A p \in T : i \in Contents[p] =>
                  Cardinality(Copies(in, T, i)) >= AtLeastOne(in.stacks[p])
<1>1. IsFiniteSet(T)
  BY CatalogIsTyped, FS_Subset DEF IsInventory
<1>2. IsFiniteSet(1 .. MaxCount)
  BY CatalogIsTyped, FS_Interval
<1>3. IsFiniteSet(T \X (1 .. MaxCount))
  BY <1>1, <1>2, FS_Product
<1>4. IsFiniteSet(Copies(in, T, i))
  BY <1>3, FS_Subset DEF Copies
<1>5. ASSUME NEW p \in T, i \in Contents[p]
      PROVE  Cardinality(Copies(in, T, i)) >= AtLeastOne(in.stacks[p])
  <2> DEFINE n == AtLeastOne(in.stacks[p])
             One == {p} \X (1 .. n)
  <2>1. n \in 1 .. MaxCount
    BY CatalogIsTyped DEF IsInventory, AtLeastOne
  <2>2. IsFiniteSet(1 .. n) /\ Cardinality(1 .. n) = n
    BY <2>1, CatalogIsTyped, FS_Interval
  <2>3. IsFiniteSet({p}) /\ Cardinality({p}) = 1
    BY FS_Singleton
  <2>4. Cardinality(One) = n
    <3>1. Cardinality(One) = Cardinality({p}) * Cardinality(1 .. n)
      BY <2>2, <2>3, FS_Product
    <3> QED
      BY <2>1, <2>2, <2>3, <3>1, CatalogIsTyped
  <2>5. One \subseteq Copies(in, T, i)
    BY <1>5, <2>1, CatalogIsTyped DEF Copies
  <2>6. Cardinality(One) <= Cardinality(Copies(in, T, i))
    BY <1>4, <2>5, FS_Subset
  <2>7. Cardinality(Copies(in, T, i)) \in Nat
    BY <1>4, FS_CardinalityType
  <2> QED
    BY <2>1, <2>4, <2>6, <2>7, CatalogIsTyped
<1> QED
  BY <1>4, <1>5, FS_CardinalityType

\* out is in with the gift: what joins the owned lists, what the stacks count,
\* and that what is worn stays.
IsGiven(in, gift, out) ==
    /\ IsInventory(out)
    /\ out.worn = in.worn
    /\ DOMAIN out.stacks = DOMAIN in.stacks \cup (DOMAIN gift \ Wearable)
    /\ \A i \in DOMAIN gift \ Wearable :
           CountOf(out, i) = Capped(CountOf(in, i) + gift[i])
    /\ \A i \in DOMAIN in.stacks : CountOf(out, i) >= CountOf(in, i)
    /\ \A c \in Mine :
           out.owned[c] = in.owned[c] \cup {i \in DOMAIN gift \cap Wearable : WearerOf[i] = c}

IsGift(gift) == DOMAIN gift \subseteq Items /\ gift \in [DOMAIN gift -> Nat]

LEMMA PutResult ==
    ASSUME NEW in, IsInventory(in), NEW gift, IsGift(gift)
    PROVE  IsGiven(in, gift, Put(in, gift))
<1> DEFINE S == DOMAIN gift
           out == Put(in, gift)
           stacks == [i \in DOMAIN in.stacks \cup (S \ Wearable) |->
                        IF i \in S \ Wearable THEN Capped(CountOf(in, i) + gift[i])
                                              ELSE in.stacks[i]]
           owned == [c \in Mine |->
                        in.owned[c] \cup {i \in S \cap Wearable : WearerOf[i] = c}]
<1>1. S \subseteq Items /\ gift \in [S -> Nat]
  BY DEF IsGift
<1>2. out = [stacks |-> stacks, owned |-> owned, worn |-> in.worn]
  <2>1. out = [in EXCEPT !.stacks = stacks, !.owned = owned]
    BY DEF Put
  <2> HIDE DEF out, stacks, owned
  <2>2. in = [stacks |-> in.stacks, owned |-> in.owned, worn |-> in.worn]
    BY DEF IsInventory
  <2> QED
    BY <2>1, <2>2
<1>3. \A i \in S : CountOf(in, i) + gift[i] \in Nat /\ CountOf(in, i) \in Nat
  BY <1>1, CountsAreNumbers, CatalogIsTyped
<1>4. stacks \in [DOMAIN in.stacks \cup (S \ Wearable) -> 0 .. MaxCount]
  BY <1>3, CappedIsCount DEF IsInventory
<1>5. owned \in [Mine -> SUBSET Items]
  BY <1>1 DEF IsInventory
<1>6. IsInventory(out)
  BY <1>1, <1>2, <1>4, <1>5 DEF IsInventory
<1>7. \A i \in S \ Wearable : CountOf(out, i) = Capped(CountOf(in, i) + gift[i])
  BY <1>2 DEF CountOf
<1>8. \A i \in DOMAIN in.stacks : CountOf(out, i) >= CountOf(in, i)
  <2> SUFFICES ASSUME NEW i \in DOMAIN in.stacks PROVE CountOf(out, i) >= CountOf(in, i)
    OBVIOUS
  <2>1. CountOf(in, i) \in 0 .. MaxCount
    BY CountsAreNumbers
  <2>2. CASE i \in S \ Wearable
    <3>1. gift[i] \in Nat
      BY <1>1, <2>2
    <3>2. Capped(CountOf(in, i) + gift[i]) >= CountOf(in, i)
      BY <2>1, <3>1, CatalogIsTyped DEF Capped
    <3> QED
      BY <1>7, <2>2, <3>2
  <2>3. CASE i \notin S \ Wearable
    BY <1>2, <2>1, <2>3, CatalogIsTyped DEF CountOf
  <2> QED
    BY <2>2, <2>3
<1>9. /\ out.worn = in.worn
      /\ DOMAIN out.stacks = DOMAIN in.stacks \cup (S \ Wearable)
      /\ \A c \in Mine :
            out.owned[c] = in.owned[c] \cup {i \in S \cap Wearable : WearerOf[i] = c}
  BY <1>2
<1> QED
  BY <1>6, <1>7, <1>8, <1>9 DEF IsGiven

\* The repair changes owned lists only: what it takes is of the misexpanded
\* swimsuit, what it gives of the right one.
LEMMA RepairResult ==
    ASSUME NEW in, IsInventory(in), OwnsItsWear(in)
    PROVE  LET out == Repair(in)
           IN  /\ IsInventory(out) /\ OwnsItsWear(out)
               /\ out.worn = in.worn /\ out.stacks = in.stacks
               /\ \A c \in Mine : \A i \in in.owned[c] \ out.owned[c] :
                      c = Hero /\ Misexpanded(in) /\ i \in LegacyPieces
               /\ \A c \in Mine : out.owned[c] \ in.owned[c] \subseteq SparePieces
<1> DEFINE out == Repair(in)
<1>1. CASE ~Misexpanded(in)
  BY <1>1 DEF Repair
<1>2. CASE Misexpanded(in)
  <2> DEFINE hers == (in.owned[Hero] \ LegacyPieces) \cup SparePieces
  <2>1. Hero \in Mine
    BY <1>2 DEF Misexpanded
  <2>2. in = [stacks |-> in.stacks, owned |-> in.owned, worn |-> in.worn]
    BY DEF IsInventory
  <2>3. out = [in EXCEPT !.owned[Hero] = hers]
    BY <1>2 DEF Repair
  <2>4. out = [stacks |-> in.stacks, owned |-> [in.owned EXCEPT ![Hero] = hers],
               worn |-> in.worn]
    <3> HIDE DEF out, hers
    <3> QED
      BY <2>2, <2>3
  <2>5. in.owned \in [Mine -> SUBSET Items]
    BY DEF IsInventory
  <2>6. out.owned[Hero] = hers /\ \A c \in Mine \ {Hero} : out.owned[c] = in.owned[c]
    BY <2>1, <2>4, <2>5
  <2>7. \A i \in SparePieces : i \in Items /\ i \in Wearable /\ WearerOf[i] = Hero
    BY <2>1, SwimsuitIsHeros, CatalogIsTyped DEF SparePieces, Wearable
  <2>8. IsInventory(out)
    <3>1. hers \in SUBSET Items
      BY <2>1, <2>5, <2>7
    <3> HIDE DEF out, hers
    <3>2. out.owned \in [Mine -> SUBSET Items]
      BY <2>4, <2>5, <3>1
    <3> QED
      BY <2>4, <3>2 DEF IsInventory
  <2>9. OwnsItsWear(out)
    BY <2>6, <2>7 DEF OwnsItsWear
  <2>10. out.worn = in.worn /\ out.stacks = in.stacks
    BY <2>4
  <2> HIDE DEF out
  <2>11. \A c \in Mine : \A i \in in.owned[c] \ out.owned[c] :
            c = Hero /\ Misexpanded(in) /\ i \in LegacyPieces
    BY <1>2, <2>6
  <2>12. \A c \in Mine : out.owned[c] \ in.owned[c] \subseteq SparePieces
    BY <2>6
  <2> QED
    BY <2>8, <2>9, <2>10, <2>11, <2>12 DEF out
<1> QED
  BY <1>1, <1>2

\* What the boxes T held is there, and the stacks in gone are not.
LEMMA UnboxResult ==
    ASSUME NEW in, IsInventory(in), OwnsItsWear(in), NEW T \in SUBSET Tokens(in), NEW gone
    PROVE  LET out == Without(Opened(in, T), gone)
               inside == UNION {Contents[p] : p \in T}
           IN  /\ IsInventory(out) /\ OwnsItsWear(out)
               /\ out.worn = in.worn
               /\ DOMAIN out.stacks = (DOMAIN in.stacks \cup (inside \ Wearable)) \ gone
               /\ \A i \in DOMAIN in.stacks \ gone : CountOf(out, i) >= CountOf(in, i)
               /\ \A c \in Mine :
                      out.owned[c] = in.owned[c] \cup {i \in inside \cap Wearable : WearerOf[i] = c}
               /\ \A p \in T : \A i \in Contents[p] \ (Wearable \cup gone) :
                      CountOf(out, i) >= Capped(CountOf(in, i) + AtLeastOne(in.stacks[p]))
<1> DEFINE inside == UNION {Contents[p] : p \in T}
           gift == [i \in inside |-> Cardinality(Copies(in, T, i))]
           full == Put(in, gift)
           rest == [i \in DOMAIN full.stacks \ gone |-> full.stacks[i]]
           out == [full EXCEPT !.stacks = rest]
<1>1. Without(Opened(in, T), gone) = out
  BY DEF Opened, Without
<1>2. T \subseteq DOMAIN in.stacks /\ T \subseteq Items
  BY DEF Tokens, IsInventory
<1>3. inside \in SUBSET Items
  BY <1>2, CatalogIsTyped
<1>4. DOMAIN gift = inside /\ IsGift(gift)
  BY <1>2, <1>3, CopiesAreCounted DEF IsGift
<1> HIDE DEF gift
<1>5. IsGiven(in, gift, full)
  BY <1>4, PutResult
<1> HIDE DEF full, inside
<1>6. out = [stacks |-> rest, owned |-> full.owned, worn |-> full.worn]
  <2>1. full = [stacks |-> full.stacks, owned |-> full.owned, worn |-> full.worn]
    BY <1>5 DEF IsGiven, IsInventory
  <2> HIDE DEF rest
  <2> QED
    BY <2>1
<1>7. IsInventory(out)
  BY <1>5, <1>6 DEF IsGiven, IsInventory
<1>8. \A i : i \notin gone => CountOf(out, i) = CountOf(full, i)
  BY <1>6 DEF CountOf
<1>9. DOMAIN out.stacks = DOMAIN full.stacks \ gone /\ out.owned = full.owned
      /\ out.worn = full.worn
  BY <1>6
<1> HIDE DEF out
<1>10. OwnsItsWear(out)
  BY <1>5, <1>9 DEF IsGiven, OwnsItsWear
<1>11. ASSUME NEW p \in T, NEW i \in Contents[p] \ (Wearable \cup gone)
       PROVE  CountOf(out, i) >= Capped(CountOf(in, i) + AtLeastOne(in.stacks[p]))
  <2>1. i \in inside \ Wearable /\ gift[i] \in Nat /\ gift[i] = Cardinality(Copies(in, T, i))
    BY <1>4 DEF IsGift, inside, gift
  <2>2. gift[i] >= AtLeastOne(in.stacks[p])
    BY <1>2, <2>1, CopiesAreCounted
  <2>3. CountOf(in, i) \in Nat /\ AtLeastOne(in.stacks[p]) \in Nat
    <3>1. in.stacks[p] \in 0 .. MaxCount
      BY <1>2 DEF IsInventory
    <3> QED
      BY <3>1, CountsAreNumbers, CatalogIsTyped DEF AtLeastOne
  <2>4. Capped(CountOf(in, i) + AtLeastOne(in.stacks[p])) <= Capped(CountOf(in, i) + gift[i])
    BY <2>1, <2>2, <2>3, CappedIsMonotone
  <2>5. CountOf(out, i) = Capped(CountOf(in, i) + gift[i])
    BY <1>4, <1>5, <1>8, <2>1 DEF IsGiven
  <2>6. {Capped(CountOf(in, i) + AtLeastOne(in.stacks[p])), CountOf(out, i)} \subseteq 0 .. MaxCount
    BY <1>7, <2>3, CappedIsCount, CountsAreNumbers
  <2> QED
    BY <2>4, <2>5, <2>6, CatalogIsTyped
<1>12. \A i \in DOMAIN in.stacks \ gone : CountOf(out, i) >= CountOf(in, i)
  BY <1>5, <1>8 DEF IsGiven
<1>13. /\ out.worn = in.worn
       /\ DOMAIN out.stacks = (DOMAIN in.stacks \cup (inside \ Wearable)) \ gone
       /\ \A c \in Mine :
              out.owned[c] = in.owned[c] \cup {i \in inside \cap Wearable : WearerOf[i] = c}
  BY <1>4, <1>5, <1>9 DEF IsGiven
<1> QED
  BY <1>1, <1>7, <1>10, <1>11, <1>12, <1>13 DEF inside, out

Delivered(in, p, out) ==
    \A i \in Contents[p] :
        IF i \in Wearable THEN i \in out.owned[WearerOf[i]]
        ELSE CountOf(out, i) >= Capped(CountOf(in, i) + AtLeastOne(in.stacks[p]))

\* out is in after the repair and the opening of boxes, or has a gift on top:
\* nothing worn changes, no box comes, a stack goes only when it is of boxes
\* that were opened or the opening overran, an owned piece only when it is of
\* the misexpanded swimsuit; what is new on a stack is no equipment.
KeepsGoods(in, out) ==
    /\ IsInventory(out) /\ OwnsItsWear(out)
    /\ out.worn = in.worn
    /\ Tokens(out) \subseteq Tokens(in)
    /\ \A i \in DOMAIN in.stacks :
           \/ i \in DOMAIN out.stacks /\ CountOf(out, i) >= CountOf(in, i)
           \/ i \in Tokens(in) /\ Delivered(in, i, out)
           \/ Overruns(Repair(in))
    /\ (DOMAIN out.stacks \ DOMAIN in.stacks) \cap Wearable = {}
    /\ \A c \in Mine : \A i \in in.owned[c] \ out.owned[c] :
           c = Hero /\ Misexpanded(in) /\ i \in LegacyPieces

Bought(out, in) == UNION {out.owned[c] \ in.owned[c] : c \in Mine}
Boxed == UNION {Contents[p] : p \in Items}

LEMMA TidyResult ==
    ASSUME NEW in, IsInventory(in), OwnsItsWear(in), NEW out \in Expansions(Repair(in))
    PROVE  KeepsGoods(in, out) /\ Bought(out, in) \subseteq SparePieces \cup Boxed
<1> DEFINE mid == Repair(in)
<1>1. /\ IsInventory(mid) /\ OwnsItsWear(mid)
      /\ mid.worn = in.worn /\ mid.stacks = in.stacks
      /\ \A c \in Mine : \A i \in in.owned[c] \ mid.owned[c] :
             c = Hero /\ Misexpanded(in) /\ i \in LegacyPieces
      /\ \A c \in Mine : mid.owned[c] \ in.owned[c] \subseteq SparePieces
  BY RepairResult
<1>2. PICK T \in SUBSET Tokens(mid) : \E gone :
         /\ out = Without(Opened(mid, T), gone)
         /\ ~Overruns(mid) => T = Tokens(mid) /\ gone = Tokens(mid)
  BY DEF Expansions
<1>3. PICK gone :
         /\ out = Without(Opened(mid, T), gone)
         /\ ~Overruns(mid) => T = Tokens(mid) /\ gone = Tokens(mid)
  BY <1>2
<1> DEFINE inside == UNION {Contents[p] : p \in T}
<1> HIDE DEF mid
<1>4. /\ IsInventory(out) /\ OwnsItsWear(out)
      /\ out.worn = mid.worn
      /\ DOMAIN out.stacks = (DOMAIN mid.stacks \cup (inside \ Wearable)) \ gone
      /\ \A i \in DOMAIN mid.stacks \ gone : CountOf(out, i) >= CountOf(mid, i)
      /\ \A c \in Mine :
             out.owned[c] = mid.owned[c] \cup {i \in inside \cap Wearable : WearerOf[i] = c}
      /\ \A p \in T : \A i \in Contents[p] \ (Wearable \cup gone) :
             CountOf(out, i) >= Capped(CountOf(mid, i) + AtLeastOne(mid.stacks[p]))
  BY <1>1, <1>3, UnboxResult
<1>5. Tokens(mid) = Tokens(in) /\ T \subseteq Tokens(in) /\ Tokens(in) \subseteq Items
  BY <1>1, <1>2 DEF Tokens, IsInventory
<1>6. \A i : CountOf(mid, i) = CountOf(in, i)
  BY <1>1 DEF CountOf
<1>7. inside \subseteq Boxed /\ \A i \in inside : Contents[i] = {}
  BY <1>5, PackagesAreFlat DEF Boxed
<1>8. Tokens(out) \subseteq Tokens(in)
  BY <1>1, <1>4, <1>7 DEF Tokens
<1>9. ASSUME ~Overruns(mid), NEW p \in T PROVE Delivered(in, p, out)
  <2>1. ASSUME NEW i \in Contents[p], i \in Wearable PROVE i \in out.owned[WearerOf[i]]
    BY <1>4, <2>1 DEF Wearable
  <2>2. ASSUME NEW i \in Contents[p], i \notin Wearable
        PROVE  CountOf(out, i) >= Capped(CountOf(in, i) + AtLeastOne(in.stacks[p]))
    <3>1. i \notin gone
      BY <1>3, <1>7, <1>9 DEF Tokens
    <3>2. CountOf(out, i) >= Capped(CountOf(mid, i) + AtLeastOne(mid.stacks[p]))
      BY <1>4, <2>2, <3>1
    <3> QED
      BY <1>1, <1>6, <3>2
  <2> QED
    BY <2>1, <2>2 DEF Delivered
<1>10. ASSUME NEW i \in DOMAIN in.stacks
      PROVE  \/ i \in DOMAIN out.stacks /\ CountOf(out, i) >= CountOf(in, i)
             \/ i \in Tokens(in) /\ Delivered(in, i, out)
             \/ Overruns(mid)
  <2>1. CASE ~Overruns(mid) /\ i \in Tokens(mid)
    BY <1>3, <1>5, <1>9, <2>1
  <2>2. CASE ~Overruns(mid) /\ i \notin Tokens(mid)
    BY <1>1, <1>3, <1>4, <1>6, <2>2
  <2> QED
    BY <2>1, <2>2
<1>11. (DOMAIN out.stacks \ DOMAIN in.stacks) \cap Wearable = {}
  BY <1>1, <1>4
<1>12. \A c \in Mine : \A i \in in.owned[c] \ out.owned[c] :
           c = Hero /\ Misexpanded(in) /\ i \in LegacyPieces
  BY <1>1, <1>4
<1>13. Bought(out, in) \subseteq SparePieces \cup Boxed
  BY <1>1, <1>4, <1>7 DEF Bought
<1> QED
  BY <1>1, <1>4, <1>8, <1>10, <1>11, <1>12, <1>13 DEF KeepsGoods, mid

\* The same of a purchase, and what it brings.
LEMMA GiftIsGift ==
    ASSUME NEW i \in Items, NEW n \in Nat
    PROVE  /\ IsGift(Gift(i, n))
           /\ DOMAIN Gift(i, n) = IF Contents[i] = {} THEN {i} ELSE Contents[i]
           /\ \A j \in DOMAIN Gift(i, n) : Gift(i, n)[j] >= n /\ Contents[j] = {}
<1>1. AtLeastOne(n) \in Nat /\ AtLeastOne(n) >= n
  BY DEF AtLeastOne
<1>2. CASE Contents[i] = {}
  <2>1. Gift(i, n) = [j \in {i} |-> n]
    BY <1>2 DEF Gift
  <2> QED
    BY <1>2, <2>1 DEF IsGift
<1>3. CASE Contents[i] # {}
  <2>1. Gift(i, n) = [j \in Contents[i] |-> AtLeastOne(n)]
    BY <1>3 DEF Gift
  <2>2. Contents[i] \subseteq Items
    BY CatalogIsTyped
  <2> QED
    BY <1>1, <1>3, <2>1, <2>2, PackagesAreFlat DEF IsGift
<1> QED
  BY <1>2, <1>3

LEMMA PurchaseResult ==
    ASSUME NEW in, IsInventory(in), OwnsItsWear(in), NEW tidy \in Expansions(Repair(in)),
           NEW i \in Items, NEW n \in Nat
    PROVE  LET out == Put(tidy, Gift(i, n))
           IN  /\ KeepsGoods(in, out)
               /\ IsGiven(tidy, Gift(i, n), out)
<1> DEFINE gift == Gift(i, n)
           out == Put(tidy, gift)
<1>1. KeepsGoods(in, tidy)
  BY TidyResult
<1>2. IsGift(gift) /\ \A j \in DOMAIN gift : Contents[j] = {}
  BY GiftIsGift
<1>3. IsGiven(tidy, gift, out)
  BY <1>1, <1>2, PutResult DEF KeepsGoods
<1> HIDE DEF gift, out
<1>4. IsInventory(out) /\ OwnsItsWear(out) /\ out.worn = in.worn
  BY <1>1, <1>3 DEF KeepsGoods, IsGiven, OwnsItsWear
<1>5. Tokens(out) \subseteq Tokens(in)
  BY <1>1, <1>2, <1>3 DEF KeepsGoods, IsGiven, Tokens
<1>6. \A j \in Items : {CountOf(in, j), CountOf(tidy, j), CountOf(out, j)} \subseteq Nat
  BY <1>1, <1>4, CountsAreNumbers, CatalogIsTyped DEF KeepsGoods
<1>7. \A j \in Items : CountOf(out, j) >= CountOf(tidy, j)
  <2> SUFFICES ASSUME NEW j \in Items PROVE CountOf(out, j) >= CountOf(tidy, j)
    OBVIOUS
  <2>1. CASE j \in DOMAIN tidy.stacks
    BY <1>3, <2>1 DEF IsGiven
  <2>2. CASE j \notin DOMAIN tidy.stacks
    BY <1>6, <2>2 DEF CountOf
  <2> QED
    BY <2>1, <2>2
<1>8. ASSUME NEW p \in DOMAIN in.stacks, Delivered(in, p, tidy) PROVE Delivered(in, p, out)
  <2>1. p \in Items /\ in.stacks[p] \in 0 .. MaxCount /\ Contents[p] \subseteq Items
    BY CatalogIsTyped DEF IsInventory
  <2>2. ASSUME NEW j \in Contents[p], j \in Wearable PROVE j \in out.owned[WearerOf[j]]
    BY <1>3, <1>8, <2>2 DEF Delivered, IsGiven, Wearable
  <2>3. ASSUME NEW j \in Contents[p], j \notin Wearable
        PROVE  CountOf(out, j) >= Capped(CountOf(in, j) + AtLeastOne(in.stacks[p]))
    <3> DEFINE all == CountOf(in, j) + AtLeastOne(in.stacks[p])
    <3>1. all \in Nat
      BY <1>6, <2>1, CatalogIsTyped DEF AtLeastOne
    <3>2. CountOf(tidy, j) >= Capped(all)
      BY <1>8, <2>3 DEF Delivered
    <3>3. Capped(all) \in Nat
      BY <3>1, CappedIsCount, CatalogIsTyped
    <3> QED
      BY <1>6, <1>7, <2>1, <3>2, <3>3
  <2> QED
    BY <2>2, <2>3 DEF Delivered
<1>9. ASSUME NEW j \in DOMAIN in.stacks
      PROVE  \/ j \in DOMAIN out.stacks /\ CountOf(out, j) >= CountOf(in, j)
             \/ j \in Tokens(in) /\ Delivered(in, j, out)
             \/ Overruns(Repair(in))
  <2>1. j \in Items
    BY DEF IsInventory
  <2>2. CASE j \in DOMAIN tidy.stacks /\ CountOf(tidy, j) >= CountOf(in, j)
    <3>1. j \in DOMAIN out.stacks
      BY <1>3, <2>2 DEF IsGiven
    <3> QED
      BY <1>6, <1>7, <2>1, <2>2, <3>1
  <2>3. CASE j \in Tokens(in) /\ Delivered(in, j, tidy)
    BY <1>8, <2>3
  <2> QED
    BY <1>1, <2>2, <2>3 DEF KeepsGoods
<1>10. (DOMAIN out.stacks \ DOMAIN in.stacks) \cap Wearable = {}
  BY <1>1, <1>3 DEF KeepsGoods, IsGiven
<1>11. \A c \in Mine : \A j \in in.owned[c] \ out.owned[c] :
           c = Hero /\ Misexpanded(in) /\ j \in LegacyPieces
  BY <1>1, <1>3 DEF KeepsGoods, IsGiven
<1>12. KeepsGoods(in, out)
  BY <1>4, <1>5, <1>9, <1>10, <1>11 DEF KeepsGoods
<1> QED
  BY <1>3, <1>12 DEF gift, out

-----------------------------------------------------------------------------
(* The inductive invariant *)

\* What the requests keep: types, owned lists of equipment of their
\* character, and that nobody wears what is not theirs.
InOrder == TypeOK /\ OwnsItsWear(inv) /\ WornIsOwned

LEMMA KeepsWear ==
    ASSUME NEW in, OwnsItsWear(in), WearsItsOwn(in), NEW out, KeepsGoods(in, out)
    PROVE  WearsItsOwn(out)
<1> SUFFICES ASSUME NEW c \in Mine, NEW s \in Slots, out.worn[c][s] # None,
                    ~(c = Hero /\ s \in DOMAIN LegacyIn /\ out.worn[c][s] = LegacyIn[s])
             PROVE  out.worn[c][s] \in out.owned[c] /\ SlotOf[out.worn[c][s]] = s
  BY DEF WearsItsOwn
<1> DEFINE i == out.worn[c][s]
<1>1. i = in.worn[c][s]
  BY DEF KeepsGoods
<1>2. i \in in.owned[c] /\ SlotOf[i] = s
  BY <1>1 DEF WearsItsOwn
<1>3. ASSUME i \notin out.owned[c] PROVE FALSE
  <2>1. c = Hero /\ i \in LegacyPieces
    BY <1>2, <1>3 DEF KeepsGoods
  <2>2. PICK z \in DOMAIN LegacyIn : i = LegacyIn[z]
    BY <2>1 DEF LegacyPieces
  <2>3. z = s
    BY <1>2, <2>2, SwimsuitIsHeros
  <2> QED
    BY <2>1, <2>2, <2>3
<1> QED
  BY <1>2, <1>3

LEMMA InitInOrder == Init => InOrder
  BY FirstAccountsAreInOrder DEF Init, InOrder, TypeOK, WornIsOwned

LEMMA CountsAreAsked ==
    ASSUME NEW f \in CountFields
    PROVE  PurchaseCount(f) \in 0 .. MaxCount
  BY CatalogIsTyped DEF PurchaseCount

\* A purse that can pay is a purse after it has paid.
LEMMA ChargedIsPurse ==
    ASSUME purse \in [luna : Nat, cash : Nat], NEW row, row.luna \in Nat, row.cash \in Nat,
           NEW choice \in {"luna", "cash"}, NEW n \in Nat, Pays(row, choice, n)
    PROVE  Charged(row, choice, n) \in [luna : Nat, cash : Nat]
<1> DEFINE m == Money(row, choice)
<1>1. m \in {"luna", "cash"}
  BY DEF Money
<1>2. AtLeastOne(n) \in Nat
  BY DEF AtLeastOne
<1> DEFINE price == row[m] * AtLeastOne(n)
<1>3. price \in Nat
  BY <1>1, <1>2
<1>4. purse[m] >= price /\ Charged(row, choice, n) = [purse EXCEPT ![m] = @ - price]
  BY DEF Pays, Charged
<1> HIDE DEF m, price
<1>5. purse[m] \in Nat /\ purse[m] - price \in Nat
  BY <1>1, <1>3, <1>4
<1> QED
  BY <1>1, <1>4, <1>5

LEMMA RemoveResult ==
    ASSUME IsInventory(inv), NEW i \in Items, RemoveItem(i)
    PROVE  /\ IsInventory(inv')
           /\ \/ /\ Owners(i) # {}
                 /\ inv'.stacks = inv.stacks
                 /\ \A c \in Mine : inv'.owned[c] = inv.owned[c] \ {i}
                 /\ \A c \in Mine, s \in Slots :
                        inv'.worn[c][s] = IF inv.worn[c][s] = i THEN None ELSE inv.worn[c][s]
              \/ /\ Owners(i) = {} /\ i \in DOMAIN inv.stacks
                 /\ inv'.owned = inv.owned /\ inv'.worn = inv.worn
                 /\ \A j \in DOMAIN inv.stacks \ {i} :
                        j \in DOMAIN inv'.stacks /\ inv'.stacks[j] = inv.stacks[j]
                 /\ DOMAIN inv'.stacks \subseteq DOMAIN inv.stacks
                 /\ i \in DOMAIN inv'.stacks <=> inv.stacks[i] > 1
                 /\ i \in DOMAIN inv'.stacks => inv'.stacks[i] = inv.stacks[i] - 1
<1>1. inv = [stacks |-> inv.stacks, owned |-> inv.owned, worn |-> inv.worn]
  BY DEF IsInventory
<1>2. CASE Owners(i) # {}
  <2> DEFINE owned == [c \in Mine |-> inv.owned[c] \ {i}]
             worn == [c \in Mine |-> [s \in Slots |->
                        IF inv.worn[c][s] = i THEN None ELSE inv.worn[c][s]]]
  <2>1. inv' = [inv EXCEPT !.owned = owned, !.worn = worn]
    BY <1>2 DEF RemoveItem
  <2>2. owned \in [Mine -> SUBSET Items] /\ worn \in [Mine -> [Slots -> Items \cup {None}]]
    BY DEF IsInventory
  <2>3. /\ \A c \in Mine : owned[c] = inv.owned[c] \ {i}
        /\ \A c \in Mine, s \in Slots :
               worn[c][s] = IF inv.worn[c][s] = i THEN None ELSE inv.worn[c][s]
    OBVIOUS
  <2> HIDE DEF owned, worn
  <2>4. inv' = [stacks |-> inv.stacks, owned |-> owned, worn |-> worn]
    BY <1>1, <2>1
  <2>5. IsInventory(inv')
    BY <2>2, <2>4 DEF IsInventory
  <2> QED
    BY <1>2, <2>3, <2>4, <2>5
<1>3. CASE Owners(i) = {}
  <2> DEFINE stacks == IF inv.stacks[i] > 1
                       THEN [inv.stacks EXCEPT ![i] = @ - 1]
                       ELSE [j \in DOMAIN inv.stacks \ {i} |-> inv.stacks[j]]
  <2>1. i \in DOMAIN inv.stacks /\ inv' = [inv EXCEPT !.stacks = stacks]
    BY <1>1, <1>3 DEF RemoveItem
  <2>2. DOMAIN stacks \subseteq Items /\ stacks \in [DOMAIN stacks -> 0 .. MaxCount]
    BY <2>1, CatalogIsTyped DEF IsInventory
  <2>3. /\ \A j \in DOMAIN inv.stacks \ {i} :
               j \in DOMAIN stacks /\ stacks[j] = inv.stacks[j]
        /\ DOMAIN stacks \subseteq DOMAIN inv.stacks
        /\ i \in DOMAIN stacks <=> inv.stacks[i] > 1
        /\ i \in DOMAIN stacks => stacks[i] = inv.stacks[i] - 1
    BY <2>1 DEF IsInventory
  <2> HIDE DEF stacks
  <2>4. inv' = [stacks |-> stacks, owned |-> inv.owned, worn |-> inv.worn]
    BY <1>1, <2>1
  <2>5. IsInventory(inv')
    BY <2>2, <2>4 DEF IsInventory
  <2> QED
    BY <1>3, <2>1, <2>3, <2>4, <2>5
<1> QED
  BY <1>2, <1>3

LEMMA NextInOrder == InOrder /\ [Next]_vars => InOrder'
<1> SUFFICES ASSUME InOrder, [Next]_vars PROVE InOrder'
  OBVIOUS
<1> DEFINE Goods == IsInventory(inv) /\ OwnsItsWear(inv) /\ WearsItsOwn(inv)
           Papers ==
               /\ purse \in [luna : Nat, cash : Nat]
               /\ \A s \in DOMAIN skills :
                      \E row \in SkillRows : s = row.base /\ skills[s] \in Nat
               /\ DOMAIN quick \subseteq 1 .. QuickslotCount
               /\ \A n \in DOMAIN quick :
                      quick[n] \in {Open, Locked} \cup {Holding(i) : i \in Items}
               /\ observed \in Characters \cup {None}
<1>a. Goods /\ Papers
  BY DEF InOrder, TypeOK, WornIsOwned
<1>b. SUFFICES Goods' /\ Papers'
  BY DEF InOrder, TypeOK, WornIsOwned
<1>c. ASSUME UNCHANGED inv PROVE Goods'
  BY <1>a, <1>c
<1>d. ASSUME UNCHANGED <<purse, skills, quick, observed>> PROVE Papers'
  BY <1>a, <1>d
<1>1. ASSUME NEW i \in Items, NEW f \in CountFields, NEW m \in {"luna", "cash"},
             BuyItem(i, f, m)
      PROVE  Goods' /\ Papers'
  <2> DEFINE n == PurchaseCount(f)
  <2>1. n \in Nat
    BY CountsAreAsked, CatalogIsTyped
  <2>2. UNCHANGED <<skills, quick, observed>>
    BY <1>1 DEF BuyItem
  <2>3. PICK tidy \in Expansions(Repair(inv)) :
           \/ /\ Pays(Prices[i], m, n)
              /\ inv' = Put(tidy, Gift(i, n))
              /\ purse' = Charged(Prices[i], m, n)
           \/ inv' = tidy /\ UNCHANGED purse
    BY <1>1 DEF BuyItem, Tidied
  <2>4. KeepsGoods(inv, inv')
    BY <1>a, <2>1, <2>3, PurchaseResult, TidyResult
  <2>5. Goods'
    BY <1>a, <2>4, KeepsWear DEF KeepsGoods
  <2>6. purse' \in [luna : Nat, cash : Nat]
    <3>1. Prices[i].luna \in Nat /\ Prices[i].cash \in Nat
      BY CatalogIsTyped
    <3> QED
      BY <1>a, <2>1, <2>3, <3>1, ChargedIsPurse
  <2> QED
    BY <1>a, <2>2, <2>5, <2>6
<1>2. ASSUME NEW row \in SkillRows, NEW m \in {"luna", "cash"}, BuySkill(row, m)
      PROVE  Goods' /\ Papers'
  <2>1. UNCHANGED <<inv, quick, observed>>
    BY <1>2 DEF BuySkill
  <2>2. row.luna \in Nat /\ row.cash \in Nat /\ row.minutes \in Nat
    BY CatalogIsTyped
  <2>3. purse' \in [luna : Nat, cash : Nat]
    BY <1>2, <1>a, <2>2, ChargedIsPurse DEF BuySkill
  <2>4. skills' = [s \in DOMAIN skills \cup ({row.base} \ {None}) |->
                     IF s = row.base THEN row.minutes ELSE skills[s]]
    BY <1>2 DEF BuySkill
  <2>5. \A s \in DOMAIN skills' : \E z \in SkillRows : s = z.base /\ skills'[s] \in Nat
    BY <1>a, <2>2, <2>4
  <2> QED
    BY <1>a, <1>c, <2>1, <2>3, <2>5
<1>3. ASSUME ListItems PROVE Goods' /\ Papers'
  <2>1. KeepsGoods(inv, inv')
    BY <1>3, <1>a, TidyResult DEF ListItems, Tidied
  <2>2. Goods'
    BY <1>a, <2>1, KeepsWear DEF KeepsGoods
  <2> QED
    BY <1>3, <1>d, <2>2 DEF ListItems
<1>4. ASSUME Crash PROVE Goods' /\ Papers'
  BY <1>4, <1>a, <1>c DEF Crash
<1>5. ASSUME NEW c \in Characters, Observe(c) PROVE Goods' /\ Papers'
  BY <1>5, <1>a, <1>c DEF Observe
<1>6. ASSUME NEW bundle \in [Slots -> Pieces(inv) \cup {None}], NEW stored \in BOOLEAN,
             Equip(bundle, stored)
      PROVE  Goods' /\ Papers'
  <2>1. PICK c \in Target(bundle) :
           /\ observed' = c
           /\ inv' = IF stored THEN [inv EXCEPT !.worn[c] = bundle] ELSE inv
    BY <1>6 DEF Equip
  <2>2. c \in Mine /\ \A s \in Slots : Fits(c, s, bundle[s])
    BY DEF Target, Wears
  <2>3. UNCHANGED <<purse, skills, quick>> /\ observed' \in Characters
    BY <1>6, <2>1, <2>2, CatalogIsTyped DEF Equip
  <2>4. CASE stored
    <3>1. inv = [stacks |-> inv.stacks, owned |-> inv.owned, worn |-> inv.worn]
      BY <1>a DEF IsInventory
    <3>2. inv' = [inv EXCEPT !.worn[c] = bundle]
      BY <2>1, <2>4
    <3>3. inv' = [stacks |-> inv.stacks, owned |-> inv.owned,
                  worn |-> [inv.worn EXCEPT ![c] = bundle]]
      BY <3>1, <3>2
    <3>4. Pieces(inv) \subseteq Items \cup {None}
      <4>1. inv.owned \in [Mine -> SUBSET Items]
            /\ inv.worn \in [Mine -> [Slots -> Items \cup {None}]]
        BY <1>a DEF IsInventory
      <4>2. \A d \in Mine : inv.owned[d] \subseteq Items
        BY <4>1
      <4>3. \A d \in Mine, s \in Slots : inv.worn[d][s] \in Items \cup {None}
        BY <4>1
      <4> SUFFICES ASSUME NEW x \in Pieces(inv) PROVE x \in Items \cup {None}
        OBVIOUS
      <4>4. \/ \E d \in Mine : x \in inv.owned[d]
            \/ \E d \in Mine, s \in Slots : x = inv.worn[d][s]
        BY DEF Pieces
      <4> QED
        BY <4>2, <4>3, <4>4
    <3>5. inv'.worn \in [Mine -> [Slots -> Items \cup {None}]]
      BY <1>a, <2>2, <3>3, <3>4 DEF IsInventory
    <3>6. IsInventory(inv')
      BY <1>a, <3>3, <3>5 DEF IsInventory
    <3>7. OwnsItsWear(inv')
      BY <1>a, <3>3 DEF OwnsItsWear
    <3>8. WearsItsOwn(inv')
      <4>1. /\ inv'.worn[c] = bundle
            /\ \A d \in Mine \ {c} : inv'.worn[d] = inv.worn[d]
            /\ inv'.owned = inv.owned
        BY <1>a, <2>2, <3>3 DEF IsInventory
      <4> SUFFICES ASSUME NEW d \in Mine, NEW s \in Slots
                   PROVE  LET i == inv'.worn[d][s]
                          IN  \/ i = None
                              \/ i \in inv'.owned[d] /\ SlotOf[i] = s
                              \/ d = Hero /\ s \in DOMAIN LegacyIn /\ i = LegacyIn[s]
        BY DEF WearsItsOwn
      <4>2. CASE d = c /\ inv.worn[c][s] # bundle[s]
        BY <2>2, <4>1, <4>2 DEF Fits
      <4>3. CASE d # c \/ inv.worn[c][s] = bundle[s]
        BY <1>a, <4>1, <4>3 DEF WearsItsOwn
      <4> QED
        BY <4>2, <4>3
    <3> QED
      BY <1>a, <2>3, <3>6, <3>7, <3>8
  <2>5. CASE ~stored
    BY <1>a, <1>c, <2>1, <2>3, <2>5
  <2> QED
    BY <2>4, <2>5
<1>7. ASSUME Undress PROVE Goods' /\ Papers'
  <2>1. /\ observed \in Mine
        /\ inv' = [inv EXCEPT !.worn[observed] = Naked]
        /\ UNCHANGED <<purse, skills, quick, observed>>
    BY <1>7 DEF Undress
  <2>2. inv = [stacks |-> inv.stacks, owned |-> inv.owned, worn |-> inv.worn]
    BY <1>a DEF IsInventory
  <2>3. inv' = [stacks |-> inv.stacks, owned |-> inv.owned,
                worn |-> [inv.worn EXCEPT ![observed] = Naked]]
    BY <2>1, <2>2
  <2>4. inv'.worn \in [Mine -> [Slots -> Items \cup {None}]]
    BY <1>a, <2>1, <2>3 DEF IsInventory, Naked
  <2>5. IsInventory(inv')
    BY <1>a, <2>3, <2>4 DEF IsInventory
  <2>6. OwnsItsWear(inv')
    BY <1>a, <2>3 DEF OwnsItsWear
  <2>7. WearsItsOwn(inv')
    <3>1. /\ inv'.worn[observed] = Naked
          /\ \A d \in Mine \ {observed} : inv'.worn[d] = inv.worn[d]
          /\ inv'.owned = inv.owned
      BY <1>a, <2>1, <2>3 DEF IsInventory
    <3> QED
      BY <1>a, <3>1 DEF WearsItsOwn, Naked
  <2> QED
    BY <1>d, <2>1, <2>5, <2>6, <2>7
<1>8. ASSUME NEW i \in Items, RemoveItem(i) PROVE Goods' /\ Papers'
  <2>1. IsInventory(inv')
    BY <1>8, <1>a, RemoveResult
  <2>2. OwnsItsWear(inv')
    BY <1>8, <1>a, RemoveResult DEF OwnsItsWear
  <2>3. WearsItsOwn(inv')
    BY <1>8, <1>a, RemoveResult DEF WearsItsOwn
  <2> QED
    BY <1>8, <1>d, <2>1, <2>2, <2>3 DEF RemoveItem
<1>9. ASSUME NEW n \in 1 .. QuickslotCount,
             NEW entry \in {Open} \cup {Holding(i) : i \in ShortIds},
             AssignQuickslot(n, entry)
      PROVE  Goods' /\ Papers'
  <2> DEFINE Entries == {Open, Locked} \cup {Holding(i) : i \in Items}
  <2>1. /\ UNCHANGED <<inv, purse, skills, observed>>
        /\ quick' = [k \in DOMAIN Quickslots \cup {n} |->
                        IF k = n THEN entry ELSE Quickslots[k]]
    BY <1>9 DEF AssignQuickslot
  <2>2. entry \in Entries
    BY CatalogIsTyped
  <2>3. DOMAIN Quickslots \subseteq 1 .. QuickslotCount
        /\ \A k \in DOMAIN Quickslots : Quickslots[k] \in Entries
    BY <1>a DEF Quickslots, BuiltQuickslots
  <2> HIDE DEF Entries
  <2>4. DOMAIN quick' \subseteq 1 .. QuickslotCount /\ \A k \in DOMAIN quick' : quick'[k] \in Entries
    BY <2>1, <2>2, <2>3
  <2> QED
    BY <1>a, <1>c, <2>1, <2>4 DEF Entries
<1>10. CASE UNCHANGED vars
  BY <1>10, <1>c, <1>d DEF vars
<1> QED
  BY <1>1, <1>2, <1>3, <1>4, <1>5, <1>6, <1>7, <1>8, <1>9, <1>10 DEF Next, Request

LEMMA AlwaysInOrder == Spec => []InOrder
  BY InitInOrder, NextInOrder, PTL DEF Spec

\* Counts stay within 16 bits, money never goes below zero and quickslots
\* are numbered from one, for every catalog and account.
THEOREM GoodsAreTyped == Spec => []TypeOK
<1>1. InOrder => TypeOK
  BY DEF InOrder
<1> QED
  BY <1>1, AlwaysInOrder, PTL

\* Whatever bundles, removals and repairs come, what a character wears is on
\* its owned list, in its slot, or is of the misexpanded swimsuit.
THEOREM NobodyWearsAnothersGoods == Spec => []WornIsOwned
<1>1. InOrder => WornIsOwned
  BY DEF InOrder
<1> QED
  BY <1>1, AlwaysInOrder, PTL

-----------------------------------------------------------------------------
(* What a step does to the goods: the action properties *)

LEMMA ShownIs ==
    ASSUME NEW in, NEW i \in Items
    PROVE  Shown(in, i) = IF i \in DOMAIN in.stacks THEN in.stacks[i]
                          ELSE IF i \in Pieces(in) THEN 1 ELSE 0
  BY CatalogIsTyped DEF Shown, ItemList

LEMMA PiecesAre ==
    ASSUME NEW in, NEW i \in Pieces(in)
    PROVE  \E c \in Mine : i \in in.owned[c] \/ \E s \in Slots : in.worn[c][s] = i
  BY DEF Pieces

LEMMA KeptIsShown ==
    ASSUME NEW in, IsInventory(in), OwnsItsWear(in), WearsItsOwn(in),
           NEW out, KeepsGoods(in, out),
           NEW i \in Items, Shown(out, i) < Shown(in, i)
    PROVE  \/ i \in Tokens(in) /\ Delivered(in, i, out)
           \/ i \in LegacyPieces /\ Misexpanded(in)
           \/ i \in DOMAIN in.stacks /\ Overruns(Repair(in))
<1>a. IsInventory(out) /\ OwnsItsWear(out) /\ out.worn = in.worn
  BY DEF KeepsGoods
<1>b. CASE i \in DOMAIN in.stacks
  <2>1. CASE i \in DOMAIN out.stacks /\ CountOf(out, i) >= CountOf(in, i)
    <3>1. Shown(out, i) = CountOf(out, i) /\ Shown(in, i) = CountOf(in, i)
      BY <1>b, <2>1, ShownIs DEF CountOf
    <3>2. CountOf(out, i) \in Nat /\ CountOf(in, i) \in Nat
      BY <1>a, CountsAreNumbers, CatalogIsTyped
    <3> QED
      BY <2>1, <3>1, <3>2
  <2> QED
    BY <1>b, <2>1 DEF KeepsGoods
<1>c. CASE i \notin DOMAIN in.stacks
  <2>1. i \in Pieces(in)
    <3>1. Shown(out, i) \in Nat
      <4>1. i \in DOMAIN out.stacks => out.stacks[i] \in Nat
        BY <1>a, CatalogIsTyped DEF IsInventory
      <4> QED
        BY <4>1, ShownIs
    <3> QED
      BY <1>c, <3>1, ShownIs
  <2>2. ~(i \in Pieces(out) /\ i \notin DOMAIN out.stacks)
    BY <1>c, <2>1, ShownIs
  <2>3. i \in Wearable => i \notin DOMAIN out.stacks
    BY <1>c DEF KeepsGoods
  <2>4. PICK c \in Mine : i \in in.owned[c] \/ \E s \in Slots : in.worn[c][s] = i
    BY <2>1, PiecesAre
  <2>5. CASE i \in in.owned[c]
    <3>1. i \in Wearable
      BY <2>5 DEF OwnsItsWear
    <3>2. i \notin out.owned[c]
      BY <2>2, <2>3, <3>1 DEF Pieces
    <3> QED
      BY <2>5, <3>2 DEF KeepsGoods
  <2>6. CASE i \notin in.owned[c] /\ \E s \in Slots : in.worn[c][s] = i
    <3>1. i \in Pieces(out)
      BY <1>a, <2>6 DEF Pieces
    <3>2. i \notin Wearable
      BY <2>2, <2>3, <3>1
    <3>3. c = Hero /\ i \in LegacyPieces
      <4>1. PICK s \in Slots : in.worn[c][s] = i
        BY <2>6
      <4>2. i # None
        BY CatalogIsTyped
      <4> QED
        BY <2>6, <4>1, <4>2 DEF WearsItsOwn, LegacyPieces
    <3>4. i \in Wearable
      BY <3>3, SwimsuitIsHeros, CatalogIsTyped DEF LegacyPieces, Wearable
    <3> QED
      BY <3>2, <3>4
  <2> QED
    BY <2>4, <2>5, <2>6
<1> QED
  BY <1>b, <1>c

\* The request that a step is, seen by what it does to the goods.
LEMMA GoodsMove ==
    ASSUME InOrder, [Next]_vars
    PROVE  \/ inv' = inv
           \/ asked' = For("tidy", None) /\ KeepsGoods(inv, inv')
           \/ /\ asked' = For("dress", None)
              /\ \E c \in Mine : \E worn : inv' = [inv EXCEPT !.worn[c] = worn]
           \/ \E i \in Items : asked' = For("discard", i) /\ RemoveItem(i)
<1>1. IsInventory(inv) /\ OwnsItsWear(inv)
  BY DEF InOrder, TypeOK
<1>2. ASSUME NEW i \in Items, NEW f \in CountFields, NEW m \in {"luna", "cash"},
             BuyItem(i, f, m)
      PROVE  KeepsGoods(inv, inv')
  <2>1. PurchaseCount(f) \in Nat
    BY CountsAreAsked, CatalogIsTyped
  <2>2. PICK tidy \in Expansions(Repair(inv)) :
           inv' = Put(tidy, Gift(i, PurchaseCount(f))) \/ inv' = tidy
    BY <1>2 DEF BuyItem, Tidied
  <2> QED
    BY <1>1, <2>1, <2>2, PurchaseResult, TidyResult
<1>3. ASSUME ListItems PROVE KeepsGoods(inv, inv')
  BY <1>1, <1>3, TidyResult DEF ListItems, Tidied
<1>4. ASSUME NEW bundle, NEW stored \in BOOLEAN, Equip(bundle, stored)
      PROVE  \/ inv' = inv
             \/ \E c \in Mine : \E worn : inv' = [inv EXCEPT !.worn[c] = worn]
  BY <1>4 DEF Equip, Target, Wears
<1>5. ASSUME Undress
      PROVE  \E c \in Mine : \E worn : inv' = [inv EXCEPT !.worn[c] = worn]
  BY <1>5 DEF Undress
<1>6. ASSUME NEW row \in SkillRows, NEW m \in {"luna", "cash"}, BuySkill(row, m)
      PROVE  inv' = inv
  BY <1>6 DEF BuySkill
<1>7. ASSUME \/ Crash
             \/ \E c \in Characters : Observe(c)
             \/ \E n \in 1 .. QuickslotCount, entry \in {Open} \cup {Holding(i) : i \in ShortIds} :
                    AssignQuickslot(n, entry)
             \/ UNCHANGED vars
      PROVE  inv' = inv
  BY <1>7 DEF Crash, Observe, AssignQuickslot, vars
<1> QED
  BY <1>2, <1>3, <1>4, <1>5, <1>6, <1>7 DEF Next, Request

LEMMA RemovedIsShown ==
    ASSUME InOrder, NEW i \in Items, RemoveItem(i)
    PROVE  OneLess(i) \/ \A j \in Items : Shown(inv', j) = Shown(inv, j)
<1>1. IsInventory(inv)
  BY DEF InOrder, TypeOK
<1>2. \A j \in Items : j # None
  BY CatalogIsTyped
<1>3. ASSUME NEW j \in Items \ {i} PROVE Shown(inv', j) = Shown(inv, j)
  <2>1. j \in Pieces(inv') <=> j \in Pieces(inv)
    BY <1>1, <1>2, RemoveResult DEF Pieces
  <2>2. /\ j \in DOMAIN inv'.stacks <=> j \in DOMAIN inv.stacks
        /\ j \in DOMAIN inv.stacks => inv'.stacks[j] = inv.stacks[j]
    BY <1>1, RemoveResult
  <2> QED
    BY <2>1, <2>2, ShownIs
<1>4. \/ Shown(inv', i) = Shown(inv, i)
      \/ Shown(inv', i) = Shown(inv, i) - 1
  <2>1. CASE Owners(i) # {}
    <3>1. i \notin Pieces(inv') /\ inv'.stacks = inv.stacks
      BY <1>1, <1>2, <2>1, RemoveResult DEF Pieces
    <3> QED
      BY <3>1, ShownIs
  <2>2. CASE Owners(i) = {}
    <3>1. i \notin Pieces(inv')
      BY <1>1, <2>2, RemoveResult DEF Owners, Pieces
    <3>2. /\ i \in DOMAIN inv.stacks
          /\ Shown(inv, i) = inv.stacks[i]
          /\ Shown(inv', i) = IF inv.stacks[i] > 1 THEN inv.stacks[i] - 1 ELSE 0
      BY <1>1, <2>2, <3>1, RemoveResult, ShownIs
    <3>3. inv.stacks[i] \in Nat
      BY <1>1, <3>2, CatalogIsTyped DEF IsInventory
    <3> QED
      BY <3>2, <3>3
  <2> QED
    BY <2>1, <2>2
<1> QED
  BY <1>3, <1>4 DEF OneLess

Goes(i) ==
    \/ asked' = For("discard", i) /\ OneLess(i)
    \/ /\ asked' = For("tidy", None)
       /\ \/ i \in Tokens(inv) /\ Unboxed(i)
          \/ i \in LegacyPieces /\ Misexpanded(inv)
          \/ i \in DOMAIN inv.stacks /\ Overruns(Repair(inv))
    \/ asked' = For("dress", None) /\ Outworn(i)

LEMMA NextVanishes ==
    ASSUME InOrder, [Next]_vars, NEW i \in Items, Shown(inv', i) < Shown(inv, i)
    PROVE  Goes(i)
<1>1. IsInventory(inv) /\ OwnsItsWear(inv) /\ WearsItsOwn(inv)
  BY DEF InOrder, TypeOK, WornIsOwned
<1>2. inv = [stacks |-> inv.stacks, owned |-> inv.owned, worn |-> inv.worn]
  BY <1>1 DEF IsInventory
<1>3. \A j \in Items : Shown(inv, j) \in Nat
  <2> SUFFICES ASSUME NEW j \in Items PROVE Shown(inv, j) \in Nat
    OBVIOUS
  <2>1. j \in DOMAIN inv.stacks => inv.stacks[j] \in Nat
    BY <1>1, CatalogIsTyped DEF IsInventory
  <2> QED
    BY <2>1, ShownIs
<1>4. Shown(inv', i) # Shown(inv, i)
  BY <1>3
<1>5. CASE inv' = inv
  BY <1>4, <1>5
<1>6. CASE asked' = For("tidy", None) /\ KeepsGoods(inv, inv')
  <2>1. \/ i \in Tokens(inv) /\ Delivered(inv, i, inv')
        \/ i \in LegacyPieces /\ Misexpanded(inv)
        \/ i \in DOMAIN inv.stacks /\ Overruns(Repair(inv))
    BY <1>1, <1>6, KeptIsShown
  <2>2. Delivered(inv, i, inv') => Unboxed(i)
    BY DEF Delivered, Unboxed
  <2> QED
    BY <1>6, <2>1, <2>2 DEF Goes
<1>7. ASSUME NEW c \in Mine, NEW worn, inv' = [inv EXCEPT !.worn[c] = worn],
             asked' = For("dress", None)
      PROVE  Goes(i)
  <2>1. inv'.stacks = inv.stacks /\ inv'.owned = inv.owned
    BY <1>2, <1>7
  <2>2. i \in Pieces(inv) /\ i \notin Pieces(inv')
    BY <1>4, <2>1, ShownIs
  <2>3. \A d \in Mine : i \notin inv.owned[d]
    BY <2>1, <2>2 DEF Pieces
  <2>4. PICK d \in Mine, s \in Slots : inv.worn[d][s] = i
    BY <2>2, <2>3, PiecesAre
  <2>5. i # None
    BY CatalogIsTyped
  <2>6. d = Hero /\ s \in DOMAIN LegacyIn /\ i = LegacyIn[s]
    BY <1>1, <2>3, <2>4, <2>5 DEF WearsItsOwn
  <2> QED
    BY <1>7, <2>3, <2>4, <2>6 DEF Goes, Outworn
<1>8. ASSUME NEW j \in Items, asked' = For("discard", j), RemoveItem(j) PROVE Goes(i)
  <2>1. OneLess(j)
    BY <1>4, <1>8, RemovedIsShown
  <2>2. i = j
    BY <1>4, <2>1 DEF OneLess
  <2> QED
    BY <1>8, <2>1, <2>2 DEF Goes
<1> QED
  BY <1>5, <1>6, <1>7, <1>8, GoodsMove

\* Nothing leaves what the item list shows but the one piece the player asked
\* to throw away, boxes whose contents have come, the misexpanded swimsuit,
\* and the stacks of a step in which the opening of boxes overran.
THEOREM GoodsStay == Spec => NothingVanishes
<1> DEFINE Stay == \A i \in Items : Shown(inv', i) < Shown(inv, i) => Goes(i)
<1>1. InOrder /\ [Next]_vars => [Stay]_vars
  BY NextVanishes
<1>2. [Stay]_vars =>
        [\A i \in Items : Shown(inv', i) < Shown(inv, i) =>
            \/ asked' = For("discard", i) /\ OneLess(i)
            \/ /\ asked' = For("tidy", None)
               /\ \/ i \in Tokens(inv) /\ Unboxed(i)
                  \/ i \in LegacyPieces /\ Misexpanded(inv)
                  \/ i \in DOMAIN inv.stacks /\ Overruns(Repair(inv))
            \/ asked' = For("dress", None) /\ Outworn(i)]_vars
  BY DEF Goes
<1> QED
  BY <1>1, <1>2, AlwaysInOrder, PTL DEF Spec, NothingVanishes

\* The two ways to spend money that ChargesDeliver allows.
Taught ==
    /\ sale' = None /\ inv' = inv
    /\ \E row \in SkillRows :
         row.base \in DOMAIN skills' /\ skills'[row.base] = row.minutes

Arrived(tidy, j, n) ==
    IF j \in Wearable
    THEN j \in inv'.owned[WearerOf[j]] \ tidy.owned[WearerOf[j]]
    ELSE CountOf(inv', j) >= Capped(CountOf(tidy, j) + n)

Delivers(i, n) ==
    \E tidy \in Tidied :
        IF Contents[i] = {} THEN Arrived(tidy, i, n)
                            ELSE \E j \in Contents[i] : Arrived(tidy, j, n)

LEMMA PaidDelivers ==
    ASSUME InOrder, NEW i \in Items, NEW n \in Nat, NEW tidy \in Expansions(Repair(inv)),
           Changes(tidy, Gift(i, n)), inv' = Put(tidy, Gift(i, n))
    PROVE  Delivers(i, n)
<1> DEFINE gift == Gift(i, n)
<1>1. IsInventory(inv) /\ OwnsItsWear(inv)
  BY DEF InOrder, TypeOK
<1>2. KeepsGoods(inv, tidy) /\ IsGiven(tidy, gift, inv')
  BY <1>1, TidyResult, PurchaseResult
<1>3. /\ IsGift(gift)
      /\ DOMAIN gift = IF Contents[i] = {} THEN {i} ELSE Contents[i]
      /\ \A j \in DOMAIN gift : gift[j] >= n /\ Contents[j] = {}
  BY GiftIsGift
<1> HIDE DEF gift
<1>4. PICK j \in DOMAIN gift : j \in Wearable => j \notin tidy.owned[WearerOf[j]]
  BY DEF Changes, gift
<1>5. j \in Items
  BY <1>3 DEF IsGift
<1>6. Arrived(tidy, j, n)
  <2>1. CASE j \in Wearable
    BY <1>2, <1>4, <2>1 DEF IsGiven, Wearable, Arrived
  <2>2. CASE j \notin Wearable
    <3>1. CountOf(inv', j) = Capped(CountOf(tidy, j) + gift[j])
      BY <1>2, <2>2 DEF IsGiven
    <3>2. CountOf(tidy, j) \in Nat /\ gift[j] \in Nat /\ gift[j] >= n
      BY <1>2, <1>3, CountsAreNumbers, CatalogIsTyped DEF KeepsGoods, IsGift
    <3>3. Capped(CountOf(tidy, j) + n) <= Capped(CountOf(tidy, j) + gift[j])
      BY <3>2, CappedIsMonotone
    <3> QED
      BY <2>2, <3>1, <3>3 DEF Arrived
  <2> QED
    BY <2>1, <2>2
<1> QED
  BY <1>3, <1>4, <1>6 DEF Delivers, Tidied

LEMMA NextDelivers ==
    ASSUME InOrder, [Next]_vars, purse' # purse
    PROVE  Taught \/ (sale' # None /\ Delivers(sale'[1], sale'[2]))
<1>2. ASSUME NEW i \in Items, NEW f \in CountFields, NEW m \in {"luna", "cash"},
             BuyItem(i, f, m)
      PROVE  sale' # None /\ Delivers(sale'[1], sale'[2])
  <2> DEFINE n == PurchaseCount(f)
  <2>1. n \in 0 .. MaxCount /\ n \in Nat
    BY CountsAreAsked, CatalogIsTyped
  <2>2. PICK tidy \in Expansions(Repair(inv)) :
           /\ Changes(tidy, Gift(i, n))
           /\ inv' = Put(tidy, Gift(i, n))
           /\ sale' = <<i, n>>
    BY <1>2 DEF BuyItem, Tidied
  <2>3. Delivers(i, n)
    BY <2>1, <2>2, PaidDelivers
  <2>4. sale' # None /\ sale'[1] = i /\ sale'[2] = n
    BY <2>1, <2>2, CatalogIsTyped
  <2> HIDE DEF n
  <2> QED
    BY <2>3, <2>4
<1>3. ASSUME NEW row \in SkillRows, NEW m \in {"luna", "cash"}, BuySkill(row, m)
      PROVE  Taught
  <2>1. /\ sale' = None /\ inv' = inv
        /\ skills' = [s \in DOMAIN skills \cup ({row.base} \ {None}) |->
                        IF s = row.base THEN row.minutes ELSE skills[s]]
    BY <1>3 DEF BuySkill
  <2>2. row.base \in DOMAIN skills' /\ skills'[row.base] = row.minutes
    BY <2>1, SkillsHaveIds
  <2> QED
    BY <2>1, <2>2 DEF Taught
<1>4. ~(ListItems \/ Crash \/ Undress)
  BY DEF ListItems, Crash, Undress
<1>5. ASSUME NEW c, Observe(c) PROVE FALSE
  BY <1>5 DEF Observe
<1>6. ASSUME NEW bundle, NEW stored, Equip(bundle, stored) PROVE FALSE
  BY <1>6 DEF Equip
<1>7. ASSUME NEW i, RemoveItem(i) PROVE FALSE
  BY <1>7 DEF RemoveItem
<1>8. ASSUME NEW n, NEW entry, AssignQuickslot(n, entry) PROVE FALSE
  BY <1>8 DEF AssignQuickslot
<1>9. ~UNCHANGED vars
  BY DEF vars
<1> QED
  BY <1>2, <1>3, <1>4, <1>5, <1>6, <1>7, <1>8, <1>9 DEF Next, Request

\* Money goes only for minutes of a skill, or for what was asked for: a
\* stack that counts it, or a piece the character did not own.
THEOREM MoneyBuys == Spec => ChargesDeliver
<1> DEFINE Buys ==
        \/ /\ sale' = None /\ inv' = inv
           /\ \E row \in SkillRows :
                row.base \in DOMAIN skills' /\ skills'[row.base] = row.minutes
        \/ /\ sale' # None
           /\ \E tidy \in Tidied :
                LET i == sale'[1]
                    n == sale'[2]
                    New(j) ==
                        IF j \in Wearable
                        THEN j \in inv'.owned[WearerOf[j]] \ tidy.owned[WearerOf[j]]
                        ELSE CountOf(inv', j) >= Capped(CountOf(tidy, j) + n)
                IN  IF Contents[i] = {} THEN New(i) ELSE \E j \in Contents[i] : New(j)
<1>1. InOrder /\ [Next]_vars => [purse' # purse => Buys]_vars
  BY NextDelivers DEF Taught, Delivers, Arrived
<1> QED
  BY <1>1, AlwaysInOrder, PTL DEF Spec, ChargesDeliver

LEMMA NextFades ==
    ASSUME InOrder, [Next]_vars
    PROVE  /\ Tokens(inv') \subseteq Tokens(inv)
           /\ Hero \in Mine =>
                \A i \in LegacyPieces \cap inv'.owned[Hero] :
                    Prices[i] = [luna |-> 0, cash |-> 0] => i \in inv.owned[Hero]
<1>1. IsInventory(inv) /\ OwnsItsWear(inv)
  BY DEF InOrder, TypeOK
<1>2. inv = [stacks |-> inv.stacks, owned |-> inv.owned, worn |-> inv.worn]
  BY <1>1 DEF IsInventory
<1>3. Tokens(inv') \subseteq Tokens(inv)
  <2>1. ASSUME NEW c \in Mine, NEW worn, inv' = [inv EXCEPT !.worn[c] = worn]
        PROVE  Tokens(inv') = Tokens(inv)
    <3>1. inv'.stacks = inv.stacks
      BY <1>2, <2>1
    <3> QED
      BY <3>1 DEF Tokens
  <2>2. ASSUME NEW i \in Items, RemoveItem(i)
        PROVE  Tokens(inv') \subseteq Tokens(inv)
    <3>1. DOMAIN inv'.stacks \subseteq DOMAIN inv.stacks
      BY <1>1, <2>2, RemoveResult
    <3> QED
      BY <3>1 DEF Tokens
  <2> QED
    BY <2>1, <2>2, GoodsMove DEF KeepsGoods
<1>4. ASSUME Hero \in Mine, NEW i \in LegacyPieces, i \in inv'.owned[Hero],
             Prices[i] = [luna |-> 0, cash |-> 0]
      PROVE  i \in inv.owned[Hero]
  <2>1. i \notin SparePieces \cup Boxed
    BY <1>4, LegacyIsNotSold, SwimsuitIsHeros DEF LegacyPieces, SparePieces, Boxed
  <2>2. ASSUME NEW out \in Expansions(Repair(inv)), i \in out.owned[Hero]
        PROVE  i \in inv.owned[Hero]
    BY <1>1, <1>4, <2>1, <2>2, TidyResult DEF Bought
  <2>3. ASSUME NEW k \in Items, NEW f \in CountFields, NEW m \in {"luna", "cash"},
               BuyItem(k, f, m)
        PROVE  i \in inv.owned[Hero]
    <3> DEFINE n == PurchaseCount(f)
    <3>1. n \in Nat
      BY CountsAreAsked, CatalogIsTyped
    <3>2. PICK tidy \in Expansions(Repair(inv)) :
             \/ Pays(Prices[k], m, n) /\ inv' = Put(tidy, Gift(k, n))
             \/ inv' = tidy
      BY <2>3 DEF BuyItem, Tidied
    <3>3. CASE inv' = tidy
      BY <1>4, <2>2, <3>3
    <3>4. CASE Pays(Prices[k], m, n) /\ inv' = Put(tidy, Gift(k, n))
      <4>1. i \notin DOMAIN Gift(k, n)
        <5>1. Prices[k].luna # 0 \/ Prices[k].cash # 0
          BY <3>4 DEF Pays, Money
        <5>2. k # i
          BY <1>4, <5>1
        <5>3. i \notin Contents[k]
          BY <2>1 DEF Boxed
        <5>4. DOMAIN Gift(k, n) = IF Contents[k] = {} THEN {k} ELSE Contents[k]
          BY <3>1, GiftIsGift
        <5> QED
          BY <5>2, <5>3, <5>4
      <4>2. i \in tidy.owned[Hero]
        BY <1>1, <1>4, <3>1, <3>4, <4>1, PurchaseResult DEF IsGiven
      <4> QED
        BY <2>2, <4>2
    <3> QED
      BY <3>2, <3>3, <3>4
  <2>4. ASSUME ListItems PROVE i \in inv.owned[Hero]
    BY <1>4, <2>2, <2>4 DEF ListItems, Tidied
  <2>5. ASSUME inv' = inv \/ \E c \in Mine : \E worn : inv' = [inv EXCEPT !.worn[c] = worn]
        PROVE  i \in inv.owned[Hero]
    <3>1. inv'.owned = inv.owned
      BY <1>2, <2>5
    <3> QED
      BY <1>4, <3>1
  <2>6. ASSUME NEW k \in Items, RemoveItem(k) PROVE i \in inv.owned[Hero]
    <3>1. inv'.owned[Hero] \subseteq inv.owned[Hero]
      BY <1>1, <1>4, <2>6, RemoveResult
    <3> QED
      BY <1>4, <3>1
  <2>7. ASSUME NEW bundle, NEW stored \in BOOLEAN, Equip(bundle, stored)
        PROVE  inv' = inv \/ \E c \in Mine : \E worn : inv' = [inv EXCEPT !.worn[c] = worn]
    BY <2>7 DEF Equip, Target, Wears
  <2>8. ASSUME Undress PROVE \E c \in Mine : \E worn : inv' = [inv EXCEPT !.worn[c] = worn]
    BY <2>8 DEF Undress
  <2>9. ASSUME \/ \E row \in SkillRows, m \in {"luna", "cash"} : BuySkill(row, m)
               \/ Crash
               \/ \E c \in Characters : Observe(c)
               \/ \E n \in 1 .. QuickslotCount,
                     entry \in {Open} \cup {Holding(k) : k \in ShortIds} :
                      AssignQuickslot(n, entry)
               \/ UNCHANGED vars
        PROVE  inv' = inv
    BY <2>9 DEF BuySkill, Crash, Observe, AssignQuickslot, vars
  <2> QED
    BY <2>3, <2>4, <2>5, <2>6, <2>7, <2>8, <2>9 DEF Next, Request
<1> QED
  BY <1>3, <1>4

\* No request puts a box on the stacks, and a misexpanded piece that no shop
\* has a price for does not come back: an account is repaired for good.
THEOREM RepairedForGood == Spec => OldTroublesFade
<1>1. InOrder /\ [Next]_vars =>
        [/\ Tokens(inv') \subseteq Tokens(inv)
         /\ Hero \in Mine =>
              \A i \in LegacyPieces \cap inv'.owned[Hero] :
                  Prices[i] = [luna |-> 0, cash |-> 0] => i \in inv.owned[Hero]]_vars
  BY NextFades
<1> QED
  BY <1>1, AlwaysInOrder, PTL DEF Spec, OldTroublesFade
=============================================================================
