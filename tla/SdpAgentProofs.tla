--------------------------- MODULE SdpAgentProofs ---------------------------
(***************************************************************************)
(* Proofs about SdpAgent for any kinds of media, handlers, m= lines,       *)
(* versions and negotiations, with cancelled offers, removed handlers,     *)
(* failing media handlers and reused lines.                                *)
(*                                                                         *)
(* SlotsInStep is not inductive: a list stays free of repetition only      *)
(* because the other one is (IdsInv), and a description that is set later  *)
(* must fit the list when it is made (LinesMade).  VersionInv says how far *)
(* the version may run ahead of the description that was set.              *)
(*                                                                         *)
(* What an answer and an offer say line by line rests on LinesInv: in each *)
(* state the handlers of the list fit the lines of the description that    *)
(* the next operation reads.  It holds unless offers are cancelled, media  *)
(* handlers fail or the peer reuses lines (Plain).                         *)
(***************************************************************************)
EXTENDS SdpAgent, FiniteSetTheorems, SequenceTheorems, WellFoundedInduction, TLAPS

(* The elements of a list are different. *)
Distinct(s) == \A p, q \in DOMAIN s : s[p] = s[q] => p = q

(* The handlers in a list, no two of them the same. *)
ListOf(s, n) == s \in Seq(1..n) /\ Distinct(s)

IdsInv == ListOf(handlers, Len(h)) /\ ListOf(offerHandlers, Len(h))

(* The lines of a description just made or set are those of the list. *)
LinesMade ==
  /\ HandlerPerMedia
  /\ state = "local_offer" => Len(made.medias) = Len(offerHandlers)

(* The versions of the local descriptions made and set. *)
VersionInv ==
  /\ state \in Quiet \cup {"wait_nego"} => made = NoSdp
  /\ state = "local_offer" \/ made # NoSdp => made.ver = local /\ local >= 1
  /\ localDesc # NoSdp => /\ localDesc.ver >= 1
                          /\ local \in {localDesc.ver, localDesc.ver + 1}
                          /\ prevSdp \/ state = "wait_nego"

AgentInv == TypeOK /\ IdsInv /\ LinesMade /\ VersionInv

-----------------------------------------------------------------------------
(* Lists.                                                                  *)

(* A set of natural numbers that is not empty has a least element: what the code's loops
   over a list do is proved by looking at the first place where it would fail. *)
LEMMA Least ==
  ASSUME NEW T \in SUBSET Nat, T # {}
  PROVE  \E x \in T : \A y \in T : x <= y
<1>1. \E x \in T : \A y \in T : ~(<<y, x>> \in OpToRel(<, Nat))
  BY NatLessThanWellFounded, WFMin, Zenon
<1>2. \E x \in T : \A y \in T : ~(y < x)
  BY <1>1 DEF OpToRel
<1> QED
  BY <1>2

(* One turn of the loop that keeps the elements of a list that are in S. *)
Keep(v, x, S) == IF x \in S THEN Append(v, x) ELSE v
IsKept(f, s, S, k) == f = [n \in 0..k |-> IF n = 0 THEN <<>> ELSE Keep(f[n - 1], s[n], S)]
Kept(s, S) == CHOOSE f : IsKept(f, s, S, Len(s))

(* The loop has a result for a list of any length. *)
LEMMA KeptExists ==
  ASSUME NEW s, NEW S, NEW len \in Nat
  PROVE  \E f : IsKept(f, s, S, len)
<1> DEFINE Bad == {k \in Nat : ~\E f : IsKept(f, s, S, k)}
<1>1. ASSUME Bad # {}
      PROVE  FALSE
  <2>1. PICK k \in Bad : \A j \in Bad : k <= j
    BY <1>1, Least
  <2>2. k # 0
    <3>1. IsKept([n \in 0..0 |-> <<>>], s, S, 0)
      BY DEF IsKept
    <3> QED
      BY <3>1
  <2>3. k - 1 \in Nat /\ k - 1 \notin Bad
    BY <2>1, <2>2
  <2>4. PICK g : IsKept(g, s, S, k - 1)
    BY <2>3
  <2> DEFINE f == [n \in 0..k |-> IF n = k THEN Keep(g[k - 1], s[k], S) ELSE g[n]]
  <2>5. IsKept(f, s, S, k)
    <3>1. ASSUME NEW n \in 0..k
          PROVE  f[n] = IF n = 0 THEN <<>> ELSE Keep(f[n - 1], s[n], S)
      <4>1. CASE n = k
        <5>1. f[n] = Keep(g[k - 1], s[k], S)
          BY <4>1
        <5>2. n - 1 \in 0..k /\ n - 1 # k
          BY <2>2, <4>1
        <5>3. f[n - 1] = g[k - 1]
          BY <5>2, <4>1
        <5> HIDE DEF f
        <5> QED
          BY <5>1, <5>3, <2>2, <4>1
      <4>2. CASE n # k
        <5>1. f[n] = g[n] /\ n \in 0..(k - 1)
          BY <4>2
        <5>2. g[n] = IF n = 0 THEN <<>> ELSE Keep(g[n - 1], s[n], S)
          BY <2>4, <5>1 DEF IsKept
        <5>3. n # 0 => f[n - 1] = g[n - 1]
          BY <4>2
        <5> HIDE DEF f
        <5> QED
          BY <5>1, <5>2, <5>3
      <4> QED
        BY <4>1, <4>2
    <3>2. f = [n \in 0..k |-> f[n]]
      OBVIOUS
    <3> HIDE DEF f
    <3> QED
      BY <3>1, <3>2 DEF IsKept
  <2> HIDE DEF f
  <2> QED
    BY <2>5
<1> QED
  BY <1>1

(* Those is where the loop ends. *)
LEMMA ThoseIsKept ==
  ASSUME NEW T, NEW s \in Seq(T), NEW S
  PROVE  /\ Those(s, S) = Kept(s, S)[Len(s)]
         /\ Kept(s, S)[0] = <<>>
         /\ \A n \in 1..Len(s) : Kept(s, S)[n] = Keep(Kept(s, S)[n - 1], s[n], S)
<1>0. Len(s) \in Nat
  BY LenProperties
<1>1. Those(s, S) = Kept(s, S)[Len(s)]
  BY DEF Those, Kept, IsKept, Keep
<1>2. IsKept(Kept(s, S), s, S, Len(s))
  BY KeptExists, <1>0, Zenon DEF Kept
<1>3. \A n \in 0..Len(s) :
        Kept(s, S)[n] = IF n = 0 THEN <<>> ELSE Keep(Kept(s, S)[n - 1], s[n], S)
  BY <1>2, Zenon DEF IsKept
<1> QED
  BY <1>0, <1>1, <1>3

(* An element put at the end of a list is added to its elements, and to a list of
   different ones it does not hold it keeps them different. *)
LEMMA Appended ==
  ASSUME NEW T, NEW s \in Seq(T), NEW x \in T
  PROVE  /\ Append(s, x) \in Seq(T)
         /\ Len(Append(s, x)) = Len(s) + 1
         /\ Elems(Append(s, x)) = Elems(s) \cup {x}
         /\ Distinct(s) /\ x \notin Elems(s) => Distinct(Append(s, x))
<1> DEFINE t == Append(s, x)
<1>1. /\ t \in Seq(T) /\ Len(t) = Len(s) + 1
      /\ \A i \in 1..Len(s) : t[i] = s[i]
      /\ t[Len(s) + 1] = x
  BY AppendProperties
<1>2. Len(s) \in Nat /\ DOMAIN s = 1..Len(s) /\ DOMAIN t = 1..(Len(s) + 1)
  BY <1>1, LenProperties
<1> HIDE DEF t
<1>3. Elems(t) = Elems(s) \cup {x}
  <2>1. ASSUME NEW y \in Elems(t)
        PROVE  y \in Elems(s) \cup {x}
    BY <1>1, <1>2 DEF Elems
  <2>2. ASSUME NEW y \in Elems(s)
        PROVE  y \in Elems(t)
    <3>1. PICK i \in 1..Len(s) : y = s[i]
      BY <1>2 DEF Elems
    <3>2. i \in DOMAIN t /\ t[i] = y
      BY <3>1, <1>1, <1>2
    <3> QED
      BY <3>2 DEF Elems
  <2>3. x \in Elems(t)
    <3>1. Len(s) + 1 \in DOMAIN t
      BY <1>2
    <3> QED
      BY <3>1, <1>1 DEF Elems
  <2> QED
    BY <2>1, <2>2, <2>3
<1>4. ASSUME Distinct(s), x \notin Elems(s)
      PROVE  Distinct(t)
  <2> SUFFICES ASSUME NEW p \in DOMAIN t, NEW q \in DOMAIN t, t[p] = t[q]
               PROVE  p = q
    BY DEF Distinct
  <2>1. ASSUME NEW i \in 1..Len(s)
        PROVE  t[i] # x
    BY <2>1, <1>1, <1>2, <1>4 DEF Elems
  <2>2. CASE p \in 1..Len(s) /\ q \in 1..Len(s)
    BY <2>2, <1>1, <1>2, <1>4 DEF Distinct
  <2>3. CASE p = Len(s) + 1 \/ q = Len(s) + 1
    <3>1. p # q => FALSE
      BY <2>1, <2>3, <1>1, <1>2
    <3> QED
      BY <3>1
  <2> QED
    BY <2>2, <2>3, <1>2
<1> QED
  BY <1>1, <1>3, <1>4 DEF t

(* What a search or removal over a list leaves is a list of the elements asked for; no
   element is repeated that was not repeated before. *)
LEMMA ThoseLeft ==
  ASSUME NEW T, NEW s \in Seq(T), NEW S
  PROVE  /\ Those(s, S) \in Seq(T)
         /\ Elems(Those(s, S)) = Elems(s) \cap S
         /\ Distinct(s) => Distinct(Those(s, S))
<1> DEFINE f == Kept(s, S)
           Upto(n) == {s[i] : i \in 1..n}
           Right(n) == /\ f[n] \in Seq(T)
                       /\ Elems(f[n]) = Upto(n) \cap S
                       /\ Distinct(s) => Distinct(f[n])
           Bad == {n \in 0..Len(s) : ~Right(n)}
<1>0. /\ Len(s) \in Nat /\ DOMAIN s = 1..Len(s)
      /\ \A n \in 1..Len(s) : s[n] \in T
  BY LenProperties, ElementOfSeq
<1>1. /\ Those(s, S) = f[Len(s)] /\ f[0] = <<>>
      /\ \A n \in 1..Len(s) : f[n] = Keep(f[n - 1], s[n], S)
  BY ThoseIsKept
<1> HIDE DEF f
<1>2. Right(0)
  <2>1. <<>> \in Seq(T) /\ Elems(<<>>) = {} /\ Distinct(<<>>)
    BY EmptySeq DEF Elems, Distinct
  <2>2. Upto(0) = {}
    OBVIOUS
  <2> QED
    BY <1>1, <2>1, <2>2
<1>3. ASSUME NEW n \in 1..Len(s), Right(n - 1)
      PROVE  Right(n)
  <2>1. n - 1 \in 0..Len(s) /\ s[n] \in T
    BY <1>0
  <2>2. Upto(n) = Upto(n - 1) \cup {s[n]}
    <3>1. 1..n = 1..(n - 1) \cup {n}
      BY <1>0
    <3> QED
      BY <3>1
  <2> HIDE DEF Upto
  <2>3. CASE s[n] \in S
    <3>1. f[n] = Append(f[n - 1], s[n])
      BY <1>1, <2>3 DEF Keep
    <3>2. Elems(f[n]) = Upto(n) \cap S
      <4>1. Elems(f[n]) = (Upto(n - 1) \cap S) \cup {s[n]}
        BY <3>1, <1>3, <2>1, Appended
      <4> QED
        BY <4>1, <2>2, <2>3
    <3>3. Distinct(s) => s[n] \notin Elems(f[n - 1])
      <4>1. Distinct(s) => s[n] \notin Upto(n - 1)
        <5> SUFFICES ASSUME Distinct(s), NEW i \in 1..(n - 1), s[i] = s[n]
                     PROVE  FALSE
          BY DEF Upto
        <5>1. i \in DOMAIN s /\ n \in DOMAIN s /\ i # n
          BY <1>0
        <5> QED
          BY <5>1 DEF Distinct
      <4> QED
        BY <4>1, <1>3
    <3>4. f[n] \in Seq(T) /\ (Distinct(s) => Distinct(f[n]))
      BY <3>1, <3>3, <1>3, <2>1, Appended
    <3> QED
      BY <3>2, <3>4
  <2>4. CASE s[n] \notin S
    <3>1. f[n] = f[n - 1]
      BY <1>1, <2>4 DEF Keep
    <3>2. Upto(n) \cap S = Upto(n - 1) \cap S
      BY <2>2, <2>4
    <3> QED
      BY <3>1, <3>2, <1>3
  <2> QED
    BY <2>3, <2>4
<1>4. Upto(Len(s)) = Elems(s)
  BY <1>0 DEF Elems
<1> HIDE DEF Right, Upto
<1>5. Right(Len(s))
  <2>1. ASSUME Bad # {}
        PROVE  FALSE
    <3>1. Bad \in SUBSET Nat
      BY <1>0
    <3>2. PICK k \in Bad : \A j \in Bad : k <= j
      BY <2>1, <3>1, Least
    <3>3. k \in 1..Len(s)
      BY <1>0, <1>2
    <3>4. k - 1 \in 0..Len(s) /\ k - 1 \notin Bad
      BY <1>0, <3>2, <3>3
    <3> QED
      BY <1>3, <3>3, <3>4
  <2>2. Len(s) \in 0..Len(s)
    BY <1>0
  <2> QED
    BY <2>1, <2>2
<1> QED
  BY <1>1, <1>4, <1>5 DEF Right

(* A list keeps its place when handlers are made. *)
LEMMA ListGrows ==
  ASSUME NEW m \in Nat, NEW n \in Nat, m <= n, NEW s, ListOf(s, m)
  PROVE  ListOf(s, n)
<1>1. 1..m \subseteq 1..n
  OBVIOUS
<1>2. s \in Seq(1..m)
  BY DEF ListOf
<1> QED
  BY <1>1, <1>2, SeqMonotonic DEF ListOf

(* What is left of a list of handlers is one. *)
LEMMA ListLeft ==
  ASSUME NEW n \in Nat, NEW s, ListOf(s, n), NEW S
  PROVE  /\ ListOf(Those(s, S), n)
         /\ Elems(Those(s, S)) = Elems(s) \cap S
BY ThoseLeft DEF ListOf

(* A handler that is not in a list may be put at its end. *)
LEMMA ListAppended ==
  ASSUME NEW n \in Nat, NEW s, ListOf(s, n), NEW i \in 1..n, i \notin Elems(s)
  PROVE  /\ ListOf(Append(s, i), n)
         /\ Len(Append(s, i)) = Len(s) + 1
         /\ Elems(Append(s, i)) = Elems(s) \cup {i}
BY Appended DEF ListOf

(* The elements of a list of handlers are handlers. *)
LEMMA ListElems ==
  ASSUME NEW n \in Nat, NEW s, ListOf(s, n)
  PROVE  /\ Len(s) \in Nat /\ DOMAIN s = 1..Len(s)
         /\ \A p \in 1..Len(s) : s[p] \in 1..n /\ s[p] \in Elems(s)
         /\ Elems(s) \subseteq 1..n
<1>1. /\ Len(s) \in Nat /\ DOMAIN s = 1..Len(s)
      /\ \A p \in 1..Len(s) : s[p] \in 1..n
  BY LenProperties, ElementOfSeq DEF ListOf
<1> QED
  BY <1>1 DEF Elems

-----------------------------------------------------------------------------
(* The list of an offer.                                                   *)

(* The reusable slots of the list are counted from its start, each one more than the
   slots before it, so merge_offer_handlers gives no new handler to two of them. *)
LEMMA RanksDiffer ==
  ASSUME Len(offerHandlers) \in Nat, DOMAIN offerHandlers = 1..Len(offerHandlers)
  PROVE  LET slots == Cardinality({q \in DOMAIN offerHandlers : Reusable(offerHandlers[q])})
         IN  /\ slots \in Nat
             /\ \A p \in DOMAIN offerHandlers : Rank(p) \in Nat /\ Rank(p) <= slots
             /\ \A p \in DOMAIN offerHandlers : Reusable(offerHandlers[p]) => Rank(p) >= 1
             /\ \A p, q \in DOMAIN offerHandlers :
                  Reusable(offerHandlers[p]) /\ Reusable(offerHandlers[q]) /\ p # q
                    => Rank(p) # Rank(q)
<1> DEFINE len == Len(offerHandlers)
           R(p) == {q \in 1..p : Reusable(offerHandlers[q])}
           all == {q \in DOMAIN offerHandlers : Reusable(offerHandlers[q])}
<1>1. IsFiniteSet(all) /\ Cardinality(all) \in Nat
  <2>1. IsFiniteSet(1..len)
    BY FS_Interval
  <2>2. all \subseteq 1..len
    OBVIOUS
  <2> QED
    BY <2>1, <2>2, FS_Subset, FS_CardinalityType
<1>2. ASSUME NEW p \in DOMAIN offerHandlers
      PROVE  /\ R(p) \subseteq all /\ IsFiniteSet(R(p))
             /\ Cardinality(R(p)) \in Nat /\ Cardinality(R(p)) <= Cardinality(all)
  <2>1. R(p) \subseteq all
    OBVIOUS
  <2> QED
    BY <1>1, <2>1, FS_Subset, FS_CardinalityType
<1>3. ASSUME NEW p \in DOMAIN offerHandlers, Reusable(offerHandlers[p])
      PROVE  Cardinality(R(p)) >= 1
  <2>1. p \in R(p)
    BY <1>3
  <2>2. Cardinality(R(p)) # 0
    BY <1>2, <2>1, FS_EmptySet
  <2>3. Cardinality(R(p)) \in Nat
    BY <1>2
  <2> HIDE DEF R
  <2> QED
    BY <2>2, <2>3
<1>4. ASSUME NEW p \in DOMAIN offerHandlers, NEW q \in DOMAIN offerHandlers, p < q,
             Reusable(offerHandlers[q])
      PROVE  Cardinality(R(p)) # Cardinality(R(q))
  <2>1. R(p) \subseteq R(q)
    BY <1>4
  <2>2. q \in R(q) /\ q \notin R(p)
    BY <1>4
  <2>3. R(p) # R(q)
    BY <2>2
  <2> HIDE DEF R
  <2> QED
    BY <1>2, <2>1, <2>3, FS_Subset
<1>5. \A p \in DOMAIN offerHandlers : Rank(p) = Cardinality(R(p))
  BY DEF Rank
<1> HIDE DEF R, all
<1>6. \A p, q \in DOMAIN offerHandlers :
        Reusable(offerHandlers[p]) /\ Reusable(offerHandlers[q]) /\ p # q => Rank(p) # Rank(q)
  <2> SUFFICES ASSUME NEW p \in DOMAIN offerHandlers, NEW q \in DOMAIN offerHandlers,
                      Reusable(offerHandlers[p]), Reusable(offerHandlers[q]), p # q
               PROVE  Rank(p) # Rank(q)
    OBVIOUS
  <2>1. p < q \/ q < p
    OBVIOUS
  <2> QED
    BY <2>1, <1>4, <1>5
<1> QED
  BY <1>1, <1>2, <1>3, <1>5, <1>6 DEF all

(* The new handlers are registered ones that are not in the list. *)
LEMMA FreshRight ==
  ASSUME Len(h) \in Nat, IdsInv
  PROVE  /\ ListOf(Fresh, Len(h))
         /\ Elems(Fresh) \cap Elems(offerHandlers) = {}
<1> DEFINE S == {i \in DOMAIN h : ~h[i].negotiated /\ i \notin Elems(offerHandlers)}
<1>1. ListOf(Fresh, Len(h)) /\ Elems(Fresh) = Elems(handlers) \cap S
  BY ListLeft DEF Fresh, IdsInv
<1> QED
  BY <1>1

(* merge_offer_handlers puts no handler in the list twice. *)
LEMMA MergeIsList ==
  ASSUME Len(h) \in Nat, IdsInv
  PROVE  ListOf(MergeOfferHandlers, Len(h))
<1>1. CASE state = "unnegotiated"
  BY <1>1 DEF MergeOfferHandlers, IdsInv
<1>2. CASE state # "unnegotiated"
  <2> DEFINE oh == offerHandlers
             fr == Fresh
             slots == Cardinality({q \in DOMAIN oh : Reusable(oh[q])})
             Taken(p) == Reusable(oh[p]) /\ Rank(p) <= Len(fr)
             merged == [p \in DOMAIN oh |-> IF Taken(p) THEN fr[Rank(p)] ELSE oh[p]]
             tail == SubSeq(fr, slots + 1, Len(fr))
             all == merged \o tail
             N == Len(h)
  <2>1. /\ Len(oh) \in Nat /\ DOMAIN oh = 1..Len(oh)
        /\ \A p \in 1..Len(oh) : oh[p] \in 1..N /\ oh[p] \in Elems(oh)
        /\ Distinct(oh)
    <3>1. ListOf(oh, N)
      BY DEF IdsInv
    <3> QED
      BY <3>1, ListElems DEF ListOf
  <2>2. /\ Len(fr) \in Nat /\ DOMAIN fr = 1..Len(fr)
        /\ \A p \in 1..Len(fr) : fr[p] \in 1..N /\ fr[p] \notin Elems(oh)
        /\ Distinct(fr)
    BY FreshRight, ListElems DEF ListOf
  <2>3. /\ slots \in Nat
        /\ \A p \in 1..Len(oh) : Rank(p) \in Nat /\ Rank(p) <= slots
        /\ \A p \in 1..Len(oh) : Taken(p) => Rank(p) \in 1..Len(fr)
        /\ \A p, q \in 1..Len(oh) : Taken(p) /\ Taken(q) /\ p # q => Rank(p) # Rank(q)
    <3>1. /\ slots \in Nat
          /\ \A p \in 1..Len(oh) : Rank(p) \in Nat /\ Rank(p) <= slots
          /\ \A p \in 1..Len(oh) : Reusable(oh[p]) => Rank(p) >= 1
          /\ \A p, q \in 1..Len(oh) :
               Reusable(oh[p]) /\ Reusable(oh[q]) /\ p # q => Rank(p) # Rank(q)
      BY <2>1, RanksDiffer
    <3> QED
      BY <3>1, <2>2
  <2>4. MergeOfferHandlers = all
    BY <1>2 DEF MergeOfferHandlers
  <2> HIDE DEF slots, Taken, fr
  <2>5. /\ \A p \in 1..Len(oh) : merged[p] = IF Taken(p) THEN fr[Rank(p)] ELSE oh[p]
        /\ merged \in Seq(1..N) /\ Len(merged) = Len(oh)
    <3>1. \A p \in 1..Len(oh) : merged[p] = IF Taken(p) THEN fr[Rank(p)] ELSE oh[p]
      BY <2>1
    <3>2. merged \in [1..Len(oh) -> 1..N]
      BY <2>1, <2>2, <2>3
    <3> QED
      BY <3>1, <3>2, <2>1
  <2>6. /\ tail \in Seq(1..N)
        /\ Len(tail) = IF slots + 1 <= Len(fr) THEN Len(fr) - slots ELSE 0
        /\ \A i \in 1..(Len(fr) - slots) : tail[i] = fr[slots + i]
    <3>1. \A i \in (slots + 1)..Len(fr) : fr[i] \in 1..N
      BY <2>2, <2>3
    <3>2. slots + 1 \in Int /\ Len(fr) \in Int
      BY <2>2, <2>3
    <3>3. /\ tail \in Seq(1..N)
          /\ Len(tail) = IF slots + 1 <= Len(fr) THEN Len(fr) - (slots + 1) + 1 ELSE 0
          /\ \A i \in 1..(Len(fr) - (slots + 1) + 1) : tail[i] = fr[(slots + 1) + i - 1]
      BY <3>1, <3>2, SubSeqProperties
    <3>4. Len(fr) - (slots + 1) + 1 = Len(fr) - slots
      BY <2>2, <2>3
    <3>5. \A i \in 1..(Len(fr) - slots) : (slots + 1) + i - 1 = slots + i
      BY <2>2, <2>3
    <3> HIDE DEF tail
    <3> QED
      BY <3>3, <3>4, <3>5
  <2> HIDE DEF merged, tail
  <2>7. /\ all \in Seq(1..N) /\ Len(all) = Len(merged) + Len(tail)
        /\ \A i \in 1..Len(merged) + Len(tail) :
             all[i] = IF i <= Len(merged) THEN merged[i] ELSE tail[i - Len(merged)]
    BY <2>5, <2>6, ConcatProperties
  <2> HIDE DEF all
  <2> DEFINE last == Len(all)
  <2>8. last \in Nat /\ DOMAIN all = 1..last
    BY <2>7, LenProperties
  (* The place in the list of new handlers of what is at a position taken from it. *)
  <2> DEFINE Old(p) == p <= Len(oh) /\ ~Taken(p)
             Src(p) == IF p <= Len(oh) THEN Rank(p) ELSE slots + (p - Len(oh))
  <2>9. ASSUME NEW p \in 1..last
        PROVE  /\ Old(p) => p \in 1..Len(oh) /\ all[p] = oh[p] /\ all[p] \in Elems(oh)
               /\ ~Old(p) => /\ Src(p) \in 1..Len(fr) /\ all[p] = fr[Src(p)]
                             /\ all[p] \notin Elems(oh)
    <3>1. CASE p <= Len(oh)
      <4>1. p \in 1..Len(oh) /\ all[p] = merged[p]
        BY <3>1, <2>1, <2>5, <2>6, <2>7, <2>8
      <4> QED
        BY <4>1, <2>1, <2>2, <2>3, <2>5
    <3>2. CASE p > Len(oh)
      <4>0. p - Len(oh) \in Nat /\ p - Len(oh) >= 1 /\ p - Len(oh) <= Len(tail)
        <5>1. Len(tail) \in Nat
          BY <2>6, LenProperties
        <5>2. p \in Nat /\ p <= Len(oh) + Len(tail)
          BY <5>1, <2>1, <2>5, <2>7
        <5> QED
          BY <5>1, <5>2, <3>2, <2>1
      <4>1. all[p] = tail[p - Len(oh)] /\ p - Len(oh) \in 1..(Len(fr) - slots)
        <5>1. p - Len(oh) \in 1..(Len(fr) - slots)
          <6>0. Len(tail) # 0
            <7> HIDE DEF oh
            <7> QED
              BY <4>0
          <6>1. slots + 1 <= Len(fr)
            BY <6>0, <2>6
          <6>2. Len(tail) = Len(fr) - slots
            BY <6>1, <2>6
          <6> QED
            BY <6>2, <4>0, <2>2, <2>3
        <5>2. ~(p <= Len(merged)) /\ p \in 1..(Len(merged) + Len(tail))
          BY <3>2, <2>1, <2>5, <2>7
        <5>3. all[p] = tail[p - Len(merged)]
          BY <5>2, <2>7
        <5> QED
          BY <5>1, <5>3, <2>5
      <4>2. Src(p) = slots + (p - Len(oh)) /\ Src(p) \in 1..Len(fr)
        BY <3>2, <4>1, <2>1, <2>2, <2>3
      <4>3. all[p] = fr[Src(p)]
        BY <4>1, <4>2, <2>6
      <4> QED
        BY <3>2, <4>2, <4>3, <2>1, <2>2
    <3> QED
      BY <3>1, <3>2, <2>1
  <2>10. ASSUME NEW p \in 1..last, NEW q \in 1..last, ~Old(p), ~Old(q), p # q
         PROVE  Src(p) # Src(q)
    <3>1. CASE p <= Len(oh) /\ q <= Len(oh)
      BY <3>1, <2>1, <2>3, <2>10
    <3>2. CASE p > Len(oh) /\ q > Len(oh)
      BY <3>2, <2>1, <2>3, <2>10
    <3>3. CASE p <= Len(oh) /\ q > Len(oh)
      BY <3>3, <2>1, <2>3
    <3>4. CASE p > Len(oh) /\ q <= Len(oh)
      BY <3>4, <2>1, <2>3
    <3> QED
      BY <3>1, <3>2, <3>3, <3>4, <2>1
  <2> HIDE DEF Old, Src
  <2>11. Distinct(all)
    <3> SUFFICES ASSUME NEW p \in 1..last, NEW q \in 1..last, all[p] = all[q], p # q
                 PROVE  FALSE
      BY <2>8 DEF Distinct
    <3>1. CASE Old(p) /\ Old(q)
      BY <3>1, <2>1, <2>9 DEF Distinct
    <3>2. CASE ~Old(p) /\ ~Old(q)
      <4>1. Src(p) # Src(q) /\ Src(p) \in DOMAIN fr /\ Src(q) \in DOMAIN fr
        BY <3>2, <2>2, <2>9, <2>10
      <4>2. fr[Src(p)] = fr[Src(q)]
        BY <3>2, <2>9
      <4> QED
        BY <4>1, <4>2, <2>2 DEF Distinct
    <3>3. CASE Old(p) /\ ~Old(q)
      BY <3>3, <2>9
    <3>4. CASE ~Old(p) /\ Old(q)
      BY <3>4, <2>9
    <3> QED
      BY <3>1, <3>2, <3>3, <3>4
  <2> QED
    BY <2>4, <2>7, <2>11 DEF ListOf
<1> QED
  BY <1>1, <1>2

-----------------------------------------------------------------------------
(* The flags of the handlers.                                              *)

(* Handlers with the flags of the agent's but for those that a negotiation changes. *)
SameHandlers(g) ==
  /\ g \in Seq(Handler) /\ Len(g) = Len(h)
  /\ \A i \in 1..Len(h) : g[i].disabled <=> h[i].disabled

(* Negotiating with a handler leaves its type and whether it is removed. *)
LEMMA HandlerSet ==
  ASSUME NEW g \in Handler, NEW n \in Nat \ {0}, NEW b \in BOOLEAN
  PROVE  /\ [g EXCEPT !.rejected = b] \in Handler
         /\ [g EXCEPT !.rejected = b].disabled <=> g.disabled
         /\ [g EXCEPT !.negotiated = b] \in Handler
         /\ [g EXCEPT !.negotiated = b].disabled <=> g.disabled
         /\ [g EXCEPT !.disabled = b] \in Handler
         /\ [g EXCEPT !.disabled = b].disabled <=> b
         /\ [g EXCEPT !.index = n] \in Handler
         /\ [g EXCEPT !.index = n].disabled <=> g.disabled
         /\ [g EXCEPT !.index = n, !.offer = b] \in Handler
         /\ [g EXCEPT !.index = n, !.offer = b].disabled <=> g.disabled
         /\ [g EXCEPT !.negotiated = b, !.rejected = b, !.offer = b] \in Handler
         /\ [g EXCEPT !.negotiated = b, !.rejected = b, !.offer = b].disabled <=> g.disabled
BY DEF Handler

(* A new handler is one. *)
LEMMA NewHandlerType ==
  ASSUME NEW k \in Kinds, NEW b \in BOOLEAN
  PROVE  NewHandler(k, b) \in Handler /\ NewHandler(k, b).disabled = FALSE
BY DEF NewHandler, Handler

(* Handlers changed one by one are the same handlers. *)
LEMMA HandlersMapped ==
  ASSUME h \in Seq(Handler), NEW g,
         g \in [DOMAIN h -> Handler],
         \A i \in 1..Len(h) : g[i].disabled <=> h[i].disabled
  PROVE  SameHandlers(g)
<1>1. Len(h) \in Nat /\ DOMAIN h = 1..Len(h)
  BY LenProperties
<1>2. g \in Seq(Handler) /\ Len(g) = Len(h)
  BY <1>1
<1> QED
  BY <1>2 DEF SameHandlers

(* make_media_offer. *)
LEMMA OfferedSame ==
  ASSUME h \in Seq(Handler), NEW n \in Nat, NEW list
  PROVE  SameHandlers(Offered(n, list))
<1> DEFINE at(i) == CHOOSE p \in 1..n : list[p] = i
           b(i) == h[i].offer \/ (AsksHandler(at(i), list) /\ ~h[i].negotiated)
           In(i) == i \in {list[p] : p \in 1..n}
           New(i) == [h[i] EXCEPT !.index = at(i), !.offer = b(i)]
           g == [i \in DOMAIN h |-> IF In(i) THEN New(i) ELSE h[i]]
<1>1. Offered(n, list) = g
  BY DEF Offered
<1>2. ASSUME NEW i \in DOMAIN h
      PROVE  /\ h[i] \in Handler
             /\ In(i) => New(i) \in Handler /\ (New(i).disabled <=> h[i].disabled)
  <2>1. h[i] \in Handler
    BY LenProperties, ElementOfSeq
  <2>2. ASSUME In(i)
        PROVE  New(i) \in Handler /\ (New(i).disabled <=> h[i].disabled)
    <3>1. \E p \in 1..n : list[p] = i
      BY <2>2
    <3>2. at(i) \in 1..n
      BY <3>1
    <3> HIDE DEF at
    <3>3. at(i) \in Nat \ {0}
      BY <3>2
    <3>4. b(i) \in BOOLEAN
      BY <2>1 DEF Handler, AsksHandler
    <3> HIDE DEF b
    <3> QED
      BY <2>1, <3>3, <3>4, HandlerSet
  <2> QED
    BY <2>1, <2>2
<1> HIDE DEF In, New
<1>3. \A i \in DOMAIN h : g[i] \in Handler /\ (g[i].disabled <=> h[i].disabled)
  BY <1>2
<1>4. g \in [DOMAIN h -> Handler]
  BY <1>2
<1>5. DOMAIN h = 1..Len(h)
  BY LenProperties
<1> HIDE DEF g
<1> QED
  BY <1>1, <1>3, <1>4, <1>5, HandlersMapped

(* update_rejected_medias. *)
LEMMA UpdateRejectedSame ==
  ASSUME h \in Seq(Handler), NEW medias
  PROVE  SameHandlers(UpdateRejected(medias))
<1> DEFINE In(i) == \E p \in DOMAIN medias \cap DOMAIN offerHandlers :
                       offerHandlers[p] = i /\ ~medias[p].on
           New(i) == [h[i] EXCEPT !.rejected = TRUE]
           g == [i \in DOMAIN h |-> IF In(i) THEN New(i) ELSE h[i]]
<1>1. UpdateRejected(medias) = g
  BY DEF UpdateRejected
<1>2. ASSUME NEW i \in DOMAIN h
      PROVE  /\ h[i] \in Handler
             /\ New(i) \in Handler /\ (New(i).disabled <=> h[i].disabled)
  <2>1. h[i] \in Handler
    BY LenProperties, ElementOfSeq
  <2>2. TRUE \in BOOLEAN /\ 1 \in Nat \ {0}
    OBVIOUS
  <2> QED
    BY <2>1, <2>2, HandlerSet
<1> HIDE DEF In, New
<1>3. \A i \in DOMAIN h : g[i] \in Handler /\ (g[i].disabled <=> h[i].disabled)
  BY <1>2
<1>4. g \in [DOMAIN h -> Handler]
  BY <1>2
<1>5. DOMAIN h = 1..Len(h)
  BY LenProperties
<1> HIDE DEF g
<1> QED
  BY <1>1, <1>3, <1>4, <1>5, HandlersMapped

(* commit_state_operations: the removed handlers leave the list and nothing else does. *)
LEMMA CommitRight ==
  ASSUME h \in Seq(Handler), ListOf(handlers, Len(h)),
         NEW hs, SameHandlers(hs), CommitNegotiated(hs)
  PROVE  /\ h' \in Seq(Handler) /\ Len(h') = Len(h)
         /\ \A i \in 1..Len(h) : h'[i].disabled <=> h[i].disabled
         /\ ListOf(handlers', Len(h))
         /\ Elems(handlers') = {i \in Elems(handlers) : ~h[i].disabled}
<1>1. /\ Len(h) \in Nat /\ DOMAIN h = 1..Len(h) /\ DOMAIN hs = 1..Len(h)
      /\ \A i \in 1..Len(h) : hs[i] \in Handler /\ (hs[i].disabled <=> h[i].disabled)
  BY LenProperties, ElementOfSeq DEF SameHandlers
<1> DEFINE New(i) == [hs[i] EXCEPT !.negotiated = TRUE]
           g == [i \in DOMAIN h |-> IF i \in Elems(offerHandlers) THEN New(i) ELSE hs[i]]
<1>2. h' = hs \/ h' = g
  BY DEF CommitNegotiated
<1>3. SameHandlers(g)
  <2>1. ASSUME NEW i \in 1..Len(h)
        PROVE  New(i) \in Handler /\ (New(i).disabled <=> hs[i].disabled)
    <3>1. hs[i] \in Handler /\ TRUE \in BOOLEAN /\ 1 \in Nat \ {0}
      BY <1>1
    <3> QED
      BY <3>1, HandlerSet
  <2> HIDE DEF New
  <2>2. g \in [DOMAIN h -> Handler]
    BY <1>1, <2>1
  <2>3. \A i \in 1..Len(h) : g[i].disabled <=> h[i].disabled
    BY <1>1, <2>1
  <2> HIDE DEF g
  <2> QED
    BY <2>2, <2>3, HandlersMapped
<1>4. SameHandlers(h')
  <2> HIDE DEF g
  <2> QED
    BY <1>2, <1>3
<1>5. /\ ListOf(handlers', Len(h))
      /\ Elems(handlers') =
           Elems(handlers) \cap (Elems(handlers) \ {i \in DOMAIN hs : hs[i].disabled})
  BY <1>1, ListLeft DEF CommitNegotiated, Without
<1>6. Elems(handlers) \subseteq 1..Len(h)
  BY <1>1, ListElems
<1>7. Elems(handlers') = {i \in Elems(handlers) : ~h[i].disabled}
  BY <1>1, <1>5, <1>6
<1> QED
  BY <1>4, <1>5, <1>7 DEF SameHandlers

-----------------------------------------------------------------------------
(* The state threaded through an answer.                                   *)

Ans == [hs : Seq(Nat), os : Seq(Nat), h : Seq(Handler), out : Seq(Media), ok : BOOLEAN,
        sel : Nat]

(* What every media answered leaves true of it: both lists are in order, no handler the
   agent had is lost or removed, and none of its registered ones leaves the list. *)
AnsInv(a) ==
  /\ a \in Ans
  /\ ListOf(a.hs, Len(a.h)) /\ ListOf(a.os, Len(a.h))
  /\ Len(h) <= Len(a.h)
  /\ \A i \in 1..Len(h) : a.h[i].disabled <=> h[i].disabled
  /\ Elems(handlers) \subseteq Elems(a.hs)

(* The handler selected is one and is behind no line. *)
Free(a) == a.sel \in 1..Len(a.h) /\ a.sel \notin Elems(a.os)

(* The media answered so far are the same. *)
SameOut(b, a) == b.out = a.out /\ (b.ok <=> a.ok)

(* Facts about the parts of the state. *)
LEMMA AnsParts ==
  ASSUME NEW a \in Ans
  PROVE  /\ a.hs \in Seq(Nat) /\ a.os \in Seq(Nat) /\ a.h \in Seq(Handler)
         /\ a.out \in Seq(Media) /\ a.ok \in BOOLEAN /\ a.sel \in Nat
         /\ Len(a.h) \in Nat /\ DOMAIN a.h = 1..Len(a.h)
         /\ \A i \in 1..Len(a.h) : a.h[i] \in Handler
<1>1. /\ a.hs \in Seq(Nat) /\ a.os \in Seq(Nat) /\ a.h \in Seq(Handler)
      /\ a.out \in Seq(Media) /\ a.ok \in BOOLEAN /\ a.sel \in Nat
  BY DEF Ans
<1> QED
  BY <1>1, LenProperties, ElementOfSeq

(* A list of handlers is a list of numbers. *)
LEMMA ListNat ==
  ASSUME NEW n \in Nat, NEW s, ListOf(s, n)
  PROVE  s \in Seq(Nat)
<1>1. 1..n \subseteq Nat
  OBVIOUS
<1> QED
  BY <1>1, SeqMonotonic DEF ListOf

(* Setting one part of the state leaves the others. *)
LEMMA AnsSet ==
  ASSUME NEW a \in Ans, NEW i \in Nat, NEW s \in Seq(Nat)
  PROVE  /\ LET b == [a EXCEPT !.sel = i]
            IN  /\ b \in Ans /\ b.hs = a.hs /\ b.os = a.os /\ b.h = a.h /\ b.sel = i
                /\ SameOut(b, a)
         /\ LET b == [a EXCEPT !.hs = s]
            IN  /\ b \in Ans /\ b.hs = s /\ b.os = a.os /\ b.h = a.h /\ b.sel = a.sel
                /\ SameOut(b, a)
         /\ LET b == [a EXCEPT !.os = s]
            IN  /\ b \in Ans /\ b.hs = a.hs /\ b.os = s /\ b.h = a.h /\ b.sel = a.sel
                /\ SameOut(b, a)
         /\ LET b == [a EXCEPT !.ok = FALSE]
            IN  /\ b \in Ans /\ b.hs = a.hs /\ b.os = a.os /\ b.h = a.h /\ b.sel = a.sel
                /\ ~b.ok
BY DEF Ans, SameOut

(* Only the handler selected changes. *)
LEMMA SelectKeeps ==
  ASSUME NEW a, AnsInv(a), NEW i \in Nat
  PROVE  LET b == [a EXCEPT !.sel = i]
         IN  AnsInv(b) /\ SameOut(b, a) /\ b.os = a.os /\ b.h = a.h /\ b.sel = i
<1> DEFINE b == [a EXCEPT !.sel = i]
<1>0. a \in Ans /\ <<>> \in Seq(Nat)
  BY EmptySeq DEF AnsInv
<1>1. /\ b \in Ans /\ b.hs = a.hs /\ b.os = a.os /\ b.h = a.h /\ b.sel = i
      /\ SameOut(b, a)
  BY <1>0, AnsSet
<1> HIDE DEF b
<1>2. AnsInv(b)
  BY <1>1 DEF AnsInv
<1> QED
  BY <1>1, <1>2 DEF b

(* A handler that is made is a new one. *)
LEMMA MakeKeeps ==
  ASSUME NEW a, AnsInv(a), Len(h) \in Nat, NEW g \in Handler
  PROVE  LET b == Make(a, g)
         IN  /\ AnsInv(b) /\ SameOut(b, a) /\ Free(b) /\ b.os = a.os
             /\ b.sel \notin Elems(b.hs)
<1> DEFINE b == Make(a, g)
<1>0. /\ Len(a.h) \in Nat /\ Len(h) <= Len(a.h) /\ a.h \in Seq(Handler)
      /\ a \in Ans
      /\ ListOf(a.hs, Len(a.h)) /\ ListOf(a.os, Len(a.h))
      /\ Elems(handlers) \subseteq Elems(a.hs)
      /\ \A i \in 1..Len(h) : a.h[i].disabled <=> h[i].disabled
  BY AnsParts DEF AnsInv
<1>1. /\ Append(a.h, g) \in Seq(Handler)
      /\ Len(Append(a.h, g)) = Len(a.h) + 1
      /\ \A i \in 1..Len(a.h) : Append(a.h, g)[i] = a.h[i]
  BY <1>0, AppendProperties
<1>2. Len(a.h) + 1 \in Nat
  BY <1>0
<1>3. /\ b \in Ans /\ b.hs = a.hs /\ b.os = a.os /\ b.h = Append(a.h, g)
      /\ b.sel = Len(a.h) + 1 /\ SameOut(b, a)
  <2> DEFINE hh == Append(a.h, g)
             nn == Len(a.h) + 1
  <2>1. b = [a EXCEPT !.h = hh, !.sel = nn]
    BY DEF Make
  <2>2. hh \in Seq(Handler) /\ nn \in Nat
    BY <1>1, <1>2
  <2> HIDE DEF b, hh, nn
  <2>3. /\ b \in Ans /\ b.hs = a.hs /\ b.os = a.os /\ b.h = hh /\ b.sel = nn
        /\ SameOut(b, a)
    BY <1>0, <2>1, <2>2 DEF Ans, SameOut
  <2> QED
    BY <2>3 DEF hh, nn
<1> HIDE DEF b
<1>4. Len(b.h) = Len(a.h) + 1 /\ Len(b.h) \in Nat /\ Len(a.h) <= Len(b.h)
  BY <1>0, <1>1, <1>3
<1>5. ListOf(b.hs, Len(b.h)) /\ ListOf(b.os, Len(b.h))
  BY <1>0, <1>3, <1>4, ListGrows
<1>6. b.sel \in 1..Len(b.h) /\ b.sel \notin 1..Len(a.h)
  BY <1>0, <1>3, <1>4
<1>7. Elems(b.hs) \subseteq 1..Len(a.h) /\ Elems(b.os) \subseteq 1..Len(a.h)
  BY <1>0, <1>3, ListElems
<1>8. \A i \in 1..Len(h) : b.h[i].disabled <=> h[i].disabled
  <2>1. \A i \in 1..Len(h) : i \in 1..Len(a.h)
    BY <1>0
  <2> QED
    BY <2>1, <1>0, <1>1, <1>3
<1>9. Len(h) <= Len(b.h)
  BY <1>0, <1>4
<1>10. AnsInv(b)
  BY <1>0, <1>3, <1>5, <1>8, <1>9 DEF AnsInv
<1>11. Free(b) /\ b.sel \notin Elems(b.hs)
  BY <1>6, <1>7 DEF Free
<1> QED
  BY <1>3, <1>10, <1>11 DEF b

(* get_handler_for_media gives a handler behind no line, or none. *)
LEMMA HandlerForMediaKeeps ==
  ASSUME NEW a, AnsInv(a), Len(h) \in Nat, NEW m \in Media
  PROVE  LET b == HandlerForMedia(a, m)
         IN  AnsInv(b) /\ SameOut(b, a) /\ b.os = a.os /\ (b.sel = 0 \/ Free(b))
<1> DEFINE S == {i \in DOMAIN a.h : /\ ~a.h[i].negotiated /\ a.h[i].kind = m.kind
                                    /\ i \notin Elems(a.os)}
           free == Those(a.hs, S)
           c == Make(a, NewHandler(m.kind, FALSE))
           d == [c EXCEPT !.hs = Append(c.hs, c.sel)]
           b == HandlerForMedia(a, m)
<1>0. /\ a \in Ans /\ Len(a.h) \in Nat
      /\ ListOf(a.hs, Len(a.h)) /\ ListOf(a.os, Len(a.h))
  BY AnsParts DEF AnsInv
<1>1. ListOf(free, Len(a.h)) /\ Elems(free) = Elems(a.hs) \cap S
  BY <1>0, ListLeft
<1>2. \/ free # <<>> /\ b = [a EXCEPT !.sel = free[1]]
      \/ b = [a EXCEPT !.sel = 0]
      \/ b = d
  BY DEF HandlerForMedia
<1>3. ASSUME free # <<>>, b = [a EXCEPT !.sel = free[1]]
      PROVE  AnsInv(b) /\ SameOut(b, a) /\ b.os = a.os /\ Free(b)
  <2>1. free[1] \in 1..Len(a.h) /\ free[1] \notin Elems(a.os) /\ free[1] \in Nat
    <3>1. 1 \in 1..Len(free)
      <4>1. free \in Seq(1..Len(a.h))
        BY <1>1 DEF ListOf
      <4> HIDE DEF free
      <4> QED
        BY <4>1, <1>3, EmptySeq
    <3>2. free[1] \in Elems(free) /\ free[1] \in 1..Len(a.h)
      BY <3>1, <1>0, <1>1, ListElems
    <3>3. free[1] \in S
      BY <3>2, <1>1
    <3> HIDE DEF free
    <3> QED
      BY <3>2, <3>3
  <2> DEFINE i == free[1]
             e == [a EXCEPT !.sel = i]
  <2>2. e = b
    BY <1>3
  <2> HIDE DEF i, b
  <2>3. i \in Nat
    BY <2>1 DEF i
  <2>4. AnsInv(e) /\ SameOut(e, a) /\ e.os = a.os /\ e.h = a.h /\ e.sel = i
    BY <2>3, SelectKeeps
  <2> HIDE DEF e
  <2>5. Free(e)
    BY <2>1, <2>4 DEF Free, i
  <2> QED
    BY <2>2, <2>4, <2>5
<1>4. ASSUME b = [a EXCEPT !.sel = 0]
      PROVE  AnsInv(b) /\ SameOut(b, a) /\ b.os = a.os /\ b.sel = 0
  <2>1. 0 \in Nat
    OBVIOUS
  <2> QED
    BY <1>4, <2>1, SelectKeeps
<1>5. AnsInv(d) /\ SameOut(d, a) /\ d.os = a.os /\ Free(d)
  <2>1. NewHandler(m.kind, FALSE) \in Handler
    BY NewHandlerType DEF Media
  <2>2. AnsInv(c) /\ SameOut(c, a) /\ Free(c) /\ c.os = a.os /\ c.sel \notin Elems(c.hs)
    BY <2>1, MakeKeeps
  <2> HIDE DEF c
  <2>3. c \in Ans /\ Len(c.h) \in Nat /\ ListOf(c.hs, Len(c.h)) /\ c.sel \in 1..Len(c.h)
    BY <2>2, AnsParts DEF AnsInv, Free
  <2> DEFINE s == Append(c.hs, c.sel)
  <2>4. ListOf(s, Len(c.h)) /\ Elems(s) = Elems(c.hs) \cup {c.sel}
    BY <2>2, <2>3, ListAppended
  <2> HIDE DEF s
  <2>5. s \in Seq(Nat)
    BY <2>3, <2>4, ListNat
  <2>6. d = [c EXCEPT !.hs = s]
    BY DEF s
  <2> HIDE DEF d
  <2>7. /\ d \in Ans /\ d.hs = s /\ d.os = c.os /\ d.h = c.h /\ d.sel = c.sel
        /\ SameOut(d, c)
    BY <2>3, <2>5, <2>6, AnsSet
  <2>8. AnsInv(d)
    BY <2>2, <2>4, <2>7 DEF AnsInv
  <2>9. SameOut(d, a) /\ Free(d) /\ d.os = a.os
    BY <2>2, <2>7 DEF SameOut, Free
  <2> QED
    BY <2>8, <2>9
<1> HIDE DEF free, d, b
<1>6. AnsInv(b) /\ SameOut(b, a) /\ b.os = a.os /\ (b.sel = 0 \/ Free(b))
  BY <1>2, <1>3, <1>4, <1>5
<1> QED
  BY <1>6 DEF b

(* ...and an internal handler otherwise. *)
LEMMA OrRejectKeeps ==
  ASSUME NEW a, AnsInv(a), Len(h) \in Nat, NEW m \in Media, a.sel = 0 \/ Free(a)
  PROVE  LET b == OrReject(a, m)
         IN  AnsInv(b) /\ SameOut(b, a) /\ Free(b) /\ b.os = a.os
<1>1. CASE a.sel = 0
  <2>1. NewHandler(m.kind, TRUE) \in Handler
    BY NewHandlerType DEF Media
  <2>2. OrReject(a, m) = Make(a, NewHandler(m.kind, TRUE))
    BY <1>1 DEF OrReject
  <2> QED
    BY <2>1, <2>2, MakeKeeps
<1>2. CASE a.sel # 0
  BY <1>2 DEF OrReject, SameOut
<1> QED
  BY <1>1, <1>2

(* A handler for a line that has none yet. *)
LEMMA NewLineKeeps ==
  ASSUME NEW a, AnsInv(a), Len(h) \in Nat, NEW m \in Media
  PROVE  LET b == OrReject(HandlerForMedia(a, m), m)
         IN  AnsInv(b) /\ SameOut(b, a) /\ Free(b) /\ b.os = a.os
<1> DEFINE c == HandlerForMedia(a, m)
           b == OrReject(c, m)
<1>1. AnsInv(c) /\ SameOut(c, a) /\ c.os = a.os /\ (c.sel = 0 \/ Free(c))
  BY HandlerForMediaKeeps
<1> HIDE DEF c
<1>2. AnsInv(b) /\ SameOut(b, c) /\ Free(b) /\ b.os = c.os
  BY <1>1, OrRejectKeeps
<1> HIDE DEF b
<1>3. AnsInv(b) /\ SameOut(b, a) /\ Free(b) /\ b.os = a.os
  BY <1>1, <1>2 DEF SameOut
<1> QED
  BY <1>3 DEF b, c

(* A handler behind no line may take the place of the one behind a line. *)
LEMMA ListReplaced ==
  ASSUME NEW n \in Nat, NEW s, ListOf(s, n), NEW i \in 1..n, i \notin Elems(s),
         NEW p \in DOMAIN s
  PROVE  LET t == [s EXCEPT ![p] = i]
         IN  ListOf(t, n) /\ Len(t) = Len(s) /\ i \in Elems(t)
<1> DEFINE t == [s EXCEPT ![p] = i]
<1>1. s \in Seq(1..n) /\ Distinct(s)
  BY DEF ListOf
<1>2. DOMAIN s = 1..Len(s) /\ \A q \in DOMAIN s : s[q] \in Elems(s)
  BY ListElems
<1>3. /\ t \in Seq(1..n) /\ Len(t) = Len(s)
      /\ \A q \in 1..Len(s) : t[q] = IF q = p THEN i ELSE s[q]
  BY <1>1, <1>2, ExceptSeq
<1>4. DOMAIN t = 1..Len(s)
  BY <1>2
<1> HIDE DEF t
<1>5. Distinct(t)
  <2> SUFFICES ASSUME NEW q \in 1..Len(s), NEW r \in 1..Len(s), t[q] = t[r]
               PROVE  q = r
    BY <1>4 DEF Distinct
  <2>1. s[q] # i /\ s[r] # i
    BY <1>2
  <2>2. (t[q] = IF q = p THEN i ELSE s[q]) /\ (t[r] = IF r = p THEN i ELSE s[r])
    BY <1>3
  <2>3. s[q] = s[r] => q = r
    BY <1>1, <1>2 DEF Distinct
  <2> QED
    BY <2>1, <2>2, <2>3
<1>6. i \in Elems(t)
  <2>1. p \in DOMAIN t /\ t[p] = i
    BY <1>2, <1>3, <1>4
  <2> QED
    BY <2>1 DEF Elems
<1> QED
  BY <1>3, <1>5, <1>6 DEF ListOf, t

(* replace_offered_handler puts a handler behind a line that was behind none. *)
LEMMA ReplaceKeeps ==
  ASSUME NEW a, AnsInv(a), Len(h) \in Nat, NEW m \in Media, NEW p \in DOMAIN a.os
  PROVE  LET b == ReplaceOfferedHandler(a, p, m)
         IN  /\ AnsInv(b) /\ SameOut(b, a) /\ Len(b.os) = Len(a.os)
             /\ b.sel \in 1..Len(b.h) /\ b.sel \in Elems(b.os)
<1> DEFINE c == OrReject(HandlerForMedia(a, m), m)
           d == [c EXCEPT !.os[p] = c.sel]
           b == ReplaceOfferedHandler(a, p, m)
<1>0. b = d
  BY DEF ReplaceOfferedHandler
<1>1. AnsInv(c) /\ SameOut(c, a) /\ Free(c) /\ c.os = a.os
  BY NewLineKeeps
<1> HIDE DEF c
<1>2. c \in Ans /\ Len(c.h) \in Nat /\ ListOf(c.os, Len(c.h)) /\ c.sel \in 1..Len(c.h)
  BY <1>1, AnsParts DEF AnsInv, Free
<1> DEFINE s == [c.os EXCEPT ![p] = c.sel]
<1>3. ListOf(s, Len(c.h)) /\ Len(s) = Len(c.os) /\ c.sel \in Elems(s)
  BY <1>1, <1>2, ListReplaced DEF Free
<1>4. d = [c EXCEPT !.os = s]
  BY <1>2 DEF Ans
<1> HIDE DEF s, d
<1>5. s \in Seq(Nat)
  BY <1>2, <1>3, ListNat
<1>6. /\ d \in Ans /\ d.hs = c.hs /\ d.os = s /\ d.h = c.h /\ d.sel = c.sel
      /\ SameOut(d, c)
  BY <1>2, <1>4, <1>5, AnsSet
<1>7. AnsInv(d)
  BY <1>1, <1>3, <1>6 DEF AnsInv
<1>8. /\ SameOut(d, a) /\ Len(d.os) = Len(a.os)
      /\ d.sel \in 1..Len(d.h) /\ d.sel \in Elems(d.os)
  BY <1>1, <1>2, <1>3, <1>6 DEF SameOut
<1> QED
  BY <1>0, <1>7, <1>8

(* Setting a handler leaves the others, and which of the agent's are removed. *)
LEMMA HandlerReplaced ==
  ASSUME NEW a, AnsInv(a), Len(h) \in Nat, NEW i \in 1..Len(a.h), NEW g \in Handler,
         g.disabled <=> a.h[i].disabled
  PROVE  LET t == [a.h EXCEPT ![i] = g]
         IN  /\ t \in Seq(Handler) /\ Len(t) = Len(a.h)
             /\ \A j \in 1..Len(h) : t[j].disabled <=> h[j].disabled
<1> DEFINE t == [a.h EXCEPT ![i] = g]
<1>1. /\ a.h \in Seq(Handler) /\ Len(a.h) \in Nat /\ Len(h) <= Len(a.h)
      /\ \A j \in 1..Len(h) : a.h[j].disabled <=> h[j].disabled
  BY AnsParts DEF AnsInv
<1>2. /\ t \in Seq(Handler) /\ Len(t) = Len(a.h)
      /\ \A j \in 1..Len(a.h) : t[j] = IF j = i THEN g ELSE a.h[j]
  BY <1>1, ExceptSeq
<1> HIDE DEF t
<1>3. ASSUME NEW j \in 1..Len(h)
      PROVE  t[j].disabled <=> h[j].disabled
  <2>1. j \in 1..Len(a.h)
    BY <1>1
  <2>2. t[j] = g \/ t[j] = a.h[j]
    BY <1>2, <2>1
  <2>3. t[j] = g => j = i \/ t[j] = a.h[j]
    BY <1>2, <2>1
  <2> QED
    BY <1>1, <2>2, <2>3
<1> QED
  BY <1>2, <1>3 DEF t

(* get_proper_handler leaves the handler of the line, or puts another one there. *)
LEMMA ProperKeeps ==
  ASSUME NEW a, AnsInv(a), Len(h) \in Nat, NEW m \in Media, NEW p \in DOMAIN a.os
  PROVE  LET b == ProperHandler(a, p, m)
         IN  /\ AnsInv(b) /\ SameOut(b, a) /\ Len(b.os) = Len(a.os)
             /\ b.sel \in 1..Len(b.h) /\ b.sel \in Elems(b.os)
<1> DEFINE i == a.os[p]
           g == [a.h[i] EXCEPT !.negotiated = FALSE, !.rejected = FALSE, !.offer = FALSE]
           t == [a.h EXCEPT ![i] = g]
           c == [a EXCEPT !.h[i] = [@ EXCEPT !.negotiated = FALSE, !.rejected = FALSE,
                                             !.offer = FALSE], !.sel = i]
           d == [a EXCEPT !.sel = i]
           b == ProperHandler(a, p, m)
<1>0. /\ a \in Ans /\ Len(a.h) \in Nat /\ DOMAIN a.h = 1..Len(a.h)
      /\ \A j \in 1..Len(a.h) : a.h[j] \in Handler
      /\ ListOf(a.os, Len(a.h))
  BY AnsParts DEF AnsInv
<1>1. i \in 1..Len(a.h) /\ i \in Elems(a.os) /\ i \in Nat
  <2>1. i \in 1..Len(a.h) /\ i \in Elems(a.os)
    BY <1>0, ListElems
  <2> QED
    BY <2>1
<1>2. g \in Handler /\ (g.disabled <=> a.h[i].disabled)
  <2>1. a.h[i] \in Handler /\ FALSE \in BOOLEAN /\ 1 \in Nat \ {0}
    BY <1>0, <1>1
  <2> QED
    BY <2>1, HandlerSet
<1>3. b = d \/ b = c \/ b = ReplaceOfferedHandler(c, p, m)
  BY DEF ProperHandler
<1>4. AnsInv(d) /\ SameOut(d, a) /\ d.os = a.os /\ d.sel = i /\ d.h = a.h
  <2> HIDE DEF i
  <2> QED
    BY <1>1, SelectKeeps
<1>5. AnsInv(c) /\ SameOut(c, a) /\ c.os = a.os /\ c.sel = i /\ Len(c.h) = Len(a.h)
  <2>1. /\ t \in Seq(Handler) /\ Len(t) = Len(a.h)
        /\ \A j \in 1..Len(h) : t[j].disabled <=> h[j].disabled
    <3> HIDE DEF i, g
    <3> QED
      BY <1>1, <1>2, HandlerReplaced
  <2>2. c = [a EXCEPT !.h = t, !.sel = i]
    <3> HIDE DEF i
    <3> QED
      BY <1>0, <1>1 DEF Ans
  <2> HIDE DEF t, c, i
  <2>3. /\ c \in Ans /\ c.hs = a.hs /\ c.os = a.os /\ c.h = t /\ c.sel = i
        /\ SameOut(c, a)
    BY <1>0, <1>1, <2>1, <2>2 DEF Ans, SameOut
  <2> QED
    BY <2>1, <2>3 DEF AnsInv
<1> HIDE DEF b, c, d, i
<1> DEFINE Done == /\ AnsInv(b) /\ SameOut(b, a) /\ Len(b.os) = Len(a.os)
                   /\ b.sel \in 1..Len(b.h) /\ b.sel \in Elems(b.os)
<1>6. ASSUME b = d
      PROVE  Done
  BY <1>1, <1>4, <1>6
<1>7. ASSUME b = c
      PROVE  Done
  BY <1>1, <1>5, <1>7
<1>8. ASSUME b = ReplaceOfferedHandler(c, p, m)
      PROVE  Done
  <2>1. p \in DOMAIN c.os
    BY <1>5
  <2>2. /\ AnsInv(b) /\ SameOut(b, c) /\ Len(b.os) = Len(c.os)
        /\ b.sel \in 1..Len(b.h) /\ b.sel \in Elems(b.os)
    BY <1>5, <1>8, <2>1, ReplaceKeeps
  <2> QED
    BY <1>5, <2>2 DEF SameOut
<1>9. Done
  BY <1>3, <1>6, <1>7, <1>8
<1> QED
  BY <1>9 DEF b

(* select_handler_to_answer_media: a handler of the list for a line in it and one that is
   behind no line for another. *)
LEMMA SelectHandlerKeeps ==
  ASSUME NEW a, AnsInv(a), Len(h) \in Nat, NEW m \in Media, NEW p
  PROVE  LET b == SelectHandler(a, p, m)
         IN  /\ AnsInv(b) /\ SameOut(b, a) /\ Len(b.os) = Len(a.os)
             /\ b.sel \in 1..Len(b.h)
             /\ b.sel \in Elems(b.os) <=> p \in DOMAIN a.os
<1> DEFINE b == SelectHandler(a, p, m)
<1>1. CASE p \in DOMAIN a.os
  <2>1. b = ProperHandler(a, p, m)
    BY <1>1 DEF SelectHandler
  <2> HIDE DEF b
  <2>2. /\ AnsInv(b) /\ SameOut(b, a) /\ Len(b.os) = Len(a.os)
        /\ b.sel \in 1..Len(b.h) /\ b.sel \in Elems(b.os)
    BY <1>1, <2>1, ProperKeeps
  <2> QED
    BY <1>1, <2>2 DEF b
<1>2. CASE p \notin DOMAIN a.os
  <2>1. b = OrReject(HandlerForMedia(a, m), m)
    BY <1>2 DEF SelectHandler
  <2> HIDE DEF b
  <2>2. AnsInv(b) /\ SameOut(b, a) /\ Free(b) /\ b.os = a.os
    BY <2>1, NewLineKeeps
  <2> QED
    BY <1>2, <2>2 DEF b, Free
<1> QED
  BY <1>1, <1>2

(* The media agreed with a handler is a media of one of the two descriptions. *)
LEMMA AgreedType ==
  ASSUME localDesc \in Sdp, remoteDesc \in Seq(Media), NEW g, NegotiatedMedia(g) # <<>>
  PROVE  NegotiatedMedia(g)[1] \in Media /\ Rejected(NegotiatedMedia(g)[1]) \in Media
<1> DEFINE desc == IF g.offer THEN remoteDesc ELSE localDesc.medias
<1>1. desc \in Seq(Media)
  BY DEF Sdp
<1>2. g.index \in DOMAIN desc /\ NegotiatedMedia(g) = <<desc[g.index]>>
  BY DEF NegotiatedMedia
<1> HIDE DEF desc
<1>3. desc[g.index] \in Media
  BY <1>1, <1>2, LenProperties
<1>4. NegotiatedMedia(g)[1] \in Media
  BY <1>2, <1>3
<1>5. ASSUME NEW x \in Media
      PROVE  Rejected(x) \in Media
  BY DEF Rejected, Media
<1> QED
  BY <1>4, <1>5

(* What is true after the first p media: as many are answered, and each has a handler. *)
AnsAt(a, p) == AnsInv(a) /\ (a.ok => Len(a.out) = p /\ Len(a.os) >= p)

(* create_media_answer. *)
LEMMA AnswerMediaKeeps ==
  ASSUME localDesc \in Sdp, remoteDesc \in Seq(Media), Len(h) \in Nat,
         NEW p \in Nat \ {0}, NEW a, AnsAt(a, p - 1), a.ok, NEW m \in Media, NEW reply
  PROVE  AnsAt(AnswerMedia(a, p, m, reply), p)
<1> DEFINE b == SelectHandler(a, p, m)
           g == b.h[b.sel]
           agreed == NegotiatedMedia(g)
           known == b.sel \in Elems(b.os)
           os == IF known THEN b.os ELSE Append(b.os, b.sel)
           k == IF known THEN g.index ELSE p
           e == [g EXCEPT !.index = k]
           t == [b.h EXCEPT ![b.sel] = e]
           Answered(x) == [b EXCEPT !.out = Append(@, x),
                                    !.os = IF known THEN @ ELSE Append(@, b.sel),
                                    !.h[b.sel].index = IF known THEN @ ELSE p]
           r == AnswerMedia(a, p, m, reply)
<1>0. /\ AnsInv(a) /\ Len(a.out) = p - 1 /\ Len(a.os) >= p - 1
      /\ ListOf(a.os, Len(a.h)) /\ Len(a.h) \in Nat
  BY AnsParts DEF AnsAt, AnsInv
<1>1. /\ AnsInv(b) /\ SameOut(b, a) /\ Len(b.os) = Len(a.os)
      /\ b.sel \in 1..Len(b.h)
      /\ b.sel \in Elems(b.os) <=> p \in DOMAIN a.os
  BY <1>0, SelectHandlerKeeps
<1>2. r = [b EXCEPT !.ok = FALSE] \/ \E x \in Media : r = Answered(x)
  <2>1. ASSUME agreed # <<>>
        PROVE  Rejected(agreed[1]) \in Media
    BY <2>1, AgreedType
  <2>2. Rejected(m) \in Media
    BY DEF Rejected, Media
  <2>3. [m EXCEPT !.on = reply = "accept" \/ g.kind \notin RtpKinds] \in Media
    BY DEF Media
  <2> DEFINE x1 == Rejected(agreed[1])
             x2 == Rejected(m)
             x3 == [m EXCEPT !.on = reply = "accept" \/ g.kind \notin RtpKinds]
             fail == [b EXCEPT !.ok = FALSE]
  <2>4. r = fail \/ (agreed # <<>> /\ r = Answered(x1)) \/ r = Answered(x2) \/ r = Answered(x3)
    <3>1. r = IF ~m.on /\ g.negotiated
              THEN IF agreed = <<>> THEN fail ELSE Answered(x1)
              ELSE IF ~m.on \/ g.unsupported THEN Answered(x2)
              ELSE IF reply = "fail" \/ (g.kind \in RtpKinds) # (m.kind \in RtpKinds)
              THEN fail ELSE Answered(x3)
      BY Zenon DEF AnswerMedia
    <3> HIDE DEF Answered, x1, x2, x3, fail, agreed, r, b
    <3> QED
      BY <3>1
  <2> HIDE DEF Answered, r, agreed
  <2> QED
    BY <2>1, <2>2, <2>3, <2>4
<1> HIDE DEF b, r
<1>3. /\ b \in Ans /\ Len(b.h) \in Nat /\ DOMAIN b.h = 1..Len(b.h) /\ g \in Handler
      /\ ListOf(b.os, Len(b.h)) /\ ListOf(b.hs, Len(b.h)) /\ b.out \in Seq(Media)
      /\ b.h \in Seq(Handler)
  BY <1>1, AnsParts DEF AnsInv
<1>4. ASSUME r = [b EXCEPT !.ok = FALSE]
      PROVE  AnsAt(r, p)
  <2>1. <<>> \in Seq(Nat) /\ 0 \in Nat
    BY EmptySeq
  <2>2. /\ r \in Ans /\ r.hs = b.hs /\ r.os = b.os /\ r.h = b.h /\ ~r.ok
    BY <1>3, <1>4, <2>1, AnsSet
  <2>3. AnsInv(r)
    BY <1>1, <2>2 DEF AnsInv
  <2> QED
    BY <2>2, <2>3 DEF AnsAt
<1>5. ASSUME NEW x \in Media, r = Answered(x)
      PROVE  AnsAt(r, p)
  <2>1. ListOf(os, Len(b.h)) /\ Len(os) >= p
    <3>1. Len(a.os) \in Nat /\ DOMAIN a.os = 1..Len(a.os)
      BY <1>0, ListElems
    <3>2. CASE known
      BY <3>1, <3>2, <1>0, <1>1, <1>3
    <3>3. CASE ~known
      <4>1. /\ ListOf(Append(b.os, b.sel), Len(b.h))
            /\ Len(Append(b.os, b.sel)) = Len(b.os) + 1
        BY <3>3, <1>1, <1>3, ListAppended
      <4> QED
        BY <3>1, <3>3, <4>1, <1>0, <1>1
    <3> QED
      BY <3>2, <3>3
  <2>2. e \in Handler /\ (e.disabled <=> g.disabled)
    <3>1. k \in Nat \ {0}
      BY <1>3 DEF Handler
    <3>2. TRUE \in BOOLEAN
      OBVIOUS
    <3> HIDE DEF g, k
    <3> QED
      BY <3>1, <3>2, <1>3, HandlerSet
  <2>3. /\ t \in Seq(Handler) /\ Len(t) = Len(b.h)
        /\ \A j \in 1..Len(h) : t[j].disabled <=> h[j].disabled
    <3> HIDE DEF e
    <3> QED
      BY <2>2, <1>1, HandlerReplaced
  <2>4. r = [b EXCEPT !.out = Append(b.out, x), !.os = os, !.h = t]
    BY <1>3, <1>5 DEF Ans, Handler
  <2>5. /\ Append(b.out, x) \in Seq(Media) /\ Len(Append(b.out, x)) = Len(b.out) + 1
    BY <1>3, AppendProperties
  <2> DEFINE out == Append(b.out, x)
  <2>6. os \in Seq(Nat)
    BY <1>3, <2>1, ListNat
  <2> HIDE DEF os, t, out, known
  <2>7. /\ r \in Ans /\ r.hs = b.hs /\ r.os = os /\ r.h = t /\ r.out = out
    BY <1>3, <2>3, <2>4, <2>5, <2>6 DEF Ans, out
  <2>8. AnsInv(r)
    BY <1>1, <2>1, <2>3, <2>7 DEF AnsInv
  <2>9. Len(r.out) = p
    BY <1>0, <1>1, <2>5, <2>7 DEF SameOut, out
  <2> QED
    BY <2>1, <2>7, <2>8, <2>9 DEF AnsAt
<1> QED
  BY <1>2, <1>4, <1>5 DEF r

(* One turn of the loop over the media offered. *)
Turn(a, p, replies) == IF ~a.ok THEN a ELSE AnswerMedia(a, p, remoteDesc[p], replies[p])
Start == [hs |-> handlers, os |-> offerHandlers, h |-> h, out |-> <<>>, ok |-> TRUE, sel |-> 0]
IsAnswer(f, replies, k) ==
  f = [p \in 0..k |-> IF p = 0 THEN Start ELSE Turn(f[p - 1], p, replies)]
Answer(replies) == CHOOSE f : IsAnswer(f, replies, Len(remoteDesc))

(* The loop has a result for an offer of any length. *)
LEMMA AnswerExists ==
  ASSUME NEW replies, NEW len \in Nat
  PROVE  \E f : IsAnswer(f, replies, len)
<1> DEFINE Bad == {k \in Nat : ~\E f : IsAnswer(f, replies, k)}
<1>1. ASSUME Bad # {}
      PROVE  FALSE
  <2>1. PICK k \in Bad : \A j \in Bad : k <= j
    BY <1>1, Least
  <2>2. k # 0
    <3>1. IsAnswer([n \in 0..0 |-> Start], replies, 0)
      BY DEF IsAnswer
    <3> QED
      BY <3>1
  <2>3. k - 1 \in Nat /\ k - 1 \notin Bad
    BY <2>1, <2>2
  <2>4. PICK g : IsAnswer(g, replies, k - 1)
    BY <2>3
  <2> DEFINE f == [n \in 0..k |-> IF n = k THEN Turn(g[k - 1], k, replies) ELSE g[n]]
  <2>5. IsAnswer(f, replies, k)
    <3>1. ASSUME NEW n \in 0..k
          PROVE  f[n] = IF n = 0 THEN Start ELSE Turn(f[n - 1], n, replies)
      <4>1. CASE n = k
        <5>1. f[n] = Turn(g[k - 1], k, replies)
          BY <4>1
        <5>2. n - 1 \in 0..k /\ n - 1 # k
          BY <2>2, <4>1
        <5>3. f[n - 1] = g[k - 1]
          BY <5>2, <4>1
        <5> HIDE DEF f
        <5> QED
          BY <5>1, <5>3, <2>2, <4>1
      <4>2. CASE n # k
        <5>1. f[n] = g[n] /\ n \in 0..(k - 1)
          BY <4>2
        <5>2. g[n] = IF n = 0 THEN Start ELSE Turn(g[n - 1], n, replies)
          BY <2>4, <5>1 DEF IsAnswer
        <5>3. n # 0 => f[n - 1] = g[n - 1]
          BY <4>2
        <5> HIDE DEF f
        <5> QED
          BY <5>1, <5>2, <5>3
      <4> QED
        BY <4>1, <4>2
    <3>2. f = [n \in 0..k |-> f[n]]
      OBVIOUS
    <3> HIDE DEF f
    <3> QED
      BY <3>1, <3>2 DEF IsAnswer
  <2> HIDE DEF f
  <2> QED
    BY <2>5
<1> QED
  BY <1>1

(* generate_answer answers every media unless one fails, and whatever fails leaves the
   handlers and the two lists in order. *)
LEMMA AnswerRight ==
  ASSUME TypeOK, IdsInv, NEW replies
  PROVE  AnsAt(GenerateAnswer(replies), Len(remoteDesc))
<1> DEFINE f == Answer(replies)
           last == Len(remoteDesc)
           Bad == {p \in 0..last : ~AnsAt(f[p], p)}
<1>0. /\ last \in Nat /\ DOMAIN remoteDesc = 1..last
      /\ \A p \in 1..last : remoteDesc[p] \in Media
      /\ localDesc \in Sdp /\ remoteDesc \in Seq(Media)
      /\ h \in Seq(Handler) /\ Len(h) \in Nat
      /\ handlers \in Seq(Nat) /\ offerHandlers \in Seq(Nat)
  <2>1. /\ localDesc \in Sdp /\ remoteDesc \in Seq(Media) /\ h \in Seq(Handler)
        /\ handlers \in Seq(Nat) /\ offerHandlers \in Seq(Nat)
    BY DEF TypeOK
  <2> QED
    BY <2>1, LenProperties, ElementOfSeq
<1>1. GenerateAnswer(replies) = f[last]
  BY DEF GenerateAnswer, Answer, IsAnswer, Turn, Start
<1>2. IsAnswer(f, replies, last)
  BY AnswerExists, <1>0, Zenon DEF Answer
<1>3. \A p \in 0..last : f[p] = IF p = 0 THEN Start ELSE Turn(f[p - 1], p, replies)
  BY <1>2, Zenon DEF IsAnswer
<1> HIDE DEF f
<1>4. AnsAt(f[0], 0)
  <2>1. f[0] = Start
    BY <1>0, <1>3
  <2>2. <<>> \in Seq(Media) /\ Len(<<>>) = 0
    BY EmptySeq
  <2>3. Start \in Ans
    BY <1>0, <2>2 DEF Start, Ans
  <2>4. /\ Start.hs = handlers /\ Start.os = offerHandlers /\ Start.h = h
        /\ Start.out = <<>>
    BY DEF Start
  <2>5. Len(offerHandlers) >= 0
    BY <1>0, LenProperties
  <2>6. Len(h) <= Len(h)
    BY <1>0
  <2>7. AnsInv(Start)
    BY <2>3, <2>4, <2>6 DEF AnsInv, IdsInv
  <2> QED
    BY <2>1, <2>2, <2>4, <2>5, <2>7 DEF AnsAt
<1>5. ASSUME NEW p \in 1..last, AnsAt(f[p - 1], p - 1)
      PROVE  AnsAt(f[p], p)
  <2>1. f[p] = Turn(f[p - 1], p, replies) /\ p \in Nat \ {0} /\ remoteDesc[p] \in Media
    BY <1>0, <1>3
  <2>2. CASE f[p - 1].ok
    <3>1. f[p] = AnswerMedia(f[p - 1], p, remoteDesc[p], replies[p])
      BY <2>1, <2>2 DEF Turn
    <3> QED
      BY <3>1, <2>1, <2>2, <1>0, <1>5, AnswerMediaKeeps
  <2>3. CASE ~f[p - 1].ok
    <3>1. f[p] = f[p - 1]
      BY <2>1, <2>3 DEF Turn
    <3> QED
      BY <3>1, <2>3, <1>5 DEF AnsAt
  <2> QED
    BY <2>2, <2>3
<1>6. ASSUME Bad # {}
      PROVE  FALSE
  <2>1. Bad \in SUBSET Nat
    BY <1>0
  <2>2. PICK k \in Bad : \A j \in Bad : k <= j
    BY <1>6, <2>1, Least
  <2>3. k \in 1..last
    BY <1>0, <1>4
  <2>4. k - 1 \in 0..last /\ k - 1 \notin Bad
    BY <1>0, <2>2, <2>3
  <2> QED
    BY <1>5, <2>3, <2>4
<1>7. last \in 0..last
  BY <1>0
<1> QED
  BY <1>1, <1>6, <1>7

-----------------------------------------------------------------------------
(* The inductive invariant.                                                *)

(* What the user has registered and not removed. *)
Registered == {i \in Elems(handlers) : ~h[i].disabled}

(* Facts that every step needs. *)
LEMMA InvFacts ==
  ASSUME AgentInv
  PROVE  /\ h \in Seq(Handler) /\ Len(h) \in Nat /\ DOMAIN h = 1..Len(h)
         /\ \A i \in 1..Len(h) : h[i] \in Handler
         /\ ListOf(handlers, Len(h)) /\ ListOf(offerHandlers, Len(h))
         /\ Elems(handlers) \subseteq 1..Len(h)
         /\ localDesc \in Sdp /\ remoteDesc \in Seq(Media) /\ made \in Sdp
<1>1. /\ h \in Seq(Handler) /\ ListOf(handlers, Len(h)) /\ ListOf(offerHandlers, Len(h))
      /\ localDesc \in Sdp /\ remoteDesc \in Seq(Media) /\ made \in Sdp
  BY DEF AgentInv, TypeOK, IdsInv
<1>2. Len(h) \in Nat /\ DOMAIN h = 1..Len(h) /\ \A i \in 1..Len(h) : h[i] \in Handler
  BY <1>1, LenProperties, ElementOfSeq
<1> QED
  BY <1>1, <1>2, ListElems

(* The parts of a description; the missing one is a description without media. *)
LEMMA SdpParts ==
  /\ NoSdp \in Sdp /\ NoSdp.ver = 0
  /\ \A d \in Sdp : d.ver \in 0..MaxVersion /\ d.medias \in Seq(Media)
  /\ \A v \in 0..MaxVersion, ms \in Seq(Media) :
       LET d == [ver |-> v, medias |-> ms] IN d \in Sdp /\ d.ver = v /\ d.medias = ms
<1>1. 0 \in 0..MaxVersion /\ <<>> \in Seq(Media)
  BY AgentAssumption, EmptySeq
<1> QED
  BY <1>1 DEF Sdp, NoSdp

(* The lists and handlers of the next state. *)
LEMMA ListsNext ==
  ASSUME h' \in Seq(Handler), ListOf(handlers', Len(h')), ListOf(offerHandlers', Len(h'))
  PROVE  /\ IdsInv'
         /\ handlers' \in Seq(Nat) /\ offerHandlers' \in Seq(Nat)
         /\ Registered' \subseteq Nat
<1>1. Len(h') \in Nat
  BY LenProperties
<1>2. Elems(handlers') \subseteq 1..Len(h')
  BY <1>1, ListElems
<1>3. Registered' \subseteq Nat
  BY <1>1, <1>2 DEF Registered
<1>4. handlers' \in Seq(Nat) /\ offerHandlers' \in Seq(Nat)
  BY <1>1, ListNat
<1> QED
  BY <1>3, <1>4 DEF IdsInv

(* A step that neither registers nor removes a handler leaves what is registered. *)
LEMMA RegisteredSame ==
  ASSUME AgentInv, handlers' = handlers,
         \A i \in 1..Len(h) : h'[i].disabled <=> h[i].disabled
  PROVE  Registered' = Registered
<1>1. Elems(handlers') = Elems(handlers) /\ Elems(handlers) \subseteq 1..Len(h)
  BY InvFacts DEF Elems
<1> QED
  BY <1>1 DEF Registered

(* Committing a negotiation forgets the removed handlers, which are not registered. *)
LEMMA CommitKeeps ==
  ASSUME AgentInv, NEW hs, SameHandlers(hs), CommitNegotiated(hs),
         offerHandlers' = offerHandlers
  PROVE  /\ h' \in Seq(Handler) /\ IdsInv'
         /\ handlers' \in Seq(Nat) /\ offerHandlers' \in Seq(Nat)
         /\ Registered' = Registered
<1>1. /\ h' \in Seq(Handler) /\ Len(h') = Len(h)
      /\ \A i \in 1..Len(h) : h'[i].disabled <=> h[i].disabled
      /\ ListOf(handlers', Len(h))
      /\ Elems(handlers') = {i \in Elems(handlers) : ~h[i].disabled}
  BY InvFacts, CommitRight
<1>2. ListOf(offerHandlers', Len(h'))
  BY <1>1, InvFacts
<1>3. /\ IdsInv' /\ handlers' \in Seq(Nat) /\ offerHandlers' \in Seq(Nat)
  BY <1>1, <1>2, ListsNext
<1>4. Elems(handlers) \subseteq 1..Len(h)
  BY InvFacts
<1>5. Registered' = Registered
  BY <1>1, <1>4 DEF Registered
<1> QED
  BY <1>1, <1>3, <1>5

(* The handlers as they are. *)
LEMMA SameItself ==
  ASSUME AgentInv
  PROVE  SameHandlers(h)
BY InvFacts DEF SameHandlers

-----------------------------------------------------------------------------
(* Each operation keeps the invariant.                                     *)

(* add_proto_handler *)
LEMMA AddHandlerKeeps ==
  ASSUME AgentInv, NEW k \in Kinds, AddHandler(k)
  PROVE  AgentInv' /\ Registered' \subseteq Nat
<1> DEFINE g == NewHandler(k, FALSE)
           n == Len(h) + 1
<1>0. g \in Handler
  BY NewHandlerType
<1>1. h' \in Seq(Handler) /\ Len(h') = n /\ n \in Nat /\ Len(h) \in Nat /\ Len(h) <= n
  <2>1. h \in Seq(Handler) /\ Len(h) \in Nat /\ h' = Append(h, g)
    BY InvFacts DEF AddHandler
  <2> HIDE DEF g
  <2> QED
    BY <1>0, <2>1, AppendProperties
<1>2. ListOf(offerHandlers', Len(h'))
  BY <1>1, InvFacts, ListGrows DEF AddHandler
<1>3. ListOf(handlers', Len(h'))
  <2>1. ListOf(handlers, n) /\ Elems(handlers) \subseteq 1..Len(h)
    BY <1>1, InvFacts, ListGrows
  <2>2. n \in 1..n /\ n \notin Elems(handlers)
    BY <1>1, <2>1
  <2>3. handlers' = Append(handlers, n)
    BY <1>1 DEF AddHandler
  <2> HIDE DEF n
  <2> QED
    BY <1>1, <2>1, <2>2, <2>3, ListAppended
<1>4. /\ IdsInv' /\ handlers' \in Seq(Nat) /\ offerHandlers' \in Seq(Nat)
      /\ Registered' \subseteq Nat
  BY <1>1, <1>2, <1>3, ListsNext
<1>5. TypeOK'
  BY <1>1, <1>4 DEF AgentInv, TypeOK, AddHandler, descs
<1>6. LinesMade' /\ VersionInv'
  BY DEF AgentInv, LinesMade, HandlerPerMedia, Answering, VersionInv, AddHandler, descs, Quiet
<1> QED
  BY <1>4, <1>5, <1>6 DEF AgentInv

(* remove_proto_handler *)
LEMMA RemoveHandlerKeeps ==
  ASSUME AgentInv, NEW i \in DOMAIN h, RemoveHandler(i)
  PROVE  AgentInv' /\ Registered' \subseteq Nat
<1>1. /\ h' \in Seq(Handler) /\ ListOf(handlers', Len(h')) /\ Len(h') = Len(h)
  <2>1. CASE h[i].negotiated
    <3> DEFINE g == [h[i] EXCEPT !.disabled = TRUE]
    <3>1. h' = [h EXCEPT ![i] = g] /\ handlers' = handlers
      BY <2>1 DEF RemoveHandler
    <3>2. g \in Handler
      <4>1. h[i] \in Handler /\ TRUE \in BOOLEAN /\ 1 \in Nat \ {0}
        BY InvFacts
      <4> QED
        BY <4>1, HandlerSet
    <3> HIDE DEF g
    <3>3. h \in Seq(Handler) /\ i \in 1..Len(h) /\ ListOf(handlers, Len(h))
      BY InvFacts
    <3> QED
      BY <3>1, <3>2, <3>3, ExceptSeq
  <2>2. CASE ~h[i].negotiated
    <3>1. h' = h /\ handlers' = Those(handlers, Elems(handlers) \ {i})
      BY <2>2 DEF RemoveHandler, Without
    <3> QED
      BY <3>1, InvFacts, ListLeft
  <2> QED
    BY <2>1, <2>2
<1>2. ListOf(offerHandlers', Len(h'))
  BY <1>1, InvFacts DEF RemoveHandler
<1>4. /\ IdsInv' /\ handlers' \in Seq(Nat) /\ offerHandlers' \in Seq(Nat)
      /\ Registered' \subseteq Nat
  BY <1>1, <1>2, ListsNext
<1>5. TypeOK'
  BY <1>1, <1>4 DEF AgentInv, TypeOK, RemoveHandler, descs
<1>6. LinesMade' /\ VersionInv'
  BY DEF AgentInv, LinesMade, HandlerPerMedia, Answering, VersionInv, RemoveHandler, descs, Quiet
<1> QED
  BY <1>4, <1>5, <1>6 DEF AgentInv

(* create_proper_media_offer gives a media when it gives anything. *)
LEMMA MediaOfferType ==
  ASSUME AgentInv, NEW list, NEW p, h[list[p]] \in Handler, MediaOffer(p, list) # <<>>
  PROVE  MediaOffer(p, list)[1] \in Media
<1> DEFINE g == h[list[p]]
           agreed == NegotiatedMedia(g)
           x1 == Rejected(agreed[1])
           x2 == [kind |-> g.kind, on |-> FALSE]
           x3 == [kind |-> g.kind, on |-> TRUE]
           x4 == [kind |-> g.kind, on |-> g.kind \in RtpKinds => localDesc.medias[p].on]
           In == p \in DOMAIN localDesc.medias
           mo == MediaOffer(p, list)
<1>1. \/ agreed # <<>> /\ mo = <<x1>>
      \/ mo = <<x2>> \/ mo = <<x3>>
      \/ In /\ mo = <<x4>>
  <2>1. mo = IF g.disabled \/ g.rejected
             THEN IF agreed = <<>> THEN <<>> ELSE <<x1>>
             ELSE IF g.unsupported THEN <<x2>>
             ELSE IF ~g.negotiated THEN <<x3>>
             ELSE IF ~In THEN <<>> ELSE <<x4>>
    BY Zenon DEF MediaOffer
  <2>2. mo # <<>>
    OBVIOUS
  <2> HIDE DEF g, agreed, x1, x2, x3, x4, In, mo
  <2> QED
    BY <2>1, <2>2
<1>2. agreed # <<>> => x1 \in Media
  BY InvFacts, AgreedType
<1>3. g.kind \in Kinds
  BY DEF Handler
<1>4. x2 \in Media /\ x3 \in Media
  BY <1>3 DEF Media
<1>5. x4 \in Media
  <2> DEFINE b == g.kind \in RtpKinds => localDesc.medias[p].on
  <2>1. b \in BOOLEAN
    OBVIOUS
  <2> HIDE DEF b, g
  <2> QED
    BY <1>3, <2>1 DEF Media, b
<1> HIDE DEF x1, x2, x3, x4, mo, agreed
<1>6. mo[1] \in Media
  BY <1>1, <1>2, <1>4, <1>5
<1> QED
  BY <1>6 DEF mo

(* create_offer: the description has a line for each handler of the list, and its version
   is at most one more than that of the description set before. *)
LEMMA CreateOfferKeeps ==
  ASSUME AgentInv, NEW changed \in BOOLEAN, CreateOffer(changed)
  PROVE  AgentInv' /\ Registered' = Registered
<1> DEFINE list == MergeOfferHandlers
           medias == [p \in DOMAIN list |-> MediaOffer(p, list)[1]]
           ver == OfferVersion(medias, changed)
<1>0. /\ state \in Quiet /\ state' = "local_offer" /\ rounds < MaxRounds /\ rounds' = rounds + 1
      /\ \A p \in DOMAIN list : MediaOffer(p, list) # <<>>
      /\ ver <= MaxVersion /\ offerHandlers' = list /\ h' = Offered(Len(list), list)
      /\ local' = ver /\ made' = [ver |-> ver, medias |-> medias]
      /\ handlers' = handlers /\ localDesc' = localDesc /\ remoteDesc' = remoteDesc
      /\ prevSdp' = prevSdp /\ remote' = remote
  BY DEF CreateOffer, Round, descs
<1>1. ListOf(list, Len(h))
  BY InvFacts, MergeIsList DEF AgentInv
<1> HIDE DEF list
<1>2. /\ Len(list) \in Nat /\ DOMAIN list = 1..Len(list)
      /\ \A p \in 1..Len(list) : list[p] \in 1..Len(h)
  BY <1>1, InvFacts, ListElems
<1>3. medias \in Seq(Media) /\ Len(medias) = Len(list)
  <2>1. ASSUME NEW p \in 1..Len(list)
        PROVE  MediaOffer(p, list)[1] \in Media
    <3>1. h[list[p]] \in Handler
      BY <1>2, InvFacts
    <3>2. MediaOffer(p, list) # <<>>
      BY <1>0, <1>2
    <3> QED
      BY <3>1, <3>2, MediaOfferType
  <2>2. medias \in [1..Len(list) -> Media]
    BY <1>2, <2>1
  <2> QED
    BY <1>2, <2>2
<1> HIDE DEF medias
<1>4. SameHandlers(h')
  BY <1>0, <1>2, InvFacts, OfferedSame
<1>5. /\ h' \in Seq(Handler) /\ Len(h') = Len(h)
      /\ \A i \in 1..Len(h) : h'[i].disabled <=> h[i].disabled
  BY <1>4 DEF SameHandlers
<1>6. /\ IdsInv' /\ handlers' \in Seq(Nat) /\ offerHandlers' \in Seq(Nat)
  BY <1>0, <1>1, <1>5, InvFacts, ListsNext
<1>7. Registered' = Registered
  BY <1>0, <1>5, RegisteredSame
<1>8. /\ ver \in 0..MaxVersion /\ ver >= 1
      /\ localDesc # NoSdp => ver \in {localDesc.ver, localDesc.ver + 1}
  <2>1. localDesc.ver \in Nat /\ (localDesc # NoSdp => localDesc.ver >= 1)
    BY InvFacts, SdpParts DEF AgentInv, VersionInv
  <2>2. /\ localDesc = NoSdp => ver = 1
        /\ localDesc # NoSdp => ver = localDesc.ver \/ ver = localDesc.ver + 1
    BY DEF OfferVersion
  <2>3. MaxVersion \in Nat
    BY AgentAssumption
  <2> HIDE DEF ver
  <2> QED
    BY <1>0, <2>1, <2>2, <2>3
<1> HIDE DEF ver
<1>9. made' \in Sdp /\ made'.ver = ver /\ made'.medias = medias
  BY <1>0, <1>3, <1>8, SdpParts
<1>10. TypeOK'
  <2>1. rounds' \in 0..MaxRounds
    BY <1>0, AgentAssumption DEF AgentInv, TypeOK
  <2> QED
    BY <1>0, <1>5, <1>6, <1>8, <1>9, <2>1 DEF AgentInv, TypeOK, States
<1>11. LinesMade'
  BY <1>0, <1>3, <1>9 DEF LinesMade, HandlerPerMedia, Answering
<1>12. VersionInv'
  <2>1. localDesc # NoSdp => localDesc.ver >= 1 /\ prevSdp
    BY <1>0 DEF AgentInv, VersionInv, Quiet
  <2> QED
    BY <1>0, <1>8, <1>9, <2>1 DEF VersionInv, Quiet
<1> QED
  BY <1>6, <1>7, <1>10, <1>11, <1>12 DEF AgentInv

(* An offer that fails before any media only starts from the last version. *)
LEMMA CreateOfferFailsEarlyKeeps ==
  ASSUME AgentInv, CreateOfferFailsEarly
  PROVE  AgentInv' /\ Registered' = Registered
<1>0. /\ state \in Quiet /\ rounds < MaxRounds /\ rounds' = rounds + 1
      /\ offerHandlers' = offerHandlers /\ h' = h
      /\ local' = IF localDesc = NoSdp THEN 1 ELSE localDesc.ver
      /\ handlers' = handlers /\ localDesc' = localDesc /\ remoteDesc' = remoteDesc
      /\ prevSdp' = prevSdp /\ remote' = remote /\ state' = state /\ made' = made
  BY DEF CreateOfferFailsEarly, LastVersion, Round, descs, lists
<1>1. Registered' = Registered
  BY <1>0 DEF Registered
<1>2. local' \in 0..MaxVersion
  <2>1. localDesc.ver \in 0..MaxVersion /\ 1 \in 0..MaxVersion
    BY InvFacts, SdpParts, AgentAssumption
  <2> QED
    BY <1>0, <2>1
<1>3. TypeOK'
  <2>1. rounds' \in 0..MaxRounds
    BY <1>0, AgentAssumption DEF AgentInv, TypeOK
  <2> QED
    BY <1>0, <1>2, <2>1 DEF AgentInv, TypeOK
<1>4. IdsInv'
  BY <1>0 DEF AgentInv, IdsInv
<1>5. LinesMade'
  BY <1>0 DEF LinesMade, HandlerPerMedia, Answering, Quiet
<1>6. VersionInv'
  BY <1>0 DEF AgentInv, VersionInv, Quiet
<1> QED
  BY <1>1, <1>3, <1>4, <1>5, <1>6 DEF AgentInv

(* An offer that fails leaves the agent between negotiations. *)
LEMMA CreateOfferFailsKeeps ==
  ASSUME AgentInv, NEW n \in 0..MaxMedias, CreateOfferFails(n)
  PROVE  AgentInv' /\ Registered' = Registered
<1> DEFINE list == MergeOfferHandlers
<1>0. /\ state \in Quiet /\ rounds < MaxRounds /\ rounds' = rounds + 1
      /\ offerHandlers' = list \/ offerHandlers' = offerHandlers
      /\ h' = Offered(n, list)
      /\ \/ local' = IF localDesc = NoSdp THEN 1 ELSE localDesc.ver
         \/ /\ local' = IF localDesc = NoSdp THEN 1 ELSE localDesc.ver + 1
            /\ local' <= MaxVersion
      /\ handlers' = handlers /\ localDesc' = localDesc /\ remoteDesc' = remoteDesc
      /\ prevSdp' = prevSdp /\ remote' = remote /\ state' = state /\ made' = made
  BY DEF CreateOfferFails, LastVersion, ChangedVersion, OfferVersion, Round, descs
<1>1. ListOf(list, Len(h))
  BY InvFacts, MergeIsList DEF AgentInv
<1> HIDE DEF list
<1>2. n \in Nat
  BY AgentAssumption
<1>4. SameHandlers(h')
  BY <1>0, <1>2, InvFacts, OfferedSame
<1>5. /\ h' \in Seq(Handler) /\ Len(h') = Len(h)
      /\ \A i \in 1..Len(h) : h'[i].disabled <=> h[i].disabled
  BY <1>4 DEF SameHandlers
<1>6. /\ IdsInv' /\ handlers' \in Seq(Nat) /\ offerHandlers' \in Seq(Nat)
  BY <1>0, <1>1, <1>5, InvFacts, ListsNext
<1>7. Registered' = Registered
  BY <1>0, <1>5, RegisteredSame
<1>8. local' \in 0..MaxVersion
  <2>1. localDesc.ver \in 0..MaxVersion /\ 1 \in 0..MaxVersion
    BY InvFacts, SdpParts, AgentAssumption
  <2> QED
    BY <1>0, <2>1
<1>10. TypeOK'
  <2>1. rounds' \in 0..MaxRounds
    BY <1>0, AgentAssumption DEF AgentInv, TypeOK
  <2> QED
    BY <1>0, <1>5, <1>6, <1>8, <2>1 DEF AgentInv, TypeOK
<1>11. LinesMade'
  BY <1>0 DEF LinesMade, HandlerPerMedia, Answering, Quiet
<1>12. VersionInv'
  BY <1>0 DEF AgentInv, VersionInv, Quiet
<1> QED
  BY <1>6, <1>7, <1>10, <1>11, <1>12 DEF AgentInv

(* cancel_offer: the version may stay one ahead of the description set before, but without
   one it starts again. *)
LEMMA CancelOfferKeeps ==
  ASSUME AgentInv, CancelOffer
  PROVE  AgentInv' /\ Registered' = Registered
<1>0. /\ state = "local_offer" /\ made' = NoSdp
      /\ localDesc' = localDesc /\ remoteDesc' = remoteDesc
      /\ prevSdp' = prevSdp /\ rounds' = rounds
      /\ localDesc # NoSdp => prevSdp
  BY DEF CancelOffer, descs, AgentInv, VersionInv
<1>1. NoSdp \in Sdp
  BY SdpParts
<1>2. CASE prevSdp
  <2>1. /\ state' = "negotiated" /\ CommitNegotiated(h)
        /\ offerHandlers' = offerHandlers /\ local' = local /\ remote' = remote
    BY <1>2 DEF CancelOffer
  <2>2. /\ h' \in Seq(Handler) /\ IdsInv'
        /\ handlers' \in Seq(Nat) /\ offerHandlers' \in Seq(Nat)
        /\ Registered' = Registered
    BY <2>1, SameItself, CommitKeeps
  <2>3. TypeOK'
    BY <1>0, <1>1, <2>1, <2>2 DEF AgentInv, TypeOK, States
  <2>4. LinesMade' /\ VersionInv'
    BY <1>0, <1>2, <2>1
       DEF AgentInv, LinesMade, HandlerPerMedia, Answering, VersionInv, Quiet
  <2> QED
    BY <2>2, <2>3, <2>4 DEF AgentInv
<1>3. CASE ~prevSdp
  <2>1. /\ state' = "unnegotiated" /\ offerHandlers' = <<>> /\ local' = 0 /\ remote' = 0
        /\ h' = h /\ handlers' = handlers
    BY <1>3 DEF CancelOffer
  <2>2. ListOf(<<>>, Len(h))
    BY EmptySeq DEF ListOf, Distinct
  <2>3. /\ IdsInv' /\ handlers' \in Seq(Nat) /\ offerHandlers' \in Seq(Nat)
    BY <2>1, <2>2, InvFacts, ListsNext
  <2>4. TypeOK'
    <3>1. 0 \in 0..MaxVersion
      BY AgentAssumption
    <3> QED
      BY <1>0, <1>1, <2>1, <2>3, <3>1 DEF AgentInv, TypeOK, States
  <2>5. LinesMade' /\ VersionInv'
    BY <1>0, <1>3, <2>1
       DEF AgentInv, LinesMade, HandlerPerMedia, Answering, VersionInv, Quiet
  <2>6. Registered' = Registered
    BY <2>1 DEF Registered, Elems
  <2> QED
    BY <2>3, <2>4, <2>5, <2>6 DEF AgentInv
<1> QED
  BY <1>2, <1>3

(* create_answer: a line for each media of the offer and a handler for each line, in the
   version that is not set again while the agent has one. *)
LEMMA CreateAnswerKeeps ==
  ASSUME AgentInv, NEW replies, CreateAnswer(replies)
  PROVE  AgentInv' /\ Registered \subseteq Registered' /\ Registered' \subseteq Nat
<1> DEFINE a == GenerateAnswer(replies)
<1>0. /\ state = "remote_offer" /\ state' = state
      /\ handlers' = a.hs /\ offerHandlers' = a.os /\ h' = a.h
      /\ local' = (IF local = 0 THEN 1 ELSE local)
      /\ made' = (IF a.ok THEN [ver |-> local', medias |-> a.out] ELSE NoSdp)
      /\ localDesc' = localDesc /\ remoteDesc' = remoteDesc /\ prevSdp' = prevSdp
      /\ remote' = remote /\ rounds' = rounds
  BY DEF CreateAnswer, descs
<1>1. AnsAt(a, Len(remoteDesc))
  BY AnswerRight DEF AgentInv
<1> HIDE DEF a
<1>2. /\ a \in Ans /\ a.h \in Seq(Handler) /\ a.out \in Seq(Media)
      /\ ListOf(a.hs, Len(a.h)) /\ ListOf(a.os, Len(a.h))
      /\ Elems(handlers) \subseteq Elems(a.hs)
      /\ \A i \in 1..Len(h) : a.h[i].disabled <=> h[i].disabled
      /\ a.ok => Len(a.out) <= Len(a.os)
  <2>1. AnsInv(a) /\ a \in Ans
    BY <1>1 DEF AnsAt, AnsInv
  <2>2. Len(remoteDesc) \in Nat
    BY InvFacts, LenProperties
  <2>3. a.h \in Seq(Handler) /\ a.out \in Seq(Media) /\ a.os \in Seq(Nat)
    BY <2>1, AnsParts
  <2>4. Len(a.os) \in Nat /\ Len(a.out) \in Nat
    BY <2>3, LenProperties
  <2>5. a.ok => Len(a.out) <= Len(a.os)
    BY <1>1, <2>2, <2>4 DEF AnsAt
  <2> QED
    BY <2>1, <2>3, <2>5 DEF AnsInv
<1>3. /\ IdsInv' /\ handlers' \in Seq(Nat) /\ offerHandlers' \in Seq(Nat)
      /\ Registered' \subseteq Nat /\ h' \in Seq(Handler)
  BY <1>0, <1>2, ListsNext
<1>4. Registered \subseteq Registered'
  <2>1. Elems(handlers) \subseteq Elems(handlers') /\ Elems(handlers) \subseteq 1..Len(h)
    BY <1>0, <1>2, InvFacts
  <2> QED
    BY <1>0, <1>2, <2>1 DEF Registered
<1>5. local \in 0..MaxVersion /\ local' \in 0..MaxVersion /\ local' >= 1
  <2>1. local \in 0..MaxVersion /\ 1 \in 0..MaxVersion
    BY AgentAssumption DEF AgentInv, TypeOK
  <2> QED
    BY <1>0, <2>1, AgentAssumption
<1>6. /\ made' \in Sdp
      /\ a.ok => made'.ver = local' /\ made'.medias = a.out
      /\ ~a.ok => made' = NoSdp
  BY <1>0, <1>2, <1>5, SdpParts
<1>7. TypeOK'
  BY <1>0, <1>3, <1>5, <1>6 DEF AgentInv, TypeOK
<1>8. LinesMade'
  BY <1>0, <1>2, <1>6 DEF LinesMade, HandlerPerMedia, Answering
<1>9. VersionInv'
  <2>1. localDesc # NoSdp => local' = local
    <3>1. localDesc.ver \in Nat
      BY InvFacts, SdpParts
    <3>2. localDesc # NoSdp => local >= 1
      BY <3>1 DEF AgentInv, VersionInv
    <3> QED
      BY <1>0, <1>5, <3>2
  <2> QED
    BY <1>0, <1>5, <1>6, <2>1 DEF AgentInv, VersionInv, Quiet
<1> QED
  BY <1>3, <1>4, <1>7, <1>8, <1>9 DEF AgentInv

(* set_local_description with an offer *)
LEMMA SetLocalOfferKeeps ==
  ASSUME AgentInv, SetLocalOffer
  PROVE  AgentInv' /\ Registered' = Registered
<1>0. /\ state = "local_offer" /\ state' = "wait_nego"
      /\ localDesc' = made /\ made' = NoSdp
      /\ handlers' = handlers /\ offerHandlers' = offerHandlers /\ h' = h
      /\ remoteDesc' = remoteDesc /\ prevSdp' = prevSdp /\ local' = local
      /\ remote' = remote /\ rounds' = rounds
  BY DEF SetLocalOffer, lists
<1>1. IdsInv' /\ Registered' = Registered
  BY <1>0 DEF AgentInv, IdsInv, Registered, Elems
<1>2. TypeOK'
  BY <1>0, SdpParts DEF AgentInv, TypeOK, States
<1>3. LinesMade'
  BY <1>0 DEF AgentInv, LinesMade, HandlerPerMedia, Answering
<1>4. VersionInv'
  BY <1>0 DEF AgentInv, VersionInv, Quiet
<1> QED
  BY <1>1, <1>2, <1>3, <1>4 DEF AgentInv

(* set_local_description with an answer *)
LEMMA SetLocalAnswerKeeps ==
  ASSUME AgentInv, SetLocalAnswer
  PROVE  AgentInv' /\ Registered' = Registered
<1>0. /\ state = "remote_offer" /\ made # NoSdp /\ state' = "negotiated"
      /\ localDesc' = made /\ made' = NoSdp /\ prevSdp' = TRUE
      /\ CommitNegotiated(h) /\ offerHandlers' = offerHandlers
      /\ remoteDesc' = remoteDesc /\ local' = local /\ remote' = remote /\ rounds' = rounds
  BY DEF SetLocalAnswer
<1>1. /\ h' \in Seq(Handler) /\ IdsInv'
      /\ handlers' \in Seq(Nat) /\ offerHandlers' \in Seq(Nat)
      /\ Registered' = Registered
  BY <1>0, SameItself, CommitKeeps
<1>2. TypeOK'
  BY <1>0, <1>1, SdpParts DEF AgentInv, TypeOK, States
<1>3. LinesMade'
  BY <1>0 DEF LinesMade, HandlerPerMedia, Answering
<1>4. VersionInv'
  BY <1>0 DEF AgentInv, VersionInv, Quiet
<1> QED
  BY <1>1, <1>2, <1>3, <1>4 DEF AgentInv

(* set_remote_description with an answer *)
LEMMA SetRemoteAnswerKeeps ==
  ASSUME AgentInv, NEW ms \in PeerAnswers(localDesc.medias), NEW v \in PeerVersions(ms),
         SetRemoteAnswer(ms, v)
  PROVE  AgentInv' /\ Registered' = Registered
<1>0. /\ state = "wait_nego" /\ state' = "negotiated" /\ remote' = v
      /\ remoteDesc' = ms /\ prevSdp' = TRUE
      /\ CommitNegotiated(UpdateRejected(ms)) /\ offerHandlers' = offerHandlers
      /\ localDesc' = localDesc /\ local' = local /\ rounds' = rounds /\ made' = made
  BY DEF SetRemoteAnswer
<1>1. SameHandlers(UpdateRejected(ms))
  BY InvFacts, UpdateRejectedSame
<1>2. /\ h' \in Seq(Handler) /\ IdsInv'
      /\ handlers' \in Seq(Nat) /\ offerHandlers' \in Seq(Nat)
      /\ Registered' = Registered
  BY <1>0, <1>1, CommitKeeps
<1>3. ms \in Seq(Media) /\ v \in 0..MaxVersion
  <2>1. ms \in [DOMAIN localDesc.medias -> Media] /\ v \in 1..MaxVersion
    BY DEF PeerAnswers, PeerVersions
  <2>2. localDesc.medias \in Seq(Media)
    BY InvFacts, SdpParts
  <2>3. DOMAIN localDesc.medias = 1..Len(localDesc.medias) /\ Len(localDesc.medias) \in Nat
    BY <2>2, LenProperties
  <2> QED
    BY <2>1, <2>3, AgentAssumption
<1>4. TypeOK'
  BY <1>0, <1>2, <1>3 DEF AgentInv, TypeOK, States
<1>5. LinesMade'
  BY <1>0 DEF LinesMade, HandlerPerMedia, Answering
<1>6. VersionInv'
  BY <1>0 DEF AgentInv, VersionInv, Quiet
<1> QED
  BY <1>2, <1>4, <1>5, <1>6 DEF AgentInv

(* set_remote_description with an offer *)
LEMMA SetRemoteOfferKeeps ==
  ASSUME AgentInv, NEW ms \in PeerOffers, NEW v \in PeerVersions(ms), SetRemoteOffer(ms, v)
  PROVE  AgentInv' /\ Registered' = Registered
<1>0. /\ state \in Quiet /\ state' = "remote_offer" /\ remote' = v
      /\ rounds < MaxRounds /\ rounds' = rounds + 1
      /\ remoteDesc' = ms /\ made' = NoSdp
      /\ h' = UpdateRejected(ms) \/ h' = h
      /\ handlers' = handlers /\ offerHandlers' = offerHandlers
      /\ localDesc' = localDesc /\ local' = local /\ prevSdp' = prevSdp
  BY DEF SetRemoteOffer, Round
<1>1. /\ h' \in Seq(Handler) /\ Len(h') = Len(h)
      /\ \A i \in 1..Len(h) : h'[i].disabled <=> h[i].disabled
  BY <1>0, InvFacts, UpdateRejectedSame, SameItself DEF SameHandlers
<1>2. /\ IdsInv' /\ handlers' \in Seq(Nat) /\ offerHandlers' \in Seq(Nat)
  BY <1>0, <1>1, InvFacts, ListsNext
<1>3. Registered' = Registered
  BY <1>0, <1>1, RegisteredSame
<1>4. ms \in Seq(Media) /\ v \in 0..MaxVersion /\ rounds' \in 0..MaxRounds
  <2>1. ms \in Medias /\ v \in 1..MaxVersion
    BY DEF PeerOffers, PeerVersions
  <2>2. \E n \in 0..MaxMedias : ms \in [1..n -> Media]
    BY <2>1 DEF Medias
  <2>3. ms \in Seq(Media)
    BY <2>2, AgentAssumption
  <2>4. rounds' \in 0..MaxRounds
    BY <1>0, AgentAssumption DEF AgentInv, TypeOK
  <2> QED
    BY <2>1, <2>3, <2>4, AgentAssumption
<1>5. TypeOK'
  BY <1>0, <1>1, <1>2, <1>4, SdpParts DEF AgentInv, TypeOK, States
<1>6. LinesMade'
  BY <1>0 DEF LinesMade, HandlerPerMedia, Answering
<1>7. VersionInv'
  BY <1>0 DEF AgentInv, VersionInv, Quiet
<1> QED
  BY <1>2, <1>3, <1>5, <1>6, <1>7 DEF AgentInv

(* A new agent has neither handlers nor descriptions. *)
LEMMA AgentInvInit ==
  ASSUME Init
  PROVE  AgentInv
<1>1. h \in Seq(Handler) /\ Len(h) \in Nat /\ <<>> \in Seq(Media) /\ <<>> \in Seq(Nat)
  BY EmptySeq DEF Init
<1>2. ListOf(<<>>, Len(h))
  BY EmptySeq DEF ListOf, Distinct
<1>3. 0 \in 0..MaxVersion /\ 0 \in 0..MaxRounds
  BY AgentAssumption
<1>4. TypeOK
  BY <1>1, <1>3, SdpParts DEF TypeOK, Init, States
<1>5. IdsInv
  BY <1>2 DEF IdsInv, Init
<1>6. LinesMade /\ VersionInv
  BY DEF LinesMade, HandlerPerMedia, Answering, VersionInv, Init, Quiet
<1> QED
  BY <1>4, <1>5, <1>6 DEF AgentInv

(* Every operation of the user and of the peer keeps the invariant. *)
LEMMA AgentInvStep ==
  ASSUME AgentInv, [Next]_vars
  PROVE  AgentInv'
<1>1. ASSUME NEW k \in Kinds, AddHandler(k)
      PROVE  AgentInv'
  BY <1>1, AddHandlerKeeps
<1>2. ASSUME NEW i \in DOMAIN h, RemoveHandler(i)
      PROVE  AgentInv'
  BY <1>2, RemoveHandlerKeeps
<1>3. ASSUME NEW changed \in BOOLEAN, CreateOffer(changed)
      PROVE  AgentInv'
  BY <1>3, CreateOfferKeeps
<1>4. ASSUME NEW n \in 0..MaxMedias, CreateOfferFails(n)
      PROVE  AgentInv'
  BY <1>4, CreateOfferFailsKeeps
<1>12. CASE CreateOfferFailsEarly
  BY <1>12, CreateOfferFailsEarlyKeeps
<1>5. CASE CancelOffer
  BY <1>5, CancelOfferKeeps
<1>6. ASSUME NEW replies, CreateAnswer(replies)
      PROVE  AgentInv'
  BY <1>6, CreateAnswerKeeps
<1>7. CASE SetLocalOffer
  BY <1>7, SetLocalOfferKeeps
<1>8. CASE SetLocalAnswer
  BY <1>8, SetLocalAnswerKeeps
<1>9. ASSUME NEW ms \in PeerAnswers(localDesc.medias), NEW v \in PeerVersions(ms),
             SetRemoteAnswer(ms, v)
      PROVE  AgentInv'
  BY <1>9, SetRemoteAnswerKeeps
<1>10. ASSUME NEW ms \in PeerOffers, NEW v \in PeerVersions(ms), SetRemoteOffer(ms, v)
       PROVE  AgentInv'
  BY <1>10, SetRemoteOfferKeeps
<1>11. CASE UNCHANGED vars
  BY <1>11 DEF vars, lists, descs, AgentInv, TypeOK, IdsInv, LinesMade, HandlerPerMedia,
               Answering, VersionInv
<1> QED
  BY <1>1, <1>2, <1>3, <1>4, <1>5, <1>6, <1>7, <1>8, <1>9, <1>10, <1>11, <1>12 DEF Next

-----------------------------------------------------------------------------
(* Theorems.                                                               *)

(* The lists, the handlers and the descriptions of the agent keep their types. *)
THEOREM AgentTypeCorrect == Spec => []TypeOK
<1>1. Init => AgentInv
  BY AgentInvInit
<1>2. AgentInv /\ [Next]_vars => AgentInv'
  BY AgentInvStep
<1>3. AgentInv => TypeOK
  BY DEF AgentInv
<1> QED
  BY <1>1, <1>2, <1>3, PTL DEF Spec

(* However often an agent negotiates, and whatever is cancelled, removed, refused or fails
   on the way, every m= line about to be agreed has a handler, as
   process_answered_description asserts, and no handler is behind two lines. *)
THEOREM SlotsStayInStep == Spec => []SlotsInStep
<1>1. Init => AgentInv
  BY AgentInvInit
<1>2. AgentInv /\ [Next]_vars => AgentInv'
  BY AgentInvStep
<1>3. AgentInv => SlotsInStep
  BY DEF AgentInv, LinesMade, IdsInv, ListOf, Distinct, SlotsInStep, OwnSlot
<1> QED
  BY <1>1, <1>2, <1>3, PTL DEF Spec

(* The version of the local description never jumps: update_session_version counts on from
   the description that was set, not from an offer that was cancelled or failed. *)
THEOREM VersionsStep == Spec => VersionStep
<1>1. Init => AgentInv
  BY AgentInvInit
<1>2. AgentInv /\ [Next]_vars => AgentInv'
  BY AgentInvStep
<1> DEFINE Small == localDesc # NoSdp => localDesc'.ver \in {localDesc.ver, localDesc.ver + 1}
<1>3. AgentInv /\ [Next]_vars => [Small]_vars
  <2> SUFFICES ASSUME AgentInv, Next
               PROVE  Small
    OBVIOUS
  <2>1. ASSUME localDesc' = localDesc
        PROVE  Small
    BY <2>1
  <2>2. ASSUME localDesc' = made, state = "local_offer" \/ made # NoSdp
        PROVE  Small
    BY <2>2 DEF AgentInv, VersionInv
  <2> QED
    BY <2>1, <2>2
       DEF Next, AddHandler, RemoveHandler, CreateOffer, CreateOfferFails, CreateOfferFailsEarly, CancelOffer,
           CreateAnswer, SetLocalOffer, SetLocalAnswer, SetRemoteAnswer, SetRemoteOffer, descs
<1> HIDE DEF Small
<1>4. Spec => [][Small]_vars
  BY <1>1, <1>2, <1>3, PTL DEF Spec
<1> QED
  BY <1>4 DEF VersionStep, Small

(* The agent implements the state diagram drawn at the head of kmssdpagent.c: each operation
   takes one arrow of it, a failed offer takes none, and what the user registered changes
   only between negotiations and while the user is asked for handlers. *)
THEOREM AgentImplementsDiagram == Spec => FollowsDiagram
<1>1. Init => AgentInv
  BY AgentInvInit
<1>2. AgentInv /\ [Next]_vars => AgentInv'
  BY AgentInvStep
<1>3. Init => Diagram!Init
  BY DEF Init, Diagram!Init, Elems
<1>4. AgentInv /\ [Next]_vars => [Diagram!Next]_Diagram!vars
  <2> SUFFICES ASSUME AgentInv, [Next]_vars
               PROVE  [Diagram!Next]_Diagram!vars
    OBVIOUS
  <2> DEFINE Step == [Diagram!Next]_Diagram!vars
  <2>0. Diagram!vars = <<state, prevSdp, Registered>>
    BY DEF Diagram!vars, Registered
  <2>1. ASSUME NEW k \in Kinds, AddHandler(k)
        PROVE  Step
    <3>1. state \in Quiet /\ state' = state /\ prevSdp' = prevSdp
      BY <2>1 DEF AddHandler, descs
    <3>2. Registered' \subseteq Nat
      BY <2>1, AddHandlerKeeps
    <3>3. Diagram!Modify
      BY <3>1, <3>2 DEF Diagram!Modify, Diagram!Quiet, Quiet, Registered
    <3> QED
      BY <3>3 DEF Diagram!Next
  <2>2. ASSUME NEW i \in DOMAIN h, RemoveHandler(i)
        PROVE  Step
    <3>1. state \in Quiet /\ state' = state /\ prevSdp' = prevSdp
      BY <2>2 DEF RemoveHandler, descs
    <3>2. Registered' \subseteq Nat
      BY <2>2, RemoveHandlerKeeps
    <3>3. Diagram!Modify
      BY <3>1, <3>2 DEF Diagram!Modify, Diagram!Quiet, Quiet, Registered
    <3> QED
      BY <3>3 DEF Diagram!Next
  <2>3. ASSUME NEW changed \in BOOLEAN, CreateOffer(changed)
        PROVE  Step
    <3>1. state \in Quiet /\ state' = "local_offer" /\ prevSdp' = prevSdp
      BY <2>3 DEF CreateOffer, descs
    <3>2. Registered' = Registered
      BY <2>3, CreateOfferKeeps
    <3>3. Diagram!LocalOffer
      BY <3>1, <3>2 DEF Diagram!LocalOffer, Diagram!Go, Diagram!Quiet, Quiet, Registered
    <3> QED
      BY <3>3 DEF Diagram!Next
  <2>4. ASSUME NEW n \in 0..MaxMedias, CreateOfferFails(n)
        PROVE  Step
    <3>1. state' = state /\ prevSdp' = prevSdp
      BY <2>4 DEF CreateOfferFails, descs
    <3>2. Registered' = Registered
      BY <2>4, CreateOfferFailsKeeps
    <3> QED
      BY <3>1, <3>2, <2>0 DEF Diagram!vars, Registered
  <2>12. ASSUME CreateOfferFailsEarly
         PROVE  Step
    <3>1. state' = state /\ prevSdp' = prevSdp
      BY <2>12 DEF CreateOfferFailsEarly, descs
    <3>2. Registered' = Registered
      BY <2>12, CreateOfferFailsEarlyKeeps
    <3> QED
      BY <3>1, <3>2, <2>0 DEF Diagram!vars, Registered
  <2>5. ASSUME CancelOffer
        PROVE  Step
    <3>1. /\ state = "local_offer" /\ prevSdp' = prevSdp
          /\ state' = IF prevSdp THEN "negotiated" ELSE "unnegotiated"
      BY <2>5 DEF CancelOffer, descs
    <3>2. Registered' = Registered
      BY <2>5, CancelOfferKeeps
    <3>3. Diagram!CancelOffer
      BY <3>1, <3>2 DEF Diagram!CancelOffer, Diagram!Go, Registered
    <3> QED
      BY <3>3 DEF Diagram!Next
  <2>6. ASSUME NEW replies, CreateAnswer(replies)
        PROVE  Step
    <3>1. state = "remote_offer" /\ state' = state /\ prevSdp' = prevSdp
      BY <2>6 DEF CreateAnswer, descs
    <3>2. Registered \subseteq Registered' /\ Registered' \subseteq Nat
      BY <2>6, CreateAnswerKeeps
    <3>3. Diagram!Supply
      BY <3>1, <3>2 DEF Diagram!Supply, Registered
    <3> QED
      BY <3>3 DEF Diagram!Next
  <2>7. ASSUME SetLocalOffer
        PROVE  Step
    <3>1. state = "local_offer" /\ state' = "wait_nego" /\ prevSdp' = prevSdp
      BY <2>7 DEF SetLocalOffer
    <3>2. Registered' = Registered
      BY <2>7, SetLocalOfferKeeps
    <3>3. Diagram!SetLocalOffer
      BY <3>1, <3>2 DEF Diagram!SetLocalOffer, Diagram!Go, Registered
    <3> QED
      BY <3>3 DEF Diagram!Next
  <2>8. ASSUME SetLocalAnswer
        PROVE  Step
    <3>1. state = "remote_offer" /\ state' = "negotiated" /\ prevSdp' = TRUE
      BY <2>8 DEF SetLocalAnswer
    <3>2. Registered' = Registered
      BY <2>8, SetLocalAnswerKeeps
    <3>3. Diagram!SetLocalAnswer
      BY <3>1, <3>2 DEF Diagram!SetLocalAnswer, Diagram!Go, Registered
    <3> QED
      BY <3>3 DEF Diagram!Next
  <2>9. ASSUME NEW ms \in PeerAnswers(localDesc.medias), NEW v \in PeerVersions(ms),
               SetRemoteAnswer(ms, v)
        PROVE  Step
    <3>1. state = "wait_nego" /\ state' = "negotiated" /\ prevSdp' = TRUE
      BY <2>9 DEF SetRemoteAnswer
    <3>2. Registered' = Registered
      BY <2>9, SetRemoteAnswerKeeps
    <3>3. Diagram!SetRemoteAnswer
      BY <3>1, <3>2 DEF Diagram!SetRemoteAnswer, Diagram!Go, Registered
    <3> QED
      BY <3>3 DEF Diagram!Next
  <2>10. ASSUME NEW ms \in PeerOffers, NEW v \in PeerVersions(ms), SetRemoteOffer(ms, v)
         PROVE  Step
    <3>1. state \in Quiet /\ state' = "remote_offer" /\ prevSdp' = prevSdp
      BY <2>10 DEF SetRemoteOffer
    <3>2. Registered' = Registered
      BY <2>10, SetRemoteOfferKeeps
    <3>3. Diagram!SetRemoteOffer
      BY <3>1, <3>2 DEF Diagram!SetRemoteOffer, Diagram!Go, Diagram!Quiet, Quiet, Registered
    <3> QED
      BY <3>3 DEF Diagram!Next
  <2>11. ASSUME UNCHANGED vars
         PROVE  Step
    <3>1. state' = state /\ prevSdp' = prevSdp /\ Registered' = Registered
      BY <2>11 DEF vars, lists, descs, Registered, Elems
    <3> QED
      BY <3>1 DEF Diagram!vars, Registered
  <2> HIDE DEF Step
  <2>13. Step
    BY <2>1, <2>2, <2>3, <2>4, <2>5, <2>6, <2>7, <2>8, <2>9, <2>10, <2>11, <2>12 DEF Next
  <2> QED
    BY <2>13 DEF Step
<1> QED
  BY <1>1, <1>2, <1>3, <1>4, PTL DEF Spec, FollowsDiagram, Diagram!Spec

-----------------------------------------------------------------------------
(* The lines of the session.                                               *)

(* No offer is cancelled, no media handler fails and the peer leaves the lines whose port is
   zero alone.  With any of the three the properties of this part are false of the code. *)
Plain == ~Cancels /\ ~Failures /\ ~PeerReuses

(* A handler that was never negotiated is neither removed nor refused. *)
NewRight(g) == ~g.negotiated => ~g.disabled /\ ~g.rejected

(* Handler g is the one of line q of the peer's offer; what it agreed on before is found. *)
RemoteLine(g, q) ==
  /\ g.index = q /\ g.kind = remoteDesc[q].kind
  /\ g.rejected => ~remoteDesc[q].on
  /\ g.negotiated => q \in DOMAIN localDesc.medias /\ localDesc.medias[q].kind = g.kind

(* Line x answers line q of the offer with handler g. *)
AnsweredLine(x, g, q) ==
  /\ x.kind = remoteDesc[q].kind /\ (x.on => remoteDesc[q].on)
  /\ g.unsupported => ~x.on

(* The first p lines of an offer are answered and nothing failed. *)
AnsLines(a, p) ==
  /\ a.ok /\ Len(a.os) <= Len(remoteDesc)
  /\ \A i \in 1..Len(a.h) : NewRight(a.h[i])
  /\ \A q \in 1..Len(a.os) : RemoteLine(a.h[a.os[q]], q)
  /\ \A q \in 1..p : AnsweredLine(a.out[q], a.h[a.os[q]], q)

(* The handlers of a are in b, the others of b are new. *)
MoreHandlers(b, a) ==
  /\ Len(a.h) <= Len(b.h)
  /\ \A i \in 1..Len(a.h) : b.h[i] = a.h[i]
  /\ \A i \in 1..Len(b.h) : i \notin 1..Len(a.h) => NewRight(b.h[i])

(* What is made is at the end. *)
LEMMA MakeAdds ==
  ASSUME NEW a, AnsInv(a), NEW k \in Kinds, NEW u \in BOOLEAN
  PROVE  LET b == Make(a, NewHandler(k, u))
         IN  /\ MoreHandlers(b, a) /\ b.os = a.os /\ b.hs = a.hs
             /\ b.h[b.sel].kind = k /\ ~b.h[b.sel].negotiated /\ b.sel \in 1..Len(b.h)
<1> DEFINE g == NewHandler(k, u)
           b == Make(a, g)
<1>0. a \in Ans /\ Len(a.h) \in Nat /\ a.h \in Seq(Handler)
  BY AnsParts DEF AnsInv
<1>1. g \in Handler /\ g.kind = k /\ ~g.negotiated /\ NewRight(g)
  BY DEF NewHandler, Handler, NewRight
<1> HIDE DEF g
<1>2. /\ Len(Append(a.h, g)) = Len(a.h) + 1
      /\ \A i \in 1..Len(a.h) : Append(a.h, g)[i] = a.h[i]
      /\ Append(a.h, g)[Len(a.h) + 1] = g
  BY <1>0, <1>1, AppendProperties
<1>3. /\ b.hs = a.hs /\ b.os = a.os /\ b.h = Append(a.h, g) /\ b.sel = Len(a.h) + 1
  BY <1>0 DEF Make, Ans
<1> HIDE DEF b
<1>4. \A i \in 1..Len(b.h) : i \notin 1..Len(a.h) => i = Len(a.h) + 1
  BY <1>0, <1>2, <1>3
<1>5. MoreHandlers(b, a)
  BY <1>0, <1>1, <1>2, <1>3, <1>4 DEF MoreHandlers
<1>6. b.h[b.sel] = g /\ b.sel \in 1..Len(b.h)
  BY <1>0, <1>2, <1>3
<1> QED
  BY <1>1, <1>3, <1>5, <1>6 DEF b, g

(* A line without a handler gets one of its kind that was not negotiated. *)
LEMMA NewLinePicks ==
  ASSUME NEW a, AnsInv(a), Len(h) \in Nat, NEW m \in Media
  PROVE  LET b == OrReject(HandlerForMedia(a, m), m)
         IN  /\ MoreHandlers(b, a)
             /\ b.h[b.sel].kind = m.kind /\ ~b.h[b.sel].negotiated
<1> DEFINE S == {i \in DOMAIN a.h : /\ ~a.h[i].negotiated /\ a.h[i].kind = m.kind
                                    /\ i \notin Elems(a.os)}
           free == Those(a.hs, S)
           c == Make(a, NewHandler(m.kind, FALSE))
           d == [c EXCEPT !.hs = Append(c.hs, c.sel)]
           e == HandlerForMedia(a, m)
           b == OrReject(e, m)
           Done == MoreHandlers(b, a) /\ b.h[b.sel].kind = m.kind /\ ~b.h[b.sel].negotiated
<1>0. /\ a \in Ans /\ Len(a.h) \in Nat /\ m.kind \in Kinds
      /\ ListOf(a.hs, Len(a.h)) /\ ListOf(a.os, Len(a.h))
  BY AnsParts DEF AnsInv, Media
<1>1. ListOf(free, Len(a.h)) /\ Elems(free) = Elems(a.hs) \cap S
  BY <1>0, ListLeft
<1>2. \/ free # <<>> /\ e = [a EXCEPT !.sel = free[1]]
      \/ e = [a EXCEPT !.sel = 0]
      \/ e = d
  BY DEF HandlerForMedia
<1>3. b = IF e.sel = 0 THEN Make(e, NewHandler(m.kind, TRUE)) ELSE e
  BY DEF OrReject
<1>4. ASSUME free # <<>>, e = [a EXCEPT !.sel = free[1]]
      PROVE  Done
  <2>1. free[1] \in S /\ free[1] \in 1..Len(a.h)
    <3>1. 1 \in 1..Len(free)
      <4>1. free \in Seq(1..Len(a.h))
        BY <1>1 DEF ListOf
      <4> HIDE DEF free
      <4> QED
        BY <4>1, <1>4, EmptySeq
    <3>2. free[1] \in Elems(free) /\ free[1] \in 1..Len(a.h)
      BY <3>1, <1>0, <1>1, ListElems
    <3> QED
      BY <3>2, <1>1
  <2> DEFINE i == free[1]
  <2>2. i \in 1..Len(a.h) /\ ~a.h[i].negotiated /\ a.h[i].kind = m.kind
    BY <2>1
  <2> HIDE DEF e, b
  <2>3. e.sel = i /\ e.h = a.h
    <3>1. e = [a EXCEPT !.sel = i]
      BY <1>4
    <3>2. i \in Nat
      <4> HIDE DEF i
      <4> QED
        BY <1>0, <2>2
    <3> HIDE DEF i
    <3> QED
      BY <3>1, <3>2, SelectKeeps
  <2> HIDE DEF i
  <2>4. e.sel # 0
    BY <1>0, <2>2, <2>3
  <2>5. b = e
    BY <1>3, <2>4
  <2> QED
    BY <1>0, <2>2, <2>3, <2>5 DEF MoreHandlers
<1>5. ASSUME e = [a EXCEPT !.sel = 0]
      PROVE  Done
  <2>1. AnsInv(e) /\ e.h = a.h /\ e.sel = 0
    <3>1. 0 \in Nat
      OBVIOUS
    <3> QED
      BY <3>1, <1>5, SelectKeeps
  <2> HIDE DEF e, b
  <2>2. b = Make(e, NewHandler(m.kind, TRUE)) /\ TRUE \in BOOLEAN
    BY <1>3, <2>1
  <2>3. /\ MoreHandlers(b, e) /\ b.h[b.sel].kind = m.kind /\ ~b.h[b.sel].negotiated
    BY <1>0, <2>1, <2>2, MakeAdds
  <2> QED
    BY <2>1, <2>3 DEF MoreHandlers
<1>6. ASSUME e = d
      PROVE  Done
  <2>1. /\ MoreHandlers(c, a) /\ c.h[c.sel].kind = m.kind /\ ~c.h[c.sel].negotiated
        /\ c.sel \in 1..Len(c.h)
    BY <1>0, MakeAdds
  <2>2. c \in Ans
    <3>1. NewHandler(m.kind, FALSE) \in Handler
      BY <1>0, NewHandlerType
    <3> QED
      BY <3>1, MakeKeeps DEF AnsInv
  <2> HIDE DEF c
  <2>3. e.h = c.h /\ e.sel = c.sel
    BY <1>6, <2>2 DEF Ans
  <2> HIDE DEF d, e, b
  <2>4. e.sel # 0
    BY <2>1, <2>2, <2>3, AnsParts
  <2>5. b = e
    BY <1>3, <2>4
  <2> QED
    BY <2>1, <2>3, <2>5 DEF MoreHandlers
<1> QED
  BY <1>2, <1>4, <1>5, <1>6

(* What select_handler_to_answer_media finds for a line of the offer: the handler of the line,
   or one of its kind that was not negotiated. *)
LEMMA SelectLines ==
  ASSUME remoteDesc \in Seq(Media), Len(h) \in Nat, NEW p \in 1..Len(remoteDesc),
         NEW a, AnsAt(a, p - 1), AnsLines(a, p - 1)
  PROVE  LET b == SelectHandler(a, p, remoteDesc[p])
             g == b.h[b.sel]
         IN  /\ MoreHandlers(b, a) /\ b.os = a.os
             /\ g.kind = remoteDesc[p].kind
             /\ p \in DOMAIN a.os => b.sel = a.os[p] /\ RemoteLine(g, p)
             /\ p \notin DOMAIN a.os => ~g.negotiated
<1> DEFINE m == remoteDesc[p]
           b == SelectHandler(a, p, m)
           g == b.h[b.sel]
<1>0. /\ AnsInv(a) /\ m \in Media /\ ListOf(a.os, Len(a.h)) /\ Len(a.h) \in Nat
      /\ \A i \in 1..Len(a.h) : NewRight(a.h[i])
  <2>1. m \in Media
    BY ElementOfSeq
  <2> QED
    BY <2>1, AnsParts DEF AnsAt, AnsInv, AnsLines
<1>1. CASE p \in DOMAIN a.os
  <2> DEFINE i == a.os[p]
             d == [a EXCEPT !.sel = i]
  <2>1. i \in 1..Len(a.h) /\ i \in Nat /\ p \in 1..Len(a.os)
    BY <1>0, <1>1, ListElems
  <2>2. RemoteLine(a.h[i], p)
    BY <2>1 DEF AnsLines
  <2>3. ~a.h[i].rejected \/ ~m.on
    BY <2>2 DEF RemoteLine
  <2>4. b = d
    BY <1>1, <2>3 DEF SelectHandler, ProperHandler
  <2>5. d.os = a.os /\ d.h = a.h /\ d.sel = i
    <3> HIDE DEF i
    <3> QED
      BY <1>0, <2>1, SelectKeeps
  <2> HIDE DEF b, d
  <2>6. MoreHandlers(b, a)
    BY <1>0, <2>4, <2>5 DEF MoreHandlers
  <2>7. g.kind = m.kind /\ RemoteLine(g, p)
    BY <2>2, <2>4, <2>5 DEF RemoteLine
  <2> QED
    BY <1>1, <2>4, <2>5, <2>6, <2>7 DEF b
<1>2. CASE p \notin DOMAIN a.os
  <2>1. b = OrReject(HandlerForMedia(a, m), m)
    BY <1>2 DEF SelectHandler
  <2> HIDE DEF b, m
  <2>2. b.os = a.os
    BY <1>0, <2>1, NewLineKeeps
  <2>3. MoreHandlers(b, a) /\ g.kind = m.kind /\ ~g.negotiated
    BY <1>0, <2>1, NewLinePicks
  <2> QED
    BY <1>2, <2>2, <2>3 DEF b, m
<1> QED
  BY <1>1, <1>2

(* An answer goes on with the lines of the offer and does not fail, unless a media handler
   does. *)
LEMMA AnswerMediaLines ==
  ASSUME localDesc \in Sdp, remoteDesc \in Seq(Media), Len(h) \in Nat,
         NEW p \in 1..Len(remoteDesc), NEW a, AnsAt(a, p - 1), AnsLines(a, p - 1),
         NEW reply, reply # "fail"
  PROVE  AnsLines(AnswerMedia(a, p, remoteDesc[p], reply), p)
<1> DEFINE m == remoteDesc[p]
           b == SelectHandler(a, p, m)
           g == b.h[b.sel]
           agreed == NegotiatedMedia(g)
           known == b.sel \in Elems(b.os)
           os == IF known THEN b.os ELSE Append(b.os, b.sel)
           e == [g EXCEPT !.index = p]
           t == [b.h EXCEPT ![b.sel] = e]
           Answered(x) == [b EXCEPT !.out = Append(@, x),
                                    !.os = IF known THEN @ ELSE Append(@, b.sel),
                                    !.h[b.sel].index = IF known THEN @ ELSE p]
           r == AnswerMedia(a, p, m, reply)
<1>0. /\ AnsInv(a) /\ a.ok /\ Len(a.out) = p - 1 /\ Len(a.os) >= p - 1
      /\ ListOf(a.os, Len(a.h)) /\ Len(a.h) \in Nat /\ a.out \in Seq(Media)
      /\ Len(a.os) \in Nat /\ DOMAIN a.os = 1..Len(a.os)
      /\ m \in Media /\ Len(remoteDesc) \in Nat /\ DOMAIN remoteDesc = 1..Len(remoteDesc)
  <2>1. m \in Media /\ Len(remoteDesc) \in Nat /\ DOMAIN remoteDesc = 1..Len(remoteDesc)
    BY ElementOfSeq, LenProperties
  <2>2. AnsInv(a) /\ a.ok /\ Len(a.out) = p - 1 /\ Len(a.os) >= p - 1
    BY DEF AnsAt, AnsLines
  <2>3. ListOf(a.os, Len(a.h)) /\ Len(a.h) \in Nat /\ a.out \in Seq(Media)
    BY <2>2, AnsParts DEF AnsInv
  <2> QED
    BY <2>1, <2>2, <2>3, ListElems
<1>1. /\ AnsInv(b) /\ b.out = a.out /\ b.ok
      /\ b.sel \in 1..Len(b.h)
      /\ known <=> p \in DOMAIN a.os
  BY <1>0, SelectHandlerKeeps DEF SameOut
<1>2. /\ MoreHandlers(b, a) /\ b.os = a.os
      /\ g.kind = m.kind
      /\ known => b.sel = a.os[p] /\ RemoteLine(g, p)
      /\ ~known => ~g.negotiated
  <2> HIDE DEF b
  <2> QED
    BY <1>0, <1>1, SelectLines DEF b, m
<1>3. /\ b \in Ans /\ Len(b.h) \in Nat /\ DOMAIN b.h = 1..Len(b.h) /\ g \in Handler
      /\ b.h \in Seq(Handler) /\ ListOf(b.os, Len(b.h))
  <2> HIDE DEF b
  <2> QED
    BY <1>1, AnsParts DEF AnsInv
<1>4. \A i \in 1..Len(b.h) : NewRight(b.h[i])
  <2>1. \A i \in 1..Len(a.h) : NewRight(a.h[i])
    BY DEF AnsLines
  <2> HIDE DEF b
  <2> QED
    BY <1>2, <2>1 DEF MoreHandlers
<1>5. /\ (g.negotiated => known) /\ NewRight(g)
      /\ known => g.index = p
      /\ RemoteLine(e, p) /\ e \in Handler
      /\ NewRight(e) /\ (e.unsupported <=> g.unsupported)
  <2>1. NewRight(g)
    BY <1>1, <1>4
  <2>2. p \in Nat \ {0}
    BY <1>0
  <2>3. /\ e.index = p /\ e.kind = g.kind /\ (e.rejected <=> g.rejected) /\ e \in Handler
        /\ (e.negotiated <=> g.negotiated) /\ (e.disabled <=> g.disabled)
        /\ (e.unsupported <=> g.unsupported)
    <3> HIDE DEF g
    <3> QED
      BY <1>3, <2>2 DEF Handler
  <2> HIDE DEF g, e, known
  <2> QED
    BY <1>2, <2>1, <2>3 DEF RemoteLine, NewRight
<1>6. \E x \in Media : /\ r = Answered(x)
                       /\ AnsweredLine(x, g, p)
  <2> DEFINE x1 == Rejected(agreed[1])
             x2 == Rejected(m)
             x3 == [m EXCEPT !.on = reply = "accept" \/ g.kind \notin RtpKinds]
             fail == [b EXCEPT !.ok = FALSE]
  <2>1. r = IF ~m.on /\ g.negotiated
            THEN IF agreed = <<>> THEN fail ELSE Answered(x1)
            ELSE IF ~m.on \/ g.unsupported THEN Answered(x2)
            ELSE IF reply = "fail" \/ (g.kind \in RtpKinds) # (m.kind \in RtpKinds)
            THEN fail ELSE Answered(x3)
    BY Zenon DEF AnswerMedia
  <2> HIDE DEF b, r, Answered, fail, known, e
  <2>2. ASSUME ~m.on, g.negotiated
        PROVE  agreed # <<>> /\ x1 \in Media /\ AnsweredLine(x1, g, p)
    <3>1. RemoteLine(g, p)
      BY <1>2, <1>5, <2>2
    <3> DEFINE desc == IF g.offer THEN remoteDesc ELSE localDesc.medias
    <3>2. p \in DOMAIN desc /\ desc[p].kind = m.kind /\ g.index = p
      BY <1>0, <1>2, <2>2, <3>1 DEF RemoteLine
    <3>3. agreed = <<desc[p]>>
      BY <2>2, <3>2 DEF NegotiatedMedia
    <3>4. desc[p] \in Media
      <4>1. desc \in Seq(Media)
        BY DEF Sdp
      <4> HIDE DEF desc
      <4> QED
        BY <4>1, <3>2, LenProperties, ElementOfSeq
    <3> HIDE DEF desc, agreed, g
    <3>5. x1 \in Media /\ x1.kind = m.kind /\ ~x1.on
      BY <3>2, <3>3, <3>4 DEF Rejected, Media
    <3>6. agreed # <<>>
      BY <3>3
    <3> HIDE DEF x1
    <3> QED
      BY <3>5, <3>6 DEF AnsweredLine, m
  <2>3. x2 \in Media /\ AnsweredLine(x2, g, p)
    BY <1>0 DEF Rejected, Media, AnsweredLine
  <2>4. ASSUME m.on, ~g.unsupported
        PROVE  x3 \in Media /\ AnsweredLine(x3, g, p)
    BY <1>0, <2>4 DEF Media, AnsweredLine
  <2> HIDE DEF x1, x2, x3, agreed, g, m
  <2> QED
    BY <1>2, <2>1, <2>2, <2>3, <2>4
<1>7. PICK x \in Media : r = Answered(x) /\ AnsweredLine(x, g, p)
  BY <1>6
<1> DEFINE out == Append(a.out, x)
<1>8. r.out = out /\ r.os = os /\ r.h = t /\ r.ok
  <2>1. r = [b EXCEPT !.out = Append(b.out, x), !.os = os,
                      !.h = [b.h EXCEPT ![b.sel].index = IF known THEN g.index ELSE p]]
    <3> HIDE DEF b, r
    <3> QED
      BY <1>1, <1>3, <1>7 DEF Ans
  <2>2. [b.h EXCEPT ![b.sel].index = IF known THEN g.index ELSE p] = t
    <3> HIDE DEF b, r
    <3>1. (IF known THEN g.index ELSE p) = p
      BY <1>5
    <3> HIDE DEF known
    <3> QED
      BY <1>1, <1>3, <3>1
  <2> DEFINE bo == Append(b.out, x)
  <2>3. r = [b EXCEPT !.out = bo, !.os = os, !.h = t]
    BY <2>1, <2>2
  <2> HIDE DEF b, r, t, os, bo
  <2>4. r.out = bo /\ r.os = os /\ r.h = t /\ r.ok = b.ok
    BY <1>3, <2>3 DEF Ans
  <2> QED
    BY <1>1, <2>4 DEF bo
<1> HIDE DEF r, Answered
<1>9. /\ Len(t) = Len(b.h) /\ t[b.sel] = e
      /\ \A i \in 1..Len(b.h) : i # b.sel => t[i] = b.h[i]
  <2>1. b.h \in Seq(Handler) /\ e \in Handler /\ b.sel \in 1..Len(b.h)
    BY <1>1, <1>3, <1>5
  <2> HIDE DEF b, e
  <2> QED
    BY <2>1, ExceptSeq
<1>10. /\ Len(out) = p /\ out[p] = x
       /\ \A q \in 1..(p - 1) : out[q] = a.out[q]
  <2>1. /\ Len(out) = Len(a.out) + 1 /\ out[Len(a.out) + 1] = x
        /\ \A q \in 1..Len(a.out) : out[q] = a.out[q]
    BY <1>0, AppendProperties
  <2> HIDE DEF out
  <2> QED
    BY <1>0, <2>1
<1>11. /\ Len(os) <= Len(remoteDesc) /\ Len(os) \in Nat
       /\ os[p] = b.sel
       /\ \A q \in 1..Len(os) : q # p => q \in 1..Len(a.os) /\ os[q] = a.os[q]
  <2>0. Len(a.os) <= Len(remoteDesc)
    BY DEF AnsLines
  <2>1. CASE known
    <3> HIDE DEF b
    <3> QED
      BY <2>0, <2>1, <1>0, <1>1, <1>2
  <2>2. CASE ~known
    <3>1. /\ Len(Append(a.os, b.sel)) = Len(a.os) + 1
          /\ Append(a.os, b.sel)[Len(a.os) + 1] = b.sel
          /\ \A q \in 1..Len(a.os) : Append(a.os, b.sel)[q] = a.os[q]
      <4>1. a.os \in Seq(Nat) /\ b.sel \in Nat
        BY <1>0, <1>1, <1>3, ListNat
      <4> HIDE DEF b
      <4> QED
        BY <4>1, AppendProperties
    <3>2. Len(a.os) = p - 1 /\ os = Append(a.os, b.sel)
      BY <2>2, <1>0, <1>1, <1>2
    <3> HIDE DEF b, os
    <3> QED
      BY <1>0, <3>1, <3>2
  <2> QED
    BY <2>1, <2>2
<1>12. ASSUME NEW q \in 1..Len(os), q # p
       PROVE  t[os[q]] = a.h[a.os[q]]
  <2>1. q \in 1..Len(a.os) /\ os[q] = a.os[q] /\ a.os[q] \in 1..Len(a.h)
    BY <1>0, <1>11, <1>12, ListElems
  <2>2. a.os[q] # b.sel
    <3>1. CASE known
      <4>1. b.sel = a.os[p] /\ p \in DOMAIN a.os /\ Distinct(a.os)
        BY <3>1, <1>0, <1>1, <1>2 DEF ListOf
      <4> QED
        BY <4>1, <2>1, <1>0, <1>12 DEF Distinct
    <3>2. CASE ~known
      BY <3>2, <2>1, <1>0, <1>2, ListElems
    <3> QED
      BY <3>1, <3>2
  <2>3. a.os[q] \in 1..Len(b.h) /\ b.h[a.os[q]] = a.h[a.os[q]]
    <3>1. /\ Len(a.h) <= Len(b.h) /\ Len(a.h) \in Nat /\ Len(b.h) \in Nat
          /\ \A i \in 1..Len(a.h) : b.h[i] = a.h[i]
      BY <1>0, <1>2, <1>3 DEF MoreHandlers
    <3> HIDE DEF b
    <3> QED
      BY <2>1, <3>1
  <2> HIDE DEF b, t, os
  <2> QED
    BY <2>1, <2>2, <2>3, <1>9
<1>13. \A i \in 1..Len(r.h) : NewRight(r.h[i])
  <2> HIDE DEF b, t, e
  <2> QED
    BY <1>4, <1>5, <1>8, <1>9
<1>14. ASSUME NEW q \in 1..Len(r.os)
       PROVE  RemoteLine(r.h[r.os[q]], q)
  <2>1. CASE q = p
    <3> HIDE DEF b, t, e, os
    <3> QED
      BY <2>1, <1>5, <1>8, <1>9, <1>11
  <2>2. CASE q # p
    <3>1. q \in 1..Len(a.os) /\ t[os[q]] = a.h[a.os[q]]
      BY <2>2, <1>8, <1>11, <1>12
    <3>2. RemoteLine(a.h[a.os[q]], q)
      BY <3>1 DEF AnsLines
    <3> HIDE DEF b, t, e, os
    <3> QED
      BY <3>1, <3>2, <1>8
  <2> QED
    BY <2>1, <2>2
<1>15. ASSUME NEW q \in 1..p
       PROVE  AnsweredLine(r.out[q], r.h[r.os[q]], q)
  <2>1. CASE q = p
    <3> HIDE DEF b, t, e, os, out, g
    <3>1. r.out[q] = x /\ r.h[r.os[q]] = e
      BY <2>1, <1>8, <1>9, <1>10, <1>11
    <3> QED
      BY <2>1, <3>1, <1>5, <1>7 DEF AnsweredLine
  <2>2. CASE q # p
    <3>1. q \in 1..(p - 1) /\ q \in 1..Len(os)
      <4>1. Len(os) >= p - 1
        <5>1. Len(os) >= Len(a.os)
          <6>1. CASE known
            BY <6>1, <1>0, <1>2
          <6>2. CASE ~known
            <7>1. os = Append(a.os, b.sel) /\ a.os \in Seq(Nat) /\ b.sel \in Nat
              BY <6>2, <1>0, <1>1, <1>2, <1>3, ListNat
            <7> HIDE DEF os, b
            <7> QED
              BY <7>1, <1>0, AppendProperties
          <6> QED
            BY <6>1, <6>2
        <5> HIDE DEF os
        <5> QED
          BY <5>1, <1>0, <1>11
      <4> HIDE DEF os
      <4> QED
        BY <4>1, <2>2, <1>0, <1>11
    <3>2. t[os[q]] = a.h[a.os[q]]
      BY <2>2, <3>1, <1>12
    <3>3. AnsweredLine(a.out[q], a.h[a.os[q]], q)
      BY <3>1 DEF AnsLines
    <3> HIDE DEF b, t, e, os, out
    <3> QED
      BY <3>1, <3>2, <3>3, <1>8, <1>10
  <2> QED
    BY <2>1, <2>2
<1> HIDE DEF b, t, e, os, out
<1>16. AnsLines(r, p)
  BY <1>8, <1>11, <1>13, <1>14, <1>15 DEF AnsLines
<1> QED
  BY <1>16 DEF r

(* Handler g is the one of line p of both descriptions. *)
AgreedLine(g, p) ==
  /\ g.negotiated
  /\ g.kind = localDesc.medias[p].kind /\ g.kind = remoteDesc[p].kind
  /\ g.rejected => ~remoteDesc[p].on
  /\ g.unsupported => ~localDesc.medias[p].on

(* Handler g is offered in line x. *)
OfferedLine(g, x) ==
  /\ g.kind = x.kind
  /\ g.rejected => ~x.on
  /\ g.unsupported => ~x.on

(* The m= lines of the session, by position. *)
Positions == 1..Len(offerHandlers)

(* The invariant of the lines: every handler is at its index, of the kind of its line in the
   descriptions the state is about, and one that refuses media, or whose line the peer refused,
   is behind a line without a port. *)
LinesInv ==
  /\ \A i \in 1..Len(h) : NewRight(h[i])
  /\ \A p \in Positions : HandlerAt(p).index = p
  /\ state = "unnegotiated" =>
       /\ offerHandlers = <<>> /\ remoteDesc = <<>> /\ localDesc = NoSdp
       /\ \A i \in 1..Len(h) : ~h[i].negotiated
  /\ state = "negotiated" =>
       /\ Len(localDesc.medias) = Len(offerHandlers) /\ Len(remoteDesc) = Len(offerHandlers)
       /\ \A p \in Positions : AgreedLine(HandlerAt(p), p)
  /\ state = "local_offer" => \A p \in Positions : OfferedLine(HandlerAt(p), made.medias[p])
  /\ state = "wait_nego" => \A p \in Positions : OfferedLine(HandlerAt(p), localDesc.medias[p])
  /\ state = "remote_offer" =>
       /\ Len(offerHandlers) <= Len(remoteDesc)
       /\ \A p \in Positions : RemoteLine(HandlerAt(p), p)
  /\ Answering =>
       /\ Len(made.medias) = Len(remoteDesc) /\ Len(offerHandlers) = Len(remoteDesc)
       /\ \A p \in Positions : AnsweredLine(made.medias[p], HandlerAt(p), p)

(* generate_answer answers every line of the offer in its place, unless a media handler
   fails. *)
LEMMA AnswerLines ==
  ASSUME AgentInv, LinesInv, state = "remote_offer", NEW replies,
         \A p \in 1..Len(remoteDesc) : replies[p] # "fail"
  PROVE  AnsLines(GenerateAnswer(replies), Len(remoteDesc))
<1> DEFINE f == Answer(replies)
           last == Len(remoteDesc)
           Right(p) == AnsAt(f[p], p) /\ AnsLines(f[p], p)
           Bad == {p \in 0..last : ~Right(p)}
<1>0. /\ last \in Nat /\ DOMAIN remoteDesc = 1..last
      /\ \A p \in 1..last : remoteDesc[p] \in Media
      /\ localDesc \in Sdp /\ remoteDesc \in Seq(Media)
      /\ h \in Seq(Handler) /\ Len(h) \in Nat
      /\ handlers \in Seq(Nat) /\ offerHandlers \in Seq(Nat)
  <2>1. /\ localDesc \in Sdp /\ remoteDesc \in Seq(Media) /\ h \in Seq(Handler)
        /\ handlers \in Seq(Nat) /\ offerHandlers \in Seq(Nat)
    BY DEF AgentInv, TypeOK
  <2> QED
    BY <2>1, LenProperties, ElementOfSeq
<1>1. GenerateAnswer(replies) = f[last]
  BY DEF GenerateAnswer, Answer, IsAnswer, Turn, Start
<1>2. IsAnswer(f, replies, last)
  BY AnswerExists, <1>0, Zenon DEF Answer
<1>3. \A p \in 0..last : f[p] = IF p = 0 THEN Start ELSE Turn(f[p - 1], p, replies)
  BY <1>2, Zenon DEF IsAnswer
<1> HIDE DEF f
<1>4. Right(0)
  <2>1. f[0] = Start
    BY <1>0, <1>3
  <2>2. <<>> \in Seq(Media) /\ Len(<<>>) = 0
    BY EmptySeq
  <2>3. Start \in Ans
    BY <1>0, <2>2 DEF Start, Ans
  <2>4. /\ Start.hs = handlers /\ Start.os = offerHandlers /\ Start.h = h
        /\ Start.out = <<>> /\ Start.ok
    BY DEF Start
  <2>5. Len(offerHandlers) >= 0
    BY <1>0, LenProperties
  <2>6. Len(h) <= Len(h)
    BY <1>0
  <2>7. AnsInv(Start)
    BY <2>3, <2>4, <2>6 DEF AnsInv, IdsInv, AgentInv
  <2>8. AnsLines(Start, 0)
    <3>1. 1..0 = {}
      OBVIOUS
    <3>2. /\ Len(offerHandlers) <= Len(remoteDesc)
          /\ \A i \in 1..Len(h) : NewRight(h[i])
          /\ \A q \in 1..Len(offerHandlers) : RemoteLine(h[offerHandlers[q]], q)
      BY DEF LinesInv, HandlerAt, Positions
    <3> HIDE DEF Start
    <3> QED
      BY <2>4, <3>1, <3>2 DEF AnsLines
  <2> QED
    BY <2>1, <2>2, <2>4, <2>5, <2>7, <2>8 DEF AnsAt
<1>5. ASSUME NEW p \in 1..last, Right(p - 1)
      PROVE  Right(p)
  <2>1. f[p] = Turn(f[p - 1], p, replies) /\ p \in Nat \ {0} /\ remoteDesc[p] \in Media
    BY <1>0, <1>3
  <2>2. f[p - 1].ok
    BY <1>5 DEF AnsLines
  <2>3. f[p] = AnswerMedia(f[p - 1], p, remoteDesc[p], replies[p])
    BY <2>1, <2>2 DEF Turn
  <2>4. AnsAt(f[p], p)
    BY <2>1, <2>2, <2>3, <1>0, <1>5, AnswerMediaKeeps
  <2>5. AnsLines(f[p], p)
    BY <2>3, <1>0, <1>5, AnswerMediaLines
  <2> QED
    BY <2>4, <2>5
<1>6. ASSUME Bad # {}
      PROVE  FALSE
  <2> HIDE DEF Right
  <2>1. Bad \in SUBSET Nat
    BY <1>0
  <2>2. PICK k \in Bad : \A j \in Bad : k <= j
    BY <1>6, <2>1, Least
  <2>3. k \in 1..last
    BY <1>0, <1>4
  <2>4. k - 1 \in 0..last /\ k - 1 \notin Bad
    BY <1>0, <2>2, <2>3
  <2> QED
    BY <1>5, <2>3, <2>4
<1>7. last \in 0..last
  BY <1>0
<1> QED
  BY <1>1, <1>6, <1>7

(* merge_offer_handlers leaves a line with its handler or gives it a registered one that was
   not negotiated. *)
LEMMA MergeEntries ==
  ASSUME Len(h) \in Nat, DOMAIN h = 1..Len(h), IdsInv, state # "unnegotiated"
  PROVE  /\ Len(MergeOfferHandlers) >= Len(offerHandlers)
         /\ \A p \in 1..Len(MergeOfferHandlers) :
              \/ p \in Positions /\ MergeOfferHandlers[p] = offerHandlers[p]
              \/ ~h[MergeOfferHandlers[p]].negotiated
<1> DEFINE oh == offerHandlers
           fr == Fresh
           S == {i \in DOMAIN h : ~h[i].negotiated /\ i \notin Elems(offerHandlers)}
           slots == Cardinality({q \in DOMAIN oh : Reusable(oh[q])})
           Taken(p) == Reusable(oh[p]) /\ Rank(p) <= Len(fr)
           merged == [p \in DOMAIN oh |-> IF Taken(p) THEN fr[Rank(p)] ELSE oh[p]]
           tail == SubSeq(fr, slots + 1, Len(fr))
           all == merged \o tail
           N == Len(h)
<1>1. /\ Len(oh) \in Nat /\ DOMAIN oh = 1..Len(oh)
      /\ \A p \in 1..Len(oh) : oh[p] \in 1..N
  BY ListElems DEF IdsInv
<1>2. /\ Len(fr) \in Nat
      /\ \A p \in 1..Len(fr) : fr[p] \in 1..N /\ ~h[fr[p]].negotiated
  <2>1. ListOf(fr, N) /\ Elems(fr) = Elems(handlers) \cap S
    BY ListLeft DEF Fresh, IdsInv
  <2> HIDE DEF fr
  <2>2. Len(fr) \in Nat /\ \A p \in 1..Len(fr) : fr[p] \in 1..N /\ fr[p] \in Elems(fr)
    BY <2>1, ListElems
  <2> QED
    BY <2>1, <2>2
<1>3. /\ slots \in Nat
      /\ \A p \in 1..Len(oh) : Taken(p) => Rank(p) \in 1..Len(fr)
  <2>1. /\ slots \in Nat
        /\ \A p \in 1..Len(oh) : Rank(p) \in Nat
        /\ \A p \in 1..Len(oh) : Reusable(oh[p]) => Rank(p) >= 1
    BY <1>1, RanksDiffer
  <2> QED
    BY <2>1, <1>2
<1>4. MergeOfferHandlers = all
  BY DEF MergeOfferHandlers
<1> HIDE DEF slots, Taken, fr
<1>5. /\ \A p \in 1..Len(oh) : merged[p] = IF Taken(p) THEN fr[Rank(p)] ELSE oh[p]
      /\ merged \in Seq(1..N) /\ Len(merged) = Len(oh)
  <2>1. \A p \in 1..Len(oh) : merged[p] = IF Taken(p) THEN fr[Rank(p)] ELSE oh[p]
    BY <1>1
  <2>2. merged \in [1..Len(oh) -> 1..N]
    BY <1>1, <1>2, <1>3
  <2> QED
    BY <2>1, <2>2, <1>1
<1>6. /\ tail \in Seq(1..N) /\ Len(tail) \in Nat
      /\ \A i \in 1..Len(tail) : ~h[tail[i]].negotiated
  <2>1. \A i \in (slots + 1)..Len(fr) : fr[i] \in 1..N
    BY <1>2, <1>3
  <2>2. slots + 1 \in Int /\ Len(fr) \in Int
    BY <1>2, <1>3
  <2>3. /\ tail \in Seq(1..N)
        /\ Len(tail) = IF slots + 1 <= Len(fr) THEN Len(fr) - (slots + 1) + 1 ELSE 0
        /\ \A i \in 1..(Len(fr) - (slots + 1) + 1) : tail[i] = fr[(slots + 1) + i - 1]
    BY <2>1, <2>2, SubSeqProperties
  <2> HIDE DEF tail
  <2>4. Len(tail) \in Nat
    BY <2>3, LenProperties
  <2>5. ASSUME NEW i \in 1..Len(tail)
        PROVE  ~h[tail[i]].negotiated
    <3>1. slots + 1 <= Len(fr) /\ Len(tail) = Len(fr) - (slots + 1) + 1
      BY <2>3, <2>4
    <3>2. (slots + 1) + i - 1 \in 1..Len(fr) /\ tail[i] = fr[(slots + 1) + i - 1]
      BY <3>1, <2>3, <1>2, <1>3
    <3> QED
      BY <3>2, <1>2
  <2> QED
    BY <2>3, <2>4, <2>5
<1> HIDE DEF merged, tail
<1>7. /\ Len(all) = Len(merged) + Len(tail)
      /\ \A i \in 1..Len(merged) + Len(tail) :
           all[i] = IF i <= Len(merged) THEN merged[i] ELSE tail[i - Len(merged)]
  <2>1. merged \in Seq(1..N) /\ tail \in Seq(1..N)
    BY <1>5, <1>6
  <2> HIDE DEF N
  <2> QED
    BY <2>1, ConcatProperties
<1> HIDE DEF all
<1>8. ASSUME NEW p \in 1..Len(all)
      PROVE  \/ p \in 1..Len(oh) /\ all[p] = oh[p]
             \/ ~h[all[p]].negotiated
  <2>1. CASE p <= Len(oh)
    <3>1. p \in 1..Len(oh) /\ all[p] = merged[p]
      BY <2>1, <1>1, <1>5, <1>6, <1>7
    <3> QED
      BY <3>1, <1>2, <1>3, <1>5
  <2>2. CASE p > Len(oh)
    <3>1. p - Len(oh) \in 1..Len(tail)
      BY <2>2, <1>1, <1>5, <1>6, <1>7
    <3>2. all[p] = tail[p - Len(oh)]
      BY <2>2, <1>1, <1>5, <1>6, <1>7
    <3> QED
      BY <3>1, <3>2, <1>6
  <2> QED
    BY <2>1, <2>2, <1>1
<1> QED
  BY <1>1, <1>4, <1>5, <1>6, <1>7, <1>8 DEF Positions

(* What create_offer puts in a line of the merged list: it fails for none, has the kind of
   the handler and a port only where the handler takes media. *)
LEMMA OfferLines ==
  ASSUME AgentInv, LinesInv, state \in Quiet, NEW p \in 1..Len(MergeOfferHandlers)
  PROVE  /\ MediaOffer(p, MergeOfferHandlers) # <<>>
         /\ OfferedLine(h[MergeOfferHandlers[p]], MediaOffer(p, MergeOfferHandlers)[1])
<1> DEFINE list == MergeOfferHandlers
           i == list[p]
           g == h[i]
           agreed == NegotiatedMedia(g)
           x1 == Rejected(agreed[1])
           x2 == [kind |-> g.kind, on |-> FALSE]
           x3 == [kind |-> g.kind, on |-> TRUE]
           x4 == [kind |-> g.kind, on |-> g.kind \in RtpKinds => localDesc.medias[p].on]
           In == p \in DOMAIN localDesc.medias
           mo == MediaOffer(p, list)
<1>1. mo = IF g.disabled \/ g.rejected
           THEN IF agreed = <<>> THEN <<>> ELSE <<x1>>
           ELSE IF g.unsupported THEN <<x2>>
           ELSE IF ~g.negotiated THEN <<x3>>
           ELSE IF ~In THEN <<>> ELSE <<x4>>
  BY Zenon DEF MediaOffer
<1>2. i \in 1..Len(h) /\ g \in Handler /\ NewRight(g)
  <2>1. ListOf(list, Len(h))
    BY InvFacts, MergeIsList DEF AgentInv
  <2>2. p \in 1..Len(list)
    OBVIOUS
  <2> HIDE DEF list
  <2>3. i \in 1..Len(h)
    BY <2>1, <2>2, InvFacts, ListElems
  <2> QED
    BY <2>3, InvFacts DEF LinesInv
<1>3. ASSUME g.negotiated
      PROVE  /\ p \in Positions /\ i = offerHandlers[p]
             /\ state = "negotiated"
             /\ g.index = p /\ AgreedLine(g, p)
             /\ Len(localDesc.medias) = Len(offerHandlers)
             /\ Len(remoteDesc) = Len(offerHandlers)
  <2>1. state # "unnegotiated"
    BY <1>2, <1>3 DEF LinesInv
  <2>2. state = "negotiated"
    BY <2>1 DEF Quiet
  <2>3. p \in Positions /\ i = offerHandlers[p]
    BY <1>3, <2>1, MergeEntries, InvFacts DEF AgentInv
  <2> HIDE DEF list, i
  <2> QED
    BY <2>2, <2>3 DEF LinesInv, HandlerAt
<1>4. ASSUME g.negotiated
      PROVE  In /\ agreed # <<>> /\ x1.kind = g.kind /\ ~x1.on
  <2> DEFINE desc == IF g.offer THEN remoteDesc ELSE localDesc.medias
  <2>1. desc \in Seq(Media) /\ localDesc.medias \in Seq(Media)
    BY InvFacts DEF Sdp
  <2>2. Len(desc) = Len(offerHandlers) /\ desc[p].kind = g.kind
    BY <1>3, <1>4 DEF AgreedLine
  <2>3. p \in DOMAIN desc /\ In /\ p \in 1..Len(desc)
    <3> HIDE DEF list, g, desc
    <3> QED
      BY <1>3, <1>4, <2>1, <2>2, LenProperties DEF Positions
  <2>4. agreed = <<desc[p]>>
    BY <1>3, <1>4, <2>3 DEF NegotiatedMedia
  <2>5. desc[p] \in Media
    <3> HIDE DEF desc
    <3> QED
      BY <2>1, <2>3, ElementOfSeq
  <2> HIDE DEF desc, agreed, list, g
  <2> QED
    BY <2>2, <2>3, <2>4, <2>5 DEF Rejected, Media
<1>5. x2.kind = g.kind /\ ~x2.on /\ x3.kind = g.kind /\ x4.kind = g.kind
  OBVIOUS
<1> HIDE DEF x1, x2, x3, x4, In, agreed, g, i, list, mo
<1>6. CASE g.disabled \/ g.rejected
  <2>1. g.negotiated
    BY <1>2, <1>6 DEF NewRight
  <2>2. mo = <<x1>>
    BY <1>1, <1>4, <1>6, <2>1
  <2>3. mo # <<>> /\ mo[1] = x1
    BY <2>2
  <2>4. OfferedLine(g, x1)
    BY <1>4, <2>1 DEF OfferedLine
  <2> QED
    BY <2>3, <2>4 DEF mo, list, g, i
<1>7. CASE ~g.disabled /\ ~g.rejected /\ g.unsupported
  <2>1. mo = <<x2>>
    BY <1>1, <1>7
  <2>2. mo # <<>> /\ mo[1] = x2
    BY <2>1
  <2>3. OfferedLine(g, x2)
    BY <1>5 DEF OfferedLine
  <2> QED
    BY <2>2, <2>3 DEF mo, list, g, i
<1>8. CASE ~g.disabled /\ ~g.rejected /\ ~g.unsupported
  <2>1. mo = <<x3>> \/ mo = <<x4>>
    BY <1>1, <1>4, <1>8
  <2>2. mo # <<>> /\ (mo[1] = x3 \/ mo[1] = x4)
    BY <2>1
  <2>3. OfferedLine(g, x3) /\ OfferedLine(g, x4)
    BY <1>5, <1>8 DEF OfferedLine
  <2> QED
    BY <2>2, <2>3 DEF mo, list, g, i
<1> QED
  BY <1>6, <1>7, <1>8

-----------------------------------------------------------------------------
(* Each operation keeps the lines.                                         *)

(* A step with the same lists of lines and descriptions may change the handlers that are not
   behind a line, and of the others what the lines do not depend on. *)
LikeHandler(b, a) ==
  /\ b.kind = a.kind /\ b.index = a.index
  /\ (b.rejected <=> a.rejected) /\ (b.unsupported <=> a.unsupported)
  /\ (b.negotiated <=> a.negotiated)

(* While nothing is negotiated the handlers of the lines stay. *)
LEMMA QuietKeeps ==
  ASSUME AgentInv, LinesInv, state \in Quiet, state' = state, offerHandlers' = offerHandlers,
         localDesc' = localDesc, remoteDesc' = remoteDesc,
         \A i \in 1..Len(h') : NewRight(h'[i]),
         \A i \in 1..Len(h) : LikeHandler(h'[i], h[i]),
         \A i \in 1..Len(h') : i \in 1..Len(h) \/ ~h'[i].negotiated
  PROVE  LinesInv'
<1>0. \A p \in Positions : offerHandlers[p] \in 1..Len(h)
  BY InvFacts, ListElems DEF Positions
<1>1. \A p \in Positions : LikeHandler(HandlerAt(p)', HandlerAt(p))
  BY <1>0 DEF HandlerAt
<1>2. Positions' = Positions
  BY DEF Positions
<1>3. \A p \in Positions' : HandlerAt(p)'.index = p
  BY <1>1, <1>2 DEF LinesInv, LikeHandler
<1>4. ASSUME state = "unnegotiated"
      PROVE  /\ offerHandlers' = <<>> /\ remoteDesc' = <<>> /\ localDesc' = NoSdp
             /\ \A i \in 1..Len(h') : ~h'[i].negotiated
  BY <1>4 DEF LinesInv, LikeHandler
<1>5. ASSUME state = "negotiated"
      PROVE  /\ Len(localDesc'.medias) = Len(offerHandlers')
             /\ Len(remoteDesc') = Len(offerHandlers')
             /\ \A p \in Positions' : AgreedLine(HandlerAt(p), p)'
  BY <1>1, <1>2, <1>5 DEF LinesInv, LikeHandler, AgreedLine
<1> QED
  BY <1>3, <1>4, <1>5 DEF LinesInv, Quiet, Answering

(* add_proto_handler *)
LEMMA AddHandlerLines ==
  ASSUME AgentInv, LinesInv, NEW k \in Kinds, AddHandler(k)
  PROVE  LinesInv'
<1> DEFINE g == NewHandler(k, FALSE)
<1>1. NewRight(g) /\ ~g.negotiated /\ g \in Handler
  BY DEF NewHandler, NewRight, Handler
<1>2. /\ state \in Quiet /\ state' = state /\ offerHandlers' = offerHandlers
      /\ localDesc' = localDesc /\ remoteDesc' = remoteDesc
      /\ h' = Append(h, g)
  BY DEF AddHandler, descs
<1> HIDE DEF g
<1>3. /\ Len(h') = Len(h) + 1 /\ h'[Len(h) + 1] = g
      /\ \A i \in 1..Len(h) : h'[i] = h[i]
  BY <1>1, <1>2, InvFacts, AppendProperties
<1>4. \A i \in 1..Len(h') : i \in 1..Len(h) \/ h'[i] = g
  BY <1>3, InvFacts
<1>5. \A i \in 1..Len(h') : NewRight(h'[i])
  BY <1>1, <1>3, <1>4 DEF LinesInv
<1>6. \A i \in 1..Len(h) : LikeHandler(h'[i], h[i])
  BY <1>3 DEF LikeHandler
<1> QED
  BY <1>1, <1>2, <1>4, <1>5, <1>6, QuietKeeps

(* remove_proto_handler *)
LEMMA RemoveHandlerLines ==
  ASSUME AgentInv, LinesInv, NEW i \in DOMAIN h, RemoveHandler(i)
  PROVE  LinesInv'
<1>1. /\ state \in Quiet /\ state' = state /\ offerHandlers' = offerHandlers
      /\ localDesc' = localDesc /\ remoteDesc' = remoteDesc
  BY DEF RemoveHandler, descs
<1>2. \A j \in 1..Len(h) : NewRight(h[j])
  BY DEF LinesInv
<1>3. CASE h[i].negotiated
  <2> DEFINE g == [h[i] EXCEPT !.disabled = TRUE]
  <2>1. h[i] \in Handler /\ i \in 1..Len(h)
    BY InvFacts
  <2>2. LikeHandler(g, h[i]) /\ NewRight(g) /\ g \in Handler
    BY <2>1, <1>3 DEF Handler, LikeHandler, NewRight
  <2>3. h' = [h EXCEPT ![i] = g]
    BY <1>3 DEF RemoveHandler
  <2> HIDE DEF g
  <2>4. /\ Len(h') = Len(h) /\ h'[i] = g
        /\ \A j \in 1..Len(h) : j # i => h'[j] = h[j]
    BY <2>1, <2>2, <2>3, InvFacts, ExceptSeq
  <2>5. \A j \in 1..Len(h) : NewRight(h'[j]) /\ LikeHandler(h'[j], h[j])
    BY <1>2, <2>2, <2>4 DEF LikeHandler
  <2> QED
    BY <1>1, <2>4, <2>5, QuietKeeps
<1>4. CASE ~h[i].negotiated
  <2>1. h' = h
    BY <1>4 DEF RemoveHandler
  <2> QED
    BY <1>1, <1>2, <2>1, QuietKeeps DEF LikeHandler
<1> QED
  BY <1>3, <1>4

(* create_offer *)
LEMMA CreateOfferLines ==
  ASSUME AgentInv, LinesInv, NEW changed \in BOOLEAN, CreateOffer(changed)
  PROVE  LinesInv'
<1> DEFINE list == MergeOfferHandlers
           medias == [p \in DOMAIN list |-> MediaOffer(p, list)[1]]
           n == Len(list)
           at(i) == CHOOSE p \in 1..n : list[p] = i
           b(i) == h[i].offer \/ (AsksHandler(at(i), list) /\ ~h[i].negotiated)
           In(i) == i \in {list[p] : p \in 1..n}
           New(i) == [h[i] EXCEPT !.index = at(i), !.offer = b(i)]
<1>0. /\ state \in Quiet /\ state' = "local_offer"
      /\ offerHandlers' = list /\ h' = Offered(n, list)
      /\ made'.medias = medias
  BY DEF CreateOffer
<1>1. /\ ListOf(list, Len(h)) /\ n \in Nat /\ DOMAIN list = 1..n
      /\ \A p \in 1..n : list[p] \in 1..Len(h)
  BY InvFacts, MergeIsList, ListElems DEF AgentInv
<1>2. \A p \in 1..n : OfferedLine(h[list[p]], MediaOffer(p, list)[1])
  BY <1>0, OfferLines
<1> HIDE DEF list
<1>3. \A p \in 1..n : made'.medias[p] = MediaOffer(p, list)[1]
  BY <1>0, <1>1
<1>4. /\ h' = [i \in DOMAIN h |-> IF In(i) THEN New(i) ELSE h[i]]
  BY <1>0 DEF Offered
<1>5. Len(h') = Len(h)
  BY <1>0, <1>1, InvFacts, OfferedSame DEF SameHandlers
<1>6. ASSUME NEW i \in 1..Len(h)
      PROVE  /\ h'[i] = (IF In(i) THEN New(i) ELSE h[i])
             /\ New(i).kind = h[i].kind /\ New(i).index = at(i)
             /\ (New(i).rejected <=> h[i].rejected)
             /\ (New(i).unsupported <=> h[i].unsupported)
             /\ (New(i).negotiated <=> h[i].negotiated)
             /\ (New(i).disabled <=> h[i].disabled)
  <2>1. h[i] \in Handler /\ i \in DOMAIN h
    BY InvFacts
  <2>2. h'[i] = (IF In(i) THEN New(i) ELSE h[i])
    BY <1>4, <2>1
  <2> HIDE DEF at, b
  <2> QED
    BY <2>1, <2>2 DEF Handler
<1>7. \A p \in 1..n : In(list[p]) /\ at(list[p]) = p
  <2>1. ASSUME NEW p \in 1..n
        PROVE  at(list[p]) = p
    <3>1. \E q \in 1..n : list[q] = list[p]
      OBVIOUS
    <3>2. at(list[p]) \in 1..n /\ list[at(list[p])] = list[p]
      BY <3>1
    <3> HIDE DEF at
    <3> QED
      BY <3>2, <1>1 DEF ListOf, Distinct
  <2> QED
    BY <2>1
<1> HIDE DEF In, New, at, b
<1>8. \A i \in 1..Len(h') : NewRight(h'[i])
  BY <1>5, <1>6 DEF LinesInv, NewRight
<1>9. Positions' = 1..n
  BY <1>0 DEF Positions
<1>10. ASSUME NEW p \in 1..n
       PROVE  HandlerAt(p)'.index = p /\ OfferedLine(HandlerAt(p)', made'.medias[p])
  <2>1. HandlerAt(p)' = New(list[p]) /\ list[p] \in 1..Len(h)
    BY <1>0, <1>1, <1>6, <1>7 DEF HandlerAt
  <2>2. OfferedLine(h[list[p]], made'.medias[p])
    BY <1>2, <1>3
  <2> QED
    BY <2>1, <2>2, <1>6, <1>7 DEF OfferedLine
<1> QED
  BY <1>0, <1>8, <1>9, <1>10 DEF LinesInv, Answering

(* create_offer does not fail unless a media handler does. *)
LEMMA CreateOfferFailsNever ==
  ASSUME Plain, AgentInv, LinesInv, NEW n \in 0..MaxMedias, CreateOfferFails(n)
  PROVE  FALSE
<1> DEFINE list == MergeOfferHandlers
<1>1. Len(list) \in Nat
  BY InvFacts, MergeIsList, ListElems DEF AgentInv
<1>2. /\ state \in Quiet /\ n \in 0..Len(list) /\ n # Len(list)
      /\ MediaOffer(n + 1, list) = <<>>
  BY DEF CreateOfferFails, Plain
<1>3. n + 1 \in 1..Len(list)
  <2> HIDE DEF list
  <2> QED
    BY <1>1, <1>2
<1> QED
  BY <1>2, <1>3, OfferLines

(* create_answer *)
LEMMA CreateAnswerLines ==
  ASSUME Plain, AgentInv, LinesInv, NEW replies \in [DOMAIN remoteDesc -> Replies],
         CreateAnswer(replies)
  PROVE  LinesInv'
<1> DEFINE a == GenerateAnswer(replies)
<1>0. /\ state = "remote_offer" /\ state' = state
      /\ offerHandlers' = a.os /\ h' = a.h
      /\ made' = (IF a.ok THEN [ver |-> local', medias |-> a.out] ELSE NoSdp)
      /\ localDesc' = localDesc /\ remoteDesc' = remoteDesc
  BY DEF CreateAnswer, descs
<1>1. \A p \in 1..Len(remoteDesc) : replies[p] # "fail"
  <2>1. DOMAIN remoteDesc = 1..Len(remoteDesc)
    BY InvFacts, LenProperties
  <2>2. "fail" \notin Replies
    BY DEF Replies, Plain
  <2> QED
    BY <2>1, <2>2
<1>2. AnsLines(a, Len(remoteDesc)) /\ AnsAt(a, Len(remoteDesc))
  BY <1>0, <1>1, AnswerLines, AnswerRight DEF AgentInv
<1> HIDE DEF a
<1>3. /\ a.ok /\ Len(a.out) = Len(remoteDesc) /\ Len(a.os) = Len(remoteDesc)
      /\ made'.medias = a.out
  <2>1. a.ok
    BY <1>2 DEF AnsLines
  <2>2. Len(a.os) \in Nat /\ Len(remoteDesc) \in Nat
    <3>1. a.os \in Seq(Nat)
      BY <1>2, AnsParts DEF AnsAt, AnsInv
    <3> QED
      BY <3>1, InvFacts, LenProperties
  <2> QED
    BY <1>0, <1>2, <2>1, <2>2 DEF AnsLines, AnsAt
<1>4. /\ \A i \in 1..Len(h') : NewRight(h'[i])
      /\ \A p \in Positions' : RemoteLine(HandlerAt(p)', p)
      /\ \A p \in Positions' : AnsweredLine(made'.medias[p], HandlerAt(p)', p)
  BY <1>0, <1>2, <1>3 DEF AnsLines, Positions, HandlerAt
<1>5. Len(offerHandlers') = Len(remoteDesc') /\ Len(remoteDesc') \in Nat
  BY <1>0, <1>3, InvFacts, LenProperties
<1>6. \A p \in Positions' : HandlerAt(p)'.index = p
  BY <1>4 DEF RemoteLine
<1>7. /\ \A p \in Positions' : RemoteLine(HandlerAt(p), p)'
      /\ \A p \in Positions' : AnsweredLine(made.medias[p], HandlerAt(p), p)'
  BY <1>0, <1>4 DEF RemoteLine, AnsweredLine
<1> QED
  BY <1>0, <1>3, <1>4, <1>5, <1>6, <1>7 DEF LinesInv, Answering

(* set_local_description with an offer *)
LEMMA SetLocalOfferLines ==
  ASSUME AgentInv, LinesInv, SetLocalOffer
  PROVE  LinesInv'
<1>1. /\ state = "local_offer" /\ state' = "wait_nego" /\ localDesc' = made
      /\ offerHandlers' = offerHandlers /\ h' = h
  BY DEF SetLocalOffer, lists
<1>2. Positions' = Positions /\ \A p : HandlerAt(p)' = HandlerAt(p)
  BY <1>1 DEF Positions, HandlerAt
<1> QED
  BY <1>1, <1>2 DEF LinesInv, Answering

(* commit_state_operations in a state other than the one of an offer: the handlers of the
   lines are negotiated, the others stay. *)
LEMMA CommitLines ==
  ASSUME AgentInv, state # "local_offer", NEW hs, SameHandlers(hs), CommitNegotiated(hs),
         offerHandlers' = offerHandlers
  PROVE  /\ Len(h') = Len(h)
         /\ \A i \in 1..Len(h) :
              IF i \in Elems(offerHandlers)
              THEN /\ h'[i].negotiated
                   /\ h'[i].kind = hs[i].kind /\ h'[i].index = hs[i].index
                   /\ (h'[i].rejected <=> hs[i].rejected)
                   /\ (h'[i].unsupported <=> hs[i].unsupported)
              ELSE h'[i] = hs[i]
<1> DEFINE New(i) == [hs[i] EXCEPT !.negotiated = TRUE]
<1>1. Len(h') = Len(h)
  BY InvFacts, CommitRight
<1>2. h' = [i \in DOMAIN h |-> IF i \in Elems(offerHandlers) THEN New(i) ELSE hs[i]]
  BY DEF CommitNegotiated
<1>3. ASSUME NEW i \in 1..Len(h)
      PROVE  /\ h'[i] = IF i \in Elems(offerHandlers) THEN New(i) ELSE hs[i]
             /\ New(i).negotiated /\ New(i).kind = hs[i].kind /\ New(i).index = hs[i].index
             /\ (New(i).rejected <=> hs[i].rejected)
             /\ (New(i).unsupported <=> hs[i].unsupported)
  <2>1. i \in DOMAIN h
    BY InvFacts
  <2>2. h'[i] = IF i \in Elems(offerHandlers) THEN New(i) ELSE hs[i]
    BY <1>2, <2>1
  <2>3. hs[i] \in Handler
    BY ElementOfSeq DEF SameHandlers
  <2> QED
    BY <2>2, <2>3 DEF Handler
<1> HIDE DEF New
<1> QED
  BY <1>1, <1>3

(* set_local_description with an answer *)
LEMMA SetLocalAnswerLines ==
  ASSUME AgentInv, LinesInv, SetLocalAnswer
  PROVE  LinesInv'
<1>0. /\ state = "remote_offer" /\ made # NoSdp /\ state' = "negotiated"
      /\ localDesc' = made /\ CommitNegotiated(h) /\ offerHandlers' = offerHandlers
      /\ remoteDesc' = remoteDesc
  BY DEF SetLocalAnswer
<1>1. /\ Len(h') = Len(h)
      /\ \A i \in 1..Len(h) :
           IF i \in Elems(offerHandlers)
           THEN /\ h'[i].negotiated
                /\ h'[i].kind = h[i].kind /\ h'[i].index = h[i].index
                /\ (h'[i].rejected <=> h[i].rejected)
                /\ (h'[i].unsupported <=> h[i].unsupported)
           ELSE h'[i] = h[i]
  BY <1>0, SameItself, CommitLines
<1>2. \A p \in Positions : /\ offerHandlers[p] \in 1..Len(h)
                           /\ offerHandlers[p] \in Elems(offerHandlers)
  BY InvFacts, ListElems DEF Positions
<1>3. Positions' = Positions
  BY <1>0 DEF Positions
<1>4. \A i \in 1..Len(h') : NewRight(h'[i])
  BY <1>1 DEF LinesInv, NewRight
<1>5. /\ Len(made.medias) = Len(remoteDesc) /\ Len(offerHandlers) = Len(remoteDesc)
      /\ \A p \in Positions : /\ AnsweredLine(made.medias[p], HandlerAt(p), p)
                              /\ RemoteLine(HandlerAt(p), p)
  BY <1>0 DEF LinesInv, Answering
<1>6. ASSUME NEW p \in Positions
      PROVE  HandlerAt(p)'.index = p /\ AgreedLine(HandlerAt(p), p)'
  <2>1. /\ HandlerAt(p)'.negotiated /\ HandlerAt(p)'.kind = HandlerAt(p).kind
        /\ HandlerAt(p)'.index = HandlerAt(p).index
        /\ (HandlerAt(p)'.rejected <=> HandlerAt(p).rejected)
        /\ (HandlerAt(p)'.unsupported <=> HandlerAt(p).unsupported)
    BY <1>0, <1>1, <1>2 DEF HandlerAt
  <2>2. AnsweredLine(made.medias[p], HandlerAt(p), p) /\ RemoteLine(HandlerAt(p), p)
    BY <1>5
  <2> QED
    BY <1>0, <2>1, <2>2 DEF AgreedLine, AnsweredLine, RemoteLine
<1> QED
  BY <1>0, <1>3, <1>4, <1>5, <1>6 DEF LinesInv, Answering

(* update_rejected_medias marks the handlers of the lines without a port. *)
LEMMA RejectedLines ==
  ASSUME AgentInv, NEW ms \in Seq(Media), Len(offerHandlers) <= Len(ms)
  PROVE  LET g == UpdateRejected(ms)
         IN  /\ \A i \in 1..Len(h) : i \notin Elems(offerHandlers) => g[i] = h[i]
             /\ \A i \in 1..Len(h) :
                  /\ g[i].kind = h[i].kind /\ g[i].index = h[i].index
                  /\ (g[i].negotiated <=> h[i].negotiated)
                  /\ (g[i].unsupported <=> h[i].unsupported)
             /\ \A p \in Positions :
                  g[offerHandlers[p]].rejected => HandlerAt(p).rejected \/ ~ms[p].on
<1> DEFINE In(i) == \E p \in DOMAIN ms \cap DOMAIN offerHandlers :
                       offerHandlers[p] = i /\ ~ms[p].on
           New(i) == [h[i] EXCEPT !.rejected = TRUE]
           g == UpdateRejected(ms)
<1>0. /\ DOMAIN offerHandlers = Positions /\ Distinct(offerHandlers)
      /\ \A p \in Positions : offerHandlers[p] \in 1..Len(h)
  BY InvFacts, ListElems DEF Positions, ListOf
<1>1. g = [i \in DOMAIN h |-> IF In(i) THEN New(i) ELSE h[i]]
  BY DEF UpdateRejected
<1>2. ASSUME NEW i \in 1..Len(h)
      PROVE  /\ g[i] = IF In(i) THEN New(i) ELSE h[i]
             /\ New(i).kind = h[i].kind /\ New(i).index = h[i].index
             /\ (New(i).negotiated <=> h[i].negotiated)
             /\ (New(i).unsupported <=> h[i].unsupported)
  <2>1. i \in DOMAIN h /\ h[i] \in Handler
    BY InvFacts
  <2>2. g[i] = IF In(i) THEN New(i) ELSE h[i]
    BY <1>1, <2>1
  <2> QED
    BY <2>1, <2>2 DEF Handler
<1>3. \A i : In(i) => i \in Elems(offerHandlers)
  BY DEF Elems
<1>4. \A p \in Positions : In(offerHandlers[p]) => ~ms[p].on
  BY <1>0 DEF Distinct
<1> HIDE DEF In, New, g
<1>5. ASSUME NEW p \in Positions, g[offerHandlers[p]].rejected
      PROVE  HandlerAt(p).rejected \/ ~ms[p].on
  BY <1>0, <1>2, <1>4, <1>5 DEF HandlerAt
<1>6. \A i \in 1..Len(h) : i \notin Elems(offerHandlers) => g[i] = h[i]
  BY <1>2, <1>3
<1>7. \A i \in 1..Len(h) :
        /\ g[i].kind = h[i].kind /\ g[i].index = h[i].index
        /\ (g[i].negotiated <=> h[i].negotiated)
        /\ (g[i].unsupported <=> h[i].unsupported)
  BY <1>2
<1> QED
  BY <1>5, <1>6, <1>7 DEF g

(* set_remote_description with an answer *)
LEMMA SetRemoteAnswerLines ==
  ASSUME AgentInv, LinesInv, NEW ms \in PeerAnswers(localDesc.medias), NEW v,
         SetRemoteAnswer(ms, v)
  PROVE  LinesInv'
<1> DEFINE hs == UpdateRejected(ms)
           last == Len(localDesc.medias)
<1>0. /\ state = "wait_nego" /\ state' = "negotiated"
      /\ remoteDesc' = ms /\ localDesc' = localDesc
      /\ CommitNegotiated(hs) /\ offerHandlers' = offerHandlers
  BY DEF SetRemoteAnswer
<1>1. /\ last \in Nat /\ ms \in Seq(Media) /\ Len(ms) = last /\ last = Len(offerHandlers)
      /\ \A p \in 1..last : /\ ms[p].kind = localDesc.medias[p].kind
                            /\ ms[p].on => localDesc.medias[p].on
  <2>1. localDesc.medias \in Seq(Media)
    BY InvFacts, SdpParts
  <2>2. DOMAIN localDesc.medias = 1..last /\ last \in Nat
    BY <2>1, LenProperties
  <2>3. ms \in [1..last -> Media]
    BY <2>2 DEF PeerAnswers
  <2>4. \A p \in 1..last : /\ ms[p].kind = localDesc.medias[p].kind
                           /\ ms[p].on => localDesc.medias[p].on
    BY <2>2 DEF PeerAnswers
  <2>5. last = Len(offerHandlers)
    BY <1>0 DEF AgentInv, LinesMade, HandlerPerMedia
  <2> QED
    BY <2>2, <2>3, <2>4, <2>5
<1>2. /\ \A i \in 1..Len(h) : i \notin Elems(offerHandlers) => hs[i] = h[i]
      /\ \A i \in 1..Len(h) : /\ hs[i].kind = h[i].kind /\ hs[i].index = h[i].index
                              /\ (hs[i].unsupported <=> h[i].unsupported)
      /\ \A p \in Positions : hs[offerHandlers[p]].rejected => HandlerAt(p).rejected \/ ~ms[p].on
  BY <1>1, RejectedLines
<1>3. SameHandlers(hs)
  BY InvFacts, UpdateRejectedSame
<1> HIDE DEF hs
<1>4. /\ Len(h') = Len(h)
      /\ \A i \in 1..Len(h) :
           IF i \in Elems(offerHandlers)
           THEN /\ h'[i].negotiated
                /\ h'[i].kind = hs[i].kind /\ h'[i].index = hs[i].index
                /\ (h'[i].rejected <=> hs[i].rejected)
                /\ (h'[i].unsupported <=> hs[i].unsupported)
           ELSE h'[i] = hs[i]
  BY <1>0, <1>3, CommitLines
<1>5. \A p \in Positions : /\ offerHandlers[p] \in 1..Len(h)
                           /\ offerHandlers[p] \in Elems(offerHandlers)
  BY InvFacts, ListElems DEF Positions
<1>6. Positions' = Positions /\ Positions = 1..last
  BY <1>0, <1>1 DEF Positions
<1>7. \A i \in 1..Len(h') : NewRight(h'[i])
  BY <1>2, <1>4 DEF LinesInv, NewRight
<1>8. ASSUME NEW p \in Positions
      PROVE  HandlerAt(p)'.index = p /\ AgreedLine(HandlerAt(p), p)'
  <2>1. /\ HandlerAt(p)'.negotiated /\ HandlerAt(p)'.kind = HandlerAt(p).kind
        /\ HandlerAt(p)'.index = HandlerAt(p).index
        /\ (HandlerAt(p)'.rejected => HandlerAt(p).rejected \/ ~ms[p].on)
        /\ (HandlerAt(p)'.unsupported <=> HandlerAt(p).unsupported)
    BY <1>0, <1>2, <1>4, <1>5 DEF HandlerAt
  <2>2. OfferedLine(HandlerAt(p), localDesc.medias[p]) /\ HandlerAt(p).index = p
    BY <1>0 DEF LinesInv
  <2>3. ms[p].kind = localDesc.medias[p].kind /\ (ms[p].on => localDesc.medias[p].on)
    BY <1>1, <1>6
  <2> QED
    BY <1>0, <2>1, <2>2, <2>3 DEF AgreedLine, OfferedLine
<1> QED
  BY <1>0, <1>1, <1>6, <1>7, <1>8 DEF LinesInv, Answering

(* set_remote_description with an offer *)
LEMMA SetRemoteOfferLines ==
  ASSUME Plain, AgentInv, LinesInv, NEW ms \in PeerOffers, NEW v, SetRemoteOffer(ms, v)
  PROVE  LinesInv'
<1>0. /\ state \in Quiet /\ state' = "remote_offer"
      /\ remoteDesc' = ms /\ made' = NoSdp
      /\ h' = (IF state = "negotiated" THEN UpdateRejected(ms) ELSE h)
      /\ offerHandlers' = offerHandlers /\ localDesc' = localDesc
  BY DEF SetRemoteOffer
<1>1. /\ ms \in Seq(Media) /\ Len(ms) >= Len(remoteDesc) /\ Len(ms) \in Nat
      /\ \A p \in DOMAIN remoteDesc : ms[p].kind = remoteDesc[p].kind /\ (ms[p].on => Active(p))
  <2>1. \E n \in 0..MaxMedias : ms \in [1..n -> Media]
    BY DEF PeerOffers, Medias
  <2>2. ms \in Seq(Media)
    BY <2>1, AgentAssumption
  <2> QED
    BY <2>2, LenProperties DEF PeerOffers, Plain
<1>2. Positions' = Positions
  BY <1>0 DEF Positions
<1>3. CASE state = "unnegotiated"
  <2>1. offerHandlers = <<>> /\ h' = h /\ Len(offerHandlers) = 0
    BY <1>0, <1>3, EmptySeq DEF LinesInv
  <2>2. Positions = {}
    BY <2>1 DEF Positions
  <2> QED
    BY <1>0, <1>1, <1>2, <2>1, <2>2 DEF LinesInv, Answering
<1>4. CASE state = "negotiated"
  <2> DEFINE hs == UpdateRejected(ms)
  <2>0. /\ Len(offerHandlers) = Len(remoteDesc) /\ Len(localDesc.medias) = Len(offerHandlers)
        /\ \A p \in Positions : AgreedLine(HandlerAt(p), p) /\ HandlerAt(p).index = p
    BY <1>4 DEF LinesInv
  <2>1. /\ \A i \in 1..Len(h) : i \notin Elems(offerHandlers) => hs[i] = h[i]
        /\ \A i \in 1..Len(h) : /\ hs[i].kind = h[i].kind /\ hs[i].index = h[i].index
                                /\ (hs[i].negotiated <=> h[i].negotiated)
                                /\ (hs[i].unsupported <=> h[i].unsupported)
        /\ \A p \in Positions :
             hs[offerHandlers[p]].rejected => HandlerAt(p).rejected \/ ~ms[p].on
    BY <1>1, <2>0, RejectedLines
  <2>2. Len(hs) = Len(h) /\ h' = hs
    BY <1>0, <1>4, InvFacts, UpdateRejectedSame DEF SameHandlers
  <2> HIDE DEF hs
  <2>3. \A p \in Positions : /\ offerHandlers[p] \in 1..Len(h)
                             /\ offerHandlers[p] \in Elems(offerHandlers)
    BY InvFacts, ListElems DEF Positions
  <2>4. DOMAIN remoteDesc = Positions /\ DOMAIN localDesc.medias = Positions
    BY <2>0, InvFacts, SdpParts, LenProperties DEF Positions
  <2>5. \A i \in 1..Len(h) : i \in Elems(offerHandlers) => h[i].negotiated
    <3>1. \A i \in Elems(offerHandlers) : \E p \in Positions : offerHandlers[p] = i
      BY InvFacts, ListElems DEF Elems, Positions
    <3> QED
      BY <3>1, <2>0 DEF AgreedLine, HandlerAt
  <2>6. \A i \in 1..Len(h') : NewRight(h'[i])
    BY <2>1, <2>2, <2>5 DEF LinesInv, NewRight
  <2>7. ASSUME NEW p \in Positions
        PROVE  HandlerAt(p)'.index = p /\ RemoteLine(HandlerAt(p), p)'
    <3>1. /\ HandlerAt(p)'.kind = HandlerAt(p).kind
          /\ HandlerAt(p)'.index = HandlerAt(p).index
          /\ (HandlerAt(p)'.rejected => HandlerAt(p).rejected \/ ~ms[p].on)
      BY <1>0, <2>1, <2>2, <2>3 DEF HandlerAt
    <3>2. AgreedLine(HandlerAt(p), p) /\ HandlerAt(p).index = p
      BY <2>0
    <3>3. ms[p].kind = remoteDesc[p].kind /\ (ms[p].on => remoteDesc[p].on)
      BY <1>1, <2>4 DEF Active
    <3> QED
      BY <1>0, <2>4, <3>1, <3>2, <3>3 DEF AgreedLine, RemoteLine
  <2>8. Len(offerHandlers') <= Len(remoteDesc')
    BY <1>0, <1>1, <2>0
  <2> QED
    BY <1>0, <1>2, <2>6, <2>7, <2>8 DEF LinesInv, Answering
<1> QED
  BY <1>0, <1>3, <1>4 DEF Quiet

(* A new agent has no lines. *)
LEMMA LinesInit ==
  ASSUME Init
  PROVE  LinesInv
<1>1. Len(h) = 0 /\ Len(offerHandlers) = 0
  BY EmptySeq DEF Init
<1>2. 1..Len(h) = {} /\ Positions = {}
  BY <1>1 DEF Positions
<1> QED
  BY <1>2 DEF Init, LinesInv, Answering

(* Every operation of the user and of the peer keeps the lines. *)
LEMMA LinesStep ==
  ASSUME Plain, AgentInv, LinesInv, [Next]_vars
  PROVE  LinesInv'
<1>1. ASSUME NEW k \in Kinds, AddHandler(k)
      PROVE  LinesInv'
  BY <1>1, AddHandlerLines
<1>2. ASSUME NEW i \in DOMAIN h, RemoveHandler(i)
      PROVE  LinesInv'
  BY <1>2, RemoveHandlerLines
<1>3. ASSUME NEW changed \in BOOLEAN, CreateOffer(changed)
      PROVE  LinesInv'
  BY <1>3, CreateOfferLines
<1>4. ASSUME NEW n \in 0..MaxMedias, CreateOfferFails(n)
      PROVE  LinesInv'
  BY <1>4, CreateOfferFailsNever
<1>12. CASE CreateOfferFailsEarly
  BY <1>12 DEF CreateOfferFailsEarly, Plain
<1>5. CASE CancelOffer
  BY <1>5 DEF CancelOffer, Plain
<1>6. ASSUME NEW replies \in [DOMAIN remoteDesc -> Replies], CreateAnswer(replies)
      PROVE  LinesInv'
  BY <1>6, CreateAnswerLines
<1>7. CASE SetLocalOffer
  BY <1>7, SetLocalOfferLines
<1>8. CASE SetLocalAnswer
  BY <1>8, SetLocalAnswerLines
<1>9. ASSUME NEW ms \in PeerAnswers(localDesc.medias), NEW v \in PeerVersions(ms),
             SetRemoteAnswer(ms, v)
      PROVE  LinesInv'
  BY <1>9, SetRemoteAnswerLines
<1>10. ASSUME NEW ms \in PeerOffers, NEW v \in PeerVersions(ms), SetRemoteOffer(ms, v)
       PROVE  LinesInv'
  BY <1>10, SetRemoteOfferLines
<1>11. CASE UNCHANGED vars
  BY <1>11 DEF vars, lists, descs, LinesInv, Answering, Positions, HandlerAt, AgreedLine,
               OfferedLine, RemoteLine, AnsweredLine
<1> QED
  BY <1>1, <1>2, <1>3, <1>4, <1>5, <1>6, <1>7, <1>8, <1>9, <1>10, <1>11, <1>12 DEF Next

-----------------------------------------------------------------------------
(* Theorems about the lines.                                               *)

(* The invariant holds from the start. *)
LEMMA LinesAlways == Plain => (Spec => [](AgentInv /\ LinesInv))
<1> SUFFICES ASSUME Plain
             PROVE  Spec => [](AgentInv /\ LinesInv)
  OBVIOUS
<1>1. Init => AgentInv /\ LinesInv
  BY AgentInvInit, LinesInit
<1>2. AgentInv /\ LinesInv /\ [Next]_vars => (AgentInv /\ LinesInv)'
  BY AgentInvStep, LinesStep
<1> QED
  BY <1>1, <1>2, PTL DEF Spec

(* Every answer has the lines of the offer, kind by kind, leaves a port of zero at zero and
   is made with handlers of the kind of the line (create_media_answer), for any number of
   handlers, lines and negotiations. *)
THEOREM AnswersMatch == Plain => (Spec => []AnswerMatches)
<1>1. AgentInv /\ LinesInv => AnswerMatches
  <2> SUFFICES ASSUME AgentInv, LinesInv, Answering
               PROVE  /\ DOMAIN made.medias = DOMAIN remoteDesc
                      /\ \A p \in DOMAIN made.medias :
                           /\ made.medias[p].kind = remoteDesc[p].kind
                           /\ made.medias[p].on => remoteDesc[p].on
                           /\ HandlerAt(p).kind = remoteDesc[p].kind
    BY DEF AnswerMatches
  <2>1. /\ DOMAIN made.medias = 1..Len(made.medias) /\ DOMAIN remoteDesc = 1..Len(remoteDesc)
    BY InvFacts, SdpParts, LenProperties
  <2> QED
    BY <2>1 DEF LinesInv, Answering, Positions, AnsweredLine, RemoteLine
<1> QED
  BY <1>1, LinesAlways, PTL

(* Between negotiations a handler is found at its index, and the handler of a line in use was
   negotiated and takes media, so that the next offer keeps the line
   (get_negotiated_media, create_proper_media_offer). *)
THEOREM LinesStayInStep == Plain => (Spec => []LinesInStep)
<1>1. AgentInv /\ LinesInv => LinesInStep
  <2> SUFFICES ASSUME AgentInv, LinesInv, state = "negotiated", NEW p \in DOMAIN offerHandlers
               PROVE  /\ HandlerAt(p).index = p /\ HandlerAt(p).negotiated
                      /\ HandlerAt(p).unsupported => ~Active(p)
    BY DEF LinesInStep
  <2>1. p \in Positions
    BY InvFacts, ListElems DEF Positions
  <2> QED
    BY <2>1 DEF LinesInv, AgreedLine, Active
<1> QED
  BY <1>1, LinesAlways, PTL

(* Where its diagram lets the agent make an offer or an answer, it can: neither
   get_negotiated_media nor the previous local description lacks the line it is asked for
   (create_offer_impl, generate_answer). *)
THEOREM AgentNeverStuck == Plain => (Spec => []NeverStuck)
<1>1. AgentInv /\ LinesInv => NeverStuck
  <2> SUFFICES ASSUME AgentInv, LinesInv
               PROVE  AnswerPossible /\ OfferPossible
    BY DEF NeverStuck
  <2>1. AnswerPossible
    <3> DEFINE replies == [p \in DOMAIN remoteDesc |-> "accept"]
    <3> SUFFICES ASSUME state = "remote_offer"
                 PROVE  GenerateAnswer(replies).ok
      BY DEF AnswerPossible
    <3>1. \A p \in 1..Len(remoteDesc) : replies[p] # "fail"
      <4>1. DOMAIN remoteDesc = 1..Len(remoteDesc)
        BY InvFacts, LenProperties
      <4> QED
        BY <4>1
    <3> HIDE DEF replies
    <3> QED
      BY <3>1, AnswerLines DEF AnsLines
  <2>2. OfferPossible
    <3> SUFFICES ASSUME state \in Quiet, NEW p \in DOMAIN MergeOfferHandlers
                 PROVE  MediaOffer(p, MergeOfferHandlers) # <<>>
      BY DEF OfferPossible
    <3>1. p \in 1..Len(MergeOfferHandlers)
      BY InvFacts, MergeIsList, ListElems DEF AgentInv
    <3> QED
      BY <3>1, OfferLines
  <2> QED
    BY <2>1, <2>2
<1> QED
  BY <1>1, LinesAlways, PTL
=============================================================================
