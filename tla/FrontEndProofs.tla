--------------------------- MODULE FrontEndProofs ---------------------------
(***************************************************************************)
(* What a daemon tells its clients, proved for every store, every request  *)
(* and every run of ddhcpctl: the store has one option of a code, and a    *)
(* reply that fits into a packet has the message type, the options asked   *)
(* for and the lease time with the values of the moment.                   *)
(***************************************************************************)
EXTENDS FrontEnd, FiniteSetTheorems, SequenceTheorems, WellFoundedInduction, TLAPS

-----------------------------------------------------------------------------
(* First, last and the number of those before *)

\* A set of numbers has a first one.
LEMMA FirstOf ==
  ASSUME NEW S \in SUBSET Nat, S # {}
  PROVE  First(S) \in S /\ \A j \in S : First(S) <= j
<1> DEFINE R == OpToRel(<, Nat)
<1>1. IsWellFoundedOn(R, Nat)
  BY NatLessThanWellFounded, Zenon
<1>2. \A x, y \in Nat : <<x, y>> \in R <=> x < y
  BY DEF OpToRel
<1> HIDE DEF R
<1>3. PICK x \in S : \A y \in S : ~ (<<y, x>> \in R)
  BY <1>1, WFMin
<1>4. ASSUME NEW y \in S PROVE x <= y
  <2>1. x \in Nat /\ y \in Nat
    OBVIOUS
  <2>2. ~ (y < x)
    BY <1>2, <1>3, <2>1
  <2> QED
    BY <2>1, <2>2
<1>5. \E z \in S : \A y \in S : z <= y
  BY <1>4
<1> QED
  BY <1>5 DEF First

LEMMA SmallRest ==
  ASSUME NEW a \in Nat, NEW b \in Nat, a < b
  PROVE  a % b = a
  OBVIOUS

LEMMA RestBounds ==
  ASSUME NEW a \in Nat, NEW b \in Nat, b > 0
  PROVE  a % b \in Nat /\ a % b <= a /\ a % b < b
<1>1. a % b \in 0 .. b - 1
  OBVIOUS
<1>2. CASE a < b
  BY <1>1, <1>2, SmallRest
<1>3. CASE ~ (a < b)
  BY <1>1, <1>3
<1> QED
  BY <1>1, <1>2, <1>3

LEMMA WholeSequence ==
  ASSUME NEW T, NEW q \in Seq(T)
  PROVE  SubSeq(q, 1, Len(q)) = q
  OBVIOUS

LEMMA LastIs ==
  ASSUME NEW S \in SUBSET Nat, NEW n \in S, \A j \in S : j <= n
  PROVE  Last(S) = n
<1>1. ASSUME NEW j \in S PROVE n >= j
  BY <1>1
<1>2. Last(S) \in S /\ \A j \in S : Last(S) >= j
  BY <1>1 DEF Last
<1>3. Last(S) \in Nat /\ n \in Nat /\ Last(S) >= n /\ Last(S) <= n
  BY <1>2
<1> QED
  BY <1>3

LEMMA UpTo ==
  ASSUME NEW n \in Nat
  PROVE  IsFiniteSet(1 .. n) /\ Cardinality(1 .. n) = n
  BY FS_Interval

\* A finite set of numbers up to n has a last one.
LEMMA LastIn ==
  ASSUME NEW n \in Nat, NEW S \in SUBSET (1 .. n), S # {}
  PROVE  Last(S) \in S
<1> DEFINE D == {n - j : j \in S}
<1>1. D \in SUBSET Nat /\ D # {}
  <2>1. ASSUME NEW j \in S PROVE n - j \in Nat
    <3>1. j \in 1 .. n
      OBVIOUS
    <3> QED
      BY <3>1
  <2> QED
    BY <2>1
<1>2. PICK x \in D : \A y \in D : x <= y
  <2> HIDE DEF D
  <2> QED
    BY <1>1, FirstOf
<1>3. PICK z \in S : x = n - z
  OBVIOUS
<1>4. ASSUME NEW j \in S PROVE j <= z
  <2>1. n - j \in D
    OBVIOUS
  <2>2. n - z <= n - j
    BY <1>2, <1>3, <2>1
  <2>3. j \in Nat /\ z \in Nat
    OBVIOUS
  <2> QED
    BY <2>2, <2>3
<1>5. S \in SUBSET Nat
  OBVIOUS
<1>6. Last(S) = z
  BY <1>4, <1>5, LastIs
<1> QED
  BY <1>6

\* Numbering the elements of a finite set of numbers from 1, in order, gives
\* every element a number of its own and leaves none out.
LEMMA Numbered ==
  ASSUME NEW S \in SUBSET Nat, IsFiniteSet(S)
  PROVE  LET rank(i) == Cardinality({j \in S : j <= i})
         IN /\ Cardinality(S) \in Nat
            /\ \A i \in S : rank(i) \in 1 .. Cardinality(S)
            /\ \A i, k \in S : rank(i) = rank(k) => i = k
            /\ \A n \in 1 .. Cardinality(S) : \E i \in S : rank(i) = n
<1> DEFINE upto(i) == {j \in S : j <= i}
           rank(i) == Cardinality(upto(i))
           f == [i \in S |-> rank(i)]
           N == Cardinality(S)
<1>1. N \in Nat
  BY FS_CardinalityType
<1>2. ASSUME NEW i \in S
      PROVE  IsFiniteSet(upto(i)) /\ rank(i) \in Nat /\ rank(i) <= N /\ rank(i) # 0
  <2>1. IsFiniteSet(upto(i)) /\ rank(i) <= N
    BY FS_Subset
  <2>2. rank(i) \in Nat
    BY <2>1, FS_CardinalityType
  <2>3. i \in upto(i)
    OBVIOUS
  <2>4. rank(i) # 0
    BY <2>1, <2>3, FS_EmptySet
  <2> QED
    BY <2>1, <2>2, <2>4
<1>3. ASSUME NEW i \in S, NEW k \in S, i < k
      PROVE  rank(i) # rank(k)
  <2>0. i \in Nat /\ k \in Nat /\ S \subseteq Nat
    OBVIOUS
  <2>1. upto(i) \in SUBSET upto(k) /\ k \in upto(k) /\ k \notin upto(i)
    <3>1. ASSUME NEW j \in S, j <= i PROVE j <= k
      BY <1>3, <2>0, <3>1
    <3>2. k <= k /\ ~ (k <= i)
      BY <1>3, <2>0
    <3> QED
      BY <3>1, <3>2
  <2> HIDE DEF upto
  <2>2. IsFiniteSet(upto(k))
    BY <1>2
  <2>3. upto(k) # upto(i)
    BY <2>1
  <2> QED
    BY <2>1, <2>2, <2>3, FS_Subset
<1>4. ASSUME NEW i \in S, NEW k \in S, rank(i) = rank(k)
      PROVE  i = k
  <2>1. i \in Nat /\ k \in Nat
    OBVIOUS
  <2>2. ~ (i < k) /\ ~ (k < i)
    BY <1>3, <1>4
  <2> QED
    BY <2>1, <2>2
<1> HIDE DEF rank, upto, N
<1>5. ASSUME NEW i \in S PROVE rank(i) \in 1 .. N
  BY <1>1, <1>2
<1>6. f \in Injection(S, 1 .. N)
  <2>1. f \in [S -> 1 .. N] /\ DOMAIN f = S
    BY <1>5
  <2>2. \A i, k \in S : f[i] = f[k] => i = k
    BY <1>4
  <2> HIDE DEF f
  <2> QED
    BY <2>1, <2>2 DEF Injection, IsInjective
<1>7. IsFiniteSet(1 .. N) /\ Cardinality(1 .. N) = N
  BY <1>1, FS_Interval
<1>8. f \in Surjection(S, 1 .. N)
  BY <1>6, <1>7, FS_Injection DEF N
<1>9. ASSUME NEW n \in 1 .. N PROVE \E i \in S : rank(i) = n
  BY <1>8 DEF Surjection
<1> QED
  BY <1>1, <1>4, <1>5, <1>9 DEF rank, upto, N

-----------------------------------------------------------------------------
(* The store *)

\* A store of options out of T, at most one of each code.
IsStore(s, T) ==
  /\ s \in Seq(T)
  /\ \A i, j \in DOMAIN s : s[i].code = s[j].code => i = j

\* find_option finds the first option of a code that is there.
LEMMA Found ==
  ASSUME NEW options, DOMAIN options \in SUBSET Nat, NEW code, has_option(options, code)
  PROVE  LET i == First(Positions(options, {code}))
         IN /\ i \in DOMAIN options /\ options[i].code = code
            /\ find_option(options, code) = options[i]
            /\ \A j \in DOMAIN options : options[j].code = code => i <= j
<1> DEFINE P == Positions(options, {code})
<1>1. P \in SUBSET Nat /\ P # {}
  BY DEF Positions, has_option
<1>2. First(P) \in P /\ \A j \in P : First(P) <= j
  <2> HIDE DEF P
  <2> QED
    BY <1>1, FirstOf
<1>3. find_option(options, code) = options[First(P)]
  BY DEF find_option
<1>4. \A j \in DOMAIN options : options[j].code = code => j \in P
  BY DEF Positions
<1>5. First(P) \in DOMAIN options /\ options[First(P)].code = code
  BY <1>2 DEF Positions
<1> QED
  BY <1>2, <1>3, <1>4, <1>5

LEMMA HasOption ==
  ASSUME NEW options, NEW code
  PROVE  has_option(options, code) <=> \E i \in DOMAIN options : options[i].code = code
  BY DEF has_option, Positions

LEMMA StoreDomain ==
  ASSUME NEW T, NEW s, IsStore(s, T)
  PROVE  /\ Len(s) \in Nat /\ DOMAIN s = 1 .. Len(s) /\ DOMAIN s \in SUBSET Nat
         /\ \A i \in DOMAIN s : s[i] \in T
<1>1. s \in Seq(T)
  BY DEF IsStore
<1> QED
  BY <1>1

LEMMA StoredOption ==
  ASSUME NEW T, NEW s, IsStore(s, T), NEW code, has_option(s, code)
  PROVE  find_option(s, code) \in T /\ find_option(s, code).code = code
<1> DEFINE i == First(Positions(s, {code}))
<1>1. DOMAIN s \in SUBSET Nat /\ \A j \in DOMAIN s : s[j] \in T
  BY StoreDomain
<1>2. i \in DOMAIN s /\ s[i].code = code /\ find_option(s, code) = s[i]
  BY <1>1, Found
<1> QED
  BY <1>1, <1>2

LEMMA SetInStore ==
  ASSUME NEW T, NEW s, IsStore(s, T), NEW option \in T
  PROVE  IsStore(set_option_in_store(s, option), T)
<1>0. s \in Seq(T) /\ Len(s) \in Nat /\ DOMAIN s = 1 .. Len(s) /\ DOMAIN s \in SUBSET Nat
  BY StoreDomain DEF IsStore
<1>1. CASE has_option(s, option.code)
  <2> DEFINE k == First(Positions(s, {option.code}))
             t == [s EXCEPT ![k] = option]
  <2>1. k \in DOMAIN s /\ s[k].code = option.code
    BY <1>0, <1>1, Found
  <2> HIDE DEF k
  <2>2. t \in Seq(T) /\ DOMAIN t = DOMAIN s /\ \A i \in DOMAIN s : t[i].code = s[i].code
    BY <1>0, <2>1
  <2>3. set_option_in_store(s, option) = t
    BY <1>1 DEF set_option_in_store, k
  <2> HIDE DEF t
  <2> QED
    BY <2>2, <2>3 DEF IsStore
<1>2. CASE ~ has_option(s, option.code)
  <2> DEFINE t == Append(s, option)
  <2>1. \A i \in DOMAIN s : s[i].code # option.code
    BY <1>2, HasOption
  <2>2. /\ t \in Seq(T) /\ DOMAIN t = 1 .. Len(s) + 1
        /\ t[Len(s) + 1] = option /\ \A i \in 1 .. Len(s) : t[i] = s[i]
    BY <1>0
  <2>3. set_option_in_store(s, option) = t
    BY <1>2 DEF set_option_in_store
  <2> HIDE DEF t
  <2>4. ASSUME NEW i \in DOMAIN t, NEW j \in DOMAIN t, t[i].code = t[j].code
        PROVE  i = j
    <3>1. CASE i \in DOMAIN s /\ j \in DOMAIN s
      BY <1>0, <2>2, <2>4, <3>1 DEF IsStore
    <3>2. CASE i \notin DOMAIN s \/ j \notin DOMAIN s
      BY <1>0, <2>1, <2>2, <2>4, <3>2
    <3> QED
      BY <3>1, <3>2
  <2> QED
    BY <2>2, <2>3, <2>4 DEF IsStore
<1> QED
  BY <1>1, <1>2

LEMMA Removed ==
  ASSUME NEW T, NEW s \in Seq(T), NEW k \in 1 .. Len(s)
  PROVE  LET t == SubSeq(s, 1, k - 1) \o SubSeq(s, k + 1, Len(s))
         IN /\ t \in Seq(T) /\ Len(t) = Len(s) - 1
            /\ \A i \in 1 .. Len(s) - 1 : t[i] = IF i < k THEN s[i] ELSE s[i + 1]
<1> DEFINE a == SubSeq(s, 1, k - 1)
           b == SubSeq(s, k + 1, Len(s))
           t == a \o b
<1>0. Len(s) \in Nat /\ k \in Nat /\ \A i \in 1 .. Len(s) : s[i] \in T
  OBVIOUS
<1>1. a \in Seq(T) /\ Len(a) = k - 1 /\ \A i \in 1 .. k - 1 : a[i] = s[i]
  BY <1>0
<1>2. b \in Seq(T) /\ Len(b) = Len(s) - k /\ \A i \in 1 .. Len(s) - k : b[i] = s[k + i]
  BY <1>0
<1> HIDE DEF a, b
<1>3. /\ t \in Seq(T) /\ Len(t) = Len(a) + Len(b)
      /\ \A i \in 1 .. Len(a) + Len(b) : t[i] = IF i <= Len(a) THEN a[i] ELSE b[i - Len(a)]
  BY <1>1, <1>2, ConcatProperties
<1> HIDE DEF t
<1>4. ASSUME NEW i \in 1 .. Len(s) - 1 PROVE t[i] = IF i < k THEN s[i] ELSE s[i + 1]
  <2>1. t[i] = IF i <= Len(a) THEN a[i] ELSE b[i - Len(a)]
    BY <1>0, <1>1, <1>2, <1>3
  <2>2. CASE i < k
    BY <1>0, <1>1, <2>1, <2>2
  <2>3. CASE ~ (i < k)
    <3>1. ~ (i <= Len(a)) /\ i - Len(a) \in 1 .. Len(s) - k /\ k + (i - Len(a)) = i + 1
      BY <1>0, <1>1, <2>3
    <3> QED
      BY <1>2, <2>1, <2>3, <3>1
  <2> QED
    BY <2>2, <2>3
<1>5. t \in Seq(T) /\ Len(t) = Len(s) - 1
  BY <1>0, <1>1, <1>2, <1>3
<1> QED
  BY <1>4, <1>5 DEF a, b, t

LEMMA RemoveInStore ==
  ASSUME NEW T, NEW s, IsStore(s, T), NEW code
  PROVE  IsStore(remove_option_in_store(s, code), T)
<1>0. s \in Seq(T) /\ Len(s) \in Nat /\ DOMAIN s = 1 .. Len(s) /\ DOMAIN s \in SUBSET Nat
  BY StoreDomain DEF IsStore
<1>1. CASE has_option(s, code)
  <2> DEFINE k == First(Positions(s, {code}))
             t == SubSeq(s, 1, k - 1) \o SubSeq(s, k + 1, Len(s))
  <2>1. k \in 1 .. Len(s)
    BY <1>0, <1>1, Found
  <2>2. remove_option_in_store(s, code) = t
    BY <1>1 DEF remove_option_in_store
  <2> HIDE DEF k
  <2>3. /\ t \in Seq(T) /\ Len(t) = Len(s) - 1
        /\ \A i \in 1 .. Len(s) - 1 : t[i] = IF i < k THEN s[i] ELSE s[i + 1]
    BY <1>0, <2>1, Removed
  <2> HIDE DEF t
  <2>4. DOMAIN t = 1 .. Len(s) - 1
    BY <2>3
  <2>5. ASSUME NEW i \in DOMAIN t, NEW j \in DOMAIN t, t[i].code = t[j].code
        PROVE  i = j
    <3> DEFINE x == IF i < k THEN i ELSE i + 1
               y == IF j < k THEN j ELSE j + 1
    <3>1. x \in DOMAIN s /\ y \in DOMAIN s /\ t[i] = s[x] /\ t[j] = s[y]
      BY <1>0, <2>1, <2>3, <2>4
    <3>2. x = y
      BY <2>5, <3>1 DEF IsStore
    <3> QED
      BY <1>0, <2>1, <2>4, <3>2
  <2> QED
    BY <2>2, <2>3, <2>5 DEF IsStore
<1>2. CASE ~ has_option(s, code)
  BY <1>2 DEF remove_option_in_store
<1> QED
  BY <1>1, <1>2

\* What dhcp_options_init may add.
DefaultOptions ==
  {Option(SUBNET_MASK, Network), Option(TIME_OFFSET, <<0>>), Option(BROADCAST_ADDRESS, Network),
   Option(ADDRESS_LEASE_TIME, <<300>>), Option(SERVER_IDENTIFIER, Network)}

LEMMA InitialStore ==
  ASSUME NEW T, NEW s, IsStore(s, T), \A option \in DefaultOptions : option \in T
  PROVE  IsStore(dhcp_options_init(s), T)
<1>1. ASSUME NEW t, IsStore(t, T), NEW option \in T
      PROVE  IsStore(set_default(t, option), T)
  BY <1>1, SetInStore DEF set_default
<1> QED
  BY <1>1 DEF dhcp_options_init, DefaultOptions

-----------------------------------------------------------------------------
(* The options of a reply *)

\* The request list of a request, and what of it is in the store.
Listed(request) == find_option_parameter_request_list(request)
StoredOf(request, s) == {i \in DOMAIN Listed(request) : has_option(s, Listed(request)[i])}

\* fill_options gives the options asked for that are in the store, all of
\* them and no others, and empty slots behind them.
LEMMA Filled ==
  ASSUME NEW request, NEW s, NEW additional \in Nat, Listed(request) \in Seq(Nat)
  PROVE  LET f == fill_options(request, s, additional)
             n == Cardinality(StoredOf(request, s))
         IN /\ n \in Nat
            /\ DOMAIN f = 1 .. n + additional
            /\ \A k \in 1 .. n : \E i \in StoredOf(request, s) :
                 f[k] = find_option(s, Listed(request)[i])
            /\ \A i \in StoredOf(request, s) : \E k \in 1 .. n :
                 f[k] = find_option(s, Listed(request)[i])
            /\ \A k \in n + 1 .. n + additional : f[k] = Padding
<1> DEFINE R == Listed(request)
           S == StoredOf(request, s)
           n == Cardinality(S)
           rank(i) == Cardinality({j \in S : j <= i})
           f == fill_options(request, s, additional)
<1>1. S \in SUBSET Nat /\ IsFiniteSet(S)
  <2>1. Len(R) \in Nat /\ DOMAIN R = 1 .. Len(R)
    OBVIOUS
  <2> HIDE DEF R
  <2>2. S \in SUBSET (1 .. Len(R))
    BY <2>1 DEF StoredOf, R
  <2>3. IsFiniteSet(1 .. Len(R))
    BY <2>1, FS_Interval
  <2>4. IsFiniteSet(S)
    BY <2>2, <2>3, FS_Subset
  <2>5. 1 .. Len(R) \subseteq Nat
    BY <2>1
  <2> QED
    BY <2>2, <2>4, <2>5
<1>2. f = [k \in 1 .. n + additional |->
             IF k <= n THEN find_option(s, R[CHOOSE i \in S : rank(i) = k]) ELSE Padding]
  BY DEF fill_options, Listed, StoredOf
<1> HIDE DEF S, R, f
<1>3. /\ n \in Nat
      /\ \A i \in S : rank(i) \in 1 .. n
      /\ \A i, k \in S : rank(i) = rank(k) => i = k
      /\ \A k \in 1 .. n : \E i \in S : rank(i) = k
  BY <1>1, Numbered
<1> HIDE DEF n, rank
<1>4. DOMAIN f = 1 .. n + additional
  BY <1>2
<1>5. ASSUME NEW k \in 1 .. n
      PROVE  \E i \in S : f[k] = find_option(s, R[i])
  <2>1. k \in 1 .. n + additional /\ k <= n
    BY <1>3
  <2>2. (CHOOSE i \in S : rank(i) = k) \in S
    BY <1>3
  <2> QED
    BY <1>2, <2>1, <2>2
<1>6. ASSUME NEW i \in S
      PROVE  \E k \in 1 .. n : f[k] = find_option(s, R[i])
  <2> DEFINE k == rank(i)
  <2>1. k \in 1 .. n + additional /\ k <= n /\ k \in 1 .. n
    <3> HIDE DEF k
    <3>1. k \in 1 .. n
      BY <1>3 DEF k
    <3> QED
      BY <1>3, <3>1
  <2>2. (CHOOSE j \in S : rank(j) = k) = i
    BY <1>3
  <2>3. f[k] = find_option(s, R[i])
    <3> HIDE DEF k
    <3> QED
      BY <1>2, <2>1, <2>2
  <2> QED
    BY <2>1, <2>3
<1>7. ASSUME NEW k \in n + 1 .. n + additional
      PROVE  f[k] = Padding
  <2>1. k \in 1 .. n + additional /\ ~ (k <= n)
    BY <1>3
  <2> QED
    BY <1>2, <2>1
<1> QED
  BY <1>3, <1>4, <1>5, <1>6, <1>7 DEF S, R, f, n

\* Where set_option puts an option: the last slot that takes it.
LEMMA SlotTaken ==
  ASSUME NEW options, DOMAIN options \in SUBSET Nat, NEW option, NEW m \in DOMAIN options,
         options[m].code \in {option.code, PAD},
         \A k \in DOMAIN options : options[k].code \in {option.code, PAD} => k <= m
  PROVE  set_option(options, option) = [options EXCEPT ![m] = option]
<1> DEFINE P == Positions(options, {option.code, PAD})
<1>1. P \in SUBSET Nat /\ m \in P
  BY DEF Positions
<1>2. ASSUME NEW j \in P PROVE j <= m
  BY DEF Positions
<1> HIDE DEF P
<1>3. Last(P) = m
  BY <1>1, <1>2, LastIs
<1>4. P # {}
  BY <1>1
<1> QED
  BY <1>3, <1>4 DEF set_option, P

\* The slots behind the options asked for: the message type in the last one,
\* before it the lease time and the server identifier, if they are there.
LEMMA Defaults ==
  ASSUME NEW T, NEW s, IsStore(s, T), NEW request, Listed(request) \in Seq(Nat),
         NEW type, NEW timed \in BOOLEAN,
         Cardinality(StoredOf(request, s)) + ReservedSlots < Byte
  PROVE  LET f == fill_options(request, s, ReservedSlots)
             n == Cardinality(StoredOf(request, s))
             O == _dhcp_default_options(type, request, s, timed)
         IN /\ DOMAIN O = 1 .. n + 3 /\ O = [k \in DOMAIN O |-> O[k]]
            /\ \A k \in 1 .. n : O[k] = f[k]
            /\ O[n + 3] = Option(MESSAGE_TYPE, <<type>>)
            /\ \A k \in n + 1 .. n + 2 :
                 \/ O[k] = Padding
                 \/ has_option(s, ADDRESS_LEASE_TIME) /\ O[k] = find_option(s, ADDRESS_LEASE_TIME)
                 \/ has_option(s, SERVER_IDENTIFIER) /\ O[k] = find_option(s, SERVER_IDENTIFIER)
            /\ timed /\ has_option(s, ADDRESS_LEASE_TIME) =>
                 \E k \in n + 1 .. n + 2 : O[k] = find_option(s, ADDRESS_LEASE_TIME)
            /\ has_option(s, SERVER_IDENTIFIER) =>
                 \E k \in n + 1 .. n + 2 : O[k] = find_option(s, SERVER_IDENTIFIER)
<1> DEFINE f == fill_options(request, s, ReservedSlots)
           n == Cardinality(StoredOf(request, s))
           O == _dhcp_default_options(type, request, s, timed)
           g == SubSeq(f, 1, Len(f) % Byte)
           T1 == set_option(g, Option(MESSAGE_TYPE, <<type>>))
           T2 == IF timed THEN set_option_from_store(s, T1, ADDRESS_LEASE_TIME) ELSE T1
           lease == find_option(s, ADDRESS_LEASE_TIME)
           server == find_option(s, SERVER_IDENTIFIER)
           told == timed /\ has_option(s, ADDRESS_LEASE_TIME)
<1>1. O = set_option_from_store(s, T2, SERVER_IDENTIFIER)
  BY DEF _dhcp_default_options
<1>2. /\ n \in Nat /\ DOMAIN f = 1 .. n + 3
      /\ \A k \in n + 1 .. n + 3 : f[k] = Padding
  <2>1. ReservedSlots = 3
    BY DEF ReservedSlots
  <2> QED
    BY <2>1, Filled
<1>20. g = f
  <2>1. f = [k \in 1 .. n + 3 |-> f[k]]
    <3>1. f = [k \in DOMAIN f |-> f[k]]
      BY DEF fill_options
    <3> QED
      BY <1>2, <3>1
  <2>2. n + 3 < Byte /\ Byte \in Nat
    BY ByteAssumption DEF ReservedSlots
  <2> HIDE DEF f, n
  <2>3. f \in Seq({f[k] : k \in 1 .. n + 3}) /\ Len(f) = n + 3
    <3> DEFINE U == {f[k] : k \in 1 .. n + 3}
    <3>1. \A k \in 1 .. n + 3 : f[k] \in U
      OBVIOUS
    <3> HIDE DEF U
    <3>2. f \in [1 .. n + 3 -> U]
      BY <2>1, <3>1
    <3>3. f \in Seq(U) /\ Len(f) = n + 3
      BY <1>2, <3>2
    <3> QED
      BY <3>3 DEF U
  <2>4. Len(f) % Byte = Len(f)
    BY <1>2, <2>2, <2>3, SmallRest
  <2> QED
    BY <2>3, <2>4, WholeSequence
<1>3. /\ has_option(s, ADDRESS_LEASE_TIME) => lease.code = 51
      /\ has_option(s, SERVER_IDENTIFIER) => server.code = 54
  BY StoredOption DEF ADDRESS_LEASE_TIME, SERVER_IDENTIFIER
<1> DEFINE typed == Option(MESSAGE_TYPE, <<type>>)
           a == n + 1
           b == n + 2
           c == n + 3
<1>4. typed.code = 53 /\ Padding.code = 0 /\ PAD = 0
  BY DEF Option, MESSAGE_TYPE, Padding, PAD
<1>5. /\ 1 .. c \in SUBSET Nat /\ a \in 1 .. c /\ b \in 1 .. c /\ c \in 1 .. c
      /\ a # b /\ b # c /\ a # c
      /\ \A k \in 1 .. n : k \in 1 .. c /\ k # a /\ k # b /\ k # c
      /\ \A k \in a .. b : k = a \/ k = b
      /\ \A k \in 1 .. c : /\ k <= c
                           /\ k <= b \/ k = c
                           /\ k <= a \/ k = b \/ k = c
      /\ a \in a .. b /\ b \in a .. b
  <2>1. n \in Nat
    BY <1>2
  <2> HIDE DEF n
  <2>2. /\ 1 .. c \in SUBSET Nat /\ a \in 1 .. c /\ b \in 1 .. c /\ c \in 1 .. c
        /\ a # b /\ b # c /\ a # c
        /\ a \in a .. b /\ b \in a .. b
    BY <2>1
  <2>3. \A k \in 1 .. n : k \in 1 .. c /\ k # a /\ k # b /\ k # c
    BY <2>1
  <2>4. \A k \in a .. b : k = a \/ k = b
    BY <2>1
  <2>5. \A k \in 1 .. c : /\ k <= c
                          /\ k <= b \/ k = c
                          /\ k <= a \/ k = b \/ k = c
    BY <2>1
  <2> QED
    BY <2>2, <2>3, <2>4, <2>5
<1>6. DOMAIN f = 1 .. c /\ f[a] = Padding /\ f[b] = Padding /\ f[c] = Padding
  <2>1. a \in n + 1 .. n + 3 /\ b \in n + 1 .. n + 3 /\ c \in n + 1 .. n + 3
    BY <1>2
  <2> QED
    BY <1>2, <2>1
<1> HIDE DEF f, g, n, lease, server, typed, a, b, c
<1>7. T1 = [f EXCEPT ![c] = typed]
  <2>1. f[c].code \in {typed.code, PAD}
    BY <1>4, <1>6
  <2>2. \A k \in DOMAIN f : f[k].code \in {typed.code, PAD} => k <= c
    BY <1>5, <1>6
  <2>3. set_option(f, typed) = [f EXCEPT ![c] = typed]
    BY <1>5, <1>6, <2>1, <2>2, SlotTaken
  <2> QED
    BY <1>20, <2>3 DEF typed
<1>8. /\ DOMAIN T1 = 1 .. c /\ T1[c] = typed /\ T1[a] = Padding /\ T1[b] = Padding
      /\ \A k \in 1 .. n : T1[k] = f[k]
  BY <1>5, <1>6, <1>7
<1> HIDE DEF T1
<1>9. T2 = IF told THEN [T1 EXCEPT ![b] = lease] ELSE T1
  <2>1. CASE told
    <3>1. T2 = set_option(T1, lease)
      BY <2>1 DEF set_option_from_store, lease
    <3>2. T1[b].code \in {lease.code, PAD}
      BY <1>4, <1>8
    <3>3. \A k \in DOMAIN T1 : T1[k].code \in {lease.code, PAD} => k <= b
      <4>1. T1[c].code = 53 /\ lease.code = 51
        BY <1>3, <1>4, <1>8, <2>1
      <4> QED
        BY <1>4, <1>5, <1>8, <4>1
    <3>4. set_option(T1, lease) = [T1 EXCEPT ![b] = lease]
      <4>1. DOMAIN T1 \in SUBSET Nat /\ b \in DOMAIN T1
        BY <1>5, <1>8
      <4> QED
        BY <3>2, <3>3, <4>1, SlotTaken
    <3> QED
      BY <2>1, <3>1, <3>4
  <2>2. CASE ~ told
    BY <2>2 DEF set_option_from_store
  <2> QED
    BY <2>1, <2>2
<1> HIDE DEF T2
<1>10. /\ DOMAIN T2 = 1 .. c /\ T2[c] = typed /\ T2[a] = Padding
       /\ T2[b] = IF told THEN lease ELSE Padding
       /\ \A k \in 1 .. n : T2[k] = f[k]
  <2>1. CASE told
    BY <1>5, <1>8, <1>9, <2>1
  <2>2. CASE ~ told
    BY <1>8, <1>9, <2>2
  <2> QED
    BY <2>1, <2>2
<1> DEFINE m == IF told THEN a ELSE b
<1>11. m \in 1 .. c /\ (m = a \/ m = b) /\ (told => m = a) /\ (~ told => m = b)
  BY <1>5
<1>12. O = IF has_option(s, SERVER_IDENTIFIER) THEN [T2 EXCEPT ![m] = server] ELSE T2
  <2>1. CASE has_option(s, SERVER_IDENTIFIER)
    <3>1. O = set_option(T2, server)
      BY <1>1, <2>1 DEF set_option_from_store, server
    <3> HIDE DEF m
    <3>2. T2[m].code \in {server.code, PAD}
      BY <1>4, <1>10, <1>11
    <3>3. ASSUME NEW k \in DOMAIN T2, T2[k].code \in {server.code, PAD}
          PROVE  k <= m
      <4>1. k <= m \/ k = c \/ (told /\ k = b)
        BY <1>5, <1>10, <1>11
      <4>2. T2[c].code = 53 /\ (told => T2[b].code = 51)
        BY <1>3, <1>4, <1>10
      <4> QED
        BY <1>3, <1>4, <2>1, <3>3, <4>1, <4>2
    <3>4. set_option(T2, server) = [T2 EXCEPT ![m] = server]
      <4>1. DOMAIN T2 \in SUBSET Nat /\ m \in DOMAIN T2
        BY <1>5, <1>10, <1>11
      <4> QED
        BY <3>2, <3>3, <4>1, SlotTaken
    <3> QED
      BY <2>1, <3>1, <3>4
  <2>2. CASE ~ has_option(s, SERVER_IDENTIFIER)
    BY <1>1, <2>2 DEF set_option_from_store
  <2> QED
    BY <2>1, <2>2
<1> HIDE DEF O, m, told
<1>13. /\ DOMAIN O = 1 .. c /\ O[c] = typed /\ \A k \in 1 .. n : O[k] = f[k]
       /\ has_option(s, SERVER_IDENTIFIER) => O[m] = server
       /\ told => O[b] = lease
       /\ O[a] \in {T2[a], O[m]} /\ O[b] \in {T2[b], O[m]}
       /\ ~ has_option(s, SERVER_IDENTIFIER) => O[a] = T2[a] /\ O[b] = T2[b]
  <2>1. CASE has_option(s, SERVER_IDENTIFIER)
    BY <1>5, <1>10, <1>11, <1>12, <2>1
  <2>2. CASE ~ has_option(s, SERVER_IDENTIFIER)
    BY <1>10, <1>11, <1>12, <2>2
  <2> QED
    BY <2>1, <2>2
<1>14. ASSUME NEW k \in a .. b
       PROVE  \/ O[k] = Padding
              \/ told /\ O[k] = lease
              \/ has_option(s, SERVER_IDENTIFIER) /\ O[k] = server
  <2>1. k = a \/ k = b
    BY <1>5
  <2> QED
    BY <1>10, <1>13, <2>1
<1>15. m \in a .. b
  BY <1>5, <1>11
<1>16. O = [k \in DOMAIN O |-> O[k]]
  BY <1>7, <1>9, <1>12
<1> QED
  BY <1>5, <1>13, <1>14, <1>15, <1>16 DEF f, n, O, lease, server, told, typed, a, b, c

\* An option of the packet has the value that the store has for its code.
OfStore(s, option) == has_option(s, option.code) /\ option = find_option(s, option.code)

\* Codes the daemon uses by itself: empty slots, the message type, the end.
OwnCodes == {PAD, MESSAGE_TYPE, END}

\* A packet with n options that were asked for and four slots behind them.
FromStore(W, n, s) ==
  /\ n \in Nat /\ DOMAIN W = 1 .. n + 4
  /\ \A j \in 1 .. n : OfStore(s, W[j]) \/ W[j].code = PAD
  /\ \A j \in n + 1 .. n + 4 : OfStore(s, W[j]) \/ W[j].code \in OwnCodes

\* What is asked for and stored can be put into a packet.
Fits(request, s) ==
  /\ Cardinality(StoredOf(request, s)) + ReservedSlots < Byte
  /\ \A i \in StoredOf(request, s) : Listed(request)[i] \notin {MESSAGE_TYPE, END}

\* What a client finds in the packet: every entry is an option of the store,
\* but for empty slots, the message type and the end.
LEMMA OnWire ==
  ASSUME NEW T, NEW s, IsStore(s, T), NEW request, Listed(request) \in Seq(Nat),
         NEW type, NEW timed \in BOOLEAN, Fits(request, s)
  PROVE  LET n == Cardinality(StoredOf(request, s))
             W == dhcp_packet_send(_dhcp_default_options(type, request, s, timed))
         IN /\ FromStore(W, n, s)
            /\ UpToEnd(W) = W
            /\ \A j \in 1 .. n + 4 : W[j].code = MESSAGE_TYPE => W[j] = Option(MESSAGE_TYPE, <<type>>)
            /\ W[n + 3] = Option(MESSAGE_TYPE, <<type>>)
            /\ \A i \in StoredOf(request, s) : Listed(request)[i] # PAD =>
                 \E j \in 1 .. n + 4 : W[j] = find_option(s, Listed(request)[i])
            /\ timed /\ has_option(s, ADDRESS_LEASE_TIME) =>
                 \E j \in 1 .. n + 4 : W[j] = find_option(s, ADDRESS_LEASE_TIME)
            /\ has_option(s, SERVER_IDENTIFIER) =>
                 \E j \in 1 .. n + 4 : W[j] = find_option(s, SERVER_IDENTIFIER)
<1> DEFINE f == fill_options(request, s, ReservedSlots)
           n == Cardinality(StoredOf(request, s))
           O == _dhcp_default_options(type, request, s, timed)
           typed == Option(MESSAGE_TYPE, <<type>>)
           end == Option(END, NoPayload)
           W == dhcp_packet_send(O)
           V == [k \in DOMAIN O |-> Written(O[k])]
           lease == find_option(s, ADDRESS_LEASE_TIME)
           server == find_option(s, SERVER_IDENTIFIER)
<1>1. /\ DOMAIN O = 1 .. n + 3 /\ O = [k \in DOMAIN O |-> O[k]]
      /\ \A k \in 1 .. n : O[k] = f[k]
      /\ O[n + 3] = typed
      /\ \A k \in n + 1 .. n + 2 :
           \/ O[k] = Padding
           \/ has_option(s, ADDRESS_LEASE_TIME) /\ O[k] = lease
           \/ has_option(s, SERVER_IDENTIFIER) /\ O[k] = server
      /\ timed /\ has_option(s, ADDRESS_LEASE_TIME) => \E k \in n + 1 .. n + 2 : O[k] = lease
      /\ has_option(s, SERVER_IDENTIFIER) => \E k \in n + 1 .. n + 2 : O[k] = server
  BY Defaults DEF Fits
<1>2. /\ n \in Nat
      /\ \A k \in 1 .. n : \E i \in StoredOf(request, s) :
           f[k] = find_option(s, Listed(request)[i])
      /\ \A i \in StoredOf(request, s) : \E k \in 1 .. n :
           f[k] = find_option(s, Listed(request)[i])
  <2>1. ReservedSlots \in Nat
    BY DEF ReservedSlots
  <2> QED
    BY <2>1, Filled
<1>3. /\ has_option(s, ADDRESS_LEASE_TIME) => lease.code = ADDRESS_LEASE_TIME
      /\ has_option(s, SERVER_IDENTIFIER) => server.code = SERVER_IDENTIFIER
      /\ typed.code = MESSAGE_TYPE /\ Padding.code = PAD /\ end.code = END
      /\ PAD # MESSAGE_TYPE /\ END # MESSAGE_TYPE /\ PAD # END
      /\ ADDRESS_LEASE_TIME \notin OwnCodes /\ SERVER_IDENTIFIER \notin OwnCodes
  <2>1. /\ has_option(s, ADDRESS_LEASE_TIME) => lease.code = ADDRESS_LEASE_TIME
        /\ has_option(s, SERVER_IDENTIFIER) => server.code = SERVER_IDENTIFIER
    BY StoredOption
  <2>2. /\ typed.code = MESSAGE_TYPE /\ Padding.code = PAD /\ end.code = END
        /\ PAD # MESSAGE_TYPE /\ END # MESSAGE_TYPE /\ PAD # END
        /\ ADDRESS_LEASE_TIME \notin OwnCodes /\ SERVER_IDENTIFIER \notin OwnCodes
    BY DEF Option, Padding, MESSAGE_TYPE, PAD, END, ADDRESS_LEASE_TIME, SERVER_IDENTIFIER, OwnCodes
  <2> QED
    BY <2>1, <2>2
<1>4. W = Append(V, end)
  BY DEF dhcp_packet_send
<1>5. /\ DOMAIN V = DOMAIN O
      /\ \A k \in DOMAIN O : V[k] = Written(O[k])
      /\ V = [k \in DOMAIN V |-> V[k]]
  OBVIOUS
<1>6. \A option : /\ Written(option).code = option.code
                  /\ option.code \notin {PAD, END} => Written(option) = option
  BY DEF Written, Option
<1> HIDE DEF f, n, O, typed, end, W, V, lease, server
<1>7. /\ DOMAIN W = 1 .. n + 4 /\ \A k \in 1 .. n + 3 : W[k] = Written(O[k])
      /\ W[n + 4] = end
      /\ \E U : W \in Seq(U) /\ Len(W) = n + 4
  <2> DEFINE U == {V[k] : k \in DOMAIN V} \cup {end}
  <2>1. n + 3 \in Nat /\ n + 3 + 1 = n + 4
    BY <1>2
  <2>2. \A k \in 1 .. n + 3 : V[k] \in U
    BY <1>1, <1>5
  <2>3. end \in U
    OBVIOUS
  <2> HIDE DEF U
  <2>4. V \in [1 .. n + 3 -> U]
    BY <1>1, <1>5, <2>2
  <2>5. V \in Seq(U) /\ Len(V) = n + 3
    BY <2>1, <2>4
  <2>6. /\ W \in Seq(U) /\ Len(W) = n + 4 /\ W[n + 4] = end
        /\ \A k \in 1 .. n + 3 : W[k] = V[k]
    BY <1>4, <2>1, <2>3, <2>5, AppendProperties
  <2>7. \A k \in 1 .. n + 3 : W[k] = Written(O[k])
    BY <1>1, <1>5, <2>6
  <2>8. DOMAIN W = 1 .. n + 4
    BY <2>6
  <2> QED
    BY <2>6, <2>7, <2>8
<1>8. ASSUME NEW j \in 1 .. n
      PROVE  /\ OfStore(s, W[j]) \/ W[j].code = PAD
             /\ W[j].code \notin {MESSAGE_TYPE, END}
  <2>1. j \in 1 .. n + 3
    BY <1>2
  <2>2. PICK i \in StoredOf(request, s) : O[j] = find_option(s, Listed(request)[i])
    BY <1>1, <1>2
  <2>3. has_option(s, Listed(request)[i]) /\ Listed(request)[i] \notin {MESSAGE_TYPE, END}
    BY DEF StoredOf, Fits
  <2>4. O[j].code = Listed(request)[i]
    BY <2>2, <2>3, StoredOption
  <2>5. W[j].code = O[j].code /\ (O[j].code # PAD => W[j] = O[j])
    BY <1>6, <1>7, <2>1, <2>3, <2>4
  <2> QED
    BY <2>2, <2>3, <2>4, <2>5 DEF OfStore
<1>9. W[n + 3] = typed /\ n + 3 \in 1 .. n + 4
  <2>1. n + 3 \in 1 .. n + 3 /\ n + 3 \in 1 .. n + 4
    BY <1>2
  <2> QED
    BY <1>1, <1>3, <1>6, <1>7, <2>1
<1>10. ASSUME NEW j \in n + 1 .. n + 2
       PROVE  /\ j \in 1 .. n + 4
              /\ OfStore(s, W[j]) \/ W[j].code = PAD
              /\ W[j].code \notin {MESSAGE_TYPE, END}
              /\ O[j].code \notin OwnCodes => W[j] = O[j]
  <2>1. j \in 1 .. n + 3 /\ j \in 1 .. n + 4
    BY <1>2
  <2>2. \/ O[j] = Padding
        \/ has_option(s, ADDRESS_LEASE_TIME) /\ O[j] = lease
        \/ has_option(s, SERVER_IDENTIFIER) /\ O[j] = server
    BY <1>1
  <2>3. W[j].code = O[j].code /\ (O[j].code \notin {PAD, END} => W[j] = O[j])
    BY <1>6, <1>7, <2>1
  <2> QED
    BY <1>3, <2>1, <2>2, <2>3 DEF lease, server, OfStore, OwnCodes
<1>11. ASSUME NEW j \in n + 1 .. n + 4
       PROVE  OfStore(s, W[j]) \/ W[j].code \in OwnCodes
  <2>1. j = n + 4 \/ j = n + 3 \/ j \in n + 1 .. n + 2
    BY <1>2
  <2> QED
    BY <1>3, <1>7, <1>9, <1>10, <2>1 DEF OwnCodes
<1>12. ASSUME NEW j \in 1 .. n + 4
       PROVE  /\ W[j].code = MESSAGE_TYPE => W[j] = typed
              /\ W[j].code = END => j = n + 4
  <2>1. j \in 1 .. n \/ j \in n + 1 .. n + 2 \/ j = n + 3 \/ j = n + 4
    BY <1>2
  <2> QED
    BY <1>3, <1>7, <1>8, <1>9, <1>10, <2>1
<1>13. UpToEnd(W) = W
  <2> DEFINE i == First(Positions(W, {END}))
  <2>1. n + 4 \in DOMAIN W /\ DOMAIN W \in SUBSET Nat /\ W[n + 4].code = END
    BY <1>2, <1>3, <1>7
  <2>2. has_option(W, END)
    BY <2>1, HasOption
  <2>3. i \in DOMAIN W /\ W[i].code = END
    BY <2>1, <2>2, Found
  <2> HIDE DEF i
  <2>4. i = n + 4
    BY <1>7, <1>12, <2>3
  <2>5. UpToEnd(W) = SubSeq(W, 1, n + 4)
    BY <2>2, <2>4 DEF UpToEnd, i
  <2> QED
    BY <1>7, <2>5, WholeSequence
<1>14. ASSUME NEW i \in StoredOf(request, s), Listed(request)[i] # PAD
       PROVE  \E j \in 1 .. n + 4 : W[j] = find_option(s, Listed(request)[i])
  <2>1. PICK k \in 1 .. n : f[k] = find_option(s, Listed(request)[i])
    BY <1>2
  <2>2. k \in 1 .. n + 3 /\ k \in 1 .. n + 4
    BY <1>2
  <2>3. has_option(s, Listed(request)[i]) /\ Listed(request)[i] \notin {MESSAGE_TYPE, END}
    BY DEF StoredOf, Fits
  <2>4. O[k] = f[k] /\ O[k].code = Listed(request)[i]
    BY <1>1, <2>1, <2>3, StoredOption
  <2>5. W[k] = O[k]
    BY <1>6, <1>7, <1>14, <2>2, <2>3, <2>4
  <2> QED
    BY <2>1, <2>2, <2>4, <2>5
<1>15. /\ timed /\ has_option(s, ADDRESS_LEASE_TIME) => \E j \in 1 .. n + 4 : W[j] = lease
       /\ has_option(s, SERVER_IDENTIFIER) => \E j \in 1 .. n + 4 : W[j] = server
  BY <1>1, <1>3, <1>10
<1>16. FromStore(W, n, s)
  BY <1>2, <1>7, <1>8, <1>11 DEF FromStore
<1> QED
  BY <1>9, <1>12, <1>13, <1>14, <1>15, <1>16 DEF n, O, typed, W, lease, server

\* The client reads the value of the store, for a code that has an entry
\* and is none of the daemon's own.
LEMMA ReadFromWire ==
  ASSUME NEW s, NEW n, NEW W, FromStore(W, n, s), NEW code,
         code \notin OwnCodes, \E j \in 1 .. n + 4 : W[j].code = code
  PROVE  has_option(W, code) /\ find_option(W, code) = find_option(s, code)
<1> DEFINE i == First(Positions(W, {code}))
<1>0. n \in Nat /\ DOMAIN W = 1 .. n + 4
  BY DEF FromStore
<1>1. has_option(W, code)
  BY <1>0, HasOption
<1>2. DOMAIN W \in SUBSET Nat
  BY <1>0
<1>3. i \in DOMAIN W /\ W[i].code = code /\ find_option(W, code) = W[i]
  BY <1>1, <1>2, Found
<1> HIDE DEF i
<1>4. i \in 1 .. n \/ i \in n + 1 .. n + 4
  BY <1>0, <1>3
<1>5. OfStore(s, W[i])
  BY <1>3, <1>4 DEF FromStore, OwnCodes
<1> QED
  BY <1>1, <1>3, <1>5 DEF OfStore

\* The values a client that asked for these codes finds in packet W.
ReadsStore(W, s, asked, type, timed) ==
  /\ UpToEnd(W) = W
  /\ has_option(W, MESSAGE_TYPE)
  /\ find_option(W, MESSAGE_TYPE) = Option(MESSAGE_TYPE, <<type>>)
  /\ \A i \in DOMAIN asked : asked[i] # PAD /\ has_option(s, asked[i]) =>
       has_option(W, asked[i]) /\ find_option(W, asked[i]) = find_option(s, asked[i])
  /\ has_option(s, SERVER_IDENTIFIER) =>
       /\ has_option(W, SERVER_IDENTIFIER)
       /\ find_option(W, SERVER_IDENTIFIER) = find_option(s, SERVER_IDENTIFIER)
  /\ timed = TRUE /\ has_option(s, ADDRESS_LEASE_TIME) =>
       /\ has_option(W, ADDRESS_LEASE_TIME)
       /\ find_option(W, ADDRESS_LEASE_TIME) = find_option(s, ADDRESS_LEASE_TIME)

\* What the client reads from a reply to a request.
LEMMA ReplyRead ==
  ASSUME NEW T, NEW s, IsStore(s, T), NEW request, Listed(request) \in Seq(Nat),
         NEW type, NEW timed \in BOOLEAN, Fits(request, s)
  PROVE  ReadsStore(dhcp_packet_send(_dhcp_default_options(type, request, s, timed)),
                    s, Listed(request), type, timed)
<1> DEFINE n == Cardinality(StoredOf(request, s))
           W == dhcp_packet_send(_dhcp_default_options(type, request, s, timed))
           typed == Option(MESSAGE_TYPE, <<type>>)
<1>1. /\ FromStore(W, n, s)
      /\ UpToEnd(W) = W
      /\ \A j \in 1 .. n + 4 : W[j].code = MESSAGE_TYPE => W[j] = typed
      /\ W[n + 3] = typed
      /\ \A i \in StoredOf(request, s) : Listed(request)[i] # PAD =>
           \E j \in 1 .. n + 4 : W[j] = find_option(s, Listed(request)[i])
      /\ timed /\ has_option(s, ADDRESS_LEASE_TIME) =>
           \E j \in 1 .. n + 4 : W[j] = find_option(s, ADDRESS_LEASE_TIME)
      /\ has_option(s, SERVER_IDENTIFIER) =>
           \E j \in 1 .. n + 4 : W[j] = find_option(s, SERVER_IDENTIFIER)
  BY OnWire
<1>2. /\ ADDRESS_LEASE_TIME \notin OwnCodes /\ SERVER_IDENTIFIER \notin OwnCodes
      /\ typed.code = MESSAGE_TYPE
  BY DEF OwnCodes, PAD, MESSAGE_TYPE, END, ADDRESS_LEASE_TIME, SERVER_IDENTIFIER, Option
<1> HIDE DEF n, W, typed
<1>3. ASSUME NEW code, code \notin OwnCodes, has_option(s, code),
             \E j \in 1 .. n + 4 : W[j] = find_option(s, code)
      PROVE  has_option(W, code) /\ find_option(W, code) = find_option(s, code)
  <2>1. find_option(s, code).code = code
    BY <1>3, StoredOption
  <2>2. \E j \in 1 .. n + 4 : W[j].code = code
    BY <1>3, <2>1
  <2> QED
    BY <1>1, <1>3, <2>2, ReadFromWire
<1>4. ASSUME NEW i \in DOMAIN Listed(request), Listed(request)[i] # PAD,
             has_option(s, Listed(request)[i])
      PROVE  /\ has_option(W, Listed(request)[i])
             /\ find_option(W, Listed(request)[i]) = find_option(s, Listed(request)[i])
  <2>1. i \in StoredOf(request, s)
    BY <1>4 DEF StoredOf
  <2>2. Listed(request)[i] \notin OwnCodes
    BY <1>4, <2>1 DEF Fits, OwnCodes
  <2> QED
    BY <1>1, <1>3, <1>4, <2>1, <2>2
<1>5. has_option(W, MESSAGE_TYPE) /\ find_option(W, MESSAGE_TYPE) = typed
  <2>1. n + 3 \in DOMAIN W /\ DOMAIN W \in SUBSET Nat /\ DOMAIN W = 1 .. n + 4
    BY <1>1 DEF FromStore
  <2>2. has_option(W, MESSAGE_TYPE)
    BY <1>1, <1>2, <2>1, HasOption
  <2> DEFINE i == First(Positions(W, {MESSAGE_TYPE}))
  <2>3. i \in DOMAIN W /\ W[i].code = MESSAGE_TYPE /\ find_option(W, MESSAGE_TYPE) = W[i]
    BY <2>1, <2>2, Found
  <2> HIDE DEF i
  <2> QED
    BY <1>1, <2>1, <2>2, <2>3
<1> QED
  BY <1>1, <1>2, <1>3, <1>4, <1>5 DEF W, typed, ReadsStore

-----------------------------------------------------------------------------
(* The request *)

\* An option of a parsed packet, and one of a packet that is kept: it points
\* nowhere.
Pointers == [code : Nat, payload : Seq(Nat), at : Nat]
Copies == [code : Nat, payload : Seq(Nat), at : {0}]

\* The request list is a list of codes, whatever the client sent.
LEMMA ListedCodes ==
  ASSUME NEW request \in Seq(Options)
  PROVE  Listed(request) \in Seq(Nat)
<1>1. CASE has_option(request, PARAMETER_REQUEST_LIST)
  <2> DEFINE i == First(Positions(request, {PARAMETER_REQUEST_LIST}))
  <2>1. DOMAIN request \in SUBSET Nat
    OBVIOUS
  <2>2. i \in DOMAIN request /\ find_option(request, PARAMETER_REQUEST_LIST) = request[i]
    BY <1>1, <2>1, Found
  <2> HIDE DEF i
  <2>3. request[i] \in Options
    BY <2>2
  <2> QED
    BY <1>1, <2>2, <2>3 DEF Listed, find_option_parameter_request_list, Options
<1>2. CASE ~ has_option(request, PARAMETER_REQUEST_LIST)
  BY <1>2 DEF Listed, find_option_parameter_request_list, NoPayload
<1> QED
  BY <1>1, <1>2

\* The parser sees a beginning of the datagram.
LEMMA VisibleOptions ==
  ASSUME NEW d, d.items \in Seq(Options)
  PROVE  /\ Visible(d) \in Seq(Options) /\ Len(Visible(d)) <= Len(d.items)
         /\ \A i \in 1 .. Len(Visible(d)) : Visible(d)[i] = d.items[i]
<1>1. CASE has_option(d.items, END)
  <2> DEFINE k == First(Positions(d.items, {END}))
             v == SubSeq(d.items, 1, k)
  <2>1. DOMAIN d.items \in SUBSET Nat
    OBVIOUS
  <2>2. k \in DOMAIN d.items
    BY <1>1, <2>1, Found
  <2>3. Visible(d) = v
    BY <1>1 DEF Visible, UpToEnd
  <2> HIDE DEF k
  <2>4. k \in 1 .. Len(d.items) /\ k \in Int /\ 1 \in Int
    BY <2>2
  <2>5. \A i \in 1 .. k : d.items[i] \in Options
    BY <2>4
  <2>6. v \in Seq(Options) /\ Len(v) = k /\ \A i \in 1 .. k : v[i] = d.items[i]
    BY <2>4, <2>5, SubSeqProperties
  <2> QED
    BY <2>3, <2>4, <2>6
<1>2. CASE ~ has_option(d.items, END)
  BY <1>2 DEF Visible, UpToEnd
<1> QED
  BY <1>1, <1>2

\* What the parser hands on, for a datagram it takes: a part of its entries,
\* all of them in their order if both passes agree.
LEMMA ParsedOptions ==
  ASSUME NEW d, d.items \in Seq(Options), NEW p \in ntoh_dhcp_packet(d), p.status = "parsed"
  PROVE  /\ p.options \in Seq(Pointers)
         /\ Intact(d) => p.options = Entries(d)
<1> DEFINE v == Visible(d)
           e == Entries(d)
           c == options_count(d)
           k == c % Byte
           wrapped(j) == {i \in DOMAIN v : i % Byte = j % Byte}
           q == Stored(d)
<1>1. v \in Seq(Options) /\ Len(v) \in Nat /\ DOMAIN v = 1 .. Len(v)
  BY VisibleOptions
<1>2. e = [i \in DOMAIN v |-> [code |-> v[i].code, payload |-> NoPayload, at |-> i]]
  BY DEF Entries
<1>3. p.options = q
  BY DEF ntoh_dhcp_packet, Refused, Aborted, Parsed
<1>4. q = [j \in 1 .. k |-> e[Last(wrapped(j))]]
  BY DEF Stored
<1>5. PaddingIn(d) \in SUBSET DOMAIN v /\ c = Len(v) - Cardinality(PaddingIn(d))
  BY DEF PaddingIn, Positions, options_count
<1>6. Byte \in Nat /\ Byte > 0
  BY ByteAssumption
<1> HIDE DEF v, e, c, q
<1>7. ASSUME NEW i \in 1 .. Len(v)
      PROVE  [code |-> v[i].code, payload |-> NoPayload, at |-> i] \in Pointers
  <2>1. v[i] \in Options
    BY <1>1
  <2>2. v[i].code \in Nat /\ NoPayload \in Seq(Nat) /\ i \in Nat
    BY <1>1, <2>1 DEF Options, NoPayload
  <2> QED
    BY <2>2 DEF Pointers
<1>8. e \in [1 .. Len(v) -> Pointers]
  BY <1>1, <1>2, <1>7
<1>9. Cardinality(PaddingIn(d)) \in Nat /\ Cardinality(PaddingIn(d)) <= Len(v)
  <2>1. IsFiniteSet(1 .. Len(v)) /\ Cardinality(1 .. Len(v)) = Len(v)
    BY <1>1, UpTo
  <2> DEFINE Q == PaddingIn(d)
             I == 1 .. Len(v)
  <2>2. Q \in SUBSET I /\ IsFiniteSet(I)
    BY <1>1, <1>5, <2>1
  <2>3. Cardinality(I) = Len(v)
    BY <2>1
  <2> HIDE DEF Q, I
  <2>4. IsFiniteSet(Q) /\ Cardinality(Q) <= Cardinality(I)
    BY <2>2, FS_Subset
  <2>5. Cardinality(Q) \in Nat
    BY <2>4, FS_CardinalityType
  <2> QED
    BY <2>3, <2>4, <2>5 DEF Q
<1>10. c \in Nat /\ c <= Len(v)
  BY <1>1, <1>5, <1>9
<1>11. k \in Nat /\ k <= c /\ k < Byte
  BY <1>6, <1>10, RestBounds
<1> HIDE DEF k
<1>12. ASSUME NEW j \in 1 .. k PROVE Last(wrapped(j)) \in 1 .. Len(v)
  <2>1. j \in wrapped(j) /\ wrapped(j) \in SUBSET (1 .. Len(v))
    BY <1>1, <1>10, <1>11
  <2> HIDE DEF wrapped
  <2> QED
    BY <1>1, <2>1, LastIn
<1>13. q \in Seq(Pointers)
  <2>1. q \in [1 .. k -> Pointers]
    BY <1>4, <1>8, <1>12
  <2> QED
    BY <1>11, <2>1
<1>14. ASSUME Intact(d) PROVE q = e
  <2>1. PaddingIn(d) = {} /\ c < Byte
    BY <1>14 DEF Intact, c
  <2>2. c = Len(v)
    BY <1>1, <1>5, <2>1, FS_EmptySet
  <2>3. k = Len(v)
    BY <1>6, <1>10, <2>1, <2>2, SmallRest DEF k
  <2>4. ASSUME NEW j \in 1 .. Len(v) PROVE Last(wrapped(j)) = j
    <3>1. ASSUME NEW i \in DOMAIN v, i % Byte = j % Byte PROVE i = j
      <4>1. i \in Nat /\ j \in Nat /\ i < Byte /\ j < Byte
        BY <1>1, <1>6, <2>1, <2>2
      <4> QED
        BY <1>6, <3>1, <4>1, SmallRest
    <3>2. wrapped(j) = {j}
      BY <1>1, <3>1
    <3>3. {j} \in SUBSET Nat /\ j <= j
      BY <1>1
    <3> HIDE DEF wrapped
    <3> QED
      BY <3>2, <3>3, LastIs
  <2> HIDE DEF wrapped
  <2>5. q = [j \in 1 .. Len(v) |-> e[j]]
    BY <1>4, <2>3, <2>4
  <2> QED
    BY <1>8, <2>5
<1> QED
  BY <1>3, <1>13, <1>14 DEF e

\* With the datagram in the buffer, the entries are options again.
LEMMA Dereferenced ==
  ASSUME NEW options \in Seq(Pointers), NEW d, d.items \in Seq(Options)
  PROVE  Dereference(options, d) \in Seq(Options)
<1> DEFINE r == Dereference(options, d)
           payload(i) == IF options[i].at \in DOMAIN d.items THEN d.items[options[i].at].payload
                                                             ELSE options[i].payload
<1>1. r = [i \in DOMAIN options |-> Option(options[i].code, payload(i))]
  BY DEF Dereference
<1> HIDE DEF r
<1>2. Len(options) \in Nat /\ DOMAIN options = 1 .. Len(options)
  OBVIOUS
<1>3. ASSUME NEW i \in DOMAIN options PROVE Option(options[i].code, payload(i)) \in Options
  <2>1. options[i] \in Pointers
    OBVIOUS
  <2>2. options[i].code \in Nat /\ options[i].payload \in Seq(Nat)
    BY <2>1 DEF Pointers
  <2>3. ASSUME NEW k \in DOMAIN d.items PROVE d.items[k].payload \in Seq(Nat)
    <3>1. d.items[k] \in Options
      OBVIOUS
    <3> QED
      BY <3>1 DEF Options
  <2>4. payload(i) \in Seq(Nat)
    BY <2>2, <2>3
  <2> HIDE DEF payload
  <2> QED
    BY <2>2, <2>4 DEF Options, Option
<1> HIDE DEF payload
<1>4. r \in [1 .. Len(options) -> Options]
  BY <1>1, <1>2, <1>3
<1>5. r \in Seq(Options)
  BY <1>2, <1>4
<1> QED
  BY <1>5 DEF r

\* A datagram that both passes agree on reaches the handlers as the client meant it.
LEMMA ReadAsSent ==
  ASSUME NEW d, d.items \in Seq(Options)
  PROVE  Dereference(Entries(d), d) = Visible(d)
<1> DEFINE v == Visible(d)
           e == Entries(d)
           r == Dereference(e, d)
<1>1. /\ v \in Seq(Options) /\ Len(v) \in Nat /\ Len(d.items) \in Nat
      /\ DOMAIN v = 1 .. Len(v) /\ DOMAIN d.items = 1 .. Len(d.items)
      /\ Len(v) <= Len(d.items) /\ \A i \in 1 .. Len(v) : v[i] = d.items[i]
  BY VisibleOptions
<1>2. e = [i \in DOMAIN v |-> [code |-> v[i].code, payload |-> NoPayload, at |-> i]]
  BY DEF Entries
<1> HIDE DEF v, e
<1>3. DOMAIN e = DOMAIN v /\ \A i \in DOMAIN v : e[i].code = v[i].code /\ e[i].at = i
  BY <1>2
<1>4. ASSUME NEW i \in DOMAIN v
      PROVE  Option(e[i].code, IF e[i].at \in DOMAIN d.items THEN d.items[e[i].at].payload
                                                             ELSE e[i].payload) = v[i]
  <2>1. v[i] \in Options /\ i \in DOMAIN d.items /\ v[i] = d.items[i]
    BY <1>1
  <2>2. v[i] = [code |-> v[i].code, payload |-> v[i].payload]
    BY <2>1 DEF Options
  <2> QED
    BY <1>3, <2>1, <2>2 DEF Option
<1>5. r = [i \in DOMAIN v |-> v[i]]
  BY <1>3, <1>4 DEF Dereference
<1>6. v = [i \in DOMAIN v |-> v[i]]
  BY <1>1
<1> QED
  BY <1>5, <1>6 DEF v, e

\* A copy reads the same when the buffer holds another packet.
LEMMA CopyReads ==
  ASSUME NEW options \in Seq(Pointers), NEW d, d.items \in Seq(Options)
  PROVE  /\ dhcp_packet_copy(options, d) \in Seq(Copies)
         /\ Dereference(dhcp_packet_copy(options, d), OtherDatagram) = Dereference(options, d)
<1> DEFINE r == Dereference(options, d)
           c == dhcp_packet_copy(options, d)
<1>1. Len(options) \in Nat /\ DOMAIN options = 1 .. Len(options)
  OBVIOUS
<1>2. r \in Seq(Options)
  BY Dereferenced
<1>3. /\ DOMAIN r = DOMAIN options
      /\ \A i \in DOMAIN options : r[i].code = options[i].code
  BY DEF Dereference, Option
<1>4. c = [i \in DOMAIN options |->
             [code |-> options[i].code, payload |-> r[i].payload, at |-> 0]]
  BY DEF dhcp_packet_copy
<1> HIDE DEF r, c
<1>5. ASSUME NEW i \in DOMAIN options
      PROVE  /\ r[i].code \in Nat /\ r[i].payload \in Seq(Nat)
             /\ r[i] = Option(r[i].code, r[i].payload)
             /\ c[i] = [code |-> r[i].code, payload |-> r[i].payload, at |-> 0]
  <2>1. r[i] \in Options
    BY <1>2, <1>3
  <2> QED
    BY <1>3, <1>4, <2>1 DEF Options, Option
<1>6. c \in Seq(Copies) /\ DOMAIN c = DOMAIN options
  <2>1. ASSUME NEW i \in DOMAIN options PROVE c[i] \in Copies
    <3>1. /\ r[i].code \in Nat /\ r[i].payload \in Seq(Nat)
          /\ c[i] = [code |-> r[i].code, payload |-> r[i].payload, at |-> 0]
      BY <1>5
    <3> QED
      BY <3>1 DEF Copies
  <2>2. c \in [1 .. Len(options) -> Copies]
    BY <1>1, <1>4, <2>1
  <2> QED
    BY <1>1, <2>2
<1>7. 0 \notin DOMAIN OtherDatagram.items
  BY DEF OtherDatagram
<1>8. Dereference(c, OtherDatagram) = [i \in DOMAIN options |-> r[i]]
  <2>1. ASSUME NEW i \in DOMAIN options
        PROVE  c[i].code = r[i].code /\ c[i].payload = r[i].payload /\ c[i].at = 0
    <3>1. c[i] = [code |-> r[i].code, payload |-> r[i].payload, at |-> 0]
      BY <1>5
    <3> QED
      BY <3>1
  <2>2. \A i \in DOMAIN options :
          Option(c[i].code, IF c[i].at \in DOMAIN OtherDatagram.items
                            THEN OtherDatagram.items[c[i].at].payload
                            ELSE c[i].payload) = r[i]
    BY <1>5, <1>7, <2>1
  <2> QED
    BY <1>6, <2>2 DEF Dereference
<1>9. r = [i \in DOMAIN options |-> r[i]]
  BY <1>2, <1>3
<1> QED
  BY <1>6, <1>8, <1>9 DEF r, c

-----------------------------------------------------------------------------
(* The store under ddhcpctl *)

\* The values a set of options has to allow for, to be an invariant of the
\* store: the operator's and the defaults.
Reachable(T) ==
  /\ \A i \in DOMAIN CommandLine : CommandLine[i] \in T
  /\ \A c \in Commands : c.op = "set" => Option(c.code, c.payload) \in T
  /\ \A option \in DefaultOptions : option \in T

\* What a run of ddhcpctl has sent is one of the commands.
CommandsSent == \A k \in Operators : command[k] \in SUBSET Commands

LEMMA CommandsInv == Spec => []CommandsSent
<1>1. Init => CommandsSent
  BY DEF Init, CommandsSent
<1>2. CommandsSent /\ [Next]_vars => CommandsSent'
  <2> SUFFICES ASSUME CommandsSent, [Next]_vars PROVE CommandsSent'
    OBVIOUS
  <2>1. ASSUME NEW d \in Datagrams, Receive(d) PROVE CommandsSent'
    BY <2>1 DEF Receive, ctlVars, CommandsSent
  <2>2. ASSUME NEW i \in DOMAIN cache, OtherNodeAnswers(i) \/ Forget(i) PROVE CommandsSent'
    BY <2>2 DEF OtherNodeAnswers, Forget, ctlVars, CommandsSent
  <2>3. ASSUME NEW k \in Operators, Connect(k) \/ Interrupt(k) PROVE CommandsSent'
    BY <2>3 DEF Connect, Interrupt, CommandsSent
  <2>4. ASSUME NEW k \in Operators, Send(k) PROVE CommandsSent'
    <3>1. PICK c \in Commands : command' = [command EXCEPT ![k] = {c}]
      BY <2>4 DEF Send
    <3>2. {c} \in SUBSET Commands
      OBVIOUS
    <3> QED
      BY <3>1, <3>2 DEF CommandsSent
  <2>5. CASE epoll_wait \/ hdl_ctrl_new
    BY <2>5 DEF epoll_wait, hdl_ctrl_new, CommandsSent
  <2>6. ASSUME NEW k \in Operators, hdl_ctrl_cmd(k) PROVE CommandsSent'
    <3>1. command' = [command EXCEPT ![k] = {}]
      BY <2>6 DEF hdl_ctrl_cmd
    <3> QED
      BY <3>1 DEF CommandsSent
  <2>7. CASE UNCHANGED vars
    BY <2>7 DEF vars, ctlVars, CommandsSent
  <2> QED
    BY <2>1, <2>2, <2>3, <2>4, <2>5, <2>6, <2>7 DEF Next, Control
<1> QED
  BY <1>1, <1>2, PTL DEF Spec

\* A command leaves a store a store.
LEMMA CommandKeepsStore ==
  ASSUME NEW T, Reachable(T), IsStore(store, T), NEW c \in Commands
  PROVE  IsStore(handle_command(c), T)
<1>1. c.op = "set" => IsStore(set_option_in_store(store, Option(c.code, c.payload)), T)
  BY SetInStore DEF Reachable
<1>2. IsStore(remove_option_in_store(store, c.code), T)
  BY RemoveInStore
<1>3. \/ c.op = "set" /\ handle_command(c) = set_option_in_store(store, Option(c.code, c.payload))
      \/ handle_command(c) \in {remove_option_in_store(store, c.code), store}
  BY DEF handle_command
<1> QED
  BY <1>1, <1>2, <1>3

LEMMA StoreStep ==
  ASSUME NEW T, Reachable(T), IsStore(store, T), CommandsSent, [Next]_vars
  PROVE  IsStore(store, T)'
<1>1. CASE UNCHANGED store
  BY <1>1 DEF IsStore
<1>2. ASSUME NEW k \in Operators, hdl_ctrl_cmd(k) PROVE IsStore(store, T)'
  <2>1. store' = IF command[k] = {} THEN store
                 ELSE handle_command(CHOOSE c \in command[k] : TRUE)
    BY <1>2 DEF hdl_ctrl_cmd
  <2>2. command[k] # {} => (CHOOSE c \in command[k] : TRUE) \in Commands
    BY DEF CommandsSent
  <2>3. IsStore(store', T)
    BY <2>1, <2>2, CommandKeepsStore
  <2> QED
    BY <2>3 DEF IsStore
<1>3. UNCHANGED store \/ \E k \in Operators : hdl_ctrl_cmd(k)
  BY DEF Next, Control, vars, Receive, OtherNodeAnswers, Forget, Connect, Send, Interrupt,
         epoll_wait, hdl_ctrl_new
<1> QED
  BY <1>1, <1>2, <1>3

LEMMA StoreInit ==
  ASSUME NEW T, Reachable(T), Init
  PROVE  IsStore(store, T)
<1>1. CommandLine \in Seq(T)
  <2>1. CommandLine \in Seq(Options) /\ \A i \in DOMAIN CommandLine : CommandLine[i] \in T
    BY OptionsAssumption DEF Reachable
  <2>2. Len(CommandLine) \in Nat /\ CommandLine \in [1 .. Len(CommandLine) -> T]
    BY <2>1
  <2> QED
    BY <2>2
<1>2. IsStore(CommandLine, T)
  BY <1>1, OptionsAssumption DEF IsStore
<1>3. IsStore(dhcp_options_init(CommandLine), T)
  BY <1>2, InitialStore DEF Reachable
<1> QED
  BY <1>3 DEF Init

LEMMA OptionsReachable == Reachable(Options)
<1>1. ASSUME NEW i \in DOMAIN CommandLine PROVE CommandLine[i] \in Options
  BY OptionsAssumption
<1>2. ASSUME NEW c \in Commands PROVE Option(c.code, c.payload) \in Options
  BY OptionsAssumption
<1>3. ASSUME NEW code \in Nat, NEW payload \in Seq(Nat)
      PROVE  Option(code, payload) \in Options
  BY DEF Option, Options
<1>4. /\ SUBNET_MASK \in Nat /\ TIME_OFFSET \in Nat /\ BROADCAST_ADDRESS \in Nat
      /\ ADDRESS_LEASE_TIME \in Nat /\ SERVER_IDENTIFIER \in Nat
  BY DEF SUBNET_MASK, TIME_OFFSET, BROADCAST_ADDRESS, ADDRESS_LEASE_TIME, SERVER_IDENTIFIER
<1>5. Network \in Seq(Nat) /\ <<0>> \in Seq(Nat) /\ <<300>> \in Seq(Nat)
  BY DEF Network
<1> DEFINE zero == <<0>>
           fiveMinutes == <<300>>
<1>7. zero \in Seq(Nat) /\ fiveMinutes \in Seq(Nat)
  BY <1>5
<1> HIDE DEF zero, fiveMinutes
<1>8. /\ Option(SUBNET_MASK, Network) \in Options /\ Option(TIME_OFFSET, zero) \in Options
      /\ Option(BROADCAST_ADDRESS, Network) \in Options
      /\ Option(ADDRESS_LEASE_TIME, fiveMinutes) \in Options
      /\ Option(SERVER_IDENTIFIER, Network) \in Options
  BY <1>3, <1>4, <1>5, <1>7
<1>6. \A option \in DefaultOptions : option \in Options
  BY <1>8 DEF DefaultOptions, zero, fiveMinutes
<1> QED
  BY <1>1, <1>2, <1>6 DEF Reachable

LEMMA StoreInv == Spec => []IsStore(store, Options)
<1>1. Init => IsStore(store, Options)
  BY OptionsReachable, StoreInit
<1>2. IsStore(store, Options) /\ CommandsSent /\ [Next]_vars => IsStore(store, Options)'
  BY OptionsReachable, StoreStep
<1> QED
  BY <1>1, <1>2, CommandsInv, PTL DEF Spec

\* However commands follow each other, and whatever options the daemon is
\* started with, no code is in the store twice: ddhcpctl -s finds the option
\* that a reply is filled from, and -r leaves no second value behind
\* (set_option_in_store, remove_option_in_store, dhcp_options_init).
THEOREM OneValue == Spec => []OneOptionPerCode
<1>1. IsStore(store, Options) => OneOptionPerCode
  BY DEF IsStore, OneOptionPerCode
<1> QED
  BY <1>1, StoreInv, PTL

-----------------------------------------------------------------------------
(* Requests that wait *)

\* A request in the cache reads as it did when it came in.
Kept == {entry \in [options : Seq(Copies), asked : Seq(Nat), intact : BOOLEAN] :
           entry.intact => Listed(Dereference(entry.options, OtherDatagram)) = entry.asked}

CacheKept == cache \in Seq(Kept)

\* The request the handlers see asks for what the client asked for.
LEMMA RequestRead ==
  ASSUME NEW d \in Datagrams, NEW p \in ntoh_dhcp_packet(d), p.status = "parsed"
  PROVE  LET request == Dereference(p.options, d)
         IN /\ p.options \in Seq(Pointers) /\ d.items \in Seq(Options)
            /\ request \in Seq(Options) /\ Asked(d) \in Seq(Nat) /\ Intact(d) \in BOOLEAN
            /\ Intact(d) => Listed(request) = Asked(d)
<1> DEFINE request == Dereference(p.options, d)
<1>1. d.items \in Seq(Options)
  BY FrontEndAssumption
<1>2. /\ p.options \in Seq(Pointers)
      /\ Intact(d) => p.options = Entries(d)
  BY <1>1, ParsedOptions
<1>3. request \in Seq(Options)
  BY <1>1, <1>2, Dereferenced
<1>4. Visible(d) \in Seq(Options)
  BY <1>1, VisibleOptions
<1>5. Asked(d) = Listed(Visible(d))
  BY DEF Asked, Listed
<1>6. Asked(d) \in Seq(Nat)
  BY <1>4, <1>5, ListedCodes
<1>7. Intact(d) => request = Visible(d)
  BY <1>1, <1>2, ReadAsSent
<1>8. Intact(d) \in BOOLEAN
  BY DEF Intact
<1> HIDE DEF request
<1> QED
  BY <1>1, <1>2, <1>3, <1>5, <1>6, <1>7, <1>8 DEF request

LEMMA CopyKept ==
  ASSUME NEW d \in Datagrams, NEW p \in ntoh_dhcp_packet(d), p.status = "parsed"
  PROVE  [options |-> dhcp_packet_copy(p.options, d),
          asked |-> Asked(d), intact |-> Intact(d)] \in Kept
<1> DEFINE copy == dhcp_packet_copy(p.options, d)
<1>1. /\ p.options \in Seq(Pointers) /\ d.items \in Seq(Options)
      /\ Asked(d) \in Seq(Nat) /\ Intact(d) \in BOOLEAN
      /\ Intact(d) => Listed(Dereference(p.options, d)) = Asked(d)
  BY RequestRead
<1>2. copy \in Seq(Copies) /\ Dereference(copy, OtherDatagram) = Dereference(p.options, d)
  BY <1>1, CopyReads
<1> HIDE DEF copy
<1>3. [options |-> copy, asked |-> Asked(d), intact |-> Intact(d)] \in Kept
  BY <1>1, <1>2 DEF Kept
<1> QED
  BY <1>3 DEF copy

LEMMA OtherRead ==
  ASSUME NEW entry \in Kept
  PROVE  LET request == Dereference(entry.options, OtherDatagram)
         IN /\ request \in Seq(Options)
            /\ entry.asked \in Seq(Nat) /\ entry.intact \in BOOLEAN
            /\ entry.intact => Listed(request) = entry.asked
<1>1. /\ entry.options \in Seq(Copies) /\ entry.asked \in Seq(Nat) /\ entry.intact \in BOOLEAN
      /\ entry.intact => Listed(Dereference(entry.options, OtherDatagram)) = entry.asked
  BY DEF Kept
<1>2. Copies \subseteq Pointers
  BY DEF Copies, Pointers
<1>3. entry.options \in Seq(Pointers)
  BY <1>1, <1>2
<1>4. OtherDatagram.items \in Seq(Options)
  <2>1. Padding \in Options
    BY DEF Padding, Option, Options, PAD, NoPayload
  <2> QED
    BY <2>1 DEF OtherDatagram
<1>5. Dereference(entry.options, OtherDatagram) \in Seq(Options)
  BY <1>3, <1>4, Dereferenced
<1> QED
  BY <1>1, <1>5

LEMMA CacheStep ==
  ASSUME CacheKept, [Next]_vars
  PROVE  CacheKept'
<1>1. ASSUME NEW d \in Datagrams, Receive(d) PROVE CacheKept'
  <2>1. CASE UNCHANGED cache
    BY <2>1 DEF CacheKept
  <2>2. CASE cache' # cache
    <3>1. PICK p \in ntoh_dhcp_packet(d) : p.status = "parsed" /\ Answer(p.options, d)
      BY <1>1, <2>2 DEF Receive
    <3>2. cache' = Append(cache, [options |-> dhcp_packet_copy(p.options, d),
                                asked |-> Asked(d), intact |-> Intact(d)])
      BY <2>2, <3>1 DEF Answer, Forward
    <3>3. [options |-> dhcp_packet_copy(p.options, d),
                                asked |-> Asked(d), intact |-> Intact(d)] \in Kept
      BY <3>1, CopyKept
    <3> QED
      BY <3>2, <3>3 DEF CacheKept
  <2> QED
    BY <2>1, <2>2
<1>2. ASSUME NEW i \in DOMAIN cache, OtherNodeAnswers(i) \/ Forget(i) PROVE CacheKept'
  <2>1. cache' = SubSeq(cache, 1, i - 1) \o SubSeq(cache, i + 1, Len(cache))
    BY <1>2 DEF OtherNodeAnswers, Forget, Without
  <2>2. i \in 1 .. Len(cache)
    BY DEF CacheKept
  <2> QED
    BY <2>1, <2>2, Removed DEF CacheKept
<1>3. CASE UNCHANGED cache
  BY <1>3 DEF CacheKept
<1>4. \/ \E d \in Datagrams : Receive(d)
      \/ \E i \in DOMAIN cache : OtherNodeAnswers(i) \/ Forget(i)
      \/ UNCHANGED cache
  BY DEF Next, Control, vars, dhcpVars, Connect, Send, Interrupt, epoll_wait, hdl_ctrl_new,
         hdl_ctrl_cmd
<1> QED
  BY <1>1, <1>2, <1>3, <1>4

LEMMA CacheInv == Spec => []CacheKept
<1>1. Init => CacheKept
  BY DEF Init, CacheKept
<1>2. CacheKept /\ [Next]_vars => CacheKept'
  BY CacheStep
<1> QED
  BY <1>1, <1>2, PTL DEF Spec

-----------------------------------------------------------------------------
(* Replies *)

\* The property of a reply r, sent while the store is s.
Complete(r, s) ==
  (r.type # 0 /\ r.intact /\ Sendable(r, s)) =>
    LET seen == UpToEnd(r.wire)
        Tells(code, payload) ==
          has_option(seen, code) /\ find_option(seen, code).payload = payload
    IN /\ Tells(MESSAGE_TYPE, <<r.type>>)
       /\ r.type # DHCPNAK =>
            \A code \in Promised(r) :
              has_option(s, code) => Tells(code, find_option(s, code).payload)

\* A reply that follows from a request, with the store of the moment.
Answers(r) ==
  \E type \in {DHCPOFFER, DHCPACK}, request \in Seq(Options), asked \in Seq(Nat),
     intact \in BOOLEAN, timed \in BOOLEAN :
    /\ intact => Listed(request) = asked
    /\ r = Reply(type, request, asked, intact, timed)

LEMMA ReplyStep ==
  ASSUME CacheKept, [Next]_vars
  PROVE  \/ reply' = NoReply
         \/ UNCHANGED store /\ (reply' = Refusal \/ Answers(reply') \/ UNCHANGED reply)
<1>1. ASSUME NEW d \in Datagrams, Receive(d)
      PROVE  reply' = NoReply \/ (UNCHANGED store /\ (reply' = Refusal \/ Answers(reply')))
  <2>1. UNCHANGED store
    BY <1>1 DEF Receive
  <2>2. CASE reply' = NoReply
    BY <2>2
  <2>3. CASE reply' # NoReply
    <3>1. PICK p \in ntoh_dhcp_packet(d) : p.status = "parsed" /\ Answer(p.options, d)
      BY <1>1, <2>3 DEF Receive
    <3> DEFINE request == Dereference(p.options, d)
    <3>2. /\ request \in Seq(Options) /\ Asked(d) \in Seq(Nat) /\ Intact(d) \in BOOLEAN
          /\ Intact(d) => Listed(request) = Asked(d)
      BY <3>1, RequestRead
    <3>3. \/ reply' = Refusal
          \/ reply' = Reply(DHCPOFFER, request, Asked(d), Intact(d), TRUE)
          \/ reply' = Reply(DHCPACK, request, Asked(d), Intact(d), TRUE)
          \/ reply' = Reply(DHCPACK, request, Asked(d), Intact(d), FALSE)
      BY <2>3, <3>1 DEF Answer, Forward
    <3> HIDE DEF request
    <3> QED
      BY <2>1, <3>2, <3>3 DEF Answers
  <2> QED
    BY <2>2, <2>3
<1>2. ASSUME NEW i \in DOMAIN cache, OtherNodeAnswers(i)
      PROVE  UNCHANGED store /\ (reply' = Refusal \/ Answers(reply'))
  <2> DEFINE request == Dereference(cache[i].options, OtherDatagram)
  <2>1. cache[i] \in Kept
    BY DEF CacheKept
  <2>2. /\ request \in Seq(Options)
        /\ cache[i].asked \in Seq(Nat) /\ cache[i].intact \in BOOLEAN
        /\ cache[i].intact => Listed(request) = cache[i].asked
    BY <2>1, OtherRead
  <2>4. /\ UNCHANGED store
        /\ reply' = Refusal \/ reply' = Reply(DHCPACK, request, cache[i].asked, cache[i].intact, TRUE)
    BY <1>2 DEF OtherNodeAnswers
  <2> HIDE DEF request
  <2> QED
    BY <2>2, <2>4 DEF Answers
<1>3. \/ \E d \in Datagrams : Receive(d)
      \/ \E i \in DOMAIN cache : OtherNodeAnswers(i)
      \/ reply' = NoReply
      \/ UNCHANGED <<reply, store>>
  BY DEF Next, Control, vars, dhcpVars, Forget, Connect, Send, Interrupt, epoll_wait,
         hdl_ctrl_new, hdl_ctrl_cmd
<1> QED
  BY <1>1, <1>2, <1>3

\* A refusal has nothing but its type.
LEMMA RefusalComplete == ASSUME NEW s PROVE Complete(Refusal, s)
<1> DEFINE typed == Option(MESSAGE_TYPE, <<DHCPNAK>>)
           end == Option(END, NoPayload)
           O == set_option(<<Padding>>, typed)
           W == dhcp_packet_send(O)
<1>1. Refusal.type = DHCPNAK /\ Refusal.wire = W
  BY DEF Refusal
<1>2. /\ Padding.code = PAD /\ typed.code = MESSAGE_TYPE /\ typed.payload = <<DHCPNAK>>
      /\ end.code = END /\ MESSAGE_TYPE # PAD /\ MESSAGE_TYPE # END
  BY DEF Padding, Option, MESSAGE_TYPE, PAD, END
<1> HIDE DEF typed, end
<1>3. O = <<typed>>
  <2> DEFINE P == <<Padding>>
  <2>1. DOMAIN P = {1} /\ P[1] = Padding /\ DOMAIN P \in SUBSET Nat
    OBVIOUS
  <2>2. [P EXCEPT ![1] = typed] = <<typed>>
    OBVIOUS
  <2> HIDE DEF P
  <2>3. 1 \in DOMAIN P /\ P[1].code \in {typed.code, PAD} /\ \A k \in DOMAIN P : k <= 1
    BY <1>2, <2>1
  <2>4. set_option(P, typed) = [P EXCEPT ![1] = typed]
    BY <2>1, <2>3, SlotTaken
  <2> QED
    BY <2>2, <2>4 DEF P
<1>4. W = Append(<<typed>>, end)
  <2> DEFINE t == <<typed>>
             V == [k \in DOMAIN t |-> Written(t[k])]
  <2>1. Written(typed) = typed
    BY <1>2 DEF Written
  <2>2. DOMAIN t = {1} /\ t[1] = typed
    OBVIOUS
  <2>3. V = [k \in {1} |-> typed]
    <3> HIDE DEF t
    <3> QED
      BY <2>1, <2>2
  <2>4. [k \in {1} |-> typed] = <<typed>>
    OBVIOUS
  <2>5. V = <<typed>>
    BY <2>3, <2>4
  <2>6. W = Append(V, end)
    BY <1>3 DEF dhcp_packet_send, end
  <2> QED
    BY <2>5, <2>6
<1> HIDE DEF O, W
<1>5. /\ DOMAIN W = 1 .. 2 /\ W[1] = typed /\ W[2] = end /\ DOMAIN W \in SUBSET Nat
      /\ W \in Seq({typed, end}) /\ Len(W) = 2
  <2> DEFINE t == <<typed>>
             U == {typed, end}
  <2>0. typed \in U /\ end \in U
    OBVIOUS
  <2> HIDE DEF U
  <2>1. t \in Seq(U) /\ Len(t) = 1 /\ t[1] = typed
    BY <2>0
  <2> HIDE DEF t
  <2>2. W = Append(t, end)
    BY <1>4 DEF t
  <2>3. /\ Append(t, end) \in Seq(U) /\ Len(Append(t, end)) = Len(t) + 1
        /\ \A i \in 1 .. Len(t) : Append(t, end)[i] = t[i]
        /\ Append(t, end)[Len(t) + 1] = end
    <3>1. t \in Seq(U)
      BY <2>1
    <3> QED
      BY <2>0, <3>1, AppendProperties
  <2>4. W \in Seq(U) /\ Len(W) = 2 /\ W[1] = typed /\ W[2] = end
    BY <2>1, <2>2, <2>3
  <2> QED
    BY <2>4 DEF U
<1>6. has_option(W, MESSAGE_TYPE) /\ has_option(W, END)
  BY <1>2, <1>5, HasOption
<1>7. UpToEnd(W) = W
  <2> DEFINE i == First(Positions(W, {END}))
  <2>1. i \in DOMAIN W /\ W[i].code = END
    BY <1>5, <1>6, Found
  <2> HIDE DEF i
  <2>2. i = 2
    BY <1>2, <1>5, <2>1
  <2>3. UpToEnd(W) = SubSeq(W, 1, 2)
    BY <1>6, <2>2 DEF UpToEnd, i
  <2> QED
    BY <1>5, <2>3, WholeSequence
<1>8. find_option(W, MESSAGE_TYPE) = typed
  <2> DEFINE i == First(Positions(W, {MESSAGE_TYPE}))
  <2>1. i \in DOMAIN W /\ W[i].code = MESSAGE_TYPE /\ find_option(W, MESSAGE_TYPE) = W[i]
    BY <1>5, <1>6, Found
  <2> HIDE DEF i
  <2>2. i = 1
    BY <1>2, <1>5, <2>1
  <2> QED
    BY <1>5, <2>1, <2>2
<1> QED
  BY <1>1, <1>2, <1>6, <1>7, <1>8 DEF Complete

LEMMA AnswerComplete ==
  ASSUME IsStore(store, Options), NEW r, Answers(r)
  PROVE  Complete(r, store)
<1>1. PICK type \in {DHCPOFFER, DHCPACK}, request \in Seq(Options), asked \in Seq(Nat),
           intact \in BOOLEAN, timed \in BOOLEAN :
        /\ intact => Listed(request) = asked
        /\ r = Reply(type, request, asked, intact, timed)
  BY DEF Answers
<1> DEFINE W == dhcp_packet_send(_dhcp_default_options(type, request, store, timed))
<1>2. /\ r.type = type /\ r.asked = asked /\ r.intact = intact /\ r.timed = timed
      /\ r.wire = W
  BY <1>1 DEF Reply
<1> SUFFICES ASSUME intact, Sendable(r, store)
             PROVE  /\ has_option(UpToEnd(W), MESSAGE_TYPE)
                    /\ find_option(UpToEnd(W), MESSAGE_TYPE).payload = <<type>>
                    /\ \A code \in Promised(r) : has_option(store, code) =>
                         /\ has_option(UpToEnd(W), code)
                         /\ find_option(UpToEnd(W), code).payload = find_option(store, code).payload
  BY <1>2 DEF Complete
<1>3. Listed(request) = asked
  BY <1>1
<1>4. Fits(request, store)
  BY <1>2, <1>3 DEF Sendable, Fits, StoredOf
<1>5. ReadsStore(W, store, asked, type, timed)
  BY <1>3, <1>4, ReplyRead
<1>6. Option(MESSAGE_TYPE, <<type>>).payload = <<type>>
  BY DEF Option
<1>7. \A code \in Promised(r) :
        \/ \E i \in DOMAIN asked : code = asked[i] /\ asked[i] # PAD
        \/ code = SERVER_IDENTIFIER
        \/ code = ADDRESS_LEASE_TIME /\ timed = TRUE
  BY <1>2 DEF Promised
<1> HIDE DEF W
<1> QED
  BY <1>5, <1>6, <1>7 DEF ReadsStore

\* For every request that reaches the handlers as it was sent, every state of
\* the store and every other packet that came in while a request was kept: a
\* client that reads the reply up to its end finds the message type that was
\* meant, and for the server identifier, for the lease time that goes with an
\* address and for each option it asked for the value of the store
\* (fill_options, set_option, dhcp_packet_copy, dhcp_packet_send).  Excepted are
\* replies with more options than a uint8_t counts (dhcp.c:124) and clients
\* that ask for the message type or the end option when the operator has set
\* one (control.c:79 takes any code).
THEOREM CompleteReplies == Spec => []RepliesComplete
<1>1. Init => RepliesComplete
  BY DEF Init, RepliesComplete, NoReply
<1>2. ASSUME RepliesComplete, IsStore(store, Options), CacheKept, [Next]_vars
      PROVE  RepliesComplete'
  <2>1. RepliesComplete' <=> Complete(reply', store')
    BY DEF RepliesComplete, Complete, Sendable, Promised
  <2>2. CASE reply' = NoReply
    BY <2>1, <2>2 DEF Complete, NoReply
  <2>3. CASE UNCHANGED store /\ reply' = Refusal
    BY <2>1, <2>3, RefusalComplete
  <2>4. CASE UNCHANGED store /\ Answers(reply')
    <3>1. Complete(reply', store)
      BY <1>2, <2>4, AnswerComplete
    <3> QED
      BY <2>1, <2>4, <3>1
  <2>5. CASE UNCHANGED store /\ UNCHANGED reply
    <3>1. RepliesComplete <=> Complete(reply, store)
      BY DEF RepliesComplete, Complete
    <3> QED
      BY <1>2, <2>1, <2>5, <3>1
  <2> QED
    BY <1>2, <2>2, <2>3, <2>4, <2>5, ReplyStep
<1>3. RepliesComplete /\ IsStore(store, Options) /\ CacheKept /\ [Next]_vars => RepliesComplete'
  BY <1>2
<1> QED
  BY <1>1, <1>3, StoreInv, CacheInv, PTL DEF Spec
=============================================================================
