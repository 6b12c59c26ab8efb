--------------------------- MODULE AccountsProofs ---------------------------
(***************************************************************************)
(* Theorems about Accounts, for every set of inputs, backups, profiles and *)
(* samples, and every size of the array.                                   *)
(***************************************************************************)
EXTENDS Accounts, DataLemmas

-----------------------------------------------------------------------------
(***************************************************************************)
(* The inductive invariant.                                                *)
(***************************************************************************)
\* The records of the program, with codes that their data can give ...
Rec == [id : 0..IdMod - 1, profile : Profiles, name : Names, data : Data, used : SUBSET Nat]

\* ... as accounts_add and accounts_import build them: acceptable, the profile canonical.
Storable(x) ==
    /\ x \in Rec /\ x.used \subseteq 1..Codes[x.data]
    /\ Acceptable(x) /\ x.profile = Canon(x.profile)

\* The records an array may hold.
Stored == {x \in Rec : Storable(x)}

\* An array has MaxAccounts places.
Arrays == {r \in Seq(Stored) : Len(r) <= MaxAccounts}

\* No two records with the same profile and name (same_key).
Keyed(r) == r \in Arrays /\ \A i, j \in DOMAIN r : i # j => ~SameKey(r[i], r[j])

\* Every record has an identifier, no two the same (next_id).
Numbered(r) ==
    /\ \A i \in DOMAIN r : r[i].id \in 1..MaxId
    /\ \A i, j \in DOMAIN r : i # j => r[i].id # r[j].id

\* What every array in RAM or in the store is.
Good(r) == Keyed(r) /\ Numbered(r)

\* What the NVS may hold as the hash of the profile last selected.
HashOf == {Hash(p) : p \in Profiles}

\* The active profile and the stored hash: the profile is one of the records'
\* (the default one if there are none), and the hash is its own, but for the
\* default profile, whose selection when the store is wiped is not saved.
IsActive(r, a) ==
    /\ a = <<a[1], a[2]>>
    /\ a[1] \in Profiles /\ a[1] = Canon(a[1]) /\ a[2] \in HashOf
    /\ IF r = <<>> THEN a[1] = Default ELSE Used(r, a[1])
    /\ a[1] # Default => a[2] = Hash(a[1])

\* The inductive invariant of the accounts: the arrays in RAM, in the store
\* and in the copies that an unlock may load are all good, the profile is one
\* of the array in RAM, and that array is the stored one.
IInv ==
    /\ state \in {"BLANK", "LOCKED", "UNLOCKED"} /\ emptied \in BOOLEAN
    /\ Good(recs) /\ Good(stored) /\ \A c \in copies : Good(c)
    /\ IsActive(recs, Active)
    /\ RamMatchesStore

-----------------------------------------------------------------------------
(***************************************************************************)
(* The constants, records and arrays.                                      *)
(***************************************************************************)
\* The assumptions on the constants, one by one.
LEMMA Consts ==
  /\ Profiles \subseteq Nat \X Nat /\ Names \subseteq Nat \X Nat
  /\ Default \in Profiles /\ Targets \subseteq Profiles
  /\ MaxAccounts \in Nat \ {0} /\ IdMod \in Nat /\ MaxId \in Nat /\ MaxId + 1 < IdMod
  /\ Codes \in [Data -> Nat]
BY AccountsAssumption

\* Profiles and names compare by a number.
LEMMA RankNat == \A p \in Profiles \cup Names : Rank(p) \in Nat
BY Consts DEF Rank

\* A canonical profile is canonical, and the same profile (canon, profile_eq).
LEMMA CanonFacts ==
  \A p \in Profiles : /\ Canon(p) \in Profiles /\ Canon(Canon(p)) = Canon(p)
                      /\ Rank(Canon(p)) = Rank(p) /\ ProfileEq(p, Canon(p))
<1>1. Rank(Default) = 0
  BY DEF Rank, Default
<1>2. QED BY <1>1, Consts DEF Canon, ProfileEq

\* What an array of records is.
LEMMA ArrayFacts ==
  ASSUME NEW r \in Arrays
  PROVE  /\ r \in Seq(Stored) /\ Len(r) \in 0..MaxAccounts /\ DOMAIN r = 1..Len(r)
         /\ \A i \in DOMAIN r : r[i] \in Stored
BY Consts, LenProperties, ElementOfSeq DEF Arrays

\* What a record of an array is.
LEMMA StoredFacts ==
  ASSUME NEW x \in Stored
  PROVE  /\ x \in Rec /\ x.id \in 0..IdMod - 1 /\ x.profile \in Profiles /\ x.name \in Names
         /\ x.data \in Data /\ x.used \subseteq 1..Codes[x.data] /\ x.used \in SUBSET Nat
         /\ Acceptable(x) /\ x.profile = Canon(x.profile)
         /\ Rank(x.profile) \in Nat /\ Rank(x.name) \in Nat
BY RankNat DEF Stored, Storable, Rec

\* An input becomes a storable record of the same key (accounts_add).
LEMMA RecordStored ==
  ASSUME NEW a, IsInput(a), Acceptable(a), NEW id \in 0..IdMod - 1
  PROVE  /\ Record(a, id) \in Stored /\ Record(a, id).id = id
         /\ SameKey(Record(a, id), a) /\ ProfileEq(Record(a, id).profile, a.profile)
<1>1. /\ a.profile \in Profiles /\ a.name \in Names /\ a.data \in Data /\ a.used \in SUBSET Nat
      /\ a.used \subseteq 1..Codes[a.data]
  BY DEF IsInput
<1>2. Record(a, id) \in Rec
  BY <1>1, CanonFacts DEF Record, Rec
<1>3. Acceptable(Record(a, id))
  BY DEF Acceptable, Record
<1>4. QED BY <1>1, <1>2, <1>3, CanonFacts DEF Record, Stored, Storable, SameKey, ProfileEq

\* next_id is above every identifier, unless it wraps at 16 bits.
LEMMA NextIdFacts ==
  ASSUME NEW r \in Arrays
  PROVE  /\ NextId(r) \in 0..IdMod - 1
         /\ (\A i \in DOMAIN r : r[i].id <= MaxId) =>
              /\ NextId(r) \in 1..MaxId + 1
              /\ \A i \in DOMAIN r : r[i].id < NextId(r)
<1> DEFINE ids == {r[i].id : i \in DOMAIN r} \cup {0}
<1>1. ids \in SUBSET (0..IdMod - 1) /\ ids # {} /\ IdMod - 1 \in Nat
  BY ArrayFacts, StoredFacts, Consts, SMTT(60)
<1>2. Max(ids) \in ids /\ \A y \in ids : Max(ids) >= y
  <2> HIDE DEF ids
  <2> QED BY <1>1, MaxIn
<1>3. Max(ids) \in 0..IdMod - 1
  <2> HIDE DEF ids
  <2> QED BY <1>1, <1>2
<1>4. NextId(r) = (Max(ids) + 1) % IdMod
  BY DEF NextId
<1>5. NextId(r) \in 0..IdMod - 1
  <2> HIDE DEF ids
  <2> QED BY <1>3, <1>4, Consts
<1>6. ASSUME \A i \in DOMAIN r : r[i].id <= MaxId
      PROVE  /\ NextId(r) \in 1..MaxId + 1
             /\ \A i \in DOMAIN r : r[i].id < NextId(r)
  <2>1. Max(ids) \in 0..MaxId
    BY <1>2, <1>3, <1>6, Consts
  <2>2. NextId(r) = Max(ids) + 1
    <3> HIDE DEF ids
    <3> QED BY <2>1, <1>4, Consts
  <2>3. \A i \in DOMAIN r : r[i].id \in ids /\ r[i].id \in Int
    BY ArrayFacts, StoredFacts
  <2>4. QED
    <3> HIDE DEF ids
    <3> QED BY <2>1, <2>2, <2>3, <1>2, Consts
<1>7. QED BY <1>5, <1>6

\* An empty array is good.
LEMMA EmptyGood == Good(<<>>) /\ <<>> \in Arrays
BY EmptySeq, Consts DEF Good, Keyed, Numbered, Arrays

\* A record after the last one.
LEMMA AppendFacts ==
  ASSUME NEW r \in Seq(Stored), NEW x \in Stored
  PROVE  /\ Append(r, x) \in Seq(Stored)
         /\ Len(r) \in Nat /\ Len(Append(r, x)) = Len(r) + 1
         /\ DOMAIN r = 1..Len(r) /\ DOMAIN Append(r, x) = 1..Len(r) + 1
         /\ \A i \in DOMAIN r : Append(r, x)[i] = r[i]
         /\ Append(r, x)[Len(r) + 1] = x
BY AppendProperties, LenProperties

\* Taking back the record that was just appended (accounts_add's undo).
LEMMA FrontOfAppend ==
  ASSUME NEW r \in Seq(Stored), NEW x \in Stored
  PROVE  Front(Append(r, x)) = r
<1>1. SubSeq(Append(r, x), 1, Len(r)) = r
  <2>1. \A i \in 1..Len(r) : Append(r, x)[i] \in Stored /\ Append(r, x)[i] = r[i]
    BY AppendFacts, ElementOfSeq
  <2>2. /\ SubSeq(Append(r, x), 1, Len(r)) \in Seq(Stored)
        /\ Len(SubSeq(Append(r, x), 1, Len(r))) = Len(r)
        /\ \A i \in 1..Len(r) : SubSeq(Append(r, x), 1, Len(r))[i] = r[i]
    BY <2>1, AppendFacts, SubSeqProperties
  <2>3. QED BY <2>2, SeqEqual
<1>2. QED BY <1>1, AppendFacts DEF Front

\* A record in the place of another (accounts_update).
LEMMA ReplaceFacts ==
  ASSUME NEW r \in Arrays, NEW i \in DOMAIN r, NEW x \in Stored
  PROVE  /\ [r EXCEPT ![i] = x] \in Arrays
         /\ DOMAIN [r EXCEPT ![i] = x] = DOMAIN r
         /\ Len([r EXCEPT ![i] = x]) = Len(r)
         /\ \A j \in DOMAIN r : [r EXCEPT ![i] = x][j] = IF j = i THEN x ELSE r[j]
BY ExceptSeq, ArrayFacts DEF Arrays

\* The records after the removed one move down; putting it back undoes it
\* (accounts_remove).
LEMMA RemoveFacts ==
  ASSUME NEW r \in Arrays, NEW i \in DOMAIN r
  PROVE  /\ RemoveAt(r, i) \in Arrays
         /\ Len(RemoveAt(r, i)) = Len(r) - 1 /\ DOMAIN RemoveAt(r, i) = 1..Len(r) - 1
         /\ \A j \in 1..Len(r) - 1 : RemoveAt(r, i)[j] = IF j < i THEN r[j] ELSE r[j + 1]
         /\ InsertAt(RemoveAt(r, i), i, r[i]) = r
<1> DEFINE a == SubSeq(r, 1, i - 1)
           c == SubSeq(r, i + 1, Len(r))
           w == RemoveAt(r, i)
           n == Len(r)
<1>1. r \in Seq(Stored) /\ n \in 0..MaxAccounts /\ DOMAIN r = 1..n /\ i \in 1..n
      /\ Len(r) = n /\ n \in Nat /\ i \in Nat /\ \A k \in 1..n : r[k] \in Stored
  BY ArrayFacts, Consts
<1> HIDE DEF n
<1>2. /\ a \in Seq(Stored) /\ Len(a) = i - 1
      /\ \A k \in 1..i - 1 : a[k] = r[k]
  <2>1. \A k \in 1..i - 1 : r[k] \in Stored
    BY <1>1
  <2>2. /\ a \in Seq(Stored) /\ Len(a) = (IF 1 <= i - 1 THEN (i - 1) - 1 + 1 ELSE 0)
        /\ \A k \in 1..(i - 1) - 1 + 1 : a[k] = r[1 + k - 1]
    BY <1>1, <2>1, SubSeqProperties, SMTT(60)
  <2>3. QED BY <1>1, <2>2
<1>3. /\ c \in Seq(Stored) /\ Len(c) = n - i
      /\ \A k \in 1..n - i : c[k] = r[i + k]
  <2>1. \A k \in i + 1..n : r[k] \in Stored
    BY <1>1
  <2>2. /\ c \in Seq(Stored) /\ Len(c) = (IF i + 1 <= n THEN n - (i + 1) + 1 ELSE 0)
        /\ \A k \in 1..n - (i + 1) + 1 : c[k] = r[(i + 1) + k - 1]
    BY <1>1, <2>1, SubSeqProperties, SMTT(60)
  <2>3. QED BY <1>1, <2>2, SMTT(60)
<1>4. /\ w \in Seq(Stored) /\ Len(w) = n - 1
      /\ \A k \in 1..n - 1 : w[k] = IF k < i THEN r[k] ELSE r[k + 1]
  <2>1. w = a \o c
    BY DEF RemoveAt
  <2> HIDE DEF a, c, w
  <2>2. /\ w \in Seq(Stored) /\ Len(w) = Len(a) + Len(c)
        /\ \A k \in 1..Len(a) + Len(c) : w[k] = IF k <= Len(a) THEN a[k] ELSE c[k - Len(a)]
    BY <2>1, <1>2, <1>3, ConcatProperties
  <2>3. ASSUME NEW k \in 1..n - 1 PROVE w[k] = IF k < i THEN r[k] ELSE r[k + 1]
    <3>1. CASE k < i
      <4>1. k \in 1..Len(a) + Len(c) /\ k <= Len(a) /\ k \in 1..i - 1
        BY <3>1, <1>1, <1>2, <1>3
      <4>2. w[k] = a[k]
        BY <4>1, <2>2
      <4>3. QED BY <3>1, <4>1, <4>2, <1>2
    <3>2. CASE ~(k < i)
      <4>1. k - Len(a) \in 1..n - i /\ i + (k - Len(a)) = k + 1
        BY <3>2, <1>1, <1>2
      <4>2. k \in 1..Len(a) + Len(c) /\ ~(k <= Len(a))
        BY <3>2, <1>1, <1>2, <1>3
      <4>3. w[k] = c[k - Len(a)]
        BY <4>2, <2>2
      <4>4. QED BY <3>2, <4>1, <4>3, <1>3
    <3>3. QED BY <3>1, <3>2
  <2>4. QED BY <2>2, <2>3, <1>1, <1>2, <1>3
<1>5. InsertAt(w, i, r[i]) = r
  <2> DEFINE e == SubSeq(w, 1, i - 1)
             g == SubSeq(w, i, Len(w))
             m == <<r[i]>>
             em == e \o m
  <2> HIDE DEF w, e, g, m, em
  <2>0. \A k \in 1..n - 1 : w[k] \in Stored
    BY <1>1, <1>4
  <2>1. e \in Seq(Stored) /\ Len(e) = i - 1 /\ \A k \in 1..i - 1 : e[k] = r[k]
    <3>1. \A k \in 1..i - 1 : w[k] \in Stored /\ w[k] = r[k]
      <4>1. \A k \in 1..i - 1 : k \in 1..n - 1 /\ k < i
        BY <1>1
      <4>2. QED BY <4>1, <1>4, <2>0
    <3>2. /\ e \in Seq(Stored) /\ Len(e) = (IF 1 <= i - 1 THEN (i - 1) - 1 + 1 ELSE 0)
          /\ \A k \in 1..(i - 1) - 1 + 1 : e[k] = w[1 + k - 1]
      BY <1>1, <3>1, SubSeqProperties DEF e
    <3>3. QED BY <1>1, <3>1, <3>2
  <2>2. g \in Seq(Stored) /\ Len(g) = n - i /\ \A k \in 1..n - i : g[k] = r[i + k]
    <3>1. \A k \in i..n - 1 : w[k] \in Stored /\ w[k] = r[k + 1]
      BY <1>1, <1>4, <2>0
    <3>2. /\ g \in Seq(Stored) /\ Len(g) = (IF i <= n - 1 THEN (n - 1) - i + 1 ELSE 0)
          /\ \A k \in 1..(n - 1) - i + 1 : g[k] = w[i + k - 1]
      BY <1>1, <1>4, <3>1, SubSeqProperties DEF g
    <3>3. \A k \in 1..n - i : k \in 1..(n - 1) - i + 1 /\ i + k - 1 \in i..n - 1 /\ (i + k - 1) + 1 = i + k
      BY <1>1
    <3>4. \A k \in 1..n - i : g[k] = r[i + k]
      BY <3>1, <3>2, <3>3
    <3>5. QED BY <1>1, <3>2, <3>4
  <2>3. m \in Seq(Stored) /\ Len(m) = 1 /\ m[1] = r[i]
    BY <1>1 DEF m
  <2>4. InsertAt(w, i, r[i]) = em \o g
    BY DEF InsertAt, e, g, m, em
  <2>5. /\ em \in Seq(Stored) /\ Len(em) = i
        /\ \A k \in 1..i : em[k] = r[k]
    <3>1. /\ em \in Seq(Stored) /\ Len(em) = Len(e) + Len(m)
          /\ \A k \in 1..Len(e) + Len(m) : em[k] = IF k <= Len(e) THEN e[k] ELSE m[k - Len(e)]
      BY <2>1, <2>3, ConcatProperties DEF em
    <3>2. \A k \in 1..i : /\ k \in 1..Len(e) + Len(m)
                          /\ k <= Len(e) => k \in 1..i - 1
                          /\ ~(k <= Len(e)) => k = i /\ k - Len(e) = 1
      BY <1>1, <2>1, <2>3
    <3>3. \A k \in 1..i : em[k] = r[k]
      <4> TAKE k \in 1..i
      <4>1. CASE k <= Len(e)
        BY <4>1, <3>1, <3>2, <2>1
      <4>2. CASE ~(k <= Len(e))
        <5>1. k \in 1..Len(e) + Len(m) /\ k = i /\ k - Len(e) = 1
          BY <4>2, <1>1, <2>1, <2>3
        <5>2. em[k] = m[k - Len(e)]
          BY <4>2, <5>1, <3>1
        <5>3. QED BY <5>1, <5>2, <2>3
      <4>3. QED BY <4>1, <4>2
    <3>4. QED BY <1>1, <2>1, <2>3, <3>1, <3>3
  <2>6. /\ em \o g \in Seq(Stored) /\ Len(em \o g) = n
        /\ \A k \in 1..n : (em \o g)[k] = IF k <= i THEN em[k] ELSE g[k - i]
    <3>1. /\ em \o g \in Seq(Stored) /\ Len(em \o g) = Len(em) + Len(g)
          /\ \A k \in 1..Len(em) + Len(g) :
               (em \o g)[k] = IF k <= Len(em) THEN em[k] ELSE g[k - Len(em)]
      BY <2>2, <2>5, ConcatProperties
    <3>2. Len(em) + Len(g) = n
      BY <1>1, <2>2, <2>5
    <3>3. QED BY <3>1, <3>2, <2>5
  <2>7. \A k \in 1..n : (em \o g)[k] = r[k]
    <3> TAKE k \in 1..n
    <3>1. CASE k <= i
      BY <3>1, <2>5, <2>6, <1>1
    <3>2. CASE ~(k <= i)
      <4>1. k - i \in 1..n - i /\ i + (k - i) = k
        BY <3>2, <1>1
      <4>2. QED BY <3>2, <4>1, <2>2, <2>6
    <3>3. QED BY <3>1, <3>2
  <2>8. QED BY <2>4, <2>6, <2>7, <1>1, SeqEqual
<1>6. DOMAIN w = 1..n - 1
  BY <1>4, LenProperties
<1>7. w \in Arrays
  BY <1>1, <1>4, Consts DEF Arrays
<1> HIDE DEF w
<1>8. QED BY <1>1, <1>4, <1>5, <1>6, <1>7 DEF w, n

-----------------------------------------------------------------------------
(***************************************************************************)
(* The loops of the code, as runs.  FoldLeft is recursive: its value is that *)
(* of the last array of the run.                                           *)
(***************************************************************************)
\* X holds what ImportOne gives, with the records of b, from what is in X.
ImportsIn(X, n, b) == \A x \in X, i \in 1..n : ImportOne(x, b[i]) \in X

\* f[k] is the array after the first k records of b.
ImportRun(f, n, base, b) ==
    /\ f[0] = base
    /\ \A k \in 1..n : f[k] = ImportOne(f[k - 1], b[k])

\* The loop of accounts_import over the records of a backup, step by step.
LEMMA ImportRuns ==
  ASSUME NEW n \in Nat, NEW b, DOMAIN b = 1..n, NEW X, NEW base \in X,
         ImportsIn(X, n, b)
  PROVE  \E f \in [0..n -> X] : ImportRun(f, n, base, b) /\ FoldLeft(ImportOne, base, b) = f[n]
<1> DEFINE G == [p \in X \X (1..n) |-> ImportOne(p[1], b[p[2]])]
           D == SUBSET (1..n)
           Eq(h) == h = [s \in D |-> IF s = {} THEN base
                                     ELSE LET x == Max(s) IN ImportOne(h[s \ {x}], b[x])]
<1>1. G \in [X \X (1..n) -> X]
  BY DEF ImportsIn
<1>2. \A s \in D : s # {} => Max(s) \in s /\ Max(s) \in 1..n /\ s \ {Max(s)} \in D
  <2> TAKE s \in D
  <2> HAVE s # {}
  <2>1. s \in SUBSET (1..n) /\ s \in SUBSET (0..n)
    OBVIOUS
  <2>2. Max(s) \in s
    BY <2>1, MaxIn
  <2>3. Max(s) \in 1..n
    BY <2>1, <2>2
  <2>4. s \ {Max(s)} \in D
    BY <2>1
  <2>5. QED BY <2>2, <2>3, <2>4
<1> HIDE DEF G
<1>3. PICK g \in [SUBSET (1..n) -> X] : FoldsBy(g, n, base, G)
  BY <1>1, FoldExists
<1>4. Eq(g)
  <2>1. \A s \in D : g[s] = IF s = {} THEN base
                             ELSE LET x == Max(s) IN ImportOne(g[s \ {x}], b[x])
    BY <1>2, <1>3 DEF G, FoldsBy
  <2>2. g \in [D -> X]
    BY <1>3
  <2> HIDE DEF D
  <2>3. QED BY <2>1, <2>2
<1> DEFINE iter == CHOOSE h : Eq(h)
<1>5. Eq(iter)
  BY <1>4
<1>6. FoldLeft(ImportOne, base, b) = iter[1..n]
  BY DEF FoldLeft, MapThenFoldSet
<1> DEFINE f == [k \in 0..n |-> iter[1..k]]
<1> HIDE DEF iter
<1>7. \A s \in D : iter[s] = IF s = {} THEN base
                           ELSE ImportOne(iter[s \ {Max(s)}], b[Max(s)])
  BY <1>5
<1>8. f[0] = base
  <2>1. 1..0 = {} /\ 0 \in 0..n
    OBVIOUS
  <2>2. QED BY <1>7, <2>1
<1>9. \A k \in 1..n : f[k] = ImportOne(f[k - 1], b[k])
  <2> TAKE k \in 1..n
  <2>1. 1..k \in D /\ 1..k # {} /\ Max(1..k) = k
    <3>1. 1..k \in SUBSET Int /\ k \in 1..k /\ \A y \in 1..k : k >= y
      OBVIOUS
    <3>2. Max(1..k) = k
      BY <3>1, MaxIs
    <3>3. 1..k \in D
      OBVIOUS
    <3>4. QED BY <3>1, <3>2, <3>3
  <2>2. (1..k) \ {k} = 1..(k - 1) /\ k - 1 \in 0..n
    OBVIOUS
  <2>3. iter[1..k] = ImportOne(iter[1..(k - 1)], b[k])
    BY <1>7, <2>1, <2>2
  <2>4. f[k] = iter[1..k] /\ f[k - 1] = iter[1..(k - 1)]
    BY <2>2
  <2> HIDE DEF f
  <2>5. QED BY <2>3, <2>4
<1>10. \A k \in 0..n : f[k] \in X
  <2> DEFINE S == {k \in 0..n : f[k] \in X}
  <2>1. 0 \in S
    BY <1>8
  <2>2. ASSUME NEW k \in 0..n - 1, k \in S PROVE k + 1 \in S
    <3>1. k + 1 \in 1..n /\ (k + 1) - 1 = k
      OBVIOUS
    <3> HIDE DEF f
    <3>2. QED BY <1>9, <2>2, <3>1 DEF ImportsIn
  <2> HIDE DEF S
  <2>3. QED BY <2>1, <2>2, Counting DEF S
<1>11. f \in [0..n -> X]
  BY <1>10
<1>12. n \in 0..n /\ f[n] = iter[1..n]
  OBVIOUS
<1> HIDE DEF f
<1>13. QED BY <1>6, <1>8, <1>9, <1>11, <1>12 DEF ImportRun

\* X holds what AddSample gives, with the records of b, from what is in X.
SamplesIn(X, n, b) == \A x \in X, i \in 1..n : AddSample(x, b[i]) \in X

\* f[k] is the array after the first k samples.
SampleRun(f, n, base, b) ==
    /\ f[0] = base
    /\ \A k \in 1..n : f[k] = AddSample(f[k - 1], b[k])

\* The loop of accounts_load_demo over its samples, step by step.
LEMMA SampleRuns ==
  ASSUME NEW n \in Nat, NEW b, DOMAIN b = 1..n, NEW X, NEW base \in X,
         SamplesIn(X, n, b)
  PROVE  \E f \in [0..n -> X] : SampleRun(f, n, base, b) /\ FoldLeft(AddSample, base, b) = f[n]
<1> DEFINE G == [p \in X \X (1..n) |-> AddSample(p[1], b[p[2]])]
           D == SUBSET (1..n)
           Eq(h) == h = [s \in D |-> IF s = {} THEN base
                                     ELSE LET x == Max(s) IN AddSample(h[s \ {x}], b[x])]
<1>1. G \in [X \X (1..n) -> X]
  BY DEF SamplesIn
<1>2. \A s \in D : s # {} => Max(s) \in s /\ Max(s) \in 1..n /\ s \ {Max(s)} \in D
  <2> TAKE s \in D
  <2> HAVE s # {}
  <2>1. s \in SUBSET (1..n) /\ s \in SUBSET (0..n)
    OBVIOUS
  <2>2. Max(s) \in s
    BY <2>1, MaxIn
  <2>3. Max(s) \in 1..n
    BY <2>1, <2>2
  <2>4. s \ {Max(s)} \in D
    BY <2>1
  <2>5. QED BY <2>2, <2>3, <2>4
<1> HIDE DEF G
<1>3. PICK g \in [SUBSET (1..n) -> X] : FoldsBy(g, n, base, G)
  BY <1>1, FoldExists
<1>4. Eq(g)
  <2>1. \A s \in D : g[s] = IF s = {} THEN base
                             ELSE LET x == Max(s) IN AddSample(g[s \ {x}], b[x])
    BY <1>2, <1>3 DEF G, FoldsBy
  <2>2. g \in [D -> X]
    BY <1>3
  <2> HIDE DEF D
  <2>3. QED BY <2>1, <2>2
<1> DEFINE iter == CHOOSE h : Eq(h)
<1>5. Eq(iter)
  BY <1>4
<1>6. FoldLeft(AddSample, base, b) = iter[1..n]
  BY DEF FoldLeft, MapThenFoldSet
<1> DEFINE f == [k \in 0..n |-> iter[1..k]]
<1> HIDE DEF iter
<1>7. \A s \in D : iter[s] = IF s = {} THEN base
                           ELSE AddSample(iter[s \ {Max(s)}], b[Max(s)])
  BY <1>5
<1>8. f[0] = base
  <2>1. 1..0 = {} /\ 0 \in 0..n
    OBVIOUS
  <2>2. QED BY <1>7, <2>1
<1>9. \A k \in 1..n : f[k] = AddSample(f[k - 1], b[k])
  <2> TAKE k \in 1..n
  <2>1. 1..k \in D /\ 1..k # {} /\ Max(1..k) = k
    <3>1. 1..k \in SUBSET Int /\ k \in 1..k /\ \A y \in 1..k : k >= y
      OBVIOUS
    <3>2. Max(1..k) = k
      BY <3>1, MaxIs
    <3>3. 1..k \in D
      OBVIOUS
    <3>4. QED BY <3>1, <3>2, <3>3
  <2>2. (1..k) \ {k} = 1..(k - 1) /\ k - 1 \in 0..n
    OBVIOUS
  <2>3. iter[1..k] = AddSample(iter[1..(k - 1)], b[k])
    BY <1>7, <2>1, <2>2
  <2>4. f[k] = iter[1..k] /\ f[k - 1] = iter[1..(k - 1)]
    BY <2>2
  <2> HIDE DEF f
  <2>5. QED BY <2>3, <2>4
<1>10. \A k \in 0..n : f[k] \in X
  <2> DEFINE S == {k \in 0..n : f[k] \in X}
  <2>1. 0 \in S
    BY <1>8
  <2>2. ASSUME NEW k \in 0..n - 1, k \in S PROVE k + 1 \in S
    <3>1. k + 1 \in 1..n /\ (k + 1) - 1 = k
      OBVIOUS
    <3> HIDE DEF f
    <3>2. QED BY <1>9, <2>2, <3>1 DEF SamplesIn
  <2> HIDE DEF S
  <2>3. QED BY <2>1, <2>2, Counting DEF S
<1>11. f \in [0..n -> X]
  BY <1>10
<1>12. n \in 0..n /\ f[n] = iter[1..n]
  OBVIOUS
<1> HIDE DEF f
<1>13. QED BY <1>6, <1>8, <1>9, <1>11, <1>12 DEF SampleRun

\* X holds what keeping a record of b gives from what is in X.
WithoutIn(X, n, b, gone) ==
    \A x \in X, i \in 1..n : b[i] \notin gone => Append(x, b[i]) \in X

\* f[k] is what the compaction has kept of the first k records.
WithoutRun(f, n, b, gone) ==
    /\ f[0] = <<>>
    /\ \A k \in 1..n : f[k] = (IF b[k] \in gone THEN f[k - 1] ELSE Append(f[k - 1], b[k]))

\* The compaction loop of a deletion and of an import, step by step.
LEMMA WithoutRuns ==
  ASSUME NEW n \in Nat, NEW b, DOMAIN b = 1..n, NEW gone, NEW X, <<>> \in X,
         WithoutIn(X, n, b, gone)
  PROVE  \E f \in [0..n -> X] : WithoutRun(f, n, b, gone) /\ Without(b, gone) = f[n]
<1> DEFINE G == [p \in X \X (1..n) |-> (IF b[p[2]] \in gone THEN p[1] ELSE Append(p[1], b[p[2]]))]
           D == SUBSET (1..n)
           Eq(h) == h = [s \in D |-> IF s = {} THEN <<>>
                                     ELSE LET x == Max(s) IN (IF b[x] \in gone THEN h[s \ {x}] ELSE Append(h[s \ {x}], b[x]))]
<1>1. G \in [X \X (1..n) -> X]
  BY DEF WithoutIn
<1>2. \A s \in D : s # {} => Max(s) \in s /\ Max(s) \in 1..n /\ s \ {Max(s)} \in D
  <2> TAKE s \in D
  <2> HAVE s # {}
  <2>1. s \in SUBSET (1..n) /\ s \in SUBSET (0..n)
    OBVIOUS
  <2>2. Max(s) \in s
    BY <2>1, MaxIn
  <2>3. Max(s) \in 1..n
    BY <2>1, <2>2
  <2>4. s \ {Max(s)} \in D
    BY <2>1
  <2>5. QED BY <2>2, <2>3, <2>4
<1> HIDE DEF G
<1>3. PICK g \in [SUBSET (1..n) -> X] : FoldsBy(g, n, <<>>, G)
  BY <1>1, FoldExists
<1>4. Eq(g)
  <2>1. \A s \in D : g[s] = IF s = {} THEN <<>>
                             ELSE LET x == Max(s) IN (IF b[x] \in gone THEN g[s \ {x}] ELSE Append(g[s \ {x}], b[x]))
    BY <1>2, <1>3 DEF G, FoldsBy
  <2>2. g \in [D -> X]
    BY <1>3
  <2> HIDE DEF D
  <2>3. QED BY <2>1, <2>2
<1> DEFINE iter == CHOOSE h : Eq(h)
<1>5. Eq(iter)
  BY <1>4
<1>6. Without(b, gone) = iter[1..n]
  BY DEF Without, FoldLeft, MapThenFoldSet
<1> DEFINE f == [k \in 0..n |-> iter[1..k]]
<1> HIDE DEF iter
<1>7. \A s \in D : iter[s] = IF s = {} THEN <<>>
                           ELSE (IF b[Max(s)] \in gone THEN iter[s \ {Max(s)}] ELSE Append(iter[s \ {Max(s)}], b[Max(s)]))
  BY <1>5
<1>8. f[0] = <<>>
  <2>1. 1..0 = {} /\ 0 \in 0..n
    OBVIOUS
  <2>2. QED BY <1>7, <2>1
<1>9. \A k \in 1..n : f[k] = (IF b[k] \in gone THEN f[k - 1] ELSE Append(f[k - 1], b[k]))
  <2> TAKE k \in 1..n
  <2>1. 1..k \in D /\ 1..k # {} /\ Max(1..k) = k
    <3>1. 1..k \in SUBSET Int /\ k \in 1..k /\ \A y \in 1..k : k >= y
      OBVIOUS
    <3>2. Max(1..k) = k
      BY <3>1, MaxIs
    <3>3. 1..k \in D
      OBVIOUS
    <3>4. QED BY <3>1, <3>2, <3>3
  <2>2. (1..k) \ {k} = 1..(k - 1) /\ k - 1 \in 0..n
    OBVIOUS
  <2>3. iter[1..k] = (IF b[k] \in gone THEN iter[1..(k - 1)] ELSE Append(iter[1..(k - 1)], b[k]))
    BY <1>7, <2>1, <2>2
  <2>4. f[k] = iter[1..k] /\ f[k - 1] = iter[1..(k - 1)]
    BY <2>2
  <2> HIDE DEF f
  <2>5. QED BY <2>3, <2>4
<1>10. \A k \in 0..n : f[k] \in X
  <2> DEFINE S == {k \in 0..n : f[k] \in X}
  <2>1. 0 \in S
    BY <1>8
  <2>2. ASSUME NEW k \in 0..n - 1, k \in S PROVE k + 1 \in S
    <3>1. k + 1 \in 1..n /\ (k + 1) - 1 = k
      OBVIOUS
    <3> HIDE DEF f
    <3>2. QED BY <1>9, <2>2, <3>1 DEF WithoutIn
  <2> HIDE DEF S
  <2>3. QED BY <2>1, <2>2, Counting DEF S
<1>11. f \in [0..n -> X]
  BY <1>10
<1>12. n \in 0..n /\ f[n] = iter[1..n]
  OBVIOUS
<1> HIDE DEF f
<1>13. QED BY <1>6, <1>8, <1>9, <1>11, <1>12 DEF WithoutRun

-----------------------------------------------------------------------------
(***************************************************************************)
(* What one turn of each loop does, and what the compaction leaves.        *)
(***************************************************************************)
\* e says where each record of w was in the first n of r: w is what is left of
\* them without those in gone, in their order.
Picks(e, w, r, n, gone) ==
    /\ e \in [DOMAIN w -> 1..n]
    /\ \A i, j \in DOMAIN w : i < j => e[i] < e[j]
    /\ \A i \in DOMAIN w : w[i] = r[e[i]] /\ r[e[i]] \notin gone
    /\ \A j \in 1..n : r[j] \notin gone => \E i \in DOMAIN w : e[i] = j

\* The compaction keeps exactly the records that are not gone, in their order.
LEMMA WithoutFacts ==
  ASSUME NEW r \in Arrays, NEW gone
  PROVE  /\ Without(r, gone) \in Arrays /\ Len(Without(r, gone)) <= Len(r)
         /\ \E e : Picks(e, Without(r, gone), r, Len(r), gone)
<1> DEFINE n == Len(r)
<1>1. r \in Seq(Stored) /\ n \in Nat /\ n <= MaxAccounts /\ DOMAIN r = 1..n
      /\ \A i \in 1..n : r[i] \in Stored
  BY ArrayFacts, Consts
<1> HIDE DEF n
<1>2. \A x \in Seq(Stored), i \in 1..n : r[i] \notin gone => Append(x, r[i]) \in Seq(Stored)
  BY <1>1, AppendProperties
<1>0. PICK f \in [0..n -> Seq(Stored)] : WithoutRun(f, n, r, gone) /\ Without(r, gone) = f[n]
  <2> DEFINE X == Seq(Stored)
  <2>1. WithoutIn(X, n, r, gone) /\ <<>> \in X
    BY <1>2, EmptySeq DEF WithoutIn
  <2>2. DOMAIN r = 1..n /\ n \in Nat
    BY <1>1
  <2> HIDE DEF X
  <2>3. \E f \in [0..n -> X] : WithoutRun(f, n, r, gone) /\ Without(r, gone) = f[n]
    BY <2>1, <2>2, WithoutRuns
  <2>4. QED BY <2>3 DEF X
<1>3. /\ f[0] = <<>>
      /\ \A k \in 1..n : f[k] = IF r[k] \in gone THEN f[k - 1] ELSE Append(f[k - 1], r[k])
      /\ Without(r, gone) = f[n]
  BY <1>0 DEF WithoutRun
<1> DEFINE S == {k \in 0..n : Len(f[k]) <= k /\ \E e : Picks(e, f[k], r, k, gone)}
<1>4. 0 \in S
  <2>1. Len(f[0]) = 0 /\ DOMAIN f[0] = {}
    BY <1>3, EmptySeq, LenProperties
  <2>2. Picks([i \in {} |-> 0], f[0], r, 0, gone)
    BY <2>1 DEF Picks
  <2>3. QED BY <2>1, <2>2, <1>1
<1>5. ASSUME NEW k \in 0..n - 1, k \in S PROVE k + 1 \in S
  <2>1. PICK e : Picks(e, f[k], r, k, gone)
    BY <1>5
  <2>2. k + 1 \in 1..n /\ (k + 1) - 1 = k /\ k \in 0..n /\ k + 1 \in 0..n /\ k \in Nat
    BY <1>1
  <2>3. f[k] \in Seq(Stored) /\ r[k + 1] \in Stored /\ Len(f[k]) <= k
    BY <1>1, <1>5, <2>2
  <2>4. CASE r[k + 1] \in gone
    <3>1. f[k + 1] = f[k]
      BY <1>3, <2>2, <2>4
    <3>2. Picks(e, f[k + 1], r, k + 1, gone)
      BY <2>1, <2>2, <2>4, <3>1 DEF Picks
    <3>3. QED BY <2>2, <2>3, <3>1, <3>2, AppendFacts
  <2>5. CASE r[k + 1] \notin gone
    <3> DEFINE m == Len(f[k])
               g == [i \in 1..m + 1 |-> IF i = m + 1 THEN k + 1 ELSE e[i]]
    <3>1. f[k + 1] = Append(f[k], r[k + 1])
      BY <1>3, <2>2, <2>5
    <3>2. /\ m \in Nat /\ DOMAIN f[k] = 1..m
          /\ DOMAIN f[k + 1] = 1..m + 1 /\ Len(f[k + 1]) = m + 1
          /\ \A i \in 1..m : f[k + 1][i] = f[k][i]
          /\ f[k + 1][m + 1] = r[k + 1]
      BY <2>3, <3>1, AppendFacts
    <3>9. m <= k
      BY <2>3
    <3> HIDE DEF m
    <3>3. /\ \A i \in 1..m : i \in 1..m + 1 /\ i # m + 1 /\ g[i] = e[i] /\ e[i] \in 1..k
          /\ g[m + 1] = k + 1 /\ m + 1 \in 1..m + 1
          /\ \A i \in 1..m + 1 : i \in 1..m \/ i = m + 1
      <4>1. e \in [1..m -> 1..k]
        BY <3>2, <2>1 DEF Picks
      <4>2. \A i \in 1..m : i \in 1..m + 1 /\ i # m + 1
        BY <3>2
      <4>3. m + 1 \in 1..m + 1 /\ \A i \in 1..m + 1 : i \in 1..m \/ i = m + 1
        BY <3>2
      <4>4. \A i \in 1..m + 1 : g[i] = IF i = m + 1 THEN k + 1 ELSE e[i]
        OBVIOUS
      <4> HIDE DEF g
      <4>5. \A i \in 1..m : g[i] = e[i] /\ e[i] \in 1..k
        BY <4>1, <4>2, <4>4
      <4>6. g[m + 1] = k + 1
        BY <4>3, <4>4
      <4>7. QED BY <4>2, <4>3, <4>5, <4>6
    <3>4. g \in [1..m + 1 -> 1..k + 1]
      <4>1. \A i \in 1..m + 1 : (IF i = m + 1 THEN k + 1 ELSE e[i]) \in 1..k + 1
        <5>1. e \in [1..m -> 1..k]
          BY <3>2, <2>1 DEF Picks
        <5>2. \A i \in 1..m + 1 : i \in 1..m \/ i = m + 1
          BY <3>2
        <5>3. 1..k \subseteq 1..k + 1 /\ k + 1 \in 1..k + 1
          BY <2>2
        <5>4. QED BY <5>1, <5>2, <5>3
      <4>2. QED BY <4>1
    <3> HIDE DEF g
    <3>5. \A i, j \in 1..m + 1 : i < j => g[i] < g[j]
      <4> SUFFICES ASSUME NEW i \in 1..m + 1, NEW j \in 1..m + 1, i < j PROVE g[i] < g[j]
        OBVIOUS
      <4>1. i \in 1..m
        BY <3>2
      <4>2. CASE j \in 1..m
        BY <4>1, <4>2, <3>3, <2>1, <3>2 DEF Picks
      <4>3. CASE j = m + 1
        BY <4>1, <4>3, <3>3, <2>2
      <4>4. QED BY <4>2, <4>3, <3>3
    <3>6. \A i \in 1..m + 1 : f[k + 1][i] = r[g[i]] /\ r[g[i]] \notin gone
      BY <3>2, <3>3, <2>1, <2>5 DEF Picks
    <3>7. \A j \in 1..k + 1 : r[j] \notin gone => \E i \in 1..m + 1 : g[i] = j
      <4> SUFFICES ASSUME NEW j \in 1..k + 1, r[j] \notin gone PROVE \E i \in 1..m + 1 : g[i] = j
        OBVIOUS
      <4>1. CASE j = k + 1
        BY <4>1, <3>3
      <4>2. CASE j # k + 1
        <5>1. j \in 1..k
          BY <4>2, <2>2
        <5>2. PICK i \in 1..m : e[i] = j
          BY <5>1, <2>1, <3>2 DEF Picks
        <5>3. QED BY <5>2, <3>3
      <4>3. QED BY <4>1, <4>2
    <3>8. Picks(g, f[k + 1], r, k + 1, gone)
      BY <3>2, <3>4, <3>5, <3>6, <3>7 DEF Picks
    <3>10. QED BY <2>2, <3>2, <3>8, <3>9
  <2>6. QED BY <2>4, <2>5
<1> HIDE DEF S
<1>6. n \in S
  <2>1. \A k \in 0..n : k \in S
    BY <1>1, <1>4, <1>5, Counting
  <2>2. QED BY <1>1, <2>1
<1>7. Len(f[n]) <= n /\ \E e : Picks(e, f[n], r, n, gone)
  BY <1>6 DEF S
<1>8. f[n] \in Seq(Stored) /\ Len(f[n]) \in Nat
  BY <1>1, LenProperties
<1>9. f[n] \in Arrays
  BY <1>1, <1>7, <1>8, Consts DEF Arrays
<1>10. QED BY <1>3, <1>7, <1>9 DEF n

\* A sample is appended as a valid new record, or left out.
LEMMA AddSampleFacts ==
  ASSUME NEW r \in Arrays, NEW a, IsInput(a)
  PROVE  /\ AddSample(r, a) \in Arrays
         /\ AddSample(r, a) = r \/
              /\ Len(r) < MaxAccounts /\ Valid(r, a, 0) /\ Acceptable(a)
              /\ Record(a, NextId(r)) \in Stored
              /\ AddSample(r, a) = Append(r, Record(a, NextId(r)))
<1>1. CASE Len(r) < MaxAccounts /\ Valid(r, a, 0)
  <2>1. Acceptable(a)
    BY <1>1 DEF Valid
  <2>2. Record(a, NextId(r)) \in Stored
    BY <2>1, NextIdFacts, RecordStored
  <2>3. Append(r, Record(a, NextId(r))) \in Arrays
    BY <2>2, <1>1, ArrayFacts, AppendFacts, Consts DEF Arrays
  <2>4. QED BY <1>1, <2>1, <2>2, <2>3 DEF AddSample
<1>2. CASE ~(Len(r) < MaxAccounts /\ Valid(r, a, 0))
  BY <1>2 DEF AddSample
<1>3. QED BY <1>1, <1>2

\* find_key returns a record with the key.
LEMMA FindKeyFacts ==
  ASSUME NEW r \in Arrays, NEW a, FindKey(r, a) # {}
  PROVE  /\ Min(FindKey(r, a)) \in DOMAIN r
         /\ SameKey(r[Min(FindKey(r, a))], a)
<1>1. FindKey(r, a) \in SUBSET Nat
  BY ArrayFacts DEF FindKey
<1>2. Min(FindKey(r, a)) \in FindKey(r, a)
  BY <1>1, MinIn
<1>3. QED BY <1>2 DEF FindKey

\* The four outcomes of one record of a backup: skipped as unusable, written
\* over the account of its key, appended, or left out when the array is full.
LEMMA ImportOneFacts ==
  ASSUME NEW r \in Arrays, NEW a, IsInput(a)
  PROVE  /\ ImportOne(r, a) \in Arrays
         /\ \/ ~Usable(a) /\ ImportOne(r, a) = r
            \/ /\ Usable(a) /\ FindKey(r, a) # {}
               /\ \E at \in DOMAIN r : /\ SameKey(r[at], a)
                                       /\ at = Min(FindKey(r, a))
                                       /\ Record(a, r[at].id) \in Stored
                                       /\ ImportOne(r, a) = [r EXCEPT ![at] = Record(a, r[at].id)]
            \/ /\ Usable(a) /\ FindKey(r, a) = {} /\ Len(r) < MaxAccounts
               /\ Record(a, NextId(r)) \in Stored
               /\ ImportOne(r, a) = Append(r, Record(a, NextId(r)))
            \/ /\ Usable(a) /\ FindKey(r, a) = {} /\ Len(r) = MaxAccounts
               /\ ImportOne(r, a) = r
<1>1. CASE ~Usable(a)
  BY <1>1 DEF ImportOne
<1>2. CASE Usable(a) /\ FindKey(r, a) # {}
  <2> DEFINE at == Min(FindKey(r, a))
  <2>1. at \in DOMAIN r /\ SameKey(r[at], a)
    BY <1>2, FindKeyFacts
  <2>2. ImportOne(r, a) = [r EXCEPT ![at] = Record(a, r[at].id)]
    BY <1>2 DEF ImportOne
  <2> HIDE DEF at
  <2>3. r[at].id \in 0..IdMod - 1
    BY <2>1, ArrayFacts, StoredFacts
  <2>4. Record(a, r[at].id) \in Stored
    BY <2>3, <1>2, RecordStored DEF Usable
  <2>5. [r EXCEPT ![at] = Record(a, r[at].id)] \in Arrays
    BY <2>1, <2>4, ReplaceFacts
  <2>6. QED BY <1>2, <2>1, <2>2, <2>4, <2>5 DEF at
<1>3. CASE Usable(a) /\ FindKey(r, a) = {} /\ Len(r) < MaxAccounts
  <2>1. Record(a, NextId(r)) \in Stored
    BY <1>3, NextIdFacts, RecordStored DEF Usable
  <2>2. Append(r, Record(a, NextId(r))) \in Arrays
    BY <2>1, <1>3, ArrayFacts, AppendFacts, Consts DEF Arrays
  <2>3. QED BY <1>3, <2>1, <2>2 DEF ImportOne
<1>4. CASE Usable(a) /\ FindKey(r, a) = {} /\ ~(Len(r) < MaxAccounts)
  <2>1. Len(r) = MaxAccounts
    BY <1>4, ArrayFacts, Consts
  <2>2. QED BY <1>4, <2>1 DEF ImportOne
<1>5. QED BY <1>1, <1>2, <1>3, <1>4

-----------------------------------------------------------------------------
(***************************************************************************)
(* Keys and identifiers, through one turn and through a whole import.      *)
(***************************************************************************)
\* s has the accounts of r where they were, each with its key and identifier.
Grows(r, s) ==
    /\ Len(r) <= Len(s)
    /\ \A i \in DOMAIN r : s[i].id = r[i].id /\ SameKey(s[i], r[i])

\* The same key is an equivalence.
LEMMA KeyRelation ==
  /\ \A x : SameKey(x, x)
  /\ \A x, y : SameKey(x, y) => SameKey(y, x)
  /\ \A x, y, z : SameKey(x, y) /\ SameKey(y, z) => SameKey(x, z)
BY DEF SameKey, ProfileEq

\* A record of a new key keeps the keys distinct.
LEMMA KeyedAppend ==
  ASSUME NEW r, Keyed(r), Len(r) < MaxAccounts, NEW x \in Stored,
         \A i \in DOMAIN r : ~SameKey(r[i], x)
  PROVE  Keyed(Append(r, x))
<1>1. r \in Arrays
  BY DEF Keyed
<1>2. Append(r, x) \in Arrays
  BY <1>1, ArrayFacts, AppendFacts, Consts DEF Arrays
<1>3. ASSUME NEW i \in DOMAIN Append(r, x), NEW j \in DOMAIN Append(r, x), i # j,
             SameKey(Append(r, x)[i], Append(r, x)[j])
      PROVE  FALSE
  <2> DEFINE s == Append(r, x)
             n == Len(r)
  <2>1. /\ n \in Nat /\ DOMAIN r = 1..n /\ DOMAIN s = 1..n + 1
        /\ \A k \in 1..n : s[k] = r[k]
        /\ s[n + 1] = x
    BY <1>1, ArrayFacts, AppendFacts
  <2> HIDE DEF s, n
  <2>2. \A k \in 1..n + 1 : k \in 1..n \/ k = n + 1
    BY <2>1
  <2>3. i \in 1..n + 1 /\ j \in 1..n + 1 /\ SameKey(s[i], s[j])
    BY <1>3, <2>1 DEF s
  <2>4. CASE i \in 1..n /\ j \in 1..n
    BY <2>1, <2>3, <2>4, <1>3 DEF Keyed
  <2>5. CASE i = n + 1
    <3>1. j \in 1..n
      BY <2>2, <2>3, <2>5, <1>3
    <3>2. QED BY <2>1, <2>3, <2>5, <3>1, KeyRelation
  <2>6. CASE j = n + 1
    <3>1. i \in 1..n
      BY <2>2, <2>3, <2>6, <1>3
    <3>2. QED BY <2>1, <2>3, <2>6, <3>1
  <2>7. QED BY <2>2, <2>3, <2>4, <2>5, <2>6
<1>4. QED BY <1>2, <1>3 DEF Keyed

\* A record of a new identifier keeps the identifiers distinct.
LEMMA NumberedAppend ==
  ASSUME NEW r \in Arrays, Numbered(r), NEW x \in Stored, x.id \in 1..MaxId,
         \A i \in DOMAIN r : r[i].id # x.id
  PROVE  Numbered(Append(r, x))
<1> DEFINE s == Append(r, x)
           n == Len(r)
<1>1. /\ n \in Nat /\ DOMAIN r = 1..n /\ DOMAIN s = 1..n + 1
      /\ \A k \in 1..n : s[k] = r[k]
      /\ s[n + 1] = x
  BY ArrayFacts, AppendFacts
<1> HIDE DEF s, n
<1>2. \A k \in 1..n + 1 : k \in 1..n \/ k = n + 1
  BY <1>1
<1>3. \A i \in 1..n + 1 : s[i].id \in 1..MaxId
  BY <1>1, <1>2 DEF Numbered
<1>4. \A i, j \in 1..n + 1 : i # j => s[i].id # s[j].id
  BY <1>1, <1>2, SMTT(60) DEF Numbered
<1>5. Numbered(s)
  BY <1>1, <1>3, <1>4 DEF Numbered
<1>6. QED BY <1>5 DEF s

\* A record whose key only the replaced one may have keeps the keys distinct.
LEMMA KeyedReplace ==
  ASSUME NEW r, Keyed(r), NEW i \in DOMAIN r, NEW x \in Stored,
         \A j \in DOMAIN r : j # i => ~SameKey(r[j], x)
  PROVE  Keyed([r EXCEPT ![i] = x])
<1>1. r \in Arrays
  BY DEF Keyed
<1> DEFINE s == [r EXCEPT ![i] = x]
<1>2. s \in Arrays /\ DOMAIN s = DOMAIN r /\ \A j \in DOMAIN r : s[j] = IF j = i THEN x ELSE r[j]
  BY <1>1, ReplaceFacts
<1> HIDE DEF s
<1>3. \A k, j \in DOMAIN s : k # j => ~SameKey(s[k], s[j])
  BY <1>2, KeyRelation DEF Keyed
<1>4. Keyed(s)
  BY <1>2, <1>3 DEF Keyed
<1>5. QED BY <1>4 DEF s

\* A record with the identifier of the replaced one keeps them distinct.
LEMMA NumberedReplace ==
  ASSUME NEW r \in Arrays, Numbered(r), NEW i \in DOMAIN r, NEW x \in Stored, x.id = r[i].id
  PROVE  Numbered([r EXCEPT ![i] = x])
<1> DEFINE s == [r EXCEPT ![i] = x]
<1>2. DOMAIN s = DOMAIN r /\ \A j \in DOMAIN r : s[j] = IF j = i THEN x ELSE r[j]
  BY ReplaceFacts
<1> HIDE DEF s
<1>3. \A j \in DOMAIN s : s[j].id = r[j].id
  BY <1>2
<1>4. Numbered(s)
  BY <1>2, <1>3 DEF Numbered
<1>5. QED BY <1>4 DEF s

\* Grows is reflexive and transitive.
LEMMA GrowsRelation ==
  /\ \A r \in Arrays : Grows(r, r)
  /\ \A r, s, t \in Arrays : Grows(r, s) /\ Grows(s, t) => Grows(r, t)
<1>1. ASSUME NEW r \in Arrays PROVE Grows(r, r)
  BY ArrayFacts, KeyRelation DEF Grows
<1>2. ASSUME NEW r \in Arrays, NEW s \in Arrays, NEW t \in Arrays, Grows(r, s), Grows(s, t)
      PROVE  Grows(r, t)
  <2>1. Len(r) <= Len(s) /\ Len(s) <= Len(t) /\ Len(r) <= Len(t)
        /\ \A i \in DOMAIN r : i \in DOMAIN s
    BY <1>2, ArrayFacts, Consts DEF Grows
  <2>2. QED BY <1>2, <2>1, KeyRelation DEF Grows
<1>3. QED BY <1>1, <1>2

\* One record of a backup moves no account and changes no identifier.
LEMMA ImportOneGrows ==
  ASSUME NEW r \in Arrays, NEW a, IsInput(a)
  PROVE  Grows(r, ImportOne(r, a))
<1>1. CASE ImportOne(r, a) = r
  BY <1>1, GrowsRelation
<1>2. ASSUME NEW at \in DOMAIN r, SameKey(r[at], a), Record(a, r[at].id) \in Stored, Usable(a),
             ImportOne(r, a) = [r EXCEPT ![at] = Record(a, r[at].id)]
      PROVE  Grows(r, ImportOne(r, a))
  <2>1. r[at].id \in 0..IdMod - 1
    BY ArrayFacts, StoredFacts
  <2>2. Record(a, r[at].id).id = r[at].id /\ SameKey(Record(a, r[at].id), r[at])
    BY <1>2, <2>1, RecordStored, KeyRelation DEF Usable
  <2> DEFINE x == Record(a, r[at].id)
  <2> HIDE DEF x
  <2>3. /\ Len(ImportOne(r, a)) = Len(r)
        /\ \A j \in DOMAIN r : ImportOne(r, a)[j] = IF j = at THEN x ELSE r[j]
    BY <1>2, ReplaceFacts DEF x
  <2>4. Len(r) <= Len(ImportOne(r, a))
    BY <2>3, ArrayFacts
  <2>5. QED BY <2>2, <2>3, <2>4, KeyRelation DEF Grows, x
<1>3. ASSUME Record(a, NextId(r)) \in Stored, ImportOne(r, a) = Append(r, Record(a, NextId(r)))
      PROVE  Grows(r, ImportOne(r, a))
  BY <1>3, AppendFacts, ArrayFacts, KeyRelation DEF Grows
<1>4. QED BY <1>1, <1>2, <1>3, ImportOneFacts

\* One record of a backup keeps the keys distinct.
LEMMA ImportOneKeyed ==
  ASSUME NEW r, Keyed(r), NEW a, IsInput(a)
  PROVE  Keyed(ImportOne(r, a))
<1>0. r \in Arrays
  BY DEF Keyed
<1>1. CASE ImportOne(r, a) = r
  BY <1>1
<1>2. ASSUME NEW at \in DOMAIN r, SameKey(r[at], a), Record(a, r[at].id) \in Stored, Usable(a),
             ImportOne(r, a) = [r EXCEPT ![at] = Record(a, r[at].id)]
      PROVE  Keyed(ImportOne(r, a))
  <2>1. r[at].id \in 0..IdMod - 1
    BY <1>0, ArrayFacts, StoredFacts
  <2>2. SameKey(Record(a, r[at].id), r[at])
    BY <1>2, <2>1, RecordStored, KeyRelation DEF Usable
  <2>3. \A j \in DOMAIN r : j # at => ~SameKey(r[j], Record(a, r[at].id))
    BY <2>2, KeyRelation DEF Keyed
  <2>4. QED BY <1>2, <2>3, KeyedReplace, ZenonT(60)
<1>3. ASSUME Usable(a), FindKey(r, a) = {}, Len(r) < MaxAccounts, Record(a, NextId(r)) \in Stored,
             ImportOne(r, a) = Append(r, Record(a, NextId(r)))
      PROVE  Keyed(ImportOne(r, a))
  <2>1. SameKey(Record(a, NextId(r)), a)
    BY <1>0, <1>3, NextIdFacts, RecordStored DEF Usable
  <2>2. \A j \in DOMAIN r : ~SameKey(r[j], Record(a, NextId(r)))
    BY <1>3, <2>1, KeyRelation DEF FindKey
  <2>3. QED BY <1>3, <2>2, KeyedAppend
<1>4. QED BY <1>0, <1>1, <1>2, <1>3, ImportOneFacts

\* One record of a backup keeps the identifiers distinct, up to the bound.
LEMMA ImportOneNumbered ==
  ASSUME NEW r \in Arrays, Numbered(r), NEW a, IsInput(a),
         \A i \in DOMAIN ImportOne(r, a) : ImportOne(r, a)[i].id <= MaxId
  PROVE  Numbered(ImportOne(r, a))
<1>1. CASE ImportOne(r, a) = r
  BY <1>1
<1>2. ASSUME NEW at \in DOMAIN r, Record(a, r[at].id) \in Stored, Usable(a),
             ImportOne(r, a) = [r EXCEPT ![at] = Record(a, r[at].id)]
      PROVE  Numbered(ImportOne(r, a))
  <2>1. r[at].id \in 0..IdMod - 1
    BY ArrayFacts, StoredFacts
  <2>2. Record(a, r[at].id).id = r[at].id
    BY <1>2, <2>1, RecordStored DEF Usable
  <2>3. QED BY <1>2, <2>2, NumberedReplace
<1>3. ASSUME Usable(a), Record(a, NextId(r)) \in Stored,
             ImportOne(r, a) = Append(r, Record(a, NextId(r)))
      PROVE  Numbered(ImportOne(r, a))
  <2> DEFINE x == Record(a, NextId(r))
  <2>1. \A i \in DOMAIN r : r[i].id <= MaxId
    BY ArrayFacts, Consts DEF Numbered
  <2>2. NextId(r) \in 1..MaxId + 1 /\ \A i \in DOMAIN r : r[i].id < NextId(r)
    BY <2>1, NextIdFacts
  <2>3. x.id = NextId(r)
    BY NextIdFacts, <1>3, RecordStored DEF Usable
  <2>4. x \in Stored /\ ImportOne(r, a) = Append(r, x)
    BY <1>3
  <2> HIDE DEF x
  <2>5. Append(r, x)[Len(r) + 1] = x /\ Len(r) + 1 \in DOMAIN Append(r, x)
    BY <2>4, ArrayFacts, AppendFacts
  <2>6. x.id \in 1..MaxId
    BY <2>2, <2>3, <2>4, <2>5, Consts
  <2>7. \A i \in DOMAIN r : r[i].id # x.id
    BY <2>2, <2>3, ArrayFacts, StoredFacts, Consts, SMTT(60)
  <2>8. QED BY <2>4, <2>6, <2>7, NumberedAppend
<1>4. QED BY <1>1, <1>2, <1>3, ImportOneFacts

\* The compaction keeps keys and identifiers distinct and drops nothing else.
LEMMA WithoutGood ==
  ASSUME NEW r \in Arrays, NEW gone
  PROVE  /\ Keyed(r) => Keyed(Without(r, gone))
         /\ Numbered(r) => Numbered(Without(r, gone))
         /\ \A i \in DOMAIN Without(r, gone) :
              Without(r, gone)[i] \notin gone /\ \E j \in DOMAIN r : Without(r, gone)[i] = r[j]
         /\ \A j \in DOMAIN r : r[j] \notin gone => \E i \in DOMAIN Without(r, gone) : Without(r, gone)[i] = r[j]
<1> DEFINE w == Without(r, gone)
           n == Len(r)
<1>1. w \in Arrays /\ \E e : Picks(e, w, r, n, gone)
  BY WithoutFacts
<1>2. DOMAIN r = 1..n /\ n \in Nat /\ \A i \in DOMAIN w : i \in Int
  BY <1>1, ArrayFacts, Consts
<1> HIDE DEF w, n
<1>3. PICK e : Picks(e, w, r, n, gone)
  BY <1>1
<1>4. \A i \in DOMAIN w : e[i] \in DOMAIN r /\ w[i] = r[e[i]] /\ w[i] \notin gone
  BY <1>2, <1>3 DEF Picks
<1>5. \A j \in DOMAIN r : r[j] \notin gone => \E i \in DOMAIN w : e[i] = j
  BY <1>2, <1>3 DEF Picks
<1>6. \A i, j \in DOMAIN w : i # j => e[i] # e[j]
  <2> SUFFICES ASSUME NEW i \in DOMAIN w, NEW j \in DOMAIN w, i # j PROVE e[i] # e[j]
    OBVIOUS
  <2>0. e[i] \in Int /\ e[j] \in Int /\ i \in Int /\ j \in Int
    BY <1>2, <1>4
  <2>1. i < j \/ j < i
    BY <2>0
  <2>2. e[i] < e[j] \/ e[j] < e[i]
    BY <2>1, <1>3 DEF Picks
  <2>3. QED BY <2>0, <2>2
<1>7. Keyed(r) => Keyed(w)
  BY <1>1, <1>4, <1>6 DEF Keyed
<1>8. Numbered(r) => Numbered(w)
  BY <1>4, <1>6 DEF Numbered
<1>9. QED BY <1>4, <1>5, <1>7, <1>8 DEF w

\* The array after each record of an import.
Steps(f, n, r, b, mode) ==
    /\ f \in [0..n -> Arrays]
    /\ f[0] = Without(r, {x \in Range(r) : Removes(b, mode, x)})
    /\ \A k \in 1..n : f[k] = ImportOne(f[k - 1], b[k])
    /\ Imported(r, b, mode) = f[n]

\* A backup as the reader of the file hands it over.
IsBackup(b) == b \in Seq(Range(b)) /\ \A a \in Range(b) : IsInput(a)

\* The records of a backup, by index.
LEMMA BackupFacts ==
  ASSUME NEW b, IsBackup(b)
  PROVE  /\ Len(b) \in Nat /\ DOMAIN b = 1..Len(b)
         /\ \A i \in 1..Len(b) : IsInput(b[i]) /\ b[i] \in Range(b)
BY LenProperties, ElementOfSeq DEF IsBackup, Range

\* An import goes through an array for each record.
LEMMA ImportSteps ==
  ASSUME NEW r \in Arrays, NEW b, IsBackup(b), NEW mode
  PROVE  \E f : Steps(f, Len(b), r, b, mode)
<1> DEFINE n == Len(b)
           base == Without(r, {x \in Range(r) : Removes(b, mode, x)})
<1>1. n \in Nat /\ DOMAIN b = 1..n /\ \A i \in 1..n : IsInput(b[i])
  BY BackupFacts
<1>2. base \in Arrays
  BY WithoutFacts
<1> HIDE DEF n, base
<1>3. ImportsIn(Arrays, n, b)
  BY <1>1, ImportOneFacts DEF ImportsIn
<1>4. PICK f \in [0..n -> Arrays] : ImportRun(f, n, base, b) /\ FoldLeft(ImportOne, base, b) = f[n]
  <2> DEFINE X == Arrays
  <2>1. base \in X /\ ImportsIn(X, n, b)
    BY <1>2, <1>3
  <2> HIDE DEF X
  <2>2. \E f \in [0..n -> X] : ImportRun(f, n, base, b) /\ FoldLeft(ImportOne, base, b) = f[n]
    BY <2>1, <1>1, ImportRuns
  <2>3. QED BY <2>2 DEF X
<1>5. Imported(r, b, mode) = f[n]
  BY <1>4 DEF Imported, base
<1>6. QED BY <1>4, <1>5 DEF Steps, ImportRun, base, n

\* From the compacted array on, an import moves nothing and keeps keys distinct.
LEMMA StepsFacts ==
  ASSUME NEW n \in Nat, NEW r \in Arrays, NEW b, NEW mode, NEW f, Steps(f, n, r, b, mode),
         \A i \in 1..n : IsInput(b[i])
  PROVE  /\ \A k \in 0..n : f[k] \in Arrays
         /\ \A k \in 0..n : Grows(f[k], f[n])
         /\ Keyed(r) => \A k \in 0..n : Keyed(f[k])
<1>1. \A k \in 0..n : f[k] \in Arrays
  BY DEF Steps
<1>2. \A k \in 1..n : k - 1 \in 0..n /\ f[k] = ImportOne(f[k - 1], b[k]) /\ IsInput(b[k])
  BY DEF Steps
<1>3. Keyed(r) => \A k \in 0..n : Keyed(f[k])
  <2> SUFFICES ASSUME Keyed(r) PROVE \A k \in 0..n : Keyed(f[k])
    OBVIOUS
  <2> DEFINE S == {k \in 0..n : Keyed(f[k])}
  <2>1. 0 \in S
    BY WithoutGood DEF Steps
  <2>2. \A k \in 0..n - 1 : k \in S => k + 1 \in S
    <3> TAKE k \in 0..n - 1
    <3> HAVE k \in S
    <3>1. k + 1 \in 1..n /\ k + 1 \in 0..n /\ (k + 1) - 1 = k
      OBVIOUS
    <3>2. f[k + 1] = ImportOne(f[k], b[k + 1]) /\ IsInput(b[k + 1])
      BY <1>2, <3>1
    <3>3. Keyed(f[k + 1])
      BY <3>2, ImportOneKeyed
    <3>4. QED BY <3>1, <3>3
  <2> HIDE DEF S
  <2>3. \A k \in 0..n : k \in S
    BY <2>1, <2>2, Counting
  <2>4. QED BY <2>3 DEF S
<1>4. \A k \in 0..n : Grows(f[k], f[n])
  \* downwards: from n to n - k
  <2> DEFINE S == {k \in 0..n : Grows(f[n - k], f[n])}
  <2>1. 0 \in S
    BY <1>1, GrowsRelation
  <2>2. \A k \in 0..n - 1 : k \in S => k + 1 \in S
    <3> TAKE k \in 0..n - 1
    <3> HAVE k \in S
    <3>1. n - k \in 1..n /\ (n - k) - 1 = n - (k + 1) /\ n - (k + 1) \in 0..n /\ n - k \in 0..n /\ k + 1 \in 0..n
      OBVIOUS
    <3>2. f[n - k] = ImportOne(f[n - (k + 1)], b[n - k]) /\ IsInput(b[n - k]) /\ f[n - (k + 1)] \in Arrays
          /\ f[n - k] \in Arrays /\ f[n] \in Arrays
      BY <1>1, <1>2, <3>1
    <3>3. Grows(f[n - (k + 1)], f[n - k])
      BY <3>2, ImportOneGrows
    <3>4. Grows(f[n - (k + 1)], f[n])
      BY <3>2, <3>3, GrowsRelation
    <3>5. QED BY <3>1, <3>4
  <2> HIDE DEF S
  <2>3. \A k \in 0..n : k \in S
    BY <2>1, <2>2, Counting
  <2>4. ASSUME NEW k \in 0..n PROVE Grows(f[k], f[n])
    <3>1. n - k \in 0..n /\ n - (n - k) = k
      OBVIOUS
    <3>2. QED BY <2>3, <3>1 DEF S
  <2>5. QED BY <2>4
<1>5. QED BY <1>1, <1>3, <1>4

\* An import makes a good array of a good one.
LEMMA ImportedGood ==
  ASSUME NEW r, Good(r), NEW b, IsBackup(b), NEW mode,
         \A i \in DOMAIN Imported(r, b, mode) : Imported(r, b, mode)[i].id <= MaxId
  PROVE  Good(Imported(r, b, mode))
<1> DEFINE n == Len(b)
<1>1. r \in Arrays /\ Keyed(r) /\ Numbered(r)
  BY DEF Good, Keyed
<1>2. n \in Nat /\ \A i \in 1..n : IsInput(b[i])
  BY BackupFacts
<1>3. PICK f : Steps(f, n, r, b, mode)
  BY <1>1, ImportSteps
<1> HIDE DEF n
<1>4. /\ \A k \in 0..n : f[k] \in Arrays
      /\ \A k \in 0..n : Grows(f[k], f[n])
      /\ \A k \in 0..n : Keyed(f[k])
  BY <1>1, <1>2, <1>3, StepsFacts
<1>5. n \in 0..n /\ f[n] = Imported(r, b, mode)
  BY <1>2, <1>3 DEF Steps
<1>6. \A k \in 0..n : \A i \in DOMAIN f[k] : f[k][i].id <= MaxId
  <2> TAKE k \in 0..n
  <2> TAKE i \in DOMAIN f[k]
  <2>1. f[n][i].id = f[k][i].id
    BY <1>4 DEF Grows
  <2>2. i \in DOMAIN f[n]
    <3>1. f[k] \in Arrays /\ f[n] \in Arrays /\ Len(f[k]) <= Len(f[n])
      BY <1>4, <1>5 DEF Grows
    <3>2. /\ DOMAIN f[k] = 1..Len(f[k]) /\ DOMAIN f[n] = 1..Len(f[n])
          /\ Len(f[k]) \in 0..MaxAccounts /\ Len(f[n]) \in 0..MaxAccounts
      BY <3>1, ArrayFacts
    <3>3. QED BY <3>1, <3>2, Consts, SMTT(60)
  <2>3. QED BY <2>1, <2>2, <1>5
<1> DEFINE S == {k \in 0..n : Numbered(f[k])}
<1>7. 0 \in S
  BY <1>1, <1>2, <1>3, WithoutGood DEF Steps
<1>8. \A k \in 0..n - 1 : k \in S => k + 1 \in S
  <2> TAKE k \in 0..n - 1
  <2> HAVE k \in S
  <2>1. k + 1 \in 1..n /\ k + 1 \in 0..n /\ (k + 1) - 1 = k /\ k \in 0..n
    BY <1>2
  <2>2. f[k + 1] = ImportOne(f[k], b[k + 1]) /\ IsInput(b[k + 1]) /\ f[k] \in Arrays
    BY <1>2, <1>3, <1>4, <2>1 DEF Steps
  <2>3. \A i \in DOMAIN ImportOne(f[k], b[k + 1]) : ImportOne(f[k], b[k + 1])[i].id <= MaxId
    BY <1>6, <2>1, <2>2
  <2>4. Numbered(f[k + 1])
    BY <2>2, <2>3, ImportOneNumbered
  <2>5. QED BY <2>1, <2>4
<1> HIDE DEF S
<1>9. \A k \in 0..n : k \in S
  BY <1>2, <1>7, <1>8, Counting
<1>10. QED BY <1>4, <1>5, <1>9 DEF S, Good

-----------------------------------------------------------------------------
(***************************************************************************)
(* The active profile.                                                     *)
(***************************************************************************)
\* What an active profile and a stored hash always satisfy.
Remembered(a) ==
    /\ a = <<a[1], a[2]>>
    /\ a[1] \in Profiles /\ a[1] = Canon(a[1]) /\ a[2] \in HashOf
    /\ a[1] # Default => a[2] = Hash(a[1])

\* The part of IsActive that depends on the records, apart.
LEMMA ActiveSplit ==
  ASSUME NEW r, NEW a
  PROVE  IsActive(r, a) <=> Remembered(a) /\ IF r = <<>> THEN a[1] = Default ELSE Used(r, a[1])
BY DEF IsActive, Remembered

\* The first profile of some records, in the order of the screen.
LEMMA LowestFacts ==
  ASSUME NEW r \in Arrays, NEW S \in SUBSET DOMAIN r, S # {}
  PROVE  \E i \in S : /\ LowestOf(r, S) = r[i].profile
                      /\ \A j \in S : Rank(r[i].profile) <= Rank(r[j].profile)
<1> DEFINE R == {Rank(r[i].profile) : i \in S}
           low == Min(R)
           L == {i \in S : Rank(r[i].profile) = low}
<1>1. \A i \in S : i \in Nat /\ r[i] \in Stored /\ Rank(r[i].profile) \in Nat
  BY ArrayFacts, StoredFacts
<1>2. R \in SUBSET Nat /\ R # {}
  BY <1>1
<1>3. low \in R /\ \A y \in R : low <= y
  <2> HIDE DEF R
  <2> QED BY <1>2, MinIn
<1>4. L \in SUBSET Nat /\ L # {}
  <2> HIDE DEF low
  <2> QED BY <1>1, <1>3
<1>5. Min(L) \in L
  <2> HIDE DEF L
  <2> QED BY <1>4, MinIn
<1>6. LowestOf(r, S) = r[Min(L)].profile
  BY DEF LowestOf
<1>7. \A j \in S : Rank(r[Min(L)].profile) <= Rank(r[j].profile)
  <2> HIDE DEF low
  <2> QED BY <1>3, <1>5
<1>8. QED BY <1>5, <1>6, <1>7

\* select_profile makes the profile canonical and stores the hash of what it selects.
LEMMA SelectFacts ==
  ASSUME NEW p \in Profiles, NEW a, Remembered(a)
  PROVE  Remembered(Select(a, p)) /\ Select(a, p)[1] = Canon(p)
<1>1. CASE a[1] = Canon(p)
  BY <1>1 DEF Select
<1>2. CASE a[1] # Canon(p)
  <2>1. Hash(p) \in HashOf /\ Hash(p) = Hash(Canon(p))
    BY CanonFacts DEF HashOf, Hash
  <2>2. Select(a, p) = <<Canon(p), Hash(p)>>
    BY <1>2 DEF Select
  <2>3. QED BY <2>1, <2>2, CanonFacts DEF Remembered
<1>3. QED BY <1>1, <1>2

\* A profile is used or not in any spelling of it.
LEMMA UsedCanon ==
  ASSUME NEW r, NEW p \in Profiles
  PROVE  Used(r, Canon(p)) <=> Used(r, p)
BY CanonFacts DEF Used, ProfileEq

\* Selecting a profile with accounts makes it a valid active one.
LEMMA SelectActive ==
  ASSUME NEW r, r # <<>>, NEW p \in Profiles, Used(r, p), NEW a, Remembered(a)
  PROVE  IsActive(r, Select(a, p))
BY SelectFacts, UsedCanon, ActiveSplit

\* An array with an index has a record.
LEMMA NonEmpty ==
  ASSUME NEW r \in Arrays
  PROVE  r # <<>> <=> DOMAIN r # {}
<1>1. r \in Seq(Stored) /\ Len(r) \in Nat /\ DOMAIN r = 1..Len(r)
  BY ArrayFacts, LenProperties
<1>2. r = <<>> <=> Len(r) = 0
  BY <1>1, EmptySeq
<1> DEFINE n == Len(r)
<1>3. n \in Nat /\ DOMAIN r = 1..n /\ (r = <<>> <=> n = 0)
  BY <1>1, <1>2
<1> HIDE DEF n
<1>4. n = 0 <=> 1..n = {}
  <2>1. n # 0 => 1 \in 1..n
    BY <1>3
  <2>2. n = 0 => 1..n = {}
    OBVIOUS
  <2>3. QED BY <2>1, <2>2
<1>5. QED BY <1>3, <1>4

\* The first profile in name order has accounts (accounts_profile_after).
LEMMA FirstFacts ==
  ASSUME NEW r \in Arrays, r # <<>>
  PROVE  FirstProfile(r) \in Profiles /\ Used(r, FirstProfile(r))
<1>1. PICK i \in DOMAIN r : FirstProfile(r) = r[i].profile
  BY NonEmpty, LowestFacts DEF FirstProfile
<1>2. QED BY <1>1, ArrayFacts, StoredFacts DEF Used, ProfileEq

\* check_profile leaves a valid active profile.
LEMMA CheckActive ==
  ASSUME NEW r \in Arrays, NEW a, Remembered(a)
  PROVE  IsActive(r, Check(r, a))
<1>1. Canon(Default) = Default
  BY DEF Canon
<1>2. CASE r = <<>>
  <2>1. Check(r, a) = Select(a, Default)
    BY <1>2 DEF Check
  <2>2. Remembered(Check(r, a)) /\ Check(r, a)[1] = Default
    BY <1>1, <2>1, SelectFacts, Consts
  <2>3. QED BY <1>2, <2>2, ActiveSplit
<1>3. CASE r # <<>> /\ Used(r, a[1])
  BY <1>3, ActiveSplit DEF Check
<1>4. CASE r # <<>> /\ ~Used(r, a[1])
  <2>1. Check(r, a) = Select(a, FirstProfile(r))
    BY <1>4 DEF Check
  <2>2. QED BY <1>4, <2>1, FirstFacts, SelectActive
<1>5. QED BY <1>2, <1>3, <1>4

\* After an unlock the profile is a valid one, and the one with the stored hash
\* if it has accounts (restore_profile).
LEMMA RestoreFacts ==
  ASSUME NEW r \in Arrays, NEW h \in HashOf
  PROVE  /\ IsActive(r, Restore(r, h))
         /\ \A p : Used(r, p) /\ Hash(p) = h => ProfileEq(Restore(r, h)[1], p)
<1> DEFINE kept == {i \in DOMAIN r : Hash(r[i].profile) = h}
<1>1. CASE kept # {}
  <2>1. kept \in SUBSET Nat
    BY ArrayFacts
  <2>2. Min(kept) \in kept
    <3> HIDE DEF kept
    <3> QED BY <1>1, <2>1, MinIn
  <2>3. Restore(r, h) = <<r[Min(kept)].profile, h>>
    BY <1>1 DEF Restore
  <2>4. Min(kept) \in DOMAIN r /\ Hash(r[Min(kept)].profile) = h
    BY <2>2
  <2> HIDE DEF kept
  <2>5. r[Min(kept)].profile \in Profiles /\ r[Min(kept)].profile = Canon(r[Min(kept)].profile)
    BY <2>4, ArrayFacts, StoredFacts
  <2>6. Remembered(Restore(r, h))
    BY <2>3, <2>4, <2>5 DEF Remembered
  <2>7. Used(r, Restore(r, h)[1]) /\ r # <<>>
    BY <2>3, <2>4, EmptySeq DEF Used, ProfileEq
  <2>8. QED BY <2>3, <2>4, <2>6, <2>7, ActiveSplit DEF ProfileEq, Hash
<1>2. CASE kept = {}
  <2>1. Restore(r, h) = Check(r, <<Default, h>>)
    BY <1>2 DEF Restore
  <2>2. Remembered(<<Default, h>>)
    BY Consts DEF Remembered, Canon
  <2>3. \A p : Used(r, p) => Hash(p) # h
    BY <1>2 DEF Used, ProfileEq, Hash
  <2>4. QED BY <2>1, <2>2, <2>3, CheckActive
<1>3. QED BY <1>1, <1>2

\* accounts_profile_after gives the next profile, or the first one.
LEMMA AfterFacts ==
  ASSUME NEW r \in Arrays, r # <<>>, NEW p \in Profiles
  PROVE  /\ ProfileAfter(r, p) \in Profiles /\ Used(r, ProfileAfter(r, p))
         /\ \/ /\ Rank(p) < Rank(ProfileAfter(r, p))
               /\ \A j \in DOMAIN r : Rank(r[j].profile) > Rank(p) =>
                    Rank(ProfileAfter(r, p)) <= Rank(r[j].profile)
            \/ /\ \A j \in DOMAIN r : ~(Rank(r[j].profile) > Rank(p))
               /\ \A j \in DOMAIN r : Rank(ProfileAfter(r, p)) <= Rank(r[j].profile)
<1> DEFINE later == {i \in DOMAIN r : Rank(r[i].profile) > Rank(p)}
<1>0. \A j \in DOMAIN r : r[j].profile \in Profiles /\ Rank(r[j].profile) \in Nat
  BY ArrayFacts, StoredFacts
<1>1. CASE later = {}
  <2>1. PICK i \in DOMAIN r : /\ FirstProfile(r) = r[i].profile
                              /\ \A j \in DOMAIN r : Rank(r[i].profile) <= Rank(r[j].profile)
    BY NonEmpty, LowestFacts DEF FirstProfile
  <2>2. ProfileAfter(r, p) = FirstProfile(r)
    BY <1>1 DEF ProfileAfter
  <2>3. QED BY <1>0, <1>1, <2>1, <2>2 DEF Used, ProfileEq
<1>2. CASE later # {}
  <2>1. PICK i \in later : /\ LowestOf(r, later) = r[i].profile
                           /\ \A j \in later : Rank(r[i].profile) <= Rank(r[j].profile)
    <3>1. later \in SUBSET DOMAIN r
      OBVIOUS
    <3> HIDE DEF later
    <3>2. QED BY <1>2, <3>1, LowestFacts
  <2>2. ProfileAfter(r, p) = LowestOf(r, later)
    BY <1>2 DEF ProfileAfter
  <2>3. QED BY <1>0, <2>1, <2>2, RankNat DEF Used, ProfileEq
<1>3. QED BY <1>1, <1>2

-----------------------------------------------------------------------------
(***************************************************************************)
(* Identifiers that are kept.                                              *)
(***************************************************************************)
\* Every account of r keeps its identifier in s.
Kept(r, s) ==
    \A i \in DOMAIN r, j \in DOMAIN s : SameKey(r[i], s[j]) => r[i].id = s[j].id

\* An array that grew kept the identifiers.
LEMMA GrowsKept ==
  ASSUME NEW r \in Arrays, NEW s, Keyed(s), Grows(r, s)
  PROVE  Kept(r, s)
<1>1. /\ DOMAIN r = 1..Len(r) /\ DOMAIN s = 1..Len(s)
      /\ Len(r) \in 0..MaxAccounts /\ Len(s) \in 0..MaxAccounts /\ Len(r) <= Len(s)
  BY ArrayFacts DEF Keyed, Grows
<1>2. \A i \in DOMAIN r : i \in DOMAIN s
  BY <1>1, Consts
<1>3. ASSUME NEW i \in DOMAIN r, NEW j \in DOMAIN s, SameKey(r[i], s[j]) PROVE r[i].id = s[j].id
  <2>1. SameKey(s[i], s[j])
    BY <1>3, KeyRelation DEF Grows
  <2>2. i = j
    BY <1>2, <2>1 DEF Keyed
  <2>3. QED BY <2>2 DEF Grows
<1>4. QED BY <1>3 DEF Kept

\* A part of an array kept the identifiers.
LEMMA PartKept ==
  ASSUME NEW r, Keyed(r), NEW s, \A j \in DOMAIN s : \E i \in DOMAIN r : s[j] = r[i]
  PROVE  Kept(r, s)
BY DEF Kept, Keyed

-----------------------------------------------------------------------------
(***************************************************************************)
(* What an import leaves: the invariant of its loop ...                    *)
(***************************************************************************)
\* Whatever the reader makes of a backup file, it is a backup.
LEMMA ReadingsAreBackups ==
  ASSUME NEW b \in Backups, NEW in \in Readings(b)
  PROVE  IsBackup(in)
<1>1. b \in Seq(Range(b)) /\ \A a \in Range(b) : IsInput(a)
  BY AccountsAssumption
<1>2. CASE in = b
  BY <1>1, <1>2 DEF IsBackup
<1>3. ASSUME NEW p \in Targets, in = Into(b, p) PROVE IsBackup(in)
  <2>1. Len(b) \in Nat /\ DOMAIN b = 1..Len(b) /\ \A i \in 1..Len(b) : IsInput(b[i])
    BY <1>1, BackupFacts DEF IsBackup
  <2> DEFINE n == Len(b)
  <2> HIDE DEF n
  <2>2. n \in Nat /\ DOMAIN b = 1..n /\ \A i \in 1..n : IsInput(b[i])
    BY <2>1 DEF n
  <2>3. /\ in = [i \in 1..n |-> [b[i] EXCEPT !.profile = Canon(p)]]
        /\ DOMAIN in = 1..n
        /\ \A i \in 1..n : in[i] = [b[i] EXCEPT !.profile = Canon(p)]
    BY <1>3, <2>2 DEF Into
  <2>4. Canon(p) \in Profiles
    BY CanonFacts, Consts
  <2>5. \A i \in 1..n : IsInput(in[i])
    BY <2>2, <2>3, <2>4, ZenonT(60) DEF IsInput
  <2>6. Range(in) = {in[i] : i \in 1..n}
    BY <2>3 DEF Range
  <2>7. in \in [1..n -> Range(in)]
    <3>1. in = [i \in 1..n |-> in[i]]
      BY <2>3
    <3>2. \A i \in 1..n : in[i] \in Range(in)
      BY <2>6
    <3> DEFINE R == Range(in)
    <3> HIDE DEF R
    <3>3. \A i \in 1..n : in[i] \in R
      BY <3>2 DEF R
    <3>4. in \in [1..n -> R]
      BY <3>1, <3>3
    <3>5. QED BY <3>4 DEF R
  <2>8. in \in Seq(Range(in))
    BY <2>2, <2>7
  <2>9. QED BY <2>5, <2>6, <2>8 DEF IsBackup
<1>4. QED BY <1>2, <1>3 DEF Readings

\* Records of one content have one key.
LEMMA SameRecordKey ==
  ASSUME NEW x, NEW a, IsInput(a), SameRecord(x, a)
  PROVE  SameKey(x, a)
BY CanonFacts DEF IsInput, SameRecord, SameKey, ProfileEq

\* A record has the content of the input it was made of.
LEMMA RecordSame ==
  ASSUME NEW a, NEW id
  PROVE  SameRecord(Record(a, id), a)
BY DEF SameRecord, Record

\* The last usable record of each key among the first k of b.
LastOf(b, k) ==
    {q \in 1..k : Usable(b[q]) /\ \A j \in q + 1..k : Usable(b[j]) => ~SameKey(b[q], b[j])}

\* One of the first k records is usable and has the key of y.
Covered(b, k, y) == \E q \in 1..k : SameKey(b[q], y) /\ Usable(b[q])

\* The record at x is the one from before the import, and no record read has
\* its key.
Unchanged(base, b, k, s, x) ==
    x \in DOMAIN base /\ s[x] = base[x] /\ ~Covered(b, k, base[x])

\* The record at x has the content of the last record read of its key.
Read(b, k, s, x) == \E q \in LastOf(b, k) : SameRecord(s[x], b[q])

\* There was no room for a.
Missing(s, a) == FindKey(s, a) = {} /\ Len(s) = MaxAccounts

\* The invariant of the import loop: after the first k records the array holds
\* old accounts that were not in the backup and the last record of each key,
\* and it lacks one of these only when it is full.
SoFar(base, b, k, s) ==
    /\ \A x \in DOMAIN s : Unchanged(base, b, k, s, x) \/ Read(b, k, s, x)
    /\ \A q \in LastOf(b, k) : Holds(s, b[q]) \/ Missing(s, b[q])

\* The last records of each key after one record more.
LEMMA LastStep ==
  ASSUME NEW b, NEW k \in Nat
  PROVE  /\ ~Usable(b[k + 1]) => LastOf(b, k + 1) = LastOf(b, k)
         /\ Usable(b[k + 1]) =>
              LastOf(b, k + 1) = {q \in LastOf(b, k) : ~SameKey(b[q], b[k + 1])} \cup {k + 1}
         /\ \A y : Covered(b, k + 1, y) <=>
              Covered(b, k, y) \/ (SameKey(b[k + 1], y) /\ Usable(b[k + 1]))
<1>1. \A q : q \in 1..k + 1 <=> q \in 1..k \/ q = k + 1
  OBVIOUS
<1>2. k + 1 \in 1..k + 1 /\ k + 1 \notin 1..k /\ (k + 1) + 1..k + 1 = {}
  OBVIOUS
<1>3. \A q \in 1..k : \A j : j \in q + 1..k + 1 <=> j \in q + 1..k \/ j = k + 1
  OBVIOUS
<1>4. ASSUME NEW q
      PROVE  q \in LastOf(b, k + 1) <=>
               \/ q \in LastOf(b, k) /\ ~(Usable(b[k + 1]) /\ SameKey(b[q], b[k + 1]))
               \/ q = k + 1 /\ Usable(b[k + 1])
  <2>1. CASE q \in 1..k
    BY <1>1, <1>2, <1>3, <2>1 DEF LastOf
  <2>2. CASE q = k + 1
    BY <1>2, <2>2 DEF LastOf
  <2>3. CASE q \notin 1..k + 1
    BY <1>1, <2>3 DEF LastOf
  <2>4. QED BY <1>1, <2>1, <2>2, <2>3
<1>5. ~Usable(b[k + 1]) => LastOf(b, k + 1) = LastOf(b, k)
  <2>1. k + 1 \notin LastOf(b, k)
    BY <1>2 DEF LastOf
  <2>2. QED BY <1>4
<1>6. Usable(b[k + 1]) =>
              LastOf(b, k + 1) = {q \in LastOf(b, k) : ~SameKey(b[q], b[k + 1])} \cup {k + 1}
  BY <1>4
<1>7. \A y : Covered(b, k + 1, y) <=>
              Covered(b, k, y) \/ (SameKey(b[k + 1], y) /\ Usable(b[k + 1]))
  BY <1>1, <1>2 DEF Covered
<1>8. QED BY <1>5, <1>6, <1>7

\* The loop's invariant after a record that is skipped.
LEMMA SoFarSkip ==
  ASSUME NEW base, NEW b, NEW k \in Nat, NEW s, SoFar(base, b, k, s), ~Usable(b[k + 1])
  PROVE  SoFar(base, b, k + 1, s)
<1>1. LastOf(b, k + 1) = LastOf(b, k) /\ \A y : Covered(b, k + 1, y) <=> Covered(b, k, y)
  BY LastStep
<1>2. QED BY <1>1 DEF SoFar, Unchanged, Read

\* The loop's invariant after a record that found no room.
LEMMA SoFarFull ==
  ASSUME NEW base, NEW b, NEW k \in Nat, NEW s, SoFar(base, b, k, s), Usable(b[k + 1]),
         Missing(s, b[k + 1]), \A i \in 1..k + 1 : IsInput(b[i])
  PROVE  SoFar(base, b, k + 1, s)
<1>0. \A q \in LastOf(b, k) : q \in 1..k + 1
  BY DEF LastOf
<1>1. \A q : q \in LastOf(b, k + 1) <=> q = k + 1 \/ (q \in LastOf(b, k) /\ ~SameKey(b[q], b[k + 1]))
  BY LastStep
<1>2. \A y : Covered(b, k + 1, y) <=> Covered(b, k, y) \/ SameKey(b[k + 1], y)
  BY LastStep
<1>3. \A x \in DOMAIN s : ~SameKey(s[x], b[k + 1])
  BY DEF Missing, FindKey
<1>4. ASSUME NEW x \in DOMAIN s, Unchanged(base, b, k, s, x) PROVE Unchanged(base, b, k + 1, s, x)
  BY <1>2, <1>3, <1>4, KeyRelation DEF Unchanged
<1>5. ASSUME NEW x \in DOMAIN s, Read(b, k, s, x) PROVE Read(b, k + 1, s, x)
  <2>1. PICK q \in LastOf(b, k) : SameRecord(s[x], b[q])
    BY <1>5 DEF Read
  <2>2. SameKey(s[x], b[q])
    BY <1>0, <2>1, SameRecordKey
  <2>3. ~SameKey(b[q], b[k + 1])
    BY <1>3, <2>2, KeyRelation
  <2>4. QED BY <1>1, <2>1, <2>3 DEF Read
<1>6. QED BY <1>1, <1>4, <1>5 DEF SoFar

\* The loop's invariant after a record written over the account of its key.
LEMMA SoFarChanged ==
  ASSUME NEW base, NEW b, NEW k \in Nat, NEW s, Keyed(s), SoFar(base, b, k, s), Usable(b[k + 1]),
         NEW at \in DOMAIN s, SameKey(s[at], b[k + 1]), NEW x \in Stored,
         SameRecord(x, b[k + 1]), \A i \in 1..k + 1 : IsInput(b[i])
  PROVE  SoFar(base, b, k + 1, [s EXCEPT ![at] = x])
<1> DEFINE t == [s EXCEPT ![at] = x]
<1>0. k + 1 \in 1..k + 1 /\ \A q \in LastOf(b, k) : q \in 1..k + 1
  BY DEF LastOf
<1>1. \A q : q \in LastOf(b, k + 1) <=> q = k + 1 \/ (q \in LastOf(b, k) /\ ~SameKey(b[q], b[k + 1]))
  BY LastStep
<1>2. \A y : Covered(b, k + 1, y) <=> Covered(b, k, y) \/ SameKey(b[k + 1], y)
  BY LastStep
<1>3. s \in Arrays /\ \A y \in DOMAIN s : y # at => ~SameKey(s[y], b[k + 1])
  BY KeyRelation DEF Keyed
<1>4. DOMAIN t = DOMAIN s /\ Len(t) = Len(s) /\ t[at] = x /\ \A y \in DOMAIN s : y # at => t[y] = s[y]
  BY <1>3, ReplaceFacts
<1> HIDE DEF t
<1>5. SameKey(x, b[k + 1]) /\ \A y \in DOMAIN s : SameKey(t[y], s[y])
  BY <1>0, <1>4, SameRecordKey, KeyRelation
<1>6. Read(b, k + 1, t, at) /\ Holds(t, b[k + 1])
  BY <1>1, <1>4 DEF Read, Holds
<1>7. ASSUME NEW y \in DOMAIN s, y # at, Unchanged(base, b, k, s, y) PROVE Unchanged(base, b, k + 1, t, y)
  BY <1>2, <1>3, <1>4, <1>7, KeyRelation DEF Unchanged
<1>8. ASSUME NEW y \in DOMAIN s, y # at, Read(b, k, s, y) PROVE Read(b, k + 1, t, y)
  <2>1. PICK q \in LastOf(b, k) : SameRecord(s[y], b[q])
    BY <1>8 DEF Read
  <2>2. SameKey(s[y], b[q])
    BY <1>0, <2>1, SameRecordKey
  <2>3. ~SameKey(b[q], b[k + 1])
    BY <1>3, <1>8, <2>2, KeyRelation
  <2>4. SameRecord(t[y], b[q])
    BY <1>4, <1>8, <2>1
  <2>5. QED BY <1>1, <2>3, <2>4 DEF Read
<1>9. ASSUME NEW q \in LastOf(b, k), ~SameKey(b[q], b[k + 1]), Holds(s, b[q]) PROVE Holds(t, b[q])
  <2>1. PICK y \in DOMAIN s : SameRecord(s[y], b[q])
    BY <1>9 DEF Holds
  <2>2. SameKey(s[y], b[q])
    BY <1>0, <2>1, SameRecordKey
  <2>3. y # at
    BY <1>9, <2>2, KeyRelation
  <2>4. QED BY <1>4, <2>1, <2>3 DEF Holds
<1>10. ASSUME NEW q \in LastOf(b, k), Missing(s, b[q]) PROVE Missing(t, b[q])
  BY <1>4, <1>5, <1>10, KeyRelation DEF Missing, FindKey
<1>11. SoFar(base, b, k + 1, t)
  BY <1>1, <1>4, <1>6, <1>7, <1>8, <1>9, <1>10 DEF SoFar
<1>12. QED BY <1>11 DEF t

\* The loop's invariant after a record that was appended.
LEMMA SoFarAdded ==
  ASSUME NEW base, NEW b, NEW k \in Nat, NEW s \in Arrays, Len(s) < MaxAccounts,
         SoFar(base, b, k, s), Usable(b[k + 1]), FindKey(s, b[k + 1]) = {}, NEW x \in Stored,
         SameRecord(x, b[k + 1]), \A i \in 1..k + 1 : IsInput(b[i])
  PROVE  SoFar(base, b, k + 1, Append(s, x))
<1> DEFINE t == Append(s, x)
           at == Len(s) + 1
<1>0. k + 1 \in 1..k + 1 /\ \A q \in LastOf(b, k) : q \in 1..k + 1
  BY DEF LastOf
<1>1. \A q : q \in LastOf(b, k + 1) <=> q = k + 1 \/ (q \in LastOf(b, k) /\ ~SameKey(b[q], b[k + 1]))
  BY LastStep
<1>2. \A y : Covered(b, k + 1, y) <=> Covered(b, k, y) \/ SameKey(b[k + 1], y)
  BY LastStep
<1>3. \A y \in DOMAIN s : ~SameKey(s[y], b[k + 1])
  BY DEF FindKey
<1>4. /\ at \in DOMAIN t /\ t[at] = x /\ Len(s) # MaxAccounts
      /\ \A y \in DOMAIN s : y \in DOMAIN t /\ t[y] = s[y]
      /\ \A y \in DOMAIN t : y \in DOMAIN s \/ y = at
  <2>1. /\ Len(s) \in Nat /\ DOMAIN s = 1..Len(s) /\ DOMAIN t = 1..Len(s) + 1
        /\ t[Len(s) + 1] = x /\ \A y \in DOMAIN s : t[y] = s[y]
    BY ArrayFacts, AppendFacts
  <2> DEFINE m == Len(s)
  <2> HIDE DEF m, t
  <2>2. m + 1 \in 1..m + 1 /\ \A y : y \in 1..m + 1 <=> y \in 1..m \/ y = m + 1
    BY <2>1 DEF m
  <2>3. Len(s) # MaxAccounts
    <3>1. MaxAccounts \in Nat /\ Len(s) \in Nat /\ Len(s) < MaxAccounts
      BY <2>1, Consts
    <3> DEFINE l == Len(s)
    <3> HIDE DEF l
    <3>2. l \in Nat /\ l < MaxAccounts
      BY <3>1 DEF l
    <3>3. l # MaxAccounts
      BY <3>1, <3>2
    <3>4. QED BY <3>3 DEF l
  <2>4. QED BY <2>1, <2>2, <2>3 DEF m
<1> HIDE DEF t, at
<1>6. Read(b, k + 1, t, at) /\ Holds(t, b[k + 1])
  BY <1>1, <1>4 DEF Read, Holds
<1>7. ASSUME NEW y \in DOMAIN s, Unchanged(base, b, k, s, y) PROVE Unchanged(base, b, k + 1, t, y)
  BY <1>2, <1>3, <1>4, <1>7, KeyRelation DEF Unchanged
<1>8. ASSUME NEW y \in DOMAIN s, Read(b, k, s, y) PROVE Read(b, k + 1, t, y)
  <2>1. PICK q \in LastOf(b, k) : SameRecord(s[y], b[q])
    BY <1>8 DEF Read
  <2>2. SameKey(s[y], b[q])
    BY <1>0, <2>1, SameRecordKey
  <2>3. ~SameKey(b[q], b[k + 1])
    BY <1>3, <1>8, <2>2, KeyRelation
  <2>4. SameRecord(t[y], b[q])
    BY <1>4, <1>8, <2>1
  <2>5. QED BY <1>1, <2>3, <2>4 DEF Read
<1>9. ASSUME NEW q \in LastOf(b, k), Holds(s, b[q]) PROVE Holds(t, b[q])
  BY <1>4, <1>9 DEF Holds
<1>10. ASSUME NEW q \in LastOf(b, k), Missing(s, b[q]) PROVE FALSE
  BY <1>4, <1>10 DEF Missing
<1>11. SoFar(base, b, k + 1, t)
  BY <1>1, <1>4, <1>6, <1>7, <1>8, <1>9, <1>10 DEF SoFar
<1>12. QED BY <1>11 DEF t

\* Every record of the backup keeps the loop's invariant.
LEMMA SoFarStep ==
  ASSUME NEW base, NEW b, NEW k \in Nat, NEW s, Keyed(s), SoFar(base, b, k, s),
         \A i \in 1..k + 1 : IsInput(b[i])
  PROVE  SoFar(base, b, k + 1, ImportOne(s, b[k + 1]))
<1>0. s \in Arrays /\ IsInput(b[k + 1])
  <2>1. k + 1 \in 1..k + 1
    OBVIOUS
  <2>2. QED BY <2>1 DEF Keyed
<1>1. CASE ~Usable(b[k + 1]) /\ ImportOne(s, b[k + 1]) = s
  BY <1>1, SoFarSkip
<1>2. ASSUME Usable(b[k + 1]), NEW at \in DOMAIN s, SameKey(s[at], b[k + 1]),
             Record(b[k + 1], s[at].id) \in Stored,
             ImportOne(s, b[k + 1]) = [s EXCEPT ![at] = Record(b[k + 1], s[at].id)]
      PROVE  SoFar(base, b, k + 1, ImportOne(s, b[k + 1]))
  BY <1>2, RecordSame, SoFarChanged
<1>3. CASE /\ Usable(b[k + 1]) /\ FindKey(s, b[k + 1]) = {} /\ Len(s) < MaxAccounts
           /\ Record(b[k + 1], NextId(s)) \in Stored
           /\ ImportOne(s, b[k + 1]) = Append(s, Record(b[k + 1], NextId(s)))
  BY <1>0, <1>3, RecordSame, SoFarAdded
<1>4. CASE /\ Usable(b[k + 1]) /\ FindKey(s, b[k + 1]) = {} /\ Len(s) = MaxAccounts
           /\ ImportOne(s, b[k + 1]) = s
  BY <1>4, SoFarFull DEF Missing
<1>5. QED BY <1>0, <1>1, <1>2, <1>3, <1>4, ImportOneFacts

-----------------------------------------------------------------------------
(***************************************************************************)
(* ... and what holds at its end.                                          *)
(***************************************************************************)
\* Account i is neither removed by the import nor written over.
Stays(r, b, mode, i) == ~Removes(b, mode, r[i]) /\ ~InBackup(b, r[i])

\* What the array `new` is after an import of b into the array r.
Content(r, b, mode, new) ==
    /\ Keyed(new)
    /\ \A x \in DOMAIN new :
         \/ \E i \in DOMAIN r : new[x] = r[i] /\ Stays(r, b, mode, i)
         \/ \E q \in Wanted(b) : SameRecord(new[x], b[q])
    /\ \A i \in DOMAIN r : Stays(r, b, mode, i) => \E x \in DOMAIN new : new[x] = r[i]
    /\ \A q \in Wanted(b) : Holds(new, b[q]) \/ (Missing(new, b[q]) /\ FindKey(r, b[q]) = {})
    /\ Kept(r, new)

\* At the end of the loop the last records are the backup's.
LEMMA WantedIsLast ==
  ASSUME NEW b, IsBackup(b)
  PROVE  /\ Wanted(b) = LastOf(b, Len(b))
         /\ \A y : InBackup(b, y) <=> Covered(b, Len(b), y)
         /\ \A q \in Wanted(b) : q \in 1..Len(b) /\ q \in DOMAIN b /\ Usable(b[q]) /\ IsInput(b[q])
BY BackupFacts DEF Wanted, LastOf, InBackup, Covered

\* Each usable record has the key of a last one.
LEMMA SomeWanted ==
  ASSUME NEW b, IsBackup(b), NEW q \in DOMAIN b, Usable(b[q])
  PROVE  \E w \in Wanted(b) : SameKey(b[w], b[q])
<1> DEFINE n == Len(b)
           S == {j \in 1..n : Usable(b[j]) /\ SameKey(b[q], b[j])}
<1>1. n \in Nat /\ DOMAIN b = 1..n
  BY BackupFacts
<1> HIDE DEF n
<1>2. S \in SUBSET (0..n) /\ q \in S
  BY <1>1, KeyRelation
<1>3. Max(S) \in S /\ \A j \in S : Max(S) >= j
  <2> HIDE DEF S
  <2> QED BY <1>1, <1>2, MaxIn
<1> DEFINE w == Max(S)
<1>4. w \in 1..n /\ Usable(b[w]) /\ SameKey(b[q], b[w]) /\ \A j \in S : w >= j
  BY <1>3
<1> HIDE DEF w
<1>5. ASSUME NEW j \in w + 1..n, Usable(b[j]), SameKey(b[w], b[j]) PROVE FALSE
  <2>1. j \in 1..n /\ ~(w >= j)
    BY <1>1, <1>4
  <2>2. j \in S
    BY <1>4, <1>5, <2>1, KeyRelation
  <2>3. QED BY <1>4, <2>1, <2>2
<1>6. w \in Wanted(b)
  BY <1>1, <1>4, <1>5 DEF Wanted, n
<1>7. QED BY <1>4, <1>6, KeyRelation

\* The loop's invariant holds to the end of the import.
LEMMA StepsSoFar ==
  ASSUME NEW n \in Nat, NEW r, Keyed(r), NEW b, NEW mode, NEW f, Steps(f, n, r, b, mode),
         \A i \in 1..n : IsInput(b[i])
  PROVE  SoFar(f[0], b, n, f[n])
<1>0. r \in Arrays
  BY DEF Keyed
<1>1. \A k \in 0..n : Keyed(f[k]) /\ f[k] \in Arrays
  BY <1>0, StepsFacts
<1> DEFINE S == {k \in 0..n : SoFar(f[0], b, k, f[k])}
<1>2. 0 \in S
  <2>1. LastOf(b, 0) = {} /\ \A y : ~Covered(b, 0, y)
    BY DEF LastOf, Covered
  <2>2. SoFar(f[0], b, 0, f[0])
    BY <2>1 DEF SoFar, Unchanged
  <2>3. QED BY <2>2
<1>3. \A k \in 0..n - 1 : k \in S => k + 1 \in S
  <2> TAKE k \in 0..n - 1
  <2> HAVE k \in S
  <2>1. k + 1 \in 1..n /\ k + 1 \in 0..n /\ (k + 1) - 1 = k /\ k \in Nat /\ k \in 0..n
        /\ 1..k + 1 \subseteq 1..n
    OBVIOUS
  <2>2. f[k + 1] = ImportOne(f[k], b[k + 1])
    BY <2>1 DEF Steps
  <2>3. SoFar(f[0], b, k + 1, f[k + 1])
    BY <1>1, <2>1, <2>2, SoFarStep
  <2>4. QED BY <2>1, <2>3
<1> HIDE DEF S
<1>4. \A k \in 0..n : k \in S
  BY <1>2, <1>3, Counting
<1>5. n \in S
  BY <1>4
<1>6. QED BY <1>5 DEF S

\* What accounts_import leaves in RAM.
LEMMA ImportedContent ==
  ASSUME NEW r, Keyed(r), NEW b, IsBackup(b), NEW mode
  PROVE  Content(r, b, mode, Imported(r, b, mode))
<1> DEFINE n == Len(b)
           new == Imported(r, b, mode)
           gone == {x \in Range(r) : Removes(b, mode, x)}
           base == Without(r, gone)
<1>1. r \in Arrays
  BY DEF Keyed
<1>2. n \in Nat /\ \A i \in 1..n : IsInput(b[i])
  BY BackupFacts
<1>3. PICK f : Steps(f, n, r, b, mode)
  BY <1>1, ImportSteps
<1>4. f[0] = base /\ f[n] = new
  BY <1>3 DEF Steps
<1>5. /\ \A q \in Wanted(b) : q \in 1..n /\ q \in DOMAIN b /\ Usable(b[q]) /\ IsInput(b[q])
      /\ Wanted(b) = LastOf(b, n) /\ \A y : InBackup(b, y) <=> Covered(b, n, y)
  BY WantedIsLast
<1> HIDE DEF n
<1>6. SoFar(f[0], b, n, f[n]) /\ Keyed(f[n]) /\ Grows(f[0], f[n]) /\ f[0] \in Arrays
  <2>1. 0 \in 0..n /\ n \in 0..n
    BY <1>2
  <2>2. QED BY <1>1, <1>2, <1>3, <2>1, StepsSoFar, StepsFacts
<1>7. /\ \A x \in DOMAIN base : base[x] \notin gone /\ \E i \in DOMAIN r : base[x] = r[i]
      /\ \A i \in DOMAIN r : r[i] \notin gone => \E x \in DOMAIN base : base[x] = r[i]
  <2> HIDE DEF gone
  <2> QED BY <1>1, WithoutGood
<1>8. \A i \in DOMAIN r : r[i] \in gone <=> Removes(b, mode, r[i])
  BY DEF Range
<1> HIDE DEF new, gone, base
<1>9. SoFar(base, b, n, new) /\ Keyed(new) /\ Grows(base, new) /\ base \in Arrays
  BY <1>4, <1>6
<1>10. \A x \in DOMAIN base : x \in DOMAIN new
  <2>1. Len(base) <= Len(new) /\ new \in Arrays
    BY <1>9 DEF Grows, Keyed
  <2>2. /\ DOMAIN base = 1..Len(base) /\ DOMAIN new = 1..Len(new)
        /\ Len(base) \in 0..MaxAccounts /\ Len(new) \in 0..MaxAccounts
    BY <1>9, <2>1, ArrayFacts
  <2>3. QED BY <2>1, <2>2, Consts
<1>11. ASSUME NEW x \in DOMAIN new
       PROVE  \/ \E i \in DOMAIN r : new[x] = r[i] /\ Stays(r, b, mode, i)
              \/ \E q \in Wanted(b) : SameRecord(new[x], b[q])
  <2>1. Unchanged(base, b, n, new, x) \/ Read(b, n, new, x)
    BY <1>9 DEF SoFar
  <2>2. CASE Unchanged(base, b, n, new, x)
    <3>1. x \in DOMAIN base /\ new[x] = base[x] /\ ~InBackup(b, base[x])
      BY <1>5, <2>2 DEF Unchanged
    <3>2. PICK i \in DOMAIN r : base[x] = r[i]
      BY <1>7, <3>1
    <3>3. ~Removes(b, mode, r[i])
      BY <1>7, <1>8, <3>1, <3>2
    <3>4. QED BY <3>1, <3>2, <3>3 DEF Stays
  <2>3. CASE Read(b, n, new, x)
    BY <1>5, <2>3 DEF Read
  <2>4. QED BY <2>1, <2>2, <2>3
<1>12. ASSUME NEW i \in DOMAIN r, ~Removes(b, mode, r[i])
       PROVE  \E x \in DOMAIN base : x \in DOMAIN new /\ base[x] = r[i] /\ SameKey(new[x], r[i])
                                     /\ new[x].id = r[i].id
  <2>1. PICK x \in DOMAIN base : base[x] = r[i]
    BY <1>7, <1>8, <1>12
  <2>2. SameKey(new[x], base[x]) /\ new[x].id = base[x].id
    BY <1>9 DEF Grows
  <2>3. QED BY <1>10, <2>1, <2>2
<1>13. ASSUME NEW i \in DOMAIN r, Stays(r, b, mode, i)
       PROVE  \E x \in DOMAIN new : new[x] = r[i]
  <2>1. PICK x \in DOMAIN base : x \in DOMAIN new /\ base[x] = r[i] /\ SameKey(new[x], r[i])
    BY <1>12, <1>13 DEF Stays
  <2>2. ~Covered(b, n, r[i])
    BY <1>5, <1>13 DEF Stays
  <2>3. ~Read(b, n, new, x)
    <3> SUFFICES ASSUME NEW q \in LastOf(b, n), SameRecord(new[x], b[q]) PROVE FALSE
      BY DEF Read
    <3>1. SameKey(new[x], b[q]) /\ q \in 1..n /\ Usable(b[q])
      BY <1>5, SameRecordKey
    <3>2. SameKey(b[q], r[i])
      BY <2>1, <3>1, KeyRelation
    <3>3. QED BY <2>2, <3>1, <3>2 DEF Covered
  <2>4. Unchanged(base, b, n, new, x)
    BY <1>9, <2>1, <2>3 DEF SoFar
  <2>5. QED BY <2>1, <2>4 DEF Unchanged
<1>14. ASSUME NEW q \in Wanted(b)
       PROVE  Holds(new, b[q]) \/ (Missing(new, b[q]) /\ FindKey(r, b[q]) = {})
  <2> SUFFICES ASSUME ~Holds(new, b[q]) PROVE Missing(new, b[q]) /\ FindKey(r, b[q]) = {}
    OBVIOUS
  <2>1. Missing(new, b[q])
    BY <1>5, <1>9 DEF SoFar
  <2>2. ASSUME NEW i \in DOMAIN r, SameKey(r[i], b[q]) PROVE FALSE
    <3>1. InBackup(b, r[i])
      BY <1>5, <2>2, KeyRelation DEF InBackup
    <3>2. ~Removes(b, mode, r[i])
      BY <3>1 DEF Removes
    <3>3. PICK x \in DOMAIN new : SameKey(new[x], r[i])
      BY <1>12, <3>2
    <3>4. SameKey(new[x], b[q])
      BY <2>2, <3>3, KeyRelation
    <3>5. QED BY <2>1, <3>4 DEF Missing, FindKey
  <2>3. QED BY <2>1, <2>2 DEF FindKey
<1>15. Kept(r, new)
  <2> SUFFICES ASSUME NEW i \in DOMAIN r, NEW j \in DOMAIN new, SameKey(r[i], new[j])
               PROVE  r[i].id = new[j].id
    BY DEF Kept
  <2>1. CASE ~Removes(b, mode, r[i])
    <3>1. PICK x \in DOMAIN new : SameKey(new[x], r[i]) /\ new[x].id = r[i].id
      BY <1>12, <2>1
    <3>2. SameKey(new[x], new[j])
      BY <3>1, KeyRelation
    <3>3. x = j
      BY <1>9, <3>2 DEF Keyed
    <3>4. QED BY <3>1, <3>3
  <2>2. CASE Removes(b, mode, r[i])
    <3>1. ~InBackup(b, r[i])
      BY <2>2 DEF Removes
    <3>2. ASSUME NEW q \in Wanted(b), SameRecord(new[j], b[q]) PROVE FALSE
      <4>1. SameKey(b[q], r[i]) /\ q \in DOMAIN b /\ Usable(b[q])
        BY <1>5, <3>2, SameRecordKey, KeyRelation
      <4>2. QED BY <3>1, <4>1 DEF InBackup
    <3>3. PICK k \in DOMAIN r : new[j] = r[k] /\ Stays(r, b, mode, k)
      BY <1>11, <3>2
    <3>4. k = i
      BY <3>3 DEF Keyed
    <3>5. QED BY <2>2, <3>3, <3>4 DEF Stays
  <2>3. QED BY <2>1, <2>2
<1>16. Content(r, b, mode, new)
  BY <1>9, <1>11, <1>13, <1>14, <1>15 DEF Content
<1>17. QED BY <1>16 DEF new

-----------------------------------------------------------------------------
(***************************************************************************)
(* What the summary of an import counts.                                   *)
(***************************************************************************)
\* The usable records of b, ...
UsableOf(b) == {i \in DOMAIN b : Usable(b[i])}

\* The usable records of b that find an account of r, ...
FoundOf(r, b) == {i \in UsableOf(b) : FindKey(r, b[i]) # {}}

\* ... those that are the same as their account, ...
SameOf(r, b) == {i \in FoundOf(r, b) : SameRecord(r[Min(FindKey(r, b[i]))], b[i])}

\* ... the accounts that the import removes, ...
RemovedOf(r, b, mode) == {j \in DOMAIN r : Removes(b, mode, r[j])}

\* ... the usable records that find no account, ...
NewOf(r, b) == UsableOf(b) \ FoundOf(r, b)

\* ... and those that differ from the account they find.
ChangedOf(r, b) == FoundOf(r, b) \ SameOf(r, b)

\* The room there is for new ones.
Room(r, b, mode) == MaxAccounts - Len(r) + Cardinality(RemovedOf(r, b, mode))

\* The numbers of accounts_import_preview as sizes of these parts.
LEMMA SummaryFacts ==
  ASSUME NEW r \in Arrays, NEW b, IsBackup(b), NEW mode
  PROVE  LET sum == Preview(r, b, mode)
             new == Cardinality(NewOf(r, b))
             room == Room(r, b, mode)
         IN /\ IsFiniteSet(UsableOf(b)) /\ IsFiniteSet(FoundOf(r, b)) /\ IsFiniteSet(SameOf(r, b))
            /\ IsFiniteSet(RemovedOf(r, b, mode)) /\ IsFiniteSet(DOMAIN r)
            /\ Cardinality(DOMAIN r) = Len(r)
            /\ IsFiniteSet(NewOf(r, b)) /\ IsFiniteSet(ChangedOf(r, b))
            /\ new \in Nat /\ room \in Nat
            /\ sum.removed = Cardinality(RemovedOf(r, b, mode)) /\ sum.removed \in Nat
            /\ sum.changed = Cardinality(ChangedOf(r, b)) /\ sum.changed \in Nat
            /\ sum.unchanged = Cardinality(SameOf(r, b)) /\ sum.unchanged \in Nat
            /\ sum.added = (IF new <= room THEN new ELSE room)
            /\ sum.full = (IF new <= room THEN 0 ELSE new - room)
            /\ sum.total = Len(b) /\ sum.total \in Nat
            /\ sum.invalid = Len(b) - Cardinality(UsableOf(b))
            /\ Cardinality(UsableOf(b)) = new + sum.changed + sum.unchanged
<1> DEFINE sum == Preview(r, b, mode)
           new == Cardinality(NewOf(r, b))
           room == Room(r, b, mode)
           removed == Cardinality(RemovedOf(r, b, mode))
           changed == Cardinality(ChangedOf(r, b))
           same == Cardinality(SameOf(r, b))
           found == Cardinality(FoundOf(r, b))
           all == Cardinality(UsableOf(b))
<1>1. DOMAIN r = 1..Len(r) /\ Len(r) \in 0..MaxAccounts /\ DOMAIN b = 1..Len(b) /\ Len(b) \in Nat
      /\ Len(r) \in Nat /\ MaxAccounts \in Nat /\ Len(r) <= MaxAccounts
  BY ArrayFacts, BackupFacts, Consts
<1>2. IsFiniteSet(DOMAIN r) /\ IsFiniteSet(DOMAIN b) /\ Cardinality(DOMAIN r) = Len(r)
  <2> DEFINE n == Len(r)
             m == Len(b)
  <2>1. DOMAIN r = 1..n /\ DOMAIN b = 1..m /\ n \in Nat /\ m \in Nat
    BY <1>1
  <2> HIDE DEF n, m
  <2>2. IsFiniteSet(1..n) /\ IsFiniteSet(1..m) /\ Cardinality(1..n) = IF 1 > n THEN 0 ELSE n - 1 + 1
    BY <2>1, FS_Interval
  <2>3. Cardinality(1..n) = n
    BY <2>1, <2>2
  <2>4. QED BY <2>1, <2>2, <2>3 DEF n
<1>3. /\ UsableOf(b) \in SUBSET DOMAIN b
      /\ RemovedOf(r, b, mode) \in SUBSET DOMAIN r
      /\ UsableOf(b) = NewOf(r, b) \cup FoundOf(r, b) /\ NewOf(r, b) \cap FoundOf(r, b) = {}
      /\ FoundOf(r, b) = ChangedOf(r, b) \cup SameOf(r, b) /\ ChangedOf(r, b) \cap SameOf(r, b) = {}
  BY DEF UsableOf, RemovedOf, NewOf, FoundOf, ChangedOf, SameOf
<1>4. IsFiniteSet(UsableOf(b)) /\ IsFiniteSet(RemovedOf(r, b, mode))
  BY <1>2, <1>3, FS_Subset
<1>5. removed \in Nat
  BY <1>4, FS_CardinalityType
<1>6. /\ IsFiniteSet(NewOf(r, b)) /\ IsFiniteSet(FoundOf(r, b)) /\ new \in Nat /\ found \in Nat
      /\ all = new + found
  <2> DEFINE A == NewOf(r, b)
             F == FoundOf(r, b)
             U == UsableOf(b)
  <2>1. U = A \cup F /\ A \cap F = {} /\ IsFiniteSet(U)
    BY <1>3, <1>4
  <2> HIDE DEF A, F, U
  <2>2. /\ IsFiniteSet(A) /\ IsFiniteSet(F) /\ Cardinality(A) \in Nat /\ Cardinality(F) \in Nat
        /\ Cardinality(U) = Cardinality(A) + Cardinality(F)
    BY <2>1, TwoParts
  <2>3. QED BY <2>2 DEF A, F, U
<1>7. /\ IsFiniteSet(ChangedOf(r, b)) /\ IsFiniteSet(SameOf(r, b)) /\ changed \in Nat /\ same \in Nat
      /\ found = changed + same
  <2> DEFINE A == ChangedOf(r, b)
             B == SameOf(r, b)
             F == FoundOf(r, b)
  <2>1. F = A \cup B /\ A \cap B = {} /\ IsFiniteSet(F)
    BY <1>3, <1>6
  <2> HIDE DEF A, B, F
  <2>2. /\ IsFiniteSet(A) /\ IsFiniteSet(B) /\ Cardinality(A) \in Nat /\ Cardinality(B) \in Nat
        /\ Cardinality(F) = Cardinality(A) + Cardinality(B)
    BY <2>1, TwoParts
  <2>3. QED BY <2>2 DEF A, B, F
<1>8. room = MaxAccounts - Len(r) + removed
  BY DEF Room
<1>9. sum = [total |-> Len(b), invalid |-> Len(b) - all,
             added |-> Min({new, room}), full |-> Max({new - room, 0}),
             changed |-> changed, unchanged |-> same, removed |-> removed]
  BY DEF Preview, UsableOf, FoundOf, SameOf, RemovedOf, NewOf, ChangedOf, Room
<1> HIDE DEF sum, new, room, removed, changed, same, found, all
<1>10. room \in Nat
  <2> DEFINE n == Len(r)
  <2>1. n \in Nat /\ n <= MaxAccounts /\ room = MaxAccounts - n + removed
    BY <1>1, <1>8
  <2> HIDE DEF n
  <2>2. QED BY <1>1, <1>5, <2>1
<1>11. /\ Min({new, room}) = IF new <= room THEN new ELSE room
       /\ Max({new - room, 0}) = IF new <= room THEN 0 ELSE new - room
  <2>1. new \in Int /\ room \in Int /\ new - room \in Int /\ (new - room >= 0 /\ new <= room => new - room = 0)
        /\ (~(new <= room) => new - room >= 0)
    BY <1>6, <1>10
  <2>2. QED BY <2>1, MinMaxOfTwo
<1>12. all = new + changed + same
  BY <1>6, <1>7
<1>13. QED BY <1>1, <1>2, <1>4, <1>5, <1>6, <1>7, <1>9, <1>10, <1>11, <1>12, SMTT(60)
         DEF sum, new, room, removed, changed, same, all

-----------------------------------------------------------------------------
(***************************************************************************)
(* An import keeps its promise.                                            *)
(***************************************************************************)
\* An import that would change nothing is not saved, and rightly so.
LEMMA UnwrittenContent ==
  ASSUME NEW r, Keyed(r), NEW b, IsBackup(b), NEW mode, ~Writes(r, b, mode)
  PROVE  Content(r, b, mode, r)
<1>0. r \in Arrays
  BY DEF Keyed
<1> DEFINE sum == Preview(r, b, mode)
           new == Cardinality(NewOf(r, b))
           room == Room(r, b, mode)
<1>1. /\ IsFiniteSet(RemovedOf(r, b, mode)) /\ IsFiniteSet(NewOf(r, b)) /\ IsFiniteSet(ChangedOf(r, b))
      /\ new \in Nat /\ room \in Nat
      /\ sum.removed = Cardinality(RemovedOf(r, b, mode)) /\ sum.removed \in Nat
      /\ sum.changed = Cardinality(ChangedOf(r, b)) /\ sum.changed \in Nat
      /\ sum.added = IF new <= room THEN new ELSE room
  BY <1>0, SummaryFacts
<1>2. ~(sum.added + sum.changed + sum.removed > 0)
  BY DEF Writes
<1>3. room = MaxAccounts - Len(r) + Cardinality(RemovedOf(r, b, mode))
  BY DEF Room
<1> HIDE DEF sum, new, room
<1>4. sum.added = 0 /\ sum.changed = 0 /\ sum.removed = 0
  BY <1>1, <1>2
<1>5. RemovedOf(r, b, mode) = {} /\ ChangedOf(r, b) = {}
  BY <1>1, <1>4, FS_EmptySet
<1>6. NewOf(r, b) # {} => Len(r) = MaxAccounts
  <2> SUFFICES ASSUME NewOf(r, b) # {} PROVE Len(r) = MaxAccounts
    OBVIOUS
  <2>1. new # 0
    BY <1>1, FS_EmptySet DEF new
  <2>2. room = 0
    BY <1>1, <1>4, <2>1
  <2>3. Len(r) \in Nat /\ MaxAccounts \in Nat
    BY <1>0, ArrayFacts, Consts
  <2> DEFINE n == Len(r)
  <2>4. n \in Nat /\ 0 = MaxAccounts - n + 0
    BY <1>1, <1>3, <1>4, <2>2, <2>3
  <2> HIDE DEF n
  <2>5. n = MaxAccounts
    BY <2>3, <2>4
  <2>6. QED BY <2>5 DEF n
<1>7. \A q \in Wanted(b) : q \in 1..Len(b) /\ q \in DOMAIN b /\ Usable(b[q]) /\ IsInput(b[q])
  BY WantedIsLast
<1>8. ASSUME NEW q \in Wanted(b), FindKey(r, b[q]) # {}
      PROVE  /\ Min(FindKey(r, b[q])) \in DOMAIN r /\ SameKey(r[Min(FindKey(r, b[q]))], b[q])
             /\ SameRecord(r[Min(FindKey(r, b[q]))], b[q])
  <2>1. q \in FoundOf(r, b)
    BY <1>7, <1>8 DEF FoundOf, UsableOf
  <2>2. q \in SameOf(r, b)
    BY <1>5, <2>1 DEF ChangedOf
  <2>3. QED BY <1>0, <1>8, <2>2, FindKeyFacts DEF SameOf
<1>9. ASSUME NEW x \in DOMAIN r
      PROVE  Stays(r, b, mode, x) \/ \E q \in Wanted(b) : SameRecord(r[x], b[q])
  <2>1. ~Removes(b, mode, r[x])
    BY <1>5 DEF RemovedOf
  <2>2. CASE ~InBackup(b, r[x])
    BY <2>1, <2>2 DEF Stays
  <2>3. CASE InBackup(b, r[x])
    <3>1. PICK p \in DOMAIN b : SameKey(b[p], r[x]) /\ Usable(b[p])
      BY <2>3 DEF InBackup
    <3>2. PICK q \in Wanted(b) : SameKey(b[q], b[p])
      BY <3>1, SomeWanted
    <3>3. SameKey(r[x], b[q])
      BY <3>1, <3>2, KeyRelation
    <3>4. FindKey(r, b[q]) # {}
      BY <3>3 DEF FindKey
    <3> DEFINE m == Min(FindKey(r, b[q]))
    <3>5. m \in DOMAIN r /\ SameKey(r[m], b[q]) /\ SameRecord(r[m], b[q])
      BY <1>8, <3>4
    <3> HIDE DEF m
    <3>6. m = x
      BY <3>3, <3>5, KeyRelation DEF Keyed
    <3>7. QED BY <3>5, <3>6
  <2>4. QED BY <2>2, <2>3
<1>10. ASSUME NEW q \in Wanted(b)
       PROVE  Holds(r, b[q]) \/ (Missing(r, b[q]) /\ FindKey(r, b[q]) = {})
  <2>1. CASE FindKey(r, b[q]) # {}
    BY <1>8, <2>1 DEF Holds
  <2>2. CASE FindKey(r, b[q]) = {}
    <3>1. q \in NewOf(r, b)
      BY <1>7, <2>2 DEF NewOf, UsableOf, FoundOf
    <3>2. QED BY <1>6, <2>2, <3>1 DEF Missing
  <2>3. QED BY <2>1, <2>2
<1>11. Kept(r, r)
  BY <1>0, GrowsRelation, GrowsKept
<1>12. QED BY <1>9, <1>10, <1>11 DEF Content

\* What an import leaves, saved or not.
LEMMA AfterImportContent ==
  ASSUME NEW r, Keyed(r), NEW b, IsBackup(b), NEW mode
  PROVE  Content(r, b, mode, AfterImport(r, b, mode))
BY ImportedContent, UnwrittenContent DEF AfterImport

\* The accounts that an import promises to leave alone.
Left(r, b, mode) ==
    {i \in DOMAIN r : \A j \in Wanted(b) :
        IF mode = "merge" THEN ~SameKey(b[j], r[i]) ELSE ~ProfileEq(b[j].profile, r[i].profile)}

\* They are those that are neither removed nor written over.
LEMMA LeftStays ==
  ASSUME NEW r, NEW b, IsBackup(b), NEW mode \in Modes, NEW i \in DOMAIN r
  PROVE  i \in Left(r, b, mode) <=> Stays(r, b, mode, i)
<1>1. \A q \in Wanted(b) : q \in DOMAIN b /\ Usable(b[q])
  BY WantedIsLast
<1>2. \A q \in DOMAIN b : Usable(b[q]) => \E w \in Wanted(b) : SameKey(b[w], b[q])
  BY SomeWanted
<1>3. CASE mode = "merge"
  BY <1>1, <1>2, <1>3, KeyRelation DEF Left, Stays, Removes, InBackup
<1>4. CASE mode = "replace"
  <2>1. (\E q \in DOMAIN b : ProfileEq(b[q].profile, r[i].profile) /\ Usable(b[q]))
          <=> \E w \in Wanted(b) : ProfileEq(b[w].profile, r[i].profile)
    BY <1>1, <1>2 DEF SameKey, ProfileEq
  <2>2. i \in Left(r, b, mode) <=> ~\E w \in Wanted(b) : ProfileEq(b[w].profile, r[i].profile)
    BY <1>4 DEF Left
  <2>3. InBackup(b, r[i]) => \E q \in DOMAIN b : ProfileEq(b[q].profile, r[i].profile) /\ Usable(b[q])
    BY DEF InBackup, SameKey
  <2>4. QED BY <1>4, <2>1, <2>2, <2>3 DEF Stays, Removes
<1>5. QED BY <1>3, <1>4 DEF Modes

\* An array with that content is what an import promises.
LEMMA ContentPromised ==
  ASSUME NEW r, Keyed(r), NEW b, IsBackup(b), NEW mode \in Modes, NEW new, Content(r, b, mode, new)
  PROVE  Promised(r, b, mode, new)
<1> DEFINE left == Left(r, b, mode)
           back == {i \in Wanted(b) : FindKey(r, b[i]) # {}}
           missing == {i \in Wanted(b) : ~Holds(new, b[i])}
           A == {x \in DOMAIN new : \E i \in left : new[x] = r[i]}
           B == {x \in DOMAIN new : \E q \in Wanted(b) : SameRecord(new[x], b[q])}
<1>1. \A i \in DOMAIN r : i \in left <=> Stays(r, b, mode, i)
  BY LeftStays
<1>2. left \subseteq DOMAIN r
  BY DEF Left
<1>3. \A q \in Wanted(b) : q \in 1..Len(b) /\ q \in DOMAIN b /\ Usable(b[q]) /\ IsInput(b[q])
  BY WantedIsLast
<1>4. Promised(r, b, mode, new) <=>
        /\ \A i \in left : r[i] \in Range(new)
        /\ missing \cap back = {}
        /\ missing # {} => Len(new) = MaxAccounts
        /\ Len(new) = Cardinality(left) + Cardinality(Wanted(b) \ missing)
  BY DEF Promised, Left
<1> HIDE DEF left
<1>5. \A i \in left : \E x \in DOMAIN new : new[x] = r[i]
  BY <1>1, <1>2 DEF Content
<1>6. missing \cap back = {}
  BY DEF Content
<1>7. missing # {} => Len(new) = MaxAccounts
  BY DEF Content, Missing
<1>8. Keyed(new) /\ new \in Arrays
  BY DEF Content, Keyed
<1>9. DOMAIN new = 1..Len(new) /\ Len(new) \in Nat /\ Len(new) \in 0..MaxAccounts
  BY <1>8, ArrayFacts, Consts
<1>10. \A i \in left : ~InBackup(b, r[i])
  BY <1>1, <1>2 DEF Stays
<1>11. DOMAIN new = A \cup B
  <2>1. \A x \in DOMAIN new : x \in A \/ x \in B
    BY <1>1 DEF Content
  <2>2. QED BY <2>1
<1>12. A \cap B = {}
  <2> SUFFICES ASSUME NEW x \in DOMAIN new, NEW i \in left, new[x] = r[i],
                      NEW q \in Wanted(b), SameRecord(new[x], b[q])
               PROVE  FALSE
    OBVIOUS
  <2>1. SameKey(b[q], r[i])
    BY <1>3, SameRecordKey, KeyRelation
  <2>2. QED BY <1>3, <1>10, <2>1 DEF InBackup
<1>13. IsFiniteSet(DOMAIN new) /\ Cardinality(DOMAIN new) = Len(new)
  <2> DEFINE n == Len(new)
  <2>1. DOMAIN new = 1..n /\ n \in Nat
    BY <1>9
  <2> HIDE DEF n
  <2>2. IsFiniteSet(1..n) /\ Cardinality(1..n) = IF 1 > n THEN 0 ELSE n - 1 + 1
    BY <2>1, FS_Interval
  <2>3. Cardinality(1..n) = n
    BY <2>1, <2>2
  <2>4. QED BY <2>1, <2>2, <2>3 DEF n
<1>14. /\ IsFiniteSet(A) /\ IsFiniteSet(B) /\ Cardinality(DOMAIN new) = Cardinality(A) + Cardinality(B)
  <2> DEFINE U == DOMAIN new
  <2>1. U = A \cup B /\ A \cap B = {} /\ IsFiniteSet(U)
    BY <1>11, <1>12, <1>13
  <2> HIDE DEF A, B, U
  <2>2. IsFiniteSet(A) /\ IsFiniteSet(B) /\ Cardinality(U) = Cardinality(A) + Cardinality(B)
    BY <2>1, TwoParts
  <2>3. QED BY <2>2 DEF U
<1>15. Cardinality(A) = Cardinality(left)
  <2> DEFINE R == {p \in A \X left : new[p[1]] = r[p[2]]}
  <2>1. \A x \in A : \E i \in left : <<x, i>> \in R
    OBVIOUS
  <2>2. \A i \in left : \E x \in A : <<x, i>> \in R
    <3> TAKE i \in left
    <3>1. PICK x \in DOMAIN new : new[x] = r[i]
      BY <1>5
    <3>2. x \in A /\ <<x, i>> \in R
      BY <3>1
    <3>3. QED BY <3>2
  <2>3. \A x, y \in A, i, j \in left : <<x, i>> \in R /\ <<y, j>> \in R => (x = y <=> i = j)
    <3> SUFFICES ASSUME NEW x \in A, NEW y \in A, NEW i \in left, NEW j \in left,
                        <<x, i>> \in R, <<y, j>> \in R
                 PROVE  x = y <=> i = j
      <4> HIDE DEF A, R
      <4> QED OBVIOUS
    <3>0. new[x] = r[i] /\ new[y] = r[j]
      OBVIOUS
    <3>1. x = y => i = j
      BY <3>0, <1>2, KeyRelation DEF Keyed
    <3>2. i = j => x = y
      BY <3>0, <1>8, KeyRelation DEF Keyed
    <3>3. QED BY <3>1, <3>2
  <2> HIDE DEF A, R
  <2>4. QED BY <1>14, <2>1, <2>2, <2>3, Pairing
<1>16. Cardinality(B) = Cardinality(Wanted(b) \ missing)
  <2> DEFINE T == Wanted(b) \ missing
             R == {p \in B \X T : SameRecord(new[p[1]], b[p[2]])}
  <2>0. \A q : q \in T <=> q \in Wanted(b) /\ Holds(new, b[q])
    OBVIOUS
  <2>1. \A x \in B : \E q \in T : <<x, q>> \in R
    <3> TAKE x \in B
    <3>1. PICK q \in Wanted(b) : SameRecord(new[x], b[q])
      OBVIOUS
    <3>2. q \in T
      BY <3>1 DEF Holds
    <3>3. <<x, q>> \in R
      BY <3>1, <3>2
    <3>4. QED BY <3>2, <3>3
  <2>2. \A q \in T : \E x \in B : <<x, q>> \in R
    <3> TAKE q \in T
    <3>1. PICK x \in DOMAIN new : SameRecord(new[x], b[q])
      BY <2>0 DEF Holds
    <3>2. x \in B
      BY <3>1
    <3>3. <<x, q>> \in R
      BY <3>1, <3>2
    <3>4. QED BY <3>2, <3>3
  <2>3. \A x, y \in B, p, q \in T : <<x, p>> \in R /\ <<y, q>> \in R => (x = y <=> p = q)
    <3> SUFFICES ASSUME NEW x \in B, NEW y \in B, NEW p \in T, NEW q \in T,
                        <<x, p>> \in R, <<y, q>> \in R
                 PROVE  x = y <=> p = q
      <4> HIDE DEF B, T, R
      <4> QED OBVIOUS
    <3>5. SameRecord(new[x], b[p]) /\ SameRecord(new[y], b[q])
      OBVIOUS
    <3>0. p \in Wanted(b) /\ q \in Wanted(b) /\ x \in DOMAIN new /\ y \in DOMAIN new
      BY <2>0
    <3>1. SameKey(new[x], b[p]) /\ SameKey(new[y], b[q])
      BY <1>3, <3>0, <3>5, SameRecordKey
    <3>2. x = y => p = q
      <4> SUFFICES ASSUME x = y, p # q PROVE FALSE
        OBVIOUS
      <4>1. SameKey(b[p], b[q]) /\ SameKey(b[q], b[p])
        BY <3>1, KeyRelation
      <4>2. p \in 1..Len(b) /\ q \in 1..Len(b) /\ Len(b) \in Nat
        BY <1>3, <3>0, BackupFacts
      <4>3. q \in p + 1..Len(b) \/ p \in q + 1..Len(b)
        <5> DEFINE n == Len(b)
        <5>1. p \in 1..n /\ q \in 1..n /\ n \in Nat
          BY <4>2
        <5> HIDE DEF n
        <5>2. q \in p + 1..n \/ p \in q + 1..n
          BY <5>1
        <5>3. QED BY <5>2 DEF n
      <4>4. QED BY <1>3, <3>0, <4>1, <4>3 DEF Wanted
    <3>3. p = q => x = y
      BY <1>8, <3>0, <3>1, KeyRelation DEF Keyed
    <3>4. QED BY <3>2, <3>3
  <2> HIDE DEF B, T, R
  <2>4. Cardinality(B) = Cardinality(T)
    BY <1>14, <2>1, <2>2, <2>3, Pairing
  <2>5. QED BY <2>4 DEF T
<1>17. \A i \in left : r[i] \in Range(new)
  BY <1>5 DEF Range
<1>18. QED
  <2>1. Len(new) = Cardinality(left) + Cardinality(Wanted(b) \ missing)
    BY <1>13, <1>14, <1>15, <1>16
  <2>2. QED BY <1>4, <1>6, <1>7, <1>17, <2>1

-----------------------------------------------------------------------------
(***************************************************************************)
(* The summary counts what the import changes.                             *)
(***************************************************************************)
\* In a backup without double keys every usable record is wanted.
LEMMA DistinctWanted ==
  ASSUME NEW b, IsBackup(b), Distinct(b)
  PROVE  Wanted(b) = UsableOf(b)
<1>1. DOMAIN b = 1..Len(b) /\ Len(b) \in Nat
  BY BackupFacts
<1>2. ASSUME NEW i \in DOMAIN b, NEW j \in i + 1..Len(b) PROVE ~SameKey(b[i], b[j])
  <2> DEFINE n == Len(b)
  <2>1. i \in 1..n /\ n \in Nat /\ j \in i + 1..n
    BY <1>1, <1>2
  <2> HIDE DEF n
  <2>2. j \in 1..n /\ i # j
    BY <2>1
  <2>3. QED BY <1>1, <2>2 DEF n, Distinct
<1>3. QED BY <1>2 DEF Wanted, UsableOf

\* The accounts of r that b has a usable record of.
CoveredOf(r, b) == {i \in DOMAIN r : InBackup(b, r[i])}

\* They pair off with the records of b that find an account.
LEMMA CoveredFound ==
  ASSUME NEW r, Keyed(r), NEW b, IsBackup(b), Distinct(b)
  PROVE  IsFiniteSet(CoveredOf(r, b)) /\ Cardinality(CoveredOf(r, b)) = Cardinality(FoundOf(r, b))
<1> DEFINE S == CoveredOf(r, b)
           T == FoundOf(r, b)
           R == {p \in S \X T : SameKey(b[p[2]], r[p[1]])}
<1>0. r \in Arrays
  BY DEF Keyed
<1>1. S \subseteq DOMAIN r /\ IsFiniteSet(DOMAIN r)
  BY <1>0, SummaryFacts DEF CoveredOf
<1>2. IsFiniteSet(S)
  BY <1>1, FS_Subset
<1>3. \A i \in S : \E q \in T : <<i, q>> \in R
  <2> TAKE i \in S
  <2>1. i \in DOMAIN r /\ InBackup(b, r[i])
    BY DEF CoveredOf
  <2>2. PICK q \in DOMAIN b : SameKey(b[q], r[i]) /\ Usable(b[q])
    BY <2>1 DEF InBackup
  <2>3. q \in T
    BY <2>1, <2>2, KeyRelation DEF FoundOf, UsableOf, FindKey
  <2> HIDE DEF S, T
  <2>4. <<i, q>> \in R
    BY <2>2, <2>3
  <2>5. QED BY <2>3, <2>4
<1>4. \A q \in T : \E i \in S : <<i, q>> \in R
  <2> TAKE q \in T
  <2>1. q \in DOMAIN b /\ Usable(b[q]) /\ FindKey(r, b[q]) # {}
    BY DEF FoundOf, UsableOf
  <2>2. PICK i \in DOMAIN r : SameKey(b[q], r[i])
    BY <2>1, KeyRelation DEF FindKey
  <2>3. i \in S
    BY <2>1, <2>2 DEF CoveredOf, InBackup
  <2> HIDE DEF S, T
  <2>4. <<i, q>> \in R
    BY <2>2, <2>3
  <2>5. QED BY <2>3, <2>4
<1>5. \A i, j \in S, p, q \in T : <<i, p>> \in R /\ <<j, q>> \in R => (i = j <=> p = q)
  <2> SUFFICES ASSUME NEW i \in S, NEW j \in S, NEW p \in T, NEW q \in T,
                      <<i, p>> \in R, <<j, q>> \in R
               PROVE  i = j <=> p = q
    <3> HIDE DEF S, T, R
    <3> QED OBVIOUS
  <2>1. SameKey(b[p], r[i]) /\ SameKey(b[q], r[j])
    <3> HIDE DEF S, T
    <3> QED OBVIOUS
  <2>2. i \in DOMAIN r /\ j \in DOMAIN r /\ p \in DOMAIN b /\ q \in DOMAIN b
    BY DEF CoveredOf, FoundOf, UsableOf
  <2>3. i = j => p = q
    BY <2>1, <2>2, KeyRelation DEF Distinct
  <2>4. p = q => i = j
    BY <2>1, <2>2, KeyRelation DEF Keyed
  <2>5. QED BY <2>3, <2>4
<1> HIDE DEF S, T, R
<1>6. Cardinality(S) = Cardinality(T)
  BY <1>2, <1>3, <1>4, <1>5, Pairing
<1>7. QED BY <1>2, <1>6 DEF S, T

\* The accounts whose key is gone after the import are those it removes.
LEMMA GoneRemoved ==
  ASSUME NEW r, Keyed(r), NEW b, IsBackup(b), NEW mode, NEW new, Content(r, b, mode, new)
  PROVE  {i \in DOMAIN r : FindKey(new, r[i]) = {}} = RemovedOf(r, b, mode)
<1>1. \A q \in Wanted(b) : q \in DOMAIN b /\ Usable(b[q]) /\ IsInput(b[q])
  BY WantedIsLast
<1>2. ASSUME NEW i \in DOMAIN r, ~Removes(b, mode, r[i]) PROVE FindKey(new, r[i]) # {}
  <2>1. CASE ~InBackup(b, r[i])
    <3>1. PICK x \in DOMAIN new : new[x] = r[i]
      BY <1>2, <2>1 DEF Content, Stays
    <3>2. QED BY <3>1, KeyRelation DEF FindKey
  <2>2. CASE InBackup(b, r[i])
    <3>1. PICK p \in DOMAIN b : SameKey(b[p], r[i]) /\ Usable(b[p])
      BY <2>2 DEF InBackup
    <3>2. PICK q \in Wanted(b) : SameKey(b[q], b[p])
      BY <3>1, SomeWanted
    <3>3. SameKey(r[i], b[q])
      BY <3>1, <3>2, KeyRelation
    <3>4. Holds(new, b[q])
      BY <3>3 DEF Content, FindKey
    <3>5. PICK x \in DOMAIN new : SameRecord(new[x], b[q])
      BY <3>4 DEF Holds
    <3>6. SameKey(new[x], r[i])
      BY <1>1, <3>3, <3>5, SameRecordKey, KeyRelation
    <3>7. QED BY <3>6 DEF FindKey
  <2>3. QED BY <2>1, <2>2
<1>3. ASSUME NEW i \in DOMAIN r, Removes(b, mode, r[i]), NEW x \in DOMAIN new, SameKey(new[x], r[i])
      PROVE  FALSE
  <2>1. ~InBackup(b, r[i])
    BY <1>3 DEF Removes
  <2>2. ASSUME NEW k \in DOMAIN r, new[x] = r[k], Stays(r, b, mode, k) PROVE FALSE
    <3>1. k = i
      BY <1>3, <2>2, KeyRelation DEF Keyed
    <3>2. QED BY <1>3, <2>2, <3>1 DEF Stays
  <2>3. ASSUME NEW q \in Wanted(b), SameRecord(new[x], b[q]) PROVE FALSE
    <3>1. SameKey(b[q], r[i])
      BY <1>1, <1>3, <2>3, SameRecordKey, KeyRelation
    <3>2. QED BY <1>1, <2>1, <3>1 DEF InBackup
  <2>4. QED BY <2>2, <2>3 DEF Content
<1>4. QED BY <1>2, <1>3 DEF RemovedOf, FindKey

\* A record is determined by its identifier and its content.
LEMMA SameFields ==
  ASSUME NEW x \in Stored, NEW y \in Stored, NEW a, x.id = y.id, SameRecord(x, a), SameRecord(y, a)
  PROVE  x = y
<1>1. x \in Rec /\ y \in Rec
  BY DEF Stored
<1>2. x.profile = y.profile /\ x.name = y.name /\ x.data = y.data /\ x.used = y.used
  BY DEF SameRecord
<1>3. QED BY <1>1, <1>2 DEF Rec

\* The accounts of r whose content differs in new.
OtherOf(r, new) == {i \in DOMAIN r : FindKey(new, r[i]) # {} /\ r[i] \notin Range(new)}

\* They pair off with the records of b that differ from their account.
LEMMA OtherChanged ==
  ASSUME NEW r, Keyed(r), NEW b, IsBackup(b), Distinct(b), NEW mode, NEW new,
         Content(r, b, mode, new)
  PROVE  IsFiniteSet(OtherOf(r, new)) /\ Cardinality(OtherOf(r, new)) = Cardinality(ChangedOf(r, b))
<1> DEFINE S == OtherOf(r, new)
           T == ChangedOf(r, b)
           R == {p \in S \X T : SameKey(b[p[2]], r[p[1]])}
<1>0. r \in Arrays /\ Keyed(new) /\ new \in Arrays
  BY DEF Keyed, Content
<1>1. S \subseteq DOMAIN r /\ IsFiniteSet(DOMAIN r)
  BY <1>0, SummaryFacts DEF OtherOf
<1>2. IsFiniteSet(S)
  BY <1>1, FS_Subset
<1>3. Wanted(b) = UsableOf(b) /\ \A q \in UsableOf(b) : q \in DOMAIN b /\ Usable(b[q]) /\ IsInput(b[q])
  BY DistinctWanted, WantedIsLast
<1>4. ASSUME NEW i \in DOMAIN r, NEW q \in UsableOf(b), SameKey(b[q], r[i])
      PROVE  /\ Min(FindKey(r, b[q])) = i /\ q \in FoundOf(r, b)
             /\ \E x \in DOMAIN new : /\ SameRecord(new[x], b[q]) /\ SameKey(new[x], r[i])
                                      /\ new[x].id = r[i].id
                                      /\ (r[i] \in Range(new) => new[x] = r[i])
  <2>1. i \in FindKey(r, b[q])
    BY <1>4, KeyRelation DEF FindKey
  <2> DEFINE m == Min(FindKey(r, b[q]))
  <2>2. m \in DOMAIN r /\ SameKey(r[m], b[q])
    BY <1>0, <2>1, FindKeyFacts
  <2> HIDE DEF m
  <2>3. m = i
    BY <1>4, <2>2, KeyRelation DEF Keyed
  <2>4. q \in FoundOf(r, b)
    BY <2>1 DEF FoundOf
  <2>5. Holds(new, b[q])
    BY <1>3, <2>1 DEF Content
  <2>6. PICK x \in DOMAIN new : SameRecord(new[x], b[q])
    BY <2>5 DEF Holds
  <2>7. SameKey(new[x], r[i]) /\ SameKey(r[i], new[x])
    BY <1>3, <1>4, <2>6, SameRecordKey, KeyRelation
  <2>8. new[x].id = r[i].id
    BY <2>7 DEF Content, Kept
  <2>9. ASSUME r[i] \in Range(new) PROVE new[x] = r[i]
    <3>1. PICK y \in DOMAIN new : new[y] = r[i]
      BY <2>9 DEF Range
    <3>2. y = x
      BY <1>0, <2>7, <3>1 DEF Keyed
    <3>3. QED BY <3>1, <3>2
  <2>10. QED BY <2>3, <2>4, <2>6, <2>7, <2>8, <2>9 DEF m
<1>5. \A i \in S : \E q \in T : <<i, q>> \in R
  <2> TAKE i \in S
  <2>1. i \in DOMAIN r /\ FindKey(new, r[i]) # {} /\ r[i] \notin Range(new)
    BY DEF OtherOf
  <2>2. ~Stays(r, b, mode, i)
    BY <2>1 DEF Content, Range
  <2>3. ~Removes(b, mode, r[i])
    BY <2>1, GoneRemoved DEF RemovedOf
  <2>4. PICK q \in DOMAIN b : SameKey(b[q], r[i]) /\ Usable(b[q])
    BY <2>2, <2>3 DEF Stays, InBackup
  <2>5. q \in UsableOf(b)
    BY <2>4 DEF UsableOf
  <2>6. /\ Min(FindKey(r, b[q])) = i /\ q \in FoundOf(r, b)
        /\ \E x \in DOMAIN new : /\ SameRecord(new[x], b[q]) /\ SameKey(new[x], r[i])
                                 /\ new[x].id = r[i].id
    BY <1>4, <2>1, <2>4, <2>5
  <2>7. ~SameRecord(r[i], b[q])
    <3> SUFFICES ASSUME SameRecord(r[i], b[q]) PROVE FALSE
      OBVIOUS
    <3>1. PICK x \in DOMAIN new : SameRecord(new[x], b[q]) /\ new[x].id = r[i].id
      BY <2>6
    <3>2. new[x] \in Stored /\ r[i] \in Stored
      BY <1>0, <2>1, ArrayFacts
    <3>3. new[x] = r[i]
      BY <3>1, <3>2, SameFields
    <3>4. QED BY <2>1, <3>3 DEF Range
  <2>8. q \in T
    BY <2>6, <2>7 DEF ChangedOf, SameOf
  <2> HIDE DEF S, T
  <2>9. <<i, q>> \in R
    BY <2>4, <2>8
  <2>10. QED BY <2>8, <2>9
<1>6. \A q \in T : \E i \in S : <<i, q>> \in R
  <2> TAKE q \in T
  <2>1. q \in UsableOf(b) /\ FindKey(r, b[q]) # {} /\ q \in FoundOf(r, b) /\ q \notin SameOf(r, b)
    BY DEF ChangedOf, FoundOf
  <2>2. PICK i \in DOMAIN r : SameKey(b[q], r[i])
    BY <2>1, KeyRelation DEF FindKey
  <2>3. PICK x \in DOMAIN new : /\ SameRecord(new[x], b[q]) /\ SameKey(new[x], r[i])
                                /\ (r[i] \in Range(new) => new[x] = r[i])
    BY <1>4, <2>1, <2>2
  <2>4. ~SameRecord(r[i], b[q])
    BY <1>4, <2>1, <2>2 DEF SameOf
  <2>5. i \in S
    BY <2>3, <2>4 DEF OtherOf, FindKey
  <2> HIDE DEF S, T
  <2>6. <<i, q>> \in R
    BY <2>2, <2>5
  <2>7. QED BY <2>5, <2>6
<1>7. \A i, j \in S, p, q \in T : <<i, p>> \in R /\ <<j, q>> \in R => (i = j <=> p = q)
  <2> SUFFICES ASSUME NEW i \in S, NEW j \in S, NEW p \in T, NEW q \in T,
                      <<i, p>> \in R, <<j, q>> \in R
               PROVE  i = j <=> p = q
    <3> HIDE DEF S, T, R
    <3> QED OBVIOUS
  <2>1. SameKey(b[p], r[i]) /\ SameKey(b[q], r[j])
    <3> HIDE DEF S, T
    <3> QED OBVIOUS
  <2>2. i \in DOMAIN r /\ j \in DOMAIN r /\ p \in DOMAIN b /\ q \in DOMAIN b
    BY DEF OtherOf, ChangedOf, FoundOf, UsableOf
  <2>3. i = j => p = q
    BY <2>1, <2>2, KeyRelation DEF Distinct
  <2>4. p = q => i = j
    BY <2>1, <2>2, KeyRelation DEF Keyed
  <2>5. QED BY <2>3, <2>4
<1> HIDE DEF S, T, R
<1>8. Cardinality(S) = Cardinality(T)
  BY <1>2, <1>5, <1>6, <1>7, Pairing
<1>9. QED BY <1>2, <1>8 DEF S, T

\* An array with that content has as many accounts changed, removed, kept and
\* added as the summary said.
LEMMA ContentTold ==
  ASSUME NEW r, Keyed(r), NEW b, IsBackup(b), Distinct(b), NEW mode \in Modes, NEW new,
         Content(r, b, mode, new)
  PROVE  Told(r, b, mode, new)
<1> DEFINE sum == Preview(r, b, mode)
           n == Cardinality(NewOf(r, b))
           room == Room(r, b, mode)
           removed == Cardinality(RemovedOf(r, b, mode))
           left == Left(r, b, mode)
           found == FoundOf(r, b)
           missing == {i \in Wanted(b) : ~Holds(new, b[i])}
           added == NewOf(r, b) \ missing
<1>0. r \in Arrays /\ Keyed(new) /\ new \in Arrays
  BY DEF Keyed, Content
<1>1. /\ IsFiniteSet(UsableOf(b)) /\ IsFiniteSet(found) /\ IsFiniteSet(NewOf(r, b))
      /\ IsFiniteSet(RemovedOf(r, b, mode)) /\ IsFiniteSet(DOMAIN r)
      /\ Cardinality(DOMAIN r) = Len(r)
      /\ n \in Nat /\ room \in Nat
      /\ sum.removed = removed /\ removed \in Nat
      /\ sum.changed = Cardinality(ChangedOf(r, b)) /\ sum.changed \in Nat
      /\ sum.unchanged \in Nat
      /\ sum.added = (IF n <= room THEN n ELSE room)
      /\ sum.full = (IF n <= room THEN 0 ELSE n - room)
      /\ sum.total = Len(b) /\ sum.total \in Nat
      /\ sum.invalid = Len(b) - Cardinality(UsableOf(b))
      /\ Cardinality(UsableOf(b)) = n + sum.changed + sum.unchanged
  BY <1>0, SummaryFacts
<1>2. /\ missing \cap {i \in Wanted(b) : FindKey(r, b[i]) # {}} = {}
      /\ missing # {} => Len(new) = MaxAccounts
      /\ Len(new) = Cardinality(left) + Cardinality(Wanted(b) \ missing)
  <2>1. Promised(r, b, mode, new)
    BY ContentPromised
  <2>2. Promised(r, b, mode, new) <=>
          /\ \A i \in left : r[i] \in Range(new)
          /\ missing \cap {i \in Wanted(b) : FindKey(r, b[i]) # {}} = {}
          /\ missing # {} => Len(new) = MaxAccounts
          /\ Len(new) = Cardinality(left) + Cardinality(Wanted(b) \ missing)
    BY DEF Promised, Left
  <2>3. QED BY <2>1, <2>2
<1>3. Wanted(b) = UsableOf(b)
  BY DistinctWanted
<1>4. \A i \in DOMAIN r : i \in left <=> Stays(r, b, mode, i)
  BY LeftStays
<1>5. Len(r) = removed + Cardinality(left) + Cardinality(found) /\ Cardinality(left) \in Nat
      /\ Cardinality(found) \in Nat
  <2> DEFINE C == CoveredOf(r, b)
             G == RemovedOf(r, b, mode)
             D == DOMAIN r
             H == left \cup C
  <2>1. C \subseteq D /\ left \subseteq D /\ G \subseteq D
    BY DEF CoveredOf, Left, RemovedOf
  <2>2. \A i \in D : /\ i \in C <=> InBackup(b, r[i])
                     /\ i \in G <=> Removes(b, mode, r[i])
                     /\ Removes(b, mode, r[i]) => ~InBackup(b, r[i])
    BY DEF CoveredOf, RemovedOf, Removes
  <2> HIDE DEF C, G, left
  <2>3. D = G \cup H /\ G \cap H = {} /\ left \cap C = {}
    BY <1>4, <2>1, <2>2 DEF Stays
  <2> HIDE DEF D, H
  <2>4. IsFiniteSet(D)
    BY <1>1 DEF D
  <2>5. IsFiniteSet(H) /\ Cardinality(D) = Cardinality(G) + Cardinality(H)
    BY <2>3, <2>4, TwoParts
  <2>6. H = left \cup C /\ left \cap C = {} /\ IsFiniteSet(H)
    BY <2>3, <2>5 DEF H
  <2>7. /\ Cardinality(H) = Cardinality(left) + Cardinality(C)
        /\ Cardinality(left) \in Nat /\ Cardinality(C) \in Nat
    BY <2>6, TwoParts, SMTT(60)
  <2>8. Cardinality(C) = Cardinality(found)
    BY CoveredFound DEF C
  <2>9. Cardinality(D) = Len(r) /\ Cardinality(G) = removed /\ removed \in Nat
    BY <1>1 DEF D, G
  <2> DEFINE l == Len(r)
             cl == Cardinality(left)
             cc == Cardinality(found)
             ch == Cardinality(H)
  <2>10. l = removed + ch /\ ch = cl + cc /\ cl \in Nat /\ cc \in Nat /\ removed \in Nat
    BY <2>5, <2>7, <2>8, <2>9
  <2> HIDE DEF l, cl, cc, ch, removed, found
  <2>11. l = removed + cl + cc
    BY <2>10
  <2>12. QED BY <2>10, <2>11 DEF l, cl, cc
<1>6. /\ Cardinality(Wanted(b) \ missing) = Cardinality(found) + Cardinality(added)
      /\ Cardinality(added) \in Nat
  <2> DEFINE U == Wanted(b) \ missing
             NN == NewOf(r, b)
  <2>1. found \subseteq UsableOf(b) /\ NN = UsableOf(b) \ found
        /\ found = {i \in UsableOf(b) : FindKey(r, b[i]) # {}}
    BY DEF FoundOf, NewOf
  <2>2. missing \cap found = {} /\ missing \subseteq UsableOf(b)
    BY <1>2, <1>3, <2>1
  <2> HIDE DEF found, missing, NN
  <2>3. U = found \cup (NN \ missing) /\ found \cap (NN \ missing) = {}
    BY <1>3, <2>1, <2>2
  <2>4. IsFiniteSet(U)
    BY <1>1, <1>3, FS_Subset
  <2> DEFINE V == NN \ missing
  <2>5. U = found \cup V /\ found \cap V = {} /\ IsFiniteSet(U)
    BY <2>3, <2>4
  <2> HIDE DEF U, V
  <2>6. Cardinality(U) = Cardinality(found) + Cardinality(V) /\ Cardinality(V) \in Nat
    <3>1. /\ IsFiniteSet(found) /\ IsFiniteSet(V) /\ Cardinality(found) \in Nat /\ Cardinality(V) \in Nat
          /\ Cardinality(U) \in Nat /\ Cardinality(U) = Cardinality(found) + Cardinality(V)
      BY <2>5, TwoParts
    <3>2. QED BY <3>1
  <2>7. QED BY <2>6 DEF U, V, NN
<1>7. /\ missing = {} => Cardinality(added) = n
      /\ missing # {} => Cardinality(added) < n
  <2>1. missing \subseteq NewOf(r, b)
    BY <1>2, <1>3 DEF NewOf, FoundOf
  <2>2. missing = {} => added = NewOf(r, b)
    OBVIOUS
  <2>3. added \in SUBSET NewOf(r, b) /\ (missing # {} => added # NewOf(r, b))
    BY <2>1
  <2> DEFINE NN == NewOf(r, b)
  <2>4. IsFiniteSet(NN) /\ added \in SUBSET NN
    BY <1>1, <2>3
  <2> DEFINE V == added
  <2>5. V \in SUBSET NN /\ (missing = {} => V = NN) /\ (missing # {} => V # NN)
    BY <2>2, <2>3
  <2> HIDE DEF V, NN, missing
  <2>6. Cardinality(V) <= Cardinality(NN) /\ (Cardinality(NN) = Cardinality(V) => NN = V)
        /\ IsFiniteSet(V)
    BY <2>4, <2>5, FS_Subset
  <2>7. Cardinality(V) \in Nat /\ Cardinality(NN) \in Nat
    BY <2>4, <2>6, FS_CardinalityType
  <2>8. /\ missing = {} => Cardinality(V) = Cardinality(NN)
        /\ missing # {} => Cardinality(V) < Cardinality(NN)
    BY <2>5, <2>6, <2>7
  <2>9. QED BY <2>8 DEF V, NN
<1>8. Len(new) = Len(r) + sum.added - sum.removed
  <2> DEFINE ln == Len(new)
             lr == Len(r)
             cl == Cardinality(left)
             cf == Cardinality(found)
             ca == Cardinality(added)
             some == missing # {}
             sa == sum.added
             sr == sum.removed
  <2>0. room = MaxAccounts - lr + removed
    BY DEF Room
  <2>1. /\ ln = cl + cf + ca /\ lr = removed + cl + cf /\ cl \in Nat /\ cf \in Nat /\ ca \in Nat
        /\ removed \in Nat /\ n \in Nat /\ room \in Nat /\ MaxAccounts \in Nat
        /\ some => ln = MaxAccounts /\ ca < n
        /\ ~some => ca = n
        /\ sa = (IF n <= room THEN n ELSE room) /\ sr = removed
    <3>1. ln = cl + Cardinality(Wanted(b) \ missing) /\ Cardinality(Wanted(b) \ missing) = cf + ca
      BY <1>2, <1>6
    <3>2. cl \in Nat /\ cf \in Nat /\ ca \in Nat
      BY <1>5, <1>6
    <3>3. ln = cl + cf + ca
      <4> DEFINE w == Cardinality(Wanted(b) \ missing)
      <4>1. ln = cl + w /\ w = cf + ca
        BY <3>1
      <4> HIDE DEF w, ln, cl, cf, ca
      <4>2. QED BY <3>2, <4>1
    <3>4. QED BY <1>1, <1>2, <1>5, <1>7, <3>2, <3>3, Consts
  <2>2. ln <= MaxAccounts
    BY <1>0, ArrayFacts, Consts
  <2> HIDE DEF ln, lr, cl, cf, ca, some, sa, sr, n, room, removed
  <2>3. ln = lr + sa - sr
    <3>1. CASE some
      <4>1. ca = room
        BY <2>0, <2>1, <3>1
      <4>2. sa = room
        BY <2>1, <3>1, <4>1
      <4>3. QED BY <2>1, <4>1, <4>2
    <3>2. CASE ~some
      <4>1. n <= room
        BY <2>0, <2>1, <2>2, <3>2
      <4>2. QED BY <2>1, <3>2, <4>1
    <3>3. QED BY <3>1, <3>2
  <2>4. QED BY <2>3 DEF ln, lr, sa, sr
<1>9. sum.total = sum.invalid + sum.added + sum.full + sum.changed + sum.unchanged
  <2> DEFINE t == sum.total
             i == sum.invalid
             a == sum.added
             f == sum.full
             c == sum.changed
             u == sum.unchanged
             all == Cardinality(UsableOf(b))
  <2>1. /\ t \in Nat /\ i = t - all /\ all = n + c + u /\ c \in Nat /\ u \in Nat /\ n \in Nat /\ room \in Nat
        /\ a = (IF n <= room THEN n ELSE room) /\ f = (IF n <= room THEN 0 ELSE n - room)
    BY <1>1
  <2> HIDE DEF t, i, a, f, c, u, all, n, room
  <2>2. t = i + a + f + c + u
    BY <2>1
  <2>3. QED BY <2>2 DEF t, i, a, f, c, u
<1>10. Cardinality({i \in DOMAIN r : FindKey(new, r[i]) = {}}) = sum.removed
  BY <1>1, GoneRemoved, ZenonT(60)
<1>11. {i \in DOMAIN r \ {j \in DOMAIN r : FindKey(new, r[j]) = {}} : r[i] \notin Range(new)}
         = OtherOf(r, new)
  BY DEF OtherOf
<1>12. Cardinality(OtherOf(r, new)) = sum.changed
  BY <1>1, OtherChanged
<1>13. QED BY <1>8, <1>9, <1>10, <1>11, <1>12 DEF Told

-----------------------------------------------------------------------------
(***************************************************************************)
(* Every action keeps the invariant.                                       *)
(***************************************************************************)
\* What a good array is, record by record.
LEMMA GoodFacts ==
  ASSUME NEW r, Good(r)
  PROVE  /\ Keyed(r) /\ Numbered(r) /\ r \in Arrays
         /\ \A i \in DOMAIN r : r[i].id \in 1..MaxId /\ r[i].id <= MaxId /\ r[i].id # 0 /\ r[i] \in Stored
BY ArrayFacts, Consts DEF Good, Keyed, Numbered

\* The invariant, applied to the active profile.
LEMMA InvFacts ==
  ASSUME IInv
  PROVE  /\ Good(recs) /\ recs \in Arrays /\ Remembered(Active) /\ IsActive(recs, Active)
         /\ s_profile \in Profiles /\ hash \in HashOf
         /\ Active[1] = s_profile /\ Active[2] = hash
BY GoodFacts, ActiveSplit DEF IInv, Remembered, Active

\* The records are wiped from RAM and the default profile is active
\* (wipe_records).
LEMMA AfterWipe ==
  ASSUME IInv, recs' = <<>>, s_profile' = Default, UNCHANGED hash
  PROVE  Good(recs') /\ IsActive(recs', Active') /\ Kept(recs, recs')
<1>1. Active' = <<Default, hash>>
  BY DEF Active
<1>2. IsActive(<<>>, <<Default, hash>>)
  BY InvFacts, Consts DEF IsActive, Canon
<1>3. Kept(recs, <<>>)
  BY EmptySeq DEF Kept
<1>4. QED BY <1>1, <1>2, <1>3, EmptyGood

\* A change that is saved keeps the invariant.
LEMMA SavedInv ==
  ASSUME IInv, NEW new, Good(new), Kept(recs, new), NEW active, IsActive(new, active),
         Saved(new, active)
  PROVE  IInv' /\ Kept(recs, recs')
<1>1. Active' = active
  BY DEF Saved, SetActive, Active, IsActive
<1>2. /\ recs' = new /\ stored' = new /\ copies' = {new} /\ emptied' = FALSE /\ state' = state
  BY DEF Saved
<1>3. IsActive(recs', Active')
  BY <1>1, <1>2
<1>4. QED BY <1>2, <1>3 DEF IInv, RamMatchesStore

\* A change whose save fails is undone and keeps the invariant.
LEMMA SaveFailsInv ==
  ASSUME IInv, NEW new, Good(new), NEW active, IsActive(recs, active), SaveFails(new, recs, active)
  PROVE  IInv' /\ Kept(recs, recs')
<1>1. Active' = active
  BY DEF SaveFails, SetActive, Active, IsActive
<1>2. /\ recs' = recs /\ copies' = copies \cup {new} /\ UNCHANGED <<state, stored, emptied>>
  BY DEF SaveFails
<1>3. IsActive(recs', Active')
  BY <1>1, <1>2
<1>4. Kept(recs, recs')
  BY <1>2, InvFacts, GoodFacts, GrowsRelation, GrowsKept
<1>5. QED BY <1>2, <1>3, <1>4 DEF IInv, RamMatchesStore

\* A change cut short by a power loss keeps the invariant.
LEMMA PowerFailsInv ==
  ASSUME IInv, NEW new, Good(new), PowerFails(new)
  PROVE  IInv' /\ Kept(recs, recs')
<1>1. Good(recs') /\ IsActive(recs', Active') /\ Kept(recs, recs')
  BY AfterWipe DEF PowerFails, Wiped
<1>2. /\ copies' \subseteq copies \cup {new} /\ state' = "LOCKED" /\ stored' = <<>> /\ emptied' = FALSE
  BY DEF PowerFails, Wiped
<1>3. Good(stored')
  BY <1>2, EmptyGood
<1>4. QED BY <1>1, <1>2, <1>3 DEF IInv, RamMatchesStore

\* A change keeps the invariant, whether it is saved, undone or cut short.
LEMMA ChangeInv ==
  ASSUME IInv, NEW new, Good(new), Kept(recs, new),
         NEW undone, undone = recs,
         NEW active, IsActive(new, active),
         NEW activeIfFailed, IsActive(recs, activeIfFailed),
         Change(new, undone, active, activeIfFailed)
  PROVE  IInv' /\ Kept(recs, recs')
<1>1. SaveFails(new, recs, activeIfFailed) <=> SaveFails(new, undone, activeIfFailed)
  OBVIOUS
<1>2. QED BY <1>1, SavedInv, SaveFailsInv, PowerFailsInv DEF Change

\* A new account with the next identifier makes a good array.
LEMMA AppendGood ==
  ASSUME NEW r, Good(r), NEW a, IsInput(a), Acceptable(a), Len(r) < MaxAccounts,
         \A i \in DOMAIN r : ~SameKey(r[i], a),
         \A i \in DOMAIN Append(r, Record(a, NextId(r))) : Append(r, Record(a, NextId(r)))[i].id <= MaxId
  PROVE  /\ Good(Append(r, Record(a, NextId(r)))) /\ Grows(r, Append(r, Record(a, NextId(r))))
         /\ Record(a, NextId(r)) \in Stored
<1> DEFINE x == Record(a, NextId(r))
           s == Append(r, x)
<1>1. r \in Arrays /\ Keyed(r) /\ Numbered(r) /\ \A i \in DOMAIN r : r[i].id <= MaxId
  BY GoodFacts
<1>2. /\ NextId(r) \in 0..IdMod - 1 /\ NextId(r) \in 1..MaxId + 1
      /\ \A i \in DOMAIN r : r[i].id < NextId(r)
  BY <1>1, NextIdFacts
<1>3. x \in Stored /\ x.id = NextId(r) /\ SameKey(x, a)
  BY <1>2, RecordStored
<1> HIDE DEF x
<1>4. Keyed(s)
  <2>1. \A i \in DOMAIN r : ~SameKey(r[i], x)
    BY <1>3, KeyRelation
  <2>2. QED BY <1>1, <1>3, <2>1, KeyedAppend
<1>5. /\ Len(r) \in Nat /\ Len(s) = Len(r) + 1 /\ DOMAIN r = 1..Len(r) /\ DOMAIN s = 1..Len(r) + 1
      /\ \A i \in DOMAIN r : s[i] = r[i]
      /\ s[Len(r) + 1] = x
  BY <1>1, <1>3, ArrayFacts, AppendFacts
<1>6. x.id \in 1..MaxId
  <2>1. Len(r) + 1 \in DOMAIN s
    BY <1>5
  <2>2. x.id <= MaxId
    BY <1>5, <2>1 DEF x
  <2>3. QED BY <1>2, <1>3, <2>2, Consts
<1>7. \A i \in DOMAIN r : r[i].id # x.id
  BY <1>1, <1>2, <1>3, GoodFacts, Consts
<1>8. Numbered(s)
  BY <1>1, <1>3, <1>6, <1>7, NumberedAppend
<1>9. Grows(r, s)
  <2>1. Len(r) <= Len(s)
    BY <1>5
  <2>2. QED BY <1>5, <2>1, KeyRelation DEF Grows
<1>10. QED BY <1>3, <1>4, <1>8, <1>9 DEF Good, x

\* accounts_add keeps the invariant.
LEMMA AddInv ==
  ASSUME IInv, NEW a \in Inputs, Add(a)
  PROVE  IInv' /\ Kept(recs, recs')
<1> DEFINE x == Record(a, NextId(recs))
           new == Append(recs, x)
<1>1. /\ Valid(recs, a, 0) /\ Len(recs) < MaxAccounts
      /\ Change(new, Front(new), Select(Active, a.profile), Active)
  BY DEF Add
<1>2. Good(recs) /\ recs \in Arrays /\ Remembered(Active) /\ IsActive(recs, Active)
      /\ \A i \in DOMAIN recs : recs[i].id # 0
  BY InvFacts, GoodFacts
<1>3. IsInput(a) /\ Acceptable(a) /\ a.profile \in Profiles /\ \A i \in DOMAIN recs : ~SameKey(recs[i], a)
  BY <1>1, <1>2, AccountsAssumption DEF Valid, IsInput
<1>4. \A i \in DOMAIN new : new[i].id <= MaxId
  BY <1>1 DEF Change
<1>5. Good(new) /\ Grows(recs, new) /\ x \in Stored
  BY <1>1, <1>2, <1>3, <1>4, AppendGood
<1>6. ProfileEq(x.profile, a.profile)
  BY <1>2, <1>3, NextIdFacts, RecordStored
<1> HIDE DEF x
<1>7. Front(new) = recs
  BY <1>2, <1>5, ArrayFacts, FrontOfAppend
<1>8. Len(recs) + 1 \in DOMAIN new /\ new[Len(recs) + 1] = x /\ new \in Arrays
  <2>1. /\ Len(recs) \in Nat /\ DOMAIN new = 1..Len(recs) + 1 /\ new[Len(recs) + 1] = x
    BY <1>2, <1>5, ArrayFacts, AppendFacts
  <2>2. Len(recs) + 1 \in DOMAIN new
    BY <2>1
  <2>3. QED BY <1>5, <2>1, <2>2, GoodFacts
<1> HIDE DEF new
<1>9. Used(new, a.profile) /\ new # <<>>
  BY <1>6, <1>8, NonEmpty DEF Used
<1>10. IsActive(new, Select(Active, a.profile))
  BY <1>2, <1>3, <1>9, SelectActive
<1>11. Kept(recs, new)
  BY <1>2, <1>5, GoodFacts, GrowsKept
<1>12. QED BY <1>1, <1>2, <1>5, <1>7, <1>10, <1>11, ChangeInv

\* accounts_update keeps the invariant.
LEMMA UpdateInv ==
  ASSUME IInv, NEW a \in Inputs, NEW id \in 1..MaxId, Update(id, a)
  PROVE  IInv' /\ Kept(recs, recs')
<1> DEFINE x == Record(a, id)
<1>1. PICK i \in Find(id) : Change([recs EXCEPT ![i] = x], [[recs EXCEPT ![i] = x] EXCEPT ![i] = recs[i]],
                                   Select(Active, a.profile), Active)
  BY DEF Update
<1>2. Valid(recs, a, id) /\ i \in DOMAIN recs /\ recs[i].id = id
  BY DEF Update, Find
<1>3. Good(recs) /\ recs \in Arrays /\ Remembered(Active) /\ IsActive(recs, Active)
      /\ Keyed(recs) /\ Numbered(recs)
  BY InvFacts, GoodFacts
<1>4. IsInput(a) /\ Acceptable(a) /\ a.profile \in Profiles
      /\ \A j \in DOMAIN recs : j # i => ~SameKey(recs[j], a)
  BY <1>2, <1>3, AccountsAssumption DEF Valid, IsInput, Numbered
<1>5. id \in 0..IdMod - 1
  BY <1>2, <1>3, ArrayFacts, StoredFacts
<1>6. x \in Stored /\ x.id = id /\ SameKey(x, a) /\ ProfileEq(x.profile, a.profile)
  BY <1>4, <1>5, RecordStored
<1> HIDE DEF x
<1> DEFINE new == [recs EXCEPT ![i] = x]
<1>7. /\ new \in Arrays /\ DOMAIN new = DOMAIN recs
      /\ \A j \in DOMAIN recs : new[j] = IF j = i THEN x ELSE recs[j]
  BY <1>2, <1>3, <1>6, ReplaceFacts
<1>8. [new EXCEPT ![i] = recs[i]] = recs
  BY <1>2, <1>3, ArrayFacts, LenProperties
<1>9. Good(new)
  <2>1. \A j \in DOMAIN recs : j # i => ~SameKey(recs[j], x)
    BY <1>4, <1>6, KeyRelation
  <2>2. Keyed(new)
    BY <1>2, <1>3, <1>6, <2>1, KeyedReplace
  <2>3. Numbered(new)
    BY <1>2, <1>3, <1>6, NumberedReplace
  <2>4. QED BY <2>2, <2>3 DEF Good
<1>10. Change(new, [new EXCEPT ![i] = recs[i]], Select(Active, a.profile), Active)
  BY <1>1
<1> HIDE DEF new
<1>11. Used(new, a.profile) /\ new # <<>>
  BY <1>2, <1>6, <1>7, NonEmpty DEF Used
<1>12. IsActive(new, Select(Active, a.profile))
  BY <1>3, <1>4, <1>11, SelectActive
<1>13. Kept(recs, new)
  <2> SUFFICES ASSUME NEW k \in DOMAIN recs, NEW j \in DOMAIN new, SameKey(recs[k], new[j])
               PROVE  recs[k].id = new[j].id
    BY DEF Kept
  <2>1. CASE j = i
    <3>1. SameKey(recs[k], a)
      BY <1>2, <1>6, <1>7, <2>1, KeyRelation
    <3>2. k = i
      BY <1>4, <3>1
    <3>3. QED BY <1>2, <1>6, <1>7, <2>1, <3>2
  <2>2. CASE j # i
    <3>1. j = k
      BY <1>3, <1>7, <2>2 DEF Keyed
    <3>2. QED BY <1>7, <2>2, <3>1
  <2>3. QED BY <2>1, <2>2
<1>14. QED BY <1>3, <1>8, <1>9, <1>10, <1>12, <1>13, ChangeInv

\* accounts_rcv_mark_used keeps the invariant.
LEMMA MarkUsedInv ==
  ASSUME IInv, NEW id \in 1..MaxId, MarkUsed(id)
  PROVE  IInv' /\ Kept(recs, recs')
<1>0. PICK i \in Find(id) : \E code \in 1..Codes[recs[i].data] :
        Change([recs EXCEPT ![i].used = @ \cup {code}],
               [[recs EXCEPT ![i].used = @ \cup {code}] EXCEPT ![i].used = recs[i].used], Active, Active)
  BY DEF MarkUsed
<1>1. PICK code \in 1..Codes[recs[i].data] :
        Change([recs EXCEPT ![i].used = @ \cup {code}],
               [[recs EXCEPT ![i].used = @ \cup {code}] EXCEPT ![i].used = recs[i].used], Active, Active)
  BY <1>0
<1>2. i \in DOMAIN recs
  BY DEF Find
<1>3. Good(recs) /\ recs \in Arrays /\ IsActive(recs, Active) /\ Keyed(recs) /\ Numbered(recs)
  BY InvFacts, GoodFacts
<1> DEFINE x == [recs[i] EXCEPT !.used = @ \cup {code}]
           new == [recs EXCEPT ![i] = x]
<1>4. recs[i] \in Stored
  BY <1>2, <1>3, ArrayFacts
<1>5. /\ recs[i] \in Rec /\ recs[i].used \subseteq 1..Codes[recs[i].data] /\ recs[i].data \in Data
      /\ Acceptable(recs[i]) /\ recs[i].profile = Canon(recs[i].profile)
  BY <1>4, StoredFacts
<1>6. /\ x \in Rec /\ x.id = recs[i].id /\ x.profile = recs[i].profile /\ x.name = recs[i].name
      /\ x.data = recs[i].data /\ x.used = recs[i].used \cup {code}
  <2>1. code \in Nat
    BY <1>5, Consts
  <2>2. QED BY <1>5, <2>1 DEF Rec
<1> HIDE DEF x
<1>7. x \in Stored /\ SameKey(x, recs[i])
  BY <1>5, <1>6 DEF Stored, Storable, Acceptable, SameKey, ProfileEq
<1>8. /\ new \in Arrays /\ DOMAIN new = DOMAIN recs /\ Len(new) = Len(recs)
      /\ \A j \in DOMAIN recs : new[j] = IF j = i THEN x ELSE recs[j]
  BY <1>2, <1>3, <1>7, ReplaceFacts
<1>9. [recs EXCEPT ![i].used = @ \cup {code}] = new
  BY DEF x
<1>10. [new EXCEPT ![i].used = recs[i].used] = recs
  <2>1. [x EXCEPT !.used = recs[i].used] = recs[i]
    BY <1>5 DEF x, Rec
  <2>2. \A j \in DOMAIN recs : [new EXCEPT ![i].used = recs[i].used][j] = recs[j]
    BY <1>2, <1>8, <2>1
  <2>3. recs = [j \in DOMAIN recs |-> recs[j]]
    BY <1>3, ArrayFacts, LenProperties
  <2>4. [new EXCEPT ![i].used = recs[i].used] = [j \in DOMAIN recs |-> [new EXCEPT ![i].used = recs[i].used][j]]
    BY <1>8
  <2>5. QED BY <2>2, <2>3, <2>4
<1>11. Change(new, [new EXCEPT ![i].used = recs[i].used], Active, Active)
  BY <1>1, <1>9
<1>12. Good(new)
  <2>1. \A j \in DOMAIN recs : j # i => ~SameKey(recs[j], x)
    BY <1>2, <1>3, <1>7, KeyRelation DEF Keyed
  <2>2. Keyed(new)
    BY <1>2, <1>3, <1>7, <2>1, KeyedReplace
  <2>3. Numbered(new)
    BY <1>2, <1>3, <1>6, <1>7, NumberedReplace
  <2>4. QED BY <2>2, <2>3 DEF Good
<1> HIDE DEF new
<1>13. \A j \in DOMAIN recs : SameKey(new[j], recs[j]) /\ new[j].id = recs[j].id
                              /\ ProfileEq(new[j].profile, recs[j].profile)
  BY <1>6, <1>7, <1>8, KeyRelation DEF SameKey
<1>14. IsActive(new, Active)
  <2>1. new # <<>> /\ recs # <<>>
    BY <1>2, <1>3, <1>8, NonEmpty
  <2>2. \A p : Used(recs, p) => Used(new, p)
    BY <1>8, <1>13 DEF Used, ProfileEq
  <2>3. QED BY <1>3, <2>1, <2>2 DEF IsActive
<1>15. Grows(recs, new)
  BY <1>3, <1>8, <1>13, ArrayFacts DEF Grows
<1>16. Kept(recs, new)
  BY <1>3, <1>12, <1>15, GoodFacts, GrowsKept
<1>17. QED BY <1>3, <1>10, <1>11, <1>12, <1>14, <1>16, ChangeInv

\* accounts_remove keeps the invariant.
LEMMA RemoveIdInv ==
  ASSUME IInv, NEW id \in 1..MaxId, RemoveId(id)
  PROVE  IInv' /\ Kept(recs, recs')
<1>1. PICK i \in Find(id) :
        Change(RemoveAt(recs, i), InsertAt(RemoveAt(recs, i), i, recs[i]), Check(RemoveAt(recs, i), Active), Active)
  BY DEF RemoveId
<1>2. i \in DOMAIN recs
  BY DEF Find
<1>3. Good(recs) /\ recs \in Arrays /\ Remembered(Active) /\ IsActive(recs, Active)
      /\ Keyed(recs) /\ Numbered(recs)
  BY InvFacts, GoodFacts
<1> DEFINE new == RemoveAt(recs, i)
           n == Len(recs)
           at == [j \in 1..n - 1 |-> IF j < i THEN j ELSE j + 1]
<1>4. /\ new \in Arrays /\ DOMAIN new = 1..n - 1
      /\ \A j \in 1..n - 1 : new[j] = IF j < i THEN recs[j] ELSE recs[j + 1]
      /\ InsertAt(new, i, recs[i]) = recs
  BY <1>2, <1>3, RemoveFacts
<1>5. n \in Nat /\ DOMAIN recs = 1..n
  BY <1>3, ArrayFacts, Consts
<1>6. Change(new, InsertAt(new, i, recs[i]), Check(new, Active), Active)
  BY <1>1
<1> HIDE DEF new, n
<1>7. /\ \A j \in DOMAIN new : at[j] \in DOMAIN recs /\ new[j] = recs[at[j]]
      /\ \A j, k \in DOMAIN new : j # k => at[j] # at[k]
  <2>1. \A j \in 1..n - 1 : j \in Int /\ j + 1 \in 1..n /\ j \in 1..n
    BY <1>5
  <2>2. i \in Int
    BY <1>2, <1>5
  <2>3. \A j \in 1..n - 1 : at[j] = IF j < i THEN j ELSE j + 1
    OBVIOUS
  <2> HIDE DEF at
  <2>4. \A j \in 1..n - 1 : at[j] \in 1..n /\ new[j] = recs[at[j]]
    BY <1>4, <2>1, <2>3
  <2>5. \A j, k \in 1..n - 1 : j # k => at[j] # at[k]
    BY <2>1, <2>2, <2>3
  <2>6. QED BY <1>4, <1>5, <2>4, <2>5
<1> HIDE DEF at
<1>8. Good(new)
  <2>1. Keyed(new)
    BY <1>3, <1>4, <1>7 DEF Keyed
  <2>2. Numbered(new)
    BY <1>3, <1>7 DEF Numbered
  <2>3. QED BY <2>1, <2>2 DEF Good
<1>9. IsActive(new, Check(new, Active))
  BY <1>3, <1>4, CheckActive
<1>10. Kept(recs, new)
  BY <1>3, <1>7, PartKept
<1>11. QED BY <1>3, <1>4, <1>6, <1>8, <1>9, <1>10, ChangeInv

\* accounts_profile_rename keeps the invariant.
LEMMA RenameInv ==
  ASSUME IInv, NEW from \in Profiles, NEW to \in Targets, ProfileRename(from, to)
  PROVE  IInv' /\ Kept(recs, recs')
<1> DEFINE n == Len(recs)
           new == [i \in DOMAIN recs |-> IF ProfileEq(recs[i].profile, from)
                     THEN [recs[i] EXCEPT !.profile = Canon(to)] ELSE recs[i]]
           undone == [i \in DOMAIN new |-> [new[i] EXCEPT !.profile = recs[i].profile]]
           active == IF ProfileEq(s_profile, from) THEN Select(Active, to) ELSE Active
<1>1. Used(recs, from) /\ ~Clash(from, to) /\ Change(new, undone, active, Active)
  BY DEF ProfileRename
<1>2. Good(recs) /\ recs \in Arrays /\ Remembered(Active) /\ IsActive(recs, Active)
      /\ Keyed(recs) /\ Numbered(recs) /\ Active[1] = s_profile
  BY InvFacts, GoodFacts
<1>3. /\ recs \in [1..n -> Stored] /\ n \in Nat /\ n <= MaxAccounts /\ DOMAIN recs = 1..n
      /\ \A i \in DOMAIN recs : recs[i] \in Stored
  BY <1>2, ArrayFacts, LenProperties, Consts DEF Arrays
<1>4. to \in Profiles /\ Canon(to) \in Profiles /\ Canon(Canon(to)) = Canon(to) /\ ProfileEq(Canon(to), to)
  BY Consts, CanonFacts DEF ProfileEq
<1>5. ASSUME NEW i \in DOMAIN recs
      PROVE  /\ new[i] \in Stored /\ new[i].id = recs[i].id /\ new[i].name = recs[i].name
             /\ [new[i] EXCEPT !.profile = recs[i].profile] = recs[i]
             /\ ProfileEq(recs[i].profile, from) => ProfileEq(new[i].profile, to)
             /\ ~ProfileEq(recs[i].profile, from) => new[i] = recs[i]
  <2>1. recs[i] \in Stored /\ recs[i] \in Rec
    BY <1>3, StoredFacts
  <2>2. CASE ~ProfileEq(recs[i].profile, from)
    <3>1. new[i] = recs[i]
      BY <2>2
    <3>2. [recs[i] EXCEPT !.profile = recs[i].profile] = recs[i]
      BY <2>1 DEF Rec
    <3>3. QED BY <2>1, <2>2, <3>1, <3>2
  <2>3. CASE ProfileEq(recs[i].profile, from)
    <3>1. new[i] = [recs[i] EXCEPT !.profile = Canon(to)]
      BY <2>3
    <3> HIDE DEF new
    <3>2. /\ new[i] \in Rec /\ new[i].id = recs[i].id /\ new[i].name = recs[i].name
          /\ new[i].profile = Canon(to) /\ new[i].data = recs[i].data /\ new[i].used = recs[i].used
          /\ [new[i] EXCEPT !.profile = recs[i].profile] = recs[i]
      BY <1>4, <2>1, <3>1 DEF Rec
    <3>3. new[i] \in Stored
      BY <1>4, <2>1, <3>2, StoredFacts DEF Stored, Storable, Acceptable
    <3>4. QED BY <1>4, <2>3, <3>2, <3>3
  <2>4. QED BY <2>2, <2>3
<1>6. DOMAIN new = 1..n
  BY <1>3
<1>7. undone = recs
  <2>1. undone = [i \in 1..n |-> [new[i] EXCEPT !.profile = recs[i].profile]]
    BY <1>6
  <2>2. \A i \in 1..n : [new[i] EXCEPT !.profile = recs[i].profile] = recs[i]
    BY <1>3, <1>5
  <2>3. recs = [i \in 1..n |-> recs[i]]
    BY <1>3
  <2> HIDE DEF undone, new
  <2>4. [i \in 1..n |-> [new[i] EXCEPT !.profile = recs[i].profile]] = [i \in 1..n |-> recs[i]]
    BY <2>2
  <2>5. QED BY <2>1, <2>3, <2>4
<1>8. new \in Arrays
  <2>1. new \in [1..n -> Stored]
    <3>1. \A i \in 1..n : new[i] \in Stored
      BY <1>3, <1>5
    <3>2. new = [i \in 1..n |-> new[i]]
      BY <1>6
    <3> HIDE DEF new
    <3>3. QED BY <3>1, <3>2
  <2> HIDE DEF new, n
  <2>2. new \in Seq(Stored) /\ Len(new) = n
    BY <1>3, <2>1
  <2>3. QED BY <1>3, <2>2 DEF Arrays
<1> HIDE DEF new, undone, active
<1>9. ASSUME NEW i \in DOMAIN recs, NEW j \in DOMAIN recs, SameKey(recs[i], new[j])
      PROVE  i = j
  <2>0. Rank(recs[i].name) = Rank(recs[j].name) /\ ProfileEq(recs[i].profile, new[j].profile)
    BY <1>5, <1>9 DEF SameKey
  <2>1. CASE ~ProfileEq(recs[j].profile, from)
    BY <1>2, <1>5, <1>9, <2>1 DEF Keyed
  <2>2. CASE ProfileEq(recs[j].profile, from)
    <3>1. ProfileEq(recs[i].profile, to)
      BY <1>5, <2>0, <2>2 DEF ProfileEq
    <3>2. CASE ProfileEq(from, to)
      <4>1. SameKey(recs[i], recs[j])
        BY <2>0, <2>2, <3>1, <3>2 DEF SameKey, ProfileEq
      <4>2. QED BY <1>2, <4>1 DEF Keyed
    <3>3. CASE ~ProfileEq(from, to)
      <4>0. recs[j] \in Rec
        BY <1>3, StoredFacts
      <4>1. /\ [recs[j] EXCEPT !.profile = to].profile = to
            /\ [recs[j] EXCEPT !.profile = to].name = recs[j].name
        BY <4>0 DEF Rec
      <4>2. SameKey(recs[i], [recs[j] EXCEPT !.profile = to])
        BY <2>0, <3>1, <4>1 DEF SameKey
      <4>3. Clash(from, to)
        BY <2>2, <3>3, <4>2 DEF Clash
      <4>4. QED BY <1>1, <4>3
    <3>4. QED BY <3>2, <3>3
  <2>3. QED BY <2>1, <2>2
<1>10. ASSUME NEW i \in DOMAIN recs, NEW j \in DOMAIN recs, SameKey(new[i], new[j]) PROVE i = j
  <2>1. CASE ~ProfileEq(recs[i].profile, from)
    BY <1>5, <1>9, <1>10, <2>1
  <2>2. CASE ~ProfileEq(recs[j].profile, from)
    BY <1>5, <1>9, <1>10, <2>2, KeyRelation
  <2>3. CASE ProfileEq(recs[i].profile, from) /\ ProfileEq(recs[j].profile, from)
    <3>1. SameKey(recs[i], recs[j])
      BY <1>5, <1>10, <2>3 DEF SameKey, ProfileEq
    <3>2. QED BY <1>2, <3>1 DEF Keyed
  <2>4. QED BY <2>1, <2>2, <2>3
<1>11. Good(new)
  <2>1. Keyed(new)
    BY <1>3, <1>6, <1>8, <1>10 DEF Keyed
  <2>2. Numbered(new)
    BY <1>2, <1>3, <1>5, <1>6 DEF Numbered
  <2>3. QED BY <2>1, <2>2 DEF Good
<1>12. Kept(recs, new)
  BY <1>3, <1>5, <1>6, <1>9 DEF Kept
<1>13. IsActive(new, active)
  <2>1. PICK i \in DOMAIN recs : ProfileEq(recs[i].profile, from)
    BY <1>1 DEF Used
  <2>2. new # <<>> /\ recs # <<>>
    BY <1>2, <1>3, <1>6, <1>8, <2>1, NonEmpty
  <2>3. CASE ProfileEq(s_profile, from)
    <3>1. Used(new, to)
      BY <1>3, <1>5, <1>6, <2>1 DEF Used
    <3>2. active = Select(Active, to)
      BY <2>3 DEF active
    <3>3. QED BY <1>2, <1>4, <2>2, <3>1, <3>2, SelectActive
  <2>4. CASE ~ProfileEq(s_profile, from)
    <3>1. active = Active
      BY <2>4 DEF active
    <3>2. PICK k \in DOMAIN recs : ProfileEq(recs[k].profile, s_profile)
      BY <1>2, <2>2 DEF IsActive, Used
    <3>3. ~ProfileEq(recs[k].profile, from)
      BY <2>4, <3>2 DEF ProfileEq
    <3>4. Used(new, s_profile)
      BY <1>3, <1>5, <1>6, <3>2, <3>3 DEF Used
    <3>5. QED BY <1>2, <2>2, <3>1, <3>4 DEF IsActive
  <2>5. QED BY <2>3, <2>4
<1>14. QED BY <1>1, <1>2, <1>7, <1>11, <1>12, <1>13, ChangeInv

\* accounts_profile_delete keeps the invariant.
LEMMA DeleteInv ==
  ASSUME IInv, NEW p \in Profiles, ProfileDelete(p)
  PROVE  IInv' /\ Kept(recs, recs')
<1> DEFINE gone == {r \in Range(recs) : ProfileEq(r.profile, p)}
           new == Without(recs, gone)
<1>1. Change(new, recs, Check(new, Active), Active)
  BY DEF ProfileDelete
<1>2. Good(recs) /\ recs \in Arrays /\ Remembered(Active) /\ IsActive(recs, Active)
      /\ Keyed(recs) /\ Numbered(recs)
  BY InvFacts, GoodFacts
<1> HIDE DEF gone
<1>3. Keyed(new) /\ Numbered(new) /\ \A j \in DOMAIN new : \E i \in DOMAIN recs : new[j] = recs[i]
  BY <1>2, WithoutGood
<1> HIDE DEF new
<1>4. Good(new) /\ new \in Arrays
  BY <1>3 DEF Good, Keyed
<1>5. Kept(recs, new)
  BY <1>2, <1>3, PartKept
<1>6. IsActive(new, Check(new, Active))
  BY <1>2, <1>4, CheckActive
<1>7. QED BY <1>1, <1>2, <1>4, <1>5, <1>6, ChangeInv

\* accounts_profile_next keeps the invariant.
LEMMA NextInv ==
  ASSUME IInv, ProfileNext
  PROVE  IInv' /\ Kept(recs, recs')
<1>1. recs # <<>> /\ SetActive(Select(Active, ProfileAfter(recs, s_profile)))
      /\ UNCHANGED <<state, recs, stored, copies, emptied>>
  BY DEF ProfileNext
<1>2. Good(recs) /\ recs \in Arrays /\ Remembered(Active) /\ s_profile \in Profiles
  BY InvFacts
<1>3. ProfileAfter(recs, s_profile) \in Profiles /\ Used(recs, ProfileAfter(recs, s_profile))
  BY <1>1, <1>2, AfterFacts
<1>4. IsActive(recs, Select(Active, ProfileAfter(recs, s_profile)))
  BY <1>1, <1>2, <1>3, SelectActive
<1> DEFINE a == Select(Active, ProfileAfter(recs, s_profile))
<1>5. IsActive(recs, a) /\ SetActive(a)
  BY <1>1, <1>4
<1> HIDE DEF a
<1>6. Active' = a
  BY <1>5 DEF SetActive, Active, IsActive
<1>7. IsActive(recs', Active')
  BY <1>1, <1>5, <1>6
<1>8. Kept(recs, recs')
  BY <1>1, <1>2, GoodFacts, GrowsRelation, GrowsKept
<1>9. QED BY <1>1, <1>7, <1>8 DEF IInv, RamMatchesStore

\* accounts_import keeps the invariant.
LEMMA ImportInv ==
  ASSUME IInv, NEW b \in Backups, NEW mode \in Modes, NEW in \in Readings(b), Import(in, mode)
  PROVE  IInv' /\ Kept(recs, recs')
<1> DEFINE new == AfterImport(recs, in, mode)
<1>1. Writes(recs, in, mode) /\ Change(new, recs, Check(new, Active), Check(recs, Active))
  BY DEF Import
<1>2. Good(recs) /\ recs \in Arrays /\ Remembered(Active) /\ Keyed(recs)
  BY InvFacts, GoodFacts
<1>3. IsBackup(in)
  BY ReadingsAreBackups
<1>4. new = Imported(recs, in, mode)
  BY <1>1 DEF AfterImport
<1>5. \A i \in DOMAIN new : new[i].id <= MaxId
  BY <1>1 DEF Change
<1>6. Good(new)
  BY <1>2, <1>3, <1>4, <1>5, ImportedGood
<1>7. Kept(recs, new)
  BY <1>2, <1>3, AfterImportContent DEF Content
<1> HIDE DEF new
<1>8. IsActive(new, Check(new, Active)) /\ IsActive(recs, Check(recs, Active))
  BY <1>2, <1>6, GoodFacts, CheckActive
<1>9. QED BY <1>1, <1>6, <1>7, <1>8, ChangeInv

\* s is r with accounts of the default profile after it.
Extends(r, s) ==
    /\ Len(r) <= Len(s)
    /\ \A i \in DOMAIN r : s[i] = r[i]
    /\ \A i \in DOMAIN s : i \in DOMAIN r \/ s[i].profile = Default

\* A sample keeps keys and identifiers distinct.
LEMMA AddSampleGood ==
  ASSUME NEW r, Good(r), NEW a, IsInput(a),
         \A i \in DOMAIN AddSample(r, a) : AddSample(r, a)[i].id <= MaxId
  PROVE  Good(AddSample(r, a))
<1>1. r \in Arrays /\ \A i \in DOMAIN r : r[i].id # 0
  BY GoodFacts
<1>2. CASE AddSample(r, a) = r
  BY <1>2
<1>3. CASE /\ Len(r) < MaxAccounts /\ Valid(r, a, 0) /\ Acceptable(a)
           /\ AddSample(r, a) = Append(r, Record(a, NextId(r)))
  BY <1>1, <1>3, AppendGood DEF Valid
<1>4. QED BY <1>1, <1>2, <1>3, AddSampleFacts

\* A sample is appended in the default profile.
LEMMA AddSampleExtends ==
  ASSUME NEW base \in Arrays, NEW r \in Arrays, Extends(base, r), NEW a, IsInput(a), a.profile = Default
  PROVE  Extends(base, AddSample(r, a)) /\ Grows(r, AddSample(r, a))
<1>1. CASE AddSample(r, a) = r
  BY <1>1, GrowsRelation
<1>2. CASE /\ Record(a, NextId(r)) \in Stored
           /\ AddSample(r, a) = Append(r, Record(a, NextId(r)))
  <2> DEFINE x == Record(a, NextId(r))
             s == Append(r, x)
             m == Len(r)
             n == Len(base)
  <2>1. x \in Stored /\ x.profile = Default
    BY <1>2 DEF Record, Canon
  <2> HIDE DEF x
  <2>2. /\ m \in Nat /\ Len(s) = m + 1 /\ DOMAIN r = 1..m /\ DOMAIN s = 1..m + 1
        /\ \A i \in DOMAIN r : s[i] = r[i]
        /\ s[m + 1] = x
    BY <2>1, ArrayFacts, AppendFacts
  <2>3. n \in Nat /\ DOMAIN base = 1..n /\ n <= m
    BY ArrayFacts, Consts DEF Extends
  <2> HIDE DEF s
  <2>4. s = AddSample(r, a)
    BY <1>2 DEF s, x
  <2>5. /\ \A i \in 1..n : i \in 1..m
        /\ \A i \in 1..m + 1 : i \in 1..m \/ i = m + 1
        /\ n <= m + 1 /\ m <= m + 1
    <3> HIDE DEF m, n
    <3> QED BY <2>2, <2>3
  <2>6. Extends(base, s)
    <3>1. \A i \in DOMAIN base : s[i] = base[i]
      BY <2>2, <2>3, <2>5 DEF Extends
    <3>2. \A i \in DOMAIN s : i \in DOMAIN base \/ s[i].profile = Default
      BY <2>1, <2>2, <2>3, <2>5 DEF Extends
    <3>3. Len(base) <= Len(s)
      BY <2>2, <2>5
    <3>4. QED BY <3>1, <3>2, <3>3 DEF Extends
  <2>7. Grows(r, s)
    BY <2>2, <2>5, KeyRelation DEF Grows
  <2>8. QED BY <2>4, <2>6, <2>7
<1>3. QED BY <1>1, <1>2, AddSampleFacts

\* The samples make a good array that extends the one before.
LEMMA DemoFacts ==
  ASSUME NEW r, Good(r),
         \A i \in DOMAIN FoldLeft(AddSample, r, Samples) : FoldLeft(AddSample, r, Samples)[i].id <= MaxId
  PROVE  Good(FoldLeft(AddSample, r, Samples)) /\ Extends(r, FoldLeft(AddSample, r, Samples))
<1> DEFINE n == Len(Samples)
           new == FoldLeft(AddSample, r, Samples)
<1>1. r \in Arrays
  BY GoodFacts
<1>2. IsBackup(Samples) /\ \A a \in Range(Samples) : a.profile = Default
  BY AccountsAssumption DEF IsBackup
<1>3. n \in Nat /\ DOMAIN Samples = 1..n
      /\ \A i \in 1..n : IsInput(Samples[i]) /\ Samples[i].profile = Default
  BY <1>2, BackupFacts
<1> HIDE DEF n
<1>4. SamplesIn(Arrays, n, Samples)
  BY <1>3, AddSampleFacts DEF SamplesIn
<1>5. PICK f \in [0..n -> Arrays] : SampleRun(f, n, r, Samples) /\ new = f[n]
  <2> DEFINE X == Arrays
  <2>1. r \in X /\ SamplesIn(X, n, Samples)
    BY <1>1, <1>4
  <2> HIDE DEF X
  <2>2. \E f \in [0..n -> X] : SampleRun(f, n, r, Samples) /\ FoldLeft(AddSample, r, Samples) = f[n]
    BY <2>1, <1>3, SampleRuns
  <2>3. QED BY <2>2 DEF X
<1> HIDE DEF new
<1>6. f[0] = r /\ \A k \in 1..n : f[k] = AddSample(f[k - 1], Samples[k])
  BY <1>5 DEF SampleRun
<1>7. \A k \in 0..n - 1 : /\ k + 1 \in 1..n /\ k + 1 \in 0..n /\ k \in 0..n /\ (k + 1) - 1 = k
  BY <1>3
<1>8. \A k \in 0..n - 1 : /\ f[k + 1] = AddSample(f[k], Samples[k + 1]) /\ f[k] \in Arrays /\ f[k + 1] \in Arrays
                          /\ IsInput(Samples[k + 1]) /\ Samples[k + 1].profile = Default
  BY <1>3, <1>5, <1>6, <1>7
<1> DEFINE E == {k \in 0..n : Extends(r, f[k])}
<1>9. \A k \in 0..n : k \in E
  <2>1. 0 \in E
    BY <1>1, <1>3, <1>6, ArrayFacts, Consts DEF Extends
  <2>2. \A k \in 0..n - 1 : k \in E => k + 1 \in E
    <3> TAKE k \in 0..n - 1
    <3> HAVE k \in E
    <3>1. Extends(r, AddSample(f[k], Samples[k + 1]))
      BY <1>1, <1>8, AddSampleExtends
    <3>2. QED BY <1>7, <1>8, <3>1
  <2> HIDE DEF E
  <2>3. QED BY <1>3, <2>1, <2>2, Counting
<1>10. \A k \in 0..n - 1 : Grows(f[k], f[k + 1])
  <2> TAKE k \in 0..n - 1
  <2>1. Extends(f[k], f[k])
    BY <1>8, ArrayFacts, Consts DEF Extends
  <2>2. Grows(f[k], AddSample(f[k], Samples[k + 1]))
    BY <1>8, <2>1, AddSampleExtends
  <2>3. QED BY <1>8, <2>2
<1> DEFINE G == {k \in 0..n : Grows(f[n - k], f[n])}
<1>11. \A k \in 0..n : k \in G
  <2>1. 0 \in G
    BY <1>3, <1>5, GrowsRelation
  <2>2. \A k \in 0..n - 1 : k \in G => k + 1 \in G
    <3> TAKE k \in 0..n - 1
    <3> HAVE k \in G
    <3> DEFINE j == n - (k + 1)
    <3>1. j \in 0..n - 1 /\ j + 1 = n - k /\ j \in 0..n /\ k + 1 \in 0..n /\ n \in 0..n /\ j + 1 \in 0..n
      BY <1>3
    <3>2. Grows(f[j], f[j + 1]) /\ Grows(f[n - k], f[n])
      BY <1>10, <3>1
    <3> HIDE DEF j
    <3>3. Grows(f[j], f[n])
      BY <1>5, <3>1, <3>2, GrowsRelation
    <3>4. QED BY <3>1, <3>3 DEF j
  <2> HIDE DEF G
  <2>3. QED BY <1>3, <2>1, <2>2, Counting
<1>12. \A k \in 0..n : \A i \in DOMAIN f[k] : f[k][i].id <= MaxId
  <2> TAKE k \in 0..n
  <2> TAKE i \in DOMAIN f[k]
  <2>0. n - k \in 0..n /\ n - (n - k) = k /\ n \in 0..n
    BY <1>3
  <2>1. Grows(f[k], f[n]) /\ f[k] \in Arrays /\ f[n] \in Arrays
    BY <1>5, <1>11, <2>0
  <2>2. f[n][i].id = f[k][i].id /\ Len(f[k]) <= Len(f[n])
    BY <2>1 DEF Grows
  <2>3. /\ DOMAIN f[k] = 1..Len(f[k]) /\ DOMAIN f[n] = 1..Len(f[n])
        /\ Len(f[k]) \in 0..MaxAccounts /\ Len(f[n]) \in 0..MaxAccounts
    BY <2>1, ArrayFacts
  <2>4. i \in DOMAIN f[n]
    BY <2>2, <2>3, Consts
  <2>5. QED BY <1>5, <2>2, <2>4 DEF new
<1> DEFINE S == {k \in 0..n : Good(f[k])}
<1>13. \A k \in 0..n : k \in S
  <2>1. 0 \in S
    BY <1>3, <1>6
  <2>2. \A k \in 0..n - 1 : k \in S => k + 1 \in S
    <3> TAKE k \in 0..n - 1
    <3> HAVE k \in S
    <3>1. Good(AddSample(f[k], Samples[k + 1]))
      BY <1>7, <1>8, <1>12, AddSampleGood
    <3>2. QED BY <1>7, <1>8, <3>1
  <2> HIDE DEF S
  <2>3. QED BY <1>3, <2>1, <2>2, Counting
<1>14. n \in 0..n
  BY <1>3
<1>15. Good(f[n]) /\ Extends(r, f[n])
  BY <1>9, <1>13, <1>14
<1>16. QED BY <1>5, <1>15 DEF new

\* accounts_load_demo keeps the invariant.
LEMMA DemoInv ==
  ASSUME IInv, LoadDemo
  PROVE  IInv' /\ Kept(recs, recs')
<1> DEFINE new == FoldLeft(AddSample, recs, Samples)
<1>1. new # recs /\ Change(new, SubSeq(new, 1, Len(recs)), Active, Active)
  BY DEF LoadDemo
<1>2. Good(recs) /\ recs \in Arrays /\ Remembered(Active) /\ IsActive(recs, Active) /\ Active[1] = s_profile
  BY InvFacts
<1>3. \A i \in DOMAIN new : new[i].id <= MaxId
  BY <1>1 DEF Change
<1>4. Good(new) /\ Extends(recs, new)
  BY <1>2, <1>3, DemoFacts
<1> HIDE DEF new
<1>5. new \in Arrays /\ Keyed(new)
  BY <1>4, GoodFacts
<1>6. /\ Len(recs) \in Nat /\ DOMAIN recs = 1..Len(recs) /\ DOMAIN new = 1..Len(new)
      /\ recs \in Seq(Stored) /\ \A i \in DOMAIN recs : new[i] = recs[i] /\ recs[i] \in Stored
  BY <1>2, <1>4, <1>5, ArrayFacts, Consts DEF Extends
<1>7. SubSeq(new, 1, Len(recs)) = recs
  <2>1. \A i \in 1..Len(recs) : new[i] \in Stored /\ new[i] = recs[i]
    BY <1>6
  <2>2. /\ SubSeq(new, 1, Len(recs)) \in Seq(Stored)
        /\ Len(SubSeq(new, 1, Len(recs))) = (IF 1 <= Len(recs) THEN Len(recs) - 1 + 1 ELSE 0)
        /\ \A i \in 1..Len(recs) - 1 + 1 : SubSeq(new, 1, Len(recs))[i] = new[1 + i - 1]
    BY <1>6, <2>1, SubSeqProperties
  <2> DEFINE n == Len(recs)
             s == SubSeq(new, 1, Len(recs))
  <2>3. /\ n \in Nat /\ s \in Seq(Stored) /\ Len(s) = (IF 1 <= n THEN n - 1 + 1 ELSE 0)
        /\ \A i \in 1..n - 1 + 1 : s[i] = new[1 + i - 1]
        /\ \A i \in 1..n : new[i] = recs[i]
    BY <1>6, <2>1, <2>2
  <2> HIDE DEF n, s
  <2>4. Len(s) = n /\ \A i \in 1..n : s[i] = recs[i]
    BY <2>3
  <2>5. s = recs
    BY <1>6, <2>3, <2>4, SeqEqual DEF n
  <2>6. QED BY <2>5 DEF s
<1>8. Kept(recs, new)
  <2>1. Grows(recs, new)
    BY <1>4, KeyRelation DEF Extends, Grows
  <2>2. QED BY <1>2, <1>5, <2>1, GrowsKept
<1>9. IsActive(new, Active)
  <2>1. new # <<>>
    <3>1. CASE recs # <<>>
      <4>1. PICK i \in DOMAIN recs : TRUE
        BY <1>2, <3>1, NonEmpty
      <4>2. Len(recs) <= Len(new) /\ Len(new) \in Nat
        BY <1>4, <1>5, ArrayFacts, Consts DEF Extends
      <4>3. i \in DOMAIN new
        BY <1>6, <4>2
      <4>4. QED BY <1>5, <4>3, NonEmpty
    <3>2. CASE recs = <<>>
      BY <1>1, <3>2
    <3>3. QED BY <3>1, <3>2
  <2>2. CASE recs = <<>>
    <3>1. s_profile = Default
      BY <1>2, <2>2 DEF IsActive
    <3>2. PICK i \in DOMAIN new : TRUE
      BY <1>5, <2>1, NonEmpty
    <3>3. i \notin DOMAIN recs
      BY <1>2, <2>2, NonEmpty
    <3>4. new[i].profile = Default
      BY <1>4, <3>3 DEF Extends
    <3>5. Used(new, s_profile)
      BY <3>1, <3>4 DEF Used, ProfileEq
    <3>6. QED BY <1>2, <2>1, <3>5 DEF IsActive
  <2>3. CASE recs # <<>>
    <3>1. PICK i \in DOMAIN recs : ProfileEq(recs[i].profile, s_profile)
      BY <1>2, <2>3 DEF IsActive, Used
    <3>2. i \in DOMAIN new
      <4>1. Len(recs) <= Len(new) /\ Len(new) \in Nat
        BY <1>4, <1>5, ArrayFacts, Consts DEF Extends
      <4>2. QED BY <1>6, <4>1
    <3>3. Used(new, s_profile)
      BY <1>6, <3>1, <3>2 DEF Used
    <3>4. QED BY <1>2, <2>1, <2>3, <3>3 DEF IsActive
  <2>4. QED BY <2>2, <2>3
<1>10. QED BY <1>1, <1>2, <1>4, <1>7, <1>8, <1>9, ChangeInv

\* An unlock that loads a copy keeps the invariant (accounts_unlock).
LEMMA UnlockInv ==
  ASSUME IInv, NEW c \in copies, Unlock(c)
  PROVE  IInv' /\ copies' = copies
<1>1. /\ state' = "UNLOCKED" /\ recs' = c /\ stored' = c /\ emptied' = FALSE /\ copies' = copies
      /\ SetActive(Restore(c, hash))
  BY DEF Unlock
<1>2. Good(c) /\ c \in Arrays /\ hash \in HashOf
  BY InvFacts, GoodFacts DEF IInv
<1> DEFINE a == Restore(c, hash)
<1>3. IsActive(c, a) /\ SetActive(a)
  BY <1>1, <1>2, RestoreFacts
<1> HIDE DEF a
<1>4. Active' = a
  BY <1>3 DEF SetActive, Active, IsActive
<1>5. IsActive(recs', Active')
  BY <1>1, <1>3, <1>4
<1>6. QED BY <1>1, <1>2, <1>5 DEF IInv, RamMatchesStore

\* So does a refused one.
LEMMA RefusedInv ==
  ASSUME IInv, Refused
  PROVE  IInv' /\ copies' = copies
<1>1. recs' = <<>> /\ s_profile' = Default /\ UNCHANGED <<state, hash, stored, copies>>
      /\ emptied' = (state = "UNLOCKED")
  BY DEF Refused
<1>2. Good(recs') /\ IsActive(recs', Active')
  BY <1>1, AfterWipe
<1>3. QED BY <1>1, <1>2 DEF IInv, RamMatchesStore

\* So do the creation of the store, a lock and an erase.
LEMMA WipedInv ==
  ASSUME IInv, Create \/ Lock \/ Erase
  PROVE  IInv' /\ Kept(recs, recs')
<1>1. /\ recs' = <<>> /\ s_profile' = Default /\ stored' = <<>> /\ emptied' = FALSE
      /\ UNCHANGED hash /\ state' \in {"BLANK", "LOCKED", "UNLOCKED"}
      /\ copies' \subseteq copies \cup {<<>>}
  BY DEF Create, Lock, Erase, Wiped
<1>2. Good(recs') /\ IsActive(recs', Active') /\ Kept(recs, recs')
  BY <1>1, AfterWipe
<1>3. Good(<<>>)
  BY EmptyGood
<1>4. QED BY <1>1, <1>2, <1>3 DEF IInv, RamMatchesStore

\* So does a change of the PIN.
LEMMA ChangePinInv ==
  ASSUME IInv, ChangePin
  PROVE  IInv' /\ Kept(recs, recs')
<1>1. Good(recs) /\ IsActive(recs, Active) /\ Kept(recs, recs)
  BY InvFacts, GoodFacts, GrowsRelation, GrowsKept
<1>2. CASE Saved(recs, Active)
  BY <1>1, <1>2, SavedInv
<1>3. CASE PowerFails(recs)
  BY <1>1, <1>3, PowerFailsInv
<1>4. CASE ChangeFails
  <2>1. /\ state' = "LOCKED" /\ copies' = copies \cup {recs} /\ stored' = <<>> /\ emptied' = FALSE
        /\ UNCHANGED <<recs, s_profile, hash>>
    BY <1>4 DEF ChangeFails
  <2>2. Active' = Active
    BY <2>1 DEF Active
  <2>3. IsActive(recs', Active') /\ Kept(recs, recs')
    BY <1>1, <2>1, <2>2
  <2>4. QED BY <1>1, <2>1, <2>3, EmptyGood DEF IInv, RamMatchesStore
<1>5. QED BY <1>2, <1>3, <1>4 DEF ChangePin

\* The device starts with nothing in RAM.
LEMMA InitInv == Init => IInv
<1> SUFFICES ASSUME Init PROVE IInv
  OBVIOUS
<1>1. Hash(Default) \in HashOf
  BY Consts DEF HashOf
<1>2. IsActive(<<>>, <<Default, Hash(Default)>>)
  BY <1>1, Consts DEF IsActive, Canon
<1>3. IsActive(recs, Active)
  BY <1>2 DEF Init, Active
<1>4. QED BY <1>3, EmptyGood DEF Init, IInv, RamMatchesStore

\* Every step keeps the invariant, and one that is stored the identifiers.
LEMMA StepInv ==
  ASSUME IInv, [Next]_vars
  PROVE  IInv' /\ (copies' # copies => Kept(recs, recs'))
<1>1. CASE UNCHANGED vars
  <2>1. UNCHANGED <<state, recs, s_profile, hash, stored, copies, emptied>>
    BY <1>1 DEF vars
  <2>2. Active' = Active
    BY <2>1 DEF Active
  <2>3. IsActive(recs', Active')
    BY <2>1, <2>2, InvFacts
  <2>4. QED BY <2>1, <2>3 DEF IInv, RamMatchesStore
<1>2. CASE Edit
  BY <1>2, AddInv, UpdateInv, MarkUsedInv, RemoveIdInv DEF Edit
<1>3. CASE EditProfile
  BY <1>3, DeleteInv, RenameInv, NextInv DEF EditProfile
<1>4. CASE Bulk
  BY <1>4, DemoInv, ImportInv DEF Bulk
<1>5. CASE StoreCall
  BY <1>5, UnlockInv, RefusedInv, WipedInv, ChangePinInv DEF StoreCall
<1>6. QED BY <1>1, <1>2, <1>3, <1>4, <1>5 DEF Next

\* The inductive invariant holds in every state of the accounts, for every set
\* of inputs, backups, profiles and samples and every size of the array.
THEOREM Invariant == Spec => []IInv
<1>1. IInv /\ [Next]_vars => IInv'
  BY StepInv
<1>2. QED BY <1>1, InitInv, PTL DEF Spec

-----------------------------------------------------------------------------
(***************************************************************************)
(* The theorems.                                                           *)
(***************************************************************************)
\* A stored account, exported, is an input of an import.
LEMMA PartIsInput ==
  ASSUME NEW y \in Stored
  PROVE  IsInput([x \in {"profile", "name", "data", "used"} |-> y[x]])
<1> DEFINE a == [x \in {"profile", "name", "data", "used"} |-> y[x]]
           b == [profile |-> y.profile, name |-> y.name, data |-> y.data, used |-> y.used]
<1>1. /\ y.profile \in Profiles /\ y.name \in Names /\ y.data \in Data
      /\ y.used \subseteq 1..Codes[y.data] /\ y.used \in SUBSET Nat
  BY StoredFacts
<1>2. a = b
  OBVIOUS
<1>3. IsInput(b)
  BY <1>1 DEF IsInput
<1> HIDE DEF a, b
<1>4. IsInput(a)
  BY <1>2, <1>3
<1>5. QED BY <1>4 DEF a

\* A good array satisfies the type invariant.
LEMMA GoodIsArray ==
  ASSUME NEW r, Good(r)
  PROVE  IsArray(r)
<1>1. r \in Arrays
  BY GoodFacts
<1>2. Len(r) <= MaxAccounts /\ \A i \in DOMAIN r : r[i] \in Stored
  BY <1>1, ArrayFacts, Consts
<1>3. QED BY <1>2, PartIsInput, StoredFacts DEF IsArray

\* Every variable keeps its type (accounts_store.c, its static state).
THEOREM TypesHold == Spec => []TypeOK
<1>1. IInv => TypeOK
  <2> SUFFICES ASSUME IInv PROVE TypeOK
    OBVIOUS
  <2>1. \A r \in {recs, stored} \cup copies : IsArray(r)
    BY GoodIsArray DEF IInv
  <2>2. s_profile \in Profiles /\ s_profile = Canon(s_profile) /\ hash \in {Hash(p) : p \in Profiles}
    BY InvFacts DEF Remembered, HashOf
  <2>3. QED BY <2>1, <2>2 DEF IInv, TypeOK
<1>2. QED BY <1>1, Invariant, PTL

\* No two accounts have the same profile and name, whatever was added, renamed,
\* imported or restored, in what order, and however saves failed.
THEOREM KeysStayUnique == Spec => []KeysUnique
<1>1. IInv => KeysUnique
  BY GoodFacts DEF IInv, KeysUnique, Keyed, Numbered
<1>2. QED BY <1>1, Invariant, PTL

\* While the store is unlocked the array in RAM is the one in the store: a
\* failed save is undone in RAM, an erase leaves neither.
THEOREM RamIsStored == Spec => []RamMatchesStore
<1>1. IInv => RamMatchesStore
  BY DEF IInv
<1>2. QED BY <1>1, Invariant, PTL

\* The active profile has accounts, or is the default one of an empty array.
THEOREM ActiveIsUsed == Spec => []ActiveUsed
<1>1. IInv => ActiveUsed
  BY InvFacts DEF IsActive, ActiveUsed
<1>2. QED BY <1>1, Invariant, PTL

\* A lock and an unlock come back to the profile last selected as long as it
\* has accounts.
THEOREM ProfileIsKept == Spec => []ProfileKept
<1>1. IInv => ProfileKept
  <2> SUFFICES ASSUME IInv, s_profile # Default, NEW r \in {recs, stored}, Used(r, s_profile)
               PROVE  ProfileEq(Restore(r, hash)[1], s_profile)
    BY DEF ProfileKept
  <2>1. r \in Arrays
    BY GoodFacts DEF IInv
  <2>2. hash \in HashOf /\ hash = Hash(s_profile)
    BY InvFacts DEF Remembered
  <2>3. QED BY <2>1, <2>2, RestoreFacts
<1>2. QED BY <1>1, Invariant, PTL

\* An account keeps its identifier through every change that is stored.
THEOREM IdsAreKept == Spec => IdsKept
<1>1. IInv /\ [Next]_vars =>
        [copies' # copies =>
           \A i \in DOMAIN recs, j \in DOMAIN recs' :
             SameKey(recs[i], recs'[j]) => recs[i].id = recs'[j].id]_vars
  BY StepInv DEF Kept
<1>2. QED BY <1>1, Invariant, PTL DEF Spec, IdsKept

\* Whatever is in the array and in the backup, an import leaves what it
\* promises: the backup's accounts, and the others as its mode says.
THEOREM ImportKeepsPromise == Spec => []ImportPromised
<1>1. IInv => ImportPromised
  <2> SUFFICES ASSUME IInv, NEW b \in Backups, NEW mode \in Modes, NEW in \in Readings(b)
               PROVE  Promised(recs, in, mode, AfterImport(recs, in, mode))
    BY DEF ImportPromised
  <2>1. Keyed(recs) /\ IsBackup(in)
    BY InvFacts, GoodFacts, ReadingsAreBackups
  <2>2. QED BY <2>1, AfterImportContent, ContentPromised
<1>2. QED BY <1>1, Invariant, PTL

\* The numbers shown before an import are what it then does.
THEOREM SummaryIsTrue == Spec => []SummaryTells
<1>1. IInv => SummaryTells
  <2> SUFFICES ASSUME IInv, NEW b \in Backups, NEW mode \in Modes, NEW in \in Readings(b), Distinct(in)
               PROVE  Told(recs, in, mode, AfterImport(recs, in, mode))
    BY DEF SummaryTells
  <2>1. Keyed(recs) /\ IsBackup(in)
    BY InvFacts, GoodFacts, ReadingsAreBackups
  <2>2. QED BY <2>1, AfterImportContent, ContentTold
<1>2. QED BY <1>1, Invariant, PTL

-----------------------------------------------------------------------------
(***************************************************************************)
(* The round of the profiles.                                              *)
(***************************************************************************)
\* The profiles in use, by their order.
UsedRanks(r) == {Rank(r[i].profile) : i \in DOMAIN r}

\* They are finitely many.
LEMMA RanksFinite ==
  ASSUME NEW r \in Arrays
  PROVE  UsedRanks(r) \in SUBSET Nat /\ IsFiniteSet(UsedRanks(r))
<1> DEFINE f == [i \in DOMAIN r |-> Rank(r[i].profile)]
<1>1. /\ DOMAIN r = 1..Len(r) /\ Len(r) \in Nat
      /\ \A i \in DOMAIN r : Rank(r[i].profile) \in Nat
  BY ArrayFacts, StoredFacts, Consts
<1>2. UsedRanks(r) \in SUBSET Nat
  BY <1>1 DEF UsedRanks
<1>3. IsFiniteSet(DOMAIN r)
  <2> DEFINE n == Len(r)
  <2>1. DOMAIN r = 1..n /\ n \in Int /\ 1 \in Int
    BY <1>1
  <2> HIDE DEF n
  <2>2. IsFiniteSet(1..n)
    BY <2>1, FS_Interval
  <2>3. QED BY <2>1, <2>2
<1>4. f \in Surjection(DOMAIN r, UsedRanks(r))
  BY DEF Surjection, UsedRanks
<1> HIDE DEF f
<1>5. QED BY <1>2, <1>3, <1>4, FS_Surjection

\* The profiles reached by pressing `next` are well defined.
LEMMA ReachedFacts ==
  ASSUME recs \in Arrays, recs # <<>>, s_profile \in Profiles
  PROVE  /\ Reached[0] = s_profile
         /\ \A k \in Nat : Reached[k] \in Profiles /\ Reached[k + 1] = ProfileAfter(recs, Reached[k])
<1> DEFINE G == [p \in Profiles |-> ProfileAfter(recs, p)]
           Is(f) == f = [k \in Nat |-> IF k = 0 THEN s_profile ELSE ProfileAfter(recs, f[k - 1])]
<1>1. G \in [Profiles -> Profiles]
  BY AfterFacts
<1>2. \A p \in Profiles : G[p] = ProfileAfter(recs, p)
  OBVIOUS
<1> HIDE DEF G
<1>3. PICK f \in [Nat -> Profiles] : f[0] = s_profile /\ \A k \in Nat : f[k + 1] = G[f[k]]
  BY <1>1, IterationExists, SMTT(60)
<1>4. Is(f)
  <2>1. \A k \in Nat : f[k] = IF k = 0 THEN s_profile ELSE ProfileAfter(recs, f[k - 1])
    <3> TAKE k \in Nat
    <3>1. CASE k = 0
      BY <1>3, <3>1
    <3>2. CASE k # 0
      <4>1. k - 1 \in Nat /\ (k - 1) + 1 = k
        BY <3>2
      <4>2. f[k] = G[f[k - 1]] /\ f[k - 1] \in Profiles
        BY <1>3, <4>1
      <4>3. QED BY <1>2, <3>2, <4>2
    <3>3. QED BY <3>1, <3>2
  <2>2. f = [k \in Nat |-> f[k]]
    OBVIOUS
  <2>3. QED BY <2>1, <2>2
<1>5. Is(Reached)
  <2>1. Reached = CHOOSE h : Is(h)
    BY DEF Reached
  <2> HIDE DEF Is
  <2>2. QED BY <1>4, <2>1
<1>6. Reached[0] = s_profile /\ \A k \in Nat : Reached[k + 1] = ProfileAfter(recs, Reached[k])
  <2>1. \A k \in Nat : Reached[k] = IF k = 0 THEN s_profile ELSE ProfileAfter(recs, Reached[k - 1])
    BY <1>5
  <2>2. \A k \in Nat : k + 1 \in Nat /\ k + 1 # 0 /\ (k + 1) - 1 = k
    OBVIOUS
  <2> HIDE DEF Is
  <2>3. QED BY <2>1, <2>2
<1>7. ASSUME NEW k \in Nat PROVE Reached[k] \in Profiles
  <2> DEFINE S == {j \in 0..k : Reached[j] \in Profiles}
  <2>1. 0 \in S
    BY <1>6
  <2>2. \A j \in 0..k - 1 : j \in S => j + 1 \in S
    <3> TAKE j \in 0..k - 1
    <3> HAVE j \in S
    <3>1. j \in Nat /\ j + 1 \in 0..k
      OBVIOUS
    <3>2. Reached[j + 1] = ProfileAfter(recs, Reached[j]) /\ Reached[j] \in Profiles
      BY <1>6, <3>1
    <3>3. QED BY <3>1, <3>2, AfterFacts
  <2> HIDE DEF S
  <2>3. \A j \in 0..k : j \in S
    BY <2>1, <2>2, Counting
  <2>4. k \in S
    BY <2>3
  <2>5. QED BY <2>4 DEF S
<1>8. QED BY <1>6, <1>7

\* `next` goes to the profile that follows among those in use.
LEMMA AfterFollows ==
  ASSUME NEW r \in Arrays, r # <<>>, NEW p \in Profiles
  PROVE  /\ Rank(ProfileAfter(r, p)) \in UsedRanks(r)
         /\ Follows(UsedRanks(r), Rank(p), Rank(ProfileAfter(r, p)))
<1> DEFINE q == ProfileAfter(r, p)
<1>1. /\ Used(r, q)
      /\ \/ /\ Rank(p) < Rank(q)
            /\ \A j \in DOMAIN r : Rank(r[j].profile) > Rank(p) => Rank(q) <= Rank(r[j].profile)
         \/ /\ \A j \in DOMAIN r : ~(Rank(r[j].profile) > Rank(p))
            /\ \A j \in DOMAIN r : Rank(q) <= Rank(r[j].profile)
  BY AfterFacts
<1> HIDE DEF q
<1>2. Rank(q) \in UsedRanks(r)
  BY <1>1 DEF Used, ProfileEq, UsedRanks
<1>3. Follows(UsedRanks(r), Rank(p), Rank(q))
  BY <1>1 DEF Follows, UsedRanks
<1>4. QED BY <1>2, <1>3 DEF q

\* Pressing `next` as often as there are profiles visits each and comes back
\* (accounts_profile_next).
THEOREM ProfilesAreReached == Spec => []AllProfilesReached
<1>1. ASSUME IInv, recs # <<>>
      PROVE  LET used == {Rank(recs[i].profile) : i \in DOMAIN recs}
                 n == Cardinality(used)
             IN /\ {Rank(Reached[k]) : k \in 1..n} = used
                /\ ProfileEq(Reached[n], s_profile)
  <2> DEFINE U == UsedRanks(recs)
             n == Cardinality(U)
             g == [k \in 0..n |-> Rank(Reached[k])]
  <2>1. recs \in Arrays /\ s_profile \in Profiles /\ Used(recs, s_profile)
    BY <1>1, InvFacts DEF IsActive
  <2>2. U \in SUBSET Nat /\ IsFiniteSet(U)
    BY <2>1, RanksFinite
  <2>3. n \in Nat
    BY <2>2, FS_CardinalityType
  <2>4. Reached[0] = s_profile
        /\ \A k \in Nat : Reached[k] \in Profiles /\ Reached[k + 1] = ProfileAfter(recs, Reached[k])
    BY <1>1, <2>1, ReachedFacts
  <2>5. Rank(s_profile) \in U
    BY <2>1 DEF Used, ProfileEq, UsedRanks
  <2>6. \A k \in Nat : Rank(Reached[k + 1]) \in U /\ Follows(U, Rank(Reached[k]), Rank(Reached[k + 1]))
    BY <1>1, <2>1, <2>4, AfterFollows
  <2> HIDE DEF U, n
  <2>7. \A k \in 0..n : Rank(Reached[k]) \in U
    <3> TAKE k \in 0..n
    <3>1. CASE k = 0
      BY <2>4, <2>5, <3>1
    <3>2. CASE k # 0
      <4>1. k - 1 \in Nat /\ (k - 1) + 1 = k
        BY <2>3, <3>2
      <4>2. QED BY <2>6, <4>1
    <3>3. QED BY <3>1, <3>2
  <2>8. g \in [0..n -> U] /\ \A k \in 0..n : g[k] = Rank(Reached[k])
    BY <2>7
  <2>9. \A k \in 0..n - 1 : Follows(U, g[k], g[k + 1])
    <3> TAKE k \in 0..n - 1
    <3>1. k \in Nat /\ k \in 0..n /\ k + 1 \in 0..n
      BY <2>3
    <3>2. QED BY <2>6, <2>8, <3>1
  <2> HIDE DEF g
  <2>10. {g[k] : k \in 1..n} = U /\ g[n] = g[0]
    BY <2>2, <2>3, <2>8, <2>9, RoundTrip DEF n
  <2>11. 0 \in 0..n /\ n \in 0..n /\ \A k \in 1..n : k \in 0..n
    BY <2>3
  <2>12. {Rank(Reached[k]) : k \in 1..n} = U
    <3>1. \A k \in 1..n : g[k] = Rank(Reached[k])
      BY <2>8, <2>11
    <3>2. QED BY <2>10, <3>1
  <2>13. ProfileEq(Reached[n], s_profile)
    BY <2>4, <2>8, <2>10, <2>11 DEF ProfileEq
  <2>14. QED BY <2>12, <2>13 DEF U, n, UsedRanks
<1>2. IInv => AllProfilesReached
  BY <1>1 DEF AllProfilesReached
<1>3. QED BY <1>2, Invariant, PTL
=============================================================================
