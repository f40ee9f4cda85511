---------------------------- MODULE RingBufferProofs ---------------------------
(***************************************************************************)
(* The ring buffer of a node that relays nobody, for a flash of any size   *)
(* and a history of any length: what it holds is a window on the records   *)
(* written, which failed writes, power cuts and reboots do not disturb.    *)
(* From it: the order in which records are handed out, and that the buffer *)
(* implements RecordBuffer.                                                *)
(***************************************************************************)
EXTENDS RingBuffer, FiniteSetTheorems, WellFoundedInduction, TLAPS

(* A leaf, or a head without leaves: the order of the records of several   *)
(* devices is lost to releaseThrough and to begin (see RingBuffer).        *)
Alone == Device = {own}

Record == [dev : {own}, seq : Nat, copy : Nat]
Slot == [payload : Record \cup {Blank, Torn}, magic : BOOLEAN, live : BOOLEAN]

Older(r, q) == r.seq < q.seq \/ (r.seq = q.seq /\ r.copy < q.copy)

(* The log is in the order of seq and copy, and so is what comes next.     *)
Sorted(log) == \A i, j \in DOMAIN log : i < j => Older(log[i], log[j])

LogInv ==
  /\ written \in Seq(Record) /\ Sorted(written)
  /\ nextSeq \in [Device -> Nat] /\ copy \in [Device -> Nat]
  /\ \A i \in DOMAIN written : Older(written[i], RecordOf(own))

(* How far a slot is from another, going up and around.                    *)
Ahead(t, s) == IF s >= t THEN s - t ELSE s + TotalSlots - t

Around(x) == IF x < TotalSlots THEN x ELSE x - TotalSlots

(* From h to the next sector nothing was completed since the erase.        *)
Writable == {Erased, [Erased EXCEPT !.payload = Torn]}

Fresh(f, h) ==
  \A s \in Slots : h <= s /\ (\A t \in h + 1 .. s : t % SlotsPerSector # 0) => f[s] \in Writable

(* The c slots from t on hold the newest c records of the log, the oldest  *)
(* first, and nothing else is live; the next record goes to h.             *)
Window(f, h, t, c, log) ==
  /\ f \in [Slots -> Slot] /\ h \in Slots /\ t \in Slots
  /\ c \in 0 .. TotalSlots /\ c <= Len(log)
  /\ h = Around(t + c)
  /\ Live(f) = {s \in Slots : Ahead(t, s) < c}
  /\ \A s \in Live(f) : f[s].payload = log[Len(log) - c + 1 + Ahead(t, s)]
  /\ \A s \in Slots : f[s].magic => \E i \in DOMAIN log : f[s].payload = log[i]
  /\ h % SlotsPerSector # 0 => Fresh(f, h)

RingInv ==
  /\ LogInv
  /\ overlaid \in BOOLEAN /\ unordered \in BOOLEAN
  /\ ~Spoiled => Window(flash, head, tail, count, written)
-----------------------------------------------------------------------------
(* Arithmetic around the flash.                                            *)
LEMMA Total == TotalSlots \in Nat \ {0} /\ SlotsPerSector \in Nat \ {0} /\ SlotsPerSector <= TotalSlots
BY RingAssumption DEF TotalSlots

LEMMA SmallMod ==
  ASSUME NEW n \in Nat \ {0}, NEW x \in 0 .. n - 1
  PROVE  x % n = x /\ (x + n) % n = x
OBVIOUS

LEMMA Multiple == ASSUME NEW n \in Nat \ {0}, NEW m \in Nat PROVE (m * n) % n = 0
OBVIOUS

LEMMA Division ==
  ASSUME NEW n \in Nat \ {0}, NEW m \in Nat, NEW q \in Nat
  PROVE  m \div n = q <=> (q * n <= m /\ m < (q * n) + n)
<1>1. ASSUME m \div n = q PROVE q * n <= m /\ m < (q * n) + n
  BY <1>1
<1>2. ASSUME q * n <= m, m < (q * n) + n PROVE m \div n = q
  BY <1>2
<1> QED BY <1>1, <1>2

LEMMA AroundIs ==
  ASSUME NEW x \in 0 .. 2 * TotalSlots - 1
  PROVE  x % TotalSlots = Around(x) /\ Around(x) \in Slots
<1>1. CASE x < TotalSlots
  BY <1>1, Total, SmallMod DEF Around, Slots
<1>2. CASE x >= TotalSlots
  <2>1. x - TotalSlots \in 0 .. TotalSlots - 1
    BY <1>2, Total
  <2>2. (x - TotalSlots) + TotalSlots = x
    BY Total
  <2>3. x % TotalSlots = x - TotalSlots
    BY <2>1, <2>2, SmallMod, Total
  <2> QED BY <2>1, <2>3, <1>2, Total DEF Around, Slots
<1> QED BY <1>1, <1>2, Total

(* A sector is the slots from one start to the next.                       *)
LEMMA SectorIs ==
  ASSUME NEW h \in Slots, h % SlotsPerSector = 0
  PROVE  /\ h + SlotsPerSector <= TotalSlots
         /\ Sector(h) = {s \in Slots : h <= s /\ s < h + SlotsPerSector}
         /\ (h + SlotsPerSector) % SlotsPerSector = 0
<1> DEFINE K == SlotsPerSector
           q == h \div K
<1>1. K \in Nat \ {0} /\ Sectors \in Nat \ {0} /\ h \in Nat /\ TotalSlots = Sectors * K
  BY RingAssumption, Total DEF TotalSlots, Slots
<1>2. q \in Nat /\ h = q * K
  BY <1>1
<1>3. h < Sectors * K
  BY <1>1 DEF Slots
<1>4. q < Sectors
  BY <1>1, <1>2, <1>3
<1>5. (q + 1) * K <= Sectors * K /\ (q + 1) * K = h + K
  BY <1>1, <1>2, <1>4
<1>6. (h + K) % K = 0
  <2>1. ((q + 1) * K) % K = 0
    BY <1>1, <1>2, Multiple
  <2> QED BY <2>1, <1>5
<1>7. ASSUME NEW s \in Slots PROVE s \div K = q <=> (h <= s /\ s < h + K)
  <2>1. s \in Nat
    BY <1>1 DEF Slots
  <2> HIDE DEF q, K
  <2>2. s \div K = q <=> (q * K <= s /\ s < (q * K) + K)
    BY <1>1, <1>2, <2>1, Division
  <2> QED BY <1>2, <2>2
<1> QED BY <1>1, <1>5, <1>6, <1>7 DEF Sector
-----------------------------------------------------------------------------
LEMMA LeastNatural ==
  ASSUME NEW T \in SUBSET Nat, T # {}
  PROVE  \E x \in T : \A y \in T : x <= y
<1> DEFINE R == OpToRel(<, Nat)
<1>1. PICK x \in T : \A y \in T : ~ (<<y, x>> \in R)
  <2>1. IsWellFoundedOn(R, Nat)
    BY NatLessThanWellFounded
  <2> HIDE DEF R
  <2> QED BY <2>1, WFMin
<1>2. ASSUME NEW y \in T PROVE x <= y
  <2>1. ~ (y < x)
    BY <1>1 DEF OpToRel
  <2> QED BY <2>1
<1> QED BY <1>2

LEMMA InductSet ==
  ASSUME NEW T \in SUBSET Nat, 0 \in T, \A n \in T : n + 1 \in T
  PROVE  T = Nat
<1> SUFFICES ASSUME Nat \ T # {} PROVE FALSE
  OBVIOUS
<1>1. PICK x \in Nat \ T : \A y \in Nat \ T : x <= y
  BY LeastNatural
<1>2. x # 0 /\ x - 1 \in Nat
  BY <1>1
<1>3. x - 1 \in T
  BY <1>1, <1>2
<1> QED BY <1>1, <1>2, <1>3

LEMMA OnlyIs ==
  ASSUME NEW S, NEW s, Len(s) \in Nat
  PROVE  \E kept :
           /\ kept[0] = <<>>
           /\ \A n \in 1 .. Len(s) :
                kept[n] = IF s[n] \in S THEN Append(kept[n - 1], s[n]) ELSE kept[n - 1]
           /\ Only(S, s) = kept[Len(s)]
<1> DEFINE first == <<>>
           Next1(x, n) == IF s[n] \in S THEN Append(x, s[n]) ELSE x
           Is(g, m) == g = [n \in 0 .. m |-> IF n = 0 THEN first ELSE Next1(g[n - 1], n)]
           T == {m \in Nat : \E g : Is(g, m)}
<1>1. 0 \in T
  <2> DEFINE g == [n \in 0 .. 0 |-> first]
  <2> HIDE DEF first
  <2>1. Is(g, 0)
    OBVIOUS
  <2> QED BY <2>1
<1>2. ASSUME NEW m \in T PROVE m + 1 \in T
  <2> HIDE DEF first, Next1
  <2>1. PICK g : Is(g, m)
    OBVIOUS
  <2> DEFINE h == [n \in 0 .. m + 1 |-> IF n = m + 1 THEN Next1(g[m], m + 1) ELSE g[n]]
  <2>2. ASSUME NEW n \in 0 .. m + 1
        PROVE  h[n] = IF n = 0 THEN first ELSE Next1(h[n - 1], n)
    <3>1. CASE n = m + 1
      BY <3>1
    <3>2. CASE n # m + 1
      <4>1. n \in 0 .. m /\ g[n] = IF n = 0 THEN first ELSE Next1(g[n - 1], n)
        BY <2>1, <3>2
      <4> QED BY <3>2, <4>1
    <3> QED BY <3>1, <3>2
  <2>3. Is(h, m + 1)
    BY <2>2
  <2> HIDE DEF h, Is
  <2> QED BY <2>3
<1>3. \E g : Is(g, Len(s))
  <2> HIDE DEF T
  <2>1. T = Nat
    BY <1>1, <1>2, InductSet DEF T
  <2> QED BY <2>1 DEF T
<1>4. PICK kept : kept = CHOOSE g : Is(g, Len(s))
  OBVIOUS
<1>5. Only(S, s) = kept[Len(s)]
  BY <1>4 DEF Only
<1> HIDE DEF Is
<1>6. Is(kept, Len(s))
  BY <1>3, <1>4
<1>7. kept[0] = first /\ \A n \in 1 .. Len(s) : kept[n] = Next1(kept[n - 1], n)
  <2> HIDE DEF first, Next1
  <2> QED BY <1>6 DEF Is
<1> QED BY <1>5, <1>7

(* What is picked from a sequence, if that is a run of it.                 *)
IsRun(S, s, a, b) == \A i \in 1 .. Len(s) : s[i] \in S <=> (a < i /\ i <= b)

LEMMA OnlyRun ==
  ASSUME NEW T, NEW S, NEW s \in Seq(T), NEW a \in Nat, NEW b \in Nat, a <= b, b <= Len(s),
         IsRun(S, s, a, b)
  PROVE  /\ Only(S, s) \in Seq(T) /\ Len(Only(S, s)) = b - a
         /\ \A i \in 1 .. b - a : Only(S, s)[i] = s[a + i]
<1> USE DEF IsRun
<1>1. Len(s) \in Nat /\ a \in 0 .. Len(s) /\ b \in a .. Len(s)
  OBVIOUS
<1>2. PICK kept :
        /\ kept[0] = <<>>
        /\ \A n \in 1 .. Len(s) :
             kept[n] = IF s[n] \in S THEN Append(kept[n - 1], s[n]) ELSE kept[n - 1]
        /\ Only(S, s) = kept[Len(s)]
  BY <1>1, OnlyIs
<1> DEFINE size(n) == IF n <= a THEN 0 ELSE IF n <= b THEN n - a ELSE b - a
           Good(n) == /\ kept[n] \in Seq(T) /\ Len(kept[n]) = size(n)
                      /\ \A i \in 1 .. size(n) : kept[n][i] = s[a + i]
           N == {n \in Nat : n <= Len(s) => Good(n)}
<1>3. 0 \in N
  <2>1. size(0) = 0 /\ 1 .. size(0) = {}
    BY <1>1
  <2>2. <<>> \in Seq(T) /\ Len(<<>>) = 0
    OBVIOUS
  <2>3. Good(0)
    BY <1>2, <2>1, <2>2
  <2> HIDE DEF Good
  <2> QED BY <2>3
<1>4. ASSUME NEW n \in N PROVE n + 1 \in N
  <2> SUFFICES ASSUME n + 1 <= Len(s) PROVE Good(n + 1)
    OBVIOUS
  <2>1. n + 1 \in 1 .. Len(s) /\ n \in Nat /\ Good(n)
    <3> HIDE DEF Good
    <3> QED OBVIOUS
  <2>2. kept[n + 1] = IF s[n + 1] \in S THEN Append(kept[n], s[n + 1]) ELSE kept[n]
    BY <1>2, <2>1
  <2>3. s[n + 1] \in T
    BY <2>1
  <2>4. CASE s[n + 1] \in S
    <3>0. a < n + 1 /\ n + 1 <= b
      BY <2>1, <2>4
    <3>1. size(n) = n - a /\ size(n + 1) = size(n) + 1 /\ size(n) \in Nat
      BY <2>1, <3>0
    <3>2. kept[n + 1] = Append(kept[n], s[n + 1])
      BY <2>2, <2>4
    <3>3. /\ kept[n + 1] \in Seq(T) /\ Len(kept[n + 1]) = size(n) + 1
          /\ kept[n + 1][size(n) + 1] = s[n + 1]
          /\ \A i \in 1 .. size(n) : kept[n + 1][i] = kept[n][i]
      BY <2>1, <2>3, <3>2
    <3> QED BY <2>1, <3>1, <3>3
  <2>5. CASE s[n + 1] \notin S
    <3>1. size(n + 1) = size(n)
      BY <2>1, <2>5
    <3> QED BY <2>1, <2>2, <2>5, <3>1
  <2> QED BY <2>4, <2>5
<1> HIDE DEF N
<1>5. N = Nat
  BY <1>3, <1>4, InductSet DEF N
<1>6. Good(Len(s))
  <2> HIDE DEF Good
  <2> QED BY <1>1, <1>5 DEF N
<1>7. size(Len(s)) = b - a
  BY <1>1
<1> QED BY <1>2, <1>6, <1>7
-----------------------------------------------------------------------------
(* What a window says of what is offered and what is gone.                 *)
LEMMA FromIs ==
  ASSUME NEW t \in Slots
  PROVE  /\ From(t) \in Seq(Slots) /\ Len(From(t)) = TotalSlots
         /\ \A i \in 1 .. TotalSlots : From(t)[i] = Around(t + i - 1) /\ Ahead(t, From(t)[i]) = i - 1
<1>1. t \in 0 .. TotalSlots - 1 /\ TotalSlots \in Nat \ {0}
  BY Total DEF Slots
<1>2. ASSUME NEW i \in 1 .. TotalSlots
      PROVE  From(t)[i] = Around(t + i - 1) /\ From(t)[i] \in Slots /\ Ahead(t, From(t)[i]) = i - 1
  <2>1. t + i - 1 \in 0 .. 2 * TotalSlots - 1
    BY <1>1
  <2>2. From(t)[i] = (t + i - 1) % TotalSlots
    BY DEF From
  <2>3. From(t)[i] = Around(t + i - 1) /\ From(t)[i] \in Slots
    BY <2>1, <2>2, AroundIs
  <2>4. Ahead(t, Around(t + i - 1)) = i - 1
    BY <1>1 DEF Around, Ahead
  <2> QED BY <2>3, <2>4
<1>3. From(t) = [i \in 1 .. TotalSlots |-> From(t)[i]]
  BY DEF From
<1>4. From(t) \in [1 .. TotalSlots -> Slots]
  BY <1>2, <1>3
<1>5. From(t) \in Seq(Slots) /\ Len(From(t)) = TotalSlots
  BY <1>1, <1>4
<1> QED BY <1>2, <1>5

(* The live slots as the flash is walked from the tail.                    *)
LEMMA WalkIs ==
  ASSUME NEW f, NEW h, NEW t, NEW c, NEW log, Len(log) \in Nat, Window(f, h, t, c, log)
  PROVE  /\ Only(Live(f), From(t)) \in Seq(Slots) /\ Len(Only(Live(f), From(t))) = c
         /\ \A i \in 1 .. c : /\ Only(Live(f), From(t))[i] \in Live(f)
                              /\ Only(Live(f), From(t))[i] = Around(t + i - 1)
                              /\ f[Only(Live(f), From(t))[i]].payload = log[Len(log) - c + i]
<1>1. t \in Slots /\ c \in 0 .. TotalSlots /\ c <= Len(log) /\ TotalSlots \in Nat
  BY Total DEF Window
<1>2. /\ From(t) \in Seq(Slots) /\ Len(From(t)) = TotalSlots
      /\ \A i \in 1 .. TotalSlots : From(t)[i] = Around(t + i - 1) /\ Ahead(t, From(t)[i]) = i - 1
  BY <1>1, FromIs
<1>3. ASSUME NEW i \in 1 .. Len(From(t)) PROVE From(t)[i] \in Live(f) <=> (0 < i /\ i <= c)
  <2>1. From(t)[i] \in Slots
    BY <1>2
  <2> QED BY <1>1, <1>2, <2>1 DEF Window
<1> DEFINE live == Only(Live(f), From(t))
<1>4. /\ live \in Seq(Slots) /\ Len(live) = c
      /\ \A i \in 1 .. c : live[i] = From(t)[i]
  <2>1. c \in 0 .. Len(From(t)) /\ 0 \in 0 .. Len(From(t))
    BY <1>1, <1>2
  <2>2. /\ live \in Seq(Slots) /\ Len(live) = c - 0
        /\ \A i \in 1 .. c - 0 : live[i] = From(t)[0 + i]
    <3> DEFINE s == From(t)
               S == Live(f)
               A == 0
    <3>1. /\ s \in Seq(Slots) /\ A \in Nat /\ c \in Nat /\ A <= c /\ c <= Len(s)
          /\ IsRun(S, s, A, c)
      BY <1>2, <1>3, <2>1 DEF IsRun
    <3> HIDE DEF s, S, A
    <3>2. /\ Only(S, s) \in Seq(Slots) /\ Len(Only(S, s)) = c - A
          /\ \A i \in 1 .. c - A : Only(S, s)[i] = s[A + i]
      BY <3>1, OnlyRun
    <3> QED BY <3>2 DEF s, S, A
  <2> QED BY <1>1, <2>2
<1> HIDE DEF live
<1>5. ASSUME NEW i \in 1 .. c
      PROVE  live[i] \in Live(f) /\ live[i] = Around(t + i - 1) /\ f[live[i]].payload = log[Len(log) - c + i]
  <2>1. i \in 1 .. TotalSlots /\ i \in 1 .. Len(From(t)) /\ live[i] = From(t)[i]
    BY <1>1, <1>2, <1>4
  <2>2. live[i] \in Live(f) /\ Ahead(t, live[i]) = i - 1
    BY <1>1, <1>2, <1>3, <2>1
  <2>3. f[live[i]].payload = log[Len(log) - c + 1 + (i - 1)]
    BY <2>2 DEF Window
  <2> QED BY <1>1, <1>2, <2>1, <2>2, <2>3
<1> QED BY <1>4, <1>5 DEF live

LEMMA OfferedIs ==
  ASSUME LogInv, Window(flash, head, tail, count, written)
  PROVE  /\ Offered \in Seq(Record) /\ Len(Offered) = count
         /\ \A i \in 1 .. count : Offered[i] = written[Len(written) - count + i]
<1>1. written \in Seq(Record) /\ Len(written) \in Nat /\ count \in 0 .. TotalSlots /\ count <= Len(written)
  BY DEF LogInv, Window
<1>2. CASE count = 0
  BY <1>2 DEF Offered
<1>3. CASE count # 0
  <2> DEFINE live == Only(Live(flash), From(tail))
  <2>1. /\ live \in Seq(Slots) /\ Len(live) = count
        /\ \A i \in 1 .. count : flash[live[i]].payload = written[Len(written) - count + i]
    BY <1>1, WalkIs
  <2>2. Offered = [i \in DOMAIN live |-> flash[live[i]].payload]
    BY <1>3 DEF Offered
  <2> HIDE DEF live
  <2>3. Offered = [i \in 1 .. count |-> written[Len(written) - count + i]]
    BY <1>1, <2>1, <2>2
  <2>4. \A i \in 1 .. count : written[Len(written) - count + i] \in Record
    BY <1>1, Total
  <2>5. Offered \in [1 .. count -> Record]
    BY <2>3, <2>4
  <2>6. Offered \in Seq(Record) /\ Len(Offered) = count
    BY <1>1, <2>5, Total
  <2> QED BY <2>3, <2>6
<1> QED BY <1>2, <1>3

LEMMA SortedDistinct ==
  ASSUME NEW log \in Seq(Record), Sorted(log), NEW i \in DOMAIN log, NEW j \in DOMAIN log, log[i] = log[j]
  PROVE  i = j
<1>1. i \in Nat /\ j \in Nat /\ log[i] \in Record
  OBVIOUS
<1>2. ~ Older(log[i], log[j]) /\ ~ Older(log[j], log[i])
  BY <1>1 DEF Older, Record
<1>3. ~ (i < j) /\ ~ (j < i)
  BY <1>2 DEF Sorted
<1> QED BY <1>1, <1>3

LEMMA OfferedSet ==
  ASSUME LogInv, Window(flash, head, tail, count, written), NEW i \in 1 .. Len(written)
  PROVE  written[i] \in ToSet(Offered) <=> Len(written) - count < i
<1>1. /\ written \in Seq(Record) /\ Len(written) \in Nat /\ count \in Nat /\ count <= Len(written)
      /\ Sorted(written) /\ DOMAIN written = 1 .. Len(written)
  BY Total DEF LogInv, Window
<1>2. /\ Offered \in Seq(Record) /\ Len(Offered) = count
      /\ \A j \in 1 .. count : Offered[j] = written[Len(written) - count + j]
  BY OfferedIs
<1>3. ToSet(Offered) = {Offered[j] : j \in 1 .. count}
  BY <1>2 DEF ToSet
<1>4. ASSUME Len(written) - count < i PROVE written[i] \in ToSet(Offered)
  <2>1. i - (Len(written) - count) \in 1 .. count
    BY <1>1, <1>4
  <2>2. Offered[i - (Len(written) - count)] = written[i]
    BY <1>1, <1>2, <2>1
  <2> QED BY <1>3, <2>1, <2>2
<1>5. ASSUME written[i] \in ToSet(Offered) PROVE Len(written) - count < i
  <2>1. PICK j \in 1 .. count : written[i] = written[Len(written) - count + j]
    <3>1. PICK j \in 1 .. count : written[i] = Offered[j]
      BY <1>3, <1>5
    <3>2. Offered[j] = written[Len(written) - count + j]
      BY <1>2
    <3> QED BY <3>1, <3>2
  <2>2. Len(written) - count + j \in DOMAIN written /\ i \in DOMAIN written
    BY <1>1
  <2>3. i = Len(written) - count + j
    BY <1>1, <2>1, <2>2, SortedDistinct
  <2> QED BY <1>1, <2>3
<1> QED BY <1>4, <1>5

LEMMA DrainIs ==
  ASSUME LogInv, Window(flash, head, tail, count, written)
  PROVE  Offered = Only(ToSet(Offered), written)
<1> DEFINE S == ToSet(Offered)
           a == Len(written) - count
           b == Len(written)
<1>1. /\ written \in Seq(Record) /\ a \in Nat /\ b \in Nat /\ a <= b /\ b <= Len(written)
      /\ count \in Nat /\ count = b - a
  BY Total DEF LogInv, Window
<1>2. IsRun(S, written, a, b)
  BY <1>1, OfferedSet DEF IsRun
<1>3. /\ Offered \in Seq(Record) /\ Len(Offered) = count
      /\ \A i \in 1 .. count : Offered[i] = written[a + i]
  BY OfferedIs
<1> DEFINE picked == Only(S, written)
<1> HIDE DEF S, a, b
<1>4. /\ picked \in Seq(Record) /\ Len(picked) = b - a
      /\ \A i \in 1 .. b - a : picked[i] = written[a + i]
  BY <1>1, <1>2, OnlyRun
<1> HIDE DEF picked
<1>5. Offered = picked
  BY <1>1, <1>3, <1>4
<1> QED BY <1>5 DEF picked, S

(* Gone are the records before the window.                                 *)
LEMMA GoneIs ==
  ASSUME LogInv, Window(flash, head, tail, count, written)
  PROVE  Gone = 1 .. Len(written) - count
<1>1. /\ written \in Seq(Record) /\ Len(written) \in Nat /\ count \in 0 .. TotalSlots /\ count <= Len(written)
      /\ TotalSlots \in Nat /\ DOMAIN written = 1 .. Len(written) /\ tail \in Slots
  BY Total DEF LogInv, Window
<1>2. ASSUME count = 0 PROVE Gone = 1 .. Len(written) - count
  BY <1>1, <1>2 DEF Gone
<1>3. ASSUME count # 0, NEW i \in 1 .. Len(written)
      PROVE  written[i] \in {flash[s].payload : s \in Live(flash)} <=> Len(written) - count < i
  <2> DEFINE live == Only(Live(flash), From(tail))
  <2>1. \A j \in 1 .. count : /\ live[j] \in Live(flash)
                              /\ flash[live[j]].payload = written[Len(written) - count + j]
    BY <1>1, WalkIs
  <2> HIDE DEF live
  <2>2. ASSUME Len(written) - count < i
        PROVE  written[i] \in {flash[s].payload : s \in Live(flash)}
    <3>1. i - (Len(written) - count) \in 1 .. count
      BY <1>1, <2>2
    <3>2. flash[live[i - (Len(written) - count)]].payload = written[i]
      BY <1>1, <2>1, <3>1
    <3> QED BY <2>1, <3>1, <3>2
  <2>3. ASSUME NEW s \in Live(flash), written[i] = flash[s].payload
        PROVE  Len(written) - count < i
    <3>1. s \in Slots /\ Ahead(tail, s) < count
      BY DEF Window
    <3>2. Ahead(tail, s) \in Nat
      BY <1>1, <3>1 DEF Ahead, Slots
    <3> DEFINE j == Len(written) - count + 1 + Ahead(tail, s)
    <3>3. j \in 1 .. Len(written) /\ j > Len(written) - count
      BY <1>1, <3>1, <3>2
    <3>4. written[i] = written[j]
      BY <2>3 DEF Window
    <3>5. i = j
      <4> HIDE DEF j
      <4> QED BY <1>1, <3>3, <3>4, SortedDistinct DEF LogInv
    <3> QED BY <3>3, <3>5
  <2> QED BY <2>2, <2>3
<1>4. ASSUME count # 0 PROVE Gone = 1 .. Len(written) - count
  <2> DEFINE held == {flash[s].payload : s \in Live(flash)}
  <2>1. Gone = {i \in DOMAIN written : written[i] \notin held}
    BY <1>4 DEF Gone
  <2>2. \A i \in 1 .. Len(written) : written[i] \in held <=> Len(written) - count < i
    BY <1>3, <1>4
  <2> HIDE DEF held
  <2> QED BY <1>1, <2>1, <2>2
<1> QED BY <1>2, <1>4

-----------------------------------------------------------------------------
(* The window moves as the code moves it.                                  *)

(* Slots of the sector at the head, by how far they are from the tail.     *)
LEMMA SectorAhead ==
  ASSUME NEW t \in Slots, NEW c \in 0 .. TotalSlots, NEW h \in Slots, h = Around(t + c),
         h + SlotsPerSector <= TotalSlots,
         NEW s \in Slots, h <= s, s < h + SlotsPerSector
  PROVE  Ahead(t, s) < c <=> s - h >= TotalSlots - c
<1>1. t \in 0 .. TotalSlots - 1 /\ s \in 0 .. TotalSlots - 1 /\ h \in Nat /\ TotalSlots \in Nat \ {0} /\ SlotsPerSector \in Nat
  BY Total DEF Slots
<1>2. CASE t + c < TotalSlots
  BY <1>1, <1>2 DEF Around, Ahead
<1>3. CASE t + c >= TotalSlots
  BY <1>1, <1>3 DEF Around, Ahead
<1> QED BY <1>1, <1>2, <1>3

LEMMA ErasedIsFresh ==
  ASSUME NEW f, NEW h \in Slots, h % SlotsPerSector = 0,
         \A s \in Slots : h <= s /\ s < h + SlotsPerSector => f[s] = Erased
  PROVE  Fresh(f, h)
<1> SUFFICES ASSUME NEW s \in Slots, h <= s, \A t \in h + 1 .. s : t % SlotsPerSector # 0
             PROVE  f[s] \in Writable
  BY DEF Fresh
<1>1. h \in Nat /\ s \in Nat /\ SlotsPerSector \in Nat \ {0}
  BY Total DEF Slots
<1>2. (h + SlotsPerSector) % SlotsPerSector = 0
  BY SectorIs
<1>3. s < h + SlotsPerSector
  BY <1>1, <1>2
<1> QED BY <1>3 DEF Writable

(* What is left of the window when the sector at the head is erased.       *)
LEMMA EraseCuts ==
  ASSUME NEW f, NEW h, NEW t, NEW c, NEW log \in Seq(Record), Window(f, h, t, c, log),
         h % SlotsPerSector = 0, TotalSlots - SlotsPerSector < c,
         NEW g, g = [s \in Slots |-> IF s \in Sector(h) THEN Erased ELSE f[s]]
  PROVE  /\ Window(g, h, Around(h + SlotsPerSector), TotalSlots - SlotsPerSector, log)
         /\ t \in Sector(h)
         /\ Live(f) \cap Sector(h) = h + TotalSlots - c .. h + SlotsPerSector - 1
<1> DEFINE K == SlotsPerSector
           N == TotalSlots
           end == Around(h + K)
<1>1. /\ h \in Slots /\ t \in Slots /\ c \in 0 .. N /\ c <= Len(log) /\ h = Around(t + c)
      /\ Len(log) \in Nat /\ f \in [Slots -> Slot]
  BY DEF Window
<1>2. N \in Nat \ {0} /\ K \in Nat \ {0} /\ K <= N /\ Slots = 0 .. N - 1
  BY Total DEF Slots
<1>3. /\ h + K <= N
      /\ \A s \in Slots : s \in Sector(h) <=> (h <= s /\ s < h + K)
  BY <1>1, SectorIs
<1>4. end = (IF h + K = N THEN 0 ELSE h + K) /\ end \in Slots
  BY <1>1, <1>2, <1>3 DEF Around
<1>5. t = h + N - c /\ t \in Sector(h)
  <2>1. t + c >= N
    BY <1>1, <1>2, <1>3 DEF Around
  <2> QED BY <1>1, <1>2, <1>3, <2>1 DEF Around
<1>6. \A s \in Slots : g[s] = IF s \in Sector(h) THEN Erased ELSE f[s]
  OBVIOUS
<1>7. g \in [Slots -> Slot]
  <2>1. Erased \in Slot
    BY DEF Erased, Slot
  <2> QED BY <1>1, <2>1
<1>8. ASSUME NEW s \in Slots
      PROVE  /\ s \in Live(g) <=> Ahead(end, s) < N - K
             /\ s \in Live(g) => s \in Live(f) /\ g[s] = f[s] /\ Ahead(t, s) = Ahead(end, s) + c - (N - K)
  <2>1. s \in Live(f) <=> Ahead(t, s) < c
    BY DEF Window
  <2>2. s \in Live(g) <=> s \in Live(f) /\ s \notin Sector(h)
    BY <1>6 DEF Live, Erased
  <2> HIDE DEF K, N, end
  <2>a. /\ s \in 0 .. N - 1 /\ h \in Nat /\ N \in Nat /\ K \in Nat \ {0} /\ c \in Nat /\ c <= N
        /\ t = h + N - c /\ h + K <= N /\ N - K < c /\ t \in 0 .. N - 1
    BY <1>1, <1>2, <1>3, <1>5 DEF K, N
  <2>b. Ahead(t, s) = IF s >= t THEN s - t ELSE s + N - t
    BY DEF Ahead, N
  <2>c. Ahead(end, s) = IF h + K = N THEN s ELSE IF s >= h + K THEN s - (h + K) ELSE s + N - (h + K)
    BY <1>4, <2>a DEF Ahead, N
  <2>3. Ahead(t, s) < c /\ ~ (h <= s /\ s < h + K) <=> Ahead(end, s) < N - K
    BY <2>a, <2>b, <2>c
  <2>4. Ahead(end, s) < N - K => Ahead(t, s) = Ahead(end, s) + c - (N - K)
    BY <2>a, <2>b, <2>c
  <2> QED BY <1>3, <1>6, <2>1, <2>2, <2>3, <2>4 DEF K, N
<1>9. h = Around(end + (N - K))
  BY <1>1, <1>2, <1>3, <1>4 DEF Around
<1>10. \A s \in Live(g) : g[s].payload = log[Len(log) - (N - K) + 1 + Ahead(end, s)]
  <2> SUFFICES ASSUME NEW s \in Live(g)
               PROVE  g[s].payload = log[Len(log) - (N - K) + 1 + Ahead(end, s)]
    OBVIOUS
  <2>1. s \in Slots
    BY DEF Live
  <2>2. s \in Live(f) /\ g[s] = f[s] /\ Ahead(t, s) = Ahead(end, s) + c - (N - K)
    BY <1>8, <2>1
  <2>3. f[s].payload = log[Len(log) - c + 1 + Ahead(t, s)]
    BY <2>2 DEF Window
  <2>4. Ahead(end, s) \in Int
    BY <1>2, <1>4, <2>1 DEF Ahead
  <2>5. Len(log) - c + 1 + Ahead(t, s) = Len(log) - (N - K) + 1 + Ahead(end, s)
    BY <1>1, <1>2, <2>2, <2>4
  <2> QED BY <2>2, <2>3, <2>5
<1>11. \A s \in Slots : g[s].magic => \E i \in DOMAIN log : g[s].payload = log[i]
  BY <1>6 DEF Window, Erased
<1>12. Live(f) \cap Sector(h) = h + N - c .. h + K - 1
  <2>1. ASSUME NEW s \in Slots
        PROVE  s \in Live(f) /\ s \in Sector(h) <=> s \in h + N - c .. h + K - 1
    <3>1. s \in Live(f) <=> Ahead(t, s) < c
      BY DEF Window
    <3>2. Ahead(t, s) = IF s >= t THEN s - t ELSE s + N - t
      BY DEF Ahead
    <3>3. /\ s \in 0 .. N - 1 /\ h \in Nat /\ N \in Nat /\ K \in Nat \ {0} /\ c \in Nat /\ c <= N
          /\ t = h + N - c /\ h + K <= N /\ N - K < c /\ t \in 0 .. N - 1
      BY <1>1, <1>2, <1>3, <1>5
    <3>4. s \in Sector(h) <=> (h <= s /\ s < h + K)
      BY <1>3
    <3> HIDE DEF N, K
    <3> QED BY <3>1, <3>2, <3>3, <3>4
  <2>2. h + N - c .. h + K - 1 \subseteq Slots
    <3>1. /\ h \in Nat /\ N \in Nat /\ K \in Nat /\ c \in Nat /\ c <= N /\ h + K <= N
          /\ Slots = 0 .. N - 1
      BY <1>1, <1>2, <1>3
    <3> HIDE DEF N, K
    <3> QED BY <3>1
  <2> QED BY <2>1, <2>2 DEF Live
<1>13. Live(g) = {s \in Slots : Ahead(end, s) < N - K}
  BY <1>8 DEF Live
<1>14. N - K \in 0 .. N /\ N - K <= Len(log)
  BY <1>1, <1>2
<1> QED BY <1>1, <1>4, <1>5, <1>7, <1>9, <1>10, <1>11, <1>12, <1>13, <1>14 DEF Window

(* Making room forgets the records of one sector at most, and leaves at    *)
(* least as many as fit into the others.                                   *)
LEMMA RoomIs ==
  ASSUME written \in Seq(Record), Window(flash, head, tail, count, written)
  PROVE  /\ Window(Room.flash, head, Room.tail, Room.count, written)
         /\ Fresh(Room.flash, head)
         /\ Room.count < TotalSlots
         /\ \/ Room.count = count
            \/ Room.count = TotalSlots - SlotsPerSector /\ Room.count < count
<1> DEFINE K == SlotsPerSector
           N == TotalSlots
           after == [s \in Slots |-> IF s \in Sector(head) THEN Erased ELSE flash[s]]
           end == Around(head + K)
           lost == Cardinality(Live(flash) \cap Sector(head))
<1>1. /\ head \in Slots /\ tail \in Slots /\ count \in 0 .. N /\ head = Around(tail + count)
      /\ flash \in [Slots -> Slot] /\ Len(written) \in Nat
  BY DEF Window
<1>2. N \in Nat \ {0} /\ K \in Nat \ {0} /\ K <= N /\ Slots = 0 .. N - 1
  BY Total DEF Slots
<1>3. CASE head % K # 0
  <2>1. Room = [flash |-> flash, tail |-> tail, count |-> count]
    BY <1>3 DEF Room
  <2>2. Fresh(flash, head)
    BY <1>3 DEF Window
  <2>3. count < N
    <3> SUFFICES ASSUME count = N PROVE FALSE
      BY <1>1, <1>2
    <3>1. head = tail
      BY <1>1, <1>2 DEF Around
    <3>2. Ahead(tail, head) = 0
      BY <1>1, <1>2, <3>1 DEF Ahead
    <3>3. head \in Live(flash)
      BY <1>1, <1>2, <3>2 DEF Window
    <3>4. flash[head] \in Writable
      BY <1>1, <1>2, <2>2 DEF Fresh
    <3> QED BY <3>3, <3>4 DEF Live, Writable, Erased
  <2> QED BY <2>1, <2>2, <2>3
<1>4. CASE head % K = 0
  <2>1. /\ head + K <= N
        /\ \A s \in Slots : s \in Sector(head) <=> (head <= s /\ s < head + K)
    BY <1>1, <1>4, SectorIs
  <2>2. Room = [flash |-> after,
                count |-> IF count >= lost THEN count - lost ELSE 0,
                tail |-> IF lost # 0 /\ tail \in Sector(head) THEN TailPast(after) ELSE tail]
    BY <1>4 DEF Room
  <2>3. Fresh(after, head)
    BY <1>1, <1>4, <2>1, ErasedIsFresh
  <2>4. CASE count <= N - K
    <3>1. ASSUME NEW s \in Slots, s \in Sector(head) PROVE s \notin Live(flash)
      <4>1. s - head < K /\ s - head \in Int
        BY <1>2, <1>1, <2>1, <3>1
      <4>2. Ahead(tail, s) < count <=> s - head >= TotalSlots - count
        BY <1>1, <2>1, <3>1, SectorAhead
      <4> QED BY <1>1, <1>2, <2>4, <4>1, <4>2 DEF Window
    <3>2. Live(flash) \cap Sector(head) = {}
      BY <3>1 DEF Sector
    <3>3. lost = 0
      BY <3>2, FS_EmptySet
    <3>4. Room.flash = after /\ Room.count = count /\ Room.tail = tail
      <4> HIDE DEF lost, after
      <4> QED BY <1>1, <2>2, <3>3
    <3>5. Live(after) = Live(flash) /\ \A s \in Live(flash) : after[s] = flash[s]
      BY <3>1 DEF Live, Erased
    <3>6. after \in [Slots -> Slot]
      <4>1. Erased \in Slot
        BY DEF Erased, Slot
      <4> QED BY <1>1, <4>1
    <3>7. \A s \in Slots : after[s].magic => \E i \in DOMAIN written : after[s].payload = written[i]
      BY DEF Window, Erased
    <3>8. Window(after, head, tail, count, written)
      <4> HIDE DEF after
      <4> QED BY <1>4, <3>5, <3>6, <3>7 DEF Window
    <3> QED BY <1>1, <1>2, <2>3, <2>4, <3>4, <3>8
  <2>5. CASE N - K < count
    <3>1. /\ Window(after, head, end, N - K, written)
          /\ tail \in Sector(head)
          /\ Live(flash) \cap Sector(head) = head + N - count .. head + K - 1
      <4> DEFINE g == after
      <4>1. g = [s \in Slots |-> IF s \in Sector(head) THEN Erased ELSE flash[s]]
        OBVIOUS
      <4> HIDE DEF g
      <4>2. /\ Window(g, head, Around(head + SlotsPerSector), TotalSlots - SlotsPerSector, written)
            /\ tail \in Sector(head)
            /\ Live(flash) \cap Sector(head) = head + TotalSlots - count .. head + SlotsPerSector - 1
        BY <1>4, <2>5, <4>1, EraseCuts
      <4> QED BY <4>2 DEF g
    <3>2. lost = count - (N - K)
      <4>1. head + N - count \in Int /\ head + K - 1 \in Int
        BY <1>1, <1>2
      <4>2. lost = IF head + N - count > head + K - 1 THEN 0 ELSE (head + K - 1) - (head + N - count) + 1
        BY <3>1, <4>1, FS_Interval
      <4> HIDE DEF lost
      <4> QED BY <1>1, <1>2, <2>5, <4>2
    <3>3. TailPast(after) = end
      <4>1. (head + K) % N = end /\ end \in Slots
        <5>1. head + K \in 0 .. 2 * N - 1
          BY <1>1, <1>2, <2>1
        <5> QED BY <5>1, AroundIs
      <4> DEFINE live == Only(Live(after), From(end))
      <4>2. /\ live \in Seq(Slots) /\ Len(live) = N - K
            /\ \A i \in 1 .. N - K : live[i] = Around(end + i - 1)
        <5> HIDE DEF after, end
        <5> QED BY <1>1, <3>1, WalkIs
      <4>3. TailPast(after) = IF live = <<>> THEN end ELSE Head(live)
        BY <4>1 DEF TailPast
      <4> HIDE DEF live, after
      <4>4. CASE N - K = 0
        BY <4>2, <4>3, <4>4
      <4>5. CASE N - K # 0
        <5>1. 1 \in 1 .. N - K /\ live # <<>> /\ Head(live) = live[1]
          BY <1>2, <4>2, <4>5
        <5>2. live[1] = end
          BY <1>2, <4>1, <4>2, <5>1 DEF Around
        <5> QED BY <4>3, <5>1, <5>2
      <4> QED BY <4>4, <4>5
    <3>4. Room.flash = after /\ Room.count = N - K /\ Room.tail = end
      <4> HIDE DEF lost, after, end
      <4>1. lost # 0 /\ count >= lost /\ count - lost = N - K
        BY <1>1, <1>2, <2>5, <3>2
      <4> QED BY <2>2, <3>1, <3>3, <4>1
    <3> HIDE DEF after, end
    <3> QED BY <1>2, <2>3, <2>5, <3>1, <3>4
  <2> QED BY <1>1, <1>2, <2>4, <2>5
<1> QED BY <1>3, <1>4

LEMMA WritableIs ==
  ASSUME NEW w \in Writable
  PROVE  /\ w = [payload |-> w.payload, magic |-> FALSE, live |-> TRUE]
         /\ w.payload \in {Blank, Torn} /\ w.magic = FALSE /\ w.live = TRUE /\ w \in Slot
<1>1. w = Erased \/ w = [payload |-> Torn, magic |-> FALSE, live |-> TRUE]
  BY DEF Writable, Erased
<1>2. /\ w = [payload |-> w.payload, magic |-> FALSE, live |-> TRUE]
      /\ w.payload \in {Blank, Torn} /\ w.magic = FALSE /\ w.live = TRUE
  BY <1>1 DEF Erased
<1>3. [payload |-> w.payload, magic |-> FALSE, live |-> TRUE] \in Slot
  BY <1>2 DEF Slot
<1> QED BY <1>2, <1>3

(* A record completed at the head is the newest of the window.             *)
LEMMA CompleteIs ==
  ASSUME NEW f, NEW h, NEW t, NEW c, NEW log \in Seq(Record), Window(f, h, t, c, log),
         Fresh(f, h), c < TotalSlots, NEW r \in Record, f[h].payload = Blank,
         NEW g, g = [f EXCEPT ![h] = Programmed(@, r)]
  PROVE  Window(g, Around(h + 1), t, c + 1, Append(log, r))
<1> DEFINE N == TotalSlots
           top == Around(h + 1)
           more == Append(log, r)
<1>1. /\ h \in Slots /\ t \in Slots /\ c \in 0 .. N /\ c <= Len(log) /\ h = Around(t + c)
      /\ f \in [Slots -> Slot] /\ Len(log) \in Nat
  BY DEF Window
<1>2. N \in Nat \ {0} /\ Slots = 0 .. N - 1
  BY Total DEF Slots
<1>3. /\ more \in Seq(Record) /\ Len(more) = Len(log) + 1 /\ DOMAIN more = 1 .. Len(more)
      /\ more[Len(log) + 1] = r /\ DOMAIN log = 1 .. Len(log)
      /\ \A i \in 1 .. Len(log) : more[i] = log[i]
  OBVIOUS
<1>4. f[h] = Erased
  <2>1. f[h] \in Writable
    BY <1>1, <1>2 DEF Fresh
  <2>2. Torn # Blank /\ [Erased EXCEPT !.payload = Torn].payload = Torn
    BY DEF Torn, Blank, Erased
  <2> QED BY <2>1, <2>2 DEF Writable
<1>5. /\ g[h].payload = r /\ g[h].magic = TRUE /\ g[h].live = TRUE /\ g[h] \in Slot
      /\ \A s \in Slots \ {h} : g[s] = f[s]
  <2>1. g[h] = Programmed(Erased, r) /\ \A s \in Slots \ {h} : g[s] = f[s]
    BY <1>1, <1>4
  <2>2. /\ Programmed(Erased, r).payload = r /\ Programmed(Erased, r).magic = TRUE
        /\ Programmed(Erased, r).live = TRUE
        /\ Programmed(Erased, r) \in [payload : Record, magic : BOOLEAN, live : BOOLEAN]
    BY DEF Programmed, Erased
  <2>3. [payload : Record, magic : BOOLEAN, live : BOOLEAN] \subseteq Slot
    BY DEF Slot
  <2> QED BY <2>1, <2>2, <2>3
<1>6. g \in [Slots -> Slot]
  <2>1. g[h] \in Slot
    BY <1>5
  <2>2. g = [f EXCEPT ![h] = g[h]]
    BY <1>1
  <2> HIDE DEF Slot
  <2> QED BY <1>1, <2>1, <2>2
<1>7. Ahead(t, h) = c
  BY <1>1, <1>2 DEF Around, Ahead
<1>8. top \in Slots /\ top = Around(t + (c + 1))
  BY <1>1, <1>2 DEF Around
<1>9. ASSUME NEW s \in Slots, s # h PROVE Ahead(t, s) # c /\ Ahead(t, s) \in Int
  BY <1>1, <1>2, <1>9 DEF Around, Ahead
<1>10. ASSUME NEW s \in Slots PROVE s \in Live(g) <=> Ahead(t, s) < c + 1
  <2>1. CASE s = h
    BY <1>1, <1>5, <1>7, <2>1 DEF Live
  <2>2. CASE s # h
    <3>1. s \in Live(g) <=> s \in Live(f)
      BY <1>5, <2>2 DEF Live
    <3>2. s \in Live(f) <=> Ahead(t, s) < c
      BY DEF Window
    <3> QED BY <1>1, <1>9, <2>2, <3>1, <3>2
  <2> QED BY <2>1, <2>2
<1>11. ASSUME NEW s \in Live(g)
       PROVE  g[s].payload = more[Len(more) - (c + 1) + 1 + Ahead(t, s)]
  <2>1. s \in Slots
    BY DEF Live
  <2>2. CASE s = h
    <3>1. Len(more) - (c + 1) + 1 + Ahead(t, s) = Len(log) + 1
      BY <1>1, <1>3, <1>7, <2>2
    <3> HIDE DEF more
    <3> QED BY <1>3, <1>5, <2>2, <3>1
  <2>3. CASE s # h
    <3>1. s \in Live(f) /\ g[s] = f[s] /\ Ahead(t, s) < c /\ Ahead(t, s) \in Int
      BY <1>5, <1>9, <2>1, <2>3 DEF Live, Window
    <3>2. g[s].payload = log[Len(log) - c + 1 + Ahead(t, s)]
      BY <3>1 DEF Window
    <3>3. Ahead(t, s) >= 0
      BY <1>1, <1>2, <2>1 DEF Ahead
    <3>4. /\ Len(log) - c + 1 + Ahead(t, s) \in 1 .. Len(log)
          /\ Len(more) - (c + 1) + 1 + Ahead(t, s) = Len(log) - c + 1 + Ahead(t, s)
      BY <1>1, <1>3, <3>1, <3>3
    <3> HIDE DEF more
    <3> QED BY <1>3, <3>2, <3>4
  <2> QED BY <2>2, <2>3
<1>12. ASSUME NEW s \in Slots, g[s].magic PROVE \E i \in DOMAIN more : g[s].payload = more[i]
  <2>1. CASE s = h
    <3>1. g[s].payload = more[Len(log) + 1] /\ Len(log) + 1 \in DOMAIN more
      BY <1>3, <1>5, <2>1
    <3> HIDE DEF more
    <3> QED BY <3>1
  <2>2. CASE s # h
    <3>1. PICK i \in DOMAIN log : f[s].payload = log[i]
      BY <1>5, <1>12, <2>2 DEF Window
    <3>2. i \in DOMAIN more /\ g[s].payload = more[i]
      BY <1>3, <1>5, <2>2, <3>1
    <3> HIDE DEF more
    <3> QED BY <3>2
  <2> QED BY <2>1, <2>2
<1>13. ASSUME top % SlotsPerSector # 0 PROVE Fresh(g, top)
  <2>1. top = h + 1
    <3>1. SlotsPerSector \in Nat \ {0} /\ 0 % SlotsPerSector = 0
      BY Total
    <3> QED BY <1>1, <1>2, <1>13, <3>1 DEF Around
  <2> SUFFICES ASSUME NEW s \in Slots, h + 1 <= s, \A x \in h + 2 .. s : x % SlotsPerSector # 0
               PROVE  g[s] \in Writable
    <3>1. top + 1 = h + 2
      BY <1>1, <1>2, <2>1
    <3> QED BY <2>1, <3>1 DEF Fresh
  <2>2. \A x \in h + 1 .. s : x % SlotsPerSector # 0
    BY <1>1, <1>2, <1>13, <2>1
  <2>3. h <= s /\ s # h
    BY <1>1, <1>2
  <2>4. f[s] \in Writable
    BY <2>2, <2>3 DEF Fresh
  <2> QED BY <1>5, <2>3, <2>4
<1> HIDE DEF more, top
<1>14. c + 1 \in 0 .. N /\ c + 1 <= Len(more)
  BY <1>1, <1>2, <1>3
<1>15. Live(g) = {s \in Slots : Ahead(t, s) < c + 1}
  BY <1>10 DEF Live
<1>16. Window(g, top, t, c + 1, more)
  BY <1>1, <1>6, <1>8, <1>11, <1>12, <1>13, <1>14, <1>15 DEF Window
<1> QED BY <1>16 DEF top, more

(* What a write that fails leaves behind is in front of the window.        *)
LEMMA PartialIs ==
  ASSUME NEW f, NEW h, NEW t, NEW c, NEW log, Window(f, h, t, c, log), Fresh(f, h),
         NEW slot \in Partial(f[h]), NEW g, g = [f EXCEPT ![h] = slot]
  PROVE  Window(g, h, t, c, log) /\ (\A s \in Slots : g[s].magic <=> f[s].magic)
<1>1. h \in Slots /\ f \in [Slots -> Slot] /\ h \in Nat
  BY Total DEF Window, Slots
<1>2. f[h] \in Writable
  BY <1>1 DEF Fresh, Slots
<1>3. slot \in Writable
  BY <1>2 DEF Partial, Writable, Erased
<1>4. slot \in Slot /\ ~ slot.magic /\ ~ f[h].magic
  BY <1>2, <1>3, WritableIs
<1>5. g \in [Slots -> Slot] /\ g[h] = slot /\ \A s \in Slots \ {h} : g[s] = f[s]
  BY <1>1, <1>4
<1>6. \A s \in Slots : g[s].magic <=> f[s].magic
  BY <1>4, <1>5
<1>7. Live(g) = Live(f) /\ \A s \in Live(f) : g[s] = f[s]
  BY <1>4, <1>5 DEF Live
<1>8. \A s \in Slots : g[s].magic => \E i \in DOMAIN log : g[s].payload = log[i]
  BY <1>4, <1>5 DEF Window
<1>9. Fresh(g, h)
  BY <1>3, <1>5 DEF Fresh
<1>10. Live(g) = {s \in Slots : Ahead(t, s) < c}
  BY <1>7 DEF Window
<1>11. \A s \in Live(g) : g[s].payload = log[Len(log) - c + 1 + Ahead(t, s)]
  BY <1>7 DEF Window
<1>12. g \in [Slots -> Slot]
  BY <1>5
<1>13. Window(g, h, t, c, log)
  BY <1>8, <1>9, <1>10, <1>11, <1>12 DEF Window
<1> QED BY <1>6, <1>13

-----------------------------------------------------------------------------
(* A reboot finds the window again.                                        *)
LEMMA MinIs ==
  ASSUME NEW S \in SUBSET Nat, NEW x \in S, \A y \in S : x <= y
  PROVE  Min(S) = x
<1> DEFINE m == Min(S)
<1>1. m \in S /\ \A y \in S : m <= y
  BY DEF Min
<1> HIDE DEF m
<1>2. m \in Nat /\ x \in Nat /\ m <= x /\ x <= m
  BY <1>1
<1>3. m = x
  BY <1>2
<1> QED BY <1>3 DEF m

LEMMA MaxIs ==
  ASSUME NEW S \in SUBSET Nat, NEW x \in S, \A y \in S : y <= x
  PROVE  Max(S) = x
<1> DEFINE m == Max(S)
<1>1. m \in S /\ \A y \in S : m >= y
  BY DEF Max
<1> HIDE DEF m
<1>2. m \in Nat /\ x \in Nat /\ m <= x /\ x <= m
  BY <1>1
<1>3. m = x
  BY <1>2
<1> QED BY <1>3 DEF m

LEMMA RecordIs == ASSUME NEW r \in Record PROVE IsRecord(r) /\ r.seq \in Nat /\ r.dev = own
<1>1. DOMAIN r = {"dev", "seq", "copy"} /\ DOMAIN Blank = {"is"} /\ DOMAIN Torn = {"is"}
  BY DEF Record, Blank, Torn
<1>2. "dev" # "is"
  OBVIOUS
<1> QED BY <1>1, <1>2 DEF IsRecord, Record

LEMMA AtIs ==
  ASSUME NEW log \in Seq(Record), Sorted(log), NEW i \in DOMAIN log
  PROVE  At(log[i], log) = i
<1> DEFINE k == At(log[i], log)
<1>1. k \in DOMAIN log /\ log[k] = log[i]
  BY DEF At
<1> HIDE DEF k
<1>2. k = i
  BY <1>1, SortedDistinct
<1> QED BY <1>2 DEF k

LEMMA SeqsGrow ==
  ASSUME NEW log \in Seq(Record), Sorted(log), NEW i \in DOMAIN log, NEW j \in DOMAIN log, i <= j
  PROVE  log[i].seq <= log[j].seq
<1>1. log[i] \in Record /\ log[j] \in Record /\ i \in Nat /\ j \in Nat
  OBVIOUS
<1>2. CASE i = j
  BY <1>1, <1>2, RecordIs
<1>3. CASE i < j
  <2>1. Older(log[i], log[j])
    BY <1>3 DEF Sorted
  <2> QED BY <1>1, <2>1, RecordIs DEF Older
<1> QED BY <1>1, <1>2, <1>3

LEMMA WindowSize ==
  ASSUME NEW t \in Slots, NEW c \in 0 .. TotalSlots
  PROVE  Cardinality({s \in Slots : Ahead(t, s) < c}) = c
<1> DEFINE W == {s \in Slots : Ahead(t, s) < c}
           N == TotalSlots
<1>1. N \in Nat \ {0} /\ Slots = 0 .. N - 1 /\ t \in Nat /\ c \in Nat /\ t < N /\ c <= N
  BY Total DEF Slots
<1>2. CASE t + c <= N
  <2>1. W = t .. t + c - 1
    BY <1>1, <1>2 DEF Ahead
  <2>2. Cardinality(t .. t + c - 1) = c
    BY <1>1, FS_Interval
  <2> QED BY <2>1, <2>2
<1>3. CASE t + c > N
  <2> DEFINE A == t .. N - 1
             B == 0 .. t + c - N - 1
  <2>1. W = A \cup B /\ A \cap B = {}
    BY <1>1, <1>3 DEF Ahead
  <2>2. Cardinality(A) = N - t /\ IsFiniteSet(A)
    BY <1>1, FS_Interval
  <2>3. Cardinality(B) = t + c - N /\ IsFiniteSet(B)
    BY <1>1, <1>3, FS_Interval
  <2> HIDE DEF A, B, W
  <2>4. Cardinality(W) = Cardinality(A) + Cardinality(B) - Cardinality({})
    BY <2>1, <2>2, <2>3, FS_Union
  <2> QED BY <1>1, <2>2, <2>3, <2>4, FS_EmptySet DEF W
<1> QED BY <1>1, <1>2, <1>3

LEMMA FoundIs ==
  ASSUME NEW f, NEW h, NEW t, NEW c, NEW log \in Seq(Record), Sorted(log),
         Window(f, h, t, c, log), SeqsOrder(f, log)
  PROVE  /\ Found(f).count = c
         /\ Window(f, Found(f).head, Found(f).tail, c, log)
<1> DEFINE N == TotalSlots
           SeqIn(s) == f[s].payload.seq
           Seqs(S) == {SeqIn(s) : s \in S}
           least == Min(Seqs(Counted(f)))
           greatest == Max(Seqs(Intact(f)))
<1>1. /\ h \in Slots /\ t \in Slots /\ c \in 0 .. N /\ c <= Len(log) /\ h = Around(t + c)
      /\ f \in [Slots -> Slot] /\ Len(log) \in Nat /\ DOMAIN log = 1 .. Len(log)
  BY DEF Window
<1>2. N \in Nat \ {0} /\ Slots = 0 .. N - 1 /\ SlotsPerSector \in Nat \ {0}
  BY Total DEF Slots
<1>3. ASSUME NEW s \in Slots, f[s].magic
      PROVE  /\ s \in Intact(f)
             /\ \E i \in DOMAIN log : f[s].payload = log[i] /\ At(f[s].payload, log) = i
  <2>1. PICK i \in DOMAIN log : f[s].payload = log[i]
    BY <1>3 DEF Window
  <2>2. log[i] \in Record /\ At(log[i], log) = i
    BY <2>1, AtIs
  <2>3. IsRecord(f[s].payload)
    BY <2>1, <2>2, RecordIs
  <2> QED BY <1>3, <2>1, <2>2, <2>3 DEF Intact
<1>4. Counted(f) = Live(f) /\ Intact(f) \subseteq Slots /\ Live(f) \subseteq Intact(f)
  BY <1>3 DEF Counted, Live, Intact
<1>5. ASSUME NEW s \in Intact(f)
      PROVE  /\ SeqIn(s) \in Nat
             /\ \E i \in DOMAIN log : f[s].payload = log[i] /\ At(f[s].payload, log) = i
  <2>1. PICK i \in DOMAIN log : f[s].payload = log[i] /\ At(f[s].payload, log) = i
    BY <1>3 DEF Intact
  <2>2. log[i] \in Record
    BY <2>1
  <2> QED BY <2>1, <2>2, RecordIs
<1>6. ASSUME NEW s \in Live(f)
      PROVE  /\ Len(log) - c + 1 + Ahead(t, s) \in 1 .. Len(log)
             /\ f[s].payload = log[Len(log) - c + 1 + Ahead(t, s)]
             /\ At(f[s].payload, log) = Len(log) - c + 1 + Ahead(t, s)
             /\ Ahead(t, s) \in Nat
  <2>1. s \in Slots /\ Ahead(t, s) < c /\ f[s].payload = log[Len(log) - c + 1 + Ahead(t, s)]
    BY DEF Window
  <2>2. Ahead(t, s) \in Nat
    BY <1>1, <1>2, <2>1 DEF Ahead
  <2>3. Len(log) - c + 1 + Ahead(t, s) \in 1 .. Len(log)
    BY <1>1, <2>1, <2>2
  <2> QED BY <1>1, <2>1, <2>2, <2>3, AtIs
<1>7. Seqs(Counted(f)) \in SUBSET Nat /\ Seqs(Intact(f)) \in SUBSET Nat
  BY <1>4, <1>5
<1>8. Cardinality(Live(f)) = c
  BY <1>1, WindowSize DEF Window
<1>9. CASE c = 0
  <2>1. \A s \in Slots : ~ (Ahead(t, s) < 0) /\ ~ (Ahead(0, s) < 0)
    BY <1>1, <1>2 DEF Ahead
  <2>2. Live(f) = {}
    BY <1>9, <2>1 DEF Window
  <2>3. Found(f) = [head |-> 0, tail |-> 0, count |-> 0]
    BY <1>4, <2>2 DEF Found
  <2>4. 0 = Around(0 + 0) /\ 0 \in Slots /\ 0 % SlotsPerSector = 0
    BY <1>2 DEF Around
  <2>5. Live(f) = {s \in Slots : Ahead(0, s) < 0}
    BY <2>1, <2>2
  <2>6. Window(f, 0, 0, 0, log)
    BY <1>1, <1>2, <1>9, <2>2, <2>4, <2>5 DEF Window
  <2> QED BY <1>9, <2>3, <2>6
<1>10. CASE c # 0
  <2> DEFINE newest == Around(t + c - 1)
  <2>1. t \in Live(f) /\ Ahead(t, t) = 0
    BY <1>1, <1>2, <1>10 DEF Window, Ahead
  <2>2. newest \in Live(f) /\ Ahead(t, newest) = c - 1 /\ newest \in Slots
    <3>1. newest \in Slots /\ Ahead(t, newest) = c - 1
      BY <1>1, <1>2, <1>10 DEF Around, Ahead
    <3>2. Ahead(t, newest) < c
      BY <1>1, <3>1
    <3> HIDE DEF newest
    <3> QED BY <3>1, <3>2 DEF Window
  <2>3. HeadAfter(newest) = h
    <3>1. newest + 1 \in 0 .. 2 * N - 1 /\ newest \in Nat
      BY <1>2, <2>2
    <3>2. Around(newest + 1) = Around(t + c)
      BY <1>1, <1>2, <1>10 DEF Around
    <3> HIDE DEF newest
    <3> QED BY <1>1, <3>1, <3>2, AroundIs DEF HeadAfter
  <2> HIDE DEF newest
  <2>4. ASSUME NEW s \in Live(f) PROVE SeqIn(t) <= SeqIn(s)
    <3>1. Len(log) - c + 1 <= Len(log) - c + 1 + Ahead(t, s) /\ Len(log) - c + 1 \in DOMAIN log
      BY <1>1, <1>6, <1>10
    <3>2. f[t].payload = log[Len(log) - c + 1]
      BY <1>1, <1>6, <2>1
    <3> QED BY <1>1, <1>6, <3>1, <3>2, SeqsGrow
  <2>5. least = SeqIn(t)
    <3>1. SeqIn(t) \in Seqs(Counted(f)) /\ \A y \in Seqs(Counted(f)) : SeqIn(t) <= y
      BY <1>4, <2>1, <2>4
    <3> HIDE DEF Seqs
    <3>2. Min(Seqs(Counted(f))) = SeqIn(t)
      BY <1>7, <3>1, MinIs
    <3> QED BY <3>2
  <2>6. f[newest].payload = log[Len(log)] /\ At(f[newest].payload, log) = Len(log) /\ Len(log) \in DOMAIN log
    <3>1. Len(log) - c + 1 + Ahead(t, newest) = Len(log)
      BY <1>1, <2>2
    <3> QED BY <1>1, <1>6, <1>10, <2>2, <3>1
  <2>7. ASSUME NEW s \in Intact(f) PROVE SeqIn(s) <= SeqIn(newest)
    <3>1. PICK i \in DOMAIN log : f[s].payload = log[i]
      BY <1>5
    <3> QED BY <1>1, <2>6, <3>1, SeqsGrow
  <2>8. greatest = SeqIn(newest)
    <3>1. SeqIn(newest) \in Seqs(Intact(f)) /\ \A y \in Seqs(Intact(f)) : y <= SeqIn(newest)
      BY <1>4, <2>2, <2>7
    <3> HIDE DEF Seqs
    <3>2. Max(Seqs(Intact(f))) = SeqIn(newest)
      BY <1>7, <3>1, MaxIs
    <3> QED BY <3>2
  <2> DEFINE Lows == {s \in Counted(f) : SeqIn(s) = least}
             Highs == {s \in Intact(f) : SeqIn(s) = greatest}
  <2>9. Min(Lows) = t
    <3>1. ASSUME NEW s \in Lows PROVE t <= s
      <4> SUFFICES ASSUME s < t PROVE FALSE
        BY <1>1, <1>2, <1>4
      <4>1. s \in Intact(f) /\ t \in Intact(f) /\ s \in Live(f) /\ SeqIn(s) = SeqIn(t)
        BY <1>4, <2>1, <2>5
      <4>2. At(f[s].payload, log) < At(f[t].payload, log)
        BY <4>1 DEF SeqsOrder
      <4>3. /\ At(f[s].payload, log) = Len(log) - c + 1 + Ahead(t, s)
            /\ At(f[t].payload, log) = Len(log) - c + 1 + 0 /\ Ahead(t, s) \in Nat
        BY <1>6, <2>1, <4>1
      <4> QED BY <1>1, <4>2, <4>3
    <3>2. Lows \in SUBSET Nat /\ t \in Lows
      BY <1>2, <1>4, <2>1, <2>5
    <3> HIDE DEF Lows
    <3> QED BY <3>1, <3>2, MinIs
  <2>10. Max(Highs) = newest
    <3>1. ASSUME NEW s \in Highs PROVE s <= newest
      <4> SUFFICES ASSUME newest < s PROVE FALSE
        BY <1>2, <1>4, <2>2
      <4>1. s \in Intact(f) /\ newest \in Intact(f) /\ SeqIn(s) = SeqIn(newest)
        BY <1>4, <2>2, <2>8
      <4>2. At(f[newest].payload, log) < At(f[s].payload, log)
        BY <4>1 DEF SeqsOrder
      <4>3. PICK i \in DOMAIN log : At(f[s].payload, log) = i
        BY <1>5, <4>1
      <4> QED BY <1>1, <2>6, <4>2, <4>3
    <3>2. Highs \in SUBSET Nat /\ newest \in Highs
      BY <1>2, <1>4, <2>2, <2>8
    <3> HIDE DEF Highs
    <3> QED BY <3>1, <3>2, MaxIs
  <2>11. Found(f) = [head |-> HeadAfter(Max(Highs)), tail |-> Min(Lows), count |-> Cardinality(Counted(f))]
    <3>1. Counted(f) # {}
      BY <1>4, <2>1
    <3> QED BY <3>1 DEF Found
  <2> HIDE DEF Highs, Lows
  <2>12. Found(f) = [head |-> h, tail |-> t, count |-> c]
    BY <1>4, <1>8, <2>3, <2>9, <2>10, <2>11
  <2> QED BY <2>12
<1> QED BY <1>9, <1>10

-----------------------------------------------------------------------------
(* The log.                                                                *)
LEMMA NextRecord ==
  ASSUME LogInv, Alone
  PROVE  RecordOf(own) \in Record /\ own \in Device
BY RingAssumption DEF LogInv, RecordOf, Record

(* Whatever comes of an append, the next record is newer than this one.    *)
LEMMA CallerMoves ==
  ASSUME LogInv, Alone, Advances(own) \/ Stays(own)
  PROVE  /\ nextSeq' \in [Device -> Nat] /\ copy' \in [Device -> Nat]
         /\ Older(RecordOf(own), RecordOf(own)')
         /\ \A r \in Record : Older(r, RecordOf(own)) => Older(r, RecordOf(own)')
<1>1. /\ nextSeq \in [Device -> Nat] /\ copy \in [Device -> Nat] /\ own \in Device
  BY RingAssumption DEF LogInv
<1>2. /\ nextSeq' \in [Device -> Nat] /\ copy' \in [Device -> Nat]
      /\ \/ nextSeq'[own] = nextSeq[own] + 1 /\ copy'[own] = 0
         \/ nextSeq'[own] = nextSeq[own] /\ copy'[own] = copy[own] + 1
  <2>1. CASE Advances(own)
    BY <1>1, <2>1 DEF Advances
  <2>2. CASE Stays(own)
    BY <1>1, <2>2 DEF Stays
  <2> QED BY <2>1, <2>2
<1>3. /\ RecordOf(own).seq = nextSeq[own] /\ RecordOf(own).copy = copy[own]
      /\ RecordOf(own)'.seq = nextSeq'[own] /\ RecordOf(own)'.copy = copy'[own]
  BY DEF RecordOf
<1>4. nextSeq[own] \in Nat /\ copy[own] \in Nat
  BY <1>1
<1>5. Older(RecordOf(own), RecordOf(own)')
  BY <1>2, <1>3, <1>4 DEF Older
<1>6. ASSUME NEW r \in Record, Older(r, RecordOf(own)) PROVE Older(r, RecordOf(own)')
  <2>1. r.seq \in Nat /\ r.copy \in Nat
    BY DEF Record
  <2> QED BY <1>2, <1>3, <1>4, <1>6, <2>1 DEF Older
<1> QED BY <1>2, <1>5, <1>6

LEMMA LogStays ==
  ASSUME LogInv, Alone, Advances(own) \/ Stays(own), written' = written
  PROVE  LogInv'
<1>1. /\ nextSeq' \in [Device -> Nat] /\ copy' \in [Device -> Nat]
      /\ \A r \in Record : Older(r, RecordOf(own)) => Older(r, RecordOf(own)')
  BY CallerMoves
<1>2. \A i \in DOMAIN written : written[i] \in Record
  BY DEF LogInv
<1> QED BY <1>1, <1>2 DEF LogInv

LEMMA LogGrows ==
  ASSUME LogInv, Alone, Advances(own) \/ Stays(own), written' = Append(written, RecordOf(own))
  PROVE  LogInv'
<1> DEFINE r == RecordOf(own)
           n == Len(written)
<1>1. /\ nextSeq' \in [Device -> Nat] /\ copy' \in [Device -> Nat]
      /\ Older(r, RecordOf(own)')
      /\ \A q \in Record : Older(q, r) => Older(q, RecordOf(own)')
  BY CallerMoves
<1>2. written \in Seq(Record) /\ n \in Nat /\ DOMAIN written = 1 .. n /\ r \in Record
  BY NextRecord DEF LogInv
<1> HIDE DEF r
<1>3. /\ written' \in Seq(Record) /\ DOMAIN written' = 1 .. n + 1 /\ written'[n + 1] = r
      /\ \A i \in 1 .. n : written'[i] = written[i] /\ written[i] \in Record
  BY <1>2 DEF r
<1>4. \A i \in 1 .. n : Older(written[i], r)
  BY <1>2 DEF LogInv, r
<1>5. Sorted(written')
  <2> SUFFICES ASSUME NEW i \in 1 .. n + 1, NEW j \in 1 .. n + 1, i < j
               PROVE  Older(written'[i], written'[j])
    BY <1>3 DEF Sorted
  <2>1. i \in 1 .. n
    BY <1>2
  <2>2. CASE j = n + 1
    BY <1>3, <1>4, <2>1, <2>2
  <2>3. CASE j # n + 1
    <3>1. j \in 1 .. n
      BY <1>2, <2>3
    <3>2. Older(written[i], written[j])
      BY <1>2, <2>1, <3>1 DEF LogInv, Sorted
    <3> QED BY <1>3, <2>1, <3>1, <3>2
  <2> QED BY <2>2, <2>3
<1>6. ASSUME NEW i \in 1 .. n + 1 PROVE Older(written'[i], RecordOf(own)')
  <2>1. CASE i = n + 1
    BY <1>1, <1>3, <2>1
  <2>2. CASE i # n + 1
    <3>1. i \in 1 .. n
      BY <1>2, <2>2
    <3> QED BY <1>1, <1>3, <1>4, <3>1
  <2> QED BY <2>1, <2>2
<1> QED BY <1>1, <1>3, <1>5, <1>6 DEF LogInv, Sorted

-----------------------------------------------------------------------------
(* A release takes away the old end of the window.                         *)
LEMMA ReleasedRun ==
  ASSUME NEW log \in Seq(Record), Sorted(log), NEW c \in 0 .. Len(log), NEW n \in Nat
  PROVE  \E m \in 0 .. c : \A i \in 1 .. Len(log) :
           Len(log) - c < i => (log[i].seq <= n <=> i <= Len(log) - c + m)
<1> DEFINE a == Len(log) - c
           late == {i \in 1 .. Len(log) : a < i /\ ~ (log[i].seq <= n)}
<1>1. Len(log) \in Nat /\ a \in Nat /\ DOMAIN log = 1 .. Len(log) /\ c \in Nat /\ a + c = Len(log)
  OBVIOUS
<1>2. CASE late = {}
  <2>1. c \in 0 .. c /\ \A i \in 1 .. Len(log) : a < i => (log[i].seq <= n <=> i <= a + c)
    BY <1>1, <1>2
  <2> QED BY <2>1
<1>3. CASE late # {}
  <2>1. PICK x \in late : \A y \in late : x <= y
    <3>1. late \in SUBSET Nat
      BY <1>1
    <3> HIDE DEF late
    <3> QED BY <1>3, <3>1, LeastNatural
  <2> DEFINE m == x - a - 1
  <2>2. m \in 0 .. c /\ x \in 1 .. Len(log) /\ a < x /\ a + m = x - 1 /\ ~ (log[x].seq <= n)
    BY <1>1, <2>1
  <2>3. ASSUME NEW i \in 1 .. Len(log), a < i PROVE log[i].seq <= n <=> i <= a + m
    <3>1. CASE i < x
      <4>1. i \notin late
        <5>1. ~ (x <= i)
          BY <1>1, <2>2, <3>1
        <5> HIDE DEF late
        <5> QED BY <2>1, <5>1
      <4>2. log[i].seq <= n
        BY <2>3, <4>1
      <4>3. i <= a + m
        BY <1>1, <2>2, <3>1
      <4> QED BY <4>2, <4>3
    <3>2. CASE x <= i
      <4>1. log[x].seq <= log[i].seq
        BY <1>1, <2>2, <3>2, SeqsGrow
      <4>2. log[x].seq \in Nat /\ log[i].seq \in Nat
        BY <1>1, <2>2, RecordIs
      <4> QED BY <1>1, <2>2, <3>2, <4>1, <4>2
    <3> QED BY <1>1, <2>2, <3>1, <3>2
  <2> HIDE DEF m
  <2> QED BY <2>2, <2>3
<1> QED BY <1>2, <1>3

LEMMA ReleaseIs ==
  ASSUME Alone, LogInv, Window(flash, head, tail, count, written), NEW n \in Nat, Release(own, n)
  PROVE  /\ Window(flash', head', tail', count', written')
         /\ written' = written /\ count' <= count
         /\ \A i \in 1 .. Len(written) : Len(written) - count < i =>
              (written[i].seq <= n <=> i <= Len(written) - count')
<1> DEFINE N == TotalSlots
           a == Len(written) - count
<1>1. /\ head \in Slots /\ tail \in Slots /\ count \in 0 .. N /\ count <= Len(written)
      /\ head = Around(tail + count) /\ flash \in [Slots -> Slot]
      /\ written \in Seq(Record) /\ Sorted(written) /\ Len(written) \in Nat /\ a \in Nat
      /\ DOMAIN written = 1 .. Len(written)
  BY DEF Window, LogInv
<1>2. N \in Nat \ {0} /\ Slots = 0 .. N - 1
  BY Total DEF Slots
<1>3. ASSUME NEW s \in Live(flash)
      PROVE  /\ Ahead(tail, s) \in 0 .. count - 1 /\ s \in Slots /\ flash[s].magic
             /\ a + 1 + Ahead(tail, s) \in 1 .. Len(written) /\ a < a + 1 + Ahead(tail, s)
             /\ flash[s].payload = written[a + 1 + Ahead(tail, s)]
             /\ IsRecord(flash[s].payload) /\ flash[s].payload.dev = own
  <2>1. s \in Slots /\ Ahead(tail, s) < count /\ flash[s].magic
        /\ flash[s].payload = written[a + 1 + Ahead(tail, s)]
    BY DEF Window, Live
  <2>2. Ahead(tail, s) \in 0 .. count - 1
    BY <1>1, <1>2, <2>1 DEF Ahead
  <2>3. a + 1 + Ahead(tail, s) \in 1 .. Len(written) /\ a < a + 1 + Ahead(tail, s)
    BY <1>1, <2>2
  <2> QED BY <1>1, <2>1, <2>2, <2>3, RecordIs
<1>4. PICK m \in 0 .. count : \A i \in 1 .. Len(written) :
        a < i => (written[i].seq <= n <=> i <= a + m)
  <2>1. count \in 0 .. Len(written)
    BY <1>1
  <2>2. \E m \in 0 .. count : \A i \in 1 .. Len(written) :
          Len(written) - count < i => (written[i].seq <= n <=> i <= Len(written) - count + m)
    <3> HIDE DEF a, N
    <3> QED BY <1>1, <2>1, ReleasedRun
  <2> QED BY <2>2
<1>5. ASSUME NEW s \in Live(flash) PROVE s \in Below(own, n) <=> Ahead(tail, s) < m
  <2>1. flash[s].payload.seq <= n <=> a + 1 + Ahead(tail, s) <= a + m
    BY <1>3, <1>4
  <2>2. Ahead(tail, s) \in Int /\ m \in Int
    BY <1>3
  <2> QED BY <1>1, <1>3, <2>1, <2>2 DEF Below
<1>6. Below(own, n) \subseteq Live(flash)
  BY DEF Below
<1>7. flash' = [s \in Slots |-> IF s \in Below(own, n) THEN [flash[s] EXCEPT !.live = FALSE] ELSE flash[s]]
  <2>1. {s \in Live(flash) : ~IsRecord(flash[s].payload)} = {}
    BY <1>3
  <2>2. PICK torn \in SUBSET {s \in Live(flash) : ~IsRecord(flash[s].payload)} :
          flash' = [s \in Slots |-> IF s \in Below(own, n) \cup torn THEN [flash[s] EXCEPT !.live = FALSE]
                                    ELSE flash[s]]
    BY DEF Release
  <2>3. torn = {}
    BY <2>1
  <2>4. Below(own, n) \cup torn = Below(own, n)
    BY <2>3
  <2> QED BY <2>2, <2>4
<1>8. ASSUME NEW s \in Slots
      PROVE  /\ flash'[s] \in Slot /\ flash'[s].payload = flash[s].payload
             /\ flash'[s].magic = flash[s].magic
             /\ s \in Below(own, n) => flash'[s].live = FALSE
             /\ s \notin Below(own, n) => flash'[s] = flash[s]
  <2>1. flash[s] \in Slot
    BY <1>1
  <2>2. flash'[s] = IF s \in Below(own, n) THEN [flash[s] EXCEPT !.live = FALSE] ELSE flash[s]
    BY <1>7
  <2> QED BY <2>1, <2>2 DEF Slot
<1>9. ASSUME NEW s \in Slots
      PROVE  s \in Live(flash') <=> (m <= Ahead(tail, s) /\ Ahead(tail, s) < count)
  <2>1. s \in Live(flash') <=> s \in Live(flash) /\ s \notin Below(own, n)
    BY <1>6, <1>8 DEF Live
  <2>2. s \in Live(flash) <=> Ahead(tail, s) < count
    BY DEF Window
  <2>3. Ahead(tail, s) \in Int /\ m \in Int
    BY <1>1, <1>2 DEF Ahead
  <2> QED BY <1>5, <2>1, <2>2, <2>3
<1>10. Passed(flash') = m
  <2> DEFINE Over(k) == \A i \in 1 .. k : flash'[From(tail)[i]].magic /\ ~flash'[From(tail)[i]].live
             S == {k \in 0 .. Min({count, TotalSlots}) : Over(k)}
  <2>1. /\ From(tail) \in Seq(Slots) /\ Len(From(tail)) = N
        /\ \A i \in 1 .. N : From(tail)[i] \in Slots /\ Ahead(tail, From(tail)[i]) = i - 1
    BY <1>1, FromIs
  <2>2. Min({count, TotalSlots}) = count
    <3>1. {count, N} \in SUBSET Nat /\ count \in {count, N} /\ \A y \in {count, N} : count <= y
      BY <1>1, <1>2
    <3> QED BY <3>1, MinIs
  <2>3. ASSUME NEW i \in 1 .. N, i <= m
        PROVE  flash'[From(tail)[i]].magic /\ ~flash'[From(tail)[i]].live
    <3> DEFINE s == From(tail)[i]
    <3>1. s \in Slots /\ Ahead(tail, s) = i - 1
      BY <2>1
    <3> HIDE DEF s
    <3>2. Ahead(tail, s) < count /\ Ahead(tail, s) < m
      BY <1>1, <2>3, <3>1
    <3>3. s \in Live(flash)
      BY <3>1, <3>2 DEF Window
    <3>4. flash'[s].magic /\ ~flash'[s].live
      BY <1>3, <1>5, <1>8, <3>2, <3>3
    <3> QED BY <3>4 DEF s
  <2>4. ASSUME m < count PROVE ~ Over(m + 1)
    <3> DEFINE s == From(tail)[m + 1]
    <3>1. s \in Slots /\ Ahead(tail, s) = m /\ m + 1 \in 1 .. m + 1
      BY <1>1, <2>1, <2>4
    <3> HIDE DEF s
    <3>2. s \in Live(flash')
      BY <1>1, <1>9, <2>4, <3>1
    <3>3. flash'[s].live
      BY <3>2 DEF Live
    <3> QED BY <3>1, <3>3 DEF s
  <2>5. m \in S
    <3>1. \A i \in 1 .. m : i \in 1 .. N /\ i <= m
      BY <1>1, <1>2
    <3>2. Over(m)
      BY <2>3, <3>1
    <3> HIDE DEF Over
    <3> QED BY <1>1, <2>2, <3>2
  <2>6. ASSUME NEW k \in S PROVE k <= m
    <3>1. k \in 0 .. count /\ Over(k)
      <4> HIDE DEF Over
      <4> QED BY <2>2
    <3> SUFFICES ASSUME m < k PROVE FALSE
      BY <1>1, <3>1
    <3>2. Over(m + 1)
      BY <1>1, <3>1
    <3> HIDE DEF Over
    <3> QED BY <1>1, <2>4, <3>1, <3>2
  <2>7. S \in SUBSET Nat
    <3> HIDE DEF Over
    <3> QED BY <1>1, <2>2
  <2>8. Passed(flash') = Max(S)
    BY DEF Passed
  <2> HIDE DEF S
  <2> QED BY <2>5, <2>6, <2>7, <2>8, MaxIs
<1>11. count' = count - m /\ head' = head /\ written' = written /\ tail' = Around(tail + m) /\ tail' \in Slots
  <2>1. tail' = (tail + m) % TotalSlots /\ count' = count - m /\ head' = head /\ written' = written
    BY <1>10 DEF Release, historyVars
  <2>2. tail + m \in 0 .. 2 * TotalSlots - 1
    BY <1>1, <1>2
  <2> QED BY <2>1, <2>2, AroundIs
<1>12. ASSUME NEW s \in Slots
       PROVE  /\ Ahead(tail', s) < count - m <=> (m <= Ahead(tail, s) /\ Ahead(tail, s) < count)
              /\ m <= Ahead(tail, s) => Ahead(tail', s) = Ahead(tail, s) - m
  <2>1. Ahead(tail, s) = IF s >= tail THEN s - tail ELSE s + N - tail
    BY DEF Ahead
  <2>2. Ahead(tail', s) = IF s >= tail' THEN s - tail' ELSE s + N - tail'
    BY DEF Ahead
  <2>3. tail' = IF tail + m < N THEN tail + m ELSE tail + m - N
    BY <1>1, <1>2, <1>11 DEF Around
  <2>4. s \in 0 .. N - 1 /\ tail \in 0 .. N - 1 /\ m \in 0 .. count /\ count \in 0 .. N /\ N \in Nat
    BY <1>1, <1>2
  <2> HIDE DEF N
  <2> QED BY <2>1, <2>2, <2>3, <2>4
<1>13. Live(flash') = {s \in Slots : Ahead(tail', s) < count - m}
  BY <1>9, <1>12 DEF Live
<1>14. ASSUME NEW s \in Live(flash')
       PROVE  flash'[s].payload = written[Len(written) - (count - m) + 1 + Ahead(tail', s)]
  <2>1. s \in Slots /\ m <= Ahead(tail, s) /\ Ahead(tail, s) < count /\ Ahead(tail, s) \in Int
    BY <1>1, <1>2, <1>9 DEF Live, Ahead
  <2>2. s \in Live(flash)
    BY <2>1 DEF Window
  <2>3. flash'[s].payload = written[a + 1 + Ahead(tail, s)]
    BY <1>3, <1>8, <2>1, <2>2
  <2>4. a + 1 + Ahead(tail, s) = Len(written) - (count - m) + 1 + Ahead(tail', s)
    BY <1>1, <1>12, <2>1
  <2> QED BY <2>3, <2>4
<1>15. \A s \in Slots : flash'[s].magic => \E i \in DOMAIN written : flash'[s].payload = written[i]
  <2>1. \A s \in Slots : flash[s].magic => \E i \in DOMAIN written : flash[s].payload = written[i]
    BY DEF Window
  <2>2. \A s \in Slots : flash'[s].magic = flash[s].magic /\ flash'[s].payload = flash[s].payload
    BY <1>8
  <2> QED BY <2>1, <2>2
<1>16. head % SlotsPerSector # 0 => Fresh(flash', head)
  <2>1. ASSUME NEW s \in Slots, flash[s] \in Writable PROVE flash'[s] = flash[s]
    <3>1. s \notin Live(flash)
      BY <2>1, WritableIs DEF Live
    <3> QED BY <1>6, <1>8, <3>1
  <2> QED BY <2>1 DEF Window, Fresh
<1>17. /\ flash' \in [Slots -> Slot] /\ count - m \in 0 .. N /\ count - m <= Len(written)
       /\ head = Around(tail' + (count - m))
  <2>1. flash' \in [Slots -> Slot]
    BY <1>7, <1>8
  <2>2. count - m \in 0 .. N /\ count - m <= Len(written)
    BY <1>1, <1>2
  <2>3. head = Around(tail' + (count - m))
    BY <1>1, <1>2, <1>11 DEF Around
  <2> QED BY <2>1, <2>2, <2>3
<1>18. Window(flash', head, tail', count - m, written)
  BY <1>1, <1>11, <1>13, <1>14, <1>15, <1>16, <1>17 DEF Window
<1>19. a + m = Len(written) - (count - m)
  BY <1>1
<1> QED BY <1>1, <1>4, <1>11, <1>18, <1>19

-----------------------------------------------------------------------------
(* The steps.  What is gone grows by nothing, or up to the records that    *)
(* fit into all sectors but one.                                           *)
Kept ==
  /\ written' = written \/ written' = Append(written, RecordOf(own))
  /\ \/ Len(written') - count' = Len(written) - count
     \/ /\ Len(written') - count' = Len(written) - (TotalSlots - SlotsPerSector)
        /\ Len(written) - count < Len(written) - (TotalSlots - SlotsPerSector)

Good ==
  /\ LogInv' /\ overlaid' \in BOOLEAN /\ unordered' \in BOOLEAN
  /\ ~Spoiled' => Window(flash', head', tail', count', written') /\ Kept

LEMMA CompletedIs ==
  ASSUME Alone, LogInv, Window(flash, head, tail, count, written), Complete(Room.flash, own), ~overlaid'
  PROVE  /\ Window(flash', Around(head + 1), Room.tail, Room.count + 1, written')
         /\ written' = Append(written, RecordOf(own))
<1> DEFINE f == Room.flash
           r == RecordOf(own)
<1>1. /\ written \in Seq(Record) /\ r \in Record /\ head \in Slots
  BY NextRecord DEF LogInv, Window
<1>2. /\ Window(f, head, Room.tail, Room.count, written) /\ Fresh(f, head)
      /\ Room.count < TotalSlots
  BY <1>1, RoomIs
<1>3. f[head] \in Writable
  <2>1. head <= head /\ \A t \in head + 1 .. head : t % SlotsPerSector # 0
    BY <1>1, Total DEF Slots
  <2> HIDE DEF f
  <2> QED BY <1>1, <1>2, <2>1 DEF Fresh
<1>4. f[head].payload = Blank
  <2>1. ~ (f[head].payload = Torn /\ ~f[head].magic)
    BY DEF Complete
  <2> HIDE DEF f
  <2> QED BY <1>3, <2>1, WritableIs
<1>5. flash' = [f EXCEPT ![head] = Programmed(@, r)] /\ written' = Append(written, r)
  BY DEF Complete
<1> HIDE DEF f, r
<1>6. Window(flash', Around(head + 1), Room.tail, Room.count + 1, Append(written, r))
  BY <1>1, <1>2, <1>4, <1>5, CompleteIs DEF f
<1> QED BY <1>5, <1>6 DEF r

LEMMA PartialWindow ==
  ASSUME LogInv, Window(flash, head, tail, count, written),
         NEW slot \in Partial(Room.flash[head]), flash' = [Room.flash EXCEPT ![head] = slot]
  PROVE  Window(flash', head, Room.tail, Room.count, written)
<1>1. written \in Seq(Record)
  BY DEF LogInv
<1>2. Window(Room.flash, head, Room.tail, Room.count, written) /\ Fresh(Room.flash, head)
  BY <1>1, RoomIs
<1> QED BY <1>2, PartialIs

(* How many are gone, once room was made and perhaps a record written.     *)
LEMMA CountKept ==
  ASSUME LogInv, Window(flash, head, tail, count, written),
         \/ written' = written /\ count' = Room.count
         \/ written' = Append(written, RecordOf(own)) /\ count' = Room.count + 1
  PROVE  Kept
<1>1. written \in Seq(Record) /\ Len(written) \in Nat /\ count \in Nat
  BY Total DEF LogInv, Window
<1>2. \/ Room.count = count
      \/ Room.count = TotalSlots - SlotsPerSector /\ Room.count < count
  BY <1>1, RoomIs
<1>3. TotalSlots \in Nat /\ SlotsPerSector \in Nat
  BY Total
<1>4. CASE written' = written /\ count' = Room.count
  BY <1>1, <1>2, <1>3, <1>4 DEF Kept
<1>5. CASE written' = Append(written, RecordOf(own)) /\ count' = Room.count + 1
  <2>1. Len(written') = Len(written) + 1
    BY <1>1, <1>5
  <2>2. \/ Len(written') - count' = Len(written) - count
        \/ /\ Len(written') - count' = Len(written) - (TotalSlots - SlotsPerSector)
           /\ Len(written) - count < Len(written) - (TotalSlots - SlotsPerSector)
    <3>1. Len(written') - count' = Len(written) - Room.count
      <4> DEFINE c == Room.count
      <4>1. c \in Int
        BY <1>1, <1>2, <1>3
      <4>2. count' = c + 1
        BY <1>5
      <4> HIDE DEF c
      <4>3. Len(written') - count' = Len(written) - c
        BY <1>1, <2>1, <4>1, <4>2
      <4> QED BY <4>3 DEF c
    <3> QED BY <1>1, <1>2, <1>3, <3>1
  <2> QED BY <1>5, <2>2 DEF Kept
<1> QED BY <1>4, <1>5

LEMMA AppendIsGood ==
  ASSUME Alone, RingInv, ~Spoiled, AppendRecord(own)
  PROVE  Good
<1>1. LogInv /\ Window(flash, head, tail, count, written) /\ overlaid \in BOOLEAN /\ unordered \in BOOLEAN
  BY DEF RingInv
<1>2. /\ Complete(Room.flash, own) /\ written' = Append(written, RecordOf(own))
      /\ head' = (head + 1) % TotalSlots /\ tail' = Room.tail /\ count' = AddOne(Room.count)
      /\ Advances(own) \/ Stays(own)
      /\ unordered' = unordered
  BY DEF AppendRecord, Complete
<1>3. LogInv'
  BY <1>1, <1>2, LogGrows
<1>4. overlaid' \in BOOLEAN
  BY <1>1, <1>2 DEF Complete
<1>5. ASSUME ~Spoiled' PROVE Window(flash', head', tail', count', written') /\ Kept
  <2>1. Window(flash', Around(head + 1), Room.tail, Room.count + 1, written')
    BY <1>1, <1>2, <1>5, CompletedIs DEF Spoiled
  <2>2. head' = Around(head + 1)
    <3>1. head + 1 \in 0 .. 2 * TotalSlots - 1
      BY <1>1, Total DEF Window, Slots
    <3> QED BY <1>2, <3>1, AroundIs
  <2>3. count' = Room.count + 1
    <3>1. Room.count < TotalSlots
      BY <1>1, RoomIs DEF LogInv
    <3> QED BY <1>2, <3>1 DEF AddOne
  <2> QED BY <1>1, <1>2, <2>1, <2>2, <2>3, CountKept
<1> QED BY <1>1, <1>2, <1>3, <1>4, <1>5 DEF Good

LEMMA FailureIsGood ==
  ASSUME Alone, RingInv, ~Spoiled, AppendFails(own)
  PROVE  Good
<1>1. LogInv /\ Window(flash, head, tail, count, written) /\ overlaid \in BOOLEAN /\ unordered \in BOOLEAN
  BY DEF RingInv
<1>2. /\ \E slot \in Partial(Room.flash[head]) : flash' = [Room.flash EXCEPT ![head] = slot]
      /\ tail' = Room.tail /\ count' = Room.count /\ head' = head /\ written' = written
      /\ Stays(own) /\ overlaid' = overlaid /\ unordered' = unordered
  BY DEF AppendFails, NotAppended, historyVars
<1>3. LogInv'
  BY <1>1, <1>2, LogStays
<1>4. Window(flash', head', tail', count', written')
  BY <1>1, <1>2, PartialWindow
<1>5. Kept
  BY <1>1, <1>2, CountKept
<1> QED BY <1>1, <1>2, <1>3, <1>4, <1>5 DEF Good

(* begin finds whatever window the flash holds.                            *)
LEMMA ReopenIs ==
  ASSUME NEW h, NEW t, NEW c, LogInv', Window(flash', h, t, c, written'), Reopen, ~unordered'
  PROVE  Window(flash', head', tail', count', written') /\ count' = c
<1>1. written' \in Seq(Record) /\ Sorted(written')
  BY DEF LogInv
<1>2. SeqsOrder(flash', written')
  BY DEF Reopen
<1>3. head' = Found(flash').head /\ tail' = Found(flash').tail /\ count' = Found(flash').count
  BY DEF Reopen, Begin
<1>4. Found(flash').count = c /\ Window(flash', Found(flash').head, Found(flash').tail, c, written')
  BY <1>1, <1>2, FoundIs
<1> QED BY <1>3, <1>4

LEMMA PowerCutIsGood ==
  ASSUME Alone, RingInv, ~Spoiled, PowerCut(own)
  PROVE  Good
<1>1. LogInv /\ Window(flash, head, tail, count, written) /\ overlaid \in BOOLEAN /\ unordered \in BOOLEAN
  BY DEF RingInv
<1>2. Stays(own) /\ Reopen
  BY DEF PowerCut, NotAppended
<1>3. unordered' \in BOOLEAN
  BY <1>1, <1>2 DEF Reopen
<1>4. CASE /\ \E slot \in Partial(Room.flash[head]) : flash' = [Room.flash EXCEPT ![head] = slot]
           /\ written' = written /\ overlaid' = overlaid
  <2>1. LogInv'
    BY <1>1, <1>2, <1>4, LogStays
  <2>2. Window(flash', head, Room.tail, Room.count, written')
    BY <1>1, <1>4, PartialWindow
  <2>3. ASSUME ~Spoiled' PROVE Window(flash', head', tail', count', written') /\ Kept
    <3>1. Window(flash', head', tail', count', written') /\ count' = Room.count
      BY <1>2, <2>1, <2>2, <2>3, ReopenIs DEF Spoiled
    <3> QED BY <1>1, <1>4, <3>1, CountKept
  <2> QED BY <1>1, <1>3, <1>4, <2>1, <2>3 DEF Good
<1>5. CASE Complete(Room.flash, own)
  <2>1. LogInv' /\ overlaid' \in BOOLEAN
    BY <1>1, <1>2, <1>5, LogGrows DEF Complete
  <2>2. ASSUME ~Spoiled' PROVE Window(flash', head', tail', count', written') /\ Kept
    <3>1. /\ Window(flash', Around(head + 1), Room.tail, Room.count + 1, written')
          /\ written' = Append(written, RecordOf(own))
      BY <1>1, <1>5, <2>2, CompletedIs DEF Spoiled
    <3>2. Window(flash', head', tail', count', written') /\ count' = Room.count + 1
      BY <1>2, <2>1, <2>2, <3>1, ReopenIs DEF Spoiled
    <3> QED BY <1>1, <3>1, <3>2, CountKept
  <2> QED BY <1>3, <2>1, <2>2 DEF Good
<1> QED BY <1>4, <1>5 DEF PowerCut

LEMMA RebootIsGood ==
  ASSUME Alone, RingInv, ~Spoiled, Reboot
  PROVE  Good
<1>1. LogInv /\ Window(flash, head, tail, count, written) /\ overlaid \in BOOLEAN /\ unordered \in BOOLEAN
  BY DEF RingInv
<1>2. /\ flash' = flash /\ written' = written /\ overlaid' = overlaid
      /\ nextSeq' = nextSeq /\ copy' = copy /\ Reopen
  BY DEF Reboot, callerVars
<1>3. LogInv' /\ unordered' \in BOOLEAN
  BY <1>1, <1>2 DEF LogInv, Reopen, RecordOf
<1>4. ASSUME ~Spoiled' PROVE Window(flash', head', tail', count', written') /\ Kept
  <2>1. Window(flash', head, tail, count, written')
    BY <1>1, <1>2
  <2>2. Window(flash', head', tail', count', written') /\ count' = count
    BY <1>2, <1>3, <1>4, <2>1, ReopenIs DEF Spoiled
  <2> QED BY <1>2, <2>2 DEF Kept
<1> QED BY <1>1, <1>2, <1>3, <1>4 DEF Good

-----------------------------------------------------------------------------
LEMMA RingStart ==
  ASSUME Alone, Init
  PROVE  RingInv
<1>1. /\ 0 \in Slots /\ 0 \in 0 .. TotalSlots /\ Around(0) = 0
  BY Total DEF Slots, Around
<1>2. LogInv
  BY <1>1 DEF Init, LogInv, Sorted
<1>3. flash \in [Slots -> Slot] /\ \A s \in Slots : flash[s] = Erased
  BY DEF Init, Erased, Slot
<1>4. \A s \in Slots : ~flash[s].magic
  BY <1>3 DEF Erased
<1>5. Live(flash) = {s \in Slots : Ahead(0, s) < 0}
  BY <1>4, Total DEF Live, Ahead, Slots
<1>6. Live(flash) = {}
  BY <1>4 DEF Live
<1>7. 0 % SlotsPerSector = 0
  BY Total, SmallMod
<1>8. Window(flash, 0, 0, 0, <<>>)
  BY <1>1, <1>3, <1>4, <1>5, <1>6, <1>7 DEF Window
<1> QED BY <1>2, <1>8 DEF Init, RingInv

(* What is released was written, and is acknowledged with all before it.   *)
LEMMA ReleaseStep ==
  ASSUME Alone, RingInv, ~Spoiled, NEW d \in Device, NEW r \in ToSet(written), Release(d, r.seq)
  PROVE  /\ r.seq \in Nat /\ Release(own, r.seq)
         /\ LogInv' /\ Spoiled' = Spoiled
         /\ overlaid' \in BOOLEAN /\ unordered' \in BOOLEAN
<1>1. LogInv /\ overlaid \in BOOLEAN /\ unordered \in BOOLEAN
  BY DEF RingInv
<1>2. written \in Seq(Record) /\ r \in Record
  BY <1>1 DEF LogInv, ToSet
<1>3. r.seq \in Nat /\ d = own
  BY <1>2 DEF Alone, Record
<1>4. UNCHANGED <<nextSeq, copy, written, overlaid, unordered>>
  BY DEF Release, callerVars, historyVars
<1> QED BY <1>1, <1>3, <1>4 DEF LogInv, Spoiled, RecordOf

LEMMA RingStep ==
  ASSUME Alone, RingInv, [Next]_vars
  PROVE  RingInv'
<1>1. ASSUME Good PROVE RingInv'
  BY <1>1 DEF Good, RingInv
<1>2. CASE UNCHANGED vars
  BY <1>2 DEF RingInv, LogInv, RecordOf, Spoiled, Window, Live, Fresh, vars, ringVars, callerVars, historyVars
<1>3. ASSUME ~Spoiled, NEW d \in Device, AppendRecord(d) PROVE RingInv'
  BY <1>1, <1>3, AppendIsGood DEF Alone
<1>4. ASSUME ~Spoiled, NEW d \in Device, AppendFails(d) PROVE RingInv'
  BY <1>1, <1>4, FailureIsGood DEF Alone
<1>5. ASSUME ~Spoiled, NEW d \in Device, PowerCut(d) PROVE RingInv'
  BY <1>1, <1>5, PowerCutIsGood DEF Alone
<1>6. ASSUME ~Spoiled, NEW d \in Device, NEW r \in ToSet(written), Release(d, r.seq) PROVE RingInv'
  <2>1. /\ r.seq \in Nat /\ Release(own, r.seq) /\ LogInv'
        /\ overlaid' \in BOOLEAN /\ unordered' \in BOOLEAN
    BY <1>6, ReleaseStep
  <2>2. Window(flash', head', tail', count', written')
    BY <1>6, <2>1, ReleaseIs DEF RingInv
  <2> QED BY <2>1, <2>2 DEF RingInv
<1>7. ASSUME ~Spoiled, Reboot PROVE RingInv'
  BY <1>1, <1>7, RebootIsGood
<1> QED BY <1>2, <1>3, <1>4, <1>5, <1>6, <1>7 DEF Next

THEOREM RingInvAlways ==
  ASSUME Alone
  PROVE  RingSpec => []RingInv
<1>1. Init => RingInv
  BY RingStart
<1>2. RingInv /\ [Next]_vars => RingInv'
  BY RingStep
<1> QED BY <1>1, <1>2, PTL DEF RingSpec

(* peekCanonical hands out a node's own records in the order they were     *)
(* written, whatever was cut off, failed or was released before it and     *)
(* however often the node restarted (docs/ARCHITECTURE.md:124).            *)
THEOREM DrainsInOrderAlways ==
  ASSUME Alone
  PROVE  RingSpec => []DrainsInOrder
<1>1. RingInv => DrainsInOrder
  BY DrainIs DEF RingInv, DrainsInOrder
<1> QED BY <1>1, RingInvAlways, PTL

-----------------------------------------------------------------------------
(* The refinement of RecordBuffer.                                         *)
LEMMA PromisedIs == (Sectors - 1) * SlotsPerSector = TotalSlots - SlotsPerSector
BY RingAssumption DEF TotalSlots

GoneInv == ~Spoiled => Gone = 1 .. Len(written) - count

LEMMA GoneAlways == RingInv => GoneInv
BY GoneIs DEF RingInv, GoneInv

LEMMA GoneNext == RingInv' => GoneInv'
BY GoneAlways, PTL

LEMMA PromiseStarts ==
  ASSUME Alone, Init
  PROVE  Promise!BufferInit
<1>1. written = <<>> /\ count = 0 /\ Spoiled = FALSE
  BY DEF Init, Spoiled
<1>2. Gone = {}
  BY <1>1, RingStart, GoneAlways DEF GoneInv
<1> QED BY <1>1, <1>2 DEF Promise!BufferInit

(* A step that writes, or that only loses what was oldest.                 *)
LEMMA KeptIsPromised ==
  ASSUME RingInv, RingInv', ~Spoiled, ~Spoiled', Kept
  PROVE  Promise!Write \/ Promise!Overwrite
<1> DEFINE P == (Sectors - 1) * SlotsPerSector
           a == Len(written) - count
           b == Len(written') - count'
           n == Len(written)
<1>1. /\ written \in Seq(Record) /\ n \in Nat /\ DOMAIN written = 1 .. n
      /\ written' \in Seq(Record) /\ Len(written') \in Nat
  BY DEF RingInv, LogInv
<1>2. /\ count \in 0 .. TotalSlots /\ count <= n /\ a \in Nat
      /\ count' \in 0 .. TotalSlots /\ count' <= Len(written') /\ b \in Nat
  <2>1. /\ count \in 0 .. TotalSlots /\ count <= n
        /\ count' \in 0 .. TotalSlots /\ count' <= Len(written')
    BY DEF RingInv, Window
  <2> QED BY <1>1, <2>1, Total
<1>3. Gone = 1 .. a /\ Gone' = 1 .. b
  BY GoneAlways, GoneNext DEF GoneInv
<1>4. P = TotalSlots - SlotsPerSector /\ P \in Int
  BY PromisedIs, Total
<1>5. (b = a \/ b = n - P) /\ a <= b
  BY <1>1, <1>2, <1>4, Total DEF Kept
<1>6. (1 .. b) \ (1 .. a) \subseteq 1 .. n - P /\ 1 .. a \subseteq 1 .. b
  <2> HIDE DEF a, b, n, P
  <2> QED BY <1>1, <1>2, <1>4, <1>5
<1>7. Gone \subseteq Gone' /\ Promise!MayOverwrite(Gone' \ Gone)
  BY <1>3, <1>6 DEF Promise!MayOverwrite
<1>8. CASE written' = written
  BY <1>7, <1>8 DEF Promise!Overwrite
<1>9. CASE written' = Append(written, RecordOf(own))
  <2>1. Len(written') = Len(written) + 1
    BY <1>1, <1>9
  <2>2. SubSeq(written', 1, Len(written)) = written
    BY <1>1, <1>9
  <2> QED BY <1>7, <2>1, <2>2 DEF Promise!Write
<1> QED BY <1>8, <1>9 DEF Kept

(* What is released is acknowledged: of what was not gone yet, just the    *)
(* records up to that seq.                                                 *)
LEMMA ReleaseIsPromised ==
  ASSUME Alone, RingInv, RingInv', ~Spoiled, ~Spoiled',
         NEW r \in ToSet(written), r.seq \in Nat, Release(own, r.seq)
  PROVE  Promise!Acknowledge
<1> DEFINE a == Len(written) - count
           b == Len(written) - count'
           n == Len(written)
<1>1. /\ written \in Seq(Record) /\ n \in Nat /\ DOMAIN written = 1 .. n /\ Sorted(written)
      /\ count \in Nat /\ count <= n /\ count' \in Nat /\ count' <= Len(written')
      /\ LogInv /\ Window(flash, head, tail, count, written)
  BY Total DEF RingInv, LogInv, Window
<1>2. /\ written' = written /\ count' <= count
      /\ \A i \in 1 .. n : a < i => (written[i].seq <= r.seq <=> i <= b)
  BY <1>1, ReleaseIs
<1>3. Gone = 1 .. a /\ Gone' = 1 .. b /\ a \in Nat /\ b \in Nat /\ a <= b /\ b <= n
  BY <1>1, <1>2, GoneAlways, GoneNext DEF GoneInv
<1>4. PICK k \in 1 .. n : r = written[k]
  BY <1>1 DEF ToSet
<1>5. \A j \in 1 .. n : written[j].dev = own
  <2>1. \A j \in 1 .. n : written[j] \in Record
    BY <1>1
  <2> QED BY <2>1 DEF Record
<1> DEFINE S == {j \in 1 .. n : written[j].dev = written[k].dev /\ written[j].seq <= written[k].seq}
<1>6. 1 .. b = (1 .. a) \cup S
  <2>1. \A j \in 1 .. n : a < j => (j \in S <=> j <= b)
    BY <1>2, <1>4, <1>5
  <2>2. S \subseteq 1 .. n /\ a \in Nat /\ b \in Nat /\ a <= b /\ b <= n /\ n \in Nat
    BY <1>1, <1>3 DEF S
  <2> HIDE DEF S, a, b, n
  <2>3. \A j \in 1 .. b : j \in (1 .. a) \cup S
    BY <2>1, <2>2
  <2>4. \A j \in (1 .. a) \cup S : j \in 1 .. b
    BY <2>1, <2>2
  <2> QED BY <2>3, <2>4
<1>7. Gone' = Gone \cup S
  BY <1>3, <1>6
<1> QED BY <1>1, <1>2, <1>7 DEF Promise!Acknowledge

(* No step of a buffer that is not spoiled breaks the promise.             *)
LEMMA PromiseIsKept ==
  ASSUME Alone, RingInv, RingInv', [Next]_vars
  PROVE  \/ UNCHANGED Promise!bufferVars
         \/ Spoiled'
         \/ (Promise!Write \/ Promise!Overwrite \/ Promise!Acknowledge) /\ ~Spoiled'
<1> SUFFICES ASSUME ~Spoiled'
             PROVE  \/ UNCHANGED Promise!bufferVars
                    \/ Promise!Write \/ Promise!Overwrite \/ Promise!Acknowledge
  OBVIOUS
<1>1. CASE UNCHANGED vars
  BY <1>1 DEF Promise!bufferVars, Gone, Spoiled, Live, vars, ringVars, historyVars
<1>2. ASSUME ~Spoiled, Good PROVE Promise!Write \/ Promise!Overwrite
  BY <1>2, KeptIsPromised DEF Good
<1>3. ASSUME ~Spoiled, NEW d \in Device, AppendRecord(d) PROVE Promise!Write \/ Promise!Overwrite
  BY <1>2, <1>3, AppendIsGood DEF Alone
<1>4. ASSUME ~Spoiled, NEW d \in Device, AppendFails(d) PROVE Promise!Write \/ Promise!Overwrite
  BY <1>2, <1>4, FailureIsGood DEF Alone
<1>5. ASSUME ~Spoiled, NEW d \in Device, PowerCut(d) PROVE Promise!Write \/ Promise!Overwrite
  BY <1>2, <1>5, PowerCutIsGood DEF Alone
<1>6. ASSUME ~Spoiled, NEW d \in Device, NEW r \in ToSet(written), Release(d, r.seq)
      PROVE  Promise!Acknowledge
  BY <1>6, ReleaseStep, ReleaseIsPromised
<1>7. ASSUME ~Spoiled, Reboot PROVE Promise!Write \/ Promise!Overwrite
  BY <1>2, <1>7, RebootIsGood
<1> QED BY <1>1, <1>3, <1>4, <1>5, <1>6, <1>7 DEF Next

(* The flash implements RecordBuffer: with room for any number of records  *)
(* all but the oldest sector's are offered until they are acknowledged,    *)
(* through failed writes, power cuts and restarts in any number and order, *)
(* unless a record was written over the rest of a cut-off one, or the      *)
(* slots no longer order their records ("power-cycle mid-buffer: no        *)
(* records lost", docs/PRD.md:201).                                        *)
THEOREM KeepsPromise ==
  ASSUME Alone
  PROVE  RingSpec => KeepsItsPromise
<1> DEFINE Step == \/ UNCHANGED Promise!bufferVars
                   \/ Spoiled'
                   \/ (Promise!Write \/ Promise!Overwrite \/ Promise!Acknowledge) /\ ~Spoiled'
<1>1. Init => Promise!BufferInit
  BY PromiseStarts
<1>2. RingInv /\ RingInv' /\ [Next]_vars => Step
  BY PromiseIsKept
<1>3. Step => [Spoiled' \/ ((Promise!Write \/ Promise!Overwrite \/ Promise!Acknowledge) /\ ~Spoiled')]_(Promise!bufferVars)
  OBVIOUS
<1> HIDE DEF Step
<1> QED BY <1>1, <1>2, <1>3, RingInvAlways, PTL DEF RingSpec, KeepsItsPromise, Promise!BufferSpec
-----------------------------------------------------------------------------
(* How a buffer is spoiled.  Each record is intact in one slot at most, and *)
(* before the first fault no slot is torn and no seq is used again.        *)
OnceIn(f, log) ==
  /\ \A s \in Intact(f) : \E i \in DOMAIN log : f[s].payload = log[i]
  /\ \A s, t \in Intact(f) : f[s].payload = f[t].payload => s = t

Reused(log) == \E i, j \in DOMAIN log : i < j /\ log[i].seq = log[j].seq

Untouched ==
  /\ \A s \in Slots : flash[s].payload # Torn
  /\ copy[own] = 0 /\ \A i \in DOMAIN written : written[i].copy = 0
  /\ ~overlaid

HistoryInv ==
  /\ faults \in Nat
  /\ OnceIn(flash, written)
  /\ unordered => Reused(written)
  /\ faults = 0 => Untouched

LEMMA OnceSub ==
  ASSUME NEW f, NEW g, NEW log, OnceIn(f, log), Intact(g) \subseteq Intact(f),
         \A s \in Intact(g) : g[s].payload = f[s].payload
  PROVE  OnceIn(g, log)
BY DEF OnceIn

LEMMA OncePartial ==
  ASSUME NEW f \in [Slots -> Slot], NEW h \in Slots, NEW log, OnceIn(f, log), NEW slot \in Partial(f[h])
  PROVE  OnceIn([f EXCEPT ![h] = slot], log)
<1> DEFINE g == [f EXCEPT ![h] = slot]
<1>1. \A s \in Slots : s # h => g[s] = f[s]
  OBVIOUS
<1>2. g[h] = f[h] \/ g[h].payload = Torn
  <2>1. slot = f[h] \/ slot.payload = Torn
    BY DEF Partial, Slot
  <2> QED BY <2>1
<1> HIDE DEF g
<1>3. \A s \in Intact(g) : s \in Intact(f) /\ g[s].payload = f[s].payload
  BY <1>1, <1>2 DEF Intact, IsRecord
<1> QED BY <1>3, OnceSub DEF g

LEMMA OnceComplete ==
  ASSUME NEW f \in [Slots -> Slot], NEW h \in Slots, NEW log \in Seq(Record), NEW r \in Record,
         OnceIn(f, log), \A i \in DOMAIN log : log[i] # r
  PROVE  OnceIn([f EXCEPT ![h] = Programmed(@, r)], Append(log, r))
<1> DEFINE g == [f EXCEPT ![h] = Programmed(@, r)]
           more == Append(log, r)
<1>1. \A s \in Slots : s # h => g[s] = f[s]
  OBVIOUS
<1>2. g[h].payload = r \/ g[h].payload = Torn
  BY DEF Programmed, Slot
<1>3. /\ \A i \in DOMAIN log : i \in DOMAIN more /\ more[i] = log[i]
      /\ Len(log) + 1 \in DOMAIN more /\ more[Len(log) + 1] = r
  OBVIOUS
<1> HIDE DEF g, more
<1>4. \A s \in Intact(g) : (s \in Intact(f) /\ s # h /\ g[s] = f[s]) \/ (s = h /\ g[s].payload = r)
  BY <1>1, <1>2 DEF Intact, IsRecord
<1>5. \A s \in Intact(g) : \E i \in DOMAIN more : g[s].payload = more[i]
  BY <1>3, <1>4 DEF OnceIn
<1>6. ASSUME NEW s \in Intact(g), NEW t \in Intact(g), g[s].payload = g[t].payload PROVE s = t
  BY <1>4, <1>6 DEF OnceIn
<1> QED BY <1>5, <1>6 DEF OnceIn, g, more

LEMMA NewRecord == ASSUME LogInv, Alone PROVE \A i \in DOMAIN written : written[i] # RecordOf(own)
<1>1. RecordOf(own).seq \in Nat /\ RecordOf(own).copy \in Nat
  BY NextRecord DEF Record
<1> QED BY <1>1 DEF LogInv, Older

(* Only a seq that two written records share can mislead begin.            *)
LEMMA SeqsOrderIs ==
  ASSUME NEW f, NEW log \in Seq(Record), OnceIn(f, log), ~Reused(log)
  PROVE  SeqsOrder(f, log)
<1> SUFFICES ASSUME NEW s \in Intact(f), NEW t \in Intact(f)
             PROVE  /\ f[s].payload.dev = f[t].payload.dev
                    /\ ~ (f[s].payload.seq = f[t].payload.seq /\ s < t)
  BY DEF SeqsOrder
<1>1. PICK i \in DOMAIN log : f[s].payload = log[i]
  BY DEF OnceIn
<1>2. PICK j \in DOMAIN log : f[t].payload = log[j]
  BY DEF OnceIn
<1>3. log[i] \in Record /\ log[j] \in Record /\ i \in Nat /\ j \in Nat
  OBVIOUS
<1>4. f[s].payload.dev = f[t].payload.dev
  BY <1>1, <1>2, <1>3 DEF Record
<1>5. ASSUME f[s].payload.seq = f[t].payload.seq, s < t PROVE FALSE
  <2>1. i = j
    BY <1>1, <1>2, <1>3, <1>5 DEF Reused
  <2>2. s = t
    BY <1>1, <1>2, <2>1 DEF OnceIn
  <2> QED BY <1>5, <2>2 DEF Intact, Slots
<1> QED BY <1>4, <1>5

(* What making room leaves, and what a write may then do.                  *)
LEMMA RoomOnce ==
  ASSUME LogInv, Window(flash, head, tail, count, written), OnceIn(flash, written)
  PROVE  /\ Room.flash \in [Slots -> Slot] /\ head \in Slots
         /\ OnceIn(Room.flash, written)
         /\ \A s \in Slots : Room.flash[s] = Erased \/ Room.flash[s] = flash[s]
<1> DEFINE f == Room.flash
<1>1. f \in [Slots -> Slot] /\ head \in Slots
  BY RoomIs DEF LogInv, Window
<1>2. \A s \in Slots : f[s] = Erased \/ f[s] = flash[s]
  BY DEF Room
<1> HIDE DEF f
<1>3. \A s \in Intact(f) : s \in Intact(flash) /\ f[s].payload = flash[s].payload
  BY <1>2 DEF Intact, Erased
<1>4. OnceIn(f, written)
  BY <1>3, OnceSub
<1> QED BY <1>1, <1>2, <1>4 DEF f

LEMMA CompleteOnce ==
  ASSUME Alone, LogInv, Window(flash, head, tail, count, written), OnceIn(flash, written),
         Complete(Room.flash, own)
  PROVE  OnceIn(flash', written')
<1>1. written \in Seq(Record) /\ RecordOf(own) \in Record
  BY NextRecord DEF LogInv
<1> QED BY <1>1, RoomOnce, OnceComplete, NewRecord DEF Complete

LEMMA ReopenOnce ==
  ASSUME LogInv', OnceIn(flash', written'), ~unordered, Reopen
  PROVE  unordered' => Reused(written')
BY SeqsOrderIs DEF Reopen, LogInv

(* The head is where nothing was completed since the erase.                *)
LEMMA HeadFits ==
  ASSUME LogInv, Window(flash, head, tail, count, written)
  PROVE  Room.flash[head] \in Writable
<1> DEFINE f == Room.flash
<1>1. head \in Slots /\ Fresh(f, head)
  BY RoomIs DEF LogInv, Window
<1>2. head <= head /\ \A t \in head + 1 .. head : t % SlotsPerSector # 0
  BY <1>1, Total DEF Slots
<1> HIDE DEF f
<1>3. f[head] \in Writable
  BY <1>1, <1>2 DEF Fresh
<1> QED BY <1>3 DEF f

LEMMA AppendUntouched ==
  ASSUME Alone, RingInv, ~Spoiled, HistoryInv, AppendRecord(own), faults' = 0
  PROVE  Untouched'
<1> DEFINE f == Room.flash
           r == RecordOf(own)
<1>1. LogInv /\ Window(flash, head, tail, count, written) /\ OnceIn(flash, written)
  BY DEF RingInv, HistoryInv
<1>2. faults = 0 /\ Advances(own)
  <2>1. faults \in Nat
    BY DEF HistoryInv
  <2> QED BY <2>1 DEF AppendRecord, Fault
<1>3. Untouched
  BY <1>2 DEF HistoryInv
<1>4. /\ flash' = [f EXCEPT ![head] = Programmed(@, r)] /\ written' = Append(written, r)
      /\ overlaid' = (overlaid \/ (f[head].payload = Torn /\ ~f[head].magic))
  BY DEF AppendRecord, Complete
<1>5. /\ f \in [Slots -> Slot] /\ head \in Slots
      /\ \A s \in Slots : f[s] = Erased \/ f[s] = flash[s]
  BY <1>1, RoomOnce
<1>6. f[head] \in Writable
  BY <1>1, HeadFits
<1>7. r \in Record /\ r # Torn /\ r.copy = 0
  BY <1>1, <1>3, NextRecord, RecordIs DEF IsRecord, Untouched, RecordOf
<1> HIDE DEF f, r
<1>8. \A s \in Slots : f[s].payload # Torn
  BY <1>3, <1>5 DEF Untouched, Erased, Blank, Torn
<1>9. f[head].payload = Blank
  BY <1>5, <1>6, <1>8, WritableIs
<1>10. \A s \in Slots : flash'[s].payload # Torn
  BY <1>4, <1>5, <1>7, <1>8, <1>9 DEF Programmed, Slot
<1>11. copy'[own] = 0
  BY <1>1, <1>2, NextRecord DEF Advances, LogInv
<1>12. \A i \in DOMAIN written' : written'[i].copy = 0
  <2>1. written \in Seq(Record) /\ \A i \in DOMAIN written : written[i].copy = 0
    BY <1>1, <1>3 DEF LogInv, Untouched
  <2> QED BY <1>4, <1>7, <2>1
<1>13. ~overlaid'
  BY <1>3, <1>4, <1>5, <1>8 DEF Untouched
<1> QED BY <1>10, <1>11, <1>12, <1>13 DEF Untouched

LEMMA HistoryStep ==
  ASSUME Alone, RingInv, RingInv', HistoryInv, [Next]_vars
  PROVE  HistoryInv'
<1>1. LogInv /\ LogInv' /\ OnceIn(flash, written) /\ faults \in Nat
  BY DEF RingInv, HistoryInv
<1>2. ASSUME ~Spoiled PROVE Window(flash, head, tail, count, written) /\ ~unordered
  BY <1>2 DEF RingInv, Spoiled
<1>3. CASE UNCHANGED vars
  BY <1>3 DEF HistoryInv, OnceIn, Intact, Reused, Untouched, vars, ringVars, callerVars, historyVars
<1>4. ASSUME ~Spoiled, AppendRecord(own) PROVE HistoryInv'
  <2>1. Complete(Room.flash, own) /\ unordered' = unordered /\ (faults' = faults \/ Fault)
    BY <1>4 DEF AppendRecord
  <2>2. OnceIn(flash', written')
    BY <1>1, <1>2, <1>4, <2>1, CompleteOnce
  <2>3. faults' \in Nat
    BY <1>1, <2>1 DEF Fault
  <2> QED BY <1>2, <1>4, <2>1, <2>2, <2>3, AppendUntouched DEF HistoryInv
<1>5. ASSUME ~Spoiled, \E slot \in Partial(Room.flash[head]) : flash' = [Room.flash EXCEPT ![head] = slot],
             written' = written
      PROVE  OnceIn(flash', written')
  <2> DEFINE f == Room.flash
  <2>1. f \in [Slots -> Slot] /\ head \in Slots /\ OnceIn(f, written)
    BY <1>1, <1>2, <1>5, RoomOnce
  <2>2. PICK slot \in Partial(f[head]) : flash' = [f EXCEPT ![head] = slot]
    BY <1>5
  <2> HIDE DEF f
  <2>3. OnceIn([f EXCEPT ![head] = slot], written)
    BY <2>1, OncePartial
  <2> QED BY <1>5, <2>2, <2>3
<1>6. ASSUME Fault PROVE faults' \in Nat /\ faults' # 0
  BY <1>1, <1>6 DEF Fault
<1>7. ASSUME ~Spoiled, AppendFails(own) PROVE HistoryInv'
  <2>1. unordered' = unordered /\ Fault /\ OnceIn(flash', written')
    BY <1>5, <1>7 DEF AppendFails, historyVars
  <2> QED BY <1>2, <1>6, <1>7, <2>1 DEF HistoryInv
<1>8. ASSUME ~Spoiled, PowerCut(own) PROVE HistoryInv'
  <2>1. Fault /\ Reopen
    BY <1>8 DEF PowerCut
  <2>2. OnceIn(flash', written')
    BY <1>1, <1>2, <1>5, <1>8, CompleteOnce DEF PowerCut
  <2> QED BY <1>1, <1>2, <1>6, <1>8, <2>1, <2>2, ReopenOnce DEF HistoryInv
<1>9. ASSUME ~Spoiled, NEW n, Release(own, n) PROVE HistoryInv'
  <2>1. UNCHANGED <<copy, written, overlaid, unordered, faults>>
    BY <1>9 DEF Release, callerVars, historyVars
  <2>2. flash \in [Slots -> Slot]
    BY <1>2, <1>9 DEF Window
  <2>3. \A s \in Slots : flash'[s].payload = flash[s].payload /\ flash'[s].magic = flash[s].magic
    BY <1>9, <2>2 DEF Release, Slot
  <2>4. OnceIn(flash', written')
    BY <1>1, <2>1, <2>3, OnceSub DEF Intact
  <2> QED BY <2>1, <2>3, <2>4 DEF HistoryInv, Untouched, Reused
<1>10. ASSUME ~Spoiled, Reboot PROVE HistoryInv'
  <2>1. UNCHANGED <<flash, copy, written, overlaid, faults>> /\ Reopen
    BY <1>10 DEF Reboot, callerVars
  <2>2. OnceIn(flash', written')
    BY <1>1, <2>1
  <2> QED BY <1>1, <1>2, <1>10, <2>1, <2>2, ReopenOnce DEF HistoryInv, Untouched
<1> QED BY <1>3, <1>4, <1>7, <1>8, <1>9, <1>10 DEF Next, Alone

(* How rare the exception of the two theorems above is: a buffer without   *)
(* faults never meets it, and begin is misled only where two records that  *)
(* were written share a seq, which takes a lost chain advance              *)
(* (node-head/src/main.cpp:286).                                           *)
THEOREM SpoiledByFaultsOnly ==
  ASSUME Alone
  PROVE  RingSpec => []((Spoiled => faults > 0) /\ (unordered => Reused(written)))
<1>1. Init => HistoryInv
  <2>1. Init => \A s \in Slots : ~flash[s].magic /\ flash[s].payload # Torn
    BY DEF Init, Erased, Blank, Torn
  <2> QED BY <2>1, RingAssumption DEF Init, HistoryInv, OnceIn, Intact, Untouched
<1>2. RingInv /\ RingInv' /\ HistoryInv /\ [Next]_vars => HistoryInv'
  BY HistoryStep
<1>3. RingInv /\ HistoryInv => (Spoiled => faults > 0) /\ (unordered => Reused(written))
  <2> SUFFICES ASSUME RingInv, HistoryInv, Spoiled, faults = 0 PROVE FALSE
    BY DEF HistoryInv
  <2>1. unordered /\ Untouched
    BY DEF HistoryInv, Untouched, Spoiled
  <2>2. PICK i, j \in DOMAIN written : i < j /\ written[i].seq = written[j].seq
    BY <2>1 DEF HistoryInv, Reused
  <2>3. Older(written[i], written[j]) /\ written[i].copy = 0 /\ written[j].copy = 0
    BY <2>1, <2>2 DEF RingInv, LogInv, Sorted, Untouched
  <2>4. written[i] \in Record /\ written[j] \in Record
    BY DEF RingInv, LogInv
  <2> QED BY <2>2, <2>3, <2>4 DEF Older, Record
<1> QED BY <1>1, <1>2, <1>3, RingInvAlways, PTL DEF RingSpec
=============================================================================
