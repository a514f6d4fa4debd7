-------------------------- MODULE HostRestoreProofs --------------------------
(***************************************************************************)
(* Proofs about HostRestore: for any number of commands, names, snapshots  *)
(* and promotes.                                                           *)
(***************************************************************************)
EXTENDS HostRestore, SequenceTheorems, TLAPS

-----------------------------------------------------------------------------
(* Timelines.  They are ordered by age, and a name is in them once. *)

Ordered(snaps, k) ==
  /\ snaps \in Seq(Snap)
  /\ \A i, j \in DOMAIN snaps : i < j => snaps[i].n < snaps[j].n /\ snaps[i].name # snaps[j].name
  /\ \A i \in DOMAIN snaps : snaps[i].n <= k

LEMMA OrderedFacts ==
  ASSUME NEW snaps, NEW k \in Nat, Ordered(snaps, k)
  PROVE  /\ snaps \in Seq(Snap) /\ Len(snaps) \in Nat /\ DOMAIN snaps = 1..Len(snaps)
         /\ \A i \in 1..Len(snaps) : snaps[i] \in Snap /\ snaps[i].n \in Nat /\ snaps[i].n <= k
                                     /\ snaps[i].name \in Names
         /\ \A i, j \in 1..Len(snaps) : i < j => snaps[i].n < snaps[j].n
         /\ \A i, j \in 1..Len(snaps) : snaps[i].name = snaps[j].name => i = j
         /\ \A i, j \in 1..Len(snaps) : snaps[i].n < snaps[j].n => i < j
         /\ \A i, j \in 1..Len(snaps) : snaps[i].n = snaps[j].n => i = j
  <1>1. snaps \in Seq(Snap) /\ Len(snaps) \in Nat /\ DOMAIN snaps = 1..Len(snaps)
    BY LenProperties DEF Ordered
  <1>2. \A i \in 1..Len(snaps) : snaps[i] \in Snap
    BY <1>1, ElementOfSeq
  <1>3. \A i \in 1..Len(snaps) : snaps[i].n \in Nat /\ snaps[i].n <= k /\ snaps[i].name \in Names
    BY <1>1, <1>2, RestoreAssumption DEF Ordered, Snap
  <1>4. /\ \A i, j \in 1..Len(snaps) : i < j => snaps[i].n < snaps[j].n
        /\ \A i, j \in 1..Len(snaps) : i < j => snaps[i].name # snaps[j].name
    BY <1>1 DEF Ordered
  <1>5. \A i, j \in 1..Len(snaps) : i < j \/ j < i \/ i = j
    BY <1>1
  <1>6. QED
    BY <1>1, <1>2, <1>3, <1>4, <1>5

LEMMA MoreOrdered ==
  ASSUME NEW snaps, NEW k \in Nat, NEW m \in Nat, k <= m, Ordered(snaps, k)
  PROVE  Ordered(snaps, m)
  <1>1. DOMAIN snaps = 1..Len(snaps) /\ \A i \in 1..Len(snaps) : snaps[i].n \in Nat /\ snaps[i].n <= k
    BY OrderedFacts
  <1>2. \A i \in DOMAIN snaps : snaps[i].n <= m
    BY <1>1
  <1>3. QED
    BY <1>2 DEF Ordered

LEMMA PlaceFacts ==
  ASSUME NEW snaps, NEW k \in Nat, Ordered(snaps, k), NEW name, Has(snaps, name)
  PROVE  /\ Place(snaps, name) \in 1..Len(snaps) /\ snaps[Place(snaps, name)].name = name
         /\ \A i \in 1..Len(snaps) : snaps[i].name = name => i = Place(snaps, name)
  <1>1. DOMAIN snaps = 1..Len(snaps)
    BY OrderedFacts
  <1>2. Place(snaps, name) \in 1..Len(snaps) /\ snaps[Place(snaps, name)].name = name
    BY <1>1 DEF Has, Place
  <1>3. QED
    BY <1>2, OrderedFacts

\* A part of a timeline, or the two parts around a snapshot of it, is a timeline.
LEMMA UptoFacts ==
  ASSUME NEW snaps, NEW k \in Nat, Ordered(snaps, k), NEW name, Has(snaps, name)
  PROVE  /\ Ordered(Upto(snaps, name), k)
         /\ LastName(Upto(snaps, name)) = name
         /\ ToSet(snaps) \ ToSet(Upto(snaps, name)) \subseteq After(snaps, name)
  <1> DEFINE p == Place(snaps, name)
             kept == Upto(snaps, name)
  <1>1. p \in 1..Len(snaps) /\ snaps[p].name = name
    BY PlaceFacts
  <1>2. \A i \in 1..p : i \in 1..Len(snaps) /\ snaps[i] \in Snap
    BY <1>1, OrderedFacts
  <1>3. /\ kept \in Seq(Snap) /\ Len(kept) = p
        /\ \A i \in 1..p : kept[i] = snaps[i]
    <2>1. /\ SubSeq(snaps, 1, p) \in Seq(Snap)
          /\ Len(SubSeq(snaps, 1, p)) = IF 1 <= p THEN p - 1 + 1 ELSE 0
          /\ \A i \in 1..p - 1 + 1 : SubSeq(snaps, 1, p)[i] = snaps[1 + i - 1]
      BY <1>1, <1>2, SubSeqProperties
    <2>2. p \in Nat /\ 1 <= p /\ p - 1 + 1 = p
      BY <1>1, OrderedFacts
    <2>3. \A i \in 1..p : 1 + i - 1 = i
      OBVIOUS
    <2>4. QED
      BY <2>1, <2>2, <2>3 DEF Upto
  <1>4. DOMAIN kept = 1..p
    BY <1>3, LenProperties
  <1>5. Ordered(kept, k)
    BY <1>2, <1>3, <1>4, OrderedFacts DEF Ordered
  <1>6. LastName(kept) = name
    BY <1>1, <1>3, EmptySeq DEF LastName
  <1>7. ASSUME NEW j \in 1..Len(snaps), snaps[j] \notin ToSet(kept)
        PROVE  snaps[j] \in After(snaps, name)
    <2>1. ~(j <= p)
      BY <1>1, <1>3, <1>4, <1>7, OrderedFacts DEF ToSet
    <2>2. p \in 1..j - 1 /\ j \in DOMAIN snaps
      BY <1>1, <1>7, <2>1, OrderedFacts
    <2>3. QED
      BY <1>1, <2>2 DEF After
  <1>8. QED
    BY <1>5, <1>6, <1>7, OrderedFacts DEF ToSet

LEMMA WithoutFacts ==
  ASSUME NEW snaps, NEW k \in Nat, Ordered(snaps, k), NEW name
  PROVE  /\ Ordered(Without(snaps, name), k)
         /\ \A i \in DOMAIN Without(snaps, name) : Without(snaps, name)[i].name # name
  <1>1. CASE ~Has(snaps, name)
    BY <1>1 DEF Without, Has
  <1>2. CASE Has(snaps, name)
    <2> DEFINE p == Place(snaps, name)
               l == SubSeq(snaps, 1, p - 1)
               r == SubSeq(snaps, p + 1, Len(snaps))
               w == Without(snaps, name)
    <2>1. /\ p \in 1..Len(snaps) /\ Len(snaps) \in Nat
          /\ \A i \in 1..Len(snaps) : snaps[i].name = name => i = p
      BY <1>2, PlaceFacts, OrderedFacts
    <2>2. l \in Seq(Snap) /\ Len(l) = p - 1 /\ \A i \in 1..p - 1 : l[i] = snaps[i]
      <3>1. \A i \in 1..p - 1 : snaps[i] \in Snap
        BY <2>1, OrderedFacts
      <3>2. /\ l \in Seq(Snap) /\ Len(l) = IF 1 <= p - 1 THEN p - 1 - 1 + 1 ELSE 0
            /\ \A i \in 1..p - 1 - 1 + 1 : l[i] = snaps[1 + i - 1]
        BY <2>1, <3>1, SubSeqProperties
      <3>3. QED
        BY <2>1, <3>2
    <2>3. r \in Seq(Snap) /\ Len(r) = Len(snaps) - p /\ \A i \in 1..Len(snaps) - p : r[i] = snaps[p + i]
      <3>1. \A i \in p + 1..Len(snaps) : snaps[i] \in Snap
        BY <2>1, OrderedFacts
      <3>2. /\ r \in Seq(Snap) /\ Len(r) = IF p + 1 <= Len(snaps) THEN Len(snaps) - (p + 1) + 1 ELSE 0
            /\ \A i \in 1..Len(snaps) - (p + 1) + 1 : r[i] = snaps[p + 1 + i - 1]
        BY <2>1, <3>1, SubSeqProperties
      <3>3. QED
        BY <2>1, <3>2
    <2> HIDE DEF l, r
    <2>4. w = l \o r
      BY <1>2 DEF Without, RemoveAt, l, r
    <2> HIDE DEF w, p
    <2>5. /\ w \in Seq(Snap) /\ Len(w) = Len(snaps) - 1
          /\ \A i \in 1..Len(snaps) - 1 : w[i] = IF i <= p - 1 THEN l[i] ELSE r[i - (p - 1)]
      <3>1. /\ l \o r \in Seq(Snap) /\ Len(l \o r) = Len(l) + Len(r)
            /\ \A i \in 1..Len(l) + Len(r) : (l \o r)[i] = IF i <= Len(l) THEN l[i] ELSE r[i - Len(l)]
        BY <2>2, <2>3, ConcatProperties
      <3>2. Len(l) + Len(r) = Len(snaps) - 1
        BY <2>1, <2>2, <2>3
      <3>3. QED
        BY <2>2, <2>4, <3>1, <3>2
    <2>6. \A i \in 1..Len(snaps) - 1 : w[i] = IF i < p THEN snaps[i] ELSE snaps[i + 1]
      <3> SUFFICES ASSUME NEW i \in 1..Len(snaps) - 1
                   PROVE  w[i] = IF i < p THEN snaps[i] ELSE snaps[i + 1]
        OBVIOUS
      <3>1. CASE i < p
        <4>1. i \in 1..p - 1 /\ i <= p - 1
          BY <2>1, <3>1
        <4>2. QED
          BY <2>2, <2>5, <3>1, <4>1
      <3>2. CASE ~(i < p)
        <4>1. ~(i <= p - 1) /\ i - (p - 1) \in 1..Len(snaps) - p /\ p + (i - (p - 1)) = i + 1
          BY <2>1, <3>2
        <4>2. QED
          BY <2>3, <2>5, <3>2, <4>1
      <3>3. QED
        BY <3>1, <3>2
    <2>7. DOMAIN w = 1..Len(snaps) - 1
      BY <2>5, LenProperties
    <2>8. \A i \in 1..Len(snaps) - 1 : \E j \in 1..Len(snaps) : w[i] = snaps[j] /\ j # p
      <3> SUFFICES ASSUME NEW i \in 1..Len(snaps) - 1
                   PROVE  \E j \in 1..Len(snaps) : w[i] = snaps[j] /\ j # p
        OBVIOUS
      <3>1. i \in 1..Len(snaps) /\ i + 1 \in 1..Len(snaps)
        BY <2>1
      <3>2. QED
        BY <2>1, <2>6, <3>1
    <2>9. \A i, j \in 1..Len(snaps) - 1 : i < j => w[i].n < w[j].n /\ w[i].name # w[j].name
      <3> SUFFICES ASSUME NEW i \in 1..Len(snaps) - 1, NEW j \in 1..Len(snaps) - 1, i < j
                   PROVE  w[i].n < w[j].n /\ w[i].name # w[j].name
        OBVIOUS
      <3> DEFINE a == IF i < p THEN i ELSE i + 1
                 b == IF j < p THEN j ELSE j + 1
      <3>1. a \in 1..Len(snaps) /\ b \in 1..Len(snaps) /\ a < b
        BY <2>1
      <3>2. w[i] = snaps[a] /\ w[j] = snaps[b]
        BY <2>6
      <3> HIDE DEF a, b
      <3>3. snaps[a].n < snaps[b].n /\ snaps[a].name # snaps[b].name
        BY <3>1, OrderedFacts
      <3>4. QED
        BY <3>2, <3>3
    <2>10. Ordered(w, k)
      BY <2>5, <2>7, <2>8, <2>9, OrderedFacts DEF Ordered
    <2>11. \A i \in DOMAIN w : w[i].name # name
      BY <2>1, <2>7, <2>8
    <2>12. QED
      BY <2>10, <2>11 DEF w
  <1>3. QED
    BY <1>1, <1>2

\* A new snapshot is newer than all others.
LEMMA AddedFacts ==
  ASSUME NEW snaps, NEW k \in Nat, Ordered(snaps, k), NEW new \in Snap, new.n = k + 1
  PROVE  Ordered(Added(snaps, new), k + 1)
  <1> DEFINE w == Without(snaps, new.name)
             l == Len(w)
             a == Added(snaps, new)
  <1>1. Ordered(w, k) /\ \A i \in DOMAIN w : w[i].name # new.name
    BY WithoutFacts
  <1> HIDE DEF w
  <1>2. w \in Seq(Snap) /\ l \in Nat /\ DOMAIN w = 1..l
    BY <1>1, OrderedFacts
  <1>3. a = Append(w, new)
    BY DEF Added, w
  <1> HIDE DEF a
  <1>4. /\ a \in Seq(Snap) /\ Len(a) = l + 1
        /\ \A i \in 1..l : a[i] = w[i]
        /\ a[l + 1] = new
    BY <1>2, <1>3, AppendProperties
  <1>5. DOMAIN a = 1..l + 1
    BY <1>4, LenProperties
  <1> HIDE DEF l
  <1>6. \A i \in 1..l : w[i].n \in Nat /\ w[i].n <= k /\ w[i].n < new.n /\ w[i].name # new.name
    BY <1>1, <1>2, OrderedFacts DEF l
  <1>7. \A i, j \in 1..l : i < j => w[i].n < w[j].n /\ w[i].name # w[j].name
    BY <1>1, <1>2 DEF Ordered
  <1>8. \A i \in 1..l + 1 : i \in 1..l \/ i = l + 1
    BY <1>2
  <1>9. \A i, j \in 1..l + 1 : i < j => i \in 1..l
    BY <1>2
  <1>10. \A i, j \in DOMAIN a : i < j => a[i].n < a[j].n /\ a[i].name # a[j].name
    BY <1>4, <1>5, <1>6, <1>7, <1>8, <1>9
  <1>11. \A i \in DOMAIN a : a[i].n <= k + 1
    BY <1>4, <1>5, <1>6, <1>8
  <1>12. QED
    BY <1>4, <1>10, <1>11 DEF Ordered, a

\* What is newer than a snapshot is newer by its stamp.
LEMMA AfterFacts ==
  ASSUME NEW snaps, NEW k \in Nat, Ordered(snaps, k), NEW name
  PROVE  After(snaps, name) =
           {x \in ToSet(snaps) : \E y \in ToSet(snaps) : y.name = name /\ y.n < x.n}
  <1>1. ASSUME NEW j \in 1..Len(snaps), NEW i \in 1..j - 1
        PROVE  i \in 1..Len(snaps) /\ snaps[i].n < snaps[j].n
    BY <1>1, OrderedFacts
  <1>2. ASSUME NEW j \in 1..Len(snaps), NEW i \in 1..Len(snaps), snaps[i].n < snaps[j].n
        PROVE  i \in 1..j - 1
    BY <1>2, OrderedFacts
  <1>3. DOMAIN snaps = 1..Len(snaps)
    BY OrderedFacts
  <1>4. QED
    BY <1>1, <1>2, <1>3 DEF After, ToSet

LEMMA LastFacts ==
  ASSUME NEW snaps, NEW k \in Nat, Ordered(snaps, k), snaps # <<>>
  PROVE  /\ Len(snaps) \in 1..Len(snaps) /\ snaps[Len(snaps)] \in ToSet(snaps)
         /\ snaps[Len(snaps)].name = LastName(snaps)
         /\ \A y \in ToSet(snaps) : y.n <= snaps[Len(snaps)].n
         /\ Has(snaps, LastName(snaps)) /\ After(snaps, LastName(snaps)) = {}
  <1> DEFINE l == Len(snaps)
  <1>1. l \in 1..l /\ DOMAIN snaps = 1..l
    BY OrderedFacts, EmptySeq
  <1>2. snaps[l].name = LastName(snaps) /\ snaps[l] \in ToSet(snaps)
    BY <1>1 DEF LastName, ToSet
  <1>3. \A i \in 1..l : snaps[i].n <= snaps[l].n
    BY <1>1, OrderedFacts
  <1>4. \A y \in ToSet(snaps) : y.n <= snaps[l].n
    BY <1>1, <1>3 DEF ToSet
  <1>5. Has(snaps, LastName(snaps))
    BY <1>1, <1>2 DEF Has
  <1>6. ASSUME NEW x \in After(snaps, LastName(snaps)) PROVE FALSE
    <2>1. PICK j \in 1..l : \E i \in 1..j - 1 : snaps[i].name = LastName(snaps)
      BY <1>1, <1>6 DEF After
    <2>2. PICK i \in 1..j - 1 : snaps[i].name = LastName(snaps)
      BY <2>1
    <2>3. l \in Nat /\ i \in 1..l /\ i # l
      BY OrderedFacts
    <2>4. snaps[i].name = snaps[l].name
      BY <1>2, <2>2
    <2>5. i = l
      BY <1>1, <2>3, <2>4, OrderedFacts
    <2>6. QED
      BY <2>3, <2>5
  <1>7. QED
    BY <1>1, <1>2, <1>4, <1>5, <1>6

-----------------------------------------------------------------------------
(* The inductive invariant: the types with the order of every timeline, and    *)
(* what a command has seen, by the time it asks and sends.                     *)

Pcs == {"idle", "client", "list", "confirm", "send", "runs"}
CliType ==
  [pc : Pcs, role : {"active", "staging", None}, name : Names \cup {None}, last : BOOLEAN,
   force : BOOLEAN, eff : BOOLEAN, shown : Slots \cup {None}, slot : Slots \cup {None},
   target : Names \cup {None}, agreed : SUBSET Snap, seen : SUBSET Snap]
WorkType == [who : Clis \cup {None}, before : Seq(Snap), after : Seq(Snap)]

Timed ==
  /\ taken \in 0..MaxSnaps
  /\ timeline \in [Slots -> Seq(Snap)] /\ work \in [Slots -> WorkType]
  /\ \A s \in Slots : /\ Ordered(timeline[s], taken)
                      /\ Ordered(work[s].before, taken) /\ Ordered(work[s].after, taken)
Typed == Timed /\ cli \in [Clis -> CliType] /\ active \in Slots /\ promotes \in 0..MaxPromotes

\* A command knows a timeline: what is newer than its target in it was shown,
\* and the target is the name it was given or the newest one.
Informed(c) ==
  /\ c.agreed = {x \in c.seen : \E y \in c.seen : y.name = c.target /\ y.n < x.n}
  /\ \A x, y \in c.seen : x.n = y.n => x = y
  /\ IF c.last THEN \E z \in c.seen : z.name = c.target /\ \A y \in c.seen : y.n <= z.n
     ELSE c.target = c.name
Asked(c) ==
  /\ c.pc \in {"client", "list"} => c.last = (c.name = None) /\ c.role \in {"active", "staging"}
  /\ c.pc = "list" => c.slot \in Slots
  /\ c.pc \in {"confirm", "send"} => Informed(c) /\ c.slot \in Slots
  /\ c.pc = "confirm" => c.agreed # {}
  /\ c.pc = "send" /\ ~c.force /\ c.agreed = {} => ~c.eff
  /\ c.pc = "runs" => c.slot \in Slots
IInv == Typed /\ \A p \in Clis : Asked(cli[p])

LEMMA TypedOK == Typed => TypeOK
  <1> SUFFICES ASSUME Typed PROVE TypeOK
    OBVIOUS
  <1>1. \A s \in Slots : /\ timeline[s] \in Seq(Snap)
                         /\ \A i, j \in DOMAIN timeline[s] : i < j =>
                              timeline[s][i].n < timeline[s][j].n
                              /\ timeline[s][i].name # timeline[s][j].name
    BY DEF Typed, Timed, Ordered
  <1>2. \A s \in Slots : work[s].who \in Clis \cup {None}
    BY DEF Typed, Timed, WorkType
  <1>3. \A p \in Clis : /\ cli[p].pc \in Pcs
                        /\ cli[p].shown \in Slots \cup {None} /\ cli[p].slot \in Slots \cup {None}
    BY DEF Typed, CliType
  <1>4. QED
    BY <1>1, <1>2, <1>3 DEF TypeOK, Typed, Timed, Pcs

LEMMA IdleAsked == Idle \in CliType /\ Asked(Idle) /\ Idle.pc = "idle"
  BY DEF Idle, CliType, Pcs, Asked, Slots

\* A command changes its own state, which stays right.
LEMMA OwnStep ==
  ASSUME cli \in [Clis -> CliType], \A q \in Clis : Asked(cli[q]), NEW p \in Clis,
         NEW c \in CliType, Asked(c), cli' = [cli EXCEPT ![p] = c]
  PROVE  cli' \in [Clis -> CliType] /\ \A q \in Clis : Asked(cli'[q])
  OBVIOUS

\* The daemon's part of a step keeps to its types when nothing but commands and
\* the pointer changes.
LEMMA TimedSame ==
  ASSUME Timed, UNCHANGED <<timeline, work, taken>>
  PROVE  Timed'
  BY DEF Timed

\* A task begins: the timelines it goes through are timelines.
LEMMA BeginsTimed ==
  ASSUME Timed, NEW p \in Clis, NEW s \in Slots, NEW during, NEW after,
         taken' \in 0..MaxSnaps, taken <= taken',
         Ordered(during, taken'), Ordered(after, taken'),
         Begins(p, s, timeline[s], during, after)
  PROVE  Timed'
  <1>1. taken \in Nat /\ taken' \in Nat
    BY RestoreAssumption DEF Timed
  <1>2. during \in Seq(Snap) /\ after \in Seq(Snap) /\ timeline[s] \in Seq(Snap)
    BY DEF Ordered, Timed
  <1> DEFINE w == [who |-> p, before |-> timeline[s], after |-> after]
  <1>3. w \in WorkType /\ w.before = timeline[s] /\ w.after = after
    BY <1>2 DEF WorkType
  <1>4. timeline' = [timeline EXCEPT ![s] = during] /\ work' = [work EXCEPT ![s] = w]
    BY DEF Begins
  <1> HIDE DEF w
  <1>5. timeline' \in [Slots -> Seq(Snap)] /\ work' \in [Slots -> WorkType]
    BY <1>2, <1>3, <1>4 DEF Timed
  <1>6. \A t \in Slots : /\ Ordered(timeline[t], taken') /\ Ordered(work[t].before, taken')
                         /\ Ordered(work[t].after, taken')
    BY <1>1, MoreOrdered DEF Timed
  <1>7. \A t \in Slots : /\ timeline'[t] = IF t = s THEN during ELSE timeline[t]
                         /\ work'[t] = IF t = s THEN w ELSE work[t]
    BY <1>4 DEF Timed
  <1>8. \A t \in Slots : /\ Ordered(timeline'[t], taken') /\ Ordered(work'[t].before, taken')
                         /\ Ordered(work'[t].after, taken')
    BY <1>3, <1>6, <1>7
  <1>9. QED
    BY <1>5, <1>8 DEF Timed

LEMMA RoleSlotType == active \in Slots => \A role : RoleSlot(role) \in Slots
  BY DEF RoleSlot, Slots

\* The one ListSnapshots makes of a command.
LEMMA Listed ==
  ASSUME NEW snaps, NEW k \in Nat, Ordered(snaps, k), NEW c \in CliType,
         NEW target \in Names, c.pc = "list", Asked(c),
         target = IF c.last THEN MostRecent(snaps) ELSE c.name,
         NEW d, d = [c EXCEPT !.target = target, !.agreed = SnapshotsAfter(snaps, target),
                              !.seen = ToSet(snaps), !.eff = EffForce(c.force),
                              !.pc = IF SnapshotsAfter(snaps, target) = {} \/ c.force
                                       THEN "send" ELSE "confirm"]
  PROVE  d \in CliType /\ Asked(d)
  <1>1. ToSet(snaps) \subseteq Snap
    BY OrderedFacts DEF ToSet
  <1>2. SnapshotsAfter(snaps, target) =
          {x \in ToSet(snaps) : \E y \in ToSet(snaps) : y.name = target /\ y.n < x.n}
    BY AfterFacts DEF SnapshotsAfter
  <1> DEFINE seen == ToSet(snaps)
             lost == SnapshotsAfter(snaps, target)
  <1>3. \A x, y \in seen : x.n = y.n => x = y
    BY OrderedFacts DEF ToSet
  <1>4. c.last => \E z \in seen : z.name = target /\ \A y \in seen : y.n <= z.n
    <2>1. SUFFICES ASSUME c.last PROVE \E z \in seen : z.name = target /\ \A y \in seen : y.n <= z.n
      OBVIOUS
    <2>2. snaps # <<>> /\ target = LastName(snaps)
      BY <2>1, RestoreAssumption DEF MostRecent, LastName
    <2>3. QED
      BY <2>2, LastFacts
  <1>5. ~c.last => target = c.name
    OBVIOUS
  <1> HIDE DEF seen, lost
  <1>6. /\ d.target = target /\ d.agreed = lost /\ d.seen = seen /\ d.eff = c.force
        /\ d.pc = IF lost = {} \/ c.force THEN "send" ELSE "confirm"
        /\ d.force = c.force /\ d.last = c.last /\ d.name = c.name /\ d.slot = c.slot
    BY DEF CliType, EffForce, seen, lost
  <1>7. d \in CliType
    <2>1. lost \in SUBSET Snap /\ seen \in SUBSET Snap
      BY <1>1, <1>2 DEF lost, seen
    <2>2. d = [c EXCEPT !.target = target, !.agreed = lost, !.seen = seen, !.eff = c.force,
                        !.pc = IF lost = {} \/ c.force THEN "send" ELSE "confirm"]
      BY DEF EffForce, lost, seen
    <2>3. QED
      BY <2>1, <2>2 DEF CliType, Pcs
  <1>8. Informed(d)
    BY <1>2, <1>3, <1>4, <1>5, <1>6 DEF Informed, seen, lost
  <1>9. Asked(d)
    BY <1>6, <1>8 DEF Asked
  <1>10. QED
    BY <1>7, <1>9

-----------------------------------------------------------------------------
(* The steps. *)

LEMMA InitInv == Init => IInv
  <1> SUFFICES ASSUME Init PROVE IInv
    OBVIOUS
  <1>1. <<>> \in Seq(Snap) /\ DOMAIN <<>> = {}
    BY EmptySeq, LenProperties
  <1>2. Ordered(<<>>, 0)
    BY <1>1 DEF Ordered
  <1>3. NoWork \in WorkType /\ NoWork.before = <<>> /\ NoWork.after = <<>>
    BY <1>1 DEF NoWork, WorkType
  <1>4. Timed
    BY <1>1, <1>2, <1>3, RestoreAssumption DEF Init, Timed
  <1>5. QED
    BY <1>4, IdleAsked, RestoreAssumption DEF Init, IInv, Typed, Slots

LEMMA ClientSteps ==
  ASSUME IInv, NEW p \in Clis,
         \/ \E role \in {"active", "staging"}, force \in BOOLEAN, name \in Names \cup {None} :
              Restore(p, role, name, force)
         \/ Client(p) \/ ListSnapshots(p) \/ Confirm(p)
  PROVE  IInv'
  <1>0. /\ Timed /\ active \in Slots /\ cli \in [Clis -> CliType] /\ \A q \in Clis : Asked(cli[q])
        /\ cli[p] \in CliType /\ Asked(cli[p])
    BY DEF IInv, Typed
  <1>1. UNCHANGED <<timeline, work, taken, active, promotes>>
    BY DEF Restore, Client, ListSnapshots, Confirm, world
  <1>2. SUFFICES \E c \in CliType : Asked(c) /\ cli' = [cli EXCEPT ![p] = c]
    <2>1. ASSUME NEW c \in CliType, Asked(c), cli' = [cli EXCEPT ![p] = c]
          PROVE  IInv'
      BY <1>0, <1>1, <2>1, OwnStep, TimedSame DEF IInv, Typed
    <2>2. QED
      BY <2>1
  <1>3. CASE Ends(p)
    BY <1>3, IdleAsked DEF Ends
  <1>4. ASSUME NEW role \in {"active", "staging"}, NEW force \in BOOLEAN, NEW name \in Names \cup {None},
               Restore(p, role, name, force)
        PROVE  \E c \in CliType : Asked(c) /\ cli' = [cli EXCEPT ![p] = c]
    <2> DEFINE c == [Idle EXCEPT !.pc = "client", !.role = role, !.name = name, !.last = (name = None),
                                 !.force = force, !.eff = force, !.shown = RoleSlot(role)]
    <2>1. c \in CliType
      <3>1. RoleSlot(role) \in Slots /\ (name = None) \in BOOLEAN
        BY <1>0, RoleSlotType
      <3>2. QED
        BY <3>1, IdleAsked DEF CliType, Pcs
    <2>2. c.pc = "client" /\ c.last = (c.name = None) /\ c.role = role
      BY DEF Idle
    <2>3. Asked(c)
      BY <2>2 DEF Asked
    <2>4. cli' = [cli EXCEPT ![p] = c]
      BY <1>4 DEF Restore
    <2>5. QED
      BY <2>1, <2>3, <2>4
  <1>5. CASE Client(p)
    <2> DEFINE c == [cli[p] EXCEPT !.pc = "list", !.slot = RoleSlot(cli[p].role)]
    <2>1. RoleSlot(cli[p].role) \in Slots
      BY <1>0, RoleSlotType
    <2>2. c \in CliType
      BY <1>0, <2>1 DEF CliType, Pcs
    <2>3. /\ c.pc = "list" /\ c.last = cli[p].last /\ c.name = cli[p].name /\ c.role = cli[p].role
          /\ c.slot \in Slots
      BY <1>0, <2>1 DEF CliType
    <2>4. Asked(c)
      BY <1>0, <1>5, <2>3 DEF Asked, Client, At
    <2>5. cli' = [cli EXCEPT ![p] = c]
      BY <1>0, <1>5 DEF Client
    <2>6. QED
      BY <2>2, <2>4, <2>5
  <1>6. CASE ListSnapshots(p) /\ ~Ends(p)
    <2> DEFINE snaps == timeline[cli[p].slot]
               target == IF cli[p].last THEN MostRecent(snaps) ELSE cli[p].name
               lost == SnapshotsAfter(snaps, target)
               c == [cli[p] EXCEPT !.target = target, !.agreed = lost, !.seen = ToSet(snaps),
                                   !.eff = EffForce(cli[p].force),
                                   !.pc = IF lost = {} \/ cli[p].force THEN "send" ELSE "confirm"]
    <2>1. cli[p].pc = "list" /\ target # None
      BY <1>6 DEF ListSnapshots, At
    <2>2. cli[p].slot \in Slots /\ taken \in Nat
      BY <1>0, <2>1, RestoreAssumption DEF Asked, Timed
    <2>3. Ordered(snaps, taken)
      BY <1>0, <2>2 DEF Timed
    <2>4. target \in Names
      <3>1. CASE cli[p].last
        <4>1. snaps # <<>> /\ target = LastName(snaps)
          BY <2>1, <3>1 DEF MostRecent, LastName
        <4>2. QED
          BY <2>2, <2>3, <4>1, LastFacts, OrderedFacts
      <3>2. CASE ~cli[p].last
        BY <1>0, <2>1, <3>2 DEF CliType
      <3>3. QED
        BY <3>1, <3>2
    <2>5. cli' = [cli EXCEPT ![p] = c]
      <3>1. cli' = [cli EXCEPT ![p].target = target, ![p].agreed = lost, ![p].seen = ToSet(snaps),
                               ![p].eff = EffForce(cli[p].force),
                               ![p].pc = IF lost = {} \/ cli[p].force THEN "send" ELSE "confirm"]
        BY <1>6, <2>1 DEF ListSnapshots
      <3> HIDE DEF target, lost, snaps
      <3>2. QED
        BY <1>0, <3>1 DEF CliType
    <2>6. c \in CliType /\ Asked(c)
      <3> HIDE DEF snaps
      <3>1. c = [cli[p] EXCEPT !.target = target, !.agreed = SnapshotsAfter(snaps, target),
                               !.seen = ToSet(snaps), !.eff = EffForce(cli[p].force),
                               !.pc = IF SnapshotsAfter(snaps, target) = {} \/ cli[p].force
                                        THEN "send" ELSE "confirm"]
        OBVIOUS
      <3>2. target = IF cli[p].last THEN MostRecent(snaps) ELSE cli[p].name
        OBVIOUS
      <3> HIDE DEF c, target
      <3>3. QED
        BY <1>0, <2>1, <2>2, <2>3, <2>4, <3>1, <3>2, Listed
    <2>7. QED
      BY <2>5, <2>6
  <1>7. CASE Confirm(p) /\ ~Ends(p)
    <2> DEFINE c == [cli[p] EXCEPT !.pc = "send", !.eff = TRUE]
    <2>1. cli[p].pc = "confirm" /\ cli' = [cli EXCEPT ![p].pc = "send", ![p].eff = TRUE]
      BY <1>7 DEF Confirm, At
    <2>2. c \in CliType
      BY <1>0 DEF CliType, Pcs
    <2>3. /\ c.pc = "send" /\ c.agreed = cli[p].agreed /\ c.seen = cli[p].seen
          /\ c.target = cli[p].target /\ c.last = cli[p].last /\ c.name = cli[p].name
          /\ c.slot = cli[p].slot
      BY <1>0 DEF CliType
    <2>4. cli' = [cli EXCEPT ![p] = c]
      BY <1>0, <2>1 DEF CliType
    <2> HIDE DEF c
    <2>5. Asked(c)
      BY <1>0, <2>1, <2>3 DEF Asked, Informed
    <2>6. QED
      BY <2>2, <2>4, <2>5
  <1>8. QED
    BY <1>3, <1>4, <1>5, <1>6, <1>7

LEMMA DaemonSteps ==
  ASSUME IInv, NEW p \in Clis,
         \/ Send(p) \/ TaskEnds(p)
         \/ \E role \in {"active", "staging"}, force \in BOOLEAN, name \in Names :
              Snapshot(p, role, name, force)
  PROVE  IInv'
  <1>0. /\ Timed /\ active \in Slots /\ cli \in [Clis -> CliType] /\ \A q \in Clis : Asked(cli[q])
        /\ cli[p] \in CliType /\ Asked(cli[p])
    BY DEF IInv, Typed
  <1>1. UNCHANGED <<active, promotes>> /\ taken \in Nat /\ taken \in 0..MaxSnaps
    <2>1. UNCHANGED <<active, promotes>>
      BY DEF Send, TaskEnds, Snapshot
    <2>2. QED
      BY <1>0, <2>1, RestoreAssumption DEF Timed
  <1>2. SUFFICES Timed' /\ \E c \in CliType : Asked(c) /\ cli' = [cli EXCEPT ![p] = c]
    BY <1>0, <1>1, OwnStep DEF IInv, Typed
  <1>3. \A q \in Clis : cli[q].pc \in {"send", "runs"} => cli[q].slot \in Slots
    BY <1>0 DEF Asked
  <1>4. CASE Send(p)
    <2> DEFINE s == cli[p].slot
               name == IF cli[p].last THEN LastName(timeline[s]) ELSE cli[p].name
    <2>1. s \in Slots /\ taken' = taken
      BY <1>3, <1>4 DEF Send, At
    <2>2. Ordered(timeline[s], taken)
      BY <1>0, <2>1 DEF Timed
    <2>3. CASE Has(timeline[s], name) /\ (cli[p].eff \/ After(timeline[s], name) = {})
      <3>1. /\ Begins(p, s, timeline[s], Upto(timeline[s], name), Upto(timeline[s], name))
            /\ cli' = [cli EXCEPT ![p].pc = "runs"]
        BY <1>4, <2>3 DEF Send
      <3>2. Ordered(Upto(timeline[s], name), taken)
        BY <1>1, <2>2, <2>3, UptoFacts
      <3>3. Timed'
        BY <1>0, <1>1, <2>1, <3>1, <3>2, BeginsTimed
      <3> DEFINE c == [cli[p] EXCEPT !.pc = "runs"]
      <3>4. c \in CliType /\ Asked(c)
        BY <1>0, <2>1 DEF CliType, Pcs, Asked
      <3>5. cli' = [cli EXCEPT ![p] = c]
        BY <1>0, <3>1 DEF CliType
      <3>6. QED
        BY <3>3, <3>4, <3>5
    <2>4. CASE ~(Has(timeline[s], name) /\ (cli[p].eff \/ After(timeline[s], name) = {}))
      <3>1. Ends(p) /\ UNCHANGED <<timeline, work>>
        BY <1>4, <2>4 DEF Send
      <3>2. QED
        BY <1>0, <2>1, <3>1, TimedSame, IdleAsked DEF Ends
    <2>5. QED
      BY <2>3, <2>4
  <1>5. CASE TaskEnds(p)
    <2> DEFINE s == cli[p].slot
    <2>1. s \in Slots /\ taken' = taken
      BY <1>3, <1>5 DEF TaskEnds, At
    <2>2. /\ Ordered(work[s].before, taken) /\ Ordered(work[s].after, taken)
          /\ work[s].before \in Seq(Snap) /\ work[s].after \in Seq(Snap)
      BY <1>0, <2>1 DEF Timed, Ordered
    <2>3. PICK t : /\ t \in Seq(Snap) /\ Ordered(t, taken)
                   /\ timeline' = [timeline EXCEPT ![s] = t]
      BY <1>5, <2>2 DEF TaskEnds
    <2>4. NoWork \in WorkType /\ Ordered(NoWork.before, taken) /\ Ordered(NoWork.after, taken)
      <3>1. <<>> \in Seq(Snap) /\ DOMAIN <<>> = {}
        BY EmptySeq, LenProperties
      <3>2. QED
        BY <3>1 DEF NoWork, WorkType, Ordered
    <2>5. work' = [work EXCEPT ![s] = NoWork]
      BY <1>5 DEF TaskEnds
    <2>6. Timed'
      BY <1>0, <2>1, <2>3, <2>4, <2>5 DEF Timed
    <2>7. QED
      BY <1>5, <2>6, IdleAsked DEF TaskEnds, Ends
  <1>6. ASSUME NEW role \in {"active", "staging"}, NEW force \in BOOLEAN, NEW name \in Names,
               Snapshot(p, role, name, force)
        PROVE  Timed' /\ \E c \in CliType : Asked(c) /\ cli' = [cli EXCEPT ![p] = c]
    <2> DEFINE s == RoleSlot(role)
               new == [name |-> name, n |-> taken + 1]
    <2>1. s \in Slots
      BY <1>0, RoleSlotType
    <2>2. /\ taken < MaxSnaps /\ taken' = taken + 1
          /\ Begins(p, s, timeline[s], Without(timeline[s], name), Added(timeline[s], new))
          /\ cli' = [cli EXCEPT ![p] = [Idle EXCEPT !.pc = "runs", !.slot = s]]
      BY <1>6 DEF Snapshot
    <2>3. taken' \in 0..MaxSnaps /\ taken' \in 1..MaxSnaps /\ taken <= taken' /\ taken' \in Nat
      BY <1>1, <2>2, RestoreAssumption
    <2>4. Ordered(timeline[s], taken)
      BY <1>0, <2>1 DEF Timed
    <2>5. new \in Snap /\ new.n = taken + 1
      BY <2>2, <2>3 DEF Snap
    <2> HIDE DEF new, s
    <2>6. Ordered(Added(timeline[s], new), taken')
      BY <1>1, <2>2, <2>4, <2>5, AddedFacts
    <2>7. Ordered(Without(timeline[s], name), taken')
      BY <1>1, <2>3, <2>4, WithoutFacts, MoreOrdered
    <2>8. Timed'
      BY <1>0, <2>1, <2>2, <2>3, <2>6, <2>7, BeginsTimed
    <2> DEFINE c == [Idle EXCEPT !.pc = "runs", !.slot = s]
    <2>9. c \in CliType /\ Asked(c)
      BY <2>1 DEF Idle, CliType, Pcs, Asked
    <2>10. QED
      BY <2>2, <2>8, <2>9
  <1>7. QED
    BY <1>4, <1>5, <1>6

LEMMA NextInv == IInv /\ [Next]_vars => IInv'
  <1> SUFFICES ASSUME IInv, [Next]_vars PROVE IInv'
    OBVIOUS
  <1>1. CASE Promote
    <2>1. UNCHANGED <<timeline, work, taken, cli>> /\ active' \in Slots /\ promotes' \in 0..MaxPromotes
      BY <1>1, RoleSlotType, RestoreAssumption DEF Promote, world, IInv, Typed
    <2>2. QED
      BY <2>1, TimedSame DEF IInv, Typed
  <1>2. CASE UNCHANGED vars
    BY <1>2, TimedSame DEF vars, IInv, Typed
  <1>3. QED
    BY <1>1, <1>2, ClientSteps, DaemonSteps DEF Next

LEMMA Always == Spec => []IInv
  BY InitInv, NextInv, PTL DEF Spec

-----------------------------------------------------------------------------
(* The theorems. *)

\* Every timeline is ordered by age and has a name once, whatever the commands do
\* (store.go List and TouchNow).
THEOREM TimelinesOrdered == Spec => []TypeOK
  BY Always, TypedOK, PTL DEF IInv

\* What a Send does to the timeline of its machine.
LEMMA Sends ==
  ASSUME IInv, NEW p \in Clis, Send(p), NEW s, s = cli[p].slot,
         NEW name, name = IF cli[p].last THEN LastName(timeline[s]) ELSE cli[p].name
  PROVE  /\ s \in Slots /\ taken \in Nat /\ Ordered(timeline[s], taken) /\ Informed(cli[p])
         /\ \A t \in Slots : t # s => timeline'[t] = timeline[t]
         /\ \/ /\ Has(timeline[s], name) /\ (cli[p].eff \/ After(timeline[s], name) = {})
               /\ timeline'[s] = Upto(timeline[s], name)
               /\ LastName(timeline'[s]) = name
               /\ Lost(s) \subseteq After(timeline[s], name)
            \/ timeline' = timeline /\ cli'[p].pc = "idle"
  <1>1. /\ cli[p].pc = "send" /\ s \in Slots /\ taken \in Nat /\ Informed(cli[p])
        /\ timeline \in [Slots -> Seq(Snap)] /\ cli \in [Clis -> CliType]
    BY RestoreAssumption DEF IInv, Typed, Timed, Asked, Send, At
  <1>2. Ordered(timeline[s], taken)
    BY <1>1 DEF IInv, Typed, Timed
  <1>3. CASE Has(timeline[s], name) /\ (cli[p].eff \/ After(timeline[s], name) = {})
    <2>1. timeline' = [timeline EXCEPT ![s] = Upto(timeline[s], name)]
      BY <1>3 DEF Send, Begins
    <2>2. timeline'[s] = Upto(timeline[s], name) /\ \A t \in Slots : t # s => timeline'[t] = timeline[t]
      BY <1>1, <2>1
    <2>3. QED
      BY <1>1, <1>2, <1>3, <2>2, UptoFacts DEF Lost
  <1>4. CASE ~(Has(timeline[s], name) /\ (cli[p].eff \/ After(timeline[s], name) = {}))
    <2>1. timeline' = timeline /\ cli' = [cli EXCEPT ![p] = Idle]
      BY <1>4 DEF Send, Ends
    <2>2. QED
      BY <1>1, <1>2, <2>1, IdleAsked
  <1>5. QED
    BY <1>3, <1>4

\* A restore the user neither forced nor was asked about discards nothing
\* (service.go:230-240), whatever happened since it looked.
THEOREM UnaskedLosesNothing == Spec => NothingLostUnasked
  <1>1. ASSUME IInv, NEW p \in Clis, NEW s \in Slots, Send(p), ~cli[p].force, cli[p].agreed = {}
        PROVE  Lost(s) = {}
    <2> DEFINE t == cli[p].slot
               name == IF cli[p].last THEN LastName(timeline[t]) ELSE cli[p].name
    <2>1. ~cli[p].eff
      BY <1>1 DEF IInv, Asked, Send, At
    <2>2. \/ t # s /\ timeline'[s] = timeline[s]
          \/ t = s /\ Lost(s) \subseteq After(timeline[t], name) /\ After(timeline[t], name) = {}
          \/ timeline' = timeline
      <3>1. t = cli[p].slot /\ name = IF cli[p].last THEN LastName(timeline[t]) ELSE cli[p].name
        OBVIOUS
      <3> HIDE DEF t, name
      <3>2. QED
        BY <1>1, <2>1, <3>1, Sends
    <2>3. QED
      BY <2>2 DEF Lost
  <1>2. IInv => [\A p \in Clis, s \in Slots :
                   Send(p) /\ ~cli[p].force /\ cli[p].agreed = {} => Lost(s) = {}]_vars
    BY <1>1
  <1>3. QED
    BY <1>2, Always, PTL DEF NothingLostUnasked

\* One that was asked about discards what it showed, as long as the machine has
\* gained no snapshot since (commands.go:405).
THEOREM ConfirmedIsShown == Spec => ConfirmedUnlessNew
  <1>1. ASSUME IInv, NEW p \in Clis, Send(p), ~cli[p].force,
               ToSet(timeline[cli[p].slot]) \subseteq cli[p].seen
        PROVE  Lost(cli[p].slot) \subseteq cli[p].agreed
    <2> DEFINE s == cli[p].slot
               name == IF cli[p].last THEN LastName(timeline[s]) ELSE cli[p].name
    <2>1. s = cli[p].slot /\ name = IF cli[p].last THEN LastName(timeline[s]) ELSE cli[p].name
      OBVIOUS
    <2> HIDE DEF s, name
    <2>2. /\ taken \in Nat /\ Ordered(timeline[s], taken) /\ Informed(cli[p])
          /\ \/ Has(timeline[s], name) /\ Lost(s) \subseteq After(timeline[s], name)
             \/ timeline' = timeline
      BY <1>1, <2>1, Sends
    <2>3. CASE timeline' = timeline
      BY <2>1, <2>3 DEF Lost
    <2>4. CASE Has(timeline[s], name) /\ Lost(s) \subseteq After(timeline[s], name)
      <3>1. CASE cli[p].last
        <4>1. timeline[s] # <<>>
          BY <2>2, <2>4, OrderedFacts, EmptySeq DEF Has
        <4>2. After(timeline[s], name) = {}
          BY <2>1, <2>2, <3>1, <4>1, LastFacts
        <4>3. QED
          BY <2>1, <2>4, <4>2
      <3>2. CASE ~cli[p].last
        <4>1. cli[p].target = name
          BY <2>1, <2>2, <3>2 DEF Informed
        <4>2. After(timeline[s], name) = {x \in ToSet(timeline[s]) :
                                            \E y \in ToSet(timeline[s]) : y.name = name /\ y.n < x.n}
          BY <2>2, AfterFacts
        <4>3. After(timeline[s], name) \subseteq cli[p].agreed
          BY <1>1, <2>1, <2>2, <4>1, <4>2 DEF Informed
        <4>4. QED
          BY <2>1, <2>4, <4>3
      <3>3. QED
        BY <3>1, <3>2
    <2>5. QED
      BY <2>2, <2>3, <2>4
  <1>2. IInv => [\A p \in Clis :
                   Send(p) /\ ~cli[p].force /\ ToSet(timeline[cli[p].slot]) \subseteq cli[p].seen =>
                     Lost(cli[p].slot) \subseteq cli[p].agreed]_vars
    BY <1>1
  <1>3. QED
    BY <1>2, Always, PTL DEF ConfirmedUnlessNew

\* The machine goes back to the snapshot the user named, or was told is the last,
\* unless another is the last by now (commands.go:424).
THEOREM RestoresTarget == Spec => RestoresUnlessMoved
  <1> DEFINE there(p) == ToSet(timeline[cli[p].slot])
             latest(p) == \E x \in there(p) \cap cli[p].seen : \A y \in there(p) \cup cli[p].seen : y.n <= x.n
  <1>1. ASSUME IInv, NEW p \in Clis, Send(p), cli'[p].pc = "runs", cli[p].last => latest(p)
        PROVE  LastName(timeline'[cli[p].slot]) = cli[p].target
    <2> DEFINE s == cli[p].slot
               name == IF cli[p].last THEN LastName(timeline[s]) ELSE cli[p].name
    <2>1. s = cli[p].slot /\ name = IF cli[p].last THEN LastName(timeline[s]) ELSE cli[p].name
      OBVIOUS
    <2> HIDE DEF s, name
    <2>2. /\ taken \in Nat /\ Ordered(timeline[s], taken) /\ Informed(cli[p])
          /\ Has(timeline[s], name) /\ LastName(timeline'[s]) = name
      BY <1>1, <2>1, Sends
    <2>3. CASE ~cli[p].last
      BY <2>1, <2>2, <2>3 DEF Informed
    <2>4. CASE cli[p].last
      <3>1. timeline[s] # <<>>
        BY <2>2, OrderedFacts, EmptySeq DEF Has
      <3> DEFINE l == timeline[s][Len(timeline[s])]
      <3>2. /\ l \in ToSet(timeline[s]) /\ l.name = name
            /\ \A y \in ToSet(timeline[s]) : y.n <= l.n
        BY <2>1, <2>2, <2>4, <3>1, LastFacts
      <3> HIDE DEF l
      <3>3. PICK z \in cli[p].seen : z.name = cli[p].target /\ \A y \in cli[p].seen : y.n <= z.n
        BY <2>2, <2>4 DEF Informed
      <3>4. PICK x \in there(p) \cap cli[p].seen : \A y \in there(p) \cup cli[p].seen : y.n <= x.n
        BY <1>1, <2>4
      <3>5. \A y \in cli[p].seen \cup ToSet(timeline[s]) : y.n \in Nat
        <4>1. cli[p].seen \subseteq Snap
          <5>1. cli[p] \in CliType
            BY <1>1 DEF IInv, Typed
          <5>2. QED
            BY <5>1 DEF CliType
        <4>2. ToSet(timeline[s]) \subseteq Snap
          BY <2>2, OrderedFacts DEF ToSet
        <4>3. QED
          BY <4>1, <4>2, RestoreAssumption DEF Snap
      <3>6. x.n = z.n
        BY <3>3, <3>4, <3>5
      <3>7. x = z
        BY <2>2, <3>3, <3>4, <3>6 DEF Informed
      <3>8. x.n = l.n
        BY <2>1, <3>2, <3>4, <3>5
      <3>9. x = l
        BY <2>1, <2>2, <3>2, <3>4, <3>8, OrderedFacts DEF ToSet
      <3>10. QED
        BY <2>1, <2>2, <3>2, <3>3, <3>7, <3>9
    <2>5. QED
      BY <2>3, <2>4
  <1>2. IInv => [\A p \in Clis :
                   Send(p) /\ cli'[p].pc = "runs" /\ (cli[p].last => latest(p)) =>
                     LastName(timeline'[cli[p].slot]) = cli[p].target]_vars
    BY <1>1
  <1>3. QED
    BY <1>2, Always, PTL DEF RestoresUnlessMoved
=============================================================================
