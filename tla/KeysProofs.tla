------------------------------- MODULE KeysProofs -------------------------------
(***************************************************************************)
(* Proofs about the life of keys: the limits sub-key derivation keeps under *)
(* concurrent requests, how old what a proxy machine decides on can be, and *)
(* what a user's claims, memberships and mints leave in between statements. *)
(***************************************************************************)
EXTENDS MC_Keys, FiniteSetTheorems, TLAPS

-------------------------------------------------------------------------------
(* Sub-key derivation *)

ChildRecord  == [status : {"none", "active", "over_budget", "revoked"},
                 created : Nat, expires : Nat, raised : BOOLEAN]
DeriveRecord == [at : {"idle", "read", "lock", "count", "insert"},
                 began : Nat, expires : Nat]

\* Of the children, those of a status other than "none", those minted in a window
\* of the clock, and those that no raise brought back and that live past a time.
MintedOf(ch)       == {c \in Children : ch[c].status # "none"}
MintedIn(ch, s, e) == {c \in MintedOf(ch) : ch[c].created \in s .. e}
Unraised(ch, time) == {c \in MintedOf(ch) : /\ ch[c].status = "active"
                                            /\ ch[c].expires > time
                                            /\ ch[c].raised = FALSE}

\* The transactions of the parent's lock are one at a time, so what a request
\* counted is still no less when it inserts: statuses change meanwhile, but only
\* an insert mints, and only a raise makes active again.
RequestInv(q) ==
    /\ derive[q].at \in {"count", "insert"} => lock = q
    /\ derive[q].at \in {"lock", "count", "insert"} => derive[q].began <= now
    /\ derive[q].at = "insert" =>
         /\ Cardinality(RecentlyMinted(q)) < RatePerMin
         /\ Cardinality(Unraised(child, derive[q].began)) < MaxActive

DeriveInv ==
    /\ TypeOK
    /\ IsFiniteSet(MintedOf(child))
    /\ \A q \in Requests : RequestInv(q)
    /\ \A t \in -1 .. MaxTime :
          Cardinality(MintedIn(child, t + 1, t + Minute)) <= RatePerMin
    /\ Cardinality(Unraised(child, now)) <= MaxActive

\* Of finite sets the part has no more members than the whole.
LEMMA Fewer ==
    ASSUME NEW S, NEW T, T \subseteq S, IsFiniteSet(S)
    PROVE  /\ IsFiniteSet(T)
           /\ Cardinality(T) <= Cardinality(S)
           /\ Cardinality(T) \in Nat /\ Cardinality(S) \in Nat
BY FS_Subset, FS_CardinalityType

\* One more member than a set that is below its limit is within it.
LEMMA OneMore ==
    ASSUME NEW S, IsFiniteSet(S), NEW limit \in Nat, Cardinality(S) < limit,
           NEW c, NEW T, T \subseteq S \cup {c}
    PROVE  Cardinality(T) <= limit
<1>1. /\ IsFiniteSet(S \cup {c}) /\ Cardinality(S) \in Nat
      /\ Cardinality(S \cup {c}) <= Cardinality(S) + 1
    BY FS_AddElement, FS_CardinalityType
<1>2. Cardinality(T) <= Cardinality(S \cup {c}) /\ Cardinality(S \cup {c}) \in Nat
      /\ Cardinality(T) \in Nat
    BY <1>1, Fewer
<1> QED BY <1>1, <1>2

LEMMA DeriveInitInv == Init => DeriveInv
<1> SUFFICES ASSUME Init
             PROVE  DeriveInv
    OBVIOUS
<1> USE DeriveAssumption
<1>1. TypeOK
    BY DEF Init, TypeOK, NoRow, Idle
<1>2. MintedOf(child) = {}
    BY DEF Init, MintedOf, NoRow
<1>3. \A q \in Requests : RequestInv(q)
    BY DEF Init, RequestInv, Idle
<1>4. /\ \A t : MintedIn(child, t + 1, t + Minute) = {}
      /\ Unraised(child, now) = {}
    BY <1>2 DEF MintedIn, Unraised
<1>5. IsFiniteSet({}) /\ Cardinality({}) = 0
    BY FS_EmptySet
<1>6. \A t \in -1 .. MaxTime :
          Cardinality(MintedIn(child, t + 1, t + Minute)) <= RatePerMin
  <2> SUFFICES ASSUME NEW t \in -1 .. MaxTime
               PROVE  Cardinality(MintedIn(child, t + 1, t + Minute)) <= RatePerMin
      OBVIOUS
  <2>1. MintedIn(child, t + 1, t + Minute) = {}
      BY <1>4
  <2>2. 0 <= RatePerMin
      BY DeriveAssumption
  <2> QED BY <2>1, <2>2, <1>5
<1>7. Cardinality(Unraised(child, now)) <= MaxActive
    BY <1>4, <1>5
<1> QED BY <1>1, <1>2, <1>3, <1>5, <1>6, <1>7 DEF DeriveInv

\* What the limits ask of the children: a step that changes none of them but for
\* their statuses, and makes none active that is not raised, keeps them.
ChildrenKept ==
    /\ child' \in [Children -> ChildRecord]
    /\ MintedOf(child') = MintedOf(child)
    /\ \A c \in MintedOf(child) : child'[c].created = child[c].created
    /\ \A time \in Nat : Unraised(child', time) \subseteq Unraised(child, time)

LEMMA LimitsKept ==
    ASSUME DeriveInv, ChildrenKept, now' \in {now, now + 1}
    PROVE  /\ IsFiniteSet(MintedOf(child'))
           /\ \A t \in -1 .. MaxTime :
                 Cardinality(MintedIn(child', t + 1, t + Minute)) <= RatePerMin
           /\ Cardinality(Unraised(child', now')) <= MaxActive
<1>1. IsFiniteSet(MintedOf(child')) /\ IsFiniteSet(MintedOf(child))
    BY DEF DeriveInv, ChildrenKept
<1>2. \A s, e : MintedIn(child', s, e) = MintedIn(child, s, e)
    BY DEF ChildrenKept, MintedIn
<1>3. now \in Nat /\ now' \in Nat /\ now <= now'
    BY DEF DeriveInv, TypeOK
<1>4. Unraised(child', now') \subseteq Unraised(child, now)
  <2>1. Unraised(child', now') \subseteq Unraised(child, now')
    BY <1>3 DEF ChildrenKept
  <2>2. ASSUME NEW c \in Unraised(child, now')
        PROVE  c \in Unraised(child, now)
    <3>1. c \in Children /\ child[c].expires \in Nat /\ child[c].expires > now'
      BY <2>2 DEF Unraised, MintedOf, DeriveInv, TypeOK
    <3> QED BY <2>2, <3>1, <1>3 DEF Unraised
  <2> QED BY <2>1, <2>2
<1>5. Unraised(child, now) \subseteq MintedOf(child)
    BY DEF Unraised
<1>6. IsFiniteSet(Unraised(child, now))
    BY <1>1, <1>5, Fewer
<1>7. /\ Cardinality(Unraised(child', now')) <= Cardinality(Unraised(child, now))
      /\ Cardinality(Unraised(child', now')) \in Nat
      /\ Cardinality(Unraised(child, now)) \in Nat
    BY <1>4, <1>6, Fewer
<1>8. Cardinality(Unraised(child, now)) <= MaxActive /\ MaxActive \in Nat
    BY DeriveAssumption DEF DeriveInv
<1> QED BY <1>1, <1>2, <1>7, <1>8 DEF DeriveInv

\* A request that does not insert meanwhile counts no more than before.
LEMMA CountsKept ==
    ASSUME DeriveInv, ChildrenKept, NEW q \in Requests,
           derive[q].at = "insert", derive'[q] = derive[q]
    PROVE  /\ Cardinality(RecentlyMinted(q))' < RatePerMin
           /\ Cardinality(Unraised(child', derive[q].began)) < MaxActive
<1>1. RecentlyMinted(q)' = RecentlyMinted(q)
    BY DEF RecentlyMinted, Minted, ChildrenKept, MintedOf
<1>2. derive[q].began \in Nat
    BY DEF DeriveInv, TypeOK
<1>3. Unraised(child', derive[q].began) \subseteq Unraised(child, derive[q].began)
    BY <1>2 DEF ChildrenKept
<1>4. IsFiniteSet(Unraised(child, derive[q].began))
  <2>1. Unraised(child, derive[q].began) \subseteq MintedOf(child)
    BY DEF Unraised
  <2> QED BY <2>1, Fewer DEF DeriveInv
<1>5. /\ Cardinality(RecentlyMinted(q)) < RatePerMin
      /\ Cardinality(Unraised(child, derive[q].began)) < MaxActive
    BY DEF DeriveInv, RequestInv
<1>6. /\ Cardinality(Unraised(child', derive[q].began))
           <= Cardinality(Unraised(child, derive[q].began))
      /\ Cardinality(Unraised(child', derive[q].began)) \in Nat
      /\ Cardinality(Unraised(child, derive[q].began)) \in Nat
    BY <1>3, <1>4, Fewer
<1> QED BY <1>1, <1>5, <1>6, DeriveAssumption

\* A step that neither moves a request nor takes the lock from it keeps what it
\* relies on.
LEMMA RequestKept ==
    ASSUME DeriveInv, ChildrenKept, now' \in {now, now + 1}, NEW q \in Requests,
           derive'[q] = derive[q],
           derive[q].at \in {"count", "insert"} => lock' = q
    PROVE  RequestInv(q)'
<1>1. now \in Nat /\ now <= now' /\ derive[q].began \in Nat /\ RequestInv(q)
    BY DEF DeriveInv, TypeOK
<1>2. derive'[q].at \in {"count", "insert"} => lock' = q
    OBVIOUS
<1>3. derive'[q].at \in {"lock", "count", "insert"} => derive'[q].began <= now'
    BY <1>1 DEF RequestInv, DeriveInv, TypeOK
<1>4. ASSUME derive'[q].at = "insert"
      PROVE  /\ Cardinality(RecentlyMinted(q))' < RatePerMin
             /\ Cardinality(Unraised(child', derive'[q].began)) < MaxActive
    BY <1>4, CountsKept
<1> QED BY <1>2, <1>3, <1>4 DEF RequestInv

\* The INSERT: the lock kept every other request from inserting since the count.
LEMMA InsertKeeps ==
    ASSUME DeriveInv, NEW q \in Requests, NEW c \in Children, Insert(q, c)
    PROVE  DeriveInv'
<1> DEFINE began == derive[q].began
<1> USE DeriveAssumption
<1>1. /\ now \in Nat /\ began \in Nat /\ began <= now
      /\ derive[q].expires \in Nat /\ child \in [Children -> ChildRecord]
      /\ derive[q].at = "insert"
      /\ lock = q /\ now' = now
      /\ Cardinality(RecentlyMinted(q)) < RatePerMin
      /\ Cardinality(Unraised(child, began)) < MaxActive
      /\ IsFiniteSet(MintedOf(child))
    BY DEF DeriveInv, RequestInv, TypeOK, ChildRecord, Insert
<1>2. /\ child' \in [Children -> ChildRecord]
      /\ child'[c] = [status |-> "active", created |-> began,
                      expires |-> derive[q].expires, raised |-> FALSE]
      /\ \A d \in Children \ {c} : child'[d] = child[d]
      /\ c \notin MintedOf(child)
    BY <1>1 DEF Insert, ChildRecord, Minted, MintedOf
<1>3. MintedOf(child') = MintedOf(child) \cup {c}
  <2>1. child'[c].status # "none"
    BY <1>2
  <2>2. \A d \in Children :
           d # c => (child'[d].status # "none" <=> child[d].status # "none")
    BY <1>2
  <2> QED BY <2>1, <2>2, Zenon DEF MintedOf
<1>4. IsFiniteSet(MintedOf(child'))
    BY <1>1, <1>3, FS_AddElement
<1>5. TypeOK'
  <2>1. derive' \in [Requests -> DeriveRecord]
    BY DEF Insert, DeriveInv, TypeOK, Idle, DeriveRecord
  <2> QED BY <1>2, <2>1 DEF Insert, DeriveInv, TypeOK, ChildRecord, DeriveRecord
<1>6. ASSUME NEW p \in Requests
      PROVE  RequestInv(p)'
  <2>1. CASE p = q
    <3>1. derive'[q].at = "idle"
      BY DEF Insert, DeriveInv, TypeOK, Idle
    <3> QED BY <2>1, <3>1 DEF RequestInv
  <2>2. CASE p # q
    <3>1. derive'[p] = derive[p]
      BY <2>2 DEF Insert, DeriveInv, TypeOK
    <3>2. ~(derive[p].at \in {"count", "insert"})
      BY <1>1, <2>2 DEF DeriveInv, RequestInv
    <3>3. derive[p].at \in {"lock", "count", "insert"} => derive[p].began <= now
      BY DEF DeriveInv, RequestInv
    <3> QED BY <1>1, <3>1, <3>2, <3>3 DEF RequestInv
  <2> QED BY <2>1, <2>2
<1>7. ASSUME NEW t \in -1 .. MaxTime
      PROVE  Cardinality(MintedIn(child', t + 1, t + Minute)) <= RatePerMin
  <2>1. CASE began \in (t + 1) .. (t + Minute)
    <3>1. MintedIn(child', t + 1, t + Minute) \subseteq RecentlyMinted(q) \cup {c}
      <4> SUFFICES ASSUME NEW d \in MintedIn(child', t + 1, t + Minute), d # c
                   PROVE  d \in RecentlyMinted(q)
          OBVIOUS
      <4>1. /\ d \in MintedOf(child) /\ d \in Children
            /\ child[d].created \in (t + 1) .. (t + Minute)
          BY <1>2, <1>3 DEF MintedIn, MintedOf
      <4>2. child[d].created \in Nat
          BY <1>1, <4>1 DEF ChildRecord
      <4>3. child[d].created > began - Minute
          BY <1>1, <2>1, <4>1, <4>2
      <4> QED BY <4>1, <4>3 DEF RecentlyMinted, Minted, MintedOf
    <3>2. IsFiniteSet(RecentlyMinted(q))
      <4>1. RecentlyMinted(q) \subseteq MintedOf(child)
          BY DEF RecentlyMinted, Minted, MintedOf
      <4> QED BY <1>1, <4>1, Fewer
    <3> QED BY <1>1, <3>1, <3>2, OneMore
  <2>2. CASE began \notin (t + 1) .. (t + Minute)
    <3>1. child'[c].created = began
      BY <1>2
    <3>2. \A d \in MintedOf(child) : d # c /\ child'[d].created = child[d].created
      BY <1>2 DEF MintedOf
    <3>3. MintedIn(child', t + 1, t + Minute) = MintedIn(child, t + 1, t + Minute)
      BY <1>3, <2>2, <3>1, <3>2, Zenon DEF MintedIn
    <3> QED BY <3>3 DEF DeriveInv
  <2> QED BY <2>1, <2>2
<1>8. Cardinality(Unraised(child', now)) <= MaxActive
  <2>1. Unraised(child', now) \subseteq Unraised(child, began) \cup {c}
    <3> SUFFICES ASSUME NEW d \in Unraised(child', now), d # c
                 PROVE  d \in Unraised(child, began)
        OBVIOUS
    <3>1. /\ d \in MintedOf(child) /\ d \in Children /\ child'[d] = child[d]
          /\ child[d].expires \in Nat /\ child[d].expires > now
        BY <1>1, <1>2, <1>3 DEF Unraised, MintedOf, ChildRecord
    <3>2. child[d].expires > began
        BY <1>1, <3>1
    <3> QED BY <3>1, <3>2 DEF Unraised
  <2>2. IsFiniteSet(Unraised(child, began))
    <3>1. Unraised(child, began) \subseteq MintedOf(child)
        BY DEF Unraised
    <3> QED BY <1>1, <3>1, Fewer
  <2> QED BY <1>1, <2>1, <2>2, OneMore
<1> QED BY <1>1, <1>4, <1>5, <1>6, <1>7, <1>8 DEF DeriveInv

LEMMA DeriveNextInv == DeriveInv /\ [Next]_vars => DeriveInv'
<1> SUFFICES ASSUME DeriveInv, [Next]_vars
             PROVE  DeriveInv'
    OBVIOUS
<1> USE DeriveAssumption
<1>t. /\ now \in 0 .. MaxTime /\ parent \in {"active", "over_budget", "revoked"}
      /\ child \in [Children -> ChildRecord]
      /\ lock \in Requests \cup {Nobody}
      /\ derive \in [Requests -> DeriveRecord]
      /\ MaxTime \in Nat
    BY DEF DeriveInv, TypeOK, ChildRecord, DeriveRecord
\* All but INSERT: the steps, and what each shows of the children and requests.
<1>a. SUFFICES ASSUME ~ \E q \in Requests, c \in Children : Insert(q, c)
               PROVE  DeriveInv'
    BY InsertKeeps
<1>b. ASSUME ChildrenKept, now' \in {now, now + 1}, now' \in 0 .. MaxTime,
             parent' \in {"active", "over_budget", "revoked"},
             lock' \in Requests \cup {Nobody},
             derive' \in [Requests -> DeriveRecord],
             \A q \in Requests : RequestInv(q)'
      PROVE  DeriveInv'
  <2>1. TypeOK'
    BY <1>b DEF TypeOK, ChildRecord, DeriveRecord, ChildrenKept
  <2> QED BY <1>b, <2>1, LimitsKept DEF DeriveInv
<1>c. ASSUME child' = child
      PROVE  ChildrenKept
    BY <1>c, <1>t DEF ChildrenKept
<1>d. ASSUME ChildrenKept, UNCHANGED <<now, lock, derive>>,
             parent' \in {"active", "over_budget", "revoked"}
      PROVE  /\ now' \in {now, now + 1} /\ now' \in 0 .. MaxTime
             /\ lock' \in Requests \cup {Nobody}
             /\ derive' \in [Requests -> DeriveRecord]
             /\ \A q \in Requests : RequestInv(q)'
  <2>1. ASSUME NEW q \in Requests
        PROVE  RequestInv(q)'
    <3>1. RequestInv(q)
      BY DEF DeriveInv
    <3> QED BY <1>d, <3>1, RequestKept DEF RequestInv
  <2> QED BY <1>d, <1>t, <2>1
\* A step of a request leaves the others what they rely on: it takes the lock when
\* nobody has it, and gives up only its own.
<1>e. ASSUME NEW q \in Requests, NEW r \in DeriveRecord,
             UNCHANGED <<now, parent, child>>, derive' = [derive EXCEPT ![q] = r],
             lock' \in Requests \cup {Nobody},
             lock' = lock \/ lock = Nobody \/ lock = q,
             RequestInv(q)'
      PROVE  DeriveInv'
  <2>1. ChildrenKept
    BY <1>c, <1>e
  <2>2. derive' \in [Requests -> DeriveRecord]
    BY <1>e, <1>t
  <2>3. ASSUME NEW p \in Requests
        PROVE  RequestInv(p)'
    <3>1. CASE p = q
      BY <3>1, <1>e
    <3>2. CASE p # q
      <4>1. derive'[p] = derive[p]
        BY <3>2, <1>e, <1>t
      <4>2. derive[p].at \in {"count", "insert"} => lock' = p
        BY <3>2, <1>e DEF DeriveInv, RequestInv
      <4> QED BY <2>1, <4>1, <4>2, <1>e, RequestKept
    <3> QED BY <3>1, <3>2
  <2> QED BY <1>b, <1>e, <1>t, <2>1, <2>2, <2>3
<1>1. ASSUME NEW q \in Requests, NEW ttl \in Ttls, ReadParent(q, ttl)
      PROVE  DeriveInv'
  <2>1. now + ttl \in Nat
    BY <1>t, <1>1
  <2> DEFINE r == [at |-> "read", began |-> 0, expires |-> now + ttl]
  <2>2. r \in DeriveRecord
    BY <2>1 DEF DeriveRecord
  <2>3. RequestInv(q)'
    BY <1>1, <1>t DEF ReadParent, RequestInv
  <2> QED BY <1>1, <1>e, <1>t, <2>2, <2>3 DEF ReadParent
<1>2. ASSUME NEW q \in Requests, Begin(q)
      PROVE  DeriveInv'
  <2> DEFINE r == [derive[q] EXCEPT !.at = "lock", !.began = now]
  <2>0. now \in Nat /\ derive[q] \in DeriveRecord
    BY <1>t
  <2>a. r \in DeriveRecord
    BY <2>0 DEF DeriveRecord
  <2>b. derive' = [derive EXCEPT ![q] = r]
    BY <1>2, <1>t DEF Begin, DeriveRecord
  <2>1. r \in DeriveRecord /\ derive' = [derive EXCEPT ![q] = r]
    BY <2>a, <2>b
  <2>2. RequestInv(q)'
    BY <1>2, <1>t, <2>1 DEF Begin, RequestInv, DeriveRecord
  <2> QED BY <1>2, <1>e, <1>t, <2>1, <2>2 DEF Begin
<1>3. ASSUME NEW q \in Requests, TakeLock(q)
      PROVE  DeriveInv'
  <2> DEFINE r == [derive[q] EXCEPT !.at = "count"]
  <2>1. r \in DeriveRecord /\ derive' = [derive EXCEPT ![q] = r]
    BY <1>3, <1>t DEF TakeLock, DeriveRecord
  <2>2. derive[q].began <= now
    BY <1>3 DEF TakeLock, DeriveInv, RequestInv
  <2>3. RequestInv(q)'
    BY <1>3, <1>t, <2>1, <2>2 DEF TakeLock, RequestInv, DeriveRecord
  <2> QED BY <1>3, <1>e, <1>t, <2>1, <2>3 DEF TakeLock
<1>4. ASSUME NEW q \in Requests, Count(q)
      PROVE  DeriveInv'
  <2> DEFINE r == [derive[q] EXCEPT !.at = "insert"]
  <2>1. r \in DeriveRecord /\ derive' = [derive EXCEPT ![q] = r]
    BY <1>4, <1>t DEF Count, DeriveRecord
  <2>2. lock = q /\ derive[q].began <= now /\ IsFiniteSet(MintedOf(child))
    BY <1>4 DEF Count, DeriveInv, RequestInv
  <2>3. derive'[q].at = "insert" /\ derive'[q].began = derive[q].began
    BY <2>1, <1>t DEF DeriveRecord
  <2>4. RecentlyMinted(q)' = RecentlyMinted(q)
    BY <1>4, <2>3 DEF Count, RecentlyMinted, Minted
  <2>5. Cardinality(Unraised(child, derive[q].began)) < MaxActive
    <3>1. /\ Unraised(child, derive[q].began) \subseteq CountedActive(q)
          /\ CountedActive(q) \subseteq MintedOf(child)
      BY DEF Unraised, CountedActive, Minted, MintedOf
    <3>2. IsFiniteSet(CountedActive(q))
      BY <2>2, <3>1, Fewer
    <3>3. /\ Cardinality(Unraised(child, derive[q].began))
               <= Cardinality(CountedActive(q))
          /\ Cardinality(Unraised(child, derive[q].began)) \in Nat
          /\ Cardinality(CountedActive(q)) \in Nat
      BY <3>1, <3>2, Fewer
    <3> QED BY <3>3, <1>4 DEF Count
  <2>6. RequestInv(q)'
    BY <1>4, <2>2, <2>3, <2>4, <2>5 DEF Count, RequestInv
  <2> QED BY <1>4, <1>e, <1>t, <2>1, <2>6 DEF Count
<1>5. ASSUME NEW q \in Requests, Refuse(q) \/ Abort(q)
      PROVE  DeriveInv'
  <2>1. Idle \in DeriveRecord
    BY DEF Idle, DeriveRecord
  <2>2. /\ derive' = [derive EXCEPT ![q] = Idle]
        /\ UNCHANGED <<now, parent, child>>
        /\ lock' \in Requests \cup {Nobody}
        /\ lock' = lock \/ lock = q
    BY <1>5, <1>t DEF Refuse, Abort, DeriveInv, RequestInv
  <2>3. RequestInv(q)'
    BY <2>2, <1>t DEF RequestInv, Idle
  <2> QED BY <1>e, <2>1, <2>2, <2>3
<1>6. ASSUME NEW c \in Children, RevokeChild(c) \/ ChargeChild(c) \/ RaiseChild(c)
      PROVE  DeriveInv'
  <2>1. /\ child' \in [Children -> ChildRecord]
        /\ child[c].status # "none"
        /\ \A d \in Children \ {c} : child'[d] = child[d]
        /\ child'[c].created = child[c].created
        /\ child'[c].status # "none"
        /\ child'[c].status = "active" => child'[c].raised
    BY <1>6, <1>t DEF RevokeChild, ChargeChild, RaiseChild, SetStatus, ChildRecord
  <2>2. child'[c].raised = TRUE \/ child'[c].raised = FALSE
    BY <2>1 DEF ChildRecord
  <2>3. ChildrenKept
    BY <2>1, <2>2, <1>t DEF ChildrenKept, MintedOf, Unraised
  <2>4. UNCHANGED <<now, lock, derive>> /\ parent' = parent
    BY <1>6 DEF RevokeChild, ChargeChild, RaiseChild
  <2> QED BY <1>b, <1>d, <1>t, <2>3, <2>4
<1>7. CASE RevokeParent
  <2>1. /\ child' \in [Children -> ChildRecord]
        /\ \A c \in Children : child[c].status # "none" =>
              /\ child'[c].status = "revoked" /\ child'[c].created = child[c].created
        /\ \A c \in Children : child[c].status = "none" => child'[c] = child[c]
    BY <1>7, <1>t DEF RevokeParent, Minted, ChildRecord
  <2>2. ChildrenKept
    BY <2>1, <1>t DEF ChildrenKept, MintedOf, Unraised
  <2>3. UNCHANGED <<now, lock, derive>> /\ parent' = "revoked"
    BY <1>7 DEF RevokeParent
  <2> QED BY <1>b, <1>d, <1>t, <2>2, <2>3
<1>8. CASE ChargeParent \/ RaiseParent \/ UNCHANGED vars
  <2>1. /\ UNCHANGED <<now, child, lock, derive>>
        /\ parent' \in {"active", "over_budget", "revoked"}
    BY <1>8, <1>t DEF ChargeParent, RaiseParent, vars
  <2> QED BY <1>b, <1>c, <1>d, <1>t, <2>1
<1>9. CASE Tick
  <2>1. /\ UNCHANGED <<parent, child, lock, derive>>
        /\ now' = now + 1 /\ now' \in 0 .. MaxTime
    BY <1>9, <1>t DEF Tick
  <2>2. ChildrenKept
    BY <1>c, <2>1
  <2>3. ASSUME NEW q \in Requests
        PROVE  RequestInv(q)'
    <3>1. derive[q].at \in {"count", "insert"} => lock' = q
      BY <2>1 DEF DeriveInv, RequestInv
    <3> QED BY <2>1, <2>2, <3>1, RequestKept
  <2> QED BY <1>b, <1>t, <2>1, <2>2, <2>3
<1> QED BY <1>a, <1>1, <1>2, <1>3, <1>4, <1>5, <1>6, <1>7, <1>8, <1>9 DEF Next

\* No minute of mints holds more than the rate, whatever the number of requests,
\* machines and children.
THEOREM RateIsHeld == Spec => []RateHolds
<1>1. DeriveInv => RateHolds
  <2> SUFFICES ASSUME DeriveInv, NEW t \in -1 .. MaxTime
               PROVE  Cardinality({c \in Minted :
                         child[c].created \in (t + 1) .. (t + Minute)}) <= RatePerMin
      BY DEF RateHolds
  <2>1. {c \in Minted : child[c].created \in (t + 1) .. (t + Minute)}
          = MintedIn(child, t + 1, t + Minute)
      BY DEF MintedIn, Minted, MintedOf
  <2> QED BY <2>1 DEF DeriveInv
<1> QED BY <1>1, DeriveInitInv, DeriveNextInv, PTL DEF Spec

\* Of the children no raise brought back, at most the cap are active, whatever the
\* number of requests that wait for the lock.
THEOREM CapIsHeld == Spec => []CapHolds
<1>1. DeriveInv => CapHolds
  <2> SUFFICES ASSUME DeriveInv
               PROVE  Cardinality({c \in Minted : /\ child[c].status = "active"
                                                  /\ child[c].expires > now
                                                  /\ ~child[c].raised}) <= MaxActive
      BY DEF CapHolds
  <2>1. \A c \in Children : child[c].raised \in BOOLEAN
      BY DEF DeriveInv, TypeOK
  <2>2. \A c \in Children : ~child[c].raised <=> child[c].raised = FALSE
      BY <2>1
  <2>3. {c \in Minted : /\ child[c].status = "active"
                        /\ child[c].expires > now
                        /\ ~child[c].raised} = Unraised(child, now)
      BY <2>2, Zenon DEF Unraised, Minted, MintedOf
  <2> QED BY <2>3 DEF DeriveInv
<1> QED BY <1>1, DeriveInitInv, DeriveNextInv, PTL DEF Spec

\* The types of the derivation's variables.
THEOREM DeriveTypeCorrect == Spec => []TypeOK
<1>1. DeriveInv => TypeOK
    BY DEF DeriveInv
<1> QED BY <1>1, DeriveInitInv, DeriveNextInv, PTL DEF Spec

-------------------------------------------------------------------------------
(* Verification of gateway credentials *)

LookupRecord == [at : Stages, key : Keys \cup {NoKey}, on : {"key", "root"},
                  meta : Metas, row : Statuses \cup {"none"}, began : Nat]

CacheTypes ==
    /\ instant \in 0 .. LastInstant
    /\ status \in [Keys -> Statuses]
    /\ left \in [Keys -> [Statuses -> Never .. LastInstant]]
    /\ changes \in 0 .. MaxChanges
    /\ cache \in [Maps -> [Keys -> Entries]]
    /\ request \in [Callers -> LookupRecord]

\* Key k has status s, or left it at the time or later; or no use of it is possible
\* any more.
Had(k, s, time) == status[k] = s \/ (left[k][s] # Never /\ left[k][s] >= time)
Dead(k)         == status[k] = "revoked" \/ Expired(k)

\* The times that left carries are past.
PastInv == \A k \in Keys, s \in Statuses : left[k][s] <= instant

\* An entry was stored TTL before it expires, and read at most MaxRead earlier.
EntryInv(e, k) ==
    /\ e.exp <= instant + TTL
    /\ e.meta \in {"active", "over_budget"} => Had(k, e.meta, e.exp - TTL - MaxRead)
    /\ e.meta = "deny" => Dead(k)

\* What a request found of its own key before it turns to the root, at a time.
OwnInv(rq, time) ==
    rq.on = "root" =>
        /\ ~IsTop(rq.key)
        /\ rq.meta \in {"active", "over_budget"}
        /\ Had(rq.key, rq.meta, time - TTL - MaxRead + 1)
        /\ time < Expires[rq.key]

TargetOf(rq) == IF rq.on = "key" THEN rq.key ELSE RootOf[rq.key]

AnswerInv(rq) ==
    /\ rq.row \in Statuses
    /\ Had(TargetOf(rq), rq.row, rq.began)
    /\ rq.row = "revoked" => status[TargetOf(rq)] = "revoked"

OwnAgeOf(k) == IF IsTop(k) THEN TTL + MaxRead ELSE TTL + 2 * MaxRead

VerdictInv(rq) ==
    LET k == rq.key
    IN  /\ rq.at = "allow" =>
              /\ Had(k, "active", instant - OwnAgeOf(k) + 1)
              /\ Had(RootOf[k], "active", instant - TTL - MaxRead + 1)
              /\ ~Expired(RootOf[k])
              /\ instant <= Expires[k] + MaxRead
        /\ rq.at = "over" =>
              \/ Had(k, "over_budget", instant - OwnAgeOf(k) + 1)
              \/ Had(RootOf[k], "over_budget", instant - TTL - MaxRead + 1)
        /\ rq.at = "deny" => Dead(k) \/ Dead(RootOf[k])

LookupInv(rq) ==
    /\ rq.at # "idle" => rq.key \in Keys
    /\ rq.at \in {"lookup", "query", "answer"} /\ rq.on = "key" => rq.meta = "none"
    /\ rq.at = "lookup" => OwnInv(rq, instant)
    /\ rq.at \in {"query", "answer"} =>
          rq.began <= instant /\ instant - rq.began <= MaxRead /\ OwnInv(rq, rq.began)
    /\ rq.at = "answer" => AnswerInv(rq)
    /\ VerdictInv(rq)

CacheInv ==
    /\ CacheTypes
    /\ PastInv
    /\ \A m \in Maps, k \in Keys : EntryInv(cache[m][k], k)
    /\ \A q \in Callers : LookupInv(request[q])

LEMMA CacheInitInv == CacheInit => CacheInv
<1> SUFFICES ASSUME CacheInit
             PROVE  CacheInv
    OBVIOUS
<1> USE CacheAssumption
<1>1. NoEntry \in Entries /\ NoEntry.meta = "none" /\ NoEntry.exp = 0
    BY DEF NoEntry, Entries, Metas
<1>2. NoCall \in LookupRecord /\ NoCall.at = "idle"
    BY DEF NoCall, Looking, LookupRecord, Stages, Metas
<1>3. CacheTypes
    BY <1>1, <1>2 DEF CacheInit, CacheTypes, Statuses, Never
<1>4. PastInv
    BY DEF CacheInit, PastInv, Never, Statuses
<1>5. \A m \in Maps, k \in Keys : EntryInv(cache[m][k], k)
    BY <1>1 DEF CacheInit, EntryInv
<1>6. \A q \in Callers : LookupInv(request[q])
    BY <1>2 DEF CacheInit, LookupInv, VerdictInv
<1> QED BY <1>3, <1>4, <1>5, <1>6 DEF CacheInv

\* What a step leaves true of the rows: a key had what it had, and the dead stay
\* dead.
RowsGoOn ==
    /\ \A k \in Keys, s \in Statuses : \A time \in Int :
          time <= instant /\ Had(k, s, time) => Had(k, s, time)'
    /\ \A k \in Keys : status[k] = "revoked" => status'[k] = "revoked"
    /\ \A k \in Keys : Dead(k) => Dead(k)'
    /\ instant \in Nat /\ instant' \in Nat /\ instant <= instant'
    /\ PastInv'

LEMMA RowsKept ==
    ASSUME CacheInv, UNCHANGED <<status, left>>, instant' \in {instant, instant + 1}
    PROVE  RowsGoOn
<1> USE CacheAssumption
<1>1. instant \in Nat /\ instant' \in Nat /\ instant <= instant'
    BY DEF CacheInv, CacheTypes
<1>2. \A k \in Keys : Expired(k) => Expired(k)'
    BY <1>1 DEF Expired
<1>3. PastInv'
  <2>1. \A k \in Keys, s \in Statuses : left[k][s] \in Never .. LastInstant
    BY DEF CacheInv, CacheTypes
  <2> QED BY <1>1, <2>1 DEF CacheInv, PastInv, Never
<1> QED BY <1>1, <1>2, <1>3 DEF RowsGoOn, Had, Dead

LEMMA RowsChanged ==
    ASSUME CacheInv, NEW ks \in SUBSET Keys, NEW s \in Statuses, ChangeStatus(ks, s),
           \A k \in ks : status[k] = "revoked" => s = "revoked"
    PROVE  RowsGoOn /\ CacheTypes'
<1> USE CacheAssumption
<1>1. /\ instant \in 0 .. LastInstant /\ instant' = instant
      /\ status \in [Keys -> Statuses]
      /\ left \in [Keys -> [Statuses -> Never .. LastInstant]]
    BY DEF CacheInv, CacheTypes, ChangeStatus
<1>2. \A k \in Keys : status'[k] = IF k \in ks THEN s ELSE status[k]
    BY DEF ChangeStatus
<1>3. \A k \in Keys : left'[k] = IF k \in ks /\ status[k] # s
                                 THEN [left[k] EXCEPT ![status[k]] = instant]
                                 ELSE left[k]
    BY DEF ChangeStatus
<1>4. \A k \in Keys, t \in Statuses :
          \/ left'[k][t] = left[k][t] /\ (status'[k] = t \/ status[k] # t)
          \/ left'[k][t] = instant
  <2> SUFFICES ASSUME NEW k \in Keys, NEW t \in Statuses
               PROVE  \/ left'[k][t] = left[k][t] /\ (status'[k] = t \/ status[k] # t)
                      \/ left'[k][t] = instant
      OBVIOUS
  <2>1. left[k] \in [Statuses -> Never .. LastInstant] /\ status[k] \in Statuses
    BY <1>1
  <2> QED BY <1>2, <1>3, <2>1
<1>5. \A k \in Keys, t \in Statuses : left[k][t] \in Never .. LastInstant
    BY <1>1
<1>6. PastInv'
    BY <1>1, <1>4 DEF PastInv, CacheInv
<1>7. ASSUME NEW k \in Keys, NEW t \in Statuses, NEW time \in Int,
             time <= instant, Had(k, t, time)
      PROVE  Had(k, t, time)'
  <2>1. CASE left'[k][t] = instant
    BY <1>1, <1>7, <2>1 DEF Had, Never
  <2>2. CASE left'[k][t] = left[k][t] /\ (status'[k] = t \/ status[k] # t)
    BY <1>7, <2>2 DEF Had
  <2> QED BY <1>4, <2>1, <2>2
<1>8. \A k \in Keys : status[k] = "revoked" => status'[k] = "revoked"
    BY <1>2
<1>9. \A k \in Keys : Dead(k) => Dead(k)'
    BY <1>1, <1>8 DEF Dead, Expired
<1>10. left' \in [Keys -> [Statuses -> Never .. LastInstant]]
  <2> SUFFICES ASSUME NEW k \in Keys
               PROVE  left'[k] \in [Statuses -> Never .. LastInstant]
      BY DEF ChangeStatus
  <2>1. left[k] \in [Statuses -> Never .. LastInstant] /\ status[k] \in Statuses
    BY <1>1
  <2>2. instant \in Never .. LastInstant
    BY <1>1 DEF Never
  <2>3. [left[k] EXCEPT ![status[k]] = instant] \in [Statuses -> Never .. LastInstant]
    BY <2>1, <2>2
  <2> QED BY <1>3, <2>1, <2>3
<1>11. CacheTypes'
    BY <1>1, <1>10 DEF CacheInv, CacheTypes, ChangeStatus
<1> QED BY <1>1, <1>6, <1>7, <1>8, <1>9, <1>11 DEF RowsGoOn

LEMMA EntriesKept ==
    ASSUME CacheInv, RowsGoOn
    PROVE  \A e \in Entries, k \in Keys : EntryInv(e, k) => EntryInv(e, k)'
<1> SUFFICES ASSUME NEW e \in Entries, NEW k \in Keys, EntryInv(e, k)
             PROVE  EntryInv(e, k)'
    OBVIOUS
<1> USE CacheAssumption
<1>1. instant \in Nat /\ instant' \in Nat /\ instant <= instant' /\ e.exp \in Nat
    BY DEF RowsGoOn, Entries
<1>2. e.exp - TTL - MaxRead <= instant /\ e.exp - TTL - MaxRead \in Int
    BY <1>1 DEF EntryInv
<1>3. e.meta \in {"active", "over_budget"} => Had(k, e.meta, e.exp - TTL - MaxRead)'
    BY <1>2 DEF EntryInv, RowsGoOn, Statuses
<1>4. e.meta = "deny" => Dead(k)'
    BY DEF EntryInv, RowsGoOn
<1> QED BY <1>1, <1>3, <1>4 DEF EntryInv

\* A request that does not move meanwhile still knows what it knew; time goes on
\* for it only while it waits for a row, and no longer than a read takes.
LEMMA LookupsKept ==
    ASSUME CacheInv, RowsGoOn
    PROVE  \A rq \in LookupRecord :
              /\ LookupInv(rq)
              /\ \/ instant' = instant
                 \/ rq.at = "idle"
                 \/ rq.at \in {"query", "answer"} /\ instant' - rq.began <= MaxRead
              => LookupInv(rq)'
<1> SUFFICES ASSUME NEW rq \in LookupRecord, LookupInv(rq),
                    \/ instant' = instant
                    \/ rq.at = "idle"
                    \/ rq.at \in {"query", "answer"} /\ instant' - rq.began <= MaxRead
             PROVE  LookupInv(rq)'
    OBVIOUS
<1> USE CacheAssumption
<1>1. /\ instant \in Nat /\ instant' \in Nat /\ instant <= instant' /\ rq.began \in Nat
      /\ "active" \in Statuses /\ "over_budget" \in Statuses
    BY DEF RowsGoOn, LookupRecord, Statuses
<1>k. rq.at # "idle" => rq.key \in Keys /\ RootOf[rq.key] \in Keys /\ TargetOf(rq) \in Keys
    BY DEF LookupInv, TargetOf
<1>2. ASSUME NEW time \in Int, time <= instant, OwnInv(rq, time), rq.at # "idle"
      PROVE  OwnInv(rq, time)'
  <2>1. time - TTL - MaxRead + 1 <= instant /\ time - TTL - MaxRead + 1 \in Int
    BY <1>1, <1>2
  <2> QED BY <1>k, <1>1, <1>2, <2>1 DEF OwnInv, RowsGoOn
<1>3. rq.at = "lookup" => OwnInv(rq, instant)'
    BY <1>1, <1>2 DEF LookupInv
<1>4. rq.at \in {"query", "answer"} =>
          rq.began <= instant' /\ instant' - rq.began <= MaxRead /\ OwnInv(rq, rq.began)'
    BY <1>1, <1>2 DEF LookupInv
<1>5. rq.at = "answer" => AnswerInv(rq)'
    BY <1>1, <1>k DEF LookupInv, AnswerInv, RowsGoOn
<1>6. VerdictInv(rq)'
  <2>1. CASE rq.at \notin {"allow", "over", "deny"}
    BY <2>1 DEF VerdictInv
  <2>2. CASE rq.at \in {"allow", "over", "deny"}
    <3> DEFINE k == rq.key
    <3>1. instant' = instant /\ k \in Keys /\ RootOf[k] \in Keys
      BY <1>k, <2>2
    <3>2. /\ instant - OwnAgeOf(k) + 1 \in Int /\ instant - OwnAgeOf(k) + 1 <= instant
          /\ instant - TTL - MaxRead + 1 \in Int /\ instant - TTL - MaxRead + 1 <= instant
      BY <1>1 DEF OwnAgeOf
    <3>3. \A c \in Keys : \A s \in {"active", "over_budget"} :
             /\ Had(c, s, instant - OwnAgeOf(k) + 1) =>
                   Had(c, s, instant - OwnAgeOf(k) + 1)'
             /\ Had(c, s, instant - TTL - MaxRead + 1) =>
                   Had(c, s, instant - TTL - MaxRead + 1)'
      BY <1>1, <3>1, <3>2 DEF RowsGoOn
    <3>4. rq.at = "allow" =>
            /\ Had(k, "active", instant - OwnAgeOf(k) + 1)'
            /\ Had(RootOf[k], "active", instant - TTL - MaxRead + 1)'
            /\ ~Expired(RootOf[k])'
            /\ instant' <= Expires[k] + MaxRead
      BY <3>1, <3>3 DEF LookupInv, VerdictInv, Expired
    <3>5. rq.at = "over" =>
            \/ Had(k, "over_budget", instant - OwnAgeOf(k) + 1)'
            \/ Had(RootOf[k], "over_budget", instant - TTL - MaxRead + 1)'
      BY <3>1, <3>3 DEF LookupInv, VerdictInv
    <3>6. rq.at = "deny" => Dead(k)' \/ Dead(RootOf[k])'
      BY <3>1 DEF LookupInv, VerdictInv, RowsGoOn
    <3> QED BY <3>4, <3>5, <3>6 DEF VerdictInv
  <2> QED BY <2>1, <2>2
<1> QED BY <1>k, <1>3, <1>4, <1>5, <1>6 DEF LookupInv

\* The next lookup, or the verdict, a result calls for: of a result no older than
\* an entry and the read it came from.
LEMMA FoundKeeps ==
    ASSUME CacheInv, NEW q \in Callers, request[q].at \in {"lookup", "answer"},
           NEW meta \in {"active", "over_budget", "deny"},
           meta # "deny" => Had(Target(q), meta, instant - TTL - MaxRead + 1),
           meta = "deny" => Dead(Target(q))
    PROVE  Found(q, meta) \in LookupRecord /\ LookupInv(Found(q, meta))
<1> USE CacheAssumption
<1> DEFINE rq == request[q]
           k  == rq.key
           r  == Found(q, meta)
<1>1. /\ rq \in LookupRecord /\ LookupInv(rq) /\ instant \in Nat /\ k \in Keys
      /\ RootOf[k] \in Keys /\ Expires[k] \in Nat /\ Expires[RootOf[k]] \in Nat
      /\ Target(q) = IF rq.on = "key" THEN k ELSE RootOf[k]
    BY DEF CacheInv, CacheTypes, LookupInv, Target
<1>2. /\ r.key = k /\ r.meta = meta
      /\ r.at = IF ~Usable(Target(q), meta) THEN "deny"
                ELSE IF rq.on = "key" /\ ~IsTop(k) THEN "lookup"
                ELSE IF "over_budget" \in {meta, rq.meta} THEN "over" ELSE "allow"
      /\ r.on = IF Usable(Target(q), meta) THEN "root" ELSE rq.on
    BY <1>1 DEF Found, LookupRecord
<1>3. r \in LookupRecord
  <2>1. /\ rq.key \in Keys \cup {NoKey} /\ rq.on \in {"key", "root"} /\ meta \in Metas
        /\ rq = [at |-> rq.at, key |-> rq.key, on |-> rq.on, meta |-> rq.meta,
                 row |-> rq.row, began |-> rq.began]
    BY <1>1 DEF LookupRecord, Metas
  <2> QED BY <2>1 DEF Found, LookupRecord, Stages
<1> HIDE DEF r
<1>4. CASE ~Usable(Target(q), meta)
  <2>1. Dead(Target(q))
    BY <1>4 DEF Usable, Dead
  <2>2. VerdictInv(r)
    BY <1>1, <1>2, <1>4, <2>1 DEF VerdictInv
  <2> QED BY <1>1, <1>2, <1>3, <1>4, <2>2 DEF LookupInv, r
<1>5. CASE Usable(Target(q), meta) /\ rq.on = "key" /\ ~IsTop(k)
  <2>1. OwnInv(r, instant)
    BY <1>1, <1>2, <1>5 DEF OwnInv, Usable, Expired
  <2>2. VerdictInv(r)
    BY <1>2, <1>5 DEF VerdictInv
  <2> QED BY <1>1, <1>2, <1>3, <1>5, <2>1, <2>2 DEF LookupInv, r
<1>6. CASE Usable(Target(q), meta) /\ rq.on = "key" /\ IsTop(k)
  <2>1. /\ Target(q) = k /\ RootOf[k] = k /\ OwnAgeOf(k) = TTL + MaxRead
        /\ rq.meta = "none" /\ meta \in {"active", "over_budget"}
    BY <1>1, <1>6 DEF IsTop, OwnAgeOf, LookupInv, Usable
  <2>2. instant - OwnAgeOf(k) + 1 = instant - TTL - MaxRead + 1
    BY <1>1, <2>1
  <2>3. ~Expired(k) /\ instant <= Expires[k] + MaxRead
    BY <1>1, <1>6, <2>1 DEF Usable, Expired
  <2>4. r.at = IF meta = "over_budget" THEN "over" ELSE "allow"
    BY <1>2, <1>6, <2>1
  <2>5. VerdictInv(r)
    BY <1>2, <2>1, <2>2, <2>3, <2>4 DEF VerdictInv
  <2> QED BY <1>1, <1>2, <1>3, <2>4, <2>5 DEF LookupInv, r
<1>7. CASE Usable(Target(q), meta) /\ rq.on # "key"
  <2>1. /\ rq.on = "root" /\ Target(q) = RootOf[k] /\ meta \in {"active", "over_budget"}
        /\ ~Expired(RootOf[k])
    BY <1>1, <1>7 DEF LookupRecord, Usable
  <2>2. PICK time \in Nat : time <= instant /\ instant - time <= MaxRead /\ OwnInv(rq, time)
    <3>1. CASE rq.at = "lookup"
      BY <1>1, <3>1 DEF LookupInv
    <3>2. CASE rq.at = "answer"
      BY <1>1, <3>2 DEF LookupInv, LookupRecord
    <3> QED BY <3>1, <3>2
  <2>3. /\ ~IsTop(k) /\ rq.meta \in {"active", "over_budget"}
        /\ Had(k, rq.meta, time - TTL - MaxRead + 1) /\ time < Expires[k]
    BY <2>1, <2>2 DEF OwnInv
  <2>4. /\ instant - OwnAgeOf(k) + 1 <= time - TTL - MaxRead + 1
        /\ instant - OwnAgeOf(k) + 1 \in Int /\ instant <= Expires[k] + MaxRead
    BY <1>1, <2>2, <2>3 DEF OwnAgeOf
  <2>5. Had(k, rq.meta, instant - OwnAgeOf(k) + 1)
    <3>1. left[k][rq.meta] \in Int
      BY <1>1, <2>3 DEF CacheInv, CacheTypes, Statuses, Never
    <3> QED BY <2>2, <2>3, <2>4, <3>1 DEF Had
  <2>6. r.at = IF "over_budget" \in {meta, rq.meta} THEN "over" ELSE "allow"
    BY <1>2, <1>7
  <2>7. Had(RootOf[k], meta, instant - TTL - MaxRead + 1)
    BY <2>1
  <2>8. VerdictInv(r)
    BY <1>2, <2>1, <2>3, <2>4, <2>5, <2>6, <2>7 DEF VerdictInv
  <2> QED BY <1>1, <1>2, <1>3, <2>6, <2>8 DEF LookupInv, r
<1> QED BY <1>4, <1>5, <1>6, <1>7

\* A step that leaves the entries and all requests but one as they are.
LEMMA LookupMoves ==
    ASSUME CacheInv, NEW q \in Callers, NEW r \in LookupRecord, LookupInv(r),
           UNCHANGED <<instant, rowVars, cache>>, request' = [request EXCEPT ![q] = r]
    PROVE  CacheInv'
<1>1. RowsGoOn
    BY RowsKept DEF rowVars
<1>2. request \in [Callers -> LookupRecord] /\ request' \in [Callers -> LookupRecord]
    BY DEF CacheInv, CacheTypes
<1>3. CacheTypes'
    BY <1>2 DEF CacheInv, CacheTypes, rowVars
<1>4. ASSUME NEW p \in Callers
      PROVE  LookupInv(request[p])'
  <2>1. /\ request'[p] \in LookupRecord
        /\ LookupInv(request'[p])
    BY <1>2 DEF CacheInv
  <2> QED BY <1>1, <2>1, LookupsKept
<1>5. ASSUME NEW m \in Maps, NEW k \in Keys
      PROVE  EntryInv(cache[m][k], k)'
  <2>1. cache'[m][k] = cache[m][k] /\ cache[m][k] \in Entries /\ EntryInv(cache[m][k], k)
    BY DEF CacheInv, CacheTypes
  <2> QED BY <1>1, <2>1, EntriesKept
<1> QED BY <1>1, <1>3, <1>4, <1>5 DEF CacheInv, RowsGoOn

\* A change of statuses, or the passing of time, leaves every entry and request
\* what it relies on.
LEMMA RowsMove ==
    ASSUME CacheInv, RowsGoOn, CacheTypes', UNCHANGED <<cache, request>>,
           \A q \in Callers :
              \/ instant' = instant
              \/ request[q].at = "idle"
              \/ /\ request[q].at \in {"query", "answer"}
                 /\ instant' - request[q].began <= MaxRead
    PROVE  CacheInv'
<1>1. ASSUME NEW p \in Callers
      PROVE  LookupInv(request[p])'
  <2>1. /\ request[p] \in LookupRecord /\ LookupInv(request[p])
        /\ request'[p] = request[p]
    BY DEF CacheInv, CacheTypes
  <2> QED BY <2>1, LookupsKept
<1>2. ASSUME NEW m \in Maps, NEW k \in Keys
      PROVE  EntryInv(cache[m][k], k)'
  <2>1. cache'[m][k] = cache[m][k] /\ cache[m][k] \in Entries /\ EntryInv(cache[m][k], k)
    BY DEF CacheInv, CacheTypes
  <2> QED BY <2>1, EntriesKept
<1> QED BY <1>1, <1>2 DEF CacheInv, RowsGoOn

LEMMA StoreKeeps ==
    ASSUME CacheInv, NEW q \in Callers, Store(q)
    PROVE  CacheInv'
<1> USE CacheAssumption
<1> DEFINE rq   == request[q]
           k    == Target(q)
           m    == MapOf(q)
           meta == toCached(k, rq.row)
           e    == [meta |-> meta, exp |-> instant + TTL]
<1>1. /\ rq \in LookupRecord /\ LookupInv(rq) /\ rq.at = "answer" /\ instant \in Nat
      /\ rq.key \in Keys /\ k \in Keys /\ k = TargetOf(rq) /\ m \in Maps
      /\ cache \in [Maps -> [Keys -> Entries]]
      /\ UNCHANGED <<instant, rowVars>> /\ request' = [request EXCEPT ![q] = Found(q, meta)]
    BY DEF Store, CacheInv, CacheTypes, LookupInv, Target, TargetOf, MapOf, Maps
<1>2. /\ rq.row \in Statuses /\ Had(k, rq.row, rq.began) /\ rq.began \in Nat
      /\ rq.row = "revoked" => status[k] = "revoked"
      /\ rq.began >= instant - MaxRead
      /\ left[k][rq.row] \in Int
    BY <1>1 DEF LookupInv, AnswerInv, LookupRecord, CacheInv, CacheTypes, Never
<1>3. /\ meta \in {"active", "over_budget", "deny"}
      /\ meta # "deny" => meta = rq.row
      /\ meta = "deny" => Dead(k)
    BY <1>2 DEF toCached, Dead, Statuses
<1>4. meta # "deny" => /\ Had(k, meta, instant - MaxRead)
                       /\ Had(k, meta, instant - TTL - MaxRead + 1)
    BY <1>1, <1>2, <1>3 DEF Had
<1> HIDE DEF meta, k, m
<1>5. e \in Entries /\ e.meta = meta /\ e.exp = instant + TTL
    BY <1>1, <1>3 DEF Entries, Metas
<1>6. EntryInv(e, k)
  <2>1. e.exp - TTL - MaxRead = instant - MaxRead
    BY <1>1, <1>5
  <2> QED BY <1>1, <1>3, <1>4, <1>5, <2>1 DEF EntryInv
<1>7. Found(q, meta) \in LookupRecord /\ LookupInv(Found(q, meta))
    BY <1>1, <1>3, <1>4, FoundKeeps DEF k
<1>8. /\ cache' \in [Maps -> [Keys -> Entries]]
      /\ \A n \in Maps : cache'[n][k] \in {e, NoEntry, cache[n][k]}
      /\ \A n \in Maps, c \in Keys :
            c # k => cache'[n][c] \in {NoEntry, cache[n][c]}
  <2>1. NoEntry \in Entries
    BY DEF NoEntry, Entries, Metas
  <2>2. PICK kept \in {cache[m], [c \in Keys |-> NoEntry]} :
           cache' = [cache EXCEPT ![m] = [kept EXCEPT ![k] = e]]
    BY DEF Store, meta, k, m
  <2>3. kept \in [Keys -> Entries] /\ \A c \in Keys : kept[c] \in {cache[m][c], NoEntry}
    BY <1>1, <2>1, <2>2
  <2>4. /\ \A n \in Maps : n # m => cache'[n] = cache[n]
        /\ cache'[m] = [kept EXCEPT ![k] = e]
    BY <1>1, <2>2
  <2>5. cache' \in [Maps -> [Keys -> Entries]]
    BY <1>1, <1>5, <2>2, <2>3
  <2>6. \A c \in Keys : IF c = k THEN cache'[m][c] = e ELSE cache'[m][c] = kept[c]
    BY <1>1, <2>3, <2>4
  <2> HIDE DEF e
  <2>7. ASSUME NEW n \in Maps, NEW c \in Keys
        PROVE  /\ c = k => cache'[n][c] \in {e, NoEntry, cache[n][c]}
               /\ c # k => cache'[n][c] \in {NoEntry, cache[n][c]}
    <3>1. CASE n = m
      BY <2>3, <2>6, <3>1
    <3>2. CASE n # m
      BY <2>4, <3>2
    <3> QED BY <3>1, <3>2
  <2> QED BY <1>1, <2>5, <2>7
<1>9. RowsGoOn
    BY <1>1, RowsKept DEF rowVars
<1>10. CacheTypes'
    BY <1>1, <1>7, <1>8 DEF CacheInv, CacheTypes, rowVars
<1>11. ASSUME NEW n \in Maps, NEW c \in Keys
       PROVE  EntryInv(cache[n][c], c)'
  <2>1. cache[n][c] \in Entries /\ EntryInv(cache[n][c], c)
    BY <1>1 DEF CacheInv
  <2>2. NoEntry \in Entries /\ EntryInv(NoEntry, c)
    BY <1>1 DEF NoEntry, Entries, Metas, EntryInv
  <2>3. cache'[n][c] \in Entries /\ EntryInv(cache'[n][c], c)
    <3> HIDE DEF e
    <3> QED BY <1>5, <1>6, <1>8, <2>1, <2>2
  <2> QED BY <1>9, <2>3, EntriesKept
<1>12. ASSUME NEW p \in Callers
       PROVE  LookupInv(request[p])'
  <2>1. request'[p] \in LookupRecord /\ LookupInv(request'[p])
    BY <1>1, <1>7 DEF CacheInv, CacheTypes
  <2> QED BY <1>1, <1>9, <2>1, LookupsKept
<1> QED BY <1>9, <1>10, <1>11, <1>12 DEF CacheInv, RowsGoOn

LEMMA CacheNextInv == CacheInv /\ [CacheNext]_cacheVars => CacheInv'
<1> SUFFICES ASSUME CacheInv, [CacheNext]_cacheVars
             PROVE  CacheInv'
    OBVIOUS
<1> USE CacheAssumption
<1>t. /\ instant \in Nat
      /\ \A q \in Callers : request[q] \in LookupRecord /\ LookupInv(request[q])
      /\ NoCall \in LookupRecord /\ NoCall.at = "idle"
    BY DEF CacheInv, CacheTypes, NoCall, Looking, LookupRecord, Stages, Metas
<1>1. CASE TimePasses
  <2>1. /\ UNCHANGED <<rowVars, cache, request>> /\ instant' = instant + 1
        /\ \A q \in Callers :
              \/ request[q].at = "idle"
              \/ /\ request[q].at \in {"query", "answer"}
                 /\ instant - request[q].began < MaxRead
    BY <1>1 DEF TimePasses
  <2>2. \A q \in Callers :
           \/ request[q].at = "idle"
           \/ /\ request[q].at \in {"query", "answer"}
              /\ instant' - request[q].began <= MaxRead
    BY <1>t, <2>1 DEF LookupRecord
  <2>3. CacheTypes'
    BY <1>1 DEF TimePasses, CacheInv, CacheTypes, rowVars
  <2> QED BY <2>1, <2>2, <2>3, RowsKept, RowsMove DEF rowVars
<1>2. ASSUME NEW k \in Keys, FlipsToOverBudget(k) \/ Reactivated(k) \/ Revoked(k)
      PROVE  CacheInv'
  <2>1. PICK ks \in SUBSET Keys, s \in Statuses :
           /\ ChangeStatus(ks, s)
           /\ \A c \in ks : status[c] = "revoked" => s = "revoked"
    <3>1. CASE FlipsToOverBudget(k) \/ Reactivated(k)
      <4>1. \E s \in {"active", "over_budget"} : ChangeStatus({k}, s)
        BY <3>1 DEF FlipsToOverBudget, Reactivated
      <4>2. status[k] # "revoked" /\ {k} \in SUBSET Keys
        BY <3>1 DEF FlipsToOverBudget, Reactivated
      <4> QED BY <4>1, <4>2 DEF Statuses
    <3>2. CASE Revoked(k)
      BY <3>2 DEF Revoked, Statuses
    <3> QED BY <1>2, <3>1, <3>2
  <2>2. RowsGoOn /\ CacheTypes'
    BY <2>1, RowsChanged
  <2> QED BY <2>1, <2>2, RowsMove DEF ChangeStatus
<1>3. ASSUME NEW q \in Callers, NEW k \in Keys, Present(q, k)
      PROVE  CacheInv'
  <2>1. Looking(k) \in LookupRecord /\ LookupInv(Looking(k))
    BY <1>t DEF Looking, LookupRecord, Stages, Metas, LookupInv, OwnInv, VerdictInv
  <2> QED BY <1>3, <2>1, LookupMoves DEF Present
<1>4. ASSUME NEW q \in Callers, Hit(q)
      PROVE  CacheInv'
  <2> DEFINE e == cache[MapOf(q)][Target(q)]
  <2>1. /\ request[q].at = "lookup" /\ e.meta # "none" /\ instant < e.exp
        /\ UNCHANGED <<instant, rowVars, cache>>
        /\ request' = [request EXCEPT ![q] = Found(q, e.meta)]
    BY <1>4 DEF Hit
  <2>2. Target(q) \in Keys /\ MapOf(q) \in Maps
    BY <1>t, <2>1 DEF LookupInv, Target, MapOf, Maps
  <2>3. e \in Entries /\ EntryInv(e, Target(q))
    BY <2>2 DEF CacheInv, CacheTypes
  <2> HIDE DEF e
  <2>4. e.meta \in {"active", "over_budget", "deny"} /\ e.exp \in Nat
    BY <2>1, <2>3 DEF Entries, Metas
  <2>5. e.meta # "deny" => Had(Target(q), e.meta, instant - TTL - MaxRead + 1)
    <3>1. e.exp - TTL - MaxRead >= instant - TTL - MaxRead + 1
      BY <1>t, <2>1, <2>4
    <3>2. e.meta # "deny" => left[Target(q)][e.meta] \in Int
      BY <2>2, <2>4 DEF CacheInv, CacheTypes, Statuses, Never
    <3> QED BY <1>t, <2>3, <2>4, <3>1, <3>2 DEF EntryInv, Had
  <2>6. e.meta = "deny" => Dead(Target(q))
    BY <2>3 DEF EntryInv
  <2> QED BY <2>1, <2>4, <2>5, <2>6, FoundKeeps, LookupMoves
<1>5. ASSUME NEW q \in Callers, Miss(q)
      PROVE  CacheInv'
  <2> DEFINE r == [request[q] EXCEPT !.at = "query", !.began = instant]
  <2>1. /\ request' = [request EXCEPT ![q] = r] /\ request[q].at = "lookup"
        /\ UNCHANGED <<instant, rowVars, cache>>
    BY <1>5, <1>t DEF Miss, CacheInv, CacheTypes, LookupRecord
  <2>2. /\ r \in LookupRecord /\ r.at = "query" /\ r.began = instant
        /\ r.key = request[q].key /\ r.on = request[q].on /\ r.meta = request[q].meta
    BY <1>t DEF LookupRecord, Stages
  <2> HIDE DEF r
  <2>3. LookupInv(r)
    BY <1>t, <2>1, <2>2 DEF LookupInv, OwnInv, VerdictInv
  <2> QED BY <2>1, <2>2, <2>3, LookupMoves
<1>6. ASSUME NEW q \in Callers, ReadRow(q)
      PROVE  CacheInv'
  <2> DEFINE r == [request[q] EXCEPT !.at = "answer", !.row = status[Target(q)]]
  <2>1. /\ request' = [request EXCEPT ![q] = r] /\ request[q].at = "query"
        /\ UNCHANGED <<instant, rowVars, cache>>
    BY <1>6, <1>t DEF ReadRow, CacheInv, CacheTypes, LookupRecord
  <2>2. Target(q) \in Keys /\ Target(q) = TargetOf(request[q])
    BY <1>t, <2>1 DEF LookupInv, Target, TargetOf
  <2>3. status[Target(q)] \in Statuses
    BY <2>2 DEF CacheInv, CacheTypes
  <2>4. /\ r \in LookupRecord /\ r.at = "answer" /\ r.began = request[q].began
        /\ r.key = request[q].key /\ r.on = request[q].on /\ r.meta = request[q].meta
        /\ r.row = status[Target(q)]
    BY <1>t, <2>3 DEF LookupRecord, Stages
  <2> HIDE DEF r
  <2>5. AnswerInv(r)
    BY <2>2, <2>3, <2>4 DEF AnswerInv, TargetOf, Had
  <2>6. LookupInv(r)
    BY <1>t, <2>1, <2>4, <2>5 DEF LookupInv, OwnInv, VerdictInv
  <2> QED BY <2>1, <2>4, <2>6, LookupMoves
<1>7. ASSUME NEW q \in Callers, QueryFails(q) \/ Leave(q)
      PROVE  CacheInv'
  <2>1. LookupInv(NoCall)
    BY <1>t DEF LookupInv, VerdictInv
  <2> QED BY <1>7, <1>t, <2>1, LookupMoves DEF QueryFails, Leave
<1>8. CASE UNCHANGED cacheVars
  <2>1. RowsGoOn
    BY <1>8, RowsKept DEF cacheVars, rowVars
  <2>2. CacheTypes'
    BY <1>8 DEF cacheVars, rowVars, CacheInv, CacheTypes
  <2> QED BY <1>8, <2>1, <2>2, RowsMove DEF cacheVars
<1> QED
  BY <1>1, <1>2, <1>3, <1>4, <1>5, <1>6, <1>7, <1>8, StoreKeeps DEF CacheNext

LEMMA CacheAlways == CacheSpec => []CacheInv
BY CacheInitInv, CacheNextInv, PTL DEF CacheSpec

\* Had, in the terms of the properties.
LEMMA HadRecently ==
    ASSUME CacheInv, NEW k \in Keys, NEW s \in Statuses, NEW w \in Int, w > 0
    PROVE  Had(k, s, instant - w + 1) => Recently(k, s, w)
<1>1. left[k][s] \in Int /\ instant \in Int
    BY CacheAssumption DEF CacheInv, CacheTypes, Never
<1> QED BY <1>1 DEF Had, Recently

\* A request passes only on statuses its key and its root had within the age of an
\* entry and its reads.
THEOREM PassesAreFresh == CacheSpec => []AllowIsFresh
<1>1. CacheInv => AllowIsFresh
  <2> SUFFICES ASSUME CacheInv, NEW q \in Callers, request[q].at = "allow"
               PROVE  LET k == request[q].key
                      IN  /\ Recently(k, "active", OwnAge(q))
                          /\ Recently(RootOf[k], "active", RootAge(q))
                          /\ ~Expired(RootOf[k])
                          /\ instant <= Expires[k] + MaxRead
      BY DEF AllowIsFresh
  <2> USE CacheAssumption
  <2> DEFINE k == request[q].key
  <2>1. /\ LookupInv(request[q]) /\ k \in Keys /\ RootOf[k] \in Keys
        /\ VerdictInv(request[q]) /\ instant \in Nat
    BY DEF CacheInv, CacheTypes, LookupInv
  <2>2. /\ OwnAge(q) = OwnAgeOf(k) /\ OwnAgeOf(k) \in Int /\ OwnAgeOf(k) > 0
        /\ RootAge(q) = TTL + MaxRead /\ TTL + MaxRead > 0
        /\ instant - TTL - MaxRead + 1 = instant - (TTL + MaxRead) + 1
    BY <2>1 DEF OwnAge, OwnAgeOf, RootAge
  <2>3. "active" \in Statuses
    BY DEF Statuses
  <2> QED BY <2>1, <2>2, <2>3, HadRecently DEF VerdictInv
<1> QED BY <1>1, CacheAlways, PTL

\* A refusal has its reason: a 402 in an over_budget as recent, a 401 in a
\* revocation or an expiry that lasts.
THEOREM RefusalsAreFresh == CacheSpec => []RefusalIsFresh
<1>1. CacheInv => RefusalIsFresh
  <2> SUFFICES ASSUME CacheInv, NEW q \in Callers
               PROVE  LET k == request[q].key
                      IN  /\ request[q].at = "over" =>
                                \/ Recently(k, "over_budget", OwnAge(q))
                                \/ Recently(RootOf[k], "over_budget", RootAge(q))
                          /\ request[q].at = "deny" =>
                                \E c \in {k, RootOf[k]} :
                                    status[c] = "revoked" \/ Expired(c)
      BY DEF RefusalIsFresh
  <2> USE CacheAssumption
  <2> DEFINE k == request[q].key
  <2>1. VerdictInv(request[q]) /\ instant \in Nat
    BY DEF CacheInv, CacheTypes, LookupInv
  <2>2. ASSUME request[q].at = "over"
        PROVE  \/ Recently(k, "over_budget", OwnAge(q))
               \/ Recently(RootOf[k], "over_budget", RootAge(q))
    <3>1. k \in Keys /\ RootOf[k] \in Keys /\ "over_budget" \in Statuses
      BY <2>2 DEF CacheInv, LookupInv, Statuses
    <3>2. /\ OwnAge(q) = OwnAgeOf(k) /\ OwnAgeOf(k) \in Int /\ OwnAgeOf(k) > 0
          /\ RootAge(q) = TTL + MaxRead /\ TTL + MaxRead > 0
          /\ instant - TTL - MaxRead + 1 = instant - (TTL + MaxRead) + 1
      BY <2>1 DEF OwnAge, OwnAgeOf, RootAge
    <3> QED BY <2>1, <2>2, <3>1, <3>2, HadRecently DEF VerdictInv
  <2>3. ASSUME request[q].at = "deny"
        PROVE  \E c \in {k, RootOf[k]} : status[c] = "revoked" \/ Expired(c)
    BY <2>1, <2>3 DEF VerdictInv, Dead
  <2> QED BY <2>2, <2>3
<1> QED BY <1>1, CacheAlways, PTL

\* The types of the variables of verification.
THEOREM CacheTypeCorrect == CacheSpec => []CacheTypeOK
<1>1. CacheInv => CacheTypeOK
    BY DEF CacheInv, CacheTypes, CacheTypeOK, LookupRecord
<1> QED BY <1>1, CacheAlways, PTL

-------------------------------------------------------------------------------
(* Teams and their keys *)

CallRecord    == [at : {"idle", "sync", "cache", "run", "root", "reply", "revoke",
                        "totals"},
                  cred : {"none", "browser", "accessKey", "admin"},
                  token : SUBSET Tokens, claim : SUBSET Teams, todo : SUBSET Teams,
                  sync : {"none", "fresh", "cached", "failed", "rivalled"},
                  elapsed : 0 .. MaxCall, key : KeyIds \cup {NoId}]
SessionRecord == [life : 0 .. Resync, failed : BOOLEAN]
KeyRecord     == [status : {"none", "active", "revoked"}, team : Teams \cup {NoTeam},
                  root : KeyIds \cup {NoId}, parent : KeyIds \cup {NoId}]

LEMMA NoRequestTyped == NoRequest \in CallRecord /\ NoRequest.at = "idle"
BY TeamAssumption DEF NoRequest, CallRecord, NoId

\* The types of the parts, as the steps below use them.
TeamTypes ==
    /\ member \in [Teams -> NotMember .. Old]
    /\ session \in [Tokens -> SessionRecord]
    /\ call \in [Slots -> CallRecord]
    /\ keyRow \in [KeyIds -> KeyRecord]
    /\ handed \subseteq KeyIds

LEMMA TypesAreTypes == TeamsTypeOK <=> TeamTypes
BY DEF TeamsTypeOK, TeamTypes, SessionRecord, CallRecord, KeyRecord

LEMMA TeamTypeInit == TeamsInit => TeamTypes
BY NoRequestTyped, TeamAssumption
   DEF TeamsInit, TeamTypes, NoKeyRow, NotMember, NoId, Old, SessionRecord, KeyRecord

\* Between the two statements of its mint a key has no root yet; from its second
\* on it is its own, and only then its secret is handed out.
IsTopKey(table, k) == table[k].status # "none" /\ table[k].parent = NoId

StageInv(table, rq) ==
    /\ rq.at \in {"root", "reply", "revoke"} => rq.key \in KeyIds
    /\ rq.at \in {"root", "reply"} => IsTopKey(table, rq.key)
    /\ rq.at = "reply" => table[rq.key].root = rq.key

RootsInv ==
    /\ DerivedKeyHasRoot
    /\ \A k \in handed : IsTopKey(keyRow, k) /\ keyRow[k].root = k
    /\ \A q \in Slots : StageInv(keyRow, call[q])

LEMMA TeamTypeNext == TeamTypes /\ RootsInv /\ [TeamsNext]_teamVars => TeamTypes'
<1> SUFFICES ASSUME TeamTypes, RootsInv, [TeamsNext]_teamVars
             PROVE  TeamTypes'
    OBVIOUS
<1> USE TeamAssumption DEF TeamTypes
<1>a. ASSUME NEW q \in Slots, NEW r \in CallRecord, Arrives(q, r)
      PROVE  TeamTypes'
    BY <1>a DEF Arrives
<1>b. Old \in Nat /\ 0 \in NotMember .. Old /\ NotMember = -1
    BY DEF Old, NotMember
<1>1. ASSUME NEW q \in Slots, NEW token \in Tokens, NEW claim \in SUBSET Teams,
             BrowserHits(q, token, claim) \/ BrowserMisses(q, token, claim)
      PROVE  TeamTypes'
    BY <1>1, <1>a, NoRequestTyped DEF BrowserHits, BrowserMisses, NoRequest, CallRecord, NoId
<1>2. ASSUME NEW q \in Slots, NEW claim \in SUBSET Teams, AccessKeyArrives(q, claim)
      PROVE  TeamTypes'
    BY <1>2, <1>a, NoRequestTyped DEF AccessKeyArrives, NoRequest, CallRecord, NoId
<1>3. ASSUME NEW q \in Slots, AdminArrives(q)
      PROVE  TeamTypes'
    BY <1>3, <1>a, NoRequestTyped DEF AdminArrives, NoRequest, CallRecord, NoId
<1>4. ASSUME NEW q \in Slots, NEW t \in Teams, Upsert(q, t)
      PROVE  TeamTypes'
    BY <1>4, <1>b DEF Upsert, CallRecord
<1>5. ASSUME NEW q \in Slots, DropStale(q)
      PROVE  TeamTypes'
    BY <1>5, <1>b DEF DropStale, Deletes, CallRecord
<1>6. ASSUME NEW q \in Slots, Ensured(q) \/ SyncFails(q)
      PROVE  TeamTypes'
    BY <1>6 DEF Ensured, SyncFails, CallRecord
<1>7. ASSUME NEW q \in Slots, NEW cleared \in BOOLEAN, CacheToken(q, cleared)
      PROVE  TeamTypes'
  <2>a. [call[q] EXCEPT !.at = "run", !.token = {}] \in CallRecord
    BY DEF CallRecord
  <2>b. call' = [call EXCEPT ![q] = [call[q] EXCEPT !.at = "run", !.token = {}]]
    BY <1>7 DEF CacheToken, CallRecord
  <2>1. call' \in [Slots -> CallRecord]
    BY <2>a, <2>b
  <2>2. ASSUME NEW k \in Tokens
        PROVE  session'[k] \in SessionRecord
    <3>1. [life |-> Resync, failed |-> call[q].sync = "failed"] \in SessionRecord
      BY DEF SessionRecord
    <3>2. [life |-> 0, failed |-> FALSE] \in SessionRecord
      BY DEF SessionRecord
    <3>3. \/ session'[k] = [life |-> Resync, failed |-> call[q].sync = "failed"]
          \/ session'[k] = [life |-> 0, failed |-> FALSE]
          \/ session'[k] = session[k]
      BY <1>7 DEF CacheToken
    <3> QED BY <3>1, <3>2, <3>3
  <2>3. session' \in [Tokens -> SessionRecord]
    BY <1>7, <2>2 DEF CacheToken
  <2> QED BY <1>7, <2>1, <2>3 DEF CacheToken
<1>8. ASSUME NEW q \in Slots, NEW k \in KeyIds, NEW s \in {"root", "reply", "revoke", "totals"},
             Goes(q, s, k)
      PROVE  call' \in [Slots -> CallRecord]
    BY <1>8, NoRequestTyped DEF Goes, CallRecord, NoRequest
<1>9. ASSUME NEW q \in Slots, NEW k \in KeyIds, NEW t \in Teams,
             UserMints(q, k, t) \/ AdminMints(q, k, t)
      PROVE  TeamTypes'
  <2>1. Mint(q, k, t)
    BY <1>9 DEF UserMints, AdminMints
  <2>2. call' \in [Slots -> CallRecord]
    BY <2>1, <1>8 DEF Mint
  <2> QED BY <2>1, <2>2 DEF Mint, Added, KeyRecord, NoId
<1>17. ASSUME NEW q \in Slots, SetRoot(q)
       PROVE  TeamTypes'
  <2>1. call[q].key \in KeyIds
    BY <1>17 DEF SetRoot, RootsInv, StageInv
  <2>2. call' \in [Slots -> CallRecord]
    BY <1>17, <1>8, <2>1 DEF SetRoot
  <2> QED BY <1>17, <2>1, <2>2 DEF SetRoot, KeyRecord
<1>18. ASSUME NEW q \in Slots, Reply(q)
       PROVE  TeamTypes'
  <2>1. call[q].key \in KeyIds
    BY <1>18 DEF Reply, RootsInv, StageInv
  <2> QED BY <1>18, <2>1, NoRequestTyped DEF Reply
<1>10. ASSUME NEW q \in Slots, NEW k \in KeyIds, FindsKey(q, k) \/ FindsDetail(q, k)
       PROVE  TeamTypes'
    BY <1>10, <1>8 DEF FindsKey, FindsDetail
<1>11. ASSUME NEW q \in Slots, SumsTotals(q) \/ Ends(q)
       PROVE  TeamTypes'
    BY <1>11, NoRequestTyped DEF SumsTotals, Ends
<1>12. ASSUME NEW q \in Slots, NEW k, RevokesTree(q, k)
       PROVE  TeamTypes'
    BY <1>12, NoRequestTyped DEF RevokesTree, KeyRecord
<1>13. ASSUME NEW p \in KeyIds, NEW k \in KeyIds, Derived(p, k)
       PROVE  TeamTypes'
    BY <1>13 DEF Derived, Added, KeyRecord
<1>14. CASE ApiRestarts
    BY <1>14, NoRequestTyped DEF ApiRestarts, SessionRecord
<1>15. CASE TimeGoesOn
  <2>1. ASSUME NEW t \in Teams
        PROVE  member'[t] \in NotMember .. Old
    <3>1. member[t] \in NotMember .. Old
      OBVIOUS
    <3>2. CASE member[t] \in {NotMember, Old}
      BY <1>15, <3>1, <3>2 DEF TimeGoesOn
    <3>3. CASE member[t] \notin {NotMember, Old}
      <4>1. member'[t] = member[t] + 1
        BY <1>15, <3>3 DEF TimeGoesOn
      <4> QED BY <1>b, <3>1, <3>3, <4>1
    <3> QED BY <3>2, <3>3
  <2>2. ASSUME NEW k \in Tokens
        PROVE  session'[k] \in SessionRecord
    <3>1. session[k] \in SessionRecord
      OBVIOUS
    <3>2. session[k].life # 0 => [session[k] EXCEPT !.life = @ - 1] \in SessionRecord
      BY <3>1 DEF SessionRecord
    <3>3. session'[k] = IF session[k].life = 0 THEN session[k]
                        ELSE [session[k] EXCEPT !.life = @ - 1]
      BY <1>15 DEF TimeGoesOn
    <3> QED BY <3>1, <3>2, <3>3
  <2>3. ASSUME NEW q \in Slots
        PROVE  call'[q] \in CallRecord
    <3>1. call[q] \in CallRecord
      OBVIOUS
    <3>2. call[q].at # "idle" => call[q].elapsed + 1 \in 0 .. MaxCall
      BY <1>15, <3>1 DEF TimeGoesOn, CallRecord
    <3> QED BY <1>15, <3>1, <3>2 DEF TimeGoesOn, CallRecord
  <2> QED BY <1>15, <2>1, <2>2, <2>3 DEF TimeGoesOn
<1>16. CASE UNCHANGED teamVars
    BY <1>16 DEF teamVars
<1>19. ASSUME NEW q \in Slots, Revoke(q) \/ \E k \in KeyIds : AdminRevokes(q, k)
       PROVE  TeamTypes'
  BY <1>12, <1>19 DEF Revoke, AdminRevokes
<1> QED
  BY <1>1, <1>2, <1>3, <1>4, <1>5, <1>6, <1>7, <1>9, <1>10, <1>11, <1>13, <1>14,
     <1>15, <1>16, <1>17, <1>18, <1>19 DEF TeamsNext

\* The request of an arrival: one that trusts the cache, one that reconciles all
\* of its claim, or the admin app's.
NewRequest(token, r) ==
    /\ r.elapsed = 0
    /\ \/ /\ r.at = "run" /\ r.cred = "browser" /\ r.todo = {}
          /\ token \in Tokens /\ session[token].life > 0
          /\ r.sync = IF session[token].failed THEN "failed" ELSE "cached"
       \/ /\ r.at = "sync" /\ r.sync = "fresh" /\ r.todo = r.claim
          /\ r.cred \in {"browser", "accessKey"}
       \/ r.at = "run" /\ r.cred = "admin" /\ r.sync = "none" /\ r.todo = {}

LEMMA ArrivingRequest ==
    ASSUME NEW q \in Slots, NEW token, NEW claim,
           \/ token \in Tokens /\ BrowserHits(q, token, claim)
           \/ BrowserMisses(q, token, claim)
           \/ AccessKeyArrives(q, claim)
           \/ AdminArrives(q)
    PROVE  \E r : Arrives(q, r) /\ NewRequest(token, r)
<1>1. CASE token \in Tokens /\ BrowserHits(q, token, claim)
  <2> DEFINE r == [NoRequest EXCEPT
                     !.at = "run", !.cred = "browser", !.claim = claim,
                     !.sync = IF session[token].failed THEN "failed" ELSE "cached"]
  <2>1. NewRequest(token, r)
    BY <1>1 DEF NewRequest, NoRequest, BrowserHits
  <2>2. Arrives(q, r)
    BY <1>1 DEF BrowserHits
  <2> HIDE DEF r
  <2> QED BY <2>1, <2>2
<1>2. CASE BrowserMisses(q, token, claim)
  <2> DEFINE r == [NoRequest EXCEPT
                     !.at = "sync", !.cred = "browser", !.token = {token},
                     !.claim = claim, !.todo = claim, !.sync = "fresh"]
  <2>1. NewRequest(token, r)
    BY <1>2 DEF NewRequest, NoRequest, BrowserMisses
  <2>2. Arrives(q, r)
    BY <1>2 DEF BrowserMisses
  <2> HIDE DEF r
  <2> QED BY <2>1, <2>2
<1>3. CASE AccessKeyArrives(q, claim)
  <2> DEFINE r == [NoRequest EXCEPT
                     !.at = "sync", !.cred = "accessKey", !.claim = claim,
                     !.todo = claim, !.sync = "fresh"]
  <2>1. NewRequest(token, r)
    BY <1>3 DEF NewRequest, NoRequest, AccessKeyArrives
  <2>2. Arrives(q, r)
    BY <1>3 DEF AccessKeyArrives
  <2> HIDE DEF r
  <2> QED BY <2>1, <2>2
<1>4. CASE AdminArrives(q)
  <2> DEFINE r == [NoRequest EXCEPT !.at = "run", !.cred = "admin"]
  <2>1. NewRequest(token, r)
    BY <1>4 DEF NewRequest, NoRequest, AdminArrives
  <2>2. Arrives(q, r)
    BY <1>4 DEF AdminArrives
  <2> HIDE DEF r
  <2> QED BY <2>1, <2>2
<1> QED BY <1>1, <1>2, <1>3, <1>4

LEMMA RootsInit == TeamsInit => RootsInv
BY DEF TeamsInit, RootsInv, DerivedKeyHasRoot, StageInv, NoRequest, NoKeyRow, NoId

LEMMA RootsNext == TeamTypes /\ RootsInv /\ [TeamsNext]_teamVars => RootsInv'
<1> SUFFICES ASSUME TeamTypes, RootsInv, [TeamsNext]_teamVars
             PROVE  RootsInv'
    OBVIOUS
<1> USE TeamAssumption
<1>t. /\ call \in [Slots -> CallRecord] /\ keyRow \in [KeyIds -> KeyRecord]
      /\ handed \subseteq KeyIds /\ NoId \notin KeyIds
    BY DEF TeamTypes, NoId
\* A step that leaves the keys alone, and brings no request to their statements.
<1>a. ASSUME UNCHANGED <<keyRow, handed>>,
             \A p \in Slots : call'[p].at \in {"root", "reply", "revoke"} =>
                call'[p].at = call[p].at /\ call'[p].key = call[p].key
      PROVE  RootsInv'
  <2>1. ASSUME NEW p \in Slots
        PROVE  StageInv(keyRow, call'[p])
    BY <1>a DEF RootsInv, StageInv
  <2> QED BY <1>a, <2>1 DEF RootsInv, DerivedKeyHasRoot
\* A step of request q that changes the keys for the other requests' good.
<1>b. ASSUME NEW q \in Slots, NEW r, StageInv(keyRow', r),
             call' = [call EXCEPT ![q] = r],
             \A p \in Slots : StageInv(keyRow, call[p]) => StageInv(keyRow', call[p])
      PROVE  \A p \in Slots : StageInv(keyRow', call'[p])
    BY <1>b, <1>t DEF RootsInv
<1>1. ASSUME NEW q \in Slots, NEW r, r.at \in {"run", "sync"}, Arrives(q, r)
      PROVE  RootsInv'
    BY <1>1, <1>a, <1>t DEF Arrives
<1>2. ASSUME NEW q \in Slots, NEW token, NEW claim,
             \/ token \in Tokens /\ BrowserHits(q, token, claim)
             \/ BrowserMisses(q, token, claim)
             \/ AccessKeyArrives(q, claim)
             \/ AdminArrives(q)
      PROVE  RootsInv'
  <2>1. \E r : r.at \in {"run", "sync"} /\ Arrives(q, r)
    <3>1. PICK r : Arrives(q, r) /\ NewRequest(token, r)
      BY <1>2, ArrivingRequest
    <3> QED BY <3>1 DEF NewRequest
  <2> QED BY <1>1, <2>1
<1>4. ASSUME NEW q \in Slots, NEW t \in Teams, Upsert(q, t)
      PROVE  RootsInv'
    BY <1>4, <1>a, <1>t DEF Upsert, CallRecord
<1>5. ASSUME NEW q \in Slots, DropStale(q)
      PROVE  RootsInv'
    BY <1>5, <1>a, <1>t DEF DropStale, Deletes, CallRecord
<1>6. ASSUME NEW q \in Slots, Ensured(q) \/ SyncFails(q)
      PROVE  RootsInv'
    BY <1>6, <1>a, <1>t DEF Ensured, SyncFails, CallRecord
<1>7. ASSUME NEW q \in Slots, NEW cleared \in BOOLEAN, CacheToken(q, cleared)
      PROVE  RootsInv'
    BY <1>7, <1>a, <1>t DEF CacheToken, CallRecord
<1>8. ASSUME NEW q \in Slots, SumsTotals(q) \/ Ends(q)
      PROVE  RootsInv'
    BY <1>8, <1>a, <1>t, NoRequestTyped DEF SumsTotals, Ends
<1>9. ASSUME NEW q \in Slots, NEW k \in KeyIds, FindsDetail(q, k)
      PROVE  RootsInv'
    BY <1>9, <1>a, <1>t DEF FindsDetail, Goes, NoRequest
<1>10. CASE ApiRestarts
    BY <1>10, <1>a, <1>t, NoRequestTyped DEF ApiRestarts
<1>11. CASE TimeGoesOn
    BY <1>11, <1>a, <1>t DEF TimeGoesOn, CallRecord
<1>12. CASE UNCHANGED teamVars
    BY <1>12, <1>a DEF teamVars
<1>13. ASSUME NEW q \in Slots, NEW k \in KeyIds, FindsKey(q, k)
       PROVE  RootsInv'
  <2> DEFINE r == [NoRequest EXCEPT !.at = "revoke", !.key = k,
                                    !.elapsed = call[q].elapsed]
  <2>1. StageInv(keyRow', r) /\ keyRow' = keyRow /\ call' = [call EXCEPT ![q] = r]
    BY <1>13 DEF FindsKey, Goes, StageInv, NoRequest
  <2>2. \A p \in Slots : StageInv(keyRow', call'[p])
    BY <1>b, <2>1
  <2> QED BY <1>13, <2>2 DEF FindsKey, RootsInv, DerivedKeyHasRoot
\* The keys there are keep parent and root, but for the one whose root is set.
<1>c. ASSUME NEW k \in KeyIds, NEW row \in KeyRecord, keyRow' = [keyRow EXCEPT ![k] = row],
             keyRow[k].status = "none"
      PROVE  /\ \A p \in Slots : StageInv(keyRow, call[p]) => StageInv(keyRow', call[p])
             /\ \A j \in handed : IsTopKey(keyRow', j) /\ keyRow'[j].root = j
  <2>1. \A j \in KeyIds : j # k => keyRow'[j] = keyRow[j]
    BY <1>c, <1>t
  <2>2. ASSUME NEW p \in Slots, StageInv(keyRow, call[p])
        PROVE  StageInv(keyRow', call[p])
    BY <1>c, <2>1, <2>2 DEF StageInv, IsTopKey
  <2>3. ASSUME NEW j \in handed
        PROVE  IsTopKey(keyRow', j) /\ keyRow'[j].root = j
    BY <1>c, <1>t, <2>1 DEF RootsInv, IsTopKey
  <2> QED BY <2>2, <2>3
<1>14. ASSUME NEW q \in Slots, NEW k \in KeyIds, NEW t \in Teams,
              UserMints(q, k, t) \/ AdminMints(q, k, t)
       PROVE  RootsInv'
  <2> DEFINE r   == [NoRequest EXCEPT !.at = "root", !.key = k,
                                      !.elapsed = call[q].elapsed]
             row == [status |-> "active", team |-> t, root |-> NoId, parent |-> NoId]
  <2>1. /\ keyRow' = [keyRow EXCEPT ![k] = row] /\ call' = [call EXCEPT ![q] = r]
        /\ keyRow[k].status = "none" /\ handed' = handed
    BY <1>14 DEF UserMints, AdminMints, Mint, Added, Goes, NextId
  <2>2. row \in KeyRecord /\ keyRow'[k] = row
    BY <1>t, <2>1 DEF KeyRecord
  <2>3. StageInv(keyRow', r)
    BY <2>2 DEF StageInv, NoRequest, IsTopKey
  <2>4. \A p \in Slots : StageInv(keyRow', call'[p])
    BY <1>b, <1>c, <2>1, <2>2, <2>3
  <2>5. DerivedKeyHasRoot'
    BY <1>t, <2>1, <2>2 DEF RootsInv, DerivedKeyHasRoot
  <2> QED BY <1>c, <2>1, <2>2, <2>4, <2>5 DEF RootsInv
<1>15. ASSUME NEW p \in KeyIds, NEW k \in KeyIds, Derived(p, k)
       PROVE  RootsInv'
  <2> DEFINE row == [status |-> "active", team |-> keyRow[p].team,
                     root |-> keyRow[p].root, parent |-> p]
  <2>1. /\ keyRow' = [keyRow EXCEPT ![k] = row] /\ call' = call
        /\ keyRow[k].status = "none" /\ handed' = handed /\ p \in handed
    BY <1>15 DEF Derived, Added, NextId
  <2>2. row \in KeyRecord /\ keyRow'[k] = row /\ keyRow[p].root = p
    BY <1>t, <2>1 DEF KeyRecord, RootsInv
  <2>3. DerivedKeyHasRoot'
    BY <1>t, <2>1, <2>2 DEF RootsInv, DerivedKeyHasRoot
  <2> QED BY <1>c, <2>1, <2>2, <2>3 DEF RootsInv
<1>16. ASSUME NEW q \in Slots, SetRoot(q)
       PROVE  RootsInv'
  <2> DEFINE k == call[q].key
             r == [NoRequest EXCEPT !.at = "reply", !.key = k,
                                    !.elapsed = call[q].elapsed]
  <2>1. /\ keyRow' = [keyRow EXCEPT ![k].root = k] /\ call' = [call EXCEPT ![q] = r]
        /\ handed' = handed /\ k \in KeyIds /\ IsTopKey(keyRow, k)
    BY <1>16 DEF SetRoot, Goes, RootsInv, StageInv
  <2>2. /\ keyRow'[k].root = k
        /\ \A j \in KeyIds : /\ IsTopKey(keyRow', j) <=> IsTopKey(keyRow, j)
                             /\ keyRow'[j].parent = keyRow[j].parent
                             /\ j # k => keyRow'[j].root = keyRow[j].root
    BY <1>t, <2>1 DEF KeyRecord, IsTopKey
  <2>3. StageInv(keyRow', r)
    BY <2>1, <2>2 DEF StageInv, NoRequest
  <2>4. ASSUME NEW p \in Slots, StageInv(keyRow, call[p])
        PROVE  StageInv(keyRow', call[p])
    BY <2>2, <2>4 DEF StageInv
  <2>5. \A p \in Slots : StageInv(keyRow', call'[p])
    BY <1>b, <2>1, <2>3, <2>4
  <2>6. DerivedKeyHasRoot'
    BY <2>1, <2>2 DEF RootsInv, DerivedKeyHasRoot, IsTopKey
  <2>7. \A j \in handed : IsTopKey(keyRow', j) /\ keyRow'[j].root = j
    BY <1>t, <2>2 DEF RootsInv
  <2> QED BY <2>1, <2>5, <2>6, <2>7 DEF RootsInv
<1>17. ASSUME NEW q \in Slots, Reply(q)
       PROVE  RootsInv'
  <2>1. /\ keyRow' = keyRow /\ handed' = handed \cup {call[q].key}
        /\ IsTopKey(keyRow, call[q].key) /\ keyRow[call[q].key].root = call[q].key
    BY <1>17 DEF Reply, RootsInv, StageInv
  <2>2. \A p \in Slots : StageInv(keyRow', call'[p])
    BY <1>17, <1>b, <2>1, NoRequestTyped DEF Reply, StageInv
  <2> QED BY <2>1, <2>2 DEF RootsInv, DerivedKeyHasRoot
<1>18. ASSUME NEW q \in Slots, NEW k, RevokesTree(q, k)
       PROVE  RootsInv'
  <2>1. /\ \A j \in KeyIds : /\ keyRow'[j].parent = keyRow[j].parent
                             /\ keyRow'[j].root = keyRow[j].root
                             /\ keyRow[j].status # "none" => keyRow'[j].status # "none"
        /\ handed' = handed /\ call' = [call EXCEPT ![q] = NoRequest]
    BY <1>18, <1>t DEF RevokesTree, KeyRecord
  <2>2. ASSUME NEW p \in Slots, StageInv(keyRow, call[p])
        PROVE  StageInv(keyRow', call[p])
    BY <2>1, <2>2 DEF StageInv, IsTopKey
  <2>3. StageInv(keyRow', NoRequest)
    BY NoRequestTyped DEF StageInv
  <2>4. \A p \in Slots : StageInv(keyRow', call'[p])
    BY <1>b, <2>1, <2>2, <2>3
  <2>5. \A j \in handed : IsTopKey(keyRow', j) /\ keyRow'[j].root = j
    BY <1>t, <2>1 DEF RootsInv, IsTopKey
  <2> QED BY <2>1, <2>4, <2>5 DEF RootsInv, DerivedKeyHasRoot
<1>19. ASSUME NEW q \in Slots, Revoke(q) \/ \E k \in KeyIds : AdminRevokes(q, k)
       PROVE  RootsInv'
  BY <1>18, <1>19 DEF Revoke, AdminRevokes
<1> QED
  BY <1>2, <1>4, <1>5, <1>6, <1>7, <1>8, <1>9, <1>10, <1>11, <1>12, <1>13,
     <1>14, <1>15, <1>16, <1>17, <1>19 DEF TeamsNext

\* A request has upserted what is no longer to do of its claim, each at an age
\* below the time it has taken; and once it deleted the rest, every membership is
\* as recent.  What the cache lets pass is older by the life the token has used.
YoungerThan(mem, age) == \A t \in Teams : mem[t] <= age

SyncInv(mem, rq) ==
    /\ rq.at = "sync" => /\ rq.sync \in {"fresh", "rivalled"}
                         /\ \A t \in rq.claim \ rq.todo : mem[t] <= rq.elapsed
    /\ rq.at = "cache" => rq.cred = "browser" /\ rq.sync \in {"fresh", "rivalled", "failed"}
    /\ rq.at \in {"cache", "run"} => rq.todo = {}
    /\ rq.cred = "browser" => rq.sync # "none"

AgeInv(mem, rq) ==
    /\ rq.at \in {"cache", "run"} /\ rq.cred = "browser" /\ rq.sync \in {"fresh", "rivalled"}
         => YoungerThan(mem, rq.elapsed)
    /\ rq.at = "run" /\ rq.sync = "cached"
         => YoungerThan(mem, MaxCall + Resync - 1 + rq.elapsed)

ShownInv(mem, rq) ==
    rq.sync = "fresh" => \A t \in rq.claim \ rq.todo : mem[t] # NotMember

CallInv(mem, rq) == SyncInv(mem, rq) /\ AgeInv(mem, rq) /\ ShownInv(mem, rq)

SessionInv(mem, s) ==
    s.life > 0 /\ s.failed = FALSE => YoungerThan(mem, MaxCall + Resync - s.life)

MembersInv ==
    /\ \A q \in Slots : CallInv(member, call[q])
    /\ \A k \in Tokens : SessionInv(member, session[k])

LEMMA GoesKeeps == \A mem, k, time : \A stage \in {"root", "reply", "revoke", "totals"} :
    CallInv(mem, [NoRequest EXCEPT !.at = stage, !.key = k, !.elapsed = time])
BY DEF CallInv, SyncInv, AgeInv, ShownInv, NoRequest

LEMMA NoRequestKeeps == \A mem : CallInv(mem, NoRequest)
BY DEF CallInv, SyncInv, AgeInv, ShownInv, NoRequest

LEMMA MembersInit == TeamsInit => MembersInv
BY NoRequestKeeps DEF TeamsInit, MembersInv, SessionInv

\* Memberships that are as they were, or younger, or gone, are as young; an upsert
\* shows a team and hides none.
LEMMA UpsertKeeps ==
    ASSUME NEW mem \in [Teams -> NotMember .. Old], NEW t \in Teams
    PROVE  /\ \A rq \in CallRecord : CallInv(mem, rq) => CallInv([mem EXCEPT ![t] = 0], rq)
           /\ \A s \in SessionRecord :
                 SessionInv(mem, s) => SessionInv([mem EXCEPT ![t] = 0], s)
<1> DEFINE mem2 == [mem EXCEPT ![t] = 0]
<1> USE TeamAssumption
<1>1. \A u \in Teams : mem2[u] # NotMember \/ mem2[u] = mem[u]
    BY DEF NotMember
<1>2. \A u \in Teams : \A age \in Nat : mem[u] <= age => mem2[u] <= age
    OBVIOUS
<1>3. \A age \in Nat : YoungerThan(mem, age) => YoungerThan(mem2, age)
    BY <1>2 DEF YoungerThan
<1> HIDE DEF mem2
<1>4. ASSUME NEW rq \in CallRecord, CallInv(mem, rq)
      PROVE  CallInv(mem2, rq)
  <2>1. /\ rq.elapsed \in Nat /\ MaxCall + Resync - 1 + rq.elapsed \in Nat
        /\ rq.claim \subseteq Teams
    BY DEF CallRecord
  <2>2. SyncInv(mem2, rq)
    BY <1>2, <1>4, <2>1 DEF CallInv, SyncInv
  <2>3. AgeInv(mem2, rq)
    BY <1>3, <1>4, <2>1 DEF CallInv, AgeInv
  <2>4. ShownInv(mem2, rq)
    BY <1>1, <1>4, <2>1 DEF CallInv, ShownInv
  <2> QED BY <2>2, <2>3, <2>4 DEF CallInv
<1>5. ASSUME NEW s \in SessionRecord, SessionInv(mem, s)
      PROVE  SessionInv(mem2, s)
  <2>1. MaxCall + Resync - s.life \in Nat
    BY DEF SessionRecord
  <2> QED BY <1>3, <1>5, <2>1 DEF SessionInv
<1> QED BY <1>4, <1>5 DEF mem2

\* A deletion makes no membership older; what it takes from another request, that
\* request knows of.
LEMMA DropKeeps ==
    ASSUME TeamTypes, MembersInv, NEW q \in Slots, DropStale(q)
    PROVE  MembersInv'
<1> USE TeamAssumption
<1>1. /\ call[q].at = "sync" /\ call[q].cred = "browser" /\ call[q].todo = {}
      /\ call[q] \in CallRecord
      /\ session' = session
      /\ \A t \in Teams : member'[t] = IF t \in userTeams \ call[q].claim
                                       THEN NotMember ELSE member[t]
      /\ \A t \in Teams : member[t] \in NotMember .. Old
    BY DEF DropStale, Deletes, TeamTypes
<1>2. \A t \in Teams : member'[t] <= member[t]
    BY <1>1 DEF NotMember
<1>3. \A t \in Teams : \A age \in Nat : member[t] <= age => member'[t] <= age
    BY <1>1, <1>2 DEF NotMember, Old
<1>4. \A age \in Nat : YoungerThan(member, age) => YoungerThan(member', age)
    BY <1>3 DEF YoungerThan
<1>5. CallInv(member', call'[q])
  <2> DEFINE r == [call[q] EXCEPT !.at = "cache"]
  <2>1. /\ call'[q] = r /\ r.at = "cache" /\ r.cred = "browser" /\ r.todo = {}
        /\ r.sync = call[q].sync /\ r.claim = call[q].claim
        /\ r.elapsed = call[q].elapsed /\ r.elapsed \in Nat
    BY <1>1 DEF DropStale, Deletes, TeamTypes, CallRecord
  <2>2. SyncInv(member, call[q]) /\ ShownInv(member, call[q])
    BY DEF MembersInv, CallInv
  <2>3. YoungerThan(member', r.elapsed)
    <3> SUFFICES ASSUME NEW t \in Teams
                 PROVE  member'[t] <= r.elapsed
        BY DEF YoungerThan
    <3>1. CASE t \in call[q].claim
      BY <1>1, <1>3, <2>1, <2>2, <3>1 DEF SyncInv
    <3>2. CASE t \notin call[q].claim
      <4>1. member'[t] = NotMember
        BY <1>1, <3>2 DEF userTeams
      <4> QED BY <2>1, <4>1 DEF NotMember
    <3> QED BY <3>1, <3>2
  <2>4. SyncInv(member', r)
    BY <1>1, <2>1, <2>2 DEF SyncInv
  <2>5. AgeInv(member', r)
    BY <2>1, <2>3 DEF AgeInv
  <2>6. ShownInv(member', r)
    BY <1>1, <2>1, <2>2 DEF ShownInv, CallRecord
  <2> QED BY <2>1, <2>4, <2>5, <2>6 DEF CallInv
<1>6. ASSUME NEW p \in Slots, p # q
      PROVE  CallInv(member', call'[p])
  <2> DEFINE dropped == userTeams \ call[q].claim
  <2>1. /\ call[p] \in CallRecord /\ call[p].elapsed \in Nat
        /\ MaxCall + Resync - 1 + call[p].elapsed \in Nat
        /\ CallInv(member, call[p])
    BY DEF MembersInv, TeamTypes, CallRecord
  <2>2. call[p].claim \subseteq Teams
    BY <2>1 DEF CallRecord
  <2>3. CASE Rivalled(p, dropped)
    <3> DEFINE r == [call[p] EXCEPT !.sync = "rivalled"]
    <3>1. /\ call'[p] = r /\ r.at = call[p].at /\ r.cred = call[p].cred
          /\ r.todo = call[p].todo /\ r.claim = call[p].claim
          /\ r.sync = "rivalled" /\ r.elapsed = call[p].elapsed
          /\ call[p].sync = "fresh"
      BY <1>6, <2>1, <2>3 DEF DropStale, Deletes, CallRecord, Rivalled
    <3> HIDE DEF r
    <3>2. SyncInv(member', r)
      BY <1>3, <2>1, <2>2, <3>1 DEF SyncInv, CallInv
    <3>3. AgeInv(member', r)
      BY <1>4, <2>1, <3>1 DEF AgeInv, CallInv
    <3>4. ShownInv(member', r)
      BY <3>1 DEF ShownInv
    <3> QED BY <3>1, <3>2, <3>3, <3>4 DEF CallInv
  <2>4. CASE ~Rivalled(p, dropped)
    <3>1. call'[p] = call[p]
      BY <1>6, <2>4 DEF DropStale, Deletes
    <3>2. SyncInv(member', call[p])
      BY <1>3, <2>1, <2>2 DEF SyncInv, CallInv
    <3>3. AgeInv(member', call[p])
      BY <1>4, <2>1 DEF AgeInv, CallInv
    <3>4. ShownInv(member', call[p])
      BY <1>1, <2>1, <2>2, <2>4 DEF ShownInv, CallInv, Rivalled
    <3> QED BY <3>1, <3>2, <3>3, <3>4 DEF CallInv
  <2> QED BY <2>3, <2>4
<1>7. ASSUME NEW k \in Tokens
      PROVE  SessionInv(member', session'[k])
  <2>1. session[k] \in SessionRecord /\ SessionInv(member, session[k])
    BY DEF TeamTypes, MembersInv
  <2>2. MaxCall + Resync - session[k].life \in Nat
    BY <2>1 DEF SessionRecord
  <2> QED BY <1>1, <1>4, <2>1, <2>2 DEF SessionInv
<1> QED BY <1>5, <1>6, <1>7 DEF MembersInv

\* A step of request q alone, that leaves the memberships as they are.
LEMMA MembersKept ==
    ASSUME TeamTypes, MembersInv, NEW q \in Slots, NEW r,
           call' = [call EXCEPT ![q] = r], member' = member,
           CallInv(member, r)
    PROVE  \A p \in Slots : CallInv(member', call'[p])
BY DEF MembersInv, TeamTypes

LEMMA MembersNext ==
    TeamTypes /\ TeamTypes' /\ MembersInv /\ [TeamsNext]_teamVars => MembersInv'
<1> SUFFICES ASSUME TeamTypes, TeamTypes', MembersInv, [TeamsNext]_teamVars
             PROVE  MembersInv'
    OBVIOUS
<1> USE TeamAssumption
<1>t. /\ call \in [Slots -> CallRecord] /\ member \in [Teams -> NotMember .. Old]
      /\ session \in [Tokens -> SessionRecord]
      /\ \A p \in Slots : call[p] \in CallRecord /\ CallInv(member, call[p])
    BY DEF TeamTypes, MembersInv
\* Steps of one request that leave the memberships and the cache as they are.
<1>a. ASSUME NEW q \in Slots, NEW r, CallInv(member, r), UNCHANGED <<member, session>>,
             call' = [call EXCEPT ![q] = r]
      PROVE  MembersInv'
    BY <1>a, MembersKept DEF MembersInv
<1>1. ASSUME NEW q \in Slots, NEW token, NEW r, Arrives(q, r), NewRequest(token, r)
      PROVE  MembersInv'
  <2>1. CallInv(member, r)
    <3>1. SyncInv(member, r)
      BY <1>1 DEF NewRequest, SyncInv
    <3>2. AgeInv(member, r)
      <4>3. ASSUME r.at = "run", r.sync = "cached"
            PROVE  YoungerThan(member, MaxCall + Resync - 1 + r.elapsed)
        <5>1. /\ r.elapsed = 0 /\ token \in Tokens /\ session[token].life > 0
              /\ ~session[token].failed
          BY <1>1, <4>3 DEF NewRequest
        <5>2. session[token].failed = FALSE \/ session[token].failed = TRUE
          BY <1>t, <5>1 DEF SessionRecord
        <5>3. SessionInv(member, session[token]) /\ session[token].life \in 0 .. Resync
          BY <1>t, <5>1 DEF MembersInv, SessionRecord
        <5>4. YoungerThan(member, MaxCall + Resync - session[token].life)
          BY <5>1, <5>2, <5>3 DEF SessionInv
        <5> QED BY <1>t, <5>1, <5>3, <5>4 DEF YoungerThan, NotMember, Old
      <4> QED BY <1>1, <4>3 DEF AgeInv, NewRequest
    <3>3. ShownInv(member, r)
      BY <1>1 DEF NewRequest, ShownInv
    <3> QED BY <3>1, <3>2, <3>3 DEF CallInv
  <2> QED BY <1>1, <1>a, <2>1 DEF Arrives
<1>2. ASSUME NEW q \in Slots, NEW token, NEW claim,
             \/ token \in Tokens /\ BrowserHits(q, token, claim)
             \/ BrowserMisses(q, token, claim)
             \/ AccessKeyArrives(q, claim)
             \/ AdminArrives(q)
      PROVE  MembersInv'
  <2>1. PICK r : Arrives(q, r) /\ NewRequest(token, r)
    BY <1>2, ArrivingRequest
  <2> QED BY <1>1, <2>1
<1>3. ASSUME NEW q \in Slots, NEW t \in Teams, Upsert(q, t)
      PROVE  MembersInv'
  <2> DEFINE r == [call[q] EXCEPT !.todo = @ \ {t}]
  <2>1. /\ call' = [call EXCEPT ![q] = r] /\ session' = session
        /\ member' = [member EXCEPT ![t] = 0]
        /\ call[q].at = "sync" /\ t \in call[q].todo
    BY <1>3 DEF Upsert
  <2>2. /\ r.at = "sync" /\ r.cred = call[q].cred /\ r.claim = call[q].claim
        /\ r.todo = call[q].todo \ {t} /\ r.sync = call[q].sync
        /\ r.elapsed = call[q].elapsed /\ r.elapsed \in Nat /\ r.claim \subseteq Teams
    BY <1>t, <2>1 DEF CallRecord
  <2> HIDE DEF r
  <2>3. member'[t] = 0 /\ \A u \in Teams : member'[u] = member[u] \/ u = t
    BY <1>t, <2>1
  <2>4. CallInv(member', r)
    <3>1. SyncInv(member, call[q]) /\ ShownInv(member, call[q])
      BY <1>t DEF CallInv
    <3>2. SyncInv(member', r)
      BY <2>1, <2>2, <2>3, <3>1 DEF SyncInv
    <3>3. AgeInv(member', r)
      BY <2>2 DEF AgeInv
    <3>4. ShownInv(member', r)
      BY <2>1, <2>2, <2>3, <3>1 DEF ShownInv, NotMember
    <3> QED BY <3>2, <3>3, <3>4 DEF CallInv
  <2>5. ASSUME NEW p \in Slots
        PROVE  CallInv(member', call'[p])
    BY <1>t, <2>1, <2>4, UpsertKeeps
  <2>6. ASSUME NEW k \in Tokens
        PROVE  SessionInv(member', session'[k])
    BY <1>t, <2>1, UpsertKeeps DEF MembersInv
  <2> QED BY <2>5, <2>6 DEF MembersInv
<1>4. ASSUME NEW q \in Slots, DropStale(q)
      PROVE  MembersInv'
    BY <1>4, DropKeeps
<1>5. ASSUME NEW q \in Slots, Ensured(q)
      PROVE  MembersInv'
  <2> DEFINE r == [call[q] EXCEPT !.at = "run"]
  <2>1. /\ call' = [call EXCEPT ![q] = r] /\ UNCHANGED <<member, session>>
        /\ call[q].at = "sync" /\ call[q].cred = "accessKey" /\ call[q].todo = {}
    BY <1>5 DEF Ensured
  <2>2. /\ r.at = "run" /\ r.cred = "accessKey" /\ r.claim = call[q].claim
        /\ r.todo = {} /\ r.sync = call[q].sync
    BY <1>t, <2>1 DEF CallRecord
  <2> HIDE DEF r
  <2>3. CallInv(member, r)
    BY <1>t, <2>1, <2>2 DEF CallInv, SyncInv, AgeInv, ShownInv
  <2> QED BY <1>a, <2>1, <2>3
<1>6. ASSUME NEW q \in Slots, SyncFails(q)
      PROVE  MembersInv'
  <2> DEFINE r == [call[q] EXCEPT !.at = IF call[q].cred = "browser"
                                         THEN "cache" ELSE "run",
                                  !.sync = "failed", !.todo = {}]
  <2>1. call' = [call EXCEPT ![q] = r] /\ UNCHANGED <<member, session>>
    BY <1>6, <1>t DEF SyncFails, CallRecord
  <2>2. /\ r.at = IF call[q].cred = "browser" THEN "cache" ELSE "run"
        /\ r.cred = call[q].cred /\ r.todo = {} /\ r.sync = "failed"
    BY <1>t, <2>1 DEF CallRecord
  <2> HIDE DEF r
  <2>3. CallInv(member, r)
    BY <2>2 DEF CallInv, SyncInv, AgeInv, ShownInv
  <2> QED BY <1>a, <2>1, <2>3
<1>7. ASSUME NEW q \in Slots, NEW cleared \in BOOLEAN, CacheToken(q, cleared)
      PROVE  MembersInv'
  <2> DEFINE r == [call[q] EXCEPT !.at = "run", !.token = {}]
  <2>1. /\ call' = [call EXCEPT ![q] = r] /\ member' = member /\ call[q].at = "cache"
        /\ \A k \in Tokens :
              session'[k] = IF k \in call[q].token
                            THEN [life |-> Resync, failed |-> call[q].sync = "failed"]
                            ELSE IF cleared THEN [life |-> 0, failed |-> FALSE]
                            ELSE session[k]
    BY <1>7, <1>t DEF CacheToken, CallRecord
  <2>2. /\ r.at = "run" /\ r.cred = call[q].cred /\ r.claim = call[q].claim
        /\ r.todo = call[q].todo /\ r.sync = call[q].sync
        /\ r.elapsed = call[q].elapsed /\ call[q].elapsed \in 0 .. MaxCall
    BY <1>t DEF CallRecord
  <2> HIDE DEF r
  <2>3. CallInv(member, call[q])
    BY <1>t
  <2>4. CallInv(member, r)
    BY <2>1, <2>2, <2>3 DEF CallInv, SyncInv, AgeInv, ShownInv
  <2>5. ASSUME NEW k \in Tokens
        PROVE  SessionInv(member', session'[k])
    <3>1. CASE k \in call[q].token
      <4>1. session'[k].life = Resync /\ session'[k].failed = (call[q].sync = "failed")
        BY <2>1, <3>1
      <4>2. ASSUME call[q].sync # "failed"
            PROVE  YoungerThan(member, MaxCall)
        <5>1. YoungerThan(member, call[q].elapsed)
          BY <2>1, <2>3, <4>2 DEF CallInv, AgeInv, SyncInv
        <5> QED BY <1>t, <2>2, <5>1 DEF YoungerThan, NotMember, Old
      <4>3. MaxCall + Resync - Resync = MaxCall
        OBVIOUS
      <4> QED BY <2>1, <4>1, <4>2, <4>3 DEF SessionInv
    <3>2. CASE k \notin call[q].token /\ cleared
      BY <2>1, <3>2 DEF SessionInv
    <3>3. CASE k \notin call[q].token /\ ~cleared
      BY <2>1, <3>3 DEF MembersInv
    <3> QED BY <3>1, <3>2, <3>3
  <2>6. \A p \in Slots : CallInv(member', call'[p])
    BY <2>1, <2>4, MembersKept
  <2> QED BY <2>5, <2>6 DEF MembersInv
<1>8. ASSUME NEW q \in Slots, NEW k,
             NEW stage \in {"root", "reply", "revoke", "totals"}, Goes(q, stage, k),
             UNCHANGED <<member, session>>
      PROVE  MembersInv'
    BY <1>8, <1>a, GoesKeeps DEF Goes
<1>9. ASSUME NEW q \in Slots, NEW k \in KeyIds, NEW t \in Teams,
             UserMints(q, k, t) \/ AdminMints(q, k, t)
      PROVE  MembersInv'
    BY <1>9, <1>8 DEF UserMints, AdminMints, Mint
<1>10. ASSUME NEW q \in Slots, SetRoot(q)
       PROVE  MembersInv'
    BY <1>10, <1>8 DEF SetRoot
<1>11. ASSUME NEW q \in Slots, NEW k \in KeyIds, FindsKey(q, k) \/ FindsDetail(q, k)
       PROVE  MembersInv'
    BY <1>11, <1>8 DEF FindsKey, FindsDetail
<1>12. ASSUME NEW q \in Slots, call' = [call EXCEPT ![q] = NoRequest],
              UNCHANGED <<member, session>>
       PROVE  MembersInv'
    BY <1>12, <1>a, NoRequestKeeps
<1>13. ASSUME NEW q \in Slots,
              \/ Reply(q) \/ SumsTotals(q) \/ Ends(q) \/ Revoke(q)
              \/ \E k \in KeyIds : AdminRevokes(q, k)
       PROVE  MembersInv'
    BY <1>12, <1>13 DEF Reply, SumsTotals, Ends, Revoke, AdminRevokes, RevokesTree
<1>14. CASE ApiRestarts
  <2>1. \A q \in Slots : CallInv(member', call'[q])
    BY <1>14, NoRequestKeeps DEF ApiRestarts
  <2>2. \A k \in Tokens : SessionInv(member', session'[k])
    BY <1>14 DEF ApiRestarts, SessionInv
  <2> QED BY <2>1, <2>2 DEF MembersInv
<1>15. CASE UNCHANGED teamVars \/ \E p, k \in KeyIds : Derived(p, k)
    BY <1>15 DEF teamVars, Derived, MembersInv
<1>16. CASE TimeGoesOn
  <2>1. /\ \A t \in Teams : member'[t] = member[t] \/ member'[t] = member[t] + 1
        /\ \A t \in Teams : member[t] = NotMember <=> member'[t] = NotMember
        /\ \A t \in Teams : member[t] \in NotMember .. Old
    BY <1>16, <1>t DEF TimeGoesOn, NotMember
  <2>2. ASSUME NEW age \in Nat, YoungerThan(member, age)
        PROVE  YoungerThan(member', age + 1)
    BY <2>1, <2>2 DEF YoungerThan, NotMember, Old
  <2>3. ASSUME NEW q \in Slots
        PROVE  CallInv(member', call'[q])
    <3>1. CallInv(member, call[q]) /\ call[q] \in CallRecord
      BY <1>t
    <3>2. CASE call[q].at = "idle"
      <4>1. call'[q] = call[q]
        BY <1>16, <3>2 DEF TimeGoesOn
      <4>2. ShownInv(member', call[q])
        BY <2>1, <3>1 DEF CallInv, ShownInv, CallRecord
      <4> QED BY <3>1, <3>2, <4>1, <4>2 DEF CallInv, SyncInv, AgeInv
    <3>3. CASE call[q].at # "idle"
      <4> DEFINE r == [call[q] EXCEPT !.elapsed = @ + 1]
      <4>1. call'[q] = r
        BY <1>16, <3>3 DEF TimeGoesOn
      <4>2. /\ r.at = call[q].at /\ r.cred = call[q].cred /\ r.claim = call[q].claim
            /\ r.todo = call[q].todo /\ r.sync = call[q].sync
            /\ r.elapsed = call[q].elapsed + 1 /\ call[q].elapsed \in Nat
            /\ call[q].claim \subseteq Teams
        BY <3>1 DEF CallRecord
      <4> HIDE DEF r
      <4>3. SyncInv(member', r)
        <5>1. \A t \in Teams : member[t] <= call[q].elapsed => member'[t] <= r.elapsed
          BY <2>1, <4>2 DEF NotMember, Old
        <5> QED BY <3>1, <4>2, <5>1 DEF CallInv, SyncInv
      <4>4. AgeInv(member', r)
        <5>1. YoungerThan(member, call[q].elapsed) => YoungerThan(member', r.elapsed)
          BY <2>2, <4>2
        <5>2. /\ MaxCall + Resync - 1 + call[q].elapsed \in Nat
              /\ MaxCall + Resync - 1 + call[q].elapsed + 1
                   = MaxCall + Resync - 1 + r.elapsed
          BY <4>2
        <5>3. YoungerThan(member, MaxCall + Resync - 1 + call[q].elapsed)
                => YoungerThan(member', MaxCall + Resync - 1 + r.elapsed)
          BY <2>2, <5>2
        <5> QED BY <3>1, <4>2, <5>1, <5>3 DEF CallInv, AgeInv
      <4>5. ShownInv(member', r)
        BY <2>1, <3>1, <4>2 DEF CallInv, ShownInv
      <4> QED BY <4>1, <4>3, <4>4, <4>5 DEF CallInv
    <3> QED BY <3>2, <3>3
  <2>4. ASSUME NEW k \in Tokens
        PROVE  SessionInv(member', session'[k])
    <3>1. session[k] \in SessionRecord /\ SessionInv(member, session[k])
      BY <1>t DEF MembersInv
    <3>2. CASE session[k].life = 0
      <4>1. session'[k] = session[k]
        BY <1>16, <3>2 DEF TimeGoesOn
      <4> QED BY <3>2, <4>1 DEF SessionInv
    <3>3. CASE session[k].life # 0
      <4>1. session'[k] = [session[k] EXCEPT !.life = @ - 1]
        BY <1>16, <3>3 DEF TimeGoesOn
      <4>2. /\ session'[k].life = session[k].life - 1
            /\ session'[k].failed = session[k].failed
            /\ session[k].life \in 1 .. Resync
        BY <3>1, <3>3, <4>1 DEF SessionRecord
      <4>3. /\ MaxCall + Resync - session[k].life \in Nat
            /\ MaxCall + Resync - session[k].life + 1
                 = MaxCall + Resync - session'[k].life
        BY <4>2
      <4>4. YoungerThan(member, MaxCall + Resync - session[k].life)
              => YoungerThan(member', MaxCall + Resync - session'[k].life)
        BY <2>2, <4>3
      <4> QED BY <3>1, <4>2, <4>4 DEF SessionInv
    <3> QED BY <3>2, <3>3
  <2> QED BY <2>3, <2>4 DEF MembersInv
<1> QED
  BY <1>2, <1>3, <1>4, <1>5, <1>6, <1>7, <1>9, <1>10, <1>11, <1>13, <1>14, <1>15,
     <1>16 DEF TeamsNext

TeamInv == TeamTypes /\ RootsInv /\ MembersInv

LEMMA TeamInvAlways == TeamsSpec => []TeamInv
<1>1. TeamsInit => TeamInv
    BY TeamTypeInit, RootsInit, MembersInit DEF TeamInv
<1>2. TeamInv /\ [TeamsNext]_teamVars => TeamInv'
    BY TeamTypeNext, RootsNext, MembersNext DEF TeamInv
<1> QED BY <1>1, <1>2, PTL DEF TeamsSpec

\* A derived key carries the root that revocation and budgets reach it by,
\* wherever the two statements of a mint are interrupted.
THEOREM DerivedKeysHaveRoots == TeamsSpec => []DerivedKeyHasRoot
<1>1. TeamInv => DerivedKeyHasRoot
    BY DEF TeamInv, RootsInv
<1> QED BY <1>1, TeamInvAlways, PTL

\* A request whose sync did not fail sees the teams of its claim, whichever other
\* requests of the user are reconciled meanwhile.
THEOREM ClaimsAreVisible == TeamsSpec => []ClaimIsVisible
<1>1. TeamInv => ClaimIsVisible
    BY DEF TeamInv, TeamTypes, MembersInv, CallInv, SyncInv, ShownInv, ClaimIsVisible,
           userTeams, CallRecord
<1> QED BY <1>1, TeamInvAlways, PTL

\* What a browser's request sees, some claim held in the last Resync and two
\* requests' time.
THEOREM ClaimsAreRecent == TeamsSpec => []SeesRecentClaims
<1>1. TeamInv => SeesRecentClaims
  <2> SUFFICES ASSUME TeamInv, NEW q \in Slots, call[q].at = "run",
                      call[q].cred = "browser", call[q].sync # "failed",
                      NEW t \in userTeams
               PROVE  member[t] < Old
      BY DEF SeesRecentClaims
  <2>1. /\ call[q] \in CallRecord /\ CallInv(member, call[q])
        /\ t \in Teams /\ member[t] \in NotMember .. Old
      BY DEF TeamInv, TeamTypes, MembersInv, userTeams
  <2>2. call[q].elapsed \in 0 .. MaxCall /\ call[q].sync \in {"fresh", "cached", "rivalled"}
      BY <2>1 DEF CallRecord, CallInv, SyncInv
  <2>3. CASE call[q].sync = "cached"
    <3>1. member[t] <= MaxCall + Resync - 1 + call[q].elapsed
      BY <2>1, <2>3 DEF CallInv, AgeInv, YoungerThan
    <3> QED BY <2>1, <2>2, <3>1, TeamAssumption DEF Old, NotMember
  <2>4. CASE call[q].sync # "cached"
    <3>1. member[t] <= call[q].elapsed
      BY <2>1, <2>2, <2>4 DEF CallInv, AgeInv, YoungerThan
    <3> QED BY <2>1, <2>2, <3>1, TeamAssumption DEF Old, NotMember
  <2> QED BY <2>3, <2>4
<1> QED BY <1>1, TeamInvAlways, PTL

\* The types of the variables of teams and keys.
THEOREM TeamTypeCorrect == TeamsSpec => []TeamsTypeOK
<1>1. TeamInv => TeamsTypeOK
    BY TypesAreTypes DEF TeamInv
<1> QED BY <1>1, TeamInvAlways, PTL

-------------------------------------------------------------------------------
(* The three together *)

\* A step of one part, or of none, is a step or a stutter of each.
LEMMA EachKeyPartRuns == KeysSpec => CacheSpec /\ Spec /\ TeamsSpec
<1>1. KeysInit => CacheInit /\ Init /\ TeamsInit
    BY DEF KeysInit
<1>2. [KeysNext]_<<cacheVars, vars, teamVars>>
      => [CacheNext]_cacheVars /\ [Next]_vars /\ [TeamsNext]_teamVars
    BY DEF KeysNext
<1> QED BY <1>1, <1>2, PTL DEF KeysSpec, CacheSpec, Spec, TeamsSpec

\* The types of every variable of the three parts, while each of them moves.
THEOREM KeysTypeCorrect == KeysSpec => []KeysTypesOK
<1>1. CacheTypeOK /\ TypeOK /\ TeamsTypeOK => KeysTypesOK
    BY DEF KeysTypesOK
<1> QED BY <1>1, EachKeyPartRuns, CacheTypeCorrect, DeriveTypeCorrect,
           TeamTypeCorrect, PTL

\* What each part keeps alone it keeps among the others: they share no state.
THEOREM KeysKeep ==
    KeysSpec =>
        [](/\ RateHolds /\ CapHolds
           /\ AllowIsFresh /\ RefusalIsFresh
           /\ DerivedKeyHasRoot /\ ClaimIsVisible /\ SeesRecentClaims)
BY EachKeyPartRuns, RateIsHeld, CapIsHeld, PassesAreFresh, RefusalsAreFresh,
   DerivedKeysHaveRoots, ClaimsAreVisible, ClaimsAreRecent, PTL
===============================================================================
