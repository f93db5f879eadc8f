-------------------------- MODULE OcfDriversProofs --------------------------
(***************************************************************************)
(* Proofs about OcfDrivers, for any drivers, users, operations and size of *)
(* the table: the counts of an entry are exact, an entry waiting to be     *)
(* cleaned up is counted on, and a request goes to the driver that made    *)
(* its session.                                                            *)
(*                                                                         *)
(* They hold when a driver is built in, for asymmetric operations too if   *)
(* there are any, and all users follow a migration (the assumptions of the *)
(* theorems); the module OcfDrivers says what becomes of the others.       *)
(*                                                                         *)
(* The heart of the invariant is Held: the entry of a session that exists  *)
(* is still that of the driver that made it, or is kept for its sessions.  *)
(***************************************************************************)
EXTENDS OcfDrivers, TLAPS, FiniteSetTheorems, WellFoundedInduction

(* The elements that f maps to h, and one more or as many of them.         *)
To(S, f, h) == {v \in S : f[v] = h}

LEMMA Counts ==
  ASSUME NEW S, IsFiniteSet(S), NEW f, NEW h
  PROVE  /\ Cardinality(To(S, f, h)) \in Nat
         /\ Cardinality(To(S, f, h)) <= Cardinality(S)
         /\ \A u \in S : f[u] = h => Cardinality(To(S, f, h)) # 0
         /\ (\A u \in S : f[u] # h) => Cardinality(To(S, f, h)) = 0
<1>1. To(S, f, h) \in SUBSET S
  BY DEF To
<1>2. IsFiniteSet(To(S, f, h)) /\ Cardinality(To(S, f, h)) <= Cardinality(S)
  BY <1>1, FS_Subset
<1>3. Cardinality(To(S, f, h)) \in Nat
  BY <1>2, FS_CardinalityType
<1>4. Cardinality(To(S, f, h)) = 0 <=> To(S, f, h) = {}
  BY <1>2, FS_EmptySet
<1>5. \A u \in S : f[u] = h => To(S, f, h) # {}
  BY DEF To
<1>6. (\A u \in S : f[u] # h) => To(S, f, h) = {}
  BY DEF To
<1> QED  BY <1>2, <1>3, <1>4, <1>5, <1>6

LEMMA Joined ==
  ASSUME NEW S, IsFiniteSet(S), NEW f, NEW g, NEW u \in S, NEW h,
         f[u] # h, g[u] = h, \A v \in S \ {u} : g[v] = f[v]
  PROVE  /\ Cardinality(To(S, f, h)) \in Nat
         /\ Cardinality(To(S, g, h)) = Cardinality(To(S, f, h)) + 1
<1>1. To(S, f, h) \in SUBSET S
  BY DEF To
<1>2. IsFiniteSet(To(S, f, h))
  BY <1>1, FS_Subset
<1>3. To(S, g, h) = To(S, f, h) \cup {u} /\ u \notin To(S, f, h)
  BY DEF To
<1> QED  BY <1>2, <1>3, FS_AddElement, FS_CardinalityType

LEMMA Stayed ==
  ASSUME NEW S, NEW f, NEW g, NEW u \in S, NEW h,
         f[u] # h, g[u] # h, \A v \in S \ {u} : g[v] = f[v]
  PROVE  To(S, g, h) = To(S, f, h)
  BY DEF To

-----------------------------------------------------------------------------
(* An entry, and what the calls that count less make of it.                *)
Caps == [cc_dev : Drivers \cup {None}, cleanup : BOOLEAN,
         cc_sessions : Nat, cc_koperations : Nat]

LEMMA FreeType ==
  /\ Free \in Caps
  /\ Free.cc_dev = None /\ Free.cleanup = FALSE
  /\ Free.cc_sessions = 0 /\ Free.cc_koperations = 0
  BY DEF Free, Caps

LEMMA UncountedIs ==
  ASSUME NEW c \in Caps, c.cc_sessions # 0
  PROVE  /\ Uncounted(c) \in Caps
         /\ Uncounted(c).cc_sessions = c.cc_sessions - 1
         /\ Uncounted(c).cc_koperations = c.cc_koperations
         /\ \/ Uncounted(c) = Free
            \/ /\ Uncounted(c).cc_dev = c.cc_dev
               /\ Uncounted(c).cleanup = c.cleanup
         /\ c.cleanup /\ c.cc_dev = None =>
              \/ Uncounted(c) = Free
              \/ Uncounted(c).cc_sessions # 0
              \/ Uncounted(c).cc_koperations # 0
         /\ ~c.cleanup => Uncounted(c).cc_dev = c.cc_dev
                          /\ Uncounted(c).cleanup = FALSE
<1> DEFINE e == [c EXCEPT !.cc_sessions = IF @ > 0 THEN @ - 1 ELSE @]
<1>1. /\ e \in Caps
      /\ e.cc_sessions = c.cc_sessions - 1
      /\ e.cc_koperations = c.cc_koperations
      /\ e.cc_dev = c.cc_dev
      /\ e.cleanup = c.cleanup
  BY DEF Caps
<1> HIDE DEF e
<1>2. Uncounted(c) = IF e.cleanup /\ e.cc_sessions = 0 /\ e.cc_koperations = 0
                     THEN Free ELSE e
  BY DEF Uncounted, Removed, e
<1>3. CASE e.cleanup /\ e.cc_sessions = 0 /\ e.cc_koperations = 0
  <2>1. Uncounted(c) = Free
    BY <1>2, <1>3
  <2> QED  BY <1>1, <1>3, <2>1, FreeType
<1>4. CASE ~(e.cleanup /\ e.cc_sessions = 0 /\ e.cc_koperations = 0)
  <2>1. Uncounted(c) = e
    BY <1>2, <1>4
  <2> QED  BY <1>1, <1>4, <2>1 DEF Caps
<1> QED  BY <1>3, <1>4

LEMMA KopUncountedIs ==
  ASSUME NEW c \in Caps, c.cc_koperations # 0, c.cc_koperations < KopMod,
         KopMod \in Nat
  PROVE  /\ KopUncounted(c) \in Caps
         /\ KopUncounted(c).cc_sessions = c.cc_sessions
         /\ KopUncounted(c).cc_koperations = c.cc_koperations - 1
         /\ \/ KopUncounted(c) = Free
            \/ /\ KopUncounted(c).cc_dev = c.cc_dev
               /\ KopUncounted(c).cleanup = c.cleanup
         /\ c.cleanup /\ c.cc_dev = None =>
              \/ KopUncounted(c) = Free
              \/ KopUncounted(c).cc_sessions # 0
              \/ KopUncounted(c).cc_koperations # 0
         /\ ~c.cleanup => KopUncounted(c).cc_dev = c.cc_dev
                          /\ KopUncounted(c).cleanup = FALSE
<1> DEFINE e == [c EXCEPT !.cc_koperations = (@ + KopMod - 1) % KopMod]
<1>0. (c.cc_koperations + KopMod - 1) % KopMod = c.cc_koperations - 1
  BY DEF Caps
<1>1. /\ e \in Caps
      /\ e.cc_sessions = c.cc_sessions
      /\ e.cc_koperations = c.cc_koperations - 1
      /\ e.cc_dev = c.cc_dev
      /\ e.cleanup = c.cleanup
  BY <1>0 DEF Caps
<1> HIDE DEF e
<1>2. KopUncounted(c) =
        IF e.cleanup /\ e.cc_sessions = 0 /\ e.cc_koperations = 0
        THEN Free ELSE e
  BY DEF KopUncounted, Removed, e
<1>3. CASE e.cleanup /\ e.cc_sessions = 0 /\ e.cc_koperations = 0
  <2>1. KopUncounted(c) = Free
    BY <1>2, <1>3
  <2> QED  BY <1>1, <1>3, <2>1, FreeType
<1>4. CASE ~(e.cleanup /\ e.cc_sessions = 0 /\ e.cc_koperations = 0)
  <2>1. KopUncounted(c) = e
    BY <1>2, <1>4
  <2> QED  BY <1>1, <1>4, <2>1 DEF Caps
<1> QED  BY <1>3, <1>4

LEMMA FinishedIs ==
  ASSUME NEW c \in Caps
  PROVE  /\ Finished(c) \in Caps
         /\ Finished(c).cc_dev = None
         /\ Finished(c).cc_sessions = c.cc_sessions
         /\ Finished(c).cc_koperations = c.cc_koperations
         /\ \/ Finished(c) = Free
            \/ /\ Finished(c).cleanup
               /\ Finished(c).cc_sessions > 0 \/ Finished(c).cc_koperations > 0
<1>1. CASE c.cc_sessions # 0 \/ c.cc_koperations # 0
  <2> DEFINE d == [c EXCEPT !.cc_dev = None]
             e == [d EXCEPT !.cleanup = TRUE]
  <2>1. Finished(c) = e
    BY <1>1 DEF Finished
  <2>2. /\ d \in Caps /\ d.cc_dev = None
        /\ d.cc_sessions = c.cc_sessions
        /\ d.cc_koperations = c.cc_koperations
    BY DEF Caps
  <2> HIDE DEF d
  <2>3. e.cleanup = TRUE
    BY <2>2 DEF Caps
  <2>4. /\ e.cc_dev = None
        /\ e.cc_sessions = c.cc_sessions
        /\ e.cc_koperations = c.cc_koperations
    BY <2>2 DEF Caps
  <2>5. e \in Caps
    BY <2>2 DEF Caps
  <2> HIDE DEF e
  <2>6. c.cc_sessions > 0 \/ c.cc_koperations > 0
    BY <1>1 DEF Caps
  <2> QED  BY <2>1, <2>3, <2>4, <2>5, <2>6
<1>2. CASE c.cc_sessions = 0 /\ c.cc_koperations = 0
  <2>1. Finished(c) = Free
    BY <1>2 DEF Finished
  <2> QED  BY <1>2, <2>1, FreeType
<1> QED  BY <1>1, <1>2

-----------------------------------------------------------------------------
Hold == [u \in Users |-> HoldsOn(u)]

(* A session that is held: its entry is that of the attachment that made   *)
(* it, or is kept, without a device, until nobody counts on it.            *)
Bound(s) ==
  /\ s.hid \in Hids /\ s.dev \in Drivers
  /\ \/ Cap(s.hid).cleanup
     \/ Cap(s.hid).cc_dev = s.dev /\ attached[s.dev] = s.lid

Busy(u) == pc[u] \notin {"none", "reselect"}

Held(u) ==
  /\ Busy(u) => Bound(Current(u))
  /\ pc[u] \in {"queued", "process"} => crp_sid[u] = sid[u]
  /\ pc[u] = "process" => at[u] = crp_sid[u]

SessionCounts ==
  \A h \in Hids : Cap(h).cc_sessions = Cardinality(To(Users, Hold, h))

KopCounts ==
  \A h \in Hids : Cap(h).cc_koperations = Cardinality(To(KeyUsers, kop, h))

(* A driver knows its entry, the entry its driver.                         *)
Linked ==
  /\ \A d \in Drivers : sc_cid[d] # None => Cap(sc_cid[d]).cc_dev = d
  /\ \A h \in Hids : Cap(h).cc_dev # None => sc_cid[Cap(h).cc_dev] = h

Table == SessionCounts /\ KopCounts /\ CleanupIsCountedOn /\ Linked

DriversInv == TypeOK /\ Table /\ \A u \in Users : Held(u)

(* Some driver can be selected, and one for asymmetric operations if any.  *)
DriversLeft == Selected # {} /\ (KeyUsers # {} => KSuitable # {})

(* What a step may make of an entry.                                       *)
Moves(h) ==
  \/ crypto_drivers'[h] = Free
  \/ crypto_drivers'[h].cleanup
  \/ /\ crypto_drivers'[h].cc_dev = Cap(h).cc_dev
     /\ crypto_drivers'[h].cleanup = Cap(h).cleanup

(* A session stays bound while it is counted on.                           *)
LEMMA BoundKept ==
  ASSUME TypeOK, NEW s, Bound(s), attached' = attached, Moves(s.hid),
         crypto_drivers'[s.hid].cc_sessions # 0
  PROVE  Bound(s)'
<1>1. crypto_drivers'[s.hid] # Free
  BY FreeType
<1> QED  BY <1>1 DEF Bound, Moves, Cap

LEMMA HeldKept ==
  ASSUME TypeOK, SessionCounts', attached' = attached,
         \A h \in Hids : Moves(h),
         NEW u \in Users, Held(u), pc'[u] = pc[u], sid'[u] = sid[u],
         crp_sid'[u] = crp_sid[u], at'[u] = at[u]
  PROVE  Held(u)'
<1>1. Current(u)' = Current(u) /\ Busy(u)' = Busy(u)
  BY DEF Current, Busy
<1>2. ASSUME Busy(u)  PROVE Bound(Current(u))'
  <2>1. Bound(Current(u))
    BY <1>2 DEF Held
  <2>2. Hold'[u] = Current(u).hid
    BY <1>1 DEF Hold, HoldsOn
  <2>3. crypto_drivers'[Current(u).hid].cc_sessions # 0
    BY <2>1, <2>2, Counts, OcfDriversAssumption
    DEF SessionCounts, Bound, Cap
  <2>4. Moves(Current(u).hid)
    BY <2>1 DEF Bound
  <2> DEFINE s == Current(u)
  <2>5. Bound(s) /\ Moves(s.hid) /\ crypto_drivers'[s.hid].cc_sessions # 0
    BY <2>1, <2>3, <2>4
  <2>6. s' = s
    BY <1>1
  <2> HIDE DEF s
  <2>7. Current(u) = s /\ Current(u)' = s
    BY <1>1 DEF s
  <2>8. \A t : Bound(t) /\ Moves(t.hid) /\
               crypto_drivers'[t.hid].cc_sessions # 0 =>
                 /\ t.hid \in Hids /\ t.dev \in Drivers
                 /\ \/ Cap(t.hid)'.cleanup
                    \/ Cap(t.hid)'.cc_dev = t.dev /\ attached'[t.dev] = t.lid
    BY BoundKept DEF Bound, Cap
  <2> QED  BY <2>5, <2>7, <2>8 DEF Bound, Cap
<1> QED  BY <1>1, <1>2 DEF Held

-----------------------------------------------------------------------------
(* A session more on an entry that has its driver.                         *)
LEMMA GainTable ==
  ASSUME TypeOK, Table, NEW u \in Users, NEW h \in Hids, Attached(h),
         Counted(h), UNCHANGED <<sc_cid, kop>>,
         Hold[u] = None, Hold'[u] = h,
         \A v \in Users \ {u} : Hold'[v] = Hold[v]
  PROVE  /\ crypto_drivers' \in [Hids -> Caps]
         /\ Table' /\ \A g \in Hids : Moves(g)
         /\ Cap(h)'.cc_dev = Cap(h).cc_dev
<1> USE OcfDriversAssumption, NoneAssumption
<1>0. crypto_drivers \in [Hids -> Caps]
  BY DEF TypeOK, Caps
<1> DEFINE e == [Cap(h) EXCEPT !.cc_sessions = @ + 1]
<1>2. /\ e \in Caps
      /\ e.cc_sessions = Cap(h).cc_sessions + 1
      /\ e.cc_koperations = Cap(h).cc_koperations
      /\ e.cc_dev = Cap(h).cc_dev /\ e.cleanup = Cap(h).cleanup
  BY <1>0 DEF Cap, Caps
<1>3. crypto_drivers' = [crypto_drivers EXCEPT ![h] = e]
  BY <1>0 DEF Counted, Cap
<1> HIDE DEF e
<1>4. crypto_drivers' \in [Hids -> Caps]
  BY <1>0, <1>2, <1>3
<1>5. \A g \in Hids : Cap(g)' = IF g = h THEN e ELSE Cap(g)
  BY <1>0, <1>3 DEF Cap
<1>6. \A g \in Hids : /\ Cap(g)'.cc_dev = Cap(g).cc_dev
                      /\ Cap(g)'.cleanup = Cap(g).cleanup
                      /\ Cap(g)'.cc_koperations = Cap(g).cc_koperations
  BY <1>2, <1>5
<1>7. SessionCounts'
  <2> SUFFICES ASSUME NEW g \in Hids
               PROVE  Cap(g)'.cc_sessions = Cardinality(To(Users, Hold', g))
    BY DEF SessionCounts
  <2>1. CASE g = h
    <3>1. Cardinality(To(Users, Hold', g)) = Cardinality(To(Users, Hold, g)) + 1
      BY <2>1, Joined
    <3> QED  BY <1>2, <1>5, <2>1, <3>1 DEF Table, SessionCounts
  <2>2. CASE g # h
    <3>1. To(Users, Hold', g) = To(Users, Hold, g)
      BY <2>2, Stayed
    <3> QED  BY <1>5, <2>2, <3>1 DEF Table, SessionCounts
  <2> QED  BY <2>1, <2>2
<1>8. KopCounts'
  BY <1>6 DEF Table, KopCounts
<1>9. CleanupIsCountedOn'
  <2> SUFFICES ASSUME NEW g \in Hids, Cap(g)'.cleanup
               PROVE  /\ Cap(g)'.cc_dev = None
                      /\ \/ Cap(g)'.cc_sessions > 0
                         \/ Cap(g)'.cc_koperations > 0
    BY DEF CleanupIsCountedOn
  <2>1. g # h
    BY <1>6 DEF Attached
  <2> QED  BY <1>5, <2>1 DEF Table, CleanupIsCountedOn
<1>10. Linked'
  <2>1. \A d \in Drivers : sc_cid[d] # None => sc_cid[d] \in Hids
    BY DEF TypeOK
  <2> QED  BY <1>6, <2>1 DEF Table, Linked
<1>11. \A g \in Hids : Moves(g)
  BY <1>6 DEF Moves, Cap
<1> QED  BY <1>4, <1>6, <1>7, <1>8, <1>9, <1>10, <1>11 DEF Table

(* A session less: e is what is made of its entry.                         *)
Less(c, e) ==
  /\ e \in Caps
  /\ e.cc_dev = c.cc_dev
  /\ e = Free \/ e.cleanup = c.cleanup
  /\ e.cleanup => e.cc_sessions > 0 \/ e.cc_koperations > 0

LEMMA LoseTable ==
  ASSUME TypeOK, Table, NEW u \in Users, NEW h \in Hids, NEW e,
         Less(Cap(h), e),
         e.cc_sessions = Cap(h).cc_sessions - 1,
         e.cc_koperations = Cap(h).cc_koperations,
         crypto_drivers' = [crypto_drivers EXCEPT ![h] = e],
         UNCHANGED <<sc_cid, kop>>,
         Hold[u] = h, Hold'[u] = None,
         \A v \in Users \ {u} : Hold'[v] = Hold[v]
  PROVE  /\ crypto_drivers' \in [Hids -> Caps]
         /\ Table' /\ \A g \in Hids : Moves(g)
<1> USE OcfDriversAssumption, NoneAssumption
<1>0. crypto_drivers \in [Hids -> Caps]
  BY DEF TypeOK, Caps
<1>4. crypto_drivers' \in [Hids -> Caps]
  BY <1>0 DEF Less
<1>5. \A g \in Hids : Cap(g)' = IF g = h THEN e ELSE Cap(g)
  BY <1>0 DEF Cap
<1>6. \A g \in Hids : /\ Cap(g)'.cc_dev = Cap(g).cc_dev
                      /\ Cap(g)'.cc_koperations = Cap(g).cc_koperations
  BY <1>5 DEF Less
<1>7. SessionCounts'
  <2> SUFFICES ASSUME NEW g \in Hids
               PROVE  Cap(g)'.cc_sessions = Cardinality(To(Users, Hold', g))
    BY DEF SessionCounts
  <2>1. CASE g = h
    <3>0. Hold[u] = g /\ Hold'[u] # g /\ IsFiniteSet(Users)
      BY <2>1
    <3>1. /\ Cardinality(To(Users, Hold, g)) =
               Cardinality(To(Users, Hold', g)) + 1
          /\ Cardinality(To(Users, Hold', g)) \in Nat
      BY <3>0, Joined
    <3> QED  BY <1>5, <2>1, <3>1 DEF Table, SessionCounts
  <2>2. CASE g # h
    <3>1. To(Users, Hold', g) = To(Users, Hold, g)
      BY <2>2, Stayed
    <3> QED  BY <1>5, <2>2, <3>1 DEF Table, SessionCounts
  <2> QED  BY <2>1, <2>2
<1>8. KopCounts'
  BY <1>6 DEF Table, KopCounts
<1>9. CleanupIsCountedOn'
  <2> SUFFICES ASSUME NEW g \in Hids, Cap(g)'.cleanup
               PROVE  /\ Cap(g)'.cc_dev = None
                      /\ \/ Cap(g)'.cc_sessions > 0
                         \/ Cap(g)'.cc_koperations > 0
    BY DEF CleanupIsCountedOn
  <2>1. CASE g = h
    <3>1. e # Free /\ Cap(h).cleanup
      BY <1>5, <2>1, FreeType DEF Less
    <3> QED
      BY <1>5, <2>1, <3>1 DEF Less, Table, CleanupIsCountedOn
  <2>2. CASE g # h
    BY <1>5, <2>2 DEF Table, CleanupIsCountedOn
  <2> QED  BY <2>1, <2>2
<1>10. Linked'
  <2>1. \A d \in Drivers : sc_cid[d] # None => sc_cid[d] \in Hids
    BY DEF TypeOK
  <2> QED  BY <1>6, <2>1 DEF Table, Linked
<1>11. \A g \in Hids : Moves(g)
  BY <1>5 DEF Moves, Cap, Less
<1> QED  BY <1>4, <1>7, <1>8, <1>9, <1>10, <1>11 DEF Table

(* What counts less makes of an entry somebody counts on.                  *)
LEMMA UncountedLess ==
  ASSUME TypeOK, Table, NEW h \in Hids, Cap(h).cc_sessions # 0
  PROVE  /\ Less(Cap(h), Uncounted(Cap(h)))
         /\ Uncounted(Cap(h)).cc_sessions = Cap(h).cc_sessions - 1
         /\ Uncounted(Cap(h)).cc_koperations = Cap(h).cc_koperations
<1> DEFINE c == Cap(h)  e == Uncounted(c)
<1>1. c \in Caps /\ c.cc_sessions # 0
  BY DEF TypeOK, Caps, Cap
<1>2. c.cleanup => c.cc_dev = None
  BY DEF Table, CleanupIsCountedOn
<1> HIDE DEF c
<1>3. /\ e \in Caps
      /\ e.cc_sessions = c.cc_sessions - 1
      /\ e.cc_koperations = c.cc_koperations
      /\ e = Free \/ (e.cc_dev = c.cc_dev /\ e.cleanup = c.cleanup)
      /\ c.cleanup /\ c.cc_dev = None =>
           e = Free \/ e.cc_sessions # 0 \/ e.cc_koperations # 0
      /\ ~c.cleanup => e.cc_dev = c.cc_dev /\ e.cleanup = FALSE
  BY <1>1, UncountedIs
<1> HIDE DEF e
<1>4. e.cc_sessions \in Nat /\ e.cc_koperations \in Nat
  BY <1>3 DEF Caps
<1>5. e.cc_dev = c.cc_dev
  BY <1>2, <1>3, FreeType
<1>6. ASSUME e.cleanup  PROVE e.cc_sessions > 0 \/ e.cc_koperations > 0
  <2>1. e # Free
    BY <1>6, FreeType
  <2>2. c.cleanup
    BY <1>3, <1>6, <2>1
  <2>3. e.cc_sessions # 0 \/ e.cc_koperations # 0
    BY <1>2, <1>3, <2>1, <2>2, Zenon
  <2> QED  BY <1>4, <2>3
<1>7. Less(c, e)
  BY <1>3, <1>5, <1>6 DEF Less
<1> QED  BY <1>3, <1>7 DEF c, e

-----------------------------------------------------------------------------
(* A step of one user.                                                     *)
OnlyFor(u) ==
  \A v \in Users \ {u} : /\ pc'[v] = pc[v] /\ sid'[v] = sid[v]
                         /\ crp_sid'[v] = crp_sid[v] /\ at'[v] = at[v]

LEMMA OthersHold ==
  ASSUME NEW u \in Users, OnlyFor(u)
  PROVE  \A v \in Users \ {u} : Hold'[v] = Hold[v]
<1> SUFFICES ASSUME NEW v \in Users \ {u}  PROVE Hold'[v] = Hold[v]
  OBVIOUS
<1>1. Current(v)' = Current(v)
  BY DEF OnlyFor, Current
<1> QED  BY <1>1 DEF Hold, HoldsOn

LEMMA UserStep ==
  ASSUME DriversInv, NEW u \in Users, OnlyFor(u), TypeOK', Table',
         attached' = attached, \A h \in Hids : Moves(h), Held(u)'
  PROVE  DriversInv'
<1>1. ASSUME NEW v \in Users \ {u}  PROVE Held(v)'
  BY <1>1, HeldKept DEF DriversInv, Table, OnlyFor
<1> QED  BY <1>1 DEF DriversInv

LEMMA KeepStep ==
  ASSUME DriversInv, NEW u \in Users, OnlyFor(u), TypeOK',
         UNCHANGED <<crypto_drivers, sc_cid, attached, kop>>,
         Busy(u), Current(u)' = Current(u),
         pc'[u] \in {"queued", "process"} => crp_sid'[u] = sid'[u],
         pc'[u] = "process" => at'[u] = crp_sid'[u]
  PROVE  DriversInv'
<1>1. Hold' = Hold
  <2>1. Hold'[u] = Hold[u]
    BY DEF Hold, HoldsOn
  <2> QED  BY <2>1, OthersHold DEF Hold
<1>2. Table'
  BY <1>1 DEF DriversInv, Table, SessionCounts, KopCounts,
              CleanupIsCountedOn, Linked, Cap
<1>3. \A h \in Hids : Moves(h)
  BY DEF Moves, Cap
<1>4. Held(u)'
  <2>1. Bound(Current(u))
    BY DEF DriversInv, Held
  <2> QED  BY <2>1 DEF Held, Bound, Cap
<1> QED  BY <1>2, <1>3, <1>4, UserStep

(* A user that holds no session has no claim to make.                      *)
LEMMA IdleHeld ==
  ASSUME NEW u \in Users, pc'[u] \in {"none", "reselect"}
  PROVE  Held(u)' /\ Hold'[u] = None
  BY DEF Held, Busy, Hold, HoldsOn, Current, NoSession

LEMMA IdleHold ==
  ASSUME NEW u \in Users, pc[u] \in {"none", "reselect"}
  PROVE  Hold[u] = None
  BY DEF Hold, HoldsOn, Current, NoSession

LEMMA SessionType ==
  ASSUME TypeOK, NEW h \in Hids, Cap(h).cc_dev # None
  PROVE  /\ Cap(h).cc_dev \in Drivers
         /\ Session(h, Cap(h).cc_dev) \in Sids
         /\ Session(h, Cap(h).cc_dev).hid = h
         /\ Session(h, Cap(h).cc_dev).dev = Cap(h).cc_dev
         /\ Session(h, Cap(h).cc_dev).lid = attached[Cap(h).cc_dev]
<1>1. Cap(h).cc_dev \in Drivers
  BY DEF TypeOK, Cap
<1> QED  BY <1>1 DEF TypeOK, Session, Sids

(* A user begins to make a session, its first or that of a migration.      *)
LEMMA GainStep ==
  ASSUME DriversInv, NEW u \in Users, NEW h \in Hids, Attached(h),
         pc[u] \in {"none", "reselect"}, Counted(h),
         at' = [at EXCEPT ![u] = Session(h, Cap(h).cc_dev)],
         \/ pc' = [pc EXCEPT ![u] = "creating"]
         \/ pc' = [pc EXCEPT ![u] = "recreating"],
         UNCHANGED <<sc_cid, attached, sid, crp_sid, kop>>
  PROVE  DriversInv'
<1>1. TypeOK
  BY DEF DriversInv
<1>2. Cap(h).cc_dev # None
  BY DEF Attached
<1> DEFINE s == Session(h, Cap(h).cc_dev)
<1>3. /\ s \in Sids /\ s.hid = h /\ s.dev \in Drivers
      /\ s.dev = Cap(h).cc_dev /\ s.lid = attached[s.dev]
  BY <1>1, <1>2, SessionType
<1> HIDE DEF s
<1>4. at' = [at EXCEPT ![u] = s]
  BY DEF s
<1>5. Current(u)' = s /\ pc'[u] \in {"creating", "recreating"}
  BY <1>1, <1>4 DEF TypeOK, Current
<1>6. OnlyFor(u)
  BY <1>1, <1>4 DEF OnlyFor, TypeOK
<1>7. Hold[u] = None /\ Hold'[u] = h
  BY <1>3, <1>5, IdleHold DEF Hold, HoldsOn
<1>8. /\ crypto_drivers' \in [Hids -> Caps]
      /\ Table' /\ \A g \in Hids : Moves(g)
      /\ Cap(h)'.cc_dev = Cap(h).cc_dev
  BY <1>1, <1>6, <1>7, OthersHold, GainTable DEF DriversInv
<1>9. TypeOK'
  <2>1. pc' \in [Users -> States]
    BY <1>1 DEF TypeOK, States
  <2>2. at' \in [Users -> Sids]
    BY <1>1, <1>3, <1>4 DEF TypeOK
  <2> QED  BY <1>1, <1>8, <2>1, <2>2 DEF TypeOK, Caps
<1>10. Held(u)'
  BY <1>3, <1>5, <1>8 DEF Held, Bound, Cap
<1> QED  BY <1>6, <1>8, <1>9, <1>10, UserStep

(* A session ends, or ends where a migration begins.                       *)
LEMMA LoseStep ==
  ASSUME DriversInv, NEW u \in Users, NEW h \in Hids, Hold[u] = h,
         \/ crypto_drivers' = [crypto_drivers EXCEPT ![h] = Uncounted(@)]
         \/ /\ crypto_drivers' = [crypto_drivers EXCEPT
                                    ![h].cc_sessions = @ - 1]
            /\ ~Cap(h).cleanup,
         pc'[u] \in {"none", "reselect"}, OnlyFor(u),
         pc' \in [Users -> States], sid' \in [Users -> Sids],
         crp_sid' \in [Users -> Sids], at' \in [Users -> Sids],
         UNCHANGED <<sc_cid, attached, kop>>
  PROVE  DriversInv'
<1>1. TypeOK /\ Table
  BY DEF DriversInv
<1>2. Held(u)' /\ Hold'[u] = None
  BY IdleHeld
<1>3. \A v \in Users \ {u} : Hold'[v] = Hold[v]
  BY OthersHold
<1>4. Cap(h).cc_sessions # 0 /\ Cap(h) \in Caps
  BY <1>1, Counts, OcfDriversAssumption
  DEF Table, SessionCounts, TypeOK, Caps, Cap
<1>5. ASSUME crypto_drivers' = [crypto_drivers EXCEPT ![h] = Uncounted(@)]
      PROVE  /\ crypto_drivers' \in [Hids -> Caps]
             /\ Table' /\ \A g \in Hids : Moves(g)
  <2> DEFINE e == Uncounted(Cap(h))
  <2>1. /\ Less(Cap(h), e)
        /\ e.cc_sessions = Cap(h).cc_sessions - 1
        /\ e.cc_koperations = Cap(h).cc_koperations
    BY <1>1, <1>4, UncountedLess
  <2>2. crypto_drivers' = [crypto_drivers EXCEPT ![h] = e]
    BY <1>5 DEF Cap
  <2> HIDE DEF e
  <2> QED  BY <1>1, <1>2, <1>3, <2>1, <2>2, LoseTable
<1>6. ASSUME crypto_drivers' = [crypto_drivers EXCEPT ![h].cc_sessions = @ - 1],
             ~Cap(h).cleanup
      PROVE  /\ crypto_drivers' \in [Hids -> Caps]
             /\ Table' /\ \A g \in Hids : Moves(g)
  <2> DEFINE e == [Cap(h) EXCEPT !.cc_sessions = @ - 1]
  <2>1. /\ e \in Caps /\ e.cc_dev = Cap(h).cc_dev
        /\ e.cleanup = Cap(h).cleanup
        /\ e.cc_sessions = Cap(h).cc_sessions - 1
        /\ e.cc_koperations = Cap(h).cc_koperations
    BY <1>4 DEF Caps
  <2>2. crypto_drivers' = [crypto_drivers EXCEPT ![h] = e]
    BY <1>6 DEF Cap
  <2> HIDE DEF e
  <2>3. Less(Cap(h), e)
    BY <1>6, <2>1 DEF Less
  <2> QED  BY <1>1, <1>2, <1>3, <2>1, <2>2, <2>3, LoseTable
<1>7. /\ crypto_drivers' \in [Hids -> Caps]
      /\ Table' /\ \A g \in Hids : Moves(g)
  BY <1>5, <1>6
<1>8. TypeOK'
  BY <1>1, <1>7 DEF TypeOK, Caps
<1> QED  BY <1>2, <1>7, <1>8, UserStep

-----------------------------------------------------------------------------
(* The operations of a user.                                               *)
LEMMA UserActions ==
  ASSUME Followers = Users, ~MigrateFails,
         DriversInv, DriversLeft, NEW u \in Users,
         \/ NewSession(u) \/ SessionMade(u) \/ SessionRefused(u)
         \/ FreeSession(u) \/ SessionFreed(u)
         \/ Op(u) \/ Invoke(u) \/ Reselect(u) \/ Migrated(u)
         \/ Again(u) \/ Complete(u)
  PROVE  DriversInv'
<1> USE DEF tableVars
<1>0. TypeOK /\ Table /\ Held(u)
  BY DEF DriversInv
<1>1. CASE NewSession(u)
  BY <1>0, <1>1, GainStep DEF NewSession
<1>2. CASE SessionMade(u)
  <2>1. TypeOK' /\ OnlyFor(u) /\ Busy(u) /\ Current(u)' = Current(u)
    BY <1>0, <1>2
    DEF SessionMade, TypeOK, States, Sids, OnlyFor, Busy, Current
  <2>2. pc'[u] = "open"
    BY <1>0, <1>2 DEF SessionMade, TypeOK
  <2> QED  BY <1>2, <2>1, <2>2, KeepStep DEF SessionMade
<1>3. CASE SessionRefused(u)
  <2>1. Hold[u] = at[u].hid /\ Bound(at[u])
    BY <1>0, <1>3
    DEF SessionRefused, Hold, HoldsOn, Current, Held, Busy
  <2>2. ~Cap(at[u].hid).cleanup
    <3>1. Cap(at[u].hid).cc_dev = at[u].dev
      BY <1>0, <1>3, <2>1, NoneAssumption
      DEF SessionRefused, StillThere, Bound, Table, Linked
    <3> QED
      BY <1>0, <2>1, <3>1, NoneAssumption
      DEF Bound, Table, CleanupIsCountedOn
  <2>3. /\ pc'[u] \in {"none", "reselect"} /\ OnlyFor(u)
        /\ pc' \in [Users -> States] /\ at' \in [Users -> Sids]
    BY <1>0, <1>3 DEF SessionRefused, TypeOK, States, Sids, OnlyFor
  <2> QED
    BY <1>0, <1>3, <2>1, <2>2, <2>3, LoseStep DEF SessionRefused, Bound, TypeOK
<1>4. CASE FreeSession(u)
  <2>1. Hold[u] = sid[u].hid /\ Bound(sid[u])
    BY <1>0, <1>4 DEF FreeSession, Hold, HoldsOn, Current, Held, Busy
  <2>2. CASE Cap(sid[u].hid).cc_dev # None
    <3>1. TypeOK' /\ OnlyFor(u) /\ Busy(u) /\ Current(u)' = Current(u)
      BY <1>0, <1>4, <2>2
      DEF FreeSession, TypeOK, States, OnlyFor, Busy, Current
    <3>2. pc'[u] = "freeing"
      BY <1>0, <1>4, <2>2 DEF FreeSession, TypeOK
    <3> QED  BY <1>4, <2>2, <3>1, <3>2, KeepStep DEF FreeSession
  <2>3. CASE Cap(sid[u].hid).cc_dev = None
    <3>1. /\ pc'[u] \in {"none", "reselect"} /\ OnlyFor(u)
          /\ pc' \in [Users -> States] /\ sid' \in [Users -> Sids]
      BY <1>0, <1>4, <2>3 DEF FreeSession, TypeOK, States, Sids, OnlyFor
    <3> QED
      BY <1>0, <1>4, <2>1, <2>3, <3>1, LoseStep DEF FreeSession, Bound, TypeOK
  <2> QED  BY <2>2, <2>3
<1>5. CASE SessionFreed(u)
  <2>1. Hold[u] = sid[u].hid /\ Bound(sid[u])
    BY <1>0, <1>5 DEF SessionFreed, Hold, HoldsOn, Current, Held, Busy
  <2>2. /\ pc'[u] \in {"none", "reselect"} /\ OnlyFor(u)
        /\ pc' \in [Users -> States] /\ sid' \in [Users -> Sids]
    BY <1>0, <1>5 DEF SessionFreed, TypeOK, States, Sids, OnlyFor
  <2> QED
    BY <1>0, <1>5, <2>1, <2>2, LoseStep DEF SessionFreed, Bound, TypeOK
<1>6. CASE Op(u)
  <2>1. TypeOK' /\ OnlyFor(u) /\ Busy(u) /\ Current(u)' = Current(u)
    BY <1>0, <1>6 DEF Op, TypeOK, States, OnlyFor, Busy, Current
  <2>2. pc'[u] = "queued" /\ crp_sid'[u] = sid'[u]
    BY <1>0, <1>6 DEF Op, TypeOK
  <2> QED  BY <1>6, <2>1, <2>2, KeepStep DEF Op
<1>7. CASE Invoke(u)
  <2> DEFINE s == crp_sid[u]
  <2>1. Hold[u] = s.hid /\ Bound(s) /\ s = sid[u] /\ s \in Sids
    BY <1>0, <1>7
    DEF Invoke, Hold, HoldsOn, Current, Held, Busy, TypeOK
  <2>2. CASE Cap(s.hid).cleanup
    <3>1. /\ pc'[u] \in {"none", "reselect"} /\ OnlyFor(u)
          /\ pc' \in [Users -> States]
      BY <1>0, <1>7, <2>2 DEF Invoke, TypeOK, States, OnlyFor
    <3> QED
      BY <1>0, <1>7, <2>1, <2>2, <3>1, LoseStep DEF Invoke, Bound, TypeOK
  <2>3. CASE ~Cap(s.hid).cleanup
    <3>1. Cap(s.hid).cc_dev = s.dev /\ attached[s.dev] = s.lid /\ s.dev # None
      BY <2>1, <2>3, NoneAssumption DEF Bound
    <3>2. s \in [hid : Hids, dev : Drivers, lid : Nat]
      BY <2>1, NoneAssumption DEF Bound, Sids, NoSession
    <3>3. Session(s.hid, s.dev) = s
      BY <3>1, <3>2 DEF Session
    <3>4. /\ pc' = [pc EXCEPT ![u] = "process"]
          /\ at' = [at EXCEPT ![u] = s]
          /\ UNCHANGED <<crypto_drivers, sc_cid, attached, sid, crp_sid, kop>>
          /\ pc[u] = "queued"
      BY <1>7, <2>3, <3>1, <3>3 DEF Invoke
    <3>5. TypeOK' /\ OnlyFor(u) /\ Busy(u) /\ Current(u)' = Current(u)
      BY <1>0, <2>1, <3>4 DEF TypeOK, States, OnlyFor, Busy, Current
    <3>6. at'[u] = crp_sid'[u] /\ crp_sid'[u] = sid'[u]
      BY <1>0, <2>1, <3>4 DEF TypeOK
    <3> QED  BY <3>4, <3>5, <3>6, KeepStep
  <2> QED  BY <2>2, <2>3
<1>8. CASE Reselect(u)
  <2>1. Selected # {} /\ \A h \in Selected : h \in Hids /\ Attached(h)
    BY DEF DriversLeft, Selected, Suitable
  <2> QED  BY <1>8, <2>1, GainStep DEF Reselect
<1>9. CASE Migrated(u)
  <2>1. TypeOK' /\ OnlyFor(u) /\ Busy(u) /\ Current(u)' = Current(u)
    BY <1>0, <1>9 DEF Migrated, TypeOK, States, Sids, OnlyFor, Busy, Current
  <2>2. pc'[u] = "again"
    BY <1>0, <1>9 DEF Migrated, TypeOK
  <2> QED  BY <1>9, <2>1, <2>2, KeepStep DEF Migrated
<1>10. CASE Again(u)
  <2>1. TypeOK' /\ OnlyFor(u) /\ Busy(u) /\ Current(u)' = Current(u)
    BY <1>0, <1>10 DEF Again, TypeOK, States, OnlyFor, Busy, Current
  <2>2. pc'[u] = "queued" /\ crp_sid'[u] = sid'[u]
    BY <1>0, <1>10 DEF Again, TypeOK
  <2> QED  BY <1>10, <2>1, <2>2, KeepStep DEF Again
<1>11. CASE Complete(u)
  <2>1. TypeOK' /\ OnlyFor(u) /\ Busy(u) /\ Current(u)' = Current(u)
    BY <1>0, <1>11
    DEF Complete, TypeOK, States, Sids, OnlyFor, Busy, Current, Held
  <2>2. pc'[u] = "open"
    BY <1>0, <1>11 DEF Complete, TypeOK
  <2> QED  BY <1>11, <2>1, <2>2, KeepStep DEF Complete
<1> QED
  BY <1>1, <1>2, <1>3, <1>4, <1>5, <1>6, <1>7, <1>8, <1>9, <1>10, <1>11

-----------------------------------------------------------------------------
(* A driver that attaches finds an entry that nobody has a claim on.       *)
LEMMA AttachStep ==
  ASSUME DriversInv, NEW d \in Drivers, Attach(d)
  PROVE  DriversInv'
<1> USE NoneAssumption, OcfDriversAssumption
<1>0. TypeOK /\ Table
  BY DEF DriversInv
<1> PICK h \in FirstVacant :
       /\ sc_cid' = [sc_cid EXCEPT ![d] = h]
       /\ crypto_drivers' = [crypto_drivers EXCEPT
            ![h] = [@ EXCEPT !.cc_dev = d, !.cc_sessions = 0]]
  BY DEF Attach
<1>1. /\ h \in Hids /\ Cap(h).cc_dev = None /\ ~Cap(h).cleanup
      /\ sc_cid[d] = None
      /\ attached' = [attached EXCEPT ![d] = @ + 1]
      /\ UNCHANGED <<pc, sid, crp_sid, at, kop>>
  BY DEF Attach, FirstVacant, Vacant, userVars
<1> DEFINE e == [Cap(h) EXCEPT !.cc_dev = d, !.cc_sessions = 0]
<1>2. /\ e \in Caps /\ e.cc_dev = d
      /\ e.cc_sessions = 0 /\ e.cc_koperations = Cap(h).cc_koperations
      /\ e.cleanup = Cap(h).cleanup
  <2> DEFINE c == Cap(h)
             b == [c EXCEPT !.cc_dev = d]
  <2>1. c \in Caps
    BY <1>0, <1>1 DEF TypeOK, Caps, Cap
  <2> HIDE DEF c
  <2>2. /\ b \in Caps /\ b.cc_dev = d /\ b.cleanup = c.cleanup
        /\ b.cc_koperations = c.cc_koperations
    BY <2>1 DEF Caps
  <2>3. e = [b EXCEPT !.cc_sessions = 0]
    BY DEF c
  <2> HIDE DEF b, e
  <2>4. /\ e \in Caps /\ e.cc_dev = d /\ e.cleanup = b.cleanup
        /\ e.cc_sessions = 0 /\ e.cc_koperations = b.cc_koperations
    BY <2>2, <2>3 DEF Caps
  <2> QED  BY <2>2, <2>4 DEF c
<1>3. e.cleanup = Cap(h).cleanup
  BY <1>2
<1>4. crypto_drivers' = [crypto_drivers EXCEPT ![h] = e]
  BY DEF Cap
<1> HIDE DEF e
<1>5. \A g \in Hids : Cap(g)' = IF g = h THEN e ELSE Cap(g)
  BY <1>0, <1>4 DEF Cap, TypeOK
<1>6. TypeOK'
  <2>1. crypto_drivers' \in [Hids -> Caps]
    BY <1>0, <1>2, <1>4 DEF TypeOK, Caps
  <2>2. sc_cid' \in [Drivers -> Hids \cup {None}]
    BY <1>0, <1>1 DEF TypeOK
  <2>3. attached' \in [Drivers -> Nat]
    BY <1>0, <1>1 DEF TypeOK
  <2> QED  BY <1>0, <1>1, <2>1, <2>2, <2>3 DEF TypeOK, Caps
<1>7. Hold' = Hold /\ \A u \in Users : Current(u)' = Current(u)
  BY <1>1 DEF Hold, HoldsOn, Current
<1>8. ASSUME NEW u \in Users, Busy(u)
      PROVE  /\ Current(u).hid \in Hids \ {h} /\ Current(u).dev \in Drivers
             /\ \/ Cap(Current(u).hid).cleanup
                \/ /\ Cap(Current(u).hid).cc_dev = Current(u).dev
                   /\ attached[Current(u).dev] = Current(u).lid
                   /\ Current(u).dev # d
  <2>1. Bound(Current(u))
    BY <1>8 DEF DriversInv, Held
  <2> QED  BY <1>0, <1>1, <2>1 DEF Bound, Table, Linked
<1>9. \A u \in Users : Hold[u] # h
  <2> SUFFICES ASSUME NEW u \in Users  PROVE Hold[u] # h
    OBVIOUS
  <2>1. CASE Busy(u)
    BY <1>8, <2>1 DEF Hold, HoldsOn
  <2>2. CASE ~Busy(u)
    BY <1>1, <2>2, IdleHold DEF Busy
  <2> QED  BY <2>1, <2>2
<1>10. SessionCounts'
  <2>1. Cardinality(To(Users, Hold, h)) = 0
    BY <1>9, Counts
  <2> QED
    BY <1>0, <1>2, <1>5, <1>7, <2>1 DEF Table, SessionCounts
<1>11. KopCounts'
  BY <1>0, <1>1, <1>2, <1>5 DEF Table, KopCounts
<1>12. CleanupIsCountedOn'
  BY <1>0, <1>1, <1>3, <1>5 DEF Table, CleanupIsCountedOn
<1>13. Linked'
  BY <1>0, <1>1, <1>2, <1>5 DEF Table, Linked, TypeOK
<1>14. ASSUME NEW u \in Users  PROVE Held(u)'
  <2>1. ASSUME Busy(u)
        PROVE  /\ Current(u).hid \in Hids /\ Current(u).dev \in Drivers
               /\ \/ crypto_drivers'[Current(u).hid].cleanup
                  \/ /\ crypto_drivers'[Current(u).hid].cc_dev =
                          Current(u).dev
                     /\ attached'[Current(u).dev] = Current(u).lid
    BY <1>0, <1>1, <1>5, <1>8, <2>1 DEF TypeOK, Cap
  <2>2. Busy(u)' = Busy(u)
    BY <1>1 DEF Busy
  <2>3. Held(u)
    BY DEF DriversInv
  <2>4. Busy(u)' => Bound(Current(u))'
    BY <1>7, <2>1, <2>2 DEF Bound, Cap
  <2> QED  BY <1>1, <2>3, <2>4 DEF Held
<1> QED
  BY <1>6, <1>10, <1>11, <1>12, <1>13, <1>14 DEF DriversInv, Table

(* A driver that detaches takes its requests with it; what others count on *)
(* stays.                                                                  *)
LEMMA DetachStep ==
  ASSUME DriversInv, NEW d \in Drivers, Detach(d)
  PROVE  DriversInv'
<1> USE NoneAssumption, OcfDriversAssumption
<1>0. TypeOK /\ Table
  BY DEF DriversInv
<1> DEFINE h == sc_cid[d]
           us == {u \in Users : pc[u] = "process" /\ at[u].dev = d}
           e == Finished(Cap(h))
<1>1. /\ h \in Hids /\ Cap(h) \in Caps /\ Cap(h).cc_dev = d
      /\ sc_cid' = [sc_cid EXCEPT ![d] = None]
      /\ UNCHANGED <<attached, sid, kop>> /\ Aborted(us)
  BY <1>0 DEF Detach, TypeOK, Table, Linked, Caps, Cap
<1>2. crypto_drivers' = [crypto_drivers EXCEPT ![h] = e]
  BY DEF Detach, Cap
<1>3. /\ e \in Caps /\ e.cc_dev = None
      /\ e.cc_sessions = Cap(h).cc_sessions
      /\ e.cc_koperations = Cap(h).cc_koperations
      /\ e = Free \/ e.cleanup
      /\ e = Free \/ e.cc_sessions > 0 \/ e.cc_koperations > 0
  BY <1>1, FinishedIs
<1> HIDE DEF e
<1>4. \A g \in Hids : Cap(g)' = IF g = h THEN e ELSE Cap(g)
  BY <1>0, <1>2 DEF Cap, TypeOK
<1>5. ASSUME NEW u \in Users
      PROVE  /\ u \in us => /\ pc[u] = "process" /\ pc'[u] = "open"
                            /\ Current(u)' = sid[u]
             /\ u \notin us => /\ pc'[u] = pc[u] /\ crp_sid'[u] = crp_sid[u]
                               /\ at'[u] = at[u]
             /\ sid'[u] = sid[u]
             /\ Current(u)' = Current(u)
  <2>1. u \notin us => /\ pc'[u] = pc[u] /\ crp_sid'[u] = crp_sid[u]
                       /\ at'[u] = at[u] /\ sid'[u] = sid[u]
    BY <1>1 DEF Aborted
  <2>2. u \in us => pc[u] = "process" /\ pc'[u] = "open" /\ sid'[u] = sid[u]
    BY <1>1 DEF Aborted
  <2>3. u \in us => crp_sid[u] = sid[u]
    BY <2>2 DEF DriversInv, Held
  <2> QED  BY <1>1, <2>1, <2>2, <2>3 DEF Current
<1>6. Hold' = Hold
  BY <1>5 DEF Hold, HoldsOn
<1>7. TypeOK'
  <2>1. crypto_drivers' \in [Hids -> Caps]
    BY <1>0, <1>2, <1>3 DEF TypeOK, Caps
  <2>2. sc_cid' \in [Drivers -> Hids \cup {None}]
    BY <1>0, <1>1 DEF TypeOK
  <2>3. pc' \in [Users -> States]
    BY <1>0, <1>1 DEF TypeOK, Aborted, States
  <2>4. crp_sid' \in [Users -> Sids] /\ at' \in [Users -> Sids]
    BY <1>0, <1>1 DEF TypeOK, Aborted, Sids
  <2> QED  BY <1>0, <1>1, <2>1, <2>2, <2>3, <2>4 DEF TypeOK, Caps
<1>8. SessionCounts'
  BY <1>0, <1>3, <1>4, <1>6 DEF Table, SessionCounts
<1>9. KopCounts'
  BY <1>0, <1>1, <1>3, <1>4 DEF Table, KopCounts
<1>10. CleanupIsCountedOn'
  BY <1>0, <1>3, <1>4, FreeType DEF Table, CleanupIsCountedOn
<1>11. Linked'
  <2>1. ASSUME NEW f \in Drivers, sc_cid'[f] # None
        PROVE  crypto_drivers'[sc_cid'[f]].cc_dev = f
    <3>1. f # d /\ sc_cid'[f] = sc_cid[f] /\ sc_cid[f] \in Hids
      BY <1>0, <1>1, <2>1 DEF TypeOK
    <3>2. Cap(sc_cid[f]).cc_dev = f
      BY <1>0, <2>1, <3>1 DEF Table, Linked
    <3> QED  BY <1>1, <1>4, <3>1, <3>2 DEF Cap
  <2>2. ASSUME NEW g \in Hids, Cap(g)'.cc_dev # None
        PROVE  sc_cid'[crypto_drivers'[g].cc_dev] = g
    <3>1. g # h /\ Cap(g)' = Cap(g)
      BY <1>3, <1>4, <2>2
    <3>2. sc_cid[Cap(g).cc_dev] = g /\ Cap(g).cc_dev \in Drivers
      BY <1>0, <2>2, <3>1 DEF Table, Linked, TypeOK, Cap
    <3> QED  BY <1>0, <1>1, <3>1, <3>2 DEF TypeOK, Cap
  <2> QED  BY <2>1, <2>2 DEF Linked, Cap
<1>12. \A g \in Hids : Moves(g)
  BY <1>3, <1>4 DEF Moves, Cap
<1>13. ASSUME NEW u \in Users  PROVE Held(u)'
  <2>1. Held(u)
    BY DEF DriversInv
  <2>2. CASE u \notin us
    BY <1>0, <1>1, <1>5, <1>8, <1>12, <2>1, <2>2, HeldKept
  <2>3. CASE u \in us
    <3> DEFINE s == sid[u]
    <3>1. Bound(s) /\ Current(u)' = s /\ pc'[u] = "open" /\ Hold'[u] = s.hid
      <4>1. pc[u] = "process"
        BY <1>5, <2>3
      <4>2. Bound(Current(u)) /\ Current(u) = crp_sid[u]
        BY <2>1, <4>1 DEF Held, Busy, Current
      <4>3. crp_sid[u] = s
        BY <2>1, <4>1 DEF Held
      <4> QED  BY <1>5, <2>3, <4>2, <4>3 DEF Hold, HoldsOn
    <3>2. crypto_drivers'[s.hid].cc_sessions # 0
      BY <1>8, <3>1, Counts DEF SessionCounts, Bound, Cap
    <3>3. crypto_drivers'[s.hid] # Free
      BY <3>2, FreeType
    <3>4. Moves(s.hid)
      BY <1>12, <3>1 DEF Bound
    <3> HIDE DEF s
    <3>5. /\ s.hid \in Hids /\ s.dev \in Drivers
          /\ \/ crypto_drivers'[s.hid].cleanup
             \/ /\ crypto_drivers'[s.hid].cc_dev = s.dev
                /\ attached'[s.dev] = s.lid
      BY <1>1, <3>1, <3>3, <3>4 DEF Bound, Moves, Cap
    <3> QED  BY <3>1, <3>5 DEF Held, Bound, Cap
  <2> QED  BY <2>2, <2>3
<1> QED
  BY <1>7, <1>8, <1>9, <1>10, <1>11, <1>13 DEF DriversInv, Table

-----------------------------------------------------------------------------
(* An asymmetric operation touches the other count of an entry only.       *)
LEMMA KopStep ==
  ASSUME DriversInv, NEW k \in KeyUsers, NEW h \in Hids, NEW e,
         e \in Caps, e.cc_dev = Cap(h).cc_dev,
         e.cc_sessions = Cap(h).cc_sessions,
         e = Free \/ e.cleanup = Cap(h).cleanup,
         e.cleanup => e.cc_sessions > 0 \/ e.cc_koperations > 0,
         crypto_drivers' = [crypto_drivers EXCEPT ![h] = e],
         kop' \in [KeyUsers -> Hids \cup {None}],
         e.cc_koperations = Cardinality(To(KeyUsers, kop', h)),
         \A g \in Hids \ {h} : To(KeyUsers, kop', g) = To(KeyUsers, kop, g),
         UNCHANGED <<sc_cid, attached, pc, sid, crp_sid, at>>
  PROVE  DriversInv'
<1> USE NoneAssumption, OcfDriversAssumption
<1>0. TypeOK /\ Table
  BY DEF DriversInv
<1>1. \A g \in Hids : Cap(g)' = IF g = h THEN e ELSE Cap(g)
  BY <1>0 DEF Cap, TypeOK
<1>2. crypto_drivers' \in [Hids -> Caps]
  BY <1>0 DEF TypeOK, Caps
<1>3. TypeOK'
  BY <1>0, <1>2 DEF TypeOK, Caps
<1>4. Hold' = Hold
  BY DEF Hold, HoldsOn, Current
<1>5. SessionCounts'
  BY <1>0, <1>1, <1>4 DEF Table, SessionCounts
<1>6. KopCounts'
  BY <1>0, <1>1 DEF Table, KopCounts
<1>7. CleanupIsCountedOn'
  <2> SUFFICES ASSUME NEW g \in Hids, Cap(g)'.cleanup
               PROVE  /\ Cap(g)'.cc_dev = None
                      /\ \/ Cap(g)'.cc_sessions > 0
                         \/ Cap(g)'.cc_koperations > 0
    BY DEF CleanupIsCountedOn
  <2>1. CASE g = h
    <3>1. e # Free /\ Cap(h).cleanup
      BY <1>1, <2>1, FreeType
    <3> QED  BY <1>0, <1>1, <2>1, <3>1 DEF Table, CleanupIsCountedOn
  <2>2. CASE g # h
    BY <1>0, <1>1, <2>2 DEF Table, CleanupIsCountedOn
  <2> QED  BY <2>1, <2>2
<1>8. Linked'
  BY <1>0, <1>1 DEF Table, Linked, TypeOK
<1>9. \A g \in Hids : Moves(g)
  BY <1>1 DEF Moves, Cap
<1>10. \A u \in Users : Held(u)'
  BY <1>0, <1>5, <1>9, HeldKept DEF DriversInv
<1> QED
  BY <1>3, <1>5, <1>6, <1>7, <1>8, <1>10 DEF DriversInv, Table

LEMMA KDispatchStep ==
  ASSUME DriversInv, DriversLeft, NEW k \in KeyUsers, KDispatch(k)
  PROVE  DriversInv'
<1> USE NoneAssumption, OcfDriversAssumption
<1>0. TypeOK /\ Table
  BY DEF DriversInv
<1>p. PICK h \in KSuitable :
       /\ crypto_drivers' = [crypto_drivers EXCEPT ![h].cc_koperations = @ + 1]
       /\ kop' = [kop EXCEPT ![k] = h]
  BY DEF KDispatch, DriversLeft
<1>1. /\ h \in Hids /\ ~Cap(h).cleanup /\ kop[k] = None /\ Cap(h) \in Caps
      /\ UNCHANGED <<sc_cid, attached, pc, sid, crp_sid, at>>
  BY <1>0, <1>p
  DEF KSuitable, Suitable, Attached, KDispatch, userVars, TypeOK, Cap, Caps
<1> DEFINE e == [Cap(h) EXCEPT !.cc_koperations = @ + 1]
<1>2. /\ e \in Caps /\ e.cc_dev = Cap(h).cc_dev
      /\ e.cc_sessions = Cap(h).cc_sessions
      /\ e.cc_koperations = Cap(h).cc_koperations + 1
  BY <1>1 DEF Caps
<1>3. e.cleanup = Cap(h).cleanup
  BY <1>1 DEF Caps
<1>4. crypto_drivers' = [crypto_drivers EXCEPT ![h] = e]
  BY <1>p DEF Cap
<1> HIDE DEF e
<1>5. kop'[k] = h /\ \A j \in KeyUsers \ {k} : kop'[j] = kop[j]
  BY <1>0, <1>p DEF TypeOK
<1>6. Cardinality(To(KeyUsers, kop', h)) = Cardinality(To(KeyUsers, kop, h)) + 1
  <2>1. kop[k] # h /\ IsFiniteSet(KeyUsers)
    BY <1>1
  <2>2. \A f, g : /\ f[k] # h /\ g[k] = h
                  /\ \A j \in KeyUsers \ {k} : g[j] = f[j]
                => Cardinality(To(KeyUsers, g, h)) =
                     Cardinality(To(KeyUsers, f, h)) + 1
    BY <2>1, Joined
  <2> QED  BY <1>5, <2>1, <2>2
<1>7. \A g \in Hids \ {h} : To(KeyUsers, kop', g) = To(KeyUsers, kop, g)
  <2> SUFFICES ASSUME NEW g \in Hids \ {h}
               PROVE  To(KeyUsers, kop', g) = To(KeyUsers, kop, g)
    OBVIOUS
  <2>1. kop[k] # g /\ kop'[k] # g
    BY <1>1, <1>5
  <2>2. \A f, f1 : /\ f[k] # g /\ f1[k] # g
                   /\ \A j \in KeyUsers \ {k} : f1[j] = f[j]
                 => To(KeyUsers, f1, g) = To(KeyUsers, f, g)
    BY Stayed
  <2> QED  BY <1>5, <2>1, <2>2
<1>8. kop' \in [KeyUsers -> Hids \cup {None}]
  BY <1>0, <1>1, <1>p DEF TypeOK
<1>9. e.cc_koperations = Cardinality(To(KeyUsers, kop', h))
  BY <1>0, <1>1, <1>2, <1>6 DEF Table, KopCounts
<1> QED  BY <1>1, <1>2, <1>3, <1>4, <1>7, <1>8, <1>9, KopStep

LEMMA KDoneStep ==
  ASSUME DriversInv, NEW k \in KeyUsers, KDone(k)
  PROVE  DriversInv'
<1> USE NoneAssumption, OcfDriversAssumption
<1>0. TypeOK /\ Table
  BY DEF DriversInv
<1> DEFINE h == kop[k]
           c == Cap(h)
           e == KopUncounted(c)
<1>1. /\ h \in Hids /\ c \in Caps
      /\ kop' = [kop EXCEPT ![k] = None]
      /\ UNCHANGED <<sc_cid, attached, pc, sid, crp_sid, at>>
      /\ crypto_drivers' = [crypto_drivers EXCEPT ![h] = e]
  BY <1>0 DEF KDone, TypeOK, userVars, Caps, Cap
<1>2. kop'[k] # h /\ \A j \in KeyUsers \ {k} : kop'[j] = kop[j]
  BY <1>0, <1>1 DEF TypeOK
<1>3. /\ Cardinality(To(KeyUsers, kop, h)) =
           Cardinality(To(KeyUsers, kop', h)) + 1
      /\ Cardinality(To(KeyUsers, kop', h)) \in Nat
  BY <1>2, Joined
<1>4. /\ c.cc_koperations = Cardinality(To(KeyUsers, kop, h))
      /\ c.cleanup => c.cc_dev = None
  BY <1>0, <1>1 DEF Table, KopCounts, CleanupIsCountedOn
<1>5. c.cc_koperations # 0
  BY <1>3, <1>4
<1>6. c.cc_koperations < KopMod /\ KopMod \in Nat
  <2>1. /\ Cardinality(To(KeyUsers, kop, h)) <= Cardinality(KeyUsers)
        /\ Cardinality(To(KeyUsers, kop, h)) \in Nat
    BY Counts
  <2>2. Cardinality(KeyUsers) \in Nat
    BY FS_CardinalityType
  <2> QED  BY <1>4, <2>1, <2>2
<1> HIDE DEF c
<1>7. /\ e \in Caps
      /\ e.cc_sessions = c.cc_sessions
      /\ e.cc_koperations = c.cc_koperations - 1
      /\ e = Free \/ (e.cc_dev = c.cc_dev /\ e.cleanup = c.cleanup)
      /\ c.cleanup /\ c.cc_dev = None =>
           e = Free \/ e.cc_sessions # 0 \/ e.cc_koperations # 0
      /\ ~c.cleanup => e.cc_dev = c.cc_dev /\ e.cleanup = FALSE
  BY <1>1, <1>5, <1>6, KopUncountedIs
<1> HIDE DEF e
<1>8. e.cc_sessions \in Nat /\ e.cc_koperations \in Nat
  BY <1>7 DEF Caps
<1>9. e.cc_dev = c.cc_dev
  BY <1>4, <1>7, FreeType
<1>10. ASSUME e.cleanup  PROVE e.cc_sessions > 0 \/ e.cc_koperations > 0
  <2>1. e # Free
    BY <1>10, FreeType
  <2>2. c.cleanup
    BY <1>7, <1>10, <2>1
  <2>3. e.cc_sessions # 0 \/ e.cc_koperations # 0
    BY <1>4, <1>7, <2>1, <2>2, Zenon
  <2> QED  BY <1>8, <2>3
<1>11. e = Free \/ e.cleanup = c.cleanup
  BY <1>7
<1>12. \A g \in Hids \ {h} : To(KeyUsers, kop', g) = To(KeyUsers, kop, g)
  <2> SUFFICES ASSUME NEW g \in Hids \ {h}
               PROVE  To(KeyUsers, kop', g) = To(KeyUsers, kop, g)
    OBVIOUS
  <2>1. kop[k] # g /\ kop'[k] # g
    BY <1>0, <1>1 DEF TypeOK
  <2>2. \A f, f1 : /\ f[k] # g /\ f1[k] # g
                   /\ \A j \in KeyUsers \ {k} : f1[j] = f[j]
                 => To(KeyUsers, f1, g) = To(KeyUsers, f, g)
    BY Stayed
  <2> QED  BY <1>2, <2>1, <2>2
<1>13. kop' \in [KeyUsers -> Hids \cup {None}]
  BY <1>0, <1>1 DEF TypeOK
<1>14. e.cc_koperations = Cardinality(To(KeyUsers, kop', h))
  BY <1>3, <1>4, <1>7
<1> HIDE DEF h
<1> QED
  BY <1>1, <1>7, <1>9, <1>10, <1>11, <1>12, <1>13, <1>14, KopStep DEF c

-----------------------------------------------------------------------------
LEMMA InitDrivers == Init => DriversInv
<1> SUFFICES ASSUME Init  PROVE DriversInv
  OBVIOUS
<1> USE NoneAssumption, OcfDriversAssumption
<1>1. \A h \in Hids : /\ Cap(h) \in Caps /\ Cap(h).cleanup = FALSE
                      /\ Cap(h).cc_sessions = 0 /\ Cap(h).cc_koperations = 0
  <2>1. \A d \in Permanent : LET c == [Free EXCEPT !.cc_dev = d] IN
          /\ c \in Caps /\ c.cleanup = FALSE
          /\ c.cc_sessions = 0 /\ c.cc_koperations = 0
    BY DEF Free, Caps
  <2> SUFFICES ASSUME NEW h \in Hids
               PROVE  /\ Cap(h) \in Caps /\ Cap(h).cleanup = FALSE
                      /\ Cap(h).cc_sessions = 0 /\ Cap(h).cc_koperations = 0
    OBVIOUS
  <2>2. Cap(h) \in {Free} \cup {[Free EXCEPT !.cc_dev = d] : d \in Permanent}
    BY DEF Init, Cap
  <2>3. CASE Cap(h) = Free
    BY <2>3, FreeType
  <2>4. ASSUME NEW d \in Permanent, Cap(h) = [Free EXCEPT !.cc_dev = d]
        PROVE  /\ Cap(h) \in Caps /\ Cap(h).cleanup = FALSE
               /\ Cap(h).cc_sessions = 0 /\ Cap(h).cc_koperations = 0
    BY <2>1, <2>4, Zenon
  <2> QED  BY <2>2, <2>3, <2>4
<1>2. TypeOK
  <2>1. crypto_drivers \in [Hids -> Caps]
    BY <1>1 DEF Init, Cap
  <2>2. attached \in [Drivers -> Nat]
    BY DEF Init
  <2>3. pc \in [Users -> States]
    BY DEF Init, States
  <2>4. /\ sid \in [Users -> Sids] /\ crp_sid \in [Users -> Sids]
        /\ at \in [Users -> Sids]
    BY DEF Init, Sids
  <2>5. /\ sc_cid \in [Drivers -> Hids \cup {None}]
        /\ kop \in [KeyUsers -> Hids \cup {None}]
    BY DEF Init
  <2> QED  BY <2>1, <2>2, <2>3, <2>4, <2>5 DEF TypeOK, Caps
<1>3. \A u \in Users : Held(u) /\ Hold[u] = None
  BY DEF Init, Held, Busy, Hold, HoldsOn, Current, NoSession
<1>4. SessionCounts
  BY <1>1, <1>3, Counts DEF SessionCounts
<1>5. KopCounts
  <2>1. \A k \in KeyUsers : kop[k] = None
    BY DEF Init
  <2> QED  BY <1>1, <2>1, Counts DEF KopCounts
<1>6. CleanupIsCountedOn
  BY <1>1 DEF CleanupIsCountedOn
<1>7. Linked
  <2>1. \A h \in Hids : Cap(h).cc_dev # None => Cap(h).cc_dev \in Permanent
    BY FreeType DEF Init, Cap, Free
  <2>2. \A h \in Hids, d \in Permanent : Cap(h).cc_dev = d <=> sc_cid[d] = h
    BY DEF Init, Cap
  <2>3. \A d \in Drivers : sc_cid[d] # None =>
          d \in Permanent /\ sc_cid[d] \in Hids
    BY DEF Init
  <2> QED  BY <2>1, <2>2, <2>3 DEF Linked
<1> QED  BY <1>2, <1>3, <1>4, <1>5, <1>6, <1>7 DEF DriversInv, Table

LEMMA DriversStep ==
  ASSUME Followers = Users, ~MigrateFails
  PROVE  DriversInv /\ DriversLeft /\ [Next]_vars => DriversInv'
<1> SUFFICES ASSUME DriversInv, DriversLeft, [Next]_vars  PROVE DriversInv'
  OBVIOUS
<1>1. ASSUME NEW d \in Drivers, Attach(d) \/ Detach(d)  PROVE DriversInv'
  BY <1>1, AttachStep, DetachStep
<1>2. ASSUME NEW u \in Users,
             \/ NewSession(u) \/ SessionMade(u) \/ SessionRefused(u)
             \/ FreeSession(u) \/ SessionFreed(u)
             \/ Op(u) \/ Invoke(u) \/ Reselect(u) \/ Migrated(u)
             \/ Again(u) \/ Complete(u)
      PROVE  DriversInv'
  BY <1>2, UserActions
<1>3. ASSUME NEW k \in KeyUsers, KDispatch(k) \/ KDone(k)  PROVE DriversInv'
  BY <1>3, KDispatchStep, KDoneStep
<1>4. CASE UNCHANGED vars
  <2>1. Hold' = Hold
    BY <1>4 DEF vars, tableVars, userVars, Hold, HoldsOn, Current
  <2> QED
    BY <1>4, <2>1
    DEF vars, tableVars, userVars, DriversInv, TypeOK, Table, SessionCounts,
        KopCounts, CleanupIsCountedOn, Linked, Cap, Held, Busy, Bound, Current
<1> QED  BY <1>1, <1>2, <1>3, <1>4 DEF Next

-----------------------------------------------------------------------------
(* A set of natural numbers that is not empty has a least element.         *)
LEMMA LeastNat ==
  ASSUME NEW T \in SUBSET Nat, T # {}
  PROVE  \E x \in T : \A y \in T : x <= y
<1>1. PICK x \in T : \A y \in T : ~ (<<y, x>> \in OpToRel(<, Nat))
  BY NatLessThanWellFounded, WFMin
<1>2. \A y \in T : <<y, x>> \in OpToRel(<, Nat) <=> y < x
  BY DEF OpToRel
<1>3. \A y \in T : ~ (y < x)
  BY <1>1, <1>2
<1> QED  BY <1>3

(* crypto_select_driver finds a driver wherever there is one.              *)
LEMMA SelectFinds ==
  ASSUME TypeOK, NEW S \in SUBSET Hids, S # {}
  PROVE  \E h \in S : \A g \in S : LessUsed(h, g)
<1>0. \A h \in S : Cap(h).cc_sessions \in Nat /\ h \in Nat
  BY OcfDriversAssumption DEF TypeOK, Cap, Hids
<1> DEFINE uses == {Cap(h).cc_sessions : h \in S}
<1>1. PICK m \in uses : \A n \in uses : m <= n
  BY <1>0, LeastNat
<1> DEFINE least == {h \in S : Cap(h).cc_sessions = m}
<1>2. least # {} /\ least \in SUBSET Nat
  BY <1>0
<1>3. PICK h \in least : \A g \in least : h <= g
  BY <1>2, LeastNat
<1>4. ASSUME NEW g \in S  PROVE LessUsed(h, g)
  <2>1. /\ m <= Cap(g).cc_sessions /\ Cap(h).cc_sessions = m
        /\ m \in Nat /\ Cap(g).cc_sessions \in Nat
    BY <1>0, <1>1, <1>3
  <2>2. CASE Cap(g).cc_sessions = m
    BY <1>3, <2>1, <2>2 DEF LessUsed
  <2>3. CASE Cap(g).cc_sessions # m
    BY <2>1, <2>3 DEF LessUsed
  <2> QED  BY <2>2, <2>3
<1> QED  BY <1>3, <1>4

(* The drivers of the kernel image never unregister.                       *)
BuiltInThere == \A d \in Permanent : sc_cid[d] # None

LEMMA BuiltInStep ==
  TypeOK /\ BuiltInThere /\ [Next]_vars => BuiltInThere'
<1> SUFFICES ASSUME TypeOK, BuiltInThere, [Next]_vars  PROVE BuiltInThere'
  OBVIOUS
<1>1. ASSUME NEW d \in Drivers, Attach(d)  PROVE BuiltInThere'
  BY <1>1, NoneAssumption DEF Attach, FirstVacant, BuiltInThere, TypeOK
<1>2. ASSUME NEW d \in Drivers, Detach(d)  PROVE BuiltInThere'
  BY <1>2, OcfDriversAssumption DEF Detach, BuiltInThere, TypeOK
<1>3. CASE UNCHANGED sc_cid
  BY <1>3 DEF BuiltInThere
<1>4. ASSUME NEW u \in Users,
             \/ NewSession(u) \/ SessionMade(u) \/ SessionRefused(u)
             \/ FreeSession(u) \/ SessionFreed(u)
             \/ Op(u) \/ Invoke(u) \/ Reselect(u) \/ Migrated(u)
             \/ Again(u) \/ Complete(u)
      PROVE  UNCHANGED sc_cid
  BY <1>4
  DEF NewSession, SessionMade, SessionRefused, FreeSession, SessionFreed, Op,
      Invoke, Reselect, Migrated, Again, Complete, tableVars
<1>5. ASSUME NEW k \in KeyUsers, KDispatch(k) \/ KDone(k)
      PROVE  UNCHANGED sc_cid
  BY <1>5 DEF KDispatch, KDone
<1>6. CASE UNCHANGED vars
  BY <1>3, <1>6 DEF vars, tableVars
<1> QED  BY <1>1, <1>2, <1>3, <1>4, <1>5, <1>6 DEF Next

LEMMA BuiltInLeft ==
  ASSUME Permanent # {},
         KeyUsers # {} => Permanent \cap Hardware \cap KeyDrivers # {},
         DriversInv, BuiltInThere
  PROVE  DriversLeft
<1> USE NoneAssumption, OcfDriversAssumption
<1>0. TypeOK /\ Table
  BY DEF DriversInv
<1>1. ASSUME NEW d \in Permanent
      PROVE  /\ sc_cid[d] \in Hids /\ Cap(sc_cid[d]).cc_dev = d
             /\ Attached(sc_cid[d])
  BY <1>0
  DEF BuiltInThere, TypeOK, Table, Linked, CleanupIsCountedOn, Attached
<1>2. Selected # {}
  <2> DEFINE hw == Suitable(TRUE) # {}
  <2>1. Suitable(hw) # {} /\ Suitable(hw) \in SUBSET Hids
    <3>1. PICK d \in Permanent : TRUE
      OBVIOUS
    <3>2. CASE d \in Hardware
      BY <1>1, <3>2 DEF Suitable
    <3>3. CASE d \notin Hardware
      BY <1>1, <3>3 DEF Suitable
    <3> QED  BY <3>2, <3>3
  <2>2. \E h \in Suitable(hw) : \A g \in Suitable(hw) : LessUsed(h, g)
    BY <1>0, <2>1, SelectFinds
  <2> QED  BY <2>2 DEF Selected
<1>3. ASSUME KeyUsers # {}  PROVE KSuitable # {}
  <2>1. PICK d \in Permanent : d \in Hardware /\ d \in KeyDrivers
    BY <1>3
  <2> QED  BY <1>1, <2>1 DEF KSuitable, Suitable
<1> QED  BY <1>2, <1>3 DEF DriversLeft

LEMMA BuiltInInit == Init => BuiltInThere
  BY OcfDriversAssumption DEF Init, BuiltInThere

THEOREM DriversInvariant ==
  ASSUME Followers = Users, ~MigrateFails, Permanent # {},
         KeyUsers # {} => Permanent \cap Hardware \cap KeyDrivers # {}
  PROVE  Spec => []DriversInv
<1> DEFINE I == DriversInv /\ BuiltInThere
<1>1. Init => I
  BY InitDrivers, BuiltInInit
<1>2. I /\ [Next]_vars => I'
  BY DriversStep, BuiltInStep, BuiltInLeft DEF DriversInv
<1>3. I => DriversInv
  OBVIOUS
<1> QED  BY <1>1, <1>2, <1>3, PTL DEF Spec

(* Through every interleaving of calls into drivers, unregistrations and   *)
(* migrations, cc_sessions and cc_koperations count what there is.         *)
THEOREM CountsCorrect ==
  ASSUME Followers = Users, ~MigrateFails, Permanent # {},
         KeyUsers # {} => Permanent \cap Hardware \cap KeyDrivers # {}
  PROVE  Spec => []CountsExact
<1>1. DriversInv => CountsExact
  <2> SUFFICES ASSUME DriversInv  PROVE CountsExact
    OBVIOUS
  <2>1. \A h : To(Users, Hold, h) = {u \in Users : HoldsOn(u) = h}
    BY DEF To, Hold
  <2>2. \A h : To(KeyUsers, kop, h) = {k \in KeyUsers : kop[k] = h}
    BY DEF To
  <2> QED
    BY <2>1, <2>2 DEF DriversInv, Table, SessionCounts, KopCounts, CountsExact
<1> QED  BY <1>1, DriversInvariant, PTL

(* No entry is kept for nobody.                                            *)
THEOREM CleanupCorrect ==
  ASSUME Followers = Users, ~MigrateFails, Permanent # {},
         KeyUsers # {} => Permanent \cap Hardware \cap KeyDrivers # {}
  PROVE  Spec => []CleanupIsCountedOn
<1>1. DriversInv => CleanupIsCountedOn
  BY DEF DriversInv, Table
<1> QED  BY <1>1, DriversInvariant, PTL

(* No request reaches a driver that moved into the entry of its session.   *)
THEOREM RightDriverCorrect ==
  ASSUME Followers = Users, ~MigrateFails, Permanent # {},
         KeyUsers # {} => Permanent \cap Hardware \cap KeyDrivers # {}
  PROVE  Spec => []RightDriver
<1>1. DriversInv => RightDriver
  BY DEF DriversInv, Held, RightDriver
<1> QED  BY <1>1, DriversInvariant, PTL
=============================================================================
