----------------------------- MODULE OcfDrivers -----------------------------
(***************************************************************************)
(* The driver table of the OCF framework, crypto.c: drivers come and go    *)
(* (crypto_get_driverid, crypto_register, crypto_unregister_all), users    *)
(* open and free sessions on them, requests of a session whose driver has  *)
(* unregistered are migrated by crypto_invoke, asymmetric operations are   *)
(* counted by crypto_kinvoke and crypto_kdone.                             *)
(*                                                                         *)
(* An entry that is still counted on when its driver unregisters is kept,  *)
(* marked CLEANUP, and released by whoever takes the last count off        *)
(* (crypto_remove); until then no other driver may move in, because a      *)
(* session id names its driver by the number of the entry.                 *)
(*                                                                         *)
(* A step is a section under CRYPTO_DRIVER_LOCK; the calls into a driver   *)
(* (NEWSESSION, FREESESSION) are made between two sections, and anything   *)
(* may happen meanwhile. A user has one session and one request at a time. *)
(* The ones in Followers go on with the session id the framework leaves in *)
(* crp_sid, the others keep their own, as cryptodev.c keeps cse->sid.      *)
(***************************************************************************)
EXTENDS Naturals, FiniteSets

CONSTANTS
  Drivers,     \* the devices
  Hardware,    \* the ones registered with CRYPTOCAP_F_HARDWARE
  Permanent,   \* built into the kernel: attached at boot, never detached
  KeyDrivers,  \* the ones that registered the asymmetric algorithm
  Users,       \* callers with one session each
  Followers,   \* users that take over crp_sid after a migration
  KeyUsers,    \* callers with one asymmetric operation each
  NumDrivers,  \* crypto_drivers_num; the table does not grow (bound)
  MaxAttach,   \* how often one device attaches (bound)
  KopMod,      \* where cc_koperations, a u_int32_t, goes round (bound)
  MigrateFails, \* crypto_newsession may fail inside a migration
  None         \* no device, no entry

ASSUME OcfDriversAssumption ==
  /\ Hardware \subseteq Drivers /\ Permanent \subseteq Drivers
  /\ KeyDrivers \subseteq Drivers /\ Followers \subseteq Users
  /\ IsFiniteSet(Drivers) /\ IsFiniteSet(Users) /\ IsFiniteSet(KeyUsers)
  /\ NumDrivers \in Nat \ {0} /\ MaxAttach \in Nat \ {0}
  /\ KopMod \in Nat \ {0} /\ Cardinality(KeyUsers) < KopMod
  /\ Cardinality(Drivers) <= NumDrivers
  /\ MigrateFails \in BOOLEAN

Hids   == 0 .. NumDrivers - 1

ASSUME NoneAssumption == None \notin Drivers /\ None \notin Hids

VARIABLES
  crypto_drivers, \* the table
  sc_cid,         \* per driver: the entry it got, None while detached
  attached,       \* per driver: how often it has attached
  pc,             \* per user: what it is doing
  sid,            \* per user: its session id
  crp_sid,        \* per user: the session id in its request
  at,             \* per user: entry and driver session of the call under way
  kop             \* per asymmetric caller: the entry its operation counts on

tableVars == <<crypto_drivers, sc_cid, attached>>
userVars  == <<pc, sid, crp_sid, at>>
vars == <<tableVars, userVars, kop>>

-----------------------------------------------------------------------------
(* struct cryptocap; an entry is free when bzero has gone over it.         *)
Free == [cc_dev |-> None, cleanup |-> FALSE, cc_sessions |-> 0,
         cc_koperations |-> 0]

(* A session id: the entry's number, and the driver's own number for the   *)
(* session, which only the attachment of the driver that made it knows.    *)
Session(h, d) == [hid |-> h, dev |-> d, lid |-> attached[d]]
NoSession     == [hid |-> None, dev |-> None, lid |-> 0]

Cap(h) == crypto_drivers[h]

(* crypto_remove, called for entries marked CLEANUP.                       *)
Removed(c) == IF c.cleanup /\ c.cc_sessions = 0 /\ c.cc_koperations = 0
              THEN Free ELSE c

(* crypto_freesession once the driver has been told: one count less, and   *)
(* the entry is released with the last one.                                *)
Uncounted(c) ==
  Removed([c EXCEPT !.cc_sessions = IF @ > 0 THEN @ - 1 ELSE @])

(* crypto_kdone: the count is unsigned and goes round.                     *)
KopUncounted(c) ==
  Removed([c EXCEPT !.cc_koperations = (@ + KopMod - 1) % KopMod])

(* driver_finis: an entry that is counted on stays, without a device.      *)
Finished(c) ==
  IF c.cc_sessions # 0 \/ c.cc_koperations # 0
  THEN [c EXCEPT !.cc_dev = None, !.cleanup = TRUE]
  ELSE Free

Counted(h) ==
  crypto_drivers' = [crypto_drivers EXCEPT ![h].cc_sessions = @ + 1]

-----------------------------------------------------------------------------
(* crypto_select_driver: among the entries with a driver, hardware before  *)
(* software, the least used one, the first of those. driver_suitable holds *)
(* of every attached driver: they support the algorithms asked for.        *)
Attached(h) == Cap(h).cc_dev # None /\ ~Cap(h).cleanup

Suitable(hw) == {h \in Hids : Attached(h) /\ (Cap(h).cc_dev \in Hardware) = hw}

LessUsed(h, g) ==
  \/ Cap(h).cc_sessions < Cap(g).cc_sessions
  \/ Cap(h).cc_sessions = Cap(g).cc_sessions /\ h <= g

Selected ==
  LET S == Suitable(Suitable(TRUE) # {}) IN
  {h \in S : \A g \in S : LessUsed(h, g)}

(* The drivers crypto_kinvoke may take with crypto_devallowsoft off: the   *)
(* hardware ones that support the operation.                               *)
KSuitable == {h \in Suitable(TRUE) : Cap(h).cc_dev \in KeyDrivers}

-----------------------------------------------------------------------------
(* crypto_get_driverid and crypto_register in the probe routine of a       *)
(* driver: the first entry that is neither taken nor waiting to be cleaned *)
(* up. It is counted as one session until the first crypto_register; one   *)
(* CPU runs the routine through, so that mark is not seen by the others.   *)
Vacant(h) == Cap(h).cc_dev = None /\ ~Cap(h).cleanup

FirstVacant == {h \in Hids : Vacant(h) /\ \A g \in Hids : g < h => ~Vacant(g)}

Attach(d) ==
  /\ sc_cid[d] = None
  /\ attached[d] < MaxAttach
  /\ \E h \in FirstVacant :
       /\ sc_cid' = [sc_cid EXCEPT ![d] = h]
       /\ crypto_drivers' = [crypto_drivers EXCEPT
            ![h] = [@ EXCEPT !.cc_dev = d, !.cc_sessions = 0]]
  /\ attached' = [attached EXCEPT ![d] = @ + 1]
  /\ UNCHANGED <<userVars, kop>>

(* crypto_done with an error for the requests of these users.              *)
Aborted(us) ==
  /\ pc' = [u \in Users |-> IF u \in us THEN "open" ELSE pc[u]]
  /\ crp_sid' = [u \in Users |-> IF u \in us THEN NoSession ELSE crp_sid[u]]
  /\ at' = [u \in Users |-> IF u \in us THEN NoSession ELSE at[u]]

(* Mutant of Detach: only the asymmetric operations keep the entry.        *)
DetachForgets(d) ==
  /\ sc_cid[d] # None /\ d \notin Permanent
  /\ crypto_drivers' = [crypto_drivers EXCEPT
       ![sc_cid[d]] = IF @.cc_koperations = 0 THEN Free ELSE Finished(@)]
  /\ sc_cid' = [sc_cid EXCEPT ![d] = None]
  /\ Aborted({u \in Users : pc[u] = "process" /\ at[u].dev = d})
  /\ UNCHANGED <<attached, sid, kop>>

(* The remove routine of a driver: crypto_unregister_all, then what its    *)
(* rings still hold is completed with an error, as safe_cleanchip does.    *)
Detach(d) ==
  /\ sc_cid[d] # None /\ d \notin Permanent
  /\ crypto_drivers' = [crypto_drivers EXCEPT ![sc_cid[d]] = Finished(@)]
  /\ sc_cid' = [sc_cid EXCEPT ![d] = None]
  /\ Aborted({u \in Users : pc[u] = "process" /\ at[u].dev = d})
  /\ UNCHANGED <<attached, sid, kop>>

-----------------------------------------------------------------------------
(* crypto_newsession up to the unlock around CRYPTODEV_NEWSESSION, for a   *)
(* session of the selected driver or, with CIOCGSESSION2, any given one:   *)
(* the entry is counted on before the driver is asked.                     *)
NewSession(u) ==
  /\ pc[u] = "none"
  /\ \E h \in {g \in Hids : Attached(g)} :
       /\ Counted(h)
       /\ at' = [at EXCEPT ![u] = Session(h, Cap(h).cc_dev)]
  /\ pc' = [pc EXCEPT ![u] = "creating"]
  /\ UNCHANGED <<sc_cid, attached, sid, crp_sid, kop>>

(* CRYPTODEV_NEWSESSION has returned 0: the id is made from the entry.     *)
SessionMade(u) ==
  /\ pc[u] = "creating"
  /\ sid' = [sid EXCEPT ![u] = at[u]]
  /\ at' = [at EXCEPT ![u] = NoSession]
  /\ pc' = [pc EXCEPT ![u] = "open"]
  /\ UNCHANGED <<tableVars, crp_sid, kop>>

StillThere(s) == sc_cid[s.dev] = s.hid /\ attached[s.dev] = s.lid

\* Mutant of SessionRefused: the count taken before the call is kept.
SessionRefusedCounted(u) ==
  /\ pc[u] = "creating" /\ StillThere(at[u])
  /\ at' = [at EXCEPT ![u] = NoSession]
  /\ pc' = [pc EXCEPT ![u] = "none"]
  /\ UNCHANGED <<tableVars, sid, crp_sid, kop>>

(* CRYPTODEV_NEWSESSION has failed (no memory, no free session): the count *)
(* is taken back. A driver that fails is one that has not unregistered     *)
(* during the call: this path has no crypto_remove.                        *)
SessionRefused(u) ==
  /\ pc[u] = "creating" /\ StillThere(at[u])
  /\ crypto_drivers' = [crypto_drivers EXCEPT ![at[u].hid].cc_sessions = @ - 1]
  /\ at' = [at EXCEPT ![u] = NoSession]
  /\ pc' = [pc EXCEPT ![u] = "none"]
  /\ UNCHANGED <<sc_cid, attached, sid, crp_sid, kop>>

(* crypto_freesession: a driver that is there is called, unlocked, before  *)
(* the count is taken off; an entry without one loses the count at once.   *)
FreeSession(u) ==
  LET h == sid[u].hid IN
  /\ pc[u] = "open"
  /\ IF Cap(h).cc_dev # None
     THEN /\ pc' = [pc EXCEPT ![u] = "freeing"]
          /\ UNCHANGED <<crypto_drivers, sid>>
     ELSE /\ crypto_drivers' = [crypto_drivers EXCEPT ![h] = Uncounted(@)]
          /\ sid' = [sid EXCEPT ![u] = NoSession]
          /\ pc' = [pc EXCEPT ![u] = "none"]
  /\ UNCHANGED <<sc_cid, attached, crp_sid, at, kop>>

(* CRYPTODEV_FREESESSION has returned.                                     *)
SessionFreed(u) ==
  /\ pc[u] = "freeing"
  /\ crypto_drivers' = [crypto_drivers EXCEPT ![sid[u].hid] = Uncounted(@)]
  /\ sid' = [sid EXCEPT ![u] = NoSession]
  /\ pc' = [pc EXCEPT ![u] = "none"]
  /\ UNCHANGED <<sc_cid, attached, crp_sid, at, kop>>

-----------------------------------------------------------------------------
(* A user makes a request of its session and dispatches it.                *)
Op(u) ==
  /\ pc[u] = "open"
  /\ crp_sid' = [crp_sid EXCEPT ![u] = sid[u]]
  /\ pc' = [pc EXCEPT ![u] = "queued"]
  /\ UNCHANGED <<tableVars, sid, at, kop>>

(* crypto_invoke, from crypto_dispatch or crypto_proc. Where the entry has *)
(* been finished the session is freed and a new one wanted (Reselect);     *)
(* otherwise the request goes to the device in the entry.                  *)
Invoke(u) ==
  LET h == crp_sid[u].hid
      d == Cap(h).cc_dev
  IN
  /\ pc[u] = "queued"
  /\ IF Cap(h).cleanup
     THEN /\ crypto_drivers' = [crypto_drivers EXCEPT ![h] = Uncounted(@)]
          /\ pc' = [pc EXCEPT ![u] = "reselect"]
          /\ UNCHANGED at
     ELSE /\ pc' = [pc EXCEPT ![u] = "process"]
          /\ at' = [at EXCEPT ![u] = IF d = None THEN NoSession
                                     ELSE Session(h, d)]
          /\ UNCHANGED crypto_drivers
  /\ UNCHANGED <<sc_cid, attached, sid, crp_sid, kop>>

(* The crypto_newsession of the migration: EAGAIN with the old id if there *)
(* is no driver left.                                                      *)
Reselect(u) ==
  /\ pc[u] = "reselect"
  /\ IF Selected = {}
     THEN pc' = [pc EXCEPT ![u] = "again"] /\ UNCHANGED <<crypto_drivers, at>>
     ELSE \E h \in Selected :
            /\ Counted(h)
            /\ at' = [at EXCEPT ![u] = Session(h, Cap(h).cc_dev)]
            /\ pc' = [pc EXCEPT ![u] = "recreating"]
  /\ UNCHANGED <<sc_cid, attached, sid, crp_sid, kop>>

\* Mutant of Migrated: the request is not completed with EAGAIN.
MigratedSilently(u) ==
  /\ pc[u] = "recreating"
  /\ crp_sid' = [crp_sid EXCEPT ![u] = at[u]]
  /\ UNCHANGED <<pc, tableVars, sid, at, kop>>

(* The driver has answered: the request gets the new id and is completed   *)
(* with EAGAIN; where the driver fails it keeps the id of the session that *)
(* was freed.                                                              *)
Migrated(u) ==
  /\ pc[u] = "recreating"
  /\ \/ crp_sid' = [crp_sid EXCEPT ![u] = at[u]] /\ UNCHANGED crypto_drivers
     \/ /\ MigrateFails /\ StillThere(at[u])
        /\ crypto_drivers' =
             [crypto_drivers EXCEPT ![at[u].hid].cc_sessions = @ - 1]
        /\ UNCHANGED crp_sid
  /\ at' = [at EXCEPT ![u] = NoSession]
  /\ pc' = [pc EXCEPT ![u] = "again"]
  /\ UNCHANGED <<sc_cid, attached, sid, kop>>

(* The callback on EAGAIN: cryptodev_cb dispatches the same request again, *)
(* with the id it now has; a follower also makes it the session's.         *)
Again(u) ==
  /\ pc[u] = "again"
  /\ sid' = IF u \in Followers THEN [sid EXCEPT ![u] = crp_sid[u]] ELSE sid
  /\ pc' = [pc EXCEPT ![u] = "queued"]
  /\ UNCHANGED <<tableVars, crp_sid, at, kop>>

(* The driver completes the request.                                       *)
Complete(u) ==
  /\ pc[u] = "process" /\ at[u] # NoSession
  /\ at' = [at EXCEPT ![u] = NoSession]
  /\ crp_sid' = [crp_sid EXCEPT ![u] = NoSession]
  /\ pc' = [pc EXCEPT ![u] = "open"]
  /\ UNCHANGED <<tableVars, sid, kop>>

-----------------------------------------------------------------------------
(* crypto_kdispatch and crypto_kinvoke, for the least busy driver or, with *)
(* CIOCKEY2, any given one: the operation counts on the entry before the   *)
(* driver gets it. No driver in the tree answers ERESTART to it. Without a *)
(* driver it fails with ENODEV through crypto_kdone, which takes one off   *)
(* entry 0: krp_hid is still zero.                                         *)
KDispatch(k) ==
  /\ kop[k] = None
  /\ IF KSuitable = {}
     THEN /\ crypto_drivers' = [crypto_drivers EXCEPT ![0] = KopUncounted(@)]
          /\ UNCHANGED kop
     ELSE \E h \in KSuitable :
            /\ crypto_drivers' =
                 [crypto_drivers EXCEPT ![h].cc_koperations = @ + 1]
            /\ kop' = [kop EXCEPT ![k] = h]
  /\ UNCHANGED <<sc_cid, attached, userVars>>

\* Mutant of KDone: an entry waiting to be cleaned up is not looked at.
KDoneNoRemove(k) ==
  /\ kop[k] # None
  /\ crypto_drivers' =
       [crypto_drivers EXCEPT ![kop[k]].cc_koperations = @ - 1]
  /\ kop' = [kop EXCEPT ![k] = None]
  /\ UNCHANGED <<sc_cid, attached, userVars>>

(* crypto_kdone from the driver, also of one that has unregistered.        *)
KDone(k) ==
  /\ kop[k] # None
  /\ crypto_drivers' = [crypto_drivers EXCEPT ![kop[k]] = KopUncounted(@)]
  /\ kop' = [kop EXCEPT ![k] = None]
  /\ UNCHANGED <<sc_cid, attached, userVars>>

-----------------------------------------------------------------------------
(* crypto_init, then the drivers of the kernel image in some order.        *)
Init ==
  /\ sc_cid \in [Drivers -> Hids \cup {None}]
  /\ \A d \in Drivers : sc_cid[d] # None <=> d \in Permanent
  /\ \A d, e \in Permanent : sc_cid[d] = sc_cid[e] => d = e
  /\ \A d \in Permanent : sc_cid[d] < Cardinality(Permanent)
  /\ attached = [d \in Drivers |-> IF d \in Permanent THEN 1 ELSE 0]
  /\ crypto_drivers \in [Hids ->
       {Free} \cup {[Free EXCEPT !.cc_dev = d] : d \in Permanent}]
  /\ \A h \in Hids, d \in Permanent :
       crypto_drivers[h].cc_dev = d <=> sc_cid[d] = h
  /\ pc = [u \in Users |-> "none"]
  /\ sid = [u \in Users |-> NoSession]
  /\ crp_sid = [u \in Users |-> NoSession]
  /\ at = [u \in Users |-> NoSession]
  /\ kop = [k \in KeyUsers |-> None]

Next ==
  \/ \E d \in Drivers : Attach(d) \/ Detach(d)
  \/ \E u \in Users :
       \/ NewSession(u) \/ SessionMade(u) \/ SessionRefused(u)
       \/ FreeSession(u) \/ SessionFreed(u)
       \/ Op(u) \/ Invoke(u) \/ Reselect(u) \/ Migrated(u)
       \/ Again(u) \/ Complete(u)
  \/ \E k \in KeyUsers : KDispatch(k) \/ KDone(k)

Spec == Init /\ [][Next]_vars

(* The crypto thread and the drivers go on: a request that is queued is    *)
(* invoked, a driver's routine returns, an operation completes.            *)
FairSpec ==
  /\ Spec
  /\ \A u \in Users : /\ WF_vars(Invoke(u)) /\ WF_vars(Reselect(u))
                      /\ WF_vars(Migrated(u)) /\ WF_vars(Again(u))
                      /\ WF_vars(Complete(u))

-----------------------------------------------------------------------------
States == {"none", "creating", "open", "freeing", "queued", "process",
           "reselect", "recreating", "again"}

Sids == [hid : Hids, dev : Drivers, lid : Nat] \cup {NoSession}

(* Shape of the state.                                                     *)
TypeOK ==
  /\ crypto_drivers \in [Hids -> [cc_dev : Drivers \cup {None},
       cleanup : BOOLEAN, cc_sessions : Nat, cc_koperations : Nat]]
  /\ sc_cid \in [Drivers -> Hids \cup {None}]
  /\ attached \in [Drivers -> Nat]
  /\ pc \in [Users -> States]
  /\ sid \in [Users -> Sids] /\ crp_sid \in [Users -> Sids]
  /\ at \in [Users -> Sids]
  /\ kop \in [KeyUsers -> Hids \cup {None}]

(* The session of a user or, before and between, the one being made.       *)
Current(u) ==
  CASE pc[u] \in {"creating", "recreating"}      -> at[u]
    [] pc[u] \in {"open", "freeing"}             -> sid[u]
    [] pc[u] \in {"queued", "process", "again"}  -> crp_sid[u]
    [] OTHER                                     -> NoSession

(* The entry a user counts on.                                             *)
HoldsOn(u) == Current(u).hid

(* cc_sessions is the number of sessions that exist or are being made on   *)
(* the entry, cc_koperations the number of operations in its driver's      *)
(* hands, through every unregistration and migration: crypto_freesession,  *)
(* crypto_newsession, driver_finis and crypto_kdone agree about who counts.*)
CountsExact ==
  \A h \in Hids :
    /\ Cap(h).cc_sessions = Cardinality({u \in Users : HoldsOn(u) = h})
    /\ Cap(h).cc_koperations = Cardinality({k \in KeyUsers : kop[k] = h})

(* An entry kept for the sessions of a driver that has gone is released    *)
(* with the last of them: otherwise it is lost to the table for good.      *)
CleanupIsCountedOn ==
  \A h \in Hids : Cap(h).cleanup =>
    /\ Cap(h).cc_dev = None
    /\ Cap(h).cc_sessions > 0 \/ Cap(h).cc_koperations > 0

(* A request is handed to the very driver that made its session, never to  *)
(* one that has moved into the entry and never through an entry without a  *)
(* device: what crypto_unregister promises about later calls.              *)
RightDriver ==
  \A u \in Users : pc[u] = "process" => at[u] = crp_sid[u]

(* The requests of a session whose driver unregisters are rerouted: every  *)
(* request gets its answer.                                                *)
RequestsComplete ==
  \A u \in Users : pc[u] = "queued" ~> pc[u] = "open"

=============================================================================
