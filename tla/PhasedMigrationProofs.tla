------------------------ MODULE PhasedMigrationProofs -----------------------
(***************************************************************************)
(* Proofs about PhasedMigration, for any number of requests, jobs, tables, *)
(* events and writes and all batch sizes, of an importer that never        *)
(* unseals the source after it has lost its lock.                          *)
(*                                                                         *)
(* First what the operators return (pages, batches and the journal), the   *)
(* inductive invariant, and that every step keeps the types, the phases    *)
(* and the jobs; then the copies, the cutover and the refinement.          *)
(***************************************************************************)
EXTENDS PhasedMigration, FiniteSetTheorems, WellFoundedInduction, TLAPS

(* A bounded set of naturals that has an element has a largest one.        *)
LEMMA MaxFacts ==
  ASSUME NEW n \in Nat, NEW S \in SUBSET (0 .. n), S # {}
  PROVE  Max(S) \in S /\ \A y \in S : y <= Max(S)
  <1> DEFINE T == {n - k : k \in S}
  <1>0. \A k \in S : k \in Int /\ n - k \in Nat
    OBVIOUS
  <1>1. T \subseteq Nat /\ T # {}
    BY <1>0, Zenon
  <1>2. PICK x \in T : \A y \in T : ~(<<y, x>> \in OpToRel(<, Nat))
    <2> HIDE DEF T
    <2> QED  BY <1>1, NatLessThanWellFounded, WFMin, Zenon
  <1>3. \A y \in T : ~(y < x)
    BY Zenon, <1>1, <1>2 DEF OpToRel
  <1>4. PICK m \in S : x = n - m
    OBVIOUS
  <1>5. \A y \in S : m >= y
    <2> TAKE y \in S
    <2>1. ~(n - y < n - m)
      BY ZenonT(30), <1>3, <1>4
    <2>q. QED  BY <1>0, <2>1
  <1>6. \E z \in S : \A y \in S : z >= y
    BY <1>5
  <1>7. Max(S) \in S /\ \A y \in S : Max(S) >= y
    BY Zenon, <1>6 DEF Max
  <1>q. QED  BY <1>7

(* A page p with the last key l holds keys of the range and, up to l, all  *)
(* of them.                                                                *)
IsPage(keys, after, last, p, l) ==
    /\ p \subseteq keys
    /\ \A k \in p : after < k /\ k <= last /\ k <= l
    /\ l \in Nat /\ after <= l
    /\ l = after \/ (l \in keys /\ l <= last)
    /\ \A k \in keys : after < k /\ k <= last /\ k <= l => k \in p

(* readMigrationRows returns such a page.                                  *)
LEMMA PageFacts ==
  ASSUME NEW keys \in SUBSET Nat, NEW after \in Nat, NEW last \in Nat
  PROVE  IsPage(keys, after, last, Page(keys, after, last), Last(Page(keys, after, last), after))
  <1> SUFFICES ASSUME NEW p, p = Page(keys, after, last), NEW l, l = Last(p, after)
               PROVE  /\ p \subseteq keys
                      /\ \A k \in p : after < k /\ k <= last /\ k <= l
                      /\ l \in Nat /\ after <= l
                      /\ l = after \/ (l \in keys /\ l <= last)
                      /\ \A k \in keys : after < k /\ k <= last /\ k <= l => k \in p
      BY Zenon DEF IsPage
  <1> DEFINE rest == {k \in keys : after < k /\ k <= last}
             Below(k) == {j \in rest : j < k}
  <1>1. p = {k \in rest : Cardinality(Below(k)) < BatchSize}
    BY DEF Page
  <1>2. p \subseteq rest /\ rest \subseteq 0 .. last
    <2>1. p \subseteq rest
      BY <1>1, Zenon
    <2>2. ASSUME NEW k \in rest  PROVE k \in 0 .. last
      OBVIOUS
    <2>q. QED  BY <2>1, <2>2, Zenon
  <1>3. CASE p = {}
    <2>1. l = after
      BY <1>3 DEF Last
    <2>2. \A k \in keys : ~(after < k /\ k <= after)
      OBVIOUS
    <2>q. QED  BY <1>3, <2>1, <2>2
  <1>4. CASE p # {}
    <2>1. l = Max(p)
      BY <1>4 DEF Last
    <2>2. Max(p) \in p /\ \A y \in p : y <= Max(p)
      <3> QED  BY Zenon, <1>2, <1>4, MaxFacts
    <2>3. l \in p /\ \A y \in p : y <= l
      BY <2>1, <2>2
    <2>4. ASSUME NEW k \in rest, k <= l
          PROVE  k \in p
      <3>1. IsFiniteSet(Below(l))
        <4>1. Below(l) \in SUBSET Nat /\ \A s \in Below(l) : s <= last
          BY <1>2
        <4>q. QED  BY <4>1, FS_BoundedSetOfNaturals
      <3>2. Below(k) \in SUBSET Below(l)
        <4>1. l \in Nat /\ k \in Nat
          BY <1>2, <2>3
        <4>q. QED  BY <1>2, <2>4, <4>1
      <3>3. /\ Cardinality(Below(k)) <= Cardinality(Below(l))
            /\ Cardinality(Below(l)) \in Nat /\ Cardinality(Below(k)) \in Nat
        <4> HIDE DEF Below
        <4> QED  BY <3>1, <3>2, FS_Subset, FS_CardinalityType
      <3>4. Cardinality(Below(l)) < BatchSize
        BY <1>1, <2>3
      <3>5. Cardinality(Below(k)) < BatchSize
        <4> HIDE DEF Below
        <4> QED  BY <3>3, <3>4, SizesAssumption
      <3>q. QED  BY <1>1, <3>5
    <2>q. QED  BY <1>2, <2>3, <2>4
  <1>q. QED  BY <1>3, <1>4

(* An entry of the journal for a request, after a position.                *)
Behind(id, from) == \E k \in (from + 1) .. Len(journal) : journal[k] = id

(* A change of a request is in the journal, after all that was there.      *)
LEMMA JournaledFacts ==
  ASSUME journal \in Seq(Ids), NEW id \in Ids, NEW row, row # req[id],
         NEW j, j = Journaled(id, row)
  PROVE  /\ j \in Seq(Ids)
         /\ Len(journal) <= Len(j)
         /\ \A k \in 1 .. Len(journal) : j[k] = journal[k]
         /\ srcPhase = "copying" => \E k \in (Len(journal) + 1) .. Len(j) : j[k] = id
         /\ srcPhase # "copying" => j = journal
  <1>1. CASE srcPhase # "copying"
    BY <1>1 DEF Journaled
  <1>2. ASSUME NEW s \in Seq(Ids), NEW a \in Seq(Ids),
               a = <<>> \/ a = <<id>>
        PROVE  /\ s \o a \in Seq(Ids)
               /\ Len(s) <= Len(s \o a)
               /\ \A k \in 1 .. Len(s) : (s \o a)[k] = s[k]
               /\ a = <<id>> => Len(s \o a) = Len(s) + 1 /\ (s \o a)[Len(s) + 1] = id
    <2>1. CASE a = <<>>
      BY <2>1
    <2>2. CASE a = <<id>>
      BY <2>2
    <2>q. QED  BY <1>2, <2>1, <2>2
  <1>3. CASE srcPhase = "copying"
    <2> DEFINE a == IF req[id] # Absent THEN <<id>> ELSE <<>>
               b == IF row # Absent THEN <<id>> ELSE <<>>
               s == journal \o a
    <2>1. j = s \o b
      BY <1>3 DEF Journaled
    <2>2. /\ a \in Seq(Ids) /\ (a = <<>> \/ a = <<id>>)
          /\ b \in Seq(Ids) /\ (b = <<>> \/ b = <<id>>)
          /\ a = <<id>> \/ b = <<id>>
      OBVIOUS
    <2> HIDE DEF a, b
    <2>3. /\ s \in Seq(Ids)
          /\ Len(journal) <= Len(s)
          /\ \A k \in 1 .. Len(journal) : s[k] = journal[k]
          /\ a = <<id>> => Len(s) = Len(journal) + 1 /\ s[Len(journal) + 1] = id
      BY Zenon, <1>2, <2>2
    <2> HIDE DEF s
    <2>4. /\ j \in Seq(Ids)
          /\ Len(s) <= Len(j)
          /\ \A k \in 1 .. Len(s) : j[k] = s[k]
          /\ b = <<id>> => Len(j) = Len(s) + 1 /\ j[Len(s) + 1] = id
      BY SMTT(20), <1>2, <2>1, <2>2, <2>3
    <2>5. Len(journal) \in Nat /\ Len(s) \in Nat /\ Len(j) \in Nat
      BY <2>3, <2>4
    <2>q. QED  BY SMTT(20), <1>3, <2>2, <2>3, <2>4, <2>5
  <1>q. QED  BY <1>1, <1>3

(* A batch of the importer never breaks the unique index of the target,    *)
(* and makes a table of requests.                                          *)
LEMMA WrittenFacts ==
  ASSUME treq \in Table, view \in Table, UniqueJobs(treq), UniqueJobs(view),
         NEW keys \in SUBSET Ids
  PROVE  /\ Written(keys) \in Table
         /\ UniqueJobs(Written(keys))
         /\ \A i \in Ids :
              \/ i \in keys /\ Written(keys)[i] = view[i]
              \/ i \notin keys /\ Written(keys)[i] = treq[i]
              \/ /\ i \notin keys /\ Written(keys)[i] = Absent
                 /\ treq[i] # Absent /\ view[i] # treq[i]
  <1> DEFINE w == Written(keys)
             stale == StaleOwners(keys \cap Rows(view))
  <1>1. w = [i \in Ids |-> IF i \in keys THEN view[i] ELSE IF i \in stale THEN Absent ELSE treq[i]]
    BY DEF Written
  <1>2. \A i \in stale : treq[i] # Absent /\ view[i] # treq[i]
    BY Zenon DEF StaleOwners, Rows
  <1>3. ASSUME NEW i \in Ids, NEW k \in Ids, k \in keys, view[k] # Absent, k # i,
               treq[i] # Absent, treq[i].job # NoJob, view[k].job = treq[i].job
        PROVE  i \in stale
    <2>1. ~(view[i] # Absent /\ view[i].job = treq[i].job)
      BY <1>3 DEF UniqueJobs
    <2>q. QED  BY <1>3, <2>1 DEF StaleOwners, Rows
  <1> HIDE DEF stale, w
  <1>4. \A i \in Ids :
          \/ i \in keys /\ w[i] = view[i]
          \/ i \notin keys /\ i \notin stale /\ w[i] = treq[i]
          \/ i \notin keys /\ i \in stale /\ w[i] = Absent
    BY <1>1
  <1>5. w \in Table
    <2>1. Absent \in Row \cup {Absent}
      OBVIOUS
    <2>2. \A i \in Ids : view[i] \in Row \cup {Absent} /\ treq[i] \in Row \cup {Absent}
      BY DEF Table
    <2>3. \A i \in Ids : w[i] \in Row \cup {Absent}
      BY <1>4, <2>1, <2>2
    <2>q. QED  BY <1>1, <2>3 DEF Table
  <1>6. UniqueJobs(w)
    <2> SUFFICES ASSUME NEW i \in Ids, NEW k \in Ids, i # k,
                        w[i] # Absent, w[k] # Absent, w[i].job # NoJob, w[i].job = w[k].job
                 PROVE  FALSE
      BY DEF UniqueJobs
    <2>1. CASE i \in keys /\ k \in keys
      BY <1>4, <2>1 DEF UniqueJobs
    <2>2. CASE i \notin keys /\ k \notin keys
      BY <1>4, <2>2 DEF UniqueJobs
    <2>3. CASE i \in keys /\ k \notin keys
      BY <1>3, <1>4, <2>3
    <2>4. CASE i \notin keys /\ k \in keys
      BY <1>3, <1>4, <2>4
    <2>q. QED  BY <2>1, <2>2, <2>3, <2>4
  <1>q. QED  BY <1>2, <1>4, <1>5, <1>6 DEF w

-----------------------------------------------------------------------------
(* The inductive invariant                                                 *)

NoLateUnseal == "unseal" \notin MayLose

(* Which phases a step of a command may find.                              *)
Control ==
    /\ srcPhase = "none" => /\ phase = "none" /\ journal = <<>> /\ upper = 0
                            /\ pc \in {"idle", "install"}
    /\ phase = "none" =>
        /\ treq = NoRows /\ cursor = 0 /\ base = [cursor |-> 0, done |-> FALSE]
        /\ hist = [cursor |-> 0, rows |-> 0]
        /\ stray = {} /\ pc \in {"idle", "install", "schema"} /\ srcPhase # "sealed"
    /\ pc = "install" => srcPhase = "none"
    /\ pc = "schema" => srcPhase = "copying" /\ phase = "none"
    /\ TargetOpen => srcPhase = "sealed" /\ pc \in {"idle", "events", "count"} /\ base.done
    /\ pc \in {"small", "base", "upper", "replay", "verify", "seal", "unseal"} => phase = "copying"
    /\ pc \in {"small", "upper", "replay"} => mode \in {"sync", "cutover"}
    /\ pc = "base" => mode = "sync"
    /\ pc \in {"seal", "verify"} => mode = "cutover"
    /\ pc = "count" => mode = "backfill"
    /\ pc = "events" => mode \in {"sync", "backfill"}
    /\ pc \in {"events", "count"} /\ mode = "sync" => phase = "copying"
    /\ pc \in {"events", "count"} /\ mode = "backfill" => TargetOpen
    /\ mode = "cutover" /\ pc \in {"small", "upper", "replay", "verify"} => srcPhase = "sealed"
    /\ pc \in {"upper", "replay", "verify"} => base.done
    /\ mode = "cutover" /\ pc # "idle" => base.done
    /\ reading => pc \in {"small", "base", "replay"} /\ (pc = "base" => ~base.done)
    /\ "unseal" \notin stray

(* No two requests have a job in common, in either database.               *)
JobsInv == UniqueJobs(req) /\ UniqueJobs(treq) /\ UniqueJobs(view)

(* The baseline goes from id to id, and before its end nothing is replayed.*)
BaseInv ==
    ~base.done => cursor = 0 /\ \A i \in Ids : i > base.cursor => treq[i] = Absent

(* The source as PostgreSQL can hold it.                                   *)
Held == Normalized(req)
HeldSmall == NormalizedSmall(small)

(* What Covered says, from the moment the triggers are there.              *)
Reaches(id) == Behind(id, cursor) \/ (~base.done /\ base.cursor < id /\ id <= upper)

CoverInv ==
    srcPhase # "none" /\ ~TargetOpen => \A id \in Ids : treq[id] # Held[id] => Reaches(id)

(* What changed in the source since it was read is in the journal where    *)
(* the batch that is written will not move the cursor.                     *)
Floor == IF pc = "replay" THEN up ELSE cursor
ViewInv == reading => \A id \in Ids : view[id] # Held[id] => Behind(id, Floor)

(* The bound of a replay; that of a cutover is the end of the journal.     *)
ReplayInv ==
    /\ pc = "replay" => up <= Len(journal) /\ (reading => cursor < up)
    /\ pc = "replay" /\ mode = "cutover" => up = Len(journal)
    /\ pc = "verify" => cursor = Len(journal)

(* The small tables a cutover has refreshed.                               *)
SmallInv ==
    /\ mode = "cutover" /\ pc = "small" => \A t \in Tables \ todo : tsmall[t] = HeldSmall[t]
    /\ mode = "cutover" /\ pc \in {"upper", "replay", "verify"} => tsmall = HeldSmall
    /\ mode = "cutover" /\ pc = "small" /\ reading => viewSmall = HeldSmall

(* Who has inserted which events, and how far the copy of them is.         *)
EventInv ==
    /\ ~TargetOpen => \A e \in EventIds : tevents[e] # "pg"
    /\ TargetOpen => eseq <= tseq
    /\ \A e \in EventIds : tevents[e] = "src" => e \in events
    /\ \A e \in events : e <= hist.cursor => tevents[e] = "src"
    /\ pc = "count" => \A e \in events : e <= up => e <= hist.cursor
    /\ pc \in {"events", "count"} /\ mode = "backfill" => up = watermark

Inv ==
    /\ TypeOK /\ Control /\ JobsInv /\ BaseInv /\ CoverInv /\ ViewInv /\ ReplayInv
    /\ SmallInv /\ EventInv /\ EventIdsApart /\ HistoryWhole

(* PostgreSQL can hold every row, and the truncation of a time neither     *)
(* makes nor removes a row nor touches its job.                            *)
LEMMA HeldFacts ==
  ASSUME TypeOK
  PROVE  /\ Held \in Table /\ HeldSmall \in [Tables -> Content]
         /\ Rows(Held) = Rows(req)
         /\ UniqueJobs(req) => UniqueJobs(Held)
  <1>1. req \in Table /\ small \in [Tables -> Content]
    BY Zenon DEF TypeOK, SourceTypes
  <1>2. \A row \in Row : Stored(row) \in Row /\ Stored(row).job = row.job
    <2> SUFFICES ASSUME NEW row \in Row
                 PROVE  Stored(row) \in Row /\ Stored(row).job = row.job
      OBVIOUS
    <2>1. row # Absent /\ Truncate(row.val) \in Vals
      BY Zenon, SizesAssumption, TimesAssumption DEF Row
    <2>2. Stored(row) = [row EXCEPT !.val = Truncate(row.val)]
      BY Zenon, <2>1 DEF Stored
    <2> HIDE DEF Truncate
    <2>q. QED  BY <2>1, <2>2 DEF Row
  <1>3. \A i \in Ids : \/ req[i] = Absent /\ Held[i] = Absent
                       \/ req[i] \in Row /\ Held[i] \in Row /\ Held[i].job = req[i].job
    BY Zenon, <1>1, <1>2 DEF Held, Normalized, Stored, Table
  <1>4. Held = [i \in Ids |-> Held[i]] /\ HeldSmall \in [Tables -> Content]
    <2>1. Held = [i \in Ids |-> Stored(req[i])]
      BY DEF Held, Normalized
    <2>2. \A t \in Tables : Truncate(small[t]) \in Content
      BY Zenon, <1>1, TimesAssumption
    <2>q. QED  BY Zenon, <2>1, <2>2 DEF HeldSmall, NormalizedSmall
  <1>5. Absent \notin Row
    BY SizesAssumption
  <1> HIDE DEF Held
  <1>6. Held \in Table
    BY Zenon, <1>3, <1>4 DEF Table
  <1>7. Rows(Held) = Rows(req)
    BY Zenon, <1>3, <1>5 DEF Rows
  <1>8. UniqueJobs(req) => UniqueJobs(Held)
    BY <1>3, <1>5 DEF UniqueJobs
  <1>q. QED  BY <1>4, <1>6, <1>7, <1>8

(* It follows the source.                                                  *)
LEMMA HeldKept ==
  /\ UNCHANGED req => UNCHANGED Held
  /\ UNCHANGED small => UNCHANGED HeldSmall
  BY DEF Held, HeldSmall, Normalized, NormalizedSmall

(* A step of something else keeps all of it.                               *)
LEMMA Stutter == Inv /\ UNCHANGED vars => Inv'
  <1> SUFFICES ASSUME Inv, UNCHANGED vars PROVE Inv'
      OBVIOUS
  <1> USE DEF vars, source, target, importer, snapshot
  <1>1. TypeOK'
    BY DEF Inv, TypeOK, SourceTypes, TargetTypes, ImporterTypes
  <1>2. Control' /\ SmallInv'
    BY ZenonT(30), HeldKept DEF Inv, Control, SmallInv, TargetOpen
  <1>3. JobsInv' /\ BaseInv' /\ CoverInv' /\ ViewInv' /\ ReplayInv'
    BY HeldKept DEF Inv, JobsInv, BaseInv, CoverInv, Reaches, Behind, ViewInv, Floor, ReplayInv, UniqueJobs, TargetOpen
  <1>4. EventInv' /\ EventIdsApart' /\ HistoryWhole'
    BY DEF Inv, EventInv, EventIdsApart, HistoryWhole, TargetOpen
  <1>q. QED  BY <1>1, <1>2, <1>3, <1>4 DEF Inv

-----------------------------------------------------------------------------
(* A source that was never prepared and an empty target.                   *)
LEMMA InitInv == Init => Inv
  <1> SUFFICES ASSUME Init PROVE Inv
      OBVIOUS
  <1> USE SizesAssumption
  <1>1. TypeOK
    <2>1. NoRows \in Table /\ NoTables \in [Tables -> Content]
      BY DEF NoRows, NoTables, Table
    <2>2. hist.rows = Cardinality({e \in events : e <= hist.cursor})
      <3>1. \A e \in events : ~(e <= 0)
        BY DEF Init, EventIds
      <3>2. {e \in events : e <= hist.cursor} = {}
        BY Zenon, <3>1 DEF Init
      <3>q. QED  BY Zenon, <3>2, FS_EmptySet DEF Init
    <2>3. SourceTypes
      BY DEF Init, SourceTypes, EventIds
    <2>4. base \in [cursor : 0 .. upper, done : BOOLEAN]
      BY DEF Init
    <2>5. TargetTypes
      BY <2>1, <2>2, <2>4 DEF Init, TargetTypes, EventIds
    <2>6. reading \in BOOLEAN
      BY Zenon DEF Init
    <2>7. ImporterTypes
      BY <2>1, <2>6 DEF Init, ImporterTypes, Modes, Pcs
    <2>q. QED  BY <2>3, <2>5, <2>7 DEF TypeOK
  <1>2. Control
    BY DEF Init, Control, TargetOpen
  <1>3. JobsInv /\ BaseInv
    BY DEF Init, JobsInv, BaseInv, UniqueJobs, NoRows
  <1>4. CoverInv /\ ViewInv /\ ReplayInv
    BY DEF Init, CoverInv, ViewInv, ReplayInv
  <1>5. SmallInv /\ EventInv /\ EventIdsApart /\ HistoryWhole
    BY DEF Init, SmallInv, EventInv, EventIdsApart, HistoryWhole, TargetOpen, EventIds
  <1>q. QED  BY <1>1, <1>2, <1>3, <1>4, <1>5 DEF Inv

-----------------------------------------------------------------------------
(* Types                                                                   *)

(* The writes of the services keep the types.                              *)
LEMMA ServiceTypes ==
  ASSUME Inv, Service
  PROVE  TypeOK'
  <1> USE SizesAssumption DEF TypeOK
  <1>0. TypeOK
    BY DEF Inv
  <1>1. ASSUME NEW id \in Ids, NEW row \in Row \cup {Absent}, SourceRequest(id, row)
        PROVE  TypeOK'
    <2>1. journal' \in Seq(Ids) /\ Len(journal) <= Len(journal')
      BY <1>0, <1>1, JournaledFacts DEF SourceRequest, SourceTypes
    <2>2. SourceTypes'
      BY <1>0, <1>1, <2>1 DEF SourceRequest, SourceTypes, Table
    <2>3. TargetTypes'
      BY <1>0, <1>1, <2>1 DEF SourceRequest, SourceTypes, TargetTypes, target
    <2>4. ImporterTypes'
      BY <1>0, <1>1 DEF SourceRequest, ImporterTypes, importer, snapshot
    <2>q. QED  BY <2>2, <2>3, <2>4
  <1>2. ASSUME NEW t \in Tables, NEW c \in Content, SourceSmall(t, c)
        PROVE  TypeOK'
    BY <1>0, <1>2 DEF SourceSmall, SourceTypes, TargetTypes, ImporterTypes, target, importer, snapshot
  <1>3. CASE SourceEvent
    <2>1. SourceTypes'
      BY <1>0, <1>3 DEF SourceEvent, SourceTypes, EventIds
    <2>2. {e \in events' : e <= hist'.cursor} = {e \in events : e <= hist.cursor}
      BY <1>0, <1>3 DEF SourceEvent, SourceTypes, TargetTypes, EventIds, target
    <2>3. hist' \in [cursor : 0 .. eseq', rows : Nat] /\ watermark' \in 0 .. eseq'
      BY <1>0, <1>3 DEF SourceEvent, SourceTypes, TargetTypes, EventIds, target
    <2>4. TargetTypes'
      BY Zenon, <1>0, <1>3, <2>2, <2>3 DEF SourceEvent, TargetTypes, target
    <2>5. ImporterTypes'
      BY <1>0, <1>3 DEF SourceEvent, ImporterTypes, importer, snapshot
    <2>q. QED  BY <2>1, <2>4, <2>5
  <1>4. ASSUME NEW id \in Ids, NEW row \in Row \cup {Absent}, TargetRequest(id, row)
        PROVE  TypeOK'
    BY <1>0, <1>4 DEF TargetRequest, SourceTypes, TargetTypes, ImporterTypes, Table, source, importer, snapshot
  <1>5. ASSUME NEW t \in Tables, NEW c \in Content, TargetSmall(t, c)
        PROVE  TypeOK'
    BY <1>0, <1>5 DEF TargetSmall, SourceTypes, TargetTypes, ImporterTypes, source, importer, snapshot
  <1>6. CASE TargetEvent
    <2>1. tseq' \in EventIds \cup {0} /\ tevents' \in [EventIds -> {"no", "src", "pg"}]
      BY <1>0, <1>6 DEF TargetEvent, TargetTypes, EventIds
    <2>q. QED
      BY <1>0, <1>6, <2>1 DEF TargetEvent, SourceTypes, TargetTypes, ImporterTypes, source, importer, snapshot
  <1>q. QED  BY <1>1, <1>2, <1>3, <1>4, <1>5, <1>6 DEF Service

(* Every command starts with types that are right, and prepare keeps them. *)
LEMMA StartTypes ==
  ASSUME Inv, Start \/ Install \/ Schema
  PROVE  TypeOK'
  <1> USE SizesAssumption DEF TypeOK
  <1>0. TypeOK
    BY DEF Inv
  <1>1. CASE Start
    <2>1. UNCHANGED <<source, target, snapshot, stray, writes>> /\ mode' \in Modes /\ pc' \in Pcs
      BY <1>1 DEF Start, StartPrepare, StartSync, StartCutover, StartResume, StartBackfill, Begin,
                  Modes, Pcs
    <2>2. todo' \subseteq Tables /\ up' \in Nat
      BY <1>0, <1>1 DEF Start, StartPrepare, StartSync, StartCutover, StartResume, StartBackfill,
                        SourceTypes, TargetTypes, ImporterTypes, EventIds
    <2>q. QED
      BY ZenonT(30), <1>0, <2>1, <2>2 DEF SourceTypes, TargetTypes, ImporterTypes, source, target, snapshot
  <1>2. CASE Install
    <2>1. upper' \in Ids \cup {0}
      <3>1. Rows(req) \in SUBSET (0 .. Requests)
        BY DEF Rows, Ids
      <3>2. Rows(req) # {} => Max(Rows(req)) \in Ids
        BY Zenon, <3>1, MaxFacts DEF Rows
      <3>q. QED  BY <1>2, <3>2 DEF Install
    <2>2. base' \in [cursor : 0 .. upper', done : BOOLEAN]
      <3>1. base = [cursor |-> 0, done |-> FALSE]
        BY <1>2 DEF Inv, Control, Install
      <3>2. 0 \in 0 .. upper'
        BY SMTT(20), <2>1 DEF Ids
      <3>q. QED  BY ZenonT(30), <1>2, <3>1, <3>2 DEF Install, target
    <2>3. SourceTypes' /\ TargetTypes'
      BY <1>0, <1>2, <2>1, <2>2 DEF Install, SourceTypes, TargetTypes, target
    <2>4. ImporterTypes'
      BY ZenonT(30), <1>0, <1>2 DEF Install, ImporterTypes, snapshot, Pcs
    <2>q. QED  BY <2>3, <2>4
  <1>3. CASE Schema
    BY <1>0, <1>3 DEF Schema, Idle, SourceTypes, TargetTypes, ImporterTypes, source, snapshot, Modes, Pcs
  <1>q. QED  BY <1>1, <1>2, <1>3

(* The two pages are made of keys.                                         *)
LEMMA BasePageFacts ==
  ASSUME TypeOK, NEW l, l = Last(BasePage, base.cursor)
  PROVE  /\ BasePage \subseteq Ids
         /\ \A k \in BasePage : base.cursor < k /\ k <= upper /\ k <= l
         /\ l \in Nat /\ base.cursor <= l /\ l <= upper
         /\ \A k \in Ids : base.cursor < k /\ k <= upper /\ k <= l /\ view[k] # Absent => k \in BasePage
  <1> USE SizesAssumption
  <1>1. Rows(view) \in SUBSET Nat /\ base.cursor \in 0 .. upper /\ upper \in Nat
    BY DEF TypeOK, SourceTypes, TargetTypes, Rows, Ids
  <1>2. /\ BasePage \subseteq Rows(view)
        /\ \A k \in BasePage : base.cursor < k /\ k <= upper /\ k <= l
        /\ l \in Nat /\ base.cursor <= l
        /\ l = base.cursor \/ (l \in Rows(view) /\ l <= upper)
        /\ \A k \in Rows(view) : base.cursor < k /\ k <= upper /\ k <= l => k \in BasePage
    <2>1. base.cursor \in Nat
      BY <1>1
    <2>2. IsPage(Rows(view), base.cursor, upper, BasePage, l)
      BY <1>1, <2>1, PageFacts, Zenon DEF BasePage
    <2>q. QED  BY <2>2, Zenon DEF IsPage
  <1>q. QED  BY <1>1, <1>2 DEF Rows

\* A page of change events comes after the mark it was asked from, in order of id.
LEMMA EventPageFacts ==
  ASSUME TypeOK, NEW l, l = Last(EventPage, hist.cursor)
  PROVE  /\ EventPage \subseteq events
         /\ \A k \in EventPage : hist.cursor < k /\ k <= up /\ k <= l
         /\ l \in 0 .. eseq /\ hist.cursor <= l
         /\ l = hist.cursor \/ l <= up
         /\ \A k \in events : hist.cursor < k /\ k <= up /\ k <= l => k \in EventPage
  <1>1. events \in SUBSET Nat /\ hist.cursor \in 0 .. eseq /\ eseq \in Nat /\ up \in Nat /\ events \subseteq 1 .. eseq
    BY SizesAssumption DEF TypeOK, SourceTypes, TargetTypes, ImporterTypes, EventIds
  <1>2. /\ EventPage \subseteq events
        /\ \A k \in EventPage : hist.cursor < k /\ k <= up /\ k <= l
        /\ l \in Nat /\ hist.cursor <= l
        /\ l = hist.cursor \/ (l \in events /\ l <= up)
        /\ \A k \in events : hist.cursor < k /\ k <= up /\ k <= l => k \in EventPage
    <2>1. hist.cursor \in Nat
      BY <1>1
    <2>2. IsPage(events, hist.cursor, up, EventPage, l)
      BY <1>1, <2>1, PageFacts, Zenon DEF EventPage
    <2>q. QED  BY <2>2, Zenon DEF IsPage
  <1>q. QED  BY <1>1, <1>2

\* A replay batch takes the journal from the cursor up to a point it moves the cursor to.
LEMMA ReplayFacts ==
  ASSUME TypeOK, up <= Len(journal), cursor < up
  PROVE  /\ ReplayKeys \subseteq Ids
         /\ ReplayLast \in Nat /\ cursor < ReplayLast /\ ReplayLast <= up
         /\ \A k \in 1 .. Len(journal) : cursor < k /\ k <= ReplayLast => journal[k] \in ReplayKeys
  <1>1. cursor \in Nat /\ up \in Nat /\ Len(journal) \in Nat /\ BatchSize \in Nat \ {0} /\ journal \in Seq(Ids)
    BY SizesAssumption DEF TypeOK, SourceTypes, TargetTypes, ImporterTypes
  <1>2. ReplayLast \in Nat /\ cursor < ReplayLast /\ ReplayLast <= up
    BY <1>1 DEF ReplayLast
  <1>q. QED  BY <1>1, <1>2 DEF ReplayKeys

(* Copying and replaying keep the types.                                   *)
LEMMA CopyTypes ==
  ASSUME Inv, Copy
  PROVE  TypeOK'
  <1> USE SizesAssumption
  <1>0. TypeOK /\ JobsInv /\ Control /\ ReplayInv
    BY DEF Inv
  <1>1. NoRows \in Table /\ NoTables \in [Tables -> Content]
    BY ZenonT(30) DEF NoRows, NoTables, Table
  <1>2. SourceTypes'
    BY Zenon, <1>0 DEF TypeOK, SourceTypes, Copy, Read, SmallCommit, SmallDone, BaseCommit, BaseDone,
                Upper, ReplayCommit, ReplayDone, source
  <1>3. ImporterTypes'
    <2> USE DEF TypeOK, ImporterTypes
    <2>1. CASE Read
      <3>1. view' = Held /\ viewSmall' = HeldSmall
        BY <2>1 DEF Read, Held, HeldSmall
      <3>q. QED  BY Zenon, <1>0, <2>1, <3>1, HeldFacts DEF Read
    <2>2. CASE SmallCommit \/ BaseCommit \/ ReplayCommit
      BY Zenon, <1>0, <1>1, <2>2 DEF SmallCommit, BaseCommit, ReplayCommit, EndRead
    <2>3. CASE SmallDone \/ BaseDone
      BY Zenon, <1>0, <2>3 DEF SmallDone, BaseDone, Pcs, snapshot
    <2>4. CASE Upper
      BY <1>0, <2>4 DEF Upper, Pcs, snapshot, SourceTypes
    <2>5. CASE ReplayDone
      <3>1. events # {} => Max(events) \in Nat
        <4>1. eseq \in Nat /\ events \in SUBSET (0 .. eseq)
          BY <1>0 DEF SourceTypes, EventIds
        <4>2. events # {} => Max(events) \in events
          BY Zenon, <4>1, MaxFacts
        <4>3. \A x \in events : x \in Nat
          BY <4>1
        <4>q. QED  BY <4>2, <4>3
      <3>2. up' \in Nat
        BY <1>0, <2>5, <3>1 DEF ReplayDone, Idle
      <3>3. mode' \in Modes /\ pc' \in Pcs /\ todo' \subseteq Tables
        BY Zenon, <1>0, <2>5 DEF ReplayDone, Idle, Pcs, Modes
      <3>q. QED  BY <1>0, <2>5, <3>2, <3>3 DEF ReplayDone, snapshot
    <2>q. QED  BY Zenon, <2>1, <2>2, <2>3, <2>4, <2>5 DEF Copy
  <1>4. TargetTypes'
    <2> USE DEF TypeOK, TargetTypes, source
    <2>1. CASE Read \/ SmallDone \/ BaseDone \/ Upper \/ ReplayDone
      BY Zenon, <1>0, <2>1 DEF Read, SmallDone, BaseDone, Upper, ReplayDone, target
    <2>2. CASE SmallCommit
      BY ZenonT(30), <1>0, <2>2 DEF SmallCommit, ImporterTypes
    <2>3. CASE BaseCommit
      <3>1. BasePage \subseteq Ids /\ Last(BasePage, base.cursor) \in 0 .. upper
        <4>1. upper \in Nat
          BY <1>0 DEF SourceTypes, Ids
        <4>q. QED  BY <1>0, <4>1, BasePageFacts, SMTT(30)
      <3>2. Written(BasePage) \in Table
        BY <1>0, <3>1, WrittenFacts DEF JobsInv, ImporterTypes
      <3>3. base' \in [cursor : 0 .. upper, done : BOOLEAN]
        BY <2>3, <3>1, Zenon DEF BaseCommit
      <3>q. QED  BY ZenonT(30), <1>0, <2>3, <3>2, <3>3 DEF BaseCommit
    <2>4. CASE ReplayCommit
      <3>1. /\ ReplayKeys \subseteq Ids
            /\ ReplayLast \in 0 .. Len(journal)
        <4>1. up <= Len(journal) /\ cursor < up /\ up \in Nat /\ Len(journal) \in Nat
          BY <1>0, <2>4 DEF ReplayCommit, ReplayInv, ImporterTypes, SourceTypes
        <4>q. QED  BY SMTT(20), <1>0, <2>4, <4>1, ReplayFacts DEF ReplayCommit
      <3>2. Written(ReplayKeys) \in Table
        BY <1>0, <3>1, WrittenFacts DEF JobsInv, ImporterTypes
      <3>q. QED  BY ZenonT(30), <1>0, <2>4, <3>1, <3>2 DEF ReplayCommit
    <2>q. QED  BY <2>1, <2>2, <2>3, <2>4 DEF Copy
  <1>q. QED  BY <1>2, <1>3, <1>4 DEF TypeOK

(* Cutover, the copy of the events and failures keep the types.            *)
LEMMA CutoverTypes ==
  ASSUME Inv, Cutover
  PROVE  TypeOK'
  <1> USE SizesAssumption DEF TypeOK
  <1>0. TypeOK
    BY DEF Inv
  <1>1. CASE Seal \/ Unseal
    <2>1. SourceTypes' /\ TargetTypes'
      BY ZenonT(30), <1>0, <1>1 DEF Seal, Unseal, Fenced, SourceTypes, TargetTypes, target
    <2>2. mode' \in Modes /\ pc' \in Pcs /\ todo' \subseteq Tables /\ up' \in Nat
      BY <1>0, <1>1 DEF Seal, Unseal, Idle, ImporterTypes, Modes, Pcs
    <2>3. ImporterTypes'
      BY ZenonT(60), <1>0, <1>1, <2>2 DEF Seal, Unseal, ImporterTypes, snapshot
    <2>q. QED  BY <2>1, <2>3
  <1>2. CASE Verify
    <2>1. SourceTypes'
      BY <1>0, <1>2 DEF Verify, SourceTypes, source
    <2>2. TargetTypes'
      BY <1>0, <1>2 DEF Verify, Watermark, Reserved, SourceTypes, TargetTypes, source, EventIds
    <2>3. ImporterTypes'
      BY <1>0, <1>2 DEF Verify, Idle, ImporterTypes, snapshot, Modes, Pcs
    <2>q. QED  BY <2>1, <2>2, <2>3
  <1>q. QED  BY <1>1, <1>2 DEF Cutover

\* Copying the event history keeps the types.
LEMMA HistoryTypes ==
  ASSUME Inv, History
  PROVE  TypeOK'
  <1> USE SizesAssumption
  <1>0. TypeOK
    BY DEF Inv
  <1>1. SourceTypes'
    BY <1>0 DEF TypeOK, History, EventsCommit, Count, SourceTypes, source
  <1>2. ImporterTypes'
    BY <1>0 DEF TypeOK, History, EventsCommit, Count, Idle, ImporterTypes, snapshot, Modes, Pcs
  <1>3. CASE Count
    BY ZenonT(30), <1>0, <1>1, <1>2, <1>3 DEF TypeOK, Count, TargetTypes, source
  <1>4. CASE EventsCommit
    <2> DEFINE l == Last(EventPage, hist.cursor)
               A == {e \in events : e <= hist.cursor}
               B == {e \in events : e <= l}
    <2>1. /\ EventPage \subseteq events
          /\ \A k \in EventPage : hist.cursor < k /\ k <= up /\ k <= l
          /\ l \in 0 .. eseq /\ hist.cursor <= l
          /\ l = hist.cursor \/ l <= up
          /\ \A k \in events : hist.cursor < k /\ k <= up /\ k <= l => k \in EventPage
      BY <1>0, EventPageFacts
    <2> HIDE DEF l
    <2>2. eseq \in Nat /\ events \subseteq 1 .. eseq /\ up \in Nat /\ hist.cursor \in 0 .. eseq
      BY <1>0 DEF TypeOK, SourceTypes, TargetTypes, ImporterTypes, EventIds
    <2>3. IsFiniteSet(events) /\ IsFiniteSet(EventPage) /\ IsFiniteSet(A)
      <3>1. IsFiniteSet(1 .. eseq)
        BY <2>2, FS_Interval
      <3>2. events \in SUBSET (1 .. eseq) /\ EventPage \in SUBSET events /\ A \in SUBSET events
        BY <2>1, <2>2
      <3>3. IsFiniteSet(events)
        BY Zenon, <3>1, <3>2, FS_Subset
      <3>q. QED  BY Zenon, <3>2, <3>3, FS_Subset
    <2>4. B = A \cup EventPage /\ A \cap EventPage = {}
      <3>1. \A e \in events : e \in B <=> e \in A \/ e \in EventPage
        BY <2>1, <2>2
      <3>2. \A e \in EventPage : e \notin A
        BY <2>1, <2>2
      <3> HIDE DEF A, B
      <3>3. A \subseteq events /\ B \subseteq events
        BY DEF A, B
      <3>q. QED  BY <2>1, <3>1, <3>2, <3>3
    <2>5. Cardinality(B) = Cardinality(A) + Cardinality(EventPage) /\ Cardinality(EventPage) \in Nat
      <3> HIDE DEF A, B
      <3>1. /\ Cardinality(A \cup EventPage) = Cardinality(A) + Cardinality(EventPage) - Cardinality(A \cap EventPage)
            /\ Cardinality(A) \in Nat /\ Cardinality(EventPage) \in Nat
        BY ZenonT(30), <2>3, FS_Union, FS_CardinalityType
      <3>q. QED  BY <2>4, <3>1, FS_EmptySet
    <2>6. hist' \in [cursor : 0 .. eseq, rows : Nat]
      BY SMTT(20), <1>0, <1>4, <2>1, <2>5 DEF EventsCommit, Progress, l, TypeOK, TargetTypes
    <2>7. hist'.rows = Cardinality(B) /\ hist'.cursor = l
      BY <1>0, <1>4, <2>5 DEF EventsCommit, Progress, l, TypeOK, TargetTypes
    <2>8. tevents' \in [EventIds -> {"no", "src", "pg"}]
      BY ZenonT(30), <1>0, <1>4 DEF EventsCommit, TypeOK, TargetTypes
    <2>9. TargetTypes'
      <3> HIDE DEF A
      <3> QED  BY <1>0, <1>4, <2>6, <2>7, <2>8 DEF EventsCommit, TypeOK, TargetTypes, source
    <2>q. QED  BY <1>1, <1>2, <2>9 DEF TypeOK
  <1>q. QED  BY <1>3, <1>4 DEF History

\* A stop, a lost connection and a stray write keep the types.
LEMMA FailureTypes ==
  ASSUME Inv, Stop \/ Loss \/ Stray
  PROVE  TypeOK'
  <1>0. TypeOK
    BY DEF Inv
  <1>1. NoRows \in Table /\ NoTables \in [Tables -> Content]
    BY SizesAssumption DEF NoRows, NoTables, Table
  <1>2. SourceTypes' /\ TargetTypes'
    BY Zenon, <1>0 DEF Stop, Loss, Stray, Fenced, TypeOK, SourceTypes, TargetTypes, source, target
  <1>3. ImporterTypes'
    <2> USE <1>0 DEF TypeOK, ImporterTypes
    <2>1. CASE Stop
      BY Zenon, <1>1, <2>1 DEF Stop, Idle, EndRead, Modes, Pcs
    <2>2. CASE Loss
      BY Zenon, <2>2 DEF Loss, Idle, snapshot, Modes, Pcs
    <2>3. CASE Stray
      BY <2>3 DEF Stray, importer, snapshot
    <2>q. QED  BY <2>1, <2>2, <2>3
  <1>q. QED  BY <1>2, <1>3 DEF TypeOK

-----------------------------------------------------------------------------
(* Every step keeps the types.                                             *)
LEMMA TypeStep == Inv /\ [Next]_vars => TypeOK'
  <1> SUFFICES ASSUME Inv, [Next]_vars PROVE TypeOK'
      OBVIOUS
  <1>1. CASE Next
    BY <1>1, ServiceTypes, StartTypes, CopyTypes, CutoverTypes, HistoryTypes, FailureTypes DEF Next
  <1>q. QED  BY <1>1, Stutter DEF Inv

(* Every step keeps the phases consistent with what the command is at.     *)
LEMMA ControlStep ==
  ASSUME NoLateUnseal, Inv, Next
  PROVE  Control'
  <1> USE DEF Control, TargetOpen
  <1>0. Control /\ TypeOK
    BY ZenonT(30) DEF Inv
  <1>1. CASE Service
    <2>1. /\ UNCHANGED <<srcPhase, phase, upper, cursor, base, hist, stray, pc, mode, reading>>
          /\ srcPhase = "none" => UNCHANGED journal
          /\ phase = "none" => UNCHANGED treq
      BY Zenon, <1>1 DEF Service, SourceRequest, SourceSmall, SourceEvent, TargetRequest, TargetSmall,
                  TargetEvent, Journaled, source, target, importer, snapshot
    <2>q. QED  BY <1>0, <2>1
  <1>2. CASE StartPrepare
    BY ZenonT(30), <1>0, <1>2 DEF StartPrepare, Begin, source, target, snapshot
  <1>3. CASE StartSync
    BY ZenonT(30), <1>0, <1>3 DEF StartSync, Begin, source, target, snapshot
  <1>4. CASE StartCutover
    BY <1>0, <1>4 DEF StartCutover, Prepared, Consistent, Begin, source, target, snapshot
  <1>5. CASE StartResume
    BY ZenonT(30), <1>0, <1>5 DEF StartResume, Prepared, Consistent, Begin, source, target, snapshot
  <1>6. CASE StartBackfill
    BY ZenonT(30), <1>0, <1>6 DEF StartBackfill, Begin, source, target, snapshot
  <1>7. CASE Install
    BY <1>0, <1>7 DEF Install, target, snapshot
  <1>8. CASE Schema
    BY ZenonT(30), <1>0, <1>8 DEF Schema, Idle, source, snapshot
  <1>9. CASE Read
    BY <1>0, <1>9 DEF Read, source, target
  <1>10. CASE SmallCommit
    BY ZenonT(30), <1>0, <1>10 DEF SmallCommit, EndRead, source
  <1>11. CASE SmallDone
    BY ZenonT(30), <1>0, <1>11 DEF SmallDone, source, target, snapshot
  <1>12. CASE BaseCommit
    BY ZenonT(30), <1>0, <1>12 DEF BaseCommit, EndRead, source
  <1>13. CASE BaseDone
    BY ZenonT(30), <1>0, <1>13 DEF BaseDone, source, target, snapshot
  <1>14. CASE Upper
    BY <1>0, <1>14 DEF Upper, source, target, snapshot
  <1>15. CASE ReplayCommit
    BY ZenonT(30), <1>0, <1>15 DEF ReplayCommit, EndRead, source
  <1>16. CASE ReplayDone
    BY ZenonT(30), <1>0, <1>16 DEF ReplayDone, Idle, source, target, snapshot
  <1>17. CASE Seal
    BY ZenonT(30), <1>0, <1>17 DEF Seal, Fenced, target, snapshot
  <1>18. CASE Verify
    BY <1>0, <1>18 DEF Verify, Idle, source, snapshot
  <1>19. CASE Unseal
    BY ZenonT(30), <1>0, <1>19 DEF Unseal, Fenced, Idle, target, snapshot
  <1>20. CASE EventsCommit
    BY ZenonT(30), <1>0, <1>20 DEF EventsCommit, Idle, source, snapshot
  <1>21. CASE Count
    BY ZenonT(30), <1>0, <1>21 DEF Count, Idle, source, snapshot
  <1>22. CASE Stop
    BY <1>0, <1>22 DEF Stop, Idle, EndRead, source, target
  <1>23. CASE Loss
    BY ZenonT(30), <1>0, <1>23, SizesAssumption DEF Loss, NoLateUnseal, Idle, source, target, snapshot
  <1>24. CASE Stray
    BY ZenonT(30), <1>0, <1>24, SizesAssumption DEF Stray, Fenced, target, importer, snapshot, TypeOK, ImporterTypes
  <1>q. QED
    BY ZenonT(60), <1>1, <1>2, <1>3, <1>4, <1>5, <1>6, <1>7, <1>8, <1>9, <1>10, <1>11, <1>12, <1>13, <1>14, <1>15,
       <1>16, <1>17, <1>18, <1>19, <1>20, <1>21, <1>22, <1>23, <1>24
       DEF Next, Start, Copy, Cutover, History

-----------------------------------------------------------------------------
(* Requests                                                                *)

ChangesRequests ==
    \/ \E id \in Ids, row \in Row \cup {Absent} : SourceRequest(id, row) \/ TargetRequest(id, row)
    \/ Install \/ BaseCommit \/ ReplayCommit

(* What all other steps leave alone.                                       *)
LEMMA RequestsFrame ==
  ASSUME Inv, Next, ~ChangesRequests
  PROVE  /\ UNCHANGED <<req, Held, treq, journal, upper, cursor, base>>
         /\ srcPhase = "none" => srcPhase' = "none"
         /\ TargetOpen => TargetOpen'
  <1> USE HeldKept DEF source, target, importer, snapshot
  <1>0. Control
    BY DEF Inv
  <1>1. CASE Service
    BY ZenonT(30), <1>1 DEF ChangesRequests, Service, SourceSmall, SourceEvent, TargetSmall, TargetEvent, TargetOpen
  <1>2. CASE Start
    BY <1>2 DEF Start, StartPrepare, StartSync, StartCutover, StartResume, StartBackfill, Begin, TargetOpen
  <1>3. CASE Schema
    BY ZenonT(30), <1>0, <1>3 DEF Schema, Control, TargetOpen
  <1>4. CASE Copy
    BY ZenonT(30), <1>4 DEF ChangesRequests, Copy, Read, SmallCommit, SmallDone, BaseDone, Upper, ReplayDone, TargetOpen
  <1>5. CASE Cutover
    BY ZenonT(30), <1>0, <1>5 DEF Cutover, Seal, Verify, Unseal, Control, TargetOpen
  <1>6. CASE History
    BY Zenon, <1>6 DEF History, EventsCommit, Count, TargetOpen
  <1>7. CASE Stop \/ Loss
    BY <1>7 DEF Stop, Loss, TargetOpen
  <1>8. CASE Stray
    BY ZenonT(30), <1>0, <1>8 DEF Stray, Control, TargetOpen
  <1>q. QED  BY <1>1, <1>2, <1>3, <1>4, <1>5, <1>6, <1>7, <1>8 DEF Next, ChangesRequests

(* When a read transaction is open after a step, it was before or has just *)
(* begun.                                                                  *)
LEMMA ReadFrame ==
  ASSUME Inv, Next
  PROVE  \/ ~reading'
         \/ Read
         \/ reading /\ Service /\ UNCHANGED <<pc, up, view, viewSmall, mode, cursor, todo>>
         \/ reading /\ Stray /\ UNCHANGED <<pc, up, view, viewSmall, mode, cursor, todo>>
  <1> USE DEF source, target, importer, snapshot
  <1>0. Control
    BY DEF Inv
  <1>1. CASE Service
    <2>1. UNCHANGED <<pc, up, view, viewSmall, reading, mode, cursor, todo>>
      BY ZenonT(60), <1>1 DEF Service, SourceRequest, TargetRequest, SourceSmall, SourceEvent, TargetSmall, TargetEvent
    <2>q. QED  BY <1>1, <2>1
  <1>2. CASE Start
    BY ZenonT(30), <1>0, <1>2 DEF Start, StartPrepare, StartSync, StartCutover, StartResume, StartBackfill, Begin, Control
  <1>3. CASE Install \/ Schema
    BY ZenonT(30), <1>0, <1>3 DEF Install, Schema, Control
  <1>4. CASE Copy
    BY ZenonT(30), <1>0, <1>4 DEF Copy, SmallCommit, SmallDone, BaseCommit, BaseDone, Upper, ReplayCommit, ReplayDone,
                      EndRead, Control
  <1>5. CASE Cutover
    BY ZenonT(30), <1>0, <1>5 DEF Cutover, Seal, Verify, Unseal, Control
  <1>6. CASE History
    BY <1>0, <1>6 DEF History, EventsCommit, Count, Control
  <1>7. CASE Stop
    BY ZenonT(30), <1>7 DEF Stop, EndRead
  <1>8. CASE Loss
    BY ZenonT(30), <1>0, <1>8, SizesAssumption DEF Loss, Control
  <1>9. CASE Stray
    BY ZenonT(30), <1>9 DEF Stray
  <1>q. QED  BY ZenonT(30), <1>1, <1>2, <1>3, <1>4, <1>5, <1>6, <1>7, <1>8, <1>9 DEF Next

(* What the two kinds of batches find.                                     *)
LEMMA BaseBatch ==
  ASSUME Inv, BaseCommit
  PROVE  /\ phase = "copying" /\ phase' = phase /\ srcPhase # "none" /\ ~base.done /\ cursor = 0
         /\ UniqueJobs(Written(BasePage)) /\ Written(BasePage) \in Table
         /\ BasePage \subseteq Ids
  <1>1. TypeOK /\ Control /\ JobsInv /\ BaseInv
    BY ZenonT(30) DEF Inv
  <1>2. phase = "copying" /\ phase' = phase /\ srcPhase # "none" /\ ~base.done /\ cursor = 0
    BY <1>1 DEF BaseCommit, Control, BaseInv
  <1>3. BasePage \subseteq Ids
    BY ZenonT(30), <1>1, BasePageFacts
  <1>q. QED  BY <1>1, <1>2, <1>3, WrittenFacts DEF JobsInv, TypeOK, TargetTypes, ImporterTypes

\* What holds when a replay batch commits.
LEMMA ReplayBatch ==
  ASSUME Inv, ReplayCommit
  PROVE  /\ phase = "copying" /\ phase' = phase /\ srcPhase # "none" /\ base.done
         /\ UniqueJobs(Written(ReplayKeys)) /\ Written(ReplayKeys) \in Table
         /\ ReplayKeys \subseteq Ids
         /\ up <= Len(journal) /\ cursor < up
  <1>1. TypeOK /\ Control /\ JobsInv /\ ReplayInv
    BY ZenonT(30) DEF Inv
  <1>2. phase = "copying" /\ phase' = phase /\ srcPhase # "none" /\ base.done
    BY <1>1 DEF ReplayCommit, Control
  <1>3. up <= Len(journal) /\ cursor < up
    BY <1>1 DEF ReplayCommit, ReplayInv
  <1>4. ReplayKeys \subseteq Ids
    BY ZenonT(30), <1>1, <1>3, ReplayFacts
  <1>q. QED  BY <1>1, <1>2, <1>3, <1>4, WrittenFacts DEF JobsInv, TypeOK, TargetTypes, ImporterTypes

(* Every step keeps the unique jobs.                                       *)
LEMMA JobsStep ==
  ASSUME Inv, Next
  PROVE  JobsInv'
  <1>0. JobsInv
    BY DEF Inv
  <1>1. UniqueJobs(NoRows)
    BY DEF UniqueJobs, NoRows
  <1>2. UniqueJobs(req')
    <2>1. CASE UNCHANGED req
      BY <1>0, <2>1 DEF JobsInv
    <2>2. CASE \E id \in Ids, row \in Row \cup {Absent} : SourceRequest(id, row)
      BY <2>2 DEF SourceRequest
    <2>3. CASE ChangesRequests
      BY Zenon, <2>1, <2>2, <2>3 DEF ChangesRequests, TargetRequest, Install, BaseCommit, ReplayCommit, source
    <2>q. QED  BY <2>1, <2>3, RequestsFrame
  <1>3. UniqueJobs(treq')
    <2>1. CASE UNCHANGED treq
      BY <1>0, <2>1 DEF JobsInv
    <2>2. CASE \E id \in Ids, row \in Row \cup {Absent} : TargetRequest(id, row)
      BY <2>2 DEF TargetRequest
    <2>3. CASE ChangesRequests
      BY ZenonT(60), <2>1, <2>2, <2>3 DEF ChangesRequests, SourceRequest, Install, BaseCommit, ReplayCommit, target
    <2>q. QED  BY <2>1, <2>3, RequestsFrame
  <1>4. UniqueJobs(view')
    <2>1. CASE UNCHANGED view
      BY <1>0, <2>1 DEF JobsInv
    <2>2. CASE view' = NoRows
      BY <1>1, <2>2
    <2>3. CASE Read
      <3>1. view' = Held
        BY <2>3 DEF Read, Held
      <3>2. UniqueJobs(Held)
        BY Zenon, <1>0, HeldFacts DEF JobsInv, Inv
      <3>q. QED  BY <3>1, <3>2
    <2>4. UNCHANGED view \/ view' = NoRows \/ Read
      <3> USE DEF source, target, importer, snapshot
      <3>1. CASE Service
        BY ZenonT(60), <3>1 DEF Service, SourceRequest, TargetRequest, SourceSmall, SourceEvent, TargetSmall, TargetEvent
      <3>2. CASE Start \/ Install \/ Schema
        BY ZenonT(30), <3>2 DEF Start, StartPrepare, StartSync, StartCutover, StartResume, StartBackfill, Begin,
                    Install, Schema
      <3>3. CASE Copy
        BY ZenonT(30), <3>3 DEF Copy, SmallCommit, SmallDone, BaseCommit, BaseDone, Upper, ReplayCommit, ReplayDone, EndRead
      <3>4. CASE Cutover \/ History
        BY ZenonT(30), <3>4 DEF Cutover, Seal, Verify, Unseal, History, EventsCommit, Count
      <3>5. CASE Stop \/ Loss \/ Stray
        BY <3>5 DEF Stop, Loss, Stray, EndRead
      <3>q. QED  BY <3>1, <3>2, <3>3, <3>4, <3>5 DEF Next
    <2>q. QED  BY <2>1, <2>2, <2>3, <2>4
  <1>q. QED  BY <1>2, <1>3, <1>4 DEF JobsInv, UniqueJobs

-----------------------------------------------------------------------------
(* The copies, the cutover and the refinement                              *)

(* A baseline batch passes over ids that are written or absent.            *)
LEMMA BaseCommitStep ==
  ASSUME Inv, BaseCommit
  PROVE  BaseInv' /\ CoverInv'
  <1> DEFINE l == Last(BasePage, base.cursor)
             w == Written(BasePage)
  <1>1. TypeOK /\ JobsInv /\ BaseInv /\ CoverInv /\ ViewInv
    BY DEF Inv
  <1>2. /\ phase = "copying" /\ phase' = phase /\ srcPhase # "none" /\ ~base.done /\ cursor = 0
        /\ BasePage \subseteq Ids
    BY ZenonT(30), BaseBatch
  <1>3. /\ \A k \in BasePage : base.cursor < k /\ k <= upper /\ k <= l
        /\ l \in Nat /\ base.cursor <= l /\ l <= upper
        /\ \A k \in Ids : base.cursor < k /\ k <= upper /\ k <= l /\ view[k] # Absent => k \in BasePage
    BY ZenonT(30), <1>1, BasePageFacts
  <1>4. \A i \in Ids :
          \/ i \in BasePage /\ w[i] = view[i]
          \/ i \notin BasePage /\ w[i] = treq[i]
          \/ i \notin BasePage /\ w[i] = Absent /\ treq[i] # Absent /\ view[i] # treq[i]
    BY ZenonT(30), <1>1, <1>2, WrittenFacts DEF JobsInv, TypeOK, TargetTypes, ImporterTypes
  <1>5. /\ treq' = w /\ base'.cursor = l
        /\ base'.done = ~\E k \in Rows(view) : l < k /\ k <= upper
        /\ UNCHANGED <<srcPhase, Held, journal, upper, cursor>> /\ reading /\ pc = "base"
    BY HeldKept DEF BaseCommit, source
  <1> HIDE DEF l, w
  <1>6. \A i \in Ids : i > base.cursor => treq[i] = Absent
    BY ZenonT(30), <1>1, <1>2 DEF BaseInv
  <1>7. \A i \in Ids : view[i] # Held[i] => Behind(i, cursor)
    BY <1>1, <1>5 DEF ViewInv, Floor
  <1>8. base.cursor \in Nat /\ upper \in Nat /\ \A i \in Ids : i \in Nat
    BY <1>1, SizesAssumption DEF TypeOK, SourceTypes, TargetTypes, Ids
  <1>9. ASSUME NEW i \in Ids, i > l
        PROVE  w[i] = Absent /\ i \notin BasePage
    BY <1>3, <1>4, <1>6, <1>8, <1>9
  <1>10. BaseInv'
    BY <1>2, <1>5, <1>9 DEF BaseInv
  <1>11. ASSUME NEW i \in Ids, w[i] # Held[i], ~Behind(i, cursor)
         PROVE  ~base'.done /\ l < i /\ i <= upper
    <2>1. view[i] = Held[i]
      BY <1>7, <1>11
    <2>2. i \notin BasePage
      BY ZenonT(30), <1>4, <1>11, <2>1
    <2>3. treq[i] # Held[i]
      BY ZenonT(30), <1>4, <1>11, <2>1, <2>2
    <2>4. base.cursor < i /\ i <= upper
      BY <1>1, <1>2, <1>11, <2>3 DEF CoverInv, Reaches, TargetOpen
    <2>5. treq[i] = Absent /\ w[i] = Absent
      BY ZenonT(30), <1>4, <1>6, <1>8, <2>2, <2>4
    <2>6. view[i] # Absent
      BY <2>1, <2>3, <2>5
    <2>7. l < i
      BY <1>3, <1>8, <2>2, <2>4, <2>6
    <2>8. ~base'.done
      BY ZenonT(30), <1>5, <2>4, <2>6, <2>7 DEF Rows
    <2>q. QED  BY <2>4, <2>7, <2>8
  <1>12. CoverInv'
    BY <1>2, <1>5, <1>11 DEF CoverInv, Reaches, Behind, TargetOpen
  <1>q. QED  BY <1>10, <1>12

(* A replayed batch moves the cursor over keys it has written.             *)
LEMMA ReplayCommitStep ==
  ASSUME Inv, ReplayCommit
  PROVE  BaseInv' /\ CoverInv'
  <1> DEFINE w == Written(ReplayKeys)
  <1>1. TypeOK /\ JobsInv /\ CoverInv /\ ViewInv
    BY DEF Inv
  <1>2. /\ phase = "copying" /\ phase' = phase /\ srcPhase # "none" /\ base.done
        /\ ReplayKeys \subseteq Ids /\ up <= Len(journal) /\ cursor < up
    BY ReplayBatch
  <1>3. /\ ReplayLast \in Nat /\ cursor < ReplayLast /\ ReplayLast <= up
        /\ \A k \in 1 .. Len(journal) : cursor < k /\ k <= ReplayLast => journal[k] \in ReplayKeys
    BY ZenonT(30), <1>1, <1>2, ReplayFacts
  <1>4. \A i \in Ids :
          \/ i \in ReplayKeys /\ w[i] = view[i]
          \/ i \notin ReplayKeys /\ w[i] = treq[i]
          \/ i \notin ReplayKeys /\ w[i] = Absent /\ treq[i] # Absent /\ view[i] # treq[i]
    BY ZenonT(60), <1>1, <1>2, WrittenFacts DEF JobsInv, TypeOK, TargetTypes, ImporterTypes
  <1>5. /\ treq' = w /\ cursor' = ReplayLast
        /\ UNCHANGED <<srcPhase, Held, journal, upper, base>> /\ reading /\ pc = "replay"
    BY HeldKept DEF ReplayCommit, source
  <1> HIDE DEF w
  <1>6. \A i \in Ids : view[i] # Held[i] => Behind(i, up)
    BY ZenonT(30), <1>1, <1>5 DEF ViewInv, Floor
  <1>7. cursor \in Nat /\ up \in Nat /\ Len(journal) \in Nat
    BY <1>1 DEF TypeOK, SourceTypes, TargetTypes, ImporterTypes
  <1>8. ASSUME NEW i \in Ids, w[i] # Held[i]
        PROVE  Behind(i, ReplayLast)
    <2>1. CASE view[i] # Held[i]
      BY <1>3, <1>6, <1>7, <2>1 DEF Behind
    <2>2. CASE view[i] = Held[i]
      <3>1. i \notin ReplayKeys /\ treq[i] # Held[i]
        BY ZenonT(30), <1>4, <1>8, <2>2
      <3>2. Behind(i, cursor)
        BY <1>1, <1>2, <3>1 DEF CoverInv, Reaches, TargetOpen
      <3>3. PICK k \in (cursor + 1) .. Len(journal) : journal[k] = i
        BY <3>2 DEF Behind
      <3>4. k > ReplayLast
        BY <1>3, <1>7, <3>1, <3>3
      <3>q. QED  BY <1>3, <1>7, <3>3, <3>4 DEF Behind
    <2>q. QED  BY <2>1, <2>2
  <1>9. BaseInv'
    BY <1>2, <1>5 DEF BaseInv
  <1>10. CoverInv'
    BY ZenonT(30), <1>5, <1>8 DEF CoverInv, Reaches, Behind
  <1>q. QED  BY <1>9, <1>10

(* What a service writes to the source while it is copied is journaled     *)
(* where neither a cursor nor a batch is yet.                              *)
LEMMA SourceRequestStep ==
  ASSUME Inv, NEW id \in Ids, NEW row \in Row \cup {Absent}, SourceRequest(id, row)
  PROVE  /\ srcPhase = "copying" => \E k \in (Len(journal) + 1) .. Len(journal') : journal'[k] = id
         /\ Len(journal) \in Nat /\ Len(journal') \in Nat /\ Len(journal) <= Len(journal')
         /\ \A k \in 1 .. Len(journal) : journal'[k] = journal[k]
         /\ \A i \in Ids, n \in Nat : Behind(i, n) => Behind(i, n)'
         /\ \A n \in 0 .. Len(journal) : srcPhase = "copying" => Behind(id, n)'
         /\ \A i \in Ids : i # id => Held'[i] = Held[i]
         /\ UNCHANGED <<srcPhase, phase, treq, upper, cursor, base, up, pc, mode, view, reading>>
  <1>1. journal \in Seq(Ids)
    BY ZenonT(30) DEF Inv, TypeOK, SourceTypes
  <1>2. /\ journal' \in Seq(Ids) /\ Len(journal) <= Len(journal')
        /\ \A k \in 1 .. Len(journal) : journal'[k] = journal[k]
        /\ srcPhase = "copying" => \E k \in (Len(journal) + 1) .. Len(journal') : journal'[k] = id
    <2>1. journal' = Journaled(id, row) /\ row # req[id]
      BY DEF SourceRequest
    <2>q. QED  BY <1>1, <2>1, JournaledFacts
  <1>3. Len(journal) \in Nat /\ Len(journal') \in Nat
    <2>1. journal' \in Seq(Ids)
      BY Zenon, <1>2
    <2>q. QED  BY <1>1, <2>1
  <1>4. \A i \in Ids, n \in Nat : Behind(i, n) => Behind(i, n)'
    BY <1>2, <1>3 DEF Behind
  <1>5. \A n \in 0 .. Len(journal) : srcPhase = "copying" => Behind(id, n)'
    BY SMTT(20), <1>2, <1>3 DEF Behind
  <1>6. \A i \in Ids : i # id => Held'[i] = Held[i]
    <2>1. \A i \in Ids : i # id => req'[i] = req[i]
      BY Zenon DEF SourceRequest, Inv, TypeOK, SourceTypes, Table
    <2>2. /\ Held = [i \in Ids |-> Stored(req[i])]
          /\ Held' = [i \in Ids |-> Stored(req'[i])]
      BY DEF Held, Normalized, Stored
    <2>q. QED  BY Zenon, <2>1, <2>2
  <1>7. UNCHANGED <<srcPhase, phase, treq, upper, cursor, base, up, pc, mode, view, reading>>
    BY DEF SourceRequest, target, importer, snapshot
  <1>q. QED  BY <1>2, <1>3, <1>4, <1>5, <1>6, <1>7

(* Every step keeps the baseline in order and the differences within reach.*)
LEMMA CoverStep ==
  ASSUME Inv, Next
  PROVE  BaseInv' /\ CoverInv'
  <1>0. TypeOK /\ Control /\ BaseInv /\ CoverInv
    BY ZenonT(30) DEF Inv
  <1>1. CASE ~ChangesRequests
    BY ZenonT(30), <1>0, <1>1, RequestsFrame DEF BaseInv, CoverInv, Reaches, Behind
  <1>2. ASSUME NEW id \in Ids, NEW row \in Row \cup {Absent}, SourceRequest(id, row)
        PROVE  BaseInv' /\ CoverInv'
    <2>1. UNCHANGED <<srcPhase, phase, treq, upper, cursor, base>> /\ \A i \in Ids : i # id => Held'[i] = Held[i]
      BY ZenonT(30), <1>2, SourceRequestStep
    <2>2. srcPhase \in {"none", "copying"} /\ cursor \in 0 .. Len(journal) /\ Len(journal) \in Nat /\ cursor \in Nat
      BY <1>0, <1>2 DEF SourceRequest, SourceOpen, TypeOK, SourceTypes, TargetTypes
    <2>3. ASSUME srcPhase = "copying", ~TargetOpen, NEW i \in Ids, treq[i] # Held'[i]
          PROVE  Reaches(i)'
      <3>1. CASE i = id
        BY ZenonT(30), <1>2, <2>1, <2>2, <2>3, <3>1, SourceRequestStep DEF Reaches
      <3>2. CASE i # id
        <4>1. Reaches(i)
          BY ZenonT(30), <1>0, <2>1, <2>3, <3>2 DEF CoverInv
        <4>q. QED  BY ZenonT(30), <1>2, <2>1, <2>2, <4>1, SourceRequestStep DEF Reaches
      <3>q. QED  BY ZenonT(30), <3>1, <3>2
    <2>4. CoverInv'
      BY ZenonT(30), <2>1, <2>2, <2>3 DEF CoverInv, TargetOpen
    <2>q. QED  BY ZenonT(30), <1>0, <2>1, <2>4 DEF BaseInv
  <1>3. ASSUME NEW id \in Ids, NEW row \in Row \cup {Absent}, TargetRequest(id, row)
        PROVE  BaseInv' /\ CoverInv'
    <2>1. TargetOpen' /\ UNCHANGED <<cursor, base>>
      BY ZenonT(30), <1>3 DEF TargetRequest, TargetOpen
    <2>2. base.done
      BY ZenonT(30), <1>0, <1>3 DEF Control, TargetRequest, TargetOpen
    <2>q. QED  BY <2>1, <2>2 DEF BaseInv, CoverInv
  <1>4. CASE Install
    <2>1. /\ treq = NoRows /\ cursor = 0 /\ base = [cursor |-> 0, done |-> FALSE]
          /\ UNCHANGED <<treq, cursor, base, Held>>
          /\ upper' = IF Rows(req) = {} THEN 0 ELSE Max(Rows(req))
      BY <1>0, <1>4, HeldKept DEF Install, Control, target
    <2>2. \A i \in Ids : i \in Nat /\ i > 0
      BY SizesAssumption DEF Ids
    <2>3. \A i \in Rows(req) : i <= upper'
      <3>1. Rows(req) \in SUBSET (0 .. Requests) /\ Requests \in Nat
        BY SizesAssumption DEF Rows, Ids
      <3>q. QED  BY Zenon, <2>1, <3>1, MaxFacts
    <2>4. BaseInv'
      BY ZenonT(30), <2>1 DEF BaseInv, NoRows
    <2>5. CoverInv'
      <3>1. \A i \in Ids : Held[i] # Absent => i \in Rows(req)
        BY Zenon, <1>0, HeldFacts DEF Rows
      <3>q. QED  BY <2>1, <2>2, <2>3, <3>1 DEF CoverInv, Reaches, NoRows
    <2>q. QED  BY <2>4, <2>5
  <1>5. CASE BaseCommit
    BY <1>5, BaseCommitStep
  <1>6. CASE ReplayCommit
    BY <1>6, ReplayCommitStep
  <1>q. QED  BY <1>1, <1>2, <1>3, <1>4, <1>5, <1>6 DEF ChangesRequests

(* Every step keeps what has changed since the read in the journal.        *)
LEMMA ViewStep ==
  ASSUME Inv, Next
  PROVE  ViewInv'
  <1>0. TypeOK /\ Control /\ ViewInv /\ ReplayInv
    BY DEF Inv
  <1>1. CASE ~reading'
    BY <1>1 DEF ViewInv
  <1>2. CASE Read
    <2>1. view' = Held /\ UNCHANGED Held
      BY <1>2, HeldKept DEF Read, Held, source
    <2>q. QED  BY Zenon, <2>1 DEF ViewInv
  <1>3. CASE reading /\ UNCHANGED <<pc, up, view, cursor>> /\ (Service \/ Stray)
    <2>1. CASE UNCHANGED <<req, journal>>
      BY ZenonT(30), <1>0, <1>3, <2>1, HeldKept DEF ViewInv, Floor, Behind
    <2>2. CASE \E id \in Ids, row \in Row \cup {Absent} : SourceRequest(id, row)
      <3>1. PICK id \in Ids, row \in Row \cup {Absent} : SourceRequest(id, row)
        BY <2>2
      <3>2. Floor \in 0 .. Len(journal) /\ Floor \in Nat
        <4>1. journal \in Seq(Ids) /\ cursor \in 0 .. Len(journal) /\ up \in Nat
          BY Zenon, <1>0 DEF TypeOK, SourceTypes, TargetTypes, ImporterTypes
        <4>2. pc = "replay" => up <= Len(journal)
          BY Zenon, <1>0 DEF ReplayInv
        <4>q. QED  BY <4>1, <4>2 DEF Floor
      <3>3. srcPhase = "copying"
        BY ZenonT(30), <1>0, <1>3, <3>1 DEF Control, SourceRequest, SourceOpen, TypeOK, SourceTypes
      <3>4. ASSUME NEW i \in Ids, view[i] # Held'[i]
            PROVE  Behind(i, Floor)'
        <4>1. Floor' = Floor
          BY ZenonT(30), <1>3 DEF Floor
        <4>2. \A n \in Nat : Behind(i, n) => Behind(i, n)'
          BY Zenon, <3>1, SourceRequestStep
        <4>3. CASE i = id
          <5>1. \A n \in 0 .. Len(journal) : Behind(i, n)'
            BY ZenonT(30), <3>1, <3>3, <4>3, SourceRequestStep
          <5>q. QED  BY ZenonT(30), <3>2, <4>1, <5>1 DEF Behind
        <4>4. CASE i # id
          <5>1. Behind(i, Floor)
            BY Zenon, <1>0, <1>3, <3>1, <3>4, <4>4, SourceRequestStep DEF ViewInv
          <5>q. QED  BY Zenon, <3>2, <4>1, <4>2, <5>1 DEF Behind
        <4>q. QED  BY <4>3, <4>4
      <3>q. QED  BY <1>3, <3>4 DEF ViewInv
    <2>3. UNCHANGED <<req, journal>> \/ \E id \in Ids, row \in Row \cup {Absent} : SourceRequest(id, row)
      BY Zenon, <1>3 DEF Service, Stray, TargetRequest, SourceSmall, SourceEvent, TargetSmall, TargetEvent, source
    <2>q. QED  BY <2>1, <2>2, <2>3
  <1>q. QED  BY <1>1, <1>2, <1>3, ReadFrame

(* Every step keeps the bounds of a replay.                                *)
LEMMA ReplayStep ==
  ASSUME Inv, Next
  PROVE  ReplayInv'
  <1> USE DEF ReplayInv
  <1>0. TypeOK /\ Control /\ ReplayInv
    BY DEF Inv
  <1>1. CASE pc' \notin {"replay", "verify"}
    BY ZenonT(30), <1>1
  <1>2. CASE Upper
    <2>1. journal \in Seq(Ids) /\ ~reading
      BY Zenon, <1>0, <1>2 DEF Upper, Control, TypeOK, SourceTypes
    <2>q. QED  BY <2>1, <1>2 DEF Upper, source, snapshot
  <1>3. CASE Read
    BY ZenonT(30), <1>0, <1>3 DEF Read, source, target
  <1>4. CASE ReplayCommit
    BY <1>0, <1>4 DEF ReplayCommit, EndRead, source
  <1>5. CASE ReplayDone
    <2>1. CASE mode = "cutover"
      BY <1>0, <1>5, <2>1 DEF ReplayDone, source, target, TypeOK, TargetTypes, SourceTypes
    <2>2. CASE mode # "cutover"
      BY ZenonT(30), <1>5, <2>2 DEF ReplayDone, Idle
    <2>q. QED  BY ZenonT(30), <2>1, <2>2
  <1>6. ASSUME NEW id \in Ids, NEW row \in Row \cup {Absent}, SourceRequest(id, row)
        PROVE  ReplayInv'
    <2>1. /\ UNCHANGED <<pc, mode, up, cursor, reading>>
          /\ Len(journal) \in Nat /\ Len(journal') \in Nat /\ Len(journal) <= Len(journal')
      BY Zenon, <1>6, SourceRequestStep
    <2>2. srcPhase # "sealed"
      BY ZenonT(30), <1>6 DEF SourceRequest, SourceOpen
    <2>3. pc # "verify" /\ ~(pc = "replay" /\ mode = "cutover")
      BY <1>0, <2>2 DEF Control
    <2>q. QED  BY SMTT(30), <1>0, <2>1, <2>3 DEF TypeOK, ImporterTypes
  <1>7. CASE UNCHANGED <<pc, mode, up, cursor, reading, journal>>
    BY ZenonT(30), <1>0, <1>7
  <1>8. \/ pc' \notin {"replay", "verify"} \/ Upper \/ Read \/ ReplayCommit \/ ReplayDone
        \/ \E id \in Ids, row \in Row \cup {Absent} : SourceRequest(id, row)
        \/ UNCHANGED <<pc, mode, up, cursor, reading, journal>>
    <2> USE DEF source, target, importer, snapshot
    <2>1. CASE Service
      BY ZenonT(60), <2>1 DEF Service, TargetRequest, SourceSmall, SourceEvent, TargetSmall, TargetEvent
    <2>2. CASE Start \/ Install \/ Schema
      BY ZenonT(30), <2>2 DEF Start, StartPrepare, StartSync, StartCutover, StartResume, StartBackfill, Begin,
                  Install, Schema, Idle
    <2>3. CASE Copy
      BY ZenonT(30), <2>3 DEF Copy, SmallCommit, SmallDone, BaseCommit, BaseDone
    <2>4. CASE Cutover \/ History
      BY ZenonT(30), <2>4 DEF Cutover, Seal, Verify, Unseal, History, EventsCommit, Count, Idle
    <2>5. CASE Stop \/ Loss \/ Stray
      BY ZenonT(30), <2>5 DEF Stop, Loss, Stray, Idle
    <2>q. QED  BY ZenonT(30), <2>1, <2>2, <2>3, <2>4, <2>5 DEF Next
  <1>q. QED  BY ZenonT(30), <1>1, <1>2, <1>3, <1>4, <1>5, <1>6, <1>7, <1>8

(* Every step of a cutover keeps the tables it has refreshed.              *)
LEMMA SmallStep ==
  ASSUME Inv, Next
  PROVE  SmallInv'
  <1> USE DEF SmallInv
  <1>0. TypeOK /\ Control /\ SmallInv
    BY DEF Inv
  <1>1. CASE mode' # "cutover" \/ pc' \notin {"small", "upper", "replay", "verify"}
    BY ZenonT(30), <1>1
  <1>2. CASE Seal
    BY ZenonT(30), <1>0, <1>2 DEF Seal, Control, snapshot
  <1>3. CASE Read
    <2>1. viewSmall' = HeldSmall /\ UNCHANGED HeldSmall
      BY <1>3, HeldKept DEF Read, HeldSmall, source
    <2>q. QED  BY Zenon, <1>0, <1>3, <2>1 DEF Read, source, target
  <1>4. CASE SmallCommit
    <2>1. PICK t \in todo : tsmall' = [tsmall EXCEPT ![t] = viewSmall[t]] /\ todo' = todo \ {t}
      BY Zenon, <1>4 DEF SmallCommit
    <2>2. UNCHANGED <<HeldSmall, mode, pc>> /\ ~reading' /\ pc = "small" /\ reading
      BY ZenonT(30), <1>4, HeldKept DEF SmallCommit, EndRead, source
    <2>3. tsmall \in [Tables -> Content] /\ todo \subseteq Tables
      BY <1>0 DEF TypeOK, TargetTypes, ImporterTypes
    <2>q. QED  BY <1>0, <2>1, <2>2, <2>3
  <1>5. CASE SmallDone
    <2>1. mode = "cutover" => tsmall = HeldSmall
      BY <1>0, <1>5, HeldFacts DEF SmallDone, TypeOK, TargetTypes
    <2>q. QED  BY ZenonT(30), <1>5, <2>1, HeldKept DEF SmallDone, source, target, snapshot
  <1>6. CASE UNCHANGED <<mode, pc, todo, small, tsmall, viewSmall, reading>>
    BY <1>0, <1>6, HeldKept
  <1>7. CASE Upper
    BY ZenonT(30), <1>0, <1>7, HeldKept DEF Upper, source, target
  <1>8. CASE ReplayCommit
    BY <1>0, <1>8, HeldKept DEF ReplayCommit, source
  <1>9. CASE ReplayDone
    BY ZenonT(30), <1>0, <1>9, HeldKept DEF ReplayDone, Idle, source, target
  <1>10. ASSUME NEW t \in Tables, NEW c \in Content, SourceSmall(t, c)
         PROVE  SmallInv'
    BY ZenonT(30), <1>0, <1>10 DEF SourceSmall, SourceOpen, importer, snapshot, Control
  <1>11. ASSUME NEW t \in Tables, NEW c \in Content, TargetSmall(t, c)
         PROVE  SmallInv'
    BY ZenonT(30), <1>0, <1>11 DEF TargetSmall, importer, snapshot, Control
  <1>12. \/ mode' # "cutover" \/ pc' \notin {"small", "upper", "replay", "verify"}
         \/ Seal \/ Read \/ SmallCommit \/ SmallDone \/ Upper \/ ReplayCommit \/ ReplayDone
         \/ \E t \in Tables, c \in Content : SourceSmall(t, c) \/ TargetSmall(t, c)
         \/ UNCHANGED <<mode, pc, todo, small, tsmall, viewSmall, reading>>
    <2> USE DEF source, target, importer, snapshot
    <2>1. CASE Service
      BY ZenonT(60), <2>1 DEF Service, SourceRequest, TargetRequest, SourceEvent, TargetEvent
    <2>2. CASE Start \/ Install \/ Schema
      BY Zenon, <2>2 DEF Start, StartPrepare, StartSync, StartCutover, StartResume, StartBackfill, Begin,
                  Install, Schema, Idle
    <2>3. CASE Copy
      BY ZenonT(60), <1>0, <2>3 DEF Copy, BaseCommit, BaseDone, Control
    <2>4. CASE Cutover \/ History
      BY ZenonT(30), <2>4 DEF Cutover, Verify, Unseal, History, EventsCommit, Count, Idle
    <2>5. CASE Stop \/ Loss \/ Stray
      BY ZenonT(30), <2>5 DEF Stop, Loss, Stray, Idle
    <2>q. QED  BY Zenon, <2>1, <2>2, <2>3, <2>4, <2>5 DEF Next
  <1>q. QED
    BY ZenonT(30), <1>1, <1>2, <1>3, <1>4, <1>5, <1>6, <1>7, <1>8, <1>9, <1>10, <1>11, <1>12

-----------------------------------------------------------------------------
(* Events                                                                  *)

(* What a page of events leaves behind it.                                 *)
LEMMA EventsCommitFacts ==
  ASSUME Inv, EventsCommit
  PROVE  /\ UNCHANGED <<srcPhase, events, eseq, phase, tseq, watermark>> /\ pc = "events"
         /\ \A e \in EventIds : tevents[e] = "pg" <=> tevents'[e] = "pg"
         /\ \A e \in events : tevents[e] = "src" => tevents'[e] = "src"
         /\ \A e \in EventIds : tevents'[e] = "src" => e \in events
         /\ \A e \in EventIds : tevents[e] # "no" => tevents'[e] # "no"
         /\ \A e \in events : e <= hist'.cursor => tevents'[e] = "src"
         /\ pc' = "count" => \A e \in events : e <= up => e <= hist'.cursor
         /\ \/ UNCHANGED <<mode, pc, up>>
            \/ pc' = "idle"
            \/ pc' = "count" /\ UNCHANGED <<mode, up>>
  <1> DEFINE l == Last(EventPage, hist.cursor)
  <1>1. TypeOK /\ EventInv
    BY ZenonT(30) DEF Inv
  <1>2. /\ EventPage \subseteq events
        /\ l \in 0 .. eseq /\ hist.cursor <= l
        /\ l = hist.cursor \/ l <= up
        /\ \A k \in events : hist.cursor < k /\ k <= up /\ k <= l => k \in EventPage
    BY <1>1, EventPageFacts
  <1>3. /\ eseq \in Nat /\ events \subseteq 1 .. eseq /\ up \in Nat /\ hist.cursor \in 0 .. eseq
        /\ events \subseteq EventIds
        /\ tevents \in [EventIds -> {"no", "src", "pg"}]
    <2>1. /\ eseq \in EventIds \cup {0} /\ events \subseteq 1 .. eseq /\ up \in Nat /\ hist.cursor \in 0 .. eseq
          /\ tevents \in [EventIds -> {"no", "src", "pg"}]
      BY ZenonT(30), <1>1 DEF TypeOK, SourceTypes, TargetTypes, ImporterTypes
    <2>q. QED  BY <2>1, SizesAssumption DEF EventIds
  <1>4. hist'.cursor = l /\ (MoreEvents <=> \E e \in events : l < e /\ e <= up)
    BY DEF EventsCommit, Progress, MoreEvents
  <1> HIDE DEF l
  <1>5. \A e \in EventIds : tevents'[e] = IF e \in EventPage THEN "src" ELSE tevents[e]
    BY DEF EventsCommit
  <1>6. \A e \in EventPage : tevents[e] # "pg"
    BY DEF EventsCommit
  <1>61. \A e \in EventIds : tevents'[e] = "src" => e \in events
    BY Zenon, <1>1, <1>2, <1>5 DEF EventInv
  <1>7. ASSUME NEW e \in events, e <= l
        PROVE  tevents'[e] = "src"
    <2>1. CASE e <= hist.cursor
      BY Zenon, <1>1, <1>3, <1>5, <2>1 DEF EventInv
    <2>2. CASE ~(e <= hist.cursor)
      BY SMTT(20), <1>2, <1>3, <1>5, <1>7, <2>2
    <2>q. QED  BY Zenon, <2>1, <2>2
  <1>8. pc' = "count" => \A e \in events : e <= up => e <= l
    <2>1. pc' = "count" => ~MoreEvents
      BY DEF EventsCommit, Idle
    <2>q. QED  BY SMTT(20), <1>2, <1>3, <1>4, <2>1
  <1>9. /\ UNCHANGED <<srcPhase, events, eseq, phase, tseq, watermark>> /\ pc = "events"
        /\ UNCHANGED <<mode, pc, up>> \/ pc' = "idle" \/ (pc' = "count" /\ UNCHANGED <<mode, up>>)
    BY ZenonT(30) DEF EventsCommit, Idle, source
  <1>q. QED  BY Zenon, <1>3, <1>4, <1>5, <1>6, <1>61, <1>7, <1>8, <1>9

(* Every step keeps the events in order.                                   *)
LEMMA EventStep ==
  ASSUME Inv, Next
  PROVE  EventInv' /\ EventIdsApart' /\ HistoryWhole'
  <1> USE DEF EventInv, EventIdsApart, HistoryWhole, TargetOpen
  <1>0. TypeOK /\ Control /\ EventInv /\ EventIdsApart /\ HistoryWhole
    BY ZenonT(30) DEF Inv
  <1>1. /\ eseq \in Nat /\ tseq \in Nat /\ watermark \in 0 .. eseq /\ hist.cursor \in 0 .. eseq
        /\ events \subseteq 1 .. eseq /\ events \subseteq EventIds
        /\ tevents \in [EventIds -> {"no", "src", "pg"}]
        /\ \A e \in EventIds : e \in Nat /\ e > 0
    <2>1. /\ eseq \in EventIds \cup {0} /\ tseq \in EventIds \cup {0} /\ watermark \in 0 .. eseq
          /\ hist.cursor \in 0 .. eseq /\ events \subseteq 1 .. eseq
          /\ tevents \in [EventIds -> {"no", "src", "pg"}]
      BY Zenon, <1>0 DEF TypeOK, SourceTypes, TargetTypes
    <2>q. QED  BY <2>1, SizesAssumption DEF EventIds
  <1>2. CASE SourceEvent
    <2>1. phase \notin {"ready", "complete"} /\ srcPhase # "sealed"
      BY ZenonT(30), <1>0, <1>2 DEF SourceEvent, SourceOpen, Control
    <2>2. pc # "count" /\ ~(pc = "events" /\ mode = "backfill")
      BY ZenonT(30), <1>0, <2>1 DEF Control
    <2>3. /\ eseq' = eseq + 1 /\ events' = events \cup {eseq + 1}
          /\ UNCHANGED <<phase, tevents, tseq, watermark, hist, mode, pc, up>>
      BY ZenonT(30), <1>2 DEF SourceEvent, target, importer
    <2>4. ~(eseq + 1 <= hist.cursor)
      BY <1>1
    <2>5. /\ \A e \in EventIds : tevents[e] # "pg" /\ (tevents[e] = "src" => e \in events)
          /\ \A e \in events : e <= hist.cursor => tevents[e] = "src"
      BY ZenonT(30), <1>0, <2>1
    <2>6. EventInv'
      BY ZenonT(30), <2>1, <2>2, <2>3, <2>4, <2>5
    <2>q. QED  BY ZenonT(30), <2>1, <2>3, <2>6
  <1>3. CASE TargetEvent
    <2>1. /\ phase \in {"ready", "complete"} /\ tseq' = tseq + 1 /\ tseq + 1 \in EventIds
          /\ tevents' = [tevents EXCEPT ![tseq + 1] = IF @ = "no" THEN "pg" ELSE @]
          /\ UNCHANGED <<phase, events, eseq, watermark, hist, mode, pc, up>>
      BY SMTT(20), <1>1, <1>3, SizesAssumption DEF TargetEvent, source, importer, EventIds
    <2>2. \A e \in EventIds : \/ tevents'[e] = tevents[e]
                              \/ e = tseq + 1 /\ tevents[e] = "no" /\ tevents'[e] = "pg"
      BY Zenon, <1>1, <2>1
    <2>3. \A e \in EventIds : tevents[e] = "pg" => e > watermark /\ e <= tseq + 1
      <3>1. \A e \in EventIds : tevents[e] = "pg" => e > watermark /\ e <= tseq
        BY ZenonT(30), <1>0, <2>1
      <3>q. QED  BY <1>1, <3>1
    <2>4. watermark = eseq /\ eseq <= tseq
      BY ZenonT(30), <1>0, <2>1
    <2>5. tseq + 1 > watermark /\ tseq + 1 <= tseq + 1 /\ eseq <= tseq + 1
      BY <1>1, <2>4
    <2>6. EventIdsApart'
      BY ZenonT(30), <2>1, <2>2, <2>3, <2>4, <2>5
    <2>7. \A e \in events : tevents[e] = "src" => tevents'[e] = "src"
      BY ZenonT(30), <1>1, <2>2
    <2>8. \A e \in EventIds : tevents'[e] = "src" => e \in events
      <3>1. \A e \in EventIds : tevents'[e] = "src" => tevents[e] = "src"
        BY Zenon, <2>2
      <3>q. QED  BY Zenon, <1>0, <3>1
    <2>9. EventInv'
      BY ZenonT(30), <1>0, <2>1, <2>5, <2>7, <2>8
    <2>q. QED  BY ZenonT(30), <1>0, <2>1, <2>6, <2>7, <2>9
  <1>4. CASE EventsCommit
    <2>1. pc' = "idle" \/ (mode = mode' /\ up = up')
      BY <1>4, EventsCommitFacts
    <2>q. QED  BY ZenonT(30), <1>0, <1>1, <1>4, <2>1, EventsCommitFacts
  <1>5. CASE Count
    <2>1. /\ phase \in {"ready", "complete"} /\ pc = "count" /\ mode = "backfill"
          /\ phase' = "complete" /\ pc' = "idle"
          /\ UNCHANGED <<events, eseq, tevents, tseq, watermark, hist>>
      BY ZenonT(30), <1>0, <1>5 DEF Count, Control, Idle, source
    <2>2. \A e \in events : tevents[e] = "src"
      <3>1. \A e \in events : (e <= watermark => e <= hist.cursor) /\ (e <= hist.cursor => tevents[e] = "src")
        BY ZenonT(30), <1>0, <2>1
      <3>2. \A e \in events : e <= watermark
        <4>1. watermark = eseq
          BY ZenonT(30), <1>0, <2>1
        <4>q. QED  BY <1>1, <4>1
      <3>q. QED  BY ZenonT(30), <3>1, <3>2
    <2>q. QED  BY ZenonT(30), <1>0, <2>1, <2>2
  <1>6. CASE Verify
    <2>1. /\ phase = "copying" /\ phase' = "ready" /\ pc' = "idle" /\ watermark' = eseq
          /\ tseq' = IF eseq > 0 THEN eseq ELSE tseq
          /\ UNCHANGED <<events, eseq, tevents, hist>>
      BY <1>6 DEF Verify, Watermark, Reserved, Idle, source
    <2>q. QED  BY SMTT(20), <1>0, <1>1, <2>1
  <1>7. CASE Schema
    <2>1. phase = "none" /\ phase' = "copying" /\ pc' = "idle" /\ UNCHANGED <<events, eseq, tevents, tseq, watermark, hist>>
      BY ZenonT(30), <1>0, <1>7 DEF Schema, Idle, Control, source
    <2>q. QED  BY ZenonT(30), <1>0, <2>1
  <1>8. CASE /\ UNCHANGED <<phase, events, eseq, tevents, tseq, watermark, hist>>
             /\ \/ UNCHANGED <<mode, pc, up>>
                \/ pc' \notin {"events", "count"}
                \/ pc' = "events" /\ (mode' = "backfill" => up' = watermark)
    BY ZenonT(30), <1>0, <1>8
  <1>9. \/ SourceEvent \/ TargetEvent \/ EventsCommit \/ Count \/ Verify \/ Schema
        \/ /\ UNCHANGED <<phase, events, eseq, tevents, tseq, watermark, hist>>
           /\ \/ UNCHANGED <<mode, pc, up>>
              \/ pc' \notin {"events", "count"}
              \/ pc' = "events" /\ (mode' = "backfill" => up' = watermark)
    <2> USE DEF source, target, importer, snapshot
    <2>1. CASE Service
      BY ZenonT(60), <2>1 DEF Service, SourceRequest, TargetRequest, SourceSmall, TargetSmall
    <2>2. CASE Start \/ Install
      BY ZenonT(30), <2>2 DEF Start, StartPrepare, StartSync, StartCutover, StartResume, StartBackfill, Begin, Install
    <2>3. CASE Copy
      BY ZenonT(30), <2>3 DEF Copy, Read, SmallCommit, SmallDone, BaseCommit, BaseDone, Upper, ReplayCommit, ReplayDone, Idle
    <2>4. CASE Cutover \/ History
      BY ZenonT(30), <2>4 DEF Cutover, Seal, Unseal, History, Idle
    <2>5. CASE Stop \/ Loss \/ Stray
      BY <2>5 DEF Stop, Loss, Stray, Idle
    <2>q. QED  BY ZenonT(30), <2>1, <2>2, <2>3, <2>4, <2>5 DEF Next
  <1>q. QED  BY ZenonT(30), <1>2, <1>3, <1>4, <1>5, <1>6, <1>7, <1>8, <1>9

-----------------------------------------------------------------------------
(* Safety                                                                  *)

(* What the triggers, the guards and the importer keep true between them,  *)
(* as long as no importer that lost its lock still unseals the source.     *)
THEOREM Invariance ==
  ASSUME NoLateUnseal
  PROVE  Spec => []Inv
  <1>1. Inv /\ [Next]_vars => Inv'
    <2> SUFFICES ASSUME Inv, [Next]_vars PROVE Inv'
        OBVIOUS
    <2>1. CASE Next
      BY Zenon, <2>1, TypeStep, ControlStep, JobsStep, CoverStep, ViewStep, ReplayStep, SmallStep, EventStep DEF Inv
    <2>q. QED  BY <2>1, Stutter
  <1>q. QED  BY <1>1, InitInv, PTL DEF Spec

(* No two services write to different databases: a target that is open has *)
(* a sealed source, whatever command is interrupted and wherever.          *)
THEOREM WritersApart ==
  ASSUME NoLateUnseal
  PROVE  Spec => []OneWriter
  <1>1. Inv => OneWriter
    BY ZenonT(30) DEF Inv, Control, OneWriter, SourceOpen, TargetOpen
  <1>q. QED  BY <1>1, Invariance, PTL

(* No change to a request is lost between the batches: what differs is     *)
(* still in the journal or ahead of the baseline.                          *)
THEOREM NothingLost ==
  ASSUME NoLateUnseal
  PROVE  Spec => []Covered
  <1>1. Inv => Covered
    BY ZenonT(30) DEF Inv, Control, CoverInv, Reaches, Behind, Covered, TargetOpen, Held
  <1>q. QED  BY <1>1, Invariance, PTL

(* No batch of phasedWriteRequests fails on the unique index of jobs.      *)
THEOREM NoBatchFails ==
  ASSUME NoLateUnseal
  PROVE  Spec => []BatchesApply
  <1>1. Inv => BatchesApply
    <2> SUFFICES ASSUME Inv, reading
                 PROVE  /\ pc = "base" => UniqueJobs(Written(BasePage))
                        /\ pc = "replay" => UniqueJobs(Written(ReplayKeys))
        BY DEF BatchesApply
    <2>1. TypeOK /\ JobsInv /\ ReplayInv
      BY DEF Inv
    <2>2. treq \in Table /\ view \in Table /\ UniqueJobs(treq) /\ UniqueJobs(view)
      BY ZenonT(30), <2>1 DEF TypeOK, TargetTypes, ImporterTypes, JobsInv
    <2>3. BasePage \in SUBSET Ids
      BY Zenon, <2>1, BasePageFacts
    <2>4. pc = "replay" => ReplayKeys \in SUBSET Ids
      BY <2>1, ReplayFacts DEF ReplayInv
    <2>q. QED  BY Zenon, <2>2, <2>3, <2>4, WrittenFacts
  <1>q. QED  BY <1>1, Invariance, PTL

(* A target that has replayed the journal of a sealed source has all that  *)
(* PostgreSQL can hold of it.                                              *)
LEMMA Equal ==
  ASSUME Inv, pc = "verify"
  PROVE  treq = Held /\ tsmall = HeldSmall /\ cursor = Len(journal)
  <1>1. TypeOK /\ Control /\ CoverInv /\ ReplayInv /\ SmallInv
    BY ZenonT(30) DEF Inv
  <1>2. phase = "copying" /\ srcPhase = "sealed" /\ base.done /\ mode = "cutover"
    BY <1>1 DEF Control
  <1>3. cursor = Len(journal) /\ Len(journal) \in Nat
    BY <1>1 DEF ReplayInv, TypeOK, SourceTypes
  <1>4. \A id \in Ids : treq[id] = Held[id]
    <2>1. ~(\E k \in (cursor + 1) .. Len(journal) : TRUE)
      BY SMTT(20), <1>3
    <2>q. QED  BY ZenonT(30), <1>1, <1>2, <2>1 DEF CoverInv, Reaches, Behind, TargetOpen
  <1>5. treq = Held
    BY <1>1, <1>4, HeldFacts DEF TypeOK, TargetTypes, Table
  <1>6. tsmall = HeldSmall
    BY Zenon, <1>1, <1>2 DEF SmallInv
  <1>q. QED  BY <1>3, <1>5, <1>6

(* The verification of a cutover that has replayed the journal never finds *)
(* a difference.                                                           *)
THEOREM CutoverVerifies ==
  ASSUME NoLateUnseal
  PROVE  Spec => []VerifyPasses
  <1>1. Inv => VerifyPasses
    <2> SUFFICES ASSUME Inv, pc = "verify" PROVE Converged
        BY DEF VerifyPasses
    <2>1. Len(journal) \in Nat
      BY DEF Inv, TypeOK, SourceTypes
    <2>2. Rows(treq) = Rows(req)
      BY Zenon, Equal, HeldFacts DEF Inv
    <2>q. QED  BY <2>1, <2>2, Equal DEF Converged
  <1>q. QED  BY <1>1, Invariance, PTL

(* A migration that says complete has copied every event.                  *)
THEOREM EventsKept ==
  ASSUME NoLateUnseal
  PROVE  Spec => []HistoryWhole
  <1>1. Inv => HistoryWhole
    BY DEF Inv
  <1>q. QED  BY <1>1, Invariance, PTL

(* No event that PostgreSQL writes takes the id of an event of the source: *)
(* the sequence is reserved past all of them before the first one is       *)
(* written, also those that are deleted or not copied yet.                 *)
THEOREM EventIdsKept ==
  ASSUME NoLateUnseal
  PROVE  Spec => []EventIdsApart
  <1>1. Inv => EventIdsApart
    BY DEF Inv
  <1>q. QED  BY <1>1, Invariance, PTL

(* The rows, the journal, the checkpoints and the cursors keep their types *)
(* through every command and failure.                                      *)
THEOREM MigrationTypes ==
  ASSUME NoLateUnseal
  PROVE  Spec => []TypeOK
  <1>1. Inv => TypeOK
    BY ZenonT(30) DEF Inv
  <1>q. QED  BY <1>1, Invariance, PTL

-----------------------------------------------------------------------------
(* One store                                                               *)

(* The events the service has written so far, wherever they are.           *)
Recorded == events \cup {e \in EventIds : tevents[e] = "pg"}

(* Those it can read.                                                      *)
Shown == IF TargetOpen THEN {e \in EventIds : tevents[e] # "no"} ELSE events

(* What a step that is not a write of a service may change for it.         *)
LEMMA Unserved ==
  ASSUME Inv, Next, ~Service, ~Verify
  PROVE  /\ TargetOpen' = TargetOpen
         /\ UNCHANGED <<req, small, events>>
         /\ TargetOpen => UNCHANGED <<treq, tsmall>>
         /\ EventsCommit \/ UNCHANGED tevents
         /\ Count \/ (phase' = "complete" <=> phase = "complete")
  <1> USE DEF source, target, importer, snapshot, TargetOpen
  <1>0. Control
    BY ZenonT(30) DEF Inv
  <1>1. CASE Start
    BY ZenonT(30), <1>1 DEF Start, StartPrepare, StartSync, StartCutover, StartResume, StartBackfill, Begin
  <1>2. CASE Install \/ Schema
    <2>1. pc \in {"install", "schema"} => phase = "none"
      BY ZenonT(30), <1>0 DEF Control
    <2>2. CASE Install
      BY ZenonT(30), <2>1, <2>2 DEF Install
    <2>3. CASE Schema
      BY <2>1, <2>3 DEF Schema
    <2>q. QED  BY Zenon, <1>2, <2>2, <2>3
  <1>3. CASE Copy
    <2>1. CASE Read \/ SmallCommit \/ SmallDone
      BY ZenonT(30), <1>0, <2>1 DEF Control, Read, SmallCommit, SmallDone
    <2>2. CASE BaseCommit \/ BaseDone
      BY ZenonT(30), <1>0, <2>2 DEF Control, BaseCommit, BaseDone
    <2>3. CASE Upper \/ ReplayCommit \/ ReplayDone
      BY ZenonT(30), <1>0, <2>3 DEF Control, Upper, ReplayCommit, ReplayDone
    <2>q. QED  BY ZenonT(30), <1>3, <2>1, <2>2, <2>3 DEF Copy
  <1>4. CASE Seal \/ Unseal \/ Stop \/ Loss \/ Stray
    BY ZenonT(30), <1>4 DEF Seal, Unseal, Stop, Loss, Stray
  <1>5. CASE Count
    BY ZenonT(30), <1>0, <1>5 DEF Count, Control
  <1>6. CASE EventsCommit
    BY ZenonT(30), <1>6, EventsCommitFacts DEF EventsCommit
  <1>q. QED  BY ZenonT(30), <1>1, <1>2, <1>3, <1>4, <1>5, <1>6 DEF Next, Cutover, History

(* A page of events brings back what the service had recorded.            *)
LEMMA EventsServed ==
  ASSUME Inv, EventsCommit
  PROVE  Served!Backfill \/ UNCHANGED Served!vars
  <1>1. /\ TargetOpen' = TargetOpen /\ UNCHANGED <<phase, req, small, treq, tsmall, events>>
    BY DEF EventsCommit, source, TargetOpen
  <1>2. /\ \A e \in EventIds : tevents[e] = "pg" <=> tevents'[e] = "pg"
        /\ \A e \in EventIds : tevents'[e] = "src" => e \in events
        /\ \A e \in EventIds : tevents[e] # "no" => tevents'[e] # "no"
    BY Zenon, EventsCommitFacts
  <1>3. tevents' \in [EventIds -> {"no", "src", "pg"}]
    BY Zenon, HistoryTypes DEF History, TypeOK, TargetTypes
  <1>4. Recorded' = Recorded
    BY Zenon, <1>1, <1>2 DEF Recorded
  <1>5. CASE ~TargetOpen
    BY Zenon, <1>1, <1>4, <1>5 DEF Recorded, Served!vars
  <1>6. CASE TargetOpen
    <2>1. /\ Shown = {e \in EventIds : tevents[e] # "no"}
          /\ Shown' = {e \in EventIds : tevents'[e] # "no"}
      BY Zenon, <1>1, <1>6 DEF Shown
    <2>2. Shown \subseteq Shown' /\ Shown' \subseteq Recorded
      <3>1. \A e \in EventIds : tevents'[e] \in {"no", "src", "pg"}
        BY Zenon, <1>3
      <3>q. QED  BY Zenon, <1>2, <2>1, <3>1 DEF Recorded
    <2>q. QED  BY ZenonT(30), <1>1, <1>4, <1>6, <2>2 DEF Served!Backfill, Recorded, Shown
  <1>q. QED  BY Zenon, <1>5, <1>6

(* When the history is counted, the service sees all of it.                *)
LEMMA CountServed ==
  ASSUME Inv, Next, Count
  PROVE  Served!Complete
  <1>1. Control /\ EventInv /\ TypeOK
    BY ZenonT(30) DEF Inv
  <1>2. /\ TargetOpen /\ TargetOpen' /\ phase' = "complete"
        /\ UNCHANGED <<req, small, treq, tsmall, events, tevents>>
    BY ZenonT(30), <1>1 DEF Count, Control, TargetOpen, source
  <1>3. \A e \in events : tevents[e] = "src"
    BY ZenonT(30), <1>2, EventStep DEF HistoryWhole
  <1>4. Shown = Recorded
    <2>1. events \subseteq EventIds /\ \A e \in EventIds : tevents[e] \in {"no", "src", "pg"}
      <3>1. eseq \in EventIds \cup {0} /\ events \subseteq 1 .. eseq /\ tevents \in [EventIds -> {"no", "src", "pg"}]
        BY Zenon, <1>1 DEF TypeOK, SourceTypes, TargetTypes
      <3>q. QED  BY <3>1, SizesAssumption DEF EventIds
    <2>2. \A e \in EventIds : tevents[e] = "src" => e \in events
      BY Zenon, <1>1 DEF EventInv
    <2>q. QED  BY Zenon, <1>2, <1>3, <2>1, <2>2 DEF Shown, Recorded
  <1>q. QED  BY ZenonT(30), <1>2, <1>4 DEF Served!Complete, Shown, Recorded

(* The release of the target hands over what PostgreSQL can hold.          *)
LEMMA VerifyServed ==
  ASSUME Inv, Verify
  PROVE  Served!HandOver
  <1>1. TypeOK /\ EventInv
    BY ZenonT(30) DEF Inv
  <1>2. /\ ~TargetOpen /\ TargetOpen' /\ phase = "copying" /\ phase' = "ready" /\ pc = "verify"
        /\ UNCHANGED <<req, small, treq, tsmall, events, tevents>>
    BY DEF Verify, TargetOpen, source
  <1>3. treq = Held /\ tsmall = HeldSmall
    BY Zenon, <1>2, Equal
  <1>4. /\ \A i \in Ids : req[i] \in Row \cup {Absent}
        /\ \A t \in Tables : small[t] \in Content
    BY Zenon, <1>1 DEF TypeOK, SourceTypes, Table
  <1>5. treq = [i \in Ids |-> [row \in Row \cup {Absent} |-> Stored(row)][req[i]]]
    BY Zenon, <1>3, <1>4 DEF Held, Normalized
  <1>6. tsmall = [t \in Tables |-> [c \in Content |-> Truncate(c)][small[t]]]
    BY Zenon, <1>3, <1>4 DEF HeldSmall, NormalizedSmall
  <1>7. {e \in EventIds : tevents[e] # "no"} \subseteq events
    <2>1. \A e \in EventIds : tevents[e] \in {"no", "src", "pg"}
      BY Zenon, <1>1 DEF TypeOK, TargetTypes
    <2>q. QED  BY Zenon, <1>1, <1>2, <2>1 DEF EventInv
  <1>8. (phase = "complete")' = (phase = "complete")
    BY <1>2
  <1>9. /\ (IF TargetOpen THEN treq ELSE req) = req /\ (IF TargetOpen THEN treq ELSE req)' = treq
        /\ (IF TargetOpen THEN tsmall ELSE small) = small /\ (IF TargetOpen THEN tsmall ELSE small)' = tsmall
    BY Zenon, <1>2
  <1>10. /\ (IF TargetOpen THEN treq ELSE req)' =
              [i \in Ids |-> [row \in Row \cup {Absent} |-> Stored(row)][(IF TargetOpen THEN treq ELSE req)[i]]]
         /\ (IF TargetOpen THEN tsmall ELSE small)' =
              [t \in Tables |-> [c \in Content |-> Truncate(c)][(IF TargetOpen THEN tsmall ELSE small)[t]]]
    BY ZenonT(60), <1>5, <1>6, <1>9
  <1>q. QED  BY ZenonT(30), <1>2, <1>7, <1>8, <1>10 DEF Served!HandOver

(* What the service sees is a single store.                                *)
LEMMA ServedStep ==
  ASSUME Inv, Next
  PROVE  Served!Next \/ UNCHANGED Served!vars
  <1>0. TypeOK /\ Control /\ EventInv /\ EventIdsApart /\ OneWriter
    BY ZenonT(30) DEF Inv, Control, OneWriter, SourceOpen, TargetOpen
  <1>1. /\ eseq \in Nat /\ tseq \in Nat /\ events \subseteq 1 .. eseq /\ watermark \in Nat
        /\ tevents \in [EventIds -> {"no", "src", "pg"}]
        /\ \A e \in EventIds : e \in Nat
    BY <1>0, SizesAssumption DEF TypeOK, SourceTypes, TargetTypes, EventIds
  <1>2. ASSUME NEW id \in Ids, NEW row \in Row \cup {Absent}, SourceRequest(id, row) \/ TargetRequest(id, row)
        PROVE  Served!WriteRequest
    BY Zenon, <1>0, <1>2 DEF SourceRequest, TargetRequest, OneWriter, TargetOpen, source, target, Served!WriteRequest
  <1>3. ASSUME NEW t \in Tables, NEW c \in Content, SourceSmall(t, c) \/ TargetSmall(t, c)
        PROVE  Served!WriteSmall
    BY ZenonT(30), <1>0, <1>3 DEF SourceSmall, TargetSmall, OneWriter, TargetOpen, source, target, Served!WriteSmall
  <1>4. CASE SourceEvent
    <2>1. /\ ~TargetOpen /\ ~TargetOpen' /\ UNCHANGED <<phase, req, small, tevents>>
          /\ events' = events \cup {eseq + 1}
      BY <1>0, <1>4 DEF SourceEvent, OneWriter, TargetOpen, target
    <2>2. \A e \in EventIds : tevents[e] # "pg"
      BY ZenonT(30), <1>0, <2>1 DEF EventInv
    <2>3. Recorded' = Recorded \cup {eseq + 1} /\ \A h \in Recorded : h < eseq + 1
      BY <1>1, <2>1, <2>2 DEF Recorded
    <2>q. QED  BY ZenonT(30), <2>1, <2>3 DEF Served!Next, Served!AppendEvent, Recorded
  <1>5. CASE TargetEvent
    <2>1. /\ TargetOpen /\ TargetOpen' /\ UNCHANGED <<phase, treq, tsmall, events>> /\ tseq + 1 \in EventIds
          /\ tevents' = [tevents EXCEPT ![tseq + 1] = IF @ = "no" THEN "pg" ELSE @]
      BY SMTT(20), <1>1, <1>5, SizesAssumption DEF TargetEvent, TargetOpen, source, EventIds
    <2>2. \A h \in Recorded : h \in Nat /\ h < tseq + 1
      <3>1. /\ \A e \in EventIds : tevents[e] = "pg" => e <= tseq
            /\ eseq <= tseq
        BY ZenonT(30), <1>0, <2>1 DEF EventInv, EventIdsApart
      <3>q. QED  BY <1>1, <3>1 DEF Recorded
    <2>3. CASE tevents[tseq + 1] = "no"
      <3>1. \A e \in EventIds : /\ tevents'[e] = "pg" <=> tevents[e] = "pg" \/ e = tseq + 1
                                /\ tevents'[e] # "no" <=> tevents[e] # "no" \/ e = tseq + 1
        BY <1>1, <2>1, <2>3
      <3>2. Recorded' = Recorded \cup {tseq + 1} /\ Shown' = Shown \cup {tseq + 1}
        BY ZenonT(30), <2>1, <3>1 DEF Recorded, Shown
      <3>q. QED  BY ZenonT(30), <2>1, <2>2, <3>2 DEF Served!Next, Served!AppendEvent, Recorded, Shown
    <2>4. CASE tevents[tseq + 1] # "no"
      <3>1. tevents' = tevents
        BY ZenonT(30), <1>1, <2>1, <2>4
      <3>q. QED  BY Zenon, <2>1, <3>1 DEF Served!vars
    <2>q. QED  BY ZenonT(30), <2>3, <2>4
  <1>6. CASE Verify
    BY <1>6, VerifyServed DEF Served!Next
  <1>7. CASE EventsCommit
    BY <1>7, EventsServed DEF Served!Next
  <1>8. CASE Count
    BY <1>8, CountServed DEF Served!Next
  <1>9. CASE ~Service /\ ~Verify /\ ~EventsCommit /\ ~Count
    <2>1. /\ TargetOpen' = TargetOpen /\ UNCHANGED <<req, small, events, tevents>>
          /\ TargetOpen => UNCHANGED <<treq, tsmall>>
          /\ (phase = "complete")' = (phase = "complete")
      BY <1>9, Unserved
    <2>q. QED  BY Zenon, <2>1 DEF Served!vars
  <1>q. QED
    BY ZenonT(30), <1>2, <1>3, <1>4, <1>5, <1>6, <1>7, <1>8, <1>9 DEF Service, Served!Next

(* To the service the two databases and the copy between them are one      *)
(* store, which changes hands once: with every row, but for the digits of  *)
(* a time that PostgreSQL cannot hold, and with no event that was not      *)
(* there before.  The events it then lacks come back, and are all there    *)
(* when the migration says that it is complete.                            *)
THEOREM MigrationIsInvisible ==
  ASSUME NoLateUnseal
  PROVE  Spec => ServedAsOne
  <1>1. Init => Served!Init
    <2> SUFFICES ASSUME Init PROVE Served!Init
        OBVIOUS
    <2>1. ~TargetOpen /\ {e \in EventIds : tevents[e] = "pg"} = {} /\ phase # "complete"
      BY ZenonT(30) DEF Init, TargetOpen
    <2>2. events \subseteq Nat
      <3>1. eseq \in EventIds \cup {0} /\ events \in SUBSET (1 .. eseq)
        BY Zenon DEF Init
      <3>q. QED  BY <3>1, SizesAssumption DEF EventIds
    <2>3. events \cup {e \in EventIds : tevents[e] = "pg"} = events
      BY Zenon, <2>1
    <2>q. QED  BY Zenon, <2>1, <2>2, <2>3 DEF Init, Served!Init, Table
  <1>2. Inv /\ [Next]_vars => [Served!Next]_(Served!vars)
    <2>1. UNCHANGED vars => UNCHANGED Served!vars
      BY Zenon DEF vars, source, target, TargetOpen, Served!vars
    <2>q. QED  BY Zenon, <2>1, ServedStep
  <1>q. QED  BY <1>1, <1>2, Invariance, PTL DEF Spec, ServedAsOne, Served!Spec
=============================================================================
