-------------------------- MODULE PacketPathProofs --------------------------
(***************************************************************************)
(* Theorems about PacketPath for addresses of any width, any number of     *)
(* bans and any prefix library.  The resolver inside it is the one of      *)
(* PrefixResolve, whose invariant is taken over; on top of it each entry   *)
(* of a map is traced to a row that still holds it there.                  *)
(***************************************************************************)
EXTENDS PacketPath, PrefixResolveProofs

------------------------------------------------------------------------------
(* The resolver *)

LEMMA PathStepResolves ==
  ASSUME [PathNext]_pvars
  PROVE  [ResolveNext]_rvars
<1>1. CASE \E p \in Targets, secs \in TTLs : BanRequest(p, secs)
  BY <1>1 DEF BanRequest
<1>2. CASE \E s \in Selectors, t \in Tables, secs \in TTLs : ScopedBan(s, t, secs)
  BY <1>2 DEF ScopedBan, ResolveNext
<1>3. CASE Resolving
  BY <1>3 DEF Resolving, ResolveNext
<1>4. CASE Dispatch
  BY <1>4 DEF Dispatch, ResolveNext
<1>5. CASE \E r \in queue : Apply(r)
  BY <1>5 DEF Apply
<1>6. CASE \E p \in todo : PutPrefix(p)
  BY <1>6 DEF PutPrefix
<1>7. CASE \E g \in given : Revoke(g)
  BY <1>7 DEF Revoke
<1>8. CASE \E p \in todo : DeletePrefix(p)
  BY <1>8 DEF DeletePrefix
<1>9. CASE Tick
  BY <1>9 DEF Tick
<1>10. CASE UNCHANGED pvars
  BY <1>10 DEF pvars
<1> QED
  BY <1>1, <1>2, <1>3, <1>4, <1>5, <1>6, <1>7, <1>8, <1>9, <1>10 DEF PathNext

\* The packet path resolves selectors as PrefixResolve does, whatever it does with
\* the result: what is proved of the resolver holds here.
THEOREM PathRefinesResolve == PathSpec => ResolveSpec
<1>1. PathInit => ResolveInit
  BY DEF PathInit
<1>2. [PathNext]_pvars => [ResolveNext]_rvars
  BY PathStepResolves
<1> QED
  BY <1>1, <1>2, PTL DEF PathSpec, ResolveSpec

------------------------------------------------------------------------------
(* The inductive invariant *)

\* A row covers what it was given for, no prefix of it reaches further.
Covering(r) == \A p \in r.prefixes : Aligned(p) /\ Members(p) \subseteq r.addrs

\* The executor has a row exactly while it works on one.
RowInv ==
  /\ phase \in {"put", "delete"} <=> row # None
  /\ row # None => Covering(row) /\ todo \subseteq row.prefixes
  /\ \A r \in queue : Covering(r)
  /\ \A g \in given : Covering(g.row)

\* The resolver runs between a submission and its dispatch only.
FormInv == phase = "resolve" <=> stage # "idle"

\* Entry e is in its map because of the row of g.
Holds(g, e) ==
  /\ g.row.table = e.table /\ g.deadline = e.deadline
  /\ \E p \in g.row.prefixes : p.addr = e.addr /\ p.len = e.len

\* Every entry is held by a row that was not revoked.
HeldInv == \A e \in bans : \E g \in given : Holds(g, e)

\* What the revocation of the row at hand has passed is gone.
DeletedInv ==
  phase = "delete" =>
    \A e \in bans, p \in row.prefixes :
      e.table = row.table /\ e.addr = p.addr /\ e.len = p.len => p \in todo

\* target_hosts has the host of every entry of src_ban.
KnownInv ==
  /\ \A e \in bans : e.table \in known \cup {Everywhere}
  /\ phase = "put" => row.table \in known \cup {Everywhere}

PInv ==
  /\ RInv /\ PathTypeOK
  /\ RowInv /\ FormInv /\ HeldInv /\ DeletedInv /\ KnownInv

LEMMA PInit == PathInit => PInv
<1> SUFFICES ASSUME PathInit PROVE PInv
  OBVIOUS
<1>1. RInv
  BY RInit DEF PathInit
<1>2. PathTypeOK
  BY <1>1, PathAssumption DEF PathAssumption, PathInit, PathTypeOK, RInv, Tables
<1> QED
  BY <1>1, <1>2, PathAssumption
     DEF PathAssumption, PathInit, ResolveInit, Idle, PInv, RowInv, FormInv, HeldInv,
         DeletedInv, KnownInv

------------------------------------------------------------------------------
(* One lemma per action *)

\* A row that covers p may be written whatever else it holds.
LEMMA BanRequestInv ==
  ASSUME PInv, RInv', NEW p \in Targets, NEW secs \in TTLs, BanRequest(p, secs)
  PROVE  PInv'
<1> DEFINE r == [table |-> Everywhere, prefixes |-> {p}, addrs |-> Members(p), ttl |-> secs]
<1>1. /\ phase = "idle" /\ queue' = {r} /\ submitted < MaxBans /\ submitted' = submitted + 1
      /\ UNCHANGED <<maps, now, form, row, deadline, todo, given, stage>>
  BY DEF BanRequest, Ready, rvars, resolving
<1>2. r \in Rows /\ Covering(r)
  <2>1. p \in Prefixes /\ Aligned(p) /\ secs \in Nat
    BY PathAssumption DEF PathAssumption
  <2>2. Members(p) \subseteq Nat
    BY <2>1, TopIsNat, ResolveAssumption DEF ResolveAssumption, Members, Prefixes, Address
  <2> QED
    BY <2>1, <2>2 DEF Rows, Covering, Tables
<1> HIDE DEF r
<1>3. PathTypeOK'
  BY <1>1, <1>2, PathAssumption
     DEF PathAssumption, PInv, RInv, PathTypeOK, maps, form, Aligned
<1>4. RowInv' /\ FormInv'
  BY <1>1, <1>2 DEF PInv, RowInv, FormInv, form, Covering, Aligned, Members
<1>5. HeldInv' /\ DeletedInv' /\ KnownInv'
  BY <1>1 DEF PInv, HeldInv, Holds, DeletedInv, KnownInv, form, maps
<1> QED
  BY <1>3, <1>4, <1>5 DEF PInv

LEMMA ScopedBanInv ==
  ASSUME PInv, RInv', NEW s \in Selectors, NEW t \in Tables, NEW secs \in TTLs,
         ScopedBan(s, t, secs)
  PROVE  PInv'
<1>1. /\ phase = "idle" /\ phase' = "resolve" /\ table' = t /\ ttl' = secs
      /\ stage' # "idle" /\ submitted < MaxBans /\ submitted' = submitted + 1
      /\ UNCHANGED <<maps, now, executor>>
  BY DEF ScopedBan, Ready, Resolve
<1>2. PathTypeOK'
  BY <1>1, PathAssumption DEF PathAssumption, PInv, RInv, PathTypeOK, maps, executor, Aligned
<1>3. RowInv' /\ FormInv'
  BY <1>1 DEF PInv, RowInv, FormInv, executor, Covering, Aligned, Members
<1>4. HeldInv' /\ DeletedInv' /\ KnownInv'
  BY <1>1 DEF PInv, HeldInv, Holds, DeletedInv, KnownInv, executor, maps
<1> QED
  BY <1>2, <1>3, <1>4 DEF PInv

LEMMA ResolvingInv ==
  ASSUME PInv, RInv', Resolving
  PROVE  PInv'
<1>1. /\ phase = "resolve" /\ stage' # "idle"
      /\ UNCHANGED <<maps, now, form, executor, submitted>>
  BY DEF Resolving, ResolveStep, Merge, MergeLast, NextRange, Split, Done
<1>2. PathTypeOK'
  BY <1>1 DEF PInv, RInv, PathTypeOK, maps, form, executor, Aligned
<1>3. RowInv' /\ FormInv'
  BY <1>1 DEF PInv, RowInv, FormInv, form, executor, Covering, Aligned, Members
<1>4. HeldInv' /\ DeletedInv' /\ KnownInv'
  BY <1>1 DEF PInv, HeldInv, Holds, DeletedInv, KnownInv, form, executor, maps
<1> QED
  BY <1>2, <1>3, <1>4 DEF PInv

\* The rows of a resolved selector cover what it names.
LEMMA ScopedRowsCover ==
  ASSUME PInv, stage = "done", NEW r \in ScopedRows
  PROVE  r \in Rows /\ Covering(r)
<1>1. out \subseteq Prefixes /\ \A p \in out : Aligned(p)
  BY DEF PInv, RInv, ResolveTypeOK, AlignInv, Aligned
<1>2. \A p \in out : Members(p) \subseteq Wanted(sel)
  BY ExactWhenDone DEF PInv, ResolveIsExact, Block
<1>3. Wanted(sel) \subseteq Nat
  BY TopIsNat DEF PInv, RInv, ResolveTypeOK, Wanted, Entries, Address
<1>4. table \in Tables /\ ttl \in Nat
  BY PathAssumption DEF PathAssumption, PInv, PathTypeOK
<1>5. CASE r = [table |-> table, prefixes |-> out, addrs |-> Wanted(sel), ttl |-> ttl]
  BY <1>1, <1>2, <1>3, <1>4, <1>5 DEF Rows, Covering
<1>6. CASE \E p \in out :
             r = [table |-> table, prefixes |-> {p}, addrs |-> Wanted(sel) \cap Members(p),
                  ttl |-> ttl]
  BY <1>1, <1>2, <1>3, <1>4, <1>6 DEF Rows, Covering
<1> QED
  BY <1>5, <1>6 DEF ScopedRows

LEMMA DispatchInv ==
  ASSUME PInv, RInv', Dispatch
  PROVE  PInv'
<1>1. /\ phase = "resolve" /\ phase' = "idle" /\ stage = "done" /\ stage' = "idle"
      /\ UNCHANGED <<maps, now, table, ttl, row, deadline, todo, given, submitted>>
  BY DEF Dispatch, Return
<1>2. \A r \in queue' : r \in Rows /\ Covering(r)
  BY <1>1, ScopedRowsCover DEF Dispatch
<1>3. PathTypeOK'
  BY <1>1, <1>2 DEF PInv, RInv, PathTypeOK, maps, Aligned
<1>4. RowInv' /\ FormInv'
  BY <1>1, <1>2 DEF PInv, RowInv, FormInv, Covering, Aligned, Members
<1>5. HeldInv' /\ DeletedInv' /\ KnownInv'
  BY <1>1 DEF PInv, HeldInv, Holds, DeletedInv, KnownInv, maps
<1> QED
  BY <1>3, <1>4, <1>5 DEF PInv

LEMMA ApplyInv ==
  ASSUME PInv, RInv', NEW r \in queue, Apply(r)
  PROVE  PInv'
<1>1. /\ phase = "idle" /\ phase' = "put" /\ row' = r /\ todo' = r.prefixes
      /\ queue' = queue \ {r} /\ deadline' = KtimeDeadline(r.ttl)
      /\ known' = known \cup ({r.table} \ {Everywhere})
      /\ UNCHANGED <<stage, bans, now, table, ttl, given, submitted>>
  BY DEF Apply, rvars, resolving
<1>2. r \in Rows /\ Covering(r) /\ r # None
  BY PathAssumption DEF PathAssumption, PInv, PathTypeOK, RowInv
<1>3. r.table \in Tables /\ r.prefixes \subseteq Prefixes /\ r.ttl \in Nat
  BY <1>2 DEF Rows
<1>4. KtimeDeadline(r.ttl) \in Nat
  BY <1>3, PathAssumption DEF PathAssumption, KtimeDeadline, Uptime, PInv, PathTypeOK
<1>5. PathTypeOK'
  BY <1>1, <1>2, <1>3, <1>4 DEF PInv, RInv, PathTypeOK, Aligned, Tables
<1>6. RowInv' /\ FormInv'
  BY <1>1, <1>2 DEF PInv, RowInv, FormInv, Covering, Aligned, Members
<1>7. HeldInv' /\ DeletedInv' /\ KnownInv'
  BY <1>1, <1>3 DEF PInv, HeldInv, Holds, DeletedInv, KnownInv
<1> QED
  BY <1>5, <1>6, <1>7 DEF PInv

LEMMA PutPrefixInv ==
  ASSUME PInv, RInv', NEW p \in todo, PutPrefix(p)
  PROVE  PInv'
<1> DEFINE e == [table |-> row.table, addr |-> p.addr, len |-> p.len, deadline |-> deadline]
           g == [row |-> row, deadline |-> deadline]
<1>1. /\ phase = "put" /\ phase' \in {"idle", "put"} /\ todo' = todo \ {p}
      /\ bans' = {f \in bans : Key(f) # Key(e)} \cup {e}
      /\ given' = given \cup {g}
      /\ (row' = row /\ phase' = "put") \/ (row' = None /\ phase' = "idle")
      /\ UNCHANGED <<stage, known, now, table, ttl, queue, deadline, submitted>>
  BY DEF PutPrefix, rvars, resolving
<1>2. /\ row \in Rows /\ row # None /\ Covering(row)
      /\ p \in row.prefixes /\ p \in Prefixes /\ Aligned(p) /\ deadline \in Nat
  BY <1>1 DEF PInv, PathTypeOK, RowInv, Covering
<1>3. e \in MapEntries /\ Aligned(e)
  BY <1>2 DEF Rows, Prefixes, MapEntries, Aligned
<1>4. g.row = row /\ g.deadline = deadline /\ Holds(g, e)
  BY <1>2 DEF Holds
<1> HIDE DEF e, g
<1>5. PathTypeOK'
  <2>1. \A f, h \in bans' : Key(f) = Key(h) => f = h
    BY <1>1 DEF PInv, PathTypeOK
  <2>2. bans' \subseteq MapEntries /\ \A f \in bans' : Aligned(f)
    BY <1>1, <1>3 DEF PInv, PathTypeOK
  <2> QED
    BY <1>1, <1>2, <1>4, <2>1, <2>2 DEF PInv, RInv, PathTypeOK, Aligned, Key
<1>6. RowInv' /\ FormInv'
  BY <1>1, <1>2, <1>4 DEF PInv, RowInv, FormInv, Covering, Aligned, Members
<1>7. HeldInv' /\ DeletedInv'
  BY <1>1, <1>4 DEF PInv, HeldInv, Holds, DeletedInv
<1>8. KnownInv'
  BY <1>1 DEF PInv, KnownInv, e
<1> QED
  BY <1>5, <1>6, <1>7, <1>8 DEF PInv

LEMMA RevokeInv ==
  ASSUME PInv, RInv', NEW g \in given, Revoke(g)
  PROVE  PInv'
<1>1. /\ phase = "idle" /\ phase' = "delete" /\ row' = g.row /\ todo' = g.row.prefixes
      /\ UNCHANGED <<stage, maps, now, table, ttl, queue, deadline, given, submitted>>
  BY DEF Revoke, rvars, resolving
<1>2. g.row \in Rows /\ g.row # None /\ g.row.prefixes \subseteq Prefixes /\ Covering(g.row)
  BY PathAssumption DEF PathAssumption, PInv, PathTypeOK, RowInv, Rows
<1>3. PathTypeOK'
  BY <1>1, <1>2 DEF PInv, RInv, PathTypeOK, Aligned, maps
<1>4. RowInv' /\ FormInv'
  BY <1>1, <1>2 DEF PInv, RowInv, FormInv, Covering, Aligned, Members
<1>5. HeldInv' /\ DeletedInv' /\ KnownInv'
  BY <1>1 DEF PInv, HeldInv, Holds, DeletedInv, KnownInv, maps
<1> QED
  BY <1>3, <1>4, <1>5 DEF PInv

\* The last deletion of a row leaves no entry that only this row held.
LEMMA DeletePrefixInv ==
  ASSUME PInv, RInv', NEW p \in todo, DeletePrefix(p)
  PROVE  PInv'
<1> DEFINE k == [table |-> row.table, addr |-> p.addr, len |-> p.len]
<1>1. /\ phase = "delete" /\ todo' = todo \ {p}
      /\ bans' = {f \in bans : Key(f) # k}
      /\ UNCHANGED <<stage, known, now, table, ttl, queue, deadline, submitted>>
  BY DEF DeletePrefix, rvars, resolving
<1>2. \/ phase' = "delete" /\ row' = row /\ given' = given
      \/ /\ todo' = {} /\ phase' = "idle" /\ row' = None
         /\ given' = {g \in given : g.row # row}
  BY <1>1 DEF DeletePrefix
<1>3. /\ row \in Rows /\ row # None /\ todo \subseteq row.prefixes /\ todo \subseteq Prefixes
      /\ given' \subseteq given
  BY <1>1, <1>2 DEF PInv, PathTypeOK, RowInv
<1>4. \A e \in bans' : e \in bans
                      /\ ~ (e.table = row.table /\ e.addr = p.addr /\ e.len = p.len)
  BY <1>1 DEF Key
<1>5. PathTypeOK'
  <2>1. bans' \subseteq bans
    BY <1>4
  <2>2. /\ bans' \subseteq MapEntries /\ (\A e \in bans' : Aligned(e))
        /\ \A e, f \in bans' : Key(e) = Key(f) => e = f
    BY <2>1 DEF PInv, PathTypeOK
  <2> QED
    BY <1>1, <1>2, <1>3, <2>2 DEF PInv, RInv, PathTypeOK, Aligned, Key
<1>6. RowInv' /\ FormInv'
  BY <1>1, <1>2, <1>3 DEF PInv, RowInv, FormInv, Covering, Aligned, Members
<1>7. DeletedInv'
  BY <1>1, <1>2, <1>4 DEF PInv, DeletedInv
<1>8. HeldInv'
  <2> SUFFICES ASSUME NEW e \in bans'
               PROVE  \E g \in given' : Holds(g, e)
    BY DEF HeldInv, Holds
  <2>1. PICK g \in given : Holds(g, e)
    BY <1>4 DEF PInv, HeldInv
  <2>2. CASE phase' = "delete" /\ given' = given
    BY <2>1, <2>2
  <2>3. CASE todo' = {} /\ given' = {h \in given : h.row # row}
    <3>1. g.row # row
      <4> SUFFICES ASSUME g.row = row PROVE FALSE
        OBVIOUS
      <4>1. PICK q \in row.prefixes : q.addr = e.addr /\ q.len = e.len
        BY <2>1 DEF Holds
      <4>2. e \in bans /\ e.table = row.table
        BY <1>4, <2>1 DEF Holds
      <4>3. q \in todo
        BY <1>1, <4>1, <4>2 DEF PInv, DeletedInv
      <4>4. q = p
        BY <1>1, <2>3, <4>3
      <4> QED
        BY <1>4, <4>1, <4>2, <4>4
    <3> QED
      BY <2>1, <2>3, <3>1
  <2> QED
    BY <1>2, <2>2, <2>3
<1>9. KnownInv'
  BY <1>1, <1>2, <1>4 DEF PInv, KnownInv
<1> QED
  BY <1>5, <1>6, <1>7, <1>8, <1>9 DEF PInv

LEMMA TickInv ==
  ASSUME PInv, RInv', Tick
  PROVE  PInv'
<1>1. /\ now \in 0 .. MaxTime /\ now' \in 0 .. MaxTime
      /\ UNCHANGED <<stage, maps, form, executor, submitted>>
  BY PathAssumption DEF PathAssumption, Tick, PInv, PathTypeOK, rvars, resolving
<1>2. PathTypeOK'
  BY <1>1 DEF PInv, RInv, PathTypeOK, maps, form, executor, Aligned
<1>3. RowInv' /\ FormInv'
  BY <1>1 DEF PInv, RowInv, FormInv, form, executor, Covering, Aligned, Members
<1>4. HeldInv' /\ DeletedInv' /\ KnownInv'
  BY <1>1 DEF PInv, HeldInv, Holds, DeletedInv, KnownInv, form, executor, maps
<1> QED
  BY <1>2, <1>3, <1>4 DEF PInv

LEMMA PStutter ==
  ASSUME PInv, RInv', UNCHANGED pvars
  PROVE  PInv'
<1>1. UNCHANGED <<stage, maps, now, form, executor, submitted>>
  BY DEF pvars, rvars, resolving
<1>2. PathTypeOK'
  BY <1>1 DEF PInv, RInv, PathTypeOK, maps, form, executor, Aligned
<1>3. RowInv' /\ FormInv'
  BY <1>1 DEF PInv, RowInv, FormInv, form, executor, Covering, Aligned, Members
<1>4. HeldInv' /\ DeletedInv' /\ KnownInv'
  BY <1>1 DEF PInv, HeldInv, Holds, DeletedInv, KnownInv, form, executor, maps
<1> QED
  BY <1>2, <1>3, <1>4 DEF PInv

LEMMA PNext == PInv /\ [PathNext]_pvars => PInv'
<1> SUFFICES ASSUME PInv, [PathNext]_pvars PROVE PInv'
  OBVIOUS
<1>0. RInv'
  BY RNext, PathStepResolves DEF PInv
<1>1. CASE \E p \in Targets, secs \in TTLs : BanRequest(p, secs)
  BY <1>0, <1>1, BanRequestInv
<1>2. CASE \E s \in Selectors, t \in Tables, secs \in TTLs : ScopedBan(s, t, secs)
  BY <1>0, <1>2, ScopedBanInv
<1>3. CASE Resolving
  BY <1>0, <1>3, ResolvingInv
<1>4. CASE Dispatch
  BY <1>0, <1>4, DispatchInv
<1>5. CASE \E r \in queue : Apply(r)
  BY <1>0, <1>5, ApplyInv
<1>6. CASE \E p \in todo : PutPrefix(p)
  BY <1>0, <1>6, PutPrefixInv
<1>7. CASE \E g \in given : Revoke(g)
  BY <1>0, <1>7, RevokeInv
<1>8. CASE \E p \in todo : DeletePrefix(p)
  BY <1>0, <1>8, DeletePrefixInv
<1>9. CASE Tick
  BY <1>0, <1>9, TickInv
<1>10. CASE UNCHANGED pvars
  BY <1>0, <1>10, PStutter
<1> QED
  BY <1>1, <1>2, <1>3, <1>4, <1>5, <1>6, <1>7, <1>8, <1>9, <1>10 DEF PathNext

LEMMA PInvariant == PathSpec => []PInv
<1> QED
  BY PInit, PNext, PTL DEF PathSpec

------------------------------------------------------------------------------
(* Lookup *)

\* A trie that has an entry for an address gives one: the longest exists.
LEMMA LookupHits ==
  ASSUME PathTypeOK, NEW t, NEW a
  PROVE  /\ Hits(t, a) = {} => Lookup(t, a) = None
         /\ Hits(t, a) # {} => Lookup(t, a) \in Hits(t, a) /\ Lookup(t, a) # None
<1> DEFINE H == Hits(t, a)
           T == {Width - e.len : e \in H}
<1>1. H \subseteq MapEntries /\ None \notin H
  BY PathAssumption DEF PathAssumption, PathTypeOK, Hits
<1>2. ASSUME H # {}
      PROVE  \E e \in H : \A f \in H : f.len <= e.len
  <2>1. Width \in Nat /\ \A e \in H : e.len \in 0 .. Width
    BY <1>1, ResolveAssumption DEF ResolveAssumption, MapEntries
  <2>2. T \subseteq 0 .. Width /\ T # {}
    BY <1>2, <2>1
  <2>3. PICK n \in T : \A m \in T : n <= m
    BY <2>1, <2>2, LeastElement
  <2>4. PICK e \in H : n = Width - e.len
    BY <2>3
  <2>5. \A f \in H : Width - e.len <= Width - f.len
    BY <2>3, <2>4
  <2> QED
    BY <2>1, <2>4, <2>5
<1> QED
  BY <1>1, <1>2 DEF Lookup

------------------------------------------------------------------------------
(* Theorems *)

\* Every variable of the packet path keeps its type, and no map ever has two
\* entries under one key.
THEOREM PathTypeCorrect == PathSpec => []PathTypeOK
<1>1. PInv => PathTypeOK
  BY DEF PInv
<1> QED
  BY <1>1, PInvariant, PTL

\* The prefixes of a scoped ban cover its country and AS number exactly.
THEOREM PathResolveExact == PathSpec => []ResolveIsExact
BY PathRefinesResolve, ResolveExact, PTL

\* No address is in two of the prefixes a scoped ban is given, and no two of them are
\* halves of one block.
THEOREM PathMinimal == PathSpec => []CoverIsMinimal
BY PathRefinesResolve, ResolveMinimal, PTL

\* Under a local rule the rules alone decide.
THEOREM PathRulesWin == PathSpec => []RulesWin
BY PathRefinesResolve, RulesTakePrecedence, PTL

\* No packet is dropped without a ban that has not run out and was to cover it.
THEOREM DropsAreBanned == PathSpec => []DropsOnlyBanned
<1>1. ASSUME PInv PROVE DropsOnlyBanned
  <2> SUFFICES ASSUME NEW a \in Address, NEW dst \in Destinations, Drops(a, dst)
               PROVE  \E g \in given : /\ a \in g.row.addrs
                                       /\ Concerns(g.row.table, dst) /\ Live(g.deadline)
    BY DEF DropsOnlyBanned, Dropped
  <2>1. PICK t \in {Everywhere, dst} : Lookup(t, a) # None /\ ~IsExpired(Lookup(t, a))
    BY DEF Drops
  <2> DEFINE e == Lookup(t, a)
  <2>2. e \in bans /\ e.table = t /\ a \in Members(e)
    BY <1>1, <2>1, LookupHits DEF PInv, Hits
  <2>3. PICK g \in given : Holds(g, e)
    BY <1>1, <2>2 DEF PInv, HeldInv
  <2>4. a \in g.row.addrs
    BY <1>1, <2>2, <2>3 DEF PInv, RowInv, Covering, Holds, Members
  <2>5. Live(g.deadline)
    <3>1. g.deadline \in Nat /\ now \in Nat
      BY <1>1, PathAssumption DEF PathAssumption, PInv, PathTypeOK
    <3> QED
      BY <2>1, <2>3, <3>1 DEF Holds, IsExpired, Live
  <2> QED
    BY <2>2, <2>3, <2>4, <2>5 DEF Holds, Concerns
<1> QED
  BY <1>1, PInvariant, PTL

\* A live entry is enforced unless one that has run out covers the same address.
THEOREM LiveEntriesDrop == PathSpec => []DropsUnlessShadowed
<1>1. ASSUME PInv PROVE DropsUnlessShadowed
  <2> SUFFICES ASSUME NEW a \in Address, NEW dst \in Destinations,
                      NEW e \in bans, a \in Members(e), Concerns(e.table, dst),
                      \A f \in bans : a \in Members(f) /\ Concerns(f.table, dst)
                                        => Live(f.deadline)
               PROVE  Drops(a, dst)
    BY DEF DropsUnlessShadowed
  <2>1. \A t \in {Everywhere, dst} : Hits(t, a) # {} =>
          Lookup(t, a) # None /\ ~IsExpired(Lookup(t, a))
    <3> SUFFICES ASSUME NEW t \in {Everywhere, dst}, Hits(t, a) # {}
                 PROVE  Lookup(t, a) # None /\ ~IsExpired(Lookup(t, a))
      OBVIOUS
    <3> DEFINE f == Lookup(t, a)
    <3>1. f # None /\ f \in bans /\ f.table = t /\ a \in Members(f)
      BY <1>1, LookupHits DEF PInv, Hits
    <3>2. f.deadline \in Nat /\ now \in Nat
      BY <1>1, <3>1, PathAssumption DEF PathAssumption, PInv, PathTypeOK, MapEntries
    <3>3. Live(f.deadline)
      BY <3>1 DEF Concerns
    <3> QED
      BY <3>1, <3>2, <3>3 DEF IsExpired, Live
  <2>2. CASE Hits(Everywhere, a) # {}
    BY <2>1, <2>2 DEF Drops
  <2>3. CASE Hits(Everywhere, a) = {}
    <3>1. Lookup(Everywhere, a) = None
      BY <1>1, <2>3, LookupHits DEF PInv
    <3>2. e \in Hits(dst, a) /\ e.table = dst /\ dst # Everywhere
      BY <2>3 DEF Hits, Concerns
    <3>3. dst \in known
      BY <1>1, <3>2 DEF PInv, KnownInv
    <3> QED
      BY <2>1, <3>1, <3>2, <3>3 DEF Drops
  <2> QED
    BY <2>2, <2>3
<1> QED
  BY <1>1, PInvariant, PTL

\* Time alone never starts to drop a packet.
THEOREM TimeReleases == PathSpec => TimeOnlyReleases
<1>1. ASSUME PInv, Tick PROVE Dropped' \subseteq Dropped
  <2>1. bans' = bans /\ known' = known /\ now' = now + 1 /\ now \in Nat
    BY <1>1, PathAssumption DEF PathAssumption, Tick, maps, PInv, PathTypeOK
  <2>2. \A t, a : Lookup(t, a)' = Lookup(t, a)
    BY <2>1 DEF Lookup, Hits, Members
  <2>3. ASSUME NEW t, NEW a, Lookup(t, a) # None, IsExpired(Lookup(t, a))
        PROVE  IsExpired(Lookup(t, a))'
    <3> DEFINE e == Lookup(t, a)
    <3>1. e.deadline \in Nat
      BY <1>1, <2>3, LookupHits DEF PInv, PathTypeOK, Hits, MapEntries
    <3>2. e' = e
      BY <2>2
    <3> QED
      BY <2>1, <2>3, <3>1, <3>2 DEF IsExpired
  <2> SUFFICES ASSUME NEW pkt \in Address \X Destinations, Drops(pkt[1], pkt[2])'
               PROVE  Drops(pkt[1], pkt[2])
    BY DEF Dropped
  <2> QED
    BY <2>1, <2>2, <2>3 DEF Drops
<1>2. PInv /\ [PathNext]_pvars => [Tick => Dropped' \subseteq Dropped]_pvars
  BY <1>1
<1> QED
  BY <1>2, PInvariant, PTL DEF PathSpec, TimeOnlyReleases
=============================================================================
