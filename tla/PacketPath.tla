---------------------------- MODULE PacketPath ----------------------------
(***************************************************************************)
(* From a ban to the packets it drops: the target of a ban request is one  *)
(* prefix, the selector of a scoped ban is resolved (PrefixResolve); the   *)
(* executor writes each prefix with its deadline to one of the two tries   *)
(* (cmd/xdpban executor.go, internal/banmap), and the XDP program looks a  *)
(* packet up in both (bpf/xdp_filter.c).  Nothing deletes an entry that    *)
(* has expired.                                                            *)
(*                                                                         *)
(* One ban is on its way at a time; how several interleave is the subject  *)
(* of ScopedBans.  Time passes at any step but those of the resolution,    *)
(* which reads no clock.                                                   *)
(***************************************************************************)
EXTENDS PrefixResolve

CONSTANTS
  Hosts,       \* protected hosts
  Bystander,   \* a destination no ban names
  Everywhere,  \* the table of a ban for all destinations, src_ban_global
  Targets,     \* prefixes that ban requests name
  TTLs,        \* lifetimes of bans, 0 for a permanent one
  BootTime,    \* banMaps.bootTime on the clock of the kernel: 0 if /proc/uptime told
               \* it exactly, more by what it rounds off, less if the host slept
  MaxBans,     \* bound on submissions
  MaxTime      \* bound on the clock

Tables == Hosts \cup {Everywhere}
Destinations == Hosts \cup {Bystander}

\* addrs: history, the addresses the row was to cover.
Rows == [table : Tables, prefixes : SUBSET Prefixes, addrs : SUBSET Nat, ttl : Nat]
MapEntries == [table : Tables, addr : Address, len : 0 .. Width, deadline : Nat]
Aligned(p) == p.addr % Size[p.len] = 0

ASSUME PathAssumption ==
  /\ {Everywhere, Bystander} \cap Hosts = {} /\ Everywhere # Bystander
  /\ Targets \subseteq Prefixes /\ \A p \in Targets : Aligned(p)
  /\ TTLs \subseteq Nat /\ BootTime \in Int
  /\ MaxBans \in Nat /\ MaxTime \in Nat
  /\ None \notin Rows \cup MapEntries

VARIABLES
  bans,     \* src_ban_global and src_ban: prefixes and their expires_at
  known,    \* target_hosts: hosts with a target id
  now,      \* bpf_ktime_get_ns()
  phase,    \* "idle", "resolve", or what the executor does with a row
  table, ttl,  \* of the scoped ban being resolved
  queue,    \* rows of dispatch not yet applied
  row,      \* the row being applied or revoked, None between two
  deadline, \* of the row being applied
  todo,     \* its prefixes left to write or to delete
  given,    \* rows applied and not revoked, with their deadlines
  submitted \* submissions so far

maps == <<bans, known>>
executor == <<queue, row, deadline, todo, given>>
form == <<phase, table, ttl>>
pvars == <<rvars, maps, now, form, executor, submitted>>

Key(e) == [table |-> e.table, addr |-> e.addr, len |-> e.len]

PathTypeOK ==
  /\ ResolveTypeOK
  /\ bans \subseteq MapEntries
  /\ \A e, f \in bans : Key(e) = Key(f) => e = f
  /\ \A e \in bans : Aligned(e)
  /\ known \subseteq Hosts
  /\ now \in 0 .. MaxTime /\ deadline \in Nat
  /\ phase \in {"idle", "resolve", "put", "delete"}
  /\ table \in Tables /\ ttl \in TTLs \cup {0}
  /\ queue \subseteq Rows
  /\ row = None \/ row \in Rows
  /\ todo \subseteq Prefixes
  /\ \A g \in given : g.row \in Rows /\ g.deadline \in Nat
  /\ submitted \in 0 .. MaxBans

PathInit ==
  /\ ResolveInit
  /\ bans = {} /\ known = {} /\ now = 0
  /\ phase = "idle" /\ table = Everywhere /\ ttl = 0
  /\ queue = {} /\ row = None /\ deadline = 0 /\ todo = {}
  /\ given = {} /\ submitted = 0

------------------------------------------------------------------------------
(* xdp_filter *)

\* Variant: the deadline is taken for the moment the ban starts.
IsExpiredReversed(e) == e.deadline # 0 /\ now < e.deadline

IsExpired(e) == e.deadline # 0 /\ now > e.deadline

Hits(t, a) == {e \in bans : e.table = t /\ a \in Members(e)}

\* bpf_map_lookup_elem on an LPM trie: the longest prefix, or nothing.
Lookup(t, a) ==
  IF Hits(t, a) = {} THEN None
  ELSE CHOOSE e \in Hits(t, a) : \A f \in Hits(t, a) : f.len <= e.len

\* Variant: the second lookup does not look at the deadline.
DropsExpired(src, dst) ==
  LET gv == Lookup(Everywhere, src)
      bv == Lookup(dst, src) IN
  \/ gv # None /\ ~IsExpired(gv)
  \/ gv = None /\ dst \in known /\ bv # None

\* An expired entry found first passes the packet, whatever else would match it.
Drops(src, dst) ==
  LET gv == Lookup(Everywhere, src)
      bv == Lookup(dst, src) IN
  \/ gv # None /\ ~IsExpired(gv)
  \/ gv = None /\ dst \in known /\ bv # None /\ ~IsExpired(bv)

Dropped == {pkt \in Address \X Destinations : Drops(pkt[1], pkt[2])}

------------------------------------------------------------------------------
(* The rows that a decided ban leaves in dispatch *)

Ready == phase = "idle" /\ queue = {} /\ submitted < MaxBans

\* CreateDispatch: one row for the target of a ban request.
BanRequest(p, secs) ==
  /\ Ready
  /\ submitted' = submitted + 1
  /\ queue' = {[table |-> Everywhere, prefixes |-> {p}, addrs |-> Members(p), ttl |-> secs]}
  /\ UNCHANGED <<rvars, maps, now, form, row, deadline, todo, given>>

\* A scoped ban without a host has no ttl.
ScopedBan(s, t, secs) ==
  /\ Ready
  /\ t = Everywhere => secs = 0
  /\ submitted' = submitted + 1
  /\ Resolve(s)
  /\ phase' = "resolve" /\ table' = t /\ ttl' = secs
  /\ UNCHANGED <<maps, now, executor>>

Resolving ==
  /\ phase = "resolve"
  /\ ResolveStep
  /\ UNCHANGED <<maps, now, form, executor, submitted>>

\* One row with all prefixes for a host, one row per prefix for all destinations.
ScopedRows ==
  IF table # Everywhere
    THEN {[table |-> table, prefixes |-> out, addrs |-> Wanted(sel), ttl |-> ttl]}
    ELSE {[table |-> table, prefixes |-> {p}, addrs |-> Wanted(sel) \cap Members(p),
           ttl |-> ttl] : p \in out}

\* No prefix at all is refused.
Dispatch ==
  /\ phase = "resolve"
  /\ queue' = IF out = {} THEN {} ELSE ScopedRows
  /\ phase' = "idle"
  /\ Return
  /\ UNCHANGED <<maps, now, table, ttl, row, deadline, todo, given, submitted>>

------------------------------------------------------------------------------
(* banMaps.Apply, RevokeGlobal and RevokeScoped *)

Lowest(p, P) == p \in P /\ \A q \in P : p.addr <= q.addr
First(r) == \E p \in r.prefixes : Lowest(p, UNION {q.prefixes : q \in queue})

\* now.Sub(bootTime) reads the monotonic clock, and is not taken below zero.
Uptime == IF now < BootTime THEN 0 ELSE now - BootTime

KtimeDeadline(secs) == IF secs = 0 THEN 0 ELSE Uptime + secs

\* Variant: the host is not registered when it is new.
ApplyUnregistered(r) ==
  /\ phase = "idle" /\ r \in queue /\ First(r)
  /\ phase' = "put" /\ row' = r /\ todo' = r.prefixes
  /\ queue' = queue \ {r}
  /\ deadline' = KtimeDeadline(r.ttl)
  /\ known' = known \cup ({g.row.table : g \in given} \ {Everywhere})
  /\ UNCHANGED <<rvars, bans, now, table, ttl, given, submitted>>

\* One deadline for the row, and ensureTarget before its first prefix.
Apply(r) ==
  /\ phase = "idle" /\ r \in queue /\ First(r)
  /\ phase' = "put" /\ row' = r /\ todo' = r.prefixes
  /\ queue' = queue \ {r}
  /\ deadline' = KtimeDeadline(r.ttl)
  /\ known' = known \cup ({r.table} \ {Everywhere})
  /\ UNCHANGED <<rvars, bans, now, table, ttl, given, submitted>>

\* Put replaces the value under the key, also that of another ban.
PutPrefix(p) ==
  /\ phase = "put" /\ Lowest(p, todo)
  /\ LET e == [table |-> row.table, addr |-> p.addr, len |-> p.len, deadline |-> deadline] IN
     bans' = {f \in bans : Key(f) # Key(e)} \cup {e}
  /\ todo' = todo \ {p}
  /\ given' = given \cup {[row |-> row, deadline |-> deadline]}
  /\ IF todo' = {} THEN phase' = "idle" /\ row' = None ELSE UNCHANGED <<phase, row>>
  /\ UNCHANGED <<rvars, known, now, table, ttl, queue, deadline, submitted>>

Revoke(g) ==
  /\ phase = "idle" /\ g \in given
  /\ phase' = "delete" /\ row' = g.row /\ todo' = g.row.prefixes
  /\ UNCHANGED <<rvars, maps, now, table, ttl, queue, deadline, given, submitted>>

\* The key is deleted, whichever ban wrote it last.
DeletePrefix(p) ==
  /\ phase = "delete" /\ Lowest(p, todo)
  /\ bans' = {f \in bans : Key(f) # [table |-> row.table, addr |-> p.addr, len |-> p.len]}
  /\ todo' = todo \ {p}
  /\ IF todo' # {} THEN UNCHANGED <<phase, row, given>>
     ELSE /\ phase' = "idle" /\ row' = None
          /\ given' = {g \in given : g.row # row}
  /\ UNCHANGED <<rvars, known, now, table, ttl, queue, deadline, submitted>>

Tick ==
  /\ now < MaxTime /\ phase # "resolve"
  /\ now' = now + 1
  /\ UNCHANGED <<rvars, maps, form, executor, submitted>>

PathNext ==
  \/ \E p \in Targets, secs \in TTLs : BanRequest(p, secs)
  \/ \E s \in Selectors, t \in Tables, secs \in TTLs : ScopedBan(s, t, secs)
  \/ Resolving
  \/ Dispatch
  \/ \E r \in queue : Apply(r)
  \/ \E p \in todo : PutPrefix(p)
  \/ \E g \in given : Revoke(g)
  \/ \E p \in todo : DeletePrefix(p)
  \/ Tick

PathSpec == PathInit /\ [][PathNext]_pvars

------------------------------------------------------------------------------
(* Properties *)

Live(until) == until = 0 \/ now <= until
Concerns(t, dst) == t \in {Everywhere, dst}

\* A packet is dropped only when some ban that has not run out was to cover its
\* source, towards its destination or everywhere - through the split into prefixes,
\* entries of other bans that are replaced or deleted, and two overlapping tries.
DropsOnlyBanned ==
  \A pkt \in Dropped :
    \E g \in given : /\ pkt[1] \in g.row.addrs
                     /\ Concerns(g.row.table, pkt[2]) /\ Live(g.deadline)

\* An entry that has not run out drops what it covers, unless one that has run out
\* covers it as well: that is the only way a written ban fails to be enforced.
DropsUnlessShadowed ==
  \A a \in Address, dst \in Destinations :
    LET es == {e \in bans : a \in Members(e) /\ Concerns(e.table, dst)} IN
    (es # {} /\ \A e \in es : Live(e.deadline)) => Drops(a, dst)

\* The kernel decides expiry by comparing clocks, there is no sweeper (README.md):
\* time alone lets packets through, it never starts to drop any.
TimeOnlyReleases == [][Tick => Dropped' \subseteq Dropped]_pvars
==============================================================================
