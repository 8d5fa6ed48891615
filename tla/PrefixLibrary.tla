---------------------------- MODULE PrefixLibrary ----------------------------
(***************************************************************************)
(* The prefix library (internal/prefixdb db.go and sync.go, internal/web   *)
(* prefixdb.go): a file of IP ranges and a file of local rules on disk,    *)
(* and the *DB in memory that scoped bans are resolved against.  A sync    *)
(* (a goroutine), an upload and a save of the rules (HTTP handlers) change *)
(* a file and then reload: read the library, lay the rules over it, swap   *)
(* the pointer.  Nothing spans these steps; one action is one of them.     *)
(*                                                                         *)
(* A file is told by its content only.  A temporary file has one writer    *)
(* and is not seen by anybody else: its content is tmp[w].                 *)
(***************************************************************************)
EXTENDS Naturals, FiniteSets

CONSTANTS
  Libraries,   \* contents that normalize accepts and Load reads
  Unloadable,  \* contents that normalize accepts and Load does not: IPv6 only
  Garbage,     \* contents that normalize refuses
  Truncated,   \* what a full disk leaves of a library: flush errors are ignored.
               \* If not even a whole line is left, it is Unloadable
  Rules,       \* contents of overrides.tsv that parse
  Blank,       \* an empty overrides.tsv, or none: parses to no rule
  Broken,      \* an overrides.tsv with a faulty line
  EnvLibrary,  \* the file XDPBAN_PREFIX_DB names, None if unset
  Workers,     \* goroutines
  Faults,      \* whether network, disk and rename, reading and writing may fail
  Restarts,    \* whether the process may stop and start again
  None

Contents == Libraries \cup {Unloadable, Truncated}
Kinds == {"sync", "upload", "save"}

ASSUME LibraryAssumption ==
  /\ EnvLibrary \in Libraries \cup {None}
  /\ Unloadable \notin Libraries \cup {Truncated}
  /\ Broken \notin Rules \cup {Blank}
  /\ None \notin Contents \cup Workers \cup Kinds \cup {Garbage}
                   \cup [file : Libraries \cup {Truncated}, rules : Rules \cup {Blank}]
  /\ {Faults, Restarts} \subseteq BOOLEAN

VARIABLES
  active,      \* ActivePath(): prefixdb.tsv, None while there is none
  overrides,   \* OverridePath(): overrides.tsv
  published,   \* prefixdb.Global(): None, or a library and the rules laid over it
  inProgress,  \* syncStatus.InProgress
  pc, kind,    \* what each worker does next, and on whose behalf
  tmp,         \* the upload, download or text the worker holds
  db,          \* the *DB the worker is loading
  lone,        \* history: the worker that began alone and has been alone since
  settled      \* history: no overlap, manual edit, failed save or failed reading of a
               \* changed file since a lone reload

disk == <<active, overrides>>
history == <<lone, settled>>
workers == <<pc, kind, tmp, db>>
vars == <<disk, published, inProgress, workers, history>>

Loads(file) == file \in Libraries \cup {Truncated}
Parses(text) == text \in Rules \cup {Blank}
Loaded(file, rules) == [file |-> file, rules |-> rules]

Databases == [file : Libraries \cup {Truncated}, rules : Rules \cup {Blank}]
Steps == {"idle", "download", "normalize", "rename", "truncate", "write",
          "load", "override", "publish"}

LibraryTypeOK ==
  /\ active \in Contents \cup {None}
  /\ overrides \in Rules \cup {Blank, Broken}
  /\ published \in Databases \cup {None}
  /\ inProgress \in BOOLEAN
  /\ pc \in [Workers -> Steps]
  /\ kind \in [Workers -> Kinds \cup {None}]
  /\ tmp \in [Workers -> Contents \cup {Garbage} \cup Rules \cup {Blank, None}]
  /\ db \in [Workers -> Databases \cup {None}]
  /\ lone \in Workers \cup {None}
  /\ settled \in BOOLEAN

------------------------------------------------------------------------------
(* loadPrefixDB, before anything is served *)

\* The first candidate that loads is published as it is.  The reload that follows
\* reads prefixdb.tsv whatever the candidate was, and its failure is only logged.
Boot(file, rules) ==
  CASE Loads(file) /\ Parses(rules) -> Loaded(file, rules)
    [] EnvLibrary # None /\ ~(Loads(file) /\ Parses(rules)) -> Loaded(EnvLibrary, Blank)
    [] EnvLibrary = None /\ Loads(file) /\ ~Parses(rules) -> Loaded(file, Blank)
    [] OTHER -> None

\* A file that cannot be read is passed over.
Unread(file) == {None} \cup {Loaded(f, Blank) : f \in {g \in {file, EnvLibrary} : Loads(g)}}

Init ==
  /\ active \in Libraries \cup {None}
  /\ overrides \in Rules \cup {Blank}
  /\ published = Boot(active, overrides)
  /\ inProgress = FALSE
  /\ pc = [w \in Workers |-> "idle"]
  /\ kind = [w \in Workers |-> None]
  /\ tmp = [w \in Workers |-> None]
  /\ db = [w \in Workers |-> None]
  /\ lone = None
  /\ settled = TRUE

------------------------------------------------------------------------------
Quiet == \A w \in Workers : pc[w] = "idle"

Begin(w, what, step, content) ==
  /\ pc[w] = "idle"
  /\ pc' = [pc EXCEPT ![w] = step]
  /\ kind' = [kind EXCEPT ![w] = what]
  /\ tmp' = [tmp EXCEPT ![w] = content]
  /\ lone' = IF Quiet THEN w ELSE None
  /\ settled' = (settled /\ Quiet)
  /\ UNCHANGED db

Goto(w, step) == pc' = [pc EXCEPT ![w] = step] /\ UNCHANGED kind

\* Variant: an early return of SyncFrom does not go through finish.
EndWithoutFinish(w) ==
  /\ pc' = [pc EXCEPT ![w] = "idle"]
  /\ kind' = [kind EXCEPT ![w] = None]
  /\ tmp' = [tmp EXCEPT ![w] = None]
  /\ db' = [db EXCEPT ![w] = None]
  /\ inProgress' = (inProgress /\ (kind[w] # "sync" \/ db[w] = None))

\* The worker returns; SyncFrom does so through finish, with or without an error.
End(w) ==
  /\ pc' = [pc EXCEPT ![w] = "idle"]
  /\ kind' = [kind EXCEPT ![w] = None]
  /\ tmp' = [tmp EXCEPT ![w] = None]
  /\ db' = [db EXCEPT ![w] = None]
  /\ inProgress' = (inProgress /\ kind[w] # "sync")

\* The worker gives up after it has changed a file: file and memory differ from then on.
EndUnsettled(w) == End(w) /\ settled' = FALSE /\ UNCHANGED lone

------------------------------------------------------------------------------
(* SyncFrom and ImportUpload *)

\* Variant: a second sync is not turned away.
SyncFromUnchecked(w) ==
  /\ inProgress' = TRUE
  /\ Begin(w, "sync", "download", None)
  /\ UNCHANGED <<disk, published>>

SyncFrom(w) ==
  /\ ~inProgress
  /\ inProgress' = TRUE
  /\ Begin(w, "sync", "download", None)
  /\ UNCHANGED <<disk, published>>

\* Every source is in the RIR format, whose lines normalize rewrites for Load.
Download(w) ==
  /\ pc[w] = "download"
  /\ \/ \E content \in Libraries \cup {Garbage} :
          /\ tmp' = [tmp EXCEPT ![w] = content]
          /\ Goto(w, "normalize")
          /\ UNCHANGED <<inProgress, db>>
     \/ Faults /\ End(w)
  /\ UNCHANGED <<disk, published, history>>

ImportUpload(w, content) ==
  /\ Begin(w, "upload", "normalize", content)
  /\ UNCHANGED <<disk, published, inProgress>>

Normalize(w) ==
  /\ pc[w] = "normalize"
  /\ \/ /\ tmp[w] # Garbage
        /\ Goto(w, "rename")
        /\ \/ UNCHANGED tmp
           \/ Faults /\ \E rest \in {Truncated, Unloadable} : tmp' = [tmp EXCEPT ![w] = rest]
        /\ UNCHANGED <<inProgress, db>>
     \/ (Faults \/ tmp[w] = Garbage) /\ End(w)
  /\ UNCHANGED <<disk, published, history>>

Rename(w) ==
  /\ pc[w] = "rename"
  /\ \/ /\ active' = tmp[w]
        /\ Goto(w, "load")
        /\ UNCHANGED <<inProgress, tmp, db>>
     \/ Faults /\ End(w) /\ UNCHANGED active
  /\ UNCHANGED <<overrides, published, history>>

------------------------------------------------------------------------------
(* prefixDBSaveOverride: os.WriteFile empties the file before it writes it *)

PrefixDBSaveOverride(w, text) ==
  /\ Begin(w, "save", "truncate", text)
  /\ UNCHANGED <<disk, published, inProgress>>

Truncate(w) ==
  /\ pc[w] = "truncate"
  /\ \/ /\ overrides' = Blank
        /\ Goto(w, "write")
        /\ UNCHANGED <<inProgress, tmp, db>>
     \/ Faults /\ End(w) /\ UNCHANGED overrides
  /\ UNCHANGED <<active, published, history>>

Write(w) ==
  /\ pc[w] = "write"
  /\ \/ /\ overrides' = tmp[w]
        /\ Goto(w, "load")
        /\ UNCHANGED <<inProgress, tmp, db, history>>
     \/ /\ Faults
        /\ overrides' \in {Blank, Broken}
        /\ EndUnsettled(w)
  /\ UNCHANGED <<active, published>>

------------------------------------------------------------------------------
(* Reload *)

\* Variant: the library is withdrawn while the new one is read.
LoadWithdrawing(w) ==
  /\ pc[w] = "load"
  /\ \/ /\ Loads(active)
        /\ db' = [db EXCEPT ![w] = Loaded(active, Blank)]
        /\ Goto(w, "override")
        /\ UNCHANGED <<inProgress, tmp, history>>
     \/ ~Loads(active) /\ End(w) /\ UNCHANGED history
     \/ Faults /\ EndUnsettled(w)
  /\ published' = None
  /\ UNCHANGED disk

Load(w) ==
  /\ pc[w] = "load"
  /\ \/ /\ Loads(active)
        /\ db' = [db EXCEPT ![w] = Loaded(active, Blank)]
        /\ Goto(w, "override")
        /\ UNCHANGED <<inProgress, tmp, history>>
     \/ ~Loads(active) /\ End(w) /\ UNCHANGED history
     \/ Faults /\ EndUnsettled(w)
  /\ UNCHANGED <<disk, published>>

\* Variant: the rules above a faulty one stay in effect.
ApplyOverridesLenient(w) ==
  /\ pc[w] = "override"
  /\ db' = [db EXCEPT ![w].rules = overrides]
  /\ Goto(w, "publish")
  /\ UNCHANGED <<disk, published, inProgress, tmp, history>>

\* A faulty rule is said to be ignored; the library it comes with is dropped, too.
ApplyOverrides(w) ==
  /\ pc[w] = "override"
  /\ \/ /\ Parses(overrides)
        /\ db' = [db EXCEPT ![w].rules = overrides]
        /\ Goto(w, "publish")
        /\ UNCHANGED <<inProgress, tmp, history>>
     \/ ~Parses(overrides) /\ End(w) /\ UNCHANGED history
     \/ Faults /\ EndUnsettled(w)
  /\ UNCHANGED <<disk, published>>

SetGlobal(w) ==
  /\ pc[w] = "publish"
  /\ published' = db[w]
  /\ settled' = (settled \/ lone = w)
  /\ End(w)
  /\ UNCHANGED <<disk, lone>>

------------------------------------------------------------------------------
(* The environment *)

\* "It can also be edited directly; restart afterwards."
EditOverrides(text) ==
  /\ overrides' = text
  /\ settled' = FALSE
  /\ lone' = None
  /\ UNCHANGED <<active, published, inProgress, workers>>

\* Variant: the rules are laid over the library by the next save only.
RestartWithoutReload ==
  /\ Restarts
  /\ published' = IF Loads(active) THEN Loaded(active, Blank) ELSE None
  /\ inProgress' = FALSE
  /\ pc' = [w \in Workers |-> "idle"]
  /\ kind' = [w \in Workers |-> None]
  /\ tmp' = [w \in Workers |-> None]
  /\ db' = [w \in Workers |-> None]
  /\ lone' = None /\ settled' = TRUE
  /\ UNCHANGED disk

Restart ==
  /\ Restarts
  /\ \/ published' = Boot(active, overrides) /\ settled' = TRUE
     \/ Faults /\ published' \in Unread(active) /\ settled' = FALSE
  /\ inProgress' = FALSE
  /\ pc' = [w \in Workers |-> "idle"]
  /\ kind' = [w \in Workers |-> None]
  /\ tmp' = [w \in Workers |-> None]
  /\ db' = [w \in Workers |-> None]
  /\ lone' = None
  /\ UNCHANGED disk

------------------------------------------------------------------------------
Serve(w) ==
  \/ SyncFrom(w)
  \/ \E content \in Libraries \cup {Unloadable, Garbage} : ImportUpload(w, content)
  \/ \E text \in Rules \cup {Blank} : PrefixDBSaveOverride(w, text)

Proceed(w) ==
  \/ Download(w) \/ Normalize(w) \/ Rename(w)
  \/ Truncate(w) \/ Write(w)
  \/ Load(w) \/ ApplyOverrides(w) \/ SetGlobal(w)

Next ==
  \/ \E w \in Workers : Serve(w) \/ Proceed(w)
  \/ \E text \in Rules \cup {Blank, Broken} : EditOverrides(text)
  \/ Restart

Spec == Init /\ [][Next]_vars

FairSpec == Spec /\ \A w \in Workers : WF_vars(Proceed(w))

------------------------------------------------------------------------------
(* Properties *)

\* "Saved and effective at once", "uploaded and in use" (templates_prefixdb.go):
\* once a reload that nobody overlapped is done, what bans are resolved against is
\* what the two files say, and failing imports and restarts do not change that.
\* A file whose content cannot be used, or whose reading fails, is the exception:
\* the old library stays then, or what a start makes do with.
PublishedIsCurrent ==
  settled /\ Quiet /\ Loads(active) /\ Parses(overrides)
    => published = Loaded(active, overrides)

\* However syncs, uploads, saves, failures and restarts interleave, the status page
\* says "in progress" exactly while a sync runs, and no two syncs run at once.
StatusIsTrue ==
  /\ inProgress <=> \E w \in Workers : kind[w] = "sync"
  /\ \A v, w \in Workers : kind[v] = "sync" /\ kind[w] = "sync" => v = w

\* "The old library keeps serving meanwhile" (templates_prefixdb.go): from the
\* first library on scoped bans can be resolved until the process ends, whatever
\* imports fail.  ScopedBans assumes this of its action Reload.
ServesUntilRestart == [][published # None /\ ~Restart => published' # None]_vars

\* A sync comes to an end, also one that fails: the next one is not locked out.
SyncEnds == inProgress ~> ~inProgress

\* "A file that fails to parse does not replace the library" (templates_prefixdb.go):
\* a library that can be read gives way only to one that can be read.
ParseFailureKeepsLibrary == [][Loads(active) => Loads(active')]_vars
==============================================================================
