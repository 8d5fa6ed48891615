------------------------- MODULE PrefixLibraryProofs -------------------------
(***************************************************************************)
(* Theorems about PrefixLibrary for any number of workers, libraries and   *)
(* rule files, with faults and restarts.  That a sync ends (SyncEnds) is   *)
(* liveness and stays with TLC.                                            *)
(***************************************************************************)
EXTENDS PrefixLibrary, TLAPS

------------------------------------------------------------------------------
(* The inductive invariant *)

\* What a worker holds at each of its steps.
HoldInv ==
  \A w \in Workers :
    /\ pc[w] = "idle" => kind[w] = None
    /\ pc[w] = "normalize" => tmp[w] \in Contents \cup {Garbage}
    /\ pc[w] = "rename" => tmp[w] \in Contents
    /\ pc[w] \in {"truncate", "write"} => tmp[w] \in Rules \cup {Blank}
    /\ pc[w] \in {"override", "publish"} => db[w] \in Databases

\* A lone worker is the only one at work; while settled, whoever works is alone.
AloneInv ==
  /\ lone # None => \A v \in Workers : v # lone => pc[v] = "idle"
  /\ settled => \A v \in Workers : pc[v] # "idle" => v = lone

\* A lone worker loads what is in the files.
LoneLoadInv ==
  \A w \in Workers : lone = w =>
    /\ pc[w] = "override" => db[w] = Loaded(active, Blank)
    /\ pc[w] = "publish" => db[w] = Loaded(active, overrides)

Current == Loads(active) /\ Parses(overrides) => published = Loaded(active, overrides)

\* Steps before the one that changes a file.
Untouched == \A w \in Workers : pc[w] \in {"idle", "download", "normalize", "rename", "truncate"}

CurrentInv == settled /\ Untouched => Current

LInv == LibraryTypeOK /\ HoldInv /\ StatusIsTrue /\ AloneInv /\ LoneLoadInv /\ CurrentInv

\* A restart publishes what the files say if they can be read, and a library of
\* the right type, or none, if not.
LEMMA BootLoads ==
  ASSUME NEW file, NEW rules
  PROVE  /\ Boot(file, rules) \in Databases \cup {None}
         /\ Loads(file) /\ Parses(rules) => Boot(file, rules) = Loaded(file, rules)
<1>1. CASE Loads(file) /\ Parses(rules)
  BY <1>1 DEF Boot, Loads, Parses, Loaded, Databases
<1>2. CASE ~(Loads(file) /\ Parses(rules)) /\ EnvLibrary # None
  BY <1>2, LibraryAssumption DEF LibraryAssumption, Boot, Loaded, Databases
<1>3. CASE ~(Loads(file) /\ Parses(rules)) /\ EnvLibrary = None
  <2>1. CASE Loads(file)
    BY <1>3, <2>1 DEF Boot, Loads, Loaded, Databases
  <2>2. CASE ~Loads(file)
    BY <1>3, <2>2 DEF Boot
  <2> QED
    BY <2>1, <2>2
<1> QED
  BY <1>1, <1>2, <1>3

\* Nor does a start that passes over a file it cannot read.
LEMMA UnreadType ==
  ASSUME NEW file
  PROVE  Unread(file) \subseteq Databases \cup {None}
BY DEF Unread, Loads, Loaded, Databases

LEMMA LInit == Init => LInv
<1> SUFFICES ASSUME Init PROVE LInv
  OBVIOUS
<1>1. LibraryTypeOK
  BY BootLoads DEF Init, LibraryTypeOK, Contents, Steps
<1>2. HoldInv /\ AloneInv /\ LoneLoadInv
  BY LibraryAssumption DEF LibraryAssumption, Init, HoldInv, AloneInv, LoneLoadInv
<1>3. StatusIsTrue
  BY LibraryAssumption DEF LibraryAssumption, Init, StatusIsTrue, Kinds
<1>4. CurrentInv
  BY BootLoads DEF Init, CurrentInv, Current
<1> QED
  BY <1>1, <1>2, <1>3, <1>4 DEF LInv

------------------------------------------------------------------------------
(* Steps that many actions share *)

LEMMA BeginInv ==
  ASSUME LInv, NEW w \in Workers, NEW what \in Kinds, NEW step, NEW content,
         Begin(w, what, step, content), UNCHANGED <<disk, published>>,
         inProgress' = (inProgress \/ what = "sync"), what = "sync" => ~inProgress,
         \/ step = "download" /\ content = None
         \/ step = "normalize" /\ content \in Contents \cup {Garbage}
         \/ step = "truncate" /\ content \in Rules \cup {Blank}
  PROVE  LInv'
<1>1. /\ pc[w] = "idle" /\ pc' = [pc EXCEPT ![w] = step]
      /\ kind' = [kind EXCEPT ![w] = what]
      /\ tmp' = [tmp EXCEPT ![w] = content]
      /\ lone' = (IF Quiet THEN w ELSE None) /\ settled' = (settled /\ Quiet)
      /\ UNCHANGED <<db, active, overrides, published>>
  BY DEF Begin, disk
<1>2. LibraryTypeOK'
  BY <1>1 DEF LInv, LibraryTypeOK, Steps
<1>3. HoldInv'
  BY <1>1, LibraryAssumption DEF LibraryAssumption, LInv, LibraryTypeOK, HoldInv
<1>4. AloneInv' /\ LoneLoadInv'
  BY <1>1, LibraryAssumption
     DEF LibraryAssumption, LInv, LibraryTypeOK, Quiet, AloneInv, LoneLoadInv
<1>5. StatusIsTrue'
  BY <1>1, LibraryAssumption
     DEF LibraryAssumption, LInv, LibraryTypeOK, HoldInv, StatusIsTrue, Kinds
<1>6. CurrentInv'
  BY <1>1 DEF LInv, LibraryTypeOK, Quiet, CurrentInv, Untouched, Current, Loads, Parses, Loaded
<1> QED
  BY <1>2, <1>3, <1>4, <1>5, <1>6 DEF LInv

\* Ending changes the status of the worker's own sync only.
LEMMA EndStatus ==
  ASSUME LInv, NEW w \in Workers, End(w)
  PROVE  StatusIsTrue'
<1>1. kind' = [kind EXCEPT ![w] = None] /\ inProgress' = (inProgress /\ kind[w] # "sync")
  BY DEF End
<1> QED
  BY <1>1, LibraryAssumption
     DEF LibraryAssumption, LInv, LibraryTypeOK, StatusIsTrue, Kinds

\* A worker may end before it has changed a file, or if a file cannot be read.
LEMMA EndInv ==
  ASSUME LInv, NEW w \in Workers, End(w), UNCHANGED <<disk, published, history>>,
         \/ pc[w] \in {"download", "normalize", "rename", "truncate"}
         \/ ~(Loads(active) /\ Parses(overrides))
  PROVE  LInv'
<1>1. /\ pc' = [pc EXCEPT ![w] = "idle"] /\ kind' = [kind EXCEPT ![w] = None]
      /\ tmp' = [tmp EXCEPT ![w] = None] /\ db' = [db EXCEPT ![w] = None]
      /\ inProgress' \in BOOLEAN
      /\ UNCHANGED <<active, overrides, published, lone, settled>>
  BY DEF End, disk, history
<1>2. LibraryTypeOK'
  BY <1>1 DEF LInv, LibraryTypeOK, Steps
<1>3. HoldInv' /\ AloneInv' /\ LoneLoadInv'
  BY <1>1 DEF LInv, LibraryTypeOK, HoldInv, AloneInv, LoneLoadInv
<1>4. CurrentInv'
  BY <1>1 DEF LInv, LibraryTypeOK, CurrentInv, Untouched, Current, Loads, Parses, Loaded
<1> QED
  BY <1>2, <1>3, <1>4, EndStatus DEF LInv

\* A worker that gives up after it has changed a file is remembered.
LEMMA EndUnsettledInv ==
  ASSUME LInv, NEW w \in Workers, EndUnsettled(w), UNCHANGED <<active, published>>,
         overrides' \in Rules \cup {Blank, Broken}, UNCHANGED overrides \/ pc[w] = "write"
  PROVE  LInv'
<1>1. /\ pc' = [pc EXCEPT ![w] = "idle"] /\ kind' = [kind EXCEPT ![w] = None]
      /\ tmp' = [tmp EXCEPT ![w] = None] /\ db' = [db EXCEPT ![w] = None]
      /\ inProgress' \in BOOLEAN
      /\ settled' = FALSE /\ UNCHANGED <<active, published, lone>>
  BY DEF EndUnsettled, End
<1>2. LibraryTypeOK'
  BY <1>1 DEF LInv, LibraryTypeOK, Steps
<1>3. HoldInv' /\ AloneInv' /\ CurrentInv'
  BY <1>1 DEF LInv, LibraryTypeOK, HoldInv, AloneInv, CurrentInv
<1>4. LoneLoadInv'
  BY <1>1, LibraryAssumption
     DEF LibraryAssumption, LInv, LibraryTypeOK, AloneInv, LoneLoadInv, Loaded
<1> QED
  BY <1>2, <1>3, <1>4, EndStatus DEF LInv, EndUnsettled

\* A step of a worker that changes nothing but what the worker holds.
LEMMA GotoInv ==
  ASSUME LInv, NEW w \in Workers, NEW step \in Steps, Goto(w, step),
         pc[w] # "idle", UNCHANGED <<disk, published, inProgress, history>>,
         LibraryTypeOK', HoldInv', LoneLoadInv',
         \/ pc[w] \in {"download", "normalize"}
         \/ step \notin {"idle", "download", "normalize", "rename", "truncate"}
  PROVE  LInv'
<1>1. /\ pc' = [pc EXCEPT ![w] = step]
      /\ UNCHANGED <<kind, inProgress, active, overrides, published, lone, settled>>
  BY DEF Goto, disk, history
<1>2. AloneInv' /\ StatusIsTrue'
  BY <1>1 DEF LInv, LibraryTypeOK, AloneInv, StatusIsTrue
<1>3. CurrentInv'
  BY <1>1 DEF LInv, LibraryTypeOK, CurrentInv, Untouched, Current, Loads, Parses, Loaded
<1> QED
  BY <1>2, <1>3 DEF LInv

------------------------------------------------------------------------------
(* One lemma per action *)

LEMMA ServeInv ==
  ASSUME LInv, NEW w \in Workers, Serve(w)
  PROVE  LInv'
<1>1. CASE SyncFrom(w)
  BY <1>1, BeginInv DEF SyncFrom, Kinds
<1>2. ASSUME NEW content \in Libraries \cup {Unloadable, Garbage}, ImportUpload(w, content)
      PROVE  LInv'
  <2>1. "upload" \in Kinds /\ content \in Contents \cup {Garbage}
    BY DEF Kinds, Contents
  <2>2. Begin(w, "upload", "normalize", content) /\ UNCHANGED <<disk, published, inProgress>>
    BY <1>2 DEF ImportUpload
  <2>3. inProgress' = (inProgress \/ "upload" = "sync")
    BY <2>2 DEF LInv, LibraryTypeOK
  <2> QED
    BY <2>1, <2>2, <2>3, BeginInv
<1>3. ASSUME NEW text \in Rules \cup {Blank}, PrefixDBSaveOverride(w, text)
      PROVE  LInv'
  <2>1. "save" \in Kinds
    BY DEF Kinds
  <2>2. Begin(w, "save", "truncate", text) /\ UNCHANGED <<disk, published, inProgress>>
    BY <1>3 DEF PrefixDBSaveOverride
  <2>3. inProgress' = (inProgress \/ "save" = "sync")
    BY <2>2 DEF LInv, LibraryTypeOK
  <2> QED
    BY <2>1, <2>2, <2>3, BeginInv
<1> QED
  BY <1>1, <1>2, <1>3 DEF Serve

LEMMA DownloadInv ==
  ASSUME LInv, NEW w \in Workers, Download(w)
  PROVE  LInv'
<1>1. ASSUME NEW content \in Libraries \cup {Garbage},
             tmp' = [tmp EXCEPT ![w] = content], Goto(w, "normalize"),
             UNCHANGED <<inProgress, db>>
      PROVE  LInv'
  <2>1. /\ pc[w] = "download" /\ pc' = [pc EXCEPT ![w] = "normalize"]
        /\ UNCHANGED <<kind, active, overrides, published, lone, settled>>
    BY <1>1 DEF Download, Goto, disk, history
  <2>2. LibraryTypeOK'
    BY <1>1, <2>1 DEF LInv, LibraryTypeOK, Steps, Contents
  <2>3. HoldInv' /\ LoneLoadInv'
    BY <1>1, <2>1 DEF LInv, LibraryTypeOK, HoldInv, LoneLoadInv, Contents, Loaded
  <2> QED
    BY <1>1, <2>1, <2>2, <2>3, GotoInv DEF Download, Steps
<1>2. CASE End(w)
  BY <1>2, EndInv DEF Download
<1> QED
  BY <1>1, <1>2 DEF Download

LEMMA NormalizeInv ==
  ASSUME LInv, NEW w \in Workers, Normalize(w)
  PROVE  LInv'
<1>1. CASE /\ tmp[w] # Garbage /\ Goto(w, "rename") /\ UNCHANGED <<inProgress, db>>
           /\ \/ UNCHANGED tmp
              \/ \E rest \in {Truncated, Unloadable} : tmp' = [tmp EXCEPT ![w] = rest]
  <2>1. /\ pc[w] = "normalize" /\ pc' = [pc EXCEPT ![w] = "rename"]
        /\ UNCHANGED <<kind, active, overrides, published, lone, settled>>
    BY <1>1 DEF Normalize, Goto, disk, history
  <2>2. LibraryTypeOK'
    BY <1>1, <2>1 DEF LInv, LibraryTypeOK, Steps, Contents
  <2>3. tmp'[w] \in Contents
    BY <1>1, <2>1 DEF LInv, LibraryTypeOK, HoldInv, Contents
  <2>4. HoldInv' /\ LoneLoadInv'
    BY <1>1, <2>1, <2>3 DEF LInv, LibraryTypeOK, HoldInv, LoneLoadInv, Loaded
  <2> QED
    BY <1>1, <2>1, <2>2, <2>4, GotoInv DEF Normalize, Steps
<1>2. CASE End(w)
  BY <1>2, EndInv DEF Normalize
<1> QED
  BY <1>1, <1>2 DEF Normalize

LEMMA RenameInv ==
  ASSUME LInv, NEW w \in Workers, Rename(w)
  PROVE  LInv'
<1>1. CASE /\ active' = tmp[w] /\ Goto(w, "load") /\ UNCHANGED <<inProgress, tmp, db>>
  <2>1. /\ pc[w] = "rename" /\ pc' = [pc EXCEPT ![w] = "load"] /\ tmp[w] \in Contents
        /\ UNCHANGED <<kind, overrides, published, lone, settled>>
    BY <1>1 DEF Rename, Goto, history, LInv, HoldInv
  <2>2. LibraryTypeOK'
    BY <1>1, <2>1 DEF LInv, LibraryTypeOK, Steps
  <2>3. HoldInv' /\ AloneInv' /\ StatusIsTrue'
    BY <1>1, <2>1 DEF LInv, LibraryTypeOK, HoldInv, AloneInv, StatusIsTrue
  <2>4. LoneLoadInv'
    BY <1>1, <2>1, LibraryAssumption
       DEF LibraryAssumption, LInv, LibraryTypeOK, AloneInv, LoneLoadInv
  <2>5. CurrentInv'
    BY <2>1 DEF LInv, LibraryTypeOK, CurrentInv, Untouched
  <2> QED
    BY <2>2, <2>3, <2>4, <2>5 DEF LInv
<1>2. CASE End(w) /\ UNCHANGED active
  BY <1>2, EndInv DEF Rename, disk
<1> QED
  BY <1>1, <1>2 DEF Rename

LEMMA TruncateInv ==
  ASSUME LInv, NEW w \in Workers, Truncate(w)
  PROVE  LInv'
<1>1. CASE /\ overrides' = Blank /\ Goto(w, "write") /\ UNCHANGED <<inProgress, tmp, db>>
  <2>1. /\ pc[w] = "truncate" /\ pc' = [pc EXCEPT ![w] = "write"]
        /\ UNCHANGED <<kind, active, published, lone, settled>>
    BY <1>1 DEF Truncate, Goto, history
  <2>2. LibraryTypeOK'
    BY <1>1, <2>1 DEF LInv, LibraryTypeOK, Steps
  <2>3. HoldInv' /\ AloneInv' /\ StatusIsTrue'
    BY <1>1, <2>1 DEF LInv, LibraryTypeOK, HoldInv, AloneInv, StatusIsTrue
  <2>4. LoneLoadInv'
    BY <1>1, <2>1, LibraryAssumption
       DEF LibraryAssumption, LInv, LibraryTypeOK, AloneInv, LoneLoadInv
  <2>5. CurrentInv'
    BY <2>1 DEF LInv, LibraryTypeOK, CurrentInv, Untouched
  <2> QED
    BY <2>2, <2>3, <2>4, <2>5 DEF LInv
<1>2. CASE End(w) /\ UNCHANGED overrides
  BY <1>2, EndInv DEF Truncate, disk
<1> QED
  BY <1>1, <1>2 DEF Truncate

\* A save that fails leaves the rules empty or cut off, and is remembered.
LEMMA WriteInv ==
  ASSUME LInv, NEW w \in Workers, Write(w)
  PROVE  LInv'
<1>1. CASE /\ overrides' = tmp[w] /\ Goto(w, "load")
           /\ UNCHANGED <<inProgress, tmp, db, history>>
  <2>1. /\ pc[w] = "write" /\ pc' = [pc EXCEPT ![w] = "load"]
        /\ tmp[w] \in Rules \cup {Blank}
        /\ UNCHANGED <<kind, active, published, lone, settled>>
    BY <1>1 DEF Write, Goto, history, LInv, HoldInv
  <2>2. LibraryTypeOK'
    BY <1>1, <2>1 DEF LInv, LibraryTypeOK, Steps
  <2>3. HoldInv' /\ AloneInv' /\ StatusIsTrue'
    BY <1>1, <2>1 DEF LInv, LibraryTypeOK, HoldInv, AloneInv, StatusIsTrue
  <2>4. LoneLoadInv'
    BY <1>1, <2>1, LibraryAssumption
       DEF LibraryAssumption, LInv, LibraryTypeOK, AloneInv, LoneLoadInv
  <2>5. CurrentInv'
    BY <2>1 DEF LInv, LibraryTypeOK, CurrentInv, Untouched
  <2> QED
    BY <2>2, <2>3, <2>4, <2>5 DEF LInv
<1>2. CASE overrides' \in {Blank, Broken} /\ EndUnsettled(w)
  BY <1>2, EndUnsettledInv DEF Write
<1> QED
  BY <1>1, <1>2 DEF Write

LEMMA LoadInv ==
  ASSUME LInv, NEW w \in Workers, Load(w)
  PROVE  LInv'
<1>1. CASE /\ Loads(active) /\ db' = [db EXCEPT ![w] = Loaded(active, Blank)]
           /\ Goto(w, "override") /\ UNCHANGED <<inProgress, tmp, history>>
  <2>1. /\ pc[w] = "load" /\ pc' = [pc EXCEPT ![w] = "override"]
        /\ Loaded(active, Blank) \in Databases
        /\ UNCHANGED <<kind, active, overrides, published, lone, settled>>
    BY <1>1 DEF Load, Goto, disk, history, Loads, Loaded, Databases
  <2>2. LibraryTypeOK'
    BY <1>1, <2>1 DEF LInv, LibraryTypeOK, Steps
  <2>3. HoldInv' /\ LoneLoadInv'
    BY <1>1, <2>1 DEF LInv, LibraryTypeOK, HoldInv, LoneLoadInv, Loaded
  <2> QED
    BY <1>1, <2>1, <2>2, <2>3, GotoInv DEF Load, Steps
<1>2. CASE ~Loads(active) /\ End(w) /\ UNCHANGED history
  BY <1>2, EndInv DEF Load
<1>3. CASE EndUnsettled(w)
  BY <1>3, EndUnsettledInv DEF Load, disk, LInv, LibraryTypeOK
<1> QED
  BY <1>1, <1>2, <1>3 DEF Load

LEMMA ApplyOverridesInv ==
  ASSUME LInv, NEW w \in Workers, ApplyOverrides(w)
  PROVE  LInv'
<1>1. CASE /\ Parses(overrides) /\ db' = [db EXCEPT ![w].rules = overrides]
           /\ Goto(w, "publish") /\ UNCHANGED <<inProgress, tmp, history>>
  <2> DEFINE d == [db[w] EXCEPT !.rules = overrides]
  <2>1. /\ pc[w] = "override" /\ pc' = [pc EXCEPT ![w] = "publish"]
        /\ db[w] \in Databases
        /\ UNCHANGED <<kind, active, overrides, published, lone, settled>>
    BY <1>1 DEF ApplyOverrides, Goto, disk, history, LInv, HoldInv
  <2>2. d \in Databases
    BY <1>1, <2>1 DEF Databases, Parses
  <2>3. lone = w => d = Loaded(active, overrides)
    BY <2>1 DEF LInv, LoneLoadInv, Loaded
  <2>4. db' = [db EXCEPT ![w] = d]
    BY <1>1
  <2> HIDE DEF d
  <2>5. LibraryTypeOK'
    BY <1>1, <2>1, <2>2, <2>4 DEF LInv, LibraryTypeOK, Steps
  <2>6. HoldInv' /\ LoneLoadInv'
    BY <1>1, <2>1, <2>2, <2>3, <2>4 DEF LInv, LibraryTypeOK, HoldInv, LoneLoadInv, Loaded
  <2> QED
    BY <1>1, <2>1, <2>5, <2>6, GotoInv DEF ApplyOverrides, Steps
<1>2. CASE ~Parses(overrides) /\ End(w) /\ UNCHANGED history
  BY <1>2, EndInv DEF ApplyOverrides
<1>3. CASE EndUnsettled(w)
  BY <1>3, EndUnsettledInv DEF ApplyOverrides, disk, LInv, LibraryTypeOK
<1> QED
  BY <1>1, <1>2, <1>3 DEF ApplyOverrides

\* A worker that stayed alone has loaded what the files say when it publishes.
LEMMA SetGlobalInv ==
  ASSUME LInv, NEW w \in Workers, SetGlobal(w)
  PROVE  LInv'
<1>1. /\ pc[w] = "publish" /\ pc' = [pc EXCEPT ![w] = "idle"]
      /\ kind' = [kind EXCEPT ![w] = None]
      /\ tmp' = [tmp EXCEPT ![w] = None] /\ db' = [db EXCEPT ![w] = None]
      /\ inProgress' \in BOOLEAN
      /\ published' = db[w] /\ db[w] \in Databases
      /\ settled' = (settled \/ lone = w)
      /\ UNCHANGED <<active, overrides, lone>>
  BY DEF SetGlobal, End, disk, LInv, HoldInv
<1>2. LibraryTypeOK'
  BY <1>1 DEF LInv, LibraryTypeOK, Steps
<1>3. HoldInv' /\ LoneLoadInv'
  BY <1>1 DEF LInv, LibraryTypeOK, HoldInv, LoneLoadInv
<1>4. AloneInv'
  BY <1>1, LibraryAssumption DEF LibraryAssumption, LInv, LibraryTypeOK, AloneInv
<1>5. settled' => lone = w
  BY <1>1 DEF LInv, AloneInv
<1>6. CurrentInv'
  BY <1>1, <1>5 DEF LInv, LoneLoadInv, CurrentInv, Current, Loads, Parses, Loaded
<1> QED
  BY <1>2, <1>3, <1>4, <1>6, EndStatus DEF LInv, SetGlobal

LEMMA EditOverridesInv ==
  ASSUME LInv, NEW text \in Rules \cup {Blank, Broken}, EditOverrides(text)
  PROVE  LInv'
<1>1. /\ overrides' = text /\ settled' = FALSE /\ lone' = None
      /\ UNCHANGED <<active, published, inProgress, pc, kind, tmp, db>>
  BY DEF EditOverrides, workers
<1> QED
  BY <1>1, LibraryAssumption
     DEF LibraryAssumption, LInv, LibraryTypeOK, HoldInv, StatusIsTrue, AloneInv,
         LoneLoadInv, CurrentInv

LEMMA RestartInv ==
  ASSUME LInv, Restart
  PROVE  LInv'
<1>1. /\ \/ published' = Boot(active, overrides) /\ settled' = TRUE
         \/ published' \in Unread(active) /\ settled' = FALSE
      /\ inProgress' = FALSE
      /\ pc' = [w \in Workers |-> "idle"] /\ kind' = [w \in Workers |-> None]
      /\ tmp' = [w \in Workers |-> None] /\ db' = [w \in Workers |-> None]
      /\ lone' = None /\ UNCHANGED <<active, overrides>>
  BY DEF Restart, disk
<1>2. LibraryTypeOK'
  BY <1>1, BootLoads, UnreadType DEF LInv, LibraryTypeOK, Steps
<1>3. HoldInv' /\ AloneInv' /\ LoneLoadInv' /\ StatusIsTrue'
  BY <1>1, LibraryAssumption
     DEF LibraryAssumption, HoldInv, AloneInv, LoneLoadInv, StatusIsTrue, Kinds
<1>4. CurrentInv'
  BY <1>1, BootLoads DEF CurrentInv, Current, Loads, Parses, Loaded
<1> QED
  BY <1>2, <1>3, <1>4 DEF LInv

LEMMA LStutter ==
  ASSUME LInv, UNCHANGED vars
  PROVE  LInv'
BY DEF vars, disk, workers, history, LInv, LibraryTypeOK, HoldInv, StatusIsTrue, AloneInv,
       LoneLoadInv, CurrentInv, Untouched, Current, Loads, Parses, Loaded

LEMMA LNext == LInv /\ [Next]_vars => LInv'
<1> SUFFICES ASSUME LInv, [Next]_vars PROVE LInv'
  OBVIOUS
<1>1. ASSUME NEW w \in Workers, Serve(w) PROVE LInv'
  BY <1>1, ServeInv
<1>2. ASSUME NEW w \in Workers, Proceed(w) PROVE LInv'
  BY <1>2, DownloadInv, NormalizeInv, RenameInv, TruncateInv, WriteInv, LoadInv,
     ApplyOverridesInv, SetGlobalInv DEF Proceed
<1>3. ASSUME NEW text \in Rules \cup {Blank, Broken}, EditOverrides(text) PROVE LInv'
  BY <1>3, EditOverridesInv
<1>4. CASE Restart
  BY <1>4, RestartInv
<1>5. CASE UNCHANGED vars
  BY <1>5, LStutter
<1> QED
  BY <1>1, <1>2, <1>3, <1>4, <1>5 DEF Next

LEMMA LInvariant == Spec => []LInv
<1> QED
  BY LInit, LNext, PTL DEF Spec

------------------------------------------------------------------------------
(* Theorems *)

\* Every variable of the library keeps its type: no faulty rule and no unreadable
\* file gets into memory.
THEOREM LibraryTypeCorrect == Spec => []LibraryTypeOK
<1>1. LInv => LibraryTypeOK
  BY DEF LInv
<1> QED
  BY <1>1, LInvariant, PTL

\* The page says "in progress" exactly while a sync runs, and only one runs.
THEOREM StatusCorrect == Spec => []StatusIsTrue
<1>1. LInv => StatusIsTrue
  BY DEF LInv
<1> QED
  BY <1>1, LInvariant, PTL

\* After a reload nobody overlapped, memory and files agree.
THEOREM PublishedCorrect == Spec => []PublishedIsCurrent
<1>1. LInv => PublishedIsCurrent
  BY DEF LInv, CurrentInv, Untouched, Current, Quiet, PublishedIsCurrent
<1> QED
  BY <1>1, LInvariant, PTL

\* No step but the end of the process withdraws the library.
THEOREM LibraryServes == Spec => ServesUntilRestart
<1>1. ASSUME LInv, [Next]_vars, published # None, ~Restart
      PROVE  published' # None
  <2>1. ASSUME NEW w \in Workers, SetGlobal(w) PROVE published' # None
    BY <1>1, <2>1, LibraryAssumption
       DEF LibraryAssumption, LInv, HoldInv, SetGlobal, Databases
  <2>2. ASSUME NEW w \in Workers, Proceed(w), ~SetGlobal(w) PROVE UNCHANGED published
    BY <2>2 DEF Proceed, Download, Normalize, Rename, Truncate, Write, Load, ApplyOverrides
  <2>3. ASSUME NEW w \in Workers, Serve(w) PROVE UNCHANGED published
    BY <2>3 DEF Serve, SyncFrom, ImportUpload, PrefixDBSaveOverride
  <2>4. ASSUME NEW text, EditOverrides(text) PROVE UNCHANGED published
    BY <2>4 DEF EditOverrides
  <2> QED
    BY <1>1, <2>1, <2>2, <2>3, <2>4 DEF Next, vars
<1>2. LInv /\ [Next]_vars => [published # None /\ ~Restart => published' # None]_vars
  BY <1>1
<1> QED
  BY <1>2, LInvariant, PTL DEF Spec, ServesUntilRestart
=============================================================================
