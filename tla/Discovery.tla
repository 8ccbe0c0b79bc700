----------------------------- MODULE Discovery -----------------------------
(***************************************************************************)
(* Which files memscribe reads and by which tool's adapter: the locations  *)
(* every adapter claims, the walk of memscribe watch over its roots, the   *)
(* tool inferred from a path, and the files of one start of the daemon.    *)
(*                                                                         *)
(* A path is the sequence of its components; a literal like                *)
(* "AppData/Roaming" counts as one. An unset variable, override or home is *)
(* Unset. The spelling of a path (its extension, the names of tools in it, *)
(* the slug of a project) is given by constants.                           *)
(***************************************************************************)
EXTENDS Naturals, Sequences, SequencesExt, FiniteSets, FiniteSetsExt, WellFoundedInduction,
        TLAPS

CONSTANTS
  Catalog,       \* the files that tools and users may create
  ExtOf,         \* the extension of each file name, in lower case
  Rollouts,      \* the names rollout-*.jsonl and rollout-*.jsonl.zst
  WordsIn,       \* the tool words that a component contains
  SlugDirs,      \* for each project, its slug and the slugs that extend it
  Env,           \* the environment: the path each variable is set to
  AllSettings,   \* the ways memscribe watch is started
  Unset,
  MaxFiles,      \* bound: files there are
  MaxRuns        \* bound: starts of watch and runs of parse

(* What a transcript is for the properties: the tool that wrote it.        *)
CONSTANT WrittenBy

AllAdapters == <<"claude_code", "codex", "gemini", "otel", "cursor", "windsurf", "zed",
                 "vscode", "copilot", "hermes", "opencode">>

Tools == ToSet(AllAdapters)

Variables == {"HOME", "USERPROFILE", "HOMEDRIVE", "HOMEPATH", "CLAUDE_CONFIG_DIR",
              "CODEX_HOME", "XDG_DATA_HOME", "HERMES_HOME", "OPENCODE_DB"}

ASSUME DiscoveryAssumption ==
  /\ \A p \in Catalog : p # <<>> /\ Last(p) \in DOMAIN ExtOf
  /\ \A p \in Catalog : ToSet(p) \subseteq DOMAIN WordsIn
  /\ DOMAIN Env = Variables
  /\ WrittenBy \in [Catalog -> Tools \cup {"nobody"}]
  /\ Unset \notin AllSettings
  /\ \A s \in AllSettings : s.tools \in Seq(Tools) /\ s.capture \in Seq(Tools)
  /\ MaxFiles \in Nat /\ MaxRuns \in Nat

VARIABLES
  disk,      \* the files there are
  settings,  \* of the running watch
  known,     \* the files there were when it started
  by_path,   \* the tool of every watched path
  read,      \* what was read so far: [path, kind, wanted, roots]
  runs

vars == <<disk, settings, known, by_path, read, runs>>

-----------------------------------------------------------------------------
(* Settings: tools, capture, roots, home, overrides and project, of the    *)
(* command line (tools, roots) and of memscribe.toml (the rest).           *)
FirstSet(candidates) ==
  LET given == SelectSeq(candidates, LAMBDA p : p # Unset)
  IN  IF given = <<>> THEN Unset ELSE Head(given)

HomeDir(s) ==
  FirstSet(<<s.home, Env["HOME"], Env["USERPROFILE"],
             IF Unset \in {Env["HOMEDRIVE"], Env["HOMEPATH"]} THEN Unset
             ELSE Env["HOMEDRIVE"] \o Env["HOMEPATH"],
             <<".">> >>)

Override(s, name) == IF name \in DOMAIN s.overrides THEN s.overrides[name] ELSE Unset

ConfigDir(s, name, default) ==
  FirstSet(<<Override(s, name), Env[name], HomeDir(s) \o default>>)

DataHome(s) == FirstSet(<<Env["XDG_DATA_HOME"], HomeDir(s) \o <<".local/share">> >>)

(* --tools, else [capture].tools, else every adapter.                      *)
WantedTools(s) ==
  IF s.tools # <<>> THEN s.tools
  ELSE IF s.capture # <<>> THEN s.capture ELSE AllAdapters

Below(root, p) == IsStrictPrefix(root, p)
Depth(root, p) == Len(p) - Len(root)
Name(p) == Last(p)

-----------------------------------------------------------------------------
(* discover: the paths a tool's adapter claims. The first to exist, or all *)
(* of them, or directories that are claimed whether they exist or not.     *)
ClaudeClaims(s, files) ==
  LET projects == ConfigDir(s, "CLAUDE_CONFIG_DIR", <<".claude">>) \o <<"projects">>
      InScope(p) == s.project = Unset \/ p[Len(projects) + 1] \in SlugDirs[s.project]
  IN  {p \in files : Below(projects, p) /\ ExtOf[Name(p)] = "jsonl" /\ InScope(p)}

CodexClaims(s, files) ==
  LET sessions == ConfigDir(s, "CODEX_HOME", <<".codex">>) \o <<"sessions">>
  IN  {p \in files : Below(sessions, p) /\ Name(p) \in Rollouts}

UserDirs(product) ==
  CASE product = "Cursor" -> {<<"Library/Application Support/Cursor/User">>,
                              <<".config/Cursor/User">>, <<"AppData/Roaming/Cursor/User">>}
    [] product = "Code"   -> {<<"Library/Application Support/Code/User">>,
                              <<".config/Code/User">>, <<"AppData/Roaming/Code/User">>}

(* Broken variant, for mutation only: three levels everywhere.             *)
CursorClaimsShallow(s, files) ==
  LET home   == HomeDir(s)
      stores == {home \o d \o <<sub>> : d \in UserDirs("Cursor"),
                                        sub \in {"workspaceStorage", "globalStorage"}}
  IN  {p \in files : /\ Name(p) = "state.vscdb" \/ ExtOf[Name(p)] \in {"jsonl", "cursorchat"}
                     /\ \E root \in stores \cup {home \o <<".cursor">>} :
                          Below(root, p) /\ Depth(root, p) <= 3}

CursorClaims(s, files) ==
  LET home    == HomeDir(s)
      stores  == {home \o d \o <<sub>> : d \in UserDirs("Cursor"),
                                         sub \in {"workspaceStorage", "globalStorage"}}
      IsStore(p) == Name(p) = "state.vscdb" \/ ExtOf[Name(p)] \in {"jsonl", "cursorchat"}
      Within(root, max, p) == Below(root, p) /\ Depth(root, p) <= max
  IN  {p \in files : IsStore(p) /\ (\/ \E root \in stores : Within(root, 3, p)
                                    \/ Within(home \o <<".cursor">>, 6, p))}

VsCodeClaims(s, files) ==
  LET users == {HomeDir(s) \o d : d \in UserDirs("Code") \cup {<<".vscode">>}}
      PerWorkspace(u, p) == Below(u \o <<"workspaceStorage">>, p) /\ Depth(u, p) = 3
  IN  {p \in files : /\ Name(p) = "state.vscdb"
                     /\ \E u \in users : \/ PerWorkspace(u, p)
                                         \/ p = u \o <<"globalStorage", "state.vscdb">>}

CopilotClaims(s) ==
  {HomeDir(s) \o d : d \in {<<".config", "github-copilot">>} \cup
                           {u \o <<"workspaceStorage">> : u \in UserDirs("Code")}}

WindsurfClaims(s) ==
  {HomeDir(s) \o d : d \in {<<".codeium", "windsurf", "cascade">>,
                            <<"Library/Application Support/Windsurf/User">>,
                            <<".config/Windsurf/User">>, <<"AppData/Roaming/Windsurf/User">>}}

ZedClaims(s, files) ==
  LET home == HomeDir(s)
  IN  files \cap
        {home \o <<"Library/Application Support/Zed/threads", "threads.db">>,
         DataHome(s) \o <<"zed", "threads", "threads.db">>,
         home \o <<"AppData/Local/Zed/threads", "threads.db">>,
         home \o <<".local/share", "zed", "threads.db">>}

(* HERMES_HOME decides alone; else the first of two places that exists.    *)
HermesClaims(s, files) ==
  LET home   == HomeDir(s)
      places == IF Env["HERMES_HOME"] # Unset THEN <<Env["HERMES_HOME"] \o <<"state.db">> >>
                ELSE <<home \o <<".hermes", "state.db">>,
                       home \o <<"AppData/Local/hermes", "state.db">> >>
      found  == SelectSeq(places, LAMBDA p : p \in files)
  IN  IF found = <<>> THEN {} ELSE {Head(found)}

OpenCodeClaims(s, files) ==
  files \cap {IF Env["OPENCODE_DB"] # Unset THEN Env["OPENCODE_DB"]
              ELSE DataHome(s) \o <<"opencode", "opencode.db">>}

(* A project's .json blobs count only while it has no .jsonl chat.         *)
GeminiClaims(s, files) ==
  LET tmp == HomeDir(s) \o <<".gemini", "tmp">>
      in  == {p \in files : Below(tmp, p)}
      ProjectDir(p) == p[Len(tmp) + 1]
      jsonl == {p \in in : ExtOf[Name(p)] = "jsonl"}
  IN  jsonl \cup {p \in in : /\ ExtOf[Name(p)] = "json"
                             /\ \A chat \in jsonl : ProjectDir(chat) # ProjectDir(p)}

Claims(kind, s, files) ==
  CASE kind = "claude_code" -> ClaudeClaims(s, files)
    [] kind = "codex"    -> CodexClaims(s, files)
    [] kind = "cursor"   -> CursorClaims(s, files)
    [] kind = "vscode"   -> VsCodeClaims(s, files)
    [] kind = "copilot"  -> CopilotClaims(s)
    [] kind = "windsurf" -> WindsurfClaims(s)
    [] kind = "zed"      -> ZedClaims(s, files)
    [] kind = "hermes"   -> HermesClaims(s, files)
    [] kind = "opencode" -> OpenCodeClaims(s, files)
    [] kind = "gemini"   -> GeminiClaims(s, files)
    [] kind = "otel"     -> {}

-----------------------------------------------------------------------------
(* infer_source: the first of these words that a path contains, in this    *)
(* order; a path with none of them is otel's if it ends in .ndjson.        *)
Markers == <<[word |-> "codex", kind |-> "codex"], [word |-> "claude", kind |-> "claude_code"],
             [word |-> "gemini", kind |-> "gemini"], [word |-> "cursor", kind |-> "cursor"],
             [word |-> "windsurf", kind |-> "windsurf"], [word |-> "zed", kind |-> "zed"],
             [word |-> "copilot", kind |-> "copilot"], [word |-> "hermes", kind |-> "hermes"],
             [word |-> "opencode", kind |-> "opencode"], [word |-> "code", kind |-> "vscode"],
             [word |-> "otel", kind |-> "otel"]>>

Mentions(p) == UNION {WordsIn[c] : c \in ToSet(p)}

InferSource(p) ==
  LET first == SelectInSeq(Markers, LAMBDA m : m.word \in Mentions(p))
  IN  IF first # 0 THEN Markers[first].kind
      ELSE IF ExtOf[Name(p)] = "ndjson" THEN "otel" ELSE "none"

(* --as names the tool of a parse.                                         *)
ResolveSource(as, p) == IF as = "infer" THEN InferSource(p) ELSE as

(* The walk over the roots, the home directory if none are given.          *)
TranscriptExts == {"jsonl", "json", "ndjson", "zst"}

FindTranscripts(roots, files) ==
  {p \in files : ExtOf[Name(p)] \in TranscriptExts /\ \E root \in roots : IsPrefix(root, p)}

Walked(s, files) ==
  {p \in FindTranscripts(IF s.roots = {} THEN {HomeDir(s)} ELSE s.roots, files) :
     InferSource(p) \in ToSet(WantedTools(s))}

Claimed(s, files) == UNION {Claims(kind, s, files) : kind \in ToSet(WantedTools(s))}

(* The adapters are asked in the order in which the tools are wanted.      *)
Claimant(s, files, p) ==
  LET wanted == WantedTools(s)
  IN  wanted[SelectInSeq(wanted, LAMBDA kind : p \in Claims(kind, s, files))]

(* Broken variant, for mutation only: a claim outweighs the walk.          *)
TargetsByClaim(s, files) ==
  LET walked  == Walked(s, files)
      claimed == IF s.roots # {} THEN {} ELSE Claimed(s, files)
  IN  [p \in walked \cup claimed |->
        IF p \in claimed THEN Claimant(s, files, p) ELSE InferSource(p)]

(* Broken variant, for mutation only: the adapters are always asked.       *)
TargetsUnscoped(s, files) ==
  LET walked  == Walked(s, files)
      claimed == Claimed(s, files)
  IN  [p \in walked \cup claimed |->
        IF p \in walked THEN InferSource(p) ELSE Claimant(s, files, p)]

(* With explicit roots the adapters are not asked at all. Of the entries   *)
(* of one path the first stays: that of the walk.                          *)
Targets(s, files) ==
  LET walked  == Walked(s, files)
      claimed == IF s.roots # {} THEN {} ELSE Claimed(s, files)
  IN  [p \in walked \cup claimed |->
        IF p \in walked THEN InferSource(p) ELSE Claimant(s, files, p)]

-----------------------------------------------------------------------------
Idle == [p \in {} |-> "none"]

Init ==
  /\ disk = {} /\ known = {}
  /\ settings = Unset
  /\ by_path = Idle
  /\ read = {} /\ runs = 0

(* A tool starts a session, or a user saves a file.                        *)
Create(p) ==
  /\ p \notin disk /\ Cardinality(disk) < MaxFiles
  /\ disk' = disk \cup {p}
  /\ UNCHANGED <<settings, known, by_path, read, runs>>

Reading(p, kind, s) ==
  [path |-> p, kind |-> kind, wanted |-> ToSet(WantedTools(s)), roots |-> s.roots]

(* watch --once reads every target and skips those that it cannot read; a  *)
(* directory that is claimed is one of them.                               *)
WatchOnce(s) ==
  /\ settings = Unset /\ runs < MaxRuns
  /\ LET targets == Targets(s, disk)
     IN  read' = read \cup {Reading(p, targets[p], s) : p \in DOMAIN targets \cap disk}
  /\ runs' = runs + 1
  /\ UNCHANGED <<disk, settings, known, by_path>>

(* watch: the targets of the start are what this run watches.              *)
WatchLive(s) ==
  /\ settings = Unset /\ runs < MaxRuns
  /\ settings' = s
  /\ known' = disk
  /\ by_path' = Targets(s, disk)
  /\ runs' = runs + 1
  /\ UNCHANGED <<disk, read>>

(* The tool of a batch: that of its path at the start.                     *)
RouteOf(p) == IF p \in DOMAIN by_path THEN by_path[p] ELSE InferSource(p)

EmitBatch(p) ==
  /\ settings # Unset
  /\ p \in DOMAIN by_path \cap disk
  /\ read' = read \cup {Reading(p, RouteOf(p), settings)}
  /\ UNCHANGED <<disk, settings, known, by_path, runs>>

Stop ==
  /\ settings # Unset
  /\ settings' = Unset /\ known' = {} /\ by_path' = Idle
  /\ UNCHANGED <<disk, read, runs>>

(* memscribe parse or replay of one file, without --as.                    *)
Parse(p) ==
  /\ p \in disk /\ runs < MaxRuns
  /\ ResolveSource("infer", p) # "none"
  /\ read' = read \cup {[path |-> p, kind |-> ResolveSource("infer", p),
                         wanted |-> Tools, roots |-> {}]}
  /\ runs' = runs + 1
  /\ UNCHANGED <<disk, settings, known, by_path>>

Next ==
  \/ \E p \in Catalog : Create(p) \/ EmitBatch(p) \/ Parse(p)
  \/ \E s \in AllSettings : WatchOnce(s) \/ WatchLive(s)
  \/ Stop

Spec == Init /\ [][Next]_vars
-----------------------------------------------------------------------------
(* A transcript is read by one tool's adapter, whichever of watch, watch   *)
(* --once and parse reads it and whatever the tools wanted by each: its    *)
(* events would get other ids otherwise, and be stored twice. Only a run   *)
(* that does not want the tool its path names can differ. The files that   *)
(* only an adapter finds (main.rs:775-783), databases and transcripts that *)
(* were moved, have in the catalog of the run their tool's name or none in *)
(* their path: under another tool's name the property would be false.      *)
OneAdapterPerFile ==
  \A a, b \in read :
    /\ a.path = b.path
    /\ InferSource(a.path) \in a.wanted \cap b.wanted
    => a.kind = b.kind

(* What a wanted tool had written where it keeps its transcripts when the  *)
(* watch began, in the home directory or where an override moved it, is    *)
(* watched, whatever other tools its path mentions, and is read by the     *)
(* tool's own adapter or by that of the tool its path names first: a       *)
(* Claude session of a project called codex goes to Codex's.               *)
Places(s) == {HomeDir(s)} \cup {s.overrides[n] : n \in DOMAIN s.overrides}

NoSessionIsMissed ==
  settings # Unset /\ settings.roots = {} /\ settings.project = Unset =>
    \A p \in known :
      /\ WrittenBy[p] \in ToSet(WantedTools(settings))
      /\ \E place \in Places(settings) : Below(place, p)
      => p \in DOMAIN by_path /\ by_path[p] \in {WrittenBy[p], InferSource(p)}

(* Explicit roots are the scope of a watch, however many other transcripts *)
(* the home directory holds, and only wanted tools are read.               *)
ScopeIsKept ==
  \A r \in read :
    /\ r.roots # {} => \E root \in r.roots : IsPrefix(root, r.path)
    /\ r.kind \in r.wanted
-----------------------------------------------------------------------------
(* What ScopeIsKept rests on: a watch that runs was started by one of the  *)
(* settings, its paths are those that Targets made of the files of its     *)
(* start, and the files are a set whatever appears meanwhile.              *)
StartIsKept ==
  settings # Unset =>
    /\ settings \in AllSettings
    /\ by_path = Targets(settings, known)

ScopeInv == StartIsKept /\ ScopeIsKept

(* SelectInSeq, by what it returns: the place of an element, or 0.         *)
LEMMA LeastExists ==
  ASSUME NEW T \in SUBSET Nat, T # {}
  PROVE  \E m \in T : \A k \in T : m <= k
<1> DEFINE R == OpToRel(<, Nat)
<1>1. IsWellFoundedOn(OpToRel(<, Nat), Nat)
  BY NatLessThanWellFounded
<1>2. \A a, b \in Nat : <<a, b>> \in R <=> a < b
  BY DEF OpToRel
<1> HIDE DEF R
<1>3. \E x \in T : \A y \in T : ~ (<<y, x>> \in R)
  BY <1>1, WFMin DEF R
<1>4. PICK m \in T : \A k \in T : ~ (<<k, m>> \in R)
  BY <1>3
<1>5. \A k \in T : ~ (k < m)
  BY <1>2, <1>4
<1>6. \A k \in T : m <= k
  BY <1>5
<1> QED BY <1>6

(* The least of a set of positions is one of them.                         *)
LEMMA MinIsMember ==
  ASSUME NEW T \in SUBSET Nat, T # {}
  PROVE  Min(T) \in T
BY LeastExists DEF Min

(* The tools that are wanted are always a list of tools.                   *)
LEMMA WantedAreTools ==
  ASSUME NEW s \in AllSettings
  PROVE  WantedTools(s) \in Seq(Tools)
<1>1. s.tools \in Seq(Tools) /\ s.capture \in Seq(Tools)
  BY DiscoveryAssumption
<1>2. AllAdapters \in Seq(Tools)
  BY DEF AllAdapters, Tools, ToSet
<1>3. \/ WantedTools(s) = s.tools
      \/ WantedTools(s) = s.capture
      \/ WantedTools(s) = AllAdapters
  BY DEF WantedTools
<1> QED BY <1>1, <1>2, <1>3

(* A path that a wanted tool claims goes to a wanted tool.                 *)
LEMMA ClaimantIsWanted ==
  ASSUME NEW s \in AllSettings, NEW files, NEW p \in Claimed(s, files)
  PROVE  Claimant(s, files, p) \in ToSet(WantedTools(s))
<1> DEFINE wanted == WantedTools(s)
           Test(kind) == p \in Claims(kind, s, files)
           I == {i \in 1 .. Len(wanted) : Test(wanted[i])}
<1>1. wanted \in Seq(Tools)
  BY WantedAreTools
<1>2. PICK kind \in ToSet(wanted) : Test(kind)
  BY DEF Claimed
<1>3. I # {} /\ I \subseteq Nat
  BY <1>1, <1>2 DEF ToSet
<1>4. Min(I) \in I
  BY <1>3, MinIsMember
<1>5. Claimant(s, files, p) = wanted[Min(I)]
  BY <1>3 DEF Claimant, SelectInSeq
<1> HIDE DEF wanted, I
<1>6. Min(I) \in DOMAIN wanted
  BY <1>1, <1>4 DEF I
<1> QED BY <1>5, <1>6 DEF ToSet, wanted

(* The tool that a path names is one that there is.                        *)
LEMMA InferredIsATool ==
  ASSUME NEW p, InferSource(p) # "none"
  PROVE  InferSource(p) \in Tools
<1> DEFINE Test(m) == m.word \in Mentions(p)
           I == {i \in 1 .. Len(Markers) : Test(Markers[i])}
           first == IF I # {} THEN Min(I) ELSE 0
<1>1. InferSource(p) = IF first # 0 THEN Markers[first].kind
                       ELSE IF ExtOf[Name(p)] = "ndjson" THEN "otel" ELSE "none"
  BY DEF InferSource, SelectInSeq
<1>2. first # 0 => first \in 1 .. 11
  BY MinIsMember DEF Markers
<1> HIDE DEF first
<1>3. \A i \in 1 .. 11 : Markers[i].kind \in Tools
  BY DEF Markers, Tools, AllAdapters, ToSet
<1>4. "otel" \in Tools
  BY DEF Tools, AllAdapters, ToSet
<1> QED BY <1>1, <1>2, <1>3, <1>4

(* What one start of a watch reads is in its scope and of its tools.       *)
LEMMA TargetsInScope ==
  ASSUME NEW s \in AllSettings, NEW files, NEW p \in DOMAIN Targets(s, files)
  PROVE  /\ s.roots # {} => \E root \in s.roots : IsPrefix(root, p)
         /\ Targets(s, files)[p] \in ToSet(WantedTools(s))
<1> DEFINE walked  == Walked(s, files)
           claimed == IF s.roots # {} THEN {} ELSE Claimed(s, files)
<1>1. /\ p \in walked \cup claimed
      /\ Targets(s, files)[p] = IF p \in walked THEN InferSource(p) ELSE Claimant(s, files, p)
  BY DEF Targets
<1>2. CASE p \in walked
  <2>1. InferSource(p) \in ToSet(WantedTools(s))
    BY <1>2 DEF Walked
  <2>2. s.roots # {} => \E root \in s.roots : IsPrefix(root, p)
    BY <1>2 DEF Walked, FindTranscripts
  <2> QED BY <1>1, <1>2, <2>1, <2>2
<1>3. CASE p \notin walked
  <2>1. p \in Claimed(s, files) /\ s.roots = {}
    BY <1>1, <1>3
  <2> QED BY <1>1, <1>3, <2>1, ClaimantIsWanted
<1> QED BY <1>2, <1>3

(* One more reading, in the scope of a start, keeps ScopeIsKept.           *)
KeepsScope(r) ==
  /\ r.roots # {} => \E root \in r.roots : IsPrefix(root, r.path)
  /\ r.kind \in r.wanted

(* No reading of any run leaves the roots it was given or goes to a tool   *)
(* that it does not want: for every catalog of files, every environment    *)
(* and all settings, the order in which files appear included.             *)
THEOREM ScopeHolds == Spec => []ScopeIsKept
<1>1. Init => ScopeInv
  BY DEF Init, ScopeInv, StartIsKept, ScopeIsKept
<1>2. ScopeInv /\ [Next]_vars => ScopeInv'
  <2> SUFFICES ASSUME ScopeInv, [Next]_vars PROVE ScopeInv'
    OBVIOUS
  <2> USE DEF ScopeInv
  <2>0. ScopeIsKept <=> \A r \in read : KeepsScope(r)
    BY DEF ScopeIsKept, KeepsScope
  <2>0a. ScopeIsKept' <=> \A r \in read' : KeepsScope(r)
    BY DEF ScopeIsKept, KeepsScope
  <2>1. CASE UNCHANGED vars
    BY <2>1 DEF vars, StartIsKept, ScopeIsKept
  <2>2. ASSUME NEW p \in Catalog, Create(p) PROVE ScopeInv'
    BY <2>2 DEF Create, StartIsKept, ScopeIsKept
  <2>3. ASSUME NEW p \in Catalog, EmitBatch(p) PROVE ScopeInv'
    <3>1. settings \in AllSettings /\ by_path = Targets(settings, known) /\ p \in DOMAIN by_path
      BY <2>3 DEF EmitBatch, StartIsKept
    <3>2. KeepsScope(Reading(p, RouteOf(p), settings))
      BY <3>1, TargetsInScope DEF KeepsScope, Reading, RouteOf
    <3>3. read' = read \cup {Reading(p, RouteOf(p), settings)}
      BY <2>3 DEF EmitBatch
    <3>4. StartIsKept'
      BY <2>3 DEF EmitBatch, StartIsKept
    <3> QED BY <2>0, <2>0a, <3>2, <3>3, <3>4
  <2>4. ASSUME NEW p \in Catalog, Parse(p) PROVE ScopeInv'
    <3> DEFINE r == [path |-> p, kind |-> ResolveSource("infer", p),
                     wanted |-> Tools, roots |-> {}]
    <3>1. KeepsScope(r)
      BY <2>4, InferredIsATool DEF KeepsScope, Parse, ResolveSource
    <3>2. read' = read \cup {r}
      BY <2>4 DEF Parse
    <3>3. StartIsKept'
      BY <2>4 DEF Parse, StartIsKept
    <3> QED BY <2>0, <2>0a, <3>1, <3>2, <3>3
  <2>5. ASSUME NEW s \in AllSettings, WatchOnce(s) PROVE ScopeInv'
    <3> DEFINE T == Targets(s, disk)
    <3>1. read' = read \cup {Reading(p, T[p], s) : p \in DOMAIN T \cap disk}
      BY <2>5 DEF WatchOnce
    <3>2. ASSUME NEW p \in DOMAIN T PROVE KeepsScope(Reading(p, T[p], s))
      BY TargetsInScope DEF KeepsScope, Reading
    <3>3. StartIsKept'
      BY <2>5 DEF WatchOnce, StartIsKept
    <3> HIDE DEF T
    <3> QED BY <2>0, <2>0a, <3>1, <3>2, <3>3
  <2>6. ASSUME NEW s \in AllSettings, WatchLive(s) PROVE ScopeInv'
    BY <2>6 DEF WatchLive, StartIsKept, ScopeIsKept
  <2>7. CASE Stop
    BY <2>7 DEF Stop, StartIsKept, ScopeIsKept
  <2> QED BY <2>1, <2>2, <2>3, <2>4, <2>5, <2>6, <2>7 DEF Next
<1>3. ScopeInv => ScopeIsKept
  BY DEF ScopeInv
<1> QED BY <1>1, <1>2, <1>3, PTL DEF Spec

=============================================================================
