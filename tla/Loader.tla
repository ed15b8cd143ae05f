--------------------------------- MODULE Loader ---------------------------------
(***************************************************************************)
(* The module registry of one context: the names it holds, the ESM modules   *)
(* it builds, and the CommonJS loader with its cache.  A module's body is     *)
(* user code: it requires others, replaces its exports, returns or throws.    *)
(* The exports of a definition are made by factories, which are host code and  *)
(* may require modules too, the one they are making included.                 *)
(* A path is a sequence of names with an extension; a module's name is a path  *)
(* of its own kind, for the one cache has both kinds of keys.                  *)
(* External: the files, their reader and the path resolver (a symlink has     *)
(* been followed), the QuickJS module builder.                                *)
(***************************************************************************)
EXTENDS Naturals, Sequences, FiniteSets, SequencesExt, FiniteSetsExt

CONSTANTS
    Contents,      \* of each source file, what it may hold
    Main,          \* of a directory with a package.json, the path in its "main"
    BaseDir, GlobalFolders,
    Specifiers,    \* what user code requires: [path : BOOLEAN, at, ext]
    Definitions,   \* what the host may add: [name, aliases]
    Natives,       \* native modules, likewise; the name without node: is canonical
    Bare,          \* of each name, what is left of it without node:
    MaxObjects     \* bound: exports objects made, and calls that run when factories start

Files == DOMAIN Contents
Names == DOMAIN Bare
Keys == Files \cup Names
Host == [at |-> <<>>, ext |-> "host"]
Name(n) == [at |-> <<n>>, ext |-> "name"]
Factory(n) == [at |-> n.at, ext |-> "factory"]    \* the export factories of n
Factories == {Factory(n) : n \in Names}
Code == Keys \cup {Host} \cup Factories

\* A path as a directory: its extension belongs to the last name.
Dir(p) == IF p.ext = "" THEN p.at ELSE Append(Front(p.at), Last(p.at) \o "." \o p.ext)

ASSUME LoaderAssumption ==
    /\ \A f \in Files : Contents[f] \subseteq {"absent", "unreadable", "broken", "source"}
    /\ \A def \in Definitions \cup Natives : {def.name} \cup def.aliases \subseteq Names
    /\ Files \cap Names = {} /\ Host \notin Keys \cup Factories /\ Keys \cap Factories = {}
    \* A main with a package.json of its own is not modelled (see Candidates).
    /\ \A d \in DOMAIN Main : Dir(Main[d]) \notin DOMAIN Main
    /\ MaxObjects \in Nat

VARIABLES
    content,       \* of each file
    definitions, natives,    \* the names registered, each with its definition
    exports,       \* the cache: of each key its module's exports object, or 0
    loaded,        \* the keys that are loaded
    frames,        \* the host, the modules being evaluated, the factories that run,
                   \* innermost last
    esmMarked, esmBuilt,
    made,          \* exports objects made
    runs, failures,    \* history: evaluations begun and failed
    held,          \* history: the exports that code was given
    unbuilt,       \* history: aliases whose build failed, or never came
    replaced       \* history: the exports that were made while their module was made
loaderVars == <<content, definitions, natives, exports, loaded, frames, esmMarked,
                esmBuilt, made, runs, failures, held, unbuilt, replaced>>

-------------------------------------------------------------------------------
NoSearch == [kind |-> "none", lists |-> <<>>]
Evaluation(k) == [of |-> k, search |-> NoSearch]
Innermost == Last(frames)
CodeRuns == Innermost.search = NoSearch

LoaderInit ==
    /\ content \in {c \in [Files -> UNION {Contents[f] : f \in Files}] :
                      \A f \in Files : c[f] \in Contents[f]}
    /\ definitions = <<>> /\ natives = <<>>
    /\ exports = [k \in Keys |-> 0] /\ loaded = {}
    /\ frames = <<Evaluation(Host)>> /\ esmMarked = {} /\ esmBuilt = {} /\ made = 0
    /\ runs = [k \in Keys |-> 0] /\ failures = [k \in Keys |-> 0]
    /\ held = {} /\ unbuilt = {} /\ replaced = {}

cacheVars == <<exports, loaded, made, runs, failures, replaced>>
esmVars == <<esmMarked, esmBuilt, unbuilt>>

-------------------------------------------------------------------------------
\* The registry.  Any goroutine may add, under the lock; a name is never taken
\* from what has it, and either all the names of a definition are added or none.
NamesOf(def) == {def.name} \cup def.aliases
Registered == DOMAIN definitions \cup DOMAIN natives

Add(def) ==
    /\ NamesOf(def) \cap Registered = {}
    /\ definitions' = [n \in DOMAIN definitions \cup NamesOf(def) |->
                         IF n \in NamesOf(def) THEN def ELSE definitions[n]]
    /\ UNCHANGED <<content, natives, cacheVars, frames, esmVars, held>>
RegisterNativeModule(def) ==
    /\ NamesOf(def) \cap Registered = {}
    /\ natives' = [n \in DOMAIN natives \cup NamesOf(def) |->
                     IF n \in NamesOf(def) THEN def ELSE natives[n]]
    /\ UNCHANGED <<content, definitions, cacheVars, frames, esmVars, held>>
AddSource(f) ==
    /\ content[f] # "source" /\ content' = [content EXCEPT ![f] = "source"]
    /\ UNCHANGED <<definitions, natives, cacheVars, frames, esmVars, held>>

-------------------------------------------------------------------------------
\* Where a request is looked for: one list of candidates per folder.
File(at, ext) == [at |-> at, ext |-> ext]
AsFile(p) == IF p.ext = "" THEN <<p, File(p.at, "js"), File(p.at, "json")>> ELSE <<p>>
Index(p) == <<File(Append(Dir(p), "index"), "js"), File(Append(Dir(p), "index"), "json")>>

\* loadAsDirectory: a package.json that cannot be read ends the search, one that
\* is no JSON is passed over.
AsDirectory(p) ==
    LET pkg == File(Append(Dir(p), "package"), "json")
        state == IF pkg \in Files /\ Dir(p) \in DOMAIN Main THEN content[pkg] ELSE "absent"
    IN CASE state = "unreadable" -> <<pkg>>
         [] state = "source" -> AsFile(Main[Dir(p)]) \o Index(Main[Dir(p)]) \o Index(p)
         [] OTHER -> Index(p)
Candidates(p) == AsFile(p) \o AsDirectory(p)

\* searchFolders: the global folders, then node_modules from base up to the root.
SearchFolders(base) ==
    GlobalFolders \o [i \in 1..(Len(base) + 1) |->
                        Append(SubSeq(base, 1, Len(base) + 1 - i), "node_modules")]

ParentDirectory(k) == IF k \in Files THEN Front(k.at) ELSE BaseDir
Lists(k, spec) ==
    IF spec.path THEN <<Candidates(File(ParentDirectory(k) \o spec.at, spec.ext))>>
    ELSE [i \in DOMAIN SearchFolders(ParentDirectory(k)) |->
            Candidates(File(SearchFolders(ParentDirectory(k))[i] \o spec.at, spec.ext))]

\* loadSourceModule stops at a module in the cache or a file that is there.
Found(list) == {i \in DOMAIN list :
                  /\ list[i] \in Files
                  /\ exports[list[i]] # 0 \/ content[list[i]] # "absent"}

-------------------------------------------------------------------------------
\* What code is given for a request: the exports as they are now.
SetTop(search) == [frames EXCEPT ![Len(frames)].search = search]
Give(to, kind, k, obj, partial) ==
    IF kind # "require" THEN held
    ELSE held \cup {[by |-> to, of |-> k, obj |-> obj, partial |-> partial]}
GiveCached(to, kind, k) == Give(to, kind, k, exports[k], k \notin loaded)

\* A failure ends a require; a resolve goes on with the folders that are left.
AfterFailure(search) == IF search.kind = "resolve" THEN search ELSE NoSearch
Rest(search) == [search EXCEPT !.lists = Tail(@)]

\* evaluateCommonJS, and loadNative: the module is in the cache before its body runs.
Evaluate(k, outer) ==
    /\ made < MaxObjects /\ made' = made + 1
    /\ exports' = [exports EXCEPT ![k] = made + 1]
    /\ runs' = [runs EXCEPT ![k] = @ + 1] /\ frames' = Append(outer, Evaluation(k))
    /\ UNCHANGED <<loaded, failures, replaced>>

\* A JSON module: its body is JSON.parse, over at once.
LoadJSON(k) ==
    /\ made < MaxObjects /\ made' = made + 1
    /\ exports' = [exports EXCEPT ![k] = made + 1] /\ loaded' = loaded \cup {k}
    /\ runs' = [runs EXCEPT ![k] = @ + 1]
    /\ frames' = SetTop(NoSearch)
    /\ held' = Give(Innermost.of, Innermost.search.kind, k, made + 1, FALSE)
    /\ UNCHANGED <<failures, replaced>>

-------------------------------------------------------------------------------
\* buildCachedESM.  Building a module may fail; a failed canonical name is unmarked
\* and tried again, a failed alias is not.
BuildMarked(def, how) ==    \* mutant
    /\ esmMarked' = esmMarked \cup {def.name}
    /\ esmBuilt' = IF how = "built" THEN esmBuilt \cup NamesOf(def) ELSE esmBuilt
    /\ UNCHANGED unbuilt
Build(def, how) ==
    IF def.name \in esmMarked THEN UNCHANGED esmVars
    ELSE CASE how = "built" ->
                /\ esmMarked' = esmMarked \cup {def.name}
                /\ esmBuilt' = esmBuilt \cup NamesOf(def) /\ UNCHANGED unbuilt
           [] how = "canonical failed" -> UNCHANGED esmVars
           [] how = "alias failed" ->
                /\ esmMarked' = esmMarked \cup {def.name}
                /\ \E missing \in SUBSET def.aliases \ {{}} :
                     /\ esmBuilt' = esmBuilt \cup (NamesOf(def) \ missing)
                     /\ unbuilt' = unbuilt \cup missing

\* The outcomes of prepareDefinition, those that are errors first.
Failing == {"export failed", "canonical failed", "alias failed"}
Outcomes == Failing \cup {"built"}
BuildEnds(def, how) ==
    /\ how # "export failed" /\ Build(def, how)
    /\ how \in Failing => def.name \notin esmMarked
    /\ how = "alias failed" => def.aliases # {}

\* prepareDefinition: of a module in the cache the names that are missing are built, of
\* another one the factories are called first.  What they return is stored under all of
\* its names, also when one of them has required the module and so stored another.
Store(def) ==
    /\ made < MaxObjects /\ made' = made + 1
    /\ exports' = [k \in Keys |-> IF k \in NamesOf(def) THEN made + 1 ELSE exports[k]]
    /\ loaded' = loaded \cup NamesOf(def)
    /\ replaced' = replaced \cup ({exports[def.name]} \ {0})
Prepare(def, how) ==
    /\ exports[def.name] # 0 /\ BuildEnds(def, how) /\ UNCHANGED cacheVars
CallFactories(def, kind, lists) ==
    /\ exports[def.name] = 0 /\ Len(frames) <= MaxObjects
    /\ frames' = Append(SetTop([kind |-> kind, lists |-> lists]), Evaluation(Factory(def.name)))
    /\ UNCHANGED <<cacheVars, esmVars, held>>

\* RegisterModule; Register is this for every definition, in order.
RegisterModule(n) ==
    /\ frames = <<Evaluation(Host)>> /\ n \in DOMAIN definitions
    /\ \/ CallFactories(definitions[n], "register", <<>>)
       \/ \E how \in Outcomes : Prepare(definitions[n], how) /\ UNCHANGED <<frames, held>>
    /\ UNCHANGED <<content, definitions, natives>>

-------------------------------------------------------------------------------
\* require and require.resolve, called by the code on top.  A named module first,
\* with or without node:, then the files.
NameOf(spec) == IF spec.path THEN Host ELSE [at |-> spec.at, ext |-> "name"]
Named(spec) ==
    LET n == NameOf(spec) IN
      IF n \in Registered THEN {n}
      ELSE IF n \in Names /\ Bare[n] \in Registered THEN {Bare[n]} ELSE {}

LoadNative(kind, def, spec) ==
    IF exports[def.name] # 0
    THEN held' = GiveCached(Innermost.of, kind, def.name) /\ UNCHANGED <<cacheVars, frames>>
    ELSE /\ UNCHANGED held
         /\ Evaluate(def.name, SetTop([kind |-> kind, lists |-> Lists(Innermost.of, spec)]))

SearchFiles(kind, spec) ==
    frames' = SetTop([kind |-> kind, lists |-> Lists(Innermost.of, spec)])

LoadStatic(kind, def, spec) ==
    \/ CallFactories(def, kind, Lists(Innermost.of, spec))
    \/ \E how \in Outcomes :
         /\ Prepare(def, how)
         /\ held' = IF how \in Failing THEN held
                    ELSE Give(Innermost.of, kind, def.name, exports[def.name], FALSE)
         /\ IF how \in Failing /\ kind = "resolve" THEN SearchFiles(kind, spec)
            ELSE UNCHANGED frames
RequestStatic(kind, spec) ==
    /\ CodeRuns
    /\ \E n \in Named(spec) \cap DOMAIN definitions : LoadStatic(kind, definitions[n], spec)
    /\ UNCHANGED <<content, definitions, natives>>
RequestNative(kind, spec) ==
    /\ CodeRuns /\ \E n \in Named(spec) \cap DOMAIN natives : LoadNative(kind, natives[n], spec)
    /\ UNCHANGED <<content, definitions, natives, esmVars>>
Request(kind, spec) ==
    /\ CodeRuns /\ Named(spec) = {} /\ SearchFiles(kind, spec)
    /\ UNCHANGED <<content, definitions, natives, cacheVars, esmVars, held>>

\* One folder of the search.
NotThere ==
    /\ ~CodeRuns /\ Innermost.search.lists # <<>> /\ Found(Head(Innermost.search.lists)) = {}
    /\ frames' = SetTop(Rest(Innermost.search))
    /\ UNCHANGED <<content, definitions, natives, cacheVars, esmVars, held>>
NotFound ==
    /\ ~CodeRuns /\ Innermost.search.lists = <<>> /\ frames' = SetTop(NoSearch)
    /\ UNCHANGED <<content, definitions, natives, cacheVars, esmVars, held>>
LoadFile ==
    /\ ~CodeRuns /\ Innermost.search.lists # <<>>
    /\ \E i \in Found(Head(Innermost.search.lists)) :
         /\ \A j \in Found(Head(Innermost.search.lists)) : i <= j
         /\ LET f == Head(Innermost.search.lists)[i]
            IN \/ /\ exports[f] # 0 /\ held' = GiveCached(Innermost.of, Innermost.search.kind, f)
                  /\ frames' = SetTop(NoSearch) /\ UNCHANGED cacheVars
               \/ exports[f] = 0 /\ content[f] = "source" /\ f.ext = "json" /\ LoadJSON(f)
               \/ /\ exports[f] = 0 /\ content[f] = "source" /\ f.ext # "json"
                  /\ Evaluate(f, SetTop(Rest(Innermost.search))) /\ UNCHANGED held
               \/ /\ exports[f] = 0 /\ content[f] # "source"
                  /\ frames' = SetTop(AfterFailure(Rest(Innermost.search)))
                  /\ UNCHANGED <<cacheVars, held>>
    /\ UNCHANGED <<content, definitions, natives, esmVars>>

\* LoadMain, by the host: the cached module, or the source it brings.
LoadMainAgain(f) ==    \* mutant
    /\ frames = <<Evaluation(Host)>> /\ f.ext # "json"
    /\ Evaluate(f, SetTop([kind |-> "require", lists |-> <<>>]))
    /\ UNCHANGED <<content, definitions, natives, held, esmVars>>
LoadMain(f) ==
    /\ frames = <<Evaluation(Host)>> /\ f.ext # "json"
    /\ IF exports[f] # 0
       THEN held' = GiveCached(Host, "require", f) /\ UNCHANGED <<cacheVars, frames>>
       ELSE Evaluate(f, SetTop([kind |-> "require", lists |-> <<>>])) /\ UNCHANGED held
    /\ UNCHANGED <<content, definitions, natives, esmVars>>

-------------------------------------------------------------------------------
\* The body of the module on top.
Requirer == frames[Len(frames) - 1]
Evaluating == Len(frames) > 1 /\ CodeRuns /\ Innermost.of \in Keys
Below(search) == [Front(frames) EXCEPT ![Len(frames) - 1].search = search]
AllNames(k) == IF k \in DOMAIN natives THEN NamesOf(natives[k]) ELSE {k}

\* module.exports = another object.
SetExports ==
    /\ Evaluating /\ made < MaxObjects /\ made' = made + 1
    /\ exports' = [exports EXCEPT ![Innermost.of] = made + 1]
    /\ UNCHANGED <<content, definitions, natives, loaded, frames, runs, failures, replaced,
                   esmVars, held>>

\* The body returns: the module is loaded, a native one also by its aliases.
BodyReturns ==
    /\ Evaluating /\ loaded' = loaded \cup AllNames(Innermost.of)
    /\ exports' = [k \in Keys |->
                     IF k \in AllNames(Innermost.of) THEN exports[Innermost.of] ELSE exports[k]]
    /\ held' = Give(Requirer.of, Requirer.search.kind, Innermost.of, exports[Innermost.of], FALSE)
    /\ frames' = Below(NoSearch)
    /\ UNCHANGED <<content, definitions, natives, made, runs, failures, replaced, esmVars>>

\* The body throws: the module leaves the cache and the error goes to whoever
\* required it, whose code may catch it, or throw in its turn.
Keep(k) == UNCHANGED exports    \* mutant
Forget(k) == exports' = [exports EXCEPT ![k] = 0]
BodyThrows ==
    /\ Evaluating /\ Forget(Innermost.of)
    /\ failures' = [failures EXCEPT ![Innermost.of] = @ + 1]
    /\ frames' = Below(AfterFailure(Requirer.search))
    /\ UNCHANGED <<content, definitions, natives, loaded, made, runs, replaced, esmVars, held>>

\* The factories of the definition on top return, or one throws: whoever asked for the
\* module goes on as after any other.
FactoriesReturn(how) ==
    /\ Len(frames) > 1 /\ CodeRuns
    /\ \E n \in DOMAIN definitions :
         /\ Innermost.of = Factory(n)
         /\ \/ how = "export failed" /\ UNCHANGED <<cacheVars, esmVars>>
            \/ Store(definitions[n]) /\ BuildEnds(definitions[n], how)
               /\ UNCHANGED <<runs, failures>>
         /\ held' = IF how \in Failing THEN held
                    ELSE Give(Requirer.of, Requirer.search.kind, definitions[n].name, made', FALSE)
    /\ frames' = Below(IF how \in Failing THEN AfterFailure(Requirer.search) ELSE NoSearch)
    /\ UNCHANGED <<content, definitions, natives>>

LoaderNext ==
    \/ \E def \in Definitions : Add(def)
    \/ \E def \in Natives : RegisterNativeModule(def)
    \/ \E f \in Files : AddSource(f) \/ LoadMain(f)
    \/ \E n \in Names : RegisterModule(n)
    \/ \E kind \in {"require", "resolve"}, spec \in Specifiers :
         Request(kind, spec) \/ RequestNative(kind, spec) \/ RequestStatic(kind, spec)
    \/ NotThere \/ NotFound \/ LoadFile
    \/ SetExports \/ BodyReturns \/ BodyThrows
    \/ \E how \in Outcomes : FactoriesReturn(how)

LoaderSpec == LoaderInit /\ [][LoaderNext]_loaderVars

-------------------------------------------------------------------------------
\* Properties

Holding == [by : Code, of : Keys, obj : 1..MaxObjects, partial : BOOLEAN]
LoaderTypeOK ==
    /\ content \in [Files -> UNION {Contents[f] : f \in Files}]
    /\ \A n \in DOMAIN definitions : definitions[n] \in Definitions /\ n \in NamesOf(definitions[n])
    /\ \A n \in DOMAIN natives : natives[n] \in Natives /\ n \in NamesOf(natives[n])
    /\ exports \in [Keys -> 0..MaxObjects] /\ loaded \subseteq Keys
    /\ \A i \in 1..Len(frames) : frames[i].of \in Code
    /\ esmMarked \cup esmBuilt \cup unbuilt \subseteq Names /\ made \in 0..MaxObjects
    /\ replaced \subseteq 1..MaxObjects
    /\ runs \in [Keys -> Nat] /\ failures \in [Keys -> Nat] /\ held \subseteq Holding

Active == {frames[i].of : i \in 2..Len(frames)} \cap Keys

\* Whatever modules require of each other, in cycles too, and however they fail: a
\* module is evaluated by one call at a time; it is in the cache and not loaded
\* exactly while it is evaluated; and it is evaluated again only after a failure.
OneEvaluation ==
    /\ \A i, j \in 1..Len(frames) : frames[i].of = frames[j].of /\ frames[i].of \in Keys => i = j
    /\ \A k \in Keys : exports[k] # 0 /\ k \notin loaded <=> k \in Active
    /\ \A k \in Keys : runs[k] # 0 =>
         runs[k] = failures[k] + (IF exports[k] = 0 THEN 0 ELSE 1)

\* All code that required a loaded module has the same exports.  Others are held only by
\* code that got them in a cycle, before the module was loaded, and by code that required
\* a definition while its own factories ran: when they return, theirs replace those.
HeldIsCurrent ==
    \A h \in held :
      ~h.partial => h.of \in loaded /\ (exports[h.of] = h.obj \/ h.obj \in replaced)

\* The registry is whole: a name has one owner, a definition has all of its names or
\* none, and one that is marked as built can be imported by all of them but those
\* whose build failed.
RegistryWhole ==
    /\ DOMAIN definitions \cap DOMAIN natives = {}
    /\ \A m \in {definitions, natives} : \A n \in DOMAIN m :
         \A o \in NamesOf(m[n]) : o \in DOMAIN m /\ m[o] = m[n]
    /\ \A n \in esmMarked :
         n \in DOMAIN definitions /\ NamesOf(definitions[n]) \ unbuilt \subseteq esmBuilt
================================================================================
