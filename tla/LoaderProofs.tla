------------------------------ MODULE LoaderProofs ------------------------------
(***************************************************************************)
(* Theorems about Loader for every set of files, names, definitions and      *)
(* native modules: the registry is whole, a module is evaluated by one call   *)
(* at a time, and whoever holds a loaded module's exports has the same ones.  *)
(***************************************************************************)
EXTENDS Loader, SequenceTheorems, TLAPS

-------------------------------------------------------------------------------
\* The registry, of which the cache sees only what is registered.

RegistryTypeOK ==
    /\ \A n \in DOMAIN definitions : definitions[n] \in Definitions /\ n \in NamesOf(definitions[n])
    /\ \A n \in DOMAIN natives : natives[n] \in Natives /\ n \in NamesOf(natives[n])
    /\ esmMarked \cup esmBuilt \cup unbuilt \subseteq Names
RegistryInv == RegistryTypeOK /\ RegistryWhole

LEMMA NamesAreNames ==
    ASSUME RegistryTypeOK
    PROVE  /\ \A def \in Definitions \cup Natives : NamesOf(def) \subseteq Names
           /\ DOMAIN definitions \subseteq Names /\ DOMAIN natives \subseteq Names
           /\ \A n \in DOMAIN definitions : definitions[n].name \in NamesOf(definitions[n])
           /\ \A n \in DOMAIN natives : natives[n].name \in NamesOf(natives[n])
<1>1. \A def \in Definitions \cup Natives : NamesOf(def) \subseteq Names
  BY LoaderAssumption DEF NamesOf
<1> QED BY <1>1 DEF RegistryTypeOK, NamesOf

\* A definition is added with all of its names, none of which is taken.
LEMMA AddKeepsRegistry ==
    ASSUME RegistryInv, NEW def \in Definitions, Add(def)
    PROVE  RegistryInv'
<1>1. /\ NamesOf(def) \cap DOMAIN definitions = {} /\ NamesOf(def) \cap DOMAIN natives = {}
      /\ DOMAIN definitions' = DOMAIN definitions \cup NamesOf(def)
      /\ \A n \in NamesOf(def) : definitions'[n] = def
      /\ \A n \in DOMAIN definitions : definitions'[n] = definitions[n]
      /\ UNCHANGED <<natives, esmMarked, esmBuilt, unbuilt>>
  BY DEF Add, Registered, esmVars
<1>2. RegistryTypeOK'
  BY <1>1 DEF RegistryInv, RegistryTypeOK
<1>3. DOMAIN definitions' \cap DOMAIN natives = {}
  BY <1>1 DEF RegistryInv, RegistryWhole
<1>4. \A n \in DOMAIN definitions' : \A o \in NamesOf(definitions'[n]) :
        o \in DOMAIN definitions' /\ definitions'[o] = definitions'[n]
  BY <1>1 DEF RegistryInv, RegistryWhole
<1>5. \A n \in DOMAIN natives : \A o \in NamesOf(natives[n]) :
        o \in DOMAIN natives /\ natives[o] = natives[n]
  BY DEF RegistryInv, RegistryWhole
<1>6. \A n \in esmMarked :
        n \in DOMAIN definitions' /\ NamesOf(definitions'[n]) \ unbuilt \subseteq esmBuilt
  BY <1>1 DEF RegistryInv, RegistryWhole
<1> QED BY <1>1, <1>2, <1>3, <1>4, <1>5, <1>6 DEF RegistryInv, RegistryWhole, NamesOf

LEMMA RegisterNativeKeepsRegistry ==
    ASSUME RegistryInv, NEW def \in Natives, RegisterNativeModule(def)
    PROVE  RegistryInv'
<1>1. /\ NamesOf(def) \cap DOMAIN definitions = {} /\ NamesOf(def) \cap DOMAIN natives = {}
      /\ DOMAIN natives' = DOMAIN natives \cup NamesOf(def)
      /\ \A n \in NamesOf(def) : natives'[n] = def
      /\ \A n \in DOMAIN natives : natives'[n] = natives[n]
      /\ UNCHANGED <<definitions, esmMarked, esmBuilt, unbuilt>>
  BY DEF RegisterNativeModule, Registered, esmVars
<1>2. RegistryTypeOK'
  BY <1>1 DEF RegistryInv, RegistryTypeOK
<1>3. DOMAIN definitions \cap DOMAIN natives' = {}
  BY <1>1 DEF RegistryInv, RegistryWhole
<1>4. \A n \in DOMAIN natives' : \A o \in NamesOf(natives'[n]) :
        o \in DOMAIN natives' /\ natives'[o] = natives'[n]
  BY <1>1 DEF RegistryInv, RegistryWhole
<1>5. \A n \in DOMAIN definitions : \A o \in NamesOf(definitions[n]) :
        o \in DOMAIN definitions /\ definitions[o] = definitions[n]
  BY DEF RegistryInv, RegistryWhole
<1> QED BY <1>1, <1>2, <1>3, <1>4, <1>5 DEF RegistryInv, RegistryWhole, NamesOf

LEMMA BuildKeepsRegistry ==
    ASSUME RegistryInv, NEW n \in DOMAIN definitions, NEW how \in {"built", "canonical failed", "alias failed"},
           Build(definitions[n], how),
           UNCHANGED <<definitions, natives>>
    PROVE  RegistryInv'
<1> DEFINE def == definitions[n]
<1>1. /\ def.name \in DOMAIN definitions /\ definitions[def.name] = def
      /\ NamesOf(def) \subseteq Names /\ def.aliases \subseteq NamesOf(def) /\ def.name \in NamesOf(def)
  BY NamesAreNames DEF RegistryInv, RegistryWhole, RegistryTypeOK, NamesOf
<1>2. \/ UNCHANGED esmVars
      \/ /\ esmMarked' = esmMarked \cup {def.name}
         /\ esmBuilt' = esmBuilt \cup NamesOf(def) /\ UNCHANGED unbuilt
      \/ /\ esmMarked' = esmMarked \cup {def.name}
         /\ \E missing \in SUBSET def.aliases :
              /\ esmBuilt' = esmBuilt \cup (NamesOf(def) \ missing)
              /\ unbuilt' = unbuilt \cup missing
  BY DEF Build
<1> HIDE DEF def
<1>3. RegistryTypeOK'
  BY <1>1, <1>2 DEF RegistryInv, RegistryTypeOK, esmVars
<1>4. \A m \in esmMarked' :
        m \in DOMAIN definitions /\ NamesOf(definitions[m]) \ unbuilt' \subseteq esmBuilt'
  <2>1. CASE UNCHANGED esmVars
    BY <2>1 DEF RegistryInv, RegistryWhole, esmVars
  <2>2. CASE esmMarked' = esmMarked \cup {def.name} /\ esmBuilt' = esmBuilt \cup NamesOf(def)
             /\ UNCHANGED unbuilt
    BY <1>1, <2>2 DEF RegistryInv, RegistryWhole
  <2>3. ASSUME esmMarked' = esmMarked \cup {def.name}, NEW missing \in SUBSET def.aliases,
               esmBuilt' = esmBuilt \cup (NamesOf(def) \ missing), unbuilt' = unbuilt \cup missing
        PROVE  \A m \in esmMarked' :
                 m \in DOMAIN definitions /\ NamesOf(definitions[m]) \ unbuilt' \subseteq esmBuilt'
    BY <1>1, <2>3 DEF RegistryInv, RegistryWhole
  <2> QED BY <1>2, <2>1, <2>2, <2>3
<1> QED BY <1>3, <1>4 DEF RegistryInv, RegistryWhole, NamesOf

LEMMA BuildEndsKeepsRegistry ==
    ASSUME RegistryInv, NEW n \in DOMAIN definitions, NEW how \in Outcomes,
           BuildEnds(definitions[n], how),
           UNCHANGED <<definitions, natives>>
    PROVE  RegistryInv'
<1>1. Build(definitions[n], how) /\ how \in {"built", "canonical failed", "alias failed"}
  BY DEF BuildEnds, Outcomes, Failing
<1> QED BY <1>1, BuildKeepsRegistry

LEMMA RegistryNextKeeps == RegistryInv /\ [LoaderNext]_loaderVars => RegistryInv'
<1> SUFFICES ASSUME RegistryInv, [LoaderNext]_loaderVars PROVE RegistryInv'
  OBVIOUS
<1>1. CASE UNCHANGED <<definitions, natives, esmMarked, esmBuilt, unbuilt>>
  BY <1>1 DEF RegistryInv, RegistryTypeOK, RegistryWhole, NamesOf
<1>2. CASE UNCHANGED loaderVars
  BY <1>1, <1>2 DEF loaderVars
<1>3. ASSUME NEW f \in Files, AddSource(f) \/ LoadMain(f) PROVE RegistryInv'
  BY <1>1, <1>3 DEF AddSource, LoadMain, esmVars
<1>4. CASE NotThere \/ NotFound \/ LoadFile \/ SetExports \/ BodyReturns \/ BodyThrows
  BY <1>1, <1>4 DEF NotThere, NotFound, LoadFile, SetExports, BodyReturns, BodyThrows, esmVars
<1>5. ASSUME NEW kind, NEW spec, Request(kind, spec) \/ RequestNative(kind, spec) PROVE RegistryInv'
  BY <1>1, <1>5 DEF Request, RequestNative, esmVars
<1>6. ASSUME NEW n \in Names, RegisterModule(n) PROVE RegistryInv'
  <2>1. CASE CallFactories(definitions[n], "register", <<>>)
    BY <1>1, <1>6, <2>1 DEF CallFactories, RegisterModule, esmVars
  <2>2. ASSUME NEW how \in Outcomes, Prepare(definitions[n], how) PROVE RegistryInv'
    BY <1>6, <2>2, BuildEndsKeepsRegistry DEF RegisterModule, Prepare
  <2> QED BY <1>6, <2>1, <2>2 DEF RegisterModule
<1>7. ASSUME NEW kind, NEW spec, RequestStatic(kind, spec) PROVE RegistryInv'
  <2>1. PICK n \in DOMAIN definitions : LoadStatic(kind, definitions[n], spec)
    BY <1>7 DEF RequestStatic
  <2>2. UNCHANGED <<definitions, natives>>
    BY <1>7 DEF RequestStatic
  <2>3. CASE CallFactories(definitions[n], kind, Lists(Innermost.of, spec))
    BY <1>1, <2>2, <2>3 DEF CallFactories, esmVars
  <2>4. ASSUME NEW how \in Outcomes, Prepare(definitions[n], how) PROVE RegistryInv'
    BY <2>2, <2>4, BuildEndsKeepsRegistry DEF Prepare
  <2> QED BY <2>1, <2>3, <2>4 DEF LoadStatic
<1>8. ASSUME NEW how \in Outcomes, FactoriesReturn(how) PROVE RegistryInv'
  <2>1. UNCHANGED <<definitions, natives>>
    BY <1>8 DEF FactoriesReturn
  <2>2. CASE UNCHANGED esmVars
    BY <1>1, <2>1, <2>2 DEF esmVars
  <2>3. CASE ~UNCHANGED esmVars
    <3>1. PICK n \in DOMAIN definitions : BuildEnds(definitions[n], how)
      BY <1>8, <2>3 DEF FactoriesReturn
    <3> QED BY <2>1, <3>1, BuildEndsKeepsRegistry
  <2> QED BY <2>2, <2>3
<1> QED BY <1>2, <1>3, <1>4, <1>5, <1>6, <1>7, <1>8, AddKeepsRegistry, RegisterNativeKeepsRegistry
        DEF LoaderNext

LEMMA InitRegistry == LoaderInit => RegistryInv
<1> SUFFICES ASSUME LoaderInit PROVE RegistryInv
  OBVIOUS
<1>1. DOMAIN definitions = {} /\ DOMAIN natives = {}
      /\ esmMarked = {} /\ esmBuilt = {} /\ unbuilt = {}
  BY DEF LoaderInit
<1> QED BY <1>1 DEF RegistryInv, RegistryTypeOK, RegistryWhole

\* For all definitions and native modules, added in any order by any goroutine: a name has
\* one owner, a definition all of its names or none, and one that was built can be imported
\* by all of them but those whose build failed (registry.go, Add and buildCachedESM).
THEOREM RegistryStaysWhole == LoaderSpec => []RegistryWhole
<1>1. LoaderSpec => []RegistryInv
  BY InitRegistry, RegistryNextKeeps, PTL DEF LoaderSpec
<1>2. RegistryInv => RegistryWhole
  BY DEF RegistryInv
<1> QED BY <1>1, <1>2, PTL

-------------------------------------------------------------------------------
\* The frames: the host's, then those of the modules being evaluated and of the factories
\* that run.  What a frame searches for does not matter here, only whose it is.

FrameWith(S) == [of : Code, search : S]
Framed(fs) == fs # <<>> /\ \E S : fs \in Seq(FrameWith(S))
Of(i) == frames[i].of
FramesOK ==
    /\ Framed(frames) /\ Of(1) = Host
    /\ \A i \in 2..Len(frames) : Of(i) \in Keys \cup Factories
    /\ \A i, j \in 1..Len(frames) : Of(i) = Of(j) /\ Of(i) \in Keys => i = j

SameFrames ==
    /\ Framed(frames') /\ Len(frames') = Len(frames)
    /\ \A i \in 1..Len(frames) : Of(i)' = Of(i)
Pushed(k) ==
    /\ Framed(frames') /\ Len(frames') = Len(frames) + 1
    /\ \A i \in 1..Len(frames) : Of(i)' = Of(i)
    /\ frames'[Len(frames) + 1].of = k
Popped ==
    /\ Framed(frames') /\ Len(frames') = Len(frames) - 1
    /\ \A i \in 1..(Len(frames) - 1) : Of(i)' = Of(i)

LEMMA FrameFacts ==
    ASSUME NEW S, NEW search
    PROVE  /\ FrameWith(S) \subseteq FrameWith(S \cup {search})
           /\ \A f \in FrameWith(S) :
                /\ f.of \in Code
                /\ [f EXCEPT !.search = search] \in FrameWith(S \cup {search})
                /\ [f EXCEPT !.search = search].of = f.of
           /\ \A k \in Code :
                [of |-> k, search |-> search] \in FrameWith(S \cup {search})
  BY DEF FrameWith

LEMMA FramedFacts ==
    ASSUME Framed(frames)
    PROVE  /\ Len(frames) \in Nat /\ Len(frames) >= 1 /\ DOMAIN frames = 1..Len(frames)
           /\ Innermost = frames[Len(frames)] /\ Len(frames) \in 1..Len(frames)
           /\ \A i \in 1..Len(frames) : Of(i) \in Code
<1>1. PICK S : frames \in Seq(FrameWith(S))
  BY DEF Framed
<1>2. Len(frames) \in Nat /\ Len(frames) # 0 /\ DOMAIN frames = 1..Len(frames)
  BY <1>1 DEF Framed
<1>3. \A i \in 1..Len(frames) : frames[i] \in FrameWith(S)
  BY <1>1
<1>4. \A i \in 1..Len(frames) : Of(i) \in Code
  BY <1>3, FrameFacts DEF Of
<1> QED BY <1>2, <1>4 DEF Innermost, Last

\* A frame's search changes, the innermost one's or the last one's of what is below it.
Searching(fs, search) == [fs EXCEPT ![Len(fs)].search = search]

LEMMA SearchFacts ==
    ASSUME NEW fs, Framed(fs), NEW search
    PROVE  /\ Len(fs) \in Nat /\ Framed(Searching(fs, search))
           /\ Len(Searching(fs, search)) = Len(fs)
           /\ \A i \in 1..Len(fs) : Searching(fs, search)[i].of = fs[i].of
<1>1. PICK S : fs \in Seq(FrameWith(S))
  BY DEF Framed
<1>2. PICK T : T = FrameWith(S \cup {search})
  OBVIOUS
<1>3. PICK top : top = [fs[Len(fs)] EXCEPT !.search = search]
  OBVIOUS
<1>4. Len(fs) \in Nat /\ Len(fs) \in 1..Len(fs)
  BY <1>1 DEF Framed
<1>5. fs \in Seq(T) /\ fs[Len(fs)] \in FrameWith(S)
  <2>1. FrameWith(S) \subseteq T
    BY <1>2, FrameFacts
  <2> QED BY <1>1, <1>4, <2>1, SeqMonotonic, ElementOfSeq
<1>6. top \in T /\ top.of = fs[Len(fs)].of
  <2>1. \A f \in FrameWith(S) : /\ [f EXCEPT !.search = search] \in T
                                /\ [f EXCEPT !.search = search].of = f.of
    BY <1>2 DEF FrameWith
  <2> QED BY <1>3, <1>5, <2>1
<1>7. PICK new : new = [fs EXCEPT ![Len(fs)] = top]
  OBVIOUS
<1>8. /\ new \in Seq(T) /\ Len(new) = Len(fs)
      /\ \A i \in 1..Len(fs) : new[i] = IF i = Len(fs) THEN top ELSE fs[i]
  BY <1>4, <1>5, <1>6, <1>7, ExceptSeq
<1>10. new # <<>>
  BY <1>4, <1>8
<1>11. \A i \in 1..Len(fs) : new[i].of = fs[i].of
  BY <1>6, <1>8
<1>12. Framed(new)
  BY <1>2, <1>8, <1>10 DEF Framed
<1>13. Searching(fs, search) = new
  BY <1>3, <1>7 DEF Searching
<1> QED BY <1>4, <1>8, <1>11, <1>12, <1>13

LEMMA SetTopFacts ==
    ASSUME Framed(frames), NEW search
    PROVE  /\ Framed(SetTop(search)) /\ Len(SetTop(search)) = Len(frames)
           /\ \A i \in 1..Len(frames) : SetTop(search)[i].of = Of(i)
<1>1. SetTop(search) = Searching(frames, search)
  BY DEF SetTop, Searching
<1> QED BY <1>1, SearchFacts DEF Of

LEMMA PushFacts ==
    ASSUME NEW outer, Framed(outer), NEW k \in Code
    PROVE  /\ Framed(Append(outer, Evaluation(k)))
           /\ Len(Append(outer, Evaluation(k))) = Len(outer) + 1 /\ Len(outer) \in Nat
           /\ \A i \in 1..Len(outer) : Append(outer, Evaluation(k))[i].of = outer[i].of
           /\ Append(outer, Evaluation(k))[Len(outer) + 1].of = k
<1>1. PICK S : outer \in Seq(FrameWith(S))
  BY DEF Framed
<1>2. PICK T : T = FrameWith(S \cup {NoSearch})
  OBVIOUS
<1>3. PICK e : e = Evaluation(k)
  OBVIOUS
<1>4. e \in T /\ e.of = k
  BY <1>2, <1>3, FrameFacts DEF Evaluation
<1>5. outer \in Seq(T) /\ Len(outer) \in Nat
  <2>1. FrameWith(S) \subseteq T
    BY <1>2, FrameFacts
  <2> QED BY <1>1, <2>1, SeqMonotonic
<1>6. /\ Append(outer, e) \in Seq(T) /\ Len(Append(outer, e)) = Len(outer) + 1
      /\ \A i \in 1..Len(outer) : Append(outer, e)[i] = outer[i]
      /\ Append(outer, e)[Len(outer) + 1] = e
  BY <1>4, <1>5
<1>7. Append(outer, e) # <<>>
  BY <1>5, <1>6
<1> QED BY <1>2, <1>3, <1>4, <1>5, <1>6, <1>7 DEF Framed

LEMMA BelowFacts ==
    ASSUME Framed(frames), Len(frames) > 1, NEW search
    PROVE  /\ Framed(Below(search)) /\ Len(Below(search)) = Len(frames) - 1
           /\ \A i \in 1..(Len(frames) - 1) : Below(search)[i].of = Of(i)
<1>1. PICK S : frames \in Seq(FrameWith(S))
  BY DEF Framed
<1>2. PICK T : T = FrameWith(S)
  OBVIOUS
<1>3. frames \in Seq(T) /\ Len(frames) \in Nat
  BY <1>1, <1>2
<1>4. PICK fs : fs = Front(frames)
  OBVIOUS
<1>5. /\ fs \in Seq(T) /\ Len(fs) = Len(frames) - 1
      /\ \A i \in 1..(Len(frames) - 1) : fs[i] = frames[i]
  BY <1>3, <1>4 DEF Front
<1>6. Framed(fs)
  BY <1>2, <1>3, <1>5 DEF Framed
<1>7. Below(search) = Searching(fs, search)
  BY <1>4, <1>5 DEF Below, Searching
<1>8. /\ Framed(Below(search)) /\ Len(Below(search)) = Len(fs)
      /\ \A i \in 1..Len(fs) : Below(search)[i].of = fs[i].of
  BY <1>6, <1>7, SearchFacts
<1> QED BY <1>5, <1>8 DEF Of

\* What a step does to the frames, and what that means for the modules evaluated.
LEMMA SameFramesKeep ==
    ASSUME FramesOK, SameFrames
    PROVE  FramesOK' /\ Active' = Active
<1>1. Len(frames) \in Nat /\ Len(frames) >= 1
  BY FramedFacts DEF FramesOK
<1>2. \A i \in 1..Len(frames) : frames'[i].of = frames[i].of
  BY DEF SameFrames, Of
<1>3. Len(frames') = Len(frames) /\ Framed(frames')
  BY DEF SameFrames
<1>4. FramesOK'
  BY <1>1, <1>2, <1>3 DEF FramesOK, Of
<1>5. \A i \in 2..Len(frames) : frames'[i].of = frames[i].of
  BY <1>1, <1>2
<1> QED BY <1>3, <1>4, <1>5 DEF Active

LEMMA PushedKeeps ==
    ASSUME FramesOK, NEW k \in Keys \cup Factories, k \notin Active, Pushed(k)
    PROVE  FramesOK' /\ Active' = Active \cup ({k} \cap Keys)
<1>1. Len(frames) \in Nat /\ Len(frames) >= 1
  BY FramedFacts DEF FramesOK
<1>2. /\ \A i \in 1..Len(frames) : frames'[i].of = frames[i].of
      /\ Len(frames') = Len(frames) + 1 /\ Framed(frames') /\ frames'[Len(frames) + 1].of = k
  BY <1>1 DEF Pushed, Of
<1>3. k \in Keys => \A i \in 1..Len(frames) : frames[i].of # k
  <2>1. k \in Keys => \A i \in 2..Len(frames) : frames[i].of # k
    BY DEF Active
  <2>2. k \in Keys => frames[1].of # k
    BY LoaderAssumption DEF FramesOK, Of
  <2> QED BY <1>1, <2>1, <2>2
<1>4. \A i \in 1..(Len(frames) + 1) : i \in 1..Len(frames) \/ i = Len(frames) + 1
  BY <1>1
<1>5. FramesOK'
  BY <1>1, <1>2, <1>3, <1>4 DEF FramesOK, Of
<1>6. Active' = {frames'[i].of : i \in 2..(Len(frames) + 1)} \cap Keys
  BY <1>2 DEF Active
<1>7. 2..(Len(frames) + 1) = (2..Len(frames)) \cup {Len(frames) + 1}
  BY <1>1
<1>8. \A i \in 2..Len(frames) : frames'[i].of = frames[i].of
  BY <1>1, <1>2
<1> QED BY <1>2, <1>5, <1>6, <1>7, <1>8 DEF Active

LEMMA PoppedKeeps ==
    ASSUME FramesOK, Len(frames) > 1, Popped
    PROVE  FramesOK' /\ Active' = Active \ {Innermost.of}
<1>1. Len(frames) \in Nat /\ Innermost.of = frames[Len(frames)].of
  BY FramedFacts DEF FramesOK
<1>2. /\ \A i \in 1..(Len(frames) - 1) : frames'[i].of = frames[i].of
      /\ Len(frames') = Len(frames) - 1 /\ Framed(frames')
  BY DEF Popped, Of
<1>3. \A i, j \in 1..Len(frames) : frames[i].of = frames[j].of /\ frames[i].of \in Keys => i = j
  BY DEF FramesOK, Of
<1>4. FramesOK'
  BY <1>1, <1>2 DEF FramesOK, Of
<1>5. Active' = {frames'[i].of : i \in 2..(Len(frames) - 1)} \cap Keys
  BY <1>2 DEF Active
<1>6. \A i \in 2..(Len(frames) - 1) : frames'[i].of = frames[i].of
  BY <1>1, <1>2
<1>7. 2..Len(frames) = (2..(Len(frames) - 1)) \cup {Len(frames)}
  BY <1>1
<1>8. \A i \in 2..(Len(frames) - 1) : frames[i].of \in Keys => frames[i].of # frames[Len(frames)].of
  BY <1>1, <1>3
<1>9. Active' = {frames[i].of : i \in 2..(Len(frames) - 1)} \cap Keys
  BY <1>5, <1>6
<1>10. Active = ({frames[i].of : i \in 2..(Len(frames) - 1)} \cup {frames[Len(frames)].of}) \cap Keys
  BY <1>7 DEF Active
<1>11. \A k \in {frames[i].of : i \in 2..(Len(frames) - 1)} \cap Keys : k # frames[Len(frames)].of
  BY <1>8
<1> QED BY <1>1, <1>4, <1>9, <1>10, <1>11

-------------------------------------------------------------------------------
\* The cache.

CacheTypeOK ==
    /\ exports \in [Keys -> 0..MaxObjects] /\ loaded \subseteq Keys /\ made \in 0..MaxObjects
    /\ runs \in [Keys -> Nat] /\ failures \in [Keys -> Nat] /\ held \subseteq Holding
    /\ replaced \subseteq 1..MaxObjects
Standing ==
    \A k \in Keys :
      /\ exports[k] # 0 /\ k \notin loaded <=> k \in Active
      /\ k \in loaded => exports[k] # 0
Counted ==
    \A k \in Keys :
      IF runs[k] = 0 THEN failures[k] = 0 /\ k \notin Active
      ELSE runs[k] = failures[k] + (IF exports[k] = 0 THEN 0 ELSE 1)

\* Only what is registered is in the cache by a name; only a native module is evaluated,
\* by its canonical name.
Owned ==
    \A n \in Names :
      /\ exports[n] # 0 => n \in Registered
      /\ runs[n] # 0 => n \in DOMAIN natives /\ natives[n].name = n

\* The names of a definition have the same exports, the aliases of a native module enter
\* the cache when it is loaded.
Together ==
    /\ \A n \in DOMAIN definitions : \A o \in NamesOf(definitions[n]) : exports[o] = exports[n]
    /\ \A n \in DOMAIN natives :
         exports[n] # 0 /\ n # natives[n].name => natives[n].name \in loaded
CacheInv == CacheTypeOK /\ Standing /\ Counted /\ Owned /\ Together
LoaderInv == RegistryInv /\ FramesOK /\ CacheInv /\ HeldIsCurrent

LEMMA KeysAndNames == /\ Names \subseteq Keys /\ Files \subseteq Keys /\ Files \cap Names = {}
                      /\ Host \notin Keys /\ Keys \cap Factories = {} /\ MaxObjects \in Nat
                      /\ Keys \subseteq Code /\ Factories \subseteq Code /\ Host \in Code
  BY LoaderAssumption DEF Keys, Code

LEMMA InitLoader == LoaderInit => LoaderInv
<1> SUFFICES ASSUME LoaderInit PROVE LoaderInv
  OBVIOUS
<1>1. /\ frames = <<Evaluation(Host)>> /\ definitions = <<>> /\ natives = <<>>
      /\ exports = [k \in Keys |-> 0] /\ loaded = {} /\ made = 0
      /\ runs = [k \in Keys |-> 0] /\ failures = [k \in Keys |-> 0] /\ held = {}
      /\ replaced = {}
  BY DEF LoaderInit
<1>2. FramesOK /\ Active = {}
  <2>1. Evaluation(Host) \in FrameWith({NoSearch}) /\ Evaluation(Host).of = Host
    BY DEF Evaluation, FrameWith, Code
  <2>2. PICK e : e = Evaluation(Host)
    OBVIOUS
  <2>3. /\ frames \in Seq(FrameWith({NoSearch})) /\ Len(frames) = 1 /\ frames # <<>>
        /\ frames[1].of = Host
    BY <1>1, <2>1, <2>2
  <2>4. Framed(frames)
    BY <2>3 DEF Framed
  <2> QED BY <2>3, <2>4 DEF FramesOK, Of, Active
<1>3. CacheTypeOK
  BY <1>1, KeysAndNames DEF CacheTypeOK
<1>4. CacheInv
  <2>1. Standing /\ Counted
    BY <1>1, <1>2 DEF Standing, Counted
  <2>2. Owned
    BY <1>1, KeysAndNames DEF Owned
  <2>3. DOMAIN definitions = {} /\ DOMAIN natives = {}
    BY <1>1
  <2> QED BY <1>3, <2>1, <2>2, <2>3 DEF CacheInv, Together
<1>5. HeldIsCurrent
  BY <1>1 DEF HeldIsCurrent
<1> QED BY <1>2, <1>4, <1>5, InitRegistry DEF LoaderInv

LEMMA InvEvaluates == LoaderInv => OneEvaluation
<1> SUFFICES ASSUME LoaderInv PROVE OneEvaluation
  OBVIOUS
<1>1. \A i, j \in 1..Len(frames) : frames[i].of = frames[j].of /\ frames[i].of \in Keys => i = j
  BY DEF LoaderInv, FramesOK, Of
<1>2. \A k \in Keys : exports[k] # 0 /\ k \notin loaded <=> k \in Active
  BY DEF LoaderInv, CacheInv, Standing
<1>3. \A k \in Keys : runs[k] # 0 =>
         runs[k] = failures[k] + (IF exports[k] = 0 THEN 0 ELSE 1)
  BY DEF LoaderInv, CacheInv, Counted
<1> QED BY <1>1, <1>2, <1>3 DEF OneEvaluation

-------------------------------------------------------------------------------
\* Steps that leave the cache alone.

\* No evaluation begins or ends: the frames are other ones at most in what they search for
\* and in the factories that run.
SameEvaluations == FramesOK' /\ Active' = Active

LEMMA Unframed ==
    ASSUME LoaderInv, UNCHANGED frames
    PROVE  SameEvaluations
  BY DEF SameEvaluations, LoaderInv, FramesOK, Of, Active

LEMMA Searched ==
    ASSUME LoaderInv, NEW search, frames' = SetTop(search)
    PROVE  SameEvaluations
<1>1. SameFrames
  BY SetTopFacts DEF SameFrames, LoaderInv, FramesOK, Of
<1> QED BY <1>1, SameFramesKeep DEF LoaderInv, SameEvaluations

LEMMA CachedSame ==
    ASSUME LoaderInv, SameEvaluations, UNCHANGED <<definitions, natives, cacheVars>>,
           held' \subseteq Holding
    PROVE  FramesOK' /\ CacheInv'
<1>1. FramesOK' /\ Active' = Active
  BY DEF SameEvaluations
<1>2. UNCHANGED <<definitions, natives, exports, loaded, made, runs, failures, replaced>>
  BY DEF cacheVars
<1>3. CacheTypeOK'
  BY <1>2 DEF LoaderInv, CacheInv, CacheTypeOK
<1>4. Standing' /\ Counted'
  BY <1>1, <1>2 DEF LoaderInv, CacheInv, Standing, Counted
<1>5. Owned' /\ Together'
  BY <1>2 DEF LoaderInv, CacheInv, Owned, Together, Registered, NamesOf
<1> QED BY <1>1, <1>3, <1>4, <1>5 DEF CacheInv

\* Loaded modules stay loaded with their exports, or those that replace them, and what
\* is given is what is there.
Stays ==
    /\ \A k \in loaded : k \in loaded' /\ (exports'[k] = exports[k] \/ exports[k] \in replaced')
    /\ replaced \subseteq replaced'
LEMMA HeldKeeps ==
    ASSUME HeldIsCurrent, Stays,
           \A h \in held' \ held : ~h.partial => exports'[h.of] = h.obj /\ h.of \in loaded'
    PROVE  HeldIsCurrent'
  BY DEF HeldIsCurrent, Stays

LEMMA GivenFacts ==
    ASSUME LoaderInv, NEW to \in Code, NEW kind, NEW k \in Keys, exports[k] # 0,
           held' = GiveCached(to, kind, k), UNCHANGED <<exports, loaded, replaced>>
    PROVE  held' \subseteq Holding /\ HeldIsCurrent'
<1>1. \A h \in held' : h \in held \/ h = [by |-> to, of |-> k, obj |-> exports[k],
                                       partial |-> k \notin loaded]
  BY DEF GiveCached, Give
<1>2. PICK g : g = [by |-> to, of |-> k, obj |-> exports[k], partial |-> k \notin loaded]
  OBVIOUS
<1>3. exports[k] \in 1..MaxObjects
  BY KeysAndNames DEF LoaderInv, CacheInv, CacheTypeOK
<1>4. g \in Holding /\ g.of = k /\ g.obj = exports[k] /\ (g.partial <=> k \notin loaded)
  BY <1>2, <1>3 DEF Holding
<1>5. Stays
  BY DEF Stays
<1>6. \A h \in held' : h \in held \/ h = g
  BY <1>1, <1>2
<1>7. held' \subseteq Holding
  BY <1>4, <1>6 DEF LoaderInv, CacheInv, CacheTypeOK
<1>8. HeldIsCurrent'
  BY <1>4, <1>5, <1>6, HeldKeeps DEF LoaderInv
<1> QED BY <1>7, <1>8

\* Only a search changes, and code is given at most what is in the cache.
LEMMA SearchKeeps ==
    ASSUME LoaderInv, SameEvaluations, UNCHANGED <<definitions, natives, cacheVars>>,
           \/ UNCHANGED held
           \/ \E kind : \E k \in Keys : exports[k] # 0 /\ held' = GiveCached(Innermost.of, kind, k)
    PROVE  FramesOK' /\ CacheInv' /\ HeldIsCurrent'
<1>1. UNCHANGED <<exports, loaded, replaced>>
  BY DEF cacheVars
<1>2. Innermost.of \in Code
  BY FramedFacts DEF LoaderInv, FramesOK, Of
<1>3. held' \subseteq Holding /\ HeldIsCurrent'
  <2>1. CASE UNCHANGED held
    BY <1>1, <2>1 DEF LoaderInv, CacheInv, CacheTypeOK, HeldIsCurrent
  <2>2. CASE \E kind : \E k \in Keys : exports[k] # 0 /\ held' = GiveCached(Innermost.of, kind, k)
    BY <1>1, <1>2, <2>2, GivenFacts
  <2> QED BY <2>1, <2>2
<1> QED BY <1>3, CachedSame

\* The registry gains names that the cache does not have.
LEMMA GrownKeeps ==
    ASSUME LoaderInv, NEW def \in Definitions \cup Natives,
           \/ Add(def) \/ RegisterNativeModule(def),
           UNCHANGED <<cacheVars, frames, held>>
    PROVE  FramesOK' /\ CacheInv' /\ HeldIsCurrent'
<1>1. UNCHANGED <<exports, loaded, made, runs, failures, frames, held, replaced>>
  BY DEF cacheVars
<1>2. FramesOK' /\ Active' = Active
  BY <1>1 DEF LoaderInv, FramesOK, Of, Active
<1>3. CacheTypeOK' /\ Standing' /\ Counted' /\ HeldIsCurrent'
  BY <1>1, <1>2 DEF LoaderInv, CacheInv, CacheTypeOK, Standing, Counted, HeldIsCurrent
<1>4. \A n \in DOMAIN definitions : n \in DOMAIN definitions' /\ definitions'[n] = definitions[n]
  <2>1. CASE Add(def)
    BY <2>1 DEF Add, Registered
  <2>2. CASE RegisterNativeModule(def)
    BY <2>2 DEF RegisterNativeModule
  <2> QED BY <2>1, <2>2
<1>5. \A n \in DOMAIN natives : n \in DOMAIN natives' /\ natives'[n] = natives[n]
  <2>1. CASE Add(def)
    BY <2>1 DEF Add
  <2>2. CASE RegisterNativeModule(def)
    BY <2>2 DEF RegisterNativeModule, Registered
  <2> QED BY <2>1, <2>2
<1>6. \A n \in Names : n \in Registered => n \in Registered'
  BY <1>4, <1>5 DEF Registered
<1>7. Owned'
  BY <1>1, <1>5, <1>6 DEF LoaderInv, CacheInv, Owned
<1>8. \A n \in NamesOf(def) : exports[n] = 0
  <2>1. NamesOf(def) \subseteq Names
    BY NamesAreNames DEF LoaderInv, RegistryInv
  <2>2. \A n \in NamesOf(def) : n \notin Registered
    BY DEF Add, RegisterNativeModule
  <2> QED BY <2>1, <2>2 DEF LoaderInv, CacheInv, Owned
<1>9. Together'
  <2>1. CASE Add(def)
    <3>1. /\ DOMAIN definitions' = DOMAIN definitions \cup NamesOf(def)
          /\ \A n \in NamesOf(def) : definitions'[n] = def
          /\ UNCHANGED natives
          /\ NamesOf(def) \cap DOMAIN definitions = {}
      BY <2>1 DEF Add, Registered
    <3>2. \A n \in DOMAIN definitions' : \A o \in NamesOf(definitions'[n]) :
            exports[o] = exports[n]
      <4>1. \A n \in DOMAIN definitions : \A o \in NamesOf(definitions'[n]) :
              exports[o] = exports[n]
        BY <1>4 DEF LoaderInv, CacheInv, Together
      <4>2. \A n \in NamesOf(def) : \A o \in NamesOf(definitions'[n]) :
              exports[o] = exports[n]
        BY <1>8, <3>1
      <4> QED BY <3>1, <4>1, <4>2
    <3> QED BY <1>1, <3>1, <3>2 DEF LoaderInv, CacheInv, Together, NamesOf
  <2>2. CASE RegisterNativeModule(def)
    <3>1. /\ DOMAIN natives' = DOMAIN natives \cup NamesOf(def)
          /\ UNCHANGED definitions
      BY <2>2 DEF RegisterNativeModule
    <3>2. \A n \in DOMAIN natives' :
            exports[n] # 0 /\ n # natives'[n].name => natives'[n].name \in loaded
      BY <1>5, <1>8, <3>1 DEF LoaderInv, CacheInv, Together
    <3> QED BY <1>1, <3>1, <3>2 DEF LoaderInv, CacheInv, Together, NamesOf
  <2> QED BY <2>1, <2>2
<1> QED BY <1>2, <1>3, <1>7, <1>9 DEF CacheInv

-------------------------------------------------------------------------------
\* The evaluation of a module that is not in the cache.

Canonical(k) == k \in Files \/ (k \in DOMAIN natives /\ natives[k].name = k)

LEMMA NotInCache ==
    ASSUME LoaderInv, NEW k \in Keys, exports[k] = 0
    PROVE  k \notin Active /\ k \notin loaded
  BY DEF LoaderInv, CacheInv, Standing

LEMMA PushedOnTop ==
    ASSUME LoaderInv, NEW search, NEW k \in Code,
           frames' = Append(SetTop(search), Evaluation(k))
    PROVE  Pushed(k)
<1>1. /\ Framed(SetTop(search)) /\ Len(SetTop(search)) = Len(frames)
      /\ \A i \in 1..Len(frames) : SetTop(search)[i].of = Of(i)
  BY SetTopFacts DEF LoaderInv, FramesOK
<1>2. PICK outer : outer = SetTop(search)
  OBVIOUS
<1>3. PICK new : new = Append(outer, Evaluation(k))
  OBVIOUS
<1>4. /\ Framed(new) /\ Len(new) = Len(outer) + 1
      /\ \A i \in 1..Len(outer) : new[i].of = outer[i].of
      /\ new[Len(outer) + 1].of = k
  BY <1>1, <1>2, <1>3, PushFacts
<1>5. frames' = new
  BY <1>2, <1>3
<1> QED BY <1>1, <1>2, <1>4, <1>5 DEF Pushed, Of

LEMMA EvaluateKeeps ==
    ASSUME LoaderInv, NEW k \in Keys, Canonical(k), exports[k] = 0, NEW search,
           Evaluate(k, SetTop(search)), UNCHANGED <<definitions, natives, held>>
    PROVE  FramesOK' /\ CacheInv' /\ HeldIsCurrent'
<1>1. /\ made' \in 1..MaxObjects /\ exports' = [exports EXCEPT ![k] = made']
      /\ runs' = [runs EXCEPT ![k] = @ + 1] /\ UNCHANGED <<loaded, failures, replaced>>
      /\ frames' = Append(SetTop(search), Evaluation(k))
  BY KeysAndNames DEF Evaluate, LoaderInv, CacheInv, CacheTypeOK
<1>2. k \notin Active /\ k \notin loaded
  BY NotInCache
<1>3. Pushed(k)
  BY <1>1, PushedOnTop, KeysAndNames
<1>4. FramesOK' /\ Active' = Active \cup {k}
  BY <1>2, <1>3, PushedKeeps DEF LoaderInv
<1>5. /\ exports'[k] # 0 /\ exports'[k] = made' /\ runs'[k] = runs[k] + 1 /\ runs[k] \in Nat
      /\ \A j \in Keys \ {k} : exports'[j] = exports[j] /\ runs'[j] = runs[j]
      /\ exports' \in [Keys -> 0..MaxObjects] /\ runs' \in [Keys -> Nat] /\ failures[k] \in Nat
  BY <1>1, KeysAndNames DEF LoaderInv, CacheInv, CacheTypeOK
<1>6. CacheTypeOK'
  BY <1>1, <1>5, KeysAndNames DEF LoaderInv, CacheInv, CacheTypeOK
<1>7. Standing'
  BY <1>1, <1>2, <1>4, <1>5 DEF LoaderInv, CacheInv, Standing
<1>8. Counted'
  BY <1>1, <1>4, <1>5 DEF LoaderInv, CacheInv, Counted
<1>9. k \in Names => k \in DOMAIN natives /\ natives[k].name = k /\ k \notin DOMAIN definitions
  BY KeysAndNames DEF Canonical, LoaderInv, RegistryInv, RegistryWhole
<1>10. Owned'
  BY <1>5, <1>9, KeysAndNames DEF LoaderInv, CacheInv, Owned, Registered
<1>11. Together'
  <2>1. k \notin DOMAIN definitions /\ (k \in DOMAIN natives => natives[k].name = k)
        /\ DOMAIN definitions \subseteq Keys /\ DOMAIN natives \subseteq Keys
    BY <1>9, NamesAreNames, KeysAndNames DEF LoaderInv, RegistryInv, Canonical
  <2>2. \A n \in DOMAIN definitions : \A o \in NamesOf(definitions[n]) : o \in DOMAIN definitions
    BY DEF LoaderInv, RegistryInv, RegistryWhole
  <2> QED BY <1>1, <1>5, <2>1, <2>2 DEF LoaderInv, CacheInv, Together, NamesOf
<1>12. HeldIsCurrent'
  <2>1. Stays
    BY <1>1, <1>2, <1>5 DEF Stays, LoaderInv, CacheInv, CacheTypeOK
  <2> QED BY <2>1, HeldKeeps DEF LoaderInv
<1> QED BY <1>4, <1>6, <1>7, <1>8, <1>10, <1>11, <1>12 DEF CacheInv

\* What is given of a module that is loaded when it is given.
LEMMA GivenLoaded ==
    ASSUME LoaderInv, NEW to \in Code, NEW kind, NEW k \in Keys,
           NEW obj \in 1..MaxObjects, held' = Give(to, kind, k, obj, FALSE),
           k \in loaded', exports'[k] = obj, Stays
    PROVE  held' \subseteq Holding /\ HeldIsCurrent'
<1>1. PICK g : g = [by |-> to, of |-> k, obj |-> obj, partial |-> FALSE]
  OBVIOUS
<1>2. g \in Holding /\ g.of = k /\ g.obj = obj
  BY <1>1 DEF Holding
<1>3. \A h \in held' : h \in held \/ h = g
  BY <1>1 DEF Give
<1>4. held' \subseteq Holding
  BY <1>2, <1>3 DEF LoaderInv, CacheInv, CacheTypeOK
<1>5. HeldIsCurrent'
  BY <1>2, <1>3, HeldKeeps DEF LoaderInv
<1> QED BY <1>4, <1>5

LEMMA LoadJSONKeeps ==
    ASSUME LoaderInv, NEW k \in Files, exports[k] = 0, LoadJSON(k),
           UNCHANGED <<definitions, natives>>
    PROVE  FramesOK' /\ CacheInv' /\ HeldIsCurrent'
<1>1. /\ made' \in 1..MaxObjects /\ exports' = [exports EXCEPT ![k] = made']
      /\ runs' = [runs EXCEPT ![k] = @ + 1] /\ UNCHANGED <<failures, replaced>>
      /\ loaded' = loaded \cup {k} /\ frames' = SetTop(NoSearch)
      /\ held' = Give(Innermost.of, Innermost.search.kind, k, made', FALSE)
  BY KeysAndNames DEF LoadJSON, LoaderInv, CacheInv, CacheTypeOK
<1>2. k \in Keys /\ k \notin Names /\ k \notin Active /\ k \notin loaded
  BY KeysAndNames, NotInCache
<1>3. FramesOK' /\ Active' = Active
  BY <1>1, Searched DEF SameEvaluations
<1>4. /\ exports'[k] = made' /\ runs'[k] = runs[k] + 1 /\ runs[k] \in Nat /\ failures[k] \in Nat
      /\ \A j \in Keys \ {k} : exports'[j] = exports[j] /\ runs'[j] = runs[j]
      /\ exports' \in [Keys -> 0..MaxObjects] /\ runs' \in [Keys -> Nat]
  BY <1>1, <1>2, KeysAndNames DEF LoaderInv, CacheInv, CacheTypeOK
<1>5. Stays
  BY <1>1, <1>2, <1>4 DEF Stays, LoaderInv, CacheInv, CacheTypeOK
<1>6. held' \subseteq Holding /\ HeldIsCurrent'
  <2>1. Innermost.of \in Code
    BY FramedFacts DEF LoaderInv, FramesOK, Of
  <2>2. PICK to, kind, obj : to = Innermost.of /\ kind = Innermost.search.kind /\ obj = made'
    OBVIOUS
  <2>3. held' = Give(to, kind, k, obj, FALSE) /\ obj \in 1..MaxObjects /\ exports'[k] = obj
    BY <1>1, <1>4, <2>2 DEF Give
  <2> QED BY <1>1, <1>2, <1>5, <2>1, <2>2, <2>3, GivenLoaded
<1>7. CacheTypeOK'
  BY <1>1, <1>2, <1>4, <1>6, KeysAndNames DEF LoaderInv, CacheInv, CacheTypeOK
<1>8. Standing' /\ Counted'
  <2>1. Standing'
    BY <1>1, <1>2, <1>3, <1>4 DEF LoaderInv, CacheInv, Standing
  <2>2. exports'[k] # 0
    BY <1>1, <1>4
  <2>3. Counted'
    BY <1>1, <1>2, <1>3, <1>4, <2>2 DEF LoaderInv, CacheInv, Counted
  <2> QED BY <2>1, <2>3
<1>9. \A n \in Names : n \in Keys \ {k}
  BY <1>2, KeysAndNames
<1>10. Owned'
  BY <1>4, <1>9 DEF LoaderInv, CacheInv, Owned, Registered
<1>11. Together'
  <2>1. /\ \A n \in DOMAIN definitions : n \in Names /\ NamesOf(definitions[n]) \subseteq Names
        /\ \A n \in DOMAIN natives : n \in Names
    BY NamesAreNames DEF LoaderInv, RegistryInv, RegistryTypeOK
  <2> QED BY <1>1, <1>4, <1>9, <2>1 DEF LoaderInv, CacheInv, Together, NamesOf
<1> QED BY <1>3, <1>6, <1>7, <1>8, <1>10, <1>11 DEF CacheInv

\* A static module is in the cache by all of its names, loaded, or by none.
LEMMA StaticFacts ==
    ASSUME LoaderInv, NEW n \in DOMAIN definitions
    PROVE  /\ NamesOf(definitions[n]) \subseteq Names /\ definitions[n].name \in NamesOf(definitions[n])
           /\ NamesOf(definitions[n]) \subseteq DOMAIN definitions
           /\ \A o \in NamesOf(definitions[n]) :
                /\ exports[o] = exports[definitions[n].name]
                /\ runs[o] = 0 /\ o \notin Active /\ (exports[o] # 0 => o \in loaded)
<1>1. /\ NamesOf(definitions[n]) \subseteq Names /\ definitions[n].name \in NamesOf(definitions[n])
      /\ \A o \in NamesOf(definitions[n]) : o \in DOMAIN definitions /\ definitions[o] = definitions[n]
      /\ DOMAIN definitions \cap DOMAIN natives = {}
  BY NamesAreNames DEF LoaderInv, RegistryInv, RegistryTypeOK, RegistryWhole
<1>2. \A o \in NamesOf(definitions[n]) : exports[o] = exports[definitions[n].name]
  BY <1>1 DEF LoaderInv, CacheInv, Together
<1>3. \A o \in NamesOf(definitions[n]) : runs[o] = 0
  BY <1>1 DEF LoaderInv, CacheInv, Owned
<1>4. \A o \in NamesOf(definitions[n]) : o \notin Active
  BY <1>1, <1>3, KeysAndNames DEF LoaderInv, CacheInv, Counted
<1>5. \A o \in NamesOf(definitions[n]) : exports[o] # 0 => o \in loaded
  BY <1>1, <1>4, KeysAndNames DEF LoaderInv, CacheInv, Standing
<1> QED BY <1>1, <1>2, <1>3, <1>4, <1>5

\* prepareDefinition's store: the names of a static module enter the cache, or get the
\* exports that replace those of a making inside this one.
LEMMA StoreKeeps ==
    ASSUME LoaderInv, NEW n \in DOMAIN definitions, Store(definitions[n]),
           UNCHANGED <<definitions, natives, runs, failures>>, SameEvaluations,
           held' \subseteq Holding
    PROVE  CacheInv' /\ Stays
<1> DEFINE N == NamesOf(definitions[n])
<1>1. Active' = Active
  BY DEF SameEvaluations
<1>2. /\ made' \in 1..MaxObjects
      /\ exports' = [k \in Keys |-> IF k \in N THEN made' ELSE exports[k]]
      /\ loaded' = loaded \cup N
      /\ replaced' = replaced \cup ({exports[definitions[n].name]} \ {0})
  <2>1. made < MaxObjects /\ made' = made + 1 /\ made \in 0..MaxObjects
    BY DEF Store, LoaderInv, CacheInv, CacheTypeOK
  <2> QED BY <2>1, KeysAndNames DEF Store
<1>3. /\ N \subseteq Names /\ N \subseteq Keys /\ N \subseteq DOMAIN definitions
      /\ definitions[n].name \in N
      /\ \A o \in N : runs[o] = 0 /\ o \notin Active
  BY StaticFacts, KeysAndNames
<1>4. \A m \in DOMAIN definitions : \A o \in NamesOf(definitions[m]) : m \in N <=> o \in N
  BY DEF LoaderInv, RegistryInv, RegistryWhole, RegistryTypeOK
<1>5. \A o \in N \cap loaded : exports[o] \in replaced'
  <2>1. \A o \in N \cap loaded : exports[o] # 0
    BY <1>3 DEF LoaderInv, CacheInv, Standing
  <2>2. \A o \in N : exports[o] = exports[definitions[n].name]
    BY StaticFacts
  <2> QED BY <1>2, <2>1, <2>2
<1>6. exports[definitions[n].name] \in 0..MaxObjects
  BY <1>3 DEF LoaderInv, CacheInv, CacheTypeOK
<1> HIDE DEF N
<1>7. /\ \A k \in N : exports'[k] = made' /\ exports'[k] # 0
      /\ \A k \in Keys \ N : exports'[k] = exports[k]
      /\ exports' \in [Keys -> 0..MaxObjects]
  BY <1>2, <1>3, KeysAndNames DEF LoaderInv, CacheInv, CacheTypeOK
<1>8. CacheTypeOK'
  <2>1. replaced' \subseteq 1..MaxObjects /\ made' \in 0..MaxObjects
    <3>1. PICK old : old = exports[definitions[n].name]
      OBVIOUS
    <3>2. old \in 0..MaxObjects /\ replaced' = replaced \cup ({old} \ {0})
      BY <1>2, <1>6, <3>1
    <3>3. old # 0 => old \in 1..MaxObjects
      BY <3>2, KeysAndNames
    <3>4. replaced' \subseteq 1..MaxObjects
      BY <3>2, <3>3 DEF LoaderInv, CacheInv, CacheTypeOK
    <3>5. made' \in 0..MaxObjects
      BY <1>2, KeysAndNames
    <3> QED BY <3>4, <3>5
  <2>2. loaded' \subseteq Keys
    BY <1>2, <1>3 DEF LoaderInv, CacheInv, CacheTypeOK
  <2> QED BY <1>7, <2>1, <2>2 DEF LoaderInv, CacheInv, CacheTypeOK
<1>9. Standing'
  BY <1>1, <1>2, <1>3, <1>7 DEF LoaderInv, CacheInv, Standing
<1>10. Counted'
  BY <1>1, <1>3, <1>7 DEF LoaderInv, CacheInv, Counted
<1>11. Owned'
  BY <1>3, <1>7, KeysAndNames DEF LoaderInv, CacheInv, Owned, Registered
<1>12. Together'
  <2>1. /\ \A m \in DOMAIN definitions : m \in Keys /\ NamesOf(definitions[m]) \subseteq Keys
        /\ \A m \in DOMAIN natives : m \in Keys /\ m \notin N
    BY <1>3, NamesAreNames, KeysAndNames DEF LoaderInv, RegistryInv, RegistryTypeOK, RegistryWhole
  <2>2. \A m \in DOMAIN definitions : \A o \in NamesOf(definitions[m]) :
          exports'[o] = exports'[m]
    BY <1>4, <1>7, <2>1 DEF LoaderInv, CacheInv, Together
  <2>3. \A m \in DOMAIN natives :
          exports'[m] # 0 /\ m # natives[m].name => natives[m].name \in loaded'
    BY <1>2, <1>7, <2>1 DEF LoaderInv, CacheInv, Together
  <2> QED BY <2>2, <2>3 DEF Together, NamesOf
<1>13. Stays
  BY <1>2, <1>3, <1>5, <1>7 DEF Stays, LoaderInv, CacheInv, CacheTypeOK
<1> QED BY <1>8, <1>9, <1>10, <1>11, <1>12, <1>13 DEF CacheInv

\* Factories are called: a frame that evaluates no module is on top.
LEMMA CallFactoriesKeeps ==
    ASSUME LoaderInv, NEW n \in DOMAIN definitions, NEW kind, NEW lists,
           CallFactories(definitions[n], kind, lists), UNCHANGED <<definitions, natives>>
    PROVE  FramesOK' /\ CacheInv' /\ HeldIsCurrent'
<1>1. PICK k, search : /\ k = Factory(definitions[n].name)
                       /\ search = [kind |-> kind, lists |-> lists]
  OBVIOUS
<1>2. frames' = Append(SetTop(search), Evaluation(k)) /\ UNCHANGED <<cacheVars, held>>
  BY <1>1 DEF CallFactories, SetTop
<1>3. k \in Factories /\ k \in Code /\ k \notin Keys
  <2>1. definitions[n].name \in Names
    BY StaticFacts
  <2>2. k \in Factories
    BY <1>1, <2>1 DEF Factories
  <2> QED BY <2>2, KeysAndNames
<1>4. Pushed(k)
  BY <1>2, <1>3, PushedOnTop
<1>5. SameEvaluations
  <2>1. k \notin Active /\ {k} \cap Keys = {}
    BY <1>3 DEF Active
  <2>2. FramesOK' /\ Active' = Active \cup ({k} \cap Keys)
    BY <1>3, <1>4, <2>1, PushedKeeps DEF LoaderInv
  <2> QED BY <2>1, <2>2 DEF SameEvaluations
<1> QED BY <1>2, <1>5, SearchKeeps

LEMMA RegisterModuleKeeps ==
    ASSUME LoaderInv, NEW n, RegisterModule(n)
    PROVE  FramesOK' /\ CacheInv' /\ HeldIsCurrent'
<1>1. n \in DOMAIN definitions /\ UNCHANGED <<definitions, natives>>
  BY DEF RegisterModule
<1>2. CASE CallFactories(definitions[n], "register", <<>>)
  BY <1>1, <1>2, CallFactoriesKeeps
<1>3. CASE UNCHANGED <<cacheVars, frames, held>>
  BY <1>1, <1>3, Unframed, SearchKeeps
<1> QED BY <1>2, <1>3 DEF RegisterModule, Prepare

LEMMA RequestStaticKeeps ==
    ASSUME LoaderInv, NEW kind, NEW spec, RequestStatic(kind, spec)
    PROVE  FramesOK' /\ CacheInv' /\ HeldIsCurrent'
<1>1. PICK n \in DOMAIN definitions : LoadStatic(kind, definitions[n], spec)
  BY DEF RequestStatic
<1>2. UNCHANGED <<definitions, natives>>
  BY DEF RequestStatic
<1>3. CASE CallFactories(definitions[n], kind, Lists(Innermost.of, spec))
  <2>1. PICK lists : lists = Lists(Innermost.of, spec)
    OBVIOUS
  <2> QED BY <1>2, <1>3, <2>1, CallFactoriesKeeps
<1>4. ASSUME NEW how \in Outcomes, Prepare(definitions[n], how),
             held' = IF how \in Failing THEN held
                     ELSE Give(Innermost.of, kind, definitions[n].name,
                               exports[definitions[n].name], FALSE),
             IF how \in Failing /\ kind = "resolve" THEN SearchFiles(kind, spec)
             ELSE UNCHANGED frames
      PROVE  FramesOK' /\ CacheInv' /\ HeldIsCurrent'
  <2>1. PICK k : k = definitions[n].name
    OBVIOUS
  <2>2. UNCHANGED cacheVars /\ exports[k] # 0
    BY <1>4, <2>1 DEF Prepare
  <2>3. k \in Keys /\ k \in loaded
    BY <2>1, <2>2, StaticFacts, KeysAndNames
  <2>4. \/ UNCHANGED held
        \/ held' = GiveCached(Innermost.of, kind, k)
    BY <1>4, <2>1, <2>3 DEF GiveCached
  <2>5. SameEvaluations
    BY <1>4, Unframed, Searched DEF SearchFiles
  <2> QED BY <1>2, <2>2, <2>3, <2>4, <2>5, SearchKeeps
<1> QED BY <1>1, <1>3, <1>4 DEF LoadStatic

-------------------------------------------------------------------------------
\* The body of a module.

LEMMA EvaluatingFacts ==
    ASSUME LoaderInv, Len(frames) > 1, Innermost.of \in Keys
    PROVE  /\ Innermost.of \in Active /\ Innermost.of \in Keys
           /\ exports[Innermost.of] \in 1..MaxObjects /\ Innermost.of \notin loaded
           /\ runs[Innermost.of] # 0 /\ Innermost.of \notin DOMAIN definitions
           /\ Innermost.of \in Names => /\ Innermost.of \in DOMAIN natives
                                        /\ natives[Innermost.of].name = Innermost.of
           /\ Requirer.of \in Code
<1>1. /\ Len(frames) \in Nat /\ Innermost = frames[Len(frames)]
      /\ \A i \in 1..Len(frames) : Of(i) \in Code
  BY FramedFacts DEF LoaderInv, FramesOK
<1>2. Innermost.of \in Active /\ Innermost.of \in Keys
  BY <1>1 DEF Active, Of
<1>3. exports[Innermost.of] # 0 /\ Innermost.of \notin loaded
  BY <1>2 DEF LoaderInv, CacheInv, Standing
<1>4. exports[Innermost.of] \in 1..MaxObjects
  BY <1>2, <1>3, KeysAndNames DEF LoaderInv, CacheInv, CacheTypeOK
<1>5. runs[Innermost.of] # 0
  BY <1>2 DEF LoaderInv, CacheInv, Counted
<1>6. Innermost.of \in Names =>
        Innermost.of \in DOMAIN natives /\ natives[Innermost.of].name = Innermost.of
  BY <1>5 DEF LoaderInv, CacheInv, Owned
<1>7. Innermost.of \notin DOMAIN definitions
  BY <1>6, NamesAreNames DEF LoaderInv, RegistryInv, RegistryWhole
<1>8. Requirer.of \in Code
  BY <1>1 DEF Requirer, Of
<1> QED BY <1>2, <1>3, <1>4, <1>5, <1>6, <1>7, <1>8

LEMMA SetExportsKeeps ==
    ASSUME LoaderInv, SetExports
    PROVE  FramesOK' /\ CacheInv' /\ HeldIsCurrent'
<1>1. PICK k : k = Innermost.of
  OBVIOUS
<1>2. /\ made' \in 1..MaxObjects /\ exports' = [exports EXCEPT ![k] = made']
      /\ UNCHANGED <<definitions, natives, loaded, frames, runs, failures, held, replaced>>
  <2>1. made < MaxObjects /\ made' = made + 1 /\ exports' = [exports EXCEPT ![k] = made + 1]
    BY <1>1 DEF SetExports
  <2>2. made \in 0..MaxObjects
    BY DEF LoaderInv, CacheInv, CacheTypeOK
  <2>3. UNCHANGED <<definitions, natives, loaded, frames, runs, failures, held, replaced>>
    BY DEF SetExports
  <2> QED BY <2>1, <2>2, <2>3, KeysAndNames
<1>3. /\ k \in Active /\ k \in Keys /\ exports[k] # 0 /\ k \notin loaded
      /\ k \notin DOMAIN definitions
      /\ k \in Names => k \in DOMAIN natives /\ natives[k].name = k
  BY <1>1, EvaluatingFacts DEF SetExports, Evaluating
<1>4. FramesOK' /\ Active' = Active
  BY <1>2, Unframed DEF SameEvaluations
<1>5. /\ exports'[k] # 0 /\ \A j \in Keys \ {k} : exports'[j] = exports[j]
      /\ exports' \in [Keys -> 0..MaxObjects]
  BY <1>2, <1>3, KeysAndNames DEF LoaderInv, CacheInv, CacheTypeOK
<1>6. \A j \in Keys : exports'[j] = 0 <=> exports[j] = 0
  BY <1>3, <1>5
<1>7. CacheTypeOK'
  BY <1>2, <1>5, KeysAndNames DEF LoaderInv, CacheInv, CacheTypeOK
<1>8. Standing' /\ Counted'
  BY <1>2, <1>4, <1>6 DEF LoaderInv, CacheInv, Standing, Counted
<1>9. Owned'
  BY <1>2, <1>6, KeysAndNames DEF LoaderInv, CacheInv, Owned, Registered
<1>10. Together'
  <2>1. /\ \A m \in DOMAIN definitions : m \in Keys /\ NamesOf(definitions[m]) \subseteq Keys
        /\ \A m \in DOMAIN definitions : NamesOf(definitions[m]) \subseteq DOMAIN definitions
        /\ \A m \in DOMAIN natives : m \in Keys
    BY NamesAreNames, KeysAndNames DEF LoaderInv, RegistryInv, RegistryTypeOK, RegistryWhole
  <2> QED BY <1>2, <1>3, <1>5, <1>6, <2>1 DEF LoaderInv, CacheInv, Together, NamesOf
<1>11. HeldIsCurrent'
  <2>1. Stays
    BY <1>2, <1>3, <1>5 DEF Stays, LoaderInv, CacheInv, CacheTypeOK
  <2> QED BY <1>2, <2>1, HeldKeeps DEF LoaderInv
<1> QED BY <1>4, <1>7, <1>8, <1>9, <1>10, <1>11 DEF CacheInv

LEMMA BelowPops ==
    ASSUME LoaderInv, Len(frames) > 1, NEW search, frames' = Below(search)
    PROVE  FramesOK' /\ Active' = Active \ {Innermost.of}
<1>1. Popped
  BY BelowFacts DEF Popped, LoaderInv, FramesOK, Of
<1> QED BY <1>1, PoppedKeeps DEF LoaderInv

LEMMA BodyReturnsKeeps ==
    ASSUME LoaderInv, BodyReturns
    PROVE  FramesOK' /\ CacheInv' /\ HeldIsCurrent'
<1>1. PICK k, N : k = Innermost.of /\ N = AllNames(k)
  OBVIOUS
<1>2. /\ loaded' = loaded \cup N
      /\ exports' = [j \in Keys |-> IF j \in N THEN exports[k] ELSE exports[j]]
      /\ held' = Give(Requirer.of, Requirer.search.kind, k, exports[k], FALSE)
      /\ frames' = Below(NoSearch) /\ Len(frames) > 1 /\ k \in Keys
      /\ UNCHANGED <<definitions, natives, made, runs, failures, replaced>>
  BY <1>1 DEF BodyReturns, Evaluating
<1>3. /\ k \in Active /\ k \in Keys /\ exports[k] \in 1..MaxObjects /\ k \notin loaded
      /\ k \notin DOMAIN definitions /\ runs[k] # 0
      /\ k \in Names => k \in DOMAIN natives /\ natives[k].name = k
      /\ Requirer.of \in Code
  BY <1>1, <1>2, EvaluatingFacts
<1>4. FramesOK' /\ Active' = Active \ {k}
  BY <1>1, <1>2, BelowPops
\* The other names of a native module are not in the cache before.
<1>5. /\ k \in N /\ N \subseteq Keys /\ N \cap DOMAIN definitions = {}
      /\ \A a \in N \ {k} : a \in DOMAIN natives /\ natives[a].name = k /\ a \in Names
  <2>1. CASE k \in DOMAIN natives
    <3>1. N = NamesOf(natives[k]) /\ k \in Names
      BY <1>1, <2>1, NamesAreNames DEF AllNames, LoaderInv, RegistryInv
    <3>2. natives[k].name = k /\ k \in N /\ N \subseteq Names
      BY <1>3, <2>1, <3>1, NamesAreNames DEF LoaderInv, RegistryInv, RegistryTypeOK
    <3>3. \A a \in N : a \in DOMAIN natives /\ natives[a] = natives[k]
      BY <2>1, <3>1 DEF LoaderInv, RegistryInv, RegistryWhole
    <3> QED BY <3>2, <3>3, KeysAndNames DEF LoaderInv, RegistryInv, RegistryWhole
  <2>2. CASE k \notin DOMAIN natives
    BY <1>1, <1>3, <2>2 DEF AllNames
  <2> QED BY <2>1, <2>2
<1>6. \A a \in N \ {k} : exports[a] = 0 /\ runs[a] = 0 /\ a \notin Active /\ a \notin loaded
  <2>1. \A a \in N \ {k} : exports[a] = 0
    BY <1>3, <1>5 DEF LoaderInv, CacheInv, Together
  <2>2. \A a \in N \ {k} : runs[a] = 0
    BY <1>5 DEF LoaderInv, CacheInv, Owned
  <2> QED BY <1>5, <2>1, <2>2, NotInCache
<1>7. /\ \A j \in N : exports'[j] = exports[k] /\ exports'[j] # 0
      /\ \A j \in Keys \ N : exports'[j] = exports[j]
      /\ exports' \in [Keys -> 0..MaxObjects]
  BY <1>2, <1>3, <1>5, KeysAndNames DEF LoaderInv, CacheInv, CacheTypeOK
<1>8. Stays
  BY <1>2, <1>3, <1>5, <1>6, <1>7 DEF Stays, LoaderInv, CacheInv, CacheTypeOK
<1>9. held' \subseteq Holding /\ HeldIsCurrent'
  <2>1. PICK to, kind, obj : to = Requirer.of /\ kind = Requirer.search.kind /\ obj = exports[k]
    OBVIOUS
  <2>2. held' = Give(to, kind, k, obj, FALSE) /\ obj \in 1..MaxObjects
    BY <1>2, <1>3, <2>1 DEF Give
  <2>3. to \in Code /\ k \in loaded' /\ exports'[k] = obj
    BY <1>2, <1>3, <1>5, <1>7, <2>1
  <2> QED BY <1>3, <1>8, <2>2, <2>3, GivenLoaded
<1>10. CacheTypeOK'
  BY <1>2, <1>5, <1>7, <1>9 DEF LoaderInv, CacheInv, CacheTypeOK
<1>11. Standing'
  <2>1. \A j \in N : j \in loaded' /\ exports'[j] # 0 /\ j \notin Active'
    BY <1>2, <1>4, <1>6, <1>7
  <2>2. \A j \in Keys \ N : /\ exports'[j] = exports[j] /\ (j \in loaded' <=> j \in loaded)
                           /\ (j \in Active' <=> j \in Active)
    BY <1>2, <1>4, <1>5, <1>7
  <2> QED BY <2>1, <2>2 DEF LoaderInv, CacheInv, Standing
<1>12. Counted'
  <2>1. exports'[k] # 0 /\ exports[k] # 0
    BY <1>3, <1>5, <1>7
  <2>2. \A j \in Keys \ N : exports'[j] = exports[j] /\ (j \in Active' <=> j \in Active)
    BY <1>4, <1>5, <1>7
  <2>3. \A j \in Keys \ N : IF runs[j] = 0 THEN failures[j] = 0 /\ j \notin Active'
                           ELSE runs[j] = failures[j] + (IF exports'[j] = 0 THEN 0 ELSE 1)
    BY <2>2 DEF LoaderInv, CacheInv, Counted
  <2>4. \A j \in N \ {k} : runs[j] = 0 /\ failures[j] = 0 /\ j \notin Active'
    BY <1>4, <1>5, <1>6 DEF LoaderInv, CacheInv, Counted
  <2>5. runs[k] = failures[k] + (IF exports'[k] = 0 THEN 0 ELSE 1)
    BY <1>3, <2>1 DEF LoaderInv, CacheInv, Counted
  <2> QED BY <1>2, <1>3, <2>3, <2>4, <2>5 DEF Counted
<1>13. Owned'
  BY <1>2, <1>3, <1>5, <1>7, KeysAndNames DEF LoaderInv, CacheInv, Owned, Registered
<1>14. Together'
  <2>1. /\ \A m \in DOMAIN definitions : /\ m \in Keys /\ NamesOf(definitions[m]) \subseteq Keys
                                         /\ NamesOf(definitions[m]) \subseteq DOMAIN definitions
        /\ \A m \in DOMAIN natives : m \in Keys
    BY NamesAreNames, KeysAndNames DEF LoaderInv, RegistryInv, RegistryTypeOK, RegistryWhole
  <2>2. \A m \in DOMAIN definitions : \A o \in NamesOf(definitions[m]) :
          exports'[o] = exports'[m]
    BY <1>5, <1>7, <2>1 DEF LoaderInv, CacheInv, Together
  <2>3. \A m \in DOMAIN natives :
          exports'[m] # 0 /\ m # natives[m].name => natives[m].name \in loaded'
    BY <1>2, <1>3, <1>5, <1>7, <2>1 DEF LoaderInv, CacheInv, Together
  <2> QED BY <1>2, <2>2, <2>3 DEF Together, NamesOf
<1> QED BY <1>4, <1>9, <1>10, <1>11, <1>12, <1>13, <1>14 DEF CacheInv

LEMMA BodyThrowsKeeps ==
    ASSUME LoaderInv, BodyThrows
    PROVE  FramesOK' /\ CacheInv' /\ HeldIsCurrent'
<1>1. PICK k : k = Innermost.of
  OBVIOUS
<1>2. /\ exports' = [exports EXCEPT ![k] = 0] /\ failures' = [failures EXCEPT ![k] = @ + 1]
      /\ frames' = Below(AfterFailure(Requirer.search)) /\ Len(frames) > 1
      /\ k \in Keys /\ UNCHANGED <<definitions, natives, loaded, made, runs, held, replaced>>
  BY <1>1 DEF BodyThrows, Evaluating, Forget
<1>3. /\ k \in Active /\ k \in Keys /\ exports[k] # 0 /\ k \notin loaded
      /\ k \notin DOMAIN definitions /\ runs[k] # 0
      /\ k \in Names => k \in DOMAIN natives /\ natives[k].name = k
  BY <1>1, <1>2, EvaluatingFacts
<1>4. FramesOK' /\ Active' = Active \ {k}
  <2>1. PICK search : search = AfterFailure(Requirer.search)
    OBVIOUS
  <2>2. frames' = Below(search)
    BY <1>2, <2>1 DEF Below
  <2> QED BY <1>1, <1>2, <2>2, BelowPops
<1>5. /\ exports'[k] = 0 /\ failures'[k] = failures[k] + 1 /\ failures[k] \in Nat /\ runs[k] \in Nat
      /\ \A j \in Keys \ {k} : exports'[j] = exports[j] /\ failures'[j] = failures[j]
      /\ exports' \in [Keys -> 0..MaxObjects] /\ failures' \in [Keys -> Nat]
  BY <1>2, <1>3, KeysAndNames DEF LoaderInv, CacheInv, CacheTypeOK
<1>6. CacheTypeOK'
  BY <1>2, <1>5 DEF LoaderInv, CacheInv, CacheTypeOK
<1>7. Standing'
  BY <1>2, <1>3, <1>4, <1>5 DEF LoaderInv, CacheInv, Standing
<1>8. Counted'
  <2>1. runs[k] = failures[k] + 1
    BY <1>3 DEF LoaderInv, CacheInv, Counted
  <2> QED BY <1>2, <1>3, <1>4, <1>5, <2>1 DEF LoaderInv, CacheInv, Counted
<1>9. Owned'
  <2>1. \A n \in Names : exports'[n] # 0 => exports[n] # 0
    BY <1>3, <1>5, KeysAndNames
  <2> QED BY <1>2, <2>1 DEF LoaderInv, CacheInv, Owned, Registered
<1>10. Together'
  <2>1. /\ \A m \in DOMAIN definitions : /\ m \in Keys /\ NamesOf(definitions[m]) \subseteq Keys
                                         /\ NamesOf(definitions[m]) \subseteq DOMAIN definitions
        /\ \A m \in DOMAIN natives : m \in Keys
    BY NamesAreNames, KeysAndNames DEF LoaderInv, RegistryInv, RegistryTypeOK, RegistryWhole
  <2> QED BY <1>2, <1>3, <1>5, <2>1 DEF LoaderInv, CacheInv, Together, NamesOf
<1>11. HeldIsCurrent'
  <2>1. Stays
    BY <1>2, <1>3, <1>5 DEF Stays, LoaderInv, CacheInv, CacheTypeOK
  <2> QED BY <1>2, <2>1, HeldKeeps DEF LoaderInv
<1> QED BY <1>4, <1>6, <1>7, <1>8, <1>9, <1>10, <1>11 DEF CacheInv

LEMMA FactoriesReturnKeeps ==
    ASSUME LoaderInv, NEW how \in Outcomes, FactoriesReturn(how)
    PROVE  FramesOK' /\ CacheInv' /\ HeldIsCurrent'
<1>1. PICK n \in DOMAIN definitions :
        /\ Innermost.of = Factory(n)
        /\ \/ how = "export failed" /\ UNCHANGED <<cacheVars, esmVars>>
           \/ Store(definitions[n]) /\ BuildEnds(definitions[n], how) /\ UNCHANGED <<runs, failures>>
        /\ held' = IF how \in Failing THEN held
                   ELSE Give(Requirer.of, Requirer.search.kind, definitions[n].name, made', FALSE)
  BY DEF FactoriesReturn
<1>2. UNCHANGED <<definitions, natives>> /\ Len(frames) > 1
  BY DEF FactoriesReturn
<1>3. SameEvaluations
  <2>1. PICK search :
          search = IF how \in Failing THEN AfterFailure(Requirer.search) ELSE NoSearch
    OBVIOUS
  <2>2. frames' = Below(search)
    BY <2>1 DEF FactoriesReturn, Below
  <2>3. Innermost.of \notin Active
    <3>1. n \in Names
      BY NamesAreNames DEF LoaderInv, RegistryInv
    <3>2. Innermost.of \in Factories
      BY <1>1, <3>1 DEF Factories
    <3> QED BY <3>2, KeysAndNames DEF Active
  <2> QED BY <1>2, <2>2, <2>3, BelowPops DEF SameEvaluations
<1>4. CASE how = "export failed" /\ UNCHANGED <<cacheVars, esmVars>>
  <2>1. UNCHANGED held
    BY <1>1, <1>4 DEF Failing
  <2> QED BY <1>2, <1>3, <1>4, <2>1, SearchKeeps
<1>5. CASE Store(definitions[n]) /\ UNCHANGED <<runs, failures>>
  <2>1. PICK to, kind, k, obj : /\ to = Requirer.of /\ kind = Requirer.search.kind
                                /\ k = definitions[n].name /\ obj = made'
    OBVIOUS
  <2>2. k \in Keys /\ k \in NamesOf(definitions[n]) /\ k \in Names
    BY <2>1, StaticFacts, KeysAndNames
  <2>3. k \in loaded' /\ exports'[k] = obj /\ obj \in 1..MaxObjects
    <3>1. made < MaxObjects /\ obj = made + 1 /\ made \in 0..MaxObjects
      BY <1>5, <2>1 DEF Store, LoaderInv, CacheInv, CacheTypeOK
    <3>2. k \in loaded' /\ exports'[k] = made + 1
      BY <1>5, <2>2 DEF Store
    <3> QED BY <3>1, <3>2, KeysAndNames
  <2>4. to \in Code
    <3>1. Len(frames) - 1 \in 1..Len(frames)
      BY <1>2, FramedFacts DEF LoaderInv, FramesOK
    <3> QED BY <2>1, <3>1, FramedFacts DEF LoaderInv, FramesOK, Requirer, Of
  <2>5. PICK g : g = [by |-> to, of |-> k, obj |-> obj, partial |-> FALSE]
    OBVIOUS
  <2>6. g \in Holding /\ g.of = k /\ g.obj = obj
    BY <2>2, <2>3, <2>4, <2>5 DEF Holding
  <2>7. \A h \in held' : h \in held \/ h = g
    BY <1>1, <2>1, <2>5 DEF Give
  <2>8. held' \subseteq Holding
    BY <2>6, <2>7 DEF LoaderInv, CacheInv, CacheTypeOK
  <2>9. CacheInv' /\ Stays
    BY <1>2, <1>3, <1>5, <2>8, StoreKeeps
  <2>10. HeldIsCurrent'
    BY <2>3, <2>6, <2>7, <2>9, HeldKeeps DEF LoaderInv
  <2> QED BY <1>3, <2>9, <2>10 DEF SameEvaluations
<1> QED BY <1>1, <1>4, <1>5

-------------------------------------------------------------------------------
\* Every step of the loader.

LEMMA SearchStepKeeps ==
    ASSUME LoaderInv, NotThere \/ NotFound \/ \E kind, spec : Request(kind, spec)
    PROVE  FramesOK' /\ CacheInv' /\ HeldIsCurrent'
<1>1. UNCHANGED <<definitions, natives, cacheVars, held>>
  BY DEF NotThere, NotFound, Request
<1>2. \E search : frames' = SetTop(search)
  BY DEF NotThere, NotFound, Request, SearchFiles
<1>3. SameEvaluations
  BY <1>2, Searched
<1> QED BY <1>1, <1>3, SearchKeeps

LEMMA RequestNativeKeeps ==
    ASSUME LoaderInv, NEW kind, NEW spec, RequestNative(kind, spec)
    PROVE  FramesOK' /\ CacheInv' /\ HeldIsCurrent'
<1>1. PICK n \in DOMAIN natives : LoadNative(kind, natives[n], spec)
  BY DEF RequestNative
<1>2. PICK k : k = natives[n].name
  OBVIOUS
<1>3. k \in Keys /\ Canonical(k)
  BY <1>2, NamesAreNames, KeysAndNames
     DEF Canonical, LoaderInv, RegistryInv, RegistryWhole, RegistryTypeOK
<1>4. UNCHANGED <<definitions, natives>>
  BY DEF RequestNative
<1>5. CASE exports[k] # 0
  <2>1. held' = GiveCached(Innermost.of, kind, k) /\ UNCHANGED <<cacheVars, frames>>
    BY <1>1, <1>2, <1>5 DEF LoadNative
  <2> QED BY <1>3, <1>4, <1>5, <2>1, Unframed, SearchKeeps
<1>6. CASE exports[k] = 0
  <2>1. PICK search : search = [kind |-> kind, lists |-> Lists(Innermost.of, spec)]
    OBVIOUS
  <2>2. Evaluate(k, SetTop(search)) /\ UNCHANGED held
    BY <1>1, <1>2, <1>6, <2>1 DEF LoadNative, Evaluate, SetTop
  <2> QED BY <1>3, <1>4, <1>6, <2>2, EvaluateKeeps
<1> QED BY <1>5, <1>6

LEMMA LoadFileKeeps ==
    ASSUME LoaderInv, LoadFile
    PROVE  FramesOK' /\ CacheInv' /\ HeldIsCurrent'
<1>1. PICK i \in Found(Head(Innermost.search.lists)) :
        LET f == Head(Innermost.search.lists)[i]
        IN \/ /\ exports[f] # 0 /\ held' = GiveCached(Innermost.of, Innermost.search.kind, f)
              /\ frames' = SetTop(NoSearch) /\ UNCHANGED cacheVars
           \/ exports[f] = 0 /\ content[f] = "source" /\ f.ext = "json" /\ LoadJSON(f)
           \/ /\ exports[f] = 0 /\ content[f] = "source" /\ f.ext # "json"
              /\ Evaluate(f, SetTop(Rest(Innermost.search))) /\ UNCHANGED held
           \/ /\ exports[f] = 0 /\ content[f] # "source"
              /\ frames' = SetTop(AfterFailure(Rest(Innermost.search)))
              /\ UNCHANGED <<cacheVars, held>>
  BY DEF LoadFile
<1>2. PICK f, top, search : f = Head(Innermost.search.lists)[i] /\ top = Innermost.search
                         /\ search = Rest(top)
  OBVIOUS
<1>3. f \in Files /\ f \in Keys /\ Canonical(f)
  <2>1. f \in Files
    BY <1>2 DEF Found
  <2> QED BY <2>1, KeysAndNames, Zenon DEF Canonical
<1>4. UNCHANGED <<definitions, natives>>
  BY DEF LoadFile
<1>5. CASE /\ exports[f] # 0 /\ held' = GiveCached(Innermost.of, top.kind, f)
           /\ frames' = SetTop(NoSearch) /\ UNCHANGED cacheVars
  BY <1>3, <1>4, <1>5, Searched, SearchKeeps
<1>6. CASE exports[f] = 0 /\ LoadJSON(f)
  BY <1>3, <1>4, <1>6, LoadJSONKeeps
<1>7. CASE exports[f] = 0 /\ Evaluate(f, SetTop(search)) /\ UNCHANGED held
  BY <1>3, <1>4, <1>7, EvaluateKeeps
<1>8. CASE frames' = SetTop(AfterFailure(search)) /\ UNCHANGED <<cacheVars, held>>
  <2>1. SameEvaluations
    BY <1>8, Searched
  <2> QED BY <1>4, <1>8, <2>1, SearchKeeps
<1> QED BY <1>1, <1>2, <1>5, <1>6, <1>7, <1>8 DEF Evaluate, GiveCached, Give, SetTop

LEMMA LoadMainKeeps ==
    ASSUME LoaderInv, NEW f \in Files, LoadMain(f)
    PROVE  FramesOK' /\ CacheInv' /\ HeldIsCurrent'
<1>1. f \in Keys /\ Canonical(f) /\ UNCHANGED <<definitions, natives>>
  <2>1. f \in Keys /\ Canonical(f)
    BY KeysAndNames, Zenon DEF Canonical
  <2> QED BY <2>1 DEF LoadMain
<1>2. CASE exports[f] # 0
  <2>1. held' = GiveCached(Host, "require", f) /\ UNCHANGED <<cacheVars, frames>>
    BY <1>2 DEF LoadMain
  <2>2. held' \subseteq Holding /\ HeldIsCurrent'
    BY <1>1, <1>2, <2>1, GivenFacts, KeysAndNames DEF cacheVars
  <2> QED BY <1>1, <2>1, <2>2, Unframed, CachedSame
<1>3. CASE exports[f] = 0
  <2>1. PICK search : search = [kind |-> "require", lists |-> <<>>]
    OBVIOUS
  <2>2. Evaluate(f, SetTop(search)) /\ UNCHANGED held
    BY <1>3, <2>1 DEF LoadMain, Evaluate, SetTop
  <2> QED BY <1>1, <1>3, <2>2, EvaluateKeeps
<1> QED BY <1>2, <1>3

LEMMA LoaderNextKeeps == LoaderInv /\ [LoaderNext]_loaderVars => LoaderInv'
<1> SUFFICES ASSUME LoaderInv, [LoaderNext]_loaderVars PROVE LoaderInv'
  OBVIOUS
<1>0. RegistryInv'
  BY RegistryNextKeeps DEF LoaderInv
<1> SUFFICES FramesOK' /\ CacheInv' /\ HeldIsCurrent'
  BY <1>0 DEF LoaderInv
<1>1. CASE UNCHANGED <<definitions, natives, cacheVars, frames, held>>
  BY <1>1, Unframed, SearchKeeps
<1>2. CASE UNCHANGED loaderVars
  BY <1>1, <1>2 DEF loaderVars, cacheVars
<1>3. ASSUME NEW def \in Definitions, Add(def) PROVE FramesOK' /\ CacheInv' /\ HeldIsCurrent'
  BY <1>3, GrownKeeps DEF Add
<1>4. ASSUME NEW def \in Natives, RegisterNativeModule(def)
      PROVE  FramesOK' /\ CacheInv' /\ HeldIsCurrent'
  BY <1>4, GrownKeeps DEF RegisterNativeModule
<1>5. ASSUME NEW f \in Files, AddSource(f) PROVE FramesOK' /\ CacheInv' /\ HeldIsCurrent'
  BY <1>1, <1>5 DEF AddSource
<1>6. ASSUME NEW f \in Files, LoadMain(f) PROVE FramesOK' /\ CacheInv' /\ HeldIsCurrent'
  BY <1>6, LoadMainKeeps
<1>7. ASSUME NEW n, RegisterModule(n) PROVE FramesOK' /\ CacheInv' /\ HeldIsCurrent'
  BY <1>7, RegisterModuleKeeps
<1>8. ASSUME NEW kind, NEW spec, Request(kind, spec) \/ RequestNative(kind, spec)
      PROVE  FramesOK' /\ CacheInv' /\ HeldIsCurrent'
  BY <1>8, SearchStepKeeps, RequestNativeKeeps
<1>9. ASSUME NEW kind, NEW spec, RequestStatic(kind, spec)
      PROVE  FramesOK' /\ CacheInv' /\ HeldIsCurrent'
  BY <1>9, RequestStaticKeeps
<1>10. CASE NotThere \/ NotFound \/ LoadFile
  BY <1>10, SearchStepKeeps, LoadFileKeeps
<1>11. CASE SetExports \/ BodyReturns \/ BodyThrows
  BY <1>11, SetExportsKeeps, BodyReturnsKeeps, BodyThrowsKeeps
<1>12. ASSUME NEW how \in Outcomes, FactoriesReturn(how)
       PROVE  FramesOK' /\ CacheInv' /\ HeldIsCurrent'
  BY <1>12, FactoriesReturnKeeps
<1> QED BY <1>2, <1>3, <1>4, <1>5, <1>6, <1>7, <1>8, <1>9, <1>10, <1>11, <1>12 DEF LoaderNext

\* The inductive invariant holds in every behaviour.
THEOREM LoaderInvariant == LoaderSpec => []LoaderInv
<1> QED BY InitLoader, LoaderNextKeeps, PTL DEF LoaderSpec

\* For all files and modules, whatever they require of each other, in cycles too, and
\* however they fail: a module is evaluated by one call at a time, it is in the cache and not
\* loaded exactly while it is, and it is evaluated again only after a failure (commonjs.go,
\* evaluateCommonJS and its removal from the cache).
THEOREM EvaluatedByOneCall == LoaderSpec => []OneEvaluation
<1> QED BY LoaderInvariant, InvEvaluates, PTL

\* For all files and modules: all code that required a loaded module, by the host, by a file
\* or by an alias, holds the same exports; others are held only by who got them in a cycle,
\* before it was loaded, or while its own factories ran (commonjs.go, prepareDefinition).
THEOREM LoadedExportsShared == LoaderSpec => []HeldIsCurrent
<1>1. LoaderInv => HeldIsCurrent
  BY DEF LoaderInv
<1> QED BY <1>1, LoaderInvariant, PTL
================================================================================
