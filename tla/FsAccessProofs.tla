----------------------------- MODULE FsAccessProofs -----------------------------
(***************************************************************************)
(* Theorems about FsAccess for any number of calls, any root, any files and   *)
(* links and any answers of the policies: what a call uses lies in the root,  *)
(* and no link is followed that the policy for links was not asked about,     *)
(* unless another call moved a link after this one began to look.             *)
(***************************************************************************)
EXTENDS FsAccess, SequenceTheorems, WellFoundedInduction, TLAPS

-------------------------------------------------------------------------------
\* Paths.

LEMMA PathFacts ==
    ASSUME NEW p \in Paths
    PROVE  /\ Len(p) \in Nat /\ DOMAIN p = 1..Len(p) /\ p # Nowhere
           /\ p # <<>> => /\ Len(p) > 0 /\ Front(p) \in Paths /\ Len(Front(p)) = Len(p) - 1
                          /\ \A i \in 1..Len(p) - 1 : Front(p)[i] = p[i]
                          /\ Last(p) \in STRING \ {"?"} /\ Append(Front(p), Last(p)) = p
<1>1. p \in Seq(STRING \ {"?"})
  BY DEF Paths
<1>2. Len(p) \in Nat /\ DOMAIN p = 1..Len(p)
  BY <1>1
<1>3. p # Nowhere
  <2>1. \A i \in 1..Len(p) : p[i] # "?"
    BY <1>1
  <2>2. Len(Nowhere) = 1 /\ Nowhere[1] = "?"
    BY DEF Nowhere
  <2> QED BY <2>1, <2>2
<1>4. ASSUME p # <<>>
      PROVE  /\ Len(p) > 0 /\ Front(p) \in Paths /\ Len(Front(p)) = Len(p) - 1
             /\ \A i \in 1..Len(p) - 1 : Front(p)[i] = p[i]
             /\ Last(p) \in STRING \ {"?"} /\ Append(Front(p), Last(p)) = p
  <2>1. Len(p) > 0 /\ Last(p) \in STRING \ {"?"}
    BY <1>1, <1>4 DEF Last
  <2>2. /\ Front(p) \in Seq(STRING \ {"?"}) /\ Len(Front(p)) = Len(p) - 1
        /\ \A i \in 1..Len(p) - 1 : Front(p)[i] = p[i]
    <3>1. PICK n : n = Len(p) - 1
      OBVIOUS
    <3>2. n \in Nat /\ \A i \in 1..n : p[i] \in STRING \ {"?"}
      BY <1>1, <1>2, <2>1, <3>1
    <3>3. /\ SubSeq(p, 1, n) \in Seq(STRING \ {"?"}) /\ Len(SubSeq(p, 1, n)) = n
          /\ \A i \in 1..n : SubSeq(p, 1, n)[i] = p[i]
      <4>1. /\ SubSeq(p, 1, n) \in Seq(STRING \ {"?"})
            /\ Len(SubSeq(p, 1, n)) = IF 1 <= n THEN n - 1 + 1 ELSE 0
            /\ \A i \in 1..n - 1 + 1 : SubSeq(p, 1, n)[i] = p[1 + i - 1]
        BY <3>2, SubSeqProperties
      <4>2. \A i \in 1..n : i \in 1..n - 1 + 1 /\ 1 + i - 1 = i
        BY <3>2
      <4> QED BY <3>2, <4>1, <4>2
    <3> QED BY <3>1, <3>3 DEF Front
  <2>3. Append(Front(p), Last(p)) = p
    BY <1>1, <2>1, <2>2 DEF Last
  <2> QED BY <2>1, <2>2, <2>3 DEF Paths
<1> QED BY <1>2, <1>3, <1>4

LEMMA AppendPath ==
    ASSUME NEW d \in Paths, NEW x \in STRING \ {"?"}
    PROVE  /\ Append(d, x) \in Paths \ {<<>>} /\ Front(Append(d, x)) = d /\ Last(Append(d, x)) = x
           /\ Len(Append(d, x)) = Len(d) + 1
           /\ \A i \in 1..Len(d) : Append(d, x)[i] = d[i]
<1>1. PICK a : a = Append(d, x)
  OBVIOUS
<1>2. d \in Seq(STRING \ {"?"}) /\ Len(d) \in Nat
  BY DEF Paths
<1>3. /\ a \in Seq(STRING \ {"?"}) /\ Len(a) = Len(d) + 1 /\ a[Len(d) + 1] = x
      /\ \A i \in 1..Len(d) : a[i] = d[i]
  BY <1>1, <1>2
<1>4. a # <<>>
  BY <1>2, <1>3
<1>5. a \in Paths
  BY <1>3 DEF Paths
<1>6. Front(a) \in Seq(STRING \ {"?"}) /\ Len(Front(a)) = Len(d) /\ \A i \in 1..Len(d) : Front(a)[i] = d[i]
  <2>1. Len(a) - 1 = Len(d)
    BY <1>2, <1>3
  <2>2. /\ Front(a) \in Paths /\ Len(Front(a)) = Len(a) - 1
        /\ \A i \in 1..Len(a) - 1 : Front(a)[i] = a[i]
    BY <1>4, <1>5, PathFacts
  <2> QED BY <1>3, <2>1, <2>2 DEF Paths
<1>7. Front(a) = d
  BY <1>2, <1>6
<1> QED BY <1>1, <1>3, <1>4, <1>5, <1>7, <1>2 DEF Last

LEMMA PrefixElts ==
    ASSUME NEW s \in Paths, NEW t \in Paths
    PROVE  IsPrefix(s, t) <=> Len(s) <= Len(t) /\ \A i \in 1..Len(s) : s[i] = t[i]
<1>1. s \in Seq(STRING \ {"?"}) /\ t \in Seq(STRING \ {"?"}) /\ Len(s) \in Nat /\ Len(t) \in Nat
  BY DEF Paths
<1>2. SubSeq(s, 1, Len(s)) = s
  BY <1>1
<1>3. ASSUME Len(s) <= Len(t)
      PROVE  /\ SubSeq(t, 1, Len(s)) \in Seq(STRING \ {"?"}) /\ Len(SubSeq(t, 1, Len(s))) = Len(s)
             /\ \A i \in 1..Len(s) : SubSeq(t, 1, Len(s))[i] = t[i]
  BY <1>1, <1>3
<1>4. ASSUME Len(s) <= Len(t), \A i \in 1..Len(s) : s[i] = t[i]
      PROVE  SubSeq(t, 1, Len(s)) = s
  <2>1. PICK u : u = SubSeq(t, 1, Len(s))
    OBVIOUS
  <2>2. u \in Seq(STRING \ {"?"}) /\ Len(u) = Len(s) /\ \A i \in 1..Len(s) : u[i] = s[i]
    BY <1>3, <1>4, <2>1
  <2>3. u = s
    BY <1>1, <2>2
  <2> QED BY <2>1, <2>3
<1> QED BY <1>1, <1>2, <1>3, <1>4 DEF IsPrefix

LEMMA PrefixAppend ==
    ASSUME NEW s \in Paths, NEW d \in Paths, NEW x \in STRING \ {"?"}, IsPrefix(s, d)
    PROVE  IsPrefix(s, Append(d, x))
<1>1. Append(d, x) \in Paths /\ Len(s) \in Nat /\ Len(d) \in Nat
  BY AppendPath, PathFacts
<1>2. Len(s) <= Len(d) /\ \A i \in 1..Len(s) : s[i] = d[i]
  BY PrefixElts
<1>3. Len(s) <= Len(Append(d, x)) /\ \A i \in 1..Len(s) : s[i] = Append(d, x)[i]
  BY <1>1, <1>2, AppendPath
<1> QED BY <1>1, <1>3, PrefixElts

LEMMA FullPaths ==
    ASSUME Root \in Paths, NEW p \in Paths
    PROVE  /\ FullPath(p) \in Paths
           /\ p # <<>> => FullPath(p) # <<>> /\ Last(FullPath(p)) = Last(p)
<1>1. PICK f : f = FullPath(p)
  OBVIOUS
<1>2. Root \in Seq(STRING \ {"?"}) /\ p \in Seq(STRING \ {"?"}) /\ Len(p) \in Nat /\ Len(Root) \in Nat
  BY DEF Paths
<1>3. /\ f \in Seq(STRING \ {"?"}) /\ Len(f) = Len(Root) + Len(p)
      /\ \A i \in 1..Len(Root) + Len(p) : f[i] = IF i <= Len(Root) THEN Root[i] ELSE p[i - Len(Root)]
  BY <1>1, <1>2, ConcatProperties DEF FullPath
<1>4. ASSUME p # <<>> PROVE f # <<>> /\ Last(f) = Last(p)
  <2>1. Len(p) > 0
    BY <1>2, <1>4
  <2>2. f # <<>>
    BY <1>2, <1>3, <2>1
  <2>3. Len(Root) + Len(p) \in 1..Len(Root) + Len(p) /\ ~(Len(Root) + Len(p) <= Len(Root))
        /\ (Len(Root) + Len(p)) - Len(Root) = Len(p)
    BY <1>2, <2>1
  <2>4. f[Len(Root) + Len(p)] = p[Len(p)]
    BY <1>3, <2>3
  <2> QED BY <1>3, <2>2, <2>4 DEF Last
<1> QED BY <1>1, <1>3, <1>4 DEF Paths

-------------------------------------------------------------------------------
\* Where paths lead.

\* The induction that first-order provers can use: a set of numbers has a least one.
LEMMA Least ==
    ASSUME NEW T, T \subseteq Nat, T # {}
    PROVE  \E n \in T : \A m \in T : n <= m
<1>1. IsWellFoundedOn(OpToRel(<, Nat), Nat)
  BY NatLessThanWellFounded, Zenon
<1>2. \A x, y \in Nat : <<y, x>> \in OpToRel(<, Nat) <=> y < x
  BY DEF OpToRel
<1>3. \E x \in T : \A y \in T : ~(<<y, x>> \in OpToRel(<, Nat))
  BY <1>1, WFMin, Zenon
<1>4. \E x \in T : \A y \in T : ~(y < x)
  BY <1>2, <1>3, Zenon
<1> QED
  BY <1>4

\* A path of which no link is to be replaced leads to itself, or nowhere.
LEMMA Stays ==
    ASSUME NEW p, Follow(p) = p, MaxLinks \in Nat
    PROVE  Followed(p) = p
<1> DEFINE Rec(f) == f = [n \in 0..MaxLinks |-> IF n = 0 THEN p ELSE Follow(f[n - 1])]
           after == CHOOSE f : Rec(f)
<1>1. Followed(p) = after[MaxLinks]
  BY DEF Followed
<1>2. Rec(after)
  <2>1. PICK g : g = [n \in 0..MaxLinks |-> p]
    OBVIOUS
  <2>2. \A n \in 0..MaxLinks : n # 0 => n - 1 \in 0..MaxLinks
    OBVIOUS
  <2>3. \A n \in 0..MaxLinks : p = IF n = 0 THEN p ELSE Follow(g[n - 1])
    BY <2>1, <2>2
  <2>4. Rec(g)
    BY <2>1, <2>3
  <2> QED BY <2>4
<1>3. PICK f : f = after
  OBVIOUS
<1>4. f = [n \in 0..MaxLinks |-> IF n = 0 THEN p ELSE Follow(f[n - 1])]
  BY <1>2, <1>3
<1> HIDE DEF after, Rec
<1>5. \A n \in 0..MaxLinks : f[n] = p
  <2> DEFINE T == {n \in 0..MaxLinks : f[n] # p}
  <2>1. SUFFICES ASSUME T # {} PROVE FALSE
    OBVIOUS
  <2>2. PICK n \in T : \A m \in T : n <= m
    <3>1. T \subseteq Nat
      OBVIOUS
    <3> QED BY <2>1, <3>1, Least
  <2>3. n # 0 /\ n \in 0..MaxLinks
    BY <1>4, <2>2
  <2>4. n - 1 \in 0..MaxLinks /\ n - 1 \notin T
    BY <2>2, <2>3
  <2>5. f[n - 1] = p
    BY <2>4
  <2>6. f[n] = p
    BY <1>4, <2>3, <2>5
  <2> QED BY <2>2, <2>6
<1> QED BY <1>1, <1>3, <1>5

LEMMA Leads ==
    ASSUME NEW p
    PROVE  EvalSymlinks(p) = Nowhere \/ Solid(EvalSymlinks(p))
BY DEF EvalSymlinks

-------------------------------------------------------------------------------
\* The inductive invariant.

\* The files: a tree whose inner nodes are directories.
FilesOK ==
    /\ tree = [p \in DOMAIN tree |-> tree[p]]
    /\ \A p \in DOMAIN tree :
         /\ p \in Paths /\ tree[p] \in Node
         /\ p # <<>> => Front(p) \in DOMAIN tree /\ tree[Front(p)].kind = "dir"

\* What a call has found out about its targets and about its names.  Files come and
\* go meanwhile; that there is no link on a path holds until one is put there.
LeafOK(t) ==
    /\ t \in Paths \ {<<>>} /\ ~OnLink(Front(t))
    /\ mode = "root" => IsWithin(Front(t))
SourceOK(op, t) ==
    IF op \in Existing THEN ~OnLink(t) /\ (mode = "root" => IsWithin(t))
    ELSE LeafOK(t) /\ (op = "writeFile" /\ mode = "root" => ~OnLink(t))
LeafSeen(k, given, t) == LeafOK(t) /\ (~k.symlink => t = FullPath(given))
NameSeen(k, given) == ~k.symlink => ~OnLink(FullPath(given))

Seen == {"destParent", "destLeaf", "authorize", "use", "remove"}
Looked(k) ==
    /\ k.stage = "leaf" => LeafSeen(k, k.path, k.target)
    /\ k.stage \in Seen => SourceOK(k.op, k.target) /\ NameSeen(k, k.path)
    /\ k.stage = "destLeaf" => LeafSeen(k, k.dest, k.destTarget)
    /\ k.stage \in {"authorize", "use", "remove"} /\ k.op = "rename" =>
         LeafOK(k.destTarget) /\ NameSeen(k, k.dest)

\* Whom it asked.
Asked(k) ==
    /\ "policy" \in k.asked
    /\ k.symlink => IF linkPolicy THEN "links" \in k.asked ELSE mode = "root"
\* What it used.
UsedOK(k) ==
    /\ "policy" \in k.asked
    /\ k.linked /\ ~k.disturbed => IF linkPolicy THEN "links" \in k.asked ELSE mode = "root"
    /\ mode = "root" /\ ~k.disturbed => \A p \in k.touched : IsWithin(p)

AtWork == {"parent"} \cup Looking
CallRecord ==
    [op : FsOps \cup {"stat"}, path : Paths \cup {Escaping}, dest : Paths \cup {Escaping}, stage : Stages,
     result : {"", "ok", "error", "denied"}, target : Paths, destTarget : Paths,
     symlink : BOOLEAN, asked : SUBSET {"policy", "links"}, touched : SUBSET Paths,
     linked : BOOLEAN, disturbed : BOOLEAN]
CallOK(k) ==
    /\ k.stage \in AtWork => /\ k.path \in FsPaths /\ k.dest \in FsPaths /\ mode # "broken"
                             /\ k.op # "rename" => k.dest = k.path
                             /\ k.stage # "remove" => k.touched = {} /\ ~k.linked
    /\ k.stage \in {"destParent", "destLeaf"} => k.op = "rename"
    /\ k.stage = "remove" => k.op = "unlink" /\ k.touched # {}
    /\ k.stage = "leaf" \/ (k.stage \in Seen /\ k.op \notin Existing) => k.target # <<>>
    /\ k.stage \in Looking /\ ~k.disturbed => Looked(k)
    /\ k.stage \in {"use", "remove"} => Asked(k)
    /\ k.touched # {} => UsedOK(k)

FsInv ==
    /\ FilesOK /\ mode \in Modes /\ linkPolicy \in BOOLEAN
    /\ call \in [Calls -> CallRecord] /\ \A c \in Calls : CallOK(call[c])

LEMMA Constants ==
    Root \in Paths /\ MaxLinks \in Nat /\ FsPaths \subseteq Paths \ {<<>>}
BY FsAssumption

-------------------------------------------------------------------------------
\* The files stay a tree.

LEMMA PrefixOfFront ==
    ASSUME NEW p \in Paths, NEW s \in Paths, s # <<>>, IsPrefix(p, Front(s))
    PROVE  IsPrefix(p, s)
<1>1. Front(s) \in Paths /\ Last(s) \in STRING \ {"?"} /\ Append(Front(s), Last(s)) = s
  BY PathFacts
<1> QED BY <1>1, PrefixAppend

\* What is below a path that is not there is not there either.
LEMMA Below ==
    ASSUME FilesOK, NEW q \in Paths, q \notin DOMAIN tree, NEW r \in DOMAIN tree
    PROVE  ~IsPrefix(q, r)
<1> DEFINE T == {n \in Nat : \E s \in DOMAIN tree : IsPrefix(q, s) /\ Len(s) = n}
<1>1. \A s \in DOMAIN tree : s \in Paths /\ Len(s) \in Nat
  BY PathFacts DEF FilesOK
<1>2. SUFFICES ASSUME T # {} PROVE FALSE
  BY <1>1
<1>3. PICK n \in T : \A m \in T : n <= m
  BY <1>2, Least
<1>4. PICK s \in DOMAIN tree : IsPrefix(q, s) /\ Len(s) = n
  BY <1>3
<1>5. Len(q) \in Nat /\ Len(q) <= Len(s) /\ \A i \in 1..Len(q) : q[i] = s[i]
  BY <1>1, <1>4, PrefixElts, PathFacts
<1>6. Len(q) # Len(s)
  <2>1. ASSUME Len(q) = Len(s) PROVE q = s
    <3>1. q \in Seq(STRING \ {"?"}) /\ s \in Seq(STRING \ {"?"})
      BY <1>1 DEF Paths
    <3> QED BY <1>5, <2>1, <3>1
  <2> QED BY <2>1
<1>7. /\ s # <<>> /\ Front(s) \in DOMAIN tree /\ Len(Front(s)) = Len(s) - 1
      /\ \A i \in 1..Len(s) - 1 : Front(s)[i] = s[i]
  <2>1. s # <<>>
    BY <1>1, <1>4, <1>5, <1>6
  <2> QED BY <1>1, <2>1, PathFacts DEF FilesOK
<1>8. IsPrefix(q, Front(s))
  <2>1. Len(q) <= Len(Front(s)) /\ \A i \in 1..Len(q) : q[i] = Front(s)[i]
    BY <1>1, <1>5, <1>6, <1>7
  <2> QED BY <1>1, <1>7, <2>1, PrefixElts
<1>9. Len(Front(s)) \in T /\ Len(Front(s)) < n
  BY <1>1, <1>4, <1>7, <1>8
<1> QED BY <1>3, <1>9

LEMMA MadeFiles ==
    ASSUME FilesOK, NEW p \in Paths, NEW kind \in {"file", "dir"},
           \/ p \in DOMAIN tree /\ tree[p].kind = kind /\ kind = "file"
           \/ p \notin DOMAIN tree /\ p # <<>> /\ Front(p) \in DOMAIN tree /\ tree[Front(p)].kind = "dir",
           tree' = With(p, kind)
    PROVE  FilesOK' /\ Links(tree') \subseteq Links(tree)
<1>1. PICK node : node = [kind |-> kind, to |-> <<>>]
  OBVIOUS
<1>2. node \in Node /\ node.kind = kind
  BY <1>1 DEF Node
<1>3. tree' = [q \in DOMAIN tree \cup {p} |-> IF q = p THEN node ELSE tree[q]]
  BY <1>1 DEF With
<1>4. CASE p \in DOMAIN tree
  <2>1. tree[p] = node
    <3>1. tree[p] \in Node /\ tree[p].kind = "file" /\ kind = "file"
      BY <1>4 DEF FilesOK
    <3>2. tree[p] \in [kind : {"file", "dir"}, to : {<<>>}]
      BY <3>1 DEF Node
    <3>3. tree[p] = [kind |-> tree[p].kind, to |-> tree[p].to]
      BY <3>2
    <3> QED BY <1>1, <3>1, <3>2, <3>3
  <2>2. tree = [q \in DOMAIN tree |-> tree[q]]
    BY DEF FilesOK
  <2>3. tree' = tree
    BY <1>3, <1>4, <2>1, <2>2
  <2> QED BY <2>3 DEF FilesOK, Links
<1>5. CASE p \notin DOMAIN tree
  <2>1. DOMAIN tree' = DOMAIN tree \cup {p} /\ tree'[p] = node /\ \A q \in DOMAIN tree : tree'[q] = tree[q]
    BY <1>3, <1>5
  <2>2. tree' = [q \in DOMAIN tree' |-> tree'[q]]
    BY <1>3
  <2>3. ASSUME NEW q \in DOMAIN tree'
        PROVE  /\ q \in Paths /\ tree'[q] \in Node
               /\ q # <<>> => Front(q) \in DOMAIN tree' /\ tree'[Front(q)].kind = "dir"
    <3>1. CASE q = p
      BY <1>2, <1>5, <2>1, <3>1
    <3>2. CASE q \in DOMAIN tree
      BY <2>1, <3>2 DEF FilesOK
    <3> QED BY <2>1, <3>1, <3>2
  <2>4. Links(tree') \subseteq Links(tree)
    BY <1>2, <2>1 DEF Links
  <2> QED BY <1>5, <2>2, <2>3, <2>4 DEF FilesOK
<1> QED BY <1>4, <1>5

LEMMA RemovedFiles ==
    ASSUME FilesOK, NEW p \in DOMAIN tree, \A r \in DOMAIN tree : ~IsStrictPrefix(p, r), tree' = Without(p)
    PROVE  FilesOK' /\ Links(tree') \subseteq Links(tree)
<1>1. /\ DOMAIN tree' = DOMAIN tree \ {p} /\ \A q \in DOMAIN tree' : tree'[q] = tree[q]
      /\ tree' = [q \in DOMAIN tree' |-> tree'[q]]
  BY DEF Without
<1>2. ASSUME NEW q \in DOMAIN tree, q # <<>> PROVE Front(q) # p
  <2>1. q \in Paths /\ Front(q) \in Paths /\ Len(q) \in Nat /\ Len(Front(q)) = Len(q) - 1
    BY <1>2, PathFacts DEF FilesOK
  <2>2. IsPrefix(Front(q), Front(q))
    BY <2>1, PrefixElts
  <2>3. IsPrefix(Front(q), q) /\ Front(q) # q
    BY <1>2, <2>1, <2>2, PrefixOfFront
  <2> QED BY <2>3 DEF IsStrictPrefix
<1>3. \A q \in DOMAIN tree' : /\ q \in Paths /\ tree'[q] \in Node
                              /\ q # <<>> => Front(q) \in DOMAIN tree' /\ tree'[Front(q)].kind = "dir"
  BY <1>1, <1>2 DEF FilesOK
<1>4. Links(tree') \subseteq Links(tree)
  BY <1>1 DEF Links
<1> QED BY <1>1, <1>3, <1>4 DEF FilesOK

\* What is below p, put below q.
Rebased(p, q, r) == q \o SubSeq(r, Len(p) + 1, Len(r))
IsRebased(p, q, r, s) ==
    /\ s \in Paths /\ Len(s) = Len(q) + (Len(r) - Len(p)) /\ IsPrefix(q, s)
    /\ \A i \in 1..Len(q) : s[i] = q[i]
    /\ \A i \in 1..(Len(r) - Len(p)) : s[Len(q) + i] = r[Len(p) + i]

LEMMA RebasedElts ==
    ASSUME NEW p \in Paths, NEW q \in Paths, NEW r \in Paths, IsPrefix(p, r)
    PROVE  IsRebased(p, q, r, Rebased(p, q, r))
<1>1. /\ p \in Seq(STRING \ {"?"}) /\ q \in Seq(STRING \ {"?"}) /\ r \in Seq(STRING \ {"?"})
      /\ Len(p) \in Nat /\ Len(q) \in Nat /\ Len(r) \in Nat /\ Len(p) <= Len(r)
  BY PrefixElts DEF Paths
<1>2. PICK m \in Nat : m = Len(r) - Len(p)
  BY <1>1
<1>3. PICK u : u = SubSeq(r, Len(p) + 1, Len(r))
  OBVIOUS
<1>4. u \in Seq(STRING \ {"?"}) /\ Len(u) = m /\ \A i \in 1..m : u[i] = r[Len(p) + i]
  <2>1. Len(p) + 1 \in Int /\ Len(r) \in Int /\ \A i \in Len(p) + 1..Len(r) : r[i] \in STRING \ {"?"}
    BY <1>1
  <2>2. /\ u \in Seq(STRING \ {"?"})
        /\ Len(u) = IF Len(p) + 1 <= Len(r) THEN Len(r) - (Len(p) + 1) + 1 ELSE 0
        /\ \A i \in 1..Len(r) - (Len(p) + 1) + 1 : u[i] = r[Len(p) + 1 + i - 1]
    BY <1>3, <2>1, SubSeqProperties
  <2>3. Len(r) - (Len(p) + 1) + 1 = m /\ (~(Len(p) + 1 <= Len(r)) => m = 0)
    BY <1>1, <1>2
  <2>4. \A i \in 1..m : Len(p) + 1 + i - 1 = Len(p) + i
    BY <1>1
  <2> QED BY <2>2, <2>3, <2>4
<1>5. PICK s : s = Rebased(p, q, r)
  OBVIOUS
<1>6. /\ s \in Seq(STRING \ {"?"}) /\ Len(s) = Len(q) + m
      /\ \A i \in 1..Len(q) + m : s[i] = IF i <= Len(q) THEN q[i] ELSE u[i - Len(q)]
  <2>1. s = q \o u
    BY <1>3, <1>5 DEF Rebased
  <2> QED BY <1>1, <1>4, <2>1, ConcatProperties
<1>7. \A i \in 1..Len(q) : s[i] = q[i]
  <2>1. ASSUME NEW i \in 1..Len(q) PROVE s[i] = q[i]
    <3>1. i \in 1..Len(q) + m /\ i <= Len(q)
      BY <1>1, <1>2
    <3> QED BY <1>6, <3>1
  <2> QED BY <2>1
<1>8. \A i \in 1..m : s[Len(q) + i] = r[Len(p) + i]
  <2>1. ASSUME NEW i \in 1..m PROVE s[Len(q) + i] = r[Len(p) + i]
    <3>1. Len(q) + i \in 1..Len(q) + m /\ ~(Len(q) + i <= Len(q)) /\ (Len(q) + i) - Len(q) = i
      BY <1>1, <1>2
    <3> QED BY <1>4, <1>6, <3>1
  <2> QED BY <2>1
<1>9. s \in Paths
  BY <1>6 DEF Paths
<1>10. IsPrefix(q, s)
  BY <1>1, <1>2, <1>6, <1>7, <1>9, PrefixElts
<1>11. IsRebased(p, q, r, s)
  BY <1>2, <1>6, <1>7, <1>8, <1>9, <1>10 DEF IsRebased
<1> QED BY <1>5, <1>11

\* Two paths with the same names are one.
LEMMA SamePath ==
    ASSUME NEW s \in Paths, NEW t \in Paths, Len(s) = Len(t), \A i \in 1..Len(s) : s[i] = t[i]
    PROVE  s = t
<1>1. s \in Seq(STRING \ {"?"}) /\ t \in Seq(STRING \ {"?"})
  BY DEF Paths
<1> QED BY <1>1

LEMMA RebasedBack ==
    ASSUME NEW p \in Paths, NEW q \in Paths, NEW r \in Paths, IsPrefix(p, r)
    PROVE  Rebased(q, p, Rebased(p, q, r)) = r
<1>1. PICK s : s = Rebased(p, q, r)
  OBVIOUS
<1>2. /\ s \in Paths /\ Len(s) = Len(q) + (Len(r) - Len(p)) /\ IsPrefix(q, s)
      /\ \A i \in 1..(Len(r) - Len(p)) : s[Len(q) + i] = r[Len(p) + i]
  <2>1. IsRebased(p, q, r, s)
    BY <1>1, RebasedElts
  <2> QED BY <2>1 DEF IsRebased
<1>3. PICK t : t = Rebased(q, p, s)
  OBVIOUS
<1>4. /\ t \in Paths /\ Len(t) = Len(p) + (Len(s) - Len(q))
      /\ \A i \in 1..Len(p) : t[i] = p[i]
      /\ \A i \in 1..(Len(s) - Len(q)) : t[Len(p) + i] = s[Len(q) + i]
  <2>1. IsRebased(q, p, s, t)
    BY <1>2, <1>3, RebasedElts
  <2> QED BY <2>1 DEF IsRebased
<1>5. /\ Len(p) \in Nat /\ Len(q) \in Nat /\ Len(r) \in Nat /\ Len(p) <= Len(r)
      /\ \A i \in 1..Len(p) : p[i] = r[i]
  BY PathFacts, PrefixElts
<1>6. Len(t) = Len(r) /\ Len(s) - Len(q) = Len(r) - Len(p)
  BY <1>2, <1>4, <1>5
<1>7. ASSUME NEW i \in 1..Len(t) PROVE t[i] = r[i]
  <2>1. CASE i <= Len(p)
    BY <1>4, <1>5, <1>7, <2>1
  <2>2. CASE ~(i <= Len(p))
    <3>1. PICK j \in 1..(Len(r) - Len(p)) : i = Len(p) + j
      <4>1. i - Len(p) \in 1..(Len(r) - Len(p)) /\ i = Len(p) + (i - Len(p))
        BY <1>5, <1>6, <1>7, <2>2
      <4> QED BY <4>1
    <3> QED BY <1>2, <1>4, <1>6, <3>1
  <2> QED BY <2>1, <2>2
<1> QED BY <1>1, <1>3, <1>4, <1>6, <1>7, SamePath

LEMMA RebasedFront ==
    ASSUME NEW p \in Paths, NEW q \in Paths, NEW r \in Paths, IsPrefix(p, r), r # p
    PROVE  /\ r # <<>> /\ IsPrefix(p, Front(r)) /\ Rebased(p, q, r) # <<>>
           /\ Front(Rebased(p, q, r)) = Rebased(p, q, Front(r))
<1>1. /\ Len(p) \in Nat /\ Len(q) \in Nat /\ Len(r) \in Nat /\ Len(p) <= Len(r)
      /\ \A i \in 1..Len(p) : p[i] = r[i]
  BY PathFacts, PrefixElts
<1>2. Len(p) < Len(r)
  BY <1>1, SamePath
<1>3. r # <<>> /\ Front(r) \in Paths /\ Len(Front(r)) = Len(r) - 1
      /\ \A i \in 1..Len(r) - 1 : Front(r)[i] = r[i]
  <2>1. r # <<>>
    BY <1>1, <1>2
  <2> QED BY <2>1, PathFacts
<1>4. IsPrefix(p, Front(r))
  BY <1>1, <1>2, <1>3, PrefixElts
<1>5. PICK s : s = Rebased(p, q, r)
  OBVIOUS
<1>6. /\ s \in Paths /\ Len(s) = Len(q) + (Len(r) - Len(p))
      /\ \A i \in 1..Len(q) : s[i] = q[i]
      /\ \A i \in 1..(Len(r) - Len(p)) : s[Len(q) + i] = r[Len(p) + i]
  <2>1. IsRebased(p, q, r, s)
    BY <1>5, RebasedElts
  <2> QED BY <2>1 DEF IsRebased
<1>7. PICK t : t = Rebased(p, q, Front(r))
  OBVIOUS
<1>8. /\ t \in Paths /\ Len(t) = Len(q) + (Len(r) - 1 - Len(p))
      /\ \A i \in 1..Len(q) : t[i] = q[i]
      /\ \A i \in 1..(Len(r) - 1 - Len(p)) : t[Len(q) + i] = Front(r)[Len(p) + i]
  <2>1. IsRebased(p, q, Front(r), t)
    BY <1>3, <1>4, <1>7, RebasedElts
  <2> QED BY <1>3, <2>1 DEF IsRebased
<1>9. s # <<>> /\ Front(s) \in Paths /\ Len(Front(s)) = Len(s) - 1
      /\ \A i \in 1..Len(s) - 1 : Front(s)[i] = s[i]
  <2>1. s # <<>>
    BY <1>1, <1>2, <1>6
  <2> QED BY <1>6, <2>1, PathFacts
<1>10. Len(Front(s)) = Len(t)
  BY <1>1, <1>6, <1>8, <1>9
<1>11. ASSUME NEW i \in 1..Len(Front(s)) PROVE Front(s)[i] = t[i]
  <2>1. i \in 1..Len(s) - 1 /\ Front(s)[i] = s[i]
    BY <1>9, <1>11
  <2>2. CASE i <= Len(q)
    BY <1>1, <1>6, <1>8, <2>1, <2>2
  <2>3. CASE ~(i <= Len(q))
    <3>1. PICK j \in 1..(Len(r) - 1 - Len(p)) : i = Len(q) + j
      <4>1. i - Len(q) \in 1..(Len(r) - 1 - Len(p)) /\ i = Len(q) + (i - Len(q))
        BY <1>1, <1>6, <2>1, <2>3
      <4> QED BY <4>1
    <3>2. t[Len(q) + j] = Front(r)[Len(p) + j]
      BY <1>8, <3>1
    <3>3. Front(r)[Len(p) + j] = r[Len(p) + j]
      <4>1. Len(p) + j \in 1..Len(r) - 1
        BY <1>1, <3>1
      <4> QED BY <1>3, <4>1
    <3>4. s[Len(q) + j] = r[Len(p) + j]
      <4>1. j \in 1..(Len(r) - Len(p))
        BY <1>1, <3>1
      <4> QED BY <1>6, <4>1
    <3> QED BY <2>1, <3>1, <3>2, <3>3, <3>4
  <2> QED BY <2>2, <2>3
<1>12. Front(s) = t
  BY <1>8, <1>9, <1>10, <1>11, SamePath
<1> QED BY <1>3, <1>4, <1>5, <1>7, <1>9, <1>12

LEMMA MovedFiles ==
    ASSUME FilesOK, NEW p \in Paths, NEW q \in Paths \ {<<>>}, CanMove(p, q),
           Front(q) \in DOMAIN tree, tree[Front(q)].kind = "dir", tree' = Moved(p, q)
    PROVE  FilesOK'
<1> DEFINE At(r) == IF IsPrefix(p, r) THEN Rebased(p, q, r) ELSE r
<1>1. /\ p \in DOMAIN tree /\ ~IsPrefix(p, q) /\ ~IsPrefix(q, p)
      /\ \A r \in DOMAIN tree : r \in Paths
      /\ \A s \in Paths : IsPrefix(s, s)
  BY PrefixElts, PathFacts DEF CanMove, FilesOK
<1>2. \A r \in DOMAIN tree : r # q => ~IsPrefix(q, r)
  <2>1. CASE q \in DOMAIN tree
    BY <2>1 DEF CanMove, IsStrictPrefix
  <2>2. CASE q \notin DOMAIN tree
    BY <2>2, Below
  <2> QED BY <2>1, <2>2
<1>3. /\ DOMAIN tree' = {At(r) : r \in DOMAIN tree \ {q}}
      /\ \A s \in DOMAIN tree' : tree'[s] = IF IsPrefix(q, s) THEN tree[Rebased(q, p, s)] ELSE tree[s]
      /\ tree' = [s \in DOMAIN tree' |-> tree'[s]]
  BY DEF Moved, Rebased
<1> HIDE DEF At
<1>4. ASSUME NEW r \in DOMAIN tree \ {q}
      PROVE  At(r) \in DOMAIN tree' /\ At(r) \in Paths /\ tree'[At(r)] = tree[r]
  <2>1. At(r) \in DOMAIN tree'
    BY <1>3
  <2>2. CASE IsPrefix(p, r)
    <3>1. PICK s : s = Rebased(p, q, r)
      OBVIOUS
    <3>2. At(r) = s
      BY <2>2, <3>1 DEF At
    <3>3. s \in Paths /\ IsPrefix(q, s)
      BY <1>1, <2>2, <3>1, RebasedElts DEF IsRebased
    <3>4. Rebased(q, p, s) = r
      BY <1>1, <2>2, <3>1, RebasedBack
    <3> QED BY <1>3, <2>1, <3>2, <3>3, <3>4
  <2>3. CASE ~IsPrefix(p, r)
    <3>1. At(r) = r
      BY <2>3 DEF At
    <3> QED BY <1>1, <1>2, <1>3, <2>1, <3>1
  <2> QED BY <2>2, <2>3
\* A directory of what is there before is there, moved or not.
<1>5. ASSUME NEW r \in DOMAIN tree \ {q}, At(r) # <<>>
      PROVE  \E d \in DOMAIN tree \ {q} : tree[d].kind = "dir" /\ Front(At(r)) = At(d)
  <2>1. CASE IsPrefix(p, r) /\ r # p
    <3>1. /\ r # <<>> /\ IsPrefix(p, Front(r))
          /\ Front(Rebased(p, q, r)) = Rebased(p, q, Front(r))
      BY <1>1, <2>1, RebasedFront
    <3>2. Front(r) \in DOMAIN tree /\ tree[Front(r)].kind = "dir" /\ Front(r) # q
      BY <1>1, <3>1 DEF FilesOK
    <3> QED BY <2>1, <3>1, <3>2 DEF At
  <2>2. CASE r = p
    <3>1. Rebased(p, q, p) = q
      <4>1. PICK s : s = Rebased(p, q, p)
        OBVIOUS
      <4>2. IsRebased(p, q, p, s)
        BY <1>1, <4>1, RebasedElts
      <4>3. Len(p) \in Nat /\ Len(q) \in Nat
        BY PathFacts
      <4>4. s \in Paths /\ Len(s) = Len(q) /\ \A i \in 1..Len(s) : s[i] = q[i]
        BY <4>2, <4>3 DEF IsRebased
      <4> QED BY <4>1, <4>4, SamePath
    <3>2. At(r) = q
      BY <1>1, <2>2, <3>1 DEF At
    <3>3. ~IsPrefix(p, Front(q)) /\ Front(q) # q
      <4>1. Len(Front(q)) = Len(q) - 1 /\ Len(q) \in Nat /\ Front(q) \in Paths
        BY PathFacts
      <4> QED BY <1>1, <4>1, PrefixOfFront
    <3> QED BY <3>2, <3>3 DEF At
  <2>3. CASE ~IsPrefix(p, r)
    <3>1. At(r) = r /\ r # <<>> /\ r \in Paths
      BY <1>1, <1>5, <2>3 DEF At
    <3>2. Front(r) \in DOMAIN tree /\ tree[Front(r)].kind = "dir" /\ Front(r) \in Paths
      BY <1>1, <3>1 DEF FilesOK
    <3>3. ~IsPrefix(p, Front(r)) /\ Front(r) # q
      BY <1>1, <1>2, <2>3, <3>1, <3>2, PrefixOfFront
    <3> QED BY <3>1, <3>2, <3>3 DEF At
  <2> QED BY <2>1, <2>2, <2>3
<1>6. ASSUME NEW s \in DOMAIN tree'
      PROVE  /\ s \in Paths /\ tree'[s] \in Node
             /\ s # <<>> => Front(s) \in DOMAIN tree' /\ tree'[Front(s)].kind = "dir"
  <2>1. PICK r \in DOMAIN tree \ {q} : s = At(r)
    BY <1>3
  <2>2. s \in Paths /\ tree'[s] \in Node
    BY <1>4, <2>1 DEF FilesOK
  <2>3. ASSUME s # <<>> PROVE Front(s) \in DOMAIN tree' /\ tree'[Front(s)].kind = "dir"
    <3>1. PICK d \in DOMAIN tree \ {q} : tree[d].kind = "dir" /\ Front(s) = At(d)
      BY <1>5, <2>1, <2>3
    <3> QED BY <1>4, <3>1
  <2> QED BY <2>2, <2>3
<1> QED BY <1>3, <1>6 DEF FilesOK

-------------------------------------------------------------------------------
\* Where a path without a link leads.

LEMMA SolidIsNoLink ==
    ASSUME NEW p, Solid(p)
    PROVE  ~OnLink(p)
BY DEF OnLink, Solid, Barred

LEMMA PrefixFacts ==
    ASSUME NEW p \in Paths, NEW i \in 1..Len(p)
    PROVE  /\ SubSeq(p, 1, i) \in Paths /\ IsPrefix(SubSeq(p, 1, i), p)
           /\ i = Len(p) => SubSeq(p, 1, i) = p
           /\ i # Len(p) => i \in 1..Len(Front(p)) /\ SubSeq(Front(p), 1, i) = SubSeq(p, 1, i)
<1>1. p \in Seq(STRING \ {"?"}) /\ Len(p) \in Nat
  BY DEF Paths
<1>2. PICK u : u = SubSeq(p, 1, i)
  OBVIOUS
<1>3. u \in Seq(STRING \ {"?"}) /\ Len(u) = i /\ \A j \in 1..i : u[j] = p[j]
  BY <1>1, <1>2
<1>4. u \in Paths
  BY <1>3 DEF Paths
<1>5. IsPrefix(u, p)
  BY <1>1, <1>3, <1>4, PrefixElts
<1>6. i = Len(p) => u = p
  BY <1>1, <1>3
<1>7. ASSUME i # Len(p) PROVE i \in 1..Len(Front(p)) /\ SubSeq(Front(p), 1, i) = u
  <2>1. p # <<>>
    BY <1>1
  <2>2. PICK d : d = Front(p)
    OBVIOUS
  <2>3. d \in Paths /\ Len(d) = Len(p) - 1 /\ \A j \in 1..Len(p) - 1 : d[j] = p[j]
    BY <2>1, <2>2, PathFacts
  <2>4. d \in Seq(STRING \ {"?"}) /\ i \in 1..Len(d)
    BY <1>1, <1>7, <2>3 DEF Paths
  <2>5. PICK v : v = SubSeq(d, 1, i)
    OBVIOUS
  <2>6. v \in Seq(STRING \ {"?"}) /\ Len(v) = i /\ \A j \in 1..i : v[j] = d[j]
    BY <2>4, <2>5
  <2>7. \A j \in 1..i : v[j] = u[j]
    BY <1>1, <1>3, <1>7, <2>3, <2>6
  <2>8. v = u
    BY <1>3, <2>6, <2>7
  <2> QED BY <2>2, <2>4, <2>5, <2>8
<1> QED BY <1>2, <1>4, <1>5, <1>6, <1>7

LEMMA Unlinked ==
    ASSUME FilesOK, NEW p \in Paths, ~OnLink(p), MaxLinks \in Nat
    PROVE  /\ Followed(p) = p /\ EvalSymlinks(p) \in {p, Nowhere}
           /\ p \in DOMAIN tree => Solid(p) /\ EvalSymlinks(p) = p
<1>1. Follow(p) = p
  <2>1. CASE Barred(p) = {}
    BY <2>1 DEF Follow
  <2>2. CASE Barred(p) # {}
    <3>1. Barred(p) \subseteq Nat
      BY DEF Barred
    <3>2. \E n \in Barred(p) : \A m \in Barred(p) : n <= m
      BY <2>2, <3>1, Least
    <3>3. Min(Barred(p)) \in Barred(p)
      BY <3>2 DEF Min
    <3>4. Min(Barred(p)) \in 1..Len(p)
      BY <3>3 DEF Barred
    <3>5. ~IsLink(SubSeq(p, 1, Min(Barred(p))))
      BY <3>4 DEF OnLink
    <3> QED BY <3>5 DEF Follow
  <2> QED BY <2>1, <2>2
<1>2. Followed(p) = p
  BY <1>1, Stays
<1>3. ASSUME p \in DOMAIN tree PROVE Solid(p)
  <2>1. ASSUME NEW i \in 1..Len(p) PROVE SubSeq(p, 1, i) \in DOMAIN tree
    BY <1>3, PrefixFacts, Below
  <2>2. Barred(p) = {}
    BY <2>1 DEF Barred, OnLink
  <2> QED BY <1>3, <2>2 DEF Solid
<1> QED BY <1>2, <1>3 DEF EvalSymlinks

LEMMA FollowIsPath ==
    ASSUME FilesOK, NEW q \in Paths
    PROVE  Follow(q) \in Paths
<1>1. CASE Barred(q) # {} /\ IsLink(SubSeq(q, 1, Min(Barred(q))))
  <2>1. PICK link : link = SubSeq(q, 1, Min(Barred(q)))
    OBVIOUS
  <2>2. tree[link].to \in Paths
    <3>1. tree[link] \in Node /\ tree[link].kind = "link"
      BY <1>1, <2>1 DEF FilesOK, IsLink
    <3> QED BY <3>1 DEF Node
  <2>3. PICK first : first = Min(Barred(q))
    OBVIOUS
  <2>4. first \in 1..Len(q)
    <3>1. Barred(q) \subseteq Nat
      BY DEF Barred
    <3>2. \E n \in Barred(q) : \A m \in Barred(q) : n <= m
      BY <1>1, <3>1, Least
    <3>3. Min(Barred(q)) \in Barred(q)
      BY <3>2 DEF Min
    <3> QED BY <2>3, <3>3 DEF Barred
  <2>5. q \in Seq(STRING \ {"?"}) /\ Len(q) \in Nat
    BY DEF Paths
  <2>6. PICK u : u = SubSeq(q, first + 1, Len(q))
    OBVIOUS
  <2>7. u \in Seq(STRING \ {"?"})
    <3>1. first + 1 \in Int /\ Len(q) \in Int /\ \A i \in first + 1..Len(q) : q[i] \in STRING \ {"?"}
      BY <2>4, <2>5
    <3> QED BY <2>6, <3>1, SubSeqProperties
  <2>8. Follow(q) = tree[link].to \o u
    BY <1>1, <2>1, <2>3, <2>6 DEF Follow
  <2>9. PICK to : to = tree[link].to
    OBVIOUS
  <2>10. to \in Seq(STRING \ {"?"})
    BY <2>2, <2>9 DEF Paths
  <2>11. to \o u \in Seq(STRING \ {"?"})
    BY <2>7, <2>10, ConcatProperties
  <2> QED BY <2>8, <2>9, <2>11 DEF Paths
<1>2. CASE ~(Barred(q) # {} /\ IsLink(SubSeq(q, 1, Min(Barred(q)))))
  <2>1. Follow(q) = q
    BY <1>2 DEF Follow
  <2> QED BY <2>1
<1> QED BY <1>1, <1>2

\* The recursive function of Followed exists.
LEMMA FollowedFrom ==
    ASSUME NEW p, NEW m \in Nat
    PROVE  \E f : f = [n \in 0..m |-> IF n = 0 THEN p ELSE Follow(f[n - 1])]
<1> DEFINE Rec(f, j) == f = [n \in 0..j |-> IF n = 0 THEN p ELSE Follow(f[n - 1])]
           T == {j \in Nat : ~\E f : Rec(f, j)}
<1>1. SUFFICES ASSUME T # {} PROVE FALSE
  OBVIOUS
<1>2. PICK j \in T : \A i \in T : j <= i
  <2>1. T \subseteq Nat
    OBVIOUS
  <2> QED BY <1>1, <2>1, Least
<1>3. CASE j = 0
  <2>1. PICK f : f = [n \in 0..0 |-> p]
    OBVIOUS
  <2>2. \A n \in 0..0 : p = IF n = 0 THEN p ELSE Follow(f[n - 1])
    OBVIOUS
  <2>3. Rec(f, 0)
    BY <2>1, <2>2
  <2> QED BY <1>2, <1>3, <2>3
<1>4. CASE j # 0
  <2>1. j \in Nat /\ j - 1 \in Nat /\ j - 1 \notin T
    BY <1>2, <1>4
  <2>2. PICK f : Rec(f, j - 1)
    BY <2>1
  <2>3. PICK g : g = [n \in 0..j |-> IF n = j THEN Follow(f[j - 1]) ELSE f[n]]
    OBVIOUS
  <2>4. \A n \in 0..j - 1 : f[n] = IF n = 0 THEN p ELSE Follow(f[n - 1])
    BY <2>2
  <2>5. ASSUME NEW n \in 0..j
        PROVE  g[n] = IF n = 0 THEN p ELSE Follow(g[n - 1])
    <3>1. CASE n = j
      <4>1. g[n] = Follow(f[j - 1]) /\ n - 1 \in 0..j /\ n - 1 # j
        BY <2>1, <2>3, <3>1
      <4>2. g[n - 1] = f[n - 1]
        BY <2>3, <4>1
      <4> QED BY <1>4, <3>1, <4>1, <4>2
    <3>2. CASE n # j /\ n # 0
      <4>1. n \in 0..j - 1 /\ n - 1 \in 0..j /\ n - 1 # j
        BY <2>1, <3>2
      <4>2. g[n] = f[n] /\ g[n - 1] = f[n - 1]
        BY <2>3, <3>2, <4>1
      <4> QED BY <2>4, <3>2, <4>1, <4>2
    <3>3. CASE n # j /\ n = 0
      <4>1. n \in 0..j - 1
        BY <2>1, <3>3
      <4> QED BY <2>3, <2>4, <3>3, <4>1
    <3> QED BY <3>1, <3>2, <3>3
  <2>6. DOMAIN g = 0..j /\ g = [n \in 0..j |-> g[n]]
    BY <2>3
  <2>7. Rec(g, j)
    BY <2>5, <2>6
  <2> QED BY <1>2, <2>1, <2>7
<1> QED BY <1>3, <1>4

\* The names of a followed path are names.
LEMMA FollowedIsPath ==
    ASSUME FilesOK, NEW p \in Paths, MaxLinks \in Nat
    PROVE  Followed(p) \in Paths
<1> DEFINE Rec(f) == f = [n \in 0..MaxLinks |-> IF n = 0 THEN p ELSE Follow(f[n - 1])]
           after == CHOOSE f : Rec(f)
<1>1. Followed(p) = after[MaxLinks]
  BY DEF Followed
<1>2. Rec(after)
  <2>1. \E f : Rec(f)
    BY FollowedFrom
  <2> QED BY <2>1
<1>3. PICK f : f = after
  OBVIOUS
<1>4. f = [n \in 0..MaxLinks |-> IF n = 0 THEN p ELSE Follow(f[n - 1])]
  BY <1>2, <1>3
<1> HIDE DEF after, Rec
<1>5. \A n \in 0..MaxLinks : f[n] \in Paths
  <2> DEFINE T == {n \in 0..MaxLinks : f[n] \notin Paths}
  <2>1. SUFFICES ASSUME T # {} PROVE FALSE
    OBVIOUS
  <2>2. PICK n \in T : \A m \in T : n <= m
    <3>1. T \subseteq Nat
      OBVIOUS
    <3> QED BY <2>1, <3>1, Least
  <2>3. n # 0 /\ n \in 0..MaxLinks
    BY <1>4, <2>2
  <2>4. n - 1 \in 0..MaxLinks /\ n - 1 \notin T
    BY <2>2, <2>3
  <2>5. f[n - 1] \in Paths
    BY <2>4
  <2>6. f[n] = Follow(f[n - 1])
    BY <1>4, <2>3
  <2> QED BY <2>2, <2>5, <2>6, FollowIsPath
<1> QED BY <1>1, <1>3, <1>5

\* What a name stands for is there, or could be put there.
LEMMA Places ==
    ASSUME FilesOK, NEW t \in Paths
    PROVE  /\ EvalSymlinks(t) = Nowhere \/ EvalSymlinks(t) \in DOMAIN tree
           /\ \/ Entry(t) = Nowhere
              \/ Entry(t) = <<>> /\ t = <<>>
              \/ /\ Entry(t) \in Paths \ {<<>>} /\ Front(Entry(t)) \in DOMAIN tree
                 /\ tree[Front(Entry(t))].kind = "dir"
<1>1. EvalSymlinks(t) = Nowhere \/ EvalSymlinks(t) \in DOMAIN tree
  BY Leads DEF Solid
<1>2. CASE t = <<>>
  BY <1>1, <1>2 DEF Entry
<1>3. CASE t # <<>>
  <2>1. PICK dir : dir = EvalSymlinks(Front(t))
    OBVIOUS
  <2>2. Entry(t) = IF dir \in DOMAIN tree /\ tree[dir].kind = "dir" THEN Append(dir, Last(t)) ELSE Nowhere
    BY <1>3, <2>1 DEF Entry
  <2>3. CASE dir \in DOMAIN tree /\ tree[dir].kind = "dir"
    <3>1. PICK x : x = Last(t)
      OBVIOUS
    <3>2. dir \in Paths /\ x \in STRING \ {"?"}
      BY <1>3, <2>3, <3>1, PathFacts DEF FilesOK
    <3>3. PICK a : a = Append(dir, x)
      OBVIOUS
    <3>4. a \in Paths \ {<<>>} /\ Front(a) = dir
      BY <3>2, <3>3, AppendPath
    <3>5. Entry(t) = a
      BY <2>2, <2>3, <3>1, <3>3
    <3>6. Entry(t) \in Paths \ {<<>>} /\ Front(Entry(t)) = dir
      BY <3>4, <3>5
    <3> QED BY <1>1, <2>3, <3>6
  <2> QED BY <1>1, <2>2, <2>3
<1> QED BY <1>2, <1>3

-------------------------------------------------------------------------------
\* What the looks find.

LEMMA LeafFound ==
    ASSUME FsInv, NEW p \in FsPaths, NEW parent, parent = EvalSymlinks(Front(FullPath(p))),
           parent # Nowhere, ~Denied(parent), NEW t, t = Append(parent, Last(FullPath(p)))
    PROVE  LeafOK(t) /\ (parent = Front(FullPath(p)) => t = FullPath(p))
<1>1. /\ FullPath(p) \in Paths /\ FullPath(p) # <<>>
      /\ Last(FullPath(p)) \in STRING \ {"?"}
      /\ Append(Front(FullPath(p)), Last(FullPath(p))) = FullPath(p)
  BY Constants, FullPaths, PathFacts
<1>2. Solid(parent) /\ parent \in Paths
  BY Leads DEF Solid, FsInv, FilesOK
<1>3. t \in Paths \ {<<>>} /\ Front(t) = parent
  BY <1>1, <1>2, AppendPath
<1>4. LeafOK(t)
  BY <1>2, <1>3, SolidIsNoLink DEF LeafOK, Denied
<1> QED BY <1>1, <1>4

\* An entry that is no link leads nowhere else.
LEMMA NoLinkFound ==
    ASSUME FsInv, NEW t, LeafOK(t), ~IsLink(Entry(t))
    PROVE  ~OnLink(t)
<1>1. /\ t \in Paths /\ t # <<>> /\ Front(t) \in Paths /\ ~OnLink(Front(t)) /\ FilesOK
      /\ Append(Front(t), Last(t)) = t
  BY PathFacts DEF LeafOK, FsInv
<1>2. SUFFICES ASSUME NEW i \in 1..Len(t), IsLink(SubSeq(t, 1, i)) PROVE FALSE
  BY DEF OnLink
<1>3. CASE i # Len(t)
  BY <1>1, <1>2, <1>3, PrefixFacts DEF OnLink
<1>4. CASE i = Len(t)
  <2>1. IsLink(t)
    BY <1>1, <1>2, <1>4, PrefixFacts
  <2>2. Front(t) \in DOMAIN tree /\ tree[Front(t)].kind = "dir"
    BY <1>1, <2>1 DEF IsLink, FilesOK
  <2>3. EvalSymlinks(Front(t)) = Front(t)
    BY <1>1, <2>2, Constants, Unlinked
  <2>4. Entry(t) = t
    BY <1>1, <2>2, <2>3 DEF Entry
  <2> QED BY <2>1, <2>4
<1> QED BY <1>3, <1>4

\* What a target leads to when it is used.
LEMMA LeafLeads ==
    ASSUME FsInv, NEW t, LeafOK(t)
    PROVE  /\ Entry(t) \in {t, Nowhere}
           /\ mode = "root" => IsWithin(t)
<1>1. /\ t \in Paths /\ t # <<>> /\ Front(t) \in Paths /\ ~OnLink(Front(t)) /\ FilesOK
      /\ Append(Front(t), Last(t)) = t /\ Last(t) \in STRING \ {"?"}
  BY PathFacts DEF LeafOK, FsInv
<1>2. Entry(t) \in {t, Nowhere}
  <2>1. EvalSymlinks(Front(t)) \in {Front(t), Nowhere}
    BY <1>1, Constants, Unlinked
  <2>2. Nowhere \notin DOMAIN tree
    BY <1>1, PathFacts DEF FilesOK
  <2> QED BY <1>1, <2>1, <2>2 DEF Entry
<1>3. ASSUME mode = "root" PROVE IsWithin(t)
  BY <1>1, <1>3, Constants, PrefixAppend DEF LeafOK, IsWithin
<1> QED BY <1>2, <1>3

-------------------------------------------------------------------------------
\* A step of one call.

LEMMA FewerLinks ==
    ASSUME Links(tree') \subseteq Links(tree), NEW p
    PROVE  OnLink(p)' => OnLink(p)
BY DEF OnLink, IsLink, Links

LEMMA CallStays ==
    ASSUME Links(tree') \subseteq Links(tree), mode' = mode, linkPolicy' = linkPolicy,
           NEW k, CallOK(k)
    PROVE  CallOK(k)'
<1>1. ASSUME NEW t, LeafOK(t) PROVE LeafOK(t)'
  BY <1>1, FewerLinks DEF LeafOK, IsWithin
<1>2. ASSUME NEW op, NEW t, SourceOK(op, t) PROVE SourceOK(op, t)'
  BY <1>1, <1>2, FewerLinks DEF SourceOK, IsWithin
<1>3. ASSUME NEW given, NEW t, LeafSeen(k, given, t) PROVE LeafSeen(k, given, t)'
  BY <1>1, <1>3 DEF LeafSeen, FullPath
<1>4. ASSUME NEW given, NameSeen(k, given) PROVE NameSeen(k, given)'
  BY <1>4, FewerLinks DEF NameSeen, FullPath
<1>5. Looked(k) => Looked(k)'
  BY <1>1, <1>2, <1>3, <1>4 DEF Looked
<1>6. Asked(k) => Asked(k)'
  BY DEF Asked
<1>7. UsedOK(k) => UsedOK(k)'
  BY DEF UsedOK, IsWithin
<1> QED BY <1>5, <1>6, <1>7 DEF CallOK

LEMMA CallMoves ==
    ASSUME FsInv, FilesOK', Links(tree') \subseteq Links(tree),
           NEW c \in Calls, NEW k, k \in CallRecord, CallOK(k)',
           mode' = mode, linkPolicy' = linkPolicy, call' = [call EXCEPT ![c] = k]
    PROVE  FsInv'
<1>1. call \in [Calls -> CallRecord]
  BY DEF FsInv
<1>2. call' \in [Calls -> CallRecord] /\ call'[c] = k /\ \A d \in Calls : d # c => call'[d] = call[d]
  BY <1>1
<1>3. \A d \in Calls : \E r : r = call'[d] /\ CallOK(r)'
  BY <1>2, CallStays DEF FsInv
<1>4. \A d \in Calls : CallOK(call[d])'
  BY <1>3
<1> QED BY <1>2, <1>4 DEF FsInv

\* A call that only looks leaves the files.
LEMMA CallLooks ==
    ASSUME FsInv, UNCHANGED <<tree, mode, linkPolicy>>,
           NEW c \in Calls, NEW k, k \in CallRecord, CallOK(k), call' = [call EXCEPT ![c] = k]
    PROVE  FsInv'
<1>1. FilesOK' /\ Links(tree') \subseteq Links(tree)
  BY DEF FsInv, FilesOK, Links
<1>2. CallOK(k)'
  BY <1>1, CallStays
<1> QED BY <1>1, <1>2, CallMoves

\* The calls that have begun to look are marked when a link moves.
LEMMA FilesMove ==
    ASSUME FsInv, FilesOK', NEW c \in Calls, NEW k, k \in CallRecord, CallOK(k)',
           mode' = mode, linkPolicy' = linkPolicy, NEW ks, ks = [call EXCEPT ![c] = k],
           call' = Disturb(ks, c), k.stage \notin Looking
    PROVE  FsInv'
<1>1. call \in [Calls -> CallRecord] /\ \A d \in Calls : CallOK(call[d])
  BY DEF FsInv
<1>2. ks \in [Calls -> CallRecord] /\ ks[c] = k /\ \A d \in Calls : d # c => ks[d] = call[d]
  BY <1>1
<1>3. /\ call'[c] = k
      /\ \A d \in Calls : d # c =>
           call'[d] = IF call[d].stage \in Looking /\ ~(Links(tree') \subseteq Links(tree))
                      THEN [call[d] EXCEPT !.disturbed = TRUE] ELSE call[d]
      /\ call' = [d \in Calls |-> call'[d]]
  BY <1>2 DEF Disturb
<1>4. ASSUME NEW d \in Calls, d # c PROVE \E r : r = call'[d] /\ r \in CallRecord /\ CallOK(r)'
  <2>1. PICK r : r = call[d]
    OBVIOUS
  <2>2. r \in CallRecord /\ CallOK(r)
    BY <1>1, <2>1
  <2>3. CASE r.stage \in Looking /\ ~(Links(tree') \subseteq Links(tree))
    <3>1. PICK q : q = [r EXCEPT !.disturbed = TRUE]
      OBVIOUS
    <3>2. /\ q \in CallRecord /\ q.stage = r.stage /\ q.touched = r.touched /\ q.op = r.op /\ q.linked = r.linked
          /\ q.path = r.path /\ q.dest = r.dest /\ q.target = r.target /\ q.asked = r.asked /\ q.symlink = r.symlink
          /\ q.disturbed = TRUE
      BY <2>2, <3>1 DEF CallRecord
    <3>3. CallOK(q)'
      BY <2>2, <3>2 DEF CallOK, Asked, UsedOK
    <3> QED BY <1>3, <1>4, <2>1, <2>3, <3>1, <3>2, <3>3
  <2>4. CASE r.stage \notin Looking
    <3>1. CallOK(r)'
      <4>1. r.stage \notin Seen /\ r.stage \notin {"leaf", "use", "remove", "destParent", "destLeaf"}
        BY <2>4 DEF Seen, Looking
      <4>2. UsedOK(r) => UsedOK(r)'
        BY DEF UsedOK, IsWithin
      <4> QED BY <2>2, <2>4, <4>1, <4>2 DEF CallOK
    <3> QED BY <1>3, <1>4, <2>1, <2>2, <2>4, <3>1
  <2>5. CASE Links(tree') \subseteq Links(tree)
    <3>1. CallOK(r)'
      BY <2>2, <2>5, CallStays
    <3> QED BY <1>3, <1>4, <2>1, <2>2, <2>5, <3>1
  <2> QED BY <2>3, <2>4, <2>5
<1>5. \A d \in Calls : \E r : r = call'[d] /\ r \in CallRecord /\ CallOK(r)'
  BY <1>3, <1>4
<1>6. call' \in [Calls -> CallRecord]
  BY <1>3, <1>5
<1>7. \A d \in Calls : CallOK(call[d])'
  BY <1>5
<1> QED BY <1>6, <1>7 DEF FsInv

LEMMA CallTypes ==
    ASSUME NEW k \in CallRecord
    PROVE  /\ k.op \in FsOps \cup {"stat"} /\ k.stage \in Stages /\ k.target \in Paths /\ k.destTarget \in Paths
           /\ k.symlink \in BOOLEAN /\ k.linked \in BOOLEAN /\ k.disturbed \in BOOLEAN
           /\ k.asked \subseteq {"policy", "links"} /\ k.touched \subseteq Paths
BY DEF CallRecord

\* The end of a call that may have used something.
Ended(c, r, result) ==
    [r EXCEPT !.result = result, !.stage = IF c \in SyncCalls THEN "done" ELSE "settle"]

LEMMA Ends ==
    ASSUME FsInv, NEW c \in Calls, NEW r \in CallRecord, r.touched # {} => UsedOK(r),
           mode' = mode, linkPolicy' = linkPolicy, NEW result \in {"ok", "error", "denied"}
    PROVE  /\ Ended(c, r, result) \in CallRecord /\ Ended(c, r, result).stage \notin Looking
           /\ CallOK(Ended(c, r, result))'
           /\ Finished([call EXCEPT ![c] = r], c, result) = [call EXCEPT ![c] = Ended(c, r, result)]
<1>1. PICK s : s = IF c \in SyncCalls THEN "done" ELSE "settle"
  OBVIOUS
<1>2. PICK k : k = [r EXCEPT !.result = result, !.stage = s]
  OBVIOUS
<1>3. s \in {"done", "settle"} /\ Ended(c, r, result) = k
  BY <1>1, <1>2 DEF Ended
<1>4. /\ k \in CallRecord /\ k.stage = s /\ k.touched = r.touched /\ k.linked = r.linked
      /\ k.asked = r.asked /\ k.disturbed = r.disturbed
  BY <1>2, <1>3 DEF CallRecord, Stages
<1>5. UsedOK(r) => UsedOK(k)'
  BY <1>4 DEF UsedOK, IsWithin
<1>6. CallOK(k)' /\ k.stage \notin Looking
  BY <1>3, <1>4, <1>5 DEF CallOK, AtWork, Seen, Looking
<1>7. Finished([call EXCEPT ![c] = r], c, result) = [call EXCEPT ![c] = k]
  <2>1. call \in [Calls -> CallRecord]
    BY DEF FsInv
  <2> DEFINE ks == [call EXCEPT ![c] = r]
  <2>2. ks[c] = r /\ ks = [d \in Calls |-> IF d = c THEN r ELSE call[d]]
    BY <2>1
  <2>3. Finished(ks, c, result) = [ks EXCEPT ![c] = k]
    BY <1>1, <1>2, <2>2 DEF Finished
  <2> QED BY <2>1, <2>2, <2>3
<1>8. CallOK(Ended(c, r, result))'
  BY <1>3, <1>6 DEF CallOK, Ended
<1> QED BY <1>3, <1>4, <1>6, <1>7, <1>8

LEMMA Finishes ==
    ASSUME FsInv, NEW c \in Calls, NEW why \in {"error", "denied"},
           call' = Finished(call, c, why), UNCHANGED <<tree, mode, linkPolicy>>
    PROVE  FsInv'
<1>1. PICK r : r = call[c]
  OBVIOUS
<1>2. r \in CallRecord /\ CallOK(r) /\ call = [call EXCEPT ![c] = r]
  BY <1>1 DEF FsInv
<1>3. r.touched # {} => UsedOK(r)
  BY <1>2 DEF CallOK
<1>4. PICK k : /\ k \in CallRecord /\ CallOK(k)'
               /\ Finished(call, c, why) = [call EXCEPT ![c] = k]
  <2>1. /\ Ended(c, r, why) \in CallRecord /\ CallOK(Ended(c, r, why))'
        /\ Finished([call EXCEPT ![c] = r], c, why) = [call EXCEPT ![c] = Ended(c, r, why)]
    BY <1>2, <1>3, Ends
  <2> QED BY <1>2, <2>1
<1>5. FilesOK' /\ Links(tree') \subseteq Links(tree)
  BY DEF FsInv, FilesOK, Links
<1> QED BY <1>4, <1>5, CallMoves

\* A use is as it should be.
LEMMA Uses ==
    ASSUME FsInv, NEW c \in Calls, call[c].stage \in {"use", "remove"}, mode' = mode, linkPolicy' = linkPolicy,
           NEW P \in SUBSET Paths,
           mode = "root" /\ ~call[c].disturbed => \A p \in P : IsWithin(p)
    PROVE  \E k : /\ k \in CallRecord /\ UsedOK(k) /\ Used(c, P) = [call EXCEPT ![c] = k]
                  /\ k.stage = call[c].stage /\ k.op = call[c].op /\ k.path = call[c].path /\ k.dest = call[c].dest
                  /\ k.target = call[c].target /\ k.symlink = call[c].symlink /\ k.asked = call[c].asked
                  /\ k.disturbed = call[c].disturbed /\ P \subseteq k.touched
<1>1. PICK r : r = call[c]
  OBVIOUS
<1>2. PICK l \in BOOLEAN : l <=> r.linked \/ ThroughLink(r)
  OBVIOUS
<1>3. PICK k : k = [r EXCEPT !.touched = r.touched \cup P, !.linked = l]
  OBVIOUS
<1>4. r \in CallRecord /\ CallOK(r) /\ r.stage \in {"use", "remove"}
  BY <1>1 DEF FsInv
<1>5. /\ k \in CallRecord /\ k.stage = r.stage /\ k.op = r.op /\ k.path = r.path /\ k.dest = r.dest
      /\ k.target = r.target /\ k.symlink = r.symlink /\ k.asked = r.asked /\ k.disturbed = r.disturbed
      /\ k.touched = r.touched \cup P /\ k.linked = l
  BY <1>3, <1>4 DEF CallRecord
<1>6. Asked(r) /\ (~r.disturbed => Looked(r)) /\ (r.touched # {} => UsedOK(r))
  BY <1>4 DEF CallOK, Looking
<1>7. ~r.disturbed /\ ~r.symlink => ~ThroughLink(r)
  <2>1. ASSUME ~r.disturbed, ~r.symlink PROVE ~OnLink(FullPath(r.path)) /\ ~OnLink(FullPath(r.dest))
    <3>1. Looked(r) /\ r.stage \in Seen /\ (r.op # "rename" => r.dest = r.path)
      BY <1>4, <1>6, <2>1 DEF CallOK, Seen, AtWork, Looking
    <3>2. NameSeen(r, r.path) /\ (r.op = "rename" => NameSeen(r, r.dest))
      BY <1>4, <3>1 DEF Looked
    <3> QED BY <2>1, <3>1, <3>2 DEF NameSeen
  <2> QED BY <2>1 DEF ThroughLink
<1>8. r.touched = {} => ~r.linked
  <2>1. r.stage = "use" => ~r.linked
    BY <1>4 DEF CallOK, AtWork, Looking
  <2>2. r.stage = "remove" /\ r.touched = {} => ~r.linked
    BY <1>4 DEF CallOK, AtWork, Looking
  <2> QED BY <1>4, <2>1, <2>2
<1>9. UsedOK(k)
  <2>1. k.linked /\ ~k.disturbed => IF linkPolicy THEN "links" \in k.asked ELSE mode = "root"
    <3>1. ASSUME l, ~r.disturbed PROVE IF linkPolicy THEN "links" \in r.asked ELSE mode = "root"
      <4>1. CASE ThroughLink(r)
        BY <1>6, <1>7, <3>1, <4>1 DEF Asked
      <4>2. CASE r.linked
        BY <1>6, <1>8, <3>1, <4>2 DEF UsedOK
      <4> QED BY <1>2, <3>1, <4>1, <4>2
    <3> QED BY <1>5, <3>1
  <2>2. mode = "root" /\ ~k.disturbed => \A p \in k.touched : IsWithin(p)
    <3>1. mode = "root" /\ ~r.disturbed => \A p \in r.touched : IsWithin(p)
      BY <1>6 DEF UsedOK
    <3> QED BY <1>1, <1>5, <3>1
  <2> QED BY <1>5, <1>6, <2>1, <2>2 DEF UsedOK, Asked
<1>10. Used(c, P) = [call EXCEPT ![c] = k]
  <2>1. l = (call[c].linked \/ ThroughLink(call[c]))
    BY <1>1, <1>2
  <2> QED BY <1>1, <1>3, <2>1 DEF Used
<1> QED BY <1>1, <1>5, <1>9, <1>10

\* The use that ends a call.
LEMMA LastUse ==
    ASSUME FsInv, NEW c \in Calls, call[c].stage \in {"use", "remove"}, mode' = mode, linkPolicy' = linkPolicy,
           NEW P \in SUBSET Paths, NEW result \in {"ok", "error"},
           mode = "root" /\ ~call[c].disturbed => \A p \in P : IsWithin(p)
    PROVE  \E k : /\ k \in CallRecord /\ k.stage \notin Looking /\ CallOK(k)'
                  /\ Finished(Used(c, P), c, result) = [call EXCEPT ![c] = k]
<1>1. PICK r : r \in CallRecord /\ UsedOK(r) /\ Used(c, P) = [call EXCEPT ![c] = r]
  BY Uses
<1>2. result \in {"ok", "error", "denied"} /\ (r.touched # {} => UsedOK(r))
  BY <1>1
<1>3. /\ Ended(c, r, result) \in CallRecord /\ Ended(c, r, result).stage \notin Looking
      /\ CallOK(Ended(c, r, result))'
      /\ Finished([call EXCEPT ![c] = r], c, result) = [call EXCEPT ![c] = Ended(c, r, result)]
  BY <1>1, <1>2, Ends
<1> QED BY <1>1, <1>3

-------------------------------------------------------------------------------
\* The steps.

LEMMA FsCallStep ==
    ASSUME FsInv, NEW c \in Calls, NEW op \in FsOps,
           NEW p \in FsPaths \cup {Escaping}, NEW d \in FsPaths \cup {Escaping}, FsCall(c, op, p, d)
    PROVE  FsInv'
<1>1. PICK b : b = [NoCall EXCEPT !.op = op, !.path = p, !.dest = d]
  OBVIOUS
<1>2. <<>> \in Paths /\ p \in Paths \cup {Escaping} /\ d \in Paths \cup {Escaping}
  BY Constants DEF Paths
<1>3. b \in CallRecord /\ b.touched = {} /\ ~b.linked /\ b.op = op /\ b.path = p /\ b.dest = d
  <2>1. b = [op |-> op, path |-> p, dest |-> d, stage |-> "none", result |-> "",
             target |-> <<>>, destTarget |-> <<>>, symlink |-> FALSE,
             asked |-> {}, touched |-> {}, linked |-> FALSE, disturbed |-> FALSE]
    BY <1>1 DEF NoCall
  <2> QED BY <1>2, <2>1 DEF CallRecord, Stages
<1>4. CASE mode = "broken" \/ Escaping \in {p, d}
  <2>1. PICK k : k = [b EXCEPT !.stage = "done", !.result = "denied"]
    OBVIOUS
  <2>2. k \in CallRecord /\ k.stage = "done" /\ k.touched = {}
    BY <1>3, <2>1 DEF CallRecord, Stages
  <2>3. CallOK(k)
    BY <2>2 DEF CallOK, AtWork, Seen, Looking
  <2>4. call' = [call EXCEPT ![c] = k]
    BY <1>1, <1>4, <2>1 DEF FsCall
  <2> QED BY <2>2, <2>3, <2>4, CallLooks DEF FsCall
<1>5. CASE ~(mode = "broken" \/ Escaping \in {p, d})
  <2>1. PICK k : k = [b EXCEPT !.stage = "parent"]
    OBVIOUS
  <2>2. /\ k \in CallRecord /\ k.stage = "parent" /\ k.touched = {} /\ ~k.linked
        /\ k.op = op /\ k.path = p /\ k.dest = d
    BY <1>3, <2>1 DEF CallRecord, Stages
  <2>3. CallOK(k)
    BY <1>5, <2>2 DEF CallOK, AtWork, Seen, Looking, FsCall
  <2>4. call' = [call EXCEPT ![c] = k]
    BY <1>1, <1>5, <2>1 DEF FsCall
  <2> QED BY <2>2, <2>3, <2>4, CallLooks DEF FsCall
<1> QED BY <1>4, <1>5

LEMMA FailsStep ==
    ASSUME FsInv, NEW c \in Calls, Fails(c)
    PROVE  FsInv'
BY Finishes DEF Fails

\* What a look has found out is noted.
LEMMA Resolves ==
    ASSUME FsInv, NEW c \in Calls, NEW t \in Paths, NEW link \in BOOLEAN, NEW s \in Stages,
           Resolved(c, t, link, s)
    PROVE  \E n : /\ n \in CallRecord /\ call' = [call EXCEPT ![c] = n]
                  /\ n.target = t /\ n.stage = s /\ (n.symlink <=> call[c].symlink \/ link)
                  /\ n.op = call[c].op /\ n.path = call[c].path /\ n.dest = call[c].dest
                  /\ n.destTarget = call[c].destTarget /\ n.touched = call[c].touched
                  /\ n.linked = call[c].linked /\ n.disturbed = call[c].disturbed /\ n.asked = call[c].asked
<1>1. PICK r : r = call[c]
  OBVIOUS
<1>2. r \in CallRecord /\ r.symlink \in BOOLEAN
  BY <1>1, CallTypes DEF FsInv
<1>3. PICK y \in BOOLEAN : y = (r.symlink \/ link)
  BY <1>2
<1>4. PICK n : n = [r EXCEPT !.target = t, !.symlink = y, !.stage = s]
  OBVIOUS
<1>5. /\ n \in CallRecord /\ n.target = t /\ n.stage = s /\ n.symlink = y
      /\ n.op = r.op /\ n.path = r.path /\ n.dest = r.dest
      /\ n.destTarget = r.destTarget /\ n.touched = r.touched
      /\ n.linked = r.linked /\ n.disturbed = r.disturbed /\ n.asked = r.asked
  BY <1>2, <1>3, <1>4 DEF CallRecord
<1>6. call' = [call EXCEPT ![c] = n]
  <2>1. call' = [call EXCEPT ![c] = [r EXCEPT !.target = t, !.symlink = r.symlink \/ link, !.stage = s]]
    BY <1>1 DEF Resolved
  <2> QED BY <1>3, <1>4, <2>1, Zenon
<1> QED BY <1>1, <1>3, <1>5, <1>6

LEMMA ResolvesDest ==
    ASSUME FsInv, NEW c \in Calls, NEW t \in Paths, NEW link \in BOOLEAN, NEW s \in Stages,
           ResolvedDest(c, t, link, s)
    PROVE  \E n : /\ n \in CallRecord /\ call' = [call EXCEPT ![c] = n]
                  /\ n.destTarget = t /\ n.stage = s /\ (n.symlink <=> call[c].symlink \/ link)
                  /\ n.op = call[c].op /\ n.path = call[c].path /\ n.dest = call[c].dest
                  /\ n.target = call[c].target /\ n.touched = call[c].touched
                  /\ n.linked = call[c].linked /\ n.disturbed = call[c].disturbed /\ n.asked = call[c].asked
<1>1. PICK r : r = call[c]
  OBVIOUS
<1>2. r \in CallRecord /\ r.symlink \in BOOLEAN
  BY <1>1, CallTypes DEF FsInv
<1>3. PICK y \in BOOLEAN : y = (r.symlink \/ link)
  BY <1>2
<1>4. PICK n : n = [r EXCEPT !.destTarget = t, !.symlink = y, !.stage = s]
  OBVIOUS
<1>5. /\ n \in CallRecord /\ n.destTarget = t /\ n.stage = s /\ n.symlink = y
      /\ n.op = r.op /\ n.path = r.path /\ n.dest = r.dest
      /\ n.target = r.target /\ n.touched = r.touched
      /\ n.linked = r.linked /\ n.disturbed = r.disturbed /\ n.asked = r.asked
  BY <1>2, <1>3, <1>4 DEF CallRecord
<1>6. call' = [call EXCEPT ![c] = n]
  <2>1. call' = [call EXCEPT ![c] = [r EXCEPT !.destTarget = t, !.symlink = r.symlink \/ link, !.stage = s]]
    BY <1>1 DEF ResolvedDest
  <2> QED BY <1>3, <1>4, <2>1, Zenon
<1> QED BY <1>1, <1>3, <1>5, <1>6

LEMMA ResolveLeafStep ==
    ASSUME FsInv, NEW c \in Calls, ResolveLeaf(c)
    PROVE  FsInv'
<1>1. PICK k : k = call[c]
  OBVIOUS
<1>2. k \in CallRecord /\ CallOK(k) /\ k.stage = "parent" /\ UNCHANGED <<tree, mode, linkPolicy>>
  BY <1>1 DEF FsInv, ResolveLeaf
<1>3. k.path \in FsPaths /\ k.dest \in FsPaths /\ mode # "broken" /\ k.touched = {} /\ ~k.linked
      /\ (k.op # "rename" => k.dest = k.path)
  BY <1>2 DEF CallOK, AtWork
<1>4. PICK given : given = FullPath(k.path)
  OBVIOUS
<1>5. PICK parent : parent = EvalSymlinks(Front(given))
  OBVIOUS
<1>6. PICK t : t = Append(parent, Last(given))
  OBVIOUS
<1>7. PICK link \in BOOLEAN : link = (parent # Front(given))
  OBVIOUS
<1>8. /\ parent # Nowhere
      /\ \/ Denied(parent) /\ call' = Finished(call, c, "denied")
         \/ ~Denied(parent) /\ Resolved(c, t, link, "leaf")
  BY <1>1, <1>4, <1>5, <1>6, <1>7 DEF ResolveLeaf
<1>9. CASE Denied(parent) /\ call' = Finished(call, c, "denied")
  BY <1>2, <1>9, Finishes
<1>10. CASE ~Denied(parent) /\ Resolved(c, t, link, "leaf")
  <2>1. LeafOK(t) /\ (~link => t = given)
    BY <1>3, <1>4, <1>5, <1>6, <1>7, <1>8, <1>10, LeafFound
  <2>2. t \in Paths /\ t # <<>> /\ "leaf" \in Stages
    BY <2>1 DEF LeafOK, Stages, Looking
  <2>3. PICK n : /\ n \in CallRecord /\ call' = [call EXCEPT ![c] = n]
                 /\ n.target = t /\ n.stage = "leaf" /\ (n.symlink <=> k.symlink \/ link)
                 /\ n.op = k.op /\ n.path = k.path /\ n.dest = k.dest
                 /\ n.touched = k.touched /\ n.linked = k.linked
    BY <1>1, <1>10, <2>2, Resolves
  <2>4. LeafSeen(n, n.path, n.target)
    BY <1>4, <2>1, <2>3 DEF LeafSeen
  <2>5. Looked(n)
    BY <2>3, <2>4 DEF Looked, Seen
  <2>6. CallOK(n)
    BY <1>3, <2>2, <2>3, <2>5 DEF CallOK, AtWork, Seen, Looking
  <2> QED BY <1>2, <2>3, <2>6, CallLooks
<1> QED BY <1>8, <1>9, <1>10

\* What a call that looks at its target knows.
LEMMA AtLeaf ==
    ASSUME FsInv, NEW c \in Calls, call[c].stage = "leaf"
    PROVE  /\ call[c] \in CallRecord /\ CallOK(call[c])
           /\ call[c].path \in FsPaths /\ call[c].dest \in FsPaths /\ mode # "broken"
           /\ call[c].op # "rename" => call[c].dest = call[c].path
           /\ call[c].touched = {} /\ ~call[c].linked
           /\ call[c].target \in Paths \ {<<>>} /\ call[c].symlink \in BOOLEAN
           /\ ~call[c].disturbed => LeafSeen(call[c], call[c].path, call[c].target)
<1>1. PICK k : k = call[c]
  OBVIOUS
<1>2. k \in CallRecord /\ CallOK(k) /\ k.stage = "leaf"
  BY <1>1 DEF FsInv
<1>3. /\ k.path \in FsPaths /\ k.dest \in FsPaths /\ mode # "broken" /\ k.touched = {} /\ ~k.linked
      /\ k.op # "rename" => k.dest = k.path
      /\ k.target # <<>> /\ (~k.disturbed => Looked(k))
  BY <1>2 DEF CallOK, AtWork, Looking
<1>4. k.target \in Paths /\ k.symlink \in BOOLEAN
  BY <1>2, CallTypes
<1>5. ~k.disturbed => LeafSeen(k, k.path, k.target)
  BY <1>2, <1>3 DEF Looked
<1> QED BY <1>1, <1>2, <1>3, <1>4, <1>5

\* What a call knows after its look at its target.
LEMMA AfterLeaf ==
    ASSUME FsInv, NEW c \in Calls, call[c].stage = "leaf",
           NEW t \in Paths, NEW link \in BOOLEAN, NEW s, Resolved(c, t, link, s),
           UNCHANGED <<tree, mode, linkPolicy>>,
           s = IF call[c].op = "rename" THEN "destParent" ELSE "authorize",
           call[c].op \notin Existing => t # <<>>,
           ~call[c].disturbed => SourceOK(call[c].op, t),
           ~call[c].disturbed /\ ~call[c].symlink /\ ~link => ~OnLink(FullPath(call[c].path))
    PROVE  FsInv'
<1>1. PICK k : k = call[c]
  OBVIOUS
<1>2. /\ k \in CallRecord /\ k.path \in FsPaths /\ k.dest \in FsPaths /\ mode # "broken"
      /\ k.op # "rename" => k.dest = k.path
      /\ k.touched = {} /\ ~k.linked
  BY <1>1, AtLeaf
<1>3. s \in {"destParent", "authorize"} /\ s \in Stages /\ (s = "destParent" => k.op = "rename")
      /\ (s = "authorize" => k.op # "rename")
  BY <1>1 DEF Stages, Looking
<1>4. PICK n : /\ n \in CallRecord /\ call' = [call EXCEPT ![c] = n]
               /\ n.target = t /\ n.stage = s /\ (n.symlink <=> k.symlink \/ link)
               /\ n.op = k.op /\ n.path = k.path /\ n.dest = k.dest
               /\ n.touched = k.touched /\ n.linked = k.linked /\ n.disturbed = k.disturbed
  BY <1>1, <1>3, Resolves
<1>5. ASSUME ~n.disturbed PROVE Looked(n)
  <2>1. SourceOK(n.op, n.target) /\ NameSeen(n, n.path)
    BY <1>1, <1>4, <1>5 DEF NameSeen
  <2> QED BY <1>3, <1>4, <2>1 DEF Looked
<1>6. CallOK(n)
  BY <1>1, <1>2, <1>3, <1>4, <1>5 DEF CallOK, AtWork, Seen, Looking
<1> QED BY <1>4, <1>6, CallLooks

LEMMA ResolveExistingStep ==
    ASSUME FsInv, NEW c \in Calls, ResolveExisting(c)
    PROVE  FsInv'
<1>1. PICK k : k = call[c]
  OBVIOUS
<1>2. /\ k.stage = "leaf" /\ k.op \in Existing /\ UNCHANGED <<tree, mode, linkPolicy>>
  BY <1>1 DEF ResolveExisting
<1>3. PICK t : t = EvalSymlinks(k.target)
  OBVIOUS
<1>4. PICK link \in BOOLEAN : link = (t # k.target)
  OBVIOUS
<1>5. /\ t # Nowhere
      /\ \/ Denied(t) /\ call' = Finished(call, c, "denied")
         \/ ~Denied(t) /\ Resolved(c, t, link, "authorize")
  BY <1>1, <1>3, <1>4 DEF ResolveExisting
<1>6. CASE Denied(t) /\ call' = Finished(call, c, "denied")
  BY <1>2, <1>6, Finishes
<1>7. CASE ~Denied(t) /\ Resolved(c, t, link, "authorize")
  <2>1. Solid(t) /\ t \in Paths /\ ~OnLink(t)
    BY <1>3, <1>5, Leads, SolidIsNoLink DEF Solid, FsInv, FilesOK
  <2>2. k.op # "rename"
    BY <1>2 DEF Existing
  <2>3. SourceOK(k.op, t)
    BY <1>2, <1>7, <2>1 DEF SourceOK, Denied
  <2>4. ~k.disturbed /\ ~k.symlink /\ ~link => ~OnLink(FullPath(k.path))
    BY <1>1, <1>2, <1>4, <2>1, AtLeaf DEF LeafSeen
  <2> QED BY <1>1, <1>2, <1>7, <2>1, <2>2, <2>3, <2>4, AfterLeaf
<1> QED BY <1>5, <1>6, <1>7

LEMMA ResolveWriteTargetStep ==
    ASSUME FsInv, NEW c \in Calls, ResolveWriteTarget(c)
    PROVE  FsInv'
<1>1. PICK k : k = call[c]
  OBVIOUS
<1>2. k.stage = "leaf" /\ k.op \in Making /\ UNCHANGED <<tree, mode, linkPolicy>>
  BY <1>1 DEF ResolveWriteTarget
<1>3. PICK link \in BOOLEAN : link = IsLink(Entry(k.target))
  BY DEF IsLink
<1>4. \/ call' = Finished(call, c, "denied")
      \/ ~(link /\ mode = "root") /\ Resolved(c, k.target, link, "authorize")
  BY <1>1, <1>3 DEF ResolveWriteTarget
<1>5. CASE call' = Finished(call, c, "denied")
  BY <1>2, <1>5, Finishes
<1>6. CASE ~(link /\ mode = "root") /\ Resolved(c, k.target, link, "authorize")
  <2>1. /\ k.target \in Paths \ {<<>>}
        /\ ~k.disturbed => LeafOK(k.target) /\ (~k.symlink => k.target = FullPath(k.path))
    BY <1>1, <1>2, AtLeaf DEF LeafSeen
  <2>2. k.op # "rename" /\ k.op \notin Existing
    BY <1>2 DEF Existing, Making
  <2>3. ~k.disturbed /\ ~link => ~OnLink(k.target)
    BY <1>3, <2>1, NoLinkFound
  <2>4. ~k.disturbed => SourceOK(k.op, k.target)
    BY <1>6, <2>1, <2>2, <2>3 DEF SourceOK
  <2>5. ~k.disturbed /\ ~k.symlink /\ ~link => ~OnLink(FullPath(k.path))
    BY <2>1, <2>3
  <2> QED BY <1>1, <1>2, <1>6, <2>1, <2>2, <2>4, <2>5, AfterLeaf
<1> QED BY <1>4, <1>5, <1>6

LEMMA LookAtLeafStep ==
    ASSUME FsInv, NEW c \in Calls, LookAtLeaf(c)
    PROVE  FsInv'
<1>1. PICK k : k = call[c]
  OBVIOUS
<1>2. k.stage = "leaf" /\ k.op \notin Existing \cup Making /\ UNCHANGED <<tree, mode, linkPolicy>>
  BY <1>1 DEF LookAtLeaf
<1>3. PICK link \in BOOLEAN : link = IsLink(Entry(k.target))
  BY DEF IsLink
<1>4. PICK s : s = IF k.op = "rename" THEN "destParent" ELSE "authorize"
  OBVIOUS
<1>5. Resolved(c, k.target, link, s)
  BY <1>1, <1>3, <1>4 DEF LookAtLeaf
<1>6. /\ k.target \in Paths \ {<<>>}
      /\ ~k.disturbed => LeafOK(k.target) /\ (~k.symlink => k.target = FullPath(k.path))
  BY <1>1, <1>2, AtLeaf DEF LeafSeen
<1>7. ~k.disturbed => SourceOK(k.op, k.target)
  BY <1>2, <1>6 DEF SourceOK, Making
<1>8. ~k.disturbed /\ ~k.symlink /\ ~link => ~OnLink(FullPath(k.path))
  BY <1>3, <1>6, NoLinkFound
<1> QED BY <1>1, <1>2, <1>4, <1>5, <1>6, <1>7, <1>8, AfterLeaf

LEMMA ResolveDestLeafStep ==
    ASSUME FsInv, NEW c \in Calls, ResolveDestLeaf(c)
    PROVE  FsInv'
<1>1. PICK k : k = call[c]
  OBVIOUS
<1>2. k \in CallRecord /\ CallOK(k) /\ k.stage = "destParent" /\ UNCHANGED <<tree, mode, linkPolicy>>
  BY <1>1 DEF FsInv, ResolveDestLeaf
<1>3. /\ k.path \in FsPaths /\ k.dest \in FsPaths /\ mode # "broken" /\ k.touched = {} /\ ~k.linked
      /\ k.op = "rename" /\ k.op \notin Existing /\ k.target # <<>>
      /\ ~k.disturbed => SourceOK(k.op, k.target) /\ NameSeen(k, k.path)
  BY <1>2 DEF CallOK, AtWork, Looking, Seen, Looked, Existing
<1>4. PICK given : given = FullPath(k.dest)
  OBVIOUS
<1>5. PICK parent : parent = EvalSymlinks(Front(given))
  OBVIOUS
<1>6. PICK t : t = Append(parent, Last(given))
  OBVIOUS
<1>7. PICK link \in BOOLEAN : link = (parent # Front(given))
  OBVIOUS
<1>8. /\ parent # Nowhere
      /\ \/ Denied(parent) /\ call' = Finished(call, c, "denied")
         \/ ~Denied(parent) /\ ResolvedDest(c, t, link, "destLeaf")
  BY <1>1, <1>4, <1>5, <1>6, <1>7 DEF ResolveDestLeaf
<1>9. CASE Denied(parent) /\ call' = Finished(call, c, "denied")
  BY <1>2, <1>9, Finishes
<1>10. CASE ~Denied(parent) /\ ResolvedDest(c, t, link, "destLeaf")
  <2>1. LeafOK(t) /\ (~link => t = given)
    BY <1>3, <1>4, <1>5, <1>6, <1>7, <1>8, <1>10, LeafFound
  <2>2. t \in Paths /\ "destLeaf" \in Stages
    BY <2>1 DEF LeafOK, Stages, Looking
  <2>3. PICK n : /\ n \in CallRecord /\ call' = [call EXCEPT ![c] = n]
                 /\ n.destTarget = t /\ n.stage = "destLeaf" /\ (n.symlink <=> k.symlink \/ link)
                 /\ n.op = k.op /\ n.path = k.path /\ n.dest = k.dest /\ n.target = k.target
                 /\ n.touched = k.touched /\ n.linked = k.linked /\ n.disturbed = k.disturbed
    BY <1>1, <1>10, <2>2, ResolvesDest
  <2>4. LeafSeen(n, n.dest, n.destTarget)
    BY <1>4, <2>1, <2>3 DEF LeafSeen
  <2>5. ~n.disturbed => SourceOK(n.op, n.target) /\ NameSeen(n, n.path)
    BY <1>3, <2>3 DEF NameSeen
  <2>6. ~n.disturbed => Looked(n)
    BY <2>3, <2>4, <2>5 DEF Looked
  <2>7. CallOK(n)
    BY <1>3, <2>3, <2>6 DEF CallOK, AtWork, Seen, Looking
  <2> QED BY <1>2, <2>3, <2>7, CallLooks
<1> QED BY <1>8, <1>9, <1>10

LEMMA ResolveDestTargetStep ==
    ASSUME FsInv, NEW c \in Calls, ResolveDestTarget(c)
    PROVE  FsInv'
<1>1. PICK k : k = call[c]
  OBVIOUS
<1>2. k \in CallRecord /\ CallOK(k) /\ k.stage = "destLeaf" /\ UNCHANGED <<tree, mode, linkPolicy>>
  BY <1>1 DEF FsInv, ResolveDestTarget
<1>3. /\ k.path \in FsPaths /\ k.dest \in FsPaths /\ mode # "broken" /\ k.touched = {} /\ ~k.linked
      /\ k.op = "rename" /\ k.op \notin Existing /\ k.target # <<>>
      /\ ~k.disturbed => /\ SourceOK(k.op, k.target) /\ NameSeen(k, k.path)
                         /\ LeafSeen(k, k.dest, k.destTarget)
  BY <1>2 DEF CallOK, AtWork, Looking, Seen, Looked, Existing
<1>4. k.destTarget \in Paths
  BY <1>2, CallTypes
<1>5. PICK link \in BOOLEAN : link = IsLink(Entry(k.destTarget))
  BY DEF IsLink
<1>6. \/ call' = Finished(call, c, "denied")
      \/ ResolvedDest(c, k.destTarget, link, "authorize")
  BY <1>1, <1>5 DEF ResolveDestTarget
<1>7. CASE call' = Finished(call, c, "denied")
  BY <1>2, <1>7, Finishes
<1>8. CASE ResolvedDest(c, k.destTarget, link, "authorize")
  <2>1. PICK n : /\ n \in CallRecord /\ call' = [call EXCEPT ![c] = n]
                 /\ n.destTarget = k.destTarget /\ n.stage = "authorize" /\ (n.symlink <=> k.symlink \/ link)
                 /\ n.op = k.op /\ n.path = k.path /\ n.dest = k.dest /\ n.target = k.target
                 /\ n.touched = k.touched /\ n.linked = k.linked /\ n.disturbed = k.disturbed
    <3>1. "authorize" \in Stages
      BY DEF Stages, Looking
    <3> QED BY <1>1, <1>4, <1>8, <3>1, ResolvesDest
  <2>2. ASSUME ~n.disturbed PROVE Looked(n)
    <3>1. LeafOK(k.destTarget) /\ (~k.symlink => k.destTarget = FullPath(k.dest))
      BY <1>3, <2>1, <2>2 DEF LeafSeen
    <3>2. NameSeen(n, n.dest)
      BY <1>5, <2>1, <3>1, NoLinkFound DEF NameSeen
    <3>3. SourceOK(n.op, n.target) /\ NameSeen(n, n.path)
      BY <1>3, <2>1, <2>2 DEF NameSeen
    <3> QED BY <2>1, <3>1, <3>2, <3>3 DEF Looked
  <2>3. CallOK(n)
    BY <1>3, <2>1, <2>2 DEF CallOK, AtWork, Seen, Looking
  <2> QED BY <1>2, <2>1, <2>3, CallLooks
<1> QED BY <1>6, <1>7, <1>8

LEMMA AuthorizeStep ==
    ASSUME FsInv, NEW c \in Calls, Authorize(c)
    PROVE  FsInv'
<1>1. PICK k : k = call[c]
  OBVIOUS
<1>2. k \in CallRecord /\ CallOK(k) /\ k.stage = "authorize"
  BY <1>1 DEF FsInv, Authorize
<1>3. UNCHANGED <<tree, mode, linkPolicy>> /\ linkPolicy \in BOOLEAN /\ mode \in Modes
  BY DEF Authorize, FsInv
<1>4. PICK asks : asks = IF k.symlink /\ linkPolicy THEN {"policy", "links"} ELSE {"policy"}
  OBVIOUS
<1>5. \/ call' = Finished(call, c, "denied")
      \/ /\ k.symlink /\ mode = "unrestricted" => linkPolicy
         /\ call' = [call EXCEPT ![c].stage = "use", ![c].asked = asks]
  BY <1>1, <1>4 DEF Authorize
<1>6. CASE call' = Finished(call, c, "denied")
  BY <1>3, <1>6, Finishes
<1>7. CASE /\ k.symlink /\ mode = "unrestricted" => linkPolicy
           /\ call' = [call EXCEPT ![c].stage = "use", ![c].asked = asks]
  <2>1. PICK n : n = [k EXCEPT !.stage = "use", !.asked = asks]
    OBVIOUS
  <2>2. asks \in SUBSET {"policy", "links"} /\ "policy" \in asks
        /\ (k.symlink /\ linkPolicy => "links" \in asks)
    BY <1>4
  <2>3. /\ n \in CallRecord /\ n.stage = "use" /\ n.touched = k.touched /\ n.op = k.op /\ n.linked = k.linked
        /\ n.path = k.path /\ n.dest = k.dest /\ n.target = k.target /\ n.destTarget = k.destTarget
        /\ n.symlink = k.symlink /\ n.disturbed = k.disturbed /\ n.asked = asks
    BY <1>2, <2>1, <2>2 DEF CallRecord, Stages, Looking
  <2>4. /\ k.touched = {} /\ ~k.linked /\ mode # "broken" /\ k.path \in FsPaths /\ k.dest \in FsPaths
        /\ k.op # "rename" => k.dest = k.path
        /\ k.op \notin Existing => k.target # <<>>
        /\ ~k.disturbed => Looked(k)
    BY <1>2 DEF CallOK, AtWork, Seen, Looking
  <2>5. ~n.disturbed => Looked(n)
    BY <1>2, <2>3, <2>4 DEF Looked, Seen, NameSeen
  <2>6. Asked(n)
    BY <1>3, <1>7, <2>2, <2>3, <2>4 DEF Asked, Modes
  <2>7. CallOK(n)
    BY <2>3, <2>4, <2>5, <2>6 DEF CallOK, Seen, AtWork, Looking
  <2>8. call' = [call EXCEPT ![c] = n]
    BY <1>1, <1>7, <2>1
  <2> QED BY <1>3, <2>3, <2>7, <2>8, CallLooks
<1> QED BY <1>5, <1>6, <1>7

LEMMA SettleStep ==
    ASSUME FsInv, NEW c \in Calls, Settle(c)
    PROVE  FsInv'
<1>1. PICK k : k = call[c]
  OBVIOUS
<1>2. k \in CallRecord /\ CallOK(k) /\ UNCHANGED <<tree, mode, linkPolicy>>
  BY <1>1 DEF FsInv, Settle
<1>3. PICK s \in {"done", "lost"} : call' = [call EXCEPT ![c].stage = s]
  BY DEF Settle
<1>4. PICK n : n = [k EXCEPT !.stage = s]
  OBVIOUS
<1>5. /\ n \in CallRecord /\ n.stage = s /\ n.touched = k.touched /\ n.linked = k.linked
      /\ n.disturbed = k.disturbed /\ n.asked = k.asked
  BY <1>2, <1>3, <1>4 DEF CallRecord, Stages
<1>6. CallOK(n)
  BY <1>2, <1>3, <1>5 DEF CallOK, UsedOK, AtWork, Seen, Looking
<1>7. call' = [call EXCEPT ![c] = n]
  BY <1>1, <1>3, <1>4
<1> QED BY <1>2, <1>5, <1>6, <1>7, CallLooks

\* What a call reaches when it uses its target, if no link was moved.
LEMMA Reached ==
    ASSUME FsInv, NEW c \in Calls, call[c].stage \in {"authorize", "use", "remove"},
           mode = "root", ~call[c].disturbed
    PROVE  /\ IsWithin(call[c].target)
           /\ call[c].op \in Existing => EvalSymlinks(call[c].target) \in {call[c].target, Nowhere}
           /\ call[c].op \notin Existing => Entry(call[c].target) \in {call[c].target, Nowhere}
           /\ call[c].op = "writeFile" => Followed(call[c].target) = call[c].target
           /\ call[c].op = "rename" => /\ Entry(call[c].destTarget) \in {call[c].destTarget, Nowhere}
                                       /\ IsWithin(call[c].destTarget)
<1>1. PICK k : k = call[c]
  OBVIOUS
<1>2. k \in CallRecord /\ CallOK(k) /\ k.stage \in {"authorize", "use", "remove"} /\ FilesOK /\ k.target \in Paths
  BY <1>1, CallTypes DEF FsInv
<1>3. SourceOK(k.op, k.target) /\ (k.op = "rename" => LeafOK(k.destTarget))
  BY <1>1, <1>2 DEF Looked, CallOK, Seen, Looking
<1>4. k.op \in Existing => EvalSymlinks(k.target) \in {k.target, Nowhere} /\ IsWithin(k.target)
  BY <1>2, <1>3, Constants, Unlinked DEF SourceOK
<1>5. k.op \notin Existing => Entry(k.target) \in {k.target, Nowhere} /\ IsWithin(k.target)
  BY <1>3, LeafLeads DEF SourceOK
<1>6. k.op = "writeFile" => Followed(k.target) = k.target
  <2>1. k.op = "writeFile" => ~OnLink(k.target)
    BY <1>3 DEF SourceOK, Existing
  <2> QED BY <1>2, <2>1, Constants, Unlinked
<1>7. k.op = "rename" => Entry(k.destTarget) \in {k.destTarget, Nowhere} /\ IsWithin(k.destTarget)
  BY <1>3, LeafLeads
<1> QED BY <1>1, <1>4, <1>5, <1>6, <1>7

LEMMA LookStep ==
    ASSUME FsInv, NEW c \in Calls, Look(c)
    PROVE  FsInv'
<1>1. PICK k : k = call[c]
  OBVIOUS
<1>2. PICK p : p = IF k.op = "lstat" THEN Entry(k.target) ELSE EvalSymlinks(k.target)
  OBVIOUS
<1>3. /\ k.stage = "use" /\ k.op \in Existing \cup {"lstat"} /\ FilesOK
      /\ p \in DOMAIN tree /\ UNCHANGED <<tree, mode, linkPolicy>>
  BY <1>1, <1>2 DEF FsInv, Look
<1>4. PICK result \in {"ok", "error"} : call' = Finished(Used(c, {p}), c, result)
  BY <1>1, <1>2 DEF Look
<1>5. p \in Paths /\ p # Nowhere
  BY <1>3, PathFacts DEF FilesOK
<1>6. ASSUME mode = "root", ~k.disturbed PROVE IsWithin(p)
  <2>1. /\ IsWithin(k.target)
        /\ k.op \in Existing => EvalSymlinks(k.target) \in {k.target, Nowhere}
        /\ k.op \notin Existing => Entry(k.target) \in {k.target, Nowhere}
    BY <1>1, <1>3, <1>6, Reached
  <2>2. p = k.target
    BY <1>2, <1>3, <1>5, <2>1 DEF Existing
  <2> QED BY <2>1, <2>2
<1>7. PICK P : P = {p}
  OBVIOUS
<1>8. P \in SUBSET Paths /\ (mode = "root" /\ ~k.disturbed => \A x \in P : IsWithin(x))
  BY <1>5, <1>6, <1>7
<1>9. PICK n : /\ n \in CallRecord /\ CallOK(n)'
               /\ Finished(Used(c, P), c, result) = [call EXCEPT ![c] = n]
  BY <1>1, <1>3, <1>8, LastUse
<1>10. FilesOK' /\ Links(tree') \subseteq Links(tree)
  BY <1>3 DEF FilesOK, Links
<1> QED BY <1>3, <1>4, <1>7, <1>9, <1>10, CallMoves

\* The end of a use that changes the files and no link.
LEMMA UseMoves ==
    ASSUME FsInv, NEW c \in Calls, call[c].stage \in {"use", "remove"}, UNCHANGED <<mode, linkPolicy>>,
           NEW p \in Paths, NEW result \in {"ok", "error"},
           mode = "root" /\ ~call[c].disturbed => IsWithin(p),
           FilesOK', Links(tree') \subseteq Links(tree), call' = Finished(Used(c, {p}), c, result)
    PROVE  FsInv'
<1>1. PICK P : P = {p}
  OBVIOUS
<1>2. P \in SUBSET Paths /\ (mode = "root" /\ ~call[c].disturbed => \A x \in P : IsWithin(x))
  BY <1>1
<1>3. PICK n : /\ n \in CallRecord /\ CallOK(n)'
               /\ Finished(Used(c, P), c, result) = [call EXCEPT ![c] = n]
  BY <1>2, LastUse
<1> QED BY <1>1, <1>3, CallMoves

LEMMA WriteFileStep ==
    ASSUME FsInv, NEW c \in Calls, WriteFile(c)
    PROVE  FsInv'
<1>1. PICK k : k = call[c]
  OBVIOUS
<1>2. PICK p : p = Followed(k.target)
  OBVIOUS
<1>3. /\ k \in CallRecord /\ k.stage = "use" /\ k.op = "writeFile"
      /\ UNCHANGED <<mode, linkPolicy>> /\ FilesOK /\ CanOpen(p) /\ tree' = With(p, "file")
  BY <1>1, <1>2 DEF FsInv, WriteFile
<1>4. PICK result \in {"ok", "error"} : call' = Finished(Used(c, {p}), c, result)
  BY <1>1, <1>2 DEF WriteFile
<1>5. p \in Paths
  BY <1>2, <1>3, CallTypes, Constants, FollowedIsPath
<1>6. \/ p \in DOMAIN tree /\ tree[p].kind = "file"
      \/ p \notin DOMAIN tree /\ p # <<>> /\ Front(p) \in DOMAIN tree /\ tree[Front(p)].kind = "dir"
  BY <1>3 DEF CanOpen, IsDir, Solid
<1>7. FilesOK' /\ Links(tree') \subseteq Links(tree)
  <2>1. PICK kind \in {"file", "dir"} : kind = "file"
    OBVIOUS
  <2>2. tree' = With(p, kind)
    BY <1>3, <2>1
  <2> QED BY <1>3, <1>5, <1>6, <2>1, <2>2, MadeFiles
<1>8. mode = "root" /\ ~k.disturbed => IsWithin(p)
  BY <1>1, <1>2, <1>3, Reached
<1> QED BY <1>1, <1>3, <1>4, <1>5, <1>7, <1>8, UseMoves

\* An entry of a leaf that is not refused.
LEMMA EntryPath ==
    ASSUME FsInv, NEW c \in Calls, call[c].stage \in {"use", "remove"}, call[c].op \notin Existing,
           Entry(call[c].target) # Nowhere
    PROVE  /\ Entry(call[c].target) \in Paths \ {<<>>}
           /\ Front(Entry(call[c].target)) \in DOMAIN tree /\ tree[Front(Entry(call[c].target))].kind = "dir"
           /\ mode = "root" /\ ~call[c].disturbed => IsWithin(Entry(call[c].target))
<1>1. PICK k : k = call[c]
  OBVIOUS
<1>2. k \in CallRecord /\ CallOK(k) /\ k.target \in Paths /\ FilesOK
  BY <1>1, CallTypes DEF FsInv
<1>3. k.target # <<>>
  BY <1>1, <1>2 DEF CallOK, Seen
<1>4. mode = "root" /\ ~k.disturbed => IsWithin(Entry(k.target))
  BY <1>1, Reached
<1> QED BY <1>1, <1>2, <1>3, <1>4, Places

LEMMA MkdirStep ==
    ASSUME FsInv, NEW c \in Calls, Mkdir(c)
    PROVE  FsInv'
<1>1. PICK k : k = call[c]
  OBVIOUS
<1>2. PICK p : p = Entry(k.target)
  OBVIOUS
<1>3. /\ k.stage = "use" /\ k.op = "mkdir" /\ UNCHANGED <<mode, linkPolicy>> /\ FilesOK
      /\ p # Nowhere /\ p \notin DOMAIN tree /\ tree' = With(p, "dir")
      /\ call' = Finished(Used(c, {p}), c, "ok")
  BY <1>1, <1>2 DEF FsInv, Mkdir
<1>4. /\ p \in Paths \ {<<>>} /\ Front(p) \in DOMAIN tree /\ tree[Front(p)].kind = "dir"
      /\ mode = "root" /\ ~k.disturbed => IsWithin(p)
  BY <1>1, <1>2, <1>3, EntryPath DEF Existing
<1>5. FilesOK' /\ Links(tree') \subseteq Links(tree)
  <2>1. PICK kind \in {"file", "dir"} : kind = "dir"
    OBVIOUS
  <2>2. tree' = With(p, kind)
    BY <1>3, <2>1
  <2> QED BY <1>3, <1>4, <2>2, MadeFiles
<1> QED BY <1>1, <1>3, <1>4, <1>5, UseMoves

LEMMA LookBeforeRemoveStep ==
    ASSUME FsInv, NEW c \in Calls, LookBeforeRemove(c)
    PROVE  FsInv'
<1>1. PICK k : k = call[c]
  OBVIOUS
<1>2. PICK p : p = Entry(k.target)
  OBVIOUS
<1>3. /\ k \in CallRecord /\ CallOK(k) /\ k.stage = "use" /\ k.op = "unlink" /\ FilesOK
      /\ UNCHANGED <<tree, mode, linkPolicy>> /\ p \in DOMAIN tree /\ p # Nowhere /\ p \in Paths
  BY <1>1, <1>2, PathFacts DEF FsInv, LookBeforeRemove, FilesOK
<1>4. FilesOK' /\ Links(tree') \subseteq Links(tree)
  BY <1>3 DEF FilesOK, Links
<1>5. mode = "root" /\ ~k.disturbed => IsWithin(p)
  BY <1>1, <1>2, <1>3, EntryPath DEF Existing
<1>6. \/ call' = Finished(Used(c, {p}), c, "error")
      \/ call' = [Used(c, {p}) EXCEPT ![c].stage = "remove"]
  BY <1>1, <1>2 DEF LookBeforeRemove
<1>7. CASE call' = Finished(Used(c, {p}), c, "error")
  BY <1>1, <1>3, <1>4, <1>5, <1>7, UseMoves
<1>8. CASE call' = [Used(c, {p}) EXCEPT ![c].stage = "remove"]
  <2>1. PICK P : P = {p}
    OBVIOUS
  <2>2. P \in SUBSET Paths /\ (mode = "root" /\ ~k.disturbed => \A x \in P : IsWithin(x))
    BY <1>3, <1>5, <2>1
  <2>3. PICK r : /\ r \in CallRecord /\ UsedOK(r) /\ Used(c, P) = [call EXCEPT ![c] = r]
                 /\ r.stage = k.stage /\ r.op = k.op /\ r.path = k.path /\ r.dest = k.dest
                 /\ r.target = k.target /\ r.symlink = k.symlink /\ r.asked = k.asked
                 /\ r.disturbed = k.disturbed /\ r.touched # {}
    <3>1. \E r : /\ r \in CallRecord /\ UsedOK(r) /\ Used(c, P) = [call EXCEPT ![c] = r]
                 /\ r.stage = k.stage /\ r.op = k.op /\ r.path = k.path /\ r.dest = k.dest
                 /\ r.target = k.target /\ r.symlink = k.symlink /\ r.asked = k.asked
                 /\ r.disturbed = k.disturbed /\ P \subseteq r.touched
      BY <1>1, <1>3, <2>2, Uses
    <3> QED BY <2>1, <3>1
  <2>4. PICK n : n = [r EXCEPT !.stage = "remove"]
    OBVIOUS
  <2>5. /\ n \in CallRecord /\ n.stage = "remove" /\ n.op = k.op /\ n.path = k.path /\ n.dest = k.dest
        /\ n.target = k.target /\ n.symlink = k.symlink /\ n.asked = k.asked
        /\ n.disturbed = k.disturbed /\ n.touched = r.touched /\ n.linked = r.linked
    BY <2>3, <2>4 DEF CallRecord, Stages, Looking
  <2>6. UsedOK(n)
    BY <2>3, <2>5 DEF UsedOK
  <2>7. /\ k.path \in FsPaths /\ k.dest \in FsPaths /\ mode # "broken"
        /\ k.op # "rename" => k.dest = k.path
        /\ k.target # <<>> /\ Asked(k) /\ (~k.disturbed => Looked(k))
    BY <1>3 DEF CallOK, AtWork, Seen, Looking, Existing
  <2>8. Asked(n)
    BY <2>5, <2>7 DEF Asked
  <2>9. ~n.disturbed => Looked(n)
    BY <1>3, <2>5, <2>7 DEF Looked, Seen, NameSeen
  <2>10. CallOK(n)
    BY <1>3, <2>3, <2>5, <2>6, <2>7, <2>8, <2>9 DEF CallOK
  <2>11. call' = [call EXCEPT ![c] = n]
    <3>1. call \in [Calls -> CallRecord] /\ call' = [[call EXCEPT ![c] = r] EXCEPT ![c].stage = "remove"]
      BY <1>8, <2>1, <2>3 DEF FsInv
    <3> QED BY <2>4, <3>1
  <2> QED BY <1>3, <2>5, <2>10, <2>11, CallLooks
<1> QED BY <1>6, <1>7, <1>8

LEMMA RemoveFileStep ==
    ASSUME FsInv, NEW c \in Calls, RemoveFile(c)
    PROVE  FsInv'
<1>1. PICK k : k = call[c]
  OBVIOUS
<1>2. PICK p : p = Entry(k.target)
  OBVIOUS
<1>3. /\ k.stage = "remove" /\ CallOK(k) /\ UNCHANGED <<mode, linkPolicy>> /\ FilesOK
      /\ p \in DOMAIN tree /\ p # Nowhere /\ p \in Paths
      /\ \A r \in DOMAIN tree : ~IsStrictPrefix(p, r)
      /\ tree' = Without(p) /\ call' = Finished(Used(c, {p}), c, "ok")
  BY <1>1, <1>2, PathFacts DEF FsInv, RemoveFile, FilesOK
<1>4. k.op \notin Existing
  BY <1>3 DEF CallOK, Existing
<1>5. mode = "root" /\ ~k.disturbed => IsWithin(p)
  BY <1>1, <1>2, <1>3, <1>4, EntryPath
<1>6. FilesOK' /\ Links(tree') \subseteq Links(tree)
  BY <1>3, RemovedFiles
<1> QED BY <1>1, <1>3, <1>5, <1>6, UseMoves

LEMMA RenameStep ==
    ASSUME FsInv, NEW c \in Calls, Rename(c)
    PROVE  FsInv'
<1>1. PICK k : k = call[c]
  OBVIOUS
<1>2. PICK p : p = Entry(k.target)
  OBVIOUS
<1>3. PICK q : q = Entry(k.destTarget)
  OBVIOUS
<1>4. /\ k \in CallRecord /\ k.stage = "use" /\ k.op = "rename" /\ k.op \notin Existing
      /\ UNCHANGED <<mode, linkPolicy>> /\ FilesOK
      /\ call' = Disturb(Finished(Used(c, {p, q}), c, "ok"), c)
      /\ \/ p = q /\ p \in DOMAIN tree /\ tree' = tree
         \/ CanMove(p, q) /\ tree' = Moved(p, q)
  BY <1>1, <1>2, <1>3 DEF FsInv, Rename, Existing
<1>5. /\ p \in DOMAIN tree /\ p \in Paths /\ p # Nowhere /\ q # Nowhere
  BY <1>4, PathFacts DEF FilesOK, CanMove
<1>6. k.destTarget \in Paths
  BY <1>4, CallTypes
<1>7. q \in Paths
  BY <1>3, <1>4, <1>5, <1>6, Places
<1>8. mode = "root" /\ ~k.disturbed => IsWithin(p) /\ IsWithin(q)
  BY <1>1, <1>2, <1>3, <1>4, <1>5, Reached
<1>9. FilesOK'
  <2>1. CASE tree' = tree
    BY <1>4, <2>1 DEF FilesOK
  <2>2. CASE CanMove(p, q) /\ tree' = Moved(p, q)
    <3>1. q # <<>>
      <4>1. <<>> \in Paths /\ Len(<<>>) = 0
        BY DEF Paths
      <4>2. Len(p) \in Nat
        BY <1>5, PathFacts
      <4>3. IsPrefix(<<>>, p)
        BY <1>5, <4>1, <4>2, PrefixElts
      <4> QED BY <2>2, <4>3 DEF CanMove
    <3>2. Front(q) \in DOMAIN tree /\ tree[Front(q)].kind = "dir"
      BY <1>3, <1>4, <1>5, <1>6, <3>1, Places
    <3> QED BY <1>4, <1>5, <1>7, <2>2, <3>1, <3>2, MovedFiles
  <2> QED BY <1>4, <2>1, <2>2
<1>10. PICK P : P = {p, q}
  OBVIOUS
<1>11. P \in SUBSET Paths /\ (mode = "root" /\ ~k.disturbed => \A x \in P : IsWithin(x))
  BY <1>5, <1>7, <1>8, <1>10
<1>12. PICK n : /\ n \in CallRecord /\ n.stage \notin Looking /\ CallOK(n)'
                /\ Finished(Used(c, P), c, "ok") = [call EXCEPT ![c] = n]
  BY <1>1, <1>4, <1>11, LastUse
<1> QED BY <1>4, <1>9, <1>10, <1>12, FilesMove

LEMMA FsStep ==
    FsInv /\ [FsNext]_fsVars => FsInv'
<1> SUFFICES ASSUME FsInv, [FsNext]_fsVars PROVE FsInv'
  OBVIOUS
<1>1. CASE UNCHANGED fsVars
  <2>1. UNCHANGED <<tree, mode, linkPolicy, call>>
    BY <1>1 DEF fsVars
  <2>2. FilesOK' /\ call' \in [Calls -> CallRecord] /\ Links(tree') \subseteq Links(tree)
    BY <2>1 DEF FsInv, FilesOK, Links
  <2>3. \A c \in Calls : \E r : r = call'[c] /\ CallOK(r)'
    BY <2>1, <2>2, CallStays DEF FsInv
  <2>4. \A c \in Calls : CallOK(call[c])'
    BY <2>3
  <2> QED BY <2>1, <2>2, <2>4 DEF FsInv
<1>2. CASE FsNext
  <2>1. PICK c \in Calls :
          \/ \E op \in FsOps, p, d \in FsPaths \cup {Escaping} : FsCall(c, op, p, d)
          \/ ResolveLeaf(c) \/ ResolveExisting(c) \/ ResolveWriteTarget(c) \/ LookAtLeaf(c)
          \/ ResolveDestLeaf(c) \/ ResolveDestTarget(c) \/ Authorize(c)
          \/ Look(c) \/ WriteFile(c) \/ Mkdir(c) \/ LookBeforeRemove(c) \/ RemoveFile(c) \/ Rename(c)
          \/ Fails(c) \/ Settle(c)
    BY <1>2 DEF FsNext
  <2>2. CASE \E op \in FsOps, p, d \in FsPaths \cup {Escaping} : FsCall(c, op, p, d)
    BY <2>2, FsCallStep
  <2>3. CASE ResolveLeaf(c)
    BY <2>3, ResolveLeafStep
  <2>4. CASE ResolveExisting(c)
    BY <2>4, ResolveExistingStep
  <2>5. CASE ResolveWriteTarget(c)
    BY <2>5, ResolveWriteTargetStep
  <2>6. CASE LookAtLeaf(c)
    BY <2>6, LookAtLeafStep
  <2>7. CASE ResolveDestLeaf(c)
    BY <2>7, ResolveDestLeafStep
  <2>8. CASE ResolveDestTarget(c)
    BY <2>8, ResolveDestTargetStep
  <2>9. CASE Authorize(c)
    BY <2>9, AuthorizeStep
  <2>10. CASE Look(c)
    BY <2>10, LookStep
  <2>11. CASE WriteFile(c)
    BY <2>11, WriteFileStep
  <2>12. CASE Mkdir(c)
    BY <2>12, MkdirStep
  <2>13. CASE LookBeforeRemove(c)
    BY <2>13, LookBeforeRemoveStep
  <2>14. CASE RemoveFile(c)
    BY <2>14, RemoveFileStep
  <2>15. CASE Rename(c)
    BY <2>15, RenameStep
  <2>16. CASE Fails(c)
    BY <2>16, FailsStep
  <2>17. CASE Settle(c)
    BY <2>17, SettleStep
  <2> QED BY <2>1, <2>2, <2>3, <2>4, <2>5, <2>6, <2>7, <2>8, <2>9, <2>10, <2>11, <2>12, <2>13, <2>14,
             <2>15, <2>16, <2>17
<1> QED BY <1>1, <1>2

LEMMA FsStart ==
    FsInit => FsInv
<1> SUFFICES ASSUME FsInit PROVE FsInv
  OBVIOUS
<1>1. FilesOK /\ mode \in Modes /\ linkPolicy \in BOOLEAN
  BY FsAssumption DEF FsInit, FilesOK
<1>2. <<>> \in Paths
  BY DEF Paths
<1>3. NoCall \in CallRecord
  BY <1>2 DEF NoCall, CallRecord, Stages
<1>4. NoCall.stage = "none" /\ NoCall.touched = {}
  BY DEF NoCall
<1>5. CallOK(NoCall)
  BY <1>4 DEF CallOK, AtWork, Seen, Looking
<1> QED BY <1>1, <1>3, <1>5 DEF FsInv, FsInit

-------------------------------------------------------------------------------
\* The theorems.

\* The inductive invariant: the files stay a tree, and what a call has found out
\* about its names at each of its looks - that no link is on the way, or that one is -
\* stays true while the others write, make and remove, until one moves a link.
THEOREM FsInvHolds == FsSpec => []FsInv
BY FsStart, FsStep, PTL DEF FsSpec

\* The files, the configuration and the calls have their types.
THEOREM FsTypesHold == FsSpec => []FsTypeOK
<1>1. ASSUME FsInv PROVE FsTypeOK
  <2>1. /\ \A p \in DOMAIN tree : tree[p].kind \in {"file", "dir", "link"}
        /\ \A p \in DOMAIN tree : p # <<>> => Front(p) \in DOMAIN tree /\ tree[Front(p)].kind = "dir"
    BY <1>1 DEF FsInv, FilesOK, Node
  <2>2. ASSUME NEW c \in Calls
        PROVE  /\ call[c].stage \in Stages
               /\ call[c].result \in {"", "ok", "error", "denied"}
               /\ call[c].asked \subseteq {"policy", "links"}
    <3>1. PICK k : k = call[c]
      OBVIOUS
    <3>2. k \in CallRecord
      BY <1>1, <3>1 DEF FsInv
    <3>3. k.stage \in Stages /\ k.result \in {"", "ok", "error", "denied"} /\ k.asked \subseteq {"policy", "links"}
      BY <3>2 DEF CallRecord
    <3> QED BY <3>1, <3>3
  <2> QED BY <1>1, <2>1, <2>2 DEF FsInv, FsTypeOK
<1> QED BY <1>1, FsInvHolds, PTL

\* With a root, resolveLeaf, resolveExisting and resolveWriteTarget keep every call
\* in it, whatever links there are: what a call uses, by a name whose links are all
\* followed again, is in the root, whatever other calls write, make or remove between
\* the looks and the use - unless one of them moved a link, or a directory with a link
\* in it, after this call began to look.
THEOREM StaysConfined == FsSpec => []Confined
<1>1. ASSUME FsInv PROVE Confined
  <2>1. ASSUME mode = "root", NEW c \in Calls, ~call[c].disturbed
        PROVE  /\ \A p \in call[c].touched : IsWithin(p)
               /\ call[c].stage \in {"authorize", "use", "remove"} =>
                    /\ IsWithin(call[c].target)
                    /\ call[c].op = "rename" => IsWithin(call[c].destTarget)
    <3>1. \A p \in call[c].touched : IsWithin(p)
      BY <1>1, <2>1 DEF FsInv, CallOK, UsedOK
    <3>2. call[c].stage \in {"authorize", "use", "remove"} =>
            IsWithin(call[c].target) /\ (call[c].op = "rename" => IsWithin(call[c].destTarget))
      BY <1>1, <2>1, Reached
    <3> QED BY <3>1, <3>2
  <2> QED BY <2>1 DEF Confined
<1> QED BY <1>1, FsInvHolds, PTL

\* authorize is asked before anything is used; and with the policy for links (or, if
\* there is none, in the root mode only) by every call whose names lead through a link
\* at the moment of use: the resolutions miss no link that was there, and none comes
\* to be there - unless another call moved one after this call began to look, the case
\* in which the promise of access.go's comment does not hold.
THEOREM LinksAreAuthorized == FsSpec => []LinksAuthorized
<1>1. ASSUME FsInv PROVE LinksAuthorized
  <2>1. \A c \in Calls : call[c].touched # {} => UsedOK(call[c])
    BY <1>1 DEF FsInv, CallOK
  <2> QED BY <2>1 DEF LinksAuthorized, UsedOK
<1> QED BY <1>1, FsInvHolds, PTL
================================================================================
