-------------------------------- MODULE FsAccess --------------------------------
(***************************************************************************)
(* The fs module: calls that resolve their paths, ask the host's policies     *)
(* and then use the file system by name.  Those that give a promise run on    *)
(* goroutines of their own and interleave between any two of their looks at    *)
(* the files; the synchronous ones hold the owner meanwhile.                   *)
(* External: the file system, whose paths are sequences of names and whose     *)
(* links are absolute, and which may fail at any time; and the policies, which *)
(* may answer anything.                                                        *)
(***************************************************************************)
EXTENDS Naturals, Sequences, FiniteSets, SequencesExt

CONSTANTS
    Calls, SyncCalls,    \* the calls, and those that are synchronous
    FsOps,               \* the operations called
    Root, InitialTree,   \* the root directory, and the files when the host starts
    FsPaths,             \* the paths that are given; those in Escaping cannot be
    MaxLinks             \* bound: links on one path

Paths == Seq(STRING \ {"?"})
Nowhere == <<"?">>
Node == [kind : {"file", "dir"}, to : {<<>>}] \cup [kind : {"link"}, to : Paths]

ASSUME FsAssumption ==
    /\ SyncCalls \subseteq Calls /\ Root \in DOMAIN InitialTree /\ MaxLinks \in Nat
    /\ FsOps \subseteq {"readFile", "readdir", "stat", "lstat", "writeFile", "mkdir", "unlink", "rename"}
    /\ FsPaths \subseteq Paths \ {<<>>}
    /\ InitialTree = [p \in DOMAIN InitialTree |-> InitialTree[p]]
    /\ \A p \in DOMAIN InitialTree :
         /\ p \in Paths /\ InitialTree[p] \in Node
         /\ p # <<>> => Front(p) \in DOMAIN InitialTree /\ InitialTree[Front(p)].kind = "dir"

VARIABLES
    tree,       \* the file system: of each real path what is there
    mode,       \* "root", "unrestricted", or "broken": an invalid configuration
    linkPolicy, \* whether there is a SymlinkPolicy
    call        \* the calls
fsVars == <<tree, mode, linkPolicy, call>>

-------------------------------------------------------------------------------
Modes == {"root", "unrestricted", "broken"}
Looking == {"leaf", "destParent", "destLeaf", "authorize", "use", "remove"}
Stages == {"none", "parent", "settle", "done", "lost"} \cup Looking
Existing == {"readFile", "readdir", "stat"}
Making == {"writeFile", "mkdir"}
Escaping == <<"..">>

NoCall == [op |-> "stat", path |-> <<>>, dest |-> <<>>, stage |-> "none", result |-> "",
           target |-> <<>>, destTarget |-> <<>>, symlink |-> FALSE,
           asked |-> {}, touched |-> {}, linked |-> FALSE, disturbed |-> FALSE]

FsInit ==
    /\ tree = InitialTree /\ mode \in Modes /\ linkPolicy \in BOOLEAN
    /\ call = [c \in Calls |-> NoCall]

-------------------------------------------------------------------------------
\* The operating system: where a path leads, every link followed.
IsLink(p) == p \in DOMAIN tree /\ tree[p].kind = "link"
Barred(p) == {i \in 1..Len(p) : IsLink(SubSeq(p, 1, i)) \/ SubSeq(p, 1, i) \notin DOMAIN tree}
Solid(p) == p \in DOMAIN tree /\ Barred(p) = {}
\* The first link of a path replaced by where it leads, if the path gets so far.
Follow(p) ==
    LET first == Min(Barred(p))
        link == SubSeq(p, 1, first)
    IN IF Barred(p) # {} /\ IsLink(link) THEN tree[link].to \o SubSeq(p, first + 1, Len(p)) ELSE p
Followed(p) ==
    LET after[n \in 0..MaxLinks] == IF n = 0 THEN p ELSE Follow(after[n - 1])
    IN after[MaxLinks]
EvalSymlinks(p) == IF Solid(Followed(p)) THEN Followed(p) ELSE Nowhere
\* The entry itself: links are followed up to its directory.
Entry(p) ==
    IF p = <<>> THEN p
    ELSE LET dir == EvalSymlinks(Front(p))
         IN IF dir \in DOMAIN tree /\ tree[dir].kind = "dir" THEN Append(dir, Last(p)) ELSE Nowhere

IsWithin(p) == IsPrefix(Root, p)
FullPath(p) == Root \o p    \* the host's directory, if it is unrestricted

-------------------------------------------------------------------------------
\* A call begins on the owner, which no synchronous call may hold.  A path that
\* escapes, or an invalid configuration, denies it at once.
Busy == \E c \in SyncCalls : call[c].stage \notin {"none", "done"}
Finished(calls, c, result) ==
    [calls EXCEPT ![c].result = result,
                  ![c].stage = IF c \in SyncCalls THEN "done" ELSE "settle"]

FsCall(c, op, path, dest) ==
    /\ call[c].stage = "none" /\ ~Busy
    /\ op # "rename" => dest = path
    /\ Escaping \in {path, dest} => mode # "unrestricted"
    /\ LET k == [NoCall EXCEPT !.op = op, !.path = path, !.dest = dest]
           denied == mode = "broken" \/ Escaping \in {path, dest}
       IN call' = [call EXCEPT ![c] =
                     IF denied THEN [k EXCEPT !.stage = "done", !.result = "denied"]
                     ELSE [k EXCEPT !.stage = "parent"]]
    /\ UNCHANGED <<tree, mode, linkPolicy>>

\* Every look at the files and every use of them may fail, for what is not there or
\* for reasons of the system's own; and more than the configured number of bytes to
\* write fail before the first.
Fails(c) ==
    /\ call[c].stage \in {"parent"} \cup (Looking \ {"authorize"})
    /\ call' = Finished(call, c, "error") /\ UNCHANGED <<tree, mode, linkPolicy>>

-------------------------------------------------------------------------------
\* The looks, one file system call each: where the name leads, through a link or
\* not.  In the root mode a place outside of the root is denied.
Denied(resolved) == mode = "root" /\ ~IsWithin(resolved)
Resolved(c, target, link, stage) ==
    call' = [call EXCEPT ![c].target = target, ![c].symlink = @ \/ link, ![c].stage = stage]
ResolvedDest(c, target, link, stage) ==
    call' = [call EXCEPT ![c].destTarget = target, ![c].symlink = @ \/ link, ![c].stage = stage]

\* resolveLeaf: the directory.
ResolveLeaf(c) ==
    /\ call[c].stage = "parent"
    /\ LET given == FullPath(call[c].path)
           parent == EvalSymlinks(Front(given))
       IN /\ parent # Nowhere
          /\ IF Denied(parent) THEN call' = Finished(call, c, "denied")
             ELSE Resolved(c, Append(parent, Last(given)), parent # Front(given), "leaf")
    /\ UNCHANGED <<tree, mode, linkPolicy>>

\* resolveExisting: then the target itself.
ResolveUnchecked(c) ==    \* mutant
    /\ call[c].stage = "leaf" /\ call[c].op \in Existing
    /\ LET resolved == EvalSymlinks(call[c].target)
       IN /\ resolved # Nowhere
          /\ Resolved(c, resolved, resolved # call[c].target, "authorize")
    /\ UNCHANGED <<tree, mode, linkPolicy>>
ResolveExisting(c) ==
    /\ call[c].stage = "leaf" /\ call[c].op \in Existing
    /\ LET resolved == EvalSymlinks(call[c].target)
       IN /\ resolved # Nowhere
          /\ IF Denied(resolved) THEN call' = Finished(call, c, "denied")
             ELSE Resolved(c, resolved, resolved # call[c].target, "authorize")
    /\ UNCHANGED <<tree, mode, linkPolicy>>

\* resolveWriteTarget: a link at the target is denied in the root mode.  What is not
\* there is no link.
ResolveWriteTarget(c) ==
    /\ call[c].stage = "leaf" /\ call[c].op \in Making
    /\ LET link == IsLink(Entry(call[c].target))
       IN IF link /\ mode = "root" THEN call' = Finished(call, c, "denied")
          ELSE Resolved(c, call[c].target, link, "authorize")
    /\ UNCHANGED <<tree, mode, linkPolicy>>

\* lstat, unlink and rename: a link is only noted; rename wants something there.
LookAtLeaf(c) ==
    /\ call[c].stage = "leaf" /\ call[c].op \notin Existing \cup Making
    /\ LET entry == Entry(call[c].target)
           rename == call[c].op = "rename"
       IN /\ rename => entry \in DOMAIN tree
          /\ Resolved(c, call[c].target, IsLink(entry),
                      IF rename THEN "destParent" ELSE "authorize")
    /\ UNCHANGED <<tree, mode, linkPolicy>>

\* The destination of a rename: resolveWriteTarget, in its two looks.
ResolveDestLeaf(c) ==
    /\ call[c].stage = "destParent"
    /\ LET given == FullPath(call[c].dest)
           parent == EvalSymlinks(Front(given))
       IN /\ parent # Nowhere
          /\ IF Denied(parent) THEN call' = Finished(call, c, "denied")
             ELSE ResolvedDest(c, Append(parent, Last(given)), parent # Front(given), "destLeaf")
    /\ UNCHANGED <<tree, mode, linkPolicy>>
ResolveDestTarget(c) ==
    /\ call[c].stage = "destLeaf"
    /\ LET link == IsLink(Entry(call[c].destTarget))
       IN IF link /\ mode = "root" THEN call' = Finished(call, c, "denied")
          ELSE ResolvedDest(c, call[c].destTarget, link, "authorize")
    /\ UNCHANGED <<tree, mode, linkPolicy>>

-------------------------------------------------------------------------------
\* authorize: the policy, and for a link the policy for links, which only the
\* root mode does without.
AuthorizeOnce(c) ==    \* mutant
    /\ call[c].stage = "authorize"
    /\ \/ call' = Finished(call, c, "denied")
       \/ call' = [call EXCEPT ![c].stage = "use", ![c].asked = {"policy"}]
    /\ UNCHANGED <<tree, mode, linkPolicy>>
Authorize(c) ==
    /\ call[c].stage = "authorize"
    /\ LET asks == IF call[c].symlink /\ linkPolicy THEN {"policy", "links"} ELSE {"policy"}
       IN \/ call' = Finished(call, c, "denied")
          \/ /\ call[c].symlink /\ mode = "unrestricted" => linkPolicy
             /\ call' = [call EXCEPT ![c].stage = "use", ![c].asked = asks]
    /\ UNCHANGED <<tree, mode, linkPolicy>>

-------------------------------------------------------------------------------
\* The file system is used by name: all links of the target are followed again.
\* ThroughLink is about the names the call was given, as the files are now.
OnLink(p) == \E i \in 1..Len(p) : IsLink(SubSeq(p, 1, i))
ThroughLink(k) == OnLink(FullPath(k.path)) \/ OnLink(FullPath(k.dest))
Used(c, touched) ==
    [call EXCEPT ![c].touched = @ \cup touched, ![c].linked = @ \/ ThroughLink(call[c])]

\* What was opened may fail to be read, or be too long.
Look(c) ==
    /\ call[c].stage = "use" /\ call[c].op \in Existing \cup {"lstat"}
    /\ LET p == IF call[c].op = "lstat" THEN Entry(call[c].target) ELSE EvalSymlinks(call[c].target)
       IN /\ p \in DOMAIN tree
          /\ \E result \in {"ok", "error"} : call' = Finished(Used(c, {p}), c, result)
    /\ UNCHANGED <<tree, mode, linkPolicy>>

\* os.WriteFile: through a link it creates the file where that leads.
Without(p) == [q \in DOMAIN tree \ {p} |-> tree[q]]
With(p, kind) ==
    [q \in DOMAIN tree \cup {p} |-> IF q = p THEN [kind |-> kind, to |-> <<>>] ELSE tree[q]]
IsDir(p) == Solid(p) /\ tree[p].kind = "dir"
CanOpen(p) ==
    \/ Solid(p) /\ tree[p].kind = "file"
    \/ p \notin DOMAIN tree /\ p # <<>> /\ IsDir(Front(p))
WriteFile(c) ==
    /\ call[c].stage = "use" /\ call[c].op = "writeFile"
    /\ LET p == Followed(call[c].target)
       IN /\ CanOpen(p) /\ tree' = With(p, "file")
          /\ \E result \in {"ok", "error"} : call' = Finished(Used(c, {p}), c, result)
    /\ UNCHANGED <<mode, linkPolicy>>

Mkdir(c) ==
    /\ call[c].stage = "use" /\ call[c].op = "mkdir"
    /\ LET p == Entry(call[c].target)
       IN /\ p # Nowhere /\ p \notin DOMAIN tree
          /\ tree' = With(p, "dir") /\ call' = Finished(Used(c, {p}), c, "ok")
    /\ UNCHANGED <<mode, linkPolicy>>

\* unlink looks first, for directories; os.Remove then removes an empty one too.
LookBeforeRemove(c) ==
    /\ call[c].stage = "use" /\ call[c].op = "unlink"
    /\ LET p == Entry(call[c].target)
       IN /\ p \in DOMAIN tree
          /\ call' = IF tree[p].kind = "dir" THEN Finished(Used(c, {p}), c, "error")
                     ELSE [Used(c, {p}) EXCEPT ![c].stage = "remove"]
    /\ UNCHANGED <<tree, mode, linkPolicy>>
RemoveFile(c) ==
    /\ call[c].stage = "remove"
    /\ LET p == Entry(call[c].target)
       IN /\ p \in DOMAIN tree /\ \A r \in DOMAIN tree : ~IsStrictPrefix(p, r)
          /\ tree' = Without(p) /\ call' = Finished(Used(c, {p}), c, "ok")
    /\ UNCHANGED <<mode, linkPolicy>>

\* os.Rename moves what is at p, with all that is below, to q.
Moved(p, q) ==
    LET new == {IF IsPrefix(p, r) THEN q \o SubSeq(r, Len(p) + 1, Len(r)) ELSE r :
                  r \in DOMAIN tree \ {q}}
    IN [r \in new |-> IF IsPrefix(q, r) THEN tree[p \o SubSeq(r, Len(q) + 1, Len(r))] ELSE tree[r]]
CanMove(p, q) ==
    /\ p \in DOMAIN tree /\ q # Nowhere /\ ~IsPrefix(p, q) /\ ~IsPrefix(q, p)
    /\ q \in DOMAIN tree =>
         /\ tree[p].kind = "dir" <=> tree[q].kind = "dir"
         /\ \A r \in DOMAIN tree : ~IsStrictPrefix(q, r)
\* A link that was moved is where the other calls did not see it.
Links(files) == {p \in DOMAIN files : files[p].kind = "link"}
Disturb(calls, c) ==
    [d \in Calls |-> IF d # c /\ calls[d].stage \in Looking /\ ~(Links(tree') \subseteq Links(tree))
                     THEN [calls[d] EXCEPT !.disturbed = TRUE] ELSE calls[d]]
Rename(c) ==
    /\ call[c].stage = "use" /\ call[c].op = "rename"
    /\ LET p == Entry(call[c].target)
           q == Entry(call[c].destTarget)
       IN /\ \/ p = q /\ p \in DOMAIN tree /\ UNCHANGED tree
             \/ CanMove(p, q) /\ tree' = Moved(p, q)
          /\ call' = Disturb(Finished(Used(c, {p, q}), c, "ok"), c)
    /\ UNCHANGED <<mode, linkPolicy>>

\* The result goes to the context, which may refuse it; nobody is told then.
Settle(c) ==
    /\ call[c].stage = "settle"
    /\ \E stage \in {"done", "lost"} : call' = [call EXCEPT ![c].stage = stage]
    /\ UNCHANGED <<tree, mode, linkPolicy>>

FsNext ==
    \E c \in Calls :
      \/ \E op \in FsOps, p, d \in FsPaths \cup {Escaping} : FsCall(c, op, p, d)
      \/ ResolveLeaf(c) \/ ResolveExisting(c) \/ ResolveWriteTarget(c) \/ LookAtLeaf(c)
      \/ ResolveDestLeaf(c) \/ ResolveDestTarget(c) \/ Authorize(c)
      \/ Look(c) \/ WriteFile(c) \/ Mkdir(c) \/ LookBeforeRemove(c) \/ RemoveFile(c) \/ Rename(c)
      \/ Fails(c) \/ Settle(c)

FsSpec == FsInit /\ [][FsNext]_fsVars

-------------------------------------------------------------------------------
\* Properties

FsTypeOK ==
    /\ \A p \in DOMAIN tree : tree[p].kind \in {"file", "dir", "link"}
    /\ \A p \in DOMAIN tree : p # <<>> => Front(p) \in DOMAIN tree /\ tree[Front(p)].kind = "dir"
    /\ mode \in Modes /\ linkPolicy \in BOOLEAN
    /\ \A c \in Calls : /\ call[c].stage \in Stages
                        /\ call[c].result \in {"", "ok", "error", "denied"}
                        /\ call[c].asked \subseteq {"policy", "links"}

\* With a root, what a call uses is in it, and so is what a policy was asked about,
\* whatever other calls write, make, remove or rename between its looks and its use -
\* unless one of them moved a link (or a directory with one in it) meanwhile: the
\* code follows the links of an authorized name again.
Confined ==
    mode = "root" => \A c \in Calls : ~call[c].disturbed =>
      /\ \A p \in call[c].touched : IsWithin(p)
      /\ call[c].stage \in {"authorize", "use", "remove"} =>
           /\ IsWithin(call[c].target)
           /\ call[c].op = "rename" => IsWithin(call[c].destTarget)

\* Nothing is used before the policy was asked.  And a call that uses a name which at
\* that moment leads through a link, or is one, has asked the policy for links, if
\* there is one, and if there is none has come so far in the root mode only - unless
\* another call moved a link after this one had begun to look.
LinksAuthorized ==
    \A c \in Calls : call[c].touched # {} =>
      /\ "policy" \in call[c].asked
      /\ call[c].linked /\ ~call[c].disturbed =>
           IF linkPolicy THEN "links" \in call[c].asked ELSE mode = "root"
================================================================================
