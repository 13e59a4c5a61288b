-------------------------------- MODULE Ftw ---------------------------------
(***************************************************************************)
(* 04.filedir/07_ftw.c: myftw() walks a directory tree with the recursive  *)
(* dopath(), which builds the path of each entry in one buffer that grows. *)
(* The recursion is the stack of directories being read.  A path is the    *)
(* sequence of its names and "/"; what counts is whose path it is and how  *)
(* long.  lstat(), opendir(), readdir() and closedir() may fail; malloc()  *)
(* and realloc() do not.                                                   *)
(***************************************************************************)
EXTENDS Naturals, Sequences, FiniteSets, Functions

CONSTANTS
  Entries,   \* bound: how many entries a tree has
  Kind,      \* kinds of entries, "DIR" is one
  NAME_MAX,  \* the longest name in a directory
  PATH_MAX,  \* the longest path as limits.h has it
  RootLength \* lengths of the argument of the program

ASSUME ParametersAssumption ==
  /\ Entries \in Nat \ {0} /\ "DIR" \in Kind
  /\ NAME_MAX \in Nat \ {0} /\ RootLength \subseteq Nat \ {0}
  /\ PATH_MAX \in Nat /\ PATH_MAX > NAME_MAX + 1

Entry == 1..Entries

VARIABLES
  tree,     \* parent, kind and name length of each entry; entry 1 is the argument
  stack,    \* directories being read: the entry, its n, the names not read yet
  place,    \* "start", "dopath", "return" or "done"
  ret,      \* what the dopath() that has just returned gave
  fullpath, pathlen,
  count,    \* the counters nreg, ..., by kind; count["DIR"] is ndir
  ntot,
  visited,  \* how often each entry was passed to myfunc() and could be stat'ed
  failed    \* the calls that failed: which, and for which entry

walkVars == <<tree, stack, place, ret, fullpath, pathlen, count, ntot, visited, failed>>

Child(d) == {e \in Entry \ {1} : tree.parent[e] = d}

\* All trees: the parent of an entry has a smaller number and is a directory.
WalkInit ==
  /\ tree \in [parent : {f \in [Entry -> Entry] : f[1] = 1 /\ \A e \in Entry \ {1} : f[e] < e},
               kind : [Entry -> Kind], name : {1, NAME_MAX}, root : RootLength]
  /\ \A e \in Entry \ {1} : tree.kind[tree.parent[e]] = "DIR"
  /\ stack = <<>> /\ place = "start" /\ ret = 0
  /\ fullpath = <<>> /\ pathlen = 0
  /\ count = [k \in Kind |-> 0] /\ ntot = 0
  /\ visited = [e \in Entry |-> 0] /\ failed = {}

-----------------------------------------------------------------------------
\* How many characters an element of a path has, and all that a path has.
Width(t) == IF t = 0 THEN 1 ELSE IF t = 1 THEN tree.root ELSE tree.name
Characters(path) ==
  {c \in (1..Len(path)) \X (1..(tree.root + tree.name)) : c[2] <= Width(path[c[1]])}
Length(path) == Cardinality(Characters(path))

\* The path, in which 0 stands for "/", leads to an entry.
Leads(path) == \A j \in 3..Len(path) : path[j] # 0 => path[j - 1] = 0 /\ path[j] \in Child(path[j - 2])

\* limits.h defines PATH_MAX; systems older than POSIX.1-2001 do not count the 0 at
\* the end of a path in it.
path_alloc(old) == IF old THEN PATH_MAX + 1 ELSE PATH_MAX

\* The argument is copied to a buffer that can hold it.
Myftw ==
  /\ place = "start"
  /\ \E old \in BOOLEAN :
       pathlen' = IF path_alloc(old) <= tree.root THEN tree.root * 2 ELSE path_alloc(old)
  /\ fullpath' = <<1>>
  /\ place' = "dopath"
  /\ UNCHANGED <<tree, stack, ret, count, ntot, visited, failed>>

Here == fullpath[Len(fullpath)]

\* dopath() returns 0 to the directory being read, or to main().
Return == place' = "return" /\ ret' = 0

\* Mutant: myfunc() returns something else than 0.
StatError_NotZero ==
  /\ place = "dopath"
  /\ failed' = failed \cup {<<"lstat", Here>>}
  /\ place' = "return" /\ ret' = 1
  /\ UNCHANGED <<tree, stack, fullpath, pathlen, count, ntot, visited>>

\* lstat() fails; so it does for a path that leads nowhere.
StatError ==
  /\ place = "dopath"
  /\ failed' = failed \cup {<<"lstat", Here>>}
  /\ Return
  /\ UNCHANGED <<tree, stack, fullpath, pathlen, count, ntot, visited>>

\* myfunc(): FTW_FILE counts the kind of the file and falls through to ++ndir.
Count(c, kind) == [k \in Kind |-> IF k \in {kind, "DIR"} THEN c[k] + 1 ELSE c[k]]

Visit(e) ==
  /\ place = "dopath" /\ Leads(fullpath) /\ e = Here
  /\ visited' = [visited EXCEPT ![e] = @ + 1]
  /\ count' = Count(count, tree.kind[e])

VisitFile ==
  \E e \in Entry :
    /\ Visit(e) /\ tree.kind[e] # "DIR"
    /\ Return
    /\ UNCHANGED <<tree, stack, fullpath, pathlen, ntot, failed>>

\* Mutant: the name that follows is forgotten.
Grown_NoName(l) == IF l + 2 > pathlen THEN pathlen * 2 ELSE pathlen

\* Room for "/", a name and the 0 at the end.
Grown(l) == IF l + NAME_MAX + 2 > pathlen THEN pathlen * 2 ELSE pathlen

\* A directory is counted, the buffer grows, a "/" is appended, which stays there when
\* opendir() fails.
VisitDirectory ==
  \E e \in Entry :
    /\ Visit(e) /\ tree.kind[e] = "DIR"
    /\ pathlen' = Grown(Length(fullpath))
    /\ fullpath' = Append(fullpath, 0)
    /\ \/ /\ stack' = Append(stack, [dir |-> e, n |-> Len(fullpath'), names |-> Child(e)])
          /\ place' = "return" /\ ret' = 0
          /\ UNCHANGED failed
       \/ /\ failed' = failed \cup {<<"opendir", e>>}
          /\ Return
          /\ UNCHANGED stack
    /\ UNCHANGED <<tree, ntot>>

Top == stack[Len(stack)]

\* readdir() returns the next name, which replaces the last one.
ReadDir ==
  /\ place = "return" /\ stack # <<>> /\ ret = 0
  /\ \E e \in Top.names :
       /\ fullpath' = Append(SubSeq(fullpath, 1, Top.n), e)
       /\ stack' = [stack EXCEPT ![Len(stack)].names = @ \ {e}]
  /\ place' = "dopath"
  /\ UNCHANGED <<tree, ret, pathlen, count, ntot, visited, failed>>

\* readdir() fails, which the loop takes for the end of the directory: the names that
\* are left are not read.
ReadError ==
  /\ place = "return" /\ stack # <<>> /\ ret = 0 /\ Top.names # {}
  /\ stack' = [stack EXCEPT ![Len(stack)].names = {}]
  /\ failed' = failed \cup {<<"readdir", Top.dir>>}
  /\ UNCHANGED <<tree, place, ret, fullpath, pathlen, count, ntot, visited>>

\* No more names, or a dopath() returned something else than 0: the "/" goes, and the
\* directory is closed.  Only a failure of closedir() is returned.
CloseDir ==
  /\ place = "return" /\ stack # <<>> /\ (Top.names = {} \/ ret # 0)
  /\ fullpath' = SubSeq(fullpath, 1, Top.n - 1)
  /\ stack' = SubSeq(stack, 1, Len(stack) - 1)
  /\ \/ ret' = 0 /\ UNCHANGED failed
     \/ ret' = 1 /\ failed' = failed \cup {<<"closedir", Top.dir>>}
  /\ UNCHANGED <<tree, place, pathlen, count, ntot, visited>>

\* main() adds up, without nchr.
AddUp ==
  /\ place = "return" /\ stack = <<>>
  /\ LET sum == SumFunctionOnSet(count, Kind \ {"CHR"}) IN
     ntot' = IF sum = 0 THEN 1 ELSE sum
  /\ place' = "done"
  /\ UNCHANGED <<tree, stack, ret, fullpath, pathlen, count, visited, failed>>

WalkNext == Myftw \/ StatError \/ VisitFile \/ VisitDirectory \/ ReadDir \/ ReadError \/ CloseDir
            \/ AddUp

WalkSpec == WalkInit /\ [][WalkNext]_walkVars

-----------------------------------------------------------------------------
\* Whenever dopath() looks at fullpath it is the path of an entry, whatever failed
\* before and left a "/" or the names of a deeper directory behind; and every path
\* written fits the buffer, its 0 included, although the buffer is doubled only once.
PathFits ==
  /\ place = "dopath" => Leads(fullpath)
  /\ Length(fullpath) < pathlen \/ place = "start"

\* e and the directories above it: what is in every set that has e and, with an entry,
\* its parent.
Above(e) ==
  {a \in Entry : \A S \in SUBSET Entry :
     e \in S /\ (\A b \in S : tree.parent[b] \in S) => a \in S}

\* e is not visited because lstat() failed for it or above, opendir() or readdir() above
\* it, or closedir() for an entry next to it or to one of those above: dopath() returns
\* -1 then, the loop of the parent ends, and the parent returns 0.
Skipped(e) ==
  \E a \in Above(e) :
    \/ <<"lstat", a>> \in failed
    \/ a # e /\ {<<"opendir", a>>, <<"readdir", a>>} \cap failed # {}
    \/ a # 1 /\ \E b \in Child(tree.parent[a]) \ {a} : <<"closedir", b>> \in failed

Number(k) == Cardinality({e \in Entry : visited[e] = 1 /\ tree.kind[e] = k})

\* At the end every entry was visited once, or has a reason why not.  Each counter is
\* the number of entries of its kind, but ndir is the number of all entries: a file is
\* counted as a directory too (07_ftw:126).  The exit status tells of a failed
\* closedir() of the argument itself only (07_ftw:88): not of a readdir() that has
\* failed (07_ftw:84).
WalkComplete ==
  place = "done" =>
    /\ \A e \in Entry : visited[e] = 1 \/ (visited[e] = 0 /\ Skipped(e))
    /\ \A k \in Kind \ {"DIR"} : count[k] = Number(k)
    /\ count["DIR"] = Cardinality({e \in Entry : visited[e] = 1})
    /\ ret # 0 <=> <<"closedir", 1>> \in failed
=============================================================================
