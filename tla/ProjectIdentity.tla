-------------------------- MODULE ProjectIdentity --------------------------
(***************************************************************************)
(* The project work is attributed to (project.rs): the repository a        *)
(* directory is in, named by its main checkout, so that a linked worktree  *)
(* and a subdirectory count as the repository they belong to and no two    *)
(* repositories as one.  Repositories are made, linked to and removed      *)
(* beneath the sessions that work in them, and the pointers between their  *)
(* parts go stale.                                                         *)
(*                                                                         *)
(* A directory of git is named by the folder it is stored in, how it is    *)
(* stored there and, inside another repository's, for which folder.  One   *)
(* that serves a linked worktree lies inside the one it shares with the    *)
(* rest of the repository, and records it (commondir).                     *)
(***************************************************************************)
EXTENDS Naturals, Sequences, FiniteSetsExt

CONSTANTS
  Folders,     \* directories, by their resolved paths
  Links,       \* paths that lead to one through a symbolic link
  LeadsTo,      \* link -> the folder it leads to
  Above,       \* path -> itself and what it is in, as it is spelled, nearest first
  Branches,
  MaxChanges   \* bound: changes to the repositories

Nowhere == "nowhere"

\* What a HEAD names: a branch, or none: it is detached, or a placeholder for a reftable's.
Heads == Branches \cup {"detached"}

ASSUME IdentityAssumption ==
  /\ Nowhere \notin Folders /\ Links \cap Folders = {} /\ LeadsTo \in [Links -> Folders]
  /\ \A p \in Folders \cup Links : Above[p] # <<>> /\ Head(Above[p]) = p
  /\ Above \in [Folders \cup Links -> Seq(Folders \cup Links)]
  /\ \A d \in Folders : Above[d] \in Seq(Folders)
  /\ MaxChanges \in Nat

VARIABLES
  present,     \* the folders that exist
  dot,         \* folder -> the git directory its .git is or names
  heads,       \* the git directories that exist, with the HEAD each holds
  checkout,    \* history: folder -> what was last checked out there
  changes

gvars == <<present, dot, heads, checkout, changes>>

GitDirectory == [store : {"checkout", "bare", "separate", "module"}, at : Folders,
                 name : Folders \cup {Nowhere}, link : Folders \cup {Nowhere}]

Own(d)       == [store |-> "checkout", at |-> d, name |-> Nowhere, link |-> Nowhere]
NoGit        == [Own("-") EXCEPT !.at = Nowhere]
Common(g)    == [g EXCEPT !.link = Nowhere]
Standing(g)    == g \in DOMAIN heads
-----------------------------------------------------------------------------
(* What hatel makes of a path.                                             *)

Real(path) == IF path \in Links THEN LeadsTo[path] ELSE path

\* git_root: the nearest path, as it is spelled, with a .git in it, a directory or a file.
GitRoot(path) ==
  LET holds == {i \in DOMAIN Above[path] : dot[Real(Above[path][i])] # NoGit} IN
  IF holds = {} THEN Nowhere ELSE Above[path][Min(holds)]

\* Whatever the shared directory is called, its parent is the checkout.
WrongMainWorktree(tree) ==
  LET g == dot[tree] IN
  IF ~Standing(g) \/ g.link = Nowhere THEN Nowhere
  ELSE IF g.store = "checkout" THEN g.at
  ELSE IF g.store = "module" \/ Len(Above[g.at]) = 1 THEN Nowhere ELSE Above[g.at][2]

\* main_worktree: the checkout that holds the directory a linked worktree shares, where it is
\* called .git; a .git file that leads nowhere, and a shared directory no checkout holds, name none.
MainWorktree(tree) ==
  LET g == dot[tree] IN
  IF Standing(g) /\ g.link # Nowhere /\ Standing(Common(g)) /\ Common(g).store = "checkout"
  THEN g.at ELSE Nowhere

\* project_of: its key.
ProjectOf(d) ==
  LET tree == GitRoot(d) IN
  IF tree = Nowhere \/ MainWorktree(tree) = Nowhere THEN tree ELSE MainWorktree(tree)

\* resolve_project: of the path the file system resolves.
ResolveProject(path) == IF Real(path) \in present THEN ProjectOf(Real(path)) ELSE Nowhere

\* project_selector of an absolute path; one that is not there is the key it may have been.
ProjectSelector(path) ==
  IF Real(path) \in present THEN ProjectOf(Real(path)) ELSE path

\* git_branch, of the containing tree's own HEAD.
GitBranch(path) ==
  LET tree == GitRoot(path) IN
  IF tree # Nowhere /\ Standing(dot[Real(tree)]) /\ heads[dot[Real(tree)]] \in Branches
  THEN heads[dot[Real(tree)]] ELSE Nowhere
-----------------------------------------------------------------------------
(* What git and people do to the folders.                                  *)

Changed == changes < MaxChanges /\ changes' = changes + 1

Free(d) == d \in present /\ dot[d] = NoGit /\ ~\E g \in DOMAIN heads : g.at = d

\* A HEAD is written; it is that of every folder whose .git leads there.
Writes(g, h) ==
  /\ h \in Heads
  /\ heads' = [x \in DOMAIN heads \cup {g} |-> IF x = g THEN h ELSE heads[x]]
  /\ checkout' = [d \in Folders |-> IF dot'[d] = g THEN h ELSE checkout[d]]

\* A git directory appears, with the .git of folder d leading to it.
Serves(g, d, h) ==
  /\ Changed
  /\ dot' = [dot EXCEPT ![d] = g] /\ Writes(g, h)
  /\ UNCHANGED present

\* git init, with the directory inside the checkout or held elsewhere.
GitInit(d, h) == Free(d) /\ Serves(Own(d), d, h)

GitInitSeparate(d, s, h) ==
  /\ d # s /\ Free(d) /\ Free(s)
  /\ Serves([Own(s) EXCEPT !.store = "separate"], d, h)

GitInitBare(d, h) ==
  /\ Changed /\ Free(d)
  /\ UNCHANGED <<present, dot>> /\ Writes([Own(d) EXCEPT !.store = "bare"], h)

\* git worktree add, from any repository.
LinkWorktree(g, d, h) ==
  /\ g.link = Nowhere /\ d # g.at /\ Free(d)
  /\ Serves([g EXCEPT !.link = d], d, h)

\* git submodule add: a repository whose directory the surrounding one keeps.
AddSubmodule(g, d, h) ==
  /\ g.store = "checkout" /\ g.link = Nowhere /\ d # g.at /\ Free(d)
  /\ \E i \in DOMAIN Above[d] : Above[d][i] = g.at
  /\ Serves([g EXCEPT !.store = "module", !.name = d], d, h)

CheckOut(d, h) ==
  /\ Changed /\ d \in present /\ Standing(dot[d]) /\ heads[dot[d]] # h
  /\ UNCHANGED <<present, dot>> /\ Writes(dot[d], h)

\* A folder goes with all in it; what names a git directory that was stored there stays.
RemoveFolder(d) ==
  LET gone == {e \in Folders : \E i \in DOMAIN Above[e] : Above[e][i] = d} IN
  /\ Changed /\ d \in present
  /\ present' = present \ gone
  /\ dot' = [e \in Folders |-> IF e \in gone THEN NoGit ELSE dot[e]]
  /\ heads' = [g \in {x \in DOMAIN heads : x.at \notin gone} |-> heads[g]]
  /\ UNCHANGED checkout

MakeFolder(d) ==
  /\ Changed /\ d \notin present /\ \A i \in 2..Len(Above[d]) : Above[d][i] \in present
  /\ present' = present \cup {d}
  /\ UNCHANGED <<dot, heads, checkout>>
-----------------------------------------------------------------------------
GInit ==
  /\ present = Folders /\ dot = [d \in Folders |-> NoGit] /\ heads = <<>> /\ changes = 0
  /\ checkout = [d \in Folders |-> "detached"]

GNext ==
  \/ \E d \in Folders, h \in Heads :
       \/ GitInit(d, h) \/ GitInitBare(d, h) \/ CheckOut(d, h)
       \/ \E s \in Folders : GitInitSeparate(d, s, h)
       \/ \E g \in DOMAIN heads : LinkWorktree(g, d, h) \/ AddSubmodule(g, d, h)
  \/ \E d \in Folders : RemoveFolder(d) \/ MakeFolder(d)

GSpec == GInit /\ [][GNext]_gvars
-----------------------------------------------------------------------------
InRepositories == {d \in present : GitRoot(d) # Nowhere}

\* The repository git finds from a folder: the directory its parts share.
Repository(d) ==
  IF Standing(dot[GitRoot(d)]) THEN Common(dot[GitRoot(d)]) ELSE NoGit

(* Two folders have one project only if they are in one tree or git finds  *)
(* one repository from both, however its parts are stored, linked and      *)
(* removed; and all that a repository with a checkout of its own is        *)
(* checked out to is that checkout's project (the docs of main_worktree    *)
(* and project_of).                                                        *)
OneProjectARepository ==
  \A d, e \in InRepositories :
    /\ ProjectOf(d) = ProjectOf(e) =>
         \/ GitRoot(d) = GitRoot(e)
         \/ Repository(d) # NoGit /\ Repository(d) = Repository(e)
    /\ Repository(d).store = "checkout" /\ Repository(d) # NoGit =>
         ProjectOf(d) = Repository(d).at

(* A query from any path that leads to a folder finds what was recorded    *)
(* there, whichever path the session named it by; and the branch of a      *)
(* session is the one its own tree has checked out, not its repository's   *)
(* main checkout (project_selector, git_branch).                           *)
SelectorFinds ==
  /\ \A p \in Folders \cup Links : Real(p) \in present =>
       {ResolveProject(p), ProjectSelector(p)} = {ResolveProject(Real(p))}
  /\ \A d \in InRepositories : GitBranch(d) # Nowhere => GitBranch(d) = checkout[GitRoot(d)]

\* Work is attributed to the repository it is done in, and found there.
ProjectsStandForRepositories == OneProjectARepository /\ SelectorFinds
=============================================================================
