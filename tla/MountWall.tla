----------------------------- MODULE MountWall -----------------------------
(***************************************************************************)
(* The mount wall (ql-enforce, enforcers/mount.rs): each denied pattern is *)
(* expanded against the live file system and everything it names is        *)
(* covered, in the cell's mount namespace, with an empty tmpfs or with     *)
(* /dev/null, while the host goes on creating, removing, replacing,        *)
(* mounting and changing modes.  The kernel's part: a mount covers what    *)
(* stands under a name, and taking the name away on the host takes the     *)
(* mount with it.  A sealed directory can be searched by ql and by the     *)
(* agent, and not listed (mode 0711).  There are no symbolic links, and    *)
(* the cell itself mounts nothing more.                                    *)
(***************************************************************************)
EXTENDS Naturals, Sequences, SequencesExt, FiniteSets

CONSTANTS
  Names,     \* the names of files and directories
  Paths,     \* the paths of interest: sequences of names, closed under prefixes
  Star,      \* the component that stands for any name
  MaxMade    \* bound: how often the host makes something at a path

ASSUME PathAssumption ==
  /\ Paths \subseteq Seq(Names) /\ IsFiniteSet(Paths)
  /\ \A p \in Paths : p # <<>> /\ (Len(p) > 1 => Front(p) \in Paths)
  /\ MaxMade \in Nat

Dirs == {"dir", "sealed"}

\* The patterns a profile denies, without the root alone.
Patterns == [comps : Seq(Names \cup {Star}) \ {<<>>}, deep : BOOLEAN]

VARIABLES
  kind,      \* kind[p]: what the host has at p: "none", "file", "dir", or one "sealed"
  made,      \* made[p]: how often something was made at p, to tell one from the next
  cover,     \* cover[p]: what the cell has over p: "none", "tmpfs", "null", or a mount of the "host"
  private,   \* the host's mounts no longer reach the cell
  todo,      \* the denied patterns not expanded yet
  targets,   \* what the last one named and is not covered yet
  stood      \* history: <<path, made>> of what stood under a pattern when it was expanded,
             \* where the directories that its wildcards go through could be listed

mountVars == <<kind, made, cover, private, todo, targets, stood>>

MountInit(patterns) ==
  /\ kind \in [Paths -> {"none", "file"} \cup Dirs]
  /\ \A p \in Paths : Len(p) > 1 /\ kind[p] # "none" => kind[Front(p)] \in Dirs
  /\ made = [p \in Paths |-> 0]
  /\ cover = [p \in Paths |-> "none"]
  /\ private = FALSE
  /\ todo = patterns /\ targets = <<>> /\ stood = {}

-----------------------------------------------------------------------------
(* What the cell sees.                                                     *)

Above(p) == {q \in Paths : q # p /\ IsPrefix(q, p)}

Hidden(p) == \E q \in Above(p) : cover[q] # "none"

\* symlink_metadata(), in the cell.
Sees(p) == IF Hidden(p) THEN "none"
           ELSE CASE cover[p] = "tmpfs" -> "dir"
                  [] cover[p] = "null"  -> "file"
                  [] OTHER              -> kind[p]

\* Something of the host's can be read at p.
Reads(p) == ~Hidden(p) /\ cover[p] \in {"none", "host"} /\ kind[p] # "none"

\* read_dir(); the root can be listed.
Lists(d) == d = <<>> \/ Sees(d) = "dir"

\* MountEnforcer::expand(), component by component from the root: a wildcard goes
\* into what can be listed, and passes over what cannot.
Descend(frontier, comp) ==
  {p \in Paths : /\ Front(p) \in frontier /\ Sees(p) # "none"
                 /\ IF comp = Star THEN Lists(Front(p)) ELSE comp = Last(p)}

Expand(pattern) ==
  FoldLeft(LAMBDA frontier, comp : Descend(frontier, comp), {<<>>}, pattern.comps)

Component(g, n) == g = Star \/ g = n

\* No wildcard of the pattern stands for a name in a sealed directory above p.
Listable(p, pattern) ==
  \A i \in DOMAIN pattern.comps :
    pattern.comps[i] = Star /\ i > 1 => kind[SubSeq(p, 1, i - 1)] # "sealed"

\* path_matches(): what Profile::admits_path tells of the wall; a trailing
\* /** takes in what lies below.
PathMatches(p, pattern) ==
  /\ IF pattern.deep THEN Len(p) >= Len(pattern.comps) ELSE Len(p) = Len(pattern.comps)
  /\ \A i \in DOMAIN pattern.comps : Component(pattern.comps[i], p[i])

-----------------------------------------------------------------------------
(* The wall, in the child.  Any system call that fails refuses the run.    *)

Host == UNCHANGED <<kind, made>>

MakeRootPrivate == ~private /\ private' = TRUE /\ UNCHANGED <<cover, todo, targets, stood>> /\ Host

ExpandNext ==
  /\ private /\ targets = <<>> /\ todo # <<>>
  /\ todo' = Tail(todo)
  /\ targets' \in SetToSeqs(Expand(Head(todo)))
  /\ stood' = stood \cup {<<p, made[p]>> :
                 p \in {q \in Paths : /\ kind[q] # "none" /\ PathMatches(q, Head(todo))
                                      /\ Listable(q, Head(todo))}}
  /\ UNCHANGED <<private, cover>> /\ Host

\* Mutant: only directories are covered.
HideDirectories ==
  /\ targets # <<>>
  /\ targets' = Tail(targets)
  /\ cover' = IF Sees(Head(targets)) \in Dirs THEN [cover EXCEPT ![Head(targets)] = "tmpfs"] ELSE cover
  /\ UNCHANGED <<private, todo, stood>> /\ Host

\* hide_dir, hide_file, or nothing for a target that has vanished.
Hide ==
  /\ targets # <<>>
  /\ targets' = Tail(targets)
  /\ LET p == Head(targets) IN
       cover' = CASE Sees(p) \in Dirs -> [cover EXCEPT ![p] = "tmpfs"]
                  [] Sees(p) = "file"  -> [cover EXCEPT ![p] = "null"]
                  [] OTHER             -> cover
  /\ UNCHANGED <<private, todo, stood>> /\ Host

Walled == private /\ todo = <<>> /\ targets = <<>>

-----------------------------------------------------------------------------
(* The host, meanwhile.                                                    *)

Wall == UNCHANGED <<private, todo, targets, stood>>

\* A new file or directory, also one that is renamed over what was there.
HostMakes(p) ==
  /\ made[p] < MaxMade
  /\ Len(p) > 1 => kind[Front(p)] \in Dirs
  /\ \A q \in Paths : p \in Above(q) => kind[q] = "none"
  /\ \E k \in Dirs \cup {"file"} : kind' = [kind EXCEPT ![p] = k]
  /\ made' = [made EXCEPT ![p] = @ + 1]
  /\ cover' = [cover EXCEPT ![p] = "none"]
  /\ Wall

HostRemoves(p) ==
  /\ kind[p] # "none"
  /\ \A q \in Paths : p \in Above(q) => kind[q] = "none"
  /\ kind' = [kind EXCEPT ![p] = "none"]
  /\ cover' = [cover EXCEPT ![p] = "none"]
  /\ UNCHANGED made /\ Wall

\* chmod(2) of a directory.
HostSeals(p) ==
  /\ kind[p] \in Dirs
  /\ \E k \in Dirs : kind' = [kind EXCEPT ![p] = k]
  /\ UNCHANGED <<made, cover>> /\ Wall

HostMounts(p) ==
  /\ kind[p] \in Dirs /\ ~private
  /\ cover' = [cover EXCEPT ![p] = "host"]
  /\ Host /\ Wall
=============================================================================
